-------------------------- MODULE MuxWriterProofs --------------------------
(***************************************************************************)
(* The sample tables and the payload never get out of step, for every set  *)
(* of tracks, every source and every interleaving of the puts.             *)
(*                                                                         *)
(* The inductive invariant follows the block on its way.  The entries of   *)
(* stco that describe the block form a chain: each one lies the size of    *)
(* its slice before the next, and the chain ends at the local offset       *)
(* while the tables are built, at CurrMDatOffset afterwards.  The mdat     *)
(* file always ends where the chain says that the next slice belongs.      *)
(*                                                                         *)
(* From that invariant: the types are right, blocks of a track without B   *)
(* frames start with an IFrame, and the writer implements the log of       *)
(* MuxLog.                                                                 *)
(***************************************************************************)
EXTENDS MuxWriter, SequenceTheorems, FiniteSetTheorems, WellFoundedInduction, TLAPS

SizeAt(t, i) == SliceAt(t, i).size

(* How many slices of the block are in the tables, and in the mdat.        *)
Described == IF phase = "tables" THEN job.next - 1 ELSE Len(job.slices)
Landed    == IF phase = "tables" THEN 0 ELSE job.next - 1

(* The entries of stco before those of the block.                          *)
Base == Len(stco[job.track]) - Described

(* Where the chain of the block ends, and its i-th link.                   *)
Edge  == IF phase = "tables" THEN job.offset ELSE currMDatOffset
Link(entries, base, count, edge, i) == IF i <= count THEN entries[base + i] ELSE edge
At(i) == Link(stco[job.track], Base, Described, Edge, i)

Flushed(t) == \E k \in DOMAIN MediaTracks : k < flushing /\ MediaTracks[k] = t
Waiting(t) == ~Flushed(t) /\ (phase = "idle" \/ job.track # t)

Types ==
  /\ put \in [Tracks -> Nat]
  /\ \A t \in Tracks : put[t] <= Len(Source[t])
  /\ buffered \in [Tracks -> Seq(Nat)]
  /\ stco \in [Tracks -> Seq(Nat)]
  /\ currMDatOffset \in Nat
  /\ mdat \in Seq([track : Tracks, index : Nat, at : Nat])
  /\ mdatLength \in Nat
  /\ job \in [track : Tracks, slices : Seq(Nat), next : Nat, offset : Nat, rest : Seq(Nat)]
  /\ phase \in {"idle", "tables", "data"}
  /\ flushing \in Nat

(* A track that is not being written holds the slices after those in its   *)
(* tables, up to the last one put.                                         *)
HoldsTheRest ==
  \A t \in Tracks : Waiting(t) =>
    /\ Len(stco[t]) + Len(buffered[t]) = put[t]
    /\ \A j \in DOMAIN buffered[t] : buffered[t][j] = Len(stco[t]) + j - 1

(* So does the track of the block, with what was held back.                *)
BlockIsNext ==
  phase # "idle" =>
    /\ job.next \in 1 .. Len(job.slices) + 1
    /\ Base \in Nat
    /\ \A j \in DOMAIN job.slices : job.slices[j] = Base + j - 1
    /\ \A j \in DOMAIN job.rest : job.rest[j] = Base + Len(job.slices) + j - 1
    /\ Base + Len(job.slices) + Len(job.rest) = put[job.track]
    /\ flushing # 0 => flushing \in DOMAIN MediaTracks /\ MediaTracks[flushing] = job.track

Chain ==
  /\ phase # "data" => currMDatOffset = mdatLength + 8
  /\ phase # "idle" =>
       /\ At(Landed + 1) = mdatLength + 8
       /\ \A i \in 1 .. Described : At(i + 1) = At(i) + SizeAt(job.track, job.slices[i])

(* Every entry of stco, those of slices still to be written excepted, is   *)
(* where the slice is.                                                     *)
InPlace(t, n) ==
  \E r \in DOMAIN mdat :
    mdat[r].track = t /\ mdat[r].index = n - 1 /\ stco[t][n] = mdat[r].at + 8

EntriesInPlace ==
  \A t \in Tracks : \A n \in DOMAIN stco[t] :
    (phase = "idle" \/ t # job.track \/ n <= Base + Landed) => InPlace(t, n)

IInv == Types /\ HoldsTheRest /\ BlockIsNext /\ Chain /\ EntriesInPlace /\ NeverOutOfStep

-----------------------------------------------------------------------------
(***************************************************************************)
(* A slice that was put is one of the source, with a size.                 *)
(***************************************************************************)
LEMMA SliceOfSource ==
  ASSUME NEW t \in Tracks, NEW i \in Nat, i < Len(Source[t])
  PROVE  /\ SliceAt(t, i) \in Slice
         /\ SizeAt(t, i) \in Nat
  <1>1. Source[t] \in Seq(Slice) /\ i + 1 \in 1 .. Len(Source[t])
    BY SourceAssumption
  <1>2. SliceAt(t, i) \in Slice
    BY <1>1 DEF SliceAt
  <1> QED
    BY <1>2 DEF SizeAt, Slice

(***************************************************************************)
(* Appending to the sequence of one track.                                 *)
(***************************************************************************)
LEMMA AppendTo ==
  ASSUME NEW S, NEW f \in [Tracks -> Seq(S)], NEW t \in Tracks, NEW e \in S,
         NEW g, g = [f EXCEPT ![t] = Append(@, e)]
  PROVE  /\ g \in [Tracks -> Seq(S)]
         /\ Len(f[t]) \in Nat /\ DOMAIN f[t] = 1 .. Len(f[t])
         /\ Len(g[t]) = Len(f[t]) + 1 /\ DOMAIN g[t] = 1 .. Len(f[t]) + 1
         /\ g[t][Len(f[t]) + 1] = e
         /\ \A n \in 1 .. Len(f[t]) : g[t][n] = f[t][n]
         /\ \A u \in Tracks : u # t => g[u] = f[u]
  OBVIOUS

LEMMA AppendKeeps ==
  ASSUME NEW S, NEW s \in Seq(S), NEW e \in S, NEW r \in DOMAIN s
  PROVE  r \in DOMAIN Append(s, e) /\ Append(s, e)[r] = s[r]
  OBVIOUS

(***************************************************************************)
(* The slice of the block that is taken next.                              *)
(***************************************************************************)
LEMMA NextOfBlock ==
  ASSUME IInv, phase # "idle", job.next <= Len(job.slices)
  PROVE  /\ job.track \in Tracks
         /\ job.slices[job.next] = Base + job.next - 1
         /\ job.slices[job.next] \in Nat
         /\ job.slices[job.next] < put[job.track]
         /\ SliceAt(job.track, job.slices[job.next]) \in Slice
         /\ SizeAt(job.track, job.slices[job.next]) \in Nat
  <1>1. job.track \in Tracks /\ job.next \in 1 .. Len(job.slices)
    BY DEF IInv, Types, BlockIsNext
  <1>2. job.slices[job.next] = Base + job.next - 1 /\ job.slices[job.next] \in Nat
    <2>1. job.slices \in Seq(Nat) /\ job.next \in DOMAIN job.slices
      BY <1>1 DEF IInv, Types
    <2>2. job.slices[job.next] = Base + job.next - 1
      BY <2>1 DEF IInv, BlockIsNext
    <2> QED
      BY <2>1, <2>2
  <1>3. job.slices[job.next] < put[job.track]
    BY <1>1, <1>2 DEF IInv, Types, BlockIsNext
  <1>4. put[job.track] <= Len(Source[job.track]) /\ Len(Source[job.track]) \in Nat
    BY <1>1, SourceAssumption DEF IInv, Types
  <1>5. job.slices[job.next] < Len(Source[job.track])
    BY <1>1, <1>2, <1>3, <1>4 DEF IInv, Types
  <1> QED
    BY <1>1, <1>2, <1>3, <1>5, SliceOfSource

LEMMA InitIInv == Init => IInv
  <1> SUFFICES ASSUME Init PROVE IInv
    OBVIOUS
  <1>1. MediaTracks[1] \in Tracks
    BY TracksAssumption
  <1>2. Types
    BY <1>1, SourceAssumption DEF Init, Types, NoJob
  <1>3. HoldsTheRest
    BY DEF Init, HoldsTheRest
  <1>4. BlockIsNext /\ Chain /\ EntriesInPlace /\ NeverOutOfStep
    BY DEF Init, BlockIsNext, Chain, EntriesInPlace, NeverOutOfStep
  <1> QED
    BY <1>2, <1>3, <1>4 DEF IInv

(***************************************************************************)
(* A step that touches none of what the invariant is about, other than an  *)
(* exception of another kind.                                              *)
(***************************************************************************)
LEMMA StutterPreserves ==
  ASSUME IInv, error' # "mismatch",
         UNCHANGED <<put, buffered, stco, currMDatOffset, mdat, mdatLength, job, phase, flushing>>
  PROVE  IInv'
  <1>1. Described' = Described /\ Landed' = Landed /\ Base' = Base /\ Edge' = Edge
    BY DEF Described, Landed, Base, Edge
  <1>2. \A i : At(i)' = At(i)
    BY <1>1 DEF At
  <1>3. Types' /\ HoldsTheRest' /\ NeverOutOfStep'
    BY DEF IInv, Types, HoldsTheRest, Waiting, Flushed, NeverOutOfStep
  <1>4. BlockIsNext'
    BY <1>1 DEF IInv, BlockIsNext
  <1>5. Chain'
    <2>1. Chain
      BY DEF IInv
    <2> QED
      BY <2>1, <1>1, <1>2 DEF Chain, SizeAt, SliceAt
  <1>6. EntriesInPlace'
    BY <1>1 DEF IInv, EntriesInPlace, InPlace
  <1> QED
    BY <1>3, <1>4, <1>5, <1>6 DEF IInv

JobType == [track : Tracks, slices : Seq(Nat), next : Nat, offset : Nat, rest : Seq(Nat)]

LEMMA AddToTablesPreserves == IInv /\ AddToTables => IInv'
  <1> SUFFICES ASSUME IInv, AddToTables PROVE IInv'
    OBVIOUS
  <1>1. PICK T, next, size :
          /\ T = job.track /\ next = job.next /\ size = SizeAt(T, job.slices[next])
    OBVIOUS
  <1>2. /\ phase = "tables" /\ phase' = "tables"
        /\ next <= Len(job.slices)
        /\ job' = [job EXCEPT !.next = @ + 1, !.offset = @ + size]
        /\ stco' = [stco EXCEPT ![T] = Append(@, job.offset)]
        /\ UNCHANGED <<put, buffered, currMDatOffset, mdat, mdatLength, flushing, error>>
    BY <1>1 DEF AddToTables, SetFileOffsetForChunk, SizeAt, mdatVars, endVars
  <1>3. job \in JobType /\ stco \in [Tracks -> Seq(Nat)]
    BY DEF IInv, Types, JobType
  <1>4. T \in Tracks /\ next \in Nat \ {0} /\ job.offset \in Nat /\ size \in Nat
    <2>1. size \in Nat /\ T \in Tracks
      BY <1>1, <1>2, NextOfBlock
    <2>2. next \in 1 .. Len(job.slices) + 1
      BY <1>1, <1>2 DEF IInv, BlockIsNext
    <2> QED
      BY <2>1, <2>2, <1>3 DEF JobType
  <1>5. PICK K \in Nat : K = Len(stco[T])
    BY <1>3, <1>4
  <1>6. /\ stco' \in [Tracks -> Seq(Nat)]
        /\ DOMAIN stco[T] = 1 .. K
        /\ Len(stco'[T]) = K + 1 /\ DOMAIN stco'[T] = 1 .. K + 1
        /\ stco'[T][K + 1] = job.offset
        /\ \A n \in 1 .. K : stco'[T][n] = stco[T][n]
        /\ \A u \in Tracks : u # T => stco'[u] = stco[u]
    BY <1>2, <1>3, <1>4, <1>5, AppendTo
  <1>7. /\ job'.track = T /\ job'.slices = job.slices /\ job'.rest = job.rest
        /\ job'.next = next + 1 /\ job'.offset = job.offset + size
    BY <1>1, <1>2, <1>3 DEF JobType
  <1>8. job' \in JobType
    <2>1. job' = [track |-> T, slices |-> job.slices, next |-> next + 1,
                  offset |-> job.offset + size, rest |-> job.rest]
      BY <1>1, <1>2, <1>3 DEF JobType
    <2>2. job.slices \in Seq(Nat) /\ job.rest \in Seq(Nat)
      BY <1>3 DEF JobType
    <2> QED
      BY <2>1, <2>2, <1>4 DEF JobType
  <1>9. Types'
    BY <1>2, <1>6, <1>8 DEF IInv, Types, JobType
  <1>10. Described = next - 1 /\ Described' = next /\ Landed = 0 /\ Landed' = 0
    BY <1>1, <1>2, <1>4, <1>7 DEF Described, Landed
  <1>11. PICK base \in Nat : base = Base /\ base = Base' /\ K = base + (next - 1)
    <2>1. Base = K - (next - 1) /\ Base' = (K + 1) - next
      BY <1>1, <1>5, <1>6, <1>7, <1>10 DEF Base
    <2>2. Base \in Nat
      BY <1>2 DEF IInv, BlockIsNext
    <2> QED
      BY <2>1, <2>2, <1>4
  <1>12. HoldsTheRest'
    BY <1>1, <1>2, <1>6, <1>7 DEF IInv, HoldsTheRest, Waiting, Flushed
  <1>13. BlockIsNext'
    <2>1. next + 1 \in 1 .. Len(job.slices) + 1
      BY <1>2, <1>3, <1>4 DEF JobType
    <2>2. BlockIsNext
      BY DEF IInv
    <2> QED
      BY <2>1, <2>2, <1>1, <1>2, <1>7, <1>11 DEF BlockIsNext
  <1>14. Chain'
    <2>1. /\ \A i \in 1 .. next : At(i)' = At(i)
          /\ At(next)' = job.offset
          /\ At(next + 1)' = job.offset + size
      <3>1. \A i : At(i) = Link(stco[T], base, next - 1, job.offset, i)
        BY <1>1, <1>2, <1>10, <1>11 DEF At, Edge
      <3>2. \A i : At(i)' = Link(stco'[T], base, next, job.offset + size, i)
        BY <1>2, <1>7, <1>10, <1>11 DEF At, Edge
      <3>5. /\ \A i \in 1 .. next :
                 Link(stco'[T], base, next, job.offset + size, i)
                   = Link(stco[T], base, next - 1, job.offset, i)
            /\ Link(stco'[T], base, next, job.offset + size, next) = job.offset
            /\ Link(stco'[T], base, next, job.offset + size, next + 1) = job.offset + size
        <4>1. ASSUME NEW i \in 1 .. next - 1
              PROVE  Link(stco'[T], base, next, job.offset + size, i)
                       = Link(stco[T], base, next - 1, job.offset, i)
          <5>1. i \in Nat /\ 1 <= i /\ i <= next - 1 /\ i <= next
            BY <1>4
          <5>2. K = base + (next - 1)
            BY <1>11
          <5>3. base + i \in 1 .. K
            BY <5>1, <5>2, <1>4
          <5> QED
            BY <5>1, <5>3, <1>6 DEF Link
        <4>2. /\ Link(stco'[T], base, next, job.offset + size, next) = job.offset
              /\ Link(stco[T], base, next - 1, job.offset, next) = job.offset
          <5>1. base + next = K + 1 /\ next <= next /\ ~(next <= next - 1)
            BY <1>4, <1>11
          <5> QED
            BY <5>1, <1>6 DEF Link
        <4>3. Link(stco'[T], base, next, job.offset + size, next + 1) = job.offset + size
          BY <1>4 DEF Link
        <4>4. \A i \in 1 .. next : i = next \/ i \in 1 .. next - 1
          BY <1>4
        <4> QED
          BY <4>1, <4>2, <4>3, <4>4
      <3> QED
        BY <3>1, <3>2, <3>5
    <2>2. ASSUME NEW n \in 1 .. next
          PROVE  At(n + 1)' = At(n)' + SizeAt(T, job.slices[n])
      <3>1. CASE n = next
        BY <3>1, <2>1, <1>1, <1>4
      <3>2. CASE n # next
        <4>1. n \in 1 .. next - 1 /\ n + 1 \in 1 .. next
          BY <3>2, <1>4
        <4>2. At(n + 1) = At(n) + SizeAt(T, job.slices[n])
          BY <4>1, <1>1, <1>2, <1>10 DEF IInv, Chain
        <4> QED
          BY <4>1, <4>2, <2>1
      <3> QED
        BY <3>1, <3>2
    <2>3. At(1)' = mdatLength' + 8 /\ currMDatOffset' = mdatLength' + 8
      <3>1. Chain
        BY DEF IInv
      <3>2. currMDatOffset = mdatLength + 8 /\ At(0 + 1) = mdatLength + 8
        BY <3>1, <1>2, <1>10 DEF Chain
      <3>3. 1 \in 1 .. next /\ 0 + 1 = 1
        BY <1>4
      <3>4. At(1)' = At(1)
        BY <2>1, <3>3
      <3> QED
        BY <3>2, <3>3, <3>4, <1>2
    <2> QED
      BY <2>2, <2>3, <1>2, <1>7, <1>10 DEF Chain, SizeAt, SliceAt
  <1>15. EntriesInPlace'
    <2> SUFFICES ASSUME NEW t \in Tracks, NEW n \in DOMAIN stco'[t],
                        t # T \/ n <= base
                 PROVE  InPlace(t, n)'
      BY <1>2, <1>7, <1>10, <1>11 DEF EntriesInPlace
    <2>1. n \in DOMAIN stco[t] /\ stco'[t][n] = stco[t][n]
      <3>1. CASE t # T
        BY <3>1, <1>6
      <3>2. CASE t = T
        <4>1. n \in 1 .. K
          BY <3>2, <1>4, <1>6, <1>11
        <4> QED
          BY <3>2, <4>1, <1>6
      <3> QED
        BY <3>1, <3>2
    <2>2. InPlace(t, n)
      BY <2>1, <1>1, <1>10, <1>11 DEF IInv, EntriesInPlace
    <2> QED
      BY <2>1, <2>2, <1>2 DEF InPlace
  <1> QED
    BY <1>2, <1>9, <1>12, <1>13, <1>14, <1>15 DEF IInv, NeverOutOfStep

(***************************************************************************)
(* When the tables of the block are done, CurrMDatOffset takes the end of  *)
(* its chain, and the mdat file is still at the start of it.               *)
(***************************************************************************)
LEMMA TablesDonePreserves == IInv /\ TablesDone => IInv'
  <1> SUFFICES ASSUME IInv, TablesDone PROVE IInv'
    OBVIOUS
  <1>1. /\ phase = "tables" /\ job.next > Len(job.slices)
        /\ UNCHANGED <<put, buffered, stco, mdat, mdatLength, flushing>>
    BY DEF TablesDone, tableVars, mdatVars, Fail, endVars
  <1>2. job \in JobType /\ job.track \in Tracks
        /\ Len(job.slices) \in Nat /\ job.next \in Nat
    BY DEF IInv, Types, JobType
  <1>3. job.next = Len(job.slices) + 1
    BY <1>1, <1>2 DEF IInv, BlockIsNext
  <1>4. CASE job.slices = <<>>
    <2>1. UNCHANGED <<currMDatOffset, job, phase>> /\ error' = "empty list"
      BY <1>4 DEF TablesDone, Fail
    <2> QED
      BY <1>1, <2>1, StutterPreserves
  <1>5. CASE job.slices # <<>>
    <2>1. /\ currMDatOffset' = job.offset /\ phase' = "data" /\ error' = error
          /\ job' = [job EXCEPT !.next = 1]
      BY <1>5 DEF TablesDone, endVars
    <2>2. /\ job'.track = job.track /\ job'.slices = job.slices /\ job'.rest = job.rest
          /\ job'.next = 1
      BY <2>1, <1>2 DEF JobType
    <2>3. job' \in JobType /\ job.offset \in Nat
      <3>1. job' = [track |-> job.track, slices |-> job.slices, next |-> 1,
                    offset |-> job.offset, rest |-> job.rest]
        BY <2>1, <1>2 DEF JobType
      <3> QED
        BY <3>1, <1>2 DEF JobType
    <2>4. Types'
      BY <1>1, <2>1, <2>3 DEF IInv, Types, JobType
    <2>5. Described' = Described /\ Described = Len(job.slices) /\ Landed' = 0 /\ Landed = 0
      BY <1>1, <1>2, <1>3, <2>1, <2>2 DEF Described, Landed
    <2>6. Base' = Base
      BY <1>1, <2>2, <2>5 DEF Base
    <2>7. Edge' = Edge
      BY <1>1, <2>1 DEF Edge
    <2>8. HoldsTheRest'
      BY <1>1, <2>1, <2>2 DEF IInv, HoldsTheRest, Waiting, Flushed
    <2>9. BlockIsNext'
      <3>1. BlockIsNext /\ 1 \in 1 .. Len(job.slices) + 1
        BY <1>2 DEF IInv
      <3> QED
        BY <3>1, <1>1, <2>2, <2>6 DEF BlockIsNext
    <2>10. Chain'
      <3>1. \A i : At(i)' = At(i)
        BY <1>1, <2>2, <2>5, <2>6, <2>7 DEF At
      <3>2. /\ At(1) = mdatLength + 8
            /\ \A i \in 1 .. Described : At(i + 1) = At(i) + SizeAt(job.track, job.slices[i])
        BY <1>1, <2>5 DEF IInv, Chain
      <3> QED
        BY <3>1, <3>2, <1>1, <2>1, <2>2, <2>5 DEF Chain, SizeAt, SliceAt
    <2>11. EntriesInPlace'
      BY <1>1, <2>1, <2>2, <2>5, <2>6 DEF IInv, EntriesInPlace, InPlace
    <2> QED
      BY <2>1, <2>4, <2>8, <2>9, <2>10, <2>11 DEF IInv, NeverOutOfStep
  <1> QED
    BY <1>4, <1>5

(***************************************************************************)
(* A slice written to the mdat lands where the next link of the chain is.  *)
(***************************************************************************)
LEMMA WriteSlicePreserves == IInv /\ WriteSlice => IInv'
  <1> SUFFICES ASSUME IInv, WriteSlice PROVE IInv'
    OBVIOUS
  <1>1. PICK T, next, i, size :
          T = job.track /\ next = job.next /\ i = job.slices[next] /\ size = SizeAt(T, i)
    OBVIOUS
  <1>2. /\ phase = "data" /\ phase' = "data" /\ next <= Len(job.slices)
        /\ mdat' = Append(mdat, [track |-> T, index |-> i, at |-> mdatLength])
        /\ mdatLength' = mdatLength + size
        /\ job' = [job EXCEPT !.next = @ + 1]
        /\ UNCHANGED <<put, buffered, stco, currMDatOffset, flushing, error>>
    BY <1>1 DEF WriteSlice, tableVars, endVars, SizeAt
  <1>3. /\ job \in JobType /\ stco \in [Tracks -> Seq(Nat)] /\ mdatLength \in Nat
        /\ mdat \in Seq([track : Tracks, index : Nat, at : Nat])
        /\ Len(job.slices) \in Nat /\ currMDatOffset \in Nat
    BY DEF IInv, Types, JobType
  <1>4. /\ T \in Tracks /\ next \in Nat \ {0} /\ size \in Nat /\ i \in Nat
        /\ i = Base + next - 1
    <2>1. size \in Nat /\ T \in Tracks /\ i \in Nat /\ i = Base + next - 1
      BY <1>1, <1>2, NextOfBlock
    <2>2. next \in 1 .. Len(job.slices) + 1
      BY <1>1, <1>2 DEF IInv, BlockIsNext
    <2> QED
      BY <2>1, <2>2, <1>3
  <1>5. /\ job'.track = T /\ job'.slices = job.slices /\ job'.rest = job.rest
        /\ job'.next = next + 1 /\ job'.offset = job.offset
    BY <1>1, <1>2, <1>3 DEF JobType
  <1>6. job' \in JobType
    <2>1. job' = [track |-> T, slices |-> job.slices, next |-> next + 1,
                  offset |-> job.offset, rest |-> job.rest]
      BY <1>1, <1>2, <1>3 DEF JobType
    <2> QED
      BY <2>1, <1>3, <1>4 DEF JobType
  <1>7. mdat' \in Seq([track : Tracks, index : Nat, at : Nat])
    BY <1>2, <1>3, <1>4
  <1>8. Types'
    <2>1. mdatLength + size \in Nat
      BY <1>3, <1>4
    <2>2. Types
      BY DEF IInv
    <2> QED
      BY <2>1, <2>2, <1>2, <1>6, <1>7 DEF Types, JobType
  <1>9. Described' = Described /\ Described = Len(job.slices) /\ Landed' = next /\ Landed = next - 1
    BY <1>1, <1>2, <1>4, <1>5 DEF Described, Landed
  <1>10. Base' = Base /\ Base \in Nat
    BY <1>1, <1>2, <1>5, <1>9 DEF Base, IInv, BlockIsNext
  <1>11. \A k : At(k)' = At(k)
    BY <1>1, <1>2, <1>5, <1>9, <1>10 DEF At, Edge
  <1>12. HoldsTheRest'
    BY <1>1, <1>2, <1>5 DEF IInv, HoldsTheRest, Waiting, Flushed
  <1>13. BlockIsNext'
    <2>1. BlockIsNext /\ next + 1 \in 1 .. Len(job.slices) + 1
      BY SMTT(30), ZenonT(60), <1>2, <1>3, <1>4 DEF IInv
    <2> QED
      BY <2>1, <1>1, <1>2, <1>5, <1>10 DEF BlockIsNext
  <1>14. At(next) = mdatLength + 8 /\ At(next + 1) = At(next) + size
    <2>1. next \in 1 .. Described /\ Landed + 1 = next
      <3>1. next \in Nat \ {0} /\ next <= Len(job.slices) /\ Len(job.slices) \in Nat
        BY <1>2, <1>3, <1>4
      <3>2. next \in 1 .. Len(job.slices) /\ (next - 1) + 1 = next
        BY <3>1
      <3> QED
        BY <3>2, <1>9
    <2> QED
      BY <2>1, <1>1, <1>2 DEF IInv, Chain
  <1>15. Chain'
    <2>1. At(Landed + 1)' = mdatLength' + 8
      BY <1>2, <1>3, <1>4, <1>9, <1>11, <1>14
    <2>2. \A k \in 1 .. Described : At(k + 1) = At(k) + SizeAt(T, job.slices[k])
      BY <1>1, <1>2 DEF IInv, Chain
    <2> QED
      BY <2>1, <2>2, <1>2, <1>5, <1>9, <1>11 DEF Chain, SizeAt, SliceAt
  <1>16. EntriesInPlace'
    <2> SUFFICES ASSUME NEW t \in Tracks, NEW n \in DOMAIN stco[t], t # T \/ n <= Base + next
                 PROVE  InPlace(t, n)'
      BY <1>2, <1>5, <1>9, <1>10 DEF EntriesInPlace
    <2>1. n \in Nat
      <3>1. DOMAIN stco[t] = 1 .. Len(stco[t])
        BY <1>3
      <3> QED
        BY <3>1
    <2>2. CASE t # T \/ n <= Base + (next - 1)
      <3>1. InPlace(t, n)
        BY <2>2, <1>1, <1>9 DEF IInv, EntriesInPlace
      <3>2. PICK r \in DOMAIN mdat :
              mdat[r].track = t /\ mdat[r].index = n - 1 /\ stco[t][n] = mdat[r].at + 8
        BY <3>1 DEF InPlace
      <3>3. r \in DOMAIN mdat' /\ mdat'[r] = mdat[r]
        <4>1. [track |-> T, index |-> i, at |-> mdatLength] \in [track : Tracks, index : Nat, at : Nat]
          BY <1>3, <1>4
        <4>2. mdat \in Seq([track : Tracks, index : Nat, at : Nat])
          BY <1>3
        <4>3. mdat' = Append(mdat, [track |-> T, index |-> i, at |-> mdatLength])
          BY <1>2
        <4> QED
          BY ONLY <4>1, <4>2, <4>3, r \in DOMAIN mdat, AppendKeeps
      <3> QED
        BY <3>2, <3>3, <1>2 DEF InPlace
    <2>3. CASE t = T /\ n > Base + (next - 1)
      <3>1. n \in Nat /\ n = Base + next
        BY <2>3, <2>1, <1>4, <1>10
      <3>2. stco[t][n] = mdatLength + 8
        <4>1. At(next) = stco[T][Base + next]
          BY <1>1, <1>2, <1>9 DEF At, Link
        <4> QED
          BY <4>1, <3>1, <2>3, <1>14
      <3>3. /\ Len(mdat) + 1 \in DOMAIN mdat'
            /\ mdat'[Len(mdat) + 1] = [track |-> T, index |-> i, at |-> mdatLength]
        BY SMTT(30), ZenonT(60), <1>2, <1>3, <1>4
      <3>4. i = n - 1
        BY <3>1, <1>4, <1>10
      <3> QED
        BY <3>2, <3>3, <3>4, <2>3, <1>2 DEF InPlace
    <2> QED
      BY <2>1, <2>2, <2>3, <1>4, <1>10
  <1> QED
    BY <1>2, <1>8, <1>12, <1>13, <1>15, <1>16 DEF IInv, NeverOutOfStep

(***************************************************************************)
(* When all slices of a block are written its chain has been followed to   *)
(* the end, which is CurrMDatOffset: CheckMDatOffset is satisfied.         *)
(***************************************************************************)
LEMMA SamplesWrittenPreserves == IInv /\ SamplesWritten => IInv'
  <1> SUFFICES ASSUME IInv, SamplesWritten PROVE IInv'
    OBVIOUS
  <1>1. PICK T : T = job.track
    OBVIOUS
  <1>2. /\ phase = "data" /\ job.next > Len(job.slices)
        /\ UNCHANGED <<put, stco, currMDatOffset, mdat, mdatLength>>
    BY DEF SamplesWritten, tableVars, mdatVars
  <1>3. /\ T \in Tracks /\ Len(job.slices) \in Nat /\ job.next \in Nat /\ job.rest \in Seq(Nat)
        /\ stco \in [Tracks -> Seq(Nat)] /\ buffered \in [Tracks -> Seq(Nat)]
        /\ currMDatOffset \in Nat /\ mdatLength \in Nat /\ flushing \in Nat
    BY <1>1 DEF IInv, Types
  <1>4. Landed = Len(job.slices) /\ Described = Len(job.slices)
    <2>1. job.next = Len(job.slices) + 1
      BY <1>2, <1>3 DEF IInv, BlockIsNext
    <2> QED
      BY <2>1, <1>2, <1>3 DEF Landed, Described
  <1>5. mdatLength = currMDatOffset - 8
    <2>1. At(Landed + 1) = mdatLength + 8
      BY <1>2 DEF IInv, Chain
    <2>2. At(Landed + 1) = currMDatOffset
      <3>1. ~(Landed + 1 <= Described)
        BY <1>3, <1>4
      <3> QED
        BY <3>1, <1>2 DEF At, Link, Edge
    <2> QED
      BY <2>1, <2>2, <1>3
  <1>6. /\ phase' = "idle" /\ job' = NoJob /\ error' = error
        /\ \/ flushing = 0 /\ flushing' = 0 /\ buffered' = [buffered EXCEPT ![T] = job.rest]
           \/ flushing # 0 /\ flushing' = flushing + 1 /\ buffered' = buffered
    BY <1>1, <1>5 DEF SamplesWritten, endVars
  <1>7. Len(stco[T]) = Base + Len(job.slices) /\ Base \in Nat
    <2>1. Len(stco[T]) \in Nat /\ Base = Len(stco[T]) - Len(job.slices)
      BY <1>1, <1>3, <1>4 DEF Base
    <2>2. Base \in Nat
      BY <1>2 DEF IInv, BlockIsNext
    <2> QED
      BY <2>1, <2>2, <1>3
  <1>8. Types'
    <2>1. NoJob \in JobType
      BY TracksAssumption DEF NoJob, JobType
    <2>2. flushing' \in Nat
      BY <1>3, <1>6
    <2>3. buffered' \in [Tracks -> Seq(Nat)]
      BY <1>3, <1>6
    <2> QED
      BY <2>1, <2>2, <2>3, <1>2, <1>6 DEF IInv, Types, JobType
  <1>9. HoldsTheRest'
    <2> SUFFICES ASSUME NEW t \in Tracks, Waiting(t)'
                 PROVE  /\ Len(stco[t]) + Len(buffered'[t]) = put[t]
                        /\ \A j \in DOMAIN buffered'[t] : buffered'[t][j] = Len(stco[t]) + j - 1
      BY <1>2 DEF HoldsTheRest
    <2>1. CASE t = T
      <3>1. flushing = 0
        <4>1. SUFFICES ASSUME flushing # 0 PROVE FALSE
          OBVIOUS
        <4>2. flushing \in DOMAIN MediaTracks /\ MediaTracks[flushing] = T
          BY <4>1, <1>1, <1>2 DEF IInv, BlockIsNext
        <4>3. flushing < flushing' /\ flushing' = flushing + 1
          BY <4>1, <1>3, <1>6
        <4> QED
          BY <4>2, <4>3, <2>1 DEF Waiting, Flushed
      <3>2. buffered'[t] = job.rest
        BY <3>1, <2>1, <1>3, <1>6
      <3>3. Base + Len(job.slices) + Len(job.rest) = put[T]
        BY <1>1, <1>2 DEF IInv, BlockIsNext
      <3>4. \A j \in DOMAIN job.rest : job.rest[j] = Base + Len(job.slices) + j - 1
        BY <1>2 DEF IInv, BlockIsNext
      <3> QED
        BY <3>2, <3>3, <3>4, <2>1, <1>7
    <2>2. CASE t # T
      <3>1. buffered'[t] = buffered[t]
        BY <2>2, <1>3, <1>6
      <3>2. ~Flushed(t)
        <4>1. SUFFICES ASSUME NEW k \in DOMAIN MediaTracks, k < flushing, MediaTracks[k] = t
                       PROVE  Flushed(t)'
          BY DEF Flushed, Waiting
        <4>2. k \in Nat
          BY TracksAssumption
        <4>3. k < flushing'
          BY <4>1, <4>2, <1>3, <1>6
        <4> QED
          BY <4>1, <4>3 DEF Flushed
      <3> QED
        BY <3>1, <3>2, <2>2, <1>1 DEF IInv, HoldsTheRest, Waiting
    <2> QED
      BY <2>1, <2>2
  <1>10. BlockIsNext' /\ Chain'
    BY <1>2, <1>3, <1>5, <1>6 DEF BlockIsNext, Chain
  <1>11. EntriesInPlace'
    <2> SUFFICES ASSUME NEW t \in Tracks, NEW n \in DOMAIN stco[t]
                 PROVE  InPlace(t, n)'
      BY <1>2 DEF EntriesInPlace
    <2>1. t # T \/ n <= Base + Landed
      <3>1. DOMAIN stco[t] = 1 .. Len(stco[t]) /\ Len(stco[t]) \in Nat
        BY <1>3
      <3> QED
        BY <3>1, <1>4, <1>7
    <2>2. InPlace(t, n)
      BY <2>1, <1>1 DEF IInv, EntriesInPlace
    <2> QED
      BY <2>2, <1>2 DEF InPlace
  <1> QED
    BY <1>6, <1>8, <1>9, <1>10, <1>11 DEF IInv, NeverOutOfStep

(***************************************************************************)
(* A block begun with the slices that follow those in the tables.          *)
(***************************************************************************)
LEMMA StartBlockPreserves ==
  ASSUME IInv, phase = "idle",
         NEW t \in Tracks, NEW slices \in Seq(Nat), NEW rest \in Seq(Nat),
         StartBlock(t, slices, rest),
         UNCHANGED <<stco, currMDatOffset, mdat, mdatLength, flushing, error>>,
         put' \in [Tracks -> Nat], put'[t] <= Len(Source[t]),
         \A u \in Tracks : u # t => put'[u] = put[u],
         Len(stco[t]) + Len(slices) + Len(rest) = put'[t],
         \A j \in DOMAIN slices : slices[j] = Len(stco[t]) + j - 1,
         \A j \in DOMAIN rest : rest[j] = Len(stco[t]) + Len(slices) + j - 1,
         flushing # 0 => flushing \in DOMAIN MediaTracks /\ MediaTracks[flushing] = t
  PROVE  IInv'
  <1>1. /\ phase' = "tables" /\ buffered' = [buffered EXCEPT ![t] = slices]
        /\ job' = [track |-> t, slices |-> slices, next |-> 1, offset |-> currMDatOffset, rest |-> rest]
    BY DEF StartBlock
  <1>2. /\ stco \in [Tracks -> Seq(Nat)] /\ buffered \in [Tracks -> Seq(Nat)]
        /\ currMDatOffset \in Nat /\ Len(slices) \in Nat /\ Len(stco[t]) \in Nat
    BY SMTT(30), ZenonT(60) DEF IInv, Types
  <1>3. Described' = 0 /\ Landed' = 0 /\ Base' = Len(stco[t]) /\ Edge' = currMDatOffset
    BY <1>1, <1>2 DEF Described, Landed, Base, Edge
  <1>4. Types'
    <2>1. \A u \in Tracks : put'[u] <= Len(Source[u])
      BY DEF IInv, Types
    <2>2. job' \in JobType /\ buffered' \in [Tracks -> Seq(Nat)]
      BY <1>1, <1>2 DEF JobType
    <2> QED
      BY <2>1, <2>2, <1>1 DEF IInv, Types, JobType
  <1>5. HoldsTheRest'
    <2> SUFFICES ASSUME NEW u \in Tracks, Waiting(u)'
                 PROVE  /\ Len(stco[u]) + Len(buffered'[u]) = put'[u]
                        /\ \A j \in DOMAIN buffered'[u] : buffered'[u][j] = Len(stco[u]) + j - 1
      BY DEF HoldsTheRest
    <2>1. u # t /\ Waiting(u)
      BY <1>1 DEF Waiting, Flushed
    <2>2. buffered'[u] = buffered[u] /\ put'[u] = put[u]
      BY <2>1, <1>1, <1>2
    <2> QED
      BY <2>1, <2>2 DEF IInv, HoldsTheRest
  <1>6. BlockIsNext'
    <2>1. 1 \in 1 .. Len(slices) + 1
      BY <1>2
    <2> QED
      BY <2>1, <1>1, <1>2, <1>3 DEF BlockIsNext
  <1>7. Chain'
    <2>1. currMDatOffset = mdatLength + 8
      BY DEF IInv, Chain
    <2>2. At(1)' = currMDatOffset
      BY <1>3 DEF At, Link
    <2> QED
      BY <2>1, <2>2, <1>1, <1>3 DEF Chain
  <1>8. EntriesInPlace'
    BY DEF IInv, EntriesInPlace, InPlace
  <1> QED
    BY <1>4, <1>5, <1>6, <1>7, <1>8 DEF IInv, NeverOutOfStep

(***************************************************************************)
(* A slice put is the next of its track, held after those already held;    *)
(* an IFrame that ends the block is held back.                             *)
(***************************************************************************)
LEMMA PutPreserves == \A t \in Tracks : IInv /\ Put(t) => IInv'
  <1> SUFFICES ASSUME IInv, NEW t \in Tracks, Put(t) PROVE IInv'
    OBVIOUS
  <1>1. PICK held, rest, n :
          held = Append(buffered[t], put[t]) /\ rest = HeldBack(t) /\ n = put[t]
    OBVIOUS
  <1>2. /\ phase = "idle" /\ flushing = 0 /\ n < Len(Source[t])
        /\ put' = [put EXCEPT ![t] = @ + 1]
        /\ UNCHANGED <<stco, currMDatOffset, mdat, mdatLength, flushing>>
    BY <1>1 DEF Put, Idle, mdatVars, Fail, endVars
  <1>3. /\ \/ buffered' = [buffered EXCEPT ![t] = held] /\ UNCHANGED <<job, phase>>
           \/ StartBlock(t, SlicesToWrite(held, rest), rest) /\ UNCHANGED error
        /\ error' \in {error, "block size"}
    BY <1>1 DEF Put, Fail, endVars
  <1>4. /\ put \in [Tracks -> Nat] /\ buffered \in [Tracks -> Seq(Nat)] /\ n \in Nat
        /\ stco \in [Tracks -> Seq(Nat)] /\ Len(stco[t]) \in Nat /\ Len(buffered[t]) \in Nat
        /\ Len(Source[t]) \in Nat
    BY SMTT(30), ZenonT(60), <1>1, SourceAssumption DEF IInv, Types
  <1>5. /\ put' \in [Tracks -> Nat] /\ put'[t] = n + 1 /\ put'[t] <= Len(Source[t])
        /\ \A u \in Tracks : u # t => put'[u] = put[u]
    BY <1>1, <1>2, <1>4
  <1>6. /\ held \in Seq(Nat) /\ Len(held) = Len(buffered[t]) + 1
        /\ Len(stco[t]) + Len(held) = n + 1 /\ held[Len(held)] = n
        /\ \A j \in DOMAIN held : held[j] = Len(stco[t]) + j - 1
    <2>1. Waiting(t)
      <3>1. ~Flushed(t)
        <4>1. \A k \in DOMAIN MediaTracks : ~(k < flushing)
          BY <1>2, TracksAssumption
        <4> QED
          BY <4>1 DEF Flushed
      <3> QED
        BY <3>1, <1>2 DEF Waiting
    <2>2. /\ Len(stco[t]) + Len(buffered[t]) = n
          /\ \A j \in DOMAIN buffered[t] : buffered[t][j] = Len(stco[t]) + j - 1
      BY <2>1, <1>1 DEF IInv, HoldsTheRest
    <2>3. /\ held \in Seq(Nat) /\ Len(held) = Len(buffered[t]) + 1
          /\ DOMAIN held = 1 .. Len(buffered[t]) + 1
          /\ \A j \in 1 .. Len(buffered[t]) : held[j] = buffered[t][j] /\ j \in DOMAIN buffered[t]
          /\ held[Len(buffered[t]) + 1] = n
      BY <1>1, <1>4
    <2>4. ASSUME NEW j \in DOMAIN held PROVE held[j] = Len(stco[t]) + j - 1
      <3>1. CASE j = Len(buffered[t]) + 1
        BY <3>1, <2>2, <2>3, <1>4
      <3>2. CASE j # Len(buffered[t]) + 1
        <4>1. j \in 1 .. Len(buffered[t])
          BY <3>2, <2>3, <1>4
        <4> QED
          BY <4>1, <2>2, <2>3
      <3> QED
        BY <3>1, <3>2
    <2> QED
      BY <2>2, <2>3, <2>4, <1>4
  <1>7. CASE buffered' = [buffered EXCEPT ![t] = held] /\ UNCHANGED <<job, phase>>
    <2>1. buffered' \in [Tracks -> Seq(Nat)]
      BY <1>4, <1>6, <1>7
    <2>2. Types'
      <3>1. Types /\ \A u \in Tracks : put'[u] <= Len(Source[u])
        BY <1>5 DEF IInv, Types
      <3> QED
        BY <3>1, <2>1, <1>2, <1>5, <1>7 DEF Types
    <2>3. HoldsTheRest'
      <3> SUFFICES ASSUME NEW u \in Tracks, Waiting(u)'
                   PROVE  /\ Len(stco[u]) + Len(buffered'[u]) = put'[u]
                          /\ \A j \in DOMAIN buffered'[u] : buffered'[u][j] = Len(stco[u]) + j - 1
        BY <1>2 DEF HoldsTheRest
      <3>1. CASE u = t
        BY <3>1, <1>4, <1>5, <1>6, <1>7
      <3>2. CASE u # t
        <4>1. buffered'[u] = buffered[u] /\ put'[u] = put[u]
          BY <3>2, <1>4, <1>5, <1>7
        <4>2. Waiting(u)
          BY <1>2, <1>7 DEF Waiting, Flushed
        <4> QED
          BY <4>1, <4>2 DEF IInv, HoldsTheRest
      <3> QED
        BY <3>1, <3>2
    <2>4. BlockIsNext' /\ Chain'
      BY <1>2, <1>7 DEF IInv, BlockIsNext, Chain
    <2>5. EntriesInPlace'
      BY <1>2, <1>7 DEF IInv, EntriesInPlace, InPlace
    <2> QED
      BY <2>2, <2>3, <2>4, <2>5, <1>3 DEF IInv, NeverOutOfStep
  <1>8. CASE StartBlock(t, SlicesToWrite(held, rest), rest) /\ UNCHANGED error
    <2>1. rest \in Seq(Nat) /\ (Len(rest) = 0 \/ (Len(rest) = 1 /\ rest[1] = n))
      BY <1>1, <1>4 DEF HeldBack
    <2>2. PICK slices : slices = SlicesToWrite(held, rest)
      OBVIOUS
    <2>3. PICK l \in Nat : l = Len(held) - Len(rest)
      <3>1. Len(held) - Len(rest) \in Nat
        <4>1. Len(held) \in Nat \ {0}
          BY <1>4, <1>6
        <4>2. Len(rest) = 0 \/ Len(rest) = 1
          BY <2>1
        <4> QED
          BY ONLY <4>1, <4>2
      <3> QED
        BY <3>1
    <2>4. /\ slices \in Seq(Nat) /\ Len(slices) = l /\ DOMAIN slices = 1 .. l
          /\ \A j \in 1 .. l : slices[j] = held[j]
      <3>1. slices = SubSeq(held, 1, l) /\ l <= Len(held)
        BY <2>1, <2>2, <2>3, <1>4, <1>6 DEF SlicesToWrite
      <3>2. l \in Int /\ 1 \in Int /\ \A j \in 1 .. l : held[j] \in Nat
        <4>1. held \in Seq(Nat) /\ DOMAIN held = 1 .. Len(held) /\ Len(held) \in Nat
          BY <1>6
        <4>2. \A j \in 1 .. l : j \in DOMAIN held
          BY <4>1, <3>1, <2>3
        <4> QED
          BY <4>1, <4>2, <2>3
      <3>3. /\ slices \in Seq(Nat)
            /\ Len(slices) = IF 1 <= l THEN l - 1 + 1 ELSE 0
            /\ \A j \in 1 .. l - 1 + 1 : slices[j] = held[1 + j - 1]
        <4>1. /\ SubSeq(held, 1, l) \in Seq(Nat)
              /\ Len(SubSeq(held, 1, l)) = IF 1 <= l THEN l - 1 + 1 ELSE 0
              /\ \A j \in 1 .. l - 1 + 1 : SubSeq(held, 1, l)[j] = held[1 + j - 1]
          BY ONLY <3>2, SubSeqProperties
        <4> QED
          BY ONLY <3>1, <4>1
      <3>4. l - 1 + 1 = l /\ (~(1 <= l) => l = 0) /\ \A j \in 1 .. l : 1 + j - 1 = j
        BY ONLY <2>3
      <3>5. Len(slices) = l /\ \A j \in 1 .. l : slices[j] = held[j]
        BY ONLY <3>3, <3>4
      <3>6. slices \in Seq(Nat) /\ DOMAIN slices = 1 .. Len(slices)
        BY ONLY <3>3
      <3> QED
        BY ONLY <3>5, <3>6
    <2>5. \A j \in DOMAIN slices : slices[j] = Len(stco[t]) + j - 1
      <3>1. held \in Seq(Nat) /\ l = Len(held) - Len(rest) /\ Len(rest) \in {0, 1}
        BY <2>1, <2>3, <1>6
      <3>2. Len(held) \in Nat /\ DOMAIN held = 1 .. Len(held) /\ l <= Len(held)
        BY ONLY <3>1
      <3>3. \A j \in 1 .. l : j \in DOMAIN held
        BY <3>2, <2>3
      <3> QED
        BY <3>3, <2>4, <1>6
    <2>6. Len(stco[t]) + Len(slices) + Len(rest) = put'[t]
      BY <2>1, <2>3, <2>4, <1>4, <1>5, <1>6
    <2>7. \A j \in DOMAIN rest : rest[j] = Len(stco[t]) + Len(slices) + j - 1
      <3> SUFFICES ASSUME NEW j \in DOMAIN rest
                   PROVE  rest[j] = Len(stco[t]) + Len(slices) + j - 1
        OBVIOUS
      <3>1. j = 1 /\ Len(rest) = 1 /\ rest[1] = n
        BY <2>1
      <3>2. Len(stco[t]) + l + 1 = n + 1 /\ Len(slices) = l
        BY <3>1, <2>6, <2>4, <1>5
      <3>3. PICK K \in Nat : K = Len(stco[t])
        BY <1>4
      <3>4. K + l + 1 = n + 1 /\ n \in Nat /\ l \in Nat
        BY <3>2, <3>3, <2>3, <1>4
      <3>5. n = K + l + 1 - 1
        BY <3>4
      <3> QED
        BY <3>1, <3>2, <3>3, <3>5
    <2> QED
      <3>1. StartBlock(t, slices, rest) /\ UNCHANGED error
        BY <2>2, <1>8
      <3>2. flushing # 0 => flushing \in DOMAIN MediaTracks /\ MediaTracks[flushing] = t
        BY <1>2
      <3>3. UNCHANGED <<stco, currMDatOffset, mdat, mdatLength, flushing, error>> /\ phase = "idle"
        BY <3>1, <1>2
      <3>4. rest \in Seq(Nat) /\ slices \in Seq(Nat)
        BY <2>1, <2>4
      <3> QED
        BY <3>1, <3>2, <3>3, <3>4, <2>5, <2>6, <2>7, <1>5, StartBlockPreserves
  <1> QED
    BY <1>3, <1>7, <1>8

(***************************************************************************)
(* FinalizeStream flushes the tracks one after the other.                  *)
(***************************************************************************)
LEMMA BeginFinalizePreserves == IInv /\ BeginFinalize => IInv'
  <1> SUFFICES ASSUME IInv, BeginFinalize PROVE IInv'
    OBVIOUS
  <1>1. /\ phase = "idle" /\ flushing = 0 /\ flushing' = 1
        /\ UNCHANGED <<put, buffered, stco, currMDatOffset, mdat, mdatLength, job, phase, error>>
    BY DEF BeginFinalize, Idle, tableVars, mdatVars
  <1>2. Types'
    BY <1>1 DEF IInv, Types
  <1>3. HoldsTheRest'
    <2>1. \A t \in Tracks : Waiting(t)
      <3>1. \A k \in DOMAIN MediaTracks : ~(k < 0)
        BY TracksAssumption
      <3> QED
        BY <3>1, <1>1 DEF Waiting, Flushed
    <2> QED
      BY <2>1, <1>1 DEF IInv, HoldsTheRest
  <1>4. BlockIsNext' /\ Chain' /\ EntriesInPlace'
    BY <1>1 DEF IInv, BlockIsNext, Chain, EntriesInPlace, InPlace
  <1> QED
    BY <1>1, <1>2, <1>3, <1>4 DEF IInv, NeverOutOfStep

LEMMA FlushTrackPreserves == IInv /\ FlushTrack => IInv'
  <1> SUFFICES ASSUME IInv, FlushTrack PROVE IInv'
    OBVIOUS
  <1>1. PICK t : t = MediaTracks[flushing]
    OBVIOUS
  <1>2. /\ phase = "idle" /\ flushing \in DOMAIN MediaTracks
        /\ UNCHANGED <<put, stco, currMDatOffset, mdat, mdatLength, error>>
        /\ \/ flushing' = flushing + 1 /\ UNCHANGED <<buffered, job, phase>>
           \/ StartBlock(t, buffered[t], <<>>) /\ UNCHANGED flushing
    BY <1>1 DEF FlushTrack, Idle, mdatVars
  <1>3. /\ t \in Tracks /\ flushing \in Nat /\ put \in [Tracks -> Nat]
        /\ \A u \in Tracks : put[u] <= Len(Source[u])
        /\ buffered \in [Tracks -> Seq(Nat)] /\ stco \in [Tracks -> Seq(Nat)]
    <2>1. t \in Tracks
      BY <1>1, <1>2, TracksAssumption
    <2> QED
      BY <2>1 DEF IInv, Types
  <1>4. CASE flushing' = flushing + 1 /\ UNCHANGED <<buffered, job, phase>>
    <2>1. Types'
      BY <1>2, <1>3, <1>4 DEF IInv, Types
    <2>2. HoldsTheRest'
      <3> SUFFICES ASSUME NEW u \in Tracks, Waiting(u)'
                   PROVE  /\ Len(stco[u]) + Len(buffered[u]) = put[u]
                          /\ \A j \in DOMAIN buffered[u] : buffered[u][j] = Len(stco[u]) + j - 1
        BY <1>2, <1>4 DEF HoldsTheRest
      <3>1. ~Flushed(u)
        <4>1. SUFFICES ASSUME NEW k \in DOMAIN MediaTracks, k < flushing, MediaTracks[k] = u
                       PROVE  Flushed(u)'
          BY DEF Flushed, Waiting
        <4>2. k \in Nat
          BY TracksAssumption
        <4>3. k < flushing'
          BY <4>1, <4>2, <1>3, <1>4
        <4> QED
          BY <4>1, <4>3 DEF Flushed
      <3> QED
        BY <3>1, <1>2 DEF IInv, HoldsTheRest, Waiting
    <2>3. BlockIsNext' /\ Chain' /\ EntriesInPlace'
      BY <1>2, <1>4 DEF IInv, BlockIsNext, Chain, EntriesInPlace, InPlace
    <2> QED
      BY <2>1, <2>2, <2>3, <1>2 DEF IInv, NeverOutOfStep
  <1>5. CASE StartBlock(t, buffered[t], <<>>) /\ UNCHANGED flushing
    <2>1. Waiting(t)
      <3>1. ~Flushed(t)
        <4>1. SUFFICES ASSUME NEW k \in DOMAIN MediaTracks, k < flushing, MediaTracks[k] = t
                       PROVE  FALSE
          BY DEF Flushed
        <4>2. k = flushing
          BY <4>1, <1>1, <1>2, TracksAssumption
        <4> QED
          BY <4>1, <4>2, <1>3
      <3> QED
        BY <3>1, <1>2 DEF Waiting
    <2>2. /\ Len(stco[t]) + Len(buffered[t]) = put[t]
          /\ \A j \in DOMAIN buffered[t] : buffered[t][j] = Len(stco[t]) + j - 1
      BY <2>1, <1>3 DEF IInv, HoldsTheRest
    <2>3. PICK slices \in Seq(Nat) : slices = buffered[t]
      BY <1>3
    <2>4. PICK rest : rest = <<>>
      OBVIOUS
    <2>5. rest \in Seq(Nat) /\ Len(rest) = 0 /\ DOMAIN rest = {}
      BY <2>4
    <2>6. /\ Len(stco[t]) + Len(slices) + Len(rest) = put'[t]
          /\ \A j \in DOMAIN slices : slices[j] = Len(stco[t]) + j - 1
          /\ \A j \in DOMAIN rest : rest[j] = Len(stco[t]) + Len(slices) + j - 1
      BY <2>2, <2>3, <2>5, <1>2, <1>3
    <2>7. /\ StartBlock(t, slices, rest) /\ UNCHANGED <<flushing, put>>
          /\ flushing # 0 => flushing \in DOMAIN MediaTracks /\ MediaTracks[flushing] = t
      BY <2>3, <2>4, <1>1, <1>2, <1>5
    <2> QED
      BY <2>3, <2>5, <2>6, <2>7, <1>2, <1>3, StartBlockPreserves
  <1> QED
    BY <1>2, <1>4, <1>5

LEMMA FinalizeBoxesPreserves == IInv /\ FinalizeBoxes => IInv'
  <1> SUFFICES ASSUME IInv, FinalizeBoxes PROVE IInv'
    OBVIOUS
  <1>1. /\ phase = "idle" /\ error' \in {error, "too short"}
        /\ UNCHANGED <<put, buffered, stco, currMDatOffset, mdat, mdatLength, job, phase, flushing>>
    BY DEF FinalizeBoxes, Idle, mdatVars, Fail
  <1> QED
    BY <1>1, StutterPreserves DEF IInv, NeverOutOfStep

-----------------------------------------------------------------------------
LEMMA NextIInv == IInv /\ [Next]_vars => IInv'
  <1> SUFFICES ASSUME IInv, [Next]_vars PROVE IInv'
    OBVIOUS
  <1>1. CASE \E t \in Tracks : Put(t)
    BY <1>1, PutPreserves
  <1>2. CASE WriteStep
    BY <1>2, AddToTablesPreserves, TablesDonePreserves, WriteSlicePreserves, SamplesWrittenPreserves
       DEF WriteStep
  <1>3. CASE BeginFinalize
    BY <1>3, BeginFinalizePreserves
  <1>4. CASE Finalize
    BY <1>4, FlushTrackPreserves, FinalizeBoxesPreserves DEF Finalize
  <1>5. CASE UNCHANGED vars
    <2>1. UNCHANGED <<put, buffered, stco, currMDatOffset, mdat, mdatLength, job, phase, flushing, error>>
      BY <1>5 DEF vars, tableVars, mdatVars, endVars
    <2> QED
      BY <2>1, StutterPreserves DEF IInv, NeverOutOfStep
  <1> QED
    BY <1>1, <1>2, <1>3, <1>4, <1>5 DEF Next

LEMMA AlwaysIInv == Spec => []IInv
  <1> QED
    BY InitIInv, NextIInv, PTL DEF Spec

(***************************************************************************)
(* CheckMDatOffset never throws: whatever the sizes, the tracks and the    *)
(* order of the puts, the tables advance CurrMDatOffset over a block by    *)
(* exactly what MP4StreamWriter then appends to the temporary mdat.        *)
(***************************************************************************)
THEOREM NeverOutOfStepAlways == Spec => []NeverOutOfStep
  <1>1. IInv => NeverOutOfStep
    BY DEF IInv
  <1> QED
    BY <1>1, AlwaysIInv, PTL

(***************************************************************************)
(* Between blocks, the n-th offset in the temporary file of a track is     *)
(* that of the payload of the n-th slice put in it.                        *)
(***************************************************************************)
THEOREM TablesMatchDataAlways == Spec => []TablesMatchData
  <1>1. IInv => TablesMatchData
    BY DEF IInv, EntriesInPlace, InPlace, TablesMatchData
  <1> QED
    BY <1>1, AlwaysIInv, PTL

-----------------------------------------------------------------------------
(***************************************************************************)
(* Types.  Block sizes are computed from time stamps, which slices may     *)
(* lack; they are there when a size is computed, because the value 8 of    *)
(* blockSize stands only for a track none of whose slices was written.     *)
(***************************************************************************)
NothingWritten(t) == stco[t] = <<>> /\ (phase = "idle" \/ job.track # t)

SizeUnknown ==
  flushing = 0 =>
    \A t \in Tracks : blockSize[t] = HypothesizedBlockSize => NothingWritten(t)

SttsType == [runs : Seq(Run), count : Nat, last : Nat]
CttsType == [made : BOOLEAN, runs : Seq(Run), count : Nat, prev : Nat, synch : Nat]

TableTypes ==
  /\ stts \in [Tracks -> SttsType]
  /\ ctts \in [Tracks -> CttsType]
  /\ stsz \in [Tracks -> Seq(Nat)]
  /\ stss \in [Tracks -> Seq(Nat)]

EndTypes ==
  /\ flushing \in 0 .. Len(MediaTracks) + 1
  /\ state \in {"MoovReady", "Closed", "Failed"}
  /\ error \in {"none", "block size", "empty list", "mismatch", "too short"}
  /\ headerSize \in Nat

TypeInv ==
  IInv /\ TableTypes /\ EndTypes /\ SizeUnknown /\ blockSize \in [Tracks -> Int]

LEMMA DivisionIsNatural ==
  ASSUME NEW a \in Nat, NEW b \in Nat \ {0}
  PROVE  a \div b \in Nat
  OBVIOUS

LEMMA ScaledIsNatural ==
  ASSUME NEW d \in Nat
  PROVE  ScaledDuration(d) \in Nat
  <1>1. d * TimeScale \in Nat /\ TicksPerSecond \in Nat \ {0}
    BY ScaleAssumption
  <1> QED
    BY <1>1, DivisionIsNatural DEF ScaledDuration

LEMMA CountedType ==
  ASSUME NEW r \in SttsType, NEW d \in Nat
  PROVE  Counted(r, d) \in SttsType /\ LastRun(r) \in SttsType
  <1>1. r.runs \in Seq(Run) /\ r.count \in Nat /\ r.last \in Nat
    BY DEF SttsType
  <1>2. [count |-> r.count, value |-> r.last] \in Run
    BY <1>1 DEF Run
  <1>3. Append(r.runs, [count |-> r.count, value |-> r.last]) \in Seq(Run)
    BY <1>1, <1>2
  <1>4. r.count + 1 \in Nat
    BY <1>1
  <1> QED
    BY <1>1, <1>3, <1>4 DEF Counted, LastRun, SttsType

LEMMA ComposedLastType ==
  ASSUME NEW c \in CttsType
  PROVE  ComposedLast(c) \in CttsType
  <1>1. c.runs \in Seq(Run) /\ c.count \in Nat /\ c.prev \in Nat
    BY DEF CttsType
  <1>2. [count |-> c.count, value |-> c.prev] \in Run
    BY <1>1 DEF Run
  <1>3. Append(c.runs, [count |-> c.count, value |-> c.prev]) \in Seq(Run)
    BY <1>1, <1>2
  <1> QED
    BY <1>3 DEF ComposedLast, CttsType

LEMMA ComposedType ==
  ASSUME NEW c \in CttsType, NEW s \in Slice
  PROVE  Composed(c, s) \in CttsType
  <1>1. /\ c.made \in BOOLEAN /\ c.runs \in Seq(Run) /\ c.count \in Nat
        /\ c.prev \in Nat /\ c.synch \in Nat
    BY DEF CttsType
  <1>2. Append(c.runs, [count |-> c.count, value |-> c.prev]) \in Seq(Run)
    <2>1. [count |-> c.count, value |-> c.prev] \in Run
      BY <1>1 DEF Run
    <2> QED
      BY <1>1, <2>1
  <1>3. ASSUME NEW v \in Nat, NEW w \in Nat
        PROVE  [AddEntry(c, v) EXCEPT !.synch = w] \in CttsType
    <2>1. AddEntry(c, v) \in CttsType
      <3>1. c.count + 1 \in Nat
        BY <1>1
      <3> QED
        BY <1>1, <1>2, <3>1 DEF AddEntry, CttsType
    <2> QED
      BY <2>1 DEF CttsType
  <1>4. PICK lag \in Nat : lag = IF LagsBehind(s) THEN c.synch + ScaledDuration(s.duration) ELSE 0
    <2>1. s.duration \in Nat
      BY DEF Slice
    <2>2. ScaledDuration(s.duration) \in Nat
      BY <2>1, ScaledIsNatural
    <2>3. c.synch + ScaledDuration(s.duration) \in Nat
      BY <2>2, <1>1
    <2> QED
      BY <2>3
  <1> QED
    BY <1>3, <1>4 DEF Composed

LEMMA TypeInvGivesTypes == TypeInv => TypeOK
  BY DEF TypeInv, IInv, Types, TableTypes, EndTypes, TypeOK, SttsType, CttsType

LEMMA InitTypeInv == Init => TypeInv
  <1> SUFFICES ASSUME Init PROVE TypeInv
    OBVIOUS
  <1>1. TableTypes
    BY DEF Init, TableTypes, SttsType, CttsType
  <1>2. EndTypes
    <2>1. Len(MediaTracks) \in Nat
      BY TracksAssumption
    <2> QED
      BY <2>1 DEF Init, EndTypes
  <1>3. SizeUnknown /\ blockSize \in [Tracks -> Int]
    BY DEF Init, SizeUnknown, HypothesizedBlockSize
  <1> QED
    BY <1>1, <1>2, <1>3, InitIInv DEF TypeInv

LEMMA AddToTablesTypes == TypeInv /\ AddToTables => TypeInv'
  <1> SUFFICES ASSUME TypeInv, AddToTables PROVE TypeInv'
    OBVIOUS
  <1>1. PICK T, s : T = job.track /\ s = SliceAt(T, job.slices[job.next])
    OBVIOUS
  <1>2. /\ phase = "tables" /\ job.next <= Len(job.slices)
        /\ stts' = [stts EXCEPT ![T] = Counted(@, ScaledDuration(s.duration))]
        /\ ctts' = [ctts EXCEPT ![T] = Composed(@, s)]
        /\ stss' = [stss EXCEPT ![T] = IF s.type = "IFrame" THEN Append(@, Len(stsz[T]) + 1) ELSE @]
        /\ stsz' = [stsz EXCEPT ![T] = Append(@, s.size)]
        /\ UNCHANGED <<blockSize, flushing, state, error, headerSize>>
    BY <1>1 DEF AddToTables, endVars
  <1>3. T \in Tracks /\ s \in Slice
    BY <1>1, <1>2, NextOfBlock DEF TypeInv
  <1>4. s.duration \in Nat /\ s.size \in Nat
    BY <1>3 DEF Slice
  <1>5. TableTypes'
    <2>1. stts[T] \in SttsType /\ ctts[T] \in CttsType /\ stsz[T] \in Seq(Nat) /\ stss[T] \in Seq(Nat)
      BY <1>3 DEF TypeInv, TableTypes
    <2>2. Counted(stts[T], ScaledDuration(s.duration)) \in SttsType
      BY <2>1, <1>4, ScaledIsNatural, CountedType
    <2>3. Composed(ctts[T], s) \in CttsType
      BY <2>1, <1>3, ComposedType
    <2>4. Append(stsz[T], s.size) \in Seq(Nat) /\ Append(stss[T], Len(stsz[T]) + 1) \in Seq(Nat)
      BY <2>1, <1>4
    <2> QED
      BY <2>2, <2>3, <2>4, <1>2 DEF TypeInv, TableTypes
  <1>6. EndTypes'
    BY <1>2 DEF TypeInv, EndTypes
  <1>7. SizeUnknown'
    <2>1. job'.track = T /\ phase' = phase
      BY <1>1 DEF AddToTables, TypeInv, IInv, Types
    <2>2. \A t \in Tracks : t # T => stco'[t] = stco[t]
      BY <1>1 DEF AddToTables, TypeInv, IInv, Types
    <2> QED
      BY <2>1, <2>2, <1>1, <1>2 DEF TypeInv, SizeUnknown, NothingWritten
  <1> QED
    BY <1>2, <1>5, <1>6, <1>7, AddToTablesPreserves DEF TypeInv

LEMMA BlockStepTypes ==
  TypeInv /\ (TablesDone \/ WriteSlice \/ SamplesWritten) => TypeInv'
  <1> SUFFICES ASSUME TypeInv, TablesDone \/ WriteSlice \/ SamplesWritten PROVE TypeInv'
    OBVIOUS
  <1>1. /\ UNCHANGED <<stts, ctts, stsz, stss, stco, blockSize>>
        /\ phase # "idle"
    BY DEF TablesDone, WriteSlice, SamplesWritten, tableVars
  <1>2. IInv'
    BY TablesDonePreserves, WriteSlicePreserves, SamplesWrittenPreserves DEF TypeInv
  <1>3. EndTypes'
    <2>1. CASE UNCHANGED flushing
      <3>1. /\ state' \in {state, "Failed"} /\ error' \in {error, "empty list", "mismatch"}
            /\ headerSize' = headerSize
        BY <2>1 DEF TablesDone, WriteSlice, SamplesWritten, Fail, endVars
      <3> QED
        BY <3>1, <2>1 DEF TypeInv, EndTypes
    <2>2. CASE flushing # 0 /\ flushing' = flushing + 1 /\ UNCHANGED <<state, error, headerSize>>
      <3>1. flushing \in 1 .. Len(MediaTracks)
        <4>1. flushing \in DOMAIN MediaTracks
          BY <2>2, <1>1 DEF TypeInv, IInv, BlockIsNext
        <4>2. MediaTracks \in Seq(Tracks)
          BY TracksAssumption
        <4> QED
          BY ONLY <4>1, <4>2, LenProperties
      <3>2. flushing' \in 0 .. Len(MediaTracks) + 1
        BY <3>1, <2>2, TracksAssumption
      <3> QED
        BY <3>2, <2>2 DEF TypeInv, EndTypes
    <2> QED
      BY <2>1, <2>2 DEF TablesDone, WriteSlice, SamplesWritten, Fail, endVars
  <1>4. SizeUnknown'
    <2> SUFFICES ASSUME flushing' = 0, NEW t \in Tracks, blockSize'[t] = HypothesizedBlockSize
                 PROVE  NothingWritten(t)'
      BY DEF SizeUnknown
    <2>1. flushing = 0
      <3>1. flushing \in Nat /\ flushing' \in {flushing, flushing + 1}
        BY DEF TablesDone, WriteSlice, SamplesWritten, Fail, endVars, TypeInv, IInv, Types
      <3> QED
        BY <3>1
    <2>2. stco[t] = <<>> /\ job.track # t
      BY <2>1, <1>1 DEF TypeInv, SizeUnknown, NothingWritten
    <2>3. phase' = "idle" \/ job'.track = job.track
      BY DEF TablesDone, WriteSlice, SamplesWritten, Fail, endVars, TypeInv, IInv, Types
    <2> QED
      BY <2>2, <2>3, <1>1 DEF NothingWritten
  <1> QED
    BY <1>1, <1>2, <1>3, <1>4 DEF TypeInv, TableTypes

(***************************************************************************)
(* A set of numbers with a bound has a greatest one.                       *)
(***************************************************************************)
LEMMA GreatestOfStamped ==
  ASSUME NEW n \in Nat, NEW S, S \subseteq 2 .. n, S # {}
  PROVE  \E k \in S : \A j \in S : j <= k
  <1> DEFINE Above(x) == {j \in S : j > x}
             Sets     == {Above(x) : x \in S}
  <1>1. Sets \subseteq FiniteSubsetsOf(Nat) /\ Sets # {}
    <2>1. ASSUME NEW x \in S PROVE Above(x) \in FiniteSubsetsOf(Nat)
      <3>1. IsFiniteSet(2 .. n)
        BY FS_Interval
      <3>2. Above(x) \subseteq 2 .. n
        OBVIOUS
      <3>3. Above(x) \subseteq Nat
        BY <3>2
      <3>4. IsFiniteSet(Above(x))
        BY <3>1, <3>2, FS_Subset
      <3> QED
        BY <3>3, <3>4 DEF FiniteSubsetsOf
    <2> QED
      BY <2>1
  <1>2. PICK A \in Sets : \A C \in Sets : ~ (<<C, A>> \in StrictSubsetOrdering(Nat))
    <2> HIDE DEF Sets
    <2> QED
      BY <1>1, FS_StrictSubsetOrderingWellFounded, WFMin
  <1>3. PICK k \in S : A = Above(k)
    OBVIOUS
  <1>4. ASSUME NEW j \in S, j > k PROVE FALSE
    <2>1. \A i \in S : i \in Nat
      OBVIOUS
    <2>2. Above(j) \subseteq Above(k) /\ j \in Above(k) /\ j \notin Above(j)
      <3>1. \A i \in S : i > j => i > k
        BY <1>4, <2>1
      <3>2. ~(j > j)
        BY <2>1
      <3> QED
        BY <3>1, <3>2, <1>4
    <2>3. <<Above(j), A>> \in StrictSubsetOrdering(Nat)
      <3>1. Above(j) \in Sets /\ A \in Sets
        OBVIOUS
      <3>2. Above(j) \in FiniteSubsetsOf(Nat) /\ A \in FiniteSubsetsOf(Nat)
        BY <1>1, <3>1
      <3> HIDE DEF Above, Sets
      <3> QED
        BY <2>2, <1>3, <3>2 DEF StrictSubsetOrdering, FiniteSubsetsOf
    <2>4. Above(j) \in Sets
      OBVIOUS
    <2> QED
      BY <2>3, <2>4, <1>2
  <1>5. \A j \in S : j \in Nat /\ k \in Nat
    OBVIOUS
  <1> QED
    BY <1>4, <1>5

(***************************************************************************)
(* When the size of a block is computed, the track holds its first slices, *)
(* which have the two time stamps needed; the size is a number other than  *)
(* the one that stands for "not known".                                    *)
(***************************************************************************)
LEMMA SizeComputed ==
  ASSUME TypeInv, NEW t \in Tracks, Idle, flushing = 0, put[t] < Len(Source[t]),
         NEW held, held = Append(buffered[t], put[t]),
         Measures(t, held), Measurable(t, held)
  PROVE  NewBlockSize(t, held) \in Nat \ {HypothesizedBlockSize}
  <1>1. /\ put \in [Tracks -> Nat] /\ buffered \in [Tracks -> Seq(Nat)]
        /\ blockSize[t] = HypothesizedBlockSize /\ put[t] \in Nat \ {0}
        /\ Len(Source[t]) \in Nat /\ Source[t] \in Seq(Slice)
    <2>1. put \in [Tracks -> Nat] /\ buffered \in [Tracks -> Seq(Nat)]
      BY DEF TypeInv, IInv, Types
    <2>2. blockSize[t] = HypothesizedBlockSize /\ put[t] > 0
      BY DEF Measures
    <2>3. Source[t] \in Seq(Slice)
      BY SourceAssumption
    <2>4. Len(Source[t]) \in Nat
      BY <2>3, LenProperties
    <2> QED
      BY <2>1, <2>2, <2>3, <2>4
  <1>2. stco[t] = <<>>
    BY <1>1 DEF TypeInv, SizeUnknown, NothingWritten
  <1>3. /\ Len(buffered[t]) = put[t]
        /\ \A j \in DOMAIN buffered[t] : buffered[t][j] = j - 1
    <2>1. Waiting(t)
      <3>1. \A k \in DOMAIN MediaTracks : ~(k < flushing)
        BY TracksAssumption
      <3> QED
        BY <3>1 DEF Idle, Waiting, Flushed
    <2>2. Len(stco[t]) = 0
      BY <1>2
    <2>3. /\ Len(stco[t]) + Len(buffered[t]) = put[t]
          /\ \A j \in DOMAIN buffered[t] : buffered[t][j] = Len(stco[t]) + j - 1
      BY <2>1 DEF TypeInv, IInv, HoldsTheRest
    <2> QED
      BY <2>2, <2>3, <1>1
  <1>4. PICK n \in Nat : n = put[t] + 1
    BY <1>1
  <1>5. Len(held) = n /\ \A j \in 1 .. n : held[j] = j - 1
    <2> DEFINE b == buffered[t]
    <2>1. /\ b \in Seq(Nat) /\ put[t] \in Nat /\ Len(held) = Len(b) + 1
          /\ \A j \in 1 .. Len(b) : held[j] = b[j]
          /\ held[Len(b) + 1] = put[t] /\ DOMAIN b = 1 .. Len(b)
      <3>1. b \in Seq(Nat) /\ put[t] \in Nat
        BY <1>1
      <3>2. held = Append(b, put[t])
        OBVIOUS
      <3> HIDE DEF b
      <3> QED
        BY ONLY <3>1, <3>2
    <2>2. \A j \in 1 .. n : j \in 1 .. put[t] \/ j = put[t] + 1
      BY <2>1, <1>4
    <2>3. put[t] = put[t] + 1 - 1
      BY <2>1
    <2>4. ASSUME NEW j \in 1 .. n PROVE held[j] = j - 1
      <3>1. CASE j \in 1 .. put[t]
        <4>1. j \in 1 .. Len(b) /\ Len(b) = put[t]
          BY <3>1, <1>3
        <4> QED
          BY <4>1, <2>1, <1>3
      <3>2. CASE j = put[t] + 1
        BY <3>2, <2>1, <2>3, <1>3
      <3> QED
        BY <3>1, <3>2, <2>2
    <2> QED
      BY <2>1, <2>4, <1>3, <1>4
  <1>6. n >= HypothesizedBlockSize /\ n <= Len(Source[t])
    BY <1>1, <1>4, <1>5 DEF Measures
  <1>7. /\ Stamped(t, 1)
        /\ \E k \in 2 .. HypothesizedBlockSize : Stamped(t, k)
    <2>1. Len(Source[t]) >= HypothesizedBlockSize
      BY <1>1, <1>6 DEF HypothesizedBlockSize
    <2> QED
      BY <2>1, StampsAssumption
  <1>8. \A k \in 1 .. n : SliceAt(t, held[k]) = Source[t][k] /\ Source[t][k] \in Slice
    <2>1. ASSUME NEW k \in 1 .. n PROVE SliceAt(t, held[k]) = Source[t][k]
      <3>1. held[k] = k - 1 /\ k - 1 + 1 = k
        BY <1>5
      <3> QED
        BY <3>1 DEF SliceAt
    <2>2. ASSUME NEW k \in 1 .. n PROVE Source[t][k] \in Slice
      <3>1. Source[t] \in Seq(Slice)
        BY SourceAssumption
      <3>2. k \in 1 .. Len(Source[t])
        BY <1>4, <1>6, <1>1
      <3> QED
        BY <3>1, <3>2
    <2> QED
      BY <2>1, <2>2
  <1>9. FirstStamp(t, held) \in Nat
    <2>1. 1 \in 1 .. n
      BY <1>1, <1>4
    <2>2. Source[t][1] \in Slice /\ FirstStamp(t, held) = Source[t][1].time
      BY <2>1, <1>8 DEF FirstStamp
    <2> QED
      BY <2>2, <1>7 DEF Stamped, Slice
  <1>10. EndStamp(t, held) \in Nat
    <2>1. PICK stamped : stamped = {k \in 2 .. Len(held) : SliceAt(t, held[k]).time # NoTime}
      OBVIOUS
    <2>2. stamped \subseteq 2 .. n /\ stamped # {}
      <3>1. PICK k \in 2 .. HypothesizedBlockSize : Stamped(t, k)
        BY <1>7
      <3>2. k \in 1 .. n /\ k \in 2 .. n
        BY <3>1, <1>6 DEF HypothesizedBlockSize
      <3>3. k \in stamped
        BY <3>1, <3>2, <2>1, <1>5, <1>8 DEF Stamped
      <3> QED
        BY <3>3, <2>1, <1>5
    <2>3. \E k \in stamped : \A j \in stamped : j <= k
      BY <2>2, GreatestOfStamped
    <2>4. PICK last : last = CHOOSE k \in stamped : \A j \in stamped : j <= k
      OBVIOUS
    <2>5. last \in stamped
      BY <2>3, <2>4
    <2>6. /\ SliceAt(t, held[last]).time \in Nat
          /\ SliceAt(t, held[last]).duration \in Nat
      <3>1. SliceAt(t, held[last]).time # NoTime
        BY <2>1, <2>5
      <3>2. last \in 2 .. n
        BY <2>2, <2>5
      <3>3. last \in 1 .. n
        BY <3>2, <1>4
      <3>4. SliceAt(t, held[last]) \in Slice
        BY <3>3, <1>8
      <3> QED
        BY <3>1, <3>4 DEF Slice
    <2>7. EndStamp(t, held) = SliceAt(t, held[last]).time + SliceAt(t, held[last]).duration \div 2
      BY <2>1, <2>4 DEF EndStamp
    <2>8. PICK a \in Nat, b \in Nat :
            a = SliceAt(t, held[last]).time /\ b = SliceAt(t, held[last]).duration
      BY <2>6
    <2>9. b \div 2 \in Nat
      BY DivisionIsNatural
    <2>10. a + b \div 2 \in Nat
      BY <2>9
    <2> QED
      BY <2>7, <2>8, <2>10
  <1>11. PICK avg : avg = AverageDuration(FirstStamp(t, held), EndStamp(t, held), Len(held), t \in AacTracks)
    OBVIOUS
  <1>12. avg \in Nat \ {0} /\ ReadAheadExtent \in Nat
    <2>1. avg > 0
      BY <1>11 DEF Measurable, BlockSizeDefined
    <2>2. PICK d \in Int : d = EndStamp(t, held) - FirstStamp(t, held)
      BY <1>9, <1>10
    <2>3. PICK c \in Nat \ {0} :
            c = n - (IF t \in AacTracks /\ n = HypothesizedBlockSize THEN 2 ELSE 1)
      <3>1. n - 2 \in Nat \ {0} /\ n - 1 \in Nat \ {0}
        BY <1>6 DEF HypothesizedBlockSize
      <3> QED
        BY <3>1
    <2>4. avg = d \div c
      BY <1>5, <1>11, <2>2, <2>3 DEF AverageDuration
    <2>5. avg \in Int
      BY <2>2, <2>3, <2>4
    <2> QED
      BY <2>1, <2>5, ScaleAssumption
  <1>13. ReadAheadExtent \div avg \in Nat
    BY <1>12, DivisionIsNatural
  <1>14. NewBlockSize(t, held) =
           IF ReadAheadExtent \div avg = HypothesizedBlockSize
           THEN HypothesizedBlockSize + 1 ELSE ReadAheadExtent \div avg
    BY <1>1, <1>11 DEF NewBlockSize, BlockSizeOf
  <1> QED
    BY <1>13, <1>14 DEF HypothesizedBlockSize

LEMMA StartBlockTypes ==
  ASSUME ctts \in [Tracks -> CttsType], NEW t \in Tracks, NEW slices, NEW rest,
         StartBlock(t, slices, rest)
  PROVE  ctts' \in [Tracks -> CttsType] /\ phase' = "tables" /\ job'.track = t
  <1>1. NeedsCtts(t, slices) \in BOOLEAN
    BY DEF NeedsCtts
  <1>2. PICK b \in BOOLEAN : b = (ctts[t].made \/ NeedsCtts(t, slices))
    OBVIOUS
  <1>3. [ctts[t] EXCEPT !.made = b] \in CttsType
    BY <1>2 DEF CttsType
  <1>4. ctts' = [ctts EXCEPT ![t] = [ctts[t] EXCEPT !.made = b]]
    BY <1>2 DEF StartBlock
  <1> QED
    BY <1>3, <1>4 DEF StartBlock

LEMMA PutTypes == \A t \in Tracks : TypeInv /\ Put(t) => TypeInv'
  <1> SUFFICES ASSUME TypeInv, NEW t \in Tracks, Put(t) PROVE TypeInv'
    OBVIOUS
  <1>1. PICK held : held = Append(buffered[t], put[t])
    OBVIOUS
  <1>2. /\ Idle /\ flushing = 0 /\ put[t] < Len(Source[t])
        /\ UNCHANGED <<stts, stsz, stss, stco, flushing, headerSize>>
    BY DEF Put, Fail, endVars
  <1>3. \/ /\ state' = "Failed" /\ error' = "block size"
           /\ UNCHANGED <<blockSize, ctts, job, phase>>
        \/ /\ ~(Measures(t, held) /\ ~Measurable(t, held))
           /\ blockSize' = [blockSize EXCEPT ![t] = NewBlockSize(t, held)]
           /\ UNCHANGED <<state, error>>
           /\ \/ IsBlock(t, held) /\ StartBlock(t, SlicesToWrite(held, HeldBack(t)), HeldBack(t))
              \/ UNCHANGED <<ctts, job, phase>>
    <2>1. CASE Measures(t, held) /\ ~Measurable(t, held)
      BY <2>1, <1>1 DEF Put, Fail
    <2>2. CASE ~(Measures(t, held) /\ ~Measurable(t, held))
      BY <2>2, <1>1 DEF Put, endVars
    <2> QED
      BY <2>1, <2>2
  <1>4. IInv'
    BY PutPreserves DEF TypeInv
  <1>5. ctts' \in [Tracks -> CttsType]
    <2>1. ctts \in [Tracks -> CttsType]
      BY DEF TypeInv, TableTypes
    <2> QED
      BY <2>1, <1>3, StartBlockTypes
  <1>6. TableTypes' /\ EndTypes'
    BY <1>2, <1>3, <1>5 DEF TypeInv, TableTypes, EndTypes
  <1>7. blockSize \in [Tracks -> Int] /\ put[t] \in Nat
    BY DEF TypeInv, IInv, Types
  <1>8. CASE UNCHANGED <<blockSize, ctts, job, phase>>
    BY <1>2, <1>4, <1>6, <1>7, <1>8 DEF TypeInv, SizeUnknown, NothingWritten
  <1>9. CASE /\ ~(Measures(t, held) /\ ~Measurable(t, held))
             /\ blockSize' = [blockSize EXCEPT ![t] = NewBlockSize(t, held)]
             /\ \/ IsBlock(t, held) /\ StartBlock(t, SlicesToWrite(held, HeldBack(t)), HeldBack(t))
                \/ UNCHANGED <<ctts, job, phase>>
    <2>1. Measures(t, held) => NewBlockSize(t, held) \in Nat \ {HypothesizedBlockSize}
      BY <1>1, <1>2, <1>9, SizeComputed
    <2>2. NewBlockSize(t, held) \in Int
      BY <2>1, <1>7 DEF NewBlockSize, HypothesizedBlockSize
    <2>3. blockSize' \in [Tracks -> Int] /\ blockSize'[t] = NewBlockSize(t, held)
          /\ \A u \in Tracks : u # t => blockSize'[u] = blockSize[u]
      BY <2>2, <1>7, <1>9
    <2>4. ASSUME NewBlockSize(t, held) = HypothesizedBlockSize
          PROVE  stco[t] = <<>> /\ ~IsBlock(t, held)
      <3>1. ~Measures(t, held)
        BY <2>1, <2>4
      <3>2. CASE put[t] = 0
        <4>1. Waiting(t)
          <5>1. \A k \in DOMAIN MediaTracks : ~(k < flushing)
            BY <1>2, TracksAssumption
          <5> QED
            BY <5>1, <1>2 DEF Idle, Waiting, Flushed
        <4>2. Len(stco[t]) + Len(buffered[t]) = 0
          BY <3>2, <4>1 DEF TypeInv, IInv, HoldsTheRest
        <4>3. stco[t] \in Seq(Nat) /\ buffered[t] \in Seq(Nat)
          BY DEF TypeInv, IInv, Types
        <4>4. Len(stco[t]) = 0
          <5>1. PICK m \in Nat, n \in Nat : m = Len(stco[t]) /\ n = Len(buffered[t])
            BY <4>3
          <5>2. m + n = 0
            BY <5>1, <4>2
          <5>3. m = 0
            BY ONLY <5>2, m \in Nat, n \in Nat
          <5> QED
            BY <5>1, <5>3
        <4> QED
          BY <3>2, <4>3, <4>4, <1>7 DEF IsBlock
      <3>3. CASE put[t] # 0
        <4>1. NewBlockSize(t, held) = blockSize[t]
          BY <3>1, <3>3 DEF NewBlockSize
        <4>2. blockSize[t] = HypothesizedBlockSize /\ put[t] > 0
          BY <4>1, <2>4, <3>3, <1>7
        <4>3. ~(Len(held) >= HypothesizedBlockSize)
          BY <4>2, <3>1 DEF Measures
        <4> QED
          BY <4>2, <4>3, <1>2 DEF IsBlock, TypeInv, SizeUnknown, NothingWritten
      <3> QED
        BY <3>2, <3>3
    <2>5. SizeUnknown'
      <3> SUFFICES ASSUME NEW u \in Tracks, blockSize'[u] = HypothesizedBlockSize
                   PROVE  NothingWritten(u)'
        BY DEF SizeUnknown
      <3>1. CASE u = t
        <4>1. stco[t] = <<>> /\ ~IsBlock(t, held)
          BY <3>1, <2>3, <2>4
        <4>2. phase' = "idle"
          BY <4>1, <1>2, <1>9 DEF Idle
        <4> QED
          BY <3>1, <4>1, <4>2, <1>2 DEF NothingWritten
      <3>2. CASE u # t
        <4>1. stco[u] = <<>>
          BY <3>2, <2>3, <1>2 DEF TypeInv, SizeUnknown, NothingWritten
        <4>2. phase' = "idle" \/ job'.track # u
          <5>1. ctts \in [Tracks -> CttsType]
            BY DEF TypeInv, TableTypes
          <5> QED
            BY <5>1, <3>2, <1>2, <1>9, StartBlockTypes DEF Idle
        <4> QED
          BY <4>1, <4>2, <1>2 DEF NothingWritten
      <3> QED
        BY <3>1, <3>2
    <2> QED
      BY <2>3, <2>5, <1>4, <1>6 DEF TypeInv
  <1> QED
    BY <1>3, <1>8, <1>9

LEMMA FinalizeTypes ==
  TypeInv /\ (BeginFinalize \/ FlushTrack \/ FinalizeBoxes) => TypeInv'
  <1> SUFFICES ASSUME TypeInv, BeginFinalize \/ FlushTrack \/ FinalizeBoxes PROVE TypeInv'
    OBVIOUS
  <1>1. UNCHANGED <<stsz, stss, blockSize>>
    BY DEF BeginFinalize, FlushTrack, FinalizeBoxes, tableVars
  <1>2. IInv'
    BY BeginFinalizePreserves, FlushTrackPreserves, FinalizeBoxesPreserves DEF TypeInv
  <1>3. /\ Len(MediaTracks) \in Nat /\ DOMAIN MediaTracks = 1 .. Len(MediaTracks)
        /\ flushing \in 0 .. Len(MediaTracks) + 1
    <2>1. MediaTracks \in Seq(Tracks)
      BY TracksAssumption
    <2>2. flushing \in 0 .. Len(MediaTracks) + 1
      BY DEF TypeInv, EndTypes
    <2> QED
      BY ONLY <2>1, <2>2
  <1>4. flushing' # 0
    <2>1. CASE BeginFinalize
      BY <2>1 DEF BeginFinalize
    <2>2. CASE FlushTrack
      BY <2>2, <1>3 DEF FlushTrack, StartBlock
    <2>3. CASE FinalizeBoxes
      <3>1. flushing' = flushing /\ flushing > Len(MediaTracks)
        BY <2>3 DEF FinalizeBoxes, Fail
      <3> QED
        BY <3>1, <1>3
    <2> QED
      BY <2>1, <2>2, <2>3
  <1>5. EndTypes'
    <2>1. CASE BeginFinalize
      <3>1. 1 \in 0 .. Len(MediaTracks) + 1
        BY <1>3
      <3> QED
        BY <2>1, <3>1 DEF BeginFinalize, TypeInv, EndTypes
    <2>2. CASE FlushTrack
      <3>1. flushing' \in 0 .. Len(MediaTracks) + 1
        BY <2>2, <1>3 DEF FlushTrack, StartBlock
      <3> QED
        BY <2>2, <3>1 DEF FlushTrack, TypeInv, EndTypes
    <2>3. CASE FinalizeBoxes
      <3>1. headerSize' \in Nat
        BY <2>3, ScaleAssumption DEF FinalizeBoxes, Fail, TypeInv, EndTypes
      <3> QED
        BY <2>3, <3>1 DEF FinalizeBoxes, Fail, TypeInv, EndTypes
    <2> QED
      BY <2>1, <2>2, <2>3
  <1>6. stts' \in [Tracks -> SttsType]
    <2>1. stts' = stts \/ stts' = [t \in Tracks |-> LastRun(stts[t])]
      BY DEF BeginFinalize, FlushTrack, FinalizeBoxes, tableVars
    <2>2. \A t \in Tracks : LastRun(stts[t]) \in SttsType
      BY CountedType DEF TypeInv, TableTypes
    <2> QED
      BY <2>1, <2>2 DEF TypeInv, TableTypes
  <1>7. ctts' \in [Tracks -> CttsType]
    <2>1. CASE UNCHANGED ctts
      BY <2>1 DEF TypeInv, TableTypes
    <2>2. CASE ctts' = [t \in Tracks |-> ComposedLast(ctts[t])]
      <3>1. \A t \in Tracks : ComposedLast(ctts[t]) \in CttsType
        BY ComposedLastType DEF TypeInv, TableTypes
      <3> QED
        BY <2>2, <3>1
    <2>3. CASE FlushTrack
      <3>1. MediaTracks[flushing] \in Tracks /\ ctts \in [Tracks -> CttsType]
        BY <2>3, TracksAssumption DEF FlushTrack, TypeInv, TableTypes
      <3> QED
        BY <2>3, <3>1, StartBlockTypes DEF FlushTrack
    <2> QED
      BY <2>1, <2>2, <2>3 DEF BeginFinalize, FinalizeBoxes, tableVars
  <1> QED
    BY <1>1, <1>2, <1>4, <1>5, <1>6, <1>7 DEF TypeInv, TableTypes, SizeUnknown

LEMMA NextTypeInv == TypeInv /\ [Next]_vars => TypeInv'
  <1> SUFFICES ASSUME TypeInv, [Next]_vars PROVE TypeInv'
    OBVIOUS
  <1>1. CASE UNCHANGED vars
    <2>1. IInv'
      BY <1>1, NextIInv DEF TypeInv
    <2> QED
      BY <2>1, <1>1 DEF vars, tableVars, mdatVars, endVars, TypeInv, TableTypes, EndTypes,
                        SizeUnknown, NothingWritten
  <1> QED
    BY <1>1, AddToTablesTypes, BlockStepTypes, PutTypes, FinalizeTypes DEF Next, WriteStep, Finalize

LEMMA TypeInvAlways == Spec => []TypeInv
  BY InitTypeInv, NextTypeInv, PTL DEF Spec

(***************************************************************************)
(* The variables of the writer have their types; the part that needs an    *)
(* argument is blockSize, since the size of a block is computed from time  *)
(* stamps that not every slice has.                                        *)
(***************************************************************************)
THEOREM MuxTypeCorrect == Spec => []TypeOK
  BY TypeInvAlways, TypeInvGivesTypes, PTL

-----------------------------------------------------------------------------
(***************************************************************************)
(* The log.  The records of a track in the mdat are the slices 0, 1, ...,  *)
(* in this order: as many as the tables describe while no block of the     *)
(* track is on its way, and as many of the block as have landed otherwise. *)
(***************************************************************************)
WrittenOf(t) ==
  IF phase = "idle" \/ job.track # t THEN Len(stco[t]) ELSE Base + Landed

InOrder(t, count) ==
  /\ IsFiniteSet(RecordsOf(t))
  /\ Cardinality(RecordsOf(t)) = count
  /\ \A r \in RecordsOf(t) : Cardinality(UpTo(RecordsOf(t), r)) = mdat[r].index + 1
  /\ \A k \in 1 .. count : \E r \in RecordsOf(t) : mdat[r].index + 1 = k

(* A track that FinalizeStream has passed is in the file completely.       *)
FlushedInFull ==
  /\ \A t \in Tracks : Flushed(t) => Len(stco[t]) = put[t]
  /\ flushing # 0 /\ phase # "idle" => job.rest = <<>>

LogInv == IInv /\ FlushedInFull /\ \A t \in Tracks : InOrder(t, WrittenOf(t))

Indices(n) == [k \in 1 .. n |-> k - 1]

LEMMA WrittenIsNatural ==
  ASSUME IInv, NEW t \in Tracks
  PROVE  WrittenOf(t) \in Nat
  <1>1. stco[t] \in Seq(Nat)
    BY DEF IInv, Types
  <1>2. CASE phase = "idle" \/ job.track # t
    BY <1>1, <1>2 DEF WrittenOf
  <1>3. CASE phase # "idle" /\ job.track = t
    <2>1. Base \in Nat /\ job.next \in 1 .. Len(job.slices) + 1
      BY <1>3 DEF IInv, BlockIsNext
    <2>2. Landed \in Nat
      BY <2>1 DEF Landed, IInv, Types
    <2> QED
      BY <1>3, <2>1, <2>2 DEF WrittenOf
  <1> QED
    BY <1>2, <1>3

(***************************************************************************)
(* What the records of a track add up to in the log.                       *)
(***************************************************************************)
LEMMA PayloadIsIndices ==
  ASSUME NEW t \in Tracks, NEW n \in Nat, InOrder(t, n),
         mdat \in Seq([track : Tracks, index : Nat, at : Nat])
  PROVE  PayloadOf(t) = Indices(n)
  <1>1. ASSUME NEW k \in 1 .. n PROVE mdat[NthOf(RecordsOf(t), k)].index = k - 1
    <2>1. PICK r \in RecordsOf(t) : mdat[r].index + 1 = k
      BY DEF InOrder
    <2>2. Cardinality(UpTo(RecordsOf(t), r)) = k
      BY <2>1 DEF InOrder
    <2>3. PICK q : q = NthOf(RecordsOf(t), k)
      OBVIOUS
    <2>4. q \in RecordsOf(t) /\ Cardinality(UpTo(RecordsOf(t), q)) = k
      BY <2>2, <2>3 DEF NthOf
    <2>5. mdat[q].index + 1 = k
      BY <2>4 DEF InOrder
    <2>6. q \in 1 .. Len(mdat)
      BY <2>4, LenProperties DEF RecordsOf
    <2>7. mdat[q].index \in Nat
      <3>1. mdat[q] \in [track : Tracks, index : Nat, at : Nat]
        BY <2>6, ElementOfSeq
      <3> QED
        BY <3>1
    <2>8. \A i \in Nat : i + 1 = k => i = k - 1
      OBVIOUS
    <2> QED
      BY <2>3, <2>5, <2>7, <2>8
  <1>2. Cardinality(RecordsOf(t)) = n
    BY DEF InOrder
  <1> QED
    BY <1>1, <1>2 DEF PayloadOf, Indices

LEMMA IndicesGrow ==
  ASSUME NEW n \in Nat
  PROVE  Indices(n + 1) = Append(Indices(n), n) /\ Len(Indices(n)) = n
  <1>1. ASSUME NEW m \in Nat
        PROVE  Indices(m) \in Seq(Nat) /\ Len(Indices(m)) = m
    BY DEF Indices
  <1>2. /\ Append(Indices(n), n) \in Seq(Nat) /\ Len(Append(Indices(n), n)) = n + 1
        /\ \A i \in 1 .. n : Append(Indices(n), n)[i] = Indices(n)[i]
        /\ Append(Indices(n), n)[n + 1] = n
    <2>1. PICK ind \in Seq(Nat) : ind = Indices(n) /\ Len(ind) = n
      BY <1>1
    <2>2. /\ Append(ind, n) \in Seq(Nat) /\ Len(Append(ind, n)) = Len(ind) + 1
          /\ \A i \in 1 .. Len(ind) : Append(ind, n)[i] = ind[i]
          /\ Append(ind, n)[Len(ind) + 1] = n
      BY AppendProperties
    <2> QED
      BY <2>1, <2>2
  <1>3. n + 1 \in Nat /\ Indices(n + 1) \in Seq(Nat) /\ Len(Indices(n + 1)) = n + 1
    BY <1>1
  <1>4. ASSUME NEW i \in 1 .. n + 1 PROVE Append(Indices(n), n)[i] = Indices(n + 1)[i]
    <2>3. i \in 1 .. n \/ i = n + 1
      OBVIOUS
    <2>1. CASE i \in 1 .. n
      <3>1. Indices(n + 1)[i] = i - 1 /\ Indices(n)[i] = i - 1
        BY <2>1 DEF Indices
      <3> QED
        BY <2>1, <3>1, <1>2
    <2>2. CASE i = n + 1
      <3>1. Indices(n + 1)[i] = n
        BY <2>2 DEF Indices
      <3> QED
        BY <2>2, <3>1, <1>2
    <2> QED
      BY <2>1, <2>2, <2>3
  <1>5. Indices(n + 1) = Append(Indices(n), n)
    BY <1>2, <1>3, <1>4, SeqEqual
  <1> QED
    BY <1>1, <1>5

(***************************************************************************)
(* Only WriteSlice changes what is in the file.                            *)
(***************************************************************************)
LEMMA WrittenStays ==
  ASSUME IInv, [Next]_vars, ~WriteSlice, NEW t \in Tracks
  PROVE  mdat' = mdat /\ WrittenOf(t)' = WrittenOf(t)
  <1>1. /\ stco \in [Tracks -> Seq(Nat)] /\ \A u \in Tracks : Len(stco[u]) \in Nat
        /\ job \in JobType /\ job.track \in Tracks
    BY DEF IInv, Types, JobType
  <1>2. CASE AddToTables
    <2>1. /\ phase = "tables" /\ phase' = "tables" /\ mdat' = mdat
          /\ job'.track = job.track /\ job'.next = job.next + 1 /\ job'.slices = job.slices
      BY <1>1, <1>2 DEF AddToTables, mdatVars, JobType
    <2>2. /\ Len(stco'[job.track]) = Len(stco[job.track]) + 1
          /\ \A u \in Tracks : u # job.track => stco'[u] = stco[u]
      BY <1>1, <1>2 DEF AddToTables
    <2>3. job.next \in Nat
      BY <1>1 DEF JobType
    <2>4. Base' + Landed' = Base + Landed
      <3>1. PICK k \in Nat, n \in Nat : k = Len(stco[job.track]) /\ n = job.next
        BY <2>3, <1>1
      <3>2. Base = k - (n - 1) /\ Base' = (k + 1) - ((n + 1) - 1) /\ Landed = 0 /\ Landed' = 0
        BY <2>1, <2>2, <3>1 DEF Base, Described, Landed
      <3>3. k - (n - 1) = (k + 1) - ((n + 1) - 1)
        BY <3>1
      <3> QED
        BY <3>2, <3>3
    <2> QED
      BY <2>1, <2>2, <2>4 DEF WrittenOf
  <1>3. CASE TablesDone
    <2>1. phase = "tables" /\ stco' = stco /\ mdat' = mdat
      BY <1>3 DEF TablesDone, tableVars, mdatVars
    <2>2. job.next = Len(job.slices) + 1 /\ Len(job.slices) \in Nat
      <3>1. job.next \in 1 .. Len(job.slices) + 1 /\ job.next > Len(job.slices)
        BY <2>1, <1>3 DEF TablesDone, IInv, BlockIsNext
      <3>2. Len(job.slices) \in Nat
        BY <1>1 DEF JobType
      <3> QED
        BY <3>1, <3>2
    <2>3. \/ phase' = phase /\ job' = job
          \/ phase' = "data" /\ job' = [job EXCEPT !.next = 1]
      BY <1>3 DEF TablesDone
    <2>4. /\ job'.track = job.track /\ job'.slices = job.slices
          /\ (phase' = "tables" /\ job'.next = job.next) \/ (phase' = "data" /\ job'.next = 1)
      BY <1>1, <2>1, <2>3 DEF JobType
    <2>5. Described' = Described /\ Landed' = 0 /\ Landed = 0
      BY <2>1, <2>2, <2>4 DEF Described, Landed
    <2>6. Base' = Base
      BY <2>1, <2>4, <2>5 DEF Base
    <2> QED
      BY <2>1, <2>4, <2>5, <2>6 DEF WrittenOf
  <1>4. CASE SamplesWritten
    <2>1. phase = "data" /\ stco' = stco /\ mdat' = mdat
      BY <1>4 DEF SamplesWritten, tableVars, mdatVars
    <2>2. (phase' = phase /\ job' = job) \/ phase' = "idle"
      BY <1>4 DEF SamplesWritten
    <2>3. Base + Landed = Len(stco[job.track])
      <3>1. job.next = Len(job.slices) + 1 /\ Len(job.slices) \in Nat
        BY <1>1, <1>4 DEF SamplesWritten, IInv, BlockIsNext, JobType
      <3> QED
        BY <3>1, <2>1, <1>1 DEF Base, Described, Landed
    <2> QED
      BY <2>1, <2>2, <2>3 DEF WrittenOf, Base, Described, Landed
  <1>5. ASSUME NEW u \in Tracks, NEW slices, NEW rest, Idle, StartBlock(u, slices, rest),
               UNCHANGED <<stco, mdat>>
        PROVE  WrittenOf(t)' = WrittenOf(t)
    <2>1. phase = "idle" /\ phase' = "tables" /\ job'.track = u /\ job'.next = 1
      BY <1>5 DEF Idle, StartBlock
    <2>2. Base' = Len(stco[u]) /\ Landed' = 0
      BY <2>1, <1>1, <1>5 DEF Base, Described, Landed
    <2> QED
      BY <2>1, <2>2, <1>1, <1>5 DEF WrittenOf
  <1>6. CASE \E u \in Tracks : Put(u)
    <2>1. PICK u \in Tracks : Put(u)
      BY <1>6
    <2>2. Idle /\ UNCHANGED <<stco, mdat>>
      BY <2>1 DEF Put, mdatVars
    <2>3. \/ \E slices, rest : StartBlock(u, slices, rest)
          \/ UNCHANGED <<job, phase>>
      BY <2>1 DEF Put
    <2> QED
      BY <2>2, <2>3, <1>5 DEF WrittenOf, Idle
  <1>7. CASE FlushTrack
    <2>1. Idle /\ UNCHANGED <<stco, mdat>> /\ MediaTracks[flushing] \in Tracks
      BY <1>7, TracksAssumption DEF FlushTrack, mdatVars
    <2>2. \/ \E slices, rest : StartBlock(MediaTracks[flushing], slices, rest)
          \/ UNCHANGED <<job, phase>>
      BY <1>7 DEF FlushTrack
    <2> QED
      BY <2>1, <2>2, <1>5 DEF WrittenOf, Idle
  <1>8. CASE BeginFinalize \/ FinalizeBoxes
    <2>1. phase = "idle" /\ UNCHANGED <<stco, mdat, phase>>
      BY <1>8 DEF BeginFinalize, FinalizeBoxes, Idle, tableVars, mdatVars
    <2> QED
      BY <2>1 DEF WrittenOf
  <1>9. CASE UNCHANGED vars
    BY <1>9 DEF vars, tableVars, mdatVars, WrittenOf, Base, Described, Landed
  <1> QED
    BY <1>2, <1>3, <1>4, <1>6, <1>7, <1>8, <1>9 DEF Next, WriteStep, Finalize

(***************************************************************************)
(* A slice that lands in the mdat is the next of its track.                *)
(***************************************************************************)
LEMMA WriteSliceLands ==
  ASSUME LogInv, WriteSlice, NEW T, T = job.track
  PROVE  /\ T \in Tracks
         /\ \A t \in Tracks : InOrder(t, WrittenOf(t))'
         /\ WrittenOf(T)' = WrittenOf(T) + 1
         /\ WrittenOf(T) < put[T]
         /\ \A t \in Tracks : t # T => WrittenOf(t)' = WrittenOf(t)
  <1>0. PICK i, R, c, rec :
          /\ T = job.track /\ i = job.slices[job.next] /\ R = Len(mdat) + 1 /\ c = WrittenOf(T)
          /\ rec = [track |-> T, index |-> i, at |-> mdatLength]
    OBVIOUS
  <1>1. /\ phase = "data" /\ phase' = "data" /\ job.next <= Len(job.slices)
        /\ mdat' = Append(mdat, rec)
        /\ job' = [job EXCEPT !.next = @ + 1]
        /\ UNCHANGED <<put, stco>>
    BY <1>0 DEF WriteSlice, tableVars
  <1>2. /\ IInv /\ job \in JobType /\ job.next \in Nat /\ mdatLength \in Nat
        /\ mdat \in Seq([track : Tracks, index : Nat, at : Nat])
    BY DEF LogInv, IInv, Types, JobType
  <1>3. /\ T \in Tracks /\ i \in Nat /\ i = Base + job.next - 1 /\ i < put[T]
    BY <1>0, <1>1, <1>2, NextOfBlock
  <1>4. c = i /\ c \in Nat
    <2>1. c = Base + (job.next - 1)
      BY <1>0, <1>1 DEF WrittenOf, Landed
    <2>2. Base \in Nat
      BY <1>1, <1>2 DEF IInv, BlockIsNext
    <2> QED
      BY <2>1, <2>2, <1>2, <1>3
  <1>5. job'.track = T /\ job'.slices = job.slices /\ job'.next = job.next + 1
    BY <1>0, <1>1, <1>2 DEF JobType
  <1>6. WrittenOf(T)' = c + 1
    <2>1. Base' = Base /\ Landed' = Landed + 1
      <3>1. Landed' = (job.next + 1) - 1 /\ Landed = job.next - 1
        BY <1>1, <1>5 DEF Landed
      <3>2. Base' = Base
        BY <1>0, <1>1, <1>5 DEF Base, Described
      <3> QED
        BY <3>1, <3>2, <1>2
    <2>2. WrittenOf(T)' = Base' + Landed' /\ c = Base + Landed
      BY <1>0, <1>1, <1>5 DEF WrittenOf
    <2>3. Base \in Nat /\ Landed \in Int
      BY <1>1, <1>2 DEF IInv, BlockIsNext, Landed
    <2> QED
      BY <2>1, <2>2, <2>3
  <1>7. \A t \in Tracks : t # T => WrittenOf(t)' = WrittenOf(t)
    BY <1>0, <1>1, <1>5 DEF WrittenOf
  <1>8. /\ R \in Nat /\ DOMAIN mdat = 1 .. Len(mdat) /\ DOMAIN mdat' = DOMAIN mdat \cup {R}
        /\ R \notin DOMAIN mdat /\ \A r \in DOMAIN mdat : r < R /\ mdat'[r] = mdat[r]
        /\ mdat'[R] = rec /\ \A r \in DOMAIN mdat : r \in Nat
    <2>1. rec \in [track : Tracks, index : Nat, at : Nat]
      BY <1>0, <1>2, <1>3
    <2>2. /\ Len(mdat) \in Nat /\ DOMAIN mdat = 1 .. Len(mdat)
          /\ mdat' \in Seq([track : Tracks, index : Nat, at : Nat])
          /\ Len(mdat') = R /\ mdat'[R] = rec /\ \A r \in 1 .. Len(mdat) : mdat'[r] = mdat[r]
      BY ONLY <2>1, <1>0, <1>1, <1>2, LenProperties, AppendProperties
    <2>3. DOMAIN mdat' = 1 .. R
      BY ONLY <2>2, LenProperties
    <2> QED
      BY ONLY <2>2, <2>3, <1>0
  <1>9. \A t \in Tracks : RecordsOf(t)' = IF t = T THEN RecordsOf(t) \cup {R} ELSE RecordsOf(t)
    <2>1. ASSUME NEW t \in Tracks
          PROVE  RecordsOf(t)' = IF t = T THEN RecordsOf(t) \cup {R} ELSE RecordsOf(t)
      <3>1. rec.track = T
        BY <1>0
      <3> QED
        BY <3>1, <1>8 DEF RecordsOf
    <2> QED
      BY <2>1
  <1>10. ASSUME NEW t \in Tracks, t # T
         PROVE  InOrder(t, WrittenOf(t))'
    <2>1. RecordsOf(t)' = RecordsOf(t) /\ \A r \in RecordsOf(t) : mdat'[r] = mdat[r]
      BY <1>8, <1>9, <1>10 DEF RecordsOf
    <2>2. InOrder(t, WrittenOf(t))
      BY DEF LogInv
    <2> QED
      BY <2>1, <2>2, <1>7, <1>10 DEF InOrder, UpTo
  <1>11. InOrder(T, WrittenOf(T))'
    <2>1. /\ IsFiniteSet(RecordsOf(T)) /\ Cardinality(RecordsOf(T)) = c
          /\ \A r \in RecordsOf(T) : Cardinality(UpTo(RecordsOf(T), r)) = mdat[r].index + 1
          /\ \A k \in 1 .. c : \E r \in RecordsOf(T) : mdat[r].index + 1 = k
      BY <1>0, <1>3 DEF LogInv, InOrder
    <2>2. /\ RecordsOf(T)' = RecordsOf(T) \cup {R} /\ R \notin RecordsOf(T)
          /\ \A r \in RecordsOf(T) : r < R /\ r \in Nat /\ mdat'[r] = mdat[r]
      BY <1>3, <1>8, <1>9 DEF RecordsOf
    <2>3. IsFiniteSet(RecordsOf(T)') /\ Cardinality(RecordsOf(T)') = c + 1
      BY <2>1, <2>2, FS_AddElement
    <2>4. \A r \in RecordsOf(T) : UpTo(RecordsOf(T)', r) = UpTo(RecordsOf(T), r)
      BY <2>2, <1>8 DEF UpTo
    <2>5. UpTo(RecordsOf(T)', R) = RecordsOf(T)'
      BY <2>2, <1>8 DEF UpTo
    <2>6. mdat'[R].index + 1 = c + 1
      BY <1>0, <1>4, <1>8
    <2>7. \A r \in RecordsOf(T)' : Cardinality(UpTo(RecordsOf(T)', r)) = mdat'[r].index + 1
      BY <2>1, <2>2, <2>3, <2>4, <2>5, <2>6
    <2>8. \A k \in 1 .. c + 1 : \E r \in RecordsOf(T)' : mdat'[r].index + 1 = k
      <3> SUFFICES ASSUME NEW k \in 1 .. c + 1
                   PROVE  \E r \in RecordsOf(T)' : mdat'[r].index + 1 = k
        OBVIOUS
      <3>1. CASE k \in 1 .. c
        BY <3>1, <2>1, <2>2
      <3>2. CASE k = c + 1
        BY <3>2, <2>2, <2>6
      <3> QED
        BY <3>1, <3>2, <1>4
    <2> QED
      BY <2>3, <2>7, <2>8, <1>5, <1>6 DEF InOrder, UpTo
  <1> QED
    <2>1. \A t \in Tracks : InOrder(t, WrittenOf(t))'
      BY <1>10, <1>11
    <2> QED
      BY <2>1, <1>0, <1>3, <1>4, <1>6, <1>7

(***************************************************************************)
(* A track is passed by FinalizeStream when nothing of it is left to       *)
(* write.                                                                  *)
(***************************************************************************)
LEMMA NextFlushedInFull ==
  ASSUME LogInv, [Next]_vars
  PROVE  FlushedInFull'
  <1>0. /\ IInv /\ FlushedInFull /\ stco \in [Tracks -> Seq(Nat)] /\ flushing \in Nat
        /\ job \in JobType /\ job.track \in Tracks /\ put \in [Tracks -> Nat]
        /\ \A k \in DOMAIN MediaTracks : k \in Nat /\ k >= 1
    <2>1. MediaTracks \in Seq(Tracks)
      BY TracksAssumption
    <2>2. \A k \in DOMAIN MediaTracks : k \in Nat /\ k >= 1
      BY ONLY <2>1, LenProperties
    <2> QED
      BY <2>2 DEF LogInv, IInv, Types, JobType
  <1>1. CASE flushing = 0 /\ flushing' \in {0, 1}
    <2>1. \A t \in Tracks : ~Flushed(t)'
      BY <1>0, <1>1 DEF Flushed
    <2>2. phase' = "idle" \/ flushing' = 0
      BY <1>0, <1>1 DEF Next, WriteStep, Put, AddToTables, TablesDone, WriteSlice, SamplesWritten,
                  BeginFinalize, Finalize, FlushTrack, FinalizeBoxes, Idle, vars, tableVars, endVars, Fail
    <2> QED
      BY <2>1, <2>2 DEF FlushedInFull
  <1>2. ASSUME flushing # 0, UNCHANGED <<flushing, put>>,
               \A t \in Tracks : Flushed(t) => stco'[t] = stco[t],
               phase' # "idle" => job'.rest = <<>>
        PROVE  FlushedInFull'
    BY <1>0, <1>2 DEF FlushedInFull, Flushed
  <1>3. CASE flushing # 0 /\ AddToTables
    <2>1. ~Flushed(job.track)
      <3>1. flushing \in DOMAIN MediaTracks /\ MediaTracks[flushing] = job.track
        BY <1>0, <1>3 DEF IInv, BlockIsNext, AddToTables
      <3>2. \A k \in DOMAIN MediaTracks : MediaTracks[k] = MediaTracks[flushing] => k = flushing
        BY <3>1, TracksAssumption
      <3> QED
        BY <3>1, <3>2, <1>0 DEF Flushed
    <2>2. \A t \in Tracks : t # job.track => stco'[t] = stco[t]
      BY <1>0, <1>3 DEF AddToTables
    <2>3. job'.rest = job.rest /\ UNCHANGED <<flushing, put>> /\ phase # "idle"
      BY <1>0, <1>3 DEF AddToTables, endVars, JobType
    <2> QED
      BY <2>1, <2>2, <2>3, <1>0, <1>2, <1>3 DEF FlushedInFull
  <1>4. CASE flushing # 0 /\ (TablesDone \/ WriteSlice)
    <2>1. job'.rest = job.rest /\ UNCHANGED <<flushing, put, stco>> /\ phase # "idle"
      BY <1>0, <1>4 DEF TablesDone, WriteSlice, endVars, tableVars, JobType, Fail
    <2> QED
      BY <2>1, <1>0, <1>2, <1>4 DEF FlushedInFull
  <1>5. ASSUME flushing # 0, flushing' = flushing + 1, UNCHANGED <<stco, put>>, phase' = "idle",
               NEW t \in Tracks, MediaTracks[flushing] = t, Len(stco[t]) = put[t]
        PROVE  FlushedInFull'
    <2>1. ASSUME NEW u \in Tracks, Flushed(u)'
          PROVE  Flushed(u) \/ u = t
      <3>1. PICK k \in DOMAIN MediaTracks : k < flushing + 1 /\ MediaTracks[k] = u
        BY <1>5, <2>1 DEF Flushed
      <3>2. k < flushing \/ k = flushing
        BY <3>1, <1>0
      <3> QED
        BY <3>1, <3>2, <1>5 DEF Flushed
    <2> QED
      BY <2>1, <1>0, <1>5 DEF FlushedInFull
  <1>6. CASE flushing # 0 /\ SamplesWritten
    <2>1. CASE phase' = phase /\ UNCHANGED <<job, flushing>>
      BY <2>1, <1>0, <1>2, <1>6 DEF SamplesWritten, tableVars, FlushedInFull
    <2>2. CASE phase' = "idle" /\ flushing' = flushing + 1
      <3>1. /\ phase = "data" /\ UNCHANGED <<put, stco>>
            /\ job.next = Len(job.slices) + 1 /\ Len(job.slices) \in Nat
        BY <1>0, <1>6 DEF SamplesWritten, tableVars, IInv, BlockIsNext, JobType
      <3>2. PICK T \in Tracks : T = job.track
        BY <1>0
      <3>3. MediaTracks[flushing] = T /\ job.rest = <<>>
        BY <3>1, <3>2, <1>0, <1>6 DEF IInv, BlockIsNext, FlushedInFull
      <3>4. Len(stco[T]) = put[T]
        <4>1. Base + Len(job.slices) + Len(job.rest) = put[T]
          BY <3>1, <3>2, <1>0 DEF IInv, BlockIsNext
        <4>2. Base = Len(stco[T]) - Len(job.slices) /\ Len(stco[T]) \in Nat
          BY <3>1, <3>2, <1>0 DEF Base, Described
        <4>3. Len(job.rest) = 0
          BY <3>3
        <4> QED
          BY <4>1, <4>2, <4>3, <3>1
      <3> QED
        BY <3>1, <3>2, <3>3, <3>4, <2>2, <1>5, <1>6
    <2> QED
      BY <2>1, <2>2, <1>6 DEF SamplesWritten, Fail
  <1>7. CASE flushing # 0 /\ FlushTrack
    <2>1. PICK t \in Tracks : t = MediaTracks[flushing]
      BY <1>7, TracksAssumption DEF FlushTrack
    <2>2. Idle /\ UNCHANGED <<put, stco>> /\ flushing \in DOMAIN MediaTracks
      BY <1>7 DEF FlushTrack
    <2>3. CASE buffered[t] = <<>> /\ flushing' = flushing + 1 /\ UNCHANGED phase
      <3>1. Waiting(t)
        <4>1. \A k \in DOMAIN MediaTracks : MediaTracks[k] = MediaTracks[flushing] => k = flushing
          BY <2>2, TracksAssumption
        <4> QED
          BY <4>1, <2>1, <2>2, <1>0 DEF Waiting, Flushed, Idle
      <3>2. Len(stco[t]) + Len(buffered[t]) = put[t] /\ Len(buffered[t]) = 0
        BY <3>1, <2>3, <1>0 DEF IInv, HoldsTheRest
      <3>3. Len(stco[t]) \in Nat /\ phase' = "idle"
        BY <2>2, <2>3, <1>0 DEF Idle
      <3> QED
        BY <3>2, <3>3, <2>1, <2>2, <2>3, <1>5, <1>7
    <2>4. CASE StartBlock(t, buffered[t], <<>>) /\ UNCHANGED flushing
      <3>1. job'.rest = <<>>
        BY <2>4 DEF StartBlock
      <3> QED
        BY <3>1, <2>2, <2>4, <1>2, <1>7
    <2> QED
      BY <2>1, <2>3, <2>4, <1>7 DEF FlushTrack
  <1>8. CASE flushing # 0 /\ (FinalizeBoxes \/ UNCHANGED vars)
    <2>1. UNCHANGED <<flushing, put, stco, phase, job>>
      BY <1>8 DEF FinalizeBoxes, vars, tableVars, endVars, Fail
    <2> QED
      BY <2>1, <1>0, <1>2, <1>8 DEF FlushedInFull
  <1>9. flushing = 0 => flushing' \in {0, 1}
    <2>1. CASE \E t \in Tracks : Put(t)
      BY <2>1 DEF Put, Fail, endVars
    <2>2. CASE WriteStep
      BY <2>2 DEF WriteStep, AddToTables, TablesDone, WriteSlice, SamplesWritten, Fail, endVars
    <2>3. CASE BeginFinalize
      BY <2>3 DEF BeginFinalize
    <2>4. CASE Finalize
      <3>1. CASE FlushTrack
        BY <3>1, <1>0 DEF FlushTrack
      <3>2. CASE FinalizeBoxes
        BY <3>2 DEF FinalizeBoxes, Fail
      <3> QED
        BY <3>1, <3>2, <2>4 DEF Finalize
    <2>5. CASE UNCHANGED vars
      BY <2>5 DEF vars, endVars
    <2> QED
      BY <2>1, <2>2, <2>3, <2>4, <2>5 DEF Next
  <1> QED
    BY <1>1, <1>3, <1>4, <1>6, <1>7, <1>8, <1>9
       DEF Next, WriteStep, Finalize, Put, BeginFinalize

LEMMA InitLogInv == Init => LogInv
  <1> SUFFICES ASSUME Init PROVE LogInv
    OBVIOUS
  <1>1. FlushedInFull
    <2>1. \A k \in DOMAIN MediaTracks : k >= 1
      <3>1. MediaTracks \in Seq(Tracks)
        BY TracksAssumption
      <3> QED
        BY ONLY <3>1, LenProperties
    <2> QED
      BY <2>1 DEF Init, FlushedInFull, Flushed
  <1>2. ASSUME NEW t \in Tracks PROVE InOrder(t, WrittenOf(t))
    <2>1. RecordsOf(t) = {} /\ WrittenOf(t) = 0
      BY DEF Init, RecordsOf, WrittenOf
    <2> QED
      BY <2>1, FS_EmptySet DEF InOrder
  <1> QED
    BY <1>1, <1>2, InitIInv DEF LogInv

LEMMA NextLogInv == LogInv /\ [Next]_vars => LogInv'
  <1> SUFFICES ASSUME LogInv, [Next]_vars PROVE LogInv'
    OBVIOUS
  <1>1. IInv' /\ FlushedInFull'
    BY NextIInv, NextFlushedInFull DEF LogInv
  <1>2. CASE WriteSlice
    BY <1>1, <1>2, WriteSliceLands DEF LogInv
  <1>3. CASE ~WriteSlice
    <2>1. ASSUME NEW t \in Tracks PROVE InOrder(t, WrittenOf(t))'
      <3>1. mdat' = mdat /\ WrittenOf(t)' = WrittenOf(t)
        BY <1>3, WrittenStays DEF LogInv
      <3>2. InOrder(t, WrittenOf(t))
        BY DEF LogInv
      <3> QED
        BY <3>1, <3>2 DEF InOrder, RecordsOf, UpTo
    <2> QED
      BY <1>1, <2>1 DEF LogInv
  <1> QED
    BY <1>2, <1>3

LEMMA PayloadIsWritten ==
  ASSUME LogInv, NEW t \in Tracks
  PROVE  PayloadOf(t) = Indices(WrittenOf(t)) /\ WrittenOf(t) \in Nat
  <1>1. WrittenOf(t) \in Nat /\ InOrder(t, WrittenOf(t))
    BY WrittenIsNatural DEF LogInv
  <1>2. mdat \in Seq([track : Tracks, index : Nat, at : Nat])
    BY DEF LogInv, IInv, Types
  <1> QED
    BY <1>1, <1>2, PayloadIsIndices

PayloadKnown == \A t \in Tracks : PayloadOf(t) = Indices(WrittenOf(t)) /\ WrittenOf(t) \in Nat

LEMMA PayloadKnownNext == LogInv' => PayloadKnown'
  <1>1. LogInv => PayloadKnown
    BY PayloadIsWritten DEF PayloadKnown
  <1> QED
    BY <1>1, PTL

LEMMA LogInit == Init => Log!Init
  <1> SUFFICES ASSUME Init PROVE Log!Init
    OBVIOUS
  <1>1. ASSUME NEW t \in Tracks PROVE PayloadOf(t) = <<>>
    <2>1. WrittenOf(t) = 0
      BY DEF Init, WrittenOf
    <2>2. PayloadOf(t) = Indices(0)
      BY <2>1, InitLogInv, PayloadIsWritten
    <2> QED
      BY <2>2 DEF Indices
  <1> QED
    BY <1>1 DEF Init, Log!Init, Outcome

(***************************************************************************)
(* Every step of the writer is a step of the log, or leaves the log alone: *)
(* a put is an acceptance, a slice written an append, the end of           *)
(* FinalizeStream the closing, an exception the giving up.                 *)
(***************************************************************************)
LEMMA LogNext == LogInv /\ [Next]_vars => [Log!Next]_(Log!vars)
  <1> SUFFICES ASSUME LogInv, [Next]_vars PROVE [Log!Next]_(Log!vars)
    OBVIOUS
  <1> DEFINE P == [t \in Tracks |-> PayloadOf(t)]
  <1>1. LogInv'
    BY NextLogInv
  <1>2. ASSUME ~WriteSlice PROVE P' = P
    <2>1. ASSUME NEW t \in Tracks PROVE PayloadOf(t)' = PayloadOf(t)
      <3>1. mdat' = mdat
        BY <1>2, WrittenStays DEF LogInv
      <3> QED
        BY <3>1 DEF PayloadOf, RecordsOf, NthOf, UpTo
    <2> QED
      BY <2>1
  <1>3. CASE \E t \in Tracks : Put(t)
    <2>1. PICK t \in Tracks : Put(t)
      BY <1>3
    <2>2. P' = P
      <3>1. phase = "idle"
        BY <2>1 DEF Put, Idle
      <3> QED
        BY <3>1, <1>2 DEF WriteSlice
    <2>3. put' = [put EXCEPT ![t] = @ + 1] /\ state = "MoovReady" /\ state' \in {state, "Failed"}
      BY <2>1 DEF Put, Idle, Fail, endVars
    <2>4. CASE state' = state
      <3>1. Log!Accept(t)
        BY <2>2, <2>3, <2>4 DEF Log!Accept, Outcome
      <3> QED
        BY <3>1 DEF Log!Next
    <2>5. CASE state' = "Failed"
      <3>1. Log!GiveUp
        BY <2>2, <2>3, <2>5 DEF Log!GiveUp, Outcome
      <3> QED
        BY <3>1 DEF Log!Next
    <2> QED
      BY <2>3, <2>4, <2>5
  <1>4. CASE WriteSlice
    <2>1. PICK T : T = job.track
      OBVIOUS
    <2>2. /\ T \in Tracks /\ WrittenOf(T)' = WrittenOf(T) + 1 /\ WrittenOf(T) < put[T]
          /\ \A t \in Tracks : t # T => WrittenOf(t)' = WrittenOf(t)
      BY <1>4, <2>1, WriteSliceLands
    <2>3. \A t \in Tracks : PayloadOf(t) = Indices(WrittenOf(t)) /\ WrittenOf(t) \in Nat
      BY PayloadIsWritten
    <2>4. \A t \in Tracks : PayloadOf(t)' = Indices(WrittenOf(t)')
      BY <1>1, PayloadKnownNext DEF PayloadKnown, Indices
    <2>5. PayloadOf(T)' = Append(PayloadOf(T), Len(PayloadOf(T))) /\ Len(PayloadOf(T)) < put[T]
      BY <2>2, <2>3, <2>4, IndicesGrow
    <2>6. \A t \in Tracks : t # T => PayloadOf(t)' = PayloadOf(t)
      BY <2>2, <2>3, <2>4
    <2>7. P' = [P EXCEPT ![T] = Append(@, Len(@))]
      BY <2>2, <2>5, <2>6
    <2>8. put' = put /\ state' = state /\ state = "MoovReady"
      BY <1>4 DEF WriteSlice, endVars
    <2>9. Len(P[T]) < put[T]
      BY <2>2, <2>5
    <2>10. Log!Write(T)
      BY <2>2, <2>7, <2>8, <2>9 DEF Log!Write, Outcome
    <2> QED
      BY <2>2, <2>10 DEF Log!Next
  <1>5. CASE AddToTables \/ TablesDone \/ SamplesWritten \/ BeginFinalize \/ FlushTrack
    <2>1. P' = P
      <3>1. CASE TablesDone \/ SamplesWritten
        <4>1. mdat' = mdat
          BY <3>1 DEF TablesDone, SamplesWritten, mdatVars
        <4> QED
          BY <4>1 DEF PayloadOf, RecordsOf, NthOf, UpTo
      <3>2. CASE AddToTables \/ BeginFinalize \/ FlushTrack
        <4>1. mdat' = mdat
          BY <3>2 DEF AddToTables, BeginFinalize, FlushTrack, mdatVars
        <4> QED
          BY <4>1 DEF PayloadOf, RecordsOf, NthOf, UpTo
      <3> QED
        BY <3>1, <3>2, <1>5
    <2>2. put' = put /\ state = "MoovReady" /\ state' \in {state, "Failed"}
      BY <1>5 DEF AddToTables, TablesDone, SamplesWritten, BeginFinalize, FlushTrack, Idle, Fail, endVars
    <2>3. CASE state' = state
      BY <2>1, <2>2, <2>3 DEF Log!vars, Outcome
    <2>4. CASE state' = "Failed"
      <3>1. Log!GiveUp
        BY <2>1, <2>2, <2>4 DEF Log!GiveUp, Outcome
      <3> QED
        BY <3>1 DEF Log!Next
    <2> QED
      BY <2>2, <2>3, <2>4
  <1>6. CASE FinalizeBoxes
    <2>1. phase = "idle" /\ put' = put /\ state = "MoovReady" /\ flushing > Len(MediaTracks)
      BY <1>6 DEF FinalizeBoxes, Idle
    <2>2. P' = P
      BY <2>1, <1>2 DEF WriteSlice
    <2>3. CASE state' = "Failed"
      <3>1. Log!GiveUp
        BY <2>1, <2>2, <2>3 DEF Log!GiveUp, Outcome
      <3> QED
        BY <3>1 DEF Log!Next
    <2>4. CASE state' = "Closed"
      <3>1. ASSUME NEW t \in Tracks PROVE Len(PayloadOf(t)) = put[t]
        <4>1. PICK k \in DOMAIN MediaTracks : MediaTracks[k] = t
          BY TracksAssumption
        <4>2. k \in Nat /\ k <= Len(MediaTracks) /\ Len(MediaTracks) \in Nat
          <5>1. MediaTracks \in Seq(Tracks)
            BY TracksAssumption
          <5> QED
            BY ONLY <5>1, k \in DOMAIN MediaTracks, LenProperties
        <4>3. Flushed(t)
          <5>1. flushing \in Nat
            BY DEF LogInv, IInv, Types
          <5>2. k < flushing
            BY <5>1, <4>2, <2>1
          <5> QED
            BY <5>2, <4>1 DEF Flushed
        <4>4. Len(stco[t]) = put[t] /\ WrittenOf(t) = Len(stco[t])
          BY <4>3, <2>1 DEF LogInv, FlushedInFull, WrittenOf
        <4>5. Len(PayloadOf(t)) = WrittenOf(t)
          <5>1. PayloadOf(t) = Indices(WrittenOf(t)) /\ WrittenOf(t) \in Nat
            BY PayloadIsWritten
          <5>2. Len(Indices(WrittenOf(t))) = WrittenOf(t)
            BY <5>1, IndicesGrow
          <5> QED
            BY <5>1, <5>2
        <4> QED
          BY <4>4, <4>5
      <3>2. Log!Close
        BY <3>1, <2>1, <2>2, <2>4 DEF Log!Close, Outcome
      <3> QED
        BY <3>2 DEF Log!Next
    <2> QED
      BY <2>3, <2>4, <1>6 DEF FinalizeBoxes, Fail
  <1>7. CASE UNCHANGED vars
    <2>1. UNCHANGED <<put, mdat, state>>
      BY <1>7 DEF vars, mdatVars, endVars
    <2> QED
      BY <2>1 DEF Log!vars, PayloadOf, RecordsOf, NthOf, UpTo, Outcome
  <1> QED
    BY <1>3, <1>4, <1>5, <1>6, <1>7 DEF Next, WriteStep, Finalize

(***************************************************************************)
(* The writer implements the log: for every set of tracks, every source    *)
(* and every order of the puts, each track's payload in the file is what   *)
(* was put in it, in order and once, and a file is closed only when it is  *)
(* complete.                                                               *)
(***************************************************************************)
THEOREM ImplementsTheLog == Spec => WritesTheLog
  <1>1. Init => Log!Init
    BY LogInit
  <1>2. Spec => []LogInv
    BY InitLogInv, NextLogInv, PTL DEF Spec
  <1>3. LogInv /\ [Next]_vars => [Log!Next]_(Log!vars)
    BY LogNext
  <1> QED
    BY <1>1, <1>2, <1>3, PTL DEF Spec, WritesTheLog, Log!Spec

-----------------------------------------------------------------------------
(***************************************************************************)
(* Where blocks start.  A video track without B frames ends every block in *)
(* an IFrame, which is held back and becomes the head of the next one; so  *)
(* the track is never without a slice to start with.                       *)
(***************************************************************************)
OnlyIAndDFrames ==
  \A t \in VideoTracks : \A k \in DOMAIN Source[t] : Source[t][k].type \in {"IFrame", "DFrame"}

StartsRight(t, slices) ==
  slices # <<>> /\ slices[1] # 0 => SliceAt(t, slices[1]).type = "IFrame"

HeadsAreSync ==
  \A t \in VideoTracks :
    /\ StartsRight(t, buffered[t])
    /\ phase # "idle" /\ job.track = t =>
         StartsRight(t, job.slices) /\ StartsRight(t, job.rest)
    /\ flushing = 0 /\ put[t] > 0 =>
         IF phase # "idle" /\ job.track = t THEN job.rest # <<>> ELSE buffered[t] # <<>>

SyncInv == IInv /\ HeadsAreSync

LEMMA InitSyncInv == Init => SyncInv
  <1> SUFFICES ASSUME Init PROVE SyncInv
    OBVIOUS
  <1>1. \A t \in VideoTracks : t \in Tracks
    BY OptionsAssumption
  <1> QED
    BY <1>1, InitIInv DEF Init, SyncInv, HeadsAreSync, StartsRight

LEMMA PutSync ==
  ASSUME OnlyIAndDFrames, SyncInv, NEW t \in Tracks, Put(t)
  PROVE  HeadsAreSync'
  <1>1. PICK held, rest, n :
          held = Append(buffered[t], put[t]) /\ rest = HeldBack(t) /\ n = put[t]
    OBVIOUS
  <1>2. /\ phase = "idle" /\ flushing = 0 /\ flushing' = 0 /\ n < Len(Source[t])
        /\ put' = [put EXCEPT ![t] = @ + 1]
    BY <1>1 DEF Put, Idle, Fail, endVars
  <1>3. \/ buffered' = [buffered EXCEPT ![t] = held] /\ UNCHANGED <<job, phase>>
        \/ StartBlock(t, SlicesToWrite(held, rest), rest) /\ IsBlock(t, held)
    BY <1>1 DEF Put
  <1>4. /\ buffered \in [Tracks -> Seq(Nat)] /\ put \in [Tracks -> Nat] /\ n \in Nat
        /\ buffered[t] \in Seq(Nat) /\ Source[t] \in Seq(Slice) /\ \A u \in VideoTracks : u \in Tracks
    BY <1>1, SourceAssumption, OptionsAssumption DEF SyncInv, IInv, Types
  <1>5. /\ held \in Seq(Nat) /\ Len(held) = Len(buffered[t]) + 1 /\ held # <<>>
        /\ buffered[t] = <<>> => held[1] = n
        /\ buffered[t] # <<>> => held[1] = buffered[t][1]
    <2>1. PICK b \in Seq(Nat) : b = buffered[t] /\ held = Append(b, n)
      BY <1>1, <1>4
    <2>2. /\ held \in Seq(Nat) /\ Len(held) = Len(b) + 1 /\ held # <<>> /\ held[Len(b) + 1] = n
          /\ \A i \in 1 .. Len(b) : held[i] = b[i]
      BY ONLY <2>1, AppendProperties, <1>4
    <2>3. b # <<>> => 1 \in 1 .. Len(b)
      BY EmptySeq
    <2>4. b = <<>> => Len(b) + 1 = 1
      OBVIOUS
    <2> QED
      BY <2>1, <2>2, <2>3, <2>4
  <1>6. t \in VideoTracks => StartsRight(t, held)
    <2> SUFFICES ASSUME t \in VideoTracks PROVE StartsRight(t, held)
      OBVIOUS
    <2>1. StartsRight(t, buffered[t]) /\ (n > 0 => buffered[t] # <<>>)
      BY <1>1, <1>2 DEF SyncInv, HeadsAreSync
    <2>2. buffered[t] = <<>> => held[1] = 0
      BY <2>1, <1>4, <1>5
    <2> QED
      BY <2>1, <2>2, <1>5 DEF StartsRight
  <1>7. ASSUME NEW u \in VideoTracks, u # t
        PROVE  /\ buffered'[u] = buffered[u] /\ put'[u] = put[u]
               /\ StartsRight(u, buffered[u])
               /\ put[u] > 0 => buffered[u] # <<>>
    <2>1. buffered'[u] = buffered[u] /\ put'[u] = put[u]
      BY <1>2, <1>3, <1>4, <1>7 DEF StartBlock
    <2> QED
      BY <2>1, <1>2 DEF SyncInv, HeadsAreSync
  <1>8. CASE buffered' = [buffered EXCEPT ![t] = held] /\ UNCHANGED <<job, phase>>
    <2>1. buffered'[t] = held
      BY <1>4, <1>8
    <2>2. phase' = "idle"
      BY <1>2, <1>8
    <2> SUFFICES ASSUME NEW u \in VideoTracks
                 PROVE  StartsRight(u, buffered[u])' /\ (put'[u] > 0 => buffered'[u] # <<>>)
      BY <2>2 DEF HeadsAreSync
    <2>3. CASE u = t
      BY <2>1, <2>3, <1>5, <1>6 DEF StartsRight, SliceAt
    <2>4. CASE u # t
      BY <2>4, <1>7 DEF StartsRight, SliceAt
    <2> QED
      BY <2>3, <2>4
  <1>9. CASE StartBlock(t, SlicesToWrite(held, rest), rest) /\ IsBlock(t, held)
    <2>1. PICK slices : slices = SlicesToWrite(held, rest)
      OBVIOUS
    <2>2. /\ phase' = "tables" /\ job'.track = t /\ job'.slices = slices /\ job'.rest = rest
          /\ buffered'[t] = slices
      BY <2>1, <1>4, <1>9 DEF StartBlock
    <2>3. t \in VideoTracks => rest = <<n>> /\ SliceAt(t, n).type = "IFrame"
      <3> SUFFICES ASSUME t \in VideoTracks PROVE rest = <<n>> /\ SliceAt(t, n).type = "IFrame"
        OBVIOUS
      <3>1. SliceAt(t, n).type \in {"IFrame", "DFrame"}
        <4>1. n + 1 \in DOMAIN Source[t]
          BY <1>2, <1>4
        <4> QED
          BY <4>1 DEF OnlyIAndDFrames, SliceAt
      <3>2. SliceAt(t, n).type # "DFrame"
        BY <1>1, <1>9 DEF IsBlock
      <3> QED
        BY <3>1, <3>2, <1>1 DEF HeldBack
    <2>4. t \in VideoTracks => StartsRight(t, slices) /\ StartsRight(t, rest) /\ rest # <<>>
      <3> SUFFICES ASSUME t \in VideoTracks
                   PROVE  StartsRight(t, slices) /\ StartsRight(t, rest) /\ rest # <<>>
        OBVIOUS
      <3>1. StartsRight(t, rest) /\ rest # <<>>
        BY <2>3 DEF StartsRight
      <3>2. slices # <<>> => slices[1] = held[1]
        <4>1. slices = SubSeq(held, 1, Len(held) - 1)
          BY <2>1, <2>3 DEF SlicesToWrite
        <4>2. PICK l \in Nat : l = Len(held) - 1 /\ l <= Len(held)
          BY <1>4, <1>5
        <4>3. /\ Len(slices) = IF 1 <= l THEN l - 1 + 1 ELSE 0
              /\ \A j \in 1 .. l - 1 + 1 : slices[j] = held[1 + j - 1]
              /\ slices \in Seq(Nat)
          <5>1. \A j \in 1 .. l : held[j] \in Nat
            <6>1. \A j \in 1 .. l : j \in 1 .. Len(held)
              BY <4>2, <1>5
            <6> QED
              BY <6>1, <1>5, ElementOfSeq
          <5> QED
            BY ONLY <4>1, <4>2, <5>1, SubSeqProperties
        <4>4. slices # <<>> => Len(slices) # 0
          BY <4>3, EmptySeq
        <4>5. Len(slices) # 0 => 1 \in 1 .. l - 1 + 1
          BY <4>2, <4>3
        <4> QED
          BY <4>3, <4>4, <4>5
      <3> QED
        BY <3>1, <3>2, <1>5, <1>6 DEF StartsRight
    <2> SUFFICES ASSUME NEW u \in VideoTracks
                 PROVE  /\ StartsRight(u, buffered[u])'
                        /\ u = t => StartsRight(u, slices) /\ StartsRight(u, rest) /\ rest # <<>>
                        /\ u # t /\ put'[u] > 0 => buffered'[u] # <<>>
      BY <2>2 DEF HeadsAreSync, StartsRight, SliceAt
    <2>5. CASE u = t
      BY <2>2, <2>4, <2>5 DEF StartsRight, SliceAt
    <2>6. CASE u # t
      BY <2>6, <1>7 DEF StartsRight, SliceAt
    <2> QED
      BY <2>5, <2>6
  <1> QED
    BY <1>3, <1>8, <1>9

LEMMA NextSyncInv ==
  ASSUME OnlyIAndDFrames
  PROVE  SyncInv /\ [Next]_vars => SyncInv'
  <1> SUFFICES ASSUME SyncInv, [Next]_vars PROVE SyncInv'
    OBVIOUS
  <1>1. IInv'
    BY NextIInv DEF SyncInv
  <1>2. /\ job \in JobType /\ buffered \in [Tracks -> Seq(Nat)] /\ flushing \in Nat
        /\ \A u \in VideoTracks : u \in Tracks
    BY OptionsAssumption DEF SyncInv, IInv, Types, JobType
  <1>3. CASE \E t \in Tracks : Put(t)
    BY <1>1, <1>3, PutSync DEF SyncInv
  <1>4. CASE AddToTables \/ TablesDone \/ WriteSlice
    <2>1. /\ UNCHANGED <<buffered, put, flushing>> /\ phase # "idle" /\ phase' # "idle"
      BY <1>4 DEF AddToTables, TablesDone, WriteSlice, endVars, Fail
    <2>2. job'.track = job.track /\ job'.slices = job.slices /\ job'.rest = job.rest
      BY <1>2, <1>4 DEF AddToTables, TablesDone, WriteSlice, JobType
    <2> QED
      BY <1>1, <2>1, <2>2 DEF SyncInv, HeadsAreSync, StartsRight, SliceAt
  <1>5. CASE SamplesWritten
    <2>1. phase # "idle" /\ put' = put
      BY <1>5 DEF SamplesWritten
    <2>2. CASE UNCHANGED <<buffered, job, phase, flushing>>
      BY <1>1, <2>1, <2>2 DEF SyncInv, HeadsAreSync, StartsRight, SliceAt
    <2>3. CASE phase' = "idle" /\ flushing' # 0 /\ UNCHANGED buffered
      BY <1>1, <2>1, <2>3 DEF SyncInv, HeadsAreSync, StartsRight, SliceAt
    <2>4. CASE phase' = "idle" /\ flushing = 0 /\ flushing' = 0
               /\ buffered' = [buffered EXCEPT ![job.track] = job.rest]
      <3>1. PICK T : T = job.track
        OBVIOUS
      <3> SUFFICES ASSUME NEW u \in VideoTracks
                   PROVE  StartsRight(u, buffered[u])' /\ (put[u] > 0 => buffered'[u] # <<>>)
        BY <1>1, <2>1, <2>4 DEF SyncInv, HeadsAreSync
      <3>2. CASE u = T
        <4>1. buffered'[u] = job.rest
          BY <3>1, <3>2, <2>4, <1>2
        <4>2. StartsRight(u, job.rest) /\ (put[u] > 0 => job.rest # <<>>)
          BY <3>1, <3>2, <2>1, <2>4 DEF SyncInv, HeadsAreSync
        <4> QED
          BY <4>1, <4>2 DEF StartsRight, SliceAt
      <3>3. CASE u # T
        <4>1. buffered'[u] = buffered[u]
          BY <3>1, <3>3, <2>4, <1>2
        <4>2. StartsRight(u, buffered[u]) /\ (put[u] > 0 => buffered[u] # <<>>)
          BY <3>1, <3>3, <2>1, <2>4 DEF SyncInv, HeadsAreSync
        <4> QED
          BY <4>1, <4>2 DEF StartsRight, SliceAt
      <3> QED
        BY <3>2, <3>3
    <2>5. \/ UNCHANGED <<buffered, job, phase, flushing>>
          \/ phase' = "idle" /\ flushing = 0 /\ flushing' = 0
             /\ buffered' = [buffered EXCEPT ![job.track] = job.rest]
          \/ phase' = "idle" /\ flushing # 0 /\ flushing' = flushing + 1 /\ UNCHANGED buffered
      BY <1>5 DEF SamplesWritten, Fail, endVars
    <2> QED
      BY <2>2, <2>3, <2>4, <2>5, <1>2
  <1>6. CASE BeginFinalize \/ FinalizeBoxes \/ UNCHANGED vars
    <2>1. UNCHANGED <<buffered, put, phase, job>> /\ (flushing' = flushing \/ flushing' = 1)
      BY <1>6 DEF BeginFinalize, FinalizeBoxes, vars, endVars, Fail
    <2> QED
      BY <1>1, <2>1 DEF SyncInv, HeadsAreSync, StartsRight, SliceAt
  <1>7. CASE FlushTrack
    <2>1. PICK t : t = MediaTracks[flushing]
      OBVIOUS
    <2>2. phase = "idle" /\ put' = put /\ flushing' # 0
      <3>1. flushing # 0
        <4>1. MediaTracks \in Seq(Tracks) /\ flushing \in DOMAIN MediaTracks
          BY <1>7, TracksAssumption DEF FlushTrack
        <4> QED
          BY ONLY <4>1, LenProperties
      <3> QED
        BY <3>1, <1>2, <1>7 DEF FlushTrack, Idle
    <2>3. CASE UNCHANGED <<buffered, job, phase>>
      BY <1>1, <2>2, <2>3 DEF SyncInv, HeadsAreSync, StartsRight, SliceAt
    <2>4. CASE StartBlock(t, buffered[t], <<>>)
      <3>1. /\ job'.track = t /\ job'.slices = buffered[t] /\ job'.rest = <<>>
            /\ buffered' = [buffered EXCEPT ![t] = buffered[t]]
        BY <2>4 DEF StartBlock
      <3>2. buffered' = buffered
        BY <3>1, <1>2
      <3> QED
        BY <1>1, <2>2, <3>1, <3>2 DEF SyncInv, HeadsAreSync, StartsRight, SliceAt
    <2> QED
      BY <2>1, <2>3, <2>4, <1>7 DEF FlushTrack
  <1> QED
    BY <1>3, <1>4, <1>5, <1>6, <1>7 DEF Next, WriteStep, Finalize

(***************************************************************************)
(* Every block of a video track but the first starts with an IFrame,       *)
(* however long the groups of pictures are, if the video has no B frames.  *)
(* (With B frames it need not: a block that ends in one is not extended.)  *)
(***************************************************************************)
THEOREM BlocksAlwaysStartWithSync == OnlyIAndDFrames => (Spec => []BlocksStartWithSync)
  <1> SUFFICES ASSUME OnlyIAndDFrames PROVE Spec => []BlocksStartWithSync
    OBVIOUS
  <1>1. SyncInv => BlocksStartWithSync
    BY DEF SyncInv, HeadsAreSync, StartsRight, BlocksStartWithSync
  <1>2. SyncInv /\ [Next]_vars => SyncInv'
    BY NextSyncInv
  <1> QED
    BY <1>1, <1>2, InitSyncInv, PTL DEF Spec
=============================================================================
