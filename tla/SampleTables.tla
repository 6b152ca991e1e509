---------------------------- MODULE SampleTables ----------------------------
(***************************************************************************)
(* Reading the sample tables of a track, as the boxes of a finished file   *)
(* hold them: where a sample lies (SampleToChunkBox.GetFileOffset), the    *)
(* check made on the tables when they are read, and the list of samples    *)
(* that InitSampleStreamFromSampleTableBox builds.                         *)
(*                                                                         *)
(* The tables of a track are a record: stts and ctts, sequences of         *)
(* [count, value]; stsz, a record [all, count, each] whose field all is 0  *)
(* when the sizes differ; stsc, a sequence of [firstChunk, perChunk];      *)
(* stco; and stss, the set of sync samples.                                *)
(***************************************************************************)
EXTENDS Integers, Sequences, SequencesExt

(* Entry after entry, value repeated count times.                          *)
Expand(runs) == FoldLeft(LAMBDA seq, r : seq \o [k \in 1 .. r.count |-> r.value], <<>>, runs)

Total(seq) == FoldLeft(LAMBDA sum, n : sum + n, 0, seq)

SizeOf(tb, n) == IF tb.stsz.all = 0 THEN tb.stsz.each[n] ELSE tb.stsz.all

HasSize(tb, n) == tb.stsz.all # 0 \/ n \in DOMAIN tb.stsz.each

(***************************************************************************)
(* CheckIntegrityOfChunkData.  Both boxes set TotalChunks to the number of *)
(* chunk offsets.                                                          *)
(***************************************************************************)
TotalChunks(tb) == Len(tb.stco)

ChunksInGroup(tb, g) ==
  (IF g = Len(tb.stsc) THEN TotalChunks(tb) + 1 ELSE tb.stsc[g + 1].firstChunk) - tb.stsc[g].firstChunk

ChunkDataIsGood(tb) ==
  tb.stsc # <<>> =>
    /\ Total([g \in DOMAIN tb.stsc |-> ChunksInGroup(tb, g)]) = TotalChunks(tb)
    /\ Total([g \in DOMAIN tb.stsc |-> ChunksInGroup(tb, g) * tb.stsc[g].perChunk]) = tb.stsz.count

(***************************************************************************)
(* The search of GetFileOffset: the chunk group that the search is in, and *)
(* the number of the first sample, when it comes to each chunk.  The next  *)
(* chunk group is entered at its first chunk.                              *)
(***************************************************************************)
ChunkSearch(tb) ==
  LET at[c \in 1 .. TotalChunks(tb)] ==
        IF c = 1 THEN [group |-> 1, first |-> 1]
        ELSE LET left   == at[c - 1]
                 enters == left.group < Len(tb.stsc) /\ tb.stsc[left.group + 1].firstChunk = c
             IN  [group |-> IF enters THEN left.group + 1 ELSE left.group,
                  first |-> left.first + tb.stsc[left.group].perChunk]
  IN  at

(* Mutant: "<" for "<=", the change the comment of GetFileOffset fears.    *)
ReachesSampleEarly(first, perChunk, sample) == first + perChunk >= sample

ReachesSample(first, perChunk, sample) == first + perChunk > sample

(* The chunks at which the search would stop; it stops at the first.       *)
ChunksReaching(tb, sample) ==
  {c \in 1 .. TotalChunks(tb) :
     LET at == ChunkSearch(tb)[c]
     IN  ReachesSample(at.first, tb.stsc[at.group].perChunk, sample)}

(* The offset of a sample, counted from 1; -1 where the code throws.       *)
GetFileOffset(tb, sample) ==
  LET chunk == Min(ChunksReaching(tb, sample))
      first == ChunkSearch(tb)[chunk].first
  IN  IF ChunksReaching(tb, sample) = {} THEN -1
      ELSE tb.stco[chunk] + Total([k \in 1 .. sample - first |-> SizeOf(tb, first + k - 1)])

(***************************************************************************)
(* The samples by time: the units before sample n, counted from 0, in the  *)
(* scale of the track and in ticks.                                        *)
(***************************************************************************)
UnitsBefore(tb, n) == Total(SubSeq(Expand(tb.stts), 1, n))

InTicks(units, scale, ticks) == (units * ticks) \div scale

SampleTime(tb, n, scale, ticks) == InTicks(UnitsBefore(tb, n), scale, ticks)

(***************************************************************************)
(* The loop of GetStartAndEndIndex: the start and the end of the window    *)
(* found when the first n samples were looked at, 0 for "not found".  The  *)
(* loop stops at the end.                                                  *)
(***************************************************************************)
(* Mutant: the sync sample itself ends the window.                         *)
EndsWindowAtSync(tb, n, time, to) == n + 1 \in tb.stss /\ time > to

(* A sample later than the end ends the window if a sync sample follows.   *)
EndsWindow(tb, n, time, to) == n + 2 \in tb.stss /\ time > to

WindowSearch(tb, scale, ticks, from, to) ==
  LET found[n \in 0 .. Len(Expand(tb.stts))] ==
        IF n = 0 THEN [start |-> 0, end |-> 0]
        ELSE LET before == found[n - 1]
                 time   == SampleTime(tb, n - 1, scale, ticks)
                 starts == before.start = 0 /\ time >= from /\ n \in tb.stss
             IN  IF before.end # 0 THEN before
                 ELSE [start |-> IF starts THEN n ELSE before.start,
                       end   |-> IF EndsWindow(tb, n - 1, time, to) THEN n ELSE 0]
  IN  found

GetStartAndEndIndex(tb, scale, ticks, from, to) ==
  LET total == Len(Expand(tb.stts))
      found == WindowSearch(tb, scale, ticks, from, to)[total]
  IN  <<found.start, IF found.end = 0 /\ found.start # 0 THEN total + 1 ELSE found.end>>

(***************************************************************************)
(* InitSampleStreamFromSampleTableBox(uint, int, int, ref ulong): the      *)
(* samples numbered start .. end.  The search for the ctts entry of start  *)
(* begins at 1, so it runs past the table when start is 0.  ok is FALSE    *)
(* where an index is out of range or GetFileOffset throws.                 *)
(***************************************************************************)
SampleInfo(tb, n, scale, ticks) ==
  [index    |-> n - 1,
   time     |-> SampleTime(tb, n - 1, scale, ticks),
   duration |-> InTicks(Expand(tb.stts)[n], scale, ticks) + 1,
   size     |-> SizeOf(tb, n),
   offset   |-> GetFileOffset(tb, n),
   sync     |-> n \in tb.stss,
   ctts     |-> IF tb.ctts = <<>> THEN 0 ELSE Expand(tb.ctts)[n]]

(* Mutant: the last sample is left out.                                    *)
ListedShort(tb, start, end) == {n \in 1 .. Len(Expand(tb.stts)) : start <= n /\ n < end}

Listed(tb, start, end) == {n \in 1 .. Len(Expand(tb.stts)) : start <= n /\ n <= end}

CanList(tb, start, n) ==
  /\ HasSize(tb, n)
  /\ GetFileOffset(tb, n) # -1
  /\ tb.ctts # <<>> => start >= 1 /\ n <= Len(Expand(tb.ctts))

SampleList(tb, start, end, scale, ticks) ==
  IF \A n \in Listed(tb, start, end) : CanList(tb, start, n)
  THEN [ok |-> TRUE, samples |-> {SampleInfo(tb, n, scale, ticks) : n \in Listed(tb, start, end)}]
  ELSE [ok |-> FALSE, samples |-> {}]
=============================================================================
