----------------------------- MODULE MuxWriter -----------------------------
(***************************************************************************)
(* Writing an MP4 file through the cache: the setter of GenericMediaTrack, *)
(* track_PrepareMediaHeaders of PerTrackCacheManager, the sample tables    *)
(* that SampleTableBox builds, and MP4StreamWriter, from the end of        *)
(* InitializeForWriting on.                                                *)
(*                                                                         *)
(* A slice put in a track is buffered until the track holds a block.  The  *)
(* block is then described in the sample tables, slice by slice, at the    *)
(* offsets that a running CurrMDatOffset gives, and only afterwards        *)
(* appended to the one temporary mdat file that all tracks share, so that  *)
(* the two have to agree.  FinalizeStream flushes what the tracks still    *)
(* buffer, measures the header and writes the file.                        *)
(***************************************************************************)
EXTENDS Integers, Sequences, FiniteSets, BlockSizing

CONSTANTS
  Tracks,           \* the tracks of the destination
  MediaTracks,      \* the same as a sequence: the order in which FinalizeStream flushes them
  Source,           \* Source[t] is the sequence of slices put in track t
  VideoTracks,      \* the tracks with a SyncSampleMapBox
  AacTracks,        \* the tracks whose PayloadType is "AAC"
  CTTSOut,          \* the tracks made with the CTTSOut option
  ReadAheadExtent,  \* the time span of a block, in ticks
  TimeScale,        \* units of a media header per second
  TicksPerSecond,
  HeaderSizes,      \* the sizes ftyp and moov may come to
  Word,             \* how many values a uint of the file has
  NoTime            \* the TimeStampNew of a slice that has none

SliceTypes == {"IFrame", "DFrame", "BFrame", "MP4A"}
Slice == [type : SliceTypes, size : Nat, time : Nat \cup {NoTime}, duration : Nat, cts : Nat]

ASSUME TracksAssumption ==
  /\ Tracks # {}
  /\ MediaTracks \in Seq(Tracks)
  /\ \A t \in Tracks : \E n \in DOMAIN MediaTracks : MediaTracks[n] = t
  /\ \A m, n \in DOMAIN MediaTracks : MediaTracks[m] = MediaTracks[n] => m = n
ASSUME SourceAssumption == Source \in [Tracks -> Seq(Slice)]
ASSUME OptionsAssumption ==
  VideoTracks \subseteq Tracks /\ AacTracks \subseteq Tracks /\ CTTSOut \subseteq Tracks
ASSUME ScaleAssumption ==
  /\ ReadAheadExtent \in Nat /\ TimeScale \in Nat /\ HeaderSizes \subseteq Nat
  /\ TicksPerSecond \in Nat \ {0} /\ Word \in Nat \ {0}
ASSUME NoTimeAssumption == NoTime \notin Nat

(***************************************************************************)
(* The sources written: the first slice is stamped, a later one of the     *)
(* first eight is too, and stamps do not decrease.  (Without a stamp on    *)
(* the first slice CacheStart throws; where CacheEnd precedes CacheStart   *)
(* their unsigned difference wraps.)                                       *)
(***************************************************************************)
Stamped(t, k) == Source[t][k].time # NoTime

ASSUME StampsAssumption ==
  \A t \in Tracks : Len(Source[t]) >= HypothesizedBlockSize =>
    /\ Stamped(t, 1)
    /\ \E k \in 2 .. HypothesizedBlockSize : Stamped(t, k)
    /\ \A j, k \in DOMAIN Source[t] :
          j <= k /\ Stamped(t, j) /\ Stamped(t, k) => Source[t][j].time <= Source[t][k].time

VARIABLES
  put,             \* how many slices were put in each track; the next one has this index
  buffered,        \* SampleStreamLocations of each track: the indices of the slices it holds
  blockSize,
  stts,            \* entries written, and the run being counted: sampleCountInStts, LastDuration
  ctts,            \* CompositionTimeToSample: its entries, the run being counted, LastSynchTime
  stsz, stss,      \* the sizes, and the numbers of the sync samples, in the temporary files
  stco,            \* the offsets in the temporary file of SampleToChunkBox
  currMDatOffset,
  mdat,            \* the temporary mdat file: which slice of which track lies where
  mdatLength,      \* tempMdat.Position, and its length
  job,             \* the block being written
  phase,           \* what is being done with the block
  flushing,        \* the track FinalizeStream is flushing, 0 before FinalizeStream
  state,           \* "Closed" once the file is written, "Failed" after an exception
  error,           \* which exception
  headerSize       \* bytes before the payload of mdat's box, fixed by FinalizeStream

tableVars == <<stts, ctts, stsz, stss, stco>>
mdatVars  == <<mdat, mdatLength>>
endVars   == <<flushing, state, error, headerSize>>
vars      == <<put, buffered, blockSize, tableVars, currMDatOffset, mdatVars, job, phase, endVars>>

SliceAt(t, i) == Source[t][i + 1]

ScaledDuration(d) == (d * TimeScale) \div TicksPerSecond

(***************************************************************************)
(* A block on its way: the slices, the slice taken next, the offset of     *)
(* that slice (localCurrMDatOffset) and what the track holds afterwards.   *)
(***************************************************************************)
NoJob == [track |-> MediaTracks[1], slices |-> <<>>, next |-> 1, offset |-> 0, rest |-> <<>>]

Init ==
  /\ put = [t \in Tracks |-> 0]
  /\ buffered = [t \in Tracks |-> <<>>]
  /\ blockSize = [t \in Tracks |-> 0]
  /\ stts = [t \in Tracks |-> [runs |-> <<>>, count |-> 0, last |-> 0]]
  /\ ctts = [t \in Tracks |-> [made |-> FALSE, runs |-> <<>>, count |-> 0, prev |-> 0, synch |-> 0]]
  /\ stsz = [t \in Tracks |-> <<>>]
  /\ stss = [t \in Tracks |-> <<>>]
  /\ stco = [t \in Tracks |-> <<>>]
  /\ currMDatOffset = 8
  /\ mdat = <<>>
  /\ mdatLength = 0
  /\ job = NoJob
  /\ phase = "idle"
  /\ flushing = 0
  /\ state = "MoovReady"
  /\ error = "none"
  /\ headerSize = 0

Fail(what) == state' = "Failed" /\ error' = what /\ UNCHANGED <<flushing, headerSize>>

Idle == state = "MoovReady" /\ phase = "idle"

-----------------------------------------------------------------------------
(***************************************************************************)
(* The block size of a track is computed when it holds the first eight     *)
(* slices.  CacheEnd looks for the last slice with a time stamp, but never *)
(* at the first slice.                                                     *)
(***************************************************************************)
FirstStamp(t, held) == SliceAt(t, held[1]).time

EndStamp(t, held) ==
  LET stamped == {k \in 2 .. Len(held) : SliceAt(t, held[k]).time # NoTime}
      last    == CHOOSE k \in stamped : \A j \in stamped : j <= k
  IN  SliceAt(t, held[last]).time + SliceAt(t, held[last]).duration \div 2

Measures(t, held) ==
  put[t] > 0 /\ blockSize[t] = HypothesizedBlockSize /\ Len(held) >= HypothesizedBlockSize

Measurable(t, held) ==
  BlockSizeDefined(FirstStamp(t, held), EndStamp(t, held), Len(held), ReadAheadExtent, t \in AacTracks)

NewBlockSize(t, held) ==
  IF put[t] = 0 THEN HypothesizedBlockSize
  ELSE IF Measures(t, held)
  THEN BlockSizeOf(FirstStamp(t, held), EndStamp(t, held), Len(held), ReadAheadExtent, t \in AacTracks)
  ELSE blockSize[t]

(***************************************************************************)
(* Whether the slices held, the last of them just put, are a block.  The   *)
(* block is extended while it ends in a DFrame.                            *)
(***************************************************************************)
IsBlock(t, held) ==
  /\ put[t] > 0
  /\ Len(held) >= blockSize[t]
  /\ Measures(t, held) => NewBlockSize(t, held) <= HypothesizedBlockSize
  /\ SliceAt(t, put[t]).type # "DFrame"

(* Mutant: the IFrame is written with the block it ends.                   *)
HeldBackNever(t) == <<>>

(* An IFrame that ends a block is held back for the next one.              *)
HeldBack(t) == IF SliceAt(t, put[t]).type = "IFrame" THEN <<put[t]>> ELSE <<>>

(* Mutant: the IFrame held back is not removed from the block.             *)
AllSlices(held, rest) == held

SlicesToWrite(held, rest) == SubSeq(held, 1, Len(held) - Len(rest))

(* CompositionTimeToSample is made by the first batch that needs it.       *)
NeedsCtts(t, slices) ==
  /\ t \in CTTSOut
  /\ \E k \in DOMAIN slices :
        SliceAt(t, slices[k]).cts > 0 \/ SliceAt(t, slices[k]).type = "BFrame"

StartBlock(t, slices, rest) ==
  /\ ctts' = [ctts EXCEPT ![t].made = @ \/ NeedsCtts(t, slices)]
  /\ job' = [track |-> t, slices |-> slices, next |-> 1, offset |-> currMDatOffset, rest |-> rest]
  /\ phase' = "tables"
  /\ buffered' = [buffered EXCEPT ![t] = slices]

(***************************************************************************)
(* IGenericMediaTrackEnumerator.SetCurrent and the indexer's set: the      *)
(* slice gets the next index of its track and is added to what the track   *)
(* holds; then PrepareMediaHeaders decides.                                *)
(***************************************************************************)
Put(t) ==
  LET held == Append(buffered[t], put[t])
      rest == HeldBack(t)
  IN  /\ Idle
      /\ flushing = 0
      /\ put[t] < Len(Source[t])
      /\ put' = [put EXCEPT ![t] = @ + 1]
      /\ UNCHANGED <<stts, stsz, stss, stco, currMDatOffset, mdatVars>>
      /\ IF Measures(t, held) /\ ~Measurable(t, held)
         THEN /\ Fail("block size")
              /\ buffered' = [buffered EXCEPT ![t] = held]
              /\ UNCHANGED <<blockSize, ctts, job, phase>>
         ELSE /\ blockSize' = [blockSize EXCEPT ![t] = NewBlockSize(t, held)]
              /\ UNCHANGED endVars
              /\ IF IsBlock(t, held)
                 THEN StartBlock(t, SlicesToWrite(held, rest), rest)
                 ELSE /\ buffered' = [buffered EXCEPT ![t] = held]
                      /\ UNCHANGED <<ctts, job, phase>>

-----------------------------------------------------------------------------
(***************************************************************************)
(* InitSampleTableBoxFromStreamLocations, one slice of the block a step.   *)
(* stts: slices of the same scaled duration are counted; a LastDuration of *)
(* 0 stands for "no run yet".                                              *)
(***************************************************************************)
(* Mutant: LastDuration is set before the run is written.                  *)
CountedAsNext(r, d) ==
  IF r.last = 0 THEN [r EXCEPT !.count = 1, !.last = d]
  ELSE IF r.last = d THEN [r EXCEPT !.count = @ + 1]
  ELSE [runs |-> Append(r.runs, [count |-> r.count, value |-> d]), count |-> 1, last |-> d]

Counted(r, d) ==
  IF r.last = 0 THEN [r EXCEPT !.count = 1, !.last = d]
  ELSE IF r.last = d THEN [r EXCEPT !.count = @ + 1]
  ELSE [runs |-> Append(r.runs, [count |-> r.count, value |-> r.last]), count |-> 1, last |-> d]

(* Mutant: the counts are written and the deltas are not.                  *)
LastCount(r) == [r EXCEPT !.runs = Append(@, [count |-> r.count])]

(* WriteToSttsTempFile: the run being counted becomes an entry.            *)
LastRun(r) == [r EXCEPT !.runs = Append(@, [count |-> r.count, value |-> r.last])]

(***************************************************************************)
(* ctts: AddEntry counts slices of equal offset.  An IFrame and a stamped  *)
(* slice have offset 0; every other slice is a duration further from the   *)
(* last of those than the slice before it.                                 *)
(***************************************************************************)
AddEntry(c, v) ==
  IF c.count = 0 THEN [c EXCEPT !.count = 1, !.prev = v]
  ELSE IF c.prev = v THEN [c EXCEPT !.count = @ + 1]
  ELSE [c EXCEPT !.runs = Append(@, [count |-> c.count, value |-> c.prev]), !.count = 1, !.prev = v]

LagsBehind(s) == s.type # "IFrame" /\ (s.time = NoTime \/ s.type = "BFrame")

(* Mutant: LastSynchTime is not reset.                                     *)
ComposedDrifting(c, s) ==
  LET lag == c.synch + ScaledDuration(s.duration)
  IN  IF c.made THEN [AddEntry(c, IF LagsBehind(s) THEN lag ELSE 0) EXCEPT !.synch = lag] ELSE c

Composed(c, s) ==
  LET lag == IF LagsBehind(s) THEN c.synch + ScaledDuration(s.duration) ELSE 0
  IN  IF c.made THEN [AddEntry(c, lag) EXCEPT !.synch = lag] ELSE c

(* CompositionTimeToSample.FinalizeBox: a box without entries stays empty. *)
ComposedLast(c) ==
  IF c.runs = <<>> THEN c
  ELSE [c EXCEPT !.runs = Append(@, [count |-> c.count, value |-> c.prev])]

(***************************************************************************)
(* SetFileOffsetForChunk: every slice is a chunk of its own.  The offset   *)
(* is kept unreduced here and cast to uint when the box is written: with   *)
(* the cast made twice, as in the code, the sum comes to the same.         *)
(***************************************************************************)
(* Mutants: the offset of the end is recorded; the offset is not advanced. *)
SetFileOffsetAtEnd(offset, length) == [chunk |-> offset + length, next |-> offset + length]
SetFileOffsetInPlace(offset, length) == [chunk |-> offset, next |-> offset]

SetFileOffsetForChunk(offset, length) == [chunk |-> offset, next |-> offset + length]

AddToTables ==
  LET t  == job.track
      s  == SliceAt(t, job.slices[job.next])
      at == SetFileOffsetForChunk(job.offset, s.size)
  IN  /\ phase = "tables" /\ state = "MoovReady"
      /\ job.next <= Len(job.slices)
      /\ stts' = [stts EXCEPT ![t] = Counted(@, ScaledDuration(s.duration))]
      /\ ctts' = [ctts EXCEPT ![t] = Composed(@, s)]
      /\ stss' = [stss EXCEPT ![t] = IF s.type = "IFrame" THEN Append(@, Len(stsz[t]) + 1) ELSE @]
      /\ stsz' = [stsz EXCEPT ![t] = Append(@, s.size)]
      /\ stco' = [stco EXCEPT ![t] = Append(@, at.chunk)]
      /\ job' = [job EXCEPT !.next = @ + 1, !.offset = at.next]
      /\ UNCHANGED <<put, buffered, blockSize, currMDatOffset, mdatVars, phase, endVars>>

(***************************************************************************)
(* The end of the batch: the caller copies the local offset back.  A list  *)
(* without slices is refused.                                              *)
(***************************************************************************)
TablesDone ==
  /\ phase = "tables" /\ state = "MoovReady"
  /\ job.next > Len(job.slices)
  /\ UNCHANGED <<put, buffered, blockSize, tableVars, mdatVars>>
  /\ IF job.slices = <<>>
     THEN Fail("empty list") /\ UNCHANGED <<currMDatOffset, job, phase>>
     ELSE /\ currMDatOffset' = job.offset
          /\ job' = [job EXCEPT !.next = 1]
          /\ phase' = "data"
          /\ UNCHANGED endVars

(***************************************************************************)
(* MP4StreamWriter.WriteSamples appends the payloads to the temporary      *)
(* mdat; CheckMDatOffset then compares the two counts.  Put replaces the   *)
(* list by what was held back, FinalizeStream leaves it.                   *)
(***************************************************************************)
WriteSlice ==
  LET t == job.track
      i == job.slices[job.next]
  IN  /\ phase = "data" /\ state = "MoovReady"
      /\ job.next <= Len(job.slices)
      /\ mdat' = Append(mdat, [track |-> t, index |-> i, at |-> mdatLength])
      /\ mdatLength' = mdatLength + SliceAt(t, i).size
      /\ job' = [job EXCEPT !.next = @ + 1]
      /\ UNCHANGED <<put, buffered, blockSize, tableVars, currMDatOffset, phase, endVars>>

SamplesWritten ==
  /\ phase = "data" /\ state = "MoovReady"
  /\ job.next > Len(job.slices)
  /\ UNCHANGED <<put, blockSize, tableVars, currMDatOffset, mdatVars>>
  /\ IF mdatLength # currMDatOffset - 8
     THEN Fail("mismatch") /\ UNCHANGED <<buffered, job, phase>>
     ELSE /\ phase' = "idle"
          /\ job' = NoJob
          /\ IF flushing = 0
             THEN /\ buffered' = [buffered EXCEPT ![job.track] = job.rest]
                  /\ UNCHANGED endVars
             ELSE /\ flushing' = flushing + 1
                  /\ UNCHANGED <<buffered, state, error, headerSize>>

-----------------------------------------------------------------------------
(***************************************************************************)
(* FinalizeStream.                                                         *)
(***************************************************************************)
BeginFinalize ==
  /\ Idle /\ flushing = 0
  /\ flushing' = 1
  /\ UNCHANGED <<put, buffered, blockSize, tableVars, currMDatOffset, mdatVars, job, phase, state, error, headerSize>>

(* Mutant: a track that buffers nothing is not passed over.                *)
FlushBufferedTrack ==
  LET t == MediaTracks[flushing]
  IN  /\ Idle
      /\ flushing \in DOMAIN MediaTracks
      /\ buffered[t] # <<>>
      /\ StartBlock(t, buffered[t], <<>>)
      /\ UNCHANGED <<put, blockSize, stts, stsz, stss, stco, currMDatOffset, mdatVars, endVars>>

FlushTrack ==
  LET t == MediaTracks[flushing]
  IN  /\ Idle
      /\ flushing \in DOMAIN MediaTracks
      /\ UNCHANGED <<put, blockSize, stts, stsz, stss, stco, currMDatOffset, mdatVars, state, error, headerSize>>
      /\ IF buffered[t] = <<>>
         THEN flushing' = flushing + 1 /\ UNCHANGED <<buffered, ctts, job, phase>>
         ELSE StartBlock(t, buffered[t], <<>>) /\ UNCHANGED flushing

(***************************************************************************)
(* mmb.FinalizeBox writes the last run of every stts, which needs a slice, *)
(* and of every ctts.  The header is then as long as the boxes say, every  *)
(* chunk offset is moved by it (Fixup), and the file is written.           *)
(***************************************************************************)
FinalizeBoxes ==
  /\ Idle /\ flushing > Len(MediaTracks)
  /\ UNCHANGED <<put, buffered, blockSize, stsz, stss, stco, currMDatOffset, mdatVars, job, phase>>
  /\ IF \E t \in Tracks : stsz[t] = <<>>
     THEN Fail("too short") /\ UNCHANGED <<stts, ctts>>
     ELSE /\ stts' = [t \in Tracks |-> LastRun(stts[t])]
          /\ ctts' = [t \in Tracks |-> ComposedLast(ctts[t])]
          /\ headerSize' \in HeaderSizes
          /\ state' = "Closed"
          /\ UNCHANGED <<flushing, error>>

WriteStep == AddToTables \/ TablesDone \/ WriteSlice \/ SamplesWritten

Finalize == FlushTrack \/ FinalizeBoxes

Next == (\E t \in Tracks : Put(t)) \/ WriteStep \/ BeginFinalize \/ Finalize

Spec == Init /\ [][Next]_vars

(***************************************************************************)
(* The code is one sequential program: a block begun, and FinalizeStream   *)
(* once called, go on to their ends.  Nothing says that it is called.      *)
(***************************************************************************)
FairSpec == Spec /\ WF_vars(WriteStep) /\ WF_vars(Finalize)

-----------------------------------------------------------------------------
Run == [count : Nat, value : Nat]

(***************************************************************************)
(* The types of the variables.                                             *)
(***************************************************************************)
TypeOK ==
  /\ put \in [Tracks -> Nat]
  /\ buffered \in [Tracks -> Seq(Nat)]
  /\ blockSize \in [Tracks -> Int]
  /\ stts \in [Tracks -> [runs : Seq(Run), count : Nat, last : Nat]]
  /\ ctts \in [Tracks -> [made : BOOLEAN, runs : Seq(Run), count : Nat, prev : Nat, synch : Nat]]
  /\ stsz \in [Tracks -> Seq(Nat)]
  /\ stss \in [Tracks -> Seq(Nat)]
  /\ stco \in [Tracks -> Seq(Nat)]
  /\ currMDatOffset \in Nat
  /\ mdat \in Seq([track : Tracks, index : Nat, at : Nat])
  /\ mdatLength \in Nat
  /\ job \in [track : Tracks, slices : Seq(Nat), next : Nat, offset : Nat, rest : Seq(Nat)]
  /\ phase \in {"idle", "tables", "data"}
  /\ flushing \in 0 .. Len(MediaTracks) + 1
  /\ state \in {"MoovReady", "Closed", "Failed"}
  /\ error \in {"none", "block size", "empty list", "mismatch", "too short"}
  /\ headerSize \in Nat

(***************************************************************************)
(* The check after every block never finds the tables and the payload out  *)
(* of step, however the puts of the tracks interleave: the exception of    *)
(* CheckMDatOffset is never raised.                                        *)
(***************************************************************************)
NeverOutOfStep == error # "mismatch"

(***************************************************************************)
(* What the tables say of the n-th sample of a track and what the mdat     *)
(* holds agree: the payload of the n-th slice put lies where stco says, as *)
(* soon as no block is on its way.                                         *)
(***************************************************************************)
TablesMatchData ==
  phase = "idle" =>
    \A t \in Tracks : \A n \in DOMAIN stco[t] :
      \E r \in DOMAIN mdat :
        mdat[r].track = t /\ mdat[r].index = n - 1 /\ stco[t][n] = mdat[r].at + 8

(***************************************************************************)
(* A block of a video track that is not its first starts with an IFrame,   *)
(* so that a block never ends inside a group of pictures.                  *)
(***************************************************************************)
BlocksStartWithSync ==
  (phase # "idle" /\ job.track \in VideoTracks /\ job.slices # <<>> /\ job.slices[1] # 0) =>
    SliceAt(job.track, job.slices[1]).type = "IFrame"

-----------------------------------------------------------------------------
(***************************************************************************)
(* The slices of a track in the mdat file, in the order they lie there:    *)
(* the k-th is the record with k records of the track up to it.            *)
(***************************************************************************)
RecordsOf(t) == {r \in DOMAIN mdat : mdat[r].track = t}

UpTo(S, r)  == {q \in S : q <= r}
NthOf(S, k) == CHOOSE r \in S : Cardinality(UpTo(S, r)) = k

PayloadOf(t) ==
  [k \in 1 .. Cardinality(RecordsOf(t)) |-> mdat[NthOf(RecordsOf(t), k)].index]

Outcome == IF state = "MoovReady" THEN "open" ELSE IF state = "Closed" THEN "closed" ELSE "given up"

Log == INSTANCE MuxLog WITH
  accepted <- put,
  payload  <- [t \in Tracks |-> PayloadOf(t)],
  outcome  <- Outcome

(***************************************************************************)
(* The writer implements the log: whatever the blocks, the payload of a    *)
(* track is what was put in it, in order and once.                         *)
(***************************************************************************)
WritesTheLog == Log!Spec
=============================================================================
