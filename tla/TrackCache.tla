----------------------------- MODULE TrackCache -----------------------------
(***************************************************************************)
(* Reading a track through its cache: PerTrackCacheManager, the indexer of *)
(* GenericMediaTrack and the enumerators over the track.                   *)
(*                                                                         *)
(* The manager keeps four buffers, each a batch of consecutive samples and *)
(* a relevancy score.  A request for an index is served from the buffer    *)
(* last read, from another buffer, or from a buffer whose contents are     *)
(* replaced; when even that fails, the index becomes the end of the track  *)
(* for good.  Several enumerators, and callers of the indexer, share the   *)
(* manager; every request runs under the track's IndexingExclusion, so a   *)
(* request is one step here.                                               *)
(***************************************************************************)
EXTENDS SampleTimes, FiniteSets

CONSTANTS
  ReadAheadExtent,  \* the time span of a block
  AacPayload,       \* whether format.PayloadType is "AAC"
  Enumerators,      \* the enumerators over the track
  Probes,           \* the indices that callers ask of the track directly
  MaxExtraCalls,    \* bound: how many calls by index or for a time stamp are made
  MaxPasses,        \* bound: how often an enumerator runs over the track
  NoEnd             \* int.MaxValue, the EndIndex of a track whose end is not known

ASSUME ReadAheadExtentAssumption == ReadAheadExtent \in Nat
ASSUME AacPayloadAssumption      == AacPayload \in BOOLEAN
ASSUME MaxExtraCallsAssumption   == MaxExtraCalls \in Nat
ASSUME MaxPassesAssumption       == MaxPasses \in Nat
ASSUME ProbesAssumption          == Probes \subseteq 0 .. SampleCount
ASSUME NoEndAssumption           == NoEnd \in Nat /\ NoEnd > SampleCount

(***************************************************************************)
(* The tracks read: a block size can be computed from any first batch of   *)
(* at least two samples, as it can when samples are short for the extent.  *)
(* (On other tracks CalculateBlockSizeFromInitialSlices throws.)           *)
(***************************************************************************)
ASSUME BlockSizeAssumption ==
  /\ SampleCount >= 2
  /\ \A n \in 2 .. SampleCount :
        BatchGivesBlockSize([from |-> 0, count |-> n], ReadAheadExtent, AacPayload)

CacheBufCount    == 4
InitialRelevancy == 1200
Buffers          == 0 .. CacheBufCount - 1

VARIABLES
  cache,            \* the four buffers: a batch and its Relevancy
  readCache,        \* the buffer read last, CurrentSliceList
  writeCache,       \* the buffer filled last
  previousRequest,
  blockSize,
  endIndex,
  position,         \* SampleIndex of each enumerator
  ended,            \* whether the last MoveNext of the enumerator returned false
  passes,           \* how often the enumerator was started, bounded by MaxPasses
  answer,           \* the last index asked of the manager, -1 at first, and whether it was served
  extraCalls        \* calls by index or for a time stamp made so far, bounded by MaxExtraCalls

managerVars == <<cache, readCache, writeCache, previousRequest, blockSize, endIndex>>
clientVars  == <<position, ended, passes>>
vars        == <<managerVars, clientVars, answer, extraCalls>>

Buffer == [from : Nat, count : Nat, relevancy : Int]

Empty(b)    == b.count = 0
FirstOf(b)  == IF Empty(b) THEN -1 ELSE b.from
LastOf(b)   == IF Empty(b) THEN 0 ELSE b.from + b.count - 1
InRange(b, i) == FirstOf(b) <= i /\ i <= LastOf(b)

(***************************************************************************)
(* The setter of CurrentSliceList installs a new Cache, whose relevancy is *)
(* 1200.  PrepareSlices(time) takes 1200 from the buffer it filled when    *)
(* nothing was read, but what it looks at is the list of readCache, which  *)
(* is buffer 0 during ReadAhead: a later buffer that stays empty keeps     *)
(* 1200, and no manager begins with an empty buffer 0 (Init).              *)
(***************************************************************************)
Fresh(b) == [from |-> b.from, count |-> b.count, relevancy |-> InitialRelevancy]

FilledByTime(time) == Fresh(BatchByTime(time, time + ReadAheadExtent))

FilledByIndex(index, size) == Fresh(BatchByIndex(index, index + size))

(***************************************************************************)
(* ReadAhead fills the buffers in order and stops after the first one that *)
(* stays empty; the buffers it does not reach keep what they held.         *)
(***************************************************************************)
FourBuffers(b0, b1, b2, b3) ==
  [k \in Buffers |-> IF k = 0 THEN b0 ELSE IF k = 1 THEN b1 ELSE IF k = 2 THEN b2 ELSE b3]

Unfilled == Fresh(NoBatch)

TimeAhead(b) == IF Empty(b) THEN Unfilled ELSE FilledByTime(CacheEnd(b))

ReadAheadByTime ==
  LET b0 == FilledByTime(0)
      b1 == TimeAhead(b0)
      b2 == TimeAhead(b1)
      b3 == TimeAhead(b2)
  IN  FourBuffers(b0, b1, b2, b3)

IndexAhead(b, size, old) ==
  IF Empty(b) THEN old ELSE FilledByIndex(b.from + b.count, size)

ReadAheadByIndex(size) ==
  LET b0 == FilledByIndex(0, size)
      b1 == IndexAhead(b0, size, cache[1])
      b2 == IF Empty(b0) THEN cache[2] ELSE IndexAhead(b1, size, cache[2])
      b3 == IF Empty(b0) \/ Empty(b1) THEN cache[3] ELSE IndexAhead(b2, size, cache[3])
  IN  FourBuffers(b0, b1, b2, b3)

FilledCount(c) ==
  IF \E k \in Buffers : Empty(c[k]) THEN Min({k \in Buffers : Empty(c[k])}) ELSE CacheBufCount

(***************************************************************************)
(* UpdateScores.  The non-empty buffers are sorted by their first sample,  *)
(* and it is the position in that order, not the buffer, that is compared  *)
(* with readCache.  Buffers that start at the same sample may come out of  *)
(* the sort in either order.                                               *)
(***************************************************************************)
NonEmpty(c) == {k \in Buffers : ~Empty(c[k])}

DistinctStarts(c) ==
  \A j, k \in NonEmpty(c) : j # k => c[j].from # c[k].from

TieOrders(c) ==
  IF DistinctStarts(c) THEN {[k \in Buffers |-> k]}
  ELSE {tie \in [Buffers -> Buffers] : \A j, k \in Buffers : j # k => tie[j] # tie[k]}

Place(c, tie, k) ==
  Cardinality({j \in NonEmpty(c) :
                 \/ c[j].from < c[k].from
                 \/ c[j].from = c[k].from /\ tie[j] < tie[k]})

ScoreChange(place, current, sequential) ==
  IF (sequential /\ place > current) \/ (~sequential /\ place = current) THEN 1 ELSE -1

Rescored(c, tie, current, sequential) ==
  [k \in Buffers |->
     IF Empty(c[k]) THEN c[k]
     ELSE [c[k] EXCEPT !.relevancy = @ +
             IF Cardinality(NonEmpty(c)) = 1 THEN 1
             ELSE ScoreChange(Place(c, tie, k), current, sequential)]]

(***************************************************************************)
(* LookForCachedBlock: the four buffers after readCache, in turn, ending   *)
(* with readCache itself; a buffer without samples is skipped.  NextHit is *)
(* the number of turns to the first buffer that has the index.             *)
(***************************************************************************)
Turn(k, turns) == (k + turns) % CacheBufCount

(* Mutant: the last sample of a block is not seen.                         *)
HitsButLast(c, current, i) ==
  {t \in 1 .. CacheBufCount : FirstOf(c[Turn(current, t)]) <= i /\ i < LastOf(c[Turn(current, t)])}

Hits(c, current, i) ==
  {t \in 1 .. CacheBufCount : ~Empty(c[Turn(current, t)]) /\ InRange(c[Turn(current, t)], i)}

(* Mutant: the turn does not wrap around.                                  *)
NextHitUnwrapped(c, current, i) == current + Min(Hits(c, current, i))

NextHit(c, current, i) == Turn(current, Min(Hits(c, current, i)))

(***************************************************************************)
(* SetStaleCache: the first buffer that is empty; when none is, the sort   *)
(* by relevancy picks a least relevant buffer, and the buffer replaced is  *)
(* the first one that starts at the same sample as that one.               *)
(***************************************************************************)
LeastRelevant(c) == {k \in Buffers : \A j \in Buffers : c[k].relevancy <= c[j].relevancy}

SameStart(c, k) == Min({j \in Buffers : FirstOf(c[j]) = FirstOf(c[k])})

(* Mutant: the buffers are sorted the other way round.                     *)
StaleCandidatesReversed(c) ==
  IF \E k \in Buffers : Empty(c[k])
  THEN {Min({k \in Buffers : Empty(c[k])})}
  ELSE {SameStart(c, k) : k \in {m \in Buffers : \A j \in Buffers : c[m].relevancy >= c[j].relevancy}}

StaleCandidates(c) ==
  IF \E k \in Buffers : Empty(c[k])
  THEN {Min({k \in Buffers : Empty(c[k])})}
  ELSE {SameStart(c, k) : k \in LeastRelevant(c)}

-----------------------------------------------------------------------------
(***************************************************************************)
(* The manager after its constructor: Initialize reads ahead from time 0,  *)
(* computes the block size from the first buffer, and scores the request   *)
(* for index 0 that follows.                                               *)
(***************************************************************************)
Init ==
  /\ BatchGivesBlockSize(ReadAheadByTime[0], ReadAheadExtent, AacPayload)
  /\ blockSize = BlockSizeOfBatch(ReadAheadByTime[0], ReadAheadExtent, AacPayload)
  /\ \E tie \in TieOrders(ReadAheadByTime) : cache = Rescored(ReadAheadByTime, tie, 0, TRUE)
  /\ readCache = 0
  /\ writeCache = FilledCount(ReadAheadByTime) % CacheBufCount
  /\ previousRequest = 0
  /\ endIndex = NoEnd
  /\ position = [e \in Enumerators |-> -1]
  /\ ended = [e \in Enumerators |-> FALSE]
  /\ passes = [e \in Enumerators |-> 1]
  /\ answer = [index |-> -1, served |-> FALSE]
  /\ extraCalls = 0

Answer(i, isServed) == answer' = [index |-> i, served |-> isServed]

(* The index is at or beyond the end recorded earlier.                     *)
RefusedAsEnd(i) ==
  /\ i >= endIndex
  /\ Answer(i, FALSE)
  /\ UNCHANGED managerVars

(* The current list is empty and sample 0 is asked for: read ahead again.  *)
RefillFromStart(i) ==
  LET c == ReadAheadByIndex(blockSize)
  IN  /\ i < endIndex
      /\ i = 0 /\ Empty(cache[readCache])
      /\ \E tie \in TieOrders(c) : cache' = Rescored(c, tie, 0, i - previousRequest = 1)
      /\ readCache' = 0
      /\ writeCache' = FilledCount(c) % CacheBufCount
      /\ blockSize' = BlockSizeOfBatch(c[0], ReadAheadExtent, AacPayload)
      /\ previousRequest' = i
      /\ Answer(i, TRUE)
      /\ UNCHANGED endIndex

Current(i) == i < endIndex /\ ~(i = 0 /\ Empty(cache[readCache]))

(* The index is in the buffer read last.                                   *)
HitCurrent(i) ==
  /\ Current(i)
  /\ InRange(cache[readCache], i)
  /\ \E tie \in TieOrders(cache) :
        cache' = Rescored(cache, tie, readCache, i - previousRequest = 1)
  /\ previousRequest' = i
  /\ Answer(i, TRUE)
  /\ UNCHANGED <<readCache, writeCache, blockSize, endIndex>>

(* The index is in another buffer, which becomes the one read last.        *)
HitOther(i) ==
  /\ Current(i)
  /\ ~InRange(cache[readCache], i)
  /\ Hits(cache, readCache, i) # {}
  /\ readCache' = NextHit(cache, readCache, i)
  /\ \E tie \in TieOrders(cache) :
        cache' = Rescored(cache, tie, readCache', i - previousRequest = 1)
  /\ previousRequest' = i
  /\ Answer(i, TRUE)
  /\ UNCHANGED <<writeCache, blockSize, endIndex>>

(* No buffer has the index: the stale buffer is refilled from the index    *)
(* on.  Neither the scores nor previousRequest change on this path.        *)
Replace(i, k) ==
  /\ Current(i)
  /\ ~InRange(cache[readCache], i)
  /\ Hits(cache, readCache, i) = {}
  /\ k \in StaleCandidates(cache)
  /\ writeCache' = k
  /\ cache' = [cache EXCEPT ![k] = FilledByIndex(i, blockSize)]
  /\ UNCHANGED <<previousRequest, blockSize>>

ReplaceAndHit(i) ==
  \E k \in Buffers :
    /\ Replace(i, k)
    /\ Hits(cache', readCache, i) # {}
    /\ readCache' = NextHit(cache', readCache, i)
    /\ Answer(i, TRUE)
    /\ UNCHANGED endIndex

(* Mutant: the end is recorded one sample too early.                       *)
ReplaceAtEndEarly(i) ==
  \E k \in Buffers :
    /\ Replace(i, k)
    /\ Hits(cache', readCache, i) = {}
    /\ endIndex' = i - 1
    /\ Answer(i, FALSE)
    /\ UNCHANGED readCache

ReplaceAtEnd(i) ==
  \E k \in Buffers :
    /\ Replace(i, k)
    /\ Hits(cache', readCache, i) = {}
    /\ endIndex' = i
    /\ Answer(i, FALSE)
    /\ UNCHANGED readCache

PrepareSampleInfo(i) ==
  \/ RefusedAsEnd(i)
  \/ RefillFromStart(i)
  \/ HitCurrent(i)
  \/ HitOther(i)
  \/ ReplaceAndHit(i)
  \/ ReplaceAtEnd(i)

-----------------------------------------------------------------------------
ExtraCall == extraCalls < MaxExtraCalls /\ extraCalls' = extraCalls + 1

(***************************************************************************)
(* MoveNext advances the index first.  When the current list happens to be *)
(* empty it returns false without asking the manager at all; otherwise it  *)
(* indexes the track, and returns false when no sample comes back.         *)
(***************************************************************************)
StopOnEmptyList(e) ==
  /\ Empty(cache[readCache])
  /\ position' = [position EXCEPT ![e] = @ + 1]
  /\ ended' = [ended EXCEPT ![e] = TRUE]
  /\ UNCHANGED <<managerVars, answer, passes, extraCalls>>

StepForward(e) ==
  /\ ~Empty(cache[readCache])
  /\ position' = [position EXCEPT ![e] = @ + 1]
  /\ PrepareSampleInfo(position[e] + 1)
  /\ ended' = [ended EXCEPT ![e] = ~answer'.served]
  /\ UNCHANGED <<passes, extraCalls>>

MoveNextOnEmptyList(e) == ~ended[e] /\ StopOnEmptyList(e)
MoveNext(e)            == ~ended[e] /\ StepForward(e)

(* CurrentTimeStampNew indexes the track again at the current position.    *)
IndexAgain(e) ==
  /\ position[e] >= 0
  /\ PrepareSampleInfo(position[e])
  /\ UNCHANGED clientVars

CurrentTimeStamp(e) == ExtraCall /\ IndexAgain(e)

(* Reset, or a new enumerator in the place of one that has finished.       *)
Reset(e) ==
  /\ ended[e] /\ passes[e] < MaxPasses
  /\ passes' = [passes EXCEPT ![e] = @ + 1]
  /\ position' = [position EXCEPT ![e] = -1]
  /\ ended' = [ended EXCEPT ![e] = FALSE]
  /\ UNCHANGED <<managerVars, answer, extraCalls>>

(* track[i] by a caller that does not enumerate.                           *)
Index(i) ==
  /\ ExtraCall
  /\ PrepareSampleInfo(i)
  /\ UNCHANGED clientVars

Next ==
  \/ \E e \in Enumerators :
       MoveNextOnEmptyList(e) \/ MoveNext(e) \/ CurrentTimeStamp(e) \/ Reset(e)
  \/ \E i \in Probes : Index(i)

Spec == Init /\ [][Next]_vars

(* An enumerator is driven by a foreach, which calls MoveNext until it     *)
(* returns false.                                                          *)
FairSpec ==
  Spec /\ \A e \in Enumerators : WF_vars(MoveNextOnEmptyList(e) \/ MoveNext(e))

-----------------------------------------------------------------------------
(* Every variable has a value of its type (fields of PerTrackCacheManager  *)
(* and IGenericMediaTrackEnumerator); a block has at least one sample.     *)
TypeOK ==
  /\ cache \in [Buffers -> Buffer]
  /\ readCache \in Buffers
  /\ writeCache \in Buffers
  /\ previousRequest \in Nat
  /\ blockSize \in Nat \ {0}
  /\ endIndex \in Nat
  /\ position \in [Enumerators -> Nat \cup {-1}]
  /\ ended \in [Enumerators -> BOOLEAN]
  /\ passes \in [Enumerators -> Nat]
  /\ answer \in [index : Nat \cup {-1}, served : BOOLEAN]
  /\ extraCalls \in 0 .. MaxExtraCalls

(* A request is served exactly when the track has the sample, whatever was *)
(* asked before, and then the current list holds it: no eviction, refill   *)
(* or recorded EndIndex makes a sample of the track unreachable            *)
(* (PrepareSampleInfo).                                                    *)
AnswersMatchTrack ==
  answer.index >= 0 =>
    /\ answer.served <=> answer.index < SampleCount
    /\ answer.served => Holds(cache[readCache], answer.index)

(* When a block is read in for an index no buffer has, the buffer given up *)
(* is an empty one or one of least relevancy.  SetStaleCache identifies a  *)
(* buffer by its first sample, and two buffers that start at the same      *)
(* sample would be confused.                                               *)
EvictsLeastRelevant ==
  [][ReplaceAndHit(answer'.index) \/ ReplaceAtEnd(answer'.index) =>
       \A k \in Buffers : cache'[k] # cache[k] =>
         Empty(cache[k]) \/ k \in LeastRelevant(cache)]_vars

(* "i covers ALL indices in a track": an enumerator does not stop before   *)
(* it has passed the last sample (IGenericMediaTrackEnumerator.MoveNext).  *)
EnumerationIsComplete ==
  \A e \in Enumerators : ended[e] => position[e] >= SampleCount

(* An enumerator reads every sample in order, stops after the last one,    *)
(* and gets there: the cache is invisible to it (MoveNext over             *)
(* PrepareSampleInfo).                                                     *)
Cursor == INSTANCE TrackCursor

ReadsEverySampleInOrder == Cursor!Spec
=============================================================================
