-------------------------- MODULE TrackCacheProofs --------------------------
(***************************************************************************)
(* Proofs about TrackCache: types, and that a request is served exactly    *)
(* when the track has the sample, for every track and every cache content; *)
(* that one enumerator reads every sample in order; and which buffer is    *)
(* given up when a block is read in.                                       *)
(***************************************************************************)
EXTENDS TrackCache, TLAPS, FiniteSetTheorems

(* The minimum of a set of natural numbers is its least element: the       *)
(* intervals below its elements are finite sets, which strict inclusion    *)
(* orders well.                                                            *)
LEMMA MinOfNats ==
  ASSUME NEW S, S \subseteq Nat, S # {}
  PROVE  Min(S) \in S /\ \A y \in S : Min(S) <= y
<1> DEFINE Below == {0 .. x - 1 : x \in S}
<1>1. Below \subseteq FiniteSubsetsOf(Nat) /\ Below # {}
  <2>1. ASSUME NEW x \in S PROVE 0 .. x - 1 \in FiniteSubsetsOf(Nat)
    <3>1. IsFiniteSet(0 .. x - 1)
      BY FS_Interval
    <3> QED  BY <3>1 DEF FiniteSubsetsOf
  <2> QED  BY <2>1
<1>2. PICK B \in Below : \A C \in Below : ~ (<<C, B>> \in StrictSubsetOrdering(Nat))
  <2> HIDE DEF Below
  <2> QED  BY <1>1, FS_StrictSubsetOrderingWellFounded, WFMin
<1>3. PICK x \in S : B = 0 .. x - 1
  OBVIOUS
<1>4. ASSUME NEW y \in S, y < x PROVE FALSE
  <2>1. 0 .. y - 1 \subseteq 0 .. x - 1 /\ 0 .. y - 1 # 0 .. x - 1
    <3>1. y \in 0 .. x - 1 /\ y \notin 0 .. y - 1
      BY <1>4
    <3> QED  BY <3>1, <1>4
  <2>2. <<0 .. y - 1, B>> \in StrictSubsetOrdering(Nat)
    BY <2>1, <1>3 DEF StrictSubsetOrdering
  <2> QED  BY <2>2, <1>2
<1>5. \A y \in S : x <= y
  BY <1>4
<1>6. QED
  BY <1>5 DEF Min

(* A quotient of a number by one that is not greater is at least 1.        *)
LEMMA QuotientPositive ==
  ASSUME NEW a \in Nat, NEW d \in Nat, d > 0, a >= d
  PROVE  a \div d \in Nat \ {0}
  OBVIOUS

(* A batch asked for by index holds only samples of the track, and holds   *)
(* the first one asked for when the track has it.                          *)
LEMMA BatchByIndexInTrack ==
  ASSUME NEW first \in Nat, NEW last \in Int
  PROVE  /\ BatchByIndex(first, last) \in Batch
         /\ BatchByIndex(first, last).from + BatchByIndex(first, last).count <= SampleCount
         /\ first <= last /\ first < SampleCount =>
              /\ BatchByIndex(first, last).from = first
              /\ BatchByIndex(first, last).count > 0
  BY SampleCountAssumption DEF BatchByIndex, Batch, NoBatch

(* A batch asked for by time holds only samples of the track.              *)
LEMMA BatchByTimeInTrack ==
  ASSUME NEW s, NEW e
  PROVE  /\ BatchByTime(s, e) \in Batch
         /\ BatchByTime(s, e).from + BatchByTime(s, e).count <= SampleCount
<1>1. WindowEnds(e) \subseteq Nat /\ WindowStarts(s, e) \subseteq Nat
  BY SampleCountAssumption DEF WindowEnds, WindowStarts, Samples
<1>2. FirstOfWindow(s, e) \in Nat
  BY <1>1, MinOfNats DEF FirstOfWindow
<1>3. LastOfWindow(s, e) \in Nat
  <2>1. CASE WindowEnds(e) # {}
    BY <2>1, <1>1, MinOfNats DEF LastOfWindow
  <2>2. CASE WindowEnds(e) = {}
    BY <2>2, SampleCountAssumption DEF LastOfWindow
  <2> QED  BY <2>1, <2>2
<1>4. (IF FirstOfWindow(s, e) = 0 THEN 0 ELSE FirstOfWindow(s, e) - 1) \in Nat
  BY <1>2
<1>5. CASE TimeStamp[SampleCount] < s \/ LastOfWindow(s, e) <= FirstOfWindow(s, e)
  BY <1>5, SampleCountAssumption DEF BatchByTime, NoBatch, Batch
<1>6. CASE ~(TimeStamp[SampleCount] < s \/ LastOfWindow(s, e) <= FirstOfWindow(s, e))
  BY <1>6, <1>3, <1>4, BatchByIndexInTrack DEF BatchByTime
<1>7. QED
  BY <1>5, <1>6
-----------------------------------------------------------------------------
(* A block of samples of the track, in a buffer.                           *)
InTrack(b) == b \in Buffer /\ b.from + b.count <= SampleCount

CacheInTrack(c) ==
  /\ c = [k \in Buffers |-> c[k]]
  /\ \A k \in Buffers : InTrack(c[k])

(* The inductive invariant: what the cache holds are samples of the track, *)
(* and the recorded end is not before its end.                             *)
IInv ==
  /\ TypeOK
  /\ CacheInTrack(cache)
  /\ endIndex >= SampleCount
  /\ AnswersMatchTrack

LEMMA FilledInTrack ==
  /\ \A time : InTrack(FilledByTime(time))
  /\ \A index \in Nat, size \in Nat : InTrack(FilledByIndex(index, size))
  /\ InTrack(Unfilled)
<1>1. \A time : InTrack(FilledByTime(time))
  <2> TAKE time
  <2> DEFINE b == BatchByTime(time, time + ReadAheadExtent)
  <2>1. b \in Batch /\ b.from + b.count <= SampleCount
    BY BatchByTimeInTrack
  <2> HIDE DEF b
  <2>2. FilledByTime(time) = Fresh(b)
    BY DEF FilledByTime, b
  <2> QED
    BY <2>1, <2>2 DEF InTrack, Fresh, Batch, Buffer, InitialRelevancy
<1>2. \A index \in Nat, size \in Nat : InTrack(FilledByIndex(index, size))
  <2> TAKE index \in Nat, size \in Nat
  <2>1. index + size \in Int
    OBVIOUS
  <2> QED
    BY <2>1, BatchByIndexInTrack DEF InTrack, FilledByIndex, Fresh, Batch, Buffer, InitialRelevancy
<1>3. InTrack(Unfilled)
  BY SampleCountAssumption DEF InTrack, Unfilled, Fresh, NoBatch, Buffer, InitialRelevancy
<1> QED  BY <1>1, <1>2, <1>3

LEMMA FourBuffersInTrack ==
  ASSUME NEW b0, NEW b1, NEW b2, NEW b3, InTrack(b0), InTrack(b1), InTrack(b2), InTrack(b3)
  PROVE  CacheInTrack(FourBuffers(b0, b1, b2, b3)) /\ FourBuffers(b0, b1, b2, b3)[0] = b0
  BY DEF FourBuffers, CacheInTrack, Buffers, CacheBufCount

(* Updating the scores does not touch what the buffers hold.               *)
LEMMA RescoredHolds ==
  ASSUME NEW c, CacheInTrack(c), NEW tie, NEW current, NEW sequential
  PROVE  /\ CacheInTrack(Rescored(c, tie, current, sequential))
         /\ \A k \in Buffers :
               /\ Rescored(c, tie, current, sequential)[k].from = c[k].from
               /\ Rescored(c, tie, current, sequential)[k].count = c[k].count
<1> DEFINE change(k) == IF Cardinality(NonEmpty(c)) = 1 THEN 1
                        ELSE ScoreChange(Place(c, tie, k), current, sequential)
           r == Rescored(c, tie, current, sequential)
<1>1. \A k : change(k) \in Int
  BY DEF ScoreChange
<1>2. r = [k \in Buffers |-> IF Empty(c[k]) THEN c[k] ELSE [c[k] EXCEPT !.relevancy = @ + change(k)]]
  BY DEF Rescored
<1> HIDE DEF change, r
<1>3. ASSUME NEW k \in Buffers
      PROVE  InTrack(r[k]) /\ r[k].from = c[k].from /\ r[k].count = c[k].count
  <2>1. InTrack(c[k])
    BY DEF CacheInTrack
  <2>2. r[k] = IF Empty(c[k]) THEN c[k] ELSE [c[k] EXCEPT !.relevancy = @ + change(k)]
    BY <1>2
  <2>3. change(k) \in Int
    BY <1>1
  <2> QED  BY <2>1, <2>2, <2>3 DEF InTrack, Buffer
<1>4. r = [k \in Buffers |-> r[k]]
  BY <1>2
<1> QED  BY <1>3, <1>4 DEF CacheInTrack, r

LEMMA ReadAheadByTimeInTrack == CacheInTrack(ReadAheadByTime)
<1>1. \A b : InTrack(TimeAhead(b))
  BY FilledInTrack DEF TimeAhead
<1> QED  BY <1>1, FilledInTrack, FourBuffersInTrack DEF ReadAheadByTime

(* Reading ahead by index starts with a first block of two samples or more.*)
LEMMA ReadAheadByIndexInTrack ==
  ASSUME NEW size \in Nat, size > 0, CacheInTrack(cache)
  PROVE  /\ CacheInTrack(ReadAheadByIndex(size))
         /\ ReadAheadByIndex(size)[0].from = 0
         /\ ReadAheadByIndex(size)[0].count \in 2 .. SampleCount
<1> DEFINE b0 == FilledByIndex(0, size)
           b1 == IndexAhead(b0, size, cache[1])
           b2 == IF Empty(b0) THEN cache[2] ELSE IndexAhead(b1, size, cache[2])
           b3 == IF Empty(b0) \/ Empty(b1) THEN cache[3] ELSE IndexAhead(b2, size, cache[3])
<1>0. /\ InTrack(cache[1]) /\ InTrack(cache[2]) /\ InTrack(cache[3])
  BY DEF CacheInTrack, Buffers, CacheBufCount
<1>1. ASSUME NEW b, InTrack(b), NEW old, InTrack(old)
      PROVE  InTrack(IndexAhead(b, size, old))
  <2>1. b.from + b.count \in Nat
    BY <1>1 DEF InTrack, Buffer
  <2> QED  BY <2>1, <1>1, FilledInTrack DEF IndexAhead
<1>2. InTrack(b0)
  BY FilledInTrack
<1>3. InTrack(b1)
  BY <1>0, <1>1, <1>2
<1>4. InTrack(b2)
  BY <1>0, <1>1, <1>3
<1>5. InTrack(b3)
  BY <1>0, <1>1, <1>4
<1>6. b0.from = 0 /\ b0.count \in 2 .. SampleCount
  BY BlockSizeAssumption, SampleCountAssumption DEF FilledByIndex, Fresh, BatchByIndex, NoBatch
<1>7. ReadAheadByIndex(size) = FourBuffers(b0, b1, b2, b3)
  BY DEF ReadAheadByIndex
<1> HIDE DEF b0, b1, b2, b3
<1> QED  BY <1>2, <1>3, <1>4, <1>5, <1>6, <1>7, FourBuffersInTrack

(* The first block of the track gives a positive block size.               *)
LEMMA BlockSizePositive ==
  ASSUME NEW b, InTrack(b), BatchGivesBlockSize(b, ReadAheadExtent, AacPayload)
  PROVE  BlockSizeOfBatch(b, ReadAheadExtent, AacPayload) \in Nat \ {0}
<1> DEFINE avg == AverageDuration(CacheStart(b), CacheEnd(b), b.count, AacPayload)
<1>1. avg > 0 /\ ReadAheadExtent >= avg
  BY DEF BatchGivesBlockSize, BlockSizeDefined
<1>2. avg \in Int
  <2>1. CacheEnd(b) \in Int /\ CacheStart(b) \in Int
    <3>1. b.count > 1 => b.from \in 0 .. SampleCount /\ b.from + b.count - 1 \in 0 .. SampleCount
                        /\ b.from + b.count \in 0 .. SampleCount
      BY SampleCountAssumption DEF InTrack, Buffer
    <3>2. b.count > 0 => b.from \in 0 .. SampleCount
      BY SampleCountAssumption DEF InTrack, Buffer
    <3>3. b.count \in Nat
      BY DEF InTrack, Buffer
    <3>4. CacheStart(b) \in Int
      BY <3>2, <3>3, TimeStampAssumption DEF CacheStart
    <3>5. CASE b.count <= 1
      BY <3>4, <3>5 DEF CacheEnd
    <3>6. CASE b.count > 1
      <4> DEFINE last == b.from + b.count - 1
      <4>1. last \in 0 .. SampleCount /\ last + 1 \in 0 .. SampleCount
        BY <3>1, <3>6 DEF InTrack, Buffer
      <4>2. TimeStamp[last] \in Int /\ TimeStamp[last + 1] \in Int
        BY <4>1, TimeStampAssumption
      <4>3. SliceDuration(last) \div 2 \in Int
        BY <4>2 DEF SliceDuration
      <4>4. CacheEnd(b) = TimeStamp[last] + SliceDuration(last) \div 2
        BY <3>6, <3>3 DEF CacheEnd
      <4> QED  BY <4>2, <4>3, <4>4, <3>4
    <3> QED  BY <3>3, <3>5, <3>6
  <2>2. b.count >= 2 /\ b.count \in Nat
    BY DEF BatchGivesBlockSize, BlockSizeDefined, InTrack, Buffer
  <2>3. b.count - (IF AacPayload /\ b.count = HypothesizedBlockSize THEN 2 ELSE 1) \in Nat \ {0}
    BY <2>2 DEF HypothesizedBlockSize
  <2> QED  BY <2>1, <2>3 DEF AverageDuration
<1>3. ReadAheadExtent \div avg \in Nat \ {0}
  <2> HIDE DEF avg
  <2> QED  BY <1>1, <1>2, QuotientPositive, ReadAheadExtentAssumption
<1> QED  BY <1>3 DEF BlockSizeOfBatch, BlockSizeOf, HypothesizedBlockSize

LEMMA BlockSizeOfFirstBlock ==
  ASSUME NEW b, InTrack(b), b.from = 0, b.count \in 2 .. SampleCount
  PROVE  BlockSizeOfBatch(b, ReadAheadExtent, AacPayload) \in Nat \ {0}
<1> DEFINE a == [from |-> 0, count |-> b.count]
<1>1. BatchGivesBlockSize(a, ReadAheadExtent, AacPayload)
  BY BlockSizeAssumption
<1>2. a.from = b.from /\ a.count = b.count
  OBVIOUS
<1>3. BatchGivesBlockSize(b, ReadAheadExtent, AacPayload)
  BY <1>1, <1>2 DEF BatchGivesBlockSize, CacheStart, CacheEnd
<1> QED  BY <1>3, BlockSizePositive
-----------------------------------------------------------------------------
LEMMA InitIInv == Init => IInv
<1> SUFFICES ASSUME Init PROVE IInv
  OBVIOUS
<1> DEFINE c0 == ReadAheadByTime
<1>1. CacheInTrack(c0)
  BY ReadAheadByTimeInTrack
<1>2. CacheInTrack(cache)
  BY <1>1, RescoredHolds DEF Init
<1>3. blockSize \in Nat \ {0}
  <2>1. InTrack(c0[0])
    BY <1>1 DEF CacheInTrack, Buffers, CacheBufCount
  <2> QED  BY <2>1, BlockSizePositive DEF Init
<1>4. writeCache \in Buffers
  <2>1. FilledCount(c0) \in Nat
    <3>1. {k \in Buffers : Empty(c0[k])} \subseteq Nat
      BY DEF Buffers, CacheBufCount
    <3> QED  BY <3>1, MinOfNats DEF FilledCount, CacheBufCount
  <2> QED  BY <2>1 DEF Init, Buffers, CacheBufCount
<1>5. cache \in [Buffers -> Buffer]
  BY <1>2 DEF CacheInTrack, InTrack
<1>6. /\ readCache = 0 /\ previousRequest = 0 /\ endIndex = NoEnd /\ extraCalls = 0
      /\ position = [e \in Enumerators |-> -1] /\ ended = [e \in Enumerators |-> FALSE]
      /\ passes = [e \in Enumerators |-> 1] /\ answer = [index |-> -1, served |-> FALSE]
  BY DEF Init
<1>7. endIndex \in Nat /\ endIndex >= SampleCount
  BY <1>6, NoEndAssumption, SampleCountAssumption
<1>8. TypeOK
  <2>1. readCache \in Buffers /\ extraCalls \in 0 .. MaxExtraCalls
    BY <1>6, MaxExtraCallsAssumption DEF Buffers, CacheBufCount
  <2>2. answer \in [index : Nat \cup {-1}, served : BOOLEAN]
    BY <1>6
  <2> QED
    BY <1>3, <1>4, <1>5, <1>6, <1>7, <2>1, <2>2 DEF TypeOK
<1>9. AnswersMatchTrack
  <2>1. ~(answer.index >= 0)
    BY <1>6
  <2> QED  BY <2>1 DEF AnswersMatchTrack
<1> QED
  BY <1>2, <1>7, <1>8, <1>9 DEF IInv

(* The buffers that LookForCachedBlock finds hold the index.               *)
LEMMA NextHitHolds ==
  ASSUME NEW c, CacheInTrack(c), NEW current \in Buffers, NEW i \in Nat,
         Hits(c, current, i) # {}
  PROVE  /\ NextHit(c, current, i) \in Buffers
         /\ Holds(c[NextHit(c, current, i)], i)
<1> DEFINE t == Min(Hits(c, current, i))
<1>1. Hits(c, current, i) \subseteq Nat
  BY DEF Hits, CacheBufCount
<1>2. t \in Hits(c, current, i)
  BY <1>1, MinOfNats
<1>3. t \in 1 .. 4 /\ ~Empty(c[Turn(current, t)]) /\ InRange(c[Turn(current, t)], i)
  BY <1>2 DEF Hits, CacheBufCount
<1> HIDE DEF t
<1>4. Turn(current, t) \in Buffers
  BY <1>3 DEF Turn, Buffers, CacheBufCount
<1>5. InTrack(c[Turn(current, t)])
  BY <1>4 DEF CacheInTrack
<1>6. Holds(c[Turn(current, t)], i)
  BY <1>3, <1>5 DEF InRange, FirstOf, LastOf, Empty, Holds, InTrack, Buffer
<1>7. NextHit(c, current, i) = Turn(current, t)
  BY DEF NextHit, t
<1> QED  BY <1>4, <1>6, <1>7

(* A buffer that holds the index is found.                                 *)
LEMMA HeldIsHit ==
  ASSUME NEW c, NEW current \in Buffers, NEW k \in Buffers, NEW i \in Nat,
         InTrack(c[k]), Holds(c[k], i), ~Empty(c[k])
  PROVE  Hits(c, current, i) # {}
<1>1. PICK t \in 1 .. CacheBufCount : Turn(current, t) = k
  <2> DEFINE t == IF k > current THEN k - current ELSE k - current + 4
  <2>1. t \in 1 .. CacheBufCount
    BY DEF Buffers, CacheBufCount
  <2>2. Turn(current, t) = k
    BY DEF Turn, Buffers, CacheBufCount
  <2> QED  BY <2>1, <2>2
<1>2. InRange(c[k], i)
  BY DEF InRange, FirstOf, LastOf, Empty, Holds, InTrack, Buffer
<1> QED  BY <1>1, <1>2 DEF Hits

(* What one request does, whoever makes it.                                *)
LEMMA RequestPreserves ==
  ASSUME IInv, NEW i \in Nat, PrepareSampleInfo(i)
  PROVE  /\ CacheInTrack(cache') /\ cache' \in [Buffers -> Buffer]
         /\ readCache' \in Buffers /\ writeCache' \in Buffers
         /\ previousRequest' \in Nat /\ blockSize' \in Nat \ {0}
         /\ endIndex' \in Nat /\ endIndex' >= SampleCount
         /\ answer' \in [index : Nat \cup {-1}, served : BOOLEAN]
         /\ AnswersMatchTrack'
<1> USE DEF IInv
<1>0. CacheInTrack(cache') => cache' \in [Buffers -> Buffer]
  BY DEF CacheInTrack, InTrack
<1>1. CASE RefusedAsEnd(i)
  BY <1>0, <1>1, SampleCountAssumption
     DEF RefusedAsEnd, Answer, managerVars, TypeOK, AnswersMatchTrack
<1>2. CASE RefillFromStart(i)
  <2> DEFINE c == ReadAheadByIndex(blockSize)
  <2>1. CacheInTrack(c) /\ c[0].from = 0 /\ c[0].count \in 2 .. SampleCount
    BY ReadAheadByIndexInTrack DEF TypeOK
  <2>2. PICK tie \in TieOrders(c) : cache' = Rescored(c, tie, 0, i - previousRequest = 1)
    BY <1>2 DEF RefillFromStart
  <2>3. 0 \in Buffers
    BY DEF Buffers, CacheBufCount
  <2>4. CacheInTrack(cache') /\ cache'[0].from = 0 /\ cache'[0].count \in 2 .. SampleCount
    BY <2>1, <2>2, <2>3, RescoredHolds
  <2>5. writeCache' \in Buffers
    <3>1. FilledCount(c) \in Nat
      <4>1. {k \in Buffers : Empty(c[k])} \subseteq Nat
        BY DEF Buffers, CacheBufCount
      <4> QED  BY <4>1, MinOfNats DEF FilledCount, CacheBufCount
    <3> QED  BY <3>1, <1>2 DEF RefillFromStart, Buffers, CacheBufCount
  <2>6. blockSize' \in Nat \ {0}
    <3>1. InTrack(c[0])
      BY <2>1, <2>3 DEF CacheInTrack
    <3> QED  BY <3>1, <2>1, <1>2, BlockSizeOfFirstBlock DEF RefillFromStart
  <2>7. i = 0 /\ readCache' = 0 /\ previousRequest' = i /\ endIndex' = endIndex
        /\ answer' = [index |-> i, served |-> TRUE]
    BY <1>2 DEF RefillFromStart, Answer
  <2>8. Holds(cache'[0], 0)
    BY <2>4 DEF Holds
  <2> QED
    BY <1>0, <2>3, <2>4, <2>5, <2>6, <2>7, <2>8, SampleCountAssumption DEF TypeOK, AnswersMatchTrack
<1>3. CASE HitCurrent(i)
  <2>1. PICK tie \in TieOrders(cache) :
          cache' = Rescored(cache, tie, readCache, i - previousRequest = 1)
    BY <1>3 DEF HitCurrent
  <2>2. CacheInTrack(cache') /\ \A k \in Buffers : cache'[k].from = cache[k].from
                                              /\ cache'[k].count = cache[k].count
    BY <2>1, RescoredHolds
  <2>3. InTrack(cache[readCache])
    BY DEF CacheInTrack, TypeOK
  <2>4. Holds(cache[readCache], i)
    BY <1>3, <2>3
       DEF HitCurrent, Current, InRange, FirstOf, LastOf, Empty, Holds, InTrack, Buffer
  <2>5. Holds(cache'[readCache], i) /\ i < SampleCount
    BY <2>2, <2>3, <2>4, SampleCountAssumption DEF Holds, TypeOK, InTrack, Buffer
  <2>6. /\ previousRequest' = i /\ answer' = [index |-> i, served |-> TRUE]
        /\ UNCHANGED <<readCache, writeCache, blockSize, endIndex>>
    BY <1>3 DEF HitCurrent, Answer
  <2> QED
    BY <1>0, <2>2, <2>5, <2>6 DEF TypeOK, AnswersMatchTrack
<1>4. CASE HitOther(i)
  <2>1. PICK tie \in TieOrders(cache) :
          cache' = Rescored(cache, tie, readCache', i - previousRequest = 1)
    BY <1>4 DEF HitOther
  <2>2. CacheInTrack(cache') /\ \A k \in Buffers : cache'[k].from = cache[k].from
                                              /\ cache'[k].count = cache[k].count
    BY <2>1, RescoredHolds
  <2>3. readCache' \in Buffers /\ Holds(cache[readCache'], i)
    BY <1>4, NextHitHolds DEF HitOther, TypeOK
  <2>4. InTrack(cache[readCache'])
    BY <2>3 DEF CacheInTrack
  <2>5. Holds(cache'[readCache'], i) /\ i < SampleCount
    BY <2>2, <2>3, <2>4, SampleCountAssumption DEF Holds, InTrack, Buffer
  <2>6. /\ previousRequest' = i /\ answer' = [index |-> i, served |-> TRUE]
        /\ UNCHANGED <<writeCache, blockSize, endIndex>>
    BY <1>4 DEF HitOther, Answer
  <2> QED
    BY <1>0, <2>2, <2>3, <2>5, <2>6 DEF TypeOK, AnswersMatchTrack
<1>5. ASSUME NEW k \in Buffers, Replace(i, k)
      PROVE  /\ CacheInTrack(cache') /\ writeCache' \in Buffers
             /\ previousRequest' = previousRequest /\ blockSize' = blockSize
             /\ i < SampleCount => Hits(cache', readCache, i) # {}
  <2>1. cache' = [cache EXCEPT ![k] = FilledByIndex(i, blockSize)]
    BY <1>5 DEF Replace
  <2>2. InTrack(FilledByIndex(i, blockSize))
    BY FilledInTrack DEF TypeOK
  <2>3. CacheInTrack(cache')
    BY <2>1, <2>2 DEF CacheInTrack, TypeOK
  <2>4. cache'[k] = FilledByIndex(i, blockSize)
    BY <2>1 DEF TypeOK
  <2>5. ASSUME i < SampleCount PROVE Hits(cache', readCache, i) # {}
    <3>1. i <= i + blockSize /\ i + blockSize \in Int
      BY DEF TypeOK
    <3>2. BatchByIndex(i, i + blockSize).from = i /\ BatchByIndex(i, i + blockSize).count > 0
          /\ BatchByIndex(i, i + blockSize) \in Batch
      BY <2>5, <3>1, BatchByIndexInTrack
    <3>3. ~Empty(cache'[k]) /\ Holds(cache'[k], i)
      BY <2>4, <3>2 DEF FilledByIndex, Fresh, Empty, Holds, Batch
    <3> QED  BY <2>2, <2>4, <3>3, HeldIsHit DEF TypeOK
  <2> QED  BY <1>5, <2>3, <2>5 DEF Replace
<1>6. CASE ReplaceAndHit(i)
  <2>1. PICK k \in Buffers : /\ Replace(i, k)
                            /\ Hits(cache', readCache, i) # {}
                            /\ readCache' = NextHit(cache', readCache, i)
                            /\ Answer(i, TRUE)
                            /\ UNCHANGED endIndex
    BY <1>6 DEF ReplaceAndHit
  <2>2. CacheInTrack(cache') /\ writeCache' \in Buffers
        /\ previousRequest' = previousRequest /\ blockSize' = blockSize
    BY <1>5, <2>1
  <2>3. readCache' \in Buffers /\ Holds(cache'[readCache'], i)
    BY <2>1, <2>2, NextHitHolds DEF TypeOK
  <2>4. i < SampleCount
    <3>1. InTrack(cache'[readCache'])
      BY <2>2, <2>3 DEF CacheInTrack
    <3> QED  BY <2>3, <3>1, SampleCountAssumption DEF Holds, InTrack, Buffer
  <2> QED
    BY <1>0, <2>1, <2>2, <2>3, <2>4 DEF Answer, TypeOK, AnswersMatchTrack
<1>7. CASE ReplaceAtEnd(i)
  <2>1. PICK k \in Buffers : /\ Replace(i, k)
                            /\ Hits(cache', readCache, i) = {}
                            /\ endIndex' = i
                            /\ Answer(i, FALSE)
                            /\ UNCHANGED readCache
    BY <1>7 DEF ReplaceAtEnd
  <2>2. CacheInTrack(cache') /\ writeCache' \in Buffers
        /\ previousRequest' = previousRequest /\ blockSize' = blockSize
    BY <1>5, <2>1
  <2>3. i >= SampleCount
    BY <1>5, <2>1, SampleCountAssumption
  <2> QED
    BY <1>0, <2>1, <2>2, <2>3, SampleCountAssumption DEF Answer, TypeOK, AnswersMatchTrack
<1> QED
  BY <1>1, <1>2, <1>3, <1>4, <1>6, <1>7 DEF PrepareSampleInfo

LEMMA NextIInv == IInv /\ [Next]_vars => IInv'
<1> SUFFICES ASSUME IInv, [Next]_vars PROVE IInv'
  OBVIOUS
<1>1. ASSUME NEW e \in Enumerators, MoveNextOnEmptyList(e) PROVE IInv'
  <2>1. position' \in [Enumerators -> Nat \cup {-1}] /\ ended' \in [Enumerators -> BOOLEAN]
    BY <1>1 DEF MoveNextOnEmptyList, StopOnEmptyList, IInv, TypeOK
  <2> QED
    BY <1>1, <2>1
       DEF MoveNextOnEmptyList, StopOnEmptyList, managerVars, IInv, TypeOK, AnswersMatchTrack, CacheInTrack, Holds
<1>2. ASSUME NEW e \in Enumerators, MoveNext(e) PROVE IInv'
  <2>1. position[e] + 1 \in Nat
    BY DEF IInv, TypeOK
  <2>2. PrepareSampleInfo(position[e] + 1)
    BY <1>2 DEF MoveNext, StepForward
  <2>3. position' \in [Enumerators -> Nat \cup {-1}]
    BY <1>2, <2>1 DEF MoveNext, StepForward, IInv, TypeOK
  <2>4. answer'.served \in BOOLEAN
    BY <2>1, <2>2, RequestPreserves
  <2>5. ended' \in [Enumerators -> BOOLEAN]
    BY <1>2, <2>4 DEF MoveNext, StepForward, IInv, TypeOK
  <2>6. passes' \in [Enumerators -> Nat] /\ extraCalls' \in 0 .. MaxExtraCalls
    BY <1>2 DEF MoveNext, StepForward, IInv, TypeOK
  <2> QED
    BY <2>1, <2>2, <2>3, <2>5, <2>6, RequestPreserves DEF IInv, TypeOK
<1>3. ASSUME NEW i \in Nat, PrepareSampleInfo(i), ExtraCall, UNCHANGED clientVars PROVE IInv'
  <2>1. extraCalls' \in 0 .. MaxExtraCalls
    BY <1>3, MaxExtraCallsAssumption DEF ExtraCall, IInv, TypeOK
  <2>2. UNCHANGED <<position, ended, passes>>
    BY <1>3 DEF clientVars
  <2> QED
    BY <1>3, <2>1, <2>2, RequestPreserves DEF IInv, TypeOK
<1>4. ASSUME NEW e \in Enumerators, CurrentTimeStamp(e) PROVE IInv'
  <2>1. position[e] \in Nat
    BY <1>4 DEF CurrentTimeStamp, IndexAgain, IInv, TypeOK
  <2> QED  BY <1>3, <1>4, <2>1 DEF CurrentTimeStamp, IndexAgain
<1>5. ASSUME NEW e \in Enumerators, Reset(e) PROVE IInv'
  <2>1. /\ position' \in [Enumerators -> Nat \cup {-1}]
        /\ ended' \in [Enumerators -> BOOLEAN]
        /\ passes' \in [Enumerators -> Nat]
    BY <1>5 DEF Reset, IInv, TypeOK
  <2> QED
    BY <1>5, <2>1 DEF Reset, managerVars, IInv, TypeOK, AnswersMatchTrack, CacheInTrack, Holds
<1>6. ASSUME NEW i \in Probes, Index(i) PROVE IInv'
  <2>1. i \in Nat
    BY ProbesAssumption, SampleCountAssumption
  <2> QED  BY <1>3, <1>6, <2>1 DEF Index
<1>7. CASE UNCHANGED vars
  BY <1>7 DEF vars, managerVars, clientVars, IInv, TypeOK, AnswersMatchTrack, CacheInTrack, Holds
<1> QED
  BY <1>1, <1>2, <1>4, <1>5, <1>6, <1>7 DEF Next

LEMMA IInvAlways == Spec => []IInv
  BY InitIInv, NextIInv, PTL DEF Spec

(* The state of the cache and its clients stays well formed, for every     *)
(* track and every sequence of calls (PerTrackCacheManager).               *)
THEOREM TypeCorrect == Spec => []TypeOK
<1>1. IInv => TypeOK
  BY DEF IInv
<1> QED  BY <1>1, IInvAlways, PTL

(* A request is served exactly when the track has the sample, for every    *)
(* track, every block size and every sequence of calls                     *)
(* (PrepareSampleInfo).                                                    *)
THEOREM CacheIsTransparent == Spec => []AnswersMatchTrack
<1>1. IInv => AnswersMatchTrack
  BY DEF IInv
<1> QED  BY <1>1, IInvAlways, PTL

-----------------------------------------------------------------------------
(***************************************************************************)
(* One enumerator that runs over the track once, with callers by index     *)
(* that ask only for samples the track has, as the enumerators over the    *)
(* source tracks of a recoding are used.  (A second enumerator, a second   *)
(* pass or a request beyond the end can leave an empty list behind, on     *)
(* which an enumerator stops early.)                                       *)
(***************************************************************************)
OneReader ==
  /\ \A e, f \in Enumerators : e = f
  /\ MaxPasses <= 1
  /\ Probes \subseteq Samples

(* Until the enumerator has ended, the list read last is not empty.        *)
ReaderInv ==
  \A e \in Enumerators :
    /\ passes[e] >= 1
    /\ IF ended[e] THEN position[e] = SampleCount
       ELSE position[e] \in -1 .. SampleCount - 1 /\ ~Empty(cache[readCache])

(* What a request leaves behind.                                           *)
LEMMA RequestAnswers ==
  ASSUME IInv, NEW i \in Nat, PrepareSampleInfo(i)
  PROVE  /\ answer'.index = i
         /\ answer'.served <=> i < SampleCount
         /\ i < SampleCount => ~Empty(cache'[readCache'])
<1>1. answer'.index = i
  BY DEF PrepareSampleInfo, RefusedAsEnd, RefillFromStart, HitCurrent, HitOther,
         ReplaceAndHit, ReplaceAtEnd, Answer
<1>2. AnswersMatchTrack' /\ CacheInTrack(cache') /\ readCache' \in Buffers
  BY RequestPreserves
<1>3. answer'.served <=> i < SampleCount
  BY <1>1, <1>2 DEF AnswersMatchTrack
<1>4. i < SampleCount => Holds(cache'[readCache'], i)
  BY <1>1, <1>2, <1>3 DEF AnswersMatchTrack
<1>5. InTrack(cache'[readCache'])
  BY <1>2 DEF CacheInTrack
<1> QED
  BY <1>1, <1>3, <1>4, <1>5 DEF Holds, Empty, InTrack, Buffer

LEMMA InitReader == Init => ReaderInv /\ Cursor!Init
<1> SUFFICES ASSUME Init PROVE ReaderInv /\ Cursor!Init
  OBVIOUS
<1>1. /\ readCache = 0 /\ position = [e \in Enumerators |-> -1]
      /\ ended = [e \in Enumerators |-> FALSE] /\ passes = [e \in Enumerators |-> 1]
  BY DEF Init
<1>2. CacheInTrack(ReadAheadByTime) /\ 0 \in Buffers
  BY ReadAheadByTimeInTrack DEF Buffers, CacheBufCount
<1>3. ReadAheadByTime[0].count >= 2
  BY DEF Init, BatchGivesBlockSize, BlockSizeDefined
<1>4. cache[0].count = ReadAheadByTime[0].count
  <2> DEFINE c == ReadAheadByTime
  <2>1. PICK tie, next : cache = Rescored(c, tie, 0, next)
    BY DEF Init
  <2> HIDE DEF c
  <2>2. CacheInTrack(c)
    BY <1>2 DEF c
  <2>3. \A k \in Buffers : Rescored(c, tie, 0, next)[k].count = c[k].count
    BY <2>2, RescoredHolds
  <2> QED  BY <1>2, <2>1, <2>3 DEF c
<1>5. ~Empty(cache[readCache])
  BY <1>1, <1>3, <1>4 DEF Empty
<1> QED  BY <1>1, <1>5, SampleCountAssumption DEF ReaderInv, Cursor!Init

(* The step of the abstract cursor that a step is.                         *)
LEMMA NextReader ==
  ASSUME OneReader, IInv, ReaderInv, [Next]_vars
  PROVE  ReaderInv' /\ [Cursor!Next]_Cursor!cursorVars
<1>1. /\ position \in [Enumerators -> Nat \cup {-1}] /\ ended \in [Enumerators -> BOOLEAN]
      /\ passes \in [Enumerators -> Nat]
  BY DEF IInv, TypeOK
<1>2. ASSUME NEW e \in Enumerators, MoveNext(e)
      PROVE  ReaderInv' /\ Cursor!Next
  <2> DEFINE i == position[e] + 1
  <2>1. /\ ~ended[e] /\ position' = [position EXCEPT ![e] = @ + 1]
        /\ PrepareSampleInfo(i) /\ ended' = [ended EXCEPT ![e] = ~answer'.served]
        /\ UNCHANGED passes
    BY <1>2 DEF MoveNext, StepForward
  <2>2. position[e] \in -1 .. SampleCount - 1
    BY <2>1 DEF ReaderInv
  <2>3. i \in 0 .. SampleCount
    BY <2>2, SampleCountAssumption
  <2> HIDE DEF i
  <2>4. /\ answer'.served <=> i < SampleCount
        /\ i < SampleCount => ~Empty(cache'[readCache'])
    BY <2>1, <2>3, RequestAnswers
  <2>5. answer'.served \in BOOLEAN
    BY <2>1, <2>3, RequestPreserves
  <2>6. (~answer'.served) = (i = SampleCount)
    BY <2>3, <2>4, <2>5, SampleCountAssumption
  <2>7. ended' = [ended EXCEPT ![e] = position[e] + 1 = SampleCount]
    BY <2>1, <2>6 DEF i
  <2>8. Cursor!Next
    BY <2>1, <2>7 DEF Cursor!Next, Cursor!Advance
  <2>9. /\ position'[e] = i /\ ended'[e] = (i = SampleCount)
    BY <1>1, <2>1, <2>6, <2>7 DEF i
  <2>10. ReaderInv'
    <3>1. \A f \in Enumerators : f = e
      BY DEF OneReader
    <3>2. passes'[e] >= 1
      BY <2>1 DEF ReaderInv
    <3>3. CASE i = SampleCount
      BY <2>9, <3>1, <3>2, <3>3 DEF ReaderInv
    <3>4. CASE i < SampleCount
      <4>1. i \in -1 .. SampleCount - 1 /\ i # SampleCount
        BY <2>3, <3>4, SampleCountAssumption
      <4> QED  BY <2>4, <2>9, <3>1, <3>2, <3>4, <4>1 DEF ReaderInv
    <3> QED  BY <2>3, <3>3, <3>4, SampleCountAssumption
  <2> QED  BY <2>8, <2>10
<1>3. ASSUME NEW e \in Enumerators, CurrentTimeStamp(e) PROVE ReaderInv' /\ UNCHANGED Cursor!cursorVars
  <2>1. /\ position[e] \in Nat /\ PrepareSampleInfo(position[e]) /\ UNCHANGED <<position, ended, passes>>
    BY <1>1, <1>3 DEF CurrentTimeStamp, IndexAgain, clientVars
  <2>2. position[e] < SampleCount => ~Empty(cache'[readCache'])
    BY <2>1, RequestAnswers
  <2> QED  BY <2>1, <2>2, SampleCountAssumption DEF ReaderInv, OneReader, Cursor!cursorVars
<1>4. ASSUME NEW i \in Probes, Index(i) PROVE ReaderInv' /\ UNCHANGED Cursor!cursorVars
  <2>1. /\ i \in Nat /\ i < SampleCount
        /\ PrepareSampleInfo(i) /\ UNCHANGED <<position, ended, passes>>
    BY <1>4, SampleCountAssumption DEF Index, clientVars, OneReader, Samples
  <2>2. ~Empty(cache'[readCache'])
    BY <2>1, RequestAnswers
  <2> QED  BY <2>1, <2>2 DEF ReaderInv, Cursor!cursorVars
<1>5. \A e \in Enumerators : ~MoveNextOnEmptyList(e) /\ ~Reset(e)
  <2> SUFFICES ASSUME NEW e \in Enumerators PROVE ~MoveNextOnEmptyList(e) /\ ~Reset(e)
    OBVIOUS
  <2>1. ~(passes[e] < MaxPasses)
    BY <1>1, MaxPassesAssumption DEF ReaderInv, OneReader
  <2>2. ended[e] \/ ~Empty(cache[readCache])
    BY DEF ReaderInv
  <2> QED  BY <2>1, <2>2 DEF MoveNextOnEmptyList, StopOnEmptyList, Reset
<1>6. CASE UNCHANGED vars
  BY <1>6 DEF vars, managerVars, clientVars, ReaderInv, Cursor!cursorVars
<1> QED  BY <1>2, <1>3, <1>4, <1>5, <1>6 DEF Next

LEMMA ReaderInvariance == OneReader => (Spec => [](IInv /\ ReaderInv))
<1> SUFFICES ASSUME OneReader PROVE Spec => [](IInv /\ ReaderInv)
  OBVIOUS
<1>1. Init => IInv /\ ReaderInv
  BY InitIInv, InitReader
<1>2. IInv /\ ReaderInv /\ [Next]_vars => (IInv /\ ReaderInv)'
  BY NextIInv, NextReader
<1> QED  BY <1>1, <1>2, PTL DEF Spec

(* For every track and block size: a first run over a track that no other   *)
(* enumerator reads passes every sample ("i covers ALL indices in a         *)
(* track", IGenericMediaTrackEnumerator.MoveNext).                         *)
THEOREM OneReaderIsComplete == OneReader => (Spec => []EnumerationIsComplete)
<1>1. IInv /\ ReaderInv => EnumerationIsComplete
  BY SampleCountAssumption DEF ReaderInv, EnumerationIsComplete
<1> QED  BY <1>1, ReaderInvariance, PTL

(* Such a run implements the abstract cursor: initial states and steps map  *)
(* to those of TrackCursor, so the samples are visited one after another    *)
(* and the run stops right behind the last.                                *)
THEOREM OneReaderImplementsCursor ==
  OneReader => (Spec => Cursor!Init /\ [][Cursor!Next]_Cursor!cursorVars)
<1> SUFFICES ASSUME OneReader
             PROVE  Spec => Cursor!Init /\ [][Cursor!Next]_Cursor!cursorVars
  OBVIOUS
<1>1. Init => Cursor!Init
  BY InitReader
<1>2. IInv /\ ReaderInv /\ [Next]_vars => [Cursor!Next]_Cursor!cursorVars
  BY NextReader
<1> QED  BY <1>1, <1>2, ReaderInvariance, PTL DEF Spec

-----------------------------------------------------------------------------
(***************************************************************************)
(* The buffer given up.  Buffers are told apart by their first samples     *)
(* unless the whole track is in the cache beside an empty buffer, in which *)
(* case it is an empty one that is filled next.                            *)
(***************************************************************************)
HoldsTrack(c) ==
  /\ \E k \in Buffers : Empty(c[k])
  /\ \A i \in Samples : \E k \in Buffers : Holds(c[k], i)

ToldApart(c) == DistinctStarts(c) \/ HoldsTrack(c)

LEMMA SameContents ==
  ASSUME NEW c, NEW d, \A k \in Buffers : d[k].from = c[k].from /\ d[k].count = c[k].count
  PROVE  ToldApart(c) => ToldApart(d)
<1>1. \A k \in Buffers : Empty(d[k]) <=> Empty(c[k])
  BY DEF Empty
<1>2. ASSUME DistinctStarts(c) PROVE DistinctStarts(d)
  BY <1>1, <1>2 DEF DistinctStarts, NonEmpty
<1>3. ASSUME HoldsTrack(c) PROVE HoldsTrack(d)
  BY <1>1, <1>3 DEF HoldsTrack, Holds
<1> QED  BY <1>2, <1>3 DEF ToldApart

(* A batch asked for by index is empty behind the track, and otherwise     *)
(* holds its first index and ends with the block or with the track.        *)
LEMMA FilledFrom ==
  ASSUME NEW i \in Nat, NEW size \in Nat \ {0}
  PROVE  /\ InTrack(FilledByIndex(i, size))
         /\ i >= SampleCount => Empty(FilledByIndex(i, size))
         /\ i < SampleCount => /\ ~Empty(FilledByIndex(i, size))
                               /\ FilledByIndex(i, size).from = i
BY FilledInTrack, SampleCountAssumption
   DEF FilledByIndex, Fresh, BatchByIndex, NoBatch, Empty

(* The buffer that SetStaleCache picks.                                    *)
LEMMA StaleIs ==
  ASSUME NEW c, NEW k \in StaleCandidates(c), ToldApart(c)
  PROVE  Empty(c[k]) \/ k \in LeastRelevant(c)
<1>1. Buffers \subseteq Nat
  BY DEF Buffers, CacheBufCount
<1>2. CASE \E j \in Buffers : Empty(c[j])
  <2>1. k = Min({j \in Buffers : Empty(c[j])})
    BY <1>2 DEF StaleCandidates
  <2>2. {j \in Buffers : Empty(c[j])} \subseteq Nat /\ {j \in Buffers : Empty(c[j])} # {}
    BY <1>1, <1>2
  <2> QED  BY <2>1, <2>2, MinOfNats
<1>3. CASE ~\E j \in Buffers : Empty(c[j])
  <2>1. PICK m \in LeastRelevant(c) : k = SameStart(c, m)
    BY <1>3 DEF StaleCandidates
  <2>2. m \in Buffers
    BY <2>1 DEF LeastRelevant
  <2> DEFINE same == {j \in Buffers : FirstOf(c[j]) = FirstOf(c[m])}
  <2>3. same \subseteq Nat /\ same # {}
    BY <1>1, <2>2
  <2>4. k \in same
    <3> HIDE DEF same
    <3>1. k = Min(same)
      BY <2>1 DEF SameStart, same
    <3> QED  BY <2>3, <3>1, MinOfNats
  <2>5. c[k].from = c[m].from /\ k \in Buffers
    BY <1>3, <2>2, <2>4 DEF FirstOf
  <2>6. k = m
    BY <1>3, <2>2, <2>5 DEF ToldApart, HoldsTrack, DistinctStarts, NonEmpty
  <2> QED  BY <2>1, <2>6
<1> QED  BY <1>2, <1>3

(* A block read in for an index that no buffer has starts where no other   *)
(* buffer does.                                                            *)
LEMMA ReplaceKeepsApart ==
  ASSUME IInv, NEW i \in Nat, NEW k \in Buffers, Replace(i, k), ToldApart(cache)
  PROVE  ToldApart(cache')
<1> DEFINE b == FilledByIndex(i, blockSize)
<1>1. /\ cache' = [cache EXCEPT ![k] = b] /\ k \in StaleCandidates(cache)
      /\ Hits(cache, readCache, i) = {}
  BY DEF Replace
<1>2. /\ blockSize \in Nat \ {0} /\ readCache \in Buffers /\ DOMAIN cache = Buffers
      /\ \A j \in Buffers : InTrack(cache[j])
  BY DEF IInv, TypeOK, CacheInTrack
<1>3. \A j \in Buffers : cache'[j] = IF j = k THEN b ELSE cache[j]
  BY <1>1, <1>2
<1>4. /\ i >= SampleCount => Empty(b)
      /\ i < SampleCount => ~Empty(b) /\ b.from = i
  BY <1>2, FilledFrom
<1> HIDE DEF b
<1>5. \A j \in Buffers : ~Holds(cache[j], i) \/ Empty(cache[j])
  BY <1>1, <1>2, HeldIsHit
<1>6. \A j \in Buffers : ~Holds(cache[j], i)
  BY <1>2, <1>5 DEF Holds, Empty, InTrack, Buffer
<1>7. \A j \in Buffers : cache[j].from = i => Empty(cache[j])
  BY <1>2, <1>6 DEF Holds, Empty, InTrack, Buffer
<1>8. CASE DistinctStarts(cache)
  <2>1. SampleCount \in Nat
    BY SampleCountAssumption
  <2>2. CASE i >= SampleCount
    BY <1>3, <1>4, <1>8, <2>2 DEF ToldApart, DistinctStarts, NonEmpty
  <2>3. CASE i < SampleCount
    <3>1. \A j \in NonEmpty(cache') : cache'[j].from = i => j = k
      BY <1>3, <1>7 DEF NonEmpty
    <3>2. cache'[k].from = i
      BY <1>3, <1>4, <2>3
    <3>3. \A j \in NonEmpty(cache') : j # k => j \in NonEmpty(cache) /\ cache'[j] = cache[j]
      BY <1>3 DEF NonEmpty
    <3> QED  BY <1>8, <3>1, <3>2, <3>3 DEF ToldApart, DistinctStarts
  <2> QED  BY <2>1, <2>2, <2>3
<1>9. CASE HoldsTrack(cache)
  <2>1. i >= SampleCount
    BY <1>6, <1>9, SampleCountAssumption DEF HoldsTrack, Samples
  <2>2. Empty(b)
    BY <1>4, <2>1
  <2>3. Empty(cache[k])
    <3>1. {j \in Buffers : Empty(cache[j])} \subseteq Nat /\ {j \in Buffers : Empty(cache[j])} # {}
      BY <1>9 DEF Buffers, CacheBufCount, HoldsTrack
    <3>2. k = Min({j \in Buffers : Empty(cache[j])})
      BY <1>1, <1>9 DEF StaleCandidates, HoldsTrack
    <3> QED  BY <3>1, <3>2, MinOfNats
  <2>4. Empty(cache'[k])
    BY <1>3, <2>2
  <2>5. ASSUME NEW s \in Samples PROVE \E j \in Buffers : Holds(cache'[j], s)
    <3>1. PICK j \in Buffers : Holds(cache[j], s)
      BY <1>9 DEF HoldsTrack
    <3>2. j # k
      BY <1>2, <2>3, <3>1, SampleCountAssumption DEF Holds, Empty, InTrack, Buffer, Samples
    <3> QED  BY <1>3, <3>1, <3>2
  <2> QED  BY <2>4, <2>5 DEF ToldApart, HoldsTrack
<1> QED  BY <1>8, <1>9 DEF ToldApart

(* Reading ahead again fills the buffers with consecutive blocks, or the    *)
(* whole track is in the first of them.                                    *)
LEMMA ReadAheadApart ==
  ASSUME IInv
  PROVE  ToldApart(ReadAheadByIndex(blockSize))
<1> DEFINE size == blockSize
           b0 == FilledByIndex(0, size)
           b1 == IndexAhead(b0, size, cache[1])
           b2 == IF Empty(b0) THEN cache[2] ELSE IndexAhead(b1, size, cache[2])
           b3 == IF Empty(b0) \/ Empty(b1) THEN cache[3] ELSE IndexAhead(b2, size, cache[3])
           c == FourBuffers(b0, b1, b2, b3)
<1>1. size \in Nat \ {0} /\ SampleCount \in Nat \ {0}
  BY SampleCountAssumption DEF IInv, TypeOK
<1>2. ASSUME NEW b, InTrack(b), ~Empty(b), NEW next, next = FilledByIndex(b.from + b.count, size)
      PROVE  /\ InTrack(next)
             /\ Empty(next) => b.from + b.count = SampleCount
             /\ ~Empty(next) => next.from = b.from + b.count /\ next.from > b.from
  <2>1. b.from \in Nat /\ b.count \in Nat \ {0} /\ b.from + b.count <= SampleCount
    BY <1>2 DEF InTrack, Buffer, Empty
  <2>2. b.from + b.count \in Nat
    BY <2>1
  <2>3. /\ InTrack(next)
        /\ b.from + b.count >= SampleCount => Empty(next)
        /\ b.from + b.count < SampleCount => ~Empty(next) /\ next.from = b.from + b.count
    BY <1>1, <1>2, <2>2, FilledFrom
  <2> QED  BY <1>1, <2>1, <2>3
<1>3. InTrack(b0) /\ ~Empty(b0) /\ b0.from = 0
  BY <1>1, FilledFrom
<1>4. b1 = FilledByIndex(b0.from + b0.count, size)
  BY <1>3 DEF IndexAhead
<1>5. ~Empty(b1) => b2 = FilledByIndex(b1.from + b1.count, size)
  BY <1>3 DEF IndexAhead
<1>6. ~Empty(b1) /\ ~Empty(b2) => b3 = FilledByIndex(b2.from + b2.count, size)
  BY <1>3 DEF IndexAhead
<1>7. /\ c[0] = b0 /\ c[1] = b1 /\ c[2] = b2 /\ c[3] = b3 /\ Buffers = {0, 1, 2, 3}
      /\ ReadAheadByIndex(blockSize) = c
  BY DEF FourBuffers, Buffers, CacheBufCount, ReadAheadByIndex
<1> HIDE DEF size, b0, b1, b2, b3, c
<1>8. CASE Empty(b1)
  <2>1. b0.from + b0.count = SampleCount
    BY <1>2, <1>3, <1>4, <1>8
  <2>2. \A i \in Samples : Holds(c[0], i)
    BY <1>1, <1>3, <1>7, <2>1 DEF Holds, Samples
  <2> QED  BY <1>7, <1>8, <2>2 DEF ToldApart, HoldsTrack
<1>9. CASE ~Empty(b1)
  <2>1. InTrack(b1) /\ b1.from = b0.from + b0.count /\ b1.from > b0.from
    BY <1>2, <1>3, <1>4, <1>9
  <2>2. CASE Empty(b2)
    <3>1. b1.from + b1.count = SampleCount
      BY <1>2, <1>5, <1>9, <2>1, <2>2
    <3>2. b0.from = 0 /\ b0.count \in Nat /\ b1.from \in Nat /\ b1.count \in Nat
      BY <1>3, <2>1 DEF InTrack, Buffer
    <3>3. \A i \in Samples : Holds(c[0], i) \/ Holds(c[1], i)
      BY <1>1, <1>7, <2>1, <3>1, <3>2 DEF Holds, Samples
    <3> QED  BY <1>7, <2>2, <3>3 DEF ToldApart, HoldsTrack
  <2>3. CASE ~Empty(b2)
    <3>1. InTrack(b2) /\ b2.from > b1.from
      BY <1>2, <1>5, <1>9, <2>1, <2>3
    <3>2. ~Empty(b3) => b3.from > b2.from
      BY <1>2, <1>6, <1>9, <2>3, <3>1
    <3>3. InTrack(b3)
      BY <1>2, <1>6, <1>9, <2>3, <3>1
    <3>4. /\ b0.from \in Nat /\ b1.from \in Nat /\ b2.from \in Nat /\ b3.from \in Nat
      BY <1>3, <2>1, <3>1, <3>3 DEF InTrack, Buffer
    <3>5. DistinctStarts(c)
      BY <1>7, <2>1, <3>1, <3>2, <3>4 DEF DistinctStarts, NonEmpty
    <3> QED  BY <1>7, <3>5 DEF ToldApart
  <2> QED  BY <2>2, <2>3
<1> QED  BY <1>8, <1>9

LEMMA RequestKeepsApart ==
  ASSUME IInv, NEW i \in Nat, PrepareSampleInfo(i), ToldApart(cache)
  PROVE  ToldApart(cache')
<1>1. CacheInTrack(cache) /\ CacheInTrack(ReadAheadByIndex(blockSize))
  BY ReadAheadByIndexInTrack DEF IInv, TypeOK
<1>2. ASSUME NEW c, CacheInTrack(c), ToldApart(c), NEW tie, NEW current, NEW next,
             cache' = Rescored(c, tie, current, next)
      PROVE  ToldApart(cache')
  BY <1>2, RescoredHolds, SameContents
<1>3. CASE RefusedAsEnd(i)
  BY <1>3 DEF RefusedAsEnd, managerVars
<1>4. CASE RefillFromStart(i)
  BY <1>1, <1>2, <1>4, ReadAheadApart DEF RefillFromStart
<1>5. CASE HitCurrent(i)
  BY <1>1, <1>2, <1>5 DEF HitCurrent
<1>6. CASE HitOther(i)
  BY <1>1, <1>2, <1>6 DEF HitOther
<1>7. CASE ReplaceAndHit(i)
  BY <1>7, ReplaceKeepsApart DEF ReplaceAndHit
<1>8. CASE ReplaceAtEnd(i)
  BY <1>8, ReplaceKeepsApart DEF ReplaceAtEnd
<1> QED  BY <1>3, <1>4, <1>5, <1>6, <1>7, <1>8 DEF PrepareSampleInfo

LEMMA NextApart == IInv /\ ToldApart(cache) /\ [Next]_vars => ToldApart(cache')
<1> SUFFICES ASSUME IInv, ToldApart(cache), [Next]_vars PROVE ToldApart(cache')
  OBVIOUS
<1>1. \A e \in Enumerators : position[e] \in Nat \cup {-1}
  BY DEF IInv, TypeOK
<1>2. ASSUME NEW e \in Enumerators, MoveNext(e) PROVE ToldApart(cache')
  BY <1>1, <1>2, RequestKeepsApart DEF MoveNext, StepForward
<1>3. ASSUME NEW e \in Enumerators, CurrentTimeStamp(e) PROVE ToldApart(cache')
  BY <1>1, <1>3, RequestKeepsApart DEF CurrentTimeStamp, IndexAgain
<1>4. ASSUME NEW i \in Probes, Index(i) PROVE ToldApart(cache')
  BY <1>4, RequestKeepsApart, ProbesAssumption, SampleCountAssumption DEF Index
<1>5. ASSUME UNCHANGED cache PROVE ToldApart(cache')
  BY <1>5
<1> QED
  BY <1>2, <1>3, <1>4, <1>5
     DEF Next, MoveNextOnEmptyList, StopOnEmptyList, Reset, managerVars, vars

(* For every track, all enumerators, passes and callers: if the windows of   *)
(* time read ahead at first start at different samples, SetStaleCache gives *)
(* up an empty buffer or one of least relevancy ever after, though it       *)
(* identifies a buffer by its first sample.                                *)
THEOREM EvictionIsLeastRelevant ==
  ToldApart(ReadAheadByTime) => (Spec => EvictsLeastRelevant)
<1> SUFFICES ASSUME ToldApart(ReadAheadByTime) PROVE Spec => EvictsLeastRelevant
  OBVIOUS
<1> DEFINE Evicted ==
      ReplaceAndHit(answer'.index) \/ ReplaceAtEnd(answer'.index) =>
        \A k \in Buffers : cache'[k] # cache[k] => Empty(cache[k]) \/ k \in LeastRelevant(cache)
<1>1. Init => ToldApart(cache)
  <2> SUFFICES ASSUME Init PROVE ToldApart(cache)
    OBVIOUS
  <2> DEFINE c == ReadAheadByTime
  <2>1. PICK tie, next : cache = Rescored(c, tie, 0, next)
    BY DEF Init
  <2>2. CacheInTrack(c) /\ ToldApart(c)
    BY ReadAheadByTimeInTrack
  <2> HIDE DEF c
  <2> QED  BY <2>1, <2>2, RescoredHolds, SameContents
<1>2. IInv /\ ToldApart(cache) => Evicted
  <2> SUFFICES ASSUME IInv, ToldApart(cache), NEW k \in Buffers, cache'[k] # cache[k],
                      ReplaceAndHit(answer'.index) \/ ReplaceAtEnd(answer'.index)
               PROVE  Empty(cache[k]) \/ k \in LeastRelevant(cache)
    OBVIOUS
  <2>1. PICK m \in Buffers : Replace(answer'.index, m)
    BY DEF ReplaceAndHit, ReplaceAtEnd
  <2>2. m = k /\ m \in StaleCandidates(cache)
    BY <2>1 DEF Replace, IInv, TypeOK
  <2> QED  BY <2>2, StaleIs
<1> QED
  <2>1. IInv /\ ToldApart(cache) => [Evicted]_vars
    BY <1>2
  <2>2. ToldApart(cache) /\ IInv /\ [Next]_vars => ToldApart(cache)'
    BY NextApart
  <2> QED  BY <1>1, <2>1, <2>2, IInvAlways, PTL DEF Spec, EvictsLeastRelevant
=============================================================================
