---------------------------- MODULE SampleTimes ----------------------------
(***************************************************************************)
(* The samples of one source track of an MP4 file, as the sample table of  *)
(* the track describes them, and the two ways in which a batch of samples  *)
(* is asked of it: by a range of indices and by a window of time           *)
(* (SampleTableBox, MP4TrackFormat).  Samples are numbered from 0, as in   *)
(* StreamDataBlockInfo.index; a batch is the interval of samples that the  *)
(* list SampleStreamLocations holds, and an empty or null list is a batch  *)
(* of no samples.                                                          *)
(***************************************************************************)
EXTENDS Integers, FiniteSetsExt, BlockSizing

CONSTANTS
  SampleCount,  \* how many samples the track has
  TimeStamp,    \* TimeStamp[i] is when sample i starts; TimeStamp[SampleCount] is the duration
  SyncSamples   \* the samples stss lists; without stss, every number in 0 .. SampleCount

Samples == 0 .. SampleCount - 1

ASSUME SampleCountAssumption == SampleCount \in Nat \ {0}
ASSUME TimeStampAssumption   ==
  /\ TimeStamp \in [0 .. SampleCount -> Nat]
  /\ \A i \in Samples : TimeStamp[i] <= TimeStamp[i + 1]
ASSUME SyncSamplesAssumption == SyncSamples \subseteq 0 .. SampleCount

(* Decoding times start at 0 (stts holds differences), and a track that    *)
(* can be decoded starts with a sync sample.                               *)
ASSUME StartAssumption == TimeStamp[0] = 0 /\ 0 \in SyncSamples

Batch   == [from : Nat, count : Nat]
NoBatch == [from |-> 0, count |-> 0]

Holds(b, i) == b.from <= i /\ i < b.from + b.count

(***************************************************************************)
(* PrepareSampleReading(int, int): both ends are made one-based by an      *)
(* increment and both are included, so the batch has one sample more than  *)
(* last - first.                                                           *)
(***************************************************************************)
(* Mutant: the last sample asked for is left out.                          *)
BatchByIndexShort(first, last) ==
  LET end == IF last < SampleCount THEN last ELSE SampleCount - 1
  IN  IF first <= end THEN [from |-> first, count |-> end - first] ELSE NoBatch

BatchByIndex(first, last) ==
  LET end == IF last < SampleCount THEN last ELSE SampleCount - 1
  IN  IF first <= end THEN [from |-> first, count |-> end - first + 1] ELSE NoBatch

(***************************************************************************)
(* GetStartAndEndIndex: the batch of a time window runs from the first     *)
(* sync sample not before startTime to the first sample later than endTime *)
(* that is followed by a sync sample.  The loop breaks at that sample, so  *)
(* a start that would come after it is never found.  Both results are      *)
(* one-based, and 0 stands for "not found".                                *)
(***************************************************************************)
WindowEnds(endTime) == {s \in Samples : TimeStamp[s] > endTime /\ s + 1 \in SyncSamples}

WindowStarts(startTime, endTime) ==
  {s \in Samples \cap SyncSamples :
      /\ TimeStamp[s] >= startTime
      /\ \A e \in WindowEnds(endTime) : s <= e}

FirstOfWindow(startTime, endTime) ==
  IF WindowStarts(startTime, endTime) = {} THEN 0
  ELSE Min(WindowStarts(startTime, endTime)) + 1

LastOfWindow(startTime, endTime) ==
  IF WindowEnds(endTime) # {} THEN Min(WindowEnds(endTime)) + 1
  ELSE IF WindowStarts(startTime, endTime) # {} THEN SampleCount + 1
  ELSE 0

(***************************************************************************)
(* InitSampleStreamFromSampleTableBox(EdtsBox, ...): a window that starts  *)
(* after the track, or whose end is not after its start, yields null.      *)
(* Otherwise the samples numbered startIndex .. endIndex, one-based, are   *)
(* listed; a startIndex of 0 lists them from the first one.                *)
(***************************************************************************)
BatchByTime(startTime, endTime) ==
  LET start == FirstOfWindow(startTime, endTime)
      end   == LastOfWindow(startTime, endTime)
  IN  IF TimeStamp[SampleCount] < startTime \/ end <= start
      THEN NoBatch
      ELSE BatchByIndex(IF start = 0 THEN 0 ELSE start - 1, end - 1)

(***************************************************************************)
(* SliceDuration as the reader computes it: the delta plus one unit.       *)
(***************************************************************************)
SliceDuration(i) == TimeStamp[i + 1] - TimeStamp[i] + 1

(***************************************************************************)
(* Cache.CacheStart and Cache.CacheEnd.  The loop of CacheEnd stops before *)
(* the only element of a list of one, so the end of such a batch is 0.     *)
(***************************************************************************)
CacheStart(b) == IF b.count = 0 THEN 0 ELSE TimeStamp[b.from]

CacheEnd(b) ==
  LET last == b.from + b.count - 1
  IN  IF b.count <= 1 THEN 0 ELSE TimeStamp[last] + SliceDuration(last) \div 2

(***************************************************************************)
(* The block size computed from a batch that was read.                     *)
(***************************************************************************)
BatchGivesBlockSize(b, extent, isAac) ==
  BlockSizeDefined(CacheStart(b), CacheEnd(b), b.count, extent, isAac)

BlockSizeOfBatch(b, extent, isAac) ==
  BlockSizeOf(CacheStart(b), CacheEnd(b), b.count, extent, isAac)
=============================================================================
