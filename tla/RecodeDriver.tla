---------------------------- MODULE RecodeDriver ----------------------------
(***************************************************************************)
(* GenericRecodeWRC.Recode: the slices of a source from a start time to an *)
(* end time are put in the tracks of a destination.  The loop runs over    *)
(* the sync points of the video track, which EnumerateSyncPoints finds     *)
(* with an enumerator of its own, while the slices are copied with another *)
(* one; both ask the same cache, that of TrackCache, and every look at a   *)
(* time stamp indexes the track again.  Slices are skipped up to the first *)
(* sync point not before the start, and copied up to the first one after   *)
(* the end.                                                                *)
(*                                                                         *)
(* The source is an MP4 file, so every slice has a time stamp.  The sound  *)
(* has one enumerator, which sees every sample in order (TrackCursor), so  *)
(* its cache is not modelled again.                                        *)
(***************************************************************************)
EXTENDS TrackCache, Sequences

CONSTANTS
  SyncPoints,   \* the enumerator of EnumerateSyncPoints
  Source,       \* sourceTrack of the video track
  TrackOrder,   \* the tracks recoded, "video" and "audio", in the order of MediaTracks
  AudioCount,   \* how many samples the sound has
  AudioTime,    \* AudioTime[i] is when sample i starts; AudioTime[AudioCount] is the duration
  Ranges        \* the pairs <<startTime, endTime>> that callers ask for

ASSUME EnumeratorsAssumption == SyncPoints # Source /\ Enumerators = {SyncPoints, Source}
ASSUME TrackOrderAssumption  == TrackOrder \in {<<"video">>, <<"video", "audio">>, <<"audio", "video">>}
ASSUME AudioAssumption ==
  /\ AudioCount \in Nat \ {0}
  /\ AudioTime \in [0 .. AudioCount -> Nat]
  /\ \A i \in 0 .. AudioCount - 1 : AudioTime[i] <= AudioTime[i + 1]
ASSUME RangesAssumption == Ranges \subseteq Nat \X Nat

VARIABLES
  phase,          \* what the driver does next
  turn,           \* which element of TrackOrder it is at
  looks,          \* how often it still asks for CurrentTimeStampNew before it decides
  held,           \* Current of both video enumerators
  audioAt,        \* SampleIndex of the enumerator of the sound
  startTime, endTime,
  syncTime, prevSyncTime,
  lastTimeStamp,  \* of EnumerateSyncPoints
  atLast,         \* whether syncTime is the one yielded after the last slice
  validSyncPointsFound,
  timeStart,      \* of each track
  copied          \* what was put in each destination track: slices and their new time stamps

enumeratorVars == <<vars, held, audioAt>>
rangeVars      == <<startTime, endTime>>
syncVars       == <<syncTime, prevSyncTime, lastTimeStamp, atLast, validSyncPointsFound>>
outputVars     == <<timeStart, copied>>
driverVars     == <<enumeratorVars, rangeVars, syncVars, outputVars, phase, turn, looks>>

Tracks  == {"video", "audio"}
NoSlice == [slice |-> -1, time |-> 0]

SliceOf(i) == IF i < SampleCount THEN [slice |-> i, time |-> TimeStamp[i]] ELSE NoSlice
AudioSliceOf(i) == IF i < AudioCount THEN [slice |-> i, time |-> AudioTime[i]] ELSE NoSlice

(* Current of the source track, and the time stamp it was last seen at;    *)
(* behind the last sample the indexer gives null, and the duration of the  *)
(* track stands for the time stamp.                                        *)
CurrentOf(t) == IF t = "video" THEN held[Source] ELSE AudioSliceOf(audioAt)

StampSeen == IF answer.served THEN TimeStamp[answer.index] ELSE TimeStamp[SampleCount]

StampOf(t) == IF t = "video" THEN StampSeen ELSE AudioTime[audioAt]

Track     == TrackOrder[turn]
LastTrack == turn = Len(TrackOrder)

(* HasValue and Value of CurrentTimeStampNew each index the track again.   *)
LooksBeforeDecision(t) == IF t = "video" THEN 2 ELSE 0

(* EnumerateSyncPoints looks twice when the time stamp is 0.               *)
LooksToRemember == IF TimeStamp[position[SyncPoints]] > 0 THEN 3 ELSE 2

-----------------------------------------------------------------------------
(* An interval shorter than ReadAheadExtent is refused.  The difference is *)
(* unsigned, so that an end before the start is not.  An end of 0 stands   *)
(* for the duration of the source.                                         *)
SourceDuration ==
  IF TimeStamp[SampleCount] > AudioTime[AudioCount] THEN TimeStamp[SampleCount] ELSE AudioTime[AudioCount]

EndOf(r) == IF r[2] = 0 THEN SourceDuration ELSE r[2]

Accepted(r) == EndOf(r) < r[1] \/ EndOf(r) - r[1] >= ReadAheadExtent

DriverInit ==
  /\ Init
  /\ \E r \in Ranges : Accepted(r) /\ startTime = r[1] /\ endTime = EndOf(r)
  /\ phase = "open" /\ turn = 1 /\ looks = 0
  /\ held = [e \in Enumerators |-> NoSlice]
  /\ audioAt = -1
  /\ syncTime = 0 /\ prevSyncTime = 0 /\ lastTimeStamp = 0
  /\ atLast = FALSE /\ validSyncPointsFound = FALSE
  /\ timeStart = [t \in Tracks |-> 0]
  /\ copied = [t \in Tracks |-> <<>>]

(***************************************************************************)
(* MoveNext of a video enumerator, whose Current is the given slice.  It   *)
(* changes only when the track is indexed: on an empty list Current stays  *)
(* the slice it was, with what was done to it.                             *)
(***************************************************************************)
Forward(e, current) ==
  \/ StopOnEmptyList(e) /\ held' = [held EXCEPT ![e] = current]
  \/ /\ StepForward(e)
     /\ held' = [held EXCEPT ![e] = IF answer'.served THEN SliceOf(position'[e]) ELSE NoSlice]

ForwardSource(t, current) ==
  IF t = "video" THEN Forward(Source, current) /\ UNCHANGED audioAt
  ELSE audioAt' = audioAt + 1 /\ UNCHANGED <<vars, held>>

(* Whether the MoveNext of this step returned true.                        *)
MovedSource(t) == IF t = "video" THEN ~ended'[Source] ELSE audioAt' < AudioCount

(* MoveNext has to be called first for all source enumerators; "null" is   *)
(* not an element, so the loop around it ends at once.                     *)
Open ==
  /\ phase = "open"
  /\ ForwardSource(Track, NoSlice)
  /\ IF LastTrack THEN phase' = "find" /\ turn' = 1 ELSE turn' = turn + 1 /\ UNCHANGED phase
  /\ UNCHANGED <<rangeVars, syncVars, outputVars, looks>>

(* A look at CurrentTimeStampNew of the enumerator whose turn it is.       *)
Looking == IF phase \in {"yield", "remember"} THEN SyncPoints ELSE Source

Look ==
  /\ looks > 0
  /\ looks' = looks - 1
  /\ IndexAgain(Looking)
  /\ UNCHANGED <<rangeVars, syncVars, outputVars, held, audioAt, extraCalls, phase, turn>>

-----------------------------------------------------------------------------
(* EnumerateSyncPoints: the next slice of the video; an IFrame is a sync   *)
(* point, and after the last slice comes the last time stamp seen.         *)
NextVideoSlice ==
  /\ phase = "find"
  /\ Forward(SyncPoints, held[SyncPoints])
  /\ IF ended'[SyncPoints]
     THEN /\ syncTime' = lastTimeStamp
          /\ atLast' = TRUE
          /\ phase' = "decide"
          /\ UNCHANGED looks
     ELSE /\ IF held'[SyncPoints].slice \in SyncSamples
             THEN phase' = "yield" /\ looks' = 1
             ELSE phase' = "remember" /\ looks' = LooksToRemember'
          /\ UNCHANGED <<syncTime, atLast>>
  /\ UNCHANGED <<rangeVars, outputVars, prevSyncTime, lastTimeStamp, validSyncPointsFound, audioAt, turn>>

YieldSyncPoint ==
  /\ phase = "yield" /\ looks = 0
  /\ syncTime' = StampSeen
  /\ phase' = "decide"
  /\ UNCHANGED <<enumeratorVars, rangeVars, outputVars, prevSyncTime, lastTimeStamp,
                 atLast, validSyncPointsFound, turn, looks>>

RememberTimeStamp ==
  /\ phase = "remember" /\ looks = 0
  /\ lastTimeStamp' = IF StampSeen > 0 THEN StampSeen ELSE lastTimeStamp
  /\ phase' = "find"
  /\ UNCHANGED <<enumeratorVars, rangeVars, outputVars, syncTime, prevSyncTime,
                 atLast, validSyncPointsFound, turn, looks>>

-----------------------------------------------------------------------------
(* Mutant: the copy stops in front of the sync point at the end.           *)
PastEndAtOnce == syncTime > endTime

(* Mutant: the loop runs to the last sync point.                           *)
PastEndNever == FALSE

PastEnd == syncTime > endTime /\ prevSyncTime > endTime

(* Without a sync point in the range the destination is not finalized.     *)
Outcome == IF validSyncPointsFound THEN "finished" ELSE "nothing"

BreakAtEnd ==
  /\ phase = "decide" /\ PastEnd
  /\ UNCHANGED <<enumeratorVars, rangeVars, syncVars, outputVars, turn, looks>>
  /\ phase' = Outcome

Skips == startTime > prevSyncTime

BeginTracks ==
  /\ phase = "decide" /\ ~PastEnd
  /\ phase' = IF Skips THEN "skip" ELSE "copy"
  /\ validSyncPointsFound' = (validSyncPointsFound \/ ~Skips)
  /\ turn' = 1 /\ looks' = LooksBeforeDecision(TrackOrder[1])
  /\ UNCHANGED <<enumeratorVars, rangeVars, outputVars, syncTime, prevSyncTime, lastTimeStamp, atLast>>

(* On to the next track, or with the last one to the next sync point,      *)
(* where EnumerateSyncPoints goes on behind its yield.                     *)
LeaveTrack ==
  IF LastTrack
  THEN /\ prevSyncTime' = syncTime
       /\ turn' = 1
       /\ phase' = IF atLast THEN Outcome ELSE "remember"
       /\ looks' = IF atLast THEN 0 ELSE LooksToRemember
  ELSE /\ turn' = turn + 1
       /\ looks' = LooksBeforeDecision(TrackOrder[turn + 1])
       /\ UNCHANGED <<prevSyncTime, phase>>

StayOnTrack ==
  /\ looks' = LooksBeforeDecision(Track)
  /\ UNCHANGED <<prevSyncTime, phase, turn>>

StayOrLeave == IF MovedSource(Track) THEN StayOnTrack ELSE LeaveTrack

restOfSyncVars == <<syncTime, lastTimeStamp, atLast, validSyncPointsFound>>

(* Mutant: a slice that starts at the sync point is skipped too.           *)
SkipsThrough(t) == StampOf(t) <= syncTime /\ CurrentOf(t) # NoSlice

SkipsCurrent(t) == StampOf(t) < syncTime /\ CurrentOf(t) # NoSlice

SkipSlice ==
  /\ phase = "skip" /\ looks = 0
  /\ SkipsCurrent(Track)
  /\ timeStart' = [timeStart EXCEPT ![Track] = CurrentOf(Track).time]
  /\ ForwardSource(Track, CurrentOf(Track))
  /\ StayOrLeave
  /\ UNCHANGED <<rangeVars, restOfSyncVars, copied>>

SkippedTrack ==
  /\ phase = "skip" /\ looks = 0
  /\ ~SkipsCurrent(Track)
  /\ LeaveTrack
  /\ UNCHANGED <<enumeratorVars, rangeVars, restOfSyncVars, outputVars>>

(* Mutant: there always is a Current.                                      *)
CopiesUnchecked(t) == StampOf(t) <= syncTime

CopiesCurrent(t) == StampOf(t) <= syncTime /\ CurrentOf(t) # NoSlice

(* The time stamp is rebased in the slice itself.                          *)
(* Mutant: the slice is put with the time stamp of the source.             *)
NotRebased(t) == CurrentOf(t)

Rebased(t) == [CurrentOf(t) EXCEPT !.time = @ - timeStart[t]]

Put ==
  /\ copied' = [copied EXCEPT ![Track] = Append(@, Rebased(Track))]
  /\ ForwardSource(Track, Rebased(Track))
  /\ StayOrLeave

(* "Offset time stamping error"                                            *)
Refuse ==
  /\ phase' = "failed"
  /\ UNCHANGED <<enumeratorVars, prevSyncTime, copied, turn, looks>>

CopySlice ==
  /\ phase = "copy" /\ looks = 0
  /\ CopiesCurrent(Track)
  /\ IF CurrentOf(Track).time >= timeStart[Track] THEN Put ELSE Refuse
  /\ UNCHANGED <<rangeVars, restOfSyncVars, timeStart>>

CopiedTrack ==
  /\ phase = "copy" /\ looks = 0
  /\ ~CopiesCurrent(Track)
  /\ LeaveTrack
  /\ UNCHANGED <<enumeratorVars, rangeVars, restOfSyncVars, outputVars>>

DriverStep ==
  \/ Open \/ Look
  \/ NextVideoSlice \/ YieldSyncPoint \/ RememberTimeStamp
  \/ BreakAtEnd \/ BeginTracks
  \/ SkipSlice \/ SkippedTrack
  \/ CopySlice \/ CopiedTrack

DriverSpec == DriverInit /\ [][DriverStep]_driverVars

(* One thread, which runs through.                                         *)
FairDriverSpec == DriverSpec /\ WF_driverVars(DriverStep)

-----------------------------------------------------------------------------
(* The sync points among the slices, and the first one of the extract.     *)
Syncs == {i \in Samples : i \in SyncSamples /\ TimeStamp[i] >= startTime}

FirstSync == Min(Syncs)

SourceTime(t, i) == IF t = "video" THEN TimeStamp[i] ELSE AudioTime[i]

SamplesOf(t) == IF t = "video" THEN Samples ELSE 0 .. AudioCount - 1

(* Each destination track gets consecutive slices of its source, each of   *)
(* them once, from the first one that is not before the first sync point   *)
(* of the range: the two tracks start together, whatever both video        *)
(* enumerators did to the cache meanwhile (Recode, the skipping loop).     *)
CopiesFromSyncPoint ==
  \A t \in Tracks : copied[t] # <<>> =>
    /\ Syncs # {}
    /\ copied[t][1].slice =
         Min({i \in SamplesOf(t) : SourceTime(t, i) >= TimeStamp[FirstSync]})
    /\ \A k \in 2 .. Len(copied[t]) : copied[t][k].slice = copied[t][k - 1].slice + 1

(* When Recode is through, nothing of the range is missing: the video from *)
(* the first sync point to the end of the range, and the sound up to there *)
(* or to where the last video slice starts.  Only when the range has no    *)
(* sync point is nothing recoded (validSyncPointsFound).                   *)
NothingIsMissing ==
  /\ phase = "finished" =>
       \A t \in {TrackOrder[k] : k \in DOMAIN TrackOrder} : \A i \in SamplesOf(t) :
         /\ TimeStamp[FirstSync] <= SourceTime(t, i)
         /\ SourceTime(t, i) <= endTime
         /\ SourceTime(t, i) <= TimeStamp[SampleCount - 1]
         => \E k \in DOMAIN copied[t] : copied[t][k].slice = i
  /\ phase = "nothing" => \A i \in Syncs : TimeStamp[i] > endTime

(* The copy goes at most to the first sync point after the range: no slice *)
(* is put that starts after a sync point which lies beyond endTime.        *)
StopsAtSyncPoint ==
  \A t \in Tracks : \A k \in DOMAIN copied[t] : \A i \in Syncs :
    endTime < TimeStamp[i] => SourceTime(t, copied[t][k].slice) <= TimeStamp[i]

(* The slices put keep the distances in time that they have in the source: *)
(* timeStart of a track does not change once its first slice is put.       *)
KeepsDistances ==
  \A t \in Tracks : \A k \in DOMAIN copied[t] :
    SourceTime(t, copied[t][k].slice) - copied[t][k].time = timeStart[t]

(* Recode comes to an end, with a file or because nothing was found, and   *)
(* never with an exception.                                                *)
RecodeEnds == <>(phase \in {"finished", "nothing"})

(* timeStart is the time of the "first slice NOT skipped", so that the     *)
(* first slice put starts at 0.                                            *)
FirstCopiedAtZero ==
  \A t \in Tracks : copied[t] # <<>> => copied[t][1].time = 0
=============================================================================
