------------------------- MODULE RecodeDriverProofs -------------------------
(***************************************************************************)
(* Proofs about RecodeDriver, for every track, cache, order of the tracks  *)
(* and range: what is copied starts with the first sync point of the       *)
(* range, is consecutive, keeps its distances, misses nothing and ends     *)
(* with the first sync point behind the range, and no exception is raised. *)
(***************************************************************************)
EXTENDS RecodeDriver, TrackCacheProofs, SequenceTheorems

Phases == {"open", "find", "yield", "remember", "decide", "skip", "copy",
           "finished", "nothing", "failed"}

(* The types of the driver's own variables.                                *)
DriverTypeOK ==
  /\ phase \in Phases
  /\ turn \in DOMAIN TrackOrder
  /\ looks \in 0 .. 3
  /\ held \in [Enumerators -> [slice : Int, time : Nat]]
  /\ audioAt \in -1 .. AudioCount
  /\ {startTime, endTime, syncTime, prevSyncTime, lastTimeStamp} \subseteq Nat
  /\ atLast \in BOOLEAN /\ validSyncPointsFound \in BOOLEAN
  /\ timeStart \in [Tracks -> Nat]
  /\ copied \in [Tracks -> Seq([slice : Nat, time : Nat])]

(* Where the enumerator of a source track is, and where it ends; whether   *)
(* the track was opened, and whether the loop over the tracks has left it. *)
At(t)      == IF t = "video" THEN position[Source] ELSE audioAt
CountOf(t) == IF t = "video" THEN SampleCount ELSE AudioCount
Opened(t)  == \E k \in DOMAIN TrackOrder : TrackOrder[k] = t /\ (phase = "open" => k < turn)
Done(t)    == \E k \in DOMAIN TrackOrder : TrackOrder[k] = t /\ k < turn

(* The first slice put, or the next one to be put.                         *)
Base(t) == At(t) - Len(copied[t])

VideoSyncs == Samples \cap SyncSamples
IsBetween  == phase \in {"find", "yield", "remember", "decide"}
IsInLoop   == phase \in {"skip", "copy"}

(* A look at a time stamp was the last request before it is used, so the   *)
(* request was answered, and MoveNext never meets an empty list.           *)
LooksOK ==
  /\ phase \in {"open", "find"} => ~Empty(cache[readCache])
  /\ phase \in {"open", "find", "decide"} => looks = 0
  /\ phase = "yield" \/ (phase = "remember" /\ looks < 2) => answer.index = position[SyncPoints]
  /\ IsInLoop /\ Track = "video" /\ looks < 2 => answer.index = position[Source]

(* The enumerators of the source tracks.                                   *)
SourcesOK ==
  \A t \in Tracks :
    IF Opened(t)
    THEN /\ At(t) \in 0 .. CountOf(t) /\ Base(t) >= 0
         /\ t = "video" => held[Source] = SliceOf(position[Source])
    ELSE At(t) = -1 /\ copied[t] = <<>> /\ timeStart[t] = 0

(* No sync point up to slice n is later than prevSyncTime.                 *)
Passed(n) == \A i \in VideoSyncs : i <= n => TimeStamp[i] <= prevSyncTime

(* The last time stamp remembered when the enumerator is at slice n.       *)
Before(n) == IF n <= 0 THEN 0 ELSE TimeStamp[n - 1]

(* Where EnumerateSyncPoints is, and what the loop has seen of it.         *)
SyncOK ==
  LET s == position[SyncPoints]
  IN  /\ phase = "open" => s = -1 /\ prevSyncTime = 0 /\ lastTimeStamp = 0
      /\ phase = "find" =>
           /\ s \in -1 .. SampleCount - 1 /\ Passed(s)
           /\ lastTimeStamp = Before(s + 1)
           /\ prevSyncTime <= Before(s + 1)
      /\ phase = "yield" => s \in VideoSyncs /\ Passed(s - 1)
      /\ phase = "remember" => s \in Samples /\ Passed(s)
      /\ phase \in {"yield", "remember"} =>
           prevSyncTime <= TimeStamp[s] /\ lastTimeStamp = Before(s)
      /\ phase = "decide" \/ IsInLoop =>
           /\ prevSyncTime <= syncTime
           /\ IF atLast
              THEN syncTime = TimeStamp[SampleCount - 1] /\ Passed(SampleCount - 1)
              ELSE /\ s \in VideoSyncs /\ Passed(s - 1)
                   /\ syncTime = TimeStamp[s] /\ lastTimeStamp = Before(s)
      /\ phase \in {"open", "find", "yield", "remember"} => ~atLast
      /\ phase = "open" \/ IsBetween \/ IsInLoop =>
           \E p \in VideoSyncs : prevSyncTime = TimeStamp[p]

(* The mode of the loop: skipping before the first sync point of the       *)
(* range, copying from there on, never beyond the first one behind it.     *)
RangeOK ==
  /\ phase = "open" => ~validSyncPointsFound
  /\ phase = "skip" => startTime > prevSyncTime /\ ~validSyncPointsFound
  /\ phase = "copy" => validSyncPointsFound
  /\ validSyncPointsFound => Syncs # {}
  /\ IsBetween \/ IsInLoop =>
       IF validSyncPointsFound
       THEN startTime <= prevSyncTime
       ELSE \A i \in Syncs : prevSyncTime <= TimeStamp[i]
  /\ IsInLoop => \A i \in VideoSyncs : endTime < TimeStamp[i] => syncTime <= TimeStamp[i]

(* How far each track has come: between two turns of the loop to the sync  *)
(* point before, in the loop to this one if the track is done.             *)
AllBefore(t, time)   == \A i \in 0 .. At(t) - 1 : SourceTime(t, i) < time
NotBefore(t, time)   == At(t) < CountOf(t) => time <= SourceTime(t, At(t))
Beyond(t, time)      == At(t) < CountOf(t) => time < SourceTime(t, At(t))

ProgressOK ==
  \A t \in Tracks : Opened(t) =>
    /\ phase = "open" => At(t) = 0
    /\ IsBetween =>
         IF validSyncPointsFound THEN Beyond(t, prevSyncTime)
         ELSE AllBefore(t, prevSyncTime) /\ NotBefore(t, prevSyncTime)
    /\ phase = "skip" => AllBefore(t, syncTime) /\ (Done(t) => NotBefore(t, syncTime))
    /\ phase = "copy" => (Done(t) => Beyond(t, syncTime))

(* What was copied: consecutive slices up to the enumerator, rebased by    *)
(* the same time stamp, from the first sync point of the range on.         *)
CopiedOK ==
  \A t \in Tracks :
    /\ copied[t] # <<>> => validSyncPointsFound
    /\ \A k \in DOMAIN copied[t] :
         /\ copied[t][k].slice = Base(t) + k - 1
         /\ copied[t][k].time = SourceTime(t, Base(t) + k - 1) - timeStart[t]
    /\ Opened(t) /\ validSyncPointsFound =>
         /\ \A i \in 0 .. Base(t) - 1 : SourceTime(t, i) < TimeStamp[FirstSync]
         /\ Base(t) < CountOf(t) => TimeStamp[FirstSync] <= SourceTime(t, Base(t))

(* The slices to come are not before the time stamps are rebased by.       *)
TimeStartOK ==
  \A t \in Tracks : Opened(t) =>
    \A i \in At(t) .. CountOf(t) - 1 : timeStart[t] <= SourceTime(t, i)

(* "Offset time stamping error" is never raised.                           *)
NeverFails == phase # "failed"

DriverInv ==
  /\ IInv /\ DriverTypeOK
  /\ LooksOK /\ SourcesOK /\ SyncOK /\ RangeOK /\ ProgressOK /\ CopiedOK /\ TimeStartOK
  /\ NeverFails /\ StopsAtSyncPoint /\ NothingIsMissing

-----------------------------------------------------------------------------
(* The order of the tracks, and of times.                                  *)
LEMMA OrderFacts ==
  /\ TrackOrder \in Seq(Tracks) /\ Len(TrackOrder) \in 1 .. 2
  /\ DOMAIN TrackOrder = 1 .. Len(TrackOrder)
  /\ \A k \in DOMAIN TrackOrder : TrackOrder[k] \in Tracks
  /\ \E k \in DOMAIN TrackOrder : TrackOrder[k] = "video"
  /\ \A j, k \in DOMAIN TrackOrder : TrackOrder[j] = TrackOrder[k] => j = k
<1>1. CASE TrackOrder = <<"video">>
  BY <1>1 DEF Tracks
<1>2. CASE TrackOrder = <<"video", "audio">>
  BY <1>2 DEF Tracks
<1>3. CASE TrackOrder = <<"audio", "video">>
  BY <1>3 DEF Tracks
<1> QED  BY <1>1, <1>2, <1>3, TrackOrderAssumption

(* Times that do not decrease from one sample to the next do not decrease  *)
(* over more samples: the first one that would be earlier has a sample     *)
(* before it.                                                              *)
LEMMA NonDecreasing ==
  ASSUME NEW n \in Nat, NEW f \in [0 .. n -> Nat],
         \A i \in 0 .. n - 1 : f[i] <= f[i + 1]
  PROVE  \A i, j \in 0 .. n : i <= j => f[i] <= f[j]
<1> SUFFICES ASSUME NEW i \in 0 .. n, NEW j \in 0 .. n, i <= j, ~(f[i] <= f[j])
             PROVE  FALSE
  OBVIOUS
<1> DEFINE Earlier == {k \in 0 .. n : i <= k /\ f[k] < f[i]}
<1>1. Earlier \subseteq Nat /\ j \in Earlier
  OBVIOUS
<1>2. PICK m \in Earlier : \A k \in Earlier : m <= k
  <2> HIDE DEF Earlier
  <2> QED  BY <1>1, MinOfNats
<1>3. m > i /\ m - 1 \in 0 .. n - 1
  BY <1>2
<1>4. m - 1 \notin Earlier
  BY <1>2
<1>5. f[m - 1] <= f[m] /\ f[m - 1] \in Nat /\ f[m] \in Nat /\ f[i] \in Nat
  <2>1. (m - 1) + 1 = m
    OBVIOUS
  <2> QED  BY <1>3, <2>1
<1> QED  BY <1>3, <1>4, <1>5

LEMMA TimesOrdered ==
  ASSUME NEW t \in Tracks
  PROVE  /\ CountOf(t) \in Nat \ {0}
         /\ \A i \in 0 .. CountOf(t) : SourceTime(t, i) \in Nat
         /\ \A i, j \in 0 .. CountOf(t) : i <= j => SourceTime(t, i) <= SourceTime(t, j)
<1>1. CASE t = "video"
  <2>1. \A i, j \in 0 .. SampleCount : i <= j => TimeStamp[i] <= TimeStamp[j]
    BY TimeStampAssumption, SampleCountAssumption, NonDecreasing DEF Samples
  <2> QED  BY <1>1, <2>1, TimeStampAssumption, SampleCountAssumption DEF CountOf, SourceTime
<1>2. CASE t = "audio"
  <2>1. \A i, j \in 0 .. AudioCount : i <= j => AudioTime[i] <= AudioTime[j]
    BY AudioAssumption, NonDecreasing
  <2> QED  BY <1>2, <2>1, AudioAssumption DEF CountOf, SourceTime
<1> QED  BY <1>1, <1>2 DEF Tracks

LEMMA VideoTimes ==
  /\ SampleCount \in Nat /\ SampleCount >= 2
  /\ \A i \in 0 .. SampleCount : TimeStamp[i] \in Nat
  /\ \A i, j \in 0 .. SampleCount : i <= j => TimeStamp[i] <= TimeStamp[j]
  /\ TimeStamp[0] = 0 /\ 0 \in VideoSyncs
  /\ VideoSyncs \subseteq 0 .. SampleCount - 1
<1>1. "video" \in Tracks /\ CountOf("video") = SampleCount
  BY DEF Tracks, CountOf
<1>2. \A i : SourceTime("video", i) = TimeStamp[i]
  BY DEF SourceTime
<1>3. SampleCount \in Nat /\ SampleCount >= 2
  BY BlockSizeAssumption, SampleCountAssumption
<1> QED
  BY <1>1, <1>2, <1>3, TimesOrdered, StartAssumption DEF VideoSyncs, Samples

(* The first sync point of the range.                                      *)
LEMMA FirstSyncFacts ==
  ASSUME Syncs # {}
  PROVE  FirstSync \in Syncs /\ \A i \in Syncs : TimeStamp[FirstSync] <= TimeStamp[i]
<1>1. Syncs \subseteq Nat /\ Syncs \subseteq 0 .. SampleCount
  BY SampleCountAssumption DEF Syncs, Samples
<1>2. FirstSync \in Syncs /\ \A i \in Syncs : FirstSync <= i
  BY <1>1, MinOfNats DEF FirstSync
<1> QED  BY <1>1, <1>2, VideoTimes
-----------------------------------------------------------------------------
LEMMA IndexAgainKeeps ==
  ASSUME IInv, NEW e \in Enumerators, IndexAgain(e), UNCHANGED extraCalls
  PROVE  /\ IInv' /\ UNCHANGED position
         /\ answer'.index = position[e]
         /\ position[e] < SampleCount => ~Empty(cache'[readCache'])
<1>1. position[e] \in Nat /\ PrepareSampleInfo(position[e]) /\ UNCHANGED <<position, ended, passes>>
  BY DEF IndexAgain, clientVars, IInv, TypeOK
<1>2. IInv'
  BY <1>1, RequestPreserves DEF IInv, TypeOK
<1> QED  BY <1>1, <1>2, RequestAnswers

LEMMA ForwardKeeps ==
  ASSUME IInv, NEW e \in Enumerators, NEW current, Forward(e, current),
         ~Empty(cache[readCache]), position[e] \in -1 .. SampleCount - 1,
         held \in [Enumerators -> [slice : Int, time : Nat]]
  PROVE  /\ IInv'
         /\ position' = [position EXCEPT ![e] = @ + 1]
         /\ answer'.index = position'[e]
         /\ ended'[e] <=> position'[e] = SampleCount
         /\ held' = [held EXCEPT ![e] = SliceOf(position'[e])]
         /\ held' \in [Enumerators -> [slice : Int, time : Nat]]
         /\ position'[e] < SampleCount => ~Empty(cache'[readCache'])
<1>1. StepForward(e) /\ held' = [held EXCEPT ![e] = IF answer'.served THEN SliceOf(position'[e]) ELSE NoSlice]
  BY DEF Forward, StopOnEmptyList
<1>2. /\ position \in [Enumerators -> Nat \cup {-1}] /\ ended \in [Enumerators -> BOOLEAN]
      /\ passes \in [Enumerators -> Nat] /\ extraCalls \in 0 .. MaxExtraCalls
  BY DEF IInv, TypeOK
<1>3. /\ position' = [position EXCEPT ![e] = @ + 1] /\ position'[e] = position[e] + 1
      /\ PrepareSampleInfo(position[e] + 1) /\ position[e] + 1 \in 0 .. SampleCount
      /\ ended' = [ended EXCEPT ![e] = ~answer'.served]
      /\ UNCHANGED <<passes, extraCalls>>
  BY <1>1, <1>2, SampleCountAssumption DEF StepForward
<1>4. /\ answer'.index = position[e] + 1
      /\ answer'.served <=> position[e] + 1 < SampleCount
      /\ position[e] + 1 < SampleCount => ~Empty(cache'[readCache'])
  BY <1>3, RequestAnswers
<1>5. answer'.served \in BOOLEAN
  BY <1>3, RequestPreserves
<1>6. position' \in [Enumerators -> Nat \cup {-1}] /\ ended' \in [Enumerators -> BOOLEAN]
  BY <1>2, <1>3, <1>5
<1>7. IInv'
  BY <1>2, <1>3, <1>6, RequestPreserves DEF IInv, TypeOK
<1>8. ended'[e] <=> position'[e] = SampleCount
  <2>1. ended'[e] = ~answer'.served
    BY <1>2, <1>3
  <2>2. position[e] + 1 < SampleCount <=> ~(position[e] + 1 = SampleCount)
    BY <1>3, SampleCountAssumption
  <2> QED  BY <1>3, <1>4, <1>5, <2>1, <2>2
<1>9. (IF answer'.served THEN SliceOf(position'[e]) ELSE NoSlice) = SliceOf(position'[e])
  BY <1>3, <1>4 DEF SliceOf
<1>10. SliceOf(position'[e]) \in [slice : Int, time : Nat]
  BY <1>3, VideoTimes DEF SliceOf, NoSlice
<1> QED  BY <1>1, <1>3, <1>4, <1>7, <1>8, <1>9, <1>10

(* MoveNext of a source track, from a list that is not empty: the other    *)
(* track and the enumerator of the sync points stay where they are.        *)
LEMMA SourceMoves ==
  ASSUME IInv, NEW t \in Tracks, NEW current, ForwardSource(t, current),
         t = "video" => ~Empty(cache[readCache]),
         At(t) \in -1 .. CountOf(t) - 1, audioAt \in -1 .. AudioCount,
         held \in [Enumerators -> [slice : Int, time : Nat]]
  PROVE  /\ IInv' /\ At(t)' = At(t) + 1
         /\ \A u \in Tracks \ {t} : At(u)' = At(u)
         /\ position'[SyncPoints] = position[SyncPoints]
         /\ MovedSource(t) <=> At(t)' < CountOf(t)
         /\ audioAt' \in -1 .. AudioCount
         /\ held' \in [Enumerators -> [slice : Int, time : Nat]]
         /\ t = "video" =>
              /\ held'[Source] = SliceOf(position'[Source])
              /\ answer'.index = position'[Source]
              /\ position'[Source] < SampleCount => ~Empty(cache'[readCache'])
         /\ t # "video" => UNCHANGED <<vars, held>>
<1>1. /\ Source \in Enumerators /\ SyncPoints \in Enumerators /\ Source # SyncPoints
      /\ position \in [Enumerators -> Nat \cup {-1}]
  BY EnumeratorsAssumption DEF IInv, TypeOK
<1>2. CASE t = "video"
  <2>1. Forward(Source, current) /\ audioAt' = audioAt /\ position[Source] \in -1 .. SampleCount - 1
    BY <1>2 DEF ForwardSource, At, CountOf
  <2>2. /\ IInv'
        /\ position' = [position EXCEPT ![Source] = @ + 1]
        /\ answer'.index = position'[Source]
        /\ ended'[Source] <=> position'[Source] = SampleCount
        /\ held' = [held EXCEPT ![Source] = SliceOf(position'[Source])]
        /\ held' \in [Enumerators -> [slice : Int, time : Nat]]
        /\ position'[Source] < SampleCount => ~Empty(cache'[readCache'])
    BY <1>1, <1>2, <2>1, ForwardKeeps
  <2>3. position'[Source] = position[Source] + 1 /\ position'[SyncPoints] = position[SyncPoints]
    BY <1>1, <2>2
  <2>4. At(t)' = position'[Source] /\ CountOf(t) = SampleCount /\ (MovedSource(t) <=> ~ended'[Source])
    BY <1>2 DEF At, CountOf, MovedSource
  <2>5. \A u \in Tracks \ {t} : At(u)' = At(u)
    BY <1>2, <2>1 DEF At
  <2>6. position'[Source] \in 0 .. SampleCount
    BY <2>1, <2>3, VideoTimes
  <2>7. At(t)' = At(t) + 1
    BY <1>2, <2>3 DEF At
  <2>8. MovedSource(t) <=> At(t)' < CountOf(t)
    <3>1. position'[Source] < SampleCount <=> ~(position'[Source] = SampleCount)
      BY <2>6, VideoTimes
    <3> QED  BY <2>2, <2>4, <3>1
  <2>9. held'[Source] = SliceOf(position'[Source])
    BY <1>1, <2>2
  <2> QED  BY <1>2, <2>1, <2>2, <2>3, <2>5, <2>7, <2>8, <2>9
<1>3. CASE t # "video"
  <2>1. audioAt' = audioAt + 1 /\ UNCHANGED <<vars, held>> /\ t = "audio"
    BY <1>3 DEF ForwardSource, Tracks
  <2>2. /\ UNCHANGED TypeOK /\ UNCHANGED cache /\ UNCHANGED endIndex /\ UNCHANGED AnswersMatchTrack
        /\ UNCHANGED position
    BY <2>1 DEF vars, managerVars, clientVars, TypeOK, AnswersMatchTrack, Holds
  <2>3. IInv'
    BY <2>2 DEF IInv, CacheInTrack
  <2>4. At(t)' = audioAt + 1 /\ At(t) = audioAt /\ CountOf(t) = AudioCount
    BY <2>1 DEF At, CountOf
  <2>5. \A u \in Tracks \ {t} : At(u)' = At(u)
    BY <2>1, <2>2 DEF At, Tracks
  <2>6. MovedSource(t) <=> At(t)' < CountOf(t)
    BY <1>3, <2>1, <2>4 DEF MovedSource
  <2>7. audioAt' \in -1 .. AudioCount
    BY <2>1, <2>4, AudioAssumption
  <2> QED  BY <1>3, <2>1, <2>2, <2>3, <2>4, <2>5, <2>6, <2>7
<1> QED  BY <1>2, <1>3

(* In the loop over the tracks, when its looks are done: the time stamp    *)
(* seen is that of the slice the enumerator is at, and Current is it.      *)
LEMMA TurnFacts ==
  ASSUME DriverInv, IsInLoop, looks = 0
  PROVE  /\ Track \in Tracks /\ turn \in DOMAIN TrackOrder /\ Opened(Track)
         /\ At(Track) \in 0 .. CountOf(Track)
         /\ StampOf(Track) = SourceTime(Track, At(Track))
         /\ CurrentOf(Track) # NoSlice <=> At(Track) < CountOf(Track)
         /\ At(Track) < CountOf(Track) =>
              CurrentOf(Track) = [slice |-> At(Track), time |-> SourceTime(Track, At(Track))]
         /\ Track = "video" /\ At(Track) < CountOf(Track) => ~Empty(cache[readCache])
<1>1. Track \in Tracks /\ turn \in DOMAIN TrackOrder
  BY OrderFacts DEF DriverInv, DriverTypeOK, Track
<1>2. Opened(Track)
  BY <1>1 DEF Opened, Track, IsInLoop
<1>3. At(Track) \in 0 .. CountOf(Track) /\ (Track = "video" => held[Source] = SliceOf(position[Source]))
  BY <1>1, <1>2 DEF DriverInv, SourcesOK
<1>4. CASE Track = "video"
  <2>1. answer.index = position[Source] /\ position[Source] \in 0 .. SampleCount
    BY <1>3, <1>4 DEF DriverInv, LooksOK, At, CountOf
  <2>2. /\ answer.served <=> position[Source] < SampleCount
        /\ answer.served => Holds(cache[readCache], position[Source])
    BY <2>1 DEF DriverInv, IInv, AnswersMatchTrack
  <2>3. StampOf(Track) = TimeStamp[position[Source]]
    BY <1>4, <2>1, <2>2, VideoTimes DEF StampOf, StampSeen
  <2>4. CurrentOf(Track) = SliceOf(position[Source])
    BY <1>3, <1>4 DEF CurrentOf
  <2>5. position[Source] # -1
    BY <2>1
  <2>6. answer.served => ~Empty(cache[readCache])
    BY <2>1, <2>2 DEF Holds, Empty, DriverInv, IInv, TypeOK, Buffer
  <2> QED
    BY <1>1, <1>2, <1>3, <1>4, <2>1, <2>2, <2>3, <2>4, <2>5, <2>6
       DEF At, CountOf, SourceTime, SliceOf, NoSlice
<1>5. CASE Track = "audio"
  <2>1. At(Track) = audioAt /\ CountOf(Track) = AudioCount /\ SourceTime(Track, audioAt) = AudioTime[audioAt]
    BY <1>5 DEF At, CountOf, SourceTime
  <2>2. StampOf(Track) = AudioTime[audioAt] /\ CurrentOf(Track) = AudioSliceOf(audioAt)
    BY <1>5 DEF StampOf, CurrentOf
  <2>3. audioAt # -1
    BY <1>3, <2>1
  <2> QED
    BY <1>1, <1>2, <1>3, <1>5, <2>1, <2>2, <2>3 DEF AudioSliceOf, NoSlice
<1> QED  BY <1>1, <1>4, <1>5 DEF Tracks
-----------------------------------------------------------------------------
LEMMA InitDriverInv == DriverInit => DriverInv
<1> SUFFICES ASSUME DriverInit PROVE DriverInv
  OBVIOUS
<1>1. IInv
  BY InitIInv DEF DriverInit
<1>2. /\ phase = "open" /\ turn = 1 /\ looks = 0 /\ audioAt = -1
      /\ syncTime = 0 /\ prevSyncTime = 0 /\ lastTimeStamp = 0
      /\ atLast = FALSE /\ validSyncPointsFound = FALSE
      /\ held = [e \in Enumerators |-> NoSlice]
      /\ timeStart = [t \in Tracks |-> 0] /\ copied = [t \in Tracks |-> <<>>]
      /\ position = [e \in Enumerators |-> -1] /\ readCache = 0
  BY DEF DriverInit, Init
<1>3. startTime \in Nat /\ endTime \in Nat
  <2>1. PICK r \in Ranges : startTime = r[1] /\ endTime = EndOf(r)
    BY DEF DriverInit
  <2>2. r[1] \in Nat /\ r[2] \in Nat
    BY RangesAssumption
  <2>3. SourceDuration \in Nat
    BY VideoTimes, AudioAssumption DEF SourceDuration
  <2> QED  BY <2>1, <2>2, <2>3 DEF EndOf
<1>4. DriverTypeOK
  <2>1. turn \in DOMAIN TrackOrder
    BY <1>2, OrderFacts
  <2>2. held \in [Enumerators -> [slice : Int, time : Nat]]
    BY <1>2 DEF NoSlice
  <2>3. copied \in [Tracks -> Seq([slice : Nat, time : Nat])]
    BY <1>2
  <2>4. audioAt \in -1 .. AudioCount
    BY <1>2, AudioAssumption
  <2>5. timeStart \in [Tracks -> Nat]
    BY <1>2
  <2>6. {startTime, endTime, syncTime, prevSyncTime, lastTimeStamp} \subseteq Nat
    BY <1>2, <1>3
  <2>7. phase \in Phases /\ looks \in 0 .. 3
    BY <1>2 DEF Phases
  <2>8. atLast \in BOOLEAN /\ validSyncPointsFound \in BOOLEAN
    BY <1>2
  <2> QED  BY <2>1, <2>2, <2>3, <2>4, <2>5, <2>6, <2>7, <2>8 DEF DriverTypeOK
<1>5. ~Empty(cache[0])
  <2>1. ReadAheadByTime[0].count >= 2
    BY DEF DriverInit, Init, BatchGivesBlockSize, BlockSizeDefined
  <2>2. PICK tie \in TieOrders(ReadAheadByTime) : cache = Rescored(ReadAheadByTime, tie, 0, TRUE)
    BY DEF DriverInit, Init
  <2>3. 0 \in Buffers
    BY DEF Buffers, CacheBufCount
  <2>4. cache[0].count = ReadAheadByTime[0].count
    <3>1. CacheInTrack(ReadAheadByTime)
      BY ReadAheadByTimeInTrack
    <3>2. \A sequential : \A k \in Buffers :
            Rescored(ReadAheadByTime, tie, 0, sequential)[k].count = ReadAheadByTime[k].count
      BY <3>1, RescoredHolds
    <3> QED  BY <2>2, <2>3, <3>2, Zenon
  <2> QED  BY <2>1, <2>4 DEF Empty
<1>6. ~IsInLoop /\ ~IsBetween /\ \A t \in Tracks : ~Opened(t)
  BY <1>2, OrderFacts DEF IsInLoop, IsBetween, Opened
<1>7. \A t \in Tracks : At(t) = -1 /\ copied[t] = <<>> /\ timeStart[t] = 0
  BY <1>2, EnumeratorsAssumption DEF At
<1>8. LooksOK
  BY <1>2, <1>5, <1>6 DEF LooksOK
<1>9. SourcesOK
  BY <1>6, <1>7 DEF SourcesOK
<1>10. SyncOK
  BY <1>2, <1>6, VideoTimes, EnumeratorsAssumption DEF SyncOK
<1>11. RangeOK /\ ProgressOK
  BY <1>2, <1>6 DEF RangeOK, ProgressOK
<1>12. CopiedOK /\ TimeStartOK
  BY <1>6, <1>7 DEF CopiedOK, TimeStartOK
<1>13. NeverFails /\ NothingIsMissing
  BY <1>2 DEF NeverFails, NothingIsMissing
<1>14. StopsAtSyncPoint
  BY <1>7 DEF StopsAtSyncPoint
<1> QED
  BY <1>1, <1>4, <1>8, <1>9, <1>10, <1>11, <1>12, <1>13, <1>14 DEF DriverInv

(* A step of the cache alone leaves what the driver knows as it is.        *)
LEMMA DriverFrame ==
  ASSUME DriverInv, IInv', LooksOK', looks' \in 0 .. 3,
         UNCHANGED <<position, held, audioAt, rangeVars, syncVars, outputVars, phase, turn>>
  PROVE  DriverInv'
<1>1. /\ UNCHANGED <<position, held, audioAt, startTime, endTime, syncTime, prevSyncTime>>
      /\ UNCHANGED <<lastTimeStamp, atLast, validSyncPointsFound, timeStart, copied, phase, turn>>
  BY DEF rangeVars, syncVars, outputVars
<1>2. DriverTypeOK'
  BY <1>1 DEF DriverInv, DriverTypeOK
<1>3. SourcesOK'
  BY <1>1 DEF DriverInv, SourcesOK, At, Opened, Base
<1>4. SyncOK' /\ RangeOK'
  <2>1. SyncOK'
    BY <1>1 DEF DriverInv, SyncOK, Passed, Before, IsBetween, IsInLoop
  <2>2. RangeOK'
    BY <1>1 DEF DriverInv, RangeOK, IsBetween, IsInLoop, Syncs
  <2> QED  BY <2>1, <2>2
<1>5. ProgressOK'
  BY <1>1 DEF DriverInv, ProgressOK, At, Opened, Done, AllBefore, NotBefore, Beyond, IsBetween
<1>6. CopiedOK' /\ TimeStartOK'
  <2>1. \A t \in Tracks : At(t)' = At(t) /\ Base(t)' = Base(t) /\ (Opened(t)' <=> Opened(t))
    BY <1>1 DEF At, Base, Opened
  <2>2. FirstSync' = FirstSync
    BY <1>1 DEF FirstSync, Syncs
  <2>3. CopiedOK'
    BY <1>1, <2>1, <2>2 DEF DriverInv, CopiedOK
  <2>4. TimeStartOK'
    BY <1>1, <2>1 DEF DriverInv, TimeStartOK
  <2> QED  BY <2>3, <2>4
<1>7. NeverFails' /\ NothingIsMissing' /\ StopsAtSyncPoint'
  BY <1>1 DEF DriverInv, NeverFails, NothingIsMissing, StopsAtSyncPoint, FirstSync, Syncs
<1> QED
  BY <1>2, <1>3, <1>4, <1>5, <1>6, <1>7 DEF DriverInv

LEMMA StutterKeeps == DriverInv /\ UNCHANGED driverVars => DriverInv'
<1> SUFFICES ASSUME DriverInv, UNCHANGED driverVars PROVE DriverInv'
  OBVIOUS
<1>1. UNCHANGED <<vars, held, audioAt, rangeVars, syncVars, outputVars, phase, turn, looks>>
  BY DEF driverVars, enumeratorVars
<1>2. IInv' /\ UNCHANGED position
  BY <1>1 DEF DriverInv, IInv, TypeOK, CacheInTrack, AnswersMatchTrack, Holds, vars, managerVars, clientVars
<1>3. LooksOK' /\ looks' \in 0 .. 3
  BY <1>1 DEF DriverInv, DriverTypeOK, LooksOK, IsInLoop, Track, vars, managerVars, clientVars
<1> QED  BY <1>1, <1>2, <1>3, DriverFrame

LEMMA LookKeeps == DriverInv /\ Look => DriverInv'
<1> SUFFICES ASSUME DriverInv, Look PROVE DriverInv'
  OBVIOUS
<1>1. /\ looks > 0 /\ looks' = looks - 1 /\ IndexAgain(Looking)
      /\ UNCHANGED <<rangeVars, syncVars, outputVars, held, audioAt, extraCalls, phase, turn>>
  BY DEF Look
<1>2. Looking \in Enumerators
  BY EnumeratorsAssumption DEF Looking
<1>3. IInv' /\ UNCHANGED position /\ answer'.index = position[Looking]
  BY <1>1, <1>2, IndexAgainKeeps DEF DriverInv
<1>4. looks \in 0 .. 3 /\ looks' \in 0 .. 3
  BY <1>1 DEF DriverInv, DriverTypeOK
<1>5. phase \notin {"open", "find", "decide"} /\ UNCHANGED phase /\ UNCHANGED turn
  BY <1>1, <1>4 DEF DriverInv, LooksOK
<1>6. phase \in {"yield", "remember"} => Looking = SyncPoints
  BY DEF Looking
<1>7. IsInLoop => Looking = Source
  BY DEF Looking, IsInLoop
<1>8. LooksOK'
  BY <1>3, <1>5, <1>6, <1>7 DEF LooksOK, IsInLoop
<1> QED  BY <1>1, <1>3, <1>4, <1>8, DriverFrame

(* EnumerateSyncPoints: the enumerator of the source tracks, and what was  *)
(* copied, stay as they are.                                               *)
LEMMA SourcesFrame ==
  ASSUME DriverInv, IsBetween, IsBetween',
         \A t \in Tracks : At(t)' = At(t), held'[Source] = held[Source],
         position'[Source] = position[Source],
         UNCHANGED <<rangeVars, outputVars, prevSyncTime, validSyncPointsFound, turn>>
  PROVE  /\ SourcesOK' /\ RangeOK' /\ ProgressOK' /\ CopiedOK' /\ TimeStartOK'
         /\ NeverFails' /\ StopsAtSyncPoint' /\ NothingIsMissing'
<1>1. /\ UNCHANGED <<startTime, endTime, prevSyncTime, validSyncPointsFound, timeStart, copied, turn>>
      /\ phase # "open" /\ phase' # "open" /\ ~IsInLoop /\ ~IsInLoop'
      /\ phase' \notin {"skip", "copy", "finished", "nothing", "failed"}
  BY DEF rangeVars, outputVars, IsBetween, IsInLoop
<1>2. \A t \in Tracks : Opened(t)' <=> Opened(t)
  BY <1>1 DEF Opened
<1>3. \A t \in Tracks : Base(t)' = Base(t)
  BY <1>1 DEF Base
<1>4. SourcesOK'
  BY <1>1, <1>2, <1>3 DEF DriverInv, SourcesOK
<1>5. RangeOK'
  BY <1>1 DEF DriverInv, RangeOK, Syncs
<1>6. ProgressOK'
  BY <1>1, <1>2 DEF DriverInv, ProgressOK, AllBefore, NotBefore, Beyond
<1>7. CopiedOK' /\ TimeStartOK'
  BY <1>1, <1>2, <1>3 DEF DriverInv, CopiedOK, TimeStartOK, FirstSync, Syncs
<1>8. NeverFails' /\ NothingIsMissing' /\ StopsAtSyncPoint'
  BY <1>1 DEF DriverInv, NeverFails, NothingIsMissing, StopsAtSyncPoint, Syncs
<1> QED  BY <1>4, <1>5, <1>6, <1>7, <1>8

LEMMA RememberKeeps == DriverInv /\ RememberTimeStamp => DriverInv'
<1> SUFFICES ASSUME DriverInv, RememberTimeStamp PROVE DriverInv'
  OBVIOUS
<1> DEFINE s == position[SyncPoints]
<1>1. /\ phase = "remember" /\ looks = 0 /\ phase' = "find"
      /\ lastTimeStamp' = IF StampSeen > 0 THEN StampSeen ELSE lastTimeStamp
      /\ UNCHANGED <<vars, held, audioAt, rangeVars, outputVars, syncTime, prevSyncTime>>
      /\ UNCHANGED <<atLast, validSyncPointsFound, turn, looks>>
  BY DEF RememberTimeStamp, enumeratorVars
<1>2. UNCHANGED <<cache, readCache, answer, position, ended, held, audioAt>>
  BY <1>1 DEF vars, managerVars, clientVars
<1>3. IInv'
  BY <1>1 DEF DriverInv, IInv, TypeOK, CacheInTrack, AnswersMatchTrack, Holds, vars, managerVars, clientVars
<1>4. s \in Samples /\ answer.index = s /\ Passed(s) /\ prevSyncTime <= TimeStamp[s]
      /\ lastTimeStamp = Before(s) /\ ~atLast
      /\ \E p \in VideoSyncs : prevSyncTime = TimeStamp[p]
  BY <1>1 DEF DriverInv, LooksOK, SyncOK, IsBetween
<1>5. answer.served /\ Holds(cache[readCache], s)
  BY <1>4, SampleCountAssumption DEF DriverInv, IInv, AnswersMatchTrack, Samples
<1>6. ~Empty(cache[readCache])
  BY <1>4, <1>5 DEF Holds, Empty, DriverInv, IInv, TypeOK, Buffer, Samples
<1>7. StampSeen = TimeStamp[s] /\ TimeStamp[s] \in Nat /\ s \in Nat /\ s < SampleCount
  BY <1>4, <1>5, VideoTimes DEF StampSeen, Samples
<1>8. lastTimeStamp' = TimeStamp[s]
  <2>1. CASE TimeStamp[s] > 0
    BY <1>1, <1>7, <2>1
  <2>2. CASE TimeStamp[s] = 0
    <3>1. Before(s) = 0
      <4>1. CASE s = 0
        BY <4>1 DEF Before
      <4>2. CASE s > 0
        <5>1. TimeStamp[s - 1] <= TimeStamp[s] /\ TimeStamp[s - 1] \in Nat
          BY <1>7, <4>2, VideoTimes
        <5> QED  BY <1>7, <2>2, <4>2, <5>1 DEF Before
      <4> QED  BY <1>7, <4>1, <4>2
    <3> QED  BY <1>1, <1>4, <1>7, <2>2, <3>1
  <2> QED  BY <1>7, <2>1, <2>2
<1>9. TimeStamp[s] = Before(s + 1) /\ s \in -1 .. SampleCount - 1
  BY <1>7, VideoTimes DEF Before
<1>10. SyncOK'
  BY <1>1, <1>2, <1>4, <1>8, <1>9 DEF SyncOK, Passed, IsInLoop
<1>11. LooksOK'
  BY <1>1, <1>2, <1>6 DEF LooksOK, IsInLoop
<1>12. DriverTypeOK'
  <2>1. phase' \in Phases /\ lastTimeStamp' \in Nat /\ UNCHANGED <<rangeVars, outputVars>>
    BY <1>1, <1>7, <1>8 DEF Phases
  <2> QED
    BY <1>1, <2>1 DEF DriverInv, DriverTypeOK, rangeVars, outputVars
<1>13. IsBetween /\ IsBetween' /\ \A t \in Tracks : At(t)' = At(t)
  BY <1>1, <1>2 DEF IsBetween, At
<1> QED
  BY <1>1, <1>2, <1>3, <1>10, <1>11, <1>12, <1>13, SourcesFrame DEF DriverInv

LEMMA YieldKeeps == DriverInv /\ YieldSyncPoint => DriverInv'
<1> SUFFICES ASSUME DriverInv, YieldSyncPoint PROVE DriverInv'
  OBVIOUS
<1> DEFINE s == position[SyncPoints]
<1>1. /\ phase = "yield" /\ looks = 0 /\ phase' = "decide" /\ syncTime' = StampSeen
      /\ UNCHANGED <<vars, held, audioAt, rangeVars, outputVars, prevSyncTime, lastTimeStamp>>
      /\ UNCHANGED <<atLast, validSyncPointsFound, turn, looks>>
  BY DEF YieldSyncPoint, enumeratorVars
<1>2. UNCHANGED <<cache, readCache, answer, position, ended, held, audioAt>>
  BY <1>1 DEF vars, managerVars, clientVars
<1>3. IInv'
  BY <1>1 DEF DriverInv, IInv, TypeOK, CacheInTrack, AnswersMatchTrack, Holds, vars, managerVars, clientVars
<1>4. s \in VideoSyncs /\ answer.index = s /\ Passed(s - 1) /\ prevSyncTime <= TimeStamp[s]
      /\ lastTimeStamp = Before(s) /\ ~atLast
      /\ \E p \in VideoSyncs : prevSyncTime = TimeStamp[p]
  BY <1>1 DEF DriverInv, LooksOK, SyncOK, IsBetween
<1>5. answer.served /\ TimeStamp[s] \in Nat
  <2>1. s \in 0 .. SampleCount - 1
    BY <1>4, VideoTimes
  <2>2. s >= 0 /\ s < SampleCount /\ TimeStamp[s] \in Nat
    BY <2>1, VideoTimes
  <2> QED  BY <1>4, <2>2 DEF DriverInv, IInv, AnswersMatchTrack
<1>6. syncTime' = TimeStamp[s] /\ TimeStamp[s] \in Nat
  BY <1>1, <1>4, <1>5 DEF StampSeen
<1>7. SyncOK'
  BY <1>1, <1>2, <1>4, <1>6 DEF SyncOK, Passed, IsInLoop
<1>8. LooksOK'
  BY <1>1 DEF LooksOK, IsInLoop
<1>9. DriverTypeOK'
  <2>1. phase' \in Phases /\ syncTime' \in Nat /\ UNCHANGED <<rangeVars, outputVars>>
    BY <1>1, <1>6 DEF Phases
  <2> QED
    BY <1>1, <2>1 DEF DriverInv, DriverTypeOK, rangeVars, outputVars
<1>10. IsBetween /\ IsBetween' /\ \A t \in Tracks : At(t)' = At(t)
  BY <1>1, <1>2 DEF IsBetween, At
<1> QED
  BY <1>1, <1>2, <1>3, <1>7, <1>8, <1>9, <1>10, SourcesFrame DEF DriverInv

LEMMA NextSliceKeeps == DriverInv /\ NextVideoSlice => DriverInv'
<1> SUFFICES ASSUME DriverInv, NextVideoSlice PROVE DriverInv'
  OBVIOUS
<1> DEFINE s == position[SyncPoints]
<1>1. /\ phase = "find" /\ Forward(SyncPoints, held[SyncPoints])
      /\ UNCHANGED <<rangeVars, outputVars, prevSyncTime, lastTimeStamp, validSyncPointsFound, audioAt, turn>>
  BY DEF NextVideoSlice
<1>2. /\ s \in -1 .. SampleCount - 1 /\ Passed(s) /\ lastTimeStamp = Before(s + 1)
      /\ prevSyncTime <= Before(s + 1) /\ ~atLast /\ looks = 0 /\ ~Empty(cache[readCache])
      /\ \E p \in VideoSyncs : prevSyncTime = TimeStamp[p]
  BY <1>1 DEF DriverInv, LooksOK, SyncOK, IsBetween
<1>3. /\ SyncPoints \in Enumerators /\ Source \in Enumerators /\ SyncPoints # Source
      /\ position \in [Enumerators -> Nat \cup {-1}]
      /\ held \in [Enumerators -> [slice : Int, time : Nat]]
  BY EnumeratorsAssumption DEF DriverInv, DriverTypeOK, IInv, TypeOK
<1>4. /\ IInv'
      /\ position' = [position EXCEPT ![SyncPoints] = @ + 1]
      /\ answer'.index = position'[SyncPoints]
      /\ ended'[SyncPoints] <=> position'[SyncPoints] = SampleCount
      /\ held' = [held EXCEPT ![SyncPoints] = SliceOf(position'[SyncPoints])]
      /\ held' \in [Enumerators -> [slice : Int, time : Nat]]
  BY <1>1, <1>2, <1>3, ForwardKeeps DEF DriverInv
<1>5. /\ s' = s + 1 /\ position'[Source] = position[Source]
      /\ held'[Source] = held[Source] /\ held'[SyncPoints] = SliceOf(s')
  BY <1>3, <1>4
<1>6. \A t \in Tracks : At(t)' = At(t)
  BY <1>1, <1>5 DEF At
<1>7. {startTime, endTime, prevSyncTime, lastTimeStamp} \subseteq Nat /\ prevSyncTime' = prevSyncTime
      /\ Before(s') <= TimeStamp[s'] /\ TimeStamp[s'] \in Nat /\ Before(s') \in Nat
  <2>1. s' \in 0 .. SampleCount
    BY <1>2, <1>5, VideoTimes
  <2>2. CASE s' = 0
    BY <1>1, <2>2, VideoTimes DEF Before, DriverInv, DriverTypeOK
  <2>3. CASE s' > 0
    <3>1. s' - 1 \in 0 .. SampleCount /\ s' - 1 <= s'
      BY <2>1, <2>3, VideoTimes
    <3>2. TimeStamp[s' - 1] <= TimeStamp[s'] /\ TimeStamp[s' - 1] \in Nat /\ TimeStamp[s'] \in Nat
      BY <2>1, <3>1, VideoTimes
    <3>3. Before(s') = TimeStamp[s' - 1]
      BY <2>1, <2>3 DEF Before
    <3>4. {startTime, endTime, prevSyncTime, lastTimeStamp} \subseteq Nat /\ prevSyncTime' = prevSyncTime
      BY <1>1 DEF DriverInv, DriverTypeOK
    <3> QED  BY <3>2, <3>3, <3>4
  <2> QED  BY <2>1, <2>2, <2>3
<1>8. CASE ended'[SyncPoints]
  <2>1. /\ syncTime' = lastTimeStamp /\ atLast' = TRUE /\ phase' = "decide" /\ looks' = 0
    BY <1>2, <1>8 DEF NextVideoSlice
  <2>2. s = SampleCount - 1 /\ Before(s + 1) = TimeStamp[SampleCount - 1]
    BY <1>2, <1>4, <1>5, <1>8, VideoTimes DEF Before
  <2>3. Passed(SampleCount - 1)' /\ syncTime' = TimeStamp[SampleCount - 1] /\ prevSyncTime' <= syncTime'
    BY <1>2, <1>7, <2>1, <2>2 DEF Passed
  <2>4. SyncOK'
    BY <1>2, <1>7, <2>1, <2>3 DEF SyncOK, IsInLoop
  <2>5. LooksOK'
    BY <2>1 DEF LooksOK, IsInLoop
  <2>6. DriverTypeOK'
    <3>1. phase' \in Phases /\ atLast' \in BOOLEAN /\ looks' \in 0 .. 3 /\ syncTime' \in Nat
      BY <1>7, <2>1 DEF Phases
    <3> QED
      BY <1>1, <1>4, <3>1 DEF DriverInv, DriverTypeOK, rangeVars, outputVars
  <2>7. IsBetween /\ IsBetween'
    BY <1>1, <2>1 DEF IsBetween
  <2> QED
    BY <1>1, <1>4, <1>5, <1>6, <2>4, <2>5, <2>6, <2>7, SourcesFrame DEF DriverInv
<1>9. CASE ~ended'[SyncPoints]
  <2>1. /\ IF held'[SyncPoints].slice \in SyncSamples
           THEN phase' = "yield" /\ looks' = 1
           ELSE phase' = "remember" /\ looks' = LooksToRemember'
        /\ UNCHANGED <<syncTime, atLast>>
    BY <1>9 DEF NextVideoSlice
  <2>2. s' \in Samples /\ s' \in 0 .. SampleCount - 1
    <3>1. s' \in 0 .. SampleCount /\ s' # SampleCount
      BY <1>2, <1>4, <1>5, <1>9, VideoTimes
    <3> QED  BY <3>1, VideoTimes DEF Samples
  <2>3. held'[SyncPoints].slice = s'
    <3>1. s' < SampleCount
      BY <2>2, VideoTimes
    <3> QED  BY <1>5, <3>1 DEF SliceOf
  <2>4. Passed(s - 1)'
    <3>1. s' - 1 = s
      BY <1>2, <1>5
    <3> QED  BY <1>2, <1>7, <3>1 DEF Passed
  <2>5. prevSyncTime' <= TimeStamp[s'] /\ lastTimeStamp' = Before(s') /\ ~atLast'
    BY <1>1, <1>2, <1>5, <1>7, <2>1
  <2>6. \E p \in VideoSyncs : prevSyncTime' = TimeStamp[p]
    BY <1>2, <1>7
  <2>7. CASE s' \in SyncSamples
    <3>1. phase' = "yield" /\ looks' = 1 /\ s' \in VideoSyncs
      BY <2>1, <2>2, <2>3, <2>7 DEF VideoSyncs
    <3>2. SyncOK'
      BY <2>4, <2>5, <2>6, <3>1 DEF SyncOK, IsInLoop
    <3>3. LooksOK'
      BY <1>4, <3>1 DEF LooksOK, IsInLoop
    <3>4. DriverTypeOK'
      <4>1. phase' \in Phases /\ looks' \in 0 .. 3
        BY <3>1 DEF Phases
      <4> QED
        BY <1>1, <1>4, <2>1, <4>1 DEF DriverInv, DriverTypeOK, rangeVars, outputVars
    <3>5. IsBetween /\ IsBetween'
      BY <1>1, <3>1 DEF IsBetween
    <3> QED
      BY <1>1, <1>4, <1>5, <1>6, <3>2, <3>3, <3>4, <3>5, SourcesFrame DEF DriverInv
  <2>8. CASE s' \notin SyncSamples
    <3>1. phase' = "remember" /\ looks' \in 2 .. 3
      BY <2>1, <2>3, <2>8 DEF LooksToRemember
    <3>2. Passed(s)'
      <4>1. \A i \in VideoSyncs : i \in Nat /\ i # s'
        BY <2>8, VideoTimes DEF VideoSyncs
      <4>2. \A i \in VideoSyncs : i <= s' => i <= s' - 1
        BY <2>2, <4>1
      <4> QED  BY <2>4, <4>2 DEF Passed
    <3>3. SyncOK'
      BY <2>2, <2>5, <2>6, <3>1, <3>2 DEF SyncOK, IsInLoop
    <3>4. LooksOK'
      BY <3>1 DEF LooksOK, IsInLoop
    <3>5. DriverTypeOK'
      <4>1. phase' \in Phases /\ looks' \in 0 .. 3
        BY <3>1 DEF Phases
      <4> QED
        BY <1>1, <1>4, <2>1, <4>1 DEF DriverInv, DriverTypeOK, rangeVars, outputVars
    <3>6. IsBetween /\ IsBetween'
      BY <1>1, <3>1 DEF IsBetween
    <3> QED
      BY <1>1, <1>4, <1>5, <1>6, <3>3, <3>4, <3>5, <3>6, SourcesFrame DEF DriverInv
  <2> QED  BY <2>7, <2>8
<1> QED  BY <1>8, <1>9
-----------------------------------------------------------------------------
(* Consecutive slices up to an enumerator that is behind a time stamp hold *)
(* every slice from the first sync point of the range to that time.        *)
LEMMA NoneIsMissing ==
  ASSUME Syncs # {}, NEW t \in Tracks, NEW at \in 0 .. CountOf(t),
         NEW c \in Seq([slice : Nat, time : Nat]), at - Len(c) >= 0,
         \A k \in DOMAIN c : c[k].slice = at - Len(c) + k - 1,
         \A i \in 0 .. at - Len(c) - 1 : SourceTime(t, i) < TimeStamp[FirstSync],
         NEW time \in Nat, at < CountOf(t) => time < SourceTime(t, at),
         NEW i \in SamplesOf(t),
         TimeStamp[FirstSync] <= SourceTime(t, i), SourceTime(t, i) <= time
  PROVE  \E k \in DOMAIN c : c[k].slice = i
<1>1. CountOf(t) \in Nat /\ i \in 0 .. CountOf(t) - 1
  BY VideoTimes, AudioAssumption DEF Tracks, CountOf, SamplesOf, Samples
<1>2. /\ SourceTime(t, i) \in Nat
      /\ \A j \in 0 .. CountOf(t) : SourceTime(t, j) \in Nat
      /\ \A j \in 0 .. CountOf(t) : j <= i => SourceTime(t, j) <= SourceTime(t, i)
  <2>1. i \in 0 .. CountOf(t)
    BY <1>1
  <2> QED  BY <2>1, TimesOrdered
<1>3. TimeStamp[FirstSync] \in Nat
  <2>1. FirstSync \in 0 .. SampleCount
    BY FirstSyncFacts, SampleCountAssumption DEF Syncs, Samples
  <2> QED  BY <2>1, VideoTimes
<1>4. ~(i < at - Len(c))
  <2> SUFFICES ASSUME i < at - Len(c) PROVE FALSE
    OBVIOUS
  <2>1. i \in 0 .. at - Len(c) - 1
    BY <1>1
  <2>2. SourceTime(t, i) < TimeStamp[FirstSync]
    BY <2>1
  <2> QED  BY <1>2, <1>3, <2>2
<1>5. ~(at <= i)
  <2> SUFFICES ASSUME at <= i PROVE FALSE
    OBVIOUS
  <2>1. at < CountOf(t) /\ at \in 0 .. CountOf(t)
    BY <1>1
  <2>2. SourceTime(t, at) <= SourceTime(t, i) /\ SourceTime(t, at) \in Nat
    BY <1>1, <1>2, <2>1
  <2> QED  BY <1>2, <2>1, <2>2
<1> DEFINE k == i - (at - Len(c)) + 1
<1>6. k \in DOMAIN c /\ at - Len(c) + k - 1 = i
  <2> DEFINE n == Len(c)
  <2>1. n \in Nat /\ DOMAIN c = 1 .. n
    BY LenProperties, ZenonT(30)
  <2>2. /\ k = i - (at - n) + 1 /\ i \in Nat /\ at \in Nat
        /\ ~(i < at - n) /\ ~(at <= i)
    BY <1>1, <1>4, <1>5
  <2> HIDE DEF n, k
  <2>3. k \in 1 .. n /\ at - n + k - 1 = i
    BY ONLY <2>1, <2>2
  <2> QED  BY <2>1, <2>3 DEF n
<1> QED  BY <1>6

(* In the loop: what is known of its sync point.                           *)
LEMMA SyncTimeFacts ==
  ASSUME DriverInv, phase = "decide" \/ IsInLoop
  PROVE  /\ syncTime \in Nat /\ prevSyncTime \in Nat /\ startTime \in Nat /\ endTime \in Nat
         /\ prevSyncTime <= syncTime
         /\ \A i \in VideoSyncs : prevSyncTime < TimeStamp[i] => ~atLast /\ syncTime <= TimeStamp[i]
         /\ \A i \in Syncs : i \in VideoSyncs /\ TimeStamp[i] \in Nat /\ startTime <= TimeStamp[i]
         /\ \A i \in VideoSyncs : TimeStamp[i] \in Nat
         /\ \E p \in VideoSyncs : prevSyncTime = TimeStamp[p]
<1>1. /\ prevSyncTime <= syncTime
      /\ IF atLast THEN Passed(SampleCount - 1)
         ELSE /\ position[SyncPoints] \in VideoSyncs /\ Passed(position[SyncPoints] - 1)
              /\ syncTime = TimeStamp[position[SyncPoints]]
      /\ \E p \in VideoSyncs : prevSyncTime = TimeStamp[p]
  BY DEF DriverInv, SyncOK, IsBetween, IsInLoop
<1>2. syncTime \in Nat /\ prevSyncTime \in Nat /\ startTime \in Nat /\ endTime \in Nat
  BY DEF DriverInv, DriverTypeOK
<1>3. \A i \in VideoSyncs : i \in 0 .. SampleCount - 1 /\ TimeStamp[i] \in Nat
  <2>1. \A i \in VideoSyncs : i \in 0 .. SampleCount - 1
    BY VideoTimes
  <2> QED  BY <2>1, VideoTimes
<1>4. ASSUME NEW i \in VideoSyncs, prevSyncTime < TimeStamp[i]
      PROVE  ~atLast /\ syncTime <= TimeStamp[i]
  <2>1. i \in 0 .. SampleCount - 1 /\ TimeStamp[i] \in Nat /\ ~(TimeStamp[i] <= prevSyncTime)
    BY <1>2, <1>3, <1>4
  <2>2. i <= SampleCount - 1
    BY <2>1
  <2>3. ~atLast
    BY <1>1, <2>1, <2>2 DEF Passed
  <2>4. position[SyncPoints] \in 0 .. SampleCount - 1 /\ ~(i <= position[SyncPoints] - 1)
    BY <1>1, <1>3, <2>1, <2>3 DEF Passed
  <2>5. position[SyncPoints] <= i
    BY <2>1, <2>4
  <2>6. TimeStamp[position[SyncPoints]] <= TimeStamp[i]
    <3>1. position[SyncPoints] \in 0 .. SampleCount /\ i \in 0 .. SampleCount
      BY <2>1, <2>4, VideoTimes
    <3> QED  BY <2>5, <3>1, VideoTimes
  <2> QED  BY <1>1, <2>3, <2>6
<1>5. \A i \in Syncs : i \in VideoSyncs /\ startTime <= TimeStamp[i]
  BY DEF Syncs, VideoSyncs
<1> QED  BY <1>1, <1>2, <1>3, <1>4, <1>5

LEMMA BreakKeeps == DriverInv /\ BreakAtEnd => DriverInv'
<1> SUFFICES ASSUME DriverInv, BreakAtEnd PROVE DriverInv'
  OBVIOUS
<1>1. /\ phase = "decide" /\ syncTime > endTime /\ prevSyncTime > endTime
      /\ phase' = Outcome
      /\ UNCHANGED <<vars, held, audioAt, rangeVars, syncVars, outputVars, turn, looks>>
  BY DEF BreakAtEnd, enumeratorVars, PastEnd
<1>2. /\ UNCHANGED <<cache, readCache, answer, position, ended, held, audioAt, turn, looks>>
      /\ UNCHANGED <<startTime, endTime, syncTime, prevSyncTime, lastTimeStamp, atLast>>
      /\ UNCHANGED <<validSyncPointsFound, timeStart, copied>>
  BY <1>1 DEF vars, managerVars, clientVars, rangeVars, syncVars, outputVars
<1>3. IInv'
  BY <1>1 DEF DriverInv, IInv, TypeOK, CacheInTrack, AnswersMatchTrack, Holds, vars, managerVars, clientVars
<1>4. /\ phase' \in {"finished", "nothing"} /\ (phase' = "finished" => validSyncPointsFound)
      /\ (phase' = "nothing" => ~validSyncPointsFound)
  BY <1>1 DEF Outcome
<1>5. \A t \in Tracks : At(t)' = At(t) /\ Base(t)' = Base(t) /\ (Opened(t)' <=> Opened(t))
  BY <1>1, <1>2, <1>4 DEF At, Base, Opened
<1>6. DriverTypeOK'
  BY <1>2, <1>4 DEF DriverInv, DriverTypeOK, Phases
<1>7. LooksOK' /\ SyncOK' /\ RangeOK' /\ ProgressOK' /\ NeverFails'
  <2>1. ~IsInLoop' /\ ~IsBetween'
    BY <1>4 DEF IsInLoop, IsBetween
  <2>2. validSyncPointsFound => Syncs # {}
    BY DEF DriverInv, RangeOK
  <2>3. RangeOK'
    BY <1>2, <1>4, <2>1, <2>2 DEF RangeOK, Syncs
  <2> QED
    BY <1>4, <2>1, <2>3 DEF LooksOK, SyncOK, ProgressOK, NeverFails
<1>8. SourcesOK' /\ CopiedOK' /\ TimeStartOK' /\ StopsAtSyncPoint'
  BY <1>2, <1>5 DEF DriverInv, SourcesOK, CopiedOK, TimeStartOK, StopsAtSyncPoint, FirstSync, Syncs
<1>9. NothingIsMissing'
  <2>1. CASE validSyncPointsFound
    <3>1. phase' = "finished" /\ Syncs # {} /\ Syncs' = Syncs /\ FirstSync' = FirstSync
      BY <1>2, <1>4, <2>1 DEF DriverInv, RangeOK, FirstSync, Syncs
    <3>2. ASSUME NEW k \in DOMAIN TrackOrder, NEW i \in SamplesOf(TrackOrder[k]),
                 TimeStamp[FirstSync] <= SourceTime(TrackOrder[k], i),
                 SourceTime(TrackOrder[k], i) <= endTime
          PROVE  \E j \in DOMAIN copied[TrackOrder[k]] : copied[TrackOrder[k]][j].slice = i
      <4> DEFINE t == TrackOrder[k]
      <4>1. t \in Tracks /\ Opened(t)
        BY <1>1, OrderFacts DEF Opened
      <4>2. Beyond(t, prevSyncTime)
        BY <1>1, <2>1, <4>1 DEF DriverInv, ProgressOK, IsBetween
      <4>3. /\ At(t) \in 0 .. CountOf(t) /\ At(t) - Len(copied[t]) >= 0
            /\ copied[t] \in Seq([slice : Nat, time : Nat])
        BY <4>1 DEF DriverInv, SourcesOK, DriverTypeOK, Base
      <4>4. /\ \A j \in DOMAIN copied[t] : copied[t][j].slice = At(t) - Len(copied[t]) + j - 1
            /\ \A j \in 0 .. At(t) - Len(copied[t]) - 1 : SourceTime(t, j) < TimeStamp[FirstSync]
        BY <2>1, <4>1 DEF DriverInv, CopiedOK, Base
      <4>5. endTime \in Nat /\ prevSyncTime \in Nat
        BY DEF DriverInv, DriverTypeOK
      <4>6. At(t) < CountOf(t) => endTime < SourceTime(t, At(t))
        BY <1>1, <4>1, <4>2, <4>3, <4>5, TimesOrdered DEF Beyond
      <4> HIDE DEF t
      <4>7. i \in SamplesOf(t) /\ TimeStamp[FirstSync] <= SourceTime(t, i) /\ SourceTime(t, i) <= endTime
        BY <3>2 DEF t
      <4>8. \E j \in DOMAIN copied[t] : copied[t][j].slice = i
        <5> DEFINE c == copied[t]
                   at == At(t)
        <5>1. /\ Syncs # {} /\ t \in Tracks /\ at \in 0 .. CountOf(t) /\ at - Len(c) >= 0
              /\ c \in Seq([slice : Nat, time : Nat])
              /\ \A j \in DOMAIN c : c[j].slice = at - Len(c) + j - 1
              /\ \A j \in 0 .. at - Len(c) - 1 : SourceTime(t, j) < TimeStamp[FirstSync]
              /\ at < CountOf(t) => endTime < SourceTime(t, at)
          BY <3>1, <4>1, <4>3, <4>4, <4>6
        <5> HIDE DEF c, at
        <5>2. \E j \in DOMAIN c : c[j].slice = i
          BY <4>5, <4>7, <5>1, NoneIsMissing, ZenonT(30)
        <5> QED  BY <5>2 DEF c
      <4> QED  BY <4>8 DEF t
    <3> QED
      BY <1>2, <1>4, <3>1, <3>2 DEF NothingIsMissing
  <2>2. CASE ~validSyncPointsFound
    <3>1. \A i \in Syncs : prevSyncTime <= TimeStamp[i]
      BY <1>1, <2>2 DEF DriverInv, RangeOK, IsBetween
    <3>2. \A i \in Syncs : TimeStamp[i] > endTime
      BY <1>1, <3>1, SyncTimeFacts
    <3> QED  BY <1>2, <1>4, <2>2, <3>2 DEF NothingIsMissing, Syncs
  <2> QED  BY <2>1, <2>2
<1> QED
  BY <1>3, <1>6, <1>7, <1>8, <1>9 DEF DriverInv

LEMMA BeginKeeps == DriverInv /\ BeginTracks => DriverInv'
<1> SUFFICES ASSUME DriverInv, BeginTracks PROVE DriverInv'
  OBVIOUS
<1>1. /\ phase = "decide" /\ ~PastEnd
      /\ phase' = IF Skips THEN "skip" ELSE "copy"
      /\ validSyncPointsFound' = (validSyncPointsFound \/ ~Skips)
      /\ turn' = 1 /\ looks' = LooksBeforeDecision(TrackOrder[1])
      /\ UNCHANGED <<vars, held, audioAt, rangeVars, outputVars, syncTime, prevSyncTime, lastTimeStamp, atLast>>
  BY DEF BeginTracks, enumeratorVars
<1>2. /\ UNCHANGED <<cache, readCache, answer, position, ended, held, audioAt>>
      /\ UNCHANGED <<startTime, endTime, syncTime, prevSyncTime, lastTimeStamp, atLast>>
      /\ UNCHANGED <<timeStart, copied>>
  BY <1>1 DEF vars, managerVars, clientVars, rangeVars, outputVars
<1>3. IInv'
  BY <1>1 DEF DriverInv, IInv, TypeOK, CacheInTrack, AnswersMatchTrack, Holds, vars, managerVars, clientVars
<1>4. IsInLoop' /\ ~IsBetween' /\ phase' \in {"skip", "copy"}
  BY <1>1 DEF IsInLoop, IsBetween
<1>5. \A t \in Tracks : At(t)' = At(t) /\ Base(t)' = Base(t) /\ (Opened(t)' <=> Opened(t)) /\ ~Done(t)'
  <2>1. \A k \in DOMAIN TrackOrder : ~(k < 1)
    BY OrderFacts
  <2> QED  BY <1>1, <1>2, <1>4, <2>1 DEF At, Base, Opened, Done
<1>6. validSyncPointsFound => startTime <= prevSyncTime
  BY <1>1 DEF DriverInv, RangeOK, IsBetween
<1>7. /\ syncTime \in Nat /\ prevSyncTime \in Nat /\ startTime \in Nat /\ endTime \in Nat
      /\ prevSyncTime <= syncTime
  BY <1>1, SyncTimeFacts
<1>8. /\ phase' = "skip" => Skips /\ ~validSyncPointsFound'
      /\ phase' = "copy" => ~Skips /\ validSyncPointsFound'
  <2>1. CASE Skips
    <3>1. phase' = "skip" /\ ~validSyncPointsFound
      BY <1>1, <1>6, <1>7, <2>1 DEF Skips
    <3> QED  BY <1>1, <2>1, <3>1
  <2>2. CASE ~Skips
    BY <1>1, <2>2
  <2> QED  BY <2>1, <2>2
<1>9. DriverTypeOK'
  <2>1. turn' \in DOMAIN TrackOrder
    BY <1>1, OrderFacts
  <2>2. looks' \in 0 .. 3
    BY <1>1 DEF LooksBeforeDecision
  <2>3. validSyncPointsFound' \in BOOLEAN /\ phase' \in Phases
    BY <1>1, <1>4 DEF Phases
  <2> QED
    BY <1>2, <2>1, <2>2, <2>3 DEF DriverInv, DriverTypeOK
<1>10. LooksOK'
  <2>1. Track' = "video" => looks' = 2
    BY <1>1 DEF Track, LooksBeforeDecision
  <2> QED  BY <1>4, <2>1 DEF LooksOK
<1>11. SourcesOK' /\ TimeStartOK' /\ StopsAtSyncPoint' /\ NothingIsMissing' /\ NeverFails'
  BY <1>2, <1>4, <1>5
     DEF DriverInv, SourcesOK, TimeStartOK, StopsAtSyncPoint, NothingIsMissing, NeverFails, Syncs
<1>12. SyncOK'
  BY <1>1, <1>2, <1>4 DEF DriverInv, SyncOK, Passed, Before, IsBetween, IsInLoop
<1>13. \E p \in VideoSyncs : prevSyncTime = TimeStamp[p]
  BY <1>1, SyncTimeFacts
<1>14. ~Skips => Syncs # {}
  BY <1>7, <1>13, VideoTimes DEF Skips, Syncs, VideoSyncs
<1>15. RangeOK'
  <2>1. validSyncPointsFound' => Syncs # {}
    BY <1>1, <1>14 DEF DriverInv, RangeOK
  <2>2. IF validSyncPointsFound' THEN startTime <= prevSyncTime
        ELSE \A i \in Syncs : prevSyncTime <= TimeStamp[i]
    BY <1>1, <1>6, <1>7, <1>8 DEF DriverInv, RangeOK, IsBetween, Skips
  <2>3. ASSUME NEW i \in VideoSyncs, endTime < TimeStamp[i]
        PROVE  syncTime <= TimeStamp[i]
    <3>1. TimeStamp[i] \in Nat
      BY <1>1, SyncTimeFacts
    <3>2. CASE syncTime <= endTime
      BY <1>7, <2>3, <3>1, <3>2
    <3>3. CASE prevSyncTime <= endTime
      <4>1. prevSyncTime < TimeStamp[i]
        BY <1>7, <2>3, <3>1, <3>3
      <4> QED  BY <1>1, <4>1, SyncTimeFacts
    <3> QED  BY <1>1, <1>7, <3>2, <3>3 DEF PastEnd
  <2> QED
    BY <1>2, <1>4, <1>8, <2>1, <2>2, <2>3 DEF RangeOK, Syncs, Skips
<1>16. ProgressOK'
  <2>1. ASSUME NEW t \in Tracks, Opened(t), phase' = "skip"
        PROVE  AllBefore(t, syncTime)'
    <3>1. AllBefore(t, prevSyncTime)
      BY <1>1, <1>8, <2>1 DEF DriverInv, ProgressOK, IsBetween
    <3>2. \A i \in 0 .. At(t) - 1 : SourceTime(t, i) \in Nat
      <4>1. At(t) \in 0 .. CountOf(t) /\ CountOf(t) \in Nat
        BY <2>1, TimesOrdered DEF DriverInv, SourcesOK
      <4> QED  BY <4>1, TimesOrdered
    <3>3. \A i \in 0 .. At(t) - 1 : SourceTime(t, i) < syncTime
      BY <1>7, <3>1, <3>2 DEF AllBefore
    <3> QED  BY <1>2, <1>5, <3>3 DEF AllBefore
  <2> QED
    BY <1>4, <1>5, <2>1 DEF ProgressOK
<1>17. CopiedOK'
  <2>1. ASSUME NEW t \in Tracks, Opened(t), validSyncPointsFound'
        PROVE  /\ \A i \in 0 .. Base(t) - 1 : SourceTime(t, i) < TimeStamp[FirstSync]
               /\ Base(t) < CountOf(t) => TimeStamp[FirstSync] <= SourceTime(t, Base(t))
    <3>1. CASE validSyncPointsFound
      BY <2>1, <3>1 DEF DriverInv, CopiedOK
    <3>2. CASE ~validSyncPointsFound
      <4>1. copied[t] = <<>> /\ Base(t) = At(t)
        <5>1. copied[t] = <<>> /\ At(t) \in Int
          BY <2>1, <3>2 DEF DriverInv, CopiedOK, SourcesOK
        <5> QED  BY <5>1 DEF Base
      <4>2. AllBefore(t, prevSyncTime) /\ NotBefore(t, prevSyncTime)
        BY <1>1, <2>1, <3>2 DEF DriverInv, ProgressOK, IsBetween
      <4>3. prevSyncTime = TimeStamp[FirstSync]
        <5>1. PICK p \in VideoSyncs : prevSyncTime = TimeStamp[p]
          BY <1>13
        <5>2. p \in Syncs
          <6>1. ~Skips
            BY <1>4, <1>8, <2>1
          <6> QED  BY <1>7, <5>1, <6>1 DEF Skips, Syncs, VideoSyncs
        <5>3. \A i \in Syncs : prevSyncTime <= TimeStamp[i]
          BY <1>1, <3>2 DEF DriverInv, RangeOK, IsBetween
        <5>4. FirstSync \in Syncs /\ TimeStamp[FirstSync] <= TimeStamp[p]
          BY <5>2, FirstSyncFacts
        <5>5. TimeStamp[FirstSync] \in Nat
          BY <1>1, <5>4, SyncTimeFacts
        <5> QED  BY <1>7, <5>1, <5>3, <5>4, <5>5
      <4> QED  BY <4>1, <4>2, <4>3 DEF AllBefore, NotBefore
    <3> QED  BY <3>1, <3>2
  <2>2. \A t \in Tracks : /\ copied[t] # <<>> => validSyncPointsFound'
                          /\ \A k \in DOMAIN copied[t] :
                               /\ copied[t][k].slice = Base(t) + k - 1
                               /\ copied[t][k].time = SourceTime(t, Base(t) + k - 1) - timeStart[t]
    BY <1>1 DEF DriverInv, CopiedOK
  <2>3. FirstSync' = FirstSync
    BY <1>2 DEF FirstSync, Syncs
  <2> QED  BY <1>2, <1>5, <2>1, <2>2, <2>3 DEF CopiedOK
<1> QED
  BY <1>3, <1>9, <1>10, <1>11, <1>12, <1>15, <1>16, <1>17 DEF DriverInv

(* The loop over the tracks leaves a track that has come to the sync       *)
(* point, with the last track for the next sync point or the end.          *)
LEMMA TrackLeft ==
  ASSUME DriverInv, IsInLoop, LeaveTrack,
         UNCHANGED <<rangeVars, restOfSyncVars>>, position'[SyncPoints] = position[SyncPoints],
         copied' \in [Tracks -> Seq([slice : Nat, time : Nat])], CopiedOK',
         \A t \in Tracks : Opened(t) =>
           /\ At(t)' \in 0 .. CountOf(t) /\ Base(t)' >= 0
           /\ phase = "skip" =>
                /\ \A i \in 0 .. At(t)' - 1 : SourceTime(t, i) < syncTime
                /\ Done(t) \/ t = Track => (At(t)' < CountOf(t) => syncTime <= SourceTime(t, At(t)'))
           /\ phase = "copy" =>
                (Done(t) \/ t = Track => (At(t)' < CountOf(t) => syncTime < SourceTime(t, At(t)')))
  PROVE  /\ LooksOK' /\ SyncOK' /\ RangeOK' /\ ProgressOK' /\ NothingIsMissing' /\ NeverFails'
         /\ phase' \in Phases \ {"open"} /\ turn' \in DOMAIN TrackOrder /\ looks' \in 0 .. 3
         /\ prevSyncTime' \in Nat
<1> USE DEF restOfSyncVars, rangeVars
<1> DEFINE s == position[SyncPoints]
<1>1. /\ UNCHANGED <<startTime, endTime, syncTime, lastTimeStamp, atLast, validSyncPointsFound>>
      /\ s' = s
  OBVIOUS
<1>2. /\ syncTime \in Nat /\ prevSyncTime \in Nat /\ startTime \in Nat /\ endTime \in Nat
      /\ prevSyncTime <= syncTime
      /\ \A i \in VideoSyncs : prevSyncTime < TimeStamp[i] => ~atLast /\ syncTime <= TimeStamp[i]
      /\ \A i \in Syncs : i \in VideoSyncs /\ TimeStamp[i] \in Nat /\ startTime <= TimeStamp[i]
      /\ \A i \in VideoSyncs : TimeStamp[i] \in Nat
  BY SyncTimeFacts
<1>3. /\ IF atLast THEN syncTime = TimeStamp[SampleCount - 1]
         ELSE s \in VideoSyncs /\ Passed(s - 1) /\ syncTime = TimeStamp[s] /\ lastTimeStamp = Before(s)
      /\ \E p \in VideoSyncs : prevSyncTime = TimeStamp[p]
  BY DEF DriverInv, SyncOK, IsInLoop
<1>4. /\ phase \in {"skip", "copy"} /\ phase # "open"
      /\ phase = "skip" => startTime > prevSyncTime /\ ~validSyncPointsFound
      /\ phase = "copy" => validSyncPointsFound /\ startTime <= prevSyncTime
      /\ validSyncPointsFound => Syncs # {}
      /\ \A i \in VideoSyncs : endTime < TimeStamp[i] => syncTime <= TimeStamp[i]
  BY DEF DriverInv, RangeOK, IsInLoop
<1>5. Syncs' = Syncs /\ FirstSync' = FirstSync
  BY <1>1 DEF Syncs, FirstSync
<1>6. turn \in DOMAIN TrackOrder /\ Track \in Tracks /\ looks \in 0 .. 3
  BY OrderFacts DEF DriverInv, DriverTypeOK, Track
<1>7. CASE ~LastTrack
  <2>1. /\ turn' = turn + 1 /\ looks' = LooksBeforeDecision(TrackOrder[turn + 1])
        /\ UNCHANGED <<prevSyncTime, phase>>
    BY <1>7 DEF LeaveTrack
  <2>2. turn' \in DOMAIN TrackOrder /\ turn \in Nat
    BY <1>6, <1>7, <2>1, OrderFacts DEF LastTrack
  <2>3. looks' \in 0 .. 3 /\ (Track' = "video" => looks' = 2)
    BY <2>1 DEF LooksBeforeDecision, Track
  <2>4. IsInLoop' /\ ~IsBetween'
    BY <1>4, <2>1 DEF IsInLoop, IsBetween
  <2>5. LooksOK'
    BY <2>3, <2>4, <1>4, <2>1 DEF LooksOK
  <2>6. SyncOK'
    BY <1>1, <1>2, <1>3, <1>4, <2>1, <2>4 DEF DriverInv, SyncOK, Passed, Before, IsInLoop
  <2>7. RangeOK'
    BY <1>1, <1>4, <1>5, <2>1, <2>4 DEF DriverInv, RangeOK
  <2>8. \A t \in Tracks : /\ Opened(t)' <=> Opened(t)
                          /\ Done(t)' => Done(t) \/ t = Track
    <3>1. \A k \in DOMAIN TrackOrder : k < turn + 1 => k < turn \/ k = turn
      BY <2>2, OrderFacts
    <3> QED  BY <1>4, <2>1, <3>1 DEF Opened, Done, Track
  <2>9. ProgressOK'
    <3>1. ASSUME NEW t \in Tracks, Opened(t)
          PROVE  /\ phase = "skip" => AllBefore(t, syncTime)' /\ (Done(t)' => NotBefore(t, syncTime)')
                 /\ phase = "copy" => (Done(t)' => Beyond(t, syncTime)')
      <4>1. Done(t)' => Done(t) \/ t = Track
        BY <2>8
      <4>2. phase = "skip" => AllBefore(t, syncTime)'
        BY <1>1, <3>1 DEF AllBefore
      <4>3. phase = "skip" /\ (Done(t) \/ t = Track) => NotBefore(t, syncTime)'
        BY <1>1, <3>1 DEF NotBefore
      <4>4. phase = "copy" /\ (Done(t) \/ t = Track) => Beyond(t, syncTime)'
        BY <1>1, <3>1 DEF Beyond
      <4> QED  BY <4>1, <4>2, <4>3, <4>4
    <3>2. phase' = phase
      BY <2>1
    <3>3. ASSUME NEW t \in Tracks, Opened(t)'
          PROVE  /\ phase' = "skip" => AllBefore(t, syncTime)' /\ (Done(t)' => NotBefore(t, syncTime)')
                 /\ phase' = "copy" => (Done(t)' => Beyond(t, syncTime)')
      BY <2>8, <3>1, <3>2, <3>3
    <3> QED  BY <1>4, <2>1, <2>4, <3>3 DEF ProgressOK
  <2>10. NothingIsMissing' /\ NeverFails'
    BY <1>4, <2>1 DEF NothingIsMissing, NeverFails
  <2> QED
    BY <1>2, <1>4, <2>1, <2>2, <2>3, <2>5, <2>6, <2>7, <2>9, <2>10 DEF Phases
<1>8. CASE LastTrack
  <2>1. /\ prevSyncTime' = syncTime /\ turn' = 1
        /\ phase' = IF atLast THEN Outcome ELSE "remember"
        /\ looks' = IF atLast THEN 0 ELSE LooksToRemember
    BY <1>8 DEF LeaveTrack
  <2>2. turn' \in DOMAIN TrackOrder /\ looks' \in 0 .. 3 /\ (~atLast => looks' >= 2)
    BY <2>1, OrderFacts DEF LooksToRemember
  <2>3. \A t \in Tracks : Opened(t) => Done(t) \/ t = Track
    <3>1. \A k \in DOMAIN TrackOrder : k < turn \/ k = turn
      BY <1>6, <1>8, OrderFacts DEF LastTrack
    <3> QED  BY <1>4, <3>1 DEF Opened, Done, Track
  <2>4. ~validSyncPointsFound => \A i \in Syncs : ~atLast /\ syncTime <= TimeStamp[i]
    BY <1>2, <1>4
  <2>5. CASE ~atLast
    <3>1. phase' = "remember" /\ ~IsInLoop' /\ IsBetween'
      BY <2>1, <2>5 DEF IsInLoop, IsBetween
    <3>2. LooksOK'
      BY <2>2, <2>5, <3>1 DEF LooksOK
    <3>3. SyncOK'
      <4>1. s \in 0 .. SampleCount - 1 /\ s \in Samples
        BY <1>3, <2>5, VideoTimes DEF VideoSyncs
      <4>2. ASSUME NEW i \in VideoSyncs, i <= s
            PROVE  TimeStamp[i] <= syncTime
        <5>1. i \in 0 .. SampleCount /\ s \in 0 .. SampleCount
          BY <4>1, VideoTimes
        <5> QED  BY <1>3, <2>5, <4>2, <5>1, VideoTimes
      <4>3. Passed(s)'
        BY <1>1, <2>1, <4>2 DEF Passed
      <4> QED
        BY <1>1, <1>2, <1>3, <2>1, <2>5, <3>1, <4>1, <4>3 DEF SyncOK, Before
    <3>4. RangeOK'
      BY <1>1, <1>2, <1>4, <1>5, <2>1, <2>4, <3>1 DEF RangeOK
    <3>5. \A t \in Tracks : Opened(t)' <=> Opened(t)
      BY <1>4, <3>1 DEF Opened
    <3>6. ProgressOK'
      BY <1>1, <1>4, <2>1, <2>3, <3>1, <3>5 DEF ProgressOK, AllBefore, NotBefore, Beyond
    <3>7. NothingIsMissing' /\ NeverFails' /\ phase' \in Phases \ {"open"}
      BY <3>1 DEF NothingIsMissing, NeverFails, Phases
    <3> QED
      BY <1>2, <2>1, <2>2, <3>2, <3>3, <3>4, <3>6, <3>7
  <2>6. CASE atLast
    <3>1. /\ phase' \in {"finished", "nothing"} /\ (phase' = "finished" <=> validSyncPointsFound)
          /\ (phase' = "nothing" <=> ~validSyncPointsFound)
      BY <2>1, <2>6 DEF Outcome
    <3>2. ~IsInLoop' /\ ~IsBetween' /\ phase' \in Phases \ {"open"} /\ NeverFails'
      BY <3>1 DEF IsInLoop, IsBetween, Phases, NeverFails
    <3>3. LooksOK' /\ SyncOK' /\ ProgressOK'
      BY <3>1, <3>2 DEF LooksOK, SyncOK, ProgressOK
    <3>4. RangeOK'
      BY <1>1, <1>4, <1>5, <3>1, <3>2 DEF RangeOK
    <3>5. CASE ~validSyncPointsFound
      <4>1. Syncs = {}
        BY <2>4, <2>6, <3>5
      <4>2. NothingIsMissing'
        BY <1>5, <3>1, <3>5, <4>1 DEF NothingIsMissing
      <4> QED
        BY <1>2, <2>1, <2>2, <3>2, <3>3, <3>4, <4>2
    <3>6. CASE validSyncPointsFound
      <4>1. phase = "copy" /\ phase' = "finished" /\ Syncs # {}
        BY <1>4, <3>1, <3>6
      <4>2. ASSUME NEW k \in DOMAIN TrackOrder, NEW i \in SamplesOf(TrackOrder[k]),
                   TimeStamp[FirstSync] <= SourceTime(TrackOrder[k], i),
                   SourceTime(TrackOrder[k], i) <= TimeStamp[SampleCount - 1]
            PROVE  \E j \in DOMAIN copied'[TrackOrder[k]] : copied'[TrackOrder[k]][j].slice = i
        <5> DEFINE t  == TrackOrder[k]
                   c  == copied'[t]
                   at == At(t)'
        <5>1. t \in Tracks /\ Opened(t) /\ Opened(t)'
          BY <1>4, <3>2, OrderFacts DEF Opened
        <5>2. at < CountOf(t) => syncTime < SourceTime(t, at)
          BY <2>3, <4>1, <5>1
        <5>3. at \in 0 .. CountOf(t) /\ at - Len(c) >= 0 /\ c \in Seq([slice : Nat, time : Nat])
          BY <5>1 DEF Base
        <5>4. /\ \A j \in DOMAIN c : c[j].slice = at - Len(c) + j - 1
              /\ \A j \in 0 .. at - Len(c) - 1 : SourceTime(t, j) < TimeStamp[FirstSync]
          BY <1>1, <1>5, <3>6, <5>1 DEF CopiedOK, Base
        <5>5. /\ i \in SamplesOf(t) /\ TimeStamp[FirstSync] <= SourceTime(t, i)
              /\ SourceTime(t, i) <= syncTime
          BY <1>3, <2>6, <4>2
        <5> HIDE DEF c, at, t
        <5>6. \E j \in DOMAIN c : c[j].slice = i
          BY <1>2, <4>1, <5>1, <5>2, <5>3, <5>4, <5>5, NoneIsMissing, ZenonT(30)
        <5> QED  BY <5>6 DEF c, t
      <4>3. NothingIsMissing'
        BY <1>5, <4>1, <4>2 DEF NothingIsMissing
      <4> QED
        BY <1>2, <2>1, <2>2, <3>2, <3>3, <3>4, <4>3
    <3> QED  BY <3>5, <3>6
  <2> QED  BY <2>5, <2>6
<1> QED  BY <1>7, <1>8

(* A slice was taken from a track: the loop stays on the track, or leaves  *)
(* it when MoveNext returned false.                                        *)
LEMMA TrackGoesOn ==
  ASSUME DriverInv, IsInLoop, StayOrLeave,
         UNCHANGED <<rangeVars, restOfSyncVars>>, position'[SyncPoints] = position[SyncPoints],
         copied' \in [Tracks -> Seq([slice : Nat, time : Nat])], CopiedOK',
         NEW u \in Tracks, u = Track, MovedSource(Track) <=> At(u)' < CountOf(u),
         \A t \in Tracks : Opened(t) =>
           /\ At(t)' \in 0 .. CountOf(t) /\ Base(t)' >= 0
           /\ t # u => At(t)' = At(t)
           /\ phase = "skip" => \A i \in 0 .. At(t)' - 1 : SourceTime(t, i) < syncTime
  PROVE  /\ LooksOK' /\ SyncOK' /\ RangeOK' /\ ProgressOK' /\ NothingIsMissing' /\ NeverFails'
         /\ phase' \in Phases \ {"open"} /\ turn' \in DOMAIN TrackOrder /\ looks' \in 0 .. 3
         /\ prevSyncTime' \in Nat
<1>1. phase \in {"skip", "copy"}
  BY DEF IsInLoop
<1>2. turn \in DOMAIN TrackOrder /\ prevSyncTime \in Nat
  BY DEF DriverInv, DriverTypeOK
<1>3. ASSUME NEW t \in Tracks, Opened(t), Done(t)
      PROVE  /\ t # Track /\ At(t)' = At(t)
             /\ phase = "skip" => (At(t)' < CountOf(t) => syncTime <= SourceTime(t, At(t)'))
             /\ phase = "copy" => (At(t)' < CountOf(t) => syncTime < SourceTime(t, At(t)'))
  <2>1. t # Track
    BY <1>2, <1>3, OrderFacts DEF Done, Track
  <2>2. At(t)' = At(t)
    BY <1>3, <2>1
  <2>3. /\ phase = "skip" => NotBefore(t, syncTime)
        /\ phase = "copy" => Beyond(t, syncTime)
    BY <1>3 DEF DriverInv, ProgressOK
  <2> QED  BY <2>1, <2>2, <2>3 DEF NotBefore, Beyond
<1>4. CASE MovedSource(Track)
  <2>1. looks' = LooksBeforeDecision(Track) /\ UNCHANGED <<prevSyncTime, phase, turn>>
    BY <1>4 DEF StayOrLeave, StayOnTrack
  <2>2. /\ UNCHANGED <<startTime, endTime, syncTime, lastTimeStamp, atLast, validSyncPointsFound>>
    BY DEF rangeVars, restOfSyncVars
  <2>3. IsInLoop' /\ ~IsBetween' /\ phase' # "open"
    BY <1>1, <2>1 DEF IsInLoop, IsBetween
  <2>4. LooksOK' /\ looks' \in 0 .. 3
    BY <1>1, <2>1, <2>3 DEF LooksOK, LooksBeforeDecision, Track
  <2>5. SyncOK'
    BY <1>1, <2>1, <2>2 DEF DriverInv, SyncOK, Passed, Before, IsBetween, IsInLoop
  <2>6. RangeOK'
    BY <1>1, <2>1, <2>2 DEF DriverInv, RangeOK, IsBetween, IsInLoop, Syncs
  <2>7. \A t \in Tracks : (Opened(t)' <=> Opened(t)) /\ (Done(t)' <=> Done(t))
    BY <2>1 DEF Opened, Done
  <2>8. ProgressOK'
    <3>1. ASSUME NEW t \in Tracks, Opened(t), phase = "skip"
          PROVE  AllBefore(t, syncTime)' /\ (Done(t) => NotBefore(t, syncTime)')
      BY <1>3, <2>2, <3>1 DEF AllBefore, NotBefore
    <3>2. ASSUME NEW t \in Tracks, Opened(t), phase = "copy", Done(t)
          PROVE  Beyond(t, syncTime)'
      BY <1>3, <2>2, <3>2 DEF Beyond
    <3> QED  BY <2>1, <2>3, <2>7, <3>1, <3>2 DEF ProgressOK
  <2>9. NothingIsMissing' /\ NeverFails' /\ phase' \in Phases \ {"open"}
    BY <1>1, <2>1 DEF NothingIsMissing, NeverFails, Phases
  <2> QED
    BY <1>2, <2>1, <2>4, <2>5, <2>6, <2>8, <2>9
<1>5. CASE ~MovedSource(Track)
  <2>1. LeaveTrack
    BY <1>5 DEF StayOrLeave
  <2>2. ~(At(u)' < CountOf(u))
    BY <1>5
  <2>3. \A t \in Tracks : Opened(t) =>
          /\ At(t)' \in 0 .. CountOf(t) /\ Base(t)' >= 0
          /\ phase = "skip" =>
               /\ \A i \in 0 .. At(t)' - 1 : SourceTime(t, i) < syncTime
               /\ Done(t) \/ t = Track => (At(t)' < CountOf(t) => syncTime <= SourceTime(t, At(t)'))
          /\ phase = "copy" =>
               (Done(t) \/ t = Track => (At(t)' < CountOf(t) => syncTime < SourceTime(t, At(t)')))
    <3>1. ASSUME NEW t \in Tracks, Opened(t), t = Track
          PROVE  ~(At(t)' < CountOf(t))
      <4>1. t = u
        BY <3>1
      <4> QED  BY <2>2, <4>1
    <3> QED  BY <1>3, <3>1
  <2> QED  BY <2>1, <2>3, TrackLeft
<1> QED  BY <1>4, <1>5

(* A track at whose enumerator the loop has nothing more to do.            *)
LEMMA LeftUntouched ==
  ASSUME DriverInv, IsInLoop, LeaveTrack, UNCHANGED <<enumeratorVars, rangeVars, restOfSyncVars, outputVars>>,
         phase = "skip" => NotBefore(Track, syncTime),
         phase = "copy" => Beyond(Track, syncTime)
  PROVE  DriverInv'
<1>1. /\ UNCHANGED <<vars, held, audioAt, timeStart, copied>>
      /\ UNCHANGED <<cache, readCache, answer, position, ended>>
      /\ UNCHANGED <<startTime, endTime, syncTime, lastTimeStamp, atLast, validSyncPointsFound>>
  BY DEF enumeratorVars, outputVars, vars, managerVars, clientVars, rangeVars, restOfSyncVars
<1>2. IInv'
  BY <1>1 DEF DriverInv, IInv, TypeOK, CacheInTrack, AnswersMatchTrack, Holds, vars, managerVars, clientVars
<1>3. \A t \in Tracks : At(t)' = At(t) /\ Base(t)' = Base(t) /\ (Opened(t)' => Opened(t))
  BY <1>1 DEF At, Base, Opened, IsInLoop
<1>4. CopiedOK' /\ TimeStartOK'
  BY <1>1, <1>3 DEF DriverInv, CopiedOK, TimeStartOK, FirstSync, Syncs
<1>5. copied' \in [Tracks -> Seq([slice : Nat, time : Nat])]
  BY <1>1 DEF DriverInv, DriverTypeOK
<1>6. \A t \in Tracks : Opened(t) =>
        /\ At(t)' \in 0 .. CountOf(t) /\ Base(t)' >= 0
        /\ phase = "skip" =>
             /\ \A i \in 0 .. At(t)' - 1 : SourceTime(t, i) < syncTime
             /\ Done(t) \/ t = Track => (At(t)' < CountOf(t) => syncTime <= SourceTime(t, At(t)'))
        /\ phase = "copy" =>
             (Done(t) \/ t = Track => (At(t)' < CountOf(t) => syncTime < SourceTime(t, At(t)')))
  <2> SUFFICES ASSUME NEW t \in Tracks, Opened(t)
               PROVE  /\ At(t)' \in 0 .. CountOf(t) /\ Base(t)' >= 0
                      /\ phase = "skip" =>
                           /\ \A i \in 0 .. At(t)' - 1 : SourceTime(t, i) < syncTime
                           /\ Done(t) \/ t = Track => (At(t)' < CountOf(t) => syncTime <= SourceTime(t, At(t)'))
                      /\ phase = "copy" =>
                           (Done(t) \/ t = Track => (At(t)' < CountOf(t) => syncTime < SourceTime(t, At(t)')))
    OBVIOUS
  <2>1. At(t)' = At(t) /\ At(t) \in 0 .. CountOf(t) /\ Base(t)' >= 0
    BY <1>3 DEF DriverInv, SourcesOK
  <2>2. /\ phase = "skip" => AllBefore(t, syncTime) /\ (Done(t) => NotBefore(t, syncTime))
        /\ phase = "copy" => (Done(t) => Beyond(t, syncTime))
    BY DEF DriverInv, ProgressOK
  <2>3. phase = "skip" => \A i \in 0 .. At(t)' - 1 : SourceTime(t, i) < syncTime
    BY <2>1, <2>2 DEF AllBefore
  <2>4. phase = "skip" /\ (Done(t) \/ t = Track) => (At(t)' < CountOf(t) => syncTime <= SourceTime(t, At(t)'))
    BY <2>1, <2>2 DEF NotBefore
  <2>5. phase = "copy" /\ (Done(t) \/ t = Track) => (At(t)' < CountOf(t) => syncTime < SourceTime(t, At(t)'))
    BY <2>1, <2>2 DEF Beyond
  <2> QED  BY <2>1, <2>3, <2>4, <2>5
<1>7. position'[SyncPoints] = position[SyncPoints]
  BY <1>1
<1>8. /\ LooksOK' /\ SyncOK' /\ RangeOK' /\ ProgressOK' /\ NothingIsMissing' /\ NeverFails'
      /\ phase' \in Phases \ {"open"} /\ turn' \in DOMAIN TrackOrder /\ looks' \in 0 .. 3
      /\ prevSyncTime' \in Nat
  BY <1>4, <1>5, <1>6, <1>7, TrackLeft
<1>9. DriverTypeOK'
  BY <1>1, <1>8 DEF DriverInv, DriverTypeOK
<1>10. SourcesOK'
  <2>1. \A t \in Tracks : Opened(t)' <=> Opened(t)
    BY <1>8 DEF Opened, IsInLoop
  <2> QED  BY <1>1, <1>3, <2>1 DEF DriverInv, SourcesOK
<1>11. StopsAtSyncPoint'
  BY <1>1 DEF DriverInv, StopsAtSyncPoint, Syncs
<1> QED
  BY <1>2, <1>4, <1>8, <1>9, <1>10, <1>11 DEF DriverInv

LEMMA SkippedKeeps == DriverInv /\ SkippedTrack => DriverInv'
<1> SUFFICES ASSUME DriverInv, SkippedTrack PROVE DriverInv'
  OBVIOUS
<1>1. /\ phase = "skip" /\ looks = 0 /\ ~SkipsCurrent(Track) /\ LeaveTrack
      /\ UNCHANGED <<enumeratorVars, rangeVars, restOfSyncVars, outputVars>>
  BY DEF SkippedTrack
<1>2. IsInLoop
  BY <1>1 DEF IsInLoop
<1>3. NotBefore(Track, syncTime)
  <2>1. /\ Track \in Tracks /\ At(Track) \in 0 .. CountOf(Track)
        /\ StampOf(Track) = SourceTime(Track, At(Track))
        /\ CurrentOf(Track) # NoSlice <=> At(Track) < CountOf(Track)
    BY <1>1, <1>2, TurnFacts
  <2>2. SourceTime(Track, At(Track)) \in Nat /\ syncTime \in Nat
    BY <2>1, TimesOrdered DEF DriverInv, DriverTypeOK
  <2> QED  BY <1>1, <2>1, <2>2 DEF SkipsCurrent, NotBefore
<1> QED  BY <1>1, <1>2, <1>3, LeftUntouched

LEMMA CopiedKeeps == DriverInv /\ CopiedTrack => DriverInv'
<1> SUFFICES ASSUME DriverInv, CopiedTrack PROVE DriverInv'
  OBVIOUS
<1>1. /\ phase = "copy" /\ looks = 0 /\ ~CopiesCurrent(Track) /\ LeaveTrack
      /\ UNCHANGED <<enumeratorVars, rangeVars, restOfSyncVars, outputVars>>
  BY DEF CopiedTrack
<1>2. IsInLoop
  BY <1>1 DEF IsInLoop
<1>3. Beyond(Track, syncTime)
  <2>1. /\ Track \in Tracks /\ At(Track) \in 0 .. CountOf(Track)
        /\ StampOf(Track) = SourceTime(Track, At(Track))
        /\ CurrentOf(Track) # NoSlice <=> At(Track) < CountOf(Track)
    BY <1>1, <1>2, TurnFacts
  <2>2. SourceTime(Track, At(Track)) \in Nat /\ syncTime \in Nat
    BY <2>1, TimesOrdered DEF DriverInv, DriverTypeOK
  <2> QED  BY <1>1, <2>1, <2>2 DEF CopiesCurrent, Beyond
<1> QED  BY <1>1, <1>2, <1>3, LeftUntouched

(* MoveNext of the track whose turn it is, in the loop over the tracks.    *)
LEMMA TurnMoves ==
  ASSUME DriverInv, IsInLoop, looks = 0, NEW u \in Tracks, u = Track, At(u) < CountOf(u),
         NEW current, ForwardSource(u, current)
  PROVE  /\ IInv' /\ At(u) \in 0 .. CountOf(u) - 1 /\ At(u)' = At(u) + 1
         /\ \A t \in Tracks \ {u} : At(t)' = At(t)
         /\ position'[SyncPoints] = position[SyncPoints]
         /\ MovedSource(u) <=> At(u)' < CountOf(u)
         /\ audioAt' \in -1 .. AudioCount
         /\ held' \in [Enumerators -> [slice : Int, time : Nat]]
         /\ u = "video" => held'[Source] = SliceOf(position'[Source])
         /\ u # "video" => held' = held /\ position' = position
<1>1. At(u) \in 0 .. CountOf(u) - 1
  <2>1. At(u) \in 0 .. CountOf(u) /\ CountOf(u) \in Nat
    BY TurnFacts, TimesOrdered
  <2> QED  BY <2>1
<1>2. u = "video" => ~Empty(cache[readCache])
  BY TurnFacts
<1>3. /\ IInv /\ audioAt \in -1 .. AudioCount
      /\ held \in [Enumerators -> [slice : Int, time : Nat]]
  BY DEF DriverInv, DriverTypeOK
<1>4. At(u) \in -1 .. CountOf(u) - 1
  BY <1>1
<1> QED
  BY <1>1, <1>2, <1>3, <1>4, SourceMoves DEF vars, clientVars

LEMMA SkipKeeps == DriverInv /\ SkipSlice => DriverInv'
<1> SUFFICES ASSUME DriverInv, SkipSlice PROVE DriverInv'
  OBVIOUS
<1>1. /\ phase = "skip" /\ looks = 0 /\ SkipsCurrent(Track)
      /\ timeStart' = [timeStart EXCEPT ![Track] = CurrentOf(Track).time]
      /\ ForwardSource(Track, CurrentOf(Track)) /\ StayOrLeave
      /\ UNCHANGED <<rangeVars, restOfSyncVars, copied>>
  BY DEF SkipSlice
<1>2. IsInLoop
  BY <1>1 DEF IsInLoop
<1>3. PICK u \in Tracks : u = Track
  BY <1>1, <1>2, TurnFacts
<1>4. /\ Opened(u) /\ CurrentOf(u).time = SourceTime(u, At(u))
      /\ At(u) < CountOf(u) /\ SourceTime(u, At(u)) < syncTime
  BY <1>1, <1>2, <1>3, TurnFacts DEF SkipsCurrent
<1>5. /\ IInv' /\ At(u) \in 0 .. CountOf(u) - 1 /\ At(u)' = At(u) + 1
      /\ \A t \in Tracks \ {u} : At(t)' = At(t)
      /\ position'[SyncPoints] = position[SyncPoints]
      /\ MovedSource(u) <=> At(u)' < CountOf(u)
      /\ audioAt' \in -1 .. AudioCount
      /\ held' \in [Enumerators -> [slice : Int, time : Nat]]
      /\ u = "video" => held'[Source] = SliceOf(position'[Source])
      /\ u # "video" => held' = held /\ position' = position
  BY <1>1, <1>2, <1>3, <1>4, TurnMoves
<1>6. /\ timeStart' = [timeStart EXCEPT ![u] = SourceTime(u, At(u))]
      /\ timeStart \in [Tracks -> Nat] /\ SourceTime(u, At(u)) \in Nat
  <2>1. At(u) \in 0 .. CountOf(u)
    BY <1>5, TimesOrdered
  <2>2. SourceTime(u, At(u)) \in Nat
    BY <2>1, TimesOrdered
  <2> QED  BY <1>1, <1>3, <1>4, <2>2 DEF DriverInv, DriverTypeOK
<1>7. /\ ~validSyncPointsFound /\ UNCHANGED <<startTime, endTime, syncTime, copied>>
      /\ UNCHANGED <<lastTimeStamp, atLast, validSyncPointsFound>>
  BY <1>1 DEF DriverInv, RangeOK, rangeVars, restOfSyncVars
<1>8. \A t \in Tracks : copied[t] = <<>>
  BY <1>7 DEF DriverInv, CopiedOK
<1>9. CopiedOK'
  BY <1>7, <1>8 DEF CopiedOK
<1>10. ASSUME NEW t \in Tracks, Opened(t)
       PROVE  /\ At(t)' \in 0 .. CountOf(t) /\ Base(t)' >= 0
              /\ t # u => At(t)' = At(t)
              /\ \A i \in 0 .. At(t)' - 1 : SourceTime(t, i) < syncTime
  <2>1. /\ At(t) \in 0 .. CountOf(t) /\ CountOf(t) \in Nat
        /\ \A i \in 0 .. At(t) - 1 : SourceTime(t, i) < syncTime
    BY <1>1, <1>10, TimesOrdered DEF DriverInv, SourcesOK, ProgressOK, AllBefore
  <2>2. Base(t)' = At(t)'
    <3>1. At(t)' \in Int
      BY <1>5, <2>1
    <3> QED  BY <1>7, <1>8, <3>1 DEF Base
  <2>3. CASE t = u
    BY <1>4, <1>5, <2>1, <2>2, <2>3
  <2>4. CASE t # u
    BY <1>5, <2>1, <2>2, <2>4
  <2> QED  BY <2>3, <2>4
<1>11. copied' \in [Tracks -> Seq([slice : Nat, time : Nat])]
  BY <1>7 DEF DriverInv, DriverTypeOK
<1>12. /\ LooksOK' /\ SyncOK' /\ RangeOK' /\ ProgressOK' /\ NothingIsMissing' /\ NeverFails'
       /\ phase' \in Phases \ {"open"} /\ turn' \in DOMAIN TrackOrder /\ looks' \in 0 .. 3
       /\ prevSyncTime' \in Nat
  BY <1>1, <1>2, <1>3, <1>5, <1>9, <1>10, <1>11, TrackGoesOn
<1>13. DriverTypeOK'
  BY <1>5, <1>6, <1>7, <1>11, <1>12 DEF DriverInv, DriverTypeOK
<1>14. \A t \in Tracks : Opened(t)' <=> Opened(t)
  BY <1>1, <1>12 DEF Opened
<1>15. SourcesOK'
  <2>1. ASSUME NEW t \in Tracks, ~Opened(t)
        PROVE  At(t)' = -1 /\ copied'[t] = <<>> /\ timeStart'[t] = 0
    <3>1. t # u /\ At(t) = -1 /\ copied[t] = <<>> /\ timeStart[t] = 0
      BY <1>4, <2>1 DEF DriverInv, SourcesOK
    <3> QED  BY <1>5, <1>6, <1>7, <3>1
  <2>2. Opened("video") => held'[Source] = SliceOf(position'[Source])
    BY <1>5 DEF DriverInv, SourcesOK, Tracks
  <2> QED  BY <1>10, <1>14, <2>1, <2>2 DEF SourcesOK
<1>16. TimeStartOK'
  <2> SUFFICES ASSUME NEW t \in Tracks, Opened(t), NEW i \in At(t)' .. CountOf(t) - 1
               PROVE  timeStart'[t] <= SourceTime(t, i)
    BY <1>14 DEF TimeStartOK
  <2>1. CASE t = u
    <3>1. i \in 0 .. CountOf(u) /\ At(u) \in 0 .. CountOf(u) /\ At(u) <= i
      <4>1. i \in At(u)' .. CountOf(u) - 1
        BY <2>1
      <4> QED  BY <1>5, <4>1, TimesOrdered
    <3>2. SourceTime(u, At(u)) <= SourceTime(u, i)
      BY <3>1, TimesOrdered
    <3> QED  BY <1>6, <2>1, <3>2
  <2>2. CASE t # u
    BY <1>5, <1>6, <2>2 DEF DriverInv, TimeStartOK
  <2> QED  BY <2>1, <2>2
<1>17. StopsAtSyncPoint'
  BY <1>7, <1>8 DEF StopsAtSyncPoint
<1> QED
  BY <1>5, <1>9, <1>12, <1>13, <1>15, <1>16, <1>17 DEF DriverInv

(* A slice put at the end of a destination track.                          *)
LEMMA Appended ==
  ASSUME NEW S, NEW c \in Seq(S), NEW x \in S
  PROVE  /\ Len(Append(c, x)) = Len(c) + 1 /\ Len(c) \in Nat /\ Append(c, x) # <<>>
         /\ DOMAIN c = 1 .. Len(c) /\ DOMAIN Append(c, x) = 1 .. Len(c) + 1
         /\ Append(c, x)[Len(c) + 1] = x
         /\ \A k \in DOMAIN c : Append(c, x)[k] = c[k]
<1>1. Len(c) \in Nat /\ DOMAIN c = 1 .. Len(c)
  OBVIOUS
<1>2. /\ Append(c, x) \in Seq(S) /\ Append(c, x) # <<>>
      /\ Len(Append(c, x)) = Len(c) + 1 /\ Append(c, x)[Len(c) + 1] = x
      /\ \A k \in 1 .. Len(c) : Append(c, x)[k] = c[k]
  BY AppendProperties
<1>3. DOMAIN Append(c, x) = 1 .. Len(c) + 1
  BY <1>2
<1> QED  BY <1>1, <1>2, <1>3

LEMMA CopyKeeps == DriverInv /\ CopySlice => DriverInv'
<1> SUFFICES ASSUME DriverInv, CopySlice PROVE DriverInv'
  OBVIOUS
<1>1. /\ phase = "copy" /\ looks = 0 /\ CopiesCurrent(Track)
      /\ IF CurrentOf(Track).time >= timeStart[Track] THEN Put ELSE Refuse
      /\ UNCHANGED <<rangeVars, restOfSyncVars, timeStart>>
  BY DEF CopySlice
<1>2. IsInLoop
  BY <1>1 DEF IsInLoop
<1>3. PICK u \in Tracks : u = Track
  BY <1>1, <1>2, TurnFacts
<1>4. /\ Opened(u) /\ CurrentOf(u) = [slice |-> At(u), time |-> SourceTime(u, At(u))]
      /\ At(u) < CountOf(u) /\ SourceTime(u, At(u)) <= syncTime /\ At(u) \in 0 .. CountOf(u)
  BY <1>1, <1>2, <1>3, TurnFacts DEF CopiesCurrent
<1>5. timeStart[u] <= SourceTime(u, At(u)) /\ timeStart \in [Tracks -> Nat] /\ SourceTime(u, At(u)) \in Nat
  <2>1. At(u) \in At(u) .. CountOf(u) - 1
    BY <1>4, TimesOrdered
  <2> QED  BY <1>4, <2>1, TimesOrdered DEF DriverInv, DriverTypeOK, TimeStartOK
<1>6. Put
  <2>1. CurrentOf(Track).time >= timeStart[Track]
    BY <1>3, <1>4, <1>5
  <2> QED  BY <1>1, <2>1
<1>7. /\ copied' = [copied EXCEPT ![u] = Append(@, [slice |-> At(u), time |-> SourceTime(u, At(u)) - timeStart[u]])]
      /\ ForwardSource(u, Rebased(u)) /\ StayOrLeave
  <2>1. Rebased(u) = [slice |-> At(u), time |-> SourceTime(u, At(u)) - timeStart[u]]
    BY <1>4 DEF Rebased
  <2>2. /\ copied' = [copied EXCEPT ![u] = Append(@, Rebased(u))]
        /\ ForwardSource(u, Rebased(u)) /\ StayOrLeave
    BY <1>3, <1>6 DEF Put
  <2> QED  BY <2>1, <2>2
<1>8. /\ IInv' /\ At(u) \in 0 .. CountOf(u) - 1 /\ At(u)' = At(u) + 1
      /\ \A t \in Tracks \ {u} : At(t)' = At(t)
      /\ position'[SyncPoints] = position[SyncPoints]
      /\ MovedSource(u) <=> At(u)' < CountOf(u)
      /\ audioAt' \in -1 .. AudioCount
      /\ held' \in [Enumerators -> [slice : Int, time : Nat]]
      /\ u = "video" => held'[Source] = SliceOf(position'[Source])
      /\ u # "video" => held' = held /\ position' = position
  BY <1>1, <1>2, <1>3, <1>4, <1>7, TurnMoves
<1>9. /\ validSyncPointsFound /\ UNCHANGED <<startTime, endTime, syncTime, timeStart>>
      /\ UNCHANGED <<lastTimeStamp, atLast, validSyncPointsFound>>
  BY <1>1 DEF DriverInv, RangeOK, rangeVars, restOfSyncVars
<1> DEFINE new == [slice |-> At(u), time |-> SourceTime(u, At(u)) - timeStart[u]]
<1>10. /\ copied \in [Tracks -> Seq([slice : Nat, time : Nat])] /\ new \in [slice : Nat, time : Nat]
       /\ copied' = [copied EXCEPT ![u] = Append(@, new)]
  <2>1. At(u) \in Nat /\ SourceTime(u, At(u)) - timeStart[u] \in Nat
    BY <1>5, <1>8
  <2> QED  BY <1>7, <2>1 DEF DriverInv, DriverTypeOK
<1>11. /\ copied'[u] = Append(copied[u], new) /\ copied[u] \in Seq([slice : Nat, time : Nat])
       /\ \A t \in Tracks \ {u} : copied'[t] = copied[t]
       /\ copied' \in [Tracks -> Seq([slice : Nat, time : Nat])]
  BY <1>10
<1>12. /\ new.slice = At(u) /\ new.time = SourceTime(u, At(u)) - timeStart[u]
  OBVIOUS
<1> HIDE DEF new
<1>13. /\ Len(copied'[u]) = Len(copied[u]) + 1 /\ Len(copied[u]) \in Nat /\ copied'[u] # <<>>
       /\ DOMAIN copied[u] = 1 .. Len(copied[u]) /\ DOMAIN copied'[u] = 1 .. Len(copied[u]) + 1
       /\ copied'[u][Len(copied[u]) + 1] = new
       /\ \A k \in DOMAIN copied[u] : copied'[u][k] = copied[u][k]
  <2> DEFINE c == copied[u]
             S == [slice : Nat, time : Nat]
  <2>1. c \in Seq(S) /\ new \in S /\ copied'[u] = Append(c, new)
    BY <1>10, <1>11
  <2> HIDE DEF c, S
  <2>2. /\ Len(Append(c, new)) = Len(c) + 1 /\ Len(c) \in Nat /\ Append(c, new) # <<>>
        /\ DOMAIN c = 1 .. Len(c) /\ DOMAIN Append(c, new) = 1 .. Len(c) + 1
        /\ Append(c, new)[Len(c) + 1] = new
        /\ \A k \in DOMAIN c : Append(c, new)[k] = c[k]
    BY <2>1, Appended
  <2> QED  BY <2>1, <2>2, Zenon DEF c
<1>14. /\ \A t \in Tracks : Base(t)' = Base(t)
       /\ At(u) = Base(u) + Len(copied[u]) /\ Base(u) \in Int
  <2>1. Base(u)' = Base(u) /\ At(u) = Base(u) + Len(copied[u]) /\ Base(u) \in Int
    BY <1>8, <1>13, SMTT(20) DEF Base
  <2>2. \A t \in Tracks \ {u} : Base(t)' = Base(t)
    BY <1>8, <1>11 DEF Base
  <2> QED  BY <2>1, <2>2
<1>15. FirstSync' = FirstSync /\ Syncs' = Syncs
  BY <1>9 DEF FirstSync, Syncs
<1>16. \A t \in Tracks : Opened(t)' => Opened(t)
  BY <1>1 DEF Opened
<1>17. CopiedOK'
  <2>1. ASSUME NEW k \in DOMAIN copied'[u]
        PROVE  /\ copied'[u][k].slice = Base(u) + k - 1
               /\ copied'[u][k].time = SourceTime(u, Base(u) + k - 1) - timeStart[u]
    <3>1. CASE k \in DOMAIN copied[u]
      BY <1>13, <3>1 DEF DriverInv, CopiedOK
    <3>2. CASE k \notin DOMAIN copied[u]
      <4>1. k = Len(copied[u]) + 1
        BY <1>13, <3>2
      <4>2. Base(u) + k - 1 = At(u)
        BY <1>13, <1>14, <4>1
      <4> QED  BY <1>12, <1>13, <4>1, <4>2
    <3> QED  BY <3>1, <3>2
  <2>2. ASSUME NEW t \in Tracks, NEW k \in DOMAIN copied'[t]
        PROVE  /\ copied'[t][k].slice = Base(t)' + k - 1
               /\ copied'[t][k].time = SourceTime(t, Base(t)' + k - 1) - timeStart'[t]
    <3>1. CASE t = u
      BY <1>9, <1>14, <2>1, <2>2, <3>1
    <3>2. CASE t # u
      <4>1. copied'[t] = copied[t] /\ Base(t)' = Base(t) /\ timeStart' = timeStart /\ k \in DOMAIN copied[t]
        BY <1>9, <1>11, <1>14, <2>2, <3>2
      <4>2. /\ copied[t][k].slice = Base(t) + k - 1
            /\ copied[t][k].time = SourceTime(t, Base(t) + k - 1) - timeStart[t]
        BY <4>1 DEF DriverInv, CopiedOK
      <4> QED  BY <4>1, <4>2
    <3> QED  BY <3>1, <3>2
  <2>3. ASSUME NEW t \in Tracks, Opened(t)
        PROVE  /\ \A i \in 0 .. Base(t) - 1 : SourceTime(t, i) < TimeStamp[FirstSync]
               /\ Base(t) < CountOf(t) => TimeStamp[FirstSync] <= SourceTime(t, Base(t))
    BY <1>9, <2>3 DEF DriverInv, CopiedOK
  <2> QED
    BY <1>9, <1>14, <1>15, <1>16, <2>2, <2>3 DEF CopiedOK
<1>18. ASSUME NEW t \in Tracks, Opened(t)
       PROVE  /\ At(t)' \in 0 .. CountOf(t) /\ Base(t)' >= 0
              /\ t # u => At(t)' = At(t)
  <2>1. At(t) \in 0 .. CountOf(t) /\ Base(t) >= 0 /\ CountOf(t) \in Nat
    BY <1>18, TimesOrdered DEF DriverInv, SourcesOK
  <2>2. Base(t)' >= 0
    BY <1>14, <2>1
  <2>3. CASE t = u
    <3>1. At(u)' = At(u) + 1 /\ At(u) \in 0 .. CountOf(u) - 1 /\ CountOf(u) \in Nat
      BY <1>8, <2>1, <2>3
    <3>2. At(u)' \in 0 .. CountOf(u)
      BY <3>1
    <3> QED  BY <2>2, <2>3, <3>2
  <2>4. CASE t # u
    BY <1>8, <2>1, <2>2, <2>4
  <2> QED  BY <2>3, <2>4
<1>19. /\ LooksOK' /\ SyncOK' /\ RangeOK' /\ ProgressOK' /\ NothingIsMissing' /\ NeverFails'
       /\ phase' \in Phases \ {"open"} /\ turn' \in DOMAIN TrackOrder /\ looks' \in 0 .. 3
       /\ prevSyncTime' \in Nat
  <2>1. phase # "skip"
    BY <1>1
  <2> QED
    BY <1>1, <1>2, <1>3, <1>7, <1>8, <1>11, <1>17, <1>18, <2>1, TrackGoesOn
<1>20. DriverTypeOK'
  BY <1>8, <1>9, <1>11, <1>19 DEF DriverInv, DriverTypeOK
<1>21. \A t \in Tracks : Opened(t)' <=> Opened(t)
  BY <1>1, <1>19 DEF Opened
<1>22. SourcesOK'
  <2>1. ASSUME NEW t \in Tracks, ~Opened(t)
        PROVE  At(t)' = -1 /\ copied'[t] = <<>> /\ timeStart'[t] = 0
    <3>1. t # u /\ At(t) = -1 /\ copied[t] = <<>> /\ timeStart[t] = 0
      BY <1>4, <2>1 DEF DriverInv, SourcesOK
    <3> QED  BY <1>8, <1>9, <1>11, <3>1
  <2>2. Opened("video") => held'[Source] = SliceOf(position'[Source])
    BY <1>8 DEF DriverInv, SourcesOK, Tracks
  <2> QED  BY <1>18, <1>21, <2>1, <2>2 DEF SourcesOK
<1>23. TimeStartOK'
  <2> SUFFICES ASSUME NEW t \in Tracks, Opened(t), NEW i \in At(t)' .. CountOf(t) - 1
               PROVE  timeStart'[t] <= SourceTime(t, i)
    BY <1>21 DEF TimeStartOK
  <2>1. i \in At(t) .. CountOf(t) - 1
    <3>1. At(t) \in 0 .. CountOf(t) /\ CountOf(t) \in Nat
      BY TimesOrdered DEF DriverInv, SourcesOK
    <3> QED  BY <1>8, <3>1
  <2> QED  BY <1>9, <2>1 DEF DriverInv, TimeStartOK
<1>24. StopsAtSyncPoint'
  <2> SUFFICES ASSUME NEW t \in Tracks, NEW k \in DOMAIN copied'[t], NEW i \in Syncs,
                      endTime < TimeStamp[i]
               PROVE  SourceTime(t, copied'[t][k].slice) <= TimeStamp[i]
    BY <1>9, <1>15 DEF StopsAtSyncPoint
  <2>1. CASE k \in DOMAIN copied[t] /\ copied'[t][k] = copied[t][k]
    BY <2>1 DEF DriverInv, StopsAtSyncPoint
  <2>2. CASE ~(k \in DOMAIN copied[t] /\ copied'[t][k] = copied[t][k])
    <3>1. t = u /\ k = Len(copied[u]) + 1
      <4>1. t = u
        BY <1>11, <2>2
      <4>2. k \in DOMAIN copied'[u] /\ ~(k \in DOMAIN copied[u])
        BY <1>13, <2>2, <4>1
      <4>3. k \in 1 .. Len(copied[u]) + 1 /\ ~(k \in 1 .. Len(copied[u]))
        BY <1>13, <4>2
      <4> QED  BY <1>13, <4>1, <4>3
    <3>2. copied'[t][k].slice = At(u)
      BY <1>12, <1>13, <3>1
    <3>3. i \in VideoSyncs /\ TimeStamp[i] \in Nat /\ syncTime \in Nat
      BY <1>2, SyncTimeFacts
    <3>4. syncTime <= TimeStamp[i]
      BY <1>2, <3>3 DEF DriverInv, RangeOK
    <3> QED  BY <1>4, <1>5, <3>1, <3>2, <3>3, <3>4
  <2> QED  BY <2>1, <2>2
<1> QED
  BY <1>8, <1>17, <1>19, <1>20, <1>22, <1>23, <1>24 DEF DriverInv

LEMMA OpenKeeps == DriverInv /\ Open => DriverInv'
<1> SUFFICES ASSUME DriverInv, Open PROVE DriverInv'
  OBVIOUS
<1>1. /\ phase = "open" /\ ForwardSource(Track, NoSlice)
      /\ IF LastTrack THEN phase' = "find" /\ turn' = 1 ELSE turn' = turn + 1 /\ UNCHANGED phase
      /\ UNCHANGED <<startTime, endTime, syncTime, prevSyncTime, lastTimeStamp, atLast>>
      /\ UNCHANGED <<validSyncPointsFound, timeStart, copied, looks>>
  BY DEF Open, rangeVars, syncVars, outputVars
<1>2. turn \in DOMAIN TrackOrder /\ Track \in Tracks /\ turn \in Nat
  BY OrderFacts DEF DriverInv, DriverTypeOK, Track
<1>3. PICK u \in Tracks : u = Track
  BY <1>2
<1>4. /\ ~Opened(u) /\ At(u) = -1 /\ ~Empty(cache[readCache]) /\ looks = 0
      /\ ~validSyncPointsFound /\ prevSyncTime = 0 /\ lastTimeStamp = 0 /\ ~atLast
      /\ position[SyncPoints] = -1
      /\ \E p \in VideoSyncs : prevSyncTime = TimeStamp[p]
  <2>1. ~Opened(u)
    BY <1>1, <1>2, <1>3, OrderFacts DEF Opened, Track
  <2> QED
    BY <1>1, <2>1 DEF DriverInv, SourcesOK, LooksOK, RangeOK, SyncOK
<1>5. CountOf(u) \in Nat \ {0}
  BY TimesOrdered
<1>6. At(u) \in -1 .. CountOf(u) - 1
  BY <1>4, <1>5
<1>7. IInv /\ audioAt \in -1 .. AudioCount /\ held \in [Enumerators -> [slice : Int, time : Nat]]
  BY DEF DriverInv, DriverTypeOK
<1>8. /\ IInv' /\ At(u)' = 0
      /\ \A t \in Tracks \ {u} : At(t)' = At(t)
      /\ position'[SyncPoints] = -1
      /\ audioAt' \in -1 .. AudioCount
      /\ held' \in [Enumerators -> [slice : Int, time : Nat]]
      /\ u = "video" => /\ held'[Source] = SliceOf(position'[Source])
                        /\ position'[Source] < SampleCount => ~Empty(cache'[readCache'])
      /\ u # "video" => UNCHANGED <<vars, held>>
  BY <1>1, <1>3, <1>4, <1>6, <1>7, SourceMoves
<1>9. ~Empty(cache'[readCache'])
  <2>1. CASE u = "video"
    <3>1. position'[Source] = 0
      BY <1>8, <2>1 DEF At
    <3> QED  BY <1>8, <2>1, <3>1, VideoTimes
  <2>2. CASE u # "video"
    BY <1>4, <1>8, <2>2 DEF vars, managerVars
  <2> QED  BY <2>1, <2>2
<1>10. \A t \in Tracks : Opened(t)' <=> Opened(t) \/ t = u
  <2>1. CASE LastTrack
    <3>1. phase' = "find" /\ \A k \in DOMAIN TrackOrder : k < turn \/ k = turn
      BY <1>1, <1>2, <2>1, OrderFacts DEF LastTrack
    <3> QED  BY <1>1, <1>2, <1>3, <3>1 DEF Opened, Track
  <2>2. CASE ~LastTrack
    <3>1. turn' = turn + 1 /\ phase' = "open"
      BY <1>1, <2>2
    <3>2. \A k \in DOMAIN TrackOrder : k < turn + 1 <=> k < turn \/ k = turn
      BY <1>2, OrderFacts
    <3> QED  BY <1>1, <1>2, <1>3, <3>1, <3>2 DEF Opened, Track
  <2> QED  BY <2>1, <2>2
<1>11. \A t \in Tracks : copied[t] = <<>>
  BY <1>4 DEF DriverInv, CopiedOK
<1>12. /\ phase' \in {"open", "find"} /\ turn' \in DOMAIN TrackOrder /\ ~IsInLoop'
  BY <1>1, <1>2, OrderFacts DEF LastTrack, IsInLoop
<1>13. DriverTypeOK'
  BY <1>1, <1>8, <1>12 DEF DriverInv, DriverTypeOK, Phases
<1>14. LooksOK'
  BY <1>1, <1>4, <1>9, <1>12 DEF LooksOK
<1>15. \A t \in Tracks : Opened(t)' => At(t)' = 0
  BY <1>1, <1>8, <1>10 DEF DriverInv, ProgressOK
<1>16. SourcesOK'
  <2>1. ASSUME NEW t \in Tracks, Opened(t)'
        PROVE  At(t)' \in 0 .. CountOf(t) /\ Base(t)' >= 0
    <3>1. At(t)' = 0 /\ copied'[t] = <<>> /\ CountOf(t) \in Nat
      BY <1>1, <1>11, <1>15, <2>1, TimesOrdered
    <3> QED  BY <3>1 DEF Base
  <2>2. ASSUME NEW t \in Tracks, ~Opened(t)'
        PROVE  At(t)' = -1 /\ copied'[t] = <<>> /\ timeStart'[t] = 0
    BY <1>1, <1>8, <1>10, <2>2 DEF DriverInv, SourcesOK
  <2>3. Opened("video")' => held'[Source] = SliceOf(position'[Source])
    <3>1. CASE u = "video"
      BY <1>8, <3>1
    <3>2. CASE u # "video"
      BY <1>8, <1>10, <3>2 DEF DriverInv, SourcesOK, Tracks, vars, clientVars
    <3> QED  BY <3>1, <3>2
  <2> QED  BY <2>1, <2>2, <2>3 DEF SourcesOK
<1>17. SyncOK'
  <2>1. Passed(-1)' /\ Before(0) = 0
    BY VideoTimes DEF Passed, Before
  <2>2. -1 \in -1 .. SampleCount - 1
    BY VideoTimes
  <2>3. CASE phase' = "open"
    BY <1>1, <1>4, <1>8, <2>3 DEF SyncOK, IsInLoop, IsBetween
  <2>4. CASE phase' = "find"
    <3> DEFINE s == position[SyncPoints]
    <3>1. s' = -1 /\ s' + 1 = 0 /\ s' \in -1 .. SampleCount - 1
      BY <1>8, <2>2
    <3>2. Passed(s)' /\ lastTimeStamp' = Before(s' + 1) /\ prevSyncTime' <= Before(s' + 1) /\ ~atLast'
      BY <1>1, <1>4, <2>1, <3>1 DEF Passed
    <3>3. \E p \in VideoSyncs : prevSyncTime' = TimeStamp[p]
      BY <1>1, <1>4
    <3> QED  BY <2>4, <3>1, <3>2, <3>3 DEF SyncOK, IsInLoop
  <2> QED  BY <1>12, <2>3, <2>4
<1>18. RangeOK'
  <2>1. \A i \in Syncs : 0 <= TimeStamp[i]
    <3>1. Syncs \subseteq 0 .. SampleCount
      BY VideoTimes DEF Syncs, Samples
    <3> QED  BY <3>1, VideoTimes
  <2> QED  BY <1>1, <1>4, <1>12, <2>1 DEF RangeOK, Syncs
<1>19. ProgressOK'
  <2>1. ASSUME NEW t \in Tracks, Opened(t)'
        PROVE  At(t)' = 0 /\ AllBefore(t, prevSyncTime)' /\ NotBefore(t, prevSyncTime)'
    <3>1. At(t)' = 0 /\ prevSyncTime' = 0 /\ SourceTime(t, 0) \in Nat
      BY <1>1, <1>4, <1>15, <2>1, TimesOrdered
    <3> QED  BY <3>1 DEF AllBefore, NotBefore
  <2> QED  BY <1>1, <1>4, <1>12, <2>1 DEF ProgressOK
<1>20. CopiedOK'
  BY <1>1, <1>4, <1>11 DEF CopiedOK
<1>21. TimeStartOK'
  <2>1. ASSUME NEW t \in Tracks, Opened(t)', NEW i \in 0 .. CountOf(t) - 1
        PROVE  timeStart'[t] <= SourceTime(t, i)
    <3>1. SourceTime(t, i) \in Nat /\ i \in At(t)' .. CountOf(t) - 1
      BY <1>15, <2>1, TimesOrdered
    <3>2. CASE t = u
      BY <1>1, <1>4, <3>1, <3>2 DEF DriverInv, SourcesOK
    <3>3. CASE t # u
      <4>1. Opened(t) /\ At(t) = 0
        BY <1>1, <1>10, <2>1, <3>3 DEF DriverInv, ProgressOK
      <4> QED  BY <1>1, <2>1, <4>1 DEF DriverInv, TimeStartOK
    <3> QED  BY <3>2, <3>3
  <2> QED  BY <1>15, <2>1 DEF TimeStartOK
<1>22. NeverFails' /\ NothingIsMissing' /\ StopsAtSyncPoint'
  BY <1>1, <1>11, <1>12 DEF NeverFails, NothingIsMissing, StopsAtSyncPoint
<1> QED
  BY <1>8, <1>13, <1>14, <1>16, <1>17, <1>18, <1>19, <1>20, <1>21, <1>22 DEF DriverInv
-----------------------------------------------------------------------------
LEMMA DriverStepKeeps == DriverInv /\ [DriverStep]_driverVars => DriverInv'
  BY StutterKeeps, OpenKeeps, LookKeeps, NextSliceKeeps, YieldKeeps, RememberKeeps, BreakKeeps,
     BeginKeeps, SkipKeeps, SkippedKeeps, CopyKeeps, CopiedKeeps
     DEF DriverStep

LEMMA DriverInvAlways == DriverSpec => []DriverInv
  BY InitDriverInv, DriverStepKeeps, PTL DEF DriverSpec

(* Consecutive numbers from the base on, below which everything is before  *)
(* a time and whose own time is not, start with the least that is not.     *)
LEMMA LeastNotBefore ==
  ASSUME NEW t \in Tracks, NEW base \in 0 .. CountOf(t) - 1, NEW time \in Nat,
         \A i \in 0 .. base - 1 : SourceTime(t, i) < time, time <= SourceTime(t, base)
  PROVE  Min({i \in SamplesOf(t) : SourceTime(t, i) >= time}) = base
<1> DEFINE late == {i \in SamplesOf(t) : SourceTime(t, i) >= time}
<1>1. SamplesOf(t) = 0 .. CountOf(t) - 1 /\ CountOf(t) \in Nat
  BY VideoTimes, AudioAssumption DEF Tracks, CountOf, SamplesOf, Samples
<1>2. base \in late /\ late \subseteq Nat
  BY <1>1, TimesOrdered
<1>3. \A i \in late : ~(i < base)
  <2> SUFFICES ASSUME NEW i \in late, i < base PROVE FALSE
    OBVIOUS
  <2>1. i \in 0 .. base - 1 /\ i \in 0 .. CountOf(t)
    BY <1>1
  <2>2. SourceTime(t, i) < time /\ SourceTime(t, i) >= time /\ SourceTime(t, i) \in Nat
    BY <2>1, TimesOrdered
  <2> QED  BY <2>2
<1>4. Min(late) \in late /\ \A i \in late : Min(late) <= i
  <2> HIDE DEF late
  <2> QED  BY <1>2, MinOfNats
<1>5. Min(late) <= base /\ ~(Min(late) < base) /\ Min(late) \in Nat
  <2> HIDE DEF late
  <2> QED  BY <1>2, <1>3, <1>4
<1> QED  BY <1>5

LEMMA CopiesFrom == DriverInv => CopiesFromSyncPoint
<1> SUFFICES ASSUME DriverInv, NEW t \in Tracks, copied[t] # <<>>
             PROVE  /\ Syncs # {}
                    /\ copied[t][1].slice =
                         Min({i \in SamplesOf(t) : SourceTime(t, i) >= TimeStamp[FirstSync]})
                    /\ \A k \in 2 .. Len(copied[t]) : copied[t][k].slice = copied[t][k - 1].slice + 1
  BY DEF CopiesFromSyncPoint
<1>1. validSyncPointsFound /\ Syncs # {} /\ Opened(t)
  BY DEF DriverInv, CopiedOK, RangeOK, SourcesOK
<1>2. /\ At(t) \in 0 .. CountOf(t) /\ Base(t) >= 0 /\ CountOf(t) \in Nat
      /\ copied[t] \in Seq([slice : Nat, time : Nat])
  BY <1>1, TimesOrdered DEF DriverInv, SourcesOK, DriverTypeOK
<1>3. Len(copied[t]) \in Nat \ {0} /\ DOMAIN copied[t] = 1 .. Len(copied[t])
  BY <1>2
<1>4. Base(t) \in 0 .. CountOf(t) - 1
  BY <1>2, <1>3 DEF Base
<1>5. \A k \in 1 .. Len(copied[t]) : copied[t][k].slice = Base(t) + k - 1
  BY <1>3 DEF DriverInv, CopiedOK
<1>6. /\ \A i \in 0 .. Base(t) - 1 : SourceTime(t, i) < TimeStamp[FirstSync]
      /\ TimeStamp[FirstSync] <= SourceTime(t, Base(t))
  BY <1>1, <1>2, <1>4 DEF DriverInv, CopiedOK
<1>7. TimeStamp[FirstSync] \in Nat
  <2>1. FirstSync \in 0 .. SampleCount
    BY <1>1, FirstSyncFacts, SampleCountAssumption DEF Syncs, Samples
  <2> QED  BY <2>1, VideoTimes
<1>8. copied[t][1].slice = Base(t)
  BY <1>3, <1>4, <1>5
<1>9. \A k \in 2 .. Len(copied[t]) : copied[t][k].slice = copied[t][k - 1].slice + 1
  <2> SUFFICES ASSUME NEW k \in 2 .. Len(copied[t])
               PROVE  copied[t][k].slice = copied[t][k - 1].slice + 1
    OBVIOUS
  <2>1. k \in 1 .. Len(copied[t]) /\ k - 1 \in 1 .. Len(copied[t])
    BY <1>3
  <2>2. copied[t][k].slice = Base(t) + k - 1 /\ copied[t][k - 1].slice = Base(t) + (k - 1) - 1
    BY <1>5, <2>1
  <2> QED  BY <1>4, <2>2
<1> QED
  BY <1>1, <1>4, <1>6, <1>7, <1>8, <1>9, LeastNotBefore

LEMMA DistancesKept == DriverInv => KeepsDistances
<1> SUFFICES ASSUME DriverInv, NEW t \in Tracks, NEW k \in DOMAIN copied[t]
             PROVE  SourceTime(t, copied[t][k].slice) - copied[t][k].time = timeStart[t]
  BY DEF KeepsDistances
<1>1. /\ copied[t] \in Seq([slice : Nat, time : Nat]) /\ copied[t] # <<>>
      /\ DOMAIN copied[t] = 1 .. Len(copied[t]) /\ Len(copied[t]) \in Nat
      /\ timeStart[t] \in Nat
  BY DEF DriverInv, DriverTypeOK
<1>2. Opened(t)
  BY <1>1 DEF DriverInv, SourcesOK
<1>3. At(t) \in 0 .. CountOf(t) /\ Base(t) >= 0 /\ CountOf(t) \in Nat
  BY <1>2, TimesOrdered DEF DriverInv, SourcesOK
<1>4. Base(t) + k - 1 \in 0 .. CountOf(t)
  <2>1. Base(t) \in Int /\ Base(t) + Len(copied[t]) = At(t)
    <3> DEFINE a == At(t)
               m == Len(copied[t])
    <3>1. a \in Int /\ m \in Int /\ Base(t) = a - m
      BY <1>1, <1>3 DEF Base
    <3> HIDE DEF a, m
    <3>2. Base(t) \in Int /\ Base(t) + m = a
      BY <3>1
    <3> QED  BY <3>2 DEF a, m
  <2> DEFINE n == Len(copied[t])
             b == Base(t)
  <2>2. k \in 1 .. n /\ n \in Nat /\ b \in Nat /\ b + n \in 0 .. CountOf(t) /\ CountOf(t) \in Nat
    BY <1>1, <1>3, <2>1
  <2> HIDE DEF n, b
  <2>3. b + k - 1 \in 0 .. CountOf(t)
    BY <2>2
  <2> QED  BY <2>3 DEF b
<1>5. SourceTime(t, Base(t) + k - 1) \in Nat
  BY <1>4, TimesOrdered
<1>6. /\ copied[t][k].slice = Base(t) + k - 1
      /\ copied[t][k].time = SourceTime(t, Base(t) + k - 1) - timeStart[t]
  BY DEF DriverInv, CopiedOK
<1> QED  BY <1>1, <1>5, <1>6

(* No recoding ends with "Offset time stamping error": the slice put next  *)
(* is never before the time stamp its track is rebased by (Recode, the     *)
(* copying loop).                                                          *)
THEOREM OffsetNeverFails == DriverSpec => []NeverFails
  BY DriverInvAlways, PTL DEF DriverInv

(* Whatever the two video enumerators do to the cache between them, each   *)
(* destination track gets consecutive slices of its source, each once,     *)
(* from the first one not before the first sync point of the range.        *)
THEOREM AlwaysFromSyncPoint == DriverSpec => []CopiesFromSyncPoint
  BY DriverInvAlways, CopiesFrom, PTL

(* When Recode is through, no slice of the range is missing, and it ends   *)
(* with nothing only when the range has no sync point.                     *)
THEOREM NeverMissing == DriverSpec => []NothingIsMissing
  BY DriverInvAlways, PTL DEF DriverInv

(* No slice is put that starts after a sync point behind the range.        *)
THEOREM AlwaysStops == DriverSpec => []StopsAtSyncPoint
  BY DriverInvAlways, PTL DEF DriverInv

(* The slices of a destination track keep the distances of the source.     *)
THEOREM DistancesAlwaysKept == DriverSpec => []KeepsDistances
  BY DriverInvAlways, DistancesKept, PTL
=============================================================================
