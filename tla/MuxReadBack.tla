---------------------------- MODULE MuxReadBack ----------------------------
(***************************************************************************)
(* A file that MP4StreamWriter finished, read again by the reader of the   *)
(* same program: the boxes as they were written, and what the reader then  *)
(* makes of them.                                                          *)
(***************************************************************************)
EXTENDS MuxWriter, SampleTables

(***************************************************************************)
(* SampleSizeBox.FinalizeBox: one size for all samples when they agree;    *)
(* the count is then left 0.                                               *)
(***************************************************************************)
SizesAsWritten(t) ==
  IF \A n \in DOMAIN stsz[t] : stsz[t][n] = stsz[t][1] /\ stsz[t][1] # 0
  THEN [all |-> stsz[t][1], count |-> 0, each |-> <<>>]
  ELSE [all |-> 0, count |-> Len(stsz[t]), each |-> stsz[t]]

(* Mutant: Fixup is not called.                                            *)
OffsetsNotFixed(t) == [n \in DOMAIN stco[t] |-> stco[t][n] % Word]

(* ChunkOffsetBox.Write, after Fixup.                                      *)
OffsetsAsWritten(t) == [n \in DOMAIN stco[t] |-> (stco[t][n] + headerSize) % Word]

(* A track without stss: every sample counts as a sync sample.             *)
SyncAsWritten(t) == IF t \in VideoTracks THEN ToSet(stss[t]) ELSE 1 .. Len(stsz[t]) + 1

Written(t) ==
  [stts |-> stts[t].runs,
   ctts |-> ctts[t].runs,
   stsz |-> SizesAsWritten(t),
   stsc |-> <<[firstChunk |-> 1, perChunk |-> 1]>>,
   stco |-> OffsetsAsWritten(t),
   stss |-> SyncAsWritten(t)]

(* Where the payload of a slice is in the finished file, after the header  *)
(* of the mdat box.                                                        *)
PayloadAt(t, i) ==
  {mdat[r].at + headerSize + 8 : r \in {q \in DOMAIN mdat : mdat[q].track = t /\ mdat[q].index = i}}

ReadAgain(t) == SampleList(Written(t), 1, put[t], TimeScale, TicksPerSecond)

TimeBefore(t, i) ==
  InTicks(Total([k \in 1 .. i |-> ScaledDuration(Source[t][k].duration)]), TimeScale, TicksPerSecond)

-----------------------------------------------------------------------------
(***************************************************************************)
(* The reader finds every slice that was put, and no other, at the place   *)
(* its payload has in the file and with its size.                          *)
(***************************************************************************)
ReadsPayloads ==
  state = "Closed" =>
    \A t \in Tracks :
      /\ ReadAgain(t).ok
      /\ {s.index : s \in ReadAgain(t).samples} = 0 .. put[t] - 1
      /\ \A s \in ReadAgain(t).samples :
           s.offset \in PayloadAt(t, s.index) /\ s.size = SliceAt(t, s.index).size

(***************************************************************************)
(* The reader gives every slice the time that the durations of the slices  *)
(* before it add up to, and takes exactly the IFrames of a video track for *)
(* sync samples.                                                           *)
(***************************************************************************)
ReadsTiming ==
  state = "Closed" =>
    \A t \in Tracks : \A s \in ReadAgain(t).samples :
      /\ s.time = TimeBefore(t, s.index)
      /\ t \in VideoTracks => s.sync = (SliceAt(t, s.index).type = "IFrame")

(***************************************************************************)
(* The reader gives a slice that lags behind (a B frame, or a slice        *)
(* without a time stamp) a composition offset of the durations since the   *)
(* last slice that does not, and every other slice none.                   *)
(***************************************************************************)
LagOf(t, i) ==
  LET caughtUp == {k \in 0 .. i : ~LagsBehind(SliceAt(t, k))}
      last     == IF caughtUp = {} THEN -1 ELSE Max(caughtUp)
  IN  Total([k \in 1 .. i - last |-> ScaledDuration(SliceAt(t, last + k).duration)])

ReadsComposition ==
  state = "Closed" =>
    \A t \in CTTSOut :
      /\ ReadAgain(t).ok
      /\ \A s \in ReadAgain(t).samples : s.ctts = LagOf(t, s.index)

(***************************************************************************)
(* The reader accepts the chunk tables of the file: SampleTableBox.Read    *)
(* ends with CheckIntegrityOfChunkData.                                    *)
(***************************************************************************)
AcceptsChunkTables ==
  state = "Closed" => \A t \in Tracks : ChunkDataIsGood(Written(t))

(***************************************************************************)
(* stts counts every sample.                                               *)
(***************************************************************************)
SttsCountsSamples ==
  state = "Closed" => \A t \in Tracks : Len(Expand(stts[t].runs)) = put[t]

(***************************************************************************)
(* FinalizeStream, once called, finishes the file or raises an exception.  *)
(***************************************************************************)
FinalizationEnds == flushing > 0 ~> state \in {"Closed", "Failed"}
=============================================================================
