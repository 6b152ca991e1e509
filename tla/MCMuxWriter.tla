---------------------------- MODULE MCMuxWriter ----------------------------
(***************************************************************************)
(* Sources for the writer.  A video source is a sequence of slice types; a *)
(* slice is as long as the track's Step says, B frames have no time stamp, *)
(* as in QBoxTrackFormat, and sizes are chosen to differ or to agree.      *)
(***************************************************************************)
EXTENDS MuxReadBack

CONSTANTS v, a, none

Of(types, step, Size(_)) ==
  [k \in DOMAIN types |->
     [type     |-> types[k],
      size     |-> Size(k),
      time     |-> IF types[k] = "BFrame" THEN none ELSE (k - 1) * step,
      duration |-> step,
      cts      |-> 0]]

I == "IFrame"
D == "DFrame"
B == "BFrame"

Sound(n) == [k \in 1 .. n |-> "MP4A"]
Varied(k) == 1 + ((k * k) % 5)
Same(k)   == 3

Movie     == <<I, D, B, B, D, B, D, I, B, D, D, I, I>>
QBoxMovie == <<I, D, B, B, D, B, D, B, D, I, B, D>>
LateB     == <<I, D, D, D, D, D, D, I, D, D, B, I>>

VideoOnly == <<v>>
AudioVideo == <<a, v>>

(* The durations of a recording jitter.                                    *)
Jittered(slices) ==
  [k \in DOMAIN slices |->
     IF k % 3 = 0 THEN [slices[k] EXCEPT !.duration = @ + 5] ELSE slices[k]]

MovieAndSound == v :> Jittered(Of(Movie, 10, Varied)) @@ a :> Of(Sound(11), 4, Varied)
EqualSizes    == v :> Of(Movie, 10, Same)
QBoxSource    == v :> Of(QBoxMovie, 10, Varied)
LateBFrames   == v :> Of(LateB, 10, Varied)
(* Slices too short for one unit of the media header.                      *)
ShortSlices   == v :> [Of(Movie, 10, Varied) EXCEPT ![2].duration = 1, ![3].duration = 1]
=============================================================================
