---------------------------- MODULE TrackCursor ----------------------------
(***************************************************************************)
(* What enumerating a track promises, whatever caching is behind it: every *)
(* enumerator visits the samples 0 .. SampleCount - 1 one after another,   *)
(* stops right after the last one and not before, and gets there if its    *)
(* caller keeps asking.                                                    *)
(***************************************************************************)
EXTENDS Integers

CONSTANTS SampleCount, Enumerators

VARIABLES position, ended

cursorVars == <<position, ended>>

Init ==
  /\ position = [e \in Enumerators |-> -1]
  /\ ended = [e \in Enumerators |-> FALSE]

(* To the next sample, or past the last one.                               *)
Advance(e) ==
  /\ ~ended[e]
  /\ position' = [position EXCEPT ![e] = @ + 1]
  /\ ended' = [ended EXCEPT ![e] = position[e] + 1 = SampleCount]

(* Back in front of the first sample.                                      *)
Restart(e) ==
  /\ ended[e]
  /\ position' = [position EXCEPT ![e] = -1]
  /\ ended' = [ended EXCEPT ![e] = FALSE]

Next == \E e \in Enumerators : Advance(e) \/ Restart(e)

Spec == Init /\ [][Next]_cursorVars /\ \A e \in Enumerators : WF_cursorVars(Advance(e))
=============================================================================
