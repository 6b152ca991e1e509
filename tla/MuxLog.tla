------------------------------- MODULE MuxLog -------------------------------
(***************************************************************************)
(* What a writer of media files promises, without blocks, tables and       *)
(* offsets: each track is a log.  Slices are accepted one after the other  *)
(* and reach the payload of the file in that order, each once; a file is   *)
(* closed only when everything accepted has reached it.  The writer may    *)
(* give up at any time, and then the file is never closed.                 *)
(***************************************************************************)
EXTENDS Integers, Sequences

CONSTANT Tracks

VARIABLES
  accepted,   \* how many slices of each track were accepted
  payload,    \* the slices of each track in the file, by index
  outcome     \* "open", "closed" or "given up"

vars == <<accepted, payload, outcome>>

Init ==
  /\ accepted = [t \in Tracks |-> 0]
  /\ payload = [t \in Tracks |-> <<>>]
  /\ outcome = "open"

Accept(t) ==
  /\ outcome = "open"
  /\ accepted' = [accepted EXCEPT ![t] = @ + 1]
  /\ UNCHANGED <<payload, outcome>>

Write(t) ==
  /\ outcome = "open"
  /\ Len(payload[t]) < accepted[t]
  /\ payload' = [payload EXCEPT ![t] = Append(@, Len(@))]
  /\ UNCHANGED <<accepted, outcome>>

Close ==
  /\ outcome = "open"
  /\ \A t \in Tracks : Len(payload[t]) = accepted[t]
  /\ outcome' = "closed"
  /\ UNCHANGED <<accepted, payload>>

(* A slice may be accepted by the call that gives up.                      *)
GiveUp ==
  /\ outcome = "open"
  /\ outcome' = "given up"
  /\ \/ UNCHANGED accepted
     \/ \E t \in Tracks : accepted' = [accepted EXCEPT ![t] = @ + 1]
  /\ UNCHANGED payload

Next == (\E t \in Tracks : Accept(t) \/ Write(t)) \/ Close \/ GiveUp

Spec == Init /\ [][Next]_vars
=============================================================================
