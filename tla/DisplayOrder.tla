---------------------------- MODULE DisplayOrder ----------------------------
(***************************************************************************)
(* What a decoder promises of the order of its pictures: frames come in    *)
(* decoding order and are shown once each in the order of their picture    *)
(* order counts, until a new sequence starts from nothing.                 *)
(***************************************************************************)
EXTENDS Integers

CONSTANTS
    Pocs,       \* picture order counts of frames
    Nothing     \* shown before the first frame of a sequence

VARIABLES
    waiting,        \* POCs of the frames that came and were not shown
    shown           \* POC of the last frame shown, or Nothing

vars == <<waiting, shown>>

Init == waiting = {} /\ shown = Nothing

MayShow(poc) == shown = Nothing \/ shown < poc

Arrive(poc) ==
    /\ poc \notin waiting /\ MayShow(poc)
    /\ waiting' = waiting \cup {poc}
    /\ UNCHANGED shown

\* The frame that is first of all that are here, the one just coming included.
Show(poc) ==
    /\ MayShow(poc)
    /\ \A other \in waiting : poc <= other
    /\ shown' = poc
    /\ waiting' = waiting \ {poc}

\* A new sequence starts when everything was shown, or drops the rest.
Restart == waiting = {} /\ shown' = Nothing /\ UNCHANGED waiting
Discard == waiting' = {} /\ shown' = Nothing

Next == (\E poc \in Pocs : Arrive(poc) \/ Show(poc)) \/ Restart \/ Discard

Spec == Init /\ [][Next]_vars
=============================================================================
