------------------------------ MODULE NalFifo ------------------------------
(***************************************************************************)
(* What a byte stream file of the JM codec promises: the encoder sends     *)
(* units into it, closes it, and the decoder then receives the same units, *)
(* in the same order, to the last one.                                     *)
(***************************************************************************)
EXTENDS Naturals, Sequences

CONSTANT Unit       \* the units that can be sent

VARIABLES sent,     \* the units sent so far
          closed,   \* whether the file is complete
          received  \* the units received so far

vars == <<sent, closed, received>>

Init == sent = <<>> /\ closed = FALSE /\ received = <<>>

Send == /\ ~closed
        /\ \E u \in Unit : sent' = Append(sent, u)
        /\ UNCHANGED <<closed, received>>

Close == ~closed /\ closed' = TRUE /\ UNCHANGED <<sent, received>>

Receive == /\ closed
           /\ Len(received) < Len(sent)
           /\ received' = Append(received, sent[Len(received) + 1])
           /\ UNCHANGED <<sent, closed>>

Next == Send \/ Close \/ Receive

Spec == Init /\ [][Next]_vars /\ WF_vars(Receive)
============================================================================
