---------------------------- MODULE MCNalStream ----------------------------
(***************************************************************************)
(* The byte stream file with the syntax elements of its units: the encoder *)
(* codes elements into a unit, and what the decoder parses out of the      *)
(* units it reads are the same elements.                                   *)
(***************************************************************************)
EXTENDS NalStream, SyntaxElements

VARIABLES payload,  \* the elements of the unit at hand
          coded,    \* the elements of the units written
          parsed    \* the elements of the units read

\* The syntax of each type of unit, and the elements written as it.
Kinds == [t \in {6, 7} |-> IF t = 6 THEN <<<<"u", 8>>, <<"u", 8>>, <<"u", 8>>, <<"u", 8>>>>
                                    ELSE <<<<"ue">>, <<"se">>, <<"u", 1>>>>]

UpTo(S, n) == UNION {[1..k -> S] : k \in 0..n}

Payloads ==
  {[ref |-> 0, type |-> 6, values |-> v] : v \in
     UpTo({0}, 3) \union [1..3 -> {0, 3}] \union
     {<<0, 0, 0, 0>>, <<0, 0, 3, 0>>, <<0, 0, 3, 3>>}} \union
  {[ref |-> 3, type |-> 7, values |-> v] : v \in
     {<<0>>, <<254, -1>>, <<255, 0, 1>>, <<0, -128, 1>>, <<4194303, 2>>}}

UnitOf == [p \in Payloads |->
             [ref |-> p.ref, type |-> p.type, rbsp |-> Rbsp(Kinds[p.type], p.values)]]

MCUnits == {UnitOf[p] : p \in Payloads}

StartPayload == /\ \E p \in Payloads : StartUnit(UnitOf[p]) /\ payload' = p
                /\ UNCHANGED <<coded, parsed>>

WritePayload == /\ WriteUnit
                /\ coded' = Append(coded, payload)
                /\ UNCHANGED <<payload, parsed>>

\* The elements of a unit that was read.
Parsed(u) == [ref |-> u.ref, type |-> u.type, values |-> Elements(Kinds[u.type], u.rbsp)]

ParseUnit == /\ DeliverUnit
             /\ parsed' = IF Len(read') > Len(read)
                          THEN Append(parsed, Parsed(read'[Len(read')]))
                          ELSE parsed
             /\ UNCHANGED <<payload, coded>>

Rest == /\ EscapeByte \/ Close \/ FetchUnit \/ UnescapeByte
        /\ UNCHANGED <<payload, coded, parsed>>

CodedNext == StartPayload \/ WritePayload \/ ParseUnit \/ Rest

codedVars == <<vars, payload, coded, parsed>>

CodedInit == Init /\ payload = <<>> /\ coded = <<>> /\ parsed = <<>>

\* The decoder is a loop that goes on while there is input.
CodedSpec == /\ CodedInit
             /\ [][CodedNext]_codedVars
             /\ WF_vars(Read)

Fifo == INSTANCE NalFifo
          WITH Unit     <- Payloads,
               sent     <- coded,
               closed   <- writer.at = "closed",
               received <- parsed

\* The file hands over every unit, with its elements, in the order in which
\* the encoder coded them, and the decoder comes to the last one.
HandsOverInOrder == Fifo!Spec
============================================================================
