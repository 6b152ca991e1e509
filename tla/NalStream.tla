----------------------------- MODULE NalStream -----------------------------
(***************************************************************************)
(* The byte stream file between the JM encoder and the JM decoder: the     *)
(* encoder puts each unit behind a start code, with emulation prevention   *)
(* bytes so that no start code appears inside it (RBSPtoEBSP,              *)
(* addCabacZeroWords, WriteAnnexbNALU); the decoder looks for the start    *)
(* codes and takes the prevention bytes out again (get_annex_b_NALU,       *)
(* EBSPtoRBSP, RBSPtoSODB).  The loops over the bytes of a unit take one   *)
(* step per byte.  The decoder is another program, run on a complete file. *)
(*                                                                         *)
(* Outside the model: RTP files, the three further header bytes of MVC     *)
(* units, the size limits of the buffers, failing file operations.         *)
(***************************************************************************)
EXTENDS Integers, Sequences, FiniteSetsExt

CONSTANTS Units,         \* the units the encoder may write
          MaxUnits,      \* how many it writes, at most
          MaxZeroWords,  \* cabac_zero_words behind a unit, at most
          MaxPadding     \* zero bytes of a multiplexer around units, at most

Byte == 0..255

UnitType == [ref : 0..3, type : (1..31) \ {14, 20}, rbsp : Seq(Byte)]

\* A unit ends with the byte that holds its stop bit.
ASSUME UnitsAssumption ==
  Units \subseteq {u \in UnitType : u.rbsp # <<>> /\ u.rbsp[Len(u.rbsp)] # 0}

ASSUME BoundsAssumption ==
  MaxUnits \in Nat /\ MaxZeroWords \in Nat /\ MaxPadding \in Nat

VARIABLES file,     \* the bytes of the file
          writer,   \* the encoder: the unit at hand and its bytes so far
          written,  \* the units in the file
          reader,   \* the decoder: position in the file, the unit at hand
          read      \* the units the decoder has got

vars == <<file, writer, written, reader, read>>

Zeros(n) == [k \in 1..n |-> 0]

Idle == [at |-> "idle", unit |-> <<>>, i |-> 1, count |-> 0, buf |-> <<>>]

Init == /\ file = <<>>
        /\ writer = Idle
        /\ written = <<>>
        /\ reader = [at |-> "start", pos |-> 0, next |-> 0, eof |-> FALSE,
                     nal |-> <<>>, i |-> 1, count |-> 0, out |-> <<>>]
        /\ read = <<>>
-----------------------------------------------------------------------------
(* The encoder.                                                            *)

StartUnit(u) ==
  /\ writer.at = "idle"
  /\ Len(written) < MaxUnits
  /\ writer' = [Idle EXCEPT !.at = "escape", !.unit = u]
  /\ UNCHANGED <<file, written, reader, read>>

\* A byte that would end a start code or a prevention byte behind two zeros.
NeedsEscape(count, b) == count = 2 /\ b <= 3

\* Mutant: the count goes on over a prevention byte.
CountThrough(count, b) == IF b # 0 THEN 0 ELSE IF count = 2 THEN 2 ELSE count + 1

\* The zeros at the end of the output, after a byte and what precedes it;
\* a prevention byte starts the count anew.
CountAfter(count, b) ==
  IF b # 0 THEN 0 ELSE IF NeedsEscape(count, b) THEN 1 ELSE count + 1

\* One iteration of RBSPtoEBSP.
EscapeByte ==
  /\ writer.at = "escape"
  /\ writer.i <= Len(writer.unit.rbsp)
  /\ LET b == writer.unit.rbsp[writer.i]
     IN  writer' = [writer EXCEPT
           !.i = @ + 1,
           !.count = CountAfter(@, b),
           !.buf = IF NeedsEscape(writer.count, b) THEN @ \o <<3, b>> ELSE Append(@, b)]
  /\ UNCHANGED <<file, written, reader, read>>

StartCode(long) == IF long THEN <<0, 0, 0, 1>> ELSE <<0, 0, 1>>

ZeroWords(n) == [k \in 1..(3 * n) |-> IF k % 3 = 0 THEN 3 ELSE 0]

Header(unit) == unit.ref * 32 + unit.type

\* The bytes of a unit in the file.
Nal(unit, buf, words) == <<Header(unit)>> \o buf \o ZeroWords(words)

\* The unit is complete and goes to the file.  The zeros around units are
\* those of another encoder or a multiplexer; the standard allows them before
\* the first unit and behind every unit.
WriteUnit ==
  /\ writer.at = "escape"
  /\ writer.i > Len(writer.unit.rbsp)
  /\ \E words \in 0..MaxZeroWords, long \in BOOLEAN, trailing \in 0..MaxPadding :
     \E leading \in IF written = <<>> THEN 0..MaxPadding ELSE {0} :
       file' = file \o Zeros(leading) \o StartCode(long)
                    \o Nal(writer.unit, writer.buf, words) \o Zeros(trailing)
  /\ written' = Append(written, writer.unit)
  /\ writer' = Idle
  /\ UNCHANGED <<reader, read>>

Close == /\ writer.at = "idle"
         /\ writer' = [writer EXCEPT !.at = "closed"]
         /\ UNCHANGED <<file, written, reader, read>>
-----------------------------------------------------------------------------
(* The decoder: get_annex_b_NALU.                                          *)

NonZeros(a, b) == {k \in a..b : file[k] # 0}

\* The last bytes of the start codes behind position s, which holds the last
\* byte of a start code itself.
StartCodes(s) ==
  {k \in (s + 3)..Len(file) : file[k] = 1 /\ file[k - 1] = 0 /\ file[k - 2] = 0}

\* The file is finished when the read of the previous unit met its end, or
\* when it was empty from the start.
AtEnd == reader.next = 0 /\ (reader.eof \/ file = <<>>)

\* Where the start code of the next unit ends: read together with the
\* previous unit, or behind the first zeros of the file.
StartCodeEnd == IF reader.next # 0 THEN reader.pos ELSE Min(NonZeros(1, Len(file)))

HasStartCode ==
  reader.next # 0 \/ /\ NonZeros(1, Len(file)) # {}
                     /\ file[StartCodeEnd] = 1
                     /\ StartCodeEnd >= 3

\* The unit goes to the next start code, or to the end of the file.  Zeros
\* before a start code of four bytes or the end are not part of it.
FetchFrom(s) ==
  LET next == Min(StartCodes(s))
      long == file[next - 3] = 0
  IN  IF StartCodes(s) = {}
      THEN [reader EXCEPT !.eof = TRUE, !.next = 0,
                          !.nal = SubSeq(file, s + 1, Max(NonZeros(s, Len(file))))]
      ELSE [reader EXCEPT !.pos = next, !.next = IF long THEN 4 ELSE 3,
                          !.nal = SubSeq(file, s + 1, IF long THEN Max(NonZeros(s, next - 4))
                                                              ELSE next - 3)]

FetchUnit ==
  /\ writer.at = "closed"
  /\ reader.at = "start"
  /\ reader' = CASE AtEnd -> [reader EXCEPT !.at = "end"]
                 [] ~AtEnd /\ ~HasStartCode -> [reader EXCEPT !.at = "error"]
                 [] OTHER -> [FetchFrom(StartCodeEnd) EXCEPT
                                !.at = "unescape", !.i = 2, !.count = 0, !.out = <<>>]
  /\ UNCHANGED <<file, writer, written, read>>
-----------------------------------------------------------------------------
(* The decoder: EBSPtoRBSP, read_next_nalu, RBSPtoSODB.                    *)

\* A byte that may not stand behind two zeros.
IsForbidden(nal, i, count) ==
  /\ count = 2
  /\ nal[i] < 3 \/ (nal[i] = 3 /\ i < Len(nal) /\ nal[i + 1] > 3)

IsPrevention(nal, i, count) == count = 2 /\ nal[i] = 3

Copy(i, zeros) ==
  [reader EXCEPT !.i = i + 1,
                 !.out = Append(@, reader.nal[i]),
                 !.count = IF reader.nal[i] = 0 THEN zeros + 1 ELSE 0]

\* One iteration of EBSPtoRBSP, which starts behind the header byte.
UnescapeByte ==
  /\ reader.at = "unescape"
  /\ reader.i <= Len(reader.nal)
  /\ reader' = CASE IsForbidden(reader.nal, reader.i, reader.count) ->
                      [reader EXCEPT !.at = "error"]
                 [] ~IsPrevention(reader.nal, reader.i, reader.count) ->
                      Copy(reader.i, reader.count)
                 [] OTHER -> IF reader.i = Len(reader.nal)
                             THEN [reader EXCEPT !.i = @ + 1]
                             ELSE Copy(reader.i + 1, 0)
  /\ UNCHANGED <<file, writer, written, read>>

\* The position of the last byte that is not zero, where the stop bit is.
StopByte(rbsp) == Max({k \in 1..Len(rbsp) : rbsp[k] # 0})

\* What the decoder makes of a header byte and the bytes behind it.
Decoded(header, rbsp) == [ref  |-> (header \div 32) % 4,
                          type |-> header % 32,
                          rbsp |-> SubSeq(rbsp, 1, StopByte(rbsp))]

DeliverUnit ==
  /\ reader.at = "unescape"
  /\ reader.i > Len(reader.nal)
  /\ IF reader.nal[1] >= 128
     THEN reader' = [reader EXCEPT !.at = "error"] /\ UNCHANGED read
     ELSE /\ reader' = [reader EXCEPT !.at = "start"]
          /\ read' = Append(read, Decoded(reader.nal[1], reader.out))
  /\ UNCHANGED <<file, writer, written>>
-----------------------------------------------------------------------------
Write == (\E u \in Units : StartUnit(u)) \/ EscapeByte \/ WriteUnit \/ Close

Read == FetchUnit \/ UnescapeByte \/ DeliverUnit

Next == Write \/ Read

\* The decoder is a loop that goes on while there is input.
Spec == Init /\ [][Next]_vars /\ WF_vars(Read)
-----------------------------------------------------------------------------
WriterType ==
  [at : {"idle", "escape", "closed"}, unit : Units \union {<<>>}, i : Nat, count : 0..2, buf : Seq(Byte)]

ReaderType ==
  [at : {"start", "unescape", "end", "error"}, pos : Nat, next : {0, 3, 4}, eof : BOOLEAN,
   nal : Seq(Byte), i : Nat, count : 0..2, out : Seq(Byte)]

\* The types of the variables; a writer or reader never counts more than two
\* zeros, whatever bytes it meets.
TypeOK == /\ file \in Seq(Byte)
          /\ writer \in WriterType
          /\ written \in Seq(Units)
          /\ reader \in ReaderType
          /\ read \in Seq(UnitType)

\* What the decoder has got is what the encoder wrote, as far as it has got.
ReadsWhatWasWritten ==
  /\ Len(read) <= Len(written)
  /\ \A k \in 1..Len(read) : read[k] = written[k]

\* The decoder never stops at a unit of the encoder.
NoError == reader.at # "error"
=============================================================================
