--------------------------- MODULE SyntaxElements ---------------------------
(***************************************************************************)
(* The syntax elements of headers and parameter sets, as bits: how the     *)
(* encoder writes them (lencod/src/vlc.c, SODBtoRBSP of lencod/src/nal.c)  *)
(* and how the decoder reads them again (ldecod/src/vlc.c).  A kind of     *)
(* element is <<"ue">> and <<"se">>, the unsigned and signed Exp-Golomb    *)
(* codes, or <<"u", n>>, n bits.  Values stay below 2^30; the overflow of  *)
(* ue_linfo at INT_MAX is outside the model.                               *)
(***************************************************************************)
EXTENDS Integers, Sequences, SequencesExt

\* The n lowest bits of a number, the highest first.
LowBits(v, n) == [k \in 1..n |-> (v \div 2^(n - k)) % 2]

\* The number that a sequence of bits stands for.
Number(bits) == FoldLeft(LAMBDA inf, bit : 2 * inf + bit, 0, bits)

Magnitude(v) == IF v < 0 THEN -v ELSE v

\* How often a number can be halved until nothing is left of it.
Halvings(v) == CHOOSE i \in 0..31 : v \div 2^i = 0 /\ (i > 0 => v \div 2^(i - 1) > 0)
-----------------------------------------------------------------------------
(* Writing.                                                                *)

\* A code word: suffix zeros, a one, and the suffix lowest bits of info.
CodeWord(suffix, info) ==
  [k \in 1..suffix |-> 0] \o LowBits(2^suffix + (info % 2^suffix), suffix + 1)

CodeUnsigned(ue) == LET i == Halvings((ue + 1) \div 2)
                    IN  CodeWord(i, ue + 1 - 2^i)

SignOf(se) == IF se <= 0 THEN 1 ELSE 0

CodeSigned(se) == LET i == Halvings(Magnitude(se))
                  IN  CodeWord(i, 2 * Magnitude(se) - 2^i + SignOf(se))

CodeOf(kind, v) == CASE kind[1] = "ue" -> CodeUnsigned(v)
                     [] kind[1] = "se" -> CodeSigned(v)
                     [] OTHER -> LowBits(v, kind[2])

\* The bytes of a payload: its elements, the stop bit, zeros to the next byte.
Rbsp(kinds, values) ==
  LET bits   == FlattenSeq([k \in 1..Len(values) |-> CodeOf(kinds[k], values[k])]) \o <<1>>
      bytes  == (Len(bits) + 7) \div 8
      padded == bits \o [k \in 1..(8 * bytes - Len(bits)) |-> 0]
  IN  [k \in 1..bytes |-> Number(SubSeq(padded, 8 * k - 7, 8 * k))]
-----------------------------------------------------------------------------
(* Reading; "at" counts the bits already read (frame_bitoffset).           *)

BitAt(bytes, at) == LowBits(bytes[(at \div 8) + 1], 8)[(at % 8) + 1]

BitsFrom(bytes, at, n) == [k \in 1..n |-> BitAt(bytes, at + k - 1)]

\* Mutant: the first one in the last byte is taken for the stop bit.
MoreDataUpToOne(bytes, at) == at \div 8 < Len(bytes) - 1 \/ BitAt(bytes, at) = 0

\* Before the last byte there always is more; in it there is as long as the
\* bit at hand is not the last one set.
MoreData(bytes, at) ==
  \/ at \div 8 < Len(bytes) - 1
  \/ BitAt(bytes, at) = 0
  \/ \E k \in (at + 1)..(8 * (at \div 8) + 7) : BitAt(bytes, k) = 1

\* The length of the zeros before the next one.
LeadingZeros(bytes, at) ==
  CHOOSE n \in 0..(8 * Len(bytes) - at - 1) :
    /\ BitAt(bytes, at + n) = 1
    /\ \A k \in 0..(n - 1) : BitAt(bytes, at + k) = 0

\* linfo_se: odd code numbers are positive, even ones are not.
SignedOf(n) == IF n % 2 = 0 THEN -((n + 1) \div 2) ELSE (n + 1) \div 2

\* The element of a kind at a position, and the position after it.
ReadElement(bytes, at, kind) ==
  IF kind[1] = "u"
  THEN [value |-> Number(BitsFrom(bytes, at, kind[2])), at |-> at + kind[2]]
  ELSE LET n    == LeadingZeros(bytes, at)
           code == 2^n + Number(BitsFrom(bytes, at + n + 1, n)) - 1
       IN  [value |-> IF kind[1] = "se" THEN SignedOf(code) ELSE code,
            at    |-> at + 2 * n + 1]

\* The elements of a payload whose syntax is kinds, read while there is more.
Elements(kinds, bytes) ==
  LET Take(got, kind) ==
        IF MoreData(bytes, got.at)
        THEN LET e == ReadElement(bytes, got.at, kind)
             IN  [at |-> e.at, values |-> Append(got.values, e.value)]
        ELSE got
  IN  FoldLeft(Take, [at |-> 0, values |-> <<>>], kinds).values
=============================================================================
