--------------------------- MODULE NalStreamProofs ---------------------------
(***************************************************************************)
(* Theorems about NalStream, for units of any length and any number of     *)
(* them.                                                                   *)
(***************************************************************************)
EXTENDS NalStream, SequenceTheorems, TLAPS

-----------------------------------------------------------------------------
(* The invariant                                                           *)

\* How the first n bytes of rbsp come to stand behind the first o bytes of
\* buf: byte k at o + f[k], with c[k] zeros counted when it is out.
Escaped(rbsp, n, buf, o, f, c) ==
  /\ f \in [0..n -> Nat] /\ f[0] = 0
  /\ c \in [0..n -> 0..2] /\ c[0] = 0
  /\ \A j, k \in 0..n : j < k => f[j] < f[k]
  /\ \A k \in 1..n :
       /\ c[k] = CountAfter(c[k - 1], rbsp[k])
       /\ buf[o + f[k]] = rbsp[k]
       /\ IF NeedsEscape(c[k - 1], rbsp[k])
          THEN f[k] = f[k - 1] + 2 /\ buf[o + f[k] - 1] = 3
          ELSE f[k] = f[k - 1] + 1

NoStartCode(s) == \A j \in 3..Len(s) : ~(s[j] = 1 /\ s[j - 1] = 0 /\ s[j - 2] = 0)

\* The count is the number of zeros at the end of the output.
CountsZeros(buf, count) ==
  /\ count = 0 => buf = <<>> \/ buf[Len(buf)] # 0
  /\ count = 1 => Len(buf) = 1 \/ (Len(buf) > 1 /\ buf[Len(buf) - 1] # 0)

IsOutput(rbsp, n, buf, count) ==
  \E f, c : Escaped(rbsp, n, buf, 0, f, c) /\ f[n] = Len(buf) /\ c[n] = count

Escaping(rbsp, n, buf, count) ==
  /\ IsOutput(rbsp, n, buf, count)
  /\ NoStartCode(buf)
  /\ CountsZeros(buf, count)

WriterOK ==
  writer.at = "escape" =>
    /\ writer.unit \in Units
    /\ writer.i \in 1..(Len(writer.unit.rbsp) + 1)
    /\ Escaping(writer.unit.rbsp, writer.i - 1, writer.buf, writer.count)

\* A unit as it is in the file, with w zero words behind its payload.
IsUnit(nal, u, f, c, w) ==
  LET n == Len(u.rbsp)
  IN  /\ nal \in Seq(Byte)
      /\ w \in Nat
      /\ Escaped(u.rbsp, n, nal, 1, f, c)
      /\ Len(nal) = 1 + f[n] + 3 * w
      /\ nal[1] = Header(u)
      /\ \A j \in 1..(3 * w) : nal[1 + f[n] + j] = IF j % 3 = 0 THEN 3 ELSE 0

UnitNal(nal, u) ==
  /\ \E f, c, w : IsUnit(nal, u, f, c, w)
  /\ NoStartCode(nal)
  /\ nal[Len(nal)] # 0

\* Unit k of a file F lies behind the start code that ends at e[k] and ends
\* at m[k]; everything between a unit and the next start code is zero.
Layout(F, W, e, m) ==
  /\ e \in [1..Len(W) -> Nat]
  /\ m \in [1..Len(W) -> Nat]
  /\ \A k \in 1..Len(W) :
       /\ 3 <= e[k] /\ e[k] < m[k] /\ m[k] <= Len(F)
       /\ F[e[k]] = 1 /\ F[e[k] - 1] = 0 /\ F[e[k] - 2] = 0
       /\ UnitNal(SubSeq(F, e[k] + 1, m[k]), W[k])
  /\ \A k \in 1..(Len(W) - 1) :
       /\ e[k + 1] >= m[k] + 3
       /\ \A j \in (m[k] + 1)..(e[k + 1] - 1) : F[j] = 0
  /\ Len(W) = 0 => F = <<>>
  /\ Len(W) > 0 => /\ \A j \in 1..(e[1] - 1) : F[j] = 0
                   /\ \A j \in (m[Len(W)] + 1)..Len(F) : F[j] = 0

IsCopied(out, u, k) == Len(out) = k /\ \A j \in 1..k : out[j] = u.rbsp[j]

\* The decoder is in the payload, with k of its bytes copied.
InPayload(i, count, out, u, f, c) ==
  \E k \in 0..Len(u.rbsp) :
    i = 2 + f[k] /\ count = c[k] /\ IsCopied(out, u, k)

\* The decoder is in the zero words, with q of their bytes consumed.
InZeroWords(i, count, out, u, f, w) ==
  \E q \in 1..(3 * w) :
    /\ i = 2 + f[Len(u.rbsp)] + q
    /\ q < 3 * w => q % 3 = count /\ count # 0
    /\ Len(out) >= Len(u.rbsp)
    /\ \A j \in 1..Len(out) : out[j] = IF j <= Len(u.rbsp) THEN u.rbsp[j] ELSE 0

Unescaping(nal, i, count, out, u) ==
  \E f, c, w : /\ IsUnit(nal, u, f, c, w)
               /\ InPayload(i, count, out, u, f, c) \/ InZeroWords(i, count, out, u, f, w)

\* What the decoder knows of the unit it has to fetch as number r.
Ahead(r, e) ==
  IF reader.next # 0
  THEN r <= Len(written) /\ reader.pos = e[r] /\ ~reader.eof
  ELSE IF reader.eof THEN r = Len(written) + 1 ELSE r = 1

ReaderOK(e, m) ==
  LET r == Len(read) + 1
  IN  /\ ReadsWhatWasWritten
      /\ NoError
      /\ reader.at = "start" => Ahead(r, e)
      /\ reader.at = "unescape" =>
           /\ r <= Len(written)
           /\ Ahead(r + 1, e) /\ (reader.next = 0 => reader.eof)
           /\ Unescaping(reader.nal, reader.i, reader.count, reader.out, written[r])
      /\ reader.at = "end" => r = Len(written) + 1

\* The decoder runs on a complete file.
AfterClosing ==
  writer.at # "closed" =>
    reader.at = "start" /\ reader.next = 0 /\ ~reader.eof /\ read = <<>>

IInv == /\ TypeOK
        /\ WriterOK
        /\ AfterClosing
        /\ \E e, m : Layout(file, written, e, m) /\ ReaderOK(e, m)
-----------------------------------------------------------------------------
(* The encoder                                                             *)

LEMMA HeaderType ==
    ASSUME NEW ref \in 0..3, NEW type \in 1..31
    PROVE  ref * 32 + type \in 1..127
  OBVIOUS

LEMMA UnitsHaveTypes ==
    ASSUME NEW u \in Units
    PROVE  /\ u \in UnitType
           /\ u.rbsp \in Seq(Byte) /\ Len(u.rbsp) \in Nat /\ Len(u.rbsp) > 0
           /\ \A k \in 1..Len(u.rbsp) : u.rbsp[k] \in Byte
           /\ u.rbsp[Len(u.rbsp)] # 0
           /\ Header(u) \in 1..127
  <1>1. u \in UnitType /\ u.rbsp # <<>> /\ u.rbsp[Len(u.rbsp)] # 0
    BY UnitsAssumption
  <1>2. u.rbsp \in Seq(Byte) /\ u.ref \in 0..3 /\ u.type \in 1..31
    BY <1>1 DEF UnitType
  <1>3. Len(u.rbsp) \in Nat /\ Len(u.rbsp) > 0
    BY <1>1, <1>2, EmptySeq, LenProperties
  <1>4. \A k \in 1..Len(u.rbsp) : u.rbsp[k] \in Byte
    BY <1>2, ElementOfSeq
  <1>5. u.ref * 32 + u.type \in 1..127
    BY <1>2, HeaderType
  <1>6. Header(u) \in 1..127
    BY <1>5 DEF Header
  <1> QED BY <1>1, <1>2, <1>3, <1>4, <1>6

LEMMA CountType ==
    ASSUME NEW count \in 0..2, NEW b \in Byte
    PROVE  CountAfter(count, b) \in 0..2
  BY DEF CountAfter, NeedsEscape, Byte

\* One byte more keeps the description of the output.
LEMMA EscapedGrows ==
    ASSUME NEW rbsp \in Seq(Byte), NEW n \in 0..(Len(rbsp) - 1),
           NEW buf \in Seq(Byte), NEW count \in 0..2,
           IsOutput(rbsp, n, buf, count), NEW more \in Seq(Byte),
           more = IF NeedsEscape(count, rbsp[n + 1]) THEN <<3, rbsp[n + 1]>> ELSE <<rbsp[n + 1]>>
    PROVE  IsOutput(rbsp, n + 1, buf \o more, CountAfter(count, rbsp[n + 1]))
  <1> PICK f, c : Escaped(rbsp, n, buf, 0, f, c) /\ f[n] = Len(buf) /\ c[n] = count
    BY DEF IsOutput
  <1> DEFINE b == rbsp[n + 1]
             g == [k \in 0..(n + 1) |-> IF k <= n THEN f[k] ELSE f[n] + Len(more)]
             d == [k \in 0..(n + 1) |-> IF k <= n THEN c[k] ELSE CountAfter(c[n], b)]
             new == buf \o more
  <1>1. b \in Byte /\ n \in Nat /\ Len(rbsp) \in Nat
    BY ElementOfSeq, LenProperties
  <1>2. /\ Len(more) = IF NeedsEscape(count, b) THEN 2 ELSE 1
        /\ more[Len(more)] = b
        /\ NeedsEscape(count, b) => more[1] = 3
    OBVIOUS
  <1>3. /\ Len(new) = Len(buf) + Len(more)
        /\ \A i \in 1..Len(new) : new[i] = IF i <= Len(buf) THEN buf[i] ELSE more[i - Len(buf)]
    BY ConcatProperties
  <1>13. \A i \in 1..Len(buf) : new[i] = buf[i]
    BY <1>2, <1>3, LenProperties
  <1>4. f \in [0..n -> Nat] /\ c \in [0..n -> 0..2] /\ f[0] = 0 /\ c[0] = 0
    BY DEF Escaped
  <1>5. g \in [0..(n + 1) -> Nat] /\ g[0] = 0
    BY <1>1, <1>2, <1>4
  <1>6. d \in [0..(n + 1) -> 0..2] /\ d[0] = 0
    BY <1>1, <1>4, CountType
  <1>7. \A j, k \in 0..n : j < k => f[j] < f[k]
    BY DEF Escaped
  <1>8. ASSUME NEW k \in 0..n PROVE f[k] <= f[n]
    <2>1. f[k] \in Nat /\ f[n] \in Nat /\ n \in 0..n
      BY <1>1, <1>4
    <2>2. CASE k = n
      BY <2>1, <2>2
    <2>3. CASE k < n
      BY <2>1, <2>3, <1>7
    <2> QED BY <2>2, <2>3, <1>1
  <1>9. ASSUME NEW j \in 0..(n + 1), NEW k \in 0..(n + 1), j < k
        PROVE  g[j] < g[k]
    <2>1. j \in 0..n /\ f[j] \in Nat /\ f[j] <= f[n] /\ f[n] \in Nat
      BY <1>1, <1>4, <1>8, <1>9
    <2>2. CASE k <= n
      BY <2>1, <2>2, <1>1, <1>7, <1>9
    <2>3. CASE k = n + 1
      BY <2>1, <2>3, <1>1, <1>2
    <2> QED BY <2>2, <2>3, <1>1
  <1>10. ASSUME NEW k \in 1..(n + 1)
         PROVE  /\ d[k] = CountAfter(d[k - 1], rbsp[k])
                /\ new[0 + g[k]] = rbsp[k]
                /\ IF NeedsEscape(d[k - 1], rbsp[k])
                   THEN g[k] = g[k - 1] + 2 /\ new[0 + g[k] - 1] = 3
                   ELSE g[k] = g[k - 1] + 1
    <2>1. CASE k \in 1..n
      <3>1. /\ c[k] = CountAfter(c[k - 1], rbsp[k])
            /\ buf[f[k]] = rbsp[k]
            /\ IF NeedsEscape(c[k - 1], rbsp[k])
               THEN f[k] = f[k - 1] + 2 /\ buf[f[k] - 1] = 3
               ELSE f[k] = f[k - 1] + 1
        <4>1. /\ c[k] = CountAfter(c[k - 1], rbsp[k])
              /\ buf[0 + f[k]] = rbsp[k]
              /\ IF NeedsEscape(c[k - 1], rbsp[k])
                 THEN f[k] = f[k - 1] + 2 /\ buf[0 + f[k] - 1] = 3
                 ELSE f[k] = f[k - 1] + 1
          BY <2>1 DEF Escaped
        <4>2. f[k] \in Nat
          BY <2>1, <1>1, <1>4
        <4> HIDE DEF new, g, d
        <4> QED BY <4>1, <4>2
      <3>2. f[k - 1] \in Nat /\ f[k] \in Nat /\ f[k - 1] < f[k] /\ f[k] <= Len(buf)
        BY <2>1, <1>1, <1>4, <1>7, <1>8
      <3>3. g[k] = f[k] /\ g[k - 1] = f[k - 1] /\ d[k] = c[k] /\ d[k - 1] = c[k - 1]
        BY <2>1, <1>1
      <3>4. new[f[k]] = buf[f[k]]
        <4>1. f[k] \in 1..Len(buf)
          BY <3>2, LenProperties
        <4> QED BY <4>1, <1>13
      <3>5. ASSUME f[k] = f[k - 1] + 2 PROVE new[f[k] - 1] = buf[f[k] - 1]
        <4>1. f[k] - 1 \in 1..Len(buf)
          BY <3>2, <3>5, LenProperties, SMTT(30)
        <4> QED BY <4>1, <1>13
      <3> HIDE DEF g, d, new
      <3>6. new[0 + g[k]] = rbsp[k]
        BY <3>1, <3>2, <3>3, <3>4
      <3>7. NeedsEscape(d[k - 1], rbsp[k]) => g[k] = g[k - 1] + 2 /\ new[0 + g[k] - 1] = 3
        BY <3>1, <3>2, <3>3, <3>5
      <3> QED BY <3>1, <3>3, <3>6, <3>7
    <2>2. CASE k = n + 1
      <3>1. g[k] = Len(buf) + Len(more) /\ g[k - 1] = Len(buf)
        BY <2>2, <1>1
      <3>2. d[k] = CountAfter(count, b) /\ d[k - 1] = count
        BY <2>2, <1>1
      <3>3. Len(buf) \in Nat
        BY LenProperties
      <3>4. new[Len(buf) + Len(more)] = b
        BY <3>3, <1>2, <1>3
      <3>5. NeedsEscape(count, b) => new[Len(buf) + 1] = 3
        BY <3>3, <1>2, <1>3
      <3> HIDE DEF g, d, new
      <3>6. new[0 + g[k]] = rbsp[k]
        BY <3>1, <3>3, <3>4, <1>2, <2>2
      <3>7. NeedsEscape(d[k - 1], rbsp[k]) => g[k] = g[k - 1] + 2 /\ new[0 + g[k] - 1] = 3
        BY <3>1, <3>2, <3>3, <3>5, <1>2, <2>2
      <3>8. ~NeedsEscape(d[k - 1], rbsp[k]) => g[k] = g[k - 1] + 1
        BY <3>1, <3>2, <1>2, <2>2
      <3> QED BY <3>2, <3>6, <3>7, <3>8, <2>2
    <2> HIDE DEF g, d, new
    <2> QED BY <2>1, <2>2, <1>1
  <1>11. Escaped(rbsp, n + 1, new, 0, g, d)
    <2> HIDE DEF g, d, new, b
    <2> QED BY <1>5, <1>6, <1>9, <1>10 DEF Escaped
  <1>12. g[n + 1] = Len(new) /\ d[n + 1] = CountAfter(count, b)
    BY <1>1, <1>3
  <1> HIDE DEF g, d, new, b
  <1> QED BY <1>11, <1>12 DEF new, b, IsOutput

LEMMA EscapingStarts ==
    ASSUME NEW rbsp \in Seq(Byte)
    PROVE  Escaping(rbsp, 0, <<>>, 0)
  <1> DEFINE f == [k \in 0..0 |-> 0]
  <1>1. Escaped(rbsp, 0, <<>>, 0, f, f) /\ f[0] = Len(<<>>) /\ f[0] = 0
    BY DEF Escaped
  <1>2. NoStartCode(<<>>) /\ CountsZeros(<<>>, 0)
    BY DEF NoStartCode, CountsZeros
  <1> HIDE DEF f
  <1> QED BY <1>1, <1>2 DEF Escaping, IsOutput

\* RBSPtoEBSP never writes the zeros and the one of a start code.
LEMMA NoStartCodeGrows ==
    ASSUME NEW buf \in Seq(Byte), NEW count \in 0..2, NEW b \in Byte,
           NoStartCode(buf), CountsZeros(buf, count), NEW more \in Seq(Byte),
           more = IF NeedsEscape(count, b) THEN <<3, b>> ELSE <<b>>
    PROVE  /\ NoStartCode(buf \o more)
           /\ CountsZeros(buf \o more, CountAfter(count, b))
  <1> DEFINE new == buf \o more
             L == Len(buf)
  <1>1. /\ Len(new) = L + Len(more)
        /\ \A i \in 1..Len(new) : new[i] = IF i <= L THEN buf[i] ELSE more[i - L]
        /\ L \in Nat
    BY ConcatProperties, LenProperties
  <1>2. L = 0 <=> buf = <<>>
    BY EmptySeq
  <1>3. ASSUME NEW j \in 3..Len(new), new[j] = 1, new[j - 1] = 0, new[j - 2] = 0
        PROVE  FALSE
    <2>1. CASE j <= L
      <3>1. buf[j] = 1 /\ buf[j - 1] = 0 /\ buf[j - 2] = 0 /\ j \in 3..Len(buf)
        BY <2>1, <1>1, <1>3
      <3> QED BY <3>1 DEF NoStartCode
    <2>2. CASE j > L /\ NeedsEscape(count, b)
      <3>1. Len(more) = 2 /\ more[1] = 3
        BY <2>2
      <3>2. new[L + 1] = 3
        BY <3>1, <1>1
      <3>3. j = L + 1 \/ j - 1 = L + 1
        BY <2>2, <3>1, <1>1
      <3> QED BY <3>2, <3>3, <1>3
    <2>3. CASE j > L /\ ~NeedsEscape(count, b)
      <3>1. Len(more) = 1 /\ more[1] = b
        BY <2>3
      <3>2. j = L + 1 /\ L >= 2
        BY <2>3, <3>1, <1>1
      <3>3. buf[L] = 0 /\ buf[L - 1] = 0 /\ b = 1
        <4>1. new[j] = more[1] /\ new[j - 1] = buf[L] /\ new[j - 2] = buf[L - 1]
          BY <3>1, <3>2, <1>1
        <4> QED BY <4>1, <3>1, <1>3
      <3>4. count = 2
        BY <3>2, <3>3, <1>2 DEF CountsZeros
      <3> QED BY <3>3, <3>4, <2>3 DEF NeedsEscape
    <2> HIDE DEF new, L
    <2> QED BY <2>1, <2>2, <2>3, <1>1
  <1>4. CountsZeros(new, CountAfter(count, b))
    <2>1. CASE NeedsEscape(count, b)
      <3>1. Len(more) = 2 /\ more[1] = 3 /\ more[2] = b
        BY <2>1
      <3>2. Len(new) = L + 2 /\ new[L + 2] = b /\ new[L + 1] = 3
        BY <3>1, <1>1
      <3> HIDE DEF new, L
      <3> QED BY <3>2, <2>1, <1>1 DEF CountsZeros, CountAfter
    <2>2. CASE ~NeedsEscape(count, b)
      <3>1. Len(more) = 1 /\ more[1] = b
        BY <2>2
      <3>2. Len(new) = L + 1 /\ new[L + 1] = b /\ (L > 0 => new[L] = buf[L])
        BY <3>1, <1>1
      <3> HIDE DEF new
      <3> QED BY <3>2, <2>2, <1>1, <1>2 DEF CountsZeros, CountAfter
    <2> QED BY <2>1, <2>2
  <1>5. NoStartCode(new)
    <2> HIDE DEF new, L
    <2> QED BY <1>3 DEF NoStartCode
  <1> QED BY <1>4, <1>5

LEMMA EscapingGrows ==
    ASSUME NEW rbsp \in Seq(Byte), NEW n \in 0..(Len(rbsp) - 1),
           NEW buf \in Seq(Byte), NEW count \in 0..2,
           Escaping(rbsp, n, buf, count), NEW new,
           new = IF NeedsEscape(count, rbsp[n + 1])
                 THEN buf \o <<3, rbsp[n + 1]>> ELSE Append(buf, rbsp[n + 1])
    PROVE  /\ new \in Seq(Byte)
           /\ Escaping(rbsp, n + 1, new, CountAfter(count, rbsp[n + 1]))
  <1> DEFINE b == rbsp[n + 1]
             more == IF NeedsEscape(count, b) THEN <<3, b>> ELSE <<b>>
  <1>1. b \in Byte
    BY ElementOfSeq, LenProperties
  <1>2. more \in Seq(Byte)
    <2>1. 3 \in Byte
      BY DEF Byte
    <2> HIDE DEF b
    <2>2. <<3, b>> \in Seq(Byte) /\ <<b>> \in Seq(Byte)
      BY <1>1, <2>1
    <2> QED BY <2>2
  <1>3. new = buf \o more
    BY <1>1, AppendIsConcat
  <1>4. new \in Seq(Byte)
    BY <1>2, <1>3, ConcatProperties
  <1>6. more = IF NeedsEscape(count, b) THEN <<3, b>> ELSE <<b>>
    OBVIOUS
  <1> HIDE DEF more, b
  <1>7. IsOutput(rbsp, n + 1, buf \o more, CountAfter(count, b))
    BY <1>2, <1>6, EscapedGrows DEF b, Escaping
  <1>8. NoStartCode(buf \o more) /\ CountsZeros(buf \o more, CountAfter(count, b))
    BY <1>1, <1>2, <1>6, NoStartCodeGrows DEF Escaping
  <1> QED BY <1>3, <1>4, <1>7, <1>8 DEF Escaping, b

\* The bytes that WriteUnit puts behind a start code are those of the unit.
LEMMA NalIsUnit ==
    ASSUME NEW u \in Units, NEW buf \in Seq(Byte), NEW count \in 0..2, NEW w \in Nat,
           Escaping(u.rbsp, Len(u.rbsp), buf, count)
    PROVE  UnitNal(Nal(u, buf, w), u)
  <1> DEFINE nal == Nal(u, buf, w)
             n == Len(u.rbsp)
             words == ZeroWords(w)
  <1>1. PICK f, c : Escaped(u.rbsp, n, buf, 0, f, c) /\ f[n] = Len(buf) /\ c[n] = count
    BY DEF Escaping, IsOutput
  <1>2. n \in Nat /\ n > 0 /\ u.rbsp[n] # 0 /\ Header(u) \in 1..127
    BY UnitsHaveTypes
  <1>3. 3 * w \in Nat
    OBVIOUS
  <1>4. /\ words \in Seq(Byte) /\ Len(words) = 3 * w
        /\ \A j \in 1..(3 * w) : words[j] = IF j % 3 = 0 THEN 3 ELSE 0
    BY <1>3, IsASeq DEF ZeroWords, Byte
  <1>5. <<Header(u)>> \in Seq(Byte) /\ Len(<<Header(u)>>) = 1 /\ Len(buf) \in Nat
    BY <1>2, LenProperties DEF Byte
  <1> HIDE DEF words
  <1>6. /\ nal \in Seq(Byte)
        /\ Len(nal) = 1 + Len(buf) + 3 * w
        /\ nal[1] = Header(u)
        /\ \A j \in 1..Len(buf) : nal[1 + j] = buf[j]
        /\ \A j \in 1..(3 * w) : nal[1 + Len(buf) + j] = words[j]
    <2> DEFINE front == <<Header(u)>> \o buf
    <2>1. /\ front \in Seq(Byte) /\ Len(front) = 1 + Len(buf)
          /\ front[1] = Header(u)
          /\ \A j \in 1..Len(buf) : front[1 + j] = buf[j]
      BY <1>5, ConcatProperties
    <2> HIDE DEF front
    <2>4. words \in Seq(Byte) /\ front \in Seq(Byte)
      BY <1>4, <2>1
    <2>2. /\ front \o words \in Seq(Byte)
          /\ Len(front \o words) = Len(front) + Len(words)
          /\ \A i \in 1..(Len(front) + Len(words)) :
               (front \o words)[i] = IF i <= Len(front) THEN front[i] ELSE words[i - Len(front)]
      BY ONLY <2>4, ConcatProperties, Zenon
    <2>3. nal = front \o words
      BY DEF Nal, front, words
    <2> HIDE DEF nal
    <2> QED BY <2>1, <2>2, <2>3, <1>3, <1>4, <1>5
  <1> HIDE DEF nal
  <1>7. f \in [0..n -> Nat] /\ f[0] = 0 /\ \A j, k \in 0..n : j < k => f[j] < f[k]
    BY <1>1 DEF Escaped
  <1>8. Escaped(u.rbsp, n, nal, 1, f, c)
    <2>1. ASSUME NEW k \in 1..n
          PROVE  /\ nal[1 + f[k]] = buf[f[k]]
                 /\ f[k] = f[k - 1] + 2 => nal[1 + f[k] - 1] = buf[f[k] - 1]
      <3>1. f[k - 1] \in Nat /\ f[k] \in Nat /\ f[k - 1] < f[k]
        <4>1. k - 1 \in 0..n /\ k \in 0..n /\ k - 1 < k
          BY <1>2
        <4> QED BY <4>1, <1>7
      <3>2. k = n \/ f[k] < f[n]
        <4>1. n \in 0..n /\ k \in 0..n /\ (k = n \/ k < n)
          BY <1>2
        <4> QED BY <4>1, <1>7
      <3>3. f[k] \in 1..Len(buf)
        BY <3>1, <3>2, <1>1, <1>5
      <3>4. nal[1 + f[k]] = buf[f[k]]
        BY <3>3, <1>6
      <3>5. ASSUME f[k] = f[k - 1] + 2 PROVE nal[1 + f[k] - 1] = buf[f[k] - 1]
        <4>1. f[k] - 1 \in 1..Len(buf) /\ 1 + f[k] - 1 = 1 + (f[k] - 1)
          BY <3>1, <3>3, <3>5, <1>5
        <4> QED BY <4>1, <1>6
      <3> QED BY <3>4, <3>5
    <2>2. ASSUME NEW k \in 1..n
          PROVE  /\ c[k] = CountAfter(c[k - 1], u.rbsp[k])
                 /\ nal[1 + f[k]] = u.rbsp[k]
                 /\ IF NeedsEscape(c[k - 1], u.rbsp[k])
                    THEN f[k] = f[k - 1] + 2 /\ nal[1 + f[k] - 1] = 3
                    ELSE f[k] = f[k - 1] + 1
      <3>1. /\ c[k] = CountAfter(c[k - 1], u.rbsp[k])
            /\ buf[0 + f[k]] = u.rbsp[k]
            /\ IF NeedsEscape(c[k - 1], u.rbsp[k])
               THEN f[k] = f[k - 1] + 2 /\ buf[0 + f[k] - 1] = 3
               ELSE f[k] = f[k - 1] + 1
        BY <1>1 DEF Escaped
      <3>2. f[k] \in Nat
        BY SMTT(30), <1>2, <1>7
      <3> QED BY <3>1, <3>2, <2>1
    <2> QED BY <1>1, <2>2 DEF Escaped
  <1>9. IsUnit(nal, u, f, c, w)
    BY <1>1, <1>4, <1>6, <1>8 DEF IsUnit
  <1>10. NoStartCode(nal)
    <2>1. SUFFICES ASSUME NEW j \in 3..Len(nal), nal[j] = 1, nal[j - 1] = 0, nal[j - 2] = 0
                   PROVE  FALSE
      BY DEF NoStartCode
    <2>2. CASE j > 1 + Len(buf)
      <3>1. j - 1 - Len(buf) \in 1..(3 * w) /\ j = 1 + Len(buf) + (j - 1 - Len(buf))
        BY <2>2, <1>3, <1>5, <1>6
      <3>2. nal[j] = words[j - 1 - Len(buf)]
        BY <3>1, <1>6
      <3>3. words[j - 1 - Len(buf)] \in {0, 3}
        BY <3>1, <1>4
      <3> QED BY <3>2, <3>3, <2>1
    <2>3. CASE j = 3 /\ j <= 1 + Len(buf)
      <3>1. nal[j - 2] = Header(u)
        BY <2>3, <1>6
      <3> QED BY <3>1, <2>1, <1>2
    <2>4. CASE j > 3 /\ j <= 1 + Len(buf)
      <3>1. j - 1 \in 3..Len(buf) /\ j - 2 \in 1..Len(buf) /\ j - 3 \in 1..Len(buf)
        BY <2>4, <1>5
      <3>2. nal[j] = buf[j - 1] /\ nal[j - 1] = buf[j - 2] /\ nal[j - 2] = buf[j - 3]
        <4>1. j = 1 + (j - 1) /\ j - 1 = 1 + (j - 2) /\ j - 2 = 1 + (j - 3)
          BY <2>1, <1>6, LenProperties
        <4>2. \A i \in 1..Len(buf) : nal[1 + i] = buf[i]
          BY <1>6
        <4>3. nal[1 + (j - 1)] = buf[j - 1]
          BY <3>1, <4>2
        <4>4. nal[1 + (j - 2)] = buf[j - 2] /\ nal[1 + (j - 3)] = buf[j - 3]
          BY <3>1, <4>2
        <4> QED BY <4>1, <4>3, <4>4
      <3>3. buf[j - 1] = 1 /\ buf[(j - 1) - 1] = 0 /\ buf[(j - 1) - 2] = 0
        <4>1. (j - 1) - 1 = j - 2 /\ (j - 1) - 2 = j - 3
          BY <3>1
        <4> QED BY <4>1, <3>2, <2>1
      <3> QED BY <3>1, <3>3 DEF Escaping, NoStartCode
    <2> QED BY <2>2, <2>3, <2>4, <1>5
  <1>11. nal[Len(nal)] # 0
    <2>1. CASE w = 0
      <3>1. Len(nal) = 1 + f[n] /\ nal[1 + f[n]] = u.rbsp[n]
        <4>1. Len(nal) = 1 + f[n]
          BY <2>1, <1>1, <1>5, <1>6
        <4>2. nal[1 + f[n]] = u.rbsp[n]
          BY <1>2, <1>8 DEF Escaped
        <4> QED BY <4>1, <4>2
      <3> QED BY <3>1, <1>2
    <2>2. CASE w > 0
      <3>1. 3 * w \in 1..(3 * w) /\ (3 * w) % 3 = 0
        BY <2>2
      <3> QED BY <3>1, <1>4, <1>6
    <2> QED BY <2>1, <2>2
  <1>12. \E g, d, v : IsUnit(nal, u, g, d, v)
    BY <1>9
  <1> QED BY <1>10, <1>11, <1>12 DEF UnitNal, nal

-----------------------------------------------------------------------------
(* The file                                                                *)

LEMMA ZerosAreBytes ==
    ASSUME NEW n \in Nat
    PROVE  /\ Zeros(n) \in Seq(Byte) /\ Len(Zeros(n)) = n
           /\ \A i \in 1..n : Zeros(n)[i] = 0
  BY IsASeq DEF Zeros, Byte

\* The bytes of a start code with or without the zero before it.
IsStartCode(s) == /\ s \in Seq(Byte) /\ Len(s) \in Nat /\ Len(s) >= 3
                  /\ \A i \in 1..(Len(s) - 1) : s[i] = 0
                  /\ s[Len(s)] = 1

LEMMA StartCodesAreThat ==
    ASSUME NEW long \in BOOLEAN
    PROVE  IsStartCode(StartCode(long))
  <1>1. 0 \in Byte /\ 1 \in Byte
    BY DEF Byte
  <1>2. CASE long
    BY <1>1, <1>2 DEF StartCode, IsStartCode
  <1>3. CASE ~long
    BY <1>1, <1>3 DEF StartCode, IsStartCode
  <1> QED BY <1>2, <1>3

LEMMA Concatenation ==
    ASSUME NEW s \in Seq(Byte), NEW t \in Seq(Byte)
    PROVE  /\ s \o t \in Seq(Byte)
           /\ Len(s) \in Nat /\ Len(t) \in Nat
           /\ Len(s \o t) = Len(s) + Len(t)
           /\ \A i \in 1..Len(s) : (s \o t)[i] = s[i]
           /\ \A i \in (Len(s) + 1)..(Len(s) + Len(t)) : (s \o t)[i] = t[i - Len(s)]
  <1>1. Len(s) \in Nat /\ Len(t) \in Nat
    BY LenProperties
  <1> QED BY <1>1, ConcatProperties

\* A unit and its start code, which ends at s, between l and t zeros.
IsAppended(G, F, l, code, nal, t, s) ==
  /\ G = F \o Zeros(l) \o code \o nal \o Zeros(t)
  /\ s = Len(F) + l + Len(code)

\* Where everything is after WriteUnit.
LEMMA FileGrows ==
    ASSUME NEW F \in Seq(Byte), NEW nal \in Seq(Byte), NEW l \in Nat, NEW t \in Nat,
           NEW code, IsStartCode(code), NEW G, NEW s \in Nat,
           IsAppended(G, F, l, code, nal, t, s)
    PROVE  /\ G \in Seq(Byte)
           /\ Len(G) = s + Len(nal) + t
           /\ \A i \in 1..Len(F) : G[i] = F[i]
           /\ \A i \in (Len(F) + 1)..(s - 1) : G[i] = 0
           /\ G[s] = 1
           /\ \A i \in 1..Len(nal) : G[s + i] = nal[i]
           /\ \A i \in (s + Len(nal) + 1)..Len(G) : G[i] = 0
  <1> DEFINE c == Len(code)
             A == F \o Zeros(l)
             B == A \o code
             C == B \o nal
  <1>1. /\ A \in Seq(Byte) /\ Len(F) \in Nat /\ Len(A) = Len(F) + l
        /\ \A i \in 1..Len(F) : A[i] = F[i]
        /\ \A i \in (Len(F) + 1)..(Len(F) + l) : A[i] = 0
    <2>1. Zeros(l) \in Seq(Byte) /\ Len(Zeros(l)) = l /\ \A i \in 1..l : Zeros(l)[i] = 0
      BY ZerosAreBytes
    <2>2. \A i \in (Len(F) + 1)..(Len(F) + l) : A[i] = Zeros(l)[i - Len(F)] /\ i - Len(F) \in 1..l
      BY <2>1, Concatenation
    <2> QED BY <2>1, <2>2, Concatenation
  <1> HIDE DEF A
  <1>2. c \in Nat /\ c >= 3 /\ s = Len(A) + c
    BY <1>1 DEF IsStartCode, IsAppended
  <1>3. /\ code \in Seq(Byte) /\ Len(code) = c
        /\ \A i \in 1..(c - 1) : code[i] = 0
        /\ code[c] = 1
    BY DEF IsStartCode
  <1> HIDE DEF c
  <1>4. /\ B \in Seq(Byte) /\ Len(A) \in Nat /\ Len(B) = s
        /\ \A i \in 1..Len(A) : B[i] = A[i]
        /\ \A i \in (Len(A) + 1)..s : B[i] = code[i - Len(A)]
    <2>1. A \in Seq(Byte) /\ code \in Seq(Byte)
      BY <1>1, <1>3
    <2>2. /\ B \in Seq(Byte) /\ Len(A) \in Nat
          /\ Len(B) = Len(A) + Len(code)
          /\ \A i \in 1..Len(A) : B[i] = A[i]
          /\ \A i \in (Len(A) + 1)..(Len(A) + Len(code)) :
               B[i] = code[i - Len(A)]
      BY <2>1, Concatenation
    <2> HIDE DEF B
    <2> QED BY <2>2, <1>2, <1>3
  <1> HIDE DEF B
  <1>5. /\ C \in Seq(Byte) /\ Len(nal) \in Nat /\ Len(C) = s + Len(nal)
        /\ \A i \in 1..s : C[i] = B[i]
        /\ \A i \in (s + 1)..(s + Len(nal)) : C[i] = nal[i - s]
    <2>1. B \in Seq(Byte) /\ Len(B) = s
      BY <1>4
    <2>2. /\ C \in Seq(Byte) /\ Len(nal) \in Nat
          /\ Len(C) = Len(B) + Len(nal)
          /\ \A i \in 1..Len(B) : C[i] = B[i]
          /\ \A i \in (Len(B) + 1)..(Len(B) + Len(nal)) : C[i] = nal[i - Len(B)]
      BY <2>1, Concatenation
    <2> QED BY <2>1, <2>2
  <1> HIDE DEF C
  <1>6. /\ G \in Seq(Byte) /\ Len(G) = s + Len(nal) + t
        /\ \A i \in 1..Len(C) : G[i] = C[i]
        /\ \A i \in (Len(C) + 1)..(Len(C) + t) : G[i] = 0
    <2>1. Zeros(t) \in Seq(Byte) /\ Len(Zeros(t)) = t /\ \A i \in 1..t : Zeros(t)[i] = 0
      BY ZerosAreBytes
    <2>2. G = C \o Zeros(t)
      BY DEF A, B, C, IsAppended
    <2>3. C \in Seq(Byte) /\ Zeros(t) \in Seq(Byte)
      BY <2>1, <1>5
    <2>4. /\ G \in Seq(Byte) /\ Len(C) \in Nat
          /\ Len(G) = Len(C) + Len(Zeros(t))
          /\ \A i \in 1..Len(C) : G[i] = C[i]
          /\ \A i \in (Len(C) + 1)..(Len(C) + Len(Zeros(t))) : G[i] = Zeros(t)[i - Len(C)]
      BY <2>2, <2>3, Concatenation
    <2>5. ASSUME NEW i \in (Len(C) + 1)..(Len(C) + t) PROVE G[i] = 0
      <3>1. i - Len(C) \in 1..t
        BY <2>4
      <3> QED BY <3>1, <2>1, <2>4
    <2> QED BY <2>1, <2>4, <2>5, <1>5
  <1>12. ASSUME NEW i \in 1..s PROVE G[i] = B[i]
    <2>1. i \in 1..Len(C)
      BY <1>5
    <2> QED BY <2>1, <1>5, <1>6
  <1>7. ASSUME NEW i \in 1..Len(F) PROVE G[i] = F[i]
    <2>1. i \in 1..Len(A) /\ i \in 1..s
      BY <1>1, <1>2
    <2> QED BY <2>1, <1>1, <1>4, <1>12
  <1>8. ASSUME NEW i \in (Len(F) + 1)..(s - 1) PROVE G[i] = 0
    <2>1. G[i] = B[i]
      <3>1. i \in 1..s
        BY <1>1
      <3> QED BY <3>1, <1>12
    <2>2. CASE i <= Len(A)
      BY <2>1, <2>2, <1>1, <1>4
    <2>3. CASE i > Len(A)
      <3>1. i - Len(A) \in 1..(c - 1) /\ i \in (Len(A) + 1)..s
        BY <2>3, <1>1, <1>2, <1>4
      <3> QED BY <3>1, <2>1, <1>3, <1>4
    <2>4. i \in Int /\ Len(A) \in Int
      BY <1>1
    <2>5. i <= Len(A) \/ i > Len(A)
      BY <2>4
    <2> QED BY <2>2, <2>3, <2>5
  <1>9. G[s] = 1
    <2>1. s \in 1..s /\ s \in 1..Len(C) /\ s \in (Len(A) + 1)..s /\ s - Len(A) = c
      BY <1>2, <1>4, <1>5
    <2> QED BY <2>1, <1>3, <1>4, <1>5, <1>6
  <1>10. ASSUME NEW i \in 1..Len(nal) PROVE G[s + i] = nal[i]
    <2>1. s + i \in (s + 1)..(s + Len(nal)) /\ s + i \in 1..(s + Len(nal)) /\ (s + i) - s = i
      BY LenProperties
    <2>2. C[s + i] = nal[i]
      BY <2>1, <1>5
    <2>3. G[s + i] = C[s + i]
      BY <2>1, <1>5, <1>6
    <2> QED BY <2>2, <2>3
  <1>11. \A i \in (s + Len(nal) + 1)..Len(G) : G[i] = 0
    BY <1>5, <1>6
  <1> QED BY <1>6, <1>7, <1>8, <1>9, <1>10, <1>11

LEMMA Inside ==
    ASSUME NEW a \in Nat, NEW b \in Nat, NEW n \in Nat, 3 <= a, a < b, b <= n
    PROVE  a \in 1..n /\ a - 1 \in 1..n /\ a - 2 \in 1..n
  OBVIOUS

\* A part of a sequence is nal when its elements are those of nal.
StandsBehind(s, nal, o) ==
  /\ o + Len(nal) <= Len(s)
  /\ \A i \in 1..Len(nal) : s[o + i] = nal[i]

LEMMA PartOf ==
    ASSUME NEW s \in Seq(Byte), NEW nal \in Seq(Byte), NEW o \in Nat,
           StandsBehind(s, nal, o)
    PROVE  SubSeq(s, o + 1, o + Len(nal)) = nal
  <1>1. Len(nal) \in Nat /\ o + 1 \in Int /\ o + Len(nal) \in Int
    BY LenProperties
  <1>2. \A i \in (o + 1)..(o + Len(nal)) : s[i] \in Byte
    BY ElementOfSeq, LenProperties DEF StandsBehind
  <1>3. /\ SubSeq(s, o + 1, o + Len(nal)) \in Seq(Byte)
        /\ Len(SubSeq(s, o + 1, o + Len(nal)))
             = IF o + 1 <= o + Len(nal) THEN (o + Len(nal)) - (o + 1) + 1 ELSE 0
        /\ \A i \in 1..(o + Len(nal)) - (o + 1) + 1 :
             SubSeq(s, o + 1, o + Len(nal))[i] = s[(o + 1) + i - 1]
    BY <1>1, <1>2, SubSeqProperties
  <1>4. Len(SubSeq(s, o + 1, o + Len(nal))) = Len(nal)
    BY <1>1, <1>3
  <1>5. ASSUME NEW i \in 1..Len(nal)
        PROVE  SubSeq(s, o + 1, o + Len(nal))[i] = nal[i]
    <2>1. i \in 1..((o + Len(nal)) - (o + 1) + 1) /\ (o + 1) + i - 1 = o + i
      BY <1>1
    <2> QED BY <2>1, <1>3 DEF StandsBehind
  <1> QED BY <1>3, <1>4, <1>5, SeqEqual

LEMMA SamePlace ==
    ASSUME NEW s \in Seq(Byte), NEW t \in Seq(Byte), NEW a \in Nat, NEW b \in Nat,
           b <= Len(s), b <= Len(t), 1 <= a, \A i \in a..b : s[i] = t[i]
    PROVE  SubSeq(s, a, b) = SubSeq(t, a, b)
  <1>1. \A i \in a..b : s[i] \in Byte /\ t[i] \in Byte
    BY ElementOfSeq, LenProperties
  <1>2. /\ SubSeq(s, a, b) \in Seq(Byte)
        /\ Len(SubSeq(s, a, b)) = IF a <= b THEN b - a + 1 ELSE 0
        /\ \A i \in 1..b - a + 1 : SubSeq(s, a, b)[i] = s[a + i - 1]
    BY <1>1, SubSeqProperties
  <1>3. /\ SubSeq(t, a, b) \in Seq(Byte)
        /\ Len(SubSeq(t, a, b)) = IF a <= b THEN b - a + 1 ELSE 0
        /\ \A i \in 1..b - a + 1 : SubSeq(t, a, b)[i] = t[a + i - 1]
    BY <1>1, SubSeqProperties
  <1>4. ASSUME NEW i \in 1..Len(SubSeq(s, a, b))
        PROVE  SubSeq(s, a, b)[i] = SubSeq(t, a, b)[i]
    <2>1. i \in 1..(b - a + 1) /\ a + i - 1 \in a..b
      BY <1>2
    <2> QED BY <2>1, <1>2, <1>3
  <1> QED BY <1>2, <1>3, <1>4, SeqEqual

LEMMA UnitNalLength ==
    ASSUME NEW u \in Units, NEW nal, UnitNal(nal, u)
    PROVE  nal \in Seq(Byte) /\ Len(nal) \in Nat /\ Len(nal) >= 1
  <1>1. PICK f, c, w : IsUnit(nal, u, f, c, w)
    BY DEF UnitNal
  <1>2. Len(u.rbsp) \in Nat
    BY UnitsHaveTypes
  <1>3. f[Len(u.rbsp)] \in Nat /\ 3 * w \in Nat
    BY <1>1, <1>2 DEF IsUnit, Escaped
  <1> QED BY <1>1, <1>3, LenProperties DEF IsUnit

\* WriteUnit lays one unit more behind the others.
LEMMA LayoutGrows ==
    ASSUME NEW F \in Seq(Byte), NEW W \in Seq(Units), NEW e, NEW m, Layout(F, W, e, m),
           NEW u \in Units, NEW nal, UnitNal(nal, u),
           NEW l \in Nat, NEW t \in Nat, NEW code, IsStartCode(code), NEW G,
           NEW s, IsAppended(G, F, l, code, nal, t, s)
    PROVE  G \in Seq(Byte) /\ \E d, n : Layout(G, Append(W, u), d, n)
  <1> DEFINE N == Len(W)
             V == Append(W, u)
             d == [k \in 1..(N + 1) |-> IF k <= N THEN e[k] ELSE s]
             n == [k \in 1..(N + 1) |-> IF k <= N THEN m[k] ELSE s + Len(nal)]
  <1>1. nal \in Seq(Byte) /\ Len(nal) \in Nat /\ Len(nal) >= 1
    BY UnitNalLength
  <1>2. s \in Nat /\ Len(F) \in Nat /\ s >= Len(F) + 3
    BY LenProperties DEF IsStartCode, IsAppended
  <1>3. /\ G \in Seq(Byte)
        /\ Len(G) = s + Len(nal) + t
        /\ \A i \in 1..Len(F) : G[i] = F[i]
        /\ \A i \in (Len(F) + 1)..(s - 1) : G[i] = 0
        /\ G[s] = 1
        /\ \A i \in 1..Len(nal) : G[s + i] = nal[i]
        /\ \A i \in (s + Len(nal) + 1)..Len(G) : G[i] = 0
    BY <1>1, <1>2, FileGrows, SMTT(30)
  <1>21. Len(G) \in Nat /\ Len(G) >= s + Len(nal) /\ Len(G) >= Len(F)
    BY <1>1, <1>2, <1>3
  <1>22. \A i \in 1..Len(F) : G[i] = F[i]
    BY <1>3
  <1>4. /\ Len(V) = N + 1 /\ N \in Nat /\ V[N + 1] = u
        /\ \A k \in 1..N : V[k] = W[k]
    BY AppendProperties, LenProperties
  <1>23. N \in Nat /\ N = Len(W)
    BY LenProperties
  <1>5. /\ e \in [1..N -> Nat] /\ m \in [1..N -> Nat]
        /\ \A k \in 1..N :
             /\ 3 <= e[k] /\ e[k] < m[k] /\ m[k] <= Len(F)
             /\ F[e[k]] = 1 /\ F[e[k] - 1] = 0 /\ F[e[k] - 2] = 0
             /\ UnitNal(SubSeq(F, e[k] + 1, m[k]), W[k])
    BY DEF Layout
  <1>6. \A k \in 1..(N - 1) : /\ e[k + 1] >= m[k] + 3
                              /\ \A j \in (m[k] + 1)..(e[k + 1] - 1) : F[j] = 0
    BY DEF Layout
  <1>7. /\ N = 0 => F = <<>>
        /\ N > 0 => /\ \A j \in 1..(e[1] - 1) : F[j] = 0
                    /\ \A j \in (m[N] + 1)..Len(F) : F[j] = 0
    BY DEF Layout
  <1>8. d \in [1..(N + 1) -> Nat] /\ n \in [1..(N + 1) -> Nat]
    BY <1>1, <1>2, <1>4, <1>5
  <1>9. /\ \A k \in 1..N : d[k] = e[k] /\ n[k] = m[k]
        /\ d[N + 1] = s /\ n[N + 1] = s + Len(nal)
    BY <1>4
  <1> HIDE DEF d, n, V, N
  <1>10. ASSUME NEW k \in 1..(N + 1)
         PROVE  /\ 3 <= d[k] /\ d[k] < n[k] /\ n[k] <= Len(G)
                /\ G[d[k]] = 1 /\ G[d[k] - 1] = 0 /\ G[d[k] - 2] = 0
                /\ UnitNal(SubSeq(G, d[k] + 1, n[k]), V[k])
    <2>1. CASE k \in 1..N
      <3>1. /\ d[k] = e[k] /\ n[k] = m[k] /\ e[k] \in Nat /\ m[k] \in Nat
            /\ 3 <= e[k] /\ e[k] < m[k] /\ m[k] <= Len(F)
            /\ F[e[k]] = 1 /\ F[e[k] - 1] = 0 /\ F[e[k] - 2] = 0
            /\ UnitNal(SubSeq(F, e[k] + 1, m[k]), W[k])
        BY <2>1, <1>5, <1>9
      <3>7. e[k] \in Nat /\ m[k] \in Nat /\ 3 <= e[k] /\ e[k] < m[k] /\ m[k] <= Len(F)
        BY <3>1
      <3>2. e[k] \in 1..Len(F) /\ e[k] - 1 \in 1..Len(F) /\ e[k] - 2 \in 1..Len(F)
        BY <3>7, <1>2, Inside
      <3>3. G[e[k]] = F[e[k]] /\ G[e[k] - 1] = F[e[k] - 1] /\ G[e[k] - 2] = F[e[k] - 2]
        BY <3>2, <1>3
      <3>5. SubSeq(F, e[k] + 1, m[k]) = SubSeq(G, e[k] + 1, m[k])
        <4>1. /\ e[k] + 1 \in Nat /\ 1 <= e[k] + 1 /\ m[k] \in Nat
              /\ m[k] <= Len(F) /\ m[k] <= Len(G)
          BY <3>7, <1>2, <1>21, SMTT(30)
        <4>2. ASSUME NEW i \in (e[k] + 1)..m[k] PROVE F[i] = G[i]
          <5>1. i \in 1..Len(F)
            BY <3>7, <1>2, SMTT(30)
          <5> QED BY <5>1, <1>22
        <4>3. F \in Seq(Byte) /\ G \in Seq(Byte)
          BY <1>3
        <4> QED BY ONLY <4>1, <4>2, <4>3, SamePlace
      <3>6. V[k] = W[k]
        BY <2>1, <1>4
      <3>8. m[k] <= Len(G)
        BY <3>7, <1>2, <1>21
      <3> QED BY <3>1, <3>3, <3>5, <3>6, <3>8
    <2>2. CASE k = N + 1
      <3>1. d[k] = s /\ n[k] = s + Len(nal) /\ V[k] = u
        BY <2>2, <1>4, <1>9
      <3>2. G[s - 1] = 0 /\ G[s - 2] = 0
        <4>1. s - 1 \in (Len(F) + 1)..(s - 1) /\ s - 2 \in (Len(F) + 1)..(s - 1)
          BY <1>2
        <4> QED BY <4>1, <1>3
      <3>5. SubSeq(G, s + 1, s + Len(nal)) = nal
        <4>1. StandsBehind(G, nal, s)
          BY <1>3, <1>21 DEF StandsBehind
        <4> QED BY <4>1, <1>1, <1>2, <1>3, PartOf
      <3>6. 3 <= s /\ s < s + Len(nal) /\ s + Len(nal) <= Len(G)
        BY <1>1, <1>2, <1>21
      <3>7. G[s] = 1
        BY <1>3
      <3> QED BY <3>1, <3>2, <3>5, <3>6, <3>7
    <2>3. k \in 1..N \/ k = N + 1
      BY <1>23
    <2> QED BY <2>1, <2>2, <2>3
  <1>11. ASSUME NEW k \in 1..N
         PROVE  /\ d[k + 1] >= n[k] + 3
                /\ \A j \in (n[k] + 1)..(d[k + 1] - 1) : G[j] = 0
    <2>1. /\ d[k] = e[k] /\ n[k] = m[k] /\ e[k] \in Nat /\ m[k] \in Nat
          /\ 3 <= e[k] /\ e[k] < m[k] /\ m[k] <= Len(F)
      BY <1>5, <1>9
    <2>2. CASE k \in 1..(N - 1)
      <3>1. k + 1 \in 1..N
        BY <2>2, <1>4
      <3>2. d[k + 1] = e[k + 1] /\ e[k + 1] \in Nat /\ e[k + 1] < m[k + 1] /\ m[k + 1] <= Len(F)
            /\ m[k + 1] \in Nat
        BY <3>1, <1>5, <1>9
      <3>3. \A j \in (n[k] + 1)..(d[k + 1] - 1) : j \in 1..Len(F) /\ F[j] = 0
        <4>1. \A j \in (m[k] + 1)..(e[k + 1] - 1) : F[j] = 0
          BY <2>2, <1>6
        <4>2. ASSUME NEW j \in (m[k] + 1)..(e[k + 1] - 1) PROVE j \in 1..Len(F)
          <5>1. m[k] \in Nat /\ e[k + 1] \in Nat /\ m[k + 1] \in Nat /\ Len(F) \in Nat
            BY <2>1, <3>2, <1>2
          <5>2. e[k + 1] < m[k + 1] /\ m[k + 1] <= Len(F)
            BY <3>2
          <5> QED BY SMTT(30), <5>1, <5>2
        <4> QED BY <2>1, <3>2, <4>1, <4>2
      <3>4. e[k + 1] >= m[k] + 3
        BY <2>2, <1>6
      <3> QED BY <2>1, <3>2, <3>3, <3>4, <1>22
    <2>3. CASE k = N
      <3>1. d[k + 1] = s
        BY <2>3, <1>9
      <3>2. s >= m[k] + 3
        BY <2>1, <1>2
      <3>3. ASSUME NEW j \in (m[k] + 1)..(s - 1) PROVE G[j] = 0
        <4>1. CASE j <= Len(F)
          <5>1. j \in (m[N] + 1)..Len(F) /\ j \in 1..Len(F)
            BY <2>1, <2>3, <4>1, <1>2
          <5> QED BY SMTT(30), ZenonT(60), <5>1, <2>3, <1>3, <1>4, <1>7
        <4>2. CASE j > Len(F)
          <5>1. j \in (Len(F) + 1)..(s - 1)
            BY <4>2, <2>1, <1>2
          <5> QED BY <5>1, <1>3
        <4>3. j <= Len(F) \/ j > Len(F)
          BY <2>1, <1>2
        <4> QED BY <4>1, <4>2, <4>3
      <3> QED BY <2>1, <3>1, <3>2, <3>3
    <2>4. k \in 1..(N - 1) \/ k = N
      BY <1>23
    <2> QED BY <2>2, <2>3, <2>4
  <1>12. ASSUME NEW j \in 1..(d[1] - 1) PROVE G[j] = 0
    <2>1. CASE N = 0
      <3>1. d[1] = s /\ Len(F) = 0
        BY <2>1, <1>7, <1>9, EmptySeq
      <3> QED BY <3>1, <1>2, <1>3
    <2>2. CASE N > 0
      <3>1. d[1] = e[1] /\ e[1] \in Nat /\ e[1] < m[1] /\ m[1] <= Len(F) /\ m[1] \in Nat
        <4>1. 1 \in 1..N
          BY <2>2, <1>4
        <4> QED BY <4>1, <1>5, <1>9
      <3>2. j \in 1..Len(F) /\ j \in 1..(e[1] - 1)
        BY <3>1, <1>2
      <3> QED BY <3>2, <2>2, <1>3, <1>7
    <2>3. N = 0 \/ N > 0
      BY <1>23
    <2> QED BY <2>1, <2>2, <2>3
  <1>13. \A j \in (n[N + 1] + 1)..Len(G) : G[j] = 0
    BY <1>3, <1>9
  <1>14. Layout(G, V, d, n)
    <2>1. /\ d \in [1..Len(V) -> Nat]
          /\ n \in [1..Len(V) -> Nat]
          /\ \A k \in 1..Len(V) :
               /\ 3 <= d[k] /\ d[k] < n[k] /\ n[k] <= Len(G)
               /\ G[d[k]] = 1 /\ G[d[k] - 1] = 0 /\ G[d[k] - 2] = 0
               /\ UnitNal(SubSeq(G, d[k] + 1, n[k]), V[k])
      BY <1>4, <1>8, <1>10
    <2>2. \A k \in 1..(Len(V) - 1) :
             /\ d[k + 1] >= n[k] + 3
             /\ \A j \in (n[k] + 1)..(d[k + 1] - 1) : G[j] = 0
      <3>1. Len(V) - 1 = N
        BY <1>4, <1>23
      <3> QED BY <3>1, <1>11
    <2>3. /\ Len(V) # 0
          /\ \A j \in 1..(d[1] - 1) : G[j] = 0
          /\ \A j \in (n[Len(V)] + 1)..Len(G) : G[j] = 0
      <3>1. Len(V) = N + 1 /\ Len(V) # 0
        BY <1>4, <1>23
      <3> QED BY <3>1, <1>12, <1>13
    <2> QED BY <2>1, <2>2, <2>3 DEF Layout
  <1> QED BY <1>3, <1>14 DEF V

-----------------------------------------------------------------------------
(* The decoder: fetching a unit                                            *)

LEMMA LeastIs ==
    ASSUME NEW S \in SUBSET Int, NEW x \in S, \A y \in S : x <= y
    PROVE  Min(S) = x
  <1>1. Min(S) \in S /\ \A y \in S : Min(S) <= y
    BY DEF Min
  <1>2. Min(S) \in Int /\ x \in Int
    BY <1>1
  <1>3. Min(S) <= x /\ x <= Min(S)
    BY <1>1
  <1> QED BY <1>2, <1>3

LEMMA GreatestIs ==
    ASSUME NEW S \in SUBSET Int, NEW x \in S, \A y \in S : x >= y
    PROVE  Max(S) = x
  <1>1. Max(S) \in S /\ \A y \in S : Max(S) >= y
    BY DEF Max
  <1>2. Max(S) \in Int /\ x \in Int
    BY <1>1
  <1>3. Max(S) >= x /\ x >= Max(S)
    BY <1>1
  <1> QED BY <1>2, <1>3

LEMMA Offsets ==
    ASSUME NEW a \in Nat, NEW b \in Nat, NEW k \in Int, a + 3 <= k, k <= b,
           NEW j, j = k - a
    PROVE  j \in 1..(b - a) /\ j - 1 \in 1..(b - a) /\ j - 2 \in 1..(b - a)
  OBVIOUS

\* What the layout says of one unit.
LEMMA UnitPlace ==
    ASSUME file \in Seq(Byte), written \in Seq(Units), NEW e, NEW m,
           Layout(file, written, e, m), NEW r \in 1..Len(written)
    PROVE  /\ e[r] \in Nat /\ m[r] \in Nat /\ Len(file) \in Nat /\ Len(written) \in Nat
           /\ 3 <= e[r] /\ e[r] < m[r] /\ m[r] <= Len(file)
           /\ file[e[r]] = 1 /\ file[e[r] - 1] = 0 /\ file[e[r] - 2] = 0
           /\ UnitNal(SubSeq(file, e[r] + 1, m[r]), written[r])
           /\ file[m[r]] # 0
           /\ \A k \in (e[r] + 3)..m[r] : ~(file[k] = 1 /\ file[k - 1] = 0 /\ file[k - 2] = 0)
  <1>1. /\ e[r] \in Nat /\ m[r] \in Nat /\ Len(file) \in Nat /\ Len(written) \in Nat
        /\ 3 <= e[r] /\ e[r] < m[r] /\ m[r] <= Len(file)
        /\ file[e[r]] = 1 /\ file[e[r] - 1] = 0 /\ file[e[r] - 2] = 0
        /\ UnitNal(SubSeq(file, e[r] + 1, m[r]), written[r])
    BY LenProperties DEF Layout
  <1> DEFINE nal == SubSeq(file, e[r] + 1, m[r])
  <1>2. /\ nal \in Seq(Byte) /\ Len(nal) = m[r] - e[r]
        /\ \A i \in 1..(m[r] - e[r]) : nal[i] = file[e[r] + i]
    <2>1. e[r] + 1 \in Int /\ m[r] \in Int /\ e[r] + 1 <= m[r]
      BY <1>1
    <2>2. \A i \in (e[r] + 1)..m[r] : file[i] \in Byte
      BY <1>1, ElementOfSeq
    <2>3. /\ nal \in Seq(Byte)
          /\ Len(nal) = IF e[r] + 1 <= m[r] THEN m[r] - (e[r] + 1) + 1 ELSE 0
          /\ \A i \in 1..(m[r] - (e[r] + 1) + 1) : nal[i] = file[(e[r] + 1) + i - 1]
      BY <2>1, <2>2, SubSeqProperties
    <2>4. m[r] - (e[r] + 1) + 1 = m[r] - e[r]
      BY <1>1
    <2>5. ASSUME NEW i \in 1..(m[r] - e[r]) PROVE nal[i] = file[e[r] + i]
      <3>1. (e[r] + 1) + i - 1 = e[r] + i
        BY <1>1
      <3> QED BY <3>1, <2>3, <2>4
    <2> QED BY <2>1, <2>3, <2>4, <2>5
  <1>3. NoStartCode(nal) /\ nal[Len(nal)] # 0
    BY <1>1 DEF UnitNal
  <1> HIDE DEF nal
  <1>4. file[m[r]] # 0
    <2>1. m[r] - e[r] \in 1..(m[r] - e[r]) /\ e[r] + (m[r] - e[r]) = m[r]
      BY <1>1
    <2> QED BY <2>1, <1>2, <1>3
  <1>5. ASSUME NEW k \in (e[r] + 3)..m[r], file[k] = 1, file[k - 1] = 0, file[k - 2] = 0
        PROVE  FALSE
    <2> DEFINE j == k - e[r]
    <2>1. /\ j \in 3..Len(nal) /\ j \in 1..(m[r] - e[r])
          /\ j - 1 \in 1..(m[r] - e[r]) /\ j - 2 \in 1..(m[r] - e[r])
          /\ e[r] + j = k /\ e[r] + (j - 1) = k - 1 /\ e[r] + (j - 2) = k - 2
      <3>1. e[r] \in Nat /\ m[r] \in Nat /\ k \in Int /\ e[r] + 3 <= k /\ k <= m[r]
        BY <1>1
      <3>2. Len(nal) = m[r] - e[r]
        BY <1>2
      <3> HIDE DEF j
      <3>3. j \in Int /\ j = k - e[r]
        BY <3>1 DEF j
      <3>4. /\ j \in 1..(m[r] - e[r])
            /\ j - 1 \in 1..(m[r] - e[r]) /\ j - 2 \in 1..(m[r] - e[r])
        BY <3>1, <3>3, Offsets
      <3>5. e[r] + j = k /\ e[r] + (j - 1) = k - 1 /\ e[r] + (j - 2) = k - 2
        BY SMTT(30), <3>1, <3>3
      <3>6. j \in 3..(m[r] - e[r])
        BY <3>1, <3>3
      <3> QED BY <3>2, <3>4, <3>5, <3>6
    <2> HIDE DEF j
    <2>2. nal[j] = file[e[r] + j] /\ nal[j - 1] = file[e[r] + (j - 1)] /\ nal[j - 2] = file[e[r] + (j - 2)]
      BY <2>1, <1>2
    <2>3. nal[j] = 1 /\ nal[j - 1] = 0 /\ nal[j - 2] = 0
      BY <2>1, <2>2, <1>5
    <2> QED BY <2>1, <2>3, <1>3 DEF NoStartCode
  <1> QED BY <1>1, <1>4, <1>5

\* Behind the last unit there is no start code, and only zeros.
LEMMA FetchLast ==
    ASSUME file \in Seq(Byte), written \in Seq(Units), NEW e, NEW m,
           Layout(file, written, e, m), NEW r, r = Len(written), r \in 1..Len(written)
    PROVE  /\ StartCodes(e[r]) = {}
           /\ Max(NonZeros(e[r], Len(file))) = m[r]
  <1>1. /\ e[r] \in Nat /\ m[r] \in Nat /\ Len(file) \in Nat
        /\ 3 <= e[r] /\ e[r] < m[r] /\ m[r] <= Len(file)
        /\ file[m[r]] # 0
        /\ \A k \in (e[r] + 3)..m[r] : ~(file[k] = 1 /\ file[k - 1] = 0 /\ file[k - 2] = 0)
    BY UnitPlace, SMTT(30)
  <1>2. \A j \in (m[r] + 1)..Len(file) : file[j] = 0
    <2>1. Len(written) > 0
      BY LenProperties
    <2> QED BY <2>1 DEF Layout
  <1>3. ASSUME NEW k \in StartCodes(e[r]) PROVE FALSE
    <2>1. k \in (e[r] + 3)..Len(file) /\ file[k] = 1 /\ file[k - 1] = 0 /\ file[k - 2] = 0
      BY DEF StartCodes
    <2>2. k \in (e[r] + 3)..m[r] \/ k \in (m[r] + 1)..Len(file)
      BY <2>1, <1>1
    <2> QED BY <2>1, <2>2, <1>1, <1>2
  <1>4. Max(NonZeros(e[r], Len(file))) = m[r]
    <2> DEFINE S == NonZeros(e[r], Len(file))
    <2>1. S \in SUBSET Int /\ m[r] \in S
      BY <1>1 DEF NonZeros
    <2>2. ASSUME NEW y \in S PROVE m[r] >= y
      <3>1. y \in e[r]..Len(file) /\ file[y] # 0
        BY DEF NonZeros
      <3>2. ~(y \in (m[r] + 1)..Len(file))
        BY <3>1, <1>2
      <3> QED BY <3>1, <3>2, <1>1
    <2> HIDE DEF S
    <2>3. Max(S) = m[r]
      BY <2>1, <2>2, GreatestIs
    <2> QED BY <2>3 DEF S
  <1> QED BY <1>3, <1>4

\* The next start code behind a unit is that of the next unit.
LEMMA FetchBetween ==
    ASSUME file \in Seq(Byte), written \in Seq(Units), NEW e, NEW m,
           Layout(file, written, e, m), NEW r \in 1..Len(written), r + 1 \in 1..Len(written)
    PROVE  /\ StartCodes(e[r]) # {}
           /\ Min(StartCodes(e[r])) = e[r + 1]
           /\ file[e[r + 1] - 3] = 0 => Max(NonZeros(e[r], e[r + 1] - 4)) = m[r]
           /\ file[e[r + 1] - 3] # 0 => e[r + 1] - 3 = m[r]
  <1>1. /\ e[r] \in Nat /\ m[r] \in Nat /\ Len(file) \in Nat
        /\ 3 <= e[r] /\ e[r] < m[r] /\ m[r] <= Len(file)
        /\ file[m[r]] # 0
        /\ \A k \in (e[r] + 3)..m[r] : ~(file[k] = 1 /\ file[k - 1] = 0 /\ file[k - 2] = 0)
    BY UnitPlace
  <1> DEFINE q == r + 1
             x == e[q]
  <1>2. /\ x \in Nat /\ m[q] \in Nat /\ x < m[q] /\ m[q] <= Len(file)
        /\ file[x] = 1 /\ file[x - 1] = 0 /\ file[x - 2] = 0
    <2>1. q \in 1..Len(written)
      OBVIOUS
    <2> HIDE DEF q
    <2> QED BY <2>1, UnitPlace
  <1>3. x >= m[r] + 3 /\ \A j \in (m[r] + 1)..(x - 1) : file[j] = 0
    <2>1. r \in 1..(Len(written) - 1)
      BY LenProperties
    <2> QED BY <2>1 DEF Layout
  <1> HIDE DEF x
  <1> DEFINE S == StartCodes(e[r])
  <1>4. S \in SUBSET Int
    BY <1>1 DEF StartCodes
  <1>5. x \in S
    BY SMTT(30), <1>1, <1>2, <1>3 DEF StartCodes
  <1>6. ASSUME NEW y \in S PROVE x <= y
    <2>1. y \in (e[r] + 3)..Len(file) /\ file[y] = 1 /\ file[y - 1] = 0 /\ file[y - 2] = 0
      BY DEF StartCodes
    <2>2. ~(y \in (e[r] + 3)..m[r]) /\ ~(y \in (m[r] + 1)..(x - 1))
      BY SMTT(30), ZenonT(60), <2>1, <1>1, <1>3
    <2> QED BY <2>1, <2>2, <1>1, <1>2
  <1>7. S # {} /\ Min(S) = x
    <2> HIDE DEF S
    <2> QED BY <1>4, <1>5, <1>6, LeastIs
  <1>8. ASSUME file[x - 3] # 0 PROVE x - 3 = m[r]
    <2>1. ~(x - 3 \in (m[r] + 1)..(x - 1))
      BY <1>3, <1>8
    <2> QED BY <2>1, <1>1, <1>2, <1>3
  <1>9. ASSUME file[x - 3] = 0 PROVE Max(NonZeros(e[r], x - 4)) = m[r]
    <2> DEFINE T == NonZeros(e[r], x - 4)
    <2>1. x - 3 # m[r]
      BY <1>1, <1>9
    <2>2. m[r] <= x - 4
      BY SMTT(30), <2>1, <1>1, <1>2, <1>3
    <2>3. T \in SUBSET Int /\ m[r] \in T
      BY <2>2, <1>1, <1>2, SMTT(30) DEF NonZeros
    <2>4. ASSUME NEW y \in T PROVE m[r] >= y
      <3>1. y \in e[r]..(x - 4) /\ file[y] # 0
        BY DEF NonZeros
      <3>2. ~(y \in (m[r] + 1)..(x - 1))
        BY <3>1, <1>3
      <3> QED BY <3>1, <3>2, <1>1, <1>2
    <2> HIDE DEF T
    <2>5. Max(T) = m[r]
      BY <2>3, <2>4, GreatestIs
    <2> QED BY <2>5 DEF T
  <1> QED BY <1>7, <1>8, <1>9 DEF x

LEMMA TypeFacts ==
    ASSUME TypeOK
    PROVE  /\ file \in Seq(Byte) /\ written \in Seq(Units) /\ read \in Seq(UnitType)
           /\ writer \in WriterType /\ reader \in ReaderType
           /\ Len(written) \in Nat /\ Len(read) \in Nat /\ Len(file) \in Nat
  BY LenProperties DEF TypeOK

\* While there is a unit to fetch, its start code is found.
LEMMA StartCodeFound ==
    ASSUME TypeOK, NEW e, NEW m, Layout(file, written, e, m),
           ReadsWhatWasWritten, Ahead(Len(read) + 1, e), ~AtEnd
    PROVE  /\ Len(read) + 1 \in 1..Len(written)
           /\ HasStartCode /\ StartCodeEnd = e[Len(read) + 1]
           /\ ~reader.eof
  <1> DEFINE r == Len(read) + 1
  <1>1. /\ file \in Seq(Byte) /\ written \in Seq(Units)
        /\ Len(written) \in Nat /\ Len(read) \in Nat /\ Len(file) \in Nat
    BY TypeFacts
  <1>2. r \in Nat /\ r >= 1
    BY <1>1
  <1>3. Ahead(r, e)
    OBVIOUS
  <1>4. CASE reader.next # 0
    <2>1. r <= Len(written) /\ reader.pos = e[r] /\ ~reader.eof
      BY <1>3, <1>4 DEF Ahead
    <2> HIDE DEF r
    <2>2. r \in 1..Len(written)
      BY <2>1, <1>1, <1>2
    <2>3. HasStartCode /\ StartCodeEnd = e[r]
      BY <2>1, <1>4 DEF HasStartCode, StartCodeEnd
    <2> QED BY <2>1, <2>2, <2>3 DEF r
  <1>5. CASE reader.next = 0
    <2>1. ~reader.eof /\ file # <<>>
      BY <1>5 DEF AtEnd
    <2>2. r = 1
      BY <2>1, <1>3, <1>5 DEF Ahead
    <2>3. Len(written) # 0
      BY <2>1 DEF Layout
    <2>4. 1 \in 1..Len(written)
      BY <2>3, <1>1
    <2>5. /\ e[1] \in Nat /\ 3 <= e[1] /\ m[1] \in Nat /\ e[1] < m[1] /\ m[1] <= Len(file)
          /\ file[e[1]] = 1
      BY <2>4, <1>1, UnitPlace
    <2>6. \A j \in 1..(e[1] - 1) : file[j] = 0
      BY <2>3, <1>1 DEF Layout
    <2> DEFINE S == NonZeros(1, Len(file))
    <2>7. S \in SUBSET Int /\ e[1] \in S
      BY <2>5, <1>1 DEF NonZeros
    <2>8. ASSUME NEW y \in S PROVE e[1] <= y
      <3>1. y \in 1..Len(file) /\ file[y] # 0
        BY DEF NonZeros
      <3>2. ~(y \in 1..(e[1] - 1))
        BY <3>1, <2>6
      <3> QED BY <3>1, <3>2, <2>5
    <2> HIDE DEF S
    <2>9. Min(S) = e[1] /\ S # {}
      BY <2>7, <2>8, LeastIs
    <2>10. StartCodeEnd = e[1]
      BY <2>9, <1>5 DEF StartCodeEnd, S
    <2>11. HasStartCode
      BY <2>5, <2>9, <2>10 DEF HasStartCode, S
    <2> QED BY <2>1, <2>2, <2>4, <2>10, <2>11
  <1> QED BY <1>4, <1>5

\* The unit is fetched whole, and nothing behind it.
LEMMA UnitFetched ==
    ASSUME TypeOK, NEW e, NEW m, Layout(file, written, e, m),
           NEW r \in 1..Len(written), ~reader.eof
    PROVE  /\ FetchFrom(e[r]).nal = SubSeq(file, e[r] + 1, m[r])
           /\ FetchFrom(e[r]) \in ReaderType
           /\ IF r = Len(written)
              THEN FetchFrom(e[r]).next = 0 /\ FetchFrom(e[r]).eof
              ELSE /\ FetchFrom(e[r]).next # 0 /\ FetchFrom(e[r]).pos = e[r + 1]
                   /\ ~FetchFrom(e[r]).eof
  <1>1. file \in Seq(Byte) /\ written \in Seq(Units) /\ Len(written) \in Nat /\ reader \in ReaderType
    BY TypeFacts
  <1>2. e[r] \in Nat /\ m[r] \in Nat /\ UnitNal(SubSeq(file, e[r] + 1, m[r]), written[r])
    BY <1>1, UnitPlace
  <1> DEFINE nal == SubSeq(file, e[r] + 1, m[r])
  <1>3. nal \in Seq(Byte)
    <2>1. written[r] \in Units
      BY <1>1, ElementOfSeq
    <2> HIDE DEF nal
    <2> QED BY <2>1, <1>2, UnitNalLength DEF nal
  <1>4. CASE r = Len(written)
    <2>1. StartCodes(e[r]) = {} /\ Max(NonZeros(e[r], Len(file))) = m[r]
      BY <1>1, <1>4, FetchLast
    <2>2. FetchFrom(e[r]) = [reader EXCEPT !.eof = TRUE, !.next = 0, !.nal = nal]
      BY <2>1 DEF FetchFrom
    <2> HIDE DEF nal
    <2>3. /\ FetchFrom(e[r]).nal = nal
          /\ FetchFrom(e[r]).next = 0 /\ FetchFrom(e[r]).eof
          /\ FetchFrom(e[r]) \in ReaderType
      BY <2>2, <1>1, <1>3 DEF ReaderType
    <2> QED BY <2>3, <1>4 DEF nal
  <1>5. CASE r # Len(written)
    <2>1. r + 1 \in 1..Len(written)
      BY <1>1, <1>5
    <2> DEFINE x == e[r + 1]
    <2>2. /\ StartCodes(e[r]) # {} /\ Min(StartCodes(e[r])) = x
          /\ file[x - 3] = 0 => Max(NonZeros(e[r], x - 4)) = m[r]
          /\ file[x - 3] # 0 => x - 3 = m[r]
      BY <2>1, <1>1, FetchBetween
    <2>3. x \in Nat
      <3> DEFINE q == r + 1
      <3>1. q \in 1..Len(written)
        BY <2>1
      <3> HIDE DEF q
      <3>2. e[q] \in Nat
        BY <3>1, <1>1, UnitPlace
      <3> QED BY <3>2 DEF q
    <2> HIDE DEF x
    <2>4. PICK n \in {3, 4} : FetchFrom(e[r]) = [reader EXCEPT !.pos = x, !.next = n, !.nal = nal]
      <3>1. CASE file[x - 3] = 0
        BY <3>1, <2>2 DEF FetchFrom
      <3>2. CASE file[x - 3] # 0
        BY <3>2, <2>2 DEF FetchFrom
      <3> QED BY <3>1, <3>2
    <2> HIDE DEF nal
    <2>5. /\ FetchFrom(e[r]).nal = nal
          /\ FetchFrom(e[r]).next # 0 /\ FetchFrom(e[r]).pos = x
          /\ FetchFrom(e[r]).eof = reader.eof
      BY <2>4, <1>1 DEF ReaderType
    <2>6. FetchFrom(e[r]) \in ReaderType
      <3>1. n \in {0, 3, 4} /\ reader \in ReaderType
        BY <1>1
      <3> HIDE DEF ReaderType
      <3>2. FetchFrom(e[r]) = [reader EXCEPT !.pos = x, !.next = n, !.nal = nal]
        BY <2>4
      <3> QED BY ONLY <3>1, <3>2, <2>3, <1>3 DEF ReaderType
    <2>7. ~FetchFrom(e[r]).eof
      BY <2>5
    <2> QED BY <2>5, <2>6, <2>7, <1>5 DEF nal, x
  <1> QED BY <1>4, <1>5

LEMMA EmptyIsCopied ==
    ASSUME NEW u
    PROVE  IsCopied(<<>>, u, 0)
  BY DEF IsCopied

LEMMA UnescapingStarts ==
    ASSUME NEW u \in Units, NEW nal, UnitNal(nal, u)
    PROVE  Unescaping(nal, 2, 0, <<>>, u)
  <1>1. PICK f, c, w : IsUnit(nal, u, f, c, w)
    BY DEF UnitNal
  <1>2. f[0] = 0 /\ c[0] = 0 /\ 0 \in 0..Len(u.rbsp)
    <2>1. Len(u.rbsp) \in Nat
      BY UnitsHaveTypes
    <2> QED BY <1>1, <2>1 DEF IsUnit, Escaped
  <1>3. InPayload(2, 0, <<>>, u, f, c)
    BY <1>2, EmptyIsCopied DEF InPayload
  <1> QED BY <1>1, <1>3 DEF Unescaping

LEMMA Restarted ==
    ASSUME NEW x \in ReaderType, NEW i \in Nat, NEW count \in 0..2, NEW out \in Seq(Byte)
    PROVE  [x EXCEPT !.at = "unescape", !.i = i, !.count = count, !.out = out] \in ReaderType
  BY DEF ReaderType

LEMMA FetchKeeps ==
    ASSUME IInv, FetchUnit
    PROVE  IInv'
  <1> PICK e, m : Layout(file, written, e, m) /\ ReaderOK(e, m)
    BY DEF IInv
  <1> DEFINE r == Len(read) + 1
  <1>1. TypeOK /\ WriterOK
    BY DEF IInv
  <1>2. /\ written \in Seq(Units) /\ file \in Seq(Byte) /\ reader \in ReaderType
        /\ Len(written) \in Nat /\ Len(read) \in Nat
    BY <1>1, TypeFacts
  <1>3. /\ writer.at = "closed" /\ reader.at = "start"
        /\ UNCHANGED <<file, writer, written, read>>
    BY DEF FetchUnit
  <1>4. ReadsWhatWasWritten /\ NoError /\ Ahead(r, e)
    BY <1>3 DEF ReaderOK
  <1>5. WriterOK' /\ AfterClosing' /\ ReadsWhatWasWritten' /\ Layout(file', written', e, m)
    BY <1>1, <1>3, <1>4 DEF WriterOK, AfterClosing, ReadsWhatWasWritten
  <1>6. ASSUME reader' \in ReaderType, ReaderOK(e, m)'
        PROVE  IInv'
    <2>1. TypeOK'
      BY <1>1, <1>3, <1>6 DEF TypeOK
    <2> QED BY <2>1, <1>5, <1>6 DEF IInv
  <1>7. CASE AtEnd
    <2>1. reader' = [reader EXCEPT !.at = "end"]
      BY <1>7 DEF FetchUnit
    <2>2. reader' \in ReaderType /\ reader'.at = "end"
      BY <2>1, <1>2 DEF ReaderType
    <2>3. r = Len(written) + 1
      <3>1. CASE reader.eof
        BY <3>1, <1>4, <1>7 DEF Ahead, AtEnd
      <3>2. CASE ~reader.eof /\ file = <<>>
        <4>1. r = 1
          BY <3>2, <1>4, <1>7 DEF Ahead, AtEnd
        <4>2. ASSUME Len(written) # 0 PROVE FALSE
          <5>1. 1 \in 1..Len(written)
            BY <4>2, <1>2
          <5>2. e[1] \in Nat /\ m[1] \in Nat /\ e[1] < m[1] /\ m[1] <= Len(file)
            BY <5>1, <1>2, UnitPlace
          <5> QED BY <5>2, <3>2
        <4> QED BY <4>1, <4>2
      <3> QED BY <3>1, <3>2, <1>7 DEF AtEnd
    <2>4. ReaderOK(e, m)'
      BY <2>2, <2>3, <1>3, <1>5 DEF ReaderOK, NoError
    <2> QED BY <2>2, <2>4, <1>6
  <1>8. CASE ~AtEnd
    <2>1. r \in 1..Len(written) /\ HasStartCode /\ StartCodeEnd = e[r] /\ ~reader.eof
      BY <1>1, <1>4, <1>8, StartCodeFound
    <2> HIDE DEF r
    <2> DEFINE new == FetchFrom(e[r])
    <2>2. /\ new.nal = SubSeq(file, e[r] + 1, m[r])
          /\ new \in ReaderType
          /\ IF r = Len(written)
             THEN new.next = 0 /\ new.eof
             ELSE new.next # 0 /\ new.pos = e[r + 1] /\ ~new.eof
      BY <2>1, <1>1, UnitFetched
    <2>3. reader' = [new EXCEPT !.at = "unescape", !.i = 2, !.count = 0, !.out = <<>>]
      BY <2>1, <1>8 DEF FetchUnit
    <2> HIDE DEF new
    <2>4. /\ reader'.at = "unescape" /\ reader'.i = 2 /\ reader'.count = 0 /\ reader'.out = <<>>
          /\ reader'.nal = new.nal /\ reader'.next = new.next /\ reader'.pos = new.pos
      BY <2>2, <2>3 DEF ReaderType
    <2>5. reader'.eof = new.eof
      <3>1. "eof" \in DOMAIN new
        BY <2>2 DEF ReaderType
      <3> QED BY ONLY <3>1, <2>3
    <2>6. reader' \in ReaderType
      <3>1. new \in ReaderType
        BY <2>2
      <3>2. 2 \in Nat /\ 0 \in 0..2 /\ <<>> \in Seq(Byte)
        OBVIOUS
      <3> QED BY <3>1, <3>2, <2>3, Restarted
    <2>7. Unescaping(reader'.nal, reader'.i, reader'.count, reader'.out, written[r])
      <3>1. written[r] \in Units
        BY <2>1, <1>2, ElementOfSeq
      <3>2. UnitNal(SubSeq(file, e[r] + 1, m[r]), written[r])
        BY <2>1, <1>2, UnitPlace
      <3> QED BY <3>1, <3>2, <2>2, <2>4, UnescapingStarts
    <2>8. Ahead(r + 1, e)' /\ (reader'.next = 0 => reader'.eof)
      <3>3. r' = r
        BY <1>3 DEF r
      <3>1. CASE r = Len(written)
        <4>1. reader'.next = 0 /\ reader'.eof
          BY <3>1, <2>2, <2>4, <2>5
        <4>2. r + 1 = Len(written') + 1
          BY <3>1, <1>3
        <4> QED BY ONLY <4>1, <4>2, <3>3 DEF Ahead
      <3>2. CASE r # Len(written)
        <4>1. r + 1 <= Len(written)
          BY <3>2, <2>1, <1>2
        <4>2. reader'.next # 0 /\ reader'.pos = e[r + 1] /\ ~reader'.eof
          BY <3>2, <2>2, <2>4, <2>5
        <4>3. r + 1 <= Len(written')
          BY <4>1, <1>3
        <4> QED BY ONLY <4>2, <4>3, <3>3 DEF Ahead
      <3> QED BY <3>1, <3>2
    <2>9. ReaderOK(e, m)'
      <3>1. r' = r /\ r <= Len(written)' /\ written'[r] = written[r]
        BY <1>3, <2>1, <1>2 DEF r
      <3>2. NoError' /\ reader'.at = "unescape"
        BY <2>4 DEF NoError
      <3> QED BY <3>1, <3>2, <2>7, <2>8, <1>5 DEF ReaderOK, r
    <2> QED BY <2>6, <2>9, <1>6
  <1> QED BY <1>7, <1>8
-----------------------------------------------------------------------------
(* The decoder: taking the prevention bytes out                            *)

\* The layout of a unit at byte k of its payload.
LEMMA PayloadPlace ==
    ASSUME NEW u \in Units, NEW nal, NEW f, NEW c, NEW w, IsUnit(nal, u, f, c, w),
           NEW k \in 0..Len(u.rbsp)
    PROVE  /\ f[k] \in Nat /\ c[k] \in 0..2 /\ f[Len(u.rbsp)] \in Nat /\ f[k] <= f[Len(u.rbsp)]
           /\ Len(u.rbsp) \in Nat /\ 3 * w \in Nat /\ Len(nal) = 1 + f[Len(u.rbsp)] + 3 * w
           /\ k < Len(u.rbsp) => f[k] < f[Len(u.rbsp)]
           /\ c[Len(u.rbsp)] = 0
  <1> DEFINE n == Len(u.rbsp)
  <1>1. n \in Nat /\ n > 0 /\ u.rbsp[n] # 0
    BY UnitsHaveTypes
  <1>2. Escaped(u.rbsp, n, nal, 1, f, c) /\ w \in Nat /\ Len(nal) = 1 + f[n] + 3 * w
    BY DEF IsUnit
  <1> HIDE DEF n
  <1>3. /\ f \in [0..n -> Nat] /\ c \in [0..n -> 0..2]
        /\ \A i, j \in 0..n : i < j => f[i] < f[j]
    BY <1>2 DEF Escaped
  <1>4. k \in 0..n /\ n \in 0..n
    BY <1>1 DEF n
  <1>5. f[k] \in Nat /\ f[n] \in Nat /\ c[k] \in 0..2 /\ 3 * w \in Nat
    BY <1>2, <1>3, <1>4
  <1>6. k < n => f[k] < f[n]
    BY <1>3, <1>4
  <1>7. f[k] <= f[n]
    BY <1>4, <1>5, <1>6
  <1>8. c[n] = 0
    <2>1. n \in 1..n
      BY <1>1
    <2>2. c[n] = CountAfter(c[n - 1], u.rbsp[n])
      BY <2>1, <1>2 DEF Escaped
    <2> QED BY <2>2, <1>1 DEF CountAfter
  <1> QED BY <1>1, <1>2, <1>5, <1>6, <1>7, <1>8 DEF n

\* The byte behind byte k of the payload.
LEMMA PayloadNext ==
    ASSUME NEW u \in Units, NEW nal, NEW f, NEW c, NEW w, IsUnit(nal, u, f, c, w),
           NEW k \in 0..(Len(u.rbsp) - 1)
    PROVE  /\ u.rbsp[k + 1] \in Byte
           /\ f[k + 1] \in Nat /\ f[k + 1] <= f[Len(u.rbsp)]
           /\ c[k + 1] = CountAfter(c[k], u.rbsp[k + 1])
           /\ nal[1 + f[k + 1]] = u.rbsp[k + 1]
           /\ NeedsEscape(c[k], u.rbsp[k + 1]) => f[k + 1] = f[k] + 2 /\ nal[1 + f[k + 1] - 1] = 3
           /\ ~NeedsEscape(c[k], u.rbsp[k + 1]) => f[k + 1] = f[k] + 1
  <1> DEFINE n == Len(u.rbsp)
             j == k + 1
  <1>1. n \in Nat /\ \A i \in 1..n : u.rbsp[i] \in Byte
    BY UnitsHaveTypes
  <1>2. j \in 1..n /\ j \in 0..n /\ j - 1 = k
    BY <1>1
  <1>3. Escaped(u.rbsp, n, nal, 1, f, c)
    BY DEF IsUnit
  <1> HIDE DEF j
  <1>4. f[j] \in Nat /\ f[j] <= f[n]
    BY <1>2, PayloadPlace
  <1> HIDE DEF n
  <1>5. /\ c[j] = CountAfter(c[j - 1], u.rbsp[j])
        /\ nal[1 + f[j]] = u.rbsp[j]
        /\ IF NeedsEscape(c[j - 1], u.rbsp[j])
           THEN f[j] = f[j - 1] + 2 /\ nal[1 + f[j] - 1] = 3
           ELSE f[j] = f[j - 1] + 1
    BY <1>2, <1>3 DEF Escaped
  <1>6. u.rbsp[j] \in Byte
    BY <1>1, <1>2
  <1> QED BY <1>2, <1>4, <1>5, <1>6 DEF j, n

\* Where UnescapeByte takes its byte from, and what it counts before it.
Takes(nal, i, count, j, zeros) ==
  IF IsPrevention(nal, i, count) THEN j = i + 1 /\ zeros = 0 ELSE j = i /\ zeros = count

CountOf(b, zeros) == IF b = 0 THEN zeros + 1 ELSE 0

LEMMA AppendElements ==
    ASSUME NEW out \in Seq(Byte), NEW b \in Byte
    PROVE  /\ Append(out, b) \in Seq(Byte) /\ Len(out) \in Nat
           /\ Len(Append(out, b)) = Len(out) + 1
           /\ \A j \in 1..Len(out) : Append(out, b)[j] = out[j]
           /\ Append(out, b)[Len(out) + 1] = b
  BY AppendProperties, LenProperties

\* A byte of the payload: a prevention byte is taken out where one was put in.
LEMMA PayloadStep ==
    ASSUME NEW u \in Units, NEW nal, NEW f, NEW c, NEW w, IsUnit(nal, u, f, c, w),
           NEW k \in 0..(Len(u.rbsp) - 1), NEW i, i = 2 + f[k], NEW count, count = c[k],
           NEW out \in Seq(Byte), IsCopied(out, u, k),
           NEW j, NEW zeros, Takes(nal, i, count, j, zeros)
    PROVE  /\ ~IsForbidden(nal, i, count)
           /\ IsPrevention(nal, i, count) => i # Len(nal)
           /\ nal[j] \in Byte
           /\ InPayload(j + 1, CountOf(nal[j], zeros), Append(out, nal[j]), u, f, c)
  <1> DEFINE b == u.rbsp[k + 1]
             n == Len(u.rbsp)
  <1>1. /\ b \in Byte /\ f[k + 1] \in Nat /\ f[k + 1] <= f[n]
        /\ c[k + 1] = CountAfter(c[k], b)
        /\ nal[1 + f[k + 1]] = b
        /\ NeedsEscape(c[k], b) => f[k + 1] = f[k] + 2 /\ nal[1 + f[k + 1] - 1] = 3
        /\ ~NeedsEscape(c[k], b) => f[k + 1] = f[k] + 1
    BY SMTT(30), PayloadNext
  <1>2. n \in Nat /\ k \in 0..n /\ k + 1 \in 0..n
    BY UnitsHaveTypes
  <1>3. f[k] \in Nat /\ c[k] \in 0..2 /\ f[n] \in Nat /\ 3 * w \in Nat /\ Len(nal) = 1 + f[n] + 3 * w
    BY <1>2, PayloadPlace
  <1> HIDE DEF n, b
  <1>4. /\ ~IsForbidden(nal, i, count)
        /\ IsPrevention(nal, i, count) => i # Len(nal)
        /\ j + 1 = 2 + f[k + 1] /\ nal[j] = b
        /\ CountOf(b, zeros) = CountAfter(c[k], b)
    <2>1. CASE NeedsEscape(c[k], b)
      <3>1. c[k] = 2 /\ b <= 3 /\ f[k + 1] = f[k] + 2
        BY <2>1, <1>1 DEF NeedsEscape
      <3>2. 1 + f[k + 1] - 1 = i /\ 1 + f[k + 1] = i + 1
        BY <3>1, <1>3
      <3>3. nal[i] = 3 /\ nal[i + 1] = b
        BY <3>2, <2>1, <1>1
      <3>4. i # Len(nal)
        BY SMTT(30), <3>2, <1>1, <1>3
      <3>5. ~IsForbidden(nal, i, count) /\ IsPrevention(nal, i, count)
        BY <3>1, <3>3, <1>1 DEF IsForbidden, IsPrevention, Byte
      <3>6. j = i + 1 /\ zeros = 0
        BY <3>5 DEF Takes
      <3>7. CountOf(b, zeros) = CountAfter(c[k], b)
        BY <3>1, <3>6, <2>1 DEF CountOf, CountAfter
      <3>8. j + 1 = 2 + f[k + 1]
        BY SMTT(30), <3>1, <3>6, <1>3
      <3> QED BY <3>3, <3>4, <3>5, <3>6, <3>7, <3>8
    <2>2. CASE ~NeedsEscape(c[k], b)
      <3>1. f[k + 1] = f[k] + 1 /\ ~(c[k] = 2 /\ b <= 3)
        BY <2>2, <1>1 DEF NeedsEscape
      <3>2. i = 1 + f[k + 1]
        BY <3>1, <1>3
      <3>3. nal[i] = b
        BY <3>2, <1>1
      <3>4. ~IsForbidden(nal, i, count) /\ ~IsPrevention(nal, i, count)
        BY <3>1, <3>3, <1>1 DEF IsForbidden, IsPrevention, Byte
      <3>5. j = i /\ zeros = c[k]
        BY <3>4 DEF Takes
      <3>6. CountOf(b, zeros) = CountAfter(c[k], b)
        BY <3>5, <2>2 DEF CountOf, CountAfter
      <3>7. j + 1 = 2 + f[k + 1]
        BY <3>2, <3>5, <1>1
      <3> QED BY <3>3, <3>4, <3>5, <3>6, <3>7
    <2> QED BY <2>1, <2>2
  <1>5. /\ Len(Append(out, b)) = k + 1
        /\ \A x \in 1..(k + 1) : Append(out, b)[x] = u.rbsp[x]
    <2>1. /\ Len(Append(out, b)) = k + 1
          /\ \A x \in 1..k : Append(out, b)[x] = out[x]
          /\ Append(out, b)[k + 1] = b
      BY <1>1, AppendElements DEF IsCopied
    <2>2. \A x \in 1..(k + 1) : x \in 1..k \/ x = k + 1
      OBVIOUS
    <2> QED BY <2>1, <2>2 DEF b, IsCopied
  <1>6. InPayload(2 + f[k + 1], c[k + 1], Append(out, b), u, f, c)
    BY <1>2, <1>5 DEF InPayload, IsCopied, n
  <1> QED BY <1>1, <1>4, <1>6

LEMMA EveryThird ==
    ASSUME NEW q \in Nat, NEW count, q % 3 = count
    PROVE  /\ count \in 0..2
           /\ count # 2 => (q + 1) % 3 = count + 1
           /\ count = 2 => (q + 1) % 3 = 0 /\ (q + 2) % 3 = 1
  OBVIOUS

\* A byte of the zero words, of which q are consumed.
LEMMA ZeroWordStep ==
    ASSUME NEW u \in Units, NEW nal, NEW f, NEW c, NEW w, IsUnit(nal, u, f, c, w),
           NEW q \in 0..(3 * w - 1), NEW i, i = 2 + f[Len(u.rbsp)] + q,
           NEW count, q % 3 = count, q > 0 => count # 0,
           NEW out \in Seq(Byte), Len(out) >= Len(u.rbsp),
           \A x \in 1..Len(out) : out[x] = IF x <= Len(u.rbsp) THEN u.rbsp[x] ELSE 0,
           NEW j, NEW zeros, Takes(nal, i, count, j, zeros)
    PROVE  /\ ~IsForbidden(nal, i, count)
           /\ IF IsPrevention(nal, i, count) /\ i = Len(nal)
              THEN InZeroWords(i + 1, count, out, u, f, w)
              ELSE /\ nal[j] \in Byte
                   /\ InZeroWords(j + 1, CountOf(nal[j], zeros), Append(out, nal[j]), u, f, w)
  <1> DEFINE n == Len(u.rbsp)
             F == f[n]
             W == 3 * w
  <1>1. n \in Nat /\ F \in Nat /\ 3 * w \in Nat /\ Len(nal) = 1 + F + 3 * w
    <2>1. n \in Nat /\ n \in 0..n
      BY UnitsHaveTypes
    <2> QED BY <2>1, PayloadPlace
  <1>2. \A x \in 1..(3 * w) : nal[1 + F + x] = IF x % 3 = 0 THEN 3 ELSE 0
    BY DEF IsUnit
  <1>3. Len(out) \in Nat /\ w \in Nat
    BY LenProperties DEF IsUnit
  <1>9. /\ q \in Nat /\ q < W /\ i = 2 + F + q /\ W \in Nat /\ F \in Nat
        /\ Len(nal) = 1 + F + W
    BY <1>1, <1>3
  <1>10. \A x \in 1..W : nal[1 + F + x] = IF x % 3 = 0 THEN 3 ELSE 0
    BY <1>2
  <1>11. /\ count \in 0..2
         /\ count # 2 => (q + 1) % 3 = count + 1
         /\ count = 2 => (q + 1) % 3 = 0 /\ (q + 2) % 3 = 1
    BY <1>9, EveryThird
  <1>12. ASSUME NEW x \in 1..W, NEW a, NEW d, NEW s, a = 2 + F + x, x < W => x % 3 = d /\ d # 0,
                Len(s) >= n, \A y \in 1..Len(s) : s[y] = IF y <= n THEN u.rbsp[y] ELSE 0
         PROVE  InZeroWords(a, d, s, u, f, w)
    BY <1>12 DEF InZeroWords
  <1> HIDE DEF F, W
  <1>4. nal[i] = IF (q + 1) % 3 = 0 THEN 3 ELSE 0
    <2>1. q + 1 \in 1..W /\ 1 + F + (q + 1) = i
      BY <1>9
    <2> QED BY <2>1, <1>10
  <1>5. 0 \in Byte /\ count \in 0..2
    BY DEF Byte
  <1> DEFINE more == Append(out, 0)
  <1>6. /\ more \in Seq(Byte) /\ Len(more) = Len(out) + 1
        /\ \A x \in 1..Len(more) : more[x] = IF x <= n THEN u.rbsp[x] ELSE 0
    <2>1. /\ more \in Seq(Byte) /\ Len(more) = Len(out) + 1
          /\ \A x \in 1..Len(out) : more[x] = out[x]
          /\ more[Len(out) + 1] = 0
      BY <1>5, AppendElements
    <2> HIDE DEF more
    <2>2. ASSUME NEW x \in 1..Len(more) PROVE more[x] = IF x <= n THEN u.rbsp[x] ELSE 0
      <3>1. CASE x \in 1..Len(out)
        BY <3>1, <2>1
      <3>2. CASE x = Len(out) + 1
        BY <3>2, <2>1, <1>1, <1>3
      <3> QED BY <3>1, <3>2, <2>1, <1>3
    <2> QED BY <2>1, <2>2
  <1> HIDE DEF more
  <1>7. CASE count # 2
    <2>1. nal[i] = 0 /\ (q + 1) % 3 = count + 1 /\ count + 1 # 0 /\ q + 1 \in 1..W
      <3>1. (q + 1) % 3 = count + 1 /\ count + 1 # 0
        BY ONLY <1>7, <1>11
      <3>2. q + 1 \in 1..W
        BY ONLY <1>9
      <3>3. (q + 1) % 3 # 0
        BY ONLY <3>1
      <3>4. nal[i] = 0
        BY ONLY <3>3, <1>4
      <3> QED BY ONLY <3>1, <3>2, <3>4
    <2>2. ~IsForbidden(nal, i, count) /\ ~IsPrevention(nal, i, count)
      BY <1>7 DEF IsForbidden, IsPrevention
    <2>3. j = i /\ zeros = count
      BY <2>2 DEF Takes
    <2>4. nal[j] = 0 /\ CountOf(nal[j], zeros) = count + 1 /\ Append(out, nal[j]) = more
      BY <2>1, <2>3 DEF CountOf, more
    <2>5. j + 1 = 2 + F + (q + 1)
      BY <2>3, <1>9
    <2>6. InZeroWords(j + 1, count + 1, more, u, f, w)
      <3>1. Len(more) >= n
        BY <1>1, <1>3, <1>6
      <3> QED BY <3>1, <2>1, <2>5, <1>6, <1>12
    <2> QED BY <2>2, <2>4, <2>6, <1>5
  <1>8. CASE count = 2
    <2>1. nal[i] = 3 /\ (q + 1) % 3 = 0 /\ q + 1 \in 1..W
      <3>1. (q + 1) % 3 = 0
        BY ONLY <1>8, <1>11
      <3>2. q + 1 \in 1..W
        BY ONLY <1>9
      <3>3. nal[i] = 3
        BY ONLY <3>1, <1>4
      <3> QED BY ONLY <3>1, <3>2, <3>3
    <2>2. IsPrevention(nal, i, count) /\ j = i + 1 /\ zeros = 0
      BY <2>1, <1>8 DEF IsPrevention, Takes
    <2>3. CASE i = Len(nal)
      <3>1. q + 1 = W /\ i + 1 = 2 + F + (q + 1) /\ ~(q + 1 < W)
        <4>1. 2 + F + q = 1 + F + W
          BY <2>3, <1>9
        <4>2. q + 1 = W
          BY ONLY <4>1, <1>9
        <4> QED BY <4>2, <1>9
      <3>2. ~IsForbidden(nal, i, count)
        BY <2>1, <2>3, <1>1 DEF IsForbidden
      <3>3. InZeroWords(i + 1, count, out, u, f, w)
        BY <3>1, <2>1, <1>12
      <3> QED BY <3>2, <3>3, <2>2, <2>3
    <2>4. CASE i # Len(nal)
      <3>1. q + 2 \in 1..W /\ (q + 2) % 3 = 1 /\ 1 + F + (q + 2) = i + 1
        <4>1. (q + 2) % 3 = 1 /\ (q + 1) % 3 = 0
          BY ONLY <1>8, <1>11
        <4>2. q + 1 # W
          BY ONLY <2>4, <1>9
        <4>3. q + 2 \in 1..W /\ 1 + F + (q + 2) = i + 1
          BY ONLY <4>2, <1>9
        <4> QED BY ONLY <4>1, <4>3
      <3>2. nal[i + 1] = 0
        BY <3>1, <1>10
      <3>3. ~IsForbidden(nal, i, count)
        BY <3>2, <2>1 DEF IsForbidden
      <3>4. nal[j] = 0 /\ CountOf(nal[j], zeros) = 1 /\ Append(out, nal[j]) = more
        BY <3>2, <2>2 DEF CountOf, more
      <3>5. j + 1 = 2 + F + (q + 2)
        BY <2>2, <1>9
      <3>6. InZeroWords(j + 1, 1, more, u, f, w)
        <4>1. Len(more) >= n
          BY <1>1, <1>3, <1>6
        <4> QED BY SMTT(30), <4>1, <3>1, <3>5, <1>6, <1>12
      <3> QED BY <3>3, <3>4, <3>6, <2>4, <1>5
    <2> QED BY <2>3, <2>4
  <1> QED BY <1>7, <1>8

LEMMA UnescapeStep ==
    ASSUME NEW u \in Units, NEW nal, NEW i, NEW count, NEW out \in Seq(Byte),
           Unescaping(nal, i, count, out, u), i <= Len(nal),
           NEW j, NEW zeros, Takes(nal, i, count, j, zeros)
    PROVE  /\ ~IsForbidden(nal, i, count)
           /\ IF IsPrevention(nal, i, count) /\ i = Len(nal)
              THEN Unescaping(nal, i + 1, count, out, u)
              ELSE /\ nal[j] \in Byte
                   /\ Unescaping(nal, j + 1, CountOf(nal[j], zeros), Append(out, nal[j]), u)
  <1> PICK f, c, w : /\ IsUnit(nal, u, f, c, w)
                     /\ InPayload(i, count, out, u, f, c) \/ InZeroWords(i, count, out, u, f, w)
    BY DEF Unescaping
  <1> DEFINE n == Len(u.rbsp)
             Goal == /\ ~IsForbidden(nal, i, count)
                     /\ IF IsPrevention(nal, i, count) /\ i = Len(nal)
                        THEN InZeroWords(i + 1, count, out, u, f, w)
                        ELSE /\ nal[j] \in Byte
                             /\ \/ InPayload(j + 1, CountOf(nal[j], zeros), Append(out, nal[j]), u, f, c)
                                \/ InZeroWords(j + 1, CountOf(nal[j], zeros), Append(out, nal[j]), u, f, w)
  <1>1. n \in Nat /\ n \in 0..n
    BY UnitsHaveTypes
  <1>2. f[n] \in Nat /\ 3 * w \in Nat /\ Len(nal) = 1 + f[n] + 3 * w /\ c[n] = 0
    BY <1>1, PayloadPlace
  <1>3. ASSUME InPayload(i, count, out, u, f, c) PROVE Goal
    <2> PICK k \in 0..n : i = 2 + f[k] /\ count = c[k] /\ IsCopied(out, u, k)
      BY <1>3 DEF InPayload
    <2>1. CASE k \in 0..(n - 1)
      <3>1. /\ ~IsForbidden(nal, i, count)
            /\ IsPrevention(nal, i, count) => i # Len(nal)
            /\ nal[j] \in Byte
            /\ InPayload(j + 1, CountOf(nal[j], zeros), Append(out, nal[j]), u, f, c)
        BY <2>1, PayloadStep
      <3> QED BY <3>1
    <2>2. CASE k = n
      <3> DEFINE q == 0
      <3>1. q \in 0..(3 * w - 1) /\ i = 2 + f[n] + q /\ q % 3 = count /\ ~(q > 0)
        BY <2>2, <1>1, <1>2
      <3>2. Len(out) >= n /\ \A x \in 1..Len(out) : out[x] = IF x <= n THEN u.rbsp[x] ELSE 0
        BY <2>2, <1>1 DEF IsCopied
      <3> HIDE DEF q
      <3>3. /\ ~IsForbidden(nal, i, count)
            /\ IF IsPrevention(nal, i, count) /\ i = Len(nal)
               THEN InZeroWords(i + 1, count, out, u, f, w)
               ELSE /\ nal[j] \in Byte
                    /\ InZeroWords(j + 1, CountOf(nal[j], zeros), Append(out, nal[j]), u, f, w)
        BY <3>1, <3>2, ZeroWordStep
      <3> QED BY <3>3
    <2> QED BY <2>1, <2>2, <1>1
  <1>4. ASSUME InZeroWords(i, count, out, u, f, w) PROVE Goal
    <2> PICK q \in 1..(3 * w) :
          /\ i = 2 + f[n] + q
          /\ q < 3 * w => q % 3 = count /\ count # 0
          /\ Len(out) >= n
          /\ \A x \in 1..Len(out) : out[x] = IF x <= n THEN u.rbsp[x] ELSE 0
      BY <1>4 DEF InZeroWords
    <2>1. q < 3 * w
      BY <1>2, SMTT(30)
    <2>2. q \in 0..(3 * w - 1) /\ q % 3 = count /\ (q > 0 => count # 0)
      BY <2>1, <1>2
    <2>3. /\ ~IsForbidden(nal, i, count)
          /\ IF IsPrevention(nal, i, count) /\ i = Len(nal)
             THEN InZeroWords(i + 1, count, out, u, f, w)
             ELSE /\ nal[j] \in Byte
                  /\ InZeroWords(j + 1, CountOf(nal[j], zeros), Append(out, nal[j]), u, f, w)
      BY <2>2, ZeroWordStep
    <2> QED BY <2>3
  <1>5. Goal
    BY <1>3, <1>4
  <1> QED BY <1>5 DEF Unescaping

LEMMA UnescapeKeeps ==
    ASSUME IInv, UnescapeByte
    PROVE  IInv'
  <1> PICK e, m : Layout(file, written, e, m) /\ ReaderOK(e, m)
    BY DEF IInv
  <1> DEFINE r == Len(read) + 1
             u == written[r]
             nal == reader.nal
             i == reader.i
             count == reader.count
             out == reader.out
             j == IF IsPrevention(nal, i, count) THEN i + 1 ELSE i
             zeros == IF IsPrevention(nal, i, count) THEN 0 ELSE count
  <1>1. TypeOK /\ WriterOK /\ AfterClosing
    BY DEF IInv
  <1>2. /\ written \in Seq(Units) /\ reader \in ReaderType
        /\ Len(written) \in Nat /\ Len(read) \in Nat
    BY <1>1, TypeFacts
  <1>3. /\ reader.at = "unescape" /\ i <= Len(nal)
        /\ UNCHANGED <<file, writer, written, read>>
    BY DEF UnescapeByte
  <1>4. /\ ReadsWhatWasWritten /\ NoError /\ r <= Len(written)
        /\ Ahead(r + 1, e) /\ (reader.next = 0 => reader.eof)
        /\ Unescaping(nal, i, count, out, u)
    BY <1>3 DEF ReaderOK
  <1>5. u \in Units
    <2>1. r \in 1..Len(written)
      BY <1>2, <1>4
    <2> HIDE DEF r
    <2> QED BY <2>1, <1>2, ElementOfSeq DEF u
  <1>6. nal \in Seq(Byte) /\ i \in Nat /\ count \in 0..2 /\ out \in Seq(Byte)
    BY <1>2 DEF ReaderType
  <1>7. Takes(nal, i, count, j, zeros)
    BY DEF Takes
  <1> HIDE DEF r, u
  <1>8. /\ ~IsForbidden(nal, i, count)
        /\ IF IsPrevention(nal, i, count) /\ i = Len(nal)
           THEN Unescaping(nal, i + 1, count, out, u)
           ELSE /\ nal[j] \in Byte
                /\ Unescaping(nal, j + 1, CountOf(nal[j], zeros), Append(out, nal[j]), u)
    <2> HIDE DEF nal, i, count, out, j, zeros
    <2> QED BY <1>3, <1>4, <1>5, <1>6, <1>7, UnescapeStep
  <1>9. \E a, b, s : /\ reader' = [reader EXCEPT !.i = a, !.count = b, !.out = s]
                     /\ a \in Nat /\ b \in 0..2 /\ s \in Seq(Byte)
                     /\ Unescaping(nal, a, b, s, u)
    <2>1. CASE IsPrevention(nal, i, count) /\ i = Len(nal)
      <3>1. reader' = [reader EXCEPT !.i = i + 1]
        BY <2>1, <1>8 DEF UnescapeByte
      <3>2. reader' = [reader EXCEPT !.i = i + 1, !.count = count, !.out = out]
        BY <3>1, <1>2 DEF ReaderType
      <3>3. i + 1 \in Nat
        BY <1>6
      <3>4. Unescaping(nal, i + 1, count, out, u)
        BY <2>1, <1>8
      <3> HIDE DEF nal, i, count, out
      <3> QED BY <3>2, <3>3, <3>4, <1>6
    <2>2. CASE ~(IsPrevention(nal, i, count) /\ i = Len(nal))
      <3>1. reader' = Copy(j, zeros)
        <4>1. CASE IsPrevention(nal, i, count)
          BY <4>1, <2>2, <1>8 DEF UnescapeByte
        <4>2. CASE ~IsPrevention(nal, i, count)
          BY <4>2, <1>8 DEF UnescapeByte
        <4> QED BY <4>1, <4>2
      <3>2. reader' = [reader EXCEPT !.i = j + 1, !.count = CountOf(nal[j], zeros),
                                     !.out = Append(out, nal[j])]
        BY <3>1 DEF Copy, CountOf
      <3>3. nal[j] \in Byte /\ Unescaping(nal, j + 1, CountOf(nal[j], zeros), Append(out, nal[j]), u)
        BY <2>2, <1>8
      <3>4. CountOf(nal[j], zeros) \in 0..2
        <4>1. CASE IsPrevention(nal, i, count)
          BY <4>1 DEF CountOf
        <4>2. CASE ~IsPrevention(nal, i, count)
          <5>1. j = i /\ zeros = count
            BY <4>2
          <5> HIDE DEF j, zeros, nal, i, count
          <5>2. count = 2 => nal[j] # 0
            BY <5>1, <1>8 DEF IsForbidden
          <5> QED BY <5>1, <5>2, <1>6 DEF CountOf
        <4> QED BY <4>1, <4>2
      <3>5. j + 1 \in Nat
        BY <1>6
      <3> HIDE DEF nal, i, count, out, j, zeros
      <3>6. Append(out, nal[j]) \in Seq(Byte)
        BY <3>3, <1>6, AppendElements
      <3> QED BY <3>2, <3>3, <3>4, <3>5, <3>6
    <2> QED BY <2>1, <2>2
  <1>10. PICK a, b, s : /\ reader' = [reader EXCEPT !.i = a, !.count = b, !.out = s]
                        /\ a \in Nat /\ b \in 0..2 /\ s \in Seq(Byte)
                        /\ Unescaping(nal, a, b, s, u)
    BY <1>9
  <1>11. /\ reader' \in ReaderType
         /\ reader'.nal = nal /\ reader'.i = a /\ reader'.count = b /\ reader'.out = s
         /\ reader'.at = reader.at /\ reader'.next = reader.next
         /\ reader'.eof = reader.eof /\ reader'.pos = reader.pos
    BY <1>2, <1>10 DEF ReaderType
  <1>12. Unescaping(reader'.nal, reader'.i, reader'.count, reader'.out, u)
    BY <1>10, <1>11
  <1>13. r' = r /\ u' = u
    BY <1>3 DEF r, u
  <1>14. Ahead(r + 1, e)' /\ (reader'.next = 0 => reader'.eof)
    <2>1. (r + 1)' = r + 1 /\ written' = written
      BY <1>3, <1>13
    <2> QED BY <2>1, <1>4, <1>11 DEF Ahead
  <1>15. ReaderOK(e, m)'
    <2>1. ReadsWhatWasWritten' /\ NoError' /\ reader'.at = "unescape" /\ (r <= Len(written))'
      BY <1>3, <1>4, <1>11, <1>13 DEF ReadsWhatWasWritten, NoError
    <2> QED BY <2>1, <1>12, <1>13, <1>14 DEF ReaderOK, r, u
  <1>16. TypeOK'
    BY <1>1, <1>3, <1>11 DEF TypeOK
  <1>17. WriterOK' /\ AfterClosing' /\ Layout(file', written', e, m)
    BY <1>1, <1>3 DEF WriterOK, AfterClosing
  <1> QED BY <1>15, <1>16, <1>17 DEF IInv
-----------------------------------------------------------------------------
(* The decoder: the unit at its end                                        *)

LEMMA HeaderParts ==
    ASSUME NEW ref \in 0..3, NEW type \in 1..31
    PROVE  ((ref * 32 + type) \div 32) % 4 = ref /\ (ref * 32 + type) % 32 = type
  OBVIOUS

\* What follows the payload are zeros, which do not hold a stop bit.
LEMMA PayloadIsFound ==
    ASSUME NEW u \in Units, NEW out \in Seq(Byte), Len(out) >= Len(u.rbsp),
           \A x \in 1..Len(out) : out[x] = IF x <= Len(u.rbsp) THEN u.rbsp[x] ELSE 0
    PROVE  SubSeq(out, 1, StopByte(out)) = u.rbsp
  <1> DEFINE n == Len(u.rbsp)
             S == {k \in 1..Len(out) : out[k] # 0}
  <1>1. /\ u.rbsp \in Seq(Byte) /\ n \in Nat /\ n > 0 /\ u.rbsp[n] # 0
        /\ Len(out) \in Nat /\ n <= Len(out)
    BY UnitsHaveTypes, LenProperties
  <1>2. S \in SUBSET Int /\ n \in S
    BY <1>1
  <1>3. \A y \in S : n >= y
    BY <1>1
  <1> HIDE DEF S
  <1>4. Max(S) = n
    BY <1>2, <1>3, GreatestIs
  <1>5. StopByte(out) = n
    BY <1>4 DEF StopByte, S
  <1>6. \A x \in 1..n : out[x] = u.rbsp[x]
    BY <1>1
  <1> HIDE DEF n
  <1>7. SubSeq(out, 1, n) = SubSeq(u.rbsp, 1, n)
    <2>1. n <= Len(u.rbsp) /\ n <= Len(out) /\ 1 <= 1 /\ 1 \in Nat /\ n \in Nat
      BY <1>1 DEF n
    <2>2. out \in Seq(Byte) /\ u.rbsp \in Seq(Byte)
      BY <1>1
    <2> QED BY ONLY <2>1, <2>2, <1>6, SamePlace
  <1>8. SubSeq(u.rbsp, 1, n) = u.rbsp
    BY <1>1, SubSeqFull DEF n
  <1> QED BY <1>5, <1>7, <1>8

LEMMA UnitDecoded ==
    ASSUME NEW u \in Units, NEW nal, NEW i, NEW count, NEW out \in Seq(Byte),
           Unescaping(nal, i, count, out, u), i > Len(nal)
    PROVE  nal[1] < 128 /\ Decoded(nal[1], out) = u
  <1> PICK f, c, w : /\ IsUnit(nal, u, f, c, w)
                     /\ InPayload(i, count, out, u, f, c) \/ InZeroWords(i, count, out, u, f, w)
    BY DEF Unescaping
  <1> DEFINE n == Len(u.rbsp)
  <1>1. n \in Nat /\ n \in 0..n /\ Header(u) \in 1..127 /\ u \in UnitType
    BY UnitsHaveTypes
  <1>2. nal[1] = Header(u)
    BY DEF IsUnit
  <1>3. Len(out) >= n /\ \A x \in 1..Len(out) : out[x] = IF x <= n THEN u.rbsp[x] ELSE 0
    <2>1. CASE InPayload(i, count, out, u, f, c)
      <3> PICK k \in 0..n : i = 2 + f[k] /\ IsCopied(out, u, k)
        BY <2>1 DEF InPayload
      <3>1. /\ f[k] \in Nat /\ f[n] \in Nat /\ 3 * w \in Nat /\ Len(nal) = 1 + f[n] + 3 * w
            /\ k < n => f[k] < f[n]
        BY PayloadPlace
      <3>2. ASSUME k # n PROVE FALSE
        <4>1. f[k] < f[n]
          BY <3>1, <3>2, <1>1
        <4>2. 2 + f[k] > 1 + f[n]
          BY SMTT(30), <3>1
        <4> QED BY ONLY SMTT(30), <4>1, <4>2, <3>1
      <3> QED BY <3>2, <1>1 DEF IsCopied
    <2>2. CASE InZeroWords(i, count, out, u, f, w)
      BY <2>2 DEF InZeroWords
    <2> QED BY <2>1, <2>2
  <1>4. SubSeq(out, 1, StopByte(out)) = u.rbsp
    BY <1>3, PayloadIsFound
  <1>5. u.ref \in 0..3 /\ u.type \in 1..31
    BY <1>1 DEF UnitType
  <1>6. (Header(u) \div 32) % 4 = u.ref /\ Header(u) % 32 = u.type
    BY <1>5, HeaderParts DEF Header
  <1>7. u = [ref |-> u.ref, type |-> u.type, rbsp |-> u.rbsp]
    BY <1>1 DEF UnitType
  <1>8. Decoded(nal[1], out) = [ref |-> u.ref, type |-> u.type, rbsp |-> u.rbsp]
    BY <1>2, <1>4, <1>6 DEF Decoded
  <1>9. nal[1] < 128
    <2> DEFINE h == Header(u)
    <2>1. h \in 1..127
      BY <1>1
    <2> HIDE DEF h
    <2>2. h < 128
      BY <2>1
    <2>3. Header(u) < 128
      BY <2>2 DEF h
    <2> QED BY <2>3, <1>2
  <1> QED BY <1>7, <1>8, <1>9

LEMMA DeliverKeeps ==
    ASSUME IInv, DeliverUnit
    PROVE  IInv'
  <1> PICK e, m : Layout(file, written, e, m) /\ ReaderOK(e, m)
    BY DEF IInv
  <1> DEFINE r == Len(read) + 1
             u == written[r]
  <1>1. TypeOK /\ WriterOK /\ AfterClosing
    BY DEF IInv
  <1>2. /\ written \in Seq(Units) /\ reader \in ReaderType /\ read \in Seq(UnitType)
        /\ Len(written) \in Nat /\ Len(read) \in Nat
    BY <1>1, TypeFacts
  <1>3. /\ reader.at = "unescape" /\ reader.i > Len(reader.nal)
        /\ UNCHANGED <<file, writer, written>>
    BY DEF DeliverUnit
  <1>4. /\ ReadsWhatWasWritten /\ r <= Len(written)
        /\ Ahead(r + 1, e)
        /\ Unescaping(reader.nal, reader.i, reader.count, reader.out, u)
    BY <1>3 DEF ReaderOK
  <1>5. r \in 1..Len(written)
    BY <1>2, <1>4
  <1>6. u \in Units
    <2> HIDE DEF r
    <2> QED BY <1>5, <1>2, ElementOfSeq DEF u
  <1> HIDE DEF u
  <1>7. u \in UnitType
    BY <1>6, UnitsHaveTypes
  <1>8. reader.nal[1] < 128 /\ Decoded(reader.nal[1], reader.out) = u
    <2>1. reader.out \in Seq(Byte)
      BY <1>2 DEF ReaderType
    <2> QED BY <2>1, <1>3, <1>4, <1>6, UnitDecoded
  <1>9. reader' = [reader EXCEPT !.at = "start"] /\ read' = Append(read, u)
    <2>1. ~(reader.nal[1] >= 128)
      <3>1. reader.nal[1] = Header(u)
        BY <1>4 DEF Unescaping, IsUnit
      <3>2. reader.nal[1] \in Int
        <4>1. Header(u) \in 1..127
          BY <1>6, UnitsHaveTypes
        <4> HIDE DEF u
        <4>2. Header(u) \in Int
          BY <4>1
        <4> QED BY <4>2, <3>1
      <3> QED BY <3>2, <1>8
    <2> QED BY <2>1, <1>8 DEF DeliverUnit
  <1>10. /\ read' \in Seq(UnitType) /\ Len(read') = r
         /\ \A k \in 1..(r - 1) : read'[k] = read[k]
         /\ read'[r] = u
    BY <1>2, <1>7, <1>9, AppendProperties
  <1>11. /\ reader' \in ReaderType /\ reader'.at = "start"
         /\ reader'.next = reader.next /\ reader'.eof = reader.eof /\ reader'.pos = reader.pos
    BY <1>2, <1>9 DEF ReaderType
  <1>12. ReadsWhatWasWritten'
    <2>1. ASSUME NEW k \in 1..r PROVE read'[k] = written[k]
      <3>1. CASE k = r
        BY <3>1, <1>10 DEF u
      <3>2. CASE k \in 1..(r - 1)
        BY <3>2, <1>2, <1>4, <1>10 DEF ReadsWhatWasWritten
      <3> QED BY <3>1, <3>2, <1>2
    <2> QED BY <2>1, <1>3, <1>4, <1>10 DEF ReadsWhatWasWritten
  <1>13. (Ahead(Len(read) + 1, e))'
    <2>1. Len(read') + 1 = r + 1 /\ written' = written
      BY <1>3, <1>10
    <2> HIDE DEF r
    <2> QED BY <2>1, <1>4, <1>11 DEF Ahead
  <1>14. ReaderOK(e, m)'
    BY <1>11, <1>12, <1>13 DEF ReaderOK, NoError
  <1>15. TypeOK'
    BY <1>1, <1>3, <1>10, <1>11 DEF TypeOK
  <1>16. WriterOK' /\ AfterClosing' /\ Layout(file', written', e, m)
    BY <1>1, <1>3 DEF WriterOK, AfterClosing
  <1> QED BY <1>14, <1>15, <1>16 DEF IInv
-----------------------------------------------------------------------------
(* The theorems                                                            *)

LEMMA WriterFacts ==
    ASSUME writer \in WriterType
    PROVE  writer.count \in 0..2 /\ writer.buf \in Seq(Byte) /\ writer.i \in Nat
  BY DEF WriterType

\* A step of the encoder that leaves the file as it is.
LEMMA WriterKeeps ==
    ASSUME IInv, UNCHANGED <<file, written, reader, read>>,
           writer.at # "closed", writer' \in WriterType, WriterOK'
    PROVE  IInv'
  <1> PICK e, m : Layout(file, written, e, m) /\ ReaderOK(e, m)
    BY DEF IInv
  <1>1. TypeOK'
    BY DEF IInv, TypeOK
  <1>2. AfterClosing'
    BY DEF IInv, AfterClosing
  <1>3. Layout(file', written', e, m)
    OBVIOUS
  <1>4. ReaderOK(e, m)'
    BY DEF ReaderOK, ReadsWhatWasWritten, NoError, Ahead
  <1> QED BY <1>1, <1>2, <1>3, <1>4 DEF IInv

LEMMA InitialIInv == Init => IInv
  <1> SUFFICES ASSUME Init PROVE IInv
    OBVIOUS
  <1>1. 0 \in Nat /\ 1 \in Nat /\ <<>> \in Seq(Byte) /\ <<>> \in Seq(Units) /\ <<>> \in Seq(UnitType)
    OBVIOUS
  <1>2. Idle \in WriterType /\ reader \in ReaderType
    BY <1>1 DEF Init, Idle, WriterType, ReaderType
  <1>3. TypeOK
    BY <1>1, <1>2 DEF Init, TypeOK
  <1>4. WriterOK /\ AfterClosing
    BY DEF Init, Idle, WriterOK, AfterClosing
  <1> DEFINE e == [k \in 1..0 |-> 0]
  <1>5. Layout(file, written, e, e)
    <2>1. Len(written) = 0 /\ 1..Len(written) = {} /\ 1..(Len(written) - 1) = {} /\ file = <<>>
      BY DEF Init
    <2>2. e \in [1..0 -> Nat]
      BY <1>1
    <2> HIDE DEF e
    <2> QED BY <2>1, <2>2 DEF Layout
  <1>6. ReaderOK(e, e)
    <2> HIDE DEF e
    <2> QED BY DEF Init, ReaderOK, ReadsWhatWasWritten, NoError, Ahead
  <1> HIDE DEF e
  <1> QED BY <1>3, <1>4, <1>5, <1>6 DEF IInv

LEMMA StartKeeps ==
    ASSUME IInv, NEW u \in Units, StartUnit(u)
    PROVE  IInv'
  <1>1. /\ writer.at = "idle" /\ writer' = [Idle EXCEPT !.at = "escape", !.unit = u]
        /\ UNCHANGED <<file, written, reader, read>>
    BY DEF StartUnit
  <1>2. writer' = [at |-> "escape", unit |-> u, i |-> 1, count |-> 0, buf |-> <<>>]
    BY <1>1 DEF Idle
  <1>3. writer' \in WriterType
    BY <1>2 DEF WriterType
  <1>4. u.rbsp \in Seq(Byte) /\ Len(u.rbsp) \in Nat
    BY UnitsHaveTypes
  <1>5. Escaping(u.rbsp, 0, <<>>, 0)
    BY <1>4, EscapingStarts
  <1>6. WriterOK'
    BY <1>2, <1>4, <1>5 DEF WriterOK
  <1> QED BY <1>1, <1>3, <1>6, WriterKeeps

LEMMA EscapeKeeps ==
    ASSUME IInv, EscapeByte
    PROVE  IInv'
  <1> DEFINE u == writer.unit
             n == writer.i - 1
             b == u.rbsp[writer.i]
             new == IF NeedsEscape(writer.count, b) THEN writer.buf \o <<3, b>> ELSE Append(writer.buf, b)
             count == CountAfter(writer.count, b)
  <1>1. TypeOK /\ WriterOK /\ writer \in WriterType
    BY DEF IInv, TypeOK
  <1>2. /\ writer.at = "escape" /\ writer.i <= Len(u.rbsp)
        /\ writer' = [writer EXCEPT !.i = writer.i + 1, !.count = count, !.buf = new]
        /\ UNCHANGED <<file, written, reader, read>>
    BY DEF EscapeByte
  <1>3. u \in Units /\ writer.i \in 1..(Len(u.rbsp) + 1) /\ Escaping(u.rbsp, n, writer.buf, writer.count)
    BY <1>1, <1>2 DEF WriterOK
  <1>4. u.rbsp \in Seq(Byte) /\ Len(u.rbsp) \in Nat /\ \A k \in 1..Len(u.rbsp) : u.rbsp[k] \in Byte
    BY <1>3, UnitsHaveTypes
  <1>5. n \in 0..(Len(u.rbsp) - 1) /\ n + 1 = writer.i /\ writer.i \in 1..Len(u.rbsp)
    BY <1>2, <1>3, <1>4
  <1>6. writer.count \in 0..2 /\ writer.buf \in Seq(Byte)
    BY <1>1, WriterFacts
  <1>7. b \in Byte /\ count \in 0..2
    BY <1>4, <1>5, <1>6, CountType
  <1>8. new \in Seq(Byte) /\ Escaping(u.rbsp, writer.i, new, count)
    <2>1. b = u.rbsp[n + 1]
      BY <1>5
    <2>2. new = IF NeedsEscape(writer.count, u.rbsp[n + 1])
                THEN writer.buf \o <<3, u.rbsp[n + 1]>> ELSE Append(writer.buf, u.rbsp[n + 1])
      BY <2>1
    <2> HIDE DEF n, new, b
    <2>3. /\ new \in Seq(Byte)
          /\ Escaping(u.rbsp, n + 1, new, CountAfter(writer.count, u.rbsp[n + 1]))
      BY <2>2, <1>3, <1>4, <1>5, <1>6, EscapingGrows
    <2> QED BY <2>1, <2>3, <1>5
  <1> HIDE DEF new, count, b, n
  <1>9. /\ writer' \in WriterType /\ writer'.at = "escape" /\ writer'.unit = u
        /\ writer'.i = writer.i + 1 /\ writer'.count = count /\ writer'.buf = new
    <2>1. writer.i + 1 \in Nat
      BY <1>5
    <2> QED BY <2>1, <1>1, <1>2, <1>7, <1>8 DEF WriterType
  <1>10. WriterOK'
    <2>1. writer'.i \in 1..(Len(u.rbsp) + 1) /\ writer'.i - 1 = writer.i
      BY <1>4, <1>5, <1>9
    <2> QED BY <2>1, <1>3, <1>8, <1>9 DEF WriterOK
  <1> QED BY <1>2, <1>9, <1>10, WriterKeeps

LEMMA CloseKeeps ==
    ASSUME IInv, Close
    PROVE  IInv'
  <1>1. /\ writer.at = "idle" /\ writer' = [writer EXCEPT !.at = "closed"]
        /\ UNCHANGED <<file, written, reader, read>>
    BY DEF Close
  <1>2. writer' \in WriterType /\ writer'.at = "closed"
    BY <1>1 DEF IInv, TypeOK, WriterType
  <1>3. WriterOK'
    BY <1>2 DEF WriterOK
  <1> QED BY <1>1, <1>2, <1>3, WriterKeeps

LEMMA WriteKeeps ==
    ASSUME IInv, WriteUnit
    PROVE  IInv'
  <1> PICK e, m : Layout(file, written, e, m) /\ ReaderOK(e, m)
    BY DEF IInv
  <1> DEFINE u == writer.unit
  <1>1. TypeOK /\ WriterOK /\ AfterClosing
    BY DEF IInv
  <1>2. /\ file \in Seq(Byte) /\ written \in Seq(Units) /\ writer \in WriterType
        /\ Len(written) \in Nat /\ writer.count \in 0..2 /\ writer.buf \in Seq(Byte)
    BY <1>1, TypeFacts, WriterFacts
  <1>3. /\ writer.at = "escape" /\ writer.i > Len(u.rbsp)
        /\ written' = Append(written, u) /\ writer' = Idle
        /\ UNCHANGED <<reader, read>>
    BY DEF WriteUnit
  <1>4. u \in Units /\ writer.i \in 1..(Len(u.rbsp) + 1)
        /\ Escaping(u.rbsp, writer.i - 1, writer.buf, writer.count)
    BY <1>1, <1>3 DEF WriterOK
  <1>5. writer.i - 1 = Len(u.rbsp)
    <2>1. Len(u.rbsp) \in Nat
      BY <1>4, UnitsHaveTypes
    <2> QED BY <2>1, <1>3, <1>4, SMTT(30)
  <1>6. PICK words \in 0..MaxZeroWords, long \in BOOLEAN, trailing \in 0..MaxPadding,
             leading \in 0..MaxPadding :
          file' = file \o Zeros(leading) \o StartCode(long)
                       \o Nal(u, writer.buf, words) \o Zeros(trailing)
    <2>1. 0 \in 0..MaxPadding
      BY BoundsAssumption
    <2> QED BY <2>1 DEF WriteUnit
  <1> DEFINE code == StartCode(long)
             nal == Nal(u, writer.buf, words)
             s == Len(file) + leading + Len(code)
  <1>7. words \in Nat /\ leading \in Nat /\ trailing \in Nat
    BY BoundsAssumption
  <1>8. UnitNal(nal, u)
    BY <1>2, <1>4, <1>5, <1>7, NalIsUnit
  <1>9. IsStartCode(code)
    BY StartCodesAreThat
  <1> HIDE DEF code, nal
  <1>10. IsAppended(file', file, leading, code, nal, trailing, s)
    BY <1>6 DEF IsAppended, code, nal
  <1> HIDE DEF s, u
  <1>11. file' \in Seq(Byte) /\ \E d, n : Layout(file', Append(written, u), d, n)
    BY <1>2, <1>4, <1>7, <1>8, <1>9, <1>10, LayoutGrows
  <1>12. PICK d, n : Layout(file', written', d, n)
    BY <1>3, <1>11
  <1>13. /\ reader'.at = "start" /\ reader'.next = 0 /\ ~reader'.eof /\ read' = <<>>
    BY <1>1, <1>3 DEF AfterClosing
  <1>14. written' \in Seq(Units) /\ Len(written') \in Nat
    BY <1>2, <1>3, <1>4, AppendProperties, LenProperties
  <1>15. ReaderOK(d, n)'
    <2>1. Len(read') = 0 /\ Len(read') + 1 = 1 /\ 1..Len(read') = {}
      BY <1>13
    <2>2. ReadsWhatWasWritten' /\ NoError'
      BY <2>1, <1>13, <1>14 DEF ReadsWhatWasWritten, NoError
    <2>3. (Ahead(Len(read) + 1, d))'
      BY <2>1, <1>13 DEF Ahead
    <2> QED BY <2>2, <2>3, <1>13 DEF ReaderOK
  <1>16. Idle \in WriterType /\ Idle.at = "idle"
    BY DEF Idle, WriterType
  <1>17. TypeOK'
    BY <1>1, <1>3, <1>11, <1>14, <1>16 DEF TypeOK
  <1>18. WriterOK' /\ AfterClosing'
    BY <1>3, <1>13, <1>16 DEF WriterOK, AfterClosing
  <1> QED BY <1>12, <1>15, <1>17, <1>18 DEF IInv

LEMMA IInvIsInductive == IInv /\ [Next]_vars => IInv'
  <1> SUFFICES ASSUME IInv, [Next]_vars PROVE IInv'
    OBVIOUS
  <1>1. ASSUME NEW u \in Units, StartUnit(u) PROVE IInv'
    BY <1>1, StartKeeps
  <1>2. CASE EscapeByte
    BY <1>2, EscapeKeeps
  <1>3. CASE WriteUnit
    BY <1>3, WriteKeeps
  <1>4. CASE Close
    BY <1>4, CloseKeeps
  <1>5. CASE FetchUnit
    BY <1>5, FetchKeeps
  <1>6. CASE UnescapeByte
    BY <1>6, UnescapeKeeps
  <1>7. CASE DeliverUnit
    BY <1>7, DeliverKeeps
  <1>8. CASE UNCHANGED vars
    <2>1. UNCHANGED <<file, writer, written, reader, read>>
      BY <1>8 DEF vars
    <2> PICK e, m : Layout(file, written, e, m) /\ ReaderOK(e, m)
      BY DEF IInv
    <2>2. TypeOK' /\ WriterOK' /\ AfterClosing'
      BY <2>1 DEF IInv, TypeOK, WriterOK, AfterClosing
    <2>3. Layout(file', written', e, m)
      BY <2>1
    <2>4. ReaderOK(e, m)'
      BY <2>1 DEF ReaderOK, ReadsWhatWasWritten, NoError, Ahead
    <2> QED BY <2>2, <2>3, <2>4 DEF IInv
  <1> QED BY <1>1, <1>2, <1>3, <1>4, <1>5, <1>6, <1>7, <1>8 DEF Next, Write, Read

\* In every run the variables have their types: neither RBSPtoEBSP nor
\* EBSPtoRBSP ever counts more than two zeros, and no read of a unit, of
\* whatever length, yields anything that is not a unit.
THEOREM NalTypeCorrect == Spec => []TypeOK
  <1>1. IInv => TypeOK
    BY DEF IInv
  <1> QED BY <1>1, InitialIInv, IInvIsInductive, PTL DEF Spec

\* What the decoder takes out of the file is what the encoder put in, byte for
\* byte and in order: for units of any content and length, any number of them,
\* and any padding between them.
THEOREM EveryUnitIsRead == Spec => []ReadsWhatWasWritten
  <1>1. IInv => ReadsWhatWasWritten
    BY DEF IInv, ReaderOK
  <1> QED BY <1>1, InitialIInv, IInvIsInductive, PTL DEF Spec

\* The decoder never takes a unit of the encoder for a broken one: it meets no
\* forbidden byte, no set forbidden bit and always the start code it expects.
THEOREM NeverRefused == Spec => []NoError
  <1>1. IInv => NoError
    BY DEF IInv, ReaderOK
  <1> QED BY <1>1, InitialIInv, IInvIsInductive, PTL DEF Spec

-----------------------------------------------------------------------------
(* The file as a queue of units                                            *)

\* NalFifo at the level of units: what is written is sent, what the decoder
\* has got is received.
UnitFifo == INSTANCE NalFifo
              WITH Unit     <- Units,
                   sent     <- written,
                   closed   <- writer.at = "closed",
                   received <- read

LEMMA InitIsFifo == Init => UnitFifo!Init
  BY DEF Init, Idle, UnitFifo!Init

\* Only a finished unit is sent, and the file is still open.
LEMMA WriteSends ==
    ASSUME IInv, WriteUnit
    PROVE  UnitFifo!Send
  <1>1. /\ writer.at = "escape" /\ written' = Append(written, writer.unit)
        /\ writer' = Idle /\ read' = read
    BY DEF WriteUnit
  <1>2. writer.unit \in Units
    BY <1>1 DEF IInv, WriterOK
  <1>3. writer.at # "closed" /\ writer'.at # "closed"
    BY <1>1 DEF Idle
  <1>4. (writer.at = "closed") = (writer'.at = "closed")
    BY <1>3
  <1> QED BY <1>1, <1>2, <1>3, <1>4 DEF UnitFifo!Send

\* The unit delivered is the next one that was sent.
LEMMA DeliverReceives ==
    ASSUME IInv, IInv', DeliverUnit
    PROVE  UnitFifo!Receive \/ UNCHANGED UnitFifo!vars
  <1>1. UNCHANGED <<file, writer, written>>
    BY DEF DeliverUnit
  <1>2. CASE reader.nal[1] >= 128
    <2>1. read' = read
      BY <1>2 DEF DeliverUnit
    <2> QED BY <1>1, <2>1 DEF UnitFifo!vars
  <1>3. CASE ~(reader.nal[1] >= 128)
    <2> DEFINE u == Decoded(reader.nal[1], reader.out)
    <2>1. read' = Append(read, u) /\ reader.at = "unescape"
      BY <1>3 DEF DeliverUnit
    <2>2. writer.at = "closed"
      BY <2>1 DEF IInv, AfterClosing
    <2>3. read \in Seq(UnitType) /\ read' \in Seq(UnitType) /\ written \in Seq(Units)
      BY <1>1 DEF IInv, TypeOK
    <2>4. Len(read) \in Nat /\ Len(written) \in Nat
      BY <2>3, LenProperties
    <2> HIDE DEF u
    <2>5. Len(read') = Len(read) + 1 /\ read'[Len(read) + 1] = u
      BY <2>1, <2>3, <2>4
    <2>6. Len(read') <= Len(written') /\ \A k \in 1..Len(read') : read'[k] = written'[k]
      BY DEF IInv, ReaderOK, ReadsWhatWasWritten
    <2>7. Len(read) < Len(written) /\ u = written[Len(read) + 1]
      BY <2>4, <2>5, <2>6, <1>1
    <2>8. (writer.at = "closed") = (writer'.at = "closed")
      BY <1>1
    <2> QED BY <1>1, <2>1, <2>2, <2>7, <2>8 DEF UnitFifo!Receive
  <1> QED BY <1>2, <1>3

LEMMA StepsAreFifo ==
    ASSUME IInv, IInv', [Next]_vars
    PROVE  [UnitFifo!Next]_UnitFifo!vars
  <1>1. ASSUME NEW u \in Units, StartUnit(u) PROVE UNCHANGED UnitFifo!vars
    <2>1. writer.at # "closed" /\ writer'.at # "closed" /\ UNCHANGED <<written, read>>
      BY <1>1 DEF StartUnit, Idle
    <2> QED BY <2>1 DEF UnitFifo!vars
  <1>2. CASE EscapeByte
    <2>1. UNCHANGED <<written, read>> /\ writer.at = "escape" /\ writer \in WriterType
      BY <1>2 DEF EscapeByte, IInv, TypeOK
    <2>2. writer'.at = "escape"
      BY <2>1, <1>2 DEF EscapeByte, WriterType
    <2> QED BY <2>1, <2>2 DEF UnitFifo!vars
  <1>3. CASE WriteUnit
    BY <1>3, WriteSends DEF UnitFifo!Next
  <1>4. CASE Close
    <2>1. /\ writer.at # "closed" /\ writer'.at = "closed" /\ UNCHANGED <<written, read>>
      BY <1>4 DEF Close, IInv, TypeOK, WriterType
    <2>2. (writer'.at = "closed") = TRUE
      BY <2>1
    <2> QED BY <2>1, <2>2 DEF UnitFifo!Next, UnitFifo!Close
  <1>5. CASE FetchUnit
    BY <1>5 DEF FetchUnit, UnitFifo!vars
  <1>6. CASE UnescapeByte
    BY <1>6 DEF UnescapeByte, UnitFifo!vars
  <1>7. CASE DeliverUnit
    BY <1>7, DeliverReceives DEF UnitFifo!Next
  <1>8. CASE UNCHANGED vars
    BY <1>8 DEF vars, UnitFifo!vars
  <1> QED BY <1>1, <1>2, <1>3, <1>4, <1>5, <1>6, <1>7, <1>8 DEF Next, Write, Read

\* The byte stream implements the queue of NalFifo, step by step: units are
\* sent only until the file is closed, and each unit the decoder delivers is
\* the next one that was sent, never one twice, none left out, and none that
\* the encoder did not write.
THEOREM ImplementsTheFifo == Spec => UnitFifo!Init /\ [][UnitFifo!Next]_UnitFifo!vars
  <1>1. IInv /\ IInv' /\ [Next]_vars => [UnitFifo!Next]_UnitFifo!vars
    BY StepsAreFifo
  <1> QED BY <1>1, InitIsFifo, InitialIInv, IInvIsInductive, PTL DEF Spec
=============================================================================
