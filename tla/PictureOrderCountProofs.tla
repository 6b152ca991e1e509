------------------------ MODULE PictureOrderCountProofs ------------------------
(***************************************************************************)
(* Theorems about PictureOrderCount, for every width of the low bits and   *)
(* of frame_num, every number of frames and every order of coding.         *)
(***************************************************************************)
EXTENDS PictureOrderCount, SequenceTheorems, TLAPS

-----------------------------------------------------------------------------
(* Arithmetic                                                              *)

\* A number is its quotient times the divisor, and its remainder.
LEMMA Division ==
    ASSUME NEW n \in Int, NEW m \in Nat, m > 0
    PROVE  n \div m \in Int /\ n % m \in 0..m - 1 /\ n = m * (n \div m) + (n % m)
  BY SMTT(60)

LEMMA Half == HalfLsb \in Nat /\ HalfLsb >= 1 /\ MaxLsb = 2 * HalfLsb
  BY PocAssumption, Division DEF HalfLsb

\* decode_poc of type 0 finds the multiple of MaxPicOrderCntLsb that was cut
\* off, if the picture is within half of it of the one before.
LEMMA MsbIsExact ==
    ASSUME NEW poc \in Int, NEW prevMsb \in Int, NEW prevLsb \in 0..MaxLsb - 1,
           NEW e \in Int, prevMsb = MaxLsb * e,
           -HalfLsb < poc - (prevMsb + prevLsb),
           poc - (prevMsb + prevLsb) <= HalfLsb
    PROVE  /\ Msb(poc % MaxLsb, prevMsb, prevLsb) \in Int
           /\ Msb(poc % MaxLsb, prevMsb, prevLsb) + (poc % MaxLsb) = poc
           /\ \E k \in Int : Msb(poc % MaxLsb, prevMsb, prevLsb) = MaxLsb * k
  <1> DEFINE lsb == poc % MaxLsb
             d == poc \div MaxLsb
  <1>1. MaxLsb \in Nat /\ MaxLsb > 0
    BY PocAssumption
  <1>2. d \in Int /\ lsb \in 0..MaxLsb - 1 /\ poc = MaxLsb * d + lsb
    BY <1>1, Division
  <1>3. MaxLsb * d - MaxLsb * e = MaxLsb * (d - e)
    BY <1>1, <1>2
  <1> HIDE DEF lsb, d
  <1>4. d - e \in {-1, 0, 1}
    <2>1. ASSUME d - e >= 2 PROVE FALSE
      <3>1. MaxLsb * (d - e) >= MaxLsb * 2
        BY <2>1, <1>1, <1>2
      <3> QED BY <3>1, <1>1, <1>2, <1>3, Half
    <2>2. ASSUME d - e <= -2 PROVE FALSE
      <3>1. MaxLsb * (d - e) <= MaxLsb * (-2)
        BY <2>2, <1>1, <1>2
      <3> QED BY <3>1, <1>1, <1>2, <1>3, Half
    <2> QED BY <2>1, <2>2, <1>2
  <1>5. CASE d - e = 0
    <2>1. MaxLsb * (d - e) = 0
      BY <1>5, <1>1
    <2>2. Msb(lsb, prevMsb, prevLsb) = prevMsb
      BY <2>1, <1>1, <1>2, <1>3, Half DEF Msb
    <2>4. Msb(lsb, prevMsb, prevLsb) + lsb = poc
      <3>1. d = e
        BY <1>5, <1>2
      <3> QED BY <3>1, <2>2, <1>2
    <2> QED BY <2>2, <2>4, <1>1 DEF lsb
  <1>6. CASE d - e = 1
    <2>1. MaxLsb * (d - e) = MaxLsb
      BY <1>6, <1>1
    <2>2. Msb(lsb, prevMsb, prevLsb) = prevMsb + MaxLsb
      BY <2>1, <1>1, <1>2, <1>3, Half DEF Msb
    <2>3. prevMsb + MaxLsb = MaxLsb * (e + 1)
      BY <1>1
    <2>4. Msb(lsb, prevMsb, prevLsb) + lsb = poc
      BY <2>1, <2>2, <1>1, <1>2, <1>3
    <2> QED BY SMTT(30), <2>2, <2>4, <1>1, <2>3 DEF lsb
  <1>7. CASE d - e = -1
    <2>1. MaxLsb * (d - e) = -MaxLsb
      BY <1>7, <1>1
    <2>2. Msb(lsb, prevMsb, prevLsb) = prevMsb - MaxLsb
      BY <2>1, <1>1, <1>2, <1>3, Half DEF Msb
    <2>3. prevMsb - MaxLsb = MaxLsb * (e - 1)
      BY <1>1
    <2>4. Msb(lsb, prevMsb, prevLsb) + lsb = poc
      BY <2>1, <2>2, <1>1, <1>2, <1>3
    <2> QED BY <2>2, <2>4, <1>1, <2>3 DEF lsb
  <1> QED BY <1>4, <1>5, <1>6, <1>7

Near(distance) == -HalfLsb < distance /\ distance <= HalfLsb
IsCycle(n) == \E e \in Int : n = MaxLsb * e

LEMMA CountIsExact ==
    ASSUME NEW poc \in Int, NEW prevMsb \in Int, NEW prevLsb \in 0..MaxLsb - 1,
           IsCycle(prevMsb), Near(poc - (prevMsb + prevLsb))
    PROVE  /\ Msb(poc % MaxLsb, prevMsb, prevLsb) \in Int
           /\ Msb(poc % MaxLsb, prevMsb, prevLsb) + (poc % MaxLsb) = poc
           /\ IsCycle(Msb(poc % MaxLsb, prevMsb, prevLsb))
  <1>1. PICK e \in Int : prevMsb = MaxLsb * e
    BY DEF IsCycle
  <1>2. -HalfLsb < poc - (prevMsb + prevLsb) /\ poc - (prevMsb + prevLsb) <= HalfLsb
    BY DEF Near
  <1> QED BY <1>1, <1>2, MsbIsExact DEF IsCycle

-----------------------------------------------------------------------------
(* Types                                                                   *)

LEMMA OffsetType ==
    ASSUME NEW a \in Nat, NEW b \in Nat, NEW off \in Nat
    PROVE  Offset(a, b, off) \in Nat
  BY PocAssumption DEF Offset

LEMMA ExpectedType ==
    ASSUME NEW n \in Nat, NEW ref \in BOOLEAN
    PROVE  Expected(n, ref) \in Int
  <1>1. OffsetForRefFrame \in Int /\ OffsetForNonRefPic \in Int
    BY PocAssumption
  <1>2. n * OffsetForRefFrame \in Int /\ (n - 1) * OffsetForRefFrame \in Int
    BY <1>1
  <1>3. 0 * OffsetForRefFrame \in Int
    BY <1>1
  <1> QED BY <1>1, <1>2, <1>3 DEF Expected

LEMMA EncoderTypes ==
    ASSUME TypeOK, NEW idr \in BOOLEAN, NEW ref \in BOOLEAN, NEW no \in Nat
    PROVE  /\ NextFrameNum \in 0..MaxFrameNum - 1
           /\ EncoderOffset(idr) \in Nat
           /\ TopPoc(idr, no) \in Int
           /\ Delta(idr, ref, no) \in Int
  <1>1. encoder.frameNum \in 0..MaxFrameNum - 1 /\ encoder.prevFrameNum \in 0..MaxFrameNum - 1
        /\ encoder.prevOffset \in Nat /\ encoder.lastIdr \in Nat
    BY DEF TypeOK
  <1>2. MaxFrameNum \in Nat /\ MaxFrameNum > 0
    BY PocAssumption
  <1>3. NextFrameNum \in 0..MaxFrameNum - 1
    BY <1>1, <1>2, Division DEF NextFrameNum
  <1>4. EncoderOffset(idr) \in Nat
    <2>1. NextFrameNum \in Nat /\ encoder.prevFrameNum \in Nat
      BY <1>1, <1>2, <1>3
    <2>2. Offset(NextFrameNum, encoder.prevFrameNum, encoder.prevOffset) \in Nat
      BY <2>1, <1>1, OffsetType
    <2> QED BY <2>2 DEF EncoderOffset
  <1>5. TopPoc(idr, no) \in Int
    BY <1>1 DEF TopPoc
  <1>6. EncoderOffset(idr) + NextFrameNum \in Nat
    BY <1>2, <1>3, <1>4
  <1> QED BY <1>3, <1>4, <1>5, <1>6, ExpectedType DEF Delta

LEMMA SliceHasType ==
    ASSUME TypeOK, NEW view \in {"frame", "top", "bottom"}, NEW idr \in BOOLEAN,
           NEW ref \in BOOLEAN, NEW no \in Nat, NEW reset \in BOOLEAN
    PROVE  Slice(view, idr, ref, no, reset) \in SliceType
  <1>1. /\ MaxFrameNum \in Nat /\ MaxFrameNum > 0 /\ MaxLsb \in Nat /\ MaxLsb > 0
        /\ BottomOffset \in {0, 1}
    BY PocAssumption
  <1>2. /\ NextFrameNum \in 0..MaxFrameNum - 1 /\ TopPoc(idr, no) \in Int
        /\ Delta(idr, ref, no) \in Int
    BY EncoderTypes
  <1>3. TopPoc(idr, no) + BottomOffset \in Int
    BY <1>1, <1>2
  <1>4. /\ TopPoc(idr, no) % MaxLsb \in 0..MaxLsb - 1
        /\ (TopPoc(idr, no) + BottomOffset) % MaxLsb \in 0..MaxLsb - 1
    BY <1>1, <1>2, <1>3, Division
  <1>5. 0 \in 0..MaxFrameNum - 1
    BY <1>1
  <1> QED BY <1>1, <1>2, <1>3, <1>4, <1>5 DEF Slice, SliceType

LEMMA SlicesHaveTypes ==
    ASSUME TypeOK, NEW idr \in BOOLEAN, NEW ref \in BOOLEAN, NEW no \in Nat,
           NEW reset \in BOOLEAN, NEW structure
    PROVE  LET sent == Slices(structure, idr, ref, no, reset)
           IN  /\ sent \in Seq(SliceType) /\ Len(sent) <= 2
               /\ Len(sent) = 2 => sent[1].view = "top" /\ sent[2].view = "bottom"
  <1> DEFINE f == Slice("frame", idr, ref, no, reset)
             t == Slice("top", idr, ref, no, FALSE)
             b == Slice("bottom", idr, ref, no, FALSE)
  <1>1. f \in SliceType /\ t \in SliceType /\ b \in SliceType
    BY SliceHasType
  <1>2. t.view = "top" /\ b.view = "bottom"
    BY DEF Slice
  <1>3. Slices(structure, idr, ref, no, reset) = IF structure = "frame" THEN <<f>> ELSE <<t, b>>
    BY DEF Slices
  <1> HIDE DEF f, t, b
  <1> QED BY <1>1, <1>2, <1>3

\* What a decoding step finds at the head of the queue and leaves behind.
LEMMA HeadAndTail ==
    ASSUME TypeOK, coming # << >>
    PROVE  /\ Len(coming) \in {1, 2}
           /\ Head(coming) = coming[1] /\ Head(coming) \in SliceType
           /\ Tail(coming) \in Seq(SliceType) /\ Len(Tail(coming)) = Len(coming) - 1
           /\ Len(coming) = 2 => Tail(coming)[1] = coming[2] /\ coming[2] \in SliceType
  <1>1. coming \in Seq(SliceType) /\ Len(coming) <= 2
    BY DEF TypeOK
  <1>2. Len(coming) \in {1, 2}
    <2>1. \A n \in Nat \ {0} : n <= 2 => n \in {1, 2}
      OBVIOUS
    <2>2. Len(coming) \in Nat \ {0}
      BY <1>1, EmptySeq
    <2> QED BY <1>1, <2>1, <2>2
  <1>3. Head(coming) = coming[1] /\ coming[1] \in SliceType
    BY <1>1, <1>2
  <1>4. Tail(coming) \in Seq(SliceType) /\ Len(Tail(coming)) = Len(coming) - 1
    BY <1>1, <1>2
  <1>5. ASSUME Len(coming) = 2
        PROVE  Tail(coming)[1] = coming[2] /\ coming[2] \in SliceType
    BY <1>1, <1>5
  <1> QED BY <1>2, <1>3, <1>4, <1>5

LEMMA RememberTypes ==
    ASSUME TypeOK, NEW idr \in BOOLEAN, NEW ref \in BOOLEAN, NEW no \in Nat,
           NEW reset \in BOOLEAN, Remember(idr, ref, no, reset)
    PROVE  encoder' \in [frameNum : 0..MaxFrameNum - 1, lastRef : BOOLEAN,
                   prevFrameNum : 0..MaxFrameNum - 1, prevOffset : Nat,
                   lastIdr : Nat, anchor : Nat \cup {None}, behind : SUBSET Nat,
                   lastNonRef : BOOLEAN]
  <1>1. /\ NextFrameNum \in 0..MaxFrameNum - 1 /\ EncoderOffset(idr) \in Nat
        /\ 0 \in 0..MaxFrameNum - 1
    BY EncoderTypes, PocAssumption
  <1>2. /\ encoder.lastIdr \in Nat /\ encoder.anchor \in Nat \cup {None}
        /\ encoder.behind \in SUBSET Nat
    BY DEF TypeOK
  <1>3. encoder.anchor + 1 .. no - 1 \in SUBSET Nat
    BY <1>2 DEF None
  <1> QED BY <1>1, <1>2, <1>3 DEF Remember

LEMMA DecoderTypes ==
    ASSUME TypeOK, NEW idr \in BOOLEAN, NEW n \in 0..MaxFrameNum - 1
    PROVE  /\ DecoderOffset(idr, n) \in Nat
           /\ Missing \in 0..MaxFrameNum - 1
  <1>1. /\ decoder.prevFrameNum \in 0..MaxFrameNum - 1 /\ decoder.prevOffset \in Nat
        /\ decoder.preFrameNum \in 0..MaxFrameNum - 1
    BY DEF TypeOK
  <1>2. MaxFrameNum \in Nat /\ MaxFrameNum > 0
    BY PocAssumption
  <1>3. Before[1] \in Nat /\ Before[2] \in Nat
    BY <1>1, <1>2 DEF Before
  <1>4. n \in Nat
    BY <1>2
  <1>5. DecoderOffset(idr, n) \in Nat
    BY <1>3, <1>4, OffsetType DEF DecoderOffset
  <1> QED BY <1>1, <1>2, <1>5, Division DEF Missing

\* Decoding a slice with whole numbers keeps the types.
LEMMA DecodeWithTypes ==
    ASSUME TypeOK, coming # << >>, NEW poc \in Int, NEW bottom \in Int,
           NEW msb \in Int, NEW lsb \in Int,
           DecodeWith(Head(coming), poc, bottom, msb, lsb)
    PROVE  TypeOK'
  <1> DEFINE s == Head(coming)
  <1>1. s \in SliceType
    BY HeadAndTail
  <1>2. s.idr \in BOOLEAN /\ s.frameNum \in 0..MaxFrameNum - 1 /\ s.reset \in BOOLEAN
        /\ s.ref \in BOOLEAN /\ s.poc \in Int
    BY <1>1 DEF SliceType
  <1>3. DecoderOffset(s.idr, s.frameNum) \in Nat
    BY <1>2, DecoderTypes
  <1>4. /\ decoder.preFrameNum \in 0..MaxFrameNum - 1 /\ decoder.tops \in SUBSET Int
        /\ 0 \in 0..MaxFrameNum - 1
    BY PocAssumption DEF TypeOK
  <1> HIDE DEF s
  <1>5. decoder' \in [prevMsb : Int, prevLsb : Int, prevFrameNum : 0..MaxFrameNum - 1,
                   prevOffset : Nat, preFrameNum : 0..MaxFrameNum - 1,
                   hasReset : BOOLEAN, tops : SUBSET Int]
    BY <1>2, <1>3, <1>4 DEF DecodeWith, s
  <1>6. /\ coming' \in Seq(SliceType) /\ Len(coming') <= 2
        /\ (Len(coming') = 2 => coming'[1].view = "top" /\ coming'[2].view = "bottom")
    <2>1. coming' = Tail(coming)
      BY DEF DecodeWith
    <2>2. /\ coming' \in Seq(SliceType) /\ Len(coming') = Len(coming) - 1
          /\ Len(coming) \in {1, 2}
      BY <2>1, HeadAndTail
    <2>3. \A k \in {1, 2} : k - 1 <= 2 /\ k - 1 # 2
      OBVIOUS
    <2> QED BY <2>2, <2>3
  <1>7. prevRefPoc' \in Int
    BY <1>2 DEF DecodeWith, TypeOK, s
  <1>8. decoded' \in Seq([slice : SliceType, poc : Int, bottom : Int]) /\ Len(decoded') <= 1
    BY <1>1 DEF DecodeWith, s
  <1> QED BY <1>5, <1>6, <1>7, <1>8 DEF DecodeWith, TypeOK

LEMMA InitTypes == Init => TypeOK
  <1> SUFFICES ASSUME Init PROVE TypeOK
    OBVIOUS
  <1>1. 0 \in 0..MaxFrameNum - 1
    BY PocAssumption
  <1>2. coming \in Seq(SliceType) /\ Len(coming) <= 2 /\ Len(coming) # 2
    BY DEF Init
  <1>3. decoded \in Seq([slice : SliceType, poc : Int, bottom : Int]) /\ Len(decoded) <= 1
    BY DEF Init
  <1>4. encoder \in [frameNum : 0..MaxFrameNum - 1, lastRef : BOOLEAN,
                   prevFrameNum : 0..MaxFrameNum - 1, prevOffset : Nat,
                   lastIdr : Nat, anchor : Nat \cup {None}, behind : SUBSET Nat,
                   lastNonRef : BOOLEAN]
    BY <1>1 DEF Init
  <1>5. decoder \in [prevMsb : Int, prevLsb : Int, prevFrameNum : 0..MaxFrameNum - 1,
                   prevOffset : Nat, preFrameNum : 0..MaxFrameNum - 1,
                   hasReset : BOOLEAN, tops : SUBSET Int]
    BY <1>1 DEF Init
  <1> QED BY <1>2, <1>3, <1>4, <1>5 DEF Init, TypeOK

LEMMA CodeFrameTypes ==
    ASSUME TypeOK, NEW idr \in BOOLEAN, NEW ref \in BOOLEAN, NEW no \in 0..LastFrame,
           NEW structure \in Structures, NEW reset \in BOOLEAN,
           CodeFrame(idr, ref, no, structure, reset)
    PROVE  TypeOK'
  <1>1. no \in Nat
    BY PocAssumption
  <1>2. Remember(idr, ref, no, reset)
    BY DEF CodeFrame
  <1>3. encoder' \in [frameNum : 0..MaxFrameNum - 1, lastRef : BOOLEAN,
                   prevFrameNum : 0..MaxFrameNum - 1, prevOffset : Nat,
                   lastIdr : Nat, anchor : Nat \cup {None}, behind : SUBSET Nat,
                   lastNonRef : BOOLEAN]
    BY <1>1, <1>2, RememberTypes
  <1>4. /\ coming' \in Seq(SliceType) /\ Len(coming') <= 2
        /\ (Len(coming') = 2 => coming'[1].view = "top" /\ coming'[2].view = "bottom")
    <2>1. coming' = Slices(structure, idr, ref, no, reset)
      BY DEF CodeFrame
    <2> QED BY <1>1, <2>1, SlicesHaveTypes
  <1> QED BY <1>3, <1>4 DEF CodeFrame, TypeOK

LEMMA LoseFrameTypes ==
    ASSUME TypeOK, NEW ref \in BOOLEAN, NEW no \in 0..LastFrame,
           NEW structure \in Structures, LoseFrame(ref, no, structure)
    PROVE  TypeOK'
  <1>1. no \in Nat
    BY PocAssumption
  <1>2. Remember(FALSE, ref, no, FALSE)
    BY DEF LoseFrame
  <1>3. encoder' \in [frameNum : 0..MaxFrameNum - 1, lastRef : BOOLEAN,
                   prevFrameNum : 0..MaxFrameNum - 1, prevOffset : Nat,
                   lastIdr : Nat, anchor : Nat \cup {None}, behind : SUBSET Nat,
                   lastNonRef : BOOLEAN]
    BY <1>1, <1>2, RememberTypes
  <1> QED BY SMTT(30), <1>3 DEF LoseFrame, TypeOK

LEMMA FillGapTypes == ASSUME TypeOK, FillGap PROVE TypeOK'
  <1>1. Missing \in 0..MaxFrameNum - 1
    <2>1. 0 \in 0..MaxFrameNum - 1
      BY PocAssumption
    <2> QED BY <2>1, DecoderTypes
  <1>2. DecoderOffset(FALSE, Missing) \in Nat
    BY <1>1, DecoderTypes
  <1> QED BY <1>1, <1>2 DEF FillGap, TypeOK

LEMMA DecodeTypeZeroTypes == ASSUME TypeOK, DecodeTypeZero PROVE TypeOK'
  <1> DEFINE s == Head(coming)
  <1>1. s \in SliceType
    BY HeadAndTail DEF DecodeTypeZero
  <1>2. s.lsb \in Int /\ s.deltaBottom \in Int
    BY <1>1, PocAssumption DEF SliceType
  <1>3. PICK prev \in PrevPocs(s) :
          DecodeWith(s, Msb(s.lsb, prev[1], prev[2]) + s.lsb,
                     Msb(s.lsb, prev[1], prev[2]) + s.lsb + s.deltaBottom,
                     IF s.ref THEN Msb(s.lsb, prev[1], prev[2]) ELSE prev[1],
                     IF s.ref THEN s.lsb ELSE prev[2])
    BY DEF DecodeTypeZero
  <1>4. prev[1] \in Int /\ prev[2] \in Int
    <2>1. decoder.tops \in SUBSET Int /\ decoder.prevMsb \in Int /\ decoder.prevLsb \in Int
      BY DEF TypeOK
    <2> QED BY <2>1 DEF PrevPocs
  <1>5. Msb(s.lsb, prev[1], prev[2]) \in Int
    BY <1>4, PocAssumption DEF Msb
  <1> HIDE DEF s
  <1>6. /\ Msb(s.lsb, prev[1], prev[2]) + s.lsb \in Int
        /\ Msb(s.lsb, prev[1], prev[2]) + s.lsb + s.deltaBottom \in Int
    BY <1>2, <1>5
  <1> QED BY <1>2, <1>3, <1>4, <1>5, <1>6, DecodeWithTypes DEF DecodeTypeZero, s

LEMMA PocTypes12 ==
    ASSUME TypeOK, NEW s \in SliceType
    PROVE  TypeOnePoc(s) \in Int /\ TypeTwoPoc(s) \in Int
  <1>1. /\ s.idr \in BOOLEAN /\ s.ref \in BOOLEAN /\ s.delta \in Int
        /\ s.frameNum \in 0..MaxFrameNum - 1
    BY DEF SliceType
  <1>2. DecoderOffset(s.idr, s.frameNum) \in Nat /\ s.frameNum \in Nat
    BY <1>1, DecoderTypes, PocAssumption
  <1>3. DecoderOffset(s.idr, s.frameNum) + s.frameNum \in Nat
    BY <1>2
  <1>4. Expected(DecoderOffset(s.idr, s.frameNum) + s.frameNum, s.ref) \in Int
    BY <1>1, <1>3, ExpectedType
  <1>5. TypeOnePoc(s) \in Int
    BY <1>1, <1>4, PocAssumption DEF TypeOnePoc
  <1>6. TypeTwoPoc(s) \in Int
    BY <1>3 DEF TypeTwoPoc
  <1> QED BY <1>5, <1>6

LEMMA NextTypes == TypeOK /\ [Next]_vars => TypeOK'
  <1> SUFFICES ASSUME TypeOK, [Next]_vars PROVE TypeOK'
    OBVIOUS
  <1>1. CASE Encode
    <2>1. PICK ref \in BOOLEAN, no \in 0..LastFrame, structure \in Structures :
             \/ \E idr, reset \in BOOLEAN : CodeFrame(idr, ref, no, structure, reset)
             \/ LoseFrame(ref, no, structure)
      BY <1>1 DEF Encode
    <2> QED BY <2>1, CodeFrameTypes, LoseFrameTypes
  <1>2. CASE FillGap
    BY <1>2, FillGapTypes
  <1>3. CASE DecodeTypeZero
    BY <1>3, DecodeTypeZeroTypes
  <1>4. CASE DecodeTypeOne
    <2>1. Head(coming) \in SliceType
      BY <1>4, HeadAndTail DEF DecodeTypeOne
    <2>2. /\ TypeOnePoc(Head(coming)) \in Int
          /\ TypeOnePoc(Head(coming)) + BottomOffset \in Int
      BY <2>1, PocTypes12, PocAssumption
    <2> QED BY <1>4, <2>2, DecodeWithTypes DEF DecodeTypeOne
  <1>5. CASE DecodeTypeTwo
    <2>1. Head(coming) \in SliceType
      BY <1>5, HeadAndTail DEF DecodeTypeTwo
    <2>2. TypeTwoPoc(Head(coming)) \in Int
      BY <2>1, PocTypes12
    <2> QED BY <1>5, <2>2, DecodeWithTypes DEF DecodeTypeTwo
  <1>6. CASE UNCHANGED vars
    BY <1>6 DEF vars, TypeOK
  <1> QED BY <1>1, <1>2, <1>3, <1>4, <1>5, <1>6 DEF Next, Decode

\* Frame numbers and low bits keep the width of their syntax elements in the
\* encoder, on the way and in the decoder, and the two fields of a frame come
\* in order.
THEOREM PocTypeCorrect == Spec => []TypeOK
  BY InitTypes, NextTypes, PTL DEF Spec

-----------------------------------------------------------------------------
(* Type 0                                                                  *)

ZeroSlice(s) ==
    /\ ~s.reset
    /\ s.lsb = s.poc % MaxLsb
    /\ s.deltaBottom = BottomOffset
    /\ s.idr => s.ref /\ s.poc = 0

\* What decode_poc remembers is the count of the reference picture before, cut
\* in two.
RemembersReference ==
    /\ ~decoder.hasReset
    /\ decoder.prevLsb \in 0..MaxLsb - 1
    /\ decoder.prevMsb + decoder.prevLsb = prevRefPoc
    /\ IsCycle(decoder.prevMsb)

\* The slices on their way are near enough to be decoded in turn.
ComingAreNear ==
    /\ coming # << >> =>
         ZeroSlice(coming[1]) /\ (coming[1].idr \/ Near(coming[1].poc - prevRefPoc))
    /\ Len(coming) = 2 =>
         /\ ZeroSlice(coming[2]) /\ ~coming[2].idr
         /\ coming[2].ref = coming[1].ref
         /\ coming[2].poc = coming[1].poc + BottomOffset
         /\ coming[2].ref \/ Near(coming[2].poc - prevRefPoc)

ZeroInv == pocType = 0 => RemembersReference /\ ComingAreNear /\ AsCoded

LEMMA InitZero == Init => ZeroInv
  <1> SUFFICES ASSUME Init PROVE ZeroInv
    OBVIOUS
  <1>1. MaxLsb \in Nat /\ MaxLsb > 0
    BY PocAssumption
  <1>2. RemembersReference
    <2>1. 0 = MaxLsb * 0 /\ 0 \in Int
      BY <1>1
    <2>2. \E e \in Int : 0 = MaxLsb * e
      BY <2>1
    <2> QED BY <1>1, <2>2 DEF Init, RemembersReference, IsCycle
  <1>3. ComingAreNear
    BY DEF Init, ComingAreNear
  <1>4. AsCoded
    BY DEF Init, AsCoded
  <1> QED BY <1>2, <1>3, <1>4 DEF ZeroInv

LEMMA CodeFrameZero ==
    ASSUME 0 \notin ResetTypes, TypeOK, ZeroInv, pocType = 0,
           NEW idr \in BOOLEAN, NEW ref \in BOOLEAN, NEW no \in 0..LastFrame,
           NEW structure \in Structures, NEW reset \in BOOLEAN,
           CodeFrame(idr, ref, no, structure, reset)
    PROVE  ComingAreNear'
  <1> DEFINE f == Slice("frame", idr, ref, no, reset)
             t == Slice("top", idr, ref, no, FALSE)
             b == Slice("bottom", idr, ref, no, FALSE)
  <1>1. /\ MayCode(idr, ref, no, structure, reset) /\ CloseEnough(idr, no, structure)
        /\ coming' = Slices(structure, idr, ref, no, reset) /\ prevRefPoc' = prevRefPoc
    BY DEF CodeFrame
  <1>2. (idr => ref) /\ ~reset
    BY <1>1 DEF MayCode
  <1>3. TopPoc(idr, no) \in Int /\ (idr => TopPoc(idr, no) = 0) /\ BottomOffset \in {0, 1}
    <2>1. no \in Nat
      BY PocAssumption
    <2> QED BY <2>1, EncoderTypes, PocAssumption DEF TopPoc
  <1>4. ZeroSlice(f) /\ ZeroSlice(t) /\ ZeroSlice(b)
    BY <1>2, <1>3 DEF ZeroSlice, Slice
  <1>5. /\ f.idr = idr /\ t.idr = idr /\ ~b.idr /\ t.ref = ref /\ b.ref = ref
        /\ f.poc = TopPoc(idr, no) /\ t.poc = TopPoc(idr, no)
        /\ b.poc = TopPoc(idr, no) + BottomOffset
    BY DEF Slice
  <1>6. prevRefPoc \in Int
    BY DEF TypeOK
  <1> HIDE DEF f, t, b
  <1>7. CASE structure = "frame"
    <2>1. coming' = <<f>>
      BY <1>1, <1>7 DEF Slices, f
    <2>2. idr \/ Near(f.poc - prevRefPoc)
      <3>1. CASE ~idr
        <4>1. Near(TopPoc(idr, no) + 0 - prevRefPoc)
          BY <1>1, <1>7, <3>1 DEF CloseEnough, Near
        <4> QED BY <4>1, <1>3, <1>5, <1>6
      <3> QED BY <3>1
    <2> QED BY <2>1, <2>2, <1>1, <1>4, <1>5 DEF ComingAreNear, ZeroSlice, Near
  <1>8. CASE structure # "frame"
    <2>1. coming' = <<t, b>>
      BY <1>1, <1>8 DEF Slices, t, b
    <2>2. idr \/ (Near(t.poc - prevRefPoc) /\ Near(b.poc - prevRefPoc))
      <3>1. CASE ~idr
        <4>1. /\ Near(TopPoc(idr, no) + 0 - prevRefPoc)
              /\ Near(TopPoc(idr, no) + BottomOffset - prevRefPoc)
          BY <1>1, <1>8, <3>1 DEF CloseEnough, Near
        <4> QED BY <4>1, <1>3, <1>5, <1>6
      <3> QED BY <3>1
    <2>3. b.poc = t.poc + BottomOffset
      BY <1>5
    <2>4. coming'[1] = t /\ coming'[2] = b /\ Len(coming') = 2
      BY <2>1
    <2> QED BY <2>2, <2>3, <2>4, <1>1, <1>2, <1>4, <1>5 DEF ComingAreNear, ZeroSlice, Near
  <1> QED BY <1>7, <1>8

LEMMA DecodeZero ==
    ASSUME TypeOK, ZeroInv, pocType = 0, DecodeTypeZero
    PROVE  ZeroInv'
  <1> DEFINE s == Head(coming)
  <1>1. /\ coming # << >> /\ s = coming[1] /\ s \in SliceType
        /\ Len(coming) \in {1, 2} /\ Len(Tail(coming)) = Len(coming) - 1
        /\ (Len(coming) = 2 => Tail(coming)[1] = coming[2] /\ coming[2] \in SliceType)
        /\ Tail(coming) \in Seq(SliceType)
    BY HeadAndTail DEF DecodeTypeZero
  <1>2. /\ s.poc \in Int /\ s.lsb \in 0..MaxLsb - 1 /\ s.ref \in BOOLEAN /\ s.idr \in BOOLEAN
        /\ prevRefPoc \in Int /\ MaxLsb \in Nat /\ MaxLsb > 0 /\ BottomOffset \in {0, 1}
        /\ decoder.prevMsb \in Int
    <2>1. /\ s.poc \in Int /\ s.lsb \in 0..MaxLsb - 1
          /\ s.ref \in BOOLEAN /\ s.idr \in BOOLEAN
      BY <1>1 DEF SliceType
    <2>2. prevRefPoc \in Int /\ decoder.prevMsb \in Int
      BY DEF TypeOK
    <2>3. MaxLsb \in Nat /\ MaxLsb > 0 /\ BottomOffset \in {0, 1}
      BY PocAssumption
    <2> QED BY <2>1, <2>2, <2>3
  <1>3. RemembersReference /\ ComingAreNear
    BY DEF ZeroInv
  <1>4. ZeroSlice(s) /\ (s.idr \/ Near(s.poc - prevRefPoc))
    BY <1>1, <1>3 DEF ComingAreNear
  <1> DEFINE lsb == s.poc % MaxLsb
             prev == IF s.idr THEN <<0, 0>> ELSE <<decoder.prevMsb, decoder.prevLsb>>
             msb == Msb(lsb, prev[1], prev[2])
  <1>5. DecodeWith(s, msb + lsb, msb + lsb + BottomOffset,
                   IF s.ref THEN msb ELSE prev[1], IF s.ref THEN lsb ELSE prev[2])
    <2>1. PrevPocs(s) = {prev}
      BY <1>3 DEF PrevPocs, RemembersReference
    <2>2. s.lsb = lsb /\ s.deltaBottom = BottomOffset
      BY <1>4 DEF ZeroSlice
    <2> QED BY <2>1, <2>2 DEF DecodeTypeZero
  <1>6. /\ msb \in Int /\ msb + lsb = s.poc
        /\ IsCycle(msb)
    <2>1. CASE s.idr
      <3>1. s.poc = 0 /\ prev[1] = 0 /\ prev[2] = 0
        BY <2>1, <1>4 DEF ZeroSlice
      <3>2. 0 = MaxLsb * 0 /\ 0 \in 0..MaxLsb - 1
        BY <1>2
      <3>3. Near(s.poc - (prev[1] + prev[2]))
        BY <3>1, Half DEF Near
      <3>4. prev[1] \in Int /\ prev[2] \in 0..MaxLsb - 1 /\ IsCycle(prev[1])
        BY <3>1, <3>2 DEF IsCycle
      <3> HIDE DEF prev
      <3> QED BY <3>3, <3>4, <1>2, CountIsExact
    <2>2. CASE ~s.idr
      <3>1. prev[1] = decoder.prevMsb /\ prev[2] = decoder.prevLsb
        BY <2>2
      <3>2. prev[1] \in Int /\ prev[2] \in 0..MaxLsb - 1 /\ prev[1] + prev[2] = prevRefPoc
            /\ IsCycle(prev[1])
        BY <3>1, <1>2, <1>3 DEF RemembersReference
      <3>3. Near(s.poc - (prev[1] + prev[2]))
        BY <3>2, <2>2, <1>4
      <3> HIDE DEF prev
      <3> QED BY <3>2, <3>3, <1>2, CountIsExact
    <2> QED BY <2>1, <2>2
  <1>7. lsb \in 0..MaxLsb - 1
    BY <1>2, <1>4 DEF ZeroSlice
  <1>8. ~s.reset /\ (s.idr => s.ref)
    BY <1>4 DEF ZeroSlice
  <1>9. prevRefPoc' = IF s.ref THEN s.poc ELSE prevRefPoc
    BY <1>5, <1>8 DEF DecodeWith
  <1> HIDE DEF s, lsb, msb, prev
  <1>10. RemembersReference'
    <2>1. ~decoder'.hasReset
      BY <1>5, <1>8 DEF DecodeWith
    <2>2. CASE s.ref
      <3>1. decoder'.prevMsb = msb /\ decoder'.prevLsb = lsb /\ prevRefPoc' = s.poc
        BY <2>2, <1>5, <1>9 DEF DecodeWith
      <3> QED BY <3>1, <2>1, <1>6, <1>7 DEF RemembersReference
    <2>3. CASE ~s.ref
      <3>1. prev[1] = decoder.prevMsb /\ prev[2] = decoder.prevLsb
        BY <2>3, <1>8 DEF prev
      <3>2. decoder'.prevMsb = decoder.prevMsb /\ decoder'.prevLsb = decoder.prevLsb
            /\ prevRefPoc' = prevRefPoc
        BY <3>1, <2>3, <1>5, <1>9 DEF DecodeWith
      <3> QED BY <3>2, <2>1, <1>3 DEF RemembersReference
    <2> QED BY <2>2, <2>3
  <1>11. ComingAreNear'
    <2>1. coming' = Tail(coming)
      BY <1>5 DEF DecodeWith, s
    <2>2. Len(coming') # 2
      BY SMTT(30), <2>1, <1>1
    <2>3. ASSUME coming' # << >>
          PROVE  ZeroSlice(coming'[1]) /\ Near(coming'[1].poc - prevRefPoc')
      <3>1. Len(coming) = 2
        <4>1. Len(Tail(coming)) \in Nat \ {0}
          BY <2>1, <2>3, <1>1, EmptySeq
        <4>2. Len(coming) # 1
          BY <4>1, <1>1
        <4> QED BY <4>2, <1>1
      <3>2. /\ coming'[1] = coming[2] /\ ZeroSlice(coming[2])
            /\ coming[2].ref = s.ref /\ coming[2].poc = s.poc + BottomOffset
            /\ coming[2].ref \/ Near(coming[2].poc - prevRefPoc)
        BY <2>1, <3>1, <1>1, <1>3 DEF ComingAreNear
      <3>3. CASE s.ref
        <4>1. coming[2].poc - prevRefPoc' = BottomOffset
          BY <3>2, <3>3, <1>2, <1>9
        <4> QED BY <4>1, <3>2, <1>2, Half DEF Near
      <3>4. CASE ~s.ref
        BY <3>2, <3>4, <1>9
      <3> QED BY <3>2, <3>3, <3>4
    <2> QED BY <2>2, <2>3 DEF ComingAreNear, ZeroSlice, Near
  <1>12. AsCoded'
    <2>1. decoded' = <<[slice |-> s, poc |-> msb + lsb, bottom |-> msb + lsb + BottomOffset]>>
      BY <1>5 DEF DecodeWith
    <2> QED BY <2>1, <1>6 DEF AsCoded
  <1> QED BY <1>10, <1>11, <1>12 DEF ZeroInv

LEMMA NextZero ==
    ASSUME 0 \notin ResetTypes, TypeOK, ZeroInv, [Next]_vars
    PROVE  ZeroInv'
  <1> SUFFICES ASSUME pocType' = 0 PROVE ZeroInv'
    BY DEF ZeroInv
  <1>1. pocType = 0
    BY ZenonT(60) DEF Next, Encode, Decode, CodeFrame, LoseFrame, FillGap, DecodeTypeZero, DecodeTypeOne,
           DecodeTypeTwo, DecodeWith, vars
  <1>2. RemembersReference /\ ComingAreNear /\ AsCoded
    BY <1>1 DEF ZeroInv
  <1>3. ASSUME NEW idr \in BOOLEAN, NEW ref \in BOOLEAN, NEW no \in 0..LastFrame,
               NEW structure \in Structures, NEW reset \in BOOLEAN,
               CodeFrame(idr, ref, no, structure, reset)
        PROVE  ZeroInv'
    <2>1. ComingAreNear'
      BY <1>1, <1>3, CodeFrameZero
    <2>2. RemembersReference' /\ AsCoded'
      BY <1>2, <1>3 DEF CodeFrame, RemembersReference, AsCoded
    <2> QED BY <2>1, <2>2 DEF ZeroInv
  <1>4. ASSUME NEW ref \in BOOLEAN, NEW no \in 0..LastFrame, NEW structure \in Structures,
               LoseFrame(ref, no, structure)
        PROVE  ZeroInv'
    BY <1>2, <1>4 DEF LoseFrame, ZeroInv, RemembersReference, ComingAreNear, AsCoded
  <1>5. CASE FillGap
    <2>1. RemembersReference'
      BY <1>2, <1>5, <1>1 DEF FillGap, RemembersReference, TypeOK
    <2>2. ComingAreNear' /\ AsCoded'
      BY <1>2, <1>5 DEF FillGap, ComingAreNear, AsCoded
    <2> QED BY <2>1, <2>2 DEF ZeroInv
  <1>6. CASE DecodeTypeZero
    BY <1>1, <1>6, DecodeZero
  <1>7. CASE UNCHANGED vars
    BY <1>2, <1>7 DEF vars, ZeroInv, RemembersReference, ComingAreNear, AsCoded
  <1> QED BY <1>1, <1>3, <1>4, <1>5, <1>6, <1>7 DEF Next, Encode, Decode, DecodeTypeOne,
                                                    DecodeTypeTwo

\* With type 0 the decoder finds the count the encoder meant, for every width
\* of pic_order_cnt_lsb, every order of coding and every loss, as long as a
\* picture is nearer than half the range of the low bits to the reference
\* picture before it and operation 5 is not used.
THEOREM TypeZeroCorrect ==
    ASSUME 0 \notin ResetTypes
    PROVE  Spec => []TypeZeroAsCoded
  <1>1. Init => TypeOK /\ ZeroInv
    BY InitTypes, InitZero
  <1>2. TypeOK /\ ZeroInv /\ [Next]_vars => (TypeOK /\ ZeroInv)'
    BY NextTypes, NextZero
  <1>3. TypeOK /\ ZeroInv => TypeZeroAsCoded
    BY DEF ZeroInv, TypeZeroAsCoded
  <1> QED BY <1>1, <1>2, <1>3, PTL DEF Spec

-----------------------------------------------------------------------------
(* Type 1                                                                  *)

\* Between frames both programs remember the same frame, and the decoder is
\* ready for the next frame_num.
BetweenFrames ==
    /\ Before = <<encoder.prevFrameNum, encoder.prevOffset>>
    /\ encoder.anchor = None => encoder.frameNum = 0 /\ ~encoder.lastRef
    /\ encoder.anchor # None =>
         encoder.frameNum = IF encoder.lastRef THEN decoder.preFrameNum ELSE Missing

\* A slice whose count the decoder will find, and what the encoder remembers
\* of its frame.
OneSlice(s) ==
    /\ s.poc = TypeOnePoc(s)
    /\ s.idr \/ s.frameNum = Missing \/ (s.ref /\ s.frameNum = decoder.preFrameNum)
    /\ (s.idr \/ s.reset) => s.ref
    /\ encoder.anchor # None
    /\ encoder.lastRef = s.ref
    /\ encoder.frameNum = IF s.reset THEN 0 ELSE s.frameNum
    /\ encoder.prevFrameNum = IF s.reset THEN 0 ELSE s.frameNum
    /\ encoder.prevOffset = IF s.reset THEN 0 ELSE DecoderOffset(s.idr, s.frameNum)

SecondField(s, t) ==
    /\ ~s.reset /\ ~t.idr /\ ~t.reset
    /\ t.ref = s.ref /\ t.frameNum = s.frameNum /\ t.delta = s.delta
    /\ t.poc = s.poc + BottomOffset

OneInv ==
    pocType = 1 =>
      /\ coming = << >> => BetweenFrames
      /\ coming # << >> => OneSlice(coming[1])
      /\ Len(coming) = 2 => SecondField(coming[1], coming[2])
      /\ AsCoded

LEMMA InitOne == Init => OneInv
  <1> SUFFICES ASSUME Init PROVE OneInv
    OBVIOUS
  <1>1. BetweenFrames
    BY DEF Init, BetweenFrames, Before
  <1>2. coming = << >> /\ Len(coming) # 2
    BY DEF Init
  <1>3. AsCoded
    BY DEF Init, AsCoded
  <1> QED BY <1>1, <1>2, <1>3 DEF OneInv

LEMMA CodeFrameOne ==
    ASSUME 1 \notin IdrTypes, TypeOK, OneInv, pocType = 1,
           NEW idr \in BOOLEAN, NEW ref \in BOOLEAN, NEW no \in 0..LastFrame,
           NEW structure \in Structures, NEW reset \in BOOLEAN,
           CodeFrame(idr, ref, no, structure, reset)
    PROVE  (/\ coming # << >> /\ OneSlice(coming[1])
            /\ Len(coming) = 2 => SecondField(coming[1], coming[2]))'
  <1>a. PICK num : num = IF idr THEN 0 ELSE NextFrameNum
    OBVIOUS
  <1>b. PICK f : f = Slice("frame", idr, ref, no, reset)
    OBVIOUS
  <1>c. PICK t : t = Slice("top", idr, ref, no, FALSE)
    OBVIOUS
  <1>d. PICK b : b = Slice("bottom", idr, ref, no, FALSE)
    OBVIOUS
  <1>1. /\ MayCode(idr, ref, no, structure, reset) /\ Remember(idr, ref, no, reset)
        /\ coming' = Slices(structure, idr, ref, no, reset) /\ decoder' = decoder
        /\ BetweenFrames
    BY DEF CodeFrame, OneInv
  <1>2. /\ (idr \/ reset) => ref
        /\ idr <=> encoder.anchor = None
        /\ structure # "frame" => ~reset
    BY <1>1 DEF MayCode
  <1>3. no \in Nat /\ BottomOffset \in {0, 1}
    BY PocAssumption
  <1>4. /\ NextFrameNum \in 0..MaxFrameNum - 1 /\ EncoderOffset(idr) \in Nat
        /\ TopPoc(idr, no) \in Int
    BY <1>3, EncoderTypes
  <1>5. idr => NextFrameNum = 0
    BY <1>1, <1>2 DEF BetweenFrames, NextFrameNum
  <1>6. num = NextFrameNum
    BY <1>5, <1>a
  <1>7. EncoderOffset(idr) = DecoderOffset(idr, num)
    BY <1>1, <1>6 DEF EncoderOffset, DecoderOffset, BetweenFrames
  <1>8. idr \/ num = Missing
    BY <1>1, <1>2, <1>6 DEF BetweenFrames, NextFrameNum, Missing
  <1>9. /\ Expected(DecoderOffset(idr, num) + num, ref) \in Int
        /\ Delta(idr, ref, no) = TopPoc(idr, no) - Expected(DecoderOffset(idr, num) + num, ref)
    <2>1. EncoderOffset(idr) + NextFrameNum \in Nat
      BY <1>4
    <2> QED BY <2>1, <1>6, <1>7, ExpectedType DEF Delta
  <1>10. /\ encoder'.anchor # None /\ encoder'.lastRef = ref
         /\ encoder'.frameNum = (IF reset THEN 0 ELSE num)
         /\ encoder'.prevFrameNum = (IF reset THEN 0 ELSE num)
         /\ encoder'.prevOffset = (IF reset THEN 0 ELSE DecoderOffset(idr, num))
    <2>1. encoder.anchor \in Nat \cup {None}
      BY DEF TypeOK
    <2>2. encoder'.anchor = IF no > encoder.anchor THEN no ELSE encoder.anchor
      BY <1>1 DEF Remember
    <2>3. encoder'.anchor # None
      BY <2>1, <2>2, <1>3 DEF None
    <2>4. /\ encoder'.lastRef = ref
          /\ encoder'.frameNum = (IF idr \/ reset THEN 0 ELSE NextFrameNum)
          /\ encoder'.prevFrameNum = (IF reset THEN 0 ELSE NextFrameNum)
          /\ encoder'.prevOffset = (IF reset THEN 0 ELSE EncoderOffset(idr))
      BY <1>1 DEF Remember
    <2> QED BY <2>3, <2>4, <1>5, <1>6, <1>7
  <1>11. DecoderOffset(idr, num)' = DecoderOffset(idr, num) /\ Missing' = Missing
    <2>1. Before' = Before
      BY <1>1 DEF Before
    <2>2. Missing' = Missing
      BY <1>1 DEF Missing
    <2> QED BY <2>1, <2>2 DEF DecoderOffset
  <1>12. /\ f.idr = idr /\ f.ref = ref /\ f.reset = reset /\ f.frameNum = num
         /\ f.poc = TopPoc(idr, no) /\ f.delta = Delta(idr, ref, no) /\ f.view = "frame"
    BY <1>a, <1>b DEF Slice
  <1>13. /\ t.idr = idr /\ t.ref = ref /\ t.reset = FALSE /\ t.frameNum = num
         /\ t.poc = TopPoc(idr, no) /\ t.delta = Delta(idr, ref, no) /\ t.view = "top"
         /\ b.idr = FALSE /\ b.ref = ref /\ b.reset = FALSE /\ b.frameNum = num
         /\ b.poc = TopPoc(idr, no) + BottomOffset /\ b.delta = Delta(idr, ref, no)
    BY <1>a, <1>c, <1>d DEF Slice
  <1>14. CASE structure = "frame"
    <2>1. coming' = <<f>>
      BY <1>1, <1>14, <1>b DEF Slices
    <2>2. f.poc = Expected(DecoderOffset(idr, num) + num, ref) + f.delta + 0
      BY <1>4, <1>9, <1>12
    <2>3. OneSlice(f)'
      BY <2>2, <1>1, <1>2, <1>8, <1>10, <1>11, <1>12 DEF OneSlice, TypeOnePoc
    <2> QED BY <2>1, <2>3
  <1>15. CASE structure # "frame"
    <2>1. coming' = <<t, b>>
      BY <1>1, <1>15, <1>c, <1>d DEF Slices
    <2>2. t.poc = Expected(DecoderOffset(idr, num) + num, ref) + t.delta + 0
      BY <1>4, <1>9, <1>13
    <2>3. OneSlice(t)'
      BY <2>2, <1>1, <1>2, <1>8, <1>10, <1>11, <1>13, <1>15 DEF OneSlice, TypeOnePoc
    <2>4. SecondField(t, b)
      BY <1>13 DEF SecondField
    <2> QED BY <2>1, <2>3, <2>4
  <1> QED BY <1>14, <1>15

LEMMA DecodeOne ==
    ASSUME TypeOK, OneInv, pocType = 1, DecodeTypeOne
    PROVE  OneInv'
  <1>a. PICK s : s = Head(coming)
    OBVIOUS
  <1>b. PICK off : off = DecoderOffset(s.idr, s.frameNum)
    OBVIOUS
  <1>1. /\ coming # << >> /\ s = coming[1] /\ s \in SliceType
        /\ Len(coming) \in {1, 2} /\ Len(Tail(coming)) = Len(coming) - 1
        /\ (Len(coming) = 2 => Tail(coming)[1] = coming[2] /\ coming[2] \in SliceType)
        /\ Tail(coming) \in Seq(SliceType)
    BY <1>a, HeadAndTail DEF DecodeTypeOne
  <1>2. /\ OneSlice(s) /\ (Len(coming) = 2 => SecondField(s, coming[2]))
    BY <1>1 DEF OneInv
  <1>3. /\ s.idr \in BOOLEAN /\ s.ref \in BOOLEAN /\ s.reset \in BOOLEAN
        /\ s.frameNum \in 0..MaxFrameNum - 1 /\ s.delta \in Int /\ s.poc \in Int
    BY <1>1 DEF SliceType
  <1>4. off \in Nat /\ s.frameNum \in Nat /\ BottomOffset \in {0, 1}
    BY <1>3, <1>b, DecoderTypes, PocAssumption
  <1>5. /\ decoder'.prevFrameNum = s.frameNum /\ decoder'.prevOffset = off
        /\ decoder'.hasReset = s.reset
        /\ decoder'.preFrameNum = (IF s.reset THEN 0 ELSE IF s.ref THEN s.frameNum
                                   ELSE decoder.preFrameNum)
        /\ decoded' = <<[slice |-> s, poc |-> s.poc, bottom |-> s.poc + BottomOffset]>>
        /\ coming' = Tail(coming) /\ encoder' = encoder
    BY <1>a, <1>b, <1>2 DEF DecodeTypeOne, DecodeWith, OneSlice
  <1>6. AsCoded'
    BY <1>5 DEF AsCoded
  <1>7. Before' = IF s.reset THEN <<0, 0>> ELSE <<s.frameNum, off>>
    BY <1>5 DEF Before
  <1>8. ~s.ref => Missing' = Missing /\ s.frameNum = Missing
    BY <1>2, <1>5 DEF OneSlice, Missing
  <1>9. Len(coming') # 2
    <2>1. Len(coming') = Len(coming) - 1
      BY <1>1, <1>5
    <2>2. \A n \in {1, 2} : n - 1 # 2
      OBVIOUS
    <2> QED BY <2>1, <2>2, <1>1
  <1>10. CASE Len(coming) = 1
    <2>1. coming' = << >>
      <3>1. coming' \in Seq(SliceType) /\ Len(coming') = 0
        BY <1>10, <1>1, <1>5
      <3> QED BY <3>1, EmptySeq
    <2>2. Before' = <<encoder'.prevFrameNum, encoder'.prevOffset>>
      BY <1>2, <1>5, <1>7, <1>b DEF OneSlice
    <2>3. encoder'.frameNum = (IF encoder'.lastRef THEN decoder'.preFrameNum ELSE Missing')
      <3>1. CASE s.ref
        BY <3>1, <1>2, <1>5 DEF OneSlice
      <3>2. CASE ~s.ref
        BY <3>2, <1>2, <1>5, <1>8 DEF OneSlice
      <3> QED BY <3>1, <3>2
    <2>4. encoder'.anchor # None
      BY <1>2, <1>5 DEF OneSlice
    <2>5. BetweenFrames'
      BY <2>2, <2>3, <2>4 DEF BetweenFrames
    <2> QED BY <2>1, <2>5, <1>6, <1>9 DEF OneInv
  <1>11. CASE Len(coming) = 2
    <2>a. PICK t : t = coming[2]
      OBVIOUS
    <2>1. /\ coming' # << >> /\ coming'[1] = t /\ t.view = "bottom" /\ s.view = "top"
      <3>1. coming' # << >>
        <4>1. Len(coming') = 1
          BY <1>1, <1>5, <1>11
        <4> QED BY <4>1
      <3>2. t.view = "bottom" /\ s.view = "top"
        BY <1>1, <1>11, <2>a DEF TypeOK
      <3> QED BY <3>1, <3>2, <1>1, <1>5, <1>11, <2>a
    <2>2. /\ ~s.reset /\ ~t.idr /\ ~t.reset
          /\ t.ref = s.ref /\ t.frameNum = s.frameNum /\ t.delta = s.delta
          /\ t.poc = s.poc + BottomOffset
      BY <1>2, <1>11, <2>a DEF SecondField
    <2>3. DecoderOffset(t.idr, t.frameNum)' = off
      <3>1. Before' = <<s.frameNum, off>>
        BY <1>7, <2>2
      <3>2. Offset(s.frameNum, s.frameNum, off) = off
        BY <1>4 DEF Offset
      <3> QED BY <3>1, <3>2, <2>2 DEF DecoderOffset
    <2>4. t.poc = TypeOnePoc(t)'
      <3>1. Expected(off + s.frameNum, s.ref) \in Int
        <4>1. off + s.frameNum \in Nat
          BY <1>4
        <4> QED BY <4>1, <1>3, ExpectedType
      <3>2. s.poc = Expected(off + s.frameNum, s.ref) + s.delta + 0
        BY <1>2, <1>b, <2>1 DEF OneSlice, TypeOnePoc
      <3>3. TypeOnePoc(t)' = Expected(off + s.frameNum, s.ref) + s.delta + BottomOffset
        BY <2>1, <2>2, <2>3 DEF TypeOnePoc
      <3> QED BY <3>1, <3>2, <3>3, <2>2, <1>3, <1>4
    <2>5. t.frameNum = Missing' \/ (t.ref /\ t.frameNum = decoder'.preFrameNum)
      BY <1>5, <1>8, <2>2
    <2>6. /\ encoder'.anchor # None /\ encoder'.lastRef = t.ref
          /\ encoder'.frameNum = t.frameNum /\ encoder'.prevFrameNum = t.frameNum
          /\ encoder'.prevOffset = off
      BY <1>2, <1>5, <1>b, <2>2 DEF OneSlice
    <2>7. OneSlice(t)'
      BY <2>2, <2>3, <2>4, <2>5, <2>6 DEF OneSlice
    <2> QED BY <2>1, <2>7, <1>6, <1>9 DEF OneInv
  <1> QED BY <1>1, <1>10, <1>11

LEMMA NextOne ==
    ASSUME 1 \notin IdrTypes, 1 \notin LossyTypes, TypeOK, OneInv, [Next]_vars
    PROVE  OneInv'
  <1> SUFFICES ASSUME pocType' = 1 PROVE OneInv'
    BY DEF OneInv
  <1>1. pocType = 1
    BY ZenonT(60) DEF Next, Encode, Decode, CodeFrame, LoseFrame, FillGap, DecodeTypeZero, DecodeTypeOne,
           DecodeTypeTwo, DecodeWith, vars
  <1>2. ASSUME NEW idr \in BOOLEAN, NEW ref \in BOOLEAN, NEW no \in 0..LastFrame,
               NEW structure \in Structures, NEW reset \in BOOLEAN,
               CodeFrame(idr, ref, no, structure, reset)
        PROVE  OneInv'
    <2>1. AsCoded'
      BY <1>1, <1>2 DEF OneInv, CodeFrame, AsCoded
    <2> QED BY <2>1, <1>1, <1>2, CodeFrameOne DEF OneInv
  <1>3. ASSUME NEW ref \in BOOLEAN, NEW no \in 0..LastFrame, NEW structure \in Structures,
               LoseFrame(ref, no, structure)
        PROVE  OneInv'
    BY <1>1, <1>3 DEF LoseFrame
  <1>4. CASE FillGap
    <2>1. coming # << >> /\ Head(coming) = coming[1] /\ OneSlice(coming[1])
      BY <1>1, <1>4, HeadAndTail DEF FillGap, IsGap, OneInv
    <2> QED BY <2>1, <1>4 DEF FillGap, IsGap, OneSlice
  <1>5. CASE DecodeTypeOne
    BY <1>1, <1>5, DecodeOne
  <1>6. CASE UNCHANGED vars
    BY <1>6 DEF vars, OneInv, BetweenFrames, OneSlice, SecondField, AsCoded, TypeOnePoc,
                DecoderOffset, Before, Missing
  <1> QED BY <1>1, <1>2, <1>3, <1>4, <1>5, <1>6 DEF Next, Encode, Decode, DecodeTypeZero,
                                                    DecodeTypeTwo

\* With type 1 the decoder finds the count the encoder meant, for every width
\* of frame_num, every offset, every order of coding and with operation 5, as
\* long as the stream has one IDR picture and loses none.
THEOREM TypeOneCorrect ==
    ASSUME 1 \notin IdrTypes, 1 \notin LossyTypes
    PROVE  Spec => []TypeOneAsCoded
  <1>1. Init => TypeOK /\ OneInv
    BY InitTypes, InitOne
  <1>2. TypeOK /\ OneInv /\ [Next]_vars => (TypeOK /\ OneInv)'
    BY NextTypes, NextOne
  <1>3. TypeOK /\ OneInv => TypeOneAsCoded
    BY DEF OneInv, TypeOneAsCoded
  <1> QED BY <1>1, <1>2, <1>3, PTL DEF Spec

-----------------------------------------------------------------------------
(* Type 2                                                                  *)

\* The frame number k behind that of the reference picture before.
Number(k) == (decoder.preFrameNum + k) % MaxFrameNum

\* AbsFrameNum of the frame the decoder decoded or filled in last, and the
\* count that the next one has to exceed.
Reached == Before[1] + Before[2]
LastPoc == IF decoded[1].slice.reset THEN 0 ELSE decoded[1].poc

\* Which frame that was: a reference picture or a missing one, or a picture
\* behind it that is no reference and shares its frame_num with the next.
AtReference == Before[1] = decoder.preFrameNum /\ LastPoc <= 2 * Reached
AtNonReference == Before[1] = Number(1) /\ LastPoc <= 2 * Reached - 1

\* Between frames the decoder knows how many numbers are missing, and the
\* encoder whether the next frame may do without one of its own.
ReadyForNext ==
    /\ decoded # << >>
    /\ lost \in 0..MaxFrameNum - 2
    /\ NextFrameNum = Number(lost + 1)
    /\ AtReference \/ (AtNonReference /\ (lost = 0 => encoder.lastNonRef))

\* What the encoder remembers of the frame that is coming.
IsLast(s) ==
    /\ encoder.anchor # None /\ lost = 0
    /\ encoder.lastRef = s.ref /\ encoder.lastNonRef = ~s.ref
    /\ encoder.frameNum = IF s.reset THEN 0 ELSE s.frameNum

\* A frame or first field, k numbers behind the reference picture before.
Follows(s) ==
    \E k \in 1..MaxFrameNum - 1 :
      /\ decoded # << >>
      /\ s.frameNum = Number(k)
      /\ AtReference \/ (AtNonReference /\ (k = 1 => s.ref))

FirstSlice(s) ==
    /\ IsLast(s)
    /\ (s.idr \/ s.reset) => s.ref
    /\ IF s.idr THEN s.frameNum = 0 ELSE Follows(s)

\* A second field, which stands where the first one stood.
LaterSlice(t) ==
    /\ IsLast(t)
    /\ ~t.idr /\ ~t.reset /\ t.frameNum = Before[1] /\ decoded # << >>
    /\ IF t.ref THEN AtReference ELSE AtNonReference

FieldsAgree(s, t) ==
    /\ ~s.reset /\ ~t.idr /\ ~t.reset
    /\ t.ref = s.ref /\ t.frameNum = s.frameNum

TwoInv ==
    pocType = 2 =>
      /\ coming = << >> /\ encoder.anchor # None => ReadyForNext
      /\ coming # << >> => IF coming[1].view = "bottom" THEN LaterSlice(coming[1])
                                                        ELSE FirstSlice(coming[1])
      /\ Len(coming) = 2 => FieldsAgree(coming[1], coming[2])

\* A frame number and what it is counted from, less than a cycle apart.
LEMMA Wraps ==
    ASSUME NEW n \in Nat, n < 2 * MaxFrameNum
    PROVE  n % MaxFrameNum = IF n < MaxFrameNum THEN n ELSE n - MaxFrameNum
  <1>1. MaxFrameNum \in Nat /\ MaxFrameNum > 0
    BY PocAssumption
  <1>2. PICK q \in Int, r \in 0..MaxFrameNum - 1 : n % MaxFrameNum = r /\ n = MaxFrameNum * q + r
    <2>1. /\ n \div MaxFrameNum \in Int /\ n % MaxFrameNum \in 0..MaxFrameNum - 1
          /\ n = MaxFrameNum * (n \div MaxFrameNum) + (n % MaxFrameNum)
      BY <1>1, Division
    <2> QED BY <2>1, Zenon
  <1>3. q >= 0
    <2>1. q <= -1 => MaxFrameNum * q <= MaxFrameNum * (-1)
      BY <1>1
    <2> QED BY <2>1, <1>1, <1>2
  <1>4. q <= 1
    <2>1. q >= 2 => MaxFrameNum * q >= MaxFrameNum * 2
      BY <1>1
    <2> QED BY <2>1, <1>1, <1>2
  <1>5. q = 0 \/ q = 1
    BY <1>3, <1>4
  <1> QED BY <1>1, <1>2, <1>5

LEMMA NumberIs ==
    ASSUME TypeOK, NEW k \in 1..MaxFrameNum - 1
    PROVE  /\ MaxFrameNum \in Nat /\ decoder.preFrameNum \in 0..MaxFrameNum - 1
           /\ Number(k) = IF decoder.preFrameNum + k < MaxFrameNum
                          THEN decoder.preFrameNum + k
                          ELSE decoder.preFrameNum + k - MaxFrameNum
  <1>1. MaxFrameNum \in Nat /\ decoder.preFrameNum \in 0..MaxFrameNum - 1
    BY PocAssumption DEF TypeOK
  <1>2. decoder.preFrameNum + k \in Nat /\ decoder.preFrameNum + k < 2 * MaxFrameNum
    BY <1>1
  <1> QED BY <1>1, <1>2, Wraps DEF Number

\* The next frame number tells the decoder whether its frame was reached.
LEMMA NextNumber ==
    ASSUME TypeOK, MaxFrameNum > 1
    PROVE  /\ Missing = Number(1) /\ Missing \in 0..MaxFrameNum - 1 /\ Reached \in Int
           /\ Before[1] = decoder.preFrameNum =>
                DecoderOffset(FALSE, Missing) + Missing = Reached + 1
           /\ Before[1] = Missing => DecoderOffset(FALSE, Missing) + Missing = Reached
  <1>1. Missing = Number(1) /\ Missing \in 0..MaxFrameNum - 1
    <2>1. 0 \in 0..MaxFrameNum - 1
      BY PocAssumption
    <2> QED BY <2>1, DecoderTypes DEF Missing, Number
  <1>2. 1 \in 1..MaxFrameNum - 1 /\ MaxFrameNum \in Nat
    BY PocAssumption
  <1>3. /\ decoder.preFrameNum \in 0..MaxFrameNum - 1
        /\ Missing = IF decoder.preFrameNum + 1 < MaxFrameNum THEN decoder.preFrameNum + 1
                     ELSE decoder.preFrameNum + 1 - MaxFrameNum
    BY <1>1, <1>2, NumberIs
  <1>4. Before[1] \in 0..MaxFrameNum - 1 /\ Before[2] \in Nat
    BY <1>2 DEF TypeOK, Before
  <1>5. DecoderOffset(FALSE, Missing) = IF Missing < Before[1] THEN Before[2] + MaxFrameNum ELSE Before[2]
    BY DEF DecoderOffset, Offset
  <1>6. Reached = Before[1] + Before[2]
    BY DEF Reached
  <1>a. PICK m, before, off, now, M, pre :
          /\ m = Missing /\ before = Before[1] /\ off = Before[2]
          /\ now = DecoderOffset(FALSE, Missing) /\ M = MaxFrameNum /\ pre = decoder.preFrameNum
    OBVIOUS
  <1>7. /\ M \in Nat /\ M > 1 /\ pre \in 0..M - 1 /\ before \in 0..M - 1 /\ off \in Nat
        /\ m = (IF pre + 1 < M THEN pre + 1 ELSE pre + 1 - M)
        /\ now = (IF m < before THEN off + M ELSE off)
    BY <1>2, <1>3, <1>4, <1>5, <1>a
  <1>8. before = pre => now + m = before + off + 1
    BY ONLY <1>7
  <1>9. before = m => now + m = before + off
    BY ONLY <1>7
  <1>10. Reached \in Int
    BY <1>2, <1>4, <1>6
  <1>11. Before[1] = decoder.preFrameNum => DecoderOffset(FALSE, Missing) + Missing = Reached + 1
    BY <1>6, <1>8, <1>a
  <1>12. Before[1] = Missing => DecoderOffset(FALSE, Missing) + Missing = Reached
    BY <1>6, <1>9, <1>a
  <1> QED BY <1>1, <1>10, <1>11, <1>12

\* A number that is no gap is the next one; behind a gap it is one nearer.
LEMMA OneNearer ==
    ASSUME TypeOK, MaxFrameNum > 1, NEW k \in 1..MaxFrameNum - 1
    PROVE  /\ Number(k) \in {decoder.preFrameNum, Missing} => k = 1
           /\ k > 1 => Number(k) = (Missing + (k - 1)) % MaxFrameNum
  <1>1. /\ MaxFrameNum \in Nat /\ decoder.preFrameNum \in 0..MaxFrameNum - 1
        /\ Number(k) = IF decoder.preFrameNum + k < MaxFrameNum THEN decoder.preFrameNum + k
                       ELSE decoder.preFrameNum + k - MaxFrameNum
    BY NumberIs
  <1>2. /\ Missing = IF decoder.preFrameNum + 1 < MaxFrameNum THEN decoder.preFrameNum + 1
                     ELSE decoder.preFrameNum + 1 - MaxFrameNum
    <2>1. 1 \in 1..MaxFrameNum - 1
      BY <1>1
    <2> QED BY <2>1, NumberIs, NextNumber
  <1>3. Missing \in Nat /\ Missing + (k - 1) \in Nat /\ Missing + (k - 1) < 2 * MaxFrameNum
    BY ONLY <1>1, <1>2, MaxFrameNum > 1, k \in 1..MaxFrameNum - 1
  <1>4. (Missing + (k - 1)) % MaxFrameNum = IF Missing + (k - 1) < MaxFrameNum THEN Missing + (k - 1)
                                            ELSE Missing + (k - 1) - MaxFrameNum
    BY <1>1, <1>3, Wraps
  <1> QED BY ONLY <1>1, <1>2, <1>4, MaxFrameNum > 1, k \in 1..MaxFrameNum - 1

LEMMA InitTwo == Init => TwoInv
  BY DEF Init, TwoInv

\* Where the encoder stands behind a frame that was coded.
LEMMA CodeFrameTwo ==
    ASSUME MaxFrameNum > 1, TypeOK, TwoInv, pocType = 2,
           NEW idr \in BOOLEAN, NEW ref \in BOOLEAN, NEW no \in 0..LastFrame,
           NEW structure \in Structures, NEW reset \in BOOLEAN,
           CodeFrame(idr, ref, no, structure, reset)
    PROVE  TwoInv'
  <1>a. PICK num : num = IF idr THEN 0 ELSE NextFrameNum
    OBVIOUS
  <1>b. PICK f : f = Slice("frame", idr, ref, no, reset)
    OBVIOUS
  <1>c. PICK t : t = Slice("top", idr, ref, no, FALSE)
    OBVIOUS
  <1>d. PICK b : b = Slice("bottom", idr, ref, no, FALSE)
    OBVIOUS
  <1>1. /\ MayCode(idr, ref, no, structure, reset) /\ Remember(idr, ref, no, reset)
        /\ coming' = Slices(structure, idr, ref, no, reset)
        /\ lost' = 0 /\ decoder' = decoder /\ decoded' = decoded /\ coming = << >>
    BY DEF CodeFrame
  <1>2. /\ (idr \/ reset) => ref
        /\ encoder.anchor = None => idr
        /\ structure # "frame" => ~reset
        /\ ref \/ ~encoder.lastNonRef
    BY <1>1 DEF MayCode, TypeTwoCan
  <1>3. /\ encoder'.anchor # None /\ encoder'.lastRef = ref /\ encoder'.lastNonRef = ~ref
        /\ encoder'.frameNum = (IF reset THEN 0 ELSE num)
    <2>1. encoder.anchor \in Nat \cup {None} /\ no \in Nat
      BY PocAssumption DEF TypeOK
    <2>2. encoder'.anchor = IF no > encoder.anchor THEN no ELSE encoder.anchor
      BY <1>1 DEF Remember
    <2>3. encoder'.anchor # None
      BY <2>1, <2>2 DEF None
    <2> QED BY <2>3, <1>1, <1>a DEF Remember
  <1>4. /\ f.idr = idr /\ f.ref = ref /\ f.reset = reset /\ f.frameNum = num /\ f.view = "frame"
    BY <1>a, <1>b DEF Slice
  <1>5. /\ t.idr = idr /\ t.ref = ref /\ t.reset = FALSE /\ t.frameNum = num /\ t.view = "top"
        /\ b.idr = FALSE /\ b.ref = ref /\ b.reset = FALSE /\ b.frameNum = num
    BY <1>a, <1>c, <1>d DEF Slice
  <1>6. ASSUME ~idr, NEW s, s.frameNum = num, s.ref = ref
        PROVE  Follows(s)'
    <2>1. ReadyForNext
      BY <1>1, <1>2, <1>6 DEF TwoInv
    <2>2. lost + 1 \in 1..MaxFrameNum - 1 /\ (lost + 1 = 1 => lost = 0)
      BY <2>1, PocAssumption DEF ReadyForNext
    <2>3. num = Number(lost + 1)
      BY <1>a, <1>6, <2>1 DEF ReadyForNext
    <2>4. Follows(s)
      BY <1>2, <1>6, <2>1, <2>2, <2>3 DEF Follows, ReadyForNext
    <2> QED BY <2>4, <1>1 DEF Follows, Number, AtReference, AtNonReference, Reached, LastPoc, Before
  <1>7. CASE structure = "frame"
    <2>1. coming' = <<f>>
      BY <1>1, <1>7, <1>b DEF Slices
    <2>2. FirstSlice(f)'
      BY <1>1, <1>2, <1>3, <1>4, <1>6, <1>a DEF FirstSlice, IsLast
    <2>3. coming'[1] = f /\ Len(coming') # 2 /\ coming' # << >>
      BY <2>1
    <2> QED BY <2>2, <2>3, <1>4 DEF TwoInv
  <1>8. CASE structure # "frame"
    <2>1. coming' = <<t, b>>
      BY <1>1, <1>8, <1>c, <1>d DEF Slices
    <2>2. FirstSlice(t)'
      BY <1>1, <1>2, <1>3, <1>5, <1>6, <1>8, <1>a DEF FirstSlice, IsLast
    <2>3. FieldsAgree(t, b)
      BY <1>5 DEF FieldsAgree
    <2>4. coming'[1] = t /\ coming'[2] = b /\ coming' # << >>
      BY <2>1
    <2> QED BY <2>2, <2>3, <2>4, <1>5 DEF TwoInv
  <1> QED BY <1>7, <1>8

\* A frame that was lost is one number more the decoder has to fill in.
LEMMA LoseFrameTwo ==
    ASSUME MaxFrameNum > 1, TypeOK, TwoInv, pocType = 2,
           NEW ref \in BOOLEAN, NEW no \in 0..LastFrame, NEW structure \in Structures,
           LoseFrame(ref, no, structure)
    PROVE  TwoInv'
  <1>1. /\ MayCode(FALSE, ref, no, structure, FALSE) /\ Remember(FALSE, ref, no, FALSE)
        /\ ref => lost + 2 < MaxFrameNum
        /\ lost' = IF ref THEN lost + 1 ELSE lost
        /\ coming = << >> /\ UNCHANGED <<coming, decoder, decoded>>
    BY DEF LoseFrame
  <1>2. encoder.anchor # None /\ (ref \/ ~encoder.lastNonRef)
    BY <1>1 DEF MayCode, TypeTwoCan
  <1>3. ReadyForNext
    BY <1>1, <1>2 DEF TwoInv
  <1>4. /\ encoder'.frameNum = NextFrameNum /\ encoder'.lastRef = ref /\ encoder'.lastNonRef = ~ref
    BY <1>1 DEF Remember
  <1>5. /\ MaxFrameNum \in Nat /\ lost \in 0..MaxFrameNum - 2 /\ lost + 1 \in 1..MaxFrameNum - 1
        /\ decoder.preFrameNum \in 0..MaxFrameNum - 1
    <2>1. MaxFrameNum \in Nat /\ decoder.preFrameNum \in 0..MaxFrameNum - 1
      BY PocAssumption DEF TypeOK
    <2>2. lost \in 0..MaxFrameNum - 2
      BY <1>3 DEF ReadyForNext
    <2> QED BY <2>1, <2>2
  <1>6. lost' \in 0..MaxFrameNum - 2 /\ lost' + 1 \in 1..MaxFrameNum - 1
    BY <1>1, <1>5
  <1>7. /\ Number(lost + 1) = IF decoder.preFrameNum + (lost + 1) < MaxFrameNum
                              THEN decoder.preFrameNum + (lost + 1)
                              ELSE decoder.preFrameNum + (lost + 1) - MaxFrameNum
        /\ Number(lost' + 1) = IF decoder.preFrameNum + (lost' + 1) < MaxFrameNum
                               THEN decoder.preFrameNum + (lost' + 1)
                               ELSE decoder.preFrameNum + (lost' + 1) - MaxFrameNum
    BY <1>5, <1>6, NumberIs
  <1>8. NextFrameNum' = Number(lost' + 1)
    <2>1. CASE ref
      <3>1. NextFrameNum' = (Number(lost + 1) + 1) % MaxFrameNum
        BY <2>1, <1>3, <1>4 DEF NextFrameNum, ReadyForNext
      <3>2. Number(lost + 1) \in Nat /\ Number(lost + 1) + 1 \in Nat /\ Number(lost + 1) + 1 < 2 * MaxFrameNum
        BY ONLY <1>5, <1>7, MaxFrameNum > 1
      <3>3. (Number(lost + 1) + 1) % MaxFrameNum = IF Number(lost + 1) + 1 < MaxFrameNum
                THEN Number(lost + 1) + 1 ELSE Number(lost + 1) + 1 - MaxFrameNum
        BY <3>2, <1>5, Wraps
      <3>4. lost' = lost + 1
        BY <1>1, <2>1
      <3> QED BY ONLY <3>1, <3>3, <3>4, <1>5, <1>6, <1>7, MaxFrameNum > 1
    <2>2. CASE ~ref
      BY <2>2, <1>1, <1>3, <1>4 DEF NextFrameNum, ReadyForNext
    <2> QED BY <2>1, <2>2
  <1>9. lost' = 0 => lost = 0 /\ ~ref
    BY <1>1, <1>5
  <1>10. \A k : Number(k)' = Number(k)
    BY <1>1 DEF Number
  <1>11. ReadyForNext'
    <2>1. AtReference' = AtReference /\ AtNonReference' = AtNonReference
      BY <1>1 DEF AtReference, AtNonReference, Reached, LastPoc, Before, Number
    <2>2. AtReference \/ (AtNonReference /\ (lost = 0 => encoder.lastNonRef))
      BY <1>3 DEF ReadyForNext
    <2>3. AtReference' \/ (AtNonReference' /\ (lost' = 0 => encoder'.lastNonRef))
      BY <2>1, <2>2, <1>4, <1>9
    <2>4. NextFrameNum' = (Number(lost + 1))'
      BY <1>8, <1>10 DEF Number
    <2>5. decoded' # << >>
      BY <1>1, <1>3 DEF ReadyForNext
    <2> QED BY <2>3, <2>4, <2>5, <1>6 DEF ReadyForNext
  <1>12. coming' = << >> /\ Len(coming') = 0
    BY <1>1
  <1> QED BY <1>11, <1>12 DEF TwoInv

LEMMA LastPocType == ASSUME TypeOK, decoded # << >> PROVE LastPoc \in Int
  <1> DEFINE T == [slice : SliceType, poc : Int, bottom : Int]
  <1>1. decoded \in Seq(T)
    BY DEF TypeOK
  <1>2. decoded[1] \in T
    <2> HIDE DEF T
    <2>1. Len(decoded) \in Nat /\ Len(decoded) # 0
      BY <1>1, EmptySeq
    <2> QED BY <2>1, <1>1
  <1> QED BY <1>2 DEF LastPoc

\* The number filled in takes the place of a picture that shared it, if there
\* was one, and brings the frame that is coming one number nearer.
LEMMA FillGapTwo ==
    ASSUME MaxFrameNum > 1, TypeOK, TwoInv, pocType = 2, FillGap
    PROVE  TwoInv'
  <1>a. PICK s : s = coming[1]
    OBVIOUS
  <1>1. /\ coming # << >> /\ Head(coming) = s /\ ~s.idr
        /\ s.frameNum \notin {decoder.preFrameNum, Missing}
        /\ UNCHANGED <<pocType, encoder, coming, lost, decoded>>
    BY <1>a, HeadAndTail DEF FillGap, IsGap
  <1>2. /\ decoder'.preFrameNum = Missing /\ decoder'.prevFrameNum = Missing
        /\ decoder'.prevOffset = DecoderOffset(FALSE, Missing) /\ decoder'.hasReset = FALSE
    BY DEF FillGap, TypeOK
  <1>3. /\ Missing = Number(1) /\ Missing \in 0..MaxFrameNum - 1 /\ Reached \in Int
        /\ Before[1] = decoder.preFrameNum =>
             DecoderOffset(FALSE, Missing) + Missing = Reached + 1
        /\ Before[1] = Missing => DecoderOffset(FALSE, Missing) + Missing = Reached
    BY NextNumber
  <1>4. /\ Before'[1] = Missing /\ Before'[2] = DecoderOffset(FALSE, Missing)
    BY <1>2 DEF Before
  <1>5. s.view # "bottom"
    <2>1. CASE s.view = "bottom"
      <3>1. LaterSlice(s)
        BY <2>1, <1>1, <1>a DEF TwoInv
      <3>2. s.frameNum = decoder.preFrameNum \/ s.frameNum = Missing
        BY <3>1, <1>3 DEF LaterSlice, AtReference, AtNonReference
      <3> QED BY <3>2, <1>1
    <2> QED BY <2>1
  <1>6. FirstSlice(s) /\ Follows(s)
    BY <1>1, <1>5, <1>a DEF TwoInv, FirstSlice
  <1>7. PICK k \in 1..MaxFrameNum - 1 :
          /\ decoded # << >>
          /\ s.frameNum = Number(k)
          /\ AtReference \/ (AtNonReference /\ (k = 1 => s.ref))
    BY <1>6 DEF Follows
  <1>8. k > 1 /\ Number(k) = (Missing + (k - 1)) % MaxFrameNum
    <2>1. k # 1
      BY <1>1, <1>3, <1>7
    <2>2. k > 1
      BY <2>1, PocAssumption
    <2> QED BY <2>2, OneNearer
  <1>9. k - 1 \in 1..MaxFrameNum - 1
    BY <1>8, PocAssumption
  <1>10. s.frameNum = Number(k - 1)'
    BY <1>2, <1>7, <1>8 DEF Number
  <1>11. AtReference'
    <2>1. LastPoc' = LastPoc
      BY <1>1 DEF LastPoc
    <2>2. LastPoc \in Int
      BY <1>7, LastPocType
    <2>3. Reached' = DecoderOffset(FALSE, Missing) + Missing /\ Reached' \in Int
      <3>a. PICK m, idr : m = Missing /\ idr = FALSE
        OBVIOUS
      <3>1. m \in 0..MaxFrameNum - 1 /\ m \in Int /\ idr \in BOOLEAN
        <4>1. MaxFrameNum \in Nat
          BY PocAssumption
        <4>2. m \in 0..MaxFrameNum - 1
          BY <1>3, <3>a, Zenon
        <4>3. m \in Int
          BY ONLY <4>1, <4>2
        <4> QED BY <4>2, <4>3, <3>a
      <3>2. DecoderOffset(idr, m) \in Nat
        BY ONLY TypeOK, <3>1, DecoderTypes
      <3>b. PICK off : off = DecoderOffset(idr, m)
        OBVIOUS
      <3>3. Reached' = m + off
        BY <1>4, <3>a, <3>b DEF Reached
      <3>4. m + off = off + m /\ off + m \in Int
        BY <3>1, <3>2, <3>b
      <3> QED BY <3>3, <3>4, <3>a, <3>b
    <2>4. LastPoc <= 2 * Reached'
      <3>1. CASE AtReference
        <4>1. Reached' = Reached + 1 /\ LastPoc <= 2 * Reached
          BY <3>1, <2>3, <1>3 DEF AtReference
        <4> QED BY <4>1, <2>2, <1>3
      <3>2. CASE AtNonReference
        <4>1. Reached' = Reached /\ LastPoc <= 2 * Reached - 1
          BY <3>2, <2>3, <1>3 DEF AtNonReference
        <4> QED BY <4>1, <2>2, <1>3
      <3> QED BY <3>1, <3>2, <1>7
    <2> QED BY <2>1, <2>4, <1>2, <1>4 DEF AtReference
  <1>12. Follows(s)'
    BY <1>1, <1>7, <1>9, <1>10, <1>11 DEF Follows
  <1>13. FirstSlice(s)'
    BY <1>1, <1>6, <1>12 DEF FirstSlice, IsLast
  <1>14. Len(coming) = 2 => FieldsAgree(coming[1], coming[2])
    BY DEF TwoInv
  <1> QED BY <1>1, <1>5, <1>13, <1>14, <1>a DEF TwoInv

\* A frame or first field gets a greater count than the one before, unless it
\* starts a new sequence, and leaves the decoder where the encoder stands.
LEMMA DecodeFirstTwo ==
    ASSUME MaxFrameNum > 1, TypeOK, TwoInv, pocType = 2, DecodeTypeTwo,
           NEW s, s = coming[1], s.view # "bottom"
    PROVE  /\ ~s.idr => decoded # << >> /\ TypeTwoPoc(s) > LastPoc
           /\ (decoded # << >>)' /\ LastPoc' = IF s.reset THEN 0 ELSE TypeTwoPoc(s)
           /\ IF s.ref THEN AtReference' ELSE AtNonReference'
           /\ ~s.reset => Before'[1] = s.frameNum
           /\ NextFrameNum' = Number(1)'
  <1>a. PICK off : off = DecoderOffset(s.idr, s.frameNum)
    OBVIOUS
  <1>1. /\ coming # << >> /\ ~IsGap /\ Head(coming) = s /\ s \in SliceType
        /\ DecodeWith(s, TypeTwoPoc(s), TypeTwoPoc(s), 0, 0)
    BY HeadAndTail DEF DecodeTypeTwo
  <1>2. /\ s.idr \in BOOLEAN /\ s.ref \in BOOLEAN /\ s.reset \in BOOLEAN
        /\ s.frameNum \in 0..MaxFrameNum - 1
    BY <1>1 DEF SliceType
  <1>3. FirstSlice(s) /\ IsLast(s) /\ ((s.idr \/ s.reset) => s.ref)
    BY <1>1 DEF TwoInv, FirstSlice
  <1>4. /\ decoder'.prevFrameNum = s.frameNum /\ decoder'.prevOffset = off
        /\ decoder'.hasReset = s.reset
        /\ decoder'.preFrameNum = (IF s.reset THEN 0 ELSE IF s.ref THEN s.frameNum
                                   ELSE decoder.preFrameNum)
        /\ decoded' = <<[slice |-> s, poc |-> TypeTwoPoc(s), bottom |-> TypeTwoPoc(s)]>>
        /\ encoder' = encoder /\ lost' = lost
    BY <1>1, <1>a DEF DecodeWith
  <1>5. decoded' # << >> /\ LastPoc' = IF s.reset THEN 0 ELSE TypeTwoPoc(s)
    BY <1>4 DEF LastPoc
  <1>6. Before' = IF s.reset THEN <<0, 0>> ELSE <<s.frameNum, off>>
    BY <1>4 DEF Before
  <1>7. /\ Missing = Number(1) /\ Missing \in 0..MaxFrameNum - 1 /\ Reached \in Int
        /\ Before[1] = decoder.preFrameNum =>
             DecoderOffset(FALSE, Missing) + Missing = Reached + 1
        /\ Before[1] = Missing => DecoderOffset(FALSE, Missing) + Missing = Reached
    BY NextNumber
  <1>8. MaxFrameNum \in Nat /\ off \in Nat /\ s.frameNum \in Nat
    BY <1>2, <1>a, DecoderTypes, PocAssumption
  <1>9. ASSUME ~s.idr
        PROVE  /\ decoded # << >> /\ s.frameNum = Missing
               /\ TypeTwoPoc(s) = (IF s.ref THEN 2 * (off + s.frameNum)
                                            ELSE 2 * (off + s.frameNum) - 1)
               /\ TypeTwoPoc(s) > LastPoc
    <2>1. PICK k \in 1..MaxFrameNum - 1 :
            /\ decoded # << >>
            /\ s.frameNum = Number(k)
            /\ AtReference \/ (AtNonReference /\ (k = 1 => s.ref))
      BY <1>3, <1>9 DEF FirstSlice, Follows
    <2>2. k = 1
      <3>1. s.frameNum \in {decoder.preFrameNum, Missing}
        BY <1>1, <1>9 DEF IsGap
      <3> QED BY <3>1, <2>1, OneNearer
    <2>3. s.frameNum = Missing /\ off = DecoderOffset(FALSE, Missing)
      BY <1>2, <1>7, <1>9, <1>a, <2>1, <2>2
    <2>4. TypeTwoPoc(s) = IF s.ref THEN 2 * (off + s.frameNum) ELSE 2 * (off + s.frameNum) - 1
      BY <1>9, <1>a DEF TypeTwoPoc
    <2>5. LastPoc \in Int
      BY <2>1, LastPocType
    <2>a. PICK found, before, abs, at :
            found = TypeTwoPoc(s) /\ before = LastPoc /\ abs = off + s.frameNum /\ at = Reached
      OBVIOUS
    <2>6. CASE AtReference
      <3>1. abs = at + 1 /\ before <= 2 * at
        BY <2>6, <2>3, <2>a, <1>7 DEF AtReference
      <3>2. before \in Int /\ at \in Int /\ (found = 2 * abs \/ found = 2 * abs - 1)
        BY <2>4, <2>5, <2>a, <1>7
      <3>3. found > before
        BY ONLY <3>1, <3>2
      <3> QED BY <3>3, <2>1, <2>3, <2>4, <2>a
    <2>7. CASE AtNonReference /\ s.ref
      <3>1. abs = at /\ before <= 2 * at - 1
        BY <2>7, <2>3, <2>a, <1>7 DEF AtNonReference
      <3>2. before \in Int /\ at \in Int /\ found = 2 * abs
        BY <2>4, <2>5, <2>7, <2>a, <1>7
      <3>3. found > before
        BY ONLY <3>1, <3>2
      <3> QED BY <3>3, <2>1, <2>3, <2>4, <2>a
    <2> QED BY <2>1, <2>2, <2>6, <2>7
  <1>10. Reached' = IF s.reset THEN 0 ELSE s.frameNum + off
    BY <1>6 DEF Reached
  <1>11. CASE s.ref
    <2>1. decoder'.preFrameNum = (IF s.reset THEN 0 ELSE s.frameNum)
      BY <1>4, <1>11
    <2>2. Before'[1] = decoder'.preFrameNum
      BY <2>1, <1>6
    <2>3. \/ TypeTwoPoc(s) = 0 /\ off = 0 /\ s.frameNum = 0
         \/ TypeTwoPoc(s) = 2 * (off + s.frameNum)
      <3>1. CASE s.idr
        BY <3>1, <1>3, <1>a DEF TypeTwoPoc, DecoderOffset, FirstSlice
      <3>2. CASE ~s.idr
        BY <3>2, <1>9, <1>11
      <3> QED BY <3>1, <3>2
    <2>4. LastPoc' <= 2 * Reached'
      <3>1. CASE s.reset
        BY <3>1, <1>5, <1>10
      <3>2. CASE ~s.reset
        BY <3>2, <1>5, <1>8, <1>10, <2>3
      <3> QED BY <3>1, <3>2
    <2>5. AtReference'
      BY <2>2, <2>4 DEF AtReference
    <2>6. NextFrameNum' = Number(1)'
      <3>1. encoder'.lastRef = TRUE /\ encoder'.frameNum = decoder'.preFrameNum
        BY <2>1, <1>3, <1>4, <1>11 DEF IsLast
      <3> QED BY <3>1 DEF NextFrameNum, Number
    <2> QED BY <2>5, <2>6, <1>5, <1>6, <1>9, <1>11
  <1>12. CASE ~s.ref
    <2>1. ~s.idr /\ ~s.reset
      BY <1>3, <1>12
    <2>2. decoder'.preFrameNum = decoder.preFrameNum
      BY <2>1, <1>4, <1>12
    <2>3. Number(1)' = Missing /\ s.frameNum = Missing
      BY <2>1, <2>2, <1>7, <1>9 DEF Number
    <2>4. AtNonReference'
      <3>1. Before'[1] = Number(1)'
        BY <2>1, <2>3, <1>6
      <3>2. LastPoc' = 2 * (off + s.frameNum) - 1 /\ Reached' = s.frameNum + off
        BY <2>1, <1>5, <1>9, <1>10, <1>12
      <3>3. LastPoc' <= 2 * Reached' - 1
        BY <3>2, <1>8
      <3> QED BY <3>1, <3>3 DEF AtNonReference
    <2>5. NextFrameNum' = Number(1)'
      <3>1. encoder'.lastRef = FALSE /\ encoder'.frameNum = s.frameNum
        BY <2>1, <1>3, <1>4, <1>12 DEF IsLast
      <3> QED BY <3>1, <2>3 DEF NextFrameNum
    <2> QED BY <2>4, <2>5, <1>5, <1>6, <1>9, <1>12
  <1> QED BY <1>2, <1>11, <1>12

\* A second field has the count of the first one; the decoder stays where
\* it is.
LEMMA DecodeLaterTwo ==
    ASSUME MaxFrameNum > 1, TypeOK, TwoInv, pocType = 2, DecodeTypeTwo,
           NEW s, s = coming[1], s.view = "bottom"
    PROVE  /\ (decoded # << >>)'
           /\ IF s.ref THEN AtReference' ELSE AtNonReference'
           /\ NextFrameNum' = Number(1)'
  <1>a. PICK off : off = DecoderOffset(s.idr, s.frameNum)
    OBVIOUS
  <1>1. /\ coming # << >> /\ Head(coming) = s /\ s \in SliceType
        /\ DecodeWith(s, TypeTwoPoc(s), TypeTwoPoc(s), 0, 0)
    BY HeadAndTail DEF DecodeTypeTwo
  <1>2. s.ref \in BOOLEAN /\ s.frameNum \in 0..MaxFrameNum - 1 /\ s.frameNum \in Nat
    <2>1. s.ref \in BOOLEAN /\ s.frameNum \in 0..MaxFrameNum - 1 /\ MaxFrameNum \in Nat
      BY <1>1, PocAssumption DEF SliceType
    <2> QED BY <2>1
  <1>3. LaterSlice(s)
    BY <1>1 DEF TwoInv
  <1>4. /\ IsLast(s) /\ ~s.idr /\ ~s.reset /\ s.frameNum = Before[1]
        /\ IF s.ref THEN AtReference ELSE AtNonReference
    BY <1>3 DEF LaterSlice
  <1>5. /\ decoder'.prevFrameNum = s.frameNum /\ decoder'.prevOffset = off
        /\ ~decoder'.hasReset
        /\ decoder'.preFrameNum = (IF s.ref THEN s.frameNum ELSE decoder.preFrameNum)
        /\ decoded' = <<[slice |-> s, poc |-> TypeTwoPoc(s), bottom |-> TypeTwoPoc(s)]>>
        /\ encoder' = encoder /\ lost' = lost
    BY <1>1, <1>4, <1>a DEF DecodeWith
  <1>6. off = Before[2]
    BY <1>2, <1>4, <1>a DEF DecoderOffset, Offset
  <1>7. off \in Nat
    BY <1>2, <1>4, <1>6 DEF Before, TypeOK
  <1>8. Before' = <<s.frameNum, off>>
    BY <1>5 DEF Before
  <1>9. decoder'.preFrameNum = decoder.preFrameNum
    BY <1>4, <1>5 DEF AtReference
  <1>10. decoded' # << >> /\ LastPoc' = TypeTwoPoc(s) /\ Reached' = s.frameNum + off
    BY <1>4, <1>5, <1>8 DEF LastPoc, Reached
  <1>11. TypeTwoPoc(s) = IF s.ref THEN 2 * (off + s.frameNum) ELSE 2 * (off + s.frameNum) - 1
    BY <1>4, <1>a DEF TypeTwoPoc
  <1>12. Number(1)' = Number(1)
    BY <1>9 DEF Number
  <1>13. CASE s.ref
    <2>1. LastPoc' <= 2 * Reached'
      BY <1>2, <1>7, <1>10, <1>11, <1>13
    <2>2. AtReference'
      BY <2>1, <1>4, <1>8, <1>9, <1>13 DEF AtReference
    <2>3. NextFrameNum' = Number(1)'
      BY <1>4, <1>5, <1>13 DEF IsLast, NextFrameNum, Number
    <2> QED BY <2>2, <2>3, <1>10, <1>13
  <1>14. CASE ~s.ref
    <2>1. LastPoc' <= 2 * Reached' - 1
      BY <1>2, <1>7, <1>10, <1>11, <1>14
    <2>2. s.frameNum = Number(1)
      BY <1>4, <1>14 DEF AtNonReference
    <2>3. AtNonReference'
      BY <2>1, <2>2, <1>8, <1>12 DEF AtNonReference
    <2>4. NextFrameNum' = Number(1)'
      BY <2>2, <1>4, <1>5, <1>12, <1>14 DEF IsLast, NextFrameNum
    <2> QED BY <2>3, <2>4, <1>10, <1>14
  <1> QED BY <1>2, <1>13, <1>14

LEMMA DecodeTwo ==
    ASSUME MaxFrameNum > 1, TypeOK, TwoInv, pocType = 2, DecodeTypeTwo
    PROVE  TwoInv'
  <1>a. PICK s : s = coming[1]
    OBVIOUS
  <1>1. /\ coming # << >> /\ Head(coming) = s /\ s \in SliceType
        /\ Len(coming) \in {1, 2} /\ Len(Tail(coming)) = Len(coming) - 1
        /\ (Len(coming) = 2 => Tail(coming)[1] = coming[2])
        /\ Tail(coming) \in Seq(SliceType)
    BY <1>a, HeadAndTail DEF DecodeTypeTwo
  <1>2. /\ coming' = Tail(coming) /\ encoder' = encoder /\ lost' = lost
    BY DEF DecodeTypeTwo, DecodeWith
  <1>3. IsLast(s)
    BY <1>1, <1>a DEF TwoInv, FirstSlice, LaterSlice
  <1>4. /\ decoded' # << >> /\ s.ref \in BOOLEAN
        /\ IF s.ref THEN AtReference' ELSE AtNonReference'
        /\ NextFrameNum' = Number(1)'
    BY <1>1, <1>a, DecodeFirstTwo, DecodeLaterTwo DEF SliceType
  <1>5. CASE Len(coming) = 1
    <2>1. coming' = << >> /\ Len(coming') # 2
      <3>1. coming' \in Seq(SliceType) /\ Len(coming') = 0
        BY <1>1, <1>2, <1>5
      <3> QED BY <3>1, EmptySeq
    <2>2. lost' = 0 /\ (~s.ref => encoder'.lastNonRef)
      BY <1>2, <1>3 DEF IsLast
    <2>3. 0 \in 0..MaxFrameNum - 2 /\ lost' + 1 = 1
      BY <2>2, PocAssumption
    <2>4. ReadyForNext'
      BY <2>2, <2>3, <1>4 DEF ReadyForNext
    <2> QED BY <2>1, <2>4 DEF TwoInv
  <1>6. CASE Len(coming) = 2
    <2>a. PICK t : t = coming[2]
      OBVIOUS
    <2>1. coming' # << >> /\ coming'[1] = t /\ Len(coming') # 2
      <3>1. Len(coming') = 1
        BY <1>1, <1>2, <1>6
      <3> QED BY <3>1, <1>1, <1>2, <1>6, <2>a
    <2>2. s.view # "bottom" /\ t.view = "bottom"
      BY <1>6, <1>a, <2>a DEF TypeOK
    <2>3. /\ ~s.reset /\ ~t.idr /\ ~t.reset /\ t.ref = s.ref /\ t.frameNum = s.frameNum
      BY <1>6, <1>a, <2>a DEF TwoInv, FieldsAgree
    <2>4. Before'[1] = s.frameNum
      BY <2>2, <2>3, <1>a, DecodeFirstTwo
    <2>5. LaterSlice(t)'
      BY <2>3, <2>4, <1>2, <1>3, <1>4 DEF LaterSlice, IsLast
    <2> QED BY <2>1, <2>2, <2>5 DEF TwoInv
  <1> QED BY <1>1, <1>5, <1>6

LEMMA NextTwo ==
    ASSUME MaxFrameNum > 1, TypeOK, TwoInv, [Next]_vars
    PROVE  TwoInv'
  <1> SUFFICES ASSUME pocType' = 2 PROVE TwoInv'
    BY DEF TwoInv
  <1>1. pocType = 2
    BY ZenonT(60) DEF Next, Encode, Decode, CodeFrame, LoseFrame, FillGap, DecodeTypeZero,
           DecodeTypeOne, DecodeTypeTwo, DecodeWith, vars
  <1>2. CASE UNCHANGED vars
    BY <1>2 DEF vars, TwoInv, ReadyForNext, FirstSlice, LaterSlice, FieldsAgree, IsLast, Follows,
                AtReference, AtNonReference, Reached, LastPoc, Before, Number, NextFrameNum
  <1> QED BY <1>1, <1>2, CodeFrameTwo, LoseFrameTwo, FillGapTwo, DecodeTwo
          DEF Next, Encode, Decode, DecodeTypeZero, DecodeTypeOne

\* With type 2 each frame the decoder gets has a greater count than the frame
\* before, whatever frames were lost between them, however often frame_num
\* wrapped and with operation 5: the loop that fills gaps and the counter of
\* wraps make up for what no header says.
THEOREM TypeTwoAlwaysInOrder ==
    ASSUME MaxFrameNum > 1
    PROVE  Spec => TypeTwoInOrder
  <1>1. Init => TypeOK /\ TwoInv
    BY InitTypes, InitTwo
  <1>2. TypeOK /\ TwoInv /\ [Next]_vars => (TypeOK /\ TwoInv)'
    BY NextTypes, NextTwo
  <1> DEFINE Greater == \/ pocType # 2
                        \/ Len(coming') >= Len(coming)
                        \/ decoded = << >>
                        \/ decoded'[1].slice.idr
                        \/ decoded'[1].slice.view = "bottom"
                        \/ decoded'[1].poc > IF decoded[1].slice.reset THEN 0 ELSE decoded[1].poc
  <1>3. TypeOK /\ TwoInv /\ [Next]_vars => [Greater]_vars
    <2> SUFFICES ASSUME TypeOK, TwoInv, Next, pocType = 2 PROVE Greater
      BY DEF vars
    <2>1. ASSUME NEW idr \in BOOLEAN, NEW ref \in BOOLEAN, NEW no \in 0..LastFrame,
                 NEW structure \in Structures, NEW reset \in BOOLEAN,
                 CodeFrame(idr, ref, no, structure, reset)
          PROVE  Greater
      <3>1. Len(coming) = 0 /\ coming' \in Seq(SliceType)
        BY <2>1, NextTypes DEF CodeFrame, TypeOK
      <3> QED BY <3>1
    <2>2. ASSUME NEW ref \in BOOLEAN, NEW no \in 0..LastFrame, NEW structure \in Structures,
                 LoseFrame(ref, no, structure)
          PROVE  Greater
      BY <2>2 DEF LoseFrame, TypeOK
    <2>3. CASE FillGap
      BY <2>3 DEF FillGap, TypeOK
    <2>4. CASE DecodeTypeTwo
      <3>a. PICK s : s = coming[1]
        OBVIOUS
      <3>1. decoded'[1].slice = s /\ decoded'[1].poc = TypeTwoPoc(s)
        <4>1. coming # << >> /\ Head(coming) = s
          BY <2>4, <3>a, HeadAndTail DEF DecodeTypeTwo
        <4>2. decoded' = <<[slice |-> s, poc |-> TypeTwoPoc(s), bottom |-> TypeTwoPoc(s)]>>
          BY <2>4, <4>1 DEF DecodeTypeTwo, DecodeWith
        <4> QED BY <4>2
      <3>2. s.view # "bottom" /\ ~s.idr => TypeTwoPoc(s) > LastPoc
        BY <2>4, <3>a, DecodeFirstTwo
      <3> QED BY <3>1, <3>2 DEF LastPoc
    <2> QED BY <2>1, <2>2, <2>3, <2>4 DEF Next, Encode, Decode, DecodeTypeZero, DecodeTypeOne
  <1> QED BY <1>1, <1>2, <1>3, PTL DEF Spec, TypeTwoInOrder
=============================================================================
