-------------------------- MODULE PictureOrderCount --------------------------
(***************************************************************************)
(* Picture order counts, from the JM encoder through the slice headers to  *)
(* the JM decoder.  The encoder (lencod/src/pred_struct.c, header.c) turns *)
(* the display position of a picture into the syntax elements of one of    *)
(* three types of coding; the decoder (ldecod/src/header.c, decode_poc)    *)
(* recovers the count from them and from what it remembers of earlier      *)
(* pictures.  Neither sees the other's state: they only agree if both      *)
(* count the same wraps.                                                   *)
(*                                                                         *)
(* Pictures may be lost between the two (a stream that was thinned out),   *)
(* which the decoder notices by a gap in frame_num and fills.  Losing      *)
(* pictures and memory_management_control_operation 5 (reset) are not the  *)
(* work of lencod but of the stream's environment.                         *)
(*                                                                         *)
(* Bounds: LastFrame frames in display order, MaxGap reference frames lost *)
(* in a row.                                                               *)
(***************************************************************************)
EXTENDS Integers, Sequences

CONSTANTS
    PocTypes,           \* pic_order_cnt_type of the streams
    MaxFrameNum,        \* max_frame_num
    MaxLsb,             \* MaxPicOrderCntLsb
    OffsetForRefFrame,  \* offset_for_ref_frame[0]: the cycle of init_poc has length 1
    OffsetForNonRefPic,
    BottomOffset,       \* POC of a bottom field less its top field's: 1 if interlaced
    Structures,         \* "frame" and "fields": how frames are coded
    IdrTypes,           \* types whose streams have more than one IDR picture
    ResetTypes,         \* types whose streams use operation 5
    LossyTypes,         \* types whose streams may have lost pictures
    MaxGap,
    NumberBFrames,      \* frames shown before, and coded after, an anchor frame
    LastFrame

ASSUME PocAssumption ==
    /\ PocTypes \subseteq 0..2
    /\ MaxFrameNum \in Nat \ {0}
    /\ MaxLsb \in Nat /\ MaxLsb >= 2
    /\ MaxLsb = 2 * (MaxLsb \div 2)
    /\ {OffsetForRefFrame, OffsetForNonRefPic} \subseteq Int
    /\ BottomOffset \in {0, 1}
    /\ Structures \subseteq {"frame", "fields"}
    /\ {MaxGap, NumberBFrames, LastFrame} \subseteq Nat

VARIABLES
    pocType,
    encoder,    \* what lencod remembers between pictures
    coming,     \* the slices of the frame on its way to the decoder
    lost,       \* how many reference frames were lost since one arrived
    decoder,    \* what ldecod remembers between pictures
    prevRefPoc, \* what the encoder meant by the reference picture decoded last
    decoded     \* the slice decoded last with the counts found for it, once there is one

vars == <<pocType, encoder, coming, lost, decoder, prevRefPoc, decoded>>

None == -1
HalfLsb == MaxLsb \div 2

-----------------------------------------------------------------------------
(* The rules both programs state                                           *)

\* FrameNumOffset: counts the wraps of frame_num.
Offset(frameNum, prevFrameNum, prevOffset) ==
    IF frameNum < prevFrameNum THEN prevOffset + MaxFrameNum ELSE prevOffset

\* ExpectedPicOrderCnt of type 1, from AbsFrameNum before the correction for
\* a picture that is no reference.
Expected(absFrameNum, ref) ==
    IF ref
      THEN absFrameNum * OffsetForRefFrame
      ELSE (IF absFrameNum > 0 THEN absFrameNum - 1 ELSE 0) * OffsetForRefFrame
             + OffsetForNonRefPic

-----------------------------------------------------------------------------
(* The encoder                                                             *)

\* setup_coding_layer.
NextFrameNum ==
    IF encoder.lastRef THEN (encoder.frameNum + 1) % MaxFrameNum
                       ELSE encoder.frameNum

\* get_poc_type_zero.  frame_skip is 0.
TopPoc(idr, no) == IF idr THEN 0 ELSE 2 * (no - encoder.lastIdr)

\* get_poc_type_one, FrameNumOffset.
EncoderOffset(idr) ==
    IF idr THEN 0
           ELSE Offset(NextFrameNum, encoder.prevFrameNum, encoder.prevOffset)

\* get_poc_type_one, delta_pic_order_cnt[0].  For an IDR picture frame_num is
\* still that of the sequence before: prepare_frame_params sets it to 0 only
\* after the picture order count is known.
Delta(idr, ref, no) ==
    TopPoc(idr, no) - Expected(EncoderOffset(idr) + NextFrameNum, ref)

\* The slice headers of a frame or of its two fields, top field first.  The
\* second field of an IDR picture is none.
Slice(view, idr, ref, no, reset) ==
    LET top == TopPoc(idr, no)
        bottom == top + BottomOffset
    IN  [view |-> view,
         idr |-> idr /\ view # "bottom",
         ref |-> ref,
         reset |-> reset,
         frameNum |-> IF idr THEN 0 ELSE NextFrameNum,
         lsb |-> (IF view = "bottom" THEN bottom ELSE top) % MaxLsb,
         deltaBottom |-> BottomOffset,
         delta |-> Delta(idr, ref, no),
         poc |-> IF view = "bottom" THEN bottom ELSE top]

Slices(structure, idr, ref, no, reset) ==
    IF structure = "frame"
      THEN <<Slice("frame", idr, ref, no, reset)>>
      ELSE <<Slice("top", idr, ref, no, FALSE), Slice("bottom", idr, ref, no, FALSE)>>

\* Mutant: only the order of the frames is looked at.
TypeTwoCanInOrder(ref, no) == no > encoder.anchor

\* encode_one_frame refuses what type 2 cannot express.
TypeTwoCan(ref, no) == no > encoder.anchor /\ (ref \/ ~encoder.lastNonRef)

\* A picture is coded with type 0 if it is close enough to the reference
\* picture that arrived last: the choice of Log2MaxPOCLsbMinus4.
CloseEnough(idr, no, structure) ==
    \/ idr
    \/ \A bottom \in IF structure = "frame" THEN {0} ELSE {0, BottomOffset} :
         LET distance == TopPoc(idr, no) + bottom - prevRefPoc
         IN  -HalfLsb < distance /\ distance <= HalfLsb

\* The prediction structure: an anchor frame, then those shown before it.
IsNext(no) ==
    \/ no \in encoder.behind
    \/ /\ encoder.behind = {}
       /\ encoder.anchor < no /\ no <= encoder.anchor + 1 + NumberBFrames

MayCode(idr, ref, no, structure, reset) ==
    /\ IsNext(no)
    /\ encoder.anchor = None => idr
    /\ idr => ref /\ no > encoder.anchor /\ (encoder.anchor = None \/ pocType \in IdrTypes)
    /\ reset => /\ pocType \in ResetTypes /\ ref /\ ~idr /\ structure = "frame"
                /\ no = encoder.anchor + 1
    /\ pocType = 2 => TypeTwoCan(ref, no)

\* prepare_frame_params, the state get_poc_type_one leaves for type 1, and
\* update_idr_order_stats.  After operation 5 the frame counts as frame 0 of
\* a new sequence, in frame_num and in display order.
Remember(idr, ref, no, reset) ==
    encoder' =
        [frameNum |-> IF idr \/ reset THEN 0 ELSE NextFrameNum,
         lastRef |-> ref,
         prevFrameNum |-> IF pocType # 1 \/ reset THEN 0 ELSE NextFrameNum,
         prevOffset |-> IF pocType # 1 \/ reset THEN 0 ELSE EncoderOffset(idr),
         lastIdr |-> IF reset \/ (idr /\ no > encoder.lastIdr) THEN no ELSE encoder.lastIdr,
         anchor |-> IF no > encoder.anchor THEN no ELSE encoder.anchor,
         behind |-> IF no > encoder.anchor THEN encoder.anchor + 1 .. no - 1
                                           ELSE encoder.behind \ {no},
         lastNonRef |-> ~ref]

CodeFrame(idr, ref, no, structure, reset) ==
    /\ coming = << >>
    /\ MayCode(idr, ref, no, structure, reset)
    /\ pocType = 0 => CloseEnough(idr, no, structure)
    /\ Remember(idr, ref, no, reset)
    /\ coming' = Slices(structure, idr, ref, no, reset)
    /\ lost' = 0
    /\ UNCHANGED <<pocType, decoder, prevRefPoc, decoded>>

\* A frame that does not arrive.  frame_num must still tell how many.
LoseFrame(ref, no, structure) ==
    /\ coming = << >>
    /\ pocType \in LossyTypes
    /\ MayCode(FALSE, ref, no, structure, FALSE)
    /\ ref => lost < MaxGap /\ lost + 2 < MaxFrameNum
    /\ Remember(FALSE, ref, no, FALSE)
    /\ lost' = IF ref THEN lost + 1 ELSE lost
    /\ UNCHANGED <<pocType, coming, decoder, prevRefPoc, decoded>>

-----------------------------------------------------------------------------
(* The decoder                                                             *)

\* Mutant: frame_num is not counted modulo max_frame_num.
MissingUnwrapped == decoder.preFrameNum + 1

\* The loop of fill_frame_num_gap and the test of init_picture: a frame_num
\* between the reference picture before and this one is missing.
Missing == (decoder.preFrameNum + 1) % MaxFrameNum

IsGap ==
    /\ coming # << >>
    /\ ~Head(coming).idr
    /\ Head(coming).frameNum \notin {decoder.preFrameNum, Missing}

\* Mutant: operation 5 is forgotten.
BeforeAsDecoded == <<decoder.prevFrameNum, decoder.prevOffset>>

\* PreviousFrameNum and PreviousFrameNumOffset, which operation 5 resets.
Before ==
    IF decoder.hasReset THEN <<0, 0>>
                        ELSE <<decoder.prevFrameNum, decoder.prevOffset>>

DecoderOffset(idr, frameNum) ==
    IF idr THEN 0 ELSE Offset(frameNum, Before[1], Before[2])

\* One missing frame: types 1 and 2 count it, type 0 does not run decode_poc.
FillGap ==
    /\ IsGap
    /\ decoder' =
         [decoder EXCEPT
            !.preFrameNum = Missing,
            !.prevFrameNum = IF pocType = 0 THEN @ ELSE Missing,
            !.prevOffset = IF pocType = 0 THEN @ ELSE DecoderOffset(FALSE, Missing),
            !.hasReset = FALSE]
    /\ UNCHANGED <<pocType, encoder, coming, lost, prevRefPoc, decoded>>

\* Mutant: half a cycle ahead is taken for half a cycle behind.
MsbAfterHalf(lsb, prevMsb, prevLsb) ==
    IF prevLsb < 0 \/ (lsb < prevLsb /\ prevLsb - lsb > HalfLsb) THEN prevMsb + MaxLsb
    ELSE IF lsb > prevLsb /\ lsb - prevLsb >= HalfLsb THEN prevMsb - MaxLsb
    ELSE prevMsb

\* PicOrderCntMsb.  The comparison with a negative prevLsb is unsigned.
Msb(lsb, prevMsb, prevLsb) ==
    IF prevLsb < 0 \/ (lsb < prevLsb /\ prevLsb - lsb >= HalfLsb) THEN prevMsb + MaxLsb
    ELSE IF lsb > prevLsb /\ lsb - prevLsb > HalfLsb THEN prevMsb - MaxLsb
    ELSE prevMsb

\* Type 0: after operation 5 toppoc is read from the slice about to be
\* decoded, where some earlier picture left it.
PrevPocs(s) ==
    IF s.idr THEN {<<0, 0>>}
    ELSE IF decoder.hasReset THEN {<<0, top>> : top \in decoder.tops}
    ELSE {<<decoder.prevMsb, decoder.prevLsb>>}

\* ThisPOC of types 1 and 2.  The second field of a frame has its own offset.
TypeOnePoc(s) ==
    LET expected == Expected(DecoderOffset(s.idr, s.frameNum) + s.frameNum, s.ref)
    IN  expected + s.delta + (IF s.view = "bottom" THEN BottomOffset ELSE 0)

TypeTwoPoc(s) ==
    LET abs == DecoderOffset(s.idr, s.frameNum) + s.frameNum
    IN  IF s.idr THEN 0 ELSE IF s.ref THEN 2 * abs ELSE 2 * abs - 1

\* decode_poc, with pre_frame_num of init_picture and exit_picture.
DecodeWith(s, poc, bottom, msb, lsb) ==
    /\ decoder' =
         [prevMsb |-> msb,
          prevLsb |-> lsb,
          prevFrameNum |-> s.frameNum,
          prevOffset |-> IF pocType = 0 THEN 0 ELSE DecoderOffset(s.idr, s.frameNum),
          preFrameNum |-> IF s.reset THEN 0 ELSE IF s.ref THEN s.frameNum
                          ELSE decoder.preFrameNum,
          hasReset |-> s.reset,
          tops |-> IF 0 \in ResetTypes /\ s.view # "bottom" THEN decoder.tops \cup {poc}
                   ELSE decoder.tops]
    /\ decoded' = <<[slice |-> s, poc |-> poc, bottom |-> bottom]>>
    /\ coming' = Tail(coming)
    /\ prevRefPoc' = IF s.reset THEN 0 ELSE IF s.ref THEN s.poc ELSE prevRefPoc
    /\ UNCHANGED <<pocType, encoder, lost>>

DecodeTypeZero ==
    /\ pocType = 0 /\ coming # << >> /\ ~IsGap
    /\ LET s == Head(coming)
       IN  \E prev \in PrevPocs(s) :
             LET msb == Msb(s.lsb, prev[1], prev[2])
             IN  DecodeWith(s, msb + s.lsb, msb + s.lsb + s.deltaBottom,
                            IF s.ref THEN msb ELSE prev[1],
                            IF s.ref THEN s.lsb ELSE prev[2])

DecodeTypeOne ==
    /\ pocType = 1 /\ coming # << >> /\ ~IsGap
    /\ LET s == Head(coming)
       IN  DecodeWith(s, TypeOnePoc(s), TypeOnePoc(s) + BottomOffset, 0, 0)

DecodeTypeTwo ==
    /\ pocType = 2 /\ coming # << >> /\ ~IsGap
    /\ LET s == Head(coming)
       IN  DecodeWith(s, TypeTwoPoc(s), TypeTwoPoc(s), 0, 0)

-----------------------------------------------------------------------------
Init ==
    /\ pocType \in PocTypes
    /\ encoder = [frameNum |-> 0, lastRef |-> FALSE, prevFrameNum |-> 0,
                  prevOffset |-> 0, lastIdr |-> 0, anchor |-> None, behind |-> {}, lastNonRef |-> FALSE]
    /\ coming = << >>
    /\ lost = 0
    /\ decoder = [prevMsb |-> 0, prevLsb |-> 0, prevFrameNum |-> 0, prevOffset |-> 0,
                  preFrameNum |-> 0, hasReset |-> FALSE, tops |-> {0}]
    /\ prevRefPoc = 0
    /\ decoded = << >>

Encode ==
    \E ref \in BOOLEAN, no \in 0..LastFrame, structure \in Structures :
        \/ \E idr, reset \in BOOLEAN : CodeFrame(idr, ref, no, structure, reset)
        \/ LoseFrame(ref, no, structure)

Decode == DecodeTypeZero \/ DecodeTypeOne \/ DecodeTypeTwo

Next == Encode \/ FillGap \/ Decode

Spec == Init /\ [][Next]_vars

-----------------------------------------------------------------------------
(* Properties                                                              *)

SliceType ==
    [view : {"frame", "top", "bottom"}, idr : BOOLEAN, ref : BOOLEAN, reset : BOOLEAN,
     frameNum : 0..MaxFrameNum - 1, lsb : 0..MaxLsb - 1, deltaBottom : {0, 1},
     delta : Int, poc : Int]

\* A frame comes as one slice or as two fields, top field first; frame
\* numbers and low bits stay in the width of their syntax elements, in the
\* headers and in what either side remembers.
TypeOK ==
    /\ pocType \in PocTypes
    /\ encoder \in [frameNum : 0..MaxFrameNum - 1, lastRef : BOOLEAN,
                   prevFrameNum : 0..MaxFrameNum - 1, prevOffset : Nat,
                   lastIdr : Nat, anchor : Nat \cup {None}, behind : SUBSET Nat,
                   lastNonRef : BOOLEAN]
    /\ coming \in Seq(SliceType) /\ Len(coming) <= 2
    /\ Len(coming) = 2 => coming[1].view = "top" /\ coming[2].view = "bottom"
    /\ lost \in Nat
    /\ decoder \in [prevMsb : Int, prevLsb : Int, prevFrameNum : 0..MaxFrameNum - 1,
                   prevOffset : Nat, preFrameNum : 0..MaxFrameNum - 1,
                   hasReset : BOOLEAN, tops : SUBSET Int]
    /\ prevRefPoc \in Int
    /\ decoded \in Seq([slice : SliceType, poc : Int, bottom : Int]) /\ Len(decoded) <= 1

\* The decoder finds the counts the encoder meant.
AsCoded ==
    decoded # << >> =>
        LET d == decoded[1]
        IN  /\ d.poc = d.slice.poc
            /\ d.slice.view = "frame" => d.bottom = d.slice.poc + BottomOffset

\* Counts of type 0, of which only the low bits are sent, come out as the
\* encoder counted them (decode_poc guesses the rest from the reference
\* picture before), whatever was lost and however often the low bits wrapped.
TypeZeroAsCoded == pocType = 0 => AsCoded

\* Counts of type 1, sent as a difference to what a decoder expects, come out
\* as the encoder counted them: get_poc_type_one and decode_poc expect the
\* same, though one sees every frame and the other only those that arrive.
TypeOneAsCoded == pocType = 1 => AsCoded

\* Counts of type 2, of which nothing is sent, put the frames of a sequence
\* in the order they were coded in, which encode_one_frame makes sure is
\* the order of display; a frame counts as 0 after operation 5.
TypeTwoInOrder ==
    [][\/ pocType # 2
       \/ Len(coming') >= Len(coming)
       \/ decoded = << >>
       \/ decoded'[1].slice.idr
       \/ decoded'[1].slice.view = "bottom"
       \/ decoded'[1].poc > IF decoded[1].slice.reset THEN 0 ELSE decoded[1].poc]_vars

=============================================================================
