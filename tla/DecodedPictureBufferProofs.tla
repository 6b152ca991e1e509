--------------------- MODULE DecodedPictureBufferProofs ---------------------
(***************************************************************************)
(* Proofs about DecodedPictureBuffer: for every size of the buffer, every   *)
(* number of reference frames and every stream, the buffer keeps its size,  *)
(* its lists point into it, and the marks of a store and of the pictures in *)
(* it agree.  For every stream of frames also: no two of them have the same *)
(* long-term index, and the sliding window takes the oldest; in a buffer    *)
(* with room for the references and for the reordering of the stream, the   *)
(* decoder gives up only if the control operations leave too many           *)
(* references, and it implements DisplayOrder.  And for streams of fields:  *)
(* what is paired is a first field and its second.                          *)
(***************************************************************************)
EXTENDS DecodedPictureBuffer, TLAPS, FiniteSetTheorems, SequenceTheorems

\* A store's marks agree and none is on a field that is not there.
GoodStore(s) ==
    /\ s \in StoreType
    /\ StoreMarksAgree(s)
    /\ s.lt \subseteq s.used
    /\ s.ltPics \ {"frame"} \subseteq s.used

GoodStores(stores) ==
    /\ stores \in Seq(StoreType)
    /\ \A i \in 1..Len(stores) : GoodStore(stores[i])

BufferOK ==
    /\ GoodStores(fs) /\ Len(fs) <= DpbSize
    /\ shortRefs \subseteq Positions /\ longRefs \subseteq Positions
    /\ lastPicture \in Positions \cup {0}

OutputOK ==
    /\ lastOutputPoc \in Nat \cup {None} /\ shown \in Nat \cup {None}
    /\ outBuffer \subseteq Parities

StreamOK ==
    /\ preFrameNum \in 0..(MaxFrameNum - 1)
    /\ {upcoming, first} \subseteq PictureType
    /\ sent \subseteq Nat /\ IsFiniteSet(sent) /\ pictures \in Nat
    /\ upcoming = NoPicture \/ upcoming.structure \in Views

\* The phases in which there is a picture to store.
HasPicture == {"idr", "marking", "placing", "room", "bumping"}

ControlOK ==
    /\ maxLongTermPicIdx \in Nat \cup {-1}
    /\ pc \in Phases
    /\ cur \in PictureType
    /\ cur = NoPicture \/ cur.structure \in Views
    /\ pc \in HasPicture => cur.structure \in Views
    /\ pc = "gap" => upcoming.structure \in Views
    /\ marked \in [1..6 -> Nat]

IInv == BufferOK /\ OutputOK /\ StreamOK /\ ControlOK

-----------------------------------------------------------------------------
(* Operations on a store                                                   *)

LEMMA UnmarkForReferenceGood ==
    ASSUME NEW s, GoodStore(s)
    PROVE  GoodStore(UnmarkForReference(s))
BY DEF GoodStore, UnmarkForReference, StoreMarksAgree, StoreType, Parities, Views

LEMMA UnmarkForLongTermGood ==
    ASSUME NEW s, GoodStore(s)
    PROVE  GoodStore(UnmarkForLongTerm(s))
BY DEF GoodStore, UnmarkForLongTerm, UnmarkForReference, StoreMarksAgree, StoreType, Parities, Views

LEMMA WrittenGood ==
    ASSUME NEW s, GoodStore(s)
    PROVE  GoodStore(Written(s))
BY DEF GoodStore, Written, StoreMarksAgree, StoreType, Parities, Views

LEMMA UnmarkGood ==
    ASSUME NEW s, GoodStore(s), NEW view \in Views, NEW long \in BOOLEAN
    PROVE  GoodStore(Unmark(s, view, long))
<1>1. CASE view = "frame"
  BY <1>1, UnmarkForReferenceGood, UnmarkForLongTermGood DEF Unmark
<1>2. CASE view \in Parities
  BY ZenonT(60), <1>2 DEF Unmark, GoodStore, StoreMarksAgree, StoreType, Parities, Views
<1> QED  BY <1>1, <1>2 DEF Views

LEMMA MarkLongGood ==
    ASSUME NEW s, GoodStore(s), NEW view \in Views, NEW idx \in Nat,
           Fields(view) \subseteq s.used
    PROVE  GoodStore(MarkLong(s, view, idx))
<1> DEFINE t == MarkLong(s, view, idx)
<1>1. CASE view = "frame"
  <2>1. s.used = Parities /\ t.lt = Parities /\ t.ltPics = Views
    BY <1>1 DEF MarkLong, GoodStore, StoreMarksAgree, StoreType, Fields, Views, Parities
  <2> QED  BY <2>1 DEF MarkLong, GoodStore, StoreMarksAgree, StoreType, Views, Parities
<1>2. CASE view \in Parities
  <2>1. /\ t.lt = s.lt \cup {view}
        /\ t.ltPics = s.ltPics \cup {view} \cup (IF t.lt = Parities THEN {"frame"} ELSE {})
        /\ t = [s EXCEPT !.lt = t.lt, !.ltIdx = idx, !.ltPics = t.ltPics]
    BY <1>2 DEF MarkLong, GoodStore, StoreType, Fields, Parities
  <2>2. t \in StoreType
    BY SMTT(30), ZenonT(60), <2>1, <1>2 DEF GoodStore, StoreType, Views, Parities
  <2>3. StoreMarksAgree(t)
    <3>1. t.ref = s.ref /\ t.used = s.used /\ t.refPics = s.refPics
      BY <2>1 DEF GoodStore, StoreType
    <3>2. view # "frame" /\ view \in Parities
      BY <1>2 DEF Fields, Parities
    <3>3. s.ref \subseteq Parities /\ s.lt \subseteq Parities
      BY DEF GoodStore, StoreType
    <3>4. t.ref \cap t.lt = t.ref \cap t.ltPics
      BY <2>1, <3>1, <3>2, <3>3 DEF GoodStore, StoreMarksAgree, Parities
    <3>5. "frame" \in t.refPics => ("frame" \in t.ltPics <=> Parities \subseteq t.lt)
      <4>1. t.lt = Parities <=> Parities \subseteq t.lt
        BY <2>1, <3>2, <3>3
      <4>2. "frame" \in s.refPics /\ "frame" \in s.ltPics => Parities \subseteq t.lt
        BY <2>1 DEF GoodStore, StoreMarksAgree
      <4> QED  BY <2>1, <3>1, <3>2, <4>1, <4>2
    <3> QED  BY <3>1, <3>4, <3>5 DEF GoodStore, StoreMarksAgree
  <2>4. t.used = s.used /\ view \in s.used
    BY <2>1, <1>2 DEF GoodStore, StoreType, StoreMarksAgree, Fields, Parities
  <2>5. t.lt \subseteq t.used /\ t.ltPics \ {"frame"} \subseteq t.used
    BY <2>1, <2>4 DEF GoodStore
  <2> HIDE DEF t
  <2>6. GoodStore(t)
    BY <2>2, <2>3, <2>5 DEF GoodStore
  <2> QED  BY <2>6 DEF t
<1> QED  BY <1>1, <1>2 DEF Views

(* A frame that comes into an empty store, or a field into an empty one or  *)
(* one that holds the other field.                                          *)
LEMMA InsertGood ==
    ASSUME NEW s, GoodStore(s), NEW p \in PictureType, p.structure \in Views,
           s.used \cap Fields(p.structure) = {}
    PROVE  GoodStore(Insert(s, p))
<1> DEFINE t == Insert(s, p)
           fields == Fields(p.structure)
           refPics == s.refPics \cup (IF p.ref THEN fields ELSE {})
           ltPics == s.ltPics \cup (IF p.long THEN fields ELSE {})
<1>1. /\ t.used = s.used \cup fields
      /\ t.ref = s.ref \cup (IF p.ref THEN fields ELSE {})
      /\ t.lt = s.lt \cup (IF p.ref /\ p.long THEN fields ELSE {})
      /\ t.refPics = IF t.used = Parities THEN Combined(refPics) ELSE refPics
      /\ t.ltPics = IF t.used = Parities THEN Combined(ltPics) ELSE ltPics
  BY DEF Insert
<1>2. fields \subseteq Parities
  BY DEF Fields, Parities, Views
<1>3. /\ s \in StoreType /\ StoreMarksAgree(s)
      /\ s.lt \subseteq s.used /\ s.ltPics \ {"frame"} \subseteq s.used
  BY DEF GoodStore
<1>4. t \in StoreType
  <2>1. /\ t.used \in SUBSET Parities /\ t.ref \in SUBSET Parities /\ t.lt \in SUBSET Parities
        /\ refPics \in SUBSET Views /\ ltPics \in SUBSET Views
    BY <1>1, <1>2, <1>3 DEF StoreType, Views
  <2>2. t.refPics \in SUBSET Views /\ t.ltPics \in SUBSET Views
    BY <1>1, <2>1 DEF Combined, Views
  <2>3. /\ p.ref \in BOOLEAN /\ p.ltIdx \in Nat /\ p.frameNum \in 0..(MaxFrameNum - 1)
        /\ p.poc \in Nat /\ p.exists \in BOOLEAN
    BY DEF PictureType
  <2>4. /\ s.orig \in BOOLEAN /\ s.ltIdx \in Nat /\ s.poc \in Nat /\ s.firstPoc \in Nat
    BY <1>3 DEF StoreType
  <2>5. /\ (s.orig \/ p.ref) \in BOOLEAN /\ (~p.exists) \in BOOLEAN
        /\ (IF p.ref /\ p.long THEN p.ltIdx ELSE s.ltIdx) \in Nat
        /\ (IF s.used # {} /\ s.poc < p.poc THEN s.poc ELSE p.poc) \in Nat
        /\ (IF s.used # {} THEN s.firstPoc ELSE p.poc) \in Nat
    BY <2>3, <2>4
  <2> QED BY <2>1, <2>2, <2>3, <2>5 DEF Insert, StoreType
<1> HIDE DEF t
<1>5. StoreMarksAgree(t)
  BY <1>1, <1>2, <1>3 DEF Combined, StoreMarksAgree, StoreType, Parities, Views
<1>6. t.lt \subseteq t.used /\ t.ltPics \ {"frame"} \subseteq t.used
  BY <1>1, <1>2, <1>3 DEF Combined, Parities
<1> QED BY <1>4, <1>5, <1>6 DEF GoodStore, t

LEMMA EmptyStoreGood == GoodStore(EmptyStore)
BY DpbAssumption DEF EmptyStore, GoodStore, StoreMarksAgree, StoreType, Parities, Views

-----------------------------------------------------------------------------
(* The buffer as a sequence of stores                                      *)

(* A sequence written as a function of its positions.                      *)
LEMMA SeqOfFunction ==
    ASSUME NEW S, NEW n \in Nat, NEW f \in [1..n -> S]
    PROVE  f \in Seq(S) /\ Len(f) = n
OBVIOUS

(* Stores of which each is a good store make a good buffer.                *)
LEMMA GoodStoresFrom ==
    ASSUME NEW n \in Nat, NEW f, f = [i \in 1..n |-> f[i]],
           \A i \in 1..n : GoodStore(f[i])
    PROVE  GoodStores(f) /\ Len(f) = n
<1>1. f \in [1..n -> StoreType]
  BY DEF GoodStore
<1> QED  BY <1>1, SeqOfFunction DEF GoodStores

(* One store is replaced.                                                  *)
LEMMA ReplaceGood ==
    ASSUME NEW stores, GoodStores(stores), NEW i \in 1..Len(stores),
           NEW s, GoodStore(s)
    PROVE  /\ GoodStores([stores EXCEPT ![i] = s])
           /\ Len([stores EXCEPT ![i] = s]) = Len(stores)
<1> DEFINE f == [stores EXCEPT ![i] = s]
<1>1. Len(stores) \in Nat /\ stores = [j \in 1..Len(stores) |-> stores[j]]
  BY DEF GoodStores
<1>2. f = [j \in 1..Len(stores) |-> f[j]]
  BY <1>1
<1>3. \A j \in 1..Len(stores) : GoodStore(f[j])
  BY <1>1 DEF GoodStores
<1> HIDE DEF f
<1>4. GoodStores(f) /\ Len(f) = Len(stores)
  BY <1>1, <1>2, <1>3, GoodStoresFrom
<1> QED  BY <1>4 DEF f

LEMMA RemoveGood ==
    ASSUME NEW stores, GoodStores(stores), NEW pos \in 1..Len(stores),
           shortRefs \subseteq 1..Len(stores), longRefs \subseteq 1..Len(stores),
           lastPicture \in 1..Len(stores) \cup {0}, Len(stores) <= DpbSize,
           RemoveFrame(stores, pos)
    PROVE  BufferOK'
<1> DEFINE n == Len(stores) - 1
<1>1. n \in Nat /\ n <= DpbSize
  BY DpbAssumption DEF GoodStores
<1>2. fs' = [i \in 1..n |-> fs'[i]] /\ \A i \in 1..n : GoodStore(fs'[i])
  <2>1. fs' = [i \in 1..n |-> IF i < pos THEN stores[i] ELSE stores[i + 1]]
    BY DEF RemoveFrame
  <2>2. \A i \in 1..n : i \in 1..Len(stores) /\ i + 1 \in 1..Len(stores)
    BY <1>1
  <2> HIDE DEF n
  <2> QED  BY <2>1, <2>2 DEF GoodStores
<1>3. \A i \in 1..Len(stores) : i # pos => Shifted(i, pos) \in 1..n
  BY <1>1 DEF Shifted
<1>4. shortRefs' \subseteq 1..n /\ longRefs' \subseteq 1..n
  BY <1>3 DEF RemoveFrame
<1>5. lastPicture' \in 1..n \cup {0}
  <2>1. CASE lastPicture = 0
    BY <2>1, <1>1 DEF RemoveFrame, Shifted
  <2>2. CASE lastPicture \in 1..Len(stores)
    BY <2>2, <1>3 DEF RemoveFrame
  <2> QED  BY <2>1, <2>2
<1> HIDE DEF n
<1>6. GoodStores(fs') /\ Len(fs') = n
  BY <1>1, <1>2, GoodStoresFrom
<1> QED  BY <1>1, <1>4, <1>5, <1>6 DEF BufferOK, Positions, GoodStores, GoodStore, StoreMarksAgree

-----------------------------------------------------------------------------
(* The initial state and the arrival of a picture                          *)

LEMMA NoPictureType == NoPicture \in PictureType
BY DpbAssumption DEF NoPicture, PictureType, Views, Parities

LEMMA InitIInv == Init => IInv
<1> SUFFICES ASSUME Init PROVE IInv
  OBVIOUS
<1> USE DEF Init
<1>1. BufferOK
  BY DpbAssumption DEF BufferOK, GoodStores, Positions
<1>2. OutputOK
  BY DEF OutputOK
<1>3. StreamOK
  BY NoPictureType, DpbAssumption, FS_EmptySet DEF StreamOK
<1>4. ControlOK
  BY NoPictureType DEF ControlOK, NoPicture, NoMarks, Phases, HasPicture
<1> QED  BY <1>1, <1>2, <1>3, <1>4 DEF IInv

(* frame_num stays below MaxFrameNum.                                      *)
LEMMA FrameNumInRange ==
    ASSUME StreamOK, NEW n \in Nat
    PROVE  FrameNumAfter(n) \in 0..(MaxFrameNum - 1)
BY DpbAssumption DEF StreamOK, FrameNumAfter

(* Storing a picture's parameters starts the storing of the picture.       *)
LEMMA BeginKeeps ==
    ASSUME IInv, NEW p \in PictureType, p.structure \in Views, Begin(p),
           UNCHANGED <<dpb, maxLongTermPicIdx, output, marked>>,
           sent' \subseteq Nat, IsFiniteSet(sent'), pictures' \in Nat,
           first' \in PictureType
    PROVE  IInv'
<1>1. BufferOK' /\ OutputOK'
  BY DEF IInv, BufferOK, OutputOK, GoodStores, GoodStore, StoreMarksAgree, Positions, dpb, output
<1>2. StreamOK'
  BY NoPictureType DEF IInv, StreamOK, Begin, PictureType
<1>3. ControlOK'
  <2>1. pc' \in {"idr", "marking", "placing"}
    BY DEF Begin, FirstStep
  <2> QED  BY <2>1 DEF IInv, ControlOK, Begin, Phases, HasPicture
<1> QED  BY <1>1, <1>2, <1>3 DEF IInv

LEMMA DecodeKeeps ==
    ASSUME IInv, NEW p \in PictureType, p.structure \in Views, Decode(p)
    PROVE  IInv'
<1>1. sent' \subseteq Nat /\ IsFiniteSet(sent')
  <2>1. IsFiniteSet(sent \cup {p.poc}) /\ IsFiniteSet({0})
    BY FS_AddElement, FS_Singleton DEF IInv, StreamOK
  <2>2. p.poc \in Nat
    BY DEF PictureType
  <2>3. sent' = {0} \/ sent' = sent \/ sent' = sent \cup {p.poc}
    BY DEF Decode
  <2>4. sent \subseteq Nat /\ IsFiniteSet(sent)
    BY DEF IInv, StreamOK
  <2>5. CASE sent' = {0}
    BY <2>1, <2>5
  <2>6. CASE sent' = sent
    BY <2>4, <2>6
  <2>7. CASE sent' = sent \cup {p.poc}
    BY <2>1, <2>2, <2>4, <2>7
  <2> QED  BY <2>3, <2>5, <2>6, <2>7
<1>2. pictures' \in Nat /\ first' \in PictureType
  BY NoPictureType DEF Decode, IInv, StreamOK
<1>3. CASE ~p.idr /\ IsGap(p)
  <2>1. BufferOK' /\ OutputOK'
    BY DEF IInv, BufferOK, OutputOK, GoodStores, GoodStore, StoreMarksAgree, Positions,
           dpb, output, Decode
  <2>2. upcoming' = p /\ pc' = "gap" /\ UNCHANGED <<cur, preFrameNum, maxLongTermPicIdx, marked>>
    BY <1>3 DEF Decode
  <2>3. StreamOK'
    BY <1>1, <1>2, <2>2 DEF IInv, StreamOK
  <2>4. ControlOK'
    BY <2>2 DEF IInv, ControlOK, Phases, HasPicture
  <2> QED  BY <2>1, <2>3, <2>4 DEF IInv
<1>4. CASE ~(~p.idr /\ IsGap(p))
  <2>1. Begin(p) /\ UNCHANGED <<dpb, maxLongTermPicIdx, output, marked>>
    BY <1>4 DEF Decode
  <2> QED  BY <2>1, <1>1, <1>2, BeginKeeps
<1> QED  BY <1>3, <1>4

(* Every picture the environment sends is one.                             *)
LEMMA DecodeNextKeeps == IInv /\ DecodeNext => IInv'
<1> SUFFICES ASSUME IInv, NEW structure \in Structures, NEW a \in BOOLEAN, NEW b \in BOOLEAN,
                    \/ Decode(IdrPicture(structure, a, b))
                    \/ \E gap \in 0..MaxGap, i \in 0..(Cardinality(sent) + ReorderDepth) :
                          Decode(OtherPicture(structure, a, b, FrameNumAfter(1 + gap), 2 * i))
                    \/ Decode(OtherPicture(structure, a, b, first.frameNum, first.poc + 1))
             PROVE  IInv'
  BY DEF DecodeNext
<1>1. structure \in Views
  BY DpbAssumption
<1>2. CASE Decode(IdrPicture(structure, a, b))
  <2>1. IdrPicture(structure, a, b) \in PictureType
    BY <1>1, NoPictureType DEF IdrPicture, PictureType
  <2>2. IdrPicture(structure, a, b).structure = structure
    BY DEF IdrPicture, NoPicture
  <2> QED  BY <1>1, <1>2, <2>1, <2>2, DecodeKeeps
<1>3. ASSUME NEW n \in 0..(MaxFrameNum - 1), NEW poc \in Nat
      PROVE  /\ OtherPicture(structure, a, b, n, poc) \in PictureType
             /\ OtherPicture(structure, a, b, n, poc).structure = structure
  BY <1>1 DEF OtherPicture, NoPicture, PictureType
<1>4. ASSUME NEW gap \in 0..MaxGap, NEW i \in 0..(Cardinality(sent) + ReorderDepth),
             Decode(OtherPicture(structure, a, b, FrameNumAfter(1 + gap), 2 * i))
      PROVE  IInv'
  <2>1. FrameNumAfter(1 + gap) \in 0..(MaxFrameNum - 1)
    BY DpbAssumption, FrameNumInRange DEF IInv
  <2>2. 2 * i \in Nat
    BY FS_CardinalityType, DpbAssumption DEF IInv, StreamOK
  <2> QED  BY <1>1, <1>3, <1>4, <2>1, <2>2, DecodeKeeps
<1>5. CASE Decode(OtherPicture(structure, a, b, first.frameNum, first.poc + 1))
  <2>1. first.frameNum \in 0..(MaxFrameNum - 1) /\ first.poc + 1 \in Nat
    BY DEF IInv, StreamOK, PictureType
  <2> QED  BY <1>1, <1>3, <1>5, <2>1, DecodeKeeps
<1> QED  BY <1>2, <1>4, <1>5

-----------------------------------------------------------------------------
(* What a step leaves alone                                                *)

LEMMA SameBuffer == BufferOK /\ UNCHANGED dpb => BufferOK'
BY DEF BufferOK, GoodStores, GoodStore, StoreMarksAgree, Positions, dpb

LEMMA SameOutput == OutputOK /\ UNCHANGED output => OutputOK'
BY DEF OutputOK, output

LEMMA SameStream == StreamOK /\ UNCHANGED stream => StreamOK'
BY DEF StreamOK, stream

LEMMA SameControl ==
    ControlOK /\ UNCHANGED <<maxLongTermPicIdx, cur, marked, pc, upcoming>> => ControlOK'
BY DEF ControlOK

(* The phase goes on or ends.                                              *)
LEMMA NextPhase ==
    ASSUME ControlOK, UNCHANGED <<maxLongTermPicIdx, cur, marked>>,
           pc' \in Phases \ {"gap"},
           pc' \in HasPicture => pc \in HasPicture \/ cur # NoPicture
    PROVE  ControlOK'
BY DEF ControlOK

LEMMA FinishKeeps ==
    ASSUME StreamOK, ControlOK, Finish, UNCHANGED maxLongTermPicIdx
    PROVE  StreamOK' /\ ControlOK'
<1>1. StreamOK'
  BY NoPictureType, DpbAssumption DEF StreamOK, ControlOK, Finish
<1>2. pc' = IF upcoming = NoPicture THEN "ready" ELSE "gap"
  BY DEF Finish
<1>3. NoMarks \in [1..6 -> Nat]
  BY DEF NoMarks
<1>4. ControlOK'
  BY <1>2, <1>3, NoPictureType DEF StreamOK, ControlOK, Finish, Phases, HasPicture
<1> QED  BY <1>1, <1>4

-----------------------------------------------------------------------------
(* Gaps, and the end of the stream                                         *)

LEMMA FillGapKeeps == IInv /\ (\E poc \in StalePocs : FillGap(poc)) => IInv'
<1> SUFFICES ASSUME IInv, NEW poc \in StalePocs, FillGap(poc) PROVE IInv'
  OBVIOUS
<1>1. BufferOK' /\ OutputOK'
  BY SameBuffer, SameOutput DEF IInv, FillGap
<1>2. FrameNumAfter(1) \in 0..(MaxFrameNum - 1)
  BY FrameNumInRange DEF IInv
<1>3. cur' \in PictureType /\ cur'.structure = "frame"
  <2>1. poc \in Nat
    BY DpbAssumption
  <2> QED  BY <1>2, <2>1, NoPictureType DEF FillGap, PictureType, Views, NoPicture
<1>4. StreamOK'
  BY <1>2 DEF IInv, StreamOK, FillGap
<1>5. ControlOK'
  BY <1>3 DEF IInv, ControlOK, FillGap, Phases, HasPicture, Views
<1> QED  BY <1>1, <1>4, <1>5 DEF IInv

LEMMA AfterGapKeeps == IInv /\ AfterGap => IInv'
<1> SUFFICES ASSUME IInv, AfterGap PROVE IInv'
  OBVIOUS
<1>1. upcoming \in PictureType /\ upcoming.structure \in Views
  BY DEF IInv, StreamOK, ControlOK, AfterGap
<1> QED  BY <1>1, BeginKeeps DEF IInv, StreamOK, AfterGap

LEMMA EndStreamKeeps == IInv /\ EndStream => IInv'
<1> SUFFICES ASSUME IInv, EndStream PROVE IInv'
  OBVIOUS
<1>1. BufferOK' /\ OutputOK' /\ StreamOK'
  BY SameBuffer, SameOutput, SameStream DEF IInv, EndStream
<1>2. ControlOK'
  BY NextPhase DEF IInv, EndStream, Phases, HasPicture
<1> QED  BY <1>1, <1>2 DEF IInv

-----------------------------------------------------------------------------
(* Flushing                                                                *)

LEMMA IdrMarkingKeeps ==
    ASSUME ControlOK, OutputOK, cur.structure \in Views, IdrMarking,
           UNCHANGED <<outBuffer, stream, marked>>
    PROVE  OutputOK' /\ ControlOK' /\ shortRefs' = {} /\ longRefs' = {} /\ lastPicture' = 0
<1>1. cur' \in PictureType /\ cur'.structure = cur.structure
  BY DEF IdrMarking, ControlOK, PictureType
<1> QED  BY <1>1 DEF IdrMarking, ControlOK, OutputOK, Phases, HasPicture, stream

LEMMA IdrDiscardKeeps == IInv /\ IdrDiscard => IInv'
<1> SUFFICES ASSUME IInv, IdrDiscard PROVE IInv'
  OBVIOUS
<1>1. cur.structure \in Views
  BY DEF IInv, ControlOK, IdrDiscard, HasPicture
<1>2. OutputOK' /\ ControlOK' /\ shortRefs' = {} /\ longRefs' = {} /\ lastPicture' = 0
  BY <1>1, IdrMarkingKeeps DEF IInv, IdrDiscard
<1>3. BufferOK'
  BY <1>2, DpbAssumption DEF BufferOK, GoodStores, Positions, IdrDiscard
<1>4. StreamOK'
  BY SameStream DEF IInv, IdrDiscard
<1> QED  BY <1>2, <1>3, <1>4 DEF IInv

LEMMA StartFlushKeeps == IInv /\ StartFlush => IInv'
<1> SUFFICES ASSUME IInv, StartFlush PROVE IInv'
  OBVIOUS
<1>1. OutputOK' /\ StreamOK'
  BY SameOutput, SameStream DEF IInv, StartFlush
<1>2. ControlOK'
  BY NextPhase DEF IInv, StartFlush, Phases, HasPicture
<1>3. GoodStores(fs') /\ Len(fs') = Len(fs)
  <2>1. Len(fs) \in Nat
    BY DEF IInv, BufferOK, GoodStores
  <2>2. fs' = [i \in 1..Len(fs) |-> UnmarkForReference(fs[i])]
    BY DEF StartFlush, AllUnmarked
  <2>3. fs' = [i \in 1..Len(fs) |-> fs'[i]] /\ \A i \in 1..Len(fs) : GoodStore(fs'[i])
    BY <2>2, UnmarkForReferenceGood DEF IInv, BufferOK, GoodStores
  <2> QED  BY <2>1, <2>3, GoodStoresFrom
<1>4. BufferOK'
  BY <1>3 DEF IInv, BufferOK, Positions, StartFlush, GoodStores, GoodStore, StoreMarksAgree
<1> QED  BY <1>1, <1>2, <1>4 DEF IInv

LEMMA RemoveUnusedKeeps ==
    ASSUME BufferOK, RemoveUnusedFrame
    PROVE  BufferOK'
<1>1. PICK pos \in 1..Len(fs) : RemoveFrame(fs, pos)
  BY DEF RemoveUnusedFrame
<1> QED  BY <1>1, RemoveGood DEF BufferOK, Positions

LEMMA OutputKeeps ==
    ASSUME BufferOK, OutputOK, NEW pos \in Waiting, OutputOneFrame(pos)
    PROVE  /\ BufferOK' /\ OutputOK'
           /\ pc' = pc \/ pc' = "failed"
<1> DEFINE s == Written(fs[pos])
           stores == [fs EXCEPT ![pos] = s]
<1>1. pos \in 1..Len(fs) /\ GoodStore(fs[pos]) /\ GoodStore(s)
  BY WrittenGood DEF Waiting, BufferOK, GoodStores
<1>2. GoodStores(stores) /\ Len(stores) = Len(fs)
  BY <1>1, ReplaceGood DEF BufferOK
<1>3. fs[pos].poc \in Nat
  BY <1>1 DEF GoodStore, StoreType
<1>4. OutputOK'
  BY <1>3 DEF OutputOneFrame, OutputOK
<1>5. BufferOK'
  <2>1. CASE fs' = stores /\ UNCHANGED <<shortRefs, longRefs, lastPicture>>
    <3> HIDE DEF stores
    <3>1. GoodStores(fs') /\ Len(fs') = Len(fs)
      BY <2>1, <1>2
    <3> QED  BY <2>1, <3>1
             DEF BufferOK, Positions, GoodStores, GoodStore, StoreMarksAgree
  <2>2. CASE RemoveFrame(stores, pos)
    <3> HIDE DEF stores
    <3> QED  BY <2>2, <1>1, <1>2, RemoveGood DEF BufferOK, Positions
  <2> QED  BY <2>1, <2>2 DEF OutputOneFrame
<1>6. pc' = pc \/ pc' = "failed"
  BY DEF OutputOneFrame
<1> QED  BY <1>4, <1>5, <1>6

LEMMA FlushUnusedKeeps == IInv /\ FlushUnused => IInv'
<1> SUFFICES ASSUME IInv, FlushUnused PROVE IInv'
  OBVIOUS
<1>1. OutputOK' /\ StreamOK'
  BY SameOutput, SameStream DEF IInv, FlushUnused
<1>2. ControlOK'
  BY NextPhase DEF IInv, FlushUnused, Phases, HasPicture
<1>3. BufferOK'
  BY RemoveUnusedKeeps, SameBuffer DEF IInv, FlushUnused
<1> QED  BY <1>1, <1>2, <1>3 DEF IInv

LEMMA FlushOutputKeeps == IInv /\ FlushOutput => IInv'
<1> SUFFICES ASSUME IInv, FlushOutput PROVE IInv'
  OBVIOUS
<1>1. BufferOK' /\ OutputOK' /\ (pc' = pc \/ pc' = "failed")
  BY OutputKeeps DEF IInv, FlushOutput
<1>2. StreamOK'
  BY SameStream DEF IInv, FlushOutput
<1>3. ControlOK'
  BY <1>1, NextPhase DEF IInv, FlushOutput, Phases, HasPicture
<1> QED  BY <1>1, <1>2, <1>3 DEF IInv

LEMMA FlushEndKeeps == IInv /\ FlushEnd => IInv'
<1> SUFFICES ASSUME IInv, FlushEnd PROVE IInv'
  OBVIOUS
<1>1. StreamOK'
  BY SameStream DEF IInv, FlushEnd
<1>2. CASE cur.idr
  <2>1. cur.structure \in Views
    BY <1>2 DEF IInv, ControlOK, NoPicture
  <2>2. OutputOK' /\ ControlOK' /\ shortRefs' = {} /\ longRefs' = {} /\ lastPicture' = 0
    BY <1>2, <2>1, IdrMarkingKeeps DEF IInv, FlushEnd
  <2>3. BufferOK'
    BY <1>2, <2>2 DEF IInv, BufferOK, GoodStores, GoodStore, StoreMarksAgree, Positions, FlushEnd
  <2> QED  BY <1>1, <2>2, <2>3 DEF IInv
<1>3. CASE ~cur.idr
  <2>1. BufferOK'
    BY <1>3, SameBuffer DEF IInv, FlushEnd
  <2>2. OutputOK'
    BY <1>3 DEF IInv, OutputOK, FlushEnd
  <2>3. ControlOK'
    BY <1>3, NextPhase DEF IInv, FlushEnd, Phases, HasPicture
  <2> QED  BY <1>1, <2>1, <2>2, <2>3 DEF IInv
<1> QED  BY <1>2, <1>3

-----------------------------------------------------------------------------
(* Memory management control operations                                    *)

LEMMA OperationKeeps ==
    ASSUME IInv, NEW op \in 1..6, Operation(op)
    PROVE  /\ OutputOK' /\ StreamOK'
           /\ marked' \in [1..6 -> Nat] /\ pc = "marking" /\ cur.structure \in Views
           /\ lastPicture' = lastPicture /\ upcoming' = upcoming
<1>1. OutputOK' /\ StreamOK' /\ upcoming' = upcoming
  BY SameOutput, SameStream DEF IInv, Operation, stream
<1>2. marked' \in [1..6 -> Nat] /\ pc = "marking" /\ cur.structure \in Views
  BY DEF IInv, ControlOK, Operation, HasPicture
<1> QED  BY <1>1, <1>2 DEF Operation

(* The operations leave as many stores, each of them good.                 *)
LEMMA SameLengthGood ==
    ASSUME BufferOK, GoodStores(fs'), Len(fs') = Len(fs), lastPicture' = lastPicture,
           shortRefs' \subseteq 1..Len(fs), longRefs' \subseteq 1..Len(fs)
    PROVE  BufferOK'
BY DEF BufferOK, Positions, GoodStores, GoodStore, StoreMarksAgree

LEMMA ListsInRange ==
    ASSUME NEW stores
    PROVE  ShortRefsOf(stores) \subseteq 1..Len(stores) /\ LongRefsOf(stores) \subseteq 1..Len(stores)
BY DEF ShortRefsOf, LongRefsOf

LEMMA UnmarkedLongGood ==
    ASSUME NEW stores, GoodStores(stores), NEW positions
    PROVE  /\ GoodStores(UnmarkedLong(stores, positions))
           /\ Len(UnmarkedLong(stores, positions)) = Len(stores)
           /\ \A i \in 1..Len(stores) : UnmarkedLong(stores, positions)[i].used = stores[i].used
<1> DEFINE f == UnmarkedLong(stores, positions)
<1>1. Len(stores) \in Nat /\ \A i \in 1..Len(stores) : GoodStore(stores[i])
  BY DEF GoodStores
<1>2. f = [i \in 1..Len(stores) |->
             IF i \in positions THEN UnmarkForLongTerm(stores[i]) ELSE stores[i]]
  BY DEF UnmarkedLong
<1>3. f = [i \in 1..Len(stores) |-> f[i]] /\ \A i \in 1..Len(stores) : GoodStore(f[i])
  BY <1>1, <1>2, UnmarkForLongTermGood
<1>4. \A i \in 1..Len(stores) : f[i].used = stores[i].used
  BY <1>1, <1>2 DEF UnmarkForLongTerm, UnmarkForReference, GoodStore, StoreType
<1> HIDE DEF f
<1>5. GoodStores(f) /\ Len(f) = Len(stores)
  BY <1>1, <1>3, GoodStoresFrom
<1> QED  BY <1>4, <1>5 DEF f

(* The control state after an operation that leaves the picture alone.      *)
LEMMA OperationControl ==
    ASSUME ControlOK, marked' \in [1..6 -> Nat], upcoming' = upcoming,
           maxLongTermPicIdx' \in Nat \cup {-1}, cur' \in PictureType,
           cur'.structure = cur.structure, cur.structure \in Views,
           pc' = pc \/ pc' = "failed"
    PROVE  ControlOK'
BY DEF ControlOK, Phases, HasPicture

LEMMA MarkShortUnusedKeeps ==
    ASSUME IInv, NEW d \in Nat, MarkShortUnused(d)
    PROVE  IInv'
<1>1. /\ OutputOK' /\ StreamOK' /\ marked' \in [1..6 -> Nat] /\ cur.structure \in Views
      /\ lastPicture' = lastPicture /\ upcoming' = upcoming
  BY OperationKeeps DEF MarkShortUnused
<1>2. GoodStores(fs') /\ Len(fs') = Len(fs)
  <2>1. PICK i \in shortRefs, view \in TargetViews :
           fs' = [fs EXCEPT ![i] = Unmark(fs[i], view, FALSE)]
    BY DEF MarkShortUnused
  <2>2. i \in 1..Len(fs) /\ view \in Views /\ GoodStore(fs[i])
    BY DEF IInv, BufferOK, GoodStores, Positions, TargetViews, Views
  <2>3. GoodStore(Unmark(fs[i], view, FALSE))
    BY <2>2, UnmarkGood
  <2> QED  BY <2>1, <2>2, <2>3, ReplaceGood DEF IInv, BufferOK
<1>3. BufferOK'
  <2>1. shortRefs' \subseteq 1..Len(fs) /\ longRefs' \subseteq 1..Len(fs)
    BY <1>2, ListsInRange DEF MarkShortUnused, IInv, BufferOK, Positions
  <2> QED  BY <1>1, <1>2, <2>1, SameLengthGood DEF IInv
<1>4. ControlOK'
  BY <1>1, OperationControl DEF IInv, ControlOK, MarkShortUnused
<1> QED  BY <1>1, <1>3, <1>4 DEF IInv

LEMMA MarkLongUnusedKeeps ==
    ASSUME IInv, NEW num \in Nat, MarkLongUnused(num)
    PROVE  IInv'
<1>1. /\ OutputOK' /\ StreamOK' /\ marked' \in [1..6 -> Nat] /\ cur.structure \in Views
      /\ lastPicture' = lastPicture /\ upcoming' = upcoming
  BY OperationKeeps DEF MarkLongUnused
<1>2. GoodStores(fs') /\ Len(fs') = Len(fs)
  <2>1. PICK i \in longRefs, view \in TargetViews :
           fs' = [fs EXCEPT ![i] = Unmark(fs[i], view, TRUE)]
    BY DEF MarkLongUnused
  <2>2. i \in 1..Len(fs) /\ view \in Views /\ GoodStore(fs[i])
    BY DEF IInv, BufferOK, GoodStores, Positions, TargetViews, Views
  <2>3. GoodStore(Unmark(fs[i], view, TRUE))
    BY <2>2, UnmarkGood
  <2> QED  BY <2>1, <2>2, <2>3, ReplaceGood DEF IInv, BufferOK
<1>3. BufferOK'
  <2>1. shortRefs' \subseteq 1..Len(fs) /\ longRefs' \subseteq 1..Len(fs)
    BY <1>2, ListsInRange DEF MarkLongUnused, IInv, BufferOK, Positions
  <2> QED  BY <1>1, <1>2, <2>1, SameLengthGood DEF IInv
<1>4. ControlOK'
  BY <1>1, OperationControl DEF IInv, ControlOK, MarkLongUnused
<1> QED  BY <1>1, <1>3, <1>4 DEF IInv

LEMMA AssignLongKeeps ==
    ASSUME IInv, NEW d \in Nat, NEW idx \in Nat, AssignLong(d, idx)
    PROVE  IInv'
<1>1. /\ OutputOK' /\ StreamOK' /\ marked' \in [1..6 -> Nat] /\ cur.structure \in Views
      /\ lastPicture' = lastPicture /\ upcoming' = upcoming
  BY OperationKeeps DEF AssignLong
<1>2. GoodStores(fs') /\ Len(fs') = Len(fs)
  <2>1. PICK i \in shortRefs, view \in TargetViews, positions \in SUBSET longRefs :
          LET stores == UnmarkedLong(fs, positions)
          IN  /\ IsShortTarget(fs[i], view)
              /\ fs' = [stores EXCEPT ![i] = MarkLong(stores[i], view, idx)]
    BY DEF AssignLong, LosingIndex
  <2> DEFINE stores == UnmarkedLong(fs, positions)
  <2>2. i \in 1..Len(fs) /\ view \in Views /\ GoodStore(fs[i])
    BY DEF IInv, BufferOK, GoodStores, Positions, TargetViews, Views
  <2>3. /\ GoodStores(stores) /\ Len(stores) = Len(fs)
        /\ stores[i].used = fs[i].used
    BY <2>2, UnmarkedLongGood DEF IInv, BufferOK
  <2>4. Fields(view) \subseteq stores[i].used
    BY <2>1, <2>2, <2>3 DEF IsShortTarget, GoodStore, StoreMarksAgree
  <2>5. fs' = [stores EXCEPT ![i] = MarkLong(stores[i], view, idx)]
    BY <2>1
  <2> HIDE DEF stores
  <2>6. GoodStore(MarkLong(stores[i], view, idx))
    BY <2>2, <2>3, <2>4, MarkLongGood DEF GoodStores
  <2> QED  BY <2>2, <2>3, <2>5, <2>6, ReplaceGood
<1>3. BufferOK'
  <2>1. shortRefs' \subseteq 1..Len(fs) /\ longRefs' \subseteq 1..Len(fs)
    BY <1>2, ListsInRange DEF AssignLong
  <2> QED  BY <1>1, <1>2, <2>1, SameLengthGood DEF IInv
<1>4. ControlOK'
  BY <1>1, OperationControl DEF IInv, ControlOK, AssignLong
<1> QED  BY <1>1, <1>3, <1>4 DEF IInv

LEMMA SetMaxLongTermIdxKeeps ==
    ASSUME IInv, NEW max \in Nat \cup {-1}, SetMaxLongTermIdx(max)
    PROVE  IInv'
<1>1. /\ OutputOK' /\ StreamOK' /\ marked' \in [1..6 -> Nat] /\ cur.structure \in Views
      /\ lastPicture' = lastPicture /\ upcoming' = upcoming
  BY OperationKeeps DEF SetMaxLongTermIdx
<1>2. GoodStores(fs') /\ Len(fs') = Len(fs)
  BY UnmarkedLongGood DEF SetMaxLongTermIdx, IInv, BufferOK
<1>3. BufferOK'
  <2>1. shortRefs' \subseteq 1..Len(fs) /\ longRefs' \subseteq 1..Len(fs)
    BY <1>2, ListsInRange DEF SetMaxLongTermIdx, IInv, BufferOK, Positions
  <2> QED  BY <1>1, <1>2, <2>1, SameLengthGood DEF IInv
<1>4. ControlOK'
  BY <1>1, OperationControl DEF IInv, ControlOK, SetMaxLongTermIdx
<1> QED  BY <1>1, <1>3, <1>4 DEF IInv

LEMMA MarkAllUnusedKeeps == IInv /\ MarkAllUnused => IInv'
<1> SUFFICES ASSUME IInv, MarkAllUnused PROVE IInv'
  OBVIOUS
<1>1. /\ OutputOK' /\ StreamOK' /\ marked' \in [1..6 -> Nat] /\ cur.structure \in Views
      /\ lastPicture' = lastPicture /\ upcoming' = upcoming
  BY OperationKeeps DEF MarkAllUnused
<1> DEFINE stores == [i \in 1..Len(fs) |->
                        IF i \in shortRefs THEN UnmarkForReference(fs[i]) ELSE fs[i]]
<1>2. GoodStores(stores) /\ Len(stores) = Len(fs)
  <2>1. Len(fs) \in Nat /\ \A i \in 1..Len(fs) : GoodStore(fs[i])
    BY DEF IInv, BufferOK, GoodStores
  <2>2. stores = [i \in 1..Len(fs) |-> stores[i]] /\ \A i \in 1..Len(fs) : GoodStore(stores[i])
    BY <2>1, UnmarkForReferenceGood
  <2> HIDE DEF stores
  <2> QED  BY <2>1, <2>2, GoodStoresFrom
<1>3. /\ shortRefs' = ShortRefsOf(stores) /\ fs' = UnmarkedLong(stores, longRefs)
      /\ longRefs' = longRefs
  BY DEF MarkAllUnused
<1> HIDE DEF stores
<1>4. GoodStores(fs') /\ Len(fs') = Len(fs)
  BY <1>2, <1>3, UnmarkedLongGood
<1>5. BufferOK'
  <2>1. shortRefs' \subseteq 1..Len(fs) /\ longRefs' \subseteq 1..Len(fs)
    BY <1>2, <1>3, ListsInRange DEF IInv, BufferOK, Positions
  <2> QED  BY <1>1, <1>4, <2>1, SameLengthGood DEF IInv
<1>6. ControlOK'
  BY <1>1, OperationControl DEF IInv, ControlOK, MarkAllUnused
<1> QED  BY <1>1, <1>5, <1>6 DEF IInv

LEMMA MarkCurrentLongKeeps ==
    ASSUME IInv, NEW idx \in Nat, MarkCurrentLong(idx)
    PROVE  IInv'
<1>1. /\ OutputOK' /\ StreamOK' /\ marked' \in [1..6 -> Nat] /\ cur.structure \in Views
      /\ lastPicture' = lastPicture /\ upcoming' = upcoming
  BY OperationKeeps DEF MarkCurrentLong
<1>2. GoodStores(fs') /\ Len(fs') = Len(fs)
  <2>1. PICK positions \in SUBSET longRefs : fs' = UnmarkedLong(fs, positions)
    BY DEF MarkCurrentLong, LosingIndex
  <2> QED  BY <2>1, UnmarkedLongGood DEF IInv, BufferOK
<1>3. BufferOK'
  <2>1. shortRefs' \subseteq 1..Len(fs) /\ longRefs' \subseteq 1..Len(fs)
    BY DEF MarkCurrentLong, IInv, BufferOK, Positions
  <2> QED  BY <1>1, <1>2, <2>1, SameLengthGood DEF IInv
<1>4. ControlOK'
  <2>1. cur' \in PictureType /\ cur'.structure = cur.structure
    BY DEF IInv, ControlOK, MarkCurrentLong, PictureType
  <2>2. pc' = pc \/ pc' = "failed"
    BY DEF MarkCurrentLong
  <2>3. maxLongTermPicIdx' \in Nat \cup {-1}
    BY DEF IInv, ControlOK, MarkCurrentLong
  <2> QED  BY <1>1, <2>1, <2>2, <2>3, OperationControl DEF IInv
<1> QED  BY <1>1, <1>3, <1>4 DEF IInv

LEMMA EndMarkingKeeps == IInv /\ EndMarking => IInv'
<1> SUFFICES ASSUME IInv, EndMarking PROVE IInv'
  OBVIOUS
<1>1. BufferOK' /\ OutputOK'
  BY SameBuffer, SameOutput DEF IInv, EndMarking
<1>2. sent' \subseteq Nat /\ IsFiniteSet(sent')
  <2>1. sent' = sent \/ sent' = {0}
    BY DEF EndMarking
  <2>2. IsFiniteSet({0})
    BY FS_Singleton
  <2>3. sent \subseteq Nat /\ IsFiniteSet(sent)
    BY DEF IInv, StreamOK
  <2>4. CASE sent' = sent
    BY <2>3, <2>4
  <2>5. CASE sent' = {0}
    BY <2>2, <2>5
  <2> QED  BY <2>1, <2>4, <2>5
<1>3. StreamOK'
  BY <1>2 DEF IInv, StreamOK, EndMarking
<1>4. cur.structure \in Views /\ cur' \in PictureType /\ cur'.structure = cur.structure
  <2>1. cur.structure \in Views /\ cur \in PictureType
    BY DEF IInv, ControlOK, EndMarking, HasPicture
  <2>2. cur' = cur \/ cur' = [cur EXCEPT !.frameNum = 0, !.poc = 0]
    BY DEF EndMarking
  <2>3. 0 \in 0..(MaxFrameNum - 1)
    BY DpbAssumption
  <2>4. ASSUME NEW n \in 0..(MaxFrameNum - 1), NEW poc \in Nat, NEW p \in PictureType
        PROVE  LET q == [p EXCEPT !.frameNum = n, !.poc = poc]
               IN  q \in PictureType /\ q.structure = p.structure
    BY DEF PictureType
  <2> QED  BY ZenonT(60), <2>1, <2>2, <2>3, <2>4
<1>5. ControlOK'
  BY <1>4 DEF IInv, ControlOK, EndMarking, Phases, HasPicture
<1> QED  BY <1>1, <1>3, <1>5 DEF IInv

-----------------------------------------------------------------------------
(* store_picture_in_dpb                                                    *)

LEMMA PairFieldKeeps == IInv /\ PairField => IInv'
<1> SUFFICES ASSUME IInv, PairField PROVE IInv'
  OBVIOUS
<1>1. OutputOK' /\ StreamOK' /\ ControlOK'
  BY FinishKeeps DEF IInv, OutputOK, PairField, output
<1>2. lastPicture \in 1..Len(fs) /\ GoodStore(fs[lastPicture])
  BY DEF IInv, BufferOK, PairField, HasStoredPair, Positions, GoodStores
<1>3. GoodStore(Insert(fs[lastPicture], cur))
  <2>1. /\ cur \in PictureType /\ cur.structure \in Parities
        /\ fs[lastPicture].used = {Opposite(cur.structure)}
    BY DEF IInv, ControlOK, PairField, HasStoredPair
  <2>2. cur.structure \in Views /\ fs[lastPicture].used \cap Fields(cur.structure) = {}
    BY <2>1 DEF Views, Parities, Fields, Opposite
  <2> QED  BY <1>2, <2>1, <2>2, InsertGood
<1>4. GoodStores(fs') /\ Len(fs') = Len(fs)
  BY <1>2, <1>3, ReplaceGood DEF IInv, BufferOK, PairField
<1>5. BufferOK'
  <2>1. shortRefs' \subseteq 1..Len(fs') /\ longRefs' \subseteq 1..Len(fs') /\ lastPicture' = 0
    BY ListsInRange DEF PairField
  <2> QED  BY <1>4, <2>1 DEF IInv, BufferOK, Positions, GoodStores, GoodStore, StoreMarksAgree
<1> QED  BY <1>1, <1>5 DEF IInv

LEMMA SlidingWindowKeeps == IInv /\ SlidingWindow => IInv'
<1> SUFFICES ASSUME IInv, SlidingWindow PROVE IInv'
  OBVIOUS
<1>1. OutputOK' /\ StreamOK'
  BY SameOutput, SameStream DEF IInv, SlidingWindow
<1>2. ControlOK'
  BY NextPhase DEF IInv, SlidingWindow, Phases, HasPicture
<1>3. GoodStores(fs') /\ Len(fs') = Len(fs)
  <2>1. CASE \E i \in 1..Len(fs) : fs' = [fs EXCEPT ![i] = UnmarkForReference(@)]
    <3>1. PICK i \in 1..Len(fs) : fs' = [fs EXCEPT ![i] = UnmarkForReference(fs[i])]
      BY <2>1
    <3>2. GoodStore(UnmarkForReference(fs[i]))
      BY UnmarkForReferenceGood DEF IInv, BufferOK, GoodStores
    <3> QED  BY <3>1, <3>2, ReplaceGood DEF IInv, BufferOK
  <2>2. CASE UNCHANGED fs
    BY <2>2 DEF IInv, BufferOK, GoodStores, GoodStore, StoreMarksAgree
  <2> QED  BY <2>1, <2>2 DEF SlidingWindow
<1>4. BufferOK'
  <2>1. shortRefs' \subseteq 1..Len(fs) /\ longRefs' \subseteq 1..Len(fs)
    BY <1>3, ListsInRange DEF SlidingWindow, IInv, BufferOK, Positions
  <2>2. lastPicture' = lastPicture
    BY DEF SlidingWindow
  <2> QED  BY <1>3, <2>1, <2>2, SameLengthGood DEF IInv
<1> QED  BY <1>1, <1>2, <1>4 DEF IInv

LEMMA MakeRoomKeeps == IInv /\ MakeRoom => IInv'
<1> SUFFICES ASSUME IInv, MakeRoom PROVE IInv'
  OBVIOUS
<1>1. OutputOK' /\ StreamOK'
  BY SameOutput, SameStream DEF IInv, MakeRoom
<1>2. ControlOK'
  BY NextPhase DEF IInv, MakeRoom, Phases, HasPicture
<1>3. BufferOK'
  BY RemoveUnusedKeeps, SameBuffer DEF IInv, MakeRoom
<1> QED  BY <1>1, <1>2, <1>3 DEF IInv

LEMMA DirectOutputKeeps == IInv /\ DirectOutput => IInv'
<1> SUFFICES ASSUME IInv, DirectOutput PROVE IInv'
  OBVIOUS
<1>1. BufferOK' /\ StreamOK' /\ ControlOK'
  BY SameBuffer, FinishKeeps DEF IInv, DirectOutput
<1>2. OutputOK'
  <2>1. cur.poc \in Nat /\ cur.structure \in Views
    BY DEF IInv, ControlOK, PictureType, DirectOutput, HasPicture
  <2> QED  BY <2>1 DEF IInv, OutputOK, DirectOutput, Views
<1> QED  BY <1>1, <1>2 DEF IInv

LEMMA BumpKeeps == IInv /\ Bump => IInv'
<1> SUFFICES ASSUME IInv, Bump PROVE IInv'
  OBVIOUS
<1>1. BufferOK' /\ OutputOK' /\ (pc' = pc \/ pc' = "failed")
  BY OutputKeeps DEF IInv, Bump
<1>2. StreamOK'
  BY SameStream DEF IInv, Bump
<1>3. ControlOK'
  BY <1>1, NextPhase DEF IInv, Bump, Phases, HasPicture
<1> QED  BY <1>1, <1>2, <1>3 DEF IInv

LEMMA StoreKeeps == IInv /\ Store => IInv'
<1> SUFFICES ASSUME IInv, Store PROVE IInv'
  OBVIOUS
<1> DEFINE s == Insert(EmptyStore, cur)
<1>1. cur \in PictureType /\ cur.structure \in Views
  BY DEF IInv, ControlOK, Store, HasPicture
<1>2. GoodStore(s)
  BY <1>1, EmptyStoreGood, InsertGood DEF EmptyStore
<1>3. fs' = Append(fs, s) /\ Len(fs) < DpbSize
  BY DEF Store
<1> HIDE DEF s
<1>4. GoodStores(fs') /\ Len(fs') = Len(fs) + 1
  BY <1>2, <1>3 DEF IInv, BufferOK, GoodStores, GoodStore
<1>5. BufferOK'
  <2>1. shortRefs' \subseteq 1..Len(fs') /\ longRefs' \subseteq 1..Len(fs')
    BY ListsInRange DEF Store
  <2>2. lastPicture' \in 1..Len(fs') \cup {0}
    BY <1>3, <1>4 DEF Store, IInv, BufferOK, GoodStores
  <2>3. Len(fs') <= DpbSize
    BY <1>3, <1>4, DpbAssumption DEF IInv, BufferOK, GoodStores
  <2> QED  BY <1>4, <2>1, <2>2, <2>3
           DEF BufferOK, Positions, GoodStores, GoodStore, StoreMarksAgree
<1>6. OutputOK'
  BY DEF IInv, OutputOK, Store, output
<1>7. StreamOK' /\ ControlOK'
  <2>1. CASE pc' = "failed" /\ UNCHANGED <<cur, marked, stream>>
    BY <2>1, SameStream, NextPhase DEF IInv, Store, Phases, HasPicture
  <2>2. CASE Finish
    BY <2>2, FinishKeeps DEF IInv, Store
  <2> QED  BY <2>1, <2>2 DEF Store
<1> QED  BY <1>5, <1>6, <1>7 DEF IInv

-----------------------------------------------------------------------------
(* The specification                                                       *)

LEMMA MarkingKeeps == IInv /\ Marking => IInv'
<1> SUFFICES ASSUME IInv, Marking PROVE IInv'
  OBVIOUS
<1> USE DpbAssumption
<1>1. ASSUME NEW d \in 0..(2 * MaxFrameNum - 1), MarkShortUnused(d) PROVE IInv'
  BY <1>1, MarkShortUnusedKeeps
<1>2. ASSUME NEW num \in 0..(2 * NumRefFrames + 1), MarkLongUnused(num) PROVE IInv'
  BY <1>2, MarkLongUnusedKeeps
<1>3. ASSUME NEW d \in 0..(2 * MaxFrameNum - 1), NEW idx \in 0..(NumRefFrames - 1),
             AssignLong(d, idx)
      PROVE  IInv'
  BY <1>3, AssignLongKeeps
<1>4. ASSUME NEW max \in -1..(NumRefFrames - 1), SetMaxLongTermIdx(max) PROVE IInv'
  <2>1. max \in Nat \cup {-1}
    OBVIOUS
  <2> QED  BY <1>4, <2>1, SetMaxLongTermIdxKeeps
<1>5. ASSUME NEW idx \in 0..(NumRefFrames - 1), MarkCurrentLong(idx) PROVE IInv'
  BY <1>5, MarkCurrentLongKeeps
<1> QED  BY <1>1, <1>2, <1>3, <1>4, <1>5, MarkAllUnusedKeeps, EndMarkingKeeps DEF Marking

LEMMA StoringKeeps == IInv /\ Storing => IInv'
BY PairFieldKeeps, SlidingWindowKeeps, MakeRoomKeeps, DirectOutputKeeps, BumpKeeps, StoreKeeps
   DEF Storing

LEMMA FlushingKeeps == IInv /\ Flushing => IInv'
BY IdrDiscardKeeps, StartFlushKeeps, FlushUnusedKeeps, FlushOutputKeeps, FlushEndKeeps
   DEF Flushing

LEMMA StutterKeeps == IInv /\ UNCHANGED vars => IInv'
<1> SUFFICES ASSUME IInv, UNCHANGED vars PROVE IInv'
  OBVIOUS
<1>1. BufferOK' /\ OutputOK' /\ StreamOK'
  BY SameBuffer, SameOutput, SameStream DEF IInv, vars
<1>2. ControlOK'
  BY SameControl DEF IInv, vars, stream
<1> QED  BY <1>1, <1>2 DEF IInv

LEMMA NextIInv == IInv /\ [Next]_vars => IInv'
BY DecodeNextKeeps, FillGapKeeps, AfterGapKeeps, EndStreamKeeps, MarkingKeeps, StoringKeeps,
   FlushingKeeps, StutterKeeps
   DEF Next, Stopped

LEMMA Invariance == Spec => []IInv
BY InitIInv, NextIInv, PTL DEF Spec

(* For every size of the buffer and every stream: no more frames are held   *)
(* than getDpbSize allows, and fs_ref, fs_ltref and last_picture point to    *)
(* used stores through removals, flushes and gaps.                          *)
THEOREM BufferTypeCorrect == Spec => []TypeOK
<1>1. IInv => TypeOK
  BY DEF IInv, BufferOK, OutputOK, StreamOK, ControlOK, TypeOK, GoodStores
<1> QED  BY <1>1, Invariance, PTL

(* A frame store and the pictures in it never disagree on what is used for  *)
(* reference and what is long-term, whatever fields are unmarked, assigned   *)
(* an index or combined, and in whatever order.                             *)
THEOREM MarksAlwaysAgree == Spec => []MarksAgree
<1>1. IInv => MarksAgree
  BY DEF IInv, BufferOK, GoodStores, GoodStore, MarksAgree, Positions
<1> QED  BY <1>1, Invariance, PTL

-----------------------------------------------------------------------------
(* Streams of frames                                                       *)

(* FrameInv relates the stores to the lists, to the picture being stored and to     *)
(* pre_frame_num: the short-term frames stand in the order of their age (OrderOK),  *)
(* the long-term ones have indices of their own that the current picture does not   *)
(* have (LongOK), and nothing the lists miss is used for reference (ListsOK).       *)

OnlyFrames == Structures = {"frame"}

FrameStore(s) == s.used = Parities /\ s.ref \in {{}, Parities} /\ s.lt \in {{}, Parities}
Framed(stores) == \A i \in 1..Len(stores) : FrameStore(stores[i])

\* What fs_ref and fs_ltref point to, if all stores hold frames.
Shorts(stores) == {i \in 1..Len(stores) : stores[i].ref # {} /\ stores[i].lt = {}}
Longs(stores) == {i \in 1..Len(stores) : stores[i].ref # {} /\ stores[i].lt # {}}

\* How many frame numbers ago the reference picture with number n was sent.
Age(pre, n) == (pre - n) % MaxFrameNum

Ordered(stores, pre) ==
    \A i, j \in Shorts(stores) :
        i < j => Age(pre, stores[j].frameNum) < Age(pre, stores[i].frameNum)
Clear(stores, pre, ahead) ==
    \A i \in Shorts(stores) : Age(pre, stores[i].frameNum) + ahead < MaxFrameNum
Fresh(stores, n) == \A i \in Shorts(stores) : stores[i].frameNum # n

Distinct(stores) ==
    \A i, j \in Longs(stores) : stores[i].ltIdx = stores[j].ltIdx => i = j
Bounded(stores, max) == \A i \in Longs(stores) : stores[i].ltIdx <= max
Free(stores, idx) == \A i \in Longs(stores) : stores[i].ltIdx # idx

Unreferenced(stores) == \A i \in 1..Len(stores) : stores[i].ref = {}

FlushPhases == {"flush", "unused", "bumpall"}
StorePhases == {"marking", "placing", "room", "bumping"}

\* The phases in which fs_ref is known to be up to date.
Listed == ~cur.adaptive /\ ~cur.idr /\ pc \notin FlushPhases \cup {"ended", "failed"}

ShapeOK ==
    /\ Framed(fs)
    /\ cur = NoPicture \/ cur.structure = "frame"
    /\ upcoming = NoPicture \/ upcoming.structure = "frame"

ListsOK ==
    /\ Shorts(fs) \subseteq shortRefs /\ Longs(fs) \subseteq longRefs
    /\ Listed => shortRefs = Shorts(fs)

KindOK ==
    /\ cur.adaptive \/ cur.idr => cur.ref /\ upcoming = NoPicture
    /\ cur.idr => cur.ltIdx = 0 /\ ~cur.adaptive
    /\ pc = "marking" => cur.adaptive
    /\ pc = "idr" => cur.idr
    /\ marked[5] > 0 => cur.adaptive
    /\ pc \in {"ready", "gap", "ended"} => cur = NoPicture
    /\ pc \in {"ready", "ended"} => upcoming = NoPicture
    /\ upcoming # NoPicture => ~upcoming.idr /\ (upcoming.adaptive => upcoming.ref)
                               /\ ~upcoming.long
    /\ pc \in FlushPhases =>
         cur.adaptive \/ cur.idr \/ (cur = NoPicture /\ upcoming = NoPicture)

FlushedOK ==
    /\ pc \in {"unused", "bumpall"} => Unreferenced(fs)
    /\ marked[5] > 0 /\ pc # "failed" => Shorts(fs) = {}

LongOK ==
    /\ Distinct(fs) /\ Bounded(fs, maxLongTermPicIdx)
    /\ cur.long /\ pc # "failed" =>
         cur.ltIdx <= maxLongTermPicIdx /\ Free(fs, cur.ltIdx)

OrderOK ==
    /\ pc \notin {"idr", "failed"} => Ordered(fs, preFrameNum)
    /\ pc # "failed" /\ upcoming # NoPicture =>
         /\ upcoming.frameNum # preFrameNum
         /\ Clear(fs, preFrameNum, Age(upcoming.frameNum, preFrameNum))
    /\ cur.ref /\ marked[5] = 0 => preFrameNum = cur.frameNum
    /\ pc = "placing" /\ cur.ref /\ ~cur.adaptive /\ ~cur.idr => Fresh(fs, cur.frameNum)

FrameInv == ShapeOK /\ ListsOK /\ KindOK /\ FlushedOK /\ LongOK /\ OrderOK

-----------------------------------------------------------------------------
(* The marks of a store that holds a frame                                 *)

LEMMA FrameLists ==
    ASSUME NEW stores, GoodStores(stores), Framed(stores)
    PROVE  ShortRefsOf(stores) = Shorts(stores) /\ LongRefsOf(stores) = Longs(stores)
<1>1. ASSUME NEW s, GoodStore(s), FrameStore(s)
      PROVE  /\ IsShortTermReference(s) <=> s.ref # {} /\ s.lt = {}
             /\ IsLongTermReference(s) <=> s.ref # {} /\ s.lt # {}
  <2>1. ViewsOf(s) = Views
    BY <1>1 DEF ViewsOf, FrameStore, Views
  <2>2. /\ s.refPics \subseteq Views /\ s.ltPics \subseteq Views
        /\ s.refPics \cap Parities = s.ref
        /\ s.ref \cap s.lt = s.ref \cap s.ltPics
        /\ "frame" \in s.refPics <=> s.ref = Parities
        /\ "frame" \in s.refPics => ("frame" \in s.ltPics <=> Parities \subseteq s.lt)
    BY <1>1 DEF GoodStore, StoreMarksAgree, StoreType
  <2>3. CASE s.ref = {}
    BY <2>1, <2>2, <2>3 DEF IsShortTermReference, IsLongTermReference, Views, Parities
  <2>4. CASE s.ref = Parities /\ s.lt = {}
    BY <2>1, <2>2, <2>4 DEF IsShortTermReference, IsLongTermReference, Views, Parities
  <2>5. CASE s.ref = Parities /\ s.lt = Parities
    BY <2>1, <2>2, <2>5 DEF IsShortTermReference, IsLongTermReference, Views, Parities
  <2> QED  BY <1>1, <2>3, <2>4, <2>5 DEF FrameStore
<1>2. \A i \in 1..Len(stores) : GoodStore(stores[i]) /\ FrameStore(stores[i])
  BY DEF GoodStores, Framed
<1> QED  BY <1>1, <1>2 DEF ShortRefsOf, LongRefsOf, Shorts, Longs

(* Short-term references that come from short-term references with the same *)
(* frame numbers, in the same order, keep what is known of their age.       *)
LEMMA ShortsKeep ==
    ASSUME NEW stores, NEW new, NEW m,
           \A i \in Shorts(new) :
               m[i] \in Shorts(stores) /\ new[i].frameNum = stores[m[i]].frameNum,
           \A i, j \in 1..Len(new) : i < j => m[i] < m[j]
    PROVE  /\ \A pre : Ordered(stores, pre) => Ordered(new, pre)
           /\ \A pre, ahead : Clear(stores, pre, ahead) => Clear(new, pre, ahead)
           /\ \A n : Fresh(stores, n) => Fresh(new, n)
           /\ Shorts(stores) = {} => Shorts(new) = {}
<1>1. Shorts(new) \subseteq 1..Len(new)
  BY DEF Shorts
<1>2. ASSUME NEW pre, Ordered(stores, pre) PROVE Ordered(new, pre)
  BY <1>1, <1>2 DEF Ordered
<1> QED  BY <1>2 DEF Clear, Fresh

(* The same for long-term references and their indices.                     *)
LEMMA LongsKeep ==
    ASSUME NEW stores, NEW new, NEW m,
           Len(new) \in Nat, \A i \in 1..Len(new) : m[i] \in Nat,
           \A i \in Longs(new) :
               m[i] \in Longs(stores) /\ new[i].ltIdx = stores[m[i]].ltIdx,
           \A i, j \in 1..Len(new) : i < j => m[i] < m[j]
    PROVE  /\ Distinct(stores) => Distinct(new)
           /\ \A max : Bounded(stores, max) => Bounded(new, max)
           /\ \A idx : Free(stores, idx) => Free(new, idx)
<1>1. Longs(new) \subseteq 1..Len(new)
  BY DEF Longs
<1>2. \A i, j \in 1..Len(new) : m[i] = m[j] => i = j
  <2> SUFFICES ASSUME NEW i \in 1..Len(new), NEW j \in 1..Len(new), m[i] = m[j], i # j
               PROVE  FALSE
    OBVIOUS
  <2>1. i < j \/ j < i
    OBVIOUS
  <2> QED  BY <2>1
<1>3. ASSUME Distinct(stores) PROVE Distinct(new)
  BY <1>1, <1>2, <1>3 DEF Distinct
<1> QED  BY <1>3 DEF Bounded, Free

\* A store keeps its marks or is no longer used for reference.
Keeps(old, new) ==
    /\ new.frameNum = old.frameNum /\ new.ltIdx = old.ltIdx
    /\ new.ref = {} \/ (new.ref = old.ref /\ new.lt = old.lt)

\* What is left of the stores, in the same order, keeps its marks or loses them.
Sheds(stores, new, m) ==
    /\ Len(new) \in Nat
    /\ \A i \in 1..Len(new) : m[i] \in 1..Len(stores) /\ Keeps(stores[m[i]], new[i])
    /\ \A i, j \in 1..Len(new) : i < j => m[i] < m[j]

LEMMA ShedsKeep ==
    ASSUME NEW stores, NEW new, NEW m, Sheds(stores, new, m), Len(stores) \in Nat
    PROVE  /\ \A pre : Ordered(stores, pre) => Ordered(new, pre)
           /\ \A pre, ahead : Clear(stores, pre, ahead) => Clear(new, pre, ahead)
           /\ \A n : Fresh(stores, n) => Fresh(new, n)
           /\ Shorts(stores) = {} => Shorts(new) = {}
           /\ Distinct(stores) => Distinct(new)
           /\ \A max : Bounded(stores, max) => Bounded(new, max)
           /\ \A idx : Free(stores, idx) => Free(new, idx)
           /\ Unreferenced(stores) => Unreferenced(new)
<1>1. /\ Len(new) \in Nat /\ \A i \in 1..Len(new) : m[i] \in Nat
      /\ \A i, j \in 1..Len(new) : i < j => m[i] < m[j]
  BY DEF Sheds
<1>2. \A i \in Shorts(new) :
          m[i] \in Shorts(stores) /\ new[i].frameNum = stores[m[i]].frameNum
  BY DEF Sheds, Keeps, Shorts
<1>3. \A i \in Longs(new) :
          m[i] \in Longs(stores) /\ new[i].ltIdx = stores[m[i]].ltIdx
  BY DEF Sheds, Keeps, Longs
<1>4. Unreferenced(stores) => Unreferenced(new)
  BY DEF Sheds, Keeps, Unreferenced
<1> QED  BY <1>1, <1>2, <1>3, <1>4, ShortsKeep, LongsKeep

\* No store moves, but marks may be lost.
Loses(stores, new) ==
    /\ Len(new) = Len(stores)
    /\ \A i \in 1..Len(stores) : Keeps(stores[i], new[i])

LEMMA LosesSheds ==
    ASSUME NEW stores, NEW new, Loses(stores, new), Len(stores) \in Nat
    PROVE  /\ Sheds(stores, new, [i \in 1..Len(stores) |-> i])
           /\ Shorts(new) \subseteq Shorts(stores) /\ Longs(new) \subseteq Longs(stores)
BY DEF Loses, Sheds, Keeps, Shorts, Longs

LEMMA LosesNothing ==
    ASSUME NEW stores, NEW new, Loses(stores, new), Loses(new, stores), Len(stores) \in Nat
    PROVE  Shorts(new) = Shorts(stores) /\ Longs(new) = Longs(stores)
<1>1. Len(new) \in Nat
  BY DEF Loses
<1>2. Shorts(new) \subseteq Shorts(stores) /\ Longs(new) \subseteq Longs(stores)
  BY LosesSheds
<1>3. Shorts(stores) \subseteq Shorts(new) /\ Longs(stores) \subseteq Longs(new)
  BY <1>1, LosesSheds
<1> QED  BY <1>2, <1>3

-----------------------------------------------------------------------------
(* Steps that add no reference                                             *)

\* The stores keep or lose their marks, and the lists go on pointing to them.
Carried ==
    /\ Framed(fs')
    /\ \E m : Sheds(fs, fs', m)
    /\ Shorts(fs) \subseteq shortRefs => Shorts(fs') \subseteq shortRefs'
    /\ Longs(fs) \subseteq longRefs => Longs(fs') \subseteq longRefs'
    /\ Listed /\ Listed' /\ shortRefs = Shorts(fs) => shortRefs' = Shorts(fs')

LEMMA CarriedFacts ==
    ASSUME IInv, FrameInv, Carried
    PROVE  /\ Framed(fs')
           /\ Shorts(fs') \subseteq shortRefs' /\ Longs(fs') \subseteq longRefs'
           /\ Listed /\ Listed' => shortRefs' = Shorts(fs')
           /\ \A pre : Ordered(fs, pre) => Ordered(fs', pre)
           /\ \A pre, ahead : Clear(fs, pre, ahead) => Clear(fs', pre, ahead)
           /\ \A n : Fresh(fs, n) => Fresh(fs', n)
           /\ Shorts(fs) = {} => Shorts(fs') = {}
           /\ Distinct(fs) => Distinct(fs')
           /\ \A max : Bounded(fs, max) => Bounded(fs', max)
           /\ \A idx : Free(fs, idx) => Free(fs', idx)
           /\ Unreferenced(fs) => Unreferenced(fs')
<1>1. Len(fs) \in Nat
  BY DEF IInv, BufferOK, GoodStores
<1>2. PICK m : Sheds(fs, fs', m)
  BY DEF Carried
<1>3. /\ Framed(fs')
      /\ Shorts(fs') \subseteq shortRefs' /\ Longs(fs') \subseteq longRefs'
      /\ Listed /\ Listed' => shortRefs' = Shorts(fs')
  BY DEF Carried, FrameInv, ListsOK
<1> QED  BY ONLY <1>1, <1>2, <1>3, ShedsKeep

LEMMA CarryOn ==
    ASSUME IInv, FrameInv, Carried, KindOK',
           UNCHANGED <<cur, upcoming, preFrameNum, marked, maxLongTermPicIdx>>,
           pc \notin {"idr", "failed"}, pc' # "placing", Listed' => Listed,
           pc' \in {"unused", "bumpall"} => pc \in {"unused", "bumpall"}
    PROVE  FrameInv'
<1> USE CarriedFacts
<1>1. ShapeOK'
  BY DEF ShapeOK, FrameInv
<1>2. ListsOK'
  BY DEF ListsOK
<1>3. FlushedOK'
  BY DEF FlushedOK, FrameInv
<1>4. LongOK'
  BY DEF LongOK, FrameInv
<1>5. OrderOK'
  BY DEF OrderOK, FrameInv
<1> QED  BY <1>1, <1>2, <1>3, <1>4, <1>5 DEF FrameInv

\* A store loses nothing when it is output.
LEMMA SameStoresCarried ==
    ASSUME IInv, FrameInv, Framed(fs'), Loses(fs, fs'), Loses(fs', fs),
           UNCHANGED <<shortRefs, longRefs>>
    PROVE  Carried
<1>1. Len(fs) \in Nat /\ Len(fs') \in Nat
  BY DEF IInv, BufferOK, GoodStores, Loses
<1>2. Sheds(fs, fs', [i \in 1..Len(fs) |-> i])
  BY <1>1, LosesSheds
<1>3. Shorts(fs') = Shorts(fs) /\ Longs(fs') = Longs(fs)
  BY <1>1, LosesNothing
<1> QED  BY <1>2, <1>3 DEF Carried

LEMMA SameDpbCarried ==
    ASSUME IInv, FrameInv, UNCHANGED dpb
    PROVE  Carried
<1>1. Framed(fs')
  BY DEF FrameInv, ShapeOK, Framed, FrameStore, dpb
<1>2. Loses(fs, fs') /\ Loses(fs', fs)
  BY DEF Loses, Keeps, dpb
<1> QED  BY <1>1, <1>2, SameStoresCarried DEF dpb

(* remove_frame_from_dpb: the stores behind move up, and so do the lists.   *)
LEMMA RemoveCarried ==
    ASSUME IInv, FrameInv, NEW stores, Framed(stores), Loses(fs, stores), Loses(stores, fs),
           NEW pos \in 1..Len(stores), RemoveFrame(stores, pos)
    PROVE  Carried
<1> DEFINE m == [i \in 1..Len(stores) - 1 |-> IF i < pos THEN i ELSE i + 1]
<1>1. Len(fs) \in Nat /\ Len(stores) = Len(fs)
  BY DEF IInv, BufferOK, GoodStores, Loses
<1>2. fs' = [i \in 1..Len(stores) - 1 |-> IF i < pos THEN stores[i] ELSE stores[i + 1]]
  BY DEF RemoveFrame
<1>3. Len(fs') = Len(stores) - 1 /\ Len(fs') \in Nat
  <2>1. Len(stores) - 1 \in Nat
    BY <1>1
  <2> QED  BY <2>1, <1>2
<1>4. \A i \in 1..Len(fs') : m[i] \in 1..Len(stores) /\ fs'[i] = stores[m[i]] /\ m[i] # pos
  BY <1>1, <1>2, <1>3
<1>5. \A i, j \in 1..Len(fs') : i < j => m[i] < m[j]
  BY <1>1, <1>3
<1>6. \A i \in 1..Len(fs') : Shifted(m[i], pos) = i
  BY <1>1, <1>3 DEF Shifted
<1>7. \A i \in 1..Len(stores) : i # pos =>
          /\ Shifted(i, pos) \in 1..Len(fs')
          /\ m[Shifted(i, pos)] = i
  BY <1>1, <1>3 DEF Shifted
<1> HIDE DEF m
<1>8. Framed(fs')
  BY <1>4 DEF Framed
<1>9. Sheds(fs, fs', m)
  BY <1>1, <1>3, <1>4, <1>5 DEF Sheds, Loses
<1>10. Shorts(stores) = Shorts(fs) /\ Longs(stores) = Longs(fs)
  BY <1>1, LosesNothing
<1>11. /\ shortRefs' = {Shifted(i, pos) : i \in shortRefs \ {pos}}
       /\ longRefs' = {Shifted(i, pos) : i \in longRefs \ {pos}}
  BY DEF RemoveFrame
<1>12. \A i \in 1..Len(fs') : /\ i \in Shorts(fs') <=> m[i] \in Shorts(stores)
                              /\ i \in Longs(fs') <=> m[i] \in Longs(stores)
  BY <1>4 DEF Shorts, Longs
<1>13. /\ Shorts(fs') \subseteq 1..Len(fs') /\ Longs(fs') \subseteq 1..Len(fs')
       /\ Shorts(stores) \subseteq 1..Len(stores) /\ Longs(stores) \subseteq 1..Len(stores)
  BY DEF Shorts, Longs
<1>14. Shorts(fs) \subseteq shortRefs => Shorts(fs') \subseteq shortRefs'
  BY <1>4, <1>6, <1>10, <1>11, <1>12, <1>13
<1>15. Longs(fs) \subseteq longRefs => Longs(fs') \subseteq longRefs'
  BY <1>4, <1>6, <1>10, <1>11, <1>12, <1>13
<1>16. shortRefs = Shorts(fs) => shortRefs' = Shorts(fs')
  BY <1>7, <1>10, <1>11, <1>12, <1>13, <1>14
<1> QED  BY <1>8, <1>9, <1>14, <1>15, <1>16 DEF Carried

LEMMA UnusedCarried ==
    ASSUME IInv, FrameInv, RemoveUnusedFrame
    PROVE  Carried
<1>1. PICK pos \in 1..Len(fs) : RemoveFrame(fs, pos)
  BY DEF RemoveUnusedFrame
<1>2. Framed(fs) /\ Loses(fs, fs)
  BY DEF FrameInv, ShapeOK, Loses, Keeps
<1> QED  BY <1>1, <1>2, RemoveCarried

LEMMA OutputCarried ==
    ASSUME IInv, FrameInv, NEW pos \in Waiting, OutputOneFrame(pos)
    PROVE  Carried
<1> DEFINE s == Written(fs[pos])
           stores == [fs EXCEPT ![pos] = s]
<1>1. pos \in 1..Len(fs) /\ GoodStore(fs[pos]) /\ FrameStore(fs[pos])
  BY DEF Waiting, IInv, BufferOK, GoodStores, FrameInv, ShapeOK, Framed
<1>2. s = [fs[pos] EXCEPT !.output = TRUE]
  BY <1>1 DEF Written, FrameStore
<1>3. FrameStore(s) /\ Keeps(fs[pos], s) /\ Keeps(s, fs[pos])
  BY <1>1, <1>2 DEF FrameStore, Keeps, GoodStore, StoreType
<1> HIDE DEF s
<1>4. GoodStores(fs) /\ Framed(fs)
  BY DEF IInv, BufferOK, FrameInv, ShapeOK
<1>5. /\ Len(stores) = Len(fs)
      /\ \A i \in 1..Len(fs) : stores[i] = IF i = pos THEN s ELSE fs[i]
  BY <1>1, <1>4 DEF GoodStores
<1>6. /\ fs' = stores /\ UNCHANGED <<shortRefs, longRefs>>
      \/ RemoveFrame(stores, pos)
  BY DEF OutputOneFrame, s
<1> HIDE DEF stores
<1>7. Framed(stores)
  BY <1>3, <1>4, <1>5 DEF Framed
<1>8. Loses(fs, stores) /\ Loses(stores, fs)
  BY <1>3, <1>5 DEF Loses, Keeps
<1>9. pos \in 1..Len(stores)
  BY <1>1, <1>5
<1> QED  BY <1>6, <1>7, <1>8, <1>9, SameStoresCarried, RemoveCarried

LEMMA EndStreamFrames ==
    ASSUME IInv, FrameInv, EndStream
    PROVE  FrameInv'
<1>1. Carried
  BY SameDpbCarried DEF EndStream
<1>2. KindOK'
  BY DEF KindOK, FrameInv, EndStream, FlushPhases, stream
<1> QED  BY <1>1, <1>2, CarryOn DEF EndStream, Listed, FlushPhases, StorePhases, stream

LEMMA FlushUnusedFrames ==
    ASSUME IInv, FrameInv, FlushUnused
    PROVE  FrameInv'
<1>1. Carried
  BY UnusedCarried, SameDpbCarried DEF FlushUnused
<1>2. pc = "unused" /\ pc' \in {"unused", "bumpall"}
  BY DEF FlushUnused
<1>3. KindOK'
  BY <1>2 DEF KindOK, FrameInv, FlushUnused, FlushPhases, stream
<1> QED  BY <1>1, <1>2, <1>3, CarryOn DEF FlushUnused, Listed, FlushPhases, StorePhases, stream

LEMMA FlushOutputFrames ==
    ASSUME IInv, FrameInv, FlushOutput
    PROVE  FrameInv'
<1>1. PICK pos \in Waiting : OutputOneFrame(pos)
  BY DEF FlushOutput
<1>2. Carried
  BY <1>1, OutputCarried
<1>3. pc = "bumpall" /\ pc' \in {"bumpall", "failed"}
  BY <1>1 DEF FlushOutput, OutputOneFrame
<1>4. KindOK'
  BY <1>3 DEF KindOK, FrameInv, FlushOutput, FlushPhases, stream
<1> QED  BY <1>2, <1>3, <1>4, CarryOn DEF FlushOutput, Listed, FlushPhases, StorePhases, stream

LEMMA BumpFrames ==
    ASSUME IInv, FrameInv, Bump
    PROVE  FrameInv'
<1>1. PICK pos \in Waiting : OutputOneFrame(pos)
  BY DEF Bump
<1>2. Carried
  BY <1>1, OutputCarried
<1>3. pc = "bumping" /\ pc' \in {"bumping", "failed"}
  BY <1>1 DEF Bump, OutputOneFrame
<1>4. KindOK'
  BY <1>3 DEF KindOK, FrameInv, Bump, FlushPhases, stream
<1> QED  BY <1>2, <1>3, <1>4, CarryOn DEF Bump, Listed, FlushPhases, StorePhases, stream

LEMMA MakeRoomFrames ==
    ASSUME IInv, FrameInv, MakeRoom
    PROVE  FrameInv'
<1>1. Carried
  BY UnusedCarried, SameDpbCarried DEF MakeRoom
<1>2. pc = "room" /\ pc' = "bumping"
  BY DEF MakeRoom
<1>3. KindOK'
  BY <1>2 DEF KindOK, FrameInv, MakeRoom, FlushPhases, stream
<1> QED  BY <1>1, <1>2, <1>3, CarryOn DEF MakeRoom, Listed, FlushPhases, StorePhases, stream

(* Operations that take marks away without moving a store.                  *)
LEMMA LosesCarried ==
    ASSUME IInv, IInv', FrameInv, Framed(fs'), Loses(fs, fs'),
           shortRefs' = ShortRefsOf(fs') \/ (shortRefs' = shortRefs /\ ~(Listed /\ Listed')),
           longRefs' = LongRefsOf(fs') \/ longRefs' = longRefs
    PROVE  Carried
<1>1. Len(fs) \in Nat
  BY DEF IInv, BufferOK, GoodStores
<1>2. /\ Sheds(fs, fs', [i \in 1..Len(fs) |-> i])
      /\ Shorts(fs') \subseteq Shorts(fs) /\ Longs(fs') \subseteq Longs(fs)
  BY <1>1, LosesSheds
<1>3. GoodStores(fs')
  BY DEF IInv, BufferOK, GoodStores, GoodStore, StoreMarksAgree
<1>4. ShortRefsOf(fs') = Shorts(fs') /\ LongRefsOf(fs') = Longs(fs')
  BY <1>3, FrameLists
<1> QED  BY <1>2, <1>4 DEF Carried

LEMMA UnmarkedFrame ==
    ASSUME NEW s, GoodStore(s), FrameStore(s)
    PROVE  /\ FrameStore(UnmarkForReference(s)) /\ Keeps(s, UnmarkForReference(s))
           /\ FrameStore(UnmarkForLongTerm(s)) /\ Keeps(s, UnmarkForLongTerm(s))
           /\ UnmarkForReference(s).ref = {} /\ UnmarkForLongTerm(s).ref = {}
BY DEF GoodStore, StoreType, FrameStore, Keeps, UnmarkForReference, UnmarkForLongTerm

LEMMA FrameStores ==
    ASSUME IInv, FrameInv
    PROVE  /\ Len(fs) \in Nat
           /\ \A i \in 1..Len(fs) : GoodStore(fs[i]) /\ FrameStore(fs[i])
           /\ ShortRefsOf(fs) = Shorts(fs) /\ LongRefsOf(fs) = Longs(fs)
<1>1. GoodStores(fs) /\ Framed(fs)
  BY DEF IInv, BufferOK, FrameInv, ShapeOK
<1> QED  BY <1>1, FrameLists DEF GoodStores, Framed

(* One store is unmarked.                                                  *)
LEMMA ReplacedLoses ==
    ASSUME IInv, FrameInv, NEW i \in 1..Len(fs), NEW s, FrameStore(s), Keeps(fs[i], s),
           fs' = [fs EXCEPT ![i] = s]
    PROVE  Framed(fs') /\ Loses(fs, fs')
<1>1. /\ Len(fs') = Len(fs)
      /\ \A j \in 1..Len(fs) : fs'[j] = IF j = i THEN s ELSE fs[j]
  BY DEF IInv, BufferOK, GoodStores
<1>2. \A j \in 1..Len(fs) : FrameStore(fs[j])
  BY FrameStores
<1> QED  BY <1>1, <1>2 DEF Framed, Loses, Keeps

(* Several are.                                                            *)
LEMMA UnmarkedLoses ==
    ASSUME IInv, FrameInv, NEW stores, NEW positions, Framed(stores), GoodStores(stores)
    PROVE  /\ Framed(UnmarkedLong(stores, positions))
           /\ Loses(stores, UnmarkedLong(stores, positions))
           /\ \A i \in positions \cap (1..Len(stores)) :
                UnmarkedLong(stores, positions)[i].ref = {}
<1>1. Len(stores) \in Nat /\ \A i \in 1..Len(stores) : GoodStore(stores[i]) /\ FrameStore(stores[i])
  BY DEF GoodStores, Framed
<1>2. /\ Len(UnmarkedLong(stores, positions)) = Len(stores)
      /\ \A i \in 1..Len(stores) : UnmarkedLong(stores, positions)[i] =
             IF i \in positions THEN UnmarkForLongTerm(stores[i]) ELSE stores[i]
  BY <1>1 DEF UnmarkedLong
<1> QED  BY <1>1, <1>2, UnmarkedFrame DEF Framed, Loses, Keeps

LEMMA NoPairInFrames ==
    ASSUME IInv, FrameInv, pc = "placing"
    PROVE  ~HasStoredPair
BY DEF IInv, ControlOK, HasPicture, FrameInv, ShapeOK, HasStoredPair, Parities, NoPicture

LEMMA SlidingWindowFrames ==
    ASSUME IInv, IInv', FrameInv, SlidingWindow
    PROVE  FrameInv'
<1>1. Carried
  <2>1. CASE UNCHANGED <<fs, shortRefs>>
    <3>1. UNCHANGED dpb
      BY <2>1 DEF SlidingWindow, dpb
    <3> QED  BY <3>1, SameDpbCarried
  <2>2. CASE /\ \E i \in 1..Len(fs) : fs' = [fs EXCEPT ![i] = UnmarkForReference(fs[i])]
             /\ shortRefs' = ShortRefsOf(fs')
    <3>1. PICK i \in 1..Len(fs) : fs' = [fs EXCEPT ![i] = UnmarkForReference(fs[i])]
      BY <2>2
    <3>2. FrameStore(UnmarkForReference(fs[i])) /\ Keeps(fs[i], UnmarkForReference(fs[i]))
      BY FrameStores, UnmarkedFrame
    <3>3. Framed(fs') /\ Loses(fs, fs')
      BY <3>1, <3>2, ReplacedLoses
    <3>4. longRefs' = longRefs
      BY DEF SlidingWindow
    <3> QED  BY <2>2, <3>3, <3>4, LosesCarried
  <2> QED  BY <2>1, <2>2 DEF SlidingWindow
<1>2. KindOK'
  BY DEF KindOK, FrameInv, SlidingWindow, FlushPhases, stream
<1> QED  BY <1>1, <1>2, CarryOn DEF SlidingWindow, Listed, FlushPhases, StorePhases, stream

LEMMA StartFlushFrames ==
    ASSUME IInv, IInv', FrameInv, StartFlush
    PROVE  FrameInv'
<1>1. Framed(fs') /\ Loses(fs, fs') /\ Unreferenced(fs')
  <2>1. fs' = [i \in 1..Len(fs) |-> UnmarkForReference(fs[i])]
    BY DEF StartFlush, AllUnmarked
  <2> QED  BY <2>1, FrameStores, UnmarkedFrame DEF Framed, Loses, Unreferenced
<1>2. Carried
  BY <1>1, LosesCarried DEF StartFlush, Listed, FlushPhases
<1>3. Shorts(fs') = {} /\ \A pre : Ordered(fs', pre)
  BY <1>1 DEF Unreferenced, Shorts, Ordered
<1>4. ShapeOK' /\ ListsOK'
  BY <1>2, CarriedFacts
     DEF ShapeOK, ListsOK, FrameInv, StartFlush, stream, Listed, FlushPhases
<1>5. KindOK'
  BY DEF KindOK, FrameInv, StartFlush, FlushPhases, stream
<1>6. FlushedOK'
  BY <1>1, <1>3 DEF FlushedOK
<1>7. LongOK'
  BY <1>2, CarriedFacts DEF LongOK, FrameInv, StartFlush
<1>8. OrderOK'
  <2>1. upcoming # NoPicture => pc # "idr" /\ pc # "flush"
    BY DEF FrameInv, KindOK, FlushPhases
  <2> QED  BY <1>3, <2>1 DEF OrderOK, FrameInv, StartFlush, stream, StorePhases
<1> QED  BY <1>4, <1>5, <1>6, <1>7, <1>8 DEF FrameInv

(* After an IDR picture has emptied the buffer.                            *)
LEMMA IdrMarkingFrames ==
    ASSUME IInv, IInv', FrameInv, IdrMarking, cur.idr, Framed(fs'), Unreferenced(fs'),
           pc \in {"idr", "bumpall"}, UNCHANGED <<stream, marked>>
    PROVE  FrameInv'
<1>1. Shorts(fs') = {} /\ Longs(fs') = {} /\ \A pre : Ordered(fs', pre)
  BY DEF Unreferenced, Shorts, Longs, Ordered
<1>2. /\ cur' = [cur EXCEPT !.long = cur.longFlag]
      /\ maxLongTermPicIdx' = IF cur.longFlag THEN 0 ELSE -1
      /\ pc' = "placing" /\ shortRefs' = {} /\ longRefs' = {}
  BY DEF IdrMarking
<1>3. /\ cur.ref /\ upcoming = NoPicture /\ cur.ltIdx = 0 /\ ~cur.adaptive
      /\ marked[5] > 0 => cur.adaptive
  BY DEF FrameInv, KindOK
<1>4. /\ cur'.structure = cur.structure /\ cur'.ref = cur.ref /\ cur'.idr = cur.idr
      /\ cur'.adaptive = cur.adaptive /\ cur'.ltIdx = cur.ltIdx
      /\ cur'.frameNum = cur.frameNum /\ cur'.long = cur.longFlag
  BY <1>2 DEF IInv, ControlOK, PictureType
<1>5. cur.structure = "frame"
  BY DEF FrameInv, ShapeOK, NoPicture
<1>6. ShapeOK' /\ KindOK'
  BY <1>2, <1>3, <1>4, <1>5 DEF ShapeOK, KindOK, stream, FlushPhases
<1>7. ListsOK' /\ FlushedOK'
  BY <1>1, <1>2, <1>4 DEF ListsOK, Listed, FlushedOK
<1>8. LongOK'
  BY <1>1, <1>2, <1>3, <1>4 DEF LongOK, Distinct, Bounded, Free
<1>9. OrderOK'
  BY <1>1, <1>2, <1>3, <1>4 DEF OrderOK, FrameInv, Fresh, stream
<1> QED  BY <1>6, <1>7, <1>8, <1>9 DEF FrameInv

LEMMA IdrDiscardFrames ==
    ASSUME IInv, IInv', FrameInv, IdrDiscard
    PROVE  FrameInv'
<1>1. Framed(fs') /\ Unreferenced(fs')
  BY DEF IdrDiscard, Framed, Unreferenced
<1> QED  BY <1>1, IdrMarkingFrames DEF IdrDiscard, FrameInv, KindOK

LEMMA FlushEndFrames ==
    ASSUME IInv, IInv', FrameInv, FlushEnd
    PROVE  FrameInv'
<1>1. pc = "bumpall" /\ Unreferenced(fs)
  BY DEF FlushEnd, FrameInv, FlushedOK
<1>2. CASE cur.idr
  <2>1. fs' = fs /\ IdrMarking /\ UNCHANGED <<stream, marked>>
    BY <1>2 DEF FlushEnd
  <2>2. Framed(fs') /\ Unreferenced(fs')
    BY <1>1, <2>1 DEF FrameInv, ShapeOK, Framed, FrameStore, Unreferenced
  <2> QED  BY <1>1, <1>2, <2>1, <2>2, IdrMarkingFrames
<1>3. CASE ~cur.idr
  <2>1. /\ UNCHANGED <<dpb, maxLongTermPicIdx, cur, stream, marked>>
        /\ pc' = IF cur = NoPicture THEN "ended" ELSE "placing"
    BY <1>3 DEF FlushEnd
  <2>2. Carried
    BY <2>1, SameDpbCarried
  <2>3. cur.adaptive \/ (cur = NoPicture /\ upcoming = NoPicture)
    BY <1>1, <1>3 DEF FrameInv, KindOK, FlushPhases
  <2>4. ShapeOK' /\ LongOK' /\ FlushedOK' /\ Ordered(fs', preFrameNum)
    BY <1>1, <2>1, <2>2, CarriedFacts
       DEF ShapeOK, LongOK, FlushedOK, FrameInv, OrderOK, stream
  <2>5. ListsOK'
    BY <2>1, <2>2, <2>3, CarriedFacts DEF ListsOK, Listed, NoPicture
  <2>6. KindOK'
    BY <1>3, <2>1, <2>3 DEF KindOK, FrameInv, stream, FlushPhases
  <2>7. OrderOK'
    BY <1>1, <2>1, <2>2, <2>3, <2>4, CarriedFacts DEF OrderOK, FrameInv, stream, NoPicture
  <2> QED  BY <2>4, <2>5, <2>6, <2>7 DEF FrameInv
<1> QED  BY <1>2, <1>3

-----------------------------------------------------------------------------
(* Storing a frame                                                         *)

LEMMA DirectOutputFrames ==
    ASSUME IInv, IInv', FrameInv, DirectOutput
    PROVE  FrameInv'
<1>1. Carried
  BY SameDpbCarried DEF DirectOutput
<1>2. /\ pc = "bumping" /\ ~cur.ref /\ Finish /\ UNCHANGED maxLongTermPicIdx
  BY DEF DirectOutput, GoesDirectly
<1>3. ~cur.adaptive /\ ~cur.idr /\ ~(marked[5] > 0)
  BY <1>2 DEF FrameInv, KindOK
<1>4. /\ pc' = IF upcoming = NoPicture THEN "ready" ELSE "gap"
      /\ cur' = NoPicture /\ marked' = NoMarks /\ upcoming' = upcoming
      /\ preFrameNum' = preFrameNum
  BY <1>2, <1>3 DEF Finish
<1>5. Listed
  BY <1>2, <1>3 DEF Listed, FlushPhases
<1>6. marked'[5] = 0
  BY <1>4 DEF NoMarks
<1>7. ShapeOK' /\ ListsOK'
  BY <1>1, <1>4, <1>5, CarriedFacts DEF ShapeOK, ListsOK, FrameInv, Listed
<1>8. KindOK'
  BY <1>4, <1>6 DEF KindOK, FrameInv, NoPicture, FlushPhases
<1>9. FlushedOK' /\ LongOK'
  BY <1>1, <1>2, <1>4, <1>6, CarriedFacts DEF FlushedOK, LongOK, FrameInv, NoPicture
<1>10. OrderOK'
  BY <1>1, <1>2, <1>4, CarriedFacts DEF OrderOK, FrameInv, NoPicture
<1> QED  BY <1>7, <1>8, <1>9, <1>10 DEF FrameInv

(* The distance between two frame numbers, counted backwards.              *)
LEMMA AgeIs ==
    ASSUME NEW a \in 0..(MaxFrameNum - 1), NEW b \in 0..(MaxFrameNum - 1)
    PROVE  /\ Age(a, b) = IF b <= a THEN a - b ELSE a - b + MaxFrameNum
           /\ Age(a, b) \in 0..(MaxFrameNum - 1)
           /\ Age(a, b) = 0 <=> a = b
<1>1. MaxFrameNum \in Nat \ {0}
  BY DpbAssumption
<1>2. CASE b <= a
  BY <1>1, <1>2 DEF Age
<1>3. CASE a < b
  BY <1>1, <1>3 DEF Age
<1> QED  BY <1>1, <1>2, <1>3

LEMMA StoredFrame ==
    ASSUME IInv, FrameInv, Store
    PROVE  /\ Len(fs) \in Nat /\ Len(fs') = Len(fs) + 1
           /\ \A i \in 1..Len(fs) : fs'[i] = fs[i]
           /\ FrameStore(fs'[Len(fs')])
           /\ fs'[Len(fs')].ref # {} <=> cur.ref
           /\ cur.ref => (fs'[Len(fs')].lt # {} <=> cur.long)
           /\ fs'[Len(fs')].frameNum = cur.frameNum
           /\ cur.ref /\ cur.long => fs'[Len(fs')].ltIdx = cur.ltIdx
<1> DEFINE s == Insert(EmptyStore, cur)
<1>1. cur.structure = "frame" /\ cur \in PictureType
  BY DEF IInv, ControlOK, Store, HasPicture, FrameInv, ShapeOK, Views, Parities, NoPicture
<1>2. /\ s.used = Parities /\ s.ref = (IF cur.ref THEN Parities ELSE {})
      /\ s.lt = (IF cur.ref /\ cur.long THEN Parities ELSE {})
      /\ s.frameNum = cur.frameNum
      /\ cur.ref /\ cur.long => s.ltIdx = cur.ltIdx
  BY <1>1 DEF Insert, EmptyStore, Fields
<1>3. fs' = Append(fs, s)
  BY DEF Store
<1> HIDE DEF s
<1>4. fs \in Seq(StoreType)
  BY DEF IInv, BufferOK, GoodStores
<1>5. /\ Len(fs) \in Nat /\ Len(fs') = Len(fs) + 1
      /\ \A i \in 1..Len(fs) : fs'[i] = fs[i]
      /\ fs'[Len(fs')] = s
  BY <1>3, <1>4
<1> QED  BY <1>2, <1>5 DEF FrameStore, Parities

(* What storing does to the two kinds of reference.                        *)
LEMMA StoredMarks ==
    ASSUME IInv, IInv', FrameInv, Store
    PROVE  /\ Framed(fs') /\ shortRefs' = Shorts(fs') /\ longRefs' = Longs(fs')
           /\ Shorts(fs') = Shorts(fs) \cup (IF cur.ref /\ ~cur.long THEN {Len(fs')} ELSE {})
           /\ Longs(fs') = Longs(fs) \cup (IF cur.ref /\ cur.long THEN {Len(fs')} ELSE {})
           /\ Shorts(fs) \subseteq 1..Len(fs) /\ Longs(fs) \subseteq 1..Len(fs)
<1> DEFINE n == Len(fs')
<1>1. /\ Len(fs) \in Nat /\ n = Len(fs) + 1
      /\ \A i \in 1..Len(fs) : fs'[i] = fs[i]
      /\ FrameStore(fs'[n])
      /\ fs'[n].ref # {} <=> cur.ref
      /\ cur.ref => (fs'[n].lt # {} <=> cur.long)
  BY StoredFrame
<1>2. Framed(fs')
  BY <1>1 DEF Framed, FrameInv, ShapeOK
<1>3. GoodStores(fs')
  BY DEF IInv, BufferOK, GoodStores, GoodStore, StoreMarksAgree
<1>4. shortRefs' = Shorts(fs') /\ longRefs' = Longs(fs')
  <2>1. ShortRefsOf(fs') = Shorts(fs') /\ LongRefsOf(fs') = Longs(fs')
    BY <1>2, <1>3, FrameLists
  <2>2. shortRefs' = ShortRefsOf(fs') /\ longRefs' = LongRefsOf(fs')
    BY DEF Store
  <2> QED  BY <2>1, <2>2
<1> HIDE DEF n
<1>5. \A i \in 1..n : i \in 1..Len(fs) \/ i = n
  BY <1>1
<1>6. \A i \in 1..Len(fs) : i \in 1..n
  BY <1>1
<1>7. n \in 1..n /\ n \notin 1..Len(fs)
  BY <1>1
<1>8. Shorts(fs) \subseteq 1..Len(fs) /\ Longs(fs) \subseteq 1..Len(fs)
  BY DEF Shorts, Longs
<1>9. \A i : /\ i \in Shorts(fs') <=> i \in Shorts(fs) \/ (cur.ref /\ ~cur.long /\ i = n)
             /\ i \in Longs(fs') <=> i \in Longs(fs) \/ (cur.ref /\ cur.long /\ i = n)
  BY <1>1, <1>5, <1>6, <1>7 DEF Shorts, Longs, n
<1>10. cur.ref \in BOOLEAN /\ cur.long \in BOOLEAN
  BY DEF IInv, ControlOK, PictureType
<1>11. /\ Shorts(fs') = Shorts(fs) \cup (IF cur.ref /\ ~cur.long THEN {n} ELSE {})
       /\ Longs(fs') = Longs(fs) \cup (IF cur.ref /\ cur.long THEN {n} ELSE {})
  BY <1>9
<1> QED  BY <1>2, <1>4, <1>8, <1>11 DEF n

LEMMA StoreLong ==
    ASSUME IInv, IInv', FrameInv, Store, pc = "bumping"
    PROVE  Distinct(fs') /\ Bounded(fs', maxLongTermPicIdx)
<1>1. /\ Longs(fs') = Longs(fs) \cup (IF cur.ref /\ cur.long THEN {Len(fs')} ELSE {})
      /\ Longs(fs) \subseteq 1..Len(fs)
  BY StoredMarks
<1>2. /\ \A i \in 1..Len(fs) : fs'[i] = fs[i]
      /\ cur.ref /\ cur.long => fs'[Len(fs')].ltIdx = cur.ltIdx
  BY StoredFrame
<1>3. /\ Distinct(fs) /\ Bounded(fs, maxLongTermPicIdx)
      /\ cur.long => cur.ltIdx <= maxLongTermPicIdx /\ Free(fs, cur.ltIdx)
  BY DEF FrameInv, LongOK
<1>4. \A i \in Longs(fs) : fs'[i].ltIdx = fs[i].ltIdx
  BY <1>1, <1>2
<1>5. CASE cur.ref /\ cur.long
  BY <1>1, <1>2, <1>3, <1>4, <1>5 DEF Distinct, Bounded, Free
<1>6. CASE ~(cur.ref /\ cur.long)
  BY <1>1, <1>3, <1>4, <1>6 DEF Distinct, Bounded
<1> QED  BY <1>5, <1>6

LEMMA StoreOrder ==
    ASSUME IInv, IInv', FrameInv, Store, pc = "bumping", Finish
    PROVE  /\ Ordered(fs', preFrameNum')
           /\ upcoming # NoPicture =>
                /\ upcoming.frameNum # preFrameNum'
                /\ Clear(fs', preFrameNum', Age(upcoming.frameNum, preFrameNum'))
<1>1. /\ Shorts(fs') = Shorts(fs) \cup (IF cur.ref /\ ~cur.long THEN {Len(fs')} ELSE {})
      /\ Shorts(fs) \subseteq 1..Len(fs) /\ shortRefs' = Shorts(fs')
  BY StoredMarks
<1>2. /\ Len(fs) \in Nat /\ Len(fs') = Len(fs) + 1
      /\ \A i \in 1..Len(fs) : fs'[i] = fs[i]
      /\ fs'[Len(fs')].frameNum = cur.frameNum
  BY StoredFrame
<1>3. \A i \in Shorts(fs) : fs'[i].frameNum = fs[i].frameNum /\ i < Len(fs')
  BY <1>1, <1>2
<1>4. Ordered(fs, preFrameNum)
  BY DEF FrameInv, OrderOK
<1>5. CASE marked[5] > 0
  <2>1. Shorts(fs) = {} /\ upcoming = NoPicture
    BY <1>5 DEF FrameInv, FlushedOK, KindOK
  <2>2. Ordered(fs', preFrameNum')
    BY <1>1, <1>2, <2>1 DEF Ordered
  <2> QED  BY <2>1, <2>2
<1>6. CASE ~(marked[5] > 0)
  <2>1. preFrameNum' = preFrameNum /\ preFrameNum \in 0..(MaxFrameNum - 1)
    BY <1>6 DEF Finish, IInv, StreamOK
  <2>2. CASE ~(cur.ref /\ ~cur.long)
    <3>1. Shorts(fs') = Shorts(fs)
      BY <1>1, <2>2
    <3> QED  BY <1>3, <1>4, <2>1, <3>1 DEF Ordered, Clear, FrameInv, OrderOK
  <2>3. CASE cur.ref /\ ~cur.long
    <3>1. cur.frameNum = preFrameNum
      BY <1>6, <2>3 DEF FrameInv, OrderOK, IInv, ControlOK
    <3>2. Age(preFrameNum, preFrameNum) = 0
      BY <2>1, AgeIs
    <3>3. \A i \in Shorts(fs) : Age(preFrameNum, fs[i].frameNum) > 0
      <4>1. pc' # "failed"
        BY DEF Finish
      <4>2. cur.frameNum \notin ShortTermFrameNums
        BY <2>3, <4>1 DEF Store
      <4>3. \A i \in Shorts(fs) : fs[i].frameNum # cur.frameNum
        BY <4>2 DEF ShortTermFrameNums, FrameInv, ListsOK
      <4>4. \A i \in Shorts(fs) : fs[i].frameNum \in 0..(MaxFrameNum - 1)
        BY <1>1, FrameStores DEF GoodStore, StoreType
      <4>5. ASSUME NEW i \in Shorts(fs)
            PROVE  /\ Age(preFrameNum, fs[i].frameNum) \in 0..(MaxFrameNum - 1)
                   /\ Age(preFrameNum, fs[i].frameNum) # 0
        BY <2>1, <3>1, <4>3, <4>4, AgeIs
      <4> QED  BY <4>5
    <3>4. Ordered(fs', preFrameNum)
      BY <1>1, <1>2, <1>3, <1>4, <3>1, <3>2, <3>3 DEF Ordered
    <3>5. ASSUME upcoming # NoPicture
          PROVE  /\ upcoming.frameNum # preFrameNum
                 /\ Clear(fs', preFrameNum, Age(upcoming.frameNum, preFrameNum))
      <4>1. /\ upcoming.frameNum # preFrameNum
            /\ Clear(fs, preFrameNum, Age(upcoming.frameNum, preFrameNum))
        BY <3>5 DEF FrameInv, OrderOK
      <4>2. upcoming.frameNum \in 0..(MaxFrameNum - 1)
        BY DEF IInv, StreamOK, PictureType
      <4>3. Age(upcoming.frameNum, preFrameNum) \in 0..(MaxFrameNum - 1)
        BY <2>1, <4>2, AgeIs
      <4>4. 0 + Age(upcoming.frameNum, preFrameNum) < MaxFrameNum
        BY <4>3, DpbAssumption
      <4> QED  BY <1>1, <1>2, <1>3, <3>1, <3>2, <4>1, <4>4 DEF Clear
    <3> QED  BY <2>1, <3>4, <3>5
  <2> QED  BY <2>2, <2>3
<1> QED  BY <1>5, <1>6

LEMMA StoreFrames ==
    ASSUME IInv, IInv', FrameInv, Store
    PROVE  FrameInv'
<1>1. /\ pc = "bumping" /\ UNCHANGED maxLongTermPicIdx
      /\ \/ pc' = "failed" /\ UNCHANGED <<cur, marked, stream>>
         \/ Finish
  BY DEF Store
<1>2. Framed(fs') /\ shortRefs' = Shorts(fs') /\ longRefs' = Longs(fs')
  BY StoredMarks
<1>3. Distinct(fs') /\ Bounded(fs', maxLongTermPicIdx)
  BY <1>1, StoreLong
<1>4. CASE pc' = "failed" /\ UNCHANGED <<cur, marked, stream>>
  BY <1>1, <1>2, <1>3, <1>4
     DEF FrameInv, ShapeOK, ListsOK, KindOK, FlushedOK, LongOK, OrderOK, FlushPhases, stream
<1>5. CASE Finish
  <2>1. /\ cur' = NoPicture /\ marked'[5] = 0 /\ upcoming' = upcoming
        /\ pc' = IF upcoming = NoPicture THEN "ready" ELSE "gap"
    BY <1>5 DEF Finish, NoMarks
  <2>2. /\ Ordered(fs', preFrameNum')
        /\ upcoming # NoPicture =>
             /\ upcoming.frameNum # preFrameNum'
             /\ Clear(fs', preFrameNum', Age(upcoming.frameNum, preFrameNum'))
    BY <1>1, <1>5, StoreOrder
  <2>3. ShapeOK' /\ ListsOK'
    BY <1>2, <2>1 DEF ShapeOK, ListsOK, FrameInv
  <2>4. KindOK'
    BY <2>1 DEF KindOK, FrameInv, NoPicture, FlushPhases
  <2>5. FlushedOK' /\ LongOK'
    BY <1>1, <1>3, <2>1 DEF FlushedOK, LongOK, NoPicture
  <2>6. OrderOK'
    BY <2>1, <2>2 DEF OrderOK, NoPicture
  <2> QED  BY <2>3, <2>4, <2>5, <2>6 DEF FrameInv
<1> QED  BY <1>1, <1>4, <1>5

-----------------------------------------------------------------------------
(* Frame numbers                                                           *)

(* One frame number on, everything sent is one older, unless a number       *)
(* comes round.                                                            *)
LEMMA AgeNext ==
    ASSUME NEW a \in 0..(MaxFrameNum - 1), NEW b \in 0..(MaxFrameNum - 1)
    PROVE  /\ (a + 1) % MaxFrameNum \in 0..(MaxFrameNum - 1)
           /\ Age(a, b) + 1 < MaxFrameNum =>
                Age((a + 1) % MaxFrameNum, b) = Age(a, b) + 1
           /\ b # a => Age(b, (a + 1) % MaxFrameNum) = Age(b, a) - 1
<1> DEFINE c == (a + 1) % MaxFrameNum
<1>1. MaxFrameNum \in Nat \ {0}
  BY DpbAssumption
<1>2. c = (IF a + 1 = MaxFrameNum THEN 0 ELSE a + 1) /\ c \in 0..(MaxFrameNum - 1)
  <2>1. CASE a + 1 = MaxFrameNum
    BY <1>1, <2>1
  <2>2. CASE a + 1 < MaxFrameNum
    BY <1>1, <2>2
  <2> QED  BY <1>1, <2>1, <2>2
<1> HIDE DEF c
<1>3. /\ Age(a, b) = (IF b <= a THEN a - b ELSE a - b + MaxFrameNum)
      /\ Age(c, b) = (IF b <= c THEN c - b ELSE c - b + MaxFrameNum)
      /\ Age(b, a) = (IF a <= b THEN b - a ELSE b - a + MaxFrameNum)
      /\ Age(b, c) = (IF c <= b THEN b - c ELSE b - c + MaxFrameNum)
  BY <1>2, AgeIs
<1>4. Age(a, b) + 1 < MaxFrameNum => Age(c, b) = Age(a, b) + 1
  BY <1>1, <1>2, <1>3
<1>5. b # a => Age(b, c) = Age(b, a) - 1
  BY <1>1, <1>2, <1>3
<1> QED  BY <1>2, <1>4, <1>5 DEF c

LEMMA ShortNumbers ==
    ASSUME IInv, FrameInv
    PROVE  /\ \A i \in Shorts(fs) : fs[i].frameNum \in 0..(MaxFrameNum - 1)
           /\ preFrameNum \in 0..(MaxFrameNum - 1)
           /\ FrameNumAfter(1) \in 0..(MaxFrameNum - 1)
<1>1. Shorts(fs) \subseteq 1..Len(fs)
  BY DEF Shorts
<1>2. FrameNumAfter(1) \in 0..(MaxFrameNum - 1)
  BY FrameNumInRange DEF IInv
<1> QED  BY <1>1, <1>2, FrameStores DEF GoodStore, StoreType, IInv, StreamOK

(* A new reference picture leaves the order as it is, if its number is free. *)
LEMMA NextNumber ==
    ASSUME IInv, FrameInv, Clear(fs, preFrameNum, 1), Ordered(fs, preFrameNum)
    PROVE  /\ Ordered(fs, FrameNumAfter(1)) /\ Fresh(fs, FrameNumAfter(1))
           /\ \A u \in 0..(MaxFrameNum - 1) :
                u # preFrameNum /\ Clear(fs, preFrameNum, Age(u, preFrameNum))
                  => Clear(fs, FrameNumAfter(1), Age(u, FrameNumAfter(1)))
<1> DEFINE next == FrameNumAfter(1)
<1>1. \A i \in Shorts(fs) : fs[i].frameNum \in 0..(MaxFrameNum - 1)
  BY ShortNumbers
<1>2. preFrameNum \in 0..(MaxFrameNum - 1) /\ next \in 0..(MaxFrameNum - 1)
  BY ShortNumbers
<1>3. next = (preFrameNum + 1) % MaxFrameNum
  BY DEF FrameNumAfter
<1> HIDE DEF next
<1>4. \A i \in Shorts(fs) :
          /\ Age(preFrameNum, fs[i].frameNum) \in 0..(MaxFrameNum - 1)
          /\ Age(next, fs[i].frameNum) = Age(preFrameNum, fs[i].frameNum) + 1
  BY <1>1, <1>2, <1>3, AgeIs, AgeNext DEF Clear
<1>5. Ordered(fs, next)
  BY <1>4 DEF Ordered
<1>6. Fresh(fs, next)
  <2> SUFFICES ASSUME NEW i \in Shorts(fs), fs[i].frameNum = next PROVE FALSE
    BY DEF Fresh
  <2>1. Age(next, next) = 0
    BY <1>2, AgeIs
  <2> QED  BY <1>4, <2>1
<1>7. ASSUME NEW u \in 0..(MaxFrameNum - 1), u # preFrameNum,
             Clear(fs, preFrameNum, Age(u, preFrameNum))
      PROVE  Clear(fs, next, Age(u, next))
  <2>1. Age(u, next) = Age(u, preFrameNum) - 1 /\ Age(u, preFrameNum) \in 0..(MaxFrameNum - 1)
    BY <1>2, <1>3, <1>7, AgeNext, AgeIs
  <2> QED  BY <1>4, <1>7, <2>1 DEF Clear
<1> QED  BY <1>5, <1>6, <1>7 DEF next

(* No picture the standard allows has the number of a short-term reference,  *)
(* nor has one of the pictures that are missing before it.                  *)
LEMMA LegalNumber ==
    ASSUME IInv, FrameInv, NEW p \in PictureType, ~p.idr, LegalFrame(p)
    PROVE  /\ Clear(fs, preFrameNum, Age(p.frameNum, preFrameNum))
           /\ Shorts(fs) = {} \/ p.frameNum # preFrameNum
<1>1. PICK gap \in 0..MaxGap :
        /\ p.frameNum = FrameNumAfter(1 + gap)
        /\ \A n \in 1..(1 + gap) : FrameNumAfter(n) \notin ShortTermFrameNums
  BY DEF LegalFrame
<1>2. /\ \A i \in Shorts(fs) : fs[i].frameNum \in 0..(MaxFrameNum - 1)
      /\ preFrameNum \in 0..(MaxFrameNum - 1)
      /\ MaxFrameNum \in Nat \ {0} /\ gap \in Nat
  BY ShortNumbers, DpbAssumption
<1>3. \A i \in Shorts(fs) : fs[i].frameNum \in ShortTermFrameNums
  BY DEF ShortTermFrameNums, FrameInv, ListsOK
<1>4. ASSUME NEW n \in 1..MaxFrameNum
      PROVE  FrameNumAfter(n) =
               IF preFrameNum + n >= MaxFrameNum THEN preFrameNum + n - MaxFrameNum
                                                ELSE preFrameNum + n
  <2>1. CASE preFrameNum + n < MaxFrameNum
    BY <1>2, <2>1 DEF FrameNumAfter
  <2>2. CASE preFrameNum + n >= MaxFrameNum
    BY <1>2, <2>2 DEF FrameNumAfter
  <2> QED  BY <1>2, <2>1, <2>2
<1>5. ASSUME NEW i \in Shorts(fs)
      PROVE  /\ 1 + gap < MaxFrameNum
             /\ Age(preFrameNum, fs[i].frameNum) + 1 + gap < MaxFrameNum
  <2> DEFINE b == fs[i].frameNum
             n == IF b > preFrameNum THEN b - preFrameNum ELSE b - preFrameNum + MaxFrameNum
  <2>1. b \in 0..(MaxFrameNum - 1)
    BY <1>2
  <2> HIDE DEF b
  <2>2. n \in 1..MaxFrameNum
    BY <1>2, <2>1
  <2>3. FrameNumAfter(n) = b
    BY <1>2, <1>4, <2>1, <2>2
  <2>4. n > 1 + gap
    <3>1. n \notin 1..(1 + gap)
      BY <1>1, <1>3, <2>3 DEF b
    <3> QED  BY <1>2, <2>2, <3>1
  <2>5. Age(preFrameNum, b) = (IF b <= preFrameNum THEN preFrameNum - b
                                                 ELSE preFrameNum - b + MaxFrameNum)
    BY <1>2, <2>1, AgeIs
  <2> QED  BY <1>2, <2>1, <2>2, <2>4, <2>5 DEF b
<1>6. ASSUME NEW i \in Shorts(fs)
      PROVE  p.frameNum # preFrameNum /\ Age(p.frameNum, preFrameNum) = 1 + gap
  <2>1. 1 + gap \in 1..MaxFrameNum /\ 1 + gap < MaxFrameNum
    BY <1>2, <1>5
  <2>2. p.frameNum = IF preFrameNum + 1 + gap >= MaxFrameNum
                       THEN preFrameNum + 1 + gap - MaxFrameNum ELSE preFrameNum + 1 + gap
    BY <1>1, <1>2, <1>4, <2>1
  <2>3. p.frameNum \in 0..(MaxFrameNum - 1)
    BY DEF PictureType
  <2>4. Age(p.frameNum, preFrameNum) =
          IF preFrameNum <= p.frameNum THEN p.frameNum - preFrameNum
                                       ELSE p.frameNum - preFrameNum + MaxFrameNum
    BY <1>2, <2>3, AgeIs
  <2> HIDE DEF Age
  <2> QED  BY ONLY <1>2, <2>1, <2>2, <2>3, <2>4
<1>7. ASSUME NEW i \in Shorts(fs)
      PROVE  Age(preFrameNum, fs[i].frameNum) + Age(p.frameNum, preFrameNum) < MaxFrameNum
  <2>1. Age(preFrameNum, fs[i].frameNum) \in 0..(MaxFrameNum - 1)
    BY <1>2, AgeIs
  <2> QED  BY <1>2, <1>5, <1>6, <2>1
<1> QED  BY <1>6, <1>7 DEF Clear

-----------------------------------------------------------------------------
(* A frame arrives                                                         *)

LEMMA BeginFrames ==
    ASSUME IInv, IInv', FrameInv, NEW p \in PictureType, p.structure = "frame",
           ~p.long, p.adaptive => p.ref, Begin(p), pc \in {"ready", "gap"},
           UNCHANGED <<dpb, maxLongTermPicIdx, marked>>,
           \/ p.idr /\ p.ref /\ p.ltIdx = 0 /\ ~p.adaptive
           \/ ~p.idr /\ Shorts(fs) = {}
           \/ ~p.idr /\ p.frameNum = FrameNumAfter(1) /\ Clear(fs, preFrameNum, 1)
    PROVE  FrameInv'
<1>1. Carried
  BY SameDpbCarried
<1>2. /\ cur' = p /\ upcoming' = NoPicture /\ pc' = FirstStep(p)
      /\ preFrameNum' = IF p.ref THEN p.frameNum ELSE preFrameNum
  BY DEF Begin
<1>3. pc' = (IF p.idr THEN "idr" ELSE IF p.ref /\ p.adaptive THEN "marking" ELSE "placing")
  BY <1>2 DEF FirstStep
<1>4. cur = NoPicture /\ ~(marked[5] > 0) /\ marked' = marked
  BY DEF FrameInv, KindOK, NoPicture
<1>5. Listed
  BY <1>4 DEF Listed, FlushPhases, NoPicture
<1>6. ShapeOK' /\ ListsOK'
  BY <1>1, <1>2, <1>5, CarriedFacts DEF ShapeOK, ListsOK
<1>7. KindOK' /\ FlushedOK'
  BY <1>1, <1>2, <1>3, <1>4, CarriedFacts DEF KindOK, FlushedOK, FlushPhases
<1>8. LongOK'
  BY <1>1, <1>2, CarriedFacts DEF FrameInv, LongOK
<1>9. OrderOK'
  <2>1. fs' = fs
    BY DEF dpb
  <2>2. Ordered(fs, preFrameNum)
    BY DEF FrameInv, OrderOK
  <2>3. ~p.idr => Ordered(fs, preFrameNum') /\ (p.ref => Fresh(fs, p.frameNum))
    <3>1. CASE ~p.idr /\ Shorts(fs) = {}
      BY <3>1 DEF Ordered, Fresh
    <3>2. CASE ~p.idr /\ p.frameNum = FrameNumAfter(1) /\ Clear(fs, preFrameNum, 1)
      BY <1>2, <2>2, <3>2, NextNumber
    <3> QED  BY <3>1, <3>2
  <2>4. Ordered(fs, preFrameNum') => Ordered(fs', preFrameNum')
    BY <2>1 DEF Ordered, Shorts
  <2>5. Fresh(fs, p.frameNum) => Fresh(fs', p.frameNum)
    BY <2>1 DEF Fresh, Shorts
  <2> QED  BY <1>2, <1>3, <2>3, <2>4, <2>5 DEF OrderOK
<1> QED  BY <1>6, <1>7, <1>8, <1>9 DEF FrameInv

LEMMA DecodeFrames ==
    ASSUME IInv, IInv', FrameInv, NEW p \in PictureType, p.structure = "frame", ~p.long,
           p.idr => p.ref /\ p.ltIdx = 0 /\ ~p.adaptive, Decode(p)
    PROVE  FrameInv'
<1>1. ~IsSecondField(p)
  BY DEF IsSecondField, Parities
<1>2. pc = "ready" /\ LegalFrame(p) /\ (p.adaptive => p.ref)
  BY <1>1 DEF Decode, Legal, LegalFrame
<1>3. /\ cur = NoPicture /\ upcoming = NoPicture /\ ~(marked[5] > 0)
      /\ Ordered(fs, preFrameNum)
  BY <1>2 DEF FrameInv, KindOK, OrderOK, NoPicture
<1>4. UNCHANGED <<dpb, maxLongTermPicIdx, marked>>
  BY DEF Decode
<1>5. ~p.idr => /\ Clear(fs, preFrameNum, Age(p.frameNum, preFrameNum))
                /\ Shorts(fs) = {} \/ p.frameNum # preFrameNum
  BY <1>2, LegalNumber
<1>6. CASE ~p.idr /\ IsGap(p)
  <2>1. upcoming' = p /\ pc' = "gap" /\ UNCHANGED <<cur, preFrameNum>>
    BY <1>6 DEF Decode
  <2>2. p.frameNum # preFrameNum
    BY <1>6 DEF IsGap
  <2>3. Carried
    BY <1>4, SameDpbCarried
  <2>4. ShapeOK' /\ ListsOK'
    BY <1>2, <1>3, <2>1, <2>3, CarriedFacts
       DEF ShapeOK, ListsOK, Listed, FlushPhases, NoPicture
  <2>5. KindOK' /\ FlushedOK' /\ LongOK'
    BY <1>2, <1>3, <1>4, <1>6, <2>1, <2>3, CarriedFacts
       DEF KindOK, FlushedOK, LongOK, FlushPhases, NoPicture, FrameInv
  <2>6. OrderOK'
    BY <1>3, <1>5, <1>6, <2>1, <2>2, <2>3, CarriedFacts DEF OrderOK, NoPicture
  <2> QED  BY <2>4, <2>5, <2>6 DEF FrameInv
<1>7. CASE ~(~p.idr /\ IsGap(p))
  <2>1. Begin(p)
    BY <1>7 DEF Decode
  <2>2. CASE p.idr
    BY <1>2, <1>4, <2>1, <2>2, BeginFrames
  <2>3. CASE ~p.idr /\ Shorts(fs) = {}
    BY <1>2, <1>4, <2>1, <2>3, BeginFrames
  <2>4. CASE ~p.idr /\ Shorts(fs) # {}
    <3>1. p.frameNum # preFrameNum /\ p.frameNum = FrameNumAfter(1)
      BY <1>5, <1>7, <2>4 DEF IsGap
    <3>2. Clear(fs, preFrameNum, 1)
      <4>1. /\ \A i \in Shorts(fs) : fs[i].frameNum \in 0..(MaxFrameNum - 1)
            /\ preFrameNum \in 0..(MaxFrameNum - 1) /\ p.frameNum \in 0..(MaxFrameNum - 1)
        BY ShortNumbers, <3>1
      <4>2. /\ Age(p.frameNum, preFrameNum) \in 0..(MaxFrameNum - 1)
            /\ Age(p.frameNum, preFrameNum) # 0
        BY <3>1, <4>1, AgeIs
      <4>3. \A i \in Shorts(fs) : Age(preFrameNum, fs[i].frameNum) \in 0..(MaxFrameNum - 1)
        BY <4>1, AgeIs
      <4> QED  BY <1>5, <2>4, <4>2, <4>3, DpbAssumption DEF Clear
    <3> QED  BY <1>2, <1>4, <2>1, <2>4, <3>1, <3>2, BeginFrames
  <2> QED  BY <2>2, <2>3, <2>4
<1> QED  BY <1>6, <1>7

LEMMA DecodeNextFrames ==
    ASSUME OnlyFrames, IInv, IInv', FrameInv, DecodeNext
    PROVE  FrameInv'
<1>1. PICK a \in BOOLEAN, b \in BOOLEAN :
        \/ Decode(IdrPicture("frame", a, b))
        \/ \E gap \in 0..MaxGap, i \in 0..(Cardinality(sent) + ReorderDepth) :
              Decode(OtherPicture("frame", a, b, FrameNumAfter(1 + gap), 2 * i))
        \/ Decode(OtherPicture("frame", a, b, first.frameNum, first.poc + 1))
  BY DEF DecodeNext, OnlyFrames
<1>2. "frame" \in Views
  BY DEF Views
<1>3. ASSUME Decode(IdrPicture("frame", a, b)) PROVE FrameInv'
  <2> DEFINE p == IdrPicture("frame", a, b)
  <2>1. /\ p \in PictureType /\ p.structure = "frame" /\ ~p.long
        /\ p.ref /\ p.ltIdx = 0 /\ ~p.adaptive
    BY <1>2, NoPictureType DEF IdrPicture, NoPicture, PictureType
  <2> HIDE DEF p
  <2>2. Decode(p)
    BY <1>3 DEF p
  <2> QED  BY <2>1, <2>2, DecodeFrames
<1>4. ASSUME NEW n \in 0..(MaxFrameNum - 1), NEW poc \in Nat,
             Decode(OtherPicture("frame", a, b, n, poc))
      PROVE  FrameInv'
  <2> DEFINE p == OtherPicture("frame", a, b, n, poc)
  <2>1. p \in PictureType /\ p.structure = "frame" /\ ~p.long /\ ~p.idr
    BY <1>2, NoPictureType DEF OtherPicture, NoPicture, PictureType
  <2> HIDE DEF p
  <2>2. Decode(p)
    BY <1>4 DEF p
  <2> QED  BY <2>1, <2>2, DecodeFrames
<1>5. ASSUME NEW gap \in 0..MaxGap, NEW i \in 0..(Cardinality(sent) + ReorderDepth),
             Decode(OtherPicture("frame", a, b, FrameNumAfter(1 + gap), 2 * i))
      PROVE  FrameInv'
  <2>1. FrameNumAfter(1 + gap) \in 0..(MaxFrameNum - 1)
    BY DpbAssumption, FrameNumInRange DEF IInv
  <2>2. 2 * i \in Nat
    BY FS_CardinalityType, DpbAssumption DEF IInv, StreamOK
  <2> QED  BY <1>4, <1>5, <2>1, <2>2
<1>6. ASSUME Decode(OtherPicture("frame", a, b, first.frameNum, first.poc + 1))
      PROVE  FrameInv'
  <2>1. first.frameNum \in 0..(MaxFrameNum - 1) /\ first.poc + 1 \in Nat
    BY DEF IInv, StreamOK, PictureType
  <2> QED  BY <1>4, <1>6, <2>1
<1> QED  BY <1>1, <1>3, <1>5, <1>6

LEMMA FillGapFrames ==
    ASSUME IInv, IInv', FrameInv, NEW poc \in StalePocs, FillGap(poc)
    PROVE  FrameInv'
<1> DEFINE next == FrameNumAfter(1)
<1>1. /\ pc = "gap" /\ cur = NoPicture /\ ~(marked[5] > 0)
      /\ upcoming \in PictureType /\ upcoming # NoPicture
      /\ upcoming.frameNum # preFrameNum /\ upcoming.frameNum # next
  BY DEF FillGap, IsGap, FrameInv, KindOK, NoPicture, IInv, StreamOK, ControlOK, Views, Parities
<1>2. Carried
  BY SameDpbCarried DEF FillGap
<1>3. /\ cur' = [NoPicture EXCEPT !.structure = "frame", !.ref = TRUE, !.frameNum = next,
                                  !.poc = poc]
      /\ preFrameNum' = next /\ pc' = "placing"
      /\ UNCHANGED <<dpb, maxLongTermPicIdx, upcoming, marked>>
  BY DEF FillGap
<1> HIDE DEF next
<1>4. /\ cur'.structure = "frame" /\ cur'.ref /\ cur'.frameNum = next
      /\ ~cur'.adaptive /\ ~cur'.idr /\ ~cur'.long
  BY <1>3 DEF NoPicture
<1>5. ShapeOK' /\ ListsOK'
  BY <1>1, <1>2, <1>3, <1>4, CarriedFacts
     DEF ShapeOK, ListsOK, Listed, FlushPhases, NoPicture, FrameInv
<1>6. KindOK' /\ FlushedOK' /\ LongOK'
  BY <1>1, <1>2, <1>3, <1>4, CarriedFacts DEF KindOK, FlushedOK, LongOK, FlushPhases, FrameInv
<1>7. OrderOK'
  <2>1. /\ Ordered(fs, preFrameNum)
        /\ Clear(fs, preFrameNum, Age(upcoming.frameNum, preFrameNum))
    BY <1>1 DEF FrameInv, OrderOK
  <2>2. upcoming.frameNum \in 0..(MaxFrameNum - 1)
    BY <1>1 DEF PictureType
  <2>3. Clear(fs, preFrameNum, 1)
    <3>1. /\ \A i \in Shorts(fs) : fs[i].frameNum \in 0..(MaxFrameNum - 1)
          /\ preFrameNum \in 0..(MaxFrameNum - 1)
      BY ShortNumbers
    <3>2. /\ Age(upcoming.frameNum, preFrameNum) \in 0..(MaxFrameNum - 1)
          /\ Age(upcoming.frameNum, preFrameNum) # 0
      BY <1>1, <2>2, <3>1, AgeIs
    <3>3. \A i \in Shorts(fs) : Age(preFrameNum, fs[i].frameNum) \in 0..(MaxFrameNum - 1)
      BY <3>1, AgeIs
    <3> QED  BY <2>1, <3>2, <3>3, DpbAssumption DEF Clear
  <2>4. /\ Ordered(fs, next) /\ Fresh(fs, next)
        /\ Clear(fs, next, Age(upcoming.frameNum, next))
    BY <1>1, <2>1, <2>2, <2>3, NextNumber DEF next
  <2> QED  BY <1>1, <1>2, <1>3, <1>4, <2>4, CarriedFacts DEF OrderOK
<1> QED  BY <1>5, <1>6, <1>7 DEF FrameInv

LEMMA AfterGapFrames ==
    ASSUME IInv, IInv', FrameInv, AfterGap
    PROVE  FrameInv'
<1>1. /\ pc = "gap" /\ upcoming \in PictureType /\ upcoming # NoPicture
      /\ ~IsGap(upcoming) /\ Begin(upcoming)
      /\ UNCHANGED <<dpb, maxLongTermPicIdx, marked>>
  BY DEF AfterGap, IInv, StreamOK, ControlOK, NoPicture, Views, Parities
<1>2. /\ upcoming.structure = "frame" /\ ~upcoming.idr /\ ~upcoming.long
      /\ upcoming.adaptive => upcoming.ref
  BY <1>1 DEF FrameInv, ShapeOK, KindOK
<1>3. upcoming.frameNum = FrameNumAfter(1) /\ upcoming.frameNum # preFrameNum
  BY <1>1 DEF IsGap, FrameInv, OrderOK
<1>4. Clear(fs, preFrameNum, 1)
  <2>1. /\ \A i \in Shorts(fs) : fs[i].frameNum \in 0..(MaxFrameNum - 1)
        /\ preFrameNum \in 0..(MaxFrameNum - 1)
        /\ upcoming.frameNum \in 0..(MaxFrameNum - 1)
    BY ShortNumbers, <1>1 DEF PictureType
  <2>2. /\ Age(upcoming.frameNum, preFrameNum) \in 0..(MaxFrameNum - 1)
        /\ Age(upcoming.frameNum, preFrameNum) # 0
    BY <1>3, <2>1, AgeIs
  <2>3. \A i \in Shorts(fs) : Age(preFrameNum, fs[i].frameNum) \in 0..(MaxFrameNum - 1)
    BY <2>1, AgeIs
  <2>4. Clear(fs, preFrameNum, Age(upcoming.frameNum, preFrameNum))
    BY <1>1 DEF FrameInv, OrderOK
  <2> QED  BY <2>2, <2>3, <2>4, DpbAssumption DEF Clear
<1> QED  BY <1>1, <1>2, <1>3, <1>4, BeginFrames

-----------------------------------------------------------------------------
(* The control operations of a frame                                       *)

LEMMA OperationFrames ==
    ASSUME IInv, FrameInv, pc = "marking", NEW op \in 1..6,
           marked' = [marked EXCEPT ![op] = @ + 1],
           UNCHANGED <<upcoming, preFrameNum>>, pc' \in {"marking", "failed"},
           cur'.structure = cur.structure, cur'.ref = cur.ref, cur'.idr = cur.idr,
           cur'.adaptive = cur.adaptive, cur'.frameNum = cur.frameNum,
           Framed(fs'), Shorts(fs') \subseteq shortRefs', Longs(fs') \subseteq longRefs',
           \A pre : Ordered(fs, pre) => Ordered(fs', pre),
           Shorts(fs) = {} \/ op = 5 => Shorts(fs') = {}, LongOK'
    PROVE  FrameInv'
<1>1. /\ cur.adaptive /\ cur.ref /\ ~cur.idr /\ upcoming = NoPicture /\ upcoming' = NoPicture
      /\ cur.structure = "frame"
  BY DEF FrameInv, KindOK, ShapeOK, NoPicture
<1>2. marked[5] \in Nat /\ marked'[5] = IF op = 5 THEN marked[5] + 1 ELSE marked[5]
  BY DEF IInv, ControlOK
<1>3. ShapeOK' /\ ListsOK' /\ KindOK'
  BY <1>1 DEF ShapeOK, ListsOK, KindOK, Listed, FlushPhases
<1>4. FlushedOK'
  BY <1>2 DEF FlushedOK, FrameInv
<1>5. OrderOK'
  BY <1>1, <1>2 DEF OrderOK, FrameInv
<1> QED  BY <1>3, <1>4, <1>5 DEF FrameInv

\* An operation that only takes marks away, the current picture and the greatest
\* index being left as they are.
LEMMA UnmarkFrames ==
    ASSUME IInv, IInv', FrameInv, Carried, NEW op \in 1..5, Operation(op),
           op = 5 => Shorts(fs') = {}, Bounded(fs', maxLongTermPicIdx'),
           cur.long => cur.ltIdx <= maxLongTermPicIdx', UNCHANGED <<pc, cur>>
    PROVE  FrameInv'
<1>1. /\ pc = "marking" /\ marked' = [marked EXCEPT ![op] = @ + 1]
      /\ UNCHANGED <<upcoming, preFrameNum>>
  BY DEF Operation, stream
<1>2. LongOK'
  BY <1>1, CarriedFacts DEF LongOK, FrameInv
<1>3. /\ Framed(fs') /\ Shorts(fs') \subseteq shortRefs' /\ Longs(fs') \subseteq longRefs'
      /\ \A pre : Ordered(fs, pre) => Ordered(fs', pre)
      /\ Shorts(fs) = {} \/ op = 5 => Shorts(fs') = {}
  BY CarriedFacts
<1>4. op \in 1..6 /\ pc' \in {"marking", "failed"}
  BY <1>1
<1>5. /\ cur'.structure = cur.structure /\ cur'.ref = cur.ref /\ cur'.idr = cur.idr
      /\ cur'.adaptive = cur.adaptive /\ cur'.frameNum = cur.frameNum
  OBVIOUS
<1> QED  BY <1>1, <1>2, <1>3, <1>4, <1>5, OperationFrames

LEMMA MarkUnusedFrames ==
    ASSUME IInv, IInv', FrameInv,
           \/ \E d \in 0..(2 * MaxFrameNum - 1) : MarkShortUnused(d)
           \/ \E num \in 0..(2 * NumRefFrames + 1) : MarkLongUnused(num)
    PROVE  FrameInv'
<1>1. pc = "marking"
  BY DEF MarkShortUnused, MarkLongUnused, Operation
<1>2. cur.structure = "frame" /\ cur.adaptive
  BY <1>1 DEF FrameInv, ShapeOK, KindOK, NoPicture
<1>3. TargetViews = {"frame"}
  BY <1>2 DEF TargetViews
<1>4. shortRefs \subseteq 1..Len(fs) /\ longRefs \subseteq 1..Len(fs)
  BY DEF IInv, BufferOK, Positions
<1>5. PICK i \in 1..Len(fs) :
         \/ fs' = [fs EXCEPT ![i] = UnmarkForReference(fs[i])]
         \/ fs' = [fs EXCEPT ![i] = UnmarkForLongTerm(fs[i])]
  BY <1>3, <1>4 DEF MarkShortUnused, MarkLongUnused, Unmark
<1>6. /\ FrameStore(UnmarkForReference(fs[i])) /\ Keeps(fs[i], UnmarkForReference(fs[i]))
      /\ FrameStore(UnmarkForLongTerm(fs[i])) /\ Keeps(fs[i], UnmarkForLongTerm(fs[i]))
  BY FrameStores, UnmarkedFrame
<1>7. Framed(fs') /\ Loses(fs, fs')
  BY <1>5, <1>6, ReplacedLoses
<1>8. \E op \in {1, 2} : /\ Operation(op)
                         /\ shortRefs' = ShortRefsOf(fs') \/ shortRefs' = shortRefs
                         /\ longRefs' = LongRefsOf(fs') \/ longRefs' = longRefs
                         /\ UNCHANGED <<maxLongTermPicIdx, pc, cur>>
  BY DEF MarkShortUnused, MarkLongUnused
<1>9. Carried
  BY <1>2, <1>7, <1>8, LosesCarried DEF Listed
<1>10. PICK op \in {1, 2} : Operation(op) /\ UNCHANGED <<maxLongTermPicIdx, pc, cur>>
  BY <1>8
<1>11. Bounded(fs', maxLongTermPicIdx) /\ (cur.long => cur.ltIdx <= maxLongTermPicIdx)
  BY <1>1, <1>9, CarriedFacts DEF FrameInv, LongOK
<1> QED  BY <1>9, <1>10, <1>11, UnmarkFrames

LEMMA SetMaxLongTermIdxFrames ==
    ASSUME IInv, IInv', FrameInv, NEW max \in -1..(NumRefFrames - 1), SetMaxLongTermIdx(max)
    PROVE  FrameInv'
<1> DEFINE above == {i \in longRefs : fs[i].ltIdx > max}
<1>1. /\ Operation(4) /\ fs' = UnmarkedLong(fs, above) /\ maxLongTermPicIdx' = max
      /\ longRefs' = LongRefsOf(fs') /\ UNCHANGED <<shortRefs, pc, cur>>
      /\ cur.long => cur.ltIdx <= max
  BY DEF SetMaxLongTermIdx
<1>2. cur.adaptive
  BY <1>1 DEF FrameInv, KindOK, Operation
<1>3. Framed(fs) /\ GoodStores(fs)
  BY DEF FrameInv, ShapeOK, IInv, BufferOK
<1>4. /\ Framed(fs') /\ Loses(fs, fs')
      /\ \A i \in above \cap (1..Len(fs)) : fs'[i].ref = {}
  BY <1>1, <1>3, UnmarkedLoses
<1>5. Carried
  BY <1>1, <1>2, <1>4, LosesCarried DEF Listed
<1>6. Bounded(fs', max)
  <2> SUFFICES ASSUME NEW i \in Longs(fs') PROVE fs'[i].ltIdx <= max
    BY DEF Bounded
  <2>1. i \in Longs(fs) /\ i \in 1..Len(fs) /\ fs'[i].ref # {} /\ fs'[i].ltIdx = fs[i].ltIdx
    BY <1>4, FrameStores, LosesSheds DEF Longs, Loses, Keeps
  <2>2. i \in longRefs /\ i \notin above
    BY <1>4, <2>1 DEF FrameInv, ListsOK
  <2>3. fs[i].ltIdx \in Nat
    BY <2>1, FrameStores DEF GoodStore, StoreType
  <2> QED  BY <2>1, <2>2, <2>3, DpbAssumption
<1> QED  BY <1>1, <1>5, <1>6, UnmarkFrames

LEMMA MarkAllUnusedFrames ==
    ASSUME IInv, IInv', FrameInv, MarkAllUnused
    PROVE  FrameInv'
<1> DEFINE stores == [i \in 1..Len(fs) |->
                        IF i \in shortRefs THEN UnmarkForReference(fs[i]) ELSE fs[i]]
<1>1. /\ Operation(5) /\ fs' = UnmarkedLong(stores, longRefs) /\ maxLongTermPicIdx' = -1
      /\ shortRefs' = ShortRefsOf(stores) /\ UNCHANGED <<longRefs, pc, cur>> /\ ~cur.long
  BY DEF MarkAllUnused
<1>2. /\ cur.adaptive /\ Shorts(fs) \subseteq shortRefs /\ Longs(fs) \subseteq longRefs
  BY <1>1 DEF FrameInv, KindOK, ListsOK, Operation
<1>3. /\ Len(fs) \in Nat /\ Len(stores) = Len(fs)
      /\ \A i \in 1..Len(fs) : stores[i] =
            IF i \in shortRefs THEN UnmarkForReference(fs[i]) ELSE fs[i]
  BY FrameStores
<1> HIDE DEF stores
<1>4. Framed(stores) /\ Loses(fs, stores)
  BY <1>3, FrameStores, UnmarkedFrame DEF Framed, Loses, Keeps
<1>5. /\ Len(fs') = Len(fs)
      /\ \A i \in 1..Len(fs) :
            fs'[i] = IF i \in longRefs THEN UnmarkForLongTerm(stores[i]) ELSE stores[i]
  BY <1>1, <1>3 DEF UnmarkedLong
<1>6. \A i \in 1..Len(fs) : fs'[i].ref = {} /\ FrameStore(fs'[i]) /\ Keeps(fs[i], fs'[i])
  <2> SUFFICES ASSUME NEW i \in 1..Len(fs)
               PROVE  fs'[i].ref = {} /\ FrameStore(fs'[i]) /\ Keeps(fs[i], fs'[i])
    OBVIOUS
  <2>1. GoodStore(fs[i]) /\ FrameStore(fs[i])
    BY FrameStores
  <2>2. i \in shortRefs \/ i \in longRefs \/ fs[i].ref = {}
    BY <1>2 DEF Shorts, Longs
  <2>3. /\ FrameStore(UnmarkForReference(fs[i])) /\ FrameStore(UnmarkForLongTerm(fs[i]))
        /\ UnmarkForReference(fs[i]).ref = {} /\ UnmarkForLongTerm(fs[i]).ref = {}
        /\ Keeps(fs[i], UnmarkForReference(fs[i])) /\ Keeps(fs[i], UnmarkForLongTerm(fs[i]))
    BY <2>1, UnmarkedFrame
  <2>4. UnmarkForLongTerm(UnmarkForReference(fs[i])) = UnmarkForLongTerm(fs[i])
    BY <2>1 DEF UnmarkForLongTerm, UnmarkForReference, GoodStore, StoreType
  <2>5. fs'[i] \in {UnmarkForLongTerm(fs[i]), UnmarkForReference(fs[i]), fs[i]}
        /\ (fs'[i] = fs[i] => fs[i].ref = {} \/ fs'[i].ref = {})
    BY <1>3, <1>5, <2>2, <2>3, <2>4
  <2>6. Keeps(fs[i], fs[i])
    BY DEF Keeps
  <2> QED  BY <2>1, <2>3, <2>5, <2>6
<1>7. Framed(fs') /\ Loses(fs, fs') /\ Unreferenced(fs')
  BY <1>5, <1>6 DEF Framed, Loses, Unreferenced
<1>8. Shorts(fs') = {} /\ Longs(fs') = {}
  BY <1>7 DEF Unreferenced, Shorts, Longs
<1>9. Sheds(fs, fs', [i \in 1..Len(fs) |-> i])
  BY <1>7, FrameStores, LosesSheds
<1>10. Carried
  BY <1>2, <1>7, <1>8, <1>9 DEF Carried, Listed
<1>11. Bounded(fs', -1)
  BY <1>8 DEF Bounded
<1> QED  BY <1>1, <1>8, <1>10, <1>11, UnmarkFrames

(* Operation 3: the frame that had the index loses it.                      *)
LEMMA AssignLongFrames ==
    ASSUME IInv, IInv', FrameInv, NEW d \in 0..(2 * MaxFrameNum - 1),
           NEW idx \in 0..(NumRefFrames - 1), AssignLong(d, idx)
    PROVE  FrameInv'
<1>1. /\ Operation(3) /\ idx <= maxLongTermPicIdx /\ (cur.long => idx # cur.ltIdx)
      /\ shortRefs' = ShortRefsOf(fs') /\ longRefs' = LongRefsOf(fs')
      /\ UNCHANGED <<maxLongTermPicIdx, pc, cur>>
  BY DEF AssignLong
<1>2. pc = "marking" /\ cur.structure = "frame"
  BY <1>1 DEF Operation, FrameInv, ShapeOK, KindOK, NoPicture
<1>3. TargetViews = {"frame"}
  BY <1>2 DEF TargetViews
<1>4. PICK i \in shortRefs :
        LET losing == {j \in longRefs : fs[j].ltIdx = idx}
            stores == UnmarkedLong(fs, losing)
        IN  /\ IsShortTarget(fs[i], "frame")
            /\ fs' = [stores EXCEPT ![i] = MarkLong(stores[i], "frame", idx)]
  <2>1. \A same : LosingIndex(idx, "frame", same) = {j \in longRefs : fs[j].ltIdx = idx}
    BY DEF LosingIndex
  <2> QED  BY <1>3, <2>1 DEF AssignLong
<1> DEFINE losing == {j \in longRefs : fs[j].ltIdx = idx}
           stores == UnmarkedLong(fs, losing)
<1>5. i \in 1..Len(fs) /\ i \in Shorts(fs)
  BY <1>4 DEF IInv, BufferOK, Positions, IsShortTarget, Fields, Shorts, Parities, FrameInv,
              ShapeOK, Framed, FrameStore
<1>6. Framed(fs) /\ GoodStores(fs)
  BY DEF FrameInv, ShapeOK, IInv, BufferOK
<1>7. /\ Framed(stores) /\ Loses(fs, stores)
      /\ \A j \in losing \cap (1..Len(fs)) : stores[j].ref = {}
  BY <1>6, UnmarkedLoses
<1>8. /\ Len(fs) \in Nat /\ Len(stores) = Len(fs) /\ DOMAIN stores = 1..Len(fs)
  BY <1>7, FrameStores DEF Loses, UnmarkedLong
<1>9. fs' = [stores EXCEPT ![i] = MarkLong(stores[i], "frame", idx)]
  BY <1>4
<1> HIDE DEF stores
<1>10. /\ Len(fs') = Len(fs)
       /\ \A j \in 1..Len(fs) :
             fs'[j] = IF j = i THEN MarkLong(stores[i], "frame", idx) ELSE stores[j]
  BY <1>5, <1>8, <1>9
<1>11. /\ FrameStore(fs'[i]) /\ fs'[i].lt # {} /\ fs'[i].ltIdx = idx
  <2>1. fs'[i] = MarkLong(stores[i], "frame", idx)
    BY <1>5, <1>10
  <2>2. GoodStore(fs'[i]) /\ FrameStore(stores[i])
    BY <1>5, <1>7, <1>8, <1>10 DEF IInv, BufferOK, GoodStores, Framed
  <2>3. /\ fs'[i].used = stores[i].used /\ fs'[i].ref = stores[i].ref
        /\ fs'[i].lt = stores[i].lt \cup Parities /\ fs'[i].ltIdx = idx
    <3>1. stores[i] \in StoreType
      <4>1. GoodStore(fs[i])
        BY <1>5, <1>6 DEF GoodStores
      <4>2. stores[i] = UnmarkForLongTerm(fs[i]) \/ stores[i] = fs[i]
        BY <1>5 DEF stores, UnmarkedLong
      <4> QED  BY <4>1, <4>2 DEF GoodStore, StoreType, UnmarkForLongTerm, UnmarkForReference
    <3> QED  BY <2>1, <3>1 DEF MarkLong, Fields, StoreType
  <2> QED  BY <2>2, <2>3 DEF FrameStore, Parities
<1>12. Framed(fs')
  BY <1>7, <1>8, <1>10, <1>11 DEF Framed
<1>13. shortRefs' = Shorts(fs') /\ longRefs' = Longs(fs')
  <2>1. GoodStores(fs')
    BY DEF IInv, BufferOK, GoodStores, GoodStore, StoreMarksAgree
  <2> QED  BY <1>1, <1>12, <2>1, FrameLists
<1>14. \A j \in Shorts(fs') : j \in Shorts(fs) /\ fs'[j].frameNum = fs[j].frameNum
  BY <1>7, <1>10, <1>11 DEF Shorts, Loses, Keeps
<1>15. \A j \in Longs(fs') :
           \/ j = i
           \/ j \in Longs(fs) /\ fs'[j].ltIdx = fs[j].ltIdx /\ fs[j].ltIdx # idx
  <2> SUFFICES ASSUME NEW j \in Longs(fs'), j # i
               PROVE  j \in Longs(fs) /\ fs'[j].ltIdx = fs[j].ltIdx /\ fs[j].ltIdx # idx
    OBVIOUS
  <2>1. /\ j \in 1..Len(fs) /\ fs'[j] = stores[j] /\ stores[j].ref # {}
        /\ stores[j].lt # {}
    BY <1>10 DEF Longs
  <2>2. j \in Longs(fs) /\ stores[j].ltIdx = fs[j].ltIdx
    BY <1>7, <2>1 DEF Loses, Keeps, Longs
  <2>3. j \in longRefs /\ j \notin losing
    BY <1>7, <2>1, <2>2 DEF FrameInv, ListsOK
  <2> QED  BY <2>1, <2>2, <2>3
<1>16. /\ Shorts(fs) = {} => Shorts(fs') = {}
       /\ \A pre : Ordered(fs, pre) => Ordered(fs', pre)
  <2>1. ASSUME NEW pre, Ordered(fs, pre) PROVE Ordered(fs', pre)
    BY <1>14, <2>1 DEF Ordered
  <2> QED  BY <1>14, <2>1
<1>17. LongOK'
  <2>1. /\ Distinct(fs) /\ Bounded(fs, maxLongTermPicIdx)
        /\ cur.long => cur.ltIdx <= maxLongTermPicIdx /\ Free(fs, cur.ltIdx)
    BY <1>2 DEF FrameInv, LongOK
  <2>2. Distinct(fs')
    BY <1>11, <1>15, <2>1 DEF Distinct
  <2>3. Bounded(fs', maxLongTermPicIdx)
    BY <1>1, <1>11, <1>15, <2>1 DEF Bounded
  <2>4. cur.long => Free(fs', cur.ltIdx)
    BY <1>1, <1>11, <1>15, <2>1 DEF Free
  <2> QED  BY <1>1, <2>1, <2>2, <2>3, <2>4 DEF LongOK
<1>18. /\ marked' = [marked EXCEPT ![3] = @ + 1] /\ UNCHANGED <<upcoming, preFrameNum>>
       /\ pc' \in {"marking", "failed"}
  BY <1>1, <1>2 DEF Operation, stream
<1>19. /\ cur'.structure = cur.structure /\ cur'.ref = cur.ref /\ cur'.idr = cur.idr
       /\ cur'.adaptive = cur.adaptive /\ cur'.frameNum = cur.frameNum
  BY <1>1
<1>20. Shorts(fs') \subseteq shortRefs' /\ Longs(fs') \subseteq longRefs'
  BY <1>13
<1> HIDE DEF losing
<1> QED  BY <1>2, <1>12, <1>16, <1>17, <1>18, <1>19, <1>20, OperationFrames

(* Operation 6: the frame that had the index of the current one loses it.   *)
LEMMA MarkCurrentLongFrames ==
    ASSUME IInv, IInv', FrameInv, NEW idx \in 0..(NumRefFrames - 1), MarkCurrentLong(idx)
    PROVE  FrameInv'
<1> DEFINE losing == {j \in longRefs : fs[j].ltIdx = idx}
<1>1. /\ Operation(6) /\ idx <= maxLongTermPicIdx
      /\ cur' = [cur EXCEPT !.long = TRUE, !.ltIdx = idx]
      /\ pc' \in {"failed", pc}
      /\ UNCHANGED <<shortRefs, longRefs, maxLongTermPicIdx>>
  BY DEF MarkCurrentLong
<1>2. pc = "marking" /\ cur.structure = "frame" /\ cur.adaptive
  BY <1>1 DEF Operation, FrameInv, ShapeOK, KindOK, NoPicture
<1>3. fs' = UnmarkedLong(fs, losing)
  <2>1. \A same : LosingIndex(idx, "frame", same) = losing
    BY DEF LosingIndex
  <2> QED  BY <1>2, <2>1 DEF MarkCurrentLong
<1>4. Framed(fs) /\ GoodStores(fs)
  BY DEF FrameInv, ShapeOK, IInv, BufferOK
<1>5. /\ Framed(fs') /\ Loses(fs, fs')
      /\ \A j \in losing \cap (1..Len(fs)) : fs'[j].ref = {}
  BY <1>3, <1>4, UnmarkedLoses
<1>6. Carried
  BY <1>1, <1>2, <1>5, LosesCarried DEF Listed
<1>7. Free(fs', idx)
  <2> SUFFICES ASSUME NEW j \in Longs(fs') PROVE fs'[j].ltIdx # idx
    BY DEF Free
  <2>1. j \in 1..Len(fs) /\ fs'[j].ref # {} /\ j \in Longs(fs) /\ fs'[j].ltIdx = fs[j].ltIdx
    BY <1>5, FrameStores, LosesSheds DEF Longs, Loses, Keeps
  <2>2. j \in longRefs /\ j \notin losing
    BY <1>5, <2>1 DEF FrameInv, ListsOK
  <2> QED  BY <2>1, <2>2
<1>8. /\ cur'.structure = cur.structure /\ cur'.ref = cur.ref /\ cur'.idr = cur.idr
      /\ cur'.adaptive = cur.adaptive /\ cur'.frameNum = cur.frameNum /\ cur'.ltIdx = idx
  BY <1>1 DEF IInv, ControlOK, PictureType
<1>9. LongOK'
  BY <1>1, <1>6, <1>7, <1>8, CarriedFacts DEF LongOK, FrameInv
<1>10. /\ marked' = [marked EXCEPT ![6] = @ + 1] /\ UNCHANGED <<upcoming, preFrameNum>>
       /\ pc' \in {"marking", "failed"}
  BY <1>1, <1>2 DEF Operation, stream
<1>11. /\ Framed(fs') /\ Shorts(fs') \subseteq shortRefs' /\ Longs(fs') \subseteq longRefs'
       /\ \A pre : Ordered(fs, pre) => Ordered(fs', pre)
       /\ Shorts(fs) = {} => Shorts(fs') = {}
  BY <1>6, CarriedFacts
<1> HIDE DEF losing
<1> QED  BY <1>2, <1>8, <1>9, <1>10, <1>11, OperationFrames

LEMMA EndMarkingFrames ==
    ASSUME IInv, IInv', FrameInv, EndMarking
    PROVE  FrameInv'
<1>1. /\ pc = "marking" /\ UNCHANGED <<dpb, maxLongTermPicIdx, preFrameNum, upcoming, marked>>
  BY DEF EndMarking
<1>2. /\ cur.adaptive /\ cur.ref /\ ~cur.idr /\ upcoming = NoPicture /\ cur.structure = "frame"
  BY <1>1 DEF FrameInv, KindOK, ShapeOK, NoPicture
<1>3. /\ cur'.structure = cur.structure /\ cur'.ref = cur.ref /\ cur'.idr = cur.idr
      /\ cur'.adaptive = cur.adaptive /\ cur'.long = cur.long /\ cur'.ltIdx = cur.ltIdx
      /\ marked[5] = 0 => cur' = cur
      /\ pc' = IF marked[5] > 0 THEN "flush" ELSE "placing"
  <2>1. CASE marked[5] > 0
    <3>1. cur' = [cur EXCEPT !.frameNum = 0, !.poc = 0] /\ pc' = "flush"
      BY <2>1 DEF EndMarking
    <3>2. cur \in PictureType /\ marked[5] # 0
      BY <2>1 DEF IInv, ControlOK
    <3> QED  BY <2>1, <3>1, <3>2 DEF PictureType
  <2>2. CASE ~(marked[5] > 0)
    BY <2>2 DEF EndMarking
  <2> QED  BY <2>1, <2>2
<1>4. Carried
  BY <1>1, SameDpbCarried
<1>5. ShapeOK' /\ ListsOK' /\ KindOK'
  BY <1>1, <1>2, <1>3, <1>4, CarriedFacts
     DEF ShapeOK, ListsOK, KindOK, Listed, FlushPhases, FrameInv
<1>6. FlushedOK' /\ LongOK'
  BY <1>1, <1>3, <1>4, CarriedFacts DEF FlushedOK, LongOK, FrameInv
<1>7. OrderOK'
  BY <1>1, <1>2, <1>3, <1>4, CarriedFacts DEF OrderOK, FrameInv
<1> QED  BY <1>5, <1>6, <1>7 DEF FrameInv

LEMMA InitFrames ==
    ASSUME Init
    PROVE  FrameInv
BY DEF Init, FrameInv, ShapeOK, ListsOK, KindOK, FlushedOK, LongOK, OrderOK, Framed, Shorts,
       Longs, NoPicture, NoMarks, FlushPhases, Distinct, Bounded, Ordered

LEMMA NextFrames ==
    ASSUME OnlyFrames, IInv, IInv', FrameInv, [Next]_vars
    PROVE  FrameInv'
<1>1. CASE DecodeNext
  BY <1>1, DecodeNextFrames
<1>2. CASE \E poc \in StalePocs : FillGap(poc)
  BY <1>2, FillGapFrames
<1>3. CASE AfterGap
  BY <1>3, AfterGapFrames
<1>4. CASE EndStream
  BY <1>4, EndStreamFrames
<1>5. CASE Marking
  <2>1. ASSUME NEW d \in 0..(2 * MaxFrameNum - 1), NEW idx \in 0..(NumRefFrames - 1),
               AssignLong(d, idx)
        PROVE  FrameInv'
    BY <2>1, AssignLongFrames
  <2>2. ASSUME NEW max \in -1..(NumRefFrames - 1), SetMaxLongTermIdx(max)
        PROVE  FrameInv'
    BY <2>2, SetMaxLongTermIdxFrames
  <2>3. ASSUME NEW idx \in 0..(NumRefFrames - 1), MarkCurrentLong(idx)
        PROVE  FrameInv'
    BY <2>3, MarkCurrentLongFrames
  <2> QED  BY <1>5, <2>1, <2>2, <2>3, MarkUnusedFrames, MarkAllUnusedFrames,
              EndMarkingFrames DEF Marking
<1>6. CASE Storing
  <2>1. ~PairField
    BY NoPairInFrames DEF PairField
  <2> QED  BY <1>6, <2>1, SlidingWindowFrames, MakeRoomFrames, DirectOutputFrames,
              BumpFrames, StoreFrames DEF Storing
<1>7. CASE Flushing
  BY <1>7, IdrDiscardFrames, StartFlushFrames, FlushUnusedFrames, FlushOutputFrames,
     FlushEndFrames DEF Flushing
<1>8. CASE UNCHANGED vars
  <2>1. UNCHANGED <<dpb, maxLongTermPicIdx, stream, pc, cur, marked>>
    BY <1>8 DEF vars
  <2>2. /\ fs' = fs /\ shortRefs' = shortRefs /\ longRefs' = longRefs
        /\ preFrameNum' = preFrameNum /\ upcoming' = upcoming
    BY <2>1 DEF dpb, stream
  <2>3. ShapeOK' /\ ListsOK'
    BY <2>1, <2>2 DEF FrameInv, ShapeOK, ListsOK, Listed, Framed, FrameStore, Shorts, Longs
  <2>4. KindOK' /\ FlushedOK'
    BY <2>1, <2>2 DEF FrameInv, KindOK, FlushedOK, Unreferenced, Shorts
  <2>5. LongOK'
    BY <2>1, <2>2 DEF FrameInv, LongOK, Distinct, Bounded, Free, Longs
  <2>6. OrderOK'
    BY <2>1, <2>2 DEF FrameInv, OrderOK, Ordered, Clear, Fresh, Shorts, Age
  <2> QED  BY <2>3, <2>4, <2>5, <2>6 DEF FrameInv
<1> QED  BY <1>1, <1>2, <1>3, <1>4, <1>5, <1>6, <1>7, <1>8 DEF Next, Stopped

LEMMA FrameInvariance == OnlyFrames => (Spec => [](IInv /\ FrameInv))
<1> SUFFICES ASSUME OnlyFrames PROVE Spec => [](IInv /\ FrameInv)
  OBVIOUS
<1>1. Init => IInv /\ FrameInv
  BY InitIInv, InitFrames
<1>2. IInv /\ FrameInv /\ [Next]_vars => (IInv /\ FrameInv)'
  BY NextIInv, NextFrames
<1> QED  BY <1>1, <1>2, PTL DEF Spec

(* For every stream of frames, however many long-term indices there are:     *)
(* mm_assign_long_term_frame_idx, mm_mark_current_picture_long_term and      *)
(* mm_update_max_long_term_frame_idx leave no index to two frames and none   *)
(* above the maximum.  With fields a frame can keep an index that another    *)
(* one gets, when frame_num has come round.                                  *)
THEOREM LongTermIndicesAlwaysDistinct == OnlyFrames => (Spec => []LongTermIndicesDistinct)
<1>1. IInv /\ FrameInv => LongTermIndicesDistinct
  <2> SUFFICES ASSUME IInv, FrameInv PROVE LongTermIndicesDistinct
    OBVIOUS
  <2>1. LongRefsOf(fs) = Longs(fs)
    BY FrameStores
  <2>2. Distinct(fs) /\ Bounded(fs, maxLongTermPicIdx)
    BY DEF FrameInv, LongOK
  <2> QED  BY <2>1, <2>2 DEF LongTermIndicesDistinct, Distinct, Bounded
<1> QED  BY <1>1, FrameInvariance, PTL

\* What sliding_window_memory_management takes: the first short-term store.
LEMMA TakesTheFirst ==
    ASSUME IInv, IInv', FrameInv, SlidingWindow, NEW i \in Positions,
           IsShortTermReference(fs[i]), ~IsShortTermReference(fs'[i])
    PROVE  i \in Shorts(fs) /\ \A j \in Shorts(fs) : i <= j
<1>1. i \in Shorts(fs) /\ fs[i] # fs'[i]
  BY FrameStores DEF ShortRefsOf, Positions
<1>2. PICK k \in 1..Len(fs) : IsFirstShortTerm(k) /\ fs' = [fs EXCEPT ![k] = UnmarkForReference(fs[k])]
  BY <1>1 DEF SlidingWindow
<1>3. i = k
  BY <1>1, <1>2, FrameStores DEF Positions
<1>4. \A j \in Shorts(fs) : ~(j < k)
  BY <1>2 DEF IsFirstShortTerm, Shorts
<1>5. \A j \in Shorts(fs) : j \in 1..Len(fs)
  BY DEF Shorts
<1>6. Len(fs) \in Nat
  BY FrameStores
<1> QED  BY <1>1, <1>3, <1>4, <1>5, <1>6

(* For every stream of frames, every size of frame_num and every gap in it:  *)
(* the short-term frame that leaves is the one with the smallest             *)
(* FrameNumWrap, as 8.2.5.3 asks, though the code takes the first it meets.  *)
THEOREM OldestAlwaysLeaves == OnlyFrames => (Spec => OldestShortTermLeaves)
<1> SUFFICES ASSUME OnlyFrames PROVE Spec => OldestShortTermLeaves
  OBVIOUS
<1> DEFINE Oldest ==
      pc = "placing" =>
        \A i \in Positions :
            IsShortTermReference(fs[i]) /\ ~IsShortTermReference(fs'[i]) =>
                \A j \in shortRefs : FrameNumWrap(fs[i]) <= FrameNumWrap(fs[j])
<1>1. ASSUME IInv, IInv', FrameInv, [Next]_vars PROVE Oldest
  <2> SUFFICES ASSUME pc = "placing", NEW i \in Positions, IsShortTermReference(fs[i]),
                      ~IsShortTermReference(fs'[i])
               PROVE  \A j \in shortRefs : FrameNumWrap(fs[i]) <= FrameNumWrap(fs[j])
    OBVIOUS
  <2>1. fs[i] # fs'[i]
    OBVIOUS
  <2>2. SlidingWindow
    <3>1. ~PairField
      BY <1>1, NoPairInFrames DEF PairField
    <3> QED
      BY <1>1, <2>1, <3>1
         DEF Next, DecodeNext, Decode, FillGap, AfterGap, EndStream, Marking, MarkShortUnused,
             MarkLongUnused, AssignLong, SetMaxLongTermIdx, MarkAllUnused, MarkCurrentLong,
             EndMarking, Operation, Storing, MakeRoom, DirectOutput, Bump, Store, Flushing,
             IdrDiscard, StartFlush, FlushUnused, FlushOutput, FlushEnd, Stopped, vars, dpb
  <2>3. i \in Shorts(fs) /\ \A j \in Shorts(fs) : i <= j
    BY <1>1, <2>2, TakesTheFirst
  <2>4. cur.ref /\ ~cur.idr /\ ~cur.adaptive
    BY <2>1, <2>2 DEF SlidingWindow
  <2>5. /\ shortRefs = Shorts(fs) /\ preFrameNum = cur.frameNum
        /\ Ordered(fs, preFrameNum)
    BY <1>1, <2>4 DEF FrameInv, ListsOK, Listed, FlushPhases, OrderOK, KindOK, IInv, ControlOK
  <2> SUFFICES ASSUME NEW j \in Shorts(fs)
               PROVE  FrameNumWrap(fs[i]) <= FrameNumWrap(fs[j])
    BY <2>5
  <2>6. /\ fs[i].frameNum \in 0..(MaxFrameNum - 1) /\ fs[j].frameNum \in 0..(MaxFrameNum - 1)
        /\ cur.frameNum \in 0..(MaxFrameNum - 1) /\ i \in Nat /\ j \in Nat
    <3>1. i \in 1..Len(fs) /\ j \in 1..Len(fs)
      BY <2>3 DEF Shorts
    <3>2. cur.frameNum \in 0..(MaxFrameNum - 1)
      BY <1>1 DEF IInv, ControlOK, PictureType
    <3>3. fs[i].frameNum \in 0..(MaxFrameNum - 1) /\ fs[j].frameNum \in 0..(MaxFrameNum - 1)
      BY <1>1, <2>3, ShortNumbers
    <3> QED  BY <3>1, <3>2, <3>3
  <2>7. \A n \in 0..(MaxFrameNum - 1) :
            /\ Age(cur.frameNum, n) \in Nat
            /\ cur.frameNum - Age(cur.frameNum, n) = IF n > cur.frameNum THEN n - MaxFrameNum ELSE n
    <3> SUFFICES ASSUME NEW n \in 0..(MaxFrameNum - 1)
                 PROVE  /\ Age(cur.frameNum, n) \in Nat
                        /\ cur.frameNum - Age(cur.frameNum, n) =
                               IF n > cur.frameNum THEN n - MaxFrameNum ELSE n
      OBVIOUS
    <3>1. /\ Age(cur.frameNum, n) =
                 IF n <= cur.frameNum THEN cur.frameNum - n ELSE cur.frameNum - n + MaxFrameNum
          /\ Age(cur.frameNum, n) \in 0..(MaxFrameNum - 1)
      BY <2>6, AgeIs
    <3> QED  BY <2>6, <3>1, DpbAssumption
  <2> DEFINE a == Age(cur.frameNum, fs[i].frameNum)
             b == Age(cur.frameNum, fs[j].frameNum)
  <2>10. /\ FrameNumWrap(fs[i]) = cur.frameNum - a /\ FrameNumWrap(fs[j]) = cur.frameNum - b
         /\ a \in Nat /\ b \in Nat /\ cur.frameNum \in Nat
    BY <2>6, <2>7 DEF FrameNumWrap
  <2>8. CASE i = j
    BY <2>8, <2>10
  <2>9. CASE i < j
    <3>1. Age(cur.frameNum, fs[j].frameNum) < Age(cur.frameNum, fs[i].frameNum)
      BY <2>3, <2>5, <2>9 DEF Ordered
    <3> HIDE DEF a, b
    <3>2. b < a
      BY <3>1 DEF a, b
    <3> QED  BY <2>10, <3>2
  <2> QED  BY <2>3, <2>6, <2>8, <2>9
<1> QED
  <2>1. IInv /\ IInv' /\ FrameInv /\ [Next]_vars => [Oldest]_vars
    BY <1>1
  <2> QED  BY <2>1, FrameInvariance, PTL DEF Spec, OldestShortTermLeaves

-----------------------------------------------------------------------------
(* Pairs of fields                                                         *)

(* PairInv follows last_picture from the first field that sets it to the field that  *)
(* looks at it: the store it points to is the one of the first field that waits      *)
(* (IsHeld), or one of a reference field that has stayed alone, whose frame_num no   *)
(* later reference field has and which differs from other fields by its kind (Lone). *)
(* A first field that was shown directly is not in the buffer; then the second field *)
(* is shown directly too (IsShown), which needs that no unused store is left in the  *)
(* full buffer (FullOK) and that no first field of another frame comes between the   *)
(* two in display order (EvenOK).                                                    *)

\* Only reference fields stay alone, and the decoder sees that pictures are missing.
PairsCome == FALSE \notin LoneFields /\ MaxGap + 1 < MaxFrameNum

IsFirstField(p) == p.structure \in Parities /\ ~IsSecondField(p)
Complements(p, q) ==
    /\ p.structure = Opposite(q.structure) /\ p.frameNum = q.frameNum
    /\ p.poc = q.poc + 1 /\ p.ref = q.ref

\* A field has the number of the last reference picture or the next one.
NumberOK(p) ==
    IF p.ref THEN preFrameNum = p.frameNum ELSE p.frameNum \in {preFrameNum, FrameNumAfter(1)}

EvenOK == \A i \in Positions : fs[i].output \/ fs[i].poc % 2 = 0

CurrentOK ==
    /\ pc \in {"ready", "gap"} => cur = NoPicture
    /\ pc = "idr" => cur.idr
    /\ pc = "marking" => cur.ref /\ ~cur.idr
    /\ cur # NoPicture /\ ~IsSecondField(cur) =>
         first = NoPicture /\ (cur.structure \in Parities \/ cur.exists => cur.poc % 2 = 0)
    /\ IsSecondField(cur) =>
         /\ pc \in StorePhases \cup {"failed"}
         /\ first # NoPicture /\ Complements(cur, first)
    /\ marked[5] > 0 => cur.structure = "frame" /\ cur.ref
    /\ cur.structure \in Parities => NumberOK(cur)
    /\ pc \in FlushPhases /\ cur # NoPicture /\ ~cur.idr => cur.structure = "frame" /\ cur.ref

UpcomingOK ==
    /\ pc = "gap" => first = NoPicture /\ upcoming # NoPicture
    /\ upcoming # NoPicture =>
         /\ upcoming.poc % 2 = 0 /\ ~upcoming.idr
         /\ pc # "gap" => cur.structure = "frame" /\ cur.ref /\ ~cur.idr

Lone(s) == s.orig /\ s.frameNum = preFrameNum

LastOK ==
    lastPicture # 0 =>
        LET s == fs[lastPicture]
        IN  /\ pc = "ready" /\ first = NoPicture => Lone(s)
            /\ pc = "gap" => Lone(s) /\ IsGap(upcoming)
            /\ pc \in StorePhases /\ ~cur.ref /\ ~IsSecondField(cur) => Lone(s)
            /\ pc \in StorePhases /\ cur.ref /\ IsFirstField(cur) =>
                 s.orig /\ s.frameNum # cur.frameNum
            /\ pc = "ready" \/ (pc \in StorePhases /\ IsSecondField(cur)) =>
                 (s.orig => s.frameNum = preFrameNum)

IsHeld ==
    /\ lastPicture # 0
    /\ fs[lastPicture].used = {first.structure}
    /\ fs[lastPicture].frameNum = first.frameNum
    /\ fs[lastPicture].orig = first.ref
    /\ fs[lastPicture].poc = first.poc

IsShown ==
    /\ ~first.ref /\ Len(fs) = DpbSize
    /\ \A i \in Positions : ~IsUnused(i)
    /\ \A i \in Waiting : first.poc < fs[i].poc
    /\ lastPicture # 0 => fs[lastPicture].orig

FirstOK ==
    first # NoPicture =>
        /\ first.structure \in Parities /\ first.poc % 2 = 0
        /\ NumberOK(first)
        /\ pc \in {"ready", "marking", "placing"} => IsHeld \/ IsShown
        /\ pc \in {"room", "bumping"} => IsShown

FullOK == pc = "bumping" /\ Len(fs) = DpbSize => \A i \in Positions : ~IsUnused(i)

PairInv == EvenOK /\ CurrentOK /\ UpcomingOK /\ LastOK /\ FirstOK /\ FullOK

LEMMA InitPairs == Init => PairInv
<1> SUFFICES ASSUME Init PROVE PairInv
  OBVIOUS
<1> USE DEF Init
<1>1. EvenOK /\ FullOK /\ LastOK /\ FirstOK /\ UpcomingOK
  BY DEF EvenOK, FullOK, LastOK, FirstOK, UpcomingOK, Positions
<1>2. CurrentOK
  BY DEF CurrentOK, IsSecondField, NoPicture, NoMarks, FlushPhases, Parities
<1> QED  BY <1>1, <1>2 DEF PairInv

-----------------------------------------------------------------------------
(* A picture arrives                                                       *)

(* A frame number comes round after MaxFrameNum of them, and not before.    *)
LEMMA NumberMoves ==
    ASSUME StreamOK, NEW n \in Nat, 0 < n, n < MaxFrameNum
    PROVE  FrameNumAfter(n) # preFrameNum
<1>1. MaxFrameNum \in Nat \ {0} /\ preFrameNum \in 0..(MaxFrameNum - 1)
  BY DpbAssumption DEF StreamOK
<1>2. CASE preFrameNum + n < MaxFrameNum
  BY <1>1, <1>2 DEF FrameNumAfter
<1>3. CASE preFrameNum + n >= MaxFrameNum
  BY <1>1, <1>3 DEF FrameNumAfter
<1> QED  BY <1>1, <1>2, <1>3

\* What the stream is known to send: an IDR picture is a reference with number 0.
Sent(p) == p.idr => p.poc = 0 /\ p.frameNum = 0 /\ p.ref

(* The second field of a frame follows its first without a gap.             *)
LEMMA SecondFieldPairs ==
    ASSUME IInv, PairInv, NEW p \in PictureType, p.structure \in Views, Sent(p),
           Decode(p), IsSecondField(p)
    PROVE  PairInv'
<1>1. /\ pc = "ready" /\ first # NoPicture /\ Complements(p, first) /\ ~p.idr
      /\ p.adaptive => p.ref
  BY DEF Decode, Legal, LegalSecondField, Complements, Sent, IsSecondField
<1>2. first.structure \in Parities /\ first.poc % 2 = 0 /\ NumberOK(first)
  BY <1>1 DEF PairInv, FirstOK
<1>3. NumberOK(p) /\ ~IsGap(p)
  BY <1>1, <1>2 DEF NumberOK, Complements, IsGap
<1>4. /\ Begin(p) /\ first' = first /\ UNCHANGED <<dpb, maxLongTermPicIdx, output, marked>>
  BY <1>3 DEF Decode
<1>5. /\ cur' = p /\ upcoming' = NoPicture /\ preFrameNum' = preFrameNum
      /\ pc' \in {"marking", "placing"} /\ (pc' = "marking" => p.ref)
  BY <1>1, <1>3, <1>4 DEF Begin, FirstStep, NumberOK
<1>6. UNCHANGED <<fs, lastPicture>>
  BY <1>4 DEF dpb
<1>7. NumberOK(p)' /\ NumberOK(first)'
  BY <1>2, <1>3, <1>4, <1>5 DEF NumberOK, FrameNumAfter
<1>8. EvenOK' /\ FullOK' /\ UpcomingOK'
  BY <1>5, <1>6 DEF PairInv, EvenOK, FullOK, UpcomingOK, Positions
<1>9. marked'[5] > 0 => FALSE
  BY <1>1, <1>4 DEF PairInv, CurrentOK, NoPicture
<1>10. CurrentOK'
  BY <1>1, <1>4, <1>5, <1>7, <1>9 DEF CurrentOK, StorePhases, FlushPhases
<1>11. LastOK'
  BY <1>1, <1>4, <1>5, <1>6 DEF PairInv, LastOK, IsFirstField, StorePhases
<1>12. (IsHeld \/ IsShown)'
  BY <1>1, <1>4, <1>6 DEF PairInv, FirstOK, IsHeld, IsShown, Positions, Waiting, IsUnused
<1>13. FirstOK'
  BY <1>2, <1>4, <1>5, <1>7, <1>12 DEF FirstOK
<1> QED  BY <1>8, <1>10, <1>11, <1>13 DEF PairInv

(* What last_picture points to when a picture begins that has no first      *)
(* field before it.                                                         *)
LEMMA LastIsLone ==
    ASSUME IInv, PairInv, PairsCome, NEW p, LegalFrame(p), pc = "ready", lastPicture # 0
    PROVE  Lone(fs[lastPicture])
<1>1. CASE first = NoPicture
  BY <1>1 DEF PairInv, LastOK
<1>2. CASE first # NoPicture
  <2>1. first.ref
    BY <1>2 DEF LegalFrame, PairsCome, IInv, StreamOK, PictureType
  <2>2. IsHeld
    BY <1>2, <2>1 DEF PairInv, FirstOK, IsShown
  <2> QED  BY <2>1, <2>2 DEF PairInv, LastOK, IsHeld, Lone
<1> QED  BY <1>1, <1>2

LEMMA FirstFieldPairs ==
    ASSUME IInv, PairInv, PairsCome, NEW p \in PictureType, p.structure \in Views, Sent(p),
           Decode(p), ~IsSecondField(p)
    PROVE  PairInv'
<1>1. /\ pc = "ready" /\ p.poc % 2 = 0 /\ LegalFrame(p) /\ first' = NoPicture
      /\ p.adaptive => p.ref
  BY DEF Decode, Legal, LegalFrame
<1>2. UNCHANGED <<fs, lastPicture, marked>>
  BY DEF Decode, dpb
<1>3. cur = NoPicture /\ p # NoPicture /\ (marked[5] > 0 => FALSE)
  BY <1>1 DEF PairInv, CurrentOK, NoPicture, Views, Parities
<1>4. lastPicture # 0 => Lone(fs[lastPicture])
  BY <1>1, LastIsLone
<1>5. EvenOK' /\ FirstOK'
  BY <1>1, <1>2 DEF PairInv, EvenOK, FirstOK, Positions
<1>6. CASE ~p.idr /\ IsGap(p)
  <2>1. upcoming' = p /\ pc' = "gap" /\ cur' = NoPicture /\ preFrameNum' = preFrameNum
    BY <1>3, <1>6 DEF Decode
  <2>2. FullOK' /\ UpcomingOK'
    BY <1>1, <1>3, <1>6, <2>1 DEF FullOK, UpcomingOK
  <2>3. CurrentOK'
    BY <1>2, <1>3, <2>1
       DEF CurrentOK, IsSecondField, NoPicture, FlushPhases, Parities
  <2>4. LastOK'
    <3>1. IsGap(p)'
      BY <1>6, <2>1 DEF IsGap, FrameNumAfter
    <3>2. lastPicture # 0 => Lone(fs[lastPicture])'
      BY <1>2, <1>4, <2>1 DEF Lone
    <3> QED  BY <1>2, <2>1, <3>1, <3>2 DEF LastOK, StorePhases, IsGap, FrameNumAfter
  <2> QED  BY <1>5, <2>2, <2>3, <2>4 DEF PairInv
<1>7. CASE ~(~p.idr /\ IsGap(p))
  <2>1. /\ cur' = p /\ upcoming' = NoPicture
        /\ preFrameNum' = IF p.ref THEN p.frameNum ELSE preFrameNum
        /\ pc' = FirstStep(p)
    BY <1>7 DEF Decode, Begin
  <2>2. /\ pc' \in {"idr", "marking", "placing"} /\ (pc' = "idr" <=> p.idr)
        /\ pc' = "marking" => p.ref
    BY <2>1 DEF FirstStep
  <2>3. FullOK' /\ UpcomingOK'
    BY <2>1, <2>2 DEF FullOK, UpcomingOK
  <2>4. p.structure \in Parities => NumberOK(p)'
    <3>1. CASE p.ref
      BY <2>1, <3>1 DEF NumberOK
    <3>2. CASE ~p.ref
      <4>1. ~IsGap(p) /\ preFrameNum' = preFrameNum
        BY <1>7, <2>1, <3>2 DEF Sent
      <4> QED  BY <3>2, <4>1 DEF NumberOK, IsGap, FrameNumAfter
    <3> QED  BY <3>1, <3>2
  <2>5. CurrentOK'
    BY <1>1, <1>2, <1>3, <2>1, <2>2, <2>4 DEF CurrentOK, FlushPhases
  <2>6. LastOK'
    <3>1. CASE p.idr
      BY <2>1, <2>2, <3>1 DEF LastOK, StorePhases
    <3>2. CASE ~p.idr
      <4>1. PICK gap \in 0..MaxGap : p.frameNum = FrameNumAfter(1 + gap)
        BY <1>1, <3>2 DEF LegalFrame
      <4>2. p.frameNum # preFrameNum
        <5>1. 1 + gap \in Nat /\ 0 < 1 + gap /\ 1 + gap < MaxFrameNum
          BY DpbAssumption DEF PairsCome
        <5> QED  BY <4>1, <5>1, NumberMoves DEF IInv
      <4> QED  BY <1>1, <1>2, <1>4, <2>1, <2>2, <3>2, <4>2
               DEF LastOK, Lone, StorePhases
    <3> QED  BY <3>1, <3>2
  <2> QED  BY <1>5, <2>3, <2>5, <2>6 DEF PairInv
<1> QED  BY <1>6, <1>7

LEMMA DecodeNextPairs ==
    ASSUME IInv, PairInv, PairsCome, DecodeNext
    PROVE  PairInv'
<1>1. ASSUME NEW p \in PictureType, p.structure \in Views, Sent(p), Decode(p)
      PROVE  PairInv'
  BY <1>1, SecondFieldPairs, FirstFieldPairs
<1>2. PICK structure \in Structures, a \in BOOLEAN, b \in BOOLEAN :
        \/ Decode(IdrPicture(structure, a, b))
        \/ \E gap \in 0..MaxGap, i \in 0..(Cardinality(sent) + ReorderDepth) :
              Decode(OtherPicture(structure, a, b, FrameNumAfter(1 + gap), 2 * i))
        \/ Decode(OtherPicture(structure, a, b, first.frameNum, first.poc + 1))
  BY DEF DecodeNext
<1>3. structure \in Views
  BY DpbAssumption
<1>4. ASSUME Decode(IdrPicture(structure, a, b)) PROVE PairInv'
  <2> DEFINE p == IdrPicture(structure, a, b)
  <2>1. p \in PictureType /\ p.structure = structure /\ Sent(p)
    BY <1>3, NoPictureType DEF IdrPicture, NoPicture, PictureType, Sent
  <2> HIDE DEF p
  <2>2. Decode(p)
    BY <1>4 DEF p
  <2> QED  BY <1>1, <1>3, <2>1, <2>2
<1>5. ASSUME NEW n \in 0..(MaxFrameNum - 1), NEW poc \in Nat,
             Decode(OtherPicture(structure, a, b, n, poc))
      PROVE  PairInv'
  <2> DEFINE p == OtherPicture(structure, a, b, n, poc)
  <2>1. p \in PictureType /\ p.structure = structure /\ Sent(p)
    BY <1>3, NoPictureType DEF OtherPicture, NoPicture, PictureType, Sent
  <2> HIDE DEF p
  <2>2. Decode(p)
    BY <1>5 DEF p
  <2> QED  BY <1>1, <1>3, <2>1, <2>2
<1>6. ASSUME NEW gap \in 0..MaxGap, NEW i \in 0..(Cardinality(sent) + ReorderDepth),
             Decode(OtherPicture(structure, a, b, FrameNumAfter(1 + gap), 2 * i))
      PROVE  PairInv'
  <2>1. FrameNumAfter(1 + gap) \in 0..(MaxFrameNum - 1)
    BY DpbAssumption, FrameNumInRange DEF IInv
  <2>2. 2 * i \in Nat
    BY FS_CardinalityType, DpbAssumption DEF IInv, StreamOK
  <2> QED  BY <1>5, <1>6, <2>1, <2>2
<1>7. ASSUME Decode(OtherPicture(structure, a, b, first.frameNum, first.poc + 1))
      PROVE  PairInv'
  <2>1. first.frameNum \in 0..(MaxFrameNum - 1) /\ first.poc + 1 \in Nat
    BY DEF IInv, StreamOK, PictureType
  <2> QED  BY <1>5, <1>7, <2>1
<1> QED  BY <1>2, <1>4, <1>6, <1>7

LEMMA FillGapPairs ==
    ASSUME IInv, PairInv, NEW poc \in StalePocs, FillGap(poc)
    PROVE  PairInv'
<1>1. /\ pc = "gap" /\ pc' = "placing" /\ first = NoPicture /\ first' = NoPicture
      /\ upcoming # NoPicture /\ upcoming' = upcoming
      /\ UNCHANGED <<fs, lastPicture, marked>> /\ cur = NoPicture
  BY DEF FillGap, PairInv, UpcomingOK, CurrentOK, dpb
<1>2. cur'.structure = "frame" /\ cur'.ref /\ ~cur'.idr /\ ~cur'.exists /\ cur' # NoPicture
  BY DEF FillGap, NoPicture
<1>3. ~IsSecondField(cur')
  BY <1>2 DEF IsSecondField, Parities
<1>4. EvenOK' /\ FirstOK' /\ FullOK'
  BY <1>1 DEF PairInv, EvenOK, FirstOK, FullOK, Positions
<1>5. UpcomingOK' /\ CurrentOK'
  BY <1>1, <1>2, <1>3 DEF PairInv, UpcomingOK, CurrentOK, FlushPhases, Parities, NoPicture
<1>6. LastOK'
  BY <1>1, <1>2, <1>3 DEF LastOK, IsFirstField, Parities
<1> QED  BY <1>4, <1>5, <1>6 DEF PairInv

LEMMA AfterGapPairs ==
    ASSUME IInv, PairInv, AfterGap
    PROVE  PairInv'
<1>1. /\ pc = "gap" /\ ~IsGap(upcoming) /\ Begin(upcoming) /\ first = NoPicture /\ first' = NoPicture
      /\ upcoming.poc % 2 = 0 /\ ~upcoming.idr /\ upcoming # NoPicture
      /\ UNCHANGED <<fs, lastPicture, marked>> /\ cur = NoPicture
  BY DEF AfterGap, PairInv, UpcomingOK, CurrentOK, dpb
<1>2. lastPicture = 0
  BY <1>1 DEF PairInv, LastOK
<1>3. /\ cur' = upcoming /\ upcoming' = NoPicture
      /\ preFrameNum' = IF upcoming.ref THEN upcoming.frameNum ELSE preFrameNum
      /\ pc' \in {"marking", "placing"} /\ (pc' = "marking" => upcoming.ref)
  BY <1>1 DEF Begin, FirstStep
<1>4. NumberOK(cur)'
  BY <1>1, <1>3 DEF NumberOK, IsGap, FrameNumAfter
<1>5. ~IsSecondField(upcoming)
  BY <1>1 DEF IsSecondField
<1>6. EvenOK' /\ FirstOK' /\ FullOK' /\ LastOK' /\ UpcomingOK'
  BY <1>1, <1>2, <1>3 DEF PairInv, EvenOK, FirstOK, FullOK, LastOK, UpcomingOK, Positions
<1>7. CurrentOK'
  BY <1>1, <1>3, <1>4, <1>5 DEF PairInv, CurrentOK, FlushPhases, NoPicture, NumberOK
<1> QED  BY <1>6, <1>7 DEF PairInv

LEMMA EndStreamPairs ==
    ASSUME IInv, PairInv, EndStream
    PROVE  PairInv'
<1>1. pc = "ready" /\ pc' = "flush" /\ UNCHANGED <<fs, lastPicture, cur, marked, first, upcoming, preFrameNum>>
  BY DEF EndStream, stream, dpb
<1>2. cur = NoPicture
  BY <1>1 DEF PairInv, CurrentOK
<1>3. EvenOK' /\ FullOK' /\ LastOK' /\ UpcomingOK'
  BY <1>1, <1>2 DEF PairInv, EvenOK, FullOK, LastOK, UpcomingOK, Positions, StorePhases
<1>4. FirstOK'
  BY <1>1 DEF PairInv, FirstOK, NumberOK, FrameNumAfter
<1>5. CurrentOK'
  BY <1>1, <1>2 DEF PairInv, CurrentOK, IsSecondField, NoPicture, Parities
<1> QED  BY <1>3, <1>4, <1>5 DEF PairInv

-----------------------------------------------------------------------------
(* Steps that move or mark stores                                          *)

\* The stores stay where they are and differ in their marks only.
SameFields(s, t) ==
    /\ t.used = s.used /\ t.orig = s.orig /\ t.frameNum = s.frameNum
    /\ t.poc = s.poc /\ t.firstPoc = s.firstPoc /\ t.output = s.output

Remarked ==
    /\ Len(fs') = Len(fs) /\ lastPicture' = lastPicture
    /\ \A i \in 1..Len(fs) : SameFields(fs[i], fs'[i])

\* Stores go or are written, and last_picture follows the store it points to.
Moved ==
    /\ EvenOK'
    /\ lastPicture' # 0 =>
         /\ lastPicture # 0
         /\ fs'[lastPicture'].orig = fs[lastPicture].orig
         /\ fs'[lastPicture'].frameNum = fs[lastPicture].frameNum

LEMMA RemarkedMoves ==
    ASSUME IInv, PairInv, Remarked
    PROVE  Moved
<1>1. lastPicture # 0 => lastPicture \in 1..Len(fs)
  BY DEF IInv, BufferOK, Positions
<1> QED  BY <1>1 DEF Moved, Remarked, SameFields, PairInv, EvenOK, Positions

LEMMA UnmarkedSame ==
    ASSUME NEW s, GoodStore(s)
    PROVE  /\ SameFields(s, UnmarkForReference(s)) /\ SameFields(s, UnmarkForLongTerm(s))
           /\ \A view \in Views, long \in BOOLEAN : SameFields(s, Unmark(s, view, long))
           /\ \A view \in Views, idx \in Nat : SameFields(s, MarkLong(s, view, idx))
BY DEF SameFields, GoodStore, StoreType, UnmarkForReference, UnmarkForLongTerm, Unmark, MarkLong

(* One store is marked or unmarked.                                        *)
LEMMA ReplacedRemarks ==
    ASSUME IInv, lastPicture' = lastPicture, NEW stores, Len(stores) = Len(fs),
           \A i \in 1..Len(fs) : SameFields(fs[i], stores[i]), GoodStores(stores),
           NEW i \in 1..Len(fs), NEW s, SameFields(fs[i], s),
           fs' = [stores EXCEPT ![i] = s]
    PROVE  Remarked
<1>1. /\ Len(fs') = Len(fs)
      /\ \A j \in 1..Len(fs) : fs'[j] = IF j = i THEN s ELSE stores[j]
  BY DEF GoodStores
<1> QED  BY <1>1 DEF Remarked

(* Several are unmarked.                                                   *)
LEMMA UnmarkedLongSame ==
    ASSUME NEW stores, GoodStores(stores), NEW positions
    PROVE  /\ Len(UnmarkedLong(stores, positions)) = Len(stores)
           /\ \A i \in 1..Len(stores) :
                SameFields(stores[i], UnmarkedLong(stores, positions)[i])
<1>1. Len(stores) \in Nat /\ \A i \in 1..Len(stores) : GoodStore(stores[i])
  BY DEF GoodStores
<1>2. /\ Len(UnmarkedLong(stores, positions)) = Len(stores)
      /\ \A i \in 1..Len(stores) : UnmarkedLong(stores, positions)[i] =
             IF i \in positions THEN UnmarkForLongTerm(stores[i]) ELSE stores[i]
  BY <1>1 DEF UnmarkedLong
<1> QED  BY <1>1, <1>2, UnmarkedSame DEF SameFields

LEMMA StartFlushRemarks ==
    ASSUME IInv, StartFlush
    PROVE  Remarked
<1>1. /\ fs' = [i \in 1..Len(fs) |-> UnmarkForReference(fs[i])]
      /\ lastPicture' = lastPicture /\ Len(fs) \in Nat
      /\ \A i \in 1..Len(fs) : GoodStore(fs[i])
  BY DEF StartFlush, AllUnmarked, IInv, BufferOK, GoodStores
<1>2. Len(fs') = Len(fs) /\ \A i \in 1..Len(fs) : fs'[i] = UnmarkForReference(fs[i])
  BY <1>1
<1> QED  BY <1>1, <1>2, UnmarkedSame DEF Remarked

(* remove_frame_from_dpb.                                                  *)
LEMMA RemoveShortens ==
    ASSUME NEW stores, NEW pos, Len(stores) - 1 \in Nat, RemoveFrame(stores, pos)
    PROVE  Len(fs') = Len(stores) - 1
<1>1. fs' = [i \in 1..(Len(stores) - 1) |-> IF i < pos THEN stores[i] ELSE stores[i + 1]]
  BY DEF RemoveFrame
<1> QED  BY <1>1

LEMMA RemoveMoves ==
    ASSUME IInv, NEW stores, Len(stores) = Len(fs), NEW pos \in 1..Len(stores),
           \A i \in 1..Len(stores) :
               /\ stores[i].output \/ stores[i].poc % 2 = 0
               /\ stores[i].orig = fs[i].orig /\ stores[i].frameNum = fs[i].frameNum,
           RemoveFrame(stores, pos)
    PROVE  Moved
<1>1. Len(fs) \in Nat /\ lastPicture \in 1..Len(fs) \cup {0}
  BY DEF IInv, BufferOK, GoodStores, Positions
<1>2. fs' = [i \in 1..(Len(stores) - 1) |-> IF i < pos THEN stores[i] ELSE stores[i + 1]]
  BY DEF RemoveFrame
<1>3. Len(fs') = Len(stores) - 1 /\ Len(fs') \in Nat
  <2>1. Len(stores) - 1 \in Nat
    BY <1>1
  <2> QED  BY <2>1, <1>2
<1>4. \A i \in 1..Len(fs') : fs'[i] = IF i < pos THEN stores[i] ELSE stores[i + 1]
  BY <1>2, <1>3
<1>5. EvenOK'
  <2> SUFFICES ASSUME NEW i \in 1..Len(fs') PROVE fs'[i].output \/ fs'[i].poc % 2 = 0
    BY DEF EvenOK, Positions
  <2>1. i \in 1..Len(stores) /\ i + 1 \in 1..Len(stores)
    BY <1>1, <1>3
  <2> QED  BY <1>4, <2>1
<1>6. ASSUME lastPicture' # 0
      PROVE  /\ lastPicture # 0 /\ lastPicture' \in 1..Len(fs')
             /\ fs'[lastPicture'] = stores[lastPicture]
  <2>1. lastPicture # pos /\ lastPicture' = Shifted(lastPicture, pos)
    BY <1>6 DEF RemoveFrame
  <2>2. lastPicture # 0
    BY <1>1, <1>6, <2>1 DEF Shifted
  <2>3. lastPicture \in 1..Len(stores)
    BY <1>1, <2>2
  <2>4. CASE lastPicture < pos
    BY <1>1, <1>3, <1>4, <2>1, <2>2, <2>3, <2>4 DEF Shifted
  <2>5. CASE lastPicture > pos
    BY <1>1, <1>3, <1>4, <2>1, <2>2, <2>3, <2>5 DEF Shifted
  <2> QED  BY <2>1, <2>3, <2>4, <2>5
<1> QED  BY <1>1, <1>5, <1>6 DEF Moved

LEMMA UnusedMoves ==
    ASSUME IInv, PairInv, RemoveUnusedFrame
    PROVE  Moved
<1>1. PICK pos \in 1..Len(fs) : RemoveFrame(fs, pos)
  BY DEF RemoveUnusedFrame
<1>2. \A i \in 1..Len(fs) : fs[i].output \/ fs[i].poc % 2 = 0
  BY DEF PairInv, EvenOK, Positions
<1> QED  BY <1>1, <1>2, RemoveMoves

LEMMA OutputMoves ==
    ASSUME IInv, PairInv, NEW pos \in Waiting, OutputOneFrame(pos)
    PROVE  Moved
<1> DEFINE s == Written(fs[pos])
           stores == [fs EXCEPT ![pos] = s]
<1>1. pos \in 1..Len(fs) /\ GoodStore(fs[pos])
  BY DEF Waiting, IInv, BufferOK, GoodStores
<1>2. s.output /\ s.orig = fs[pos].orig /\ s.frameNum = fs[pos].frameNum
  BY <1>1 DEF Written, GoodStore, StoreType
<1> HIDE DEF s
<1>3. /\ Len(stores) = Len(fs) /\ Len(fs) \in Nat
      /\ \A i \in 1..Len(fs) : stores[i] = IF i = pos THEN s ELSE fs[i]
  BY <1>1 DEF IInv, BufferOK, GoodStores
<1>4. \A i \in 1..Len(fs) :
          /\ stores[i].output \/ stores[i].poc % 2 = 0
          /\ stores[i].orig = fs[i].orig /\ stores[i].frameNum = fs[i].frameNum
  BY <1>2, <1>3 DEF PairInv, EvenOK, Positions
<1>5. /\ fs' = stores /\ lastPicture' = lastPicture
      \/ RemoveFrame(stores, pos)
  BY DEF OutputOneFrame, s
<1> HIDE DEF stores
<1>6. CASE fs' = stores /\ lastPicture' = lastPicture
  <2>1. lastPicture # 0 => lastPicture \in 1..Len(fs)
    BY DEF IInv, BufferOK, Positions
  <2> QED  BY <1>3, <1>4, <1>6, <2>1 DEF Moved, EvenOK, Positions
<1>7. CASE RemoveFrame(stores, pos)
  BY <1>1, <1>3, <1>4, <1>7, RemoveMoves
<1> QED  BY <1>5, <1>6, <1>7

-----------------------------------------------------------------------------
(* Flushing                                                                *)

LEMMA FlushingPairs ==
    ASSUME IInv, PairInv, StartFlush \/ FlushUnused \/ FlushOutput
    PROVE  PairInv'
<1>1. /\ pc \in FlushPhases \cup {"idr"} /\ pc' \in FlushPhases \cup {"failed"}
      /\ pc = "idr" => cur.idr
      /\ UNCHANGED <<cur, marked, first, upcoming, preFrameNum>>
  BY DEF StartFlush, FlushUnused, FlushOutput, OutputOneFrame, FlushPhases, stream,
         PairInv, CurrentOK
<1>2. ~IsSecondField(cur)
  BY <1>1 DEF PairInv, CurrentOK, FlushPhases, StorePhases
<1>3. Moved
  <2>1. CASE StartFlush
    BY <2>1, StartFlushRemarks, RemarkedMoves
  <2>2. CASE FlushUnused
    <3>1. CASE RemoveUnusedFrame
      BY <3>1, UnusedMoves
    <3>2. CASE UNCHANGED dpb
      BY <3>2 DEF dpb, Moved, PairInv, EvenOK, Positions
    <3> QED  BY <2>2, <3>1, <3>2 DEF FlushUnused
  <2>3. CASE FlushOutput
    BY <2>3, OutputMoves DEF FlushOutput
  <2> QED  BY <2>1, <2>2, <2>3
<1>4. EvenOK' /\ FullOK' /\ LastOK'
  BY <1>1, <1>3 DEF Moved, FullOK, LastOK, FlushPhases, StorePhases
<1>5. FirstOK' /\ UpcomingOK'
  BY <1>1 DEF PairInv, FirstOK, UpcomingOK, NumberOK, FrameNumAfter, FlushPhases
<1>6. CurrentOK'
  BY <1>1, <1>2 DEF PairInv, CurrentOK, NumberOK, FrameNumAfter, FlushPhases
<1> QED  BY <1>4, <1>5, <1>6 DEF PairInv

LEMMA IdrMarkingPairs ==
    ASSUME IInv, PairInv, cur.idr, IdrMarking, EvenOK', UNCHANGED <<stream, marked>>,
           pc \in FlushPhases \cup {"idr"}
    PROVE  PairInv'
<1>1. /\ pc' = "placing" /\ lastPicture' = 0
      /\ UNCHANGED <<marked, first, upcoming, preFrameNum>>
  BY DEF IdrMarking, stream
<1>2. /\ cur'.structure = cur.structure /\ cur'.ref = cur.ref /\ cur'.idr = cur.idr
      /\ cur'.poc = cur.poc /\ cur'.frameNum = cur.frameNum /\ cur'.exists = cur.exists
  BY DEF IdrMarking, IInv, ControlOK, PictureType
<1>3. ~IsSecondField(cur) /\ ~IsSecondField(cur') /\ cur # NoPicture
  BY <1>2 DEF PairInv, CurrentOK, FlushPhases, StorePhases, IsSecondField, NoPicture
<1>4. first = NoPicture /\ (cur.structure \in Parities \/ cur.exists => cur.poc % 2 = 0)
  BY <1>3 DEF PairInv, CurrentOK
<1>5. FirstOK' /\ FullOK' /\ LastOK' /\ UpcomingOK'
  BY <1>1, <1>2, <1>4 DEF PairInv, FirstOK, FullOK, LastOK, UpcomingOK, FlushPhases
<1>6. CurrentOK'
  BY <1>1, <1>2, <1>3, <1>4 DEF PairInv, CurrentOK, NumberOK, FrameNumAfter, FlushPhases
<1> QED  BY <1>5, <1>6 DEF PairInv

LEMMA IdrDiscardPairs ==
    ASSUME IInv, PairInv, IdrDiscard
    PROVE  PairInv'
<1>1. cur.idr /\ IdrMarking /\ pc = "idr" /\ UNCHANGED <<stream, marked>> /\ fs' = <<>>
  BY DEF IdrDiscard, PairInv, CurrentOK
<1>2. EvenOK'
  BY <1>1 DEF EvenOK, Positions
<1> QED  BY <1>1, <1>2, IdrMarkingPairs

LEMMA FlushEndPairs ==
    ASSUME IInv, PairInv, FlushEnd
    PROVE  PairInv'
<1>1. pc = "bumpall" /\ UNCHANGED <<stream, marked>> /\ fs' = fs
  BY DEF FlushEnd, dpb
<1>2. EvenOK'
  BY <1>1 DEF PairInv, EvenOK, Positions
<1>3. CASE cur.idr
  BY <1>1, <1>2, <1>3, IdrMarkingPairs DEF FlushEnd, FlushPhases
<1>4. CASE ~cur.idr
  <2>1. /\ pc' = (IF cur = NoPicture THEN "ended" ELSE "placing")
        /\ UNCHANGED <<lastPicture, cur, first, upcoming, preFrameNum>>
    BY <1>1, <1>4 DEF FlushEnd, dpb, stream
  <2>2. /\ cur # NoPicture => cur.structure = "frame" /\ cur.ref
        /\ ~IsSecondField(cur)
    BY <1>1, <1>4 DEF PairInv, CurrentOK, FlushPhases, StorePhases
  <2>3. FullOK' /\ UpcomingOK'
    BY <1>1, <2>1 DEF PairInv, FullOK, UpcomingOK
  <2>4. LastOK'
    BY <2>1, <2>2 DEF LastOK, IsFirstField, StorePhases, Parities
  <2>5. CurrentOK'
    BY <1>1, <2>1, <2>2 DEF PairInv, CurrentOK, NumberOK, FrameNumAfter, FlushPhases
  <2>6. FirstOK'
    <3>1. CASE cur = NoPicture
      BY <1>1, <2>1, <3>1 DEF PairInv, FirstOK, NumberOK, FrameNumAfter
    <3>2. CASE cur # NoPicture
      BY <2>1, <2>2, <3>2 DEF PairInv, CurrentOK, FirstOK
    <3> QED  BY <3>1, <3>2
  <2> QED  BY <1>2, <2>3, <2>4, <2>5, <2>6 DEF PairInv
<1> QED  BY <1>3, <1>4

-----------------------------------------------------------------------------
(* Control operations                                                      *)

LEMMA MarkingStepPairs ==
    ASSUME IInv, PairInv, pc = "marking", pc' \in {"marking", "failed"}, Remarked,
           UNCHANGED stream, marked'[5] > 0 => marked[5] > 0 \/ cur.structure = "frame",
           cur'.structure = cur.structure, cur'.ref = cur.ref, cur'.idr = cur.idr,
           cur'.poc = cur.poc, cur'.frameNum = cur.frameNum, cur'.exists = cur.exists
    PROVE  PairInv'
<1>1. /\ UNCHANGED <<first, upcoming, preFrameNum, lastPicture>>
      /\ cur.ref /\ ~cur.idr /\ cur # NoPicture /\ cur' # NoPicture
  BY DEF PairInv, CurrentOK, stream, Remarked, NoPicture
<1>2. /\ IsSecondField(cur') <=> IsSecondField(cur)
      /\ IsFirstField(cur') <=> IsFirstField(cur)
      /\ Complements(cur', first) <=> Complements(cur, first)
  BY DEF IsSecondField, IsFirstField, Complements
<1>3. Moved
  BY RemarkedMoves
<1>4. EvenOK' /\ FullOK'
  BY <1>3 DEF Moved, FullOK
<1>5. LastOK'
  BY <1>1, <1>2, <1>3 DEF PairInv, LastOK, Moved, Lone, StorePhases
<1>6. UpcomingOK'
  BY <1>1 DEF PairInv, UpcomingOK
<1>7. NumberOK(cur) => NumberOK(cur)'
  BY <1>1 DEF NumberOK, FrameNumAfter
<1>8. CurrentOK'
  <2>1. IsSecondField(cur)' => Complements(cur, first)'
    BY <1>1, <1>2 DEF PairInv, CurrentOK, IsSecondField, Complements
  <2>2. (cur # NoPicture /\ ~IsSecondField(cur) =>
           first = NoPicture /\ (cur.structure \in Parities \/ cur.exists => cur.poc % 2 = 0))'
    BY <1>1, <1>2 DEF PairInv, CurrentOK, IsSecondField
  <2>3. (IsSecondField(cur) => first # NoPicture)'
    BY <1>1, <1>2 DEF PairInv, CurrentOK, IsSecondField
  <2>4. (marked[5] > 0 => cur.structure = "frame" /\ cur.ref)'
    BY <1>1 DEF PairInv, CurrentOK
  <2> QED  BY <1>1, <1>7, <2>1, <2>2, <2>3, <2>4
           DEF PairInv, CurrentOK, StorePhases, FlushPhases
<1>9. FirstOK'
  <2>1. first # NoPicture => first.ref
    BY <1>1 DEF PairInv, CurrentOK, Complements
  <2>2. IsHeld => IsHeld'
    <3>1. lastPicture # 0 => lastPicture \in 1..Len(fs)
      BY DEF IInv, BufferOK, Positions
    <3> QED  BY <1>1, <3>1 DEF IsHeld, Remarked, SameFields
  <2>3. first # NoPicture => IsHeld
    BY <2>1 DEF PairInv, FirstOK, IsShown
  <2> QED  BY <1>1, <2>2, <2>3 DEF PairInv, FirstOK, NumberOK, FrameNumAfter
<1> QED  BY <1>4, <1>5, <1>6, <1>8, <1>9 DEF PairInv

LEMMA OneRemarks ==
    ASSUME IInv,
           \/ \E d \in 0..(2 * MaxFrameNum - 1) : MarkShortUnused(d)
           \/ \E num \in 0..(2 * NumRefFrames + 1) : MarkLongUnused(num)
           \/ \E d \in 0..(2 * MaxFrameNum - 1), idx \in 0..(NumRefFrames - 1) : AssignLong(d, idx)
    PROVE  Remarked
<1>1. lastPicture' = lastPicture
  BY DEF MarkShortUnused, MarkLongUnused, AssignLong, Operation
<1>3. TargetViews \subseteq Views
  BY DEF TargetViews, Views
<1>4. /\ shortRefs \subseteq 1..Len(fs) /\ longRefs \subseteq 1..Len(fs)
      /\ GoodStores(fs) /\ \A i \in 1..Len(fs) : GoodStore(fs[i])
  BY DEF IInv, BufferOK, Positions, GoodStores
<1>5. CASE \/ \E d \in 0..(2 * MaxFrameNum - 1) : MarkShortUnused(d)
           \/ \E num \in 0..(2 * NumRefFrames + 1) : MarkLongUnused(num)
  <2>1. PICK i \in 1..Len(fs), view \in Views, long \in BOOLEAN :
           fs' = [fs EXCEPT ![i] = Unmark(fs[i], view, long)]
    BY <1>3, <1>4, <1>5 DEF MarkShortUnused, MarkLongUnused
  <2>2. SameFields(fs[i], Unmark(fs[i], view, long))
    BY <1>4, UnmarkedSame
  <2>3. \A j \in 1..Len(fs) : SameFields(fs[j], fs[j])
    BY DEF SameFields
  <2> QED  BY <1>1, <1>4, <2>1, <2>2, <2>3, ReplacedRemarks
<1>6. ASSUME NEW d \in 0..(2 * MaxFrameNum - 1), NEW idx \in 0..(NumRefFrames - 1), AssignLong(d, idx)
      PROVE  Remarked
  <2>1. PICK i \in 1..Len(fs), view \in Views, positions \in SUBSET longRefs :
           fs' = [UnmarkedLong(fs, positions) EXCEPT ![i] =
                     MarkLong(UnmarkedLong(fs, positions)[i], view, idx)]
    <3> DEFINE frameNum == (IF PicNumX(d) < 0 THEN PicNumX(d) + 2 * MaxFrameNum
                                              ELSE PicNumX(d)) \div 2
               sameFrame == {j \in longRefs : fs[j].frameNum = frameNum}
    <3>1. PICK i \in shortRefs, view \in TargetViews :
             fs' = [UnmarkedLong(fs, LosingIndex(idx, view, sameFrame)) EXCEPT ![i] =
                       MarkLong(UnmarkedLong(fs, LosingIndex(idx, view, sameFrame))[i], view, idx)]
      BY <1>6 DEF AssignLong
    <3>2. LosingIndex(idx, view, sameFrame) \in SUBSET longRefs
      BY DEF LosingIndex
    <3> HIDE DEF sameFrame
    <3> QED  BY <1>3, <1>4, <3>1, <3>2
  <2> DEFINE stores == UnmarkedLong(fs, positions)
  <2>2. /\ Len(stores) = Len(fs) /\ GoodStores(stores)
        /\ \A j \in 1..Len(fs) : SameFields(fs[j], stores[j])
    BY <1>4, UnmarkedLongSame, UnmarkedLongGood
  <2> HIDE DEF stores
  <2>3. fs' = [stores EXCEPT ![i] = MarkLong(stores[i], view, idx)]
    BY <2>1 DEF stores
  <2>4. GoodStore(stores[i]) /\ idx \in Nat
    BY <2>2, DpbAssumption DEF GoodStores
  <2>5. SameFields(fs[i], MarkLong(stores[i], view, idx))
    <3>1. SameFields(stores[i], MarkLong(stores[i], view, idx))
      BY <2>4, UnmarkedSame
    <3> QED  BY <2>2, <3>1 DEF SameFields
  <2> QED  BY <1>1, <2>2, <2>3, <2>5, ReplacedRemarks
<1> QED  BY <1>5, <1>6

LEMMA SeveralRemarks ==
    ASSUME IInv,
           \/ \E max \in -1..(NumRefFrames - 1) : SetMaxLongTermIdx(max)
           \/ MarkAllUnused
           \/ \E idx \in 0..(NumRefFrames - 1) : MarkCurrentLong(idx)
    PROVE  Remarked
<1>1. lastPicture' = lastPicture
  BY DEF SetMaxLongTermIdx, MarkAllUnused, MarkCurrentLong, Operation
<1>4. GoodStores(fs) /\ Len(fs) \in Nat /\ \A i \in 1..Len(fs) : GoodStore(fs[i])
  BY DEF IInv, BufferOK, GoodStores
<1>5. \E stores, positions :
        /\ fs' = UnmarkedLong(stores, positions)
        /\ GoodStores(stores) /\ Len(stores) = Len(fs)
        /\ \A i \in 1..Len(fs) : SameFields(fs[i], stores[i])
  <2>1. CASE \/ \E max \in -1..(NumRefFrames - 1) : SetMaxLongTermIdx(max)
             \/ \E idx \in 0..(NumRefFrames - 1) : MarkCurrentLong(idx)
    <3>1. \E positions : fs' = UnmarkedLong(fs, positions)
      BY <2>1 DEF SetMaxLongTermIdx, MarkCurrentLong
    <3>2. \A i \in 1..Len(fs) : SameFields(fs[i], fs[i])
      BY DEF SameFields
    <3> QED  BY <1>4, <3>1, <3>2
  <2>2. CASE MarkAllUnused
    <3> DEFINE stores == [i \in 1..Len(fs) |->
                            IF i \in shortRefs THEN UnmarkForReference(fs[i]) ELSE fs[i]]
    <3>1. \A i \in 1..Len(fs) : stores[i] = (IF i \in shortRefs THEN UnmarkForReference(fs[i]) ELSE fs[i])
      OBVIOUS
    <3>2. \A i \in 1..Len(fs) : GoodStore(stores[i]) /\ SameFields(fs[i], stores[i])
      BY <1>4, <3>1, UnmarkForReferenceGood, UnmarkedSame DEF SameFields
    <3>3. stores = [i \in 1..Len(fs) |-> stores[i]] /\ fs' = UnmarkedLong(stores, longRefs)
      BY <2>2 DEF MarkAllUnused
    <3> HIDE DEF stores
    <3>4. GoodStores(stores) /\ Len(stores) = Len(fs)
      BY <1>4, <3>2, <3>3, GoodStoresFrom
    <3> QED  BY <3>2, <3>3, <3>4
  <2> QED  BY <2>1, <2>2
<1>6. PICK stores, positions :
        /\ fs' = UnmarkedLong(stores, positions)
        /\ GoodStores(stores) /\ Len(stores) = Len(fs)
        /\ \A i \in 1..Len(fs) : SameFields(fs[i], stores[i])
  BY <1>5
<1>7. /\ Len(fs') = Len(fs)
      /\ \A i \in 1..Len(fs) : SameFields(stores[i], fs'[i])
  BY <1>6, UnmarkedLongSame
<1> QED  BY <1>1, <1>6, <1>7 DEF Remarked, SameFields

LEMMA MarkingRemarks ==
    ASSUME IInv, Marking
    PROVE  Remarked
<1>1. CASE EndMarking
  BY <1>1 DEF EndMarking, Remarked, SameFields, dpb
<1> QED  BY <1>1, OneRemarks, SeveralRemarks DEF Marking

LEMMA MarkingPairs ==
    ASSUME IInv, PairInv, Marking, ~EndMarking
    PROVE  PairInv'
<1>1. PICK op \in 1..6 : Operation(op) /\ (op = 5 => cur.structure = "frame")
  <2>1. \/ \E op \in {1, 2, 3, 4, 6} : Operation(op)
        \/ MarkAllUnused
    BY DEF Marking, MarkShortUnused, MarkLongUnused, AssignLong, SetMaxLongTermIdx,
           MarkCurrentLong
  <2>2. CASE \E op \in {1, 2, 3, 4, 6} : Operation(op)
    BY <2>2
  <2>3. CASE MarkAllUnused
    <3>1. Operation(5) /\ cur.structure = "frame"
      BY <2>3 DEF MarkAllUnused
    <3> QED  BY <3>1
  <2> QED  BY <2>1, <2>2, <2>3
<1>2. /\ pc = "marking" /\ UNCHANGED stream /\ marked' = [marked EXCEPT ![op] = @ + 1]
  BY <1>1 DEF Operation
<1>3. marked'[5] > 0 => marked[5] > 0 \/ cur.structure = "frame"
  BY <1>1, <1>2 DEF IInv, ControlOK
<1>4. /\ pc' \in {"marking", "failed"}
      /\ cur' = cur \/ \E idx : cur' = [cur EXCEPT !.long = TRUE, !.ltIdx = idx]
  BY <1>2 DEF Marking, MarkShortUnused, MarkLongUnused, AssignLong, SetMaxLongTermIdx, MarkAllUnused,
         MarkCurrentLong
<1>5. /\ cur'.structure = cur.structure /\ cur'.ref = cur.ref /\ cur'.idr = cur.idr
      /\ cur'.poc = cur.poc /\ cur'.frameNum = cur.frameNum /\ cur'.exists = cur.exists
  BY <1>4 DEF IInv, ControlOK, PictureType
<1> QED  BY <1>2, <1>3, <1>4, <1>5, MarkingRemarks, MarkingStepPairs

LEMMA EndMarkingPairs ==
    ASSUME IInv, PairInv, EndMarking
    PROVE  PairInv'
<1>1. /\ pc = "marking" /\ cur.ref /\ ~cur.idr /\ cur # NoPicture
      /\ UNCHANGED <<fs, lastPicture, preFrameNum, upcoming, first, marked>>
  BY DEF EndMarking, PairInv, CurrentOK, dpb, NoPicture
<1>2. EvenOK'
  BY <1>1 DEF PairInv, EvenOK, Positions
<1>3. CASE marked[5] > 0
  <2>1. /\ cur' = [cur EXCEPT !.frameNum = 0, !.poc = 0] /\ pc' = "flush"
        /\ cur.structure = "frame" /\ cur \in PictureType
    BY <1>3 DEF EndMarking, PairInv, CurrentOK, IInv, ControlOK
  <2>2. cur'.structure = "frame" /\ cur'.ref /\ ~cur'.idr /\ cur'.poc = 0
    BY <1>1, <2>1 DEF PictureType
  <2>3. ~IsSecondField(cur) /\ ~IsSecondField(cur')
    BY <2>1, <2>2 DEF IsSecondField, Parities
  <2>4. first = NoPicture
    BY <1>1, <2>3 DEF PairInv, CurrentOK
  <2>5. FullOK' /\ LastOK' /\ FirstOK' /\ UpcomingOK'
    BY <1>1, <2>1, <2>2, <2>4 DEF PairInv, FullOK, LastOK, FirstOK, UpcomingOK, StorePhases
  <2>6. CurrentOK'
    BY <1>1, <2>1, <2>2, <2>3, <2>4 DEF CurrentOK, Parities
  <2> QED  BY <1>2, <2>5, <2>6 DEF PairInv
<1>4. CASE ~(marked[5] > 0)
  <2>1. pc' = "placing" /\ cur' = cur
    BY <1>4 DEF EndMarking
  <2>2. FullOK' /\ UpcomingOK'
    BY <1>1, <2>1 DEF PairInv, FullOK, UpcomingOK
  <2>3. LastOK'
    BY <1>1, <2>1 DEF PairInv, LastOK, Lone, StorePhases, IsFirstField
  <2>4. FirstOK'
    BY <1>1, <2>1 DEF PairInv, FirstOK, IsHeld, IsShown, NumberOK, FrameNumAfter, Positions,
                      Waiting, IsUnused
  <2>5. CurrentOK'
    BY <1>1, <2>1 DEF PairInv, CurrentOK, NumberOK, FrameNumAfter, StorePhases, FlushPhases
  <2> QED  BY <1>2, <2>2, <2>3, <2>4, <2>5 DEF PairInv
<1> QED  BY <1>3, <1>4

-----------------------------------------------------------------------------
(* Storing                                                                 *)

(* After a field there is no other picture that waits for a gap.            *)
LEMMA NothingUpcoming ==
    ASSUME PairInv, pc \in StorePhases, ~cur.ref \/ cur.structure # "frame"
    PROVE  upcoming = NoPicture
BY DEF PairInv, UpcomingOK, StorePhases

(* last_picture is used only for the second field of the frame it holds.    *)
LEMMA PairIsSecond ==
    ASSUME IInv, PairInv, pc = "placing", HasStoredPair
    PROVE  /\ IsSecondField(cur) /\ IsHeld
           /\ upcoming = NoPicture /\ marked[5] \in Nat /\ ~(marked[5] > 0)
<1>1. /\ cur.structure \in Parities /\ lastPicture # 0 /\ cur # NoPicture
      /\ fs[lastPicture].frameNum = cur.frameNum /\ fs[lastPicture].orig = cur.ref
  BY DEF HasStoredPair, NoPicture, Parities
<1>2. IsSecondField(cur)
  <2> SUFFICES ASSUME ~IsSecondField(cur) PROVE FALSE
    OBVIOUS
  <2>1. CASE cur.ref
    BY <1>1, <2>1 DEF PairInv, LastOK, IsFirstField, StorePhases
  <2>2. CASE ~cur.ref
    BY <1>1, <2>2 DEF PairInv, LastOK, Lone, StorePhases
  <2> QED  BY <2>1, <2>2
<1>3. first # NoPicture /\ first.ref = cur.ref
  BY <1>2 DEF PairInv, CurrentOK, Complements
<1>4. IsHeld
  <2>1. ~IsShown
    BY <1>1, <1>3 DEF IsShown
  <2> QED  BY <1>3, <2>1 DEF PairInv, FirstOK
<1>5. upcoming = NoPicture
  BY <1>1, NothingUpcoming DEF StorePhases, Parities
<1>6. marked[5] \in Nat /\ ~(marked[5] > 0)
  BY <1>1 DEF PairInv, CurrentOK, Parities, IInv, ControlOK
<1> QED  BY <1>2, <1>4, <1>5, <1>6

(* The end of a picture that leaves no field waiting.                       *)
LEMMA FinishWhole ==
    ASSUME IInv, PairInv, pc \in StorePhases, Finish, first' = NoPicture, EvenOK',
           ~(marked[5] > 0) \/ lastPicture' = 0, upcoming # NoPicture => lastPicture' = 0,
           lastPicture' # 0 => Lone(fs'[lastPicture'])
    PROVE  PairInv'
<1>1. /\ pc' = (IF upcoming = NoPicture THEN "ready" ELSE "gap")
      /\ cur' = NoPicture /\ marked' = NoMarks /\ upcoming' = upcoming
      /\ ~(marked[5] > 0) => preFrameNum' = preFrameNum
  BY DEF Finish
<1>2. FirstOK' /\ FullOK'
  BY <1>1 DEF FirstOK, FullOK
<1>3. CurrentOK'
  BY <1>1 DEF CurrentOK, NoMarks, IsSecondField, NoPicture, FlushPhases, Parities
<1>4. UpcomingOK'
  BY <1>1 DEF PairInv, UpcomingOK, StorePhases
<1>5. LastOK'
  BY <1>1 DEF LastOK, Lone, StorePhases
<1> QED  BY <1>2, <1>3, <1>4, <1>5 DEF PairInv

(* The end of a first field, stored or shown.                              *)
LEMMA FinishFirst ==
    ASSUME IInv, PairInv, pc \in StorePhases, Finish, IsFirstField(cur), EvenOK',
           (IsHeld \/ IsShown)',
           lastPicture' # 0 => (fs'[lastPicture'].orig => fs'[lastPicture'].frameNum = preFrameNum)
    PROVE  PairInv'
<1>1. cur.structure \in Parities /\ ~IsSecondField(cur) /\ cur # NoPicture
  BY DEF IsFirstField, NoPicture, Parities
<1>2. upcoming = NoPicture
  BY <1>1, NothingUpcoming DEF Parities
<1>3. ~(marked[5] > 0) /\ cur.poc % 2 = 0 /\ NumberOK(cur)
  BY <1>1 DEF PairInv, CurrentOK, Parities
<1>4. /\ pc' = "ready" /\ cur' = NoPicture /\ marked' = NoMarks /\ upcoming' = NoPicture
      /\ preFrameNum' = preFrameNum /\ first' = cur
  BY <1>1, <1>2, <1>3 DEF Finish
<1>5. FullOK' /\ UpcomingOK'
  BY <1>4 DEF FullOK, UpcomingOK
<1>6. CurrentOK'
  BY <1>4 DEF CurrentOK, NoMarks, IsSecondField, NoPicture, FlushPhases, Parities
<1>7. LastOK'
  BY <1>1, <1>4 DEF LastOK, StorePhases
<1>8. FirstOK'
  BY <1>1, <1>3, <1>4 DEF FirstOK, NumberOK, FrameNumAfter
<1> QED  BY <1>5, <1>6, <1>7, <1>8 DEF PairInv

LEMMA PairFieldPairs ==
    ASSUME IInv, PairInv, PairField
    PROVE  PairInv'
<1>1. pc = "placing" /\ HasStoredPair /\ Finish /\ lastPicture' = 0
  BY DEF PairField
<1>2. IsSecondField(cur) /\ IsHeld
  BY <1>1, PairIsSecond
<1>3. /\ first # NoPicture /\ Complements(cur, first) /\ first.poc % 2 = 0
      /\ first.poc \in Nat /\ first.structure \in Parities
  BY <1>1, <1>2 DEF PairInv, CurrentOK, FirstOK, IInv, StreamOK, PictureType
<1>4. EvenOK'
  <2> DEFINE s == Insert(fs[lastPicture], cur)
  <2>1. s.poc = first.poc
    <3>1. fs[lastPicture].used # {} /\ fs[lastPicture].poc < cur.poc
      BY <1>2, <1>3 DEF IsHeld, Complements
    <3> QED  BY <1>2, <3>1 DEF Insert, IsHeld
  <2>2. fs' = [fs EXCEPT ![lastPicture] = s]
    BY DEF PairField
  <2> HIDE DEF s
  <2>3. /\ Len(fs') = Len(fs)
        /\ \A i \in 1..Len(fs) : fs'[i] = IF i = lastPicture THEN s ELSE fs[i]
    BY <2>2 DEF IInv, BufferOK, GoodStores
  <2> QED  BY <1>3, <2>1, <2>3 DEF PairInv, EvenOK, Positions
<1>5. first' = NoPicture
  BY <1>1, <1>2 DEF Finish
<1> QED  BY <1>1, <1>4, <1>5, FinishWhole DEF StorePhases

(* A picture that goes on to the next place.                                *)
LEMMA NextPlacePairs ==
    ASSUME IInv, PairInv, pc \in {"placing", "room", "bumping"}, pc' \in {"room", "bumping", "failed"},
           UNCHANGED <<stream, cur, marked>>, Moved, FullOK',
           first # NoPicture => pc' # "failed" /\ IsShown'
    PROVE  PairInv'
<1>1. UNCHANGED <<first, upcoming, preFrameNum, cur, marked>>
  BY DEF stream
<1>2. EvenOK' /\ FullOK'
  BY DEF Moved
<1>3. LastOK'
  BY <1>1 DEF PairInv, LastOK, Moved, Lone, StorePhases, IsFirstField
<1>4. UpcomingOK'
  BY <1>1 DEF PairInv, UpcomingOK
<1>5. CurrentOK'
  BY <1>1 DEF PairInv, CurrentOK, NumberOK, FrameNumAfter, StorePhases, FlushPhases
<1>6. FirstOK'
  BY <1>1 DEF PairInv, FirstOK, NumberOK, FrameNumAfter
<1> QED  BY <1>2, <1>3, <1>4, <1>5, <1>6 DEF PairInv

\* Where the first field was shown, the second is no reference either.
LEMMA ShownSecond ==
    ASSUME IInv, PairInv, first # NoPicture, pc \in StorePhases, IsShown
    PROVE  IsSecondField(cur) /\ Complements(cur, first) /\ ~cur.ref
<1>1. cur # NoPicture
  BY DEF IInv, ControlOK, HasPicture, StorePhases, NoPicture, Views, Parities
<1> QED  BY <1>1 DEF PairInv, CurrentOK, Complements, IsShown

LEMMA SameShown ==
    ASSUME IsShown, UNCHANGED <<first, fs, lastPicture>>
    PROVE  IsShown'
BY DEF IsShown, Positions, Waiting, IsUnused

LEMMA SlidingWindowPairs ==
    ASSUME IInv, PairInv, SlidingWindow
    PROVE  PairInv'
<1>1. /\ pc = "placing" /\ pc' = "room" /\ ~HasStoredPair
      /\ UNCHANGED <<stream, cur, marked, lastPicture>>
  BY DEF SlidingWindow
<1>2. ASSUME first # NoPicture PROVE IsShown'
  <2>1. ~IsHeld
    <3> SUFFICES ASSUME IsHeld PROVE HasStoredPair
      BY <1>1
    <3>1. IsSecondField(cur) /\ Complements(cur, first) /\ first.structure \in Parities
      <4>1. cur # NoPicture
        BY <1>1 DEF IInv, ControlOK, HasPicture, NoPicture, Views, Parities
      <4> QED  BY <1>2, <4>1 DEF PairInv, CurrentOK, FirstOK
    <3>2. first.structure = Opposite(cur.structure)
      BY <3>1 DEF Complements, Opposite, Parities
    <3> QED  BY <3>1, <3>2 DEF IsHeld, HasStoredPair, Complements, IsSecondField
  <2>2. IsShown
    BY <1>1, <1>2, <2>1 DEF PairInv, FirstOK
  <2>3. ~cur.ref
    BY <1>1, <1>2, <2>2, ShownSecond DEF StorePhases
  <2>4. UNCHANGED <<first, fs, lastPicture>>
    BY <1>1, <2>3 DEF SlidingWindow, stream
  <2> QED  BY <2>2, <2>4, SameShown
<1>3. Remarked
  <2>1. \A i \in 1..Len(fs) : SameFields(fs[i], fs[i]) /\ GoodStore(fs[i])
    BY DEF SameFields, IInv, BufferOK, GoodStores
  <2>2. CASE UNCHANGED fs
    BY <1>1, <2>1, <2>2 DEF Remarked
  <2>3. CASE \E i \in 1..Len(fs) : fs' = [fs EXCEPT ![i] = UnmarkForReference(fs[i])]
    <3>1. PICK i \in 1..Len(fs) : fs' = [fs EXCEPT ![i] = UnmarkForReference(fs[i])]
      BY <2>3
    <3>2. SameFields(fs[i], UnmarkForReference(fs[i]))
      BY <2>1, UnmarkedSame
    <3>3. GoodStores(fs)
      BY DEF IInv, BufferOK
    <3> QED  BY <1>1, <2>1, <3>1, <3>2, <3>3, ReplacedRemarks
  <2> QED  BY <2>2, <2>3 DEF SlidingWindow
<1>4. Moved /\ FullOK'
  BY <1>1, <1>3, RemarkedMoves DEF FullOK
<1> QED  BY <1>1, <1>2, <1>4, NextPlacePairs

LEMMA MakeRoomPairs ==
    ASSUME IInv, IInv', PairInv, MakeRoom
    PROVE  PairInv'
<1>1. pc = "room" /\ pc' = "bumping" /\ UNCHANGED <<stream, cur, marked>>
  BY DEF MakeRoom
<1>2. Len(fs) \in Nat /\ DpbSize \in Nat
  BY DpbAssumption DEF IInv, BufferOK, GoodStores
<1>3. CASE UNCHANGED dpb /\ ~(Len(fs) = DpbSize /\ \E pos \in 1..Len(fs) : IsUnused(pos))
  <2>1. UNCHANGED <<fs, lastPicture>>
    BY <1>3 DEF dpb
  <2>2. Moved
    BY <2>1 DEF Moved, PairInv, EvenOK, Positions
  <2>3. FullOK'
    BY <1>3, <2>1 DEF FullOK, Positions, IsUnused
  <2>4. first # NoPicture => IsShown'
    BY <1>1, <2>1, SameShown DEF PairInv, FirstOK, stream
  <2> QED  BY <1>1, <2>2, <2>3, <2>4, NextPlacePairs
<1>4. CASE RemoveUnusedFrame
  <2>1. PICK pos \in 1..Len(fs) : IsUnused(pos) /\ RemoveFrame(fs, pos)
    BY <1>4 DEF RemoveUnusedFrame
  <2>2. first = NoPicture
    BY <1>1, <2>1 DEF PairInv, FirstOK, IsShown, Positions
  <2>3. Moved
    BY <1>4, UnusedMoves
  <2>4. Len(fs') < DpbSize
    <3>1. Len(fs') = Len(fs) - 1
      BY <1>2, <2>1, RemoveShortens
    <3> QED  BY <1>2, <3>1 DEF IInv, BufferOK
  <2>5. FullOK'
    BY <1>2, <2>4 DEF FullOK
  <2> QED  BY <1>1, <2>2, <2>3, <2>5, NextPlacePairs
<1> QED  BY <1>3, <1>4 DEF MakeRoom

(* The second field of a frame that was shown directly is shown directly.   *)
LEMMA SecondGoesDirectly ==
    ASSUME IInv, PairInv, first # NoPicture, pc = "bumping"
    PROVE  /\ GoesDirectly /\ Len(fs) = DpbSize
           /\ IsSecondField(cur) /\ Complements(cur, first) /\ IsShown
<1>1. IsShown /\ first.poc % 2 = 0 /\ first.poc \in Nat
  BY DEF PairInv, FirstOK, IInv, StreamOK, PictureType
<1>2. IsSecondField(cur) /\ Complements(cur, first) /\ ~cur.ref
  BY <1>1, ShownSecond DEF StorePhases
<1>3. ASSUME NEW i \in Waiting PROVE cur.poc < fs[i].poc
  <2>1. i \in 1..Len(fs) /\ first.poc < fs[i].poc
    BY <1>1 DEF IsShown, Waiting
  <2>2. fs[i].poc \in Nat /\ fs[i].poc % 2 = 0
    BY <2>1 DEF Waiting, PairInv, EvenOK, Positions, IInv, BufferOK, GoodStores, GoodStore, StoreType
  <2>3. fs[i].poc # first.poc + 1
    BY <1>1, <2>2
  <2> QED  BY <1>1, <1>2, <2>1, <2>2, <2>3 DEF Complements
<1> QED  BY <1>1, <1>2, <1>3 DEF GoesDirectly, IsShown

LEMMA DirectOutputPairs ==
    ASSUME IInv, PairInv, DirectOutput
    PROVE  PairInv'
<1>1. /\ pc = "bumping" /\ Len(fs) = DpbSize /\ GoesDirectly /\ Finish
      /\ UNCHANGED <<fs, lastPicture>> /\ ~cur.ref /\ pc \in StorePhases
  BY DEF DirectOutput, dpb, GoesDirectly, StorePhases
<1>2. EvenOK'
  BY <1>1 DEF PairInv, EvenOK, Positions
<1>3. upcoming = NoPicture /\ ~(marked[5] > 0)
  BY <1>1, NothingUpcoming DEF PairInv, CurrentOK
<1>4. CASE IsFirstField(cur)
  <2>1. lastPicture # 0 => Lone(fs[lastPicture])
    BY <1>1, <1>4 DEF PairInv, LastOK, IsFirstField
  <2>2. first' = cur
    BY <1>1, <1>4 DEF Finish, IsFirstField
  <2>3. IsShown'
    <3>1. \A i \in Waiting : cur.poc < fs[i].poc
      BY <1>1 DEF GoesDirectly
    <3>2. \A i \in Positions : ~IsUnused(i)
      BY <1>1 DEF PairInv, FullOK
    <3> QED  BY <1>1, <2>1, <2>2, <3>1, <3>2 DEF IsShown, Lone, Positions, Waiting, IsUnused
  <2> QED  BY <1>1, <1>2, <1>4, <2>1, <2>3, FinishFirst DEF Lone
<1>5. CASE ~IsFirstField(cur)
  <2>1. first' = NoPicture
    BY <1>1, <1>5 DEF Finish, IsFirstField
  <2>2. lastPicture # 0 => Lone(fs[lastPicture])
    <3>1. CASE IsSecondField(cur)
      <4>1. IsShown
        BY <1>1, <3>1 DEF PairInv, CurrentOK, FirstOK
      <4> QED  BY <1>1, <3>1, <4>1 DEF PairInv, LastOK, IsShown, Lone
    <3>2. CASE ~IsSecondField(cur)
      BY <1>1, <3>2 DEF PairInv, LastOK
    <3> QED  BY <3>1, <3>2
  <2>3. lastPicture' # 0 => Lone(fs'[lastPicture'])
    BY <1>1, <2>2
  <2> QED  BY <1>1, <1>2, <1>3, <2>1, <2>3, FinishWhole
<1> QED  BY <1>4, <1>5

LEMMA BumpPairs ==
    ASSUME IInv, IInv', PairInv, Bump
    PROVE  PairInv'
<1>1. /\ pc = "bumping" /\ Len(fs) = DpbSize /\ ~GoesDirectly
      /\ UNCHANGED <<stream, cur, marked>>
  BY DEF Bump
<1>2. PICK pos \in Waiting : OutputOneFrame(pos)
  BY DEF Bump
<1>3. first = NoPicture
  BY <1>1, SecondGoesDirectly
<1>4. Moved
  BY <1>2, OutputMoves
<1>5. pc' \in {"bumping", "failed"}
  BY <1>1, <1>2 DEF OutputOneFrame
<1>6. FullOK'
  <2> DEFINE s == Written(fs[pos])
             stores == [fs EXCEPT ![pos] = s]
  <2>1. pos \in 1..Len(fs) /\ Len(fs) \in Nat /\ DpbSize \in Nat
    BY <1>2, DpbAssumption DEF Waiting, IInv, BufferOK, GoodStores
  <2>2. /\ Len(stores) = Len(fs)
        /\ \A i \in 1..Len(fs) : stores[i] = IF i = pos THEN s ELSE fs[i]
    BY <2>1 DEF IInv, BufferOK, GoodStores
  <2>3. CASE fs' = stores /\ IsUsedForReference(s)
    <3>1. \A i \in Positions : ~IsUnused(i)
      BY <1>1 DEF PairInv, FullOK
    <3> HIDE DEF s
    <3>2. \A i \in 1..Len(fs) : fs'[i] = IF i = pos THEN s ELSE fs[i]
      BY <2>2, <2>3
    <3>3. Len(fs') = Len(fs)
      BY <2>2, <2>3
    <3> HIDE DEF stores
    <3>4. ASSUME NEW i \in 1..Len(fs), IsUnused(i)' PROVE FALSE
      <4>1. fs'[i].output /\ ~IsUsedForReference(fs'[i])
        BY <3>4 DEF IsUnused, IsUsedForReference, ViewsOf
      <4>2. CASE i = pos
        BY <2>3, <3>2, <4>1, <4>2
      <4>3. CASE i # pos
        BY <3>1, <3>2, <4>1, <4>3 DEF IsUnused, Positions
      <4> QED  BY <4>2, <4>3
    <3> QED  BY <3>3, <3>4 DEF FullOK, Positions
  <2>4. CASE RemoveFrame(stores, pos)
    <3>1. Len(fs') = Len(fs) - 1
      <4> HIDE DEF stores
      <4>1. Len(stores) - 1 \in Nat
        BY <2>1, <2>2
      <4> QED  BY <2>2, <2>4, <4>1, RemoveShortens
    <3> QED  BY <1>1, <2>1, <3>1 DEF FullOK
  <2>5. CASE pc' = "failed"
    BY <2>5 DEF FullOK
  <2> QED  BY <1>2, <2>3, <2>4, <2>5 DEF OutputOneFrame
<1> QED  BY <1>1, <1>3, <1>4, <1>5, <1>6, NextPlacePairs

LEMMA StorePairs ==
    ASSUME IInv, PairInv, Store
    PROVE  PairInv'
<1> DEFINE s == Insert(EmptyStore, cur)
<1>1. /\ pc = "bumping" /\ Len(fs) < DpbSize /\ fs' = Append(fs, s) /\ pc \in StorePhases
      /\ lastPicture' = IF cur.structure = "frame" THEN 0 ELSE Len(fs')
  BY DEF Store, StorePhases
<1>2. Len(fs) \in Nat /\ DpbSize \in Nat /\ cur.structure \in Views /\ cur # NoPicture
      /\ cur \in PictureType
  <2>1. Len(fs) \in Nat /\ DpbSize \in Nat
    BY DpbAssumption DEF IInv, BufferOK, GoodStores
  <2>2. cur \in PictureType /\ cur.structure \in Views
    BY <1>1 DEF IInv, ControlOK, HasPicture
  <2>3. cur # NoPicture
    BY <2>2 DEF NoPicture, Views, Parities
  <2> QED  BY <2>1, <2>2, <2>3
<1>3. first = NoPicture
  BY <1>1, <1>2, SecondGoesDirectly
<1>4. ~IsSecondField(cur) /\ (cur.exists => cur.poc % 2 = 0)
  BY <1>2, <1>3 DEF PairInv, CurrentOK
<1>5. /\ s.used = Fields(cur.structure) /\ s.orig = cur.ref
      /\ s.frameNum = cur.frameNum /\ s.poc = cur.poc /\ s.output = ~cur.exists
  BY <1>2 DEF Insert, EmptyStore, PictureType
<1> HIDE DEF s
<1>6. /\ Len(fs') = Len(fs) + 1 /\ fs'[Len(fs) + 1] = s
      /\ \A i \in 1..Len(fs) : fs'[i] = fs[i]
  BY <1>1, <1>2 DEF IInv, BufferOK, GoodStores
<1>7. EvenOK'
  <2> SUFFICES ASSUME NEW i \in 1..(Len(fs) + 1) PROVE fs'[i].output \/ fs'[i].poc % 2 = 0
    BY <1>6 DEF EvenOK, Positions
  <2>1. i \in 1..Len(fs) \/ i = Len(fs) + 1
    BY <1>2
  <2> QED  BY <1>4, <1>5, <1>6, <2>1 DEF PairInv, EvenOK, Positions
<1>8. CASE pc' = "failed" /\ UNCHANGED <<cur, marked, stream>>
  <2>1. UNCHANGED <<first, upcoming, preFrameNum>>
    BY <1>8 DEF stream
  <2>2. FullOK' /\ LastOK' /\ FirstOK' /\ UpcomingOK'
    BY <1>1, <1>3, <1>8, <2>1 DEF PairInv, FullOK, LastOK, FirstOK, UpcomingOK, StorePhases
  <2>3. CurrentOK'
    BY <1>8, <1>4, <2>1 DEF PairInv, CurrentOK, NumberOK, FrameNumAfter, FlushPhases
  <2> QED  BY <1>7, <2>2, <2>3 DEF PairInv
<1>9. CASE Finish
  <2>1. CASE cur.structure = "frame"
    <3>1. first' = NoPicture /\ lastPicture' = 0
      BY <1>1, <1>9, <2>1 DEF Finish, Parities
    <3> QED  BY <1>1, <1>7, <1>9, <3>1, FinishWhole
  <2>2. CASE cur.structure \in Parities
    <3>1. /\ IsFirstField(cur) /\ lastPicture' = Len(fs) + 1 /\ first' = cur
          /\ fs'[lastPicture'] = s
      BY <1>1, <1>4, <1>6, <1>9, <2>2 DEF IsFirstField, Finish, Parities
    <3>2. Fields(cur.structure) = {cur.structure}
      BY <2>2 DEF Fields, Parities
    <3>3. IsHeld'
      BY <1>2, <1>5, <3>1, <3>2 DEF IsHeld
    <3>4. s.orig => s.frameNum = preFrameNum
      BY <1>5, <2>2 DEF PairInv, CurrentOK, NumberOK
    <3> QED  BY <1>1, <1>7, <1>9, <3>1, <3>3, <3>4, FinishFirst
  <2> QED  BY <1>2, <2>1, <2>2 DEF Views
<1> QED  BY <1>1, <1>8, <1>9 DEF Store

-----------------------------------------------------------------------------
(* The specification                                                       *)

LEMMA NextPairs ==
    ASSUME IInv, IInv', PairInv, PairsCome, [Next]_vars
    PROVE  PairInv'
<1>1. ASSUME Marking PROVE PairInv'
  BY <1>1, MarkingPairs, EndMarkingPairs
<1>2. ASSUME Storing PROVE PairInv'
  BY <1>2, PairFieldPairs, SlidingWindowPairs, MakeRoomPairs, DirectOutputPairs, BumpPairs,
     StorePairs DEF Storing
<1>3. ASSUME Flushing PROVE PairInv'
  BY <1>3, FlushingPairs, IdrDiscardPairs, FlushEndPairs DEF Flushing
<1>4. ASSUME UNCHANGED vars PROVE PairInv'
  BY <1>4 DEF PairInv, EvenOK, CurrentOK, UpcomingOK, LastOK, FirstOK, FullOK, NumberOK, Lone,
              IsGap, FrameNumAfter, IsHeld, IsShown, Positions, Waiting, IsUnused, vars, dpb, stream
<1> QED  BY <1>1, <1>2, <1>3, <1>4, DecodeNextPairs, FillGapPairs, AfterGapPairs, EndStreamPairs
         DEF Next, Stopped

(* For every size of the buffer and every stream in which only reference    *)
(* fields may stay alone and the decoder sees that frames are missing: the  *)
(* tests of store_picture_in_dpb on last_picture (frame_num, parity, being a *)
(* reference) never combine a field with one of another frame, although     *)
(* direct_output leaves last_picture as it was.  If MaxFrameNum - 1 frames  *)
(* are missing, frame_num does not tell, and two frames are combined.       *)
THEOREM OnlySecondFieldsPaired == PairsCome => (Spec => OnlyPairsSecondFields)
<1> SUFFICES ASSUME PairsCome PROVE Spec => OnlyPairsSecondFields
  OBVIOUS
<1> DEFINE Paired ==
      Len(fs') = Len(fs) =>
        \A i \in Positions :
            fs[i].used # Parities /\ fs'[i].used = Parities /\ ~fs'[i].output =>
                IsSecondField(cur)
<1>1. ASSUME IInv, PairInv, [Next]_vars PROVE Paired
  <2> SUFFICES ASSUME Len(fs') = Len(fs), NEW i \in 1..Len(fs), fs[i].used # Parities,
                      fs'[i].used = Parities, ~fs'[i].output
               PROVE  IsSecondField(cur)
    BY DEF Positions
  <2>1. fs' # fs /\ Len(fs) \in Nat /\ Len(fs') = Len(fs)
    BY DEF IInv, BufferOK, GoodStores
  <2>2. CASE PairField
    BY <1>1, <2>2, PairIsSecond DEF PairField
  <2>3. CASE SlidingWindow
    <3>1. PICK k \in 1..Len(fs) : fs' = [fs EXCEPT ![k] = UnmarkForReference(fs[k])]
      BY <2>1, <2>3 DEF SlidingWindow
    <3>2. GoodStore(fs[k])
      BY <1>1 DEF IInv, BufferOK, GoodStores
    <3>3. fs'[i].used = fs[i].used
      BY <1>1, <3>1, <3>2, UnmarkedSame DEF SameFields, IInv, BufferOK, GoodStores
    <3> QED  BY <3>3
  <2>4. CASE MakeRoom \/ FlushUnused
    <3>1. RemoveUnusedFrame
      BY <2>1, <2>4 DEF MakeRoom, FlushUnused, dpb
    <3>2. PICK pos \in 1..Len(fs) : RemoveFrame(fs, pos)
      BY <3>1 DEF RemoveUnusedFrame
    <3>3. Len(fs) - 1 \in Nat
      BY <2>1
    <3>4. Len(fs') = Len(fs) - 1
      BY <3>2, <3>3, RemoveShortens
    <3> QED  BY <2>1, <3>4
  <2>5. CASE Bump \/ FlushOutput
    <3>1. PICK pos \in Waiting : OutputOneFrame(pos)
      BY <2>5 DEF Bump, FlushOutput
    <3> DEFINE s == Written(fs[pos])
               stores == [fs EXCEPT ![pos] = s]
    <3>2. pos \in 1..Len(fs) /\ GoodStore(fs[pos])
      BY <1>1, <3>1 DEF Waiting, IInv, BufferOK, GoodStores
    <3>3. s.output
      BY <3>2 DEF Written, GoodStore, StoreType
    <3> HIDE DEF s
    <3>4. /\ Len(stores) = Len(fs)
          /\ \A j \in 1..Len(fs) : stores[j] = IF j = pos THEN s ELSE fs[j]
      BY <1>1, <3>2 DEF IInv, BufferOK, GoodStores
    <3>5. fs' = stores \/ RemoveFrame(stores, pos)
      BY <3>1 DEF OutputOneFrame, s
    <3> HIDE DEF stores
    <3>6. CASE fs' = stores
      BY <3>3, <3>4, <3>6
    <3>7. CASE RemoveFrame(stores, pos)
      <4>1. Len(stores) - 1 \in Nat
        BY <2>1, <3>2, <3>4
      <4>2. Len(fs') = Len(stores) - 1
        BY <3>7, <4>1, RemoveShortens
      <4> QED  BY <2>1, <3>4, <4>2
    <3> QED  BY <3>5, <3>6, <3>7
  <2>6. CASE Store
    BY <1>1, <2>1, <2>6 DEF Store, IInv, BufferOK, GoodStores
  <2>7. CASE IdrDiscard
    BY <2>1, <2>7 DEF IdrDiscard
  <2>8. CASE Marking \/ StartFlush
    <3>1. Remarked
      BY <1>1, <2>8, MarkingRemarks, StartFlushRemarks
    <3> QED  BY <3>1 DEF Remarked, SameFields
  <2>9. CASE \E poc \in StalePocs : FillGap(poc)
    BY <2>9 DEF FillGap, dpb
  <2> QED
    BY <1>1, <2>1, <2>2, <2>3, <2>4, <2>5, <2>6, <2>7, <2>8, <2>9
       DEF Next, DecodeNext, Decode, AfterGap, EndStream, Storing, DirectOutput,
           Flushing, FlushEnd, Stopped, vars, dpb
<1>2. Init => IInv /\ PairInv
  BY InitIInv, InitPairs
<1>3. IInv /\ PairInv /\ [Next]_vars => (IInv /\ PairInv)'
  BY NextIInv, NextPairs
<1>4. IInv /\ PairInv /\ [Next]_vars => [Paired]_vars
  BY <1>1
<1> QED  BY <1>2, <1>3, <1>4, PTL DEF Spec, OnlyPairsSecondFields

-----------------------------------------------------------------------------
(* What is shown and rejected                                              *)

\* A full buffer holds enough frames that wait for any frame that comes later
\* to be shown later than the first of them.
BufferFits == ReorderDepth + FrameLimit <= DpbSize

-----------------------------------------------------------------------------
(* The invariant                                                           *)

(* CountOK bounds the references, so that a full buffer has frames that wait.        *)
(* ShownOK is the argument for the order of display: as soon as a frame was shown,   *)
(* more frames than ReorderDepth that are not shown before it have been sent, hence  *)
(* none that is still to come may be shown before it.  It says nothing of a picture  *)
(* that the full buffer cannot take (Overfull): the decoder gives up at its end.     *)

Waits(stores) == {i \in 1..Len(stores) : ~stores[i].output}
PocsOf(stores) == {stores[i].poc : i \in Waits(stores)}
PocsDiffer(stores) ==
    \A i, j \in Waits(stores) : stores[i].poc = stores[j].poc => i = j

RefsOf(stores) == {i \in 1..Len(stores) : stores[i].ref # {}}
References(stores) == Cardinality(RefsOf(stores))

\* The frames that wait are of the sequence that is being sent.
SequenceRuns == pc \notin FlushPhases \cup {"idr", "failed"}

UsesWindow == cur.ref /\ ~cur.adaptive /\ ~cur.idr
Overfull == pc = "bumping" /\ cur.adaptive /\ FrameLimit <= References(fs)

CountOK ==
    pc # "failed" =>
        /\ Cardinality(shortRefs) + Cardinality(longRefs) <= FrameLimit
        /\ upcoming # NoPicture \/ (pc = "placing" /\ UsesWindow)
             => Cardinality(longRefs) < FrameLimit
        /\ pc \in {"room", "bumping"} /\ UsesWindow => References(fs) < FrameLimit

\* A flush leaves nothing, and FullOK as for fields.
EmptiedOK ==
    /\ pc = "bumpall" => \A i \in 1..Len(fs) : ~fs[i].output
    /\ pc \in {"placing", "room", "bumping"} /\ (cur.idr \/ marked[5] > 0) => fs = <<>>
    /\ FullOK

FreshOK ==
    pc \in StorePhases /\ cur.ref /\ ~cur.idr /\ marked[5] = 0 =>
        \A i \in shortRefs : fs[i].frameNum # cur.frameNum

FramePocs == 0..(2 * (MaxPictures + ReorderDepth))

SentBefore(p) ==
    p.exists => p.poc \in sent /\ Cardinality({x \in sent : x > p.poc}) <= ReorderDepth

SentOK ==
    /\ Cardinality(sent) <= pictures /\ pictures <= MaxPictures /\ sent \subseteq FramePocs
    /\ SentBefore(cur) /\ SentBefore(upcoming)
    /\ first = NoPicture
    /\ upcoming # NoPicture => upcoming.exists /\ ~cur.exists
    /\ cur # NoPicture /\ ~cur.exists => UsesWindow /\ ~cur.long
    /\ pc # "failed" => PocsOf(fs) \subseteq FramePocs
    /\ SequenceRuns =>
         /\ PocsOf(fs) \subseteq sent
         /\ cur.exists => cur.poc \notin PocsOf(fs)
         /\ upcoming.exists => upcoming.poc \notin PocsOf(fs)

ShownOK ==
    pc # "failed" =>
        /\ PocsDiffer(fs)
        /\ \A poc \in PocsOf(fs) : shown < poc
        /\ lastOutputPoc <= shown
        /\ SequenceRuns /\ ~Overfull =>
             /\ shown # None => ReorderDepth < Cardinality({x \in sent : x >= shown})
             /\ cur.exists => shown < cur.poc
             /\ upcoming.exists => shown < upcoming.poc

DisplayInv == CountOK /\ EmptiedOK /\ FreshOK /\ SentOK /\ ShownOK

-----------------------------------------------------------------------------
(* Counting                                                                *)

LEMMA FiniteParts ==
    ASSUME IInv
    PROVE  /\ IsFiniteSet(shortRefs) /\ Cardinality(shortRefs) \in Nat
           /\ IsFiniteSet(longRefs) /\ Cardinality(longRefs) \in Nat
           /\ IsFiniteSet(RefsOf(fs)) /\ References(fs) \in Nat
           /\ IsFiniteSet(Waits(fs)) /\ Cardinality(Waits(fs)) \in Nat
           /\ FrameLimit \in Nat \ {0}
<1>1. Len(fs) \in Nat /\ IsFiniteSet(1..Len(fs))
  BY FS_Interval DEF IInv, BufferOK, GoodStores
<1>2. /\ shortRefs \in SUBSET (1..Len(fs)) /\ longRefs \in SUBSET (1..Len(fs))
      /\ RefsOf(fs) \in SUBSET (1..Len(fs)) /\ Waits(fs) \in SUBSET (1..Len(fs))
  BY DEF IInv, BufferOK, Positions, RefsOf, Waits
<1>3. /\ IsFiniteSet(shortRefs) /\ IsFiniteSet(longRefs)
      /\ IsFiniteSet(RefsOf(fs)) /\ IsFiniteSet(Waits(fs))
  BY <1>1, <1>2, FS_Subset
<1>4. /\ Cardinality(shortRefs) \in Nat /\ Cardinality(longRefs) \in Nat
      /\ Cardinality(RefsOf(fs)) \in Nat /\ Cardinality(Waits(fs)) \in Nat
  BY <1>3, FS_CardinalityType
<1>5. FrameLimit \in Nat \ {0}
  BY DpbAssumption DEF FrameLimit
<1> QED  BY <1>3, <1>4, <1>5 DEF References

\* In these phases a frame is being stored.
LEMMA FrameIsHere ==
    ASSUME IInv, FrameInv, pc \in HasPicture
    PROVE  cur # NoPicture /\ cur.structure = "frame"
<1>1. cur.structure \in Views
  BY DEF IInv, ControlOK
<1>2. NoPicture.structure = "none" /\ "none" \notin Views
  BY DEF NoPicture, Views, Parities
<1>3. cur # NoPicture
  BY <1>1, <1>2
<1> QED  BY <1>3 DEF FrameInv, ShapeOK

LEMMA SubsetCount ==
    ASSUME NEW S, NEW T, S \subseteq T, IsFiniteSet(T)
    PROVE  /\ IsFiniteSet(S) /\ Cardinality(S) \in Nat /\ Cardinality(T) \in Nat
           /\ Cardinality(S) <= Cardinality(T)
<1>1. S \in SUBSET T
  OBVIOUS
<1>2. IsFiniteSet(S) /\ Cardinality(S) <= Cardinality(T)
  BY <1>1, FS_Subset
<1> QED  BY <1>2, FS_CardinalityType

(* A set that a function maps onto another is not smaller, and as large if  *)
(* the function tells its elements apart.                                  *)
LEMMA ImageCount ==
    ASSUME NEW S, NEW T, NEW f, IsFiniteSet(S), \A x \in S : f[x] \in T,
           \A y \in T : \E x \in S : f[x] = y
    PROVE  /\ IsFiniteSet(T) /\ Cardinality(T) <= Cardinality(S)
           /\ (\A x, y \in S : f[x] = f[y] => x = y) => Cardinality(T) = Cardinality(S)
<1> DEFINE g == [x \in S |-> f[x]]
<1>0. \A x \in S : g[x] = f[x]
  OBVIOUS
<1>1. g \in Surjection(S, T)
  <2>1. g \in [S -> T]
    OBVIOUS
  <2>2. \A y \in T : \E x \in S : g[x] = y
    BY <1>0
  <2> QED  BY <2>1, <2>2 DEF Surjection
<1>2. (\A x, y \in S : f[x] = f[y] => x = y) => g \in Injection(S, T)
  <2> SUFFICES ASSUME \A x, y \in S : f[x] = f[y] => x = y PROVE g \in Injection(S, T)
    OBVIOUS
  <2>1. g \in [S -> T]
    OBVIOUS
  <2>2. \A a, b \in S : g[a] = g[b] => a = b
    BY <1>0
  <2> HIDE DEF g
  <2> QED  BY <2>1, <2>2 DEF Injection, IsInjective
<1> HIDE DEF g
<1> QED  BY <1>1, <1>2, FS_Surjection

(* Every store of a buffer without an unused one waits or is a reference.   *)
LEMMA FullWaits ==
    ASSUME IInv, FrameInv, PocsDiffer(fs), Len(fs) = DpbSize,
           \A i \in Positions : ~IsUnused(i)
    PROVE  /\ IsFiniteSet(PocsOf(fs)) /\ Cardinality(PocsOf(fs)) \in Nat
           /\ DpbSize <= Cardinality(PocsOf(fs)) + References(fs)
<1>1. 1..Len(fs) = Waits(fs) \cup RefsOf(fs)
  <2> SUFFICES ASSUME NEW i \in 1..Len(fs), fs[i].ref = {}, fs[i].output PROVE FALSE
    BY DEF Waits, RefsOf
  <2>1. GoodStore(fs[i]) /\ FrameStore(fs[i])
    BY FrameStores
  <2>2. fs[i].refPics \cap Views = {}
    BY <2>1 DEF GoodStore, StoreType, StoreMarksAgree, Views, Parities
  <2>3. ~IsUsedForReference(fs[i])
    BY <2>1, <2>2 DEF IsUsedForReference, ViewsOf, FrameStore, Views
  <2> QED  BY <2>3 DEF IsUnused, Positions
<1>2. Cardinality(1..Len(fs)) = DpbSize
  BY FS_Interval, DpbAssumption
<1>3. DpbSize <= Cardinality(Waits(fs)) + References(fs)
  <2>1. Cardinality(Waits(fs) \cup RefsOf(fs)) =
          Cardinality(Waits(fs)) + Cardinality(RefsOf(fs))
            - Cardinality(Waits(fs) \cap RefsOf(fs))
    BY FiniteParts, FS_Union
  <2>2. Cardinality(Waits(fs) \cap RefsOf(fs)) \in Nat
    BY FiniteParts, SubsetCount
  <2>3. Cardinality(Waits(fs)) \in Nat /\ References(fs) \in Nat
    BY FiniteParts
  <2>4. Cardinality(Waits(fs) \cup RefsOf(fs)) = DpbSize
    BY <1>1, <1>2
  <2> QED  BY <2>1, <2>2, <2>3, <2>4 DEF References
<1>4. IsFiniteSet(PocsOf(fs)) /\ Cardinality(PocsOf(fs)) = Cardinality(Waits(fs))
  <2> DEFINE f == [i \in Waits(fs) |-> fs[i].poc]
  <2>1. /\ \A i \in Waits(fs) : f[i] \in PocsOf(fs)
        /\ \A poc \in PocsOf(fs) : \E i \in Waits(fs) : f[i] = poc
        /\ \A i, j \in Waits(fs) : f[i] = f[j] => i = j
    BY DEF PocsOf, PocsDiffer
  <2> HIDE DEF f
  <2> QED  BY <2>1, FiniteParts, ImageCount
<1> QED  BY <1>3, <1>4, FiniteParts

-----------------------------------------------------------------------------
(* Steps of the buffer                                                     *)

Marked == Cardinality(shortRefs) + Cardinality(longRefs)

SameWaiting == PocsOf(fs') = PocsOf(fs) /\ (PocsDiffer(fs) => PocsDiffer(fs'))

FewerRefs ==
    /\ References(fs') <= References(fs) /\ Marked' <= Marked
    /\ cur.adaptive \/ Cardinality(longRefs') <= Cardinality(longRefs)

LEMMA SameStoresWait ==
    ASSUME UNCHANGED fs
    PROVE  SameWaiting /\ References(fs') = References(fs)
BY DEF SameWaiting, PocsOf, PocsDiffer, Waits, References, RefsOf

LEMMA SameDpbKeeps ==
    ASSUME IInv, UNCHANGED dpb
    PROVE  SameWaiting /\ FewerRefs
<1>1. UNCHANGED <<fs, shortRefs, longRefs>>
  BY DEF dpb
<1>2. References(fs') = References(fs) /\ Marked' = Marked /\ SameWaiting
  BY <1>1, SameStoresWait DEF Marked
<1>3. References(fs) \in Nat /\ Marked \in Nat /\ Cardinality(longRefs) \in Nat
  BY FiniteParts DEF Marked
<1> QED  BY <1>1, <1>2, <1>3 DEF FewerRefs

LEMMA RemarkedWaits ==
    ASSUME IInv, Remarked
    PROVE  SameWaiting
BY DEF SameWaiting, PocsOf, PocsDiffer, Waits, Remarked, SameFields

LEMMA RemovedStores ==
    ASSUME NEW stores, Len(stores) \in Nat, NEW pos \in 1..Len(stores),
           RemoveFrame(stores, pos)
    PROVE  /\ Len(fs') = Len(stores) - 1
           /\ \A i \in 1..Len(fs') : \E k \in (1..Len(stores)) \ {pos} : Shifted(k, pos) = i
           /\ \A k \in (1..Len(stores)) \ {pos} :
                Shifted(k, pos) \in 1..Len(fs') /\ fs'[Shifted(k, pos)] = stores[k]
           /\ \A j, k \in (1..Len(stores)) \ {pos} : Shifted(j, pos) = Shifted(k, pos) => j = k
<1>1. fs' = [i \in 1..(Len(stores) - 1) |-> IF i < pos THEN stores[i] ELSE stores[i + 1]]
  BY DEF RemoveFrame
<1>2. Len(stores) - 1 \in Nat
  OBVIOUS
<1>3. Len(fs') = Len(stores) - 1
  BY <1>1, <1>2
<1>4. ASSUME NEW i \in 1..Len(fs')
      PROVE  \E k \in (1..Len(stores)) \ {pos} : Shifted(k, pos) = i
  <2>1. CASE i < pos
    <3>1. i \in (1..Len(stores)) \ {pos} /\ Shifted(i, pos) = i
      BY <1>3, <1>4, <2>1 DEF Shifted
    <3> QED  BY <3>1
  <2>2. CASE ~(i < pos)
    <3>1. i + 1 \in (1..Len(stores)) \ {pos} /\ Shifted(i + 1, pos) = i
      BY <1>3, <1>4, <2>2 DEF Shifted
    <3> QED  BY <3>1
  <2> QED  BY <2>1, <2>2
<1>5. ASSUME NEW k \in (1..Len(stores)) \ {pos}
      PROVE  Shifted(k, pos) \in 1..Len(fs') /\ fs'[Shifted(k, pos)] = stores[k]
  <2>1. Shifted(k, pos) \in 1..(Len(stores) - 1)
    BY <1>5 DEF Shifted
  <2>2. CASE k < pos
    BY <1>1, <1>3, <2>1, <2>2 DEF Shifted
  <2>3. CASE k > pos
    BY <1>1, <1>3, <2>1, <2>3 DEF Shifted
  <2> QED  BY <1>3, <1>5, <2>1, <2>2, <2>3
<1>6. \A j, k \in (1..Len(stores)) \ {pos} : Shifted(j, pos) = Shifted(k, pos) => j = k
  BY DEF Shifted
<1> QED  BY <1>3, <1>4, <1>5, <1>6

(* A store that does not wait goes.                                        *)
LEMMA RemovedPocs ==
    ASSUME NEW stores, Len(stores) \in Nat, NEW pos \in 1..Len(stores),
           RemoveFrame(stores, pos), stores[pos].output
    PROVE  PocsOf(fs') = PocsOf(stores) /\ (PocsDiffer(stores) => PocsDiffer(fs'))
<1> DEFINE new(k) == Shifted(k, pos)
<1>1. /\ \A i \in 1..Len(fs') : \E k \in (1..Len(stores)) \ {pos} : new(k) = i
      /\ \A k \in (1..Len(stores)) \ {pos} : new(k) \in 1..Len(fs') /\ fs'[new(k)] = stores[k]
  BY RemovedStores
<1> HIDE DEF new
<1>2. \A k \in Waits(stores) :
        new(k) \in Waits(fs') /\ fs'[new(k)].poc = stores[k].poc
  BY <1>1 DEF Waits
<1>3. \A i \in Waits(fs') : \E k \in Waits(stores) : new(k) = i /\ fs'[i].poc = stores[k].poc
  BY <1>1 DEF Waits
<1>4. PocsOf(fs') = PocsOf(stores)
  BY <1>2, <1>3 DEF PocsOf
<1>5. ASSUME PocsDiffer(stores) PROVE PocsDiffer(fs')
  BY <1>3, <1>5 DEF PocsDiffer
<1> QED  BY <1>4, <1>5

(* A store that is no reference goes.                                      *)
LEMMA RemovedRefs ==
    ASSUME IInv, NEW stores, Len(stores) = Len(fs), RefsOf(stores) = RefsOf(fs),
           NEW pos \in 1..Len(stores), RemoveFrame(stores, pos), stores[pos].ref = {}
    PROVE  FewerRefs /\ References(fs') = References(fs)
<1> DEFINE new == [k \in 1..Len(stores) |-> Shifted(k, pos)]
<1>1. Len(stores) \in Nat
  BY DEF IInv, BufferOK, GoodStores
<1>2. \A k \in 1..Len(stores) : new[k] = Shifted(k, pos)
  OBVIOUS
<1> HIDE DEF new
<1>3. /\ \A i \in 1..Len(fs') : \E k \in (1..Len(stores)) \ {pos} : new[k] = i
      /\ \A k \in (1..Len(stores)) \ {pos} : new[k] \in 1..Len(fs') /\ fs'[new[k]] = stores[k]
      /\ \A j, k \in (1..Len(stores)) \ {pos} : new[j] = new[k] => j = k
  BY <1>1, <1>2, RemovedStores
<1>4. References(fs') = References(fs)
  <2>1. RefsOf(fs) \subseteq (1..Len(stores)) \ {pos}
    BY DEF RefsOf
  <2>2. \A k \in RefsOf(fs) : new[k] \in RefsOf(fs')
    BY <1>3, <2>1 DEF RefsOf
  <2>3. \A i \in RefsOf(fs') : \E k \in RefsOf(fs) : new[k] = i
    BY <1>3 DEF RefsOf
  <2>4. \A j, k \in RefsOf(fs) : new[j] = new[k] => j = k
    BY <1>3, <2>1
  <2> QED  BY <2>2, <2>3, <2>4, FiniteParts, ImageCount DEF References
<1>5. ASSUME NEW S \in SUBSET (1..Len(fs)), IsFiniteSet(S), NEW T,
             T = {Shifted(i, pos) : i \in S \ {pos}}
      PROVE  Cardinality(T) <= Cardinality(S) /\ Cardinality(T) \in Nat
  <2>1. IsFiniteSet(S \ {pos}) /\ Cardinality(S \ {pos}) <= Cardinality(S)
        /\ Cardinality(S) \in Nat /\ Cardinality(S \ {pos}) \in Nat
    BY <1>5, SubsetCount
  <2>2. /\ \A k \in S \ {pos} : new[k] \in T
        /\ \A y \in T : \E k \in S \ {pos} : new[k] = y
    BY <1>2, <1>5
  <2>3. IsFiniteSet(T) /\ Cardinality(T) <= Cardinality(S \ {pos})
    <3> DEFINE U == S \ {pos}
    <3>1. /\ IsFiniteSet(U) /\ \A k \in U : new[k] \in T
          /\ \A y \in T : \E k \in U : new[k] = y
      BY <2>1, <2>2
    <3> HIDE DEF U
    <3>2. IsFiniteSet(T) /\ Cardinality(T) <= Cardinality(U)
      BY <3>1, ImageCount
    <3> QED  BY <3>2 DEF U
  <2> QED  BY <2>1, <2>3, FS_CardinalityType
<1>6. /\ Cardinality(shortRefs') <= Cardinality(shortRefs) /\ Cardinality(shortRefs') \in Nat
      /\ Cardinality(longRefs') <= Cardinality(longRefs) /\ Cardinality(longRefs') \in Nat
  <2>1. /\ shortRefs' = {Shifted(i, pos) : i \in shortRefs \ {pos}}
        /\ longRefs' = {Shifted(i, pos) : i \in longRefs \ {pos}}
    BY DEF RemoveFrame
  <2>2. shortRefs \in SUBSET (1..Len(fs)) /\ longRefs \in SUBSET (1..Len(fs))
    BY DEF IInv, BufferOK, Positions
  <2> QED  BY <1>5, <2>1, <2>2, FiniteParts
<1>7. References(fs') <= References(fs) /\ Marked' <= Marked
  BY <1>4, <1>6, FiniteParts DEF Marked
<1> QED  BY <1>4, <1>6, <1>7 DEF FewerRefs

(* A stored frame that has no marks is no reference.                        *)
LEMMA UnusedIsNoRef ==
    ASSUME IInv, FrameInv, NEW pos \in 1..Len(fs)
    PROVE  IsUsedForReference(fs[pos]) <=> fs[pos].ref # {}
<1>1. GoodStore(fs[pos]) /\ FrameStore(fs[pos])
  BY FrameStores
<1>2. fs[pos].ref = {} => fs[pos].refPics \cap Views = {}
  BY <1>1 DEF GoodStore, StoreType, StoreMarksAgree, Views, Parities
<1> QED  BY <1>1, <1>2 DEF IsUsedForReference, ViewsOf, FrameStore, Views

LEMMA UnusedGoes ==
    ASSUME IInv, FrameInv, RemoveUnusedFrame
    PROVE  SameWaiting /\ FewerRefs /\ Len(fs') = Len(fs) - 1
<1>1. PICK pos \in 1..Len(fs) : IsUnused(pos) /\ RemoveFrame(fs, pos)
  BY DEF RemoveUnusedFrame
<1>2. fs[pos].output /\ fs[pos].ref = {} /\ Len(fs) \in Nat
  BY <1>1, UnusedIsNoRef DEF IsUnused, IInv, BufferOK, GoodStores
<1>3. SameWaiting
  BY <1>1, <1>2, RemovedPocs DEF SameWaiting
<1> QED  BY <1>1, <1>2, <1>3, RemovedRefs, RemovedStores

(* output_one_frame_from_dpb takes the first of the frames that wait.       *)
LEMMA OneFrameShown ==
    ASSUME IInv, FrameInv, PocsDiffer(fs), NEW pos \in Waiting, OutputOneFrame(pos)
    PROVE  /\ fs[pos].poc \in PocsOf(fs) /\ \A poc \in PocsOf(fs) : fs[pos].poc <= poc
           /\ shown' = fs[pos].poc
           /\ PocsOf(fs') = PocsOf(fs) \ {fs[pos].poc} /\ PocsDiffer(fs')
           /\ FewerRefs /\ References(fs') = References(fs)
<1> DEFINE s == Written(fs[pos])
           stores == [fs EXCEPT ![pos] = s]
<1>1. pos \in 1..Len(fs) /\ GoodStore(fs[pos]) /\ FrameStore(fs[pos]) /\ ~fs[pos].output
      /\ Len(fs) \in Nat
  BY FrameStores DEF Waiting
<1>2. s = [fs[pos] EXCEPT !.output = TRUE]
  BY <1>1 DEF Written, FrameStore
<1>3. s.output /\ s.poc = fs[pos].poc /\ s.ref = fs[pos].ref
  BY <1>1, <1>2 DEF GoodStore, StoreType
<1> HIDE DEF s
<1>4. /\ Len(stores) = Len(fs)
      /\ \A i \in 1..Len(fs) : stores[i] = IF i = pos THEN s ELSE fs[i]
  BY <1>1 DEF IInv, BufferOK, GoodStores
<1>5. \/ fs' = stores /\ UNCHANGED <<shortRefs, longRefs>>
      \/ RemoveFrame(stores, pos) /\ ~IsUsedForReference(s)
  BY DEF OutputOneFrame, s
<1> HIDE DEF stores
<1>6. /\ fs[pos].poc \in PocsOf(fs) /\ \A poc \in PocsOf(fs) : fs[pos].poc <= poc
      /\ shown' = fs[pos].poc
  <2>1. /\ shown' = fs[pos].poc
        /\ \A i \in Waiting : fs[pos].poc < fs[i].poc \/ fs[pos].poc = fs[i].poc
    BY DEF OutputOneFrame, IsSmallestPoc
  <2>2. Waits(fs) = Waiting /\ \A i \in Waiting : fs[i].poc \in Nat
    BY FrameStores DEF Waits, Waiting, GoodStore, StoreType
  <2> QED  BY <2>1, <2>2 DEF PocsOf
<1>7. Waits(stores) = Waits(fs) \ {pos} /\ RefsOf(stores) = RefsOf(fs)
  BY <1>3, <1>4 DEF Waits, RefsOf
<1>8. PocsDiffer(stores)
  BY <1>4, <1>7 DEF PocsDiffer, Waits
<1>9. PocsOf(stores) = PocsOf(fs) \ {fs[pos].poc}
  <2>1. pos \in Waits(fs)
    BY <1>1 DEF Waits
  <2>2. \A i \in Waits(fs) \ {pos} : stores[i].poc = fs[i].poc /\ fs[i].poc # fs[pos].poc
    BY <1>4, <2>1 DEF PocsDiffer, Waits
  <2> QED  BY <1>7, <2>1, <2>2 DEF PocsOf
<1>10. CASE fs' = stores /\ UNCHANGED <<shortRefs, longRefs>>
  <2>1. References(fs') = References(fs) /\ Marked' = Marked
    BY <1>7, <1>10 DEF References, Marked
  <2>2. References(fs) \in Nat /\ Marked \in Nat /\ Cardinality(longRefs) \in Nat
    BY FiniteParts DEF Marked
  <2>3. FewerRefs
    BY <1>10, <2>1, <2>2 DEF FewerRefs
  <2> QED  BY <1>6, <1>8, <1>9, <1>10, <2>1, <2>3
<1>11. CASE RemoveFrame(stores, pos) /\ ~IsUsedForReference(s)
  <2>1. stores[pos].output /\ stores[pos].ref = {}
    BY <1>1, <1>3, <1>4, <1>11 DEF IsUsedForReference
  <2>2. FewerRefs /\ References(fs') = References(fs)
    BY <1>1, <1>4, <1>7, <1>11, <2>1, RemovedRefs
  <2>3. PocsOf(fs') = PocsOf(stores) /\ PocsDiffer(fs')
    BY <1>1, <1>4, <1>8, <1>11, <2>1, RemovedPocs
  <2> QED  BY <1>6, <1>9, <2>2, <2>3
<1> QED  BY <1>5, <1>10, <1>11

-----------------------------------------------------------------------------
(* Steps that show nothing                                                 *)

LEMMA InitDisplay ==
    ASSUME Init
    PROVE  DisplayInv /\ RejectsOnlyOverfull
<1>1. /\ fs = <<>> /\ shortRefs = {} /\ longRefs = {} /\ sent = {} /\ pictures = 0
      /\ shown = None /\ lastOutputPoc = None /\ pc = "ready"
      /\ cur = NoPicture /\ upcoming = NoPicture /\ first = NoPicture
  BY DEF Init
<1>2. FrameLimit \in Nat \ {0} /\ MaxPictures \in Nat /\ Cardinality({}) = 0 /\ DpbSize > 0
  BY DpbAssumption, FS_EmptySet DEF FrameLimit
<1>3. PocsOf(fs) = {} /\ PocsDiffer(fs)
  BY <1>1 DEF PocsOf, PocsDiffer, Waits
<1>4. ~cur.exists /\ ~upcoming.exists
  BY <1>1 DEF NoPicture
<1>5. CountOK /\ EmptiedOK /\ FreshOK
  BY <1>1, <1>2 DEF CountOK, EmptiedOK, FullOK, FreshOK, StorePhases
<1>6. SentOK /\ ShownOK
  BY <1>1, <1>2, <1>3, <1>4 DEF SentOK, ShownOK, SentBefore, None
<1> QED  BY <1>1, <1>5, <1>6 DEF DisplayInv, RejectsOnlyOverfull

SamePicture ==
    /\ cur'.exists = cur.exists /\ cur'.poc = cur.poc /\ cur'.ref = cur.ref
    /\ cur'.adaptive = cur.adaptive /\ cur'.idr = cur.idr
    /\ cur' # NoPicture => cur # NoPicture
    /\ ~cur.exists => cur'.long = cur.long

LEMMA QuietStep ==
    ASSUME SentOK, ShownOK, SameWaiting, SamePicture, pc # "failed",
           UNCHANGED <<lastOutputPoc, shown, sent, pictures, upcoming, first>>,
           SequenceRuns' => SequenceRuns, SequenceRuns' /\ ~Overfull' => ~Overfull
    PROVE  SentOK' /\ ShownOK'
<1>1. PocsOf(fs') = PocsOf(fs) /\ (PocsDiffer(fs) => PocsDiffer(fs'))
  BY DEF SameWaiting
<1>2. SentOK'
  <2>1. SentBefore(cur)' /\ SentBefore(upcoming)'
    BY DEF SentOK, SentBefore, SamePicture
  <2>2. UsesWindow' = UsesWindow
    BY DEF UsesWindow, SamePicture
  <2> QED  BY <1>1, <2>1, <2>2 DEF SentOK, SamePicture
<1>3. ShownOK'
  BY <1>1 DEF ShownOK, SamePicture
<1> QED  BY <1>2, <1>3

LEMMA FiniteAfter ==
    ASSUME IInv'
    PROVE  /\ IsFiniteSet(shortRefs') /\ Cardinality(shortRefs') \in Nat
           /\ IsFiniteSet(longRefs') /\ Cardinality(longRefs') \in Nat
           /\ References(fs') \in Nat /\ Marked' \in Nat
<1>1. Len(fs') \in Nat /\ IsFiniteSet(1..Len(fs'))
  BY FS_Interval DEF IInv, BufferOK, GoodStores
<1>2. /\ shortRefs' \subseteq 1..Len(fs') /\ longRefs' \subseteq 1..Len(fs')
      /\ RefsOf(fs') \subseteq 1..Len(fs')
  BY DEF IInv, BufferOK, Positions, RefsOf
<1>3. IsFiniteSet(shortRefs') /\ IsFiniteSet(longRefs') /\ IsFiniteSet(RefsOf(fs'))
  BY <1>1, <1>2, SubsetCount
<1> QED  BY <1>3, FS_CardinalityType DEF References, Marked

LEMMA CountStep ==
    ASSUME IInv, IInv', FrameInv, CountOK, FewerRefs, pc # "failed", UNCHANGED upcoming,
           pc' = "placing" => ~UsesWindow',
           pc' \in {"room", "bumping"} /\ UsesWindow' => pc \in {"room", "bumping"} /\ UsesWindow
    PROVE  CountOK'
<1>1. /\ References(fs) \in Nat /\ Marked \in Nat /\ Cardinality(longRefs) \in Nat
      /\ FrameLimit \in Nat
  BY FiniteParts DEF Marked
<1>2. References(fs') \in Nat /\ Marked' \in Nat /\ Cardinality(longRefs') \in Nat
  BY FiniteAfter
<1>3. upcoming # NoPicture => ~cur.adaptive
  BY DEF FrameInv, KindOK
<1> QED  BY <1>1, <1>2, <1>3 DEF CountOK, FewerRefs, Marked

LEMMA EndStreamDisplay ==
    ASSUME IInv, IInv', FrameInv, DisplayInv, EndStream
    PROVE  DisplayInv' /\ pc' # "failed"
<1>1. pc = "ready" /\ pc' = "flush" /\ UNCHANGED <<dpb, output, stream, cur, marked>>
  BY DEF EndStream
<1>2. SameWaiting /\ FewerRefs /\ SamePicture
  BY <1>1, SameDpbKeeps DEF SamePicture
<1>3. SentOK' /\ ShownOK'
  BY <1>1, <1>2, QuietStep DEF DisplayInv, SequenceRuns, FlushPhases, Overfull, output, stream
<1>4. CountOK'
  BY <1>1, <1>2, CountStep DEF DisplayInv, stream
<1>5. EmptiedOK' /\ FreshOK'
  BY <1>1 DEF EmptiedOK, FullOK, FreshOK, StorePhases
<1> QED  BY <1>1, <1>3, <1>4, <1>5 DEF DisplayInv

LEMMA StartFlushDisplay ==
    ASSUME IInv, IInv', FrameInv, DisplayInv, StartFlush
    PROVE  DisplayInv' /\ pc' # "failed"
<1>1. /\ pc \in {"flush", "idr"} /\ pc' = "unused"
      /\ UNCHANGED <<shortRefs, longRefs, output, stream, cur, marked>>
  BY DEF StartFlush
<1>2. SameWaiting /\ SamePicture
  BY <1>1, StartFlushRemarks, RemarkedWaits DEF SamePicture
<1>3. FewerRefs
  <2>1. RefsOf(fs') \subseteq RefsOf(fs)
    <3>1. Len(fs) \in Nat /\ \A i \in 1..Len(fs) : GoodStore(fs[i])
      BY FrameStores
    <3>2. fs' = [i \in 1..Len(fs) |-> UnmarkForReference(fs[i])]
      BY DEF StartFlush, AllUnmarked
    <3>3. Len(fs') = Len(fs) /\ \A i \in 1..Len(fs) : fs'[i] = UnmarkForReference(fs[i])
      BY <3>1, <3>2
    <3>4. \A i \in 1..Len(fs) : UnmarkForReference(fs[i]).ref = {}
      BY <3>1 DEF UnmarkForReference, GoodStore, StoreType
    <3> QED  BY <3>3, <3>4 DEF RefsOf
  <2>2. References(fs') <= References(fs)
    BY <2>1, FiniteParts, SubsetCount DEF References
  <2>3. Marked \in Nat /\ Cardinality(longRefs) \in Nat
    BY FiniteParts DEF Marked
  <2> QED  BY <1>1, <2>2, <2>3 DEF FewerRefs, Marked
<1>4. SentOK' /\ ShownOK'
  BY <1>1, <1>2, QuietStep DEF DisplayInv, SequenceRuns, FlushPhases, Overfull, output, stream
<1>5. CountOK'
  BY <1>1, <1>3, CountStep DEF DisplayInv, stream
<1>6. EmptiedOK' /\ FreshOK'
  BY <1>1 DEF EmptiedOK, FullOK, FreshOK, StorePhases
<1> QED  BY <1>1, <1>4, <1>5, <1>6 DEF DisplayInv

LEMMA FlushUnusedDisplay ==
    ASSUME IInv, IInv', FrameInv, DisplayInv, FlushUnused
    PROVE  DisplayInv' /\ pc' # "failed"
<1>1. pc = "unused" /\ pc' \in {"unused", "bumpall"} /\ UNCHANGED <<output, stream, cur, marked>>
  BY DEF FlushUnused
<1>2. SameWaiting /\ FewerRefs /\ SamePicture
  BY <1>1, SameDpbKeeps, UnusedGoes DEF SamePicture, FlushUnused
<1>3. SentOK' /\ ShownOK'
  BY <1>1, <1>2, QuietStep DEF DisplayInv, SequenceRuns, FlushPhases, Overfull, output, stream
<1>4. CountOK'
  BY <1>1, <1>2, CountStep DEF DisplayInv, stream
<1>5. EmptiedOK'
  <2>1. CASE pc' = "bumpall"
    <3>1. UNCHANGED fs /\ \A pos \in 1..Len(fs) : ~IsUnused(pos)
      BY <1>1, <2>1 DEF FlushUnused, dpb
    <3>2. \A i \in 1..Len(fs) : fs[i].ref = {}
      BY <1>1 DEF FrameInv, FlushedOK, Unreferenced
    <3>3. \A i \in 1..Len(fs) : ~fs[i].output
      BY <3>1, <3>2, UnusedIsNoRef DEF IsUnused
    <3> QED  BY <2>1, <3>1, <3>3 DEF EmptiedOK, FullOK
  <2>2. CASE pc' = "unused"
    BY <2>2 DEF EmptiedOK, FullOK
  <2> QED  BY <1>1, <2>1, <2>2
<1>6. FreshOK'
  BY <1>1 DEF FreshOK, StorePhases
<1> QED  BY <1>1, <1>3, <1>4, <1>5, <1>6 DEF DisplayInv

LEMMA MakeRoomDisplay ==
    ASSUME IInv, IInv', FrameInv, DisplayInv, MakeRoom
    PROVE  DisplayInv' /\ pc' # "failed"
<1>1. pc = "room" /\ pc' = "bumping" /\ UNCHANGED <<output, stream, cur, marked>>
  BY DEF MakeRoom
<1>2. SameWaiting /\ FewerRefs /\ SamePicture
  BY <1>1, SameDpbKeeps, UnusedGoes DEF SamePicture, MakeRoom
<1>3. SentOK' /\ ShownOK'
  BY <1>1, <1>2, QuietStep DEF DisplayInv, SequenceRuns, FlushPhases, Overfull, output, stream
<1>4. CountOK'
  BY <1>1, <1>2, CountStep DEF DisplayInv, UsesWindow, stream
<1>5. CASE RemoveUnusedFrame
  <2>1. PICK pos \in 1..Len(fs) : RemoveFrame(fs, pos)
    BY <1>5 DEF RemoveUnusedFrame
  <2>2. Len(fs) \in Nat /\ DpbSize \in Nat /\ Len(fs) <= DpbSize /\ Len(fs') = Len(fs) - 1
    BY <1>5, UnusedGoes, DpbAssumption DEF IInv, BufferOK, GoodStores
  <2>3. EmptiedOK'
    BY <1>1, <2>1, <2>2 DEF DisplayInv, EmptiedOK, FullOK
  <2>4. FreshOK'
    <3> SUFFICES ASSUME cur.ref, ~cur.idr, marked[5] = 0, NEW i \in shortRefs'
                 PROVE  fs'[i].frameNum # cur.frameNum
      BY <1>1 DEF FreshOK
    <3>1. PICK k \in shortRefs \ {pos} : i = Shifted(k, pos)
      BY <2>1 DEF RemoveFrame
    <3>2. k \in (1..Len(fs)) \ {pos} /\ fs[k].frameNum # cur.frameNum
      BY <1>1, <3>1 DEF IInv, BufferOK, Positions, DisplayInv, FreshOK, StorePhases
    <3> QED  BY <2>1, <2>2, <3>1, <3>2, RemovedStores
  <2> QED  BY <1>1, <1>3, <1>4, <2>3, <2>4 DEF DisplayInv
<1>6. CASE UNCHANGED dpb /\ ~(Len(fs) = DpbSize /\ \E pos \in 1..Len(fs) : IsUnused(pos))
  <2>1. UNCHANGED <<fs, shortRefs>>
    BY <1>6 DEF dpb
  <2>2. EmptiedOK'
    BY <1>1, <1>6, <2>1 DEF DisplayInv, EmptiedOK, FullOK, Positions, IsUnused
  <2>3. FreshOK'
    BY <1>1, <2>1 DEF DisplayInv, FreshOK, StorePhases
  <2> QED  BY <1>1, <1>3, <1>4, <2>2, <2>3 DEF DisplayInv
<1> QED  BY <1>5, <1>6 DEF MakeRoom

-----------------------------------------------------------------------------
(* Marking                                                                 *)

(* The references are short-term or long-term, and none is both.            *)
LEMMA MarksCount ==
    ASSUME NEW stores, Len(stores) \in Nat
    PROVE  /\ RefsOf(stores) = Shorts(stores) \cup Longs(stores)
           /\ IsFiniteSet(Shorts(stores)) /\ Cardinality(Shorts(stores)) \in Nat
           /\ IsFiniteSet(Longs(stores)) /\ Cardinality(Longs(stores)) \in Nat
           /\ IsFiniteSet(RefsOf(stores)) /\ References(stores) \in Nat
           /\ References(stores) = Cardinality(Shorts(stores)) + Cardinality(Longs(stores))
<1>1. RefsOf(stores) = Shorts(stores) \cup Longs(stores)
  BY DEF RefsOf, Shorts, Longs
<1>2. IsFiniteSet(1..Len(stores))
  BY FS_Interval
<1>3. /\ IsFiniteSet(Shorts(stores)) /\ Cardinality(Shorts(stores)) \in Nat
      /\ IsFiniteSet(Longs(stores)) /\ Cardinality(Longs(stores)) \in Nat
      /\ IsFiniteSet(RefsOf(stores)) /\ References(stores) \in Nat
  <2>1. /\ Shorts(stores) \subseteq 1..Len(stores) /\ Longs(stores) \subseteq 1..Len(stores)
        /\ RefsOf(stores) \subseteq 1..Len(stores)
    BY DEF RefsOf, Shorts, Longs
  <2> QED  BY <1>2, <2>1, SubsetCount DEF References
<1>4. References(stores) = Cardinality(Shorts(stores)) + Cardinality(Longs(stores))
  <2>1. Cardinality(Shorts(stores) \cup Longs(stores)) =
          Cardinality(Shorts(stores)) + Cardinality(Longs(stores))
            - Cardinality(Shorts(stores) \cap Longs(stores))
    BY <1>3, FS_Union
  <2>2. Shorts(stores) \cap Longs(stores) = {}
    BY DEF Shorts, Longs
  <2>3. Cardinality(Shorts(stores) \cap Longs(stores)) = 0
    BY <2>2, FS_EmptySet
  <2> QED  BY <1>1, <1>3, <2>1, <2>3 DEF References
<1> QED  BY <1>1, <1>3, <1>4

(* The lists have every reference.                                          *)
LEMMA RefsAreListed ==
    ASSUME IInv, FrameInv
    PROVE  References(fs) <= Marked /\ References(fs) \in Nat /\ Marked \in Nat
<1>1. /\ References(fs) = Cardinality(Shorts(fs)) + Cardinality(Longs(fs))
      /\ Cardinality(Shorts(fs)) \in Nat /\ Cardinality(Longs(fs)) \in Nat
  BY FrameStores, MarksCount
<1>2. /\ Cardinality(Shorts(fs)) <= Cardinality(shortRefs)
      /\ Cardinality(Longs(fs)) <= Cardinality(longRefs)
      /\ Cardinality(shortRefs) \in Nat /\ Cardinality(longRefs) \in Nat
  BY FiniteParts, SubsetCount DEF FrameInv, ListsOK
<1> QED  BY <1>1, <1>2 DEF Marked

\* Marks are lost, and the lists are as before or made anew.
LEMMA LosesCounts ==
    ASSUME IInv, IInv', FrameInv, FrameInv', Loses(fs, fs'),
           shortRefs' = shortRefs \/ shortRefs' = ShortRefsOf(fs'),
           longRefs' = longRefs \/ longRefs' = LongRefsOf(fs')
    PROVE  FewerRefs /\ shortRefs' \subseteq shortRefs
<1>1. Len(fs) \in Nat /\ Len(fs') = Len(fs)
  BY FrameStores DEF Loses
<1>2. /\ Shorts(fs') \subseteq Shorts(fs) /\ Longs(fs') \subseteq Longs(fs)
      /\ RefsOf(fs') \subseteq RefsOf(fs)
  BY <1>1, LosesSheds DEF RefsOf, Loses, Keeps
<1>3. ShortRefsOf(fs') = Shorts(fs') /\ LongRefsOf(fs') = Longs(fs')
  BY <1>1, FrameLists DEF IInv, BufferOK, FrameInv, ShapeOK, GoodStores
<1>4. shortRefs' \subseteq shortRefs /\ longRefs' \subseteq longRefs
  BY <1>2, <1>3 DEF FrameInv, ListsOK
<1>5. /\ Cardinality(shortRefs') <= Cardinality(shortRefs) /\ Cardinality(shortRefs') \in Nat
      /\ Cardinality(longRefs') <= Cardinality(longRefs) /\ Cardinality(longRefs') \in Nat
      /\ References(fs') <= References(fs)
  BY <1>2, <1>4, FiniteParts, SubsetCount DEF References
<1>6. Cardinality(shortRefs) \in Nat /\ Cardinality(longRefs) \in Nat
  BY FiniteParts
<1> QED  BY <1>4, <1>5, <1>6 DEF FewerRefs, Marked

LEMMA UnmarkCounts ==
    ASSUME IInv, IInv', FrameInv, FrameInv',
           \/ \E d \in 0..(2 * MaxFrameNum - 1) : MarkShortUnused(d)
           \/ \E num \in 0..(2 * NumRefFrames + 1) : MarkLongUnused(num)
           \/ \E max \in -1..(NumRefFrames - 1) : SetMaxLongTermIdx(max)
           \/ \E idx \in 0..(NumRefFrames - 1) : MarkCurrentLong(idx)
    PROVE  FewerRefs /\ shortRefs' \subseteq shortRefs
<1>1. Framed(fs) /\ GoodStores(fs)
  BY DEF FrameInv, ShapeOK, IInv, BufferOK
<1>2. CASE \/ \E d \in 0..(2 * MaxFrameNum - 1) : MarkShortUnused(d)
           \/ \E num \in 0..(2 * NumRefFrames + 1) : MarkLongUnused(num)
  <2>1. pc = "marking"
    BY <1>2 DEF MarkShortUnused, MarkLongUnused, Operation
  <2>2. TargetViews = {"frame"}
    BY <2>1 DEF TargetViews, FrameInv, ShapeOK, KindOK, NoPicture
  <2>3. shortRefs \subseteq 1..Len(fs) /\ longRefs \subseteq 1..Len(fs)
    BY DEF IInv, BufferOK, Positions
  <2>4. PICK i \in 1..Len(fs) :
           \/ fs' = [fs EXCEPT ![i] = UnmarkForReference(fs[i])]
           \/ fs' = [fs EXCEPT ![i] = UnmarkForLongTerm(fs[i])]
    BY <1>2, <2>2, <2>3 DEF MarkShortUnused, MarkLongUnused, Unmark
  <2>5. /\ FrameStore(UnmarkForReference(fs[i])) /\ Keeps(fs[i], UnmarkForReference(fs[i]))
        /\ FrameStore(UnmarkForLongTerm(fs[i])) /\ Keeps(fs[i], UnmarkForLongTerm(fs[i]))
    BY FrameStores, UnmarkedFrame
  <2>6. Loses(fs, fs')
    BY <2>4, <2>5, ReplacedLoses
  <2> QED  BY <1>2, <2>6, LosesCounts DEF MarkShortUnused, MarkLongUnused
<1>3. CASE \/ \E max \in -1..(NumRefFrames - 1) : SetMaxLongTermIdx(max)
           \/ \E idx \in 0..(NumRefFrames - 1) : MarkCurrentLong(idx)
  <2>1. \E positions : fs' = UnmarkedLong(fs, positions)
    BY <1>3 DEF SetMaxLongTermIdx, MarkCurrentLong
  <2>2. Loses(fs, fs')
    BY <1>1, <2>1, UnmarkedLoses
  <2> QED  BY <1>3, <2>2, LosesCounts DEF SetMaxLongTermIdx, MarkCurrentLong
<1> QED  BY <1>2, <1>3

LEMMA MarkAllCounts ==
    ASSUME IInv, IInv', FrameInv, FrameInv', MarkAllUnused
    PROVE  FewerRefs /\ shortRefs' \subseteq shortRefs
<1> DEFINE stores == [i \in 1..Len(fs) |->
                        IF i \in shortRefs THEN UnmarkForReference(fs[i]) ELSE fs[i]]
<1>1. /\ fs' = UnmarkedLong(stores, longRefs) /\ shortRefs' = ShortRefsOf(stores)
      /\ UNCHANGED longRefs
  BY DEF MarkAllUnused
<1>2. /\ Len(fs) \in Nat /\ Len(stores) = Len(fs)
      /\ \A i \in 1..Len(fs) : stores[i] =
            IF i \in shortRefs THEN UnmarkForReference(fs[i]) ELSE fs[i]
  BY FrameStores
<1> HIDE DEF stores
<1>3. /\ Len(fs') = Len(fs)
      /\ \A i \in 1..Len(fs) :
            fs'[i] = IF i \in longRefs THEN UnmarkForLongTerm(stores[i]) ELSE stores[i]
  BY <1>1, <1>2 DEF UnmarkedLong
<1>4. RefsOf(fs') \subseteq RefsOf(fs)
  <2> SUFFICES ASSUME NEW i \in 1..Len(fs), fs[i].ref = {} PROVE fs'[i].ref = {}
    BY <1>3 DEF RefsOf
  <2>1. /\ GoodStore(fs[i]) /\ UnmarkForReference(fs[i]).ref = {}
        /\ UnmarkForLongTerm(fs[i]).ref = {}
    BY FrameStores, UnmarkedFrame
  <2>2. UnmarkForLongTerm(UnmarkForReference(fs[i])) = UnmarkForLongTerm(fs[i])
    BY <2>1 DEF UnmarkForLongTerm, UnmarkForReference, GoodStore, StoreType
  <2> QED  BY <1>2, <1>3, <2>1, <2>2
<1>5. shortRefs' = {}
  <2> SUFFICES ASSUME NEW i \in 1..Len(fs), IsShortTermReference(stores[i]) PROVE FALSE
    BY <1>1, <1>2 DEF ShortRefsOf
  <2>1. CASE i \in shortRefs
    <3>1. UnmarkForReference(fs[i]).refPics = {}
      BY FrameStores DEF UnmarkForReference, GoodStore, StoreType
    <3> QED  BY <1>2, <2>1, <3>1 DEF IsShortTermReference
  <2>2. CASE i \notin shortRefs
    <3>1. i \in ShortRefsOf(fs)
      BY <1>2, <2>2 DEF ShortRefsOf
    <3> QED  BY <2>2, <3>1, FrameStores DEF FrameInv, ListsOK
  <2> QED  BY <2>1, <2>2
<1>6. References(fs') <= References(fs) /\ Cardinality(shortRefs') <= Cardinality(shortRefs)
      /\ Cardinality(shortRefs') \in Nat
  <2>1. shortRefs' \subseteq shortRefs
    BY <1>5
  <2> QED  BY <1>4, <2>1, FiniteParts, SubsetCount DEF References
<1>7. Cardinality(shortRefs) \in Nat /\ Cardinality(longRefs) \in Nat
  BY FiniteParts
<1> QED  BY <1>1, <1>5, <1>6, <1>7 DEF FewerRefs, Marked

(* Operation 3 makes a short-term reference a long-term one.                *)
LEMMA AssignCounts ==
    ASSUME IInv, IInv', FrameInv, FrameInv', NEW d \in 0..(2 * MaxFrameNum - 1),
           NEW idx \in 0..(NumRefFrames - 1), AssignLong(d, idx)
    PROVE  FewerRefs /\ shortRefs' \subseteq shortRefs
<1>1. /\ Operation(3) /\ shortRefs' = ShortRefsOf(fs') /\ longRefs' = LongRefsOf(fs')
  BY DEF AssignLong
<1>2. cur.adaptive /\ TargetViews = {"frame"}
  BY <1>1 DEF Operation, TargetViews, FrameInv, ShapeOK, KindOK, NoPicture
<1> DEFINE losing == {j \in longRefs : fs[j].ltIdx = idx}
           stores == UnmarkedLong(fs, losing)
<1>3. PICK i \in shortRefs :
        /\ IsShortTarget(fs[i], "frame")
        /\ fs' = [stores EXCEPT ![i] = MarkLong(stores[i], "frame", idx)]
  <2>1. \A same : LosingIndex(idx, "frame", same) = losing
    BY DEF LosingIndex
  <2> HIDE DEF losing
  <2> QED  BY <1>2, <2>1 DEF AssignLong
<1>4. /\ i \in 1..Len(fs) /\ Len(fs) \in Nat /\ fs[i].ref = Parities
      /\ GoodStore(fs[i]) /\ FrameStore(fs[i])
  <2>1. i \in 1..Len(fs) /\ Len(fs) \in Nat
    BY FrameStores DEF IInv, BufferOK, Positions
  <2>2. fs[i].ref = Parities
    BY <1>3, <2>1, FrameStores DEF IsShortTarget, Fields, FrameStore, Parities
  <2> QED  BY <2>1, <2>2, FrameStores
<1>5. Framed(stores) /\ Loses(fs, stores)
  BY UnmarkedLoses DEF FrameInv, ShapeOK, IInv, BufferOK
<1>6. stores[i] \in StoreType /\ DOMAIN stores = 1..Len(fs)
  <2>1. stores[i] = UnmarkForLongTerm(fs[i]) \/ stores[i] = fs[i]
    BY <1>4 DEF UnmarkedLong
  <2>2. DOMAIN stores = 1..Len(fs)
    BY DEF UnmarkedLong
  <2> QED  BY <1>4, <2>1, <2>2 DEF GoodStore, StoreType, UnmarkForLongTerm, UnmarkForReference
<1>7. fs' = [stores EXCEPT ![i] = MarkLong(stores[i], "frame", idx)]
  BY <1>3
<1> HIDE DEF stores
<1>8. /\ Len(fs') = Len(fs)
      /\ \A j \in 1..Len(fs) :
            fs'[j] = IF j = i THEN MarkLong(stores[i], "frame", idx) ELSE stores[j]
  <2>1. DOMAIN fs' = 1..Len(fs)
    BY <1>6, <1>7
  <2>2. Len(fs') = Len(fs)
    BY <1>4, <2>1 DEF IInv, BufferOK, GoodStores
  <2> QED  BY <1>4, <1>6, <1>7, <2>2
<1>9. fs'[i].ref = stores[i].ref /\ fs'[i].lt # {}
  <2>1. fs'[i] = MarkLong(stores[i], "frame", idx)
    BY <1>4, <1>8
  <2> QED  BY <1>6, <2>1 DEF MarkLong, Fields, StoreType, Parities
<1>10. RefsOf(fs') \subseteq RefsOf(fs)
  BY <1>4, <1>5, <1>8, <1>9 DEF RefsOf, Loses, Keeps
<1>11. Shorts(fs') \subseteq Shorts(fs)
  BY <1>5, <1>8, <1>9 DEF Shorts, Loses, Keeps
<1>12. ShortRefsOf(fs') = Shorts(fs') /\ LongRefsOf(fs') = Longs(fs')
  BY FrameLists DEF IInv, BufferOK, FrameInv, ShapeOK, GoodStores
<1>13. shortRefs' \subseteq shortRefs
  BY <1>1, <1>11, <1>12 DEF FrameInv, ListsOK
<1>14. References(fs') <= References(fs)
  BY <1>10, FiniteParts, SubsetCount DEF References
<1>15. Marked' = References(fs')
  BY <1>1, <1>4, <1>8, <1>12, MarksCount DEF Marked
<1>16. References(fs') \in Nat
  BY <1>4, <1>8, MarksCount
<1> QED  BY <1>2, <1>13, <1>14, <1>15, <1>16, RefsAreListed DEF FewerRefs

LEMMA MarkingDisplay ==
    ASSUME IInv, IInv', FrameInv, FrameInv', DisplayInv, Marking, ~EndMarking
    PROVE  DisplayInv' /\ pc' # "failed"
<1>1. PICK op \in 1..6 : Operation(op)
  <2>1. (\E op \in {1, 2, 3, 4, 6} : Operation(op)) \/ MarkAllUnused
    BY DEF Marking, MarkShortUnused, MarkLongUnused, AssignLong, SetMaxLongTermIdx,
           MarkCurrentLong
  <2>2. MarkAllUnused => Operation(5)
    BY DEF MarkAllUnused
  <2> QED  BY <2>1, <2>2
<1>2. /\ pc = "marking" /\ UNCHANGED <<output, stream>>
      /\ marked' = [marked EXCEPT ![op] = @ + 1] /\ (marked'[5] = 0 => marked[5] = 0)
  BY <1>1 DEF Operation, IInv, ControlOK
<1>3. /\ cur.adaptive /\ ~cur.idr /\ cur # NoPicture /\ cur.exists
  BY <1>2 DEF FrameInv, KindOK, NoPicture, DisplayInv, SentOK, UsesWindow
<1>4. pc' = "marking"
  <2>1. CASE \E idx \in 0..(NumRefFrames - 1) : MarkCurrentLong(idx)
    <3>1. ~TooManyReferences(shortRefs, longRefs)
      BY <1>2, FiniteParts DEF TooManyReferences, DisplayInv, CountOK
    <3> QED  BY <1>2, <2>1, <3>1 DEF MarkCurrentLong
  <2>2. CASE ~\E idx \in 0..(NumRefFrames - 1) : MarkCurrentLong(idx)
    BY <1>2, <2>2 DEF Marking, MarkShortUnused, MarkLongUnused, AssignLong, SetMaxLongTermIdx,
                      MarkAllUnused
  <2> QED  BY <2>1, <2>2
<1>5. /\ cur'.exists = cur.exists /\ cur'.poc = cur.poc /\ cur'.ref = cur.ref
      /\ cur'.adaptive = cur.adaptive /\ cur'.idr = cur.idr /\ cur'.frameNum = cur.frameNum
  <2>1. cur' = cur \/ \E idx : cur' = [cur EXCEPT !.long = TRUE, !.ltIdx = idx]
    BY DEF Marking, MarkShortUnused, MarkLongUnused, AssignLong, SetMaxLongTermIdx,
           MarkAllUnused, MarkCurrentLong
  <2> QED  BY <2>1 DEF IInv, ControlOK, PictureType
<1>6. FewerRefs /\ shortRefs' \subseteq shortRefs
  BY UnmarkCounts, MarkAllCounts, AssignCounts DEF Marking
<1>7. Remarked /\ SameWaiting
  BY MarkingRemarks, RemarkedWaits
<1>8. SentOK' /\ ShownOK'
  BY <1>2, <1>3, <1>4, <1>5, <1>7, QuietStep
     DEF DisplayInv, SamePicture, SequenceRuns, FlushPhases, Overfull, output, stream
<1>9. CountOK'
  BY <1>2, <1>3, <1>4, <1>5, <1>6, CountStep DEF DisplayInv, stream
<1>10. EmptiedOK'
  BY <1>4 DEF EmptiedOK, FullOK
<1>11. FreshOK'
  <2>1. shortRefs \subseteq 1..Len(fs)
    BY DEF IInv, BufferOK, Positions
  <2> QED  BY <1>2, <1>5, <1>6, <1>7, <2>1
           DEF DisplayInv, FreshOK, StorePhases, Remarked, SameFields
<1> QED  BY <1>4, <1>8, <1>9, <1>10, <1>11 DEF DisplayInv

(* Operation 5 starts a sequence with the current picture.                  *)
LEMMA EndMarkingDisplay ==
    ASSUME IInv, IInv', FrameInv, DisplayInv, EndMarking
    PROVE  DisplayInv' /\ pc' # "failed"
<1>1. /\ pc = "marking" /\ UNCHANGED <<dpb, output, upcoming, first, pictures, marked>>
      /\ cur.adaptive /\ ~cur.idr /\ cur # NoPicture /\ cur.exists /\ upcoming = NoPicture
  BY DEF EndMarking, FrameInv, KindOK, NoPicture, DisplayInv, SentOK, UsesWindow
<1>2. SameWaiting /\ FewerRefs /\ UNCHANGED <<fs, shortRefs, lastOutputPoc, shown>>
  BY <1>1, SameDpbKeeps DEF dpb, output
<1>3. CASE marked[5] > 0
  <2>1. /\ cur' = [cur EXCEPT !.frameNum = 0, !.poc = 0] /\ sent' = {0} /\ pc' = "flush"
        /\ cur \in PictureType
    BY <1>3 DEF EndMarking, IInv, ControlOK
  <2>2. /\ cur'.adaptive = cur.adaptive /\ cur'.idr = cur.idr /\ cur'.exists /\ cur'.poc = 0
        /\ cur'.ref = cur.ref
    BY <1>1, <2>1 DEF PictureType
  <2>3. CountOK'
    BY <1>1, <1>2, <2>1, <2>2, CountStep DEF DisplayInv, UsesWindow
  <2>4. EmptiedOK' /\ FreshOK'
    BY <2>1 DEF EmptiedOK, FullOK, FreshOK, StorePhases
  <2>5. SentOK'
    <3>1. Cardinality({0}) = 1 /\ Cardinality({x \in {0} : x > 0}) = 0
          /\ ReorderDepth \in Nat /\ MaxPictures \in Nat
      <4>1. {x \in {0} : x > 0} = {}
        OBVIOUS
      <4> QED  BY <4>1, FS_EmptySet, FS_Singleton, DpbAssumption
    <3>2. pictures >= 1
      <4>1. cur.poc \in sent /\ IsFiniteSet(sent)
        BY <1>1 DEF DisplayInv, SentOK, SentBefore, IInv, StreamOK
      <4>2. Cardinality({cur.poc}) = 1 /\ Cardinality({cur.poc}) <= Cardinality(sent)
            /\ Cardinality(sent) \in Nat
        BY <4>1, SubsetCount, FS_Singleton
      <4> QED  BY <4>2 DEF DisplayInv, SentOK, IInv, StreamOK
    <3>3. 0 \in FramePocs
      BY <3>1 DEF FramePocs
    <3>4. ~upcoming.exists
      BY <1>1 DEF NoPicture
    <3>5. SentBefore(cur)' /\ SentBefore(upcoming)'
      BY <1>1, <2>1, <2>2, <3>1, <3>4 DEF SentBefore
    <3>6. PocsOf(fs') \subseteq FramePocs
      BY <1>1, <1>2 DEF SameWaiting, DisplayInv, SentOK
    <3> QED  BY <1>1, <2>1, <2>2, <3>1, <3>2, <3>3, <3>5, <3>6
             DEF SentOK, DisplayInv, SequenceRuns, FlushPhases
  <2>6. ShownOK'
    BY <1>1, <1>2, <2>1 DEF SameWaiting, DisplayInv, ShownOK, SequenceRuns, FlushPhases
  <2> QED  BY <2>1, <2>3, <2>4, <2>5, <2>6 DEF DisplayInv
<1>4. CASE ~(marked[5] > 0)
  <2>1. pc' = "placing" /\ UNCHANGED <<cur, sent>>
    BY <1>4 DEF EndMarking
  <2>2. SentOK' /\ ShownOK'
    BY <1>1, <1>2, <2>1, QuietStep
       DEF DisplayInv, SamePicture, SequenceRuns, FlushPhases, Overfull
  <2>3. CountOK'
    BY <1>1, <1>2, <2>1, CountStep DEF DisplayInv, UsesWindow
  <2>4. EmptiedOK'
    BY <1>1, <1>4, <2>1 DEF EmptiedOK, FullOK
  <2>5. FreshOK'
    BY <1>1, <1>2, <2>1 DEF DisplayInv, FreshOK, StorePhases
  <2> QED  BY <2>1, <2>2, <2>3, <2>4, <2>5 DEF DisplayInv
<1> QED  BY <1>3, <1>4

-----------------------------------------------------------------------------
(* A picture arrives                                                       *)

(* As many frames were sent before as the order of display allows.           *)
LEMMA LegalFrameIsSent ==
    ASSUME IInv, DisplayInv, pc = "ready", NEW poc \in FramePocs, LegalPoc(poc)
    PROVE  /\ Cardinality({x \in sent \cup {poc} : x > poc}) <= ReorderDepth
           /\ IsFiniteSet(sent \cup {poc})
           /\ Cardinality(sent \cup {poc}) <= pictures + 1
           /\ poc \notin PocsOf(fs) /\ shown < poc
           /\ shown # None =>
                ReorderDepth < Cardinality({x \in sent \cup {poc} : x >= shown})
<1> DEFINE later == {x \in sent : x > poc}
           shownBefore == {x \in sent : x >= shown}
<1>1. /\ IsFiniteSet(sent) /\ sent \subseteq Nat /\ poc \in Nat /\ poc \notin sent
      /\ shown \in Nat \cup {None} /\ ReorderDepth \in Nat
      /\ Cardinality(later) <= ReorderDepth
  BY DpbAssumption DEF IInv, StreamOK, OutputOK, LegalPoc, FramePocs
<1>2. {x \in sent \cup {poc} : x > poc} = later
  BY <1>1
<1>3. IsFiniteSet(sent \cup {poc}) /\ Cardinality(sent \cup {poc}) = Cardinality(sent) + 1
  BY <1>1, FS_AddElement
<1>4. Cardinality(sent) <= pictures /\ pictures \in Nat /\ Cardinality(sent) \in Nat
  BY <1>1, FS_CardinalityType DEF DisplayInv, SentOK, IInv, StreamOK
<1>5. SequenceRuns /\ ~Overfull
  BY DEF SequenceRuns, FlushPhases, Overfull
<1>6. PocsOf(fs) \subseteq sent /\ (shown # None => ReorderDepth < Cardinality(shownBefore))
  BY <1>5 DEF DisplayInv, SentOK, ShownOK
<1>7. IsFiniteSet(later) /\ Cardinality(later) \in Nat /\ IsFiniteSet(shownBefore)
      /\ Cardinality(shownBefore) \in Nat
  BY <1>1, SubsetCount
<1>8. shown < poc
  <2> SUFFICES ASSUME shown # None, poc <= shown PROVE FALSE
    BY <1>1 DEF None
  <2>1. shownBefore \subseteq later
    <3> SUFFICES ASSUME NEW x \in sent, x >= shown PROVE x > poc
      OBVIOUS
    <3>1. x \in Nat /\ x # poc /\ shown \in Nat
      BY <1>1
    <3> QED  BY <1>1, <3>1
  <2>2. Cardinality(shownBefore) <= Cardinality(later)
    BY <1>7, <2>1, SubsetCount
  <2> QED  BY <1>1, <1>6, <1>7, <2>2
<1>9. shown # None => ReorderDepth < Cardinality({x \in sent \cup {poc} : x >= shown})
  <2> DEFINE now == {x \in sent \cup {poc} : x >= shown}
  <2>1. shownBefore \subseteq now /\ now \subseteq sent \cup {poc}
    OBVIOUS
  <2> HIDE DEF now, shownBefore
  <2>2. Cardinality(shownBefore) <= Cardinality(now) /\ Cardinality(now) \in Nat
    BY <1>3, <2>1, SubsetCount
  <2> QED  BY <1>1, <1>6, <1>7, <2>2 DEF now
<1> QED  BY <1>1, <1>2, <1>3, <1>4, <1>6, <1>8, <1>9

LEMMA DecodeDisplay ==
    ASSUME IInv, IInv', FrameInv, FrameInv', DisplayInv, NEW p \in PictureType,
           p.structure = "frame", p.exists, p.poc \in FramePocs,
           p.idr => p.poc = 0, Decode(p)
    PROVE  DisplayInv' /\ pc' # "failed"
<1>1. ~IsSecondField(p)
  BY DEF IsSecondField, Parities
<1>2. /\ pc = "ready" /\ LegalFrame(p) /\ pictures' = pictures + 1 /\ pictures < MaxPictures
      /\ sent' = (IF p.idr THEN {0} ELSE sent \cup {p.poc}) /\ first' = NoPicture
      /\ UNCHANGED <<dpb, output, marked>>
      /\ p # NoPicture
  BY <1>1 DEF Decode, Legal, NoPicture
<1>3. /\ cur = NoPicture /\ upcoming = NoPicture /\ marked[5] = 0 /\ ~cur.exists
  BY <1>2 DEF FrameInv, KindOK, NoPicture, IInv, ControlOK
<1>4. /\ UNCHANGED <<fs, shortRefs, longRefs, lastOutputPoc, shown>>
      /\ PocsOf(fs') = PocsOf(fs) /\ (PocsDiffer(fs) => PocsDiffer(fs'))
      /\ References(fs') = References(fs)
  BY <1>2, SameStoresWait DEF dpb, output, SameWaiting
<1>5. \/ /\ ~p.idr /\ IsGap(p) /\ upcoming' = p /\ pc' = "gap" /\ cur' = cur
      \/ /\ ~(~p.idr /\ IsGap(p)) /\ cur' = p /\ upcoming' = NoPicture
         /\ pc' = (IF p.idr THEN "idr" ELSE IF p.ref /\ p.adaptive THEN "marking" ELSE "placing")
  BY DEF Decode, Begin, FirstStep
<1>6. CountOK'
  <2>1. ~p.idr => ((p.ref /\ ~p.adaptive) \/ IsGap(p) => Cardinality(longRefs) < FrameLimit)
    BY <1>2 DEF LegalFrame, IsGap
  <2>2. pc' \notin {"room", "bumping", "failed"} /\ pc # "failed"
    BY <1>2, <1>5
  <2>3. Cardinality(shortRefs') + Cardinality(longRefs') <= FrameLimit
    BY <1>4, <2>2 DEF DisplayInv, CountOK
  <2>4. upcoming' # NoPicture \/ (pc' = "placing" /\ UsesWindow')
          => Cardinality(longRefs') < FrameLimit
    BY <1>4, <1>5, <2>1 DEF UsesWindow
  <2> QED  BY <2>2, <2>3, <2>4 DEF CountOK
<1>7. EmptiedOK'
  <2>1. marked'[5] = 0 /\ ~(marked'[5] > 0)
    BY <1>2, <1>3
  <2> QED  BY <1>3, <1>5, <2>1 DEF EmptiedOK, FullOK, NoPicture
<1>8. FreshOK'
  <2>1. CASE p.idr
    BY <1>5, <2>1 DEF FreshOK, StorePhases
  <2>2. CASE ~p.idr
    <3>1. p.frameNum \notin ShortTermFrameNums
      <4>1. PICK gap \in 0..MaxGap :
              /\ p.frameNum = FrameNumAfter(1 + gap)
              /\ \A n \in 1..(1 + gap) : FrameNumAfter(n) \notin ShortTermFrameNums
        BY <1>2, <2>2 DEF LegalFrame
      <4>2. 1 + gap \in 1..(1 + gap)
        BY DpbAssumption
      <4> QED  BY <4>1, <4>2
    <3> QED  BY <1>3, <1>4, <1>5, <3>1 DEF FreshOK, StorePhases, ShortTermFrameNums
  <2> QED  BY <2>1, <2>2
<1>9. CASE p.idr
  <2>1. pc' = "idr" /\ cur' = p /\ upcoming' = NoPicture /\ sent' = {0} /\ p.poc = 0
    BY <1>2, <1>5, <1>9
  <2>2. Cardinality({0}) = 1 /\ Cardinality({x \in {0} : x > 0}) = 0 /\ ReorderDepth \in Nat
    <3>1. {x \in {0} : x > 0} = {}
      OBVIOUS
    <3> QED  BY <3>1, FS_EmptySet, FS_Singleton, DpbAssumption
  <2>3. SentBefore(cur)' /\ SentBefore(upcoming)'
    BY <2>1, <2>2 DEF SentBefore, NoPicture
  <2>4. pictures \in Nat /\ MaxPictures \in Nat /\ 0 \in FramePocs
    BY DpbAssumption DEF IInv, StreamOK, FramePocs
  <2>5. SentOK'
    BY <1>2, <1>4, <2>1, <2>2, <2>3, <2>4 DEF SentOK, SequenceRuns, FlushPhases, DisplayInv
  <2>6. ShownOK'
    BY <1>2, <1>4, <2>1 DEF ShownOK, SequenceRuns, DisplayInv
  <2> QED  BY <1>6, <1>7, <1>8, <2>1, <2>5, <2>6 DEF DisplayInv
<1>10. CASE ~p.idr
  <2>1. LegalPoc(p.poc) /\ sent' = sent \cup {p.poc}
    BY <1>2, <1>10 DEF LegalFrame
  <2>2. /\ Cardinality({x \in sent' : x > p.poc}) <= ReorderDepth
        /\ Cardinality(sent') <= pictures'
        /\ p.poc \notin PocsOf(fs) /\ shown < p.poc
        /\ shown # None => ReorderDepth < Cardinality({x \in sent' : x >= shown})
    BY <1>2, <2>1, LegalFrameIsSent
  <2>3. SequenceRuns /\ ~Overfull /\ ~Overfull'
    BY <1>2, <1>5 DEF SequenceRuns, FlushPhases, Overfull
  <2>4. SentBefore(p)'
    BY <2>1, <2>2 DEF SentBefore
  <2>5. ~NoPicture.exists
    BY DEF NoPicture
  <2>6. pc' # "failed" /\ cur' \in {p, NoPicture} /\ upcoming' \in {p, NoPicture}
        /\ (upcoming' = p => cur' = NoPicture)
    BY <1>3, <1>5, <1>10
  <2>7. SentBefore(cur)' /\ SentBefore(upcoming)'
    BY <2>4, <2>5, <2>6 DEF SentBefore
  <2>8. /\ PocsOf(fs) \subseteq sent /\ sent \subseteq FramePocs
    BY <2>3 DEF DisplayInv, SentOK
  <2>9. pictures' <= MaxPictures
    BY <1>2, DpbAssumption DEF IInv, StreamOK
  <2>10. SentOK'
    BY <1>2, <1>4, <2>1, <2>2, <2>5, <2>6, <2>7, <2>8, <2>9 DEF SentOK
  <2>11. ShownOK'
    BY <1>2, <1>4, <2>2, <2>5, <2>6 DEF ShownOK, DisplayInv
  <2> QED  BY <1>6, <1>7, <1>8, <2>6, <2>10, <2>11 DEF DisplayInv
<1> QED  BY <1>9, <1>10

LEMMA DecodeNextDisplay ==
    ASSUME OnlyFrames, IInv, IInv', FrameInv, FrameInv', DisplayInv, DecodeNext
    PROVE  DisplayInv' /\ pc' # "failed"
<1>1. PICK a \in BOOLEAN, b \in BOOLEAN :
        \/ Decode(IdrPicture("frame", a, b))
        \/ \E gap \in 0..MaxGap, i \in 0..(Cardinality(sent) + ReorderDepth) :
              Decode(OtherPicture("frame", a, b, FrameNumAfter(1 + gap), 2 * i))
        \/ Decode(OtherPicture("frame", a, b, first.frameNum, first.poc + 1))
  BY DEF DecodeNext, OnlyFrames
<1>2. "frame" \in Views /\ MaxPictures \in Nat /\ ReorderDepth \in Nat
  BY DpbAssumption DEF Views
<1>3. ASSUME Decode(IdrPicture("frame", a, b)) PROVE DisplayInv' /\ pc' # "failed"
  <2> DEFINE p == IdrPicture("frame", a, b)
  <2>1. p \in PictureType /\ p.structure = "frame" /\ p.exists /\ p.poc = 0
    BY <1>2, NoPictureType DEF IdrPicture, NoPicture, PictureType
  <2>2. 0 \in FramePocs
    BY <1>2 DEF FramePocs
  <2> HIDE DEF p
  <2>3. Decode(p)
    BY <1>3 DEF p
  <2> QED  BY <2>1, <2>2, <2>3, DecodeDisplay
<1>4. ASSUME NEW n \in 0..(MaxFrameNum - 1), NEW poc \in Nat,
             Decode(OtherPicture("frame", a, b, n, poc)), poc % 2 = 0 => poc \in FramePocs
      PROVE  DisplayInv' /\ pc' # "failed"
  <2> DEFINE p == OtherPicture("frame", a, b, n, poc)
  <2>1. /\ p \in PictureType /\ p.structure = "frame" /\ p.exists /\ ~p.idr /\ p.poc = poc
    BY <1>2, NoPictureType DEF OtherPicture, NoPicture, PictureType
  <2> HIDE DEF p
  <2>2. Decode(p)
    BY <1>4 DEF p
  <2>3. poc % 2 = 0
    BY <2>1, <2>2 DEF Decode, Legal, IsSecondField, Parities
  <2> QED  BY <1>4, <2>1, <2>2, <2>3, DecodeDisplay
<1>5. ASSUME NEW gap \in 0..MaxGap, NEW i \in 0..(Cardinality(sent) + ReorderDepth),
             Decode(OtherPicture("frame", a, b, FrameNumAfter(1 + gap), 2 * i))
      PROVE  DisplayInv' /\ pc' # "failed"
  <2>1. FrameNumAfter(1 + gap) \in 0..(MaxFrameNum - 1)
    BY DpbAssumption, FrameNumInRange DEF IInv
  <2>2. Cardinality(sent) \in Nat /\ Cardinality(sent) <= MaxPictures
    BY <1>2, FS_CardinalityType DEF IInv, StreamOK, DisplayInv, SentOK
  <2>3. 2 * i \in FramePocs /\ 2 * i \in Nat
    BY <1>2, <2>2 DEF FramePocs
  <2> QED  BY <1>4, <1>5, <2>1, <2>3
<1>6. ASSUME Decode(OtherPicture("frame", a, b, first.frameNum, first.poc + 1))
      PROVE  DisplayInv' /\ pc' # "failed"
  <2>1. first.frameNum = 0 /\ first.poc + 1 = 1 /\ 1 % 2 # 0 /\ 0 \in 0..(MaxFrameNum - 1)
    BY DpbAssumption DEF DisplayInv, SentOK, NoPicture
  <2> QED  BY <1>4, <1>6, <2>1
<1> QED  BY <1>1, <1>3, <1>5, <1>6

\* A number whose distance from pre_frame_num no short-term reference is in the
\* way of is not the number of one.
LEMMA ClearIsFresh ==
    ASSUME IInv, FrameInv, NEW n \in 0..(MaxFrameNum - 1), n # preFrameNum,
           Clear(fs, preFrameNum, Age(n, preFrameNum))
    PROVE  Fresh(fs, n)
<1> SUFFICES ASSUME NEW i \in Shorts(fs), fs[i].frameNum = n PROVE FALSE
  BY DEF Fresh
<1>1. preFrameNum \in 0..(MaxFrameNum - 1) /\ MaxFrameNum \in Nat
  BY ShortNumbers, DpbAssumption
<1>2. Age(preFrameNum, n) + Age(n, preFrameNum) < MaxFrameNum
  BY DEF Clear
<1>3. /\ Age(preFrameNum, n) = (IF n <= preFrameNum THEN preFrameNum - n
                                                   ELSE preFrameNum - n + MaxFrameNum)
      /\ Age(n, preFrameNum) = (IF preFrameNum <= n THEN n - preFrameNum
                                                   ELSE n - preFrameNum + MaxFrameNum)
  BY <1>1, AgeIs
<1> QED  BY <1>1, <1>2, <1>3

LEMMA FillGapDisplay ==
    ASSUME IInv, IInv', FrameInv, FrameInv', DisplayInv, NEW poc \in StalePocs, FillGap(poc)
    PROVE  DisplayInv' /\ pc' # "failed"
<1>1. /\ pc = "gap" /\ pc' = "placing" /\ UNCHANGED <<dpb, output, upcoming, sent, first, pictures, marked>>
      /\ cur = NoPicture /\ ~cur.exists /\ upcoming # NoPicture
      /\ cur' = [NoPicture EXCEPT !.structure = "frame", !.ref = TRUE,
                                  !.frameNum = FrameNumAfter(1), !.poc = poc]
  BY DEF FillGap, FrameInv, KindOK, NoPicture, IInv, ControlOK, Views, Parities
<1>2. ~cur'.exists /\ ~cur'.adaptive /\ ~cur'.idr /\ cur'.ref /\ ~cur'.long
  BY <1>1 DEF NoPicture
<1>3. ~(marked[5] > 0)
  BY <1>1 DEF FrameInv, KindOK, NoPicture
<1>4. /\ UNCHANGED <<fs, shortRefs, longRefs, lastOutputPoc, shown>>
      /\ PocsOf(fs') = PocsOf(fs) /\ (PocsDiffer(fs) => PocsDiffer(fs'))
      /\ References(fs') = References(fs)
  BY <1>1, SameStoresWait DEF dpb, output, SameWaiting
<1>5. SequenceRuns /\ ~Overfull /\ SequenceRuns' /\ ~Overfull'
  BY <1>1 DEF SequenceRuns, FlushPhases, Overfull
<1>6. CountOK'
  BY <1>1, <1>4 DEF DisplayInv, CountOK
<1>7. EmptiedOK'
  BY <1>1, <1>2, <1>3 DEF EmptiedOK, FullOK
<1>8. FreshOK'
  <2>1. Fresh(fs', cur'.frameNum) /\ shortRefs' = Shorts(fs')
    BY <1>1, <1>2 DEF FrameInv, OrderOK, ListsOK, Listed, FlushPhases
  <2> QED  BY <2>1 DEF FreshOK, Fresh
<1>9. SentOK'
  <2>1. SentBefore(cur)' /\ SentBefore(upcoming)'
    BY <1>1, <1>2 DEF DisplayInv, SentOK, SentBefore
  <2> QED  BY <1>1, <1>2, <1>4, <1>5, <2>1 DEF DisplayInv, SentOK, UsesWindow
<1>10. ShownOK'
  BY <1>1, <1>2, <1>4, <1>5 DEF DisplayInv, ShownOK
<1> QED  BY <1>1, <1>6, <1>7, <1>8, <1>9, <1>10 DEF DisplayInv

LEMMA AfterGapDisplay ==
    ASSUME IInv, IInv', FrameInv, FrameInv', DisplayInv, AfterGap
    PROVE  DisplayInv' /\ pc' # "failed"
<1>1. /\ pc = "gap" /\ UNCHANGED <<dpb, output, sent, first, pictures, marked>>
      /\ cur = NoPicture /\ ~cur.exists /\ upcoming # NoPicture /\ upcoming \in PictureType
      /\ cur' = upcoming /\ upcoming' = NoPicture
      /\ ~upcoming.idr /\ pc' = FirstStep(upcoming)
  BY DEF AfterGap, Begin, FrameInv, KindOK, NoPicture, IInv, StreamOK, ControlOK, Views, Parities
<1>2. upcoming.exists /\ ~NoPicture.exists
  BY <1>1 DEF DisplayInv, SentOK, NoPicture
<1>3. ~(marked[5] > 0)
  BY <1>1 DEF FrameInv, KindOK, NoPicture
<1>4. /\ UNCHANGED <<fs, shortRefs, longRefs, lastOutputPoc, shown>>
      /\ PocsOf(fs') = PocsOf(fs) /\ (PocsDiffer(fs) => PocsDiffer(fs'))
      /\ References(fs') = References(fs)
  BY <1>1, SameStoresWait DEF dpb, output, SameWaiting
<1>5. /\ SequenceRuns /\ ~Overfull /\ SequenceRuns' /\ ~Overfull'
      /\ pc' = IF upcoming.ref /\ upcoming.adaptive THEN "marking" ELSE "placing"
  BY <1>1 DEF SequenceRuns, FlushPhases, Overfull, FirstStep
<1>6. CountOK'
  BY <1>1, <1>4, <1>5 DEF DisplayInv, CountOK
<1>7. EmptiedOK'
  BY <1>1, <1>3, <1>5 DEF EmptiedOK, FullOK
<1>8. FreshOK'
  <2>1. Fresh(fs, upcoming.frameNum)
    BY <1>1, ClearIsFresh DEF FrameInv, OrderOK, PictureType
  <2>2. shortRefs = Shorts(fs)
    BY <1>1 DEF FrameInv, ListsOK, Listed, FlushPhases, NoPicture
  <2> QED  BY <1>1, <1>4, <2>1, <2>2 DEF FreshOK, Fresh
<1>9. SentOK'
  <2>1. SentBefore(cur)' /\ SentBefore(upcoming)'
    BY <1>1, <1>2 DEF DisplayInv, SentOK, SentBefore
  <2> QED  BY <1>1, <1>2, <1>4, <1>5, <2>1 DEF DisplayInv, SentOK
<1>10. ShownOK'
  BY <1>1, <1>2, <1>4, <1>5 DEF DisplayInv, ShownOK
<1> QED  BY <1>5, <1>6, <1>7, <1>8, <1>9, <1>10 DEF DisplayInv

-----------------------------------------------------------------------------
(* The buffer is emptied                                                   *)

LEMMA NoneWaits == PocsOf(<<>>) = {} /\ PocsDiffer(<<>>)
BY DEF PocsOf, PocsDiffer, Waits

\* A buffer in which no store waits and none is left that does not.
LEMMA FlushLeavesNothing ==
    ASSUME IInv, DisplayInv, pc = "bumpall", Waiting = {}
    PROVE  fs = <<>>
<1>1. \A i \in 1..Len(fs) : ~fs[i].output
  BY DEF DisplayInv, EmptiedOK
<1>2. Len(fs) \in Nat /\ fs \in Seq(StoreType)
  BY DEF IInv, BufferOK, GoodStores
<1>3. 1..Len(fs) = {}
  BY <1>1 DEF Waiting
<1>4. Len(fs) = 0
  BY <1>2, <1>3
<1> QED  BY <1>2, <1>4

\* idr_memory_management.
LEMMA IdrDisplay ==
    ASSUME IInv, IInv', FrameInv, DisplayInv, IdrMarking, cur.idr, pc # "failed", fs' = <<>>,
           UNCHANGED <<stream, marked>>
    PROVE  DisplayInv' /\ pc' # "failed"
<1>1. /\ shortRefs' = {} /\ longRefs' = {} /\ lastOutputPoc' = None /\ shown' = None
      /\ cur' = [cur EXCEPT !.long = cur.longFlag] /\ pc' = "placing"
      /\ cur \in PictureType /\ UNCHANGED <<sent, pictures, upcoming, first, marked>>
  BY DEF IdrMarking, IInv, ControlOK, stream
<1>2. /\ cur'.exists = cur.exists /\ cur'.poc = cur.poc /\ cur'.idr /\ upcoming = NoPicture
      /\ cur # NoPicture /\ cur.exists /\ ~upcoming.exists
  BY <1>1 DEF PictureType, FrameInv, KindOK, NoPicture, DisplayInv, SentOK, UsesWindow
<1>3. PocsOf(fs') = {} /\ PocsDiffer(fs') /\ Len(fs') = 0 /\ References(fs') = 0
      /\ FrameLimit \in Nat \ {0} /\ Cardinality({}) = 0 /\ DpbSize # 0
  <2>1. PocsOf(<<>>) = {} /\ PocsDiffer(<<>>) /\ Len(<<>>) = 0
    BY NoneWaits
  <2>2. References(<<>>) = 0
    <3>1. RefsOf(<<>>) = {}
      BY DEF RefsOf
    <3> QED  BY <3>1, FS_EmptySet DEF References
  <2>3. FrameLimit \in Nat \ {0} /\ Cardinality({}) = 0 /\ DpbSize # 0
    BY DpbAssumption, FS_EmptySet DEF FrameLimit
  <2> QED  BY <2>1, <2>2, <2>3
<1>4. CountOK'
  BY <1>1, <1>2, <1>3 DEF CountOK, UsesWindow
<1>5. EmptiedOK' /\ FreshOK'
  BY <1>1, <1>2, <1>3 DEF EmptiedOK, FullOK, FreshOK
<1>6. SentOK'
  <2>1. SentBefore(cur)' /\ SentBefore(upcoming)'
    BY <1>1, <1>2 DEF DisplayInv, SentOK, SentBefore
  <2> QED  BY <1>1, <1>2, <1>3, <2>1 DEF DisplayInv, SentOK
<1>7. ShownOK'
  <2>1. None < cur.poc /\ ~(None # None) /\ None <= None
    <3>1. cur.poc \in Nat
      BY <1>1 DEF PictureType
    <3> QED  BY <3>1 DEF None
  <2>2. shown' = None /\ lastOutputPoc' = None /\ upcoming' = upcoming
    BY <1>1
  <2> QED  BY <1>2, <1>3, <2>1, <2>2 DEF ShownOK
<1> QED  BY <1>1, <1>4, <1>5, <1>6, <1>7 DEF DisplayInv

LEMMA IdrDiscardDisplay ==
    ASSUME IInv, IInv', FrameInv, DisplayInv, IdrDiscard
    PROVE  DisplayInv' /\ pc' # "failed"
<1>1. cur.idr /\ pc # "failed" /\ fs' = <<>> /\ IdrMarking /\ UNCHANGED <<stream, marked>>
  BY DEF IdrDiscard, FrameInv, KindOK
<1> QED  BY <1>1, IdrDisplay

LEMMA FlushEndDisplay ==
    ASSUME IInv, IInv', FrameInv, DisplayInv, FlushEnd
    PROVE  DisplayInv' /\ pc' # "failed"
<1>1. pc = "bumpall" /\ Waiting = {} /\ UNCHANGED <<stream, marked>>
  BY DEF FlushEnd
<1>2. fs = <<>>
  BY <1>1, FlushLeavesNothing
<1>3. CASE cur.idr
  BY <1>1, <1>2, <1>3, IdrDisplay DEF FlushEnd
<1>4. CASE ~cur.idr
  <2>1. /\ lastOutputPoc' = None /\ shown' = None /\ UNCHANGED <<dpb, cur>>
        /\ pc' = IF cur = NoPicture THEN "ended" ELSE "placing"
    BY <1>4 DEF FlushEnd
  <2>2. UNCHANGED <<fs, shortRefs, longRefs, sent, pictures, upcoming, first, marked>>
    BY <1>1, <2>1 DEF dpb, stream
  <2>3. /\ upcoming = NoPicture /\ ~upcoming.exists
        /\ cur = NoPicture \/ (cur.adaptive /\ cur.exists)
    BY <1>1, <1>4 DEF FrameInv, KindOK, NoPicture, FlushPhases, DisplayInv, SentOK, UsesWindow
  <2>4. PocsOf(fs') = {} /\ PocsDiffer(fs') /\ Len(fs') = 0 /\ DpbSize # 0
    BY <1>2, <2>2, NoneWaits, DpbAssumption
  <2>5. CountOK'
    BY <1>1, <2>1, <2>2, <2>3 DEF DisplayInv, CountOK, UsesWindow, NoPicture
  <2>6. EmptiedOK' /\ FreshOK'
    <3>1. shortRefs' = {}
      BY <2>4 DEF IInv, BufferOK, Positions
    <3> QED  BY <1>2, <2>1, <2>2, <2>4, <3>1 DEF EmptiedOK, FullOK, FreshOK
  <2>7. SentOK'
    BY <1>1, <2>1, <2>2, <2>3, <2>4 DEF DisplayInv, SentOK, SentBefore, UsesWindow
  <2>8. ShownOK'
    <3>1. None < cur.poc /\ ~(None # None) /\ None <= None
      BY DEF None, IInv, ControlOK, PictureType
    <3> QED  BY <2>1, <2>2, <2>3, <2>4, <3>1 DEF ShownOK
  <2> QED  BY <2>1, <2>5, <2>6, <2>7, <2>8 DEF DisplayInv
<1> QED  BY <1>3, <1>4

-----------------------------------------------------------------------------
(* A frame is shown                                                        *)

\* What output_one_frame_from_dpb leaves, if the order of output is kept.
LEMMA ShownStores ==
    ASSUME IInv, FrameInv, NEW pos \in Waiting, OutputOneFrame(pos), lastOutputPoc < fs[pos].poc
    PROVE  /\ pc' = pc /\ lastOutputPoc' = fs[pos].poc
           /\ \A i \in shortRefs' : \E k \in shortRefs : fs'[i].frameNum = fs[k].frameNum
           /\ \/ /\ Len(fs') = Len(fs) /\ fs[pos].ref # {}
                 /\ fs'[pos].ref = fs[pos].ref
                 /\ \A i \in 1..Len(fs) : i # pos => fs'[i] = fs[i]
              \/ /\ Len(fs') = Len(fs) - 1 /\ fs[pos].ref = {}
                 /\ \A i \in 1..Len(fs') : \E k \in (1..Len(fs)) \ {pos} : fs'[i] = fs[k]
<1> DEFINE s == Written(fs[pos])
           stores == [fs EXCEPT ![pos] = s]
<1>1. /\ pos \in 1..Len(fs) /\ GoodStore(fs[pos]) /\ FrameStore(fs[pos]) /\ Len(fs) \in Nat
      /\ shortRefs \subseteq 1..Len(fs) /\ DOMAIN fs = 1..Len(fs)
  BY FrameStores DEF Waiting, IInv, BufferOK, GoodStores, Positions
<1>2. ~(lastOutputPoc >= fs[pos].poc)
  BY <1>1 DEF IInv, OutputOK, None, GoodStore, StoreType
<1>3. /\ pc' = pc /\ lastOutputPoc' = fs[pos].poc
      /\ \/ fs' = stores /\ UNCHANGED shortRefs /\ IsUsedForReference(s)
         \/ RemoveFrame(stores, pos) /\ ~IsUsedForReference(s)
  BY <1>2 DEF OutputOneFrame
<1>4. s = [fs[pos] EXCEPT !.output = TRUE]
  BY <1>1 DEF Written, FrameStore
<1>5. /\ s.ref = fs[pos].ref /\ s.frameNum = fs[pos].frameNum
      /\ s.used = fs[pos].used /\ s.refPics = fs[pos].refPics
  BY <1>1, <1>4 DEF GoodStore, StoreType
<1>6. IsUsedForReference(s) <=> fs[pos].ref # {}
  <2>1. IsUsedForReference(s) <=> IsUsedForReference(fs[pos])
    BY <1>5 DEF IsUsedForReference, ViewsOf
  <2> QED  BY <1>1, <2>1, UnusedIsNoRef
<1> HIDE DEF s
<1>7. /\ Len(stores) = Len(fs)
      /\ \A i \in 1..Len(fs) : stores[i] = IF i = pos THEN s ELSE fs[i]
  BY <1>1 DEF IInv, BufferOK, GoodStores
<1>8. \A i \in 1..Len(fs) : stores[i].frameNum = fs[i].frameNum
  BY <1>5, <1>7
<1> HIDE DEF stores
<1>9. CASE fs' = stores /\ UNCHANGED shortRefs /\ IsUsedForReference(s)
  <2>1. \A i \in shortRefs' : \E k \in shortRefs : fs'[i].frameNum = fs[k].frameNum
    BY <1>1, <1>8, <1>9
  <2> QED  BY <1>1, <1>3, <1>5, <1>6, <1>7, <1>9, <2>1
<1>10. CASE RemoveFrame(stores, pos) /\ ~IsUsedForReference(s)
  <2>1. /\ Len(fs') = Len(stores) - 1
        /\ \A i \in 1..Len(fs') : \E k \in (1..Len(stores)) \ {pos} : Shifted(k, pos) = i
        /\ \A k \in (1..Len(stores)) \ {pos} : fs'[Shifted(k, pos)] = stores[k]
    BY <1>1, <1>7, <1>10, RemovedStores
  <2>2. \A i \in 1..Len(fs') : \E k \in (1..Len(fs)) \ {pos} : fs'[i] = fs[k]
    BY <1>7, <2>1
  <2>3. \A i \in shortRefs' : \E k \in shortRefs : fs'[i].frameNum = fs[k].frameNum
    <3> SUFFICES ASSUME NEW i \in shortRefs'
                 PROVE  \E k \in shortRefs : fs'[i].frameNum = fs[k].frameNum
      OBVIOUS
    <3>1. PICK k \in shortRefs \ {pos} : i = Shifted(k, pos)
      BY <1>10 DEF RemoveFrame
    <3>2. k \in (1..Len(stores)) \ {pos} /\ k \in 1..Len(fs)
      BY <1>1, <1>7, <3>1
    <3>3. fs'[i].frameNum = fs[k].frameNum
      BY <1>8, <2>1, <3>1, <3>2
    <3> QED  BY <3>1, <3>3
  <2> QED  BY <1>3, <1>6, <1>7, <1>10, <2>1, <2>2, <2>3
<1> QED  BY <1>3, <1>9, <1>10

\* The order of output never ends the decoder.
LEMMA InOrder ==
    ASSUME IInv, FrameInv, DisplayInv, pc # "failed", NEW pos \in Waiting
    PROVE  /\ lastOutputPoc < fs[pos].poc /\ shown < fs[pos].poc
           /\ fs[pos].poc \in Nat /\ fs[pos].poc \in PocsOf(fs)
<1>1. fs[pos].poc \in PocsOf(fs) /\ fs[pos].poc \in Nat
  BY FrameStores DEF Waiting, PocsOf, Waits, GoodStore, StoreType
<1>2. lastOutputPoc <= shown /\ shown < fs[pos].poc
  BY <1>1 DEF DisplayInv, ShownOK
<1> QED  BY <1>1, <1>2 DEF IInv, OutputOK, None

LEMMA FlushOutputDisplay ==
    ASSUME IInv, IInv', FrameInv, DisplayInv, FlushOutput
    PROVE  DisplayInv' /\ pc' # "failed"
<1>1. pc = "bumpall" /\ UNCHANGED <<stream, cur, marked>>
  BY DEF FlushOutput
<1>2. PICK pos \in Waiting : OutputOneFrame(pos)
  BY DEF FlushOutput
<1>3. lastOutputPoc < fs[pos].poc /\ pos \in 1..Len(fs) /\ PocsDiffer(fs) /\ fs[pos].poc \in Nat
  BY <1>1, InOrder DEF Waiting, DisplayInv, ShownOK
<1>4. /\ pc' = pc /\ lastOutputPoc' = fs[pos].poc /\ fs[pos].ref = {}
      /\ \A i \in 1..Len(fs') : \E k \in (1..Len(fs)) \ {pos} : fs'[i] = fs[k]
  BY <1>1, <1>2, <1>3, ShownStores DEF FrameInv, FlushedOK, Unreferenced
<1>5. /\ \A poc \in PocsOf(fs) : fs[pos].poc <= poc
      /\ shown' = fs[pos].poc /\ PocsOf(fs') = PocsOf(fs) \ {fs[pos].poc} /\ PocsDiffer(fs')
      /\ FewerRefs
  BY <1>2, <1>3, OneFrameShown
<1>6. CountOK'
  BY <1>1, <1>4, <1>5, CountStep DEF DisplayInv, stream
<1>7. EmptiedOK'
  BY <1>1, <1>4 DEF DisplayInv, EmptiedOK, FullOK
<1>8. FreshOK'
  BY <1>1, <1>4 DEF FreshOK, StorePhases
<1>9. ~SequenceRuns' /\ pc # "failed"
  BY <1>1, <1>4 DEF SequenceRuns, FlushPhases
<1>10. SentOK'
  <2>1. SentBefore(cur)' /\ SentBefore(upcoming)'
    BY <1>1 DEF DisplayInv, SentOK, SentBefore, stream
  <2> QED  BY <1>1, <1>5, <1>9, <2>1 DEF DisplayInv, SentOK, UsesWindow, stream
<1>11. ShownOK'
  <2>1. PocsOf(fs) \subseteq FramePocs
    BY <1>9 DEF DisplayInv, SentOK
  <2>2. \A poc \in PocsOf(fs') : shown' < poc
    BY <1>3, <1>5, <2>1 DEF FramePocs
  <2> QED  BY <1>3, <1>4, <1>5, <1>9, <2>2 DEF ShownOK
<1> QED  BY <1>1, <1>4, <1>6, <1>7, <1>8, <1>10, <1>11 DEF DisplayInv

(* A full buffer holds so many frames that wait that none that is still to   *)
(* come is shown before the first of them.                                  *)
LEMMA EnoughWait ==
    ASSUME BufferFits, IInv, FrameInv, DisplayInv, pc = "bumping", Len(fs) = DpbSize, ~Overfull
    PROVE  /\ IsFiniteSet(PocsOf(fs)) /\ Cardinality(PocsOf(fs)) \in Nat
           /\ ReorderDepth <= Cardinality(PocsOf(fs))
           /\ cur.ref => ReorderDepth < Cardinality(PocsOf(fs))
<1>1. /\ IsFiniteSet(PocsOf(fs)) /\ Cardinality(PocsOf(fs)) \in Nat
      /\ DpbSize <= Cardinality(PocsOf(fs)) + References(fs)
  BY FullWaits DEF DisplayInv, ShownOK, EmptiedOK, FullOK
<1>2. /\ References(fs) <= FrameLimit /\ References(fs) \in Nat /\ FrameLimit \in Nat
      /\ DpbSize \in Nat \ {0} /\ ReorderDepth \in Nat
  <2>1. Marked <= FrameLimit
    BY DEF DisplayInv, CountOK, Marked
  <2> QED  BY <2>1, RefsAreListed, FiniteParts, DpbAssumption
<1>3. ~cur.idr
  BY <1>2, NoneWaits DEF DisplayInv, EmptiedOK
<1>4. cur.ref => References(fs) < FrameLimit
  <2>1. UsesWindow => References(fs) < FrameLimit
    BY DEF DisplayInv, CountOK
  <2>2. cur.adaptive => References(fs) < FrameLimit
    BY <1>2 DEF Overfull
  <2> QED  BY <1>3, <2>1, <2>2 DEF UsesWindow
<1> QED  BY <1>1, <1>2, <1>4 DEF BufferFits

LEMMA LaterCount ==
    ASSUME IInv, NEW S, S \subseteq sent, NEW T, T \subseteq S
    PROVE  /\ IsFiniteSet(S) /\ IsFiniteSet(T)
           /\ Cardinality(T) <= Cardinality(S) /\ Cardinality(S) \in Nat
<1>1. IsFiniteSet(sent)
  BY DEF IInv, StreamOK
<1>2. IsFiniteSet(S)
  BY <1>1, SubsetCount
<1> QED  BY <1>2, SubsetCount

LEMMA BumpDisplay ==
    ASSUME BufferFits, IInv, IInv', FrameInv, DisplayInv, Bump
    PROVE  DisplayInv' /\ pc' # "failed"
<1>1. pc = "bumping" /\ Len(fs) = DpbSize /\ ~GoesDirectly /\ UNCHANGED <<stream, cur, marked>>
  BY DEF Bump
<1>2. PICK pos \in Waiting : OutputOneFrame(pos)
  BY DEF Bump
<1> DEFINE poc == fs[pos].poc
<1>3. /\ lastOutputPoc < poc /\ pos \in 1..Len(fs) /\ PocsDiffer(fs) /\ poc \in Nat
      /\ poc \in PocsOf(fs)
  BY <1>1, InOrder DEF Waiting, DisplayInv, ShownOK
<1>4. /\ pc' = pc /\ lastOutputPoc' = poc
      /\ \A i \in shortRefs' : \E k \in shortRefs : fs'[i].frameNum = fs[k].frameNum
      /\ \/ /\ Len(fs') = Len(fs) /\ fs[pos].ref # {} /\ fs'[pos].ref = fs[pos].ref
            /\ \A i \in 1..Len(fs) : i # pos => fs'[i] = fs[i]
         \/ Len(fs') = Len(fs) - 1
  BY <1>2, <1>3, ShownStores
<1>5. /\ \A other \in PocsOf(fs) : poc <= other
      /\ shown' = poc /\ PocsOf(fs') = PocsOf(fs) \ {poc} /\ PocsDiffer(fs')
      /\ FewerRefs /\ References(fs') = References(fs)
  BY <1>2, <1>3, OneFrameShown
<1> HIDE DEF poc
<1>6. /\ SequenceRuns /\ SequenceRuns' /\ (Overfull' <=> Overfull)
      /\ UNCHANGED <<sent, pictures, upcoming, first>>
  BY <1>1, <1>4, <1>5 DEF SequenceRuns, FlushPhases, Overfull, stream
<1>7. CountOK'
  BY <1>1, <1>4, <1>5, <1>6, CountStep DEF DisplayInv, UsesWindow
<1>8. EmptiedOK'
  <2>1. Len(fs) \in Nat /\ Len(fs) # 0 /\ fs # <<>>
    BY <1>1, DpbAssumption, FrameStores
  <2>2. ~(cur.idr \/ marked[5] > 0)
    BY <1>1, <2>1 DEF DisplayInv, EmptiedOK
  <2>3. FullOK'
    <3> SUFFICES ASSUME Len(fs') = Len(fs), NEW i \in 1..Len(fs) PROVE ~IsUnused(i)'
      BY <1>1 DEF FullOK, Positions
    <3>1. i # pos => fs'[i] = fs[i]
      BY <1>4, <2>1
    <3>2. fs'[pos].ref # {}
      BY <1>4, <2>1
    <3>3. i = pos => ~IsUnused(i)'
      BY <3>2 DEF IsUnused, IsUsedForReference
    <3>4. i # pos => ~IsUnused(i)'
      BY <1>1, <3>1 DEF IsUnused, DisplayInv, EmptiedOK, FullOK, Positions
    <3> QED  BY <3>3, <3>4
  <2> QED  BY <1>1, <1>4, <2>2, <2>3 DEF EmptiedOK
<1>9. FreshOK'
  BY <1>1, <1>4 DEF DisplayInv, FreshOK, StorePhases
<1>10. SentOK'
  <2>1. SentBefore(cur)' /\ SentBefore(upcoming)'
    BY <1>1, <1>6 DEF DisplayInv, SentOK, SentBefore
  <2> QED  BY <1>1, <1>5, <1>6, <2>1 DEF DisplayInv, SentOK, UsesWindow
<1>11. PocsOf(fs) \subseteq sent /\ sent \subseteq Nat /\ ReorderDepth \in Nat
  BY <1>6, DpbAssumption DEF DisplayInv, SentOK, IInv, StreamOK
<1>12. ASSUME ~Overfull, NEW p, p.exists, p.poc \in Nat, SentBefore(p), p.poc \notin PocsOf(fs),
              ReorderDepth < Cardinality(PocsOf(fs))
       PROVE  poc < p.poc
  <2> SUFFICES ASSUME p.poc < poc PROVE FALSE
    BY <1>3, <1>12
  <2> DEFINE later == {x \in sent : x > p.poc}
  <2>1. PocsOf(fs) \subseteq later
    <3> SUFFICES ASSUME NEW x \in PocsOf(fs) PROVE x \in sent /\ x > p.poc
      OBVIOUS
    <3>1. x \in sent /\ x \in Nat /\ poc <= x
      BY <1>5, <1>11
    <3> QED  BY <1>3, <1>12, <3>1
  <2>2. Cardinality(later) <= ReorderDepth
    BY <1>12 DEF SentBefore
  <2>3. later \subseteq sent
    OBVIOUS
  <2> HIDE DEF later
  <2>4. Cardinality(PocsOf(fs)) <= Cardinality(later) /\ Cardinality(later) \in Nat
        /\ Cardinality(PocsOf(fs)) \in Nat
    BY <1>1, <1>12, <2>1, <2>3, LaterCount, EnoughWait
  <2> QED  BY <1>11, <1>12, <2>2, <2>4
<1>13. ASSUME ~Overfull
       PROVE  /\ ReorderDepth < Cardinality({x \in sent : x >= poc})
              /\ cur.exists => poc < cur.poc
              /\ upcoming.exists => poc < upcoming.poc
  <2> DEFINE from == {x \in sent : x >= poc}
  <2>1. /\ IsFiniteSet(PocsOf(fs)) /\ Cardinality(PocsOf(fs)) \in Nat
        /\ ReorderDepth <= Cardinality(PocsOf(fs))
        /\ cur.ref => ReorderDepth < Cardinality(PocsOf(fs))
    BY <1>1, <1>13, EnoughWait
  <2>2. PocsOf(fs) \subseteq from /\ from \subseteq sent
    BY <1>3, <1>5, <1>11
  <2>3. cur.poc \in Nat /\ upcoming.poc \in Nat
    BY DEF IInv, ControlOK, StreamOK, PictureType
  <2>4. /\ cur.exists => cur.poc \notin PocsOf(fs) /\ SentBefore(cur) /\ cur.poc \in sent
        /\ upcoming.exists => upcoming.poc \notin PocsOf(fs) /\ SentBefore(upcoming)
    BY <1>6 DEF DisplayInv, SentOK, SentBefore
  <2>5. cur # NoPicture /\ (~cur.exists => cur.ref) /\ (upcoming.exists => ~cur.exists)
    BY <1>1 DEF IInv, ControlOK, HasPicture, NoPicture, Views, Parities, DisplayInv, SentOK,
                UsesWindow
  <2>6. CASE cur.ref
    <3>1. Cardinality(PocsOf(fs)) <= Cardinality(from) /\ Cardinality(from) \in Nat
      BY <2>2, LaterCount
    <3>2. ReorderDepth < Cardinality(from)
      BY <1>11, <2>1, <2>6, <3>1
    <3> HIDE DEF from
    <3>3. /\ cur.exists => poc < cur.poc
          /\ upcoming.exists => poc < upcoming.poc
      BY <1>12, <1>13, <2>1, <2>3, <2>4, <2>6
    <3> QED  BY <3>2, <3>3 DEF from
  <2>7. CASE ~cur.ref
    <3>1. cur.exists /\ ~upcoming.exists
      BY <2>5, <2>7
    <3>2. poc < cur.poc
      <4>1. PICK i \in Waiting : ~(cur.poc < fs[i].poc)
        BY <1>1, <2>7 DEF GoesDirectly
      <4>2. fs[i].poc \in PocsOf(fs) /\ fs[i].poc \in Nat
        BY <1>1, InOrder
      <4>3. poc <= cur.poc /\ poc # cur.poc
        BY <1>3, <1>5, <2>3, <2>4, <3>1, <4>1, <4>2
      <4> QED  BY <1>3, <2>3, <4>3
    <3>3. PocsOf(fs) \cup {cur.poc} \subseteq from
      BY <1>3, <2>2, <2>3, <2>4, <3>1, <3>2
    <3>4. Cardinality(PocsOf(fs) \cup {cur.poc}) = Cardinality(PocsOf(fs)) + 1
      BY <2>1, <2>4, <3>1, FS_AddElement
    <3> HIDE DEF from
    <3>5. Cardinality(PocsOf(fs) \cup {cur.poc}) <= Cardinality(from) /\ Cardinality(from) \in Nat
      BY <2>2, <3>3, LaterCount
    <3>6. ReorderDepth < Cardinality(from)
      BY <1>11, <2>1, <3>4, <3>5
    <3> QED  BY <3>1, <3>2, <3>6 DEF from
  <2> QED  BY <2>6, <2>7
<1>14. ShownOK'
  <2>1. \A other \in PocsOf(fs') : shown' < other
    BY <1>3, <1>5, <1>11
  <2> QED  BY <1>1, <1>3, <1>4, <1>5, <1>6, <1>13, <2>1 DEF ShownOK
<1> QED  BY <1>1, <1>4, <1>7, <1>8, <1>9, <1>10, <1>14 DEF DisplayInv

\* direct_output.
LEMMA DirectOutputDisplay ==
    ASSUME BufferFits, IInv, IInv', FrameInv, DisplayInv, DirectOutput
    PROVE  DisplayInv' /\ pc' # "failed"
<1>1. /\ pc = "bumping" /\ Len(fs) = DpbSize /\ ~cur.ref /\ Finish
      /\ UNCHANGED dpb /\ lastOutputPoc' = lastOutputPoc
  BY DEF DirectOutput, GoesDirectly
<1>2. cur.structure = "frame" /\ cur # NoPicture
  BY <1>1, FrameIsHere DEF HasPicture
<1>3. cur.exists /\ upcoming = NoPicture /\ ~Overfull
  BY <1>1, <1>2 DEF DisplayInv, SentOK, UsesWindow, Overfull, FrameInv, KindOK
<1>4. /\ shown' = cur.poc /\ pc' = "ready" /\ cur' = NoPicture /\ first' = NoPicture
      /\ UNCHANGED <<upcoming, sent, pictures>> /\ ~NoPicture.exists
  BY <1>1, <1>2, <1>3 DEF DirectOutput, Finish, Parities, NoPicture
<1>5. /\ UNCHANGED <<fs, shortRefs, longRefs>>
      /\ PocsOf(fs') = PocsOf(fs) /\ (PocsDiffer(fs) => PocsDiffer(fs'))
  BY <1>1, SameStoresWait DEF dpb, SameWaiting
<1>6. /\ SequenceRuns /\ ~Overfull' /\ SequenceRuns'
  BY <1>1, <1>4 DEF SequenceRuns, FlushPhases, Overfull
<1>7. /\ PocsOf(fs) \subseteq sent /\ sent \subseteq Nat /\ ReorderDepth \in Nat
      /\ cur.poc \in sent /\ cur.poc \in Nat /\ cur.poc \notin PocsOf(fs)
      /\ shown < cur.poc /\ lastOutputPoc <= shown
      /\ shown \in Nat \cup {None} /\ lastOutputPoc \in Nat \cup {None}
  BY <1>1, <1>3, <1>6, DpbAssumption DEF DisplayInv, SentOK, ShownOK, SentBefore, IInv, StreamOK, OutputOK
<1>8. \A poc \in PocsOf(fs) : cur.poc < poc
  BY <1>1 DEF DirectOutput, GoesDirectly, PocsOf, Waits, Waiting
<1>9. ReorderDepth < Cardinality({x \in sent : x >= cur.poc})
  <2> DEFINE from == {x \in sent : x >= cur.poc}
  <2>1. /\ IsFiniteSet(PocsOf(fs)) /\ Cardinality(PocsOf(fs)) \in Nat
        /\ ReorderDepth <= Cardinality(PocsOf(fs))
    BY <1>1, <1>3, EnoughWait
  <2>2. PocsOf(fs) \cup {cur.poc} \subseteq from /\ from \subseteq sent
    <3> SUFFICES ASSUME NEW x \in PocsOf(fs) \cup {cur.poc} PROVE x \in sent /\ x >= cur.poc
      OBVIOUS
    <3>1. x \in sent /\ x \in Nat /\ (x = cur.poc \/ cur.poc < x)
      BY <1>7, <1>8
    <3> QED  BY <1>7, <3>1
  <2>3. Cardinality(PocsOf(fs) \cup {cur.poc}) = Cardinality(PocsOf(fs)) + 1
    BY <1>7, <2>1, FS_AddElement
  <2> HIDE DEF from
  <2>4. Cardinality(PocsOf(fs) \cup {cur.poc}) <= Cardinality(from) /\ Cardinality(from) \in Nat
    BY <2>2, LaterCount
  <2>5. ReorderDepth < Cardinality(from)
    BY <1>7, <2>1, <2>3, <2>4
  <2> QED  BY <2>5 DEF from
<1>10. CountOK'
  BY <1>1, <1>3, <1>4, <1>5 DEF DisplayInv, CountOK
<1>11. EmptiedOK' /\ FreshOK'
  BY <1>4 DEF EmptiedOK, FullOK, FreshOK, StorePhases
<1>12. SentOK'
  BY <1>1, <1>3, <1>4, <1>5, <1>6 DEF DisplayInv, SentOK, SentBefore
<1>13. ShownOK'
  <2>1. lastOutputPoc' <= shown'
    BY <1>1, <1>4, <1>7 DEF None
  <2> QED  BY <1>1, <1>3, <1>4, <1>5, <1>8, <1>9, <2>1 DEF DisplayInv, ShownOK
<1> QED  BY <1>4, <1>10, <1>11, <1>12, <1>13 DEF DisplayInv

-----------------------------------------------------------------------------
(* The sliding window and storing                                          *)

LEMMA FirstShort ==
    ASSUME IInv, FrameInv, Shorts(fs) # {}
    PROVE  \E i \in 1..Len(fs) : IsFirstShortTerm(i)
<1> DEFINE Below == {1..x : x \in Shorts(fs)}
<1>1. Len(fs) \in Nat /\ Shorts(fs) \subseteq 1..Len(fs)
  BY FrameStores DEF Shorts
<1>2. Below \subseteq FiniteSubsetsOf(Nat) /\ Below # {}
  <2>1. ASSUME NEW x \in Shorts(fs) PROVE 1..x \in FiniteSubsetsOf(Nat)
    <3>1. x \in Nat /\ IsFiniteSet(1..x)
      BY <1>1, FS_Interval
    <3> QED  BY <3>1 DEF FiniteSubsetsOf
  <2> QED  BY <2>1
<1>3. PICK B \in Below : \A C \in Below : ~(<<C, B>> \in StrictSubsetOrdering(Nat))
  <2> HIDE DEF Below
  <2> QED  BY <1>2, FS_StrictSubsetOrderingWellFounded, WFMin
<1>4. PICK i \in Shorts(fs) : B = 1..i
  OBVIOUS
<1>5. ASSUME NEW j \in Shorts(fs), j < i PROVE FALSE
  <2>1. i \in 1..Len(fs) /\ j \in 1..Len(fs)
    BY <1>1
  <2>2. 1..j \subseteq 1..i /\ 1..j # 1..i
    <3>1. i \in 1..i /\ i \notin 1..j
      BY <1>5, <2>1
    <3> QED  BY <1>5, <2>1, <3>1
  <2>3. <<1..j, B>> \in StrictSubsetOrdering(Nat)
    BY <1>4, <2>1, <2>2 DEF StrictSubsetOrdering
  <2> QED  BY <1>3, <2>3
<1>6. i \in 1..Len(fs) /\ fs[i].ref # {} /\ fs[i].lt = {}
  BY DEF Shorts
<1>7. \A j \in 1..(i - 1) : fs[j].ref = {} \/ fs[j].lt # {}
  <2> SUFFICES ASSUME NEW j \in 1..(i - 1) PROVE j \notin Shorts(fs)
    BY <1>1, <1>6 DEF Shorts
  <2> QED  BY <1>1, <1>5, <1>6
<1> QED  BY <1>6, <1>7 DEF IsFirstShortTerm

\* sliding_window_memory_management makes room for a reference.
LEMMA SlidingWindowDisplay ==
    ASSUME IInv, IInv', FrameInv, FrameInv', DisplayInv, SlidingWindow
    PROVE  DisplayInv' /\ pc' # "failed"
<1>1. /\ pc = "placing" /\ pc' = "room"
      /\ UNCHANGED <<longRefs, lastPicture, output, stream, cur, marked>>
  BY DEF SlidingWindow
<1>2. /\ Cardinality(shortRefs) \in Nat /\ Cardinality(longRefs) \in Nat /\ FrameLimit \in Nat
      /\ Cardinality(shortRefs) + Cardinality(longRefs) <= FrameLimit
      /\ UsesWindow => Cardinality(longRefs) < FrameLimit
  BY <1>1, FiniteParts DEF DisplayInv, CountOK
<1>3. UsesWindow => shortRefs = Shorts(fs)
  BY <1>1 DEF UsesWindow, FrameInv, ListsOK, Listed, FlushPhases
<1> DEFINE Takes == UsesWindow /\ IsWindowFull
<1>4. CASE Takes
  <2>1. Shorts(fs) # {}
    <3>1. Cardinality(shortRefs) # 0
      BY <1>2, <1>4 DEF IsWindowFull
    <3> QED  BY <1>3, <1>4, <3>1, FS_EmptySet
  <2>2. PICK i \in 1..Len(fs) : /\ IsFirstShortTerm(i)
                                /\ fs' = [fs EXCEPT ![i] = UnmarkForReference(fs[i])]
    BY <1>4, <2>1, FirstShort DEF SlidingWindow, UsesWindow
  <2>3. shortRefs' = ShortRefsOf(fs')
    BY <1>4, <2>1, FirstShort DEF SlidingWindow, UsesWindow
  <2>4. /\ FrameStore(UnmarkForReference(fs[i])) /\ Keeps(fs[i], UnmarkForReference(fs[i]))
        /\ UnmarkForReference(fs[i]).ref = {}
        /\ GoodStore(fs[i])
    BY FrameStores, UnmarkedFrame
  <2>5. /\ Len(fs') = Len(fs) /\ Len(fs) \in Nat
        /\ \A j \in 1..Len(fs) : fs'[j] = IF j = i THEN UnmarkForReference(fs[i]) ELSE fs[j]
    BY <2>2, FrameStores DEF IInv, BufferOK, GoodStores
  <2>6. FewerRefs /\ shortRefs' \subseteq shortRefs
    BY <1>1, <2>2, <2>3, <2>4, ReplacedLoses, LosesCounts
  <2>7. Remarked
    BY <1>1, <2>4, <2>5, UnmarkedSame DEF Remarked, SameFields
  <2>8. RefsOf(fs') = RefsOf(fs) \ {i} /\ i \in RefsOf(fs)
    BY <2>2, <2>4, <2>5 DEF RefsOf, IsFirstShortTerm
  <2>9. References(fs') < FrameLimit
    <3>1. References(fs') = References(fs) - 1
      <4>1. IsFiniteSet(RefsOf(fs))
        BY FiniteParts
      <4>2. Cardinality(RefsOf(fs) \ {i}) = Cardinality(RefsOf(fs)) - 1
        BY <2>8, <4>1, FS_RemoveElement
      <4> QED  BY <2>8, <4>2 DEF References
    <3>2. References(fs) <= Marked /\ References(fs) \in Nat /\ Marked \in Nat
      BY RefsAreListed
    <3>3. Marked <= FrameLimit
      BY <1>2 DEF Marked
    <3> QED  BY <1>2, <3>1, <3>2, <3>3
  <2>10. SameWaiting
    BY <2>7, RemarkedWaits
  <2>11. fs # <<>>
    BY <2>5
  <2>12. FreshOK'
    <3>1. shortRefs \subseteq 1..Len(fs)
      BY DEF IInv, BufferOK, Positions
    <3> QED  BY <1>1, <2>6, <2>7, <3>1 DEF DisplayInv, FreshOK, StorePhases, Remarked, SameFields
  <2>13. EmptiedOK'
    BY <1>1, <2>11 DEF DisplayInv, EmptiedOK, FullOK
  <2>14. CountOK'
    <3>1. Marked' <= FrameLimit
      <4>1. Marked' <= Marked /\ Marked <= FrameLimit /\ Marked \in Nat
        BY <1>2, <2>6 DEF FewerRefs, Marked
      <4> QED  BY <1>2, <4>1, FiniteAfter
    <3> QED  BY <1>1, <2>9, <3>1 DEF DisplayInv, CountOK, Marked, UsesWindow, stream
  <2>15. SentOK' /\ ShownOK'
    BY <1>1, <2>10, QuietStep
       DEF DisplayInv, SamePicture, SequenceRuns, FlushPhases, Overfull, output, stream
  <2> QED  BY <1>1, <2>12, <2>13, <2>14, <2>15 DEF DisplayInv
<1>5. CASE ~Takes
  <2>1. UNCHANGED <<fs, shortRefs>>
    BY <1>5 DEF SlidingWindow, UsesWindow
  <2>2. SameWaiting /\ References(fs') = References(fs)
    BY <2>1, SameStoresWait
  <2>3. UsesWindow => References(fs) < FrameLimit
    <3>1. UsesWindow => Marked < FrameLimit
      BY <1>2, <1>5 DEF IsWindowFull, Marked
    <3> QED  BY <1>2, <3>1, RefsAreListed
  <2>4. CountOK'
    BY <1>1, <2>1, <2>2, <2>3 DEF DisplayInv, CountOK, UsesWindow, stream
  <2>5. EmptiedOK' /\ FreshOK'
    BY <1>1, <2>1 DEF DisplayInv, EmptiedOK, FullOK, FreshOK, StorePhases
  <2>6. SentOK' /\ ShownOK'
    BY <1>1, <2>2, QuietStep
       DEF DisplayInv, SamePicture, SequenceRuns, FlushPhases, Overfull, output, stream
  <2> QED  BY <1>1, <2>4, <2>5, <2>6 DEF DisplayInv
<1> QED  BY <1>4, <1>5

\* What the stored picture adds.
LEMMA StoredPocs ==
    ASSUME IInv, IInv', FrameInv, Store
    PROVE  /\ Waits(fs') = Waits(fs) \cup (IF cur.exists THEN {Len(fs')} ELSE {})
           /\ PocsOf(fs') = PocsOf(fs) \cup (IF cur.exists THEN {cur.poc} ELSE {})
           /\ PocsDiffer(fs) /\ (cur.exists => cur.poc \notin PocsOf(fs)) => PocsDiffer(fs')
           /\ RefsOf(fs') = RefsOf(fs) \cup (IF cur.ref THEN {Len(fs')} ELSE {})
           /\ Len(fs') \notin RefsOf(fs)
<1> DEFINE n == Len(fs')
           s == Insert(EmptyStore, cur)
<1>1. /\ Len(fs) \in Nat /\ n = Len(fs) + 1 /\ (fs'[n].ref # {} <=> cur.ref)
      /\ \A i \in 1..Len(fs) : fs'[i] = fs[i]
  BY StoredFrame
<1>2. s.poc = cur.poc /\ s.output = ~cur.exists
  BY DEF Insert, EmptyStore
<1> HIDE DEF s
<1>3. fs'[n].poc = cur.poc /\ fs'[n].output = ~cur.exists
  <2>1. fs' = Append(fs, s)
    BY DEF Store, s
  <2>2. fs \in Seq(StoreType)
    BY DEF IInv, BufferOK, GoodStores
  <2> QED  BY <1>1, <1>2, <2>1, <2>2
<1> HIDE DEF n
<1>4. /\ \A i \in 1..n : i \in 1..Len(fs) \/ i = n
      /\ \A i \in 1..Len(fs) : i \in 1..n
      /\ n \in 1..n /\ n \notin 1..Len(fs)
  BY <1>1
<1>5. cur.exists \in BOOLEAN /\ cur.ref \in BOOLEAN
  BY DEF IInv, ControlOK, PictureType
<1>6. Waits(fs') = Waits(fs) \cup (IF cur.exists THEN {n} ELSE {})
  BY <1>1, <1>3, <1>4, <1>5 DEF Waits, n
<1>7. RefsOf(fs') = RefsOf(fs) \cup (IF cur.ref THEN {n} ELSE {}) /\ n \notin RefsOf(fs)
  BY <1>1, <1>4, <1>5 DEF RefsOf, n
<1>8. \A i \in Waits(fs) : fs'[i].poc = fs[i].poc /\ fs[i].poc \in PocsOf(fs)
  BY <1>1 DEF Waits, PocsOf
<1>9. PocsOf(fs') = PocsOf(fs) \cup (IF cur.exists THEN {cur.poc} ELSE {})
  BY <1>3, <1>5, <1>6, <1>8 DEF PocsOf
<1>10. PocsDiffer(fs) /\ (cur.exists => cur.poc \notin PocsOf(fs)) => PocsDiffer(fs')
  BY <1>3, <1>5, <1>6, <1>8 DEF PocsDiffer
<1> QED  BY <1>6, <1>7, <1>9, <1>10 DEF n

\* What it does to the number of references: a frame is stored in vain only if
\* the control operations left too many.
LEMMA StoredCount ==
    ASSUME IInv, IInv', FrameInv, FrameInv', DisplayInv, Store
    PROVE  /\ References(fs') = References(fs) + (IF cur.ref THEN 1 ELSE 0)
           /\ Marked' = References(fs') /\ Marked' \in Nat
           /\ pc' = "failed" <=> Marked' > FrameLimit
           /\ Marked' > FrameLimit => cur.adaptive
           /\ pc' = "failed" => UNCHANGED <<cur, marked, stream>>
           /\ pc' # "failed" => Finish /\ ~Overfull
<1>1. /\ pc = "bumping" /\ cur # NoPicture /\ FrameLimit \in Nat \ {0}
      /\ References(fs) \in Nat /\ References(fs) <= FrameLimit
  <2>1. pc = "bumping"
    BY DEF Store
  <2>2. cur # NoPicture
    BY <2>1 DEF IInv, ControlOK, HasPicture, NoPicture, Views, Parities
  <2>3. Marked <= FrameLimit
    BY <2>1 DEF DisplayInv, CountOK, Marked
  <2> QED  BY <2>1, <2>2, <2>3, RefsAreListed, FiniteParts
<1>2. References(fs') = References(fs) + (IF cur.ref THEN 1 ELSE 0)
  <2>1. /\ RefsOf(fs') = RefsOf(fs) \cup (IF cur.ref THEN {Len(fs')} ELSE {})
        /\ Len(fs') \notin RefsOf(fs) /\ IsFiniteSet(RefsOf(fs))
    BY StoredPocs, FiniteParts
  <2>2. CASE cur.ref
    <3>1. Cardinality(RefsOf(fs) \cup {Len(fs')}) = Cardinality(RefsOf(fs)) + 1
      BY <2>1, FS_AddElement
    <3> QED  BY <2>1, <2>2, <3>1 DEF References
  <2>3. CASE ~cur.ref
    BY <1>1, <2>1, <2>3 DEF References
  <2> QED  BY <2>2, <2>3
<1>3. Marked' = References(fs') /\ Marked' \in Nat
  <2>1. shortRefs' = Shorts(fs') /\ longRefs' = Longs(fs')
    BY StoredMarks
  <2>2. Len(fs') \in Nat
    BY StoredFrame
  <2> QED  BY <2>1, <2>2, MarksCount DEF Marked
<1>4. Marked' > FrameLimit => cur.adaptive
  <2> SUFFICES ASSUME ~cur.adaptive, cur.ref PROVE References(fs) < FrameLimit
    BY <1>1, <1>2, <1>3
  <2>1. CASE cur.idr
    <3>1. fs = <<>>
      BY <1>1, <2>1 DEF DisplayInv, EmptiedOK
    <3>2. RefsOf(<<>>) = {}
      BY DEF RefsOf
    <3>3. References(fs) = 0
      BY <3>1, <3>2, FS_EmptySet DEF References
    <3> QED  BY <1>1, <3>3
  <2>2. CASE ~cur.idr
    BY <1>1, <2>2 DEF DisplayInv, CountOK, UsesWindow
  <2> QED  BY <2>1, <2>2
<1>5. ~(cur.ref /\ ~cur.long /\ cur.frameNum \in ShortTermFrameNums)
  <2> SUFFICES ASSUME cur.ref, NEW i \in shortRefs, fs[i].frameNum = cur.frameNum PROVE FALSE
    BY DEF ShortTermFrameNums
  <2>1. cur.idr \/ marked[5] > 0
    BY <1>1 DEF DisplayInv, FreshOK, StorePhases, IInv, ControlOK
  <2>2. fs = <<>>
    BY <1>1, <2>1 DEF DisplayInv, EmptiedOK
  <2> QED  BY <2>2 DEF IInv, BufferOK, Positions
<1>6. TooManyReferences(shortRefs', longRefs') <=> Marked' > FrameLimit
  BY DEF TooManyReferences, Marked
<1>7. /\ pc' = "failed" <=> Marked' > FrameLimit
      /\ pc' = "failed" => UNCHANGED <<cur, marked, stream>>
      /\ pc' # "failed" => Finish
  BY <1>5, <1>6 DEF Store, Finish
<1>8. pc' # "failed" => ~Overfull
  <2> SUFFICES ASSUME cur.adaptive, FrameLimit <= References(fs), pc' # "failed" PROVE FALSE
    BY DEF Overfull
  <2>1. cur.ref
    BY DEF FrameInv, KindOK
  <2> QED  BY <1>1, <1>2, <1>3, <1>7, <2>1
<1> QED  BY <1>2, <1>3, <1>4, <1>7, <1>8

LEMMA StoreDisplay ==
    ASSUME IInv, IInv', FrameInv, FrameInv', DisplayInv, Store
    PROVE  DisplayInv' /\ RejectsOnlyOverfull'
<1>1. /\ pc = "bumping" /\ UNCHANGED output
      /\ cur.structure = "frame" /\ cur # NoPicture
  BY FrameIsHere DEF Store, HasPicture
<1>2. CASE pc' = "failed"
  <2>1. UNCHANGED <<cur, sent, pictures, upcoming, first>> /\ cur.adaptive /\ Marked' > FrameLimit
        /\ References(fs') = Marked'
    BY <1>2, StoredCount DEF stream
  <2>2. RejectsOnlyOverfull'
    <3>1. ReferenceFrames' = RefsOf(fs')
      <4>1. \A i \in 1..Len(fs') : IsUsedForReference(fs'[i]) <=> fs'[i].ref # {}
        <5>1. ASSUME NEW s, GoodStore(s), FrameStore(s)
              PROVE  IsUsedForReference(s) <=> s.ref # {}
          <6>1. s.ref = {} => s.refPics \cap Views = {}
            BY <5>1 DEF GoodStore, StoreType, StoreMarksAgree, Views, Parities
          <6> QED  BY <5>1, <6>1 DEF IsUsedForReference, ViewsOf, FrameStore, Views
        <5>2. \A i \in 1..Len(fs') : FrameStore(fs'[i]) /\ GoodStore(fs'[i])
          BY DEF FrameInv, ShapeOK, Framed, IInv, BufferOK, GoodStores, GoodStore, StoreMarksAgree
        <5> QED  BY <5>1, <5>2
      <4> QED  BY <4>1 DEF ReferenceFrames, Positions, RefsOf
    <3> QED  BY <2>1, <3>1 DEF RejectsOnlyOverfull, References
  <2>3. CountOK' /\ EmptiedOK' /\ FreshOK' /\ ShownOK'
    BY <1>2 DEF CountOK, EmptiedOK, FullOK, FreshOK, ShownOK, StorePhases
  <2>4. SentOK'
    <3>1. SentBefore(cur)' /\ SentBefore(upcoming)'
      BY <2>1 DEF DisplayInv, SentOK, SentBefore
    <3> QED  BY <1>2, <2>1, <3>1 DEF DisplayInv, SentOK, SequenceRuns, UsesWindow
  <2> QED  BY <2>2, <2>3, <2>4 DEF DisplayInv
<1>3. CASE pc' # "failed"
  <2>1. /\ Finish /\ Marked' <= FrameLimit
        /\ References(fs') = References(fs) + (IF cur.ref THEN 1 ELSE 0)
    BY <1>3, StoredCount, FiniteParts
  <2>2. /\ cur' = NoPicture /\ first' = NoPicture /\ UNCHANGED <<upcoming, sent, pictures>>
        /\ pc' = (IF upcoming = NoPicture THEN "ready" ELSE "gap") /\ ~NoPicture.exists
    BY <1>1, <2>1 DEF Finish, Parities, NoPicture
  <2>3. SequenceRuns /\ SequenceRuns' /\ ~Overfull'
    BY <1>1, <2>2 DEF SequenceRuns, FlushPhases, Overfull
  <2>4. ~Overfull
    BY <1>3, StoredCount
  <2>5. upcoming # NoPicture =>
          /\ ~cur.exists /\ Cardinality(longRefs') < FrameLimit
    <3> SUFFICES ASSUME upcoming # NoPicture
                 PROVE  ~cur.exists /\ Cardinality(longRefs') < FrameLimit
      OBVIOUS
    <3>1. ~cur.exists /\ ~cur.long /\ Cardinality(longRefs) < FrameLimit
      BY <1>1 DEF DisplayInv, SentOK, CountOK
    <3>2. longRefs' = Longs(fs)
      BY <3>1, StoredMarks
    <3>3. Cardinality(longRefs') <= Cardinality(longRefs)
      BY <3>2, FiniteParts, SubsetCount DEF FrameInv, ListsOK
    <3> QED  BY <3>1, <3>3, FiniteParts, FiniteAfter
  <2>6. CountOK'
    BY <2>1, <2>2, <2>5 DEF CountOK, Marked
  <2>7. EmptiedOK' /\ FreshOK' /\ RejectsOnlyOverfull'
    BY <2>2 DEF EmptiedOK, FullOK, FreshOK, StorePhases, RejectsOnlyOverfull
  <2>8. /\ PocsOf(fs') = PocsOf(fs) \cup (IF cur.exists THEN {cur.poc} ELSE {})
        /\ PocsDiffer(fs')
        /\ cur.exists => cur.poc \in sent /\ shown < cur.poc
        /\ upcoming.exists => upcoming # NoPicture
    BY <1>1, <2>2, <2>3, <2>4, StoredPocs DEF DisplayInv, SentOK, ShownOK, SentBefore
  <2>9. SentOK'
    <3>1. PocsOf(fs') \subseteq sent /\ sent \subseteq FramePocs
      BY <2>3, <2>8 DEF DisplayInv, SentOK
    <3>2. upcoming.exists => upcoming.poc \notin PocsOf(fs')
      BY <2>3, <2>5, <2>8 DEF DisplayInv, SentOK
    <3>3. SentBefore(cur)' /\ SentBefore(upcoming)'
      BY <2>2 DEF DisplayInv, SentOK, SentBefore
    <3> QED  BY <2>2, <3>1, <3>2, <3>3 DEF DisplayInv, SentOK
  <2>10. ShownOK'
    BY <1>1, <2>2, <2>3, <2>4, <2>8 DEF DisplayInv, ShownOK, output
  <2> QED  BY <2>6, <2>7, <2>9, <2>10 DEF DisplayInv
<1> QED  BY <1>2, <1>3

-----------------------------------------------------------------------------
(* The invariant holds                                                     *)

LEMMA StutterDisplay ==
    ASSUME DisplayInv, RejectsOnlyOverfull, UNCHANGED vars
    PROVE  DisplayInv' /\ RejectsOnlyOverfull'
<1>1. /\ fs' = fs /\ shortRefs' = shortRefs /\ longRefs' = longRefs
      /\ lastOutputPoc' = lastOutputPoc /\ shown' = shown /\ pc' = pc /\ cur' = cur
      /\ marked' = marked /\ upcoming' = upcoming /\ sent' = sent /\ first' = first
      /\ pictures' = pictures
  BY DEF vars, dpb, output, stream
<1>2. CountOK' /\ EmptiedOK' /\ FreshOK'
  BY <1>1 DEF DisplayInv, CountOK, EmptiedOK, FullOK, FreshOK, UsesWindow, References, RefsOf,
              IsUnused, Positions
<1>3. SentOK'
  BY <1>1 DEF DisplayInv, SentOK, SentBefore, UsesWindow, SequenceRuns, PocsOf, Waits
<1>4. ShownOK'
  BY <1>1 DEF DisplayInv, ShownOK, SequenceRuns, Overfull, References, RefsOf, PocsOf, PocsDiffer,
              Waits
<1>5. RejectsOnlyOverfull'
  BY <1>1 DEF RejectsOnlyOverfull, ReferenceFrames, Positions
<1> QED  BY <1>2, <1>3, <1>4, <1>5 DEF DisplayInv

LEMMA NextDisplay ==
    ASSUME OnlyFrames, BufferFits, IInv, IInv', FrameInv, FrameInv', DisplayInv,
           RejectsOnlyOverfull, [Next]_vars
    PROVE  DisplayInv' /\ RejectsOnlyOverfull'
<1>1. ASSUME DisplayInv' /\ pc' # "failed" PROVE DisplayInv' /\ RejectsOnlyOverfull'
  BY <1>1 DEF RejectsOnlyOverfull
<1>2. CASE DecodeNext
  BY <1>1, <1>2, DecodeNextDisplay
<1>3. CASE (\E poc \in StalePocs : FillGap(poc)) \/ AfterGap \/ EndStream
  BY <1>1, <1>3, FillGapDisplay, AfterGapDisplay, EndStreamDisplay
<1>4. CASE Marking
  BY <1>1, <1>4, MarkingDisplay, EndMarkingDisplay
<1>5. CASE Storing
  <2>1. ~PairField
    BY NoPairInFrames DEF PairField
  <2> QED  BY <1>1, <1>5, <2>1, SlidingWindowDisplay, MakeRoomDisplay, DirectOutputDisplay,
              BumpDisplay, StoreDisplay DEF Storing
<1>6. CASE Flushing
  BY <1>1, <1>6, IdrDiscardDisplay, StartFlushDisplay, FlushUnusedDisplay, FlushOutputDisplay,
     FlushEndDisplay DEF Flushing
<1>7. CASE UNCHANGED vars
  BY <1>7, StutterDisplay
<1> QED  BY <1>2, <1>3, <1>4, <1>5, <1>6, <1>7 DEF Next, Stopped

LEMMA DisplayInvariance ==
    OnlyFrames /\ BufferFits => (Spec => [](IInv /\ FrameInv /\ DisplayInv /\ RejectsOnlyOverfull))
<1> SUFFICES ASSUME OnlyFrames, BufferFits
             PROVE  Spec => [](IInv /\ FrameInv /\ DisplayInv /\ RejectsOnlyOverfull)
  OBVIOUS
<1>1. Init => IInv /\ FrameInv /\ DisplayInv /\ RejectsOnlyOverfull
  BY InitIInv, InitFrames, InitDisplay
<1>2. IInv /\ FrameInv /\ DisplayInv /\ RejectsOnlyOverfull /\ [Next]_vars
        => (IInv /\ FrameInv /\ DisplayInv /\ RejectsOnlyOverfull)'
  BY NextIInv, NextFrames, NextDisplay
<1> QED  BY <1>1, <1>2, PTL DEF Spec

(* For every buffer with room for the reference frames and the reordering,   *)
(* and every stream of frames: the three errors of store_picture_in_dpb and  *)
(* write_stored_frame (a duplicate frame_num, too many references, output    *)
(* POC not in ascending order) end the decoder only when the control         *)
(* operations of a picture left more references than num_ref_frames.        *)
THEOREM RejectsOverfullOnly == OnlyFrames /\ BufferFits => (Spec => []RejectsOnlyOverfull)
<1> SUFFICES ASSUME OnlyFrames, BufferFits PROVE Spec => []RejectsOnlyOverfull
  OBVIOUS
<1> QED  BY DisplayInvariance, PTL

-----------------------------------------------------------------------------
(* The refinement of DisplayOrder                                          *)

Frames == {fs[i].poc : i \in Waiting}

LEMMA FramesAre == Frames = PocsOf(fs) /\ Frames' = PocsOf(fs')
BY DEF Frames, Waiting, PocsOf, Waits

Quiet == PocsOf(fs') = PocsOf(fs) /\ shown' = shown

\* What DisplayOrder may do, of a decoder that goes on.
LEMMA QuietIsStutter ==
    ASSUME Quiet, pc # "failed", pc' # "failed"
    PROVE  UNCHANGED Display!vars
BY FramesAre DEF Quiet, Frames, Display!vars

LEMMA ArrivalIsStep ==
    ASSUME NEW poc \in FramePocs, poc \notin PocsOf(fs), shown < poc,
           PocsOf(fs') = PocsOf(fs) \cup {poc}, shown' = shown, pc # "failed", pc' # "failed"
    PROVE  Display!Next
<1>1. Display!Arrive(poc)
  BY FramesAre DEF Frames, Display!Arrive, Display!MayShow
<1> QED  BY <1>1 DEF Display!Next, FramePocs

LEMMA ShowIsStep ==
    ASSUME NEW poc \in FramePocs, shown < poc, \A other \in PocsOf(fs) : poc <= other,
           shown' = poc, PocsOf(fs') = PocsOf(fs) \ {poc}, pc # "failed", pc' # "failed"
    PROVE  Display!Next
<1>1. Display!Show(poc)
  BY FramesAre DEF Frames, Display!Show, Display!MayShow
<1> QED  BY <1>1 DEF Display!Next, FramePocs

LEMMA EmptyIsStep ==
    ASSUME pc' = "failed" \/ (PocsOf(fs') = {} /\ shown' = None)
    PROVE  Display!Next
<1>1. Display!Discard
  BY FramesAre DEF Frames, Display!Discard
<1> QED  BY <1>1 DEF Display!Next

\* store_picture_in_dpb takes the frame, or gives up.
LEMMA StoreArrives ==
    ASSUME IInv, IInv', FrameInv, FrameInv', DisplayInv, Store
    PROVE  [Display!Next]_Display!vars
<1>1. CASE pc' = "failed"
  BY <1>1, EmptyIsStep
<1>2. CASE pc' # "failed"
  <2>1. pc = "bumping" /\ shown' = shown /\ ~Overfull /\ SequenceRuns
    BY <1>2, StoredCount DEF Store, output, SequenceRuns, FlushPhases
  <2>2. PocsOf(fs') = PocsOf(fs) \cup (IF cur.exists THEN {cur.poc} ELSE {})
    BY StoredPocs
  <2>3. CASE cur.exists
    <3>1. cur.poc \in FramePocs /\ cur.poc \notin PocsOf(fs) /\ shown < cur.poc
      BY <2>1, <2>3 DEF DisplayInv, SentOK, ShownOK, SentBefore
    <3> QED  BY <1>2, <2>1, <2>2, <2>3, <3>1, ArrivalIsStep
  <2>4. CASE ~cur.exists
    BY <1>2, <2>1, <2>2, <2>4, QuietIsStutter DEF Quiet
  <2> QED  BY <2>3, <2>4
<1> QED  BY <1>1, <1>2

\* output_one_frame_from_dpb shows the frame that is first of those that wait.
LEMMA OutputShows ==
    ASSUME IInv, FrameInv, DisplayInv, pc # "failed", NEW pos \in Waiting, OutputOneFrame(pos)
    PROVE  Display!Next
<1>1. /\ lastOutputPoc < fs[pos].poc /\ shown < fs[pos].poc
      /\ fs[pos].poc \in PocsOf(fs) /\ PocsOf(fs) \subseteq FramePocs /\ PocsDiffer(fs)
  BY InOrder DEF DisplayInv, SentOK, ShownOK
<1>2. pc' # "failed"
  BY <1>1, ShownStores
<1>3. /\ \A other \in PocsOf(fs) : fs[pos].poc <= other
      /\ shown' = fs[pos].poc /\ PocsOf(fs') = PocsOf(fs) \ {fs[pos].poc}
  BY <1>1, OneFrameShown
<1> QED  BY <1>1, <1>2, <1>3, ShowIsStep

\* direct_output shows a picture that was never stored.
LEMMA DirectShows ==
    ASSUME IInv, FrameInv, DisplayInv, DirectOutput
    PROVE  Display!Next
<1>1. pc = "bumping" /\ ~cur.ref /\ Finish /\ UNCHANGED dpb
  BY DEF DirectOutput, GoesDirectly
<1>2. cur.structure = "frame" /\ cur # NoPicture
  BY <1>1, FrameIsHere DEF HasPicture
<1>3. cur.exists /\ ~Overfull /\ SequenceRuns
  BY <1>1, <1>2 DEF DisplayInv, SentOK, UsesWindow, Overfull, FrameInv, KindOK, SequenceRuns,
                    FlushPhases
<1>4. shown' = cur.poc /\ pc' # "failed" /\ PocsOf(fs') = PocsOf(fs)
  BY <1>1, <1>2, SameStoresWait DEF DirectOutput, Finish, SameWaiting, dpb
<1>5. /\ cur.poc \in FramePocs /\ cur.poc \notin PocsOf(fs) /\ shown < cur.poc
      /\ PocsOf(fs) \subseteq FramePocs
  BY <1>1, <1>3 DEF DisplayInv, SentOK, ShownOK, SentBefore
<1>6. \A other \in PocsOf(fs) : cur.poc <= other
  <2>1. \A other \in PocsOf(fs) : cur.poc < other
    BY DEF DirectOutput, GoesDirectly, PocsOf, Waits, Waiting
  <2> QED  BY <1>5, <2>1 DEF FramePocs
<1> QED  BY <1>1, <1>4, <1>5, <1>6, ShowIsStep

\* idr_memory_management and the end of flush_dpb leave nothing.
LEMMA FlushRestarts ==
    ASSUME IInv, DisplayInv, IdrDiscard \/ FlushEnd
    PROVE  Display!Next
<1>1. fs' = <<>>
  BY FlushLeavesNothing DEF IdrDiscard, FlushEnd, dpb
<1>2. shown' = None
  BY DEF IdrDiscard, FlushEnd, IdrMarking
<1> QED  BY <1>1, <1>2, NoneWaits, EmptyIsStep

Gap == (\E poc \in StalePocs : FillGap(poc)) \/ AfterGap

\* No other operation shows a frame or changes those that wait.
LEMMA OthersAreQuiet ==
    ASSUME IInv, FrameInv,
           \/ DecodeNext \/ Gap \/ EndStream \/ Marking
           \/ SlidingWindow \/ MakeRoom \/ StartFlush \/ FlushUnused
    PROVE  Quiet
<1>1. ASSUME UNCHANGED dpb PROVE PocsOf(fs') = PocsOf(fs)
  BY <1>1, SameStoresWait DEF dpb, SameWaiting
<1>2. shown' = shown
  <2>1. ASSUME UNCHANGED output PROVE shown' = shown
    BY <2>1 DEF output
  <2>2. ASSUME NEW op, Operation(op) PROVE UNCHANGED output
    BY <2>2 DEF Operation
  <2>3. CASE DecodeNext
    BY <2>1, <2>3 DEF DecodeNext, Decode
  <2>4. CASE Gap \/ EndStream
    BY <2>1, <2>4 DEF Gap, FillGap, AfterGap, EndStream
  <2>5. CASE Marking
    BY <2>1, <2>2, <2>5 DEF Marking, MarkShortUnused, MarkLongUnused, AssignLong,
       SetMaxLongTermIdx, MarkAllUnused, MarkCurrentLong, EndMarking
  <2>6. CASE SlidingWindow \/ MakeRoom \/ StartFlush \/ FlushUnused
    BY <2>1, <2>6 DEF SlidingWindow, MakeRoom, StartFlush, FlushUnused
  <2> QED  BY <2>3, <2>4, <2>5, <2>6
<1>3. CASE DecodeNext \/ Gap \/ EndStream
  <2>1. UNCHANGED dpb
    <3>1. CASE DecodeNext
      BY <3>1 DEF DecodeNext, Decode
    <3>2. CASE Gap
      BY <3>2 DEF Gap, FillGap, AfterGap
    <3>3. CASE EndStream
      BY <3>3 DEF EndStream
    <3> QED  BY <1>3, <3>1, <3>2, <3>3
  <2>2. PocsOf(fs') = PocsOf(fs)
    BY <1>1, <2>1
  <2> QED  BY <1>2, <2>2 DEF Quiet
<1>4. CASE Marking \/ StartFlush
  BY <1>2, <1>4, MarkingRemarks, StartFlushRemarks, RemarkedWaits DEF SameWaiting, Quiet
<1>5. CASE SlidingWindow
  <2>1. CASE UNCHANGED fs
    BY <1>2, <2>1, SameStoresWait DEF SameWaiting, Quiet
  <2>2. CASE ~UNCHANGED fs
    <3>1. PICK i \in 1..Len(fs) : fs' = [fs EXCEPT ![i] = UnmarkForReference(fs[i])]
      BY <1>5, <2>2 DEF SlidingWindow
    <3>2. /\ Len(fs') = Len(fs) /\ lastPicture' = lastPicture
          /\ \A j \in 1..Len(fs) : fs'[j] = IF j = i THEN UnmarkForReference(fs[i]) ELSE fs[j]
          /\ GoodStore(fs[i])
      BY <1>5, <3>1, FrameStores DEF IInv, BufferOK, GoodStores, SlidingWindow
    <3>3. Remarked
      BY <3>2, UnmarkedSame DEF Remarked, SameFields
    <3> QED  BY <1>2, <3>3, RemarkedWaits DEF SameWaiting, Quiet
  <2> QED  BY <2>1, <2>2
<1>6. CASE MakeRoom \/ FlushUnused
  <2>1. RemoveUnusedFrame \/ UNCHANGED dpb
    BY <1>6 DEF MakeRoom, FlushUnused
  <2> QED  BY <1>1, <1>2, <2>1, UnusedGoes DEF SameWaiting, Quiet
<1> QED  BY <1>3, <1>4, <1>5, <1>6

LEMMA StepsAreInOrder ==
    ASSUME IInv, IInv', FrameInv, FrameInv', DisplayInv, [Next]_vars
    PROVE  [Display!Next]_Display!vars
<1>1. CASE pc' = "failed"
  BY <1>1, EmptyIsStep
<1>2. CASE UNCHANGED vars
  <2>1. Frames' = Frames /\ pc' = pc /\ shown' = shown
    BY <1>2 DEF vars, dpb, output, Frames, Waiting
  <2> QED  BY <2>1 DEF Frames, Display!vars
<1>3. CASE pc' # "failed" /\ pc # "failed"
  <2>1. CASE \/ DecodeNext \/ Gap \/ EndStream \/ Marking
             \/ SlidingWindow \/ MakeRoom \/ StartFlush \/ FlushUnused
    BY <1>3, <2>1, OthersAreQuiet, QuietIsStutter
  <2>2. CASE Bump \/ FlushOutput
    BY <1>3, <2>2, OutputShows DEF Bump, FlushOutput
  <2>3. CASE Store
    BY <2>3, StoreArrives
  <2>4. CASE DirectOutput
    BY <2>4, DirectShows
  <2>5. CASE IdrDiscard \/ FlushEnd
    BY <2>5, FlushRestarts
  <2>6. ~PairField
    BY NoPairInFrames DEF PairField
  <2> QED  BY <1>2, <2>1, <2>2, <2>3, <2>4, <2>5, <2>6 DEF Next, Gap, Storing, Flushing, Stopped
<1>4. CASE pc = "failed" /\ ~UNCHANGED vars
  BY <1>4 DEF Next, DecodeNext, Decode, FillGap, AfterGap, EndStream, Marking, MarkShortUnused,
              MarkLongUnused, AssignLong, SetMaxLongTermIdx, MarkAllUnused, MarkCurrentLong,
              Operation, EndMarking, Storing, PairField, SlidingWindow, MakeRoom, DirectOutput,
              Bump, Store, Flushing, IdrDiscard, StartFlush, FlushUnused, FlushOutput, FlushEnd,
              Stopped
<1> QED  BY <1>1, <1>2, <1>3, <1>4

LEMMA InitIsInOrder == Init => Display!Init
<1> SUFFICES ASSUME Init PROVE Display!Init
  OBVIOUS
<1>1. fs = <<>> /\ shown = None
  BY DEF Init
<1>2. Frames = {}
  BY <1>1, FramesAre, NoneWaits
<1> QED  BY <1>1, <1>2 DEF Frames, Display!Init

(* For every buffer with room for the reference frames and the reordering,   *)
(* and every stream of frames, the decoder implements DisplayOrder: through  *)
(* bumping, direct output, filled gaps, operation 5 and IDR pictures, a      *)
(* frame is handed to write_stored_frame or direct_output once, and later    *)
(* than every frame of its sequence with a smaller POC.                     *)
THEOREM FramesShownInOrder == OnlyFrames /\ BufferFits => (Spec => ShownInDisplayOrder)
<1> SUFFICES ASSUME OnlyFrames, BufferFits PROVE Spec => ShownInDisplayOrder
  OBVIOUS
<1>1. IInv /\ FrameInv /\ DisplayInv /\ (IInv /\ FrameInv)' /\ [Next]_vars
        => [Display!Next]_Display!vars
  BY StepsAreInOrder
<1> QED  BY <1>1, InitIsInOrder, DisplayInvariance, PTL DEF Spec, ShownInDisplayOrder, Display!Spec

=============================================================================
