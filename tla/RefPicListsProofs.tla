------------------------- MODULE RefPicListsProofs -------------------------
(***************************************************************************)
(* Proofs about the reference picture lists of RefPicLists: for every size  *)
(* of the buffer, every number of reference frames and every stream of      *)
(* frames, each list of a slice names each reference once, list 0 of a P    *)
(* slice goes from the latest to the earliest, and the lists of a B slice   *)
(* go away from the current picture in display order.                       *)
(***************************************************************************)
EXTENDS RefPicLists, DecodedPictureBufferProofs

-----------------------------------------------------------------------------
(* The invariant                                                           *)

(* FrameInv says that the lists miss no reference and in which order the short-term  *)
(* ones stand.  Between two pictures and up to the first control operation the lists *)
(* also name nothing else (SameListsOK), a stored frame has one POC and a flush      *)
(* leaves none (ClearedOK), and the frame numbers of the references count back from  *)
(* that of the current picture even if it is no reference itself (AgeOK).            *)

SameListsOK ==
    /\ cur.adaptive \/ marked = NoMarks
    /\ marked = NoMarks /\ pc \notin FlushPhases \cup {"ended", "failed"} =>
         shortRefs = Shorts(fs) /\ longRefs = Longs(fs)

\* A flush leaves nothing, and a store of a frame has one POC.
ClearedOK ==
    /\ pc = "bumpall" => \A i \in 1..Len(fs) : ~fs[i].output
    /\ pc \in {"placing", "room", "bumping"} /\ (cur.idr \/ marked[5] > 0) => fs = <<>>
    /\ \A i \in 1..Len(fs) : fs[i].firstPoc = fs[i].poc

\* Only the end of the stream, an IDR picture and operation 5 flush the buffer.
FlushOK == pc \in FlushPhases => cur = NoPicture \/ cur.idr \/ marked[5] > 0

AgeOK ==
    pc = "placing" /\ ~cur.ref => Clear(fs, preFrameNum, Age(cur.frameNum, preFrameNum))

SliceInv == SameListsOK /\ ClearedOK /\ AgeOK

-----------------------------------------------------------------------------
(* Steps of the buffer                                                     *)

\* Every store that is left was there, with its POCs.
SameTimes ==
    \A i \in 1..Len(fs') : \E k \in 1..Len(fs) :
        fs'[i].poc = fs[k].poc /\ fs'[i].firstPoc = fs[k].firstPoc

SameLists ==
    shortRefs = Shorts(fs) /\ longRefs = Longs(fs)
        => shortRefs' = Shorts(fs') /\ longRefs' = Longs(fs')

LEMMA RemarkedTimes ==
    ASSUME Remarked
    PROVE  SameTimes
BY DEF Remarked, SameTimes, SameFields

LEMMA SameStoresTimes ==
    ASSUME UNCHANGED dpb
    PROVE  SameTimes /\ SameLists
BY DEF SameTimes, SameLists, dpb

(* The lists follow the stores they point to when a store that is in neither *)
(* goes.                                                                    *)
LEMMA RemovedLists ==
    ASSUME NEW stores, Len(stores) \in Nat, NEW pos \in 1..Len(stores), stores[pos].ref = {},
           RemoveFrame(stores, pos), shortRefs = Shorts(stores), longRefs = Longs(stores)
    PROVE  shortRefs' = Shorts(fs') /\ longRefs' = Longs(fs')
<1>1. /\ \A i \in 1..Len(fs') : \E k \in (1..Len(stores)) \ {pos} : Shifted(k, pos) = i
      /\ \A k \in (1..Len(stores)) \ {pos} :
            Shifted(k, pos) \in 1..Len(fs') /\ fs'[Shifted(k, pos)] = stores[k]
  BY RemovedStores
<1>2. /\ shortRefs' = {Shifted(i, pos) : i \in shortRefs}
      /\ longRefs' = {Shifted(i, pos) : i \in longRefs}
  BY DEF RemoveFrame, Shorts, Longs
<1>3. shortRefs' = Shorts(fs')
  <2>1. \A k \in Shorts(stores) : Shifted(k, pos) \in Shorts(fs')
    BY <1>1 DEF Shorts
  <2>2. \A i \in Shorts(fs') : \E k \in Shorts(stores) : Shifted(k, pos) = i
    BY <1>1 DEF Shorts
  <2> QED  BY <1>2, <2>1, <2>2
<1>4. longRefs' = Longs(fs')
  <2>1. \A k \in Longs(stores) : Shifted(k, pos) \in Longs(fs')
    BY <1>1 DEF Longs
  <2>2. \A i \in Longs(fs') : \E k \in Longs(stores) : Shifted(k, pos) = i
    BY <1>1 DEF Longs
  <2> QED  BY <1>2, <2>1, <2>2
<1> QED  BY <1>3, <1>4

LEMMA RemovedTimes ==
    ASSUME NEW stores, Len(stores) \in Nat, Len(stores) = Len(fs), NEW pos \in 1..Len(stores),
           RemoveFrame(stores, pos),
           \A i \in 1..Len(fs) : stores[i].poc = fs[i].poc /\ stores[i].firstPoc = fs[i].firstPoc
    PROVE  SameTimes
<1>1. /\ \A i \in 1..Len(fs') : \E k \in (1..Len(stores)) \ {pos} : Shifted(k, pos) = i
      /\ \A k \in (1..Len(stores)) \ {pos} : fs'[Shifted(k, pos)] = stores[k]
  BY RemovedStores
<1> QED  BY <1>1 DEF SameTimes

LEMMA UnusedTimes ==
    ASSUME IInv, FrameInv, RemoveUnusedFrame
    PROVE  SameTimes /\ SameLists
<1>1. PICK pos \in 1..Len(fs) : IsUnused(pos) /\ RemoveFrame(fs, pos)
  BY DEF RemoveUnusedFrame
<1>2. fs[pos].ref = {} /\ Len(fs) \in Nat
  BY <1>1, UnusedIsNoRef DEF IsUnused, IInv, BufferOK, GoodStores
<1> QED  BY <1>1, <1>2, RemovedLists, RemovedTimes DEF SameLists

LEMMA OutputTimes ==
    ASSUME IInv, FrameInv, NEW pos \in Waiting, OutputOneFrame(pos)
    PROVE  /\ SameTimes /\ (pc' # "failed" => SameLists)
           /\ pc' # "failed" /\ fs[pos].ref = {} => 
                \A i \in 1..Len(fs') : \E k \in (1..Len(fs)) \ {pos} : fs'[i] = fs[k]
<1> DEFINE s == Written(fs[pos])
           stores == [fs EXCEPT ![pos] = s]
<1>1. /\ pos \in 1..Len(fs) /\ GoodStore(fs[pos]) /\ FrameStore(fs[pos]) /\ Len(fs) \in Nat
      /\ DOMAIN fs = 1..Len(fs)
  BY FrameStores DEF Waiting, IInv, BufferOK, GoodStores
<1>2. \/ /\ fs' = stores /\ UNCHANGED <<shortRefs, longRefs>>
         /\ pc' = "failed" \/ IsUsedForReference(s)
      \/ RemoveFrame(stores, pos) /\ ~IsUsedForReference(s)
  BY DEF OutputOneFrame
<1>3. s = [fs[pos] EXCEPT !.output = TRUE]
  BY <1>1 DEF Written, FrameStore
<1>4. /\ s.ref = fs[pos].ref /\ s.lt = fs[pos].lt
      /\ s.used = fs[pos].used /\ s.refPics = fs[pos].refPics
      /\ s.poc = fs[pos].poc /\ s.firstPoc = fs[pos].firstPoc
  BY <1>1, <1>3 DEF GoodStore, StoreType
<1>5. IsUsedForReference(s) <=> fs[pos].ref # {}
  <2>1. IsUsedForReference(s) <=> IsUsedForReference(fs[pos])
    BY <1>4 DEF IsUsedForReference, ViewsOf
  <2> QED  BY <1>1, <2>1, UnusedIsNoRef
<1> HIDE DEF s
<1>6. /\ Len(stores) = Len(fs)
      /\ \A i \in 1..Len(fs) : stores[i] = IF i = pos THEN s ELSE fs[i]
  BY <1>1 DEF IInv, BufferOK, GoodStores
<1>7. Shorts(stores) = Shorts(fs) /\ Longs(stores) = Longs(fs)
  BY <1>4, <1>6 DEF Shorts, Longs
<1>8. \A i \in 1..Len(fs) : stores[i].poc = fs[i].poc /\ stores[i].firstPoc = fs[i].firstPoc
  BY <1>4, <1>6
<1> HIDE DEF stores
<1>9. CASE /\ fs' = stores /\ UNCHANGED <<shortRefs, longRefs>>
           /\ pc' = "failed" \/ IsUsedForReference(s)
  BY <1>5, <1>6, <1>7, <1>8, <1>9 DEF SameTimes, SameLists
<1>10. CASE RemoveFrame(stores, pos) /\ ~IsUsedForReference(s)
  <2>1. stores[pos].ref = {}
    BY <1>1, <1>4, <1>5, <1>6, <1>10
  <2>2. SameTimes /\ SameLists
    BY <1>1, <1>6, <1>7, <1>8, <1>10, <2>1, RemovedTimes, RemovedLists DEF SameLists
  <2>3. /\ \A i \in 1..Len(fs') : \E k \in (1..Len(stores)) \ {pos} : Shifted(k, pos) = i
        /\ \A k \in (1..Len(stores)) \ {pos} : fs'[Shifted(k, pos)] = stores[k]
    BY <1>1, <1>6, <1>10, RemovedStores
  <2>4. \A i \in 1..Len(fs') : \E k \in (1..Len(fs)) \ {pos} : fs'[i] = fs[k]
    BY <1>6, <2>3
  <2> QED  BY <2>2, <2>4
<1> QED  BY <1>2, <1>9, <1>10

-----------------------------------------------------------------------------
(* Steps that keep the picture                                             *)

LEMMA TimesStay ==
    ASSUME ClearedOK, SameTimes
    PROVE  \A i \in 1..Len(fs') : fs'[i].firstPoc = fs'[i].poc
BY DEF ClearedOK, SameTimes

LEMMA InitSlice == Init => SliceInv
<1> SUFFICES ASSUME Init PROVE SliceInv
  OBVIOUS
<1>1. /\ fs = <<>> /\ shortRefs = {} /\ longRefs = {} /\ sent = {}
      /\ pc = "ready" /\ cur = NoPicture /\ upcoming = NoPicture /\ marked = NoMarks
  BY DEF Init, NoPicture
<1>2. SameListsOK
  BY <1>1 DEF SameListsOK, Shorts, Longs
<1> QED  BY <1>1, <1>2 DEF SliceInv, ClearedOK, AgeOK

LEMMA EndStreamSlice ==
    ASSUME SliceInv, EndStream
    PROVE  SliceInv'
<1>1. pc = "ready" /\ pc' = "flush" /\ UNCHANGED <<dpb, sent, upcoming, cur, marked>>
  BY DEF EndStream, stream
<1>2. SameTimes /\ SamePicture
  BY <1>1, SameStoresTimes DEF SamePicture
<1>3. ClearedOK'
  BY <1>1, <1>2, TimesStay DEF SliceInv, ClearedOK
<1> QED  BY <1>1, <1>3 DEF SliceInv, SameListsOK, AgeOK, FlushPhases

LEMMA StartFlushSlice ==
    ASSUME IInv, SliceInv, StartFlush
    PROVE  SliceInv'
<1>1. pc \in {"flush", "idr"} /\ pc' = "unused" /\ UNCHANGED <<sent, upcoming, cur, marked>>
  BY DEF StartFlush, stream
<1>2. SameTimes /\ SamePicture
  BY <1>1, StartFlushRemarks, RemarkedTimes DEF SamePicture
<1>3. ClearedOK'
  BY <1>1, <1>2, TimesStay DEF SliceInv, ClearedOK
<1> QED  BY <1>1, <1>3 DEF SliceInv, SameListsOK, AgeOK, FlushPhases

LEMMA FlushUnusedSlice ==
    ASSUME IInv, FrameInv, SliceInv, FlushUnused
    PROVE  SliceInv'
<1>1. pc = "unused" /\ pc' \in {"unused", "bumpall"} /\ UNCHANGED <<sent, upcoming, cur, marked>>
  BY DEF FlushUnused, stream
<1>2. SameTimes /\ SamePicture
  BY <1>1, SameStoresTimes, UnusedTimes DEF SamePicture, FlushUnused
<1>3. ClearedOK'
  <2>1. CASE pc' = "bumpall"
    <3>1. UNCHANGED fs /\ \A pos \in 1..Len(fs) : ~IsUnused(pos)
      BY <1>1, <2>1 DEF FlushUnused, dpb
    <3>2. \A i \in 1..Len(fs) : fs[i].ref = {}
      BY <1>1 DEF FrameInv, FlushedOK, Unreferenced
    <3>3. \A i \in 1..Len(fs) : ~fs[i].output
      BY <3>1, <3>2, UnusedIsNoRef DEF IsUnused
    <3> QED  BY <1>2, <2>1, <3>1, <3>3, TimesStay DEF SliceInv, ClearedOK
  <2>2. CASE pc' = "unused"
    BY <1>2, <2>2, TimesStay DEF SliceInv, ClearedOK
  <2> QED  BY <1>1, <2>1, <2>2
<1> QED  BY <1>1, <1>3 DEF SliceInv, SameListsOK, AgeOK, FlushPhases

LEMMA FlushOutputSlice ==
    ASSUME IInv, FrameInv, SliceInv, FlushOutput
    PROVE  SliceInv'
<1>1. pc = "bumpall" /\ UNCHANGED <<sent, upcoming, cur, marked>>
  BY DEF FlushOutput, stream
<1>2. PICK pos \in Waiting : OutputOneFrame(pos)
  BY DEF FlushOutput
<1>3. pc' \in {"bumpall", "failed"}
  BY <1>1, <1>2 DEF OutputOneFrame
<1>4. SameTimes /\ SamePicture
  BY <1>1, <1>2, OutputTimes DEF SamePicture
<1>5. fs[pos].ref = {}
  BY <1>1 DEF FrameInv, FlushedOK, Unreferenced, Waiting
<1>6. pc' = "bumpall" => \A i \in 1..Len(fs') : ~fs'[i].output
  BY <1>1, <1>2, <1>5, OutputTimes DEF SliceInv, ClearedOK
<1>7. ClearedOK'
  BY <1>3, <1>4, <1>6, TimesStay DEF SliceInv, ClearedOK
<1> QED  BY <1>1, <1>3, <1>7 DEF SliceInv, SameListsOK, AgeOK, FlushPhases

LEMMA EndMarkingSlice ==
    ASSUME IInv, FrameInv, SliceInv, EndMarking
    PROVE  SliceInv'
<1>1. /\ pc = "marking" /\ UNCHANGED <<dpb, upcoming, marked>>
      /\ cur.adaptive /\ ~cur.idr /\ cur # NoPicture /\ cur.ref /\ upcoming = NoPicture
      /\ cur \in PictureType
  BY DEF EndMarking, FrameInv, KindOK, NoPicture, IInv, ControlOK
<1>2. SameTimes /\ SameLists
  BY <1>1, SameStoresTimes
<1>3. CASE marked[5] > 0
  <2>1. cur' = [cur EXCEPT !.frameNum = 0, !.poc = 0] /\ sent' = {0} /\ pc' = "flush"
    BY <1>3 DEF EndMarking
  <2>2. cur'.adaptive /\ cur'.poc = 0 /\ cur'.exists = cur.exists
    BY <1>1, <2>1 DEF PictureType
  <2>3. ClearedOK'
    BY <1>2, <2>1, TimesStay DEF SliceInv, ClearedOK
  <2> QED  BY <2>1, <2>2, <2>3 DEF SliceInv, SameListsOK, AgeOK, FlushPhases
<1>4. CASE ~(marked[5] > 0)
  <2>1. pc' = "placing" /\ UNCHANGED <<cur, sent>>
    BY <1>4 DEF EndMarking
  <2>2. ClearedOK'
    BY <1>1, <1>2, <1>4, <2>1, TimesStay DEF SliceInv, ClearedOK
  <2>3. SameListsOK'
    BY <1>1, <1>2, <2>1 DEF SliceInv, SameListsOK, SameLists, FlushPhases
  <2> QED  BY <1>1, <2>1, <2>2, <2>3 DEF SliceInv, AgeOK
<1> QED  BY <1>3, <1>4

LEMMA MarkingSlice ==
    ASSUME IInv, FrameInv, SliceInv, Marking, ~EndMarking
    PROVE  SliceInv'
<1>1. PICK op \in 1..6 : Operation(op)
  <2>1. (\E op \in {1, 2, 3, 4, 6} : Operation(op)) \/ MarkAllUnused
    BY DEF Marking, MarkShortUnused, MarkLongUnused, AssignLong, SetMaxLongTermIdx,
           MarkCurrentLong
  <2>2. MarkAllUnused => Operation(5)
    BY DEF MarkAllUnused
  <2> QED  BY <2>1, <2>2
<1>2. /\ pc = "marking" /\ UNCHANGED <<sent, upcoming>>
      /\ marked \in [1..6 -> Nat] /\ marked' = [marked EXCEPT ![op] = @ + 1]
  BY <1>1 DEF Operation, IInv, ControlOK, stream
<1>3. (marked'[5] = 0 => marked[5] = 0) /\ marked'[op] # 0
  BY <1>2
<1>4. marked' # NoMarks
  BY <1>3 DEF NoMarks
<1>5. cur.adaptive /\ cur # NoPicture
  BY <1>2 DEF FrameInv, KindOK, NoPicture
<1>6. pc' \in {"marking", "failed"}
  BY <1>2 DEF Marking, MarkShortUnused, MarkLongUnused, AssignLong, SetMaxLongTermIdx,
              MarkAllUnused, MarkCurrentLong
<1>7. /\ cur'.exists = cur.exists /\ cur'.poc = cur.poc /\ cur'.ref = cur.ref
      /\ cur'.adaptive = cur.adaptive /\ cur'.idr = cur.idr
  <2>1. cur' = cur \/ \E idx : cur' = [cur EXCEPT !.long = TRUE, !.ltIdx = idx]
    BY DEF Marking, MarkShortUnused, MarkLongUnused, AssignLong, SetMaxLongTermIdx,
           MarkAllUnused, MarkCurrentLong
  <2> QED  BY <1>5, <2>1 DEF IInv, ControlOK, PictureType
<1>8. SameTimes
  BY MarkingRemarks, RemarkedTimes
<1>9. ClearedOK'
  BY <1>6, <1>8, TimesStay DEF SliceInv, ClearedOK
<1> QED  BY <1>4, <1>5, <1>6, <1>7, <1>9 DEF SliceInv, SameListsOK, AgeOK

-----------------------------------------------------------------------------
(* The buffer is emptied                                                   *)

LEMMA FlushedToNothing ==
    ASSUME IInv, SliceInv, pc = "bumpall", Waiting = {}
    PROVE  fs = <<>>
<1>1. \A i \in 1..Len(fs) : ~fs[i].output
  BY DEF SliceInv, ClearedOK
<1>2. Len(fs) \in Nat /\ fs \in Seq(StoreType)
  BY DEF IInv, BufferOK, GoodStores
<1>3. ~(1 \in 1..Len(fs))
  BY <1>1 DEF Waiting
<1>4. Len(fs) = 0
  BY <1>2, <1>3
<1> QED  BY <1>2, <1>4

\* What goes on with an empty buffer.
LEMMA NothingStored ==
    ASSUME IInv', fs' = <<>>
    PROVE  /\ shortRefs' = Shorts(fs') /\ longRefs' = Longs(fs')
           /\ 1..Len(fs') = {}
<1>1. Len(fs') = 0
  OBVIOUS
<1>2. 1..Len(fs') = {}
  BY <1>1
<1>3. shortRefs' = {} /\ longRefs' = {}
  BY <1>2 DEF IInv, BufferOK, Positions
<1> QED  BY <1>2, <1>3 DEF Shorts, Longs

LEMMA IdrSlice ==
    ASSUME IInv, IInv', FrameInv, SliceInv, IdrMarking, cur.idr, pc # "failed", fs' = <<>>,
           UNCHANGED <<stream, marked>>
    PROVE  SliceInv'
<1>1. /\ cur' = [cur EXCEPT !.long = cur.longFlag] /\ pc' = "placing"
      /\ cur \in PictureType /\ UNCHANGED <<sent, upcoming, marked>>
  BY DEF IdrMarking, IInv, ControlOK, stream
<1>2. /\ cur'.exists = cur.exists /\ cur'.poc = cur.poc /\ cur'.idr /\ cur'.ref
      /\ cur'.adaptive = cur.adaptive /\ upcoming = NoPicture /\ cur # NoPicture
  BY <1>1 DEF PictureType, FrameInv, KindOK, NoPicture
<1>3. SameListsOK' /\ ClearedOK'
  BY <1>1, <1>2, NothingStored DEF SliceInv, SameListsOK, ClearedOK
<1> QED  BY <1>2, <1>3 DEF SliceInv, AgeOK

LEMMA IdrDiscardSlice ==
    ASSUME IInv, IInv', FrameInv, SliceInv, IdrDiscard
    PROVE  SliceInv'
<1>1. cur.idr /\ pc # "failed" /\ fs' = <<>> /\ IdrMarking /\ UNCHANGED <<stream, marked>>
  BY DEF IdrDiscard, FrameInv, KindOK
<1> QED  BY <1>1, IdrSlice

LEMMA FlushEndSlice ==
    ASSUME IInv, IInv', FrameInv, FlushOK, SliceInv, FlushEnd
    PROVE  SliceInv'
<1>1. pc = "bumpall" /\ Waiting = {} /\ UNCHANGED <<stream, marked>>
  BY DEF FlushEnd
<1>2. fs = <<>>
  BY <1>1, FlushedToNothing
<1>3. CASE cur.idr
  BY <1>1, <1>2, <1>3, IdrSlice DEF FlushEnd
<1>4. CASE ~cur.idr
  <2>1. /\ UNCHANGED <<dpb, cur>> /\ pc' = IF cur = NoPicture THEN "ended" ELSE "placing"
    BY <1>4 DEF FlushEnd
  <2>2. UNCHANGED <<fs, sent, upcoming, marked>>
    BY <1>1, <2>1 DEF dpb, stream
  <2>3. upcoming = NoPicture /\ (cur = NoPicture \/ (cur.adaptive /\ cur.ref))
    BY <1>1, <1>4 DEF FrameInv, KindOK, FlushPhases
  <2>4. SameListsOK' /\ ClearedOK'
    BY <1>2, <2>1, <2>2, NothingStored DEF SliceInv, SameListsOK, ClearedOK
  <2> QED  BY <2>1, <2>3, <2>4 DEF SliceInv, AgeOK
<1> QED  BY <1>3, <1>4

-----------------------------------------------------------------------------
(* A picture is stored                                                     *)

LEMMA SlidingWindowSlice ==
    ASSUME IInv, IInv', FrameInv, FrameInv', SliceInv, SlidingWindow
    PROVE  SliceInv'
<1>1. /\ pc = "placing" /\ pc' = "room"
      /\ UNCHANGED <<longRefs, lastPicture, sent, upcoming, cur, marked>>
  BY DEF SlidingWindow, stream
<1>2. Remarked /\ SameLists /\ (fs = <<>> => fs' = <<>>)
  <2>1. CASE UNCHANGED <<fs, shortRefs>>
    BY <1>1, <2>1 DEF Remarked, SameFields, SameLists
  <2>2. CASE /\ \E i \in 1..Len(fs) :
                   IsFirstShortTerm(i) /\ fs' = [fs EXCEPT ![i] = UnmarkForReference(fs[i])]
             /\ shortRefs' = ShortRefsOf(fs')
    <3>1. PICK i \in 1..Len(fs) :
             IsFirstShortTerm(i) /\ fs' = [fs EXCEPT ![i] = UnmarkForReference(fs[i])]
      BY <2>2
    <3>2. /\ GoodStore(fs[i]) /\ FrameStore(fs[i]) /\ fs[i].lt = {}
      BY <3>1, FrameStores DEF IsFirstShortTerm
    <3>3. UnmarkForReference(fs[i]).lt = {}
      BY <3>2 DEF UnmarkForReference, GoodStore, StoreType
    <3>4. /\ Len(fs') = Len(fs) /\ Len(fs) \in Nat
          /\ \A j \in 1..Len(fs) : fs'[j] = IF j = i THEN UnmarkForReference(fs[i]) ELSE fs[j]
      BY <3>1, FrameStores DEF IInv, BufferOK, GoodStores
    <3>5. Remarked
      BY <1>1, <3>2, <3>4, UnmarkedSame DEF Remarked, SameFields
    <3>6. Longs(fs') = Longs(fs)
      BY <3>2, <3>3, <3>4 DEF Longs
    <3>7. shortRefs' = Shorts(fs')
      <4>1. GoodStores(fs') /\ Framed(fs')
        BY DEF IInv, BufferOK, GoodStores, GoodStore, StoreMarksAgree, FrameInv, ShapeOK
      <4> QED  BY <2>2, <4>1, FrameLists
    <3>8. fs # <<>>
      BY <3>4
    <3> QED  BY <1>1, <3>5, <3>6, <3>7, <3>8 DEF SameLists
  <2> QED  BY <2>1, <2>2 DEF SlidingWindow
<1>3. SameTimes
  BY <1>2, RemarkedTimes
<1>4. ClearedOK'
  BY <1>1, <1>2, <1>3, TimesStay DEF SliceInv, ClearedOK
<1>5. SameListsOK'
  BY <1>1, <1>2 DEF SliceInv, SameListsOK, SameLists, FlushPhases
<1> QED  BY <1>1, <1>4, <1>5 DEF SliceInv, AgeOK

LEMMA MakeRoomSlice ==
    ASSUME IInv, IInv', FrameInv, SliceInv, MakeRoom
    PROVE  SliceInv'
<1>1. pc = "room" /\ pc' = "bumping" /\ UNCHANGED <<sent, upcoming, cur, marked>>
  BY DEF MakeRoom, stream
<1>2. SameTimes /\ SameLists
  BY SameStoresTimes, UnusedTimes DEF MakeRoom
<1>3. fs = <<>> => fs' = <<>>
  <2>1. fs = <<>> => ~RemoveUnusedFrame
    BY DEF RemoveUnusedFrame
  <2> QED  BY <2>1 DEF MakeRoom, dpb
<1>4. ClearedOK'
  BY <1>1, <1>2, <1>3, TimesStay DEF SliceInv, ClearedOK
<1>5. SameListsOK'
  BY <1>1, <1>2 DEF SliceInv, SameListsOK, SameLists, FlushPhases
<1> QED  BY <1>1, <1>4, <1>5 DEF SliceInv, AgeOK

LEMMA BumpSlice ==
    ASSUME IInv, IInv', FrameInv, SliceInv, Bump
    PROVE  SliceInv'
<1>1. /\ pc = "bumping" /\ UNCHANGED <<sent, upcoming, cur, marked>> /\ Len(fs) = DpbSize
  BY DEF Bump, stream
<1>2. PICK pos \in Waiting : OutputOneFrame(pos)
  BY DEF Bump
<1>3. pc' \in {"bumping", "failed"}
  BY <1>1, <1>2 DEF OutputOneFrame
<1>4. SameTimes /\ (pc' # "failed" => SameLists)
  BY <1>2, OutputTimes
<1>5. fs # <<>>
  BY <1>1, DpbAssumption
<1>6. ClearedOK'
  BY <1>1, <1>3, <1>4, <1>5, TimesStay DEF SliceInv, ClearedOK
<1>7. SameListsOK'
  BY <1>1, <1>3, <1>4 DEF SliceInv, SameListsOK, SameLists, FlushPhases
<1> QED  BY <1>3, <1>6, <1>7 DEF SliceInv, AgeOK

LEMMA DirectOutputSlice ==
    ASSUME IInv, FrameInv, SliceInv, DirectOutput
    PROVE  SliceInv'
<1>1. /\ pc = "bumping" /\ UNCHANGED <<dpb, sent, upcoming>> /\ ~cur.ref
      /\ cur' = NoPicture /\ marked' = NoMarks
      /\ pc' = IF upcoming = NoPicture THEN "ready" ELSE "gap"
  BY DEF DirectOutput, GoesDirectly, Finish, NoPicture
<1>2. marked = NoMarks
  BY <1>1 DEF SliceInv, SameListsOK, FrameInv, KindOK
<1>3. SameTimes /\ SameLists
  BY <1>1, SameStoresTimes
<1>4. SameListsOK'
  BY <1>1, <1>2, <1>3 DEF SliceInv, SameListsOK, SameLists, FlushPhases
<1>5. ClearedOK'
  BY <1>1, <1>3, TimesStay DEF SliceInv, ClearedOK
<1> QED  BY <1>1, <1>4, <1>5 DEF SliceInv, AgeOK

LEMMA StoreSlice ==
    ASSUME IInv, IInv', FrameInv, FrameInv', SliceInv, Store
    PROVE  SliceInv'
<1>1. /\ pc = "bumping" /\ cur.structure = "frame" /\ cur # NoPicture
  BY FrameIsHere DEF Store, HasPicture
<1>2. shortRefs' = Shorts(fs') /\ longRefs' = Longs(fs')
  BY StoredMarks
<1> DEFINE n == Len(fs')
           s == Insert(EmptyStore, cur)
<1>3. s.poc = cur.poc /\ s.firstPoc = cur.poc
  BY DEF Insert, EmptyStore
<1> HIDE DEF s
<1>4. /\ Len(fs) \in Nat /\ n = Len(fs) + 1
      /\ \A i \in 1..Len(fs) : fs'[i] = fs[i]
      /\ fs'[n].poc = cur.poc /\ fs'[n].firstPoc = cur.poc
  <2>1. fs' = Append(fs, s)
    BY DEF Store, s
  <2>2. fs \in Seq(StoreType)
    BY DEF IInv, BufferOK, GoodStores
  <2> QED  BY <1>3, <2>1, <2>2
<1> HIDE DEF n
<1>5. \A i \in 1..n : i \in 1..Len(fs) \/ i = n
  BY <1>4
<1>6. \A i \in 1..Len(fs') : fs'[i].firstPoc = fs'[i].poc
  BY <1>4, <1>5 DEF n, SliceInv, ClearedOK
<1>7. CASE pc' = "failed"
  <2>1. UNCHANGED <<cur, marked>>
    BY <1>7 DEF Store, Finish
  <2> QED  BY <1>6, <1>7, <2>1 DEF SliceInv, SameListsOK, ClearedOK, AgeOK
<1>8. CASE pc' # "failed"
  <2>1. /\ cur' = NoPicture /\ marked' = NoMarks /\ UNCHANGED <<sent, upcoming>>
        /\ pc' = (IF upcoming = NoPicture THEN "ready" ELSE "gap")
    BY <1>8 DEF Store, Finish, NoPicture
  <2>2. SameListsOK' /\ ClearedOK'
    BY <1>2, <1>6, <2>1 DEF SameListsOK, ClearedOK
  <2> QED  BY <2>1, <2>2 DEF SliceInv, AgeOK
<1> QED  BY <1>7, <1>8

-----------------------------------------------------------------------------
(* A frame arrives                                                         *)

LEMMA DecodeSlice ==
    ASSUME IInv, FrameInv, SliceInv, NEW p \in PictureType, p.structure = "frame", p.exists,
           p.idr => p.ref /\ p.poc = 0, p # NoPicture, Decode(p)
    PROVE  SliceInv'
<1>1. ~IsSecondField(p)
  BY DEF IsSecondField, Parities
<1>2. /\ pc = "ready" /\ LegalFrame(p) /\ UNCHANGED <<dpb, marked>>
      /\ sent' = IF p.idr THEN {0} ELSE sent \cup {p.poc}
  BY <1>1 DEF Decode, Legal
<1>3. /\ cur = NoPicture /\ upcoming = NoPicture /\ marked = NoMarks
      /\ ~NoPicture.adaptive
  BY <1>2 DEF FrameInv, KindOK, SliceInv, SameListsOK, NoPicture
<1>4. \/ ~p.idr /\ upcoming' = p /\ pc' = "gap" /\ UNCHANGED <<cur, preFrameNum>>
      \/ /\ cur' = p /\ upcoming' = NoPicture /\ pc' = FirstStep(p)
         /\ preFrameNum' = IF p.ref THEN p.frameNum ELSE preFrameNum
  BY DEF Decode, Begin
<1>5. /\ FirstStep(p) \in {"idr", "marking", "placing"} /\ (p.idr => FirstStep(p) = "idr")
      /\ (FirstStep(p) = "idr" => p.idr) /\ NoMarks[5] = 0
  BY DEF FirstStep, NoMarks
<1>6. shortRefs = Shorts(fs) /\ longRefs = Longs(fs)
  BY <1>2, <1>3 DEF SliceInv, SameListsOK, FlushPhases
<1>7. UNCHANGED <<fs, shortRefs, longRefs>> /\ Shorts(fs') = Shorts(fs) /\ Longs(fs') = Longs(fs)
  BY <1>2 DEF dpb, Shorts, Longs
<1>8. SameListsOK'
  BY <1>2, <1>3, <1>6, <1>7 DEF SameListsOK
<1>9. ClearedOK'
  BY <1>2, <1>3, <1>4, <1>5, <1>7 DEF SliceInv, ClearedOK
<1>10. AgeOK'
  <2> SUFFICES ASSUME pc' = "placing", ~cur'.ref
               PROVE  Clear(fs', preFrameNum', Age(cur'.frameNum, preFrameNum'))
    BY DEF AgeOK
  <2>1. cur' = p /\ ~p.idr /\ preFrameNum' = preFrameNum
    BY <1>4, <1>5
  <2>2. Clear(fs, preFrameNum, Age(p.frameNum, preFrameNum))
    BY <1>2, <2>1, LegalNumber
  <2> QED  BY <1>7, <2>1, <2>2 DEF Clear
<1> QED  BY <1>8, <1>9, <1>10 DEF SliceInv

LEMMA DecodeNextSlice ==
    ASSUME OnlyFrames, IInv, FrameInv, SliceInv, DecodeNext
    PROVE  SliceInv'
<1>1. PICK a \in BOOLEAN, b \in BOOLEAN :
        \/ Decode(IdrPicture("frame", a, b))
        \/ \E gap \in 0..MaxGap, i \in 0..(Cardinality(sent) + ReorderDepth) :
              Decode(OtherPicture("frame", a, b, FrameNumAfter(1 + gap), 2 * i))
        \/ Decode(OtherPicture("frame", a, b, first.frameNum, first.poc + 1))
  BY DEF DecodeNext, OnlyFrames
<1>2. "frame" \in Views
  BY DEF Views
<1>3. ASSUME Decode(IdrPicture("frame", a, b)) PROVE SliceInv'
  <2> DEFINE p == IdrPicture("frame", a, b)
  <2>1. /\ p \in PictureType /\ p.structure = "frame" /\ p.exists /\ p # NoPicture
        /\ p.ref /\ p.poc = 0
    BY <1>2, NoPictureType DEF IdrPicture, NoPicture, PictureType
  <2> HIDE DEF p
  <2>2. Decode(p)
    BY <1>3 DEF p
  <2> QED  BY <2>1, <2>2, DecodeSlice
<1>4. ASSUME NEW n \in 0..(MaxFrameNum - 1), NEW poc \in Nat,
             Decode(OtherPicture("frame", a, b, n, poc))
      PROVE  SliceInv'
  <2> DEFINE p == OtherPicture("frame", a, b, n, poc)
  <2>1. p \in PictureType /\ p.structure = "frame" /\ p.exists /\ ~p.idr /\ p # NoPicture
    BY <1>2, NoPictureType DEF OtherPicture, NoPicture, PictureType
  <2> HIDE DEF p
  <2>2. Decode(p)
    BY <1>4 DEF p
  <2> QED  BY <2>1, <2>2, DecodeSlice
<1>5. ASSUME NEW gap \in 0..MaxGap, NEW i \in 0..(Cardinality(sent) + ReorderDepth),
             Decode(OtherPicture("frame", a, b, FrameNumAfter(1 + gap), 2 * i))
      PROVE  SliceInv'
  <2>1. FrameNumAfter(1 + gap) \in 0..(MaxFrameNum - 1)
    BY DpbAssumption, FrameNumInRange DEF IInv
  <2>2. 2 * i \in Nat
    BY FS_CardinalityType, DpbAssumption DEF IInv, StreamOK
  <2> QED  BY <1>4, <1>5, <2>1, <2>2
<1>6. ASSUME Decode(OtherPicture("frame", a, b, first.frameNum, first.poc + 1))
      PROVE  SliceInv'
  <2>1. first.frameNum \in 0..(MaxFrameNum - 1) /\ first.poc + 1 \in Nat
    BY DEF IInv, StreamOK, PictureType
  <2> QED  BY <1>4, <1>6, <2>1
<1> QED  BY <1>1, <1>3, <1>4, <1>5, <1>6

LEMMA FillGapSlice ==
    ASSUME IInv, FrameInv, SliceInv, NEW poc \in StalePocs, FillGap(poc)
    PROVE  SliceInv'
<1>1. /\ pc = "gap" /\ pc' = "placing" /\ UNCHANGED <<dpb, sent, upcoming, marked>>
      /\ cur'.ref /\ ~cur'.idr
  BY DEF FillGap, NoPicture
<1>2. /\ cur = NoPicture /\ upcoming # NoPicture /\ marked = NoMarks /\ NoMarks[5] = 0
  BY <1>1 DEF FrameInv, KindOK, SliceInv, SameListsOK, NoPicture, NoMarks, IInv, ControlOK,
              Views, Parities
<1>3. SameTimes /\ SameLists
  BY <1>1, SameStoresTimes
<1>4. SameListsOK'
  BY <1>1, <1>2, <1>3 DEF SliceInv, SameListsOK, SameLists, FlushPhases
<1>5. ClearedOK'
  BY <1>1, <1>2, <1>3, TimesStay DEF SliceInv, ClearedOK
<1> QED  BY <1>1, <1>4, <1>5 DEF SliceInv, AgeOK

LEMMA AfterGapSlice ==
    ASSUME IInv, FrameInv, SliceInv, AfterGap
    PROVE  SliceInv'
<1>1. /\ pc = "gap" /\ pc' = FirstStep(upcoming) /\ UNCHANGED <<dpb, sent, marked>>
      /\ cur' = upcoming /\ upcoming' = NoPicture
      /\ preFrameNum' = IF upcoming.ref THEN upcoming.frameNum ELSE preFrameNum
  BY DEF AfterGap, Begin
<1>2. /\ cur = NoPicture /\ upcoming # NoPicture /\ marked = NoMarks /\ NoMarks[5] = 0
      /\ ~upcoming.idr
  BY <1>1 DEF FrameInv, KindOK, SliceInv, SameListsOK, NoPicture, NoMarks, IInv, ControlOK,
              Views, Parities
<1>3. pc' \in {"marking", "placing"}
  BY <1>1, <1>2 DEF FirstStep
<1>4. SameTimes /\ SameLists
  BY <1>1, SameStoresTimes
<1>5. SameListsOK'
  BY <1>1, <1>2, <1>3, <1>4 DEF SliceInv, SameListsOK, SameLists, FlushPhases
<1>6. ClearedOK'
  BY <1>1, <1>2, <1>3, <1>4, TimesStay DEF SliceInv, ClearedOK
<1>7. AgeOK'
  <2>1. Clear(fs, preFrameNum, Age(upcoming.frameNum, preFrameNum))
    BY <1>1, <1>2 DEF FrameInv, OrderOK
  <2> QED  BY <1>1, <2>1 DEF AgeOK, Clear, Shorts, dpb
<1> QED  BY <1>5, <1>6, <1>7 DEF SliceInv

-----------------------------------------------------------------------------
(* Every step                                                              *)

LEMMA NextFlush ==
    ASSUME IInv, FrameInv, FlushOK, [Next]_vars
    PROVE  FlushOK'
<1>1. CASE EndStream
  BY <1>1 DEF EndStream, FrameInv, KindOK, FlushOK
<1>2. CASE StartFlush
  BY <1>2 DEF StartFlush, FrameInv, KindOK, FlushOK, FlushPhases
<1>3. CASE FlushUnused
  BY <1>3 DEF FlushUnused, FlushOK, FlushPhases
<1>4. CASE FlushOutput
  BY <1>4 DEF FlushOutput, OutputOneFrame, FlushOK, FlushPhases
<1>5. CASE EndMarking
  BY <1>5 DEF EndMarking, FlushOK, FlushPhases
<1>6. CASE UNCHANGED vars
  BY <1>6 DEF vars, FlushOK
<1>7. CASE Marking /\ ~EndMarking
  <2>1. pc = "marking" /\ pc' \in {pc, "failed"}
    BY <1>7 DEF Marking, MarkShortUnused, MarkLongUnused, AssignLong, SetMaxLongTermIdx,
                MarkAllUnused, MarkCurrentLong, Operation
  <2> QED  BY <2>1 DEF FlushOK, FlushPhases
<1>8. CASE Storing
  <2>1. pc' \in {"ready", "gap", "room", "bumping", "failed"}
    BY <1>8 DEF Storing, PairField, SlidingWindow, MakeRoom, DirectOutput, Bump, Store, Finish,
                OutputOneFrame
  <2> QED  BY <2>1 DEF FlushOK, FlushPhases
<1>9. CASE IdrDiscard \/ FlushEnd
  <2>1. pc' \in {"placing", "ended"}
    BY <1>9 DEF IdrDiscard, FlushEnd, IdrMarking
  <2> QED  BY <2>1 DEF FlushOK, FlushPhases
<1>10. CASE DecodeNext \/ Gap
  <2>1. pc' \in {"gap", "idr", "marking", "placing"}
    <3>1. CASE DecodeNext
      BY <3>1 DEF DecodeNext, Decode, Begin, FirstStep
    <3>2. CASE Gap
      BY <3>2 DEF Gap, FillGap, AfterGap, Begin, FirstStep
    <3> QED  BY <1>10, <3>1, <3>2
  <2> QED  BY <2>1 DEF FlushOK, FlushPhases
<1> QED
  BY <1>1, <1>2, <1>3, <1>4, <1>5, <1>6, <1>7, <1>8, <1>9, <1>10
     DEF Next, Gap, Flushing, Stopped

LEMMA StutterSlice ==
    ASSUME SliceInv, UNCHANGED vars
    PROVE  SliceInv'
BY DEF vars, dpb, stream, SliceInv, SameListsOK, ClearedOK, AgeOK, Shorts, Longs,
       Clear, Age

LEMMA NextSlice ==
    ASSUME OnlyFrames, IInv, IInv', FrameInv, FrameInv', FlushOK, SliceInv, [Next]_vars
    PROVE  SliceInv'
<1>1. CASE DecodeNext
  BY <1>1, DecodeNextSlice
<1>2. CASE Gap \/ EndStream
  BY <1>2, FillGapSlice, AfterGapSlice, EndStreamSlice DEF Gap
<1>3. CASE Marking
  BY <1>3, MarkingSlice, EndMarkingSlice
<1>4. CASE Storing
  <2>1. ~PairField
    BY NoPairInFrames DEF PairField
  <2> QED  BY <1>4, <2>1, SlidingWindowSlice, MakeRoomSlice, DirectOutputSlice, BumpSlice,
              StoreSlice DEF Storing
<1>5. CASE Flushing
  BY <1>5, IdrDiscardSlice, StartFlushSlice, FlushUnusedSlice, FlushOutputSlice, FlushEndSlice
     DEF Flushing
<1>6. CASE UNCHANGED vars
  BY <1>6, StutterSlice
<1> QED  BY <1>1, <1>2, <1>3, <1>4, <1>5, <1>6 DEF Next, Gap, Stopped

LEMMA SliceInvariance == OnlyFrames => (Spec => [](IInv /\ FrameInv /\ SliceInv))
<1> SUFFICES ASSUME OnlyFrames PROVE Spec => [](IInv /\ FrameInv /\ SliceInv)
  OBVIOUS
<1>1. Init => FlushOK /\ SliceInv
  BY InitSlice DEF Init, FlushOK, FlushPhases
<1>2. IInv /\ IInv' /\ FrameInv /\ FrameInv' /\ FlushOK /\ SliceInv /\ [Next]_vars
        => FlushOK' /\ SliceInv'
  BY NextFlush, NextSlice
<1>3. Spec => [](IInv /\ FrameInv)
  BY FrameInvariance
<1> QED  BY <1>1, <1>2, <1>3, PTL DEF Spec

-----------------------------------------------------------------------------
(* Sorting                                                                 *)

\* The sequence names every element of the set once.
Lists(list, S) == list \in Seq(S) /\ ToSet(list) = S /\ IsInjectiveSeq(list)

LEMMA LargestKey ==
    ASSUME NEW S, IsFiniteSet(S), S # {}, NEW key \in [S -> Int]
    PROVE  \E m \in S : \A x \in S : key[x] <= key[m]
<1> DEFINE Above(x) == {y \in S : key[x] <= key[y]}
           Sets == {Above(x) : x \in S}
<1>1. Sets \subseteq FiniteSubsetsOf(S) /\ Sets # {}
  <2>1. ASSUME NEW x \in S PROVE Above(x) \in FiniteSubsetsOf(S)
    <3>1. Above(x) \in SUBSET S
      OBVIOUS
    <3>2. IsFiniteSet(Above(x))
      BY <3>1, FS_Subset
    <3> QED  BY <3>1, <3>2 DEF FiniteSubsetsOf
  <2>2. PICK x \in S : TRUE
    OBVIOUS
  <2>3. Above(x) \in Sets
    OBVIOUS
  <2> HIDE DEF Above
  <2> QED  BY <2>1, <2>3
<1>2. PICK A \in Sets : \A B \in Sets : ~(<<B, A>> \in StrictSubsetOrdering(S))
  <2> HIDE DEF Sets
  <2> QED  BY <1>1, FS_StrictSubsetOrderingWellFounded, WFMin
<1>3. PICK m \in S : A = Above(m)
  OBVIOUS
<1>4. ASSUME NEW x \in S, ~(key[x] <= key[m]) PROVE FALSE
  <2>1. m \in Above(m) /\ m \notin Above(x) /\ Above(x) \subseteq Above(m)
    BY <1>4
  <2>2. <<Above(x), A>> \in StrictSubsetOrdering(S)
    BY <1>3, <2>1 DEF StrictSubsetOrdering
  <2> QED  BY <1>2, <2>2
<1> QED  BY <1>4

(* A finite set has a sorted sequence, whatever its elements are sorted by:  *)
(* a smallest set without one would have one when its last is taken out.    *)
LEMMA SortedExists ==
    ASSUME NEW S, IsFiniteSet(S), NEW key \in [S -> Int]
    PROVE  \E s \in SetToSeqs(S) :
              \A j, k \in 1..Cardinality(S) : j < k => key[s[j]] <= key[s[k]]
<1> DEFINE Has(B) == \E s \in SetToSeqs(B) :
                        \A j, k \in 1..Cardinality(B) : j < k => key[s[j]] <= key[s[k]]
           Bad == {B \in SUBSET S : ~Has(B)}
<1> SUFFICES ASSUME Bad # {} PROVE FALSE
  OBVIOUS
<1>1. Bad \subseteq FiniteSubsetsOf(S)
  BY FS_Subset DEF FiniteSubsetsOf
<1>2. PICK B \in Bad : \A C \in Bad : ~(<<C, B>> \in StrictSubsetOrdering(S))
  <2> HIDE DEF Bad
  <2> QED  BY <1>1, FS_StrictSubsetOrderingWellFounded, WFMin
<1>3. B \subseteq S /\ ~Has(B) /\ IsFiniteSet(B) /\ Cardinality(B) \in Nat
  BY FS_Subset, FS_CardinalityType
<1>4. B # {}
  <2> SUFFICES ASSUME B = {} PROVE Has(B)
    BY <1>3
  <2>1. Cardinality(B) = 0 /\ 1..0 = {}
    BY FS_EmptySet
  <2>2. [i \in 1..0 |-> 0] \in SetToSeqs(B)
    BY <2>1 DEF SetToSeqs
  <2> QED  BY <2>1, <2>2
<1>5. PICK m \in B : \A x \in B : key[x] <= key[m]
  <2>1. [x \in B |-> key[x]] \in [B -> Int]
    BY <1>3
  <2>2. \E m \in B : \A x \in B : [y \in B |-> key[y]][x] <= [y \in B |-> key[y]][m]
    BY <1>3, <1>4, <2>1, LargestKey
  <2> QED  BY <2>2
<1> DEFINE C == B \ {m}
           n == Cardinality(C)
<1>6. n \in Nat /\ Cardinality(B) = n + 1
  <2>1. IsFiniteSet(C) /\ n = Cardinality(B) - 1
    BY <1>3, <1>5, FS_RemoveElement
  <2>2. n \in Nat
    BY <2>1, FS_CardinalityType
  <2> QED  BY <1>3, <2>1, <2>2
<1>7. PICK f \in SetToSeqs(C) : \A j, k \in 1..n : j < k => key[f[j]] <= key[f[k]]
  <2>1. C \subseteq S /\ <<C, B>> \in StrictSubsetOrdering(S)
    BY <1>3, <1>5 DEF StrictSubsetOrdering
  <2>2. C \notin Bad
    BY <1>2, <2>1
  <2> QED  BY <2>1, <2>2
<1>8. f \in [1..n -> C] /\ \A j, k \in 1..n : j # k => f[j] # f[k]
  BY <1>7 DEF SetToSeqs
<1> HIDE DEF n
<1> DEFINE g == [j \in 1..(n + 1) |-> IF j = n + 1 THEN m ELSE f[j]]
<1>9. \A j \in 1..(n + 1) : j # n + 1 => j \in 1..n
  BY <1>6
<1>10. g \in [1..(n + 1) -> B]
  BY <1>5, <1>8, <1>9
<1>11. \A j, k \in 1..(n + 1) : j # k => g[j] # g[k]
  BY <1>8, <1>9
<1>12. g \in SetToSeqs(B)
  <2> HIDE DEF g, C
  <2> QED  BY <1>6, <1>10, <1>11 DEF SetToSeqs
<1>13. \A j, k \in 1..(n + 1) : j < k => key[g[j]] <= key[g[k]]
  <2> SUFFICES ASSUME NEW j \in 1..(n + 1), NEW k \in 1..(n + 1), j < k
               PROVE  key[g[j]] <= key[g[k]]
    OBVIOUS
  <2>1. j \in 1..n
    BY <1>6
  <2>2. CASE k = n + 1
    BY <1>5, <1>8, <2>1, <2>2
  <2>3. CASE k # n + 1
    BY <1>7, <1>9, <2>1, <2>3
  <2> QED  BY <2>2, <2>3
<1> HIDE DEF g, C
<1> QED  BY <1>3, <1>6, <1>12, <1>13

LEMMA Enumerated ==
    ASSUME NEW S, IsFiniteSet(S), NEW s \in SetToSeqs(S)
    PROVE  Lists(s, S) /\ DOMAIN s = 1..Cardinality(S)
<1> DEFINE n == Cardinality(S)
<1>1. n \in Nat
  BY FS_CardinalityType
<1>2. s \in [1..n -> S] /\ \A j, k \in 1..n : j # k => s[j] # s[k]
  BY DEF SetToSeqs
<1>3. s \in Seq(S) /\ Len(s) = n /\ DOMAIN s = 1..n
  BY <1>1, <1>2
<1>4. ToSet(s) = S
  <2>1. s \in Injection(1..n, S)
    BY <1>2 DEF Injection, IsInjective
  <2>2. Cardinality(1..n) = n
    BY <1>1, FS_Interval
  <2>3. s \in Surjection(1..n, S)
    BY <2>1, <2>2, FS_Injection
  <2> QED  BY <1>3, <2>3 DEF ToSet, Surjection
<1> QED  BY <1>2, <1>3, <1>4 DEF Lists, IsInjectiveSeq

LEMMA PositionsFinite ==
    ASSUME IInv, NEW S \in SUBSET Positions
    PROVE  IsFiniteSet(S) /\ \A i \in S : fs[i] \in StoreType
<1>1. fs \in Seq(StoreType) /\ Len(fs) \in Nat
  BY DEF IInv, BufferOK, GoodStores
<1>2. IsFiniteSet(Positions)
  BY <1>1, FS_Interval DEF Positions
<1>3. IsFiniteSet(S)
  BY <1>2, FS_Subset
<1> QED  BY <1>1, <1>3 DEF Positions

LEMMA WrapIsInteger ==
    ASSUME IInv, NEW s \in StoreType
    PROVE  FrameNumWrap(s) \in Int
BY DpbAssumption DEF IInv, ControlOK, PictureType, StoreType, FrameNumWrap

\* qsort finds an order for each of the four ways of comparing.
LEMMA NumbersSorted ==
    ASSUME IInv, NEW S \in SUBSET Positions
    PROVE  /\ Lists(Sorted(S, ByFrameNumWrap), S)
           /\ \A j, k \in DOMAIN Sorted(S, ByFrameNumWrap) :
                j < k => ~ByFrameNumWrap(Sorted(S, ByFrameNumWrap)[k], Sorted(S, ByFrameNumWrap)[j])
<1> DEFINE key == [i \in S |-> -FrameNumWrap(fs[i])]
<1>1. IsFiniteSet(S) /\ \A i \in S : fs[i] \in StoreType
  BY PositionsFinite
<1>2. key \in [S -> Int]
  BY <1>1, WrapIsInteger
<1>3. PICK s \in SetToSeqs(S) :
         \A j, k \in 1..Cardinality(S) : j < k => key[s[j]] <= key[s[k]]
  <2> HIDE DEF key
  <2> QED  BY <1>1, <1>2, SortedExists
<1>4. Lists(s, S) /\ DOMAIN s = 1..Cardinality(S)
  BY <1>1, Enumerated
<1>5. \A j, k \in DOMAIN s : j < k => ~ByFrameNumWrap(s[k], s[j])
  <2> SUFFICES ASSUME NEW j \in DOMAIN s, NEW k \in DOMAIN s, j < k
               PROVE  ~ByFrameNumWrap(s[k], s[j])
    OBVIOUS
  <2>1. s[j] \in S /\ s[k] \in S /\ key[s[j]] <= key[s[k]]
    BY <1>3, <1>4 DEF Lists, ToSet
  <2>2. key[s[j]] \in Int /\ key[s[k]] \in Int
    BY <1>2, <2>1
  <2> QED  BY <1>1, <2>1, <2>2, WrapIsInteger DEF ByFrameNumWrap
<1>6. /\ Sorted(S, ByFrameNumWrap) \in SetToSeqs(S)
      /\ \A j, k \in DOMAIN Sorted(S, ByFrameNumWrap) :
           j < k => ~ByFrameNumWrap(Sorted(S, ByFrameNumWrap)[k], Sorted(S, ByFrameNumWrap)[j])
  BY <1>5 DEF Sorted
<1> QED  BY <1>1, <1>6, Enumerated

LEMMA IndicesSorted ==
    ASSUME IInv, NEW S \in SUBSET Positions
    PROVE  /\ Lists(Sorted(S, ByLongTermIdx), S)
           /\ \A j, k \in DOMAIN Sorted(S, ByLongTermIdx) :
                j < k => ~ByLongTermIdx(Sorted(S, ByLongTermIdx)[k], Sorted(S, ByLongTermIdx)[j])
<1> DEFINE key == [i \in S |-> fs[i].ltIdx]
<1>1. IsFiniteSet(S) /\ \A i \in S : fs[i] \in StoreType
  BY PositionsFinite
<1>2. key \in [S -> Int]
  BY <1>1 DEF StoreType
<1>3. PICK s \in SetToSeqs(S) :
         \A j, k \in 1..Cardinality(S) : j < k => key[s[j]] <= key[s[k]]
  <2> HIDE DEF key
  <2> QED  BY <1>1, <1>2, SortedExists
<1>4. Lists(s, S) /\ DOMAIN s = 1..Cardinality(S)
  BY <1>1, Enumerated
<1>5. \A j, k \in DOMAIN s : j < k => ~ByLongTermIdx(s[k], s[j])
  <2> SUFFICES ASSUME NEW j \in DOMAIN s, NEW k \in DOMAIN s, j < k
               PROVE  ~ByLongTermIdx(s[k], s[j])
    OBVIOUS
  <2>1. s[j] \in S /\ s[k] \in S /\ key[s[j]] <= key[s[k]]
    BY <1>3, <1>4 DEF Lists, ToSet
  <2>2. key[s[j]] \in Int /\ key[s[k]] \in Int
    BY <1>2, <2>1
  <2> QED  BY <1>1, <2>1, <2>2 DEF ByLongTermIdx, StoreType
<1>6. /\ Sorted(S, ByLongTermIdx) \in SetToSeqs(S)
      /\ \A j, k \in DOMAIN Sorted(S, ByLongTermIdx) :
           j < k => ~ByLongTermIdx(Sorted(S, ByLongTermIdx)[k], Sorted(S, ByLongTermIdx)[j])
  BY <1>5 DEF Sorted
<1> QED  BY <1>1, <1>6, Enumerated

LEMMA LaterSorted ==
    ASSUME IInv, NEW S \in SUBSET Positions
    PROVE  /\ Lists(Sorted(S, ByPocUp), S)
           /\ \A j, k \in DOMAIN Sorted(S, ByPocUp) :
                j < k => ~ByPocUp(Sorted(S, ByPocUp)[k], Sorted(S, ByPocUp)[j])
<1> DEFINE key == [i \in S |-> fs[i].poc]
<1>1. IsFiniteSet(S) /\ \A i \in S : fs[i] \in StoreType
  BY PositionsFinite
<1>2. key \in [S -> Int]
  BY <1>1 DEF StoreType
<1>3. PICK s \in SetToSeqs(S) :
         \A j, k \in 1..Cardinality(S) : j < k => key[s[j]] <= key[s[k]]
  <2> HIDE DEF key
  <2> QED  BY <1>1, <1>2, SortedExists
<1>4. Lists(s, S) /\ DOMAIN s = 1..Cardinality(S)
  BY <1>1, Enumerated
<1>5. \A j, k \in DOMAIN s : j < k => ~ByPocUp(s[k], s[j])
  <2> SUFFICES ASSUME NEW j \in DOMAIN s, NEW k \in DOMAIN s, j < k
               PROVE  ~ByPocUp(s[k], s[j])
    OBVIOUS
  <2>1. s[j] \in S /\ s[k] \in S /\ key[s[j]] <= key[s[k]]
    BY <1>3, <1>4 DEF Lists, ToSet
  <2>2. key[s[j]] \in Int /\ key[s[k]] \in Int
    BY <1>2, <2>1
  <2> QED  BY <1>1, <2>1, <2>2 DEF ByPocUp, StoreType
<1>6. /\ Sorted(S, ByPocUp) \in SetToSeqs(S)
      /\ \A j, k \in DOMAIN Sorted(S, ByPocUp) :
           j < k => ~ByPocUp(Sorted(S, ByPocUp)[k], Sorted(S, ByPocUp)[j])
  BY <1>5 DEF Sorted
<1> QED  BY <1>1, <1>6, Enumerated

LEMMA EarlierSorted ==
    ASSUME IInv, NEW S \in SUBSET Positions
    PROVE  /\ Lists(Sorted(S, ByPocDown), S)
           /\ \A j, k \in DOMAIN Sorted(S, ByPocDown) :
                j < k => ~ByPocDown(Sorted(S, ByPocDown)[k], Sorted(S, ByPocDown)[j])
<1> DEFINE key == [i \in S |-> -fs[i].poc]
<1>1. IsFiniteSet(S) /\ \A i \in S : fs[i] \in StoreType
  BY PositionsFinite
<1>2. key \in [S -> Int]
  BY <1>1 DEF StoreType
<1>3. PICK s \in SetToSeqs(S) :
         \A j, k \in 1..Cardinality(S) : j < k => key[s[j]] <= key[s[k]]
  <2> HIDE DEF key
  <2> QED  BY <1>1, <1>2, SortedExists
<1>4. Lists(s, S) /\ DOMAIN s = 1..Cardinality(S)
  BY <1>1, Enumerated
<1>5. \A j, k \in DOMAIN s : j < k => ~ByPocDown(s[k], s[j])
  <2> SUFFICES ASSUME NEW j \in DOMAIN s, NEW k \in DOMAIN s, j < k
               PROVE  ~ByPocDown(s[k], s[j])
    OBVIOUS
  <2>1. s[j] \in S /\ s[k] \in S /\ key[s[j]] <= key[s[k]]
    BY <1>3, <1>4 DEF Lists, ToSet
  <2>2. key[s[j]] \in Int /\ key[s[k]] \in Int
    BY <1>2, <2>1
  <2> QED  BY <1>1, <2>1, <2>2 DEF ByPocDown, StoreType
<1>6. /\ Sorted(S, ByPocDown) \in SetToSeqs(S)
      /\ \A j, k \in DOMAIN Sorted(S, ByPocDown) :
           j < k => ~ByPocDown(Sorted(S, ByPocDown)[k], Sorted(S, ByPocDown)[j])
  BY <1>5 DEF Sorted
<1> QED  BY <1>1, <1>6, Enumerated

-----------------------------------------------------------------------------
(* What a list names                                                       *)

LEMMA ConcatLists ==
    ASSUME NEW A, NEW B, NEW a, NEW b, Lists(a, A), Lists(b, B), A \cap B = {}
    PROVE  Lists(a \o b, A \cup B)
<1>1. /\ a \in Seq(A) /\ b \in Seq(B) /\ Len(a) \in Nat /\ Len(b) \in Nat
      /\ DOMAIN a = 1..Len(a) /\ DOMAIN b = 1..Len(b)
  BY DEF Lists
<1>2. a \o b \in Seq(A \cup B)
  <2>1. a \in Seq(A \cup B) /\ b \in Seq(A \cup B)
    BY <1>1
  <2> QED  BY <2>1
<1>3. /\ DOMAIN (a \o b) = 1..(Len(a) + Len(b))
      /\ \A k \in 1..(Len(a) + Len(b)) :
           (a \o b)[k] = IF k <= Len(a) THEN a[k] ELSE b[k - Len(a)]
  BY <1>1
<1> DEFINE c == a \o b
<1>4. \A k \in DOMAIN c : \/ k \in DOMAIN a /\ c[k] = a[k] /\ a[k] \in A
                          \/ k - Len(a) \in DOMAIN b /\ c[k] = b[k - Len(a)] /\ c[k] \in B
  BY <1>1, <1>3
<1>5. \A k \in DOMAIN a : k \in DOMAIN c /\ c[k] = a[k]
  BY <1>1, <1>3
<1>6. \A k \in DOMAIN b : k + Len(a) \in DOMAIN c /\ c[k + Len(a)] = b[k]
  BY <1>1, <1>3
<1>7. DOMAIN c \subseteq Nat
  BY <1>1, <1>3
<1> HIDE DEF c
<1>8. ToSet(c) = A \cup B
  <2>1. \A x \in A : \E k \in DOMAIN a : a[k] = x
    BY DEF Lists, ToSet
  <2>2. \A x \in B : \E k \in DOMAIN b : b[k] = x
    BY DEF Lists, ToSet
  <2> QED  BY <1>4, <1>5, <1>6, <2>1, <2>2 DEF ToSet
<1>9. IsInjectiveSeq(c)
  <2> SUFFICES ASSUME NEW j \in DOMAIN c, NEW k \in DOMAIN c, c[j] = c[k] PROVE j = k
    BY DEF IsInjectiveSeq
  <2>1. /\ \A x, y \in DOMAIN a : a[x] = a[y] => x = y
        /\ \A x, y \in DOMAIN b : b[x] = b[y] => x = y
    BY DEF Lists, IsInjectiveSeq
  <2>2. j \in Nat /\ k \in Nat
    BY <1>7
  <2>3. CASE c[j] \in A
    BY <1>4, <2>1, <2>3
  <2>4. CASE c[j] \notin A
    <3>1. j - Len(a) = k - Len(a)
      BY <1>4, <2>1, <2>4
    <3> QED  BY <1>1, <2>2, <3>1
  <2> QED  BY <2>3, <2>4
<1> QED  BY <1>2, <1>8, <1>9 DEF Lists, c

LEMMA FramesListed ==
    ASSUME NEW A, NEW list, Lists(list, A)
    PROVE  /\ Lists(AsFrames(list), {<<i, "frame">> : i \in A})
           /\ Len(AsFrames(list)) = Len(list)
           /\ \A k \in 1..Len(list) : AsFrames(list)[k] = <<list[k], "frame">> /\ list[k] \in A
<1>1. /\ list \in Seq(A) /\ Len(list) \in Nat /\ DOMAIN list = 1..Len(list)
      /\ \A k \in 1..Len(list) : list[k] \in A
  BY DEF Lists
<1>2. /\ AsFrames(list) \in Seq({<<i, "frame">> : i \in A}) /\ Len(AsFrames(list)) = Len(list)
      /\ \A k \in 1..Len(list) : AsFrames(list)[k] = <<list[k], "frame">>
      /\ DOMAIN AsFrames(list) = 1..Len(list)
  BY <1>1 DEF AsFrames
<1>3. ToSet(AsFrames(list)) = {<<i, "frame">> : i \in A}
  <2>1. \A x \in A : \E k \in 1..Len(list) : list[k] = x
    BY <1>1 DEF Lists, ToSet
  <2>2. ASSUME NEW x \in A PROVE <<x, "frame">> \in ToSet(AsFrames(list))
    <3>1. PICK k \in 1..Len(list) : list[k] = x
      BY <2>1
    <3>2. AsFrames(list)[k] = <<x, "frame">> /\ k \in DOMAIN AsFrames(list)
      BY <1>2, <3>1
    <3> QED  BY <3>2 DEF ToSet
  <2>3. ASSUME NEW e \in ToSet(AsFrames(list)) PROVE \E i \in A : e = <<i, "frame">>
    BY <1>1, <1>2 DEF ToSet
  <2> QED  BY <2>2, <2>3
<1>4. IsInjectiveSeq(AsFrames(list))
  BY <1>1, <1>2 DEF Lists, IsInjectiveSeq
<1> QED  BY <1>1, <1>2, <1>3, <1>4 DEF Lists

LEMMA SwappedListed ==
    ASSUME NEW A, NEW list, Lists(list, A), Len(list) > 1
    PROVE  Lists(FirstTwoSwapped(list), A)
<1> DEFINE swap == FirstTwoSwapped(list)
           At(k) == IF k = 1 THEN 2 ELSE IF k = 2 THEN 1 ELSE k
<1>1. /\ list \in Seq(A) /\ Len(list) \in Nat /\ DOMAIN list = 1..Len(list)
      /\ \A k \in 1..Len(list) : list[k] \in A
      /\ 1 \in 1..Len(list) /\ 2 \in 1..Len(list)
  BY DEF Lists
<1>2. /\ DOMAIN swap = 1..Len(list)
      /\ \A k \in 1..Len(list) : swap[k] = list[At(k)] /\ At(k) \in 1..Len(list)
  BY <1>1 DEF FirstTwoSwapped
<1>3. swap \in Seq(A) /\ Len(swap) = Len(list)
  BY <1>1 DEF FirstTwoSwapped
<1>4. \A k \in 1..Len(list) : At(At(k)) = k
  BY <1>1
<1> HIDE DEF swap, At
<1>5. ToSet(swap) = A
  <2>1. \A x \in A : \E k \in 1..Len(list) : list[k] = x
    BY <1>1 DEF Lists, ToSet
  <2>2. ASSUME NEW x \in A PROVE x \in ToSet(swap)
    <3>1. PICK k \in 1..Len(list) : list[k] = x
      BY <2>1
    <3>2. At(k) \in DOMAIN swap /\ swap[At(k)] = x
      BY <1>2, <1>4, <3>1
    <3> QED  BY <3>2 DEF ToSet
  <2>3. ASSUME NEW x \in ToSet(swap) PROVE x \in A
    BY <1>1, <1>2 DEF ToSet
  <2> QED  BY <2>2, <2>3
<1>6. IsInjectiveSeq(swap)
  <2>1. \A j, k \in 1..Len(list) : list[j] = list[k] => j = k
    BY <1>1 DEF Lists, IsInjectiveSeq
  <2> QED  BY <1>2, <1>4, <2>1 DEF IsInjectiveSeq
<1> QED  BY <1>3, <1>5, <1>6 DEF Lists, swap

-----------------------------------------------------------------------------
(* The lists of a slice                                                    *)

LEMMA SliceFacts ==
    ASSUME IInv, FrameInv, SliceInv, SliceBegins
    PROVE  /\ cur.structure = "frame" /\ marked[5] = 0
           /\ pc = "placing" \/ (pc = "marking" /\ cur.ref)
           /\ FrameShortTerm = Shorts(fs) /\ FrameLongTerm = Longs(fs)
           /\ Shorts(fs) \in SUBSET Positions /\ Longs(fs) \in SUBSET Positions
           /\ Shorts(fs) \cap Longs(fs) = {}
           /\ UsableReferences = {<<i, "frame">> : i \in Shorts(fs) \cup Longs(fs)}
           /\ \A i \in Shorts(fs) : ~IsLongTermEntry(<<i, "frame">>)
           /\ \A i \in Longs(fs) : IsLongTermEntry(<<i, "frame">>)
<1>1. /\ pc = FirstStep(cur) /\ marked = NoMarks /\ ~cur.idr /\ cur.exists
  BY DEF SliceBegins
<1>2. /\ pc = "placing" \/ (pc = "marking" /\ cur.ref)
      /\ marked[5] = 0
  BY <1>1 DEF FirstStep, NoMarks
<1>3. cur.structure = "frame"
  BY <1>1 DEF FrameInv, ShapeOK, NoPicture
<1>4. shortRefs = Shorts(fs) /\ longRefs = Longs(fs)
  BY <1>1, <1>2 DEF SliceInv, SameListsOK, FlushPhases
<1>5. /\ Shorts(fs) \in SUBSET Positions /\ Longs(fs) \in SUBSET Positions
      /\ Shorts(fs) \cap Longs(fs) = {}
  BY DEF Shorts, Longs, Positions
<1>6. ASSUME NEW i \in Positions
      PROVE  /\ fs[i].ref = Parities <=> i \in Shorts(fs) \cup Longs(fs)
             /\ i \in Shorts(fs) => "frame" \in fs[i].refPics \ fs[i].ltPics
             /\ i \in Longs(fs) => "frame" \in fs[i].refPics \cap fs[i].ltPics
  <2>1. GoodStore(fs[i]) /\ FrameStore(fs[i]) /\ Parities # {}
    BY FrameStores DEF Positions, Parities
  <2>2. /\ "frame" \in fs[i].refPics <=> fs[i].ref = Parities
        /\ "frame" \in fs[i].refPics => ("frame" \in fs[i].ltPics <=> Parities \subseteq fs[i].lt)
    BY <2>1 DEF GoodStore, StoreMarksAgree
  <2>3. /\ i \in Shorts(fs) <=> fs[i].ref = Parities /\ fs[i].lt = {}
        /\ i \in Longs(fs) <=> fs[i].ref = Parities /\ fs[i].lt = Parities
    BY <2>1 DEF FrameStore, Shorts, Longs, Positions
  <2> QED  BY <2>1, <2>2, <2>3 DEF FrameStore
<1>7. FrameShortTerm = Shorts(fs) /\ FrameLongTerm = Longs(fs)
  BY <1>4, <1>5, <1>6 DEF FrameShortTerm, FrameLongTerm
<1>8. {j \in Positions : fs[j].ref = Parities} = Shorts(fs) \cup Longs(fs)
  BY <1>5, <1>6
<1>9. UsableReferences = {<<i, "frame">> : i \in Shorts(fs) \cup Longs(fs)}
  BY <1>3, <1>8 DEF UsableReferences
<1>10. /\ \A i \in Shorts(fs) : ~IsLongTermEntry(<<i, "frame">>)
       /\ \A i \in Longs(fs) : IsLongTermEntry(<<i, "frame">>)
  BY <1>5, <1>6 DEF IsLongTermEntry, IsLongRef
<1> QED  BY <1>2, <1>3, <1>5, <1>7, <1>9, <1>10

(* A list is an order of the short-term references and then the long-term ones. *)
LEMMA FrameList ==
    ASSUME IInv, FrameInv, SliceInv, SliceBegins, NEW order, Lists(order, Shorts(fs))
    PROVE  LET list == ShortTermList(order) \o LongTermPart
           IN  /\ Lists(list, UsableReferences)
               /\ \A j, k \in DOMAIN list :
                    j < k /\ AreAlike(list[j], list[k]) =>
                      /\ j \in DOMAIN order /\ list[j] = <<order[j], "frame">>
                      /\ k \in DOMAIN order /\ list[k] = <<order[k], "frame">>
<1> DEFINE longs == Sorted(Longs(fs), ByLongTermIdx)
           short == AsFrames(order)
           long == AsFrames(longs)
           list == short \o long
<1>1. ShortTermList(order) \o LongTermPart = list
  BY SliceFacts DEF ShortTermList, LongTermPart
<1>2. Lists(longs, Longs(fs))
  BY SliceFacts, IndicesSorted
<1> HIDE DEF longs
<1>3. /\ Lists(short, {<<i, "frame">> : i \in Shorts(fs)}) /\ Len(short) = Len(order)
      /\ Lists(long, {<<i, "frame">> : i \in Longs(fs)}) /\ Len(long) = Len(longs)
      /\ \A k \in 1..Len(order) : short[k] = <<order[k], "frame">>
      /\ \A k \in 1..Len(longs) : long[k] = <<longs[k], "frame">> /\ longs[k] \in Longs(fs)
  BY <1>2, FramesListed
<1>4. /\ short \in Seq({<<i, "frame">> : i \in Shorts(fs)})
      /\ long \in Seq({<<i, "frame">> : i \in Longs(fs)})
      /\ Len(order) \in Nat /\ Len(longs) \in Nat /\ DOMAIN order = 1..Len(order)
  BY <1>2, <1>3 DEF Lists
<1> HIDE DEF short, long
<1>5. Lists(list, UsableReferences)
  <2>1. {<<i, "frame">> : i \in Shorts(fs)} \cap {<<i, "frame">> : i \in Longs(fs)} = {}
    BY SliceFacts
  <2>2. Lists(list, {<<i, "frame">> : i \in Shorts(fs)} \cup {<<i, "frame">> : i \in Longs(fs)})
    BY <1>3, <2>1, ConcatLists
  <2>3. UsableReferences =
          {<<i, "frame">> : i \in Shorts(fs)} \cup {<<i, "frame">> : i \in Longs(fs)}
    <3>1. UsableReferences = {<<i, "frame">> : i \in Shorts(fs) \cup Longs(fs)}
      BY SliceFacts
    <3> QED  BY <3>1
  <2> QED  BY <2>2, <2>3
<1>6. ASSUME NEW k \in DOMAIN list
      PROVE  \/ k \in 1..Len(order) /\ list[k] = <<order[k], "frame">>
             \/ k > Len(order) /\ IsLongTermEntry(list[k])
  <2>1. /\ k \in 1..(Len(order) + Len(longs))
        /\ list[k] = IF k <= Len(order) THEN short[k] ELSE long[k - Len(order)]
    BY <1>3, <1>4
  <2>2. CASE k <= Len(order)
    BY <1>3, <1>4, <2>1, <2>2
  <2>3. CASE k > Len(order)
    <3>1. k - Len(order) \in 1..Len(longs) /\ list[k] = long[k - Len(order)]
      BY <1>4, <2>1, <2>3
    <3>2. PICK i \in Longs(fs) : list[k] = <<i, "frame">>
      BY <1>3, <3>1
    <3> QED  BY <2>3, <3>2, SliceFacts
  <2> QED  BY <1>4, <2>1, <2>2, <2>3
<1> HIDE DEF list
<1>7. \A j, k \in DOMAIN list :
        j < k /\ AreAlike(list[j], list[k]) =>
          /\ j \in DOMAIN order /\ list[j] = <<order[j], "frame">>
          /\ k \in DOMAIN order /\ list[k] = <<order[k], "frame">>
  BY <1>4, <1>6 DEF AreAlike
<1> QED  BY <1>1, <1>5, <1>7

LEMMA NumberOrder ==
    ASSUME IInv, FrameInv, SliceInv, SliceBegins
    PROVE  LET order == Sorted(Shorts(fs), ByFrameNumWrap)
           IN  /\ ListP = ShortTermList(order) \o LongTermPart
               /\ Lists(order, Shorts(fs))
               /\ \A j, k \in DOMAIN order : j < k => ~ByFrameNumWrap(order[k], order[j])
BY SliceFacts, NumbersSorted DEF ListP

Earlier == {i \in Shorts(fs) : IsEarlier(i)}
Later == {i \in Shorts(fs) : ~IsEarlier(i)}
EarlierFirst == Sorted(Earlier, ByPocDown) \o Sorted(Later, ByPocUp)
LaterFirst == Sorted(Later, ByPocUp) \o Sorted(Earlier, ByPocDown)

LEMMA PocOrder ==
    ASSUME IInv, FrameInv, SliceInv, SliceBegins
    PROVE  /\ ListsB[1] = ShortTermList(EarlierFirst) \o LongTermPart
           /\ LET list1 == ShortTermList(LaterFirst) \o LongTermPart
              IN  ListsB[2] = IF ListsB[1] = list1 /\ Len(list1) > 1 THEN FirstTwoSwapped(list1)
                                                                    ELSE list1
           /\ Lists(EarlierFirst, Shorts(fs)) /\ Lists(LaterFirst, Shorts(fs))
<1>1. /\ Earlier \in SUBSET Positions /\ Later \in SUBSET Positions
      /\ Earlier \cup Later = Shorts(fs) /\ Earlier \cap Later = {}
  BY SliceFacts DEF Earlier, Later
<1>2. Lists(Sorted(Earlier, ByPocDown), Earlier) /\ Lists(Sorted(Later, ByPocUp), Later)
  BY <1>1, EarlierSorted, LaterSorted
<1>3. Lists(EarlierFirst, Shorts(fs)) /\ Lists(LaterFirst, Shorts(fs))
  <2>1. Later \cup Earlier = Shorts(fs) /\ Later \cap Earlier = {}
    BY <1>1
  <2> HIDE DEF Earlier, Later
  <2>2. Lists(EarlierFirst, Earlier \cup Later)
    BY <1>1, <1>2, ConcatLists DEF EarlierFirst
  <2>3. Lists(LaterFirst, Later \cup Earlier)
    BY <1>2, <2>1, ConcatLists DEF LaterFirst
  <2> QED  BY <1>1, <2>1, <2>2, <2>3
<1> QED  BY <1>3, SliceFacts DEF ListsB, EarlierFirst, LaterFirst, Earlier, Later

(* For every stream of frames: no list misses a reference or names one twice,  *)
(* though fs_ref and fs_ltref are kept up to date by hand in every operation on *)
(* the buffer and init_lists_b_slice swaps entries of list 1.                 *)
THEOREM EveryReferenceAlwaysListed == OnlyFrames => (Spec => []EveryReferenceIsListed)
<1> SUFFICES ASSUME OnlyFrames PROVE Spec => []EveryReferenceIsListed
  OBVIOUS
<1>1. IInv /\ FrameInv /\ SliceInv => EveryReferenceIsListed
  <2> SUFFICES ASSUME IInv, FrameInv, SliceInv, SliceBegins,
                      NEW list \in {ListP, ListsB[1], ListsB[2]}
               PROVE  Lists(list, UsableReferences)
    BY DEF EveryReferenceIsListed, Lists
  <2>1. Lists(ListP, UsableReferences)
    BY NumberOrder, FrameList
  <2>2. Lists(ListsB[1], UsableReferences)
    BY PocOrder, FrameList
  <2>3. Lists(ListsB[2], UsableReferences)
    <3> DEFINE list1 == ShortTermList(LaterFirst) \o LongTermPart
    <3>1. Lists(list1, UsableReferences)
      BY PocOrder, FrameList
    <3>2. ListsB[2] = list1 \/ (Len(list1) > 1 /\ ListsB[2] = FirstTwoSwapped(list1))
      BY PocOrder
    <3> HIDE DEF list1
    <3> QED  BY <3>1, <3>2, SwappedListed
  <2> QED  BY <2>1, <2>2, <2>3
<1> QED  BY <1>1, SliceInvariance, PTL

-----------------------------------------------------------------------------
(* The order of a P slice                                                  *)

LEMMA AgesAdd ==
    ASSUME NEW a \in 0..(MaxFrameNum - 1), NEW b \in 0..(MaxFrameNum - 1),
           NEW n \in 0..(MaxFrameNum - 1), Age(b, n) + Age(a, b) < MaxFrameNum
    PROVE  Age(a, n) = Age(b, n) + Age(a, b)
<1>1. /\ Age(a, b) = (IF b <= a THEN a - b ELSE a - b + MaxFrameNum)
      /\ Age(b, n) = (IF n <= b THEN b - n ELSE b - n + MaxFrameNum)
      /\ Age(a, n) = (IF n <= a THEN a - n ELSE a - n + MaxFrameNum)
  BY AgeIs
<1>2. MaxFrameNum \in Nat \ {0}
  BY DpbAssumption
<1> HIDE DEF Age
<1> QED  BY <1>1, <1>2

(* FrameNumWrap counts back from the current picture, and so does the order  *)
(* of the stores.                                                          *)
LEMMA WrapOrder ==
    ASSUME IInv, FrameInv, SliceInv, SliceBegins,
           NEW i \in Shorts(fs), NEW j \in Shorts(fs), i < j
    PROVE  FrameNumWrap(fs[i]) < FrameNumWrap(fs[j])
<1> DEFINE c == cur.frameNum
           a == fs[i].frameNum
           b == fs[j].frameNum
<1>1. /\ c \in 0..(MaxFrameNum - 1) /\ preFrameNum \in 0..(MaxFrameNum - 1)
      /\ a \in 0..(MaxFrameNum - 1) /\ b \in 0..(MaxFrameNum - 1)
      /\ MaxFrameNum \in Nat \ {0}
  BY ShortNumbers, DpbAssumption DEF IInv, ControlOK, PictureType
<1>2. Age(preFrameNum, b) < Age(preFrameNum, a)
  BY SliceFacts DEF FrameInv, OrderOK, Ordered
<1>3. Age(c, b) < Age(c, a)
  <2>1. CASE cur.ref
    <3>1. preFrameNum = c
      BY <2>1, SliceFacts DEF FrameInv, OrderOK
    <3> QED  BY <1>2, <3>1
  <2>2. CASE ~cur.ref
    <3>1. /\ Age(preFrameNum, a) + Age(c, preFrameNum) < MaxFrameNum
          /\ Age(preFrameNum, b) + Age(c, preFrameNum) < MaxFrameNum
      BY <2>2, SliceFacts DEF SliceInv, AgeOK, Clear
    <3>2. /\ Age(c, a) = Age(preFrameNum, a) + Age(c, preFrameNum)
          /\ Age(c, b) = Age(preFrameNum, b) + Age(c, preFrameNum)
      BY <1>1, <3>1, AgesAdd
    <3>3. /\ Age(preFrameNum, a) \in Int /\ Age(preFrameNum, b) \in Int
          /\ Age(c, preFrameNum) \in Int
      BY <1>1, AgeIs
    <3> QED  BY <1>2, <3>2, <3>3
  <2> QED  BY <2>1, <2>2
<1>4. /\ FrameNumWrap(fs[i]) = (IF a > c THEN a - MaxFrameNum ELSE a)
      /\ FrameNumWrap(fs[j]) = (IF b > c THEN b - MaxFrameNum ELSE b)
  BY DEF FrameNumWrap
<1> HIDE DEF a, b, c
<1>5. /\ Age(c, a) = (IF a <= c THEN c - a ELSE c - a + MaxFrameNum)
      /\ Age(c, b) = (IF b <= c THEN c - b ELSE c - b + MaxFrameNum)
  BY <1>1, AgeIs
<1> QED  BY <1>1, <1>3, <1>4, <1>5

(* For every stream of frames, wherever frame_num wraps, whatever gaps were   *)
(* filled and whether the slice is of a reference picture or not: sorting by   *)
(* FrameNumWrap puts the latest decoded reference first.                      *)
THEOREM LatestAlwaysFirst == OnlyFrames => (Spec => []LatestFirst)
<1> SUFFICES ASSUME OnlyFrames PROVE Spec => []LatestFirst
  OBVIOUS
<1>1. IInv /\ FrameInv /\ SliceInv => LatestFirst
  <2> SUFFICES ASSUME IInv, FrameInv, SliceInv, SliceBegins,
                      NEW j \in DOMAIN ListP, NEW k \in DOMAIN ListP,
                      j < k, AreAlike(ListP[j], ListP[k])
               PROVE  ListP[j][1] > ListP[k][1]
    BY DEF LatestFirst
  <2> DEFINE order == Sorted(Shorts(fs), ByFrameNumWrap)
  <2>1. /\ Lists(order, Shorts(fs))
        /\ \A x, y \in DOMAIN order : x < y => ~ByFrameNumWrap(order[y], order[x])
    BY NumberOrder
  <2>2. /\ j \in DOMAIN order /\ ListP[j] = <<order[j], "frame">>
        /\ k \in DOMAIN order /\ ListP[k] = <<order[k], "frame">>
    BY NumberOrder, FrameList
  <2> HIDE DEF order
  <2>3. /\ order[j] \in Shorts(fs) /\ order[k] \in Shorts(fs) /\ order[j] # order[k]
        /\ j \in Nat /\ k \in Nat
    BY <2>1, <2>2 DEF Lists, ToSet, IsInjectiveSeq
  <2>4. /\ order[j] \in Int /\ order[k] \in Int
        /\ fs[order[j]] \in StoreType /\ fs[order[k]] \in StoreType
    <3>1. order[j] \in Shorts(fs) /\ order[k] \in Shorts(fs)
      BY <2>3
    <3> HIDE DEF order
    <3>2. \A i \in Shorts(fs) : i \in Int /\ fs[i] \in StoreType
      <4>1. Shorts(fs) \in SUBSET Positions
        BY SliceFacts
      <4>2. \A i \in Shorts(fs) : fs[i] \in StoreType
        BY <4>1, PositionsFinite
      <4>3. \A i \in Shorts(fs) : i \in Int
        BY <4>1 DEF Positions
      <4> QED  BY <4>2, <4>3
    <3> QED  BY <3>1, <3>2
  <2>5. ~(order[j] < order[k])
    <3> SUFFICES ASSUME order[j] < order[k] PROVE FALSE
      OBVIOUS
    <3>1. FrameNumWrap(fs[order[j]]) < FrameNumWrap(fs[order[k]])
      BY <2>3, WrapOrder
    <3>2. ~ByFrameNumWrap(order[k], order[j])
      BY <2>1, <2>2
    <3> QED  BY <2>4, <3>1, <3>2, WrapIsInteger DEF ByFrameNumWrap
  <2> QED  BY <2>2, <2>3, <2>4, <2>5
<1> QED  BY <1>1, SliceInvariance, PTL

-----------------------------------------------------------------------------
(* The order of a B slice                                                  *)

\* A frame of one POC stands on one side of the current picture.
LEMMA Sides ==
    ASSUME IInv, FrameInv, SliceInv, SliceBegins, NEW i \in Shorts(fs)
    PROVE  /\ OnSide(i, TRUE) <=> IsEarlier(i)
           /\ OnSide(i, FALSE) <=> ~IsEarlier(i)
           /\ Distance(i) = IF IsEarlier(i) THEN cur.poc - fs[i].poc ELSE fs[i].poc - cur.poc
           /\ fs[i].poc \in Nat /\ cur.poc \in Nat
<1>1. i \in 1..Len(fs)
  BY SliceFacts DEF Positions
<1>2. fs[i].poc \in Nat /\ cur.poc \in Nat
  BY <1>1, FrameStores DEF GoodStore, StoreType, IInv, ControlOK, PictureType
<1>3. fs[i].firstPoc = fs[i].poc
  BY <1>1 DEF SliceInv, ClearedOK
<1>4. (fs[i].firstPoc <= cur.poc) <=> IsEarlier(i)
  BY <1>3 DEF IsEarlier
<1>5. Distance(i) = IF IsEarlier(i) THEN cur.poc - fs[i].poc ELSE fs[i].poc - cur.poc
  BY <1>2, <1>3 DEF IsEarlier, Distance
<1> QED  BY <1>2, <1>4, <1>5 DEF OnSide

LEMMA NearestList ==
    ASSUME IInv, FrameInv, SliceInv, SliceBegins, NEW before \in BOOLEAN,
           NEW A, NEW B, NEW near, NEW far, Lists(near, A), Lists(far, B),
           Lists(near \o far, Shorts(fs)),
           \A i \in A : OnSide(i, before), \A i \in B : ~OnSide(i, before),
           \A j, k \in DOMAIN near : j < k => Distance(near[j]) <= Distance(near[k]),
           \A j, k \in DOMAIN far : j < k => Distance(far[j]) <= Distance(far[k])
    PROVE  IsNearestFirst(ShortTermList(near \o far) \o LongTermPart, before)
<1> DEFINE order == near \o far
           list == ShortTermList(order) \o LongTermPart
<1> SUFFICES ASSUME NEW j \in DOMAIN list, NEW k \in DOMAIN list, j < k,
                    AreAlike(list[j], list[k])
             PROVE  IF OnSide(list[j][1], before) = OnSide(list[k][1], before)
                      THEN Distance(list[j][1]) <= Distance(list[k][1])
                      ELSE OnSide(list[j][1], before)
  BY DEF IsNearestFirst
<1>1. /\ j \in DOMAIN order /\ list[j][1] = order[j]
      /\ k \in DOMAIN order /\ list[k][1] = order[k]
  <2>1. Lists(order, Shorts(fs))
    OBVIOUS
  <2> HIDE DEF order
  <2>2. /\ j \in DOMAIN order /\ list[j] = <<order[j], "frame">>
        /\ k \in DOMAIN order /\ list[k] = <<order[k], "frame">>
    BY <2>1, FrameList
  <2> HIDE DEF list
  <2> QED  BY <2>2
<1>2. /\ near \in Seq(A) /\ far \in Seq(B) /\ Len(near) \in Nat /\ Len(far) \in Nat
      /\ DOMAIN near = 1..Len(near) /\ DOMAIN far = 1..Len(far)
  BY DEF Lists
<1> HIDE DEF list
<1>3. /\ DOMAIN order = 1..(Len(near) + Len(far))
      /\ \A x \in 1..(Len(near) + Len(far)) :
           order[x] = IF x <= Len(near) THEN near[x] ELSE far[x - Len(near)]
  BY <1>2
<1> HIDE DEF order
<1>4. CASE k <= Len(near)
  <2>1. j \in DOMAIN near /\ k \in DOMAIN near /\ order[j] = near[j] /\ order[k] = near[k]
    BY <1>1, <1>2, <1>3, <1>4
  <2>2. Distance(order[j]) <= Distance(order[k])
    BY <2>1
  <2>3. OnSide(order[j], before) /\ OnSide(order[k], before)
    BY <1>2, <2>1
  <2> QED  BY <1>1, <2>2, <2>3
<1>5. CASE j > Len(near)
  <2>1. /\ j - Len(near) \in DOMAIN far /\ k - Len(near) \in DOMAIN far
        /\ order[j] = far[j - Len(near)] /\ order[k] = far[k - Len(near)]
        /\ j - Len(near) < k - Len(near)
    BY <1>1, <1>2, <1>3, <1>5
  <2>2. Distance(order[j]) <= Distance(order[k])
    BY <2>1
  <2>3. ~OnSide(order[j], before) /\ ~OnSide(order[k], before)
    BY <1>2, <2>1
  <2>4. OnSide(order[j], before) = OnSide(order[k], before)
    BY <2>3 DEF OnSide
  <2> QED  BY <1>1, <2>2, <2>4
<1>6. CASE j <= Len(near) /\ k > Len(near)
  <2>1. j \in DOMAIN near /\ order[j] = near[j]
    BY <1>1, <1>2, <1>3, <1>6
  <2>2. k - Len(near) \in DOMAIN far /\ order[k] = far[k - Len(near)]
    BY <1>1, <1>2, <1>3, <1>6
  <2>3. OnSide(order[j], before) /\ ~OnSide(order[k], before)
    BY <1>2, <2>1, <2>2
  <2> QED  BY <1>1, <2>3
<1>7. j \in Nat /\ k \in Nat
  BY <1>1, <1>2, <1>3
<1> QED  BY <1>2, <1>4, <1>5, <1>6, <1>7

(* For every stream of frames: the two sorted halves of a list go away from  *)
(* the current picture, those on the side of the list first, and list 1 is    *)
(* out of that order only where init_lists_b_slice swapped its first two      *)
(* entries.                                                                *)
THEOREM NearestAlwaysFirst == OnlyFrames => (Spec => []NearestFirst)
<1> SUFFICES ASSUME OnlyFrames PROVE Spec => []NearestFirst
  OBVIOUS
<1>1. IInv /\ FrameInv /\ SliceInv => NearestFirst
  <2> SUFFICES ASSUME IInv, FrameInv, SliceInv, SliceBegins
               PROVE  /\ IsNearestFirst(ListsB[1], TRUE)
                      /\ \/ IsNearestFirst(ListsB[2], FALSE)
                         \/ Len(ListsB[1]) > 1 /\ ListsB[2] = FirstTwoSwapped(ListsB[1])
    BY DEF NearestFirst
  <2> DEFINE down == Sorted(Earlier, ByPocDown)
             up == Sorted(Later, ByPocUp)
  <2>1. /\ Earlier \in SUBSET Positions /\ Later \in SUBSET Positions
        /\ \A i \in Earlier : i \in Shorts(fs) /\ IsEarlier(i)
        /\ \A i \in Later : i \in Shorts(fs) /\ ~IsEarlier(i)
    BY SliceFacts DEF Earlier, Later
  <2>2. /\ Lists(down, Earlier) /\ Lists(up, Later)
        /\ \A j, k \in DOMAIN down : j < k => ~ByPocDown(down[k], down[j])
        /\ \A j, k \in DOMAIN up : j < k => ~ByPocUp(up[k], up[j])
    BY <2>1, EarlierSorted, LaterSorted
  <2>3. /\ Lists(down \o up, Shorts(fs)) /\ Lists(up \o down, Shorts(fs))
    BY PocOrder DEF EarlierFirst, LaterFirst
  <2> HIDE DEF down, up
  <2>4. /\ \A k \in DOMAIN down : down[k] \in Earlier
        /\ \A k \in DOMAIN up : up[k] \in Later
    BY <2>2 DEF Lists, ToSet
  <2>5. /\ \A i \in Earlier : OnSide(i, TRUE) /\ ~OnSide(i, FALSE)
        /\ \A i \in Later : OnSide(i, FALSE) /\ ~OnSide(i, TRUE)
    BY <2>1, Sides
  <2>6. ASSUME NEW j \in DOMAIN down, NEW k \in DOMAIN down, j < k
        PROVE  Distance(down[j]) <= Distance(down[k])
    <3>1. ~(fs[down[k]].poc > fs[down[j]].poc)
      BY <2>2, <2>6 DEF ByPocDown
    <3>2. /\ down[j] \in Shorts(fs) /\ IsEarlier(down[j])
          /\ down[k] \in Shorts(fs) /\ IsEarlier(down[k])
      BY <2>1, <2>4
    <3>3. /\ Distance(down[j]) = cur.poc - fs[down[j]].poc /\ fs[down[j]].poc \in Nat
          /\ Distance(down[k]) = cur.poc - fs[down[k]].poc /\ fs[down[k]].poc \in Nat
          /\ cur.poc \in Nat
      BY <3>2, Sides
    <3> QED  BY <3>1, <3>3
  <2>7. ASSUME NEW j \in DOMAIN up, NEW k \in DOMAIN up, j < k
        PROVE  Distance(up[j]) <= Distance(up[k])
    <3>1. ~(fs[up[k]].poc < fs[up[j]].poc)
      BY <2>2, <2>7 DEF ByPocUp
    <3>2. /\ up[j] \in Shorts(fs) /\ ~IsEarlier(up[j])
          /\ up[k] \in Shorts(fs) /\ ~IsEarlier(up[k])
      BY <2>1, <2>4
    <3>3. /\ Distance(up[j]) = fs[up[j]].poc - cur.poc /\ fs[up[j]].poc \in Nat
          /\ Distance(up[k]) = fs[up[k]].poc - cur.poc /\ fs[up[k]].poc \in Nat
          /\ cur.poc \in Nat
      BY <3>2, Sides
    <3> QED  BY <3>1, <3>3
  <2>8. IsNearestFirst(ShortTermList(down \o up) \o LongTermPart, TRUE)
    BY <2>2, <2>3, <2>5, <2>6, <2>7, NearestList
  <2>9. IsNearestFirst(ShortTermList(up \o down) \o LongTermPart, FALSE)
    BY <2>2, <2>3, <2>5, <2>6, <2>7, NearestList
  <2>10. /\ ListsB[1] = ShortTermList(down \o up) \o LongTermPart
         /\ \/ ListsB[2] = ShortTermList(up \o down) \o LongTermPart
            \/ Len(ListsB[1]) > 1 /\ ListsB[2] = FirstTwoSwapped(ListsB[1])
    BY PocOrder DEF EarlierFirst, LaterFirst, down, up
  <2> QED  BY <2>8, <2>9, <2>10
<1> QED  BY <1>1, SliceInvariance, PTL

=============================================================================
