------------------------ MODULE DecodedPictureBuffer ------------------------
(***************************************************************************)
(* The decoded picture buffer of the JM reference decoder                  *)
(* (src/H.264/ldecod/src/mbuffer.c with lcommon/src/mbuffer_common.c and   *)
(* the output side of ldecod/src/output.c): reference marking (sliding     *)
(* window and memory management control operations), storing a picture,    *)
(* pairing fields, and bumping pictures out in display order.              *)
(*                                                                         *)
(* The samples of a picture are left out; a picture is what the buffer     *)
(* tells apart.  The loops of the code are steps here: one removal or one  *)
(* output per step, so every intermediate buffer is a state.  The          *)
(* environment is a conforming stream: the operators named Legal...  say   *)
(* what the standard lets an encoder send; the code does not check them.   *)
(*                                                                         *)
(* Bounds: MaxPictures frames (or field pairs) a stream, MaxOperations     *)
(* control operations a picture, MaxGap frames missing in a row.           *)
(***************************************************************************)
EXTENDS Integers, Sequences, FiniteSets

CONSTANTS
    DpbSize,        \* frame stores: getDpbSize
    NumRefFrames,   \* num_ref_frames of the sequence parameter set
    MaxFrameNum,    \* frame_num is counted modulo this
    Structures,     \* the picture structures the stream uses
    Operations,     \* the memory management control operations it uses
    MaxOperations,
    MaxGap,
    StalePocs,      \* what a slice's framepoc may hold while a gap is filled
    LoneFields,     \* whether reference (TRUE), others (FALSE) come as lone fields
    ReorderDepth,   \* how many pictures may be sent before one shown earlier
    MaxPictures

Parities == {"top", "bottom"}
Views == Parities \cup {"frame"}

ASSUME DpbAssumption ==
    /\ DpbSize \in Nat \ {0}
    /\ NumRefFrames \in Nat
    /\ NumRefFrames <= DpbSize
    /\ MaxFrameNum \in Nat \ {0}
    /\ Structures \subseteq Views
    /\ Operations \subseteq 1..6
    /\ StalePocs \subseteq Nat /\ StalePocs # {}
    /\ LoneFields \subseteq BOOLEAN
    /\ {MaxOperations, MaxGap, ReorderDepth, MaxPictures} \subseteq Nat

VARIABLES
    fs,             \* the used frame stores, in decoding order
    shortRefs,      \* fs_ref: positions of the stores it points to
    longRefs,       \* fs_ltref
    lastPicture,    \* last_picture: position of an unpaired field's store, or 0
    maxLongTermPicIdx,
    lastOutputPoc,  \* last_output_poc, None for INT_MIN
    outBuffer,      \* fields handed to direct_output and not yet written
    preFrameNum,    \* frame_num of the previous reference picture
    pc,             \* where the decoder is in storing a picture
    cur,            \* the picture being stored
    upcoming,       \* the picture that waits while a gap is filled
    marked,         \* control operations the current picture has carried out
    sent,           \* POCs of the frames of this coded video sequence
    first,          \* a stored first field whose second field is to come
    pictures,       \* how many frames have been sent
    shown           \* POC of the frame last handed over for display, or None

dpb == <<fs, shortRefs, longRefs, lastPicture>>
output == <<lastOutputPoc, outBuffer, shown>>
stream == <<preFrameNum, upcoming, sent, first, pictures>>
vars == <<dpb, maxLongTermPicIdx, output, stream, pc, cur, marked>>

None == -1
FrameLimit == IF NumRefFrames > 1 THEN NumRefFrames ELSE 1
Opposite(parity) == IF parity = "top" THEN "bottom" ELSE "top"
Fields(structure) == IF structure = "frame" THEN Parities ELSE {structure}

NoPicture ==
    [structure |-> "none", ref |-> FALSE, idr |-> FALSE, adaptive |-> FALSE,
     exists |-> FALSE, frameNum |-> 0, poc |-> 0, long |-> FALSE, ltIdx |-> 0,
     longFlag |-> FALSE, noOutput |-> FALSE]

-----------------------------------------------------------------------------
(* Frame stores                                                            *)

\* unmark_for_reference: the long-term bits stay as they are.
UnmarkForReference(s) == [s EXCEPT !.ref = {}, !.refPics = {}]

\* unmark_for_long_term_reference.
UnmarkForLongTerm(s) ==
    [UnmarkForReference(s) EXCEPT !.lt = {}, !.ltPics = {}]

\* The views of a store a query looks at: the frame only if it is complete.
ViewsOf(s) == s.used \cup (IF s.used = Parities THEN {"frame"} ELSE {})

IsShortTermReference(s) == \E v \in ViewsOf(s) : v \in s.refPics \ s.ltPics
IsLongTermReference(s) == \E v \in ViewsOf(s) : v \in s.refPics \cap s.ltPics
IsUsedForReference(s) == s.ref # {} \/ ViewsOf(s) \cap s.refPics # {}

EmptyStore ==
    [used |-> {}, ref |-> {}, lt |-> {}, orig |-> FALSE, ltIdx |-> 0,
     frameNum |-> 0, poc |-> 0, firstPoc |-> 0, output |-> FALSE, refPics |-> {}, ltPics |-> {}]

\* Mutant: one field is enough.
CombinedFromEither(marks) ==
    IF marks \cap Parities # {} THEN marks \cup {"frame"} ELSE marks

\* The frame view a pair of fields is combined into carries a mark only if
\* both fields do.
Combined(marks) ==
    IF Parities \subseteq marks THEN Parities \cup {"frame"} ELSE marks \ {"frame"}

\* insert_picture_in_dpb: a frame is split into two field views, a second
\* field is combined with the first.
Insert(s, p) ==
    LET fields == Fields(p.structure)
        used == s.used \cup fields
        refPics == s.refPics \cup (IF p.ref THEN fields ELSE {})
        ltPics == s.ltPics \cup (IF p.long THEN fields ELSE {})
        whole == used = Parities
    IN  [used |-> used,
         ref |-> s.ref \cup (IF p.ref THEN fields ELSE {}),
         lt |-> s.lt \cup (IF p.ref /\ p.long THEN fields ELSE {}),
         orig |-> s.orig \/ p.ref,
         ltIdx |-> IF p.ref /\ p.long THEN p.ltIdx ELSE s.ltIdx,
         frameNum |-> p.frameNum,
         poc |-> IF s.used # {} /\ s.poc < p.poc THEN s.poc ELSE p.poc,
         firstPoc |-> IF s.used # {} THEN s.firstPoc ELSE p.poc,
         output |-> ~p.exists,
         refPics |-> IF whole THEN Combined(refPics) ELSE refPics,
         ltPics |-> IF whole THEN Combined(ltPics) ELSE ltPics]

\* write_stored_frame: an unpaired field is combined with an empty field, whose
\* POC is 0 and which is no reference.
Written(s) ==
    IF s.used = Parities
      THEN [s EXCEPT !.output = TRUE]
      ELSE [s EXCEPT !.output = TRUE, !.used = Parities,
                     !.poc = IF s.poc < 0 THEN s.poc ELSE 0]

-----------------------------------------------------------------------------
(* The buffer                                                              *)

\* update_ref_list and update_ltref_list.
ShortRefsOf(stores) == {i \in 1..Len(stores) : IsShortTermReference(stores[i])}
LongRefsOf(stores) == {i \in 1..Len(stores) : IsLongTermReference(stores[i])}

\* get_smallest_poc: the first store with the smallest POC of those not output,
\* 0 if all are.
Waiting == {i \in 1..Len(fs) : ~fs[i].output}
IsSmallestPoc(pos) ==
    /\ pos \in Waiting
    /\ \A i \in Waiting : fs[pos].poc < fs[i].poc
                            \/ (fs[pos].poc = fs[i].poc /\ pos <= i)

\* Mutant: the lists still point to where the stores were.
NotShifted(i, pos) == i

\* remove_frame_from_dpb: the lists keep pointing to the stores they pointed to.
\* The code leaves a pointer to the store removed, if there is one, until the next
\* update_ref_list; it leaves the lists here at once.  Removals come between the
\* last marking and that update; only Store's check for duplicates reads the list
\* there, and a legal picture has none of these frame_nums (LegalFrame).
Shifted(i, pos) == IF i > pos THEN i - 1 ELSE i
RemoveFrame(stores, pos) ==
    /\ fs' = [i \in 1..(Len(stores) - 1) |->
                IF i < pos THEN stores[i] ELSE stores[i + 1]]
    /\ shortRefs' = {Shifted(i, pos) : i \in shortRefs \ {pos}}
    /\ longRefs' = {Shifted(i, pos) : i \in longRefs \ {pos}}
    /\ lastPicture' = IF lastPicture = pos THEN 0 ELSE Shifted(lastPicture, pos)

IsUnused(pos) ==
    pos \in 1..Len(fs) /\ fs[pos].output /\ ~IsUsedForReference(fs[pos])

\* remove_unused_frame_from_dpb: the first unused store goes.
RemoveUnusedFrame ==
    \E pos \in 1..Len(fs) :
        /\ IsUnused(pos)
        /\ \A i \in 1..(pos - 1) : ~IsUnused(i)
        /\ RemoveFrame(fs, pos)

\* output_one_frame_from_dpb, write_stored_frame: fields that wait in the output
\* buffer go first; a store no longer needed for reference leaves the buffer.
\* "output POC must be in ascending order" ends the decoder.
OutputOneFrame(pos) ==
    LET s == Written(fs[pos])
        stores == [fs EXCEPT ![pos] = s]
    IN  /\ IsSmallestPoc(pos)
        /\ outBuffer' = {}
        /\ shown' = fs[pos].poc
        /\ IF lastOutputPoc >= fs[pos].poc
             THEN /\ pc' = "failed"
                  /\ fs' = stores
                  /\ UNCHANGED <<shortRefs, longRefs, lastPicture, lastOutputPoc>>
             ELSE /\ lastOutputPoc' = fs[pos].poc
                  /\ IF IsUsedForReference(s)
                       THEN fs' = stores
                            /\ UNCHANGED <<shortRefs, longRefs, lastPicture>>
                       ELSE RemoveFrame(stores, pos)
                  /\ UNCHANGED pc

\* check_num_ref.
TooManyReferences(short, long) == Cardinality(short) + Cardinality(long) > FrameLimit

-----------------------------------------------------------------------------
(* The stream: what a conforming encoder may send next                     *)

IsSecondField(p) == p.structure \in Parities /\ p.poc % 2 = 1
FrameNumAfter(n) == (preFrameNum + n) % MaxFrameNum
ShortTermFrameNums == {fs[i].frameNum : i \in shortRefs}

\* A frame is shown after at most ReorderDepth frames sent before it are: none
\* of these may be shown later than the frame.
LegalPoc(poc) ==
    /\ poc \notin sent
    /\ Cardinality({x \in sent : x > poc}) <= ReorderDepth

\* A frame or the first field of one, after a first field has its pair.  The
\* sliding window has a short-term frame to take.
LegalFrame(p) ==
    /\ first # NoPicture => first.ref \in LoneFields
    /\ p.ref \/ ~p.adaptive
    /\ p.adaptive => Operations # {}
    /\ p.noOutput => sent # {}
    /\ ~p.idr =>
         /\ sent # {} /\ LegalPoc(p.poc)
         /\ (p.ref /\ ~p.adaptive) \/ p.frameNum # FrameNumAfter(1) =>
               Cardinality(longRefs) < FrameLimit
         /\ \E gap \in 0..MaxGap :
              /\ p.frameNum = FrameNumAfter(1 + gap)
              /\ \A n \in 1..(1 + gap) : FrameNumAfter(n) \notin ShortTermFrameNums

LegalSecondField(p) ==
    /\ first # NoPicture
    /\ p.structure = Opposite(first.structure)
    /\ p.frameNum = first.frameNum /\ p.poc = first.poc + 1 /\ p.ref = first.ref
    /\ p.ref \/ ~p.adaptive
    /\ p.adaptive => Operations # {}
    /\ first.long => p.adaptive /\ 6 \in Operations

IdrPicture(structure, longFlag, noOutput) ==
    [NoPicture EXCEPT !.structure = structure, !.ref = TRUE, !.idr = TRUE,
                      !.exists = TRUE, !.longFlag = longFlag, !.noOutput = noOutput]

OtherPicture(structure, ref, adaptive, frameNum, poc) ==
    [NoPicture EXCEPT !.structure = structure, !.ref = ref, !.adaptive = adaptive,
                      !.exists = TRUE, !.frameNum = frameNum, !.poc = poc]

Legal(p) ==
    IF IsSecondField(p) THEN LegalSecondField(p) ELSE p.poc % 2 = 0 /\ LegalFrame(p)

-----------------------------------------------------------------------------
(* From a slice header to the buffer                                       *)

NoMarks == [op \in 1..6 |-> 0]

\* init_picture: frame_num continues from the previous reference picture, or
\* frames are missing.
IsGap(p) ==
    p.frameNum # preFrameNum /\ p.frameNum # FrameNumAfter(1)

\* What store_picture_in_dpb does first.
FirstStep(p) ==
    IF p.idr THEN "idr" ELSE IF p.ref /\ p.adaptive THEN "marking" ELSE "placing"

Begin(p) ==
    /\ cur' = p
    /\ upcoming' = NoPicture
    /\ preFrameNum' = IF p.ref THEN p.frameNum ELSE preFrameNum
    /\ pc' = FirstStep(p)

\* A picture arrives: read_new_slice and init_picture.  An IDR picture sets
\* pre_frame_num before the gap is looked for.
Decode(p) ==
    /\ pc = "ready" /\ Legal(p)
    /\ pictures < MaxPictures \/ IsSecondField(p)
    /\ pictures' = IF IsSecondField(p) THEN pictures ELSE pictures + 1
    /\ sent' = IF p.idr THEN {0} ELSE IF IsSecondField(p) THEN sent ELSE sent \cup {p.poc}
    /\ first' = IF IsSecondField(p) THEN first ELSE NoPicture
    /\ IF ~p.idr /\ IsGap(p)
         THEN upcoming' = p /\ pc' = "gap" /\ UNCHANGED <<cur, preFrameNum>>
         ELSE Begin(p)
    /\ UNCHANGED <<dpb, maxLongTermPicIdx, output, marked>>

\* One turn of the loop of fill_frame_num_gap: a frame that does not exist is
\* stored like a reference frame with sliding window marking.  Its POC is the
\* slice's framepoc: with POC type 0 whatever the slice's record holds of an
\* earlier picture, also of one before the last IDR picture; with the others what
\* decode_poc makes of the missing frame_num.
FillGap(poc) ==
    /\ pc = "gap" /\ IsGap(upcoming)
    /\ cur' = [NoPicture EXCEPT !.structure = "frame", !.ref = TRUE,
                                !.frameNum = FrameNumAfter(1), !.poc = poc]
    /\ preFrameNum' = FrameNumAfter(1)
    /\ pc' = "placing"
    /\ UNCHANGED <<dpb, maxLongTermPicIdx, output, upcoming, sent, first, pictures, marked>>

AfterGap ==
    /\ pc = "gap" /\ ~IsGap(upcoming)
    /\ Begin(upcoming)
    /\ UNCHANGED <<dpb, maxLongTermPicIdx, output, sent, first, pictures, marked>>

\* The stream ends: FinitDecoder flushes the buffer.
EndStream ==
    /\ pc = "ready" /\ sent # {}
    /\ first # NoPicture => first.ref \in LoneFields
    /\ pc' = "flush"
    /\ UNCHANGED <<dpb, maxLongTermPicIdx, output, stream, cur, marked>>

\* The picture is stored: exit_picture forgets frame_num after operation 5.
Finish ==
    /\ pc' = IF upcoming = NoPicture THEN "ready" ELSE "gap"
    /\ cur' = NoPicture
    /\ marked' = NoMarks
    /\ preFrameNum' = IF marked[5] > 0 THEN 0 ELSE preFrameNum
    /\ first' = IF cur.structure \in Parities /\ ~IsSecondField(cur) THEN cur ELSE NoPicture
    /\ UNCHANGED <<upcoming, sent, pictures>>

-----------------------------------------------------------------------------
(* idr_memory_management and flush_dpb                                     *)

\* What an IDR picture leaves behind: no lists, and its own long-term marking.
IdrMarking ==
    /\ shortRefs' = {} /\ longRefs' = {} /\ lastPicture' = 0
    /\ lastOutputPoc' = None /\ shown' = None
    /\ maxLongTermPicIdx' = IF cur.longFlag THEN 0 ELSE -1
    /\ cur' = [cur EXCEPT !.long = cur.longFlag]
    /\ pc' = "placing"

\* no_output_of_prior_pics_flag: the stored pictures are dropped.
IdrDiscard ==
    /\ pc = "idr" /\ cur.noOutput
    /\ fs' = <<>>
    /\ IdrMarking
    /\ UNCHANGED <<outBuffer, stream, marked>>

\* Mutant: only the short-term frames are unmarked.
ShortTermUnmarked ==
    [i \in 1..Len(fs) |-> IF i \in shortRefs THEN UnmarkForReference(fs[i]) ELSE fs[i]]

AllUnmarked == [i \in 1..Len(fs) |-> UnmarkForReference(fs[i])]

StartFlush ==
    /\ pc = "flush" \/ (pc = "idr" /\ ~cur.noOutput)
    /\ fs' = AllUnmarked
    /\ pc' = "unused"
    /\ UNCHANGED <<shortRefs, longRefs, lastPicture, maxLongTermPicIdx, output, stream, cur, marked>>

FlushUnused ==
    /\ pc = "unused"
    /\ IF \E pos \in 1..Len(fs) : IsUnused(pos)
         THEN RemoveUnusedFrame /\ UNCHANGED pc
         ELSE pc' = "bumpall" /\ UNCHANGED dpb
    /\ UNCHANGED <<maxLongTermPicIdx, output, stream, cur, marked>>

FlushOutput ==
    /\ pc = "bumpall"
    /\ \E pos \in Waiting : OutputOneFrame(pos)
    /\ UNCHANGED <<maxLongTermPicIdx, stream, cur, marked>>

FlushEnd ==
    /\ pc = "bumpall" /\ Waiting = {}
    /\ IF cur.idr
         THEN IdrMarking /\ UNCHANGED fs
         ELSE /\ lastOutputPoc' = None /\ shown' = None
              /\ pc' = IF cur = NoPicture THEN "ended" ELSE "placing"
              /\ UNCHANGED <<dpb, maxLongTermPicIdx, cur>>
    /\ UNCHANGED <<outBuffer, stream, marked>>

-----------------------------------------------------------------------------
(* adaptive_memory_management: one control operation is one step           *)

\* get_pic_num_x and update_pic_num.
PicNumX(d) == (IF cur.structure = "frame" THEN cur.frameNum ELSE 2 * cur.frameNum + 1) - (d + 1)
FrameNumWrap(s) ==
    IF s.frameNum > cur.frameNum THEN s.frameNum - MaxFrameNum ELSE s.frameNum
FieldNum(n, view) ==
    IF view = "frame" THEN n ELSE 2 * n + (IF view = cur.structure THEN 1 ELSE 0)
PicNum(s, view) == FieldNum(FrameNumWrap(s), view)
LongTermPicNum(s, view) == FieldNum(s.ltIdx, view)

\* The views a picture's operations speak of: frames in a frame, fields in a field.
TargetViews == IF cur.structure = "frame" THEN {"frame"} ELSE Parities
IsShortTarget(s, view) == Fields(view) \subseteq s.ref /\ Fields(view) \cap s.lt = {}
IsLongTarget(s, view) == Fields(view) \subseteq s.ref \cap s.lt

Unmark(s, view, long) ==
    IF view = "frame"
      THEN IF long THEN UnmarkForLongTerm(s) ELSE UnmarkForReference(s)
      ELSE LET t == [s EXCEPT !.ref = @ \ {view}, !.refPics = @ \ {view, "frame"}]
           IN  IF long THEN [t EXCEPT !.lt = @ \ {view}, !.ltPics = @ \ {view, "frame"}]
                       ELSE t

MarkLong(s, view, idx) ==
    LET lt == s.lt \cup Fields(view)
    IN  [s EXCEPT !.lt = lt, !.ltIdx = idx,
                  !.ltPics = @ \cup {view} \cup Fields(view)
                               \cup (IF lt = Parities THEN {"frame"} ELSE {})]

\* Mutant: a frame keeps the long-term index that another one gets.
UnmarkedNone(stores, positions) == stores

\* The stores at some positions of fs_ltref lose their marks.
UnmarkedLong(stores, positions) ==
    [i \in 1..Len(stores) |->
        IF i \in positions THEN UnmarkForLongTerm(stores[i]) ELSE stores[i]]

\* unmark_long_term_frame_for_reference_by_frame_idx and
\* unmark_long_term_field_for_reference_by_frame_idx: the stores that have the
\* index, except the one whose other field has it.
LosingIndex(idx, view, sameFrame) ==
    {i \in longRefs :
        /\ fs[i].ltIdx = idx
        /\ ~(view # "frame" /\ fs[i].lt = {Opposite(view)} /\ i \in sameFrame)}

Operation(op) ==
    /\ pc = "marking" /\ op \in Operations
    /\ marked[1] + marked[2] + marked[3] + marked[4] + marked[5] + marked[6] < MaxOperations
         \/ op = 6
    /\ op \in {4, 5, 6} => marked[op] = 0
    /\ marked' = [marked EXCEPT ![op] = @ + 1]
    /\ UNCHANGED <<output, stream, lastPicture>>

\* mm_unmark_short_term_for_reference.
MarkShortUnused(d) ==
    /\ Operation(1) /\ marked[5] = 0
    /\ \E i \in shortRefs, view \in TargetViews :
         /\ IsShortTarget(fs[i], view) /\ PicNum(fs[i], view) = PicNumX(d)
         /\ fs' = [fs EXCEPT ![i] = Unmark(fs[i], view, FALSE)]
    /\ shortRefs' = ShortRefsOf(fs')
    /\ UNCHANGED <<longRefs, maxLongTermPicIdx, pc, cur>>

\* mm_unmark_long_term_for_reference.
MarkLongUnused(num) ==
    /\ Operation(2)
    /\ \E i \in longRefs, view \in TargetViews :
         /\ IsLongTarget(fs[i], view) /\ LongTermPicNum(fs[i], view) = num
         /\ fs' = [fs EXCEPT ![i] = Unmark(fs[i], view, TRUE)]
    /\ longRefs' = LongRefsOf(fs')
    /\ UNCHANGED <<shortRefs, maxLongTermPicIdx, pc, cur>>

\* mm_assign_long_term_frame_idx and mark_pic_long_term: whatever has the index
\* loses it, the other field of the same frame excepted.
AssignLong(d, idx) ==
    /\ Operation(3) /\ marked[5] = 0 /\ idx <= maxLongTermPicIdx
    /\ cur.long => idx # cur.ltIdx
    /\ first.long => idx # first.ltIdx
    /\ \E i \in shortRefs, view \in TargetViews :
         LET x == PicNumX(d)
             frameNum == (IF x < 0 THEN x + 2 * MaxFrameNum ELSE x) \div 2
             sameFrame == {j \in longRefs : fs[j].frameNum = frameNum}
             stores == UnmarkedLong(fs, LosingIndex(idx, view, sameFrame))
         IN  /\ IsShortTarget(fs[i], view) /\ PicNum(fs[i], view) = x
             /\ fs[i].lt # {} => fs[i].ltIdx = idx
             /\ fs' = [stores EXCEPT ![i] = MarkLong(stores[i], view, idx)]
    /\ shortRefs' = ShortRefsOf(fs')
    /\ longRefs' = LongRefsOf(fs')
    /\ UNCHANGED <<maxLongTermPicIdx, pc, cur>>

\* mm_update_max_long_term_frame_idx: fs_ref is not updated.
SetMaxLongTermIdx(max) ==
    /\ Operation(4) /\ marked[5] = 0
    /\ cur.long => cur.ltIdx <= max
    /\ first.long => first.ltIdx <= max
    /\ maxLongTermPicIdx' = max
    /\ fs' = UnmarkedLong(fs, {i \in longRefs : fs[i].ltIdx > max})
    /\ longRefs' = LongRefsOf(fs')
    /\ UNCHANGED <<shortRefs, pc, cur>>

\* mm_unmark_all_short_term_for_reference, then the same for long-term; in a
\* conforming stream no operation 1, 3 or 4 comes with it.
MarkAllUnused ==
    LET stores == [i \in 1..Len(fs) |->
                     IF i \in shortRefs THEN UnmarkForReference(fs[i]) ELSE fs[i]]
    IN  /\ Operation(5) /\ cur.structure = "frame" /\ ~cur.long
        /\ marked[1] = 0 /\ marked[3] = 0 /\ marked[4] = 0
        /\ shortRefs' = ShortRefsOf(stores)
        /\ maxLongTermPicIdx' = -1
        /\ fs' = UnmarkedLong(stores, longRefs)
        /\ UNCHANGED <<longRefs, pc, cur>>

\* mm_mark_current_picture_long_term and check_num_ref.
MarkCurrentLong(idx) ==
    LET sameFrame == {j \in longRefs : lastPicture = j /\ fs[j].frameNum = cur.frameNum}
    IN  /\ Operation(6) /\ idx <= maxLongTermPicIdx
        /\ IsSecondField(cur) => first.long /\ first.ltIdx = idx
        /\ fs' = UnmarkedLong(fs, LosingIndex(idx, cur.structure, sameFrame))
        /\ cur' = [cur EXCEPT !.long = TRUE, !.ltIdx = idx]
        /\ pc' = IF TooManyReferences(shortRefs, longRefs) THEN "failed" ELSE pc
        /\ UNCHANGED <<shortRefs, longRefs, maxLongTermPicIdx>>

\* The end of the operations; after operation 5 the picture starts a new
\* sequence with POC 0 and the buffer is flushed.
EndMarking ==
    /\ pc = "marking"
    /\ IsSecondField(cur) /\ first.long => cur.long
    /\ IF marked[5] > 0
         THEN /\ cur' = [cur EXCEPT !.frameNum = 0, !.poc = 0]
              /\ sent' = {0}
              /\ pc' = "flush"
         ELSE pc' = "placing" /\ UNCHANGED <<cur, sent>>
    /\ UNCHANGED <<dpb, maxLongTermPicIdx, output, preFrameNum, upcoming, first, pictures, marked>>

-----------------------------------------------------------------------------
(* store_picture_in_dpb                                                    *)

\* Mutant: any field of the other parity completes the stored one.
HasStoredOpposite ==
    /\ cur.structure \in Parities /\ lastPicture # 0
    /\ fs[lastPicture].used = {Opposite(cur.structure)}

\* The current field completes the frame of the field stored before it.
HasStoredPair ==
    /\ cur.structure \in Parities /\ lastPicture # 0
    /\ fs[lastPicture].frameNum = cur.frameNum
    /\ fs[lastPicture].used = {Opposite(cur.structure)}
    /\ fs[lastPicture].orig = cur.ref

PairField ==
    /\ pc = "placing" /\ HasStoredPair
    /\ fs' = [fs EXCEPT ![lastPicture] = Insert(@, cur)]
    /\ shortRefs' = ShortRefsOf(fs') /\ longRefs' = LongRefsOf(fs')
    /\ lastPicture' = 0
    /\ Finish
    /\ UNCHANGED <<maxLongTermPicIdx, output>>

\* Mutant: the last short-term store is unmarked.
IsLastShortTerm(i) ==
    /\ fs[i].ref # {} /\ fs[i].lt = {}
    /\ \A j \in (i + 1)..Len(fs) : fs[j].ref = {} \/ fs[j].lt # {}

\* sliding_window_memory_management unmarks the first short-term store.
IsFirstShortTerm(i) ==
    /\ fs[i].ref # {} /\ fs[i].lt = {}
    /\ \A j \in 1..(i - 1) : fs[j].ref = {} \/ fs[j].lt # {}

\* Mutant: long-term frames are not counted.
IsFullOfShortTerm == Cardinality(shortRefs) = FrameLimit

IsWindowFull == Cardinality(shortRefs) = FrameLimit - Cardinality(longRefs)

SlidingWindow ==
    /\ pc = "placing" /\ ~HasStoredPair
    /\ IF /\ cur.ref /\ ~cur.idr /\ ~cur.adaptive
          /\ IsWindowFull
          /\ \E i \in 1..Len(fs) : IsFirstShortTerm(i)
         THEN /\ \E i \in 1..Len(fs) :
                   IsFirstShortTerm(i) /\ fs' = [fs EXCEPT ![i] = UnmarkForReference(@)]
              /\ shortRefs' = ShortRefsOf(fs')
         ELSE UNCHANGED <<fs, shortRefs>>
    /\ pc' = "room"
    /\ UNCHANGED <<longRefs, lastPicture, maxLongTermPicIdx, output, stream, cur, marked>>

\* One frame that was output and is unused goes if the buffer is full.
MakeRoom ==
    /\ pc = "room"
    /\ IF Len(fs) = DpbSize /\ \E pos \in 1..Len(fs) : IsUnused(pos)
         THEN RemoveUnusedFrame
         ELSE UNCHANGED dpb
    /\ pc' = "bumping"
    /\ UNCHANGED <<maxLongTermPicIdx, output, stream, cur, marked>>

\* Mutant: any non-reference picture is shown at once.
GoesAtOnce == ~cur.ref

\* A non-reference picture shown before everything in the full buffer.
GoesDirectly == ~cur.ref /\ \A i \in Waiting : cur.poc < fs[i].poc

\* direct_output: a field waits in the output buffer for the other one.
DirectOutput ==
    /\ pc = "bumping" /\ Len(fs) = DpbSize /\ GoesDirectly
    /\ LET pending == outBuffer \cap {Opposite(cur.structure)}
       IN  IF cur.structure = "frame"
             THEN outBuffer' = {} /\ shown' = cur.poc
             ELSE /\ outBuffer' = IF pending = {} THEN {cur.structure} ELSE {}
                  /\ shown' = IF pending = {} THEN cur.poc ELSE shown
    /\ Finish
    /\ UNCHANGED <<dpb, maxLongTermPicIdx, lastOutputPoc>>

\* output_one_frame_from_dpb; without a frame to show the loop of the code goes
\* round for ever, and the model stops.
Bump ==
    /\ pc = "bumping" /\ Len(fs) = DpbSize /\ ~GoesDirectly
    /\ \E pos \in Waiting : OutputOneFrame(pos)
    /\ UNCHANGED <<maxLongTermPicIdx, stream, cur, marked>>

\* The picture is stored at the end, unless its frame_num is taken or there are
\* too many reference frames then: both errors end the decoder.
Store ==
    LET stores == Append(fs, Insert(EmptyStore, cur))
        duplicate == cur.ref /\ ~cur.long /\ cur.frameNum \in ShortTermFrameNums
    IN  /\ pc = "bumping" /\ Len(fs) < DpbSize
        /\ fs' = stores
        /\ shortRefs' = ShortRefsOf(stores) /\ longRefs' = LongRefsOf(stores)
        /\ lastPicture' = IF cur.structure = "frame" THEN 0 ELSE Len(stores)
        /\ IF duplicate \/ TooManyReferences(shortRefs', longRefs')
             THEN pc' = "failed" /\ UNCHANGED <<cur, marked, stream>>
             ELSE Finish
        /\ UNCHANGED <<maxLongTermPicIdx, output>>

-----------------------------------------------------------------------------
Init ==
    /\ fs = <<>> /\ shortRefs = {} /\ longRefs = {} /\ lastPicture = 0
    /\ maxLongTermPicIdx = -1
    /\ lastOutputPoc = None /\ outBuffer = {} /\ shown = None
    /\ preFrameNum = 0
    /\ pc = "ready" /\ cur = NoPicture /\ upcoming = NoPicture /\ marked = NoMarks
    /\ sent = {} /\ first = NoPicture /\ pictures = 0

Marking ==
    \/ \E d \in 0..(2 * MaxFrameNum - 1) : MarkShortUnused(d)
    \/ \E num \in 0..(2 * NumRefFrames + 1) : MarkLongUnused(num)
    \/ \E d \in 0..(2 * MaxFrameNum - 1), idx \in 0..(NumRefFrames - 1) : AssignLong(d, idx)
    \/ \E max \in -1..(NumRefFrames - 1) : SetMaxLongTermIdx(max)
    \/ MarkAllUnused
    \/ \E idx \in 0..(NumRefFrames - 1) : MarkCurrentLong(idx)
    \/ EndMarking

Storing == PairField \/ SlidingWindow \/ MakeRoom \/ DirectOutput \/ Bump \/ Store

Flushing == IdrDiscard \/ StartFlush \/ FlushUnused \/ FlushOutput \/ FlushEnd

Stopped == pc \in {"ended", "failed"} /\ UNCHANGED vars

DecodeNext ==
    \E structure \in Structures, a, b \in BOOLEAN :
        \/ Decode(IdrPicture(structure, a, b))
        \/ \E gap \in 0..MaxGap, i \in 0..(Cardinality(sent) + ReorderDepth) :
              Decode(OtherPicture(structure, a, b, FrameNumAfter(1 + gap), 2 * i))
        \/ Decode(OtherPicture(structure, a, b, first.frameNum, first.poc + 1))

Next ==
    \/ DecodeNext
    \/ \E poc \in StalePocs : FillGap(poc)
    \/ AfterGap \/ EndStream
    \/ Marking \/ Storing \/ Flushing
    \/ Stopped

Spec == Init /\ [][Next]_vars
FairSpec == Spec /\ WF_vars(Next)

-----------------------------------------------------------------------------
(* Properties                                                              *)

Positions == 1..Len(fs)

StoreType ==
    [used : SUBSET Parities, ref : SUBSET Parities, lt : SUBSET Parities,
     orig : BOOLEAN, ltIdx : Nat, frameNum : 0..(MaxFrameNum - 1), poc : Nat,
     firstPoc : Nat, output : BOOLEAN, refPics : SUBSET Views, ltPics : SUBSET Views]

PictureType ==
    [structure : Views \cup {"none"}, ref : BOOLEAN, idr : BOOLEAN,
     adaptive : BOOLEAN, exists : BOOLEAN, frameNum : 0..(MaxFrameNum - 1),
     poc : Nat, long : BOOLEAN, ltIdx : Nat, longFlag : BOOLEAN, noOutput : BOOLEAN]

Phases == {"ready", "gap", "idr", "marking", "flush", "unused", "bumpall",
           "placing", "room", "bumping", "ended", "failed"}

(* The buffer never holds more than its size, no list and no last_picture    *)
(* points outside the used stores, and every store is of its type.          *)
TypeOK ==
    /\ fs \in Seq(StoreType) /\ Len(fs) <= DpbSize
    /\ shortRefs \subseteq Positions /\ longRefs \subseteq Positions
    /\ lastPicture \in Positions \cup {0}
    /\ maxLongTermPicIdx \in Nat \cup {-1}
    /\ lastOutputPoc \in Nat \cup {None} /\ shown \in Nat \cup {None}
    /\ outBuffer \subseteq Parities
    /\ preFrameNum \in 0..(MaxFrameNum - 1)
    /\ pc \in Phases
    /\ {cur, upcoming, first} \subseteq PictureType
    /\ marked \in [1..6 -> Nat]
    /\ sent \subseteq Nat /\ pictures \in Nat

(* A store and the pictures in it agree: is_reference and is_long_term of    *)
(* mbuffer.c's FrameStore say what used_for_reference and is_long_term of    *)
(* its top_field, bottom_field and frame say, through every partial          *)
(* unmarking of a field and every combination of two fields.                *)
StoreMarksAgree(s) ==
    /\ s.ref \subseteq s.used
    /\ s.refPics \cap Parities = s.ref
    /\ s.ref \cap s.lt = s.ref \cap s.ltPics
    /\ "frame" \in s.refPics <=> s.ref = Parities
    /\ "frame" \in s.refPics => ("frame" \in s.ltPics <=> Parities \subseteq s.lt)

MarksAgree == \A i \in Positions : StoreMarksAgree(fs[i])

(* At most one frame has each long-term index, and none exceeds the maximum  *)
(* MaxLongTermFrameIdx, between two pictures.                               *)
LongTermIndicesDistinct ==
    pc = "ready" =>
        \A i \in LongRefsOf(fs) :
            /\ fs[i].ltIdx <= maxLongTermPicIdx
            /\ \A j \in LongRefsOf(fs) : fs[i].ltIdx = fs[j].ltIdx => i = j

(* The decoder gives up only on a stream whose control operations leave more *)
(* reference frames than num_ref_frames: never for a picture with sliding    *)
(* window marking, for a duplicate frame_num or for its own output order.    *)
ReferenceFrames == {i \in Positions : IsUsedForReference(fs[i])}

RejectsOnlyOverfull ==
    pc = "failed" => cur.adaptive /\ Cardinality(ReferenceFrames) > FrameLimit

(* The sliding window takes the short-term frame with the smallest           *)
(* FrameNumWrap, though the code takes the first in the buffer: wrapping     *)
(* frame numbers, filled gaps and fields do not change that order.          *)
OldestShortTermLeaves ==
    [][ pc = "placing" =>
          \A i \in Positions :
              IsShortTermReference(fs[i]) /\ ~IsShortTermReference(fs'[i]) =>
                  \A j \in shortRefs : FrameNumWrap(fs[i]) <= FrameNumWrap(fs[j])
      ]_vars

(* Only the second field of a frame is combined with a stored field.         *)
OnlyPairsSecondFields ==
    [][ Len(fs') = Len(fs) =>
          \A i \in Positions :
              fs[i].used # Parities /\ fs'[i].used = Parities /\ ~fs'[i].output =>
                  IsSecondField(cur) ]_vars

(* Frames are shown once each, in display order; a decoder that gave up      *)
(* drops what it holds (RejectsOnlyOverfull says when it may).              *)
Display == INSTANCE DisplayOrder WITH
    waiting <- IF pc = "failed" THEN {} ELSE {fs[i].poc : i \in Waiting},
    shown <- IF pc = "failed" THEN None ELSE shown,
    Nothing <- None, Pocs <- 0..(2 * (MaxPictures + ReorderDepth))

ShownInDisplayOrder == Display!Spec

(* When the stream ends, every frame is shown and the buffer is emptied.     *)
AllShown == (pc = "flush" /\ cur = NoPicture) ~> (pc = "ended" /\ fs = <<>>)

=============================================================================
