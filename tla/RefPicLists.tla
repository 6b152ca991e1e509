---------------------------- MODULE RefPicLists ----------------------------
(***************************************************************************)
(* The reference picture lists of a slice, built from the decoded picture  *)
(* buffer as it stands when the first slice of a picture has been read:    *)
(* init_lists_p_slice and init_lists_b_slice of                            *)
(* src/H.264/ldecod/src/mbuffer.c, gen_pic_list_from_frame_list of         *)
(* lcommon, and the reordering commands as the encoder writes them         *)
(* (lencod/src/list_reorder.c) and the decoder carries them out.           *)
(*                                                                         *)
(* An entry of a list is a store's position and a view of it.  Nothing here *)
(* changes the buffer: the lists are functions of its state.               *)
(***************************************************************************)
EXTENDS DecodedPictureBuffer, SequencesExt

\* The lists are made before anything is marked or stored.
SliceBegins ==
    cur.exists /\ ~cur.idr /\ marked = NoMarks /\ pc = FirstStep(cur)

-----------------------------------------------------------------------------
(* Initial lists                                                           *)

FrameShortTerm == {i \in shortRefs : "frame" \in fs[i].refPics \ fs[i].ltPics}
FrameLongTerm == {i \in longRefs : "frame" \in fs[i].ltPics}

\* Mutant: frame numbers are compared as they are.
ByFrameNum(i, j) == fs[i].frameNum > fs[j].frameNum

\* compare_pic_by_pic_num_desc, compare_fs_by_frame_num_desc.
ByFrameNumWrap(i, j) == FrameNumWrap(fs[i]) > FrameNumWrap(fs[j])
\* compare_pic_by_lt_pic_num_asc, compare_fs_by_lt_pic_idx_asc.
ByLongTermIdx(i, j) == fs[i].ltIdx < fs[j].ltIdx
\* compare_pic_by_poc_desc and compare_pic_by_poc_asc.
ByPocDown(i, j) == fs[i].poc > fs[j].poc
ByPocUp(i, j) == fs[i].poc < fs[j].poc

\* qsort: the stores in an order in which none comes after one it goes before.
Sorted(S, Before(_, _)) ==
    CHOOSE s \in SetToSeqs(S) : \A j, k \in DOMAIN s : j < k => ~Before(s[k], s[j])

AsFrames(positions) == [k \in DOMAIN positions |-> <<positions[k], "frame">>]

\* Mutant: when one parity is used up the fields of the other are left out.
Paired(a, b) ==
    [k \in 1..(2 * (IF Len(a) < Len(b) THEN Len(a) ELSE Len(b))) |->
        IF k % 2 = 1 THEN a[(k + 1) \div 2] ELSE b[k \div 2]]

\* One of a, one of b in turn, then what is left of either.
Alternated(a, b) ==
    LET both == IF Len(a) < Len(b) THEN Len(a) ELSE Len(b)
        rest == IF Len(a) < Len(b) THEN b ELSE a
    IN  [k \in 1..(Len(a) + Len(b)) |->
           IF k > 2 * both THEN rest[k - both]
           ELSE IF k % 2 = 1 THEN a[(k + 1) \div 2] ELSE b[k \div 2]]

\* is_short_ref and is_long_ref.
IsShortRef(i, view) == view \in fs[i].refPics \ fs[i].ltPics
IsLongRef(i, view) == view \in fs[i].refPics \cap fs[i].ltPics

\* gen_pic_list_from_frame_list: the fields of the current parity come first.
AsFields(positions, longTerm) ==
    LET IsRef(i, parity) ==
            /\ parity \in fs[i].used
            /\ IF longTerm THEN IsLongRef(i, parity) ELSE IsShortRef(i, parity)
        OfParity(parity) ==
            SelectSeq([k \in DOMAIN positions |-> <<positions[k], parity>>],
                      LAMBDA e : IsRef(e[1], e[2]))
    IN  Alternated(OfParity(cur.structure), OfParity(Opposite(cur.structure)))

LongTermPart ==
    IF cur.structure = "frame"
      THEN AsFrames(Sorted(FrameLongTerm, ByLongTermIdx))
      ELSE AsFields(Sorted(longRefs, ByLongTermIdx), TRUE)

ShortTermList(positions) ==
    IF cur.structure = "frame" THEN AsFrames(positions)
                               ELSE AsFields(positions, FALSE)

\* init_lists_p_slice.
ListP ==
    LET stores == IF cur.structure = "frame"
                    THEN FrameShortTerm
                    ELSE {i \in shortRefs : fs[i].ref # {}}
    IN  ShortTermList(Sorted(stores, ByFrameNumWrap)) \o LongTermPart

\* Mutant: a picture with the POC of the current one goes with the later ones.
EarlierThanCurrent(i) == fs[i].poc + 2 < cur.poc

\* >= also takes a picture with the same POC.
IsEarlier(i) == cur.poc >= fs[i].poc

FirstTwoSwapped(list) == [list EXCEPT ![1] = list[2], ![2] = list[1]]

\* init_lists_b_slice: earlier pictures, nearest first, and later pictures,
\* nearest first; the other way round in list 1.
ListsB ==
    LET stores == IF cur.structure = "frame" THEN FrameShortTerm ELSE shortRefs
        earlier == Sorted({i \in stores : IsEarlier(i)}, ByPocDown)
        later == Sorted({i \in stores : ~IsEarlier(i)}, ByPocUp)
        list0 == ShortTermList(earlier \o later) \o LongTermPart
        list1 == ShortTermList(later \o earlier) \o LongTermPart
    IN  << list0,
           IF list0 = list1 /\ Len(list1) > 1 THEN FirstTwoSwapped(list1) ELSE list1 >>

-----------------------------------------------------------------------------
(* Reordering                                                              *)

MaxPicNum == IF cur.structure = "frame" THEN MaxFrameNum ELSE 2 * MaxFrameNum
CurrPicNum == IF cur.structure = "frame" THEN cur.frameNum ELSE 2 * cur.frameNum + 1

PicNumOf(entry) == PicNum(fs[entry[1]], entry[2])
LongTermPicNumOf(entry) == LongTermPicNum(fs[entry[1]], entry[2])
IsLongTermEntry(entry) == IsLongRef(entry[1], entry[2])

\* picNumLXNoWrap.
Predicted(pred, idc, minus1) ==
    IF idc = 0
      THEN IF pred - (minus1 + 1) < 0 THEN pred - (minus1 + 1) + MaxPicNum
                                      ELSE pred - (minus1 + 1)
      ELSE IF pred + (minus1 + 1) >= MaxPicNum THEN pred + (minus1 + 1) - MaxPicNum
                                               ELSE pred + (minus1 + 1)

\* Mutant: numbers beyond the current one are not taken to be of the round before.
NotOfRoundBefore(noWrap) == noWrap

\* picNumLX.
PicNumFrom(noWrap) == IF noWrap > CurrPicNum THEN noWrap - MaxPicNum ELSE noWrap

\* modification_of_pic_nums_idc and abs_diff_pic_num_minus1 as the encoder
\* chooses them for a picture number.
CommandFor(picNum, pred) ==
    LET diff == picNum - pred
    IN  IF diff > 0 THEN [idc |-> 1, value |-> diff - 1]
        ELSE IF diff < 0 THEN [idc |-> 0, value |-> -diff - 1]
        ELSE [idc |-> 0, value |-> MaxPicNum - 1]

\* reorder_against_default_ref_pic_lists: commands for a sequence of entries.
\* It never moves a long-term entry; for one the command (idc 2) is what
\* another encoder would send.
Commands(entries) ==
    LET Add(acc, entry) ==
          IF IsLongTermEntry(entry)
            THEN [acc EXCEPT !.commands =
                    Append(@, [idc |-> 2, value |-> LongTermPicNumOf(entry)])]
            ELSE LET c == CommandFor(PicNumOf(entry), acc.pred)
                 IN  [commands |-> Append(acc.commands, c),
                      pred |-> Predicted(acc.pred, c.idc, c.value)]
    IN  FoldLeft(Add, [commands |-> <<>>, pred |-> CurrPicNum], entries).commands

\* get_short_term_pic and get_long_term_pic: the picture with a number, in a set.
ShortTermEntry(picNum) ==
    {e \in ToSet(ListP) : ~IsLongTermEntry(e) /\ PicNumOf(e) = picNum}
LongTermEntry(longTermPicNum) ==
    {e \in ToSet(ListP) : IsLongTermEntry(e) /\ LongTermPicNumOf(e) = longTermPicNum}

\* reorder_short_term and reorder_long_term: the picture goes to index at, and
\* out of the rest of the list.
PutAt(list, at, found) ==
    SubSeq( SubSeq(list, 1, at - 1) \o SetToSeq(found)
              \o SelectSeq(SubSeq(list, at, Len(list)), LAMBDA e : e \notin found),
            1, Len(list) )

\* reorder_ref_pic_list.
Reordered(list, commands) ==
    LET Do(acc, c) ==
          IF c.idc = 2
            THEN [acc EXCEPT !.list = PutAt(@, acc.at, LongTermEntry(c.value)), !.at = @ + 1]
            ELSE LET noWrap == Predicted(acc.pred, c.idc, c.value)
                 IN  [list |-> PutAt(acc.list, acc.at, ShortTermEntry(PicNumFrom(noWrap))),
                      at |-> acc.at + 1, pred |-> noWrap]
    IN  FoldLeft(Do, [list |-> list, at |-> 1, pred |-> CurrPicNum], commands).list

-----------------------------------------------------------------------------
(* Properties                                                              *)

IsInjectiveSeq(s) == \A j, k \in DOMAIN s : s[j] = s[k] => j = k

\* What a slice may refer to: whole frames for a frame, single fields for a field.
UsableReferences ==
    IF cur.structure = "frame"
      THEN {<<i, "frame">> : i \in {j \in Positions : fs[j].ref = Parities}}
      ELSE UNION {{<<i, parity>> : parity \in fs[i].ref} : i \in Positions}

(* Every list names each reference picture the slice may use exactly once,   *)
(* and nothing else: a reference a list misses cannot be addressed, and one  *)
(* it names twice shifts all indices after it.                              *)
EveryReferenceIsListed ==
    SliceBegins =>
        \A list \in {ListP, ListsB[1], ListsB[2]} :
            ToSet(list) = UsableReferences /\ IsInjectiveSeq(list)

\* Entries whose order says how old or how far pictures are: both short-term, and
\* both frames or both fields of one parity.
AreAlike(e, f) == e[2] = f[2] /\ ~IsLongTermEntry(e) /\ ~IsLongTermEntry(f)

(* A P slice finds the references of each parity from the latest decoded to  *)
(* the earliest, though the code sorts by numbers that wrap and that gaps    *)
(* and operation 5 make jump.                                               *)
LatestFirst ==
    SliceBegins =>
        \A j, k \in DOMAIN ListP :
            j < k /\ AreAlike(ListP[j], ListP[k]) => ListP[j][1] > ListP[k][1]

\* How far a store is from the current picture in display order: stores on the
\* preferred side come first.
Distance(i) == LET d == cur.poc - fs[i].firstPoc IN IF d < 0 THEN -d ELSE d
OnSide(i, before) == (fs[i].firstPoc <= cur.poc) = before

IsNearestFirst(list, before) ==
    \A j, k \in DOMAIN list :
        j < k /\ AreAlike(list[j], list[k]) =>
            IF OnSide(list[j][1], before) = OnSide(list[k][1], before)
              THEN Distance(list[j][1]) <= Distance(list[k][1])
              ELSE OnSide(list[j][1], before)

\* A field that was shown without its pair has lost its POC (write_unpaired_field).
ShownAlone(s) == s.output /\ s.firstPoc # s.poc

(* In a B slice list 0 goes back in display order from the current picture   *)
(* and then forward, list 1 the other way round, unless that makes them equal. *)
NearestFirst ==
    SliceBegins /\ (\A i \in Positions : ~ShownAlone(fs[i])) =>
        /\ IsNearestFirst(ListsB[1], TRUE)
        /\ \/ IsNearestFirst(ListsB[2], FALSE)
           \/ Len(ListsB[1]) > 1 /\ ListsB[2] = FirstTwoSwapped(ListsB[1])

(* The commands the encoder writes for any two references bring these to the *)
(* front of the decoder's list, in this order, and keep the order of the     *)
(* others, whatever wraps on the way.                                       *)
ReorderingMovesToFront ==
    SliceBegins =>
        \A a, b \in ToSet(ListP) : a # b =>
            LET IsOther(e) == e \notin {a, b}
            IN  Reordered(ListP, Commands(<<a, b>>))
                  = <<a, b>> \o SelectSeq(ListP, IsOther)

=============================================================================
