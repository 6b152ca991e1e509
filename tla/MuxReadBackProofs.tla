------------------------- MODULE MuxReadBackProofs -------------------------
(***************************************************************************)
(* The reader gets back what the writer was given.                         *)
(***************************************************************************)
EXTENDS MuxReadBack, MuxWriterProofs

-----------------------------------------------------------------------------
(***************************************************************************)
(* Induction over the numbers up to a bound, with a set in place of the    *)
(* property.                                                               *)
(***************************************************************************)
LEMMA UpToBound ==
  ASSUME NEW N \in Nat, NEW S, 0 \in S, \A n \in 0 .. N - 1 : n \in S => n + 1 \in S
  PROVE  0 .. N \subseteq S
  <1> SUFFICES ASSUME (0 .. N) \ S # {} PROVE FALSE
    OBVIOUS
  <1>1. IsWellFoundedOn(OpToRel(<, Nat), Nat)
    BY NatLessThanWellFounded
  <1>2. PICK m \in (0 .. N) \ S : \A k \in (0 .. N) \ S : ~(<<k, m>> \in OpToRel(<, Nat))
    <2>1. (0 .. N) \ S \subseteq Nat
      OBVIOUS
    <2> QED
      BY <1>1, <2>1, WFMin
  <1>3. m \in 1 .. N /\ m - 1 \in 0 .. N - 1
    OBVIOUS
  <1>4. m - 1 \in S
    <2> SUFFICES ASSUME m - 1 \notin S PROVE FALSE
      OBVIOUS
    <2>1. m - 1 \in (0 .. N) \ S /\ m - 1 < m /\ m \in Nat /\ m - 1 \in Nat
      BY <1>3
    <2> QED
      BY <1>2, <2>1 DEF OpToRel
  <1>5. m - 1 + 1 = m
    BY <1>3
  <1> QED
    BY <1>3, <1>4, <1>5

(***************************************************************************)
(* The greatest number of a set of positions.                              *)
(***************************************************************************)
LEMMA GreatestIs ==
  ASSUME NEW S \in SUBSET Nat, NEW m \in S, \A k \in S : k <= m
  PROVE  Max(S) = m
  <1>1. \E x \in S : \A y \in S : x >= y
    OBVIOUS
  <1>2. Max(S) \in S /\ \A y \in S : Max(S) >= y
    BY <1>1 DEF Max
  <1>3. Max(S) \in Nat /\ m \in Nat /\ Max(S) >= m /\ Max(S) <= m
    BY <1>2
  <1> QED
    BY <1>3

LEMMA GreatestInside ==
  ASSUME NEW S \in SUBSET Nat, S # {}, NEW n \in Nat, \A k \in S : k <= n
  PROVE  Max(S) \in S
  <1> DEFINE Bounds == {b \in Nat : \E k \in S : n - b = k}
  <1>1. Bounds \subseteq Nat /\ Bounds # {}
    <2>1. PICK k \in S : TRUE
      OBVIOUS
    <2>2. n - k \in Nat /\ n - (n - k) = k
      OBVIOUS
    <2> QED
      BY <2>2
  <1>2. PICK b \in Bounds : \A c \in Bounds : ~(<<c, b>> \in OpToRel(<, Nat))
    <2> HIDE DEF Bounds
    <2> QED
      BY <1>1, NatLessThanWellFounded, WFMin
  <1>3. n - b \in S /\ b \in Nat
    OBVIOUS
  <1>4. ASSUME NEW k \in S PROVE n - b >= k
    <2> SUFFICES ASSUME k > n - b PROVE FALSE
      BY <1>3
    <2>1. n - k \in Bounds /\ n - k < b /\ n - k \in Nat
      <3>1. n - k \in Nat /\ n - (n - k) = k
        OBVIOUS
      <3> QED
        BY <3>1, <1>3
    <2> QED
      BY <1>2, <1>3, <2>1 DEF OpToRel
  <1> QED
    BY <1>3, <1>4 DEF Max

LEMMA GreatestUpTo ==
  ASSUME NEW n \in Nat \ {0}
  PROVE  Max(1 .. n) = n /\ (1 .. n) \ {n} = 1 .. n - 1
  <1>1. 1 .. n \in SUBSET Nat /\ n \in 1 .. n /\ \A k \in 1 .. n : k <= n
    OBVIOUS
  <1> QED
    BY <1>1, GreatestIs

(***************************************************************************)
(* A fold over the positions of a sequence takes the greatest position off *)
(* a set of them: there is such a function.                                *)
(***************************************************************************)
Folds(it, n, b, h, seq) ==
  \A s \in SUBSET (1 .. n) :
    it[s] = IF s = {} THEN b ELSE h[<<it[s \ {Max(s)}], seq[Max(s)]>>]

CanFold(n, B, b, h, seq) == \E it \in [SUBSET (1 .. n) -> B] : Folds(it, n, b, h, seq)

LEMMA FoldExists ==
  ASSUME NEW A, NEW B, NEW h \in [B \X A -> B], NEW b \in B, NEW seq \in Seq(A)
  PROVE  CanFold(Len(seq), B, b, h, seq)
  <1> DEFINE Good == {n \in 0 .. Len(seq) : CanFold(n, B, b, h, seq)}
  <1>1. Len(seq) \in Nat
    OBVIOUS
  <1>2. 0 \in Good
    <2>1. 1 .. 0 = {} /\ SUBSET (1 .. 0) = {{}}
      OBVIOUS
    <2>2. PICK it \in [SUBSET (1 .. 0) -> B] : it = [s \in SUBSET (1 .. 0) |-> b]
      OBVIOUS
    <2>3. Folds(it, 0, b, h, seq)
      BY <2>1, <2>2 DEF Folds
    <2>4. CanFold(0, B, b, h, seq)
      BY <2>3 DEF CanFold
    <2> QED
      BY <1>1, <2>4
  <1>3. ASSUME NEW n \in 0 .. Len(seq) - 1, n \in Good
        PROVE  n + 1 \in Good
    <2>1. PICK it \in [SUBSET (1 .. n) -> B] : Folds(it, n, b, h, seq)
      BY <1>3 DEF CanFold
    <2>2. n + 1 \in 1 .. Len(seq) /\ seq[n + 1] \in A
      BY <1>1
    <2> DEFINE New(s) == IF n + 1 \in s THEN h[<<it[s \ {n + 1}], seq[n + 1]>>] ELSE it[s]
    <2>3. PICK jt : jt = [s \in SUBSET (1 .. n + 1) |-> New(s)]
      OBVIOUS
    <2>4. ASSUME NEW s \in SUBSET (1 .. n + 1), n + 1 \in s
          PROVE  s \ {n + 1} \in SUBSET (1 .. n) /\ Max(s) = n + 1 /\ s # {}
      <3>1. s \in SUBSET Nat /\ \A k \in s : k <= n + 1
        OBVIOUS
      <3>2. Max(s) = n + 1
        BY <2>4, <3>1, GreatestIs
      <3> QED
        BY <2>4, <3>2
    <2>5. ASSUME NEW s \in SUBSET (1 .. n + 1), n + 1 \notin s
          PROVE  s \in SUBSET (1 .. n) /\ s \ {Max(s)} \in SUBSET (1 .. n)
      <3>1. s \subseteq 1 .. n
        <4>1. ASSUME NEW k \in s PROVE k \in 1 .. n
          BY <2>5, <1>1
        <4> QED
          BY <4>1
      <3> QED
        BY <3>1
    <2>6. jt \in [SUBSET (1 .. n + 1) -> B]
      <3>1. ASSUME NEW s \in SUBSET (1 .. n + 1) PROVE New(s) \in B
        <4>1. CASE n + 1 \in s
          <5>1. it[s \ {n + 1}] \in B
            BY <4>1, <2>4
          <5> QED
            BY <4>1, <5>1, <2>2
        <4>2. CASE n + 1 \notin s
          BY <4>2, <2>5
        <4> QED
          BY <4>1, <4>2
      <3> QED
        BY <3>1, <2>3
    <2>7. ASSUME NEW s \in SUBSET (1 .. n + 1)
          PROVE  jt[s] = IF s = {} THEN b ELSE h[<<jt[s \ {Max(s)}], seq[Max(s)]>>]
      <3>1. CASE n + 1 \in s
        <4>1. /\ s \ {n + 1} \in SUBSET (1 .. n) /\ Max(s) = n + 1 /\ s # {}
              /\ s \ {n + 1} \in SUBSET (1 .. n + 1) /\ n + 1 \notin s \ {n + 1}
          BY <3>1, <2>4
        <4>2. jt[s \ {n + 1}] = it[s \ {n + 1}]
          BY <4>1, <2>3
        <4>3. jt[s] = h[<<it[s \ {n + 1}], seq[n + 1]>>]
          BY <3>1, <2>3
        <4> QED
          BY <4>1, <4>2, <4>3
      <3>2. CASE n + 1 \notin s
        <4>1. /\ s \in SUBSET (1 .. n) /\ s \ {Max(s)} \in SUBSET (1 .. n)
              /\ s \ {Max(s)} \in SUBSET (1 .. n + 1) /\ n + 1 \notin s \ {Max(s)}
          BY <3>2, <2>5
        <4>2. jt[s] = it[s] /\ jt[s \ {Max(s)}] = it[s \ {Max(s)}]
          BY <3>2, <4>1, <2>3
        <4> QED
          BY <4>1, <4>2, <2>1 DEF Folds
      <3> QED
        BY <3>1, <3>2
    <2>8. Folds(jt, n + 1, b, h, seq)
      BY <2>7 DEF Folds
    <2>9. CanFold(n + 1, B, b, h, seq)
      BY <2>6, <2>8 DEF CanFold
    <2> QED
      BY <1>1, <2>9
  <1>4. 0 .. Len(seq) \subseteq Good
    <2> HIDE DEF Good
    <2> QED
      BY <1>1, <1>2, <1>3, UpToBound
  <1> QED
    BY <1>1, <1>4

(***************************************************************************)
(* What the fold has come to after each element of the sequence.           *)
(***************************************************************************)
Accumulates(up, n, b, h, seq) ==
  up[0] = b /\ \A k \in 1 .. n : up[k] = h[<<up[k - 1], seq[k]>>]

Foldable(A, B, b, h, seq, n) ==
  b \in B /\ h \in [B \X A -> B] /\ seq \in Seq(A) /\ n = Len(seq)

ComesTo(x, n, B, b, h, seq) ==
  \E up \in [0 .. n -> B] : Accumulates(up, n, b, h, seq) /\ x = up[n]

FoldsAlong(it, n, B, b, h, seq) ==
  /\ it[{}] = b
  /\ \A k \in 1 .. n : it[1 .. k - 1] \in B => it[1 .. k] = h[<<it[1 .. k - 1], seq[k]>>]

LEMMA FoldAccumulates ==
  ASSUME NEW A, NEW B, NEW b, NEW h, NEW seq, NEW n, NEW it,
         Foldable(A, B, b, h, seq, n), FoldsAlong(it, n, B, b, h, seq)
  PROVE  ComesTo(it[1 .. n], n, B, b, h, seq)
  <1> DEFINE Typed == {k \in 0 .. n : it[1 .. k] \in B}
  <1>0. n \in Nat /\ (\A k \in 1 .. n : seq[k] \in A) /\ b \in B /\ h \in [B \X A -> B]
    BY DEF Foldable
  <1>1. 1 .. 0 = {}
    OBVIOUS
  <1>2. 0 \in Typed
    BY <1>0, <1>1 DEF FoldsAlong
  <1>3. ASSUME NEW k \in 0 .. n - 1, k \in Typed PROVE k + 1 \in Typed
    <2>1. k + 1 \in 1 .. n /\ k + 1 - 1 = k /\ k + 1 \in 0 .. n
      BY <1>0
    <2>2. it[1 .. k + 1] = h[<<it[1 .. k], seq[k + 1]>>]
      BY <1>3, <2>1 DEF FoldsAlong
    <2>3. <<it[1 .. k], seq[k + 1]>> \in B \X A
      BY <1>0, <1>3, <2>1
    <2>4. it[1 .. k + 1] \in B
      BY <1>0, <2>2, <2>3
    <2> QED
      BY <2>1, <2>4
  <1>4. 0 .. n \subseteq Typed
    <2> HIDE DEF Typed
    <2> QED
      BY <1>0, <1>2, <1>3, UpToBound
  <1>5. PICK up : up = [k \in 0 .. n |-> it[1 .. k]]
    OBVIOUS
  <1>6. up \in [0 .. n -> B]
    BY <1>4, <1>5
  <1>7. ASSUME NEW k \in 1 .. n PROVE up[k] = h[<<up[k - 1], seq[k]>>]
    <2>1. k \in 0 .. n /\ k - 1 \in 0 .. n
      BY <1>0
    <2> QED
      BY <2>1, <1>4, <1>5 DEF FoldsAlong
  <1>8. up[0] = b /\ up[n] = it[1 .. n]
    BY <1>0, <1>1, <1>5 DEF FoldsAlong
  <1> QED
    BY <1>6, <1>7, <1>8 DEF Accumulates, ComesTo

LEMMA AccumulatesAlike ==
  ASSUME NEW n \in Nat, NEW b, NEW h, NEW seq, NEW seq2, NEW up, NEW vp,
         Accumulates(up, n, b, h, seq), Accumulates(vp, n, b, h, seq2),
         \A k \in 1 .. n : seq[k] = seq2[k]
  PROVE  \A k \in 0 .. n : up[k] = vp[k]
  <1> DEFINE Same == {k \in 0 .. n : up[k] = vp[k]}
  <1>1. 0 \in Same
    BY DEF Accumulates
  <1>2. ASSUME NEW k \in 0 .. n - 1, k \in Same PROVE k + 1 \in Same
    <2>1. k + 1 \in 1 .. n /\ k + 1 - 1 = k /\ k + 1 \in 0 .. n /\ up[k] = vp[k]
      BY <1>2
    <2>2. up[k + 1] = h[<<up[k], seq[k + 1]>>] /\ vp[k + 1] = h[<<vp[k], seq2[k + 1]>>]
      BY <2>1 DEF Accumulates
    <2> QED
      BY <2>1, <2>2
  <1>3. 0 .. n \subseteq Same
    <2> HIDE DEF Same
    <2> QED
      BY <1>1, <1>2, UpToBound
  <1> QED
    BY <1>3

-----------------------------------------------------------------------------
(***************************************************************************)
(* Expand, entry by entry.                                                 *)
(***************************************************************************)
Repeated(r) == [k \in 1 .. r.count |-> r.value]

Adjoin == [p \in Seq(Nat) \X Run |-> p[1] \o Repeated(p[2])]

LEMMA RepeatedType ==
  ASSUME NEW r \in Run
  PROVE  Repeated(r) \in Seq(Nat) /\ Len(Repeated(r)) = r.count
  BY DEF Repeated, Run

LEMMA ExpandIsFold ==
  ASSUME NEW runs
  PROVE  Expand(runs) =
           (CHOOSE it : it = [s \in SUBSET DOMAIN runs |->
              IF s = {} THEN <<>> ELSE it[s \ {Max(s)}] \o Repeated(runs[Max(s)])])[DOMAIN runs]
  BY DEF Expand, FoldLeft, MapThenFoldSet, Repeated

LEMMA ExpandAccumulates ==
  ASSUME NEW runs \in Seq(Run)
  PROVE  ComesTo(Expand(runs), Len(runs), Seq(Nat), <<>>, Adjoin, runs)
  <1>1. PICK n \in Nat : n = Len(runs) /\ DOMAIN runs = 1 .. n
    OBVIOUS
  <1> DEFINE IsFold(it) == it = [s \in SUBSET DOMAIN runs |->
               IF s = {} THEN <<>> ELSE it[s \ {Max(s)}] \o Repeated(runs[Max(s)])]
  <1>2. Adjoin \in [Seq(Nat) \X Run -> Seq(Nat)]
    <2>1. ASSUME NEW p \in Seq(Nat) \X Run PROVE p[1] \o Repeated(p[2]) \in Seq(Nat)
      <3>1. p[1] \in Seq(Nat) /\ Repeated(p[2]) \in Seq(Nat)
        BY RepeatedType
      <3> QED
        BY <3>1
    <2> QED
      BY <2>1 DEF Adjoin
  <1>3. PICK it \in [SUBSET (1 .. n) -> Seq(Nat)] : Folds(it, n, <<>>, Adjoin, runs)
    <2>1. CanFold(n, Seq(Nat), <<>>, Adjoin, runs)
      <3>1. <<>> \in Seq(Nat)
        OBVIOUS
      <3>2. CanFold(Len(runs), Seq(Nat), <<>>, Adjoin, runs)
        BY <3>1, <1>2, FoldExists
      <3> QED
        BY <1>1, <3>2
    <2> QED
      BY <2>1 DEF CanFold
  <1>6. IsFold(it)
    <2>1. ASSUME NEW s \in SUBSET (1 .. n), s # {}
          PROVE  it[s] = it[s \ {Max(s)}] \o Repeated(runs[Max(s)])
      <3>1. Max(s) \in 1 .. n
        <4>1. s \in SUBSET Nat /\ \A k \in s : k <= n
          BY <1>1
        <4>2. Max(s) \in s
          BY <2>1, <4>1, <1>1, GreatestInside
        <4> QED
          BY <4>2
      <3>2. s \ {Max(s)} \in SUBSET (1 .. n) /\ runs[Max(s)] \in Run
        <4>1. s \ {Max(s)} \subseteq 1 .. n
          OBVIOUS
        <4> QED
          BY <4>1, <3>1, <1>1
      <3>3. it[s] = Adjoin[<<it[s \ {Max(s)}], runs[Max(s)]>>]
        BY <1>3, <2>1 DEF Folds
      <3> QED
        BY <3>2, <3>3 DEF Adjoin
    <2>2. it[{}] = <<>>
      BY <1>3 DEF Folds
    <2> QED
      BY <1>1, <2>1, <2>2
  <1>7. PICK jt : jt = CHOOSE f : IsFold(f)
    OBVIOUS
  <1>8. IsFold(jt)
    <2> HIDE DEF IsFold
    <2> QED
      BY <1>6, <1>7
  <1>9. Expand(runs) = jt[1 .. n]
    BY <1>1, <1>7, ExpandIsFold
  <1>10. jt[{}] = <<>>
    <2>1. {} \in SUBSET DOMAIN runs
      OBVIOUS
    <2> QED
      BY <1>8, <2>1
  <1>11. ASSUME NEW k \in 1 .. n, jt[1 .. k - 1] \in Seq(Nat)
         PROVE  jt[1 .. k] = Adjoin[<<jt[1 .. k - 1], runs[k]>>]
    <2>1. k \in Nat \ {0} /\ runs[k] \in Run
      BY <1>1
    <2>2. Max(1 .. k) = k /\ (1 .. k) \ {k} = 1 .. k - 1
      BY <2>1, GreatestUpTo
    <2>3. 1 .. k \in SUBSET DOMAIN runs /\ k \in 1 .. k
      BY <1>1, <2>1
    <2>4. jt[1 .. k] = jt[1 .. k - 1] \o Repeated(runs[k])
      BY <1>8, <2>2, <2>3
    <2>5. Adjoin[<<jt[1 .. k - 1], runs[k]>>] = jt[1 .. k - 1] \o Repeated(runs[k])
      BY <1>11, <2>1 DEF Adjoin
    <2> QED
      BY <2>4, <2>5
  <1>12. PICK B : B = Seq(Nat)
    OBVIOUS
  <1>13. <<>> \in B /\ Adjoin \in [B \X Run -> B] /\ FoldsAlong(jt, n, B, <<>>, Adjoin, runs)
    BY <1>1, <1>2, <1>10, <1>11, <1>12 DEF FoldsAlong
  <1>14. ComesTo(jt[1 .. n], n, B, <<>>, Adjoin, runs)
    <2>1. Foldable(Run, B, <<>>, Adjoin, runs, n)
      BY <1>1, <1>13 DEF Foldable
    <2> QED
      BY <1>13, <2>1, FoldAccumulates
  <1> QED
    BY <1>1, <1>9, <1>12, <1>14

LEMMA ComesToNext ==
  ASSUME NEW n \in Nat, NEW B, NEW b, NEW h, NEW seq, NEW seq2, NEW x, NEW y,
         ComesTo(x, n, B, b, h, seq), ComesTo(y, n + 1, B, b, h, seq2),
         \A k \in 1 .. n : seq[k] = seq2[k]
  PROVE  x \in B /\ y = h[<<x, seq2[n + 1]>>]
  <1>1. PICK up \in [0 .. n -> B] : Accumulates(up, n, b, h, seq) /\ x = up[n]
    BY DEF ComesTo
  <1>2. PICK vp \in [0 .. n + 1 -> B] : Accumulates(vp, n + 1, b, h, seq2) /\ y = vp[n + 1]
    BY DEF ComesTo
  <1>3. Accumulates(vp, n, b, h, seq2)
    BY <1>2 DEF Accumulates
  <1>4. up[n] = vp[n] /\ n \in 0 .. n
    BY <1>1, <1>3, AccumulatesAlike
  <1>5. vp[n + 1] = h[<<vp[n], seq2[n + 1]>>]
    <2>1. n + 1 \in 1 .. n + 1 /\ n + 1 - 1 = n
      OBVIOUS
    <2>2. \A k \in 1 .. n + 1 : vp[k] = h[<<vp[k - 1], seq2[k]>>]
      BY <1>2 DEF Accumulates
    <2> QED
      BY <2>1, <2>2
  <1> QED
    BY <1>1, <1>2, <1>4, <1>5

LEMMA ComesToFirst ==
  ASSUME NEW B, NEW b, NEW h, NEW seq, NEW x, ComesTo(x, 0, B, b, h, seq)
  PROVE  x = b
  BY DEF ComesTo, Accumulates

LEMMA ExpandEmpty == Expand(<<>>) = <<>>
  <1>1. <<>> \in Seq(Run) /\ Len(<<>>) = 0
    OBVIOUS
  <1>2. ComesTo(Expand(<<>>), 0, Seq(Nat), <<>>, Adjoin, <<>>)
    BY <1>1, ExpandAccumulates
  <1> QED
    BY <1>2, ComesToFirst

LEMMA ExpandAppend ==
  ASSUME NEW runs \in Seq(Run), NEW r \in Run
  PROVE  /\ Expand(runs) \in Seq(Nat)
         /\ Expand(Append(runs, r)) = Expand(runs) \o Repeated(r)
  <1>1. PICK n \in Nat : n = Len(runs)
    OBVIOUS
  <1>2. PICK seq : seq = Append(runs, r)
    OBVIOUS
  <1>3. /\ seq \in Seq(Run) /\ Len(seq) = n + 1 /\ seq[n + 1] = r
        /\ \A k \in 1 .. n : runs[k] = seq[k]
    BY <1>1, <1>2
  <1>4. /\ ComesTo(Expand(runs), n, Seq(Nat), <<>>, Adjoin, runs)
        /\ ComesTo(Expand(seq), n + 1, Seq(Nat), <<>>, Adjoin, seq)
    BY <1>1, <1>3, ExpandAccumulates
  <1>5. Expand(runs) \in Seq(Nat) /\ Expand(seq) = Adjoin[<<Expand(runs), seq[n + 1]>>]
    <2>1. PICK B : B = Seq(Nat)
      OBVIOUS
    <2> QED
      BY <2>1, <1>3, <1>4, ComesToNext
  <1>6. Adjoin[<<Expand(runs), r>>] = Expand(runs) \o Repeated(r)
    BY <1>5 DEF Adjoin
  <1> QED
    BY <1>2, <1>3, <1>5, <1>6

(***************************************************************************)
(* Total, element by element.                                              *)
(***************************************************************************)
Plus == [p \in Nat \X Nat |-> p[1] + p[2]]

LEMMA TotalIsFold ==
  ASSUME NEW seq
  PROVE  Total(seq) =
           (CHOOSE it : it = [s \in SUBSET DOMAIN seq |->
              IF s = {} THEN 0 ELSE it[s \ {Max(s)}] + seq[Max(s)]])[DOMAIN seq]
  BY DEF Total, FoldLeft, MapThenFoldSet

LEMMA TotalAccumulates ==
  ASSUME NEW seq \in Seq(Nat)
  PROVE  ComesTo(Total(seq), Len(seq), Nat, 0, Plus, seq)
  <1>1. PICK n \in Nat : n = Len(seq) /\ DOMAIN seq = 1 .. n
    OBVIOUS
  <1> DEFINE IsFold(it) == it = [s \in SUBSET DOMAIN seq |->
               IF s = {} THEN 0 ELSE it[s \ {Max(s)}] + seq[Max(s)]]
  <1>2. Plus \in [Nat \X Nat -> Nat] /\ Foldable(Nat, Nat, 0, Plus, seq, n)
    BY <1>1 DEF Plus, Foldable
  <1>3. PICK it \in [SUBSET (1 .. n) -> Nat] : Folds(it, n, 0, Plus, seq)
    <2>1. CanFold(Len(seq), Nat, 0, Plus, seq)
      BY <1>2, FoldExists
    <2> QED
      BY <1>1, <2>1 DEF CanFold
  <1>4. IsFold(it)
    <2>1. ASSUME NEW s \in SUBSET (1 .. n), s # {}
          PROVE  it[s] = it[s \ {Max(s)}] + seq[Max(s)]
      <3>1. Max(s) \in 1 .. n
        <4>1. s \in SUBSET Nat /\ \A k \in s : k <= n
          BY <1>1
        <4>2. Max(s) \in s
          BY <2>1, <4>1, <1>1, GreatestInside
        <4> QED
          BY <4>2
      <3>2. s \ {Max(s)} \in SUBSET (1 .. n) /\ seq[Max(s)] \in Nat
        <4>1. s \ {Max(s)} \subseteq 1 .. n
          OBVIOUS
        <4> QED
          BY <4>1, <3>1, <1>1
      <3>3. it[s] = Plus[<<it[s \ {Max(s)}], seq[Max(s)]>>]
        BY <1>3, <2>1 DEF Folds
      <3> QED
        BY <3>2, <3>3 DEF Plus
    <2>2. it[{}] = 0
      BY <1>3 DEF Folds
    <2> QED
      BY <1>1, <2>1, <2>2
  <1>5. PICK jt : jt = CHOOSE f : IsFold(f)
    OBVIOUS
  <1>6. IsFold(jt)
    <2> HIDE DEF IsFold
    <2> QED
      BY <1>4, <1>5
  <1>7. Total(seq) = jt[1 .. n]
    BY <1>1, <1>5, TotalIsFold
  <1>8. jt[{}] = 0
    <2>1. {} \in SUBSET DOMAIN seq
      OBVIOUS
    <2> QED
      BY <1>6, <2>1
  <1>9. ASSUME NEW k \in 1 .. n, jt[1 .. k - 1] \in Nat
        PROVE  jt[1 .. k] = Plus[<<jt[1 .. k - 1], seq[k]>>]
    <2>1. k \in Nat \ {0} /\ seq[k] \in Nat
      BY <1>1
    <2>2. Max(1 .. k) = k /\ (1 .. k) \ {k} = 1 .. k - 1
      BY <2>1, GreatestUpTo
    <2>3. 1 .. k \in SUBSET DOMAIN seq /\ k \in 1 .. k
      BY <1>1, <2>1
    <2>4. jt[1 .. k] = jt[1 .. k - 1] + seq[k]
      BY <1>6, <2>2, <2>3
    <2>5. Plus[<<jt[1 .. k - 1], seq[k]>>] = jt[1 .. k - 1] + seq[k]
      BY <1>9, <2>1 DEF Plus
    <2> QED
      BY <2>4, <2>5
  <1>10. FoldsAlong(jt, n, Nat, 0, Plus, seq)
    BY <1>8, <1>9 DEF FoldsAlong
  <1>11. ComesTo(jt[1 .. n], n, Nat, 0, Plus, seq)
    BY <1>2, <1>10, FoldAccumulates
  <1> QED
    BY <1>1, <1>7, <1>11

LEMMA TotalEmpty == Total(<<>>) = 0
  <1>1. <<>> \in Seq(Nat) /\ Len(<<>>) = 0
    OBVIOUS
  <1>2. ComesTo(Total(<<>>), 0, Nat, 0, Plus, <<>>)
    BY <1>1, TotalAccumulates
  <1> QED
    BY <1>2, ComesToFirst

LEMMA TotalAppend ==
  ASSUME NEW seq \in Seq(Nat), NEW a \in Nat
  PROVE  Total(seq) \in Nat /\ Total(Append(seq, a)) = Total(seq) + a
  <1>1. PICK n \in Nat : n = Len(seq)
    OBVIOUS
  <1>2. PICK longer : longer = Append(seq, a)
    OBVIOUS
  <1>3. /\ longer \in Seq(Nat) /\ Len(longer) = n + 1 /\ longer[n + 1] = a
        /\ \A k \in 1 .. n : seq[k] = longer[k]
    BY <1>1, <1>2
  <1>4. /\ ComesTo(Total(seq), n, Nat, 0, Plus, seq)
        /\ ComesTo(Total(longer), n + 1, Nat, 0, Plus, longer)
    BY <1>1, <1>3, TotalAccumulates
  <1>5. Total(seq) \in Nat /\ Total(longer) = Plus[<<Total(seq), longer[n + 1]>>]
    <2>1. PICK B, h, x, y : B = Nat /\ h = Plus /\ x = Total(seq) /\ y = Total(longer)
      OBVIOUS
    <2>2. ComesTo(x, n, B, 0, h, seq) /\ ComesTo(y, n + 1, B, 0, h, longer)
      BY <2>1, <1>4
    <2>3. \A k \in 1 .. n : seq[k] = longer[k]
      BY <1>3
    <2>4. x \in B /\ y = h[<<x, longer[n + 1]>>]
      BY <2>2, <2>3, ComesToNext
    <2> QED
      BY <2>1, <2>4
  <1>6. Plus[<<Total(seq), a>>] = Total(seq) + a
    BY <1>5 DEF Plus
  <1> QED
    BY <1>2, <1>3, <1>5, <1>6

-----------------------------------------------------------------------------
(***************************************************************************)
(* A table being built: the entries written and the run being counted say  *)
(* the values of seq, one after the other.                                 *)
(***************************************************************************)
Spells(runs, count, value, seq) ==
  /\ runs \in Seq(Run) /\ count \in Nat /\ value \in Nat
  /\ seq = Expand(runs) \o Repeated([count |-> count, value |-> value])

LEMMA RepeatedOnce ==
  ASSUME NEW s \in Seq(Nat), NEW v \in Nat
  PROVE  /\ s \o Repeated([count |-> 0, value |-> v]) = s
         /\ s \o Repeated([count |-> 1, value |-> v]) = Append(s, v)
  <1>1. Repeated([count |-> 0, value |-> v]) = <<>>
    BY DEF Repeated
  <1>2. Repeated([count |-> 1, value |-> v]) = <<v>>
    BY DEF Repeated
  <1> QED
    BY <1>1, <1>2, ConcatEmptySeq, AppendIsConcat

LEMMA RepeatedMore ==
  ASSUME NEW s \in Seq(Nat), NEW v \in Nat, NEW c \in Nat
  PROVE  s \o Repeated([count |-> c + 1, value |-> v])
           = Append(s \o Repeated([count |-> c, value |-> v]), v)
  <1>1. PICK m \in Nat : m = Len(s)
    OBVIOUS
  <1>2. PICK a, b : a = Repeated([count |-> c, value |-> v]) /\ b = Repeated([count |-> c + 1, value |-> v])
    OBVIOUS
  <1>3. /\ a \in Seq(Nat) /\ Len(a) = c /\ \A k \in 1 .. c : a[k] = v
        /\ b \in Seq(Nat) /\ Len(b) = c + 1 /\ \A k \in 1 .. c + 1 : b[k] = v
    BY <1>2, RepeatedType DEF Repeated, Run
  <1>4. /\ s \o b \in Seq(Nat) /\ Len(s \o b) = m + c + 1
        /\ \A k \in 1 .. m + c + 1 : (s \o b)[k] = IF k <= m THEN s[k] ELSE v
    <2>1. PICK d \in Nat : d = c + 1
      OBVIOUS
    <2>2. b \in Seq(Nat) /\ Len(b) = d /\ \A k \in 1 .. d : b[k] = v
      BY <2>1, <1>3
    <2>3. /\ s \o b \in Seq(Nat) /\ Len(s \o b) = m + d
          /\ \A k \in 1 .. m + d : (s \o b)[k] = IF k <= m THEN s[k] ELSE b[k - m]
      BY <1>1, <2>2, ConcatProperties
    <2>4. \A k \in 1 .. m + d : ~(k <= m) => k - m \in 1 .. d
      OBVIOUS
    <2>5. m + d = m + c + 1
      BY <2>1
    <2>6. \A k \in 1 .. m + d : (s \o b)[k] = IF k <= m THEN s[k] ELSE v
      BY <2>2, <2>3, <2>4
    <2> QED
      BY <2>3, <2>5, <2>6
  <1>5. /\ s \o a \in Seq(Nat) /\ Len(s \o a) = m + c
        /\ \A k \in 1 .. m + c : (s \o a)[k] = IF k <= m THEN s[k] ELSE v
    <2>0. s \in Seq(Nat) /\ a \in Seq(Nat) /\ Len(s) = m /\ Len(a) = c
      BY <1>1, <1>3
    <2>1. /\ s \o a \in Seq(Nat) /\ Len(s \o a) = m + c
          /\ \A k \in 1 .. m + c : (s \o a)[k] = IF k <= m THEN s[k] ELSE a[k - m]
      BY ONLY <2>0, ConcatProperties
    <2>2. \A k \in 1 .. m + c : ~(k <= m) => k - m \in 1 .. c
      OBVIOUS
    <2> QED
      BY <2>1, <2>2, <1>3
  <1>6. PICK q : q = Append(s \o a, v)
    OBVIOUS
  <1>7. /\ q \in Seq(Nat) /\ Len(q) = m + c + 1
        /\ \A k \in 1 .. m + c + 1 : q[k] = IF k <= m THEN s[k] ELSE v
    <2>1. PICK p \in Seq(Nat) : p = s \o a
      BY <1>5
    <2>2. /\ q \in Seq(Nat) /\ Len(q) = m + c + 1 /\ q[m + c + 1] = v
          /\ \A k \in 1 .. m + c : q[k] = p[k]
      BY <1>5, <1>6, <2>1, AppendProperties
    <2>3. \A k \in 1 .. m + c + 1 : k = m + c + 1 \/ k \in 1 .. m + c
      OBVIOUS
    <2>4. ~(m + c + 1 <= m)
      OBVIOUS
    <2> QED
      BY <2>1, <2>2, <2>3, <2>4, <1>5
  <1>8. s \o b = q
    BY <1>4, <1>7, SeqEqual
  <1> QED
    BY <1>2, <1>6, <1>8

LEMMA SpellsNothing ==
  ASSUME NEW v \in Nat
  PROVE  Spells(<<>>, 0, v, <<>>)
  <1>1. <<>> \in Seq(Nat)
    OBVIOUS
  <1>2. Expand(<<>>) \o Repeated([count |-> 0, value |-> v]) = <<>>
    BY <1>1, ExpandEmpty, RepeatedOnce
  <1> QED
    BY <1>2 DEF Spells

LEMMA ExpandType ==
  ASSUME NEW runs \in Seq(Run)
  PROVE  Expand(runs) \in Seq(Nat)
  <1>1. [count |-> 0, value |-> 0] \in Run
    BY DEF Run
  <1> QED
    BY <1>1, ExpandAppend

(* The next value is counted, or begins a run of its own.                  *)
LEMMA SpellsNext ==
  ASSUME NEW runs, NEW count, NEW value, NEW seq, Spells(runs, count, value, seq),
         NEW v \in Nat
  PROVE  /\ seq \in Seq(Nat)
         /\ Spells(runs, count + 1, value, Append(seq, value))
         /\ count = 0 => Spells(runs, 1, v, Append(seq, v))
         /\ Spells(Append(runs, [count |-> count, value |-> value]), 1, v, Append(seq, v))
         /\ Expand(Append(runs, [count |-> count, value |-> value])) = seq
  <1>1. /\ runs \in Seq(Run) /\ count \in Nat /\ value \in Nat
        /\ seq = Expand(runs) \o Repeated([count |-> count, value |-> value])
        /\ [count |-> count, value |-> value] \in Run
    BY DEF Spells, Run
  <1>2. Expand(runs) \in Seq(Nat)
    BY <1>1, ExpandType
  <1>3. Expand(Append(runs, [count |-> count, value |-> value])) = seq
    BY <1>1, ExpandAppend
  <1>4. Append(runs, [count |-> count, value |-> value]) \in Seq(Run)
    BY <1>1
  <1>5. seq \in Seq(Nat)
    BY <1>3, <1>4, ExpandType
  <1>6. Spells(runs, count + 1, value, Append(seq, value))
    <2>1. PICK x \in Seq(Nat) : x = Expand(runs)
      BY <1>2
    <2>2. Append(seq, value) = x \o Repeated([count |-> count + 1, value |-> value])
      BY <1>1, <2>1, RepeatedMore
    <2>3. count + 1 \in Nat
      BY <1>1
    <2> QED
      BY <2>1, <2>2, <2>3, <1>1 DEF Spells
  <1>7. count = 0 => Spells(runs, 1, v, Append(seq, v))
    <2> SUFFICES ASSUME count = 0 PROVE Spells(runs, 1, v, Append(seq, v))
      OBVIOUS
    <2>1. PICK x \in Seq(Nat) : x = Expand(runs)
      BY <1>2
    <2>2. seq = x
      BY <1>1, <2>1, RepeatedOnce
    <2>3. Append(seq, v) = x \o Repeated([count |-> 1, value |-> v])
      BY <2>1, <2>2, RepeatedOnce
    <2> QED
      BY <2>1, <2>3, <1>1 DEF Spells
  <1>8. Spells(Append(runs, [count |-> count, value |-> value]), 1, v, Append(seq, v))
    <2>1. PICK more : more = Append(runs, [count |-> count, value |-> value])
      OBVIOUS
    <2>2. Append(seq, v) = seq \o Repeated([count |-> 1, value |-> v])
      BY <1>5, RepeatedOnce
    <2>3. Append(seq, v) = Expand(more) \o Repeated([count |-> 1, value |-> v])
      BY <2>1, <2>2, <1>3
    <2> QED
      BY <2>1, <2>3, <1>4 DEF Spells
  <1> QED
    BY <1>3, <1>5, <1>6, <1>7, <1>8

-----------------------------------------------------------------------------
(***************************************************************************)
(* What the tables of a track with n samples say of its first n slices.    *)
(***************************************************************************)
ScaledAt(t, k)  == ScaledDuration(Source[t][k].duration)
Durations(t, n) == [k \in 1 .. n |-> ScaledAt(t, k)]

SizesRight(t, sizes, n) ==
  /\ n \in 0 .. Len(Source[t])
  /\ sizes \in Seq(Nat) /\ Len(sizes) = n
  /\ \A k \in 1 .. n : sizes[k] = Source[t][k].size

SyncRight(t, sync, n) ==
  sync \in Seq(Nat) /\ ToSet(sync) = {k \in 1 .. n : Source[t][k].type = "IFrame"}

TimesRight(t, r, n) ==
  Spells(r.runs, r.count, r.last, Durations(t, n)) /\ (r.last = 0 => r.count = 0)

TimesDone(t, r, n) == r.runs \in Seq(Run) /\ Expand(r.runs) = Durations(t, n)

LEMMA SourceAt ==
  ASSUME NEW t \in Tracks, NEW k \in 1 .. Len(Source[t])
  PROVE  /\ Source[t][k] \in Slice /\ Source[t][k].size \in Nat
         /\ ScaledAt(t, k) \in Nat /\ SliceAt(t, k - 1) = Source[t][k]
  <1>1. Source[t] \in Seq(Slice)
    BY SourceAssumption
  <1>2. Source[t][k] \in Slice
    BY <1>1, ElementOfSeq
  <1>3. Source[t][k].size \in Nat /\ Source[t][k].duration \in Nat
    BY <1>2 DEF Slice
  <1>4. k - 1 + 1 = k
    BY <1>1
  <1> QED
    BY <1>2, <1>3, <1>4, ScaledIsNatural DEF ScaledAt, SliceAt

LEMMA DurationsGrow ==
  ASSUME NEW t \in Tracks, NEW n \in Nat, n < Len(Source[t])
  PROVE  /\ Durations(t, n) \in Seq(Nat) /\ Len(Durations(t, n)) = n
         /\ Durations(t, n + 1) = Append(Durations(t, n), ScaledAt(t, n + 1))
  <1>1. PICK m \in Nat : m = Len(Source[t])
    <2>1. Source[t] \in Seq(Slice)
      BY SourceAssumption
    <2> QED
      BY <2>1
  <1>2. \A k \in 1 .. n + 1 : ScaledAt(t, k) \in Nat
    <2>1. ASSUME NEW k \in 1 .. n + 1 PROVE ScaledAt(t, k) \in Nat
      <3>1. k \in 1 .. Len(Source[t])
        BY <1>1
      <3> QED
        BY <3>1, SourceAt
    <2> QED
      BY <2>1
  <1>3. PICK d, e : d = Durations(t, n) /\ e = Durations(t, n + 1)
    OBVIOUS
  <1>4. d \in Seq(Nat) /\ Len(d) = n /\ \A k \in 1 .. n : d[k] = ScaledAt(t, k)
    BY <1>2, <1>3 DEF Durations
  <1>5. e \in Seq(Nat) /\ Len(e) = n + 1 /\ \A k \in 1 .. n + 1 : e[k] = ScaledAt(t, k)
    BY <1>2, <1>3 DEF Durations
  <1>6. PICK s \in Nat : s = ScaledAt(t, n + 1)
    BY <1>2
  <1>7. /\ Append(d, s) \in Seq(Nat) /\ Len(Append(d, s)) = n + 1 /\ Append(d, s)[n + 1] = s
        /\ \A k \in 1 .. n : Append(d, s)[k] = d[k]
    BY <1>4, AppendProperties
  <1>8. \A k \in 1 .. n + 1 : k = n + 1 \/ k \in 1 .. n
    OBVIOUS
  <1>9. \A k \in 1 .. n + 1 : Append(d, s)[k] = e[k]
    BY <1>4, <1>5, <1>6, <1>7, <1>8
  <1>10. Append(d, s) = e
    BY <1>5, <1>7, <1>9, SeqEqual
  <1> QED
    BY <1>3, <1>4, <1>6, <1>10

LEMMA SizesRightNext ==
  ASSUME NEW t \in Tracks, NEW n, NEW sizes, SizesRight(t, sizes, n), n < Len(Source[t])
  PROVE  SizesRight(t, Append(sizes, Source[t][n + 1].size), n + 1)
  <1>1. PICK m \in Nat : m = Len(Source[t])
    <2>1. Source[t] \in Seq(Slice)
      BY SourceAssumption
    <2> QED
      BY <2>1
  <1>2. n \in Nat /\ n + 1 \in 1 .. Len(Source[t]) /\ n + 1 \in 0 .. Len(Source[t])
    BY <1>1 DEF SizesRight
  <1>3. PICK s \in Nat : s = Source[t][n + 1].size
    BY <1>2, SourceAt
  <1>4. /\ Append(sizes, s) \in Seq(Nat) /\ Len(Append(sizes, s)) = n + 1
        /\ Append(sizes, s)[n + 1] = s
        /\ \A k \in 1 .. n : Append(sizes, s)[k] = sizes[k]
    BY <1>3, AppendProperties DEF SizesRight
  <1>5. \A k \in 1 .. n + 1 : k = n + 1 \/ k \in 1 .. n
    BY <1>2
  <1>6. \A k \in 1 .. n + 1 : Append(sizes, s)[k] = Source[t][k].size
    BY <1>3, <1>4, <1>5 DEF SizesRight
  <1> QED
    BY <1>2, <1>3, <1>4, <1>6 DEF SizesRight

LEMMA AppendToSet ==
  ASSUME NEW s \in Seq(Nat), NEW e \in Nat
  PROVE  Append(s, e) \in Seq(Nat) /\ ToSet(Append(s, e)) = ToSet(s) \cup {e}
  <1>1. PICK n \in Nat : n = Len(s) /\ DOMAIN s = 1 .. n
    OBVIOUS
  <1>2. PICK q : q = Append(s, e)
    OBVIOUS
  <1>3. /\ q \in Seq(Nat) /\ DOMAIN q = 1 .. n + 1 /\ q[n + 1] = e
        /\ \A k \in 1 .. n : q[k] = s[k]
    BY <1>1, <1>2
  <1>4. \A k \in 1 .. n + 1 : k = n + 1 \/ k \in 1 .. n
    OBVIOUS
  <1>5. 1 .. n \subseteq 1 .. n + 1 /\ n + 1 \in 1 .. n + 1
    OBVIOUS
  <1>6. {q[k] : k \in DOMAIN q} = {s[k] : k \in DOMAIN s} \cup {e}
    BY <1>1, <1>3, <1>4, <1>5
  <1> QED
    BY <1>2, <1>3, <1>6 DEF ToSet

LEMMA SyncRightNext ==
  ASSUME NEW t \in Tracks, NEW n \in Nat, NEW sync, SyncRight(t, sync, n)
  PROVE  SyncRight(t, IF Source[t][n + 1].type = "IFrame" THEN Append(sync, n + 1) ELSE sync, n + 1)
  <1>1. sync \in Seq(Nat) /\ ToSet(sync) = {k \in 1 .. n : Source[t][k].type = "IFrame"}
    BY DEF SyncRight
  <1>2. Append(sync, n + 1) \in Seq(Nat) /\ ToSet(Append(sync, n + 1)) = ToSet(sync) \cup {n + 1}
    BY <1>1, AppendToSet
  <1>3. \A k : k \in 1 .. n + 1 <=> k = n + 1 \/ k \in 1 .. n
    OBVIOUS
  <1>4. CASE Source[t][n + 1].type = "IFrame"
    <2>1. ToSet(Append(sync, n + 1)) = {k \in 1 .. n + 1 : Source[t][k].type = "IFrame"}
      BY <1>1, <1>2, <1>3, <1>4
    <2> QED
      BY <2>1, <1>2, <1>4 DEF SyncRight
  <1>5. CASE Source[t][n + 1].type # "IFrame"
    <2>1. ToSet(sync) = {k \in 1 .. n + 1 : Source[t][k].type = "IFrame"}
      BY <1>1, <1>3, <1>5
    <2> QED
      BY <2>1, <1>1, <1>5 DEF SyncRight
  <1> QED
    BY <1>4, <1>5

LEMMA TimesRightNext ==
  ASSUME NEW t \in Tracks, NEW n \in Nat, n < Len(Source[t]), NEW r \in SttsType,
         TimesRight(t, r, n), ScaledAt(t, n + 1) > 0
  PROVE  TimesRight(t, Counted(r, ScaledAt(t, n + 1)), n + 1)
  <1>1. PICK d \in Nat : d = ScaledAt(t, n + 1) /\ d > 0
    <2>1. Source[t] \in Seq(Slice) /\ n + 1 \in 1 .. Len(Source[t])
      BY SourceAssumption
    <2> QED
      BY <2>1, SourceAt
  <1>2. PICK seq, next : seq = Durations(t, n) /\ next = Durations(t, n + 1)
    OBVIOUS
  <1>3. next = Append(seq, d)
    BY <1>1, <1>2, DurationsGrow
  <1>4. PICK runs, count, last : runs = r.runs /\ count = r.count /\ last = r.last
    OBVIOUS
  <1>5. r = [runs |-> runs, count |-> count, last |-> last]
    BY <1>4 DEF SttsType
  <1>6. Spells(runs, count, last, seq) /\ (last = 0 => count = 0)
    BY <1>2, <1>4 DEF TimesRight
  <1>7. count \in Nat /\ last \in Nat
    BY <1>6 DEF Spells
  <1>8. PICK more : more = Append(runs, [count |-> count, value |-> last])
    OBVIOUS
  <1>9. /\ Spells(runs, count + 1, last, Append(seq, last))
        /\ count = 0 => Spells(runs, 1, d, Append(seq, d))
        /\ Spells(more, 1, d, Append(seq, d))
    BY <1>6, <1>8, SpellsNext
  <1>10. PICK c : c = Counted(r, d)
    OBVIOUS
  <1>11. Spells(c.runs, c.count, c.last, next) /\ c.last # 0
    <2>1. CASE last = 0
      <3>1. c = [runs |-> runs, count |-> 1, last |-> d]
        BY <2>1, <1>5, <1>10 DEF Counted
      <3>2. c.runs = runs /\ c.count = 1 /\ c.last = d
        BY <3>1
      <3> QED
        BY <3>2, <2>1, <1>1, <1>3, <1>6, <1>9
    <2>2. CASE last # 0 /\ last = d
      <3>1. c = [runs |-> runs, count |-> count + 1, last |-> last]
        BY <2>2, <1>5, <1>10 DEF Counted
      <3>2. c.runs = runs /\ c.count = count + 1 /\ c.last = last
        BY <3>1
      <3> QED
        BY <3>2, <2>2, <1>3, <1>9
    <2>3. CASE last # 0 /\ last # d
      <3>1. c = [runs |-> more, count |-> 1, last |-> d]
        BY <2>3, <1>5, <1>8, <1>10 DEF Counted
      <3>2. c.runs = more /\ c.count = 1 /\ c.last = d
        BY <3>1
      <3> QED
        BY <3>2, <1>1, <1>3, <1>9
    <2> QED
      BY <2>1, <2>2, <2>3
  <1>12. TimesRight(t, c, n + 1)
    BY <1>2, <1>11 DEF TimesRight
  <1> QED
    BY <1>1, <1>10, <1>12

LEMMA TimesRightDone ==
  ASSUME NEW t, NEW n, NEW r \in SttsType, TimesRight(t, r, n)
  PROVE  TimesDone(t, LastRun(r), n)
  <1>1. PICK runs, count, last : runs = r.runs /\ count = r.count /\ last = r.last
    OBVIOUS
  <1>2. Spells(runs, count, last, Durations(t, n))
    BY <1>1 DEF TimesRight
  <1>3. PICK more : more = Append(runs, [count |-> count, value |-> last])
    OBVIOUS
  <1>4. more \in Seq(Run) /\ Expand(more) = Durations(t, n)
    <2>1. \A v \in Nat : Spells(more, 1, v, Append(Durations(t, n), v)) /\ Expand(more) = Durations(t, n)
      BY <1>2, <1>3, SpellsNext
    <2>2. Spells(more, 1, 0, Append(Durations(t, n), 0)) /\ Expand(more) = Durations(t, n)
      BY <2>1
    <2> QED
      BY <2>2 DEF Spells
  <1>5. LastRun(r).runs = more
    BY <1>1, <1>3 DEF LastRun, SttsType
  <1> QED
    BY <1>4, <1>5 DEF TimesDone

-----------------------------------------------------------------------------
(***************************************************************************)
(* The tables of the writer say what the slices described are; the times   *)
(* do when every slice is at least one unit of the media header long.      *)
(***************************************************************************)
LongEnough == \A t \in Tracks : \A k \in DOMAIN Source[t] : ScaledAt(t, k) > 0

TablesSay ==
  \A t \in Tracks :
    SizesRight(t, stsz[t], Len(stco[t])) /\ SyncRight(t, stss[t], Len(stco[t]))

TimesSay ==
  \A t \in Tracks :
    IF state = "Closed" THEN TimesDone(t, stts[t], Len(stco[t]))
                        ELSE TimesRight(t, stts[t], Len(stco[t]))

(* A file that is finished has slices of every track, and all of them.     *)
Finished ==
  state = "Closed" =>
    /\ phase = "idle"
    /\ \A t \in Tracks : stsz[t] # <<>> /\ Len(stco[t]) = put[t]

(* No payload starts after the end of the mdat.                            *)
InsideTheData == \A r \in DOMAIN mdat : mdat[r].at <= mdatLength

ReadInv == TypeInv /\ LogInv /\ TablesSay /\ Finished /\ InsideTheData

(***************************************************************************)
(* The slice that goes into the tables, and what it makes of them.         *)
(***************************************************************************)
LEMMA SliceDescribed ==
  ASSUME TypeInv, TablesSay, AddToTables
  PROVE  \E t \in Tracks : \E n \in Nat :
           /\ t = job.track /\ n = Len(stco[t]) /\ n < Len(Source[t])
           /\ SliceAt(t, job.slices[job.next]) = Source[t][n + 1]
           /\ stts' = [stts EXCEPT ![t] = Counted(@, ScaledAt(t, n + 1))]
           /\ ctts' = [ctts EXCEPT ![t] = Composed(@, Source[t][n + 1])]
           /\ stsz' = [stsz EXCEPT ![t] = Append(@, Source[t][n + 1].size)]
           /\ stss' = [stss EXCEPT ![t] = IF Source[t][n + 1].type = "IFrame" THEN Append(@, n + 1) ELSE @]
           /\ stco' \in [Tracks -> Seq(Nat)] /\ Len(stco'[t]) = n + 1
           /\ \A u \in Tracks : u # t => stco'[u] = stco[u]
  <1>1. PICK t, s : t = job.track /\ s = SliceAt(t, job.slices[job.next])
    OBVIOUS
  <1>2. /\ phase = "tables" /\ job.next <= Len(job.slices)
        /\ stts' = [stts EXCEPT ![t] = Counted(@, ScaledDuration(s.duration))]
        /\ ctts' = [ctts EXCEPT ![t] = Composed(@, s)]
        /\ stss' = [stss EXCEPT ![t] = IF s.type = "IFrame" THEN Append(@, Len(stsz[t]) + 1) ELSE @]
        /\ stsz' = [stsz EXCEPT ![t] = Append(@, s.size)]
        /\ stco' = [stco EXCEPT ![t] = Append(@, job.offset)]
    BY <1>1 DEF AddToTables, SetFileOffsetForChunk
  <1>3. /\ t \in Tracks /\ job.slices[job.next] = Base + job.next - 1
        /\ job.slices[job.next] < put[t]
    BY <1>1, <1>2, NextOfBlock DEF TypeInv
  <1>4. /\ stco \in [Tracks -> Seq(Nat)] /\ job.offset \in Nat /\ job.next \in Nat
        /\ put[t] \in Nat /\ put[t] <= Len(Source[t])
    BY <1>3 DEF TypeInv, IInv, Types
  <1>5. PICK n \in Nat, m \in Nat : n = Len(stco[t]) /\ m = Len(Source[t])
    <2>1. Source[t] \in Seq(Slice)
      BY <1>3, SourceAssumption
    <2> QED
      BY <2>1, <1>3, <1>4
  <1>6. job.slices[job.next] = n
    <2>1. Base = n - (job.next - 1)
      BY <1>1, <1>2, <1>5 DEF Base, Described
    <2> QED
      BY <2>1, <1>3, <1>4
  <1>7. n < m
    BY <1>3, <1>4, <1>5, <1>6
  <1>8. s = Source[t][n + 1]
    BY <1>1, <1>6 DEF SliceAt
  <1>9. Len(stsz[t]) = n
    BY <1>3, <1>5 DEF TablesSay, SizesRight
  <1>10. /\ stco' \in [Tracks -> Seq(Nat)] /\ Len(stco'[t]) = n + 1
         /\ \A u \in Tracks : u # t => stco'[u] = stco[u]
    BY <1>2, <1>3, <1>4, <1>5, AppendTo
  <1>11. ScaledDuration(s.duration) = ScaledAt(t, n + 1)
    BY <1>8 DEF ScaledAt
  <1> QED
    BY <1>1, <1>2, <1>3, <1>5, <1>7, <1>8, <1>9, <1>10, <1>11

(***************************************************************************)
(* No other step changes the tables, FinalizeBoxes excepted; only          *)
(* FinalizeBoxes closes the file, and nothing follows it.                  *)
(***************************************************************************)
LEMMA TablesStay ==
  ASSUME [Next]_vars, ~AddToTables
  PROVE  /\ UNCHANGED <<stsz, stss, stco>>
         /\ ~FinalizeBoxes => UNCHANGED stts /\ (state' = "Closed" <=> state = "Closed")
  <1>1. CASE \E t \in Tracks : Put(t)
    BY <1>1 DEF Put, Fail, endVars, Idle
  <1>2. CASE TablesDone \/ WriteSlice \/ SamplesWritten
    BY <1>2 DEF TablesDone, WriteSlice, SamplesWritten, Fail, endVars, tableVars
  <1>3. CASE BeginFinalize \/ FlushTrack
    BY <1>3 DEF BeginFinalize, FlushTrack, tableVars
  <1>4. CASE FinalizeBoxes
    BY <1>4 DEF FinalizeBoxes
  <1>5. CASE UNCHANGED vars
    BY <1>5 DEF vars, tableVars, endVars
  <1> QED
    BY <1>1, <1>2, <1>3, <1>4, <1>5 DEF Next, WriteStep, Finalize

LEMMA NextTablesSay ==
  ASSUME ReadInv, [Next]_vars
  PROVE  TablesSay'
  <1>1. CASE ~AddToTables
    BY <1>1, TablesStay DEF ReadInv, TablesSay
  <1>2. CASE AddToTables
    <2>1. PICK t \in Tracks, n \in Nat :
            /\ n = Len(stco[t]) /\ n < Len(Source[t])
            /\ stsz' = [stsz EXCEPT ![t] = Append(@, Source[t][n + 1].size)]
            /\ stss' = [stss EXCEPT ![t] = IF Source[t][n + 1].type = "IFrame" THEN Append(@, n + 1) ELSE @]
            /\ Len(stco'[t]) = n + 1
            /\ \A u \in Tracks : u # t => stco'[u] = stco[u]
      BY <1>2, SliceDescribed DEF ReadInv
    <2>2. DOMAIN stsz = Tracks /\ DOMAIN stss = Tracks
      BY DEF ReadInv, TypeInv, TableTypes
    <2>3. ASSUME NEW u \in Tracks, u # t
          PROVE  stsz'[u] = stsz[u] /\ stss'[u] = stss[u] /\ stco'[u] = stco[u]
      BY <2>1, <2>2, <2>3
    <2>4. SizesRight(t, stsz[t], n) /\ SyncRight(t, stss[t], n)
      BY <2>1 DEF ReadInv, TablesSay
    <2>5. SizesRight(t, stsz'[t], n + 1)
      <3>1. stsz'[t] = Append(stsz[t], Source[t][n + 1].size)
        BY <2>1, <2>2
      <3> QED
        BY <3>1, <2>1, <2>4, SizesRightNext
    <2>6. SyncRight(t, stss'[t], n + 1)
      <3>1. stss'[t] = IF Source[t][n + 1].type = "IFrame" THEN Append(stss[t], n + 1) ELSE stss[t]
        BY <2>1, <2>2
      <3> QED
        BY <3>1, <2>4, SyncRightNext
    <2>7. ASSUME NEW u \in Tracks, u # t
          PROVE  SizesRight(u, stsz'[u], Len(stco'[u])) /\ SyncRight(u, stss'[u], Len(stco'[u]))
      <3>1. SizesRight(u, stsz[u], Len(stco[u])) /\ SyncRight(u, stss[u], Len(stco[u]))
        BY DEF ReadInv, TablesSay
      <3> QED
        BY <3>1, <2>3, <2>7
    <2>8. ASSUME NEW u \in Tracks
          PROVE  SizesRight(u, stsz'[u], Len(stco'[u])) /\ SyncRight(u, stss'[u], Len(stco'[u]))
      <3>1. CASE u = t
        BY <3>1, <2>1, <2>5, <2>6
      <3>2. CASE u # t
        BY <3>2, <2>7
      <3> QED
        BY <3>1, <3>2
    <2> QED
      BY <2>8 DEF TablesSay
  <1> QED
    BY <1>1, <1>2

LEMMA NextTimesSay ==
  ASSUME LongEnough, ReadInv, TimesSay, [Next]_vars
  PROVE  TimesSay'
  <1>0. stts \in [Tracks -> SttsType]
    BY DEF ReadInv, TypeInv, TableTypes
  <1>1. CASE ~AddToTables /\ ~FinalizeBoxes
    BY <1>1, TablesStay DEF TimesSay
  <1>2. CASE AddToTables
    <2>1. PICK t \in Tracks, n \in Nat :
            /\ n = Len(stco[t]) /\ n < Len(Source[t])
            /\ stts' = [stts EXCEPT ![t] = Counted(@, ScaledAt(t, n + 1))]
            /\ Len(stco'[t]) = n + 1
            /\ \A u \in Tracks : u # t => stco'[u] = stco[u]
      BY <1>2, SliceDescribed DEF ReadInv
    <2>2. state # "Closed" /\ state' # "Closed"
      BY <1>2 DEF AddToTables, endVars
    <2>3. ScaledAt(t, n + 1) > 0
      <3>1. Source[t] \in Seq(Slice)
        BY SourceAssumption
      <3>2. n + 1 \in DOMAIN Source[t]
        BY <3>1, <2>1
      <3> QED
        BY <3>2 DEF LongEnough
    <2>4. TimesRight(t, stts'[t], n + 1)
      <3>1. stts'[t] = Counted(stts[t], ScaledAt(t, n + 1)) /\ stts[t] \in SttsType
        BY <2>1, <1>0
      <3>2. TimesRight(t, stts[t], n)
        BY <2>1, <2>2 DEF TimesSay
      <3> QED
        BY <3>1, <3>2, <2>1, <2>3, TimesRightNext
    <2>5. ASSUME NEW u \in Tracks, u # t
          PROVE  TimesRight(u, stts'[u], Len(stco'[u]))
      <3>1. stts'[u] = stts[u] /\ stco'[u] = stco[u]
        BY <2>1, <2>5, <1>0
      <3>2. TimesRight(u, stts[u], Len(stco[u]))
        BY <2>2 DEF TimesSay
      <3> QED
        BY <3>1, <3>2
    <2>6. ASSUME NEW u \in Tracks PROVE TimesRight(u, stts'[u], Len(stco'[u]))
      <3>1. CASE u = t
        BY <3>1, <2>1, <2>4
      <3> QED
        BY <3>1, <2>5
    <2> QED
      BY <2>2, <2>6 DEF TimesSay
  <1>3. CASE FinalizeBoxes
    <2>1. stco' = stco /\ state # "Closed"
      BY <1>3 DEF FinalizeBoxes, Idle
    <2>2. CASE stts' = stts /\ state' = "Failed"
      BY <2>1, <2>2 DEF TimesSay
    <2>3. CASE stts' = [t \in Tracks |-> LastRun(stts[t])] /\ state' = "Closed"
      <3>1. ASSUME NEW t \in Tracks PROVE TimesDone(t, stts'[t], Len(stco[t]))
        <4>1. TimesRight(t, stts[t], Len(stco[t])) /\ stts[t] \in SttsType
          BY <2>1, <1>0 DEF TimesSay
        <4>2. stts'[t] = LastRun(stts[t])
          BY <2>3
        <4> QED
          BY <4>1, <4>2, TimesRightDone
      <3> QED
        BY <3>1, <2>1, <2>3 DEF TimesSay
    <2> QED
      BY <2>2, <2>3, <1>3 DEF FinalizeBoxes, Fail
  <1> QED
    BY <1>1, <1>2, <1>3

LEMMA NextFinished ==
  ASSUME ReadInv, [Next]_vars
  PROVE  Finished'
  <1> SUFFICES ASSUME state' = "Closed"
               PROVE  phase' = "idle" /\ \A t \in Tracks : stsz'[t] # <<>> /\ Len(stco'[t]) = put'[t]
    BY DEF Finished
  <1>1. CASE state = "Closed"
    <2>1. UNCHANGED <<phase, stsz, stco, put>>
      BY <1>1 DEF Next, WriteStep, Finalize, Put, AddToTables, TablesDone, WriteSlice, SamplesWritten,
                  BeginFinalize, FlushTrack, FinalizeBoxes, Idle, vars, tableVars
    <2> QED
      BY <2>1, <1>1 DEF ReadInv, Finished
  <1>2. CASE state # "Closed"
    <2>1. FinalizeBoxes
      <3>1. ~AddToTables
        BY <1>2 DEF AddToTables, endVars
      <3> QED
        BY <3>1, <1>2, TablesStay
    <2>2. /\ UNCHANGED <<phase, stsz, stco, put>> /\ phase = "idle"
          /\ \A t \in Tracks : stsz[t] # <<>>
          /\ flushing > Len(MediaTracks)
      BY <2>1 DEF FinalizeBoxes, Idle, Fail
    <2>3. ASSUME NEW t \in Tracks PROVE Len(stco[t]) = put[t]
      <3>1. PICK k \in DOMAIN MediaTracks : MediaTracks[k] = t
        BY TracksAssumption
      <3>2. k < flushing
        <4>1. MediaTracks \in Seq(Tracks)
          BY TracksAssumption
        <4>2. k \in Nat /\ k <= Len(MediaTracks) /\ Len(MediaTracks) \in Nat
          BY ONLY <4>1, k \in DOMAIN MediaTracks, LenProperties
        <4>3. flushing \in Nat
          BY DEF ReadInv, TypeInv, IInv, Types
        <4> QED
          BY <4>2, <4>3, <2>2
      <3> QED
        BY <3>1, <3>2 DEF ReadInv, LogInv, FlushedInFull, Flushed
    <2> QED
      BY <2>2, <2>3
  <1> QED
    BY <1>1, <1>2

LEMMA NextInsideTheData ==
  ASSUME ReadInv, [Next]_vars
  PROVE  InsideTheData'
  <1>0. /\ mdat \in Seq([track : Tracks, index : Nat, at : Nat]) /\ mdatLength \in Nat
        /\ \A r \in DOMAIN mdat : mdat[r].at <= mdatLength
    BY DEF ReadInv, TypeInv, IInv, Types, InsideTheData
  <1>1. CASE WriteSlice
    <2>1. PICK record : record = [track |-> job.track, index |-> job.slices[job.next], at |-> mdatLength]
      OBVIOUS
    <2>2. /\ mdat' = Append(mdat, record)
          /\ mdatLength' = mdatLength + SizeAt(job.track, job.slices[job.next])
          /\ phase = "data" /\ job.next <= Len(job.slices)
      BY <1>1, <2>1 DEF WriteSlice, SizeAt
    <2>3. /\ SizeAt(job.track, job.slices[job.next]) \in Nat
          /\ job.track \in Tracks /\ job.slices[job.next] \in Nat
      BY <2>2, NextOfBlock DEF ReadInv, TypeInv
    <2>4. mdatLength <= mdatLength' /\ mdatLength' \in Nat
      BY <2>2, <2>3, <1>0
    <2>5. PICK n \in Nat : n = Len(mdat) /\ DOMAIN mdat = 1 .. n
      BY <1>0
    <2>6. record \in [track : Tracks, index : Nat, at : Nat] /\ record.at = mdatLength
      BY <2>1, <2>3, <1>0
    <2>7. /\ DOMAIN mdat' = 1 .. n + 1 /\ mdat'[n + 1] = record
          /\ \A r \in 1 .. n : mdat'[r] = mdat[r]
      BY <2>2, <2>5, <2>6, <1>0
    <2>8. ASSUME NEW r \in 1 .. n + 1 PROVE mdat'[r].at <= mdatLength'
      <3>1. CASE r = n + 1
        BY <3>1, <2>4, <2>6, <2>7, <1>0
      <3>2. CASE r \in 1 .. n
        <4>1. mdat[r].at <= mdatLength /\ mdat[r].at \in Nat
          <5>1. mdat[r] \in [track : Tracks, index : Nat, at : Nat]
            <6>1. r \in 1 .. Len(mdat)
              BY <3>2, <2>5
            <6> QED
              BY ONLY <6>1, <1>0, ElementOfSeq
          <5> QED
            BY <5>1, <3>2, <2>5, <1>0
        <4>2. mdat'[r].at = mdat[r].at
          BY <3>2, <2>7
        <4> QED
          BY <4>1, <4>2, <2>4, <1>0
      <3> QED
        BY <3>1, <3>2
    <2> QED
      BY <2>7, <2>8 DEF InsideTheData
  <1>2. CASE ~WriteSlice
    <2>1. UNCHANGED <<mdat, mdatLength>>
      BY <1>2 DEF Next, WriteStep, Finalize, Put, AddToTables, TablesDone, SamplesWritten,
                  BeginFinalize, FlushTrack, FinalizeBoxes, vars, mdatVars
    <2> QED
      BY <2>1, <1>0 DEF InsideTheData
  <1> QED
    BY <1>1, <1>2

LEMMA InitTablesSay == Init => TablesSay
  <1> SUFFICES ASSUME Init, NEW t \in Tracks
               PROVE  SizesRight(t, stsz[t], Len(stco[t])) /\ SyncRight(t, stss[t], Len(stco[t]))
    BY DEF TablesSay
  <1>1. stsz[t] = <<>> /\ stss[t] = <<>> /\ Len(stco[t]) = 0
    BY DEF Init
  <1>2. Len(Source[t]) \in Nat
    BY SourceAssumption
  <1>3. SizesRight(t, <<>>, 0)
    BY <1>2 DEF SizesRight
  <1>4. SyncRight(t, <<>>, 0)
    BY DEF SyncRight, ToSet
  <1> QED
    BY <1>1, <1>3, <1>4

LEMMA InitTimesSay == Init => TimesSay
  <1> SUFFICES ASSUME Init, NEW t \in Tracks PROVE TimesRight(t, stts[t], Len(stco[t])) /\ state # "Closed"
    BY DEF TimesSay
  <1>1. stts[t] = [runs |-> <<>>, count |-> 0, last |-> 0] /\ Len(stco[t]) = 0
    BY DEF Init
  <1>2. Durations(t, 0) = <<>>
    BY DEF Durations
  <1>3. Spells(<<>>, 0, 0, Durations(t, 0))
    BY <1>2, SpellsNothing
  <1>4. TimesRight(t, stts[t], 0)
    BY <1>1, <1>3 DEF TimesRight
  <1> QED
    BY <1>1, <1>4 DEF Init

LEMMA ReadInvAlways == Spec => []ReadInv
  <1>1. Init => ReadInv
    BY InitTypeInv, InitLogInv, InitTablesSay DEF ReadInv, Init, Finished, InsideTheData
  <1>2. ReadInv /\ [Next]_vars => ReadInv'
    BY NextTypeInv, NextLogInv, NextTablesSay, NextFinished, NextInsideTheData DEF ReadInv
  <1> QED
    BY <1>1, <1>2, PTL DEF Spec

LEMMA TimesSayAlways == LongEnough => (Spec => []TimesSay)
  <1> SUFFICES ASSUME LongEnough PROVE Spec => []TimesSay
    OBVIOUS
  <1>1. Init => TimesSay
    BY InitTimesSay
  <1>2. ReadInv /\ TimesSay /\ [Next]_vars => TimesSay'
    BY NextTimesSay
  <1> QED
    BY <1>1, <1>2, ReadInvAlways, PTL DEF Spec

-----------------------------------------------------------------------------
(***************************************************************************)
(* The reader of a finished file.  Its tables have as many samples as the  *)
(* track has slices, and the list has the sample of every slice, if there  *)
(* is a list.                                                              *)
(***************************************************************************)
Count(t) == Len(stco[t])

LEMMA ClosedTables ==
  ASSUME ReadInv, state = "Closed", NEW t \in Tracks
  PROVE  /\ Count(t) \in Nat \ {0} /\ Count(t) = put[t]
         /\ Count(t) <= Len(Source[t]) /\ Len(Source[t]) \in Nat
         /\ stsz[t] \in Seq(Nat) /\ Len(stsz[t]) = Count(t)
         /\ \A k \in 1 .. Count(t) : stsz[t][k] = Source[t][k].size
         /\ ToSet(stss[t]) = {k \in 1 .. Count(t) : Source[t][k].type = "IFrame"}
         /\ stco[t] \in Seq(Nat)
  <1>1. SizesRight(t, stsz[t], Len(stco[t])) /\ SyncRight(t, stss[t], Len(stco[t]))
    BY DEF ReadInv, TablesSay
  <1>2. stsz[t] # <<>> /\ Len(stco[t]) = put[t]
    BY DEF ReadInv, Finished
  <1>3. stsz[t] \in Seq(Nat) /\ stco[t] \in Seq(Nat) /\ Len(stsz[t]) = Len(stco[t])
    BY <1>1 DEF SizesRight, ReadInv, TypeInv, IInv, Types
  <1>4. Len(stsz[t]) # 0
    BY <1>2, <1>3
  <1>5. Source[t] \in Seq(Slice)
    BY SourceAssumption
  <1>6. Len(Source[t]) \in Nat
    BY <1>5
  <1>7. Len(stco[t]) \in Nat \ {0}
    <2>1. Len(stco[t]) \in Nat
      BY <1>3
    <2> QED
      BY <2>1, <1>3, <1>4
  <1>8. /\ Len(stco[t]) <= Len(Source[t]) /\ Len(stsz[t]) = Len(stco[t])
        /\ \A k \in 1 .. Len(stco[t]) : stsz[t][k] = Source[t][k].size
    BY <1>1, <1>6 DEF SizesRight
  <1>9. ToSet(stss[t]) = {k \in 1 .. Len(stco[t]) : Source[t][k].type = "IFrame"}
    BY <1>1 DEF SyncRight
  <1> QED
    BY <1>2, <1>3, <1>6, <1>7, <1>8, <1>9 DEF Count

LEMMA DurationsUpTo ==
  ASSUME NEW t, NEW n \in Nat, NEW k \in 1 .. n, Durations(t, n) \in Seq(Nat)
  PROVE  SubSeq(Durations(t, n), 1, k - 1) = Durations(t, k - 1)
  <1>1. PICK d : d = Durations(t, n)
    OBVIOUS
  <1>2. PICK j \in Nat : j = k - 1 /\ j < n
    OBVIOUS
  <1>3. d \in Seq(Nat) /\ Len(d) = n /\ \A i \in 1 .. n : d[i] = ScaledAt(t, i)
    BY <1>1 DEF Durations
  <1>4. SubSeq(d, 1, j) = [i \in 1 .. j |-> d[i]]
    BY <1>2, <1>3
  <1>5. \A i \in 1 .. j : i \in 1 .. n
    BY <1>2
  <1>6. [i \in 1 .. j |-> d[i]] = [i \in 1 .. j |-> ScaledAt(t, i)]
    BY <1>3, <1>5
  <1> QED
    BY <1>1, <1>2, <1>4, <1>6 DEF Durations

LEMMA ListOfWritten ==
  ASSUME ReadInv, TimesSay, state = "Closed", NEW t \in Tracks
  PROVE  /\ Expand(Written(t).stts) = Durations(t, Count(t))
         /\ Durations(t, Count(t)) \in Seq(Nat) /\ Len(Durations(t, Count(t))) = Count(t)
         /\ Listed(Written(t), 1, put[t]) = 1 .. Count(t)
         /\ \A s \in ReadAgain(t).samples : \E k \in 1 .. Count(t) :
              s = SampleInfo(Written(t), k, TimeScale, TicksPerSecond)
  <1>1. Written(t).stts = stts[t].runs
    BY DEF Written
  <1>2. Expand(Written(t).stts) = Durations(t, Count(t)) /\ stts[t].runs \in Seq(Run)
    BY <1>1 DEF TimesSay, TimesDone, Count
  <1>3. Durations(t, Count(t)) \in Seq(Nat)
    BY <1>1, <1>2, ExpandType
  <1>4. PICK n \in Nat : n = Count(t) /\ n = put[t]
    BY ClosedTables
  <1>5. Len(Durations(t, n)) = n
    BY DEF Durations
  <1>6. Listed(Written(t), 1, put[t]) = 1 .. n
    <2>1. PICK tb, d : tb = Written(t) /\ d = Expand(tb.stts)
      OBVIOUS
    <2>2. Len(d) = n
      BY <2>1, <1>2, <1>4, <1>5
    <2>3. Listed(tb, 1, n) = {k \in 1 .. n : 1 <= k /\ k <= n}
      BY <2>1, <2>2 DEF Listed
    <2>4. {k \in 1 .. n : 1 <= k /\ k <= n} = 1 .. n
      OBVIOUS
    <2>5. Listed(tb, 1, n) = 1 .. n
      BY <2>3, <2>4
    <2> QED
      BY <2>1, <2>5, <1>4
  <1>7. ASSUME NEW s \in ReadAgain(t).samples
        PROVE  \E k \in 1 .. n : s = SampleInfo(Written(t), k, TimeScale, TicksPerSecond)
    <2>1. PICK tb : tb = Written(t)
      OBVIOUS
    <2>2. ReadAgain(t) = SampleList(tb, 1, n, TimeScale, TicksPerSecond)
      BY <2>1, <1>4 DEF ReadAgain
    <2>3. Listed(tb, 1, n) = 1 .. n
      BY <2>1, <1>4, <1>6
    <2>4. s \in SampleList(tb, 1, n, TimeScale, TicksPerSecond).samples
      BY <2>2
    <2>5. s \in {SampleInfo(tb, k, TimeScale, TicksPerSecond) : k \in Listed(tb, 1, n)}
      BY <2>4 DEF SampleList
    <2> QED
      BY <2>1, <2>3, <2>5
  <1> QED
    BY <1>2, <1>3, <1>4, <1>5, <1>6, <1>7

(***************************************************************************)
(* If every slice is long enough to count in the media header, the reader  *)
(* gives every slice the time that the durations before it add up to, and  *)
(* the sync samples of a video track are the IFrames.                      *)
(***************************************************************************)
THEOREM ReadsTheTiming == LongEnough => (Spec => []ReadsTiming)
  <1> SUFFICES ASSUME LongEnough PROVE Spec => []ReadsTiming
    OBVIOUS
  <1>1. ASSUME ReadInv, TimesSay PROVE ReadsTiming
    <2> SUFFICES ASSUME state = "Closed", NEW t \in Tracks, NEW s \in ReadAgain(t).samples
                 PROVE  /\ s.time = TimeBefore(t, s.index)
                        /\ t \in VideoTracks => s.sync = (SliceAt(t, s.index).type = "IFrame")
      BY DEF ReadsTiming
    <2>1. PICK n \in Nat : n = Count(t)
      BY <1>1, ClosedTables
    <2>2. PICK tb : tb = Written(t)
      OBVIOUS
    <2>3. PICK k \in 1 .. n : s = SampleInfo(tb, k, TimeScale, TicksPerSecond)
      BY <1>1, <2>1, <2>2, ListOfWritten
    <2>4. s.index = k - 1 /\ s.time = SampleTime(tb, k - 1, TimeScale, TicksPerSecond) /\ s.sync = (k \in tb.stss)
      BY <2>3 DEF SampleInfo
    <2>5. UnitsBefore(tb, k - 1) = Total(Durations(t, k - 1))
      <3>1. Expand(tb.stts) = Durations(t, n) /\ Durations(t, n) \in Seq(Nat)
        BY <1>1, <2>1, <2>2, ListOfWritten
      <3>2. SubSeq(Durations(t, n), 1, k - 1) = Durations(t, k - 1)
        BY <3>1, DurationsUpTo
      <3> QED
        BY <3>1, <3>2 DEF UnitsBefore
    <2>6. s.time = TimeBefore(t, s.index)
      BY <2>4, <2>5 DEF SampleTime, TimeBefore, Durations, ScaledAt
    <2>7. ASSUME t \in VideoTracks PROVE s.sync = (SliceAt(t, s.index).type = "IFrame")
      <3>1. tb.stss = ToSet(stss[t])
        BY <2>2, <2>7 DEF Written, SyncAsWritten
      <3>2. ToSet(stss[t]) = {j \in 1 .. n : Source[t][j].type = "IFrame"}
        BY <1>1, <2>1, ClosedTables
      <3>3. SliceAt(t, s.index) = Source[t][k]
        <4>1. k - 1 + 1 = k
          OBVIOUS
        <4> QED
          BY <4>1, <2>4 DEF SliceAt
      <3> QED
        BY <2>4, <3>1, <3>2, <3>3
    <2> QED
      BY <2>6, <2>7
  <1>2. ReadInv /\ TimesSay => ReadsTiming
    BY <1>1
  <1> QED
    BY <1>2, ReadInvAlways, TimesSayAlways, PTL

(***************************************************************************)
(* Under the same condition the table of durations counts every slice.     *)
(***************************************************************************)
THEOREM SttsCountsEverySample == LongEnough => (Spec => []SttsCountsSamples)
  <1> SUFFICES ASSUME LongEnough PROVE Spec => []SttsCountsSamples
    OBVIOUS
  <1>1. ASSUME ReadInv, TimesSay PROVE SttsCountsSamples
    <2> SUFFICES ASSUME state = "Closed", NEW t \in Tracks PROVE Len(Expand(stts[t].runs)) = put[t]
      BY DEF SttsCountsSamples
    <2>1. Len(Durations(t, Count(t))) = put[t] /\ Expand(Written(t).stts) = Durations(t, Count(t))
      BY <1>1, ClosedTables, ListOfWritten
    <2> QED
      BY <2>1 DEF Written
  <1>2. ReadInv /\ TimesSay => SttsCountsSamples
    BY <1>1
  <1> QED
    BY <1>2, ReadInvAlways, TimesSayAlways, PTL

-----------------------------------------------------------------------------
(***************************************************************************)
(* Where the reader finds a sample, when every sample is a chunk of its    *)
(* own: the search passes one sample per chunk.                            *)
(***************************************************************************)
OnePerChunk(tb, n) ==
  /\ n \in Nat /\ TotalChunks(tb) = n
  /\ tb.stsc = <<[firstChunk |-> 1, perChunk |-> 1]>>

SearchStep(tb, at, c) ==
  IF c = 1 THEN [group |-> 1, first |-> 1]
  ELSE [group |-> IF at[c - 1].group < Len(tb.stsc) /\ tb.stsc[at[c - 1].group + 1].firstChunk = c
                  THEN at[c - 1].group + 1 ELSE at[c - 1].group,
        first |-> at[c - 1].first + tb.stsc[at[c - 1].group].perChunk]

LEMMA ChunkSearchIs ==
  ASSUME NEW tb
  PROVE  ChunkSearch(tb) = CHOOSE at : at = [c \in 1 .. TotalChunks(tb) |-> SearchStep(tb, at, c)]
  BY DEF ChunkSearch, SearchStep

LEMMA SearchOnePerChunk ==
  ASSUME NEW tb, NEW n, OnePerChunk(tb, n), NEW c \in 1 .. n
  PROVE  ChunkSearch(tb)[c] = [group |-> 1, first |-> c]
  <1>0. n \in Nat /\ TotalChunks(tb) = n /\ Len(tb.stsc) = 1 /\ tb.stsc[1].perChunk = 1
    BY DEF OnePerChunk
  <1> DEFINE IsSearch(at) == at = [k \in 1 .. TotalChunks(tb) |-> SearchStep(tb, at, k)]
  <1>1. PICK found : found = [k \in 1 .. n |-> [group |-> 1, first |-> k]]
    OBVIOUS
  <1>2. ASSUME NEW at, NEW k \in 1 .. n, k # 1, at[k - 1] = [group |-> 1, first |-> k - 1]
        PROVE  SearchStep(tb, at, k) = [group |-> 1, first |-> k]
    <2>1. at[k - 1].group = 1 /\ at[k - 1].first = k - 1
      BY <1>2
    <2>2. SearchStep(tb, at, k) = [group |-> 1, first |-> k - 1 + 1]
      BY <2>1, <1>0, <1>2 DEF SearchStep
    <2>3. k - 1 + 1 = k
      BY <1>0
    <2> QED
      BY <2>2, <2>3
  <1>3. IsSearch(found)
    <2>1. ASSUME NEW k \in 1 .. n PROVE SearchStep(tb, found, k) = [group |-> 1, first |-> k]
      <3>1. CASE k = 1
        BY <3>1 DEF SearchStep
      <3>2. CASE k # 1
        <4>1. k - 1 \in 1 .. n
          BY <3>2, <1>0
        <4>2. found[k - 1] = [group |-> 1, first |-> k - 1]
          BY <4>1, <1>1
        <4> QED
          BY <3>2, <4>2, <1>2
      <3> QED
        BY <3>1, <3>2
    <2> QED
      BY <2>1, <1>0, <1>1
  <1>4. PICK at : at = CHOOSE f : IsSearch(f)
    OBVIOUS
  <1>5. IsSearch(at)
    <2> HIDE DEF IsSearch
    <2> QED
      BY <1>3, <1>4
  <1>6. ChunkSearch(tb) = at
    BY <1>4, ChunkSearchIs
  <1>7. \A k \in 1 .. n : at[k] = SearchStep(tb, at, k)
    BY <1>0, <1>5
  <1> DEFINE Good == {k \in 0 .. n : k = 0 \/ at[k] = [group |-> 1, first |-> k]}
  <1>8. 0 \in Good
    BY <1>0
  <1>9. ASSUME NEW k \in 0 .. n - 1, k \in Good PROVE k + 1 \in Good
    <2>1. k + 1 \in 1 .. n /\ k + 1 \in 0 .. n /\ k + 1 - 1 = k
      BY <1>0
    <2>2. CASE k = 0
      <3>1. 1 \in 1 .. n /\ SearchStep(tb, at, 1) = [group |-> 1, first |-> 1]
        BY <2>1, <2>2 DEF SearchStep
      <3>2. at[1] = [group |-> 1, first |-> 1]
        BY <3>1, <1>7
      <3> QED
        BY <3>2, <2>1, <2>2
    <2>3. CASE k # 0
      <3>1. at[k] = [group |-> 1, first |-> k] /\ k + 1 # 1
        BY <2>3, <1>9
      <3>2. SearchStep(tb, at, k + 1) = [group |-> 1, first |-> k + 1]
        BY <3>1, <2>1, <1>2
      <3> QED
        BY <3>2, <2>1, <1>7
    <2> QED
      BY <2>2, <2>3
  <1>10. 0 .. n \subseteq Good
    <2> HIDE DEF Good
    <2> QED
      BY <1>0, <1>8, <1>9, UpToBound
  <1>11. c \in Good /\ c # 0
    <2>1. c \in 0 .. n /\ c # 0
      BY <1>0
    <2> QED
      BY <2>1, <1>10
  <1> QED
    BY <1>6, <1>11

LEMMA LeastIs ==
  ASSUME NEW S \in SUBSET Nat, NEW m \in S, \A k \in S : m <= k
  PROVE  Min(S) = m
  <1>1. \E x \in S : \A y \in S : x <= y
    OBVIOUS
  <1>2. Min(S) \in S /\ \A y \in S : Min(S) <= y
    BY <1>1 DEF Min
  <1>3. Min(S) \in Nat /\ m \in Nat /\ Min(S) >= m /\ Min(S) <= m
    BY <1>2
  <1> QED
    BY <1>3

LEMMA OffsetOnePerChunk ==
  ASSUME NEW tb, NEW n, OnePerChunk(tb, n), NEW k \in 1 .. n, tb.stco[k] \in Nat
  PROVE  GetFileOffset(tb, k) = tb.stco[k]
  <1>0. n \in Nat /\ TotalChunks(tb) = n /\ tb.stsc[1].perChunk = 1
    BY DEF OnePerChunk
  <1>1. ASSUME NEW c \in 1 .. n
        PROVE  LET at == ChunkSearch(tb)[c]
               IN  ReachesSample(at.first, tb.stsc[at.group].perChunk, k) <=> k <= c
    <2>0. ChunkSearch(tb)[c] = [group |-> 1, first |-> c]
      BY SearchOnePerChunk
    <2>1. ChunkSearch(tb)[c].group = 1 /\ ChunkSearch(tb)[c].first = c
      BY <2>0
    <2>2. c + 1 > k <=> k <= c
      BY <1>0
    <2> QED
      BY <2>1, <2>2, <1>0 DEF ReachesSample
  <1>2. ChunksReaching(tb, k) = {c \in 1 .. n : k <= c}
    BY <1>0, <1>1 DEF ChunksReaching
  <1>3. PICK S : S = {c \in 1 .. n : k <= c}
    OBVIOUS
  <1>4. S \in SUBSET Nat /\ k \in S /\ \A c \in S : k <= c
    BY <1>0, <1>3
  <1>5. Min(S) = k
    BY <1>4, LeastIs
  <1>6. ChunkSearch(tb)[k].first = k
    <2>1. ChunkSearch(tb)[k] = [group |-> 1, first |-> k]
      BY SearchOnePerChunk
    <2> QED
      BY <2>1
  <1>7. Total([j \in 1 .. k - k |-> SizeOf(tb, k + j - 1)]) = 0
    <2>1. k - k = 0
      BY <1>0
    <2>2. [j \in 1 .. 0 |-> SizeOf(tb, k + j - 1)] = <<>>
      OBVIOUS
    <2> QED
      BY <2>1, <2>2, TotalEmpty
  <1>8. GetFileOffset(tb, k) = tb.stco[k] + Total([j \in 1 .. k - k |-> SizeOf(tb, k + j - 1)])
    <2>1. ChunksReaching(tb, k) # {} /\ Min(ChunksReaching(tb, k)) = k
      BY <1>2, <1>3, <1>4, <1>5
    <2> QED
      BY <2>1, <1>6 DEF GetFileOffset
  <1> QED
    BY <1>7, <1>8

LEMMA SmallEnough ==
  ASSUME NEW a \in Nat, NEW w \in Nat, a < w
  PROVE  a % w = a
  OBVIOUS

(***************************************************************************)
(* The tables of a finished file have a size and an offset of every        *)
(* sample.                                                                 *)
(***************************************************************************)
LEMMA SampleHasPlace ==
  ASSUME ReadInv, state = "Closed", NEW t \in Tracks, NEW k \in 1 .. Count(t)
  PROVE  /\ HasSize(Written(t), k) /\ SizeOf(Written(t), k) = Source[t][k].size
         /\ GetFileOffset(Written(t), k) = (stco[t][k] + headerSize) % Word
         /\ GetFileOffset(Written(t), k) \in Nat
  <1>1. PICK n \in Nat : n = Count(t) /\ k \in 1 .. n
    BY ClosedTables
  <1>2. PICK tb : tb = Written(t)
    OBVIOUS
  <1>3. /\ stsz[t] \in Seq(Nat) /\ Len(stsz[t]) = n /\ stsz[t][k] = Source[t][k].size
        /\ stco[t] \in Seq(Nat) /\ Len(stco[t]) = n
    BY <1>1, ClosedTables DEF Count
  <1>4. HasSize(tb, k) /\ SizeOf(tb, k) = stsz[t][k]
    <2>1. tb.stsz = SizesAsWritten(t) /\ k \in DOMAIN stsz[t]
      BY <1>1, <1>2, <1>3 DEF Written
    <2>2. CASE \A m \in DOMAIN stsz[t] : stsz[t][m] = stsz[t][1] /\ stsz[t][1] # 0
      <3>1. tb.stsz.all = stsz[t][1]
        BY <2>1, <2>2 DEF SizesAsWritten
      <3>2. stsz[t][k] = stsz[t][1] /\ stsz[t][1] # 0
        BY <2>1, <2>2
      <3> QED
        BY <3>1, <3>2 DEF HasSize, SizeOf
    <2>3. CASE ~ \A m \in DOMAIN stsz[t] : stsz[t][m] = stsz[t][1] /\ stsz[t][1] # 0
      <3>1. tb.stsz = [all |-> 0, count |-> Len(stsz[t]), each |-> stsz[t]]
        BY <2>1, <2>3 DEF SizesAsWritten
      <3>2. tb.stsz.all = 0 /\ tb.stsz.each = stsz[t]
        BY <3>1
      <3> QED
        BY <3>2, <2>1 DEF HasSize, SizeOf
    <2> QED
      BY <2>2, <2>3
  <1>5. (stco[t][k] + headerSize) % Word \in Nat
    <2>1. PICK a \in Nat, w \in Nat \ {0} : a = stco[t][k] + headerSize /\ w = Word
      <3>1. stco[t][k] \in Nat
        BY <1>1, <1>3
      <3>2. headerSize \in Nat
        BY DEF ReadInv, TypeInv, EndTypes
      <3>3. Word \in Nat \ {0}
        BY ScaleAssumption
      <3>4. stco[t][k] + headerSize \in Nat
        BY ONLY <3>1, <3>2
      <3> QED
        BY <3>3, <3>4
    <2>2. a % w \in Nat
      BY ONLY a \in Nat, w \in Nat \ {0}
    <2> QED
      BY <2>1, <2>2
  <1>6. tb.stco[k] = (stco[t][k] + headerSize) % Word /\ OnePerChunk(tb, n)
    <2>1. tb.stco = OffsetsAsWritten(t) /\ tb.stsc = <<[firstChunk |-> 1, perChunk |-> 1]>>
      BY <1>2 DEF Written
    <2>2. DOMAIN stco[t] = 1 .. n
      BY <1>3
    <2>3. tb.stco = [m \in 1 .. n |-> (stco[t][m] + headerSize) % Word]
      BY <2>1, <2>2 DEF OffsetsAsWritten
    <2>4. Len(tb.stco) = n
      BY <2>3
    <2> QED
      BY <2>1, <2>3, <2>4, <1>1 DEF OnePerChunk, TotalChunks
  <1>7. GetFileOffset(tb, k) = (stco[t][k] + headerSize) % Word
    BY <1>1, <1>5, <1>6, OffsetOnePerChunk
  <1> QED
    BY <1>2, <1>3, <1>4, <1>5, <1>7

(***************************************************************************)
(* In a file that fits in offsets of Word values, the offset is where the  *)
(* payload is.                                                             *)
(***************************************************************************)
FileFits == headerSize + 8 + mdatLength < Word

LEMMA SampleIsPayload ==
  ASSUME ReadInv, state = "Closed", FileFits, NEW t \in Tracks, NEW k \in 1 .. Count(t)
  PROVE  GetFileOffset(Written(t), k) \in PayloadAt(t, k - 1)
  <1>1. PICK n \in Nat : n = Count(t) /\ k \in 1 .. n
    BY ClosedTables
  <1>2. PICK r \in DOMAIN mdat : mdat[r].track = t /\ mdat[r].index = k - 1 /\ stco[t][k] = mdat[r].at + 8
    <2>1. stco[t] \in Seq(Nat) /\ Len(stco[t]) = n
      BY <1>1, ClosedTables DEF Count
    <2>2. phase = "idle" /\ k \in DOMAIN stco[t]
      BY <1>1, <2>1 DEF ReadInv, Finished
    <2>3. InPlace(t, k)
      BY <2>2 DEF ReadInv, TypeInv, IInv, EntriesInPlace
    <2> QED
      BY <2>3 DEF InPlace
  <1>3. mdat[r].at \in Nat /\ mdat[r].at <= mdatLength /\ mdatLength \in Nat /\ headerSize \in Nat
    <2>1. mdat \in Seq([track : Tracks, index : Nat, at : Nat])
      BY DEF ReadInv, TypeInv, IInv, Types
    <2>2. mdat[r] \in [track : Tracks, index : Nat, at : Nat]
      BY ONLY <2>1, r \in DOMAIN mdat, LenProperties, ElementOfSeq
    <2>3. mdat[r].at \in Nat
      BY <2>2
    <2> QED
      BY <2>3 DEF ReadInv, TypeInv, IInv, Types, EndTypes, InsideTheData
  <1>4. Word \in Nat
    BY ScaleAssumption
  <1>5. PICK a \in Nat : a = stco[t][k] + headerSize /\ a < Word
    BY <1>2, <1>3, <1>4 DEF FileFits
  <1>6. a % Word = a
    BY <1>4, <1>5, SmallEnough
  <1>7. GetFileOffset(Written(t), k) = mdat[r].at + headerSize + 8
    BY <1>2, <1>3, <1>5, <1>6, SampleHasPlace
  <1> QED
    BY <1>2, <1>7 DEF PayloadAt

-----------------------------------------------------------------------------
(***************************************************************************)
(* How far a slice lags behind, from the slice before it.                  *)
(***************************************************************************)
CaughtUp(t, i) == {k \in 0 .. i : ~LagsBehind(SliceAt(t, k))}

LastCaughtUp(t, i) == IF CaughtUp(t, i) = {} THEN -1 ELSE Max(CaughtUp(t, i))

LagRun(t, last, n) == [k \in 1 .. n |-> ScaledDuration(SliceAt(t, last + k).duration)]

LEMMA LagOfRun ==
  ASSUME NEW t, NEW i
  PROVE  LagOf(t, i) = Total(LagRun(t, LastCaughtUp(t, i), i - LastCaughtUp(t, i)))
  BY DEF LagOf, LagRun, LastCaughtUp, CaughtUp

LEMMA LagRunGrows ==
  ASSUME NEW t \in Tracks, NEW last \in Int, last >= -1, NEW n \in Nat,
         last + n + 1 < Len(Source[t])
  PROVE  /\ LagRun(t, last, n) \in Seq(Nat) /\ Total(LagRun(t, last, n)) \in Nat
         /\ Total(LagRun(t, last, n + 1)) = Total(LagRun(t, last, n)) + ScaledAt(t, last + n + 2)
         /\ ScaledAt(t, last + n + 2) \in Nat
  <1>1. PICK m \in Nat : m = Len(Source[t])
    <2>1. Source[t] \in Seq(Slice)
      BY SourceAssumption
    <2> QED
      BY <2>1
  <1>2. ASSUME NEW k \in 1 .. n + 1
        PROVE  /\ ScaledDuration(SliceAt(t, last + k).duration) = ScaledAt(t, last + k + 1)
               /\ ScaledAt(t, last + k + 1) \in Nat
    <2>1. last + k + 1 \in 1 .. Len(Source[t])
      BY <1>1
    <2> QED
      BY <2>1, SourceAt DEF SliceAt, ScaledAt
  <1>3. PICK d, e : d = LagRun(t, last, n) /\ e = LagRun(t, last, n + 1)
    OBVIOUS
  <1>4. PICK at : at = [k \in 1 .. n + 1 |-> ScaledAt(t, last + k + 1)]
    OBVIOUS
  <1>5. at \in [1 .. n + 1 -> Nat] /\ 1 .. n \subseteq 1 .. n + 1
    <2>1. \A k \in 1 .. n + 1 : ScaledAt(t, last + k + 1) \in Nat
      BY <1>2
    <2>2. 1 .. n \subseteq 1 .. n + 1
      OBVIOUS
    <2> QED
      BY <2>1, <2>2, <1>4
  <1>6. d = [k \in 1 .. n |-> at[k]] /\ e = [k \in 1 .. n + 1 |-> at[k]]
    <2>1. \A k \in 1 .. n + 1 : ScaledDuration(SliceAt(t, last + k).duration) = at[k]
      BY <1>2, <1>4
    <2> QED
      BY <2>1, <1>3, <1>5 DEF LagRun
  <1>7. d \in Seq(Nat) /\ Len(d) = n /\ \A k \in 1 .. n : d[k] = at[k]
    BY <1>5, <1>6
  <1>8. e \in Seq(Nat) /\ Len(e) = n + 1 /\ \A k \in 1 .. n + 1 : e[k] = at[k]
    BY <1>5, <1>6
  <1>9. PICK s \in Nat : s = ScaledAt(t, last + n + 2) /\ s = ScaledAt(t, last + (n + 1) + 1)
    <2>1. last + n + 2 = last + (n + 1) + 1 /\ n + 1 \in 1 .. n + 1
      OBVIOUS
    <2> QED
      BY <2>1, <1>2
  <1>10. at[n + 1] = s
    BY <1>9, <1>4
  <1>11. /\ Append(d, s) \in Seq(Nat) /\ Len(Append(d, s)) = n + 1 /\ Append(d, s)[n + 1] = s
        /\ \A k \in 1 .. n : Append(d, s)[k] = d[k]
    BY <1>7, AppendProperties
  <1>12. \A k \in 1 .. n + 1 : k = n + 1 \/ k \in 1 .. n
    OBVIOUS
  <1>13. \A k \in 1 .. n + 1 : Append(d, s)[k] = e[k]
    BY <1>7, <1>8, <1>11, <1>12, <1>10
  <1>14. Append(d, s) = e
    BY <1>8, <1>11, <1>13, SeqEqual
  <1>15. Total(d) \in Nat /\ Total(e) = Total(d) + s
    BY <1>7, <1>14, TotalAppend
  <1> QED
    BY <1>3, <1>7, <1>9, <1>15

LEMMA LastCaughtUpIs ==
  ASSUME NEW t, NEW i \in Nat
  PROVE  /\ LastCaughtUp(t, i) \in -1 .. i
         /\ ~LagsBehind(SliceAt(t, i)) => LastCaughtUp(t, i) = i
         /\ LagsBehind(SliceAt(t, i)) =>
              LastCaughtUp(t, i) = IF i = 0 THEN -1 ELSE LastCaughtUp(t, i - 1)
  <1>1. PICK S : S = CaughtUp(t, i)
    OBVIOUS
  <1>2. S \in SUBSET Nat /\ \A k \in S : k <= i /\ k \in 0 .. i
    BY <1>1 DEF CaughtUp
  <1>3. LastCaughtUp(t, i) = IF S = {} THEN -1 ELSE Max(S)
    BY <1>1 DEF LastCaughtUp
  <1>4. LastCaughtUp(t, i) \in -1 .. i
    <2>1. CASE S = {}
      BY <2>1, <1>3
    <2>2. CASE S # {}
      <3>1. Max(S) \in S
        BY <2>2, <1>2, GreatestInside
      <3>2. Max(S) \in 0 .. i
        BY <3>1, <1>2
      <3> QED
        BY <3>2, <2>2, <1>3
    <2> QED
      BY <2>1, <2>2
  <1>5. ASSUME ~LagsBehind(SliceAt(t, i)) PROVE LastCaughtUp(t, i) = i
    <2>1. i \in S
      BY <1>1, <1>5 DEF CaughtUp
    <2>2. Max(S) = i
      BY <2>1, <1>2, GreatestIs
    <2> QED
      BY <2>1, <2>2, <1>3
  <1>6. ASSUME LagsBehind(SliceAt(t, i))
        PROVE  LastCaughtUp(t, i) = IF i = 0 THEN -1 ELSE LastCaughtUp(t, i - 1)
    <2>1. CASE i = 0
      <3>1. S = {}
        BY <2>1, <1>1, <1>6 DEF CaughtUp
      <3> QED
        BY <2>1, <3>1, <1>3
    <2>2. CASE i # 0
      <3>1. \A k : k \in 0 .. i <=> k = i \/ k \in 0 .. i - 1
        BY <2>2
      <3>2. CaughtUp(t, i - 1) = S
        BY <3>1, <1>1, <1>6 DEF CaughtUp
      <3>3. LastCaughtUp(t, i - 1) = IF S = {} THEN -1 ELSE Max(S)
        BY <3>2 DEF LastCaughtUp
      <3> QED
        BY <2>2, <3>3, <1>3
    <2> QED
      BY <2>1, <2>2
  <1> QED
    BY <1>4, <1>5, <1>6

LEMMA LagOfIs ==
  ASSUME NEW t \in Tracks, NEW i \in Nat, i < Len(Source[t])
  PROVE  /\ LagOf(t, i) \in Nat
         /\ ~LagsBehind(SliceAt(t, i)) => LagOf(t, i) = 0
         /\ LagsBehind(SliceAt(t, i)) =>
              LagOf(t, i) = (IF i = 0 THEN 0 ELSE LagOf(t, i - 1)) + ScaledAt(t, i + 1)
  <1>0. PICK m \in Nat : m = Len(Source[t])
    <2>1. Source[t] \in Seq(Slice)
      BY SourceAssumption
    <2> QED
      BY <2>1
  <1>1. PICK last \in -1 .. i : last = LastCaughtUp(t, i)
    BY LastCaughtUpIs
  <1>2. LagOf(t, i) = Total(LagRun(t, last, i - last))
    BY <1>1, LagOfRun
  <1>3. ASSUME last = i PROVE LagOf(t, i) = 0
    <2>1. i - last = 0 /\ LagRun(t, last, 0) = <<>>
      BY <1>3 DEF LagRun
    <2> QED
      BY <2>1, <1>2, TotalEmpty
  <1>4. ASSUME last # i
        PROVE  /\ Total(LagRun(t, last, i - 1 - last)) \in Nat
               /\ LagOf(t, i) = Total(LagRun(t, last, i - 1 - last)) + ScaledAt(t, i + 1)
               /\ ScaledAt(t, i + 1) \in Nat
    <2>1. PICK n \in Nat : n = i - 1 - last /\ n + 1 = i - last
      BY <1>4
    <2>2. last + n + 1 < Len(Source[t]) /\ last + n + 2 = i + 1 /\ last >= -1 /\ last \in Int
      BY <2>1, <1>0
    <2>3. /\ Total(LagRun(t, last, n)) \in Nat /\ ScaledAt(t, last + n + 2) \in Nat
          /\ Total(LagRun(t, last, n + 1)) = Total(LagRun(t, last, n)) + ScaledAt(t, last + n + 2)
      BY <2>2, LagRunGrows
    <2> QED
      BY <2>1, <2>2, <2>3, <1>2
  <1>5. LagOf(t, i) \in Nat
    BY <1>3, <1>4
  <1>6. ASSUME LagsBehind(SliceAt(t, i))
        PROVE  LagOf(t, i) = (IF i = 0 THEN 0 ELSE LagOf(t, i - 1)) + ScaledAt(t, i + 1)
    <2>1. last = IF i = 0 THEN -1 ELSE LastCaughtUp(t, i - 1)
      BY <1>1, <1>6, LastCaughtUpIs
    <2>2. CASE i = 0
      <3>1. last # i /\ i - 1 - last = 0 /\ LagRun(t, last, 0) = <<>>
        BY <2>1, <2>2 DEF LagRun
      <3> QED
        BY <3>1, <2>2, <1>4, TotalEmpty
    <2>3. CASE i # 0
      <3>1. i - 1 \in Nat
        BY <2>3
      <3>2. LastCaughtUp(t, i - 1) \in -1 .. i - 1 /\ last = LastCaughtUp(t, i - 1)
        BY <3>1, <2>1, <2>3, LastCaughtUpIs
      <3>3. last # i
        BY <3>2
      <3>4. LagOf(t, i - 1) = Total(LagRun(t, last, i - 1 - last))
        BY <3>2, LagOfRun
      <3> QED
        BY <2>3, <3>3, <3>4, <1>4
    <2> QED
      BY <2>2, <2>3
  <1>7. ASSUME ~LagsBehind(SliceAt(t, i)) PROVE LagOf(t, i) = 0
    BY <1>1, <1>3, <1>7, LastCaughtUpIs
  <1> QED
    BY <1>5, <1>6, <1>7

-----------------------------------------------------------------------------
(***************************************************************************)
(* The table of composition offsets of a track with n samples, made before *)
(* the first of them, and the table as it is written: without entries when *)
(* one run is all there is.                                                *)
(***************************************************************************)
Lags(t, n) == [k \in 1 .. n |-> LagOf(t, k - 1)]

LagsRight(t, c, n) ==
  /\ Spells(c.runs, c.count, c.prev, Lags(t, n))
  /\ c.synch = IF n = 0 THEN 0 ELSE LagOf(t, n - 1)

LagsDone(t, c, n) ==
  c.runs \in Seq(Run) /\ IF c.runs = <<>> THEN \A k \in 1 .. n : LagOf(t, k - 1) = LagOf(t, 0)
                                          ELSE Expand(c.runs) = Lags(t, n)

LEMMA LagsGrow ==
  ASSUME NEW t \in Tracks, NEW n \in Nat, n < Len(Source[t])
  PROVE  /\ Lags(t, n) \in Seq(Nat) /\ Len(Lags(t, n)) = n
         /\ LagOf(t, n) \in Nat
         /\ Lags(t, n + 1) = Append(Lags(t, n), LagOf(t, n))
  <1>1. PICK m \in Nat : m = Len(Source[t])
    <2>1. Source[t] \in Seq(Slice)
      BY SourceAssumption
    <2> QED
      BY <2>1
  <1>2. \A k \in 1 .. n + 1 : LagOf(t, k - 1) \in Nat
    <2>1. ASSUME NEW k \in 1 .. n + 1 PROVE LagOf(t, k - 1) \in Nat
      <3>1. k - 1 \in Nat /\ k - 1 < Len(Source[t])
        BY <1>1
      <3> QED
        BY <3>1, LagOfIs
    <2> QED
      BY <2>1
  <1>3. PICK d, e : d = Lags(t, n) /\ e = Lags(t, n + 1)
    OBVIOUS
  <1>4. PICK at : at = [k \in 1 .. n + 1 |-> LagOf(t, k - 1)]
    OBVIOUS
  <1>5. at \in [1 .. n + 1 -> Nat] /\ 1 .. n \subseteq 1 .. n + 1
    <2>1. 1 .. n \subseteq 1 .. n + 1
      OBVIOUS
    <2> QED
      BY <2>1, <1>2, <1>4
  <1>6. d = [k \in 1 .. n |-> at[k]] /\ e = [k \in 1 .. n + 1 |-> at[k]]
    BY <1>3, <1>4, <1>5 DEF Lags
  <1>7. d \in Seq(Nat) /\ Len(d) = n /\ \A k \in 1 .. n : d[k] = at[k]
    BY <1>5, <1>6
  <1>8. e \in Seq(Nat) /\ Len(e) = n + 1 /\ \A k \in 1 .. n + 1 : e[k] = at[k]
    BY <1>5, <1>6
  <1>9. PICK s \in Nat : s = LagOf(t, n) /\ s = at[n + 1]
    <2>1. n + 1 \in 1 .. n + 1 /\ n + 1 - 1 = n
      OBVIOUS
    <2>2. LagOf(t, n + 1 - 1) \in Nat /\ at[n + 1] = LagOf(t, n + 1 - 1)
      BY <2>1, <1>2, <1>4
    <2> QED
      BY <2>1, <2>2
  <1>10. /\ Append(d, s) \in Seq(Nat) /\ Len(Append(d, s)) = n + 1 /\ Append(d, s)[n + 1] = s
         /\ \A k \in 1 .. n : Append(d, s)[k] = d[k]
    BY <1>7, AppendProperties
  <1>11. \A k \in 1 .. n + 1 : k = n + 1 \/ k \in 1 .. n
    OBVIOUS
  <1>12. \A k \in 1 .. n + 1 : Append(d, s)[k] = e[k]
    BY <1>7, <1>8, <1>9, <1>10, <1>11
  <1>13. Append(d, s) = e
    BY <1>8, <1>10, <1>12, SeqEqual
  <1> QED
    BY <1>3, <1>7, <1>9, <1>13

LEMMA AddEntrySpells ==
  ASSUME NEW c \in CttsType, NEW seq, Spells(c.runs, c.count, c.prev, seq), NEW lag \in Nat
  PROVE  LET d == AddEntry(c, lag)
         IN  d \in CttsType /\ d.made = c.made /\ Spells(d.runs, d.count, d.prev, Append(seq, lag))
  <1>0. PICK made, runs, count, prev, synch :
          made = c.made /\ runs = c.runs /\ count = c.count /\ prev = c.prev /\ synch = c.synch
    OBVIOUS
  <1>1. /\ c = [made |-> made, runs |-> runs, count |-> count, prev |-> prev, synch |-> synch]
        /\ made \in BOOLEAN /\ synch \in Nat
    BY <1>0 DEF CttsType
  <1>2. Spells(runs, count, prev, seq)
    BY <1>1
  <1>3. runs \in Seq(Run) /\ count \in Nat /\ prev \in Nat
    BY <1>2 DEF Spells
  <1>4. PICK more : more = Append(runs, [count |-> count, value |-> prev])
    OBVIOUS
  <1>5. /\ Spells(runs, count + 1, prev, Append(seq, prev))
        /\ count = 0 => Spells(runs, 1, lag, Append(seq, lag))
        /\ Spells(more, 1, lag, Append(seq, lag))
    BY <1>2, <1>4, SpellsNext
  <1>6. more \in Seq(Run) /\ count + 1 \in Nat
    BY <1>3, <1>5 DEF Spells
  <1>7. PICK d : d = AddEntry(c, lag)
    OBVIOUS
  <1>8. CASE count = 0
    <2>1. d = [made |-> made, runs |-> runs, count |-> 1, prev |-> lag, synch |-> synch]
      BY <1>1, <1>7, <1>8 DEF AddEntry
    <2>2. d.runs = runs /\ d.count = 1 /\ d.prev = lag /\ d.made = c.made
      BY <2>1, <1>1
    <2>3. d \in CttsType
      BY <2>1, <1>1, <1>3 DEF CttsType
    <2> QED
      BY <2>2, <2>3, <1>5, <1>7, <1>8
  <1>9. CASE count # 0 /\ prev = lag
    <2>1. d = [made |-> made, runs |-> runs, count |-> count + 1, prev |-> prev, synch |-> synch]
      BY <1>1, <1>7, <1>9 DEF AddEntry
    <2>2. d.runs = runs /\ d.count = count + 1 /\ d.prev = prev /\ d.made = c.made
      BY <2>1, <1>1
    <2>3. d \in CttsType
      BY <2>1, <1>1, <1>3, <1>6 DEF CttsType
    <2> QED
      BY <2>2, <2>3, <1>5, <1>7, <1>9
  <1>10. CASE count # 0 /\ prev # lag
    <2>1. d = [made |-> made, runs |-> more, count |-> 1, prev |-> lag, synch |-> synch]
      BY <1>1, <1>4, <1>7, <1>10 DEF AddEntry
    <2>2. d.runs = more /\ d.count = 1 /\ d.prev = lag /\ d.made = c.made
      BY <2>1, <1>1
    <2>3. d \in CttsType
      BY <2>1, <1>1, <1>2, <1>6 DEF CttsType
    <2> QED
      BY <2>2, <2>3, <1>5, <1>7
  <1> QED
    BY <1>8, <1>9, <1>10

LEMMA LagsRightNext ==
  ASSUME NEW t \in Tracks, NEW n \in Nat, n < Len(Source[t]), NEW c \in CttsType, c.made,
         LagsRight(t, c, n)
  PROVE  LagsRight(t, Composed(c, Source[t][n + 1]), n + 1)
  <1>1. PICK lag : lag = LagOf(t, n)
    OBVIOUS
  <1>2. lag \in Nat /\ Lags(t, n + 1) = Append(Lags(t, n), lag)
    BY <1>1, LagsGrow
  <1>3. lag = IF LagsBehind(Source[t][n + 1])
              THEN c.synch + ScaledDuration(Source[t][n + 1].duration) ELSE 0
    <2>1. SliceAt(t, n) = Source[t][n + 1] /\ ScaledAt(t, n + 1) = ScaledDuration(Source[t][n + 1].duration)
      BY DEF SliceAt, ScaledAt
    <2>2. c.synch = IF n = 0 THEN 0 ELSE LagOf(t, n - 1)
      BY DEF LagsRight
    <2>3. /\ ~LagsBehind(SliceAt(t, n)) => LagOf(t, n) = 0
          /\ LagsBehind(SliceAt(t, n)) =>
               LagOf(t, n) = (IF n = 0 THEN 0 ELSE LagOf(t, n - 1)) + ScaledAt(t, n + 1)
      BY LagOfIs
    <2> QED
      BY <2>1, <2>2, <2>3, <1>1
  <1>4. PICK d : d = AddEntry(c, lag)
    OBVIOUS
  <1>5. d \in CttsType /\ Spells(d.runs, d.count, d.prev, Lags(t, n + 1))
    <2>1. Spells(c.runs, c.count, c.prev, Lags(t, n))
      BY DEF LagsRight
    <2> QED
      BY <2>1, <1>2, <1>4, AddEntrySpells
  <1>6. PICK e : e = Composed(c, Source[t][n + 1])
    OBVIOUS
  <1>7. e = [d EXCEPT !.synch = lag]
    BY <1>3, <1>4, <1>6 DEF Composed
  <1>8. e.runs = d.runs /\ e.count = d.count /\ e.prev = d.prev /\ e.synch = lag
    BY <1>5, <1>7 DEF CttsType
  <1>9. e.synch = IF n + 1 = 0 THEN 0 ELSE LagOf(t, n + 1 - 1)
    <2>1. n + 1 # 0 /\ n + 1 - 1 = n
      OBVIOUS
    <2> QED
      BY <2>1, <1>1, <1>8
  <1> QED
    BY <1>5, <1>6, <1>8, <1>9 DEF LagsRight

LEMMA LagsRightDone ==
  ASSUME NEW t, NEW n \in Nat, NEW c \in CttsType, LagsRight(t, c, n)
  PROVE  LagsDone(t, ComposedLast(c), n)
  <1>1. PICK runs, count, prev : runs = c.runs /\ count = c.count /\ prev = c.prev
    OBVIOUS
  <1>2. Spells(runs, count, prev, Lags(t, n))
    BY <1>1 DEF LagsRight
  <1>3. /\ runs \in Seq(Run) /\ count \in Nat /\ prev \in Nat
        /\ Lags(t, n) = Expand(runs) \o Repeated([count |-> count, value |-> prev])
    BY <1>2 DEF Spells
  <1>4. CASE runs = <<>>
    <2>1. PICK rep : rep = Repeated([count |-> count, value |-> prev])
      OBVIOUS
    <2>2. rep \in Seq(Nat) /\ Len(rep) = count /\ \A k \in 1 .. count : rep[k] = prev
      BY <2>1, <1>3, RepeatedType DEF Repeated, Run
    <2>3. Lags(t, n) = rep
      BY <1>3, <1>4, <2>1, <2>2, ExpandEmpty, ConcatEmptySeq
    <2>4. Len(Lags(t, n)) = n /\ \A k \in 1 .. n : Lags(t, n)[k] = LagOf(t, k - 1)
      BY DEF Lags
    <2>5. \A k \in 1 .. n : LagOf(t, k - 1) = prev
      BY <2>2, <2>3, <2>4
    <2>6. ASSUME NEW k \in 1 .. n PROVE LagOf(t, k - 1) = LagOf(t, 0)
      <3>1. 1 \in 1 .. n /\ 1 - 1 = 0
        OBVIOUS
      <3>2. LagOf(t, 0) = prev
        BY <3>1, <2>5
      <3> QED
        BY <3>2, <2>5
    <2>7. ComposedLast(c) = c
      BY <1>1, <1>4 DEF ComposedLast
    <2> QED
      BY <2>6, <2>7, <1>1, <1>3, <1>4 DEF LagsDone
  <1>5. CASE runs # <<>>
    <2>1. PICK more : more = Append(runs, [count |-> count, value |-> prev])
      OBVIOUS
    <2>2. more \in Seq(Run) /\ Expand(more) = Lags(t, n) /\ more # <<>>
      <3>1. \A v \in Nat : Spells(more, 1, v, Append(Lags(t, n), v)) /\ Expand(more) = Lags(t, n)
        BY <1>2, <2>1, SpellsNext
      <3>2. Spells(more, 1, 0, Append(Lags(t, n), 0)) /\ Expand(more) = Lags(t, n)
        BY <3>1
      <3>3. more # <<>>
        BY <2>1, <1>3
      <3> QED
        BY <3>2, <3>3 DEF Spells
    <2>3. ComposedLast(c).runs = more
      BY <1>1, <1>5, <2>1 DEF ComposedLast, CttsType
    <2> QED
      BY <2>2, <2>3 DEF LagsDone
  <1> QED
    BY <1>4, <1>5

-----------------------------------------------------------------------------
(***************************************************************************)
(* How far into a track the blocks reach that were begun: a block counts   *)
(* as soon as it is begun, since its slices then decided on the box.       *)
(***************************************************************************)
ReachOf(t) == IF phase = "idle" \/ job.track # t THEN Len(stco[t]) ELSE Base + Len(job.slices)

Needs(t, k) == Source[t][k].cts > 0 \/ Source[t][k].type = "BFrame"

Begins(t, slices) ==
  /\ phase = "idle" /\ phase' = "tables" /\ job'.track = t /\ job'.slices = slices
  /\ ctts' = [ctts EXCEPT ![t].made = @ \/ NeedsCtts(t, slices)]
  /\ UNCHANGED <<stco, flushing, state>> /\ state # "Closed"

LEMMA BlockBegins ==
  ASSUME ReadInv, [Next]_vars, phase = "idle", phase' # "idle"
  PROVE  \E t \in Tracks : \E slices \in Seq(Nat) :
           /\ Begins(t, slices)
           /\ \/ flushing # 0 /\ put' = put
              \/ /\ flushing = 0 /\ Put(t)
                 /\ slices = SlicesToWrite(Append(buffered[t], put[t]), HeldBack(t))
                 /\ IsBlock(t, Append(buffered[t], put[t]))
  <1>1. job' \in JobType /\ flushing \in Nat
    <2>1. IInv'
      BY NextIInv DEF ReadInv, TypeInv
    <2> QED
      BY <2>1 DEF IInv, Types, JobType, ReadInv, TypeInv
  <1>2. CASE \E t \in Tracks : Put(t)
    <2>1. PICK t \in Tracks : Put(t)
      BY <1>2
    <2>2. PICK held, slices : held = Append(buffered[t], put[t]) /\ slices = SlicesToWrite(held, HeldBack(t))
      OBVIOUS
    <2>3. /\ IsBlock(t, held) /\ StartBlock(t, slices, HeldBack(t))
          /\ UNCHANGED <<flushing, state>>
      BY <2>1, <2>2 DEF Put, Fail, endVars
    <2>4. flushing = 0 /\ state # "Closed" /\ stco' = stco
      BY <2>1 DEF Put, Idle
    <2>5. slices \in Seq(Nat) /\ Begins(t, slices)
      BY <2>3, <2>4, <1>1 DEF StartBlock, Begins, JobType
    <2> QED
      BY <2>1, <2>2, <2>3, <2>4, <2>5
  <1>3. CASE FlushTrack
    <2>1. PICK t \in Tracks : t = MediaTracks[flushing]
      BY <1>3, TracksAssumption DEF FlushTrack
    <2>2. PICK slices : slices = buffered[t]
      OBVIOUS
    <2>3. /\ StartBlock(t, slices, <<>>) /\ UNCHANGED <<flushing, state, stco, put>>
          /\ state # "Closed" /\ flushing \in DOMAIN MediaTracks
      BY <1>3, <2>1, <2>2 DEF FlushTrack, Idle
    <2>4. slices \in Seq(Nat) /\ Begins(t, slices)
      BY <2>3, <1>1 DEF StartBlock, Begins, JobType
    <2>5. flushing # 0
      <3>1. MediaTracks \in Seq(Tracks)
        BY TracksAssumption
      <3> QED
        BY <2>3, <3>1, LenProperties
    <2> QED
      BY <2>3, <2>4, <2>5
  <1> QED
    BY <1>2, <1>3 DEF Next, WriteStep, Finalize, AddToTables, TablesDone, WriteSlice, SamplesWritten,
                      BeginFinalize, FinalizeBoxes, vars

(***************************************************************************)
(* The slices of the block that begins are the next of the track.          *)
(***************************************************************************)
LEMMA BlockReaches ==
  ASSUME ReadInv, [Next]_vars, NEW t \in Tracks, NEW slices \in Seq(Nat), Begins(t, slices)
  PROVE  /\ ReachOf(t)' = Len(stco[t]) + Len(slices) /\ ReachOf(t) = Len(stco[t])
         /\ Len(stco[t]) \in Nat /\ Len(slices) \in Nat
         /\ \A u \in Tracks : u # t => ReachOf(u)' = ReachOf(u)
         /\ Len(stco[t]) + Len(slices) <= put'[t] /\ put'[t] <= Len(Source[t])
         /\ \A j \in 1 .. Len(slices) : SliceAt(t, slices[j]) = Source[t][Len(stco[t]) + j]
  <1>1. IInv'
    BY NextIInv DEF ReadInv, TypeInv
  <1>2. /\ phase = "idle" /\ phase' = "tables" /\ job'.track = t /\ job'.slices = slices
        /\ stco' = stco
    BY DEF Begins
  <1>3. PICK n \in Nat, m \in Nat : n = Len(stco[t]) /\ m = Len(slices)
    BY DEF ReadInv, TypeInv, IInv, Types
  <1>4. Base' = n - (job'.next - 1) /\ job'.next \in Nat /\ job'.next = 1
    <2>1. Base' = n - (job'.next - 1)
      BY <1>2, <1>3 DEF Base, Described
    <2>2. job'.next = 1
      <3>1. \E u, s, r : StartBlock(u, s, r)
        BY <1>2 DEF Next, WriteStep, Finalize, Put, FlushTrack, Fail, AddToTables, TablesDone, WriteSlice,
                    SamplesWritten, BeginFinalize, FinalizeBoxes, vars
      <3> QED
        BY <3>1 DEF StartBlock
    <2> QED
      BY <2>1, <2>2
  <1>5. Base' = n
    BY <1>4
  <1>6. /\ \A j \in DOMAIN slices : slices[j] = n + j - 1
        /\ n + m + Len(job'.rest) = put'[t] /\ Len(job'.rest) \in Nat
    <2>1. job' \in JobType
      BY <1>1 DEF IInv, Types, JobType
    <2>2. Len(job'.rest) \in Nat
      BY <2>1 DEF JobType
    <2> QED
      BY <2>2, <1>1, <1>2, <1>3, <1>5 DEF IInv, BlockIsNext
  <1>7. put'[t] <= Len(Source[t]) /\ put'[t] \in Nat
    BY <1>1 DEF IInv, Types
  <1>8. n + m <= put'[t]
    <2>1. PICK r \in Nat : r = Len(job'.rest)
      BY <1>6
    <2>2. n + m + r = put'[t]
      BY <2>1, <1>6
    <2>3. n + m <= n + m + r
      BY ONLY n \in Nat, m \in Nat, r \in Nat
    <2> QED
      BY <2>2, <2>3
  <1>9. ASSUME NEW j \in 1 .. m PROVE SliceAt(t, slices[j]) = Source[t][n + j]
    <2>1. j \in DOMAIN slices /\ n + j - 1 + 1 = n + j
      BY <1>3
    <2> QED
      BY <2>1, <1>6 DEF SliceAt
  <1>10. /\ ReachOf(t)' = n + m /\ ReachOf(t) = n
         /\ \A u \in Tracks : u # t => ReachOf(u)' = ReachOf(u)
    BY <1>2, <1>3, <1>5 DEF ReachOf
  <1> QED
    BY <1>3, <1>7, <1>8, <1>9, <1>10

LEMMA BlockGoesOn ==
  ASSUME ReadInv, [Next]_vars, phase # "idle" \/ phase' = "idle", NEW t \in Tracks
  PROVE  ReachOf(t)' = ReachOf(t)
  <1>1. /\ stco \in [Tracks -> Seq(Nat)] /\ \A u \in Tracks : Len(stco[u]) \in Nat
        /\ job \in JobType /\ job.track \in Tracks
    <2>1. stco \in [Tracks -> Seq(Nat)] /\ job \in JobType
      BY DEF ReadInv, TypeInv, IInv, Types, JobType
    <2>2. ASSUME NEW u \in Tracks PROVE Len(stco[u]) \in Nat
      <3>1. stco[u] \in Seq(Nat)
        BY <2>1
      <3> QED
        BY <3>1
    <2>3. job.track \in Tracks
      BY <2>1 DEF JobType
    <2> QED
      BY <2>1, <2>2, <2>3
  <1>2. CASE AddToTables
    <2>1. /\ phase = "tables" /\ phase' = "tables"
          /\ job'.track = job.track /\ job'.next = job.next + 1 /\ job'.slices = job.slices
      BY <1>1, <1>2 DEF AddToTables, JobType
    <2>2. /\ Len(stco'[job.track]) = Len(stco[job.track]) + 1
          /\ \A u \in Tracks : u # job.track => stco'[u] = stco[u]
      BY <1>1, <1>2 DEF AddToTables
    <2>3. Base' = Base
      <3>1. PICK k \in Nat, n \in Nat : k = Len(stco[job.track]) /\ n = job.next
        BY <1>1 DEF JobType
      <3>2. Base = k - (n - 1) /\ Base' = (k + 1) - ((n + 1) - 1)
        BY <2>1, <2>2, <3>1 DEF Base, Described
      <3>3. k - (n - 1) = (k + 1) - ((n + 1) - 1)
        BY <3>1
      <3> QED
        BY <3>2, <3>3
    <2> QED
      BY <2>1, <2>2, <2>3 DEF ReachOf
  <1>3. CASE TablesDone
    <2>1. phase = "tables" /\ stco' = stco
      BY <1>3 DEF TablesDone, tableVars
    <2>2. job.next = Len(job.slices) + 1 /\ Len(job.slices) \in Nat
      <3>1. job.next \in 1 .. Len(job.slices) + 1 /\ job.next > Len(job.slices)
        BY <2>1, <1>3 DEF TablesDone, ReadInv, TypeInv, IInv, BlockIsNext
      <3>2. Len(job.slices) \in Nat
        BY <1>1 DEF JobType
      <3> QED
        BY <3>1, <3>2
    <2>3. \/ phase' = phase /\ job' = job
          \/ phase' = "data" /\ job' = [job EXCEPT !.next = 1]
      BY <1>3 DEF TablesDone
    <2>4. /\ job'.track = job.track /\ job'.slices = job.slices
          /\ (phase' = "tables" /\ job'.next = job.next) \/ phase' = "data"
      BY <1>1, <2>1, <2>3 DEF JobType
    <2>5. Described' = Described
      BY <2>1, <2>2, <2>4 DEF Described
    <2>6. Base' = Base
      BY <2>1, <2>4, <2>5 DEF Base
    <2> QED
      BY <2>1, <2>4, <2>6 DEF ReachOf
  <1>4. CASE WriteSlice
    <2>1. /\ phase = "data" /\ phase' = "data" /\ stco' = stco
          /\ job'.track = job.track /\ job'.slices = job.slices
      BY <1>1, <1>4 DEF WriteSlice, tableVars, JobType
    <2> QED
      BY <2>1 DEF ReachOf, Base, Described
  <1>5. CASE SamplesWritten
    <2>1. phase = "data" /\ stco' = stco
      BY <1>5 DEF SamplesWritten, tableVars
    <2>2. (phase' = phase /\ job' = job) \/ phase' = "idle"
      BY <1>5 DEF SamplesWritten
    <2>3. Base + Len(job.slices) = Len(stco[job.track])
      <3>1. PICK k \in Nat, n \in Nat : k = Len(stco[job.track]) /\ n = Len(job.slices)
        BY <1>1 DEF JobType
      <3>2. Base = k - n
        BY <2>1, <3>1 DEF Base, Described
      <3>3. k - n + n = k
        BY <3>1
      <3> QED
        BY <3>1, <3>2, <3>3
    <2> QED
      BY <2>1, <2>2, <2>3 DEF ReachOf, Base, Described
  <1>6. CASE \E u \in Tracks : Put(u)
    <2>1. phase = "idle" /\ stco' = stco
      BY <1>6 DEF Put, Idle
    <2> QED
      BY <2>1 DEF ReachOf
  <1>7. CASE BeginFinalize \/ FlushTrack \/ FinalizeBoxes
    <2>1. phase = "idle" /\ stco' = stco
      BY <1>7 DEF BeginFinalize, FlushTrack, FinalizeBoxes, Idle, tableVars
    <2> QED
      BY <2>1 DEF ReachOf
  <1>8. CASE UNCHANGED vars
    BY <1>8 DEF vars, tableVars, ReachOf, Base, Described
  <1> QED
    BY <1>2, <1>3, <1>4, <1>5, <1>6, <1>7, <1>8 DEF Next, WriteStep, Finalize

LEMMA CttsStay ==
  ASSUME [Next]_vars, phase # "idle" \/ phase' = "idle", ~AddToTables, ~FinalizeBoxes
  PROVE  ctts' = ctts
  <1>1. CASE \E t \in Tracks : Put(t)
    BY <1>1 DEF Put, Idle, StartBlock
  <1>2. CASE FlushTrack
    BY <1>2 DEF FlushTrack, Idle, StartBlock
  <1> QED
    BY <1>1, <1>2 DEF Next, WriteStep, Finalize, TablesDone, WriteSlice, SamplesWritten, BeginFinalize,
                      vars, tableVars

(***************************************************************************)
(* No track has a slice in its tables that needs the box, nor in the block *)
(* begun, while it has no box; and a box not made is empty.                *)
(***************************************************************************)
EmptyBox(c) == c.runs = <<>> /\ c.count = 0 /\ c.prev = 0 /\ c.synch = 0

NoNeedSoFar ==
  \A t \in Tracks : ~ctts[t].made =>
    EmptyBox(ctts[t]) /\ (t \in CTTSOut => \A k \in 1 .. ReachOf(t) : ~Needs(t, k))

LEMMA NextNoNeed ==
  ASSUME ReadInv, NoNeedSoFar, [Next]_vars
  PROVE  NoNeedSoFar'
  <1>0. ctts \in [Tracks -> CttsType]
    BY DEF ReadInv, TypeInv, TableTypes
  <1>1. CASE phase = "idle" /\ phase' # "idle"
    <2>1. PICK t \in Tracks, slices \in Seq(Nat) : Begins(t, slices)
      BY <1>1, BlockBegins
    <2>2. PICK n \in Nat, m \in Nat : n = Len(stco[t]) /\ m = Len(slices)
      BY <2>1, BlockReaches
    <2>3. ctts' = [ctts EXCEPT ![t] = [ctts[t] EXCEPT !.made = ctts[t].made \/ NeedsCtts(t, slices)]]
      BY <2>1 DEF Begins
    <2>4. ASSUME NEW u \in Tracks, u # t PROVE ctts'[u] = ctts[u] /\ ReachOf(u)' = ReachOf(u)
      BY <2>1, <2>3, <2>4, <1>0, BlockReaches
    <2>5. ASSUME ~ctts'[t].made
          PROVE  /\ EmptyBox(ctts'[t])
                 /\ t \in CTTSOut => \A k \in 1 .. ReachOf(t)' : ~Needs(t, k)
      <3>1. ctts'[t] = [ctts[t] EXCEPT !.made = ctts[t].made \/ NeedsCtts(t, slices)]
        BY <2>3, <1>0
      <3>2. ctts[t] \in CttsType
        BY <1>0
      <3>3. /\ ctts'[t].made = (ctts[t].made \/ NeedsCtts(t, slices))
            /\ ctts'[t].runs = ctts[t].runs /\ ctts'[t].count = ctts[t].count
            /\ ctts'[t].prev = ctts[t].prev /\ ctts'[t].synch = ctts[t].synch
        BY <3>1, <3>2 DEF CttsType
      <3>4. ~ctts[t].made /\ ~NeedsCtts(t, slices)
        BY <3>3, <2>5
      <3>5. EmptyBox(ctts[t]) /\ (t \in CTTSOut => \A k \in 1 .. ReachOf(t) : ~Needs(t, k))
        BY <3>4 DEF NoNeedSoFar
      <3>6. ASSUME t \in CTTSOut, NEW k \in 1 .. n + m PROVE ~Needs(t, k)
        <4>1. CASE k <= n
          <5>1. k \in 1 .. ReachOf(t)
            BY <4>1, <2>1, <2>2, BlockReaches
          <5> QED
            BY <5>1, <3>5, <3>6
        <4>2. CASE k > n
          <5>0. \A i \in 1 .. Len(slices) : SliceAt(t, slices[i]) = Source[t][Len(stco[t]) + i]
            BY <2>1, BlockReaches
          <5>1. PICK j \in 1 .. m : n + j = k
            <6>1. k - n \in 1 .. m /\ n + (k - n) = k
              BY <4>2
            <6> QED
              BY <6>1
          <5>2. SliceAt(t, slices[j]) = Source[t][k] /\ j \in DOMAIN slices
            BY <5>0, <5>1, <2>2
          <5> QED
            BY <5>2, <3>4, <3>6 DEF NeedsCtts, Needs
        <4> QED
          BY <4>1, <4>2
      <3>7. ReachOf(t)' = n + m
        BY <2>1, <2>2, BlockReaches
      <3> QED
        BY <3>3, <3>5, <3>6, <3>7 DEF EmptyBox
    <2>6. ASSUME NEW u \in Tracks, ~ctts'[u].made
          PROVE  /\ EmptyBox(ctts'[u])
                 /\ u \in CTTSOut => \A k \in 1 .. ReachOf(u)' : ~Needs(u, k)
      <3>1. CASE u = t
        BY <3>1, <2>5, <2>6
      <3>2. CASE u # t
        BY <3>2, <2>4, <2>6 DEF NoNeedSoFar
      <3> QED
        BY <3>1, <3>2
    <2> QED
      BY <2>6 DEF NoNeedSoFar
  <1>2. CASE phase # "idle" \/ phase' = "idle"
    <2>1. ASSUME NEW u \in Tracks, ~ctts'[u].made
          PROVE  ~ctts[u].made /\ (EmptyBox(ctts[u]) => ctts'[u] = ctts[u])
      <3>1. CASE AddToTables
        <4>1. PICK t, s : t \in Tracks /\ ctts' = [ctts EXCEPT ![t] = Composed(@, s)]
          <5>1. job.track \in Tracks
            BY DEF ReadInv, TypeInv, IInv, Types
          <5> QED
            BY <5>1, <3>1 DEF AddToTables
        <4>2. CASE u = t
          <5>1. ctts'[u] = Composed(ctts[u], s)
            BY <4>1, <4>2, <1>0
          <5>2. CASE ctts[u].made
            <6>1. \A v, w : [AddEntry(ctts[u], v) EXCEPT !.synch = w].made
              BY <5>2, <1>0 DEF AddEntry, CttsType
            <6> QED
              BY <6>1, <5>1, <5>2, <2>1 DEF Composed
          <5>3. CASE ~ctts[u].made
            BY <5>1, <5>3 DEF Composed
          <5> QED
            BY <5>2, <5>3
        <4>3. CASE u # t
          BY <4>1, <4>3, <2>1, <1>0
        <4> QED
          BY <4>2, <4>3
      <3>2. CASE FinalizeBoxes
        <4>1. CASE ctts' = ctts
          BY <4>1, <2>1
        <4>2. CASE ctts' = [t \in Tracks |-> ComposedLast(ctts[t])]
          <5>1. ctts'[u] = ComposedLast(ctts[u]) /\ ctts[u] \in CttsType
            BY <4>2, <1>0
          <5>2. ComposedLast(ctts[u]).made = ctts[u].made
            BY <5>1 DEF ComposedLast, CttsType
          <5> QED
            BY <5>1, <5>2, <2>1 DEF ComposedLast, EmptyBox
        <4> QED
          BY <4>1, <4>2, <3>2 DEF FinalizeBoxes
      <3>3. CASE ~AddToTables /\ ~FinalizeBoxes
        BY <3>3, <1>2, <2>1, CttsStay
      <3> QED
        BY <3>1, <3>2, <3>3
    <2>2. \A u \in Tracks : ReachOf(u)' = ReachOf(u)
      BY <1>2, BlockGoesOn
    <2> QED
      BY <2>1, <2>2 DEF NoNeedSoFar
  <1> QED
    BY <1>1, <1>2

(***************************************************************************)
(* The first block of a track has seven slices at least, unless            *)
(* FinalizeStream flushed it: the block size is 8 until eight slices are   *)
(* held, and one of them may be held back.                                 *)
(***************************************************************************)
SizeAtFirst ==
  flushing = 0 =>
    \A t \in Tracks : NothingWritten(t) =>
      put[t] = 0 \/ blockSize[t] = HypothesizedBlockSize \/ Len(buffered[t]) >= HypothesizedBlockSize

DataHasSlices == phase = "data" => job.slices # <<>>

Passed(t) == Flushed(t) \/ (flushing # 0 /\ phase # "idle" /\ job.track = t)

FirstBlockLong ==
  \A t \in Tracks : Passed(t) \/ ReachOf(t) = 0 \/ ReachOf(t) >= HypothesizedBlockSize - 1

CttsInv == SizeAtFirst /\ DataHasSlices /\ FirstBlockLong /\ NoNeedSoFar

LEMMA HeldEnough ==
  ASSUME ReadInv, SizeAtFirst, flushing = 0, phase = "idle", NEW t \in Tracks, stco[t] = <<>>,
         put[t] > 0, NEW held, held = Append(buffered[t], put[t]), Len(held) >= blockSize[t]
  PROVE  Len(held) >= HypothesizedBlockSize
  <1>1. buffered[t] \in Seq(Nat) /\ put[t] \in Nat
    BY DEF ReadInv, TypeInv, IInv, Types
  <1>2. Len(buffered[t]) \in Nat /\ Len(held) = Len(buffered[t]) + 1
    BY <1>1
  <1>3. blockSize[t] = HypothesizedBlockSize \/ Len(buffered[t]) >= HypothesizedBlockSize
    BY <1>1 DEF SizeAtFirst, NothingWritten
  <1> QED
    BY <1>2, <1>3 DEF HypothesizedBlockSize

LEMMA NextSizeAtFirst ==
  ASSUME ReadInv, SizeAtFirst, DataHasSlices, [Next]_vars
  PROVE  SizeAtFirst'
  <1>0. /\ stco \in [Tracks -> Seq(Nat)] /\ buffered \in [Tracks -> Seq(Nat)] /\ put \in [Tracks -> Nat]
        /\ blockSize \in [Tracks -> Int] /\ job \in JobType /\ job.track \in Tracks /\ flushing \in Nat
    BY DEF ReadInv, TypeInv, IInv, Types, JobType
  <1> SUFFICES ASSUME flushing' = 0, NEW t \in Tracks, NothingWritten(t)'
               PROVE  \/ put'[t] = 0 \/ blockSize'[t] = HypothesizedBlockSize
                      \/ Len(buffered'[t]) >= HypothesizedBlockSize
    BY DEF SizeAtFirst
  <1>1. stco'[t] = <<>> /\ (phase' = "idle" \/ job'.track # t)
    BY DEF NothingWritten
  <1>2. CASE NothingWritten(t) /\ flushing = 0 /\ put'[t] = put[t] /\ blockSize'[t] = blockSize[t]
             /\ buffered'[t] = buffered[t]
    BY <1>2 DEF SizeAtFirst
  <1>3. CASE \E u \in Tracks : Put(u)
    <2>1. PICK u \in Tracks : Put(u)
      BY <1>3
    <2>2. /\ phase = "idle" /\ flushing = 0 /\ stco' = stco /\ put' = [put EXCEPT ![u] = @ + 1]
      BY <2>1 DEF Put, Idle
    <2>3. NothingWritten(t)
      BY <2>2, <1>1 DEF NothingWritten
    <2>4. PICK held : held = Append(buffered[u], put[u])
      OBVIOUS
    <2>5. CASE u # t
      <3>1. put'[t] = put[t]
        BY <2>2, <2>5, <1>0
      <3>2. blockSize'[t] = blockSize[t] /\ buffered'[t] = buffered[t]
        BY <2>1, <2>5, <1>0 DEF Put, StartBlock
      <3> QED
        BY <3>1, <3>2, <2>2, <2>3, <1>2
    <2>6. CASE u = t
      <3>1. phase' = "idle"
        <4>1. phase' # "idle" => job'.track = t
          <5>1. Put(t)
            BY <2>1, <2>6
          <5>2. phase' = phase \/ \E slices, rest : StartBlock(t, slices, rest)
            BY <5>1 DEF Put
          <5>3. (\E slices, rest : StartBlock(t, slices, rest)) => job'.track = t
            BY DEF StartBlock
          <5> QED
            BY <5>2, <5>3, <2>2
        <4> QED
          BY <4>1, <1>1
      <3>2. /\ buffered' = [buffered EXCEPT ![t] = held]
            /\ \/ Measures(t, held)
               \/ ~Measures(t, held) /\ blockSize' = [blockSize EXCEPT ![t] = NewBlockSize(t, held)]
        BY <2>1, <2>4, <2>6, <3>1 DEF Put, StartBlock
      <3>3. buffered'[t] = held
        BY <3>2, <1>0
      <3>4. CASE Measures(t, held)
        BY <3>3, <3>4 DEF Measures
      <3>5. CASE ~Measures(t, held) /\ blockSize' = [blockSize EXCEPT ![t] = NewBlockSize(t, held)]
        <4>1. blockSize'[t] = IF put[t] = 0 THEN HypothesizedBlockSize ELSE blockSize[t]
          BY <3>5, <1>0 DEF NewBlockSize
        <4>2. CASE put[t] = 0
          BY <4>1, <4>2
        <4>3. CASE put[t] # 0
          <5>1. blockSize[t] = HypothesizedBlockSize \/ Len(buffered[t]) >= HypothesizedBlockSize
            BY <4>3, <2>2, <2>3 DEF SizeAtFirst
          <5>2. Len(held) = Len(buffered[t]) + 1 /\ Len(buffered[t]) \in Nat
            BY <2>4, <2>6, <1>0
          <5> QED
            BY <4>1, <4>3, <5>1, <5>2, <3>3 DEF HypothesizedBlockSize
        <4> QED
          BY <4>2, <4>3
      <3> QED
        BY <3>2, <3>4, <3>5
    <2> QED
      BY <2>5, <2>6
  <1>4. CASE AddToTables
    <2>1. /\ phase' = "tables" /\ phase = "tables" /\ UNCHANGED <<put, blockSize, buffered, flushing>>
          /\ job'.track = job.track /\ stco' = [stco EXCEPT ![job.track] = Append(@, job.offset)]
      BY <1>4, <1>0 DEF AddToTables, endVars, SetFileOffsetForChunk, JobType
    <2>2. t # job.track
      BY <2>1, <1>1
    <2>3. stco'[t] = stco[t]
      BY <2>1, <2>2, <1>0
    <2> QED
      BY <2>1, <2>2, <2>3, <1>1, <1>2 DEF NothingWritten
  <1>5. CASE TablesDone \/ WriteSlice
    <2>1. /\ phase # "idle" /\ phase' # "idle" /\ UNCHANGED <<put, blockSize, buffered, flushing, stco>>
          /\ job'.track = job.track
      BY <1>5, <1>0 DEF TablesDone, WriteSlice, Fail, endVars, tableVars, JobType
    <2> QED
      BY <2>1, <1>1, <1>2 DEF NothingWritten
  <1>6. CASE SamplesWritten
    <2>1. phase = "data" /\ UNCHANGED <<put, blockSize, stco>>
      BY <1>6 DEF SamplesWritten, tableVars
    <2>2. CASE UNCHANGED <<buffered, job, phase, flushing>>
      BY <2>1, <2>2, <1>1, <1>2 DEF NothingWritten
    <2>3. CASE flushing = 0 /\ buffered' = [buffered EXCEPT ![job.track] = job.rest]
      <3>1. t # job.track
        <4>1. PICK k \in Nat, n \in Nat : k = Len(stco[job.track]) /\ n = Len(job.slices)
          BY <1>0 DEF JobType
        <4>2. k - n \in Nat
          BY <2>1, <4>1 DEF ReadInv, TypeInv, IInv, BlockIsNext, Base, Described
        <4>3. n # 0
          BY <2>1, <4>1, <1>0 DEF DataHasSlices, JobType
        <4>4. k # 0
          BY <4>2, <4>3
        <4>5. stco[job.track] # <<>>
          BY <4>1, <4>4
        <4> QED
          BY <4>5, <2>1, <1>1
      <3>2. buffered'[t] = buffered[t]
        BY <3>1, <2>3, <1>0
      <3> QED
        BY <3>1, <3>2, <2>1, <2>3, <1>1, <1>2 DEF NothingWritten
    <2>4. CASE flushing # 0 /\ flushing' = flushing + 1
      BY <2>4, <1>0
    <2> QED
      BY <2>2, <2>3, <2>4, <1>6 DEF SamplesWritten, Fail, endVars
  <1>7. CASE BeginFinalize \/ FlushTrack \/ FinalizeBoxes
    <2>1. CASE BeginFinalize
      BY <2>1 DEF BeginFinalize
    <2>2. CASE FlushTrack
      <3>1. MediaTracks \in Seq(Tracks) /\ flushing \in DOMAIN MediaTracks
        BY <2>2, TracksAssumption DEF FlushTrack
      <3>2. flushing # 0
        BY <3>1, LenProperties
      <3>3. flushing' = flushing \/ flushing' = flushing + 1
        BY <2>2 DEF FlushTrack
      <3> QED
        BY <3>2, <3>3, <1>0
    <2>3. CASE FinalizeBoxes
      <3>1. flushing' = flushing /\ flushing > Len(MediaTracks)
        BY <2>3 DEF FinalizeBoxes, Fail
      <3>2. Len(MediaTracks) \in Nat
        BY TracksAssumption
      <3> QED
        BY <3>1, <3>2, <1>0
    <2> QED
      BY <2>1, <2>2, <2>3, <1>7
  <1>8. CASE UNCHANGED vars
    BY <1>8, <1>1, <1>2 DEF vars, endVars, tableVars, NothingWritten
  <1> QED
    BY <1>3, <1>4, <1>5, <1>6, <1>7, <1>8 DEF Next, WriteStep, Finalize

LEMMA NextDataHasSlices ==
  ASSUME ReadInv, DataHasSlices, [Next]_vars
  PROVE  DataHasSlices'
  <1>0. job \in JobType
    BY DEF ReadInv, TypeInv, IInv, Types, JobType
  <1> SUFFICES ASSUME phase' = "data" PROVE job'.slices # <<>>
    BY DEF DataHasSlices
  <1>1. CASE TablesDone
    <2>1. job.slices # <<>> /\ job' = [job EXCEPT !.next = 1]
      BY <1>1 DEF TablesDone
    <2> QED
      BY <2>1, <1>0 DEF JobType
  <1>2. CASE WriteSlice
    BY <1>2, <1>0 DEF WriteSlice, JobType, DataHasSlices
  <1>3. CASE SamplesWritten
    BY <1>3 DEF SamplesWritten, DataHasSlices
  <1>4. CASE UNCHANGED vars
    BY <1>4 DEF vars, DataHasSlices
  <1> QED
    BY <1>1, <1>2, <1>3, <1>4 DEF Next, WriteStep, Finalize, Put, StartBlock, Idle, AddToTables,
                                  BeginFinalize, FlushTrack, FinalizeBoxes

LEMMA NextFirstBlockLong ==
  ASSUME ReadInv, SizeAtFirst, FirstBlockLong, [Next]_vars
  PROVE  FirstBlockLong'
  <1>0. /\ stco \in [Tracks -> Seq(Nat)] /\ buffered \in [Tracks -> Seq(Nat)] /\ put \in [Tracks -> Nat]
        /\ job \in JobType /\ flushing \in Nat
        /\ \A k \in DOMAIN MediaTracks : k \in Nat /\ k >= 1
    <2>1. MediaTracks \in Seq(Tracks)
      BY TracksAssumption
    <2>2. \A k \in DOMAIN MediaTracks : k \in Nat /\ k >= 1
      BY ONLY <2>1, LenProperties
    <2> QED
      BY <2>2 DEF ReadInv, TypeInv, IInv, Types, JobType
  <1>1. flushing' \in {flushing, flushing + 1}
    <2>1. CASE BeginFinalize
      BY <2>1, <1>0 DEF BeginFinalize
    <2>2. CASE ~BeginFinalize
      BY <2>2 DEF Next, WriteStep, Finalize, Put, Fail, AddToTables, TablesDone, WriteSlice, SamplesWritten,
                  FlushTrack, FinalizeBoxes, vars, endVars
    <2> QED
      BY <2>1, <2>2
  <1>2. ASSUME NEW t \in Tracks, Flushed(t) PROVE Flushed(t)'
    <2>1. PICK k \in DOMAIN MediaTracks : k < flushing /\ MediaTracks[k] = t
      BY <1>2 DEF Flushed
    <2>2. k < flushing'
      BY <2>1, <1>0, <1>1
    <2> QED
      BY <2>1, <2>2 DEF Flushed
  <1>3. ASSUME NEW t \in Tracks, flushing # 0, phase # "idle", job.track = t
        PROVE  Passed(t)'
    <2>1. flushing' # 0
      BY <1>0, <1>1, <1>3
    <2>2. CASE SamplesWritten /\ flushing' = flushing + 1
      <3>1. flushing \in DOMAIN MediaTracks /\ MediaTracks[flushing] = t
        BY <1>3 DEF ReadInv, TypeInv, IInv, BlockIsNext
      <3>2. flushing < flushing'
        BY <2>2, <1>0
      <3> QED
        BY <3>1, <3>2 DEF Passed, Flushed
    <2>3. CASE ~(SamplesWritten /\ flushing' = flushing + 1)
      <3>1. phase' # "idle" /\ job'.track = job.track
        BY <2>3, <1>0, <1>3 DEF Next, WriteStep, Finalize, Put, Idle, Fail, AddToTables, TablesDone,
              WriteSlice, SamplesWritten, BeginFinalize, FlushTrack, FinalizeBoxes, vars, JobType, endVars
      <3> QED
        BY <3>1, <2>1, <1>3 DEF Passed
    <2> QED
      BY <2>2, <2>3
  <1>4. CASE phase # "idle" \/ phase' = "idle"
    BY <1>2, <1>3, <1>4, BlockGoesOn DEF FirstBlockLong, Passed
  <1>5. CASE phase = "idle" /\ phase' # "idle"
    <2>1. PICK t \in Tracks, slices \in Seq(Nat) :
            /\ Begins(t, slices)
            /\ \/ flushing # 0 /\ put' = put
               \/ /\ flushing = 0 /\ Put(t)
                  /\ slices = SlicesToWrite(Append(buffered[t], put[t]), HeldBack(t))
                  /\ IsBlock(t, Append(buffered[t], put[t]))
      BY <1>5, BlockBegins
    <2>2. ASSUME NEW u \in Tracks, u # t
          PROVE  Passed(u)' \/ ReachOf(u)' = 0 \/ ReachOf(u)' >= HypothesizedBlockSize - 1
      <3>1. ReachOf(u)' = ReachOf(u)
        BY <2>1, <2>2, BlockReaches
      <3> QED
        BY <3>1, <1>2, <1>5 DEF FirstBlockLong, Passed
    <2>3. CASE flushing # 0
      <3>1. Passed(t)'
        BY <2>1, <2>3, <1>5 DEF Passed, Begins
      <3> QED
        BY <3>1, <2>2 DEF FirstBlockLong
    <2>4. CASE flushing = 0
      <3>1. PICK n \in Nat, m \in Nat :
              n = Len(stco[t]) /\ m = Len(slices) /\ ReachOf(t) = n /\ ReachOf(t)' = n + m
        BY <2>1, BlockReaches
      <3>2. ~Passed(t)
        BY <2>4, <1>0 DEF Passed, Flushed
      <3>3. CASE n >= HypothesizedBlockSize - 1
        <4>1. n + m >= HypothesizedBlockSize - 1
          BY <3>3 DEF HypothesizedBlockSize
        <4> QED
          BY <4>1, <3>1, <2>2 DEF FirstBlockLong
      <3>4. CASE n = 0
        <4>1. PICK held : held = Append(buffered[t], put[t])
          OBVIOUS
        <4>2. /\ IsBlock(t, held) /\ slices = SlicesToWrite(held, HeldBack(t))
              /\ held \in Seq(Nat) /\ Len(held) \in Nat
          BY <2>1, <2>4, <4>1, <1>0
        <4>3. stco[t] = <<>>
          <5>1. stco[t] \in Seq(Nat) /\ Len(stco[t]) = 0
            BY <3>1, <3>4, <1>0
          <5> QED
            BY <5>1
        <4>4. Len(held) >= HypothesizedBlockSize
          BY <4>1, <4>2, <4>3, <2>4, <1>5, HeldEnough DEF IsBlock
        <4>5. Len(HeldBack(t)) \in {0, 1}
          BY DEF HeldBack
        <4>6. m >= HypothesizedBlockSize - 1
          <5>1. PICK h \in Nat, b \in {0, 1} : h = Len(held) /\ b = Len(HeldBack(t))
            BY <4>2, <4>5
          <5>2. slices = SubSeq(held, 1, h - b) /\ h - b <= h /\ h - b >= HypothesizedBlockSize - 1
            <6>1. slices = SubSeq(held, 1, h - b)
              BY <4>2, <5>1 DEF SlicesToWrite
            <6>2. h >= 8
              BY <4>4, <5>1 DEF HypothesizedBlockSize
            <6>3. h - b <= h /\ h - b >= 7
              BY ONLY <6>2, h \in Nat, b \in {0, 1}
            <6> QED
              BY <6>1, <6>3 DEF HypothesizedBlockSize
          <5>3. h - b \in Nat
            BY <5>1, <5>2 DEF HypothesizedBlockSize
          <5>4. Len(slices) = h - b
            BY <4>2, <5>1, <5>2, <5>3
          <5> QED
            BY <5>2, <5>4, <3>1
        <4>7. ReachOf(t)' >= HypothesizedBlockSize - 1
          BY <3>1, <3>4, <4>6
        <4> QED
          BY <4>7, <2>2 DEF FirstBlockLong
      <3> QED
        BY <3>1, <3>2, <3>3, <3>4 DEF FirstBlockLong
    <2> QED
      BY <2>3, <2>4
  <1> QED
    BY <1>4, <1>5

LEMMA InitCttsInv == Init => CttsInv
  <1> SUFFICES ASSUME Init PROVE CttsInv
    OBVIOUS
  <1>1. \A t \in Tracks : stco[t] = <<>> /\ put[t] = 0 /\ ReachOf(t) = 0
    BY DEF Init, ReachOf
  <1>2. \A t \in Tracks : ctts[t] = [made |-> FALSE, runs |-> <<>>, count |-> 0, prev |-> 0, synch |-> 0]
    BY DEF Init
  <1>3. NoNeedSoFar
    BY <1>1, <1>2 DEF NoNeedSoFar, EmptyBox
  <1> QED
    BY <1>1, <1>3 DEF Init, CttsInv, SizeAtFirst, DataHasSlices, FirstBlockLong

LEMMA CttsInvAlways == Spec => []CttsInv
  <1>1. ReadInv /\ CttsInv /\ [Next]_vars => CttsInv'
    BY NextSizeAtFirst, NextDataHasSlices, NextFirstBlockLong, NextNoNeed DEF CttsInv
  <1> QED
    BY <1>1, InitCttsInv, ReadInvAlways, PTL DEF Spec

(***************************************************************************)
(* If the first block of a track already shows that the track needs the    *)
(* box of composition offsets, the box says the offset of every slice.     *)
(***************************************************************************)
CttsFromTheStart ==
  \A t \in CTTSOut :
    \/ \E k \in DOMAIN Source[t] : k < HypothesizedBlockSize /\ Needs(t, k)
    \/ \A k \in DOMAIN Source[t] : ~Needs(t, k)

LagsSay ==
  \A t \in Tracks : ctts[t].made =>
    IF state = "Closed" THEN LagsDone(t, ctts[t], Len(stco[t]))
                        ELSE LagsRight(t, ctts[t], Len(stco[t]))

LEMMA MadeAtTheStart ==
  ASSUME CttsFromTheStart, ReadInv, CttsInv, [Next]_vars,
         NEW t \in Tracks, NEW slices \in Seq(Nat), Begins(t, slices),
         flushing # 0 => put' = put,
         ~ctts[t].made, NeedsCtts(t, slices)
  PROVE  Len(stco[t]) = 0
  <1>1. PICK n \in Nat, m \in Nat, p \in Nat :
          /\ n = Len(stco[t]) /\ m = Len(slices) /\ p = Len(Source[t]) /\ n = ReachOf(t)
          /\ n + m <= put'[t] /\ put'[t] <= p
    <2>1. Source[t] \in Seq(Slice)
      BY SourceAssumption
    <2>2. Len(Source[t]) \in Nat
      BY <2>1
    <2> QED
      BY <2>2, BlockReaches
  <1>2. PICK j \in DOMAIN slices :
          SliceAt(t, slices[j]).cts > 0 \/ SliceAt(t, slices[j]).type = "BFrame"
    BY DEF NeedsCtts
  <1>3. j \in 1 .. m /\ Needs(t, n + j) /\ t \in CTTSOut
    <2>1. j \in 1 .. m
      BY <1>1
    <2>2. \A i \in 1 .. Len(slices) : SliceAt(t, slices[i]) = Source[t][Len(stco[t]) + i]
      BY BlockReaches
    <2>3. SliceAt(t, slices[j]) = Source[t][n + j]
      BY <2>1, <2>2, <1>1
    <2> QED
      BY <2>1, <2>3, <1>2 DEF Needs, NeedsCtts
  <1>4. put' \in [Tracks -> Nat]
    <2>1. IInv'
      BY NextIInv DEF ReadInv, TypeInv
    <2> QED
      BY <2>1 DEF IInv, Types
  <1>5. n + j \in DOMAIN Source[t]
    <2>1. Source[t] \in Seq(Slice) /\ DOMAIN Source[t] = 1 .. p
      BY <1>1, SourceAssumption
    <2>2. put'[t] \in Nat
      BY <1>4
    <2>3. n + j <= n + m
      BY <1>3
    <2> QED
      BY <2>1, <2>2, <2>3, <1>1, <1>3
  <1>6. PICK k \in DOMAIN Source[t] : k < HypothesizedBlockSize /\ Needs(t, k)
    BY <1>3, <1>5 DEF CttsFromTheStart
  <1>7. ~(k \in 1 .. n)
    BY <1>1, <1>3, <1>6 DEF CttsInv, NoNeedSoFar
  <1>8. n < HypothesizedBlockSize - 1
    <2>1. Source[t] \in Seq(Slice)
      BY SourceAssumption
    <2>2. k \in Nat /\ k >= 1
      BY <2>1, LenProperties
    <2> QED
      BY <2>2, <1>6, <1>7 DEF HypothesizedBlockSize
  <1>9. ~Passed(t)
    <2>1. phase = "idle"
      BY DEF Begins
    <2> SUFFICES ASSUME Flushed(t) PROVE FALSE
      BY <2>1 DEF Passed
    <2>2. n = put[t]
      BY <1>1 DEF ReadInv, LogInv, FlushedInFull
    <2>3. flushing # 0
      <3>1. MediaTracks \in Seq(Tracks)
        BY TracksAssumption
      <3>2. \A i \in DOMAIN MediaTracks : i \in Nat /\ i >= 1
        BY ONLY <3>1, LenProperties
      <3> QED
        BY <3>2 DEF Flushed
    <2>4. n + m <= n
      BY <2>2, <2>3, <1>1
    <2> QED
      BY <2>4, <1>3
  <1>10. n = 0 \/ n >= HypothesizedBlockSize - 1
    BY <1>1, <1>9 DEF CttsInv, FirstBlockLong
  <1> QED
    BY <1>1, <1>8, <1>10 DEF HypothesizedBlockSize

LEMMA NextLagsSay ==
  ASSUME CttsFromTheStart, ReadInv, CttsInv, LagsSay, [Next]_vars
  PROVE  LagsSay'
  <1>0. ctts \in [Tracks -> CttsType] /\ stco \in [Tracks -> Seq(Nat)]
    BY DEF ReadInv, TypeInv, TableTypes, IInv, Types
  <1>1. CASE phase = "idle" /\ phase' # "idle"
    <2>1. PICK t \in Tracks, slices \in Seq(Nat) : Begins(t, slices) /\ (flushing # 0 => put' = put)
      BY <1>1, BlockBegins
    <2>2. /\ ctts' = [ctts EXCEPT ![t] = [ctts[t] EXCEPT !.made = ctts[t].made \/ NeedsCtts(t, slices)]]
          /\ stco' = stco /\ state' = state /\ state # "Closed"
      BY <2>1 DEF Begins
    <2>3. /\ ctts'[t].made = (ctts[t].made \/ NeedsCtts(t, slices))
          /\ ctts'[t].runs = ctts[t].runs /\ ctts'[t].count = ctts[t].count
          /\ ctts'[t].prev = ctts[t].prev /\ ctts'[t].synch = ctts[t].synch
      <3>1. ctts'[t] = [ctts[t] EXCEPT !.made = ctts[t].made \/ NeedsCtts(t, slices)] /\ ctts[t] \in CttsType
        BY <2>2, <1>0
      <3> QED
        BY <3>1 DEF CttsType
    <2>4. ASSUME ctts'[t].made PROVE LagsRight(t, ctts'[t], Len(stco[t]))
      <3>1. CASE ctts[t].made
        <4>1. LagsRight(t, ctts[t], Len(stco[t]))
          BY <3>1, <2>2 DEF LagsSay
        <4> QED
          BY <4>1, <2>3 DEF LagsRight
      <3>2. CASE ~ctts[t].made
        <4>1. NeedsCtts(t, slices)
          BY <3>2, <2>3, <2>4
        <4>2. Len(stco[t]) = 0
          BY <3>2, <4>1, <2>1, MadeAtTheStart
        <4>3. EmptyBox(ctts[t])
          BY <3>2 DEF CttsInv, NoNeedSoFar
        <4>4. Lags(t, 0) = <<>> /\ Spells(<<>>, 0, 0, <<>>)
          BY SpellsNothing DEF Lags
        <4>5. LagsRight(t, ctts'[t], 0)
          BY <4>3, <4>4, <2>3 DEF LagsRight, EmptyBox
        <4> QED
          BY <4>2, <4>5
      <3> QED
        BY <3>1, <3>2
    <2>5. ASSUME NEW u \in Tracks, u # t PROVE ctts'[u] = ctts[u]
      BY <2>2, <2>5, <1>0
    <2>6. ASSUME NEW u \in Tracks, ctts'[u].made PROVE LagsRight(u, ctts'[u], Len(stco[u]))
      <3>1. CASE u = t
        BY <3>1, <2>4, <2>6
      <3>2. CASE u # t
        BY <3>2, <2>2, <2>5, <2>6 DEF LagsSay
      <3> QED
        BY <3>1, <3>2
    <2> QED
      BY <2>2, <2>6 DEF LagsSay
  <1>2. CASE AddToTables
    <2>1. PICK t \in Tracks, n \in Nat :
            /\ n = Len(stco[t]) /\ n < Len(Source[t])
            /\ ctts' = [ctts EXCEPT ![t] = Composed(@, Source[t][n + 1])]
            /\ Len(stco'[t]) = n + 1
            /\ \A u \in Tracks : u # t => stco'[u] = stco[u]
      BY <1>2, SliceDescribed DEF ReadInv
    <2>2. state # "Closed" /\ state' # "Closed"
      BY <1>2 DEF AddToTables, endVars
    <2>3. ctts'[t] = Composed(ctts[t], Source[t][n + 1]) /\ ctts[t] \in CttsType
      BY <2>1, <1>0
    <2>4. ASSUME ctts'[t].made PROVE LagsRight(t, ctts'[t], n + 1)
      <3>1. ctts[t].made
        BY <2>3, <2>4 DEF Composed
      <3>2. LagsRight(t, ctts[t], n)
        BY <3>1, <2>1, <2>2 DEF LagsSay
      <3> QED
        BY <3>1, <3>2, <2>1, <2>3, LagsRightNext
    <2>5. ASSUME NEW u \in Tracks, u # t PROVE ctts'[u] = ctts[u] /\ stco'[u] = stco[u]
      BY <2>1, <2>5, <1>0
    <2>6. ASSUME NEW u \in Tracks, ctts'[u].made PROVE LagsRight(u, ctts'[u], Len(stco'[u]))
      <3>1. CASE u = t
        BY <3>1, <2>1, <2>4, <2>6
      <3>2. CASE u # t
        BY <3>2, <2>2, <2>5, <2>6 DEF LagsSay
      <3> QED
        BY <3>1, <3>2
    <2> QED
      BY <2>2, <2>6 DEF LagsSay
  <1>3. CASE FinalizeBoxes
    <2>1. stco' = stco /\ state # "Closed"
      BY <1>3 DEF FinalizeBoxes, Idle
    <2>2. CASE ctts' = ctts /\ state' = "Failed"
      BY <2>1, <2>2 DEF LagsSay
    <2>3. CASE ctts' = [t \in Tracks |-> ComposedLast(ctts[t])] /\ state' = "Closed"
      <3>1. ASSUME NEW t \in Tracks, ctts'[t].made PROVE LagsDone(t, ctts'[t], Len(stco[t]))
        <4>1. ctts'[t] = ComposedLast(ctts[t]) /\ ctts[t] \in CttsType
          BY <2>3, <1>0
        <4>2. ctts[t].made
          BY <4>1, <3>1 DEF ComposedLast, CttsType
        <4>3. LagsRight(t, ctts[t], Len(stco[t])) /\ Len(stco[t]) \in Nat
          BY <4>2, <2>1, <1>0 DEF LagsSay
        <4> QED
          BY <4>1, <4>3, LagsRightDone
      <3> QED
        BY <3>1, <2>1, <2>3 DEF LagsSay
    <2> QED
      BY <2>2, <2>3, <1>3 DEF FinalizeBoxes, Fail
  <1>4. CASE (phase # "idle" \/ phase' = "idle") /\ ~AddToTables /\ ~FinalizeBoxes
    <2>1. UNCHANGED <<ctts, stco>> /\ (state' = "Closed" <=> state = "Closed")
      BY <1>4, CttsStay, TablesStay
    <2> QED
      BY <2>1 DEF LagsSay
  <1> QED
    BY <1>1, <1>2, <1>3, <1>4

LEMMA LagsSayAlways == CttsFromTheStart => (Spec => []LagsSay)
  <1> SUFFICES ASSUME CttsFromTheStart PROVE Spec => []LagsSay
    OBVIOUS
  <1>1. Init => LagsSay
    BY DEF Init, LagsSay
  <1>2. ReadInv /\ CttsInv /\ LagsSay /\ [Next]_vars => LagsSay'
    BY NextLagsSay
  <1> QED
    BY <1>1, <1>2, ReadInvAlways, CttsInvAlways, PTL DEF Spec

-----------------------------------------------------------------------------
(***************************************************************************)
(* The list of samples of a finished file: the reader makes one, and it    *)
(* has a sample of every slice.                                            *)
(***************************************************************************)
LEMMA CttsOfWritten ==
  ASSUME ReadInv, CttsInv, LagsSay, state = "Closed", NEW t \in Tracks
  PROVE  /\ Written(t).ctts = ctts[t].runs
         /\ ~ctts[t].made => ctts[t].runs = <<>>
         /\ ctts[t].made => LagsDone(t, ctts[t], Count(t))
  <1>1. Written(t).ctts = ctts[t].runs
    BY DEF Written
  <1>2. ASSUME ~ctts[t].made PROVE ctts[t].runs = <<>>
    BY <1>2 DEF CttsInv, NoNeedSoFar, EmptyBox
  <1>3. ASSUME ctts[t].made PROVE LagsDone(t, ctts[t], Count(t))
    BY <1>3 DEF LagsSay, Count
  <1> QED
    BY <1>1, <1>2, <1>3

LEMMA LagsOfWritten ==
  ASSUME ReadInv, CttsInv, LagsSay, state = "Closed", NEW t \in Tracks, Written(t).ctts # <<>>
  PROVE  Expand(Written(t).ctts) = Lags(t, Count(t)) /\ Len(Expand(Written(t).ctts)) = Count(t)
  <1>1. LagsDone(t, ctts[t], Count(t)) /\ Written(t).ctts = ctts[t].runs
    BY CttsOfWritten
  <1>2. Expand(Written(t).ctts) = Lags(t, Count(t))
    BY <1>1 DEF LagsDone
  <1>3. PICK n \in Nat : n = Count(t)
    BY ClosedTables
  <1>4. Len(Lags(t, n)) = n
    BY DEF Lags
  <1> QED
    BY <1>2, <1>3, <1>4

LEMMA ReadAgainIs ==
  ASSUME ReadInv, TimesSay, CttsInv, LagsSay, state = "Closed", NEW t \in Tracks
  PROVE  /\ ReadAgain(t).ok
         /\ ReadAgain(t).samples = {SampleInfo(Written(t), k, TimeScale, TicksPerSecond) : k \in 1 .. Count(t)}
  <1>1. PICK n \in Nat : n = Count(t) /\ n = put[t]
    BY ClosedTables
  <1>2. PICK tb : tb = Written(t)
    OBVIOUS
  <1>3. Listed(tb, 1, n) = 1 .. n
    BY <1>1, <1>2, ListOfWritten
  <1>4. ASSUME NEW k \in 1 .. n PROVE CanList(tb, 1, k)
    <2>1. HasSize(tb, k) /\ GetFileOffset(tb, k) \in Nat
      BY <1>1, <1>2, SampleHasPlace
    <2>2. ASSUME tb.ctts # <<>> PROVE k <= Len(Expand(tb.ctts))
      <3>1. Len(Expand(tb.ctts)) = n
        BY <1>1, <1>2, <2>2, LagsOfWritten
      <3> QED
        BY <3>1
    <2>3. GetFileOffset(tb, k) # -1
      BY <2>1
    <2> QED
      BY <2>1, <2>2, <2>3 DEF CanList
  <1>5. \A k \in Listed(tb, 1, n) : CanList(tb, 1, k)
    BY <1>3, <1>4
  <1>6. SampleList(tb, 1, n, TimeScale, TicksPerSecond) =
          [ok |-> TRUE, samples |-> {SampleInfo(tb, k, TimeScale, TicksPerSecond) : k \in Listed(tb, 1, n)}]
    BY <1>5 DEF SampleList
  <1>7. ReadAgain(t) = SampleList(tb, 1, n, TimeScale, TicksPerSecond)
    BY <1>1, <1>2 DEF ReadAgain
  <1> QED
    BY <1>1, <1>2, <1>3, <1>6, <1>7

(***************************************************************************)
(* If every slice is long enough to count in the media header, the need    *)
(* for composition offsets shows in the first block, and the file fits in  *)
(* 32 bit offsets, then the reader finds every slice that was put, and no  *)
(* other, at the place its payload has in the file and with its size.      *)
(***************************************************************************)
THEOREM ReadsThePayloads == LongEnough /\ CttsFromTheStart => (Spec => [](FileFits => ReadsPayloads))
  <1> SUFFICES ASSUME LongEnough, CttsFromTheStart PROVE Spec => [](FileFits => ReadsPayloads)
    OBVIOUS
  <1>1. ASSUME ReadInv, TimesSay, CttsInv, LagsSay, FileFits PROVE ReadsPayloads
    <2> SUFFICES ASSUME state = "Closed", NEW t \in Tracks
                 PROVE  /\ ReadAgain(t).ok
                        /\ {s.index : s \in ReadAgain(t).samples} = 0 .. put[t] - 1
                        /\ \A s \in ReadAgain(t).samples :
                             s.offset \in PayloadAt(t, s.index) /\ s.size = SliceAt(t, s.index).size
      BY DEF ReadsPayloads
    <2>1. PICK n \in Nat : n = Count(t) /\ n = put[t]
      BY <1>1, ClosedTables
    <2>2. PICK tb : tb = Written(t)
      OBVIOUS
    <2> DEFINE info(k) == SampleInfo(tb, k, TimeScale, TicksPerSecond)
    <2>3. ReadAgain(t).ok /\ ReadAgain(t).samples = {info(k) : k \in 1 .. n}
      BY <1>1, <2>1, <2>2, ReadAgainIs
    <2>4. \A k : info(k).index = k - 1 /\ info(k).offset = GetFileOffset(tb, k) /\ info(k).size = SizeOf(tb, k)
      BY DEF SampleInfo
    <2> HIDE DEF info
    <2>5. {s.index : s \in ReadAgain(t).samples} = {k - 1 : k \in 1 .. n}
      BY <2>3, <2>4
    <2>6. {k - 1 : k \in 1 .. n} = 0 .. n - 1
      <3>1. ASSUME NEW i \in 0 .. n - 1 PROVE i \in {k - 1 : k \in 1 .. n}
        <4>1. i + 1 \in 1 .. n /\ i + 1 - 1 = i
          OBVIOUS
        <4> QED
          BY <4>1
      <3> QED
        BY <3>1
    <2>7. ASSUME NEW s \in ReadAgain(t).samples
          PROVE  s.offset \in PayloadAt(t, s.index) /\ s.size = SliceAt(t, s.index).size
      <3>1. PICK k \in 1 .. n : s = info(k)
        BY <2>3
      <3>2. s.index = k - 1 /\ s.offset = GetFileOffset(tb, k) /\ s.size = SizeOf(tb, k)
        BY <3>1, <2>4
      <3>3. GetFileOffset(tb, k) \in PayloadAt(t, k - 1)
        BY <1>1, <2>1, <2>2, SampleIsPayload
      <3>4. SizeOf(tb, k) = Source[t][k].size
        BY <1>1, <2>1, <2>2, SampleHasPlace
      <3>5. SliceAt(t, k - 1) = Source[t][k]
        <4>1. n <= Len(Source[t]) /\ Len(Source[t]) \in Nat
          BY <1>1, <2>1, ClosedTables
        <4>2. k \in 1 .. Len(Source[t])
          BY <4>1
        <4> QED
          BY <4>2, SourceAt
      <3> QED
        BY <3>2, <3>3, <3>4, <3>5
    <2> QED
      BY <2>1, <2>3, <2>5, <2>6, <2>7
  <1>2. ReadInv /\ TimesSay /\ CttsInv /\ LagsSay => (FileFits => ReadsPayloads)
    BY <1>1
  <1> QED
    BY <1>2, ReadInvAlways, TimesSayAlways, CttsInvAlways, LagsSayAlways, PTL

(***************************************************************************)
(* The conditions on the slices of a track with composition offsets: a     *)
(* slice that lags behind is one that makes the writer add the box, and    *)
(* the first slice does not lag behind.                                    *)
(***************************************************************************)
StampedUnlessB ==
  \A t \in CTTSOut : \A k \in DOMAIN Source[t] :
    LagsBehind(Source[t][k]) => Needs(t, k)

StartsCaughtUp == \A t \in CTTSOut : Source[t] # <<>> => ~LagsBehind(Source[t][1])

LEMMA NoLag ==
  ASSUME NEW t \in Tracks, NEW n \in Nat, n <= Len(Source[t]), NEW k \in 1 .. n,
         ~LagsBehind(Source[t][k])
  PROVE  LagOf(t, k - 1) = 0
  <1>1. Source[t] \in Seq(Slice)
    BY SourceAssumption
  <1>2. PICK m \in Nat : m = Len(Source[t])
    BY <1>1
  <1>3. k \in 1 .. m /\ k - 1 \in Nat /\ k - 1 < m
    BY <1>2
  <1>4. SliceAt(t, k - 1) = Source[t][k]
    BY <1>2, <1>3, SourceAt
  <1> QED
    BY <1>2, <1>3, <1>4, LagOfIs

(***************************************************************************)
(* Under these conditions the reader gives every slice that lags behind    *)
(* the composition offset of the durations since the last one that does    *)
(* not, and every other slice none.                                        *)
(***************************************************************************)
THEOREM ReadsTheComposition ==
  LongEnough /\ CttsFromTheStart /\ StampedUnlessB /\ StartsCaughtUp => (Spec => []ReadsComposition)
  <1> SUFFICES ASSUME LongEnough, CttsFromTheStart, StampedUnlessB, StartsCaughtUp
               PROVE  Spec => []ReadsComposition
    OBVIOUS
  <1>1. ASSUME ReadInv, TimesSay, CttsInv, LagsSay PROVE ReadsComposition
    <2> SUFFICES ASSUME state = "Closed", NEW t \in CTTSOut
                 PROVE  /\ ReadAgain(t).ok
                        /\ \A s \in ReadAgain(t).samples : s.ctts = LagOf(t, s.index)
      BY DEF ReadsComposition
    <2>0. t \in Tracks
      BY OptionsAssumption
    <2>1. PICK n \in Nat \ {0} : n = Count(t) /\ n <= Len(Source[t])
      BY <1>1, <2>0, ClosedTables
    <2>2. PICK tb : tb = Written(t)
      OBVIOUS
    <2>3. /\ ReadAgain(t).ok
          /\ ReadAgain(t).samples = {SampleInfo(tb, k, TimeScale, TicksPerSecond) : k \in 1 .. n}
      BY <1>1, <2>0, <2>1, <2>2, ReadAgainIs
    <2>4. ASSUME NEW k \in 1 .. n, tb.ctts = <<>> PROVE LagOf(t, k - 1) = 0
      <3>1. CASE ctts[t].made
        <4>1. LagsDone(t, ctts[t], n) /\ ctts[t].runs = <<>>
          BY <3>1, <1>1, <2>0, <2>1, <2>2, <2>4, CttsOfWritten
        <4>2. LagOf(t, k - 1) = LagOf(t, 0)
          BY <4>1 DEF LagsDone
        <4>3. 1 \in 1 .. n /\ 1 - 1 = 0
          OBVIOUS
        <4>4. Source[t] # <<>>
          <5>1. Len(<<>>) = 0
            OBVIOUS
          <5> QED
            BY <5>1, <2>1
        <4>5. ~LagsBehind(Source[t][1])
          BY <4>4 DEF StartsCaughtUp
        <4>6. LagOf(t, 0) = 0
          BY <4>3, <4>5, <2>0, <2>1, NoLag
        <4> QED
          BY <4>2, <4>6
      <3>2. CASE ~ctts[t].made
        <4>1. ReachOf(t) = n
          BY <1>1, <2>1 DEF ReadInv, Finished, ReachOf, Count
        <4>2. ~Needs(t, k)
          BY <3>2, <4>1, <1>1, <2>0 DEF CttsInv, NoNeedSoFar
        <4>3. k \in DOMAIN Source[t]
          <5>1. Source[t] \in Seq(Slice)
            BY <2>0, SourceAssumption
          <5>2. Len(Source[t]) \in Nat /\ DOMAIN Source[t] = 1 .. Len(Source[t])
            BY <5>1
          <5> QED
            BY <5>2, <2>1
        <4>4. ~LagsBehind(Source[t][k])
          BY <4>2, <4>3 DEF StampedUnlessB
        <4> QED
          BY <4>4, <2>0, <2>1, NoLag
      <3> QED
        BY <3>1, <3>2
    <2>5. ASSUME NEW k \in 1 .. n, tb.ctts # <<>> PROVE Expand(tb.ctts)[k] = LagOf(t, k - 1)
      <3>1. Expand(tb.ctts) = Lags(t, n)
        BY <2>5, <1>1, <2>0, <2>1, <2>2, LagsOfWritten
      <3> QED
        BY <3>1 DEF Lags
    <2>6. ASSUME NEW s \in ReadAgain(t).samples PROVE s.ctts = LagOf(t, s.index)
      <3>1. PICK k \in 1 .. n : s = SampleInfo(tb, k, TimeScale, TicksPerSecond)
        BY <2>3
      <3>2. s.index = k - 1 /\ s.ctts = IF tb.ctts = <<>> THEN 0 ELSE Expand(tb.ctts)[k]
        BY <3>1 DEF SampleInfo
      <3>3. CASE tb.ctts = <<>>
        <4>1. LagOf(t, k - 1) = 0
          BY <2>4, <3>3
        <4> QED
          BY <4>1, <3>2, <3>3
      <3>4. CASE tb.ctts # <<>>
        <4>1. Expand(tb.ctts)[k] = LagOf(t, k - 1)
          BY <2>5, <3>4
        <4> QED
          BY <4>1, <3>2, <3>4
      <3> QED
        BY <3>3, <3>4
    <2> QED
      BY <2>3, <2>6
  <1>2. ReadInv /\ TimesSay /\ CttsInv /\ LagsSay => ReadsComposition
    BY <1>1
  <1> QED
    BY <1>2, ReadInvAlways, TimesSayAlways, CttsInvAlways, LagsSayAlways, PTL
=============================================================================
