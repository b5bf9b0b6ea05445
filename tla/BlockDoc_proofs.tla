--------------------------- MODULE BlockDoc_proofs ---------------------------
(***************************************************************************)
(* Every step keeps a document well formed, its inverse takes it back, and *)
(* its map leaves points where their text is: for documents of any size    *)
(* and any schema.  The last sections are about runs of steps and of the   *)
(* instructions of a script, as a transaction makes them.                  *)
(***************************************************************************)
EXTENDS Transactions, TLAPS, FiniteSetTheorems, SequenceTheorems, WellFoundedInduction

(***************************************************************************)
(* Induction over the naturals, for a set of them: a least number outside  *)
(* the set would have one before it.                                       *)
(***************************************************************************)

\* A set with 0 that has with each number the next holds all of them.
LEMMA NaturalSet ==
    ASSUME NEW S, 0 \in S, \A n \in Nat : n \in S => n + 1 \in S
    PROVE  Nat \subseteq S
<1> DEFINE less == {pair \in Nat \X Nat : pair[1] < pair[2]}
           T == Nat \ S
<1>1. IsWellFoundedOn(less, Nat)
  BY NatLessThanWellFounded DEF OpToRel
<1> SUFFICES ASSUME T # {} PROVE FALSE
  OBVIOUS
<1>2. PICK x \in T : \A y \in T : <<y, x>> \notin less
  <2> HIDE DEF less
  <2> QED
    BY <1>1, WFMin
<1>3. x # 0 /\ x - 1 \in T
  OBVIOUS
<1>4. x - 1 \in Nat /\ x - 1 < x
  BY <1>3
<1>5. <<x - 1, x>> \in less
  BY <1>4
<1> QED
  BY <1>2, <1>3, <1>5

-----------------------------------------------------------------------------
(***************************************************************************)
(* What is below some blocks.                                              *)
(***************************************************************************)

KidsOf(nodes, b) == ToSet(nodes[b].kids)
KidsOfAll(nodes, S) == UNION {KidsOf(nodes, b) : b \in S}
KidsAreNodes(nodes) == \A b \in DOMAIN nodes : KidsOf(nodes, b) \subseteq DOMAIN nodes
Closed(nodes, S) == \A b \in S : KidsOf(nodes, b) \subseteq S

\* What the levels are made of, each from the one before it.
LevelsBody(nodes, ids, f) ==
    [n \in Nat |-> IF n = 0 THEN ids ELSE f[n - 1] \cup KidsOfAll(nodes, f[n - 1])]

\* The levels are what paths of some length lead to.
LEMMA LevelsExist ==
    ASSUME NEW nodes, NEW ids, ids \subseteq DOMAIN nodes, KidsAreNodes(nodes)
    PROVE  \E f : f = LevelsBody(nodes, ids, f)
<1> DEFINE X == DOMAIN nodes
           IsPath(p, n) == /\ p[0] \in ids
                           /\ \A i \in 0 .. n - 1 : p[i + 1] = p[i] \/ p[i + 1] \in KidsOf(nodes, p[i])
           F(n) == {b \in X : \E p \in [0 .. n -> X] : IsPath(p, n) /\ p[n] = b}
           f == [n \in Nat |-> F(n)]
<1>1. F(0) = ids
  <2>1. ASSUME NEW b \in ids PROVE b \in F(0)
    <3> DEFINE p == [i \in 0 .. 0 |-> b]
    <3>1. p \in [0 .. 0 -> X] /\ IsPath(p, 0) /\ p[0] = b
      OBVIOUS
    <3> QED
      BY <3>1
  <2> QED
    BY <2>1
<1>2. ASSUME NEW n \in Nat \ {0} PROVE F(n) = F(n - 1) \cup KidsOfAll(nodes, F(n - 1))
  <2>1. ASSUME NEW b \in F(n) PROVE b \in F(n - 1) \cup KidsOfAll(nodes, F(n - 1))
    <3>1. PICK p \in [0 .. n -> X] : IsPath(p, n) /\ p[n] = b
      OBVIOUS
    <3> DEFINE q == [i \in 0 .. n - 1 |-> p[i]]
    <3>2. q \in [0 .. n - 1 -> X] /\ IsPath(q, n - 1) /\ q[n - 1] = p[n - 1]
      BY <3>1
    <3>3. p[n - 1] \in F(n - 1)
      <4> HIDE DEF q
      <4> QED
        BY <3>1, <3>2
    <3>4. p[n] = p[n - 1] \/ p[n] \in KidsOf(nodes, p[n - 1])
      BY <3>1
    <3> HIDE DEF F
    <3> QED
      BY <3>1, <3>3, <3>4 DEF KidsOfAll
  <2>2. ASSUME NEW c \in F(n - 1), NEW b, b = c \/ b \in KidsOf(nodes, c) PROVE b \in F(n)
    <3>1. PICK p \in [0 .. n - 1 -> X] : IsPath(p, n - 1) /\ p[n - 1] = c
      OBVIOUS
    <3> DEFINE q == [i \in 0 .. n |-> IF i = n THEN b ELSE p[i]]
    <3>2. b \in X
      BY <2>2 DEF KidsAreNodes
    <3>3. q \in [0 .. n -> X] /\ q[n] = b /\ \A i \in 0 .. n - 1 : q[i] = p[i]
      BY <3>2
    <3>4. IsPath(q, n)
      <4>1. q[0] \in ids
        BY <3>1, <3>3
      <4>2. ASSUME NEW i \in 0 .. n - 1 PROVE q[i + 1] = q[i] \/ q[i + 1] \in KidsOf(nodes, q[i])
        BY <2>2, <3>1, <3>3
      <4> QED
        BY <4>1, <4>2
    <3> HIDE DEF q
    <3> QED
      BY <3>2, <3>3, <3>4
  <2> HIDE DEF F
  <2> QED
    BY <2>1, <2>2 DEF KidsOfAll
<1>3. f = LevelsBody(nodes, ids, f)
  <2> HIDE DEF F
  <2> QED
    BY <1>1, <1>2 DEF LevelsBody
<1> QED
  BY <1>3

\* The levels, each from the one before it.
LEMMA LevelsStep ==
    ASSUME NEW nodes, NEW ids, ids \subseteq DOMAIN nodes, KidsAreNodes(nodes)
    PROVE  /\ Levels(nodes, ids)[0] = ids
           /\ \A n \in Nat : Levels(nodes, ids)[n + 1] =
                 Levels(nodes, ids)[n] \cup KidsOfAll(nodes, Levels(nodes, ids)[n])
<1> DEFINE Body(f) == LevelsBody(nodes, ids, f)
           f == Levels(nodes, ids)
<1>1. \E g : g = Body(g)
  BY LevelsExist
<1>2. f = CHOOSE g : g = Body(g)
  BY DEF LevelsBody, Levels, KidsOfAll, KidsOf
<1>3. f = Body(f)
  <2> HIDE DEF Body, f
  <2> QED
    BY <1>1, <1>2
<1>4. \A n \in Nat : f[n] = IF n = 0 THEN ids ELSE f[n - 1] \cup KidsOfAll(nodes, f[n - 1])
  <2> HIDE DEF f
  <2>1. \A n \in Nat : Body(f)[n] = IF n = 0 THEN ids ELSE f[n - 1] \cup KidsOfAll(nodes, f[n - 1])
    BY DEF LevelsBody
  <2> QED
    BY <1>3, <2>1, Zenon
<1> HIDE DEF f
<1>5. f[0] = ids
  BY <1>4
<1>6. ASSUME NEW n \in Nat PROVE f[n + 1] = f[n] \cup KidsOfAll(nodes, f[n])
  <2>1. n + 1 \in Nat /\ n + 1 # 0 /\ (n + 1) - 1 = n
    OBVIOUS
  <2> QED
    BY <1>4, <2>1
<1> QED
  BY <1>5, <1>6 DEF f

\* The levels stay among the nodes, and inside every closed set they start in.
LEMMA LevelsInside ==
    ASSUME NEW nodes, NEW ids, ids \subseteq DOMAIN nodes, KidsAreNodes(nodes),
           NEW U, ids \subseteq U, Closed(nodes, U)
    PROVE  \A n \in Nat : Levels(nodes, ids)[n] \subseteq U
<1> DEFINE L == Levels(nodes, ids)
           S == {n \in Nat : L[n] \subseteq U}
<1>1. 0 \in S
  BY LevelsStep
<1>2. ASSUME NEW n \in Nat, n \in S PROVE n + 1 \in S
  <2>1. L[n + 1] = L[n] \cup KidsOfAll(nodes, L[n]) /\ L[n] \subseteq U
    BY <1>2, LevelsStep
  <2> HIDE DEF L
  <2>2. L[n + 1] \subseteq U
    BY <2>1 DEF KidsOfAll, Closed
  <2> QED
    BY <2>2
<1>3. Nat \subseteq S
  <2> HIDE DEF S
  <2> QED
    BY <1>1, <1>2, NaturalSet
<1> QED
  BY <1>3

\* After as many levels as there are nodes nothing new can come: what is
\* below some blocks is the least set with them that holds its blocks' children.
LEMMA AllUnderLeast ==
    ASSUME NEW nodes, NEW ids, IsFiniteSet(DOMAIN nodes), ids \subseteq DOMAIN nodes, KidsAreNodes(nodes)
    PROVE  /\ ids \subseteq AllUnder(nodes, ids)
           /\ AllUnder(nodes, ids) \subseteq DOMAIN nodes
           /\ Closed(nodes, AllUnder(nodes, ids))
           /\ \A U : ids \subseteq U /\ Closed(nodes, U) => AllUnder(nodes, ids) \subseteq U
<1> DEFINE X == DOMAIN nodes
           L == Levels(nodes, ids)
           Enough(n) == Closed(nodes, L[n]) \/ Cardinality(L[n]) >= n
           S == {n \in Nat : ids \subseteq L[n] /\ Enough(n)}
<1>1. \A n \in Nat : L[n] \subseteq X
  BY LevelsInside DEF KidsAreNodes, Closed
<1>2. \A n \in Nat : L[n + 1] = L[n] \cup KidsOfAll(nodes, L[n])
  BY LevelsStep
<1>3. L[0] = ids
  BY LevelsStep
<1>4. \A n \in Nat : IsFiniteSet(L[n]) /\ Cardinality(L[n]) \in Nat
  BY <1>1, FS_Subset, FS_CardinalityType
<1> HIDE DEF L
<1>5. 0 \in S
  BY <1>3, <1>4
<1>6. ASSUME NEW n \in Nat, n \in S PROVE n + 1 \in S
  <2>1. n + 1 \in Nat /\ L[n + 1] = L[n] \cup KidsOfAll(nodes, L[n]) /\ ids \subseteq L[n] /\ Enough(n)
    BY <1>2, <1>6
  <2>2. CASE Closed(nodes, L[n])
    BY <2>1, <2>2 DEF Closed, KidsOfAll
  <2>3. CASE ~Closed(nodes, L[n])
    BY <2>1, <2>3, <1>4, FS_Subset DEF Closed, KidsOfAll
  <2> QED
    BY <2>2, <2>3
<1>7. Nat \subseteq S
  <2> HIDE DEF S
  <2> QED
    BY <1>5, <1>6, NaturalSet
<1> DEFINE N == Cardinality(X)
<1>8. N \in Nat /\ AllUnder(nodes, ids) = L[N]
  BY FS_CardinalityType DEF AllUnder, L
<1> HIDE DEF N
<1>9. ids \subseteq L[N] /\ L[N] \subseteq X
  BY <1>1, <1>7, <1>8
<1>10. Closed(nodes, L[N])
  <2>1. CASE Cardinality(L[N]) >= N
    BY <1>1, <1>4, <1>8, <2>1, FS_Subset DEF N, KidsAreNodes, Closed
  <2> QED
    BY <1>7, <1>8, <2>1
<1>11. ASSUME NEW U, ids \subseteq U, Closed(nodes, U) PROVE L[N] \subseteq U
  BY <1>8, <1>11, LevelsInside DEF L
<1> QED
  BY <1>8, <1>9, <1>10, <1>11

-----------------------------------------------------------------------------
(***************************************************************************)
(* Sequences: what taking a part out or putting one in leaves.             *)
(***************************************************************************)

\* A part of a sequence, element by element.
LEMMA PartOf ==
    ASSUME NEW S, NEW s \in Seq(S), NEW at \in Nat, NEW n \in Nat, at + n <= Len(s)
    PROVE  /\ SubSeq(s, at + 1, at + n) \in Seq(S)
           /\ Len(SubSeq(s, at + 1, at + n)) = n
           /\ \A i \in 1 .. n : SubSeq(s, at + 1, at + n)[i] = s[at + i]
<1>1. Len(s) \in Nat /\ \A i \in at + 1 .. at + n : s[i] \in S
  BY LenProperties, ElementOfSeq
<1>2. /\ SubSeq(s, at + 1, at + n) \in Seq(S)
      /\ Len(SubSeq(s, at + 1, at + n)) = IF at + 1 <= at + n THEN (at + n) - (at + 1) + 1 ELSE 0
      /\ \A i \in 1 .. (at + n) - (at + 1) + 1 :
            SubSeq(s, at + 1, at + n)[i] = s[(at + 1) + i - 1]
  BY <1>1, SubSeqProperties
<1>3. \A i \in 1 .. n : i \in 1 .. (at + n) - (at + 1) + 1 /\ (at + 1) + i - 1 = at + i
  OBVIOUS
<1>4. Len(SubSeq(s, at + 1, at + n)) = n
  BY <1>2
<1>5. ASSUME NEW i \in 1 .. n PROVE SubSeq(s, at + 1, at + n)[i] = s[at + i]
  BY <1>2, <1>3
<1> QED
  BY <1>2, <1>4, <1>5

\* What a sequence is after a splice.
IsSpliced(S, s, at, removed, new) ==
    /\ SpliceSeq(s, at, removed, new) \in Seq(S)
    /\ Len(SpliceSeq(s, at, removed, new)) = Len(s) - removed + Len(new)
    /\ \A i \in 1 .. Len(s) - removed + Len(new) :
          SpliceSeq(s, at, removed, new)[i] =
             IF i <= at THEN s[i] ELSE IF i <= at + Len(new) THEN new[i - at] ELSE s[i - Len(new) + removed]

\* A splice, element by element.
LEMMA Splice ==
    ASSUME NEW S, NEW s \in Seq(S), NEW new \in Seq(S),
           NEW at \in Nat, NEW removed \in Nat, at + removed <= Len(s)
    PROVE  IsSpliced(S, s, at, removed, new)
<1> DEFINE front == SubSeq(s, 1, at)
           rest == Len(s) - (at + removed)
           back == SubSeq(s, at + removed + 1, Len(s))
           joined == front \o new
           r == joined \o back
<1>1. Len(s) \in Nat /\ Len(new) \in Nat /\ rest \in Nat
  BY LenProperties
<1>2. front \in Seq(S) /\ Len(front) = at /\ \A i \in 1 .. at : front[i] = s[i]
  <2>1. /\ SubSeq(s, 0 + 1, 0 + at) \in Seq(S) /\ Len(SubSeq(s, 0 + 1, 0 + at)) = at
        /\ \A i \in 1 .. at : SubSeq(s, 0 + 1, 0 + at)[i] = s[0 + i]
    BY <1>1, PartOf
  <2>2. 0 + 1 = 1 /\ 0 + at = at /\ \A i \in 1 .. at : 0 + i = i
    OBVIOUS
  <2> QED
    BY <2>1, <2>2
<1>3. back \in Seq(S) /\ Len(back) = rest /\ \A i \in 1 .. rest : back[i] = s[at + removed + i]
  <2>1. at + removed \in Nat /\ (at + removed) + rest = Len(s)
    BY <1>1
  <2> DEFINE m == at + removed
  <2>2. m \in Nat /\ m + rest <= Len(s) /\ m + rest = Len(s)
    BY <1>1, <2>1
  <2> HIDE DEF m, rest
  <2>3. /\ SubSeq(s, m + 1, m + rest) \in Seq(S) /\ Len(SubSeq(s, m + 1, m + rest)) = rest
        /\ \A i \in 1 .. rest : SubSeq(s, m + 1, m + rest)[i] = s[m + i]
    BY <1>1, <2>2, PartOf
  <2> QED
    BY <2>2, <2>3 DEF m
<1> HIDE DEF front, back
<1>4. /\ joined \in Seq(S) /\ Len(joined) = at + Len(new)
      /\ \A i \in 1 .. at + Len(new) : joined[i] = IF i <= at THEN front[i] ELSE new[i - at]
  BY <1>2, ConcatProperties
<1> HIDE DEF joined
<1>5. /\ r \in Seq(S) /\ Len(r) = Len(joined) + rest
      /\ \A i \in 1 .. Len(joined) + rest : r[i] = IF i <= Len(joined) THEN joined[i] ELSE back[i - Len(joined)]
  BY <1>3, <1>4, ConcatProperties
<1>6. SpliceSeq(s, at, removed, new) = r
  BY DEF SpliceSeq, joined, front, back
<1> HIDE DEF r
<1>7. Len(joined) + rest = Len(s) - removed + Len(new)
  BY <1>1, <1>4
<1>8. ASSUME NEW i \in 1 .. Len(s) - removed + Len(new)
      PROVE  r[i] = IF i <= at THEN s[i]
                    ELSE IF i <= at + Len(new) THEN new[i - at] ELSE s[i - Len(new) + removed]
  <2>1. r[i] = IF i <= at + Len(new) THEN joined[i] ELSE back[i - (at + Len(new))]
    BY <1>4, <1>5, <1>7
  <2>2. CASE i <= at
    BY <1>1, <1>2, <1>4, <2>1, <2>2
  <2>3. CASE i > at /\ i <= at + Len(new)
    BY <1>1, <1>4, <2>1, <2>3
  <2>4. CASE i > at + Len(new)
    <3>1. i - (at + Len(new)) \in 1 .. rest /\ at + removed + (i - (at + Len(new))) = i - Len(new) + removed
      BY <1>1, <2>4
    <3>2. r[i] = s[at + removed + (i - (at + Len(new)))]
      <4>1. r[i] = back[i - (at + Len(new))]
        BY <1>1, <2>1, <2>4
      <4> QED
        BY <1>3, <3>1, <4>1
    <3> QED
      BY <1>1, <2>4, <3>1, <3>2
  <2> QED
    BY <1>1, <2>2, <2>3, <2>4
<1> QED
  BY <1>5, <1>6, <1>7, <1>8 DEF IsSpliced

\* Splicing the part taken out back in its place undoes a splice.
LEMMA SpliceBack ==
    ASSUME NEW S, NEW s \in Seq(S), NEW new \in Seq(S),
           NEW at \in Nat, NEW removed \in Nat, at + removed <= Len(s)
    PROVE  /\ SubSeq(SpliceSeq(s, at, removed, new), at + 1, at + Len(new)) = new
           /\ at + Len(new) <= Len(SpliceSeq(s, at, removed, new))
           /\ SpliceSeq(SpliceSeq(s, at, removed, new), at, Len(new),
                        SubSeq(s, at + 1, at + removed)) = s
<1> DEFINE r == SpliceSeq(s, at, removed, new)
           n == Len(new)
           old == SubSeq(s, at + 1, at + removed)
           back == SpliceSeq(r, at, n, old)
<1>1. Len(s) \in Nat /\ n \in Nat
  BY LenProperties
<1>2. /\ r \in Seq(S) /\ Len(r) = Len(s) - removed + n
      /\ \A i \in 1 .. Len(s) - removed + n :
            r[i] = IF i <= at THEN s[i] ELSE IF i <= at + n THEN new[i - at] ELSE s[i - n + removed]
  BY Splice DEF IsSpliced
<1>3. /\ old \in Seq(S) /\ Len(old) = removed
      /\ \A i \in 1 .. removed : old[i] = s[at + i]
  BY PartOf
<1> HIDE DEF r, n, old
<1>4. at + n <= Len(r)
  BY <1>1, <1>2
<1>5. SubSeq(r, at + 1, at + n) = new
  <2>1. /\ SubSeq(r, at + 1, at + n) \in Seq(S) /\ Len(SubSeq(r, at + 1, at + n)) = n
        /\ \A i \in 1 .. n : SubSeq(r, at + 1, at + n)[i] = r[at + i]
    BY <1>1, <1>2, <1>4, PartOf
  <2>2. ASSUME NEW i \in 1 .. n PROVE r[at + i] = new[i]
    BY <1>1, <1>2
  <2> QED
    BY <2>1, <2>2, SeqEqual DEF n
<1>6. /\ back \in Seq(S) /\ Len(back) = Len(r) - n + Len(old)
      /\ \A i \in 1 .. Len(r) - n + Len(old) :
            back[i] = IF i <= at THEN r[i] ELSE IF i <= at + Len(old) THEN old[i - at] ELSE r[i - Len(old) + n]
  <2>1. r \in Seq(S) /\ old \in Seq(S) /\ n \in Nat /\ at + n <= Len(r)
    BY <1>1, <1>2, <1>3, <1>4
  <2>2. IsSpliced(S, r, at, n, old)
    BY <2>1, Splice
  <2> QED
    BY <2>2 DEF IsSpliced
<1> HIDE DEF back
<1>7. Len(back) = Len(s)
  BY <1>1, <1>2, <1>3, <1>6
<1>8. ASSUME NEW i \in 1 .. Len(s) PROVE back[i] = s[i]
  <2>0. back[i] = IF i <= at THEN r[i] ELSE IF i <= at + removed THEN old[i - at] ELSE r[i - removed + n]
    BY <1>1, <1>2, <1>3, <1>6
  <2>1. CASE i <= at
    BY <1>1, <2>1, <1>2, <2>0
  <2>2. CASE i > at /\ i <= at + removed
    BY <1>1, <2>2, <1>3, <2>0
  <2>3. CASE i > at + removed
    <3>1. /\ i - removed + n \in 1 .. Len(s) - removed + n
          /\ ~(i - removed + n <= at) /\ ~(i - removed + n <= at + n)
          /\ (i - removed + n) - n + removed = i /\ ~(i <= at) /\ ~(i <= at + removed)
      BY <1>1, <2>3
    <3> QED
      BY <1>2, <2>0, <3>1
  <2> QED
    BY <1>1, <2>1, <2>2, <2>3
<1>9. back = s
  BY <1>6, <1>7, <1>8, SeqEqual
<1> QED
  BY <1>4, <1>5, <1>9 DEF back, r, n, old

\* What is in a sequence, and that an element has one place in it.
LEMMA MemberOf ==
    ASSUME NEW S, NEW s \in Seq(S)
    PROVE  /\ ToSet(s) \subseteq S
           /\ s \in Seq(ToSet(s))
           /\ \A x : x \in ToSet(s) <=> \E i \in 1 .. Len(s) : s[i] = x
<1>1. DOMAIN s = 1 .. Len(s) /\ Len(s) \in Nat /\ \A i \in 1 .. Len(s) : s[i] \in S
  BY LenProperties, ElementOfSeq
<1>2. \A x : x \in ToSet(s) <=> \E i \in 1 .. Len(s) : s[i] = x
  BY <1>1 DEF ToSet
<1>3. s \in [1 .. Len(s) -> ToSet(s)]
  BY <1>1, <1>2, LenProperties
<1>4. s \in Seq(ToSet(s))
  BY <1>1, <1>3, SeqDef
<1> QED
  BY <1>1, <1>2, <1>4

\* An element of a sequence without repetitions is found at its place.
LEMMA PlaceOf ==
    ASSUME NEW S, NEW s \in Seq(S), IsInjective(s), NEW i \in 1 .. Len(s)
    PROVE  PlaceIn(s, s[i]) = i
<1>1. DOMAIN s = 1 .. Len(s)
  BY LenProperties
<1>2. s[i] \in ToSet(s)
  BY <1>1 DEF ToSet
<1>3. \A j \in DOMAIN s : s[j] = s[i] => j = i
  BY <1>1 DEF IsInjective
<1> QED
  BY <1>1, <1>2, <1>3 DEF PlaceIn

\* What a sequence is with a part of it taken out.
IsCut(S, s, at, n, r) ==
    /\ r \in Seq(S) /\ Len(r) = Len(s) - n
    /\ \A i \in 1 .. Len(s) - n : r[i] = IF i <= at THEN s[i] ELSE s[i + n]

\* Splicing nothing in cuts.
LEMMA SplicedOut ==
    ASSUME NEW S, NEW s \in Seq(S), NEW none \in Seq(S), Len(none) = 0,
           NEW at \in Nat, NEW n \in Nat, at + n <= Len(s)
    PROVE  IsCut(S, s, at, n, SpliceSeq(s, at, n, none))
<1>1. /\ SpliceSeq(s, at, n, none) \in Seq(S)
      /\ Len(SpliceSeq(s, at, n, none)) = Len(s) - n + Len(none)
      /\ \A i \in 1 .. Len(s) - n + Len(none) :
            SpliceSeq(s, at, n, none)[i] =
               IF i <= at THEN s[i] ELSE IF i <= at + Len(none) THEN none[i - at] ELSE s[i - Len(none) + n]
  <2>1. IsSpliced(S, s, at, n, none)
    BY Splice
  <2> QED
    BY <2>1 DEF IsSpliced
<1>2. /\ Len(s) \in Nat /\ Len(s) - n + 0 = Len(s) - n /\ at + 0 = at
      /\ \A i \in Int : i - 0 + n = i + n
  BY LenProperties
<1> QED
  BY <1>1, <1>2 DEF IsCut

\* Two parts of a sequence without repetitions share nothing: what is left
\* when one is taken out.
LEMMA TakenOut ==
    ASSUME NEW S, NEW s \in Seq(S), IsInjective(s),
           NEW at \in Nat, NEW n \in Nat, at + n <= Len(s)
    PROVE  /\ SpliceSeq(s, at, n, <<>>) \in Seq(S)
           /\ IsInjective(SpliceSeq(s, at, n, <<>>))
           /\ Len(SpliceSeq(s, at, n, <<>>)) = Len(s) - n
           /\ ToSet(SpliceSeq(s, at, n, <<>>)) = ToSet(s) \ ToSet(SubSeq(s, at + 1, at + n))
           /\ ToSet(SubSeq(s, at + 1, at + n)) \subseteq ToSet(s)
           /\ IsInjective(SubSeq(s, at + 1, at + n))
           /\ SubSeq(s, at + 1, at + n) \in Seq(S)
           /\ Len(SubSeq(s, at + 1, at + n)) = n
<1> DEFINE part == SubSeq(s, at + 1, at + n)
           r == SpliceSeq(s, at, n, <<>>)
<1>1. Len(s) \in Nat /\ <<>> \in Seq(S) /\ Len(<<>>) = 0 /\ DOMAIN s = 1 .. Len(s)
  BY LenProperties, EmptySeq
<1>2. /\ r \in Seq(S) /\ Len(r) = Len(s) - n
      /\ \A i \in 1 .. Len(s) - n : r[i] = IF i <= at THEN s[i] ELSE s[i + n]
  <2> DEFINE none == <<>>
  <2>0. none \in Seq(S) /\ Len(none) = 0 /\ r = SpliceSeq(s, at, n, none)
    BY <1>1
  <2> HIDE DEF none
  <2>1. IsCut(S, s, at, n, SpliceSeq(s, at, n, none))
    BY <2>0, SplicedOut
  <2> HIDE DEF r
  <2> QED
    BY <2>0, <2>1 DEF IsCut
<1>3. part \in Seq(S) /\ Len(part) = n /\ \A i \in 1 .. n : part[i] = s[at + i]
  BY PartOf
<1> HIDE DEF part, r
<1>4. \A i, j \in 1 .. Len(s) : s[i] = s[j] => i = j
  BY <1>1 DEF IsInjective
<1>5. DOMAIN r = 1 .. Len(s) - n /\ DOMAIN part = 1 .. n
  BY <1>2, <1>3, LenProperties
<1>6. IsInjective(part)
  BY <1>5, <1>1, <1>3, <1>4 DEF IsInjective
<1> DEFINE from(i) == IF i <= at THEN i ELSE i + n
<1>7. \A i \in 1 .. Len(s) - n : /\ from(i) \in 1 .. Len(s) /\ r[i] = s[from(i)]
                                 /\ \A j \in 1 .. n : from(i) # at + j
  BY <1>1, <1>2
<1>8. IsInjective(r)
  <2> SUFFICES ASSUME NEW i \in 1 .. Len(s) - n, NEW j \in 1 .. Len(s) - n, r[i] = r[j] PROVE i = j
    BY <1>5 DEF IsInjective
  <2>1. from(i) = from(j)
    <3> HIDE DEF from
    <3> QED
      BY <1>4, <1>7
  <2> QED
    BY <1>1, <2>1
<1>9. ToSet(part) \subseteq ToSet(s)
  <2> SUFFICES ASSUME NEW i \in 1 .. n PROVE part[i] \in ToSet(s)
    BY <1>5 DEF ToSet
  <2> QED
    BY <1>1, <1>3 DEF ToSet
<1>10. ToSet(r) \subseteq ToSet(s) \ ToSet(part)
  <2> SUFFICES ASSUME NEW i \in 1 .. Len(s) - n PROVE r[i] \in ToSet(s) \ ToSet(part)
    BY <1>5 DEF ToSet
  <2> DEFINE f == from(i)
  <2>1. f \in 1 .. Len(s) /\ r[i] = s[f] /\ \A j \in 1 .. n : f # at + j
    <3> HIDE DEF from
    <3> QED
      BY <1>7
  <2> HIDE DEF f, from
  <2>2. s[f] \in ToSet(s)
    BY <1>1, <2>1 DEF ToSet
  <2>3. ASSUME NEW j \in 1 .. n, part[j] = s[f] PROVE FALSE
    BY <1>1, <1>3, <2>3, <1>4, <2>1
  <2>4. s[f] \notin ToSet(part)
    BY <1>5, <2>3 DEF ToSet
  <2> QED
    BY <2>1, <2>2, <2>4
<1>11. ToSet(s) \ ToSet(part) \subseteq ToSet(r)
  <2> SUFFICES ASSUME NEW i \in 1 .. Len(s), s[i] \notin ToSet(part) PROVE s[i] \in ToSet(r)
    BY <1>1 DEF ToSet
  <2>1. CASE i <= at
    BY <1>1, <1>2, <2>1, <1>5 DEF ToSet
  <2>2. CASE i > at /\ i <= at + n
    <3>1. i - at \in 1 .. n /\ at + (i - at) = i
      BY <2>2
    <3>2. part[i - at] = s[i]
      BY <1>3, <3>1
    <3> QED
      BY <1>5, <3>1, <3>2 DEF ToSet
  <2>3. CASE i > at + n
    <3>1. i - n \in 1 .. Len(s) - n /\ (i - n) + n = i /\ ~(i - n <= at)
      BY <1>1, <2>3
    <3>2. r[i - n] = s[i]
      BY <1>2, <3>1
    <3> QED
      BY <1>5, <3>1, <3>2 DEF ToSet
  <2> QED
    BY <1>1, <2>1, <2>2, <2>3
<1> QED
  BY <1>2, <1>3, <1>6, <1>8, <1>9, <1>10, <1>11 DEF part, r

\* And what there is when another sequence is put in.
LEMMA PutIn ==
    ASSUME NEW S, NEW s \in Seq(S), IsInjective(s), NEW new \in Seq(S), IsInjective(new),
           ToSet(s) \cap ToSet(new) = {}, NEW at \in Nat, at <= Len(s)
    PROVE  /\ SpliceSeq(s, at, 0, new) \in Seq(S)
           /\ IsInjective(SpliceSeq(s, at, 0, new))
           /\ Len(SpliceSeq(s, at, 0, new)) = Len(s) + Len(new)
           /\ ToSet(SpliceSeq(s, at, 0, new)) = ToSet(s) \cup ToSet(new)
<1> DEFINE r == SpliceSeq(s, at, 0, new)
           n == Len(new)
<1>1. Len(s) \in Nat /\ n \in Nat /\ DOMAIN s = 1 .. Len(s) /\ DOMAIN new = 1 .. n
  BY LenProperties
<1>2. /\ r \in Seq(S) /\ Len(r) = Len(s) + n
      /\ \A i \in 1 .. Len(s) + n :
            r[i] = IF i <= at THEN s[i] ELSE IF i <= at + n THEN new[i - at] ELSE s[i - n]
  <2>0. 0 \in Nat /\ at + 0 <= Len(s)
    BY <1>1
  <2>1. /\ r \in Seq(S) /\ Len(r) = Len(s) - 0 + n
        /\ \A i \in 1 .. Len(s) - 0 + n :
            r[i] = IF i <= at THEN s[i] ELSE IF i <= at + n THEN new[i - at] ELSE s[i - n + 0]
    BY <2>0, Splice DEF IsSpliced
  <2> HIDE DEF r, n
  <2>2. Len(s) - 0 + n = Len(s) + n /\ \A i \in Int : i - n + 0 = i - n
    BY <1>1
  <2> QED
    BY <2>1, <2>2
<1> HIDE DEF r, n
<1>3. DOMAIN r = 1 .. Len(s) + n
  BY <1>2, LenProperties
<1>4. /\ \A i, j \in 1 .. Len(s) : s[i] = s[j] => i = j
      /\ \A i, j \in 1 .. n : new[i] = new[j] => i = j
  BY <1>1 DEF IsInjective
<1>5. \A i \in 1 .. Len(s), j \in 1 .. n : s[i] # new[j]
  BY <1>1 DEF ToSet
<1> DEFINE isNew(i) == at < i /\ i <= at + n
           from(i) == IF i <= at THEN i ELSE i - n
<1>6. \A i \in 1 .. Len(s) + n :
         \/ isNew(i) /\ i - at \in 1 .. n /\ r[i] = new[i - at]
         \/ ~isNew(i) /\ from(i) \in 1 .. Len(s) /\ r[i] = s[from(i)]
  BY <1>1, <1>2
<1>7. IsInjective(r)
  <2> SUFFICES ASSUME NEW i \in 1 .. Len(s) + n, NEW j \in 1 .. Len(s) + n, r[i] = r[j] PROVE i = j
    BY <1>3 DEF IsInjective
  <2>1. CASE isNew(i) /\ isNew(j)
    <3>1. i - at \in 1 .. n /\ j - at \in 1 .. n /\ new[i - at] = new[j - at]
      <4> HIDE DEF from, isNew
      <4> QED
        BY <1>6, <2>1
    <3>2. i - at = j - at
      BY <1>4, <3>1
    <3> QED
      BY <3>2, <1>1
  <2>2. CASE ~isNew(i) /\ ~isNew(j)
    <3>1. from(i) \in 1 .. Len(s) /\ from(j) \in 1 .. Len(s) /\ s[from(i)] = s[from(j)]
      <4> HIDE DEF from, isNew
      <4> QED
        BY <1>6, <2>2
    <3>2. from(i) = from(j)
      <4> HIDE DEF from
      <4> QED
        BY <1>4, <3>1
    <3> QED
      BY <1>1, <2>2, <3>2
  <2>3. CASE isNew(i) /\ ~isNew(j)
    <3> HIDE DEF from, isNew
    <3> QED
      BY <1>5, <1>6, <2>3
  <2>4. CASE ~isNew(i) /\ isNew(j)
    <3> HIDE DEF from, isNew
    <3> QED
      BY <1>5, <1>6, <2>4
  <2> QED
    BY <2>1, <2>2, <2>3, <2>4
<1>8. ToSet(r) \subseteq ToSet(s) \cup ToSet(new)
  <2> HIDE DEF from, isNew
  <2> SUFFICES ASSUME NEW i \in 1 .. Len(s) + n PROVE r[i] \in ToSet(s) \cup ToSet(new)
    BY <1>3 DEF ToSet
  <2> QED
    BY <1>1, <1>6 DEF ToSet
<1>9. ToSet(new) \subseteq ToSet(r)
  <2> SUFFICES ASSUME NEW i \in 1 .. n PROVE new[i] \in ToSet(r)
    BY <1>1 DEF ToSet
  <2>1. at + i \in 1 .. Len(s) + n /\ ~(at + i <= at) /\ at + i <= at + n /\ (at + i) - at = i
    BY <1>1
  <2>2. r[at + i] = new[i]
    BY <1>2, <2>1
  <2> QED
    BY <1>3, <2>1, <2>2 DEF ToSet
<1>10. ToSet(s) \subseteq ToSet(r)
  <2> SUFFICES ASSUME NEW i \in 1 .. Len(s) PROVE s[i] \in ToSet(r)
    BY <1>1 DEF ToSet
  <2>1. CASE i <= at
    <3>1. i \in 1 .. Len(s) + n /\ r[i] = s[i]
      BY <1>1, <1>2, <2>1
    <3> QED
      BY <1>3, <3>1 DEF ToSet
  <2>2. CASE i > at
    <3>1. i + n \in 1 .. Len(s) + n /\ ~(i + n <= at) /\ ~(i + n <= at + n) /\ (i + n) - n = i
      BY <1>1, <2>2
    <3>2. r[i + n] = s[i]
      BY <1>2, <3>1
    <3> QED
      BY <1>3, <3>1, <3>2 DEF ToSet
  <2> QED
    BY <1>1, <2>1, <2>2
<1>11. ToSet(r) = ToSet(s) \cup ToSet(new)
  BY <1>8, <1>9, <1>10
<1> QED
  BY <1>2, <1>7, <1>11 DEF r, n

-----------------------------------------------------------------------------
(***************************************************************************)
(* Documents seen block by block.                                          *)
(***************************************************************************)

Places(d) == Blocks(d) \cup {Root}

\* The document read is the same; revisions, counters and savepoints may differ.
Alike(d, e) ==
    /\ Blocks(e) = Blocks(d) /\ \A p \in Places(d) : Kids(e, p) = Kids(d, p)
    /\ \A b \in Blocks(d) : /\ e.nodes[b].kind = d.nodes[b].kind /\ e.nodes[b].attr = d.nodes[b].attr
                            /\ Parent(e, b) = Parent(d, b) /\ Text(e, b) = Text(d, b)

\* One block or the root has other children, the rest is the same.
ButKids(d, e, p, kids) ==
    /\ Blocks(e) = Blocks(d) /\ \A q \in Places(d) : Kids(e, q) = IF q = p THEN kids ELSE Kids(d, q)
    /\ \A b \in Blocks(d) : /\ e.nodes[b].kind = d.nodes[b].kind /\ e.nodes[b].attr = d.nodes[b].attr
                            /\ Parent(e, b) = Parent(d, b) /\ Text(e, b) = Text(d, b)

\* The content compared block by block.
LEMMA SameContent ==
    ASSUME NEW d, NEW e, Shaped(d), Shaped(e)
    PROVE  Content(d) = Content(e) <=> Alike(d, e)
<1>1. \A b \in Blocks(d) : DOMAIN d.nodes[b] \ {"rev"} = BlockFields
  BY DEF Shaped, IsA, BlockFields
<1>2. \A b \in Blocks(e) : DOMAIN e.nodes[b] \ {"rev"} = BlockFields
  BY DEF Shaped, IsA, BlockFields
<1>3. Content(d) = [root |-> d.root, nodes |-> [b \in Blocks(d) |-> [x \in BlockFields |-> d.nodes[b][x]]]]
  BY <1>1 DEF Content
<1>4. Content(e) = [root |-> e.root, nodes |-> [b \in Blocks(e) |-> [x \in BlockFields |-> e.nodes[b][x]]]]
  BY <1>2 DEF Content
<1>5. Alike(d, e) <=> /\ e.root = d.root /\ Blocks(e) = Blocks(d)
                      /\ \A b \in Blocks(d) : \A x \in BlockFields : e.nodes[b][x] = d.nodes[b][x]
  BY DEF Alike, Shaped, Places, Kids, Parent, Text, BlockFields
<1>6. ASSUME Alike(d, e) PROVE Content(d) = Content(e)
  <2>1. Blocks(e) = Blocks(d) /\ e.root = d.root
    BY <1>5, <1>6
  <2>2. \A b \in Blocks(d) : [x \in BlockFields |-> e.nodes[b][x]] = [x \in BlockFields |-> d.nodes[b][x]]
    BY <1>5, <1>6
  <2>3. [b \in Blocks(e) |-> [x \in BlockFields |-> e.nodes[b][x]]]
           = [b \in Blocks(d) |-> [x \in BlockFields |-> d.nodes[b][x]]]
    BY <2>1, <2>2
  <2> QED
    BY <1>3, <1>4, <2>1, <2>3
<1>7. ASSUME Content(d) = Content(e) PROVE Alike(d, e)
  <2> DEFINE nd == [b \in Blocks(d) |-> [x \in BlockFields |-> d.nodes[b][x]]]
             ne == [b \in Blocks(e) |-> [x \in BlockFields |-> e.nodes[b][x]]]
  <2>1. d.root = e.root /\ nd = ne
    <3> HIDE DEF nd, ne
    <3>1. [root |-> d.root, nodes |-> nd] = [root |-> e.root, nodes |-> ne]
      BY <1>3, <1>4, <1>7 DEF nd, ne
    <3> QED
      BY <3>1
  <2>2. DOMAIN nd = Blocks(d) /\ DOMAIN ne = Blocks(e)
    OBVIOUS
  <2>3. Blocks(d) = Blocks(e)
    <3> HIDE DEF nd, ne
    <3> QED
      BY <2>1, <2>2
  <2>4. ASSUME NEW b \in Blocks(d), NEW x \in BlockFields PROVE e.nodes[b][x] = d.nodes[b][x]
    <3>1. nd[b] = [y \in BlockFields |-> d.nodes[b][y]] /\ ne[b] = [y \in BlockFields |-> e.nodes[b][y]]
      BY <2>3
    <3>2. nd[b] = ne[b]
      <4> HIDE DEF nd, ne
      <4> QED
        BY <2>1
    <3>3. nd[b][x] = d.nodes[b][x] /\ ne[b][x] = e.nodes[b][x]
      BY <3>1
    <3> HIDE DEF nd, ne
    <3> QED
      BY <3>2, <3>3
  <2> QED
    BY <1>5, <2>1, <2>3, <2>4
<1> QED
  BY <1>6, <1>7

\* A block put in another's place.
LEMMA PutNodeView ==
    ASSUME NEW d, Shaped(d), NEW b \in Blocks(d), NEW node, IsA(node, BlockFields \cup {"rev"})
    PROVE  /\ Shaped(PutNode(d, b, node)) /\ Blocks(PutNode(d, b, node)) = Blocks(d)
           /\ PutNode(d, b, node).root = d.root
           /\ \A c \in Blocks(d) : PutNode(d, b, node).nodes[c] = IF c = b THEN node ELSE d.nodes[c]
<1> DEFINE e == PutNode(d, b, node)
           fields == {"nodes", "root", "next", "version", "saves"}
<1>1. d = [f \in fields |-> d[f]] /\ d.nodes = [c \in Blocks(d) |-> d.nodes[c]]
  BY DEF Shaped, IsA
<1>2. e = [d EXCEPT !.nodes = [d.nodes EXCEPT ![b] = node]]
  BY DEF PutNode
<1> HIDE DEF e
<1>3. /\ DOMAIN e = fields /\ e = [f \in fields |-> e[f]]
      /\ e.nodes = [d.nodes EXCEPT ![b] = node] /\ e.root = d.root
  BY <1>1, <1>2
<1>4. /\ Blocks(e) = Blocks(d) /\ e.nodes = [c \in Blocks(e) |-> e.nodes[c]]
      /\ \A c \in Blocks(d) : e.nodes[c] = IF c = b THEN node ELSE d.nodes[c]
  BY <1>1, <1>3 DEF Blocks
<1>5. Shaped(e)
  BY <1>3, <1>4 DEF Shaped, IsA
<1> QED
  BY <1>3, <1>4, <1>5 DEF e

\* inline_mut changes one block's text, and its revision.
LEMMA SetTextView ==
    ASSUME NEW d, Shaped(d), NEW b \in Blocks(d), NEW text
    PROVE  /\ Shaped(SetText(d, b, text)) /\ Blocks(SetText(d, b, text)) = Blocks(d)
           /\ \A p \in Places(d) : Kids(SetText(d, b, text), p) = Kids(d, p)
           /\ \A c \in Blocks(d) : /\ SetText(d, b, text).nodes[c].kind = d.nodes[c].kind
                                   /\ SetText(d, b, text).nodes[c].attr = d.nodes[c].attr
                                   /\ Parent(SetText(d, b, text), c) = Parent(d, c)
                                   /\ Text(SetText(d, b, text), c) = IF c = b THEN text ELSE Text(d, c)
<1> DEFINE old == d.nodes[b]
           node == [old EXCEPT !.text = text, !.rev = @ + 1]
           e == SetText(d, b, text)
<1>1. IsA(old, BlockFields \cup {"rev"})
  BY DEF Shaped
<1>2. /\ IsA(node, BlockFields \cup {"rev"}) /\ node.kind = old.kind /\ node.attr = old.attr
      /\ node.parent = old.parent /\ node.kids = old.kids /\ node.text = text
  <2> HIDE DEF old
  <2> QED
    BY <1>1 DEF IsA, BlockFields
<1>3. e = PutNode(d, b, node)
  BY DEF SetText
<1> HIDE DEF e, node
<1>4. /\ Shaped(e) /\ Blocks(e) = Blocks(d) /\ e.root = d.root
      /\ \A c \in Blocks(d) : e.nodes[c] = IF c = b THEN node ELSE d.nodes[c]
  BY <1>2, <1>3, PutNodeView, SMTT(20)
<1> QED
  BY <1>2, <1>4 DEF e, Kids, Parent, Text, Places

\* Other children for one block or for the root.
LEMMA SetKidsView ==
    ASSUME NEW d, Shaped(d), NEW p \in Places(d), NEW kids
    PROVE  Shaped(SetKids(d, p, kids)) /\ ButKids(d, SetKids(d, p, kids), p, kids)
<1> DEFINE e == SetKids(d, p, kids)
<1>1. CASE p = Root
  <2>1. e = [d EXCEPT !.root = kids]
    BY <1>1 DEF SetKids
  <2> HIDE DEF e
  <2>2. /\ IsA(e, {"nodes", "root", "next", "version", "saves"}) /\ e.nodes = d.nodes /\ e.root = kids
    BY <2>1 DEF Shaped, IsA
  <2>3. Shaped(e)
    BY <2>2 DEF Shaped, Blocks
  <2>4. ButKids(d, e, p, kids)
    BY <1>1, <2>2 DEF ButKids, Shaped, Blocks, Kids, Places, Parent, Text
  <2> QED
    BY <2>3, <2>4 DEF e
<1>2. CASE p # Root
  <2> DEFINE old == d.nodes[p]
             node == [old EXCEPT !.kids = kids]
  <2>1. p \in Blocks(d)
    BY <1>2 DEF Places
  <2>2. IsA(old, BlockFields \cup {"rev"})
    BY <2>1 DEF Shaped
  <2>3. /\ IsA(node, BlockFields \cup {"rev"}) /\ node.kind = old.kind /\ node.attr = old.attr
        /\ node.parent = old.parent /\ node.kids = kids /\ node.text = old.text
    <3> HIDE DEF old
    <3> QED
      BY <2>2 DEF IsA, BlockFields
  <2>4. e = PutNode(d, p, node)
    BY <1>2 DEF SetKids
  <2> HIDE DEF e, node
  <2>5. /\ Shaped(e) /\ Blocks(e) = Blocks(d) /\ e.root = d.root
        /\ \A c \in Blocks(d) : e.nodes[c] = IF c = p THEN node ELSE d.nodes[c]
    BY <2>1, <2>3, <2>4, PutNodeView
  <2>6. ButKids(d, e, p, kids)
    BY <1>2, <2>1, <2>3, <2>5 DEF ButKids, Kids, Places, Parent, Text
  <2> QED
    BY <2>5, <2>6 DEF e
<1> QED
  BY <1>1, <1>2

-----------------------------------------------------------------------------
(***************************************************************************)
(* Well-formedness of a document that differs from another one.            *)
(***************************************************************************)

\* What is below some blocks is found inside any closed part of the nodes.
LEMMA AllUnderAgree ==
    ASSUME NEW nodes, IsFiniteSet(DOMAIN nodes), KidsAreNodes(nodes),
           NEW other, IsFiniteSet(DOMAIN other), KidsAreNodes(other),
           NEW U, U \subseteq DOMAIN nodes, U \subseteq DOMAIN other, Closed(nodes, U),
           \A b \in U : KidsOf(nodes, b) = KidsOf(other, b),
           NEW ids, ids \subseteq U
    PROVE  AllUnder(nodes, ids) = AllUnder(other, ids) /\ AllUnder(nodes, ids) \subseteq U
<1> DEFINE A == AllUnder(nodes, ids)
           B == AllUnder(other, ids)
<1>1. ids \subseteq A /\ Closed(nodes, A) /\ \A V : ids \subseteq V /\ Closed(nodes, V) => A \subseteq V
  BY AllUnderLeast
<1>2. ids \subseteq B /\ Closed(other, B) /\ \A V : ids \subseteq V /\ Closed(other, V) => B \subseteq V
  BY AllUnderLeast
<1> HIDE DEF A, B
<1>3. A \subseteq U
  BY <1>1
<1>4. Closed(other, U)
  BY DEF Closed
<1>5. B \subseteq U
  BY <1>2, <1>4
<1>6. Closed(other, A)
  BY <1>1, <1>3 DEF Closed
<1>7. Closed(nodes, B)
  BY <1>2, <1>5 DEF Closed
<1> QED
  BY <1>1, <1>2, <1>3, <1>6, <1>7 DEF A, B

\* What the children lists of a document say of its nodes.
LEMMA NodesOf ==
    ASSUME NEW d, Shaped(d)
    PROVE  /\ Blocks(d) = DOMAIN d.nodes /\ IsFiniteSet(DOMAIN d.nodes)
           /\ \A b \in Blocks(d) : KidsOf(d.nodes, b) = ToSet(Kids(d, b))
           /\ Linked(d) => KidsAreNodes(d.nodes)
<1>1. \A b \in Blocks(d) : KidsOf(d.nodes, b) = ToSet(Kids(d, b))
  BY DEF Shaped, KidsOf, Kids
<1>2. ASSUME Linked(d) PROVE KidsAreNodes(d.nodes)
  <2>1. \A b \in Blocks(d) : ToSet(Kids(d, b)) \subseteq Blocks(d)
    BY <1>2, MemberOf DEF Linked
  <2> QED
    BY <1>1, <2>1 DEF KidsAreNodes, Blocks
<1> QED
  BY <1>1, <1>2 DEF Shaped, Blocks

\* One closed set with a block's children and without the block is enough.
LEMMA NotUnderItself ==
    ASSUME NEW d, Shaped(d), Linked(d),
           \A b \in Blocks(d) : \E U : ToSet(Kids(d, b)) \subseteq U /\ Closed(d.nodes, U) /\ b \notin U
    PROVE  Acyclic(d.nodes)
<1> SUFFICES ASSUME NEW b \in Blocks(d) PROVE b \notin AllUnder(d.nodes, ToSet(d.nodes[b].kids))
  BY DEF Acyclic, Blocks
<1>1. PICK U : ToSet(Kids(d, b)) \subseteq U /\ Closed(d.nodes, U) /\ b \notin U
  OBVIOUS
<1>2. ToSet(d.nodes[b].kids) = ToSet(Kids(d, b)) /\ ToSet(Kids(d, b)) \subseteq DOMAIN d.nodes
  BY NodesOf DEF KidsOf, KidsAreNodes
<1>3. AllUnder(d.nodes, ToSet(Kids(d, b))) \subseteq U
  BY <1>1, <1>2, NodesOf, AllUnderLeast
<1> QED
  BY <1>1, <1>2, <1>3

\* And every acyclic document has such sets.
LEMMA AllBelow ==
    ASSUME NEW d, Shaped(d), Linked(d), NEW p \in Places(d), NEW ids, ids \subseteq ToSet(Kids(d, p))
    PROVE  LET A == AllUnder(d.nodes, ids)
           IN  /\ ids \subseteq A /\ A \subseteq Blocks(d) /\ Closed(d.nodes, A)
               /\ \A U : ids \subseteq U /\ Closed(d.nodes, U) => A \subseteq U
               /\ Acyclic(d.nodes) => p \notin A
               /\ \A b \in A : b \in ids \/ Parent(d, b) \in A
<1> DEFINE A == AllUnder(d.nodes, ids)
<1>1. Kids(d, p) \in Seq(Blocks(d))
  BY DEF Linked, Places
<1>2. ids \subseteq DOMAIN d.nodes
  BY <1>1, MemberOf DEF Blocks
<1>3. /\ ids \subseteq A /\ A \subseteq Blocks(d) /\ Closed(d.nodes, A)
      /\ \A U : ids \subseteq U /\ Closed(d.nodes, U) => A \subseteq U
  BY <1>2, NodesOf, AllUnderLeast DEF Blocks
<1> HIDE DEF A
<1>4. ASSUME Acyclic(d.nodes) PROVE p \notin A
  <2>1. CASE p = Root
    BY <1>3, <2>1 DEF Shaped
  <2>2. CASE p # Root
    <3> DEFINE B == AllUnder(d.nodes, ToSet(Kids(d, p)))
    <3>1. p \in Blocks(d) /\ ToSet(d.nodes[p].kids) = ToSet(Kids(d, p))
      BY <2>2, NodesOf DEF Places, KidsOf
    <3>2. p \notin B
      BY <1>4, <3>1 DEF Acyclic, Blocks
    <3>3. ToSet(Kids(d, p)) \subseteq DOMAIN d.nodes
      BY <1>1, MemberOf DEF Blocks
    <3>4. ToSet(Kids(d, p)) \subseteq B /\ Closed(d.nodes, B)
      BY <3>3, NodesOf, AllUnderLeast
    <3> HIDE DEF B
    <3>5. A \subseteq B
      BY <1>3, <3>4
    <3> QED
      BY <3>2, <3>5
  <2> QED
    BY <2>1, <2>2
<1>5. \A b \in A : b \in ids \/ Parent(d, b) \in A
  <2> DEFINE U == {b \in A : b \in ids \/ Parent(d, b) \in A}
  <2>1. ids \subseteq U
    BY <1>3
  <2>2. ASSUME NEW b \in U PROVE KidsOf(d.nodes, b) \subseteq U
    BY <1>3, NodesOf DEF Closed, Linked
  <2>3. Closed(d.nodes, U)
    BY <2>2 DEF Closed
  <2> HIDE DEF U
  <2>4. A \subseteq U
    BY <1>3, <2>1, <2>3
  <2> QED
    BY <2>4 DEF U
<1> QED
  BY <1>3, <1>4, <1>5 DEF A

\* What Alike keeps.
LEMMA AlikeIsWellFormed ==
    ASSUME NEW d, WellFormed(d), NEW e, Shaped(e), Blocks(e) = Blocks(d),
           \A p \in Places(d) : Kids(e, p) = Kids(d, p),
           \A b \in Blocks(d) : /\ e.nodes[b].kind = d.nodes[b].kind /\ Parent(e, b) = Parent(d, b)
                                /\ Holds(d.nodes[b].kind, Text(e, b), Kids(d, b))
    PROVE  WellFormed(e)
<1>1. Linked(e)
  <2>1. ASSUME NEW p \in Places(d) PROVE /\ Kids(e, p) \in Seq(Blocks(e)) /\ IsInjective(Kids(e, p))
    BY DEF WellFormed, Linked, Places
  <2>2. ASSUME NEW p \in Places(d), NEW b \in ToSet(Kids(e, p))
        PROVE  Parent(e, b) = p /\ AllowsChild(e, p, e.nodes[b].kind)
    BY <2>2, MemberOf DEF WellFormed, Linked, Places, AllowsChild
  <2>3. ASSUME NEW b \in Blocks(e)
        PROVE  Parent(e, b) \in Blocks(e) \cup {Root} /\ b \in ToSet(Kids(e, Parent(e, b)))
    BY DEF WellFormed, Linked, Places
  <2> QED
    BY <2>1, <2>2, <2>3 DEF Linked, Places
<1>2. Acyclic(e.nodes)
  <2> SUFFICES ASSUME NEW b \in Blocks(e)
               PROVE  \E U : ToSet(Kids(e, b)) \subseteq U /\ Closed(e.nodes, U) /\ b \notin U
    BY <1>1, NotUnderItself
  <2> DEFINE A == AllUnder(d.nodes, ToSet(Kids(d, b)))
  <2>1. ToSet(Kids(d, b)) \subseteq A /\ A \subseteq Blocks(d) /\ Closed(d.nodes, A) /\ b \notin A
    BY AllBelow DEF WellFormed, Places
  <2> HIDE DEF A
  <2>2. Closed(e.nodes, A)
    BY <2>1, NodesOf DEF WellFormed, Closed, Places
  <2> QED
    BY <2>1, <2>2 DEF Places
<1> QED
  BY <1>1, <1>2 DEF WellFormed, Places

-----------------------------------------------------------------------------
(***************************************************************************)
(* Steps within one block's text.                                          *)
(***************************************************************************)

\* What a step promises of what applying it gives: a document of the same
\* kind, and an inverse that applies to it and gives the old content back
\* (step/mod.rs, "The step that undoes this one").
Undone(d, a) ==
    /\ WellFormed(a.doc) /\ IsStep(a.inverse)
    /\ Perform(a.doc, a.inverse).ok
    /\ Shaped(Perform(a.doc, a.inverse).doc)
    /\ Content(Perform(a.doc, a.inverse).doc) = Content(d)

\* Text put together from parts of texts.
LEMMA PartsOfContent ==
    ASSUME NEW s, IsContent(s), NEW new, IsContent(new)
    PROVE  /\ Len(s) \in Nat /\ s \o new \in Seq(ToSet(s) \cup ToSet(new)) /\ IsContent(s \o new)
           /\ \A at, n \in Nat : at + n <= Len(s) =>
                 IsContent(SpliceSeq(s, at, n, new)) /\ IsContent(SubSeq(s, at + 1, at + n))
<1> DEFINE S == ToSet(s) \cup ToSet(new)
<1>1. s \in Seq(S) /\ new \in Seq(S) /\ \A c \in S : IsA(c, {"ch", "marks"})
  BY SeqMonotonic DEF IsContent
<1> HIDE DEF S
<1>2. ASSUME NEW t \in Seq(S) PROVE IsContent(t)
  BY <1>1, MemberOf DEF IsContent
<1>3. s \o new \in Seq(S)
  BY <1>1, ConcatProperties
<1>4. ASSUME NEW at \in Nat, NEW n \in Nat, at + n <= Len(s)
      PROVE  SpliceSeq(s, at, n, new) \in Seq(S) /\ SubSeq(s, at + 1, at + n) \in Seq(S)
  BY <1>1, <1>4, Splice, PartOf DEF IsSpliced
<1>5. Len(s) \in Nat
  BY <1>1, LenProperties
<1> QED
  BY <1>2, <1>3, <1>4, <1>5 DEF S

\* A block given another text, and its old text back.
LEMMA TextSetBack ==
    ASSUME NEW d, WellFormed(d), NEW b, IsText(d, b), NEW text, IsContent(text)
    PROVE  LET e == SetText(d, b, text)
           IN  /\ WellFormed(e) /\ IsText(e, b) /\ Text(e, b) = text
               /\ Shaped(SetText(e, b, Text(d, b)))
               /\ Content(SetText(e, b, Text(d, b))) = Content(d)
<1> DEFINE e == SetText(d, b, text)
           u == SetText(e, b, Text(d, b))
<1>1. b \in Blocks(d) /\ ContentOf[d.nodes[b].kind] = "inline" /\ Shaped(d)
  BY DEF IsText, WellFormed
<1>2. /\ Shaped(e) /\ Blocks(e) = Blocks(d) /\ \A p \in Places(d) : Kids(e, p) = Kids(d, p)
      /\ \A c \in Blocks(d) : /\ e.nodes[c].kind = d.nodes[c].kind /\ e.nodes[c].attr = d.nodes[c].attr
                              /\ Parent(e, c) = Parent(d, c)
                              /\ Text(e, c) = IF c = b THEN text ELSE Text(d, c)
  BY <1>1, SetTextView
<1> HIDE DEF e
<1>3. WellFormed(e)
  BY <1>1, <1>2, AlikeIsWellFormed DEF WellFormed, Holds
<1>4. IsText(e, b) /\ Text(e, b) = text
  BY <1>1, <1>2 DEF IsText
<1>5. /\ Shaped(u) /\ Blocks(u) = Blocks(e) /\ \A p \in Places(e) : Kids(u, p) = Kids(e, p)
      /\ \A c \in Blocks(e) : /\ u.nodes[c].kind = e.nodes[c].kind /\ u.nodes[c].attr = e.nodes[c].attr
                              /\ Parent(u, c) = Parent(e, c)
                              /\ Text(u, c) = IF c = b THEN Text(d, b) ELSE Text(e, c)
  BY <1>1, <1>2, SetTextView
<1> HIDE DEF u
<1>6. Alike(d, u)
  BY <1>2, <1>5 DEF Alike, Places
<1>7. Content(u) = Content(d)
  BY <1>1, <1>5, <1>6, SameContent
<1> QED
  BY <1>3, <1>4, <1>5, <1>7 DEF e, u

\* Inserted text is removed again.
LEMMA InsertInlineUndone ==
    ASSUME NEW d, WellFormed(d), NEW s, s.op = "InsertInline", IsStep(s), Perform(d, s).ok
    PROVE  Undone(d, Perform(d, s))
<1> DEFINE a == Perform(d, s)
           b == s.block
           old == Text(d, b)
           text == SpliceSeq(old, s.offset, 0, s.content)
           n == Len(s.content)
<1>1. a = InsertInline(d, s) /\ s.offset \in Nat /\ IsContent(s.content)
  BY DEF Perform, IsStep
<1>2. /\ IsText(d, b) /\ s.offset <= Len(old)
      /\ a.doc = SetText(d, b, text)
      /\ a.inverse = RemoveInlineStep(b, s.offset, s.offset + n)
  BY <1>1 DEF InsertInline, Applied, Failed
<1>3. IsContent(old)
  BY <1>2 DEF WellFormed, Holds, IsText
<1> HIDE DEF a
<1>4. IsContent(text)
  <2>1. s.offset + 0 <= Len(old)
    BY <1>1, <1>2, <1>3, PartsOfContent
  <2> QED
    BY <1>1, <1>3, <2>1, PartsOfContent
<1>5. /\ WellFormed(a.doc) /\ IsText(a.doc, b) /\ Text(a.doc, b) = text
      /\ Shaped(SetText(a.doc, b, old)) /\ Content(SetText(a.doc, b, old)) = Content(d)
  BY <1>2, <1>4, TextSetBack
<1>6. /\ n \in Nat /\ s.offset + n <= Len(text) /\ SpliceSeq(text, s.offset, n, <<>>) = old
  <2> DEFINE S == ToSet(old) \cup ToSet(s.content)
  <2>1. old \in Seq(S) /\ s.content \in Seq(S)
    BY <1>1, <1>3, SeqMonotonic DEF IsContent
  <2>2. s.offset + 0 <= Len(old) /\ n \in Nat
    BY <1>1, <1>2, <2>1, LenProperties
  <2> HIDE DEF S
  <2>3. /\ s.offset + n <= Len(text)
        /\ SpliceSeq(text, s.offset, n, SubSeq(old, s.offset + 1, s.offset + 0)) = old
    BY <1>1, <2>1, <2>2, SpliceBack
  <2>4. SubSeq(old, s.offset + 1, s.offset + 0) = <<>>
    BY <1>1, SubSeqEmpty
  <2> QED
    BY <2>2, <2>3, <2>4
<1> HIDE DEF text, n, old
<1>7. (s.offset + n) - s.offset = n /\ s.offset <= s.offset + n /\ s.offset + n \in Nat
  BY <1>1, <1>6
<1> DEFINE r == a.inverse
<1>8. /\ r.op = "RemoveInline" /\ r.block = b /\ r.from = s.offset /\ r.to = s.offset + n
  BY <1>2 DEF RemoveInlineStep
<1> HIDE DEF r
<1>9. IsStep(r)
  BY <1>1, <1>7, <1>8 DEF IsStep
<1>10. RangeOk(a.doc, r.block, r.from, r.to)
  BY <1>5, <1>6, <1>7, <1>8 DEF RangeOk
<1>11. SpliceSeq(Text(a.doc, r.block), r.from, r.to - r.from, <<>>) = old
  BY <1>5, <1>6, <1>7, <1>8
<1>12. Perform(a.doc, r).ok /\ Perform(a.doc, r).doc = SetText(a.doc, b, old)
  BY <1>8, <1>10, <1>11 DEF Perform, RemoveInline, Applied
<1> QED
  BY <1>5, <1>9, <1>12 DEF Undone, a, r

\* Removed text is inserted again.
LEMMA RemoveInlineUndone ==
    ASSUME NEW d, WellFormed(d), NEW s, s.op = "RemoveInline", IsStep(s), Perform(d, s).ok
    PROVE  Undone(d, Perform(d, s))
<1> DEFINE a == Perform(d, s)
           b == s.block
           old == Text(d, b)
           n == s.to - s.from
           part == SubSeq(old, s.from + 1, s.to)
           text == SpliceSeq(old, s.from, n, <<>>)
           none == <<>>
<1>1. a = RemoveInline(d, s) /\ s.from \in Nat /\ s.to \in Nat
  BY DEF Perform, IsStep
<1>2. /\ RangeOk(d, b, s.from, s.to)
      /\ a.doc = SetText(d, b, text)
      /\ a.inverse = InsertInlineStep(b, s.from, part)
  BY <1>1 DEF RemoveInline, Applied, Failed
<1>3. IsText(d, b) /\ s.from <= s.to /\ s.to <= Len(old) /\ n \in Nat /\ s.from + n = s.to
  BY <1>1, <1>2 DEF RangeOk
<1>4. IsContent(old)
  BY <1>3 DEF WellFormed, Holds, IsText
<1>5. IsContent(none) /\ Len(none) = 0
  BY DEF IsContent, ToSet
<1> HIDE DEF a, none, n
<1>6. IsContent(text) /\ IsContent(part)
  <2>1. s.from + n <= Len(old) /\ text = SpliceSeq(old, s.from, n, none) /\ part = SubSeq(old, s.from + 1, s.from + n)
    BY <1>3 DEF none
  <2> HIDE DEF text, part, old
  <2> QED
    BY <1>1, <1>3, <1>4, <1>5, <2>1, PartsOfContent
<1>7. /\ WellFormed(a.doc) /\ IsText(a.doc, b) /\ Text(a.doc, b) = text
      /\ Shaped(SetText(a.doc, b, old)) /\ Content(SetText(a.doc, b, old)) = Content(d)
  BY <1>2, <1>3, <1>6, TextSetBack
<1>8. s.from <= Len(text) /\ SpliceSeq(text, s.from, 0, part) = old
  <2> DEFINE S == ToSet(old) \cup ToSet(none)
  <2>1. old \in Seq(S) /\ none \in Seq(S)
    BY <1>4, <1>5, SeqMonotonic DEF IsContent
  <2>2. s.from + n <= Len(old) /\ text = SpliceSeq(old, s.from, n, none) /\ part = SubSeq(old, s.from + 1, s.from + n)
    BY <1>3 DEF none
  <2> HIDE DEF S, text, part, old
  <2>3. /\ s.from + Len(none) <= Len(text)
        /\ SpliceSeq(text, s.from, Len(none), part) = old
    BY <1>1, <1>3, <2>1, <2>2, SpliceBack
  <2> QED
    BY <1>1, <1>5, <2>3
<1> HIDE DEF text, old, part
<1> DEFINE r == a.inverse
<1>9. /\ r.op = "InsertInline" /\ r.block = b /\ r.offset = s.from /\ r.content = part
  BY <1>2 DEF InsertInlineStep
<1> HIDE DEF r
<1>10. IsStep(r)
  BY <1>1, <1>6, <1>9 DEF IsStep
<1>11. Perform(a.doc, r).ok /\ Perform(a.doc, r).doc = SetText(a.doc, b, old)
  BY <1>7, <1>8, <1>9 DEF Perform, InsertInline, Applied
<1> QED
  BY <1>7, <1>10, <1>11 DEF Undone, a, r

\* A range of a text with other marks.
WithMarks(text, from, to, marks) ==
    [i \in DOMAIN text |-> IF from < i /\ i <= to THEN [text[i] EXCEPT !.marks = marks[i]] ELSE text[i]]

\* The marks captured from a range give the text back.
LEMMA MarksSetBack ==
    ASSUME NEW text, IsContent(text), NEW from \in Nat, NEW to \in Nat, from <= to, to <= Len(text),
           NEW marks, NEW captured, \A i \in 1 .. Len(text) : from < i /\ i <= to => captured[i] = text[i].marks
    PROVE  /\ IsContent(WithMarks(text, from, to, marks))
           /\ Len(WithMarks(text, from, to, marks)) = Len(text)
           /\ WithMarks(WithMarks(text, from, to, marks), from, to, captured) = text
<1> DEFINE n == Len(text)
           new == WithMarks(text, from, to, marks)
           back == WithMarks(new, from, to, captured)
           In(i) == from < i /\ i <= to
<1>1. /\ n \in Nat /\ DOMAIN text = 1 .. n /\ text = [i \in 1 .. n |-> text[i]]
  BY LenProperties DEF IsContent
<1>2. \A i \in 1 .. n : IsA(text[i], {"ch", "marks"})
  BY <1>1 DEF IsContent, ToSet
<1> HIDE DEF n
<1>3. new = [i \in 1 .. n |-> IF In(i) THEN [text[i] EXCEPT !.marks = marks[i]] ELSE text[i]]
  BY <1>1 DEF WithMarks
<1> HIDE DEF new
<1>4. DOMAIN new = 1 .. n /\ \A i \in 1 .. n : new[i] = IF In(i) THEN [text[i] EXCEPT !.marks = marks[i]] ELSE text[i]
  BY <1>3
<1>5. new \in Seq({new[i] : i \in 1 .. n})
  BY <1>3, <1>4, <1>1, SeqDef
<1>6. Len(new) = n
  BY <1>1, <1>4, <1>5, LenProperties
<1>7. \A i \in 1 .. n : IsA(new[i], {"ch", "marks"})
  BY <1>2, <1>4 DEF IsA
<1>8. IsContent(new)
  BY <1>4, <1>5, <1>7 DEF IsContent, ToSet
<1>9. back = [i \in 1 .. n |-> IF In(i) THEN [new[i] EXCEPT !.marks = captured[i]] ELSE new[i]]
  BY <1>4 DEF WithMarks
<1>10. ASSUME NEW i \in 1 .. n
       PROVE  (IF In(i) THEN [new[i] EXCEPT !.marks = captured[i]] ELSE new[i]) = text[i]
  <2>1. CASE ~In(i)
    BY <1>4, <2>1
  <2>2. CASE In(i)
    <3> DEFINE t == text[i]
               u == new[i]
    <3>1. captured[i] = t.marks
      BY <2>2 DEF n
    <3>2. u = [t EXCEPT !.marks = marks[i]] /\ t = [f \in {"ch", "marks"} |-> t[f]]
      BY <1>2, <1>4, <2>2 DEF IsA
    <3> HIDE DEF t, u
    <3>3. [u EXCEPT !.marks = captured[i]] = t
      BY <3>1, <3>2
    <3> QED
      BY <2>2, <3>3 DEF t, u
  <2> QED
    BY <2>1, <2>2
<1>11. back = text
  <2> HIDE DEF back
  <2> QED
    BY <1>1, <1>9, <1>10
<1> QED
  BY <1>6, <1>8, <1>11 DEF n, new

\* The three steps that change marks, with the marks they give as a function.
LEMMA MarksUndone ==
    ASSUME NEW d, WellFormed(d), NEW b, NEW from \in Nat, NEW to \in Nat, RangeOk(d, b, from, to),
           NEW marks, NEW a, a.doc = SetText(d, b, WithMarks(Text(d, b), from, to, marks)),
           a.inverse = RestoreMarksStep(b, from, [i \in 1 .. to - from |-> Text(d, b)[from + i].marks])
    PROVE  Undone(d, a)
<1> DEFINE text == Text(d, b)
           new == WithMarks(text, from, to, marks)
           runs == [i \in 1 .. to - from |-> text[from + i].marks]
           captured == [i \in DOMAIN new |-> runs[i - from]]
           r == a.inverse
<1>1. IsText(d, b) /\ from <= to /\ to <= Len(text) /\ to - from \in Nat /\ from + (to - from) = to
  BY DEF RangeOk
<1>2. IsContent(text) /\ Len(text) \in Nat
  BY <1>1, LenProperties DEF WellFormed, Holds, IsText, IsContent
<1> HIDE DEF text
<1>3. runs \in Seq(ToSet(runs)) /\ Len(runs) = to - from
  <2>1. runs \in [1 .. to - from -> {runs[i] : i \in 1 .. to - from}]
    OBVIOUS
  <2>2. DOMAIN runs = 1 .. to - from
    OBVIOUS
  <2> HIDE DEF runs
  <2>3. runs \in Seq({runs[i] : i \in 1 .. to - from})
    BY <1>1, <2>1, SeqDef
  <2> QED
    <3> DEFINE R == {runs[i] : i \in 1 .. to - from}
    <3>1. runs \in Seq(R)
      BY <2>3
    <3> HIDE DEF R
    <3>2. runs \in Seq(ToSet(runs)) /\ DOMAIN runs = 1 .. Len(runs) /\ Len(runs) \in Nat
      BY <3>1, MemberOf, LenProperties
    <3> QED
      BY <1>1, <2>2, <3>2
<1>4. \A i \in 1 .. Len(text) : from < i /\ i <= to => i \in DOMAIN new /\ runs[i - from] = text[i].marks
  BY <1>1, <1>2, LenProperties DEF WithMarks, IsContent
<1> HIDE DEF runs
<1>5. \A i \in 1 .. Len(text) : from < i /\ i <= to => captured[i] = text[i].marks
  BY <1>4
<1>6. IsContent(new) /\ Len(new) = Len(text) /\ WithMarks(new, from, to, captured) = text
  <2> HIDE DEF captured
  <2> QED
    BY <1>1, <1>2, <1>5, MarksSetBack
<1>7. /\ WellFormed(a.doc) /\ IsText(a.doc, b) /\ Text(a.doc, b) = new
      /\ Shaped(SetText(a.doc, b, text)) /\ Content(SetText(a.doc, b, text)) = Content(d)
  BY <1>1, <1>6, TextSetBack DEF text
<1>8. r.op = "RestoreMarks" /\ r.block = b /\ r.offset = from /\ r.runs = runs
  BY DEF RestoreMarksStep, runs, text
<1> HIDE DEF r, new
<1>9. IsStep(r)
  BY <1>3, <1>8 DEF IsStep
<1>10. RangeOk(a.doc, b, from, from + Len(runs)) /\ from + Len(runs) = to
  BY <1>1, <1>3, <1>6, <1>7 DEF RangeOk
<1>11. Perform(a.doc, r) = RestoreMarks(a.doc, r)
  BY <1>8 DEF Perform
<1>12. /\ Perform(a.doc, r).ok
       /\ Perform(a.doc, r).doc = SetText(a.doc, r.block,
             [i \in DOMAIN Text(a.doc, r.block) |->
                IF r.offset < i /\ i <= r.offset + Len(r.runs)
                THEN [Text(a.doc, r.block)[i] EXCEPT !.marks = r.runs[i - r.offset]]
                ELSE Text(a.doc, r.block)[i]])
  BY <1>8, <1>10, <1>11 DEF RestoreMarks, Format, Applied
<1>13. [i \in DOMAIN Text(a.doc, r.block) |->
          IF r.offset < i /\ i <= r.offset + Len(r.runs)
          THEN [Text(a.doc, r.block)[i] EXCEPT !.marks = r.runs[i - r.offset]]
          ELSE Text(a.doc, r.block)[i]] = WithMarks(new, from, to, captured)
  <2>1. /\ Text(a.doc, r.block) = new /\ r.offset = from /\ r.offset + Len(r.runs) = to /\ r.runs = runs
    BY <1>7, <1>8, <1>10
  <2> HIDE DEF runs
  <2>2. \A i \in DOMAIN new : captured[i] = runs[i - from]
    OBVIOUS
  <2> HIDE DEF captured
  <2> QED
    BY <2>1, <2>2 DEF WithMarks
<1>14. Perform(a.doc, r).doc = SetText(a.doc, b, text)
  BY <1>6, <1>8, <1>12, <1>13
<1> QED
  BY <1>7, <1>9, <1>12, <1>14 DEF Undone, r

\* The three steps that change marks.
LEMMA MarkStepsUndone ==
    ASSUME NEW d, WellFormed(d), NEW s, s.op \in {"AddMark", "RemoveMark", "RestoreMarks"},
           IsStep(s), Perform(d, s).ok
    PROVE  Undone(d, Perform(d, s))
<1> DEFINE a == Perform(d, s)
           b == s.block
           text == Text(d, b)
<1>1. CASE s.op = "AddMark"
  <2> DEFINE marks == [i \in DOMAIN text |-> (text[i].marks \ Excludes[s.mark]) \cup {s.mark}]
  <2>1. a = AddMark(d, s) /\ s.from \in Nat /\ s.to \in Nat
    BY <1>1 DEF Perform, IsStep
  <2>2. /\ RangeOk(d, b, s.from, s.to)
        /\ a.doc = SetText(d, b, WithMarks(text, s.from, s.to, marks))
        /\ a.inverse = RestoreMarksStep(b, s.from, [i \in 1 .. s.to - s.from |-> text[s.from + i].marks])
    <3>1. /\ RangeOk(d, b, s.from, s.to)
          /\ a.doc = SetText(d, b, [i \in DOMAIN text |->
                IF s.from < i /\ i <= s.to THEN [text[i] EXCEPT !.marks = (Text(d, s.block)[i].marks \ Excludes[s.mark]) \cup {s.mark}] ELSE text[i]])
          /\ a.inverse = RestoreMarksStep(b, s.from, [i \in 1 .. s.to - s.from |-> text[s.from + i].marks])
      BY <2>1 DEF AddMark, Format, Applied, Failed
    <3>2. [i \in DOMAIN text |->
             IF s.from < i /\ i <= s.to THEN [text[i] EXCEPT !.marks = (Text(d, s.block)[i].marks \ Excludes[s.mark]) \cup {s.mark}] ELSE text[i]]
             = WithMarks(text, s.from, s.to, marks)
      BY DEF WithMarks
    <3> QED
      BY <3>1, <3>2
  <2> HIDE DEF a, marks
  <2> QED
    BY <2>1, <2>2, MarksUndone DEF a
<1>2. CASE s.op = "RemoveMark"
  <2> DEFINE marks == [i \in DOMAIN text |-> text[i].marks \ {s.mark}]
  <2>1. a = RemoveMark(d, s) /\ s.from \in Nat /\ s.to \in Nat
    BY <1>2 DEF Perform, IsStep
  <2>2. /\ RangeOk(d, b, s.from, s.to)
        /\ a.doc = SetText(d, b, WithMarks(text, s.from, s.to, marks))
        /\ a.inverse = RestoreMarksStep(b, s.from, [i \in 1 .. s.to - s.from |-> text[s.from + i].marks])
    <3>1. /\ RangeOk(d, b, s.from, s.to)
          /\ a.doc = SetText(d, b, [i \in DOMAIN text |->
                IF s.from < i /\ i <= s.to THEN [text[i] EXCEPT !.marks = Text(d, s.block)[i].marks \ {s.mark}] ELSE text[i]])
          /\ a.inverse = RestoreMarksStep(b, s.from, [i \in 1 .. s.to - s.from |-> text[s.from + i].marks])
      BY <2>1 DEF RemoveMark, Format, Applied, Failed
    <3>2. [i \in DOMAIN text |->
             IF s.from < i /\ i <= s.to THEN [text[i] EXCEPT !.marks = Text(d, s.block)[i].marks \ {s.mark}] ELSE text[i]]
             = WithMarks(text, s.from, s.to, marks)
      BY DEF WithMarks
    <3> QED
      BY <3>1, <3>2
  <2> HIDE DEF a, marks
  <2> QED
    BY <2>1, <2>2, MarksUndone DEF a
<1>3. CASE s.op = "RestoreMarks"
  <2> DEFINE marks == [i \in DOMAIN text |-> s.runs[i - s.offset]]
             to == s.offset + Len(s.runs)
  <2>1. a = RestoreMarks(d, s) /\ s.offset \in Nat /\ s.runs \in Seq(ToSet(s.runs))
    BY <1>3 DEF Perform, IsStep
  <2>2. /\ RangeOk(d, b, s.offset, to)
        /\ a.doc = SetText(d, b, WithMarks(text, s.offset, to, marks))
        /\ a.inverse = RestoreMarksStep(b, s.offset, [i \in 1 .. to - s.offset |-> text[s.offset + i].marks])
    <3>1. /\ RangeOk(d, b, s.offset, s.offset + Len(s.runs))
          /\ a.doc = SetText(d, b, [i \in DOMAIN text |->
                IF s.offset < i /\ i <= s.offset + Len(s.runs) THEN [text[i] EXCEPT !.marks = s.runs[i - s.offset]] ELSE text[i]])
          /\ a.inverse = RestoreMarksStep(b, s.offset, [i \in 1 .. (s.offset + Len(s.runs)) - s.offset |-> text[s.offset + i].marks])
      BY <2>1 DEF RestoreMarks, Format, Applied, Failed
    <3>2. [i \in DOMAIN text |->
             IF s.offset < i /\ i <= s.offset + Len(s.runs) THEN [text[i] EXCEPT !.marks = s.runs[i - s.offset]] ELSE text[i]]
             = WithMarks(text, s.offset, s.offset + Len(s.runs), marks)
      BY DEF WithMarks
    <3> QED
      BY <3>1, <3>2
  <2>3. to \in Nat
    BY <2>1, LenProperties
  <2> HIDE DEF a, marks, to
  <2> QED
    BY <2>1, <2>2, <2>3, MarksUndone DEF a
<1> QED
  BY <1>1, <1>2, <1>3

-----------------------------------------------------------------------------
(***************************************************************************)
(* A block's type.                                                         *)
(***************************************************************************)

\* A kind something may contain is one of the schema's.
LEMMA KnownKinds ==
    ASSUME NEW d, WellFormed(d), NEW p, NEW kind, AllowsChild(d, p, kind)
    PROVE  kind \in Kinds
BY SchemaAssumption DEF AllowsChild, WellFormed, Holds

\* No block of an acyclic document is its own parent.
LEMMA NotItsOwnParent ==
    ASSUME NEW d, WellFormed(d), NEW b \in Blocks(d)
    PROVE  /\ b \notin ToSet(Kids(d, b)) /\ Parent(d, b) # b /\ b # Root
           /\ Parent(d, b) \in Places(d) /\ b \in ToSet(Kids(d, Parent(d, b)))
           /\ Kids(d, b) \in Seq(Blocks(d)) /\ ToSet(Kids(d, b)) \subseteq Blocks(d)
           /\ AllowsChild(d, Parent(d, b), d.nodes[b].kind)
<1>1. /\ Kids(d, b) \in Seq(Blocks(d)) /\ Parent(d, b) \in Places(d)
      /\ b \in ToSet(Kids(d, Parent(d, b))) /\ b # Root
  BY DEF WellFormed, Shaped, Linked, Places
<1>2. ToSet(Kids(d, b)) \subseteq Blocks(d)
  BY <1>1, MemberOf
<1>3. b \notin ToSet(Kids(d, b))
  BY AllBelow DEF WellFormed, Places
<1> QED
  BY <1>1, <1>2, <1>3 DEF WellFormed, Linked, Places

\* A block of another type that holds what it has.
Retyped(d, b, kind, attr) ==
    PutNode(d, b, [d.nodes[b] EXCEPT !.kind = kind, !.attr = attr, !.rev = @ + 1])

\* Another type for one block.
LEMMA RetypedView ==
    ASSUME NEW d, WellFormed(d), NEW b \in Blocks(d), NEW kind, NEW attr,
           AllowsChild(d, Parent(d, b), kind), ContentFits(d, kind, b)
    PROVE  LET e == Retyped(d, b, kind, attr)
           IN  /\ WellFormed(e) /\ Blocks(e) = Blocks(d)
               /\ \A p \in Places(d) : Kids(e, p) = Kids(d, p)
               /\ \A c \in Blocks(d) : /\ e.nodes[c].kind = IF c = b THEN kind ELSE d.nodes[c].kind
                                       /\ e.nodes[c].attr = IF c = b THEN attr ELSE d.nodes[c].attr
                                       /\ Parent(e, c) = Parent(d, c) /\ Text(e, c) = Text(d, c)
<1> DEFINE old == d.nodes[b]
           node == [old EXCEPT !.kind = kind, !.attr = attr, !.rev = @ + 1]
           e == Retyped(d, b, kind, attr)
<1>1. Shaped(d) /\ IsA(old, BlockFields \cup {"rev"})
  BY DEF WellFormed, Shaped
<1>2. /\ IsA(node, BlockFields \cup {"rev"}) /\ node.kind = kind /\ node.attr = attr
      /\ node.parent = old.parent /\ node.kids = old.kids /\ node.text = old.text
  <2> HIDE DEF old
  <2> QED
    BY <1>1 DEF IsA, BlockFields
<1>0. e = PutNode(d, b, node)
  BY DEF Retyped
<1> HIDE DEF node, e
<1>3. /\ Shaped(e) /\ Blocks(e) = Blocks(d) /\ e.root = d.root
      /\ \A c \in Blocks(d) : e.nodes[c] = IF c = b THEN node ELSE d.nodes[c]
  BY <1>1, <1>2, PutNodeView, <1>0
<1>4. /\ \A p \in Places(d) : Kids(e, p) = Kids(d, p)
      /\ \A c \in Blocks(d) : /\ e.nodes[c].kind = IF c = b THEN kind ELSE d.nodes[c].kind
                              /\ e.nodes[c].attr = IF c = b THEN attr ELSE d.nodes[c].attr
                              /\ Parent(e, c) = Parent(d, c) /\ Text(e, c) = Text(d, c)
  BY <1>2, <1>3 DEF Kids, Places, Parent, Text
<1>5. ASSUME NEW p \in Places(d), NEW c \in ToSet(Kids(d, p)) PROVE AllowsChild(e, p, e.nodes[c].kind)
  <2>1. /\ Kids(d, p) \in Seq(Blocks(d)) /\ Parent(d, c) = p /\ AllowsChild(d, p, d.nodes[c].kind)
    BY DEF WellFormed, Linked, Places
  <2>2. c \in Blocks(d)
    BY <2>1, MemberOf
  <2>3. CASE p = b
    BY <2>1, <2>3, NotItsOwnParent, <1>3, <1>4, <2>2 DEF ContentFits, AllowsChild
  <2>4. CASE p # b /\ c = b
    BY <1>3, <1>4, <2>1, <2>4 DEF AllowsChild
  <2>5. CASE p # b /\ c # b
    BY <1>3, <1>4, <2>1, <2>2, <2>5 DEF AllowsChild
  <2> QED
    BY <2>3, <2>4, <2>5
<1>6. Linked(e)
  <2>1. ASSUME NEW p \in Places(e), NEW c \in ToSet(Kids(e, p)) PROVE Parent(e, c) = p
    BY <1>3, <1>4, <2>1, MemberOf DEF WellFormed, Linked, Places
  <2>2. \A p \in Places(e) : Kids(e, p) \in Seq(Blocks(e)) /\ IsInjective(Kids(e, p))
    BY <1>3, <1>4 DEF WellFormed, Linked, Places
  <2>3. \A c \in Blocks(e) : Parent(e, c) \in Places(e) /\ c \in ToSet(Kids(e, Parent(e, c)))
    BY <1>3, <1>4 DEF WellFormed, Linked, Places
  <2> QED
    BY <1>3, <1>4, <1>5, <2>1, <2>2, <2>3 DEF Linked, Places
<1>7. Acyclic(e.nodes)
  <2> SUFFICES ASSUME NEW c \in Blocks(e)
               PROVE  \E U : ToSet(Kids(e, c)) \subseteq U /\ Closed(e.nodes, U) /\ c \notin U
    BY <1>3, <1>6, NotUnderItself
  <2> DEFINE A == AllUnder(d.nodes, ToSet(Kids(d, c)))
  <2>1. ToSet(Kids(d, c)) \subseteq A /\ A \subseteq Blocks(d) /\ Closed(d.nodes, A) /\ c \notin A
    BY <1>3, AllBelow DEF WellFormed, Places
  <2> HIDE DEF A
  <2>2. Closed(e.nodes, A)
    BY <1>1, <1>3, <1>4, <2>1, NodesOf DEF Closed, Places
  <2> QED
    BY <1>3, <1>4, <2>1, <2>2 DEF Places
<1>8. ASSUME NEW c \in Blocks(e) PROVE Holds(e.nodes[c].kind, Text(e, c), Kids(e, c))
  <2>1. Holds(d.nodes[c].kind, Text(d, c), Kids(d, c)) /\ Kids(e, c) = Kids(d, c)
    BY <1>3, <1>4 DEF WellFormed, Places
  <2>2. CASE c = b
    BY <2>2, KnownKinds, <1>4, <2>1 DEF ContentFits, Holds
  <2>3. CASE c # b
    BY <1>3, <1>4, <2>1, <2>3
  <2> QED
    BY <2>2, <2>3
<1>9. WellFormed(e)
  BY <1>3, <1>6, <1>7, <1>8 DEF WellFormed
<1> QED
  BY <1>3, <1>4, <1>9 DEF e, node

\* A block is given its old type back.
LEMMA SetBlockUndone ==
    ASSUME NEW d, WellFormed(d), NEW s, s.op = "SetBlock", Perform(d, s).ok
    PROVE  Undone(d, Perform(d, s))
<1> DEFINE a == Perform(d, s)
           b == s.block
           old == d.nodes[b]
           e == Retyped(d, b, s.kind, s.attr)
           r == a.inverse
<1>1. a = SetBlock(d, s)
  BY DEF Perform
<1>2. /\ b \in Blocks(d) /\ AllowsChild(d, Parent(d, b), s.kind) /\ ContentFits(d, s.kind, b)
      /\ a.doc = e /\ r = SetBlockStep(b, old.kind, old.attr)
  BY <1>1 DEF SetBlock, Applied, Failed, Retyped
<1>3. /\ WellFormed(e) /\ Blocks(e) = Blocks(d)
      /\ \A p \in Places(d) : Kids(e, p) = Kids(d, p)
      /\ \A c \in Blocks(d) : /\ e.nodes[c].kind = IF c = b THEN s.kind ELSE d.nodes[c].kind
                              /\ e.nodes[c].attr = IF c = b THEN s.attr ELSE d.nodes[c].attr
                              /\ Parent(e, c) = Parent(d, c) /\ Text(e, c) = Text(d, c)
  BY <1>2, RetypedView
<1> HIDE DEF e, a, old
<1>4. r.op = "SetBlock" /\ r.block = b /\ r.kind = old.kind /\ r.attr = old.attr
  BY <1>2 DEF SetBlockStep
<1> HIDE DEF r
<1>5. AllowsChild(e, Parent(e, b), old.kind)
  BY <1>2, <1>3, NotItsOwnParent DEF AllowsChild, old
<1>6. ContentFits(e, old.kind, b)
  <2>1. ContentOf[old.kind] = ContentOf[e.nodes[b].kind]
    BY <1>2, <1>3 DEF ContentFits, old
  <2>2. ASSUME NEW c \in ToSet(Kids(d, b)) PROVE e.nodes[c].kind \in AllowedIn[old.kind]
    <3>1. c \in Blocks(d) /\ c # b /\ b # Root
      BY <1>2, NotItsOwnParent
    <3>2. AllowsChild(d, b, d.nodes[c].kind)
      BY <1>2 DEF WellFormed, Linked
    <3> QED
      BY <1>3, <3>1, <3>2 DEF AllowsChild, old
  <2>3. Kids(e, b) = Kids(d, b)
    BY <1>2, <1>3 DEF Places
  <2> QED
    BY <2>1, <2>2, <2>3 DEF ContentFits
<1> DEFINE u == Retyped(e, b, old.kind, old.attr)
<1>7. Perform(e, r).ok /\ Perform(e, r).doc = u
  BY <1>2, <1>3, <1>4, <1>5, <1>6 DEF Perform, SetBlock, Applied, Retyped
<1>8. /\ WellFormed(u) /\ Blocks(u) = Blocks(e)
      /\ \A p \in Places(e) : Kids(u, p) = Kids(e, p)
      /\ \A c \in Blocks(e) : /\ u.nodes[c].kind = IF c = b THEN old.kind ELSE e.nodes[c].kind
                              /\ u.nodes[c].attr = IF c = b THEN old.attr ELSE e.nodes[c].attr
                              /\ Parent(u, c) = Parent(e, c) /\ Text(u, c) = Text(e, c)
  BY <1>2, <1>3, <1>5, <1>6, RetypedView
<1> HIDE DEF u
<1>9. Alike(d, u)
  BY <1>2, <1>3, <1>8 DEF Alike, Places, old
<1>10. Content(u) = Content(d) /\ Shaped(u)
  BY <1>8, <1>9, SameContent DEF WellFormed
<1>11. IsStep(r)
  BY <1>4 DEF IsStep
<1> QED
  BY <1>2, <1>3, <1>7, <1>10, <1>11 DEF Undone, a, r

-----------------------------------------------------------------------------
(***************************************************************************)
(* Trees put into a document.                                              *)
(***************************************************************************)

\* What a forest says of its nodes.
LEMMA ForestView ==
    ASSUME NEW t, IsForest(t)
    PROVE  /\ t.roots \in Seq(DOMAIN t.nodes) /\ IsInjective(t.roots)
           /\ ToSet(t.roots) \subseteq DOMAIN t.nodes
           /\ IsFiniteSet(DOMAIN t.nodes) /\ Root \notin DOMAIN t.nodes
           /\ KidsAreNodes(t.nodes) /\ Acyclic(t.nodes)
           /\ DOMAIN t.nodes = AllUnder(t.nodes, ToSet(t.roots))
           /\ \A b \in DOMAIN t.nodes :
                 /\ t.nodes[b].kids \in Seq(DOMAIN t.nodes) /\ IsInjective(t.nodes[b].kids)
                 /\ Holds(t.nodes[b].kind, t.nodes[b].text, t.nodes[b].kids)
                 /\ \A c \in KidsOf(t.nodes, b) : t.nodes[c].parent = b /\ c \notin ToSet(t.roots)
                 /\ \/ b \in ToSet(t.roots)
                    \/ /\ t.nodes[b].parent \in DOMAIN t.nodes
                       /\ b \in KidsOf(t.nodes, t.nodes[b].parent)
<1> DEFINE N == t.nodes
           R == ToSet(t.roots)
<1>1. t.roots \in Seq(DOMAIN N) /\ IsInjective(t.roots)
  BY DEF IsForest
<1>2. \A b \in DOMAIN N : N[b].kids \in Seq(DOMAIN N) /\ IsInjective(N[b].kids)
  BY DEF IsForest
<1>3. R \subseteq DOMAIN N
  BY <1>1, MemberOf
<1>4. KidsAreNodes(N)
  BY <1>2, MemberOf DEF KidsAreNodes, KidsOf
<1>5. \A b \in DOMAIN N : \A c \in KidsOf(N, b) : N[c].parent = b /\ c \notin R
  BY DEF IsForest, KidsOf
<1>6. IsFiniteSet(DOMAIN N) /\ DOMAIN N = AllUnder(N, R)
  BY DEF IsForest
<1>7. ASSUME NEW b \in DOMAIN N PROVE b \in R \/ (N[b].parent \in DOMAIN N /\ b \in KidsOf(N, N[b].parent))
  <2> DEFINE U == {c \in DOMAIN N : c \in R \/ (N[c].parent \in DOMAIN N /\ c \in KidsOf(N, N[c].parent))}
  <2>1. R \subseteq U
    BY <1>3
  <2>2. ASSUME NEW a \in U, NEW c \in KidsOf(N, a) PROVE c \in U
    BY <1>4, <1>5, <2>2 DEF KidsAreNodes
  <2>3. Closed(N, U)
    BY <2>2 DEF Closed
  <2> HIDE DEF U, R, N
  <2>4. AllUnder(N, R) \subseteq U
    BY <1>3, <1>4, <1>6, <2>1, <2>3, AllUnderLeast
  <2> QED
    BY <1>6, <2>4 DEF U
<1> QED
  BY <1>1, <1>2, <1>3, <1>4, <1>5, <1>6, <1>7 DEF IsForest

\* A block built field by field.
LEMMA RecordIsA ==
    \A k, a, p, t, c, r :
       IsA([kind |-> k, attr |-> a, parent |-> p, text |-> t, kids |-> c, rev |-> r], BlockFields \cup {"rev"})
<1> SUFFICES ASSUME NEW k, NEW a, NEW p, NEW t, NEW c, NEW r
             PROVE  IsA([kind |-> k, attr |-> a, parent |-> p, text |-> t, kids |-> c, rev |-> r],
                        BlockFields \cup {"rev"})
  BY Zenon
<1> DEFINE x == [kind |-> k, attr |-> a, parent |-> p, text |-> t, kids |-> c, rev |-> r]
           F == BlockFields \cup {"rev"}
<1>1. DOMAIN x = F /\ x = [f \in DOMAIN x |-> x[f]]
  BY DEF BlockFields
<1> HIDE DEF x, F
<1>2. IsA(x, F)
  BY <1>1 DEF IsA
<1> QED
  BY <1>2 DEF x, F

\* A document with trees attached, block by block.
LEMMA AttachTreesView ==
    ASSUME NEW d, Shaped(d), NEW p \in Places(d), NEW index, NEW t, IsForest(t),
           DOMAIN t.nodes \cap Blocks(d) = {}
    PROVE  LET e == AttachTrees(d, p, index, t)
               R == ToSet(t.roots)
           IN  /\ Shaped(e) /\ Blocks(e) = Blocks(d) \cup DOMAIN t.nodes
               /\ \A q \in Places(d) : Kids(e, q) = IF q = p THEN SpliceSeq(Kids(d, p), index, 0, t.roots)
                                                    ELSE Kids(d, q)
               /\ \A c \in Blocks(d) : /\ e.nodes[c].kind = d.nodes[c].kind /\ e.nodes[c].attr = d.nodes[c].attr
                                       /\ Parent(e, c) = Parent(d, c) /\ Text(e, c) = Text(d, c)
               /\ \A c \in DOMAIN t.nodes :
                     /\ e.nodes[c].kind = t.nodes[c].kind /\ e.nodes[c].attr = t.nodes[c].attr
                     /\ Parent(e, c) = (IF c \in R THEN p ELSE t.nodes[c].parent)
                     /\ Text(e, c) = t.nodes[c].text /\ Kids(e, c) = t.nodes[c].kids
<1> DEFINE R == ToSet(t.roots)
           T == DOMAIN t.nodes
           Born(c) == [kind |-> t.nodes[c].kind, attr |-> t.nodes[c].attr,
                       parent |-> IF c \in R THEN p ELSE t.nodes[c].parent,
                       text |-> t.nodes[c].text, kids |-> t.nodes[c].kids, rev |-> 0]
           All == [c \in Blocks(d) \cup T |-> IF c \in T THEN Born(c) ELSE d.nodes[c]]
           next == Observe(d.next, T)
           f == [d EXCEPT !.nodes = All, !.next = next]
           kids == SpliceSeq(Kids(d, p), index, 0, t.roots)
           e == AttachTrees(d, p, index, t)
<1>1. e = SetKids(f, p, kids)
  BY DEF AttachTrees
<1>2. IsFiniteSet(T) /\ Root \notin T
  BY ForestView
<1>3. /\ IsA(f, {"nodes", "root", "next", "version", "saves"}) /\ f.nodes = All /\ f.root = d.root
  <2> HIDE DEF All, next
  <2> QED
    BY DEF Shaped, IsA
<1> HIDE DEF f, kids, next, e
<1>4. /\ Blocks(f) = Blocks(d) \cup T /\ IsA(f.nodes, Blocks(f))
      /\ \A c \in Blocks(d) \cup T : f.nodes[c] = IF c \in T THEN Born(c) ELSE d.nodes[c]
  <2>1. \A c \in Blocks(d) \cup T : All[c] = IF c \in T THEN Born(c) ELSE d.nodes[c]
    OBVIOUS
  <2>2. DOMAIN All = Blocks(d) \cup T /\ All = [c \in DOMAIN All |-> All[c]]
    OBVIOUS
  <2> HIDE DEF All, Born
  <2> QED
    BY <1>3, <2>1, <2>2 DEF Blocks, IsA
<1>5. \A c \in T : /\ IsA(f.nodes[c], BlockFields \cup {"rev"})
                   /\ f.nodes[c].kind = t.nodes[c].kind /\ f.nodes[c].attr = t.nodes[c].attr
                   /\ f.nodes[c].parent = (IF c \in R THEN p ELSE t.nodes[c].parent)
                   /\ f.nodes[c].text = t.nodes[c].text /\ f.nodes[c].kids = t.nodes[c].kids
  <2> SUFFICES ASSUME NEW c \in T
               PROVE  /\ IsA(f.nodes[c], BlockFields \cup {"rev"})
                      /\ f.nodes[c].kind = t.nodes[c].kind /\ f.nodes[c].attr = t.nodes[c].attr
                      /\ f.nodes[c].parent = (IF c \in R THEN p ELSE t.nodes[c].parent)
                      /\ f.nodes[c].text = t.nodes[c].text /\ f.nodes[c].kids = t.nodes[c].kids
    OBVIOUS
  <2>1. f.nodes[c] = Born(c)
    <3> HIDE DEF Born, T
    <3> QED
      BY <1>4
  <2>2. IsA(Born(c), BlockFields \cup {"rev"})
    BY RecordIsA
  <2> QED
    BY <2>1, <2>2
<1>6. \A c \in Blocks(d) : f.nodes[c] = d.nodes[c]
  <2> HIDE DEF Born
  <2> QED
    BY <1>4
<1> HIDE DEF All, Born
<1>7. Shaped(f)
  BY <1>2, <1>4, FS_Union, <1>5, <1>6, <1>3 DEF Shaped
<1>8. /\ \A q \in Places(d) : Kids(f, q) = Kids(d, q)
      /\ \A c \in T : Kids(f, c) = t.nodes[c].kids
      /\ p \in Places(f)
  BY <1>2, <1>3, <1>4, <1>5, <1>6 DEF Kids, Places
<1>9. Shaped(e) /\ ButKids(f, e, p, kids)
  BY <1>1, <1>7, <1>8, SetKidsView
<1>10. \A c \in T : c # p
  BY <1>2 DEF Places
<1>11. /\ Blocks(e) = Blocks(d) \cup T
       /\ \A q \in Places(d) : Kids(e, q) = IF q = p THEN kids ELSE Kids(d, q)
  BY <1>4, <1>8, <1>9 DEF ButKids, Places
<1>12. \A c \in Blocks(d) : /\ e.nodes[c].kind = d.nodes[c].kind /\ e.nodes[c].attr = d.nodes[c].attr
                            /\ Parent(e, c) = Parent(d, c) /\ Text(e, c) = Text(d, c)
  BY <1>4, <1>6, <1>9 DEF ButKids, Parent, Text
<1>13. \A c \in T : /\ e.nodes[c].kind = t.nodes[c].kind /\ e.nodes[c].attr = t.nodes[c].attr
                    /\ Parent(e, c) = (IF c \in R THEN p ELSE t.nodes[c].parent)
                    /\ Text(e, c) = t.nodes[c].text /\ Kids(e, c) = t.nodes[c].kids
  BY <1>4, <1>5, <1>8, <1>9, <1>10 DEF ButKids, Parent, Text, Places
<1> QED
  BY <1>9, <1>11, <1>12, <1>13 DEF e, kids

\* Where a document takes trees: siblings at a place, allowed by the schema.
Takes(d, p, index, t) ==
    /\ p \in Places(d) /\ (p = Root \/ ContentOf[d.nodes[p].kind] = "blocks")
    /\ index \in Nat /\ index <= Len(Kids(d, p))
    /\ IsForest(t) /\ TreesOk(d, p, t)

\* Trees attached where their roots may stand keep a document well formed.
LEMMA AttachedIsWellFormed ==
    ASSUME NEW d, WellFormed(d), NEW p, NEW index, NEW t, Takes(d, p, index, t)
    PROVE  WellFormed(AttachTrees(d, p, index, t))
<1> DEFINE e == AttachTrees(d, p, index, t)
           N == t.nodes
           T == DOMAIN N
           R == ToSet(t.roots)
           kids == SpliceSeq(Kids(d, p), index, 0, t.roots)
<1>1. /\ p \in Places(d) /\ (p = Root \/ ContentOf[d.nodes[p].kind] = "blocks")
      /\ index \in Nat /\ index <= Len(Kids(d, p)) /\ IsForest(t)
      /\ T \cap Blocks(d) = {} /\ Shaped(d)
      /\ \A b \in R : AllowsChild(d, p, N[b].kind)
      /\ \A b \in T : \A c \in KidsOf(N, b) : N[c].kind \in AllowedIn[N[b].kind]
  BY DEF Takes, TreesOk, WellFormed, KidsOf
<1>2. /\ Shaped(e) /\ Blocks(e) = Blocks(d) \cup T
      /\ \A q \in Places(d) : Kids(e, q) = IF q = p THEN kids ELSE Kids(d, q)
      /\ \A c \in Blocks(d) : /\ e.nodes[c].kind = d.nodes[c].kind /\ e.nodes[c].attr = d.nodes[c].attr
                              /\ Parent(e, c) = Parent(d, c) /\ Text(e, c) = Text(d, c)
      /\ \A c \in T : /\ e.nodes[c].kind = N[c].kind /\ e.nodes[c].attr = N[c].attr
                      /\ Parent(e, c) = (IF c \in R THEN p ELSE N[c].parent)
                      /\ Text(e, c) = N[c].text /\ Kids(e, c) = N[c].kids
  BY <1>1, AttachTreesView
<1>3. /\ t.roots \in Seq(T) /\ IsInjective(t.roots) /\ R \subseteq T
      /\ IsFiniteSet(T) /\ Root \notin T /\ KidsAreNodes(N) /\ Acyclic(N)
      /\ \A b \in T : /\ N[b].kids \in Seq(T) /\ IsInjective(N[b].kids)
                      /\ Holds(N[b].kind, N[b].text, N[b].kids)
                      /\ \A c \in KidsOf(N, b) : N[c].parent = b /\ c \notin R
                      /\ (b \in R \/ (N[b].parent \in T /\ b \in KidsOf(N, N[b].parent)))
  BY <1>1, ForestView
<1>4. \A q \in Places(d) : /\ Kids(d, q) \in Seq(Blocks(d)) /\ IsInjective(Kids(d, q))
                           /\ ToSet(Kids(d, q)) \subseteq Blocks(d)
                           /\ \A b \in ToSet(Kids(d, q)) : Parent(d, b) = q /\ AllowsChild(d, q, d.nodes[b].kind)
  BY MemberOf DEF WellFormed, Linked, Places
<1>5. \A b \in Blocks(d) : Parent(d, b) \in Places(d) /\ b \in ToSet(Kids(d, Parent(d, b)))
  BY DEF WellFormed, Linked, Places
<1> HIDE DEF e, kids, T, N, R
<1>6. kids \in Seq(Blocks(e)) /\ IsInjective(kids) /\ ToSet(kids) = ToSet(Kids(d, p)) \cup R
  <2>1. Kids(d, p) \in Seq(Blocks(e)) /\ t.roots \in Seq(Blocks(e))
    BY <1>1, <1>2, <1>3, <1>4, SeqMonotonic
  <2>2. ToSet(Kids(d, p)) \cap ToSet(t.roots) = {}
    BY <1>1, <1>3, <1>4 DEF R
  <2> QED
    BY <1>1, <1>3, <1>4, <2>1, <2>2, PutIn DEF kids, R
<1>7. Places(e) = Places(d) \cup T /\ \A q \in T : q \notin Places(d) /\ q # p
  BY <1>1, <1>2, <1>3 DEF Places
<1>8. ASSUME NEW q \in Places(e)
      PROVE  /\ Kids(e, q) \in Seq(Blocks(e)) /\ IsInjective(Kids(e, q))
             /\ \A b \in ToSet(Kids(e, q)) : Parent(e, b) = q /\ AllowsChild(e, q, e.nodes[b].kind)
  <2>1. CASE q \in T
    <3>1. Kids(e, q) = N[q].kids /\ N[q].kids \in Seq(T) /\ IsInjective(N[q].kids)
      BY <1>2, <1>3, <2>1
    <3>2. N[q].kids \in Seq(Blocks(e))
      BY <1>2, <3>1, SeqMonotonic
    <3>3. ASSUME NEW b \in ToSet(Kids(e, q)) PROVE Parent(e, b) = q /\ AllowsChild(e, q, e.nodes[b].kind)
      <4>1. b \in KidsOf(N, q) /\ b \in T
        BY <1>3, <2>1, <3>1 DEF KidsOf, KidsAreNodes, T
      <4>2. N[b].parent = q /\ b \notin R /\ N[b].kind \in AllowedIn[N[q].kind]
        BY <1>1, <1>3, <2>1, <4>1
      <4> QED
        BY <1>2, <2>1, <4>1, <4>2 DEF AllowsChild
    <3> QED
      BY <3>1, <3>2, <3>3
  <2>2. CASE q = p
    <3>1. Kids(e, q) = kids
      BY <1>1, <1>2, <2>2
    <3>2. ASSUME NEW b \in ToSet(Kids(e, q)) PROVE Parent(e, b) = q /\ AllowsChild(e, q, e.nodes[b].kind)
      BY <1>6, <3>1, <1>1, <1>2, <1>3, <2>2, <1>4 DEF AllowsChild, Places
    <3> QED
      BY <1>6, <3>1, <3>2
  <2>3. CASE q \in Places(d) /\ q # p
    BY <1>2, <2>3, <1>4, SeqMonotonic DEF AllowsChild, Places
  <2> QED
    BY <1>7, <2>1, <2>2, <2>3
<1>9. ASSUME NEW b \in Blocks(e) PROVE Parent(e, b) \in Places(e) /\ b \in ToSet(Kids(e, Parent(e, b)))
  <2>1. CASE b \in Blocks(d)
    <3> DEFINE q == Parent(d, b)
    <3>1. Parent(e, b) = q /\ q \in Places(d) /\ b \in ToSet(Kids(d, q))
      BY <1>2, <1>5, <2>1
    <3>2. b \in ToSet(Kids(e, q))
      BY <1>2, <1>6, <3>1
    <3> QED
      BY <1>7, <3>1, <3>2
  <2>2. CASE b \in T /\ b \in R
    BY <1>1, <1>2, <1>6, <1>7, <2>2
  <2>3. CASE b \in T /\ b \notin R
    BY <1>2, <1>3, <2>3, <1>7 DEF KidsOf
  <2> QED
    BY <1>2, <2>1, <2>2, <2>3
<1>10. Linked(e)
  BY <1>8, <1>9 DEF Linked, Places
<1>11. \A b \in T : KidsOf(e.nodes, b) = KidsOf(N, b)
  BY <1>2, NodesOf DEF KidsOf
<1>12. \A b \in Blocks(d) : KidsOf(e.nodes, b) \subseteq KidsOf(d.nodes, b) \cup T
  BY <1>1, <1>2, NodesOf, <1>3, <1>6 DEF Places
<1>13. Acyclic(e.nodes)
  <2> SUFFICES ASSUME NEW b \in Blocks(e)
               PROVE  \E U : ToSet(Kids(e, b)) \subseteq U /\ Closed(e.nodes, U) /\ b \notin U
    BY <1>2, <1>10, NotUnderItself
  <2>0. ToSet(Kids(e, b)) = KidsOf(e.nodes, b)
    BY <1>2, NodesOf
  <2>1. CASE b \in T
    <3> DEFINE A == AllUnder(N, KidsOf(N, b))
    <3>1. KidsOf(N, b) \subseteq DOMAIN N
      BY <1>3, <2>1 DEF KidsAreNodes, T
    <3>2. KidsOf(N, b) \subseteq A /\ A \subseteq T /\ Closed(N, A)
      BY <1>3, <3>1, AllUnderLeast DEF T
    <3>3. b \notin A
      BY <1>3, <2>1 DEF Acyclic, KidsOf, T
    <3> HIDE DEF A
    <3>4. Closed(e.nodes, A)
      BY <1>11, <3>2 DEF Closed
    <3> QED
      BY <1>11, <2>0, <2>1, <3>2, <3>3, <3>4
  <2>2. CASE b \in Blocks(d)
    <3> DEFINE A == AllUnder(d.nodes, ToSet(Kids(d, b)))
    <3>1. ToSet(Kids(d, b)) \subseteq A /\ A \subseteq Blocks(d) /\ Closed(d.nodes, A) /\ b \notin A
      BY <2>2, AllBelow DEF WellFormed, Places
    <3> HIDE DEF A
    <3>2. Closed(e.nodes, A \cup T)
      BY <1>12, <3>1, <1>3, <1>11 DEF Closed, KidsAreNodes, T
    <3>3. ToSet(Kids(e, b)) \subseteq A \cup T
      BY <1>1, <1>12, <2>0, <2>2, <3>1, NodesOf
    <3>4. b \notin A \cup T
      BY <1>1, <2>2, <3>1
    <3> QED
      BY <3>2, <3>3, <3>4
  <2> QED
    BY <1>2, <2>1, <2>2
<1>14. ASSUME NEW b \in Blocks(e) PROVE Holds(e.nodes[b].kind, Text(e, b), Kids(e, b))
  <2>1. CASE b \in T
    BY <1>2, <1>3, <2>1
  <2>2. CASE b \in Blocks(d) /\ b # p
    BY <1>2, <2>2 DEF Places, WellFormed
  <2>3. CASE b \in Blocks(d) /\ b = p
    BY <1>1, <2>3, <1>2 DEF Shaped, WellFormed, Holds
  <2> QED
    BY <1>2, <2>1, <2>2, <2>3
<1>15. WellFormed(e)
  BY <1>2, <1>10, <1>13, <1>14 DEF WellFormed
<1> QED
  BY <1>15 DEF e

-----------------------------------------------------------------------------
(***************************************************************************)
(* Trees taken out of a document.                                          *)
(***************************************************************************)

\* Siblings of a document: a part of the children of a place.
Siblings(d, p, index, count) ==
    p \in Places(d) /\ index \in Nat /\ count \in Nat /\ index + count <= Len(Kids(d, p))

\* A document with siblings detached, and the trees taken out, block by block.
LEMMA DetachTreesView ==
    ASSUME NEW d, WellFormed(d), NEW p, NEW index, NEW count, Siblings(d, p, index, count)
    PROVE  LET cut == DetachTrees(d, p, index, count)
               ids == SubSeq(Kids(d, p), index + 1, index + count)
               gone == AllUnder(d.nodes, ToSet(ids))
               e == cut.doc
               t == cut.trees
           IN  /\ Shaped(e) /\ Blocks(e) = Blocks(d) \ gone /\ p \notin gone
               /\ \A q \in Places(e) : Kids(e, q) = IF q = p THEN SpliceSeq(Kids(d, p), index, count, <<>>)
                                                    ELSE Kids(d, q)
               /\ \A c \in Blocks(e) : /\ e.nodes[c].kind = d.nodes[c].kind /\ e.nodes[c].attr = d.nodes[c].attr
                                       /\ Parent(e, c) = Parent(d, c) /\ Text(e, c) = Text(d, c)
               /\ IsA(t, {"roots", "nodes"}) /\ IsA(t.nodes, DOMAIN t.nodes)
               /\ t.roots = ids /\ DOMAIN t.nodes = gone
               /\ \A c \in gone : /\ IsA(t.nodes[c], BlockFields)
                                  /\ t.nodes[c].kind = d.nodes[c].kind /\ t.nodes[c].attr = d.nodes[c].attr
                                  /\ t.nodes[c].parent = Parent(d, c) /\ t.nodes[c].text = Text(d, c)
                                  /\ t.nodes[c].kids = Kids(d, c)
<1> DEFINE ids == SubSeq(Kids(d, p), index + 1, index + count)
           gone == AllUnder(d.nodes, ToSet(ids))
           kids == SpliceSeq(Kids(d, p), index, count, <<>>)
           f == SetKids(d, p, kids)
           cut == DetachTrees(d, p, index, count)
           e == cut.doc
           t == cut.trees
<1>1. /\ p \in Places(d) /\ index \in Nat /\ count \in Nat /\ index + count <= Len(Kids(d, p))
      /\ Shaped(d) /\ Linked(d) /\ Acyclic(d.nodes)
  BY DEF Siblings, WellFormed
<1>2. ToSet(ids) \subseteq ToSet(Kids(d, p))
  BY <1>1, TakenOut DEF Linked, Places
<1>3. gone \subseteq Blocks(d) /\ p \notin gone
  BY <1>1, <1>2, AllBelow
<1>4. Shaped(f) /\ ButKids(d, f, p, kids)
  BY <1>1, SetKidsView
<1>5. e = [f EXCEPT !.nodes = [b \in DOMAIN f.nodes \ gone |-> f.nodes[b]]]
  BY DEF DetachTrees
<1>6. t = [roots |-> ids, nodes |-> [b \in gone |-> Content(d).nodes[b]]]
  BY DEF DetachTrees, Trees
<1> HIDE DEF f, kids, gone, ids, e, t
<1> DEFINE left == [b \in DOMAIN f.nodes \ gone |-> f.nodes[b]]
<1>7. IsA(e, {"nodes", "root", "next", "version", "saves"}) /\ e.nodes = left /\ e.root = f.root
  <2> HIDE DEF left
  <2>1. f = [x \in {"nodes", "root", "next", "version", "saves"} |-> f[x]]
    BY <1>4 DEF Shaped, IsA
  <2>2. e = [f EXCEPT !.nodes = left]
    BY <1>5 DEF left
  <2> QED
    BY <2>1, <2>2 DEF IsA
<1>8. /\ Blocks(e) = Blocks(d) \ gone /\ IsA(e.nodes, Blocks(e))
      /\ \A b \in Blocks(e) : e.nodes[b] = f.nodes[b]
  <2>1. DOMAIN left = DOMAIN f.nodes \ gone /\ left = [b \in DOMAIN left |-> left[b]]
        /\ \A b \in DOMAIN left : left[b] = f.nodes[b]
    OBVIOUS
  <2> HIDE DEF left
  <2> QED
    BY <1>4, <1>7, <2>1 DEF Blocks, IsA, ButKids
<1>9. Shaped(e)
  BY <1>1, <1>8, FS_Subset, <1>4, <1>7 DEF Shaped, ButKids
<1>10. \A q \in Places(e) : Kids(e, q) = Kids(f, q)
  BY <1>4, <1>8, <1>9, <1>7 DEF ButKids, Shaped, Kids, Places
<1>11. \A q \in Places(e) : Kids(e, q) = IF q = p THEN kids ELSE Kids(d, q)
  BY <1>4, <1>8, <1>10 DEF ButKids, Places
<1>12. \A c \in Blocks(e) : /\ e.nodes[c].kind = d.nodes[c].kind /\ e.nodes[c].attr = d.nodes[c].attr
                            /\ Parent(e, c) = Parent(d, c) /\ Text(e, c) = Text(d, c)
  BY <1>4, <1>8 DEF ButKids, Parent, Text
<1>13. \A c \in gone : Content(d).nodes[c] = [x \in BlockFields |-> d.nodes[c][x]]
  BY <1>1, <1>3 DEF Shaped, IsA, BlockFields, Content
<1> DEFINE out == [b \in gone |-> Content(d).nodes[b]]
<1>14. /\ IsA(t, {"roots", "nodes"}) /\ t.roots = ids /\ DOMAIN t.nodes = gone
       /\ IsA(t.nodes, DOMAIN t.nodes) /\ \A c \in gone : t.nodes[c] = [x \in BlockFields |-> d.nodes[c][x]]
  <2>1. DOMAIN out = gone /\ out = [b \in DOMAIN out |-> out[b]]
        /\ \A c \in gone : out[c] = [x \in BlockFields |-> d.nodes[c][x]]
    BY <1>13
  <2>2. t = [roots |-> ids, nodes |-> out]
    BY <1>6
  <2> HIDE DEF out
  <2>3. IsA(t, {"roots", "nodes"}) /\ t.roots = ids /\ t.nodes = out
    BY <2>2 DEF IsA
  <2> QED
    BY <2>1, <2>3 DEF IsA
<1>15. ASSUME NEW c \in gone
       PROVE  /\ IsA(t.nodes[c], BlockFields)
              /\ t.nodes[c].kind = d.nodes[c].kind /\ t.nodes[c].attr = d.nodes[c].attr
              /\ t.nodes[c].parent = Parent(d, c) /\ t.nodes[c].text = Text(d, c)
              /\ t.nodes[c].kids = Kids(d, c)
  <2> DEFINE node == t.nodes[c]
  <2>1. node = [x \in BlockFields |-> d.nodes[c][x]]
    BY <1>14
  <2> HIDE DEF node
  <2>2. \A x \in BlockFields : node[x] = d.nodes[c][x]
    BY <2>1
  <2>3. IsA(node, BlockFields)
    BY <2>1, <2>2 DEF IsA
  <2>4. c \in Blocks(d) /\ c # Root
    BY <1>1, <1>3 DEF Shaped
  <2> QED
    BY <2>2, <2>3, <2>4 DEF node, BlockFields, Parent, Text, Kids
<1> QED
  BY <1>3, <1>8, <1>9, <1>11, <1>12, <1>14, <1>15 DEF e, t, gone, ids, kids

\* What is left is well formed, and what was taken out is a forest.
LEMMA DetachedIsWellFormed ==
    ASSUME NEW d, WellFormed(d), NEW p, NEW index, NEW count, Siblings(d, p, index, count)
    PROVE  LET cut == DetachTrees(d, p, index, count)
           IN  WellFormed(cut.doc) /\ IsForest(cut.trees)
<1> DEFINE ids == SubSeq(Kids(d, p), index + 1, index + count)
           gone == AllUnder(d.nodes, ToSet(ids))
           kids == SpliceSeq(Kids(d, p), index, count, <<>>)
           cut == DetachTrees(d, p, index, count)
           e == cut.doc
           t == cut.trees
           N == t.nodes
<1>1. /\ p \in Places(d) /\ index \in Nat /\ count \in Nat /\ index + count <= Len(Kids(d, p))
      /\ Shaped(d) /\ Linked(d) /\ Acyclic(d.nodes)
  BY DEF Siblings, WellFormed
<1>2. /\ Shaped(e) /\ Blocks(e) = Blocks(d) \ gone /\ p \notin gone
      /\ \A q \in Places(e) : Kids(e, q) = IF q = p THEN kids ELSE Kids(d, q)
      /\ \A c \in Blocks(e) : /\ e.nodes[c].kind = d.nodes[c].kind /\ e.nodes[c].attr = d.nodes[c].attr
                              /\ Parent(e, c) = Parent(d, c) /\ Text(e, c) = Text(d, c)
      /\ IsA(t, {"roots", "nodes"}) /\ IsA(N, DOMAIN N) /\ t.roots = ids /\ DOMAIN N = gone
      /\ \A c \in gone : /\ IsA(N[c], BlockFields)
                         /\ N[c].kind = d.nodes[c].kind /\ N[c].attr = d.nodes[c].attr
                         /\ N[c].parent = Parent(d, c) /\ N[c].text = Text(d, c) /\ N[c].kids = Kids(d, c)
  BY DetachTreesView
<1>3. \A q \in Places(d) : /\ Kids(d, q) \in Seq(Blocks(d)) /\ IsInjective(Kids(d, q))
                           /\ ToSet(Kids(d, q)) \subseteq Blocks(d)
                           /\ \A b \in ToSet(Kids(d, q)) : Parent(d, b) = q /\ AllowsChild(d, q, d.nodes[b].kind)
  BY MemberOf DEF WellFormed, Linked, Places
<1>4. /\ kids \in Seq(Blocks(d)) /\ IsInjective(kids)
      /\ ToSet(kids) = ToSet(Kids(d, p)) \ ToSet(ids)
      /\ ToSet(ids) \subseteq ToSet(Kids(d, p)) /\ IsInjective(ids) /\ ids \in Seq(Blocks(d))
  BY <1>1, <1>3, TakenOut
<1>5. /\ ToSet(ids) \subseteq gone /\ gone \subseteq Blocks(d) /\ Closed(d.nodes, gone)
      /\ \A b \in gone : b \in ToSet(ids) \/ Parent(d, b) \in gone
  BY <1>1, <1>4, AllBelow
<1>6. \A b \in Blocks(d) : Parent(d, b) \in Places(d) /\ b \in ToSet(Kids(d, Parent(d, b)))
  BY DEF WellFormed, Linked, Places
<1> HIDE DEF ids, gone, kids, cut, e, t, N
<1>7. \A q \in Places(e) : q \in Places(d) /\ q \notin gone
  BY <1>1, <1>2, <1>5 DEF Places, Shaped
<1>8. \A q \in Places(e) : ToSet(Kids(e, q)) \subseteq ToSet(Kids(d, q)) /\ ToSet(Kids(e, q)) \subseteq Blocks(e)
  <2> SUFFICES ASSUME NEW q \in Places(e), NEW b \in ToSet(Kids(e, q))
               PROVE  b \in ToSet(Kids(d, q)) /\ b \in Blocks(e)
    OBVIOUS
  <2>1. b \in ToSet(Kids(d, q)) /\ (q = p => b \notin ToSet(ids))
    BY <1>2, <1>4
  <2>2. b \in Blocks(d) /\ Parent(d, b) = q /\ q \notin gone
    BY <1>3, <1>7, <2>1
  <2>3. b \notin gone
    BY <1>5, <2>2, <1>1, <1>3, <1>4, <2>1
  <2> QED
    BY <1>2, <2>1, <2>2, <2>3
<1>9. ASSUME NEW q \in Places(e)
      PROVE  /\ Kids(e, q) \in Seq(Blocks(e)) /\ IsInjective(Kids(e, q))
             /\ \A b \in ToSet(Kids(e, q)) : Parent(e, b) = q /\ AllowsChild(e, q, e.nodes[b].kind)
  <2>1. IsInjective(Kids(e, q)) /\ Kids(e, q) \in Seq(Blocks(e))
    <3>1. CASE q = p
      BY <1>2, <3>1, <1>4, <1>8, MemberOf, SeqMonotonic
    <3>2. CASE q # p
      BY <1>2, <1>3, <1>7, <3>2, <1>8, MemberOf, SeqMonotonic
    <3> QED
      BY <3>1, <3>2
  <2>2. ASSUME NEW b \in ToSet(Kids(e, q)) PROVE Parent(e, b) = q /\ AllowsChild(e, q, e.nodes[b].kind)
    <3>1. b \in ToSet(Kids(d, q)) /\ b \in Blocks(e) /\ q \in Places(d)
      BY <1>7, <1>8
    <3>2. Parent(d, b) = q /\ AllowsChild(d, q, d.nodes[b].kind)
      BY <1>3, <3>1
    <3> QED
      <4>1. e.nodes[b].kind = d.nodes[b].kind /\ Parent(e, b) = q
        BY <1>2, <3>1, <3>2
      <4>2. CASE q = Root /\ d.nodes[b].kind \in TopLevel
        BY <4>1, <4>2 DEF AllowsChild
      <4>3. CASE q \in Blocks(d) /\ d.nodes[b].kind \in AllowedIn[d.nodes[q].kind]
        BY <1>2, <1>7, <4>3, <4>1 DEF AllowsChild
      <4> QED
        BY <3>2, <4>2, <4>3 DEF AllowsChild
  <2> QED
    BY <2>1, <2>2
<1>10. ASSUME NEW b \in Blocks(e) PROVE Parent(e, b) \in Places(e) /\ b \in ToSet(Kids(e, Parent(e, b)))
  <2> DEFINE q == Parent(d, b)
  <2>1. b \in Blocks(d) /\ b \notin gone /\ Parent(e, b) = q /\ q \in Places(d) /\ b \in ToSet(Kids(d, q))
    BY <1>2, <1>6
  <2>2. q \notin gone
    BY <1>1, <1>5, NodesOf, <2>1 DEF Closed
  <2>3. q \in Places(e)
    BY <1>2, <2>1, <2>2 DEF Places
  <2>4. b \in ToSet(Kids(e, q))
    BY <1>2, <1>4, <1>5, <2>1, <2>3
  <2> QED
    BY <2>1, <2>3, <2>4
<1>11. Linked(e)
  BY <1>9, <1>10 DEF Linked, Places
<1>12. Acyclic(e.nodes)
  <2> SUFFICES ASSUME NEW b \in Blocks(e)
               PROVE  \E U : ToSet(Kids(e, b)) \subseteq U /\ Closed(e.nodes, U) /\ b \notin U
    BY <1>2, <1>11, NotUnderItself
  <2> DEFINE A == AllUnder(d.nodes, ToSet(Kids(d, b)))
  <2>1. b \in Blocks(d) /\ b \in Places(e)
    BY <1>2 DEF Places
  <2>2. ToSet(Kids(d, b)) \subseteq A /\ A \subseteq Blocks(d) /\ Closed(d.nodes, A) /\ b \notin A
    BY <1>1, <2>1, AllBelow DEF Places
  <2> HIDE DEF A
  <2>3. Closed(e.nodes, A \cap Blocks(e))
    BY <1>2, <1>1, NodesOf, <2>2, <1>8 DEF Closed, Places
  <2>4. ToSet(Kids(e, b)) \subseteq A \cap Blocks(e)
    BY <1>8, <2>1, <2>2
  <2> QED
    BY <2>2, <2>3, <2>4
<1>13. ASSUME NEW b \in Blocks(e) PROVE Holds(e.nodes[b].kind, Text(e, b), Kids(e, b))
  <2>1. /\ Holds(d.nodes[b].kind, Text(d, b), Kids(d, b)) /\ b \in Places(e)
        /\ e.nodes[b].kind = d.nodes[b].kind /\ Text(e, b) = Text(d, b)
    BY <1>2 DEF WellFormed, Places
  <2>2. Kids(d, b) = <<>> => Kids(e, b) = <<>>
    <3>1. ASSUME Kids(d, b) = <<>> PROVE Kids(e, b) = <<>>
      BY <3>1, <1>8, <1>9, <2>1, MemberOf, LenProperties, EmptySeq DEF ToSet
    <3> QED
      BY <3>1
  <2> QED
    BY <2>1, <2>2 DEF Holds
<1>14. WellFormed(e)
  BY <1>2, <1>11, <1>12, <1>13 DEF WellFormed
<1>15. \A c \in gone : /\ N[c].kids \in Seq(gone) /\ IsInjective(N[c].kids)
                       /\ KidsOf(N, c) = ToSet(Kids(d, c)) /\ KidsOf(N, c) = KidsOf(d.nodes, c)
                       /\ KidsOf(N, c) \subseteq gone
  BY <1>2, <1>5, <1>1, NodesOf, <1>3, MemberOf, SeqMonotonic DEF Places, Closed, KidsOf
<1>16. IsFiniteSet(gone) /\ Root \notin gone
  BY <1>1, <1>5, FS_Subset DEF Shaped
<1>17. gone = AllUnder(N, ToSet(ids))
  <2>1. KidsAreNodes(N)
    BY <1>2, <1>15 DEF KidsAreNodes
  <2>2. AllUnder(d.nodes, ToSet(ids)) = AllUnder(N, ToSet(ids))
    BY <1>1, <1>2, <1>5, <1>16, NodesOf, <1>15, <2>1, AllUnderAgree DEF Blocks
  <2> QED
    BY <2>2 DEF gone
<1>18. ASSUME NEW c \in gone
       PROVE  /\ Holds(N[c].kind, N[c].text, N[c].kids)
              /\ \A x \in ToSet(N[c].kids) : N[x].parent = c /\ x \notin ToSet(ids)
  <2>1. Holds(N[c].kind, N[c].text, N[c].kids)
    BY <1>2, <1>5 DEF WellFormed
  <2>2. ASSUME NEW x \in ToSet(N[c].kids) PROVE N[x].parent = c /\ x \notin ToSet(ids)
    BY <1>2, <1>5, <1>15, <1>3, <1>1, <1>4 DEF Places, KidsOf
  <2> QED
    BY <2>1, <2>2
<1>19. Acyclic(N)
  <2> SUFFICES ASSUME NEW c \in gone PROVE c \notin AllUnder(N, ToSet(N[c].kids))
    BY <1>2 DEF Acyclic
  <2>1. c \notin AllUnder(d.nodes, ToSet(d.nodes[c].kids))
    BY <1>1, <1>5 DEF Acyclic, Blocks
  <2>2. KidsAreNodes(N)
    BY <1>2, <1>15 DEF KidsAreNodes
  <2>3. AllUnder(d.nodes, KidsOf(N, c)) = AllUnder(N, KidsOf(N, c))
    BY <1>1, <1>2, <1>5, <1>16, NodesOf, <1>15, <2>2, AllUnderAgree DEF Blocks
  <2>4. KidsOf(N, c) = ToSet(N[c].kids) /\ KidsOf(N, c) = ToSet(d.nodes[c].kids)
    BY <1>15 DEF KidsOf
  <2> QED
    BY <2>1, <2>3, <2>4
<1>20. ids \in Seq(gone)
  BY <1>4, MemberOf, <1>5, SeqMonotonic
<1>21. IsForest(t)
  BY <1>2, <1>16, <1>15, <1>4, <1>20, <1>18, <1>17, <1>19 DEF N, IsForest
<1> QED
  BY <1>14, <1>21 DEF e, t, cut

\* Elements put into a sequence and taken out again.
LEMMA PutInAndOut ==
    ASSUME NEW S, NEW s \in Seq(S), NEW new \in Seq(S), NEW at \in Nat, at <= Len(s)
    PROVE  /\ SubSeq(SpliceSeq(s, at, 0, new), at + 1, at + Len(new)) = new
           /\ at + Len(new) <= Len(SpliceSeq(s, at, 0, new)) /\ Len(new) \in Nat
           /\ SpliceSeq(SpliceSeq(s, at, 0, new), at, Len(new), <<>>) = s
<1>1. ASSUME NEW none \in Nat, none = 0
      PROVE  /\ SubSeq(SpliceSeq(s, at, none, new), at + 1, at + Len(new)) = new
             /\ at + Len(new) <= Len(SpliceSeq(s, at, none, new)) /\ Len(new) \in Nat
             /\ SpliceSeq(SpliceSeq(s, at, none, new), at, Len(new), <<>>) = s
  <2>1. at + none <= Len(s) /\ Len(new) \in Nat
    BY <1>1, LenProperties
  <2>2. SubSeq(s, at + 1, at + none) = <<>>
    BY <1>1, SubSeqEmpty
  <2>3. /\ SubSeq(SpliceSeq(s, at, none, new), at + 1, at + Len(new)) = new
        /\ at + Len(new) <= Len(SpliceSeq(s, at, none, new))
        /\ SpliceSeq(SpliceSeq(s, at, none, new), at, Len(new), SubSeq(s, at + 1, at + none)) = s
    BY <2>1, SpliceBack
  <2> QED
    BY <2>1, <2>2, <2>3
<1> QED
  BY <1>1

\* Elements taken out of a sequence and put back.
LEMMA TakenOutAndIn ==
    ASSUME NEW S, NEW s \in Seq(S), NEW at \in Nat, NEW n \in Nat, at + n <= Len(s)
    PROVE  /\ at <= Len(SpliceSeq(s, at, n, <<>>))
           /\ SpliceSeq(SpliceSeq(s, at, n, <<>>), at, 0, SubSeq(s, at + 1, at + n)) = s
<1>1. ASSUME NEW none \in Seq(S), none = <<>>
      PROVE  /\ at <= Len(SpliceSeq(s, at, n, none))
             /\ SpliceSeq(SpliceSeq(s, at, n, none), at, 0, SubSeq(s, at + 1, at + n)) = s
  <2>1. Len(none) = 0 /\ at + 0 = at
    BY <1>1
  <2>2. at + Len(none) <= Len(SpliceSeq(s, at, n, none))
    BY SpliceBack
  <2>3. SpliceSeq(SpliceSeq(s, at, n, none), at, Len(none), SubSeq(s, at + 1, at + n)) = s
    BY SpliceBack
  <2> QED
    BY <2>1, <2>2, <2>3
<1>2. <<>> \in Seq(S)
  OBVIOUS
<1> QED
  BY <1>1, <1>2

\* Inserted trees are removed again.
LEMMA InsertBlocksUndone ==
    ASSUME NEW d, WellFormed(d), NEW s, s.op = "InsertBlocks", IsStep(s), Perform(d, s).ok
    PROVE  Undone(d, Perform(d, s))
<1> DEFINE a == Perform(d, s)
           p == s.parent
           i == s.index
           t == s.blocks
           N == t.nodes
           T == DOMAIN N
           R == ToSet(t.roots)
           n == Len(t.roots)
           e == AttachTrees(d, p, i, t)
           kids == SpliceSeq(Kids(d, p), i, 0, t.roots)
           r == a.inverse
           cut == DetachTrees(e, p, i, n)
           u == cut.doc
<1>1. a = InsertBlocks(d, s) /\ i \in Nat /\ IsForest(t)
  BY DEF Perform, IsStep
<1>2. /\ IndexOk(d, p, i, i) /\ TreesOk(d, p, t) /\ a.doc = e /\ r = RemoveBlocksStep(p, i, n)
  BY <1>1 DEF InsertBlocks, Applied, Failed
<1>3. Takes(d, p, i, t)
  BY <1>1, <1>2 DEF Takes, IndexOk, Places
<1>4. WellFormed(e)
  BY <1>3, AttachedIsWellFormed
<1>5. p \in Places(d) /\ i <= Len(Kids(d, p)) /\ T \cap Blocks(d) = {} /\ Shaped(d)
  BY <1>3 DEF Takes, TreesOk, WellFormed
<1>6. /\ Blocks(e) = Blocks(d) \cup T
      /\ \A q \in Places(d) : Kids(e, q) = IF q = p THEN kids ELSE Kids(d, q)
      /\ \A c \in Blocks(d) : /\ e.nodes[c].kind = d.nodes[c].kind /\ e.nodes[c].attr = d.nodes[c].attr
                              /\ Parent(e, c) = Parent(d, c) /\ Text(e, c) = Text(d, c)
      /\ \A c \in T : Kids(e, c) = N[c].kids
  BY <1>1, <1>5, AttachTreesView
<1>7. /\ t.roots \in Seq(T) /\ R \subseteq T /\ IsFiniteSet(T) /\ KidsAreNodes(N) /\ T = AllUnder(N, R)
  BY <1>1, ForestView
<1>8. r.op = "RemoveBlocks" /\ r.parent = p /\ r.index = i /\ r.count = n
  BY <1>2 DEF RemoveBlocksStep
<1> HIDE DEF a, e, r, kids, N
<1>9. /\ n \in Nat /\ i + n <= Len(kids) /\ SubSeq(kids, i + 1, i + n) = t.roots
      /\ SpliceSeq(kids, i, n, <<>>) = Kids(d, p)
  <2>1. Kids(d, p) \in Seq(Blocks(d) \cup T) /\ t.roots \in Seq(Blocks(d) \cup T)
    BY <1>5, <1>7, SeqMonotonic DEF WellFormed, Linked, Places
  <2> DEFINE K == Kids(d, p)
             S == Blocks(d) \cup T
  <2>2. K \in Seq(S) /\ t.roots \in Seq(S) /\ i \in Nat /\ i <= Len(K)
    BY <1>1, <1>5, <2>1
  <2> HIDE DEF K, S, i
  <2>3. /\ SubSeq(SpliceSeq(K, i, 0, t.roots), i + 1, i + Len(t.roots)) = t.roots
        /\ i + Len(t.roots) <= Len(SpliceSeq(K, i, 0, t.roots)) /\ Len(t.roots) \in Nat
        /\ SpliceSeq(SpliceSeq(K, i, 0, t.roots), i, Len(t.roots), <<>>) = K
    BY <2>2, PutInAndOut, ZenonT(30)
  <2> QED
    BY <2>3 DEF kids, K
<1> HIDE DEF i, n, T, R
<1>10. Kids(e, p) = kids /\ p \in Places(e)
  BY <1>5, <1>6 DEF Places
<1>11. IndexOk(e, p, i, i + n)
  BY <1>1, <1>2, <1>5, <1>6, <1>9, <1>10 DEF IndexOk
<1>12. Perform(e, r).ok /\ Perform(e, r).doc = u
  BY <1>8, <1>11 DEF Perform, RemoveBlocks, Applied
<1>13. Siblings(e, p, i, n)
  BY <1>1, <1>9, <1>10 DEF Siblings
<1>14. AllUnder(e.nodes, ToSet(SubSeq(Kids(e, p), i + 1, i + n))) = T
  <2>1. ToSet(SubSeq(Kids(e, p), i + 1, i + n)) = R
    BY <1>9, <1>10 DEF R
  <2>2. /\ IsFiniteSet(DOMAIN e.nodes) /\ KidsAreNodes(e.nodes) /\ DOMAIN e.nodes = Blocks(e)
        /\ \A b \in T : KidsOf(e.nodes, b) = ToSet(Kids(e, b))
    BY <1>4, <1>6, NodesOf DEF WellFormed
  <2>3. \A b \in T : KidsOf(N, b) = KidsOf(e.nodes, b)
    BY <1>6, <2>2 DEF KidsOf
  <2>4. Closed(N, T)
    BY <1>7 DEF KidsAreNodes, Closed, T
  <2>5. /\ T \subseteq DOMAIN e.nodes /\ T \subseteq DOMAIN N /\ IsFiniteSet(DOMAIN N)
        /\ R \subseteq T /\ KidsAreNodes(N)
    BY <1>6, <1>7, <2>2 DEF T
  <2>6. AllUnder(N, R) = AllUnder(e.nodes, R)
    BY <2>2, <2>3, <2>4, <2>5, AllUnderAgree
  <2> QED
    BY <1>7, <2>1, <2>6
<1>15. /\ Shaped(u) /\ Blocks(u) = Blocks(e) \ T
       /\ \A q \in Places(u) : Kids(u, q) = IF q = p THEN SpliceSeq(Kids(e, p), i, n, <<>>) ELSE Kids(e, q)
       /\ \A c \in Blocks(u) : /\ u.nodes[c].kind = e.nodes[c].kind /\ u.nodes[c].attr = e.nodes[c].attr
                               /\ Parent(u, c) = Parent(e, c) /\ Text(u, c) = Text(e, c)
  BY <1>4, <1>13, <1>14, DetachTreesView
<1> HIDE DEF u
<1>16. Alike(d, u)
  BY <1>5, <1>6, <1>15, <1>9, <1>10 DEF Places, Alike
<1>17. Content(u) = Content(d)
  BY <1>5, <1>15, <1>16, SameContent
<1>18. IsStep(r)
  BY <1>1, <1>8, <1>9 DEF IsStep
<1> QED
  BY <1>2, <1>4, <1>12, <1>15, <1>17, <1>18 DEF Undone, a, r

\* Removed trees are inserted again.
LEMMA RemoveBlocksUndone ==
    ASSUME NEW d, WellFormed(d), NEW s, s.op = "RemoveBlocks", IsStep(s), Perform(d, s).ok
    PROVE  Undone(d, Perform(d, s))
<1> DEFINE a == Perform(d, s)
           p == s.parent
           i == s.index
           n == s.count
           cut == DetachTrees(d, p, i, n)
           e == cut.doc
           t == cut.trees
           ids == SubSeq(Kids(d, p), i + 1, i + n)
           gone == AllUnder(d.nodes, ToSet(ids))
           kids == SpliceSeq(Kids(d, p), i, n, <<>>)
           r == a.inverse
           u == AttachTrees(e, p, i, t)
<1>1. a = RemoveBlocks(d, s) /\ i \in Nat /\ n \in Nat
  BY DEF Perform, IsStep
<1>2. IndexOk(d, p, i, i + n) /\ a.doc = e /\ r = InsertBlocksStep(p, i, t)
  BY <1>1 DEF RemoveBlocks, Applied, Failed
<1>3. Siblings(d, p, i, n) /\ p \in Places(d) /\ i + n <= Len(Kids(d, p)) /\ Shaped(d)
  BY <1>1, <1>2 DEF Siblings, IndexOk, Places, WellFormed
<1>4. WellFormed(e) /\ IsForest(t)
  BY <1>3, DetachedIsWellFormed
<1>5. /\ Shaped(e) /\ Blocks(e) = Blocks(d) \ gone /\ p \notin gone
      /\ \A q \in Places(e) : Kids(e, q) = IF q = p THEN kids ELSE Kids(d, q)
      /\ \A c \in Blocks(e) : /\ e.nodes[c].kind = d.nodes[c].kind /\ e.nodes[c].attr = d.nodes[c].attr
                              /\ Parent(e, c) = Parent(d, c) /\ Text(e, c) = Text(d, c)
      /\ t.roots = ids /\ DOMAIN t.nodes = gone
      /\ \A c \in gone : /\ t.nodes[c].kind = d.nodes[c].kind /\ t.nodes[c].attr = d.nodes[c].attr
                         /\ t.nodes[c].parent = Parent(d, c) /\ t.nodes[c].text = Text(d, c)
                         /\ t.nodes[c].kids = Kids(d, c)
  BY <1>3, DetachTreesView
<1>6. r.op = "InsertBlocks" /\ r.parent = p /\ r.index = i /\ r.blocks = t
  BY <1>2 DEF InsertBlocksStep
<1>7. Kids(d, p) \in Seq(Blocks(d)) /\ IsInjective(Kids(d, p))
  BY <1>3 DEF WellFormed, Linked, Places
<1>8. i <= Len(kids) /\ SpliceSeq(kids, i, 0, ids) = Kids(d, p)
  BY <1>1, <1>3, <1>7, TakenOutAndIn
<1>9. ToSet(ids) \subseteq ToSet(Kids(d, p))
  BY <1>1, <1>3, <1>7, TakenOut
<1>10. /\ gone \subseteq Blocks(d) /\ ToSet(ids) \subseteq gone
       /\ \A b \in gone : KidsOf(d.nodes, b) \subseteq gone /\ KidsOf(d.nodes, b) = ToSet(Kids(d, b))
  <2>1. gone \subseteq Blocks(d) /\ ToSet(ids) \subseteq gone /\ Closed(d.nodes, gone)
    BY <1>3, <1>9, AllBelow DEF WellFormed
  <2> HIDE DEF gone, ids
  <2> QED
    BY <1>3, <2>1, NodesOf DEF Closed
<1> HIDE DEF a, e, t, cut, r, kids, ids, gone
<1>11. p \in Places(e) /\ Kids(e, p) = kids
  BY <1>3, <1>5 DEF Places
<1>12. IndexOk(e, p, i, i)
  BY <1>1, <1>2, <1>3, <1>5, <1>8, <1>11 DEF IndexOk, Places
<1>13. TreesOk(e, p, t)
  <2>1. DOMAIN t.nodes \cap Blocks(e) = {}
    BY <1>5
  <2>2. ASSUME NEW b \in ToSet(t.roots) PROVE AllowsChild(e, p, t.nodes[b].kind)
    BY <1>5, <1>9, <1>10, <1>3 DEF WellFormed, Linked, Places, AllowsChild
  <2>3. ASSUME NEW b \in DOMAIN t.nodes, NEW c \in ToSet(t.nodes[b].kids)
        PROVE  t.nodes[c].kind \in AllowedIn[t.nodes[b].kind]
    BY <1>5, <1>10, <1>3 DEF WellFormed, Linked, Shaped, AllowsChild
  <2> QED
    BY <2>1, <2>2, <2>3 DEF TreesOk
<1>14. Perform(e, r).ok /\ Perform(e, r).doc = u
  BY <1>6, <1>12, <1>13 DEF Perform, InsertBlocks, Applied
<1>15. /\ Shaped(u) /\ Blocks(u) = Blocks(e) \cup gone
       /\ \A q \in Places(e) : Kids(u, q) = IF q = p THEN SpliceSeq(Kids(e, p), i, 0, ids) ELSE Kids(e, q)
       /\ \A c \in Blocks(e) : /\ u.nodes[c].kind = e.nodes[c].kind /\ u.nodes[c].attr = e.nodes[c].attr
                               /\ Parent(u, c) = Parent(e, c) /\ Text(u, c) = Text(e, c)
       /\ \A c \in gone :
             /\ u.nodes[c].kind = t.nodes[c].kind /\ u.nodes[c].attr = t.nodes[c].attr
             /\ Parent(u, c) = (IF c \in ToSet(ids) THEN p ELSE t.nodes[c].parent)
             /\ Text(u, c) = t.nodes[c].text /\ Kids(u, c) = t.nodes[c].kids
  <2>1. DOMAIN t.nodes \cap Blocks(e) = {}
    BY <1>5
  <2>2. /\ Shaped(u) /\ Blocks(u) = Blocks(e) \cup DOMAIN t.nodes
        /\ \A q \in Places(e) : Kids(u, q) = IF q = p THEN SpliceSeq(Kids(e, p), i, 0, t.roots) ELSE Kids(e, q)
        /\ \A c \in Blocks(e) : /\ u.nodes[c].kind = e.nodes[c].kind /\ u.nodes[c].attr = e.nodes[c].attr
                                /\ Parent(u, c) = Parent(e, c) /\ Text(u, c) = Text(e, c)
        /\ \A c \in DOMAIN t.nodes :
              /\ u.nodes[c].kind = t.nodes[c].kind /\ u.nodes[c].attr = t.nodes[c].attr
              /\ Parent(u, c) = (IF c \in ToSet(t.roots) THEN p ELSE t.nodes[c].parent)
              /\ Text(u, c) = t.nodes[c].text /\ Kids(u, c) = t.nodes[c].kids
    BY <1>4, <1>5, <1>11, <2>1, AttachTreesView
  <2> HIDE DEF u
  <2> QED
    BY <1>5, <2>2
<1> HIDE DEF u
<1>16. Alike(d, u)
  <2>1. Blocks(u) = Blocks(d)
    BY <1>5, <1>10, <1>15
  <2>2. ASSUME NEW q \in Places(d) PROVE Kids(u, q) = Kids(d, q)
    <3>1. CASE q \in gone
      BY <1>5, <1>15, <3>1
    <3>2. CASE q \notin gone
      BY <1>5, <3>2, <1>8, <1>11, <1>15 DEF Places
    <3> QED
      BY <3>1, <3>2
  <2>3. ASSUME NEW c \in Blocks(d)
        PROVE  /\ u.nodes[c].kind = d.nodes[c].kind /\ u.nodes[c].attr = d.nodes[c].attr
               /\ Parent(u, c) = Parent(d, c) /\ Text(u, c) = Text(d, c)
    <3>1. CASE c \in gone
      BY <1>3, <1>9, <1>5, <1>15, <3>1 DEF WellFormed, Linked, Places
    <3>2. CASE c \notin gone
      BY <1>5, <1>15, <3>2
    <3> QED
      BY <3>1, <3>2
  <2> QED
    BY <2>1, <2>2, <2>3 DEF Alike
<1>17. Content(u) = Content(d)
  BY <1>3, <1>15, <1>16, SameContent
<1>18. IsStep(r)
  BY <1>1, <1>4, <1>6 DEF IsStep
<1> QED
  BY <1>2, <1>4, <1>14, <1>15, <1>17, <1>18 DEF Undone, a, r

-----------------------------------------------------------------------------
(***************************************************************************)
(* A text block split in two, and two joined.                              *)
(***************************************************************************)

\* PlaceIn finds what is in a sequence.
LEMMA PlaceThere ==
    ASSUME NEW S, NEW s \in Seq(S), NEW x \in ToSet(s)
    PROVE  PlaceIn(s, x) \in 1 .. Len(s) /\ s[PlaceIn(s, x)] = x
<1>1. DOMAIN s = 1 .. Len(s)
  BY LenProperties
<1>2. \E i \in DOMAIN s : s[i] = x
  BY DEF ToSet
<1>3. PlaceIn(s, x) \in DOMAIN s /\ s[PlaceIn(s, x)] = x
  BY <1>2 DEF PlaceIn
<1> QED
  BY <1>1, <1>3

\* Two sequences joined, and one cut in two.
LEMMA TwoParts ==
    ASSUME NEW S, NEW s \in Seq(S), NEW t \in Seq(S)
    PROVE  /\ SubSeq(s \o t, 1, Len(s)) = s /\ SubSeq(s \o t, Len(s) + 1, Len(s \o t)) = t
           /\ Len(s) \in Nat /\ Len(t) \in Nat /\ Len(s \o t) = Len(s) + Len(t)
           /\ \A at \in 0 .. Len(s) : SubSeq(s, 1, at) \o SubSeq(s, at + 1, Len(s)) = s
<1> DEFINE r == s \o t
<1>1. /\ r \in Seq(S) /\ Len(r) = Len(s) + Len(t) /\ Len(s) \in Nat /\ Len(t) \in Nat
      /\ \A i \in 1 .. Len(s) + Len(t) : r[i] = IF i <= Len(s) THEN s[i] ELSE t[i - Len(s)]
  BY ConcatProperties, LenProperties
<1> HIDE DEF r
<1>2. SubSeq(r, 1, Len(s)) = s
  <2>1. /\ SubSeq(r, 0 + 1, 0 + Len(s)) \in Seq(S) /\ Len(SubSeq(r, 0 + 1, 0 + Len(s))) = Len(s)
        /\ \A i \in 1 .. Len(s) : SubSeq(r, 0 + 1, 0 + Len(s))[i] = r[0 + i]
    BY <1>1, PartOf
  <2>2. 0 + 1 = 1 /\ 0 + Len(s) = Len(s) /\ \A i \in 1 .. Len(s) : 0 + i = i /\ r[i] = s[i]
    BY <1>1
  <2>3. /\ SubSeq(r, 1, Len(s)) \in Seq(S) /\ Len(SubSeq(r, 1, Len(s))) = Len(s)
        /\ \A i \in 1 .. Len(s) : SubSeq(r, 1, Len(s))[i] = s[i]
    BY <2>1, <2>2
  <2> QED
    BY <2>3, SeqEqual
<1>3. SubSeq(r, Len(s) + 1, Len(s) + Len(t)) = t
  <2>1. /\ SubSeq(r, Len(s) + 1, Len(s) + Len(t)) \in Seq(S)
        /\ Len(SubSeq(r, Len(s) + 1, Len(s) + Len(t))) = Len(t)
        /\ \A i \in 1 .. Len(t) : SubSeq(r, Len(s) + 1, Len(s) + Len(t))[i] = r[Len(s) + i]
    BY <1>1, PartOf
  <2>2. ASSUME NEW i \in 1 .. Len(t) PROVE r[Len(s) + i] = t[i]
    BY <1>1
  <2> QED
    BY <2>1, <2>2, SeqEqual
<1>4. ASSUME NEW at \in 0 .. Len(s) PROVE SubSeq(s, 1, at) \o SubSeq(s, at + 1, Len(s)) = s
  <2>1. 1 \in 1 .. Len(s) + 1 /\ at \in 1 - 1 .. Len(s) /\ Len(s) \in at .. Len(s)
    BY <1>1
  <2>2. SubSeq(s, 1, at) \o SubSeq(s, at + 1, Len(s)) = SubSeq(s, 1, Len(s))
    BY <2>1, ConcatAdjacentSubSeq, Zenon
  <2> QED
    BY <2>2, SubSeqFull
<1> QED
  BY <1>1, <1>2, <1>3, <1>4, Zenon DEF r

\* A text block has nothing below it.
LEMMA TextStandsAlone ==
    ASSUME NEW d, WellFormed(d), NEW b, IsText(d, b)
    PROVE  AllUnder(d.nodes, {b}) = {b} /\ Kids(d, b) = <<>>
<1>1. b \in Blocks(d) /\ Kids(d, b) = <<>>
  BY DEF IsText, WellFormed, Holds
<1>2. KidsOf(d.nodes, b) = {}
  BY <1>1, NodesOf DEF WellFormed, ToSet
<1>3. Closed(d.nodes, {b})
  BY <1>2 DEF Closed
<1>4. /\ {b} \subseteq AllUnder(d.nodes, {b})
      /\ \A U : {b} \subseteq U /\ Closed(d.nodes, U) => AllUnder(d.nodes, {b}) \subseteq U
  BY <1>1, NodesOf, AllUnderLeast DEF WellFormed
<1> QED
  BY <1>1, <1>3, <1>4

\* The tree of one block.
LEMMA TextTreeView ==
    ASSUME NEW b, b # Root, NEW kind \in Kinds, NEW attr, NEW text, IsContent(text),
           text # <<>> => ContentOf[kind] = "inline"
    PROVE  LET t == TextTree(b, kind, attr, text)
           IN  /\ IsForest(t) /\ t.roots = <<b>> /\ DOMAIN t.nodes = {b} /\ ToSet(t.roots) = {b}
               /\ t.nodes[b].kind = kind /\ t.nodes[b].attr = attr /\ t.nodes[b].text = text
               /\ t.nodes[b].kids = <<>>
<1> DEFINE t == TextTree(b, kind, attr, text)
           node == [kind |-> kind, attr |-> attr, parent |-> Root, text |-> text, kids |-> <<>>]
           nodes == [x \in {b} |-> node]
<1>1. t = [roots |-> <<b>>, nodes |-> nodes]
  BY DEF TextTree, Trees
<1>2. /\ IsA(node, BlockFields) /\ node.kind = kind /\ node.attr = attr /\ node.text = text /\ node.kids = <<>>
  <2>1. DOMAIN node = BlockFields /\ node = [f \in DOMAIN node |-> node[f]]
    BY DEF BlockFields
  <2>2. node.kind = kind /\ node.attr = attr /\ node.text = text /\ node.kids = <<>>
    OBVIOUS
  <2> HIDE DEF node
  <2> QED
    BY <2>1, <2>2 DEF IsA
<1>3. DOMAIN nodes = {b} /\ IsA(nodes, DOMAIN nodes) /\ nodes[b] = node
  BY DEF IsA
<1> HIDE DEF t, node, nodes
<1>4. IsA(t, {"roots", "nodes"}) /\ t.roots = <<b>> /\ t.nodes = nodes
  BY <1>1 DEF IsA
<1>5. /\ <<b>> \in Seq({b}) /\ IsInjective(<<b>>) /\ ToSet(<<b>>) = {b}
      /\ <<>> \in Seq({b}) /\ IsInjective(<<>>) /\ ToSet(<<>>) = {}
  BY DEF IsInjective, ToSet
<1>6. KidsOf(nodes, b) = {}
  BY <1>2, <1>3, <1>5 DEF KidsOf
<1>7. IsFiniteSet({b})
  BY FS_Singleton
<1>8. KidsAreNodes(nodes) /\ Closed(nodes, {b}) /\ Closed(nodes, {})
  BY <1>3, <1>6 DEF KidsAreNodes, Closed
<1>9. AllUnder(nodes, {b}) = {b}
  BY <1>3, <1>7, <1>8, AllUnderLeast
<1>10. AllUnder(nodes, {}) = {}
  BY <1>3, <1>7, <1>8, AllUnderLeast
<1>11. Acyclic(nodes)
  BY <1>2, <1>3, <1>5, <1>10 DEF Acyclic
<1>12. Holds(node.kind, node.text, node.kids)
  BY <1>2 DEF Holds
<1>13. \A list \in {t.roots} \cup {t.nodes[c].kids : c \in DOMAIN t.nodes} :
          list \in Seq(DOMAIN t.nodes) /\ IsInjective(list)
  BY <1>2, <1>3, <1>4, <1>5
<1>14. IsForest(t)
  BY <1>2, <1>3, <1>4, <1>5, <1>12, <1>7, <1>9, <1>11, <1>13 DEF IsForest
<1> QED
  BY <1>2, <1>3, <1>4, <1>5, <1>14 DEF t

\* What splitting a block gives, whatever checks it passed.
SplitInto(d, b, at, new, kind, attr) ==
    LET text == Text(d, b)
        tail == SubSeq(text, at + 1, Len(text))
    IN  AttachTrees(SetText(d, b, SubSeq(text, 1, at)), Parent(d, b), IndexInParent(d, b),
                    TextTree(new, kind, attr, tail))

CanSplit(d, b, at, new, kind) ==
    /\ IsText(d, b) /\ at \in Nat /\ at <= Len(Text(d, b))
    /\ new # Root /\ new \notin Blocks(d)
    /\ ContentOf[kind] = "inline" /\ AllowsChild(d, Parent(d, b), kind)

\* The split document block by block: the text in two blocks, one after the other.
IsSplit(d, e, b, at, new, kind, attr) ==
    LET p == Parent(d, b)
        i == IndexInParent(d, b)
        text == Text(d, b)
    IN  /\ WellFormed(e) /\ Blocks(e) = Blocks(d) \cup {new}
        /\ p \in Places(d) /\ i \in Nat /\ 1 <= i /\ i <= Len(Kids(d, p)) /\ Kids(d, p)[i] = b
        /\ \A q \in Places(d) : Kids(e, q) = IF q = p THEN SpliceSeq(Kids(d, p), i, 0, <<new>>)
                                             ELSE Kids(d, q)
        /\ \A c \in Blocks(d) : /\ e.nodes[c].kind = d.nodes[c].kind /\ e.nodes[c].attr = d.nodes[c].attr
                                /\ Parent(e, c) = Parent(d, c)
                                /\ Text(e, c) = IF c = b THEN SubSeq(text, 1, at) ELSE Text(d, c)
        /\ e.nodes[new].kind = kind /\ e.nodes[new].attr = attr /\ Parent(e, new) = p
        /\ Text(e, new) = SubSeq(text, at + 1, Len(text)) /\ Kids(e, new) = <<>>

\* Splitting a text block gives that.
LEMMA SplitView ==
    ASSUME NEW d, WellFormed(d), NEW b, NEW at, NEW new, NEW kind, NEW attr, CanSplit(d, b, at, new, kind)
    PROVE  IsSplit(d, SplitInto(d, b, at, new, kind, attr), b, at, new, kind, attr)
<1> DEFINE p == Parent(d, b)
           i == IndexInParent(d, b)
           text == Text(d, b)
           front == SubSeq(text, 1, at)
           tail == SubSeq(text, at + 1, Len(text))
           f == SetText(d, b, front)
           t == TextTree(new, kind, attr, tail)
           e == SplitInto(d, b, at, new, kind, attr)
<1>1. /\ b \in Blocks(d) /\ Shaped(d) /\ IsText(d, b) /\ at \in Nat /\ at <= Len(text)
      /\ new # Root /\ new \notin Blocks(d) /\ ContentOf[kind] = "inline" /\ AllowsChild(d, p, kind)
  BY DEF CanSplit, IsText, WellFormed
<1>2. p \in Places(d) /\ b \in ToSet(Kids(d, p)) /\ Kids(d, p) \in Seq(Blocks(d)) /\ p # b
  BY <1>1, NotItsOwnParent DEF WellFormed, Linked, Places
<1>3. i \in 1 .. Len(Kids(d, p)) /\ Kids(d, p)[i] = b
  BY <1>2, PlaceThere DEF IndexInParent
<1>4. kind \in Kinds
  BY <1>1, KnownKinds
<1>5. IsContent(text)
  BY <1>1 DEF WellFormed, Holds
<1>6. IsContent(front) /\ IsContent(tail)
  <2>1. text \in Seq(ToSet(text)) /\ Len(text) \in Nat
    BY <1>5, LenProperties DEF IsContent
  <2>2. ASSUME NEW m \in Nat, NEW k \in Nat, m + k <= Len(text) PROVE IsContent(SubSeq(text, m + 1, m + k))
    BY <1>5, <2>2, PartsOfContent
  <2> HIDE DEF text
  <2>3. ASSUME NEW none \in Nat, none = 0 PROVE IsContent(SubSeq(text, 1, at))
    <3>1. none + at = at /\ none + 1 = 1 /\ none + at <= Len(text) /\ at \in Nat
      BY <1>1, <2>3
    <3>2. IsContent(SubSeq(text, none + 1, none + at))
      BY <2>2, <3>1
    <3> QED
      BY <3>1, <3>2
  <2>4. Len(text) - at \in Nat /\ at + (Len(text) - at) = Len(text)
    BY <1>1, <2>1
  <2>5. ASSUME NEW k \in Nat, k = Len(text) - at PROVE IsContent(SubSeq(text, at + 1, Len(text)))
    <3>1. at + k = Len(text) /\ at + k <= Len(text) /\ at \in Nat
      BY <1>1, <2>1, <2>5
    <3>2. IsContent(SubSeq(text, at + 1, at + k))
      BY <2>2, <3>1
    <3> QED
      BY <3>1, <3>2
  <2> QED
    BY <2>3, <2>4, <2>5
<1> HIDE DEF front, tail
<1>7. WellFormed(f) /\ Shaped(f)
  BY <1>1, <1>6, TextSetBack DEF WellFormed
<1>8. /\ Blocks(f) = Blocks(d) /\ \A q \in Places(d) : Kids(f, q) = Kids(d, q)
      /\ \A c \in Blocks(d) : /\ f.nodes[c].kind = d.nodes[c].kind /\ f.nodes[c].attr = d.nodes[c].attr
                              /\ Parent(f, c) = Parent(d, c)
                              /\ Text(f, c) = IF c = b THEN front ELSE Text(d, c)
  BY <1>1, SetTextView
<1>9. /\ IsForest(t) /\ t.roots = <<new>> /\ DOMAIN t.nodes = {new} /\ ToSet(t.roots) = {new}
      /\ t.nodes[new].kind = kind /\ t.nodes[new].attr = attr /\ t.nodes[new].text = tail
      /\ t.nodes[new].kids = <<>>
  <2>1. new # Root /\ kind \in Kinds /\ ContentOf[kind] = "inline" /\ IsContent(tail)
    BY <1>1, <1>4, <1>6
  <2> HIDE DEF text, p, i, e, f
  <2>2. IsForest(t)
    BY <2>1, TextTreeView
  <2>3. t = [roots |-> <<new>>, nodes |-> [x \in {new} |->
               [kind |-> kind, attr |-> attr, parent |-> Root, text |-> tail, kids |-> <<>>]]]
    BY DEF TextTree, Trees
  <2> HIDE DEF t
  <2>4. t.roots = <<new>> /\ DOMAIN t.nodes = {new} /\ ToSet(t.roots) = {new}
    BY <2>3 DEF ToSet
  <2>5. /\ t.nodes[new].kind = kind /\ t.nodes[new].attr = attr /\ t.nodes[new].text = tail
        /\ t.nodes[new].kids = <<>>
    BY <2>3
  <2> QED
    BY <2>2, <2>4, <2>5
<1>10. e = AttachTrees(f, p, i, t)
  BY DEF SplitInto, front, tail
<1> HIDE DEF f, t, e, i
<1>11. p \in Places(f) /\ Kids(f, p) = Kids(d, p) /\ Places(f) = Places(d)
  BY <1>2, <1>8 DEF Places
<1>12. Takes(f, p, i, t)
  <2>1. p = Root \/ ContentOf[f.nodes[p].kind] = "blocks"
    <3>1. CASE p \in Blocks(d)
      BY <1>2, <3>1, <1>8 DEF ToSet, WellFormed, Holds
    <3> QED
      BY <1>2, <3>1 DEF Places
  <2>2. AllowsChild(f, p, kind)
    BY <1>1, <1>8 DEF AllowsChild
  <2>3. TreesOk(f, p, t)
    BY <1>1, <1>8, <1>9, <2>2 DEF TreesOk, ToSet
  <2>4. i \in Nat /\ i <= Len(Kids(f, p))
    BY <1>3, <1>11
  <2> QED
    BY <1>9, <1>11, <2>1, <2>3, <2>4 DEF Takes
<1>13. WellFormed(e)
  BY <1>7, <1>10, <1>12, AttachedIsWellFormed
<1>14. /\ Blocks(e) = Blocks(f) \cup {new}
       /\ \A q \in Places(f) : Kids(e, q) = IF q = p THEN SpliceSeq(Kids(f, p), i, 0, t.roots) ELSE Kids(f, q)
       /\ \A c \in Blocks(f) : /\ e.nodes[c].kind = f.nodes[c].kind /\ e.nodes[c].attr = f.nodes[c].attr
                               /\ Parent(e, c) = Parent(f, c) /\ Text(e, c) = Text(f, c)
       /\ \A c \in {new} :
             /\ e.nodes[c].kind = t.nodes[c].kind /\ e.nodes[c].attr = t.nodes[c].attr
             /\ Parent(e, c) = (IF c \in {new} THEN p ELSE t.nodes[c].parent)
             /\ Text(e, c) = t.nodes[c].text /\ Kids(e, c) = t.nodes[c].kids
  <2>1. DOMAIN t.nodes \cap Blocks(f) = {}
    BY <1>1, <1>8, <1>9
  <2>2. /\ Blocks(AttachTrees(f, p, i, t)) = Blocks(f) \cup DOMAIN t.nodes
        /\ \A q \in Places(f) : Kids(AttachTrees(f, p, i, t), q) =
              IF q = p THEN SpliceSeq(Kids(f, p), i, 0, t.roots) ELSE Kids(f, q)
        /\ \A c \in Blocks(f) : /\ AttachTrees(f, p, i, t).nodes[c].kind = f.nodes[c].kind
                                /\ AttachTrees(f, p, i, t).nodes[c].attr = f.nodes[c].attr
                                /\ Parent(AttachTrees(f, p, i, t), c) = Parent(f, c)
                                /\ Text(AttachTrees(f, p, i, t), c) = Text(f, c)
        /\ \A c \in DOMAIN t.nodes :
              /\ AttachTrees(f, p, i, t).nodes[c].kind = t.nodes[c].kind
              /\ AttachTrees(f, p, i, t).nodes[c].attr = t.nodes[c].attr
              /\ Parent(AttachTrees(f, p, i, t), c) = (IF c \in ToSet(t.roots) THEN p ELSE t.nodes[c].parent)
              /\ Text(AttachTrees(f, p, i, t), c) = t.nodes[c].text
              /\ Kids(AttachTrees(f, p, i, t), c) = t.nodes[c].kids
    BY <1>7, <1>9, <1>11, <2>1, AttachTreesView
  <2> HIDE DEF p
  <2> QED
    BY <1>9, <1>10, <2>2
<1>15. /\ Blocks(e) = Blocks(d) \cup {new}
       /\ \A q \in Places(d) : Kids(e, q) = IF q = p THEN SpliceSeq(Kids(d, p), i, 0, <<new>>) ELSE Kids(d, q)
  BY <1>2, <1>8, <1>9, <1>11, <1>14
<1>16. \A c \in Blocks(d) : /\ e.nodes[c].kind = d.nodes[c].kind /\ e.nodes[c].attr = d.nodes[c].attr
                            /\ Parent(e, c) = Parent(d, c)
                            /\ Text(e, c) = IF c = b THEN front ELSE Text(d, c)
  BY <1>8, <1>14
<1>17. /\ e.nodes[new].kind = kind /\ e.nodes[new].attr = attr /\ Parent(e, new) = p
       /\ Text(e, new) = tail /\ Kids(e, new) = <<>>
  BY <1>9, <1>14
<1>18. i \in Nat /\ 1 <= i /\ i <= Len(Kids(d, p))
  BY <1>2, <1>3, LenProperties
<1>19. IsSplit(d, e, b, at, new, kind, attr)
  BY <1>2, <1>3, <1>13, <1>15, <1>16, <1>17, <1>18 DEF IsSplit, i, front, tail
<1> QED
  BY <1>19 DEF e

\* What joining a block with the one after it gives, likewise.
JoinedInto(d, b, next) ==
    SetText(DetachTrees(d, Parent(d, b), IndexInParent(d, b), 1).doc, b, Text(d, b) \o Text(d, next))

CanJoin(d, b, next) ==
    /\ IsText(d, b) /\ IsText(d, next)
    /\ IndexInParent(d, b) < Len(Kids(d, Parent(d, b)))
    /\ Kids(d, Parent(d, b))[IndexInParent(d, b) + 1] = next

\* The joined document block by block: both texts in the first block.
IsJoined(d, e, b, next) ==
    LET p == Parent(d, b)
        i == IndexInParent(d, b)
    IN  /\ WellFormed(e) /\ Blocks(e) = Blocks(d) \ {next} /\ next \in Blocks(d) /\ next # b
        /\ p \in Places(d) /\ p # next /\ Parent(d, next) = p /\ Kids(d, next) = <<>>
        /\ i \in Nat /\ 1 <= i /\ i < Len(Kids(d, p)) /\ Kids(d, p)[i] = b
        /\ SubSeq(Kids(d, p), i + 1, i + 1) = <<next>>
        /\ \A q \in Places(e) : Kids(e, q) = IF q = p THEN SpliceSeq(Kids(d, p), i, 1, <<>>)
                                             ELSE Kids(d, q)
        /\ \A c \in Blocks(e) : /\ e.nodes[c].kind = d.nodes[c].kind /\ e.nodes[c].attr = d.nodes[c].attr
                                /\ Parent(e, c) = Parent(d, c)
                                /\ Text(e, c) = IF c = b THEN Text(d, b) \o Text(d, next) ELSE Text(d, c)

\* Joining two text blocks gives that.
LEMMA JoinView ==
    ASSUME NEW d, WellFormed(d), NEW b, NEW next, CanJoin(d, b, next)
    PROVE  IsJoined(d, JoinedInto(d, b, next), b, next)
<1> DEFINE p == Parent(d, b)
           i == IndexInParent(d, b)
           K == Kids(d, p)
           f == DetachTrees(d, p, i, 1).doc
           text == Text(d, b) \o Text(d, next)
           e == JoinedInto(d, b, next)
<1>1. /\ IsText(d, b) /\ IsText(d, next) /\ i < Len(K) /\ K[i + 1] = next
      /\ b \in Blocks(d) /\ next \in Blocks(d) /\ Shaped(d)
  BY DEF CanJoin, IsText, WellFormed
<1>2. p \in Places(d) /\ b \in ToSet(K) /\ K \in Seq(Blocks(d)) /\ IsInjective(K) /\ Len(K) \in Nat
  BY <1>1, NotItsOwnParent, LenProperties DEF WellFormed, Linked, Places
<1>3. i \in 1 .. Len(K) /\ K[i] = b
  BY <1>2, PlaceThere DEF IndexInParent
<1> HIDE DEF i
<1>4. i + 1 \in 1 .. Len(K) /\ i \in Nat /\ 1 \in Nat
  BY <1>1, <1>2, <1>3
<1>5. next # b /\ next \in ToSet(K)
  <2>1. DOMAIN K = 1 .. Len(K)
    BY <1>2, LenProperties
  <2> HIDE DEF K
  <2> QED
    BY <1>1, <1>2, <1>3, <1>4, <2>1 DEF IsInjective, ToSet
<1>6. Parent(d, next) = p /\ p # next
  BY <1>2, <1>5, <1>1, NotItsOwnParent DEF WellFormed, Linked, Places
<1>7. SubSeq(K, i + 1, i + 1) = <<next>>
  <2>1. /\ SubSeq(K, i + 1, i + 1) \in Seq(Blocks(d)) /\ Len(SubSeq(K, i + 1, i + 1)) = 1
        /\ \A j \in 1 .. 1 : SubSeq(K, i + 1, i + 1)[j] = K[i + j]
    <3> HIDE DEF K
    <3> QED
      BY <1>2, <1>4, PartOf
  <2>2. SubSeq(K, i + 1, i + 1)[1] = next
    BY <1>1, <2>1
  <2>3. <<next>> \in Seq(Blocks(d)) /\ Len(<<next>>) = 1 /\ <<next>>[1] = next
    BY <1>1
  <2> HIDE DEF K
  <2>4. ASSUME NEW u \in Seq(Blocks(d)), NEW w \in Seq(Blocks(d)), Len(u) = 1, Len(w) = 1, u[1] = w[1]
        PROVE  u = w
    BY <2>4, SeqEqual
  <2> QED
    BY <2>1, <2>2, <2>3, <2>4
<1>8. AllUnder(d.nodes, {next}) = {next} /\ Kids(d, next) = <<>>
  BY <1>1, TextStandsAlone
<1>9. ToSet(SubSeq(K, i + 1, i + 1)) = {next}
  <2>1. ToSet(<<next>>) = {next}
    BY DEF ToSet
  <2> HIDE DEF K
  <2> QED
    BY <1>7, <2>1
<1>10. Siblings(d, p, i, 1)
  BY <1>2, <1>4 DEF Siblings
<1>11. WellFormed(f)
  BY <1>10, DetachedIsWellFormed
<1>12. /\ Blocks(f) = Blocks(d) \ {next}
       /\ \A q \in Places(f) : Kids(f, q) = IF q = p THEN SpliceSeq(K, i, 1, <<>>) ELSE Kids(d, q)
       /\ \A c \in Blocks(f) : /\ f.nodes[c].kind = d.nodes[c].kind /\ f.nodes[c].attr = d.nodes[c].attr
                               /\ Parent(f, c) = Parent(d, c) /\ Text(f, c) = Text(d, c)
  <2>1. /\ Blocks(f) = Blocks(d) \ AllUnder(d.nodes, ToSet(SubSeq(K, i + 1, i + 1)))
        /\ \A q \in Places(f) : Kids(f, q) = IF q = p THEN SpliceSeq(K, i, 1, <<>>) ELSE Kids(d, q)
        /\ \A c \in Blocks(f) : /\ f.nodes[c].kind = d.nodes[c].kind /\ f.nodes[c].attr = d.nodes[c].attr
                                /\ Parent(f, c) = Parent(d, c) /\ Text(f, c) = Text(d, c)
    BY <1>10, DetachTreesView
  <2> HIDE DEF f, K
  <2> QED
    BY <1>8, <1>9, <2>1
<1>13. e = SetText(f, b, text)
  BY DEF JoinedInto, i
<1> HIDE DEF f, e
<1>14. IsText(f, b) /\ b \in Blocks(f)
  BY <1>1, <1>5, <1>12 DEF IsText
<1>15. IsContent(text)
  BY <1>1, PartsOfContent DEF WellFormed, Holds
<1> HIDE DEF text
<1>16. WellFormed(e)
  BY <1>11, <1>13, <1>14, <1>15, TextSetBack
<1>17. /\ Blocks(e) = Blocks(f) /\ \A q \in Places(f) : Kids(e, q) = Kids(f, q)
       /\ \A c \in Blocks(f) : /\ e.nodes[c].kind = f.nodes[c].kind /\ e.nodes[c].attr = f.nodes[c].attr
                               /\ Parent(e, c) = Parent(f, c)
                               /\ Text(e, c) = IF c = b THEN text ELSE Text(f, c)
  BY <1>11, <1>13, <1>14, SetTextView DEF WellFormed
<1>18. Places(e) = Places(f)
  BY <1>17 DEF Places
<1>19. /\ Blocks(e) = Blocks(d) \ {next}
       /\ \A q \in Places(e) : Kids(e, q) = IF q = p THEN SpliceSeq(K, i, 1, <<>>) ELSE Kids(d, q)
       /\ \A c \in Blocks(e) : /\ e.nodes[c].kind = d.nodes[c].kind /\ e.nodes[c].attr = d.nodes[c].attr
                               /\ Parent(e, c) = Parent(d, c)
                               /\ Text(e, c) = IF c = b THEN text ELSE Text(d, c)
  BY <1>12, <1>17, <1>18
<1>20. i \in Nat /\ 1 <= i /\ i < Len(K)
  BY <1>1, <1>2, <1>3
<1> HIDE DEF K, p
<1>21. IsJoined(d, e, b, next)
  BY <1>1, <1>2, <1>3, <1>5, <1>6, <1>7, <1>8, <1>16, <1>19, <1>20 DEF IsJoined, i, text, K, p
<1> QED
  BY <1>21 DEF e

\* An element put after another in a sequence.
LEMMA Neighbour ==
    ASSUME NEW S, NEW s \in Seq(S), NEW at \in Nat, 1 <= at, at <= Len(s), NEW x \in S
    PROVE  LET r == SpliceSeq(s, at, 0, <<x>>)
           IN  /\ r \in Seq(S) /\ at \in 1 .. Len(r) /\ at < Len(r) /\ at \in Nat
               /\ r[at] = s[at] /\ r[at + 1] = x /\ SpliceSeq(r, at, 1, <<>>) = s
<1>1. Len(s) \in Nat
  BY LenProperties
<1>2. ASSUME NEW none \in Nat, NEW new \in Seq(S), at + none <= Len(s)
      PROVE  /\ SpliceSeq(s, at, none, new) \in Seq(S)
             /\ Len(SpliceSeq(s, at, none, new)) = Len(s) - none + Len(new)
             /\ \A i \in 1 .. Len(s) - none + Len(new) :
                   SpliceSeq(s, at, none, new)[i] =
                      IF i <= at THEN s[i] ELSE IF i <= at + Len(new) THEN new[i - at] ELSE s[i - Len(new) + none]
  <2>1. IsSpliced(S, s, at, none, new)
    BY <1>2, Splice
  <2> QED
    BY <2>1 DEF IsSpliced
<1>3. ASSUME NEW none \in Nat, none = 0, NEW new \in Seq(S), Len(new) = 1, new[1] = x
      PROVE  /\ SpliceSeq(s, at, none, new) \in Seq(S) /\ Len(SpliceSeq(s, at, none, new)) = Len(s) + 1
             /\ SpliceSeq(s, at, none, new)[at] = s[at] /\ SpliceSeq(s, at, none, new)[at + 1] = x
             /\ SpliceSeq(SpliceSeq(s, at, none, new), at, 1, <<>>) = s
  <2> DEFINE r == SpliceSeq(s, at, none, new)
  <2>1. at + none <= Len(s)
    BY <1>1, <1>3
  <2>2. /\ r \in Seq(S) /\ Len(r) = Len(s) - none + Len(new)
        /\ \A i \in 1 .. Len(s) - none + Len(new) :
              r[i] = IF i <= at THEN s[i] ELSE IF i <= at + Len(new) THEN new[i - at] ELSE s[i - Len(new) + none]
    BY <2>1, <1>2
  <2> HIDE DEF r
  <2>3. Len(s) - none + Len(new) = Len(s) + 1
    BY <1>1, <1>3
  <2>4. /\ at \in 1 .. Len(s) + 1 /\ at <= at /\ at + 1 \in 1 .. Len(s) + 1 /\ ~(at + 1 <= at)
        /\ at + 1 <= at + Len(new) /\ (at + 1) - at = 1
    BY <1>1, <1>3
  <2>5. r[at] = s[at] /\ r[at + 1] = x
    BY <1>3, <2>2, <2>3, <2>4
  <2>6. SpliceSeq(SpliceSeq(s, at, 0, new), at, Len(new), <<>>) = s
    BY PutInAndOut
  <2> QED
    BY <1>3, <2>2, <2>3, <2>5, <2>6 DEF r
<1> DEFINE one == <<x>>
           r == SpliceSeq(s, at, 0, one)
<1>4. one \in Seq(S) /\ Len(one) = 1 /\ one[1] = x
  OBVIOUS
<1> HIDE DEF one
<1>5. r \in Seq(S) /\ Len(r) = Len(s) + 1 /\ r[at] = s[at] /\ r[at + 1] = x /\ SpliceSeq(r, at, 1, <<>>) = s
  BY <1>3, <1>4
<1> HIDE DEF r
<1>6. at \in 1 .. Len(r) /\ at < Len(r)
  BY <1>1, <1>5
<1> QED
  BY <1>5, <1>6 DEF r, one

\* One taken away after another.
LEMMA NoNeighbour ==
    ASSUME NEW S, NEW s \in Seq(S), NEW at \in Nat, 1 <= at, at < Len(s)
    PROVE  LET r == SpliceSeq(s, at, 1, <<>>)
           IN  /\ r \in Seq(S) /\ at \in 1 .. Len(r) /\ at \in Nat /\ r[at] = s[at]
               /\ SpliceSeq(r, at, 0, SubSeq(s, at + 1, at + 1)) = s
<1>1. Len(s) \in Nat /\ at \in Nat /\ at + 1 <= Len(s) /\ 1 \in Nat
  BY LenProperties
<1>2. SpliceSeq(SpliceSeq(s, at, 1, <<>>), at, 0, SubSeq(s, at + 1, at + 1)) = s
  BY <1>1, TakenOutAndIn, SMTT(30)
<1>3. ASSUME NEW none \in Seq(S), none = <<>>
      PROVE  /\ SpliceSeq(s, at, 1, none) \in Seq(S) /\ Len(SpliceSeq(s, at, 1, none)) = Len(s) - 1
             /\ SpliceSeq(s, at, 1, none)[at] = s[at]
  <2>1. Len(none) = 0 /\ Len(s) - 1 + Len(none) = Len(s) - 1 /\ at \in 1 .. Len(s) - 1 /\ at <= at
    BY <1>1, <1>3
  <2>2. IsCut(S, s, at, 1, SpliceSeq(s, at, 1, none))
    BY <1>1, <2>1, SplicedOut
  <2> QED
    BY <2>1, <2>2, Zenon DEF IsCut
<1>4. <<>> \in Seq(S)
  OBVIOUS
<1> DEFINE r == SpliceSeq(s, at, 1, <<>>)
<1>5. r \in Seq(S) /\ Len(r) = Len(s) - 1 /\ r[at] = s[at]
  BY <1>3, <1>4
<1> HIDE DEF r
<1>6. at \in 1 .. Len(r)
  BY <1>1, <1>5
<1> QED
  BY <1>1, <1>2, <1>5, <1>6 DEF r

\* The two halves are joined again.
LEMMA SplitUndone ==
    ASSUME NEW d, WellFormed(d), NEW s, s.op = "Split", IsStep(s), Perform(d, s).ok
    PROVE  Undone(d, Perform(d, s))
<1> DEFINE a == Perform(d, s)
           b == s.block
           at == s.offset
           new == s.new
           p == Parent(d, b)
           i == IndexInParent(d, b)
           K == Kids(d, p)
           text == Text(d, b)
           e == SplitInto(d, b, at, new, s.kind, s.attr)
           r == a.inverse
           u == JoinedInto(e, b, new)
<1>1. a = Split(d, s) /\ at \in Nat /\ new # Root
  BY DEF Perform, IsStep
<1>2. /\ IsText(d, b) /\ at <= Len(text) /\ ContentOf[s.kind] = "inline"
      /\ TreesOk(d, p, TextTree(new, s.kind, s.attr, <<>>))
      /\ a.doc = e /\ r = JoinStep(b, new)
  BY <1>1 DEF Split, Applied, Failed, SplitInto
<1>3. CanSplit(d, b, at, new, s.kind)
  <2> DEFINE t == TextTree(new, s.kind, s.attr, <<>>)
  <2>1. t = [roots |-> <<new>>, nodes |-> [x \in {new} |->
               [kind |-> s.kind, attr |-> s.attr, parent |-> Root, text |-> <<>>, kids |-> <<>>]]]
    BY DEF TextTree, Trees
  <2> HIDE DEF t
  <2>2. ToSet(t.roots) = {new} /\ DOMAIN t.nodes = {new} /\ t.nodes[new].kind = s.kind
    BY <2>1 DEF ToSet
  <2>3. TreesOk(d, p, t)
    BY <1>2 DEF t
  <2>4. new \notin Blocks(d) /\ AllowsChild(d, p, s.kind)
    BY <2>2, <2>3 DEF TreesOk
  <2> QED
    BY <1>1, <1>2, <2>4 DEF CanSplit
<1>4. r.op = "Join" /\ r.block = b /\ r.next = new
  BY <1>2 DEF JoinStep
<1>5. /\ WellFormed(e) /\ Blocks(e) = Blocks(d) \cup {new}
      /\ p \in Places(d) /\ i \in Nat /\ 1 <= i /\ i <= Len(K) /\ K[i] = b
      /\ \A q \in Places(d) : Kids(e, q) = IF q = p THEN SpliceSeq(K, i, 0, <<new>>) ELSE Kids(d, q)
      /\ \A c \in Blocks(d) : /\ e.nodes[c].kind = d.nodes[c].kind /\ e.nodes[c].attr = d.nodes[c].attr
                              /\ Parent(e, c) = Parent(d, c)
                              /\ Text(e, c) = IF c = b THEN SubSeq(text, 1, at) ELSE Text(d, c)
      /\ e.nodes[new].kind = s.kind /\ Parent(e, new) = p
      /\ Text(e, new) = SubSeq(text, at + 1, Len(text))
  <2>1. IsSplit(d, e, b, at, new, s.kind, s.attr)
    BY <1>3, SplitView
  <2> HIDE DEF e, a, r
  <2> QED
    BY <2>1 DEF IsSplit
<1>6. b \in Blocks(d) /\ Shaped(d) /\ new \notin Blocks(d)
  BY <1>2, <1>3 DEF IsText, WellFormed, CanSplit
<1> HIDE DEF a, e, r, i
<1>7. /\ Kids(e, p) \in Seq(Blocks(e)) /\ i \in Nat /\ 1 <= i /\ i < Len(Kids(e, p))
      /\ Kids(e, p)[i] = b /\ Kids(e, p)[i + 1] = new /\ SpliceSeq(Kids(e, p), i, 1, <<>>) = K
  <2>1. K \in Seq(Blocks(e))
    BY <1>5, SeqMonotonic DEF WellFormed, Linked, Places
  <2>2. Kids(e, p) = SpliceSeq(K, i, 0, <<new>>) /\ new \in Blocks(e)
    BY <1>5
  <2> DEFINE L == SpliceSeq(K, i, 0, <<new>>)
  <2>3. /\ L \in Seq(Blocks(e)) /\ i \in 1 .. Len(L) /\ i < Len(L)
        /\ L[i] = K[i] /\ L[i + 1] = new /\ SpliceSeq(L, i, 1, <<>>) = K
    <3> HIDE DEF K
    <3> QED
      BY <1>5, <2>1, <2>2, Neighbour
  <2> HIDE DEF L, K
  <2>4. Kids(e, p) = L
    BY <2>2 DEF L
  <2> QED
    BY <1>5, <2>3, <2>4
<1>8. Parent(e, b) = p /\ IndexInParent(e, b) = i
  <2>1. Parent(e, b) = p /\ p \in Places(e)
    BY <1>5, <1>6 DEF Places
  <2>2. IsInjective(Kids(e, p))
    BY <1>5, <2>1 DEF WellFormed, Linked, Places
  <2>3. PlaceIn(Kids(e, p), Kids(e, p)[i]) = i
    BY <1>7, LenProperties, <2>2, PlaceOf
  <2> QED
    BY <1>7, <2>1, <2>3 DEF IndexInParent
<1>9. IsText(e, b) /\ IsText(e, new)
  BY <1>2, <1>5, <1>6 DEF IsText
<1>10. CanJoin(e, b, new)
  BY <1>7, <1>8, <1>9 DEF CanJoin
<1>11. /\ Blocks(u) = Blocks(e) \ {new} /\ WellFormed(u)
       /\ \A q \in Places(u) : Kids(u, q) = IF q = p THEN SpliceSeq(Kids(e, p), i, 1, <<>>) ELSE Kids(e, q)
       /\ \A c \in Blocks(u) : /\ u.nodes[c].kind = e.nodes[c].kind /\ u.nodes[c].attr = e.nodes[c].attr
                               /\ Parent(u, c) = Parent(e, c)
                               /\ Text(u, c) = IF c = b THEN Text(e, b) \o Text(e, new) ELSE Text(e, c)
  <2>1. /\ Blocks(u) = Blocks(e) \ {new} /\ WellFormed(u)
        /\ \A q \in Places(u) : Kids(u, q) = IF q = Parent(e, b)
                                             THEN SpliceSeq(Kids(e, Parent(e, b)), IndexInParent(e, b), 1, <<>>)
                                             ELSE Kids(e, q)
        /\ \A c \in Blocks(u) : /\ u.nodes[c].kind = e.nodes[c].kind /\ u.nodes[c].attr = e.nodes[c].attr
                                /\ Parent(u, c) = Parent(e, c)
                                /\ Text(u, c) = IF c = b THEN Text(e, b) \o Text(e, new) ELSE Text(e, c)
    <3>1. IsJoined(e, u, b, new)
      BY <1>5, <1>10, JoinView
    <3> HIDE DEF u, p
    <3> QED
      BY <3>1 DEF IsJoined
  <2> HIDE DEF u, p
  <2> QED
    BY <1>8, <2>1
<1>12. Perform(e, r).ok /\ Perform(e, r).doc = u
  BY <1>4, <1>10 DEF Perform, Join, Applied, CanJoin, JoinedInto, Text
<1> HIDE DEF u
<1>13. Text(e, b) \o Text(e, new) = text
  <2>1. text \in Seq(ToSet(text)) /\ Len(text) \in Nat
    BY <1>6, LenProperties DEF WellFormed, Holds, IsContent
  <2>2. at \in 0 .. Len(text)
    BY <1>1, <1>2, <2>1
  <2>3. SubSeq(text, 1, at) \o SubSeq(text, at + 1, Len(text)) = text
    <3> HIDE DEF text, at
    <3> QED
      BY <2>1, <2>2, TwoParts
  <2> QED
    BY <1>5, <1>6, <2>3
<1>14. Alike(d, u)
  <2>1. Blocks(u) = Blocks(d) /\ Places(u) = Places(d)
    BY <1>5, <1>6, <1>11 DEF Places
  <2> QED
    BY <1>5, <1>7, <1>11, <1>13, <2>1, ZenonT(40) DEF Alike
<1>15. Content(u) = Content(d)
  BY <1>6, <1>11, <1>14, SameContent DEF WellFormed
<1>16. IsStep(r)
  BY <1>4 DEF IsStep
<1> QED
  BY <1>2, <1>5, <1>11, <1>12, <1>15, <1>16 DEF Undone, WellFormed, a, r

\* Joined blocks are split again where they met.
LEMMA JoinUndone ==
    ASSUME NEW d, WellFormed(d), NEW s, s.op = "Join", IsStep(s), Perform(d, s).ok
    PROVE  Undone(d, Perform(d, s))
<1> DEFINE a == Perform(d, s)
           b == s.block
           next == s.next
           p == Parent(d, b)
           i == IndexInParent(d, b)
           K == Kids(d, p)
           first == Text(d, b)
           second == Text(d, next)
           text == first \o second
           at == Len(first)
           kind == d.nodes[next].kind
           attr == d.nodes[next].attr
           e == JoinedInto(d, b, next)
           r == a.inverse
           u == SplitInto(e, b, at, next, kind, attr)
<1>1. a = Join(d, s)
  BY DEF Perform
<1>2. CanJoin(d, b, next) /\ a.doc = e /\ r = SplitStep(b, at, next, kind, attr)
  BY <1>1 DEF Join, Applied, Failed, JoinedInto, CanJoin, Text
<1>3. /\ r.op = "Split" /\ r.block = b /\ r.offset = at /\ r.new = next /\ r.kind = kind /\ r.attr = attr
  BY <1>2 DEF SplitStep
<1>4. /\ WellFormed(e) /\ Blocks(e) = Blocks(d) \ {next} /\ next \in Blocks(d) /\ next # b
      /\ p \in Places(d) /\ p # next /\ Parent(d, next) = p /\ Kids(d, next) = <<>>
      /\ i \in Nat /\ 1 <= i /\ i < Len(K) /\ K[i] = b /\ SubSeq(K, i + 1, i + 1) = <<next>>
      /\ \A q \in Places(e) : Kids(e, q) = IF q = p THEN SpliceSeq(K, i, 1, <<>>) ELSE Kids(d, q)
      /\ \A c \in Blocks(e) : /\ e.nodes[c].kind = d.nodes[c].kind /\ e.nodes[c].attr = d.nodes[c].attr
                              /\ Parent(e, c) = Parent(d, c)
                              /\ Text(e, c) = IF c = b THEN text ELSE Text(d, c)
  <2>1. IsJoined(d, e, b, next)
    BY <1>2, JoinView
  <2> HIDE DEF e, a, r
  <2> QED
    BY <2>1 DEF IsJoined
<1>5. /\ IsText(d, b) /\ IsText(d, next) /\ b \in Blocks(d) /\ Shaped(d) /\ next # Root
  BY <1>2, <1>4 DEF CanJoin, IsText, WellFormed, Shaped
<1> HIDE DEF a, e, r, i
<1>6. p \in Places(e) /\ b \in Blocks(e) /\ Places(e) = Places(d) \ {next}
  BY <1>4, <1>5 DEF Places
<1>7. /\ first \in Seq(ToSet(first) \cup ToSet(second)) /\ second \in Seq(ToSet(first) \cup ToSet(second))
  BY <1>4, <1>5, SeqMonotonic DEF WellFormed, Holds, IsContent
<1>8. /\ SubSeq(text, 1, at) = first /\ SubSeq(text, at + 1, Len(text)) = second
      /\ at \in Nat /\ Len(text) = at + Len(second) /\ Len(second) \in Nat
  <2> DEFINE S == ToSet(first) \cup ToSet(second)
  <2>1. first \in Seq(S) /\ second \in Seq(S)
    BY <1>7
  <2> HIDE DEF first, second, S
  <2> QED
    BY <2>1, TwoParts
<1>9. Text(e, b) = text /\ Parent(e, b) = p /\ IsText(e, b)
  BY <1>4, <1>5, <1>6 DEF IsText
<1> HIDE DEF text, first, second, at
<1>10. CanSplit(e, b, at, next, kind)
  <2>1. at <= Len(Text(e, b))
    BY <1>8, <1>9
  <2>2. AllowsChild(d, p, kind) /\ ContentOf[kind] = "inline"
    BY <1>4, <1>5 DEF WellFormed, Linked, Places, IsText
  <2>3. AllowsChild(e, Parent(e, b), kind)
    BY <1>4, <1>6, <1>9, <2>2 DEF AllowsChild, Places
  <2> HIDE DEF kind
  <2> QED
    BY <1>4, <1>5, <1>8, <1>9, <2>1, <2>2, <2>3 DEF CanSplit
<1>11. /\ IndexInParent(e, b) = i /\ Kids(e, p) \in Seq(Blocks(e))
       /\ SpliceSeq(Kids(e, p), i, 0, <<next>>) = K
  <2>1. K \in Seq(Blocks(d)) /\ Len(K) \in Nat
    BY <1>4, LenProperties DEF WellFormed, Linked, Places
  <2>2. Kids(e, p) = SpliceSeq(K, i, 1, <<>>)
    BY <1>4, <1>6
  <2> DEFINE L == SpliceSeq(K, i, 1, <<>>)
  <2>3. i \in 1 .. Len(L) /\ L[i] = K[i] /\ SpliceSeq(L, i, 0, SubSeq(K, i + 1, i + 1)) = K
    <3> HIDE DEF K
    <3> QED
      BY <1>4, <2>1, NoNeighbour
  <2>4. SpliceSeq(L, i, 0, <<next>>) = K
    BY <1>4, <2>3
  <2>5. Kids(e, p) \in Seq(Blocks(e)) /\ IsInjective(Kids(e, p))
    BY <1>4, <1>6 DEF WellFormed, Linked, Places
  <2> HIDE DEF L, K
  <2>6. Kids(e, p) = L
    BY <2>2 DEF L
  <2>7. PlaceIn(Kids(e, p), Kids(e, p)[i]) = i
    BY <2>3, <2>5, <2>6, PlaceOf
  <2>8. Kids(e, p)[i] = b
    BY <1>4, <2>3, <2>6 DEF K
  <2> QED
    BY <1>9, <2>4, <2>5, <2>6, <2>7, <2>8 DEF IndexInParent
<1>12. /\ WellFormed(u) /\ Blocks(u) = Blocks(e) \cup {next}
       /\ \A q \in Places(e) : Kids(u, q) = IF q = p THEN SpliceSeq(Kids(e, p), i, 0, <<next>>) ELSE Kids(e, q)
       /\ \A c \in Blocks(e) : /\ u.nodes[c].kind = e.nodes[c].kind /\ u.nodes[c].attr = e.nodes[c].attr
                               /\ Parent(u, c) = Parent(e, c)
                               /\ Text(u, c) = IF c = b THEN first ELSE Text(e, c)
       /\ u.nodes[next].kind = kind /\ u.nodes[next].attr = attr /\ Parent(u, next) = p
       /\ Text(u, next) = second /\ Kids(u, next) = <<>>
  <2>1. /\ WellFormed(u) /\ Blocks(u) = Blocks(e) \cup {next}
        /\ \A q \in Places(e) : Kids(u, q) = IF q = Parent(e, b)
                                             THEN SpliceSeq(Kids(e, Parent(e, b)), IndexInParent(e, b), 0, <<next>>)
                                             ELSE Kids(e, q)
        /\ \A c \in Blocks(e) : /\ u.nodes[c].kind = e.nodes[c].kind /\ u.nodes[c].attr = e.nodes[c].attr
                                /\ Parent(u, c) = Parent(e, c)
                                /\ Text(u, c) = IF c = b THEN SubSeq(Text(e, b), 1, at) ELSE Text(e, c)
        /\ u.nodes[next].kind = kind /\ u.nodes[next].attr = attr /\ Parent(u, next) = Parent(e, b)
        /\ Text(u, next) = SubSeq(Text(e, b), at + 1, Len(Text(e, b))) /\ Kids(u, next) = <<>>
    <3>1. IsSplit(e, u, b, at, next, kind, attr)
      BY <1>4, <1>10, SplitView
    <3> HIDE DEF u, p, kind, attr
    <3> QED
      BY <3>1 DEF IsSplit
  <2> HIDE DEF u, p, kind, attr
  <2> QED
    BY <1>8, <1>9, <1>11, <2>1
<1>13. Perform(e, r).ok /\ Perform(e, r).doc = u
  <2> DEFINE t == TextTree(next, kind, attr, <<>>)
  <2>1. t = [roots |-> <<next>>, nodes |-> [x \in {next} |->
               [kind |-> kind, attr |-> attr, parent |-> Root, text |-> <<>>, kids |-> <<>>]]]
    BY DEF TextTree, Trees
  <2> HIDE DEF t, kind, attr
  <2>2. /\ ToSet(t.roots) = {next} /\ DOMAIN t.nodes = {next} /\ t.nodes[next].kind = kind
        /\ ToSet(t.nodes[next].kids) = {}
    BY <2>1 DEF ToSet
  <2>3. TreesOk(e, Parent(e, b), t)
    BY <1>10, <2>2 DEF TreesOk, CanSplit
  <2>4. Perform(e, r) = Split(e, r)
    BY <1>3 DEF Perform
  <2> QED
    BY <1>3, <1>10, <2>3, <2>4 DEF Split, Applied, CanSplit, SplitInto, t
<1> HIDE DEF u
<1>14. Alike(d, u)
  <2>1. Blocks(u) = Blocks(d)
    BY <1>4, <1>12
  <2>2. ASSUME NEW q \in Places(d) PROVE Kids(u, q) = Kids(d, q)
    BY <1>4, <1>6, <1>11, <1>12
  <2>3. ASSUME NEW c \in Blocks(d)
        PROVE  /\ u.nodes[c].kind = d.nodes[c].kind /\ u.nodes[c].attr = d.nodes[c].attr
               /\ Parent(u, c) = Parent(d, c) /\ Text(u, c) = Text(d, c)
    BY <1>4, <1>12 DEF second, first
  <2> QED
    BY <2>1, <2>2, <2>3 DEF Alike
<1>15. Content(u) = Content(d)
  BY <1>5, <1>12, <1>14, SameContent DEF WellFormed
<1>16. IsStep(r)
  BY <1>3, <1>5, <1>8 DEF IsStep
<1> QED
  BY <1>2, <1>4, <1>12, <1>13, <1>15, <1>16 DEF Undone, WellFormed, a, r

-----------------------------------------------------------------------------
(***************************************************************************)
(* Blocks moved to another place.                                          *)
(***************************************************************************)

\* The blocks of a list given another parent, whatever lists they stand in.
Reparent(d, ids, to) ==
    [d EXCEPT !.nodes = [b \in DOMAIN d.nodes |-> IF b \in ToSet(ids) THEN [d.nodes[b] EXCEPT !.parent = to]
                                                  ELSE d.nodes[b]]]

\* Only parents change.
LEMMA ReparentView ==
    ASSUME NEW d, Shaped(d), NEW ids, NEW to
    PROVE  LET e == Reparent(d, ids, to)
           IN  /\ Shaped(e) /\ Blocks(e) = Blocks(d) /\ \A q \in Places(d) : Kids(e, q) = Kids(d, q)
               /\ \A c \in Blocks(d) : /\ e.nodes[c].kind = d.nodes[c].kind /\ e.nodes[c].attr = d.nodes[c].attr
                                       /\ Parent(e, c) = (IF c \in ToSet(ids) THEN to ELSE Parent(d, c))
                                       /\ Text(e, c) = Text(d, c)
<1> DEFINE e == Reparent(d, ids, to)
           F == BlockFields \cup {"rev"}
           Changed(c) == [d.nodes[c] EXCEPT !.parent = to]
           N == [c \in Blocks(d) |-> IF c \in ToSet(ids) THEN Changed(c) ELSE d.nodes[c]]
<1>1. e = [d EXCEPT !.nodes = N]
  BY DEF Reparent, Blocks
<1>2. ASSUME NEW c \in Blocks(d)
      PROVE  /\ IsA(Changed(c), F) /\ Changed(c).kind = d.nodes[c].kind /\ Changed(c).attr = d.nodes[c].attr
             /\ Changed(c).parent = to /\ Changed(c).text = d.nodes[c].text /\ Changed(c).kids = d.nodes[c].kids
  <2> DEFINE old == d.nodes[c]
  <2>1. IsA(old, F)
    BY DEF Shaped
  <2> HIDE DEF old
  <2>2. /\ IsA([old EXCEPT !.parent = to], F) /\ [old EXCEPT !.parent = to].kind = old.kind
        /\ [old EXCEPT !.parent = to].attr = old.attr /\ [old EXCEPT !.parent = to].parent = to
        /\ [old EXCEPT !.parent = to].text = old.text /\ [old EXCEPT !.parent = to].kids = old.kids
    BY <2>1 DEF IsA, BlockFields
  <2> QED
    BY <2>2 DEF old
<1> HIDE DEF e, Changed
<1>3. \A c \in Blocks(d) :
         /\ IsA(N[c], F) /\ N[c].kind = d.nodes[c].kind /\ N[c].attr = d.nodes[c].attr
         /\ N[c].parent = (IF c \in ToSet(ids) THEN to ELSE d.nodes[c].parent)
         /\ N[c].text = d.nodes[c].text /\ N[c].kids = d.nodes[c].kids
  BY <1>2 DEF Shaped
<1>4. DOMAIN N = Blocks(d) /\ IsA(N, Blocks(d))
  BY DEF IsA
<1> HIDE DEF N
<1>5. /\ IsA(e, {"nodes", "root", "next", "version", "saves"}) /\ e.nodes = N /\ e.root = d.root
  BY <1>1 DEF Shaped, IsA
<1>6. Blocks(e) = Blocks(d)
  BY <1>4, <1>5 DEF Blocks
<1>7. Shaped(e)
  BY <1>3, <1>4, <1>5, <1>6 DEF Shaped
<1>8. \A q \in Places(d) : Kids(e, q) = Kids(d, q)
  BY <1>3, <1>5, <1>6 DEF Kids, Places
<1>9. \A c \in Blocks(d) : /\ e.nodes[c].kind = d.nodes[c].kind /\ e.nodes[c].attr = d.nodes[c].attr
                           /\ Parent(e, c) = (IF c \in ToSet(ids) THEN to ELSE Parent(d, c))
                           /\ Text(e, c) = Text(d, c)
  BY <1>3, <1>5 DEF Parent, Text
<1> QED
  BY <1>6, <1>7, <1>8, <1>9 DEF e

\* What moving a part of the children of p to another place gives, whatever
\* checks it passed.
MovedIds(d, p, index, count) == SubSeq(Kids(d, p), index + 1, index + count)
MovedFrom(d, p, index, count) == SpliceSeq(Kids(d, p), index, count, <<>>)
MovedTo(d, p, index, count, to) == IF to = p THEN MovedFrom(d, p, index, count) ELSE Kids(d, to)
MovedInto(d, p, index, count, to, toIndex) ==
    LET cut == SetKids(d, p, MovedFrom(d, p, index, count))
        ids == MovedIds(d, p, index, count)
    IN  Reparent(SetKids(cut, to, SpliceSeq(Kids(cut, to), toIndex, 0, ids)), ids, to)

CanMove(d, p, index, count, to, toIndex) ==
    /\ Siblings(d, p, index, count) /\ to \in Places(d)
    /\ to = Root \/ ContentOf[d.nodes[to].kind] = "blocks"
    /\ \A b \in ToSet(MovedIds(d, p, index, count)) :
          to \notin Subtree(d, b) /\ AllowsChild(d, to, d.nodes[b].kind)
    /\ toIndex \in Nat /\ toIndex <= Len(MovedTo(d, p, index, count, to))

\* The moved document block by block: the blocks stand in the other list.
IsMoved(d, e, p, index, count, to, toIndex) ==
    LET ids == MovedIds(d, p, index, count)
    IN  /\ Shaped(e) /\ Blocks(e) = Blocks(d)
        /\ Kids(e, to) = SpliceSeq(MovedTo(d, p, index, count, to), toIndex, 0, ids)
        /\ p # to => Kids(e, p) = MovedFrom(d, p, index, count)
        /\ \A q \in Places(d) : q # p /\ q # to => Kids(e, q) = Kids(d, q)
        /\ \A c \in Blocks(d) : /\ e.nodes[c].kind = d.nodes[c].kind /\ e.nodes[c].attr = d.nodes[c].attr
                                /\ Parent(e, c) = (IF c \in ToSet(ids) THEN to ELSE Parent(d, c))
                                /\ Text(e, c) = Text(d, c)

\* Moving blocks gives that.
LEMMA MovedView ==
    ASSUME NEW d, Shaped(d), NEW p \in Places(d), NEW index, NEW count, NEW to \in Places(d), NEW toIndex
    PROVE  /\ IsMoved(d, MovedInto(d, p, index, count, to, toIndex), p, index, count, to, toIndex)
           /\ Kids(SetKids(d, p, MovedFrom(d, p, index, count)), to) = MovedTo(d, p, index, count, to)
<1> DEFINE ids == MovedIds(d, p, index, count)
           from == MovedFrom(d, p, index, count)
           base == MovedTo(d, p, index, count, to)
           cut == SetKids(d, p, from)
           kids == SpliceSeq(Kids(cut, to), toIndex, 0, ids)
           put == SetKids(cut, to, kids)
           e == MovedInto(d, p, index, count, to, toIndex)
<1>1. e = Reparent(put, ids, to)
  BY DEF MovedInto
<1>2. base = IF to = p THEN from ELSE Kids(d, to)
  BY DEF MovedTo
<1> HIDE DEF ids, from, base, e
<1>3. Shaped(cut) /\ ButKids(d, cut, p, from)
  BY SetKidsView
<1>4. Kids(cut, to) = base /\ Places(cut) = Places(d)
  BY <1>2, <1>3 DEF ButKids, Places
<1> HIDE DEF cut
<1>5. Shaped(put) /\ ButKids(cut, put, to, kids)
  BY <1>3, <1>4, SetKidsView
<1>6. Places(put) = Places(d) /\ Blocks(put) = Blocks(d) /\ Blocks(cut) = Blocks(d)
  BY <1>3, <1>5 DEF ButKids, Places
<1> HIDE DEF put
<1>7. /\ Shaped(e) /\ Blocks(e) = Blocks(put) /\ \A q \in Places(put) : Kids(e, q) = Kids(put, q)
      /\ \A c \in Blocks(put) : /\ e.nodes[c].kind = put.nodes[c].kind /\ e.nodes[c].attr = put.nodes[c].attr
                                /\ Parent(e, c) = (IF c \in ToSet(ids) THEN to ELSE Parent(put, c))
                                /\ Text(e, c) = Text(put, c)
  BY <1>1, <1>5, ReparentView
<1>8. kids = SpliceSeq(base, toIndex, 0, ids)
  BY <1>4
<1> HIDE DEF kids
<1>9. /\ Kids(e, to) = SpliceSeq(base, toIndex, 0, ids) /\ (p # to => Kids(e, p) = from)
      /\ \A q \in Places(d) : q # p /\ q # to => Kids(e, q) = Kids(d, q)
  BY <1>3, <1>4, <1>5, <1>6, <1>7, <1>8 DEF ButKids
<1>10. \A c \in Blocks(d) : /\ e.nodes[c].kind = d.nodes[c].kind /\ e.nodes[c].attr = d.nodes[c].attr
                            /\ Parent(e, c) = (IF c \in ToSet(ids) THEN to ELSE Parent(d, c))
                            /\ Text(e, c) = Text(d, c)
  BY <1>3, <1>5, <1>6, <1>7 DEF ButKids
<1>11. IsMoved(d, e, p, index, count, to, toIndex)
  BY <1>6, <1>7, <1>9, <1>10 DEF IsMoved, ids, from, base
<1> QED
  BY <1>4, <1>11 DEF e, cut, base, from

\* The lists after a move: the moved blocks are in one list, in no other.
LEMMA MovedLists ==
    ASSUME NEW d, WellFormed(d), NEW e, NEW p, NEW index, NEW count, NEW to, NEW toIndex,
           CanMove(d, p, index, count, to, toIndex), IsMoved(d, e, p, index, count, to, toIndex)
    PROVE  LET ids == MovedIds(d, p, index, count)
           IN  /\ ToSet(ids) \subseteq ToSet(Kids(d, p)) /\ ids \in Seq(Blocks(d)) /\ Len(ids) = count
               /\ MovedTo(d, p, index, count, to) \in Seq(Blocks(d))
               /\ \A q \in Places(d) :
                     /\ Kids(e, q) \in Seq(Blocks(d)) /\ IsInjective(Kids(e, q))
                     /\ ToSet(Kids(e, q)) = (ToSet(Kids(d, q)) \ ToSet(ids))
                                             \cup (IF q = to THEN ToSet(ids) ELSE {})
<1> DEFINE ids == MovedIds(d, p, index, count)
           from == MovedFrom(d, p, index, count)
           base == MovedTo(d, p, index, count, to)
           I == ToSet(ids)
<1>1. /\ p \in Places(d) /\ index \in Nat /\ count \in Nat /\ index + count <= Len(Kids(d, p))
      /\ to \in Places(d) /\ toIndex \in Nat /\ toIndex <= Len(base)
  BY DEF CanMove, Siblings
<1>2. /\ Kids(e, to) = SpliceSeq(base, toIndex, 0, ids) /\ (p # to => Kids(e, p) = from)
      /\ \A q \in Places(d) : q # p /\ q # to => Kids(e, q) = Kids(d, q)
  BY DEF IsMoved
<1>3. \A q \in Places(d) : /\ Kids(d, q) \in Seq(Blocks(d)) /\ IsInjective(Kids(d, q))
                           /\ \A b \in ToSet(Kids(d, q)) : Parent(d, b) = q
  BY DEF WellFormed, Linked, Places
<1>4. /\ from \in Seq(Blocks(d)) /\ IsInjective(from) /\ ToSet(from) = ToSet(Kids(d, p)) \ I
      /\ I \subseteq ToSet(Kids(d, p)) /\ IsInjective(ids) /\ ids \in Seq(Blocks(d)) /\ Len(ids) = count
  <2> DEFINE K == Kids(d, p)
  <2>1. K \in Seq(Blocks(d)) /\ IsInjective(K) /\ index + count <= Len(K)
    BY <1>1, <1>3
  <2>2. from = SpliceSeq(K, index, count, <<>>) /\ ids = SubSeq(K, index + 1, index + count)
    BY DEF MovedFrom, MovedIds
  <2> HIDE DEF K, from, ids
  <2>3. /\ SpliceSeq(K, index, count, <<>>) \in Seq(Blocks(d))
        /\ IsInjective(SpliceSeq(K, index, count, <<>>))
        /\ ToSet(SpliceSeq(K, index, count, <<>>)) = ToSet(K) \ ToSet(SubSeq(K, index + 1, index + count))
        /\ ToSet(SubSeq(K, index + 1, index + count)) \subseteq ToSet(K)
        /\ IsInjective(SubSeq(K, index + 1, index + count))
        /\ SubSeq(K, index + 1, index + count) \in Seq(Blocks(d))
        /\ Len(SubSeq(K, index + 1, index + count)) = count
    BY <1>1, <2>1, TakenOut, SMTT(20)
  <2> QED
    BY <2>2, <2>3 DEF K
<1>5. base = IF to = p THEN from ELSE Kids(d, to)
  BY DEF MovedTo
<1> HIDE DEF ids, from, base
<1>6. /\ base \in Seq(Blocks(d)) /\ IsInjective(base) /\ ToSet(base) = ToSet(Kids(d, to)) \ I
  <2>1. CASE to = p
    BY <1>4, <1>5, <2>1
  <2>2. CASE to # p
    BY <1>1, <1>3, <1>4, <2>2, <1>5
  <2> QED
    BY <2>1, <2>2
<1>7. /\ Kids(e, to) \in Seq(Blocks(d)) /\ IsInjective(Kids(e, to)) /\ ToSet(Kids(e, to)) = ToSet(base) \cup I
  BY <1>6, <1>1, <1>4, PutIn, <1>2
<1>8. ASSUME NEW q \in Places(d)
      PROVE  /\ Kids(e, q) \in Seq(Blocks(d)) /\ IsInjective(Kids(e, q))
             /\ ToSet(Kids(e, q)) = (ToSet(Kids(d, q)) \ I) \cup (IF q = to THEN I ELSE {})
  <2>1. CASE q = to
    BY <1>6, <1>7, <2>1
  <2>2. CASE q # to /\ q = p
    BY <1>2, <1>4, <2>2
  <2>3. CASE q # to /\ q # p
    BY <1>1, <1>2, <1>3, <1>4, <2>3
  <2> QED
    BY <2>1, <2>2, <2>3
<1> QED
  BY <1>4, <1>6, <1>8 DEF ids, base

\* A move keeps a document well formed, and the place the blocks came from
\* is not below any of them.
LEMMA MovedIsWellFormed ==
    ASSUME NEW d, WellFormed(d), NEW e, NEW p, NEW index, NEW count, NEW to, NEW toIndex,
           CanMove(d, p, index, count, to, toIndex), IsMoved(d, e, p, index, count, to, toIndex)
    PROVE  /\ WellFormed(e)
           /\ \A b \in ToSet(MovedIds(d, p, index, count)) : p \notin Subtree(e, b)
<1> DEFINE ids == MovedIds(d, p, index, count)
           I == ToSet(ids)
           S == AllUnder(d.nodes, I)
<1>1. /\ p \in Places(d) /\ to \in Places(d) /\ (to = Root \/ ContentOf[d.nodes[to].kind] = "blocks")
      /\ \A b \in I : to \notin Subtree(d, b) /\ AllowsChild(d, to, d.nodes[b].kind)
  BY DEF CanMove, Siblings
<1>2. /\ Shaped(e) /\ Blocks(e) = Blocks(d) /\ Places(e) = Places(d)
      /\ \A c \in Blocks(d) : /\ e.nodes[c].kind = d.nodes[c].kind
                              /\ Parent(e, c) = (IF c \in I THEN to ELSE Parent(d, c))
                              /\ Text(e, c) = Text(d, c)
  BY DEF IsMoved, Places
<1>3. /\ I \subseteq ToSet(Kids(d, p)) /\ ids \in Seq(Blocks(d))
      /\ \A q \in Places(d) : /\ Kids(e, q) \in Seq(Blocks(d)) /\ IsInjective(Kids(e, q))
                              /\ ToSet(Kids(e, q)) = (ToSet(Kids(d, q)) \ I) \cup (IF q = to THEN I ELSE {})
  BY MovedLists
<1> HIDE DEF ids
<1>4. /\ \A q \in Places(d) : \A b \in ToSet(Kids(d, q)) :
            b \in Blocks(d) /\ Parent(d, b) = q /\ AllowsChild(d, q, d.nodes[b].kind)
      /\ \A b \in Blocks(d) : Parent(d, b) \in Places(d) /\ b \in ToSet(Kids(d, Parent(d, b)))
      /\ Shaped(d) /\ Linked(d) /\ Acyclic(d.nodes)
      /\ \A b \in Blocks(d) : Holds(d.nodes[b].kind, Text(d, b), Kids(d, b))
  <2>1. ASSUME NEW q \in Places(d), NEW b \in ToSet(Kids(d, q)) PROVE b \in Blocks(d)
    BY MemberOf DEF WellFormed, Linked, Places
  <2> QED
    BY <2>1 DEF WellFormed, Linked, Places
<1>5. I \subseteq Blocks(d)
  BY <1>1, <1>3, <1>4
<1>6. Linked(e)
  <2>1. ASSUME NEW q \in Places(d), NEW b \in ToSet(Kids(e, q))
        PROVE  Parent(e, b) = q /\ AllowsChild(e, q, e.nodes[b].kind)
    <3>1. AllowsChild(d, q, d.nodes[b].kind) /\ b \in Blocks(d) /\ Parent(e, b) = q
      BY <1>1, <1>2, <1>3, <1>4, <1>5
    <3> QED
      BY <1>2, <3>1 DEF AllowsChild
  <2>2. ASSUME NEW b \in Blocks(d) PROVE Parent(e, b) \in Places(d) /\ b \in ToSet(Kids(e, Parent(e, b)))
    BY <1>1, <1>2, <1>3, <1>4
  <2> QED
    BY <1>2, <1>3, <2>1, <2>2 DEF Linked, Places
<1>7. /\ I \subseteq S /\ S \subseteq Blocks(d) /\ Closed(d.nodes, S) /\ p \notin S
      /\ \A U : I \subseteq U /\ Closed(d.nodes, U) => S \subseteq U
  BY <1>1, <1>3, <1>4, AllBelow
<1>8. to \notin S
  <2> DEFINE T(b) == AllUnder(d.nodes, {b})
             U == UNION {T(b) : b \in I}
  <2>1. ASSUME NEW b \in I PROVE b \in T(b) /\ Closed(d.nodes, T(b)) /\ to \notin T(b)
    <3>1. {b} \subseteq ToSet(Kids(d, p))
      BY <1>3
    <3>2. {b} \subseteq AllUnder(d.nodes, {b}) /\ Closed(d.nodes, AllUnder(d.nodes, {b}))
      BY <1>1, <1>4, <3>1, AllBelow
    <3> QED
      BY <1>1, <3>2 DEF Subtree
  <2> HIDE DEF T
  <2>2. I \subseteq U /\ Closed(d.nodes, U) /\ to \notin U
    BY <2>1 DEF Closed
  <2> HIDE DEF U
  <2> QED
    BY <1>7, <2>2
<1> HIDE DEF I, S
<1>9. \A b \in Blocks(d) : /\ KidsOf(d.nodes, b) = ToSet(Kids(d, b)) /\ KidsOf(e.nodes, b) = ToSet(Kids(e, b))
                           /\ b # to => KidsOf(e.nodes, b) \subseteq KidsOf(d.nodes, b)
                           /\ KidsOf(e.nodes, b) \subseteq KidsOf(d.nodes, b) \cup I
  BY <1>2, <1>4, NodesOf, <1>3 DEF Places
<1>10. Closed(e.nodes, S)
  BY <1>7, <1>8, <1>9 DEF Closed
<1>11. Acyclic(e.nodes)
  <2> SUFFICES ASSUME NEW b \in Blocks(e)
               PROVE  \E U : ToSet(Kids(e, b)) \subseteq U /\ Closed(e.nodes, U) /\ b \notin U
    BY <1>2, <1>6, NotUnderItself
  <2> DEFINE A == AllUnder(d.nodes, ToSet(Kids(d, b)))
  <2>1. ToSet(Kids(d, b)) \subseteq A /\ A \subseteq Blocks(d) /\ Closed(d.nodes, A) /\ b \notin A
        /\ \A U : ToSet(Kids(d, b)) \subseteq U /\ Closed(d.nodes, U) => A \subseteq U
    BY <1>2, <1>4, AllBelow DEF Places
  <2> HIDE DEF A
  <2>2. b \in Blocks(d) /\ KidsOf(d.nodes, b) = ToSet(Kids(d, b)) /\ KidsOf(e.nodes, b) = ToSet(Kids(e, b))
    BY <1>2, <1>9
  <2>3. CASE b \in S
    BY <1>7, <2>1, <2>2, <2>3, <1>8, <1>9 DEF Closed
  <2>4. CASE b \notin S
    <3>1. Closed(e.nodes, A \cup S)
      BY <1>7, <1>9, <1>10, <2>1 DEF Closed
    <3>2. ToSet(Kids(e, b)) \subseteq A \cup S /\ b \notin A \cup S
      BY <1>7, <1>9, <2>1, <2>2, <2>4
    <3> QED
      BY <3>1, <3>2
  <2> QED
    BY <2>3, <2>4
<1>12. ASSUME NEW b \in Blocks(e) PROVE Holds(e.nodes[b].kind, Text(e, b), Kids(e, b))
  <2>1. b \in Blocks(d) /\ b # Root /\ e.nodes[b].kind = d.nodes[b].kind /\ Text(e, b) = Text(d, b)
    BY <1>2, <1>4 DEF Shaped
  <2>2. Kids(e, b) # <<>> => b = to \/ Kids(d, b) # <<>>
    <3>1. ASSUME Kids(e, b) # <<>>, b # to PROVE Kids(d, b) # <<>>
      <4>1. Kids(e, b) \in Seq(Blocks(d)) /\ ToSet(Kids(e, b)) \subseteq ToSet(Kids(d, b))
        BY <1>3, <2>1, <3>1 DEF Places
      <4>2. Len(Kids(e, b)) # 0 /\ Len(Kids(e, b)) \in Nat
        BY <3>1, <4>1, LenProperties, EmptySeq
      <4>3. Kids(e, b)[1] \in ToSet(Kids(e, b))
        BY <4>1, <4>2, MemberOf
      <4>4. ToSet(Kids(d, b)) # {}
        BY <4>1, <4>3
      <4> QED
        BY <4>4 DEF ToSet
    <3> QED
      BY <3>1
  <2>3. Holds(d.nodes[b].kind, Text(d, b), Kids(d, b))
    BY <1>4, <2>1
  <2> QED
    BY <1>1, <2>1, <2>2, <2>3 DEF Holds
<1>13. WellFormed(e)
  BY <1>2, <1>6, <1>11, <1>12 DEF WellFormed
<1>14. ASSUME NEW b \in I PROVE p \notin Subtree(e, b)
  BY <1>2, <1>6, NodesOf, <1>5, <1>7, <1>10, AllUnderLeast DEF Subtree
<1> QED
  BY <1>13, <1>14 DEF I, ids

\* Moved back, the blocks are where they were.
LEMMA MoveBlocksUndone ==
    ASSUME NEW d, WellFormed(d), NEW s, s.op = "MoveBlocks", IsStep(s), Perform(d, s).ok
    PROVE  Undone(d, Perform(d, s))
<1> DEFINE a == Perform(d, s)
           p == s.parent
           i == s.index
           n == s.count
           to == s.to
           j == s.toIndex
           ids == MovedIds(d, p, i, n)
           from == MovedFrom(d, p, i, n)
           base == MovedTo(d, p, i, n, to)
           e == MovedInto(d, p, i, n, to, j)
           r == a.inverse
           u == MovedInto(e, to, j, n, p, i)
<1>1. a = MoveBlocks(d, s) /\ i \in Nat /\ n \in Nat /\ j \in Nat
  BY DEF Perform, IsStep
<1>2. /\ IndexOk(d, p, i, i + n) /\ IndexOk(d, to, 0, 0)
      /\ \A b \in ToSet(ids) : to \notin Subtree(d, b) /\ AllowsChild(d, to, d.nodes[b].kind)
      /\ j <= Len(Kids(SetKids(d, p, from), to))
      /\ a.doc = e /\ r = MoveBlocksStep(to, j, n, p, i)
  BY <1>1 DEF MoveBlocks, Applied, Failed, MovedInto, MovedIds, MovedFrom, Reparent
<1>3. /\ r.op = "MoveBlocks" /\ r.parent = to /\ r.index = j /\ r.count = n /\ r.to = p /\ r.toIndex = i
  BY <1>2 DEF MoveBlocksStep
<1>4. Siblings(d, p, i, n) /\ p \in Places(d) /\ to \in Places(d) /\ Shaped(d)
  BY <1>1, <1>2 DEF Siblings, IndexOk, Places, WellFormed
<1>5. IsMoved(d, e, p, i, n, to, j) /\ Kids(SetKids(d, p, from), to) = base
  BY <1>4, MovedView
<1>6. CanMove(d, p, i, n, to, j)
  BY <1>1, <1>2, <1>4, <1>5 DEF CanMove, IndexOk
<1>7. WellFormed(e) /\ \A b \in ToSet(ids) : p \notin Subtree(e, b)
  BY <1>5, <1>6, MovedIsWellFormed
<1>8. /\ ToSet(ids) \subseteq ToSet(Kids(d, p)) /\ ids \in Seq(Blocks(d)) /\ Len(ids) = n
      /\ base \in Seq(Blocks(d))
  BY <1>5, <1>6, MovedLists
<1>9. /\ Shaped(e) /\ Blocks(e) = Blocks(d) /\ Places(e) = Places(d)
      /\ Kids(e, to) = SpliceSeq(base, j, 0, ids) /\ (p # to => Kids(e, p) = from)
      /\ \A q \in Places(d) : q # p /\ q # to => Kids(e, q) = Kids(d, q)
      /\ \A c \in Blocks(d) : /\ e.nodes[c].kind = d.nodes[c].kind /\ e.nodes[c].attr = d.nodes[c].attr
                              /\ Parent(e, c) = (IF c \in ToSet(ids) THEN to ELSE Parent(d, c))
                              /\ Text(e, c) = Text(d, c)
  BY <1>5 DEF IsMoved, Places
<1> HIDE DEF a, r, e
<1>10. j <= Len(base)
  BY <1>2, <1>5
<1>11. /\ MovedIds(e, to, j, n) = ids /\ MovedFrom(e, to, j, n) = base /\ j + n <= Len(Kids(e, to))
  <2> HIDE DEF ids, base
  <2>1. /\ SubSeq(SpliceSeq(base, j, 0, ids), j + 1, j + Len(ids)) = ids
        /\ j + Len(ids) <= Len(SpliceSeq(base, j, 0, ids))
        /\ SpliceSeq(SpliceSeq(base, j, 0, ids), j, Len(ids), <<>>) = base
    <3>1. base \in Seq(Blocks(d)) /\ ids \in Seq(Blocks(d)) /\ j \in Nat /\ j <= Len(base)
      BY <1>1, <1>8, <1>10
    <3> QED
      BY <3>1, PutInAndOut, ZenonT(30)
  <2> QED
    BY <1>8, <1>9, <2>1 DEF MovedIds, MovedFrom
<1>12. MovedTo(e, to, j, n, p) = from
  BY <1>9, <1>11 DEF MovedTo
<1>13. i <= Len(from) /\ SpliceSeq(from, i, 0, ids) = Kids(d, p)
  <2>1. Kids(d, p) \in Seq(Blocks(d)) /\ i + n <= Len(Kids(d, p))
    BY <1>4 DEF WellFormed, Linked, Places, Siblings
  <2> DEFINE K == Kids(d, p)
  <2>2. /\ i <= Len(SpliceSeq(K, i, n, <<>>))
        /\ SpliceSeq(SpliceSeq(K, i, n, <<>>), i, 0, SubSeq(K, i + 1, i + n)) = K
    <3> HIDE DEF K
    <3> QED
      BY <1>1, <2>1, TakenOutAndIn DEF K
  <2> QED
    BY <2>2 DEF MovedFrom, MovedIds
<1> HIDE DEF u, ids, from, base
<1>14. CanMove(e, to, j, n, p, i)
  <2>1. Siblings(e, to, j, n)
    BY <1>1, <1>4, <1>9, <1>11 DEF Siblings
  <2>2. p = Root \/ ContentOf[e.nodes[p].kind] = "blocks"
    BY <1>2, <1>9 DEF IndexOk
  <2>3. ASSUME NEW b \in ToSet(ids) PROVE p \notin Subtree(e, b) /\ AllowsChild(e, p, e.nodes[b].kind)
    <3>1. b \in ToSet(Kids(d, p)) /\ b \in Blocks(d)
      BY <1>8, MemberOf
    <3>2. AllowsChild(d, p, d.nodes[b].kind)
      BY <1>4, <3>1 DEF WellFormed, Linked, Places
    <3>3. AllowsChild(e, p, e.nodes[b].kind)
      BY <1>9, <3>1, <3>2 DEF AllowsChild
    <3> QED
      BY <1>7, <3>3
  <2> QED
    BY <1>1, <1>4, <1>9, <1>11, <1>12, <1>13, <2>1, <2>2, <2>3 DEF CanMove
<1>15. /\ IsMoved(e, u, to, j, n, p, i)
       /\ Kids(SetKids(e, to, MovedFrom(e, to, j, n)), p) = from
  BY <1>4, <1>9, <1>12, MovedView DEF u
<1>16. /\ Shaped(u) /\ Blocks(u) = Blocks(d) /\ Kids(u, p) = Kids(d, p) /\ (to # p => Kids(u, to) = base)
       /\ \A q \in Places(d) : q # p /\ q # to => Kids(u, q) = Kids(d, q)
       /\ \A c \in Blocks(d) : /\ u.nodes[c].kind = d.nodes[c].kind /\ u.nodes[c].attr = d.nodes[c].attr
                               /\ Parent(u, c) = (IF c \in ToSet(ids) THEN p ELSE Parent(e, c))
                               /\ Text(u, c) = Text(d, c)
  BY <1>9, <1>11, <1>12, <1>13, <1>15 DEF IsMoved
<1>17. Alike(d, u)
  <2>1. ASSUME NEW q \in Places(d) PROVE Kids(u, q) = Kids(d, q)
    BY <1>16 DEF base, MovedTo
  <2>2. \A c \in Blocks(d) : Parent(u, c) = Parent(d, c)
    BY <1>4, <1>8, <1>9, <1>16 DEF WellFormed, Linked, Places
  <2> QED
    BY <1>16, <2>1, <2>2 DEF Alike
<1>18. Content(u) = Content(d)
  BY <1>4, <1>16, <1>17, SameContent
<1>19. Perform(e, r).ok /\ Perform(e, r).doc = u
  <2>1. Perform(e, r) = MoveBlocks(e, r)
    BY <1>3 DEF Perform
  <2>2. IndexOk(e, to, j, j + n) /\ IndexOk(e, p, 0, 0)
    <3>1. Len(Kids(e, to)) \in Nat /\ Len(Kids(e, p)) \in Nat
      BY <1>4, <1>7, <1>9, LenProperties DEF WellFormed, Linked, Places
    <3> QED
      BY <1>1, <1>2, <1>4, <1>9, <1>11, <3>1 DEF IndexOk, Places
  <2>3. /\ \A b \in ToSet(MovedIds(e, to, j, n)) : p \notin Subtree(e, b) /\ AllowsChild(e, p, e.nodes[b].kind)
        /\ i <= Len(Kids(SetKids(e, to, MovedFrom(e, to, j, n)), p))
    BY <1>13, <1>14, <1>15 DEF CanMove
  <2> QED
    BY <1>3, <2>1, <2>2, <2>3, SMTT(20) DEF MoveBlocks, Applied, MovedInto, MovedIds, MovedFrom, Reparent, u
<1>20. IsStep(r)
  BY <1>1, <1>3 DEF IsStep
<1> QED
  BY <1>2, <1>7, <1>16, <1>18, <1>19, <1>20 DEF Undone, a, r

-----------------------------------------------------------------------------
(***************************************************************************)
(* Every step.                                                             *)
(***************************************************************************)

\* A step applied to a well-formed document gives a well-formed document and
\* an inverse that can be applied to it and takes its content back
\* (step/mod.rs: "Every step is invertible", "The step that undoes this one").
THEOREM StepsAreInvertible ==
    ASSUME NEW d, WellFormed(d), NEW s, IsStep(s), Perform(d, s).ok
    PROVE  Undone(d, Perform(d, s))
<1>1. s.op \in {"InsertInline", "RemoveInline", "AddMark", "RemoveMark", "RestoreMarks", "SetBlock",
                "Split", "Join", "InsertBlocks", "RemoveBlocks", "MoveBlocks"}
  BY DEF IsStep
<1> QED
  BY <1>1, InsertInlineUndone, RemoveInlineUndone, MarkStepsUndone, SetBlockUndone, SplitUndone, JoinUndone,
     InsertBlocksUndone, RemoveBlocksUndone, MoveBlocksUndone

\* What applying a step gives is a record of these fields.
LEMMA AppliedFields ==
    ASSUME NEW d, NEW s, IsStep(s), Perform(d, s).ok
    PROVE  Perform(d, s) = [f \in {"ok", "doc", "inverse", "map", "touched", "structural"} |-> Perform(d, s)[f]]
<1> DEFINE fields == {"ok", "doc", "inverse", "map", "touched", "structural"}
<1>1. ASSUME NEW doc, NEW inverse, NEW map, NEW touched, NEW structural
      PROVE  Applied(doc, inverse, map, touched, structural) =
               [f \in fields |-> Applied(doc, inverse, map, touched, structural)[f]]
  BY DEF Applied
<1>2. \E doc, inverse, map, touched, structural :
         Perform(d, s) = Applied(doc, inverse, map, touched, structural)
  <2>1. s.op \in {"InsertInline", "RemoveInline", "AddMark", "RemoveMark", "RestoreMarks", "SetBlock",
                  "Split", "Join", "InsertBlocks", "RemoveBlocks", "MoveBlocks"}
    BY DEF IsStep
  <2>2. ~Failed(d).ok
    BY DEF Failed
  <2>3. CASE s.op = "InsertInline"
    BY <2>2, <2>3 DEF Perform, InsertInline
  <2>4. CASE s.op = "RemoveInline"
    BY <2>2, <2>4 DEF Perform, RemoveInline
  <2>5. CASE s.op = "AddMark"
    BY <2>2, <2>5 DEF Perform, AddMark, Format
  <2>6. CASE s.op = "RemoveMark"
    BY <2>2, <2>6 DEF Perform, RemoveMark, Format
  <2>7. CASE s.op = "RestoreMarks"
    BY <2>2, <2>7 DEF Perform, RestoreMarks, Format
  <2>8. CASE s.op = "SetBlock"
    BY <2>2, <2>8 DEF Perform, SetBlock
  <2>9. CASE s.op = "Split"
    BY <2>2, <2>9 DEF Perform, Split
  <2>10. CASE s.op = "Join"
    BY <2>2, <2>10 DEF Perform, Join
  <2>11. CASE s.op = "InsertBlocks"
    BY <2>2, <2>11 DEF Perform, InsertBlocks
  <2>12. CASE s.op = "RemoveBlocks"
    BY <2>2, <2>12 DEF Perform, RemoveBlocks
  <2>13. CASE s.op = "MoveBlocks"
    BY <2>2, <2>13 DEF Perform, MoveBlocks
  <2> QED
    BY <2>1, <2>3, <2>4, <2>5, <2>6, <2>7, <2>8, <2>9, <2>10, <2>11, <2>12, <2>13
<1> QED
  BY <1>1, <1>2

\* The revisions, counters and savepoints are not part of what a document
\* needs to be well formed.
LEMMA OnlyTheSaves ==
    ASSUME NEW d, WellFormed(d), NEW e, IsA(e, {"nodes", "root", "next", "version", "saves"}),
           e.nodes = d.nodes, e.root = d.root
    PROVE  WellFormed(e) /\ Content(e) = Content(d) /\ Alike(d, e)
<1>1. Blocks(e) = Blocks(d) /\ Places(e) = Places(d)
  BY DEF Blocks, Places
<1>2. Shaped(e)
  BY <1>1 DEF WellFormed, Shaped
<1>3. Alike(d, e)
  BY <1>1 DEF Alike, Kids, Parent, Text
<1>4. WellFormed(e)
  BY <1>1, <1>2, <1>3, AlikeIsWellFormed DEF Alike, WellFormed
<1> QED
  BY <1>2, <1>3, <1>4, SameContent DEF WellFormed

\* What is recorded for an open savepoint before a step.
LEMMA RecordedBefore ==
    ASSUME NEW d, WellFormed(d), NEW s
    PROVE  /\ WellFormed(RecordBefore(d, s)) /\ Content(RecordBefore(d, s)) = Content(d)
           /\ Alike(d, RecordBefore(d, s))
<1> DEFINE e == RecordBefore(d, s)
           fields == {"nodes", "root", "next", "version", "saves"}
<1>1. d = [f \in fields |-> d[f]]
  BY DEF WellFormed, Shaped, IsA
<1>2. IsA(e, fields) /\ e.nodes = d.nodes /\ e.root = d.root
  BY <1>1 DEF RecordBefore, IsA
<1> HIDE DEF e
<1>3. WellFormed(e) /\ Content(e) = Content(d) /\ Alike(d, e)
  BY <1>2, OnlyTheSaves
<1> QED
  BY <1>3 DEF e

\* And after it.
LEMMA RecordedAfter ==
    ASSUME NEW d, WellFormed(d), NEW inverse
    PROVE  LET e == RecordInverse([d EXCEPT !.version = @ + 1], inverse)
           IN  WellFormed(e) /\ Content(e) = Content(d) /\ Alike(d, e)
<1> DEFINE f == [d EXCEPT !.version = @ + 1]
           e == RecordInverse(f, inverse)
           fields == {"nodes", "root", "next", "version", "saves"}
<1>1. d = [x \in fields |-> d[x]]
  BY DEF WellFormed, Shaped, IsA
<1>2. f = [x \in fields |-> f[x]] /\ f.nodes = d.nodes /\ f.root = d.root
  BY <1>1
<1> HIDE DEF f
<1>3. IsA(e, fields) /\ e.nodes = f.nodes /\ e.root = f.root
  BY <1>2 DEF RecordInverse, IsA
<1> HIDE DEF e
<1>4. WellFormed(e) /\ Content(e) = Content(d) /\ Alike(d, e)
  BY <1>2, <1>3, OnlyTheSaves
<1> QED
  BY <1>4 DEF e, f

-----------------------------------------------------------------------------
(***************************************************************************)
(* Documents that read the same may differ in revisions, in counters and   *)
(* in how often they were saved. Every step does the same to both, so a    *)
(* document that was only taken back to what it was can be stepped again.  *)
(***************************************************************************)

\* Two documents that read the same, whatever their revisions, counters and savepoints are.
Twins(d, e) == WellFormed(d) /\ WellFormed(e) /\ Alike(d, e)

\* A step does the same to both.
SameEffect(a, b) == b.ok /\ Alike(a.doc, b.doc) /\ b.inverse = a.inverse

\* What the checks of the steps read of twins is the same.
LEMMA TwinsReadTheSame ==
    ASSUME NEW d, NEW e, Twins(d, e)
    PROVE  /\ Shaped(d) /\ Shaped(e) /\ Blocks(e) = Blocks(d) /\ Places(e) = Places(d)
           /\ \A p : Kids(e, p) = Kids(d, p)
           /\ \A b \in Blocks(d) : /\ e.nodes[b].kind = d.nodes[b].kind /\ e.nodes[b].attr = d.nodes[b].attr
                                   /\ Parent(e, b) = Parent(d, b) /\ Text(e, b) = Text(d, b)
           /\ \A b : IsText(e, b) = IsText(d, b)
           /\ \A p, kind : AllowsChild(e, p, kind) = AllowsChild(d, p, kind)
           /\ \A p, from, to : IndexOk(e, p, from, to) = IndexOk(d, p, from, to)
           /\ \A p, trees : TreesOk(e, p, trees) = TreesOk(d, p, trees)
<1>1. /\ Shaped(d) /\ Shaped(e) /\ Blocks(e) = Blocks(d) /\ Places(e) = Places(d)
      /\ \A b \in Blocks(d) : /\ e.nodes[b].kind = d.nodes[b].kind /\ e.nodes[b].attr = d.nodes[b].attr
                              /\ Parent(e, b) = Parent(d, b) /\ Text(e, b) = Text(d, b)
  BY DEF Twins, WellFormed, Alike, Places
<1>2. ASSUME NEW p PROVE Kids(e, p) = Kids(d, p)
  BY <1>1 DEF Twins, Alike, Places, Kids
<1>3. ASSUME NEW b PROVE IsText(e, b) = IsText(d, b)
  BY <1>1 DEF IsText
<1>4. ASSUME NEW p, NEW kind PROVE AllowsChild(e, p, kind) = AllowsChild(d, p, kind)
  BY <1>1 DEF AllowsChild
<1>5. ASSUME NEW p, NEW from, NEW to PROVE IndexOk(e, p, from, to) = IndexOk(d, p, from, to)
  BY <1>1, <1>2 DEF IndexOk
<1>6. ASSUME NEW p, NEW trees PROVE TreesOk(e, p, trees) = TreesOk(d, p, trees)
  BY <1>1, <1>4 DEF TreesOk
<1> QED
  BY <1>1, <1>2, <1>3, <1>4, <1>5, <1>6

\* Below the same blocks of twins are the same blocks.
LEMMA TwinsAreDeepAlike ==
    ASSUME NEW d, NEW e, Twins(d, e), NEW ids, ids \subseteq Blocks(d)
    PROVE  AllUnder(e.nodes, ids) = AllUnder(d.nodes, ids)
<1>1. /\ Shaped(d) /\ Shaped(e) /\ Blocks(e) = Blocks(d) /\ \A p : Kids(e, p) = Kids(d, p)
  BY TwinsReadTheSame
<1>2. /\ IsFiniteSet(DOMAIN d.nodes) /\ IsFiniteSet(DOMAIN e.nodes) /\ DOMAIN e.nodes = DOMAIN d.nodes
      /\ Root \notin DOMAIN d.nodes
  BY <1>1 DEF Shaped, Blocks
<1>3. ASSUME NEW b \in DOMAIN d.nodes PROVE KidsOf(e.nodes, b) = KidsOf(d.nodes, b)
  BY <1>2, <1>1 DEF Kids, Blocks, KidsOf
<1>4. KidsAreNodes(d.nodes)
  BY NodesOf DEF Twins, WellFormed
<1>5. KidsAreNodes(e.nodes) /\ Closed(d.nodes, DOMAIN d.nodes)
  BY <1>2, <1>3, <1>4 DEF KidsAreNodes, Closed
<1> QED
  BY <1>2, <1>3, <1>4, <1>5, AllUnderAgree DEF Blocks

\* A text set in both.
LEMMA TextInTwins ==
    ASSUME NEW d, NEW e, Twins(d, e), NEW b \in Blocks(d), NEW text
    PROVE  Alike(SetText(d, b, text), SetText(e, b, text))
<1> DEFINE x == SetText(d, b, text)
           y == SetText(e, b, text)
<1>1. /\ Shaped(d) /\ Shaped(e) /\ Blocks(e) = Blocks(d) /\ Places(e) = Places(d)
      /\ \A p : Kids(e, p) = Kids(d, p)
      /\ \A c \in Blocks(d) : /\ e.nodes[c].kind = d.nodes[c].kind /\ e.nodes[c].attr = d.nodes[c].attr
                              /\ Parent(e, c) = Parent(d, c) /\ Text(e, c) = Text(d, c)
  BY TwinsReadTheSame
<1>2. /\ Blocks(x) = Blocks(d) /\ \A p \in Places(d) : Kids(x, p) = Kids(d, p)
      /\ \A c \in Blocks(d) : /\ x.nodes[c].kind = d.nodes[c].kind /\ x.nodes[c].attr = d.nodes[c].attr
                              /\ Parent(x, c) = Parent(d, c)
                              /\ Text(x, c) = IF c = b THEN text ELSE Text(d, c)
  BY <1>1, SetTextView
<1>3. /\ Blocks(y) = Blocks(e) /\ \A p \in Places(e) : Kids(y, p) = Kids(e, p)
      /\ \A c \in Blocks(e) : /\ y.nodes[c].kind = e.nodes[c].kind /\ y.nodes[c].attr = e.nodes[c].attr
                              /\ Parent(y, c) = Parent(e, c)
                              /\ Text(y, c) = IF c = b THEN text ELSE Text(e, c)
  BY <1>1, SetTextView
<1> HIDE DEF x, y
<1> QED
  BY <1>1, <1>2, <1>3 DEF Alike, Places, x, y

\* InsertInline on twins.
LEMMA InsertInlineInTwins ==
    ASSUME NEW d, NEW e, Twins(d, e), NEW s, s.op = "InsertInline", IsStep(s), Perform(d, s).ok
    PROVE  SameEffect(Perform(d, s), Perform(e, s))
<1> DEFINE a == Perform(d, s)
           z == Perform(e, s)
           b == s.block
           text == SpliceSeq(Text(d, b), s.offset, 0, s.content)
<1>1. a = InsertInline(d, s) /\ z = InsertInline(e, s)
  BY DEF Perform
<1>2. /\ IsText(d, b) /\ s.offset <= Len(Text(d, b))
      /\ a.doc = SetText(d, b, text)
      /\ a.inverse = RemoveInlineStep(b, s.offset, s.offset + Len(s.content))
  BY <1>1 DEF InsertInline, Applied, Failed
<1>3. b \in Blocks(d) /\ IsText(e, b) /\ Text(e, b) = Text(d, b)
  BY <1>2, TwinsReadTheSame DEF IsText
<1>4. /\ z.ok /\ z.doc = SetText(e, b, text)
      /\ z.inverse = RemoveInlineStep(b, s.offset, s.offset + Len(s.content))
  BY <1>1, <1>2, <1>3 DEF InsertInline, Applied
<1> HIDE DEF a, z, text
<1>5. Alike(SetText(d, b, text), SetText(e, b, text))
  BY <1>3, TextInTwins
<1> QED
  BY <1>2, <1>4, <1>5 DEF SameEffect, a, z

\* RemoveInline on twins.
LEMMA RemoveInlineInTwins ==
    ASSUME NEW d, NEW e, Twins(d, e), NEW s, s.op = "RemoveInline", IsStep(s), Perform(d, s).ok
    PROVE  SameEffect(Perform(d, s), Perform(e, s))
<1> DEFINE a == Perform(d, s)
           z == Perform(e, s)
           b == s.block
           text == SpliceSeq(Text(d, b), s.from, s.to - s.from, <<>>)
           part == SubSeq(Text(d, b), s.from + 1, s.to)
<1>1. a = RemoveInline(d, s) /\ z = RemoveInline(e, s)
  BY DEF Perform
<1>2. /\ RangeOk(d, b, s.from, s.to) /\ a.doc = SetText(d, b, text)
      /\ a.inverse = InsertInlineStep(b, s.from, part)
  BY <1>1 DEF RemoveInline, Applied, Failed
<1>3. b \in Blocks(d) /\ IsText(e, b) /\ Text(e, b) = Text(d, b)
  BY <1>2, TwinsReadTheSame DEF RangeOk, IsText
<1>4. RangeOk(e, b, s.from, s.to)
  BY <1>2, <1>3 DEF RangeOk
<1>5. z.ok /\ z.doc = SetText(e, b, text) /\ z.inverse = InsertInlineStep(b, s.from, part)
  BY <1>1, <1>3, <1>4 DEF RemoveInline, Applied
<1> HIDE DEF a, z, text, part
<1>6. Alike(SetText(d, b, text), SetText(e, b, text))
  BY <1>3, TextInTwins
<1> QED
  BY <1>2, <1>5, <1>6 DEF SameEffect, a, z

\* AddMark and RemoveMark on twins.
LEMMA MarkStepsInTwins ==
    ASSUME NEW d, NEW e, Twins(d, e), NEW s, s.op \in {"AddMark", "RemoveMark", "RestoreMarks"},
           IsStep(s), Perform(d, s).ok
    PROVE  SameEffect(Perform(d, s), Perform(e, s))
<1> DEFINE a == Perform(d, s)
           z == Perform(e, s)
           b == s.block
           old == Text(d, b)
<1>1. \E text, inverse : /\ b \in Blocks(d)
                         /\ a.doc = SetText(d, b, text) /\ a.inverse = inverse
                         /\ z.ok /\ z.doc = SetText(e, b, text) /\ z.inverse = inverse
  <2>1. CASE s.op = "AddMark"
    <3> DEFINE text == [i \in DOMAIN old |-> IF s.from < i /\ i <= s.to
                           THEN [old[i] EXCEPT !.marks = (old[i].marks \ Excludes[s.mark]) \cup {s.mark}]
                           ELSE old[i]]
               inverse == RestoreMarksStep(b, s.from, [i \in 1 .. s.to - s.from |-> old[s.from + i].marks])
    <3>1. a = AddMark(d, s) /\ z = AddMark(e, s)
      BY <2>1 DEF Perform
    <3>2. RangeOk(d, b, s.from, s.to) /\ a.doc = SetText(d, b, text) /\ a.inverse = inverse
      BY <3>1 DEF AddMark, Format, Applied, Failed
    <3>3. b \in Blocks(d) /\ IsText(e, b) /\ Text(e, b) = Text(d, b)
      BY <3>2, TwinsReadTheSame DEF RangeOk, IsText
    <3>4. RangeOk(e, b, s.from, s.to)
      BY <3>2, <3>3 DEF RangeOk
    <3>5. z.ok /\ z.doc = SetText(e, b, text) /\ z.inverse = inverse
      BY <3>1, <3>3, <3>4 DEF AddMark, Format, Applied
    <3> HIDE DEF a, z, text, inverse
    <3> QED
      BY <3>2, <3>3, <3>5
  <2>2. CASE s.op = "RemoveMark"
    <3> DEFINE text == [i \in DOMAIN old |-> IF s.from < i /\ i <= s.to
                           THEN [old[i] EXCEPT !.marks = old[i].marks \ {s.mark}] ELSE old[i]]
               inverse == RestoreMarksStep(b, s.from, [i \in 1 .. s.to - s.from |-> old[s.from + i].marks])
    <3>1. a = RemoveMark(d, s) /\ z = RemoveMark(e, s)
      BY <2>2 DEF Perform
    <3>2. RangeOk(d, b, s.from, s.to) /\ a.doc = SetText(d, b, text) /\ a.inverse = inverse
      BY <3>1 DEF RemoveMark, Format, Applied, Failed
    <3>3. b \in Blocks(d) /\ IsText(e, b) /\ Text(e, b) = Text(d, b)
      BY <3>2, TwinsReadTheSame DEF RangeOk, IsText
    <3>4. RangeOk(e, b, s.from, s.to)
      BY <3>2, <3>3 DEF RangeOk
    <3>5. z.ok /\ z.doc = SetText(e, b, text) /\ z.inverse = inverse
      BY <3>1, <3>3, <3>4 DEF RemoveMark, Format, Applied
    <3> HIDE DEF a, z, text, inverse
    <3> QED
      BY <3>2, <3>3, <3>5
  <2>3. CASE s.op = "RestoreMarks"
    <3> DEFINE to == s.offset + Len(s.runs)
               text == [i \in DOMAIN old |-> IF s.offset < i /\ i <= to
                           THEN [old[i] EXCEPT !.marks = s.runs[i - s.offset]] ELSE old[i]]
               inverse == RestoreMarksStep(b, s.offset, [i \in 1 .. to - s.offset |-> old[s.offset + i].marks])
    <3>1. a = RestoreMarks(d, s) /\ z = RestoreMarks(e, s)
      BY <2>3 DEF Perform
    <3>2. RangeOk(d, b, s.offset, to) /\ a.doc = SetText(d, b, text) /\ a.inverse = inverse
      BY <3>1 DEF RestoreMarks, Format, Applied, Failed
    <3>3. b \in Blocks(d) /\ IsText(e, b) /\ Text(e, b) = Text(d, b)
      BY <3>2, TwinsReadTheSame DEF RangeOk, IsText
    <3>4. RangeOk(e, b, s.offset, to)
      BY <3>2, <3>3 DEF RangeOk
    <3>5. z.ok /\ z.doc = SetText(e, b, text) /\ z.inverse = inverse
      BY <3>1, <3>3, <3>4 DEF RestoreMarks, Format, Applied
    <3> HIDE DEF a, z, text, inverse
    <3> QED
      BY <3>2, <3>3, <3>5
  <2> QED
    BY <2>1, <2>2, <2>3
<1> HIDE DEF a, z, old
<1>2. PICK text, inverse : /\ b \in Blocks(d)
                           /\ a.doc = SetText(d, b, text) /\ a.inverse = inverse
                           /\ z.ok /\ z.doc = SetText(e, b, text) /\ z.inverse = inverse
  BY <1>1
<1>3. Alike(SetText(d, b, text), SetText(e, b, text))
  BY <1>2, TextInTwins
<1> QED
  BY <1>2, <1>3 DEF SameEffect, a, z

\* SetBlock on twins.
LEMMA SetBlockInTwins ==
    ASSUME NEW d, NEW e, Twins(d, e), NEW s, s.op = "SetBlock", IsStep(s), Perform(d, s).ok
    PROVE  SameEffect(Perform(d, s), Perform(e, s))
<1> DEFINE a == Perform(d, s)
           z == Perform(e, s)
           b == s.block
           x == Retyped(d, b, s.kind, s.attr)
           y == Retyped(e, b, s.kind, s.attr)
<1>1. a = SetBlock(d, s) /\ z = SetBlock(e, s)
  BY DEF Perform
<1>2. /\ b \in Blocks(d) /\ AllowsChild(d, Parent(d, b), s.kind) /\ ContentFits(d, s.kind, b)
      /\ a.doc = x /\ a.inverse = SetBlockStep(b, d.nodes[b].kind, d.nodes[b].attr)
  BY <1>1 DEF SetBlock, Applied, Failed, Retyped
<1>3. /\ Blocks(e) = Blocks(d) /\ Places(e) = Places(d) /\ \A p : Kids(e, p) = Kids(d, p)
      /\ \A c \in Blocks(d) : /\ e.nodes[c].kind = d.nodes[c].kind /\ e.nodes[c].attr = d.nodes[c].attr
                              /\ Parent(e, c) = Parent(d, c) /\ Text(e, c) = Text(d, c)
      /\ \A p, kind : AllowsChild(e, p, kind) = AllowsChild(d, p, kind)
  BY TwinsReadTheSame
<1>4. b \in Blocks(e) /\ AllowsChild(e, Parent(e, b), s.kind)
  BY <1>2, <1>3
<1>5. ContentFits(e, s.kind, b)
  BY <1>2, NotItsOwnParent, <1>3 DEF Twins, ContentFits
<1>6. z.ok /\ z.doc = y /\ z.inverse = SetBlockStep(b, e.nodes[b].kind, e.nodes[b].attr)
  BY <1>1, <1>4, <1>5 DEF SetBlock, Applied, Retyped
<1>7. z.inverse = a.inverse
  BY <1>2, <1>3, <1>6
<1> HIDE DEF a, z
<1>8. /\ Blocks(x) = Blocks(d) /\ \A p \in Places(d) : Kids(x, p) = Kids(d, p)
      /\ \A c \in Blocks(d) : /\ x.nodes[c].kind = IF c = b THEN s.kind ELSE d.nodes[c].kind
                              /\ x.nodes[c].attr = IF c = b THEN s.attr ELSE d.nodes[c].attr
                              /\ Parent(x, c) = Parent(d, c) /\ Text(x, c) = Text(d, c)
  BY <1>2, RetypedView DEF Twins
<1>9. /\ Blocks(y) = Blocks(e) /\ \A p \in Places(e) : Kids(y, p) = Kids(e, p)
      /\ \A c \in Blocks(e) : /\ y.nodes[c].kind = IF c = b THEN s.kind ELSE e.nodes[c].kind
                              /\ y.nodes[c].attr = IF c = b THEN s.attr ELSE e.nodes[c].attr
                              /\ Parent(y, c) = Parent(e, c) /\ Text(y, c) = Text(e, c)
  BY <1>4, <1>5, RetypedView DEF Twins
<1> HIDE DEF x, y
<1>10. Alike(x, y)
  BY <1>3, <1>8, <1>9 DEF Alike, Places
<1> QED
  BY <1>2, <1>6, <1>7, <1>10 DEF SameEffect, a, z

\* SplitBlock on twins.
LEMMA SplitInTwins ==
    ASSUME NEW d, NEW e, Twins(d, e), NEW s, s.op = "Split", IsStep(s), Perform(d, s).ok
    PROVE  SameEffect(Perform(d, s), Perform(e, s))
<1> DEFINE a == Perform(d, s)
           z == Perform(e, s)
           b == s.block
           x == SplitInto(d, b, s.offset, s.new, s.kind, s.attr)
           y == SplitInto(e, b, s.offset, s.new, s.kind, s.attr)
           t == TextTree(s.new, s.kind, s.attr, <<>>)
<1>1. a = Split(d, s) /\ z = Split(e, s) /\ s.offset \in Nat /\ s.new # Root
  BY DEF Perform, IsStep
<1>2. /\ IsText(d, b) /\ s.offset <= Len(Text(d, b)) /\ ContentOf[s.kind] = "inline"
      /\ TreesOk(d, Parent(d, b), t) /\ a.doc = x /\ a.inverse = JoinStep(b, s.new)
  BY <1>1 DEF Split, Applied, Failed, SplitInto
<1>3. /\ Blocks(e) = Blocks(d) /\ Places(e) = Places(d) /\ \A p : Kids(e, p) = Kids(d, p)
      /\ \A c \in Blocks(d) : /\ e.nodes[c].kind = d.nodes[c].kind /\ e.nodes[c].attr = d.nodes[c].attr
                              /\ Parent(e, c) = Parent(d, c) /\ Text(e, c) = Text(d, c)
      /\ \A p, kind : AllowsChild(e, p, kind) = AllowsChild(d, p, kind)
      /\ \A c : IsText(e, c) = IsText(d, c)
      /\ \A p, trees : TreesOk(e, p, trees) = TreesOk(d, p, trees)
  BY TwinsReadTheSame
<1>4. /\ b \in Blocks(d) /\ Parent(e, b) = Parent(d, b) /\ Text(e, b) = Text(d, b)
      /\ IndexInParent(e, b) = IndexInParent(d, b)
  BY <1>2, <1>3 DEF IsText, IndexInParent
<1>5. /\ IsText(e, b) /\ s.offset <= Len(Text(e, b)) /\ TreesOk(e, Parent(e, b), t)
  BY <1>2, <1>3, <1>4
<1>6. z.ok /\ z.doc = y /\ z.inverse = JoinStep(b, s.new)
  BY <1>1, <1>2, <1>5 DEF Split, Applied, SplitInto
<1>7. CanSplit(d, b, s.offset, s.new, s.kind)
  <2>1. t = [roots |-> <<s.new>>, nodes |-> [c \in {s.new} |->
               [kind |-> s.kind, attr |-> s.attr, parent |-> Root, text |-> <<>>, kids |-> <<>>]]]
    BY DEF TextTree, Trees
  <2> HIDE DEF t
  <2>2. ToSet(t.roots) = {s.new} /\ DOMAIN t.nodes = {s.new} /\ t.nodes[s.new].kind = s.kind
    BY <2>1 DEF ToSet
  <2>3. s.new \notin Blocks(d) /\ AllowsChild(d, Parent(d, b), s.kind)
    BY <1>2, <2>2 DEF TreesOk
  <2> QED
    BY <1>1, <1>2, <2>3 DEF CanSplit
<1>8. CanSplit(e, b, s.offset, s.new, s.kind)
  BY <1>3, <1>4, <1>5, <1>7 DEF CanSplit
<1> HIDE DEF a, z, t
<1>9. IsSplit(d, x, b, s.offset, s.new, s.kind, s.attr)
  BY <1>7, SplitView DEF Twins
<1>10. IsSplit(e, y, b, s.offset, s.new, s.kind, s.attr)
  BY <1>8, SplitView DEF Twins
<1> HIDE DEF x, y
<1>11. Alike(x, y)
  <2> DEFINE p == Parent(d, b)
             i == IndexInParent(d, b)
             K == SpliceSeq(Kids(d, p), i, 0, <<s.new>>)
             front == SubSeq(Text(d, b), 1, s.offset)
             back == SubSeq(Text(d, b), s.offset + 1, Len(Text(d, b)))
  <2>1. /\ Blocks(x) = Blocks(d) \cup {s.new}
        /\ \A q \in Places(d) : Kids(x, q) = IF q = p THEN K ELSE Kids(d, q)
        /\ \A c \in Blocks(d) : /\ x.nodes[c].kind = d.nodes[c].kind /\ x.nodes[c].attr = d.nodes[c].attr
                                /\ Parent(x, c) = Parent(d, c)
                                /\ Text(x, c) = IF c = b THEN front ELSE Text(d, c)
        /\ x.nodes[s.new].kind = s.kind /\ x.nodes[s.new].attr = s.attr /\ Parent(x, s.new) = p
        /\ Text(x, s.new) = back /\ Kids(x, s.new) = <<>>
    BY <1>9 DEF IsSplit
  <2>2. /\ Blocks(y) = Blocks(d) \cup {s.new}
        /\ \A q \in Places(d) : Kids(y, q) = IF q = p THEN K ELSE Kids(d, q)
        /\ \A c \in Blocks(d) : /\ y.nodes[c].kind = d.nodes[c].kind /\ y.nodes[c].attr = d.nodes[c].attr
                                /\ Parent(y, c) = Parent(d, c)
                                /\ Text(y, c) = IF c = b THEN front ELSE Text(d, c)
        /\ y.nodes[s.new].kind = s.kind /\ y.nodes[s.new].attr = s.attr /\ Parent(y, s.new) = p
        /\ Text(y, s.new) = back /\ Kids(y, s.new) = <<>>
    BY <1>3, <1>4, <1>10 DEF IsSplit
  <2> HIDE DEF p, i, K, front, back
  <2> QED
    BY <2>1, <2>2 DEF Alike, Places
<1> QED
  BY <1>2, <1>6, <1>11 DEF SameEffect, a, z

\* JoinBlocks on twins.
LEMMA JoinInTwins ==
    ASSUME NEW d, NEW e, Twins(d, e), NEW s, s.op = "Join", IsStep(s), Perform(d, s).ok
    PROVE  SameEffect(Perform(d, s), Perform(e, s))
<1> DEFINE a == Perform(d, s)
           z == Perform(e, s)
           b == s.block
           next == s.next
           x == JoinedInto(d, b, next)
           y == JoinedInto(e, b, next)
<1>1. a = Join(d, s) /\ z = Join(e, s)
  BY DEF Perform
<1>2. /\ CanJoin(d, b, next) /\ a.doc = x
      /\ a.inverse = SplitStep(b, Len(Text(d, b)), next, d.nodes[next].kind, d.nodes[next].attr)
  BY <1>1 DEF Join, Applied, Failed, JoinedInto, CanJoin, Text
<1>3. /\ Blocks(e) = Blocks(d) /\ Places(e) = Places(d) /\ \A p : Kids(e, p) = Kids(d, p)
      /\ \A c \in Blocks(d) : /\ e.nodes[c].kind = d.nodes[c].kind /\ e.nodes[c].attr = d.nodes[c].attr
                              /\ Parent(e, c) = Parent(d, c) /\ Text(e, c) = Text(d, c)
      /\ \A c : IsText(e, c) = IsText(d, c)
  BY TwinsReadTheSame
<1>4. b \in Blocks(d) /\ next \in Blocks(d)
  BY <1>2 DEF CanJoin, IsText
<1>5. IndexInParent(e, b) = IndexInParent(d, b)
  BY <1>3, <1>4 DEF IndexInParent
<1>6. CanJoin(e, b, next)
  BY <1>2, <1>3, <1>4, <1>5 DEF CanJoin
<1>7. /\ z.ok /\ z.doc = y
      /\ z.inverse = SplitStep(b, Len(Text(e, b)), next, e.nodes[next].kind, e.nodes[next].attr)
  BY <1>1, <1>6 DEF Join, Applied, JoinedInto, CanJoin, Text
<1>8. z.inverse = a.inverse
  BY <1>2, <1>3, <1>4, <1>7
<1> HIDE DEF a, z
<1>9. IsJoined(d, x, b, next)
  BY <1>2, JoinView DEF Twins
<1>10. IsJoined(e, y, b, next)
  BY <1>6, JoinView DEF Twins
<1> HIDE DEF x, y
<1>11. Alike(x, y)
  <2> DEFINE p == Parent(d, b)
             K == SpliceSeq(Kids(d, p), IndexInParent(d, b), 1, <<>>)
             text == Text(d, b) \o Text(d, next)
  <2>1. /\ Blocks(x) = Blocks(d) \ {next}
        /\ \A q \in Places(x) : Kids(x, q) = IF q = p THEN K ELSE Kids(d, q)
        /\ \A c \in Blocks(x) : /\ x.nodes[c].kind = d.nodes[c].kind /\ x.nodes[c].attr = d.nodes[c].attr
                                /\ Parent(x, c) = Parent(d, c)
                                /\ Text(x, c) = IF c = b THEN text ELSE Text(d, c)
    BY <1>9 DEF IsJoined
  <2>2. /\ Blocks(y) = Blocks(d) \ {next}
        /\ \A q \in Places(y) : Kids(y, q) = IF q = p THEN K ELSE Kids(d, q)
        /\ \A c \in Blocks(y) : /\ y.nodes[c].kind = d.nodes[c].kind /\ y.nodes[c].attr = d.nodes[c].attr
                                /\ Parent(y, c) = Parent(d, c)
                                /\ Text(y, c) = IF c = b THEN text ELSE Text(d, c)
    <3> DEFINE L == SpliceSeq(Kids(e, Parent(e, b)), IndexInParent(e, b), 1, <<>>)
               words == Text(e, b) \o Text(e, next)
    <3>1. /\ Blocks(y) = Blocks(e) \ {next}
          /\ \A q \in Places(y) : Kids(y, q) = IF q = Parent(e, b) THEN L ELSE Kids(e, q)
          /\ \A c \in Blocks(y) : /\ y.nodes[c].kind = e.nodes[c].kind /\ y.nodes[c].attr = e.nodes[c].attr
                                  /\ Parent(y, c) = Parent(e, c)
                                  /\ Text(y, c) = IF c = b THEN words ELSE Text(e, c)
      BY <1>10 DEF IsJoined
    <3>2. Parent(e, b) = p /\ L = K /\ words = text
      BY <1>3, <1>4, <1>5
    <3> HIDE DEF L, words, p, K, text
    <3> QED
      BY <1>3, <3>1, <3>2
  <2> HIDE DEF p, K, text
  <2> QED
    BY <2>1, <2>2 DEF Alike, Places
<1> QED
  BY <1>2, <1>7, <1>8, <1>11 DEF SameEffect, a, z

\* InsertBlocks on twins.
LEMMA InsertBlocksInTwins ==
    ASSUME NEW d, NEW e, Twins(d, e), NEW s, s.op = "InsertBlocks", IsStep(s), Perform(d, s).ok
    PROVE  SameEffect(Perform(d, s), Perform(e, s))
<1> DEFINE a == Perform(d, s)
           z == Perform(e, s)
           p == s.parent
           i == s.index
           t == s.blocks
           T == DOMAIN t.nodes
           x == AttachTrees(d, p, i, t)
           y == AttachTrees(e, p, i, t)
           kids == SpliceSeq(Kids(d, p), i, 0, t.roots)
           parent(c) == IF c \in ToSet(t.roots) THEN p ELSE t.nodes[c].parent
<1>1. a = InsertBlocks(d, s) /\ z = InsertBlocks(e, s) /\ IsForest(t)
  BY DEF Perform, IsStep
<1>2. /\ IndexOk(d, p, i, i) /\ TreesOk(d, p, t) /\ a.doc = x
      /\ a.inverse = RemoveBlocksStep(p, i, Len(t.roots))
  BY <1>1 DEF InsertBlocks, Applied, Failed
<1>3. /\ Shaped(d) /\ Shaped(e)
      /\ Blocks(e) = Blocks(d) /\ Places(e) = Places(d) /\ \A q : Kids(e, q) = Kids(d, q)
      /\ \A c \in Blocks(d) : /\ e.nodes[c].kind = d.nodes[c].kind /\ e.nodes[c].attr = d.nodes[c].attr
                              /\ Parent(e, c) = Parent(d, c) /\ Text(e, c) = Text(d, c)
      /\ IndexOk(e, p, i, i) = IndexOk(d, p, i, i) /\ TreesOk(e, p, t) = TreesOk(d, p, t)
  BY TwinsReadTheSame
<1>4. z.ok /\ z.doc = y /\ z.inverse = RemoveBlocksStep(p, i, Len(t.roots))
  BY <1>1, <1>2, <1>3 DEF InsertBlocks, Applied
<1>5. p \in Places(d) /\ T \cap Blocks(d) = {}
  BY <1>2 DEF IndexOk, Places, TreesOk
<1> HIDE DEF a, z
<1>6. /\ Blocks(x) = Blocks(d) \cup T
      /\ \A q \in Places(d) : Kids(x, q) = IF q = p THEN kids ELSE Kids(d, q)
      /\ \A c \in Blocks(d) : /\ x.nodes[c].kind = d.nodes[c].kind /\ x.nodes[c].attr = d.nodes[c].attr
                              /\ Parent(x, c) = Parent(d, c) /\ Text(x, c) = Text(d, c)
      /\ \A c \in T : /\ x.nodes[c].kind = t.nodes[c].kind /\ x.nodes[c].attr = t.nodes[c].attr
                      /\ Parent(x, c) = parent(c) /\ Text(x, c) = t.nodes[c].text
                      /\ Kids(x, c) = t.nodes[c].kids
  BY <1>1, <1>3, <1>5, AttachTreesView
<1>7. /\ Blocks(y) = Blocks(e) \cup T
      /\ \A q \in Places(e) : Kids(y, q) = IF q = p THEN SpliceSeq(Kids(e, p), i, 0, t.roots) ELSE Kids(e, q)
      /\ \A c \in Blocks(e) : /\ y.nodes[c].kind = e.nodes[c].kind /\ y.nodes[c].attr = e.nodes[c].attr
                              /\ Parent(y, c) = Parent(e, c) /\ Text(y, c) = Text(e, c)
      /\ \A c \in T : /\ y.nodes[c].kind = t.nodes[c].kind /\ y.nodes[c].attr = t.nodes[c].attr
                      /\ Parent(y, c) = parent(c) /\ Text(y, c) = t.nodes[c].text
                      /\ Kids(y, c) = t.nodes[c].kids
  BY <1>1, <1>3, <1>5, AttachTreesView
<1>8. kids = SpliceSeq(Kids(e, p), i, 0, t.roots)
  BY <1>3
<1> HIDE DEF x, y, kids, T, parent
<1>9. Alike(x, y)
  BY <1>3, <1>6, <1>7, <1>8 DEF Alike, Places
<1> QED
  BY <1>2, <1>4, <1>9 DEF SameEffect, a, z

\* RemoveBlocks on twins: what it keeps of them is the same.
LEMMA RemoveBlocksInTwins ==
    ASSUME NEW d, NEW e, Twins(d, e), NEW s, s.op = "RemoveBlocks", IsStep(s), Perform(d, s).ok
    PROVE  SameEffect(Perform(d, s), Perform(e, s))
<1> DEFINE a == Perform(d, s)
           z == Perform(e, s)
           p == s.parent
           i == s.index
           n == s.count
           K == Kids(d, p)
           ids == SubSeq(K, i + 1, i + n)
           gone == AllUnder(d.nodes, ToSet(ids))
           kids == SpliceSeq(K, i, n, <<>>)
           x == DetachTrees(d, p, i, n)
           y == DetachTrees(e, p, i, n)
<1>1. a = RemoveBlocks(d, s) /\ z = RemoveBlocks(e, s) /\ i \in Nat /\ n \in Nat
  BY DEF Perform, IsStep
<1>2. IndexOk(d, p, i, i + n) /\ a.doc = x.doc /\ a.inverse = InsertBlocksStep(p, i, x.trees)
  BY <1>1 DEF RemoveBlocks, Applied, Failed
<1>3. /\ Shaped(d) /\ Shaped(e) /\ WellFormed(d) /\ WellFormed(e)
      /\ Blocks(e) = Blocks(d) /\ Places(e) = Places(d) /\ \A q : Kids(e, q) = Kids(d, q)
      /\ \A c \in Blocks(d) : /\ e.nodes[c].kind = d.nodes[c].kind /\ e.nodes[c].attr = d.nodes[c].attr
                              /\ Parent(e, c) = Parent(d, c) /\ Text(e, c) = Text(d, c)
      /\ IndexOk(e, p, i, i + n) = IndexOk(d, p, i, i + n)
  BY TwinsReadTheSame DEF Twins
<1>4. z.ok /\ z.doc = y.doc /\ z.inverse = InsertBlocksStep(p, i, y.trees)
  BY <1>1, <1>2, <1>3 DEF RemoveBlocks, Applied
<1> HIDE DEF a, z
<1>5. Siblings(d, p, i, n) /\ Siblings(e, p, i, n)
  BY <1>1, <1>2, <1>3 DEF Siblings, IndexOk, Places
<1>6. ToSet(ids) \subseteq Blocks(d)
  <2>1. K \in Seq(Blocks(d)) /\ IsInjective(K) /\ i + n <= Len(K)
    BY <1>3, <1>5 DEF Siblings, WellFormed, Linked, Places
  <2>2. ToSet(ids) \subseteq ToSet(K)
    BY <1>1, <2>1, TakenOut
  <2>3. ToSet(K) \subseteq Blocks(d)
    <3> HIDE DEF K
    <3> QED
      BY <2>1, LenProperties DEF ToSet
  <2> QED
    BY <2>2, <2>3
<1>7. Kids(e, p) = K /\ AllUnder(e.nodes, ToSet(ids)) = gone
  BY <1>3, <1>6, TwinsAreDeepAlike
<1>8. /\ Blocks(x.doc) = Blocks(d) \ gone
      /\ \A q \in Places(x.doc) : Kids(x.doc, q) = IF q = p THEN kids ELSE Kids(d, q)
      /\ \A c \in Blocks(x.doc) :
            /\ x.doc.nodes[c].kind = d.nodes[c].kind /\ x.doc.nodes[c].attr = d.nodes[c].attr
            /\ Parent(x.doc, c) = Parent(d, c) /\ Text(x.doc, c) = Text(d, c)
  BY <1>3, <1>5, DetachTreesView
<1>9. /\ Blocks(y.doc) = Blocks(e) \ gone
      /\ \A q \in Places(y.doc) : Kids(y.doc, q) = IF q = p THEN kids ELSE Kids(e, q)
      /\ \A c \in Blocks(y.doc) :
            /\ y.doc.nodes[c].kind = e.nodes[c].kind /\ y.doc.nodes[c].attr = e.nodes[c].attr
            /\ Parent(y.doc, c) = Parent(e, c) /\ Text(y.doc, c) = Text(e, c)
  BY <1>3, <1>5, <1>7, DetachTreesView
<1>10. y.trees = x.trees
  <2>1. Content(e) = Content(d)
    BY <1>3, SameContent DEF Twins
  <2>2. /\ x.trees = Trees(ids, [b \in gone |-> Content(d).nodes[b]])
        /\ y.trees = Trees(SubSeq(Kids(e, p), i + 1, i + n),
                           [b \in AllUnder(e.nodes, ToSet(SubSeq(Kids(e, p), i + 1, i + n))) |-> Content(e).nodes[b]])
    BY DEF DetachTrees
  <2> HIDE DEF x, y, gone, ids
  <2>3. SubSeq(Kids(e, p), i + 1, i + n) = ids
    BY <1>7 DEF ids
  <2> QED
    BY <1>7, <2>1, <2>2, <2>3
<1> HIDE DEF x, y, gone, kids, K
<1>11. Alike(x.doc, y.doc)
  BY <1>3, <1>8, <1>9 DEF Alike, Places
<1> QED
  BY <1>2, <1>4, <1>10, <1>11 DEF SameEffect, a, z

\* MoveBlocks on twins.
LEMMA MoveBlocksInTwins ==
    ASSUME NEW d, NEW e, Twins(d, e), NEW s, s.op = "MoveBlocks", IsStep(s), Perform(d, s).ok
    PROVE  SameEffect(Perform(d, s), Perform(e, s))
<1> DEFINE a == Perform(d, s)
           z == Perform(e, s)
           p == s.parent
           i == s.index
           n == s.count
           to == s.to
           j == s.toIndex
           ids == MovedIds(d, p, i, n)
           from == MovedFrom(d, p, i, n)
           base == MovedTo(d, p, i, n, to)
           x == MovedInto(d, p, i, n, to, j)
           y == MovedInto(e, p, i, n, to, j)
<1>0. z = MoveBlocks(e, s)
  BY DEF Perform
<1>1. a = MoveBlocks(d, s) /\ i \in Nat /\ n \in Nat
  BY DEF Perform, IsStep
<1>2. /\ IndexOk(d, p, i, i + n) /\ IndexOk(d, to, 0, 0)
      /\ \A b \in ToSet(ids) : to \notin Subtree(d, b) /\ AllowsChild(d, to, d.nodes[b].kind)
      /\ j <= Len(Kids(SetKids(d, p, from), to))
      /\ a.doc = x /\ a.inverse = MoveBlocksStep(to, j, n, p, i)
  BY <1>1 DEF MoveBlocks, Applied, Failed, MovedInto, MovedIds, MovedFrom, Reparent
<1>3. /\ Shaped(d) /\ Shaped(e) /\ WellFormed(d) /\ WellFormed(e)
      /\ Blocks(e) = Blocks(d) /\ Places(e) = Places(d) /\ \A q : Kids(e, q) = Kids(d, q)
      /\ \A c \in Blocks(d) : /\ e.nodes[c].kind = d.nodes[c].kind /\ e.nodes[c].attr = d.nodes[c].attr
                              /\ Parent(e, c) = Parent(d, c) /\ Text(e, c) = Text(d, c)
      /\ IndexOk(e, p, i, i + n) = IndexOk(d, p, i, i + n)
      /\ IndexOk(e, to, 0, 0) = IndexOk(d, to, 0, 0)
      /\ \A q, kind : AllowsChild(e, q, kind) = AllowsChild(d, q, kind)
  BY TwinsReadTheSame DEF Twins
<1>4. p \in Places(d) /\ to \in Places(d) /\ Siblings(d, p, i, n)
  BY <1>1, <1>2 DEF Siblings, IndexOk, Places
<1>5. /\ MovedIds(e, p, i, n) = ids /\ MovedFrom(e, p, i, n) = from /\ MovedTo(e, p, i, n, to) = base
  <2>1. Kids(e, p) = Kids(d, p) /\ Kids(e, to) = Kids(d, to)
    BY <1>3
  <2>2. MovedIds(e, p, i, n) = ids /\ MovedFrom(e, p, i, n) = from
    BY <2>1 DEF MovedIds, MovedFrom
  <2> HIDE DEF ids, from
  <2> QED
    BY <2>1, <2>2 DEF MovedTo, from
<1>6. ToSet(ids) \subseteq Blocks(d)
  <2> DEFINE K == Kids(d, p)
  <2>1. K \in Seq(Blocks(d)) /\ IsInjective(K) /\ i + n <= Len(K)
    BY <1>3, <1>4 DEF Siblings, WellFormed, Linked, Places
  <2>2. ToSet(ids) \subseteq ToSet(K)
    BY <1>1, <2>1, TakenOut DEF MovedIds
  <2>3. ToSet(K) \subseteq Blocks(d)
    <3> HIDE DEF K
    <3> QED
      BY <2>1, LenProperties DEF ToSet
  <2> QED
    BY <2>2, <2>3
<1>7. /\ IsMoved(d, x, p, i, n, to, j) /\ Kids(SetKids(d, p, from), to) = base
  BY <1>3, <1>4, MovedView
<1>8. /\ IsMoved(e, y, p, i, n, to, j) /\ Kids(SetKids(e, p, MovedFrom(e, p, i, n)), to) = MovedTo(e, p, i, n, to)
  BY <1>3, <1>4, MovedView
<1> HIDE DEF ids, from, base
<1>9. \A b \in ToSet(ids) : to \notin Subtree(e, b) /\ AllowsChild(e, to, e.nodes[b].kind)
  <2> SUFFICES ASSUME NEW b \in ToSet(ids)
               PROVE  to \notin Subtree(e, b) /\ AllowsChild(e, to, e.nodes[b].kind)
    OBVIOUS
  <2>1. {b} \subseteq Blocks(d) /\ b \in Blocks(d)
    BY <1>6
  <2>2. Subtree(e, b) = Subtree(d, b)
    BY <2>1, TwinsAreDeepAlike, SMTT(30) DEF Subtree
  <2> QED
    BY <1>2, <1>3, <2>1, <2>2
<1>10. z.ok /\ z.doc = y /\ z.inverse = MoveBlocksStep(to, j, n, p, i)
  <2>1. /\ IndexOk(e, p, i, i + n) /\ IndexOk(e, to, 0, 0)
        /\ \A b \in ToSet(MovedIds(e, p, i, n)) : to \notin Subtree(e, b) /\ AllowsChild(e, to, e.nodes[b].kind)
        /\ j <= Len(Kids(SetKids(e, p, MovedFrom(e, p, i, n)), to))
    BY <1>2, <1>3, <1>5, <1>7, <1>8, <1>9
  <2> QED
    BY <1>0, <2>1, SMTT(20) DEF MoveBlocks, Applied, MovedInto, MovedIds, MovedFrom, Reparent
<1> HIDE DEF a, z, x, y
<1>11. Alike(x, y)
  <2> DEFINE kids == SpliceSeq(base, j, 0, ids)
  <2>1. /\ Blocks(x) = Blocks(d) /\ Kids(x, to) = kids /\ (p # to => Kids(x, p) = from)
        /\ \A q \in Places(d) : q # p /\ q # to => Kids(x, q) = Kids(d, q)
        /\ \A c \in Blocks(d) : /\ x.nodes[c].kind = d.nodes[c].kind /\ x.nodes[c].attr = d.nodes[c].attr
                                /\ Parent(x, c) = (IF c \in ToSet(ids) THEN to ELSE Parent(d, c))
                                /\ Text(x, c) = Text(d, c)
    BY <1>7 DEF IsMoved, ids, from, base
  <2>2. /\ Blocks(y) = Blocks(d) /\ Kids(y, to) = kids /\ (p # to => Kids(y, p) = from)
        /\ \A q \in Places(d) : q # p /\ q # to => Kids(y, q) = Kids(d, q)
        /\ \A c \in Blocks(d) : /\ y.nodes[c].kind = d.nodes[c].kind /\ y.nodes[c].attr = d.nodes[c].attr
                                /\ Parent(y, c) = (IF c \in ToSet(ids) THEN to ELSE Parent(d, c))
                                /\ Text(y, c) = Text(d, c)
    BY <1>3, <1>5, <1>8 DEF IsMoved
  <2> HIDE DEF kids
  <2>3. \A q \in Places(d) : Kids(y, q) = Kids(x, q)
    BY <2>1, <2>2
  <2> QED
    BY <2>1, <2>2, <2>3 DEF Alike, Places
<1> QED
  BY <1>2, <1>10, <1>11 DEF SameEffect, a, z

\* Every step does the same to documents that read the same.
LEMMA StepsDoTheSame ==
    ASSUME NEW d, NEW e, Twins(d, e), NEW s, IsStep(s), Perform(d, s).ok
    PROVE  SameEffect(Perform(d, s), Perform(e, s)) /\ Twins(Perform(d, s).doc, Perform(e, s).doc)
<1>1. s.op \in {"InsertInline", "RemoveInline", "AddMark", "RemoveMark", "RestoreMarks", "SetBlock",
                "Split", "Join", "InsertBlocks", "RemoveBlocks", "MoveBlocks"}
  BY DEF IsStep
<1>2. SameEffect(Perform(d, s), Perform(e, s))
  BY <1>1, InsertInlineInTwins, RemoveInlineInTwins, MarkStepsInTwins, SetBlockInTwins, SplitInTwins,
     JoinInTwins, InsertBlocksInTwins, RemoveBlocksInTwins, MoveBlocksInTwins
<1>3. WellFormed(Perform(d, s).doc) /\ WellFormed(Perform(e, s).doc)
  BY <1>2, StepsAreInvertible DEF SameEffect, Undone, Twins
<1> QED
  BY <1>2, <1>3 DEF SameEffect, Twins

\* Reading the same is an equivalence.
LEMMA TwinsAreEqual ==
    /\ \A d : WellFormed(d) => Twins(d, d)
    /\ \A d, e : Twins(d, e) => Twins(e, d)
    /\ \A d, e, f : Twins(d, e) /\ Twins(e, f) => Twins(d, f)
    /\ \A d, e : Twins(d, e) <=> WellFormed(d) /\ WellFormed(e) /\ Content(e) = Content(d)
<1>1. ASSUME NEW d, NEW e
      PROVE  Twins(d, e) <=> WellFormed(d) /\ WellFormed(e) /\ Content(e) = Content(d)
  BY SameContent DEF Twins, WellFormed
<1> QED
  BY <1>1

\* What Step::apply adds to performing a step is nothing that is read.
LEMMA StepApplyView ==
    ASSUME NEW d, WellFormed(d), NEW s, IsStep(s)
    PROVE  LET before == RecordBefore(d, s)
               result == Perform(before, s)
               a == StepApply(d, s)
           IN  /\ Twins(d, before)
               /\ ~result.ok => ~a.ok /\ a.doc = before
               /\ result.ok => a.ok /\ a.inverse = result.inverse /\ a.map = result.map /\ Twins(result.doc, a.doc)
<1> DEFINE before == RecordBefore(d, s)
           result == Perform(before, s)
           doc == RecordInverse([result.doc EXCEPT !.version = @ + 1], result.inverse)
           a == StepApply(d, s)
<1>1. WellFormed(before) /\ Alike(d, before)
  BY RecordedBefore
<1>2. a = IF ~result.ok THEN Failed(before) ELSE [result EXCEPT !.doc = doc]
  BY DEF StepApply
<1> HIDE DEF before, a
<1>3. ASSUME ~result.ok PROVE ~a.ok /\ a.doc = before
  BY <1>2, <1>3 DEF Failed
<1>4. ASSUME result.ok PROVE a.ok /\ a.inverse = result.inverse /\ a.map = result.map /\ Twins(result.doc, a.doc)
  <2>1. WellFormed(result.doc)
    BY <1>1, <1>4, StepsAreInvertible DEF Undone
  <2>2. WellFormed(doc) /\ Alike(result.doc, doc)
    BY <2>1, RecordedAfter
  <2>3. result = [f \in {"ok", "doc", "inverse", "map", "touched", "structural"} |-> result[f]]
    BY <1>1, <1>4, AppliedFields
  <2> HIDE DEF doc, result
  <2>4. a.doc = doc /\ a.inverse = result.inverse /\ a.map = result.map /\ a.ok
    BY <1>2, <1>4, <2>3
  <2> QED
    BY <2>1, <2>2, <2>4 DEF Twins
<1> QED
  BY <1>1, <1>3, <1>4 DEF Twins, before, a

\* Step::apply, the only way to change a document, leaves a well-formed one,
\* savepoints or not; a step that is refused changes nothing that is read, and
\* what is kept to undo one that is not is a step again.
THEOREM StepApplyKeepsWellFormed ==
    ASSUME NEW d, WellFormed(d), NEW s, IsStep(s)
    PROVE  /\ WellFormed(StepApply(d, s).doc)
           /\ StepApply(d, s).ok => IsStep(StepApply(d, s).inverse)
           /\ ~StepApply(d, s).ok => Content(StepApply(d, s).doc) = Content(d)
<1> DEFINE before == RecordBefore(d, s)
           result == Perform(before, s)
           a == StepApply(d, s)
<1>1. /\ Twins(d, before)
      /\ ~result.ok => ~a.ok /\ a.doc = before
      /\ result.ok => a.ok /\ a.inverse = result.inverse /\ Twins(result.doc, a.doc)
  BY StepApplyView
<1>2. result.ok => IsStep(result.inverse)
  BY <1>1, StepsAreInvertible DEF Undone, Twins
<1> HIDE DEF before, result, a
<1>3. WellFormed(a.doc) /\ (~a.ok => Content(a.doc) = Content(d)) /\ (a.ok => IsStep(a.inverse))
  BY <1>1, <1>2, TwinsAreEqual
<1> QED
  BY <1>3 DEF a

\* Step::apply does the same to documents that read the same.
LEMMA StepApplyInTwins ==
    ASSUME NEW d, NEW e, Twins(d, e), NEW s, IsStep(s), StepApply(d, s).ok
    PROVE  /\ StepApply(e, s).ok /\ StepApply(e, s).inverse = StepApply(d, s).inverse
           /\ Twins(StepApply(d, s).doc, StepApply(e, s).doc)
<1> DEFINE before(x) == RecordBefore(x, s)
           result(x) == Perform(before(x), s)
           a(x) == StepApply(x, s)
<1>1. ASSUME NEW x, WellFormed(x)
      PROVE  /\ Twins(x, before(x))
             /\ ~result(x).ok => ~a(x).ok /\ a(x).doc = before(x)
             /\ result(x).ok => /\ a(x).ok /\ a(x).inverse = result(x).inverse
                                /\ Twins(result(x).doc, a(x).doc)
  BY <1>1, StepApplyView
<1>2. WellFormed(d) /\ WellFormed(e)
  BY DEF Twins
<1>3. Twins(before(d), before(e)) /\ result(d).ok
  <2> HIDE DEF before, result, a
  <2> QED
    BY <1>1, <1>2, TwinsAreEqual DEF a
<1>4. SameEffect(result(d), result(e)) /\ Twins(result(d).doc, result(e).doc)
  BY <1>3, StepsDoTheSame
<1> HIDE DEF before, result, a
<1>5. a(e).ok /\ a(e).inverse = a(d).inverse /\ Twins(a(d).doc, a(e).doc)
  BY <1>1, <1>2, <1>3, <1>4, TwinsAreEqual DEF SameEffect
<1> QED
  BY <1>5 DEF a

\* The inverse of an applied step applies and takes the document back.
LEMMA StepApplyUndone ==
    ASSUME NEW d, WellFormed(d), NEW s, IsStep(s), StepApply(d, s).ok
    PROVE  LET a == StepApply(d, s)
           IN  /\ WellFormed(a.doc) /\ IsStep(a.inverse)
               /\ StepApply(a.doc, a.inverse).ok /\ Twins(d, StepApply(a.doc, a.inverse).doc)
<1> DEFINE before == RecordBefore(d, s)
           result == Perform(before, s)
           a == StepApply(d, s)
           r == a.inverse
           later == RecordBefore(a.doc, r)
           back == Perform(later, r)
           u == StepApply(a.doc, r)
<1>1. /\ Twins(d, before)
      /\ ~result.ok => ~a.ok /\ a.doc = before
      /\ result.ok => a.ok /\ r = result.inverse /\ Twins(result.doc, a.doc)
  BY StepApplyView
<1>2. result.ok /\ r = result.inverse /\ Twins(result.doc, a.doc)
  BY <1>1
<1>3. Undone(before, result)
  BY <1>1, <1>2, StepsAreInvertible DEF Twins
<1>4. WellFormed(a.doc) /\ IsStep(r)
  BY <1>2, <1>3 DEF Undone, Twins
<1>5. /\ Twins(a.doc, later)
      /\ ~back.ok => ~u.ok /\ u.doc = later
      /\ back.ok => u.ok /\ u.inverse = back.inverse /\ Twins(back.doc, u.doc)
  BY <1>4, StepApplyView
<1> HIDE DEF before, result, r, later, back, u
<1>6. /\ Perform(result.doc, r).ok
      /\ Content(Perform(result.doc, r).doc) = Content(before)
  BY <1>2, <1>3 DEF Undone
<1>7. Twins(result.doc, later)
  BY <1>2, <1>5, TwinsAreEqual
<1>8. back.ok /\ Twins(Perform(result.doc, r).doc, back.doc)
  BY <1>4, <1>6, <1>7, StepsDoTheSame DEF SameEffect, back
<1>9. Twins(before, Perform(result.doc, r).doc)
  BY <1>1, <1>6, <1>8, TwinsAreEqual
<1>10. u.ok /\ Twins(d, u.doc)
  BY <1>1, <1>5, <1>8, <1>9, TwinsAreEqual
<1> QED
  BY <1>4, <1>10 DEF u, r

-----------------------------------------------------------------------------
(***************************************************************************)
(* Many steps, as transactions and the history keep them: each leads from  *)
(* a document to the next, docs[0] being the first one.                    *)
(***************************************************************************)

IsRun(docs, steps, n) ==
    /\ WellFormed(docs[0])
    /\ \A i \in 1 .. n : /\ IsStep(steps[i]) /\ StepApply(docs[i - 1], steps[i]).ok
                         /\ docs[i] = StepApply(docs[i - 1], steps[i]).doc

\* The inverses of a run's steps, the last one first.
Reverts(undo, docs, steps, n) ==
    \A i \in 1 .. n : undo[i] = StepApply(docs[n - i], steps[n - i + 1]).inverse

\* All documents of a run are well formed, and the inverses are steps.
LEMMA RunsAreWellFormed ==
    ASSUME NEW n \in Nat, NEW docs, NEW steps, IsRun(docs, steps, n)
    PROVE  /\ \A i \in 0 .. n : WellFormed(docs[i])
           /\ \A i \in 1 .. n : IsStep(StepApply(docs[i - 1], steps[i]).inverse)
<1> DEFINE S == {k \in Nat : k <= n => WellFormed(docs[k])}
<1>1. 0 \in S
  BY DEF IsRun
<1>2. ASSUME NEW k \in Nat, k \in S PROVE k + 1 \in S
  <2> SUFFICES ASSUME k + 1 <= n PROVE WellFormed(docs[k + 1])
    OBVIOUS
  <2>1. WellFormed(docs[k]) /\ k + 1 \in 1 .. n /\ (k + 1) - 1 = k
    BY <1>2
  <2>2. IsStep(steps[k + 1]) /\ docs[k + 1] = StepApply(docs[k], steps[k + 1]).doc
    BY <2>1 DEF IsRun
  <2> QED
    BY <2>1, <2>2, StepApplyKeepsWellFormed
<1>3. Nat \subseteq S
  <2> HIDE DEF S
  <2> QED
    BY <1>1, <1>2, NaturalSet
<1>4. \A i \in 0 .. n : WellFormed(docs[i])
  BY <1>3
<1>5. ASSUME NEW i \in 1 .. n PROVE IsStep(StepApply(docs[i - 1], steps[i]).inverse)
  BY <1>4, StepApplyKeepsWellFormed DEF IsRun
<1> QED
  BY <1>4, <1>5

\* Undoing any number of steps, the last one first, on a document that reads
\* as they left it: no inverse is refused, and the document goes back through
\* all it was (transaction.rs, rollback; history.rs, undo).
THEOREM UndoIsExact ==
    ASSUME NEW n \in Nat, NEW docs, NEW steps, IsRun(docs, steps, n),
           NEW undo, Reverts(undo, docs, steps, n),
           NEW back, Twins(docs[n], back[0]),
           \A i \in 1 .. n : back[i] = StepApply(back[i - 1], undo[i]).doc
    PROVE  IsRun(back, undo, n) /\ \A i \in 0 .. n : Twins(docs[n - i], back[i])
<1> DEFINE Done(k) == StepApply(back[k - 1], undo[k]).ok
           S == {k \in Nat : k <= n => Twins(docs[n - k], back[k]) /\ (k > 0 => Done(k))}
<1>1. 0 \in S
  OBVIOUS
<1>2. ASSUME NEW k \in Nat, k \in S PROVE k + 1 \in S
  <2> SUFFICES ASSUME k + 1 <= n PROVE Twins(docs[n - (k + 1)], back[k + 1]) /\ Done(k + 1)
    OBVIOUS
  <2> DEFINE m == n - (k + 1)
             d == docs[m]
             s == steps[m + 1]
             a == StepApply(d, s)
             r == undo[k + 1]
  <2>1. /\ m \in 0 .. n /\ m + 1 \in 1 .. n /\ k + 1 \in 1 .. n /\ n - (k + 1) + 1 = m + 1 /\ n - k = m + 1
        /\ (m + 1) - 1 = m /\ (k + 1) - 1 = k
    OBVIOUS
  <2>2. Twins(docs[m + 1], back[k])
    BY <1>2, <2>1
  <2>3. r = a.inverse
    BY <2>1 DEF Reverts
  <2>4. back[k + 1] = StepApply(back[k], r).doc
    BY <2>1
  <2>5. WellFormed(d)
    BY <2>1, RunsAreWellFormed
  <2> HIDE DEF m
  <2>6. IsStep(s) /\ a.ok /\ docs[m + 1] = a.doc
    BY <2>1 DEF IsRun
  <2>7. IsStep(r) /\ StepApply(a.doc, r).ok /\ Twins(d, StepApply(a.doc, r).doc)
    BY <2>3, <2>5, <2>6, StepApplyUndone
  <2> HIDE DEF d, s, a, r
  <2>8. StepApply(back[k], r).ok /\ Twins(StepApply(a.doc, r).doc, StepApply(back[k], r).doc)
    BY <2>2, <2>6, <2>7, StepApplyInTwins
  <2>9. Twins(d, back[k + 1])
    BY <2>4, <2>7, <2>8, TwinsAreEqual
  <2> QED
    BY <2>1, <2>8, <2>9 DEF d, m, r
<1>3. Nat \subseteq S
  <2> HIDE DEF S
  <2> QED
    BY <1>1, <1>2, NaturalSet
<1>4. \A k \in 0 .. n : Twins(docs[n - k], back[k]) /\ (k > 0 => Done(k))
  BY <1>3
<1>5. ASSUME NEW i \in 1 .. n PROVE IsStep(undo[i])
  BY RunsAreWellFormed DEF Reverts
<1>6. WellFormed(back[0])
  BY DEF Twins
<1>7. \A i \in 1 .. n : i \in 0 .. n /\ i > 0
  OBVIOUS
<1> QED
  BY <1>4, <1>5, <1>6, <1>7 DEF IsRun

\* And redoing them, which is undoing the undoing: the document goes again
\* through all it was, so undo and redo may alternate for ever.
THEOREM RedoIsExact ==
    ASSUME NEW n \in Nat, NEW docs, NEW steps, IsRun(docs, steps, n),
           NEW undo, Reverts(undo, docs, steps, n),
           NEW back, Twins(docs[n], back[0]),
           \A i \in 1 .. n : back[i] = StepApply(back[i - 1], undo[i]).doc,
           NEW redo, Reverts(redo, back, undo, n),
           NEW again, Twins(back[n], again[0]),
           \A i \in 1 .. n : again[i] = StepApply(again[i - 1], redo[i]).doc
    PROVE  IsRun(again, redo, n) /\ \A i \in 0 .. n : Twins(docs[i], again[i])
<1>1. IsRun(back, undo, n) /\ \A i \in 0 .. n : Twins(docs[n - i], back[i])
  BY UndoIsExact
<1>2. IsRun(again, redo, n) /\ \A i \in 0 .. n : Twins(back[n - i], again[i])
  BY <1>1, UndoIsExact
<1>3. ASSUME NEW i \in 0 .. n PROVE Twins(docs[i], again[i])
  BY <1>1, <1>2, TwinsAreEqual
<1> QED
  BY <1>2, <1>3
-----------------------------------------------------------------------------
(***************************************************************************)
(* Points: what the map of a step does to cursors, selections, marks set   *)
(* aside, compositions and whatever else holds a place in the text.        *)
(***************************************************************************)

\* A place in a text: before its first character, between two, or at its end.
Inside(d, p) == p = Point(p.block, p.offset) /\ IsText(d, p.block) /\ p.offset \in 0 .. Len(Text(d, p.block))

\* The i-th character of a text, whatever its marks.
Char(d, b, i) == Text(d, b)[i].ch
HasChar(d, b, i, ch) == i \in 1 .. Len(Text(d, b)) /\ Char(d, b, i) = ch

\* What a step takes out: whole blocks, or some characters of one.
TakesBlock(d, s, b) == s.op = "RemoveBlocks" /\ b \in AffectedBy(d, s)
TakesChar(d, s, b, i) ==
    TakesBlock(d, s, b) \/ (s.op = "RemoveInline" /\ s.block = b /\ s.from < i /\ i <= s.to)

\* A point is deleted when what is on both sides of it is taken out at once.
TakesPoint(d, s, p) ==
    TakesBlock(d, s, p.block) \/ (s.op = "RemoveInline" /\ s.block = p.block /\ s.from < p.offset /\ p.offset < s.to)

\* A point keeps its place: the character it leans on, the next one or the one
\* before it, is still on that side of it, unless the step took that out.
KeepsPlace(d, e, s, p, q, bias) ==
    /\ ~TakesBlock(d, s, p.block) => Inside(e, q)
    /\ bias = "after" /\ p.offset < Len(Text(d, p.block)) /\ ~TakesChar(d, s, p.block, p.offset + 1) =>
          HasChar(e, q.block, q.offset + 1, Char(d, p.block, p.offset + 1))
    /\ bias = "before" /\ p.offset > 0 /\ ~TakesChar(d, s, p.block, p.offset) =>
          HasChar(e, q.block, q.offset, Char(d, p.block, p.offset))
PointFollows(d, s, p, bias) ==
    LET a == Perform(d, s)
        m == MapPoint(a.map, p, bias)
    IN  (m.deleted <=> TakesPoint(d, s, p)) /\ KeepsPlace(d, a.doc, s, p, m.point, bias)

\* What follows from where the map takes a point.
LEMMA FollowsWhen ==
    ASSUME NEW d, NEW s, NEW p, NEW bias, NEW a, a = Perform(d, s), NEW q, KeepsPlace(d, a.doc, s, p, q, bias),
           \/ MapPoint(a.map, p, bias) = Mapped(q, FALSE) /\ ~TakesPoint(d, s, p)
           \/ MapPoint(a.map, p, bias) = Mapped(q, TRUE) /\ TakesPoint(d, s, p)
    PROVE  PointFollows(d, s, p, bias)
<1>1. /\ Mapped(q, FALSE).point = q /\ ~Mapped(q, FALSE).deleted
      /\ Mapped(q, TRUE).point = q /\ Mapped(q, TRUE).deleted
  BY DEF Mapped
<1> DEFINE m == MapPoint(a.map, p, bias)
<1>2. m.point = q /\ (m.deleted <=> TakesPoint(d, s, p))
  BY <1>1, Zenon
<1> QED
  BY <1>2, Zenon DEF PointFollows

\* The length of a text is a number.
LEMMA LengthOfText ==
    ASSUME NEW d, WellFormed(d), NEW b, IsText(d, b)
    PROVE  Text(d, b) \in Seq(ToSet(Text(d, b))) /\ Len(Text(d, b)) \in Nat
<1>1. IsContent(Text(d, b))
  BY DEF WellFormed, Holds, IsText
<1> QED
  BY <1>1, LenProperties DEF IsContent

\* A point that the map leaves alone, in a text that reads the same.
LEMMA PointStays ==
    ASSUME NEW d, WellFormed(d), NEW s, NEW p, Inside(d, p), NEW bias,
           NEW e, NEW a, a = Perform(d, s), a.doc = e, ~Affects(a.map, p.block),
           ~TakesBlock(d, s, p.block), s.op = "RemoveInline" => s.block # p.block,
           IsText(e, p.block), Len(Text(e, p.block)) = Len(Text(d, p.block)),
           \A i \in 1 .. Len(Text(d, p.block)) : Char(e, p.block, i) = Char(d, p.block, i)
    PROVE  PointFollows(d, s, p, bias)
<1> DEFINE n == Len(Text(d, p.block))
<1>1. MapPoint(a.map, p, bias) = Mapped(p, FALSE)
  BY DEF MapPoint
<1>2. n \in Nat /\ p.offset \in 0 .. n
  BY LengthOfText DEF Inside
<1>3. Inside(e, p)
  BY DEF Inside
<1>4. KeepsPlace(d, e, s, p, p, bias)
  BY <1>2, <1>3 DEF KeepsPlace, HasChar
<1>5. ~TakesPoint(d, s, p)
  BY DEF TakesPoint
<1> QED
  BY <1>1, <1>4, <1>5, FollowsWhen

\* Where a point of a changed text is then.
MappedInline(b, at, removed, inserted, p, bias) ==
    IF p.offset < at \/ (p.offset = at /\ (removed > 0 \/ bias = "before")) THEN Mapped(p, FALSE)
    ELSE IF p.offset < at + removed THEN Mapped(Point(b, at), TRUE)
    ELSE Mapped(Point(b, p.offset - removed + inserted), FALSE)

\* What the map of a changed text does to points in that text.
LEMMA InlineMaps ==
    ASSUME NEW b, NEW at \in Nat, NEW removed \in Nat, NEW inserted \in Nat,
           NEW p, p.block = b, p.offset \in Nat, NEW bias
    PROVE  MapPoint(InlineMap(b, at, removed, inserted), p, bias)
             = MappedInline(b, at, removed, inserted, p, bias)
<1> DEFINE m == InlineMap(b, at, removed, inserted)
<1>1. /\ m.map = "inline" /\ m.block = b /\ m.offset = at /\ m.removed = removed /\ m.inserted = inserted
  BY DEF InlineMap
<1> HIDE DEF m
<1>2. MapPoint(m, p, bias) = MapInline(m, p, bias)
  BY <1>1 DEF MapPoint, Affects
<1>3. MapInline(m, p, bias) = MappedInline(b, at, removed, inserted, p, bias)
  BY <1>1 DEF MapInline, MappedInline
<1> QED
  BY <1>2, <1>3 DEF m

\* Inserted text pushes what follows it along.
LEMMA InsertInlinePoints ==
    ASSUME NEW d, WellFormed(d), NEW s, s.op = "InsertInline", IsStep(s), Perform(d, s).ok,
           NEW p, Inside(d, p), NEW bias \in {"before", "after"}
    PROVE  PointFollows(d, s, p, bias)
<1> DEFINE a == Perform(d, s)
           b == s.block
           at == s.offset
           old == Text(d, b)
           new == s.content
           text == SpliceSeq(old, at, 0, new)
           n == Len(new)
<1>1. a = InsertInline(d, s) /\ at \in Nat /\ IsContent(new)
  BY DEF Perform, IsStep
<1>2. IsText(d, b) /\ at <= Len(old) /\ a.doc = SetText(d, b, text) /\ a.map = InlineMap(b, at, 0, n)
  BY <1>1 DEF InsertInline, Applied, Failed
<1>3. /\ b \in Blocks(d) /\ \A c \in Blocks(d) : /\ a.doc.nodes[c].kind = d.nodes[c].kind
                                                 /\ Text(a.doc, c) = IF c = b THEN text ELSE Text(d, c)
      /\ Blocks(a.doc) = Blocks(d)
  BY <1>2, SetTextView DEF IsText, WellFormed
<1>4. n \in Nat /\ Len(old) \in Nat
  BY <1>2, <1>1, LenProperties DEF WellFormed, Holds, IsText, IsContent
<1>5. /\ Len(text) = Len(old) + n
      /\ \A i \in 1 .. at : text[i] = old[i]
      /\ \A i \in at + n + 1 .. Len(old) + n : text[i] = old[i - n]
  <2> DEFINE S == ToSet(old) \cup ToSet(new)
  <2>1. old \in Seq(S) /\ new \in Seq(S) /\ at + 0 <= Len(old)
    BY <1>1, <1>2, <1>4, LengthOfText, SeqMonotonic DEF IsContent
  <2> HIDE DEF S
  <2>2. IsSpliced(S, old, at, 0, new)
    BY <1>1, <2>1, Splice
  <2> HIDE DEF n, old
  <2>3. /\ Len(text) = Len(old) - 0 + n
        /\ \A i \in 1 .. Len(old) - 0 + n :
              text[i] = IF i <= at THEN old[i] ELSE IF i <= at + n THEN new[i - at] ELSE old[i - n + 0]
    BY <2>2 DEF IsSpliced, n
  <2> HIDE DEF text
  <2>4. Len(old) \in Nat /\ at <= Len(old)
    BY <1>2, <1>4 DEF old
  <2>5. Len(old) - 0 + n = Len(old) + n
    BY <1>4, <2>4
  <2>6. ASSUME NEW i \in at + n + 1 .. Len(old) + n PROVE text[i] = old[i - n]
    BY <1>1, <1>4, <2>4, <2>3, <2>5
  <2>7. ASSUME NEW i \in 1 .. at PROVE text[i] = old[i]
    BY <1>1, <1>4, <2>4, <2>3, <2>5
  <2> QED
    BY <2>3, <2>5, <2>6, <2>7 DEF old
<1> HIDE DEF n, text
<1>6. ~TakesBlock(d, s, p.block) /\ \A i : ~TakesChar(d, s, p.block, i)
  BY DEF TakesBlock, TakesChar
<1>7. ~TakesPoint(d, s, p)
  BY <1>6 DEF TakesPoint
<1>8. CASE p.block = b
  <2> DEFINE o == p.offset
             m == MapPoint(a.map, p, bias)
  <2>1. o \in 0 .. Len(old) /\ p = Point(b, o)
    BY <1>8 DEF Inside
  <2>4. m = IF o < at \/ (o = at /\ bias = "before") THEN Mapped(p, FALSE) ELSE Mapped(Point(b, o + n), FALSE)
    <3> DEFINE none == 0
    <3>1. none \in Nat /\ at \in Nat /\ n \in Nat /\ p.block = b /\ p.offset \in Nat
      BY <1>1, <1>4, <1>8, <2>1
    <3>2. m = MapPoint(InlineMap(b, at, none, n), p, bias)
      BY <1>2
    <3> HIDE DEF none, n, m
    <3>3. MapPoint(InlineMap(b, at, none, n), p, bias) = MappedInline(b, at, none, n, p, bias)
      BY <3>1, InlineMaps
    <3>4. /\ o - none + n = o + n /\ at + none = at /\ ~(none > 0)
      BY <1>1, <1>4, <3>1 DEF none
    <3> QED
      BY <3>1, <3>2, <3>3, <3>4 DEF MappedInline
  <2>2. CASE o < at \/ (o = at /\ bias = "before")
    <3>1. m = Mapped(p, FALSE)
      BY <1>2, <2>1, <2>2, <2>4
    <3> HIDE DEF m, a
    <3>2. Inside(a.doc, p)
      BY <1>1, <1>2, <1>3, <1>4, <1>5, <1>8, <2>1 DEF Inside, IsText
    <3>3. KeepsPlace(d, a.doc, s, p, p, bias)
      <4>1. Text(a.doc, b) = text
        BY <1>3
      <4>2. o < Len(old) /\ bias = "after" => o + 1 \in 1 .. Len(text) /\ text[o + 1] = old[o + 1]
        BY <1>1, <1>2, <1>4, <1>5, <2>1, <2>2
      <4>3. o > 0 => o \in 1 .. Len(text) /\ text[o] = old[o]
        BY <1>1, <1>2, <1>4, <1>5, <2>1, <2>2
      <4> QED
        BY <1>8, <3>2, <4>1, <4>2, <4>3 DEF KeepsPlace, HasChar, Char
    <3> QED
      BY <1>7, <3>1, <3>3, FollowsWhen DEF m, a
  <2>3. CASE ~(o < at \/ (o = at /\ bias = "before"))
    <3> DEFINE q == Point(b, o + n)
    <3>1. m = Mapped(q, FALSE)
      BY <2>3, <2>4
    <3> HIDE DEF m, a
    <3>2. q.block = b /\ q.offset = o + n /\ q = Point(q.block, q.offset)
      BY DEF Point
    <3> HIDE DEF q
    <3>3. Inside(a.doc, q)
      BY <1>1, <1>2, <1>3, <1>4, <1>5, <2>1, <3>2 DEF Inside, IsText
    <3>4. KeepsPlace(d, a.doc, s, p, q, bias)
      <4>1. Text(a.doc, b) = text
        BY <1>3
      <4>2. o < Len(old) => o + n + 1 \in 1 .. Len(text) /\ text[o + n + 1] = old[o + 1]
        <5>1. o < Len(old) => o + n + 1 \in at + n + 1 .. Len(old) + n /\ (o + n + 1) - n = o + 1
          BY <1>1, <1>4, <2>1, <2>3
        <5> QED
          BY <1>1, <1>4, <1>5, <5>1
      <4>3. o > 0 /\ bias = "before" => o + n \in 1 .. Len(text) /\ text[o + n] = old[o]
        BY <1>1, <1>4, <2>1, <2>3, <1>5
      <4> QED
        BY <1>8, <3>2, <3>3, <4>1, <4>2, <4>3 DEF KeepsPlace, HasChar, Char
    <3> QED
      BY <1>7, <3>1, <3>4, FollowsWhen DEF m, a
  <2> QED
    BY <2>2, <2>3
<1>9. CASE p.block # b
  <2>1. ~Affects(a.map, p.block)
    BY <1>2, <1>9 DEF Affects, InlineMap
  <2> HIDE DEF a
  <2>2. IsText(a.doc, p.block) /\ Text(a.doc, p.block) = Text(d, p.block)
    BY <1>3, <1>9 DEF Inside, IsText
  <2> QED
    BY <1>6, <2>1, <2>2, PointStays DEF Char, a
<1> QED
  BY <1>8, <1>9

\* Removed text takes the points in it together.
LEMMA RemoveInlinePoints ==
    ASSUME NEW d, WellFormed(d), NEW s, s.op = "RemoveInline", IsStep(s), Perform(d, s).ok,
           NEW p, Inside(d, p), NEW bias \in {"before", "after"}
    PROVE  PointFollows(d, s, p, bias)
<1> DEFINE a == Perform(d, s)
           b == s.block
           from == s.from
           to == s.to
           old == Text(d, b)
           n == to - from
           text == SpliceSeq(old, from, n, <<>>)
<1>1. a = RemoveInline(d, s) /\ from \in Nat /\ to \in Nat
  BY DEF Perform, IsStep
<1>2. RangeOk(d, b, from, to) /\ a.doc = SetText(d, b, text) /\ a.map = InlineMap(b, from, n, 0)
  BY <1>1 DEF RemoveInline, Applied, Failed
<1>3. IsText(d, b) /\ from <= to /\ to <= Len(old) /\ n \in Nat /\ from + n = to
  BY <1>1, <1>2 DEF RangeOk
<1>4. /\ b \in Blocks(d) /\ \A c \in Blocks(d) : /\ a.doc.nodes[c].kind = d.nodes[c].kind
                                                 /\ Text(a.doc, c) = IF c = b THEN text ELSE Text(d, c)
      /\ Blocks(a.doc) = Blocks(d)
  BY <1>2, <1>3, SetTextView DEF IsText, WellFormed
<1>5. old \in Seq(ToSet(old)) /\ Len(old) \in Nat
  BY <1>3, LengthOfText
<1>6. /\ Len(text) = Len(old) - n
      /\ \A i \in 1 .. Len(old) - n : text[i] = IF i <= from THEN old[i] ELSE old[i + n]
  <2> DEFINE none == <<>>
             S == ToSet(old)
  <2>1. none \in Seq(S) /\ Len(none) = 0
    BY EmptySeq
  <2>2. old \in Seq(S) /\ from + n <= Len(old)
    BY <1>3, <1>5
  <2> HIDE DEF none, S
  <2>3. IsCut(S, old, from, n, SpliceSeq(old, from, n, none))
    BY <1>1, <1>3, <2>1, <2>2, SplicedOut
  <2>4. SpliceSeq(old, from, n, none) = text
    BY DEF none
  <2> HIDE DEF text, old, n
  <2> QED
    BY <2>3, <2>4 DEF IsCut
<1> HIDE DEF n, text
<1>7. ~TakesBlock(d, s, p.block)
  BY DEF TakesBlock
<1>8. CASE p.block = b
  <2> DEFINE o == p.offset
             m == MapPoint(a.map, p, bias)
  <2>1. o \in 0 .. Len(old) /\ p = Point(b, o) /\ o \in Nat
    BY <1>5, <1>8 DEF Inside
  <2>2. /\ \A i : TakesChar(d, s, p.block, i) <=> from < i /\ i <= to
        /\ TakesPoint(d, s, p) <=> from < o /\ o < to
    BY <1>7, <1>8 DEF TakesChar, TakesPoint
  <2>3. Text(a.doc, b) = text /\ IsText(a.doc, b)
    BY <1>3, <1>4 DEF IsText
  <2>4. m = IF o < from \/ (o = from /\ (n > 0 \/ bias = "before")) THEN Mapped(p, FALSE)
            ELSE IF o < to THEN Mapped(Point(b, from), TRUE) ELSE Mapped(Point(b, o - n), FALSE)
    <3> DEFINE none == 0
    <3>1. none \in Nat /\ from \in Nat /\ n \in Nat /\ p.block = b /\ p.offset \in Nat
      BY <1>1, <1>3, <1>8, <2>1
    <3>2. m = MapPoint(InlineMap(b, from, n, none), p, bias)
      BY <1>2
    <3> HIDE DEF none, n, m
    <3>3. MapPoint(InlineMap(b, from, n, none), p, bias) = MappedInline(b, from, n, none, p, bias)
      BY <3>1, InlineMaps
    <3>4. o - n + none = o - n
      BY <3>1 DEF none
    <3> QED
      BY <1>3, <3>1, <3>2, <3>3, <3>4 DEF MappedInline
  <2> HIDE DEF m
  <2>5. CASE o < from \/ (o = from /\ (n > 0 \/ bias = "before"))
    <3>1. m = Mapped(p, FALSE)
      BY <2>4, <2>5
    <3>2. ~TakesPoint(d, s, p)
      BY <1>1, <1>3, <2>1, <2>2, <2>5
    <3>3. Inside(a.doc, p)
      BY <1>1, <1>3, <1>5, <1>6, <2>1, <2>5, <1>8, <2>3 DEF Inside
    <3>4. bias = "after" /\ o < Len(old) /\ ~(from < o + 1 /\ o + 1 <= to) =>
              o + 1 \in 1 .. Len(text) /\ text[o + 1] = old[o + 1]
      BY <1>1, <1>3, <1>5, <2>1, <2>5, <1>6
    <3>5. o > 0 => o \in 1 .. Len(text) /\ text[o] = old[o]
      BY <1>1, <1>3, <1>5, <1>6, <2>1, <2>5
    <3>6. KeepsPlace(d, a.doc, s, p, p, bias)
      BY <1>8, <2>2, <2>3, <3>3, <3>4, <3>5 DEF KeepsPlace, HasChar, Char
    <3> QED
      BY <3>1, <3>2, <3>6, FollowsWhen DEF m, a
  <2>6. CASE from < o /\ o < to
    <3> DEFINE q == Point(b, from)
    <3>1. m = Mapped(q, TRUE)
      <4>1. ~(o < from) /\ o # from /\ o < to
        BY <1>1, <2>1, <2>6
      <4> QED
        BY <2>4, <4>1
    <3>2. q.block = b /\ q.offset = from /\ q = Point(q.block, q.offset)
      BY DEF Point
    <3> HIDE DEF q
    <3>3. Inside(a.doc, q)
      BY <1>1, <1>3, <1>5, <1>6, <2>3, <3>2 DEF Inside
    <3>4. from < o + 1 /\ o + 1 <= to
      BY <1>1, <2>1, <2>6
    <3>5. KeepsPlace(d, a.doc, s, p, q, bias)
      BY <1>1, <1>3, <2>1, <2>2, <2>6, <3>4, <3>3 DEF KeepsPlace
    <3> QED
      BY <2>2, <2>6, <3>1, <3>5, FollowsWhen DEF m, a
  <2>7. CASE ~(o < from) /\ ~(o = from /\ (n > 0 \/ bias = "before")) /\ ~(from < o /\ o < to)
    <3> DEFINE q == Point(b, o - n)
    <3>1. o >= to /\ (bias = "before" => o > from)
      BY <1>1, <1>3, <2>1, <2>7
    <3>2. m = Mapped(q, FALSE)
      <4>1. ~(o < to)
        BY <1>1, <1>3, <2>1, <3>1
      <4> QED
        BY <2>4, <2>7, <4>1
    <3>3. q.block = b /\ q.offset = o - n /\ q = Point(q.block, q.offset)
      BY DEF Point
    <3> HIDE DEF q
    <3>4. ~TakesPoint(d, s, p)
      BY <2>2, <2>7
    <3>5. Inside(a.doc, q)
      BY <1>1, <1>3, <1>5, <1>6, <2>1, <3>1, <2>3, <3>3 DEF Inside
    <3>6. o < Len(old) => o - n + 1 \in 1 .. Len(text) /\ text[o - n + 1] = old[o + 1]
      <4>1. o < Len(old) => o - n + 1 \in 1 .. Len(old) - n /\ ~(o - n + 1 <= from) /\ (o - n + 1) + n = o + 1
        BY <1>1, <1>3, <1>5, <2>1, <3>1
      <4> QED
        BY <1>6, <4>1
    <3>7. bias = "before" /\ o > 0 /\ ~(from < o /\ o <= to) => o - n \in 1 .. Len(text) /\ text[o - n] = old[o]
      BY <1>1, <1>3, <1>5, <2>1, <3>1, <1>6
    <3>8. KeepsPlace(d, a.doc, s, p, q, bias)
      BY <1>8, <2>2, <2>3, <3>3, <3>5, <3>6, <3>7 DEF KeepsPlace, HasChar, Char
    <3> QED
      BY <3>2, <3>4, <3>8, FollowsWhen DEF m, a
  <2> QED
    BY <2>5, <2>6, <2>7
<1>9. CASE p.block # b
  <2>1. ~Affects(a.map, p.block)
    BY <1>2, <1>9 DEF Affects, InlineMap
  <2> HIDE DEF a
  <2>2. IsText(a.doc, p.block) /\ Text(a.doc, p.block) = Text(d, p.block)
    BY <1>4, <1>9 DEF Inside, IsText
  <2> QED
    BY <1>7, <1>9, <2>1, <2>2, PointStays DEF Char, a
<1> QED
  BY <1>8, <1>9

\* Marks change no character.
LEMMA MarkPoints ==
    ASSUME NEW d, WellFormed(d), NEW s, s.op \in {"AddMark", "RemoveMark", "RestoreMarks"},
           IsStep(s), Perform(d, s).ok, NEW p, Inside(d, p), NEW bias
    PROVE  PointFollows(d, s, p, bias)
<1> DEFINE a == Perform(d, s)
           b == s.block
           text == Text(d, b)
<1>1. PICK from, to, marks :
         RangeOk(d, b, from, to) /\ a.doc = SetText(d, b, WithMarks(text, from, to, marks)) /\ a.map = Identity
  <2>1. CASE s.op = "AddMark"
    <3> DEFINE marks == [i \in DOMAIN text |-> (text[i].marks \ Excludes[s.mark]) \cup {s.mark}]
    <3>1. a = AddMark(d, s)
      BY <2>1 DEF Perform
    <3>2. /\ RangeOk(d, b, s.from, s.to) /\ a.map = Identity
          /\ a.doc = SetText(d, b, [i \in DOMAIN text |->
                IF s.from < i /\ i <= s.to THEN [text[i] EXCEPT !.marks = (text[i].marks \ Excludes[s.mark]) \cup {s.mark}] ELSE text[i]])
      BY <3>1 DEF AddMark, Format, Applied, Failed
    <3>3. [i \in DOMAIN text |->
             IF s.from < i /\ i <= s.to THEN [text[i] EXCEPT !.marks = (text[i].marks \ Excludes[s.mark]) \cup {s.mark}] ELSE text[i]]
             = WithMarks(text, s.from, s.to, marks)
      BY DEF WithMarks
    <3> HIDE DEF a, marks, text
    <3>4. RangeOk(d, b, s.from, s.to) /\ a.map = Identity /\ a.doc = SetText(d, b, WithMarks(text, s.from, s.to, marks))
      BY <3>2, <3>3
    <3> QED
      BY <3>4
  <2>2. CASE s.op = "RemoveMark"
    <3> DEFINE marks == [i \in DOMAIN text |-> text[i].marks \ {s.mark}]
    <3>1. a = RemoveMark(d, s)
      BY <2>2 DEF Perform
    <3>2. /\ RangeOk(d, b, s.from, s.to) /\ a.map = Identity
          /\ a.doc = SetText(d, b, [i \in DOMAIN text |->
                IF s.from < i /\ i <= s.to THEN [text[i] EXCEPT !.marks = text[i].marks \ {s.mark}] ELSE text[i]])
      BY <3>1 DEF RemoveMark, Format, Applied, Failed
    <3>3. [i \in DOMAIN text |->
             IF s.from < i /\ i <= s.to THEN [text[i] EXCEPT !.marks = text[i].marks \ {s.mark}] ELSE text[i]]
             = WithMarks(text, s.from, s.to, marks)
      BY DEF WithMarks
    <3> HIDE DEF a, marks, text
    <3>4. RangeOk(d, b, s.from, s.to) /\ a.map = Identity /\ a.doc = SetText(d, b, WithMarks(text, s.from, s.to, marks))
      BY <3>2, <3>3
    <3> QED
      BY <3>4
  <2>3. CASE s.op = "RestoreMarks"
    <3> DEFINE marks == [i \in DOMAIN text |-> s.runs[i - s.offset]]
               to == s.offset + Len(s.runs)
    <3>1. a = RestoreMarks(d, s)
      BY <2>3 DEF Perform
    <3>2. /\ RangeOk(d, b, s.offset, to) /\ a.map = Identity
          /\ a.doc = SetText(d, b, [i \in DOMAIN text |->
                IF s.offset < i /\ i <= to THEN [text[i] EXCEPT !.marks = s.runs[i - s.offset]] ELSE text[i]])
      BY <3>1 DEF RestoreMarks, Format, Applied, Failed
    <3>3. [i \in DOMAIN text |->
             IF s.offset < i /\ i <= to THEN [text[i] EXCEPT !.marks = s.runs[i - s.offset]] ELSE text[i]]
             = WithMarks(text, s.offset, to, marks)
      BY DEF WithMarks
    <3> HIDE DEF a, marks, to
    <3> QED
      BY <3>2, <3>3
  <2> QED
    BY <2>1, <2>2, <2>3
<1> DEFINE new == WithMarks(text, from, to, marks)
<1>2. IsText(d, b)
  BY <1>1 DEF RangeOk
<1>3. /\ b \in Blocks(d) /\ \A c \in Blocks(d) : /\ a.doc.nodes[c].kind = d.nodes[c].kind
                                                 /\ Text(a.doc, c) = IF c = b THEN new ELSE Text(d, c)
      /\ Blocks(a.doc) = Blocks(d)
  <2> HIDE DEF new
  <2> QED
    BY <1>1, <1>2, SetTextView DEF IsText, WellFormed, new
<1>4. text \in Seq(ToSet(text)) /\ Len(text) \in Nat /\ IsContent(text)
  BY <1>2, LengthOfText DEF WellFormed, Holds, IsText
<1>5. Len(new) = Len(text) /\ \A i \in 1 .. Len(text) : new[i].ch = text[i].ch
  <2>1. DOMAIN text = 1 .. Len(text)
    BY <1>4, LenProperties
  <2>2. \A i \in 1 .. Len(text) : IsA(text[i], {"ch", "marks"})
    BY <1>4, <2>1 DEF IsContent, ToSet
  <2> HIDE DEF text
  <2>3. DOMAIN new = 1 .. Len(text) /\ new = [i \in 1 .. Len(text) |-> new[i]]
    BY <2>1 DEF WithMarks
  <2>4. ASSUME NEW i \in 1 .. Len(text) PROVE new[i].ch = text[i].ch
    <3> DEFINE t == text[i]
    <3>1. new[i] = IF from < i /\ i <= to THEN [t EXCEPT !.marks = marks[i]] ELSE t
      BY <2>1 DEF WithMarks
    <3>2. IsA(t, {"ch", "marks"})
      BY <2>2
    <3> HIDE DEF t, new
    <3>3. [t EXCEPT !.marks = marks[i]].ch = t.ch
      BY <3>2 DEF IsA
    <3> QED
      BY <3>1, <3>3 DEF t
  <2>5. Len(new) = Len(text)
    <3> DEFINE S == {new[i] : i \in 1 .. Len(text)}
               n == Len(text)
    <3> HIDE DEF new, n
    <3>1. new \in [1 .. n -> S] /\ n \in Nat
      BY <1>4, <2>3 DEF n, text
    <3>2. new \in Seq(S)
      BY <3>1, SeqDef
    <3> HIDE DEF S
    <3>3. DOMAIN new = 1 .. Len(new) /\ Len(new) \in Nat /\ DOMAIN new = 1 .. n
      BY <2>3, <3>2, LenProperties DEF n
    <3> QED
      BY <3>1, <3>3 DEF n
  <2> QED
    BY <2>4, <2>5
<1>6. ~TakesBlock(d, s, p.block) /\ s.op # "RemoveInline"
  BY DEF TakesBlock
<1>7. ~Affects(a.map, p.block)
  BY <1>1 DEF Affects, Identity
<1> HIDE DEF a, new
<1>8. /\ IsText(a.doc, p.block) /\ Len(Text(a.doc, p.block)) = Len(Text(d, p.block))
      /\ \A i \in 1 .. Len(Text(d, p.block)) : Char(a.doc, p.block, i) = Char(d, p.block, i)
  BY <1>3, <1>5 DEF Inside, IsText, Char
<1> QED
  BY <1>6, <1>7, <1>8, PointStays DEF a
\* A new type changes no text.
LEMMA SetBlockPoints ==
    ASSUME NEW d, WellFormed(d), NEW s, s.op = "SetBlock", Perform(d, s).ok,
           NEW p, Inside(d, p), NEW bias
    PROVE  PointFollows(d, s, p, bias)
<1> DEFINE a == Perform(d, s)
           b == s.block
           e == Retyped(d, b, s.kind, s.attr)
<1>1. a = SetBlock(d, s)
  BY DEF Perform
<1>2. /\ b \in Blocks(d) /\ AllowsChild(d, Parent(d, b), s.kind) /\ ContentFits(d, s.kind, b)
      /\ a.doc = e /\ a.map = Identity
  BY <1>1 DEF SetBlock, Applied, Failed, Retyped
<1>3. /\ Blocks(e) = Blocks(d)
      /\ \A c \in Blocks(d) : /\ e.nodes[c].kind = IF c = b THEN s.kind ELSE d.nodes[c].kind
                              /\ Text(e, c) = Text(d, c)
  BY <1>2, RetypedView
<1>4. ~TakesBlock(d, s, p.block) /\ s.op # "RemoveInline" /\ ~Affects(a.map, p.block)
  BY <1>2 DEF TakesBlock, Affects, Identity
<1> HIDE DEF e, a
<1>5. IsText(e, p.block) /\ Text(e, p.block) = Text(d, p.block)
  BY <1>2, <1>3 DEF Inside, IsText, ContentFits
<1> QED
  BY <1>2, <1>4, <1>5, PointStays DEF Char, a

\* Attached trees change no text.
LEMMA InsertBlocksPoints ==
    ASSUME NEW d, WellFormed(d), NEW s, s.op = "InsertBlocks", IsStep(s), Perform(d, s).ok,
           NEW p, Inside(d, p), NEW bias
    PROVE  PointFollows(d, s, p, bias)
<1> DEFINE a == Perform(d, s)
           t == s.blocks
           e == AttachTrees(d, s.parent, s.index, t)
<1>1. a = InsertBlocks(d, s) /\ s.index \in Nat /\ IsForest(t)
  BY DEF Perform, IsStep
<1>2. IndexOk(d, s.parent, s.index, s.index) /\ TreesOk(d, s.parent, t) /\ a.doc = e /\ a.map = Identity
  BY <1>1 DEF InsertBlocks, Applied, Failed
<1>3. s.parent \in Places(d) /\ DOMAIN t.nodes \cap Blocks(d) = {} /\ Shaped(d)
  BY <1>2 DEF IndexOk, Places, TreesOk, WellFormed
<1>4. /\ Blocks(e) = Blocks(d) \cup DOMAIN t.nodes
      /\ \A c \in Blocks(d) : e.nodes[c].kind = d.nodes[c].kind /\ Text(e, c) = Text(d, c)
  BY <1>1, <1>3, AttachTreesView
<1>5. ~TakesBlock(d, s, p.block) /\ s.op # "RemoveInline" /\ ~Affects(a.map, p.block)
  BY <1>2 DEF TakesBlock, Affects, Identity
<1> HIDE DEF e, a
<1>6. IsText(e, p.block) /\ Text(e, p.block) = Text(d, p.block)
  BY <1>4 DEF Inside, IsText
<1> QED
  BY <1>2, <1>5, <1>6, PointStays DEF Char, a

\* Blocks that move take their points along.
LEMMA MoveBlocksPoints ==
    ASSUME NEW d, WellFormed(d), NEW s, s.op = "MoveBlocks", IsStep(s), Perform(d, s).ok,
           NEW p, Inside(d, p), NEW bias
    PROVE  PointFollows(d, s, p, bias)
<1> DEFINE a == Perform(d, s)
           e == MovedInto(d, s.parent, s.index, s.count, s.to, s.toIndex)
<1>1. a = MoveBlocks(d, s)
  BY DEF Perform
<1>2. /\ IndexOk(d, s.parent, s.index, s.index + s.count) /\ IndexOk(d, s.to, 0, 0)
      /\ a.doc = e /\ a.map = Identity
  BY <1>1, SMTT(20) DEF MoveBlocks, Applied, Failed, MovedInto, MovedIds, MovedFrom, Reparent
<1>3. s.parent \in Places(d) /\ s.to \in Places(d) /\ Shaped(d)
  BY <1>2 DEF IndexOk, Places, WellFormed
<1> HIDE DEF a
<1>4. /\ Blocks(e) = Blocks(d)
      /\ \A c \in Blocks(d) : e.nodes[c].kind = d.nodes[c].kind /\ Text(e, c) = Text(d, c)
  <2>1. IsMoved(d, e, s.parent, s.index, s.count, s.to, s.toIndex)
    BY <1>3, MovedView
  <2> HIDE DEF e
  <2> QED
    BY <2>1 DEF IsMoved
<1> HIDE DEF e
<1>5. ~TakesBlock(d, s, p.block) /\ s.op # "RemoveInline" /\ ~Affects(a.map, p.block)
  BY <1>2 DEF TakesBlock, Affects, Identity
<1>6. IsText(e, p.block) /\ Text(e, p.block) = Text(d, p.block)
  BY <1>4 DEF Inside, IsText
<1> QED
  BY <1>2, <1>5, <1>6, PointStays DEF Char, a

\* A removal takes the points of what it removes, and leaves the others.
LEMMA RemoveBlocksPoints ==
    ASSUME NEW d, WellFormed(d), NEW s, s.op = "RemoveBlocks", IsStep(s), Perform(d, s).ok,
           NEW p, Inside(d, p), NEW bias
    PROVE  PointFollows(d, s, p, bias)
<1> DEFINE a == Perform(d, s)
           from == s.parent
           i == s.index
           n == s.count
           cut == DetachTrees(d, from, i, n)
           e == cut.doc
           t == cut.trees
           ids == SubSeq(Kids(d, from), i + 1, i + n)
           gone == AllUnder(d.nodes, ToSet(ids))
           place == RemovalFallback(d, t.roots)
<1>1. a = RemoveBlocks(d, s) /\ i \in Nat /\ n \in Nat
  BY DEF Perform, IsStep
<1>2. IndexOk(d, from, i, i + n) /\ a.doc = e /\ a.map = RemovedMap(DOMAIN t.nodes, place)
  BY <1>1 DEF RemoveBlocks, Applied, Failed
<1>3. Siblings(d, from, i, n)
  BY <1>1, <1>2 DEF Siblings, IndexOk, Places
<1>4. /\ Blocks(e) = Blocks(d) \ gone /\ DOMAIN t.nodes = gone
      /\ \A c \in Blocks(e) : e.nodes[c].kind = d.nodes[c].kind /\ Text(e, c) = Text(d, c)
  BY <1>3, DetachTreesView
<1>5. AffectedBy(d, s) = gone
  BY DEF AffectedBy
<1> HIDE DEF a, cut, ids, gone, place
<1>6. /\ a.map.map = "removed" /\ a.map.blocks = gone /\ a.map.fallback = place
      /\ \A b : Affects(a.map, b) <=> b \in gone
  BY <1>2, <1>4 DEF RemovedMap, Affects
<1>7. \A b : TakesBlock(d, s, b) <=> b \in gone
  BY <1>5 DEF TakesBlock
<1>8. CASE p.block \in gone
  <2> DEFINE q == IF place = NoPoint THEN p ELSE place
  <2>1. MapPoint(a.map, p, bias) = Mapped(q, TRUE)
    BY <1>6, <1>8 DEF MapPoint
  <2>2. TakesPoint(d, s, p) /\ \A k : TakesChar(d, s, p.block, k)
    BY <1>7, <1>8 DEF TakesPoint, TakesChar
  <2> HIDE DEF q
  <2>3. KeepsPlace(d, e, s, p, q, bias)
    BY <1>7, <1>8, <2>2 DEF KeepsPlace
  <2> QED
    BY <1>2, <2>1, <2>2, <2>3, FollowsWhen DEF a
<1>9. CASE p.block \notin gone
  <2>1. ~TakesBlock(d, s, p.block) /\ s.op # "RemoveInline" /\ ~Affects(a.map, p.block)
    BY <1>6, <1>7, <1>9
  <2> HIDE DEF e
  <2>2. p.block \in Blocks(d) /\ ContentOf[d.nodes[p.block].kind] = "inline"
    BY DEF Inside, IsText
  <2>3. p.block \in Blocks(e) /\ e.nodes[p.block].kind = d.nodes[p.block].kind /\ Text(e, p.block) = Text(d, p.block)
    BY <1>4, <1>9, <2>2
  <2>4. IsText(e, p.block)
    BY <2>2, <2>3, Zenon DEF IsText
  <2> QED
    BY <1>2, <2>1, <2>3, <2>4, PointStays DEF Char, a
<1> QED
  BY <1>8, <1>9

\* What is before and after a place in a sequence.
LEMMA HalvesOf ==
    ASSUME NEW S, NEW s \in Seq(S), NEW at \in Nat, at <= Len(s)
    PROVE  /\ Len(s) \in Nat /\ Len(SubSeq(s, 1, at)) = at /\ \A i \in 1 .. at : SubSeq(s, 1, at)[i] = s[i]
           /\ Len(SubSeq(s, at + 1, Len(s))) = Len(s) - at
           /\ \A i \in 1 .. Len(s) - at : SubSeq(s, at + 1, Len(s))[i] = s[at + i]
<1> DEFINE none == 0
           n == Len(s) - at
<1>1. none \in Nat /\ none + at <= Len(s) /\ Len(s) \in Nat /\ n \in Nat /\ at + n = Len(s)
  BY LenProperties
<1>2. none + 1 = 1 /\ none + at = at /\ \A i \in 1 .. at : none + i = i
  OBVIOUS
<1> HIDE DEF none, n
<1>3. /\ Len(SubSeq(s, none + 1, none + at)) = at
      /\ \A i \in 1 .. at : SubSeq(s, none + 1, none + at)[i] = s[none + i]
  BY <1>1, PartOf
<1>4. /\ Len(SubSeq(s, at + 1, at + n)) = n
      /\ \A i \in 1 .. n : SubSeq(s, at + 1, at + n)[i] = s[at + i]
  BY <1>1, PartOf
<1>5. Len(SubSeq(s, 1, at)) = at /\ \A i \in 1 .. at : SubSeq(s, 1, at)[i] = s[i]
  BY <1>2, <1>3
<1>6. SubSeq(s, at + 1, at + n) = SubSeq(s, at + 1, Len(s))
  BY <1>1
<1>7. n = Len(s) - at
  BY DEF n
<1> QED
  BY <1>1, <1>4, <1>5, <1>6, <1>7, Zenon

\* A split takes what follows it to the new block; a point at the split goes
\* with what it leans on.
LEMMA SplitPoints ==
    ASSUME NEW d, WellFormed(d), NEW s, s.op = "Split", IsStep(s), Perform(d, s).ok,
           NEW p, Inside(d, p), NEW bias \in {"before", "after"}
    PROVE  PointFollows(d, s, p, bias)
<1> DEFINE a == Perform(d, s)
           b == s.block
           at == s.offset
           new == s.new
           old == Text(d, b)
           e == SplitInto(d, b, at, new, s.kind, s.attr)
           front == SubSeq(old, 1, at)
           tail == SubSeq(old, at + 1, Len(old))
<1>1. a = Split(d, s) /\ at \in Nat /\ new # Root
  BY DEF Perform, IsStep
<1>2. /\ IsText(d, b) /\ at <= Len(old) /\ ContentOf[s.kind] = "inline"
      /\ TreesOk(d, Parent(d, b), TextTree(new, s.kind, s.attr, <<>>))
      /\ a.doc = e /\ a.map = SplitMap(b, at, new)
  BY <1>1 DEF Split, Applied, Failed, SplitInto
<1>3. CanSplit(d, b, at, new, s.kind)
  <2> DEFINE t == TextTree(new, s.kind, s.attr, <<>>)
  <2>1. t = [roots |-> <<new>>, nodes |-> [x \in {new} |->
               [kind |-> s.kind, attr |-> s.attr, parent |-> Root, text |-> <<>>, kids |-> <<>>]]]
    BY DEF TextTree, Trees
  <2> HIDE DEF t
  <2>2. ToSet(t.roots) = {new} /\ DOMAIN t.nodes = {new} /\ t.nodes[new].kind = s.kind
    BY <2>1 DEF ToSet
  <2>3. TreesOk(d, Parent(d, b), t)
    BY <1>2 DEF t
  <2>4. new \notin Blocks(d) /\ AllowsChild(d, Parent(d, b), s.kind)
    BY <2>2, <2>3 DEF TreesOk
  <2> QED
    BY <1>1, <1>2, <2>4 DEF CanSplit
<1>4. /\ Blocks(e) = Blocks(d) \cup {new} /\ e.nodes[new].kind = s.kind /\ Text(e, new) = tail
      /\ \A c \in Blocks(d) : /\ e.nodes[c].kind = d.nodes[c].kind
                              /\ Text(e, c) = IF c = b THEN front ELSE Text(d, c)
  <2>1. IsSplit(d, e, b, at, new, s.kind, s.attr)
    BY <1>3, SplitView
  <2> HIDE DEF e, a
  <2> QED
    BY <2>1 DEF IsSplit
<1>5. /\ Len(old) \in Nat /\ Len(front) = at /\ \A i \in 1 .. at : front[i] = old[i]
      /\ Len(tail) = Len(old) - at /\ \A i \in 1 .. Len(old) - at : tail[i] = old[at + i]
  <2>1. old \in Seq(ToSet(old))
    BY <1>2, LengthOfText
  <2> HIDE DEF old
  <2> QED
    BY <1>1, <1>2, <2>1, HalvesOf DEF old
<1>6. IsText(e, b) /\ Text(e, b) = front /\ IsText(e, new)
  BY <1>2, <1>4 DEF IsText
<1>7. a.map.map = "split" /\ a.map.block = b /\ a.map.offset = at /\ a.map.new = new
  BY <1>2 DEF SplitMap
<1> HIDE DEF a, e, front, tail
<1>8. ~TakesBlock(d, s, p.block) /\ ~TakesPoint(d, s, p) /\ \A k : ~TakesChar(d, s, p.block, k)
  BY DEF TakesBlock, TakesPoint, TakesChar
<1>9. CASE p.block # b
  BY <1>7, <1>9, <1>4, <1>2, <1>8, PointStays DEF Affects, Inside, IsText, Char, a
<1>10. CASE p.block = b
  <2> DEFINE o == p.offset
  <2>1. o \in 0 .. Len(old) /\ p = Point(b, o) /\ o \in Nat
    BY <1>5, <1>10 DEF Inside
  <2>2. MapPoint(a.map, p, bias) = Mapped(MapSplit(a.map, p, bias), FALSE)
    BY <1>7, <1>10 DEF MapPoint, Affects
  <2>3. CASE o > at \/ (o = at /\ bias = "after")
    <3> DEFINE q == Point(new, o - at)
    <3>1. MapSplit(a.map, p, bias) = q
      BY <1>7, <2>3 DEF MapSplit
    <3>2. q.block = new /\ q.offset = o - at /\ q = Point(q.block, q.offset)
      BY DEF Point
    <3> HIDE DEF q
    <3>3. Inside(e, q)
      BY <1>1, <1>2, <1>5, <2>1, <2>3, <1>4, <1>6, <3>2 DEF Inside
    <3>4. o < Len(old) => o - at + 1 \in 1 .. Len(tail) /\ tail[o - at + 1] = old[o + 1]
      BY <1>1, <1>2, <1>5, <2>1, <2>3
    <3>5. bias = "before" /\ o > 0 => o - at \in 1 .. Len(tail) /\ tail[o - at] = old[o]
      BY <1>1, <1>2, <1>5, <2>1, <2>3
    <3>6. KeepsPlace(d, e, s, p, q, bias)
      BY <1>4, <1>10, <3>2, <3>3, <3>4, <3>5 DEF KeepsPlace, HasChar, Char
    <3> QED
      BY <1>2, <1>8, <2>2, <3>1, <3>6, FollowsWhen DEF a
  <2>4. CASE ~(o > at \/ (o = at /\ bias = "after"))
    <3>1. MapSplit(a.map, p, bias) = p
      BY <1>7, <2>4 DEF MapSplit
    <3>2. o <= at /\ (bias = "after" => o < at)
      BY <1>1, <2>1, <2>4
    <3>3. Inside(e, p)
      BY <1>1, <1>5, <2>1, <3>2, <1>6, <1>10 DEF Inside
    <3>4. bias = "after" => o + 1 \in 1 .. Len(front) /\ front[o + 1] = old[o + 1]
      BY <1>1, <1>5, <2>1, <3>2
    <3>5. o > 0 => o \in 1 .. Len(front) /\ front[o] = old[o]
      BY <1>1, <1>5, <2>1, <3>2
    <3>6. KeepsPlace(d, e, s, p, p, bias)
      BY <1>6, <1>10, <3>3, <3>4, <3>5 DEF KeepsPlace, HasChar, Char
    <3> QED
      BY <1>2, <1>8, <2>2, <3>1, <3>6, FollowsWhen DEF a
  <2> QED
    BY <2>3, <2>4
<1> QED
  BY <1>9, <1>10

\* A join takes the points of the second block behind the text of the first.
LEMMA JoinPoints ==
    ASSUME NEW d, WellFormed(d), NEW s, s.op = "Join", Perform(d, s).ok,
           NEW p, Inside(d, p), NEW bias \in {"before", "after"}
    PROVE  PointFollows(d, s, p, bias)
<1> DEFINE a == Perform(d, s)
           b == s.block
           next == s.next
           first == Text(d, b)
           second == Text(d, next)
           text == first \o second
           at == Len(first)
           n == Len(second)
           e == JoinedInto(d, b, next)
<1>1. a = Join(d, s)
  BY DEF Perform
<1>2. CanJoin(d, b, next) /\ a.doc = e /\ a.map = JoinMap(b, next, at)
  BY <1>1 DEF Join, Applied, Failed, JoinedInto, CanJoin, Text
<1>3. /\ Blocks(e) = Blocks(d) \ {next} /\ next # b /\ next \in Blocks(d)
      /\ \A c \in Blocks(e) : /\ e.nodes[c].kind = d.nodes[c].kind
                              /\ Text(e, c) = IF c = b THEN text ELSE Text(d, c)
  <2>1. IsJoined(d, e, b, next)
    BY <1>2, JoinView
  <2> HIDE DEF e, a
  <2> QED
    BY <2>1 DEF IsJoined
<1>4. IsText(d, b) /\ IsText(d, next)
  BY <1>2 DEF CanJoin
<1>5. IsText(e, b) /\ Text(e, b) = text
  BY <1>3, <1>4 DEF IsText
<1>6. /\ at \in Nat /\ n \in Nat /\ Len(text) = at + n
      /\ \A i \in 1 .. at + n : text[i] = IF i <= at THEN first[i] ELSE second[i - at]
  <2> DEFINE S == ToSet(first) \cup ToSet(second)
  <2>1. first \in Seq(S) /\ second \in Seq(S) /\ at \in Nat /\ n \in Nat
    BY <1>4, LengthOfText, SeqMonotonic
  <2> HIDE DEF S, first, second
  <2> QED
    BY <2>1, ConcatProperties
<1>7. a.map.map = "join" /\ a.map.block = b /\ a.map.next = next /\ a.map.offset = at
  BY <1>2 DEF JoinMap
<1> HIDE DEF a, e, text, at, n
<1>8. ~TakesBlock(d, s, p.block) /\ ~TakesPoint(d, s, p) /\ \A k : ~TakesChar(d, s, p.block, k)
  BY DEF TakesBlock, TakesPoint, TakesChar
<1>9. CASE p.block # b /\ p.block # next
  BY <1>7, <1>9, <1>3, <1>2, <1>8, PointStays DEF Affects, Inside, IsText, Char, a
<1>10. CASE p.block = b
  <2> DEFINE o == p.offset
  <2>1. o \in 0 .. at /\ p = Point(b, o) /\ o \in Nat
    BY <1>6, <1>10 DEF Inside, at
  <2>2. MapPoint(a.map, p, bias) = Mapped(p, FALSE)
    BY <1>3, <1>7, <1>10 DEF MapPoint, Affects
  <2>3. Inside(e, p)
    BY <1>6, <2>1, <1>5, <1>10 DEF Inside
  <2>4. /\ o < at => o + 1 \in 1 .. Len(text) /\ text[o + 1] = first[o + 1]
        /\ o > 0 => o \in 1 .. Len(text) /\ text[o] = first[o]
    BY <1>6, <2>1
  <2>5. KeepsPlace(d, e, s, p, p, bias)
    BY <1>5, <1>10, <2>3, <2>4 DEF KeepsPlace, HasChar, Char, at
  <2> QED
    BY <1>2, <1>8, <2>2, <2>5, FollowsWhen DEF a
<1>11. CASE p.block = next
  <2> DEFINE o == p.offset
             q == Point(b, at + o)
  <2>1. o \in 0 .. n /\ o \in Nat
    BY <1>6, <1>11 DEF Inside, n
  <2>2. MapPoint(a.map, p, bias) = Mapped(q, FALSE)
    BY <1>3, <1>7, <1>11 DEF MapPoint, Affects
  <2>3. q.block = b /\ q.offset = at + o /\ q = Point(q.block, q.offset)
    BY DEF Point
  <2> HIDE DEF q
  <2>4. Inside(e, q)
    BY <1>6, <2>1, <1>5, <2>3 DEF Inside
  <2>5. o < n => at + o + 1 \in 1 .. Len(text) /\ text[at + o + 1] = second[o + 1]
    BY <1>6, <2>1
  <2>6. o > 0 => at + o \in 1 .. Len(text) /\ text[at + o] = second[o]
    BY <1>6, <2>1
  <2>7. KeepsPlace(d, e, s, p, q, bias)
    BY <1>5, <1>11, <2>3, <2>4, <2>5, <2>6 DEF KeepsPlace, HasChar, Char, n
  <2> QED
    BY <1>2, <1>8, <2>2, <2>7, FollowsWhen DEF a
<1> QED
  BY <1>9, <1>10, <1>11
\* Twins have the same places in their texts, and a step takes the same of both.
LEMMA PlacesInTwins ==
    ASSUME NEW d, NEW e, Twins(d, e)
    PROVE  /\ \A p : Inside(e, p) <=> Inside(d, p)
           /\ \A b : IsText(d, b) => Text(e, b) = Text(d, b)
           /\ \A b, i, ch : IsText(d, b) => (HasChar(e, b, i, ch) <=> HasChar(d, b, i, ch))
<1>1. /\ \A b \in Blocks(d) : Text(e, b) = Text(d, b)
      /\ \A b : IsText(e, b) = IsText(d, b)
  BY TwinsReadTheSame
<1>2. \A b : IsText(d, b) => Text(e, b) = Text(d, b)
  BY <1>1 DEF IsText
<1>3. \A p : Inside(e, p) <=> Inside(d, p)
  BY <1>1, <1>2 DEF Inside
<1> QED
  BY <1>2, <1>3 DEF HasChar, Char

\* A step takes the same of twins.
LEMMA TakesOfTwins ==
    ASSUME NEW d, NEW e, Twins(d, e), NEW s, IsStep(s), Perform(d, s).ok, NEW b
    PROVE  TakesBlock(e, s, b) <=> TakesBlock(d, s, b)
<1> SUFFICES ASSUME s.op = "RemoveBlocks" PROVE AffectedBy(e, s) = AffectedBy(d, s)
  BY DEF TakesBlock
<1> DEFINE p == s.parent
           K == Kids(d, p)
           ids == SubSeq(K, s.index + 1, s.index + s.count)
<1>1. /\ Kids(e, p) = K /\ WellFormed(d)
  BY TwinsReadTheSame DEF Twins
<1>2. s.index \in Nat /\ s.count \in Nat /\ IndexOk(d, p, s.index, s.index + s.count)
  BY DEF IsStep, Perform, RemoveBlocks, Failed
<1>3. K \in Seq(Blocks(d)) /\ IsInjective(K) /\ s.index + s.count <= Len(K)
  BY <1>1, <1>2 DEF WellFormed, Linked, Places, IndexOk
<1>4. ToSet(ids) \subseteq Blocks(d)
  <2>1. ToSet(ids) \subseteq ToSet(K)
    BY <1>2, <1>3, TakenOut
  <2>2. ToSet(K) \subseteq Blocks(d)
    <3> HIDE DEF K
    <3> QED
      BY <1>3, LenProperties DEF ToSet
  <2> QED
    BY <2>1, <2>2
<1> HIDE DEF ids
<1>5. AllUnder(e.nodes, ToSet(ids)) = AllUnder(d.nodes, ToSet(ids))
  BY <1>4, TwinsAreDeepAlike
<1> QED
  BY <1>1, <1>5 DEF AffectedBy, ids

\* Applying any step leaves every point where its text is: it is deleted only
\* when what is around it is, it lies in the document then, and the character
\* it leans on, the next one or the one before it, is still there (map.rs).
THEOREM PointsFollowTheText ==
    ASSUME NEW d, WellFormed(d), NEW s, IsStep(s), StepApply(d, s).ok,
           NEW p, Inside(d, p), NEW bias \in {"before", "after"}
    PROVE  LET a == StepApply(d, s)
               m == MapPoint(a.map, p, bias)
           IN  (m.deleted <=> TakesPoint(d, s, p)) /\ KeepsPlace(d, a.doc, s, p, m.point, bias)
<1> DEFINE before == RecordBefore(d, s)
           result == Perform(before, s)
           a == StepApply(d, s)
           m == MapPoint(a.map, p, bias)
           q == m.point
<1>1. Twins(d, before) /\ result.ok /\ a.map = result.map /\ Twins(result.doc, a.doc)
  BY StepApplyView
<1> HIDE DEF a
<1>2. WellFormed(before) /\ Inside(before, p)
  BY <1>1, PlacesInTwins DEF Twins
<1> HIDE DEF before
<1>3. PointFollows(before, s, p, bias)
  <2>1. s.op \in {"InsertInline", "RemoveInline", "AddMark", "RemoveMark", "RestoreMarks", "SetBlock",
                  "Split", "Join", "InsertBlocks", "RemoveBlocks", "MoveBlocks"}
    BY DEF IsStep
  <2>2. Perform(before, s).ok
    BY <1>1
  <2> QED
    BY <1>2, <2>1, <2>2, InsertInlinePoints, RemoveInlinePoints, MarkPoints, SetBlockPoints, SplitPoints,
       JoinPoints, InsertBlocksPoints, RemoveBlocksPoints, MoveBlocksPoints
<1>4. (m.deleted <=> TakesPoint(before, s, p)) /\ KeepsPlace(before, result.doc, s, p, q, bias)
  BY <1>1, <1>3, Zenon DEF PointFollows
<1>5. \A b : TakesBlock(before, s, b) <=> TakesBlock(d, s, b)
  BY <1>1, TwinsAreEqual, TakesOfTwins
<1>6. /\ TakesPoint(before, s, p) <=> TakesPoint(d, s, p)
      /\ \A b, i : TakesChar(before, s, b, i) <=> TakesChar(d, s, b, i)
  BY <1>5 DEF TakesPoint, TakesChar
<1> HIDE DEF result, m, q
<1>7. IsText(d, p.block) /\ Text(before, p.block) = Text(d, p.block)
  BY <1>1, PlacesInTwins DEF Inside
<1>8. KeepsPlace(d, a.doc, s, p, q, bias)
  BY <1>1, <1>4, <1>5, PlacesInTwins, <1>6, <1>7 DEF KeepsPlace, Inside, TakesChar, Char
<1> QED
  BY <1>4, <1>6, <1>8 DEF m, q, a
\* A point through the maps of a run, one after the other (MapThrough).
IsCarried(pts, docs, steps, n, bias) ==
    \A i \in 1 .. n : pts[i] = MapPoint(StepApply(docs[i - 1], steps[i]).map, pts[i - 1], bias).point

\* None of a run's steps takes the block the point is in, or the character it
\* leans on.
BlockIsSpared(pts, docs, steps, n) ==
    \A i \in 1 .. n : ~TakesBlock(docs[i - 1], steps[i], pts[i - 1].block)
NextIsSpared(pts, docs, steps, n) ==
    \A i \in 1 .. n : ~TakesChar(docs[i - 1], steps[i], pts[i - 1].block, pts[i - 1].offset + 1)
LastIsSpared(pts, docs, steps, n) ==
    \A i \in 1 .. n : ~TakesChar(docs[i - 1], steps[i], pts[i - 1].block, pts[i - 1].offset)

\* Through any number of steps a point stays in the document as long as its
\* block does, and next to the character it leans on as long as that does:
\* what makes a mapped selection valid, and keeps a composition on its text.
THEOREM PointsFollowThroughRuns ==
    ASSUME NEW n \in Nat, NEW docs, NEW steps, IsRun(docs, steps, n), NEW bias \in {"before", "after"},
           NEW pts, Inside(docs[0], pts[0]), IsCarried(pts, docs, steps, n, bias),
           BlockIsSpared(pts, docs, steps, n)
    PROVE  LET b == pts[0].block
               o == pts[0].offset
           IN  /\ \A i \in 0 .. n : Inside(docs[i], pts[i])
               /\ bias = "after" /\ o < Len(Text(docs[0], b)) /\ NextIsSpared(pts, docs, steps, n) =>
                     HasChar(docs[n], pts[n].block, pts[n].offset + 1, Char(docs[0], b, o + 1))
               /\ bias = "before" /\ o > 0 /\ LastIsSpared(pts, docs, steps, n) =>
                     HasChar(docs[n], pts[n].block, pts[n].offset, Char(docs[0], b, o))
<1> DEFINE b == pts[0].block
           o == pts[0].offset
           KeepsNext(i) == HasChar(docs[i], pts[i].block, pts[i].offset + 1, Char(docs[0], b, o + 1))
           KeepsLast(i) == HasChar(docs[i], pts[i].block, pts[i].offset, Char(docs[0], b, o))
           goNext == bias = "after" /\ o < Len(Text(docs[0], b)) /\ NextIsSpared(pts, docs, steps, n)
           goLast == bias = "before" /\ o > 0 /\ LastIsSpared(pts, docs, steps, n)
           S == {k \in Nat : k <= n => Inside(docs[k], pts[k]) /\ (goNext => KeepsNext(k)) /\ (goLast => KeepsLast(k))}
<1>1. \A i \in 0 .. n : WellFormed(docs[i])
  BY RunsAreWellFormed
<1>2. ASSUME NEW k \in 0 .. n, Inside(docs[k], pts[k])
      PROVE  pts[k].offset \in Nat /\ Len(Text(docs[k], pts[k].block)) \in Nat
  BY <1>1, <1>2, LengthOfText DEF Inside
<1>3. 0 \in S
  BY <1>2 DEF Inside, HasChar
<1>4. ASSUME NEW k \in Nat, k \in S PROVE k + 1 \in S
  <2> SUFFICES ASSUME k + 1 <= n
               PROVE  Inside(docs[k + 1], pts[k + 1]) /\ (goNext => KeepsNext(k + 1)) /\ (goLast => KeepsLast(k + 1))
    OBVIOUS
  <2> DEFINE d == docs[k]
             s == steps[k + 1]
             a == StepApply(d, s)
             p == pts[k]
             q == pts[k + 1]
  <2>1. k \in 0 .. n /\ k + 1 \in 1 .. n /\ (k + 1) - 1 = k
    OBVIOUS
  <2>2. Inside(d, p) /\ (goNext => KeepsNext(k)) /\ (goLast => KeepsLast(k))
    BY <1>4, <2>1
  <2>3. WellFormed(d)
    BY <1>1, <2>1
  <2>4. IsStep(s) /\ a.ok /\ docs[k + 1] = a.doc
    BY <2>1 DEF IsRun
  <2>5. q = MapPoint(a.map, p, bias).point
    BY <2>1 DEF IsCarried
  <2>6. KeepsPlace(d, a.doc, s, p, MapPoint(a.map, p, bias).point, bias)
    <3> HIDE DEF d, s, p
    <3> QED
      BY <2>2, <2>3, <2>4, PointsFollowTheText
  <2>7. /\ ~TakesBlock(d, s, p.block)
        /\ goNext => ~TakesChar(d, s, p.block, p.offset + 1)
        /\ goLast => ~TakesChar(d, s, p.block, p.offset)
    BY <2>1 DEF BlockIsSpared, NextIsSpared, LastIsSpared
  <2> HIDE DEF a, q
  <2>8. Inside(docs[k + 1], q)
    BY <2>4, <2>5, <2>6, <2>7 DEF KeepsPlace
  <2>9. ASSUME goNext PROVE KeepsNext(k + 1)
    BY <2>2, <2>9, <1>2, <2>1, <2>4, <2>5, <2>6, <2>7 DEF HasChar, KeepsPlace, q
  <2>10. ASSUME goLast PROVE KeepsLast(k + 1)
    BY <2>2, <2>10, <1>2, <2>1, <2>4, <2>5, <2>6, <2>7 DEF HasChar, KeepsPlace, q
  <2> QED
    BY <2>8, <2>9, <2>10 DEF q
<1>5. Nat \subseteq S
  <2> HIDE DEF S
  <2> QED
    BY <1>3, <1>4, NaturalSet
<1>6. \A k \in 0 .. n : Inside(docs[k], pts[k]) /\ (goNext => KeepsNext(k)) /\ (goLast => KeepsLast(k))
  BY <1>5
<1>7. n \in 0 .. n
  OBVIOUS
<1> QED
  BY <1>6, <1>7

AmongNext(seq, S, at, n) == IF seq[n] \in S THEN Append(at, seq[n]) ELSE at
AmongBody(seq, S, f) ==
    [n \in 0 .. Len(seq) |-> IF n = 0 THEN <<>> ELSE AmongNext(seq, S, f[n - 1], n)]
AmongAt(seq, S) == CHOOSE f : f = AmongBody(seq, S, f)

\* Among, one element after another.
LEMMA AmongUnfolds ==
    ASSUME NEW seq, NEW S, Len(seq) \in Nat
    PROVE  /\ Among(seq, S) = AmongAt(seq, S)[Len(seq)]
           /\ AmongAt(seq, S)[0] = <<>>
           /\ \A n \in 0 .. Len(seq) - 1 :
                 AmongAt(seq, S)[n + 1] = AmongNext(seq, S, AmongAt(seq, S)[n], n + 1)
<1> DEFINE len == Len(seq)
           Upto(m, f) == [n \in 0 .. m |-> IF n = 0 THEN <<>> ELSE AmongNext(seq, S, f[n - 1], n)]
           Found == {m \in Nat : \E f : f = Upto(m, f)}
<1>1. 0 \in Found
  <2> DEFINE f == [n \in 0 .. 0 |-> <<>>]
  <2>1. f = Upto(0, f)
    OBVIOUS
  <2> HIDE DEF f, Upto
  <2> QED
    BY <2>1
<1>2. ASSUME NEW m \in Nat, m \in Found PROVE m + 1 \in Found
  <2>1. PICK f : f = Upto(m, f)
    BY <1>2
  <2> DEFINE g == [n \in 0 .. m + 1 |-> IF n = m + 1 THEN AmongNext(seq, S, f[m], n) ELSE f[n]]
  <2>2. ASSUME NEW n \in 0 .. m + 1
        PROVE  g[n] = IF n = 0 THEN <<>> ELSE AmongNext(seq, S, g[n - 1], n)
    <3>1. CASE n = m + 1
      <4>1. n # 0 /\ n - 1 = m /\ m \in 0 .. m + 1 /\ m # m + 1
        BY <3>1
      <4>2. g[m] = f[m]
        BY <4>1
      <4>3. g[n] = AmongNext(seq, S, f[m], n)
        BY <3>1
      <4> HIDE DEF g
      <4> QED
        BY <4>1, <4>2, <4>3
    <3>2. CASE n # m + 1
      <4>1. n \in 0 .. m
        BY <3>2
      <4>2. g[n] = f[n]
        BY <3>2
      <4>3. f[n] = IF n = 0 THEN <<>> ELSE AmongNext(seq, S, f[n - 1], n)
        <5>1. Upto(m, f)[n] = IF n = 0 THEN <<>> ELSE AmongNext(seq, S, f[n - 1], n)
          BY <4>1
        <5> HIDE DEF Upto
        <5> QED
          BY <2>1, <5>1, Zenon
      <4>4. n # 0 => g[n - 1] = f[n - 1]
        BY <4>1
      <4> HIDE DEF g
      <4> QED
        BY <4>2, <4>3, <4>4
    <3> QED
      BY <3>1, <3>2
  <2>3. g = Upto(m + 1, g)
    <3>1. g = [n \in 0 .. m + 1 |-> g[n]]
      OBVIOUS
    <3>2. Upto(m + 1, g) = [n \in 0 .. m + 1 |-> IF n = 0 THEN <<>> ELSE AmongNext(seq, S, g[n - 1], n)]
      OBVIOUS
    <3> HIDE DEF g, Upto
    <3> QED
      BY <2>2, <3>1, <3>2
  <2> HIDE DEF g, Upto
  <2> QED
    BY <2>3
<1>3. len \in Found
  <2> HIDE DEF Found
  <2> QED
    BY <1>1, <1>2, NaturalSet
<1>4. \E f : f = AmongBody(seq, S, f)
  <2>1. \E f : f = Upto(len, f)
    <3> HIDE DEF Upto
    <3> QED
      BY <1>3
  <2>2. \A f : Upto(len, f) = AmongBody(seq, S, f)
    BY DEF AmongBody
  <2> HIDE DEF Upto
  <2> QED
    BY <2>1, <2>2
<1>5. AmongAt(seq, S) = AmongBody(seq, S, AmongAt(seq, S))
  BY <1>4 DEF AmongAt
<1>6. \A n \in 0 .. len : AmongAt(seq, S)[n] =
         IF n = 0 THEN <<>> ELSE AmongNext(seq, S, AmongAt(seq, S)[n - 1], n)
  <2> DEFINE f == AmongAt(seq, S)
  <2> HIDE DEF f
  <2>1. f = AmongBody(seq, S, f)
    BY <1>5 DEF f
  <2>2. \A n \in 0 .. len : AmongBody(seq, S, f)[n] = IF n = 0 THEN <<>> ELSE AmongNext(seq, S, f[n - 1], n)
    BY DEF AmongBody
  <2> QED
    BY <2>1, <2>2, Zenon DEF f
<1>7. Among(seq, S) = AmongAt(seq, S)[Len(seq)]
  BY DEF Among, AmongAt, AmongBody, AmongNext
<1>8. AmongAt(seq, S)[0] = <<>>
  BY <1>6
<1> HIDE DEF Upto, Found
<1>9. ASSUME NEW n \in 0 .. len - 1
      PROVE  AmongAt(seq, S)[n + 1] = AmongNext(seq, S, AmongAt(seq, S)[n], n + 1)
  BY <1>6
<1> QED
  BY <1>7, <1>8, <1>9

\* What is kept of a sequence: its elements in S, none twice if none was.
LEMMA AmongView ==
    ASSUME NEW T, NEW seq \in Seq(T), NEW S
    PROVE  /\ Among(seq, S) \in Seq(T) /\ Among(seq, S) \in Seq(S)
           /\ ToSet(Among(seq, S)) = ToSet(seq) \cap S
           /\ IsInjective(seq) => IsInjective(Among(seq, S))
           /\ Len(Among(seq, S)) <= Len(seq)
<1> DEFINE A(n) == AmongAt(seq, S)[n]
           Upto(n) == {seq[i] : i \in 1 .. n}
           Good(n) == /\ A(n) \in Seq(T \cap S) /\ ToSet(A(n)) = Upto(n) \cap S
                      /\ IsInjective(seq) => IsInjective(A(n))
                      /\ Len(A(n)) <= n
           N == {n \in Nat : n <= Len(seq) => Good(n)}
<1>1. Len(seq) \in Nat /\ DOMAIN seq = 1 .. Len(seq)
  OBVIOUS
<1>2. /\ Among(seq, S) = A(Len(seq)) /\ A(0) = <<>>
      /\ \A n \in 0 .. Len(seq) - 1 : A(n + 1) = AmongNext(seq, S, A(n), n + 1)
  BY <1>1, AmongUnfolds
<1> HIDE DEF A
<1>3. 0 \in N
  <2>1. Upto(0) = {}
    OBVIOUS
  <2>2. A(0) = <<>>
    BY <1>2
  <2>3. A(0) \in Seq(T \cap S) /\ Len(A(0)) = 0 /\ ToSet(A(0)) = {}
    <3>1. A(0) \in Seq(T \cap S)
      BY <2>2, EmptySeq
    <3>2. Len(A(0)) = 0 /\ DOMAIN A(0) = {}
      BY <2>2
    <3> QED
      BY <3>1, <3>2 DEF ToSet
  <2>4. IsInjective(A(0))
    BY <2>2 DEF IsInjective
  <2> HIDE DEF Upto
  <2> QED
    BY <2>1, <2>3, <2>4
<1>4. ASSUME NEW n \in Nat, n \in N PROVE n + 1 \in N
  <2> SUFFICES ASSUME n + 1 <= Len(seq) PROVE Good(n + 1)
    OBVIOUS
  <2>1. Good(n) /\ n \in 0 .. Len(seq) - 1 /\ n + 1 \in 1 .. Len(seq)
    BY <1>1, <1>4
  <2> DEFINE x == seq[n + 1]
  <2>2. x \in T
    BY <2>1
  <2>3. A(n + 1) = IF x \in S THEN Append(A(n), x) ELSE A(n)
    BY <1>2, <2>1 DEF AmongNext
  <2>4. Upto(n + 1) = Upto(n) \cup {x}
    BY <2>1
  <2>5. CASE x \notin S
    <3>1. Upto(n + 1) \cap S = Upto(n) \cap S
      BY <2>4, <2>5
    <3> HIDE DEF x, Upto
    <3> QED
      BY <2>1, <2>3, <2>5, <3>1
  <2>6. CASE x \in S
    <3>1. IsInjective(seq) => x \notin Upto(n)
      BY <1>1, <2>1 DEF IsInjective
    <3> DEFINE s == A(n)
               t == Append(s, x)
    <3>2. A(n + 1) = t /\ s \in Seq(T \cap S) /\ ToSet(s) = Upto(n) \cap S /\ Len(s) <= n
      BY <2>1, <2>3, <2>6
    <3>3. x \in T \cap S
      BY <2>2, <2>6
    <3>4. Upto(n + 1) \cap S = (Upto(n) \cap S) \cup {x}
      BY <2>4, <2>6
    <3>5. IsInjective(seq) => IsInjective(s)
      BY <2>1
    <3> HIDE DEF s, Upto, x
    <3>6. /\ t \in Seq(T \cap S) /\ Len(t) = Len(s) + 1 /\ t[Len(s) + 1] = x
          /\ \A i \in 1 .. Len(s) : t[i] = s[i]
      BY <3>2, <3>3
    <3>7. DOMAIN t = 1 .. Len(s) + 1 /\ DOMAIN s = 1 .. Len(s) /\ Len(s) \in Nat
      BY <3>2, <3>6
    <3>8. ToSet(t) = ToSet(s) \cup {x}
      BY <3>6, <3>7 DEF ToSet
    <3>9. IsInjective(seq) => IsInjective(t)
      BY <3>7, <3>1, <3>2, <3>5, <3>6 DEF IsInjective, ToSet
    <3>10. /\ A(n + 1) \in Seq(T \cap S) /\ ToSet(A(n + 1)) = Upto(n + 1) \cap S
           /\ IsInjective(seq) => IsInjective(A(n + 1))
      <4> HIDE DEF t
      <4> QED
        BY <3>2, <3>4, <3>6, <3>8, <3>9
    <3>11. Len(A(n + 1)) <= n + 1
      <4> HIDE DEF t
      <4> QED
        BY <3>2, <3>6, <3>7
    <3> QED
      BY <3>10, <3>11
  <2> QED
    BY <2>5, <2>6
<1>5. Good(Len(seq))
  <2>1. Nat \subseteq N
    <3> HIDE DEF N
    <3> QED
      BY <1>3, <1>4, NaturalSet
  <2> QED
    BY <1>1, <2>1
<1>6. Upto(Len(seq)) = ToSet(seq)
  BY <1>1 DEF ToSet
<1> QED
  BY <1>2, <1>5, <1>6

WalkNext(kids, size, roots, at, n) == IF at.todo = <<>> THEN at
    ELSE [seen |-> Append(at.seen, Head(at.todo)), todo |-> kids[Head(at.todo)] \o Tail(at.todo)]
WalkBody(kids, size, roots, f) ==
    [n \in 0 .. size |-> IF n = 0 THEN [seen |-> <<>>, todo |-> roots] ELSE WalkNext(kids, size, roots, f[n - 1], n)]
WalkAt(kids, size, roots) == CHOOSE f : f = WalkBody(kids, size, roots, f)

\* The walk, one block after another.
LEMMA WalkUnfolds ==
    ASSUME NEW kids, NEW size, NEW roots, size \in Nat
    PROVE  /\ WalkAt(kids, size, roots)[0] = [seen |-> <<>>, todo |-> roots]
           /\ \A n \in 0 .. size - 1 :
                 WalkAt(kids, size, roots)[n + 1] = WalkNext(kids, size, roots, WalkAt(kids, size, roots)[n], n + 1)
<1> DEFINE len == size
           Upto(m, f) == [n \in 0 .. m |-> IF n = 0 THEN [seen |-> <<>>, todo |-> roots] ELSE WalkNext(kids, size, roots, f[n - 1], n)]
           Found == {m \in Nat : \E f : f = Upto(m, f)}
<1>1. 0 \in Found
  <2> DEFINE f == [n \in 0 .. 0 |-> [seen |-> <<>>, todo |-> roots]]
  <2>1. f = Upto(0, f)
    OBVIOUS
  <2> HIDE DEF f, Upto
  <2> QED
    BY <2>1
<1>2. ASSUME NEW m \in Nat, m \in Found PROVE m + 1 \in Found
  <2>1. PICK f : f = Upto(m, f)
    BY <1>2
  <2> DEFINE g == [n \in 0 .. m + 1 |-> IF n = m + 1 THEN WalkNext(kids, size, roots, f[m], n) ELSE f[n]]
  <2>2. ASSUME NEW n \in 0 .. m + 1
        PROVE  g[n] = IF n = 0 THEN [seen |-> <<>>, todo |-> roots] ELSE WalkNext(kids, size, roots, g[n - 1], n)
    <3>1. CASE n = m + 1
      <4>1. n # 0 /\ n - 1 = m /\ m \in 0 .. m + 1 /\ m # m + 1
        BY <3>1
      <4>2. g[m] = f[m]
        BY <4>1
      <4>3. g[n] = WalkNext(kids, size, roots, f[m], n)
        BY <3>1
      <4> HIDE DEF g
      <4> QED
        BY <4>1, <4>2, <4>3
    <3>2. CASE n # m + 1
      <4>1. n \in 0 .. m
        BY <3>2
      <4>2. g[n] = f[n]
        BY <3>2
      <4>3. f[n] = IF n = 0 THEN [seen |-> <<>>, todo |-> roots] ELSE WalkNext(kids, size, roots, f[n - 1], n)
        <5>1. Upto(m, f)[n] = IF n = 0 THEN [seen |-> <<>>, todo |-> roots] ELSE WalkNext(kids, size, roots, f[n - 1], n)
          BY <4>1
        <5> HIDE DEF Upto
        <5> QED
          BY <2>1, <5>1, Zenon
      <4>4. n # 0 => g[n - 1] = f[n - 1]
        BY <4>1
      <4> HIDE DEF g
      <4> QED
        BY <4>2, <4>3, <4>4
    <3> QED
      BY <3>1, <3>2
  <2>3. g = Upto(m + 1, g)
    <3>1. g = [n \in 0 .. m + 1 |-> g[n]]
      OBVIOUS
    <3>2. Upto(m + 1, g) = [n \in 0 .. m + 1 |-> IF n = 0 THEN [seen |-> <<>>, todo |-> roots] ELSE WalkNext(kids, size, roots, g[n - 1], n)]
      OBVIOUS
    <3> HIDE DEF g, Upto
    <3> QED
      BY <2>2, <3>1, <3>2
  <2> HIDE DEF g, Upto
  <2> QED
    BY <2>3
<1>3. len \in Found
  <2> HIDE DEF Found
  <2> QED
    BY <1>1, <1>2, NaturalSet
<1>4. \E f : f = WalkBody(kids, size, roots, f)
  <2>1. \E f : f = Upto(len, f)
    <3> HIDE DEF Upto
    <3> QED
      BY <1>3
  <2>2. \A f : Upto(len, f) = WalkBody(kids, size, roots, f)
    BY DEF WalkBody
  <2> HIDE DEF Upto
  <2> QED
    BY <2>1, <2>2
<1>5. WalkAt(kids, size, roots) = WalkBody(kids, size, roots, WalkAt(kids, size, roots))
  BY <1>4 DEF WalkAt
<1>6. \A n \in 0 .. len : WalkAt(kids, size, roots)[n] =
         IF n = 0 THEN [seen |-> <<>>, todo |-> roots] ELSE WalkNext(kids, size, roots, WalkAt(kids, size, roots)[n - 1], n)
  <2> DEFINE f == WalkAt(kids, size, roots)
  <2> HIDE DEF f
  <2>1. f = WalkBody(kids, size, roots, f)
    BY <1>5 DEF f
  <2>2. \A n \in 0 .. len : WalkBody(kids, size, roots, f)[n] = IF n = 0 THEN [seen |-> <<>>, todo |-> roots] ELSE WalkNext(kids, size, roots, f[n - 1], n)
    BY DEF WalkBody
  <2> QED
    BY <2>1, <2>2, Zenon DEF f
<1>8. WalkAt(kids, size, roots)[0] = [seen |-> <<>>, todo |-> roots]
  BY <1>6
<1> HIDE DEF Upto, Found
<1>9. ASSUME NEW n \in 0 .. len - 1
      PROVE  WalkAt(kids, size, roots)[n + 1] = WalkNext(kids, size, roots, WalkAt(kids, size, roots)[n], n + 1)
  BY <1>6
<1> QED
  BY <1>8, <1>9

\* Two sequences one after the other.
LEMMA ConcatOf ==
    ASSUME NEW S, NEW s \in Seq(S), NEW t \in Seq(S)
    PROVE  /\ s \o t \in Seq(S) /\ Len(s \o t) = Len(s) + Len(t)
           /\ ToSet(s \o t) = ToSet(s) \cup ToSet(t)
           /\ IsInjective(s) /\ IsInjective(t) /\ ToSet(s) \cap ToSet(t) = {} => IsInjective(s \o t)
           /\ \A i \in 1 .. Len(s) : (s \o t)[i] = s[i]
           /\ \A i \in 1 .. Len(t) : (s \o t)[Len(s) + i] = t[i]
<1> DEFINE u == s \o t
<1>1. /\ Len(s) \in Nat /\ Len(t) \in Nat /\ DOMAIN s = 1 .. Len(s) /\ DOMAIN t = 1 .. Len(t)
      /\ u \in Seq(S) /\ Len(u) = Len(s) + Len(t) /\ DOMAIN u = 1 .. Len(s) + Len(t)
      /\ \A i \in 1 .. Len(s) : u[i] = s[i]
      /\ \A i \in 1 .. Len(t) : u[Len(s) + i] = t[i]
  OBVIOUS
<1> HIDE DEF u
<1>2. \A i \in 1 .. Len(s) + Len(t) : i \in 1 .. Len(s) \/ \E j \in 1 .. Len(t) : i = Len(s) + j
  <2> SUFFICES ASSUME NEW i \in 1 .. Len(s) + Len(t), i \notin 1 .. Len(s)
               PROVE  \E j \in 1 .. Len(t) : i = Len(s) + j
    OBVIOUS
  <2>1. i - Len(s) \in 1 .. Len(t) /\ i = Len(s) + (i - Len(s))
    BY <1>1
  <2> QED
    BY <2>1
<1>3. ToSet(u) = ToSet(s) \cup ToSet(t)
  <2>1. ASSUME NEW x \in ToSet(u) PROVE x \in ToSet(s) \cup ToSet(t)
    <3>1. PICK i \in 1 .. Len(s) + Len(t) : u[i] = x
      BY <1>1 DEF ToSet
    <3>2. CASE i \in 1 .. Len(s)
      BY <1>1, <3>1, <3>2 DEF ToSet
    <3>3. CASE \E j \in 1 .. Len(t) : i = Len(s) + j
      BY <1>1, <3>1, <3>3 DEF ToSet
    <3> QED
      BY <1>2, <3>2, <3>3
  <2>2. ASSUME NEW x \in ToSet(s) PROVE x \in ToSet(u)
    <3>1. PICK i \in 1 .. Len(s) : s[i] = x
      BY <1>1 DEF ToSet
    <3>2. i \in 1 .. Len(s) + Len(t) /\ u[i] = x
      BY <1>1, <3>1
    <3> QED
      BY <1>1, <3>2 DEF ToSet
  <2>3. ASSUME NEW x \in ToSet(t) PROVE x \in ToSet(u)
    <3>1. PICK i \in 1 .. Len(t) : t[i] = x
      BY <1>1 DEF ToSet
    <3>2. Len(s) + i \in 1 .. Len(s) + Len(t) /\ u[Len(s) + i] = x
      BY <1>1, <3>1
    <3> QED
      BY <1>1, <3>2 DEF ToSet
  <2> QED
    BY <2>1, <2>2, <2>3
<1>4. ASSUME IsInjective(s), IsInjective(t), ToSet(s) \cap ToSet(t) = {} PROVE IsInjective(u)
  <2> SUFFICES ASSUME NEW i \in DOMAIN u, NEW j \in DOMAIN u, u[i] = u[j] PROVE i = j
    BY DEF IsInjective
  <2>1. \A a \in 1 .. Len(s), b \in 1 .. Len(t) : s[a] # t[b]
    BY <1>1, <1>4 DEF ToSet
  <2>2. /\ \A a, b \in 1 .. Len(s) : s[a] = s[b] => a = b
        /\ \A a, b \in 1 .. Len(t) : t[a] = t[b] => a = b
    BY <1>1, <1>4 DEF IsInjective
  <2>3. i \in 1 .. Len(s) \/ \E k \in 1 .. Len(t) : i = Len(s) + k
    BY <1>1, <1>2
  <2>4. j \in 1 .. Len(s) \/ \E k \in 1 .. Len(t) : j = Len(s) + k
    BY <1>1, <1>2
  <2> QED
    BY <1>1, <2>1, <2>2, <2>3, <2>4
<1> QED
  BY <1>1, <1>3, <1>4 DEF u

\* A sequence and one element more.
LEMMA AppendOf ==
    ASSUME NEW S, NEW s \in Seq(S), NEW x \in S
    PROVE  /\ Append(s, x) \in Seq(S) /\ Len(Append(s, x)) = Len(s) + 1
           /\ ToSet(Append(s, x)) = ToSet(s) \cup {x}
           /\ IsInjective(s) /\ x \notin ToSet(s) => IsInjective(Append(s, x))
<1> DEFINE t == <<x>>
<1>1. t \in Seq(S) /\ Len(t) = 1 /\ DOMAIN t = 1 .. 1 /\ t[1] = x /\ Append(s, x) = s \o t
  OBVIOUS
<1> HIDE DEF t
<1>2. ToSet(t) = {x} /\ IsInjective(t)
  BY <1>1 DEF ToSet, IsInjective
<1>3. /\ s \o t \in Seq(S) /\ Len(s \o t) = Len(s) + Len(t)
      /\ ToSet(s \o t) = ToSet(s) \cup ToSet(t)
      /\ IsInjective(s) /\ IsInjective(t) /\ ToSet(s) \cap ToSet(t) = {} => IsInjective(s \o t)
  BY <1>1, ConcatOf
<1>4. x \notin ToSet(s) => ToSet(s) \cap ToSet(t) = {}
  BY <1>2
<1> QED
  BY <1>1, <1>2, <1>3, <1>4

\* The first element of a sequence and the others.
LEMMA TailOf ==
    ASSUME NEW S, NEW s \in Seq(S), s # <<>>
    PROVE  /\ Head(s) \in S /\ Tail(s) \in Seq(S) /\ Len(Tail(s)) = Len(s) - 1
           /\ ToSet(s) = {Head(s)} \cup ToSet(Tail(s))
           /\ IsInjective(s) => IsInjective(Tail(s)) /\ Head(s) \notin ToSet(Tail(s))
<1> DEFINE t == Tail(s)
<1>1. /\ Len(s) \in Nat \ {0} /\ DOMAIN s = 1 .. Len(s) /\ Head(s) = s[1] /\ s[1] \in S
      /\ t \in Seq(S) /\ Len(t) = Len(s) - 1 /\ DOMAIN t = 1 .. Len(s) - 1
      /\ \A i \in 1 .. Len(s) - 1 : t[i] = s[i + 1]
  OBVIOUS
<1> HIDE DEF t
<1>2. \A i \in 1 .. Len(s) : i = 1 \/ \E j \in 1 .. Len(s) - 1 : i = j + 1
  BY <1>1
<1>3. 1 \in DOMAIN s /\ \A j \in DOMAIN t : j + 1 \in DOMAIN s /\ j + 1 # 1 /\ t[j] = s[j + 1]
  BY <1>1
<1>4. ToSet(s) = {s[1]} \cup ToSet(t)
  <2>1. ASSUME NEW x \in ToSet(s) PROVE x \in {s[1]} \cup ToSet(t)
    <3>1. PICK i \in 1 .. Len(s) : s[i] = x
      BY <1>1 DEF ToSet
    <3>2. CASE i = 1
      BY <3>1, <3>2
    <3>3. CASE \E j \in 1 .. Len(s) - 1 : i = j + 1
      <4>1. PICK j \in 1 .. Len(s) - 1 : i = j + 1
        BY <3>3
      <4>2. j \in DOMAIN t /\ t[j] = x
        BY <1>1, <3>1, <4>1
      <4> QED
        BY <4>2 DEF ToSet
    <3> QED
      BY <1>2, <3>2, <3>3
  <2>2. ASSUME NEW x \in ToSet(t) PROVE x \in ToSet(s)
    BY <1>3 DEF ToSet
  <2>3. s[1] \in ToSet(s)
    BY <1>3 DEF ToSet
  <2> QED
    BY <2>1, <2>2, <2>3
<1>5. ASSUME IsInjective(s) PROVE IsInjective(t) /\ s[1] \notin ToSet(t)
  BY <1>1, <1>3, <1>5 DEF IsInjective, ToSet
<1> QED
  BY <1>1, <1>4, <1>5 DEF t

\* The walk depends on the lists of children only.
LEMMA WalkIs ==
    ASSUME NEW nodes, NEW roots
    PROVE  Walk(nodes, roots) =
             WalkAt([b \in DOMAIN nodes |-> nodes[b].kids], Cardinality(DOMAIN nodes), roots)
                   [Cardinality(DOMAIN nodes)].seen
  BY DEF Walk, WalkAt, WalkBody, WalkNext

\* Blocks nested as in a document or a slice: no block is in two lists, and
\* what is below the roots does not lead back to them.
Grove(nodes, roots) ==
    /\ IsFiniteSet(DOMAIN nodes)
    /\ roots \in Seq(DOMAIN nodes) /\ IsInjective(roots)
    /\ \A b \in DOMAIN nodes : nodes[b].kids \in Seq(DOMAIN nodes) /\ IsInjective(nodes[b].kids)
    /\ \A b, c \in DOMAIN nodes : b # c => KidsOf(nodes, b) \cap KidsOf(nodes, c) = {}
    /\ \A b \in AllUnder(nodes, ToSet(roots)) : KidsOf(nodes, b) \cap ToSet(roots) = {}

\* In a list of blocks each is a root or comes after one that it is a child of.
ParentsFirst(nodes, roots, list) ==
    \A j \in 1 .. Len(list) :
       list[j] \in ToSet(roots) \/ \E i \in 1 .. j - 1 : list[j] \in KidsOf(nodes, list[i])

\* The walk meets every block below the roots once, and nothing else, parents
\* before their children.
LEMMA WalkParts ==
    ASSUME NEW nodes, NEW roots, Grove(nodes, roots)
    PROVE  /\ Walk(nodes, roots) \in Seq(DOMAIN nodes) /\ IsInjective(Walk(nodes, roots))
           /\ ToSet(Walk(nodes, roots)) = AllUnder(nodes, ToSet(roots))
           /\ ParentsFirst(nodes, roots, Walk(nodes, roots))
<1> DEFINE D == DOMAIN nodes
           R == ToSet(roots)
           A == AllUnder(nodes, R)
           C == Cardinality(D)
           kids == [b \in D |-> nodes[b].kids]
           seen(n) == WalkAt(kids, C, roots)[n].seen
           todo(n) == WalkAt(kids, C, roots)[n].todo
           Met(n) == ToSet(seen(n)) \cup ToSet(todo(n))
           Lists(n) == /\ seen(n) \in Seq(D) /\ IsInjective(seen(n))
                       /\ todo(n) \in Seq(D) /\ IsInjective(todo(n))
                       /\ ToSet(seen(n)) \cap ToSet(todo(n)) = {}
           Whole(n) == /\ Met(n) \subseteq A /\ R \subseteq Met(n)
                       /\ \A b \in ToSet(seen(n)) : KidsOf(nodes, b) \subseteq Met(n)
                       /\ \A b \in Met(n) : b \in R \/ \E p \in ToSet(seen(n)) : b \in KidsOf(nodes, p)
           Good(n) == Lists(n) /\ Whole(n) /\ ParentsFirst(nodes, roots, seen(n)) /\ (Len(seen(n)) = n \/ todo(n) = <<>>)
           N == {n \in Nat : n <= C => Good(n)}
<1>1. /\ IsFiniteSet(D) /\ C \in Nat /\ roots \in Seq(D) /\ IsInjective(roots) /\ R \subseteq D
      /\ KidsAreNodes(nodes)
      /\ \A b \in D : nodes[b].kids \in Seq(D) /\ IsInjective(nodes[b].kids) /\ kids[b] = nodes[b].kids
  BY MemberOf, FS_CardinalityType DEF Grove, KidsAreNodes, KidsOf
<1>2. /\ R \subseteq A /\ A \subseteq D /\ Closed(nodes, A)
      /\ \A U : R \subseteq U /\ Closed(nodes, U) => A \subseteq U
  BY <1>1, AllUnderLeast
<1>3. /\ \A b \in A : KidsOf(nodes, b) \cap R = {}
      /\ \A b, c \in D : b # c => KidsOf(nodes, b) \cap KidsOf(nodes, c) = {}
  BY DEF Grove
<1>4. /\ Walk(nodes, roots) = seen(C) /\ seen(0) = <<>> /\ todo(0) = roots
      /\ \A n \in 0 .. C - 1 :
            /\ todo(n) = <<>> => seen(n + 1) = seen(n) /\ todo(n + 1) = todo(n)
            /\ todo(n) # <<>> => /\ seen(n + 1) = Append(seen(n), Head(todo(n)))
                                /\ todo(n + 1) = kids[Head(todo(n))] \o Tail(todo(n))
  <2>1. /\ WalkAt(kids, C, roots)[0] = [seen |-> <<>>, todo |-> roots]
        /\ \A n \in 0 .. C - 1 :
              WalkAt(kids, C, roots)[n + 1] = WalkNext(kids, C, roots, WalkAt(kids, C, roots)[n], n + 1)
    BY <1>1, WalkUnfolds
  <2>2. seen(0) = <<>> /\ todo(0) = roots
    BY <2>1
  <2>3. ASSUME NEW n \in 0 .. C - 1
        PROVE  /\ todo(n) = <<>> => seen(n + 1) = seen(n) /\ todo(n + 1) = todo(n)
               /\ todo(n) # <<>> => /\ seen(n + 1) = Append(seen(n), Head(todo(n)))
                                   /\ todo(n + 1) = kids[Head(todo(n))] \o Tail(todo(n))
    <3> DEFINE w == WalkAt(kids, C, roots)[n]
    <3>1. WalkAt(kids, C, roots)[n + 1] = WalkNext(kids, C, roots, w, n + 1)
      BY <2>1
    <3> HIDE DEF w
    <3>2. /\ w.todo = <<>> => WalkNext(kids, C, roots, w, n + 1) = w
          /\ w.todo # <<>> => WalkNext(kids, C, roots, w, n + 1) =
                [seen |-> Append(w.seen, Head(w.todo)), todo |-> kids[Head(w.todo)] \o Tail(w.todo)]
      BY DEF WalkNext
    <3> HIDE DEF kids
    <3>3. /\ w.todo = <<>> => seen(n + 1) = w.seen /\ todo(n + 1) = w.todo
          /\ w.todo # <<>> => /\ seen(n + 1) = Append(w.seen, Head(w.todo))
                             /\ todo(n + 1) = kids[Head(w.todo)] \o Tail(w.todo)
      <4> DEFINE v == WalkNext(kids, C, roots, w, n + 1)
      <4>1. seen(n + 1) = v.seen /\ todo(n + 1) = v.todo
        BY <3>1
      <4> HIDE DEF seen, todo, v
      <4>2. /\ w.todo = <<>> => v = w
            /\ w.todo # <<>> => v = [seen |-> Append(w.seen, Head(w.todo)), todo |-> kids[Head(w.todo)] \o Tail(w.todo)]
        BY <3>2 DEF v
      <4>3. ASSUME NEW x, NEW y, v = [seen |-> x, todo |-> y] PROVE v.seen = x /\ v.todo = y
        BY <4>3
      <4> QED
        BY <4>1, <4>2, <4>3
    <3>4. seen(n) = w.seen /\ todo(n) = w.todo
      BY DEF w
    <3> HIDE DEF seen, todo
    <3> QED
      BY <3>3, <3>4
  <2> HIDE DEF seen, todo, kids
  <2>4. Walk(nodes, roots) = seen(C)
    BY WalkIs DEF seen, kids
  <2> QED
    BY <2>2, <2>3, <2>4
<1> HIDE DEF seen, todo, A, kids
<1>5. 0 \in N
  <2>1. seen(0) \in Seq(D) /\ DOMAIN seen(0) = {} /\ Len(seen(0)) = 0
    <3>1. seen(0) = <<>>
      BY <1>4
    <3>2. seen(0) \in Seq(D)
      BY <3>1, EmptySeq
    <3>3. DOMAIN seen(0) = {} /\ Len(seen(0)) = 0
      BY <3>1
    <3> QED
      BY <3>2, <3>3
  <2>2. ToSet(seen(0)) = {} /\ IsInjective(seen(0)) /\ todo(0) = roots
    BY <1>4, <2>1 DEF ToSet, IsInjective
  <2>3. ParentsFirst(nodes, roots, seen(0))
    BY <2>1 DEF ParentsFirst
  <2> QED
    BY <1>1, <1>2, <2>1, <2>2, <2>3
<1>6. ASSUME NEW n \in Nat, n \in N PROVE n + 1 \in N
  <2> SUFFICES ASSUME n + 1 <= C PROVE Good(n + 1)
    OBVIOUS
  <2>1. Good(n) /\ n \in 0 .. C - 1
    BY <1>1, <1>6
  <2>2. CASE todo(n) = <<>>
    BY <1>4, <2>1, <2>2
  <2>3. CASE todo(n) # <<>>
    <3> DEFINE h == Head(todo(n))
               rest == Tail(todo(n))
               below == kids[h]
    <3>1. /\ h \in D /\ rest \in Seq(D) /\ ToSet(todo(n)) = {h} \cup ToSet(rest)
          /\ IsInjective(rest) /\ h \notin ToSet(rest)
      BY <2>1, <2>3, TailOf
    <3>2. seen(n + 1) = Append(seen(n), h) /\ todo(n + 1) = below \o rest
      BY <1>4, <2>1, <2>3
    <3>3. below \in Seq(D) /\ IsInjective(below) /\ ToSet(below) = KidsOf(nodes, h)
      BY <1>1, <3>1 DEF KidsOf
    <3> HIDE DEF h, rest, below
    <3>4. h \notin ToSet(seen(n)) /\ h \in Met(n) /\ h \in A
      BY <2>1, <3>1
    <3>5. ToSet(below) \cap Met(n) = {}
      <4> SUFFICES ASSUME NEW c \in KidsOf(nodes, h), c \in Met(n) PROVE FALSE
        BY <3>3
      <4>1. c \notin R
        BY <1>3, <3>4
      <4>2. PICK p \in ToSet(seen(n)) : c \in KidsOf(nodes, p)
        BY <2>1, <4>1
      <4>3. p \in D /\ p # h
        BY <1>2, <2>1, <3>4
      <4> QED
        BY <1>3, <3>1, <4>2, <4>3
    <3>15. seen(n) \in Seq(D) /\ IsInjective(seen(n))
      BY <2>1
    <3>6. /\ seen(n + 1) \in Seq(D) /\ Len(seen(n + 1)) = Len(seen(n)) + 1
          /\ ToSet(seen(n + 1)) = ToSet(seen(n)) \cup {h} /\ IsInjective(seen(n + 1))
      <4> DEFINE s == seen(n)
      <4>1. s \in Seq(D) /\ IsInjective(s) /\ h \in D /\ h \notin ToSet(s)
        BY <3>1, <3>4, <3>15
      <4> HIDE DEF s
      <4>2. /\ Append(s, h) \in Seq(D) /\ Len(Append(s, h)) = Len(s) + 1
            /\ ToSet(Append(s, h)) = ToSet(s) \cup {h} /\ IsInjective(Append(s, h))
        BY <4>1, AppendOf
      <4>3. seen(n + 1) = Append(s, h) /\ s = seen(n)
        BY <3>2 DEF s
      <4> QED
        BY <4>2, <4>3
    <3>7. ToSet(below) \cap ToSet(rest) = {}
      BY <3>1, <3>5
    <3>8. /\ todo(n + 1) \in Seq(D) /\ IsInjective(todo(n + 1))
          /\ ToSet(todo(n + 1)) = ToSet(below) \cup ToSet(rest)
      <4>1. /\ below \o rest \in Seq(D) /\ ToSet(below \o rest) = ToSet(below) \cup ToSet(rest)
            /\ IsInjective(below \o rest)
        BY <3>1, <3>3, <3>7, ConcatOf
      <4> QED
        BY <3>2, <4>1
    <3>9. Lists(n + 1)
      BY <2>1, <3>1, <3>4, <3>5, <3>6, <3>8
    <3>10. Met(n + 1) = Met(n) \cup ToSet(below)
      BY <3>1, <3>6, <3>8
    <3>11. ToSet(below) \subseteq A
      BY <1>2, <3>3, <3>4 DEF Closed
    <3>12. Whole(n + 1)
      <4> HIDE DEF Met
      <4>1. Met(n + 1) \subseteq A /\ R \subseteq Met(n + 1)
        BY <2>1, <3>10, <3>11
      <4>2. \A b \in ToSet(seen(n + 1)) : KidsOf(nodes, b) \subseteq Met(n + 1)
        BY <2>1, <3>3, <3>6, <3>10
      <4>3. \A b \in Met(n + 1) : b \in R \/ \E p \in ToSet(seen(n + 1)) : b \in KidsOf(nodes, p)
        BY <2>1, <3>3, <3>6, <3>10
      <4> QED
        BY <4>1, <4>2, <4>3
    <3>13. Len(seen(n + 1)) = n + 1
      BY <2>1, <2>3, <3>6
    <3>14. ParentsFirst(nodes, roots, seen(n + 1))
      <4> DEFINE s == seen(n)
      <4>1. /\ s \in Seq(D) /\ Len(s) \in Nat /\ ParentsFirst(nodes, roots, s)
            /\ h \in R \/ \E p \in ToSet(s) : h \in KidsOf(nodes, p)
        BY <2>1, <3>4, <3>15
      <4>2. seen(n + 1) = Append(s, h)
        BY <3>2
      <4> HIDE DEF s
      <4>3. /\ Len(Append(s, h)) = Len(s) + 1 /\ Append(s, h)[Len(s) + 1] = h
            /\ \A i \in 1 .. Len(s) : Append(s, h)[i] = s[i]
        BY <4>1
      <4>4. h \in R \/ \E i \in 1 .. Len(s) : h \in KidsOf(nodes, s[i])
        BY <4>1 DEF ToSet
      <4> DEFINE t == Append(s, h)
      <4> HIDE DEF t
      <4>5. /\ Len(t) = Len(s) + 1 /\ t[Len(s) + 1] = h
            /\ \A i \in 1 .. Len(s) : t[i] = s[i]
        BY <4>3 DEF t
      <4>6. ParentsFirst(nodes, roots, t)
        <5> SUFFICES ASSUME NEW j \in 1 .. Len(s) + 1
                     PROVE  t[j] \in R \/ \E i \in 1 .. j - 1 : t[j] \in KidsOf(nodes, t[i])
          BY <4>5 DEF ParentsFirst
        <5>1. CASE j = Len(s) + 1
          BY <4>1, <5>1, <4>4, <4>5
        <5>2. CASE j # Len(s) + 1
          BY <4>1, <5>2, <4>5 DEF ParentsFirst
        <5> QED
          BY <5>1, <5>2
      <4> QED
        BY <4>2, <4>6 DEF t
    <3> QED
      BY <3>9, <3>12, <3>13, <3>14
  <2> QED
    BY <2>2, <2>3
<1>7. Good(C)
  <2>1. Nat \subseteq N
    <3> HIDE DEF N
    <3> QED
      BY <1>5, <1>6, NaturalSet
  <2> QED
    BY <1>1, <2>1
<1>8. todo(C) = <<>>
  <2> SUFFICES ASSUME todo(C) # <<>> PROVE FALSE
    OBVIOUS
  <2>1. Len(seen(C)) = C /\ seen(C) \in Seq(D) /\ IsInjective(seen(C))
    BY <1>7
  <2>2. Cardinality(ToSet(seen(C))) = C
    BY <1>1, <2>1, FS_CountingElements DEF Bijection, Injection, Surjection, ToSet, IsInjective,
       ExistsBijection
  <2>3. ToSet(seen(C)) = D
    BY <2>1, MemberOf, <1>1, <2>2, FS_Subset
  <2>4. Head(todo(C)) \in ToSet(todo(C)) /\ Head(todo(C)) \in D
    BY <1>7, <2>1, TailOf
  <2> QED
    BY <1>7, <2>3, <2>4
<1>9. ToSet(seen(C)) = A
  <2>1. ToSet(todo(C)) = {}
    BY <1>8 DEF ToSet
  <2>2. Met(C) = ToSet(seen(C))
    BY <2>1
  <2>3. R \subseteq ToSet(seen(C)) /\ Closed(nodes, ToSet(seen(C)))
    BY <1>7, <2>2 DEF Closed
  <2> QED
    BY <1>2, <1>7, <2>2, <2>3
<1> QED
  BY <1>4, <1>7, <1>9 DEF A

LEMMA WalkView ==
    ASSUME NEW nodes, NEW roots, Grove(nodes, roots)
    PROVE  /\ Walk(nodes, roots) \in Seq(DOMAIN nodes) /\ IsInjective(Walk(nodes, roots))
           /\ ToSet(Walk(nodes, roots)) = AllUnder(nodes, ToSet(roots))
  BY WalkParts

\* Every block of a document is below the root.
LEMMA AllBelowRoot ==
    ASSUME NEW d, WellFormed(d)
    PROVE  AllUnder(d.nodes, ToSet(d.root)) = Blocks(d)
<1> DEFINE D == Blocks(d)
           R == ToSet(d.root)
           A == AllUnder(d.nodes, R)
           C == Cardinality(D)
           W(b) == AllUnder(d.nodes, {b})
           U == D \ A
           N == {k \in Nat : \A b \in U : Cardinality(W(b)) <= C - k}
<1>1. /\ Shaped(d) /\ Linked(d) /\ Acyclic(d.nodes) /\ D = DOMAIN d.nodes /\ IsFiniteSet(D) /\ C \in Nat
      /\ KidsAreNodes(d.nodes) /\ \A b \in D : KidsOf(d.nodes, b) = ToSet(Kids(d, b))
  BY NodesOf, FS_CardinalityType DEF WellFormed
<1>2. R = ToSet(Kids(d, Root)) /\ R \subseteq D
  BY <1>1, MemberOf DEF Linked, Kids
<1>3. R \subseteq A /\ A \subseteq D /\ Closed(d.nodes, A)
  BY <1>1, <1>2, AllUnderLeast
<1>4. ASSUME NEW b \in U
      PROVE  /\ W(b) \subseteq D /\ Cardinality(W(b)) \in Nat /\ Cardinality(W(b)) <= C
             /\ \E p \in U : Cardinality(W(b)) < Cardinality(W(p))
  <2>1. /\ Parent(d, b) \in D \cup {Root} /\ b \in ToSet(Kids(d, Parent(d, b)))
    BY <1>1 DEF Linked
  <2> DEFINE p == Parent(d, b)
  <2>2. p \in U /\ b \in KidsOf(d.nodes, p)
    <3>1. p # Root
      BY <1>2, <1>3, <2>1
    <3>2. p \in D /\ b \in KidsOf(d.nodes, p)
      BY <1>1, <2>1, <3>1
    <3> HIDE DEF p, A
    <3> QED
      BY <1>3, <3>2 DEF Closed
  <2> HIDE DEF p
  <2>3. /\ b \in W(b) /\ W(b) \subseteq D /\ Closed(d.nodes, W(b))
        /\ \A V : {b} \subseteq V /\ Closed(d.nodes, V) => W(b) \subseteq V
    BY <1>1, AllUnderLeast
  <2>4. p \in W(p) /\ W(p) \subseteq D /\ Closed(d.nodes, W(p))
    BY <1>1, <2>2, AllUnderLeast
  <2>5. W(b) \subseteq W(p)
    BY <2>2, <2>3, <2>4 DEF Closed
  <2>6. p \notin W(b)
    <3> DEFINE K == KidsOf(d.nodes, p)
    <3>1. K \subseteq AllUnder(d.nodes, K) /\ Closed(d.nodes, AllUnder(d.nodes, K))
      BY <1>1, <2>2, AllUnderLeast DEF KidsAreNodes
    <3>2. p \notin AllUnder(d.nodes, K)
      BY <1>1, <2>2 DEF Acyclic, KidsOf
    <3> QED
      BY <2>2, <2>3, <3>1, <3>2
  <2>7. IsFiniteSet(W(p)) /\ IsFiniteSet(W(b)) /\ Cardinality(W(b)) \in Nat /\ Cardinality(W(p)) \in Nat
        /\ Cardinality(W(b)) <= C
    BY <1>1, <2>3, <2>4, FS_Subset, FS_CardinalityType
  <2>8. Cardinality(W(b)) <= Cardinality(W(p)) /\ Cardinality(W(b)) # Cardinality(W(p))
    <3> HIDE DEF W
    <3> QED
      BY <2>4, <2>5, <2>6, <2>7, FS_Subset
  <2> HIDE DEF W, U
  <2> QED
    BY <2>2, <2>3, <2>7, <2>8
<1>5. 0 \in N
  <2> HIDE DEF W, U
  <2> QED
    BY <1>1, <1>4
<1>6. ASSUME NEW k \in Nat, k \in N PROVE k + 1 \in N
  <2> HIDE DEF W, U
  <2> SUFFICES ASSUME NEW b \in U PROVE Cardinality(W(b)) <= C - (k + 1)
    OBVIOUS
  <2>1. PICK p \in U : Cardinality(W(b)) < Cardinality(W(p))
    BY <1>4
  <2>2. Cardinality(W(p)) <= C - k /\ Cardinality(W(p)) \in Nat /\ Cardinality(W(b)) \in Nat
    BY <1>4, <1>6, <2>1
  <2> QED
    BY <1>1, <2>1, <2>2
<1>7. U = {}
  <2>1. C + 1 \in N
    <3>1. Nat \subseteq N
      <4> HIDE DEF N
      <4> QED
        BY <1>5, <1>6, NaturalSet
    <3> HIDE DEF N
    <3> QED
      BY <1>1, <3>1
  <2> HIDE DEF W, U
  <2>2. \A b \in U : Cardinality(W(b)) <= C - (C + 1) /\ Cardinality(W(b)) \in Nat
    BY <1>4, <2>1
  <2> QED
    BY <1>1, <2>2
<1> HIDE DEF A
<1> QED
  BY <1>3, <1>7 DEF A

\* What is below some siblings of a document is nested as a grove.
LEMMA SiblingsAreGrove ==
    ASSUME NEW d, WellFormed(d), NEW p \in Places(d), NEW ids \in Seq(Blocks(d)),
           IsInjective(ids), ToSet(ids) \subseteq ToSet(Kids(d, p))
    PROVE  Grove(d.nodes, ids)
<1> DEFINE D == Blocks(d)
           A == AllUnder(d.nodes, ToSet(ids))
<1>1. /\ Shaped(d) /\ Linked(d) /\ Acyclic(d.nodes) /\ D = DOMAIN d.nodes /\ IsFiniteSet(D)
      /\ \A b \in D : KidsOf(d.nodes, b) = ToSet(Kids(d, b)) /\ Kids(d, b) = d.nodes[b].kids
  BY NodesOf DEF WellFormed, Kids, Shaped
<1>2. \A b \in D : d.nodes[b].kids \in Seq(D) /\ IsInjective(d.nodes[b].kids)
  BY <1>1 DEF Linked
<1>3. ASSUME NEW b \in D, NEW c \in KidsOf(d.nodes, b) PROVE Parent(d, c) = b
  BY <1>1 DEF Linked
<1>4. A \subseteq D /\ p \notin A
  BY <1>1, AllBelow
<1>5. ASSUME NEW b \in A, NEW c \in KidsOf(d.nodes, b), c \in ToSet(ids) PROVE FALSE
  BY <1>3, <1>4, <1>1, <1>5 DEF Linked, Places
<1> QED
  BY <1>1, <1>2, <1>3, <1>5 DEF Grove

\* The reading order of a document has each of its blocks once (document.rs,
\* next_block): so text_blocks, the stops and the ends of a selection are found.
THEOREM ReadingOrderIsComplete ==
    ASSUME NEW d, WellFormed(d)
    PROVE  /\ DocOrder(d) \in Seq(Blocks(d)) /\ IsInjective(DocOrder(d))
           /\ ToSet(DocOrder(d)) = Blocks(d)
<1>1. d.root \in Seq(Blocks(d)) /\ IsInjective(d.root) /\ Kids(d, Root) = d.root /\ Root \in Places(d)
  BY DEF WellFormed, Linked, Kids, Places
<1>2. Grove(d.nodes, d.root)
  BY <1>1, SiblingsAreGrove
<1> QED
  BY <1>2, WalkView, AllBelowRoot DEF DocOrder, Blocks

\* Documents that read the same are read in the same order.
LEMMA TwinsInOrder ==
    ASSUME NEW d, NEW e, Twins(d, e)
    PROVE  /\ \A roots : Walk(e.nodes, roots) = Walk(d.nodes, roots)
           /\ d.root = e.root /\ DocOrder(e) = DocOrder(d)
<1> DEFINE kids(x) == [b \in DOMAIN x.nodes |-> x.nodes[b].kids]
<1>1. /\ Root \in Places(d) /\ \A p : Kids(e, p) = Kids(d, p)
      /\ DOMAIN d.nodes = DOMAIN e.nodes /\ Shaped(d)
  BY TwinsReadTheSame DEF Places, Shaped, Blocks
<1>2. \A b \in DOMAIN d.nodes : e.nodes[b].kids = d.nodes[b].kids
  BY <1>1 DEF Shaped, Blocks, Kids
<1>3. kids(e) = kids(d) /\ d.root = e.root
  BY <1>1, <1>2 DEF Kids
<1>4. ASSUME NEW roots PROVE Walk(e.nodes, roots) = Walk(d.nodes, roots)
  <2> HIDE DEF kids
  <2>1. \A x : Walk(x.nodes, roots) = WalkAt(kids(x), Cardinality(DOMAIN x.nodes), roots)[Cardinality(DOMAIN x.nodes)].seen
    BY WalkIs DEF kids
  <2> QED
    BY <1>1, <1>3, <2>1
<1> QED
  BY <1>3, <1>4 DEF DocOrder

-----------------------------------------------------------------------------
(***************************************************************************)
(* The ids of a document: numbers, all of them below the next one the      *)
(* local client takes.                                                     *)
(***************************************************************************)

Ids(d) == d.next \in Nat \ {0} /\ Blocks(d) \subseteq Int /\ \A b \in Blocks(d) : b < d.next
IsDocument(d) == WellFormed(d) /\ Ids(d)

\* A step whose blocks have such ids.
IsTyped(s) ==
    /\ IsStep(s)
    /\ s.op = "Split" => s.new \in Int
    /\ s.op = "InsertBlocks" => DOMAIN s.blocks.nodes \subseteq Int

\* A finite set of numbers has a greatest one.
LEMMA GreatestOf ==
    ASSUME NEW S, IsFiniteSet(S), S \subseteq Int, S # {}
    PROVE  \E b \in S : \A c \in S : c <= b
<1> DEFINE HasTop(T) == \E b \in T : \A c \in T : c <= b
           G == {n \in Nat : \A T \in SUBSET Int : IsFiniteSet(T) /\ Cardinality(T) = n + 1 => HasTop(T)}
<1>1. 0 \in G
  <2> SUFFICES ASSUME NEW T \in SUBSET Int, IsFiniteSet(T), Cardinality(T) = 1 PROVE HasTop(T)
    OBVIOUS
  <2>1. PICK b : T = {b}
    BY FS_Singleton
  <2> QED
    BY <2>1
<1>2. ASSUME NEW n \in Nat, n \in G PROVE n + 1 \in G
  <2> SUFFICES ASSUME NEW T \in SUBSET Int, IsFiniteSet(T), Cardinality(T) = n + 2 PROVE HasTop(T)
    OBVIOUS
  <2>1. T # {}
    BY FS_EmptySet
  <2>2. PICK x : x \in T
    BY <2>1
  <2> DEFINE U == T \ {x}
  <2>3. IsFiniteSet(U) /\ Cardinality(U) = n + 1 /\ U \in SUBSET Int
    BY <2>2, FS_RemoveElement
  <2>4. HasTop(U)
    <3> HIDE DEF U, HasTop
    <3> QED
      BY <1>2, <2>3
  <2>5. PICK b \in U : \A c \in U : c <= b
    BY <2>4
  <2>6. CASE x <= b
    BY <2>5, <2>6
  <2>7. CASE ~(x <= b)
    <3>1. \A c \in T : c <= x
      <4> TAKE c \in T
      <4>1. CASE c = x
        BY <2>2, <4>1
      <4>2. CASE c # x
        <5>1. c \in U /\ c \in Int /\ b \in Int /\ x \in Int
          BY <2>2, <4>2
        <5>2. c <= b
          BY <2>5, <5>1
        <5> HIDE DEF U
        <5> QED
          BY <2>7, <5>1, <5>2
      <4> QED
        BY <4>1, <4>2
    <3> QED
      BY <2>2, <3>1
  <2> QED
    BY <2>6, <2>7
<1>3. Nat \subseteq G
  <2> HIDE DEF G
  <2> QED
    BY <1>1, <1>2, NaturalSet
<1>4. Cardinality(S) \in Nat /\ Cardinality(S) # 0
  BY FS_CardinalityType, FS_EmptySet
<1>5. Cardinality(S) - 1 \in Nat /\ (Cardinality(S) - 1) + 1 = Cardinality(S)
  BY <1>4
<1> QED
  BY <1>3, <1>5

\* A new sequence number is beyond all that were seen.
LEMMA ObserveView ==
    ASSUME NEW next \in Nat \ {0}, NEW ids, IsFiniteSet(ids), ids \subseteq Int
    PROVE  /\ Observe(next, ids) \in Nat \ {0} /\ Observe(next, ids) >= next
           /\ \A b \in ids : b < Observe(next, ids)
<1> DEFINE taken == {b \in ids : b >= next}
           top == CHOOSE b \in taken : \A c \in taken : c <= b
<1>1. CASE taken = {}
  BY <1>1 DEF Observe
<1>2. CASE taken # {}
  <2>1. IsFiniteSet(taken)
    BY FS_Subset
  <2>2. \E b \in taken : \A c \in taken : c <= b
    <3>1. taken \subseteq Int
      OBVIOUS
    <3> HIDE DEF taken
    <3> QED
      BY <1>2, <2>1, <3>1, GreatestOf
  <2>3. top \in taken /\ \A c \in taken : c <= top
    <3> HIDE DEF taken
    <3> QED
      BY <2>2
  <2>4. Observe(next, ids) = 1 + top
    BY <1>2 DEF Observe
  <2>5. top \in Int /\ top >= next
    BY <2>3
  <2>6. \A b \in ids : b < 1 + top
    <3> TAKE b \in ids
    <3>1. CASE b >= next
      BY <2>3, <2>5, <3>1
    <3>2. CASE ~(b >= next)
      BY <2>5, <3>2
    <3> QED
      BY <3>1, <3>2
  <2> HIDE DEF top
  <2> QED
    BY <2>4, <2>5, <2>6
<1> QED
  BY <1>1, <1>2

\* What performing a step leaves alone, what it makes of the ids, and that
\* the step that undoes it has such ids too.
LEMMA PerformIds ==
    ASSUME NEW d, WellFormed(d), NEW s, IsTyped(s), Perform(d, s).ok
    PROVE  LET a == Perform(d, s)
           IN  /\ a.doc.version = d.version /\ a.doc.saves = d.saves
               /\ Ids(d) => /\ Ids(a.doc) /\ IsTyped(a.inverse) /\ a.doc.next >= d.next
<1> DEFINE a == Perform(d, s)
           e == a.doc
           Kept == e.version = d.version /\ e.saves = d.saves
           Same == e.next = d.next /\ Blocks(e) \subseteq Blocks(d)
           Good == Ids(d) => Ids(e) /\ IsTyped(a.inverse) /\ e.next >= d.next
<1>1. s.op \in {"InsertInline", "RemoveInline", "AddMark", "RemoveMark", "RestoreMarks", "SetBlock",
                "Split", "Join", "InsertBlocks", "RemoveBlocks", "MoveBlocks"}
  BY DEF IsTyped, IsStep
<1>2. IsStep(s) /\ IsStep(a.inverse)
  BY StepsAreInvertible DEF IsTyped, Undone
<1>3. ~Failed(d).ok
  BY DEF Failed
<1>4. ASSUME Same, a.inverse.op \notin {"Split", "InsertBlocks"} PROVE Good
  BY <1>2, <1>4 DEF Ids, IsTyped
<1>5. \A f, b, text : LET g == SetText(f, b, text)
                      IN  g.version = f.version /\ g.saves = f.saves /\ g.next = f.next /\ Blocks(g) = Blocks(f)
  BY DEF SetText, PutNode, Blocks
<1>6. \A f, p, kids : LET g == SetKids(f, p, kids)
                      IN  g.version = f.version /\ g.saves = f.saves /\ g.next = f.next /\ Blocks(g) = Blocks(f)
  BY DEF SetKids, PutNode, Blocks
<1>7. \A f, p, index, t : LET g == AttachTrees(f, p, index, t)
                          IN  /\ g.version = f.version /\ g.saves = f.saves
                              /\ g.next = Observe(f.next, DOMAIN t.nodes)
                              /\ Blocks(g) = Blocks(f) \cup DOMAIN t.nodes
  <2> SUFFICES ASSUME NEW f, NEW p, NEW index, NEW t
               PROVE  LET g == AttachTrees(f, p, index, t)
                      IN  /\ g.version = f.version /\ g.saves = f.saves
                          /\ g.next = Observe(f.next, DOMAIN t.nodes)
                          /\ Blocks(g) = Blocks(f) \cup DOMAIN t.nodes
    OBVIOUS
  <2> DEFINE Born(b, x) == [kind |-> x.kind, attr |-> x.attr,
                            parent |-> IF b \in ToSet(t.roots) THEN p ELSE x.parent,
                            text |-> x.text, kids |-> x.kids, rev |-> 0]
             All == [b \in Blocks(f) \cup DOMAIN t.nodes |->
                       IF b \in DOMAIN t.nodes THEN Born(b, t.nodes[b]) ELSE f.nodes[b]]
             h == [f EXCEPT !.nodes = All, !.next = Observe(@, DOMAIN t.nodes)]
             kids == SpliceSeq(Kids(f, p), index, 0, t.roots)
  <2>1. AttachTrees(f, p, index, t) = SetKids(h, p, kids)
    BY DEF AttachTrees
  <2>2. h.version = f.version /\ h.saves = f.saves /\ h.next = Observe(f.next, DOMAIN t.nodes)
    OBVIOUS
  <2>3. Blocks(h) = Blocks(f) \cup DOMAIN t.nodes
    BY DEF Blocks
  <2> HIDE DEF h, kids
  <2> QED
    BY <1>6, <2>1, <2>2, <2>3
<1>8. CASE s.op \in {"InsertInline", "RemoveInline", "AddMark", "RemoveMark", "RestoreMarks", "SetBlock"}
  <2>1. /\ \E b, text : e = SetText(d, b, text) \/ \E node : e = PutNode(d, b, node)
        /\ a.inverse.op \in {"InsertInline", "RemoveInline", "RestoreMarks", "SetBlock"}
    <3>1. CASE s.op = "InsertInline"
      BY <1>3, <3>1 DEF Perform, InsertInline, Applied, RemoveInlineStep
    <3>2. CASE s.op = "RemoveInline"
      BY <1>3, <3>2 DEF Perform, RemoveInline, Applied, InsertInlineStep
    <3>3. CASE s.op = "AddMark"
      BY <1>3, <3>3 DEF Perform, AddMark, Format, Applied, RestoreMarksStep
    <3>4. CASE s.op = "RemoveMark"
      BY <1>3, <3>4 DEF Perform, RemoveMark, Format, Applied, RestoreMarksStep
    <3>5. CASE s.op = "RestoreMarks"
      BY <1>3, <3>5 DEF Perform, RestoreMarks, Format, Applied, RestoreMarksStep
    <3>6. CASE s.op = "SetBlock"
      BY <1>3, <3>6 DEF Perform, SetBlock, Applied, SetBlockStep
    <3> QED
      BY <1>8, <3>1, <3>2, <3>3, <3>4, <3>5, <3>6
  <2>2. \A b, node : LET g == PutNode(d, b, node)
                     IN  g.version = d.version /\ g.saves = d.saves /\ g.next = d.next /\ Blocks(g) = Blocks(d)
    BY DEF PutNode, Blocks
  <2> HIDE DEF a
  <2>3. Kept /\ Same
    BY <1>5, <2>1, <2>2
  <2>4. Good
    BY <1>4, <2>1, <2>3
  <2> QED
    BY <2>3, <2>4 DEF a
<1>9. CASE s.op = "Split"
  <2> DEFINE t == TextTree(s.new, s.kind, s.attr, SubSeq(Text(d, s.block), s.offset + 1, Len(Text(d, s.block))))
             f == SetText(d, s.block, SubSeq(Text(d, s.block), 1, s.offset))
  <2>1. /\ e = AttachTrees(f, Parent(d, s.block), IndexInParent(d, s.block), t)
        /\ a.inverse = JoinStep(s.block, s.new)
    BY <1>3, <1>9 DEF Perform, Split, Applied
  <2>2. DOMAIN t.nodes = {s.new}
    BY DEF TextTree, Trees
  <2>3. f.version = d.version /\ f.saves = d.saves /\ f.next = d.next /\ Blocks(f) = Blocks(d)
    BY <1>5
  <2> HIDE DEF f, t, a
  <2>4. Kept /\ e.next = Observe(d.next, {s.new}) /\ Blocks(e) = Blocks(d) \cup {s.new}
    <3> DEFINE g == AttachTrees(f, Parent(d, s.block), IndexInParent(d, s.block), t)
    <3>1. /\ g.version = f.version /\ g.saves = f.saves /\ g.next = Observe(f.next, DOMAIN t.nodes)
          /\ Blocks(g) = Blocks(f) \cup DOMAIN t.nodes
      BY <1>7
    <3>2. e = g
      BY <2>1
    <3> HIDE DEF g
    <3> QED
      BY <2>2, <2>3, <3>1, <3>2
  <2>5. ASSUME Ids(d) PROVE Ids(e) /\ e.next >= d.next
    <3>1. d.next \in Nat \ {0} /\ {s.new} \subseteq Int /\ IsFiniteSet({s.new})
      BY <1>9, <2>5, FS_Singleton DEF Ids, IsTyped
    <3>2. /\ e.next \in Nat \ {0} /\ e.next >= d.next /\ s.new < e.next
      BY <2>4, <3>1, ObserveView
    <3> QED
      BY <2>4, <2>5, <3>1, <3>2 DEF Ids
  <2>6. IsTyped(a.inverse)
    BY <1>2, <2>1 DEF IsTyped, JoinStep
  <2> QED
    BY <2>4, <2>5, <2>6 DEF a
<1>10. CASE s.op = "InsertBlocks"
  <2> DEFINE t == s.blocks
             T == DOMAIN t.nodes
  <2>1. /\ e = AttachTrees(d, s.parent, s.index, t)
        /\ a.inverse = RemoveBlocksStep(s.parent, s.index, Len(t.roots))
    BY <1>3, <1>10 DEF Perform, InsertBlocks, Applied
  <2> HIDE DEF a
  <2>2. Kept /\ e.next = Observe(d.next, T) /\ Blocks(e) = Blocks(d) \cup T
    BY <1>7, <2>1
  <2>3. T \subseteq Int /\ IsFiniteSet(T)
    BY <1>10 DEF IsTyped, IsStep, IsForest
  <2>4. ASSUME Ids(d) PROVE Ids(e) /\ e.next >= d.next
    BY <2>4, <2>2, <2>3, ObserveView DEF Ids
  <2>5. IsTyped(a.inverse)
    BY <1>2, <2>1 DEF IsTyped, RemoveBlocksStep
  <2> QED
    BY <2>2, <2>4, <2>5 DEF a
<1>11. \A p, index, count : LET cut == DetachTrees(d, p, index, count)
                            IN  /\ cut.doc.version = d.version /\ cut.doc.saves = d.saves /\ cut.doc.next = d.next
                                /\ Blocks(cut.doc) \subseteq Blocks(d)
  <2> SUFFICES ASSUME NEW p, NEW index, NEW count
               PROVE  LET cut == DetachTrees(d, p, index, count)
                      IN  /\ cut.doc.version = d.version /\ cut.doc.saves = d.saves /\ cut.doc.next = d.next
                          /\ Blocks(cut.doc) \subseteq Blocks(d)
    OBVIOUS
  <2> DEFINE ids == SubSeq(Kids(d, p), index + 1, index + count)
             gone == AllUnder(d.nodes, ToSet(ids))
             h == SetKids(d, p, SpliceSeq(Kids(d, p), index, count, <<>>))
  <2>1. DetachTrees(d, p, index, count).doc = [h EXCEPT !.nodes = [b \in DOMAIN @ \ gone |-> @[b]]]
    BY DEF DetachTrees
  <2>2. h.version = d.version /\ h.saves = d.saves /\ h.next = d.next /\ Blocks(h) = Blocks(d)
    BY <1>6
  <2> HIDE DEF h, gone
  <2> QED
    BY <2>1, <2>2 DEF Blocks
<1>12. CASE s.op = "Join"
  <2> DEFINE p == Parent(d, s.block)
             i == IndexInParent(d, s.block)
             b == d.nodes[s.next]
             f == DetachTrees(d, p, i, 1).doc
  <2>1. /\ e = SetText(f, s.block, Text(d, s.block) \o b.text)
        /\ a.inverse = SplitStep(s.block, Len(Text(d, s.block)), s.next, b.kind, b.attr)
        /\ s.next \in Blocks(d)
    BY <1>3, <1>12 DEF Perform, Join, Applied, IsText
  <2>2. /\ f.version = d.version /\ f.saves = d.saves /\ f.next = d.next /\ Blocks(f) \subseteq Blocks(d)
    BY <1>11
  <2> HIDE DEF f, a
  <2>3. Kept /\ Same
    BY <1>5, <2>1, <2>2
  <2>4. Ids(d) => IsTyped(a.inverse)
    BY <1>2, <2>1 DEF IsTyped, SplitStep, Ids
  <2>5. Ids(d) => Ids(e) /\ e.next >= d.next
    BY <2>3 DEF Ids
  <2> QED
    BY <2>3, <2>4, <2>5 DEF a
<1>13. CASE s.op = "RemoveBlocks"
  <2> DEFINE cut == DetachTrees(d, s.parent, s.index, s.count)
  <2>1. /\ e = cut.doc /\ a.inverse = InsertBlocksStep(s.parent, s.index, cut.trees)
        /\ IndexOk(d, s.parent, s.index, s.index + s.count)
    BY <1>3, <1>13 DEF Perform, RemoveBlocks, Applied
  <2>2. Siblings(d, s.parent, s.index, s.count)
    BY <1>2, <1>13, <2>1 DEF Siblings, IsStep, IndexOk, Places
  <2>3. DOMAIN cut.trees.nodes \subseteq Blocks(d)
    <3> DEFINE ids == SubSeq(Kids(d, s.parent), s.index + 1, s.index + s.count)
               gone == AllUnder(d.nodes, ToSet(ids))
    <3>1. DOMAIN cut.trees.nodes = gone
      BY <2>2, DetachTreesView
    <3>2. ToSet(ids) \subseteq Blocks(d)
      <4> DEFINE K == Kids(d, s.parent)
      <4>1. K \in Seq(Blocks(d)) /\ IsInjective(K)
        BY <2>2 DEF Siblings, WellFormed, Linked, Places
      <4>2. ToSet(ids) \subseteq ToSet(K)
        BY <2>2, <4>1, TakenOut DEF Siblings
      <4>3. ToSet(K) \subseteq Blocks(d)
        <5> HIDE DEF K
        <5> QED
          BY <4>1, MemberOf
      <4> QED
        BY <4>2, <4>3
    <3>3. gone \subseteq Blocks(d)
      <4> HIDE DEF ids
      <4> QED
        BY NodesOf, <3>2, AllUnderLeast DEF WellFormed
    <3> QED
      BY <3>1, <3>3
  <2>4. Kept /\ Same
    BY <1>11, <2>1
  <2> HIDE DEF a, cut
  <2>5. Ids(d) => IsTyped(a.inverse)
    BY <1>2, <2>1, <2>3 DEF IsTyped, InsertBlocksStep, Ids
  <2>6. Ids(d) => Ids(e) /\ e.next >= d.next
    BY <2>4 DEF Ids
  <2> QED
    BY <2>4, <2>5, <2>6 DEF a
<1>14. CASE s.op = "MoveBlocks"
  <2> DEFINE ids == SubSeq(Kids(d, s.parent), s.index + 1, s.index + s.count)
             cut == SetKids(d, s.parent, SpliceSeq(Kids(d, s.parent), s.index, s.count, <<>>))
             put == SetKids(cut, s.to, SpliceSeq(Kids(cut, s.to), s.toIndex, 0, ids))
  <2>1. /\ e = [put EXCEPT !.nodes = [b \in DOMAIN @ |->
                  IF b \in ToSet(ids) THEN [@[b] EXCEPT !.parent = s.to] ELSE @[b]]]
        /\ a.inverse = MoveBlocksStep(s.to, s.toIndex, s.count, s.parent, s.index)
    BY <1>3, <1>14 DEF Perform, MoveBlocks, Applied
  <2>2. cut.version = d.version /\ cut.saves = d.saves /\ cut.next = d.next /\ Blocks(cut) = Blocks(d)
    BY <1>6
  <2> HIDE DEF cut, a
  <2>3. put.version = d.version /\ put.saves = d.saves /\ put.next = d.next /\ Blocks(put) = Blocks(d)
    BY <1>6, <2>2
  <2> HIDE DEF put, ids
  <2>4. Kept /\ Same
    BY <2>1, <2>3 DEF Blocks
  <2>5. Good
    BY <1>4, <2>1, <2>4 DEF MoveBlocksStep
  <2> QED
    BY <2>4, <2>5 DEF a
<1> QED
  BY <1>1, <1>8, <1>9, <1>10, <1>12, <1>13, <1>14

-----------------------------------------------------------------------------
(***************************************************************************)
(* Lists of steps.                                                         *)
(***************************************************************************)

IsSteps(q) == q \in Seq(ToSet(q)) /\ \A s \in ToSet(q) : IsTyped(s)

\* The last element first.
LEMMA ReverseView ==
    ASSUME NEW S, NEW s \in Seq(S)
    PROVE  /\ Reverse(s) \in Seq(S) /\ Len(Reverse(s)) = Len(s)
           /\ \A i \in 1 .. Len(s) : Reverse(s)[i] = s[(Len(s) - i) + 1]
           /\ ToSet(Reverse(s)) = ToSet(s)
           /\ Reverse(Reverse(s)) = s
<1> DEFINE r == Reverse(s)
<1>1. Len(s) \in Nat /\ \A i \in 1 .. Len(s) : s[i] \in S
  BY LenProperties, ElementOfSeq
<1>2. r = [i \in 1 .. Len(s) |-> s[(Len(s) - i) + 1]]
  BY DEF Reverse
<1>3. \A i \in 1 .. Len(s) : (Len(s) - i) + 1 \in 1 .. Len(s) /\ (Len(s) - ((Len(s) - i) + 1)) + 1 = i
  BY <1>1
<1>4. \A i \in 1 .. Len(s) : r[i] \in S
  BY <1>1, <1>2, <1>3
<1>5. r \in [1 .. Len(s) -> S]
  BY <1>2, <1>4
<1>6. r \in Seq(S) /\ Len(r) = Len(s) /\ DOMAIN r = 1 .. Len(s)
  BY <1>1, <1>5, SeqDef, LenProperties
<1>7. \A i \in 1 .. Len(s) : r[i] = s[(Len(s) - i) + 1]
  BY <1>2
<1> HIDE DEF r
<1>8. ToSet(r) = ToSet(s)
  <2>1. ASSUME NEW x, x \in ToSet(r) PROVE x \in ToSet(s)
    <3>1. PICK i \in 1 .. Len(s) : r[i] = x
      BY <1>6, <2>1, MemberOf
    <3> QED
      BY <1>3, <1>7, <3>1, MemberOf
  <2>2. ASSUME NEW x, x \in ToSet(s) PROVE x \in ToSet(r)
    <3>1. PICK i \in 1 .. Len(s) : s[i] = x
      BY <2>2, MemberOf
    <3>2. r[(Len(s) - i) + 1] = x /\ (Len(s) - i) + 1 \in 1 .. Len(r)
      BY <1>3, <1>6, <1>7, <3>1
    <3> QED
      BY <1>6, <3>2, MemberOf
  <2> QED
    BY <2>1, <2>2
<1>9. Reverse(r) = s
  BY <1>6, <1>3, <1>7, LenProperties DEF Reverse
<1> QED
  BY <1>6, <1>7, <1>8, <1>9 DEF r

LEMMA ReverseConcat ==
    ASSUME NEW S, NEW s \in Seq(S), NEW t \in Seq(S)
    PROVE  Reverse(s \o t) = Reverse(t) \o Reverse(s)
<1> DEFINE u == s \o t
           rs == Reverse(s)
           rt == Reverse(t)
           v == rt \o rs
           m == Len(s)
           n == Len(t)
<1>1. /\ u \in Seq(S) /\ m \in Nat /\ n \in Nat /\ Len(u) = m + n
      /\ \A i \in 1 .. m + n : u[i] = IF i <= m THEN s[i] ELSE t[i - m]
  BY ConcatProperties, LenProperties
<1>2. /\ rs \in Seq(S) /\ Len(rs) = m /\ \A i \in 1 .. m : rs[i] = s[(m - i) + 1]
      /\ rt \in Seq(S) /\ Len(rt) = n /\ \A i \in 1 .. n : rt[i] = t[(n - i) + 1]
  BY ReverseView
<1> HIDE DEF rs, rt
<1>3. /\ v \in Seq(S) /\ Len(v) = n + m
      /\ \A i \in 1 .. n + m : v[i] = IF i <= n THEN rt[i] ELSE rs[i - n]
  <2>1. /\ rt \o rs \in Seq(S) /\ Len(rt \o rs) = Len(rt) + Len(rs)
        /\ \A i \in 1 .. Len(rt) + Len(rs) : (rt \o rs)[i] = IF i <= Len(rt) THEN rt[i] ELSE rs[i - Len(rt)]
    <3>1. rt \in Seq(S) /\ rs \in Seq(S)
      BY <1>2
    <3> QED
      BY <3>1, ConcatProperties
  <2>2. Len(rt) = n /\ Len(rs) = m
    BY <1>2
  <2> HIDE DEF m, n
  <2> QED
    BY <2>1, <2>2
<1> HIDE DEF u, v
<1>4. /\ Reverse(u) \in Seq(S) /\ Len(Reverse(u)) = m + n
      /\ \A i \in 1 .. m + n : Reverse(u)[i] = u[((m + n) - i) + 1]
  BY <1>1, ReverseView
<1> HIDE DEF m, n
<1>5. ASSUME NEW i \in 1 .. m + n PROVE Reverse(u)[i] = v[i]
  <2>1. CASE i <= n
    <3>1. /\ i \in 1 .. n /\ ((m + n) - i) + 1 \in 1 .. m + n /\ ~(((m + n) - i) + 1 <= m)
          /\ (((m + n) - i) + 1) - m = (n - i) + 1
      BY <1>1, <2>1
    <3>2. u[((m + n) - i) + 1] = t[(n - i) + 1]
      BY <1>1, <3>1
    <3>3. i \in 1 .. n + m
      BY <1>1
    <3> QED
      BY <1>2, <1>3, <1>4, <2>1, <3>1, <3>2, <3>3
  <2>2. CASE ~(i <= n)
    <3>1. /\ i - n \in 1 .. m /\ ((m + n) - i) + 1 \in 1 .. m + n /\ ((m + n) - i) + 1 <= m
          /\ ((m + n) - i) + 1 = (m - (i - n)) + 1
      BY <1>1, <2>2
    <3>2. u[((m + n) - i) + 1] = s[(m - (i - n)) + 1]
      BY <1>1, <3>1
    <3>3. i \in 1 .. n + m
      BY <1>1
    <3> QED
      BY <1>2, <1>3, <1>4, <2>2, <3>1, <3>2, <3>3
  <2> QED
    BY <2>1, <2>2
<1>6. Len(v) = m + n
  BY <1>1, <1>3
<1> QED
  BY <1>3, <1>4, <1>5, <1>6, SeqEqual DEF u, v, rs, rt

\* Lists of steps, put together and turned round.
LEMMA StepsView ==
    /\ IsSteps(<<>>) /\ Reverse(<<>>) = <<>>
    /\ \A s : IsTyped(s) => IsSteps(<<s>>) /\ Reverse(<<s>>) = <<s>>
    /\ \A q : IsSteps(q) => /\ IsSteps(Reverse(q)) /\ Reverse(Reverse(q)) = q /\ Len(Reverse(q)) = Len(q)
                            /\ Len(q) \in Nat /\ \A i \in 1 .. Len(q) : IsTyped(q[i])
    /\ \A p, q : IsSteps(p) /\ IsSteps(q) =>
                    /\ IsSteps(p \o q) /\ Reverse(p \o q) = Reverse(q) \o Reverse(p)
                    /\ Len(p \o q) = Len(p) + Len(q)
    /\ \A q, s : IsSteps(q) /\ IsTyped(s) => Append(q, s) = q \o <<s>>
<1>1. IsSteps(<<>>) /\ Reverse(<<>>) = <<>>
  BY EmptySeq DEF ToSet, IsSteps, Reverse
<1>2. ASSUME NEW s, IsTyped(s) PROVE IsSteps(<<s>>) /\ Reverse(<<s>>) = <<s>>
  <2> DEFINE t == <<s>>
  <2>1. t \in Seq({s}) /\ Len(t) = 1 /\ DOMAIN t = 1 .. 1 /\ t[1] = s
    OBVIOUS
  <2> HIDE DEF t
  <2>2. Reverse(t) \in Seq({s}) /\ Len(Reverse(t)) = 1 /\ Reverse(t)[1] = t[1]
    BY <2>1, ReverseView
  <2>3. ToSet(t) = {s}
    BY <2>1 DEF ToSet
  <2>4. Reverse(t) = t
    BY <2>1, <2>2, SeqEqual
  <2> QED
    BY <1>2, <2>1, <2>3, <2>4 DEF IsSteps, t
<1>3. ASSUME NEW q, IsSteps(q)
      PROVE  /\ IsSteps(Reverse(q)) /\ Reverse(Reverse(q)) = q /\ Len(Reverse(q)) = Len(q)
             /\ Len(q) \in Nat /\ \A i \in 1 .. Len(q) : IsTyped(q[i])
  BY <1>3, ReverseView, MemberOf, LenProperties DEF IsSteps
<1>4. ASSUME NEW p, NEW q, IsSteps(p), IsSteps(q)
      PROVE  /\ IsSteps(p \o q) /\ Reverse(p \o q) = Reverse(q) \o Reverse(p)
             /\ Len(p \o q) = Len(p) + Len(q)
  <2> DEFINE T == ToSet(p) \cup ToSet(q)
  <2>1. p \in Seq(T) /\ q \in Seq(T) /\ \A s \in T : IsTyped(s)
    BY <1>4, SeqMonotonic DEF IsSteps
  <2> HIDE DEF T
  <2>2. p \o q \in Seq(T) /\ ToSet(p \o q) = ToSet(p) \cup ToSet(q) /\ Len(p \o q) = Len(p) + Len(q)
    BY <2>1, ConcatOf
  <2>3. p \o q \in Seq(ToSet(p \o q))
    BY <2>2, MemberOf
  <2> QED
    BY <2>1, <2>2, <2>3, ReverseConcat DEF IsSteps, T
<1>5. ASSUME NEW q, NEW s, IsSteps(q), IsTyped(s) PROVE Append(q, s) = q \o <<s>>
  BY <1>5 DEF IsSteps
<1> QED
  BY <1>1, <1>2, <1>3, <1>4, <1>5

\* What is taken out of a sequence stays in its order.
LEMMA AmongInOrder ==
    ASSUME NEW T, NEW seq \in Seq(T), IsInjective(seq), NEW S
    PROVE  \A i, j \in 1 .. Len(Among(seq, S)) :
              i < j => PlaceIn(seq, Among(seq, S)[i]) < PlaceIn(seq, Among(seq, S)[j])
<1> DEFINE A(n) == AmongAt(seq, S)[n]
           At(x) == PlaceIn(seq, x)
           Good(n) == /\ A(n) \in Seq(T) /\ \A i \in 1 .. Len(A(n)) : At(A(n)[i]) \in 1 .. n
                      /\ \A i, j \in 1 .. Len(A(n)) : i < j => At(A(n)[i]) < At(A(n)[j])
           N == {n \in Nat : n <= Len(seq) => Good(n)}
<1>1. Len(seq) \in Nat /\ DOMAIN seq = 1 .. Len(seq)
  OBVIOUS
<1>2. /\ Among(seq, S) = A(Len(seq)) /\ A(0) = <<>>
      /\ \A n \in 0 .. Len(seq) - 1 : A(n + 1) = AmongNext(seq, S, A(n), n + 1)
  BY <1>1, AmongUnfolds
<1>3. \A i \in 1 .. Len(seq) : At(seq[i]) = i
  BY PlaceOf
<1> HIDE DEF A, At
<1>4. 0 \in N
  <2>1. A(0) \in Seq(T)
    BY <1>2, EmptySeq
  <2>2. Len(A(0)) = 0
    BY <1>2
  <2> QED
    BY <2>1, <2>2
<1>5. ASSUME NEW n \in Nat, n \in N PROVE n + 1 \in N
  <2> SUFFICES ASSUME n + 1 <= Len(seq) PROVE Good(n + 1)
    OBVIOUS
  <2>1. Good(n) /\ n \in 0 .. Len(seq) - 1 /\ n + 1 \in 1 .. Len(seq)
    BY <1>1, <1>5
  <2> DEFINE x == seq[n + 1]
             s == A(n)
             t == Append(s, x)
  <2>2. x \in T /\ At(x) = n + 1
    BY <1>3, <2>1
  <2>3. A(n + 1) = IF x \in S THEN t ELSE s
    BY <1>2, <2>1 DEF AmongNext
  <2>4. /\ s \in Seq(T) /\ \A i \in 1 .. Len(s) : At(s[i]) \in 1 .. n
        /\ \A i, j \in 1 .. Len(s) : i < j => At(s[i]) < At(s[j])
    BY <2>1
  <2> HIDE DEF s, x
  <2>5. CASE x \notin S
    BY <2>3, <2>4, <2>5
  <2>6. CASE x \in S
    <3>1. /\ t \in Seq(T) /\ Len(t) = Len(s) + 1 /\ t[Len(s) + 1] = x /\ Len(s) \in Nat
          /\ \A i \in 1 .. Len(s) : t[i] = s[i]
      BY <2>2, <2>4
    <3>2. A(n + 1) = t
      BY <2>3, <2>6
    <3> HIDE DEF t
    <3>3. \A i \in 1 .. Len(t) : i \in 1 .. Len(s) \/ i = Len(s) + 1
      BY <3>1
    <3>4. ASSUME NEW i \in 1 .. Len(t) PROVE At(t[i]) \in 1 .. n + 1
      <4>1. CASE i \in 1 .. Len(s)
        <5>1. At(s[i]) \in 1 .. n /\ t[i] = s[i]
          BY <2>4, <3>1, <4>1
        <5> HIDE DEF t
        <5> QED
          BY <2>1, <5>1
      <4>2. CASE i = Len(s) + 1
        BY <2>2, <3>1, <4>2
      <4> QED
        BY <3>3, <4>1, <4>2
    <3>5. ASSUME NEW i \in 1 .. Len(t), NEW j \in 1 .. Len(t), i < j PROVE At(t[i]) < At(t[j])
      BY <3>1, <3>3, <3>5, <2>4, <2>2
    <3> QED
      BY <3>1, <3>2, <3>4, <3>5
  <2> QED
    BY <2>5, <2>6
<1>6. Nat \subseteq N
  <2> HIDE DEF N
  <2> QED
    BY <1>4, <1>5, NaturalSet
<1>7. Good(Len(seq))
  BY <1>1, <1>6
<1> QED
  BY <1>2, <1>7 DEF At

\* A block is read after those it is below.
LEMMA AncestorsAreReadFirst ==
    ASSUME NEW d, WellFormed(d), NEW a \in Blocks(d), NEW b \in Subtree(d, a)
    PROVE  /\ OrderOf(d, a) \in Nat /\ OrderOf(d, b) \in Nat /\ OrderOf(d, a) <= OrderOf(d, b)
           /\ a # b => OrderOf(d, a) < OrderOf(d, b)
<1> DEFINE D == Blocks(d)
           o == DocOrder(d)
           At(x) == OrderOf(d, x)
<1>1. /\ Shaped(d) /\ Linked(d) /\ D = DOMAIN d.nodes /\ IsFiniteSet(D) /\ KidsAreNodes(d.nodes)
      /\ \A x \in D : KidsOf(d.nodes, x) = ToSet(Kids(d, x))
  BY NodesOf DEF WellFormed
<1>2. d.root \in Seq(D) /\ IsInjective(d.root) /\ Kids(d, Root) = d.root /\ Root \in Places(d) /\ Root \notin D
  BY <1>1 DEF Linked, Shaped, Kids, Places
<1>3. Grove(d.nodes, d.root)
  BY <1>2, SiblingsAreGrove
<1>4. o \in Seq(D) /\ IsInjective(o) /\ ToSet(o) = D /\ ParentsFirst(d.nodes, d.root, o)
  BY <1>3, WalkParts, ReadingOrderIsComplete DEF DocOrder
<1>5. Len(o) \in Nat /\ \A i \in 1 .. Len(o) : At(o[i]) = i /\ o[i] \in D
  BY <1>4, PlaceOf DEF OrderOf
<1>6. \A x \in D : \E i \in 1 .. Len(o) : o[i] = x
  BY <1>4, MemberOf
<1> HIDE DEF o, At, D
<1>7. \A x \in D : At(x) \in Nat
  BY <1>5, <1>6
<1>8. ASSUME NEW p \in D, NEW c \in KidsOf(d.nodes, p) PROVE At(p) < At(c)
  <2>1. c \in D /\ Parent(d, c) = p
    BY <1>1, <1>8 DEF Linked, D, KidsAreNodes
  <2>2. PICK j \in 1 .. Len(o) : o[j] = c
    BY <1>6, <2>1
  <2>3. c \notin ToSet(d.root)
    BY <1>1, <1>2, <2>1 DEF Linked
  <2>4. PICK i \in 1 .. j - 1 : c \in KidsOf(d.nodes, o[i])
    BY <1>4, <2>2, <2>3 DEF ParentsFirst
  <2>5. i \in 1 .. Len(o) /\ i < j
    BY <1>5, <2>2, <2>4
  <2>6. o[i] \in D /\ At(o[i]) = i /\ At(c) = j
    BY <1>5, <2>2, <2>5
  <2>7. Parent(d, c) = o[i]
    BY <1>1, <2>4, <2>6 DEF Linked, D
  <2> QED
    BY <2>1, <2>5, <2>6, <2>7
<1> DEFINE U == {x \in D : At(a) <= At(x) /\ (x # a => At(a) < At(x))}
<1>9. Subtree(d, a) \subseteq U
  <2>1. /\ Subtree(d, a) \subseteq D
        /\ \A V : {a} \subseteq V /\ Closed(d.nodes, V) => Subtree(d, a) \subseteq V
    BY <1>1, AllUnderLeast DEF Subtree, D
  <2>2. {a} \subseteq U
    BY <1>7 DEF D
  <2>3. ASSUME NEW x \in U, NEW c \in KidsOf(d.nodes, x) PROVE c \in U
    BY <1>1, <2>3, <1>8, <1>7 DEF KidsAreNodes, D
  <2> HIDE DEF U
  <2> QED
    BY <2>1, <2>2, <2>3 DEF Closed
<1> QED
  BY <1>7, <1>9 DEF At, D

\* What is below a block, and that nothing above it is.
LEMMA SubtreeView ==
    ASSUME NEW d, WellFormed(d), NEW a \in Blocks(d)
    PROVE  /\ a \in Subtree(d, a) /\ Subtree(d, a) \subseteq Blocks(d) /\ Closed(d.nodes, Subtree(d, a))
           /\ \A U : a \in U /\ Closed(d.nodes, U) => Subtree(d, a) \subseteq U
           /\ Parent(d, a) \notin Subtree(d, a)
           /\ \A b \in Subtree(d, a) : b = a \/ Parent(d, b) \in Subtree(d, a)
           /\ \A b \in Subtree(d, a) : Subtree(d, b) \subseteq Subtree(d, a)
<1> DEFINE p == Parent(d, a)
           A == Subtree(d, a)
<1>1. Shaped(d) /\ Linked(d) /\ Acyclic(d.nodes)
  BY DEF WellFormed
<1>2. p \in Places(d) /\ {a} \subseteq ToSet(Kids(d, p))
  BY <1>1 DEF Linked, Places
<1>3. A = AllUnder(d.nodes, {a})
  BY DEF Subtree
<1> HIDE DEF p, A
<1>4. /\ {a} \subseteq A /\ A \subseteq Blocks(d) /\ Closed(d.nodes, A)
      /\ \A U : {a} \subseteq U /\ Closed(d.nodes, U) => A \subseteq U
      /\ p \notin A /\ \A b \in A : b \in {a} \/ Parent(d, b) \in A
  <2> DEFINE ids == {a}
  <2>1. ids \subseteq ToSet(Kids(d, p)) /\ A = AllUnder(d.nodes, ids)
    BY <1>2, <1>3
  <2> HIDE DEF ids
  <2>2. /\ ids \subseteq A /\ A \subseteq Blocks(d) /\ Closed(d.nodes, A)
        /\ \A U : ids \subseteq U /\ Closed(d.nodes, U) => A \subseteq U
        /\ p \notin A /\ \A b \in A : b \in ids \/ Parent(d, b) \in A
    BY <1>1, <1>2, <2>1, AllBelow
  <2> QED
    BY <2>2 DEF ids
<1>5. ASSUME NEW b \in A PROVE Subtree(d, b) \subseteq A
  BY <1>1, <1>4, NodesOf, AllUnderLeast DEF Subtree
<1> QED
  BY <1>4, <1>5 DEF p, A

\* Of two blocks above a third, one is above the other.
LEMMA AncestorsNest ==
    ASSUME NEW d, WellFormed(d), NEW a \in Blocks(d), NEW c \in Blocks(d),
           NEW b \in Subtree(d, a) \cap Subtree(d, c)
    PROVE  a \in Subtree(d, c) \/ c \in Subtree(d, a)
<1> SUFFICES ASSUME a \notin Subtree(d, c), c \notin Subtree(d, a) PROVE FALSE
  OBVIOUS
<1> DEFINE A == Subtree(d, a)
           C == Subtree(d, c)
           U == A \ C
<1>1. /\ a \in A /\ A \subseteq Blocks(d) /\ Closed(d.nodes, A)
      /\ \A V : a \in V /\ Closed(d.nodes, V) => A \subseteq V
      /\ \A x \in C : x = c \/ Parent(d, x) \in C
  BY SubtreeView
<1> HIDE DEF A, C
<1>2. \A x \in Blocks(d) : \A y \in KidsOf(d.nodes, x) : Parent(d, y) = x
  BY NodesOf DEF WellFormed, Linked
<1>3. ASSUME NEW x \in U, NEW y \in KidsOf(d.nodes, x) PROVE y \in U
  BY <1>1, <1>2, <1>3 DEF Closed, A
<1>4. a \in U
  BY <1>1 DEF C
<1>5. A \subseteq U
  <2> HIDE DEF U
  <2> QED
    BY <1>1, <1>3, <1>4 DEF Closed
<1> QED
  BY <1>5 DEF A, C

\* What is below a block, other than itself, is below one of its children.
LEMMA BelowAChild ==
    ASSUME NEW d, WellFormed(d), NEW a \in Blocks(d), NEW b \in Subtree(d, a), b # a
    PROVE  \E c \in ToSet(Kids(d, a)) : c \in Blocks(d) /\ b \in Subtree(d, c)
<1> DEFINE U == {a} \cup {x \in Blocks(d) : \E c \in ToSet(Kids(d, a)) : c \in Blocks(d) /\ x \in Subtree(d, c)}
<1>1. /\ \A x \in Blocks(d) : KidsOf(d.nodes, x) = ToSet(Kids(d, x)) /\ KidsOf(d.nodes, x) \subseteq Blocks(d)
  BY NodesOf DEF WellFormed, KidsAreNodes
<1>2. ASSUME NEW x \in U, NEW y \in KidsOf(d.nodes, x) PROVE y \in U
  <2>1. CASE x = a
    BY <1>1, <1>2, <2>1, SubtreeView
  <2>2. CASE x # a
    <3>1. PICK c \in ToSet(Kids(d, a)) : c \in Blocks(d) /\ x \in Subtree(d, c)
      BY <1>2, <2>2
    <3>2. x \in Blocks(d) /\ Closed(d.nodes, Subtree(d, c))
      BY <1>2, <2>2, <3>1, SubtreeView
    <3>3. y \in Subtree(d, c) /\ y \in Blocks(d)
      BY <1>1, <1>2, <3>1, <3>2 DEF Closed
    <3> QED
      BY <3>1, <3>3
  <2> QED
    BY <2>1, <2>2
<1>3. a \in U
  OBVIOUS
<1> HIDE DEF U
<1>4. Subtree(d, a) \subseteq U
  BY <1>2, <1>3, SubtreeView DEF Closed
<1> QED
  BY <1>4 DEF U

\* And below one only.
LEMMA OneChildAbove ==
    ASSUME NEW d, WellFormed(d), NEW p \in Places(d), NEW c \in ToSet(Kids(d, p)), NEW e \in ToSet(Kids(d, p)),
           NEW b \in Subtree(d, c) \cap Subtree(d, e)
    PROVE  c = e
<1>1. c \in Blocks(d) /\ e \in Blocks(d) /\ Parent(d, c) = p /\ Parent(d, e) = p
  BY MemberOf DEF WellFormed, Linked, Places
<1>2. c \in Subtree(d, e) \/ e \in Subtree(d, c)
  BY <1>1, AncestorsNest
<1>3. CASE c \in Subtree(d, e)
  BY <1>1, <1>3, SubtreeView
<1>4. CASE e \in Subtree(d, c)
  BY <1>1, <1>4, SubtreeView
<1> QED
  BY <1>2, <1>3, <1>4

\* The ancestors of a block, itself the first, are read one before the other.
LEMMA AncestorsChain ==
    ASSUME NEW d, WellFormed(d), NEW b \in Blocks(d)
    PROVE  LET q == AncestorsOrSelf(d, b)
           IN  /\ q \in Seq(Blocks(d)) /\ Len(q) \in Nat \ {0} /\ q[1] = b
               /\ ToSet(q) = {a \in Blocks(d) : b \in Subtree(d, a)}
               /\ \A i, j \in 1 .. Len(q) : i < j => OrderOf(d, q[j]) < OrderOf(d, q[i])
               /\ Tail(q) \in Seq({a \in Blocks(d) : b \in Subtree(d, a) /\ a # b})
<1> DEFINE A == {a \in Blocks(d) : b \in Subtree(d, a)}
           order == DocOrder(d)
           s == Among(order, A)
           q == AncestorsOrSelf(d, b)
           n == Len(q)
<1>1. order \in Seq(Blocks(d)) /\ IsInjective(order) /\ ToSet(order) = Blocks(d)
  BY ReadingOrderIsComplete
<1>2. s \in Seq(A) /\ ToSet(s) = A /\ IsInjective(s)
  <2>1. s \in Seq(A) /\ ToSet(s) = ToSet(order) \cap A /\ IsInjective(s)
    BY <1>1, AmongView
  <2> QED
    BY <1>1, <2>1
<1>3. \A i, j \in 1 .. Len(s) : i < j => OrderOf(d, s[i]) < OrderOf(d, s[j])
  BY <1>1, AmongInOrder DEF OrderOf
<1>4. q = Reverse(s)
  BY DEF AncestorsOrSelf
<1> HIDE DEF s
<1>5. /\ q \in Seq(A) /\ n = Len(s) /\ ToSet(q) = A
      /\ \A i \in 1 .. Len(s) : q[i] = s[(Len(s) - i) + 1]
  BY <1>2, <1>4, ReverseView
<1> HIDE DEF q
<1>6. \A a \in A : OrderOf(d, a) \in Nat /\ OrderOf(d, a) <= OrderOf(d, b)
  BY AncestorsAreReadFirst
<1>7. b \in A
  BY SubtreeView
<1>8. n \in Nat /\ DOMAIN q = 1 .. n /\ \A i \in 1 .. n : q[i] \in A
  BY <1>5, LenProperties, ElementOfSeq
<1> HIDE DEF A
<1>9. \A i, j \in 1 .. n : i < j => OrderOf(d, q[j]) < OrderOf(d, q[i])
  <2> TAKE i, j \in 1 .. n
  <2> HAVE i < j
  <2>1. (n - i) + 1 \in 1 .. n /\ (n - j) + 1 \in 1 .. n /\ (n - j) + 1 < (n - i) + 1
    BY <1>8
  <2> DEFINE x == (n - i) + 1
             y == (n - j) + 1
  <2>2. q[i] = s[x] /\ q[j] = s[y]
    BY <1>5
  <2> HIDE DEF n, x, y
  <2>3. x \in 1 .. n /\ y \in 1 .. n /\ y < x
    BY <2>1 DEF x, y
  <2> QED
    BY <1>3, <1>5, <2>2, <2>3 DEF n
<1>10. PICK k \in 1 .. n : q[k] = b
  BY <1>5, <1>7, <1>8 DEF ToSet
<1>11. n \in Nat \ {0} /\ 1 \in 1 .. n
  BY <1>8, <1>10
<1>12. k = 1
  BY <1>8, <1>10, <1>9, <1>11, <1>6, <1>7
<1>13. Tail(q) \in Seq({a \in Blocks(d) : b \in Subtree(d, a) /\ a # b})
  <2> DEFINE B == {a \in Blocks(d) : b \in Subtree(d, a) /\ a # b}
             t == Tail(q)
  <2>1. \A a \in A : a # b => a \in B
    BY DEF A
  <2> HIDE DEF B
  <2>2. q # <<>>
    BY <1>5, <1>11, EmptySeq
  <2>3. t \in Seq(A) /\ Len(t) = n - 1 /\ \A i \in 1 .. n - 1 : t[i] = q[i + 1]
    BY <1>5, <2>2, HeadTailProperties
  <2>4. \A i \in 1 .. n - 1 : t[i] \in B
    <3> TAKE i \in 1 .. n - 1
    <3>1. i + 1 \in 1 .. n /\ 1 < i + 1
      BY <1>8
    <3>2. OrderOf(d, q[i + 1]) < OrderOf(d, q[1]) /\ q[i + 1] \in A
      BY <1>8, <1>9, <1>11, <3>1
    <3>3. OrderOf(d, q[1]) = OrderOf(d, b) /\ OrderOf(d, b) \in Nat
      BY <1>6, <1>7, <1>10, <1>12
    <3>4. q[i + 1] # b
      BY <3>2, <3>3
    <3> QED
      BY <2>1, <2>3, <3>2, <3>4
  <2> HIDE DEF t
  <2>5. n - 1 \in Nat
    BY <1>11
  <2>6. t = [i \in 1 .. n - 1 |-> t[i]]
    BY <2>3, <2>5
  <2>7. t \in [1 .. n - 1 -> B]
    BY <2>4, <2>6
  <2>8. t \in Seq(B)
    BY <2>5, <2>7, SeqDef
  <2> QED
    BY <2>8 DEF t, B
<1>14. q \in Seq(Blocks(d))
  BY <1>5 DEF A
<1> QED
  BY <1>5, <1>9, <1>10, <1>11, <1>12, <1>13, <1>14 DEF q, A

-----------------------------------------------------------------------------
(***************************************************************************)
(* Runs of steps and of instructions, and savepoints folded into outer     *)
(* ones, one after another.                                                *)
(***************************************************************************)

SteppingNext(t, steps, at, n) == StepIn(at, steps[n])
SteppingBody(t, steps, f) ==
    [n \in 0 .. Len(steps) |-> IF n = 0 THEN t ELSE SteppingNext(t, steps, f[n - 1], n)]
SteppingAt(t, steps) == CHOOSE f : f = SteppingBody(t, steps, f)

\* A list of steps, one step after another.
LEMMA SteppingUnfolds ==
    ASSUME NEW t, NEW steps, Len(steps) \in Nat
    PROVE  /\ RunSteps(t, steps) = SteppingAt(t, steps)[Len(steps)]
           /\ SteppingAt(t, steps)[0] = t
           /\ \A n \in 0 .. Len(steps) - 1 :
                 SteppingAt(t, steps)[n + 1] = SteppingNext(t, steps, SteppingAt(t, steps)[n], n + 1)
<1> DEFINE len == Len(steps)
           Upto(m, f) == [n \in 0 .. m |-> IF n = 0 THEN t ELSE SteppingNext(t, steps, f[n - 1], n)]
           Found == {m \in Nat : \E f : f = Upto(m, f)}
<1>1. 0 \in Found
  <2> DEFINE f == [n \in 0 .. 0 |-> t]
  <2>1. f = Upto(0, f)
    OBVIOUS
  <2> HIDE DEF f, Upto
  <2> QED
    BY <2>1
<1>2. ASSUME NEW m \in Nat, m \in Found PROVE m + 1 \in Found
  <2>1. PICK f : f = Upto(m, f)
    BY <1>2
  <2> DEFINE g == [n \in 0 .. m + 1 |-> IF n = m + 1 THEN SteppingNext(t, steps, f[m], n) ELSE f[n]]
  <2>2. ASSUME NEW n \in 0 .. m + 1
        PROVE  g[n] = IF n = 0 THEN t ELSE SteppingNext(t, steps, g[n - 1], n)
    <3>1. CASE n = m + 1
      <4>1. n # 0 /\ n - 1 = m /\ m \in 0 .. m + 1 /\ m # m + 1
        BY <3>1
      <4>2. g[m] = f[m]
        BY <4>1
      <4>3. g[n] = SteppingNext(t, steps, f[m], n)
        BY <3>1
      <4> HIDE DEF g
      <4> QED
        BY <4>1, <4>2, <4>3
    <3>2. CASE n # m + 1
      <4>1. n \in 0 .. m
        BY <3>2
      <4>2. g[n] = f[n]
        BY <3>2
      <4>3. f[n] = IF n = 0 THEN t ELSE SteppingNext(t, steps, f[n - 1], n)
        <5>1. Upto(m, f)[n] = IF n = 0 THEN t ELSE SteppingNext(t, steps, f[n - 1], n)
          BY <4>1
        <5> HIDE DEF Upto
        <5> QED
          BY <2>1, <5>1, Zenon
      <4>4. n # 0 => g[n - 1] = f[n - 1]
        BY <4>1
      <4> HIDE DEF g
      <4> QED
        BY <4>2, <4>3, <4>4
    <3> QED
      BY <3>1, <3>2
  <2>3. g = Upto(m + 1, g)
    <3>1. g = [n \in 0 .. m + 1 |-> g[n]]
      OBVIOUS
    <3>2. Upto(m + 1, g) = [n \in 0 .. m + 1 |-> IF n = 0 THEN t ELSE SteppingNext(t, steps, g[n - 1], n)]
      OBVIOUS
    <3> HIDE DEF g, Upto
    <3> QED
      BY <2>2, <3>1, <3>2
  <2> HIDE DEF g, Upto
  <2> QED
    BY <2>3
<1>3. len \in Found
  <2> HIDE DEF Found
  <2> QED
    BY <1>1, <1>2, NaturalSet
<1>4. \E f : f = SteppingBody(t, steps, f)
  <2>1. \E f : f = Upto(len, f)
    <3> HIDE DEF Upto
    <3> QED
      BY <1>3
  <2>2. \A f : Upto(len, f) = SteppingBody(t, steps, f)
    BY DEF SteppingBody
  <2> HIDE DEF Upto
  <2> QED
    BY <2>1, <2>2
<1>5. SteppingAt(t, steps) = SteppingBody(t, steps, SteppingAt(t, steps))
  BY <1>4 DEF SteppingAt
<1>6. \A n \in 0 .. len : SteppingAt(t, steps)[n] =
         IF n = 0 THEN t ELSE SteppingNext(t, steps, SteppingAt(t, steps)[n - 1], n)
  <2> DEFINE f == SteppingAt(t, steps)
  <2> HIDE DEF f
  <2>1. f = SteppingBody(t, steps, f)
    BY <1>5 DEF f
  <2>2. \A n \in 0 .. len : SteppingBody(t, steps, f)[n] = IF n = 0 THEN t ELSE SteppingNext(t, steps, f[n - 1], n)
    BY DEF SteppingBody
  <2> QED
    BY <2>1, <2>2, Zenon DEF f
<1>7. RunSteps(t, steps) = SteppingAt(t, steps)[Len(steps)]
  BY DEF RunSteps, SteppingAt, SteppingBody, SteppingNext
<1>8. SteppingAt(t, steps)[0] = t
  BY <1>6
<1> HIDE DEF Upto, Found
<1>9. ASSUME NEW n \in 0 .. len - 1
      PROVE  SteppingAt(t, steps)[n + 1] = SteppingNext(t, steps, SteppingAt(t, steps)[n], n + 1)
  BY <1>6
<1> QED
  BY <1>7, <1>8, <1>9
\* Nothing to run, one step, and one list after another.
LEMMA RunStepsParts ==
    /\ \A t : RunSteps(t, <<>>) = t
    /\ \A t, s : RunSteps(t, <<s>>) = StepIn(t, s)
    /\ \A T : \A p, q \in Seq(T) : \A t : RunSteps(t, p \o q) = RunSteps(RunSteps(t, p), q)
<1>1. ASSUME NEW t PROVE RunSteps(t, <<>>) = t
  <2> DEFINE q == <<>>
  <2>1. Len(q) = 0 /\ Len(q) \in Nat
    OBVIOUS
  <2> HIDE DEF q
  <2>2. RunSteps(t, q) = SteppingAt(t, q)[Len(q)] /\ SteppingAt(t, q)[0] = t
    BY <2>1, SteppingUnfolds, Zenon
  <2>3. RunSteps(t, q) = t
    BY <2>1, <2>2
  <2> QED
    BY <2>3 DEF q
<1>2. ASSUME NEW t, NEW s PROVE RunSteps(t, <<s>>) = StepIn(t, s)
  <2>1. ASSUME NEW q, Len(q) = 1, q[1] = s PROVE RunSteps(t, q) = StepIn(t, s)
    <3>1. Len(q) \in Nat
      BY <2>1
    <3>2. /\ RunSteps(t, q) = SteppingAt(t, q)[Len(q)] /\ SteppingAt(t, q)[0] = t
          /\ \A n \in 0 .. Len(q) - 1 : SteppingAt(t, q)[n + 1] = SteppingNext(t, q, SteppingAt(t, q)[n], n + 1)
      BY <3>1, SteppingUnfolds
    <3>3. 0 \in 0 .. Len(q) - 1 /\ 0 + 1 = 1
      BY <2>1
    <3>4. SteppingAt(t, q)[1] = SteppingNext(t, q, t, 1)
      BY <3>2, <3>3
    <3> QED
      BY <2>1, <3>2, <3>4 DEF SteppingNext
  <2>2. Len(<<s>>) = 1 /\ <<s>>[1] = s
    OBVIOUS
  <2> QED
    BY <2>1, <2>2
<1>3. ASSUME NEW T, NEW p \in Seq(T), NEW q \in Seq(T), NEW t
      PROVE  RunSteps(t, p \o q) = RunSteps(RunSteps(t, p), q)
  <2> DEFINE r == p \o q
             m == Len(p)
             n == Len(q)
             mid == RunSteps(t, p)
             A(k) == SteppingAt(t, p)[k]
             B(k) == SteppingAt(mid, q)[k]
             C(k) == SteppingAt(t, r)[k]
  <2>1. /\ m \in Nat /\ n \in Nat /\ Len(r) = m + n
        /\ \A i \in 1 .. m : r[i] = p[i]
        /\ \A i \in 1 .. n : r[m + i] = q[i]
    BY ConcatOf, LenProperties
  <2> HIDE DEF r
  <2> DEFINE Runs(u, l, end) ==
               /\ RunSteps(u, l) = SteppingAt(u, l)[end] /\ SteppingAt(u, l)[0] = u
               /\ \A k \in 0 .. end - 1 : SteppingAt(u, l)[k + 1] = StepIn(SteppingAt(u, l)[k], l[k + 1])
  <2>0. ASSUME NEW u, NEW l, Len(l) \in Nat PROVE Runs(u, l, Len(l))
    BY <2>0, SteppingUnfolds DEF SteppingNext
  <2>10. Runs(t, p, m) /\ Runs(mid, q, n) /\ Runs(t, r, m + n)
    <3>1. Len(p) \in Nat /\ Len(q) \in Nat /\ Len(r) \in Nat
      BY <2>1
    <3> HIDE DEF Runs
    <3> QED
      BY <2>0, <2>1, <3>1, Zenon
  <2>2. /\ mid = A(m) /\ A(0) = t /\ \A k \in 0 .. m - 1 : A(k + 1) = StepIn(A(k), p[k + 1])
    BY <2>10, Zenon
  <2>3. /\ RunSteps(t, r) = C(m + n) /\ C(0) = t /\ \A k \in 0 .. (m + n) - 1 : C(k + 1) = StepIn(C(k), r[k + 1])
    BY <2>10, Zenon
  <2>4. /\ RunSteps(mid, q) = B(n) /\ B(0) = mid /\ \A k \in 0 .. n - 1 : B(k + 1) = StepIn(B(k), q[k + 1])
    BY <2>10, Zenon
  <2> HIDE DEF mid, A
  <2> HIDE DEF B, C
  <2> DEFINE F == {k \in Nat : k <= m => C(k) = A(k)}
             G == {k \in Nat : k <= n => C(m + k) = B(k)}
  <2>5. Nat \subseteq F
    <3>1. 0 \in F
      BY <2>2, <2>3
    <3>2. ASSUME NEW k \in Nat, k \in F PROVE k + 1 \in F
      BY <2>1, <3>2, <2>2, <2>3
    <3> HIDE DEF F
    <3> QED
      BY <3>1, <3>2, NaturalSet
  <2>6. C(m) = mid
    BY <2>1, <2>2, <2>5
  <2>7. Nat \subseteq G
    <3>1. 0 \in G
      BY <2>1, <2>4, <2>6
    <3>2. ASSUME NEW k \in Nat, k \in G PROVE k + 1 \in G
      BY <2>1, <3>2, <2>3, <2>4
    <3> HIDE DEF G
    <3> QED
      BY <3>1, <3>2, NaturalSet
  <2>8. C(m + n) = B(n)
    BY <2>1, <2>7
  <2> QED
    BY <2>3, <2>4, <2>8 DEF mid, r
<1> QED
  BY <1>1, <1>2, <1>3

TxFields == {"ok", "doc", "steps", "inverses", "maps", "touched", "structural", "version"}
IsTx(t) == IsA(t, TxFields) /\ t.ok \in BOOLEAN

\* What a step makes of a transaction.
LEMMA StepInView ==
    ASSUME NEW t, IsTx(t), NEW s, IsTyped(s)
    PROVE  LET a == StepApply(t.doc, s)
               r == StepIn(t, s)
           IN  /\ IsTx(r)
               /\ ~t.ok => r = t
               /\ t.ok => r.ok = a.ok /\ r.doc = a.doc
               /\ t.ok /\ a.ok => r = TransactionStep(t, s, a)
               /\ t.ok /\ ~a.ok => r = [t EXCEPT !.ok = FALSE, !.doc = a.doc]
               /\ a.ok \in BOOLEAN
<1> DEFINE a == StepApply(t.doc, s)
           r == StepIn(t, s)
<1>1. s # GiveUp
  BY DEF IsTyped, IsStep, GiveUp
<1>2. a.ok \in BOOLEAN
  <2> DEFINE before == RecordBefore(t.doc, s)
             b == Perform(before, s)
  <2>1. CASE ~b.ok
    BY <2>1 DEF StepApply, Failed
  <2>2. CASE b.ok
    <3>1. b = [f \in {"ok", "doc", "inverse", "map", "touched", "structural"} |-> b[f]]
      BY <2>2, AppliedFields DEF IsTyped
    <3>2. a.ok = b.ok
      <4>1. a = [b EXCEPT !.doc = RecordInverse([b.doc EXCEPT !.version = @ + 1], b.inverse)]
        BY <2>2 DEF StepApply
      <4> HIDE DEF a, b
      <4> QED
        BY <3>1, <4>1
    <3>3. b.ok = TRUE
      <4>1. s.op \in {"InsertInline", "RemoveInline", "AddMark", "RemoveMark", "RestoreMarks", "SetBlock",
                      "Split", "Join", "InsertBlocks", "RemoveBlocks", "MoveBlocks"}
        BY DEF IsTyped, IsStep
      <4> QED
        BY <2>2, <4>1 DEF Perform, InsertInline, RemoveInline, AddMark, RemoveMark, RestoreMarks, Format, SetBlock,
           Split, Join, InsertBlocks, RemoveBlocks, MoveBlocks, Applied, Failed
    <3> QED
      BY <3>2, <3>3
  <2> QED
    BY <2>1, <2>2
<1> HIDE DEF a
<1>3. r = IF ~t.ok THEN t
          ELSE IF a.ok THEN TransactionStep(t, s, a) ELSE [t EXCEPT !.ok = FALSE, !.doc = a.doc]
  BY <1>1 DEF StepIn, a
<1> HIDE DEF r
<1>4. t = [f \in TxFields |-> t[f]] /\ t.ok \in BOOLEAN
  BY DEF IsTx, IsA
<1>5. CASE ~t.ok
  BY <1>2, <1>3, <1>5 DEF r, a
<1>6. CASE t.ok /\ a.ok
  BY <1>3, <1>6, <1>4, <1>2 DEF IsTx, IsA, TransactionStep, TxFields, r, a
<1>7. CASE t.ok /\ ~a.ok
  BY <1>3, <1>7, <1>4, <1>2 DEF IsTx, IsA, TxFields, r, a
<1> QED
  BY <1>5, <1>6, <1>7

ScriptingNext(t, script, at, n) == Instruct(at, script[n])
ScriptingBody(t, script, f) ==
    [n \in 0 .. Len(script) |-> IF n = 0 THEN t ELSE ScriptingNext(t, script, f[n - 1], n)]
ScriptingAt(t, script) == CHOOSE f : f = ScriptingBody(t, script, f)

\* A script, one instruction after another.
LEMMA ScriptingUnfolds ==
    ASSUME NEW t, NEW script, Len(script) \in Nat
    PROVE  /\ RunScript(t, script) = IF ScriptingAt(t, script)[Len(script)].ok THEN ScriptingAt(t, script)[Len(script)]
                                  ELSE RolledBack(ScriptingAt(t, script)[Len(script)])
           /\ ScriptingAt(t, script)[0] = t
           /\ \A n \in 0 .. Len(script) - 1 :
                 ScriptingAt(t, script)[n + 1] = ScriptingNext(t, script, ScriptingAt(t, script)[n], n + 1)
<1> DEFINE len == Len(script)
           Upto(m, f) == [n \in 0 .. m |-> IF n = 0 THEN t ELSE ScriptingNext(t, script, f[n - 1], n)]
           Found == {m \in Nat : \E f : f = Upto(m, f)}
<1>1. 0 \in Found
  <2> DEFINE f == [n \in 0 .. 0 |-> t]
  <2>1. f = Upto(0, f)
    OBVIOUS
  <2> HIDE DEF f, Upto
  <2> QED
    BY <2>1
<1>2. ASSUME NEW m \in Nat, m \in Found PROVE m + 1 \in Found
  <2>1. PICK f : f = Upto(m, f)
    BY <1>2
  <2> DEFINE g == [n \in 0 .. m + 1 |-> IF n = m + 1 THEN ScriptingNext(t, script, f[m], n) ELSE f[n]]
  <2>2. ASSUME NEW n \in 0 .. m + 1
        PROVE  g[n] = IF n = 0 THEN t ELSE ScriptingNext(t, script, g[n - 1], n)
    <3>1. CASE n = m + 1
      <4>1. n # 0 /\ n - 1 = m /\ m \in 0 .. m + 1 /\ m # m + 1
        BY <3>1
      <4>2. g[m] = f[m]
        BY <4>1
      <4>3. g[n] = ScriptingNext(t, script, f[m], n)
        BY <3>1
      <4> HIDE DEF g
      <4> QED
        BY <4>1, <4>2, <4>3
    <3>2. CASE n # m + 1
      <4>1. n \in 0 .. m
        BY <3>2
      <4>2. g[n] = f[n]
        BY <3>2
      <4>3. f[n] = IF n = 0 THEN t ELSE ScriptingNext(t, script, f[n - 1], n)
        <5>1. Upto(m, f)[n] = IF n = 0 THEN t ELSE ScriptingNext(t, script, f[n - 1], n)
          BY <4>1
        <5> HIDE DEF Upto
        <5> QED
          BY <2>1, <5>1, Zenon
      <4>4. n # 0 => g[n - 1] = f[n - 1]
        BY <4>1
      <4> HIDE DEF g
      <4> QED
        BY <4>2, <4>3, <4>4
    <3> QED
      BY <3>1, <3>2
  <2>3. g = Upto(m + 1, g)
    <3>1. g = [n \in 0 .. m + 1 |-> g[n]]
      OBVIOUS
    <3>2. Upto(m + 1, g) = [n \in 0 .. m + 1 |-> IF n = 0 THEN t ELSE ScriptingNext(t, script, g[n - 1], n)]
      OBVIOUS
    <3> HIDE DEF g, Upto
    <3> QED
      BY <2>2, <3>1, <3>2
  <2> HIDE DEF g, Upto
  <2> QED
    BY <2>3
<1>3. len \in Found
  <2> HIDE DEF Found
  <2> QED
    BY <1>1, <1>2, NaturalSet
<1>4. \E f : f = ScriptingBody(t, script, f)
  <2>1. \E f : f = Upto(len, f)
    <3> HIDE DEF Upto
    <3> QED
      BY <1>3
  <2>2. \A f : Upto(len, f) = ScriptingBody(t, script, f)
    BY DEF ScriptingBody
  <2> HIDE DEF Upto
  <2> QED
    BY <2>1, <2>2
<1>5. ScriptingAt(t, script) = ScriptingBody(t, script, ScriptingAt(t, script))
  BY <1>4 DEF ScriptingAt
<1>6. \A n \in 0 .. len : ScriptingAt(t, script)[n] =
         IF n = 0 THEN t ELSE ScriptingNext(t, script, ScriptingAt(t, script)[n - 1], n)
  <2> DEFINE f == ScriptingAt(t, script)
  <2> HIDE DEF f
  <2>1. f = ScriptingBody(t, script, f)
    BY <1>5 DEF f
  <2>2. \A n \in 0 .. len : ScriptingBody(t, script, f)[n] = IF n = 0 THEN t ELSE ScriptingNext(t, script, f[n - 1], n)
    BY DEF ScriptingBody
  <2> QED
    BY <2>1, <2>2, Zenon DEF f
<1>7. RunScript(t, script) = IF ScriptingAt(t, script)[Len(script)].ok THEN ScriptingAt(t, script)[Len(script)]
                                  ELSE RolledBack(ScriptingAt(t, script)[Len(script)])
  BY DEF RunScript, OrRolledBack, ScriptingAt, ScriptingBody, ScriptingNext
<1>8. ScriptingAt(t, script)[0] = t
  BY <1>6
<1> HIDE DEF Upto, Found
<1>9. ASSUME NEW n \in 0 .. len - 1
      PROVE  ScriptingAt(t, script)[n + 1] = ScriptingNext(t, script, ScriptingAt(t, script)[n], n + 1)
  BY <1>6
<1> QED
  BY <1>7, <1>8, <1>9

FoldingNext(saves, depth, at, n) == Absorb(at, saves[depth + n])
FoldingBody(saves, depth, f) ==
    [n \in 0 .. Len(saves) - depth |-> IF n = 0 THEN saves[depth] ELSE FoldingNext(saves, depth, f[n - 1], n)]
FoldingAt(saves, depth) == CHOOSE f : f = FoldingBody(saves, depth, f)

\* Savepoints folded into an outer one, one after another.
LEMMA FoldingUnfolds ==
    ASSUME NEW saves, NEW depth, Len(saves) - depth \in Nat
    PROVE  /\ CollapseInto(saves, depth) = Append(SubSeq(saves, 1, depth - 1), FoldingAt(saves, depth)[Len(saves) - depth])
           /\ FoldingAt(saves, depth)[0] = saves[depth]
           /\ \A n \in 0 .. Len(saves) - depth - 1 :
                 FoldingAt(saves, depth)[n + 1] = FoldingNext(saves, depth, FoldingAt(saves, depth)[n], n + 1)
<1> DEFINE len == Len(saves) - depth
           Upto(m, f) == [n \in 0 .. m |-> IF n = 0 THEN saves[depth] ELSE FoldingNext(saves, depth, f[n - 1], n)]
           Found == {m \in Nat : \E f : f = Upto(m, f)}
<1>1. 0 \in Found
  <2> DEFINE f == [n \in 0 .. 0 |-> saves[depth]]
  <2>1. f = Upto(0, f)
    OBVIOUS
  <2> HIDE DEF f, Upto
  <2> QED
    BY <2>1
<1>2. ASSUME NEW m \in Nat, m \in Found PROVE m + 1 \in Found
  <2>1. PICK f : f = Upto(m, f)
    BY <1>2
  <2> DEFINE g == [n \in 0 .. m + 1 |-> IF n = m + 1 THEN FoldingNext(saves, depth, f[m], n) ELSE f[n]]
  <2>2. ASSUME NEW n \in 0 .. m + 1
        PROVE  g[n] = IF n = 0 THEN saves[depth] ELSE FoldingNext(saves, depth, g[n - 1], n)
    <3>1. CASE n = m + 1
      <4>1. n # 0 /\ n - 1 = m /\ m \in 0 .. m + 1 /\ m # m + 1
        BY <3>1
      <4>2. g[m] = f[m]
        BY <4>1
      <4>3. g[n] = FoldingNext(saves, depth, f[m], n)
        BY <3>1
      <4> HIDE DEF g
      <4> QED
        BY <4>1, <4>2, <4>3
    <3>2. CASE n # m + 1
      <4>1. n \in 0 .. m
        BY <3>2
      <4>2. g[n] = f[n]
        BY <3>2
      <4>3. f[n] = IF n = 0 THEN saves[depth] ELSE FoldingNext(saves, depth, f[n - 1], n)
        <5>1. Upto(m, f)[n] = IF n = 0 THEN saves[depth] ELSE FoldingNext(saves, depth, f[n - 1], n)
          BY <4>1
        <5> HIDE DEF Upto
        <5> QED
          BY <2>1, <5>1, Zenon
      <4>4. n # 0 => g[n - 1] = f[n - 1]
        BY <4>1
      <4> HIDE DEF g
      <4> QED
        BY <4>2, <4>3, <4>4
    <3> QED
      BY <3>1, <3>2
  <2>3. g = Upto(m + 1, g)
    <3>1. g = [n \in 0 .. m + 1 |-> g[n]]
      OBVIOUS
    <3>2. Upto(m + 1, g) = [n \in 0 .. m + 1 |-> IF n = 0 THEN saves[depth] ELSE FoldingNext(saves, depth, g[n - 1], n)]
      OBVIOUS
    <3> HIDE DEF g, Upto
    <3> QED
      BY <2>2, <3>1, <3>2
  <2> HIDE DEF g, Upto
  <2> QED
    BY <2>3
<1>3. len \in Found
  <2> HIDE DEF Found
  <2> QED
    BY <1>1, <1>2, NaturalSet
<1>4. \E f : f = FoldingBody(saves, depth, f)
  <2>1. \E f : f = Upto(len, f)
    <3> HIDE DEF Upto
    <3> QED
      BY <1>3
  <2>2. \A f : Upto(len, f) = FoldingBody(saves, depth, f)
    BY DEF FoldingBody
  <2> HIDE DEF Upto
  <2> QED
    BY <2>1, <2>2
<1>5. FoldingAt(saves, depth) = FoldingBody(saves, depth, FoldingAt(saves, depth))
  BY <1>4 DEF FoldingAt
<1>6. \A n \in 0 .. len : FoldingAt(saves, depth)[n] =
         IF n = 0 THEN saves[depth] ELSE FoldingNext(saves, depth, FoldingAt(saves, depth)[n - 1], n)
  <2> DEFINE f == FoldingAt(saves, depth)
  <2> HIDE DEF f
  <2>1. f = FoldingBody(saves, depth, f)
    BY <1>5 DEF f
  <2>2. \A n \in 0 .. len : FoldingBody(saves, depth, f)[n] = IF n = 0 THEN saves[depth] ELSE FoldingNext(saves, depth, f[n - 1], n)
    BY DEF FoldingBody
  <2> QED
    BY <2>1, <2>2, Zenon DEF f
<1>7. CollapseInto(saves, depth) = Append(SubSeq(saves, 1, depth - 1), FoldingAt(saves, depth)[Len(saves) - depth])
  BY DEF CollapseInto, FoldingAt, FoldingBody, FoldingNext
<1>8. FoldingAt(saves, depth)[0] = saves[depth]
  BY <1>6
<1> HIDE DEF Upto, Found
<1>9. ASSUME NEW n \in 0 .. len - 1
      PROVE  FoldingAt(saves, depth)[n + 1] = FoldingNext(saves, depth, FoldingAt(saves, depth)[n], n + 1)
  BY <1>6
<1> QED
  BY <1>7, <1>8, <1>9

-----------------------------------------------------------------------------
(***************************************************************************)
(* What Step::apply makes of ids, savepoints and revisions.                *)
(***************************************************************************)

SavesAfter(d, s) ==
    LET a == StepApply(d, s)
        before == RecordBefore(d, s)
    IN  IF a.ok THEN RecordInverse(before, a.inverse).saves ELSE before.saves

\* The two records a step makes leave the rest of the document alone.
LEMMA RecordsView ==
    ASSUME NEW d
    PROVE  /\ \A s : LET e == RecordBefore(d, s)
                     IN  /\ e.nodes = d.nodes /\ e.root = d.root /\ e.next = d.next /\ e.version = d.version
                         /\ d.saves = <<>> => e = d
           /\ \A x : LET e == RecordInverse(d, x)
                     IN  /\ e.nodes = d.nodes /\ e.root = d.root /\ e.next = d.next /\ e.version = d.version
                         /\ d.saves = <<>> => e = d
  BY DEF RecordBefore, RecordInverse

\* A step applied is what it performs on the document with its savepoints'
\* record, and the record of its inverse.
LEMMA StepApplyParts ==
    ASSUME NEW d, WellFormed(d), NEW s, IsTyped(s)
    PROVE  LET a == StepApply(d, s)
               before == RecordBefore(d, s)
               result == Perform(before, s)
           IN  /\ WellFormed(before) /\ Twins(d, before) /\ Twins(d, d)
               /\ a.ok \in BOOLEAN /\ a.ok = result.ok /\ WellFormed(a.doc)
               /\ ~a.ok => a.doc = before /\ Twins(d, a.doc)
               /\ a.ok => /\ a.inverse = result.inverse /\ IsStep(a.inverse)
                          /\ a.doc.nodes = result.doc.nodes /\ a.doc.next = result.doc.next
                          /\ Twins(result.doc, a.doc)
               /\ a.doc.saves = SavesAfter(d, s)
<1> DEFINE a == StepApply(d, s)
           before == RecordBefore(d, s)
           result == Perform(before, s)
           counted == [result.doc EXCEPT !.version = @ + 1]
           doc == RecordInverse(counted, result.inverse)
<1>1. IsStep(s)
  BY DEF IsTyped
<1>2. /\ Twins(d, before)
      /\ ~result.ok => ~a.ok /\ a.doc = before
      /\ result.ok => a.ok /\ a.inverse = result.inverse /\ Twins(result.doc, a.doc)
  BY <1>1, StepApplyView
<1>3. WellFormed(before) /\ Twins(d, d)
  BY <1>2, TwinsAreEqual DEF Twins
<1>4. a.ok \in BOOLEAN
  <2>1. IsTx(NoCommit(d))
    BY DEF IsTx, IsA, NoCommit, TxFields
  <2>2. NoCommit(d).doc = d
    BY DEF NoCommit
  <2> HIDE DEF a
  <2> QED
    BY <2>1, <2>2, StepInView DEF a
<1>5. a.ok => a.doc = doc
  <2>1. a = IF ~result.ok THEN Failed(before) ELSE [result EXCEPT !.doc = doc]
    BY DEF StepApply
  <2>2. ASSUME result.ok PROVE result = [f \in {"ok", "doc", "inverse", "map", "touched", "structural"} |-> result[f]]
    BY <1>1, <2>2, AppliedFields
  <2> HIDE DEF a, doc, result
  <2> QED
    BY <1>2, <2>1, <2>2
<1>6. result.ok => result.doc.saves = before.saves
  <2> HIDE DEF before
  <2> QED
    BY <1>3, PerformIds
<1>7. ASSUME a.ok PROVE a.doc.nodes = result.doc.nodes /\ a.doc.next = result.doc.next
  <2>1. counted.nodes = result.doc.nodes /\ counted.next = result.doc.next
    OBVIOUS
  <2>2. doc.nodes = counted.nodes /\ doc.next = counted.next
    <3> HIDE DEF counted
    <3> QED
      BY RecordsView
  <2> HIDE DEF counted, a, doc, result
  <2> QED
    BY <1>5, <1>7, <2>1, <2>2
<1>8. a.doc.saves = SavesAfter(d, s)
  <2>1. ASSUME NEW x, NEW y, NEW z, x.saves = y.saves, x = [result.doc EXCEPT !.version = @ + 1]
        PROVE  RecordInverse(x, z).saves = RecordInverse(y, z).saves
    BY <2>1 DEF RecordInverse
  <2>2. CASE a.ok
    <3>1. result.ok /\ a.inverse = result.inverse
      BY <1>2, <2>2
    <3>2. counted.saves = before.saves
      BY <1>6, <3>1
    <3>3. doc.saves = RecordInverse(before, a.inverse).saves
      <4>1. doc.saves = IF counted.saves = <<>> THEN counted.saves
                        ELSE [counted.saves EXCEPT ![Len(counted.saves)].inverses = Append(@, result.inverse)]
        BY DEF RecordInverse
      <4>2. RecordInverse(before, result.inverse).saves =
               IF before.saves = <<>> THEN before.saves
               ELSE [before.saves EXCEPT ![Len(before.saves)].inverses = Append(@, result.inverse)]
        <5>1. before = [f \in {"nodes", "root", "next", "version", "saves"} |-> before[f]]
          BY <1>3 DEF WellFormed, Shaped, IsA
        <5> HIDE DEF before
        <5> QED
          BY <5>1 DEF RecordInverse
      <4> HIDE DEF doc, counted, before, result
      <4> QED
        BY <3>1, <3>2, <4>1, <4>2
    <3> HIDE DEF a, doc, before
    <3> QED
      BY <1>5, <2>2, <3>3 DEF SavesAfter, a, before
  <2>3. CASE ~a.ok
    BY <1>2, <2>3 DEF SavesAfter
  <2> QED
    BY <2>2, <2>3
<1>9. a.ok => IsStep(a.inverse)
  BY <1>1, StepApplyKeepsWellFormed
<1> HIDE DEF a, before, result
<1>10. WellFormed(a.doc) /\ a.ok = result.ok
  <2>1. result.ok => WellFormed(a.doc)
    BY <1>2 DEF Twins
  <2>2. ~result.ok => WellFormed(a.doc)
    BY <1>2, <1>3
  <2>3. result.ok \in BOOLEAN
    <3>1. s.op \in {"InsertInline", "RemoveInline", "AddMark", "RemoveMark", "RestoreMarks", "SetBlock",
                    "Split", "Join", "InsertBlocks", "RemoveBlocks", "MoveBlocks"}
      BY <1>1 DEF IsStep
    <3> QED
      BY <3>1 DEF result, Perform, InsertInline, RemoveInline, AddMark, RemoveMark, RestoreMarks, Format, SetBlock,
         Split, Join, InsertBlocks, RemoveBlocks, MoveBlocks, Applied, Failed
  <2> QED
    BY <1>2, <1>4, <2>1, <2>2, <2>3
<1> QED
  BY <1>2, <1>3, <1>4, <1>7, <1>8, <1>9, <1>10 DEF a, before, result

\* The ids stay ids, and the inverse is a step with such ids.
LEMMA StepApplyIds ==
    ASSUME NEW d, IsDocument(d), NEW s, IsTyped(s)
    PROVE  LET a == StepApply(d, s)
           IN  /\ IsDocument(a.doc) /\ a.doc.next >= d.next
               /\ a.ok => IsTyped(a.inverse)
               /\ d.saves = <<>> => a.doc.saves = <<>>
<1> DEFINE a == StepApply(d, s)
           before == RecordBefore(d, s)
           result == Perform(before, s)
<1>1. WellFormed(d) /\ Ids(d)
  BY DEF IsDocument
<1>2. /\ WellFormed(before) /\ Twins(d, before)
      /\ a.ok \in BOOLEAN /\ a.ok = result.ok /\ WellFormed(a.doc)
      /\ ~a.ok => a.doc = before
      /\ a.ok => /\ a.inverse = result.inverse
                 /\ a.doc.nodes = result.doc.nodes /\ a.doc.next = result.doc.next
      /\ a.doc.saves = SavesAfter(d, s)
  BY <1>1, StepApplyParts
<1>3. /\ before.nodes = d.nodes /\ before.next = d.next
      /\ d.saves = <<>> => before = d
  BY RecordsView
<1>4. d.saves = <<>> => SavesAfter(d, s) = <<>>
  BY <1>3, RecordsView DEF SavesAfter
<1> HIDE DEF before, a
<1>5. Ids(before) /\ before.next >= d.next
  BY <1>1, <1>3 DEF Ids, Blocks
<1>6. result.ok => Ids(result.doc) /\ IsTyped(result.inverse) /\ result.doc.next >= before.next
  BY <1>2, <1>5, PerformIds
<1> HIDE DEF result
<1>7. a.ok => Ids(a.doc) /\ IsTyped(a.inverse) /\ a.doc.next >= d.next
  BY <1>2, <1>3, <1>6 DEF Ids, Blocks
<1>8. Ids(a.doc) /\ a.doc.next >= d.next
  BY <1>2, <1>5, <1>7
<1> QED
  BY <1>2, <1>4, <1>7, <1>8 DEF IsDocument, a

-----------------------------------------------------------------------------
(***************************************************************************)
(* Revisions: a step changes those of the blocks it affects, which a       *)
(* savepoint has recorded before, and of no others.                        *)
(***************************************************************************)

\* What is left of the blocks of S, revisions included.
Spared(d, e, S) == \A b \in S : b \in Blocks(e) /\ e.nodes[b].rev = d.nodes[b].rev

\* A node put, a text set and the children of a place set leave the revisions
\* of every other block.
LEMMA SparedByMutators ==
    ASSUME NEW d, Shaped(d)
    PROVE  /\ \A b \in Blocks(d) : \A node : Spared(d, PutNode(d, b, node), Blocks(d) \ {b})
           /\ \A b \in Blocks(d) : \A text : Spared(d, SetText(d, b, text), Blocks(d) \ {b})
           /\ \A p \in Places(d) : \A kids : Spared(d, SetKids(d, p, kids), Blocks(d))
<1>1. /\ d = [f \in {"nodes", "root", "next", "version", "saves"} |-> d[f]]
      /\ d.nodes = [b \in Blocks(d) |-> d.nodes[b]]
      /\ \A b \in Blocks(d) : d.nodes[b] = [f \in BlockFields \cup {"rev"} |-> d.nodes[b][f]]
  BY DEF Shaped, IsA
<1> DEFINE PutThere(e, b, node) ==
             /\ Blocks(e) = Blocks(d) /\ (b \in Blocks(d) => e.nodes[b] = node)
             /\ \A c \in Blocks(d) : c # b => e.nodes[c] = d.nodes[c]
<1>2. \A b \in Blocks(d) : \A node : PutThere(PutNode(d, b, node), b, node)
  BY <1>1 DEF PutNode, Blocks
<1>3. ASSUME NEW b \in Blocks(d), NEW node PROVE Spared(d, PutNode(d, b, node), Blocks(d) \ {b})
  <2> DEFINE e == PutNode(d, b, node)
  <2>1. PutThere(e, b, node)
    BY <1>2, Zenon
  <2> HIDE DEF e
  <2>2. Spared(d, e, Blocks(d) \ {b})
    BY <2>1 DEF Spared
  <2> QED
    BY <2>2 DEF e
<1>4. ASSUME NEW p \in Places(d), NEW kids PROVE Spared(d, SetKids(d, p, kids), Blocks(d))
  <2>1. CASE p = Root
    BY <1>1, <2>1 DEF SetKids, Spared, Blocks
  <2>2. CASE p # Root
    <3> DEFINE node == [d.nodes[p] EXCEPT !.kids = kids]
    <3>1. p \in Blocks(d)
      BY <2>2 DEF Places
    <3>2. node.rev = d.nodes[p].rev
      BY <1>1, <3>1 DEF BlockFields
    <3>3. SetKids(d, p, kids) = PutNode(d, p, node)
      BY <2>2 DEF SetKids
    <3> DEFINE e == PutNode(d, p, node)
    <3> HIDE DEF node, PutThere
    <3>4. PutThere(e, p, node)
      BY <1>2, <3>1, Zenon
    <3> HIDE DEF e
    <3>5. Blocks(e) = Blocks(d) /\ \A c \in Blocks(d) : e.nodes[c].rev = d.nodes[c].rev
      BY <3>1, <3>2, <3>4 DEF PutThere
    <3>6. Spared(d, e, Blocks(d))
      BY <3>5 DEF Spared
    <3> QED
      BY <3>3, <3>6 DEF e
  <2> QED
    BY <2>1, <2>2
<1> QED
  BY <1>3, <1>4 DEF SetText

\* Trees attached or detached leave the revisions of the blocks that stay.
LEMMA SparedByTrees ==
    ASSUME NEW d, WellFormed(d)
    PROVE  /\ \A p \in Places(d) : \A index, t :
                 IsForest(t) /\ DOMAIN t.nodes \cap Blocks(d) = {} => Spared(d, AttachTrees(d, p, index, t), Blocks(d))
           /\ \A p, index, count : Siblings(d, p, index, count) =>
                 LET gone == AllUnder(d.nodes, ToSet(SubSeq(Kids(d, p), index + 1, index + count)))
                 IN  Spared(d, DetachTrees(d, p, index, count).doc, Blocks(d) \ gone)
<1>1. Shaped(d) /\ d = [f \in {"nodes", "root", "next", "version", "saves"} |-> d[f]]
  BY DEF WellFormed, Shaped, IsA
<1>2. ASSUME NEW p \in Places(d), NEW index, NEW t, IsForest(t), DOMAIN t.nodes \cap Blocks(d) = {}
      PROVE  Spared(d, AttachTrees(d, p, index, t), Blocks(d))
  <2> DEFINE T == DOMAIN t.nodes
             Born(b, x) == [kind |-> x.kind, attr |-> x.attr,
                            parent |-> IF b \in ToSet(t.roots) THEN p ELSE x.parent,
                            text |-> x.text, kids |-> x.kids, rev |-> 0]
             All == [b \in Blocks(d) \cup T |-> IF b \in T THEN Born(b, t.nodes[b]) ELSE d.nodes[b]]
             next == Observe(d.next, T)
             f == [d EXCEPT !.nodes = All, !.next = next]
             kids == SpliceSeq(Kids(d, p), index, 0, t.roots)
             e == AttachTrees(d, p, index, t)
  <2>1. e = SetKids(f, p, kids)
    BY DEF AttachTrees
  <2>2. f.nodes = All /\ f.root = d.root
    <3> HIDE DEF All, next
    <3> QED
      BY <1>1
  <2>3. Blocks(e) = Blocks(d) \cup T
    BY <1>1, <1>2, AttachTreesView
  <2>4. \A c \in Blocks(d) : f.nodes[c] = d.nodes[c]
    <3>1. \A c \in Blocks(d) : All[c] = IF c \in T THEN Born(c, t.nodes[c]) ELSE d.nodes[c]
      OBVIOUS
    <3> HIDE DEF All, Born, f
    <3> QED
      BY <1>2, <2>2, <3>1
  <2>5. DOMAIN f.nodes = Blocks(d) \cup T
    BY <2>2
  <2> HIDE DEF f, kids, e, All
  <2>6. \A c \in Blocks(d) : e.nodes[c].rev = d.nodes[c].rev
    <3>1. CASE p = Root
      BY <2>1, <3>1, <2>4 DEF SetKids
    <3>2. CASE p # Root
      <4>1. p \in Blocks(d)
        BY <3>2 DEF Places
      <4>2. d.nodes[p] = [x \in BlockFields \cup {"rev"} |-> d.nodes[p][x]]
        BY <1>1, <4>1 DEF Shaped, IsA
      <4>3. e.nodes = [f.nodes EXCEPT ![p] = [f.nodes[p] EXCEPT !.kids = kids]]
        BY <2>1, <3>2, <1>1 DEF SetKids, PutNode, f
      <4>4. [d.nodes[p] EXCEPT !.kids = kids].rev = d.nodes[p].rev
        BY <4>2 DEF BlockFields
      <4> QED
        BY <2>4, <2>5, <4>1, <4>3, <4>4
    <3> QED
      BY <3>1, <3>2
  <2> QED
    BY <2>3, <2>6 DEF Spared, e
<1>3. ASSUME NEW p, NEW index, NEW count, Siblings(d, p, index, count)
      PROVE  LET gone == AllUnder(d.nodes, ToSet(SubSeq(Kids(d, p), index + 1, index + count)))
             IN  Spared(d, DetachTrees(d, p, index, count).doc, Blocks(d) \ gone)
  <2> DEFINE gone == AllUnder(d.nodes, ToSet(SubSeq(Kids(d, p), index + 1, index + count)))
             kids == SpliceSeq(Kids(d, p), index, count, <<>>)
             f == SetKids(d, p, kids)
             e == DetachTrees(d, p, index, count).doc
  <2>1. e = [f EXCEPT !.nodes = [b \in DOMAIN f.nodes \ gone |-> f.nodes[b]]]
    BY DEF DetachTrees
  <2>2. Spared(d, f, Blocks(d)) /\ Shaped(f) /\ Blocks(f) = Blocks(d)
    BY <1>3, <1>1, SparedByMutators, SetKidsView DEF Siblings, ButKids
  <2>3. f = [x \in {"nodes", "root", "next", "version", "saves"} |-> f[x]]
    BY <2>2 DEF Shaped, IsA
  <2> HIDE DEF f, gone, e
  <2>4. e.nodes = [b \in DOMAIN f.nodes \ gone |-> f.nodes[b]]
    BY <2>1, <2>3
  <2>5. Spared(d, e, Blocks(d) \ gone)
    BY <2>2, <2>4 DEF Spared, Blocks
  <2> QED
    BY <2>5 DEF gone, e
<1> QED
  BY <1>2, <1>3

\* The blocks a step takes out are blocks.
LEMMA TakenBlocks ==
    ASSUME NEW d, WellFormed(d), NEW p, NEW index, NEW count, Siblings(d, p, index, count)
    PROVE  LET ids == SubSeq(Kids(d, p), index + 1, index + count)
           IN  ToSet(ids) \subseteq Blocks(d) /\ AllUnder(d.nodes, ToSet(ids)) \subseteq Blocks(d)
<1> DEFINE K == Kids(d, p)
           ids == SubSeq(K, index + 1, index + count)
           gone == AllUnder(d.nodes, ToSet(ids))
<1>1. K \in Seq(Blocks(d)) /\ IsInjective(K) /\ index \in Nat /\ count \in Nat /\ index + count <= Len(K)
  BY DEF Siblings, WellFormed, Linked, Places
<1>2. ToSet(ids) \subseteq ToSet(K)
  BY <1>1, TakenOut
<1>3. ToSet(K) \subseteq Blocks(d)
  <2> HIDE DEF K
  <2> QED
    BY <1>1, MemberOf
<1>4. IsFiniteSet(DOMAIN d.nodes) /\ KidsAreNodes(d.nodes) /\ Blocks(d) = DOMAIN d.nodes
  BY NodesOf DEF WellFormed
<1>5. ToSet(ids) \subseteq Blocks(d)
  BY <1>2, <1>3
<1>6. gone \subseteq Blocks(d)
  <2> HIDE DEF ids
  <2> QED
    BY <1>4, <1>5, AllUnderLeast
<1> QED
  BY <1>5, <1>6

\* A step spares the blocks it does not affect, and its inverse affects none
\* of the others that the step did not.
LEMMA PerformSpares ==
    ASSUME NEW d, WellFormed(d), NEW s, IsStep(s), Perform(d, s).ok
    PROVE  LET a == Perform(d, s)
           IN  /\ Spared(d, a.doc, Blocks(d) \ AffectedBy(d, s))
               /\ AffectedBy(a.doc, a.inverse) \cap Blocks(d) \subseteq AffectedBy(d, s)
<1> DEFINE a == Perform(d, s)
           e == a.doc
           Good == /\ Spared(d, e, Blocks(d) \ AffectedBy(d, s))
                   /\ AffectedBy(e, a.inverse) \cap Blocks(d) \subseteq AffectedBy(d, s)
<1>1. s.op \in {"InsertInline", "RemoveInline", "AddMark", "RemoveMark", "RestoreMarks", "SetBlock",
                "Split", "Join", "InsertBlocks", "RemoveBlocks", "MoveBlocks"}
  BY DEF IsStep
<1>2. ~Failed(d).ok /\ Shaped(d)
  BY DEF Failed, WellFormed
<1>3. Undone(d, a)
  BY StepsAreInvertible
<1>4. CASE s.op \in {"InsertInline", "RemoveInline", "AddMark", "RemoveMark", "RestoreMarks", "SetBlock"}
  <2>1. /\ s.block \in Blocks(d)
        /\ \E text : e = SetText(d, s.block, text) \/ \E node : e = PutNode(d, s.block, node)
        /\ a.inverse.op \in {"InsertInline", "RemoveInline", "RestoreMarks", "SetBlock"}
        /\ a.inverse.block = s.block
    <3>1. CASE s.op = "InsertInline"
      BY <1>2, <3>1 DEF Perform, InsertInline, Applied, RemoveInlineStep, IsText
    <3>2. CASE s.op = "RemoveInline"
      BY <1>2, <3>2 DEF Perform, RemoveInline, Applied, InsertInlineStep, IsText, RangeOk
    <3>3. CASE s.op = "AddMark"
      BY <1>2, <3>3 DEF Perform, AddMark, Format, Applied, RestoreMarksStep, IsText, RangeOk
    <3>4. CASE s.op = "RemoveMark"
      BY <1>2, <3>4 DEF Perform, RemoveMark, Format, Applied, RestoreMarksStep, IsText, RangeOk
    <3>5. CASE s.op = "RestoreMarks"
      BY <1>2, <3>5 DEF Perform, RestoreMarks, Format, Applied, RestoreMarksStep, IsText, RangeOk
    <3>6. CASE s.op = "SetBlock"
      BY <1>2, <3>6 DEF Perform, SetBlock, Applied, SetBlockStep
    <3> QED
      BY <1>4, <3>1, <3>2, <3>3, <3>4, <3>5, <3>6
  <2>2. AffectedBy(d, s) = {s.block}
    BY <1>4 DEF AffectedBy
  <2> HIDE DEF a
  <2>3. AffectedBy(e, a.inverse) = {s.block}
    BY <2>1 DEF AffectedBy
  <2>4. Spared(d, e, Blocks(d) \ {s.block})
    BY <1>2, <2>1, SparedByMutators
  <2> QED
    BY <2>2, <2>3, <2>4 DEF a
<1>5. CASE s.op = "Split"
  <2> DEFINE tail == SubSeq(Text(d, s.block), s.offset + 1, Len(Text(d, s.block)))
             t == TextTree(s.new, s.kind, s.attr, tail)
             f == SetText(d, s.block, SubSeq(Text(d, s.block), 1, s.offset))
             p == Parent(d, s.block)
  <2>1. /\ e = AttachTrees(f, p, IndexInParent(d, s.block), t)
        /\ a.inverse = JoinStep(s.block, s.new)
        /\ s.block \in Blocks(d)
        /\ CanSplit(d, s.block, s.offset, s.new, s.kind)
    <3>1. /\ IsText(d, s.block) /\ s.offset <= Len(Text(d, s.block)) /\ ContentOf[s.kind] = "inline"
          /\ TreesOk(d, p, TextTree(s.new, s.kind, s.attr, <<>>))
          /\ e = AttachTrees(f, p, IndexInParent(d, s.block), t)
          /\ a.inverse = JoinStep(s.block, s.new)
      BY <1>2, <1>5 DEF Perform, Split, Applied
    <3>2. s.offset \in Nat /\ s.new # Root
      BY <1>5 DEF IsStep
    <3>3. s.new \notin Blocks(d) /\ AllowsChild(d, p, s.kind)
      <4> DEFINE x == TextTree(s.new, s.kind, s.attr, <<>>)
      <4>1. DOMAIN x.nodes = {s.new} /\ x.roots = <<s.new>> /\ x.nodes[s.new].kind = s.kind
        BY DEF TextTree, Trees
      <4>2. ToSet(x.roots) = {s.new}
        BY <4>1 DEF ToSet
      <4> HIDE DEF x
      <4> QED
        BY <3>1, <4>1, <4>2 DEF TreesOk, x
    <3> HIDE DEF t, f, a
    <3> QED
      BY <3>1, <3>2, <3>3 DEF CanSplit, IsText
  <2>2. a.inverse.op = "Join" /\ a.inverse.block = s.block /\ a.inverse.next = s.new
    BY <2>1 DEF JoinStep
  <2>3. s.new \notin Blocks(d)
    BY <2>1 DEF CanSplit
  <2>4. Spared(d, f, Blocks(d) \ {s.block})
    BY <1>2, <2>1, SparedByMutators
  <2>5. Spared(f, e, Blocks(d))
    <3>1. WellFormed(f) /\ Blocks(f) = Blocks(d)
      <4> DEFINE text == Text(d, s.block)
                 front == SubSeq(text, 1, s.offset)
      <4>1. IsContent(text) /\ IsText(d, s.block) /\ s.offset \in Nat /\ s.offset <= Len(text)
        BY <2>1 DEF WellFormed, Holds, CanSplit
      <4>2. InsertInlineStep(s.block, 0, <<>>).op = "InsertInline"
        BY DEF InsertInlineStep
      <4>3. LET q == RemoveInlineStep(s.block, s.offset, Len(text))
            IN  IsStep(q) /\ Perform(d, q).ok /\ Perform(d, q).doc = SetText(d, s.block, SpliceSeq(text, s.offset, Len(text) - s.offset, <<>>))
        <5>1. Len(text) \in Nat
          BY <4>1, LenProperties DEF IsContent
        <5> DEFINE q == RemoveInlineStep(s.block, s.offset, Len(text))
        <5>2. q.op = "RemoveInline" /\ q.block = s.block /\ q.from = s.offset /\ q.to = Len(text)
          BY DEF RemoveInlineStep
        <5> HIDE DEF q, text
        <5>3. IsStep(q)
          BY <4>1, <5>1, <5>2 DEF IsStep
        <5>4. Perform(d, q) = RemoveInline(d, q)
          BY <5>2 DEF Perform
        <5>5. RangeOk(d, q.block, q.from, q.to)
          BY <4>1, <5>1, <5>2 DEF RangeOk, text
        <5>6. Perform(d, q).ok /\ Perform(d, q).doc = SetText(d, s.block, SpliceSeq(text, s.offset, Len(text) - s.offset, <<>>))
          BY <5>2, <5>4, <5>5 DEF RemoveInline, Applied, text
        <5> QED
          BY <5>3, <5>6 DEF q
      <4>4. SpliceSeq(text, s.offset, Len(text) - s.offset, <<>>) = front
        <5> DEFINE T == ToSet(text)
        <5>1. text \in Seq(T) /\ Len(text) \in Nat
          BY <4>1, LenProperties DEF IsContent
        <5> HIDE DEF T, text
        <5>2. (s.offset + (Len(text) - s.offset)) + 1 = Len(text) + 1
          BY <4>1, <5>1
        <5>3. SubSeq(text, Len(text) + 1, Len(text)) = <<>>
          BY <5>1
        <5>4. SubSeq(text, 1, s.offset) \in Seq(T)
          BY <4>1, <5>1
        <5>5. (SubSeq(text, 1, s.offset) \o <<>>) \o <<>> = SubSeq(text, 1, s.offset)
          BY <5>4
        <5> QED
          BY <5>2, <5>3, <5>5 DEF SpliceSeq
      <4>5. WellFormed(f)
        <5> DEFINE q == RemoveInlineStep(s.block, s.offset, Len(text))
        <5>1. WellFormed(Perform(d, q).doc)
          BY <4>3, StepsAreInvertible DEF Undone
        <5>2. Perform(d, q).doc = SetText(d, s.block, SpliceSeq(text, s.offset, Len(text) - s.offset, <<>>))
          BY <4>3
        <5>3. Perform(d, q).doc = SetText(d, s.block, front)
          <6> HIDE DEF q, text, front
          <6> QED
            BY <4>4, <5>2, Zenon
        <5>4. f = SetText(d, s.block, front)
          OBVIOUS
        <5> HIDE DEF q, text, front, f
        <5> QED
          BY <5>1, <5>3, <5>4
      <4>6. Blocks(f) = Blocks(d)
        <5> DEFINE front2 == SubSeq(Text(d, s.block), 1, s.offset)
        <5> HIDE DEF front2
        <5>1. Blocks(SetText(d, s.block, front2)) = Blocks(d)
          BY <1>2, <2>1, SetTextView
        <5> QED
          BY <5>1 DEF front2
      <4> QED
        BY <4>5, <4>6
    <3>2. IsForest(t) /\ DOMAIN t.nodes = {s.new}
      <4>1. s.kind \in Kinds /\ IsContent(tail) /\ s.new # Root /\ ContentOf[s.kind] = "inline"
        <5>1. IsContent(Text(d, s.block)) /\ s.offset \in Nat
          BY <2>1 DEF WellFormed, Holds, CanSplit
        <5>2. IsContent(tail)
          <6> DEFINE text == Text(d, s.block)
                     n == Len(text) - s.offset
          <6>1. Len(text) \in Nat /\ s.offset <= Len(text)
            BY <2>1, <5>1, PartsOfContent DEF CanSplit
          <6> HIDE DEF text
          <6>2. n \in Nat /\ s.offset + n = Len(text)
            BY <5>1, <6>1
          <6> HIDE DEF n
          <6>3. IsContent(SubSeq(text, s.offset + 1, s.offset + n))
            <7>1. IsContent(text) /\ IsContent(<<>>)
              BY <5>1, EmptySeq DEF text, IsContent, ToSet
            <7>2. s.offset \in Nat /\ s.offset + n <= Len(text)
              BY <5>1, <6>1, <6>2
            <7> QED
              BY <6>2, <7>1, <7>2, PartsOfContent
          <6> QED
            BY <6>2, <6>3 DEF text
        <5>3. s.kind \in Kinds
          BY <2>1, KnownKinds DEF CanSplit
        <5> QED
          BY <2>1, <5>2, <5>3 DEF CanSplit
      <4> HIDE DEF tail
      <4>2. IsForest(t)
        BY <4>1, TextTreeView
      <4>3. DOMAIN t.nodes = {s.new}
        BY DEF TextTree, Trees
      <4> QED
        BY <4>2, <4>3
    <3>3. p \in Places(f)
      BY <2>1, <3>1 DEF WellFormed, Linked, Places
    <3> HIDE DEF t, f, a, p
    <3> QED
      BY <2>1, <2>3, <3>1, <3>2, <3>3, SparedByTrees
  <2> HIDE DEF a, f, t
  <2>6. AffectedBy(d, s) = {s.block} /\ AffectedBy(e, a.inverse) = {s.block, s.new}
    BY <1>5, <2>2 DEF AffectedBy
  <2>7. Spared(d, e, Blocks(d) \ {s.block})
    BY <2>4, <2>5 DEF Spared
  <2> QED
    BY <2>3, <2>6, <2>7 DEF a
<1>6. CASE s.op = "Join"
  <2> DEFINE p == Parent(d, s.block)
             i == IndexInParent(d, s.block)
             b == d.nodes[s.next]
             f == DetachTrees(d, p, i, 1).doc
  <2>1. /\ e = SetText(f, s.block, Text(d, s.block) \o b.text)
        /\ a.inverse = SplitStep(s.block, Len(Text(d, s.block)), s.next, b.kind, b.attr)
        /\ IsText(d, s.block) /\ IsText(d, s.next)
        /\ i < Len(Kids(d, p)) /\ Kids(d, p)[i + 1] = s.next
    BY <1>2, <1>6 DEF Perform, Join, Applied
  <2>2. a.inverse.op = "Split" /\ a.inverse.block = s.block
    BY <2>1 DEF SplitStep
  <2>3. CanJoin(d, s.block, s.next) /\ e = JoinedInto(d, s.block, s.next)
    BY <2>1 DEF CanJoin, JoinedInto, Text
  <2> HIDE DEF a
  <2>4. /\ s.next \in Blocks(d) /\ s.next # s.block /\ p \in Places(d) /\ i \in Nat /\ 1 <= i
        /\ SubSeq(Kids(d, p), i + 1, i + 1) = <<s.next>> /\ Kids(d, s.next) = <<>>
    BY <2>3, JoinView DEF IsJoined
  <2>5. Siblings(d, p, i, 1)
    BY <2>4, LenProperties, <2>1 DEF WellFormed, Linked, Places, Siblings
  <2>6. AllUnder(d.nodes, ToSet(SubSeq(Kids(d, p), i + 1, i + 1))) = {s.next}
    <3>1. ToSet(SubSeq(Kids(d, p), i + 1, i + 1)) = {s.next}
      <4> DEFINE one == SubSeq(Kids(d, p), i + 1, i + 1)
      <4>1. one = <<s.next>>
        BY <2>4
      <4> HIDE DEF one
      <4>2. ToSet(one) = {s.next}
        BY <4>1 DEF ToSet
      <4> QED
        BY <4>2 DEF one
    <3>2. AllUnder(d.nodes, {s.next}) = {s.next}
      <4>1. IsFiniteSet(DOMAIN d.nodes) /\ KidsAreNodes(d.nodes) /\ Blocks(d) = DOMAIN d.nodes /\ Root \notin DOMAIN d.nodes
        BY <1>2, NodesOf DEF WellFormed, Shaped, Blocks
      <4>2. Closed(d.nodes, {s.next})
        BY <2>4, <4>1 DEF Kids, Closed, KidsOf, ToSet
      <4> QED
        <5>1. {s.next} \subseteq DOMAIN d.nodes
          BY <2>4, <4>1
        <5> DEFINE ids == {s.next}
        <5>2. ids \subseteq DOMAIN d.nodes /\ Closed(d.nodes, ids)
          BY <4>2, <5>1
        <5> HIDE DEF ids
        <5>3. ids \subseteq AllUnder(d.nodes, ids) /\ AllUnder(d.nodes, ids) \subseteq ids
          BY <4>1, <5>2, AllUnderLeast
        <5> QED
          BY <5>3 DEF ids
    <3> QED
      BY <3>1, <3>2
  <2>7. Spared(d, f, Blocks(d) \ {s.next})
    BY <2>5, <2>6, SparedByTrees
  <2>8. Shaped(f) /\ Blocks(f) = Blocks(d) \ {s.next}
    BY <2>5, <2>6, DetachTreesView
  <2> HIDE DEF f
  <2>9. s.block \in Blocks(f)
    BY <2>1, <2>4, <2>8 DEF IsText
  <2>10. Spared(f, e, Blocks(f) \ {s.block})
    BY <2>1, <2>8, <2>9, SparedByMutators
  <2>11. AffectedBy(d, s) = {s.block, s.next} /\ AffectedBy(e, a.inverse) = {s.block}
    BY <1>6, <2>2 DEF AffectedBy
  <2>12. Spared(d, e, Blocks(d) \ {s.block, s.next})
    BY <2>7, <2>8, <2>10 DEF Spared
  <2> QED
    BY <2>11, <2>12 DEF a
<1>7. CASE s.op = "InsertBlocks"
  <2> DEFINE p == s.parent
             i == s.index
             t == s.blocks
             n == Len(t.roots)
             r == a.inverse
  <2>1. /\ e = AttachTrees(d, p, i, t) /\ r = RemoveBlocksStep(p, i, n)
        /\ IndexOk(d, p, i, i) /\ TreesOk(d, p, t) /\ IsForest(t)
    BY <1>2, <1>7 DEF Perform, InsertBlocks, Applied, IsStep
  <2>2. r.op = "RemoveBlocks" /\ r.parent = p /\ r.index = i /\ r.count = n
    BY <2>1 DEF RemoveBlocksStep
  <2>3. p \in Places(d) /\ DOMAIN t.nodes \cap Blocks(d) = {}
    BY <2>1 DEF IndexOk, Places, TreesOk
  <2>4. WellFormed(e) /\ IsStep(r) /\ Perform(e, r).ok /\ Shaped(Perform(e, r).doc) /\ Content(Perform(e, r).doc) = Content(d)
    BY <1>3 DEF Undone
  <2> HIDE DEF a, r
  <2>5. Spared(d, e, Blocks(d))
    BY <2>1, <2>3, SparedByTrees
  <2> DEFINE gone == AllUnder(e.nodes, ToSet(SubSeq(Kids(e, p), i + 1, i + n)))
             u == DetachTrees(e, p, i, n).doc
  <2>6. Siblings(e, p, i, n) /\ Perform(e, r).doc = u
    BY <2>2, <2>4 DEF Perform, RemoveBlocks, Applied, Failed, IsStep, Siblings, IndexOk, Places
  <2>7. Blocks(u) = Blocks(e) \ gone
    BY <2>4, <2>6, DetachTreesView
  <2>8. Blocks(u) = Blocks(d)
    BY <1>2, <2>4, SameContent, <2>6 DEF Alike
  <2>9. AffectedBy(e, r) = gone
    BY <2>2 DEF AffectedBy
  <2> HIDE DEF gone, u
  <2>10. AffectedBy(e, r) \cap Blocks(d) = {}
    BY <2>7, <2>8, <2>9
  <2> QED
    BY <2>5, <2>10 DEF Spared, a, r
<1>8. CASE s.op = "RemoveBlocks"
  <2> DEFINE p == s.parent
             i == s.index
             n == s.count
             cut == DetachTrees(d, p, i, n)
  <2>1. /\ e = cut.doc /\ a.inverse = InsertBlocksStep(p, i, cut.trees)
        /\ IndexOk(d, p, i, i + n) /\ i \in Nat /\ n \in Nat
    BY <1>2, <1>8 DEF Perform, RemoveBlocks, Applied, IsStep
  <2>2. Siblings(d, p, i, n)
    BY <2>1 DEF Siblings, IndexOk, Places
  <2>3. AffectedBy(d, s) = AllUnder(d.nodes, ToSet(SubSeq(Kids(d, p), i + 1, i + n)))
    BY <1>8 DEF AffectedBy
  <2>4. a.inverse.op = "InsertBlocks"
    BY <2>1 DEF InsertBlocksStep
  <2> HIDE DEF a, cut
  <2>5. AffectedBy(e, a.inverse) = {}
    BY <2>4 DEF AffectedBy
  <2>6. Spared(d, e, Blocks(d) \ AffectedBy(d, s))
    BY <2>1, <2>2, <2>3, SparedByTrees DEF cut
  <2> QED
    BY <2>5, <2>6 DEF a
<1>9. CASE s.op = "MoveBlocks"
  <2> DEFINE ids == SubSeq(Kids(d, s.parent), s.index + 1, s.index + s.count)
             cut == SetKids(d, s.parent, SpliceSeq(Kids(d, s.parent), s.index, s.count, <<>>))
             put == SetKids(cut, s.to, SpliceSeq(Kids(cut, s.to), s.toIndex, 0, ids))
  <2>1. /\ e = [put EXCEPT !.nodes = [b \in DOMAIN @ |->
                  IF b \in ToSet(ids) THEN [@[b] EXCEPT !.parent = s.to] ELSE @[b]]]
        /\ a.inverse = MoveBlocksStep(s.to, s.toIndex, s.count, s.parent, s.index)
        /\ IndexOk(d, s.parent, s.index, s.index + s.count) /\ IndexOk(d, s.to, 0, 0)
    BY <1>2, <1>9 DEF Perform, MoveBlocks, Applied
  <2>2. s.parent \in Places(d) /\ s.to \in Places(d)
    BY <2>1 DEF IndexOk, Places
  <2>3. Spared(d, cut, Blocks(d)) /\ Shaped(cut) /\ Blocks(cut) = Blocks(d)
    BY <1>2, <2>2, SparedByMutators, SetKidsView DEF ButKids
  <2> HIDE DEF cut, a
  <2>4. s.to \in Places(cut)
    BY <2>2, <2>3 DEF Places
  <2>5. Spared(cut, put, Blocks(d)) /\ Shaped(put) /\ Blocks(put) = Blocks(d)
    BY <2>3, <2>4, SparedByMutators, SetKidsView DEF ButKids
  <2> HIDE DEF put, ids
  <2>6. Spared(put, e, Blocks(d))
    <3>1. e = Reparent(put, ids, s.to)
      BY <2>1 DEF Reparent
    <3>2. put = [x \in {"nodes", "root", "next", "version", "saves"} |-> put[x]]
      BY <2>5 DEF Shaped, IsA
    <3>3. e.nodes = [b \in DOMAIN put.nodes |-> IF b \in ToSet(ids) THEN [put.nodes[b] EXCEPT !.parent = s.to]
                                                ELSE put.nodes[b]]
      BY <3>1, <3>2 DEF Reparent
    <3>4. ASSUME NEW b \in Blocks(d) PROVE [put.nodes[b] EXCEPT !.parent = s.to].rev = put.nodes[b].rev
      BY <2>5 DEF Shaped, IsA, BlockFields
    <3>5. DOMAIN put.nodes = Blocks(d)
      BY <2>5 DEF Blocks
    <3> QED
      BY <3>3, <3>4, <3>5 DEF Spared, Blocks
  <2>7. AffectedBy(d, s) = {} /\ AffectedBy(e, a.inverse) = {}
    BY <2>1, <1>9 DEF MoveBlocksStep, AffectedBy
  <2>8. Spared(d, e, Blocks(d))
    BY <2>3, <2>5, <2>6 DEF Spared
  <2> QED
    BY <2>7, <2>8 DEF Spared, a
<1> QED
  BY <1>1, <1>4, <1>5, <1>6, <1>7, <1>8, <1>9

-----------------------------------------------------------------------------
(***************************************************************************)
(* Runs of steps: what they do depends on the document alone, and what is  *)
(* kept of them takes back what they did.                                  *)
(***************************************************************************)

\* A sequence that is not empty is one more element after another sequence.
LEMMA LastOf ==
    ASSUME NEW S, NEW q \in Seq(S), NEW n \in Nat, Len(q) = n + 1
    PROVE  \E p \in Seq(S), s \in S : q = p \o <<s>> /\ Len(p) = n /\ s \in ToSet(q) /\ ToSet(p) \subseteq ToSet(q)
<1> DEFINE p == SubSeq(q, 1, n)
           s == q[n + 1]
<1>1. n + 1 \in 1 .. Len(q) /\ n <= Len(q)
  OBVIOUS
<1>2. s \in S
  BY <1>1, ElementOfSeq
<1>3. p \in Seq(S) /\ Len(p) = n /\ \A i \in 1 .. n : p[i] = q[i]
  BY <1>1
<1>4. DOMAIN q = 1 .. n + 1
  BY <1>1
<1>5. s \in ToSet(q)
  BY <1>1, <1>4 DEF ToSet
<1>6. ToSet(p) \subseteq ToSet(q)
  <2>1. DOMAIN p = 1 .. n
    BY <1>3
  <2> HIDE DEF p
  <2> QED
    BY <1>3, <1>4, <2>1 DEF ToSet
<1>7. q = p \o <<s>>
  <2> HIDE DEF p, s
  <2> DEFINE one == <<s>>
  <2>1. one \in Seq(S) /\ Len(one) = 1 /\ one[1] = s
    BY <1>2
  <2> HIDE DEF one
  <2>6. p \in Seq(S) /\ one \in Seq(S)
    BY <1>3, <2>1
  <2>7. /\ p \o one \in Seq(S) /\ Len(p \o one) = Len(p) + Len(one)
        /\ \A i \in 1 .. Len(p) : (p \o one)[i] = p[i]
        /\ \A i \in 1 .. Len(one) : (p \o one)[Len(p) + i] = one[i]
    BY <2>6, ConcatOf
  <2>8. Len(p) = n /\ 1 \in 1 .. 1
    BY <1>3
  <2>2. p \o one \in Seq(S) /\ Len(p \o one) = n + 1
    BY <2>1, <2>7, <2>8
  <2>3. /\ \A i \in 1 .. n : (p \o one)[i] = p[i]
        /\ (p \o one)[n + 1] = one[1]
    BY <2>1, <2>7, <2>8
  <2>4. \A i \in 1 .. n + 1 : (p \o one)[i] = q[i]
    BY <1>3, <2>1, <2>3 DEF s
  <2>5. q = p \o one
    BY <2>2, <2>4, SeqEqual
  <2> QED
    BY <2>5 DEF one
<1> HIDE DEF p, s
<1> QED
  BY <1>2, <1>3, <1>5, <1>6, <1>7

\* q is one element more after n others.
Longer(q, n, p, s) == Len(p) = n /\ q = p \o <<s>>

\* A list of steps, among which the order to give up may be.
IsWork(q) == q \in Seq(ToSet(q)) /\ \A s \in ToSet(q) : IsTyped(s) \/ s = GiveUp

\* What remains to be done, one step taken off its end.
LEMMA WorkView ==
    /\ \A q : IsSteps(q) => IsWork(q)
    /\ IsWork(<<>>) /\ IsWork(<<GiveUp>>)
    /\ \A q, n : IsWork(q) /\ n \in Nat /\ Len(q) = n + 1 =>
          \E p, s : IsWork(p) /\ (IsTyped(s) \/ s = GiveUp) /\ Longer(q, n, p, s)
    /\ \A q, n : IsSteps(q) /\ n \in Nat /\ Len(q) = n + 1 =>
          \E p, s : IsSteps(p) /\ IsTyped(s) /\ Longer(q, n, p, s)
    /\ \A q : IsWork(q) => Len(q) \in Nat
<1>1. ASSUME NEW q, IsSteps(q) PROVE IsWork(q)
  BY <1>1 DEF IsSteps, IsWork
<1>2. IsWork(<<>>)
  BY <1>1, StepsView
<1>3. IsWork(<<GiveUp>>)
  <2> DEFINE q == <<GiveUp>>
  <2>1. q \in Seq({GiveUp})
    OBVIOUS
  <2> HIDE DEF q
  <2>2. ToSet(q) \subseteq {GiveUp} /\ q \in Seq(ToSet(q))
    BY <2>1, MemberOf
  <2>3. IsWork(q)
    BY <2>2 DEF IsWork
  <2> QED
    BY <2>3 DEF q
<1>4. ASSUME NEW q, NEW n, q \in Seq(ToSet(q)), n \in Nat, Len(q) = n + 1
      PROVE  \E p, s : /\ p \in Seq(ToSet(p)) /\ ToSet(p) \subseteq ToSet(q) /\ s \in ToSet(q)
                       /\ Longer(q, n, p, s)
  <2> DEFINE S == ToSet(q)
  <2>1. q \in Seq(S)
    BY <1>4
  <2> HIDE DEF S
  <2>2. PICK p \in Seq(S), s \in S : q = p \o <<s>> /\ Len(p) = n /\ s \in ToSet(q) /\ ToSet(p) \subseteq ToSet(q)
    BY <1>4, <2>1, LastOf
  <2>3. p \in Seq(ToSet(p))
    BY <2>2, MemberOf
  <2> QED
    BY <2>2, <2>3 DEF Longer
<1>5. ASSUME NEW q, NEW n, IsWork(q), n \in Nat, Len(q) = n + 1
      PROVE  \E p, s : IsWork(p) /\ (IsTyped(s) \/ s = GiveUp) /\ Longer(q, n, p, s)
  <2>1. PICK p, s : /\ p \in Seq(ToSet(p)) /\ ToSet(p) \subseteq ToSet(q) /\ s \in ToSet(q)
                    /\ Longer(q, n, p, s)
    BY <1>4, <1>5 DEF IsWork
  <2>2. IsWork(p) /\ (IsTyped(s) \/ s = GiveUp)
    BY <1>5, <2>1 DEF IsWork
  <2> QED
    BY <2>1, <2>2
<1>6. ASSUME NEW q, NEW n, IsSteps(q), n \in Nat, Len(q) = n + 1
      PROVE  \E p, s : IsSteps(p) /\ IsTyped(s) /\ Longer(q, n, p, s)
  <2>1. PICK p, s : /\ p \in Seq(ToSet(p)) /\ ToSet(p) \subseteq ToSet(q) /\ s \in ToSet(q)
                    /\ Longer(q, n, p, s)
    BY <1>4, <1>6 DEF IsSteps
  <2>2. IsSteps(p) /\ IsTyped(s)
    BY <1>6, <2>1 DEF IsSteps
  <2> QED
    BY <2>1, <2>2
<1>7. ASSUME NEW q, IsWork(q) PROVE Len(q) \in Nat
  BY <1>7, LenProperties DEF IsWork
<1> QED
  BY <1>1, <1>2, <1>3, <1>5, <1>6, <1>7

\* What a step, or the order to give up, gives on a document.
Tried(d, s) == IF s = GiveUp THEN Failed(d) ELSE StepApply(d, s)

\* A step in a transaction is the step tried on its document, or nothing when
\* the transaction has failed.
LEMMA StepInTried ==
    ASSUME NEW t, IsTx(t), NEW s, IsTyped(s) \/ s = GiveUp
    PROVE  LET a == Tried(t.doc, s)
               r == StepIn(t, s)
           IN  /\ IsTx(r) /\ a.ok \in BOOLEAN /\ t.ok \in BOOLEAN
               /\ ~t.ok => r = t
               /\ t.ok => r.ok = a.ok /\ r.doc = a.doc
               /\ t.ok /\ a.ok => r = TransactionStep(t, s, a)
               /\ t.ok /\ ~a.ok => r = [t EXCEPT !.ok = FALSE, !.doc = a.doc]
<1>1. CASE IsTyped(s)
  <2>1. s # GiveUp
    BY <1>1 DEF IsTyped, IsStep, GiveUp
  <2>2. Tried(t.doc, s) = StepApply(t.doc, s)
    BY <2>1 DEF Tried
  <2>3. t.ok \in BOOLEAN
    BY DEF IsTx
  <2> DEFINE a == StepApply(t.doc, s)
             r == StepIn(t, s)
  <2>4. /\ IsTx(r) /\ a.ok \in BOOLEAN
        /\ ~t.ok => r = t
        /\ t.ok => r.ok = a.ok /\ r.doc = a.doc
        /\ t.ok /\ a.ok => r = TransactionStep(t, s, a)
        /\ t.ok /\ ~a.ok => r = [t EXCEPT !.ok = FALSE, !.doc = a.doc]
    <3>1. IsTyped(s)
      BY <1>1
    <3> HIDE <1>1
    <3>2. LET a1 == StepApply(t.doc, s)
              r1 == StepIn(t, s)
          IN  /\ IsTx(r1)
              /\ ~t.ok => r1 = t
              /\ t.ok => r1.ok = a1.ok /\ r1.doc = a1.doc
              /\ t.ok /\ a1.ok => r1 = TransactionStep(t, s, a1)
              /\ t.ok /\ ~a1.ok => r1 = [t EXCEPT !.ok = FALSE, !.doc = a1.doc]
              /\ a1.ok \in BOOLEAN
      BY <3>1, StepInView, Zenon
    <3> QED
      BY <3>2
  <2>5. Tried(t.doc, s) = a
    BY <2>2
  <2> HIDE DEF a, r
  <2> DEFINE b == Tried(t.doc, s)
  <2>6. b = a
    BY <2>5
  <2> HIDE DEF b
  <2>7. /\ IsTx(r) /\ b.ok \in BOOLEAN /\ t.ok \in BOOLEAN
        /\ ~t.ok => r = t
        /\ t.ok => r.ok = b.ok /\ r.doc = b.doc
        /\ t.ok /\ b.ok => r = TransactionStep(t, s, b)
        /\ t.ok /\ ~b.ok => r = [t EXCEPT !.ok = FALSE, !.doc = b.doc]
    BY <2>3, <2>4, <2>6
  <2> QED
    BY <2>7 DEF b, r
<1>2. CASE s = GiveUp
  <2> DEFINE a == Failed(t.doc)
             r == StepIn(t, s)
  <2>1. a.ok = FALSE /\ a.doc = t.doc /\ Tried(t.doc, s) = a
    BY <1>2 DEF Failed, Tried
  <2>2. t = [f \in TxFields |-> t[f]] /\ t.ok \in BOOLEAN
    BY DEF IsTx, IsA
  <2>3. r = IF ~t.ok THEN t ELSE [t EXCEPT !.ok = FALSE, !.doc = a.doc]
    BY <1>2, <2>1 DEF StepIn
  <2> HIDE DEF a, r
  <2>4. IsTx(r)
    BY <2>2, <2>3 DEF IsTx, IsA, TxFields
  <2>5. t.ok => r.ok = FALSE /\ r.doc = a.doc
    BY <2>2, <2>3 DEF TxFields
  <2> QED
    BY <2>1, <2>2, <2>3, <2>4, <2>5 DEF r
<1> QED
  BY <1>1, <1>2

After(d, q) == RunSteps(NoCommit(d), q)

\* A transaction begins with nothing done.
LEMMA NoCommitView == \A d : IsTx(NoCommit(d)) /\ NoCommit(d).ok = TRUE /\ NoCommit(d).doc = d
                             /\ NoCommit(d).inverses = <<>> /\ NoCommit(d).maps = <<>>
  BY DEF IsTx, IsA, NoCommit, TxFields

\* A list of steps run to its last but one, then its last.
LEMMA RunLast ==
    ASSUME NEW p, IsWork(p), NEW s, IsTyped(s) \/ s = GiveUp
    PROVE  \A t : RunSteps(t, p \o <<s>>) = StepIn(RunSteps(t, p), s)
<1> DEFINE S == ToSet(p) \cup {s}
           one == <<s>>
<1>1. one \in Seq(S) /\ p \in Seq(S)
  BY SeqMonotonic DEF IsWork
<1> HIDE DEF S
<1>2. \A t : RunSteps(t, p \o one) = RunSteps(RunSteps(t, p), one)
  <2> HIDE DEF one
  <2> QED
    BY <1>1, RunStepsParts
<1>3. \A t : RunSteps(t, one) = StepIn(t, s)
  BY RunStepsParts
<1> HIDE DEF one
<1>4. \A t : RunSteps(t, p \o one) = StepIn(RunSteps(t, p), s)
  BY <1>2, <1>3
<1> QED
  BY <1>4 DEF one

\* A run keeps to its form, and what it does depends on the document alone.
LEMMA RunsAgree ==
    ASSUME NEW q, IsWork(q)
    PROVE  /\ \A t : IsTx(t) => IsTx(RunSteps(t, q)) /\ (~t.ok => RunSteps(t, q) = t)
           /\ \A t, u : IsTx(t) /\ IsTx(u) /\ t.ok = u.ok /\ t.doc = u.doc =>
                 RunSteps(t, q).ok = RunSteps(u, q).ok /\ RunSteps(t, q).doc = RunSteps(u, q).doc
<1> DEFINE Good(l) ==
             /\ \A t : IsTx(t) => IsTx(RunSteps(t, l)) /\ (~t.ok => RunSteps(t, l) = t)
             /\ \A t, u : IsTx(t) /\ IsTx(u) /\ t.ok = u.ok /\ t.doc = u.doc =>
                   RunSteps(t, l).ok = RunSteps(u, l).ok /\ RunSteps(t, l).doc = RunSteps(u, l).doc
           F == {n \in Nat : \A l : IsWork(l) /\ Len(l) = n => Good(l)}
<1>1. 0 \in F
  BY EmptySeq, RunStepsParts DEF IsWork
<1>2. ASSUME NEW n \in Nat, n \in F PROVE n + 1 \in F
  <2> SUFFICES ASSUME NEW l, IsWork(l), Len(l) = n + 1 PROVE Good(l)
    OBVIOUS
  <2>1. PICK p, s : IsWork(p) /\ Len(p) = n /\ (IsTyped(s) \/ s = GiveUp) /\ l = p \o <<s>>
    <3>1. \E p, s : IsWork(p) /\ (IsTyped(s) \/ s = GiveUp) /\ Longer(l, n, p, s)
      BY WorkView
    <3> QED
      BY <3>1 DEF Longer
  <2>2. Good(p)
    BY <1>2, <2>1
  <2>3. \A t : RunSteps(t, l) = StepIn(RunSteps(t, p), s)
    BY <2>1, RunLast
  <2>4. ASSUME NEW t, IsTx(t) PROVE IsTx(RunSteps(t, l)) /\ (~t.ok => RunSteps(t, l) = t)
    <3>1. IsTx(RunSteps(t, p)) /\ (~t.ok => RunSteps(t, p) = t)
      BY <2>2, <2>4
    <3>2. IsTx(StepIn(RunSteps(t, p), s)) /\ (~RunSteps(t, p).ok => StepIn(RunSteps(t, p), s) = RunSteps(t, p))
      BY <2>1, <3>1, StepInTried
    <3> QED
      BY <2>3, <3>1, <3>2
  <2>5. ASSUME NEW t, NEW u, IsTx(t), IsTx(u), t.ok = u.ok, t.doc = u.doc
        PROVE  RunSteps(t, l).ok = RunSteps(u, l).ok /\ RunSteps(t, l).doc = RunSteps(u, l).doc
    <3> DEFINE x == RunSteps(t, p)
               y == RunSteps(u, p)
    <3>1. IsTx(x) /\ IsTx(y) /\ x.ok = y.ok /\ x.doc = y.doc
      BY <2>2, <2>5
    <3> HIDE DEF x, y
    <3>2. /\ ~x.ok => StepIn(x, s) = x
          /\ x.ok => StepIn(x, s).ok = Tried(x.doc, s).ok /\ StepIn(x, s).doc = Tried(x.doc, s).doc
      BY <2>1, <3>1, StepInTried
    <3>3. /\ ~y.ok => StepIn(y, s) = y
          /\ y.ok => StepIn(y, s).ok = Tried(y.doc, s).ok /\ StepIn(y, s).doc = Tried(y.doc, s).doc
      BY <2>1, <3>1, StepInTried
    <3>4. StepIn(x, s).ok = StepIn(y, s).ok /\ StepIn(x, s).doc = StepIn(y, s).doc
      <4>1. CASE x.ok
        BY <3>1, <3>2, <3>3, <4>1
      <4>2. CASE ~x.ok
        BY <3>1, <4>2, <3>2, <3>3
      <4> QED
        BY <4>1, <4>2
    <3> QED
      BY <2>3, <3>4 DEF x, y
  <2> QED
    BY <2>4, <2>5
<1>3. Nat \subseteq F
  <2> HIDE DEF F
  <2> QED
    BY <1>1, <1>2, NaturalSet
<1>4. Len(q) \in Nat
  BY WorkView
<1>5. Good(q)
  BY <1>3, <1>4
<1> QED
  BY <1>5

\* From e, and whatever reads the same, these steps apply and lead to what
\* reads like d.
Undoes(undo, e, d) ==
    /\ WellFormed(d) /\ WellFormed(e) /\ IsSteps(undo)
    /\ \A t : Twins(e, t) => After(t, undo).ok /\ Twins(d, After(t, undo).doc)

\* Undoing nothing, undoing up to twins, and undoing one after another.
LEMMA UndoesView ==
    /\ \A d, e : Twins(d, e) => Undoes(<<>>, e, d)
    /\ \A u, d, e, f : Undoes(u, e, d) /\ Twins(e, f) => Undoes(u, f, d)
    /\ \A u, d, e, f : Undoes(u, e, d) /\ Twins(d, f) => Undoes(u, e, f)
    /\ \A u, v, d, e, f : Undoes(u, f, e) /\ Undoes(v, e, d) => Undoes(u \o v, f, d)
<1>1. ASSUME NEW d, NEW e, Twins(d, e) PROVE Undoes(<<>>, e, d)
  BY RunStepsParts, NoCommitView, <1>1, TwinsAreEqual, StepsView DEF After, Twins, Undoes
<1>2. ASSUME NEW u, NEW d, NEW e, NEW f, Undoes(u, e, d), Twins(e, f) PROVE Undoes(u, f, d)
  BY <1>2, TwinsAreEqual DEF Undoes, Twins
<1>3. ASSUME NEW u, NEW d, NEW e, NEW f, Undoes(u, e, d), Twins(d, f) PROVE Undoes(u, e, f)
  BY <1>3, TwinsAreEqual DEF Twins, Undoes
<1>4. ASSUME NEW u, NEW v, NEW d, NEW e, NEW f, Undoes(u, f, e), Undoes(v, e, d) PROVE Undoes(u \o v, f, d)
  <2>1. IsSteps(u) /\ IsSteps(v) /\ IsSteps(u \o v) /\ WellFormed(d) /\ WellFormed(f)
    BY <1>4, StepsView DEF Undoes
  <2>2. ASSUME NEW t, Twins(f, t) PROVE After(t, u \o v).ok /\ Twins(d, After(t, u \o v).doc)
    <3> DEFINE x == After(t, u)
               y == After(t, u \o v)
               z == After(x.doc, v)
    <3>1. x.ok /\ Twins(e, x.doc)
      BY <1>4, <2>2 DEF Undoes
    <3>2. z.ok /\ Twins(d, z.doc)
      BY <1>4, <3>1 DEF Undoes
    <3>3. y = RunSteps(x, v)
      <4> DEFINE S == ToSet(u) \cup ToSet(v)
      <4>1. u \in Seq(S) /\ v \in Seq(S)
        BY <2>1, SeqMonotonic DEF IsSteps
      <4> HIDE DEF S
      <4> QED
        BY <4>1, RunStepsParts DEF After
    <3>4. IsTx(x) /\ IsTx(NoCommit(x.doc)) /\ NoCommit(x.doc).ok = TRUE /\ NoCommit(x.doc).doc = x.doc
      BY <2>1, NoCommitView, RunsAgree, WorkView DEF After
    <3>5. x.ok = TRUE
      BY <3>1, <3>4 DEF IsTx
    <3>6. RunSteps(x, v).ok = z.ok /\ RunSteps(x, v).doc = z.doc
      <4> HIDE DEF x
      <4> QED
        BY <2>1, <3>4, <3>5, RunsAgree, WorkView DEF After
    <3> HIDE DEF x, y, z
    <3>7. y.ok /\ Twins(d, y.doc)
      BY <3>2, <3>3, <3>6
    <3> QED
      BY <3>7 DEF y
  <2> QED
    BY <2>1, <2>2 DEF Undoes
<1> QED
  BY <1>1, <1>2, <1>3, <1>4

\* The inverse of a step takes it back.
LEMMA UndoesStep ==
    ASSUME NEW d, IsDocument(d), NEW s, IsTyped(s), StepApply(d, s).ok
    PROVE  Undoes(<<StepApply(d, s).inverse>>, StepApply(d, s).doc, d)
<1> DEFINE a == StepApply(d, s)
           inv == a.inverse
<1>1. WellFormed(d) /\ IsStep(s)
  BY DEF IsDocument, IsTyped
<1>2. /\ WellFormed(a.doc) /\ IsStep(inv)
      /\ StepApply(a.doc, inv).ok /\ Twins(d, StepApply(a.doc, inv).doc)
  BY <1>1, StepApplyUndone
<1>3. IsTyped(inv)
  BY StepApplyIds
<1> HIDE DEF a, inv
<1>4. ASSUME NEW t, Twins(a.doc, t) PROVE After(t, <<inv>>).ok /\ Twins(d, After(t, <<inv>>).doc)
  <2> DEFINE b == StepApply(t, inv)
             r == After(t, <<inv>>)
  <2>1. b.ok /\ Twins(StepApply(a.doc, inv).doc, b.doc)
    BY <1>2, <1>4, StepApplyInTwins
  <2>2. r = StepIn(NoCommit(t), inv)
    BY RunStepsParts DEF After
  <2>3. r.ok = b.ok /\ r.doc = b.doc
    <3>1. IsTx(NoCommit(t)) /\ NoCommit(t).ok /\ NoCommit(t).doc = t
      BY NoCommitView
    <3> HIDE DEF b, r
    <3> DEFINE n == NoCommit(t)
    <3> HIDE DEF n
    <3>2. n.ok => StepIn(n, inv).ok = StepApply(n.doc, inv).ok /\ StepIn(n, inv).doc = StepApply(n.doc, inv).doc
      <4>1. IsTx(n)
        BY <3>1 DEF n
      <4>2. LET c == StepApply(n.doc, inv)
                q == StepIn(n, inv)
            IN  /\ IsTx(q)
                /\ ~n.ok => q = n
                /\ n.ok => q.ok = c.ok /\ q.doc = c.doc
                /\ n.ok /\ c.ok => q = TransactionStep(n, inv, c)
                /\ n.ok /\ ~c.ok => q = [n EXCEPT !.ok = FALSE, !.doc = c.doc]
                /\ c.ok \in BOOLEAN
        BY <1>3, <4>1, StepInView, Zenon
      <4> QED
        BY <4>2
    <3>3. n.ok /\ n.doc = t /\ r = StepIn(n, inv)
      BY <2>2, <3>1 DEF n
    <3> QED
      BY <3>2, <3>3 DEF b
  <2>4. Twins(d, b.doc)
    BY <1>2, <2>1, TwinsAreEqual
  <2> HIDE DEF b, r
  <2>5. r.ok /\ Twins(d, r.doc)
    BY <2>1, <2>3, <2>4
  <2> QED
    BY <2>5 DEF r
<1>5. IsSteps(<<inv>>)
  BY <1>3, StepsView
<1>6. Undoes(<<inv>>, a.doc, d)
  BY <1>1, <1>2, <1>4, <1>5 DEF Undoes
<1> QED
  BY <1>6 DEF a, inv

=============================================================================
