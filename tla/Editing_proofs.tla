--------------------------- MODULE Editing_proofs ---------------------------
(***************************************************************************)
(* Proofs about the editing core of canvist_model: a script runs as a      *)
(* whole or not at all and what it kept takes back what it did; a savepoint *)
(* gives back the very document it was opened on; and whatever is typed,   *)
(* pressed, received or undone, the document stays the tree the schema     *)
(* describes, the caret and the composition stay in its text, the entries  *)
(* of the history retrace, and a call that does nothing leaves no trace:   *)
(* with any extension's commands that keep to what they are promised, and  *)
(* so with the commands canvist_commands registers, which do.              *)
(***************************************************************************)
EXTENDS Registry, BlockDoc_proofs

-----------------------------------------------------------------------------
(***************************************************************************)
(* Savepoints: what an open one has recorded always takes the document     *)
(* back to where it was opened, revisions, ids and version included.       *)
(***************************************************************************)

\* These steps leave the blocks of B and their revisions alone.
Spares(q, e, B) ==
    \A t : Twins(e, t) => Spared(t, After(t, q).doc, B)

LogOf(d, revs, inverses) ==
    [version |-> d.version, next |-> d.next, revs |-> revs, inverses |-> inverses]

\* The log of a savepoint opened on d, the document being e by now.
LoggedAs(d, e, revs, inverses) ==
    /\ IsSteps(inverses) /\ IsA(revs, DOMAIN revs)
    /\ Undoes(Reverse(inverses), e, d)
    /\ \A b \in DOMAIN revs \cap Blocks(d) : revs[b] = d.nodes[b].rev
    /\ Spared(d, e, Blocks(d) \ DOMAIN revs)
    /\ Spares(Reverse(inverses), e, Blocks(d) \ DOMAIN revs)

Logged(d, e) ==
    /\ d.saves \in Seq(ToSet(d.saves))
    /\ \E revs, inverses : /\ LoggedAs(d, e, revs, inverses)
                           /\ e.saves = Append(d.saves, LogOf(d, revs, inverses))

\* The last of a sequence replaced.
LEMMA LastReplaced ==
    ASSUME NEW S, NEW s \in Seq(S), NEW x, NEW y
    PROVE  /\ Append(s, x) # <<>> /\ Len(Append(s, x)) = Len(s) + 1 /\ Append(s, x)[Len(s) + 1] = x
           /\ [Append(s, x) EXCEPT ![Len(s) + 1] = y] = Append(s, y)
           /\ Last(Append(s, x)) = x /\ Front(Append(s, x)) = s
<1> DEFINE T == S \cup {x, y}
           a == Append(s, x)
           b == Append(s, y)
           c == [a EXCEPT ![Len(s) + 1] = y]
<1>1. s \in Seq(T) /\ x \in T /\ y \in T
  BY SeqMonotonic
<1> HIDE DEF T
<1>2. /\ a \in Seq(T) /\ Len(a) = Len(s) + 1 /\ a[Len(s) + 1] = x /\ \A i \in 1 .. Len(s) : a[i] = s[i]
      /\ b \in Seq(T) /\ Len(b) = Len(s) + 1 /\ b[Len(s) + 1] = y /\ \A i \in 1 .. Len(s) : b[i] = s[i]
      /\ Len(s) \in Nat
  BY <1>1, AppendProperties, LenProperties
<1> HIDE DEF a, b
<1>3. a # <<>>
  BY <1>2
<1>4. c = b
  <2>1. DOMAIN a = 1 .. Len(s) + 1 /\ Len(s) + 1 \in 1 .. Len(a)
    BY <1>2
  <2>2. c \in Seq(T) /\ Len(c) = Len(s) + 1
    BY <1>1, <1>2, <2>1, ExceptSeq
  <2>3. \A i \in 1 .. Len(s) + 1 : c[i] = b[i]
    BY <1>2, <2>1
  <2> HIDE DEF c
  <2> QED
    BY <1>2, <2>2, <2>3, SeqEqual
<1>5. Last(a) = x
  BY <1>2 DEF Last
<1>6. Front(a) = s
  <2>1. Front(a) = SubSeq(a, 1, Len(s))
    BY <1>2 DEF Front
  <2>2. SubSeq(a, 1, Len(s)) \in Seq(T) /\ Len(SubSeq(a, 1, Len(s))) = Len(s)
        /\ \A i \in 1 .. Len(s) : SubSeq(a, 1, Len(s))[i] = a[i]
    BY <1>2
  <2> DEFINE f == SubSeq(a, 1, Len(s))
  <2>3. f \in Seq(T) /\ Len(f) = Len(s) /\ \A i \in 1 .. Len(s) : f[i] = s[i]
    BY <1>2, <2>2
  <2> HIDE DEF f
  <2>4. f = s
    BY <1>1, <2>3, SeqEqual
  <2> QED
    BY <2>1, <2>4 DEF f
<1> QED
  BY <1>2, <1>3, <1>4, <1>5, <1>6 DEF a, b

Seen(d, s) == [b \in AffectedBy(d, s) \cap Blocks(d) |-> d.nodes[b].rev]

\* What is recorded goes into the innermost savepoint.
LEMMA RecordsOfLog ==
    ASSUME NEW S, NEW saves \in Seq(S), NEW d, NEW revs, NEW inverses, NEW e, WellFormed(e),
           e.saves = Append(saves, LogOf(d, revs, inverses))
    PROVE  /\ \A s : RecordBefore(e, s).saves = Append(saves, LogOf(d, Known(revs, Seen(e, s)), inverses))
           /\ \A x : RecordInverse(e, x).saves = Append(saves, LogOf(d, revs, Append(inverses, x)))
<1> DEFINE log == LogOf(d, revs, inverses)
<1>1. e = [f \in {"nodes", "root", "next", "version", "saves"} |-> e[f]]
  BY DEF WellFormed, Shaped, IsA
<1>2. e.saves # <<>> /\ Len(e.saves) = Len(saves) + 1 /\ e.saves[Len(saves) + 1] = log
  BY LastReplaced
<1>3. \A y : [e.saves EXCEPT ![Len(saves) + 1] = y] = Append(saves, y)
  BY LastReplaced
<1>4. ASSUME NEW g \in {"revs", "inverses"}, NEW y, NEW z, z = [e EXCEPT !.saves[Len(e.saves)][g] = y]
      PROVE  z.saves = Append(saves, [log EXCEPT ![g] = y])
  <2> DEFINE n == Len(e.saves)
             new == [e.saves[n] EXCEPT ![g] = y]
             all == [e.saves EXCEPT ![n] = new]
  <2>1. z = [e EXCEPT !.saves = all]
    BY <1>4
  <2> HIDE DEF all
  <2>2. z.saves = all
    BY <1>1, <2>1
  <2>3. new = [log EXCEPT ![g] = y]
    BY <1>2
  <2> HIDE DEF new, log
  <2>4. all = Append(saves, new)
    BY <1>2, <1>3 DEF all
  <2> QED
    BY <2>2, <2>3, <2>4
<1>5. ASSUME NEW s PROVE RecordBefore(e, s).saves = Append(saves, LogOf(d, Known(revs, Seen(e, s)), inverses))
  <2> DEFINE y == Known(revs, Seen(e, s))
  <2>1. RecordBefore(e, s) = [e EXCEPT !.saves[Len(e.saves)].revs = Known(e.saves[Len(e.saves)].revs, Seen(e, s))]
    BY <1>2 DEF RecordBefore, Seen
  <2>2. e.saves[Len(e.saves)].revs = revs
    BY <1>2 DEF LogOf
  <2>3. RecordBefore(e, s) = [e EXCEPT !.saves[Len(e.saves)]["revs"] = y]
    BY <2>1, <2>2
  <2> HIDE DEF y
  <2>4. RecordBefore(e, s).saves = Append(saves, [log EXCEPT !["revs"] = y])
    BY <1>4, <2>3
  <2>5. [log EXCEPT !["revs"] = y] = LogOf(d, y, inverses)
    BY DEF LogOf
  <2> HIDE DEF log
  <2> QED
    BY <2>4, <2>5 DEF y
<1>6. ASSUME NEW x PROVE RecordInverse(e, x).saves = Append(saves, LogOf(d, revs, Append(inverses, x)))
  <2> DEFINE y == Append(inverses, x)
  <2>1. RecordInverse(e, x) = [e EXCEPT !.saves[Len(e.saves)].inverses = Append(e.saves[Len(e.saves)].inverses, x)]
    BY <1>2 DEF RecordInverse
  <2>2. e.saves[Len(e.saves)].inverses = inverses
    BY <1>2 DEF LogOf
  <2>3. RecordInverse(e, x) = [e EXCEPT !.saves[Len(e.saves)]["inverses"] = y]
    BY <2>1, <2>2
  <2> HIDE DEF y
  <2>4. RecordInverse(e, x).saves = Append(saves, [log EXCEPT !["inverses"] = y])
    BY <1>4, <2>3
  <2>5. [log EXCEPT !["inverses"] = y] = LogOf(d, revs, y)
    BY DEF LogOf
  <2> HIDE DEF log
  <2> QED
    BY <2>4, <2>5 DEF y
<1> QED
  BY <1>5, <1>6

\* A step affects the same blocks of twins.
LEMMA AffectedInTwins ==
    ASSUME NEW d, NEW e, Twins(d, e), NEW s, IsStep(s), Perform(d, s).ok
    PROVE  AffectedBy(e, s) = AffectedBy(d, s)
<1>1. CASE s.op = "RemoveBlocks"
  <2> DEFINE ids == SubSeq(Kids(d, s.parent), s.index + 1, s.index + s.count)
  <2>1. IndexOk(d, s.parent, s.index, s.index + s.count) /\ s.index \in Nat /\ s.count \in Nat
    BY <1>1 DEF Perform, RemoveBlocks, Failed, IsStep
  <2>2. Siblings(d, s.parent, s.index, s.count)
    BY <2>1 DEF Siblings, IndexOk, Places
  <2>3. WellFormed(d)
    BY DEF Twins
  <2>4. ToSet(ids) \subseteq Blocks(d)
    BY <2>2, <2>3, TakenBlocks
  <2>5. Kids(e, s.parent) = Kids(d, s.parent)
    BY TwinsReadTheSame
  <2> HIDE DEF ids
  <2>6. AllUnder(e.nodes, ToSet(ids)) = AllUnder(d.nodes, ToSet(ids))
    BY <2>4, TwinsAreDeepAlike
  <2> QED
    BY <1>1, <2>5, <2>6 DEF AffectedBy, ids
<1>2. CASE s.op # "RemoveBlocks"
  BY <1>2 DEF AffectedBy
<1> QED
  BY <1>1, <1>2

\* A step spares what it does not affect, the savepoints' records aside.
LEMMA StepApplySpares ==
    ASSUME NEW d, WellFormed(d), NEW s, IsTyped(s)
    PROVE  LET a == StepApply(d, s)
           IN  /\ Spared(d, a.doc, Blocks(d) \ AffectedBy(d, s))
               /\ ~a.ok => Spared(d, a.doc, Blocks(d))
               /\ a.ok => \A t : Twins(a.doc, t) => AffectedBy(t, a.inverse) \cap Blocks(d) \subseteq AffectedBy(d, s)
<1> DEFINE a == StepApply(d, s)
           before == RecordBefore(d, s)
           result == Perform(before, s)
<1>1. /\ WellFormed(before) /\ Twins(d, before)
      /\ a.ok \in BOOLEAN /\ a.ok = result.ok
      /\ ~a.ok => a.doc = before
      /\ a.ok => /\ a.inverse = result.inverse /\ IsStep(a.inverse)
                 /\ a.doc.nodes = result.doc.nodes /\ Twins(result.doc, a.doc)
  BY StepApplyParts
<1>2. before.nodes = d.nodes /\ before.root = d.root
  BY RecordsView
<1>3. Blocks(before) = Blocks(d) /\ AffectedBy(before, s) = AffectedBy(d, s)
  BY <1>2 DEF Blocks, AffectedBy, Kids
<1>4. IsStep(s)
  BY DEF IsTyped
<1> HIDE DEF a, before, result
<1>5. CASE ~a.ok
  BY <1>1, <1>2, <1>5 DEF Spared, Blocks, a
<1>6. CASE a.ok
  <2>1. result = Perform(before, s) /\ result.ok
    BY <1>1, <1>6 DEF result
  <2>2. /\ Spared(before, result.doc, Blocks(before) \ AffectedBy(before, s))
        /\ AffectedBy(result.doc, result.inverse) \cap Blocks(before) \subseteq AffectedBy(before, s)
    BY <1>1, <1>4, <2>1, PerformSpares
  <2>3. Spared(d, a.doc, Blocks(d) \ AffectedBy(d, s))
    BY <1>1, <1>2, <1>3, <1>6, <2>2 DEF Spared, Blocks
  <2>4. ASSUME NEW t, Twins(a.doc, t) PROVE AffectedBy(t, a.inverse) = AffectedBy(result.doc, a.inverse)
    <3>1. Twins(result.doc, t)
      BY <1>1, <1>6, <2>4, TwinsAreEqual
    <3>2. Perform(result.doc, a.inverse).ok
      BY <1>1, <1>4, <1>6, <2>1, StepsAreInvertible DEF Undone
    <3> QED
      BY <1>1, <1>6, <3>1, <3>2, AffectedInTwins
  <2>5. ASSUME NEW t, Twins(a.doc, t) PROVE AffectedBy(t, a.inverse) \cap Blocks(d) \subseteq AffectedBy(d, s)
    BY <1>1, <1>3, <1>6, <2>2, <2>4, <2>5
  <2> QED
    BY <1>6, <2>3, <2>5 DEF a
<1> QED
  BY <1>1, <1>5, <1>6

\* What the steps of one list and then another spare.
LEMMA SparesThen ==
    ASSUME NEW u, IsSteps(u), NEW v, IsSteps(v), NEW e, NEW f, NEW B,
           Undoes(u, f, e), Spares(u, f, B), Spares(v, e, B)
    PROVE  Spares(u \o v, f, B)
<1> SUFFICES ASSUME NEW t, Twins(f, t) PROVE Spared(t, After(t, u \o v).doc, B)
  BY DEF Spares
<1> DEFINE x == After(t, u)
           y == After(t, u \o v)
           z == After(x.doc, v)
<1>1. x.ok /\ Twins(e, x.doc) /\ Spared(t, x.doc, B)
  BY DEF Undoes, Spares
<1>2. Spared(x.doc, z.doc, B)
  BY <1>1 DEF Spares
<1>3. y = RunSteps(x, v)
  <2> DEFINE S == ToSet(u) \cup ToSet(v)
  <2>1. u \in Seq(S) /\ v \in Seq(S)
    BY SeqMonotonic DEF IsSteps
  <2> HIDE DEF S
  <2> QED
    BY <2>1, RunStepsParts DEF After
<1>4. IsTx(x) /\ IsTx(NoCommit(x.doc)) /\ NoCommit(x.doc).ok = TRUE /\ NoCommit(x.doc).doc = x.doc
  BY NoCommitView, RunsAgree, WorkView DEF After
<1>5. x.ok = TRUE
  BY <1>1, <1>4 DEF IsTx
<1>6. y.doc = z.doc
  <2> HIDE DEF x
  <2>1. RunSteps(x, v).doc = RunSteps(NoCommit(x.doc), v).doc
    BY <1>4, <1>5, RunsAgree, WorkView
  <2> QED
    BY <1>3, <2>1 DEF After
<1> HIDE DEF x, y, z
<1>7. Spared(t, y.doc, B)
  BY <1>1, <1>2, <1>6 DEF Spared
<1> QED
  BY <1>7 DEF y

\* A step, applied or refused, extends what the savepoint needs.
LEMMA LoggedStep ==
    ASSUME NEW d, NEW e, IsDocument(e), NEW s, IsTyped(s), NEW revs, NEW inverses, LoggedAs(d, e, revs, inverses)
    PROVE  LET a == StepApply(e, s)
               more == Known(revs, Seen(e, s))
           IN  /\ a.ok => LoggedAs(d, a.doc, more, Append(inverses, a.inverse))
               /\ ~a.ok => LoggedAs(d, a.doc, more, inverses)
<1> DEFINE a == StepApply(e, s)
           more == Known(revs, Seen(e, s))
           I == inverses
           B == Blocks(d) \ DOMAIN revs
           C == Blocks(d) \ DOMAIN more
           Aff == AffectedBy(e, s)
<1>1. WellFormed(e) /\ IsStep(s)
  BY DEF IsDocument, IsTyped
<1>2. /\ IsSteps(I) /\ IsA(revs, DOMAIN revs) /\ Undoes(Reverse(I), e, d)
      /\ \A b \in DOMAIN revs \cap Blocks(d) : revs[b] = d.nodes[b].rev
      /\ Spared(d, e, B) /\ Spares(Reverse(I), e, B)
  BY DEF LoggedAs
<1>3. /\ DOMAIN more = DOMAIN revs \cup (Aff \cap Blocks(e)) /\ IsA(more, DOMAIN more)
      /\ \A b \in DOMAIN revs : more[b] = revs[b]
      /\ \A b \in (Aff \cap Blocks(e)) \ DOMAIN revs : more[b] = e.nodes[b].rev
  BY DEF Seen, IsA, Known
<1> HIDE DEF more
<1>4. C \subseteq B /\ \A b \in C : b \in Blocks(e) /\ b \notin Aff
  BY <1>2, <1>3 DEF Spared
<1>5. \A b \in DOMAIN more \cap Blocks(d) : more[b] = d.nodes[b].rev
  <2> SUFFICES ASSUME NEW b \in DOMAIN more \cap Blocks(d) PROVE more[b] = d.nodes[b].rev
    OBVIOUS
  <2>1. CASE b \in DOMAIN revs
    BY <1>2, <1>3, <2>1
  <2>2. CASE b \notin DOMAIN revs
    BY <1>3, <2>2, <1>2 DEF Spared
  <2> QED
    BY <2>1, <2>2
<1>6. /\ Spared(e, a.doc, Blocks(e) \ Aff)
      /\ ~a.ok => Spared(e, a.doc, Blocks(e))
      /\ a.ok => \A t : Twins(a.doc, t) => AffectedBy(t, a.inverse) \cap Blocks(e) \subseteq Aff
  BY <1>1, StepApplySpares
<1>7. Spared(d, a.doc, C)
  <2> HIDE DEF a, Aff, B, C
  <2> QED
    BY <1>2, <1>4, <1>6 DEF Spared
<1>8. CASE ~a.ok
  <2>1. Twins(e, a.doc)
    BY <1>1, <1>8, StepApplyParts
  <2>2. Undoes(Reverse(I), a.doc, d)
    BY <1>2, <2>1, UndoesView
  <2>3. Spares(Reverse(I), a.doc, C)
    <3>1. \A t : Twins(a.doc, t) => Twins(e, t)
      BY <2>1, TwinsAreEqual
    <3> HIDE DEF a, B, C
    <3> QED
      BY <1>2, <1>4, <3>1 DEF Spares, Spared
  <2> HIDE DEF a
  <2>4. LoggedAs(d, a.doc, more, I)
    BY <1>2, <1>3, <1>5, <1>7, <2>2, <2>3 DEF LoggedAs
  <2> QED
    BY <1>8, <2>4 DEF a, more
<1>9. CASE a.ok
  <2> DEFINE inv == a.inverse
             J == Append(I, inv)
  <2>1. Undoes(<<inv>>, a.doc, e)
    BY <1>9, UndoesStep
  <2>2. IsTyped(inv) /\ IsDocument(a.doc)
    BY <1>9, StepApplyIds
  <2> HIDE DEF inv, a
  <2>3. IsSteps(<<inv>>) /\ Reverse(<<inv>>) = <<inv>> /\ J = I \o <<inv>>
    BY <1>2, <2>2, StepsView
  <2>4. IsSteps(J) /\ Reverse(J) = <<inv>> \o Reverse(I) /\ IsSteps(Reverse(I))
    <3> DEFINE one == <<inv>>
    <3>1. IsSteps(I) /\ IsSteps(one) /\ Reverse(one) = one
      BY <1>2, <2>3
    <3> HIDE DEF one
    <3>2. IsSteps(I \o one) /\ Reverse(I \o one) = Reverse(one) \o Reverse(I) /\ IsSteps(Reverse(I))
      BY <3>1, StepsView
    <3>3. J = I \o one
      BY <2>3 DEF one
    <3> HIDE DEF J
    <3>4. IsSteps(J) /\ Reverse(J) = one \o Reverse(I)
      BY <3>1, <3>2, <3>3
    <3> QED
      BY <3>2, <3>4 DEF one
  <2> HIDE DEF J
  <2>5. Undoes(Reverse(J), a.doc, d)
    BY <1>2, <2>1, <2>4, UndoesView
  <2>6. Spares(<<inv>>, a.doc, C)
    <3> SUFFICES ASSUME NEW t, Twins(a.doc, t) PROVE Spared(t, After(t, <<inv>>).doc, C)
      BY DEF Spares
    <3> DEFINE c == StepApply(t, inv)
    <3>1. WellFormed(t) /\ Blocks(t) = Blocks(a.doc)
      BY DEF Twins, Alike
    <3>2. Spared(t, c.doc, Blocks(t) \ AffectedBy(t, inv))
      BY <2>2, <3>1, StepApplySpares
    <3>3. After(t, <<inv>>) = StepIn(NoCommit(t), inv)
      BY RunStepsParts DEF After
    <3>4. After(t, <<inv>>).doc = c.doc
      <4> DEFINE n == NoCommit(t)
                 m == StepIn(n, inv)
      <4>1. IsTx(n) /\ n.ok = TRUE /\ n.doc = t
        BY NoCommitView
      <4>2. Tried(t, inv) = c
        BY <2>2 DEF IsTyped, IsStep, GiveUp, Tried
      <4> HIDE DEF n, c
      <4>3. n.ok => m.doc = Tried(n.doc, inv).doc
        BY <2>2, <4>1, StepInTried
      <4>4. m.doc = c.doc
        BY <4>1, <4>2, <4>3
      <4> QED
        BY <3>3, <4>4 DEF n
    <3>5. \A b \in C : b \in Blocks(t) /\ b \notin AffectedBy(t, inv)
      <4>1. AffectedBy(t, inv) \cap Blocks(e) \subseteq Aff
        BY <1>6, <1>9 DEF inv
      <4>2. \A b \in C : b \in Blocks(a.doc)
        BY <1>7 DEF Spared
      <4> HIDE DEF C, Aff
      <4> QED
        BY <1>4, <3>1, <4>1, <4>2
    <3> HIDE DEF c, C
    <3>6. Spared(t, c.doc, C)
      BY <3>2, <3>5 DEF Spared
    <3> QED
      BY <3>4, <3>6
  <2>7. Spares(Reverse(I), e, C)
    <3> HIDE DEF B, C
    <3> QED
      BY <1>2, <1>4 DEF Spares, Spared
  <2>8. Spares(Reverse(J), a.doc, C)
    <3> HIDE DEF C
    <3>1. Spares(<<inv>> \o Reverse(I), a.doc, C)
      BY <2>1, <2>3, <2>4, <2>6, <2>7, SparesThen
    <3> QED
      BY <2>4, <3>1
  <2>9. LoggedAs(d, a.doc, more, J)
    BY <1>3, <1>5, <1>7, <2>4, <2>5, <2>8 DEF LoggedAs
  <2>10. J = Append(I, a.inverse)
    BY DEF J, inv
  <2> HIDE DEF C
  <2>11. LoggedAs(d, a.doc, more, Append(I, a.inverse))
    BY <2>9, <2>10
  <2> QED
    BY <1>9, <2>11 DEF a, more
<1>10. a.ok \in BOOLEAN
  BY <1>1, StepApplyParts
<1> QED
  BY <1>8, <1>9, <1>10

\* What leaves the savepoints open on d as they are, or adds to the innermost
\* what it takes to come back.
Follows(d, e) ==
    /\ d.saves = <<>> => e.saves = <<>>
    /\ \A base : Logged(base, d) => Logged(base, e)

\* Following is reflexive and transitive, and a step tried follows.
LEMMA FollowsView ==
    /\ \A d : Follows(d, d)
    /\ \A d, e, f : Follows(d, e) /\ Follows(e, f) => Follows(d, f)
    /\ \A d, s : IsDocument(d) /\ (IsTyped(s) \/ s = GiveUp) => Follows(d, Tried(d, s).doc)
<1>1. \A d : Follows(d, d)
  BY DEF Follows
<1>2. \A d, e, f : Follows(d, e) /\ Follows(e, f) => Follows(d, f)
  BY DEF Follows
<1>3. ASSUME NEW e, NEW s, IsDocument(e), IsTyped(s) \/ s = GiveUp PROVE Follows(e, Tried(e, s).doc)
  <2>1. CASE s = GiveUp
    BY <2>1, <1>1 DEF Tried, Failed
  <2>2. CASE IsTyped(s) /\ s # GiveUp
    <3> DEFINE a == StepApply(e, s)
               before == RecordBefore(e, s)
    <3>1. Tried(e, s) = a
      BY <2>2 DEF Tried
    <3>2. /\ WellFormed(before) /\ a.ok \in BOOLEAN /\ a.doc.saves = SavesAfter(e, s)
      BY <1>3, <2>2, StepApplyParts DEF IsDocument
    <3>3. e.saves = <<>> => a.doc.saves = <<>>
      BY <1>3, <2>2, StepApplyIds
    <3>4. ASSUME NEW d, Logged(d, e) PROVE Logged(d, a.doc)
      <4>1. PICK revs, inverses : /\ LoggedAs(d, e, revs, inverses)
                                  /\ e.saves = Append(d.saves, LogOf(d, revs, inverses))
        BY <3>4 DEF Logged
      <4> DEFINE more == Known(revs, Seen(e, s))
                 all == Append(inverses, a.inverse)
      <4>2. d.saves \in Seq(ToSet(d.saves))
        BY <3>4 DEF Logged
      <4>3. /\ a.ok => LoggedAs(d, a.doc, more, all)
            /\ ~a.ok => LoggedAs(d, a.doc, more, inverses)
        BY <1>3, <2>2, <4>1, LoggedStep
      <4>4. WellFormed(e)
        BY <1>3 DEF IsDocument
      <4>5. before.saves = Append(d.saves, LogOf(d, more, inverses))
        BY <4>1, <4>2, <4>4, RecordsOfLog
      <4> HIDE DEF more
      <4>6. RecordInverse(before, a.inverse).saves = Append(d.saves, LogOf(d, more, all))
        <5> DEFINE x == a.inverse
        <5> HIDE DEF before, x
        <5>1. RecordInverse(before, x).saves = Append(d.saves, LogOf(d, more, Append(inverses, x)))
          BY <3>2, <4>2, <4>5, RecordsOfLog
        <5> QED
          BY <5>1 DEF x
      <4>7. a.doc.saves = IF a.ok THEN RecordInverse(before, a.inverse).saves ELSE before.saves
        BY <3>2 DEF SavesAfter
      <4> HIDE DEF a, before, all
      <4>8. CASE a.ok
        BY <4>2, <4>3, <4>6, <4>7, <4>8 DEF Logged
      <4>9. CASE ~a.ok
        BY <4>2, <4>3, <4>5, <4>7, <4>9 DEF Logged
      <4> QED
        BY <4>8, <4>9
    <3> HIDE DEF a
    <3> QED
      BY <3>1, <3>3, <3>4 DEF Follows
  <2> QED
    BY <1>3, <2>1, <2>2
<1> QED
  BY <1>1, <1>2, <1>3

\* A document with other savepoints or counters reads the same.
LEMMA TwinsButCounters ==
    ASSUME NEW d, WellFormed(d), NEW e, e = [f \in {"nodes", "root", "next", "version", "saves"} |-> e[f]],
           e.nodes = d.nodes, e.root = d.root
    PROVE  Twins(d, e)
<1>1. WellFormed(e) /\ Alike(d, e)
  BY OnlyTheSaves DEF IsA
<1> QED
  BY <1>1 DEF Twins

\* A savepoint just opened.
LEMMA SavepointOpened ==
    ASSUME NEW d, IsDocument(d), d.saves \in Seq(ToSet(d.saves))
    PROVE  /\ IsDocument(Savepoint(d)) /\ Twins(d, Savepoint(d)) /\ Logged(d, Savepoint(d))
           /\ Savepoint(d).nodes = d.nodes /\ Savepoint(d).root = d.root
           /\ Savepoint(d).next = d.next /\ Savepoint(d).version = d.version
<1> DEFINE e == Savepoint(d)
<1>1. WellFormed(d) /\ d = [f \in {"nodes", "root", "next", "version", "saves"} |-> d[f]]
  BY DEF IsDocument, WellFormed, Shaped, IsA
<1>2. /\ e = [f \in {"nodes", "root", "next", "version", "saves"} |-> e[f]]
      /\ e.nodes = d.nodes /\ e.root = d.root /\ e.next = d.next /\ e.version = d.version
      /\ e.saves = Append(d.saves, LogOf(d, <<>>, <<>>))
  BY <1>1 DEF Savepoint, LogOf
<1> HIDE DEF e
<1>3. Twins(d, e) /\ WellFormed(e)
  BY <1>1, <1>2, TwinsButCounters DEF Twins
<1>4. IsDocument(e)
  BY <1>2, <1>3 DEF IsDocument, Ids, Blocks
<1>5. LoggedAs(d, e, <<>>, <<>>)
  <2>1. DOMAIN <<>> = {} /\ IsA(<<>>, {})
    BY DEF IsA
  <2>2. IsSteps(<<>>) /\ Reverse(<<>>) = <<>>
    BY StepsView
  <2>3. Undoes(<<>>, e, d)
    BY <1>3, UndoesView
  <2>4. Spared(d, e, Blocks(d))
    BY <1>2 DEF Spared, Blocks
  <2>5. Spares(<<>>, e, Blocks(d))
    <3>1. ASSUME NEW t, Twins(e, t) PROVE Spared(t, After(t, <<>>).doc, Blocks(d))
      BY RunStepsParts, NoCommitView, <3>1, <1>2 DEF After, Twins, Alike, Spared, Blocks
    <3> QED
      BY <3>1 DEF Spares
  <2> DEFINE none == <<>>
  <2> HIDE DEF none
  <2>6. Blocks(d) \ DOMAIN <<>> = Blocks(d)
    BY <2>1
  <2> QED
    BY <2>1, <2>2, <2>3, <2>4, <2>5, <2>6 DEF LoggedAs
<1>6. Logged(d, e)
  BY <1>2, <1>5 DEF Logged
<1> QED
  BY <1>2, <1>3, <1>4, <1>6 DEF e

\* Rolling back to a savepoint gives back the very document it was opened on,
\* revisions, ids, version and outer savepoints included.
LEMMA RollbackIsExact ==
    ASSUME NEW d, NEW e, Logged(d, e)
    PROVE  RollbackTo(e, Len(d.saves) + 1) = d
<1>1. PICK revs, inverses : /\ LoggedAs(d, e, revs, inverses)
                            /\ e.saves = Append(d.saves, LogOf(d, revs, inverses))
  BY DEF Logged
<1> DEFINE S == d.saves
           log == LogOf(d, revs, inverses)
           n == Len(S) + 1
           q == Reverse(inverses)
           bare == [e EXCEPT !.saves = <<>>]
           t == After(bare, q)
           back == [t.doc EXCEPT !.saves = S]
           r == Restored(back, log)
           fields == {"nodes", "root", "next", "version", "saves"}
<1>2. S \in Seq(ToSet(S)) /\ Len(S) \in Nat
  BY LenProperties DEF Logged
<1>3. /\ IsSteps(inverses) /\ Undoes(q, e, d)
      /\ \A b \in DOMAIN revs \cap Blocks(d) : revs[b] = d.nodes[b].rev
      /\ Spared(d, e, Blocks(d) \ DOMAIN revs)
      /\ Spares(q, e, Blocks(d) \ DOMAIN revs)
  BY <1>1 DEF LoggedAs
<1>4. /\ WellFormed(d) /\ WellFormed(e)
      /\ d = [f \in fields |-> d[f]] /\ e = [f \in fields |-> e[f]]
  BY <1>3 DEF Undoes, WellFormed, Shaped, IsA
<1>5. CollapseInto(e.saves, n) = e.saves /\ Last(e.saves) = log /\ Front(e.saves) = S
  <2>1. /\ e.saves # <<>> /\ Len(e.saves) = n /\ e.saves[n] = log
        /\ Last(e.saves) = log /\ Front(e.saves) = S
    BY <1>1, <1>2, LastReplaced
  <2>2. /\ e.saves \in Seq(ToSet(S) \cup {log}) /\ \A i \in 1 .. Len(S) : e.saves[i] = S[i]
    <3>1. S \in Seq(ToSet(S) \cup {log})
      BY <1>2, SeqMonotonic
    <3> HIDE DEF S, log
    <3> QED
      BY <1>1, <3>1, AppendProperties DEF S, log
  <2>3. SubSeq(e.saves, 1, n - 1) = S
    <3> DEFINE T == ToSet(S) \cup {log}
               s == e.saves
               f == SubSeq(s, 1, n - 1)
    <3>1. s \in Seq(T) /\ Len(s) = n /\ n - 1 = Len(S) /\ n \in Nat
      BY <1>2, <2>1, <2>2
    <3>2. S \in Seq(T)
      BY <1>2, SeqMonotonic
    <3> HIDE DEF s, T, S, n
    <3>3. f \in Seq(T) /\ Len(f) = Len(S) /\ \A i \in 1 .. Len(S) : f[i] = s[i]
      BY <1>2, <3>1
    <3>4. \A i \in 1 .. Len(S) : f[i] = S[i]
      BY <2>2, <3>3 DEF s
    <3> HIDE DEF f
    <3>5. f = S
      BY <3>2, <3>3, <3>4, SeqEqual
    <3> QED
      BY <3>5 DEF f, s
  <2>4. /\ CollapseInto(e.saves, n) = Append(SubSeq(e.saves, 1, n - 1), FoldingAt(e.saves, n)[Len(e.saves) - n])
        /\ FoldingAt(e.saves, n)[0] = e.saves[n]
    <3>1. Len(e.saves) - n \in Nat
      BY <1>2, <2>1
    <3> HIDE DEF n
    <3> QED
      BY <3>1, FoldingUnfolds
  <2>5. Len(e.saves) - n = 0
    BY <1>2, <2>1
  <2> HIDE DEF n, log, S
  <2>6. CollapseInto(e.saves, n) = Append(S, log)
    BY <2>1, <2>3, <2>4, <2>5
  <2> QED
    BY <1>1, <2>1, <2>6 DEF log, S
<1>6. RollbackTo(e, n) = IF t.ok THEN r ELSE back
  <2> HIDE DEF n, S, log
  <2>1. RollbackTo(e, n) =
          LET u == RunSteps(NoCommit([e EXCEPT !.saves = <<>>]), Reverse(Last(e.saves).inverses))
              b == [u.doc EXCEPT !.saves = Front(e.saves)]
          IN  IF u.ok THEN Restored(b, Last(e.saves)) ELSE b
    BY <1>5 DEF RollbackTo
  <2>2. Last(e.saves).inverses = inverses
    BY <1>5 DEF log, LogOf
  <2> QED
    BY <1>5, <2>1, <2>2 DEF After
<1>7. Twins(e, bare) /\ bare.nodes = e.nodes
  <2>1. bare = [f \in fields |-> bare[f]] /\ bare.nodes = e.nodes /\ bare.root = e.root
    BY <1>4
  <2> HIDE DEF bare
  <2> QED
    BY <1>4, <2>1, TwinsButCounters
<1>8. t.ok /\ Twins(d, t.doc) /\ Spared(bare, t.doc, Blocks(d) \ DOMAIN revs)
  <2> HIDE DEF bare, q
  <2> QED
    BY <1>3, <1>7 DEF Undoes, Spares
<1> HIDE DEF t, S, n, log
<1>9. t.doc = [f \in fields |-> t.doc[f]] /\ WellFormed(t.doc)
  BY <1>8 DEF Twins, WellFormed, Shaped, IsA
<1>10. /\ back.nodes = t.doc.nodes /\ back.root = t.doc.root /\ back.saves = d.saves
       /\ back = [f \in fields |-> back[f]]
  BY <1>9 DEF S
<1>11. log.version = d.version /\ log.next = d.next /\ log.revs = revs
  BY DEF log, LogOf
<1> HIDE DEF back
<1> DEFINE nodes == [b \in DOMAIN back.nodes |-> IF b \in DOMAIN revs THEN [back.nodes[b] EXCEPT !.rev = revs[b]]
                                                 ELSE back.nodes[b]]
<1>12. /\ r = [f \in fields |-> r[f]] /\ r.nodes = nodes
       /\ r.root = back.root /\ r.saves = back.saves /\ r.version = d.version /\ r.next = d.next
  <2>1. r = [back EXCEPT !.version = d.version, !.next = d.next, !.nodes = nodes]
    BY <1>11 DEF Restored
  <2> HIDE DEF nodes, r
  <2> QED
    BY <1>10, <2>1
<1>13. DOMAIN back.nodes = Blocks(d) /\ d.nodes = [b \in Blocks(d) |-> d.nodes[b]]
  BY <1>4, <1>8, <1>10 DEF Twins, Alike, Blocks, WellFormed, Shaped, IsA
<1>14. ASSUME NEW b \in Blocks(d) PROVE nodes[b] = d.nodes[b]
  <2> DEFINE x == t.doc.nodes[b]
             y == d.nodes[b]
             all == BlockFields \cup {"rev"}
  <2>1. x = [f \in all |-> x[f]] /\ y = [f \in all |-> y[f]]
    BY <1>8, <1>4, <1>9 DEF Twins, Alike, WellFormed, Shaped, IsA
  <2>2. x.kind = y.kind /\ x.attr = y.attr /\ x.parent = y.parent /\ x.text = y.text
    BY <1>8 DEF Twins, Alike, Parent, Text
  <2>3. x.kids = y.kids
    BY <1>4, <1>8 DEF Places, WellFormed, Shaped, Twins, Alike, Kids
  <2>4. CASE b \in DOMAIN revs
    <3>1. nodes[b] = [x EXCEPT !.rev = revs[b]]
      BY <1>10, <1>13, <2>4
    <3>2. revs[b] = y.rev
      BY <1>3, <2>4
    <3> DEFINE z == [x EXCEPT !.rev = revs[b]]
    <3>3. z = [f \in all |-> z[f]] /\ \A f \in all : z[f] = y[f]
      <4> HIDE DEF x, y
      <4> QED
        BY <2>1, <2>2, <2>3, <3>2 DEF BlockFields
    <3> HIDE DEF z, x, y, nodes, all
    <3>4. z = y
      BY <2>1, <3>3
    <3> QED
      BY <3>1, <3>4 DEF z, y
  <2>5. CASE b \notin DOMAIN revs
    <3>1. nodes[b] = x
      BY <1>10, <1>13, <2>5
    <3>2. x.rev = y.rev
      BY <1>3, <1>7, <1>8, <2>5 DEF Spared
    <3>3. \A f \in all : x[f] = y[f]
      <4> HIDE DEF x, y
      <4> QED
        BY <2>2, <2>3, <3>2 DEF BlockFields
    <3> HIDE DEF x, y, nodes, all
    <3>4. x = y
      BY <2>1, <3>3
    <3> QED
      BY <3>1, <3>4 DEF y
  <2> QED
    BY <2>4, <2>5
<1>15. nodes = d.nodes
  BY <1>13, <1>14
<1>16. back.root = d.root
  BY <1>8, <1>10 DEF Twins, Alike, Places, Kids
<1> HIDE DEF nodes, r
<1>17. \A f \in fields : r[f] = d[f]
  BY <1>10, <1>12, <1>15, <1>16
<1>18. r = d
  <2> HIDE DEF fields
  <2> QED
    BY <1>4, <1>12, <1>17
<1> QED
  BY <1>6, <1>8, <1>18 DEF n, S

-----------------------------------------------------------------------------
(***************************************************************************)
(* What the edits of a script turn into.                                   *)
(***************************************************************************)

\* Lists of one and of two steps, and longer ones given element by element.
LEMMA WorkOf ==
    /\ \A s : IsTyped(s) => IsWork(<<s>>)
    /\ \A r, s : IsTyped(r) /\ IsTyped(s) => IsWork(<<r, s>>)
    /\ \A q, n : n \in Nat /\ q = [i \in 1 .. n |-> q[i]] /\ (\A i \in 1 .. n : IsTyped(q[i])) => IsSteps(q)
<1>1. ASSUME NEW q, NEW n, n \in Nat, q = [i \in 1 .. n |-> q[i]], \A i \in 1 .. n : IsTyped(q[i])
      PROVE  IsSteps(q)
  <2> DEFINE S == {q[i] : i \in 1 .. n}
  <2>1. q \in [1 .. n -> S]
    BY <1>1
  <2>2. q \in Seq(S)
    BY <1>1, <2>1, SeqDef
  <2>3. ToSet(q) \subseteq S /\ q \in Seq(ToSet(q))
    BY <2>2, MemberOf
  <2>4. \A s \in S : IsTyped(s)
    BY <1>1
  <2> HIDE DEF S
  <2> QED
    BY <2>3, <2>4 DEF IsSteps
<1>2. ASSUME NEW s, IsTyped(s) PROVE IsWork(<<s>>)
  BY <1>2, StepsView, WorkView
<1>3. ASSUME NEW r, NEW s, IsTyped(r), IsTyped(s) PROVE IsWork(<<r, s>>)
  <2> DEFINE q == <<r, s>>
  <2>1. q \in Seq({r, s}) /\ Len(q) = 2
    OBVIOUS
  <2> HIDE DEF q
  <2>2. ToSet(q) \subseteq {r, s} /\ q \in Seq(ToSet(q))
    BY <2>1, MemberOf
  <2>3. IsWork(q)
    BY <1>3, <2>2 DEF IsWork
  <2> QED
    BY <2>3 DEF q
<1> QED
  BY <1>1, <1>2, <1>3

\* The places edits are given by.
LEMMA IndexView ==
    ASSUME NEW d, WellFormed(d)
    PROVE  /\ \A b \in Blocks(d) : Index(d, b) \in Nat /\ Index(d, b) < Len(Kids(d, Parent(d, b)))
           /\ \A p : Kids(d, p) \in Seq(Blocks(d)) /\ Len(Kids(d, p)) \in Nat
           /\ \A b : TextLen(d, b) \in Nat
           /\ \A b \in Blocks(d) : IsContent(Text(d, b))
<1>1. \A p : Kids(d, p) \in Seq(Blocks(d)) /\ Len(Kids(d, p)) \in Nat
  <2> TAKE p
  <2>1. CASE p \in Blocks(d) \cup {Root}
    BY <2>1, LenProperties DEF WellFormed, Linked
  <2>2. CASE p \notin Blocks(d) \cup {Root}
    BY <2>2, EmptySeq DEF Kids
  <2> QED
    BY <2>1, <2>2
<1>2. ASSUME NEW b \in Blocks(d) PROVE Index(d, b) \in Nat /\ Index(d, b) < Len(Kids(d, Parent(d, b)))
  <2> DEFINE K == Kids(d, Parent(d, b))
  <2>1. K \in Seq(Blocks(d)) /\ IsInjective(K) /\ b \in ToSet(K)
    BY DEF WellFormed, Linked
  <2> HIDE DEF K
  <2>2. PICK i \in 1 .. Len(K) : K[i] = b
    BY <2>1, MemberOf
  <2>3. PlaceIn(K, b) = i
    BY <2>1, <2>2, PlaceOf
  <2>4. Index(d, b) = i - 1
    BY <2>3 DEF Index, IndexInParent, K
  <2>5. Len(K) \in Nat
    BY <2>1, LenProperties
  <2>6. Index(d, b) \in Nat /\ Index(d, b) < Len(K)
    BY <2>2, <2>4, <2>5
  <2> QED
    BY <2>6 DEF K
<1>3. \A b \in Blocks(d) : IsContent(Text(d, b))
  BY DEF WellFormed, Holds
<1>4. \A b : TextLen(d, b) \in Nat
  BY <1>3, LenProperties DEF TextLen, IsText, IsContent
<1> QED
  BY <1>1, <1>2, <1>3, <1>4

\* A block, then those it is below: each a block of the document.
LEMMA AncestorsView ==
    ASSUME NEW d, WellFormed(d), NEW b
    PROVE  /\ AncestorsOrSelf(d, b) \in Seq(Blocks(d))
           /\ ToSet(AncestorsOrSelf(d, b)) = {a \in Blocks(d) : b \in Subtree(d, a)}
<1> DEFINE S == {a \in Blocks(d) : b \in Subtree(d, a)}
           q == Among(DocOrder(d), S)
<1>1. DocOrder(d) \in Seq(Blocks(d)) /\ ToSet(DocOrder(d)) = Blocks(d)
  BY ReadingOrderIsComplete
<1> HIDE DEF S
<1>2. q \in Seq(Blocks(d)) /\ ToSet(q) = Blocks(d) \cap S
  BY <1>1, AmongView
<1>3. AncestorsOrSelf(d, b) = Reverse(q)
  BY DEF AncestorsOrSelf, S
<1> HIDE DEF q
<1>4. Reverse(q) \in Seq(Blocks(d)) /\ ToSet(Reverse(q)) = ToSet(q)
  BY <1>2, ReverseView
<1> QED
  BY <1>2, <1>3, <1>4 DEF S

\* The steps an edit turns into are steps the code can build.
LEMMA ResolveIsWork ==
    ASSUME NEW d, IsDocument(d), NEW e, e.op \in Edits
    PROVE  IsWork(Resolve(d, e))
<1>0. WellFormed(d) /\ d.next \in Nat \ {0} /\ Blocks(d) \subseteq Int
  BY DEF IsDocument, Ids
<1>1. /\ \A b \in Blocks(d) : Index(d, b) \in Nat
      /\ \A p : Len(Kids(d, p)) \in Nat
      /\ \A b : TextLen(d, b) \in Nat
      /\ \A b \in Blocks(d) : IsContent(Text(d, b))
  BY <1>0, IndexView
<1>2. \A b \in Blocks(d) : IsTyped(Removal(d, b))
  BY <1>1 DEF Removal, RemoveBlocksStep, IsTyped, IsStep
<1>3. \A from, into : IsTyped(MoveAllStep(d, from, into))
  BY <1>1 DEF MoveAllStep, MoveBlocksStep, IsTyped, IsStep
<1>4. \A b, c : IsTyped(JoinStep(b, c))
  BY DEF JoinStep, IsTyped, IsStep
<1>5. CASE e.op = "RemoveBlock"
  BY <1>5, <1>2, WorkOf, WorkView DEF Resolve
<1>6. CASE e.op = "PruneEmpty"
  <2> DEFINE p == e.block
             chain == AncestorsOrSelf(d, p)
             Gone == {n \in DOMAIN chain : \A i \in 1..n :
                        /\ ContentOf[d.nodes[chain[i]].kind] = "blocks"
                        /\ Len(Kids(d, chain[i])) = IF i = 1 THEN 0 ELSE 1}
             q == [i \in 1 .. Cardinality(Gone) |-> Removal(d, chain[i])]
  <2>1. Resolve(d, e) = IF p \notin Blocks(d) THEN <<>> ELSE q
    BY <1>6 DEF Resolve, Pruned
  <2>2. chain \in Seq(Blocks(d))
    BY <1>0, AncestorsView
  <2> HIDE DEF chain
  <2>3. DOMAIN chain = 1 .. Len(chain) /\ Len(chain) \in Nat /\ \A i \in 1 .. Len(chain) : chain[i] \in Blocks(d)
    BY <2>2, LenProperties, ElementOfSeq
  <2>4. Gone \subseteq 1 .. Len(chain)
    BY <2>3
  <2> HIDE DEF Gone
  <2>5. Cardinality(Gone) \in Nat /\ Cardinality(Gone) <= Len(chain)
    <3>1. IsFiniteSet(1 .. Len(chain)) /\ Cardinality(1 .. Len(chain)) = Len(chain)
      BY <2>3, FS_Interval
    <3> QED
      BY <2>4, <3>1, FS_Subset, FS_CardinalityType
  <2> DEFINE n == Cardinality(Gone)
  <2>6. q = [i \in 1 .. n |-> q[i]] /\ \A i \in 1 .. n : IsTyped(q[i])
    BY <1>2, <2>3, <2>5
  <2>7. IsSteps(q)
    <3>1. n \in Nat
      BY <2>5
    <3> HIDE DEF q, n
    <3> QED
      BY <2>6, <3>1, WorkOf
  <2> HIDE DEF q
  <2> QED
    BY <2>1, <2>7, WorkView
<1>7. CASE e.op = "MoveAll"
  BY <1>7, <1>3, WorkOf DEF Resolve
<1>8. CASE e.op = "AdoptChildren"
  BY <1>8, <1>3, WorkOf, WorkView DEF Resolve, Adopted
<1>9. CASE e.op = "MergeText"
  <2> DEFINE T == e.target
             S == e.source
             into == Parent(d, T)
             from == Parent(d, S)
             move == MoveBlocksStep(from, Index(d, S), 1, into, Index(d, T) + 1)
             join == JoinStep(T, S)
             put == InsertInlineStep(T, TextLen(d, T), Text(d, S))
             drop == Removal(d, S)
  <2>1. Resolve(d, e) = IF {T, S} \subseteq Blocks(d) THEN Merged(d, T, S) ELSE <<GiveUp>>
    BY <1>9 DEF Resolve
  <2>2. Merged(d, T, S) \in {<<join>>, <<move, join>>, <<put, drop>>}
    BY DEF Merged
  <2>3. ASSUME T \in Blocks(d), S \in Blocks(d) PROVE IsTyped(move) /\ IsTyped(join) /\ IsTyped(put) /\ IsTyped(drop)
    BY <1>1, <2>3, <1>2, <1>4 DEF MoveBlocksStep, IsTyped, IsStep, InsertInlineStep
  <2>4. CASE {T, S} \subseteq Blocks(d)
    <3>1. IsWork(<<join>>) /\ IsWork(<<move, join>>) /\ IsWork(<<put, drop>>)
      <4>1. IsTyped(move) /\ IsTyped(join) /\ IsTyped(put) /\ IsTyped(drop)
        BY <2>3, <2>4
      <4> HIDE DEF move, join, put, drop
      <4> QED
        BY <4>1, WorkOf
    <3> QED
      BY <2>1, <2>2, <2>4, <3>1
  <2>5. CASE ~({T, S} \subseteq Blocks(d))
    BY <2>1, <2>5, WorkView
  <2> QED
    BY <2>4, <2>5
<1>10. CASE e.op = "EnsureBlock"
  <2> DEFINE t == FreshTree(d.next, DefaultText)
             put == InsertBlocksStep(Root, 0, t)
  <2>1. Resolve(d, e) = IF d.root = <<>> THEN <<put>> ELSE <<>>
    BY <1>10 DEF Resolve
  <2>2. IsTyped(put)
    <3>1. DefaultText \in Kinds /\ ContentOf[DefaultText] = "inline"
      BY SchemaAssumption
    <3>2. d.next # Root /\ d.next \in Int
      BY <1>0 DEF Root
    <3>3. IsContent(<<>>)
      BY EmptySeq DEF ToSet, IsContent
    <3>4. t = TextTree(d.next, DefaultText, 0, <<>>)
      BY DEF FreshTree
    <3>5. IsForest(t) /\ DOMAIN t.nodes = {d.next}
      <4> DEFINE id == d.next
                 none == <<>>
      <4>1. id # Root /\ IsContent(none) /\ t = TextTree(id, DefaultText, 0, none)
        BY <3>2, <3>3, <3>4
      <4>2. DOMAIN t.nodes = {id}
        BY <4>1 DEF TextTree, Trees
      <4> HIDE DEF id, none, t
      <4> DEFINE u == TextTree(id, DefaultText, 0, none)
      <4>3. IsForest(u)
        BY <3>1, <4>1, TextTreeView
      <4> QED
        BY <4>1, <4>2, <4>3 DEF id
    <3> HIDE DEF t
    <3> QED
      BY <3>2, <3>5 DEF InsertBlocksStep, IsTyped, IsStep
  <2> HIDE DEF put
  <2> QED
    BY <2>1, <2>2, WorkOf, WorkView
<1> QED
  BY <1>5, <1>6, <1>7, <1>8, <1>9, <1>10 DEF Edits

Moving(at, to) == Mapped(to.point, at.deleted \/ to.deleted)
ThroughNext(maps, p, bias, at, n) == Moving(at, MapPoint(maps[n], at.point, bias))
ThroughBody(maps, p, bias, f) ==
    [n \in 0 .. Len(maps) |-> IF n = 0 THEN Mapped(p, FALSE) ELSE ThroughNext(maps, p, bias, f[n - 1], n)]
ThroughAt(maps, p, bias) == CHOOSE f : f = ThroughBody(maps, p, bias, f)

\* A point through one map after another.
LEMMA ThroughUnfolds ==
    ASSUME NEW maps, NEW p, NEW bias, Len(maps) \in Nat
    PROVE  /\ MapThrough(maps, p, bias) = ThroughAt(maps, p, bias)[Len(maps)]
           /\ ThroughAt(maps, p, bias)[0] = Mapped(p, FALSE)
           /\ \A n \in 0 .. Len(maps) - 1 :
                 ThroughAt(maps, p, bias)[n + 1] = ThroughNext(maps, p, bias, ThroughAt(maps, p, bias)[n], n + 1)
<1> DEFINE len == Len(maps)
           Upto(m, f) == [n \in 0 .. m |-> IF n = 0 THEN Mapped(p, FALSE) ELSE ThroughNext(maps, p, bias, f[n - 1], n)]
           Found == {m \in Nat : \E f : f = Upto(m, f)}
<1>1. 0 \in Found
  <2> DEFINE f == [n \in 0 .. 0 |-> Mapped(p, FALSE)]
  <2>1. f = Upto(0, f)
    OBVIOUS
  <2> HIDE DEF f, Upto
  <2> QED
    BY <2>1
<1>2. ASSUME NEW m \in Nat, m \in Found PROVE m + 1 \in Found
  <2>1. PICK f : f = Upto(m, f)
    BY <1>2
  <2> DEFINE g == [n \in 0 .. m + 1 |-> IF n = m + 1 THEN ThroughNext(maps, p, bias, f[m], n) ELSE f[n]]
  <2>2. ASSUME NEW n \in 0 .. m + 1
        PROVE  g[n] = IF n = 0 THEN Mapped(p, FALSE) ELSE ThroughNext(maps, p, bias, g[n - 1], n)
    <3>1. CASE n = m + 1
      <4>1. n # 0 /\ n - 1 = m /\ m \in 0 .. m + 1 /\ m # m + 1
        BY <3>1
      <4>2. g[m] = f[m]
        BY <4>1
      <4>3. g[n] = ThroughNext(maps, p, bias, f[m], n)
        BY <3>1
      <4> HIDE DEF g
      <4> QED
        BY <4>1, <4>2, <4>3
    <3>2. CASE n # m + 1
      <4>1. n \in 0 .. m
        BY <3>2
      <4>2. g[n] = f[n]
        BY <3>2
      <4>3. f[n] = IF n = 0 THEN Mapped(p, FALSE) ELSE ThroughNext(maps, p, bias, f[n - 1], n)
        <5>1. Upto(m, f)[n] = IF n = 0 THEN Mapped(p, FALSE) ELSE ThroughNext(maps, p, bias, f[n - 1], n)
          BY <4>1
        <5> HIDE DEF Upto
        <5> QED
          BY <2>1, <5>1, Zenon
      <4>4. n # 0 => g[n - 1] = f[n - 1]
        BY <4>1
      <4> HIDE DEF g
      <4> QED
        BY <4>2, <4>3, <4>4
    <3> QED
      BY <3>1, <3>2
  <2>3. g = Upto(m + 1, g)
    <3>1. g = [n \in 0 .. m + 1 |-> g[n]]
      OBVIOUS
    <3>2. Upto(m + 1, g) = [n \in 0 .. m + 1 |-> IF n = 0 THEN Mapped(p, FALSE) ELSE ThroughNext(maps, p, bias, g[n - 1], n)]
      OBVIOUS
    <3> HIDE DEF g, Upto
    <3> QED
      BY <2>2, <3>1, <3>2
  <2> HIDE DEF g, Upto
  <2> QED
    BY <2>3
<1>3. len \in Found
  <2> HIDE DEF Found
  <2> QED
    BY <1>1, <1>2, NaturalSet
<1>4. \E f : f = ThroughBody(maps, p, bias, f)
  <2>1. \E f : f = Upto(len, f)
    <3> HIDE DEF Upto
    <3> QED
      BY <1>3
  <2>2. \A f : Upto(len, f) = ThroughBody(maps, p, bias, f)
    BY DEF ThroughBody
  <2> HIDE DEF Upto
  <2> QED
    BY <2>1, <2>2
<1>5. ThroughAt(maps, p, bias) = ThroughBody(maps, p, bias, ThroughAt(maps, p, bias))
  BY <1>4 DEF ThroughAt
<1>6. \A n \in 0 .. len : ThroughAt(maps, p, bias)[n] =
         IF n = 0 THEN Mapped(p, FALSE) ELSE ThroughNext(maps, p, bias, ThroughAt(maps, p, bias)[n - 1], n)
  <2> DEFINE f == ThroughAt(maps, p, bias)
  <2> HIDE DEF f
  <2>1. f = ThroughBody(maps, p, bias, f)
    BY <1>5 DEF f
  <2>2. \A n \in 0 .. len : ThroughBody(maps, p, bias, f)[n] = IF n = 0 THEN Mapped(p, FALSE) ELSE ThroughNext(maps, p, bias, f[n - 1], n)
    BY DEF ThroughBody
  <2> QED
    BY <2>1, <2>2, Zenon DEF f
<1>7. MapThrough(maps, p, bias) = ThroughAt(maps, p, bias)[Len(maps)]
  BY DEF MapThrough, ThroughAt, ThroughBody, ThroughNext, Moving
<1>8. ThroughAt(maps, p, bias)[0] = Mapped(p, FALSE)
  <2>1. 0 \in 0 .. len
    OBVIOUS
  <2> QED
    BY <1>6, <2>1, Zenon
<1> HIDE DEF Upto, Found
<1>9. ASSUME NEW n \in 0 .. len - 1
      PROVE  ThroughAt(maps, p, bias)[n + 1] = ThroughNext(maps, p, bias, ThroughAt(maps, p, bias)[n], n + 1)
  <2>1. n + 1 \in 0 .. len /\ n + 1 # 0 /\ (n + 1) - 1 = n
    OBVIOUS
  <2>2. ThroughAt(maps, p, bias)[n + 1] = IF n + 1 = 0 THEN Mapped(p, FALSE) ELSE ThroughNext(maps, p, bias, ThroughAt(maps, p, bias)[(n + 1) - 1], n + 1)
    BY <1>6, <2>1, Zenon
  <2> QED
    BY <2>1, <2>2, Zenon
<1> QED
  BY <1>7, <1>8, <1>9

\* A map as a step makes one, and a place whose offset is a number.
PointOk(p) == p = Point(p.block, p.offset) /\ p.offset \in Nat
IsMap(m) ==
    CASE m.map = "inline"  -> m.offset \in Nat /\ m.removed \in Nat /\ m.inserted \in Nat
      [] m.map \in {"split", "join"} -> m.offset \in Nat
      [] m.map = "removed" -> PointOk(m.fallback)
      [] OTHER             -> m.map = "identity"
AreMaps(maps) == maps \in Seq(ToSet(maps)) /\ \A m \in ToSet(maps) : IsMap(m)

\* No map, and one more.
LEMMA ThroughParts ==
    /\ \A p, bias : MapThrough(<<>>, p, bias) = Mapped(p, FALSE)
    /\ \A S : \A maps \in Seq(S) : \A m, p, bias :
          LET at == MapThrough(maps, p, bias)
          IN  MapThrough(Append(maps, m), p, bias) = Moving(at, MapPoint(m, at.point, bias))
<1>1. ASSUME NEW p, NEW bias PROVE MapThrough(<<>>, p, bias) = Mapped(p, FALSE)
  <2> DEFINE none == <<>>
  <2>1. Len(none) = 0
    OBVIOUS
  <2> HIDE DEF none
  <2>3. Len(none) \in Nat
    BY <2>1
  <2>4. MapThrough(none, p, bias) = ThroughAt(none, p, bias)[Len(none)] /\ ThroughAt(none, p, bias)[0] = Mapped(p, FALSE)
    BY <2>3, ThroughUnfolds, Zenon
  <2>2. MapThrough(none, p, bias) = ThroughAt(none, p, bias)[0] /\ ThroughAt(none, p, bias)[0] = Mapped(p, FALSE)
    BY <2>1, <2>4
  <2> QED
    BY <2>2 DEF none
<1>2. ASSUME NEW S, NEW maps \in Seq(S), NEW m, NEW p, NEW bias
      PROVE  MapThrough(Append(maps, m), p, bias)
               = Moving(MapThrough(maps, p, bias), MapPoint(m, MapThrough(maps, p, bias).point, bias))
  <2> DEFINE more == Append(maps, m)
             n == Len(maps)
             F == {k \in Nat : k <= n => ThroughAt(more, p, bias)[k] = ThroughAt(maps, p, bias)[k]}
  <2>1. /\ n \in Nat /\ Len(more) = n + 1 /\ more[n + 1] = m
        /\ \A k \in 1 .. n : more[k] = maps[k]
    OBVIOUS
  <2> HIDE DEF more, n
  <2>2. /\ MapThrough(maps, p, bias) = ThroughAt(maps, p, bias)[n]
        /\ ThroughAt(maps, p, bias)[0] = Mapped(p, FALSE)
        /\ \A k \in 0 .. n - 1 : ThroughAt(maps, p, bias)[k + 1] = ThroughNext(maps, p, bias, ThroughAt(maps, p, bias)[k], k + 1)
    BY <2>1, ThroughUnfolds DEF n
  <2>3. /\ MapThrough(more, p, bias) = ThroughAt(more, p, bias)[n + 1]
        /\ ThroughAt(more, p, bias)[0] = Mapped(p, FALSE)
        /\ \A k \in 0 .. n : ThroughAt(more, p, bias)[k + 1] = ThroughNext(more, p, bias, ThroughAt(more, p, bias)[k], k + 1)
    <3>1. Len(more) \in Nat /\ Len(more) - 1 = n
      BY <2>1
    <3> QED
      BY <2>1, <3>1, ThroughUnfolds
  <2>4. 0 \in F
    BY <2>2, <2>3
  <2>5. ASSUME NEW k \in Nat, k \in F PROVE k + 1 \in F
    BY <2>1, <2>5, <2>2, <2>3 DEF ThroughNext
  <2>6. Nat \subseteq F
    <3> HIDE DEF F
    <3> QED
      BY <2>4, <2>5, NaturalSet
  <2>7. ThroughAt(more, p, bias)[n] = ThroughAt(maps, p, bias)[n] /\ n \in 0 .. n
    BY <2>1, <2>6
  <2> QED
    BY <2>1, <2>2, <2>3, <2>7 DEF ThroughNext, more
<1> QED
  BY <1>1, <1>2

\* Where a map takes a place.
LEMMA MapPointView ==
    ASSUME NEW m, IsMap(m), NEW p, PointOk(p), NEW bias
    PROVE  PointOk(MapPoint(m, p, bias).point)
<1>1. p.offset \in Nat
  BY DEF PointOk
<1>2. PointOk(p) /\ \A b : \A o \in Nat : PointOk(Point(b, o))
  BY DEF PointOk, Point
<1>3. CASE ~Affects(m, p.block)
  BY <1>2, <1>3 DEF MapPoint, Mapped
<1>4. CASE Affects(m, p.block) /\ m.map = "inline"
  <2>1. m.offset \in Nat /\ m.removed \in Nat /\ m.inserted \in Nat
    BY <1>4 DEF IsMap
  <2>2. MapPoint(m, p, bias) = MapInline(m, p, bias)
    BY <1>4 DEF MapPoint
  <2>3. p.offset >= m.offset + m.removed => p.offset - m.removed + m.inserted \in Nat
    BY <1>1, <2>1
  <2>4. MapInline(m, p, bias).point \in {p, Point(p.block, m.offset), Point(p.block, p.offset - m.removed + m.inserted)}
        /\ (MapInline(m, p, bias).point = Point(p.block, p.offset - m.removed + m.inserted)
             \/ MapInline(m, p, bias).point \in {p, Point(p.block, m.offset)})
    BY DEF MapInline, Mapped
  <2>5. CASE p.offset >= m.offset + m.removed
    BY <1>2, <2>1, <2>2, <2>3, <2>4, <2>5
  <2>6. CASE ~(p.offset >= m.offset + m.removed)
    BY <1>1, <2>1, <2>6, <1>2, <2>2 DEF MapInline, Mapped
  <2> QED
    BY <2>5, <2>6
<1>5. CASE Affects(m, p.block) /\ m.map = "split"
  BY <1>5, <1>1, <1>2 DEF IsMap, MapPoint, Mapped, MapSplit
<1>6. CASE Affects(m, p.block) /\ m.map = "join"
  BY <1>6, <1>1, <1>2 DEF IsMap, MapPoint, Mapped
<1>7. CASE Affects(m, p.block) /\ m.map = "removed"
  BY <1>7, <1>2 DEF IsMap, MapPoint, Mapped
<1>8. m.map \in {"inline", "split", "join", "removed", "identity"}
  BY DEF IsMap
<1>9. m.map = "identity" => ~Affects(m, p.block)
  BY DEF Affects
<1> QED
  BY <1>3, <1>4, <1>5, <1>6, <1>7, <1>8, <1>9

\* The text closest to removed blocks.
LEMMA FallbackView ==
    ASSUME NEW d, WellFormed(d), NEW ids
    PROVE  PointOk(RemovalFallback(d, ids))
<1> DEFINE order == DocOrder(d)
           texts == {b \in Blocks(d) : IsText(d, b)}
           others == {b \in Blocks(d) : IsText(d, b) /\ ~IsAncestor(d, Last(ids), b)}
           i == PlaceIn(order, Head(ids))
           j == PlaceIn(order, Last(ids))
           before == Among(SubSeq(order, 1, i - 1), texts)
           after == Among(SubSeq(order, j + 1, Len(order)), others)
<1>1. order \in Seq(Blocks(d)) /\ Len(order) \in Nat
  BY ReadingOrderIsComplete, LenProperties
<1>2. /\ PointOk(NoPoint)
      /\ \A b \in texts : PointOk(Point(b, Len(Text(d, b))))
      /\ \A b : PointOk(Point(b, 0))
  BY LengthOfText DEF PointOk, Point, NoPoint
<1>3. \A x : PlaceIn(order, x) \in 0 .. Len(order)
  <2> SUFFICES ASSUME NEW x PROVE PlaceIn(order, x) \in 0 .. Len(order)
    OBVIOUS
  <2>1. CASE x \in ToSet(order)
    BY <1>1, <2>1, MemberOf, LenProperties DEF PlaceIn
  <2>2. CASE x \notin ToSet(order)
    BY <1>1, <2>2 DEF PlaceIn
  <2> QED
    BY <2>1, <2>2
<1> HIDE DEF order
<1>4. before \in Seq(texts)
  <2>1. i \in 0 .. Len(order)
    BY <1>3
  <2> HIDE DEF i
  <2>2. SubSeq(order, 1, i - 1) \in Seq(Blocks(d))
    BY <1>1, <2>1, SubSeqProperties
  <2> HIDE DEF texts
  <2> QED
    BY <2>2, AmongView
<1>5. after \in Seq(others)
  <2>1. j \in 0 .. Len(order)
    BY <1>3
  <2> HIDE DEF j
  <2>2. SubSeq(order, j + 1, Len(order)) \in Seq(Blocks(d))
    BY <1>1, <2>1, SubSeqProperties
  <2> HIDE DEF others
  <2> QED
    BY <2>2, AmongView
<1> DEFINE place == IF before # <<>> THEN Point(Last(before), Len(Text(d, Last(before))))
                    ELSE IF after # <<>> THEN Point(Head(after), 0) ELSE NoPoint
<1>6. RemovalFallback(d, ids) = IF ids = <<>> THEN NoPoint ELSE place
  BY DEF RemovalFallback, order
<1>7. before # <<>> => Last(before) \in texts
  <2> HIDE DEF before, texts
  <2>1. before # <<>> => Len(before) \in 1 .. Len(before)
    BY <1>4, EmptySeq, LenProperties
  <2> QED
    BY <1>4, <2>1, ElementOfSeq DEF Last
<1> HIDE DEF before, after, texts
<1>8. PointOk(place)
  BY <1>2, <1>7
<1> QED
  BY <1>2, <1>6, <1>8

\* The map of a step.
LEMMA MapOfStep ==
    ASSUME NEW d, WellFormed(d), NEW s, IsStep(s), Perform(d, s).ok
    PROVE  IsMap(Perform(d, s).map)
<1> DEFINE a == Perform(d, s)
<1>1. IsMap(Identity) /\ \A b, new : \A o \in Nat : IsMap(SplitMap(b, o, new)) /\ IsMap(JoinMap(b, new, o))
  BY DEF IsMap, Identity, SplitMap, JoinMap
<1>2. \A b : \A o, r, i \in Nat : IsMap(InlineMap(b, o, r, i))
  BY DEF IsMap, InlineMap
<1>3. \A ids, f : PointOk(f) => IsMap(RemovedMap(ids, f))
  BY DEF IsMap, RemovedMap
<1>4. CASE s.op = "InsertInline"
  BY <1>4, LenProperties, <1>2 DEF Perform, InsertInline, Applied, Failed, IsStep, IsContent
<1>5. CASE s.op = "RemoveInline"
  BY <1>5, <1>2 DEF Perform, RemoveInline, RangeOk, Applied, Failed, IsStep
<1>6. CASE s.op \in {"AddMark", "RemoveMark", "RestoreMarks"}
  BY <1>6, <1>1 DEF Perform, AddMark, RemoveMark, RestoreMarks, Format, Applied, Failed
<1>7. CASE s.op \in {"SetBlock", "InsertBlocks", "MoveBlocks"}
  BY <1>7, <1>1 DEF Perform, SetBlock, InsertBlocks, MoveBlocks, Applied, Failed
<1>8. CASE s.op = "Split"
  BY <1>8, <1>1 DEF Perform, Split, Applied, Failed, IsStep
<1>9. CASE s.op = "Join"
  BY <1>9, LengthOfText, <1>1 DEF Perform, Join, Applied, Failed
<1>10. CASE s.op = "RemoveBlocks"
  <2> DEFINE t == DetachTrees(d, s.parent, s.index, s.count).trees
             f == RemovalFallback(d, t.roots)
  <2>1. a.map = RemovedMap(DOMAIN t.nodes, f)
    BY <1>10 DEF Perform, RemoveBlocks, Applied, Failed
  <2>2. PointOk(f)
    BY FallbackView
  <2> HIDE DEF f
  <2> QED
    BY <1>3, <2>1, <2>2
<1> QED
  BY <1>4, <1>5, <1>6, <1>7, <1>8, <1>9, <1>10 DEF IsStep

\* The map of a step that applied leads the points of the text it keeps to
\* points of the text it made.
LEMMA MapOfApplied ==
    ASSUME NEW d, WellFormed(d), NEW s, IsStep(s), StepApply(d, s).ok
    PROVE  /\ IsMap(StepApply(d, s).map)
           /\ \A p : \A bias \in {"before", "after"} :
                 Inside(d, p) /\ ~MapPoint(StepApply(d, s).map, p, bias).deleted =>
                    Inside(StepApply(d, s).doc, MapPoint(StepApply(d, s).map, p, bias).point)
<1> DEFINE before == RecordBefore(d, s)
           a == StepApply(d, s)
<1>1. Twins(d, before) /\ Perform(before, s).ok /\ a.map = Perform(before, s).map
  BY StepApplyView
<1>2. WellFormed(before)
  BY <1>1 DEF Twins
<1> HIDE DEF before
<1>3. IsMap(Perform(before, s).map)
  BY <1>1, <1>2, MapOfStep
<1>4. IsMap(a.map)
  BY <1>1, <1>3
<1>5. ASSUME NEW p, NEW bias \in {"before", "after"}, Inside(d, p), ~MapPoint(a.map, p, bias).deleted
      PROVE  Inside(a.doc, MapPoint(a.map, p, bias).point)
  BY <1>5, PointsFollowTheText DEF TakesPoint, KeepsPlace
<1> QED
  BY <1>4, <1>5

-----------------------------------------------------------------------------
(***************************************************************************)
(* What is known of a transaction at any time of its run, and of what is   *)
(* left when it is rolled back.                                            *)
(***************************************************************************)

\* A script as commands build it: edits, steps and orders to give up.
IsInstruction(s) == s.op \in Edits \/ IsTyped(s) \/ s = GiveUp
IsScript(q) == q \in Seq(ToSet(q)) /\ \A s \in ToSet(q) : IsInstruction(s)

\* A transaction begun on d: it can take back what it did, its maps say where
\* the places of d went, and the savepoints open on d know of it.
Carries(d, maps, e) ==
    \A p : \A bias \in {"before", "after"} :
       Inside(d, p) /\ ~MapThrough(maps, p, bias).deleted => Inside(e, MapThrough(maps, p, bias).point)
Traced(d, t) == AreMaps(t.maps) /\ Len(t.maps) = Len(t.inverses) /\ Carries(d, t.maps, t.doc)
Ran(d, t) ==
    /\ IsTx(t) /\ IsDocument(d) /\ IsDocument(t.doc)
    /\ IsSteps(t.inverses) /\ Undoes(UndoSteps(t), t.doc, d)
    /\ Follows(d, t.doc) /\ t.doc.next >= d.next
    /\ Traced(d, t)

\* No step has moved a place yet, or one step more has.
LEMMA CarriesView ==
    /\ AreMaps(<<>>)
    /\ \A maps, m : AreMaps(maps) /\ IsMap(m) =>
          /\ AreMaps(<<m>>) /\ AreMaps(Append(maps, m)) /\ Len(Append(maps, m)) = Len(maps) + 1 /\ Len(maps) \in Nat
    /\ \A d, e : Twins(d, e) => Carries(d, <<>>, e)
    /\ \A d, e, f, maps : Carries(d, maps, e) /\ Twins(e, f) => Carries(d, maps, f)
    /\ \A d, maps, e, s : Carries(d, maps, e) /\ AreMaps(maps) /\ WellFormed(e) /\ IsStep(s) /\ StepApply(e, s).ok =>
          Carries(d, Append(maps, StepApply(e, s).map), StepApply(e, s).doc)
<1>0. AreMaps(<<>>)
  BY EmptySeq DEF AreMaps, ToSet
<1>1. ASSUME NEW maps, NEW m, AreMaps(maps), IsMap(m)
      PROVE  /\ AreMaps(<<m>>) /\ AreMaps(Append(maps, m)) /\ Len(Append(maps, m)) = Len(maps) + 1 /\ Len(maps) \in Nat
  <2> DEFINE S == ToSet(maps)
             more == Append(maps, m)
             one == <<m>>
  <2>1. maps \in Seq(S) /\ \A x \in S : IsMap(x)
    BY <1>1 DEF AreMaps
  <2> HIDE DEF S
  <2>2. one \in Seq({m}) /\ Len(maps) \in Nat
    BY <2>1, LenProperties
  <2>3. more \in Seq(S \cup {m}) /\ Len(more) = Len(maps) + 1
    BY <2>1, SeqMonotonic
  <2> HIDE DEF one, more
  <2>4. ToSet(one) \subseteq {m} /\ one \in Seq(ToSet(one)) /\ ToSet(more) \subseteq S \cup {m} /\ more \in Seq(ToSet(more))
    BY <2>2, <2>3, MemberOf
  <2> QED
    BY <1>1, <2>1, <2>2, <2>3, <2>4 DEF AreMaps, one, more
<1>2. ASSUME NEW d, NEW e, Twins(d, e) PROVE Carries(d, <<>>, e)
  BY ThroughParts, <1>2, PlacesInTwins DEF Mapped, Carries
<1>3. ASSUME NEW d, NEW e, NEW f, NEW maps, Carries(d, maps, e), Twins(e, f) PROVE Carries(d, maps, f)
  BY <1>3, PlacesInTwins DEF Carries
<1>4. ASSUME NEW d, NEW maps, NEW e, NEW s, Carries(d, maps, e), AreMaps(maps), WellFormed(e), IsStep(s), StepApply(e, s).ok
      PROVE  Carries(d, Append(maps, StepApply(e, s).map), StepApply(e, s).doc)
  <2> DEFINE m == StepApply(e, s).map
             f == StepApply(e, s).doc
  <2>1. \A p : \A bias \in {"before", "after"} :
           Inside(e, p) /\ ~MapPoint(m, p, bias).deleted => Inside(f, MapPoint(m, p, bias).point)
    BY <1>4, MapOfApplied
  <2> HIDE DEF m, f
  <2> SUFFICES ASSUME NEW p, NEW bias \in {"before", "after"}, Inside(d, p), ~MapThrough(Append(maps, m), p, bias).deleted
               PROVE  Inside(f, MapThrough(Append(maps, m), p, bias).point)
    BY DEF Carries, m, f
  <2> DEFINE at == MapThrough(maps, p, bias)
             to == MapPoint(m, at.point, bias)
  <2>2. maps \in Seq(ToSet(maps))
    BY <1>4 DEF AreMaps
  <2>3. MapThrough(Append(maps, m), p, bias) = Moving(at, to)
    BY <2>2, ThroughParts
  <2> HIDE DEF at, to
  <2>4. Moving(at, to).point = to.point /\ (Moving(at, to).deleted <=> at.deleted \/ to.deleted)
    BY DEF Moving, Mapped
  <2>5. ~at.deleted /\ ~to.deleted
    BY <2>3, <2>4
  <2>6. Inside(e, at.point)
    BY <1>4, <2>5 DEF Carries, at
  <2>7. Inside(f, to.point)
    BY <2>1, <2>5, <2>6 DEF to
  <2> QED
    BY <2>3, <2>4, <2>7
<1> QED
  BY <1>0, <1>1, <1>2, <1>3, <1>4

\* A transaction that has only begun has run.
LEMMA RanNothing ==
    ASSUME NEW d, IsDocument(d)
    PROVE  Ran(d, NoCommit(d)) /\ Twins(d, d)
<1> DEFINE t == NoCommit(d)
<1>1. IsTx(t) /\ t.doc = d /\ t.inverses = <<>> /\ t.maps = <<>>
  BY NoCommitView
<1>2. Twins(d, d)
  BY TwinsAreEqual DEF IsDocument
<1>3. UndoSteps(t) = <<>> /\ IsSteps(t.inverses)
  BY <1>1, StepsView DEF UndoSteps
<1>4. Undoes(<<>>, d, d) /\ Follows(d, d)
  BY <1>2, UndoesView, FollowsView
<1>5. d.next \in Int
  BY DEF IsDocument, Ids
<1> HIDE DEF t
<1>6. Traced(d, t)
  BY <1>1, <1>2, CarriesView DEF Traced
<1> QED
  BY <1>1, <1>2, <1>3, <1>4, <1>5, <1>6 DEF Ran, t

\* A step taken in a transaction keeps it one that has run from d.
LEMMA RanStep ==
    ASSUME NEW d, NEW t, Ran(d, t), NEW s, IsTyped(s) \/ s = GiveUp
    PROVE  Ran(d, StepIn(t, s))
<1> DEFINE a == Tried(t.doc, s)
           r == StepIn(t, s)
<1>1. IsTx(t) /\ IsDocument(d) /\ IsDocument(t.doc) /\ WellFormed(t.doc) /\ t.doc.next \in Int /\ d.next \in Int
  BY DEF Ran, IsDocument, Ids
<1>2. /\ IsTx(r) /\ a.ok \in BOOLEAN /\ t.ok \in BOOLEAN
      /\ ~t.ok => r = t
      /\ t.ok => r.ok = a.ok /\ r.doc = a.doc
      /\ t.ok /\ a.ok => r = TransactionStep(t, s, a)
      /\ t.ok /\ ~a.ok => r = [t EXCEPT !.ok = FALSE, !.doc = a.doc]
  BY <1>1, StepInTried
<1>3. /\ IsDocument(a.doc) /\ a.doc.next >= t.doc.next /\ a.doc.next \in Int
      /\ ~a.ok => Twins(t.doc, a.doc)
      /\ a.ok => IsTyped(s) /\ a = StepApply(t.doc, s)
  <2>1. CASE s = GiveUp
    <3>1. a.ok = FALSE /\ a.doc = t.doc
      BY <2>1 DEF Tried, Failed
    <3>2. Twins(t.doc, t.doc)
      BY <1>1, TwinsAreEqual
    <3> HIDE DEF a
    <3> QED
      BY <1>1, <3>1, <3>2
  <2>2. CASE s # GiveUp
    <3>1. IsTyped(s) /\ a = StepApply(t.doc, s)
      BY <2>2 DEF Tried
    <3> DEFINE b == StepApply(t.doc, s)
    <3>2. IsDocument(b.doc) /\ b.doc.next >= t.doc.next
      BY <1>1, <3>1, StepApplyIds
    <3>3. ~b.ok => Twins(t.doc, b.doc)
      BY <1>1, <3>1, StepApplyParts
    <3>4. b.doc.next \in Int
      BY <3>2 DEF IsDocument, Ids
    <3> HIDE DEF a, b
    <3> QED
      BY <3>1, <3>2, <3>3, <3>4 DEF b
  <2> QED
    BY <2>1, <2>2
<1>4. Follows(d, a.doc)
  BY <1>1, FollowsView DEF Ran
<1>5. t = [f \in TxFields |-> t[f]]
  BY <1>1 DEF IsTx, IsA
<1> DEFINE inv == a.inverse
           map == a.map
<1>10. ASSUME a.ok
       PROVE  AreMaps(Append(t.maps, map)) /\ Len(Append(t.maps, map)) = Len(t.maps) + 1
              /\ Len(t.maps) = Len(t.inverses) /\ Carries(d, Append(t.maps, map), a.doc)
  <2>1. IsTyped(s) /\ a = StepApply(t.doc, s) /\ IsStep(s)
    BY <1>3, <1>10 DEF IsTyped
  <2> HIDE DEF a
  <2>2. AreMaps(t.maps) /\ Len(t.maps) = Len(t.inverses) /\ Carries(d, t.maps, t.doc)
    BY DEF Ran, Traced
  <2>3. StepApply(t.doc, s).ok
    BY <1>10, <2>1
  <2>4. IsMap(StepApply(t.doc, s).map)
    BY <1>1, <2>1, <2>3, MapOfApplied
  <2>5. Carries(d, Append(t.maps, StepApply(t.doc, s).map), StepApply(t.doc, s).doc)
    BY <1>1, <2>1, <2>2, <2>3, CarriesView
  <2>6. IsMap(map) /\ Carries(d, Append(t.maps, map), a.doc)
    BY <2>1, <2>4, <2>5
  <2> HIDE DEF map
  <2> QED
    BY <2>2, <2>6, CarriesView
<1>6. ASSUME a.ok
      PROVE  /\ IsSteps(Append(t.inverses, inv))
             /\ Undoes(Reverse(Append(t.inverses, inv)), a.doc, d)
  <2>1. IsTyped(inv) /\ Undoes(<<inv>>, a.doc, t.doc)
    <3>1. IsTyped(s) /\ a = StepApply(t.doc, s)
      BY <1>3, <1>6
    <3>2. StepApply(t.doc, s).ok
      BY <1>6, <3>1
    <3>3. Undoes(<<StepApply(t.doc, s).inverse>>, StepApply(t.doc, s).doc, t.doc)
      BY <1>1, <3>1, <3>2, UndoesStep
    <3>4. IsTyped(StepApply(t.doc, s).inverse)
      BY <1>1, <3>1, <3>2, StepApplyIds
    <3> HIDE DEF a
    <3> QED
      BY <3>1, <3>3, <3>4
  <2> HIDE DEF inv
  <2>2. IsSteps(t.inverses) /\ Undoes(Reverse(t.inverses), t.doc, d)
    BY DEF Ran, UndoSteps
  <2>3. IsSteps(<<inv>>) /\ Reverse(<<inv>>) = <<inv>> /\ Append(t.inverses, inv) = t.inverses \o <<inv>>
    BY <2>1, <2>2, StepsView
  <2> DEFINE one == <<inv>>
  <2>4. IsSteps(one) /\ Reverse(one) = one /\ Append(t.inverses, inv) = t.inverses \o one /\ Undoes(one, a.doc, t.doc)
    BY <2>1, <2>3
  <2> HIDE DEF one, a
  <2>5. IsSteps(t.inverses \o one) /\ Reverse(t.inverses \o one) = Reverse(one) \o Reverse(t.inverses)
    BY <2>2, <2>4, StepsView
  <2>6. Undoes(one \o Reverse(t.inverses), a.doc, d)
    BY <2>2, <2>4, UndoesView
  <2> QED
    BY <2>4, <2>5, <2>6
<1> HIDE DEF a, inv, map
<1>7. CASE ~t.ok
  BY <1>2, <1>7
<1>8. CASE t.ok /\ a.ok
  <2>1. r = TransactionStep(t, s, a)
    BY <1>2, <1>8
  <2>2. r.doc = a.doc /\ r.inverses = Append(t.inverses, inv) /\ r.maps = Append(t.maps, map)
    BY <1>5, <2>1 DEF TransactionStep, TxFields, inv, map
  <2> HIDE DEF r
  <2>3. IsDocument(r.doc) /\ Follows(d, r.doc) /\ r.doc.next >= d.next
    BY <1>1, <1>3, <1>4, <2>2 DEF Ran
  <2>4. IsSteps(r.inverses) /\ Undoes(UndoSteps(r), r.doc, d)
    BY <1>6, <1>8, <2>2 DEF UndoSteps
  <2>6. Traced(d, r)
    BY <1>8, <1>10, <2>2 DEF Ran, IsSteps, Traced
  <2>5. Ran(d, r)
    BY <1>1, <1>2, <2>3, <2>4, <2>6 DEF Ran
  <2> QED
    BY <2>5 DEF r
<1>9. CASE t.ok /\ ~a.ok
  <2>1. r = [t EXCEPT !.ok = FALSE, !.doc = a.doc]
    BY <1>2, <1>9
  <2>2. r.doc = a.doc /\ r.inverses = t.inverses /\ r.maps = t.maps
    BY <1>5, <2>1 DEF TxFields
  <2> HIDE DEF r
  <2>3. IsDocument(r.doc) /\ Follows(d, r.doc) /\ r.doc.next >= d.next
    BY <1>1, <1>3, <1>4, <2>2 DEF Ran
  <2>4. IsSteps(r.inverses) /\ Undoes(UndoSteps(r), r.doc, d)
    BY <1>3, <1>9, <2>2, UndoesView DEF Ran, UndoSteps
  <2>6. Traced(d, r)
    BY <1>3, <1>9, CarriesView, <2>2 DEF Ran, Traced
  <2>5. Ran(d, r)
    BY <1>1, <1>2, <2>3, <2>4, <2>6 DEF Ran
  <2> QED
    BY <2>5 DEF r
<1> QED
  BY <1>2, <1>7, <1>8, <1>9

\* And so do the steps of a list, one after another.
LEMMA RanSteps ==
    ASSUME NEW d, NEW q, IsWork(q)
    PROVE  \A t : Ran(d, t) => Ran(d, RunSteps(t, q))
<1> DEFINE F == {n \in Nat : \A l : IsWork(l) /\ Len(l) = n => \A t : Ran(d, t) => Ran(d, RunSteps(t, l))}
<1>1. 0 \in F
  BY EmptySeq, RunStepsParts DEF IsWork
<1>2. ASSUME NEW n \in Nat, n \in F PROVE n + 1 \in F
  <2> SUFFICES ASSUME NEW l, IsWork(l), Len(l) = n + 1, NEW t, Ran(d, t) PROVE Ran(d, RunSteps(t, l))
    OBVIOUS
  <2>1. PICK p, s : IsWork(p) /\ Len(p) = n /\ (IsTyped(s) \/ s = GiveUp) /\ l = p \o <<s>>
    <3>1. \E p, s : IsWork(p) /\ (IsTyped(s) \/ s = GiveUp) /\ Longer(l, n, p, s)
      BY WorkView
    <3> QED
      BY <3>1 DEF Longer
  <2>2. Ran(d, RunSteps(t, p))
    BY <1>2, <2>1
  <2>3. RunSteps(t, l) = StepIn(RunSteps(t, p), s)
    BY <2>1, RunLast
  <2> QED
    BY <2>1, <2>2, <2>3, RanStep
<1>3. Nat \subseteq F
  <2> HIDE DEF F
  <2> QED
    BY <1>1, <1>2, NaturalSet
<1> QED
  BY <1>3, WorkView

\* An instruction, and the rollback that follows one that was refused.
LEMMA RanInstruct ==
    ASSUME NEW d, NEW t, Ran(d, t)
    PROVE  /\ \A e : IsInstruction(e) => Ran(d, Instruct(t, e))
           /\ LET r == RolledBack(t)
              IN  Ran(d, r) /\ ~r.ok /\ Twins(d, r.doc) /\ r.maps = <<>> /\ r.inverses = <<>>
<1>0. IsTx(t) /\ IsDocument(d) /\ IsDocument(t.doc)
  BY DEF Ran
<1>1. ASSUME NEW e, IsInstruction(e) PROVE Ran(d, Instruct(t, e))
  <2>1. CASE t.ok /\ e.op \in Edits
    BY <2>1, <1>0, ResolveIsWork, RanSteps DEF Instruct
  <2>2. CASE ~(t.ok /\ e.op \in Edits)
    <3>1. Instruct(t, e) = RunSteps(t, <<e>>)
      BY <2>2 DEF Instruct
    <3>4. RunSteps(t, <<e>>) = StepIn(t, e)
      BY RunStepsParts
    <3>2. CASE ~t.ok
      BY <3>2, <3>1, <3>4 DEF StepIn
    <3>3. CASE t.ok
      BY <1>1, <2>2, <3>3, RanStep, <3>1, <3>4 DEF IsInstruction
    <3> QED
      BY <3>2, <3>3
  <2> QED
    BY <2>1, <2>2
<1> DEFINE u == UndoSteps(t)
           back == After(t.doc, u)
           b == NoCommit(back.doc)
           r == RolledBack(t)
<1>2. IsSteps(u) /\ IsWork(u) /\ Undoes(u, t.doc, d) /\ Twins(t.doc, t.doc)
  BY <1>0, StepsView, WorkView, TwinsAreEqual DEF Ran, UndoSteps, IsDocument
<1>3. Twins(d, back.doc)
  BY <1>2 DEF Undoes
<1>4. Ran(t.doc, NoCommit(t.doc))
  BY <1>0, RanNothing
<1>5. Ran(t.doc, back)
  BY <1>2, <1>4, RanSteps DEF After
<1> HIDE DEF back, u
<1>6. /\ IsDocument(back.doc) /\ Follows(d, back.doc) /\ back.doc.next >= d.next
  BY <1>5, <1>0, FollowsView DEF Ran, IsDocument, Ids
<1>7. IsTx(b) /\ b.doc = back.doc /\ b.inverses = <<>> /\ b.maps = <<>>
  BY NoCommitView
<1>8. r = [b EXCEPT !.ok = FALSE]
  BY DEF RolledBack, back, After, u
<1> HIDE DEF b
<1>9. IsTx(r) /\ r.ok = FALSE /\ r.doc = back.doc /\ r.inverses = <<>> /\ r.maps = <<>>
  BY <1>7, <1>8 DEF IsTx, IsA, TxFields
<1> HIDE DEF r
<1>10. Undoes(UndoSteps(r), r.doc, d) /\ IsSteps(r.inverses)
  BY <1>9, StepsView, <1>3, UndoesView DEF UndoSteps
<1>13. Traced(d, r)
  BY <1>3, <1>9, CarriesView DEF Traced
<1>11. Ran(d, r)
  BY <1>0, <1>6, <1>9, <1>10, <1>13 DEF Ran
<1>12. Ran(d, r) /\ ~r.ok /\ Twins(d, r.doc) /\ r.maps = <<>> /\ r.inverses = <<>>
  BY <1>3, <1>9, <1>11
<1> QED
  BY <1>1, <1>12 DEF r

\* A script, from its first instruction to its last.
LEMMA RanScript ==
    ASSUME NEW d, NEW script, IsScript(script), NEW t, Ran(d, t)
    PROVE  LET r == RunScript(t, script)
           IN  Ran(d, r) /\ r.ok \in BOOLEAN /\ (~r.ok => Twins(d, r.doc) /\ r.maps = <<>> /\ r.inverses = <<>>)
<1> DEFINE S == ToSet(script)
           At(n) == ScriptingAt(t, script)[n]
           F == {n \in Nat : n <= Len(script) => Ran(d, At(n))}
           r == RunScript(t, script)
<1>1. script \in Seq(S) /\ \A s \in S : IsInstruction(s)
  BY DEF IsScript
<1>2. Len(script) \in Nat /\ \A n \in 1 .. Len(script) : IsInstruction(script[n])
  BY <1>1, LenProperties, ElementOfSeq
<1>3. /\ r = IF At(Len(script)).ok THEN At(Len(script)) ELSE RolledBack(At(Len(script)))
      /\ At(0) = t
      /\ \A n \in 0 .. Len(script) - 1 : At(n + 1) = ScriptingNext(t, script, At(n), n + 1)
  BY <1>2, ScriptingUnfolds
<1> HIDE DEF At, r, S
<1>4. 0 \in F
  BY <1>3
<1>5. ASSUME NEW n \in Nat, n \in F PROVE n + 1 \in F
  <2> SUFFICES ASSUME n + 1 <= Len(script) PROVE Ran(d, At(n + 1))
    OBVIOUS
  <2>1. n \in 0 .. Len(script) - 1 /\ n + 1 \in 1 .. Len(script) /\ n <= Len(script)
    BY <1>2
  <2>2. At(n + 1) = Instruct(At(n), script[n + 1])
    BY <1>3, <2>1 DEF ScriptingNext
  <2>3. Ran(d, At(n)) /\ IsInstruction(script[n + 1])
    BY <1>2, <1>5, <2>1
  <2>4. Ran(d, Instruct(At(n), script[n + 1]))
    BY <2>3, RanInstruct
  <2> QED
    BY <2>2, <2>4
<1>6. Nat \subseteq F
  <2> HIDE DEF F
  <2> QED
    BY <1>4, <1>5, NaturalSet
<1> DEFINE end == At(Len(script))
<1>7. Ran(d, end)
  BY <1>2, <1>6
<1> HIDE DEF end
<1>8. end.ok \in BOOLEAN
  BY <1>7 DEF Ran, IsTx
<1>9. CASE end.ok
  BY <1>3, <1>9, <1>7, <1>8 DEF end, r
<1>10. CASE ~end.ok
  <2> DEFINE back == RolledBack(end)
  <2>1. r = back
    BY <1>3, <1>10 DEF end
  <2>2. Ran(d, back) /\ ~back.ok /\ Twins(d, back.doc) /\ back.maps = <<>> /\ back.inverses = <<>>
    BY <1>7, RanInstruct
  <2> HIDE DEF back
  <2>3. back.ok \in BOOLEAN
    BY <2>2 DEF Ran, IsTx
  <2> QED
    BY <2>1, <2>2, <2>3 DEF r
<1> QED
  BY <1>9, <1>10

\* A script runs as a whole or not at all: whatever its instructions, the
\* document stays well formed and its ids new; when one of them is refused a
\* reader sees what was there before, and otherwise the inverses kept, in turn
\* from the last, apply and bring it back (transaction.rs, rollback and undo).
THEOREM ScriptIsAllOrNothing ==
    ASSUME NEW d, IsDocument(d), NEW script, IsScript(script)
    PROVE  LET r == RunScript(NoCommit(d), script)
               back == RunSteps(NoCommit(r.doc), UndoSteps(r))
           IN  /\ IsDocument(r.doc) /\ r.ok \in BOOLEAN
               /\ ~r.ok => Content(r.doc) = Content(d)
               /\ r.ok => back.ok /\ Content(back.doc) = Content(d)
<1> DEFINE r == RunScript(NoCommit(d), script)
           back == RunSteps(NoCommit(r.doc), UndoSteps(r))
<1>1. Ran(d, NoCommit(d))
  BY RanNothing
<1>2. Ran(d, r) /\ r.ok \in BOOLEAN /\ (~r.ok => Twins(d, r.doc))
  BY <1>1, RanScript
<1> HIDE DEF r
<1>3. \A e : Twins(d, e) => Content(e) = Content(d)
  BY SameContent DEF Twins, WellFormed
<1>4. IsDocument(r.doc) /\ Undoes(UndoSteps(r), r.doc, d) /\ Twins(r.doc, r.doc)
  BY <1>2, TwinsAreEqual DEF Ran, IsDocument
<1>5. back.ok /\ Twins(d, back.doc)
  BY <1>4 DEF Undoes, After
<1> HIDE DEF back
<1>6. /\ IsDocument(r.doc) /\ r.ok \in BOOLEAN
      /\ ~r.ok => Content(r.doc) = Content(d)
      /\ r.ok => back.ok /\ Content(back.doc) = Content(d)
  BY <1>2, <1>3, <1>4, <1>5
<1> QED
  BY <1>6 DEF r, back

\* A savepoint reverts exactly: whatever runs inside it, whether it applies or
\* is rolled back half way, reverting to the savepoint leaves the document it
\* was opened on, with its revisions, its version, the ids it has given out and
\* the savepoints around it (savepoint.rs, rollback_to and restore_revisions):
\* a dry run of a command changes nothing at all.
THEOREM SavepointsRevertExactly ==
    ASSUME NEW d, IsDocument(d), d.saves \in Seq(ToSet(d.saves)), NEW script, IsScript(script)
    PROVE  RollbackTo(RunScript(NoCommit(Savepoint(d)), script).doc, Len(d.saves) + 1) = d
<1> DEFINE e == Savepoint(d)
           r == RunScript(NoCommit(e), script)
<1>1. IsDocument(e) /\ Logged(d, e)
  BY SavepointOpened
<1>2. Ran(e, NoCommit(e))
  BY <1>1, RanNothing
<1>3. Ran(e, r)
  BY <1>2, RanScript
<1> HIDE DEF e, r
<1>4. Logged(d, r.doc)
  BY <1>1, <1>3 DEF Ran, Follows
<1>5. RollbackTo(r.doc, Len(d.saves) + 1) = d
  BY <1>4, RollbackIsExact
<1> QED
  BY <1>5 DEF e, r

-----------------------------------------------------------------------------
(***************************************************************************)
(* Editor states: the selection and the composition lie in the document.   *)
(***************************************************************************)

\* A selection as the code can hold one, and one that lies in the document.
IsSelection(s) ==
    \/ s = TextSelection(s.anchor, s.head) /\ PointOk(s.anchor) /\ PointOk(s.head)
    \/ s = BlockSelection(s.first, s.last)
Fits(d, s) == IsSelection(s) /\ ValidSelection(d, s) = s

\* A composition, if there is one, is a part of a text.
IsPart(d, c) ==
    /\ c = Composition(c.block, c.start, c.end) /\ c.start \in Nat /\ c.end \in Nat
    /\ IsText(d, c.block) /\ c.start <= c.end /\ c.end <= Len(Text(d, c.block))
Composes(d, opt) == opt = None \/ (opt = Some(opt[1]) /\ IsPart(d, opt[1]))

StateFields == {"doc", "selection", "stored", "composition"}
IsState(st) ==
    /\ IsA(st, StateFields) /\ IsDocument(st.doc) /\ st.doc.root # <<>>
    /\ Fits(st.doc, st.selection) /\ Composes(st.doc, st.composition)

\* The two kinds of selections.
LEMMA SelectionView ==
    ASSUME NEW s, IsSelection(s)
    PROVE  \/ s.sel = "text" /\ s = TextSelection(s.anchor, s.head) /\ PointOk(s.anchor) /\ PointOk(s.head)
           \/ s.sel = "blocks" /\ s = BlockSelection(s.first, s.last)
<1>1. CASE s = TextSelection(s.anchor, s.head) /\ PointOk(s.anchor) /\ PointOk(s.head)
  BY <1>1 DEF TextSelection
<1>2. CASE s = BlockSelection(s.first, s.last)
  BY <1>2 DEF BlockSelection
<1> QED
  BY <1>1, <1>2 DEF IsSelection

\* What the constructors of selections and points make.
LEMMA SelectionFields ==
    /\ \A p, q : PointOk(p) /\ PointOk(q) =>
          /\ IsSelection(TextSelection(p, q)) /\ TextSelection(p, q).sel = "text"
          /\ TextSelection(p, q).anchor = p /\ TextSelection(p, q).head = q
    /\ \A p : PointOk(p) => IsSelection(Caret(p)) /\ Caret(p) = TextSelection(p, p)
    /\ \A a, b : /\ IsSelection(BlockSelection(a, b)) /\ BlockSelection(a, b).sel = "blocks"
                 /\ BlockSelection(a, b).first = a /\ BlockSelection(a, b).last = b
    /\ \A b : \A o \in Nat : PointOk(Point(b, o)) /\ Point(b, o).block = b /\ Point(b, o).offset = o
    /\ PointOk(NoPoint)
<1>1. \A p, q : /\ TextSelection(p, q).sel = "text" /\ TextSelection(p, q).anchor = p /\ TextSelection(p, q).head = q
  BY DEF TextSelection
<1>2. \A a, b : /\ BlockSelection(a, b).sel = "blocks"
                /\ BlockSelection(a, b).first = a /\ BlockSelection(a, b).last = b
  BY DEF BlockSelection
<1>3. \A b : \A o \in Nat : PointOk(Point(b, o)) /\ Point(b, o).block = b /\ Point(b, o).offset = o
  BY DEF PointOk, Point
<1>4. ASSUME NEW p, NEW q, PointOk(p), PointOk(q) PROVE IsSelection(TextSelection(p, q))
  BY <1>1, <1>4 DEF IsSelection
<1>5. ASSUME NEW a, NEW b PROVE IsSelection(BlockSelection(a, b))
  BY <1>2 DEF IsSelection
<1>6. ASSUME NEW p, PointOk(p) PROVE IsSelection(Caret(p)) /\ Caret(p) = TextSelection(p, p)
  BY <1>4, <1>6 DEF Caret
<1>7. PointOk(NoPoint)
  BY <1>3 DEF NoPoint
<1> QED
  BY <1>1, <1>2, <1>3, <1>4, <1>5, <1>6, <1>7

\* Clamped offsets stay as they are.
LEMMA ClampView ==
    ASSUME NEW d, WellFormed(d), NEW p, PointOk(p)
    PROVE  /\ PointOk(Clamp(d, p)) /\ Clamp(d, p).block = p.block
           /\ Clamp(d, p).offset <= TextLen(d, p.block) /\ TextLen(d, p.block) \in Nat
           /\ Clamp(d, Clamp(d, p)) = Clamp(d, p)
           /\ p.offset <= TextLen(d, p.block) => Clamp(d, p) = p
<1> DEFINE n == TextLen(d, p.block)
           o == IF p.offset <= n THEN p.offset ELSE n
<1>1. n \in Nat
  BY IndexView
<1>2. p = Point(p.block, p.offset) /\ p.offset \in Nat
  BY DEF PointOk
<1>3. o \in Nat /\ o <= n /\ (p.offset <= n => o = p.offset)
  BY <1>1, <1>2
<1>4. Clamp(d, p) = Point(p.block, o)
  BY DEF Clamp
<1>5. PointOk(Point(p.block, o)) /\ Point(p.block, o).block = p.block /\ Point(p.block, o).offset = o
  BY <1>3, SelectionFields
<1> HIDE DEF o
<1>6. Clamp(d, Point(p.block, o)) = Point(p.block, o)
  BY <1>3, <1>5 DEF Clamp
<1> QED
  BY <1>1, <1>2, <1>3, <1>4, <1>5, <1>6

\* A selection is repaired once and for all.
LEMMA ValidFits ==
    ASSUME NEW d, WellFormed(d), d.root # <<>>, NEW s, IsSelection(s)
    PROVE  Fits(d, ValidSelection(d, s))
<1>1. ASSUME NEW p, NEW q, PointOk(p), PointOk(q), IsText(d, p.block), IsText(d, q.block)
      PROVE  Fits(d, TextSelection(Clamp(d, p), Clamp(d, q)))
  <2> DEFINE a == Clamp(d, p)
             h == Clamp(d, q)
             t == TextSelection(a, h)
  <2>1. PointOk(a) /\ PointOk(h) /\ a.block = p.block /\ h.block = q.block /\ Clamp(d, a) = a /\ Clamp(d, h) = h
    BY <1>1, ClampView
  <2> HIDE DEF a, h
  <2>2. IsSelection(t) /\ t.sel = "text" /\ t.anchor = a /\ t.head = h
    BY <2>1, SelectionFields
  <2>3. t = TextSelection(a, h)
    OBVIOUS
  <2> HIDE DEF t
  <2>4. ValidSelection(d, t) = TextSelection(Clamp(d, a), Clamp(d, h))
    BY <1>1, <2>1, <2>2 DEF ValidSelection
  <2> QED
    BY <2>1, <2>2, <2>3, <2>4 DEF Fits, t, a, h
<1>2. ASSUME NEW p, PointOk(p), IsText(d, p.block) PROVE Fits(d, Caret(Clamp(d, p)))
  BY <1>1, <1>2 DEF Caret
<1>3. Fits(d, StartSelection(d))
  <2>1. CASE TextBlocks(d) # <<>>
    <3> DEFINE b == TextBlocks(d)[1]
    <3>1. IsText(d, b)
      <4> DEFINE texts == {c \in Blocks(d) : IsText(d, c)}
      <4>1. DocOrder(d) \in Seq(Blocks(d))
        BY ReadingOrderIsComplete
      <4>2. TextBlocks(d) = Among(DocOrder(d), texts)
        BY DEF TextBlocks
      <4> HIDE DEF texts
      <4>3. TextBlocks(d) \in Seq(texts)
        BY <4>1, <4>2, AmongView
      <4>4. Len(TextBlocks(d)) \in Nat /\ Len(TextBlocks(d)) # 0
        BY <2>1, <4>3, LenProperties, EmptySeq
      <4>5. b \in texts
        BY <4>3, <4>4, ElementOfSeq
      <4> QED
        BY <4>5 DEF texts
    <3> HIDE DEF b
    <3>2. PointOk(Point(b, 0)) /\ Point(b, 0).block = b /\ Point(b, 0).offset = 0
      BY SelectionFields
    <3> DEFINE p == Point(b, 0)
    <3>3. PointOk(p) /\ p.block = b /\ p.offset = 0
      BY <3>2
    <3> HIDE DEF p
    <3>4. Clamp(d, p) = p
      BY <3>3, ClampView
    <3>5. Fits(d, Caret(p))
      BY <1>2, <3>1, <3>3, <3>4
    <3>6. StartSelection(d) = Caret(p)
      BY <2>1 DEF StartSelection, b, p
    <3> QED
      BY <3>5, <3>6
  <2>2. CASE TextBlocks(d) = <<>>
    <3> DEFINE b == d.root[1]
               t == BlockSelection(b, b)
    <3>1. b \in Blocks(d)
      BY LenProperties, EmptySeq, ElementOfSeq DEF WellFormed, Linked, Kids, Root
    <3>2. StartSelection(d) = t
      BY <2>2 DEF StartSelection
    <3>3. IsSelection(t) /\ t.sel = "blocks" /\ t.first = b /\ t.last = b
      BY SelectionFields
    <3> HIDE DEF t, b
    <3>4. ValidSelection(d, t) = t
      BY <3>1, <3>3 DEF ValidSelection
    <3> QED
      BY <3>2, <3>3, <3>4 DEF Fits
  <2> QED
    BY <2>1, <2>2
<1>4. CASE s.sel = "text" /\ s = TextSelection(s.anchor, s.head) /\ PointOk(s.anchor) /\ PointOk(s.head)
  <2>1. CASE IsText(d, s.anchor.block) /\ IsText(d, s.head.block)
    BY <1>4, <2>1, <1>1 DEF ValidSelection
  <2>2. CASE IsText(d, s.anchor.block) /\ ~IsText(d, s.head.block)
    BY <1>4, <2>2, <1>2 DEF ValidSelection
  <2>3. CASE ~IsText(d, s.anchor.block) /\ IsText(d, s.head.block)
    BY <1>4, <2>3, <1>2 DEF ValidSelection
  <2>4. CASE ~IsText(d, s.anchor.block) /\ ~IsText(d, s.head.block)
    BY <1>4, <2>4, <1>3 DEF ValidSelection
  <2> QED
    BY <2>1, <2>2, <2>3, <2>4
<1>5. CASE s.sel = "blocks" /\ s = BlockSelection(s.first, s.last)
  BY <1>5, <1>3 DEF ValidSelection, Fits
<1> QED
  BY <1>4, <1>5, SelectionView

\* Documents that read the same repair a selection the same way.
LEMMA FitsTwins ==
    ASSUME NEW d, NEW e, Twins(d, e)
    PROVE  /\ \A s : ValidSelection(e, s) = ValidSelection(d, s)
           /\ \A s : Fits(d, s) => Fits(e, s)
           /\ \A opt : Composes(d, opt) => Composes(e, opt)
           /\ e.root = d.root
<1>1. /\ Blocks(e) = Blocks(d)
      /\ \A b \in Blocks(d) : Parent(e, b) = Parent(d, b) /\ Text(e, b) = Text(d, b)
      /\ \A b : IsText(e, b) = IsText(d, b)
  BY TwinsReadTheSame
<1>2. e.root = d.root /\ DocOrder(e) = DocOrder(d)
  BY TwinsInOrder
<1>3. \A b : TextLen(e, b) = TextLen(d, b)
  BY <1>1 DEF TextLen, IsText
<1>4. \A p : Clamp(e, p) = Clamp(d, p)
  BY <1>3 DEF Clamp
<1>5. TextBlocks(e) = TextBlocks(d)
  BY <1>1, <1>2 DEF TextBlocks
<1>6. StartSelection(e) = StartSelection(d)
  BY <1>2, <1>5 DEF StartSelection
<1>7. ASSUME NEW s PROVE ValidSelection(e, s) = ValidSelection(d, s)
  BY <1>1, <1>4, <1>6 DEF ValidSelection
<1>8. \A s : Fits(d, s) => Fits(e, s)
  BY <1>7 DEF Fits
<1>9. \A opt : Composes(d, opt) => Composes(e, opt)
  BY <1>1 DEF Composes, IsPart, IsText
<1> QED
  BY <1>2, <1>7, <1>8, <1>9

\* A place through maps.
LEMMA ThroughView ==
    ASSUME NEW maps, AreMaps(maps), NEW p, PointOk(p), NEW bias
    PROVE  PointOk(MapThrough(maps, p, bias).point)
<1> DEFINE F == {n \in Nat : \A q : AreMaps(q) /\ Len(q) = n => PointOk(MapThrough(q, p, bias).point)}
<1>1. 0 \in F
  BY EmptySeq, ThroughParts DEF AreMaps, Mapped
<1>2. ASSUME NEW n \in Nat, n \in F PROVE n + 1 \in F
  <2> SUFFICES ASSUME NEW q, AreMaps(q), Len(q) = n + 1 PROVE PointOk(MapThrough(q, p, bias).point)
    OBVIOUS
  <2> DEFINE S == ToSet(q)
  <2>1. q \in Seq(S) /\ \A m \in S : IsMap(m)
    BY DEF AreMaps
  <2> HIDE DEF S
  <2>2. PICK r \in Seq(S), m \in S : q = r \o <<m>> /\ Len(r) = n
    <3>1. Len(q) = n + 1
      OBVIOUS
    <3>2. \E p1 \in Seq(S), m1 \in S : q = p1 \o <<m1>> /\ Len(p1) = n /\ m1 \in ToSet(q) /\ ToSet(p1) \subseteq ToSet(q)
      <4> HIDE DEF F
      <4> QED
        BY <2>1, <3>1, LastOf, Zenon
    <3> QED
      BY <3>2, Zenon
  <2>3. q = Append(r, m)
    BY <2>2
  <2>4. AreMaps(r)
    BY <2>2, MemberOf, <2>1 DEF AreMaps
  <2> DEFINE at == MapThrough(r, p, bias)
             to == MapPoint(m, at.point, bias)
  <2>5. PointOk(at.point)
    BY <1>2, <2>2, <2>4
  <2>6. MapThrough(Append(r, m), p, bias) = Moving(at, to)
    BY <2>2, ThroughParts
  <2> HIDE DEF at
  <2>7. PointOk(to.point)
    BY <2>1, <2>2, <2>5, MapPointView
  <2> HIDE DEF to
  <2>8. Moving(at, to).point = to.point
    BY DEF Moving, Mapped
  <2> QED
    BY <2>3, <2>6, <2>7, <2>8
<1>3. Nat \subseteq F
  <2> HIDE DEF F
  <2> QED
    BY <1>1, <1>2, NaturalSet
<1>4. Len(maps) \in Nat
  BY LenProperties DEF AreMaps
<1> QED
  BY <1>3, <1>4

\* A selection mapped is a selection.
LEMMA MapSelectionView ==
    ASSUME NEW maps, AreMaps(maps), NEW s, IsSelection(s)
    PROVE  IsSelection(MapSelection(maps, s))
<1>1. CASE s.sel = "blocks"
  BY <1>1 DEF MapSelection
<1>2. CASE s.sel = "text" /\ PointOk(s.anchor) /\ PointOk(s.head)
  <2>1. \A bias : PointOk(MapThrough(maps, s.anchor, bias).point) /\ PointOk(MapThrough(maps, s.head, bias).point)
    BY <1>2, ThroughView
  <2>2. CASE IsCaret(s)
    BY <1>2, <2>2, <2>1, SelectionFields DEF MapSelection
  <2>3. CASE ~IsCaret(s)
    BY <1>2, <2>3, <2>1, SelectionFields DEF MapSelection
  <2> QED
    BY <2>2, <2>3
<1> QED
  BY <1>1, <1>2, SelectionView

\* A composition moved along still lies in one text.
LEMMA MapCompositionView ==
    ASSUME NEW d, NEW maps, NEW e, Carries(d, maps, e), WellFormed(d), WellFormed(e), NEW c, IsPart(d, c)
    PROVE  Composes(e, MapComposition(maps, c))
<1> DEFINE p == Point(c.block, c.start)
           q == Point(c.block, c.end)
           start == MapThrough(maps, p, "after")
           over == MapThrough(maps, q, "before")
           last == IF c.start = c.end THEN Mapped(start.point, over.deleted) ELSE over
           gone == \/ start.deleted \/ last.deleted
                   \/ start.point.block # last.point.block \/ last.point.offset < start.point.offset
<1>1. MapComposition(maps, c) = IF gone THEN None
                                ELSE Some(Composition(start.point.block, start.point.offset, last.point.offset))
  BY DEF MapComposition
<1>2. Inside(d, p) /\ Inside(d, q)
  BY LengthOfText DEF IsPart, Inside, Point
<1> HIDE DEF p, q
<1>3. CASE gone
  <2> HIDE DEF gone
  <2> QED
    BY <1>1, <1>3 DEF Composes
<1>4. CASE ~gone
  <2>1. ~start.deleted => Inside(e, start.point)
    BY <1>2 DEF Carries
  <2>2. ~over.deleted => Inside(e, over.point)
    BY <1>2 DEF Carries
  <2> HIDE DEF start, over
  <2>3. Mapped(start.point, over.deleted).point = start.point /\ Mapped(start.point, over.deleted).deleted = over.deleted
    BY DEF Mapped
  <2>4. ~start.deleted /\ ~last.deleted
    BY <1>4
  <2>5. Inside(e, start.point) /\ Inside(e, last.point)
    <3>1. CASE c.start = c.end
      <4>1. last.point = start.point
        BY <2>3, <3>1
      <4> HIDE DEF last
      <4> QED
        BY <2>1, <2>4, <4>1
    <3>2. CASE c.start # c.end
      <4>1. last = over
        BY <3>2
      <4> HIDE DEF last
      <4> QED
        BY <2>1, <2>2, <2>4, <4>1
    <3> QED
      BY <3>1, <3>2
  <2>6. start.point.block = last.point.block /\ ~(last.point.offset < start.point.offset)
    BY <1>4
  <2> HIDE DEF last
  <2> DEFINE b == start.point.block
             i == start.point.offset
             j == last.point.offset
             made == Composition(b, i, j)
  <2>7. MapComposition(maps, c) = Some(made)
    <3> HIDE DEF gone
    <3> QED
      BY <1>1, <1>4
  <2>8. IsText(e, b) /\ i \in 0 .. Len(Text(e, b)) /\ j \in 0 .. Len(Text(e, b))
    BY <2>5, <2>6 DEF Inside
  <2>9. ~(j < i) /\ Len(Text(e, b)) \in Nat
    BY <2>6, <2>8, LengthOfText
  <2> HIDE DEF b, i, j
  <2>10. made.block = b /\ made.start = i /\ made.end = j /\ made = Composition(b, i, j)
    BY DEF Composition
  <2>11. i \in Nat /\ j \in Nat /\ i <= j /\ j <= Len(Text(e, b))
    BY <2>8, <2>9
  <2> HIDE DEF made
  <2>12. IsPart(e, made)
    BY <2>8, <2>10, <2>11 DEF IsPart
  <2>13. Some(made)[1] = made
    BY DEF Some
  <2> QED
    BY <2>7, <2>12, <2>13 DEF Composes
<1> QED
  BY <1>3, <1>4

-----------------------------------------------------------------------------
(***************************************************************************)
(* Scripts and the block every document has.                               *)
(***************************************************************************)

\* Scripts are put together from instructions.
LEMMA ScriptOf ==
    /\ IsScript(<<>>)
    /\ \A s : IsInstruction(s) => IsScript(<<s>>)
    /\ \A p, q : IsScript(p) /\ IsScript(q) => IsScript(p \o q)
    /\ \A q, s : IsScript(q) /\ IsInstruction(s) => IsScript(Append(q, s))
    /\ \A n \in Nat : \A q : q = [i \in 1 .. n |-> q[i]] /\ (\A i \in 1 .. n : IsInstruction(q[i])) => IsScript(q)
    /\ \A q : IsSteps(q) => IsScript(q)
    /\ \A q : IsScript(q) => Len(q) \in Nat
<1>1. IsScript(<<>>)
  BY EmptySeq DEF IsScript, ToSet
<1>2. ASSUME NEW s, IsInstruction(s) PROVE IsScript(<<s>>)
  <2> DEFINE one == <<s>>
  <2>1. one \in Seq({s})
    OBVIOUS
  <2> HIDE DEF one
  <2>2. ToSet(one) \subseteq {s} /\ one \in Seq(ToSet(one))
    BY <2>1, MemberOf
  <2> QED
    BY <1>2, <2>2 DEF IsScript, one
<1>3. ASSUME NEW p, NEW q, IsScript(p), IsScript(q) PROVE IsScript(p \o q)
  <2> DEFINE S == ToSet(p) \cup ToSet(q)
             both == p \o q
  <2>1. p \in Seq(S) /\ q \in Seq(S) /\ \A s \in S : IsInstruction(s)
    BY <1>3, SeqMonotonic DEF IsScript
  <2> HIDE DEF S
  <2>2. both \in Seq(S)
    BY <2>1
  <2> HIDE DEF both
  <2>3. ToSet(both) \subseteq S /\ both \in Seq(ToSet(both))
    BY <2>2, MemberOf
  <2> QED
    BY <2>1, <2>3 DEF IsScript, both
<1>4. ASSUME NEW q, NEW s, IsScript(q), IsInstruction(s) PROVE IsScript(Append(q, s))
  <2>1. Append(q, s) = q \o <<s>>
    BY <1>4 DEF IsScript
  <2> QED
    BY <1>2, <1>3, <1>4, <2>1
<1>5. ASSUME NEW n \in Nat, NEW q, q = [i \in 1 .. n |-> q[i]], \A i \in 1 .. n : IsInstruction(q[i])
      PROVE  IsScript(q)
  <2> DEFINE S == {q[i] : i \in 1 .. n}
  <2>1. q \in Seq(S)
    BY <1>5, IsASeq
  <2>2. \A s \in S : IsInstruction(s)
    BY <1>5
  <2> HIDE DEF S
  <2>3. ToSet(q) \subseteq S /\ q \in Seq(ToSet(q))
    BY <2>1, MemberOf
  <2> QED
    BY <2>2, <2>3 DEF IsScript
<1>6. \A q : IsSteps(q) => IsScript(q)
  BY DEF IsSteps, IsScript, IsInstruction
<1>7. \A q : IsScript(q) => Len(q) \in Nat
  BY LenProperties DEF IsScript
<1> QED
  BY <1>1, <1>2, <1>3, <1>4, <1>5, <1>6, <1>7

\* One instruction more.
LEMMA ScriptLast ==
    ASSUME NEW d, NEW t, Ran(d, t), NEW script, IsScript(script), NEW e, IsInstruction(e)
    PROVE  \E u : /\ Ran(d, u) /\ RunScript(t, script) = OrRolledBack(u)
                  /\ RunScript(t, Append(script, e)) = OrRolledBack(Instruct(u, e))
<1> DEFINE S == ToSet(script)
           more == Append(script, e)
           k == Len(script)
           At(n) == ScriptingAt(t, script)[n]
           To(n) == ScriptingAt(t, more)[n]
           F == {n \in Nat : n <= k => Ran(d, At(n)) /\ To(n) = At(n)}
<1>1. script \in Seq(S) /\ \A s \in S : IsInstruction(s)
  BY DEF IsScript
<1>2. k \in Nat /\ \A n \in 1 .. k : IsInstruction(script[n])
  BY <1>1, LenProperties, ElementOfSeq
<1>3. Len(more) = k + 1 /\ more[k + 1] = e /\ \A n \in 1 .. k : more[n] = script[n]
  <2>1. script \in Seq(S \cup {e})
    BY <1>1, SeqMonotonic
  <2> HIDE DEF S
  <2> QED
    BY <2>1, AppendProperties
<1>4. /\ RunScript(t, script) = OrRolledBack(At(k))
      /\ At(0) = t
      /\ \A n \in 0 .. k - 1 : At(n + 1) = ScriptingNext(t, script, At(n), n + 1)
  BY <1>2, ScriptingUnfolds DEF OrRolledBack
<1>5. /\ RunScript(t, more) = OrRolledBack(To(k + 1))
      /\ To(0) = t
      /\ \A n \in 0 .. k : To(n + 1) = ScriptingNext(t, more, To(n), n + 1)
  <2>1. Len(more) \in Nat /\ Len(more) = k + 1
    BY <1>2, <1>3
  <2>2. 0 .. Len(more) - 1 = 0 .. k
    BY <1>2, <2>1
  <2> HIDE DEF more
  <2> QED
    BY <2>1, <2>2, ScriptingUnfolds DEF OrRolledBack
<1> HIDE DEF At, To, S, more, k
<1>6. 0 \in F
  BY <1>4, <1>5
<1>7. ASSUME NEW n \in Nat, n \in F PROVE n + 1 \in F
  <2> SUFFICES ASSUME n + 1 <= k PROVE Ran(d, At(n + 1)) /\ To(n + 1) = At(n + 1)
    OBVIOUS
  <2>1. n \in 0 .. k - 1 /\ n \in 0 .. k /\ n + 1 \in 1 .. k /\ n <= k
    BY <1>2
  <2>2. At(n + 1) = Instruct(At(n), script[n + 1]) /\ To(n + 1) = Instruct(To(n), more[n + 1])
    BY <1>4, <1>5, <2>1 DEF ScriptingNext
  <2>3. Ran(d, At(n)) /\ To(n) = At(n) /\ IsInstruction(script[n + 1]) /\ more[n + 1] = script[n + 1]
    BY <1>2, <1>3, <1>7, <2>1
  <2>4. Ran(d, Instruct(At(n), script[n + 1]))
    BY <2>3, RanInstruct
  <2> QED
    BY <2>2, <2>3, <2>4
<1>8. Nat \subseteq F
  <2> HIDE DEF F
  <2> QED
    BY <1>6, <1>7, NaturalSet
<1>9. Ran(d, At(k)) /\ To(k) = At(k)
  BY <1>2, <1>8
<1>10. To(k + 1) = Instruct(At(k), e)
  BY <1>2, <1>3, <1>5, <1>9 DEF ScriptingNext
<1> QED
  BY <1>4, <1>5, <1>9, <1>10 DEF more

\* A transaction rolled back has not succeeded.
LEMMA OrRolledBackView ==
    ASSUME NEW d, NEW t, Ran(d, t)
    PROVE  /\ OrRolledBack(t).ok => t.ok /\ OrRolledBack(t) = t
           /\ t.ok => OrRolledBack(t) = t
           /\ t.ok \in BOOLEAN
<1>1. t.ok \in BOOLEAN
  BY DEF Ran, IsTx
<1>2. CASE t.ok
  BY <1>1, <1>2 DEF OrRolledBack
<1>3. CASE ~t.ok
  BY <1>3, RanInstruct, <1>1 DEF OrRolledBack
<1> QED
  BY <1>1, <1>2, <1>3

\* The step that inserts one new block.
LEMMA FreshStep ==
    /\ \A p : \A index \in Nat : \A id \in Nat \ {0} : \A kind \in Kinds : \A attr, text :
          IsContent(text) /\ (text # <<>> => ContentOf[kind] = "inline") =>
             IsTyped(InsertBlocksStep(p, index, TextTree(id, kind, attr, text)))
    /\ \A p : \A index \in Nat : \A id \in Nat \ {0} : \A kind \in Kinds :
          IsTyped(InsertBlocksStep(p, index, FreshTree(id, kind)))
    /\ IsContent(<<>>)
<1>1. ASSUME NEW p, NEW index \in Nat, NEW id \in Nat \ {0}, NEW kind \in Kinds, NEW attr, NEW text,
             IsContent(text), text # <<>> => ContentOf[kind] = "inline"
      PROVE  IsTyped(InsertBlocksStep(p, index, TextTree(id, kind, attr, text)))
  <2> DEFINE t == TextTree(id, kind, attr, text)
             s == InsertBlocksStep(p, index, t)
  <2>1. id # Root /\ id \in Int
    BY DEF Root
  <2>2. IsForest(t) /\ DOMAIN t.nodes = {id}
    <3>1. id # Root /\ kind \in Kinds /\ IsContent(text) /\ (text # <<>> => ContentOf[kind] = "inline")
      BY <1>1, <2>1
    <3>2. IsForest(t)
      BY <3>1, TextTreeView, Zenon
    <3>3. DOMAIN t.nodes = {id}
      BY DEF TextTree, Trees
    <3> QED
      BY <3>2, <3>3
  <2> HIDE DEF t
  <2>3. s.op = "InsertBlocks" /\ s.index = index /\ s.blocks = t
    BY DEF InsertBlocksStep
  <2> HIDE DEF s
  <2>4. IsTyped(s)
    BY <2>1, <2>2, <2>3 DEF IsTyped, IsStep
  <2> QED
    BY <2>4 DEF s, t
<1>2. IsContent(<<>>)
  BY EmptySeq DEF IsContent, ToSet
<1>3. ASSUME NEW p, NEW index \in Nat, NEW id \in Nat \ {0}, NEW kind \in Kinds
      PROVE  IsTyped(InsertBlocksStep(p, index, FreshTree(id, kind)))
  <2> DEFINE none == <<>>
  <2>1. IsContent(none) /\ (none # <<>> => ContentOf[kind] = "inline") /\ FreshTree(id, kind) = TextTree(id, kind, 0, none)
    BY <1>2 DEF FreshTree
  <2> HIDE DEF none
  <2> QED
    BY <1>1, <2>1
<1> QED
  BY <1>1, <1>2, <1>3

\* ensure_block: it leaves a document with a block alone, and gives one to one without.
LEMMA EnsureView ==
    ASSUME NEW d, NEW t, Ran(d, t)
    PROVE  LET r == Instruct(t, EnsureBlock)
           IN  /\ Ran(d, r)
               /\ t.ok /\ t.doc.root # <<>> => r = t
               /\ r.ok => t.ok /\ r.doc.root # <<>>
<1> DEFINE r == Instruct(t, EnsureBlock)
           made == FreshTree(t.doc.next, DefaultText)
           s == InsertBlocksStep(Root, 0, made)
<1>1. IsInstruction(EnsureBlock) /\ EnsureBlock.op = "EnsureBlock" /\ EnsureBlock.op \in Edits
  BY DEF IsInstruction, EnsureBlock, Edits
<1>2. Ran(d, r)
  BY <1>1, RanInstruct
<1>3. IsTx(t) /\ t.ok \in BOOLEAN /\ IsDocument(t.doc)
  BY DEF Ran, IsTx
<1>4. CASE t.ok /\ t.doc.root # <<>>
  BY <1>1, <1>4, RunStepsParts, <1>2 DEF Resolve, Instruct
<1>5. CASE t.ok /\ t.doc.root = <<>>
  <2>1. Resolve(t.doc, EnsureBlock) = <<s>>
    BY <1>1, <1>5 DEF Resolve
  <2> HIDE DEF s
  <2>2. r = RunSteps(t, <<s>>)
    BY <1>1, <1>5, <2>1 DEF Instruct
  <2>3. r = StepIn(t, s)
    BY <2>2, RunStepsParts
  <2>4. IsTyped(s)
    BY <1>3, SchemaAssumption, FreshStep DEF IsDocument, Ids, s
  <2> HIDE DEF r
  <2>5. r.ok = StepApply(t.doc, s).ok /\ r.doc = StepApply(t.doc, s).doc
    <3> DEFINE a1 == StepApply(t.doc, s)
               r1 == StepIn(t, s)
    <3>1. /\ IsTx(r1)
          /\ ~t.ok => r1 = t
          /\ t.ok => r1.ok = a1.ok /\ r1.doc = a1.doc
          /\ t.ok /\ a1.ok => r1 = TransactionStep(t, s, a1)
          /\ t.ok /\ ~a1.ok => r1 = [t EXCEPT !.ok = FALSE, !.doc = a1.doc]
          /\ a1.ok \in BOOLEAN
      BY <1>3, <2>4, StepInView, Zenon
    <3>2. r1.ok = a1.ok /\ r1.doc = a1.doc
      BY <1>5, <3>1
    <3> HIDE DEF a1, r1
    <3> QED
      BY <2>3, <3>2 DEF a1, r1
  <2>6. ASSUME r.ok PROVE r.doc.root # <<>>
    <3> DEFINE e == RecordBefore(t.doc, s)
               x == Perform(e, s)
    <3>1. WellFormed(t.doc) /\ IsStep(s)
      BY <1>3, <2>4 DEF IsDocument, IsTyped
    <3>2. x.ok /\ Twins(x.doc, r.doc)
      BY <2>4, <2>5, <2>6, <3>1, StepApplyParts
    <3>3. e.root = <<>>
      BY <1>5, RecordsView
    <3> HIDE DEF e
    <3>4. s.op = "InsertBlocks" /\ s.index = 0 /\ s.parent = Root /\ s.blocks.roots = <<t.doc.next>>
      BY DEF s, InsertBlocksStep, FreshTree, TextTree, Trees
    <3>5. x.doc = AttachTrees(e, Root, 0, s.blocks)
      BY <3>2, <3>4 DEF Perform, InsertBlocks, Applied, Failed
    <3>6. WellFormed(e)
      BY <2>4, <3>1, StepApplyParts DEF e
    <3>7. x.doc.root = SpliceSeq(<<>>, 0, 0, <<t.doc.next>>)
      BY <3>6, <3>3, <3>4, <3>5 DEF WellFormed, Shaped, IsA, Kids, AttachTrees, SetKids
    <3>8. SpliceSeq(<<>>, 0, 0, <<t.doc.next>>) # <<>>
      <4> DEFINE one == <<t.doc.next>>
      <4>1. one \in Seq({t.doc.next}) /\ Len(one) = 1
        OBVIOUS
      <4>2. <<>> \in Seq({t.doc.next}) /\ Len(<<>>) = 0
        BY EmptySeq
      <4>3. SubSeq(<<>>, 1, 0) = <<>>
        BY <4>2, SubSeqProperties, EmptySeq
      <4> HIDE DEF one
      <4>4. SpliceSeq(<<>>, 0, 0, one) = <<>> \o one \o <<>>
        <5> DEFINE none == <<>>
        <5>1. Len(none) = 0 /\ SubSeq(none, 1, 0) = none
          BY <4>2, <4>3
        <5>2. SubSeq(none, 0 + 0 + 1, Len(none)) = none
          BY <5>1
        <5> HIDE DEF none
        <5>3. SpliceSeq(none, 0, 0, one) = none \o one \o none
          BY <5>1, <5>2 DEF SpliceSeq
        <5> QED
          BY <5>3 DEF none
      <4>5. <<>> \o one \o <<>> = one
        BY <4>1
      <4>6. one # <<>>
        BY <4>1, <4>2
      <4> QED
        BY <4>4, <4>5, <4>6 DEF one
    <3>9. r.doc.root = x.doc.root
      BY <3>2, TwinsInOrder
    <3> QED
      BY <3>7, <3>8, <3>9
  <2> QED
    BY <1>2, <1>5, <2>6 DEF r
<1>6. CASE ~t.ok
  <2> DEFINE one == <<EnsureBlock>>
  <2>1. r = RunSteps(t, one)
    BY <1>6 DEF Instruct
  <2>2. r = StepIn(t, EnsureBlock)
    BY <2>1, RunStepsParts
  <2>3. r = t
    BY <1>6, <2>2 DEF StepIn
  <2> QED
    BY <1>2, <1>6, <2>3
<1> QED
  BY <1>3, <1>4, <1>5, <1>6

-----------------------------------------------------------------------------
(***************************************************************************)
(* What a change of the editor state leaves, whatever the command.         *)
(***************************************************************************)

\* An update that leads from st to after, and what takes it back.
UpdateFields == {"steps", "inverses", "maps", "touched", "structural", "version",
                 "before", "after", "kind", "origin"}
IsUpdate(st, u, after) ==
    /\ IsA(u, UpdateFields)
    /\ IsSteps(u.inverses) /\ Undoes(Reverse(u.inverses), after.doc, st.doc)
    /\ AreMaps(u.maps) /\ Len(u.maps) = Len(u.inverses)
    /\ u.before = st.selection /\ u.after = after.selection

\* The outcome r of a command run on st: a state again, an update if it
\* applied, and st as it was if it neither applied nor failed.
IsOutcome(r) ==
    /\ r.applied \in BOOLEAN /\ r.error \in BOOLEAN /\ ~(r.applied /\ r.error)
    /\ IsA(r, IF r.applied THEN {"applied", "error", "update", "st"} ELSE {"applied", "error", "st"})
SameState(st, after) ==
    /\ Twins(st.doc, after.doc)
    /\ after.selection = st.selection /\ after.composition = st.composition
Carried(st, r) ==
    /\ IsOutcome(r) /\ IsState(r.st) /\ Follows(st.doc, r.st.doc)
    /\ ~r.applied /\ ~r.error => SameState(st, r.st)
    /\ r.applied => IsUpdate(st, r.update, r.st)

\* The effects a command may ask for, and its plan.
IsEffects(fx) == fx.selection = None \/ (fx.selection = Some(fx.selection[1]) /\ IsSelection(fx.selection[1]))
KeepsPart(d, fx) == fx.composition = None \/ Composes(d, fx.composition[1])
IsPlan(plan) ==
    plan = None \/ (plan = Some(plan[1]) /\ IsScript(plan[1].script) /\ IsEffects(plan[1].fx))

\* The fields of what apply makes of a commit.
IsApplied(st, commit, fx, r) ==
    LET s == OrElse(fx.selection, MapSelection(commit.maps, st.selection))
    IN  /\ IsOutcome(r) /\ r.applied = TRUE /\ r.error = FALSE
        /\ IsA(r.st, StateFields) /\ r.st.doc = commit.doc
        /\ r.st.selection = ValidSelection(commit.doc, s)
        /\ r.st.composition = OrElse(fx.composition, IF st.composition = None THEN None
                                                     ELSE MapComposition(commit.maps, st.composition[1]))
        /\ IsA(r.update, UpdateFields)
        /\ r.update.inverses = commit.inverses /\ r.update.maps = commit.maps
        /\ r.update.before = st.selection /\ r.update.after = r.st.selection
        /\ r.update.kind = fx.kind /\ r.update.origin = fx.origin

\* What applying a commit makes of the state, and the update it reports.
LEMMA ApplyCommitView == \A st, commit, fx : IsApplied(st, commit, fx, ApplyCommit(st, commit, fx))
<1> SUFFICES ASSUME NEW st, NEW commit, NEW fx PROVE IsApplied(st, commit, fx, ApplyCommit(st, commit, fx))
  OBVIOUS
<1> DEFINE s == OrElse(fx.selection, MapSelection(commit.maps, st.selection))
           sel == ValidSelection(commit.doc, s)
           comp == OrElse(fx.composition, IF st.composition = None THEN None
                                          ELSE MapComposition(commit.maps, st.composition[1]))
           stored == StoredMarks(st, commit, fx, sel)
           u == [steps |-> commit.steps, inverses |-> commit.inverses, maps |-> commit.maps,
                 touched |-> commit.touched, structural |-> commit.structural,
                 version |-> commit.version, before |-> st.selection,
                 after |-> sel, kind |-> fx.kind, origin |-> fx.origin]
           v == [doc |-> commit.doc, selection |-> sel, stored |-> stored, composition |-> comp]
           r == [applied |-> TRUE, error |-> FALSE, update |-> u, st |-> v]
<1>1. ApplyCommit(st, commit, fx) = r
  BY DEF ApplyCommit
<1> HIDE DEF s, sel, comp, stored
<1>2. /\ IsA(u, UpdateFields) /\ u.inverses = commit.inverses /\ u.maps = commit.maps
      /\ u.before = st.selection /\ u.after = sel /\ u.kind = fx.kind /\ u.origin = fx.origin
  <2>1. DOMAIN u = UpdateFields /\ u = [f \in DOMAIN u |-> u[f]]
    BY DEF UpdateFields
  <2>2. IsA(u, UpdateFields)
    <3> HIDE DEF u
    <3> QED
      BY <2>1 DEF IsA
  <2> QED
    BY <2>2
<1>3. IsA(v, StateFields) /\ v.doc = commit.doc /\ v.selection = sel /\ v.composition = comp
  <2>1. DOMAIN v = StateFields /\ v = [f \in DOMAIN v |-> v[f]]
    BY DEF StateFields
  <2>2. IsA(v, StateFields)
    <3> HIDE DEF v
    <3> QED
      BY <2>1 DEF IsA
  <2> QED
    BY <2>2
<1> HIDE DEF u, v
<1>4. r.applied = TRUE /\ r.error = FALSE /\ r.update = u /\ r.st = v /\ IsA(r, {"applied", "error", "update", "st"})
  <2>1. DOMAIN r = {"applied", "error", "update", "st"} /\ r = [f \in DOMAIN r |-> r[f]]
    OBVIOUS
  <2>2. IsA(r, {"applied", "error", "update", "st"})
    <3> HIDE DEF r
    <3> QED
      BY <2>1 DEF IsA
  <2> QED
    BY <2>2
<1> HIDE DEF r
<1>5. IsOutcome(r)
  BY <1>4 DEF IsOutcome
<1> DEFINE x == ApplyCommit(st, commit, fx)
<1>6. x = r
  BY <1>1
<1> HIDE DEF x
<1> QED
  BY <1>2, <1>3, <1>4, <1>5, <1>6 DEF x, s, sel, comp, IsApplied

\* NotApplied and Errored.
LEMMA NotAppliedView ==
    ASSUME NEW st
    PROVE  /\ IsOutcome(NotApplied(st)) /\ NotApplied(st).applied = FALSE /\ NotApplied(st).error = FALSE
           /\ NotApplied(st).st = st
           /\ IsOutcome(Errored(st)) /\ Errored(st).applied = FALSE /\ Errored(st).error = TRUE
           /\ Errored(st).st = st
<1> DEFINE r == NotApplied(st)
           e == Errored(st)
<1>1. /\ DOMAIN r = {"applied", "error", "st"} /\ r = [f \in DOMAIN r |-> r[f]]
      /\ r.applied = FALSE /\ r.error = FALSE /\ r.st = st
  BY DEF NotApplied
<1>2. /\ DOMAIN e = {"applied", "error", "st"} /\ e = [f \in DOMAIN e |-> e[f]]
      /\ e.applied = FALSE /\ e.error = TRUE /\ e.st = st
  BY DEF Errored
<1> HIDE DEF r, e
<1>3. IsOutcome(r) /\ IsOutcome(e)
  BY <1>1, <1>2 DEF IsOutcome, IsA
<1> QED
  BY <1>1, <1>2, <1>3 DEF r, e

\* The same state on a document that reads the same.
LEMMA StateOnTwin ==
    ASSUME NEW st, IsState(st), NEW d, Twins(st.doc, d), IsDocument(d)
    PROVE  LET r == [st EXCEPT !.doc = d]
           IN  IsState(r) /\ r.doc = d /\ SameState(st, r) /\ r.selection = st.selection /\ r.composition = st.composition
<1> DEFINE r == [st EXCEPT !.doc = d]
<1>1. st = [f \in StateFields |-> st[f]]
  BY DEF IsState, IsA
<1>2. /\ r = [f \in StateFields |-> r[f]] /\ r.doc = d
      /\ r.selection = st.selection /\ r.composition = st.composition
  BY <1>1 DEF StateFields
<1> HIDE DEF r
<1>3. Fits(d, st.selection) /\ Composes(d, st.composition) /\ d.root # <<>>
  BY FitsTwins DEF IsState
<1>4. IsState(r)
  BY <1>2, <1>3 DEF IsState, IsA
<1> QED
  BY <1>2, <1>4 DEF r, SameState

\* change: whatever plan is carried out, the outcome is a state again.
\* Where a plan that is carried out leads.
Lands(t, plan, r) ==
    LET made == RunScript(t, Append(plan[1].script, EnsureBlock))
    IN  made.ok => /\ r.applied /\ r.st.doc = made.doc
                   /\ plan[1].fx.selection # None =>
                         r.st.selection = ValidSelection(made.doc, plan[1].fx.selection[1])

\* A plan carried out leaves a state in order, and when it applies an update
\* that leads from the old state to the new one.
LEMMA ChangeCarries ==
    ASSUME NEW st, IsState(st), NEW t, Ran(st.doc, t), NEW plan, IsPlan(plan),
           plan # None => LET r == RunScript(t, Append(plan[1].script, EnsureBlock))
                          IN  r.ok => KeepsPart(r.doc, plan[1].fx)
    PROVE  LET r == Change(st, t, plan)
           IN  /\ Carried(st, r)
               /\ r.applied => r.update.kind = plan[1].fx.kind /\ r.update.origin = plan[1].fx.origin
               /\ r.error => SameState(st, r.st)
               /\ plan # None => Lands(t, plan, r)
<1> DEFINE r == Change(st, t, plan)
<1>1. CASE plan = None
  <2> DEFINE made == RunScript(t, <<GiveUp>>)
             same == [st EXCEPT !.doc = made.doc]
  <2>1. r = NotApplied(same)
    BY <1>1 DEF Change
  <2>2. Ran(st.doc, made) /\ made.ok \in BOOLEAN
    BY ScriptOf, RanScript DEF IsInstruction
  <2>3. ~made.ok
    <3> DEFINE none == <<>>
    <3>1. IsScript(none) /\ IsInstruction(GiveUp)
      BY ScriptOf DEF IsInstruction
    <3>2. Append(none, GiveUp) = <<GiveUp>>
      BY EmptySeq
    <3> HIDE DEF none
    <3>3. PICK u : /\ Ran(st.doc, u) /\ RunScript(t, none) = OrRolledBack(u)
                   /\ RunScript(t, Append(none, GiveUp)) = OrRolledBack(Instruct(u, GiveUp))
      BY <3>1, ScriptLast
    <3> DEFINE one == <<GiveUp>>
    <3>4. GiveUp.op \notin Edits
      BY DEF GiveUp, Edits
    <3>5. Instruct(u, GiveUp) = RunSteps(u, one)
      BY <3>4 DEF Instruct
    <3>6. Instruct(u, GiveUp) = StepIn(u, GiveUp)
      BY <3>5, RunStepsParts
    <3>7. IsTx(u) /\ Ran(st.doc, StepIn(u, GiveUp))
      BY <3>3, RanStep DEF Ran
    <3>8. ~StepIn(u, GiveUp).ok
      <4> DEFINE a1 == Tried(u.doc, GiveUp)
                 r1 == StepIn(u, GiveUp)
      <4>1. /\ IsTx(r1) /\ a1.ok \in BOOLEAN /\ u.ok \in BOOLEAN
            /\ ~u.ok => r1 = u
            /\ u.ok => r1.ok = a1.ok /\ r1.doc = a1.doc
            /\ u.ok /\ a1.ok => r1 = TransactionStep(u, GiveUp, a1)
            /\ u.ok /\ ~a1.ok => r1 = [u EXCEPT !.ok = FALSE, !.doc = a1.doc]
        BY <3>7, StepInTried, Zenon
      <4>2. ~a1.ok
        BY DEF Tried, Failed
      <4>3. (~u.ok => r1 = u) /\ (u.ok => r1.ok = a1.ok)
        BY <4>1
      <4> HIDE DEF r1, a1
      <4> QED
        BY <4>2, <4>3 DEF r1
    <3>9. made = OrRolledBack(StepIn(u, GiveUp))
      BY <3>2, <3>3, <3>6
    <3> HIDE DEF made
    <3> QED
      BY <3>7, <3>8, <3>9, OrRolledBackView
  <2>4. Twins(st.doc, made.doc) /\ IsDocument(made.doc) /\ Follows(st.doc, made.doc)
    <3>1. IsScript(<<GiveUp>>)
      BY ScriptOf DEF IsInstruction
    <3>2. ~made.ok => Twins(st.doc, made.doc)
      BY <3>1, RanScript
    <3> HIDE DEF made
    <3> QED
      BY <2>2, <2>3, <3>2 DEF Ran
  <2> HIDE DEF made
  <2>5. IsState(same) /\ SameState(st, same) /\ same.doc = made.doc
    BY <2>4, StateOnTwin
  <2> HIDE DEF same, r
  <2>6. IsOutcome(r) /\ r.applied = FALSE /\ r.error = FALSE /\ r.st = same
    BY <2>1, NotAppliedView
  <2>7. Carried(st, r)
    BY <2>4, <2>5, <2>6 DEF Carried
  <2> QED
    BY <1>1, <2>6, <2>7 DEF r
<1>2. CASE plan # None
  <2> DEFINE script == plan[1].script
             fx == plan[1].fx
             more == Append(script, EnsureBlock)
             made == RunScript(t, more)
             same == [st EXCEPT !.doc = made.doc]
             commit == Commit(made)
             won == ApplyCommit(st, commit, fx)
  <2>1. r = IF made.ok THEN won ELSE Errored(same)
    BY <1>2 DEF Change
  <2>2. IsScript(script) /\ IsEffects(fx) /\ IsInstruction(EnsureBlock)
    BY <1>2 DEF IsPlan, IsInstruction, EnsureBlock, Edits
  <2>3. made.ok => KeepsPart(made.doc, fx)
    BY <1>2
  <2>4. IsScript(more)
    BY <2>2, ScriptOf
  <2>5. Ran(st.doc, made) /\ made.ok \in BOOLEAN /\ (~made.ok => Twins(st.doc, made.doc))
    <3> HIDE DEF more
    <3> QED
      BY <2>4, RanScript
  <2>6. made.ok => made.doc.root # <<>>
    <3>1. PICK u : /\ Ran(st.doc, u) /\ RunScript(t, script) = OrRolledBack(u)
                   /\ RunScript(t, Append(script, EnsureBlock)) = OrRolledBack(Instruct(u, EnsureBlock))
      <4> HIDE DEF script
      <4> QED
        BY <2>2, ScriptLast
    <3> DEFINE v == Instruct(u, EnsureBlock)
    <3>2. Ran(st.doc, v) /\ (v.ok => v.doc.root # <<>>)
      BY <3>1, EnsureView
    <3>3. made = OrRolledBack(v)
      BY <3>1
    <3> HIDE DEF made, v
    <3>4. made.ok => v.ok /\ made = v
      BY <3>2, <3>3, OrRolledBackView
    <3> QED
      BY <3>2, <3>4
  <2>7. CASE ~made.ok
    <3>1. r = Errored(same)
      BY <2>1, <2>7
    <3>2. Twins(st.doc, made.doc) /\ IsDocument(made.doc) /\ Follows(st.doc, made.doc)
      BY <2>5, <2>7 DEF Ran
    <3> HIDE DEF made
    <3>3. IsState(same) /\ same.doc = made.doc /\ SameState(st, same)
      BY <3>2, StateOnTwin
    <3> HIDE DEF same, r
    <3>4. IsOutcome(r) /\ r.applied = FALSE /\ r.error = TRUE /\ r.st = same
      BY <3>1, NotAppliedView
    <3>5. Carried(st, r)
      BY <3>2, <3>3, <3>4 DEF Carried
    <3>6. Lands(t, plan, r)
      BY <2>7 DEF Lands, made
    <3> QED
      BY <3>3, <3>4, <3>5, <3>6 DEF r
  <2>8. CASE made.ok
    <3>1. r = won
      BY <2>1, <2>8
    <3> DEFINE e == made.doc
               maps == made.maps
               inverses == made.inverses
    <3>2. /\ IsDocument(e) /\ WellFormed(e) /\ e.root # <<>> /\ Follows(st.doc, e) /\ KeepsPart(e, fx)
          /\ IsSteps(inverses) /\ Undoes(Reverse(inverses), e, st.doc)
          /\ AreMaps(maps) /\ Len(maps) = Len(inverses) /\ Carries(st.doc, maps, e) /\ IsTx(made)
      BY <2>3, <2>5, <2>6, <2>8 DEF Ran, Traced, UndoSteps, IsDocument
    <3> HIDE DEF made
    <3>3. commit.doc = e /\ commit.maps = maps /\ commit.inverses = inverses
      BY <3>2 DEF Commit, IsTx, IsA, TxFields
    <3> DEFINE s == OrElse(fx.selection, MapSelection(maps, st.selection))
               comp == OrElse(fx.composition, IF st.composition = None THEN None
                                              ELSE MapComposition(maps, st.composition[1]))
    <3> HIDE DEF commit, e, maps, inverses, script, fx
    <3>4. /\ IsOutcome(won) /\ won.applied = TRUE /\ won.error = FALSE
          /\ IsA(won.st, StateFields) /\ won.st.doc = e
          /\ won.st.selection = ValidSelection(e, s)
          /\ won.st.composition = comp
          /\ IsA(won.update, UpdateFields)
          /\ won.update.inverses = inverses /\ won.update.maps = maps
          /\ won.update.before = st.selection /\ won.update.after = won.st.selection
          /\ won.update.kind = fx.kind /\ won.update.origin = fx.origin
      <4>1. IsApplied(st, commit, fx, won)
        BY ApplyCommitView
      <4> HIDE DEF won
      <4> QED
        BY <3>3, <4>1 DEF IsApplied
    <3>5. IsSelection(s)
      BY <3>2, MapSelectionView, <2>2 DEF IsState, Fits, IsEffects, OrElse
    <3>6. Composes(e, comp)
      <4>1. CASE fx.composition = None
        <5>1. CASE st.composition = None
          BY <4>1, <5>1 DEF OrElse, Composes
        <5>2. CASE st.composition # None
          BY <5>2, <3>2, MapCompositionView, <4>1 DEF IsState, Composes, IsDocument, OrElse
        <5> QED
          BY <5>1, <5>2
      <4>2. CASE fx.composition # None
        BY <4>2, <3>2 DEF OrElse, KeepsPart
      <4> QED
        BY <4>1, <4>2
    <3> HIDE DEF s, comp, won, r
    <3>7. Fits(e, won.st.selection)
      BY <3>2, <3>4, <3>5, ValidFits
    <3>8. IsState(won.st)
      BY <3>2, <3>4, <3>6, <3>7 DEF IsState
    <3>9. IsUpdate(st, won.update, won.st)
      BY <3>2, <3>4 DEF IsUpdate
    <3>10. Carried(st, won)
      BY <3>2, <3>4, <3>8, <3>9 DEF Carried
    <3>11. fx.selection # None => won.st.selection = ValidSelection(e, fx.selection[1])
      BY <3>4 DEF s, OrElse
    <3>12. Lands(t, plan, won)
      BY <3>4, <3>11 DEF Lands, made, e, fx, script
    <3> QED
      BY <3>1, <3>4, <3>10, <3>12 DEF r, fx
  <2> QED
    BY <2>5, <2>7, <2>8
<1> QED
  BY <1>1, <1>2

\* Two updates in a row are one.
LEMMA ThenView ==
    ASSUME NEW a, NEW b, IsA(a, UpdateFields)
    PROVE  LET u == Then(a, b)
           IN  /\ IsA(u, UpdateFields) /\ u.inverses = a.inverses \o b.inverses /\ u.maps = a.maps \o b.maps
               /\ u.before = a.before /\ u.after = b.after /\ u.kind = a.kind /\ u.origin = a.origin
<1> DEFINE u == Then(a, b)
<1>1. a = [f \in UpdateFields |-> a[f]]
  BY DEF IsA
<1>2. u = [f \in UpdateFields |-> u[f]]
  BY <1>1 DEF Then, UpdateFields
<1>3. u.inverses = a.inverses \o b.inverses /\ u.maps = a.maps \o b.maps
  BY <1>1 DEF Then, UpdateFields
<1>4. u.before = a.before /\ u.after = b.after /\ u.kind = a.kind /\ u.origin = a.origin
  BY <1>1 DEF Then, UpdateFields
<1> HIDE DEF u
<1> QED
  BY <1>2, <1>3, <1>4 DEF IsA, u

\* Lists of maps one after another.
LEMMA MapsJoined ==
    ASSUME NEW p, NEW q, AreMaps(p), AreMaps(q)
    PROVE  AreMaps(p \o q) /\ Len(p \o q) = Len(p) + Len(q) /\ Len(p) \in Nat /\ Len(q) \in Nat
<1> DEFINE S == ToSet(p) \cup ToSet(q)
           both == p \o q
<1>1. p \in Seq(S) /\ q \in Seq(S) /\ \A m \in S : IsMap(m)
  BY SeqMonotonic DEF AreMaps
<1> HIDE DEF S
<1>2. both \in Seq(S) /\ Len(both) = Len(p) + Len(q) /\ Len(p) \in Nat /\ Len(q) \in Nat
  BY <1>1, LenProperties
<1> HIDE DEF both
<1>3. ToSet(both) \subseteq S /\ both \in Seq(ToSet(both))
  BY <1>2, MemberOf
<1> QED
  BY <1>1, <1>2, <1>3 DEF AreMaps, both

\* What leads from one state to another, and on to a third.
LEMMA UpdatesCompose ==
    /\ \A st, u, mid, v, after : IsUpdate(st, u, mid) /\ IsUpdate(mid, v, after) => IsUpdate(st, Then(u, v), after)
    /\ \A st, mid, u, after : SameState(st, mid) /\ IsUpdate(mid, u, after) => IsUpdate(st, u, after)
    /\ \A st, u, mid, after : IsUpdate(st, u, mid) /\ SameState(mid, after) => IsUpdate(st, u, after)
    /\ \A st, mid, after : SameState(st, mid) /\ SameState(mid, after) => SameState(st, after)
<1>1. ASSUME NEW st, NEW u, NEW mid, NEW v, NEW after, IsUpdate(st, u, mid), IsUpdate(mid, v, after)
      PROVE  IsUpdate(st, Then(u, v), after)
  <2> DEFINE w == Then(u, v)
             p == u.inverses
             q == v.inverses
  <2>1. /\ IsA(w, UpdateFields) /\ w.inverses = p \o q /\ w.maps = u.maps \o v.maps
        /\ w.before = u.before /\ w.after = v.after
    BY <1>1, ThenView DEF IsUpdate
  <2>2. IsSteps(p) /\ IsSteps(q) /\ Undoes(Reverse(p), mid.doc, st.doc) /\ Undoes(Reverse(q), after.doc, mid.doc)
    BY <1>1 DEF IsUpdate
  <2>3. IsSteps(p \o q) /\ Len(p \o q) = Len(p) + Len(q) /\ Reverse(p \o q) = Reverse(q) \o Reverse(p)
    <3> DEFINE S == ToSet(p) \cup ToSet(q)
               both == p \o q
    <3>1. p \in Seq(S) /\ q \in Seq(S) /\ \A s \in S : IsTyped(s)
      BY <2>2, SeqMonotonic DEF IsSteps
    <3> HIDE DEF S, p, q
    <3>2. Reverse(both) = Reverse(q) \o Reverse(p)
      BY <3>1, ReverseConcat
    <3>3. both \in Seq(S) /\ Len(both) = Len(p) + Len(q)
      BY <3>1
    <3> HIDE DEF both
    <3>4. ToSet(both) \subseteq S /\ both \in Seq(ToSet(both))
      BY <3>3, MemberOf
    <3> QED
      BY <3>1, <3>2, <3>3, <3>4 DEF IsSteps, both
  <2> HIDE DEF p, q, w
  <2>4. Undoes(Reverse(w.inverses), after.doc, st.doc)
    BY <2>2, UndoesView, <2>1, <2>3
  <2>5. AreMaps(u.maps) /\ AreMaps(v.maps) /\ Len(u.maps) = Len(p) /\ Len(v.maps) = Len(q)
    BY <1>1 DEF IsUpdate, p, q
  <2>6. AreMaps(w.maps) /\ Len(w.maps) = Len(w.inverses)
    BY <2>5, MapsJoined, <2>1, <2>3
  <2>7. w.before = st.selection /\ w.after = after.selection
    BY <1>1, <2>1 DEF IsUpdate
  <2>8. IsSteps(w.inverses)
    BY <2>1, <2>3
  <2> QED
    BY <2>1, <2>4, <2>6, <2>7, <2>8 DEF IsUpdate, w
<1>2. ASSUME NEW st, NEW mid, NEW u, NEW after, SameState(st, mid), IsUpdate(mid, u, after) PROVE IsUpdate(st, u, after)
  BY <1>2, TwinsAreEqual, UndoesView DEF SameState, IsUpdate
<1>3. ASSUME NEW st, NEW u, NEW mid, NEW after, IsUpdate(st, u, mid), SameState(mid, after) PROVE IsUpdate(st, u, after)
  BY <1>3, UndoesView DEF IsUpdate, SameState
<1>4. ASSUME NEW st, NEW mid, NEW after, SameState(st, mid), SameState(mid, after) PROVE SameState(st, after)
  BY <1>4, TwinsAreEqual DEF SameState
<1> QED
  BY <1>1, <1>2, <1>3, <1>4

\* Two updates, one after the other, made one.
AreJoined(st, r, next) ==
    /\ Carried(st, [next EXCEPT !.update = Then(r.update, @)])
    /\ [next EXCEPT !.update = Then(r.update, @)].applied
    /\ [next EXCEPT !.update = Then(r.update, @)].update = Then(r.update, next.update)
    /\ Carried(st, [r EXCEPT !.st = next.st, !.update = Then(@, next.update)])
    /\ [r EXCEPT !.st = next.st, !.update = Then(@, next.update)].applied
    /\ [r EXCEPT !.st = next.st, !.update = Then(@, next.update)].update = Then(r.update, next.update)

\* A command run where another has left off.
LEMMA CarriedThen ==
    ASSUME NEW st, NEW r, Carried(st, r), NEW next, Carried(r.st, next)
    PROVE  /\ Follows(st.doc, next.st.doc)
           /\ ~r.applied /\ ~r.error => Carried(st, next)
           /\ r.applied /\ next.applied => AreJoined(st, r, next)
           /\ ~next.applied /\ ~next.error => Carried(st, [r EXCEPT !.st = next.st])
<1>1. IsOutcome(r) /\ IsOutcome(next) /\ IsState(r.st) /\ IsState(next.st)
  BY DEF Carried
<1>2. Follows(st.doc, next.st.doc)
  BY FollowsView DEF Carried
<1>3. ASSUME ~r.applied, ~r.error PROVE Carried(st, next)
  BY <1>3, UpdatesCompose, <1>1, <1>2 DEF Carried
<1>4. ASSUME r.applied, next.applied
      PROVE  AreJoined(st, r, next)
  <2> DEFINE u == Then(r.update, next.update)
             fields == {"applied", "error", "update", "st"}
             a == [next EXCEPT !.update = Then(r.update, @)]
             b == [r EXCEPT !.st = next.st, !.update = Then(@, next.update)]
  <2>1. r = [f \in fields |-> r[f]] /\ next = [f \in fields |-> next[f]]
    BY <1>1, <1>4 DEF IsOutcome, IsA
  <2>2. ~r.error /\ ~next.error /\ r.applied = TRUE /\ next.applied = TRUE /\ r.error = FALSE /\ next.error = FALSE
    BY <1>1, <1>4 DEF IsOutcome
  <2>3. IsUpdate(st, u, next.st)
    BY <1>4, UpdatesCompose DEF Carried
  <2>4. a = [f \in fields |-> a[f]] /\ a.applied = next.applied /\ a.error = next.error /\ a.update = u /\ a.st = next.st
    BY <2>1
  <2>5. b = [f \in fields |-> b[f]] /\ b.applied = r.applied /\ b.error = r.error /\ b.update = u /\ b.st = next.st
    BY <2>1
  <2> HIDE DEF a, b, u
  <2>6. IsOutcome(a) /\ IsOutcome(b)
    BY <2>2, <2>4, <2>5 DEF IsOutcome, IsA
  <2>7. Carried(st, a)
    BY <1>1, <1>2, <2>2, <2>3, <2>4, <2>6 DEF Carried
  <2>8. Carried(st, b)
    BY <1>1, <1>2, <2>2, <2>3, <2>5, <2>6 DEF Carried
  <2> QED
    BY <2>2, <2>4, <2>5, <2>7, <2>8 DEF a, b, u, AreJoined
<1>5. ASSUME ~next.applied, ~next.error PROVE Carried(st, [r EXCEPT !.st = next.st])
  <2> DEFINE a == [r EXCEPT !.st = next.st]
             fields == IF r.applied THEN {"applied", "error", "update", "st"} ELSE {"applied", "error", "st"}
  <2>1. SameState(r.st, next.st)
    BY <1>5 DEF Carried
  <2>2. r = [f \in fields |-> r[f]]
    BY <1>1 DEF IsOutcome, IsA
  <2>3. /\ a = [f \in fields |-> a[f]] /\ a.applied = r.applied /\ a.error = r.error /\ a.st = next.st
        /\ r.applied => a.update = r.update
    <3>1. CASE r.applied
      <4> DEFINE all == {"applied", "error", "update", "st"}
      <4>1. r = [f \in all |-> r[f]]
        BY <2>2, <3>1
      <4>2. a = [f \in all |-> a[f]] /\ a.applied = r.applied /\ a.error = r.error /\ a.st = next.st /\ a.update = r.update
        BY <4>1
      <4> HIDE DEF a
      <4> QED
        BY <3>1, <4>2
    <3>2. CASE ~r.applied
      <4> DEFINE all == {"applied", "error", "st"}
      <4>1. r = [f \in all |-> r[f]]
        BY <2>2, <3>2
      <4>2. a = [f \in all |-> a[f]] /\ a.applied = r.applied /\ a.error = r.error /\ a.st = next.st
        BY <4>1
      <4> HIDE DEF a
      <4> QED
        BY <3>2, <4>2
    <3> QED
      BY <3>1, <3>2
  <2> HIDE DEF a
  <2>4. IsOutcome(a)
    BY <1>1, <2>3 DEF IsOutcome, IsA
  <2>5. a.applied => IsUpdate(st, a.update, a.st)
    BY <2>1, UpdatesCompose, <2>3 DEF Carried
  <2>6. ~a.applied /\ ~a.error => SameState(st, a.st)
    BY <2>1, UpdatesCompose, <2>3 DEF Carried
  <2>7. IsState(a.st) /\ Follows(st.doc, a.st.doc)
    BY <1>1, <1>2, <2>3
  <2> QED
    BY <2>4, <2>5, <2>6, <2>7 DEF Carried, a
<1> QED
  BY <1>2, <1>3, <1>4, <1>5

-----------------------------------------------------------------------------
(***************************************************************************)
(* The plans of the commands, fix-ups, and steps from elsewhere.           *)
(***************************************************************************)

\* A plan of the user's that leaves the composition to the maps or ends it.
IsLocalPlan(plan) ==
    /\ IsPlan(plan)
    /\ plan # None => /\ plan[1].fx.composition = None \/ plan[1].fx.composition = Some(None)
                      /\ plan[1].fx.origin = "Local"

\* The effects commands ask for.
LEMMA EffectsOf ==
    /\ \A kind : /\ IsEffects(Local(kind)) /\ Local(kind).composition = None /\ Local(kind).origin = "Local"
                 /\ \A s : IsEffects([Local(kind) EXCEPT !.stored = s])
                           /\ [Local(kind) EXCEPT !.stored = s].composition = None
                           /\ [Local(kind) EXCEPT !.stored = s].origin = "Local"
    /\ \A kind, s : IsSelection(s) =>
          /\ IsEffects(With(kind, s)) /\ With(kind, s).composition = None /\ With(kind, s).origin = "Local"
          /\ \A x : LET fx == [With(kind, s) EXCEPT !.stored = x]
                    IN  IsEffects(fx) /\ fx.composition = None /\ fx.origin = "Local"
          /\ \A c : LET fx == [With(kind, s) EXCEPT !.composition = c]
                    IN  IsEffects(fx) /\ fx.composition = c /\ fx.origin = "Local"
          /\ \A c, x : LET fx == [With(kind, s) EXCEPT !.composition = c, !.stored = x]
                       IN  IsEffects(fx) /\ fx.composition = c /\ fx.origin = "Local"
<1>1. ASSUME NEW kind
      PROVE  /\ IsEffects(Local(kind)) /\ Local(kind).composition = None /\ Local(kind).origin = "Local"
             /\ \A s : IsEffects([Local(kind) EXCEPT !.stored = s])
                       /\ [Local(kind) EXCEPT !.stored = s].composition = None
                       /\ [Local(kind) EXCEPT !.stored = s].origin = "Local"
  BY DEF IsEffects, Local, Effects
<1>2. ASSUME NEW kind, NEW s, IsSelection(s)
      PROVE  /\ IsEffects(With(kind, s)) /\ With(kind, s).composition = None /\ With(kind, s).origin = "Local"
             /\ \A x : LET fx == [With(kind, s) EXCEPT !.stored = x]
                       IN  IsEffects(fx) /\ fx.composition = None /\ fx.origin = "Local"
             /\ \A c : LET fx == [With(kind, s) EXCEPT !.composition = c]
                       IN  IsEffects(fx) /\ fx.composition = c /\ fx.origin = "Local"
             /\ \A c, x : LET fx == [With(kind, s) EXCEPT !.composition = c, !.stored = x]
                          IN  IsEffects(fx) /\ fx.composition = c /\ fx.origin = "Local"
  <2>1. Some(s) = Some(Some(s)[1]) /\ Some(s)[1] = s
    BY DEF Some
  <2> DEFINE one == Some(s)
  <2>2. one = Some(one[1]) /\ IsSelection(one[1])
    BY <1>2, <2>1
  <2>3. With(kind, s) = [kind |-> kind, origin |-> "Local", selection |-> one, stored |-> None, composition |-> None]
    BY DEF With, Local, Effects
  <2> HIDE DEF one
  <2> QED
    BY <2>2, <2>3 DEF IsEffects
<1> QED
  BY <1>1, <1>2

\* A script with its effects.
LEMMA PlanMade ==
    ASSUME NEW script, IsScript(script), NEW fx, IsEffects(fx)
    PROVE  /\ IsPlan(Plan(script, fx)) /\ Plan(script, fx) # None
           /\ Plan(script, fx)[1].script = script /\ Plan(script, fx)[1].fx = fx
<1> DEFINE p == [script |-> script, fx |-> fx]
           plan == Some(p)
<1>1. p.script = script /\ p.fx = fx
  OBVIOUS
<1> HIDE DEF p
<1>2. plan[1] = p /\ plan # None /\ plan = Some(plan[1])
  BY DEF Some, None
<1> HIDE DEF plan
<1>3. IsPlan(plan)
  BY <1>1, <1>2 DEF IsPlan
<1>4. Plan(script, fx) = plan
  BY DEF Plan, plan, p
<1> QED
  BY <1>1, <1>2, <1>3, <1>4

\* The forms of plan that the code makes are local plans.
LEMMA LocalPlans ==
    /\ IsLocalPlan(None)
    /\ \A script, fx : IsScript(script) /\ IsEffects(fx) /\ fx.composition = None /\ fx.origin = "Local" =>
          IsLocalPlan(Plan(script, fx))
    /\ \A script, fx : IsScript(script) /\ IsEffects(fx) /\ fx.composition = Some(None) /\ fx.origin = "Local" =>
          IsLocalPlan(Plan(script, fx))
    /\ \A script, kind, s : IsScript(script) /\ IsSelection(s) => IsLocalPlan(Plan(script, With(kind, s)))
    /\ \A script, kind : IsScript(script) => IsLocalPlan(Plan(script, Local(kind)))
<1>1. IsLocalPlan(None)
  BY DEF IsLocalPlan, IsPlan
<1>2. ASSUME NEW script, NEW fx, IsScript(script), IsEffects(fx),
             fx.composition = None \/ fx.composition = Some(None), fx.origin = "Local"
      PROVE  IsLocalPlan(Plan(script, fx))
  <2> DEFINE plan == Plan(script, fx)
  <2>1. IsPlan(plan) /\ plan # None /\ plan[1].script = script /\ plan[1].fx = fx
    BY <1>2, PlanMade
  <2> HIDE DEF plan
  <2> QED
    BY <1>2, <2>1 DEF IsLocalPlan, plan
<1>3. ASSUME NEW script, NEW kind, NEW s, IsScript(script), IsSelection(s)
      PROVE  IsLocalPlan(Plan(script, With(kind, s)))
  <2> DEFINE fx == With(kind, s)
  <2>1. IsEffects(fx) /\ fx.composition = None /\ fx.origin = "Local"
    BY <1>3, EffectsOf
  <2> HIDE DEF fx
  <2> QED
    BY <1>2, <1>3, <2>1 DEF fx
<1>4. ASSUME NEW script, NEW kind, IsScript(script)
      PROVE  IsLocalPlan(Plan(script, Local(kind)))
  <2> DEFINE fx == Local(kind)
  <2>1. IsEffects(fx) /\ fx.composition = None /\ fx.origin = "Local"
    BY EffectsOf
  <2> HIDE DEF fx
  <2> QED
    BY <1>2, <1>4, <2>1 DEF fx
<1> QED
  BY <1>1, <1>2, <1>3, <1>4

\* And so a local plan carried out leaves a state in order and reports an
\* update of local origin.
LEMMA LocalChange ==
    ASSUME NEW st, IsState(st), NEW t, Ran(st.doc, t), NEW plan, IsLocalPlan(plan)
    PROVE  /\ Carried(st, Change(st, t, plan))
           /\ Change(st, t, plan).applied => Change(st, t, plan).update.origin = "Local"
           /\ Change(st, t, plan).error => SameState(st, Change(st, t, plan).st)
<1>1. IsPlan(plan)
  BY DEF IsLocalPlan
<1>2. plan # None => LET r == RunScript(t, Append(plan[1].script, EnsureBlock))
                     IN  r.ok => KeepsPart(r.doc, plan[1].fx)
  BY DEF Composes, Some, IsLocalPlan, KeepsPart
<1>3. plan # None => plan[1].fx.origin = "Local"
  BY DEF IsLocalPlan
<1>4. Change(st, t, plan).applied => plan # None
  <2>1. ASSUME plan = None PROVE ~Change(st, t, plan).applied
    <3> DEFINE same == [st EXCEPT !.doc = RunScript(t, <<GiveUp>>).doc]
    <3>1. Change(st, t, plan) = NotApplied(same)
      BY <2>1 DEF Change
    <3> HIDE DEF same
    <3> QED
      BY <3>1, NotAppliedView
  <2> QED
    BY <2>1
<1> QED
  BY <1>1, <1>2, <1>3, <1>4, ChangeCarries

\* A plan on the document as it is.
LEMMA PlainChange ==
    ASSUME NEW st, IsState(st), NEW plan, IsLocalPlan(plan)
    PROVE  /\ Carried(st, Change(st, NoCommit(st.doc), plan))
           /\ Change(st, NoCommit(st.doc), plan).applied => Change(st, NoCommit(st.doc), plan).update.origin = "Local"
           /\ Change(st, NoCommit(st.doc), plan).error => SameState(st, Change(st, NoCommit(st.doc), plan).st)
<1>1. Ran(st.doc, NoCommit(st.doc))
  BY RanNothing DEF IsState
<1> QED
  BY <1>1, LocalChange

\* Undo, redo, reversals and the edits of others: any steps may come.
LEMMA StepsCarry ==
    ASSUME NEW st, IsState(st), NEW steps, IsSteps(steps), NEW kind, NEW origin, NEW selection,
           selection = None \/ (selection = Some(selection[1]) /\ IsSelection(selection[1]))
    PROVE  LET r == ApplyStepsTo(st, steps, kind, origin, selection)
           IN  /\ Carried(st, r) /\ (r.applied => r.update.origin = origin /\ r.update.kind = kind)
               /\ r.error => SameState(st, r.st)
<1> DEFINE fx == [Effects(kind, origin) EXCEPT !.selection = selection]
           plan == Plan(steps, fx)
           t == NoCommit(st.doc)
<1>1. Ran(st.doc, t)
  BY RanNothing DEF IsState
<1>2. fx.selection = selection /\ fx.composition = None /\ fx.kind = kind /\ fx.origin = origin
  BY DEF Effects
<1>3. ApplyStepsTo(st, steps, kind, origin, selection) = Change(st, t, plan)
  BY DEF ApplyStepsTo
<1> HIDE DEF fx, t
<1>4. IsEffects(fx)
  BY <1>2 DEF IsEffects
<1>5. IsPlan(plan) /\ plan # None /\ plan[1].script = steps /\ plan[1].fx = fx
  BY <1>4, PlanMade, ScriptOf
<1> HIDE DEF plan
<1>6. \A d : KeepsPart(d, fx)
  BY <1>2 DEF KeepsPart
<1>7. LET r == RunScript(t, Append(plan[1].script, EnsureBlock)) IN r.ok => KeepsPart(r.doc, plan[1].fx)
  BY <1>5, <1>6
<1>8. /\ Carried(st, Change(st, t, plan))
      /\ Change(st, t, plan).applied => /\ Change(st, t, plan).update.kind = plan[1].fx.kind
                                        /\ Change(st, t, plan).update.origin = plan[1].fx.origin
      /\ Change(st, t, plan).error => SameState(st, Change(st, t, plan).st)
  BY <1>1, <1>5, <1>7, ChangeCarries
<1> QED
  BY <1>2, <1>3, <1>5, <1>8

\* What the fix-ups add to an update.
LEMMA FixUpCarries ==
    ASSUME NEW st, IsState(st)
    PROVE  Carried(st, FixUp(st))
<1> DEFINE d == st.doc
           s == InsertBlocksStep(Root, Len(d.root), FreshTree(d.next, DefaultText))
           one == <<s>>
           plan == Plan(one, With("Structure", st.selection))
<1>1. IsTyped(s)
  <2>1. Len(d.root) \in Nat
    BY LenProperties DEF IsState, IsDocument, WellFormed, Linked, Kids, Root
  <2>2. d.next \in Nat \ {0} /\ DefaultText \in Kinds
    BY SchemaAssumption DEF IsState, IsDocument, Ids
  <2> QED
    BY <2>1, <2>2, FreshStep
<1> HIDE DEF s
<1>2. IsScript(one) /\ IsSelection(st.selection)
  BY <1>1, ScriptOf DEF IsInstruction, IsState, Fits
<1> HIDE DEF one
<1>3. IsLocalPlan(plan)
  BY <1>2, LocalPlans
<1>4. FixUp(st) = Change(st, NoCommit(d), None) \/ FixUp(st) = Change(st, NoCommit(d), plan)
  BY DEF FixUp, one, s
<1> HIDE DEF plan
<1> QED
  BY <1>3, <1>4, LocalPlans, PlainChange

\* A savepoint folded away keeps what the commands under it did as one update.
LEMMA FoldedCarries ==
    ASSUME NEW st, NEW r, Carried(st, r), r.applied
    PROVE  LET f == Folded(r)
           IN  /\ Carried(st, f) /\ (f.error \/ f.applied)
               /\ f.applied => f.update.origin = r.update.origin /\ f.update.kind = r.update.kind
<1> DEFINE extra == FixUp(r.st)
           f == Folded(r)
           more == [r EXCEPT !.st = extra.st, !.update = Then(@, extra.update)]
<1>1. IsState(r.st) /\ IsOutcome(r) /\ IsUpdate(st, r.update, r.st)
  BY DEF Carried
<1>2. Carried(r.st, extra)
  BY <1>1, FixUpCarries
<1>3. f = IF extra.error THEN extra ELSE IF extra.applied THEN more ELSE r
  BY DEF Folded
<1> HIDE DEF extra
<1>4. extra.applied => /\ Carried(st, more) /\ more.applied /\ more.update = Then(r.update, extra.update)
  <2>1. extra.applied => AreJoined(st, r, extra)
    BY <1>2, CarriedThen
  <2> QED
    BY <2>1, Zenon DEF AreJoined
<1>5. Then(r.update, extra.update).origin = r.update.origin /\ Then(r.update, extra.update).kind = r.update.kind
  BY <1>1, ThenView DEF IsUpdate
<1>6. IsOutcome(extra) /\ IsState(extra.st) /\ Follows(st.doc, extra.st.doc)
  BY <1>2, CarriedThen DEF Carried
<1> HIDE DEF extra, more, f
<1>7. CASE extra.error
  BY <1>6, <1>7, <1>3 DEF Carried, IsOutcome, f
<1>8. CASE ~extra.error /\ extra.applied
  BY <1>3, <1>4, <1>5, <1>8 DEF f
<1>9. CASE ~extra.error /\ ~extra.applied
  BY <1>3, <1>9 DEF f
<1> QED
  BY <1>7, <1>8, <1>9

-----------------------------------------------------------------------------
(***************************************************************************)
(* Going back: the inverses of an update lead to where it started.         *)
(***************************************************************************)

\* A script of steps only is a list of steps.
LEMMA StepsScript ==
    ASSUME NEW d, NEW t, Ran(d, t), NEW q, IsSteps(q)
    PROVE  RunScript(t, q) = OrRolledBack(RunSteps(t, q))
<1> DEFINE S == ToSet(q)
           k == Len(q)
           At(n) == SteppingAt(t, q)[n]
           To(n) == ScriptingAt(t, q)[n]
           F == {n \in Nat : n <= k => To(n) = At(n)}
<1>1. q \in Seq(S) /\ \A s \in S : IsTyped(s)
  BY DEF IsSteps
<1>2. k \in Nat /\ \A n \in 1 .. k : IsTyped(q[n])
  BY <1>1, LenProperties, ElementOfSeq
<1>3. /\ RunSteps(t, q) = At(k)
      /\ At(0) = t
      /\ \A n \in 0 .. k - 1 : At(n + 1) = SteppingNext(t, q, At(n), n + 1)
  BY <1>2, SteppingUnfolds
<1>4. /\ RunScript(t, q) = OrRolledBack(To(k))
      /\ To(0) = t
      /\ \A n \in 0 .. k - 1 : To(n + 1) = ScriptingNext(t, q, To(n), n + 1)
  BY <1>2, ScriptingUnfolds DEF OrRolledBack
<1> HIDE DEF At, To, S, k
<1>5. 0 \in F
  BY <1>3, <1>4
<1>6. ASSUME NEW n \in Nat, n \in F PROVE n + 1 \in F
  <2> SUFFICES ASSUME n + 1 <= k PROVE To(n + 1) = At(n + 1)
    OBVIOUS
  <2>1. n \in 0 .. k - 1 /\ n + 1 \in 1 .. k /\ n <= k
    BY <1>2
  <2> DEFINE s == q[n + 1]
             one == <<s>>
  <2>2. IsTyped(s) /\ To(n) = At(n)
    BY <1>2, <1>6, <2>1
  <2>3. To(n + 1) = Instruct(At(n), s) /\ At(n + 1) = StepIn(At(n), s)
    BY <1>3, <1>4, <2>1, <2>2 DEF ScriptingNext, SteppingNext
  <2> HIDE DEF s
  <2>4. s.op \notin Edits
    BY <2>2 DEF IsTyped, IsStep, Edits
  <2>5. Instruct(At(n), s) = RunSteps(At(n), one)
    BY <2>4 DEF Instruct
  <2>6. RunSteps(At(n), one) = StepIn(At(n), s)
    BY RunStepsParts
  <2> QED
    BY <2>3, <2>5, <2>6
<1>7. Nat \subseteq F
  <2> HIDE DEF F
  <2> QED
    BY <1>5, <1>6, NaturalSet
<1> QED
  BY <1>2, <1>3, <1>4, <1>7

\* Steps that lead back to a document do, and the selection it had fits again.
LEMMA BackLands ==
    ASSUME NEW st, IsState(st), NEW steps, NEW old, Undoes(steps, st.doc, old), old.root # <<>>,
           NEW s, Fits(old, s), NEW kind
    PROVE  LET r == ApplyStepsTo(st, steps, kind, "History", Some(s))
           IN  r.applied /\ Twins(old, r.st.doc) /\ r.st.selection = s
<1> DEFINE opt == Some(s)
           fx == [Effects(kind, "History") EXCEPT !.selection = opt]
           plan == Plan(steps, fx)
           t == NoCommit(st.doc)
           r == ApplyStepsTo(st, steps, kind, "History", opt)
           made == RunScript(t, Append(steps, EnsureBlock))
           end == RunSteps(t, steps)
<1>1. opt # None /\ opt = Some(opt[1]) /\ opt[1] = s
  BY DEF Some, None
<1>2. Ran(st.doc, t)
  BY RanNothing DEF IsState
<1>3. fx.selection = opt /\ fx.composition = None /\ fx.kind = kind /\ fx.origin = "History"
  BY DEF Effects
<1>4. r = Change(st, t, plan)
  BY DEF ApplyStepsTo
<1>5. IsSteps(steps) /\ end.ok /\ Twins(old, end.doc)
  <2>1. IsSteps(steps) /\ \A x : Twins(st.doc, x) => After(x, steps).ok /\ Twins(old, After(x, steps).doc)
    BY DEF Undoes
  <2>2. Twins(st.doc, st.doc)
    BY RanNothing DEF IsState
  <2>3. After(st.doc, steps) = end
    BY DEF After
  <2> HIDE DEF end, t
  <2> QED
    BY <2>1, <2>2, <2>3
<1> HIDE DEF opt
<1>6. IsEffects(fx)
  <2> HIDE DEF fx
  <2> QED
    BY <1>1, <1>3 DEF IsEffects, Fits
<1> HIDE DEF fx
<1>7. IsPlan(plan) /\ plan # None /\ plan[1].script = steps /\ plan[1].fx = fx
  BY <1>5, <1>6, PlanMade, ScriptOf
<1> HIDE DEF plan, r, t
<1>8. Lands(t, plan, r)
  BY <1>3, <1>7, <1>2, <1>4, ChangeCarries DEF KeepsPart
<1>9. made.ok => r.applied /\ r.st.doc = made.doc /\ r.st.selection = ValidSelection(made.doc, s)
  <2>1. made = RunScript(t, Append(plan[1].script, EnsureBlock))
    BY <1>7
  <2> HIDE DEF made
  <2> QED
    BY <1>1, <1>3, <1>7, <1>8, <2>1 DEF Lands
<1>10. made = end
  <2>1. IsScript(steps) /\ IsInstruction(EnsureBlock)
    BY <1>5, ScriptOf DEF IsInstruction, EnsureBlock, Edits
  <2>2. PICK u : /\ Ran(st.doc, u) /\ RunScript(t, steps) = OrRolledBack(u)
                 /\ RunScript(t, Append(steps, EnsureBlock)) = OrRolledBack(Instruct(u, EnsureBlock))
    BY <1>2, <2>1, ScriptLast
  <2>3. OrRolledBack(u) = OrRolledBack(end)
    BY <1>2, <1>5, <2>2, StepsScript
  <2>4. OrRolledBack(end) = end
    BY <1>5 DEF OrRolledBack
  <2> HIDE DEF end
  <2>5. u.ok /\ u = end
    BY <1>5, <2>2, <2>3, <2>4, OrRolledBackView
  <2>6. u.doc.root # <<>>
    BY <1>5, <2>5, FitsTwins
  <2>7. Instruct(u, EnsureBlock) = u
    BY <2>2, <2>5, <2>6, EnsureView
  <2> QED
    BY <2>2, <2>3, <2>4, <2>5, <2>7
<1> HIDE DEF made, end
<1>11. ValidSelection(end.doc, s) = s
  BY <1>5, FitsTwins DEF Fits
<1> QED
  BY <1>5, <1>9, <1>10, <1>11 DEF r, opt

-----------------------------------------------------------------------------
(***************************************************************************)
(* The undo history.                                                       *)
(***************************************************************************)

\* An entry as the history keeps it, and a stack of them.
EntryFields == {"inverses", "selection", "after", "kind", "was"}
IsEntry(e) == IsA(e, EntryFields) /\ IsSteps(e.inverses) /\ IsSelection(e.selection) /\ IsSelection(e.after)
AreEntries(q) == q \in Seq(ToSet(q)) /\ \A e \in ToSet(q) : IsEntry(e)

\* Reverting the entry leads from one document back to the one before it, and
\* what was selected at either end lies there.
Leads(entry, old, new) ==
    /\ Undoes(Reverse(entry.inverses), new, old) /\ old.root # <<>>
    /\ Content(old) = entry.was
    /\ Fits(old, entry.selection) /\ Fits(new, entry.after)

\* The entries of a stack, one after another, lead to d.
Links(q, docs, d) ==
    /\ Twins(docs[Len(q)], d)
    /\ \A i \in 1 .. Len(q) : Leads(q[i], docs[i - 1], docs[i])
Chain(q, d) == q \in Seq(ToSet(q)) /\ \E docs : Links(q, docs, d)

\* Stacks of entries: pushed to, popped, and the newest changed.
LEMMA EntriesView ==
    /\ AreEntries(<<>>)
    /\ \A q, e : AreEntries(q) /\ IsEntry(e) => AreEntries(Append(q, e)) /\ AreEntries([q EXCEPT ![Len(q)] = e])
    /\ \A q : AreEntries(q) /\ q # <<>> => AreEntries(Tail(q)) /\ AreEntries(Front(q)) /\ IsEntry(Last(q))
    /\ \A q : AreEntries(q) => Len(q) \in Nat
<1>1. AreEntries(<<>>)
  BY EmptySeq DEF AreEntries, ToSet
<1>2. ASSUME NEW q, AreEntries(q) PROVE Len(q) \in Nat
  BY <1>2, LenProperties DEF AreEntries
<1>3. ASSUME NEW T, NEW q \in Seq(T), \A x \in T : IsEntry(x) PROVE AreEntries(q)
  BY <1>3, MemberOf DEF AreEntries
<1>4. ASSUME NEW q, AreEntries(q), NEW e, IsEntry(e)
      PROVE  AreEntries(Append(q, e)) /\ AreEntries([q EXCEPT ![Len(q)] = e])
  <2> DEFINE T == ToSet(q) \cup {e}
             more == Append(q, e)
             changed == [q EXCEPT ![Len(q)] = e]
  <2>1. q \in Seq(T) /\ \A x \in T : IsEntry(x)
    BY <1>4, SeqMonotonic DEF AreEntries
  <2>2. e \in T
    OBVIOUS
  <2> HIDE DEF T
  <2>3. more \in Seq(T)
    BY <2>1, <2>2
  <2>4. changed \in Seq(T)
    <3> DEFINE n == Len(q)
    <3>1. n \in Nat /\ q \in [1 .. n -> T]
      BY <2>1, LenProperties
    <3> HIDE DEF n
    <3>2. [q EXCEPT ![n] = e] \in [1 .. n -> T]
      BY <2>2, <3>1
    <3>3. [q EXCEPT ![n] = e] \in Seq(T)
      BY <3>1, <3>2, SeqDef
    <3> QED
      BY <3>3 DEF n
  <2> HIDE DEF more, changed
  <2> QED
    BY <1>3, <2>1, <2>3, <2>4 DEF more, changed
<1>5. ASSUME NEW q, AreEntries(q), q # <<>> PROVE AreEntries(Tail(q)) /\ AreEntries(Front(q)) /\ IsEntry(Last(q))
  <2> DEFINE T == ToSet(q)
  <2>1. q \in Seq(T) /\ \A x \in T : IsEntry(x)
    BY <1>5 DEF AreEntries
  <2> HIDE DEF T
  <2>2. Len(q) \in Nat /\ Len(q) # 0
    BY <1>5, <2>1, EmptySeq, LenProperties
  <2>3. Tail(q) \in Seq(T) /\ Front(q) \in Seq(T) /\ Last(q) \in T
    BY <2>1, <2>2 DEF Front, Last
  <2> QED
    BY <1>3, <2>1, <2>3
<1> QED
  BY <1>1, <1>2, <1>4, <1>5

\* What joins an entry, and what an update makes a new one.
LEMMA EntryView ==
    ASSUME NEW st, NEW u, NEW after, IsUpdate(st, u, after), IsState(st), IsState(after)
    PROVE  /\ \A was : IsEntry(Entry(u, was))
           /\ Leads(Entry(u, Content(st.doc)), st.doc, after.doc)
           /\ \A x : IsEntry(x) => IsEntry(Extended(x, u))
           /\ \A x, old : IsEntry(x) /\ Leads(x, old, st.doc) => Leads(Extended(x, u), old, after.doc)
<1>1. /\ IsSteps(u.inverses) /\ Undoes(Reverse(u.inverses), after.doc, st.doc)
      /\ u.before = st.selection /\ u.after = after.selection
  BY DEF IsUpdate
<1>2. /\ Fits(st.doc, st.selection) /\ Fits(after.doc, after.selection) /\ st.doc.root # <<>>
      /\ IsSelection(st.selection) /\ IsSelection(after.selection)
  BY DEF IsState, Fits
<1>3. ASSUME NEW was
      PROVE  LET x == Entry(u, was)
             IN  /\ IsA(x, EntryFields) /\ x.inverses = u.inverses /\ x.selection = u.before
                 /\ x.after = u.after /\ x.was = was
  BY DEF Entry, IsA, EntryFields
<1>4. \A was : IsEntry(Entry(u, was))
  BY <1>1, <1>2, <1>3 DEF IsEntry
<1>5. Leads(Entry(u, Content(st.doc)), st.doc, after.doc)
  <2> DEFINE x == Entry(u, Content(st.doc))
  <2>1. x.inverses = u.inverses /\ x.selection = u.before /\ x.after = u.after /\ x.was = Content(st.doc)
    BY <1>3
  <2> HIDE DEF x
  <2> QED
    BY <1>1, <1>2, <2>1 DEF Leads, x
<1>6. ASSUME NEW x, IsEntry(x)
      PROVE  LET y == Extended(x, u)
             IN  /\ IsA(y, EntryFields) /\ y.inverses = x.inverses \o u.inverses /\ y.selection = x.selection
                 /\ y.after = u.after /\ y.was = x.was
  BY <1>6 DEF IsEntry, IsA, EntryFields, Extended
<1>7. ASSUME NEW x, IsEntry(x)
      PROVE  IsSteps(x.inverses \o u.inverses)
  BY <1>1, <1>7, StepsView DEF IsEntry
<1>8. ASSUME NEW x, IsEntry(x) PROVE IsEntry(Extended(x, u))
  BY <1>1, <1>2, <1>6, <1>7, <1>8 DEF IsEntry
<1>9. ASSUME NEW x, NEW old, IsEntry(x), Leads(x, old, st.doc) PROVE Leads(Extended(x, u), old, after.doc)
  <2> DEFINE y == Extended(x, u)
             a == x.inverses
             b == u.inverses
  <2>1. y.inverses = a \o b /\ y.selection = x.selection /\ y.after = u.after /\ y.was = x.was
    BY <1>6, <1>9
  <2>2. Undoes(Reverse(a), st.doc, old) /\ Undoes(Reverse(b), after.doc, st.doc)
    BY <1>1, <1>9 DEF Leads
  <2>3. Reverse(a \o b) = Reverse(b) \o Reverse(a)
    <3>1. a \in Seq(ToSet(a) \cup ToSet(b)) /\ b \in Seq(ToSet(a) \cup ToSet(b))
      <4>1. a \in Seq(ToSet(a)) /\ b \in Seq(ToSet(b))
        BY <1>1, <1>9 DEF IsEntry, IsSteps
      <4> HIDE DEF a, b
      <4> QED
        BY <4>1, SeqMonotonic
    <3> HIDE DEF a, b
    <3> QED
      BY <3>1, ReverseConcat
  <2>4. Undoes(Reverse(b) \o Reverse(a), after.doc, old)
    BY <2>2, UndoesView
  <2> HIDE DEF y, a, b
  <2>5. Undoes(Reverse(y.inverses), after.doc, old)
    BY <2>1, <2>3, <2>4
  <2> QED
    BY <1>1, <1>2, <1>9, <2>1, <2>5 DEF Leads, y
<1> QED
  BY <1>4, <1>5, <1>8, <1>9

\* An empty stack leads anywhere, and a stack leads to whatever reads the same.
LEMMA ChainOf ==
    /\ \A d : WellFormed(d) => Chain(<<>>, d)
    /\ \A q, d, e : Chain(q, d) /\ Twins(d, e) => Chain(q, e)
<1>1. ASSUME NEW d, WellFormed(d) PROVE Chain(<<>>, d)
  <2> DEFINE docs == [i \in {0} |-> d]
             q == <<>>
  <2>1. q \in Seq(ToSet(q)) /\ Len(q) = 0
    BY EmptySeq
  <2>2. docs[0] = d /\ Twins(d, d)
    BY <1>1, TwinsAreEqual
  <2> HIDE DEF docs, q
  <2>3. Links(q, docs, d)
    BY <2>1, <2>2 DEF Links
  <2> QED
    BY <2>1, <2>3 DEF Chain, q
<1>2. ASSUME NEW q, NEW d, NEW e, Chain(q, d), Twins(d, e) PROVE Chain(q, e)
  <2>1. PICK docs : Links(q, docs, d)
    BY <1>2 DEF Chain
  <2>2. Links(q, docs, e)
    BY <1>2, <2>1, TwinsAreEqual DEF Links
  <2> QED
    BY <1>2, <2>2 DEF Chain
<1> QED
  BY <1>1, <1>2

\* One edit more.
LEMMA ChainPushed ==
    ASSUME NEW q, NEW d, Chain(q, d), NEW x, NEW e, Leads(x, d, e), WellFormed(e)
    PROVE  Chain(Append(q, x), e)
<1> DEFINE n == Len(q)
           S == ToSet(q) \cup {x}
           more == Append(q, x)
<1>1. PICK docs : Links(q, docs, d)
  BY DEF Chain
<1>2. q \in Seq(S) /\ x \in S
  BY SeqMonotonic DEF Chain
<1> HIDE DEF S
<1>3. n \in Nat /\ more \in Seq(S) /\ Len(more) = n + 1 /\ more[n + 1] = x /\ \A i \in 1 .. n : more[i] = q[i]
  BY <1>2, LenProperties, AppendProperties
<1> HIDE DEF more, n
<1>4. more \in Seq(ToSet(more))
  BY <1>3, MemberOf
<1> DEFINE longer == [i \in 0 .. n + 1 |-> IF i = n + 1 THEN e ELSE IF i = n THEN d ELSE docs[i]]
<1>5. /\ longer[n + 1] = e /\ longer[n] = d
      /\ \A i \in 0 .. n - 1 : longer[i] = docs[i]
  BY <1>3
<1> HIDE DEF longer
<1>6. Twins(docs[n], d) /\ \A i \in 1 .. n : Leads(q[i], docs[i - 1], docs[i])
  BY <1>1 DEF Links, n
<1>7. ASSUME NEW i \in 1 .. n + 1 PROVE Leads(more[i], longer[i - 1], longer[i])
  <2>1. CASE i = n + 1
    BY <1>3, <1>5, <2>1
  <2>2. CASE i = n
    BY <1>3, <2>2, <1>5, <1>6, UndoesView, FitsTwins DEF Leads
  <2>3. CASE i < n
    BY <1>3, <2>3, <1>5, <1>6
  <2> QED
    BY <1>3, <2>1, <2>2, <2>3
<1>8. Links(more, longer, e)
  BY TwinsAreEqual, <1>3, <1>5, <1>7 DEF Links
<1> QED
  BY <1>4, <1>8 DEF Chain, more

\* The newest entry, and what is left without it or without the oldest.
LEMMA ChainPopped ==
    ASSUME NEW q, NEW d, Chain(q, d), q # <<>>
    PROVE  /\ \E old : Leads(Last(q), old, d) /\ Chain(Front(q), old)
           /\ Chain(Tail(q), d)
<1> DEFINE n == Len(q)
           S == ToSet(q)
<1>1. PICK docs : Links(q, docs, d)
  BY DEF Chain
<1>2. q \in Seq(S)
  BY DEF Chain
<1> HIDE DEF S
<1>3. n \in Nat \ {0}
  BY <1>2, EmptySeq, LenProperties
<1>4. Twins(docs[n], d) /\ \A i \in 1 .. n : Leads(q[i], docs[i - 1], docs[i])
  BY <1>1 DEF Links
<1> DEFINE old == docs[n - 1]
           front == Front(q)
           tail == Tail(q)
<1>5. Leads(Last(q), old, d)
  BY <1>3, <1>4, UndoesView, FitsTwins DEF Last, Leads
<1>6. Chain(front, old)
  <2>1. front \in Seq(S) /\ Len(front) = n - 1 /\ \A i \in 1 .. n - 1 : front[i] = q[i]
    <3>1. front = SubSeq(q, 1, n - 1)
      BY DEF Front
    <3> DEFINE m == n - 1
    <3>2. m \in Nat /\ m \in Int /\ \A i \in 1 .. m : i \in 1 .. n
      BY <1>3
    <3>3. \A i \in 1 .. m : q[i] \in S
      BY <1>2, <3>2, ElementOfSeq
    <3> HIDE DEF m, front, n
    <3>4. SubSeq(q, 1, m) \in Seq(S) /\ Len(SubSeq(q, 1, m)) = m /\ \A i \in 1 .. m : SubSeq(q, 1, m)[i] = q[i]
      BY <3>2, <3>3, SubSeqProperties
    <3> QED
      BY <3>1, <3>4 DEF m
  <2> HIDE DEF front
  <2>2. front \in Seq(ToSet(front))
    BY <2>1, MemberOf
  <2>3. Twins(old, old)
    BY <1>5, TwinsAreEqual DEF Leads, Undoes
  <2>4. \A i \in 1 .. n - 1 : i \in 1 .. n
    BY <1>3
  <2> HIDE DEF n
  <2>5. Links(front, docs, old)
    BY <1>4, <2>1, <2>3, <2>4 DEF Links
  <2> QED
    BY <2>2, <2>5 DEF Chain
<1>7. Chain(tail, d)
  <2>1. tail \in Seq(S) /\ Len(tail) = n - 1 /\ \A i \in 1 .. n - 1 : tail[i] = q[i + 1]
    BY <1>2, <1>3
  <2> HIDE DEF tail
  <2>2. tail \in Seq(ToSet(tail))
    BY <2>1, MemberOf
  <2> DEFINE later == [i \in 0 .. n - 1 |-> docs[i + 1]]
  <2>3. \A i \in 0 .. n - 1 : later[i] = docs[i + 1]
    OBVIOUS
  <2> HIDE DEF later
  <2>4. n - 1 \in 0 .. n - 1 /\ (n - 1) + 1 = n
    BY <1>3
  <2>5. ASSUME NEW i \in 1 .. n - 1 PROVE Leads(tail[i], later[i - 1], later[i])
    <3>1. i \in 0 .. n - 1 /\ i - 1 \in 0 .. n - 1 /\ i + 1 \in 1 .. n /\ (i - 1) + 1 = i /\ (i + 1) - 1 = i
      BY <1>3
    <3>2. tail[i] = q[i + 1] /\ later[i - 1] = docs[i] /\ later[i] = docs[i + 1]
      BY <2>1, <2>3, <3>1
    <3>3. Leads(q[i + 1], docs[(i + 1) - 1], docs[i + 1])
      BY <1>4, <3>1
    <3> QED
      BY <3>1, <3>2, <3>3
  <2> HIDE DEF n
  <2>6. Links(tail, later, d)
    BY <2>1, <2>3, <2>4, <1>4, <2>5 DEF Links
  <2> QED
    BY <2>2, <2>6 DEF Chain
<1> QED
  BY <1>5, <1>6, <1>7

RetracingFrom(st) == [ok |-> TRUE, st |-> st]
RetracingNext(st, entries, at, n) == Retraced(at, Reverse(entries)[n])
RetracingBody(st, entries, f) ==
    [n \in 0 .. Len(entries) |-> IF n = 0 THEN RetracingFrom(st) ELSE RetracingNext(st, entries, f[n - 1], n)]
RetracingAt(st, entries) == CHOOSE f : f = RetracingBody(st, entries, f)

\* Entry after entry, the newest first.
LEMMA RetracingUnfolds ==
    ASSUME NEW st, NEW entries, Len(entries) \in Nat
    PROVE  /\ Retraces(st, entries) = RetracingAt(st, entries)[Len(entries)].ok
           /\ RetracingAt(st, entries)[0] = RetracingFrom(st)
           /\ \A n \in 0 .. Len(entries) - 1 :
                 RetracingAt(st, entries)[n + 1] = RetracingNext(st, entries, RetracingAt(st, entries)[n], n + 1)
<1> DEFINE len == Len(entries)
           Upto(m, f) == [n \in 0 .. m |-> IF n = 0 THEN RetracingFrom(st) ELSE RetracingNext(st, entries, f[n - 1], n)]
           Found == {m \in Nat : \E f : f = Upto(m, f)}
<1>1. 0 \in Found
  <2> DEFINE f == [n \in 0 .. 0 |-> RetracingFrom(st)]
  <2>1. f = Upto(0, f)
    OBVIOUS
  <2> HIDE DEF f, Upto
  <2> QED
    BY <2>1
<1>2. ASSUME NEW m \in Nat, m \in Found PROVE m + 1 \in Found
  <2>1. PICK f : f = Upto(m, f)
    BY <1>2
  <2> DEFINE g == [n \in 0 .. m + 1 |-> IF n = m + 1 THEN RetracingNext(st, entries, f[m], n) ELSE f[n]]
  <2>2. ASSUME NEW n \in 0 .. m + 1
        PROVE  g[n] = IF n = 0 THEN RetracingFrom(st) ELSE RetracingNext(st, entries, g[n - 1], n)
    <3>1. CASE n = m + 1
      <4>1. n # 0 /\ n - 1 = m /\ m \in 0 .. m + 1 /\ m # m + 1
        BY <3>1
      <4>2. g[m] = f[m]
        BY <4>1
      <4>3. g[n] = RetracingNext(st, entries, f[m], n)
        BY <3>1
      <4> HIDE DEF g
      <4> QED
        BY <4>1, <4>2, <4>3
    <3>2. CASE n # m + 1
      <4>1. n \in 0 .. m
        BY <3>2
      <4>2. g[n] = f[n]
        BY <3>2
      <4>3. f[n] = IF n = 0 THEN RetracingFrom(st) ELSE RetracingNext(st, entries, f[n - 1], n)
        <5>1. Upto(m, f)[n] = IF n = 0 THEN RetracingFrom(st) ELSE RetracingNext(st, entries, f[n - 1], n)
          BY <4>1
        <5> HIDE DEF Upto
        <5> QED
          BY <2>1, <5>1, Zenon
      <4>4. n # 0 => g[n - 1] = f[n - 1]
        BY <4>1
      <4> HIDE DEF g
      <4> QED
        BY <4>2, <4>3, <4>4
    <3> QED
      BY <3>1, <3>2
  <2>3. g = Upto(m + 1, g)
    <3>1. g = [n \in 0 .. m + 1 |-> g[n]]
      OBVIOUS
    <3>2. Upto(m + 1, g) = [n \in 0 .. m + 1 |-> IF n = 0 THEN RetracingFrom(st) ELSE RetracingNext(st, entries, g[n - 1], n)]
      OBVIOUS
    <3> HIDE DEF g, Upto
    <3> QED
      BY <2>2, <3>1, <3>2
  <2> HIDE DEF g, Upto
  <2> QED
    BY <2>3
<1>3. len \in Found
  <2> HIDE DEF Found
  <2> QED
    BY <1>1, <1>2, NaturalSet
<1>4. \E f : f = RetracingBody(st, entries, f)
  <2>1. \E f : f = Upto(len, f)
    <3> HIDE DEF Upto
    <3> QED
      BY <1>3
  <2>2. \A f : Upto(len, f) = RetracingBody(st, entries, f)
    BY DEF RetracingBody
  <2> HIDE DEF Upto
  <2> QED
    BY <2>1, <2>2
<1>5. RetracingAt(st, entries) = RetracingBody(st, entries, RetracingAt(st, entries))
  BY <1>4 DEF RetracingAt
<1>6. \A n \in 0 .. len : RetracingAt(st, entries)[n] =
         IF n = 0 THEN RetracingFrom(st) ELSE RetracingNext(st, entries, RetracingAt(st, entries)[n - 1], n)
  <2> DEFINE f == RetracingAt(st, entries)
  <2> HIDE DEF f
  <2>1. f = RetracingBody(st, entries, f)
    BY <1>5 DEF f
  <2>2. \A n \in 0 .. len : RetracingBody(st, entries, f)[n] = IF n = 0 THEN RetracingFrom(st) ELSE RetracingNext(st, entries, f[n - 1], n)
    BY DEF RetracingBody
  <2> QED
    BY <2>1, <2>2, Zenon DEF f
<1>7. Retraces(st, entries) = RetracingAt(st, entries)[Len(entries)].ok
  BY DEF Retraces, RetracingAt, RetracingBody, RetracingNext, RetracingFrom
<1>8. RetracingAt(st, entries)[0] = RetracingFrom(st)
  BY <1>6
<1> HIDE DEF Upto, Found
<1>9. ASSUME NEW n \in 0 .. len - 1
      PROVE  RetracingAt(st, entries)[n + 1] = RetracingNext(st, entries, RetracingAt(st, entries)[n], n + 1)
  BY <1>6
<1> QED
  BY <1>7, <1>8, <1>9
\* Entries that lead to a document lead back through the documents and
\* selections they came from.
LEMMA ChainRetraces ==
    ASSUME NEW st, IsState(st), NEW q, AreEntries(q), Chain(q, st.doc)
    PROVE  Retraces(st, q)
<1> DEFINE k == Len(q)
           S == ToSet(q)
           back(n) == RetracingAt(st, q)[n]
<1>1. q \in Seq(S) /\ k \in Nat
  BY EntriesView DEF AreEntries
<1>2. PICK docs : Links(q, docs, st.doc)
  BY DEF Chain
<1>3. /\ Retraces(st, q) = back(k).ok
      /\ back(0) = RetracingFrom(st)
      /\ \A n \in 0 .. k - 1 : back(n + 1) = RetracingNext(st, q, back(n), n + 1)
  BY <1>1, RetracingUnfolds
<1>4. /\ \A i \in 1 .. k : IsEntry(q[i])
      /\ \A n \in 0 .. k - 1 : Reverse(q)[n + 1] = q[k - n] /\ k - n \in 1 .. k
  <2>1. \A i \in 1 .. k : IsEntry(q[i])
    BY <1>1, ElementOfSeq DEF AreEntries
  <2>2. \A i \in 1 .. k : Reverse(q)[i] = q[(k - i) + 1]
    BY <1>1, ReverseView
  <2>3. \A n \in 0 .. k - 1 : n + 1 \in 1 .. k /\ (k - (n + 1)) + 1 = k - n /\ k - n \in 1 .. k
    BY <1>1
  <2> HIDE DEF k
  <2>4. \A n \in 0 .. k - 1 : Reverse(q)[n + 1] = q[k - n]
    BY <2>2, <2>3
  <2> QED
    BY <2>1, <2>3, <2>4
<1>5. Twins(docs[k], st.doc) /\ \A i \in 1 .. k : Leads(q[i], docs[i - 1], docs[i])
  BY <1>2 DEF Links
<1> HIDE DEF k, S, back
<1> DEFINE G == {n \in Nat : n <= k => back(n).ok /\ IsState(back(n).st) /\ Twins(docs[k - n], back(n).st.doc)}
<1>6. 0 \in G
  BY <1>3, <1>1, <1>5 DEF RetracingFrom
<1>7. ASSUME NEW n \in Nat, n \in G PROVE n + 1 \in G
  <2> SUFFICES ASSUME n + 1 <= k
               PROVE  back(n + 1).ok /\ IsState(back(n + 1).st) /\ Twins(docs[k - (n + 1)], back(n + 1).st.doc)
    OBVIOUS
  <2>1. n \in 0 .. k - 1 /\ n <= k /\ k - (n + 1) = (k - n) - 1
    BY <1>1
  <2> DEFINE entry == q[k - n]
             now == back(n).st
             old == docs[(k - n) - 1]
             next == Back(now, entry)
  <2>2. back(n).ok /\ IsState(now) /\ Twins(docs[k - n], now.doc)
    BY <1>7, <2>1
  <2>3. IsEntry(entry) /\ Leads(entry, old, docs[k - n])
    BY <1>4, <1>5, <2>1
  <2>4. back(n + 1) = Retraced(back(n), entry)
    BY <1>3, <1>4, <2>1 DEF RetracingNext
  <2>5. next = ApplyStepsTo(now, Reverse(entry.inverses), entry.kind, "History", Some(entry.selection))
    BY DEF Back
  <2>6. back(n + 1) = [ok |-> next.applied /\ Content(next.st.doc) = entry.was /\ next.st.selection = entry.selection,
                       st |-> next.st]
    BY <2>2, <2>4 DEF Retraced
  <2> HIDE DEF next, entry, now, old
  <2>7. Undoes(Reverse(entry.inverses), now.doc, old) /\ old.root # <<>> /\ Fits(old, entry.selection)
    BY <2>2, <2>3, UndoesView DEF Leads
  <2>8. next.applied /\ Twins(old, next.st.doc) /\ next.st.selection = entry.selection
    BY <2>2, <2>5, <2>7, BackLands
  <2>9. IsState(next.st)
    <3> DEFINE opt == Some(entry.selection)
    <3>1. opt = Some(opt[1]) /\ IsSelection(opt[1])
      BY <2>3 DEF Some, IsEntry
    <3>2. IsSteps(Reverse(entry.inverses))
      BY <2>7 DEF Undoes
    <3>3. next = ApplyStepsTo(now, Reverse(entry.inverses), entry.kind, "History", opt)
      BY <2>5
    <3> HIDE DEF opt
    <3> QED
      BY <2>2, <3>1, <3>2, <3>3, StepsCarry DEF Carried
  <2>10. Content(next.st.doc) = entry.was
    BY <2>3, <2>8, TwinsAreEqual DEF Leads
  <2>11. back(n + 1).ok /\ back(n + 1).st = next.st
    <3> DEFINE right == next.applied /\ Content(next.st.doc) = entry.was /\ next.st.selection = entry.selection
    <3>1. right /\ back(n + 1) = [ok |-> right, st |-> next.st]
      BY <2>6, <2>8, <2>10
    <3> HIDE DEF right
    <3>2. [ok |-> right, st |-> next.st].ok = right /\ [ok |-> right, st |-> next.st].st = next.st
      BY Zenon
    <3> QED
      BY <3>1, <3>2, Zenon
  <2> QED
    BY <2>1, <2>8, <2>9, <2>11 DEF old
<1>8. Nat \subseteq G
  <2> HIDE DEF G
  <2> QED
    BY <1>6, <1>7, NaturalSet
<1>9. back(k).ok
  BY <1>1, <1>8
<1> QED
  BY <1>3, <1>9

-----------------------------------------------------------------------------
(***************************************************************************)
(* The editor around the state: what finishing an update leaves.           *)
(***************************************************************************)

\* What is typed, the rule just applied, and the editor's fields.
IsChars(chars) == chars \in Seq(ToSet(chars))
IsTrace(opt) ==
    opt = None \/ (/\ opt = Some(opt[1])
                   /\ IsSteps(opt[1].undo) /\ IsSelection(opt[1].before) /\ IsChars(opt[1].typed))
CtxFields == {"state", "done", "undone", "group", "rule"}
IsCtx(c) ==
    /\ IsA(c, CtxFields)
    /\ IsState(c.state) /\ AreEntries(c.done) /\ AreEntries(c.undone) /\ IsTrace(c.rule)

\* The history leads to the document.
Remembers(c) == Chain(c.done, c.state.doc) /\ Chain(c.undone, c.state.doc)

\* A context with one field changed.
CtxIs(e, st, before, after, open, trace) ==
    /\ IsA(e, CtxFields) /\ e.state = st /\ e.done = before /\ e.undone = after
    /\ e.group = open /\ e.rule = trace

\* What changing one field makes of a context.
LEMMA CtxWith ==
    ASSUME NEW c, IsA(c, CtxFields), NEW x
    PROVE  /\ CtxIs([c EXCEPT !.state = x], x, c.done, c.undone, c.group, c.rule)
           /\ CtxIs([c EXCEPT !.rule = x], c.state, c.done, c.undone, c.group, x)
           /\ CtxIs([c EXCEPT !.group = x], c.state, c.done, c.undone, x, c.rule)
<1>1. c = [f \in CtxFields |-> c[f]]
  BY DEF IsA
<1> QED
  BY <1>1 DEF IsA, CtxFields, CtxIs

\* The newest entry of a stack taken for a changed one.
LEMMA NewestChanged ==
    ASSUME NEW q, AreEntries(q), q # <<>>, NEW x
    PROVE  [q EXCEPT ![Len(q)] = x] = Append(Front(q), x)
<1> DEFINE S == ToSet(q)
           front == Front(q)
<1>1. q \in Seq(S)
  BY DEF AreEntries
<1>2. Len(q) \in Nat \ {0}
  BY <1>1, EmptySeq, LenProperties
<1> DEFINE n == Len(q)
           T == S \cup {x}
           changed == [q EXCEPT ![n] = x]
           more == Append(front, x)
<1> HIDE DEF S
<1>3. n \in Nat \ {0} /\ q \in Seq(T) /\ x \in T
  BY <1>1, <1>2, SeqMonotonic
<1>4. changed \in Seq(T) /\ Len(changed) = n /\ changed[n] = x /\ \A i \in 1 .. n - 1 : changed[i] = q[i]
  BY <1>3, ExceptSeq
<1>5. front \in Seq(T) /\ Len(front) = n - 1 /\ \A i \in 1 .. n - 1 : front[i] = q[i]
  <2> DEFINE m == n - 1
  <2>1. m \in Nat /\ m \in Int /\ \A i \in 1 .. m : i \in 1 .. n
    BY <1>3
  <2>2. \A i \in 1 .. m : q[i] \in T
    BY <1>3, <2>1, ElementOfSeq
  <2>3. front = SubSeq(q, 1, m)
    BY DEF Front
  <2> HIDE DEF m, front, T, n
  <2>4. SubSeq(q, 1, m) \in Seq(T) /\ Len(SubSeq(q, 1, m)) = m /\ \A i \in 1 .. m : SubSeq(q, 1, m)[i] = q[i]
    BY <2>1, <2>2, SubSeqProperties
  <2> QED
    BY <2>3, <2>4 DEF m
<1> HIDE DEF T, front, n, changed
<1>6. more \in Seq(T) /\ Len(more) = n /\ more[n] = x /\ \A i \in 1 .. n - 1 : more[i] = q[i]
  BY <1>3, <1>5, AppendProperties
<1> HIDE DEF more
<1>7. \A i \in 1 .. n : changed[i] = more[i]
  BY <1>3, <1>4, <1>6
<1>8. changed = more
  BY <1>3, <1>4, <1>6, <1>7, SeqEqual
<1> QED
  BY <1>8 DEF changed, more, front, n

\* What recording an update makes of the stacks.
LEMMA RecordView ==
    ASSUME NEW c, IsCtx(c), NEW st, IsState(st), NEW u, IsUpdate(st, u, c.state),
           u.origin \in {"Local", "History", "Remote"}, NEW soon, NEW was
    PROVE  LET r == Record(c, u, soon, was)
           IN  /\ IsCtx(r) /\ r.state = c.state /\ r.rule = c.rule
               /\ u.origin = "History" => r = c
               /\ u.origin = "Remote" => r.done = <<>> /\ r.undone = <<>>
               /\ /\ u.origin = "Local" /\ was = Content(st.doc)
                  /\ Chain(c.done, st.doc) /\ Chain(c.undone, st.doc)
                  => Remembers(r)
<1> DEFINE r == Record(c, u, soon, was)
<1>1. IsA(c, CtxFields) /\ IsState(c.state) /\ AreEntries(c.done) /\ AreEntries(c.undone) /\ IsTrace(c.rule)
  BY DEF IsCtx
<1>2. CASE u.origin = "History"
  BY <1>2 DEF Record
<1>3. CASE u.origin = "Remote"
  <2> DEFINE none == <<>>
  <2>1. r = [c EXCEPT !.done = none, !.undone = none, !.group = None]
    BY <1>3 DEF Record
  <2>2. /\ IsA(r, CtxFields) /\ r.state = c.state /\ r.done = none /\ r.undone = none /\ r.rule = c.rule
    <3>1. c = [f \in CtxFields |-> c[f]]
      BY <1>1 DEF IsA
    <3> HIDE DEF r, none
    <3> QED
      BY <2>1, <3>1 DEF IsA, CtxFields
  <2> HIDE DEF r
  <2>3. IsCtx(r)
    BY <1>1, <2>2, EntriesView DEF IsCtx
  <2> QED
    BY <1>3, <2>2, <2>3 DEF r
<1>4. CASE u.origin = "Local" /\ ~DocChanged(u)
  <2>1. r = c
    BY <1>4 DEF Record
  <2>2. ASSUME Chain(c.done, st.doc), Chain(c.undone, st.doc) PROVE Remembers(c)
    <3>1. u.inverses = <<>>
      BY <1>4, EmptySeq DEF IsUpdate, DocChanged, IsSteps
    <3>2. Undoes(<<>>, c.state.doc, st.doc)
      BY <3>1, StepsView DEF IsUpdate
    <3>3. Twins(st.doc, c.state.doc)
      <4> DEFINE e == c.state.doc
      <4>1. After(e, <<>>) = NoCommit(e)
        BY RunStepsParts DEF After
      <4>2. After(e, <<>>).doc = e
        BY <4>1, NoCommitView
      <4>3. Twins(e, e)
        BY <1>1, TwinsAreEqual DEF IsState, IsDocument
      <4>4. Twins(st.doc, After(e, <<>>).doc)
        BY <3>2, <4>3 DEF Undoes
      <4> QED
        BY <4>2, <4>4
    <3> QED
      BY <2>2, <3>3, ChainOf DEF Remembers
  <2> QED
    BY <1>4, <2>1, <2>2
<1>5. CASE u.origin = "Local" /\ DocChanged(u)
  <2> DEFINE joined == Continued(c.done, u)
             pushed == Pushed(c.done, Entry(u, was))
             none == <<>>
             open == Some([kind |-> u.kind, selection |-> u.after])
             then == IF Joins(c, u, soon) THEN joined ELSE pushed
  <2>1. r = [c EXCEPT !.undone = none, !.group = open, !.done = then]
    BY <1>5 DEF Record
  <2> HIDE DEF joined, pushed, none, open
  <2>2. r = [c EXCEPT !.undone = none, !.group = open, !.done = joined]
        \/ r = [c EXCEPT !.undone = none, !.group = open, !.done = pushed]
    BY <2>1
  <2>3. /\ IsA(r, CtxFields) /\ r.state = c.state /\ r.undone = none /\ r.rule = c.rule
        /\ r.done = joined \/ r.done = pushed
    <3>1. c = [f \in CtxFields |-> c[f]]
      BY <1>1 DEF IsA
    <3> HIDE DEF r
    <3> QED
      BY <2>2, <3>1 DEF IsA, CtxFields
  <2>4. /\ \A w : IsEntry(Entry(u, w))
        /\ Leads(Entry(u, Content(st.doc)), st.doc, c.state.doc)
        /\ \A x : IsEntry(x) => IsEntry(Extended(x, u))
        /\ \A x, old : IsEntry(x) /\ Leads(x, old, st.doc) => Leads(Extended(x, u), old, c.state.doc)
    BY <1>1, EntryView
  <2>5. WellFormed(c.state.doc)
    BY <1>1 DEF IsState, IsDocument
  <2>6. /\ AreEntries(joined)
        /\ Chain(c.done, st.doc) => Chain(joined, c.state.doc)
    <3>1. CASE c.done = <<>>
      BY <3>1, <2>5, EntriesView, ChainOf DEF joined, Continued
    <3>2. CASE c.done # <<>>
      <4> DEFINE x == Last(c.done)
                 y == Extended(x, u)
      <4>1. joined = [c.done EXCEPT ![Len(c.done)] = y]
        BY DEF joined, Continued, Last
      <4>2. IsEntry(x)
        BY <1>1, <3>2, EntriesView
      <4>3. IsEntry(y) /\ \A old : Leads(x, old, st.doc) => Leads(y, old, c.state.doc)
        BY <2>4, <4>2
      <4> HIDE DEF y
      <4>4. joined = Append(Front(c.done), y)
        BY <1>1, <3>2, <4>1, NewestChanged
      <4>5. AreEntries(joined)
        BY <1>1, <4>1, <4>3, EntriesView
      <4>6. ASSUME Chain(c.done, st.doc) PROVE Chain(joined, c.state.doc)
        <5>1. PICK old : Leads(Last(c.done), old, st.doc) /\ Chain(Front(c.done), old)
          BY <3>2, <4>6, ChainPopped
        <5>2. Leads(y, old, c.state.doc)
          BY <4>3, <5>1
        <5> QED
          BY <2>5, <4>4, <5>1, <5>2, ChainPushed
      <4> QED
        BY <4>5, <4>6
    <3> QED
      BY <3>1, <3>2
  <2>7. /\ AreEntries(pushed)
        /\ Chain(c.done, st.doc) /\ was = Content(st.doc) => Chain(pushed, c.state.doc)
    <3> DEFINE x == Entry(u, was)
               all == Append(c.done, x)
    <3>1. IsEntry(x) /\ (was = Content(st.doc) => Leads(x, st.doc, c.state.doc))
      BY <2>4
    <3>2. pushed = all \/ pushed = Tail(all)
      BY DEF pushed, Pushed
    <3> HIDE DEF x
    <3>3. AreEntries(all) /\ all # <<>>
      BY <1>1, LastReplaced, <3>1, EntriesView DEF AreEntries
    <3>4. Chain(c.done, st.doc) /\ was = Content(st.doc) => Chain(all, c.state.doc)
      BY <2>5, <3>1, ChainPushed
    <3> HIDE DEF all
    <3>5. AreEntries(Tail(all)) /\ (Chain(all, c.state.doc) => Chain(Tail(all), c.state.doc))
      BY <3>3, EntriesView, ChainPopped
    <3> QED
      BY <3>2, <3>3, <3>4, <3>5
  <2>8. AreEntries(none) /\ Chain(none, c.state.doc)
    BY <2>5, EntriesView, ChainOf DEF none
  <2> HIDE DEF r
  <2>9. IsCtx(r)
    BY <1>1, <2>3, <2>6, <2>7, <2>8 DEF IsCtx
  <2>10. was = Content(st.doc) /\ Chain(c.done, st.doc) => Remembers(r)
    BY <2>3, <2>6, <2>7, <2>8 DEF Remembers
  <2> QED
    BY <1>5, <2>3, <2>9, <2>10 DEF r
<1> QED
  BY <1>2, <1>3, <1>4, <1>5

\* How a call ended, what it left of st and how it bears on the history.
IsEnded(c, st, e) ==
    /\ e = Ended(e.ctx, e.how, e.update)
    /\ IsCtx(e.ctx) /\ Follows(st.doc, e.ctx.state.doc)
    /\ e.how \in {"error", "none", "refused", "applied", "reverted"}
    /\ e.how \in {"none", "refused"} => /\ Twins(st.doc, e.ctx.state.doc) /\ e.ctx.state.selection = st.selection
                                        /\ e.ctx.done = c.done /\ e.ctx.undone = c.undone
    /\ e.how = "applied" => e.update # None /\ IsUpdate(st, e.update[1], e.ctx.state)
Keeps(c, st, e, was) ==
    /\ was = Content(st.doc) /\ Chain(c.done, st.doc) /\ Chain(c.undone, st.doc) /\ e.how # "error"
    => Remembers(e.ctx)

\* Records of how a call ended.
LEMMA EndedView ==
    /\ \A c, how, update : LET e == Ended(c, how, update)
                           IN  e.ctx = c /\ e.how = how /\ e.update = update /\ e = Ended(e.ctx, e.how, e.update)
<1>1. ASSUME NEW c, NEW how, NEW update
      PROVE  LET e == Ended(c, how, update)
             IN  e.ctx = c /\ e.how = how /\ e.update = update
  BY DEF Ended
<1> QED
  BY <1>1

\* Taking an update, after its fix-ups: refused and reverted, or recorded.
LEMMA TakeView ==
    ASSUME NEW c, IsA(c, CtxFields), AreEntries(c.done), AreEntries(c.undone), IsTrace(c.rule),
           NEW st, IsState(st), NEW fixed, Carried(st, fixed), fixed.error \/ fixed.applied,
           NEW local \in BOOLEAN,
           fixed.applied => fixed.update.origin = IF local THEN "Local" ELSE "History",
           NEW soon, NEW was
    PROVE  LET e == Take(c, fixed, local, soon, was)
           IN  /\ IsEnded(c, st, e) /\ e.how # "none"
               /\ local => Keeps(c, st, e, was) /\ e.how # "reverted"
               /\ ~local => e.how \in {"error", "reverted"}
               /\ e.how = "reverted" => e.ctx = [c EXCEPT !.state = fixed.st] /\ fixed.applied
<1> DEFINE e == Take(c, fixed, local, soon, was)
           left == [c EXCEPT !.state = fixed.st]
           u == fixed.update
           back == ApplyStepsTo(fixed.st, Reverse(u.inverses), u.kind, "History", Some(u.before))
           gone == [c EXCEPT !.state = back.st]
           end == IF back.error THEN "error" ELSE "refused"
           kept == Record(left, u, soon, was)
           ran == IF local THEN "applied" ELSE "reverted"
<1>1. /\ IsA(left, CtxFields) /\ left.state = fixed.st /\ left.done = c.done /\ left.undone = c.undone
      /\ left.group = c.group /\ left.rule = c.rule
  <2>1. CtxIs(left, fixed.st, c.done, c.undone, c.group, c.rule)
    BY CtxWith
  <2> HIDE DEF left
  <2> QED
    BY <2>1 DEF CtxIs
<1>2. IsState(fixed.st) /\ Follows(st.doc, fixed.st.doc) /\ (fixed.applied => IsUpdate(st, u, fixed.st)) /\ IsOutcome(fixed)
  BY DEF Carried
<1>3. e = IF fixed.error THEN Ended(left, "error", None)
          ELSE IF local /\ ~AllowedBy(fixed.st.doc, u) THEN Ended(gone, end, None)
          ELSE Ended(kept, ran, Some(u))
  BY DEF Take
<1> HIDE DEF e, left, back, gone, end, kept, ran, u
<1>4. IsCtx(left)
  BY <1>1, <1>2 DEF IsCtx
<1>5. CASE fixed.error
  BY <1>3, <1>5, EndedView, <1>1, <1>2, <1>4 DEF IsEnded, Keeps, e
<1>6. CASE ~fixed.error /\ local /\ ~AllowedBy(fixed.st.doc, u)
  <2>1. e = Ended(gone, end, None)
    BY <1>3, <1>6
  <2>2. e.ctx = gone /\ e.how = end /\ e = Ended(e.ctx, e.how, e.update)
    BY <2>1, EndedView
  <2>3. IsUpdate(st, u, fixed.st)
    BY <1>2, <1>6
  <2>4. IsSteps(Reverse(u.inverses)) /\ IsSelection(st.selection) /\ u.before = st.selection
        /\ Undoes(Reverse(u.inverses), fixed.st.doc, st.doc)
    BY <2>3, StepsView DEF IsUpdate, IsState, Fits
  <2>5. Carried(fixed.st, back) /\ (back.error => SameState(fixed.st, back.st))
    <3> DEFINE opt == Some(u.before)
               steps == Reverse(u.inverses)
    <3>1. opt = Some(opt[1]) /\ IsSelection(opt[1])
      BY <2>4 DEF Some
    <3>2. back = ApplyStepsTo(fixed.st, steps, u.kind, "History", opt)
      BY DEF back
    <3> HIDE DEF opt, steps
    <3> QED
      BY <1>2, <2>4, <3>1, <3>2, StepsCarry DEF steps
  <2>6. back.applied /\ Twins(st.doc, back.st.doc) /\ back.st.selection = st.selection
    <3> DEFINE steps == Reverse(u.inverses)
               sel == st.selection
    <3>1. back = ApplyStepsTo(fixed.st, steps, u.kind, "History", Some(sel))
      BY <2>4 DEF back
    <3>2. Undoes(steps, fixed.st.doc, st.doc) /\ st.doc.root # <<>> /\ Fits(st.doc, sel)
      BY <2>4 DEF IsState
    <3> HIDE DEF steps, sel
    <3> QED
      BY <1>2, <3>1, <3>2, BackLands DEF sel
  <2>7. /\ IsA(gone, CtxFields) /\ gone.state = back.st /\ gone.done = c.done /\ gone.undone = c.undone
        /\ gone.rule = c.rule
    <3>1. CtxIs(gone, back.st, c.done, c.undone, c.group, c.rule)
      BY CtxWith DEF gone
    <3> QED
      BY <3>1 DEF CtxIs
  <2>8. IsState(back.st) /\ Follows(st.doc, back.st.doc) /\ ~back.error
    BY <1>2, <2>5, <2>6, FollowsView DEF Carried, IsOutcome
  <2>9. IsCtx(gone) /\ end = "refused"
    BY <2>7, <2>8 DEF IsCtx, end
  <2>10. IsEnded(c, st, e)
    BY <2>2, <2>6, <2>7, <2>8, <2>9 DEF IsEnded
  <2>11. Keeps(c, st, e, was)
    BY <2>2, <2>6, <2>7, ChainOf DEF Keeps, Remembers
  <2> QED
    BY <1>6, <2>2, <2>9, <2>10, <2>11 DEF e
<1>7. CASE ~fixed.error /\ ~(local /\ ~AllowedBy(fixed.st.doc, u))
  <2>1. e = Ended(kept, ran, Some(u)) /\ fixed.applied
    BY <1>3, <1>7
  <2>2. e.ctx = kept /\ e.how = ran /\ e.update = Some(u) /\ e = Ended(e.ctx, e.how, e.update)
    BY <2>1, EndedView
  <2>3. IsUpdate(st, u, left.state)
    BY <1>1, <1>2, <2>1
  <2>4. u.origin = IF local THEN "Local" ELSE "History"
    BY <2>1 DEF u
  <2>5. u.origin \in {"Local", "History", "Remote"}
    BY <2>4
  <2>6. /\ IsCtx(kept) /\ kept.state = left.state /\ kept.rule = left.rule
        /\ u.origin = "History" => kept = left
        /\ /\ u.origin = "Local" /\ was = Content(st.doc)
           /\ Chain(left.done, st.doc) /\ Chain(left.undone, st.doc)
           => Remembers(kept)
    BY <1>4, <2>3, <2>5, RecordView DEF kept
  <2>7. e.update # None /\ e.update[1] = u
    BY <2>2 DEF Some, None
  <2>8. IsEnded(c, st, e)
    BY <1>1, <1>2, <2>1, <2>2, <2>3, <2>6, <2>7 DEF IsEnded, ran
  <2>9. CASE local
    BY <2>2, <2>4, <2>9, <1>1, <2>6, <2>8 DEF ran, Keeps, e
  <2>10. CASE ~local
    BY <2>2, <2>4, <2>6, <2>10, <2>1, <2>8 DEF ran, e, left
  <2> QED
    BY <2>9, <2>10
<1> QED
  BY <1>5, <1>6, <1>7

\* The path of every update of the user's, and of undoing and redoing.
LEMMA FinishView ==
    ASSUME NEW c, IsCtx(c), NEW r, Carried(c.state, r), NEW local \in BOOLEAN,
           r.applied => r.update.origin = IF local THEN "Local" ELSE "History",
           NEW soon, NEW was
    PROVE  LET e == Finish(c, r, soon, was)
           IN  /\ IsEnded(c, c.state, e)
               /\ local => Keeps(c, c.state, e, was)
               /\ ~local /\ e.how # "error" => /\ e.ctx.done = c.done /\ e.ctx.undone = c.undone
                                               /\ e.ctx.state = r.st
               /\ r.error => e.how = "error"
<1> DEFINE e == Finish(c, r, soon, was)
           kept == [c EXCEPT !.state = r.st, !.rule = None]
           left == [c EXCEPT !.state = r.st]
           fixed == IF local THEN Folded(r) ELSE r
<1>1. /\ IsA(c, CtxFields) /\ IsState(c.state) /\ AreEntries(c.done) /\ AreEntries(c.undone) /\ IsTrace(c.rule)
      /\ IsOutcome(r) /\ IsState(r.st) /\ Follows(c.state.doc, r.st.doc)
  BY DEF IsCtx, Carried
<1>2. /\ IsA(left, CtxFields) /\ left.state = r.st /\ left.done = c.done /\ left.undone = c.undone
      /\ left.group = c.group /\ left.rule = c.rule
  <2>1. CtxIs(left, r.st, c.done, c.undone, c.group, c.rule)
    BY <1>1, CtxWith
  <2> HIDE DEF left
  <2> QED
    BY <2>1 DEF CtxIs
<1>3. /\ IsA(kept, CtxFields) /\ kept.state = r.st /\ kept.done = c.done /\ kept.undone = c.undone
      /\ kept.group = c.group /\ kept.rule = None
  <2>1. kept = [left EXCEPT !.rule = None]
    OBVIOUS
  <2> HIDE DEF left
  <2>2. CtxIs(kept, left.state, left.done, left.undone, left.group, None)
    BY <1>2, <2>1, CtxWith
  <2> HIDE DEF kept
  <2> QED
    BY <1>2, <2>2 DEF CtxIs
<1>4. e = IF r.error THEN Ended(left, "error", None)
          ELSE IF ~r.applied THEN Ended(kept, "none", None)
          ELSE Take(kept, IF r.update.origin = "Local" THEN Folded(r) ELSE r, r.update.origin = "Local", soon, was)
  BY DEF Finish
<1> HIDE DEF e, kept, left
<1>5. IsTrace(None) /\ IsTrace(kept.rule)
  BY <1>3 DEF IsTrace
<1>6. CASE r.error
  BY <1>4, <1>6, EndedView, <1>1, <1>2 DEF IsCtx, IsEnded, Keeps, e
<1>7. CASE ~r.error /\ ~r.applied
  BY <1>4, <1>7, EndedView, <1>1, <1>3, <1>5, ChainOf DEF IsCtx, Carried, IsEnded, SameState, Keeps,
     Remembers, e
<1>8. CASE ~r.error /\ r.applied
  <2>1. local <=> r.update.origin = "Local"
    BY <1>8
  <2>2. e = Take(kept, fixed, local, soon, was)
    <3> DEFINE own == r.update.origin = "Local"
    <3>1. own = local
      BY <2>1
    <3>2. e = Take(kept, IF own THEN Folded(r) ELSE r, own, soon, was)
      BY <1>4, <1>8
    <3> HIDE DEF own
    <3> QED
      BY <3>1, <3>2
  <2>3. /\ Carried(c.state, fixed) /\ (fixed.error \/ fixed.applied)
        /\ fixed.applied => fixed.update.origin = IF local THEN "Local" ELSE "History"
        /\ ~local => fixed = r
    BY <1>8, FoldedCarries
  <2> HIDE DEF fixed
  <2>4. /\ IsEnded(kept, c.state, e) /\ e.how # "none"
        /\ local => Keeps(kept, c.state, e, was) /\ e.how # "reverted"
        /\ ~local => e.how \in {"error", "reverted"}
        /\ e.how = "reverted" => e.ctx = [kept EXCEPT !.state = fixed.st] /\ fixed.applied
    BY <1>1, <1>3, <1>5, <2>2, <2>3, TakeView
  <2>5. IsEnded(c, c.state, e) /\ (local => Keeps(c, c.state, e, was))
    BY <1>3, <2>4 DEF IsEnded, Keeps
  <2>6. ~local /\ e.how # "error" => /\ e.ctx.done = c.done /\ e.ctx.undone = c.undone /\ e.ctx.state = r.st
    <3> DEFINE x == [kept EXCEPT !.state = fixed.st]
    <3>1. x.state = fixed.st /\ x.done = kept.done /\ x.undone = kept.undone
      <4>1. CtxIs(x, fixed.st, kept.done, kept.undone, kept.group, kept.rule)
        BY <1>3, CtxWith
      <4> HIDE DEF x
      <4> QED
        BY <4>1 DEF CtxIs
    <3>2. ~local /\ e.how # "error" => e.ctx = x
      BY <2>4
    <3> HIDE DEF x
    <3> QED
      BY <1>3, <2>3, <3>1, <3>2
  <2> QED
    BY <1>8, <2>5, <2>6 DEF e
<1> QED
  BY <1>1, <1>6, <1>7, <1>8 DEF IsOutcome

-----------------------------------------------------------------------------
(***************************************************************************)
(* Key bindings and chains.                                                *)
(***************************************************************************)

\* What a registered command keeps to: one transaction of the user's.
Transacts(st, r) == Carried(st, r) /\ (r.applied => r.update.origin = "Local")

\* A run of commands that may have come to a halt half way.
Trails(st, r) ==
    /\ IsOutcome(r) /\ IsState(r.st) /\ Follows(st.doc, r.st.doc)
    /\ r.applied => IsUpdate(st, r.update, r.st) /\ r.update.origin = "Local"

\* The commands cmds of a binding or a chain all keep to it.
Honest(cmds) ==
    /\ cmds \in Seq(ToSet(cmds))
    /\ \A i \in 1 .. Len(cmds) : \A c : IsCtx(c) => Transacts(c.state, Command(c, cmds[i]))

RunningFrom(c) == NotApplied(c.state)
RunningNext(c, cmds, all, at, n) == RunNext(c, at, cmds[n], n = 1, all)
RunningBody(c, cmds, all, f) ==
    [n \in 0 .. Len(cmds) |-> IF n = 0 THEN RunningFrom(c) ELSE RunningNext(c, cmds, all, f[n - 1], n)]
RunningAt(c, cmds, all) == CHOOSE f : f = RunningBody(c, cmds, all, f)

\* Command after command.
LEMMA RunningUnfolds ==
    ASSUME NEW c, NEW cmds, NEW all, Len(cmds) \in Nat
    PROVE  /\ RunCommands(c, cmds, all) = RunningAt(c, cmds, all)[Len(cmds)]
           /\ RunningAt(c, cmds, all)[0] = RunningFrom(c)
           /\ \A n \in 0 .. Len(cmds) - 1 :
                 RunningAt(c, cmds, all)[n + 1] = RunningNext(c, cmds, all, RunningAt(c, cmds, all)[n], n + 1)
<1> DEFINE len == Len(cmds)
           Upto(m, f) == [n \in 0 .. m |-> IF n = 0 THEN RunningFrom(c) ELSE RunningNext(c, cmds, all, f[n - 1], n)]
           Found == {m \in Nat : \E f : f = Upto(m, f)}
<1>1. 0 \in Found
  <2> DEFINE f == [n \in 0 .. 0 |-> RunningFrom(c)]
  <2>1. f = Upto(0, f)
    OBVIOUS
  <2> HIDE DEF f, Upto
  <2> QED
    BY <2>1
<1>2. ASSUME NEW m \in Nat, m \in Found PROVE m + 1 \in Found
  <2>1. PICK f : f = Upto(m, f)
    BY <1>2
  <2> DEFINE g == [n \in 0 .. m + 1 |-> IF n = m + 1 THEN RunningNext(c, cmds, all, f[m], n) ELSE f[n]]
  <2>2. ASSUME NEW n \in 0 .. m + 1
        PROVE  g[n] = IF n = 0 THEN RunningFrom(c) ELSE RunningNext(c, cmds, all, g[n - 1], n)
    <3>1. CASE n = m + 1
      <4>1. n # 0 /\ n - 1 = m /\ m \in 0 .. m + 1 /\ m # m + 1
        BY <3>1
      <4>2. g[m] = f[m]
        BY <4>1
      <4>3. g[n] = RunningNext(c, cmds, all, f[m], n)
        BY <3>1
      <4> HIDE DEF g
      <4> QED
        BY <4>1, <4>2, <4>3
    <3>2. CASE n # m + 1
      <4>1. n \in 0 .. m
        BY <3>2
      <4>2. g[n] = f[n]
        BY <3>2
      <4>3. f[n] = IF n = 0 THEN RunningFrom(c) ELSE RunningNext(c, cmds, all, f[n - 1], n)
        <5>1. Upto(m, f)[n] = IF n = 0 THEN RunningFrom(c) ELSE RunningNext(c, cmds, all, f[n - 1], n)
          BY <4>1
        <5> HIDE DEF Upto
        <5> QED
          BY <2>1, <5>1, Zenon
      <4>4. n # 0 => g[n - 1] = f[n - 1]
        BY <4>1
      <4> HIDE DEF g
      <4> QED
        BY <4>2, <4>3, <4>4
    <3> QED
      BY <3>1, <3>2
  <2>3. g = Upto(m + 1, g)
    <3>1. g = [n \in 0 .. m + 1 |-> g[n]]
      OBVIOUS
    <3>2. Upto(m + 1, g) = [n \in 0 .. m + 1 |-> IF n = 0 THEN RunningFrom(c) ELSE RunningNext(c, cmds, all, g[n - 1], n)]
      OBVIOUS
    <3> HIDE DEF g, Upto
    <3> QED
      BY <2>2, <3>1, <3>2
  <2> HIDE DEF g, Upto
  <2> QED
    BY <2>3
<1>3. len \in Found
  <2> HIDE DEF Found
  <2> QED
    BY <1>1, <1>2, NaturalSet
<1>4. \E f : f = RunningBody(c, cmds, all, f)
  <2>1. \E f : f = Upto(len, f)
    <3> HIDE DEF Upto
    <3> QED
      BY <1>3
  <2>2. \A f : Upto(len, f) = RunningBody(c, cmds, all, f)
    BY DEF RunningBody
  <2> HIDE DEF Upto
  <2> QED
    BY <2>1, <2>2
<1>5. RunningAt(c, cmds, all) = RunningBody(c, cmds, all, RunningAt(c, cmds, all))
  BY <1>4 DEF RunningAt
<1>6. \A n \in 0 .. len : RunningAt(c, cmds, all)[n] =
         IF n = 0 THEN RunningFrom(c) ELSE RunningNext(c, cmds, all, RunningAt(c, cmds, all)[n - 1], n)
  <2> DEFINE f == RunningAt(c, cmds, all)
  <2> HIDE DEF f
  <2>1. f = RunningBody(c, cmds, all, f)
    BY <1>5 DEF f
  <2>2. \A n \in 0 .. len : RunningBody(c, cmds, all, f)[n] = IF n = 0 THEN RunningFrom(c) ELSE RunningNext(c, cmds, all, f[n - 1], n)
    BY DEF RunningBody
  <2> QED
    BY <2>1, <2>2, Zenon DEF f
<1>7. RunCommands(c, cmds, all) = RunningAt(c, cmds, all)[Len(cmds)]
  BY DEF RunCommands, RunningAt, RunningBody, RunningNext, RunningFrom
<1>8. RunningAt(c, cmds, all)[0] = RunningFrom(c)
  BY <1>6
<1> HIDE DEF Upto, Found
<1>9. ASSUME NEW n \in 0 .. len - 1
      PROVE  RunningAt(c, cmds, all)[n + 1] = RunningNext(c, cmds, all, RunningAt(c, cmds, all)[n], n + 1)
  BY <1>6
<1> QED
  BY <1>7, <1>8, <1>9
\* One command more.
LEMMA NextTrails ==
    ASSUME NEW c, IsCtx(c), NEW r, Trails(c.state, r), NEW all \in BOOLEAN, ~all => Carried(c.state, r),
           NEW cmd, \A x : IsCtx(x) => Transacts(x.state, Command(x, cmd)),
           NEW first \in BOOLEAN, first => r = NotApplied(c.state)
    PROVE  LET n == RunNext(c, r, cmd, first, all)
           IN  Trails(c.state, n) /\ (~all => Carried(c.state, n))
<1> DEFINE n == RunNext(c, r, cmd, first, all)
           st == c.state
           left == [c EXCEPT !.state = r.st]
           x == [c EXCEPT !.state = r.st, !.rule = IF all THEN None ELSE @]
           next == Command(x, cmd)
           both == [next EXCEPT !.update = Then(r.update, @)]
<1>1. n = IF r.error \/ (~first /\ r.applied # all) THEN r
          ELSE IF all /\ r.applied /\ next.applied THEN both ELSE next
  BY DEF RunNext
<1>2. IsCtx(x) /\ x.state = r.st
  <2>1. IsA(c, CtxFields) /\ AreEntries(c.done) /\ AreEntries(c.undone) /\ IsTrace(c.rule) /\ IsState(r.st)
    BY DEF IsCtx, Trails
  <2> DEFINE trace == IF all THEN None ELSE c.rule
  <2>2. CtxIs(left, r.st, c.done, c.undone, c.group, c.rule)
    BY <2>1, CtxWith
  <2>3. x = [left EXCEPT !.rule = trace]
    OBVIOUS
  <2>4. IsTrace(trace)
    BY <2>1 DEF IsTrace
  <2> HIDE DEF left, trace
  <2>5. CtxIs(x, left.state, left.done, left.undone, left.group, trace)
    <3>1. IsA(left, CtxFields)
      BY <2>2 DEF CtxIs
    <3> QED
      BY <2>3, <3>1, CtxWith
  <2> HIDE DEF x
  <2> QED
    BY <2>1, <2>2, <2>4, <2>5 DEF CtxIs, IsCtx
<1> HIDE DEF x, n
<1>3. Carried(r.st, next) /\ (next.applied => next.update.origin = "Local")
  BY <1>2 DEF Transacts
<1> HIDE DEF next
<1>4. IsOutcome(r) /\ IsOutcome(next)
  BY <1>3 DEF Trails, Carried
<1>5. CASE r.error \/ (~first /\ r.applied # all)
  BY <1>1, <1>5 DEF n
<1>6. CASE ~r.error /\ r.applied
  <2>1. Carried(st, r) /\ ~first
    BY <1>6, NotAppliedView DEF Trails, Carried
  <2>2. /\ Follows(st.doc, next.st.doc)
        /\ r.applied /\ next.applied => AreJoined(st, r, next)
    BY <1>3, <2>1, CarriedThen
  <2>3. CASE ~all
    BY <1>1, <1>6, <2>1, <2>3 DEF n
  <2>4. CASE all /\ next.applied
    <3>1. n = both
      BY <1>1, <1>6, <2>4, <1>4 DEF IsOutcome
    <3>2. Carried(st, both) /\ both.applied /\ both.update = Then(r.update, next.update)
      BY <1>6, <2>2, <2>4 DEF AreJoined
    <3>3. IsA(r.update, UpdateFields) /\ r.update.origin = "Local"
      BY <1>6 DEF Trails, IsUpdate
    <3>4. Then(r.update, next.update).origin = "Local"
      BY <3>3, ThenView
    <3> HIDE DEF both
    <3>5. Trails(st, both)
      BY <3>2, <3>4 DEF Carried, Trails
    <3> QED
      BY <2>4, <3>1, <3>5 DEF n
  <2>5. CASE all /\ ~next.applied
    BY <1>1, <1>6, <2>5, <1>4, <1>3, <2>2 DEF IsOutcome, Carried, Trails, n
  <2> QED
    BY <2>3, <2>4, <2>5
<1>7. CASE ~r.error /\ ~r.applied /\ ~(~first /\ r.applied # all)
  <2>1. n = next
    BY <1>1, <1>7
  <2>2. Carried(st, r)
    <3>1. CASE ~all
      BY <3>1
    <3>2. CASE all
      <4>1. first
        BY <1>4, <1>7, <3>2 DEF IsOutcome
      <4>2. r = NotApplied(st)
        BY <4>1
      <4>3. r.st = st /\ IsState(st)
        BY <4>2, NotAppliedView DEF IsCtx
      <4>4. SameState(st, st)
        BY <4>3, TwinsAreEqual DEF SameState, IsState, IsDocument
      <4> QED
        BY <1>7, <4>3, <4>4 DEF Trails, Carried
    <3> QED
      BY <3>1, <3>2
  <2>3. Carried(st, next)
    BY <1>3, <1>7, <2>2, CarriedThen
  <2>4. Trails(st, next)
    BY <1>3, <2>3 DEF Carried, Trails
  <2> QED
    BY <2>1, <2>3, <2>4 DEF n
<1> QED
  BY <1>5, <1>6, <1>7

\* The commands of a binding until one applies, or those of a chain.
LEMMA CommandsTrail ==
    ASSUME NEW c, IsCtx(c), NEW cmds, Honest(cmds), NEW all \in BOOLEAN
    PROVE  LET r == RunCommands(c, cmds, all)
           IN  Trails(c.state, r) /\ (~all => Carried(c.state, r))
<1> DEFINE k == Len(cmds)
           At(n) == RunningAt(c, cmds, all)[n]
           G == {n \in Nat : n <= k => /\ Trails(c.state, At(n)) /\ (~all => Carried(c.state, At(n)))
                                       /\ (n = 0 => At(n) = NotApplied(c.state))}
<1>1. k \in Nat /\ \A i \in 1 .. k : \A x : IsCtx(x) => Transacts(x.state, Command(x, cmds[i]))
  BY LenProperties DEF Honest
<1>2. /\ RunCommands(c, cmds, all) = At(k)
      /\ At(0) = NotApplied(c.state)
      /\ \A n \in 0 .. k - 1 : At(n + 1) = RunNext(c, At(n), cmds[n + 1], n + 1 = 1, all)
  <2>1. /\ RunCommands(c, cmds, all) = At(k)
        /\ At(0) = RunningFrom(c)
        /\ \A n \in 0 .. k - 1 : At(n + 1) = RunningNext(c, cmds, all, At(n), n + 1)
    BY <1>1, RunningUnfolds
  <2> HIDE DEF At
  <2> QED
    BY <2>1 DEF RunningFrom, RunningNext
<1> HIDE DEF At, k
<1>3. 0 \in G
  <2> DEFINE none == NotApplied(c.state)
  <2>1. IsOutcome(none) /\ none.applied = FALSE /\ none.error = FALSE /\ none.st = c.state
    BY NotAppliedView
  <2>2. IsState(c.state) /\ SameState(c.state, c.state)
    BY TwinsAreEqual DEF SameState, IsCtx, IsState, IsDocument
  <2> HIDE DEF none
  <2>3. Carried(c.state, none) /\ Trails(c.state, none)
    BY <2>1, <2>2, FollowsView DEF Carried, Trails
  <2> QED
    BY <1>2, <2>3 DEF none
<1>4. ASSUME NEW n \in Nat, n \in G PROVE n + 1 \in G
  <2> SUFFICES ASSUME n + 1 <= k
               PROVE  Trails(c.state, At(n + 1)) /\ (~all => Carried(c.state, At(n + 1)))
    OBVIOUS
  <2> DEFINE first == n + 1 = 1
             cmd == cmds[n + 1]
             r == At(n)
  <2>1. n \in 0 .. k - 1 /\ n + 1 \in 1 .. k /\ n <= k
    BY <1>1
  <2>2. Trails(c.state, r) /\ (~all => Carried(c.state, r)) /\ (first => r = NotApplied(c.state))
    BY <1>4, <2>1
  <2>3. \A x : IsCtx(x) => Transacts(x.state, Command(x, cmd))
    BY <1>1, <2>1
  <2>4. At(n + 1) = RunNext(c, r, cmd, first, all) /\ first \in BOOLEAN
    BY <1>2, <2>1
  <2> HIDE DEF first, cmd, r
  <2> QED
    BY <2>2, <2>3, <2>4, NextTrails
<1>5. Nat \subseteq G
  <2> HIDE DEF G
  <2> QED
    BY <1>3, <1>4, NaturalSet
<1> QED
  BY <1>1, <1>2, <1>5

\* A chain is one update or none: what was run of it before a command failed
\* or did not apply is taken back to the letter.
LEMMA AtomicCarries ==
    ASSUME NEW st, IsState(st), st.doc.saves = <<>>, NEW r, Trails(Opened(st), r)
    PROVE  Transacts(st, Atomic(st, r))
<1> DEFINE d == st.doc
           open == Opened(st)
           e == r.st.doc
<1>1. IsDocument(d) /\ d.saves \in Seq(ToSet(d.saves)) /\ Len(d.saves) + 1 = 1
  BY EmptySeq DEF IsState
<1>2. IsDocument(Savepoint(d)) /\ Twins(d, Savepoint(d)) /\ Logged(d, Savepoint(d))
  BY <1>1, SavepointOpened
<1>3. open.doc = Savepoint(d) /\ SameState(st, open)
  <2>1. open = [st EXCEPT !.doc = Savepoint(d)]
    BY DEF Opened
  <2> DEFINE saved == Savepoint(d)
  <2> HIDE DEF saved
  <2>2. LET x == [st EXCEPT !.doc = saved] IN x.doc = saved /\ SameState(st, x)
    BY <1>2, StateOnTwin DEF saved
  <2> QED
    BY <2>1, <2>2 DEF saved
<1> HIDE DEF open
<1>4. IsOutcome(r) /\ IsState(r.st) /\ Follows(Savepoint(d), e)
      /\ (r.applied => IsUpdate(open, r.update, r.st) /\ r.update.origin = "Local")
  BY <1>3 DEF Trails, open
<1>5. Logged(d, e)
  BY <1>2, <1>4 DEF Follows
<1>6. CASE ~r.applied
  <2> DEFINE back == TakenBack(st, r.st)
             a == [r EXCEPT !.st = back]
             fields == {"applied", "error", "st"}
  <2>1. RollbackTo(e, Len(d.saves) + 1) = d
    BY <1>5, RollbackIsExact
  <2>2. back = st
    BY <2>1 DEF TakenBack, IsState, IsA
  <2>3. Atomic(st, r) = a
    BY <1>6 DEF Atomic
  <2> HIDE DEF back
  <2>4. r = [f \in fields |-> r[f]] /\ r.applied = FALSE /\ r.error \in BOOLEAN
    BY <1>4, <1>6 DEF IsOutcome, IsA
  <2>5. a = [f \in fields |-> a[f]] /\ a.applied = FALSE /\ a.error = r.error /\ a.st = st
    BY <2>2, <2>4
  <2> HIDE DEF a
  <2>6. IsOutcome(a)
    BY <2>4, <2>5 DEF IsOutcome, IsA
  <2>7. SameState(st, st)
    BY <1>1, TwinsAreEqual DEF SameState, IsDocument
  <2> QED
    BY <2>3, <2>5, <2>6, <2>7, FollowsView DEF Carried, Transacts
<1>7. CASE r.applied
  <2> DEFINE shut == Release(e, Len(d.saves) + 1)
             a == [r EXCEPT !.st.doc = Release(@, Len(st.doc.saves) + 1)]
             s == [r.st EXCEPT !.doc = shut]
             fields == {"applied", "error", "update", "st"}
  <2>1. Atomic(st, r) = a
    BY <1>7 DEF Atomic
  <2>2. e = [f \in {"nodes", "root", "next", "version", "saves"} |-> e[f]] /\ WellFormed(e) /\ Ids(e)
    BY <1>4 DEF IsState, IsDocument, WellFormed, Shaped, IsA, Ids
  <2>3. shut = [e EXCEPT !.saves = <<>>]
    BY <1>1 DEF Release
  <2>4. /\ shut = [f \in {"nodes", "root", "next", "version", "saves"} |-> shut[f]]
        /\ shut.nodes = e.nodes /\ shut.root = e.root /\ shut.next = e.next /\ shut.saves = <<>>
    <3> HIDE DEF shut, e
    <3> QED
      BY <2>2, <2>3
  <2> HIDE DEF shut
  <2>5. Twins(e, shut)
    BY <2>2, <2>4, TwinsButCounters
  <2>6. IsDocument(shut)
    BY <2>2, <2>4, <2>5 DEF IsDocument, Twins, Ids, Blocks
  <2>7. IsState(s) /\ s.doc = shut /\ SameState(r.st, s)
    BY <1>4, <2>5, <2>6, StateOnTwin
  <2> HIDE DEF s
  <2>8. r = [f \in fields |-> r[f]] /\ r.applied = TRUE /\ r.error = FALSE
    BY <1>4, <1>7 DEF IsOutcome, IsA
  <2>9. a = [r EXCEPT !.st = s]
    BY DEF s, shut
  <2> HIDE DEF a
  <2>10. /\ a = [f \in fields |-> a[f]] /\ a.applied = TRUE /\ a.error = FALSE /\ a.st = s
         /\ a.update = r.update
    BY <2>8, <2>9
  <2>11. IsOutcome(a)
    BY <2>10 DEF IsOutcome, IsA
  <2>12. IsUpdate(st, r.update, s)
    BY <1>3, <1>4, <1>7, <2>7, UpdatesCompose
  <2>13. Follows(d, shut)
    <3>1. \A base : ~Logged(base, d)
      <4> SUFFICES ASSUME NEW base, Logged(base, d) PROVE FALSE
        OBVIOUS
      <4>1. PICK revs, inverses : d.saves = Append(base.saves, LogOf(base, revs, inverses))
        BY DEF Logged
      <4>2. base.saves \in Seq(ToSet(base.saves))
        BY DEF Logged
      <4> QED
        BY <4>1, <4>2, LastReplaced
    <3> QED
      BY <2>4, <3>1 DEF Follows
  <2> QED
    BY <1>4, <1>7, <2>1, <2>7, <2>10, <2>11, <2>12, <2>13 DEF Carried, Transacts
<1> QED
  BY <1>4, <1>6, <1>7 DEF IsOutcome

\* A key pressed, or a chain run.
LEMMA KeysTransact ==
    ASSUME NEW c, IsCtx(c), c.state.doc.saves = <<>>, NEW call, Honest(call.cmds)
    PROVE  Transacts(c.state, RunKeyOrChain(c, call))
<1> DEFINE chain == call.do = "chain"
           st == c.state
           open == [c EXCEPT !.state = Opened(@)]
<1>1. CASE chain
  <2> DEFINE r == RunCommands(open, call.cmds, TRUE)
  <2>1. RunKeyOrChain(c, call) = Atomic(st, r)
    BY <1>1 DEF RunKeyOrChain
  <2>2. IsCtx(open) /\ open.state = Opened(st)
    <3> DEFINE x == Opened(st)
    <3>1. IsState(x)
      <4>1. IsDocument(st.doc) /\ st.doc.saves \in Seq(ToSet(st.doc.saves))
        BY EmptySeq DEF IsCtx, IsState
      <4>2. Twins(st.doc, Savepoint(st.doc)) /\ IsDocument(Savepoint(st.doc))
        BY <4>1, SavepointOpened
      <4> DEFINE saved == Savepoint(st.doc)
      <4>3. x = [st EXCEPT !.doc = saved]
        BY DEF Opened
      <4> HIDE DEF saved, x
      <4> QED
        BY <4>2, <4>3, StateOnTwin DEF IsCtx, saved
    <3>2. open = [c EXCEPT !.state = x]
      OBVIOUS
    <3> HIDE DEF x
    <3>3. CtxIs(open, x, c.done, c.undone, c.group, c.rule)
      BY <3>2, CtxWith DEF IsCtx
    <3> HIDE DEF open
    <3> QED
      BY <3>1, <3>3 DEF CtxIs, IsCtx, x
  <2> HIDE DEF open
  <2>3. Trails(Opened(st), r)
    BY <2>2, CommandsTrail
  <2> HIDE DEF r
  <2> QED
    BY <2>1, <2>3, AtomicCarries DEF IsCtx
<1>2. CASE ~chain
  <2> DEFINE same == [c EXCEPT !.state = IF chain THEN Opened(@) ELSE @]
             r == RunCommands(c, call.cmds, FALSE)
  <2>1. same = c
    BY <1>2 DEF IsCtx, IsA, CtxFields
  <2>2. RunKeyOrChain(c, call) = RunCommands(same, call.cmds, chain)
    BY <1>2 DEF RunKeyOrChain
  <2>3. chain = FALSE
    BY <1>2
  <2> HIDE DEF same, chain
  <2>4. RunKeyOrChain(c, call) = r
    BY <2>1, <2>2, <2>3
  <2>5. Trails(st, r) /\ Carried(st, r)
    BY CommandsTrail
  <2> HIDE DEF r
  <2> QED
    BY <2>4, <2>5 DEF Transacts, Trails
<1> QED
  BY <1>1, <1>2

-----------------------------------------------------------------------------
(***************************************************************************)
(* The plans of what is typed and deleted.                                 *)
(***************************************************************************)

\* Typed text.
LEMMA PlainView ==
    ASSUME NEW chars, IsChars(chars), NEW marks
    PROVE  IsContent(Plain(chars, marks)) /\ Len(Plain(chars, marks)) = Len(chars) /\ Len(chars) \in Nat
<1> DEFINE q == Plain(chars, marks)
           n == Len(chars)
           T == {[ch |-> c, marks |-> marks] : c \in ToSet(chars)}
<1>1. chars \in Seq(ToSet(chars)) /\ n \in Nat /\ DOMAIN chars = 1 .. n
  BY LenProperties DEF IsChars
<1>2. q = [i \in 1 .. n |-> [ch |-> chars[i], marks |-> marks]]
  BY <1>1 DEF Plain
<1>3. \A i \in 1 .. n : q[i] \in T
  <2> TAKE i \in 1 .. n
  <2>1. q[i] = [ch |-> chars[i], marks |-> marks] /\ chars[i] \in ToSet(chars)
    BY <1>1, <1>2, MemberOf
  <2> QED
    BY <2>1
<1>4. \A x \in T : IsA(x, {"ch", "marks"})
  BY DEF IsA
<1> HIDE DEF q, T
<1>5. q \in Seq(T) /\ Len(q) = n
  <2>1. q = [i \in 1 .. n |-> q[i]]
    BY <1>2
  <2>2. n \in Nat
    BY <1>1
  <2> HIDE DEF n
  <2>3. q \in [1 .. n -> T]
    BY <1>3, <2>1
  <2> QED
    BY <2>2, <2>3, IsASeq, LenProperties
<1>6. q \in Seq(ToSet(q)) /\ ToSet(q) \subseteq T
  BY <1>5, MemberOf
<1> QED
  BY <1>1, <1>4, <1>5, <1>6 DEF IsContent, q

\* The ends of a text selection, in order.
LEMMA RangeView ==
    ASSUME NEW d, NEW s, IsSelection(s), s.sel = "text"
    PROVE  LET r == TextRange(d, s)
           IN  /\ PointOk(s.anchor) /\ PointOk(s.head) /\ PointOk(r.from) /\ PointOk(r.to)
               /\ r.from = s.anchor \/ r.from = s.head
               /\ r.to = s.anchor \/ r.to = s.head
<1>1. PointOk(s.anchor) /\ PointOk(s.head)
  BY SelectionView DEF BlockSelection
<1> QED
  BY <1>1 DEF TextRange

\* The steps commands build.
LEMMA StepsAre ==
    /\ \A b : \A o \in Nat : \A text : IsContent(text) => IsTyped(InsertInlineStep(b, o, text))
    /\ \A b : \A from, to \in Nat : IsTyped(RemoveInlineStep(b, from, to))
    /\ \A b : \A from, to \in Nat : \A m : IsTyped(AddMarkStep(b, from, to, m)) /\ IsTyped(RemoveMarkStep(b, from, to, m))
    /\ \A b, kind, attr : IsTyped(SetBlockStep(b, kind, attr))
    /\ \A b : \A o \in Nat : \A new \in Nat \ {0} : \A kind, attr : IsTyped(SplitStep(b, o, new, kind, attr))
    /\ \A p : \A index, count \in Nat : IsTyped(RemoveBlocksStep(p, index, count))
    /\ \A p, to : \A index, count, at \in Nat : IsTyped(MoveBlocksStep(p, index, count, to, at))
<1>1. \A b : \A o \in Nat : \A text : IsContent(text) => IsTyped(InsertInlineStep(b, o, text))
  BY DEF IsTyped, IsStep, InsertInlineStep
<1>2. \A b : \A from, to \in Nat : IsTyped(RemoveInlineStep(b, from, to))
  BY DEF IsTyped, IsStep, RemoveInlineStep
<1>3. \A b : \A from, to \in Nat : \A m : IsTyped(AddMarkStep(b, from, to, m)) /\ IsTyped(RemoveMarkStep(b, from, to, m))
  BY DEF IsTyped, IsStep, AddMarkStep, RemoveMarkStep
<1>4. \A b, kind, attr : IsTyped(SetBlockStep(b, kind, attr))
  BY DEF IsTyped, IsStep, SetBlockStep
<1>5. \A b : \A o \in Nat : \A new \in Nat \ {0} : \A kind, attr : IsTyped(SplitStep(b, o, new, kind, attr))
  BY DEF IsTyped, IsStep, SplitStep, Root
<1>6. \A p : \A index, count \in Nat : IsTyped(RemoveBlocksStep(p, index, count))
  BY DEF IsTyped, IsStep, RemoveBlocksStep
<1>7. \A p, to : \A index, count, at \in Nat : IsTyped(MoveBlocksStep(p, index, count, to, at))
  BY DEF IsTyped, IsStep, MoveBlocksStep
<1> QED
  BY <1>1, <1>2, <1>3, <1>4, <1>5, <1>6, <1>7

\* Steps, and the edits a script names, are instructions.
LEMMA InstructionsAre ==
    /\ \A s : IsTyped(s) => IsInstruction(s)
    /\ \A b : IsInstruction(RemoveBlock(b)) /\ IsInstruction(PruneEmpty(b))
    /\ \A a, b : IsInstruction(MoveAll(a, b)) /\ IsInstruction(AdoptChildren(a, b)) /\ IsInstruction(MergeText(a, b))
    /\ IsInstruction(EnsureBlock)
BY DEF IsInstruction, Edits, RemoveBlock, PruneEmpty, MoveAll, AdoptChildren, MergeText, EnsureBlock

\* Scripts of two and of three instructions.
LEMMA ShortScripts ==
    /\ \A r, s : IsInstruction(r) /\ IsInstruction(s) => IsScript(<<r, s>>)
    /\ \A r, s, t : IsInstruction(r) /\ IsInstruction(s) /\ IsInstruction(t) => IsScript(<<r, s, t>>)
<1>1. ASSUME NEW r, NEW s, IsInstruction(r), IsInstruction(s) PROVE IsScript(<<r, s>>)
  BY <1>1, ScriptOf
<1>2. ASSUME NEW r, NEW s, NEW t, IsInstruction(r), IsInstruction(s), IsInstruction(t) PROVE IsScript(<<r, s, t>>)
  <2>1. <<r, s, t>> = Append(<<r, s>>, t)
    OBVIOUS
  <2> QED
    BY <1>1, <1>2, <2>1, ScriptOf
<1> QED
  BY <1>1, <1>2

\* Deleting what lies between two points.
LEMMA DeletionScript ==
    ASSUME NEW d, WellFormed(d), NEW from, PointOk(from), NEW to, PointOk(to)
    PROVE  IsScript(DeleteRange(d, from, to))
<1> DEFINE covered == Reverse(CoveredSubtrees(d, from.block, to.block))
           gone == [i \in DOMAIN covered |-> RemoveBlock(covered[i])]
           first == <<RemoveInlineStep(to.block, 0, to.offset),
                      RemoveInlineStep(from.block, from.offset, TextLen(d, from.block))>>
           merged == Merging(d, from.block, to.block)
<1>1. from.offset \in Nat /\ to.offset \in Nat /\ TextLen(d, from.block) \in Nat
  BY IndexView DEF PointOk
<1>2. IsScript(first)
  BY <1>1, StepsAre, InstructionsAre, ShortScripts
<1>3. IsScript(merged)
  BY InstructionsAre, ShortScripts DEF Merging
<1>4. IsScript(gone)
  <2>1. DocOrder(d) \in Seq(Blocks(d))
    BY ReadingOrderIsComplete
  <2>2. CoveredSubtrees(d, from.block, to.block) \in Seq(Blocks(d))
    BY <2>1, AmongView DEF CoveredSubtrees
  <2>3. covered \in Seq(Blocks(d))
    BY <2>2, ReverseView
  <2> DEFINE n == Len(covered)
  <2>4. n \in Nat /\ DOMAIN covered = 1 .. n
    BY <2>3, LenProperties
  <2> HIDE DEF covered
  <2>5. gone = [i \in 1 .. n |-> RemoveBlock(covered[i])]
    BY <2>4
  <2> HIDE DEF gone
  <2>6. gone = [i \in 1 .. n |-> gone[i]] /\ \A i \in 1 .. n : IsInstruction(gone[i])
    BY <2>5, InstructionsAre
  <2> HIDE DEF n
  <2> QED
    BY <2>4, <2>6, ScriptOf
<1>5. IsScript(<<RemoveInlineStep(from.block, from.offset, to.offset)>>)
  BY <1>1, StepsAre, InstructionsAre, ScriptOf
<1>6. DeleteRange(d, from, to) =
        IF from = to THEN <<>>
        ELSE IF from.block = to.block THEN <<RemoveInlineStep(from.block, from.offset, to.offset)>>
        ELSE first \o gone \o merged
  BY DEF DeleteRange
<1> HIDE DEF first, gone, merged
<1> QED
  BY <1>2, <1>3, <1>4, <1>5, <1>6, ScriptOf

\* The text type a parent takes by default.
LEMMA DefaultTypeView ==
    ASSUME NEW d, WellFormed(d), NEW p \in Places(d)
    PROVE  LET k == DefaultTextType(d, p)
           IN  k = None \/ (k # None /\ k = Some(k[1]) /\ k[1] \in Kinds /\ ContentOf[k[1]] = "inline")
<1> DEFINE kinds == TextTypesIn(d, p)
           k == DefaultTextType(d, p)
<1>1. DefaultText \in Kinds /\ ContentOf[DefaultText] = "inline"
  BY SchemaAssumption
<1>2. CASE p = Root
  BY <1>1, <1>2 DEF DefaultTextType, Some, None
<1>3. CASE p # Root
  <2>1. p \in Blocks(d) /\ d.nodes[p].kind \in Kinds
    BY <1>3, NotItsOwnParent, KnownKinds DEF Places
  <2>2. AllowedIn[d.nodes[p].kind] \subseteq Kinds
    BY <2>1, SchemaAssumption
  <2>3. \A x \in kinds : x \in Kinds /\ ContentOf[x] = "inline"
    BY <1>3, <2>2 DEF TextTypesIn
  <2> DEFINE x == IF DefaultText \in kinds THEN DefaultText ELSE CHOOSE y \in kinds : TRUE
  <2>4. kinds # {} => x \in kinds
    OBVIOUS
  <2>5. k = IF kinds = {} THEN None ELSE Some(x)
    BY <1>3 DEF DefaultTextType
  <2> HIDE DEF kinds, x, k
  <2>6. Some(x) # None /\ Some(x)[1] = x
    BY DEF Some, None
  <2> QED
    BY <2>3, <2>4, <2>5, <2>6 DEF k
<1> QED
  BY <1>2, <1>3

\* A set of natural numbers has a least one.
LEMMA LeastOf ==
    ASSUME NEW S, S \subseteq Nat, S # {}
    PROVE  Min(S) \in S
<1> DEFINE Least(x) == x \in S /\ \A y \in S : x =< y
           G == {n \in Nat : (\E x \in S : x <= n) => \E x \in S : Least(x)}
<1>1. 0 \in G
  OBVIOUS
<1>2. \A n \in Nat : n \in G => n + 1 \in G
  <2> SUFFICES ASSUME NEW n \in Nat, n \in G, NEW x \in S, x <= n + 1 PROVE \E y \in S : Least(y)
    OBVIOUS
  <2>1. CASE \E y \in S : y <= n
    BY <2>1
  <2>2. CASE ~\E y \in S : y <= n
    BY <2>2
  <2> QED
    BY <2>1, <2>2
<1> HIDE DEF G
<1>3. Nat \subseteq G
  BY <1>1, <1>2, NaturalSet
<1>4. \E x \in S : Least(x)
  <2>1. PICK x \in S : TRUE
    OBVIOUS
  <2>2. x \in G
    BY <1>3
  <2> QED
    BY <2>2 DEF G
<1> QED
  BY <1>4 DEF Min

\* Neighbours below one parent, as commands name them.
IsRange(d, r) ==
    /\ IsA(r, {"parent", "index", "count"})
    /\ r.parent \in Places(d) /\ r.index \in Nat /\ r.count \in Nat \ {0}
    /\ r.index + r.count <= Len(Kids(d, r.parent))
MayRange(d, opt) == opt = None \/ (opt # None /\ opt = Some(opt[1]) /\ IsRange(d, opt[1]))

\* A range between two blocks is none or a run of children of one place.
LEMMA RangeOfSiblings ==
    ASSUME NEW d, WellFormed(d), NEW first, NEW last
    PROVE  MayRange(d, SiblingRange(d, first, last))
<1> DEFINE starts == AncestorsOrSelf(d, first)
           ends == AncestorsOrSelf(d, last)
           beside(b) == {i \in 1 .. Len(starts) : Parent(d, starts[i]) = Parent(d, b)}
           Beside(b) == IF beside(b) # {} THEN Min(beside(b)) ELSE 0
           met == {i \in DOMAIN ends : Beside(ends[i]) # 0}
           end == ends[Min(met)]
           start == starts[Beside(end)]
           r == [parent |-> Parent(d, end), index |-> IndexInParent(d, start) - 1,
                 count |-> IndexInParent(d, end) - IndexInParent(d, start) + 1]
<1>1. starts \in Seq(Blocks(d)) /\ ends \in Seq(Blocks(d))
  BY AncestorsView
<1>2. SiblingRange(d, first, last) =
        IF met = {} THEN None
        ELSE IF IndexInParent(d, start) > IndexInParent(d, end) THEN None ELSE Some(r)
  BY DEF SiblingRange, SelectInSeq
<1>3. \A b : Beside(b) # 0 => Beside(b) \in 1 .. Len(starts) /\ Parent(d, starts[Beside(b)]) = Parent(d, b)
  <2> TAKE b
  <2> HAVE Beside(b) # 0
  <2>1. beside(b) # {} /\ beside(b) \subseteq Nat /\ Beside(b) = Min(beside(b))
    <3> HIDE DEF starts
    <3> QED
      OBVIOUS
  <2> HIDE DEF Beside
  <2>2. Min(beside(b)) \in beside(b)
    <3> HIDE DEF beside
    <3> QED
      BY <2>1, LeastOf
  <2> QED
    BY <2>1, <2>2
<1>4. CASE met # {} /\ ~(IndexInParent(d, start) > IndexInParent(d, end))
  <2>1. Min(met) \in met
    <3>1. DOMAIN ends \subseteq Nat
      BY <1>1, LenProperties
    <3>2. met \subseteq Nat
      BY <3>1
    <3> HIDE DEF met
    <3> QED
      BY <1>4, <3>2, LeastOf
  <2>2. end \in Blocks(d) /\ Beside(end) # 0
    <3>1. Min(met) \in DOMAIN ends /\ Beside(ends[Min(met)]) # 0
      BY <2>1
    <3> HIDE DEF met, Beside
    <3>2. ends[Min(met)] \in Blocks(d)
      BY <1>1, <3>1, LenProperties, ElementOfSeq
    <3> QED
      BY <3>1, <3>2
  <2> HIDE DEF end
  <2>3. start \in Blocks(d) /\ Parent(d, start) = Parent(d, end)
    <3>1. Beside(end) \in 1 .. Len(starts) /\ Parent(d, starts[Beside(end)]) = Parent(d, end)
      BY <1>3, <2>2
    <3> HIDE DEF Beside, starts
    <3> QED
      BY <1>1, <3>1, ElementOfSeq
  <2> HIDE DEF start
  <2>4. /\ Index(d, start) \in Nat /\ Index(d, end) \in Nat /\ Index(d, end) < Len(Kids(d, Parent(d, end)))
        /\ Len(Kids(d, Parent(d, end))) \in Nat /\ Parent(d, end) \in Places(d)
    BY <2>2, <2>3, IndexView, NotItsOwnParent
  <2>5. IndexInParent(d, start) \in Int /\ IndexInParent(d, end) \in Int
    <3>1. \A b \in Blocks(d) : IndexInParent(d, b) \in Int
      <4> TAKE b \in Blocks(d)
      <4>1. Kids(d, Parent(d, b)) \in Seq(Blocks(d)) /\ b \in ToSet(Kids(d, Parent(d, b)))
        BY IndexView, NotItsOwnParent
      <4> DEFINE q == Kids(d, Parent(d, b))
      <4> HIDE DEF q
      <4>2. PlaceIn(q, b) \in 1 .. Len(q) /\ Len(q) \in Nat
        BY <4>1, PlaceThere, LenProperties DEF q
      <4> QED
        BY <4>2 DEF IndexInParent, q
    <3> QED
      BY <2>2, <2>3, <3>1
  <2>6. IsRange(d, r)
    <3>1. Index(d, start) = IndexInParent(d, start) - 1 /\ Index(d, end) = IndexInParent(d, end) - 1
      BY DEF Index
    <3>2. IsA(r, {"parent", "index", "count"}) /\ r.parent = Parent(d, end)
          /\ r.index = Index(d, start) /\ r.count = Index(d, end) - Index(d, start) + 1
      <4>1. IsA(r, {"parent", "index", "count"}) /\ r.parent = Parent(d, end)
            /\ r.index = IndexInParent(d, start) - 1 /\ r.count = IndexInParent(d, end) - IndexInParent(d, start) + 1
        BY DEF IsA
      <4> HIDE DEF r
      <4> QED
        BY <2>5, <3>1, <4>1
    <3>3. Index(d, start) <= Index(d, end)
      BY <1>4, <2>5, <3>1
    <3> HIDE DEF r
    <3> QED
      BY <2>4, <3>2, <3>3 DEF IsRange
  <2> HIDE DEF r
  <2>7. SiblingRange(d, first, last) = Some(r)
    BY <1>2, <1>4
  <2> QED
    BY <2>6, <2>7 DEF MayRange, Some, None
<1>5. CASE ~(met # {} /\ ~(IndexInParent(d, start) > IndexInParent(d, end)))
  <2>1. SiblingRange(d, first, last) = None
    <3> HIDE DEF met, start, end, r
    <3> QED
      BY <1>2, <1>5
  <2> QED
    BY <2>1 DEF MayRange
<1> QED
  BY <1>4, <1>5

\* And so is the range of the selected blocks.
LEMMA SiblingsView ==
    ASSUME NEW d, WellFormed(d), NEW s
    PROVE  MayRange(d, SelectedSiblings(d, s))
<1>1. SelectedSiblings(d, s) = SiblingRange(d, SelectionEnds(d, s).first, SelectionEnds(d, s).last)
  BY DEF SelectedSiblings
<1> QED
  BY <1>1, RangeOfSiblings

\* The blocks of a range.
LEMMA SiblingIdsView ==
    ASSUME NEW d, WellFormed(d), NEW r, IsRange(d, r)
    PROVE  /\ SiblingIds(d, r) \in Seq(Blocks(d)) /\ Len(SiblingIds(d, r)) = r.count
           /\ SiblingIds(d, r) # <<>>
           /\ \A i \in 1 .. r.count : SiblingIds(d, r)[i] = Kids(d, r.parent)[r.index + i]
<1>1. Kids(d, r.parent) \in Seq(Blocks(d)) /\ Len(Kids(d, r.parent)) \in Nat
  BY IndexView
<1> DEFINE q == Kids(d, r.parent)
           i0 == r.index
           n == r.count
           part == SubSeq(q, i0 + 1, i0 + n)
<1>2. i0 \in Nat /\ n \in Nat \ {0} /\ i0 + n <= Len(q)
  BY DEF IsRange
<1> HIDE DEF q, i0, n
<1>3. part \in Seq(Blocks(d)) /\ Len(part) = n /\ \A i \in 1 .. n : part[i] = q[i0 + i]
  BY <1>1, <1>2, PartOf DEF q
<1>4. SiblingIds(d, r) = part
  BY DEF SiblingIds, part, q, i0, n
<1> HIDE DEF part
<1>5. part # <<>>
  BY <1>2, <1>3
<1> QED
  BY <1>3, <1>4, <1>5 DEF q, i0, n

\* Effects that ask for one thing more.
Composing(kind, s, c) == [With(kind, s) EXCEPT !.composition = c]
Storing(kind, s, x) == [With(kind, s) EXCEPT !.stored = x]
ComposingAndStoring(kind, s, c, x) == [With(kind, s) EXCEPT !.composition = c, !.stored = x]

\* What the effects of typing and composing are.
LEMMA EffectsWith ==
    \A kind, s : IsSelection(s) =>
       /\ \A c : /\ IsEffects(Composing(kind, s, c)) /\ Composing(kind, s, c).composition = c
                 /\ Composing(kind, s, c).origin = "Local"
       /\ \A x : /\ IsEffects(Storing(kind, s, x)) /\ Storing(kind, s, x).composition = None
                 /\ Storing(kind, s, x).origin = "Local"
       /\ \A c, x : LET fx == ComposingAndStoring(kind, s, c, x)
                    IN  IsEffects(fx) /\ fx.composition = c /\ fx.origin = "Local"
<1> SUFFICES ASSUME NEW kind, NEW s, IsSelection(s)
             PROVE  /\ \A c : /\ IsEffects(Composing(kind, s, c)) /\ Composing(kind, s, c).composition = c
                              /\ Composing(kind, s, c).origin = "Local"
                    /\ \A x : /\ IsEffects(Storing(kind, s, x)) /\ Storing(kind, s, x).composition = None
                              /\ Storing(kind, s, x).origin = "Local"
                    /\ \A c, x : LET fx == ComposingAndStoring(kind, s, c, x)
                                 IN  IsEffects(fx) /\ fx.composition = c /\ fx.origin = "Local"
  OBVIOUS
<1>1. Some(s) = Some(Some(s)[1]) /\ Some(s)[1] = s
  BY DEF Some
<1> DEFINE one == Some(s)
<1>2. one = Some(one[1]) /\ IsSelection(one[1])
  BY <1>1
<1>3. With(kind, s) = [kind |-> kind, origin |-> "Local", selection |-> one, stored |-> None, composition |-> None]
  BY DEF With, Local, Effects
<1> HIDE DEF one
<1> QED
  BY <1>2, <1>3 DEF IsEffects, Composing, Storing, ComposingAndStoring

\* A point of a text and a caret there.
LEMMA CaretIs ==
    /\ \A b : \A o \in Nat : PointOk(Point(b, o)) /\ IsSelection(Caret(Point(b, o)))
    /\ \A p : PointOk(p) => IsSelection(Caret(p))
BY SelectionFields

\* Typing over selected blocks, and typing.
LEMMA ReplaceBlocksPlan ==
    ASSUME NEW st, IsState(st), NEW text, IsContent(text), Len(text) \in Nat
    PROVE  IsLocalPlan(ReplaceBlocks(st, text))
<1> DEFINE d == st.doc
           opt == SelectedSiblings(d, st.selection)
           r == opt[1]
           kind == DefaultTextType(d, r.parent)
           script == <<RemoveBlocksStep(r.parent, r.index, r.count),
                       InsertBlocksStep(r.parent, r.index, TextTree(d.next, kind[1], 0, text)),
                       PruneEmpty(r.parent)>>
           fx == With("Typing", Caret(Point(d.next, Len(text))))
<1>1. WellFormed(d) /\ d.next \in Nat \ {0}
  BY DEF IsState, IsDocument, Ids
<1>2. ReplaceBlocks(st, text) = IF opt = None THEN None ELSE IF kind = None THEN None ELSE Plan(script, fx)
  BY DEF ReplaceBlocks
<1>3. MayRange(d, opt)
  BY <1>1, SiblingsView
<1>4. CASE opt # None /\ kind # None
  <2>1. r.index \in Nat /\ r.count \in Nat /\ r.parent \in Places(d)
    BY <1>3, <1>4 DEF MayRange, IsRange
  <2>2. kind[1] \in Kinds /\ ContentOf[kind[1]] = "inline"
    BY <1>1, <1>4, <2>1, DefaultTypeView
  <2>3. IsTyped(InsertBlocksStep(r.parent, r.index, TextTree(d.next, kind[1], 0, text)))
    BY <1>1, <2>1, <2>2, FreshStep
  <2>4. IsScript(script)
    BY <2>1, <2>3, StepsAre, InstructionsAre, ShortScripts
  <2>5. IsSelection(Caret(Point(d.next, Len(text))))
    BY <1>1, CaretIs
  <2>6. IsLocalPlan(Plan(script, fx))
    BY <2>4, <2>5, LocalPlans
  <2> QED
    BY <1>2, <1>4, <2>6
<1>5. CASE ~(opt # None /\ kind # None)
  BY <1>2, <1>5, LocalPlans
<1> QED
  BY <1>4, <1>5

\* Typing replaces what is selected.
LEMMA InsertTextPlan ==
    ASSUME NEW st, IsState(st), NEW chars, IsChars(chars)
    PROVE  IsLocalPlan(InsertText(st, chars))
<1> DEFINE d == st.doc
           text == Plain(chars, ActiveMarks(st))
           r == TextRange(d, st.selection)
           script == Append(DeleteRange(d, r.from, r.to), InsertInlineStep(r.from.block, r.from.offset, text))
           fx == With("Typing", Caret(Point(r.from.block, r.from.offset + Len(text))))
<1>1. WellFormed(d) /\ IsSelection(st.selection)
  BY DEF IsState, IsDocument, Fits
<1>2. IsContent(text) /\ Len(text) \in Nat
  BY PlainView
<1> HIDE DEF text
<1>3. InsertText(st, chars) = IF st.selection.sel = "blocks" THEN ReplaceBlocks(st, text) ELSE Plan(script, fx)
  BY DEF InsertText, text
<1>4. CASE st.selection.sel = "blocks"
  BY <1>2, <1>3, <1>4, ReplaceBlocksPlan
<1>5. CASE st.selection.sel # "blocks"
  <2>1. st.selection.sel = "text"
    BY <1>1, <1>5, SelectionView
  <2>2. PointOk(r.from) /\ PointOk(r.to)
    BY <1>1, <2>1, RangeView
  <2>3. r.from.offset \in Nat
    BY <2>2 DEF PointOk
  <2>4. IsScript(DeleteRange(d, r.from, r.to)) /\ IsInstruction(InsertInlineStep(r.from.block, r.from.offset, text))
    BY <1>1, <1>2, <2>2, <2>3, DeletionScript, StepsAre, InstructionsAre
  <2>5. IsScript(script)
    BY <2>4, ScriptOf
  <2>6. IsSelection(Caret(Point(r.from.block, r.from.offset + Len(text))))
    BY <1>2, <2>3, CaretIs
  <2>7. IsLocalPlan(Plan(script, fx))
    BY <2>5, <2>6, LocalPlans
  <2> QED
    BY <1>3, <1>5, <2>7
<1> QED
  BY <1>4, <1>5

\* Deleting a span, and the selection.
LEMMA DeleteSpanPlan ==
    ASSUME NEW st, IsState(st), NEW from, PointOk(from), NEW to, PointOk(to), NEW kind
    PROVE  IsLocalPlan(DeleteSpan(st, from, to, kind))
<1>1. WellFormed(st.doc)
  BY DEF IsState, IsDocument
<1>2. IsScript(DeleteRange(st.doc, from, to)) /\ IsSelection(Caret(from))
  BY <1>1, DeletionScript, CaretIs
<1>3. IsLocalPlan(Plan(DeleteRange(st.doc, from, to), With(kind, Caret(from))))
  BY <1>2, LocalPlans
<1> QED
  BY <1>3 DEF DeleteSpan

\* Deleting takes the selected text or blocks out.
LEMMA DeleteSelectionPlan ==
    ASSUME NEW st, IsState(st)
    PROVE  IsLocalPlan(DeleteSelection(st))
<1> DEFINE d == st.doc
           t == TextRange(d, st.selection)
           kind == IF t.from.block = t.to.block THEN "Deleting" ELSE "Structure"
           opt == SelectedSiblings(d, st.selection)
           r == opt[1]
           caret == CaretAfterRemoval(d, r)
           script == <<RemoveBlocksStep(r.parent, r.index, r.count), PruneEmpty(r.parent)>>
<1>1. WellFormed(d) /\ IsSelection(st.selection)
  BY DEF IsState, IsDocument, Fits
<1>2. DeleteSelection(st) =
        IF st.selection.sel = "text"
        THEN (IF t.from = t.to THEN None ELSE DeleteSpan(st, t.from, t.to, kind))
        ELSE IF opt = None THEN None
        ELSE Plan(script, IF caret = NoPoint THEN Local("Structure") ELSE With("Structure", Caret(caret)))
  BY DEF DeleteSelection
<1>3. MayRange(d, opt)
  BY <1>1, SiblingsView
<1>4. CASE st.selection.sel = "text"
  <2>1. PointOk(t.from) /\ PointOk(t.to)
    BY <1>1, <1>4, RangeView
  <2>2. IsLocalPlan(DeleteSpan(st, t.from, t.to, kind))
    BY <2>1, DeleteSpanPlan
  <2> HIDE DEF kind, t
  <2> QED
    BY <1>2, <1>4, <2>2, LocalPlans
<1>5. CASE st.selection.sel # "text" /\ opt # None
  <2>1. r.index \in Nat /\ r.count \in Nat
    BY <1>3, <1>5 DEF MayRange, IsRange
  <2>2. IsScript(script)
    BY <2>1, StepsAre, InstructionsAre, ShortScripts
  <2>3. IsSelection(Caret(caret))
    BY <1>1, FallbackView, CaretIs DEF CaretAfterRemoval
  <2>4. IsLocalPlan(Plan(script, Local("Structure"))) /\ IsLocalPlan(Plan(script, With("Structure", Caret(caret))))
    BY <2>2, <2>3, LocalPlans
  <2> HIDE DEF script, caret
  <2> QED
    BY <1>2, <1>5, <2>4
<1>6. CASE st.selection.sel # "text" /\ opt = None
  BY <1>2, <1>6, LocalPlans
<1> QED
  BY <1>4, <1>5, <1>6

\* A selection made, and a composition given up.
LEMMA SetSelectionPlan ==
    ASSUME NEW st, IsState(st), NEW s, IsSelection(s)
    PROVE  IsLocalPlan(SetSelection(st, s))
<1> DEFINE valid == ValidSelection(st.doc, s)
<1>1. WellFormed(st.doc) /\ st.doc.root # <<>>
  BY DEF IsState, IsDocument
<1>2. IsSelection(valid)
  BY <1>1, ValidFits DEF Fits
<1>3. SetSelection(st, s) = IF valid = st.selection THEN None ELSE Plan(<<>>, With("Selection", valid))
  BY DEF SetSelection
<1>4. IsLocalPlan(Plan(<<>>, With("Selection", valid)))
  BY <1>2, ScriptOf, LocalPlans
<1> QED
  BY <1>3, <1>4, LocalPlans

\* Cancelling a composition takes its text out again.
LEMMA CancelPlan ==
    ASSUME NEW st, IsState(st)
    PROVE  IsLocalPlan(CancelComposition(st))
<1> DEFINE c == st.composition[1]
           r == Preedit(c)
           fx == [With("Composition", Caret(r.from)) EXCEPT !.composition = Some(None)]
           script == DeleteRange(st.doc, r.from, r.to)
<1>1. WellFormed(st.doc) /\ Composes(st.doc, st.composition)
  BY DEF IsState, IsDocument
<1>2. CancelComposition(st) = IF st.composition = None THEN None ELSE Plan(script, fx)
  BY DEF CancelComposition
<1>3. CASE st.composition # None
  <2>1. c.start \in Nat /\ c.end \in Nat
    BY <1>1, <1>3 DEF Composes, IsPart
  <2>2. PointOk(r.from) /\ PointOk(r.to)
    BY <2>1, SelectionFields DEF Preedit
  <2>3. IsScript(script) /\ IsSelection(Caret(r.from))
    BY <1>1, <2>2, DeletionScript, CaretIs
  <2>4. IsEffects(fx) /\ fx.composition = Some(None) /\ fx.origin = "Local"
    <3>1. fx = Composing("Composition", Caret(r.from), Some(None))
      BY DEF Composing
    <3> HIDE DEF fx
    <3> QED
      BY <2>3, <3>1, EffectsWith
  <2> HIDE DEF fx, script
  <2>5. IsLocalPlan(Plan(script, fx))
    BY <2>3, <2>4, LocalPlans
  <2> QED
    BY <1>2, <1>3, <2>5
<1>4. CASE st.composition = None
  BY <1>2, <1>4, LocalPlans
<1> QED
  BY <1>3, <1>4

-----------------------------------------------------------------------------
(***************************************************************************)
(* The calls that make one transaction.                                    *)
(***************************************************************************)

\* A plan is carried out or fails.
LEMMA PlanEnds ==
    ASSUME NEW st, NEW t, NEW plan, plan # None
    PROVE  Change(st, t, plan).applied \/ Change(st, t, plan).error
<1> DEFINE made == RunScript(t, Append(plan[1].script, EnsureBlock))
           done1 == ApplyCommit(st, Commit(made), plan[1].fx)
           lost == Errored([st EXCEPT !.doc = made.doc])
<1>1. Change(st, t, plan) = IF made.ok THEN done1 ELSE lost
  BY DEF Change
<1>2. done1.applied = TRUE
  BY ApplyCommitView DEF IsApplied
<1>3. lost.error = TRUE
  BY NotAppliedView
<1> HIDE DEF made, done1, lost
<1> QED
  BY <1>1, <1>2, <1>3

\* Taking the last input rule back.
LEMMA UndoRuleTransacts ==
    ASSUME NEW c, IsCtx(c)
    PROVE  Transacts(c.state, UndoInputRule(c))
<1> DEFINE st == c.state
           trace == c.rule[1]
           r == RuleUndone(c)
           next == Change(r.st, NoCommit(r.st.doc), InsertText(r.st, trace.typed))
           both == [next EXCEPT !.update = Then(r.update, @)]
<1>1. UndoInputRule(c) =
        IF ~RuleIsFresh(c) THEN NotApplied(st)
        ELSE IF r.error THEN r ELSE IF next.error THEN next ELSE IF next.applied THEN both ELSE r
  BY DEF UndoInputRule, Retype
<1>2. IsState(st) /\ IsTrace(c.rule)
  BY DEF IsCtx
<1>3. CASE ~RuleIsFresh(c)
  <2>1. /\ IsOutcome(NotApplied(st)) /\ NotApplied(st).applied = FALSE /\ NotApplied(st).error = FALSE
        /\ NotApplied(st).st = st
    BY NotAppliedView
  <2>2. SameState(st, st)
    BY <1>2, TwinsAreEqual DEF SameState, IsState, IsDocument
  <2> HIDE DEF st, r, next, both
  <2>3. UndoInputRule(c) = NotApplied(st)
    BY <1>1, <1>3
  <2>4. Transacts(st, NotApplied(st))
    BY <1>2, <2>1, <2>2, FollowsView DEF Transacts, Carried
  <2> QED
    BY <2>3, <2>4 DEF st
<1>4. CASE RuleIsFresh(c)
  <2>1. IsSteps(trace.undo) /\ IsSelection(trace.before) /\ IsChars(trace.typed)
    BY <1>2, <1>4 DEF RuleIsFresh, IsTrace
  <2>2. Carried(st, r) /\ (r.applied => r.update.origin = "Local")
    <3> DEFINE at == Some(trace.before)
               steps == trace.undo
    <3>1. at = Some(at[1]) /\ IsSelection(at[1])
      BY <2>1 DEF Some
    <3>2. r = ApplyStepsTo(st, steps, "InputRule", "Local", at)
      BY DEF RuleUndone
    <3>3. IsSteps(steps)
      BY <2>1
    <3> HIDE DEF at, steps, r, st
    <3>4. LET x == ApplyStepsTo(st, steps, "InputRule", "Local", at)
          IN  Carried(st, x) /\ (x.applied => x.update.origin = "Local")
      BY <1>2, <3>1, <3>3, StepsCarry
    <3> QED
      BY <3>2, <3>4
  <2>3. r.applied \/ r.error
    BY PlanEnds DEF RuleUndone, ApplyStepsTo, Plan, Some, None
  <2>4. IsOutcome(r) /\ IsState(r.st)
    BY <2>2 DEF Carried
  <2> HIDE DEF r
  <2>5. Carried(r.st, next)
    BY <2>1, <2>4, InsertTextPlan, PlainChange
  <2> HIDE DEF next
  <2>6. /\ Follows(st.doc, next.st.doc)
        /\ r.applied /\ next.applied => AreJoined(st, r, next)
    BY <2>2, <2>5, CarriedThen
  <2>7. IsOutcome(next) /\ IsState(next.st)
    BY <2>5 DEF Carried
  <2>8. CASE r.error
    BY <1>1, <1>4, <2>8, <2>2 DEF Transacts
  <2>9. CASE ~r.error /\ next.error
    BY <1>1, <1>4, <2>9, <2>7, <2>6 DEF IsOutcome, Transacts, Carried
  <2>10. CASE ~r.error /\ ~next.error /\ next.applied
    <3>1. UndoInputRule(c) = both
      BY <1>1, <1>4, <2>10
    <3>2. Carried(st, both) /\ both.update = Then(r.update, next.update)
      BY <2>3, <2>6, <2>10 DEF AreJoined
    <3>3. IsA(r.update, UpdateFields) /\ r.update.origin = "Local"
      BY <2>2, <2>3, <2>10 DEF Carried, IsUpdate
    <3>4. Then(r.update, next.update).origin = "Local"
      BY <3>3, ThenView
    <3> HIDE DEF both
    <3> QED
      BY <3>1, <3>2, <3>4 DEF Transacts
  <2>11. CASE ~r.error /\ ~next.error /\ ~next.applied
    BY <1>1, <1>4, <2>11, <2>2 DEF Transacts
  <2> QED
    BY <2>8, <2>9, <2>10, <2>11
<1> QED
  BY <1>3, <1>4

\* An input rule's plan, and what typing does.
LEMMA TypedPlan ==
    ASSUME NEW st, IsState(st), NEW chars, IsChars(chars)
    PROVE  IsLocalPlan(Typed(st, chars))
<1> DEFINE p == st.selection.head
           script == <<RemoveInlineStep(p.block, 0, p.offset), SetBlockStep(p.block, RuleKind, 0)>>
<1>1. CASE RuleApplies(st, chars)
  BY <1>1, RangeView, StepsAre, InstructionsAre, ShortScripts, CaretIs, LocalPlans DEF RuleApplies, IsState,
     Fits, IsCaret, PointOk, Typed, ApplyRule
<1>2. CASE ~RuleApplies(st, chars)
  BY <1>2, InsertTextPlan DEF Typed
<1> QED
  BY <1>1, <1>2

\* A document with a block has one at the root; texts are the same in twins.
LEMMA BlocksHaveRoots ==
    ASSUME NEW d, WellFormed(d), NEW b \in Blocks(d)
    PROVE  d.root # <<>>
<1>1. AllUnder(d.nodes, ToSet(d.root)) = Blocks(d)
  BY AllBelowRoot
<1>2. SUFFICES ASSUME d.root = <<>> PROVE FALSE
  OBVIOUS
<1>3. ToSet(d.root) = {}
  BY <1>2 DEF ToSet
<1>4. IsFiniteSet(DOMAIN d.nodes) /\ KidsAreNodes(d.nodes)
  BY NodesOf DEF WellFormed
<1>5. Closed(d.nodes, {})
  BY DEF Closed
<1>6. AllUnder(d.nodes, {}) \subseteq {}
  BY <1>4, <1>5, AllUnderLeast
<1> QED
  BY <1>1, <1>3, <1>6

\* A reader of twins sees the same text.
LEMMA TextOfTwins ==
    ASSUME NEW d, NEW e, Twins(d, e), NEW b, IsText(d, b)
    PROVE  IsText(e, b) /\ Text(e, b) = Text(d, b)
BY DEF Twins, Alike, IsText, Blocks

\* Text put in where it is, when the script that ends with it is carried out.
LEMMA InsertedLast ==
    ASSUME NEW d, IsDocument(d), NEW script, IsScript(script), NEW b, NEW o \in Nat, NEW text, IsContent(text)
    PROVE  LET r == RunScript(NoCommit(d), Append(Append(script, InsertInlineStep(b, o, text)), EnsureBlock))
           IN  r.ok => IsText(r.doc, b) /\ o + Len(text) <= Len(Text(r.doc, b))
<1> DEFINE t == NoCommit(d)
           s == InsertInlineStep(b, o, text)
           more == Append(script, s)
           r == RunScript(t, Append(more, EnsureBlock))
<1>1. Ran(d, t)
  BY RanNothing
<1>2. IsTyped(s) /\ IsInstruction(s) /\ IsInstruction(EnsureBlock) /\ IsScript(more)
  BY StepsAre, InstructionsAre, ScriptOf
<1>3. s.op = "InsertInline" /\ s.block = b /\ s.offset = o /\ s.content = text
  BY DEF InsertInlineStep
<1> HIDE DEF t, s
<1>4. \E u : /\ Ran(d, u) /\ RunScript(t, script) = OrRolledBack(u)
             /\ RunScript(t, Append(script, s)) = OrRolledBack(Instruct(u, s))
  BY <1>1, <1>2, ScriptLast
<1>5. PICK u : Ran(d, u) /\ RunScript(t, more) = OrRolledBack(Instruct(u, s))
  BY <1>4
<1> HIDE DEF more
<1>6. \E v : /\ Ran(d, v) /\ RunScript(t, more) = OrRolledBack(v)
             /\ RunScript(t, Append(more, EnsureBlock)) = OrRolledBack(Instruct(v, EnsureBlock))
  BY <1>1, <1>2, ScriptLast
<1>7. PICK v : Ran(d, v) /\ RunScript(t, more) = OrRolledBack(v) /\ r = OrRolledBack(Instruct(v, EnsureBlock))
  BY <1>6
<1> HIDE DEF r
<1>8. r.ok => IsText(r.doc, b) /\ o + Len(text) <= Len(Text(r.doc, b))
  <2> HAVE r.ok
  <2> DEFINE last == Instruct(v, EnsureBlock)
             w == Instruct(u, s)
  <2>1. Ran(d, last) /\ Ran(d, w)
    BY <1>2, <1>5, <1>7, RanInstruct
  <2> HIDE DEF last, w
  <2>2. last.ok /\ r = last
    BY <1>7, <2>1, OrRolledBackView DEF last
  <2>3. v.ok
    BY <1>7, <2>2, EnsureView DEF last
  <2>4. OrRolledBack(w) = v
    BY <1>5, <1>7, <2>3, OrRolledBackView DEF w
  <2>5. w = v /\ w.ok
    BY <2>1, <2>3, <2>4, OrRolledBackView
  <2>6. w = StepIn(u, s)
    BY <1>3, RunStepsParts DEF Edits, w, Instruct
  <2> DEFINE a == StepApply(u.doc, s)
  <2>7. u.ok /\ a.ok /\ w.doc = a.doc
    <3>1. IsTx(u)
      BY <1>5 DEF Ran
    <3> DEFINE r1 == StepIn(u, s)
    <3>2. /\ IsTx(r1)
          /\ ~u.ok => r1 = u
          /\ u.ok => r1.ok = a.ok /\ r1.doc = a.doc
          /\ u.ok /\ a.ok => r1 = TransactionStep(u, s, a)
          /\ u.ok /\ ~a.ok => r1 = [u EXCEPT !.ok = FALSE, !.doc = a.doc]
          /\ a.ok \in BOOLEAN
      BY <1>2, <3>1, StepInView, Zenon
    <3>3. u.ok \in BOOLEAN
      BY <1>5, OrRolledBackView
    <3> HIDE DEF r1, a
    <3> QED
      BY <2>5, <2>6, <3>2, <3>3 DEF r1
  <2>8. WellFormed(u.doc)
    BY <1>5 DEF Ran, IsDocument
  <2> DEFINE before == RecordBefore(u.doc, s)
             p == Perform(before, s)
  <2>9. WellFormed(before) /\ p.ok /\ Twins(p.doc, a.doc)
    BY <1>2, <2>7, <2>8, StepApplyParts
  <2> HIDE DEF a, before
  <2>10. p = InsertInline(before, s)
    BY <1>3 DEF Perform
  <2> DEFINE old == Text(before, b)
             new == SpliceSeq(old, o, 0, text)
  <2>11. IsText(before, b) /\ o <= Len(old) /\ p.doc = SetText(before, b, new)
    BY <1>3, <2>9, <2>10 DEF InsertInline, Failed, Applied
  <2>12. IsContent(old) /\ IsContent(new) /\ Len(new) = Len(old) + Len(text) /\ Len(old) \in Nat /\ Len(text) \in Nat
    <3>1. IsContent(old)
      BY <2>9, <2>11, IndexView DEF IsText
    <3>2. IsContent(new) /\ Len(old) \in Nat
      <4> DEFINE was == old
      <4>1. IsContent(was) /\ o <= Len(was)
        BY <2>11, <3>1
      <4> HIDE DEF was
      <4>2. Len(was) \in Nat
        BY <4>1, PartsOfContent
      <4>3. o + 0 <= Len(was)
        BY <4>1, <4>2
      <4>4. IsContent(SpliceSeq(was, o, 0, text))
        BY <4>1, <4>3, PartsOfContent
      <4> QED
        BY <4>2, <4>4 DEF was
    <3>3. Len(text) \in Nat
      BY PartsOfContent
    <3> DEFINE S == ToSet(old) \cup ToSet(text)
    <3>4. old \in Seq(S) /\ text \in Seq(S)
      BY <3>1, SeqMonotonic DEF IsContent
    <3> HIDE DEF old, S
    <3>5. IsSpliced(S, old, o, 0, text)
      BY <2>11, <3>2, <3>4, Splice
    <3>6. Len(new) = Len(old) + Len(text)
      BY <3>2, <3>3, <3>5 DEF IsSpliced
    <3> QED
      BY <3>1, <3>2, <3>3, <3>6
  <2> HIDE DEF new, p
  <2>13. IsText(p.doc, b) /\ Text(p.doc, b) = new
    BY <2>9, <2>11, <2>12, TextSetBack
  <2>14. IsText(w.doc, b) /\ Text(w.doc, b) = new
    BY <2>5, <2>7, <2>9, <2>13, TextOfTwins
  <2>15. w.doc.root # <<>>
    BY <2>1, <2>14, BlocksHaveRoots DEF Ran, IsDocument, IsText
  <2>16. r = w
    BY <1>7, <2>2, <2>3, <2>5, <2>15, EnsureView DEF last
  <2> QED
    BY <2>11, <2>12, <2>14, <2>16
<1> QED
  BY <1>8 DEF r, t, s, more

\* What an input method shows, or commits. What it shows is not empty: an empty
\* composition is one of the places a deletion leaves.
LEMMA PreeditTransacts ==
    ASSUME NEW st, IsState(st), NEW chars, IsChars(chars), chars # <<>>, NEW keep \in BOOLEAN
    PROVE  Transacts(st, Change(st, NoCommit(st.doc), ReplacePreedit(st, chars, keep)))
<1> DEFINE d == st.doc
           plan == ReplacePreedit(st, chars, keep)
           r == IF st.composition = None THEN TextRange(d, st.selection) ELSE Preedit(st.composition[1])
           text == Plain(chars, ActiveMarks(st))
           b == r.from.block
           start == r.from.offset
           end == start + Len(chars)
           ins == InsertInlineStep(b, start, text)
           cut == DeleteRange(d, r.from, r.to)
           script == cut \o <<ins>>
           kind == IF keep THEN "Composition" ELSE "Typing"
           part == Some(IF keep THEN Some(Composition(b, start, end)) ELSE None)
           marks == IF keep THEN Some(st.stored) ELSE None
           fx == ComposingAndStoring(kind, Caret(Point(b, end)), part, marks)
<1>1. /\ IsDocument(d) /\ WellFormed(d) /\ IsSelection(st.selection)
      /\ Composes(d, st.composition)
  BY DEF IsState, IsDocument, Fits
<1>2. plan = IF st.composition = None /\ st.selection.sel = "blocks" THEN None ELSE Plan(script, fx)
  BY DEF ReplacePreedit, ComposingAndStoring
<1>3. IsContent(text) /\ Len(text) = Len(chars) /\ Len(chars) \in Nat
  BY PlainView
<1> HIDE DEF text, kind, marks, plan
<1>4. CASE st.composition = None /\ st.selection.sel = "blocks"
  BY <1>2, <1>4, LocalPlans, PlainChange DEF Transacts, plan
<1>5. CASE ~(st.composition = None /\ st.selection.sel = "blocks")
  <2>1. PointOk(r.from) /\ PointOk(r.to)
    <3>1. CASE st.composition = None
      BY <1>1, <1>5, <3>1, SelectionView, RangeView
    <3>2. CASE st.composition # None
      <4> DEFINE c == st.composition[1]
      <4>1. c.start \in Nat /\ c.end \in Nat
        BY <1>1, <3>2 DEF Composes, IsPart
      <4> HIDE DEF c
      <4>2. PointOk(Preedit(c).from) /\ PointOk(Preedit(c).to)
        BY <4>1, SelectionFields DEF Preedit
      <4> QED
        BY <3>2, <4>2 DEF c
    <3> QED
      BY <3>1, <3>2
  <2>2. start \in Nat /\ end \in Nat
    BY <1>3, <2>1 DEF PointOk
  <2> HIDE DEF r
  <2>3. IsScript(cut) /\ IsTyped(ins) /\ IsInstruction(ins) /\ IsScript(<<ins>>)
    BY <1>1, <1>3, <2>1, <2>2, DeletionScript, StepsAre, InstructionsAre, ScriptOf
  <2>4. IsScript(script)
    BY <2>3, ScriptOf
  <2>5. script = Append(cut, ins)
    <3>1. cut \in Seq(ToSet(cut))
      BY <2>3 DEF IsScript
    <3> HIDE DEF cut, ins
    <3> QED
      BY <3>1, AppendIsConcat
  <2>6. IsSelection(Caret(Point(b, end)))
    BY <2>2, CaretIs
  <2>7. IsEffects(fx) /\ fx.composition = part /\ fx.origin = "Local"
    <3> DEFINE at == Caret(Point(b, end))
    <3>1. IsSelection(at)
      BY <2>6
    <3> HIDE DEF at, part
    <3>2. LET e == ComposingAndStoring(kind, at, part, marks)
          IN  IsEffects(e) /\ e.composition = part /\ e.origin = "Local"
      BY <3>1, EffectsWith
    <3> QED
      BY <3>2 DEF at
  <2> HIDE DEF fx, script
  <2>8. /\ plan = Plan(script, fx) /\ IsPlan(plan) /\ plan # None
        /\ plan[1].script = script /\ plan[1].fx = fx
    BY <1>2, <1>5, <2>4, <2>7, PlanMade
  <2> DEFINE made == RunScript(NoCommit(d), Append(script, EnsureBlock))
  <2>9. made.ok => KeepsPart(made.doc, fx)
    <3> SUFFICES ASSUME made.ok PROVE Composes(made.doc, fx.composition[1])
      BY DEF KeepsPart
    <3>1. IsText(made.doc, b) /\ start + Len(text) <= Len(Text(made.doc, b))
      BY <1>1, <1>3, <2>2, <2>3, <2>5, InsertedLast
    <3> HIDE DEF made
    <3>2. CASE ~keep
      BY <2>7, <3>2 DEF part, Some, Composes
    <3>3. CASE keep
      <4> DEFINE c == Composition(b, start, end)
      <4>1. fx.composition[1] = Some(c)
        BY <2>7, <3>3 DEF part, Some
      <4>2. Some(c)[1] = c
        BY DEF Some
      <4>3. c.block = b /\ c.start = start /\ c.end = end /\ c = Composition(c.block, c.start, c.end)
        BY DEF Composition
      <4>4. IsPart(made.doc, c)
        BY <1>3, <2>2, <3>1, <4>3 DEF IsPart
      <4> HIDE DEF c
      <4> QED
        BY <4>1, <4>2, <4>4 DEF Composes
    <3> QED
      BY <3>2, <3>3
  <2>10. LET x == RunScript(NoCommit(d), Append(plan[1].script, EnsureBlock))
         IN  x.ok => KeepsPart(x.doc, plan[1].fx)
    BY <2>8, <2>9
  <2>11. Ran(d, NoCommit(d))
    BY <1>1, RanNothing
  <2> DEFINE out == Change(st, NoCommit(d), plan)
  <2>12. Carried(st, out) /\ (out.applied => out.update.origin = plan[1].fx.origin)
    BY <2>8, <2>10, <2>11, ChangeCarries
  <2> QED
    BY <2>7, <2>8, <2>12 DEF Transacts, plan
<1> QED
  BY <1>4, <1>5

\* The calls there are, as far as what they are about is well typed.
IsCall(call) ==
    /\ call.do \in {"type", "setPreedit", "commitPreedit", "cancelPreedit", "cut", "select",
                    "press", "chain", "paste", "undo", "redo"}
    /\ call.do \in {"type", "setPreedit", "commitPreedit"} => IsChars(call.text) /\ call.text # <<>>
    /\ call.do \in {"press", "chain"} => Honest(call.cmds)
    /\ call.do = "select" => IsSelection(call.to)

\* A paste keeps to it too.
PasteTransacts(st, call) == call.do = "paste" => Transacts(st, ReplaceSelection(st, call.slice))

\* Whatever call edits the document, its run keeps to the contract of commands.
LEMMA RunTransacts ==
    ASSUME NEW c, IsCtx(c), c.state.doc.saves = <<>>, NEW call, IsCall(call),
           call.do \notin {"undo", "redo"}, PasteTransacts(c.state, call)
    PROVE  Transacts(c.state, Run(c, call))
<1> DEFINE st == c.state
           one == Change(st, NoCommit(st.doc), Planned(st, call))
<1>1. IsState(st)
  BY DEF IsCtx
<1>2. CASE call.do \in {"press", "chain"}
  BY <1>2, KeysTransact DEF Run, IsCall
<1>4. CASE call.do = "paste"
  BY <1>4 DEF Run, PasteTransacts
<1>3. CASE call.do \notin {"press", "chain", "paste"}
  <2>1. Run(c, call) = one
    BY <1>3 DEF Run
  <2>2. CASE call.do \in {"setPreedit", "commitPreedit"}
    BY <2>2, <1>1, PreeditTransacts, <2>1 DEF IsCall, Planned
  <2>3. CASE call.do \notin {"setPreedit", "commitPreedit"}
    <3>1. call.do \in {"type", "cancelPreedit", "cut", "select"}
      BY <1>3, <2>3 DEF IsCall
    <3>2. IsLocalPlan(Planned(st, call))
      <4>1. CASE call.do = "type"
        BY <1>1, <4>1, TypedPlan DEF IsCall, Planned
      <4>2. CASE call.do = "cancelPreedit"
        BY <1>1, CancelPlan, <4>2 DEF Planned
      <4>3. CASE call.do = "cut"
        BY <1>1, DeleteSelectionPlan, <4>3 DEF Planned
      <4>4. CASE call.do = "select"
        BY <1>1, <4>4, SetSelectionPlan DEF IsCall, Planned
      <4> QED
        BY <3>1, <4>1, <4>2, <4>3, <4>4
    <3>3. Transacts(st, one)
      <4> DEFINE plan == Planned(st, call)
      <4> HIDE DEF plan
      <4>1. Transacts(st, Change(st, NoCommit(st.doc), plan))
        BY <1>1, <3>2, PlainChange DEF Transacts, plan
      <4> QED
        BY <4>1 DEF plan
    <3> QED
      BY <2>1, <3>3
  <2> QED
    BY <2>2, <2>3
<1> QED
  BY <1>2, <1>3, <1>4

-----------------------------------------------------------------------------
(***************************************************************************)
(* Undoing and redoing.                                                    *)
(***************************************************************************)

\* What becomes of the stack reverted from and of the one reverted to.
IsMove(st, from, to, v) ==
    /\ Carried(st, v.result) /\ AreEntries(v.from) /\ AreEntries(v.to)
    /\ v.result.applied => v.result.update.origin = "History"
    /\ ~v.result.applied /\ ~v.result.error => v.from = from /\ v.to = to
    /\ Chain(from, st.doc) /\ Chain(to, st.doc) /\ ~v.result.error =>
          Chain(v.from, v.result.st.doc) /\ Chain(v.to, v.result.st.doc)

\* The entry that reverting another one leaves on the other stack.
LEMMA SwapView ==
    ASSUME NEW st, IsState(st), NEW x, IsEntry(x), NEW u, NEW after, IsState(after), IsUpdate(st, u, after)
    PROVE  LET y == [inverses |-> u.inverses, selection |-> x.after, after |-> x.selection,
                     kind |-> x.kind, was |-> Content(st.doc)]
           IN  /\ IsEntry(y)
               /\ Fits(st.doc, x.after) /\ Fits(after.doc, x.selection) => Leads(y, st.doc, after.doc)
<1> DEFINE y == [inverses |-> u.inverses, selection |-> x.after, after |-> x.selection,
                 kind |-> x.kind, was |-> Content(st.doc)]
<1>1. /\ IsA(y, EntryFields) /\ y.inverses = u.inverses /\ y.selection = x.after
      /\ y.after = x.selection /\ y.was = Content(st.doc)
  BY DEF IsA, EntryFields
<1> HIDE DEF y
<1>2. IsSteps(u.inverses) /\ Undoes(Reverse(u.inverses), after.doc, st.doc)
  BY DEF IsUpdate
<1>3. IsEntry(y)
  BY <1>1, <1>2 DEF IsEntry
<1>4. ASSUME Fits(st.doc, x.after), Fits(after.doc, x.selection) PROVE Leads(y, st.doc, after.doc)
  BY <1>1, <1>2, <1>4 DEF Leads, IsState
<1> QED
  BY <1>3, <1>4 DEF y

\* Reverting an entry moves the history one entry over, or leaves state and
\* history alone, or fails with the savepoint reverted.
LEMMA RevertView ==
    ASSUME NEW c, IsCtx(c), NEW from, AreEntries(from), NEW to, AreEntries(to)
    PROVE  IsMove(c.state, from, to, Revert(c, from, to))
<1> DEFINE st == c.state
           v == Revert(c, from, to)
<1>1. IsState(st)
  BY DEF IsCtx
<1>2. CASE from = <<>>
  <2> DEFINE r == NotApplied(st)
  <2>1. v = [result |-> r, from |-> from, to |-> to]
    BY <1>2 DEF Revert
  <2>2. v.result = r /\ v.from = from /\ v.to = to
    BY <2>1
  <2>3. IsOutcome(r) /\ r.applied = FALSE /\ r.error = FALSE /\ r.st = st
    BY NotAppliedView
  <2> HIDE DEF r, v
  <2>4. SameState(st, st) /\ Follows(st.doc, st.doc)
    BY <1>1, FollowsView, TwinsAreEqual DEF SameState, IsState, IsDocument
  <2>5. Carried(st, r)
    BY <1>1, <2>3, <2>4 DEF Carried
  <2> QED
    BY <2>2, <2>3, <2>5 DEF IsMove, v
<1>3. CASE from # <<>>
  <2> DEFINE x == Last(from)
             rest == Front(from)
             r == Back(st, x)
             y == [inverses |-> r.update.inverses, selection |-> x.after, after |-> x.selection,
                   kind |-> x.kind, was |-> Content(st.doc)]
             other == IF r.error THEN to ELSE Append(to, y)
  <2>1. v = [result |-> r, from |-> rest, to |-> other]
    BY <1>3 DEF Revert
  <2>2. v.result = r /\ v.from = rest /\ v.to = other
    BY <2>1
  <2>3. IsEntry(x) /\ AreEntries(rest)
    BY <1>3, EntriesView
  <2> DEFINE steps == Reverse(x.inverses)
             opt == Some(x.selection)
  <2>4. r = ApplyStepsTo(st, steps, x.kind, "History", opt)
    BY DEF Back
  <2> HIDE DEF v, x, rest, other, y, r
  <2>5. IsSteps(steps) /\ opt = Some(opt[1]) /\ IsSelection(opt[1])
    BY <2>3, StepsView DEF IsEntry, Some
  <2> HIDE DEF steps, opt
  <2>6. Carried(st, r) /\ (r.applied => r.update.origin = "History")
    BY <1>1, <2>4, <2>5, StepsCarry
  <2>7. r.applied \/ r.error
    BY <2>4, PlanEnds DEF ApplyStepsTo, Plan, Some, None
  <2>8. IsOutcome(r) /\ IsState(r.st) /\ (r.applied => IsUpdate(st, r.update, r.st))
    BY <2>6 DEF Carried
  <2>9. ~r.error => IsEntry(y) /\ (Fits(st.doc, x.after) /\ Fits(r.st.doc, x.selection) => Leads(y, st.doc, r.st.doc))
    <3> SUFFICES ASSUME ~r.error
                 PROVE  IsEntry(y) /\ (Fits(st.doc, x.after) /\ Fits(r.st.doc, x.selection) => Leads(y, st.doc, r.st.doc))
      OBVIOUS
    <3>1. IsUpdate(st, r.update, r.st)
      BY <2>7, <2>8
    <3> DEFINE u == r.update
               after == r.st
    <3>2. y = [inverses |-> u.inverses, selection |-> x.after, after |-> x.selection,
               kind |-> x.kind, was |-> Content(st.doc)]
      BY DEF y
    <3>3. IsUpdate(st, u, after) /\ IsState(after)
      BY <2>8, <3>1
    <3> HIDE DEF u, after
    <3>4. IsEntry(y) /\ (Fits(st.doc, x.after) /\ Fits(after.doc, x.selection) => Leads(y, st.doc, after.doc))
      BY <1>1, <2>3, <3>2, <3>3, SwapView
    <3> QED
      BY <3>4 DEF after
  <2>10. AreEntries(other)
    BY <2>9, EntriesView DEF other
  <2>11. ASSUME Chain(from, st.doc), Chain(to, st.doc), ~r.error
         PROVE  Chain(rest, r.st.doc) /\ Chain(other, r.st.doc)
    <3>1. PICK old : Leads(x, old, st.doc) /\ Chain(rest, old)
      BY <1>3, <2>11, ChainPopped DEF x, rest
    <3>2. /\ Undoes(steps, st.doc, old) /\ old.root # <<>> /\ Fits(old, x.selection) /\ Fits(st.doc, x.after)
      BY <3>1 DEF Leads, steps
    <3>3. r.applied /\ Twins(old, r.st.doc) /\ r.st.selection = x.selection
      <4> DEFINE s == x.selection
      <4>1. r = ApplyStepsTo(st, steps, x.kind, "History", Some(s)) /\ Fits(old, s)
        BY <2>4, <3>2 DEF opt
      <4> HIDE DEF s
      <4> QED
        BY <1>1, <3>2, <4>1, BackLands DEF s
    <3>4. Chain(rest, r.st.doc)
      BY <3>1, <3>3, ChainOf
    <3>5. Fits(r.st.doc, x.selection)
      BY <3>2, <3>3, FitsTwins
    <3>6. Leads(y, st.doc, r.st.doc)
      BY <2>9, <2>11, <3>2, <3>5
    <3>7. WellFormed(r.st.doc)
      BY <2>8 DEF IsState, IsDocument
    <3>8. other = Append(to, y)
      BY <2>11 DEF other
    <3> QED
      BY <2>11, <3>4, <3>6, <3>7, <3>8, ChainPushed
  <2> QED
    BY <2>2, <2>3, <2>6, <2>7, <2>10, <2>11 DEF IsMove, v
<1> QED
  BY <1>2, <1>3

\* A call: what it does, and the history it leaves to be recorded in.
IsAttempt(c, call, o) ==
    LET reverts == call.do \in {"undo", "redo"}
        r == o.result
    IN  /\ IsCtx(o.ctx) /\ o.ctx.state = c.state /\ Carried(c.state, r)
        /\ o.ctx.group = c.group
        /\ r.applied => r.update.origin = IF reverts THEN "History" ELSE "Local"
        /\ ~r.applied /\ ~r.error => o.ctx.done = c.done /\ o.ctx.undone = c.undone
        /\ ~reverts => o.ctx = c
        /\ reverts /\ Remembers(c) /\ ~r.error => Chain(o.ctx.done, r.st.doc) /\ Chain(o.ctx.undone, r.st.doc)

\* Undo and redo are attempts.
LEMMA RevertingView ==
    ASSUME NEW c, IsCtx(c), NEW call, call.do \in {"undo", "redo"}
    PROVE  IsAttempt(c, call, Reverting(c, call.do = "redo"))
<1> DEFINE redo == call.do = "redo"
           from == IF redo THEN c.undone ELSE c.done
           to == IF redo THEN c.done ELSE c.undone
           v == Revert(c, from, to)
           o == Reverting(c, redo)
           x == o.ctx
<1>1. IsA(c, CtxFields) /\ IsState(c.state) /\ AreEntries(c.done) /\ AreEntries(c.undone) /\ IsTrace(c.rule)
  BY DEF IsCtx
<1>2. AreEntries(from) /\ AreEntries(to)
  BY <1>1
<1>3. /\ o.result = v.result
      /\ x = IF redo THEN [c EXCEPT !.undone = v.from, !.done = v.to]
                     ELSE [c EXCEPT !.done = v.from, !.undone = v.to]
  BY DEF Reverting
<1> HIDE DEF from, to
<1>4. IsMove(c.state, from, to, v)
  BY <1>2, RevertView
<1> HIDE DEF v, o, x
<1>5. CtxIs(x, c.state, IF redo THEN v.to ELSE v.from, IF redo THEN v.from ELSE v.to, c.group, c.rule)
  BY <1>1, <1>3 DEF IsA, CtxIs, CtxFields
<1>6. /\ IsA(x, CtxFields) /\ x.state = c.state /\ x.rule = c.rule /\ x.group = c.group
      /\ redo => x.done = v.to /\ x.undone = v.from
      /\ ~redo => x.done = v.from /\ x.undone = v.to
  BY <1>5 DEF CtxIs
<1>7. IsCtx(x)
  BY <1>1, <1>4, <1>6 DEF IsCtx, IsMove
<1>8. Remembers(c) => Chain(from, c.state.doc) /\ Chain(to, c.state.doc)
  BY DEF Remembers, from, to
<1>9. o.ctx = x
  BY DEF x
<1>10. /\ redo => from = c.undone /\ to = c.done
       /\ ~redo => from = c.done /\ to = c.undone
  BY DEF from, to
<1>11. IsAttempt(c, call, o)
  BY <1>3, <1>4, <1>6, <1>10, <1>8, <1>7, <1>9 DEF IsMove, IsAttempt
<1> QED
  BY <1>11 DEF o

\* And so is every other call.
LEMMA OutcomeView ==
    ASSUME NEW c, IsCtx(c), c.state.doc.saves = <<>>, NEW call, IsCall(call), PasteTransacts(c.state, call)
    PROVE  IsAttempt(c, call, Outcome(c, call))
<1>1. CASE call.do \in {"undo", "redo"}
  BY <1>1, RevertingView DEF Outcome
<1>2. CASE call.do \notin {"undo", "redo"}
  <2> DEFINE o == Outcome(c, call)
  <2>1. o.result = Run(c, call) /\ o.ctx = c
    BY <1>2 DEF Outcome
  <2>2. Transacts(c.state, Run(c, call))
    BY <1>2, RunTransacts
  <2> HIDE DEF o
  <2>3. IsAttempt(c, call, o)
    BY <1>2, <2>1, <2>2 DEF IsAttempt, Transacts
  <2> QED
    BY <2>3 DEF o
<1> QED
  BY <1>1, <1>2

-----------------------------------------------------------------------------
(***************************************************************************)
(* The calls of the editor.                                                *)
(***************************************************************************)

\* How a call bears on what the editor holds: it may end without effect, and
\* unless it fails half way the history goes on leading to the document.
Idle == {"none", "refused", "rejected"}
IsEnding(c, e) ==
    /\ IsCtx(e.ctx)
    /\ c.state.doc.saves = <<>> => e.ctx.state.doc.saves = <<>>
    /\ Remembers(c) /\ e.how # "error" => Remembers(e.ctx)
    /\ e.how \in Idle => /\ Twins(c.state.doc, e.ctx.state.doc) /\ e.ctx.state.selection = c.state.selection
                         /\ e.ctx.done = c.done /\ e.ctx.undone = c.undone

\* Of what matters for the history, the open group is no part.
LEMMA ClosingView ==
    ASSUME NEW c, IsCtx(c), NEW call
    PROVE  LET x == Closing(c, call)
           IN  IsCtx(x) /\ x.state = c.state /\ x.done = c.done /\ x.undone = c.undone
<1> DEFINE x == [c EXCEPT !.group = None]
<1>1. CtxIs(x, c.state, c.done, c.undone, None, c.rule)
  BY CtxWith DEF IsCtx
<1>2. Closing(c, call) = x \/ Closing(c, call) = c
  BY DEF Closing
<1> HIDE DEF x
<1>3. IsCtx(x) /\ x.state = c.state /\ x.done = c.done /\ x.undone = c.undone
  BY <1>1 DEF CtxIs, IsCtx
<1> QED
  BY <1>2, <1>3

\* The call itself, up to what is noted after it.
LEMMA AttemptEnds ==
    ASSUME NEW c, IsCtx(c), NEW call, NEW o, IsAttempt(c, call, o), NEW soon
    PROVE  LET e == Finish(o.ctx, o.result, soon, Content(c.state.doc))
           IN  /\ IsEnding(c, e) /\ e = Ended(e.ctx, e.how, e.update) /\ e.how # "rejected"
               /\ e.how = "applied" => e.update # None /\ IsSteps(Reverse(e.update[1].inverses))
                                       /\ e.update[1].before = c.state.selection
<1> DEFINE local == call.do \notin {"undo", "redo"}
           was == Content(c.state.doc)
           x == o.ctx
           r == o.result
           e == Finish(x, r, soon, was)
<1>1. /\ IsCtx(x) /\ x.state = c.state /\ Carried(x.state, r)
      /\ r.applied => r.update.origin = IF local THEN "Local" ELSE "History"
      /\ local => x = c
      /\ ~local /\ Remembers(c) /\ ~r.error => Chain(x.done, r.st.doc) /\ Chain(x.undone, r.st.doc)
      /\ ~r.applied /\ ~r.error => x.done = c.done /\ x.undone = c.undone
  BY DEF IsAttempt
<1>2. local \in BOOLEAN
  OBVIOUS
<1> HIDE DEF local, x, r, was
<1>3. /\ IsEnded(x, x.state, e)
      /\ local => Keeps(x, x.state, e, was)
      /\ ~local /\ e.how # "error" => /\ e.ctx.done = x.done /\ e.ctx.undone = x.undone
                                      /\ e.ctx.state = r.st
      /\ r.error => e.how = "error"
  BY <1>1, <1>2, FinishView
<1>4. r.applied \in BOOLEAN /\ r.error \in BOOLEAN
  BY <1>1 DEF Carried, IsOutcome
<1>5. e.how \in Idle => (local \/ (~r.applied /\ ~r.error))
  <2> SUFFICES ASSUME ~local, e.how \in Idle PROVE ~r.applied /\ ~r.error
    OBVIOUS
  <2>1. ~r.error
    BY <1>3 DEF Idle
  <2>2. r.applied => e.how \in {"error", "reverted"}
    <3> SUFFICES ASSUME r.applied PROVE e.how \in {"error", "reverted"}
      OBVIOUS
    <3> DEFINE kept == [x EXCEPT !.state = r.st, !.rule = None]
    <3>1. r.update.origin = "History"
      BY <1>1
    <3>2. e = Take(kept, r, FALSE, soon, was)
      BY <2>1, <3>1 DEF Finish
    <3> HIDE DEF kept
    <3>3. Take(kept, r, FALSE, soon, was) =
            Ended(Record([kept EXCEPT !.state = r.st], r.update, soon, was), "reverted", Some(r.update))
      BY <2>1 DEF Take
    <3> QED
      <4>1. \A a, b : Ended(a, "reverted", b).how = "reverted"
        BY DEF Ended
      <4> HIDE DEF e
      <4>2. e.how = "reverted"
        BY <3>2, <3>3, <4>1
      <4> QED
        BY <4>2
  <2> QED
    BY <2>1, <2>2 DEF Idle
<1> HIDE DEF e
<1>6. IsCtx(e.ctx) /\ Follows(c.state.doc, e.ctx.state.doc) /\ e = Ended(e.ctx, e.how, e.update)
      /\ e.how \in {"error", "none", "refused", "applied", "reverted"}
  BY <1>1, <1>3 DEF IsEnded
<1>7. ASSUME Remembers(c), e.how # "error" PROVE Remembers(e.ctx)
  BY <1>1, <1>3, <1>7, <1>4 DEF Keeps, Remembers, was
<1>8. ASSUME e.how \in Idle
      PROVE  /\ Twins(c.state.doc, e.ctx.state.doc) /\ e.ctx.state.selection = c.state.selection
             /\ e.ctx.done = c.done /\ e.ctx.undone = c.undone
  BY <1>6, <1>8, <1>3, <1>1, <1>5 DEF Idle, IsEnded
<1>9. IsEnding(c, e)
  BY <1>6, <1>7, <1>8 DEF IsEnding, Follows
<1>10. ASSUME e.how = "applied"
       PROVE  e.update # None /\ IsSteps(Reverse(e.update[1].inverses)) /\ e.update[1].before = c.state.selection
  BY <1>3, <1>10, <1>1, StepsView DEF IsEnded, IsUpdate
<1> QED
  BY <1>6, <1>9, <1>10 DEF e, x, r, was

\* What is noted after a call: the open group, and the input rule it applied.
LEMMA AfterCallView ==
    ASSUME NEW c, NEW e, IsEnding(c, e), e = Ended(e.ctx, e.how, e.update), NEW call, NEW r,
           IsState(c.state),
           call.do = "type" => IsChars(call.text),
           e.how = "applied" => e.update # None /\ IsSteps(Reverse(e.update[1].inverses))
                                /\ e.update[1].before = c.state.selection
    PROVE  LET f == AfterCall(call, r, e)
           IN  IsEnding(c, f) /\ f.how = e.how
<1> DEFINE trace == Trace(state, e.ctx.state, call.text, e.update[1])
           f == AfterCall(call, r, e)
           open == [e.ctx EXCEPT !.group = group]
           shut == [e.ctx EXCEPT !.group = None]
           ruled == [e.ctx EXCEPT !.rule = Some(trace)]
           applied == call.do = "type" /\ e.how = "applied"
<1>1. \/ f = [e EXCEPT !.ctx.group = group] \/ f = [e EXCEPT !.ctx.group = None]
      \/ f = [e EXCEPT !.ctx.rule = Some(trace)] /\ applied
      \/ f = e
  BY DEF AfterCall
<1>2. \A x : [e EXCEPT !.ctx = x].ctx = x /\ [e EXCEPT !.ctx = x].how = e.how
  BY DEF Ended
<1>3. /\ [e EXCEPT !.ctx.group = group] = [e EXCEPT !.ctx = open]
      /\ [e EXCEPT !.ctx.group = None] = [e EXCEPT !.ctx = shut]
      /\ [e EXCEPT !.ctx.rule = Some(trace)] = [e EXCEPT !.ctx = ruled]
  OBVIOUS
<1>4. IsCtx(e.ctx)
  BY DEF IsEnding
<1>5. applied => IsTrace(Some(trace))
  <2> SUFFICES ASSUME applied PROVE IsTrace(Some(trace))
    OBVIOUS
  <2>1. trace.undo = Reverse(e.update[1].inverses) /\ trace.before = e.update[1].before /\ trace.typed = call.text
    BY DEF Trace
  <2>2. IsSelection(trace.before) /\ IsSteps(trace.undo) /\ IsChars(trace.typed)
    BY <2>1 DEF IsState, Fits
  <2> HIDE DEF trace
  <2>3. Some(trace)[1] = trace
    BY DEF Some
  <2> QED
    BY <2>2, <2>3 DEF IsTrace
<1>6. /\ CtxIs(open, e.ctx.state, e.ctx.done, e.ctx.undone, group, e.ctx.rule)
      /\ CtxIs(shut, e.ctx.state, e.ctx.done, e.ctx.undone, None, e.ctx.rule)
      /\ CtxIs(ruled, e.ctx.state, e.ctx.done, e.ctx.undone, e.ctx.group, Some(trace))
  <2> DEFINE x == e.ctx
  <2>1. IsA(x, CtxFields)
    BY <1>4 DEF IsCtx
  <2> DEFINE t == Some(trace)
  <2> HIDE DEF x, t, trace
  <2>2. /\ CtxIs([x EXCEPT !.group = group], x.state, x.done, x.undone, group, x.rule)
        /\ CtxIs([x EXCEPT !.group = None], x.state, x.done, x.undone, None, x.rule)
        /\ CtxIs([x EXCEPT !.rule = t], x.state, x.done, x.undone, x.group, t)
    BY <2>1, CtxWith
  <2> QED
    BY <2>2 DEF x, t
<1> DEFINE Same(x) == IsCtx(x) /\ x.state = e.ctx.state /\ x.done = e.ctx.done /\ x.undone = e.ctx.undone
<1> HIDE DEF open, shut, ruled, trace, applied, f
<1>7. Same(open) /\ Same(shut) /\ (applied => Same(ruled)) /\ Same(e.ctx)
  BY <1>4, <1>5, <1>6 DEF IsCtx, CtxIs
<1>8. Same(f.ctx) /\ f.how = e.how
  <2>1. CASE f = [e EXCEPT !.ctx.group = group]
    BY <1>2, <1>3, <2>1, <1>7
  <2>2. CASE f = [e EXCEPT !.ctx.group = None]
    BY <1>2, <1>3, <2>2, <1>7
  <2>3. CASE f = [e EXCEPT !.ctx.rule = Some(trace)] /\ applied
    BY <1>2, <1>3, <2>3, <1>7
  <2> QED
    BY <1>1, <1>7, <2>1, <2>2, <2>3
<1>9. IsEnding(c, f)
  BY <1>8 DEF IsEnding, Remembers
<1> QED
  BY <1>8, <1>9 DEF f

\* A call of the user's.
LEMMA CallEnds ==
    ASSUME IsCtx(Ctx), state.doc.saves = <<>>, NEW call, IsCall(call), PasteTransacts(state, call), Edit(call)
    PROVE  \E e : IsEnding(Ctx, e) /\ Becomes(e)
<1> DEFINE c == Closing(Ctx, call)
           o == Outcome(c, call)
           e == Finish(o.ctx, o.result, call.soon, Content(state.doc))
           f == AfterCall(call, o.result, e)
<1>1. Becomes(f)
  BY DEF Edit
<1>2. IsCtx(c) /\ c.state = state /\ c.done = done /\ c.undone = undone
  BY ClosingView DEF Ctx
<1> HIDE DEF c
<1>3. IsAttempt(c, call, o)
  BY <1>2, OutcomeView
<1> HIDE DEF o
<1>4. /\ IsEnding(c, e) /\ e = Ended(e.ctx, e.how, e.update)
      /\ e.how = "applied" => e.update # None /\ IsSteps(Reverse(e.update[1].inverses))
                              /\ e.update[1].before = c.state.selection
  <2> DEFINE soon == call.soon
  <2>1. e = Finish(o.ctx, o.result, soon, Content(c.state.doc))
    BY <1>2
  <2> HIDE DEF e, soon
  <2> QED
    BY <1>2, <1>3, <2>1, AttemptEnds
<1> HIDE DEF e
<1>5. IsState(c.state) /\ (call.do = "type" => IsChars(call.text))
  BY <1>2 DEF IsCtx, IsCall
<1>6. IsEnding(c, f)
  <2> DEFINE r == o.result
  <2> HIDE DEF r
  <2>1. IsEnding(c, AfterCall(call, r, e))
    BY <1>4, <1>5, AfterCallView
  <2> QED
    BY <2>1 DEF r
<1> HIDE DEF f
<1>7. IsEnding(Ctx, f)
  BY <1>2, <1>6 DEF IsEnding, Remembers, Ctx
<1> QED
  BY <1>1, <1>7

\* A copy changes nothing of the editor's, an edit of a collaborator's ends its
\* history.
LEMMA CopyEnds ==
    ASSUME IsCtx(Ctx), Copy
    PROVE  \E e : IsEnding(Ctx, e) /\ Becomes(e)
<1> DEFINE e == Ended(Ctx, "none", None)
<1>1. e.ctx = Ctx /\ e.how = "none"
  BY EndedView
<1>2. Becomes(e)
  BY DEF Copy
<1> HIDE DEF e
<1>3. Twins(Ctx.state.doc, Ctx.state.doc)
  BY TwinsAreEqual DEF IsCtx, IsState, IsDocument
<1>4. IsEnding(Ctx, e)
  BY <1>1, <1>3 DEF IsEnding
<1> QED
  BY <1>2, <1>4

\* Steps from elsewhere are recorded, or rejected and leave no trace.
LEMMA RemoteEnds ==
    ASSUME NEW c, IsCtx(c), NEW steps, IsSteps(steps), c = [f \in CtxFields |-> c[f]]
    PROVE  LET r == ApplyStepsTo(c.state, steps, "Remote", "Remote", None)
           IN  /\ r.error => IsEnding(c, Ended([c EXCEPT !.state = r.st], "rejected", None))
               /\ ~r.error => IsEnding(c, Ended([Record([c EXCEPT !.state = r.st], r.update, FALSE, None)
                                                  EXCEPT !.rule = None], "remote", Some(r.update)))
<1> DEFINE st == c.state
           r == ApplyStepsTo(st, steps, "Remote", "Remote", None)
           left == [c EXCEPT !.state = r.st]
           kept == Record(left, r.update, FALSE, None)
           free == [kept EXCEPT !.rule = None]
           lost == Ended(left, "rejected", None)
           got == Ended(free, "remote", Some(r.update))
<1>1. IsA(c, CtxFields) /\ IsState(st) /\ AreEntries(c.done) /\ AreEntries(c.undone) /\ IsTrace(c.rule)
  BY DEF IsCtx
<1>2. /\ Carried(st, r) /\ (r.applied => r.update.origin = "Remote")
      /\ r.error => SameState(st, r.st)
  BY <1>1, StepsCarry
<1>3. r.applied \/ r.error
  BY PlanEnds DEF ApplyStepsTo, Plan, Some, None
<1> HIDE DEF r
<1>4. IsState(r.st) /\ Follows(st.doc, r.st.doc) /\ (r.applied => IsUpdate(st, r.update, r.st))
  BY <1>2 DEF Carried
<1>5. CtxIs(left, r.st, c.done, c.undone, c.group, c.rule)
  BY <1>1, CtxWith
<1> HIDE DEF left
<1>6. IsCtx(left) /\ left.state = r.st /\ left.done = c.done /\ left.undone = c.undone
  BY <1>1, <1>4, <1>5 DEF CtxIs, IsCtx
<1>7. ASSUME r.error PROVE IsEnding(c, lost)
  <2>1. Twins(st.doc, r.st.doc) /\ r.st.selection = st.selection
    BY <1>2, <1>7 DEF SameState
  <2>2. lost.ctx = left /\ lost.how = "rejected"
    BY EndedView
  <2> HIDE DEF lost
  <2>3. Remembers(c) => Remembers(left)
    BY <1>6, <2>1, ChainOf DEF Remembers
  <2> QED
    BY <1>4, <1>6, <2>1, <2>2, <2>3 DEF IsEnding, Follows
<1>8. ASSUME ~r.error PROVE IsEnding(c, got)
  <2>1. r.update.origin = "Remote" /\ IsUpdate(st, r.update, left.state)
    BY <1>2, <1>3, <1>4, <1>6, <1>8
  <2>2. IsCtx(kept) /\ kept.state = left.state /\ kept.done = <<>> /\ kept.undone = <<>>
    <3> DEFINE u == r.update
               was == None
               soon == FALSE
    <3>1. u.origin \in {"Local", "History", "Remote"} /\ IsUpdate(st, u, left.state)
      BY <2>1
    <3>2. kept = Record(left, u, soon, was)
      OBVIOUS
    <3> HIDE DEF kept, u, was, soon
    <3>3. LET x == Record(left, u, soon, was)
          IN  /\ IsCtx(x) /\ x.state = left.state
              /\ u.origin = "Remote" => x.done = <<>> /\ x.undone = <<>>
      BY <1>1, <1>6, <3>1, RecordView
    <3> QED
      BY <2>1, <3>2, <3>3 DEF u
  <2> HIDE DEF kept
  <2>3. CtxIs(free, kept.state, kept.done, kept.undone, kept.group, None)
    BY <2>2, CtxWith DEF IsCtx
  <2> HIDE DEF free
  <2>4. IsCtx(free) /\ free.state = r.st /\ free.done = <<>> /\ free.undone = <<>>
    BY <1>6, <2>2, <2>3 DEF CtxIs, IsCtx, IsTrace
  <2>5. got.ctx = free /\ got.how = "remote"
    BY EndedView
  <2> HIDE DEF got
  <2>6. Remembers(free)
    BY <1>4, <2>4, ChainOf DEF Remembers, IsState, IsDocument
  <2> QED
    BY <1>4, <2>4, <2>5, <2>6 DEF IsEnding, Follows, Idle
<1> QED
  BY <1>7, <1>8 DEF r, left, kept, free, lost, got

-----------------------------------------------------------------------------
(***************************************************************************)
(* What the theorems take for granted of the setups: states to open with   *)
(* that are states, selections and steps that are typed, and commands that *)
(* keep to the contract.                                                   *)
(***************************************************************************)

SetupsAreTyped ==
    \A i \in DOMAIN Setups :
       /\ \A st \in Setups[i].starts : IsState(st) /\ st.doc.saves = <<>>
       /\ \A text \in Setups[i].texts : IsChars(text) /\ text # <<>>
       /\ \A cmds \in Setups[i].bindings \cup Setups[i].chains : Honest(cmds)
       /\ \A steps \in Setups[i].remote : IsSteps(steps)
       /\ \A s \in Setups[i].selections : IsSelection(s)

\* A paste made keeps to the contract of commands.
PastesTransact == \A call \in Calls : Edit(call) => PasteTransacts(state, call)

\* The calls a setup allows.
LEMMA CallsAreTyped ==
    ASSUME SetupsAreTyped, setup \in DOMAIN Setups, NEW call \in Calls
    PROVE  IsCall(call)
<1>1. /\ \A text \in Setup.texts : IsChars(text) /\ text # <<>>
      /\ \A cmds \in Setup.bindings \cup Setup.chains : Honest(cmds)
      /\ \A s \in Setup.selections : IsSelection(s)
  BY DEF SetupsAreTyped, Setup
<1>2. CASE call \in [do : {"type", "setPreedit", "commitPreedit"}, text : Setup.texts, soon : BOOLEAN]
  BY <1>1, <1>2 DEF IsCall
<1>3. CASE call \in [do : {"press"}, cmds : Setup.bindings, soon : BOOLEAN]
  BY <1>1, <1>3 DEF IsCall
<1>4. CASE call \in [do : {"cancelPreedit", "cut"}, soon : BOOLEAN]
  BY <1>4 DEF IsCall
<1>5. CASE call \in [do : {"chain"}, cmds : Setup.chains, soon : {FALSE}]
  BY <1>1, <1>5 DEF IsCall
<1>6. CASE call \in [do : {"select"}, to : Setup.selections, soon : {FALSE}]
  BY <1>1, <1>6 DEF IsCall
<1>7. CASE call \in [do : {"paste"}, slice : {clipboard} \cup Setup.clips, soon : {FALSE}]
  BY <1>7 DEF IsCall
<1>8. CASE call \in [do : {"undo", "redo"}, soon : {FALSE}]
  BY <1>8 DEF IsCall
<1> QED
  BY <1>2, <1>3, <1>4, <1>5, <1>6, <1>7, <1>8, Zenon DEF Calls

-----------------------------------------------------------------------------
(***************************************************************************)
(* The editor.                                                             *)
(***************************************************************************)

\* What every call relies on and keeps.
Sound == setup \in DOMAIN Setups /\ IsCtx(Ctx) /\ state.doc.saves = <<>>
IdleLeaves ==
    reply' \in Idle => /\ Content(state'.doc) = Content(state.doc) /\ state'.selection = state.selection
                       /\ done' = done /\ undone' = undone

\* A step of the editor keeps it in order, leaves no trace when it answers
\* that it did nothing, and keeps a history that leads to the document unless a
\* call failed.
LEMMA StepEnds ==
    ASSUME SetupsAreTyped, Sound, Next, PastesTransact
    PROVE  /\ Sound' /\ IdleLeaves
           /\ Remembers(Ctx) /\ reply' # "error" => Remembers(Ctx')
<1>1. \E e : IsEnding(Ctx, e) /\ Becomes(e)
  <2>1. CASE \E call \in Calls : Edit(call)
    <3>1. PICK call \in Calls : Edit(call)
      BY <2>1
    <3>2. IsCall(call)
      BY CallsAreTyped DEF Sound
    <3>3. PasteTransacts(state, call)
      BY <3>1 DEF PastesTransact
    <3> QED
      BY <3>1, <3>2, <3>3, CallEnds DEF Sound
  <2>2. CASE Copy
    BY <2>2, CopyEnds DEF Sound
  <2>3. CASE ApplyRemote
    <3>1. PICK steps \in Setup.remote :
            LET Received(r) ==
                  IF r.error THEN Ended([Ctx EXCEPT !.state = r.st], "rejected", None)
                  ELSE Ended([Record([Ctx EXCEPT !.state = r.st], r.update, FALSE, None) EXCEPT !.rule = None],
                             "remote", Some(r.update))
            IN  Becomes(Received(ApplyStepsTo(state, steps, "Remote", "Remote", None)))
      BY <2>3 DEF ApplyRemote
    <3> DEFINE r == ApplyStepsTo(state, steps, "Remote", "Remote", None)
               lost == Ended([Ctx EXCEPT !.state = r.st], "rejected", None)
               got == Ended([Record([Ctx EXCEPT !.state = r.st], r.update, FALSE, None) EXCEPT !.rule = None],
                            "remote", Some(r.update))
    <3>2. Becomes(IF r.error THEN lost ELSE got)
      BY <3>1
    <3>3. (r.error => IsEnding(Ctx, lost)) /\ (~r.error => IsEnding(Ctx, got))
      <4>1. IsSteps(steps)
        BY DEF SetupsAreTyped, Setup, Sound
      <4> DEFINE c == Ctx
      <4>2. IsCtx(c) /\ c = [f \in CtxFields |-> c[f]] /\ c.state = state
        BY DEF Sound, IsCtx, IsA, Ctx
      <4> DEFINE q == ApplyStepsTo(c.state, steps, "Remote", "Remote", None)
      <4>3. q = r
        BY <4>2
      <4> HIDE DEF c
      <4>4. /\ q.error => IsEnding(c, Ended([c EXCEPT !.state = q.st], "rejected", None))
            /\ ~q.error => IsEnding(c, Ended([Record([c EXCEPT !.state = q.st], q.update, FALSE, None)
                                                EXCEPT !.rule = None], "remote", Some(q.update)))
        BY <4>1, <4>2, RemoteEnds, Zenon
      <4> HIDE DEF q, r
      <4> QED
        BY <4>3, <4>4, Zenon DEF c
    <3> HIDE DEF lost, got
    <3>4. CASE r.error
      BY <3>2, <3>3, <3>4
    <3>5. CASE ~r.error
      BY <3>2, <3>3, <3>5
    <3> QED
      BY <3>4, <3>5
  <2> QED
    BY <2>1, <2>2, <2>3 DEF Next
<1>2. PICK e : IsEnding(Ctx, e) /\ Becomes(e)
  BY <1>1
<1> DEFINE x == e.ctx
<1>3. /\ setup' = setup /\ state' = x.state /\ done' = x.done /\ undone' = x.undone
      /\ group' = x.group /\ rule' = x.rule /\ reply' = e.how
  BY <1>2 DEF Becomes
<1>4. IsCtx(x)
  BY <1>2 DEF IsEnding
<1> HIDE DEF x
<1>5. Ctx' = x
  BY <1>4, <1>3 DEF IsCtx, IsA, Ctx, CtxFields
<1>6. Ctx.state = state /\ Ctx.done = done /\ Ctx.undone = undone
  BY DEF Ctx
<1>7. state.doc.saves = <<>> => x.state.doc.saves = <<>>
  BY <1>2, <1>6 DEF IsEnding, x
<1>8. Sound'
  BY <1>3, <1>4, <1>5, <1>7 DEF Sound
<1>9. Remembers(Ctx) /\ reply' # "error" => Remembers(Ctx')
  BY <1>2, <1>3, <1>5 DEF IsEnding, x
<1>10. IdleLeaves
  BY <1>2, <1>3, <1>6, TwinsAreEqual DEF IdleLeaves, IsEnding, x
<1> QED
  BY <1>8, <1>9, <1>10

\* An editor opened on a state is in order and remembers nothing.
LEMMA InitSound ==
    ASSUME SetupsAreTyped, Init
    PROVE  Sound /\ Remembers(Ctx)
<1>1. setup \in DOMAIN Setups /\ IsState(state) /\ state.doc.saves = <<>>
  BY DEF Init, SetupsAreTyped, Setup
<1>2. Ctx.state = state /\ Ctx.done = <<>> /\ Ctx.undone = <<>> /\ Ctx.rule = None /\ IsA(Ctx, CtxFields)
  BY DEF Ctx, Init, IsA, CtxFields
<1>3. IsCtx(Ctx)
  BY <1>1, <1>2, EntriesView DEF IsCtx, IsTrace
<1>4. Remembers(Ctx)
  BY <1>1, <1>2, ChainOf DEF Remembers, IsState, IsDocument
<1> QED
  BY <1>1, <1>3, <1>4 DEF Sound

\* Nothing changes where nothing happens.
LEMMA StutterSound ==
    ASSUME UNCHANGED vars
    PROVE  (Sound => Sound') /\ (Remembers(Ctx) => Remembers(Ctx'))
<1>1. Ctx' = Ctx /\ setup' = setup /\ state' = state
  BY DEF vars, Ctx
<1> QED
  BY <1>1 DEF Sound

\* What Sound is made of, in the terms of the properties.
LEMMA SoundShows ==
    ASSUME Sound
    PROVE  DocumentIsSound /\ TransientFits /\ (Remembers(Ctx) => HistoryRetraces)
<1> DEFINE d == state.doc
<1>1. /\ IsState(state) /\ AreEntries(done) /\ AreEntries(undone) /\ d.saves = <<>>
  BY DEF Sound, IsCtx, Ctx
<1>2. IsDocument(d) /\ WellFormed(d) /\ Ids(d) /\ d.root # <<>> /\ Fits(d, state.selection)
      /\ Composes(d, state.composition)
  BY <1>1 DEF IsState, IsDocument
<1>3. DocumentIsSound
  BY <1>2, ReadingOrderIsComplete, <1>1 DEF Ids, AreEntries, IsEntry, IsSteps, IsTyped, DocumentIsSound
<1>4. TransientFits
  BY <1>2 DEF TransientFits, Fits, Composes, IsPart, TextLen
<1>5. Remembers(Ctx) => HistoryRetraces
  BY <1>1, ChainRetraces DEF Remembers, Ctx, HistoryRetraces
<1> QED
  BY <1>3, <1>4, <1>5

\* The document stays the tree the schema describes.
THEOREM DocumentStaysSound ==
    ASSUME SetupsAreTyped
    PROVE  Spec /\ [][PastesTransact]_vars => []DocumentIsSound
<1>1. Init => Sound
  BY InitSound
<1>2. Sound /\ [Next]_vars /\ [PastesTransact]_vars => Sound'
  BY StepEnds, StutterSound
<1>3. Sound => DocumentIsSound
  BY SoundShows
<1> QED
  BY <1>1, <1>2, <1>3, PTL DEF Spec

\* The caret and the composition lie in text that is there, whatever was typed,
\* received or undone in between (state.rs, ensure_selection and map_composition).
THEOREM TransientAlwaysFits ==
    ASSUME SetupsAreTyped
    PROVE  Spec /\ [][PastesTransact]_vars => []TransientFits
<1>1. Init => Sound
  BY InitSound
<1>2. Sound /\ [Next]_vars /\ [PastesTransact]_vars => Sound'
  BY StepEnds, StutterSound
<1>3. Sound => TransientFits
  BY SoundShows
<1> QED
  BY <1>1, <1>2, <1>3, PTL DEF Spec

\* As long as no call fails, undoing the entries one after another, or redoing
\* them, applies and brings back what was there (history.rs, undo and redo).
THEOREM HistoryAlwaysRetraces ==
    ASSUME SetupsAreTyped
    PROVE  Spec /\ [][PastesTransact]_vars /\ []NothingFails => []HistoryRetraces
<1> DEFINE Inv == Sound /\ Remembers(Ctx)
<1>1. Init => Inv
  BY InitSound
<1>2. Inv /\ [Next]_vars /\ [PastesTransact]_vars /\ NothingFails' => Inv'
  BY StutterSound, StepEnds DEF NothingFails
<1>3. Inv => HistoryRetraces
  BY SoundShows
<1> HIDE DEF Inv
<1> QED
  BY <1>1, <1>2, <1>3, PTL DEF Spec

\* A call that answers that it did nothing, was refused or rejected has changed
\* neither the content a reader sees nor selection or history (editor.rs, the
\* reverts on refusal; transaction.rs, rollback).
THEOREM IdleCallsLeaveNoTrace ==
    ASSUME SetupsAreTyped
    PROVE  Spec /\ [][PastesTransact]_vars => [][IdleLeaves]_vars
<1>1. Init => Sound
  BY InitSound
<1>2. Sound /\ [Next]_vars /\ [PastesTransact]_vars => Sound' /\ [IdleLeaves]_vars
  BY StepEnds, StutterSound
<1> QED
  BY <1>1, <1>2, PTL DEF Spec

(***************************************************************************)
(* What the registered commands plan.                                      *)
(***************************************************************************)

\* A part of a text block that a selection covers.
IsSpan(d, x) == IsText(d, x.block) /\ x.from \in Nat /\ x.to \in Nat
SpansOf(d, order, from, to) ==
    [i \in DOMAIN order |->
       [block |-> order[i],
        from  |-> IF order[i] = from.block THEN from.offset ELSE 0,
        to    |-> IF order[i] = to.block THEN to.offset ELSE TextLen(d, order[i])]]

\* Selected text is a list of such parts.
LEMMA SpansView ==
    ASSUME NEW d, WellFormed(d), NEW S, NEW from, NEW to, PointOk(from), PointOk(to)
    PROVE  LET q == SpansOf(d, Among(TextBlocks(d), S), from, to)
           IN  q \in Seq(ToSet(q)) /\ Len(q) \in Nat /\ \A x \in ToSet(q) : IsSpan(d, x)
<1> DEFINE texts == {b \in Blocks(d) : IsText(d, b)}
           order == Among(TextBlocks(d), S)
           q == SpansOf(d, order, from, to)
           Span(b) == [block |-> b, from  |-> IF b = from.block THEN from.offset ELSE 0,
                       to |-> IF b = to.block THEN to.offset ELSE TextLen(d, b)]
<1>1. DocOrder(d) \in Seq(Blocks(d))
  BY ReadingOrderIsComplete
<1>2. TextBlocks(d) \in Seq(texts)
  BY <1>1, AmongView DEF TextBlocks
<1>3. order \in Seq(texts)
  BY <1>2, AmongView
<1> HIDE DEF order
<1>4. Len(order) \in Nat /\ DOMAIN order = 1 .. Len(order) /\ \A i \in 1 .. Len(order) : order[i] \in texts
  BY <1>3
<1>5. q = [i \in 1 .. Len(order) |-> Span(order[i])]
  BY <1>4 DEF SpansOf
<1> DEFINE T == {Span(b) : b \in texts}
<1>6. q \in Seq(T)
  <2> HIDE DEF Span
  <2>1. q \in [1 .. Len(order) -> T]
    BY <1>4, <1>5
  <2> QED
    BY <1>4, <2>1, SeqDef
<1>7. \A b \in texts : IsSpan(d, Span(b))
  BY IndexView DEF PointOk, IsSpan
<1> HIDE DEF Span, q
<1>8. \A x \in T : IsSpan(d, x)
  BY <1>7
<1> HIDE DEF T
<1>9. q \in Seq(ToSet(q)) /\ ToSet(q) \subseteq T /\ Len(q) \in Nat
  BY <1>6, MemberOf, LenProperties
<1> QED
  BY <1>8, <1>9 DEF q, order

\* So it is for every selection.
LEMMA SelectedTextView ==
    ASSUME NEW d, WellFormed(d), NEW s, IsSelection(s)
    PROVE  LET q == SelectedText(d, s)
           IN  q \in Seq(ToSet(q)) /\ Len(q) \in Nat /\ \A x \in ToSet(q) : IsSpan(d, x)
<1> DEFINE r == TextRange(d, s)
           opt == SiblingRange(d, s.first, s.last)
           S == {b \in Blocks(d) : /\ OrderOf(d, r.from.block) <= OrderOf(d, b)
                                   /\ OrderOf(d, b) <= OrderOf(d, r.to.block)}
           U == IF opt = None THEN {} ELSE ToSet(Walk(d.nodes, SiblingIds(d, opt[1])))
<1>1. SelectedText(d, s) = IF s.sel = "text" THEN SpansOf(d, Among(TextBlocks(d), S), r.from, r.to)
                           ELSE SpansOf(d, Among(TextBlocks(d), U), NoPoint, NoPoint)
  BY DEF SelectedText, SpansOf
<1> HIDE DEF S, U
<1>2. CASE s.sel = "text"
  <2>1. PointOk(r.from) /\ PointOk(r.to)
    BY <1>2, RangeView
  <2> HIDE DEF r
  <2> QED
    BY <1>1, <1>2, <2>1, SpansView
<1>3. CASE s.sel # "text"
  BY <1>1, <1>3, SpansView DEF PointOk, NoPoint, Point
<1> QED
  BY <1>2, <1>3

\* A script with one instruction for each element of a list.
LEMMA ScriptFor ==
    ASSUME NEW T, NEW q \in Seq(T), NEW p, p = [i \in DOMAIN q |-> p[i]],
           \A i \in 1 .. Len(q) : q[i] \in T => IsInstruction(p[i])
    PROVE  IsScript(p)
<1>1. Len(q) \in Nat /\ DOMAIN q = 1 .. Len(q) /\ \A i \in 1 .. Len(q) : q[i] \in T
  OBVIOUS
<1>2. p = [i \in 1 .. Len(q) |-> p[i]] /\ \A i \in 1 .. Len(q) : IsInstruction(p[i])
  BY <1>1
<1> QED
  BY <1>1, <1>2, ScriptOf

\* A mark toggled, a block retyped.
LEMMA ToggleMarkPlan ==
    ASSUME NEW st, IsState(st), NEW m
    PROVE  IsLocalPlan(ToggleMark(st, m))
<1> DEFINE spans == SelectedText(st.doc, st.selection)
           ranges == NonEmptyRanges(st)
           marks == ActiveMarks(st)
           active == IsMarkActive(st.doc, m, ranges, marks)
           Paint(x) == IF active THEN RemoveMarkStep(x.block, x.from, x.to, m) ELSE AddMarkStep(x.block, x.from, x.to, m)
           new == IF active THEN marks \ {m} ELSE (marks \ Excludes[m]) \cup {m}
           script == [i \in DOMAIN ranges |-> Paint(ranges[i])]
<1>1. WellFormed(st.doc) /\ IsSelection(st.selection)
  BY DEF IsState, IsDocument, Fits
<1>2. spans \in Seq(ToSet(spans)) /\ \A x \in ToSet(spans) : IsSpan(st.doc, x)
  BY <1>1, SelectedTextView
<1>3. ranges \in Seq(ToSet(spans))
  BY <1>2, AmongView DEF NonEmptyRanges
<1>4. ToggleMark(st, m) = IF ranges = <<>> THEN StoreMarks(st, new) ELSE Plan(script, Local("Formatting"))
  BY DEF ToggleMark
<1>5. IsLocalPlan(StoreMarks(st, new))
  <2> DEFINE kept == Some(Some(new))
             fx == [Local("Selection") EXCEPT !.stored = kept]
  <2>2. StoreMarks(st, new) = IF ~IsCaret(st.selection) THEN None ELSE Plan(<<>>, fx)
    BY DEF StoreMarks
  <2> HIDE DEF kept, new
  <2>1. IsEffects(fx) /\ fx.composition = None /\ fx.origin = "Local"
    BY EffectsOf, Zenon
  <2> HIDE DEF fx
  <2> QED
    BY <2>1, <2>2, ScriptOf, LocalPlans
<1>6. \A x \in ToSet(spans) : IsInstruction(Paint(x))
  <2> HIDE DEF active, spans
  <2>1. \A x \in ToSet(spans) : IsTyped(RemoveMarkStep(x.block, x.from, x.to, m)) /\ IsTyped(AddMarkStep(x.block, x.from, x.to, m))
    BY <1>2, StepsAre DEF IsSpan
  <2> QED
    BY <2>1, InstructionsAre
<1> HIDE DEF Paint, ranges, spans
<1>7. IsScript(script)
  <2>1. script = [i \in DOMAIN ranges |-> script[i]] /\ \A i \in 1 .. Len(ranges) : script[i] = Paint(ranges[i])
    BY <1>3
  <2> HIDE DEF script
  <2> QED
    BY <1>3, <1>6, <2>1, ScriptFor
<1> HIDE DEF script, new
<1> QED
  BY <1>4, <1>5, <1>7, LocalPlans

\* A block of another type, or with other attributes.
LEMMA SetBlockPlans ==
    ASSUME NEW st, IsState(st), NEW kind, NEW attr
    PROVE  /\ IsLocalPlan(SetBlockType(st, kind, attr))
           /\ \A b : IsLocalPlan(SetBlockAttrs(st, b, attr))
           /\ \A b : IsLocalPlan(ResetEmptyBlock(st, b))
<1> DEFINE d == st.doc
           all == SelectedTextBlocks(st)
           blocks == Among(all, {b \in Blocks(d) : Allows(d, Parent(d, b), kind)})
           S(b) == SetBlockStep(b, kind, attr)
           script == [i \in DOMAIN blocks |-> S(blocks[i])]
           spans == SelectedText(d, st.selection)
<1>1. WellFormed(d) /\ IsSelection(st.selection)
  BY DEF IsState, IsDocument, Fits
<1>2. spans \in Seq(ToSet(spans)) /\ Len(spans) \in Nat
  BY <1>1, SelectedTextView
<1>3. all \in Seq({x.block : x \in ToSet(spans)})
  <2>1. all = [i \in DOMAIN spans |-> spans[i].block]
    BY DEF SelectedTextBlocks
  <2> HIDE DEF all, spans
  <2> DEFINE T == {x.block : x \in ToSet(spans)}
  <2>2. DOMAIN spans = 1 .. Len(spans) /\ \A i \in 1 .. Len(spans) : spans[i] \in ToSet(spans)
    BY <1>2
  <2>3. all \in [1 .. Len(spans) -> T]
    BY <2>1, <2>2
  <2> QED
    BY <1>2, <2>3, SeqDef
<1>4. blocks \in Seq({x.block : x \in ToSet(spans)})
  BY <1>3, AmongView
<1>5. \A b, k, a : IsInstruction(SetBlockStep(b, k, a)) /\ IsScript(<<SetBlockStep(b, k, a)>>)
  BY StepsAre, InstructionsAre, ScriptOf
<1> HIDE DEF blocks
<1>6. IsScript(script)
  <2> HIDE DEF S
  <2>1. \A b \in {x.block : x \in ToSet(spans)} : IsInstruction(S(b))
    BY <1>5 DEF S
  <2> QED
    <3>1. script = [i \in DOMAIN blocks |-> script[i]] /\ \A i \in 1 .. Len(blocks) : script[i] = S(blocks[i])
      BY <1>4
    <3> HIDE DEF script
    <3> QED
      BY <1>4, <2>1, <3>1, ScriptFor
<1>7. SetBlockType(st, kind, attr) =
        IF ContentOf[kind] # "inline" \/ blocks = <<>> THEN None ELSE Plan(script, Local("Structure"))
  BY DEF SetBlockType, blocks
<1>8. IsLocalPlan(SetBlockType(st, kind, attr))
  <2> HIDE DEF script
  <2> QED
    BY <1>6, <1>7, LocalPlans
<1>9. ASSUME NEW b PROVE IsLocalPlan(SetBlockAttrs(st, b, attr))
  BY <1>5, LocalPlans DEF SetBlockAttrs
<1>10. ASSUME NEW b PROVE IsLocalPlan(ResetEmptyBlock(st, b))
  BY CaretIs, <1>5, LocalPlans DEF ResetEmptyBlock
<1> QED
  BY <1>8, <1>9, <1>10

\* The first text of a document, and its first block.
LEMMA FirstBlocks ==
    ASSUME NEW d, WellFormed(d)
    PROVE  /\ TextBlocks(d) # <<>> => IsText(d, TextBlocks(d)[1])
           /\ d.root # <<>> => d.root[1] \in Blocks(d) /\ Last(d.root) \in Blocks(d)
                               /\ Parent(d, d.root[1]) = Root /\ Parent(d, Last(d.root)) = Root
<1> DEFINE texts == {c \in Blocks(d) : IsText(d, c)}
<1>1. DocOrder(d) \in Seq(Blocks(d))
  BY ReadingOrderIsComplete
<1>2. TextBlocks(d) \in Seq(texts)
  BY <1>1, AmongView DEF TextBlocks
<1>3. TextBlocks(d) # <<>> => TextBlocks(d)[1] \in texts
  <2> HIDE DEF texts
  <2> SUFFICES ASSUME TextBlocks(d) # <<>> PROVE TextBlocks(d)[1] \in texts
    OBVIOUS
  <2>1. Len(TextBlocks(d)) \in Nat /\ Len(TextBlocks(d)) # 0
    BY <1>2, LenProperties, EmptySeq
  <2> QED
    BY <1>2, <2>1, ElementOfSeq
<1>4. ASSUME d.root # <<>>
      PROVE  d.root[1] \in ToSet(d.root) /\ Last(d.root) \in ToSet(d.root)
  <2>1. d.root \in Seq(Blocks(d))
    BY DEF WellFormed, Linked, Kids, Root
  <2>2. Len(d.root) \in Nat /\ Len(d.root) # 0 /\ DOMAIN d.root = 1 .. Len(d.root)
    BY <1>4, <2>1, LenProperties, EmptySeq
  <2> QED
    BY <2>1, <2>2, MemberOf DEF Last
<1>5. \A b \in ToSet(d.root) : b \in Blocks(d) /\ Parent(d, b) = Root
  BY MemberOf DEF Kids, WellFormed, Linked
<1> QED
  BY <1>3, <1>4, <1>5

\* A selection that fits is of text blocks, or of siblings.
LEMMA SelectionStands ==
    ASSUME NEW d, WellFormed(d), d.root # <<>>, NEW s, Fits(d, s)
    PROVE  /\ s.sel = "text" => /\ IsText(d, s.anchor.block) /\ IsText(d, s.head.block)
                                /\ s.anchor.offset <= TextLen(d, s.anchor.block)
                                /\ s.head.offset <= TextLen(d, s.head.block)
           /\ s.sel # "text" => {s.first, s.last} \subseteq Blocks(d) /\ Parent(d, s.first) = Parent(d, s.last)
<1>1. IsSelection(s) /\ s = ValidSelection(d, s)
  BY DEF Fits
<1>2. CASE s.sel = "text"
  <2>1. PointOk(s.anchor) /\ PointOk(s.head)
    BY <1>1, <1>2, RangeView
  <2>2. ASSUME NEW p, PointOk(p)
        PROVE  PointOk(Clamp(d, p)) /\ Clamp(d, p).block = p.block /\ Clamp(d, p).offset <= TextLen(d, p.block)
    BY <2>2, ClampView
  <2> DEFINE a == Clamp(d, s.anchor)
             h == Clamp(d, s.head)
  <2>3. PointOk(a) /\ PointOk(h)
    BY <2>1, <2>2
  <2>4. CASE IsText(d, s.anchor.block) /\ IsText(d, s.head.block)
    <3>1. s = TextSelection(a, h)
      BY <1>1, <1>2, <2>4 DEF ValidSelection
    <3> HIDE DEF a, h
    <3>2. s.anchor = a /\ s.head = h
      BY <2>3, <3>1, SelectionFields
    <3> QED
      BY <1>2, <2>1, <2>2, <2>4, <3>2 DEF a, h
  <2>5. CASE IsText(d, s.anchor.block) /\ ~IsText(d, s.head.block)
    <3>1. s = Caret(a)
      BY <1>1, <1>2, <2>5 DEF ValidSelection
    <3> HIDE DEF a
    <3>2. s.head = a
      BY <2>3, <3>1, SelectionFields
    <3>3. s.head.block = s.anchor.block
      BY <2>1, <2>2, <3>2 DEF a
    <3> QED
      BY <2>5, <3>3
  <2>6. CASE ~IsText(d, s.anchor.block) /\ IsText(d, s.head.block)
    <3>1. s = Caret(h)
      BY <1>1, <1>2, <2>6 DEF ValidSelection
    <3> HIDE DEF h
    <3>2. s.anchor = h
      BY <2>3, <3>1, SelectionFields
    <3>3. s.head.block = s.anchor.block
      BY <2>1, <2>2, <3>2 DEF h
    <3> QED
      BY <2>6, <3>3
  <2>7. CASE ~IsText(d, s.anchor.block) /\ ~IsText(d, s.head.block)
    <3>1. s = StartSelection(d)
      BY <1>1, <1>2, <2>7 DEF ValidSelection
    <3> DEFINE b == TextBlocks(d)[1]
    <3>2. CASE TextBlocks(d) # <<>>
      <4>1. IsText(d, b)
        BY <3>2, FirstBlocks
      <4> HIDE DEF b
      <4>2. s = Caret(Point(b, 0))
        BY <3>1, <3>2 DEF StartSelection, b
      <4>3. s.head = Point(b, 0) /\ Point(b, 0).block = b
        BY <4>2, SelectionFields
      <4> QED
        BY <2>7, <4>1, <4>3
    <3>3. CASE TextBlocks(d) = <<>>
      BY <3>1, <3>3, SelectionFields, <1>2 DEF StartSelection
    <3> QED
      BY <3>2, <3>3
  <2> QED
    BY <2>4, <2>5, <2>6, <2>7
<1>3. CASE s.sel # "text"
  <2>1. s.sel = "blocks"
    BY <1>1, <1>3, SelectionView
  <2>2. CASE {s.first, s.last} \subseteq Blocks(d) /\ Parent(d, s.first) = Parent(d, s.last)
    BY <1>3, <2>2
  <2>3. CASE ~({s.first, s.last} \subseteq Blocks(d) /\ Parent(d, s.first) = Parent(d, s.last))
    <3>1. s = StartSelection(d)
      BY <1>1, <2>1, <2>3 DEF ValidSelection
    <3> DEFINE b == d.root[1]
               c == Point(TextBlocks(d)[1], 0)
    <3>2. s = IF TextBlocks(d) # <<>> THEN Caret(c) ELSE BlockSelection(b, b)
      BY <3>1 DEF StartSelection
    <3>3. Caret(c).sel = "text"
      BY SelectionFields
    <3>4. s = BlockSelection(b, b)
      BY <2>1, <3>2, <3>3
    <3>5. s.first = b /\ s.last = b
      BY <3>4, SelectionFields
    <3>6. b \in Blocks(d)
      BY FirstBlocks
    <3> HIDE DEF b
    <3> QED
      BY <1>3, <3>5, <3>6
  <2> QED
    BY <2>2, <2>3
<1> QED
  BY <1>2, <1>3

\* The ends of selected text are in the document, the first one first.
LEMMA CaretsInText ==
    ASSUME NEW st, IsState(st), st.selection.sel = "text"
    PROVE  LET r == TextRange(st.doc, st.selection)
               h == st.selection.head
           IN  /\ IsText(st.doc, h.block) /\ h.block \in Blocks(st.doc)
               /\ PointOk(h) /\ h.offset <= TextLen(st.doc, h.block)
               /\ IsText(st.doc, r.from.block) /\ r.from.block \in Blocks(st.doc)
               /\ PointOk(r.from) /\ r.from.offset <= TextLen(st.doc, r.from.block)
               /\ IsText(st.doc, r.to.block) /\ r.to.block \in Blocks(st.doc) /\ PointOk(r.to)
<1>1. WellFormed(st.doc) /\ st.doc.root # <<>> /\ Fits(st.doc, st.selection) /\ IsSelection(st.selection)
  BY DEF IsState, IsDocument, Fits
<1> DEFINE r == TextRange(st.doc, st.selection)
           s == st.selection
<1>2. /\ IsText(st.doc, s.anchor.block) /\ IsText(st.doc, s.head.block)
      /\ s.anchor.offset <= TextLen(st.doc, s.anchor.block)
      /\ s.head.offset <= TextLen(st.doc, s.head.block)
  BY <1>1, SelectionStands
<1>3. /\ PointOk(s.anchor) /\ PointOk(s.head) /\ PointOk(r.from) /\ PointOk(r.to)
      /\ r.from = s.anchor \/ r.from = s.head
      /\ r.to = s.anchor \/ r.to = s.head
  BY <1>1, RangeView
<1> HIDE DEF r
<1>4. \A b : IsText(st.doc, b) => b \in Blocks(st.doc)
  BY DEF IsText
<1> QED
  BY <1>2, <1>3, <1>4 DEF r

\* A copy of a container behind it, and blocks lifted out of theirs.
LEMMA LiftScript ==
    ASSUME NEW d, IsDocument(d), NEW c \in Blocks(d)
    PROVE  /\ \A at \in Nat : IsScript(SplitContainer(d, c, at))
           /\ \A index, count \in Nat : IsScript(Lift(d, c, index, count))
<1>1. /\ WellFormed(d) /\ d.next \in Nat \ {0} /\ d.nodes[c].kind \in Kinds
      /\ Index(d, c) \in Nat /\ Len(Kids(d, c)) \in Nat
  BY IndexView, NotItsOwnParent, KnownKinds DEF IsDocument, Ids
<1>2. ASSUME NEW at \in Nat PROVE IsScript(SplitContainer(d, c, at))
  <2> DEFINE n == Len(Kids(d, c))
             copy == InsertBlocksStep(Parent(d, c), Index(d, c) + 1, EmptyCopy(d, c, d.next))
             move == MoveBlocksStep(c, at, n - at, d.next, 0)
  <2>1. SplitContainer(d, c, at) = IF at >= n THEN <<>> ELSE <<copy, move>>
    BY DEF SplitContainer
  <2>2. IsInstruction(copy)
    BY <1>1, FreshStep, InstructionsAre DEF EmptyCopy
  <2>3. at < n => IsInstruction(move)
    BY <1>1, StepsAre, InstructionsAre
  <2> HIDE DEF copy, move
  <2>4. CASE at >= n
    BY <2>1, <2>4, ScriptOf
  <2>5. CASE ~(at >= n)
    BY <1>1, <2>5, <2>1, <2>2, <2>3, ShortScripts
  <2> QED
    BY <2>4, <2>5
<1>3. ASSUME NEW index \in Nat, NEW count \in Nat PROVE IsScript(Lift(d, c, index, count))
  <2> DEFINE rest == SplitContainer(d, c, index + count)
             move == MoveBlocksStep(c, index, count, Parent(d, c), Index(d, c) + 1)
  <2>1. Lift(d, c, index, count) = rest \o <<move, PruneEmpty(c)>>
    BY DEF Lift
  <2>2. IsScript(rest)
    BY <1>2
  <2>3. IsInstruction(move) /\ IsInstruction(PruneEmpty(c))
    BY <1>1, StepsAre, InstructionsAre
  <2> HIDE DEF rest, move
  <2>4. IsScript(<<move, PruneEmpty(c)>>)
    BY <2>3, ShortScripts
  <2> QED
    BY <2>1, <2>2, <2>4, ScriptOf
<1> QED
  BY <1>2, <1>3

\* The commands that lift blocks.
LEMMA LiftPlans ==
    ASSUME NEW st, IsState(st)
    PROVE  /\ \A c : \A index, count \in Nat : IsLocalPlan(LiftFrom(st, c, index, count))
           /\ IsLocalPlan(LiftBlock(st)) /\ IsLocalPlan(LiftEmptyBlock(st))
<1> DEFINE d == st.doc
           opt == SelectedSiblings(d, st.selection)
           b == st.selection.head.block
<1>1. WellFormed(d) /\ IsDocument(d) /\ IsSelection(st.selection)
  BY DEF IsState, IsDocument, Fits
<1>2. ASSUME NEW c, NEW index \in Nat, NEW count \in Nat PROVE IsLocalPlan(LiftFrom(st, c, index, count))
  <2>1. CASE ~CanLift(d, c, index, count)
    BY <2>1, LocalPlans DEF LiftFrom
  <2>2. CASE CanLift(d, c, index, count)
    BY <2>2, <1>1, LiftScript, LocalPlans DEF CanLift, LiftFrom
  <2> QED
    BY <2>1, <2>2
<1>3. IsLocalPlan(LiftBlock(st))
  <2>1. LiftBlock(st) = IF opt = None THEN None ELSE IF opt[1].parent = Root THEN None
                        ELSE LiftFrom(st, opt[1].parent, opt[1].index, opt[1].count)
    BY DEF LiftBlock
  <2>2. opt # None => opt[1].index \in Nat /\ opt[1].count \in Nat
    BY <1>1, SiblingsView DEF MayRange, IsRange
  <2> HIDE DEF opt
  <2> QED
    BY <1>2, <2>1, <2>2, LocalPlans
<1>4. IsLocalPlan(LiftEmptyBlock(st))
  BY <1>1, CaretsInText, IndexView, <1>2, LocalPlans DEF LiftEmptyBlock, IsCaret
<1> QED
  BY <1>2, <1>3, <1>4

\* Backspace and Delete: blocks are joined, lifted, retyped or selected.
LEMMA JoinPlans ==
    ASSUME NEW st, IsState(st)
    PROVE  /\ \A t, b : IsLocalPlan(MergeInto(st, t, b))
           /\ \A b : IsLocalPlan(JoinBackward(st, b)) /\ IsLocalPlan(JoinForward(st, b))
<1> DEFINE d == st.doc
           stops == Stops(d)
<1>1. WellFormed(d) /\ IsDocument(d) /\ IsSelection(st.selection)
  BY DEF IsState, IsDocument, Fits
<1>2. ASSUME NEW t, NEW b PROVE IsLocalPlan(MergeInto(st, t, b))
  BY InstructionsAre, ShortScripts, <1>1, IndexView, CaretIs, LocalPlans DEF Merging, EndOf, MergeInto
<1>3. ASSUME NEW leaf, NEW b PROVE IsLocalPlan(SelectLeaf(st, leaf, b))
  <2> DEFINE script == <<RemoveBlock(b), PruneEmpty(Parent(d, b))>>
  <2>1. SelectLeaf(st, leaf, b) = Plan(IF TextLen(d, b) # 0 THEN <<>> ELSE script, With("Structure", BlockSelection(leaf, leaf)))
    BY DEF SelectLeaf
  <2>2. IsScript(script) /\ IsScript(<<>>)
    BY InstructionsAre, ShortScripts, ScriptOf
  <2>3. IsSelection(BlockSelection(leaf, leaf))
    BY SelectionFields
  <2> HIDE DEF script
  <2>4. IsScript(IF TextLen(d, b) # 0 THEN <<>> ELSE script)
    BY <2>2
  <2> QED
    BY <2>1, <2>3, <2>4, LocalPlans
<1>4. ASSUME NEW b PROVE IsLocalPlan(JoinBackward(st, b))
  <2> DEFINE p == Parent(d, b)
             i == PlaceIn(stops, b)
             first == IndexInParent(d, b) = 1
             lift == Plan(Lift(d, p, 0, 1), Local("Structure"))
             joined == IF i = 1 THEN None
                       ELSE IF IsText(d, stops[i - 1]) THEN MergeInto(st, stops[i - 1], b)
                       ELSE SelectLeaf(st, stops[i - 1], b)
  <2>1. JoinBackward(st, b) =
          IF first /\ p # Root /\ CanLift(d, p, 0, 1) THEN lift
          ELSE IF first /\ p = Root THEN ResetEmptyBlock(st, b) ELSE joined
    BY DEF JoinBackward
  <2>2. CanLift(d, p, 0, 1) => IsLocalPlan(lift)
    BY <1>1, LiftScript, LocalPlans DEF CanLift
  <2>3. IsLocalPlan(joined)
    <3> HIDE DEF stops, i
    <3> QED
      BY <1>2, <1>3, LocalPlans
  <2>4. IsLocalPlan(ResetEmptyBlock(st, b))
    BY SetBlockPlans
  <2> HIDE DEF lift, joined, p, first
  <2> QED
    BY <2>1, <2>2, <2>3, <2>4
<1>5. ASSUME NEW b PROVE IsLocalPlan(JoinForward(st, b))
  <2> DEFINE i == PlaceIn(stops, b)
  <2>1. JoinForward(st, b) = IF i = Len(stops) THEN None
                             ELSE IF IsText(d, stops[i + 1]) THEN MergeInto(st, b, stops[i + 1])
                             ELSE SelectLeaf(st, stops[i + 1], b)
    BY DEF JoinForward
  <2> HIDE DEF stops, i
  <2> QED
    BY <1>2, <1>3, <2>1, LocalPlans
<1> QED
  BY <1>2, <1>4, <1>5

\* Deleting backward and forward.
LEMMA DeletePlans ==
    ASSUME NEW st, IsState(st)
    PROVE  IsLocalPlan(DeleteBackward(st)) /\ IsLocalPlan(DeleteForward(st))
<1> DEFINE p == st.selection.head
           before == Point(p.block, p.offset - 1)
           after == Point(p.block, p.offset + 1)
<1>1. DeleteBackward(st) = IF ~IsCaret(st.selection) THEN DeleteSelection(st)
                           ELSE IF p.offset = 0 THEN JoinBackward(st, p.block)
                           ELSE DeleteSpan(st, before, p, "Deleting")
  BY DEF DeleteBackward
<1>2. DeleteForward(st) = IF ~IsCaret(st.selection) THEN DeleteSelection(st)
                          ELSE IF p.offset = TextLen(st.doc, p.block) THEN JoinForward(st, p.block)
                          ELSE DeleteSpan(st, p, after, "Deleting")
  BY DEF DeleteForward
<1>3. ASSUME IsCaret(st.selection)
      PROVE  /\ p.offset # 0 => IsLocalPlan(DeleteSpan(st, before, p, "Deleting"))
             /\ IsLocalPlan(DeleteSpan(st, p, after, "Deleting"))
  <2>1. PointOk(p)
    BY <1>3, CaretsInText DEF IsCaret
  <2>2. p.offset \in Nat
    BY <2>1 DEF PointOk
  <2>3. PointOk(after)
    BY <2>2, SelectionFields
  <2>4. p.offset # 0 => PointOk(before)
    BY <2>2, SelectionFields
  <2> HIDE DEF before, after
  <2> QED
    BY <2>1, <2>3, <2>4, DeleteSpanPlan
<1> HIDE DEF before, after
<1> QED
  BY <1>1, <1>2, <1>3, DeleteSelectionPlan, JoinPlans

\* Blocks put into a container.
LEMMA WrapPlan ==
    ASSUME NEW st, IsState(st), NEW kind
    PROVE  IsLocalPlan(WrapIn(st, kind))
<1> DEFINE d == st.doc
           opt == SelectedSiblings(d, st.selection)
           r == opt[1]
           put == InsertBlocksStep(r.parent, r.index, FreshTree(d.next, kind))
           move == MoveBlocksStep(r.parent, r.index + 1, r.count, d.next, 0)
<1>1. WellFormed(d) /\ d.next \in Nat \ {0} /\ IsSelection(st.selection)
  BY DEF IsState, IsDocument, Fits, Ids
<1>2. WrapIn(st, kind) = IF opt = None THEN None
                         ELSE IF ~CanWrap(d, r.parent, r.index, r.count, kind) THEN None
                         ELSE Plan(<<put, move>>, With("Structure", st.selection))
  BY DEF WrapIn, Wrap
<1>3. ASSUME opt # None, CanWrap(d, r.parent, r.index, r.count, kind)
      PROVE  IsLocalPlan(Plan(<<put, move>>, With("Structure", st.selection)))
  <2>1. r.index \in Nat /\ r.count \in Nat
    BY <1>1, <1>3, SiblingsView DEF MayRange, IsRange
  <2>2. kind \in Kinds
    BY <1>1, <1>3, KnownKinds DEF CanWrap, Allows
  <2> HIDE DEF opt
  <2>3. IsInstruction(put)
    BY <1>1, <2>1, <2>2, FreshStep, InstructionsAre
  <2>4. IsInstruction(move)
    BY <2>1, StepsAre, InstructionsAre
  <2> HIDE DEF put, move
  <2> QED
    BY <1>1, <2>3, <2>4, ShortScripts, LocalPlans
<1> HIDE DEF put, move, opt, r
<1> QED
  BY <1>2, <1>3, LocalPlans

\* A block out of the nearest container of a kind, or into a new one.
LEMMA ToggleWrapPlan ==
    ASSUME NEW st, IsState(st), NEW kind
    PROVE  IsLocalPlan(ToggleWrap(st, kind))
<1> DEFINE d == st.doc
           opt == SelectedSiblings(d, st.selection)
           r == opt[1]
           ids == SiblingIds(d, r)
           outers == Among(Tail(AncestorsOrSelf(d, Head(ids))), {a \in Blocks(d) : d.nodes[a].kind = kind})
           o == outers[1]
           Child(b) == Among(AncestorsOrSelf(d, b), ToSet(Kids(d, o)))[1]
           first == Index(d, Child(Head(ids)))
           last == Index(d, Child(Last(ids)))
<1>1. WellFormed(d) /\ IsSelection(st.selection)
  BY DEF IsState, IsDocument, Fits
<1>2. ToggleWrap(st, kind) =
        IF opt = None THEN None
        ELSE IF outers = <<>> THEN WrapIn(st, kind) ELSE LiftFrom(st, o, first, last - first + 1)
  BY DEF ToggleWrap
<1>3. ASSUME opt # None, outers # <<>> PROVE first \in Nat /\ last - first + 1 \in Nat
  <2> DEFINE head == Head(ids)
             end == Last(ids)
             kids == Kids(d, r.parent)
  <2>1. IsRange(d, r)
    BY <1>1, <1>3, SiblingsView DEF MayRange
  <2>2. /\ r.index \in Nat /\ r.count \in Nat \ {0} /\ r.parent \in Places(d)
        /\ r.index + r.count <= Len(kids)
    BY <2>1 DEF IsRange
  <2>3. /\ kids \in Seq(Blocks(d)) /\ IsInjective(kids) /\ Len(kids) \in Nat
        /\ \A b \in ToSet(kids) : Parent(d, b) = r.parent
    BY <1>1, <2>2 DEF WellFormed, Linked, Places
  <2>4. head = kids[r.index + 1] /\ end = kids[r.index + r.count]
    <3>1. /\ ids \in Seq(Blocks(d)) /\ Len(ids) = r.count
          /\ \A i \in 1 .. r.count : ids[i] = kids[r.index + i]
      BY <1>1, <2>1, SiblingIdsView
    <3>2. 1 \in 1 .. r.count /\ r.count \in 1 .. r.count
      BY <2>2
    <3> HIDE DEF ids, kids
    <3>3. Head(ids) = ids[1] /\ Last(ids) = ids[r.count]
      BY <3>1, <3>2 DEF Last
    <3> QED
      BY <3>1, <3>2, <3>3
  <2> HIDE DEF ids, opt, kids, head, end
  <2>5. r.index + 1 \in 1 .. Len(kids) /\ r.index + r.count \in 1 .. Len(kids)
    BY <2>2, <2>3
  <2>6. /\ head \in ToSet(kids) /\ end \in ToSet(kids) /\ head \in Blocks(d) /\ end \in Blocks(d)
        /\ PlaceIn(kids, head) = r.index + 1 /\ PlaceIn(kids, end) = r.index + r.count
    <3>1. PlaceIn(kids, kids[r.index + 1]) = r.index + 1
      BY <2>3, <2>5, PlaceOf
    <3>2. PlaceIn(kids, kids[r.index + r.count]) = r.index + r.count
      BY <2>3, <2>5, PlaceOf
    <3>3. kids[r.index + 1] \in ToSet(kids) /\ kids[r.index + r.count] \in ToSet(kids) /\ ToSet(kids) \subseteq Blocks(d)
      BY <2>3, <2>5, MemberOf
    <3> QED
      BY <2>4, <3>1, <3>2, <3>3
  <2>7. Parent(d, head) = r.parent /\ Parent(d, end) = r.parent
    BY <2>3, <2>6
  <2>8. o \in Blocks(d) /\ head \in Subtree(d, o) /\ o # head
    <3> DEFINE B == {a \in Blocks(d) : head \in Subtree(d, a) /\ a # head}
               q == Tail(AncestorsOrSelf(d, head))
    <3>1. q \in Seq(B)
      BY <1>1, <2>6, AncestorsChain
    <3> HIDE DEF B, q
    <3>2. outers \in Seq(B)
      BY <3>1, AmongView DEF q, head
    <3>3. Len(outers) \in Nat /\ Len(outers) # 0
      BY <1>3, <3>2, LenProperties, EmptySeq
    <3>4. o \in B
      BY <3>2, <3>3, ElementOfSeq
    <3> QED
      BY <3>4 DEF B
  <2> HIDE DEF outers, o
  <2>9. ASSUME NEW b \in Blocks(d), b \in Subtree(d, o), b # o
        PROVE  Child(b) \in ToSet(Kids(d, o)) /\ Child(b) \in Blocks(d) /\ b \in Subtree(d, Child(b))
    <3> DEFINE q == AncestorsOrSelf(d, b)
               K == ToSet(Kids(d, o))
               picked == Among(q, K)
    <3>1. PICK c \in K : c \in Blocks(d) /\ b \in Subtree(d, c)
      BY <1>1, <2>8, <2>9, BelowAChild
    <3>2. q \in Seq(Blocks(d)) /\ ToSet(q) = {a \in Blocks(d) : b \in Subtree(d, a)}
      BY <1>1, <2>9, AncestorsChain
    <3> HIDE DEF q, K
    <3>3. picked \in Seq(Blocks(d)) /\ ToSet(picked) = ToSet(q) \cap K
      BY <3>2, AmongView
    <3>4. c \in ToSet(picked)
      BY <3>1, <3>2, <3>3
    <3> HIDE DEF picked
    <3>5. Len(picked) \in Nat /\ Len(picked) # 0
      BY <3>3, <3>4, LenProperties, MemberOf
    <3>6. picked[1] \in ToSet(picked)
      BY <3>3, <3>5, MemberOf
    <3>7. Child(b) = picked[1]
      BY DEF picked, q, K
    <3> QED
      BY <3>2, <3>3, <3>6, <3>7 DEF K
  <2>10. end \in Subtree(d, o) /\ end # o
    <3>1. Parent(d, head) \in Subtree(d, o)
      BY <1>1, <2>8, SubtreeView
    <3>2. r.parent \in Blocks(d) /\ r.parent \in Subtree(d, o)
      BY <1>1, <2>7, <2>8, <3>1, SubtreeView
    <3>3. end \in ToSet(Kids(d, r.parent))
      BY <2>6 DEF kids
    <3>4. end \in Subtree(d, r.parent) /\ end # r.parent
      BY <1>1, <3>2, SubtreeView, <2>6, NotItsOwnParent, <2>7, <3>3 DEF Kids, Closed, KidsOf, Blocks
    <3>5. Subtree(d, r.parent) \subseteq Subtree(d, o)
      BY <1>1, <2>8, <3>2, SubtreeView
    <3>6. end # o
      BY <2>7, <3>2, <1>1, <2>8, SubtreeView
    <3> QED
      BY <3>4, <3>5, <3>6
  <2> DEFINE x == Child(head)
             y == Child(end)
  <2>11. /\ x \in ToSet(Kids(d, o)) /\ x \in Blocks(d) /\ head \in Subtree(d, x)
         /\ y \in ToSet(Kids(d, o)) /\ y \in Blocks(d) /\ end \in Subtree(d, y)
    BY <2>6, <2>8, <2>9, <2>10
  <2> HIDE DEF x, y, Child
  <2>12. first = Index(d, x) /\ last = Index(d, y)
    BY DEF x, y, head, end
  <2>13. Index(d, x) \in Nat /\ Index(d, y) \in Nat
    BY <1>1, <2>11, IndexView
  <2>14. CASE o = r.parent
    <3>1. Kids(d, o) = kids /\ o \in Places(d)
      BY <2>2, <2>14 DEF kids
    <3>2. head \in Subtree(d, head) /\ end \in Subtree(d, end)
      BY <1>1, <2>6, SubtreeView
    <3>3. x = head /\ y = end
      BY <1>1, <2>6, <2>11, <3>1, <3>2, OneChildAbove
    <3>4. Index(d, x) = (r.index + 1) - 1 /\ Index(d, y) = (r.index + r.count) - 1
      <4>1. /\ Index(d, head) = PlaceIn(Kids(d, Parent(d, head)), head) - 1
            /\ Index(d, end) = PlaceIn(Kids(d, Parent(d, end)), end) - 1
        BY DEF Index, IndexInParent
      <4>2. Kids(d, Parent(d, head)) = kids /\ Kids(d, Parent(d, end)) = kids
        BY <2>7 DEF kids
      <4> QED
        <5>1. Index(d, head) = (r.index + 1) - 1 /\ Index(d, end) = (r.index + r.count) - 1
          BY <2>6, <4>2, <4>1
        <5> QED
          BY <3>3, <5>1, Zenon
    <3> QED
      BY <2>2, <2>12, <3>4
  <2>15. CASE o # r.parent
    <3>1. head # x /\ end # y
      <4>1. Parent(d, x) = o /\ Parent(d, y) = o
        BY <2>8, <1>1, <2>11 DEF Places, WellFormed, Linked
      <4> QED
        BY <2>7, <2>15, <4>1
    <3>2. r.parent \in Subtree(d, x) /\ r.parent \in Subtree(d, y)
      BY <1>1, <2>7, <2>11, <3>1, SubtreeView
    <3>3. x = y
      BY <2>8, <1>1, <2>11, <3>2, OneChildAbove DEF Places
    <3> QED
      BY <2>12, <2>13, <3>3
  <2> QED
    BY <2>14, <2>15
<1> HIDE DEF first, last, outers, o, opt
<1>4. CASE opt = None
  BY <1>2, <1>4, LocalPlans
<1>5. CASE opt # None /\ outers = <<>>
  BY <1>2, <1>5, WrapPlan
<1>6. CASE opt # None /\ outers # <<>>
  BY <1>2, <1>3, <1>6, LiftPlans
<1> QED
  BY <1>4, <1>5, <1>6

FlatNext(q, at, i) == IF i = 1 THEN q[i] ELSE at \o q[i]
FlatBody(q, f) == [i \in 1 .. Len(q) |-> FlatNext(q, f[i - 1], i)]
FlatAt(q) == CHOOSE f : f = FlatBody(q, f)

\* Lists one after another are a list.
LEMMA FlatView ==
    ASSUME NEW T, NEW q, Len(q) \in Nat, q = <<>> \/ Len(q) # 0, \A i \in 1 .. Len(q) : q[i] \in Seq(T)
    PROVE  FlattenSeq(q) \in Seq(T)
<1> DEFINE n == Len(q)
           Upto(m, f) == [i \in 1 .. m |-> FlatNext(q, f[i - 1], i)]
           Found == {m \in Nat : \E f : f = Upto(m, f)}
<1>1. 0 \in Found
  <2> DEFINE f == [i \in 1 .. 0 |-> <<>>]
  <2>1. f = Upto(0, f)
    OBVIOUS
  <2> HIDE DEF f, Upto
  <2> QED
    BY <2>1
<1>2. ASSUME NEW m \in Nat, m \in Found PROVE m + 1 \in Found
  <2>1. PICK f : f = Upto(m, f)
    BY <1>2
  <2> DEFINE g == [i \in 1 .. m + 1 |-> IF i = m + 1 THEN FlatNext(q, f[m], i) ELSE f[i]]
  <2>2. ASSUME NEW i \in 1 .. m + 1 PROVE g[i] = FlatNext(q, g[i - 1], i)
    <3>1. CASE i = 1
      <4>1. \A x, y : FlatNext(q, x, 1) = FlatNext(q, y, 1)
        BY DEF FlatNext
      <4>2. CASE m = 0
        BY <4>2, <3>1, <4>1
      <4>3. CASE m # 0
        <5>1. 1 \in 1 .. m /\ 1 \in 1 .. m + 1 /\ 1 # m + 1
          BY <4>3
        <5>2. g[1] = f[1]
          BY <5>1
        <5>3. f[1] = FlatNext(q, f[1 - 1], 1)
          <6>1. Upto(m, f)[1] = FlatNext(q, f[1 - 1], 1)
            BY <5>1
          <6> HIDE DEF Upto
          <6> QED
            BY <2>1, <6>1
        <5> HIDE DEF g
        <5> QED
          BY <3>1, <4>1, <5>2, <5>3, Zenon
      <4> QED
        BY <4>2, <4>3
    <3>2. CASE i # 1 /\ i = m + 1
      <4>1. i - 1 = m /\ m \in 1 .. m + 1 /\ m # m + 1
        BY <3>2
      <4>2. g[m] = f[m]
        BY <4>1
      <4>3. g[i] = FlatNext(q, f[m], i)
        BY <3>2
      <4> HIDE DEF g
      <4> QED
        BY <4>1, <4>2, <4>3
    <3>3. CASE i # 1 /\ i # m + 1
      <4>1. i \in 1 .. m /\ i - 1 \in 1 .. m + 1 /\ i - 1 # m + 1
        BY <3>3
      <4>2. g[i] = f[i] /\ g[i - 1] = f[i - 1]
        BY <4>1, <3>3
      <4>3. f[i] = FlatNext(q, f[i - 1], i)
        <5>1. Upto(m, f)[i] = FlatNext(q, f[i - 1], i)
          BY <4>1
        <5> HIDE DEF Upto
        <5> QED
          BY <2>1, <5>1
      <4> HIDE DEF g
      <4> QED
        BY <4>2, <4>3
    <3> QED
      BY <3>1, <3>2, <3>3
  <2>3. g = [i \in 1 .. m + 1 |-> g[i]]
    OBVIOUS
  <2> HIDE DEF g
  <2>4. g = Upto(m + 1, g)
    BY <2>2, <2>3
  <2> HIDE DEF Upto
  <2> QED
    BY <2>4
<1>3. Nat \subseteq Found
  <2> HIDE DEF Found
  <2> QED
    BY <1>1, <1>2, NaturalSet
<1>4. \E f : f = FlatBody(q, f)
  <2>1. \E f : f = Upto(n, f)
    BY <1>3
  <2>2. \A f : Upto(n, f) = FlatBody(q, f)
    BY DEF FlatBody
  <2> HIDE DEF Upto
  <2> QED
    BY <2>1, <2>2
<1> DEFINE f == FlatAt(q)
<1>5. f = FlatBody(q, f)
  BY <1>4 DEF FlatAt
<1>6. FlattenSeq(q) = IF n = 0 THEN q ELSE f[n]
  BY DEF FlattenSeq, FlatAt, FlatBody, FlatNext
<1> HIDE DEF f
<1>7. \A i \in 1 .. n : f[i] = FlatNext(q, f[i - 1], i)
  BY <1>5 DEF FlatBody
<1> DEFINE G == {m \in Nat : m + 1 <= n => f[m + 1] \in Seq(T)}
<1>8. 0 \in G
  BY <1>7 DEF FlatNext
<1>9. ASSUME NEW m \in Nat, m \in G PROVE m + 1 \in G
  <2> SUFFICES ASSUME (m + 1) + 1 <= n PROVE f[(m + 1) + 1] \in Seq(T)
    OBVIOUS
  <2> DEFINE i == (m + 1) + 1
  <2>1. i \in 1 .. n /\ i # 1 /\ i - 1 = m + 1 /\ m + 1 <= n
    OBVIOUS
  <2>2. f[m + 1] \in Seq(T)
    BY <1>9, <2>1
  <2> HIDE DEF i
  <2>3. f[i] = f[i - 1] \o q[i]
    BY <1>7, <2>1 DEF FlatNext
  <2>4. q[i] \in Seq(T)
    BY <2>1
  <2>5. f[m + 1] \o q[i] \in Seq(T)
    BY <2>2, <2>4, ConcatProperties
  <2>6. f[i] \in Seq(T)
    BY <2>1, <2>3, <2>5
  <2> QED
    BY <2>6 DEF i
<1>10. Nat \subseteq G
  <2> HIDE DEF G
  <2> QED
    BY <1>8, <1>9, NaturalSet
<1>11. n # 0 => f[n] \in Seq(T)
  <2> SUFFICES ASSUME n # 0 PROVE f[n] \in Seq(T)
    OBVIOUS
  <2>1. n - 1 \in Nat /\ (n - 1) + 1 = n
    OBVIOUS
  <2>2. n - 1 \in G
    BY <1>10, <2>1
  <2> QED
    BY <2>1, <2>2
<1> QED
  BY <1>6, <1>11, EmptySeq

\* The selected items of a list are a range of siblings, below some block.
LEMMA ItemRangeView ==
    ASSUME NEW d, WellFormed(d), NEW s, NEW item
    PROVE  LET opt == ItemRange(d, s, item)
           IN  MayRange(d, opt) /\ (opt # None => opt[1].parent \in Blocks(d))
<1> DEFINE in == SelectedSiblings(d, s)
           q == Among(AncestorsOrSelf(d, in[1].parent), {a \in Blocks(d) : d.nodes[a].kind = item})
           a == q[1]
           one == [parent |-> Parent(d, a), index |-> Index(d, a), count |-> 1]
           opt == ItemRange(d, s, item)
<1>1. MayRange(d, in)
  BY SiblingsView
<1>2. opt = IF in = None THEN None ELSE IF in[1].parent = Root THEN None
            ELSE IF \A b \in ToSet(SiblingIds(d, in[1])) : d.nodes[b].kind = item THEN in
            ELSE IF q = <<>> THEN None ELSE IF Parent(d, a) = Root THEN None ELSE Some(one)
  BY DEF ItemRange
<1>3. ASSUME q # <<>>, Parent(d, a) # Root PROVE MayRange(d, Some(one)) /\ Some(one)[1].parent \in Blocks(d)
  <2>1. AncestorsOrSelf(d, in[1].parent) \in Seq(Blocks(d))
    BY AncestorsView
  <2>2. q \in Seq(Blocks(d))
    BY <2>1, AmongView
  <2> HIDE DEF q
  <2>3. Len(q) \in Nat /\ Len(q) # 0
    BY <1>3, <2>2, LenProperties, EmptySeq
  <2>4. a \in Blocks(d)
    BY <2>2, <2>3, ElementOfSeq
  <2> HIDE DEF a
  <2>5. /\ Parent(d, a) \in Places(d) /\ Index(d, a) \in Nat
        /\ Index(d, a) < Len(Kids(d, Parent(d, a))) /\ Len(Kids(d, Parent(d, a))) \in Nat
    BY <2>4, IndexView, NotItsOwnParent
  <2>6. IsRange(d, one)
    <3>1. one.parent = Parent(d, a) /\ one.index = Index(d, a) /\ one.count = 1 /\ IsA(one, {"parent", "index", "count"})
      BY DEF IsA
    <3> HIDE DEF one
    <3> QED
      BY <2>5, <3>1 DEF IsRange
  <2>7. Parent(d, a) \in Blocks(d)
    BY <1>3, <2>5 DEF Places
  <2>8. one.parent = Parent(d, a)
    OBVIOUS
  <2> HIDE DEF one
  <2> QED
    BY <2>6, <2>7, <2>8 DEF MayRange, Some, None
<1>4. in # None /\ in[1].parent # Root => MayRange(d, in) /\ in[1].parent \in Blocks(d)
  BY <1>1 DEF MayRange, IsRange, Places
<1>5. MayRange(d, None)
  BY DEF MayRange
<1> HIDE DEF in, q, a, one, opt
<1> QED
  BY <1>2, <1>3, <1>4, <1>5 DEF opt

\* Items moved into a list below another item.
LEMMA SublistScript ==
    ASSUME NEW d, IsDocument(d), NEW list \in Blocks(d), NEW index \in Nat, NEW count \in Nat, NEW item
    PROVE  IsScript(IntoSublist(d, list, index, count, item))
<1> DEFINE has == SublistOf(d, item, d.nodes[list].kind)
           into == MoveBlocksStep(list, index, count, has[1], Len(Kids(d, has[1])))
           copy == InsertBlocksStep(item, Len(Kids(d, item)), EmptyCopy(d, list, d.next))
           move == MoveBlocksStep(list, index, count, d.next, 0)
<1>1. WellFormed(d) /\ d.next \in Nat \ {0} /\ d.nodes[list].kind \in Kinds /\ \A p : Len(Kids(d, p)) \in Nat
  BY IndexView, NotItsOwnParent, KnownKinds DEF IsDocument, Ids
<1>2. IntoSublist(d, list, index, count, item) = IF has # None THEN <<into>> ELSE <<copy, move>>
  BY DEF IntoSublist
<1>3. IsInstruction(into) /\ IsInstruction(move)
  <2>1. Len(Kids(d, has[1])) \in Nat /\ 0 \in Nat
    BY <1>1
  <2> HIDE DEF has
  <2> QED
    BY <2>1, StepsAre, InstructionsAre
<1>4. IsInstruction(copy)
  BY <1>1, FreshStep, InstructionsAre DEF EmptyCopy
<1> HIDE DEF into, copy, move
<1> QED
  BY <1>2, <1>3, <1>4, ShortScripts, ScriptOf

\* Items moved out of their list.
LEMMA LiftItemsPlan ==
    ASSUME NEW d, IsDocument(d), NEW list \in Blocks(d), NEW index \in Nat, NEW count \in Nat,
           index + count <= Len(Kids(d, list)), NEW item
    PROVE  LET opt == LiftItems(d, list, index, count, item)
           IN  /\ opt = None \/ (opt # None /\ IsScript(opt[1]))
               /\ \A kind, s : IsSelection(s) => IsLocalPlan(PlanIf(opt, With(kind, s)))
<1> DEFINE outer == Parent(d, list)
           kids == Kids(d, list)
           items == SubSeq(kids, index + 1, index + count)
           Before(i) == Len(FlattenSeq([j \in 1 .. i - 1 |-> Kids(d, items[j])]))
           out == [i \in DOMAIN items |-> MoveBlocksStep(items[i], 0, Len(Kids(d, items[i])), outer,
                                                         Index(d, list) + 1 + Before(i))]
           ends == <<RemoveBlocksStep(list, index, count), PruneEmpty(list)>>
           whole == SplitContainer(d, list, index + count) \o out \o ends
           rest == (Len(kids) - index) - count
           kept == IF rest = 0 THEN <<>> ELSE IntoSublist(d, list, index + count, rest, kids[index + count])
           move == MoveBlocksStep(list, index, count, Parent(d, outer), Index(d, outer) + 1)
           nested == kept \o <<move, PruneEmpty(list)>>
           fits == \A i \in ToSet(items) : \A b \in ToSet(Kids(d, i)) : Allows(d, outer, d.nodes[b].kind)
           opt == LiftItems(d, list, index, count, item)
<1>1. /\ WellFormed(d) /\ Index(d, list) \in Nat /\ outer \in Places(d)
      /\ \A p : Kids(d, p) \in Seq(Blocks(d)) /\ Len(Kids(d, p)) \in Nat
  BY IndexView, NotItsOwnParent DEF IsDocument
<1>2. opt = IF outer # Root /\ d.nodes[outer].kind = item THEN Some(nested)
            ELSE IF fits THEN Some(whole) ELSE None
  BY DEF LiftItems, LiftNested
<1>3. outer # Root => IsScript(nested)
  <2> SUFFICES ASSUME outer # Root PROVE IsScript(nested)
    OBVIOUS
  <2>1. outer \in Blocks(d)
    BY <1>1 DEF Places
  <2>2. Index(d, outer) \in Nat
    BY <1>1, <2>1, IndexView
  <2>3. IsInstruction(move) /\ IsInstruction(PruneEmpty(list))
    <3>1. Index(d, outer) + 1 \in Nat
      BY <2>2
    <3> HIDE DEF outer
    <3> QED
      BY <3>1, StepsAre, InstructionsAre
  <2>4. IsScript(kept)
    <3>1. rest \in Nat /\ index + count \in Nat
      BY <1>1
    <3> HIDE DEF rest
    <3>2. IsScript(IntoSublist(d, list, index + count, rest, kids[index + count]))
      BY <3>1, SublistScript
    <3> QED
      BY <3>2, ScriptOf
  <2> HIDE DEF kept, move
  <2>5. IsScript(<<move, PruneEmpty(list)>>)
    BY <2>3, ShortScripts
  <2> QED
    BY <2>4, <2>5, ScriptOf
<1>4. IsScript(whole)
  <2>1. IsScript(SplitContainer(d, list, index + count))
    BY LiftScript
  <2>2. IsScript(ends)
    BY StepsAre, InstructionsAre, ShortScripts
  <2>3. items \in Seq(Blocks(d)) /\ Len(items) \in Nat /\ DOMAIN items = 1 .. Len(items)
    <3>1. kids \in Seq(Blocks(d)) /\ index + 1 \in 1 .. Len(kids) + 1 /\ index + count \in 0 .. Len(kids) /\ Len(kids) \in Nat
      BY <1>1
    <3> HIDE DEF kids
    <3>2. \A i \in (index + 1) .. (index + count) : i \in 1 .. Len(kids)
      BY <3>1
    <3>3. items \in Seq(Blocks(d))
      BY <3>1, <3>2, SubSeqProperties
    <3> HIDE DEF items
    <3> QED
      BY <3>3, LenProperties
  <2> HIDE DEF items
  <2>4. ASSUME NEW i \in 1 .. Len(items) PROVE Before(i) \in Nat
    <3> DEFINE q == [j \in 1 .. i - 1 |-> Kids(d, items[j])]
    <3>1. Len(q) = i - 1 /\ i - 1 \in Nat /\ \A j \in 1 .. i - 1 : q[j] = Kids(d, items[j])
      BY <2>3
    <3>2. i - 1 = 0 => q = <<>>
      OBVIOUS
    <3> HIDE DEF q
    <3>3. FlattenSeq(q) \in Seq(Blocks(d))
      BY <1>1, <3>1, <3>2, FlatView
    <3>4. Len(FlattenSeq(q)) \in Nat
      BY <3>3, LenProperties
    <3> QED
      BY <3>4 DEF q
  <2> HIDE DEF Before
  <2>5. IsScript(out)
    <3>1. ASSUME NEW i \in 1 .. Len(items) PROVE IsInstruction(out[i])
      <4>1. Index(d, list) + 1 + Before(i) \in Nat /\ 0 \in Nat /\ Len(Kids(d, items[i])) \in Nat
        BY <1>1, <2>4
      <4>2. out[i] = MoveBlocksStep(items[i], 0, Len(Kids(d, items[i])), outer, Index(d, list) + 1 + Before(i))
        BY <2>3
      <4> HIDE DEF out, outer
      <4> QED
        BY <4>1, <4>2, StepsAre, InstructionsAre
    <3>2. out = [i \in DOMAIN items |-> out[i]]
      OBVIOUS
    <3> HIDE DEF out
    <3> QED
      BY <2>3, <3>1, <3>2, ScriptFor
  <2> HIDE DEF out, ends
  <2> QED
    BY <2>1, <2>2, <2>5, ScriptOf
<1> HIDE DEF whole, nested, fits, outer
<1>5. opt = None \/ (opt # None /\ IsScript(opt[1]))
  BY <1>2, <1>3, <1>4 DEF Some, None
<1> HIDE DEF opt
<1>6. ASSUME NEW kind, NEW s, IsSelection(s) PROVE IsLocalPlan(PlanIf(opt, With(kind, s)))
  BY <1>5, <1>6, LocalPlans DEF PlanIf
<1> QED
  BY <1>5, <1>6 DEF opt

\* The commands that sink and lift items.
LEMMA ItemPlans ==
    ASSUME NEW st, IsState(st), NEW item
    PROVE  IsLocalPlan(SinkListItem(st, item)) /\ IsLocalPlan(LiftListItem(st, item))
<1> DEFINE d == st.doc
           opt == ItemRange(d, st.selection, item)
           r == opt[1]
           above == Kids(d, r.parent)[r.index]
           list == d.nodes[r.parent].kind
<1>1. WellFormed(d) /\ IsDocument(d) /\ IsSelection(st.selection)
  BY DEF IsState, IsDocument, Fits
<1>2. opt # None => /\ r.parent \in Blocks(d) /\ r.index \in Nat /\ r.count \in Nat
                    /\ r.index + r.count <= Len(Kids(d, r.parent))
  BY <1>1, ItemRangeView DEF MayRange, IsRange
<1>3. SinkListItem(st, item) =
        IF opt = None THEN None ELSE IF r.index = 0 THEN None
        ELSE IF SublistOf(d, above, list) = None /\ ~Allows(d, above, list) THEN None
        ELSE Plan(IntoSublist(d, r.parent, r.index, r.count, above), With("Structure", st.selection))
  BY DEF SinkListItem
<1>4. LiftListItem(st, item) =
        IF opt = None THEN None
        ELSE PlanIf(LiftItems(d, r.parent, r.index, r.count, item), With("Structure", st.selection))
  BY DEF LiftListItem
<1> HIDE DEF opt
<1>5. opt # None => IsScript(IntoSublist(d, r.parent, r.index, r.count, above))
  BY <1>1, <1>2, SublistScript
<1>6. opt # None => IsLocalPlan(PlanIf(LiftItems(d, r.parent, r.index, r.count, item), With("Structure", st.selection)))
  BY <1>1, <1>2, LiftItemsPlan
<1> QED
  BY <1>1, <1>3, <1>4, <1>5, <1>6, LocalPlans

\* Backspace at the start of an item.
LEMMA JoinItemPlan ==
    ASSUME NEW st, IsState(st), NEW item
    PROVE  IsLocalPlan(JoinListItemBackward(st, item))
<1> DEFINE d == st.doc
           h == st.selection.head
           b == h.block
           owner == Parent(d, b)
           i == Index(d, owner)
           list == Parent(d, owner)
           kids == Kids(d, Kids(d, list)[i])
           end == IF i = 0 THEN None
                  ELSE IF kids # <<>> /\ IsText(d, Last(kids)) THEN Some(Last(kids)) ELSE None
           out == PlanIf(LiftItems(d, list, i, 1, item), With("Structure", Caret(h)))
<1>1. WellFormed(d) /\ IsDocument(d)
  BY DEF IsState, IsDocument
<1>2. JoinListItemBackward(st, item) =
        IF ~IsCaret(st.selection) THEN None ELSE IF h.offset # 0 \/ ~InItem(st, item) THEN None
        ELSE IF Kids(d, owner)[1] # b \/ list = Root THEN None
        ELSE IF end = None THEN out ELSE MergeInto(st, end[1], b)
  BY DEF JoinListItemBackward
<1>3. ASSUME IsCaret(st.selection), InItem(st, item), list # Root PROVE IsLocalPlan(out)
  <2>1. st.selection.sel = "text" /\ st.selection.anchor = h
    BY <1>3 DEF IsCaret
  <2>2. b \in Blocks(d) /\ PointOk(h) /\ DeletedAt(st) = h
    BY <2>1, CaretsInText DEF DeletedAt, TextRange
  <2>3. owner \in Blocks(d)
    BY <1>3, <2>2, <1>1, NotItsOwnParent DEF InItem, Places
  <2>4. list \in Blocks(d) /\ i \in Nat /\ i < Len(Kids(d, list)) /\ Len(Kids(d, list)) \in Nat
    BY <1>1, <1>3, <2>3, IndexView, NotItsOwnParent DEF Places
  <2>5. IsSelection(Caret(h))
    BY <2>2, CaretIs
  <2> HIDE DEF i, list, h
  <2>6. i + 1 <= Len(Kids(d, list)) /\ 1 \in Nat
    BY <2>4
  <2> QED
    BY <1>1, <2>4, <2>5, <2>6, LiftItemsPlan
<1> HIDE DEF out, end
<1> QED
  BY <1>2, <1>3, LocalPlans, JoinPlans

\* Scripts one after another are a script.
LEMMA FlatScript ==
    ASSUME NEW q, Len(q) \in Nat, q = <<>> \/ Len(q) # 0, \A i \in 1 .. Len(q) : IsScript(q[i])
    PROVE  IsScript(FlattenSeq(q))
<1> DEFINE T == UNION {ToSet(q[i]) : i \in 1 .. Len(q)}
<1>1. \A i \in 1 .. Len(q) : q[i] \in Seq(T)
  <2> TAKE i \in 1 .. Len(q)
  <2>1. q[i] \in Seq(ToSet(q[i])) /\ ToSet(q[i]) \subseteq T
    BY DEF IsScript
  <2> HIDE DEF T
  <2> QED
    BY <2>1
<1>2. \A s \in T : IsInstruction(s)
  BY DEF IsScript
<1> HIDE DEF T
<1>3. FlattenSeq(q) \in Seq(T)
  BY <1>1, FlatView
<1> QED
  BY <1>2, <1>3, MemberOf DEF IsScript

\* A list around blocks, each in an item, and joined to those beside it.
LEMMA WrapInListPlan ==
    ASSUME NEW st, IsState(st), NEW target \in ListTypes
    PROVE  IsLocalPlan(WrapInList(st, target))
<1> DEFINE d == st.doc
           list == d.next
           opt == SelectedSiblings(d, st.selection)
           r == opt[1]
           odd == Among(SiblingIds(d, r), {b \in Blocks(d) : d.nodes[b].kind \notin AllowedIn[target.item]})
           texts == {k \in AllowedIn[target.item] : ContentOf[k] = "inline"}
           text == IF DefaultText \in texts THEN DefaultText ELSE CHOOSE k \in texts : TRUE
           Same(siblings, i) == IF i \in DOMAIN siblings /\ d.nodes[siblings[i]].kind = target.list
                                THEN Some(siblings[i]) ELSE None
           before == Same(Kids(d, r.parent), r.index)
           after == Same(Kids(d, r.parent), r.index + r.count + 1)
           JoinsOf(into, from) == <<MoveAll(from, into), RemoveBlock(from)>>
           joined == (IF before = None THEN <<>> ELSE JoinsOf(before[1], list))
                     \o (IF after = None THEN <<>> ELSE JoinsOf(OrElse(before, list), after[1]))
           Item(i) == <<InsertBlocksStep(list, i - 1, FreshTree(list + i, target.item)),
                        MoveBlocksStep(r.parent, r.index + 1, 1, list + i, 0)>>
           items == [i \in 1 .. r.count |-> Item(i)]
           retyped == [i \in DOMAIN odd |-> SetBlockStep(odd[i], text, 0)]
           put == <<InsertBlocksStep(r.parent, r.index, FreshTree(list, target.list))>>
           script == retyped \o put \o FlattenSeq(items) \o joined
           refused == \/ ~Allows(d, r.parent, target.list)
                      \/ \E b \in ToSet(odd) : texts = {} \/ ~IsText(d, b) \/ ~Allows(d, r.parent, text)
<1>1. WellFormed(d) /\ d.next \in Nat \ {0} /\ IsSelection(st.selection)
  BY DEF IsState, IsDocument, Fits, Ids
<1>2. target.list \in Kinds /\ target.item \in Kinds
  BY ListAssumption
<1>3. WrapInList(st, target) =
        IF opt = None THEN None ELSE IF refused THEN None ELSE Plan(script, With("Structure", st.selection))
  BY DEF WrapInList
<1>4. ASSUME opt # None PROVE IsScript(script)
  <2>1. IsRange(d, r)
    BY <1>1, <1>4, SiblingsView DEF MayRange
  <2>2. r.index \in Nat /\ r.count \in Nat \ {0}
    BY <2>1 DEF IsRange
  <2>3. odd \in Seq(Blocks(d))
    BY <1>1, <2>1, SiblingIdsView, AmongView
  <2> HIDE DEF opt, r, odd, text, before, after
  <2>4. IsScript(retyped)
    <3>1. \A b : IsInstruction(SetBlockStep(b, text, 0))
      BY StepsAre, InstructionsAre
    <3>2. retyped = [i \in DOMAIN odd |-> retyped[i]] /\ \A i \in 1 .. Len(odd) : IsInstruction(retyped[i])
      BY <2>3, <3>1
    <3> HIDE DEF retyped
    <3> QED
      BY <2>3, <3>2, ScriptFor
  <2>5. IsScript(put)
    BY <1>1, <1>2, <2>2, FreshStep, InstructionsAre, ScriptOf
  <2>6. IsScript(FlattenSeq(items))
    <3>1. ASSUME NEW i \in 1 .. r.count PROVE IsScript(Item(i))
      <4>1. i - 1 \in Nat /\ list + i \in Nat \ {0} /\ r.index + 1 \in Nat /\ 1 \in Nat /\ 0 \in Nat
        BY <1>1, <2>2
      <4> HIDE DEF list
      <4>2. IsInstruction(InsertBlocksStep(list, i - 1, FreshTree(list + i, target.item)))
        BY <1>2, <4>1, FreshStep, InstructionsAre
      <4>3. IsInstruction(MoveBlocksStep(r.parent, r.index + 1, 1, list + i, 0))
        BY <4>1, StepsAre, InstructionsAre
      <4> QED
        BY <4>2, <4>3, ShortScripts
    <3>2. Len(items) = r.count /\ \A i \in 1 .. r.count : items[i] = Item(i)
      BY <2>2
    <3> HIDE DEF items, Item
    <3> QED
      BY <2>2, <3>1, <3>2, FlatScript
  <2>7. IsScript(joined)
    <3>1. \A a, b : IsScript(JoinsOf(a, b))
      BY InstructionsAre, ShortScripts
    <3> HIDE DEF JoinsOf
    <3> QED
      BY <3>1, ScriptOf
  <2> HIDE DEF retyped, put, items, joined
  <2> QED
    BY <2>4, <2>5, <2>6, <2>7, ScriptOf
<1> HIDE DEF script, refused, opt
<1> QED
  BY <1>1, <1>3, <1>4, LocalPlans

\* A forest whose blocks are of other kinds that hold the same.
LEMMA RecastForest ==
    ASSUME NEW t, IsForest(t), NEW u, IsA(u, {"roots", "nodes"}), u.roots = t.roots,
           IsA(u.nodes, DOMAIN u.nodes), DOMAIN u.nodes = DOMAIN t.nodes,
           \A b \in DOMAIN t.nodes :
              /\ IsA(u.nodes[b], BlockFields)
              /\ u.nodes[b].parent = t.nodes[b].parent /\ u.nodes[b].text = t.nodes[b].text
              /\ u.nodes[b].kids = t.nodes[b].kids
              /\ u.nodes[b].kind \in Kinds /\ ContentOf[u.nodes[b].kind] = ContentOf[t.nodes[b].kind]
    PROVE  IsForest(u)
<1> DEFINE N == t.nodes
           M == u.nodes
           D == DOMAIN t.nodes
<1>1. /\ IsFiniteSet(D) /\ Root \notin D /\ KidsAreNodes(N) /\ Acyclic(N)
      /\ D = AllUnder(N, ToSet(t.roots)) /\ ToSet(t.roots) \subseteq D
      /\ \A b \in D : Holds(N[b].kind, N[b].text, N[b].kids)
  BY ForestView
<1>2. \A b \in D : KidsOf(M, b) = KidsOf(N, b)
  BY DEF KidsOf
<1>3. KidsAreNodes(M) /\ Closed(N, D)
  BY <1>1, <1>2 DEF KidsAreNodes, Closed
<1>4. \A ids \in SUBSET D : AllUnder(M, ids) = AllUnder(N, ids)
  <2> TAKE ids \in SUBSET D
  <2> HIDE DEF N, M, D
  <2>1. DOMAIN N = D /\ DOMAIN M = D
    BY DEF N, M, D
  <2> QED
    BY <1>1, <1>2, <1>3, <2>1, AllUnderAgree
<1>5. Acyclic(M)
  BY <1>1, <1>4 DEF KidsAreNodes, KidsOf, Acyclic
<1>6. DOMAIN M = AllUnder(M, ToSet(u.roots))
  BY <1>1, <1>4
<1>7. \A b \in D : Holds(M[b].kind, M[b].text, M[b].kids)
  BY <1>1 DEF Holds
<1>8. {u.roots} \cup {M[b].kids : b \in DOMAIN M} = {t.roots} \cup {N[b].kids : b \in D}
  OBVIOUS
<1>9. \A lst \in {t.roots} \cup {N[b].kids : b \in D} : lst \in Seq(D) /\ IsInjective(lst)
  BY DEF IsForest
<1>10. \A b \in D : \A c \in ToSet(N[b].kids) : N[c].parent = b /\ c \notin ToSet(t.roots)
  BY DEF IsForest
<1>11. \A b \in D : \A c \in ToSet(M[b].kids) : M[c].parent = b /\ c \notin ToSet(u.roots)
  BY <1>1, <1>10 DEF KidsAreNodes, KidsOf
<1>12. \A lst \in {u.roots} \cup {M[b].kids : b \in DOMAIN M} : lst \in Seq(DOMAIN M) /\ IsInjective(lst)
  BY <1>8, <1>9
<1> QED
  BY <1>1, <1>5, <1>6, <1>7, <1>11, <1>12 DEF IsForest

\* A block of another type, and trees of which some blocks are.
RecastKind(d, b, list, items, target) ==
    CASE b = list -> target.list [] b \in items -> target.item [] OTHER -> d.nodes[b].kind
OfKind(n, kind, plain) == [n EXCEPT !.kind = kind, !.attr = IF plain THEN 0 ELSE @]
Recast(d, old, list, items, target) ==
    [old EXCEPT !.nodes = [b \in DOMAIN @ |->
       OfKind(@[b], RecastKind(d, b, list, items, target), b \in items \cup {list})]]

\* The fields of a list converted, block by block.
LEMMA RecastView ==
    ASSUME NEW d, NEW old, IsA(old, {"roots", "nodes"}), IsA(old.nodes, DOMAIN old.nodes),
           \A b \in DOMAIN old.nodes : IsA(old.nodes[b], BlockFields),
           NEW list, NEW items, NEW target
    PROVE  LET u == Recast(d, old, list, items, target)
           IN  /\ IsA(u, {"roots", "nodes"}) /\ u.roots = old.roots
               /\ IsA(u.nodes, DOMAIN u.nodes) /\ DOMAIN u.nodes = DOMAIN old.nodes
               /\ \A b \in DOMAIN old.nodes :
                     /\ IsA(u.nodes[b], BlockFields)
                     /\ u.nodes[b].parent = old.nodes[b].parent /\ u.nodes[b].text = old.nodes[b].text
                     /\ u.nodes[b].kids = old.nodes[b].kids
                     /\ u.nodes[b].kind = RecastKind(d, b, list, items, target)
<1> DEFINE kind(b) == RecastKind(d, b, list, items, target)
           attr(b) == b \in items \cup {list}
           u == Recast(d, old, list, items, target)
           N == [b \in DOMAIN old.nodes |-> OfKind(old.nodes[b], kind(b), attr(b))]
<1>2. \A n, k, a : IsA(n, BlockFields) => /\ IsA(OfKind(n, k, a), BlockFields)
                                          /\ OfKind(n, k, a).kind = k
                                          /\ OfKind(n, k, a).parent = n.parent
                                          /\ OfKind(n, k, a).text = n.text /\ OfKind(n, k, a).kids = n.kids
  <2> TAKE n, k, a
  <2> HAVE IsA(n, BlockFields)
  <2>1. DOMAIN n = BlockFields
    BY DEF IsA
  <2> QED
    BY <2>1 DEF OfKind, IsA, BlockFields
<1>3. u = [old EXCEPT !.nodes = N]
  BY DEF Recast
<1> HIDE DEF kind, attr, N
<1>4. DOMAIN old = {"roots", "nodes"}
  BY DEF IsA
<1>5. IsA(u, {"roots", "nodes"}) /\ u.roots = old.roots /\ u.nodes = N
  BY <1>3, <1>4 DEF IsA
<1>6. DOMAIN N = DOMAIN old.nodes /\ \A b \in DOMAIN old.nodes : N[b] = OfKind(old.nodes[b], kind(b), attr(b))
  BY DEF N
<1>7. IsA(N, DOMAIN N)
  BY DEF IsA, N
<1> HIDE DEF u
<1>9. \A b \in DOMAIN old.nodes :
         /\ IsA(N[b], BlockFields)
         /\ N[b].parent = old.nodes[b].parent /\ N[b].text = old.nodes[b].text
         /\ N[b].kids = old.nodes[b].kids /\ N[b].kind = kind(b)
  BY <1>2, <1>6
<1> QED
  BY <1>5, <1>6, <1>7, <1>9 DEF u, kind

\* A list made one of another type, in its place.
LEMMA ConvertListPlan ==
    ASSUME NEW st, IsState(st), NEW list \in Blocks(st.doc), NEW found \in ListTypes, NEW target \in ListTypes,
           st.doc.nodes[list].kind = found.list
    PROVE  IsLocalPlan(ConvertList(st, list, found, target))
<1> DEFINE d == st.doc
           p == Parent(d, list)
           index == Index(d, list)
           items == {i \in ToSet(Kids(d, list)) : d.nodes[i].kind = found.item}
           old == DetachTrees(d, p, index, 1).trees
           new == Recast(d, old, list, items, target)
           Kind(b) == CASE b = list -> target.list [] b \in items -> target.item [] OTHER -> d.nodes[b].kind
           fits == \A i \in ToSet(Kids(d, list)) : \A b \in ToSet(Kids(d, i)) :
                      d.nodes[b].kind \in AllowedIn[Kind(i)]
           script == <<RemoveBlocksStep(p, index, 1), InsertBlocksStep(p, index, new)>>
<1>1. WellFormed(d) /\ Blocks(d) \subseteq Int /\ IsSelection(st.selection)
  BY DEF IsState, IsDocument, Ids, Fits
<1>2. ConvertList(st, list, found, target) =
        IF ~fits THEN None ELSE Plan(script, With("Structure", st.selection))
  BY DEF ConvertList, Recast, RecastKind, OfKind
<1> HIDE DEF fits, items
<1>3. Siblings(d, p, index, 1)
  <2>1. p \in Places(d)
    BY <1>1, NotItsOwnParent
  <2>2. index \in Nat /\ index < Len(Kids(d, p)) /\ Len(Kids(d, p)) \in Nat
    BY <1>1, IndexView
  <2> HIDE DEF index, p
  <2> QED
    BY <2>1, <2>2 DEF Siblings
<1>4. IsForest(old)
  BY <1>1, <1>3, DetachedIsWellFormed
<1>5. /\ IsA(old, {"roots", "nodes"}) /\ IsA(old.nodes, DOMAIN old.nodes) /\ DOMAIN old.nodes \subseteq Blocks(d)
      /\ \A c \in DOMAIN old.nodes : IsA(old.nodes[c], BlockFields) /\ old.nodes[c].kind = d.nodes[c].kind
  BY <1>1, <1>3, TakenBlocks, DetachTreesView
<1>6. index \in Nat
  BY <1>3 DEF Siblings
<1> HIDE DEF p, index, old
<1>7. \A b \in Blocks(d) : d.nodes[b].kind \in Kinds
  BY <1>1 DEF WellFormed, Holds
<1>8. \A kind \in {found.list, found.item, target.list, target.item} : kind \in Kinds /\ ContentOf[kind] = "blocks"
  BY ListAssumption
<1>9. \A b \in items : d.nodes[b].kind = found.item
  BY DEF items
<1>10. IsForest(new) /\ DOMAIN new.nodes \subseteq Int
  <2> DEFINE u == new
  <2>1. /\ IsA(u, {"roots", "nodes"}) /\ u.roots = old.roots
        /\ IsA(u.nodes, DOMAIN u.nodes) /\ DOMAIN u.nodes = DOMAIN old.nodes
        /\ \A b \in DOMAIN old.nodes :
              /\ IsA(u.nodes[b], BlockFields)
              /\ u.nodes[b].parent = old.nodes[b].parent /\ u.nodes[b].text = old.nodes[b].text
              /\ u.nodes[b].kids = old.nodes[b].kids
              /\ u.nodes[b].kind = RecastKind(d, b, list, items, target)
    BY <1>5, RecastView
  <2> HIDE DEF u
  <2>2. \A b \in DOMAIN old.nodes :
           u.nodes[b].kind \in Kinds /\ ContentOf[u.nodes[b].kind] = ContentOf[old.nodes[b].kind]
    BY <1>5, <1>7, <1>8, <1>9, <2>1 DEF RecastKind
  <2>3. IsForest(u)
    BY <1>4, <2>1, <2>2, RecastForest
  <2>4. DOMAIN u.nodes \subseteq Int
    BY <1>1, <1>5, <2>1
  <2> QED
    BY <2>3, <2>4 DEF u
<1> HIDE DEF new
<1>11. IsTyped(InsertBlocksStep(p, index, new))
  BY <1>6, <1>10 DEF IsTyped, IsStep, InsertBlocksStep
<1>12. IsInstruction(RemoveBlocksStep(p, index, 1)) /\ IsInstruction(InsertBlocksStep(p, index, new))
  BY <1>6, <1>11, StepsAre, InstructionsAre
<1>13. IsScript(script)
  BY <1>12, ShortScripts
<1> HIDE DEF script
<1> QED
  BY <1>1, <1>2, <1>13, LocalPlans

\* Of the lists found, one is nested deepest.
LEMMA DeepestOf ==
    ASSUME NEW found, found # {}, NEW Nesting, NEW most \in Nat,
           \A o \in found : Nesting[o] \in Nat /\ Nesting[o] <= most
    PROVE  \E at \in found : \A o \in found : Nesting[o] <= Nesting[at]
<1> DEFINE S == {Nesting[o] : o \in found}
<1>1. S \subseteq 0 .. most /\ S # {} /\ S \subseteq Int
  OBVIOUS
<1>2. IsFiniteSet(0 .. most)
  BY FS_Interval
<1>3. IsFiniteSet(S)
  BY <1>1, <1>2, FS_Subset
<1> HIDE DEF S
<1>4. PICK b \in S : \A c \in S : c <= b
  BY <1>1, <1>3, GreatestOf
<1> QED
  BY <1>4 DEF S

\* Into a list of a type, or out of one.
LEMMA ToggleListPlan ==
    ASSUME NEW st, IsState(st), NEW target \in ListTypes
    PROVE  IsLocalPlan(ToggleList(st, target))
<1> DEFINE d == st.doc
           opt(l) == ItemRange(d, st.selection, l.item)
           Enclosing(l, r) == IF r = None THEN {}
                           ELSE IF d.nodes[r[1].parent].kind # l.list THEN {}
                           ELSE {[type |-> l, range |-> r[1]]}
           found == UNION {Enclosing(l, opt(l)) : l \in ListTypes}
           Nesting(at) == Len(AncestorsOrSelf(d, at.range.parent))
           at == CHOOSE x \in found : \A o \in found : Nesting(o) <= Nesting(x)
           out == PlanIf(LiftItems(d, at.range.parent, at.range.index, at.range.count, target.item),
                         With("Structure", st.selection))
           recast == Plan(<<SetBlockStep(at.range.parent, target.list, 0)>>, Local("Structure"))
           leave == CASE at.type = target -> out
                      [] at.type # target /\ at.type.item = target.item -> recast
                      [] OTHER -> ConvertList(st, at.range.parent, at.type, target)
<1>1. WellFormed(d) /\ IsDocument(d) /\ IsSelection(st.selection)
  BY DEF IsState, IsDocument, Fits
<1>2. ToggleList(st, target) = IF found = {} THEN WrapInList(st, target) ELSE leave
  BY DEF ToggleList
<1>3. \A x \in found : /\ x.type \in ListTypes /\ IsRange(d, x.range) /\ x.range.parent \in Blocks(d)
                       /\ d.nodes[x.range.parent].kind = x.type.list
  <2> TAKE x \in found
  <2>1. PICK l \in ListTypes : x \in Enclosing(l, opt(l))
    OBVIOUS
  <2> DEFINE r == opt(l)
  <2>2. MayRange(d, r) /\ (r # None => r[1].parent \in Blocks(d))
    BY <1>1, ItemRangeView
  <2>3. x \in Enclosing(l, r)
    BY <2>1
  <2> HIDE DEF r
  <2>4. r # None /\ x = [type |-> l, range |-> r[1]] /\ d.nodes[r[1].parent].kind = l.list
    BY <2>3
  <2> QED
    BY <2>2, <2>4 DEF MayRange
<1> HIDE DEF found
<1>4. ASSUME found # {} PROVE at \in found
  <2> DEFINE N == [o \in found |-> Nesting(o)]
             most == Len(DocOrder(d))
  <2>1. most \in Nat /\ \A o \in found : Nesting(o) \in Nat /\ Nesting(o) <= most
    <3>1. DocOrder(d) \in Seq(Blocks(d)) /\ most \in Nat
      BY <1>1, ReadingOrderIsComplete, LenProperties
    <3>2. \A b : Len(AncestorsOrSelf(d, b)) \in Nat /\ Len(AncestorsOrSelf(d, b)) <= most
      <4> TAKE b
      <4> DEFINE q == Among(DocOrder(d), {a \in Blocks(d) : b \in Subtree(d, a)})
      <4>1. q \in Seq(Blocks(d)) /\ Len(q) <= most
        BY <3>1, AmongView
      <4> HIDE DEF q
      <4>2. Len(Reverse(q)) = Len(q) /\ Len(q) \in Nat
        BY <4>1, ReverseView, LenProperties
      <4> QED
        BY <4>1, <4>2 DEF AncestorsOrSelf, q
    <3> QED
      BY <3>1, <3>2
  <2>2. \A o \in found : N[o] = Nesting(o)
    OBVIOUS
  <2> HIDE DEF Nesting, N, most
  <2>3. \E x \in found : \A o \in found : N[o] <= N[x]
    BY <1>4, <2>1, <2>2, DeepestOf
  <2>4. \E x \in found : \A o \in found : Nesting(o) <= Nesting(x)
    BY <2>2, <2>3
  <2> QED
    BY <2>4
<1> HIDE DEF at
<1>5. ASSUME found # {} PROVE IsLocalPlan(leave)
  <2> DEFINE p == at.range.parent
             index == at.range.index
             count == at.range.count
             found0 == at.type
  <2>1. /\ found0 \in ListTypes /\ p \in Blocks(d) /\ d.nodes[p].kind = found0.list
        /\ index \in Nat /\ count \in Nat /\ index + count <= Len(Kids(d, p))
    BY <1>3, <1>4, <1>5 DEF IsRange
  <2> HIDE DEF p, index, count, found0
  <2>2. IsLocalPlan(PlanIf(LiftItems(d, p, index, count, target.item), With("Structure", st.selection)))
    BY <1>1, <2>1, LiftItemsPlan
  <2>3. IsScript(<<SetBlockStep(p, target.list, 0)>>)
    BY StepsAre, InstructionsAre, ScriptOf
  <2>4. IsLocalPlan(Plan(<<SetBlockStep(p, target.list, 0)>>, Local("Structure")))
    BY <2>3, LocalPlans
  <2>5. IsLocalPlan(ConvertList(st, p, found0, target))
    BY <2>1, ConvertListPlan
  <2>6. IsLocalPlan(out) /\ IsLocalPlan(recast) /\ IsLocalPlan(ConvertList(st, at.range.parent, at.type, target))
    BY <2>2, <2>4, <2>5 DEF p, index, count, found0
  <2> HIDE DEF out, recast
  <2> QED
    BY <2>6
<1> HIDE DEF leave
<1> QED
  BY <1>2, <1>5, WrapInListPlan

-----------------------------------------------------------------------------
(* The motions: what they select is a selection of blocks, or of points.   *)

\* Points and selections motions make.
LEMMA StopsView ==
    ASSUME NEW d, WellFormed(d)
    PROVE  /\ \A b : PointOk(EndOf(d, b)) /\ PointOk(Point(b, 0))
           /\ \A b, dir : PointOk(StopPoint(d, b, dir)) /\ IsSelection(Landing(d, b, dir))
<1>1. \A b : TextLen(d, b) \in Nat
  BY IndexView
<1>2. \A b : PointOk(EndOf(d, b)) /\ PointOk(Point(b, 0))
  BY <1>1, SelectionFields DEF EndOf
<1>3. \A b, dir : PointOk(StopPoint(d, b, dir))
  BY <1>2 DEF StopPoint
<1>4. \A b, dir : IsSelection(Landing(d, b, dir))
  BY <1>3, SelectionFields DEF Landing
<1> QED
  BY <1>2, <1>3, <1>4

MaySelect(opt) == opt = None \/ (opt # None /\ IsSelection(opt[1]))

\* From selected blocks, the caret goes into their text or beyond them.
LEMMA LeavingView ==
    ASSUME NEW st, IsState(st), NEW dir
    PROVE  MaySelect(LeaveBlocks(st, dir))
<1> DEFINE d == st.doc
           in == SelectedText(d, st.selection)
           past == LET ids == SiblingIds(d, SelectedSiblings(d, st.selection)[1])
                   IN  StopBeyond(d, IF dir = "backward" THEN Head(ids) ELSE Last(ids), dir)
           p == IF dir = "backward" THEN Point(Head(in).block, 0) ELSE Point(Last(in).block, Last(in).to)
<1>1. WellFormed(d) /\ IsSelection(st.selection)
  BY DEF IsState, IsDocument, Fits
<1>2. LeaveBlocks(st, dir) = IF in # <<>> THEN Some(Caret(p))
                             ELSE IF past = None THEN None ELSE Some(Landing(d, past[1], dir))
  BY DEF LeaveBlocks
<1>3. ASSUME in # <<>> PROVE PointOk(p)
  <2>1. in \in Seq(ToSet(in)) /\ Len(in) \in Nat /\ \A x \in ToSet(in) : IsSpan(d, x)
    BY <1>1, SelectedTextView
  <2> DEFINE T == ToSet(in)
  <2>2. in \in Seq(T) /\ \A x \in T : IsSpan(d, x)
    BY <2>1
  <2> HIDE DEF in, T
  <2>3. Last(in) \in T
    BY <1>3, <2>2, LenProperties, EmptySeq, ElementOfSeq DEF Last
  <2>4. Last(in).to \in Nat
    BY <2>2, <2>3 DEF IsSpan
  <2>5. PointOk(Point(Head(in).block, 0)) /\ PointOk(Point(Last(in).block, Last(in).to))
    BY <2>4, SelectionFields
  <2> QED
    BY <2>5
<1> HIDE DEF in, past, p
<1>4. in # <<>> => IsSelection(Caret(p))
  BY <1>3, SelectionFields
<1>5. IsSelection(Landing(d, past[1], dir))
  BY <1>1, StopsView
<1>6. \A s : Some(s) # None /\ Some(s)[1] = s
  BY DEF Some, None
<1> QED
  BY <1>2, <1>4, <1>5, <1>6 DEF MaySelect

\* From text, the caret moves on by one, or across to other text.
LEMMA MovingView ==
    ASSUME NEW st, IsState(st), st.selection.sel = "text", NEW dir, NEW extend \in BOOLEAN
    PROVE  MaySelect(MoveText(st, dir, extend))
<1> DEFINE d == st.doc
           p == st.selection.head
           o == IF dir = "backward" THEN p.offset - 1 ELSE p.offset + 1
           Go(q) == Some(IF extend THEN TextSelection(st.selection.anchor, q) ELSE Caret(q))
           past == StopBeyond(d, p.block, dir)
           text == IF IsText(d, past[1]) THEN past ELSE TextBeyond(d, p.block, dir)
           inside == 0 <= o /\ o <= TextLen(d, p.block)
           alone == ~extend /\ IsLeaf(d, past[1])
<1>1. WellFormed(d) /\ IsSelection(st.selection)
  BY DEF IsState, IsDocument, Fits
<1>2. MoveText(st, dir, extend) =
        IF inside THEN Go(Point(p.block, o))
        ELSE IF past = None THEN None
        ELSE IF alone THEN Some(BlockSelection(past[1], past[1]))
        ELSE IF text = None THEN None ELSE Go(StopPoint(d, text[1], dir))
  BY DEF MoveText
<1>3. PointOk(p) /\ PointOk(st.selection.anchor)
  BY <1>1, RangeView
<1>4. \A s : Some(s) # None /\ Some(s)[1] = s
  BY DEF Some, None
<1>5. \A q : PointOk(q) => MaySelect(Go(q))
  <2> TAKE q
  <2> HAVE PointOk(q)
  <2>1. IsSelection(TextSelection(st.selection.anchor, q)) /\ IsSelection(Caret(q))
    BY <1>3, SelectionFields
  <2> QED
    BY <1>4, <2>1 DEF MaySelect
<1>6. inside => PointOk(Point(p.block, o))
  <2>1. p.offset \in Nat
    BY <1>3 DEF PointOk
  <2>2. inside => o \in Nat
    BY <2>1
  <2> HIDE DEF o
  <2> QED
    BY <2>2, SelectionFields
<1>7. PointOk(StopPoint(d, text[1], dir)) /\ MaySelect(Some(BlockSelection(past[1], past[1])))
  BY <1>1, <1>4, StopsView, SelectionFields DEF MaySelect
<1> HIDE DEF inside, alone, past, text, Go, o
<1>8. MaySelect(None)
  BY DEF MaySelect
<1> QED
  BY <1>2, <1>5, <1>6, <1>7, <1>8

\* The commands that only select.
LEMMA MotionPlans ==
    ASSUME NEW st, IsState(st)
    PROVE  /\ \A dir : \A extend \in BOOLEAN : IsLocalPlan(MoveCaret(st, dir, extend))
           /\ IsLocalPlan(SelectAll(st)) /\ IsLocalPlan(SelectParent(st))
<1> DEFINE d == st.doc
           s == st.selection
<1>1. WellFormed(d) /\ IsSelection(s)
  BY DEF IsState, IsDocument, Fits
<1>2. IsScript(<<>>)
  BY ScriptOf
<1>3. \A x : Some(x) # None /\ Some(x)[1] = x
  BY DEF Some, None
<1>4. ASSUME NEW dir, NEW extend \in BOOLEAN PROVE IsLocalPlan(MoveCaret(st, dir, extend))
  <2> DEFINE r == TextRange(d, s)
             edge == Caret(IF dir = "backward" THEN r.from ELSE r.to)
             next == IF s.sel = "blocks" THEN LeaveBlocks(st, dir)
                     ELSE IF ~extend /\ ~IsCaret(s) THEN Some(edge) ELSE MoveText(st, dir, extend)
  <2>1. MoveCaret(st, dir, extend) = IF next = None \/ next = Some(s) THEN None
                                     ELSE Plan(<<>>, With("Selection", next[1]))
    BY DEF MoveCaret
  <2>2. s.sel = "blocks" \/ s.sel = "text"
    BY <1>1, SelectionView
  <2>3. s.sel = "text" => IsSelection(edge)
    BY <1>1, RangeView, SelectionFields
  <2> HIDE DEF edge
  <2>4. MaySelect(next)
    BY <1>3, <2>2, <2>3, LeavingView, MovingView DEF MaySelect
  <2> HIDE DEF next
  <2> QED
    BY <1>2, <2>1, <2>4, LocalPlans DEF MaySelect
<1>5. IsLocalPlan(SelectAll(st))
  <2> DEFINE first == Among(DocOrder(d), {b \in Blocks(d) : Kids(d, b) = <<>>})[1]
             last == Last(DocOrder(d))
             all == IF IsText(d, first) /\ IsText(d, last) THEN TextSelection(Point(first, 0), EndOf(d, last))
                    ELSE BlockSelection(d.root[1], Last(d.root))
  <2>1. SelectAll(st) = SetSelection(st, all)
    BY DEF SelectAll
  <2> HIDE DEF first, last
  <2>2. IsSelection(all)
    BY <1>1, StopsView, SelectionFields
  <2> HIDE DEF all
  <2> QED
    BY <2>1, <2>2, SetSelectionPlan
<1>6. IsLocalPlan(SelectParent(st))
  <2> DEFINE outer == ParentOf(d, s.first)
             opt == SelectedSiblings(d, s)
             ids == SiblingIds(d, opt[1])
             next == IF s.sel = "blocks" THEN IF outer = Root THEN None ELSE Some(BlockSelection(outer, outer))
                     ELSE IF opt = None THEN None ELSE Some(BlockSelection(Head(ids), Last(ids)))
  <2>1. SelectParent(st) = IF next = None THEN None ELSE SetSelection(st, next[1])
    BY DEF SelectParent
  <2> HIDE DEF outer, opt, ids
  <2>2. MaySelect(next)
    BY <1>3, SelectionFields DEF MaySelect
  <2> HIDE DEF next
  <2> QED
    BY <2>1, <2>2, SetSelectionPlan, LocalPlans DEF MaySelect
<1> QED
  BY <1>4, <1>5, <1>6

-----------------------------------------------------------------------------
(***************************************************************************)
(* Deleting the selected text keeps the block where it begins, in its      *)
(* place: the commands that go on from there find it.                      *)
(***************************************************************************)

\* What is left of a document is as it was.
Thinned(d, e) ==
    /\ Blocks(e) \subseteq Blocks(d)
    /\ \A x \in Blocks(e) : Parent(e, x) = Parent(d, x) /\ e.nodes[x].kind = d.nodes[x].kind

\* What the steps of a deletion do to the blocks.
TakenIds(d, s) == SubSeq(Kids(d, s.parent), s.index + 1, s.index + s.count)
Reduces(d, s, e) ==
    CASE s.op \in {"InsertInline", "RemoveInline"} ->
            Thinned(d, e) /\ Blocks(e) = Blocks(d) /\ \A x \in Places(e) : Kids(e, x) = Kids(d, x)
      [] s.op = "Join" -> Thinned(d, e) /\ Blocks(e) = Blocks(d) \ {s.next}
      [] s.op = "RemoveBlocks" ->
            /\ Siblings(d, s.parent, s.index, s.count) /\ Thinned(d, e)
            /\ Blocks(e) = Blocks(d) \ AllUnder(d.nodes, ToSet(TakenIds(d, s)))
            /\ \A x \in Places(e) : x # s.parent => Kids(e, x) = Kids(d, x)
      [] s.op = "MoveBlocks" ->
            /\ Siblings(d, s.parent, s.index, s.count) /\ Blocks(e) = Blocks(d)
            /\ \A x \in Blocks(d) : /\ e.nodes[x].kind = d.nodes[x].kind
                                    /\ x \notin ToSet(TakenIds(d, s)) => Parent(e, x) = Parent(d, x)
      [] OTHER -> TRUE

\* What a step performed does to the blocks.
LEMMA PerformReduces ==
    ASSUME NEW d, WellFormed(d), NEW s, IsStep(s), Perform(d, s).ok
    PROVE  Reduces(d, s, Perform(d, s).doc)
<1> DEFINE a == Perform(d, s)
           e == a.doc
<1>1. ~Failed(d).ok /\ Shaped(d)
  BY DEF Failed, WellFormed
<1>2. CASE s.op \in {"InsertInline", "RemoveInline"}
  <2>1. s.block \in Blocks(d) /\ \E text : e = SetText(d, s.block, text)
    BY <1>1, <1>2 DEF Perform, InsertInline, Applied, IsText, RemoveInline, RangeOk
  <2> HIDE DEF a
  <2>2. Thinned(d, e) /\ Blocks(e) = Blocks(d) /\ \A x \in Places(e) : Kids(e, x) = Kids(d, x)
    BY <1>1, <2>1, SetTextView DEF Thinned, Places
  <2> QED
    BY <1>2, <2>2 DEF Reduces, a
<1>3. CASE s.op = "Join"
  <2>1. CanJoin(d, s.block, s.next) /\ e = JoinedInto(d, s.block, s.next)
    BY <1>1, <1>3 DEF Perform, Join, Applied, CanJoin, JoinedInto, Text
  <2> HIDE DEF a
  <2>2. IsJoined(d, e, s.block, s.next)
    BY <2>1, JoinView
  <2>3. Thinned(d, e) /\ Blocks(e) = Blocks(d) \ {s.next}
    BY <2>2 DEF IsJoined, Thinned
  <2> QED
    BY <1>3, <2>3 DEF Reduces, a
<1>4. CASE s.op = "RemoveBlocks"
  <2> DEFINE cut == DetachTrees(d, s.parent, s.index, s.count)
  <2>1. /\ e = cut.doc /\ IndexOk(d, s.parent, s.index, s.index + s.count) /\ s.index \in Nat /\ s.count \in Nat
    BY <1>1, <1>4 DEF Perform, RemoveBlocks, Applied, IsStep
  <2>2. Siblings(d, s.parent, s.index, s.count)
    BY <2>1 DEF Siblings, IndexOk, Places
  <2> HIDE DEF a
  <2>3. /\ Blocks(cut.doc) = Blocks(d) \ AllUnder(d.nodes, ToSet(TakenIds(d, s)))
        /\ \A q \in Places(cut.doc) : q # s.parent => Kids(cut.doc, q) = Kids(d, q)
        /\ \A c \in Blocks(cut.doc) : cut.doc.nodes[c].kind = d.nodes[c].kind /\ Parent(cut.doc, c) = Parent(d, c)
    BY <2>2, DetachTreesView DEF TakenIds
  <2> HIDE DEF cut
  <2> QED
    BY <1>4, <2>1, <2>2, <2>3 DEF Reduces, Thinned, a
<1>5. CASE s.op = "MoveBlocks"
  <2> DEFINE ids == TakenIds(d, s)
  <2>1. /\ e = MovedInto(d, s.parent, s.index, s.count, s.to, s.toIndex)
        /\ IndexOk(d, s.parent, s.index, s.index + s.count) /\ IndexOk(d, s.to, 0, 0)
        /\ s.index \in Nat /\ s.count \in Nat
    BY <1>1, <1>5 DEF Perform, MoveBlocks, Applied, IsStep, MovedInto, Reparent, MovedIds, MovedFrom
  <2>2. Siblings(d, s.parent, s.index, s.count) /\ s.to \in Places(d)
    BY <2>1 DEF Siblings, IndexOk, Places
  <2>3. s.parent \in Places(d)
    BY <2>2 DEF Siblings
  <2> HIDE DEF a
  <2>4. IsMoved(d, e, s.parent, s.index, s.count, s.to, s.toIndex)
    BY <1>1, <2>1, <2>2, <2>3, MovedView
  <2>5. \A c \in Blocks(d) : e.nodes[c].kind = d.nodes[c].kind /\ (c \notin ToSet(ids) => Parent(e, c) = Parent(d, c))
    BY <2>4 DEF IsMoved, MovedIds, TakenIds
  <2>6. Blocks(e) = Blocks(d)
    BY <2>4 DEF IsMoved
  <2> QED
    BY <1>5, <2>2, <2>5, <2>6 DEF Reduces, a
<1>6. CASE s.op \notin {"InsertInline", "RemoveInline", "Join", "RemoveBlocks", "MoveBlocks"}
  BY <1>6 DEF Reduces
<1> QED
  BY <1>2, <1>3, <1>4, <1>5, <1>6

\* Revisions, counters and savepoints have no part in it.
LEMMA TwinsReduce ==
    ASSUME NEW d, NEW before, Twins(d, before), NEW e, NEW after, Twins(e, after), NEW s, Reduces(before, s, e)
    PROVE  Reduces(d, s, after)
<1>1. /\ Blocks(before) = Blocks(d) /\ Places(before) = Places(d)
      /\ \A p : Kids(before, p) = Kids(d, p)
      /\ \A b \in Blocks(d) : before.nodes[b].kind = d.nodes[b].kind /\ Parent(before, b) = Parent(d, b)
  BY TwinsReadTheSame
<1>2. /\ Blocks(after) = Blocks(e) /\ Places(after) = Places(e)
      /\ \A p : Kids(after, p) = Kids(e, p)
      /\ \A b \in Blocks(e) : after.nodes[b].kind = e.nodes[b].kind /\ Parent(after, b) = Parent(e, b)
  BY TwinsReadTheSame
<1>3. TakenIds(before, s) = TakenIds(d, s)
  BY <1>1 DEF TakenIds
<1>4. Siblings(before, s.parent, s.index, s.count) => Siblings(d, s.parent, s.index, s.count)
  BY <1>1 DEF Siblings
<1>5. Thinned(before, e) => Thinned(d, after)
  BY <1>1, <1>2 DEF Thinned
<1>6. WellFormed(d)
  BY DEF Twins
<1>7. Siblings(d, s.parent, s.index, s.count) =>
        AllUnder(before.nodes, ToSet(TakenIds(d, s))) = AllUnder(d.nodes, ToSet(TakenIds(d, s)))
  <2> HAVE Siblings(d, s.parent, s.index, s.count)
  <2> DEFINE ids == ToSet(TakenIds(d, s))
  <2>1. ids \subseteq Blocks(d)
    BY <1>6, TakenBlocks DEF TakenIds
  <2> HIDE DEF ids
  <2>2. AllUnder(before.nodes, ids) = AllUnder(d.nodes, ids)
    BY <2>1, TwinsAreDeepAlike
  <2> QED
    BY <2>2 DEF ids
<1> QED
  BY <1>1, <1>2, <1>3, <1>4, <1>5, <1>7 DEF Reduces

\* So does a step applied with its record.
LEMMA StepReduces ==
    ASSUME NEW d, WellFormed(d), NEW s, IsTyped(s), StepApply(d, s).ok
    PROVE  Reduces(d, s, StepApply(d, s).doc)
<1> DEFINE before == RecordBefore(d, s)
           result == Perform(before, s)
           a == StepApply(d, s)
<1>1. /\ WellFormed(before) /\ Twins(d, before) /\ result.ok /\ Twins(result.doc, a.doc) /\ IsStep(s)
  BY StepApplyParts DEF IsTyped
<1> HIDE DEF before, a
<1>2. Reduces(before, s, result.doc)
  BY <1>1, PerformReduces
<1> HIDE DEF result
<1>3. Reduces(d, s, a.doc)
  BY <1>1, <1>2, TwinsReduce
<1> QED
  BY <1>3 DEF a

\* A transaction after one more step, or one more instruction, that was applied.
LEMMA AppliedStep ==
    ASSUME NEW d, NEW t, Ran(d, t), NEW s, IsTyped(s) \/ s = GiveUp, StepIn(t, s).ok
    PROVE  /\ t.ok /\ IsTyped(s) /\ s # GiveUp /\ Ran(d, StepIn(t, s))
           /\ Reduces(t.doc, s, StepIn(t, s).doc)
<1>1. IsTx(t) /\ IsDocument(t.doc) /\ WellFormed(t.doc)
  BY DEF Ran, IsDocument
<1>2. t.ok
  BY DEF StepIn
<1>3. Tried(t.doc, s).ok /\ StepIn(t, s).doc = Tried(t.doc, s).doc
  BY <1>1, <1>2, StepInTried
<1>4. s # GiveUp /\ StepApply(t.doc, s).ok /\ StepIn(t, s).doc = StepApply(t.doc, s).doc
  BY <1>3 DEF Tried, Failed
<1>5. Ran(d, StepIn(t, s))
  BY RanStep
<1> QED
  BY <1>1, <1>2, <1>4, <1>5, StepReduces

\* An instruction that applied did so as the steps it stands for.
LEMMA AppliedInstruction ==
    ASSUME NEW d, NEW t, Ran(d, t), NEW e, IsInstruction(e), Instruct(t, e).ok
    PROVE  /\ t.ok /\ Ran(d, Instruct(t, e))
           /\ Instruct(t, e) = RunSteps(t, IF e.op \in Edits THEN Resolve(t.doc, e) ELSE <<e>>)
           /\ e.op \notin Edits => Instruct(t, e) = StepIn(t, e)
<1>1. t.ok
  BY RunStepsParts DEF Instruct, StepIn
<1>2. Ran(d, Instruct(t, e))
  BY RanInstruct
<1> QED
  BY <1>1, <1>2, RunStepsParts DEF Instruct

\* A script that applied to its last instruction had applied up to it.
LEMMA AppliedScript ==
    ASSUME NEW d, IsDocument(d), NEW script, IsScript(script), NEW e, IsInstruction(e),
           RunScript(NoCommit(d), Append(script, e)).ok
    PROVE  LET t == RunScript(NoCommit(d), script)
           IN  /\ Ran(d, t) /\ t.ok /\ RunScript(NoCommit(d), Append(script, e)) = Instruct(t, e)
               /\ Instruct(t, e).ok
<1> DEFINE t == RunScript(NoCommit(d), script)
           r == RunScript(NoCommit(d), Append(script, e))
<1>1. Ran(d, NoCommit(d))
  BY RanNothing
<1>2. PICK u : Ran(d, u) /\ t = OrRolledBack(u) /\ r = OrRolledBack(Instruct(u, e))
  BY <1>1, ScriptLast
<1> HIDE DEF t
<1>3. Ran(d, Instruct(u, e))
  BY <1>2, RanInstruct
<1>4. Instruct(u, e).ok /\ r = Instruct(u, e)
  BY <1>2, <1>3, OrRolledBackView
<1>5. u.ok
  BY <1>2, <1>4, AppliedInstruction
<1>6. t = u
  BY <1>2, <1>5, OrRolledBackView
<1> QED
  BY <1>2, <1>4, <1>5, <1>6 DEF t

\* A block's place in the list it is in, as the step that takes it out has it.
LEMMA PlaceOfRemoval ==
    ASSUME NEW d, WellFormed(d), NEW b \in Blocks(d)
    PROVE  /\ SubSeq(Kids(d, Parent(d, b)), Index(d, b) + 1, Index(d, b) + 1) = <<b>>
           /\ Siblings(d, Parent(d, b), Index(d, b), 1)
<1> DEFINE q == Kids(d, Parent(d, b))
           i == IndexInParent(d, b)
<1>1. q \in Seq(Blocks(d)) /\ IsInjective(q) /\ b \in ToSet(q) /\ Parent(d, b) \in Places(d)
  BY NotItsOwnParent DEF WellFormed, Linked, Places
<1>2. i \in 1 .. Len(q) /\ q[i] = b
  BY <1>1, PlaceThere DEF IndexInParent
<1>3. Index(d, b) \in Nat /\ Index(d, b) + 1 = i /\ Index(d, b) + 1 <= Len(q)
  <2>1. Index(d, b) = i - 1
    BY DEF Index
  <2>2. Len(q) \in Nat
    BY <1>1, LenProperties
  <2> HIDE DEF i, q
  <2> QED
    BY <1>2, <2>1, <2>2
<1>4. SubSeq(q, i, i) = <<b>>
  <2> DEFINE at == Index(d, b)
             one == SubSeq(q, at + 1, at + 1)
  <2>1. at \in Nat /\ at + 1 = i /\ at + 1 <= Len(q)
    BY <1>3
  <2> HIDE DEF i, q, at
  <2>2. one \in Seq(Blocks(d)) /\ Len(one) = 1 /\ \A j \in 1 .. 1 : one[j] = q[at + j]
    BY <1>1, <2>1, PartOf
  <2>3. one[1] = b
    BY <1>2, <2>1, <2>2
  <2>4. one = SubSeq(q, i, i)
    BY <2>1
  <2> HIDE DEF one
  <2>5. one = <<b>>
    BY <2>2, <2>3
  <2> QED
    BY <2>4, <2>5
<1> QED
  BY <1>1, <1>3, <1>4 DEF Siblings

\* Thinning is transitive.
LEMMA ThinnedAgain ==
    /\ \A d, e : Twins(d, e) => Thinned(d, e)
    /\ \A d, e, f : Thinned(d, e) /\ Thinned(e, f) => Thinned(d, f)
<1>1. \A d, e : Twins(d, e) => Thinned(d, e)
  BY TwinsReadTheSame DEF Thinned
<1>2. \A d, e, f : Thinned(d, e) /\ Thinned(e, f) => Thinned(d, f)
  BY DEF Thinned
<1> QED
  BY <1>1, <1>2

\* The removal of a block, if it is there.
LEMMA RemovalView ==
    ASSUME NEW d, NEW t, Ran(d, t), NEW b, Instruct(t, RemoveBlock(b)).ok
    PROVE  /\ b \in Blocks(t.doc) /\ Instruct(t, RemoveBlock(b)) = StepIn(t, Removal(t.doc, b))
           /\ IsTyped(Removal(t.doc, b))
           /\ Reduces(t.doc, Removal(t.doc, b), Instruct(t, RemoveBlock(b)).doc)
<1> DEFINE e == RemoveBlock(b)
           s == Removal(t.doc, b)
<1>1. e.op = "RemoveBlock" /\ e.op \in Edits /\ e.block = b /\ IsInstruction(e)
  BY InstructionsAre DEF RemoveBlock, Edits
<1>2. WellFormed(t.doc)
  BY DEF Ran, IsDocument
<1>3. Instruct(t, e) = RunSteps(t, Resolve(t.doc, e)) /\ t.ok
  BY <1>1, AppliedInstruction
<1>4. Resolve(t.doc, e) = IF b \in Blocks(t.doc) THEN <<s>> ELSE <<GiveUp>>
  BY <1>1 DEF Resolve
<1>5. Instruct(t, e) = IF b \in Blocks(t.doc) THEN StepIn(t, s) ELSE StepIn(t, GiveUp)
  BY <1>3, <1>4, RunStepsParts
<1>6. b \in Blocks(t.doc) => IsTyped(s)
  BY <1>2, IndexView, StepsAre DEF Removal
<1> HIDE DEF e, s
<1>7. b \in Blocks(t.doc)
  BY <1>5, AppliedStep DEF e
<1> QED
  BY <1>5, <1>6, <1>7, AppliedStep DEF e, s

\* What a deletion begins with: text and blocks are taken out.
TakesOut(s) == (IsTyped(s) /\ s.op = "RemoveInline") \/ s = RemoveBlock(s.block)

\* What a script of cuts leaves is as it was.
LEMMA CutsThin ==
    ASSUME NEW d, IsDocument(d), NEW q, IsScript(q), \A s \in ToSet(q) : TakesOut(s),
           RunScript(NoCommit(d), q).ok
    PROVE  Thinned(d, RunScript(NoCommit(d), q).doc)
<1> DEFINE R(p) == RunScript(NoCommit(d), p)
           part(n) == SubSeq(q, 1, n)
           G == {n \in Nat : n <= Len(q) /\ R(part(n)).ok => Thinned(d, R(part(n)).doc)}
           T == ToSet(q)
<1>1. q \in Seq(T) /\ Len(q) \in Nat /\ \A s \in T : TakesOut(s) /\ IsInstruction(s)
  BY LenProperties DEF IsScript
<1>2. 0 \in G
  <2>1. part(0) = <<>>
    BY <1>1
  <2>2. R(<<>>) = NoCommit(d)
    BY EmptySeq, ScriptingUnfolds, NoCommitView
  <2>3. Twins(d, d)
    BY RanNothing
  <2>4. R(part(0)) = NoCommit(d)
    <3> HIDE DEF part, R
    <3> QED
      BY <2>1, <2>2
  <2>5. Thinned(d, d)
    BY <2>3, ThinnedAgain
  <2>6. Thinned(d, NoCommit(d).doc)
    BY <2>5, NoCommitView
  <2> HIDE DEF R, part
  <2> QED
    BY <2>4, <2>6
<1>3. ASSUME NEW n \in Nat, n \in G PROVE n + 1 \in G
  <2> SUFFICES ASSUME n + 1 <= Len(q), R(part(n + 1)).ok PROVE Thinned(d, R(part(n + 1)).doc)
    OBVIOUS
  <2> DEFINE p == part(n)
             s == q[n + 1]
             t == R(p)
             r == Instruct(t, s)
  <2>1. n <= Len(q) /\ n + 1 \in 1 .. Len(q)
    BY <1>1
  <2>2. s \in T
    BY <1>1, <2>1, ElementOfSeq
  <2>3. p \in Seq(T) /\ part(n + 1) = Append(p, s) /\ Len(p) = n
    <3> HIDE DEF T
    <3> QED
      BY <1>1, <2>1
  <2>4. IsScript(p)
    BY <2>3, MemberOf, <1>1 DEF IsScript
  <2> HIDE DEF p, s, T
  <2>5. /\ Ran(d, t) /\ t.ok /\ R(Append(p, s)) = r /\ r.ok
    BY <1>1, <2>2, <2>3, <2>4, AppliedScript
  <2>6. Thinned(d, t.doc)
    BY <1>3, <2>1, <2>5 DEF p
  <2> HIDE DEF t, r
  <2>7. Thinned(t.doc, r.doc)
    <3>1. CASE IsTyped(s) /\ s.op = "RemoveInline"
      <4>1. s.op \notin Edits
        BY <3>1 DEF Edits
      <4>2. r = StepIn(t, s)
        BY <1>1, <2>2, <2>5, <4>1, AppliedInstruction DEF r
      <4>3. Reduces(t.doc, s, r.doc)
        BY <2>5, <3>1, <4>2, AppliedStep
      <4> QED
        BY <3>1, <4>3 DEF Reduces
    <3>2. CASE s = RemoveBlock(s.block)
      <4> DEFINE b == s.block
                 x == Removal(t.doc, b)
      <4>1. s = RemoveBlock(b)
        BY <3>2
      <4> HIDE DEF b
      <4>2. Reduces(t.doc, x, r.doc)
        BY <2>5, <4>1, RemovalView DEF r
      <4>3. x.op = "RemoveBlocks"
        BY DEF Removal, RemoveBlocksStep
      <4> HIDE DEF x
      <4> QED
        BY <4>2, <4>3 DEF Reduces
    <3> QED
      BY <1>1, <2>2, <3>1, <3>2 DEF TakesOut
  <2>8. Thinned(d, r.doc)
    BY <2>6, <2>7, ThinnedAgain
  <2> QED
    BY <2>3, <2>5, <2>8
<1>4. Len(q) \in G
  <2> HIDE DEF G
  <2> QED
    BY <1>1, <1>2, <1>3, NaturalSet
<1>5. part(Len(q)) = q
  BY <1>1
<1> HIDE DEF R, part
<1>6. R(q).ok => Thinned(d, R(q).doc)
  BY <1>1, <1>4, <1>5
<1> QED
  BY <1>6 DEF R

\* A block is still there, in the same place, and the others are of the kinds
\* they were.
Remains(d, e, b) ==
    /\ Blocks(e) \subseteq Blocks(d) /\ \A x \in Blocks(e) : e.nodes[x].kind = d.nodes[x].kind
    /\ b \in Blocks(e) /\ Parent(e, b) = Parent(d, b)

\* Remaining is reflexive and transitive, and what thinning leaves remains.
LEMMA RemainsView ==
    /\ \A d : \A b \in Blocks(d) : Remains(d, d, b)
    /\ \A d, e, f, b : Remains(d, e, b) /\ Remains(e, f, b) => Remains(d, f, b)
    /\ \A d, e : \A b \in Blocks(e) : Thinned(d, e) => Remains(d, e, b)
    /\ \A d, e, b : Remains(d, e, b) => \A x : IsText(d, x) /\ x \in Blocks(e) => IsText(e, x)
<1>1. \A d : \A b \in Blocks(d) : Remains(d, d, b)
  BY DEF Remains
<1>2. \A d, e, f, b : Remains(d, e, b) /\ Remains(e, f, b) => Remains(d, f, b)
  BY DEF Remains
<1>3. \A d, e : \A b \in Blocks(e) : Thinned(d, e) => Remains(d, e, b)
  BY DEF Remains, Thinned
<1>4. \A d, e, b : Remains(d, e, b) => \A x : IsText(d, x) /\ x \in Blocks(e) => IsText(e, x)
  BY DEF Remains, IsText
<1> QED
  BY <1>1, <1>2, <1>3, <1>4

\* Two steps, one after the other.
LEMMA TwoSteps == \A t, r, s : RunSteps(t, <<r, s>>) = StepIn(StepIn(t, r), s)
<1> TAKE t, r, s
<1> DEFINE T == {r, s}
           p == <<r>>
           q == <<s>>
<1>1. p \in Seq(T) /\ q \in Seq(T) /\ <<r, s>> = p \o q
  <2>1. r \in T /\ s \in T
    OBVIOUS
  <2> HIDE DEF T
  <2>2. p \in Seq(T) /\ q \in Seq(T) /\ p \o q \in Seq(T)
    BY <2>1
  <2>3. Len(p \o q) = 2 /\ (p \o q)[1] = r /\ (p \o q)[2] = s
    BY <2>1
  <2>4. <<r, s>> \in Seq(T) /\ Len(<<r, s>>) = 2 /\ <<r, s>>[1] = r /\ <<r, s>>[2] = s
    BY <2>1
  <2> HIDE DEF p, q
  <2>5. \A i \in 1..Len(<<r, s>>) : <<r, s>>[i] = (p \o q)[i]
    <3> TAKE i \in 1..Len(<<r, s>>)
    <3>1. i = 1 \/ i = 2
      BY <2>4
    <3> QED
      BY <2>3, <2>4, <3>1
  <2>6. <<r, s>> = p \o q
    BY <2>2, <2>3, <2>4, <2>5, SeqEqual
  <2> QED
    BY <2>2, <2>6
<1>2. RunSteps(t, p) = StepIn(t, r) /\ \A u : RunSteps(u, q) = StepIn(u, s)
  BY RunStepsParts
<1> HIDE DEF p, q, T
<1>3. RunSteps(t, p \o q) = RunSteps(RunSteps(t, p), q)
  BY <1>1, RunStepsParts
<1> QED
  BY <1>1, <1>2, <1>3

\* The block that takes the text of another stays where it is.
LEMMA MergingKeeps ==
    ASSUME NEW d0, NEW t, Ran(d0, t), NEW b, NEW s, b # s, s \in Blocks(t.doc) => IsText(t.doc, s),
           IsText(t.doc, b) \/ b \notin Blocks(t.doc), Instruct(t, MergeText(b, s)).ok
    PROVE  Remains(t.doc, Instruct(t, MergeText(b, s)).doc, b)
<1> DEFINE d == t.doc
           m == MergeText(b, s)
           r == Instruct(t, m)
           into == Parent(d, b)
           from == Parent(d, s)
           J == JoinStep(b, s)
           M == MoveBlocksStep(from, Index(d, s), 1, into, Index(d, b) + 1)
           I == InsertInlineStep(b, TextLen(d, b), Text(d, s))
           V == Removal(d, s)
           next == into = from /\ Index(d, s) = Index(d, b) + 1
           fits == Allows(d, into, d.nodes[s].kind)
<1>1. m.op = "MergeText" /\ m.op \in Edits /\ m.target = b /\ m.source = s /\ IsInstruction(m)
  BY InstructionsAre DEF MergeText, Edits
<1>2. r = RunSteps(t, Resolve(d, m)) /\ t.ok /\ r.ok
  BY <1>1, AppliedInstruction
<1>3. Resolve(d, m) = IF {b, s} \subseteq Blocks(d) THEN Merged(d, b, s) ELSE <<GiveUp>>
  BY <1>1 DEF Resolve
<1> HIDE DEF m, r
<1>4. {b, s} \subseteq Blocks(d)
  BY <1>2, <1>3, RunStepsParts, AppliedStep
<1>5. WellFormed(d)
  BY DEF Ran, IsDocument
<1>6. Merged(d, b, s) = IF next THEN <<J>> ELSE IF fits THEN <<M, J>> ELSE <<I, V>>
  BY DEF Merged
<1>7. /\ Index(d, s) \in Nat /\ Index(d, b) + 1 \in Nat /\ TextLen(d, b) \in Nat /\ IsContent(Text(d, s))
  BY <1>4, <1>5, IndexView
<1>8. IsTyped(M) /\ IsTyped(I) /\ IsTyped(V)
  BY <1>7, StepsAre DEF Removal
<1>9. IsTyped(J) /\ J.op = "Join" /\ J.next = s
  BY DEF JoinStep, IsTyped, IsStep
<1>10. IsText(d, b) /\ IsText(d, s)
  BY <1>4
<1>11. r = IF next THEN StepIn(t, J) ELSE IF fits THEN StepIn(StepIn(t, M), J) ELSE StepIn(StepIn(t, I), V)
  BY <1>2, <1>3, <1>4, <1>6, RunStepsParts, TwoSteps
<1>12. \A u : Ran(d0, u) /\ StepIn(u, J).ok /\ b \in Blocks(u.doc) => Remains(u.doc, StepIn(u, J).doc, b)
  <2> TAKE u
  <2> HAVE Ran(d0, u) /\ StepIn(u, J).ok /\ b \in Blocks(u.doc)
  <2> HIDE DEF J
  <2>1. Reduces(u.doc, J, StepIn(u, J).doc)
    BY <1>9, AppliedStep
  <2> QED
    BY <1>9, <2>1 DEF Reduces, Remains, Thinned
<1>13. ASSUME next PROVE Remains(d, r.doc, b)
  <2> HIDE DEF J, M, I, V, next, fits
  <2>1. r = StepIn(t, J)
    BY <1>11, <1>13
  <2>2. StepIn(t, J).ok /\ b \in Blocks(t.doc)
    BY <1>2, <1>4, <2>1
  <2>3. Remains(t.doc, StepIn(t, J).doc, b)
    BY <1>12, <2>2
  <2> QED
    BY <2>1, <2>3
<1>14. SubSeq(Kids(d, from), Index(d, s) + 1, Index(d, s) + 1) = <<s>>
  BY <1>4, <1>5, PlaceOfRemoval
<1>15. ASSUME ~next /\ fits PROVE Remains(d, r.doc, b)
  <2> DEFINE u == StepIn(t, M)
  <2>1. M.op = "MoveBlocks" /\ M.parent = from /\ M.index = Index(d, s) /\ M.count = 1
    BY DEF MoveBlocksStep
  <2> HIDE DEF J, M, I, V, next, fits
  <2>2. r = StepIn(u, J)
    BY <1>11, <1>15
  <2>3. u.ok
    BY <1>2, <2>2 DEF StepIn
  <2>4. Ran(d0, u) /\ Reduces(d, M, u.doc)
    BY <1>8, <2>3, AppliedStep
  <2>5. TakenIds(d, M) = <<s>>
    BY <1>14, <2>1 DEF TakenIds
  <2>6. ToSet(<<s>>) = {s}
    BY DEF ToSet
  <2> HIDE DEF u
  <2>7. Remains(d, u.doc, b)
    BY <1>4, <2>1, <2>4, <2>5, <2>6 DEF Reduces, Remains
  <2>8. b \in Blocks(u.doc) /\ StepIn(u, J).ok
    BY <1>2, <2>2, <2>7 DEF Remains
  <2>9. Remains(u.doc, r.doc, b)
    BY <1>12, <2>2, <2>4, <2>8
  <2> HIDE DEF d
  <2> QED
    BY <2>7, <2>9, RemainsView
<1>16. ASSUME ~next /\ ~fits PROVE Remains(d, r.doc, b)
  <2> DEFINE u == StepIn(t, I)
             e == u.doc
  <2>1. I.op = "InsertInline"
    BY DEF InsertInlineStep
  <2>2. V.op = "RemoveBlocks" /\ V.parent = from /\ V.index = Index(d, s) /\ V.count = 1
    BY DEF Removal, RemoveBlocksStep
  <2> HIDE DEF J, M, I, V, next, fits
  <2>3. r = StepIn(u, V)
    BY <1>11, <1>16
  <2>4. u.ok
    BY <1>2, <2>3 DEF StepIn
  <2>5. Ran(d0, u) /\ Reduces(d, I, u.doc)
    BY <1>8, <2>4, AppliedStep
  <2>6. Thinned(d, e) /\ Blocks(e) = Blocks(d) /\ \A x \in Places(e) : Kids(e, x) = Kids(d, x)
    BY <2>1, <2>5 DEF Reduces
  <2> HIDE DEF u
  <2>7. Reduces(e, V, r.doc)
    BY <1>2, <1>8, <2>3, <2>5, AppliedStep
  <2>8. TakenIds(e, V) = <<s>>
    BY <1>4, <1>5, <2>6, NotItsOwnParent, <1>14, <2>2 DEF Places, TakenIds
  <2>9. ToSet(<<s>>) = {s}
    BY DEF ToSet
  <2>10. IsText(e, s) /\ WellFormed(e)
    BY <1>10, <2>5, <2>6 DEF Thinned, IsText, Ran, IsDocument
  <2>11. AllUnder(e.nodes, {s}) = {s}
    BY <2>10, TextStandsAlone
  <2>12. Thinned(e, r.doc) /\ Blocks(r.doc) = Blocks(e) \ {s}
    BY <2>2, <2>7, <2>8, <2>9, <2>11 DEF Reduces
  <2>13. Thinned(d, r.doc) /\ b \in Blocks(r.doc)
    BY <1>4, <2>6, <2>12, ThinnedAgain
  <2> HIDE DEF d, e
  <2> QED
    BY <2>13, RemainsView
<1> HIDE DEF next, fits, J, M, I, V
<1>17. Remains(d, r.doc, b)
  BY <1>13, <1>15, <1>16
<1> QED
  BY <1>17 DEF r, m

\* So does a child of the container that takes what another one held.
LEMMA AdoptingKeeps ==
    ASSUME NEW d0, NEW t, Ran(d0, t), NEW b \in Blocks(t.doc), NEW q,
           Instruct(t, AdoptChildren(Parent(t.doc, b), q)).ok
    PROVE  Remains(t.doc, Instruct(t, AdoptChildren(Parent(t.doc, b), q)).doc, b)
<1> DEFINE d == t.doc
           p == Parent(d, b)
           m == AdoptChildren(p, q)
           r == Instruct(t, m)
           M == MoveAllStep(d, q, p)
<1>1. m.op = "AdoptChildren" /\ m.op \in Edits /\ m.into = p /\ m.from = q /\ IsInstruction(m)
  BY InstructionsAre DEF AdoptChildren, Edits
<1>2. r = RunSteps(t, Adopted(d, p, q)) /\ t.ok /\ r.ok
  BY <1>1, AppliedInstruction DEF Resolve
<1> HIDE DEF m, r
<1>3. WellFormed(d)
  BY DEF Ran, IsDocument
<1>4. \/ Adopted(d, p, q) = <<>>
      \/ Adopted(d, p, q) = <<M>> /\ p # q
  BY DEF Adopted
<1>5. CASE Adopted(d, p, q) = <<>>
  BY <1>2, <1>5, RunStepsParts, RemainsView DEF r, m
<1>6. CASE Adopted(d, p, q) = <<M>> /\ p # q
  <2>1. r = StepIn(t, M)
    BY <1>2, <1>6, RunStepsParts
  <2>2. Kids(d, q) \in Seq(Blocks(d)) /\ Len(Kids(d, q)) \in Nat /\ Len(Kids(d, p)) \in Nat
    BY <1>3, IndexView
  <2>3. IsTyped(M)
    BY <2>2, StepsAre DEF MoveAllStep
  <2>4. M.op = "MoveBlocks" /\ M.parent = q /\ M.index = 0 /\ M.count = Len(Kids(d, q))
    BY DEF MoveAllStep, MoveBlocksStep
  <2> HIDE DEF M
  <2>5. Reduces(d, M, r.doc)
    BY <1>2, <2>1, <2>3, AppliedStep
  <2>6. TakenIds(d, M) = Kids(d, q)
    BY <2>2, <2>4 DEF TakenIds
  <2>7. b \notin ToSet(Kids(d, q))
    BY <2>4, <2>5, <1>3, <1>6 DEF Reduces, Siblings, WellFormed, Linked, Places
  <2>8. Remains(d, r.doc, b)
    BY <2>4, <2>5, <2>6, <2>7 DEF Reduces, Remains
  <2> QED
    BY <2>8 DEF r, m
<1> QED
  BY <1>4, <1>5, <1>6

\* What pruning takes out: the containers from p up that hold nothing else.
Emptied(d, chain, k) ==
    /\ k \in Nat /\ k <= Len(chain)
    /\ \A i \in 1 .. k : /\ ContentOf[d.nodes[chain[i]].kind] = "blocks"
                         /\ Len(Kids(d, chain[i])) = IF i = 1 THEN 0 ELSE 1
PruningOf(d, chain, k) == [i \in 1 .. k |-> Removal(d, chain[i])]

\* Pruning takes out the containers that hold nothing else, up to the first
\* that does.
LEMMA PrunedView ==
    ASSUME NEW d, WellFormed(d), NEW p \in Blocks(d)
    PROVE  \E k : Emptied(d, AncestorsOrSelf(d, p), k) /\ Pruned(d, p) = PruningOf(d, AncestorsOrSelf(d, p), k)
<1> DEFINE chain == AncestorsOrSelf(d, p)
           E(n) == \A i \in 1 .. n : /\ ContentOf[d.nodes[chain[i]].kind] = "blocks"
                                     /\ Len(Kids(d, chain[i])) = IF i = 1 THEN 0 ELSE 1
           Gone == {n \in DOMAIN chain : E(n)}
           k == Cardinality(Gone)
<1>1. Pruned(d, p) = PruningOf(d, chain, k)
  BY DEF Pruned, PruningOf
<1>2. chain \in Seq(Blocks(d))
  BY AncestorsView
<1> HIDE DEF chain
<1>3. DOMAIN chain = 1 .. Len(chain) /\ Len(chain) \in Nat
  BY <1>2, LenProperties
<1>4. Gone \subseteq 1 .. Len(chain) /\ \A n \in 1 .. Len(chain) : E(n) => n \in Gone
  BY <1>3
<1>5. \A n \in Gone : E(n)
  OBVIOUS
<1>6. \A n, m \in Nat : m <= n /\ E(n) => E(m)
  OBVIOUS
<1> HIDE DEF E, Gone
<1>7. \A n \in Nat : IsFiniteSet(1 .. n) /\ Cardinality(1 .. n) = n
  <2> TAKE n \in Nat
  <2>1. n \in Int /\ 1 \in Int
    OBVIOUS
  <2>2. IsFiniteSet(1 .. n) /\ Cardinality(1 .. n) = IF 1 > n THEN 0 ELSE n - 1 + 1
    BY <2>1, FS_Interval
  <2> QED
    BY <2>2
<1>8. k \in Nat /\ k <= Len(chain) /\ IsFiniteSet(Gone)
  <2> DEFINE N == Len(chain)
  <2>1. N \in Nat /\ Gone \subseteq 1 .. N
    BY <1>3, <1>4
  <2> HIDE DEF N
  <2>2. IsFiniteSet(1 .. N) /\ Cardinality(1 .. N) = N
    BY <1>7, <2>1
  <2>3. IsFiniteSet(Gone) /\ Cardinality(Gone) <= Cardinality(1 .. N)
    BY <2>1, <2>2, FS_Subset
  <2>4. Cardinality(Gone) \in Nat
    BY <2>3, FS_CardinalityType
  <2> QED
    BY <2>2, <2>3, <2>4 DEF N
<1>9. E(k)
  <2>1. CASE k = 0
    BY <2>1 DEF E
  <2>2. CASE k # 0
    <3> SUFFICES ASSUME ~E(k) PROVE FALSE
      OBVIOUS
    <3>1. Gone \subseteq 1 .. k - 1
      BY <1>4, <1>5, <1>3, <1>6, <1>8
    <3>2. IsFiniteSet(1 .. k - 1) /\ Cardinality(1 .. k - 1) = k - 1
      <4>1. k - 1 \in Nat
        BY <1>8, <2>2
      <4> HIDE DEF k
      <4> QED
        BY <1>7, <4>1
    <3>3. k <= k - 1
      BY <3>1, <3>2, FS_Subset
    <3> QED
      BY <1>8, <3>3
  <2> QED
    BY <2>1, <2>2
<1>10. Emptied(d, chain, k)
  BY <1>8, <1>9 DEF Emptied, E
<1> QED
  BY <1>1, <1>10 DEF chain

\* Below such a container there is nothing but the ones before it, which hold
\* no text, and each lies in a container of its own.
LEMMA PrunedHoldNothing ==
    ASSUME NEW d, WellFormed(d), NEW p \in Blocks(d), NEW k, Emptied(d, AncestorsOrSelf(d, p), k),
           NEW i \in 1 .. k
    PROVE  LET chain == AncestorsOrSelf(d, p)
           IN  /\ chain[i] \in Blocks(d)
               /\ \A b \in Subtree(d, chain[i]) : ~IsText(d, b)
               /\ \A j \in 1 .. k : j # i => Parent(d, chain[j]) # Parent(d, chain[i])
<1> DEFINE chain == AncestorsOrSelf(d, p)
           S == {chain[j] : j \in 1 .. i}
<1>1. /\ chain \in Seq(Blocks(d)) /\ Len(chain) \in Nat /\ chain[1] = p
      /\ ToSet(chain) = {a \in Blocks(d) : p \in Subtree(d, a)}
      /\ \A m, j \in 1 .. Len(chain) : m < j => OrderOf(d, chain[j]) < OrderOf(d, chain[m])
  BY AncestorsChain
<1>2. /\ k \in Nat /\ k <= Len(chain)
      /\ \A j \in 1 .. k : /\ ContentOf[d.nodes[chain[j]].kind] = "blocks"
                           /\ Len(Kids(d, chain[j])) = IF j = 1 THEN 0 ELSE 1
  BY DEF Emptied
<1> HIDE DEF chain
<1>3. \A j \in 1 .. k : j \in 1 .. Len(chain) /\ chain[j] \in ToSet(chain) /\ chain[j] \in Blocks(d)
                        /\ p \in Subtree(d, chain[j])
  BY <1>1, <1>2, MemberOf
<1>4. \A j \in 1 .. k : OrderOf(d, chain[j]) \in Nat
  BY <1>3, AncestorsAreReadFirst
<1>5. Closed(d.nodes, S)
  <2> SUFFICES ASSUME NEW j \in 1 .. i PROVE KidsOf(d.nodes, chain[j]) \subseteq S
    BY DEF Closed
  <2> DEFINE a == chain[j]
             K == Kids(d, a)
  <2>0. j \in 1 .. k /\ a \in Blocks(d) /\ p \in Subtree(d, a)
    BY <1>2, <1>3
  <2>1. KidsOf(d.nodes, a) = ToSet(K) /\ K \in Seq(Blocks(d)) /\ Len(K) \in Nat
    BY <2>0, IndexView DEF KidsOf, Kids, WellFormed, Shaped
  <2>2. CASE j = 1
    <3>1. Len(K) = 0
      BY <1>2, <2>0, <2>2
    <3> HIDE DEF K, a
    <3>2. ToSet(K) = {}
      BY <2>1, <3>1, EmptySeq, MemberOf DEF ToSet
    <3> QED
      BY <2>1, <3>2 DEF a
  <2>3. CASE j # 1
    <3>1. Len(K) = 1
      BY <1>2, <2>0, <2>3
    <3>2. a # p
      BY <1>1, <1>2, <2>0, <2>3, <1>4
    <3>3. PICK c \in ToSet(K) : c \in Blocks(d) /\ p \in Subtree(d, c)
      BY <2>0, <3>2, BelowAChild
    <3>4. c \in ToSet(chain)
      BY <1>1, <3>3
    <3>5. PICK m \in 1 .. Len(chain) : c = chain[m]
      BY <1>1, <3>4, MemberOf
    <3>6. c \in Subtree(d, a) /\ c # a
      <4>1. a \in Subtree(d, a) /\ Closed(d.nodes, Subtree(d, a))
        BY <2>0, SubtreeView
      <4>2. c \in Subtree(d, a)
        BY <2>1, <3>3, <4>1 DEF Closed
      <4>3. Parent(d, c) = a
        BY <2>0, <3>3 DEF WellFormed, Linked
      <4>4. Parent(d, a) # a
        BY <2>0, <4>1, SubtreeView
      <4> QED
        BY <4>2, <4>3, <4>4
    <3>7. OrderOf(d, a) < OrderOf(d, c) /\ OrderOf(d, c) \in Nat /\ OrderOf(d, a) \in Nat
      BY <2>0, <3>6, AncestorsAreReadFirst
    <3>8. m < j
      BY <1>1, <2>0, <3>5, <1>3, <3>7
    <3>9. c \in S
      BY <1>1, <2>0, <3>5, <3>8
    <3> HIDE DEF K, S
    <3>10. ToSet(K) = {c}
      <4>1. PICK n \in 1 .. Len(K) : K[n] = c
        BY <2>1, <3>3, MemberOf
      <4>2. \A x \in ToSet(K) : x = c
        <5> TAKE x \in ToSet(K)
        <5>1. PICK l \in 1 .. Len(K) : K[l] = x
          BY <2>1, MemberOf
        <5> QED
          BY <3>1, <4>1, <5>1
      <4> QED
        BY <3>3, <4>2
    <3> QED
      BY <2>1, <3>9, <3>10
  <2> QED
    BY <2>2, <2>3
<1>6. Subtree(d, chain[i]) \subseteq S
  BY <1>2, <1>3, <1>5, SubtreeView
<1>7. \A b \in S : ~IsText(d, b)
  BY <1>2 DEF IsText
<1>8. ASSUME NEW j \in 1 .. k, j # i PROVE Parent(d, chain[j]) # Parent(d, chain[i])
  <2> SUFFICES ASSUME Parent(d, chain[j]) = Parent(d, chain[i]) PROVE FALSE
    OBVIOUS
  <2> DEFINE q == Parent(d, chain[i])
  <2>1. q \in Places(d) /\ chain[i] \in ToSet(Kids(d, q)) /\ chain[j] \in ToSet(Kids(d, q))
    BY <1>3 DEF WellFormed, Linked, Places
  <2>2. chain[i] = chain[j]
    BY <1>3, <2>1, OneChildAbove
  <2>3. i < j \/ j < i
    BY <1>2, <1>8
  <2>4. OrderOf(d, chain[j]) < OrderOf(d, chain[i]) \/ OrderOf(d, chain[i]) < OrderOf(d, chain[j])
    BY <1>1, <1>3, <2>3
  <2> QED
    BY <1>4, <2>2, <2>4
<1>9. chain[i] \in Blocks(d)
  BY <1>3
<1> HIDE DEF S
<1>10. \A b \in Subtree(d, chain[i]) : ~IsText(d, b)
  BY <1>6, <1>7
<1> QED
  BY <1>8, <1>9, <1>10 DEF chain

\* Removing a tree takes out no more than what was below its block before.
LEMMA NothingElseBelow ==
    ASSUME NEW d, WellFormed(d), NEW e, WellFormed(e), Thinned(d, e), NEW c \in Blocks(e)
    PROVE  AllUnder(e.nodes, {c}) \subseteq Subtree(d, c)
<1> DEFINE U == Subtree(d, c) \cap Blocks(e)
<1>1. c \in Blocks(d)
  BY DEF Thinned
<1>2. c \in Subtree(d, c) /\ Closed(d.nodes, Subtree(d, c))
  BY <1>1, SubtreeView
<1>3. Closed(e.nodes, U)
  <2> SUFFICES ASSUME NEW x \in U, NEW y \in KidsOf(e.nodes, x) PROVE y \in U
    BY DEF Closed
  <2>1. y \in ToSet(Kids(e, x)) /\ y \in Blocks(e)
    <3>1. KidsOf(e.nodes, x) = ToSet(Kids(e, x)) /\ Kids(e, x) \in Seq(Blocks(e))
      BY IndexView DEF KidsOf, Kids, WellFormed, Shaped
    <3> QED
      BY <3>1, MemberOf
  <2>2. Parent(e, y) = x
    BY <2>1 DEF WellFormed, Linked
  <2>3. Parent(d, y) = x /\ y \in Blocks(d) /\ x \in Blocks(d)
    BY <2>1, <2>2 DEF Thinned
  <2>4. y \in ToSet(Kids(d, x))
    BY <2>3 DEF WellFormed, Linked
  <2>5. y \in KidsOf(d.nodes, x)
    BY <2>3, <2>4 DEF KidsOf, Kids, WellFormed, Shaped
  <2>6. y \in Subtree(d, c)
    BY <1>2, <2>5 DEF Closed
  <2> QED
    BY <2>1, <2>6
<1>4. Subtree(e, c) \subseteq U
  BY <1>2, <1>3, SubtreeView
<1> QED
  BY <1>4 DEF Subtree

\* Emptied containers go, and no block of text goes with them.
LEMMA PruningSteps ==
    ASSUME NEW d0, NEW t, Ran(d0, t), NEW p \in Blocks(t.doc), NEW k, Emptied(t.doc, AncestorsOrSelf(t.doc, p), k),
           RunSteps(t, PruningOf(t.doc, AncestorsOrSelf(t.doc, p), k)).ok
    PROVE  LET e == RunSteps(t, PruningOf(t.doc, AncestorsOrSelf(t.doc, p), k)).doc
           IN  Thinned(t.doc, e) /\ \A b : IsText(t.doc, b) => b \in Blocks(e)
<1> DEFINE d == t.doc
           chain == AncestorsOrSelf(d, p)
           P == PruningOf(d, chain, k)
           At(n) == SteppingAt(t, P)[n]
           Above(n) == {Parent(d, chain[i]) : i \in 1 .. n}
           Good(n) == /\ Ran(d0, At(n)) /\ Thinned(d, At(n).doc)
                      /\ \A b : IsText(d, b) => b \in Blocks(At(n).doc)
                      /\ \A x \in Places(At(n).doc) : x \notin Above(n) => Kids(At(n).doc, x) = Kids(d, x)
           G == {n \in Nat : n <= k /\ At(n).ok => Good(n)}
<1>1. WellFormed(d)
  BY DEF Ran, IsDocument
<1>2. k \in Nat /\ k <= Len(chain)
  BY DEF Emptied
<1>3. \A i \in 1 .. k : /\ chain[i] \in Blocks(d)
                        /\ \A b \in Subtree(d, chain[i]) : ~IsText(d, b)
                        /\ \A j \in 1 .. k : j # i => Parent(d, chain[j]) # Parent(d, chain[i])
  BY <1>1, PrunedHoldNothing
<1>4. P = [i \in 1 .. k |-> Removal(d, chain[i])] /\ Len(P) = k
  BY <1>2 DEF PruningOf
<1>5. \A i \in 1 .. k : P[i] = Removal(d, chain[i]) /\ IsTyped(P[i])
  BY <1>1, <1>3, <1>4, IndexView, StepsAre DEF Removal
<1> HIDE DEF P
<1>6. RunSteps(t, P) = At(k) /\ At(0) = t
  BY <1>2, <1>4, SteppingUnfolds
<1>7. ASSUME NEW n \in Nat, n + 1 <= k PROVE At(n + 1) = StepIn(At(n), P[n + 1])
  BY <1>2, <1>4, <1>7, SteppingUnfolds DEF SteppingNext
<1> HIDE DEF At
<1>8. 0 \in G
  BY <1>6 DEF Thinned, IsText
<1>9. ASSUME NEW n \in Nat, n \in G PROVE n + 1 \in G
  <2> SUFFICES ASSUME n + 1 <= k, At(n + 1).ok PROVE Good(n + 1)
    OBVIOUS
  <2> DEFINE u == At(n)
             e == u.doc
             s == P[n + 1]
             c == chain[n + 1]
             q == Parent(d, c)
             f == At(n + 1).doc
  <2>1. n + 1 \in 1 .. k /\ At(n + 1) = StepIn(u, s) /\ IsTyped(s) /\ s = Removal(d, c) /\ n <= k
    BY <1>2, <1>5, <1>7
  <2>2. u.ok
    BY <2>1 DEF StepIn
  <2>3. Good(n)
    BY <1>9, <2>1, <2>2
  <2>4. WellFormed(e)
    BY <2>3 DEF Ran, IsDocument
  <2>5. Ran(d0, At(n + 1)) /\ Reduces(e, s, f)
    <3> HIDE DEF s
    <3> QED
      BY <2>1, <2>3, AppliedStep
  <2>6. c \in Blocks(d) /\ q \notin Above(n)
    BY <1>2, <2>1, <1>3
  <2>7. s.op = "RemoveBlocks" /\ s.parent = q /\ s.index = Index(d, c) /\ s.count = 1
    BY <2>1 DEF Removal, RemoveBlocksStep
  <2> HIDE DEF c, s, P
  <2>8. Siblings(e, q, Index(d, c), 1) /\ Thinned(e, f)
        /\ Blocks(f) = Blocks(e) \ AllUnder(e.nodes, ToSet(TakenIds(e, s)))
        /\ \A x \in Places(f) : x # q => Kids(f, x) = Kids(e, x)
    BY <2>5, <2>7 DEF Reduces
  <2>9. Kids(e, q) = Kids(d, q)
    BY <2>3, <2>6, <2>8 DEF Siblings
  <2>10. TakenIds(e, s) = <<c>>
    BY <1>1, <2>6, <2>7, <2>9, PlaceOfRemoval DEF TakenIds
  <2>11. ToSet(<<c>>) = {c}
    BY DEF ToSet
  <2>12. c \in Blocks(e)
    <3>1. ToSet(SubSeq(Kids(e, q), Index(d, c) + 1, Index(d, c) + 1)) \subseteq Blocks(e)
      BY <2>4, <2>8, TakenBlocks
    <3> QED
      BY <2>7, <2>10, <2>11, <3>1 DEF TakenIds
  <2>13. AllUnder(e.nodes, {c}) \subseteq Subtree(d, c)
    BY <1>1, <2>3, <2>4, <2>12, NothingElseBelow
  <2>14. Thinned(d, f)
    BY <2>3, <2>8, ThinnedAgain
  <2>15. ASSUME NEW b, IsText(d, b) PROVE b \in Blocks(f)
    BY <2>3, <2>15, <1>3, <2>1, <2>8, <2>10, <2>11, <2>13 DEF c
  <2>16. ASSUME NEW x \in Places(f), x \notin Above(n + 1) PROVE Kids(f, x) = Kids(d, x)
    <3>1. x # q /\ x \notin Above(n)
      BY <2>16 DEF c
    <3>2. x \in Places(e)
      BY <2>8, <2>16 DEF Places, Thinned
    <3> QED
      BY <2>3, <2>8, <2>16, <3>1, <3>2
  <2> QED
    BY <2>5, <2>14, <2>15, <2>16
<1>10. k \in G
  <2> HIDE DEF G
  <2> QED
    BY <1>2, <1>8, <1>9, NaturalSet
<1>11. Good(k)
  BY <1>6, <1>10 DEF P
<1> QED
  BY <1>6, <1>11 DEF P

\* So a block of text remains when the containers beside it are pruned.
LEMMA PruningKeeps ==
    ASSUME NEW d0, NEW t, Ran(d0, t), NEW b, IsText(t.doc, b), NEW p, Instruct(t, PruneEmpty(p)).ok
    PROVE  Remains(t.doc, Instruct(t, PruneEmpty(p)).doc, b)
<1> DEFINE d == t.doc
           m == PruneEmpty(p)
           r == Instruct(t, m)
<1>1. m.op = "PruneEmpty" /\ m.op \in Edits /\ m.block = p /\ IsInstruction(m)
  BY InstructionsAre DEF PruneEmpty, Edits
<1>2. r = RunSteps(t, Pruned(d, p)) /\ r.ok
  BY <1>1, AppliedInstruction DEF Resolve
<1> HIDE DEF m, r
<1>3. WellFormed(d)
  BY DEF Ran, IsDocument
<1>4. CASE p \notin Blocks(d)
  BY <1>2, <1>4, RunStepsParts, RemainsView DEF Pruned, IsText, r, m
<1>5. CASE p \in Blocks(d)
  <2> DEFINE chain == AncestorsOrSelf(d, p)
  <2>1. PICK k : Emptied(d, chain, k) /\ Pruned(d, p) = PruningOf(d, chain, k)
    BY <1>3, <1>5, PrunedView
  <2>2. r = RunSteps(t, PruningOf(d, chain, k))
    BY <1>2, <2>1
  <2>3. Thinned(d, r.doc) /\ b \in Blocks(r.doc)
    BY <1>2, <1>5, <2>1, <2>2, PruningSteps
  <2> HIDE DEF d
  <2>4. Remains(d, r.doc, b)
    BY <2>3, RemainsView
  <2> QED
    BY <2>4 DEF r, m, d
<1> QED
  BY <1>4, <1>5

\* An empty script does nothing.
LEMMA ScriptOfNothing == \A t : t.ok = TRUE => RunScript(t, <<>>) = t
<1> SUFFICES ASSUME NEW t, t.ok = TRUE PROVE RunScript(t, <<>>) = t
  OBVIOUS
<1>1. Len(<<>>) = 0
  BY EmptySeq
<1>2. ScriptingAt(t, <<>>)[0] = t
  BY <1>1, ScriptingUnfolds
<1>3. RunScript(t, <<>>) = IF t.ok THEN t ELSE RolledBack(t)
  BY <1>1, <1>2, ScriptingUnfolds
<1> QED
  BY <1>3

\* The block where the deleted text begins stays, in its place.
LEMMA DeletionKeeps ==
    ASSUME NEW st, IsState(st), st.selection.sel = "text"
    PROVE  LET t == SelectedTextDeleted(st)
               at == DeletedAt(st)
           IN  /\ Ran(st.doc, t) /\ Remains(st.doc, t.doc, at.block)
               /\ IsText(st.doc, at.block) /\ IsText(t.doc, at.block) /\ PointOk(at)
<1> DEFINE d == st.doc
           a == TextRange(d, st.selection).from
           b == TextRange(d, st.selection).to
           R(q) == RunScript(NoCommit(d), q)
           script == DeleteRange(d, a, b)
           t == R(script)
           cutTo == RemoveInlineStep(b.block, 0, b.offset)
           cutFrom == RemoveInlineStep(a.block, a.offset, TextLen(d, a.block))
           one == RemoveInlineStep(a.block, a.offset, b.offset)
           first == <<cutTo, cutFrom>>
           covered == Reverse(CoveredSubtrees(d, a.block, b.block))
           gone == [i \in DOMAIN covered |-> RemoveBlock(covered[i])]
           pre == first \o gone
           M == MergeText(a.block, b.block)
           A == AdoptChildren(Parent(d, a.block), Parent(d, b.block))
           P == PruneEmpty(Parent(d, b.block))
<1>1. IsDocument(d) /\ WellFormed(d)
  BY DEF IsState, IsDocument
<1>2. /\ IsText(d, a.block) /\ a.block \in Blocks(d) /\ PointOk(a)
      /\ IsText(d, b.block) /\ b.block \in Blocks(d) /\ PointOk(b)
  BY CaretsInText
<1>3. /\ a.offset \in Nat /\ b.offset \in Nat /\ TextLen(d, a.block) \in Nat
  BY <1>1, <1>2, IndexView DEF PointOk
<1>4. SelectedTextDeleted(st) = t /\ DeletedAt(st) = a
  BY DEF SelectedTextDeleted, DeletedAt
<1>5. script = IF a = b THEN <<>> ELSE IF a.block = b.block THEN <<one>> ELSE first \o gone \o <<M, A, P>>
  BY DEF DeleteRange, Merging
<1>6. IsScript(script)
  BY <1>1, <1>2, DeletionScript
<1>7. IsTyped(cutTo) /\ IsTyped(cutFrom) /\ IsTyped(one)
  BY <1>3, StepsAre
<1>8. cutTo.op = "RemoveInline" /\ cutFrom.op = "RemoveInline" /\ one.op = "RemoveInline"
  BY DEF RemoveInlineStep
<1> HIDE DEF a, b, cutTo, cutFrom, one
<1>9. IsScript(first) /\ (\A s \in ToSet(first) : TakesOut(s)) /\ IsScript(<<one>>) /\ \A s \in ToSet(<<one>>) : TakesOut(s)
  <2>1. IsScript(first) /\ IsScript(<<one>>)
    BY <1>7, InstructionsAre, ShortScripts, ScriptOf
  <2>2. ToSet(first) = {cutTo, cutFrom}
    <3>1. DOMAIN first = 1 .. 2 /\ first[1] = cutTo /\ first[2] = cutFrom
      OBVIOUS
    <3> HIDE DEF first
    <3> QED
      BY <3>1 DEF ToSet
  <2>3. ToSet(<<one>>) = {one}
    BY DEF ToSet
  <2> HIDE DEF first
  <2> QED
    BY <1>7, <1>8, <2>1, <2>2, <2>3 DEF TakesOut
<1>10. IsScript(gone) /\ \A s \in ToSet(gone) : TakesOut(s)
  <2>1. DocOrder(d) \in Seq(Blocks(d))
    BY <1>1, ReadingOrderIsComplete
  <2>2. CoveredSubtrees(d, a.block, b.block) \in Seq(Blocks(d))
    BY <2>1, AmongView DEF CoveredSubtrees
  <2>3. covered \in Seq(Blocks(d))
    BY <2>2, ReverseView
  <2> DEFINE n == Len(covered)
  <2>4. n \in Nat /\ DOMAIN covered = 1 .. n
    BY <2>3, LenProperties
  <2> HIDE DEF covered
  <2>5. gone = [i \in 1 .. n |-> RemoveBlock(covered[i])]
    BY <2>4
  <2>6. \A c : TakesOut(RemoveBlock(c))
    BY DEF TakesOut, RemoveBlock
  <2>7. \A s \in ToSet(gone) : TakesOut(s)
    BY <2>5, <2>6 DEF ToSet
  <2> HIDE DEF gone
  <2>8. gone = [i \in 1 .. n |-> gone[i]] /\ \A i \in 1 .. n : IsInstruction(gone[i])
    BY <2>5, InstructionsAre
  <2> HIDE DEF n
  <2> QED
    BY <2>4, <2>7, <2>8, ScriptOf
<1> HIDE DEF first, covered, gone
<1>11. IsScript(pre) /\ \A s \in ToSet(pre) : TakesOut(s)
  <2>1. first \in Seq(ToSet(first)) /\ gone \in Seq(ToSet(gone))
    BY <1>9, <1>10 DEF IsScript
  <2>2. \A s \in ToSet(pre) : s \in ToSet(first) \/ s \in ToSet(gone)
    <3> DEFINE U == ToSet(first) \cup ToSet(gone)
    <3>1. first \in Seq(U) /\ gone \in Seq(U)
      BY <2>1
    <3> HIDE DEF U
    <3>2. ToSet(first \o gone) = ToSet(first) \cup ToSet(gone)
      BY <3>1, ConcatOf
    <3> QED
      BY <3>2
  <2> QED
    BY <1>9, <1>10, <2>2, ScriptOf
<1>12. Ran(d, NoCommit(d)) /\ Twins(d, d)
  BY <1>1, RanNothing
<1>13. Ran(d, t) /\ t.ok \in BOOLEAN /\ (~t.ok => Twins(d, t.doc))
  BY <1>6, <1>12, RanScript
<1>14. IsInstruction(M) /\ IsInstruction(A) /\ IsInstruction(P)
  BY InstructionsAre
<1>15. ASSUME ~t.ok PROVE Remains(d, t.doc, a.block)
  <2>1. Thinned(d, t.doc) /\ a.block \in Blocks(t.doc)
    BY <1>2, <1>13, <1>15, ThinnedAgain, TwinsReadTheSame
  <2> HIDE DEF d, t
  <2> QED
    BY <2>1, RemainsView
<1>16. ASSUME t.ok /\ (a = b \/ a.block = b.block) PROVE Remains(d, t.doc, a.block)
  <2> DEFINE t0 == R(<<>>)
  <2>1. t0 = NoCommit(d)
    BY ScriptOfNothing, NoCommitView
  <2>2. NoCommit(d).doc = d
    BY NoCommitView
  <2>3. script = <<>> \/ script = <<one>>
    BY <1>5, <1>16
  <2>4. CASE script = <<>>
    <3>1. t.doc = d
      <4> HIDE DEF script
      <4> QED
        BY <2>1, <2>2, <2>4
    <3> HIDE DEF d, t
    <3> QED
      BY <1>2, <3>1, RemainsView
  <2>5. CASE script = <<one>>
    <3>1. <<one>> = Append(<<>>, one)
      OBVIOUS
    <3>2. IsInstruction(one) /\ IsScript(<<>>) /\ one.op \notin Edits
      BY <1>7, <1>8, InstructionsAre, ScriptOf DEF Edits
    <3> HIDE DEF script
    <3>3. Ran(d, t0) /\ t = Instruct(t0, one) /\ Instruct(t0, one).ok
      <4>1. t = R(Append(<<>>, one)) /\ R(Append(<<>>, one)).ok
        BY <1>16, <2>5, <3>1
      <4> HIDE DEF t
      <4> QED
        BY <1>1, <3>2, <4>1, AppliedScript
    <3> HIDE DEF t, t0
    <3>4. t = StepIn(t0, one)
      BY <3>2, <3>3, AppliedInstruction
    <3>5. Reduces(t0.doc, one, t.doc)
      BY <1>7, <3>3, <3>4, AppliedStep
    <3>6. Thinned(d, t.doc) /\ Blocks(t.doc) = Blocks(d)
      BY <1>8, <2>1, <2>2, <3>5 DEF Reduces
    <3> HIDE DEF d
    <3> QED
      BY <1>2, <3>6, RemainsView
  <2> QED
    BY <2>3, <2>4, <2>5
<1>17. ASSUME t.ok /\ a # b /\ a.block # b.block PROVE Remains(d, t.doc, a.block)
  <2> DEFINE q1 == Append(pre, M)
             q2 == Append(q1, A)
             t0 == R(pre)
             t1 == R(q1)
             t2 == R(q2)
  <2>1. script = Append(q2, P)
    <3>1. pre \in Seq(ToSet(pre))
      BY <1>11 DEF IsScript
    <3> HIDE DEF pre, M, A, P
    <3>2. pre \o <<M, A, P>> = Append(Append(Append(pre, M), A), P)
      BY <3>1
    <3>3. script = pre \o <<M, A, P>>
      BY <1>5, <1>17 DEF pre
    <3> QED
      BY <3>2, <3>3
  <2>2. IsScript(pre) /\ IsScript(q1) /\ IsScript(q2)
    BY <1>11, <1>14, ScriptOf
  <2> HIDE DEF script, pre, M, A, P, q2
  <2>3. t = Instruct(t2, P) /\ Ran(d, t2) /\ t2.ok /\ Instruct(t2, P).ok
    BY <1>1, <1>14, <1>17, <2>1, <2>2, AppliedScript
  <2> HIDE DEF q1
  <2>4. t2 = Instruct(t1, A) /\ Ran(d, t1) /\ t1.ok /\ Instruct(t1, A).ok
    BY <1>1, <1>14, <2>2, <2>3, AppliedScript DEF q2
  <2>5. t1 = Instruct(t0, M) /\ Ran(d, t0) /\ t0.ok /\ Instruct(t0, M).ok
    BY <1>1, <1>14, <2>2, <2>4, AppliedScript DEF q1
  <2>6. Thinned(d, t0.doc)
    BY <1>1, <1>11, <2>5, CutsThin
  <2> HIDE DEF t, t0, t1, t2
  <2>7. \A x : IsText(d, x) /\ x \in Blocks(t0.doc) => IsText(t0.doc, x)
    BY <2>6 DEF Thinned, IsText
  <2>8. Remains(t0.doc, t1.doc, a.block)
    BY <1>2, <1>17, <2>5, <2>7, MergingKeeps DEF M
  <2>9. a.block \in Blocks(t0.doc)
    BY <2>8 DEF Remains
  <2>10. Remains(d, t0.doc, a.block)
    <3> HIDE DEF d
    <3> QED
      BY <2>6, <2>9, RemainsView
  <2>11. Remains(d, t1.doc, a.block)
    <3> HIDE DEF d
    <3> QED
      BY <2>8, <2>10, RemainsView
  <2>12. a.block \in Blocks(t1.doc) /\ Parent(t1.doc, a.block) = Parent(d, a.block)
    BY <2>11 DEF Remains
  <2>13. Remains(t1.doc, t2.doc, a.block)
    BY <2>4, <2>12, AdoptingKeeps DEF A
  <2>14. Remains(d, t2.doc, a.block)
    <3> HIDE DEF d
    <3> QED
      BY <2>11, <2>13, RemainsView
  <2>15. IsText(t2.doc, a.block)
    BY <1>2, <2>14, RemainsView DEF Remains
  <2>16. Remains(t2.doc, t.doc, a.block)
    BY <2>3, <2>15, PruningKeeps DEF P
  <2> HIDE DEF d
  <2> QED
    BY <2>14, <2>16, RemainsView
<1>18. Remains(d, t.doc, a.block)
  <2>1. \/ ~t.ok
        \/ t.ok /\ (a = b \/ a.block = b.block)
        \/ t.ok /\ a # b /\ a.block # b.block
    BY <1>13
  <2> HIDE DEF t
  <2> QED
    BY <1>15, <1>16, <1>17, <2>1
<1>19. IsText(t.doc, a.block)
  <2> HIDE DEF d, t
  <2> QED
    BY <1>2, <1>18, RemainsView DEF Remains
<1> QED
  BY <1>2, <1>4, <1>13, <1>18, <1>19

-----------------------------------------------------------------------------
(***************************************************************************)
(* The commands that go on after deleting the selected text.               *)
(***************************************************************************)

\* What opens a text block: a step the code can build, and a caret.
LEMMA OpeningView ==
    ASSUME NEW d, IsDocument(d), NEW at, PointOk(at), at.block \in Blocks(d), NEW id \in Nat \ {0}
    PROVE  LET split == SplitTextBlock(d, at, id)
           IN  split # None => IsTyped(split[1].step) /\ PointOk(split[1].caret)
<1> DEFINE p == Parent(d, at.block)
           len == TextLen(d, at.block)
           default == DefaultTextType(d, p)
           kind == d.nodes[at.block].kind
           i == Index(d, at.block)
           below == InsertBlocksStep(p, i + 1, FreshTree(id, default[1]))
           above == InsertBlocksStep(p, i, FreshTree(id, OrElse(default, kind)))
           halve == SplitStep(at.block, at.offset, id, kind, d.nodes[at.block].attr)
           Opening(step, caret) == Some([step |-> step, caret |-> caret])
           split == SplitTextBlock(d, at, id)
<1>1. WellFormed(d)
  BY DEF IsDocument
<1>2. p \in Places(d) /\ i \in Nat /\ i + 1 \in Nat /\ at.offset \in Nat /\ kind \in Kinds
  BY <1>1, IndexView, NotItsOwnParent DEF PointOk, WellFormed, Holds
<1>3. default = None \/ (default # None /\ default[1] \in Kinds)
  BY <1>1, <1>2, DefaultTypeView
<1>4. PointOk(Point(id, 0))
  BY CaretIs
<1>5. split = CASE at.offset = len /\ default = None -> None
                [] at.offset = len /\ default # None -> Opening(below, Point(id, 0))
                [] at.offset = 0 /\ at.offset < len -> Opening(above, at)
                [] OTHER -> Opening(halve, Point(id, 0))
  BY DEF SplitTextBlock
<1>6. default # None => IsTyped(below)
  BY <1>2, <1>3, FreshStep
<1>7. IsTyped(above)
  BY <1>2, <1>3, FreshStep DEF OrElse
<1>8. IsTyped(halve)
  BY <1>2, StepsAre
<1> HIDE DEF below, above, halve, split, default, len
<1>9. \A step, caret : Opening(step, caret)[1].step = step /\ Opening(step, caret)[1].caret = caret
  BY DEF Some
<1>10. CASE at.offset = len /\ default = None
  BY <1>5, <1>10 DEF split
<1>11. CASE at.offset = len /\ default # None
  <2>1. split = Opening(below, Point(id, 0))
    BY <1>5, <1>11
  <2> HIDE DEF Opening
  <2> QED
    BY <1>4, <1>6, <1>9, <1>11, <2>1 DEF split
<1>12. CASE at.offset # len
  <2>1. split = Opening(above, at) \/ split = Opening(halve, Point(id, 0))
    BY <1>5, <1>12
  <2> HIDE DEF Opening
  <2> QED
    BY <1>4, <1>7, <1>8, <1>9, <2>1 DEF split
<1> QED
  BY <1>10, <1>11, <1>12

\* Splitting the text, and a leaf put where the caret is.
LEMMA SplitPlans ==
    ASSUME NEW st, IsState(st), NEW kind
    PROVE  /\ st.selection.sel = "text" => IsLocalPlan(SplitBlock(st, SelectedTextDeleted(st).doc))
           /\ TakesLeaf(st, kind) => IsLocalPlan(InsertLeaf(st, SelectedTextDeleted(st).doc, kind))
           /\ \A d : st.selection.sel # "text" => IsLocalPlan(SplitBlock(st, d))
           /\ \A d : ~TakesLeaf(st, kind) => IsLocalPlan(InsertLeaf(st, d, kind))
<1> DEFINE t == SelectedTextDeleted(st)
           d == t.doc
           at == DeletedAt(st)
<1>1. ASSUME st.selection.sel = "text"
      PROVE  IsDocument(d) /\ WellFormed(d) /\ d.next \in Nat \ {0} /\ PointOk(at) /\ at.block \in Blocks(d)
  BY <1>1, DeletionKeeps DEF Ran, IsDocument, Ids, IsText
<1> HIDE DEF t, at
<1>2. ASSUME st.selection.sel = "text" PROVE IsLocalPlan(SplitBlock(st, d))
  <2> DEFINE split == SplitTextBlock(d, at, d.next)
             marks == IF ActiveMarks(st) = {} THEN None ELSE Some(Some(ActiveMarks(st)))
             fx == Storing("Structure", Caret(split[1].caret), marks)
             script == <<split[1].step>>
  <2>1. fx = [With("Structure", Caret(split[1].caret)) EXCEPT !.stored = marks]
    BY DEF Storing
  <2>2. SplitBlock(st, d) = IF split = None THEN None ELSE Plan(script, fx)
    <3>1. st.selection.sel # "blocks"
      BY <1>2
    <3> HIDE DEF fx
    <3> QED
      BY <2>1, <3>1 DEF SplitBlock, at
  <2>3. split # None => IsTyped(split[1].step) /\ PointOk(split[1].caret)
    BY <1>1, <1>2, OpeningView
  <2> HIDE DEF split, fx
  <2>4. split # None => IsScript(script) /\ IsSelection(Caret(split[1].caret))
    BY <2>3, InstructionsAre, ScriptOf, CaretIs
  <2> HIDE DEF script, marks
  <2>5. split # None => IsEffects(fx) /\ fx.composition = None /\ fx.origin = "Local"
    BY <2>4, EffectsWith DEF fx
  <2> QED
    BY <2>2, <2>4, <2>5, LocalPlans
<1>3. ASSUME TakesLeaf(st, kind) PROVE IsLocalPlan(InsertLeaf(st, d, kind))
  <2> DEFINE p == Parent(d, at.block)
             i == Index(d, at.block)
             leaf == FreshTree(d.next, kind)
             split == SplitTextBlock(d, at, d.next + 1)
             whole == <<InsertBlocksStep(p, i, leaf)>>
             parts == <<split[1].step, InsertBlocksStep(p, i + 1, leaf)>>
             here == Point(split[1].caret.block, 0)
  <2>1. st.selection.sel = "text" /\ kind \in Kinds
    BY <1>3, KnownKinds DEF IsState, IsDocument, TakesLeaf, Allows
  <2>2. InsertLeaf(st, d, kind) =
          IF at.offset = 0 THEN Plan(whole, With("Structure", Caret(at)))
          ELSE IF split = None THEN None
          ELSE Plan(parts, With("Structure", Caret(here)))
    BY <1>3 DEF InsertLeaf, at
  <2>3. d.next \in Nat \ {0} /\ d.next + 1 \in Nat \ {0} /\ i \in Nat /\ i + 1 \in Nat
    BY <1>1, <2>1, IndexView
  <2>4. IsTyped(InsertBlocksStep(p, i, leaf)) /\ IsTyped(InsertBlocksStep(p, i + 1, leaf))
    BY <2>1, <2>3, FreshStep
  <2>5. split # None => IsTyped(split[1].step) /\ PointOk(split[1].caret)
    BY <1>1, <2>1, <2>3, OpeningView
  <2> HIDE DEF split, leaf, i, p
  <2>6. IsScript(whole) /\ (split # None => IsScript(parts))
    BY <2>4, <2>5, InstructionsAre, ScriptOf, ShortScripts
  <2>7. IsSelection(Caret(at)) /\ IsSelection(Caret(here))
    BY <1>1, <2>1, CaretIs
  <2> HIDE DEF whole, parts, here
  <2> QED
    BY <2>2, <2>6, <2>7, LocalPlans
<1>4. ASSUME NEW e, st.selection.sel # "text" PROVE IsLocalPlan(SplitBlock(st, e))
  BY <1>4, SelectionView, LocalPlans DEF IsState, Fits, BlockSelection, SplitBlock
<1>5. ASSUME NEW e, ~TakesLeaf(st, kind) PROVE IsLocalPlan(InsertLeaf(st, e, kind))
  BY <1>5, LocalPlans DEF InsertLeaf
<1> QED
  BY <1>2, <1>3, <1>4, <1>5 DEF t

\* Splitting a list item.
LEMMA SplitItemPlan ==
    ASSUME NEW st, IsState(st), NEW item
    PROVE  /\ InItem(st, item) => IsLocalPlan(SplitListItem(st, SelectedTextDeleted(st).doc, item))
           /\ \A d : ~InItem(st, item) => IsLocalPlan(SplitListItem(st, d, item))
<1> DEFINE t == SelectedTextDeleted(st)
           d == t.doc
           at == DeletedAt(st)
<1>1. ASSUME NEW e, ~InItem(st, item) PROVE IsLocalPlan(SplitListItem(st, e, item))
  BY <1>1, LocalPlans DEF SplitListItem
<1>2. ASSUME InItem(st, item) PROVE IsLocalPlan(SplitListItem(st, d, item))
  <2> DEFINE owner == Parent(d, at.block)
             i == Index(d, at.block)
             list == Parent(d, owner)
             n == Len(Kids(d, owner))
             len == TextLen(d, at.block)
             kind == DefaultTextType(d, owner)
             New(steps, from, id) ==
               steps \o <<InsertBlocksStep(list, Index(d, owner) + 1, FreshTree(id, item)),
                          MoveBlocksStep(owner, from, Len(Kids(d, owner)) + Len(steps) - from, id, 0)>>
             Fx(caret) == With("Structure", Caret(caret))
             out == PlanIf(LiftItems(d, list, Index(d, owner), 1, item), Fx(at))
             below == InsertBlocksStep(owner, i + 1, FreshTree(d.next, kind[1]))
             halve == SplitStep(at.block, at.offset, d.next, d.nodes[at.block].kind, d.nodes[at.block].attr)
             Divided(step) == Plan(New(<<step>>, i + 1, d.next + 1), Fx(Point(d.next, 0)))
             moved == Plan(New(<<>>, i, d.next), Fx(Point(at.block, 0)))
  <2>1. /\ st.selection.sel = "text" /\ at.block \in Blocks(st.doc) /\ Parent(st.doc, at.block) # Root
        /\ st.doc.nodes[Parent(st.doc, at.block)].kind = item
    BY <1>2 DEF InItem
  <2>2. Ran(st.doc, t) /\ Remains(st.doc, d, at.block) /\ PointOk(at) /\ IsText(d, at.block)
    BY <2>1, DeletionKeeps
  <2>3. item \in Kinds
    BY <2>1, NotItsOwnParent DEF IsState, IsDocument, Places, WellFormed, Holds
  <2> HIDE DEF t, at
  <2>4. IsDocument(d) /\ WellFormed(d) /\ d.next \in Nat \ {0} /\ d.next + 1 \in Nat \ {0} /\ at.block \in Blocks(d)
    BY <2>2 DEF Ran, IsDocument, Ids, IsText
  <2>5. owner \in Blocks(d) /\ list \in Places(d)
    BY <2>1, <2>2, <2>4, NotItsOwnParent DEF Remains, Places
  <2>6. /\ i \in Nat /\ n \in Nat /\ i < n /\ i + 1 \in Nat
        /\ Index(d, owner) \in Nat /\ Index(d, owner) + 1 \in Nat /\ at.offset \in Nat
        /\ Index(d, owner) < Len(Kids(d, list)) /\ Len(Kids(d, list)) \in Nat
    <3>1. i \in Nat /\ i < n /\ n \in Nat
      BY <2>4, IndexView
    <3>2. Index(d, owner) \in Nat /\ Index(d, owner) < Len(Kids(d, list)) /\ Len(Kids(d, list)) \in Nat
      BY <2>4, <2>5, IndexView
    <3>3. at.offset \in Nat
      BY <2>2 DEF PointOk
    <3> HIDE DEF i, n
    <3> QED
      BY <3>1, <3>2, <3>3
  <2>7. kind = None \/ (kind # None /\ kind[1] \in Kinds)
    BY <2>4, <2>5, DefaultTypeView DEF Places
  <2>8. SplitListItem(st, d, item) =
          IF list = Root THEN None
          ELSE CASE i + 1 = n /\ len = 0 /\ i = 0 -> out
                 [] i + 1 = n /\ len = 0 /\ i > 0 -> moved
                 [] ~(i + 1 = n /\ len = 0) /\ at.offset = len -> IF kind = None THEN None ELSE Divided(below)
                 [] OTHER -> Divided(halve)
    BY <1>2 DEF SplitListItem, at
  <2>9. \A caret : PointOk(caret) => IsSelection(Caret(caret))
    BY CaretIs
  <2>10. PointOk(Point(d.next, 0)) /\ PointOk(Point(at.block, 0))
    BY CaretIs
  <2>11. ASSUME NEW steps, IsScript(steps), NEW from \in Nat, NEW id \in Nat \ {0}, from <= n + Len(steps)
         PROVE  IsScript(New(steps, from, id))
    <3> DEFINE put == InsertBlocksStep(list, Index(d, owner) + 1, FreshTree(id, item))
               move == MoveBlocksStep(owner, from, n + Len(steps) - from, id, 0)
    <3>1. IsInstruction(put)
      BY <2>3, <2>6, FreshStep, InstructionsAre
    <3>2. Len(steps) \in Nat
      BY <2>11, ScriptOf
    <3>3. n + Len(steps) - from \in Nat /\ 0 \in Nat
      <4> HIDE DEF n
      <4> QED
        BY <2>6, <2>11, <3>2
    <3>4. IsInstruction(move)
      BY <2>11, <3>3, StepsAre, InstructionsAre
    <3>5. New(steps, from, id) = steps \o <<put, move>>
      OBVIOUS
    <3> HIDE DEF put, move, New
    <3> QED
      BY <2>11, <3>1, <3>4, <3>5, ShortScripts, ScriptOf
  <2>12. list # Root => IsLocalPlan(out)
    BY <2>5, <2>6, <2>2, <2>9, <2>4, LiftItemsPlan DEF Places
  <2>13. IsLocalPlan(moved)
    <3>1. IsScript(<<>>) /\ Len(<<>>) = 0
      BY ScriptOf, EmptySeq
    <3>2. i <= n + Len(<<>>)
      BY <2>6, <3>1
    <3>3. IsScript(New(<<>>, i, d.next))
      <4> HIDE DEF New, i, n
      <4> QED
        BY <2>4, <2>6, <2>11, <3>1, <3>2
    <3> HIDE DEF New
    <3> QED
      BY <2>9, <2>10, <3>3, LocalPlans
  <2>14. ASSUME NEW step, IsTyped(step) PROVE IsLocalPlan(Divided(step))
    <3> DEFINE steps == <<step>>
    <3>1. IsScript(steps) /\ Len(steps) = 1
      BY <2>14, InstructionsAre, ScriptOf
    <3> HIDE DEF steps
    <3>2. i + 1 <= n + Len(steps)
      BY <2>6, <3>1
    <3>3. IsScript(New(steps, i + 1, d.next + 1))
      <4> HIDE DEF New, i, n
      <4> QED
        BY <2>4, <2>6, <2>11, <3>1, <3>2
    <3> HIDE DEF New
    <3> QED
      BY <2>9, <2>10, <3>3, LocalPlans DEF steps
  <2>15. kind # None => IsTyped(below)
    BY <2>4, <2>6, <2>7, FreshStep
  <2>16. IsTyped(halve)
    BY <2>4, <2>6, StepsAre
  <2> HIDE DEF out, moved, Divided, below, halve, kind, len, list, i, n
  <2> QED
    BY <2>8, <2>12, <2>13, <2>14, <2>15, <2>16, LocalPlans
<1> QED
  BY <1>1, <1>2 DEF t

-----------------------------------------------------------------------------
(***************************************************************************)
(* The commands extensions register keep the contract of commands.         *)
(***************************************************************************)

\* A command as a binding names it, with what it is given.
CommandNames ==
    {"insertText", "deleteBackward", "deleteForward", "splitBlock", "toggleMark", "setBlockType",
     "setBlockAttrs", "wrapIn", "toggleWrap", "liftBlock", "insertLeaf", "liftEmptyBlock",
     "splitListItem", "sinkListItem", "liftListItem", "joinListItem", "toggleList", "moveCaret",
     "selectAll", "selectParent", "undoInputRule"}
IsCommand(cmd) ==
    /\ cmd.do \in CommandNames
    /\ cmd.do = "insertText" => IsChars(cmd.text)
    /\ cmd.do = "toggleList" => cmd.type \in ListTypes
    /\ cmd.do = "moveCaret" => cmd.extend \in BOOLEAN

\* What a command plans, once the selected text is deleted where it begins so.
LEMMA CommandPlans ==
    ASSUME NEW st, IsState(st), NEW cmd, IsCommand(cmd), cmd.do # "undoInputRule"
    PROVE  /\ Ran(st.doc, Started(st, cmd))
           /\ IsLocalPlan(PlanOf(st, Started(st, cmd).doc, cmd))
<1> DEFINE cut == SelectedTextDeleted(st)
           plain == NoCommit(st.doc)
           t == Started(st, cmd)
           plan == PlanOf(st, t.doc, cmd)
<1>1. Ran(st.doc, plain) /\ plain.doc = st.doc
  BY RanNothing, NoCommitView DEF IsState
<1>2. st.selection.sel = "text" => Ran(st.doc, cut)
  BY DeletionKeeps
<1> HIDE DEF cut, plain
<1>3. CASE cmd.do = "splitBlock"
  <2>1. t = IF st.selection.sel = "text" THEN cut ELSE plain
    BY <1>3 DEF Started, cut, plain
  <2>2. plan = SplitBlock(st, t.doc)
    BY <1>3 DEF PlanOf
  <2> HIDE DEF t, plan
  <2> QED
    BY <1>1, <1>2, <2>1, <2>2, SplitPlans DEF t, plan, cut
<1>4. CASE cmd.do = "insertLeaf"
  <2>1. t = IF TakesLeaf(st, cmd.kind) THEN cut ELSE plain
    BY <1>4 DEF Started, cut, plain
  <2>2. plan = InsertLeaf(st, t.doc, cmd.kind)
    BY <1>4 DEF PlanOf
  <2>3. TakesLeaf(st, cmd.kind) => st.selection.sel = "text"
    BY DEF TakesLeaf
  <2> HIDE DEF t, plan
  <2> QED
    BY <1>1, <1>2, <2>1, <2>2, <2>3, SplitPlans DEF t, plan, cut
<1>5. CASE cmd.do = "splitListItem"
  <2>1. t = IF InItem(st, cmd.item) THEN cut ELSE plain
    BY <1>5 DEF Started, cut, plain
  <2>2. plan = SplitListItem(st, t.doc, cmd.item)
    BY <1>5 DEF PlanOf
  <2>3. InItem(st, cmd.item) => st.selection.sel = "text"
    BY DEF InItem
  <2> HIDE DEF t, plan
  <2> QED
    BY <1>1, <1>2, <2>1, <2>2, <2>3, SplitItemPlan DEF t, plan, cut
<1>6. CASE cmd.do \notin {"splitBlock", "insertLeaf", "splitListItem"}
  <2>1. t = plain
    BY <1>6 DEF Started, plain
  <2> HIDE DEF t
  <2>2. ASSUME cmd.do = "insertText" PROVE IsLocalPlan(plan)
    BY <2>2, InsertTextPlan DEF IsCommand, PlanOf
  <2>3. ASSUME cmd.do = "deleteBackward" PROVE IsLocalPlan(plan)
    BY <2>3, DeletePlans DEF PlanOf
  <2>4. ASSUME cmd.do = "deleteForward" PROVE IsLocalPlan(plan)
    BY <2>4, DeletePlans DEF PlanOf
  <2>5. ASSUME cmd.do = "toggleMark" PROVE IsLocalPlan(plan)
    BY <2>5, ToggleMarkPlan DEF PlanOf
  <2>6. ASSUME cmd.do = "setBlockType" PROVE IsLocalPlan(plan)
    BY <2>6, SetBlockPlans DEF PlanOf
  <2>7. ASSUME cmd.do = "setBlockAttrs" PROVE IsLocalPlan(plan)
    BY <2>7, SetBlockPlans DEF PlanOf
  <2>8. ASSUME cmd.do = "wrapIn" PROVE IsLocalPlan(plan)
    BY <2>8, WrapPlan DEF PlanOf
  <2>9. ASSUME cmd.do = "toggleWrap" PROVE IsLocalPlan(plan)
    BY <2>9, ToggleWrapPlan DEF PlanOf
  <2>10. ASSUME cmd.do = "liftBlock" PROVE IsLocalPlan(plan)
    BY <2>10, LiftPlans DEF PlanOf
  <2>11. ASSUME cmd.do = "liftEmptyBlock" PROVE IsLocalPlan(plan)
    BY <2>11, LiftPlans DEF PlanOf
  <2>12. ASSUME cmd.do = "sinkListItem" PROVE IsLocalPlan(plan)
    BY <2>12, ItemPlans DEF PlanOf
  <2>13. ASSUME cmd.do = "liftListItem" PROVE IsLocalPlan(plan)
    BY <2>13, ItemPlans DEF PlanOf
  <2>14. ASSUME cmd.do = "joinListItem" PROVE IsLocalPlan(plan)
    BY <2>14, JoinItemPlan DEF PlanOf
  <2>15. ASSUME cmd.do = "toggleList" PROVE IsLocalPlan(plan)
    BY <2>15, ToggleListPlan DEF IsCommand, PlanOf
  <2>16. ASSUME cmd.do = "moveCaret" PROVE IsLocalPlan(plan)
    BY <2>16, MotionPlans DEF IsCommand, PlanOf
  <2>17. ASSUME cmd.do = "selectAll" PROVE IsLocalPlan(plan)
    BY <2>17, MotionPlans DEF PlanOf
  <2>18. ASSUME cmd.do = "selectParent" PROVE IsLocalPlan(plan)
    BY <2>18, MotionPlans DEF PlanOf
  <2> HIDE DEF plan
  <2>19. IsLocalPlan(plan)
    BY <1>6, <2>2, <2>3, <2>4, <2>5, <2>6, <2>7, <2>8, <2>9, <2>10, <2>11, <2>12, <2>13, <2>14, <2>15, <2>16,
       <2>17, <2>18 DEF IsCommand, CommandNames, plan, t
  <2> QED
    BY <1>1, <2>1, <2>19 DEF plan, t
<1> QED
  BY <1>3, <1>4, <1>5, <1>6

\* Every registered command keeps the contract of commands: it leaves an
\* editor whose document is a tree and whose caret and composition fit, and
\* records what it did as a local change that can be taken back.
THEOREM RegisteredTransacts ==
    ASSUME NEW c, IsCtx(c), NEW cmd, IsCommand(cmd)
    PROVE  Transacts(c.state, Registered(c, cmd))
<1> DEFINE st == c.state
           t == Started(st, cmd)
           plan == PlanOf(st, t.doc, cmd)
<1>1. IsState(st)
  BY DEF IsCtx
<1>2. CASE cmd.do = "undoInputRule"
  BY <1>2, UndoRuleTransacts DEF Registered
<1>3. CASE cmd.do # "undoInputRule"
  <2>1. Registered(c, cmd) = Change(st, t, plan)
    BY <1>3 DEF Registered
  <2>2. Ran(st.doc, t) /\ IsLocalPlan(plan)
    BY <1>1, <1>3, CommandPlans
  <2> HIDE DEF st, t, plan
  <2>3. Transacts(st, Change(st, t, plan))
    BY <1>1, <2>2, LocalChange DEF Transacts
  <2> QED
    BY <2>1, <2>3 DEF st
<1> QED
  BY <1>2, <1>3

\* What the model checker's setups are: states to open with, and commands that
\* are registered, with what they need.
CommandsAreRegistered == \A c, cmd : Command(c, cmd) = Registered(c, cmd)
SetupsNameCommands ==
    \A i \in DOMAIN Setups :
       /\ \A st \in Setups[i].starts : IsState(st) /\ st.doc.saves = <<>>
       /\ \A text \in Setups[i].texts : IsChars(text) /\ text # <<>>
       /\ \A cmds \in Setups[i].bindings \cup Setups[i].chains :
             cmds \in Seq(ToSet(cmds)) /\ \A k \in 1 .. Len(cmds) : IsCommand(cmds[k])
       /\ \A steps \in Setups[i].remote : IsSteps(steps)
       /\ \A s \in Setups[i].selections : IsSelection(s)

\* Bindings and chains of registered commands meet what the theorems ask of
\* a setup.
LEMMA RegisteredSetups ==
    ASSUME CommandsAreRegistered, SetupsNameCommands
    PROVE  SetupsAreTyped
<1> SUFFICES ASSUME NEW i \in DOMAIN Setups, NEW cmds \in Setups[i].bindings \cup Setups[i].chains
             PROVE  Honest(cmds)
  BY DEF SetupsNameCommands, SetupsAreTyped
<1>1. cmds \in Seq(ToSet(cmds)) /\ \A k \in 1 .. Len(cmds) : IsCommand(cmds[k])
  BY DEF SetupsNameCommands
<1>2. ASSUME NEW k \in 1 .. Len(cmds), NEW c, IsCtx(c) PROVE Transacts(c.state, Command(c, cmds[k]))
  BY <1>1, <1>2, RegisteredTransacts DEF CommandsAreRegistered
<1> QED
  BY <1>1, <1>2 DEF Honest

\* An editor with the commands of the base keymap, of the lists and of the
\* moves of the caret: nothing is taken for granted of what a key does.
THEOREM ShippedEditorStaysSound ==
    ASSUME CommandsAreRegistered, SetupsNameCommands
    PROVE  /\ Spec /\ [][PastesTransact]_vars => [](DocumentIsSound /\ TransientFits) /\ [][IdleLeaves]_vars
           /\ Spec /\ [][PastesTransact]_vars /\ []NothingFails => []HistoryRetraces
<1>1. SetupsAreTyped
  BY RegisteredSetups
<1>2. Spec /\ [][PastesTransact]_vars => []DocumentIsSound
  BY <1>1, DocumentStaysSound
<1>3. Spec /\ [][PastesTransact]_vars => []TransientFits
  BY <1>1, TransientAlwaysFits
<1>4. Spec /\ [][PastesTransact]_vars => [][IdleLeaves]_vars
  BY <1>1, IdleCallsLeaveNoTrace
<1>5. Spec /\ [][PastesTransact]_vars /\ []NothingFails => []HistoryRetraces
  BY <1>1, HistoryAlwaysRetraces
<1> QED
  BY <1>2, <1>3, <1>4, <1>5, PTL

=============================================================================
