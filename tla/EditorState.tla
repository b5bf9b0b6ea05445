---------------------------- MODULE EditorState ----------------------------
(***************************************************************************)
(* The editor state of canvist_core: a document with a selection, stored   *)
(* marks and an IME composition, the one function through which a commit   *)
(* becomes the new state, dry runs and all-or-nothing chains.              *)
(*                                                                         *)
(* A state is a record [doc, selection, stored, composition]. An optional  *)
(* value is a sequence of at most one element. The goal column, the caret  *)
(* affinity and the extensions' settings are left out: they are saved and  *)
(* restored together with the fields kept here.                            *)
(***************************************************************************)
EXTENDS Transactions

-----------------------------------------------------------------------------
(* Positions: repairing and ordering selections.                           *)

EndOf(d, b) == Point(b, TextLen(d, b))
ParentOf(d, b) == IF b \in Blocks(d) THEN Parent(d, b) ELSE Root

StartSelection(d) ==
    IF TextBlocks(d) # <<>> THEN Caret(Point(TextBlocks(d)[1], 0))
    ELSE IF d.root # <<>> THEN BlockSelection(d.root[1], d.root[1]) ELSE Caret(NoPoint)

Clamp(d, p) == Point(p.block, IF p.offset <= TextLen(d, p.block) THEN p.offset ELSE TextLen(d, p.block))

\* valid_selection: clamp offsets; what vanished falls back to the start.
ValidSelection(d, s) ==
    CASE s.sel = "text" /\ IsText(d, s.anchor.block) /\ IsText(d, s.head.block) ->
            TextSelection(Clamp(d, s.anchor), Clamp(d, s.head))
      [] s.sel = "text" /\ IsText(d, s.anchor.block) /\ ~IsText(d, s.head.block) ->
            Caret(Clamp(d, s.anchor))
      [] s.sel = "text" /\ ~IsText(d, s.anchor.block) /\ IsText(d, s.head.block) ->
            Caret(Clamp(d, s.head))
      [] s.sel = "blocks" /\ {s.first, s.last} \subseteq Blocks(d)
                          /\ Parent(d, s.first) = Parent(d, s.last) -> s
      [] OTHER -> StartSelection(d)

\* text_range: the two ends of a text selection in document order.
PointBefore(d, p, q) ==
    IF p.block = q.block THEN p.offset <= q.offset ELSE OrderOf(d, p.block) < OrderOf(d, q.block)
TextRange(d, s) == IF PointBefore(d, s.anchor, s.head)
                   THEN [from |-> s.anchor, to |-> s.head] ELSE [from |-> s.head, to |-> s.anchor]

\* sibling_range: the children of a common parent that cover two blocks.
SiblingRange(d, first, last) ==
    LET Beside(starts, b) == SelectInSeq(starts, LAMBDA a : Parent(d, a) = Parent(d, b))
        Cover(start, end) ==
          IF IndexInParent(d, start) > IndexInParent(d, end) THEN None
          ELSE Some([parent |-> Parent(d, end), index |-> IndexInParent(d, start) - 1,
                     count |-> IndexInParent(d, end) - IndexInParent(d, start) + 1])
        MeetAt(starts, ends, met) ==
          IF met = {} THEN None
          ELSE Cover(starts[Beside(starts, ends[Min(met)])], ends[Min(met)])
        Meet(starts, ends) == MeetAt(starts, ends, {i \in DOMAIN ends : Beside(starts, ends[i]) # 0})
    IN  Meet(AncestorsOrSelf(d, first), AncestorsOrSelf(d, last))

\* selection_ends: the first and last blocks a selection touches.
SelectionEnds(d, s) ==
    LET Ends(r) == [first |-> r.from.block, last |-> r.to.block]
    IN  IF s.sel = "text" THEN Ends(TextRange(d, s))
        ELSE IF OrderOf(d, s.first) > OrderOf(d, s.last)
             THEN [first |-> s.last, last |-> s.first] ELSE [first |-> s.first, last |-> s.last]

\* selected_siblings: sibling_range tries the ends in both orders, of which
\* only the document's can succeed.
SelectedSiblings(d, s) ==
    LET Between(ends) == SiblingRange(d, ends.first, ends.last) IN Between(SelectionEnds(d, s))

\* The blocks of a range of siblings, with all they hold.
SiblingIds(d, r) == SubSeq(Kids(d, r.parent), r.index + 1, r.index + r.count)

\* selected_text: the text blocks a selection covers, with the part of each.
SelectedText(d, s) ==
    LET Spans(order, from, to) ==
          [i \in DOMAIN order |->
             [block |-> order[i],
              from  |-> IF order[i] = from.block THEN from.offset ELSE 0,
              to    |-> IF order[i] = to.block THEN to.offset ELSE TextLen(d, order[i])]]
        Between(r) == Spans(Among(TextBlocks(d),
                            {b \in Blocks(d) : /\ OrderOf(d, r.from.block) <= OrderOf(d, b)
                                               /\ OrderOf(d, b) <= OrderOf(d, r.to.block)}), r.from, r.to)
        Under(r) == IF r = None THEN {} ELSE ToSet(Walk(d.nodes, SiblingIds(d, r[1])))
    IN  IF s.sel = "text" THEN Between(TextRange(d, s))
        ELSE Spans(Among(TextBlocks(d), Under(SiblingRange(d, s.first, s.last))), NoPoint, NoPoint)

-----------------------------------------------------------------------------
(* What a commit does to the state around the document.                    *)

Composition(b, start, end) == [block |-> b, start |-> start, end |-> end]

\* Mutant: a change elsewhere in its block leaves the composition where it was.
CompositionUnmapped(maps, c) == Some(c)

\* Composition::map: dropped when its text was deleted or torn apart.
MapComposition(maps, c) ==
    LET Between(start, end) ==
          IF \/ start.deleted \/ end.deleted
             \/ start.point.block # end.point.block \/ end.point.offset < start.point.offset
          THEN None ELSE Some(Composition(start.point.block, start.point.offset, end.point.offset))
        start == MapThrough(maps, Point(c.block, c.start), "after")
        end   == MapThrough(maps, Point(c.block, c.end), "before")
    IN  Between(start, IF c.start = c.end THEN Mapped(start.point, end.deleted) ELSE end)

\* What a transaction asks for besides its steps; None leaves the default.
Effects(kind, origin) ==
    [kind |-> kind, origin |-> origin, selection |-> None, stored |-> None, composition |-> None]

IsEmptyCommit(c) == c.maps = <<>>

NotApplied(st) == [applied |-> FALSE, error |-> FALSE, st |-> st]
Errored(st) == [applied |-> FALSE, error |-> TRUE, st |-> st]

\* Mutant of StoredMarks: the caret moves and the marks stay.
StoredMarksKept(st, commit, fx, selection) ==
    OrElse(fx.stored, IF IsEmptyCommit(commit) THEN st.stored ELSE None)

\* The marks set aside for typing stay while nothing changes.
StoredMarks(st, commit, fx, selection) ==
    OrElse(fx.stored, IF IsEmptyCommit(commit) /\ selection = st.selection THEN st.stored ELSE None)

\* apply: the one place where a commit becomes the new state.
ApplyCommit(st, commit, fx) ==
    LET Arrive(selection) ==
          [applied |-> TRUE, error |-> FALSE,
           update |-> [steps |-> commit.steps, inverses |-> commit.inverses, maps |-> commit.maps,
                       touched |-> commit.touched, structural |-> commit.structural,
                       version |-> commit.version, before |-> st.selection,
                       after |-> selection, kind |-> fx.kind, origin |-> fx.origin],
           st |-> [doc |-> commit.doc, selection |-> selection,
                   stored |-> StoredMarks(st, commit, fx, selection),
                   composition |-> OrElse(fx.composition,
                                          IF st.composition = None THEN None
                                          ELSE MapComposition(commit.maps, st.composition[1]))]]
    IN  Arrive(ValidSelection(commit.doc, OrElse(fx.selection, MapSelection(commit.maps, st.selection))))

DocChanged(update) == update.maps # <<>>

\* Update::then: a later update folded into this one.
Then(first, next) ==
    [first EXCEPT !.steps = @ \o next.steps, !.inverses = @ \o next.inverses, !.maps = @ \o next.maps,
                  !.touched = (@ \ RemovedByMaps(next.maps)) \cup next.touched,
                  !.structural = @ \/ next.structural,
                  !.version = next.version, !.after = next.after]

\* What a command makes of the document: a script and its effects, or None
\* when it does not apply.
Plan(script, fx) == Some([script |-> script, fx |-> fx])
PlanIf(script, fx) == IF script = None THEN None ELSE Plan(script[1], fx)

\* change: carry a plan out after what transaction t has done, or take t back.
\* An empty document gets one default text block (ensure_block).
Change(st, t, plan) ==
    LET Done(made) ==
          IF plan = None THEN NotApplied([st EXCEPT !.doc = made.doc])
          ELSE IF made.ok THEN ApplyCommit(st, Commit(made), plan[1].fx)
          ELSE Errored([st EXCEPT !.doc = made.doc])
    IN  Done(RunScript(t, IF plan = None THEN <<GiveUp>> ELSE Append(plan[1].script, EnsureBlock)))

\* EditorState::apply_steps: undo, redo and collaborators. On error nothing changes.
ApplyStepsTo(st, steps, kind, origin, selection) ==
    Change(st, NoCommit(st.doc),
           Plan(steps, [Effects(kind, origin) EXCEPT !.selection = selection]))

\* dry_run and atomic run a command between a savepoint and its end: r is
\* what it gave, from the state with the savepoint open.
Opened(st) == [st EXCEPT !.doc = Savepoint(st.doc)]
TakenBack(st, after) == [st EXCEPT !.doc = RollbackTo(after.doc, Len(st.doc.saves) + 1)]

DryRun(st, r) == [applied |-> r.applied, st |-> TakenBack(st, r.st)]

Atomic(st, r) ==
    IF r.applied THEN [r EXCEPT !.st.doc = Release(@, Len(st.doc.saves) + 1)]
    ELSE [r EXCEPT !.st = TakenBack(st, r.st)]
=============================================================================
