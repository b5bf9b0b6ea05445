------------------------------ MODULE Commands ------------------------------
(***************************************************************************)
(* The editing commands of canvist_core, each as the plan of what it does  *)
(* to a state st: the script that changes the document and the effects on  *)
(* the selection, or None when the command does not apply. A command that  *)
(* first deletes the selected text also takes d, the document after that.  *)
(* Deleting is by one character; words, visual lines and embeds are left   *)
(* out. Lists, paste and motion have modules of their own.                 *)
(***************************************************************************)
EXTENDS EditorState

CONSTANTS
    InclusiveMarks  \* marks that text typed at their end continues

ASSUME InclusiveAssumption == InclusiveMarks \subseteq Marks

-----------------------------------------------------------------------------
(* Marks.                                                                  *)

MarksBefore(d, p) == IF p.offset = 0 THEN None ELSE Some(Text(d, p.block)[p.offset].marks)
MarksAfter(d, p) == IF p.offset = TextLen(d, p.block) THEN None
                    ELSE Some(Text(d, p.block)[p.offset + 1].marks)

\* marks_at: non-inclusive marks end where they do not continue.
MarksAt(d, p) ==
    LET Kept(main, other) == {m \in main : m \in InclusiveMarks \/ m \in other}
        Meet(before, after) == IF before = None THEN Kept(after, {}) ELSE Kept(before[1], after)
    IN  Meet(MarksBefore(d, p), OrElse(MarksAfter(d, p), {}))

ActiveMarks(st) ==
    LET At(r) == IF r.from = r.to THEN MarksAt(st.doc, r.from) ELSE OrElse(MarksAfter(st.doc, r.from), {})
    IN  IF st.stored # None THEN st.stored[1]
        ELSE IF st.selection.sel = "blocks" THEN {} ELSE At(TextRange(st.doc, st.selection))

NonEmptyRanges(st) ==
    LET Of(spans) == Among(spans, {x \in ToSet(spans) : x.from < x.to})
    IN  Of(SelectedText(st.doc, st.selection))

\* is_mark_active: set on all of the selected text, or to be typed next.
IsMarkActive(d, m, ranges, marks) ==
    IF ranges = <<>> THEN m \in marks
    ELSE \A x \in ToSet(ranges) : \A i \in x.from + 1..x.to : m \in Text(d, x.block)[i].marks

Local(kind) == Effects(kind, "Local")
With(kind, selection) == [Local(kind) EXCEPT !.selection = Some(selection)]

StoreMarks(st, marks) ==
    IF ~IsCaret(st.selection) THEN None
    ELSE Plan(<<>>, [Local("Selection") EXCEPT !.stored = Some(Some(marks))])

ToggleMark(st, m) ==
    LET Paint(x, active) == IF active THEN RemoveMarkStep(x.block, x.from, x.to, m)
                            ELSE AddMarkStep(x.block, x.from, x.to, m)
        Toggled(active, marks, ranges) ==
          IF ranges = <<>>
          THEN StoreMarks(st, IF active THEN marks \ {m} ELSE (marks \ Excludes[m]) \cup {m})
          ELSE Plan([i \in DOMAIN ranges |-> Paint(ranges[i], active)], Local("Formatting"))
        Toggle(marks, ranges) == Toggled(IsMarkActive(st.doc, m, ranges, marks), marks, ranges)
    IN  Toggle(ActiveMarks(st), NonEmptyRanges(st))

-----------------------------------------------------------------------------
(* Typing, Enter, Backspace and Delete.                                    *)

Plain(chars, marks) == [i \in DOMAIN chars |-> [ch |-> chars[i], marks |-> marks]]

\* replace_blocks: text typed over selected blocks.
ReplaceBlocks(st, text) ==
    LET Put(r, kind) ==
          IF kind = None THEN None
          ELSE Plan(<<RemoveBlocksStep(r.parent, r.index, r.count),
                      InsertBlocksStep(r.parent, r.index, TextTree(st.doc.next, kind[1], 0, text)),
                      PruneEmpty(r.parent)>>,
                    With("Typing", Caret(Point(st.doc.next, Len(text)))))
        Replace(r) == IF r = None THEN None ELSE Put(r[1], DefaultTextType(st.doc, r[1].parent))
    IN  Replace(SelectedSiblings(st.doc, st.selection))

InsertText(st, chars) ==
    LET Over(r, text) ==
          Plan(Append(DeleteRange(st.doc, r.from, r.to), InsertInlineStep(r.from.block, r.from.offset, text)),
               With("Typing", Caret(Point(r.from.block, r.from.offset + Len(text)))))
        Insert(text) == IF st.selection.sel = "blocks" THEN ReplaceBlocks(st, text)
                        ELSE Over(TextRange(st.doc, st.selection), text)
    IN  Insert(Plain(chars, ActiveMarks(st)))

\* What split_block, insert_leaf and split_list_item do before anything else.
SelectedTextDeleted(st) ==
    LET Deletion(r) == DeleteRange(st.doc, r.from, r.to)
    IN  RunScript(NoCommit(st.doc), Deletion(TextRange(st.doc, st.selection)))
DeletedAt(st) == TextRange(st.doc, st.selection).from

\* split_text_block: the steps that open a block, its id being id, and the
\* caret in it; None where the parent takes no text.
SplitTextBlock(d, at, id) ==
    LET Opening(step, caret) == Some([step |-> step, caret |-> caret])
        Open(p, len, default) ==
          CASE at.offset = len /\ default = None -> None
            [] at.offset = len /\ default # None ->
                 Opening(InsertBlocksStep(p, Index(d, at.block) + 1, FreshTree(id, default[1])), Point(id, 0))
            [] at.offset = 0 /\ at.offset < len ->
                 Opening(InsertBlocksStep(p, Index(d, at.block),
                                          FreshTree(id, OrElse(default, d.nodes[at.block].kind))), at)
            [] OTHER ->
                 Opening(SplitStep(at.block, at.offset, id, d.nodes[at.block].kind, d.nodes[at.block].attr),
                         Point(id, 0))
    IN  Open(Parent(d, at.block), TextLen(d, at.block), DefaultTextType(d, Parent(d, at.block)))

SplitBlock(st, d) ==
    LET Enter(split, marks) ==
          IF split = None THEN None
          ELSE Plan(<<split[1].step>>,
                    [With("Structure", Caret(split[1].caret)) EXCEPT
                       !.stored = IF marks = {} THEN None ELSE Some(Some(marks))])
    IN  IF st.selection.sel = "blocks" THEN None
        ELSE Enter(SplitTextBlock(d, DeletedAt(st), d.next), ActiveMarks(st))

\* caret_after_removal: the end of the text before, else the start of the one after.
CaretAfterRemoval(d, r) == RemovalFallback(d, SiblingIds(d, r))

DeleteSpan(st, from, to, kind) == Plan(DeleteRange(st.doc, from, to), With(kind, Caret(from)))

DeleteSelection(st) ==
    LET DeleteText(r) ==
          IF r.from = r.to THEN None
          ELSE DeleteSpan(st, r.from, r.to, IF r.from.block = r.to.block THEN "Deleting" ELSE "Structure")
        Removed(r, caret) ==
          Plan(<<RemoveBlocksStep(r.parent, r.index, r.count), PruneEmpty(r.parent)>>,
               IF caret = NoPoint THEN Local("Structure") ELSE With("Structure", Caret(caret)))
        DeleteBlocks(r) == IF r = None THEN None ELSE Removed(r[1], CaretAfterRemoval(st.doc, r[1]))
    IN  IF st.selection.sel = "text" THEN DeleteText(TextRange(st.doc, st.selection))
        ELSE DeleteBlocks(SelectedSiblings(st.doc, st.selection))

MergeInto(st, target, source) ==
    Plan(Merging(st.doc, target, source), With("Structure", Caret(EndOf(st.doc, target))))

\* select_leaf: an empty text block gives way to the atomic block beside it.
SelectLeaf(st, leaf, from) ==
    Plan(IF TextLen(st.doc, from) # 0 THEN <<>> ELSE <<RemoveBlock(from), PruneEmpty(Parent(st.doc, from))>>,
         With("Structure", BlockSelection(leaf, leaf)))

\* Stops: text blocks and leaves, in document order.
Stops(d) == Among(DocOrder(d), {b \in Blocks(d) : IsText(d, b) \/ IsLeaf(d, b)})

ResetEmptyBlock(st, b) ==
    IF TextLen(st.doc, b) # 0 \/ st.doc.nodes[b].kind = DefaultText THEN None
    ELSE Plan(<<SetBlockStep(b, DefaultText, 0)>>, With("Structure", Caret(Point(b, 0))))

JoinBackward(st, b) ==
    LET d == st.doc
        JoinTo(stops, i) ==
          IF i = 1 THEN None
          ELSE IF IsText(d, stops[i - 1]) THEN MergeInto(st, stops[i - 1], b)
          ELSE SelectLeaf(st, stops[i - 1], b)
        Back(p, first) ==
          IF first /\ p # Root /\ CanLift(d, p, 0, 1) THEN Plan(Lift(d, p, 0, 1), Local("Structure"))
          ELSE IF first /\ p = Root THEN ResetEmptyBlock(st, b)
          ELSE JoinTo(Stops(d), PlaceIn(Stops(d), b))
    IN  Back(Parent(d, b), IndexInParent(d, b) = 1)

JoinForward(st, b) ==
    LET d == st.doc
        JoinTo(stops, i) ==
          IF i = Len(stops) THEN None
          ELSE IF IsText(d, stops[i + 1]) THEN MergeInto(st, b, stops[i + 1])
          ELSE SelectLeaf(st, stops[i + 1], b)
    IN  JoinTo(Stops(d), PlaceIn(Stops(d), b))

DeleteBackward(st) ==
    LET p == st.selection.head
    IN  IF ~IsCaret(st.selection) THEN DeleteSelection(st)
        ELSE IF p.offset = 0 THEN JoinBackward(st, p.block)
        ELSE DeleteSpan(st, Point(p.block, p.offset - 1), p, "Deleting")

DeleteForward(st) ==
    LET p == st.selection.head
    IN  IF ~IsCaret(st.selection) THEN DeleteSelection(st)
        ELSE IF p.offset = TextLen(st.doc, p.block) THEN JoinForward(st, p.block)
        ELSE DeleteSpan(st, p, Point(p.block, p.offset + 1), "Deleting")

-----------------------------------------------------------------------------
(* Block types, containers and leaves.                                     *)

SelectedTextBlocks(st) ==
    LET Of(spans) == [i \in DOMAIN spans |-> spans[i].block]
    IN  Of(SelectedText(st.doc, st.selection))

SetBlockType(st, kind, attr) ==
    LET Retype(blocks) ==
          IF ContentOf[kind] # "inline" \/ blocks = <<>> THEN None
          ELSE Plan([i \in DOMAIN blocks |-> SetBlockStep(blocks[i], kind, attr)], Local("Structure"))
    IN  Retype(Among(SelectedTextBlocks(st), {b \in Blocks(st.doc) : Allows(st.doc, Parent(st.doc, b), kind)}))

SetBlockAttrs(st, b, attr) ==
    IF b \notin Blocks(st.doc) \/ st.doc.nodes[b].attr = attr THEN None
    ELSE Plan(<<SetBlockStep(b, st.doc.nodes[b].kind, attr)>>, Local("Structure"))

WrapIn(st, kind) ==
    LET Wrapped(r) == IF ~CanWrap(st.doc, r.parent, r.index, r.count, kind) THEN None
                      ELSE Plan(Wrap(st.doc, r.parent, r.index, r.count, kind),
                                With("Structure", st.selection))
        Around(r) == IF r = None THEN None ELSE Wrapped(r[1])
    IN  Around(SelectedSiblings(st.doc, st.selection))

LiftFrom(st, container, index, count) ==
    IF ~CanLift(st.doc, container, index, count) THEN None
    ELSE Plan(Lift(st.doc, container, index, count), With("Structure", st.selection))

LiftBlock(st) ==
    LET Out(r) == IF r = None THEN None
                  ELSE IF r[1].parent = Root THEN None
                  ELSE LiftFrom(st, r[1].parent, r[1].index, r[1].count)
    IN  Out(SelectedSiblings(st.doc, st.selection))

\* lift_empty_block: Enter in an empty text block leaves its container.
LiftEmptyBlock(st) ==
    LET Out(b) == IF TextLen(st.doc, b) # 0 \/ Parent(st.doc, b) = Root THEN None
                  ELSE LiftFrom(st, Parent(st.doc, b), Index(st.doc, b), 1)
    IN  IF ~IsCaret(st.selection) THEN None ELSE Out(st.selection.head.block)

\* toggle_wrap: out of the nearest container of that kind, or into a new one.
ToggleWrap(st, kind) ==
    LET d == st.doc
        Child(outer, b) == Index(d, Among(AncestorsOrSelf(d, b), ToSet(Kids(d, outer)))[1])
        Out(outer, first, last) == LiftFrom(st, outer, first, last - first + 1)
        Toggle(outer, ids) == IF outer = <<>> THEN WrapIn(st, kind)
                              ELSE Out(outer[1], Child(outer[1], Head(ids)), Child(outer[1], Last(ids)))
        Around(ids) == Toggle(Among(Tail(AncestorsOrSelf(d, Head(ids))),
                                    {a \in Blocks(d) : d.nodes[a].kind = kind}), ids)
        Within(r) == IF r = None THEN None ELSE Around(SiblingIds(d, r[1]))
    IN  Within(SelectedSiblings(d, st.selection))

\* insert_leaf: before the block, or between its halves.
TakesLeaf(st, kind) ==
    /\ st.selection.sel = "text" /\ ContentOf[kind] = "leaf"
    /\ Allows(st.doc, Parent(st.doc, DeletedAt(st).block), kind)

InsertLeaf(st, d, kind) ==
    LET leaf == FreshTree(d.next, kind)
        Put(p, index, at, split) ==
          IF at.offset = 0 THEN Plan(<<InsertBlocksStep(p, index, leaf)>>, With("Structure", Caret(at)))
          ELSE IF split = None THEN None
          ELSE Plan(<<split[1].step, InsertBlocksStep(p, index + 1, leaf)>>,
                    With("Structure", Caret(Point(split[1].caret.block, 0))))
        PutAt(at) == Put(Parent(d, at.block), Index(d, at.block), at, SplitTextBlock(d, at, d.next + 1))
    IN  IF TakesLeaf(st, kind) THEN PutAt(DeletedAt(st)) ELSE None

-----------------------------------------------------------------------------
(* Selecting, and the input method's preedit text.                         *)

SetSelection(st, s) ==
    LET Select(valid) == IF valid = st.selection THEN None ELSE Plan(<<>>, With("Selection", valid))
    IN  Select(ValidSelection(st.doc, s))

Preedit(c) == [from |-> Point(c.block, c.start), to |-> Point(c.block, c.end)]

\* replace_preedit: the preedit, or the selection, gives way to new text.
ReplacePreedit(st, chars, keep) ==
    LET Replaced(r, b, start, end) ==
          Plan(DeleteRange(st.doc, r.from, r.to)
                 \o (IF chars = <<>> THEN <<>>
                     ELSE <<InsertInlineStep(b, start, Plain(chars, ActiveMarks(st)))>>),
               [With(IF keep THEN "Composition" ELSE "Typing", Caret(Point(b, end))) EXCEPT
                  !.composition = Some(IF keep THEN Some(Composition(b, start, end)) ELSE None),
                  !.stored = IF keep THEN Some(st.stored) ELSE None])
        Replace(r) == Replaced(r, r.from.block, r.from.offset, r.from.offset + Len(chars))
    IN  IF st.composition = None /\ st.selection.sel = "blocks" THEN None
        ELSE Replace(IF st.composition = None THEN TextRange(st.doc, st.selection)
                     ELSE Preedit(st.composition[1]))

CancelComposition(st) ==
    LET Cancel(r) == Plan(DeleteRange(st.doc, r.from, r.to),
                          [With("Composition", Caret(r.from)) EXCEPT !.composition = Some(None)])
    IN  IF st.composition = None THEN None ELSE Cancel(Preedit(st.composition[1]))
=============================================================================
