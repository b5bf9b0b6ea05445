------------------------------- MODULE Slices -------------------------------
(***************************************************************************)
(* Slices of canvist_core: what copying takes out of a document and how    *)
(* pasting fits it in (commands/slice.rs, commands/paste.rs). A slice is a *)
(* list of trees whose ids only name its blocks; pasting gives fresh ones. *)
(***************************************************************************)
EXTENDS Commands

-----------------------------------------------------------------------------
(* Copying.                                                                *)

NoSlice == Trees(<<>>, <<>>)

\* The trees under roots, kept to the blocks of keep.
Extract(d, roots, keep) ==
    Trees(roots, [b \in keep |->
        [Content(d).nodes[b] EXCEPT !.kids = Among(@, keep),
                                    !.parent = IF b \in ToSet(roots) THEN Root ELSE @]])

\* cut: the blocks between two points, with the selected part of the outer two.
CutOut(d, roots, r) ==
    LET In(b, first, last) == b <= last /\ b >= first
        Keep(b) == \/ In(OrderOf(d, b), OrderOf(d, r.from.block), OrderOf(d, r.to.block))
                   \/ IsAncestor(d, b, r.from.block)
        Part(b, text) == SubSeq(text, IF b = r.from.block THEN r.from.offset + 1 ELSE 1,
                                      IF b = r.to.block THEN r.to.offset ELSE Len(text))
        Cut(trees) == [trees EXCEPT !.nodes = [b \in DOMAIN @ |-> [@[b] EXCEPT !.text = Part(b, @)]]]
    IN  Cut(Extract(d, roots, {b \in ToSet(Walk(d.nodes, roots)) : Keep(b)}))

\* wrap_for_root: copies of the ancestors, until the root takes the trees.
WrapForRoot(d, parent, trees) ==
    LET Within(w, a) == Trees(<<a>>, [b \in DOMAIN w.nodes \cup {a} |->
                          IF b = a THEN [Content(d).nodes[a] EXCEPT !.kids = w.roots, !.parent = Root]
                          ELSE IF b \in ToSet(w.roots) THEN [w.nodes[b] EXCEPT !.parent = a] ELSE w.nodes[b]])
        WrapIt(w, a) == IF \A b \in ToSet(w.roots) : w.nodes[b].kind \in TopLevel THEN w ELSE Within(w, a)
        Wrapped(around) ==
          LET wrap[n \in 0..Len(around)] == IF n = 0 THEN trees ELSE WrapIt(wrap[n - 1], around[n])
          IN  wrap[Len(around)]
    IN  Wrapped(AncestorsOrSelf(d, parent))

SliceSelection(st) ==
    LET d == st.doc
        Selected(roots) == IF st.selection.sel = "text" THEN CutOut(d, roots, TextRange(d, st.selection))
                           ELSE Extract(d, roots, ToSet(Walk(d.nodes, roots)))
        OneBlock == st.selection.sel = "text" /\ st.selection.anchor.block = st.selection.head.block
        SliceOf(parent, trees) == IF OneBlock THEN trees ELSE WrapForRoot(d, parent, trees)
        Slice(range) == IF range = None THEN NoSlice
                        ELSE SliceOf(range[1].parent, Selected(SiblingIds(d, range[1])))
    IN  IF IsCaret(st.selection) THEN NoSlice ELSE Slice(SelectedSiblings(d, st.selection))

\* from_plain_text: one default text block per line.
PlainSlice(lines) ==
    Trees([i \in DOMAIN lines |-> i],
          [i \in DOMAIN lines |-> [kind |-> DefaultText, attr |-> 0, parent |-> Root,
                                   text |-> Plain(lines[i], {}), kids |-> <<>>]])

-----------------------------------------------------------------------------
(* Pasting.                                                                *)

\* fresh_ids: every block of the slice gets an id of its own, in order.
FreshIds(slice, next) ==
    LET Renamed(order, New(_)) ==
          Trees([i \in DOMAIN slice.roots |-> New(slice.roots[i])],
                [b \in next..next + Len(order) - 1 |->
                   [slice.nodes[order[b - next + 1]] EXCEPT
                      !.kids = [i \in DOMAIN @ |-> New(@[i])], !.parent = IF @ = Root THEN Root ELSE New(@)]])
        Rename(order) == Renamed(order, LAMBDA b : next + PlaceIn(order, b) - 1)
    IN  Rename(Walk(slice.nodes, slice.roots))

\* adopt_type: an empty block takes the type of the text that fills it.
AdoptType(d, b, node) ==
    IF d.nodes[b].kind # node.kind /\ Allows(d, Parent(d, b), node.kind)
    THEN <<SetBlockStep(b, node.kind, node.attr)>> ELSE <<>>

\* fit: what a parent does not take is retyped, flattened or dropped.
Fit(d, p, nodes, roots) ==
    LET fit[b \in DOMAIN nodes] ==
          IF \/ Allows(d, p, nodes[b].kind)
             \/ ContentOf[nodes[b].kind] = "inline" /\ DefaultTextType(d, p) # None THEN <<b>>
          ELSE FlattenSeq([i \in DOMAIN nodes[b].kids |-> fit[nodes[b].kids[i]]])
        Retyped(node) == [node EXCEPT !.kind = DefaultTextType(d, p)[1], !.attr = 0]
        Kept(kept) == Trees(kept, [b \in ToSet(Walk(nodes, kept)) |->
          IF b \in ToSet(kept) /\ ~Allows(d, p, nodes[b].kind) THEN Retyped(nodes[b]) ELSE nodes[b]])
    IN  Kept(FlattenSeq([i \in DOMAIN roots |-> fit[roots[i]]]))

\* last_text_in: the last text of what is pasted last.
LastText(trees) ==
    LET Of(texts) == IF texts = <<>> THEN None ELSE Some(Last(texts))
        Under(roots) == Of(Among(Walk(trees.nodes, roots),
                                 {b \in DOMAIN trees.nodes : ContentOf[trees.nodes[b].kind] = "inline"}))
    IN  IF trees.roots = <<>> THEN None ELSE Under(<<Last(trees.roots)>>)

\* paste_blocks: open ends merge into the halves of the block at the caret,
\* whole blocks go between them; an empty half gives way to them.
PasteBlocks(d, at, slice, after) ==
    LET nodes == slice.nodes
        Open(b) == ContentOf[nodes[b].kind] = "inline"
        Filled(b) == (IF at.offset = 0 THEN AdoptType(d, at.block, nodes[b]) ELSE <<>>)
                    \o <<InsertInlineStep(at.block, at.offset, nodes[b].text)>>
        Settled(steps, caret) == Plan(steps, With("Paste", Caret(caret)))
        Settle(steps, tail, last, fitted) ==
          CASE tail # None -> Settled(steps, Point(after, Len(nodes[tail[1]].text)))
            [] tail = None /\ at.offset = TextLen(d, at.block) /\ last # None ->
                 Settled(Append(steps, RemoveBlock(after)), Point(last[1], Len(fitted.nodes[last[1]].text)))
            [] OTHER -> Settled(steps, Point(after, 0))
        Put(head, tail, fitted) ==
          Settle(<<SplitStep(at.block, at.offset, after, d.nodes[at.block].kind, d.nodes[at.block].attr)>>
                 \o (IF head = None THEN <<>> ELSE Filled(head[1]))
                 \o (IF tail = None THEN <<>> ELSE <<InsertInlineStep(after, 0, nodes[tail[1]].text)>>)
                 \o <<InsertBlocksStep(Parent(d, at.block), Index(d, at.block) + 1, fitted)>>
                 \o (IF head = None /\ at.offset = 0 THEN <<RemoveBlock(at.block)>> ELSE <<>>),
                 tail, LastText(fitted), fitted)
        Between(head, tail) ==
          Put(head, tail, Fit(d, Parent(d, at.block), nodes,
                              Among(slice.roots, {b \in DOMAIN nodes : Some(b) \notin {head, tail}})))
    IN  Between(IF Open(Head(slice.roots)) THEN Some(Head(slice.roots)) ELSE None,
                IF Len(slice.roots) > 1 /\ Open(Last(slice.roots)) THEN Some(Last(slice.roots)) ELSE None)

\* paste_at: one text block is pasted as its text.
PasteAt(d, at, slice, after) ==
    LET Into(only) ==
          Plan((IF TextLen(d, at.block) = 0 THEN AdoptType(d, at.block, only) ELSE <<>>)
               \o <<InsertInlineStep(at.block, at.offset, only.text)>>,
               With("Paste", Caret(Point(at.block, at.offset + Len(only.text)))))
        Paste(only) == IF Len(slice.roots) = 1 /\ ContentOf[only.kind] = "inline" THEN Into(only)
                       ELSE PasteBlocks(d, at, slice, after)
    IN  Paste(slice.nodes[Head(slice.roots)])

\* The ids of the slice are taken, whether its blocks are then inserted or not.
PasteAfter(st, t, slice) ==
    LET next == t.doc.next
        after == next + Cardinality(DOMAIN slice.nodes)
    IN  Change(st, [t EXCEPT !.doc.next = after], PasteAt(t.doc, DeletedAt(st), FreshIds(slice, next), after))

\* Mutant: the selected text is not deleted first.
PasteBesideText(st, slice) == PasteAfter(st, NoCommit(st.doc), slice)

PasteOverText(st, slice) == PasteAfter(st, SelectedTextDeleted(st), slice)

\* replace_blocks: the selected blocks are deleted, again if the selection
\* falls on blocks, and the slice is pasted at the caret that leaves.
Clear(r, again) ==
    LET Cleared(next) ==
          IF next.applied /\ r.applied THEN [next EXCEPT !.update = Then(r.update, @)]
          ELSE IF next.applied \/ next.error THEN next ELSE [r EXCEPT !.st = next.st]
    IN  IF r.error \/ r.st.selection.sel = "text" \/ (again /\ ~r.applied) THEN r
        ELSE Cleared(Change(r.st, NoCommit(r.st.doc), DeleteSelection(r.st)))

ClearBlocks(st) ==
    LET clear[i \in 0..Cardinality(Blocks(st.doc)) + 1] ==
          IF i = 0 THEN NotApplied(st) ELSE Clear(clear[i - 1], i > 1)
    IN  clear[Cardinality(Blocks(st.doc)) + 1]

PasteCleared(cleared, slice) ==
    LET Pasted(pasted) ==
          IF ~cleared.applied \/ pasted.error THEN pasted
          ELSE IF pasted.applied THEN [pasted EXCEPT !.update = Then(cleared.update, @)]
          ELSE [cleared EXCEPT !.st = pasted.st]
    IN  IF cleared.error \/ cleared.st.selection.sel = "blocks" THEN cleared
        ELSE Pasted(PasteOverText(cleared.st, slice))

ReplaceSelection(st, slice) ==
    LET AsPaste(r) == IF r.applied THEN [r EXCEPT !.update.kind = "Paste"] ELSE r
    IN  IF slice.roots = <<>> THEN NotApplied(st) ELSE AsPaste(PasteCleared(ClearBlocks(st), slice))
=============================================================================
