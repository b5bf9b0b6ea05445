------------------------------- MODULE Lists -------------------------------
(***************************************************************************)
(* The list commands of canvist_core (commands/lists.rs): lists are        *)
(* containers of items, items are containers of blocks. Indices count from *)
(* 0 and ranges are [index, count], as the steps take them.                *)
(***************************************************************************)
EXTENDS Commands

CONSTANTS
    ListTypes       \* the list types there are: records [list, item] of kinds

ASSUME ListAssumption ==
    \A l \in ListTypes : \A kind \in {l.list, l.item} : kind \in Kinds /\ ContentOf[kind] = "blocks"

-----------------------------------------------------------------------------
(* Where the selected items are.                                           *)

\* item_range: the items the selection covers, or the one it lies in.
ItemRange(d, s, item) ==
    LET Outer(a) == IF a = <<>> THEN None
                    ELSE IF Parent(d, a[1]) = Root THEN None
                    ELSE Some([parent |-> Parent(d, a[1]), index |-> Index(d, a[1]), count |-> 1])
        Items(r) ==
          IF r = None THEN None
          ELSE IF r[1].parent = Root THEN None
          ELSE IF \A b \in ToSet(SiblingIds(d, r[1])) : d.nodes[b].kind = item THEN r
          ELSE Outer(Among(AncestorsOrSelf(d, r[1].parent), {a \in Blocks(d) : d.nodes[a].kind = item}))
    IN  Items(SelectedSiblings(d, s))

\* Whether the selection begins in a block an item holds directly.
InItem(st, item) ==
    /\ st.selection.sel = "text"
    /\ DeletedAt(st).block \in {b \in Blocks(st.doc) : Parent(st.doc, b) # Root}
    /\ st.doc.nodes[Parent(st.doc, DeletedAt(st).block)].kind = item

\* The last child of b, when it is a list of that kind.
SublistOf(d, b, list) ==
    IF Kids(d, b) # <<>> /\ d.nodes[Last(Kids(d, b))].kind = list THEN Some(Last(Kids(d, b))) ELSE None

-----------------------------------------------------------------------------
(* Moving items. A script that may turn out not to apply is optional.      *)

\* Items go to the end of the list that ends item, or of a copy of theirs.
IntoSublist(d, list, index, count, item) ==
    LET Into(has) ==
          IF has # None THEN <<MoveBlocksStep(list, index, count, has[1], Len(Kids(d, has[1])))>>
          ELSE <<InsertBlocksStep(item, Len(Kids(d, item)), EmptyCopy(d, list, d.next)),
                 MoveBlocksStep(list, index, count, d.next, 0)>>
    IN  Into(SublistOf(d, item, d.nodes[list].kind))

\* lift_nested: items after the lifted ones stay nested, under the last of them.
LiftNested(d, list, index, count, outer) ==
    LET Kept(rest) == IF rest = 0 THEN <<>>
                      ELSE IntoSublist(d, list, index + count, rest, Kids(d, list)[index + count])
    IN  Kept(Len(Kids(d, list)) - index - count)
        \o <<MoveBlocksStep(list, index, count, Parent(d, outer), Index(d, outer) + 1), PruneEmpty(list)>>

\* lift_items: what the items hold takes the place after their list.
LiftItems(d, list, index, count, item) ==
    LET Before(items, i) == Len(FlattenSeq([j \in 1..i - 1 |-> Kids(d, items[j])]))
        Out(items, outer) ==
          [i \in DOMAIN items |-> MoveBlocksStep(items[i], 0, Len(Kids(d, items[i])), outer,
                                                 Index(d, list) + 1 + Before(items, i))]
        LiftAll(items, outer) ==
          IF \A i \in ToSet(items) : \A b \in ToSet(Kids(d, i)) : Allows(d, outer, d.nodes[b].kind)
          THEN Some(SplitContainer(d, list, index + count) \o Out(items, outer)
                    \o <<RemoveBlocksStep(list, index, count), PruneEmpty(list)>>)
          ELSE None
        Lifted(outer) ==
          IF outer # Root /\ d.nodes[outer].kind = item
          THEN Some(LiftNested(d, list, index, count, outer))
          ELSE LiftAll(SubSeq(Kids(d, list), index + 1, index + count), outer)
    IN  Lifted(Parent(d, list))

-----------------------------------------------------------------------------
(* The commands.                                                           *)

\* split_list_item: the item is lifted when empty, else split at the caret.
SplitListItem(st, d, item) ==
    LET at == DeletedAt(st)
        NewItem(owner, steps, caret, from, id) ==
          Plan(steps \o <<InsertBlocksStep(Parent(d, owner), Index(d, owner) + 1, FreshTree(id, item)),
                          MoveBlocksStep(owner, from, Len(Kids(d, owner)) + Len(steps) - from, id, 0)>>,
               With("Structure", Caret(caret)))
        Divide(owner, i, step) ==
          NewItem(owner, <<step>>, Point(d.next, 0), i + 1, d.next + 1)
        SplitAt(owner, i, len, last, kind) ==
          CASE last /\ len = 0 /\ i = 0 ->
                 PlanIf(LiftItems(d, Parent(d, owner), Index(d, owner), 1, item), With("Structure", Caret(at)))
            [] last /\ len = 0 /\ i > 0 -> NewItem(owner, <<>>, Point(at.block, 0), i, d.next)
            [] ~(last /\ len = 0) /\ at.offset = len ->
                 IF kind = None THEN None
                 ELSE Divide(owner, i, InsertBlocksStep(owner, i + 1, FreshTree(d.next, kind[1])))
            [] OTHER -> Divide(owner, i, SplitStep(at.block, at.offset, d.next, d.nodes[at.block].kind,
                                                   d.nodes[at.block].attr))
        In(owner, i) ==
          IF Parent(d, owner) = Root THEN None
          ELSE SplitAt(owner, i, TextLen(d, at.block), i + 1 = Len(Kids(d, owner)), DefaultTextType(d, owner))
    IN  IF InItem(st, item) THEN In(Parent(d, at.block), Index(d, at.block)) ELSE None

\* sink_list_item: into the list that ends the item before, or a copy of theirs.
SinkListItem(st, item) ==
    LET d == st.doc
        Under(r, above, list) ==
          IF SublistOf(d, above, list) = None /\ ~Allows(d, above, list) THEN None
          ELSE Plan(IntoSublist(d, r.parent, r.index, r.count, above), With("Structure", st.selection))
        Sink(r) == IF r = None THEN None
                   ELSE IF r[1].index = 0 THEN None
                   ELSE Under(r[1], Kids(d, r[1].parent)[r[1].index], d.nodes[r[1].parent].kind)
    IN  Sink(ItemRange(d, st.selection, item))

LiftListItem(st, item) ==
    LET Out(r) == IF r = None THEN None
                  ELSE PlanIf(LiftItems(st.doc, r[1].parent, r[1].index, r[1].count, item),
                              With("Structure", st.selection))
    IN  Out(ItemRange(st.doc, st.selection, item))

\* join_list_item_backward: into the text that ends the item before, else lifted.
JoinListItemBackward(st, item) ==
    LET d == st.doc
        b == st.selection.head.block
        Out(owner, i) == PlanIf(LiftItems(d, Parent(d, owner), i, 1, item),
                                With("Structure", Caret(st.selection.head)))
        Into(end, owner, i) == IF end = None THEN Out(owner, i) ELSE MergeInto(st, end[1], b)
        TextEnding(kids) == IF kids # <<>> /\ IsText(d, Last(kids)) THEN Some(Last(kids)) ELSE None
        Back(owner, i) ==
          IF Kids(d, owner)[1] # b \/ Parent(d, owner) = Root THEN None
          ELSE Into(IF i = 0 THEN None ELSE TextEnding(Kids(d, Kids(d, Parent(d, owner))[i])), owner, i)
    IN  IF ~IsCaret(st.selection) THEN None
        ELSE IF st.selection.head.offset # 0 \/ ~InItem(st, item) THEN None
        ELSE Back(Parent(d, b), Index(d, Parent(d, b)))

\* wrap_in_list: a new list around the selected blocks, one item for each,
\* joined with the lists of its type beside it (join_adjacent).
WrapInList(st, target) ==
    LET d == st.doc
        Same(siblings, i) == IF i \in DOMAIN siblings /\ d.nodes[siblings[i]].kind = target.list
                             THEN Some(siblings[i]) ELSE None
        Takes(into, from) == <<MoveAll(from, into), RemoveBlock(from)>>
        Joined(before, after, list) ==
          (IF before = None THEN <<>> ELSE Takes(before[1], list))
          \o (IF after = None THEN <<>> ELSE Takes(OrElse(before, list), after[1]))
        Itemized(r, list) == FlattenSeq([i \in 1..r.count |->
          <<InsertBlocksStep(list, i - 1, FreshTree(list + i, target.item)),
            MoveBlocksStep(r.parent, r.index + 1, 1, list + i, 0)>>])
        Wrapped(r, odd, text, list) ==
          Plan([i \in DOMAIN odd |-> SetBlockStep(odd[i], text, 0)]
               \o <<InsertBlocksStep(r.parent, r.index, FreshTree(list, target.list))>>
               \o Itemized(r, list)
               \o Joined(Same(Kids(d, r.parent), r.index), Same(Kids(d, r.parent), r.index + r.count + 1), list),
               With("Structure", st.selection))
        TextKind(texts) == IF DefaultText \in texts THEN DefaultText ELSE CHOOSE k \in texts : TRUE
        Check(r, odd, texts) ==
          IF \/ ~Allows(d, r.parent, target.list)
             \/ \E b \in ToSet(odd) : texts = {} \/ ~IsText(d, b) \/ ~Allows(d, r.parent, TextKind(texts))
          THEN None ELSE Wrapped(r, odd, TextKind(texts), d.next)
        Around(r) ==
          IF r = None THEN None
          ELSE Check(r[1], Among(SiblingIds(d, r[1]), {b \in Blocks(d) : d.nodes[b].kind \notin AllowedIn[target.item]}),
                     {k \in AllowedIn[target.item] : ContentOf[k] = "inline"})
    IN  Around(SelectedSiblings(d, st.selection))

\* convert_list: the list rebuilt as another type, every id kept.
ConvertList(st, list, found, target) ==
    LET d == st.doc
        Kind(b, items) == CASE b = list -> target.list [] b \in items -> target.item
                            [] OTHER -> d.nodes[b].kind
        OfKind(node, kind, plain) == [node EXCEPT !.kind = kind, !.attr = IF plain THEN 0 ELSE @]
        New(old, items) ==
          [old EXCEPT !.nodes = [b \in DOMAIN @ |->
             OfKind(@[b], Kind(b, items), b \in items \cup {list})]]
        Fits(items) == \A i \in ToSet(Kids(d, list)) : \A b \in ToSet(Kids(d, i)) :
                          d.nodes[b].kind \in AllowedIn[Kind(i, items)]
        Converted(p, index, items) ==
          IF ~Fits(items) THEN None
          ELSE Plan(<<RemoveBlocksStep(p, index, 1),
                      InsertBlocksStep(p, index, New(DetachTrees(d, p, index, 1).trees, items))>>,
                    With("Structure", st.selection))
    IN  Converted(Parent(d, list), Index(d, list),
                  {i \in ToSet(Kids(d, list)) : d.nodes[i].kind = found.item})

\* toggle_list: out of the innermost target list, or into one of that type.
ToggleList(st, target) ==
    LET d == st.doc
        Inside(l, r) == IF r = None THEN {}
                        ELSE IF d.nodes[r[1].parent].kind # l.list THEN {}
                        ELSE {[type |-> l, range |-> r[1]]}
        Around == UNION {Inside(l, ItemRange(d, st.selection, l.item)) : l \in ListTypes}
        Nesting(at) == Len(AncestorsOrSelf(d, at.range.parent))
        Leave(at) ==
          CASE at.type = target ->
                 PlanIf(LiftItems(d, at.range.parent, at.range.index, at.range.count, target.item),
                        With("Structure", st.selection))
            [] at.type # target /\ at.type.item = target.item ->
                 Plan(<<SetBlockStep(at.range.parent, target.list, 0)>>, Local("Structure"))
            [] OTHER -> ConvertList(st, at.range.parent, at.type, target)
        Toggle(found) == IF found = {} THEN WrapInList(st, target)
                         ELSE Leave(CHOOSE at \in found : \A o \in found : Nesting(o) <= Nesting(at))
    IN  Toggle(Around)
=============================================================================
