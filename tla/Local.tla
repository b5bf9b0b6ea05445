------------------------------- MODULE Local -------------------------------
(***************************************************************************)
(* Local changes: the steps of a commit become operations on the shared    *)
(* document. Work is a record of the replica y, the registry, ok (FALSE    *)
(* once a step met a state it could not translate), and the containers     *)
(* whose type changed while they had hidden children. A commit in context  *)
(* is the client that makes it, the document after it, and whether at most *)
(* one of its steps changes a child list.                                  *)
(***************************************************************************)
EXTENDS Mirror

Fail(w) == [w EXCEPT !.ok = FALSE]
IsShared(w, b) == b \in DOMAIN w.reg.blocks
MapOf(w, b) == w.reg.blocks[b].map
ArrayOf(w, p) == Array(IF p = Root THEN Root ELSE MapOf(w, p))
HasArray(w, p) == p = Root \/ IsShared(w, p)

-----------------------------------------------------------------------------
(* Writing blocks. A node is a block with everything inside it, and the    *)
(* map it copies, if any.                                                  *)

RECURSIVE TreeNode(_, _)
TreeNode(nodes, b) ==
    [id |-> b, kind |-> nodes[b].kind, attr |-> nodes[b].attr, text |-> nodes[b].text, from |-> 0,
     kids |-> [k \in DOMAIN nodes[b].kids |-> TreeNode(nodes, nodes[b].kids[k])]]

\* Snapshot::read: everything the map holds, hidden children included.
RECURSIVE Snapshot(_, _)
Snapshot(y, m) ==
    [id |-> BlockId(y, m), kind |-> KindOf(y, m), attr |-> AttrOf(y, m), from |-> m,
     text |-> Values(y, Live(y, TextOf(m))),
     kids |-> [k \in DOMAIN Live(y, Array(m)) |-> Snapshot(y, Live(y, Array(m))[k])]]

\* Writing a node at an index of an array whose blocks are p's, its children
\* last to first; `made` collects the maps written.
RECURSIVE Write(_, _, _, _, _, _)
Write(to, c, array, index, p, node) ==
    LET m == NextItem(to.y, c)
        born == Insert(to.y, c, array, index, [id |-> node.id, kind |-> node.kind])
        dressed == IF node.attr = 0 THEN born ELSE SetKey(born, c, AttrsOf(m), node.attr)
        told == InsertAll(dressed, c, TextOf(m), 0, node.text)
        Inner(at, child) == Write(at, c, Array(m), 0, node.id, child)
        grown == FoldLeft(Inner, [to EXCEPT !.y = told], Reverse(node.kids))
    IN  [grown EXCEPT !.made = Append(@, [id |-> node.id, map |-> m, parent |-> p, from |-> node.from])]

WriteAll(w, c, array, index, p, nodes) ==
    FoldLeft(LAMBDA to, node : Write(to, c, array, index, p, node), [y |-> w.y, made |-> <<>>], Reverse(nodes))

RegisterMade(reg, made) ==
    FoldLeft(LAMBDA to, new : InsertBlock(to, new.id, [map |-> new.map, parent |-> new.parent]), reg, made)

-----------------------------------------------------------------------------
(* Where a model child is in its shared array.                              *)

\* The maps of the model children of p. Without hidden maps it is all of them.
ShownMaps(w, p) ==
    IF IsMirrored(w.reg, p) THEN Live(w.y, ArrayOf(w, p))
    ELSE SelectSeq(Live(w.y, ArrayOf(w, p)), LAMBDA m : IsShownMap(w.reg, m))

OutOfReach(w, p, index) == IsMirrored(w.reg, p) /\ index > Len(Live(w.y, ArrayOf(w, p)))

\* The index to insert before model child `index`; hidden maps count.
InsertPosition(w, p, index) ==
    LET live == Live(w.y, ArrayOf(w, p))
        shown == ShownMaps(w, p)
    IN  IF IsMirrored(w.reg, p) THEN index
        ELSE IF index < Len(shown) THEN PlaceIn(live, shown[index + 1]) - 1 ELSE Len(live)

\* The map at the index of b among the items of p's array. With one change of
\* a child list the document after the commit knows that index.
MapAtIndexOf(w, cx, b, p) ==
    LET live == Live(w.y, ArrayOf(w, p))
        known == cx.single /\ b \in Blocks(cx.doc) /\ Parent(cx.doc, b) = p /\ IsMirrored(w.reg, p)
        index == IF known THEN IndexInParent(cx.doc, b) ELSE 0
    IN  IF index \in 1..Len(live) THEN live[index] ELSE w.reg.blocks[b].map

-----------------------------------------------------------------------------
(* The steps.                                                               *)

InsertText(w, cx, s) ==
    LET text == TextOf(MapOf(w, s.block))
    IN  IF s.offset > Len(Live(w.y, text)) THEN Fail(w)
        ELSE [w EXCEPT !.y = InsertAll(@, cx.client, text, s.offset, s.content)]

RemoveText(w, s) ==
    LET live == Live(w.y, TextOf(MapOf(w, s.block)))
    IN  IF s.to > Len(live) THEN Fail(w)
        ELSE [w EXCEPT !.y = Delete(@, ToSet(SubSeq(live, s.from + 1, s.to)))]

\* Only what changed is written.
SetBlockShared(w, cx, s) ==
    LET m == MapOf(w, s.block)
        retypes == KindOf(w.y, m) # s.kind
        typed == IF retypes THEN SetKey(w.y, cx.client, TypeOf(m), s.kind) ELSE w.y
        set == IF AttrOf(w.y, m) = s.attr THEN typed
               ELSE IF s.attr = 0 THEN Delete(typed, ToSet(Live(typed, AttrsOf(m))))
               ELSE SetKey(typed, cx.client, AttrsOf(m), s.attr)
    IN  [w EXCEPT !.y = set,
                  !.retyped = IF retypes /\ ~IsMirrored(w.reg, s.block) THEN Append(@, s.block) ELSE @]

SplitShared(w, cx, s) ==
    LET text == Live(w.y, TextOf(MapOf(w, s.block)))
        tail == SubSeq(text, s.offset + 1, Len(text))
        p == w.reg.blocks[s.block].parent
        cut == [w EXCEPT !.y = Delete(@, ToSet(tail))]
        index == PlaceIn(Live(w.y, ArrayOf(w, p)), MapAtIndexOf(w, cx, s.block, p))
        node == [id |-> s.new, kind |-> s.kind, attr |-> s.attr, text |-> Values(w.y, tail), from |-> 0, kids |-> <<>>]
        Written(made) == [cut EXCEPT !.y = made.y, !.reg = RegisterMade(@, made.made)]
    IN  IF s.offset > Len(text) \/ index = 0 THEN Fail(w)
        ELSE Written(WriteAll(cut, cx.client, ArrayOf(w, p), index, p, <<node>>))

JoinShared(w, cx, s) ==
    LET text == TextOf(MapOf(w, s.block))
        content == Values(w.y, Live(w.y, TextOf(MapOf(w, s.next))))
        joined == InsertAll(w.y, cx.client, text, Len(Live(w.y, text)), content)
    IN  IF ~IsShared(w, s.next) THEN Fail(w)
        ELSE [w EXCEPT !.y = Delete(joined, {MapAtIndexOf(w, cx, s.next, w.reg.blocks[s.next].parent)}),
                       !.reg = Forget(@, {s.next})]

InsertShared(w, cx, s) ==
    LET nodes == [k \in DOMAIN s.blocks.roots |-> TreeNode(s.blocks.nodes, s.blocks.roots[k])]
        Written(made) == [w EXCEPT !.y = made.y, !.reg = RegisterMade(@, made.made)]
    IN  IF OutOfReach(w, s.parent, s.index) THEN Fail(w)
        ELSE Written(WriteAll(w, cx.client, ArrayOf(w, s.parent), InsertPosition(w, s.parent, s.index),
                              s.parent, nodes))

TakenMaps(w, s) == SubSeq(ShownMaps(w, s.parent), s.index + 1, s.index + s.count)

RemoveShared(w, s, inverse) ==
    IF OutOfReach(w, s.parent, s.index + s.count) THEN Fail(w)
    ELSE [w EXCEPT !.y = Delete(@, ToSet(TakenMaps(w, s))), !.reg = Forget(@, DOMAIN inverse.blocks.nodes)]

\* yrs has no move: the maps are deleted and copies with the same ids written.
MoveShared(w, cx, s) ==
    LET maps == TakenMaps(w, s)
        nodes == [k \in DOMAIN maps |-> Snapshot(w.y, maps[k])]
        cut == [w EXCEPT !.y = Delete(@, ToSet(maps))]
        Written(made) == [cut EXCEPT !.y = made.y, !.reg = Rebind(@, made.made)]
    IN  IF \/ OutOfReach(w, s.parent, s.index + s.count)
           \/ ~HasArray(w, s.to) \/ OutOfReach(cut, s.to, s.toIndex) THEN Fail(w)
        ELSE Written(WriteAll(cut, cx.client, ArrayOf(cut, s.to), InsertPosition(cut, s.to, s.toIndex), s.to, nodes))

Translate(w, cx, s, inverse) ==
    LET inBlock == s.op \in {"InsertInline", "RemoveInline", "SetBlock", "Split", "Join"}
        there == IF inBlock THEN IsShared(w, s.block) ELSE HasArray(w, s.parent)
    IN  IF ~w.ok \/ ~there THEN Fail(w)
        ELSE CASE s.op = "InsertInline" -> InsertText(w, cx, s)
               [] s.op = "RemoveInline" -> RemoveText(w, s)
               [] s.op = "SetBlock"     -> SetBlockShared(w, cx, s)
               [] s.op = "Split"        -> SplitShared(w, cx, s)
               [] s.op = "Join"         -> JoinShared(w, cx, s)
               [] s.op = "InsertBlocks" -> InsertShared(w, cx, s)
               [] s.op = "RemoveBlocks" -> RemoveShared(w, s, inverse)
               [] s.op = "MoveBlocks"   -> MoveShared(w, cx, s)

\* Mirror::translate: the steps of a commit in order, each with its inverse.
TranslateCommit(y, reg, client, doc, steps, inverses) ==
    LET structural == SelectSeq(steps, LAMBDA s :
                        s.op \in {"Split", "Join", "InsertBlocks", "RemoveBlocks", "MoveBlocks"})
        cx == [client |-> client, doc |-> doc, single |-> Len(structural) <= 1]
    IN  FoldLeft(LAMBDA w, k : Translate(w, cx, steps[k], inverses[k]),
                 [y |-> y, reg |-> reg, ok |-> TRUE, retyped |-> <<>>], [k \in DOMAIN steps |-> k])

\* Mirror::seed: every block of the document, written last to first.
Seed(y, client, doc) ==
    LET Written(made) == [y |-> made.y, reg |-> RegisterMade(NoRegistry, made.made)]
    IN  Written(WriteAll([y |-> y], client, RootArray, 0, Root,
                         [k \in DOMAIN doc.root |-> TreeNode(doc.nodes, doc.root[k])]))
=============================================================================
