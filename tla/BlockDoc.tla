------------------------------ MODULE BlockDoc ------------------------------
(***************************************************************************)
(* The document model of canvist_model as operators: blocks addressed by   *)
(* stable ids, the eleven steps that change them, and the inverse and the  *)
(* point map each step yields.                                             *)
(*                                                                         *)
(* A document is a record                                                  *)
(*   nodes    id -> [kind, attr, parent, text, kids, rev]                  *)
(*   root     the ids at the top level, in order                           *)
(*   next     the first sequence number the local client has not used      *)
(*   version  the number of steps applied                                  *)
(*   saves    the open savepoints, innermost last                          *)
(* Ids of the local client are its positive sequence numbers; ids other    *)
(* clients allocated are negative; 0 stands for the root (no parent).      *)
(* Text is a sequence of characters with their marks: one character is one *)
(* byte, so the character-boundary checks of inline.rs have no counterpart.*)
(***************************************************************************)
EXTENDS Integers, Sequences, FiniteSets, SequencesExt, TLC

CONSTANTS
    Kinds,          \* the block types of the schema
    ContentOf,      \* kind -> "inline" | "blocks" | "leaf"
    AllowedIn,      \* kind -> the kinds it may contain
    TopLevel,       \* the kinds the root may contain
    DefaultText,    \* the schema's default text block
    Excludes        \* mark -> the marks it cannot coexist with

Root == 0

\* An optional value is a sequence of at most one element.
None == <<>>
Some(x) == <<x>>
OrElse(opt, default) == IF opt = None THEN default ELSE opt[1]

Marks == DOMAIN Excludes

ASSUME SchemaAssumption ==
    /\ ContentOf \in [Kinds -> {"inline", "blocks", "leaf"}]
    /\ AllowedIn \in [Kinds -> SUBSET Kinds]
    /\ DefaultText \in TopLevel /\ TopLevel \subseteq Kinds /\ ContentOf[DefaultText] = "inline"
    /\ \A m \in Marks : Excludes[m] \subseteq Marks

-----------------------------------------------------------------------------
(* Reading a document.                                                     *)

Blocks(d) == DOMAIN d.nodes
IsText(d, b) == b \in Blocks(d) /\ ContentOf[d.nodes[b].kind] = "inline"
Text(d, b) == d.nodes[b].text
Parent(d, b) == d.nodes[b].parent
Kids(d, p) == IF p = Root THEN d.root
              ELSE IF p \in Blocks(d) THEN d.nodes[p].kids ELSE <<>>
\* The place of x in a sequence without repetitions, 0 if it is not there.
PlaceIn(seq, x) == IF x \in ToSet(seq) THEN CHOOSE i \in DOMAIN seq : seq[i] = x ELSE 0
IndexInParent(d, b) == PlaceIn(Kids(d, Parent(d, b)), b)

\* The elements of a sequence that lie in S, in their order.
Among(seq, S) ==
    LET kept[n \in 0..Len(seq)] ==
          IF n = 0 THEN <<>>
          ELSE IF seq[n] \in S THEN Append(kept[n - 1], seq[n]) ELSE kept[n - 1]
    IN  kept[Len(seq)]

\* The ids of the trees under roots, each block before its children: the next
\* block to visit is replaced by its children among those still to visit.
Walk(nodes, roots) ==
    LET kids == [b \in DOMAIN nodes |-> nodes[b].kids]
        Visit(w) == IF w.todo = <<>> THEN w
                    ELSE [seen |-> Append(w.seen, Head(w.todo)), todo |-> kids[Head(w.todo)] \o Tail(w.todo)]
        walk[n \in 0..Cardinality(DOMAIN nodes)] ==
          IF n = 0 THEN [seen |-> <<>>, todo |-> roots] ELSE Visit(walk[n - 1])
    IN  walk[Cardinality(DOMAIN nodes)].seen
DocOrder(d) == Walk(d.nodes, d.root)

\* Some blocks and those at most n levels below them; and all below them.
Levels(nodes, ids) ==
    LET below[n \in Nat] ==
          IF n = 0 THEN ids
          ELSE LET known == below[n - 1] IN known \cup UNION {ToSet(nodes[b].kids) : b \in known}
    IN  below
AllUnder(nodes, ids) == Levels(nodes, ids)[Cardinality(DOMAIN nodes)]
Subtree(d, b) == AllUnder(d.nodes, {b})
IsAncestor(d, a, b) == a # b /\ b \in Subtree(d, a)

\* The block itself and its ancestors, innermost first.
AncestorsOrSelf(d, b) == Reverse(Among(DocOrder(d), {a \in Blocks(d) : b \in Subtree(d, a)}))
OrderOf(d, b) == PlaceIn(DocOrder(d), b)
TextLen(d, b) == IF IsText(d, b) THEN Len(Text(d, b)) ELSE 0
IsLeaf(d, b) == b \in Blocks(d) /\ ContentOf[d.nodes[b].kind] = "leaf"

TextBlocks(d) == Among(DocOrder(d), {b \in Blocks(d) : IsText(d, b)})

\* What a reader sees: the document without revisions, counters and savepoints.
Content(d) == [root  |-> d.root,
               nodes |-> [b \in Blocks(d) |->
                            [x \in DOMAIN d.nodes[b] \ {"rev"} |-> d.nodes[b][x]]]]

\* A record, or a function, of these fields.
IsA(r, fields) == r = [f \in fields |-> r[f]]

IsContent(text) == text \in Seq(ToSet(text)) /\ \A c \in ToSet(text) : IsA(c, {"ch", "marks"})
BlockFields == {"kind", "attr", "parent", "text", "kids"}

AllowsChild(d, p, kind) ==
    \/ p = Root /\ kind \in TopLevel
    \/ p \in Blocks(d) /\ kind \in AllowedIn[d.nodes[p].kind]

\* What the mutators rely on: the children lists and the parents agree, no
\* block is below itself, and each block holds what its kind takes.
Linked(d) ==
    /\ \A p \in Blocks(d) \cup {Root} :
          /\ Kids(d, p) \in Seq(Blocks(d)) /\ IsInjective(Kids(d, p))
          /\ \A b \in ToSet(Kids(d, p)) : Parent(d, b) = p /\ AllowsChild(d, p, d.nodes[b].kind)
    /\ \A b \in Blocks(d) : Parent(d, b) \in Blocks(d) \cup {Root} /\ b \in ToSet(Kids(d, Parent(d, b)))
Holds(kind, text, kids) ==
    /\ kind \in Kinds /\ IsContent(text)
    /\ text # <<>> => ContentOf[kind] = "inline"
    /\ kids # <<>> => ContentOf[kind] = "blocks"
Acyclic(nodes) == \A b \in DOMAIN nodes : b \notin AllUnder(nodes, ToSet(nodes[b].kids))

Shaped(d) ==
    /\ IsA(d, {"nodes", "root", "next", "version", "saves"}) /\ IsA(d.nodes, Blocks(d))
    /\ IsFiniteSet(Blocks(d)) /\ Root \notin Blocks(d)
    /\ \A b \in Blocks(d) : IsA(d.nodes[b], BlockFields \cup {"rev"})
WellFormed(d) ==
    /\ Shaped(d) /\ Linked(d) /\ Acyclic(d.nodes)
    /\ \A b \in Blocks(d) : Holds(d.nodes[b].kind, Text(d, b), Kids(d, b))

-----------------------------------------------------------------------------
(* Points, and how a step's map moves them.                                *)

Point(b, o) == [block |-> b, offset |-> o]
NoPoint == Point(Root, 0)
Identity == [map |-> "identity"]
InlineMap(b, o, removed, inserted) ==
    [map |-> "inline", block |-> b, offset |-> o, removed |-> removed, inserted |-> inserted]
SplitMap(b, o, new) == [map |-> "split", block |-> b, offset |-> o, new |-> new]
JoinMap(b, next, o) == [map |-> "join", block |-> b, next |-> next, offset |-> o]
RemovedMap(ids, fallback) == [map |-> "removed", blocks |-> ids, fallback |-> fallback]

Affects(m, b) ==
    CASE m.map = "identity"           -> FALSE
      [] m.map \in {"inline", "split"} -> m.block = b
      [] m.map = "join"               -> m.next = b
      [] m.map = "removed"            -> b \in m.blocks

Mapped(p, deleted) == [point |-> p, deleted |-> deleted]

MapInline(m, p, bias) ==
    LET end == m.offset + m.removed
    IN  IF p.offset < m.offset THEN Mapped(p, FALSE)
        ELSE IF p.offset = m.offset /\ (m.removed > 0 \/ bias = "before") THEN Mapped(p, FALSE)
        ELSE IF p.offset < end THEN Mapped(Point(p.block, m.offset), TRUE)
        ELSE Mapped(Point(p.block, p.offset - m.removed + m.inserted), FALSE)

MapSplit(m, p, bias) ==
    IF p.offset > m.offset \/ (p.offset = m.offset /\ bias = "after")
    THEN Point(m.new, p.offset - m.offset) ELSE p

MapPoint(m, p, bias) ==
    IF ~Affects(m, p.block) THEN Mapped(p, FALSE)
    ELSE CASE m.map = "inline"  -> MapInline(m, p, bias)
           [] m.map = "split"   -> Mapped(MapSplit(m, p, bias), FALSE)
           [] m.map = "join"    -> Mapped(Point(m.block, m.offset + p.offset), FALSE)
           [] m.map = "removed" -> Mapped(IF m.fallback = NoPoint THEN p ELSE m.fallback, TRUE)

\* A point through the maps of a whole commit; deleted is remembered.
MapThrough(maps, p, bias) ==
    LET Moved(deleted, to) == Mapped(to.point, deleted \/ to.deleted)
        at[n \in 0..Len(maps)] ==
          IF n = 0 THEN Mapped(p, FALSE)
          ELSE Moved(at[n - 1].deleted, MapPoint(maps[n], at[n - 1].point, bias))
    IN  at[Len(maps)]

TextSelection(anchor, head) == [sel |-> "text", anchor |-> anchor, head |-> head]
Caret(p) == TextSelection(p, p)
BlockSelection(first, last) == [sel |-> "blocks", first |-> first, last |-> last]
IsCaret(s) == s.sel = "text" /\ s.anchor = s.head

MapSelection(maps, s) ==
    IF s.sel = "blocks" THEN s
    ELSE IF IsCaret(s) THEN Caret(MapThrough(maps, s.head, "after").point)
    ELSE TextSelection(MapThrough(maps, s.anchor, "before").point,
                       MapThrough(maps, s.head, "after").point)

-----------------------------------------------------------------------------
(* The document's own mutators. Sequence positions are the code's offsets: *)
(* offset o lies between the o-th and the next element.                    *)

SpliceSeq(s, at, removed, new) ==
    SubSeq(s, 1, at) \o new \o SubSeq(s, at + removed + 1, Len(s))

PutNode(d, b, node) == [d EXCEPT !.nodes[b] = node]

\* inline_mut: every change of a block's text is a new revision of it.
SetText(d, b, text) == PutNode(d, b, [d.nodes[b] EXCEPT !.text = text, !.rev = @ + 1])
SetKids(d, p, kids) ==
    IF p = Root THEN [d EXCEPT !.root = kids]
    ELSE PutNode(d, p, [d.nodes[p] EXCEPT !.kids = kids])

\* Trees held outside a document: their roots and nodes, without revisions.
Trees(roots, nodes) == [roots |-> roots, nodes |-> nodes]
TextTree(b, kind, attr, text) ==
    Trees(<<b>>, [x \in {b} |-> [kind |-> kind, attr |-> attr, parent |-> Root, text |-> text, kids |-> <<>>]])

FreshTree(id, kind) == TextTree(id, kind, 0, <<>>)

\* observe: the local client never hands out an id it has seen.
Observe(next, ids) ==
    LET taken == {b \in ids : b >= next}
    IN  IF taken = {} THEN next ELSE 1 + CHOOSE b \in taken : \A c \in taken : c <= b

\* insert_tree: the reattached blocks start again at revision 0.
AttachTrees(d, p, index, trees) ==
    LET Born(b, t) == [kind |-> t.kind, attr |-> t.attr,
                       parent |-> IF b \in ToSet(trees.roots) THEN p ELSE t.parent,
                       text |-> t.text, kids |-> t.kids, rev |-> 0]
        All == [b \in Blocks(d) \cup DOMAIN trees.nodes |->
                  IF b \in DOMAIN trees.nodes THEN Born(b, trees.nodes[b]) ELSE d.nodes[b]]
    IN  SetKids([d EXCEPT !.nodes = All, !.next = Observe(@, DOMAIN trees.nodes)],
                p, SpliceSeq(Kids(d, p), index, 0, trees.roots))

DetachTrees(d, p, index, count) ==
    LET Without(cut, gone) == [cut EXCEPT !.nodes = [b \in DOMAIN @ \ gone |-> @[b]]]
        Detach(ids, gone) ==
          [trees |-> Trees(ids, [b \in gone |-> Content(d).nodes[b]]),
           doc   |-> Without(SetKids(d, p, SpliceSeq(Kids(d, p), index, count, <<>>)), gone)]
        DetachAll(ids) == Detach(ids, AllUnder(d.nodes, ToSet(ids)))
    IN  DetachAll(SubSeq(Kids(d, p), index + 1, index + count))

\* The closest text position outside ids, which are siblings in order.
RemovalFallback(d, ids) ==
    LET EndPoint(b) == Point(b, Len(Text(d, b)))
        Closest(before, after) ==
          IF before # <<>> THEN EndPoint(Last(before))
          ELSE IF after # <<>> THEN Point(Head(after), 0) ELSE NoPoint
        Beside(order) ==
          Closest(Among(SubSeq(order, 1, PlaceIn(order, Head(ids)) - 1), {b \in Blocks(d) : IsText(d, b)}),
                  Among(SubSeq(order, PlaceIn(order, Last(ids)) + 1, Len(order)),
                        {b \in Blocks(d) : IsText(d, b) /\ ~IsAncestor(d, Last(ids), b)}))
    IN  IF ids = <<>> THEN NoPoint ELSE Beside(DocOrder(d))

-----------------------------------------------------------------------------
(* The steps. Each operator gives what applying the step produces, or      *)
(* Failed when a check of the code refuses it.                             *)

Applied(doc, inverse, map, touched, structural) ==
    [ok |-> TRUE, doc |-> doc, inverse |-> inverse, map |-> map,
     touched |-> touched, structural |-> structural]
Failed(d) == [ok |-> FALSE, doc |-> d]

InsertInlineStep(b, o, text) == [op |-> "InsertInline", block |-> b, offset |-> o, content |-> text]
RemoveInlineStep(b, from, to) == [op |-> "RemoveInline", block |-> b, from |-> from, to |-> to]
AddMarkStep(b, from, to, m) == [op |-> "AddMark", block |-> b, from |-> from, to |-> to, mark |-> m]
RemoveMarkStep(b, from, to, m) == [op |-> "RemoveMark", block |-> b, from |-> from, to |-> to, mark |-> m]
RestoreMarksStep(b, o, runs) == [op |-> "RestoreMarks", block |-> b, offset |-> o, runs |-> runs]
SetBlockStep(b, kind, attr) == [op |-> "SetBlock", block |-> b, kind |-> kind, attr |-> attr]
SplitStep(b, o, new, kind, attr) ==
    [op |-> "Split", block |-> b, offset |-> o, new |-> new, kind |-> kind, attr |-> attr]
JoinStep(b, next) == [op |-> "Join", block |-> b, next |-> next]
InsertBlocksStep(p, index, trees) == [op |-> "InsertBlocks", parent |-> p, index |-> index, blocks |-> trees]
RemoveBlocksStep(p, index, count) == [op |-> "RemoveBlocks", parent |-> p, index |-> index, count |-> count]
MoveBlocksStep(p, index, count, to, toIndex) ==
    [op |-> "MoveBlocks", parent |-> p, index |-> index, count |-> count, to |-> to, toIndex |-> toIndex]

\* Trees as the code nests them: each block in one list, below some root.
IsForest(t) ==
    LET Lists == {t.roots} \cup {t.nodes[b].kids : b \in DOMAIN t.nodes}
    IN  /\ IsA(t, {"roots", "nodes"}) /\ IsA(t.nodes, DOMAIN t.nodes)
        /\ IsFiniteSet(DOMAIN t.nodes) /\ Root \notin DOMAIN t.nodes
        /\ \A list \in Lists : list \in Seq(DOMAIN t.nodes) /\ IsInjective(list)
        /\ \A b \in DOMAIN t.nodes :
              /\ IsA(t.nodes[b], BlockFields)
              /\ Holds(t.nodes[b].kind, t.nodes[b].text, t.nodes[b].kids)
              /\ \A c \in ToSet(t.nodes[b].kids) : t.nodes[c].parent = b /\ c \notin ToSet(t.roots)
        /\ Acyclic(t.nodes) /\ DOMAIN t.nodes = AllUnder(t.nodes, ToSet(t.roots))

\* A step as the code can build one.
IsStep(s) ==
    CASE s.op = "InsertInline" -> s.offset \in Nat /\ IsContent(s.content)
      [] s.op \in {"RemoveInline", "AddMark", "RemoveMark"} -> s.from \in Nat /\ s.to \in Nat
      [] s.op = "RestoreMarks" -> s.offset \in Nat /\ s.runs \in Seq(ToSet(s.runs))
      [] s.op = "Split"        -> s.offset \in Nat /\ s.new # Root
      [] s.op = "InsertBlocks" -> s.index \in Nat /\ IsForest(s.blocks)
      [] s.op = "RemoveBlocks" -> s.index \in Nat /\ s.count \in Nat
      [] s.op = "MoveBlocks"   -> s.index \in Nat /\ s.count \in Nat /\ s.toIndex \in Nat
      [] OTHER                 -> s.op \in {"SetBlock", "Join"}

InsertInline(d, s) ==
    IF ~(IsText(d, s.block) /\ s.offset <= Len(Text(d, s.block))) THEN Failed(d)
    ELSE Applied(SetText(d, s.block, SpliceSeq(Text(d, s.block), s.offset, 0, s.content)),
                 RemoveInlineStep(s.block, s.offset, s.offset + Len(s.content)),
                 InlineMap(s.block, s.offset, 0, Len(s.content)), {s.block}, FALSE)

RangeOk(d, b, from, to) == IsText(d, b) /\ from <= to /\ to <= Len(Text(d, b))

RemoveInline(d, s) ==
    IF ~RangeOk(d, s.block, s.from, s.to) THEN Failed(d)
    ELSE LET text == Text(d, s.block)
         IN  Applied(SetText(d, s.block, SpliceSeq(text, s.from, s.to - s.from, <<>>)),
                     InsertInlineStep(s.block, s.from, SubSeq(text, s.from + 1, s.to)),
                     InlineMap(s.block, s.from, s.to - s.from, 0), {s.block}, FALSE)

\* format: change the marks of a range; the captured marks are the inverse.
Format(d, b, from, to, NewMarks(_)) ==
    IF ~RangeOk(d, b, from, to) THEN Failed(d)
    ELSE LET text == Text(d, b)
         IN  Applied(SetText(d, b, [i \in DOMAIN text |->
                                      IF from < i /\ i <= to
                                      THEN [text[i] EXCEPT !.marks = NewMarks(i)] ELSE text[i]]),
                     RestoreMarksStep(b, from, [i \in 1..to - from |-> text[from + i].marks]),
                     Identity, {b}, FALSE)

AddMark(d, s) ==
    Format(d, s.block, s.from, s.to,
           LAMBDA i : (Text(d, s.block)[i].marks \ Excludes[s.mark]) \cup {s.mark})
RemoveMark(d, s) ==
    Format(d, s.block, s.from, s.to, LAMBDA i : Text(d, s.block)[i].marks \ {s.mark})
RestoreMarks(d, s) ==
    Format(d, s.block, s.offset, s.offset + Len(s.runs), LAMBDA i : s.runs[i - s.offset])

ContentFits(d, kind, b) ==
    /\ ContentOf[kind] = ContentOf[d.nodes[b].kind]
    /\ \A c \in ToSet(Kids(d, b)) : d.nodes[c].kind \in AllowedIn[kind]

SetBlock(d, s) ==
    IF ~(s.block \in Blocks(d) /\ AllowsChild(d, Parent(d, s.block), s.kind)
         /\ ContentFits(d, s.kind, s.block)) THEN Failed(d)
    ELSE LET Changed(old) ==
               Applied(PutNode(d, s.block, [old EXCEPT !.kind = s.kind, !.attr = s.attr, !.rev = @ + 1]),
                       SetBlockStep(s.block, old.kind, old.attr), Identity, {s.block}, FALSE)
         IN  Changed(d.nodes[s.block])

\* check_tree: fresh ids, kinds that accept their content, children allowed.
TreesOk(d, p, trees) ==
    /\ DOMAIN trees.nodes \cap Blocks(d) = {}
    /\ \A b \in ToSet(trees.roots) : AllowsChild(d, p, trees.nodes[b].kind)
    /\ \A b \in DOMAIN trees.nodes : \A c \in ToSet(trees.nodes[b].kids) :
          trees.nodes[c].kind \in AllowedIn[trees.nodes[b].kind]

Split(d, s) ==
    LET Tree(text) == TextTree(s.new, s.kind, s.attr, SubSeq(text, s.offset + 1, Len(text)))
        Halved(text) ==
          Applied(AttachTrees(SetText(d, s.block, SubSeq(text, 1, s.offset)), Parent(d, s.block),
                              IndexInParent(d, s.block), Tree(text)),
                  JoinStep(s.block, s.new), SplitMap(s.block, s.offset, s.new),
                  {s.block, s.new}, TRUE)
    IN  IF ~(IsText(d, s.block) /\ s.offset <= Len(Text(d, s.block)) /\ ContentOf[s.kind] = "inline"
             /\ TreesOk(d, Parent(d, s.block), TextTree(s.new, s.kind, s.attr, <<>>))) THEN Failed(d)
        ELSE Halved(Text(d, s.block))

\* Mutant: the inverse gives the block split off the type of the first one.
JoinKeepsOneType(d, s) ==
    LET Joined(p, i, b) ==
          IF ~(i < Len(Kids(d, p)) /\ Kids(d, p)[i + 1] = s.next) THEN Failed(d)
          ELSE Applied(SetText(DetachTrees(d, p, i, 1).doc, s.block, Text(d, s.block) \o Text(d, s.next)),
                       SplitStep(s.block, Len(Text(d, s.block)), s.next, b.kind, b.attr),
                       JoinMap(s.block, s.next, Len(Text(d, s.block))), {s.block}, TRUE)
    IN  IF ~(IsText(d, s.block) /\ IsText(d, s.next)) THEN Failed(d)
        ELSE Joined(Parent(d, s.block), IndexInParent(d, s.block), d.nodes[s.block])

Join(d, s) ==
    LET Joined(p, i, b) ==
          IF ~(i < Len(Kids(d, p)) /\ Kids(d, p)[i + 1] = s.next) THEN Failed(d)
          ELSE Applied(SetText(DetachTrees(d, p, i, 1).doc, s.block, Text(d, s.block) \o b.text),
                       SplitStep(s.block, Len(Text(d, s.block)), s.next, b.kind, b.attr),
                       JoinMap(s.block, s.next, Len(Text(d, s.block))), {s.block}, TRUE)
    IN  IF ~(IsText(d, s.block) /\ IsText(d, s.next)) THEN Failed(d)
        ELSE Joined(Parent(d, s.block), IndexInParent(d, s.block), d.nodes[s.next])

IndexOk(d, p, from, to) ==
    /\ p = Root \/ (p \in Blocks(d) /\ ContentOf[d.nodes[p].kind] = "blocks")
    /\ from <= to /\ to <= Len(Kids(d, p))

InsertBlocks(d, s) ==
    IF ~(IndexOk(d, s.parent, s.index, s.index) /\ TreesOk(d, s.parent, s.blocks)) THEN Failed(d)
    ELSE Applied(AttachTrees(d, s.parent, s.index, s.blocks),
                 RemoveBlocksStep(s.parent, s.index, Len(s.blocks.roots)),
                 Identity, DOMAIN s.blocks.nodes, TRUE)

RemoveBlocks(d, s) ==
    LET Removed(cut) ==
          Applied(cut.doc, InsertBlocksStep(s.parent, s.index, cut.trees),
                  RemovedMap(DOMAIN cut.trees.nodes, RemovalFallback(d, cut.trees.roots)), {}, TRUE)
    IN  IF ~IndexOk(d, s.parent, s.index, s.index + s.count) THEN Failed(d)
        ELSE Removed(DetachTrees(d, s.parent, s.index, s.count))

MoveBlocks(d, s) ==
    LET Reparented(put, ids) ==
          [put EXCEPT !.nodes = [b \in DOMAIN @ |->
              IF b \in ToSet(ids) THEN [@[b] EXCEPT !.parent = s.to] ELSE @[b]]]
        Move(ids, cut) ==
          IF ~(/\ IndexOk(d, s.to, 0, 0)
               /\ \A b \in ToSet(ids) : /\ s.to \notin Subtree(d, b)
                                        /\ AllowsChild(d, s.to, d.nodes[b].kind)
               /\ s.toIndex <= Len(Kids(cut, s.to))) THEN Failed(d)
          ELSE Applied(Reparented(SetKids(cut, s.to, SpliceSeq(Kids(cut, s.to), s.toIndex, 0, ids)), ids),
                       MoveBlocksStep(s.to, s.toIndex, s.count, s.parent, s.index),
                       Identity, {}, TRUE)
    IN  IF ~IndexOk(d, s.parent, s.index, s.index + s.count) THEN Failed(d)
        ELSE Move(SubSeq(Kids(d, s.parent), s.index + 1, s.index + s.count),
                  SetKids(d, s.parent, SpliceSeq(Kids(d, s.parent), s.index, s.count, <<>>)))

Perform(d, s) ==
    CASE s.op = "InsertInline" -> InsertInline(d, s)
      [] s.op = "RemoveInline" -> RemoveInline(d, s)
      [] s.op = "AddMark"      -> AddMark(d, s)
      [] s.op = "RemoveMark"   -> RemoveMark(d, s)
      [] s.op = "RestoreMarks" -> RestoreMarks(d, s)
      [] s.op = "SetBlock"     -> SetBlock(d, s)
      [] s.op = "Split"        -> Split(d, s)
      [] s.op = "Join"         -> Join(d, s)
      [] s.op = "InsertBlocks" -> InsertBlocks(d, s)
      [] s.op = "RemoveBlocks" -> RemoveBlocks(d, s)
      [] s.op = "MoveBlocks"   -> MoveBlocks(d, s)

-----------------------------------------------------------------------------
(* Savepoints: what is recorded around every step while one is open.       *)

AffectedBy(d, s) ==
    CASE s.op \in {"InsertInline", "RemoveInline", "AddMark", "RemoveMark",
                   "RestoreMarks", "SetBlock", "Split"} -> {s.block}
      [] s.op = "Join"         -> {s.block, s.next}
      [] s.op = "RemoveBlocks" ->
            AllUnder(d.nodes, ToSet(SubSeq(Kids(d, s.parent), s.index + 1, s.index + s.count)))
      [] OTHER                 -> {}

\* What is known of a block already stays (or_insert).
Known(first, more) ==
    [b \in DOMAIN first \cup DOMAIN more |-> IF b \in DOMAIN first THEN first[b] ELSE more[b]]

RecordBefore(d, s) ==
    IF d.saves = <<>> THEN d
    ELSE [d EXCEPT !.saves[Len(d.saves)].revs =
             Known(@, [b \in AffectedBy(d, s) \cap Blocks(d) |-> d.nodes[b].rev])]

RecordInverse(d, inverse) ==
    IF d.saves = <<>> THEN d
    ELSE [d EXCEPT !.saves[Len(d.saves)].inverses = Append(@, inverse)]

\* Step::apply: the only way to change a document.
StepApply(d, s) ==
    LET before == RecordBefore(d, s)
        Counted(doc) == [doc EXCEPT !.version = @ + 1]
        Logged(result) ==
          IF ~result.ok THEN Failed(before)
          ELSE [result EXCEPT !.doc = RecordInverse(Counted(result.doc), result.inverse)]
    IN  Logged(Perform(before, s))
=============================================================================
