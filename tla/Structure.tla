------------------------------ MODULE Structure ------------------------------
(***************************************************************************)
(* The building blocks the editing commands share (structure.rs). A        *)
(* command changes the document by a script of instructions. An            *)
(* instruction is a step, or an edit that names the blocks it is about and *)
(* turns into steps only when its turn comes, on the document as those     *)
(* before it have left it: the code reads the document there as well.      *)
(***************************************************************************)
EXTENDS BlockDoc

RemoveBlock(b) == [op |-> "RemoveBlock", block |-> b]
PruneEmpty(p) == [op |-> "PruneEmpty", block |-> p]
MoveAll(from, into) == [op |-> "MoveAll", from |-> from, into |-> into]
AdoptChildren(into, from) == [op |-> "AdoptChildren", from |-> from, into |-> into]
MergeText(target, source) == [op |-> "MergeText", target |-> target, source |-> source]
EnsureBlock == [op |-> "EnsureBlock"]
GiveUp == [op |-> "GiveUp"]   \* what was done so far is taken back
Edits == {"RemoveBlock", "PruneEmpty", "MoveAll", "AdoptChildren", "MergeText", "EnsureBlock"}

-----------------------------------------------------------------------------
(* What the schema and the tree allow.                                     *)

Index(d, b) == IndexInParent(d, b) - 1
Allows(d, p, kind) == AllowsChild(d, p, kind)

\* default_text_type: the first text type a parent takes, if any.
TextTypesIn(d, p) == {k \in IF p = Root THEN TopLevel ELSE AllowedIn[d.nodes[p].kind] :
                        ContentOf[k] = "inline"}
DefaultTextType(d, p) ==
    LET First(kinds) == IF kinds = {} THEN None
                        ELSE Some(IF DefaultText \in kinds THEN DefaultText ELSE CHOOSE k \in kinds : TRUE)
    IN  IF p = Root THEN Some(DefaultText) ELSE First(TextTypesIn(d, p))

CanLift(d, container, index, count) ==
    /\ container \in Blocks(d)
    /\ index + count <= Len(Kids(d, container))
    /\ \A i \in index + 1..index + count :
          Allows(d, Parent(d, container), d.nodes[Kids(d, container)[i]].kind)

\* Mutant: whether the container takes the blocks is not asked.
CanWrapAnything(d, p, index, count, kind) == Allows(d, p, kind)

CanWrap(d, p, index, count, kind) ==
    /\ Allows(d, p, kind)
    /\ \A i \in index + 1..index + count : d.nodes[Kids(d, p)[i]].kind \in AllowedIn[kind]

\* covered_subtrees: the largest subtrees entirely between two text blocks.
CoveredSubtrees(d, first, last) ==
    LET Before(b, c) == OrderOf(d, b) < OrderOf(d, c)
        Top(b, p) == /\ Before(first, b) /\ Before(b, last)
                     /\ ~IsAncestor(d, b, last)
                     /\ p = Root \/ IsAncestor(d, p, last) \/ Before(p, first)
    IN  Among(DocOrder(d), {b \in Blocks(d) : Top(b, Parent(d, b))})

-----------------------------------------------------------------------------
(* The steps an edit turns into.                                           *)

Removal(d, b) == RemoveBlocksStep(Parent(d, b), Index(d, b), 1)

\* Mutant: only the parent itself goes, not the ancestors it leaves empty.
PrunedParent(d, p) ==
    IF p \in Blocks(d) /\ ContentOf[d.nodes[p].kind] = "blocks" /\ Kids(d, p) = <<>>
    THEN <<Removal(d, p)>> ELSE <<>>

\* prune_empty: p and each ancestor left without children, innermost first.
Pruned(d, p) ==
    LET Emptied(chain, n) == \A i \in 1..n :
            /\ ContentOf[d.nodes[chain[i]].kind] = "blocks"
            /\ Len(Kids(d, chain[i])) = IF i = 1 THEN 0 ELSE 1
        Prune(chain) == [i \in 1..Cardinality({n \in DOMAIN chain : Emptied(chain, n)}) |->
                           Removal(d, chain[i])]
    IN  IF p \notin Blocks(d) THEN <<>> ELSE Prune(AncestorsOrSelf(d, p))

MoveAllStep(d, from, into) == MoveBlocksStep(from, 0, Len(Kids(d, from)), into, Len(Kids(d, into)))

\* adopt_children: two containers of one kind become one.
Adopted(d, into, from) ==
    IF \/ ~({into, from} \subseteq Blocks(d)) \/ into = from
       \/ d.nodes[into].kind # d.nodes[from].kind
       \/ Kids(d, from) = <<>> \/ IsAncestor(d, from, into)
    THEN <<>> ELSE <<MoveAllStep(d, from, into)>>

\* merge_text: the text of source appended to target, source removed.
Merged(d, target, source) ==
    LET Joined(into, from) ==
          IF into = from /\ Index(d, source) = Index(d, target) + 1 THEN <<JoinStep(target, source)>>
          ELSE IF Allows(d, into, d.nodes[source].kind)
          THEN <<MoveBlocksStep(from, Index(d, source), 1, into, Index(d, target) + 1),
                 JoinStep(target, source)>>
          ELSE <<InsertInlineStep(target, TextLen(d, target), Text(d, source)), Removal(d, source)>>
    IN  Joined(Parent(d, target), Parent(d, source))

\* The steps of an edit on the document it meets; one about a block that is
\* not there is an error.
Resolve(d, e) ==
    CASE e.op = "RemoveBlock"   -> IF e.block \in Blocks(d) THEN <<Removal(d, e.block)>> ELSE <<GiveUp>>
      [] e.op = "PruneEmpty"    -> Pruned(d, e.block)
      [] e.op = "MoveAll"       -> <<MoveAllStep(d, e.from, e.into)>>
      [] e.op = "AdoptChildren" -> Adopted(d, e.into, e.from)
      [] e.op = "MergeText"     -> IF {e.target, e.source} \subseteq Blocks(d)
                                   THEN Merged(d, e.target, e.source) ELSE <<GiveUp>>
      [] e.op = "EnsureBlock"   ->
            IF d.root = <<>> THEN <<InsertBlocksStep(Root, 0, FreshTree(d.next, DefaultText))>> ELSE <<>>

-----------------------------------------------------------------------------
(* Scripts that commands are made of. Inserting a block with the id        *)
(* d.next takes that id (AttachTrees).                                     *)

EmptyCopy(d, b, id) == TextTree(id, d.nodes[b].kind, d.nodes[b].attr, <<>>)

\* split_container: the children from at on move into a copy right after it.
SplitContainer(d, container, at) ==
    IF at >= Len(Kids(d, container)) THEN <<>>
    ELSE <<InsertBlocksStep(Parent(d, container), Index(d, container) + 1, EmptyCopy(d, container, d.next)),
           MoveBlocksStep(container, at, Len(Kids(d, container)) - at, d.next, 0)>>

\* Mutant: what follows the lifted blocks stays where it is.
LiftUnsplit(d, container, index, count) ==
    <<MoveBlocksStep(container, index, count, Parent(d, container), Index(d, container) + 1),
      PruneEmpty(container)>>

\* lift: the container goes if nothing is left in it; its parent keeps the blocks.
Lift(d, container, index, count) ==
    SplitContainer(d, container, index + count)
    \o <<MoveBlocksStep(container, index, count, Parent(d, container), Index(d, container) + 1),
         PruneEmpty(container)>>

Wrap(d, p, index, count, kind) ==
    <<InsertBlocksStep(p, index, FreshTree(d.next, kind)), MoveBlocksStep(p, index + 1, count, d.next, 0)>>

\* merge_text as a whole: what is left of the source's container follows, and
\* an emptied one goes. Nothing a command does first moves the two blocks.
Merging(d, target, source) ==
    <<MergeText(target, source), AdoptChildren(Parent(d, target), Parent(d, source)),
      PruneEmpty(Parent(d, source))>>

DeleteRange(d, from, to) ==
    LET Across(covered) ==
          <<RemoveInlineStep(to.block, 0, to.offset),
            RemoveInlineStep(from.block, from.offset, TextLen(d, from.block))>>
          \o [i \in DOMAIN covered |-> RemoveBlock(covered[i])]
          \o Merging(d, from.block, to.block)
    IN  IF from = to THEN <<>>
        ELSE IF from.block = to.block THEN <<RemoveInlineStep(from.block, from.offset, to.offset)>>
        ELSE Across(Reverse(CoveredSubtrees(d, from.block, to.block)))
=============================================================================
