------------------------------- MODULE Mirror -------------------------------
(***************************************************************************)
(* The index between a model document and its shared document, and reading *)
(* block maps: which maps the model shows, and which of several maps with  *)
(* one block id owns it.                                                   *)
(*                                                                         *)
(* A registry is a record                                                  *)
(*   blocks      block -> [map, parent] for every block shown              *)
(*   owners      map -> whose it is: a shown block, or hidden in a parent  *)
(*   unmirrored  parent -> how many maps in its array are not shown        *)
(* The text, attributes and children of a block are branches of its map,   *)
(* so their owners are its own.                                            *)
(***************************************************************************)
EXTENDS SharedDoc

NoRegistry == [blocks |-> Nothing, owners |-> Nothing, unmirrored |-> Nothing]

Shown(b) == [is |-> "block", of |-> b]
Hidden(p) == [is |-> "hidden", of |-> p]

Owns(reg, m, owner) == m \in DOMAIN reg.owners /\ reg.owners[m] = owner
IsShownMap(reg, m) == m \in DOMAIN reg.owners /\ reg.owners[m].is = "block"
Unmirrored(reg, p) == IF p \in DOMAIN reg.unmirrored THEN reg.unmirrored[p] ELSE 0
IsMirrored(reg, p) == Unmirrored(reg, p) = 0
HiddenIn(reg, p) == IF IsMirrored(reg, p) THEN {} ELSE {m \in DOMAIN reg.owners : Owns(reg, m, Hidden(p))}
RejectedBlocks(reg) == FoldSet(LAMBDA p, sum : sum + reg.unmirrored[p], 0, DOMAIN reg.unmirrored)

Without(f, xs) == [x \in DOMAIN f \ xs |-> f[x]]
\* A count of zero is as good as none.
SetUnmirrored(reg, p, count) ==
    [reg EXCEPT !.unmirrored = IF count <= 0 THEN Without(@, {p}) ELSE (p :> count) @@ @]
AdjustUnmirrored(reg, p, by) == SetUnmirrored(reg, p, Unmirrored(reg, p) + by)

InsertBlock(reg, b, block) ==
    [reg EXCEPT !.owners = (block.map :> Shown(b)) @@ @, !.blocks = (b :> block) @@ @]
InsertHidden(reg, m, p) == AdjustUnmirrored([reg EXCEPT !.owners = (m :> Hidden(p)) @@ @], p, 1)
RemoveHidden(reg, m) ==
    IF m \notin DOMAIN reg.owners THEN reg
    ELSE LET gone == [reg EXCEPT !.owners = Without(@, {m})]
         IN  IF IsShownMap(reg, m) THEN gone ELSE AdjustUnmirrored(gone, reg.owners[m].of, -1)
ForgetHidden(reg, m) ==
    IF m \in DOMAIN reg.owners /\ ~IsShownMap(reg, m) THEN [reg EXCEPT !.owners = Without(@, {m})] ELSE reg

Register(reg, found) ==
    LET counted == FoldLeft(LAMBDA to, h : InsertHidden(to, h.map, h.parent), reg, found.hidden)
    IN  [counted EXCEPT !.owners = [m \in {found.maps[b].map : b \in DOMAIN found.maps} |->
                                       Shown(CHOOSE b \in DOMAIN found.maps : found.maps[b].map = m)] @@ @,
                        !.blocks = found.maps @@ @]

\* Forgetting removed blocks. The search for one that had hidden maps stops at
\* the first it finds, and leaves the counts it has not come to.
Forget(reg, ids) ==
    LET known == ids \cap DOMAIN reg.blocks
        counted == {b \in ids : Unmirrored(reg, b) > 0}
        first == IF counted = {} THEN {} ELSE {Min(counted)}
        gone == {reg.blocks[b].map : b \in known}
                \cup {m \in DOMAIN reg.owners : counted # {} /\ reg.owners[m].is = "hidden" /\ reg.owners[m].of \in ids}
    IN  [blocks |-> Without(reg.blocks, known), owners |-> Without(reg.owners, gone),
         unmirrored |-> Without(reg.unmirrored, first)]

\* Moving registrations from copied maps to their copies.
Rebind(reg, copies) ==
    LET Follow(to, copy) ==
          IF copy.from \notin DOMAIN to.owners THEN to
          ELSE LET gone == [to EXCEPT !.owners = Without(@, {copy.from})]
                   owner == to.owners[copy.from]
               IN  IF owner.is = "block"
                   THEN InsertBlock(gone, owner.of, [map |-> copy.map, parent |-> copy.parent])
                   ELSE [gone EXCEPT !.owners = (copy.map :> owner) @@ @]
    IN  FoldLeft(Follow, reg, copies)

-----------------------------------------------------------------------------
(* Which maps can be shown, and who owns an id. A kind of parent is         *)
(* optional: the root has none.                                             *)

Allows(pk, kind) == IF pk = None THEN kind \in TopLevel ELSE kind \in AllowedIn[pk[1]]
ParentKind(d, p) == IF p \in Blocks(d) THEN Some(d.nodes[p].kind) ELSE None
InBlock(m, p, pk) == [map |-> m, parent |-> p, pk |-> pk]
EachIn(y, br, p, pk) == [k \in DOMAIN Live(y, br) |-> InBlock(Live(y, br)[k], p, pk)]
Inside(y, place) ==
    EachIn(y, Array(place.map), BlockId(y, place.map), Some(KindOf(y, place.map)))
Fits(y, place) == Allows(place.pk, KindOf(y, place.map))

RECURSIVE Scan(_, _)
Scan(y, places) ==
    LET fit == {place \in places : Fits(y, place)}
    IN  IF fit = {} THEN {}
        ELSE {place.map : place \in fit} \cup Scan(y, UNION {ToSet(Inside(y, place)) : place \in fit})

\* Of the maps that carry an id, the one with the smallest item id.
Owners(y, places) ==
    LET maps == Scan(y, places)
    IN  [b \in {BlockId(y, m) : m \in maps} |-> Min({m \in maps : BlockId(y, m) = b})]

NoneFound == [roots |-> <<>>, nodes |-> Nothing, maps |-> Nothing, hidden |-> <<>>, losers |-> <<>>]
NoClaims == [seen |-> {}, repeated |-> FALSE, evicted |-> <<>>]

\* A claim is made in a context: the shared document y, the owners of a scan
\* or None, the document and the registry the maps come into, the blocks that
\* are being removed, and the parent the map that is read goes into.
ContainsTarget(cx, b) == b = cx.target \/ (cx.target \in Blocks(cx.doc) /\ IsAncestor(cx.doc, b, cx.target))

\* Mutant of IsFree: a removed block keeps its id.
KeptThoughDoomed(cx, claims, b, m, existing) == existing = m \/ b \in ToSet(claims.evicted)

\* Nobody shown stands in the way of map m taking id b.
IsFree(cx, claims, b, m, existing) == existing = m \/ b \in cx.doomed \/ b \in ToSet(claims.evicted)

\* Mutant of Precedes: whichever came last.
Follows(m, existing) == m # existing

\* Of two copies the smaller item id keeps the block.
Precedes(m, existing) == m < existing

Claim(cx, claims, b, m) ==
    LET first == b \notin claims.seen
        noted == [claims EXCEPT !.seen = @ \cup {b}, !.repeated = @ \/ ~first]
        asked == IF cx.owners = None THEN noted ELSE claims
        owned == IF cx.owners = None THEN first ELSE cx.owners[1][b] = m
        existing == IF b \in DOMAIN cx.reg.blocks THEN cx.reg.blocks[b].map ELSE m
        free == IsFree(cx, claims, b, m, existing)
        evicts == owned /\ ~free /\ Precedes(m, existing) /\ ~ContainsTarget(cx, b)
    IN  [won |-> owned /\ (free \/ evicts),
         claims |-> IF evicts THEN [asked EXCEPT !.evicted = Append(@, b)] ELSE asked]

\* Reader::block and children: the maps of a work list, each followed by what
\* is inside it.
RECURSIVE Read(_, _, _, _)
Read(cx, found, claims, todo) ==
    IF todo = <<>> THEN [found |-> found, claims |-> claims]
    ELSE LET place == Head(todo)
             m == place.map
             b == BlockId(cx.y, m)
             hidden == [found EXCEPT !.hidden = Append(@, [map |-> m, parent |-> place.parent])]
             node == [kind |-> KindOf(cx.y, m), attr |-> AttrOf(cx.y, m),
                      parent |-> IF place.parent \in DOMAIN found.nodes THEN place.parent ELSE Root,
                      text |-> Values(cx.y, Live(cx.y, TextOf(m))), kids |-> <<>>]
             WithKid(nodes) ==
               IF place.parent \in DOMAIN nodes
               THEN (place.parent :> [nodes[place.parent] EXCEPT !.kids = Append(@, b)]) @@ nodes ELSE nodes
             shown == [found EXCEPT !.nodes = (b :> node) @@ WithKid(@),
                                    !.roots = IF place.parent \in DOMAIN found.nodes THEN @ ELSE Append(@, b),
                                    !.maps = (b :> [map |-> m, parent |-> place.parent]) @@ @]
             lost == [hidden EXCEPT !.losers = Append(@, [map |-> m, parent |-> place.parent])]
             Asked(asked) ==
               IF asked.won THEN Read(cx, shown, asked.claims, Inside(cx.y, place) \o Tail(todo))
               ELSE Read(cx, lost, asked.claims, Tail(todo))
         IN  IF ~Fits(cx.y, place) THEN Read(cx, hidden, claims, Tail(todo))
             ELSE Asked(Claim(cx, claims, b, m))

-----------------------------------------------------------------------------
(* The document, built from the shared state, and its repairs: the maps     *)
(* that lost their id, to be deleted.                                       *)

FreshDoc(found) ==
    [nodes |-> [b \in DOMAIN found.nodes |->
                  [kind |-> found.nodes[b].kind, attr |-> found.nodes[b].attr, parent |-> found.nodes[b].parent,
                   text |-> found.nodes[b].text, kids |-> found.nodes[b].kids, rev |-> 0]],
     root |-> found.roots, next |-> 1, version |-> 0, saves |-> <<>>]
EmptyDoc == FreshDoc(NoneFound)

Document(y) ==
    LET places == EachIn(y, RootArray, Root, None)
        Cx(owners) == [y |-> y, owners |-> Some(owners), doc |-> EmptyDoc, reg |-> NoRegistry,
                       doomed |-> {}, target |-> Root]
        Built(found) == [doc |-> FreshDoc(found), reg |-> Register(NoRegistry, found), repairs |-> found.losers]
    IN  Built(Read(Cx(Owners(y, ToSet(places))), NoneFound, NoClaims, places).found)

\* Mirror::repair: delete the maps that are still where they were found.
Repair(y, reg, repairs) ==
    LET Fix(at, repair) ==
          LET there == repair.parent = Root \/ repair.parent \in DOMAIN at.reg.blocks
              array == Array(IF repair.parent = Root THEN Root ELSE at.reg.blocks[repair.parent].map)
              found == there /\ repair.map \in ToSet(Live(at.y, array))
          IN  [y |-> IF found THEN Delete(at.y, {repair.map}) ELSE at.y, reg |-> RemoveHidden(at.reg, repair.map)]
    IN  FoldLeft(Fix, [y |-> y, reg |-> reg], repairs)
=============================================================================
