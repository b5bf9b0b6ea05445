------------------------------ MODULE SharedDoc ------------------------------
(***************************************************************************)
(* What canvist_collab relies on in yrs: one replica of a shared document  *)
(* made of block maps. yrs is external; this is its list algorithm, its    *)
(* pending updates and the shape of the shared types, as the binding uses  *)
(* them.                                                                   *)
(*                                                                         *)
(* Every insertion is an item. An item id is Span * client + clock, so ids *)
(* are ordered as yrs orders them. A branch is <<map, slot>>: the children *)
(* of a block map, its text, its type or its attribute; map 0 stands for   *)
(* the root, which only has children. A replica is a record                *)
(*   items     id -> [in, left, right, val], everything integrated         *)
(*   seq       branch -> its items in list order, deleted ones included    *)
(*   dead      the deleted items                                           *)
(*   pend      items that wait for items they are placed next to or inside *)
(*   pendDels  deletions of items that are not there yet                   *)
(* One character is one item and one unit of every offset.                 *)
(***************************************************************************)
EXTENDS BlockDoc

CONSTANT Span      \* more than the items any client writes
ASSUME SpanAssumption == Span \in Nat \ {0}

Nothing == [x \in {} |-> x]
Blank == [items |-> Nothing, seq |-> Nothing, dead |-> {}, pend |-> Nothing, pendDels |-> {}]

RootArray == <<Root, "kids">>
Array(m) == <<m, "kids">>
TextOf(m) == <<m, "text">>
TypeOf(m) == <<m, "type">>
AttrsOf(m) == <<m, "attr">>

ClientOf(id) == id \div Span
Reach(y, c) == Cardinality({i \in DOMAIN y.items : ClientOf(i) = c})
NextItem(y, c) == Span * c + Reach(y, c)

ItemsIn(y, br) == IF br \in DOMAIN y.seq THEN y.seq[br] ELSE <<>>
Live(y, br) == SelectSeq(ItemsIn(y, br), LAMBDA i : i \notin y.dead)
Values(y, ids) == [k \in DOMAIN ids |-> y.items[ids[k]].val]

\* What a block map says: its block id, its type and its attribute. The map's
\* own item carries the id and the type it was written with.
BlockId(y, m) == y.items[m].val.id
KindOf(y, m) == LET s == ItemsIn(y, TypeOf(m))
                IN  IF s = <<>> THEN y.items[m].val.kind ELSE y.items[Last(s)].val
AttrOf(y, m) == LET s == Live(y, AttrsOf(m)) IN IF s = <<>> THEN 0 ELSE y.items[Last(s)].val

\* The items and everything nested in the block maps among them.
RECURSIVE Within(_, _)
Within(y, ids) == IF ids = {} THEN {}
                  ELSE ids \cup Within(y, {i \in DOMAIN y.items : y.items[i].in[1] \in ids})
Delete(y, ids) == [y EXCEPT !.dead = @ \cup Within(y, ids)]

\* Adding an item after the first `at` of its branch. A key of a map keeps
\* only its last item; what is put into a deleted map is deleted with it.
Place(y, id, item, at) ==
    LET s == SpliceSeq(ItemsIn(y, item.in), at, 0, <<id>>)
        overwritten == IF item.in[2] \in {"type", "attr"} THEN ToSet(Front(s)) ELSE {}
        buried == IF item.in[1] \in y.dead THEN {id} ELSE {}
    IN  [y EXCEPT !.items = (id :> item) @@ @, !.seq = (item.in :> s) @@ @,
                  !.dead = @ \cup overwritten \cup buried]

\* A local insertion before the live item of that index, after the deleted
\* items that precede it.
Insert(y, c, br, index, val) ==
    LET s == ItemsIn(y, br)
        live == Live(y, br)
        at == IF index = Len(live) THEN Len(s) ELSE PlaceIn(s, live[index + 1]) - 1
    IN  Place(y, NextItem(y, c),
              [in |-> br, left |-> IF at = 0 THEN 0 ELSE s[at],
               right |-> IF at = Len(s) THEN 0 ELSE s[at + 1], val |-> val], at)

\* A local write of a map's key.
SetKey(y, c, br, val) == Insert(y, c, br, Len(Live(y, br)), val)

InsertAll(y, c, br, index, vals) ==
    FoldLeft(LAMBDA to, k : Insert(to, c, br, index + k - 1, vals[k]), y, [k \in DOMAIN vals |-> k])

\* Integrating another client's item between its two neighbours: concurrent
\* items at one place go in the order of their clients, each with what its
\* own client put behind it.
Integrate(y, id, item) ==
    LET s == ItemsIn(y, item.in)
        end == IF item.right = 0 THEN Len(s) ELSE PlaceIn(s, item.right) - 1
        Look(scan, o) ==
          LET seen == scan.seen \cup {o}
              clash == scan.clash \cup {o}
              Past == [at |-> PlaceIn(s, o), seen |-> seen, clash |-> {}, stop |-> FALSE]
              Along == [scan EXCEPT !.seen = seen, !.clash = clash]
              Stop == [scan EXCEPT !.stop = TRUE]
              other == y.items[o]
          IN  IF scan.stop THEN scan
              ELSE IF other.left = item.left
                   THEN IF ClientOf(o) < ClientOf(id) THEN Past
                        ELSE IF other.right = item.right THEN Stop ELSE Along
              ELSE IF other.left \in seen THEN IF other.left \in clash THEN Along ELSE Past
              ELSE Stop
        start == PlaceIn(s, item.left)
        found == FoldLeft(Look, [at |-> start, seen |-> {}, clash |-> {}, stop |-> FALSE],
                          SubSeq(s, start + 1, end))
    IN  Place(y, id, item, found.at)

-----------------------------------------------------------------------------
(* Updates: items and deletions.                                           *)

Update(items, dels) == [items |-> items, dels |-> dels]
\* What a transaction that turned one replica into the other produced.
Delta(before, after) ==
    Update([i \in DOMAIN after.items \ DOMAIN before.items |-> after.items[i]],
           after.dead \ before.dead)
\* Everything a replica that has reached that far is missing.
MissingFrom(y, other) ==
    Update([i \in {i \in DOMAIN y.items : i % Span >= Reach(other, ClientOf(i))} |-> y.items[i]], y.dead)
IsEmpty(u) == DOMAIN u.items = {} /\ u.dels = {}
Knows(y, u) == DOMAIN u.items \subseteq DOMAIN y.items /\ u.dels \subseteq y.dead

Integrable(y, id) ==
    /\ id % Span = Reach(y, ClientOf(id))
    /\ {y.pend[id].left, y.pend[id].right, y.pend[id].in[1]} \subseteq DOMAIN y.items \cup {0}

RECURSIVE Settle(_)
Settle(y) ==
    LET can == {i \in DOMAIN y.pend : Integrable(y, i)}
        Take(i) == Integrate([y EXCEPT !.pend = [j \in DOMAIN @ \ {i} |-> @[j]]], i, y.pend[i])
        there == y.pendDels \cap DOMAIN y.items
    IN  IF can # {} THEN Settle(Take(CHOOSE i \in can : TRUE))
        ELSE Delete([y EXCEPT !.pendDels = @ \ there], there)

ApplyUpdate(y, u) ==
    Settle([y EXCEPT !.pend = [i \in DOMAIN u.items \ DOMAIN y.items |-> u.items[i]] @@ @,
                     !.pendDels = @ \cup u.dels])
=============================================================================
