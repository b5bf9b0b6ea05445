------------------------------- MODULE Collab -------------------------------
(***************************************************************************)
(* Several editors over one shared document: the bindings of               *)
(* canvist_collab. Every peer has a document and a replica of the shared   *)
(* document, and its binding keeps each the mirror of the other. A peer's  *)
(* updates reach every other peer once, in any order, or all together when *)
(* two peers sync; nothing is lost for good.                               *)
(*                                                                         *)
(* A story is a document to start from, what each peer may do to it, how   *)
(* often, and who joins later. Peer 1 seeds the shared document.           *)
(***************************************************************************)
EXTENDS Remote

CONSTANT Stories

VARIABLES
    story,     \* the story being told
    peers,     \* peer -> [doc, y, reg, held, commits, joined, ok]
    wire,      \* peer -> the updates on their way to it
    removed,   \* the blocks a commit took away (history)
    erased     \* the characters a commit took away (history)

vars == <<story, peers, wire, removed, erased>>

Peers == DOMAIN story.may

\* Documents are kept without the revisions and counters of BlockDoc.
Open(content) ==
    [nodes |-> [b \in DOMAIN content.nodes |-> content.nodes[b] @@ [rev |-> 0]],
     root |-> content.root, next |-> 1, version |-> 0, saves |-> <<>>]
CharsOf(d) == UNION {ToSet(Text(d, b)) : b \in Blocks(d)}

-----------------------------------------------------------------------------
(* What an editor commits: the steps of each edit on its document. New      *)
(* blocks and characters get numbers of their own.                          *)

StepsOf(d, e, fresh) ==
    LET b == e.block
        p == Parent(d, b)
        index == IndexInParent(d, b)
        next == Kids(d, p)[index + 1]
    IN  CASE e.do = "type"   -> <<InsertInlineStep(b, e.at, <<fresh>>)>>
          [] e.do = "erase"  -> <<RemoveInlineStep(b, e.at, e.at + 1)>>
          [] e.do = "split"  -> <<SplitStep(b, e.at, fresh, d.nodes[b].kind, d.nodes[b].attr)>>
          [] e.do = "carve"  -> <<SplitStep(b, e.at, fresh, d.nodes[b].kind, d.nodes[b].attr),
                                  MoveBlocksStep(p, index, 1, p, 0)>>
          [] e.do = "join"   -> <<JoinStep(b, next)>>
          [] e.do = "across" -> <<RemoveInlineStep(b, e.at, TextLen(d, b)), RemoveInlineStep(next, 0, e.at),
                                  JoinStep(b, next)>>
          [] e.do = "insert" -> <<InsertBlocksStep(p, index, FreshTree(fresh, e.kind))>>
          [] e.do = "remove" -> <<RemoveBlocksStep(p, index - 1, 1)>>
          [] e.do = "move"   -> <<MoveBlocksStep(p, index - 1, 1, e.to, e.at)>>
          [] e.do = "wrap"   -> <<InsertBlocksStep(p, index - 1, FreshTree(fresh, e.kind)),
                                  MoveBlocksStep(p, index, 1, fresh, 0)>>
          [] e.do = "set"    -> <<SetBlockStep(b, e.kind, e.attr)>>
          [] e.do = "sets"   -> <<SetBlockStep(b, e.kind, e.attr), SetBlockStep(e.other, e.kind, e.attr)>>

Applicable(d, e) ==
    /\ e.block \in Blocks(d)
    /\ e.do \in {"join", "across"} => IndexInParent(d, e.block) < Len(Kids(d, Parent(d, e.block)))

Run(d, steps) ==
    LET Next(at, s) ==
          LET done == Perform(at.doc, s)
          IN  IF at.ok /\ done.ok
              THEN [at EXCEPT !.doc = done.doc, !.inverses = Append(@, done.inverse)] ELSE [at EXCEPT !.ok = FALSE]
    IN  FoldLeft(Next, [ok |-> TRUE, doc |-> d, inverses |-> <<>>], steps)

-----------------------------------------------------------------------------
(* The binding.                                                             *)

\* Sending what a transaction produced to everyone else.
Sent(p, before, middle, after) ==
    LET out == {u \in {Delta(before, middle), Delta(middle, after)} : ~IsEmpty(u)}
    IN  [q \in Peers |-> IF q = p THEN wire[q] ELSE wire[q] \cup out]

\* apply_local: the commit, then what a retyped container reveals, then the
\* repairs that calls for.
ApplyLocal(p, steps, ran) ==
    LET me == peers[p]
        Settled(w, y) ==
          LET fixed == Repair(y, w.reg, w.repairs)
          IN  /\ peers' = [peers EXCEPT ![p] = [@ EXCEPT !.doc = Content(w.doc), !.y = fixed.y, !.reg = fixed.reg,
                                                         !.commits = @ + 1, !.ok = @ /\ w.ok]]
              /\ wire' = Sent(p, me.y, y, fixed.y)
        Revealed(t) ==
          Settled(IF t.ok /\ t.retyped # <<>> THEN Reveal(ran.doc, t.reg, t.y, t.retyped)
                  ELSE [Working(ran.doc, t.reg) EXCEPT !.ok = t.ok], t.y)
    IN  Revealed(TranslateCommit(me.y, me.reg, p, ran.doc, steps, ran.inverses))

Commit(p, e) ==
    LET me == peers[p]
        d == Open(me.doc)
        Made(steps, ran) ==
          /\ ran.ok
          /\ ApplyLocal(p, steps, ran)
          /\ removed' = removed \cup (Blocks(d) \ Blocks(ran.doc))
          /\ erased' = erased \cup (CharsOf(d) \ CharsOf(ran.doc))
        With(steps) == Made(steps, Run(d, steps))
    IN  /\ me.joined /\ me.ok /\ me.commits < story.commits[p]
        /\ Applicable(d, e)
        /\ With(StepsOf(d, e, 10 * p + me.commits))
        /\ UNCHANGED story

\* Reorder::is_ready: the update continues the history of each of its clients,
\* and what it deletes is there or comes with it.
IsReady(y, u) ==
    LET clients == {ClientOf(i) : i \in DOMAIN u.items}
        First(c) == Min({i % Span : i \in {i \in DOMAIN u.items : ClientOf(i) = c}})
    IN  /\ \A c \in clients : First(c) <= Reach(y, c)
        /\ \A i \in u.dels : i \in DOMAIN u.items \/ i % Span < Reach(y, ClientOf(i))

\* integrate_ready: every held update that can be applied, in one transaction.
RECURSIVE IntegrateReady(_, _)
IntegrateReady(y, held) ==
    LET ready == {u \in held : IsReady(y, u)}
        Take(u) == IntegrateReady(ApplyUpdate(y, u), held \ {u})
    IN  IF ready = {} THEN [y |-> y, held |-> held] ELSE Take(CHOOSE u \in ready : TRUE)

\* apply_update: hold it, integrate what is ready, mirror what that changed.
Receive(q, u, rest) ==
    LET me == peers[q]
        Repaired(w, got) ==
          LET fixed == Repair(got.y, w.reg, w.repairs)
              sent == Sent(q, got.y, got.y, fixed.y)
          IN  /\ peers' = [peers EXCEPT ![q] = [@ EXCEPT !.doc = Content(w.doc), !.y = fixed.y, !.reg = fixed.reg,
                                                         !.held = got.held, !.ok = @ /\ w.ok]]
              /\ wire' = [sent EXCEPT ![q] = {v \in rest : ~Knows(fixed.y, v)}]
        Mirrored(got) == Repaired(Translated(Open(me.doc), me.reg, me.y, got.y), got)
    IN  Mirrored(IntegrateReady(me.y, me.held \cup {u}))

Deliver(q, u) ==
    /\ peers[q].joined /\ peers[q].ok
    /\ u \in wire[q]
    /\ Receive(q, u, wire[q] \ {u})
    /\ UNCHANGED <<story, removed, erased>>

\* The second step of a sync: everything q is missing of what p has.
Sync(q, p) ==
    /\ story.syncs /\ p # q /\ peers[q].joined /\ peers[p].joined /\ peers[q].ok
    /\ ~Knows(peers[q].y, MissingFrom(peers[p].y, peers[q].y))
    /\ Receive(q, MissingFrom(peers[p].y, peers[q].y), wire[q])
    /\ UNCHANGED <<story, removed, erased>>

\* A peer that joins takes p's whole state and builds its document from it.
JoinIn(q, p) ==
    LET Built(y, built) ==
          LET fixed == Repair(y, built.reg, built.repairs)
          IN  /\ peers' = [peers EXCEPT ![q] = [@ EXCEPT !.doc = Content(built.doc), !.y = fixed.y, !.reg = fixed.reg,
                                                         !.joined = TRUE]]
              /\ wire' = [Sent(q, y, y, fixed.y) EXCEPT ![q] = {v \in @ : ~Knows(fixed.y, v)}]
        From(y) == Built(y, Document(y))
    IN  /\ ~peers[q].joined /\ peers[p].joined /\ p # q
        /\ From(ApplyUpdate(Blank, MissingFrom(peers[p].y, Blank)))
        /\ UNCHANGED <<story, removed, erased>>

-----------------------------------------------------------------------------
Init ==
    /\ story \in Stories
    /\ LET seeded == Seed(Blank, 1, story.doc)
           y == ApplyUpdate(Blank, Delta(Blank, seeded.y))
           Fresh(p) ==
             [doc |-> IF p \in story.late THEN Content(EmptyDoc) ELSE Content(story.doc),
              y |-> IF p \in story.late THEN Blank ELSE IF p = 1 THEN seeded.y ELSE y,
              reg |-> IF p \in story.late THEN NoRegistry ELSE IF p = 1 THEN seeded.reg ELSE Document(y).reg,
              held |-> {}, commits |-> 0, joined |-> p \notin story.late, ok |-> TRUE]
       IN  peers = [p \in DOMAIN story.may |-> Fresh(p)]
    /\ wire = [p \in DOMAIN story.may |-> {}]
    /\ removed = {} /\ erased = {}

Next ==
    \/ \E p \in Peers : \E e \in story.may[p] : Commit(p, e)
    \/ \E q \in Peers : \E u \in wire[q] : Deliver(q, u)
    \/ \E q, p \in Peers : Sync(q, p)
    \/ \E q, p \in Peers : JoinIn(q, p)

Spec == Init /\ [][Next]_vars

-----------------------------------------------------------------------------
\* Every update arrived and everybody has the document.
Quiet == \A p \in Peers : wire[p] = {} /\ peers[p].joined

\* No binding fails: the steps translated from what others did, planned on a
\* document that moves, evictions and removals change as they go, all apply,
\* and every commit finds its blocks in arrays that also hold hidden maps
\* (remote/mod.rs translate, local.rs). What an editor shows, and the registry
\* that got it there, are what building both from the shared document would
\* give (mirror.rs document), with no copy left to delete: no hidden block that
\* could be shown, no count, owner or parent that a changed type, a move or an
\* eviction left behind (registry.rs, remote/plan.rs).
ReplicasMirror ==
    \A p \in Peers : peers[p].joined =>
        LET built == Document(peers[p].y)
        IN  /\ peers[p].ok
            /\ Content(built.doc) = peers[p].doc
            /\ built.reg = peers[p].reg
            /\ built.repairs = <<>>

\* Whatever the order updates came in, held, merged or fetched by a sync, and
\* though every peer makes its own repairs, once nothing is on its way all
\* have the same shared document and show the same blocks, and no update is
\* still held or pending (reorder.rs, sync.rs, mirror.rs repair).
PeersConverge ==
    Quiet => \A p, q \in Peers :
        /\ peers[p].held = {} /\ DOMAIN peers[p].y.pend = {} /\ peers[p].y.pendDels = {}
        /\ peers[p].y.seq = peers[q].y.seq /\ peers[p].y.dead = peers[q].y.dead
        /\ peers[p].doc = peers[q].doc

Written(y, slot) == {i \in DOMAIN y.items : y.items[i].in[2] = slot}
BlocksIn(y, ids) == {BlockId(y, i) : i \in Written(y, "kids") \cap ids}
CharsIn(y, ids) == {y.items[i].val : i \in Written(y, "text") \cap ids}
LiveIn(y) == DOMAIN y.items \ y.dead

\* Stories of two peers in which no container is taken from its place and the
\* peer whose copies lose commits once, and stories in which no text is taken.
\* The copy of a moved container has what was in it when it was moved, and
\* misses what others put there meanwhile (lib.rs "Moving a block").
Edits == UNION {story.may[p] : p \in Peers}
ContainersStay ==
    /\ Peers = 1..2 /\ story.commits[2] = 1
    /\ \A e \in Edits : e.do \in {"move", "remove", "wrap"} =>
                          ContentOf[story.doc.nodes[e.block].kind] = "inline"
TextStays == \A e \in Edits : e.do \in {"type", "erase", "insert", "set", "split"}

\* Concurrent edits lose nothing by themselves: a block that no commit removed
\* is still in the shared document of every peer, if hidden, however many
\* copies of it concurrent moves wrote and repairs deleted (claims.rs,
\* remote/plan.rs); and so is the text that no commit erased, though a split
\* deletes the tail another peer is typing in and writes a copy (local.rs).
EditsSurvive ==
    Quiet => \A p \in Peers : LET y == peers[p].y IN
        /\ ContainersStay => BlocksIn(y, DOMAIN y.items) \ removed \subseteq BlocksIn(y, LiveIn(y))
        /\ TextStays => CharsIn(y, DOMAIN y.items) \ erased \subseteq CharsIn(y, LiveIn(y))

-----------------------------------------------------------------------------
(* What documentation and tests say and the code does not do.               *)

\* "The binding therefore hands yrs an update only once every client's earlier
\* changes it builds on, including the items it deletes, are already in the
\* document" (reorder.rs), and concurrent moves of one block keep one copy
\* (tests/scenarios.rs): in a story of moves every block keeps a copy.
MovesKeepACopy ==
    Quiet => \A p \in Peers : LET y == peers[p].y IN BlocksIn(y, DOMAIN y.items) \subseteq BlocksIn(y, LiveIn(y))

\* "Of the copies the model can show, the one with the smallest yrs item id
\* keeps the block and the others are deleted" (lib.rs), so mirroring and
\* repairing what an update brought leaves a copy of every block it left.
RepairsLeaveACopy ==
    [][\A q \in Peers : \A u \in wire[q] :
          Deliver(q, u) =>
             LET y == IntegrateReady(peers[q].y, peers[q].held \cup {u}).y
             IN  BlocksIn(y, LiveIn(y)) \subseteq BlocksIn(peers'[q].y, LiveIn(peers'[q].y))]_vars

\* rejected_blocks says "how many items in the shared document's block arrays
\* the model hides" (binding.rs).
RejectedIsExact ==
    \A p \in Peers : peers[p].joined => RejectedBlocks(peers[p].reg) = RejectedBlocks(Document(peers[p].y).reg)
=============================================================================
