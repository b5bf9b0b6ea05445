------------------------------- MODULE Remote -------------------------------
(***************************************************************************)
(* Remote changes: what a yrs transaction did to the shared document       *)
(* becomes steps on the model. Work is a record of the document, the       *)
(* registry, ok (FALSE once a step failed), the repairs to make, and what  *)
(* is resolved at the end: blocks to hide, containers to retype, maps to   *)
(* show. A context has the shared document before and after.               *)
(***************************************************************************)
EXTENDS Local

Do(w, applied) == IF applied.ok /\ w.ok THEN [w EXCEPT !.doc = applied.doc] ELSE Fail(w)
Working(doc, reg) ==
    [doc |-> doc, reg |-> reg, ok |-> TRUE, repairs |-> <<>>, hide |-> <<>>, retype |-> <<>>, unhide |-> <<>>]

\* The branches a transaction changed: those that were there before and are
\* still there after it, an enclosing block's before those inside it.
IsNew(cx, i) == i \notin DOMAIN cx.before.items
Died(cx, i) == ~IsNew(cx, i) /\ i \in cx.after.dead /\ i \notin cx.before.dead
RECURSIVE Depth(_, _)
Depth(y, m) == IF m = Root THEN 0 ELSE 1 + Depth(y, y.items[m].in[1])
Changed(cx) ==
    {br \in DOMAIN cx.after.seq :
        /\ br[1] \in DOMAIN cx.before.items \cup {Root} /\ br[1] \notin cx.after.dead
        /\ \E i \in ToSet(cx.after.seq[br]) : Died(cx, i) \/ (IsNew(cx, i) /\ i \notin cx.after.dead)}
BranchDepth(y, br) == 2 * Depth(y, br[1]) - (IF br[2] = "type" THEN 1 ELSE 0)
Events(cx) == SetToSortSeq(Changed(cx), LAMBDA a, b :
                 \/ BranchDepth(cx.after, a) < BranchDepth(cx.after, b)
                 \/ BranchDepth(cx.after, a) = BranchDepth(cx.after, b) /\ a[1] < b[1]
                 \/ BranchDepth(cx.after, a) = BranchDepth(cx.after, b) /\ a[1] = b[1] /\ a[2] = "text" /\ b[2] # "text")

-----------------------------------------------------------------------------
(* The first pass: text, types and attributes.                              *)

TextChanged(cx, w, m) ==
    LET b == w.reg.owners[m].of
        Op(at, i) ==
          IF IsNew(cx, i) /\ i \notin cx.after.dead
          THEN [w |-> Do(at.w, InsertInline(at.w.doc, InsertInlineStep(b, at.offset, <<cx.after.items[i].val>>))),
                offset |-> at.offset + 1]
          ELSE IF Died(cx, i)
          THEN [at EXCEPT !.w = Do(@, RemoveInline(@.doc, RemoveInlineStep(b, at.offset, at.offset + 1)))]
          ELSE IF i \in cx.after.dead THEN at
          ELSE [at EXCEPT !.offset = @ + 1]
    IN  IF ~IsShownMap(w.reg, m) THEN w
        ELSE FoldLeft(Op, [w |-> w, offset |-> 0], ItemsIn(cx.after, TextOf(m))).w

\* Whether b may take the kind where it is.
FitsHere(d, b, kind) ==
    ContentOf[kind] = ContentOf[d.nodes[b].kind] /\ Allows(ParentKind(d, Parent(d, b)), kind)

Retype(cx, w, b) ==
    LET m == MapOf(w, b)
        kind == KindOf(cx.after, m)
        attr == AttrOf(cx.after, m)
        old == w.doc.nodes[b]
    IN  IF b \notin Blocks(w.doc) THEN Fail(w)
        ELSE IF old.kind = kind /\ old.attr = attr THEN w
        ELSE IF ~FitsHere(w.doc, b, kind) THEN [w EXCEPT !.hide = Append(@, b)]
        ELSE IF old.kind # kind /\ ContentOf[kind] = "blocks" THEN [w EXCEPT !.retype = Append(@, b)]
        ELSE Do(w, SetBlock(w.doc, SetBlockStep(b, kind, attr)))

\* The attributes of a hidden map are nobody's; its type may make it valid.
MapChanged(cx, w, br) ==
    LET m == br[1]
    IN  IF m \notin DOMAIN w.reg.owners THEN w
        ELSE IF IsShownMap(w.reg, m) THEN Retype(cx, w, w.reg.owners[m].of)
        ELSE IF br[2] = "attr" THEN w
        ELSE [w EXCEPT !.unhide = Append(@, [map |-> m, parent |-> w.reg.owners[m].of])]

-----------------------------------------------------------------------------
(* The plan: the blocks removed and the maps inserted, each anchored after  *)
(* the map it follows in the final array, 0 for the start.                  *)

EmptyPlan == [removed |-> <<>>, inserts |-> <<>>]
Incoming(p, m, anchor) == [parent |-> p, map |-> m, anchor |-> anchor]

\* From the delta, whose positions are the model's when nothing is hidden.
PlanDelta(cx, w, p, plan) ==
    LET children == Kids(w.doc, p)
        Op(at, i) ==
          IF IsNew(cx, i) /\ i \notin cx.after.dead
          THEN [at EXCEPT !.plan.inserts = Append(@, Incoming(p, i, at.anchor)), !.anchor = i]
          ELSE IF ~IsNew(cx, i) /\ i \notin cx.before.dead
          THEN IF at.cursor = Len(children) THEN [at EXCEPT !.w = Fail(@)]
               ELSE IF i \in cx.after.dead
               THEN [at EXCEPT !.plan.removed = Append(@, children[at.cursor + 1]), !.cursor = @ + 1]
               ELSE [at EXCEPT !.anchor = MapOf(w, children[at.cursor + 1]), !.cursor = @ + 1]
          ELSE at
        done == FoldLeft(Op, [w |-> w, plan |-> plan, cursor |-> 0, anchor |-> 0],
                         ItemsIn(cx.after, ArrayOf(w, p)))
    IN  [w |-> done.w, plan |-> done.plan]

\* By walking the final array, when it holds hidden maps: the delta counts
\* them and the model does not.
PlanWalk(cx, w, p, plan) ==
    LET array == ArrayOf(w, p)
        Step(at, i) ==
          IF IsNew(cx, i) THEN [at EXCEPT !.inserts = Append(@, Incoming(p, i, at.anchor)), !.anchor = i]
          ELSE IF IsShownMap(w.reg, i) THEN [at EXCEPT !.kept = @ \cup {w.reg.owners[i].of}, !.anchor = i]
          ELSE [at EXCEPT !.hidden = @ + 1]
        seen == FoldLeft(Step, [inserts |-> plan.inserts, kept |-> {}, anchor |-> 0, hidden |-> 0],
                         Live(cx.after, array))
        gone == SelectSeq(ItemsIn(cx.after, array), LAMBDA i : Died(cx, i))
        forgot == FoldLeft(ForgetHidden, w.reg, gone)
    IN  [w    |-> [w EXCEPT !.reg = SetUnmirrored(forgot, p, seen.hidden)],
         plan |-> [removed |-> plan.removed \o SelectSeq(Kids(w.doc, p), LAMBDA b : b \notin seen.kept),
                   inserts |-> seen.inserts]]

PlanArray(cx, w, m, plan) ==
    IF m # Root /\ ~IsShownMap(w.reg, m) THEN [w |-> w, plan |-> plan]
    ELSE LET p == IF m = Root THEN Root ELSE w.reg.owners[m].of
         IN  IF IsMirrored(w.reg, p) THEN PlanDelta(cx, w, p, plan) ELSE PlanWalk(cx, w, p, plan)

-----------------------------------------------------------------------------
(* Changing the model and the registry together.                            *)

RemoveBlock(w, b) ==
    LET p == Parent(w.doc, b)
        step == RemoveBlocksStep(p, IndexInParent(w.doc, b) - 1, 1)
    IN  IF b \notin Blocks(w.doc) THEN Fail(w)
        ELSE [Do(w, RemoveBlocks(w.doc, step)) EXCEPT !.reg = Forget(@, Subtree(w.doc, b))]

\* hide: stop showing b; its map stays in its array.
Hide(w, b) ==
    IF ~IsShared(w, b) THEN Fail(w)
    ELSE [RemoveBlock(w, b) EXCEPT !.reg = InsertHidden(@, w.reg.blocks[b].map, w.reg.blocks[b].parent)]

\* evict: b lost its id to another map; its own is deleted.
Evict(w, b) ==
    IF ~IsShared(w, b) THEN w
    ELSE [Hide(w, b) EXCEPT !.repairs = Append(@, w.reg.blocks[b])]

Inserted(w, p, index, found) ==
    Do(w, InsertBlocks(w.doc, InsertBlocksStep(p, index, Trees(found.roots, found.nodes))))

-----------------------------------------------------------------------------
(* The second pass: moves, then removals, then insertions.                  *)

\* The model index after the nearest placed map an anchor leads to.
RECURSIVE Resolve(_, _, _, _)
Resolve(w, p, anchor, anchors) ==
    IF anchor = 0 THEN 0
    ELSE IF IsShownMap(w.reg, anchor) /\ w.reg.owners[anchor].of \in ToSet(Kids(w.doc, p))
    THEN PlaceIn(Kids(w.doc, p), w.reg.owners[anchor].of)
    ELSE IF anchor \in DOMAIN anchors THEN Resolve(w, p, anchors[anchor], anchors)
    ELSE 0

\* Mutant of AnchorInArray: what followed an evicted map goes to the start.
AnchorAtStart(cx, w, p, m, anchors) == 0

\* The nearest map before m in its final array that is shown or inserted.
AnchorInArray(cx, w, p, m, anchors) ==
    LET live == Live(cx.after, ArrayOf(w, p))
        before == SelectSeq(SubSeq(live, 1, PlaceIn(live, m) - 1),
                            LAMBDA i : i \in DOMAIN anchors \/ IsShownMap(w.reg, i))
    IN  IF before = <<>> THEN 0 ELSE Last(before)

\* Reading the inserted maps whose parent survives, each on its own.
ReadInserts(cx, w, inserts, doomed, owners) ==
    LET survive == SelectSeq(inserts, LAMBDA i : i.parent = Root \/ i.parent \in Blocks(w.doc) \ doomed)
        Cx(p) == [y |-> cx.after, owners |-> owners, doc |-> w.doc, reg |-> w.reg, doomed |-> doomed, target |-> p]
        ReadOne(at, i) ==
          LET got == Read(Cx(i.parent), NoneFound, at.claims, <<InBlock(i.map, i.parent, ParentKind(w.doc, i.parent))>>)
          IN  [reads |-> Append(at.reads, [insert |-> i, found |-> got.found]), claims |-> got.claims]
    IN  FoldLeft(ReadOne, [reads |-> <<>>, claims |-> NoClaims], survive)

ScannedOwners(cx, w, inserts) ==
    Owners(cx.after, {InBlock(i.map, i.parent, ParentKind(w.doc, i.parent)) : i \in ToSet(inserts)})

\* The first reading takes ids to be unique; a repeat is settled by a scan.
ReadPlan(cx, w, inserts, doomed) ==
    LET Settled(first) ==
          IF ~first.claims.repeated THEN first
          ELSE ReadInserts(cx, w, inserts, doomed, Some(ScannedOwners(cx, w, inserts)))
    IN  Settled(ReadInserts(cx, w, inserts, doomed, None))

SameTree(d, found) ==
    \A b \in DOMAIN found.nodes :
        /\ b \in Blocks(d)
        /\ [x \in DOMAIN found.nodes[b] \ {"parent"} |-> found.nodes[b][x]] =
           [x \in DOMAIN found.nodes[b] \ {"parent"} |-> d.nodes[b][x]]

\* A removed block inserted again unchanged has moved.
MoveBlock(w, read, anchors) ==
    LET b == read.found.roots[1]
        from == Parent(w.doc, b)
        index == IndexInParent(w.doc, b) - 1
        to == read.insert.parent
        raw == Resolve(w, to, read.insert.anchor, anchors)
        step == MoveBlocksStep(from, index, 1, to, IF from = to /\ index < raw THEN raw - 1 ELSE raw)
    IN  [Do(w, MoveBlocks(w.doc, step)) EXCEPT
            !.reg = Register(Forget(@, DOMAIN read.found.nodes), read.found),
            !.repairs = @ \o read.found.losers]

ApplyMoves(w, reads, doomed, anchors) ==
    LET Each(at, read) ==
          LET moves == read.found.roots # <<>> /\ read.found.roots[1] \in at.doomed /\ SameTree(at.w.doc, read.found)
          IN  IF moves THEN [at EXCEPT !.w = MoveBlock(@, read, anchors), !.doomed = @ \ DOMAIN read.found.nodes]
              ELSE [at EXCEPT !.rest = Append(@, read)]
    IN  FoldLeft(Each, [w |-> w, rest |-> <<>>, doomed |-> doomed], reads)

\* Consecutive insertions into one parent are one step; registering waits for
\* it, so a run is placed where its first map was anchored.
Flush(b) ==
    IF b.reads = <<>> THEN b
    ELSE LET roots == FlattenSeq([k \in DOMAIN b.reads |-> b.reads[k].roots])
             nodes == FoldLeft(LAMBDA all, read : read.nodes @@ all, Nothing, b.reads)
             step == InsertBlocksStep(b.parent, b.index, Trees(roots, nodes))
         IN  [b EXCEPT !.reads = <<>>, !.last = 0,
                       !.w = [Do(@, InsertBlocks(@.doc, step)) EXCEPT !.reg = FoldLeft(Register, @, b.reads)]]

InsertRead(batch, read, anchors) ==
    LET i == read.insert
        noted == [batch EXCEPT !.w.repairs = @ \o read.found.losers]
        continues == batch.parent = i.parent /\ batch.last # 0 /\ i.anchor = batch.last
        Add(b) == [b EXCEPT !.reads = Append(@, read.found), !.last = i.map]
        Start(b) == [b EXCEPT !.parent = i.parent, !.index = Resolve(b.w, i.parent, i.anchor, anchors)]
    IN  IF read.found.roots = <<>> THEN [noted EXCEPT !.w.reg = InsertHidden(@, i.map, i.parent)]
        ELSE IF continues THEN Add(noted) ELSE Add(Start(Flush(noted)))

Execute(cx, w, plan) ==
    LET doomed == UNION {Subtree(w.doc, b) : b \in ToSet(plan.removed)}
        anchors == FoldLeft(LAMBDA all, i : (i.map :> i.anchor) @@ all, Nothing, plan.inserts)
        RemoveDoomed(at, b) ==
          IF b \in at.doomed /\ b \in Blocks(at.w.doc) THEN [at EXCEPT !.w = RemoveBlock(@, b)] ELSE at
        EvictOne(at, b) ==
          IF ~IsShared(at.w, b) THEN at
          ELSE LET block == at.w.reg.blocks[b]
                   anchor == AnchorInArray(cx, at.w, block.parent, block.map, at.anchors)
               IN  [at EXCEPT !.w = Evict(@, b), !.anchors = (block.map :> anchor) @@ @]
        Insertions(at, rest) ==
          Flush(FoldLeft(LAMBDA batch, read : InsertRead(batch, read, at.anchors),
                         [w |-> at.w, parent |-> Root, index |-> 0, last |-> 0, reads |-> <<>>], rest)).w
        Removals(moved, evicted) ==
          Insertions(FoldLeft(EvictOne, [w |-> FoldLeft(RemoveDoomed, moved, plan.removed).w, anchors |-> anchors],
                              evicted), moved.rest)
        Moves(got) == Removals(ApplyMoves(w, got.reads, doomed, anchors), got.claims.evicted)
    IN  Moves(ReadPlan(cx, w, plan.inserts, doomed))

-----------------------------------------------------------------------------
(* The last pass: what is visible now.                                      *)

\* unhide: show the hidden map m inside p if it is valid now.
Unhide(y, w, m, p) ==
    LET pk == ParentKind(w.doc, p)
        cx == [y |-> y, owners |-> Some(Owners(y, {InBlock(m, p, pk)})), doc |-> w.doc, reg |-> w.reg,
               doomed |-> {}, target |-> p]
        live == Live(y, ArrayOf(w, p))
        ShownBefore(reg) == Cardinality({i \in 1..PlaceIn(live, m) - 1 : IsShownMap(reg, live[i])})
        Show(evicted, found) ==
          [Inserted(evicted, p, ShownBefore(evicted.reg), found) EXCEPT !.reg = Register(RemoveHidden(@, m), found)]
        Took(got) ==
          LET noted == [w EXCEPT !.repairs = @ \o got.found.losers]
          IN  IF got.found.roots = <<>> THEN noted
              ELSE Show(FoldLeft(Evict, noted, got.claims.evicted), got.found)
    IN  IF ~w.ok \/ ~Owns(w.reg, m, Hidden(p)) \/ ~(p = Root \/ p \in Blocks(w.doc)) THEN w
        ELSE IF m \in y.dead THEN [w EXCEPT !.reg = RemoveHidden(@, m)]
        ELSE Took(Read(cx, NoneFound, NoClaims, <<InBlock(m, p, pk)>>))

UnhideAll(y, w, b) ==
    FoldLeft(LAMBDA to, m : Unhide(y, to, m, b), w, SetToSortSeq(HiddenIn(w.reg, b), <))

\* A container's new type: hide the children it no longer allows, show the
\* hidden ones it allows now.
RetypeContainer(cx, w, b) ==
    LET m == MapOf(w, b)
        kind == KindOf(cx.after, m)
        HideUnfit(to, child) == IF to.doc.nodes[child].kind \in AllowedIn[kind] THEN to ELSE Hide(to, child)
        Typed(hid) == Do(hid, SetBlock(hid.doc, SetBlockStep(b, kind, AttrOf(cx.after, m))))
    IN  UnhideAll(cx.after, Typed(FoldLeft(HideUnfit, w, Kids(w.doc, b))), b)

ResolveLater(cx, w) ==
    LET IfShown(Change(_, _), to, b) == IF b \in Blocks(to.doc) THEN Change(to, b) ELSE to
        hid == FoldLeft(LAMBDA to, b : IfShown(Hide, to, b), w, w.hide)
        typed == FoldLeft(LAMBDA to, b : IfShown(LAMBDA at, c : RetypeContainer(cx, at, c), to, b), hid, w.retype)
    IN  FoldLeft(LAMBDA to, h : Unhide(cx.after, to, h.map, h.parent), typed, w.unhide)

\* Remote::translate: everything one transaction changed.
Translated(doc, reg, before, after) ==
    LET cx == [before |-> before, after |-> after]
        Event(at, br) ==
          CASE br[2] = "text" -> [at EXCEPT !.w = TextChanged(cx, @, br[1])]
            [] br[2] = "kids" -> PlanArray(cx, at.w, br[1], at.plan)
            [] OTHER          -> [at EXCEPT !.w = MapChanged(cx, @, br)]
        Finish(at) == ResolveLater(cx, Execute(cx, at.w, at.plan))
    IN  Finish(FoldLeft(Event, [w |-> Working(doc, reg), plan |-> EmptyPlan], Events(cx)))

\* reveal: what the new types of containers allow after a local commit.
Reveal(doc, reg, y, retyped) == FoldLeft(LAMBDA w, b : UnhideAll(y, w, b), Working(doc, reg), retyped)
=============================================================================
