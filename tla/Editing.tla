------------------------------ MODULE Editing ------------------------------
(***************************************************************************)
(* The editor of canvist_core: every local update runs through finish,     *)
(* which lets extensions fix the document up, lets filters refuse the      *)
(* update and records it in the undo history. On top of it: input rules    *)
(* and their undo, key bindings, all-or-nothing chains, dry runs, undo and *)
(* redo, IME composition, selections and the edits of collaborators.       *)
(*                                                                         *)
(* Two extensions stand for the kinds there are: TrailingNode for fix-ups  *)
(* and CharacterCount for filters. One input rule turns a block whose text *)
(* before the caret is RulePrefix into RuleKind when RuleText is typed.    *)
(* The clock is a choice made with each edit: soon says that the edit came *)
(* within the group delay of the one before.                               *)
(***************************************************************************)
EXTENDS Commands, Slices

CONSTANTS
    Setups,         \* the editors there are, each opened on a document: records
                    \*   starts     the states it may open with
                    \*   bindings   its key bindings: sequences of commands, tried in order
                    \*   chains     the command sequences run as one update
                    \*   texts      what is typed, and what an input method shows
                    \*   remote     the steps collaborators send
                    \*   clips      slices copied elsewhere: plain text, other documents
                    \*   selections the selections a pointer makes
                    \*   limit      the character limit
                    \*   edits      bound: the calls made to the editor
    Command(_, _),  \* what running a command registered by an extension gives
    RulePrefix, RuleText, RuleKind,
    Depth,          \* the most undo steps kept
    Trailing        \* whether a trailing paragraph is kept

ASSUME EditorAssumption ==
    /\ Depth \in Nat \ {0} /\ Trailing \in BOOLEAN
    /\ \A i \in DOMAIN Setups : Setups[i].limit \in Nat /\ Setups[i].edits \in Nat

VARIABLES
    setup,          \* which of the setups this editor has
    state,          \* the editor state: doc, selection, stored, composition
    done,           \* undo entries, newest last
    undone,         \* redo entries, newest last
    group,          \* the end of the newest undo group, if still open
    rule,           \* the input rule just applied, if any
    clipboard,      \* the slice last copied or cut
    edits,          \* the calls made so far
    reply           \* ghost: how the last call ended
vars == <<setup, state, done, undone, group, rule, clipboard, edits, reply>>

Setup == Setups[setup]
Ctx == [state |-> state, done |-> done, undone |-> undone, group |-> group, rule |-> rule]

-----------------------------------------------------------------------------
(* The undo history. was is a ghost: the document before the entry's       *)
(* edits, which reverting them has to bring back.                          *)

GroupOf(kind) ==
    CASE kind \in {"Typing", "Composition"} -> "typing"
      [] kind = "Deleting"                  -> "deleting"
      [] OTHER                              -> "alone"

\* UndoGrouping::joins: carries on where the open group left off.
Joins(c, u, soon) ==
    /\ c.group # None
    /\ GroupOf(u.kind) # "alone" /\ GroupOf(u.kind) = GroupOf(c.group[1].kind)
    /\ soon
    /\ u.before = c.group[1].selection

Entry(u, was) == [inverses |-> u.inverses, selection |-> u.before, after |-> u.after,
                  kind |-> u.kind, was |-> was]
Extended(entry, u) == [entry EXCEPT !.inverses = @ \o u.inverses, !.after = u.after]
Continued(entries, u) == [entries EXCEPT ![Len(entries)] = Extended(@, u)]

Pushed(entries, entry) ==
    LET all == Append(entries, entry)
    IN  IF Len(all) > Depth THEN Tail(all) ELSE all

\* UndoHistory::record.
Record(c, u, soon, was) ==
    CASE u.origin = "History" -> c
      [] u.origin = "Remote"  -> [c EXCEPT !.done = <<>>, !.undone = <<>>, !.group = None]
      [] u.origin = "Local" /\ ~DocChanged(u) -> c
      [] u.origin = "Local" /\ DocChanged(u) ->
           [c EXCEPT !.undone = <<>>,
                     !.group = Some([kind |-> u.kind, selection |-> u.after]),
                     !.done = IF Joins(c, u, soon) THEN Continued(@, u) ELSE Pushed(@, Entry(u, was))]

\* revert: the newest entry is popped first; if its steps fail it is lost.
\* Undone entries go to the redo stack and back.
Back(st, entry) == ApplyStepsTo(st, Reverse(entry.inverses), entry.kind, "History", Some(entry.selection))

Revert(c, from, to) ==
    LET st == c.state
        Swap(entry, update) ==
          [inverses |-> update.inverses, selection |-> entry.after,
           after |-> entry.selection, kind |-> entry.kind, was |-> Content(st.doc)]
        Moved(entry, r) == [result |-> r, from |-> Front(from),
                            to |-> IF r.error THEN to ELSE Append(to, Swap(entry, r.update))]
    IN  IF from = <<>> THEN [result |-> NotApplied(st), from |-> from, to |-> to]
        ELSE Moved(Last(from), Back(st, Last(from)))

-----------------------------------------------------------------------------
(* finish: the path every local update takes.                              *)

\* TrailingNode::after_update.
FixUp(st) ==
    LET d == st.doc
    IN  Change(st, NoCommit(d),
               IF ~Trailing \/ (d.root # <<>> /\ d.nodes[Last(d.root)].kind = DefaultText) THEN None
               ELSE Plan(<<InsertBlocksStep(Root, Len(d.root), FreshTree(d.next, DefaultText))>>,
                         With("Structure", st.selection)))

Folded(r) ==
    LET Fold(extra) ==
          IF extra.error THEN extra
          ELSE IF extra.applied THEN [r EXCEPT !.st = extra.st, !.update = Then(@, extra.update)]
          ELSE r
    IN  Fold(FixUp(r.st))

Sum(f) == FoldFunction(LAMBDA n, m : n + m, 0, f)
Chars(d) == Sum([b \in Blocks(d) |-> TextLen(d, b)])

\* inserted: the characters a list of steps inserts.
Inserted(steps) ==
    Sum([i \in DOMAIN steps |->
           CASE steps[i].op = "InsertInline" -> Len(steps[i].content)
             [] steps[i].op = "InsertBlocks" ->
                  Sum([b \in DOMAIN steps[i].blocks.nodes |-> Len(steps[i].blocks.nodes[b].text)])
             [] OTHER -> 0])

\* Mutant: the limit is compared with the length before the update.
AllowedBeforehand(d, u) ==
    Chars(d) - Inserted(u.steps) + Inserted(u.inverses) <= Setup.limit

\* CharacterCount's filter.
AllowedBy(d, u) == Inserted(u.steps) <= Inserted(u.inverses) \/ Chars(d) <= Setup.limit

Ended(c, how, update) == [ctx |-> c, how |-> how, update |-> update]

\* What the filters refuse is reverted, the rest recorded; was is what the
\* editor held before the update.
Take(c, fixed, local, soon, was) ==
    LET Refuse(back) == Ended([c EXCEPT !.state = back.st],
                              IF back.error THEN "error" ELSE "refused", None)
    IN  IF fixed.error THEN Ended([c EXCEPT !.state = fixed.st], "error", None)
        ELSE IF local /\ ~AllowedBy(fixed.st.doc, fixed.update)
        THEN Refuse(ApplyStepsTo(fixed.st, Reverse(fixed.update.inverses), fixed.update.kind,
                                 "History", Some(fixed.update.before)))
        ELSE Ended(Record([c EXCEPT !.state = fixed.st], fixed.update, soon, was),
                   IF local THEN "applied" ELSE "reverted", Some(fixed.update))

Finish(c, r, soon, was) ==
    LET kept == [c EXCEPT !.state = r.st, !.rule = None]
        local == r.update.origin = "Local"
    IN  IF r.error THEN Ended([c EXCEPT !.state = r.st], "error", None)
        ELSE IF ~r.applied THEN Ended(kept, "none", None)
        ELSE Take(kept, IF local THEN Folded(r) ELSE r, local, soon, was)

-----------------------------------------------------------------------------
(* Input rules, and taking the last one back.                              *)

\* apply_input_rules with one block-type rule: remove the match, set the type.
RuleApplies(st, text) ==
    LET p == st.selection.head
    IN  /\ IsCaret(st.selection) /\ st.composition = None
        /\ text = RuleText /\ IsText(st.doc, p.block)
        /\ p.offset = Len(RulePrefix)
        /\ [i \in 1..p.offset |-> Text(st.doc, p.block)[i].ch] = RulePrefix
        /\ Allows(st.doc, Parent(st.doc, p.block), RuleKind)

ApplyRule(st) ==
    LET p == st.selection.head
    IN  Plan(<<RemoveInlineStep(p.block, 0, p.offset), SetBlockStep(p.block, RuleKind, 0)>>,
             With("InputRule", Caret(Point(p.block, 0))))

\* What a reader sees of a document, whatever the ids of its blocks.
Outline(d) == [i \in DOMAIN DocOrder(d) |->
                 LET b == DocOrder(d)[i]
                 IN  [kind |-> d.nodes[b].kind, attr |-> d.nodes[b].attr, text |-> Text(d, b),
                      parent |-> OrderOf(d, Parent(d, b))]]

\* insert_text: an input rule has the first chance.
Typed(st, text) == IF RuleApplies(st, text) THEN ApplyRule(st) ELSE InsertText(st, text)

\* What plain typing at the caret makes of a document; marks toggled for the
\* text beforehand are left out of it.
PlainlyTyped(st, text) ==
    LET p == st.selection.head
        new == Plain(text, ActiveMarks([st EXCEPT !.stored = None]))
    IN  SetText(st.doc, p.block, SpliceSeq(Text(st.doc, p.block), p.offset, 0, new))

\* What is kept of the rule that made an update, to take it back; literal is a
\* ghost, what plain typing would have left.
Trace(before, after, text, update) ==
    [version |-> after.doc.version, selection |-> after.selection, typed |-> text,
     undo |-> Reverse(update.inverses), before |-> update.before,
     literal |-> Outline(PlainlyTyped(before, text))]

\* undo_input_rule: revert the rule's own steps, then type what triggered it.
RuleIsFresh(c) ==
    /\ c.rule # None
    /\ c.rule[1].version = c.state.doc.version /\ c.rule[1].selection = c.state.selection
RuleUndone(c) == ApplyStepsTo(c.state, c.rule[1].undo, "InputRule", "Local", Some(c.rule[1].before))

Retype(reverted, text) ==
    LET Both(typed) ==
          IF typed.error THEN typed
          ELSE IF typed.applied THEN [typed EXCEPT !.update = Then(reverted.update, @)]
          ELSE reverted
    IN  IF reverted.error THEN reverted
        ELSE Both(Change(reverted.st, NoCommit(reverted.st.doc), InsertText(reverted.st, text)))

\* Mutant: the rule is taken back, what triggered it is not typed.
UndoRuleOnly(c) == IF RuleIsFresh(c) THEN RuleUndone(c) ELSE NotApplied(c.state)

UndoInputRule(c) ==
    IF RuleIsFresh(c) THEN Retype(RuleUndone(c), c.rule[1].typed) ELSE NotApplied(c.state)

-----------------------------------------------------------------------------
(* Key bindings, chains and dry runs of the registered commands.           *)

\* first_applying stops at the command that applies; run_all makes one update
\* of all of them and stops at the one that does not. An error stops both.
RunNext(c, r, cmd, first, all) ==
    LET Both(next) ==
          IF all /\ r.applied /\ next.applied THEN [next EXCEPT !.update = Then(r.update, @)] ELSE next
    IN  IF r.error \/ (~first /\ r.applied # all) THEN r
        ELSE Both(Command([c EXCEPT !.state = r.st, !.rule = IF all THEN None ELSE @], cmd))

RunCommands(c, cmds, all) ==
    LET run[i \in 0..Len(cmds)] ==
          IF i = 0 THEN NotApplied(c.state) ELSE RunNext(c, run[i - 1], cmds[i], i = 1, all)
    IN  run[Len(cmds)]

RunKeyOrChain(c, call) ==
    LET chain == call.do = "chain"
        Kept(r) == IF chain THEN Atomic(c.state, r) ELSE r
    IN  Kept(RunCommands([c EXCEPT !.state = IF chain THEN Opened(@) ELSE @], call.cmds, chain))

\* Editor::can: what a dry run of the command, r, says once it is filtered;
\* fix-ups are not asked.
Can(st, r) ==
    DryRun(st, IF r.applied /\ ~AllowedBy(r.st.doc, r.update) THEN NotApplied(r.st) ELSE r)

-----------------------------------------------------------------------------
(* The calls of the editor. A call is a record: do names the operation,    *)
(* soon says whether the clock puts it within the group delay.             *)

Calls ==
    [do : {"type", "setPreedit", "commitPreedit"}, text : Setup.texts, soon : BOOLEAN]
    \cup [do : {"press"}, cmds : Setup.bindings, soon : BOOLEAN]
    \cup [do : {"cancelPreedit", "cut"}, soon : BOOLEAN]
    \cup [do : {"chain"}, cmds : Setup.chains, soon : {FALSE}]
    \cup [do : {"select"}, to : Setup.selections, soon : {FALSE}]
    \cup [do : {"paste"}, slice : {clipboard} \cup Setup.clips, soon : {FALSE}]
    \cup [do : {"undo", "redo"}, soon : {FALSE}]

\* What the calls that make one transaction do.
Planned(st, call) ==
    CASE call.do = "type"          -> Typed(st, call.text)
      [] call.do = "setPreedit"    -> ReplacePreedit(st, call.text, TRUE)
      [] call.do = "commitPreedit" -> ReplacePreedit(st, call.text, FALSE)
      [] call.do = "cancelPreedit" -> CancelComposition(st)
      [] call.do = "cut"           -> DeleteSelection(st)
      [] call.do = "select"        -> SetSelection(st, call.to)

Run(c, call) ==
    CASE call.do \in {"press", "chain"} -> RunKeyOrChain(c, call)
      [] call.do = "paste"              -> ReplaceSelection(c.state, call.slice)
      [] OTHER                          -> Change(c.state, NoCommit(c.state.doc), Planned(c.state, call))

\* Undoing and redoing move an entry from one stack to the other.
Reverting(c, redo) ==
    LET Redone(v) == [result |-> v.result, ctx |-> [c EXCEPT !.undone = v.from, !.done = v.to]]
        Undone(v) == [result |-> v.result, ctx |-> [c EXCEPT !.done = v.from, !.undone = v.to]]
        Reverted(v) == IF redo THEN Redone(v) ELSE Undone(v)
    IN  Reverted(Revert(c, IF redo THEN c.undone ELSE c.done, IF redo THEN c.done ELSE c.undone))

Outcome(c, call) ==
    IF call.do \in {"undo", "redo"} THEN Reverting(c, call.do = "redo")
    ELSE [result |-> Run(c, call), ctx |-> c]

\* The undo group is closed before a selection, a chain, an undo or a redo,
\* and after a chain; a chain that failed left it open.
Closing(c, call) ==
    IF call.do \in {"select", "chain", "undo", "redo"} THEN [c EXCEPT !.group = None] ELSE c

AfterCall(call, r, ended) ==
    CASE call.do = "chain" /\ r.error -> [ended EXCEPT !.ctx.group = group]
      [] call.do = "chain" /\ ~r.error /\ ended.how # "error" -> [ended EXCEPT !.ctx.group = None]
      [] call.do = "type" /\ ended.how = "applied" /\ RuleApplies(state, call.text) ->
           [ended EXCEPT !.ctx.rule = Some(Trace(state, ended.ctx.state, call.text, ended.update[1]))]
      [] OTHER -> ended

Init ==
    /\ setup \in DOMAIN Setups
    /\ state \in Setup.starts
    /\ done = <<>> /\ undone = <<>> /\ group = None /\ rule = None
    /\ clipboard = NoSlice
    /\ edits = 0 /\ reply = "none"

Becomes(ended) ==
    /\ edits < Setup.edits
    /\ setup' = setup
    /\ edits' = edits + 1
    /\ state' = ended.ctx.state
    /\ done' = ended.ctx.done /\ undone' = ended.ctx.undone
    /\ group' = ended.ctx.group
    /\ rule' = ended.ctx.rule
    /\ reply' = ended.how

\* A cut that is refused has still copied.
Edit(call) ==
    LET Finished(o) == AfterCall(call, o.result,
                                 Finish(o.ctx, o.result, call.soon, Content(state.doc)))
    IN  /\ Becomes(Finished(Outcome(Closing(Ctx, call), call)))
        /\ clipboard' = IF call.do = "cut" THEN SliceSelection(state) ELSE clipboard

Copy == Becomes(Ended(Ctx, "none", None)) /\ clipboard' = SliceSelection(state)

\* apply_remote: no fix-ups, no filters; the history is dropped.
ApplyRemote == \E steps \in Setup.remote :
    LET Received(r) ==
          IF r.error THEN Ended([Ctx EXCEPT !.state = r.st], "rejected", None)
          ELSE Ended([Record([Ctx EXCEPT !.state = r.st], r.update, FALSE, None) EXCEPT !.rule = None],
                     "remote", Some(r.update))
    IN  /\ Becomes(Received(ApplyStepsTo(state, steps, "Remote", "Remote", None)))
        /\ UNCHANGED clipboard

Next == (\E call \in Calls : Edit(call)) \/ Copy \/ ApplyRemote

Spec == Init /\ [][Next]_vars

-----------------------------------------------------------------------------
(* Properties.                                                             *)

\* Whatever is run in whatever order, the blocks form the tree the schema
\* describes, what BlockDoc's theorems are about: each below one parent that
\* takes its kind, text only in text blocks, never no block at all (state.rs,
\* ensure_block); no savepoint is left open, ids are not given out again, and
\* what undoes an edit is a list of steps.
DocumentIsSound ==
    LET d == state.doc
    IN  /\ WellFormed(d) /\ ToSet(DocOrder(d)) = Blocks(d)
        /\ d.root # <<>> /\ d.saves = <<>>
        /\ \A b \in Blocks(d) : b < d.next
        /\ \A entry \in ToSet(done) \cup ToSet(undone) : \A s \in ToSet(entry.inverses) : IsStep(s)

\* And no container is left empty (structure.rs, prune_empty).
DocumentIsTree ==
    /\ DocumentIsSound
    /\ \A b \in Blocks(state.doc) :
          Kids(state.doc, b) # <<>> <=> ContentOf[state.doc.nodes[b].kind] = "blocks"

\* The selection and the composition always lie in the document as it is now
\* (state.rs, apply).
TransientFits ==
    /\ ValidSelection(state.doc, state.selection) = state.selection
    /\ state.composition # None =>
         LET c == state.composition[1]
         IN  IsText(state.doc, c.block) /\ c.start <= c.end /\ c.end <= TextLen(state.doc, c.block)

\* Marks set aside for typing are for the caret where it is. They are those of
\* before if neither the document nor the selection has changed since, or text
\* is being composed; else a command that toggles marks or opens a block has
\* just set them. Whatever moves the caret, edits, undoes or comes from
\* elsewhere drops them (state.rs, apply).
SetsMarks(call) ==
    \/ call.do = "setPreedit" /\ state'.stored = state.stored
    \/ /\ call.do \in {"press", "chain"}
       /\ \E cmd \in ToSet(call.cmds) : cmd.do \in {"toggleMark", "splitBlock"}
MarksAreCurrent ==
    state'.stored # None =>
        /\ IsCaret(state'.selection)
        /\ \/ /\ state'.stored = state.stored /\ state'.selection = state.selection
              /\ Content(state'.doc) = Content(state.doc)
           \/ \E call \in Calls : SetsMarks(call) /\ Edit(call)
StoredMarksAreCurrent == [][MarksAreCurrent]_vars

\* No call of the editor fails half way: the steps a command, an undo, a fix-up
\* or a refusal's reversal makes always apply. Only a collaborator's may not.
NothingFails == reply # "error"

\* What going back over entries, newest first, gives at each of them.
Retraced(r, entry) ==
    LET Matches(next) ==
          [ok |-> next.applied /\ Content(next.st.doc) = entry.was /\ next.st.selection = entry.selection,
           st |-> next.st]
    IN  IF r.ok THEN Matches(Back(r.st, entry)) ELSE r
Retraces(st, entries) ==
    LET back[n \in 0..Len(entries)] ==
          IF n = 0 THEN [ok |-> TRUE, st |-> st] ELSE Retraced(back[n - 1], Reverse(entries)[n])
    IN  back[Len(entries)].ok

\* Undoing entry after entry gives back, one by one, the documents and
\* selections their edits started from, and redoing those they led to
\* (history.rs; context.rs:80-81, "one unbroken chain of edits").
HistoryRetraces == Retraces(state, done) /\ Retraces(state, undone)

\* Asking whether a command would apply changes nothing at all, revisions,
\* version and ids included, and the answer is what running it then gives
\* (typed.rs:150-151).
Commands == UNION {ToSet(cmds) : cmds \in Setup.bindings}
CanIsRight == \A cmd \in Commands :
    LET dry == [Ctx EXCEPT !.state = Opened(@)]
        Agree(asked, ran) ==
          /\ asked.st = state
          /\ asked.applied <=> Finish(Ctx, ran, FALSE, Content(state.doc)).how = "applied"
        On(result) == Agree(Can(state, result[dry]), result[Ctx])
    IN  On([c \in {dry, Ctx} |-> Command(c, cmd)])

\* What a document says: its characters and atomic blocks, in order.
Says(d, ids) == FlattenSeq([i \in DOMAIN ids |->
    IF IsText(d, ids[i]) THEN [n \in DOMAIN Text(d, ids[i]) |-> Text(d, ids[i])[n].ch]
    ELSE IF IsLeaf(d, ids[i]) THEN <<d.nodes[ids[i]].kind>> ELSE <<>>])
Flow(d) == Says(d, DocOrder(d))

\* What lies before and after the selection.
Around(st) ==
    LET d == st.doc
        Till(n) == Says(d, SubSeq(DocOrder(d), 1, n - 1))
        From(n) == Says(d, SubSeq(DocOrder(d), n + 1, Len(DocOrder(d))))
        Said(p) == SubSeq(Says(d, <<p.block>>), 1, p.offset)
        Left(p) == SubSeq(Says(d, <<p.block>>), p.offset + 1, TextLen(d, p.block))
        Between(r) == [before |-> Till(OrderOf(d, r.from.block)) \o Said(r.from),
                       after  |-> Left(r.to) \o From(OrderOf(d, r.to.block))]
        Outside(gone) == [before |-> Till(Min(gone)), after |-> From(Max(gone))]
    IN  IF st.selection.sel = "text" THEN Between(TextRange(d, st.selection))
        ELSE Outside({OrderOf(d, b) :
                b \in ToSet(Walk(d.nodes, SiblingIds(d, SelectedSiblings(d, st.selection)[1])))})

\* What a command ought to leave: it replaces the selection by what it
\* inserts, or leaves every character and atomic block where it was.
Ought(st, cmd) ==
    LET p == st.selection.head
        Put(a, new) == a.before \o new \o a.after
        At(a) ==
          CASE cmd.do = "insertText" -> Put(a, cmd.text)
            [] cmd.do = "insertLeaf" -> Put(a, <<cmd.kind>>)
            [] cmd.do \in {"splitBlock", "splitListItem"} -> Put(a, <<>>)
            [] cmd.do \in {"deleteBackward", "deleteForward"} /\ ~IsCaret(st.selection) -> Put(a, <<>>)
            [] cmd.do = "deleteBackward" /\ IsCaret(st.selection) /\ p.offset > 0 ->
                 Front(a.before) \o a.after
            [] cmd.do = "deleteForward" /\ IsCaret(st.selection) /\ p.offset < TextLen(st.doc, p.block) ->
                 a.before \o Tail(a.after)
            [] OTHER -> Flow(st.doc)
    IN  At(Around(st))

\* Where blocks are put at the end of a container, past what follows their
\* own: lift_nested puts an item after the whole outer item, adopt_children
\* the rest of a nested container after all the outer one holds.
FollowedIn(d, p, b) == IsAncestor(d, p, b) /\ Last(Walk(d.nodes, <<p>>)) \notin Subtree(d, b)
LiftsPast(st, cmd) ==
    /\ cmd.do \in {"liftListItem", "splitListItem", "joinListItem", "toggleList"}
    /\ \E item, list \in Blocks(st.doc) :
          Parent(st.doc, list) = item /\ FollowedIn(st.doc, item, list)
Nestings(d) == {n \in [outer : Blocks(d), inner : Blocks(d)] :
    d.nodes[n.outer].kind = d.nodes[n.inner].kind /\ FollowedIn(d, n.outer, n.inner)}
MergesPast(st) == \E n \in Nestings(st.doc) : Len(Kids(st.doc, n.inner)) > 1
MayReorder(st, cmd) == LiftsPast(st, cmd) \/ MergesPast(st)
SameElements(s, t) ==
    \A x \in ToSet(s) \cup ToSet(t) :
        Cardinality({i \in DOMAIN s : s[i] = x}) = Cardinality({i \in DOMAIN t : t[i] = x})

\* No command loses or doubles text or atomic blocks, or puts any of it in
\* another place, however the selection lies across quotes, lists and items
\* (structure.rs, commands/lists.rs, commands/paste.rs).
TextIsKept == \A cmd \in {c \in Commands : c.do # "undoInputRule"} :
    LET Kept(flow, ought) == IF MayReorder(state, cmd) THEN SameElements(flow, ought) ELSE flow = ought
        Ran(r) == r.applied => Kept(Flow(r.st.doc), Ought(state, cmd))
    IN  Ran(Command(Ctx, cmd))

\* Pasting puts the slice where the selected text was, or, over selected
\* blocks, at a place of what is left (commands/paste.rs:54-55, "Delete the
\* selected blocks, then paste at the caret that leaves").
PastedRight(slice) ==
    LET Splits(rest, new, at, flow) ==
          \E n \in at : flow = SubSeq(rest, 1, n) \o new \o SubSeq(rest, n + 1, Len(rest))
        Placed(a, r) ==
          r.applied => Splits(a.before \o a.after, Says(slice, Walk(slice.nodes, slice.roots)),
                              IF state.selection.sel = "text" THEN {Len(a.before)}
                              ELSE 0..Len(a.before \o a.after),
                              Flow(r.st.doc))
    IN  Placed(Around(state), ReplaceSelection(state, slice))
Pastable == {clipboard} \cup Setup.clips
PasteIsPlaced == \A slice \in Pastable : PastedRight(slice)

\* The same where the selected blocks are not all the text there is.
TextOutside == state.selection.sel = "text" \/
    ToSet(TextBlocks(state.doc)) \ {x.block : x \in ToSet(SelectedText(state.doc, state.selection))} # {}
PasteIsPlacedInText == TextOutside /\ ~MergesPast(state) => PasteIsPlaced

\* Backspace straight after an input rule leaves what typing the same text
\* without the rule would have left (context.rs:65-68), but for marks toggled
\* for that text: the rule's update forgets them (state.rs, apply).
UndoneRuleIsLiteral ==
    LET Literal(r) == r.applied => Outline(r.st.doc) = rule[1].literal
    IN  RuleIsFresh(Ctx) => Literal(UndoInputRule(Ctx))

\* No edit of the user's takes the document past the character limit, and an
\* over-long document only shrinks (character_count.rs:35-37); undo never holds
\* more than Depth entries of the user's own edits (history.rs, depth).
LimitHolds ==
    [][/\ reply' = "applied" =>
            Chars(state'.doc) <= Setup.limit \/ Chars(state'.doc) <= Chars(state.doc)
       /\ Len(done') + Len(undone') <= Depth]_vars

\* A refused update is undone: afterwards everything is as it was
\* (extension.rs:96-99).
RefusalIsUndone == [][reply' = "refused" =>
    /\ Content(state'.doc) = Content(state.doc) /\ state'.selection = state.selection
    /\ state'.composition = state.composition]_vars
=============================================================================
