---------------------------- MODULE Transactions ----------------------------
(***************************************************************************)
(* Transactions and savepoints of canvist_model: a script becomes one      *)
(* commit or, when an instruction is refused, nothing; a savepoint keeps   *)
(* what it takes to revert the document exactly, revisions included.       *)
(***************************************************************************)
EXTENDS Structure

NoCommit(d) == [ok |-> TRUE, doc |-> d, steps |-> <<>>, inverses |-> <<>>, maps |-> <<>>,
                touched |-> {}, structural |-> FALSE, version |-> d.version]

\* Transaction::step: what an applied step adds to the transaction.
TransactionStep(t, s, a) ==
    [t EXCEPT !.doc = a.doc,
              !.steps = Append(@, s),
              !.inverses = Append(@, a.inverse),
              !.maps = Append(@, a.map),
              !.touched = @ \cup a.touched,
              !.structural = @ \/ a.structural]

UndoSteps(t) == Reverse(t.inverses)

\* Once a step is refused, no other is tried.
StepIn(t, s) ==
    LET Took(a) == IF a.ok THEN TransactionStep(t, s, a) ELSE [t EXCEPT !.ok = FALSE, !.doc = a.doc]
    IN  IF ~t.ok THEN t ELSE Took(IF s = GiveUp THEN Failed(t.doc) ELSE StepApply(t.doc, s))

RunSteps(t, steps) ==
    LET after[n \in 0..Len(steps)] == IF n = 0 THEN t ELSE StepIn(after[n - 1], steps[n])
    IN  after[Len(steps)]

Instruct(t, e) ==
    RunSteps(t, IF t.ok /\ e.op \in Edits THEN Resolve(t.doc, e) ELSE <<e>>)

\* rollback: the document is as it was but for its revisions.
RolledBack(t) == [NoCommit(RunSteps(NoCommit(t.doc), UndoSteps(t)).doc) EXCEPT !.ok = FALSE]

OrRolledBack(t) == IF t.ok THEN t ELSE RolledBack(t)

\* A transaction after a script; when an instruction is refused, the steps
\* before it are rolled back.
RunScript(t, script) ==
    LET after[n \in 0..Len(script)] == IF n = 0 THEN t ELSE Instruct(after[n - 1], script[n])
    IN  OrRolledBack(after[Len(script)])

Commit(t) == [t EXCEPT !.touched = @ \cap Blocks(t.doc), !.version = t.doc.version]

RemovedByMaps(maps) ==
    UNION {CASE m.map = "removed" -> m.blocks
             [] m.map = "join"    -> {m.next}
             [] OTHER             -> {} : m \in ToSet(maps)}

-----------------------------------------------------------------------------
(* Opening, keeping and reverting savepoints.                              *)

Savepoint(d) ==
    [d EXCEPT !.saves = Append(@, [version |-> d.version, next |-> d.next,
                                   revs |-> <<>>, inverses |-> <<>>])]

\* absorb: the revision an outer savepoint saw first is the one it restores.
Absorb(outer, inner) ==
    [outer EXCEPT !.inverses = @ \o inner.inverses, !.revs = Known(@, inner.revs)]

\* collapse_into: fold what is nested deeper into the savepoint at depth.
CollapseInto(saves, depth) ==
    LET folded[n \in 0..Len(saves) - depth] ==
          IF n = 0 THEN saves[depth] ELSE Absorb(folded[n - 1], saves[depth + n])
    IN  Append(SubSeq(saves, 1, depth - 1), folded[Len(saves) - depth])

\* Mutant: the ids a reverted command took stay taken.
RestoredButIds(d, log) ==
    [d EXCEPT !.version = log.version,
              !.nodes = [b \in DOMAIN @ |-> IF b \in DOMAIN log.revs
                                            THEN [@[b] EXCEPT !.rev = log.revs[b]] ELSE @[b]]]

\* restore_revisions
Restored(d, log) ==
    [d EXCEPT !.version = log.version, !.next = log.next,
              !.nodes = [b \in DOMAIN @ |-> IF b \in DOMAIN log.revs
                                            THEN [@[b] EXCEPT !.rev = log.revs[b]] ELSE @[b]]]

RollbackTo(d, depth) ==
    LET Back(t, saves) ==
          LET back == [t.doc EXCEPT !.saves = Front(saves)]
          IN  IF t.ok THEN Restored(back, Last(saves)) ELSE back
        saves == CollapseInto(d.saves, depth)
    IN  Back(RunSteps(NoCommit([d EXCEPT !.saves = <<>>]), Reverse(Last(saves).inverses)), saves)

Release(d, depth) ==
    LET Kept(saves) == IF depth = 1 THEN <<>>
                       ELSE Append(SubSeq(saves, 1, depth - 2), Absorb(saves[depth - 1], Last(saves)))
    IN  [d EXCEPT !.saves = Kept(CollapseInto(@, depth))]
=============================================================================
