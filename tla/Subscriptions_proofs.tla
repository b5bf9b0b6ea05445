------------------------ MODULE Subscriptions_proofs ------------------------
(***************************************************************************)
(* A completed annual checkout creates one subscription, and the terms are *)
(* those of the subscription once Stripe has nothing to deliver: for any   *)
(* number of tasks, checkouts, changes and faults.                         *)
(***************************************************************************)
EXTENDS Subscriptions, TLAPS, FiniteSetTheorems, SequenceTheorems

(***************************************************************************)
(* Tables by number, to which one is added, or in which one is changed.    *)
(***************************************************************************)
\* A sequence with an element more.
LEMMA LongerSeq ==
    ASSUME NEW S, NEW seq \in Seq(S), NEW x \in S, NEW new, new = Append(seq, x)
    PROVE  /\ new \in Seq(S)
           /\ Len(seq) \in Nat
           /\ Len(seq) + 1 \notin DOMAIN seq
           /\ DOMAIN new = DOMAIN seq \cup {Len(seq) + 1}
           /\ \A i \in DOMAIN seq : new[i] = seq[i]
           /\ new[Len(seq) + 1] = x
<1>1. /\ new \in Seq(S)
      /\ Len(new) = Len(seq) + 1
      /\ \A i \in 1 .. Len(seq) : new[i] = seq[i]
      /\ new[Len(seq) + 1] = x
  BY AppendProperties
<1>2. DOMAIN seq = 1 .. Len(seq) /\ DOMAIN new = 1 .. Len(seq) + 1 /\ Len(seq) \in Nat
  BY <1>1, LenProperties
<1> QED
  BY <1>1, <1>2

\* A sequence with an element changed.
LEMMA ChangedSeq ==
    ASSUME NEW S, NEW seq \in Seq(S), NEW i \in DOMAIN seq, NEW x \in S,
           NEW new, new = [seq EXCEPT ![i] = x]
    PROVE  /\ new \in Seq(S)
           /\ DOMAIN new = DOMAIN seq
           /\ \A j \in DOMAIN seq \ {i} : new[j] = seq[j]
           /\ new[i] = x
<1>1. new \in Seq(S)
  BY ExceptSeq, LenProperties
<1> QED
  BY <1>1

(***************************************************************************)
(* Types.                                                                  *)
(***************************************************************************)

Statuses == {"incomplete", "active", "past_due", "unpaid", "canceled", "incomplete_expired"}
Subscription == [status: Statuses, plan: SelfServe, session: {0} \cup Sessions]
SnapshotType == [id: Nat, status: Statuses, plan: SelfServe]
TermsType == [plan: Asked, subscription: [id: Nat, status: Statuses]]
TaskType == [doing: {"idle", "sync", "annual", "checkout", "change"}, of: Nat,
             at: {"start", "list", "create", "post", "terms", "write"}, plan: SelfServe,
             snapshot: SnapshotType, known: TermsType]
EventType == [kind: {"sync", "annual"}, of: Nat]

Ids == DOMAIN subscriptions

\* Where each request may be.
Stage(task) ==
    \/ task.doing = "idle" /\ task.at = "start"
    \/ task.doing = "checkout" /\ task.at = "post"
    \/ task.doing = "sync" /\ task.at \in {"terms", "write"}
    \/ task.doing = "annual" /\ task.at \in {"list", "create", "terms", "write"}
    \/ task.doing = "change" /\ task.at \in {"post", "terms", "write"}

\* What a task names exists.
Refers(task, ids) ==
    /\ task.doing \in {"sync", "change"} => task.of \in ids
    /\ task.doing = "annual" => task.of \in Sessions
    /\ task.at = "terms" => task.snapshot.id \in ids
    /\ task.at = "terms" /\ task.doing = "sync" => task.snapshot.id = task.of
    /\ task.at = "write" => task.known.subscription.id \in ids

WellFormed(task, ids) == task \in TaskType /\ Stage(task) /\ Refers(task, ids)

EventRefers(e, ids) ==
    /\ e.kind = "sync" => e.of \in ids
    /\ e.kind = "annual" => e.of \in Sessions

\* A key Stripe remembers answers with what it created for the session.
KeysInv ==
    /\ keys \in [Sessions -> SnapshotType]
    /\ \A s \in Sessions : keys[s] # NoSnapshot =>
          keys[s].id \in Ids /\ subscriptions[keys[s].id].session = s

TermsInv ==
    /\ terms \in TermsType
    /\ terms.subscription.id \in {0} \cup Ids

EventsInv == events \subseteq EventType /\ \A e \in events : EventRefers(e, Ids)

TasksInv ==
    /\ tasks = [t \in Tasks |-> tasks[t]]
    /\ \A t \in Tasks : WellFormed(tasks[t], Ids)

TypeInv ==
    /\ subscriptions \in Seq(Subscription)
    /\ sessions = [s \in Sessions |-> sessions[s]]
    /\ KeysInv
    /\ TermsInv
    /\ EventsInv
    /\ TasksInv
    /\ overlapped \in BOOLEAN
    /\ paidTwice \in BOOLEAN

-----------------------------------------------------------------------------
(***************************************************************************)
(* What steps do to Stripe's subscriptions and to the events.              *)
(***************************************************************************)

\* The ids of subscriptions are positive numbers.
LEMMA IdsArePositive ==
    ASSUME TypeInv
    PROVE  Ids \subseteq Nat \ {0}
BY LenProperties DEF TypeInv, Ids

\* Sessions are positive numbers.
LEMMA SessionsArePositive == Sessions \subseteq Nat \ {0}
BY SubscriptionsAssumption, LenProperties DEF Sessions

\* A subscription is made for a session, or for none, and its event is due.
Makes(s) ==
    LET id == Len(subscriptions) + 1
    IN  /\ id \in Nat \ DOMAIN subscriptions
        /\ subscriptions' \in Seq(Subscription)
        /\ DOMAIN subscriptions' = DOMAIN subscriptions \cup {id}
        /\ \A i \in DOMAIN subscriptions : subscriptions'[i] = subscriptions[i]
        /\ subscriptions'[id].session = s
        /\ events' = events \cup {Sync(id)}

\* A subscription's plan or status changes, and its event is due.
Alters(id) ==
    /\ id \in DOMAIN subscriptions
    /\ subscriptions' \in Seq(Subscription)
    /\ DOMAIN subscriptions' = DOMAIN subscriptions
    /\ \A i \in DOMAIN subscriptions \ {id} : subscriptions'[i] = subscriptions[i]
    /\ subscriptions'[id].session = subscriptions[id].session
    /\ events' = events \cup {Sync(id)}

\* Stripe's creation, as Makes says it.
LEMMA CreatedMakes ==
    ASSUME TypeInv, NEW s \in {0} \cup Sessions, NEW status \in Statuses,
           Created(s, status, "builder")
    PROVE  /\ Makes(s)
           /\ subscriptions'[Len(subscriptions) + 1].status = status
           /\ subscriptions'[Len(subscriptions) + 1].plan = "builder"
<1> DEFINE sub == [status |-> status, plan |-> "builder", session |-> s]
<1>1. sub \in Subscription
  BY DEF Subscription, SelfServe
<1>2. subscriptions \in Seq(Subscription) /\ subscriptions' = Append(subscriptions, sub)
  BY DEF TypeInv, Created
<1>3. sub.status = status /\ sub.plan = "builder" /\ sub.session = s
  OBVIOUS
<1> HIDE DEF sub
<1>4. /\ subscriptions' \in Seq(Subscription)
      /\ Len(subscriptions) \in Nat
      /\ Len(subscriptions) + 1 \notin DOMAIN subscriptions
      /\ DOMAIN subscriptions' = DOMAIN subscriptions \cup {Len(subscriptions) + 1}
      /\ \A i \in DOMAIN subscriptions : subscriptions'[i] = subscriptions[i]
      /\ subscriptions'[Len(subscriptions) + 1] = sub
  BY <1>1, <1>2, LongerSeq
<1> QED
  BY <1>3, <1>4 DEF Makes, Created

\* What every step keeps of Stripe's subscriptions.
Evolves ==
    /\ subscriptions' \in Seq(Subscription)
    /\ Ids \subseteq Ids'
    /\ \A id \in Ids : subscriptions'[id].session = subscriptions[id].session

\* A subscription made or changed is such a step.
LEMMA MakesEvolves ==
    ASSUME NEW s, Makes(s) PROVE Evolves
BY DEF Makes, Evolves, Ids

LEMMA AltersEvolves ==
    ASSUME NEW id, Alters(id) PROVE Evolves
BY DEF Alters, Evolves, Ids

LEMMA StillEvolves ==
    ASSUME TypeInv, UNCHANGED subscriptions PROVE Evolves
BY DEF TypeInv, Evolves, Ids

-----------------------------------------------------------------------------
(***************************************************************************)
(* The tasks of a step.                                                    *)
(***************************************************************************)

\* What a task or an event names does not vanish.
LEMMA StillRefers ==
    ASSUME NEW ids, NEW more, ids \subseteq more, NEW x
    PROVE  /\ WellFormed(x, ids) => WellFormed(x, more)
           /\ EventRefers(x, ids) => EventRefers(x, more)
BY DEF WellFormed, Refers, EventRefers

\* A step of t: the others stay, and unless tasks overlap, only one of them reads
\* what it will write.
Turn(t) ==
    /\ \A u \in Tasks \ {t} : tasks'[u] = tasks[u]
    /\ ~overlapped' => ~overlapped /\ (Reads(tasks'[t]) => \A u \in Tasks \ {t} : ~Reads(tasks[u]))

\* A task is replaced by a well-formed one.
LEMMA TasksGo ==
    ASSUME TypeInv, Evolves, NEW t \in Tasks, NEW task, WellFormed(task, Ids'), Go(t, task)
    PROVE  /\ TasksInv'
           /\ overlapped' \in BOOLEAN
           /\ tasks'[t] = task
           /\ Turn(t)
<1>1. tasks = [u \in Tasks |-> tasks[u]] /\ \A u \in Tasks : WellFormed(tasks[u], Ids)
  BY DEF TypeInv, TasksInv
<1>2. tasks' = [tasks EXCEPT ![t] = task]
  BY DEF Go
<1>3. /\ tasks'[t] = task
      /\ \A u \in Tasks \ {t} : tasks'[u] = tasks[u]
      /\ tasks' = [u \in Tasks |-> tasks'[u]]
  BY <1>1, <1>2
<1>4. \A u \in Tasks \ {t} : WellFormed(tasks[u], Ids')
  BY <1>1, StillRefers DEF Evolves
<1>5. overlapped' = (overlapped \/ (Reads(task) /\ \E u \in Tasks \ {t} : Reads(tasks[u])))
  BY DEF Go
<1> QED
  BY <1>1, <1>3, <1>4, <1>5 DEF TasksInv, TypeInv, Turn

\* No task takes a step.
LEMMA TasksStay ==
    ASSUME TypeInv, Evolves, UNCHANGED <<tasks, overlapped>>
    PROVE  TasksInv' /\ overlapped' \in BOOLEAN
<1>1. \A u \in Tasks : WellFormed(tasks[u], Ids')
  BY StillRefers DEF TypeInv, TasksInv, Evolves
<1> QED
  BY <1>1 DEF TypeInv, TasksInv

\* The records of tasks: one that has what it applies, one that completes an
\* annual checkout, one that posts, and one that writes.
Syncing(snapshot) == [Idle EXCEPT !.doing = "sync", !.of = snapshot.id, !.at = "terms", !.snapshot = snapshot]
Fetching(old, snapshot) == [Idle EXCEPT !.doing = old.doing, !.of = old.of, !.at = "terms", !.snapshot = snapshot]
Listing(s, current) == [Idle EXCEPT !.doing = "annual", !.of = s, !.at = "list", !.known = current]
Creating(s) == [Idle EXCEPT !.doing = "annual", !.of = s, !.at = "create"]
CheckingOut == [Idle EXCEPT !.doing = "checkout", !.at = "post"]
Changing(id, newPlan) == [Idle EXCEPT !.doing = "change", !.of = id, !.at = "post", !.plan = newPlan]
Writing(old, next) == [old EXCEPT !.at = "write", !.snapshot = NoSnapshot, !.known = next]

\* They are well-formed, and so is a task that was answered.
LEMMA IdleTask ==
    ASSUME NEW ids
    PROVE  WellFormed(Idle, ids) /\ Idle.doing = "idle" /\ Idle.at = "start" /\ ~Reads(Idle)
BY DEF WellFormed, Stage, Refers, Idle, TaskType, SelfServe, SnapshotType, NoSnapshot, Statuses,
       TermsType, NoSubscription, Asked, Reads

LEMMA SyncTask ==
    ASSUME NEW ids, NEW snapshot \in SnapshotType, snapshot.id \in ids
    PROVE  /\ WellFormed(Syncing(snapshot), ids)
           /\ Syncing(snapshot).doing = "sync"
           /\ Syncing(snapshot).of = snapshot.id
           /\ Syncing(snapshot).at = "terms"
           /\ Syncing(snapshot).snapshot = snapshot
           /\ Reads(Syncing(snapshot))
BY DEF Syncing, WellFormed, Stage, Refers, Idle, TaskType, SelfServe, SnapshotType, NoSnapshot, Statuses,
       TermsType, NoSubscription, Asked, Reads

LEMMA FetchedTask ==
    ASSUME NEW ids, NEW old, WellFormed(old, ids), old.doing \in {"annual", "change"},
           NEW snapshot \in SnapshotType, snapshot.id \in ids
    PROVE  /\ WellFormed(Fetching(old, snapshot), ids)
           /\ Fetching(old, snapshot).doing = old.doing
           /\ Fetching(old, snapshot).of = old.of
           /\ Fetching(old, snapshot).at = "terms"
           /\ Fetching(old, snapshot).snapshot = snapshot
           /\ Reads(Fetching(old, snapshot))
BY DEF Fetching, WellFormed, Stage, Refers, Idle, TaskType, SelfServe, SnapshotType, NoSnapshot, Statuses,
       TermsType, NoSubscription, Asked, Reads

LEMMA ListTask ==
    ASSUME NEW ids, NEW s \in Sessions, NEW current \in TermsType
    PROVE  /\ WellFormed(Listing(s, current), ids)
           /\ Listing(s, current).doing = "annual"
           /\ Listing(s, current).of = s
           /\ Listing(s, current).at = "list"
           /\ Reads(Listing(s, current))
BY SessionsArePositive DEF Listing, WellFormed, Stage, Refers, Idle, TaskType, SelfServe, SnapshotType,
       NoSnapshot, Statuses, TermsType, NoSubscription, Asked, Reads

LEMMA CreateTask ==
    ASSUME NEW ids, NEW s \in Sessions
    PROVE  /\ WellFormed(Creating(s), ids)
           /\ Creating(s).doing = "annual"
           /\ Creating(s).of = s
           /\ Creating(s).at = "create"
           /\ Reads(Creating(s))
BY SessionsArePositive DEF Creating, WellFormed, Stage, Refers, Idle, TaskType, SelfServe, SnapshotType,
       NoSnapshot, Statuses, TermsType, NoSubscription, Asked, Reads

LEMMA CheckoutTask ==
    ASSUME NEW ids
    PROVE  /\ WellFormed(CheckingOut, ids)
           /\ CheckingOut.doing = "checkout"
           /\ CheckingOut.at = "post"
           /\ ~Reads(CheckingOut)
BY DEF CheckingOut, WellFormed, Stage, Refers, Idle, TaskType, SelfServe, SnapshotType, NoSnapshot, Statuses,
       TermsType, NoSubscription, Asked, Reads

LEMMA ChangeTask ==
    ASSUME NEW ids, NEW id \in ids, id \in Nat, NEW newPlan \in SelfServe
    PROVE  /\ WellFormed(Changing(id, newPlan), ids)
           /\ Changing(id, newPlan).doing = "change"
           /\ Changing(id, newPlan).of = id
           /\ Changing(id, newPlan).at = "post"
           /\ Changing(id, newPlan).plan = newPlan
BY DEF Changing, WellFormed, Stage, Refers, Idle, TaskType, SelfServe, SnapshotType, NoSnapshot, Statuses,
       TermsType, NoSubscription, Asked

LEMMA WriteTask ==
    ASSUME NEW ids, NEW old, WellFormed(old, ids), old.at = "terms",
           NEW next \in TermsType, next.subscription.id \in ids
    PROVE  /\ WellFormed(Writing(old, next), ids)
           /\ Writing(old, next).doing = old.doing
           /\ Writing(old, next).of = old.of
           /\ Writing(old, next).at = "write"
           /\ Writing(old, next).known = next
           /\ Reads(Writing(old, next))
<1>1. old \in TaskType /\ Stage(old) /\ Refers(old, ids)
  BY DEF WellFormed
<1>2. /\ Writing(old, next).doing = old.doing
      /\ Writing(old, next).of = old.of
      /\ Writing(old, next).at = "write"
      /\ Writing(old, next).known = next
      /\ Writing(old, next) \in TaskType
  BY <1>1 DEF Writing, TaskType, NoSnapshot, SnapshotType, Statuses, SelfServe
<1>3. old.doing \in {"sync", "annual", "change"}
  BY <1>1 DEF Stage
<1>4. WellFormed(Writing(old, next), ids) /\ Reads(Writing(old, next))
  BY <1>1, <1>2, <1>3 DEF WellFormed, Stage, Refers, Reads
<1> QED
  BY <1>2, <1>4

-----------------------------------------------------------------------------
(***************************************************************************)
(* What is applied to the terms.                                           *)
(***************************************************************************)

\* The terms TermsAfter has, when it has some.
Applied(current, s) ==
    [plan |-> IF GrantsPlan(s.status) THEN s.plan
              ELSE IF s.status = "incomplete" /\ current.subscription = NoSubscription
              THEN current.plan
              ELSE "hobby",
     subscription |-> [id |-> s.id, status |-> s.status]]

\* An ended subscription that was replaced, or that says nothing new, is not
\* written; otherwise what is written is Applied.
LEMMA Applies ==
    ASSUME NEW current \in TermsType, NEW s \in SnapshotType
    PROVE  /\ Applied(current, s) \in TermsType
           /\ Applied(current, s).subscription.id = s.id
           /\ Applied(current, s).subscription.status = s.status
           /\ TermsAfter(current, s) \subseteq {current} =>
                \/ current.subscription.id \notin {0, s.id} /\ ~GrantsPlan(s.status)
                \/ Applied(current, s) = current
           /\ ~(TermsAfter(current, s) \subseteq {current}) =>
                /\ (CHOOSE n \in TermsAfter(current, s) : TRUE) = Applied(current, s)
                /\ current.subscription.id \in {0, s.id} \/ GrantsPlan(s.status)
<1>1. Applied(current, s) \in TermsType
  BY DEF Applied, TermsType, SnapshotType, Statuses, SelfServe, Asked
<1>2. Applied(current, s).subscription.id = s.id /\ Applied(current, s).subscription.status = s.status
  BY DEF Applied
<1>3. TermsAfter(current, s) =
        IF current.subscription.id \notin {0, s.id} /\ ~GrantsPlan(s.status) THEN {}
        ELSE {Applied(current, s)}
  BY DEF TermsAfter, Applied
<1>4. \A x : (CHOOSE n \in {x} : TRUE) = x
  OBVIOUS
<1> QED
  BY <1>1, <1>2, <1>3, <1>4

-----------------------------------------------------------------------------
(***************************************************************************)
(* The effect of each step.                                                *)
(***************************************************************************)

\* What a task has and is of.
LEMMA TaskFacts ==
    ASSUME TypeInv, NEW t \in Tasks
    PROVE  /\ tasks[t] \in TaskType
           /\ WellFormed(tasks[t], Ids)
           /\ Stage(tasks[t])
           /\ Refers(tasks[t], Ids)
BY DEF TypeInv, TasksInv, WellFormed

\* A subscription as Stripe answers with it.
LEMMA SnapshotFacts ==
    ASSUME TypeInv, NEW id \in Ids
    PROVE  /\ Snapshot(id) \in SnapshotType
           /\ id \in Nat
           /\ Snapshot(id).id = id
           /\ Snapshot(id).status = subscriptions[id].status
           /\ Snapshot(id).plan = subscriptions[id].plan
<1>1. id \in Nat
  BY IdsArePositive
<1>2. subscriptions[id] \in Subscription
  BY ElementOfSeq, LenProperties DEF TypeInv, Ids
<1> QED
  BY <1>1, <1>2 DEF Snapshot, SnapshotType, Subscription

\* A step that leaves Stripe's subscriptions and keys, and the events due, alone.
LEMMA TypeStill ==
    ASSUME TypeInv, TasksInv', overlapped' \in BOOLEAN, TermsInv',
           events' \subseteq events,
           UNCHANGED <<subscriptions, keys, paidTwice>>,
           sessions' = [s \in Sessions |-> sessions'[s]]
    PROVE  TypeInv'
BY DEF TypeInv, KeysInv, EventsInv, Ids

\* A delivery takes an event, or leaves it to be repeated.
LEMMA DeliverEffect ==
    ASSUME TypeInv, NEW t \in Tasks, NEW e \in events, Deliver(t, e)
    PROVE  /\ TypeInv'
           /\ UNCHANGED <<subscriptions, keys, terms, paidTwice>>
           /\ events \ {e} \subseteq events'
           /\ Turn(t)
           /\ tasks[t].doing = "idle"
           /\ \/ /\ e.kind = "sync"
                 /\ e.of \in Ids
                 /\ tasks'[t] = Syncing(Snapshot(e.of))
              \/ /\ e.kind = "annual"
                 /\ e.of \in Sessions
                 /\ tasks'[t] = Listing(e.of, terms)
<1>1. Evolves /\ Ids' = Ids
  BY StillEvolves DEF Deliver, Ids
<1>2. e \in EventType /\ EventRefers(e, Ids) /\ terms \in TermsType
  BY DEF TypeInv, EventsInv, TermsInv
<1>3. tasks[t].doing = "idle"
  BY DEF Deliver, Busy
<1>4. /\ UNCHANGED <<subscriptions, keys, terms, paidTwice, sessions>>
      /\ events \ {e} \subseteq events' /\ events' \subseteq events
  BY DEF Deliver
<1>5. ASSUME NEW task, WellFormed(task, Ids), Go(t, task)
      PROVE  TypeInv' /\ Turn(t) /\ tasks'[t] = task
  <2>1. TasksInv' /\ overlapped' \in BOOLEAN /\ tasks'[t] = task /\ Turn(t)
    BY <1>1, <1>5, TasksGo
  <2>2. TermsInv' /\ sessions' = [s \in Sessions |-> sessions'[s]]
    BY <1>1, <1>4 DEF TypeInv, TermsInv
  <2> QED
    BY <1>4, <2>1, <2>2, TypeStill
<1>6. CASE e.kind = "sync"
  <2>1. e.of \in Ids
    BY <1>2, <1>6 DEF EventRefers
  <2>2. Snapshot(e.of) \in SnapshotType /\ Snapshot(e.of).id = e.of
    BY <2>1, SnapshotFacts
  <2>3. WellFormed(Syncing(Snapshot(e.of)), Ids)
    BY <2>1, <2>2, SyncTask
  <2>4. Go(t, Syncing(Snapshot(e.of)))
    BY <1>6, <2>2 DEF Deliver, SyncSubscription, Syncing
  <2> QED
    BY <1>3, <1>4, <1>5, <1>6, <2>1, <2>3, <2>4
<1>7. CASE e.kind = "annual"
  <2>1. e.of \in Sessions
    BY <1>2, <1>7 DEF EventRefers
  <2>2. WellFormed(Listing(e.of, terms), Ids)
    BY <1>2, <2>1, ListTask
  <2>3. Go(t, Listing(e.of, terms))
    BY <1>7 DEF Deliver, CompleteAnnualCheckout, Listing
  <2> QED
    BY <1>3, <1>4, <1>5, <1>7, <2>1, <2>2, <2>3
<1> QED
  BY <1>2, <1>6, <1>7 DEF EventType

\* A task's step within the server: Stripe is not touched, nor are the terms.
LEMMA InsideGo ==
    ASSUME TypeInv, NEW t \in Tasks, NEW task, WellFormed(task, Ids), Go(t, task),
           UNCHANGED <<stripe, terms>>
    PROVE  TypeInv' /\ Turn(t) /\ tasks'[t] = task
<1>1. Evolves /\ Ids' = Ids
  BY StillEvolves DEF stripe, Ids
<1>2. TasksInv' /\ overlapped' \in BOOLEAN /\ tasks'[t] = task /\ Turn(t)
  BY <1>1, TasksGo
<1>3. TermsInv' /\ sessions' = [s \in Sessions |-> sessions'[s]]
  BY <1>1 DEF TypeInv, TermsInv, stripe
<1> QED
  BY <1>2, <1>3, TypeStill DEF stripe

\* The terms are read, and what follows is written next unless it is nothing
\* new.
LEMMA ReadTermsEffect ==
    ASSUME TypeInv, NEW t \in Tasks, ReadTerms(t)
    PROVE  /\ TypeInv'
           /\ UNCHANGED <<stripe, terms>>
           /\ Turn(t)
           /\ tasks[t].at = "terms"
           /\ IF TermsAfter(terms, tasks[t].snapshot) \subseteq {terms}
              THEN tasks'[t] = Idle
              ELSE tasks'[t] = Writing(tasks[t], Applied(terms, tasks[t].snapshot))
<1> DEFINE after == TermsAfter(terms, tasks[t].snapshot)
           next == Applied(terms, tasks[t].snapshot)
<1>1. UNCHANGED <<stripe, terms>> /\ tasks[t].at = "terms"
  BY DEF ReadTerms
<1>2. /\ WellFormed(tasks[t], Ids)
      /\ tasks[t].snapshot \in SnapshotType
      /\ tasks[t].snapshot.id \in Ids
  BY <1>1, TaskFacts DEF Refers, TaskType
<1>3. CASE after \subseteq {terms}
  <2>1. Go(t, Idle)
    BY <1>3 DEF ReadTerms, Done
  <2> QED
    BY <1>1, <1>3, <2>1, IdleTask, InsideGo
<1>4. CASE ~(after \subseteq {terms})
  <2>1. /\ next \in TermsType
        /\ next.subscription.id = tasks[t].snapshot.id
        /\ (CHOOSE n \in after : TRUE) = next
    BY <1>2, <1>4, Applies DEF TypeInv, TermsInv
  <2>2. Go(t, Writing(tasks[t], next))
    BY <1>4, <2>1 DEF ReadTerms, Writing
  <2> HIDE DEF next
  <2>3. WellFormed(Writing(tasks[t], next), Ids)
    BY <1>1, <1>2, <2>1, WriteTask
  <2>4. TypeInv' /\ Turn(t) /\ tasks'[t] = Writing(tasks[t], next)
    BY <1>1, <2>2, <2>3, InsideGo
  <2> QED
    BY <1>1, <1>4, <2>4 DEF next
<1> QED
  BY <1>3, <1>4

\* The terms are written, and the request is answered.
LEMMA WriteTermsEffect ==
    ASSUME TypeInv, NEW t \in Tasks, WriteTerms(t)
    PROVE  /\ TypeInv'
           /\ UNCHANGED stripe
           /\ Turn(t)
           /\ tasks[t].at = "write"
           /\ terms' = tasks[t].known
           /\ tasks'[t] = Idle
<1>1. UNCHANGED stripe /\ tasks[t].at = "write" /\ terms' = tasks[t].known /\ Go(t, Idle)
  BY DEF WriteTerms, Done
<1>2. Evolves /\ Ids' = Ids
  BY <1>1, StillEvolves DEF stripe, Ids
<1>3. TasksInv' /\ overlapped' \in BOOLEAN /\ tasks'[t] = Idle /\ Turn(t)
  BY <1>1, <1>2, IdleTask, TasksGo
<1>4. TermsInv' /\ sessions' = [s \in Sessions |-> sessions'[s]]
  BY <1>1, <1>2, TaskFacts DEF TypeInv, TermsInv, stripe, Refers, TaskType
<1> QED
  BY <1>1, <1>3, <1>4, TypeStill DEF stripe

\* What was created for the session is applied; without it, and unless the
\* project pays already, it is created next.
LEMMA AnnualFindEffect ==
    ASSUME TypeInv, NEW t \in Tasks, AnnualFind(t)
    PROVE  /\ TypeInv'
           /\ UNCHANGED <<stripe, terms>>
           /\ Turn(t)
           /\ At(t, "annual", "list")
           /\ \/ \E id \in CreatedFor(tasks[t].of) : tasks'[t] = Fetching(tasks[t], Snapshot(id))
              \/ CreatedFor(tasks[t].of) = {} /\ tasks'[t] \in {Idle, Creating(tasks[t].of)}
<1>1. UNCHANGED <<stripe, terms>> /\ At(t, "annual", "list")
  BY DEF AnnualFind
<1>2. WellFormed(tasks[t], Ids) /\ tasks[t].doing = "annual" /\ tasks[t].of \in Sessions
  BY <1>1, TaskFacts DEF At, Refers
<1>3. ASSUME NEW id \in CreatedFor(tasks[t].of), Fetched(t, Snapshot(id))
      PROVE  TypeInv' /\ Turn(t) /\ tasks'[t] = Fetching(tasks[t], Snapshot(id))
  <2>1. Snapshot(id) \in SnapshotType /\ Snapshot(id).id \in Ids
    BY SnapshotFacts DEF CreatedFor, Ids
  <2>2. WellFormed(Fetching(tasks[t], Snapshot(id)), Ids)
    BY <1>2, <2>1, FetchedTask
  <2>3. Go(t, Fetching(tasks[t], Snapshot(id)))
    BY <1>3 DEF Fetched, Fetching
  <2> QED
    BY <1>1, <2>2, <2>3, InsideGo
<1>4. ASSUME Go(t, Idle)
      PROVE  TypeInv' /\ Turn(t) /\ tasks'[t] = Idle
  BY <1>1, <1>4, IdleTask, InsideGo
<1>5. ASSUME Go(t, Creating(tasks[t].of))
      PROVE  TypeInv' /\ Turn(t) /\ tasks'[t] = Creating(tasks[t].of)
  BY <1>1, <1>2, <1>5, CreateTask, InsideGo
<1>6. \/ \E id \in CreatedFor(tasks[t].of) : Fetched(t, Snapshot(id))
      \/ CreatedFor(tasks[t].of) = {} /\ (Go(t, Idle) \/ Go(t, Creating(tasks[t].of)))
  BY DEF AnnualFind, Existing, Done, Creating
<1>7. CASE \E id \in CreatedFor(tasks[t].of) : Fetched(t, Snapshot(id))
  BY <1>1, <1>3, <1>7
<1>8. CASE CreatedFor(tasks[t].of) = {} /\ (Go(t, Idle) \/ Go(t, Creating(tasks[t].of)))
  BY <1>1, <1>4, <1>5, <1>8
<1> QED
  BY <1>6, <1>7, <1>8

\* The new subscription's snapshot, and Stripe's answer for the session's key.
New(status) == [id |-> Len(subscriptions) + 1, status |-> status, plan |-> "builder"]

\* Stripe creates the annual subscription of a session, and keeps the answer.
Answers(s, status) ==
    /\ keys[s] = NoSnapshot
    /\ Makes(s)
    /\ subscriptions'[Len(subscriptions) + 1].status = status
    /\ subscriptions'[Len(subscriptions) + 1].plan = "builder"
    /\ keys' = [keys EXCEPT ![s] = New(status)]
    /\ NotePayers

\* Stripe's types after it.
LEMMA AnswersEffect ==
    ASSUME TypeInv, NEW s \in Sessions, NEW status \in {"active", "incomplete"},
           Created(s, status, "builder"), keys[s] = NoSnapshot,
           keys' = [keys EXCEPT ![s] = New(status)]
    PROVE  /\ Answers(s, status)
           /\ Evolves
           /\ subscriptions' \in Seq(Subscription)
           /\ KeysInv'
           /\ EventsInv'
           /\ paidTwice' \in BOOLEAN
           /\ keys'[s] = New(status)
           /\ New(status) \in SnapshotType
           /\ New(status).id \in Ids'
<1> DEFINE new == Len(subscriptions) + 1
<1>1. /\ Makes(s)
      /\ subscriptions'[new].status = status
      /\ subscriptions'[new].plan = "builder"
  BY CreatedMakes DEF Statuses
<1>2. NotePayers
  BY DEF Created
<1>3. Answers(s, status)
  BY <1>1, <1>2 DEF Answers
<1>4. /\ new \in Nat \ Ids
      /\ Ids' = Ids \cup {new}
      /\ \A i \in Ids : subscriptions'[i] = subscriptions[i]
      /\ subscriptions'[new].session = s
      /\ events' = events \cup {Sync(new)}
      /\ subscriptions' \in Seq(Subscription)
  BY <1>1 DEF Makes, Ids
<1>5. New(status) \in SnapshotType /\ New(status).id = new
  BY <1>4 DEF New, SnapshotType, Statuses, SelfServe
<1>6. KeysInv'
  <2>1. keys \in [Sessions -> SnapshotType]
    BY DEF TypeInv, KeysInv
  <2>2. keys' \in [Sessions -> SnapshotType] /\ keys'[s] = New(status)
        /\ \A r \in Sessions \ {s} : keys'[r] = keys[r]
    BY <1>5, <2>1
  <2> QED
    BY <1>4, <1>5, <2>2 DEF TypeInv, KeysInv
<1>7. EventsInv'
  <2>1. \A e \in events : e \in EventType /\ EventRefers(e, Ids')
    BY <1>4, StillRefers DEF TypeInv, EventsInv
  <2>2. Sync(new) \in EventType /\ EventRefers(Sync(new), Ids')
    BY <1>4 DEF Sync, EventType, EventRefers
  <2> QED
    BY <1>4, <2>1, <2>2 DEF EventsInv
<1>8. paidTwice' \in BOOLEAN
  BY <1>2 DEF NotePayers, TypeInv
<1>9. Evolves
  BY <1>1, MakesEvolves
<1>10. keys'[s] = New(status)
  BY DEF TypeInv, KeysInv
<1> QED
  BY <1>3, <1>4, <1>5, <1>6, <1>7, <1>8, <1>9, <1>10

\* The types after a task's step that changes Stripe.
LEMMA OutsideGo ==
    ASSUME TypeInv, Evolves, NEW t \in Tasks, NEW task, WellFormed(task, Ids'), Go(t, task),
           KeysInv', EventsInv', paidTwice' \in BOOLEAN,
           UNCHANGED <<sessions, terms>>
    PROVE  TypeInv' /\ Turn(t) /\ tasks'[t] = task
<1>1. TasksInv' /\ overlapped' \in BOOLEAN /\ tasks'[t] = task /\ Turn(t)
  BY TasksGo
<1>2. TermsInv'
  BY DEF TypeInv, TermsInv, Evolves
<1> QED
  BY <1>1, <1>2 DEF TypeInv, Evolves

\* The creation of an annual subscription: Stripe answers, or repeats what it
\* answered; the task applies the answer.
LEMMA AnnualCreateEffect ==
    ASSUME TypeInv, NEW t \in Tasks, AnnualCreate(t)
    PROVE  LET s == tasks[t].of
           IN  /\ TypeInv'
               /\ UNCHANGED terms
               /\ Turn(t)
               /\ s \in Sessions
               /\ At(t, "annual", "create")
               /\ \/ /\ keys[s] # NoSnapshot
                     /\ UNCHANGED <<subscriptions, events, keys, paidTwice>>
                     /\ tasks'[t] = Fetching(tasks[t], keys[s])
                  \/ \E status \in {"active", "incomplete"} :
                        Answers(s, status) /\ tasks'[t] = Fetching(tasks[t], New(status))
<1> DEFINE s == tasks[t].of
<1>1. UNCHANGED <<sessions, terms>> /\ At(t, "annual", "create")
  BY DEF AnnualCreate, AnnualPost
<1>2. WellFormed(tasks[t], Ids) /\ tasks[t].doing = "annual" /\ s \in Sessions
  BY <1>1, TaskFacts DEF At, Refers
<1>3. \/ /\ keys[s] # NoSnapshot
         /\ Fetched(t, keys[s])
         /\ UNCHANGED <<subscriptions, events, keys, paidTwice>>
      \/ /\ keys[s] = NoSnapshot
         /\ \E status \in {"active", "incomplete"} :
               /\ Created(s, status, "builder")
               /\ keys' = [keys EXCEPT ![s] = New(status)]
               /\ Fetched(t, keys'[s])
  BY DEF AnnualCreate, AnnualPost, New
<1> HIDE DEF s
<1>4. CASE /\ keys[s] # NoSnapshot
           /\ Fetched(t, keys[s])
           /\ UNCHANGED <<subscriptions, events, keys, paidTwice>>
  <2>1. Go(t, Fetching(tasks[t], keys[s]))
    BY <1>4 DEF Fetched, Fetching
  <2>2. keys[s] \in SnapshotType /\ keys[s].id \in Ids
    BY <1>2, <1>4 DEF TypeInv, KeysInv
  <2>3. WellFormed(Fetching(tasks[t], keys[s]), Ids)
    BY <1>2, <2>2, FetchedTask
  <2>4. Evolves /\ Ids' = Ids
    BY <1>4, StillEvolves DEF Ids
  <2>5. KeysInv' /\ EventsInv' /\ paidTwice' \in BOOLEAN
    BY <1>4, <2>4 DEF TypeInv, KeysInv, EventsInv
  <2>6. TypeInv' /\ Turn(t) /\ tasks'[t] = Fetching(tasks[t], keys[s])
    BY <1>1, <2>1, <2>3, <2>4, <2>5, OutsideGo
  <2> QED
    BY <1>1, <1>2, <1>4, <2>6 DEF s
<1>5. CASE /\ keys[s] = NoSnapshot
           /\ \E status \in {"active", "incomplete"} :
                 /\ Created(s, status, "builder")
                 /\ keys' = [keys EXCEPT ![s] = New(status)]
                 /\ Fetched(t, keys'[s])
  <2>1. PICK status \in {"active", "incomplete"} :
                 /\ Created(s, status, "builder")
                 /\ keys' = [keys EXCEPT ![s] = New(status)]
                 /\ Fetched(t, keys'[s])
    BY <1>5
  <2>2. /\ Answers(s, status) /\ Evolves /\ KeysInv' /\ EventsInv' /\ paidTwice' \in BOOLEAN
        /\ keys'[s] = New(status) /\ New(status) \in SnapshotType /\ New(status).id \in Ids'
    BY <1>2, <1>5, <2>1, AnswersEffect
  <2>3. Go(t, Fetching(tasks[t], New(status)))
    BY <2>1, <2>2 DEF Fetched, Fetching
  <2>4. WellFormed(tasks[t], Ids')
    BY <1>2, <2>2, StillRefers DEF Evolves
  <2>5. WellFormed(Fetching(tasks[t], New(status)), Ids')
    BY <1>2, <2>2, <2>4, FetchedTask
  <2>6. TypeInv' /\ Turn(t) /\ tasks'[t] = Fetching(tasks[t], New(status))
    BY <1>1, <2>2, <2>3, <2>5, OutsideGo
  <2> QED
    BY <1>1, <1>2, <2>2, <2>6 DEF s
<1> QED
  BY <1>3, <1>4, <1>5

\* The same without an answer: the request fails.
LEMMA AnnualAnswerLostEffect ==
    ASSUME TypeInv, NEW t \in Tasks, AnnualAnswerLost(t)
    PROVE  LET s == tasks[t].of
           IN  /\ TypeInv'
               /\ UNCHANGED terms
               /\ Turn(t)
               /\ s \in Sessions
               /\ At(t, "annual", "create")
               /\ \E status \in {"active", "incomplete"} : Answers(s, status)
               /\ tasks'[t] = Idle
<1> DEFINE s == tasks[t].of
<1>1. UNCHANGED <<sessions, terms>> /\ At(t, "annual", "create")
  BY DEF AnnualAnswerLost, AnnualPost
<1>2. s \in Sessions
  BY <1>1, TaskFacts DEF At, Refers
<1>3. keys[s] = NoSnapshot
  BY DEF AnnualAnswerLost
<1>4. \E status \in {"active", "incomplete"} :
               /\ Created(s, status, "builder")
               /\ keys' = [keys EXCEPT ![s] = New(status)]
               /\ Go(t, Idle)
  BY <1>3 DEF AnnualAnswerLost, AnnualPost, New, Done
<1> HIDE DEF s
<1>5. PICK status \in {"active", "incomplete"} :
               /\ Created(s, status, "builder")
               /\ keys' = [keys EXCEPT ![s] = New(status)]
               /\ Go(t, Idle)
  BY <1>4
<1>6. Answers(s, status) /\ Evolves /\ KeysInv' /\ EventsInv' /\ paidTwice' \in BOOLEAN
  BY <1>2, <1>3, <1>5, AnswersEffect
<1>7. TypeInv' /\ Turn(t) /\ tasks'[t] = Idle
  BY <1>1, <1>5, <1>6, IdleTask, OutsideGo
<1> QED
  BY <1>1, <1>2, <1>6, <1>7 DEF s

\* A checkout is begun, and posted.
LEMMA CheckoutEffect ==
    ASSUME TypeInv, NEW t \in Tasks, Checkout(t)
    PROVE  /\ TypeInv'
           /\ UNCHANGED <<stripe, terms>>
           /\ Turn(t)
           /\ tasks[t].doing = "idle"
           /\ tasks'[t] = CheckingOut
<1>1. UNCHANGED <<stripe, terms>> /\ Go(t, CheckingOut) /\ tasks[t].doing = "idle"
  BY DEF Checkout, CheckingOut, Busy
<1> QED
  BY <1>1, CheckoutTask, InsideGo

LEMMA CheckoutPostEffect ==
    ASSUME TypeInv, NEW t \in Tasks, CheckoutPost(t)
    PROVE  /\ TypeInv'
           /\ UNCHANGED <<subscriptions, keys, events, paidTwice, terms>>
           /\ Turn(t)
           /\ At(t, "checkout", "post")
           /\ tasks'[t] = Idle
<1>1. /\ UNCHANGED <<subscriptions, keys, events, paidTwice, terms>>
      /\ At(t, "checkout", "post")
      /\ Go(t, Idle)
      /\ sessions' = [s \in Sessions |-> sessions'[s]]
  BY DEF CheckoutPost, Done, TypeInv
<1>2. Evolves /\ Ids' = Ids
  BY <1>1, StillEvolves DEF Ids
<1>3. TasksInv' /\ overlapped' \in BOOLEAN /\ tasks'[t] = Idle /\ Turn(t)
  BY <1>1, <1>2, IdleTask, TasksGo
<1>4. TermsInv'
  BY <1>1, <1>2 DEF TypeInv, TermsInv
<1> QED
  BY <1>1, <1>3, <1>4, TypeStill

\* A change of plan is begun for the subscription the terms name.
LEMMA ChangePlanEffect ==
    ASSUME TypeInv, NEW t \in Tasks, ChangePlan(t)
    PROVE  /\ TypeInv'
           /\ UNCHANGED <<stripe, terms>>
           /\ Turn(t)
           /\ tasks[t].doing = "idle"
           /\ \E plan \in SelfServe : tasks'[t] = Changing(terms.subscription.id, plan)
<1> DEFINE id == terms.subscription.id
<1>1. UNCHANGED <<stripe, terms>> /\ tasks[t].doing = "idle" /\ IsSubscribed(terms)
  BY DEF ChangePlan, Busy
<1>2. PICK plan \in SelfServe : Go(t, Changing(id, plan))
  BY DEF ChangePlan, Changing, ForSale
<1>3. id \in Ids /\ id \in Nat
  BY <1>1, IdsArePositive DEF IsSubscribed, TypeInv, TermsInv
<1> HIDE DEF id
<1>4. WellFormed(Changing(id, plan), Ids)
  BY <1>3, ChangeTask
<1>5. TypeInv' /\ Turn(t) /\ tasks'[t] = Changing(id, plan)
  BY <1>1, <1>2, <1>4, InsideGo
<1> QED
  BY <1>1, <1>5 DEF id

\* What the change of plan knows of the subscription.
Changed(t) == [Snapshot(tasks[t].of) EXCEPT !.plan = tasks[t].plan]

\* The change is posted and its answer applied, unless the subscription was
\* canceled.
LEMMA ChangePlanPostEffect ==
    ASSUME TypeInv, NEW t \in Tasks, ChangePlanPost(t)
    PROVE  LET id == tasks[t].of
           IN  /\ TypeInv'
               /\ UNCHANGED <<keys, paidTwice, terms>>
               /\ Turn(t)
               /\ At(t, "change", "post")
               /\ \/ UNCHANGED <<subscriptions, events>> /\ tasks'[t] = Idle
                  \/ /\ Alters(id)
                     /\ subscriptions'[id].status = subscriptions[id].status
                     /\ Changed(t).id = id
                     /\ Changed(t).status = subscriptions[id].status
                     /\ tasks'[t] = Fetching(tasks[t], Changed(t))
<1> DEFINE id == tasks[t].of
<1>1. UNCHANGED <<sessions, keys, paidTwice, terms>> /\ At(t, "change", "post")
  BY DEF ChangePlanPost
<1>2. /\ WellFormed(tasks[t], Ids) /\ tasks[t].doing = "change" /\ id \in Ids
      /\ tasks[t].plan \in SelfServe
  BY <1>1, TaskFacts DEF At, Refers, TaskType
<1>3. /\ Snapshot(id) \in SnapshotType /\ id \in Nat /\ Snapshot(id).id = id
      /\ Snapshot(id).status = subscriptions[id].status
  BY <1>2, SnapshotFacts
<1>4. \/ UNCHANGED <<subscriptions, events>> /\ Go(t, Idle)
      \/ /\ subscriptions' = [subscriptions EXCEPT ![id].plan = tasks[t].plan]
         /\ events' = events \cup {Sync(id)}
         /\ Go(t, Fetching(tasks[t], Changed(t)))
  BY DEF ChangePlanPost, Done, Fetched, Fetching, Changed
<1>5. /\ Changed(t) \in SnapshotType /\ Changed(t).id = id
      /\ Changed(t).status = subscriptions[id].status
  BY <1>2, <1>3 DEF Changed, SnapshotType
<1> HIDE DEF id
<1>6. CASE UNCHANGED <<subscriptions, events>> /\ Go(t, Idle)
  <2>1. Evolves /\ Ids' = Ids
    BY <1>6, StillEvolves DEF Ids
  <2>2. KeysInv' /\ EventsInv' /\ paidTwice' \in BOOLEAN
    BY <1>1, <1>6, <2>1 DEF TypeInv, KeysInv, EventsInv
  <2>3. TypeInv' /\ Turn(t) /\ tasks'[t] = Idle
    BY <1>1, <1>6, <2>1, <2>2, IdleTask, OutsideGo
  <2> QED
    BY <1>1, <1>6, <2>3
<1>7. CASE /\ subscriptions' = [subscriptions EXCEPT ![id].plan = tasks[t].plan]
           /\ events' = events \cup {Sync(id)}
           /\ Go(t, Fetching(tasks[t], Changed(t)))
  <2> DEFINE sub == [subscriptions[id] EXCEPT !.plan = tasks[t].plan]
  <2>1. subscriptions[id] \in Subscription
    BY <1>2, ElementOfSeq, LenProperties DEF TypeInv, Ids
  <2>2. /\ sub \in Subscription /\ sub.status = subscriptions[id].status
        /\ sub.session = subscriptions[id].session
    BY <1>2, <2>1 DEF Subscription
  <2>3. subscriptions' = [subscriptions EXCEPT ![id] = sub]
    BY <1>7
  <2> HIDE DEF sub
  <2>4. subscriptions \in Seq(Subscription) /\ id \in DOMAIN subscriptions
    BY <1>2 DEF TypeInv, Ids
  <2>5. /\ subscriptions' \in Seq(Subscription)
        /\ DOMAIN subscriptions' = DOMAIN subscriptions
        /\ \A j \in DOMAIN subscriptions \ {id} : subscriptions'[j] = subscriptions[j]
        /\ subscriptions'[id] = sub
    BY <2>2, <2>3, <2>4, ChangedSeq
  <2>6. Alters(id) /\ subscriptions'[id].status = subscriptions[id].status
    BY <1>7, <2>2, <2>4, <2>5 DEF Alters
  <2>7. Evolves /\ Ids' = Ids
    BY <2>5, <2>6, AltersEvolves DEF Ids
  <2>8. KeysInv' /\ paidTwice' \in BOOLEAN
    BY <1>1, <2>7 DEF TypeInv, KeysInv, Evolves
  <2>9. EventsInv'
    BY <1>2, <1>3, <1>7, <2>7 DEF TypeInv, EventsInv, Sync, EventType, EventRefers
  <2>10. WellFormed(Fetching(tasks[t], Changed(t)), Ids')
    BY <1>2, <1>5, <2>7, FetchedTask
  <2>11. TypeInv' /\ Turn(t) /\ tasks'[t] = Fetching(tasks[t], Changed(t))
    BY <1>1, <1>7, <2>7, <2>8, <2>9, <2>10, OutsideGo
  <2> QED
    BY <1>1, <1>5, <2>6, <2>11 DEF id
<1> QED
  BY <1>4, <1>6, <1>7

\* A webhook that fails is delivered again.
LEMMA FailEffect ==
    ASSUME TypeInv, NEW t \in Tasks, Fail(t)
    PROVE  /\ TypeInv'
           /\ UNCHANGED <<subscriptions, keys, paidTwice, terms>>
           /\ Turn(t)
           /\ events \subseteq events'
           /\ tasks[t].doing = "sync" => Sync(tasks[t].of) \in events'
           /\ tasks'[t] = Idle
<1>1. /\ UNCHANGED <<subscriptions, sessions, keys, paidTwice, terms>>
      /\ events' = events \cup Redelivered(t)
      /\ Go(t, Idle)
  BY DEF Fail, Done
<1>2. Evolves /\ Ids' = Ids
  BY <1>1, StillEvolves DEF Ids
<1>3. tasks[t] \in TaskType /\ Refers(tasks[t], Ids)
  BY TaskFacts
<1>4. \A e \in Redelivered(t) : e \in EventType /\ EventRefers(e, Ids)
  BY <1>3 DEF Redelivered, Refers, TaskType, EventType, EventRefers
<1>5. KeysInv' /\ EventsInv' /\ paidTwice' \in BOOLEAN
  BY <1>1, <1>2, <1>4 DEF TypeInv, KeysInv, EventsInv
<1>6. TypeInv' /\ Turn(t) /\ tasks'[t] = Idle
  BY <1>1, <1>2, <1>5, IdleTask, OutsideGo
<1>7. tasks[t].doing = "sync" => Sync(tasks[t].of) \in events'
  BY <1>1 DEF Redelivered, Sync
<1> QED
  BY <1>1, <1>6, <1>7

\* A customer completes a session: a subscription of no session is made, or
\* the annual one is due.
LEMMA CompleteEffect ==
    ASSUME TypeInv, NEW s \in Sessions, Complete(s)
    PROVE  /\ TypeInv'
           /\ UNCHANGED <<keys, terms, tasks, overlapped>>
           /\ events \subseteq events'
           /\ \/ Makes(0) /\ NotePayers
              \/ UNCHANGED <<subscriptions, paidTwice>>
<1>1. /\ UNCHANGED <<keys, terms, tasks, overlapped>>
      /\ sessions' = [r \in Sessions |-> sessions'[r]]
  BY DEF Complete, TypeInv
<1>2. \/ \E status \in {"active", "incomplete"} : Created(0, status, "builder")
      \/ events' = events \cup {Annual(s)} /\ UNCHANGED <<subscriptions, paidTwice>>
  BY DEF Complete
<1>3. ASSUME Evolves, EventsInv', paidTwice' \in BOOLEAN
      PROVE  TypeInv'
  <2>1. TasksInv' /\ overlapped' \in BOOLEAN
    BY <1>1, <1>3, TasksStay
  <2>2. TermsInv' /\ KeysInv'
    BY <1>1, <1>3 DEF TypeInv, TermsInv, KeysInv, Evolves
  <2> QED
    BY <1>1, <1>3, <2>1, <2>2 DEF TypeInv, Evolves
<1>4. CASE \E status \in {"active", "incomplete"} : Created(0, status, "builder")
  <2>1. PICK status \in {"active", "incomplete"} : Created(0, status, "builder")
    BY <1>4
  <2>2. Makes(0) /\ NotePayers
    BY <2>1, CreatedMakes DEF Created, Statuses
  <2>3. Evolves
    BY <2>2, MakesEvolves
  <2> DEFINE new == Len(subscriptions) + 1
  <2>4. events' = events \cup {Sync(new)} /\ new \in Nat /\ new \in Ids'
    BY <2>2 DEF Makes, Ids
  <2>5. EventsInv'
    <3>1. \A e \in events : e \in EventType /\ EventRefers(e, Ids')
      BY <2>3, StillRefers DEF TypeInv, EventsInv, Evolves
    <3>2. Sync(new) \in EventType /\ EventRefers(Sync(new), Ids')
      BY <2>4 DEF Sync, EventType, EventRefers
    <3> QED
      BY <2>4, <3>1, <3>2 DEF EventsInv
  <2>6. paidTwice' \in BOOLEAN
    BY <2>2 DEF NotePayers, TypeInv
  <2> QED
    BY <1>1, <1>3, <2>2, <2>3, <2>4, <2>5, <2>6
<1>5. CASE events' = events \cup {Annual(s)} /\ UNCHANGED <<subscriptions, paidTwice>>
  <2>1. Evolves /\ Ids' = Ids
    BY <1>5, StillEvolves DEF Ids
  <2>2. Annual(s) \in EventType /\ EventRefers(Annual(s), Ids)
    BY SessionsArePositive DEF Annual, EventType, EventRefers
  <2>3. EventsInv' /\ paidTwice' \in BOOLEAN
    BY <1>5, <2>1, <2>2 DEF TypeInv, EventsInv
  <2> QED
    BY <1>1, <1>3, <1>5, <2>1, <2>3
<1> QED
  BY <1>2, <1>4, <1>5

\* A subscription's status changes.
LEMMA ChangeEffect ==
    ASSUME TypeInv, NEW id \in DOMAIN subscriptions, Change(id)
    PROVE  /\ TypeInv'
           /\ UNCHANGED <<keys, terms, tasks, overlapped>>
           /\ Alters(id)
           /\ NotePayers
<1>1. UNCHANGED <<sessions, keys, terms, tasks, overlapped>> /\ NotePayers
      /\ events' = events \cup {Sync(id)}
  BY DEF Change
<1>2. PICK status \in After(subscriptions[id].status) :
        subscriptions' = [subscriptions EXCEPT ![id].status = status]
  BY DEF Change
<1>3. status \in Statuses
  BY <1>2 DEF After, Statuses
<1> DEFINE sub == [subscriptions[id] EXCEPT !.status = status]
<1>4. subscriptions[id] \in Subscription /\ id \in Nat
  BY ElementOfSeq, LenProperties, IdsArePositive DEF TypeInv, Ids
<1>5. sub \in Subscription /\ sub.session = subscriptions[id].session
  BY <1>3, <1>4 DEF Subscription
<1>6. subscriptions' = [subscriptions EXCEPT ![id] = sub]
  BY <1>2
<1> HIDE DEF sub
<1>7. subscriptions \in Seq(Subscription)
  BY DEF TypeInv
<1>8. /\ subscriptions' \in Seq(Subscription)
      /\ DOMAIN subscriptions' = DOMAIN subscriptions
      /\ \A j \in DOMAIN subscriptions \ {id} : subscriptions'[j] = subscriptions[j]
      /\ subscriptions'[id] = sub
  BY <1>5, <1>6, <1>7, ChangedSeq
<1>9. Alters(id)
  BY <1>1, <1>5, <1>8 DEF Alters
<1>10. Evolves /\ Ids' = Ids
  BY <1>8, <1>9, AltersEvolves DEF Ids
<1>11. TasksInv' /\ overlapped' \in BOOLEAN
  BY <1>1, <1>10, TasksStay
<1>12. EventsInv'
  BY <1>1, <1>4, <1>10 DEF TypeInv, EventsInv, Sync, EventType, EventRefers, Ids
<1>13. KeysInv' /\ TermsInv'
  BY <1>1, <1>10 DEF TypeInv, KeysInv, TermsInv, Evolves
<1>14. paidTwice' \in BOOLEAN
  BY <1>1 DEF NotePayers, TypeInv
<1> QED
  BY <1>1, <1>8, <1>9, <1>11, <1>12, <1>13, <1>14 DEF TypeInv

\* Stripe forgets a key.
LEMMA ForgetKeyEffect ==
    ASSUME TypeInv, NEW s \in Sessions, ForgetKey(s)
    PROVE  /\ TypeInv'
           /\ UNCHANGED <<subscriptions, events, terms, tasks, overlapped, paidTwice>>
           /\ \A t \in Tasks : tasks[t].doing # "annual"
           /\ \A r \in Sessions : keys'[r] # NoSnapshot => keys'[r] = keys[r]
<1>1. /\ UNCHANGED <<subscriptions, sessions, events, terms, tasks, overlapped, paidTwice>>
      /\ \A t \in Tasks : tasks[t].doing # "annual"
      /\ keys' = [keys EXCEPT ![s] = NoSnapshot]
  BY DEF ForgetKey
<1>2. keys \in [Sessions -> SnapshotType] /\ NoSnapshot \in SnapshotType
  BY DEF TypeInv, KeysInv, NoSnapshot, SnapshotType, Statuses, SelfServe
<1>3. keys' \in [Sessions -> SnapshotType] /\ \A r \in Sessions : keys'[r] # NoSnapshot => keys'[r] = keys[r]
  BY <1>1, <1>2
<1>4. Evolves /\ Ids' = Ids
  BY <1>1, StillEvolves DEF Ids
<1>5. KeysInv'
  BY <1>1, <1>3, <1>4 DEF TypeInv, KeysInv
<1>6. TasksInv' /\ overlapped' \in BOOLEAN
  BY <1>1, <1>4, TasksStay
<1>7. EventsInv' /\ TermsInv'
  BY <1>1, <1>4 DEF TypeInv, EventsInv, TermsInv
<1> QED
  BY <1>1, <1>3, <1>5, <1>6, <1>7 DEF TypeInv

\* The initial state.
LEMMA TypeInit ==
    ASSUME Init PROVE TypeInv
<1>1. subscriptions = <<>> /\ <<>> \in Seq(Subscription)
  BY EmptySeq DEF Init
<1>2. keys = [s \in Sessions |-> NoSnapshot] /\ NoSnapshot \in SnapshotType
  BY DEF Init, NoSnapshot, SnapshotType, Statuses, SelfServe
<1>3. KeysInv
  BY <1>2 DEF KeysInv
<1>4. TermsInv
  BY SubscriptionsAssumption DEF Init, TermsInv, TermsType, NoSubscription, Asked, Statuses
<1>5. EventsInv
  BY DEF Init, EventsInv
<1>6. TasksInv
  BY IdleTask DEF Init, TasksInv
<1> QED
  BY <1>1, <1>3, <1>4, <1>5, <1>6 DEF Init, TypeInv

\* Every step keeps it.
LEMMA TypeStep ==
    ASSUME TypeInv, [Next]_vars PROVE TypeInv'
<1>1. ASSUME NEW t \in Tasks, NEW e \in events, Deliver(t, e) PROVE TypeInv'
  BY <1>1, DeliverEffect
<1>2. ASSUME NEW t \in Tasks, Checkout(t) PROVE TypeInv'
  BY <1>2, CheckoutEffect
<1>3. ASSUME NEW t \in Tasks, ChangePlan(t) PROVE TypeInv'
  BY <1>3, ChangePlanEffect
<1>4. ASSUME NEW t \in Tasks, Step(t) PROVE TypeInv'
  <2>1. CASE ReadTerms(t)
    BY <2>1, ReadTermsEffect
  <2>2. CASE WriteTerms(t)
    BY <2>2, WriteTermsEffect
  <2>3. CASE AnnualFind(t)
    BY <2>3, AnnualFindEffect
  <2>4. CASE AnnualCreate(t)
    BY <2>4, AnnualCreateEffect
  <2>5. CASE CheckoutPost(t)
    BY <2>5, CheckoutPostEffect
  <2>6. CASE ChangePlanPost(t)
    BY <2>6, ChangePlanPostEffect
  <2> QED
    BY <1>4, <2>1, <2>2, <2>3, <2>4, <2>5, <2>6 DEF Step
<1>5. ASSUME NEW t \in Tasks, Fail(t) PROVE TypeInv'
  BY <1>5, FailEffect
<1>6. ASSUME NEW t \in Tasks, AnnualAnswerLost(t) PROVE TypeInv'
  BY <1>6, AnnualAnswerLostEffect
<1>7. ASSUME NEW s \in Sessions, Complete(s) PROVE TypeInv'
  BY <1>7, CompleteEffect
<1>8. ASSUME NEW s \in Sessions, ForgetKey(s) PROVE TypeInv'
  BY <1>8, ForgetKeyEffect
<1>9. ASSUME NEW id \in DOMAIN subscriptions, Change(id) PROVE TypeInv'
  BY <1>9, ChangeEffect
<1>10. CASE UNCHANGED vars
  BY <1>10 DEF vars, TypeInv, KeysInv, TermsInv, EventsInv, TasksInv, Ids
<1> QED
  BY <1>1, <1>2, <1>3, <1>4, <1>5, <1>6, <1>7, <1>8, <1>9, <1>10 DEF Next

\* Types: tasks, terms, keys and events name sessions and subscriptions that
\* exist, and a task is where its request may be.
THEOREM TypeCorrect == Spec => []TypeInv
<1>1. Init => TypeInv
  BY TypeInit
<1>2. TypeInv /\ [Next]_vars => TypeInv'
  BY TypeStep
<1> QED
  BY <1>1, <1>2, PTL DEF Spec

-----------------------------------------------------------------------------
(***************************************************************************)
(* One annual subscription per session.                                    *)
(***************************************************************************)

\* A task that will create one, unless Stripe remembers the key, found none:
\* the key guards the time between the lookup and the creation, and the lookup
\* the time after Stripe forgot the key.
OnceInv ==
    /\ AnnualOnce
    /\ \A t \in Tasks : At(t, "annual", "create") /\ keys[tasks[t].of] = NoSnapshot =>
          CreatedFor(tasks[t].of) = {}

\* What the new records of tasks are at and of.
LEMMA Places ==
    /\ Idle.doing = "idle" /\ Idle.at = "start"
    /\ CheckingOut.doing = "checkout" /\ CheckingOut.at = "post"
    /\ \A x, y : /\ Syncing(x).doing = "sync" /\ Syncing(x).at = "terms"
                 /\ Fetching(x, y).at = "terms"
                 /\ Listing(x, y).doing = "annual" /\ Listing(x, y).at = "list"
                 /\ Changing(x, y).doing = "change" /\ Changing(x, y).at = "post"
                 /\ Creating(x).doing = "annual" /\ Creating(x).at = "create" /\ Creating(x).of = x
    /\ \A x \in TaskType : \A y : Writing(x, y).at = "write"
BY DEF Idle, CheckingOut, Syncing, Fetching, Listing, Changing, Creating, Writing, TaskType

\* What was created for sessions stays the same.
LEMMA CreatedForStays ==
    ASSUME TypeInv,
           UNCHANGED subscriptions \/ Makes(0) \/ \E id \in DOMAIN subscriptions : Alters(id)
    PROVE  \A s \in Sessions : CreatedFor(s)' = CreatedFor(s)
<1>1. 0 \notin Sessions
  BY SessionsArePositive
<1> QED
  BY <1>1 DEF CreatedFor, Makes, Alters

\* A step of a task that creates nothing.
LEMMA OnceTurn ==
    ASSUME TypeInv, OnceInv, TypeInv', NEW t \in Tasks, Turn(t), UNCHANGED keys,
           UNCHANGED subscriptions \/ \E id \in DOMAIN subscriptions : Alters(id),
           tasks'[t].doing = "annual" /\ tasks'[t].at = "create" => CreatedFor(tasks'[t].of) = {}
    PROVE  OnceInv'
<1>1. \A s \in Sessions : CreatedFor(s)' = CreatedFor(s)
  BY CreatedForStays
<1>2. AnnualOnce'
  BY <1>1 DEF OnceInv, AnnualOnce
<1>3. ASSUME NEW u \in Tasks, At(u, "annual", "create")', keys'[tasks'[u].of] = NoSnapshot
      PROVE  CreatedFor(tasks[u].of)' = {}
  <2>1. tasks'[u].of \in Sessions
    BY <1>3 DEF TypeInv, TasksInv, WellFormed, Refers, At
  <2>2. CreatedFor(tasks'[u].of) = {}
    BY <1>3 DEF OnceInv, Turn, At
  <2> QED
    BY <1>1, <2>1, <2>2 DEF CreatedFor
<1> QED
  BY <1>2, <1>3 DEF OnceInv, At

\* A step of none that creates nothing for a session, and forgets at most keys.
LEMMA OnceStill ==
    ASSUME TypeInv, OnceInv, TypeInv', UNCHANGED tasks,
           UNCHANGED subscriptions \/ Makes(0) \/ \E id \in DOMAIN subscriptions : Alters(id),
           UNCHANGED keys \/ \A t \in Tasks : tasks[t].doing # "annual"
    PROVE  OnceInv'
<1>1. \A s \in Sessions : CreatedFor(s)' = CreatedFor(s)
  BY CreatedForStays
<1>2. AnnualOnce'
  BY <1>1 DEF OnceInv, AnnualOnce
<1>3. ASSUME NEW u \in Tasks, At(u, "annual", "create")', keys'[tasks'[u].of] = NoSnapshot
      PROVE  CreatedFor(tasks[u].of)' = {}
  <2>1. tasks'[u].of \in Sessions
    BY <1>3 DEF TypeInv, TasksInv, WellFormed, Refers, At
  <2>2. CreatedFor(tasks'[u].of) = {}
    BY <1>3 DEF OnceInv, At
  <2> QED
    BY <1>1, <2>1, <2>2 DEF CreatedFor
<1> QED
  BY <1>2, <1>3 DEF OnceInv, At

\* Stripe creates the annual subscription of a session that had none.
LEMMA OnceAnswers ==
    ASSUME TypeInv, OnceInv, TypeInv', NEW t \in Tasks, Turn(t), At(t, "annual", "create"),
           NEW status, Answers(tasks[t].of, status), tasks'[t].at # "create"
    PROVE  OnceInv'
<1>0. PICK s : s = tasks[t].of
  OBVIOUS
<1> DEFINE new == Len(subscriptions) + 1
<1>1. s \in Sessions
  BY <1>0, TaskFacts DEF At, Refers
<1>2. CreatedFor(s) = {}
  BY <1>0 DEF OnceInv, Answers
<1>3. /\ new \in Nat
      /\ DOMAIN subscriptions' = DOMAIN subscriptions \cup {new}
      /\ new \notin DOMAIN subscriptions
      /\ \A i \in DOMAIN subscriptions : subscriptions'[i] = subscriptions[i]
      /\ subscriptions'[new].session = s
  BY <1>0 DEF Answers, Makes
<1>4. CreatedFor(s)' = {new}
  BY <1>2, <1>3 DEF CreatedFor
<1>5. \A r \in Sessions \ {s} : CreatedFor(r)' = CreatedFor(r)
  BY <1>1, <1>3 DEF CreatedFor
<1>6. Cardinality({new}) = 1
  BY FS_Singleton
<1>7. AnnualOnce'
  <2>1. ASSUME NEW r \in Sessions PROVE Cardinality(CreatedFor(r)') <= 1
    <3>1. CASE r = s
      <4>1. Cardinality(CreatedFor(r)') = 1
        BY <1>4, <1>6, <3>1
      <4> QED
        BY <4>1
    <3>2. CASE r # s
      <4>1. CreatedFor(r)' = CreatedFor(r)
        BY <1>5, <3>2
      <4>2. Cardinality(CreatedFor(r)) <= 1
        BY DEF OnceInv, AnnualOnce
      <4> QED
        BY <4>1, <4>2
    <3> QED
      BY <3>1, <3>2
  <2> QED
    BY <2>1 DEF AnnualOnce
<1>8. new # 0
  BY LenProperties DEF TypeInv
<1>9. keys'[s] # NoSnapshot /\ \A r \in Sessions \ {s} : keys'[r] = keys[r]
  BY <1>0, <1>1, <1>8 DEF Answers, TypeInv, KeysInv, New, NoSnapshot
<1>10. ASSUME NEW u \in Tasks, At(u, "annual", "create")', keys'[tasks'[u].of] = NoSnapshot
       PROVE  CreatedFor(tasks[u].of)' = {}
  <2>1. tasks'[u].of \in Sessions
    BY <1>10 DEF TypeInv, TasksInv, WellFormed, Refers, At
  <2>2. tasks'[u].of # s /\ keys[tasks'[u].of] = NoSnapshot
    BY <1>9, <1>10, <2>1
  <2>3. CreatedFor(tasks'[u].of) = {}
    BY <1>10, <2>2 DEF OnceInv, Turn, At
  <2> QED
    BY <1>5, <2>1, <2>2, <2>3 DEF CreatedFor
<1> QED
  BY <1>7, <1>10 DEF OnceInv, At

\* Every step keeps it.
LEMMA OnceStep ==
    ASSUME TypeInv, OnceInv, [Next]_vars PROVE OnceInv'
<1>0. TypeInv'
  BY TypeStep
<1>1. ASSUME NEW t \in Tasks, NEW e \in events, Deliver(t, e) PROVE OnceInv'
  BY <1>0, <1>1, DeliverEffect, OnceTurn, Places
<1>2. ASSUME NEW t \in Tasks, Checkout(t) PROVE OnceInv'
  BY <1>0, <1>2, CheckoutEffect, OnceTurn, Places DEF stripe
<1>3. ASSUME NEW t \in Tasks, ChangePlan(t) PROVE OnceInv'
  BY <1>0, <1>3, ChangePlanEffect, OnceTurn, Places DEF stripe
<1>4. ASSUME NEW t \in Tasks, Step(t) PROVE OnceInv'
  <2>1. CASE ReadTerms(t)
    BY <1>0, <2>1, ReadTermsEffect, TaskFacts, OnceTurn, Places DEF stripe
  <2>2. CASE WriteTerms(t)
    BY <1>0, <2>2, WriteTermsEffect, OnceTurn, Places DEF stripe
  <2>3. CASE AnnualFind(t)
    BY <1>0, <2>3, AnnualFindEffect, OnceTurn, Places DEF stripe
  <2>4. CASE AnnualCreate(t)
    <3>1. /\ Turn(t) /\ At(t, "annual", "create")
          /\ \/ UNCHANGED <<subscriptions, keys>>
             \/ \E status \in {"active", "incomplete"} : Answers(tasks[t].of, status)
      BY <2>4, AnnualCreateEffect
    <3>2. tasks'[t].at # "create"
      BY <2>4, AnnualCreateEffect, Places
    <3> QED
      BY <1>0, <3>1, <3>2, OnceTurn, OnceAnswers
  <2>5. CASE CheckoutPost(t)
    BY <1>0, <2>5, CheckoutPostEffect, OnceTurn, Places
  <2>6. CASE ChangePlanPost(t)
    <3>1. /\ Turn(t) /\ UNCHANGED keys
          /\ UNCHANGED subscriptions \/ \E id \in DOMAIN subscriptions : Alters(id)
      BY <2>6, ChangePlanPostEffect DEF Alters
    <3>2. tasks'[t].at # "create"
      BY <2>6, ChangePlanPostEffect, Places
    <3> QED
      BY <1>0, <3>1, <3>2, OnceTurn
  <2> QED
    BY <1>4, <2>1, <2>2, <2>3, <2>4, <2>5, <2>6 DEF Step
<1>5. ASSUME NEW t \in Tasks, Fail(t) PROVE OnceInv'
  BY <1>0, <1>5, FailEffect, OnceTurn, Places
<1>6. ASSUME NEW t \in Tasks, AnnualAnswerLost(t) PROVE OnceInv'
  BY <1>0, <1>6, AnnualAnswerLostEffect, OnceAnswers, Places
<1>7. ASSUME NEW s \in Sessions, Complete(s) PROVE OnceInv'
  BY <1>0, <1>7, CompleteEffect, OnceStill
<1>8. ASSUME NEW s \in Sessions, ForgetKey(s) PROVE OnceInv'
  BY <1>0, <1>8, ForgetKeyEffect, OnceStill
<1>9. ASSUME NEW id \in DOMAIN subscriptions, Change(id) PROVE OnceInv'
  BY <1>0, <1>9, ChangeEffect, OnceStill
<1>10. CASE UNCHANGED vars
  BY <1>10 DEF vars, OnceInv, AnnualOnce, CreatedFor, At
<1> QED
  BY <1>1, <1>2, <1>3, <1>4, <1>5, <1>6, <1>7, <1>8, <1>9, <1>10 DEF Next

\* A checkout for a year gets at most one subscription, however often its
\* completion is delivered and whatever fails in between (billing.rs
\* complete_annual_checkout).
THEOREM AnnualOnceTheorem == Spec => []AnnualOnce
<1>1. Init => OnceInv
  <2> SUFFICES ASSUME Init PROVE OnceInv
    OBVIOUS
  <2>1. subscriptions = <<>> /\ \A t \in Tasks : tasks[t].at = "start"
    BY Places DEF Init
  <2>2. \A s : CreatedFor(s) = {}
    BY <2>1 DEF CreatedFor
  <2> QED
    BY <2>1, <2>2, FS_EmptySet DEF OnceInv, AnnualOnce, At
<1>2. TypeInv /\ OnceInv /\ [Next]_vars => OnceInv'
  BY OnceStep
<1>3. OnceInv => AnnualOnce
  BY DEF OnceInv
<1> QED
  BY <1>1, <1>2, <1>3, TypeCorrect, PTL DEF Spec

-----------------------------------------------------------------------------
(***************************************************************************)
(* The terms follow Stripe.                                                *)
(***************************************************************************)

\* Terms say of a subscription what Stripe says: its status, and its plan
\* while it pays; or that it is another one, when it does not pay.
Tells(t, id, sub) ==
    /\ t.subscription.id # 0
    /\ t.subscription.id = id =>
          /\ t.subscription.status = sub.status
          /\ GrantsPlan(sub.status) => t.plan = sub.plan
    /\ t.subscription.id # id => ~GrantsPlan(sub.status)

\* They do, or an event of it is due.
Known(t, id, subs, due) == Tells(t, id, subs[id]) \/ Sync(id) \in due
AllKnown(t, subs, due) == \A id \in DOMAIN subs : Known(t, id, subs, due)

\* What a task is about to apply is what Stripe says, or an event of it is
\* due; and when it pays, no other one pays unless an event of that is due.
Fresh(s, subs, due) ==
    /\ (s.status = subs[s.id].status /\ s.plan = subs[s.id].plan) \/ Sync(s.id) \in due
    /\ GrantsPlan(s.status) => \A id \in DOMAIN subs \ {s.id} :
          ~GrantsPlan(subs[id].status) \/ Sync(id) \in due

\* One task at most reads what it will write, unless tasks overlapped.
AloneInv == ~overlapped => \A t, u \in Tasks : Reads(tasks[t]) /\ Reads(tasks[u]) => t = u

\* One subscription at most pays, unless two did.
PayerInv == ~paidTwice => \A i, j \in Paying(subscriptions) : i = j

\* A plan comes with a subscription that pays.
Fits(t) == ~IsSubscribed(t) => t.plan \notin SelfServe
PlannedInv == Fits(terms) /\ \A t \in Tasks : tasks[t].at = "write" => Fits(tasks[t].known)

\* What terms do not tell yet is due, or being applied; what is applied is
\* fresh, what is written tells everything not due; and a task that will create
\* an annual subscription gets no old answer for it.
Following ==
    /\ \A id \in Ids : \/ Known(terms, id, subscriptions, events)
                      \/ \E t \in Tasks : tasks[t].doing = "sync" /\ tasks[t].of = id
    /\ \A t \in Tasks : tasks[t].at = "terms" => Fresh(tasks[t].snapshot, subscriptions, events)
    /\ \A t \in Tasks : tasks[t].at = "write" => AllKnown(tasks[t].known, subscriptions, events)
    /\ \A t \in Tasks : At(t, "annual", "create") => keys[tasks[t].of] = NoSnapshot

FollowsInv == ~overlapped /\ ~paidTwice => Following

\* What the new records of tasks hold.
LEMMA Contents ==
    /\ \A x, y : /\ Syncing(x).of = x.id /\ Syncing(x).snapshot = x
                 /\ Fetching(x, y).doing = x.doing /\ Fetching(x, y).of = x.of
                 /\ Fetching(x, y).snapshot = y
                 /\ Creating(x).of = x
    /\ \A x \in TaskType : \A y :
          /\ Writing(x, y).known = y
          /\ Writing(x, y).doing = x.doing /\ Writing(x, y).of = x.of
BY DEF Idle, Syncing, Fetching, Creating, Writing, TaskType

\* What is applied tells everything not due.
LEMMA AppliedIsKnown ==
    ASSUME NEW current, NEW s, NEW subs, NEW due,
           s.id # 0, Fresh(s, subs, due),
           Applied(current, s).subscription.id = s.id,
           Applied(current, s).subscription.status = s.status,
           current.subscription.id \in {0, s.id} \/ GrantsPlan(s.status),
           \A id \in DOMAIN subs \ {s.id} : Known(current, id, subs, due)
    PROVE  AllKnown(Applied(current, s), subs, due)
<1>1. GrantsPlan(s.status) => Applied(current, s).plan = s.plan
  BY DEF Applied
<1>2. Known(Applied(current, s), s.id, subs, due)
  BY <1>1 DEF Known, Tells, Fresh
<1>3. ASSUME NEW id \in DOMAIN subs \ {s.id} PROVE Known(Applied(current, s), id, subs, due)
  <2>1. CASE GrantsPlan(s.status)
    BY <2>1 DEF Known, Tells, Fresh
  <2>2. CASE ~GrantsPlan(s.status)
    <3>1. Known(current, id, subs, due) /\ current.subscription.id \in {0, s.id}
      BY <2>2
    <3> QED
      BY <3>1 DEF Known, Tells
  <2> QED
    BY <2>1, <2>2
<1> QED
  BY <1>2, <1>3 DEF AllKnown

\* What is not applied was known.
LEMMA NothingNewIsKnown ==
    ASSUME NEW current, NEW s, NEW subs, NEW due,
           s.id # 0, Fresh(s, subs, due),
           Applied(current, s).subscription.id = s.id,
           Applied(current, s).subscription.status = s.status,
           \/ current.subscription.id \notin {0, s.id} /\ ~GrantsPlan(s.status)
           \/ Applied(current, s) = current
    PROVE  Known(current, s.id, subs, due)
<1>1. GrantsPlan(s.status) => Applied(current, s).plan = s.plan
  BY DEF Applied
<1> QED
  BY <1>1 DEF Known, Tells, Fresh

\* Plans fit what is applied.
LEMMA AppliedFits ==
    ASSUME NEW current, NEW s, Fits(current), s.id # 0
    PROVE  Fits(Applied(current, s))
BY DEF Applied, Fits, IsSubscribed, SelfServe, NoSubscription

\* Every step but a delivery keeps the events, and leaves one due for each
\* subscription it makes or changes.
Keeps ==
    /\ events \subseteq events'
    /\ Ids \subseteq Ids'
    /\ \A id \in Ids' : (id \in Ids /\ subscriptions'[id] = subscriptions[id]) \/ Sync(id) \in events'

\* So what was known or fresh is.
LEMMA StaysKnown ==
    ASSUME Keeps, NEW x
    PROVE  /\ \A id \in Ids : Known(x, id, subscriptions, events) => Known(x, id, subscriptions', events')
           /\ \A id \in Ids' \ Ids : Known(x, id, subscriptions', events')
           /\ AllKnown(x, subscriptions, events) => AllKnown(x, subscriptions', events')
           /\ x.id \in Ids /\ Fresh(x, subscriptions, events) => Fresh(x, subscriptions', events')
<1>1. \A id \in Ids : Known(x, id, subscriptions, events) => Known(x, id, subscriptions', events')
  BY DEF Keeps, Known
<1>2. \A id \in Ids' \ Ids : Known(x, id, subscriptions', events')
  BY DEF Keeps, Known
<1>3. AllKnown(x, subscriptions, events) => AllKnown(x, subscriptions', events')
  BY <1>1, <1>2 DEF AllKnown, Ids
<1>4. ASSUME x.id \in Ids, Fresh(x, subscriptions, events) PROVE Fresh(x, subscriptions', events')
  <2>1. \/ x.status = subscriptions'[x.id].status /\ x.plan = subscriptions'[x.id].plan
        \/ Sync(x.id) \in events'
    BY <1>4 DEF Keeps, Fresh
  <2>2. ASSUME GrantsPlan(x.status), NEW id \in Ids' \ {x.id}
        PROVE  ~GrantsPlan(subscriptions'[id].status) \/ Sync(id) \in events'
    BY <1>4, <2>2 DEF Keeps, Fresh, Ids
  <2> QED
    BY <2>1, <2>2 DEF Fresh, Ids
<1> QED
  BY <1>1, <1>2, <1>3, <1>4

LEMMA MakesKeeps ==
    ASSUME NEW s, Makes(s) PROVE Keeps
BY DEF Makes, Keeps, Ids

LEMMA AltersKeeps ==
    ASSUME NEW id, Alters(id) PROVE Keeps
BY DEF Alters, Keeps, Ids

LEMMA StillKeeps ==
    ASSUME UNCHANGED subscriptions, events \subseteq events' PROVE Keeps
BY DEF Keeps, Ids

\* Who pays, when it is noted that two do.
LEMMA PayersNoted ==
    ASSUME TypeInv, PayerInv, TypeInv',
           \/ NotePayers
           \/ UNCHANGED paidTwice /\ Paying(subscriptions') \subseteq Paying(subscriptions)
    PROVE  PayerInv'
<1>1. CASE UNCHANGED paidTwice /\ Paying(subscriptions') \subseteq Paying(subscriptions)
  BY <1>1 DEF PayerInv
<1>2. CASE NotePayers
  <2>1. IsFiniteSet(Paying(subscriptions'))
    <3>1. DOMAIN subscriptions' = 1 .. Len(subscriptions') /\ Len(subscriptions') \in Nat
      BY LenProperties DEF TypeInv
    <3>2. IsFiniteSet(1 .. Len(subscriptions'))
      BY <3>1, FS_Interval
    <3> QED
      BY <3>1, <3>2, FS_Subset DEF Paying
  <2>2. ASSUME NEW i \in Paying(subscriptions'), NEW j \in Paying(subscriptions'), i # j
        PROVE  Cardinality(Paying(subscriptions')) > 1
    <3>1. Cardinality({i, j}) = 2
      <4>1. IsFiniteSet({i}) /\ Cardinality({i}) = 1
        BY FS_Singleton
      <4>2. Cardinality({i} \cup {j}) = Cardinality({i}) + 1
        BY <2>2, <4>1, FS_AddElement
      <4>3. {i} \cup {j} = {i, j}
        OBVIOUS
      <4> QED
        BY <4>1, <4>2, <4>3
    <3>2. {i, j} \subseteq Paying(subscriptions')
      OBVIOUS
    <3>3. Cardinality({i, j}) <= Cardinality(Paying(subscriptions'))
      BY <2>1, <3>2, FS_Subset
    <3>4. Cardinality(Paying(subscriptions')) \in Nat
      BY <2>1, FS_CardinalityType
    <3> QED
      BY <3>1, <3>3, <3>4
  <2>3. ~paidTwice' => ~(Cardinality(Paying(subscriptions')) > 1)
    BY <1>2 DEF NotePayers
  <2> QED
    BY <2>2, <2>3 DEF PayerInv
<1> QED
  BY <1>1, <1>2

\* Who pays, when only plans change.
LEMMA SamePayers ==
    ASSUME \/ UNCHANGED subscriptions
           \/ /\ DOMAIN subscriptions' = DOMAIN subscriptions
              /\ \A id \in DOMAIN subscriptions : subscriptions'[id].status = subscriptions[id].status
    PROVE  Paying(subscriptions') \subseteq Paying(subscriptions)
BY DEF Paying

\* A task's turn leaves it the only one that reads.
LEMMA AloneTurn ==
    ASSUME AloneInv, NEW t \in Tasks, Turn(t) PROVE AloneInv'
BY DEF AloneInv, Turn

\* A task's turn in which the terms do not change.
LEMMA FollowTurn ==
    ASSUME TypeInv, Following, NEW t \in Tasks, Turn(t), Keeps, UNCHANGED terms,
           \/ UNCHANGED keys
           \/ \A u \in Tasks \ {t} : ~Reads(tasks[u]),
           tasks[t].doing = "sync" =>
              \/ Known(terms, tasks[t].of, subscriptions', events')
              \/ tasks'[t].doing = "sync" /\ tasks'[t].of = tasks[t].of,
           tasks'[t].at = "terms" => Fresh(tasks'[t].snapshot, subscriptions', events'),
           tasks'[t].at = "write" => AllKnown(tasks'[t].known, subscriptions', events'),
           tasks'[t].doing = "annual" /\ tasks'[t].at = "create" => keys'[tasks'[t].of] = NoSnapshot
    PROVE  Following'
<1>1. ASSUME NEW id \in Ids'
      PROVE  \/ Known(terms', id, subscriptions', events')
             \/ \E u \in Tasks : tasks'[u].doing = "sync" /\ tasks'[u].of = id
  <2>1. CASE id \notin Ids
    BY <1>1, <2>1, StaysKnown
  <2>2. CASE id \in Ids /\ Known(terms, id, subscriptions, events)
    BY <2>2, StaysKnown
  <2>3. CASE \E u \in Tasks : tasks[u].doing = "sync" /\ tasks[u].of = id
    BY <2>3 DEF Turn
  <2> QED
    BY <2>1, <2>2, <2>3 DEF Following
<1>2. ASSUME NEW u \in Tasks, tasks'[u].at = "terms"
      PROVE  Fresh(tasks'[u].snapshot, subscriptions', events')
  <2>1. CASE u = t
    BY <1>2, <2>1
  <2>2. CASE u # t
    <3>1. tasks'[u] = tasks[u]
      BY <2>2 DEF Turn
    <3>2. tasks[u].snapshot.id \in Ids /\ Fresh(tasks[u].snapshot, subscriptions, events)
      BY <1>2, <3>1, TaskFacts DEF Refers, Following
    <3> QED
      BY <3>1, <3>2, StaysKnown
  <2> QED
    BY <2>1, <2>2
<1>3. ASSUME NEW u \in Tasks, tasks'[u].at = "write"
      PROVE  AllKnown(tasks'[u].known, subscriptions', events')
  <2>1. CASE u = t
    BY <1>3, <2>1
  <2>2. CASE u # t
    <3>1. tasks'[u] = tasks[u]
      BY <2>2 DEF Turn
    <3>2. AllKnown(tasks[u].known, subscriptions, events)
      BY <1>3, <3>1 DEF Following
    <3> QED
      BY <3>1, <3>2, StaysKnown
  <2> QED
    BY <2>1, <2>2
<1>4. ASSUME NEW u \in Tasks, tasks'[u].doing = "annual", tasks'[u].at = "create"
      PROVE  keys'[tasks'[u].of] = NoSnapshot
  <2>1. CASE u = t
    BY <1>4, <2>1
  <2>2. CASE u # t
    BY <1>4, <2>2 DEF Turn, Following, At, Reads
  <2> QED
    BY <2>1, <2>2
<1> QED
  BY <1>1, <1>2, <1>3, <1>4 DEF Following, At

\* A step of Stripe's own.
LEMMA FollowStill ==
    ASSUME TypeInv, Following, Keeps, UNCHANGED <<terms, tasks>>,
           UNCHANGED keys \/ \A t \in Tasks : tasks[t].doing # "annual"
    PROVE  Following'
<1>1. ASSUME NEW id \in Ids'
      PROVE  \/ Known(terms', id, subscriptions', events')
             \/ \E u \in Tasks : tasks'[u].doing = "sync" /\ tasks'[u].of = id
  BY StaysKnown DEF Following
<1>2. ASSUME NEW u \in Tasks, tasks'[u].at = "terms"
      PROVE  Fresh(tasks'[u].snapshot, subscriptions', events')
  BY <1>2, StaysKnown, TaskFacts DEF Refers, Following
<1>3. ASSUME NEW u \in Tasks, tasks'[u].at = "write"
      PROVE  AllKnown(tasks'[u].known, subscriptions', events')
  BY <1>3, StaysKnown DEF Following
<1>4. ASSUME NEW u \in Tasks, tasks'[u].doing = "annual", tasks'[u].at = "create"
      PROVE  keys'[tasks'[u].of] = NoSnapshot
  BY <1>4 DEF Following, At
<1> QED
  BY <1>1, <1>2, <1>3, <1>4 DEF Following, At

\* Terms that tell everything not due are written.
LEMMA FollowWrite ==
    ASSUME TypeInv, Following, NEW t \in Tasks, WriteTerms(t)
    PROVE  Following'
<1>1. /\ UNCHANGED stripe /\ tasks[t].at = "write" /\ terms' = tasks[t].known
      /\ tasks'[t] = Idle /\ Turn(t)
  BY WriteTermsEffect
<1>2. AllKnown(terms', subscriptions, events)
  BY <1>1 DEF Following
<1> QED
  BY <1>1, <1>2, Places DEF Following, Turn, stripe, AllKnown, Ids, At

\* A task where it reads, and the id of what it applies.
LEMMA ReadingPlaces ==
    ASSUME TypeInv, NEW t \in Tasks
    PROVE  /\ tasks[t].at \in {"terms", "write", "list", "create"} => Reads(tasks[t])
           /\ tasks[t].doing = "sync" => Reads(tasks[t])
           /\ tasks[t].doing = "idle" => ~Reads(tasks[t])
           /\ tasks[t].at = "terms" => /\ tasks[t].snapshot \in SnapshotType
                                      /\ tasks[t].snapshot.id \in Ids
                                      /\ tasks[t].snapshot.id # 0
<1>1. Stage(tasks[t]) /\ Refers(tasks[t], Ids) /\ tasks[t] \in TaskType
  BY TaskFacts
<1>2. 0 \notin Ids
  BY IdsArePositive
<1> QED
  BY <1>1, <1>2 DEF Stage, Refers, Reads, TaskType

\* A subscription as Stripe answers with it is fresh.
LEMMA SnapshotIsFresh ==
    ASSUME TypeInv, PayerInv, ~paidTwice, NEW id \in Ids, NEW due
    PROVE  Fresh(Snapshot(id), subscriptions, due)
BY SnapshotFacts DEF Fresh, PayerInv, Paying, Ids

\* A delivery makes what was due the business of a task.
LEMMA FollowDeliver ==
    ASSUME TypeInv, PayerInv, ~paidTwice, Following, NEW t \in Tasks, NEW e \in events,
           Deliver(t, e), ~overlapped'
    PROVE  Following'
<1>1. /\ UNCHANGED <<subscriptions, keys, terms>>
      /\ events \ {e} \subseteq events'
      /\ Turn(t)
      /\ tasks[t].doing = "idle"
      /\ \/ /\ e.kind = "sync"
            /\ e.of \in Ids
            /\ tasks'[t] = Syncing(Snapshot(e.of))
         \/ /\ e.kind = "annual"
            /\ tasks'[t] = Listing(e.of, terms)
  BY DeliverEffect
<1>2. Reads(tasks'[t])
  BY <1>1, Places DEF Reads
<1>3. \A u \in Tasks \ {t} : ~Reads(tasks[u]) /\ tasks'[u] = tasks[u]
  BY <1>1, <1>2 DEF Turn
<1>4. \A u \in Tasks \ {t} : tasks'[u].at \notin {"terms", "write", "create"} /\ tasks[u].doing # "sync"
  BY <1>3, ReadingPlaces
<1>5. \A id \in Ids : Known(terms, id, subscriptions, events)
  BY <1>1, <1>4 DEF Following
<1>6. \A id : Sync(id) \in events /\ (e.kind = "sync" => id # e.of) => Sync(id) \in events'
  BY <1>1 DEF Sync
<1>7. CASE e.kind = "sync"
  <2>1. tasks'[t].doing = "sync" /\ tasks'[t].at = "terms"
    BY <1>1, <1>7, Places
  <2>2. tasks'[t].of = e.of /\ tasks'[t].snapshot = Snapshot(e.of)
    BY <1>1, <1>7, Contents, SnapshotFacts
  <2>3. Fresh(tasks'[t].snapshot, subscriptions, events')
    BY <1>1, <1>7, <2>2, SnapshotIsFresh
  <2>4. \A id \in Ids \ {e.of} : Known(terms, id, subscriptions, events')
    BY <1>5, <1>6 DEF Known
  <2> QED
    BY <1>1, <1>4, <2>1, <2>2, <2>3, <2>4 DEF Following, Ids, At
<1>8. CASE e.kind = "annual"
  <2>1. tasks'[t].at = "list"
    BY <1>1, <1>8, Places
  <2>2. \A id \in Ids : Known(terms, id, subscriptions, events')
    BY <1>5, <1>6, <1>8 DEF Known
  <2> QED
    BY <1>1, <1>4, <2>1, <2>2 DEF Following, Ids, At
<1> QED
  BY <1>1, <1>7, <1>8

\* The terms are read: what follows from them and a fresh subscription tells
\* everything not due.
LEMMA FollowRead ==
    ASSUME TypeInv, AloneInv, ~overlapped, Following, NEW t \in Tasks, ReadTerms(t)
    PROVE  Following'
<1> DEFINE s == tasks[t].snapshot
           next == Applied(terms, s)
<1>1. /\ UNCHANGED <<stripe, terms>>
      /\ Turn(t)
      /\ tasks[t].at = "terms"
      /\ IF TermsAfter(terms, s) \subseteq {terms} THEN tasks'[t] = Idle
         ELSE tasks'[t] = Writing(tasks[t], next)
  BY ReadTermsEffect
<1>2. Reads(tasks[t]) /\ s \in SnapshotType /\ s.id \in Ids /\ s.id # 0
  BY <1>1, ReadingPlaces
<1>3. Fresh(s, subscriptions, events)
  BY <1>1 DEF Following
<1>4. /\ next.subscription.id = s.id
      /\ next.subscription.status = s.status
      /\ TermsAfter(terms, s) \subseteq {terms} =>
           \/ terms.subscription.id \notin {0, s.id} /\ ~GrantsPlan(s.status)
           \/ next = terms
      /\ ~(TermsAfter(terms, s) \subseteq {terms}) =>
           terms.subscription.id \in {0, s.id} \/ GrantsPlan(s.status)
  BY <1>2, Applies DEF TypeInv, TermsInv
<1>5. tasks[t].doing = "sync" => tasks[t].of = s.id
  BY <1>1, TaskFacts DEF Refers
<1>6. \A id \in Ids \ {s.id} : Known(terms, id, subscriptions, events)
  <2>1. \A u \in Tasks : tasks[u].doing = "sync" => u = t
    BY <1>2, ReadingPlaces DEF AloneInv
  <2> QED
    BY <1>5, <2>1 DEF Following
<1>7. Keeps /\ UNCHANGED <<subscriptions, events, keys>>
  BY <1>1, StillKeeps DEF stripe
<1>8. CASE TermsAfter(terms, s) \subseteq {terms}
  <2>1. Known(terms, s.id, subscriptions, events)
    BY <1>2, <1>3, <1>4, <1>8, NothingNewIsKnown
  <2>2. tasks'[t].at = "start"
    BY <1>1, <1>8, Places
  <2> QED
    BY <1>1, <1>5, <1>7, <2>1, <2>2, FollowTurn
<1>9. CASE ~(TermsAfter(terms, s) \subseteq {terms})
  <2>1. terms.subscription.id \in {0, s.id} \/ GrantsPlan(s.status)
    BY <1>4, <1>9
  <2>2. AllKnown(next, subscriptions, events)
    BY <1>2, <1>3, <1>4, <1>6, <2>1, AppliedIsKnown DEF Ids
  <2>3. tasks'[t] = Writing(tasks[t], next) /\ tasks[t] \in TaskType
    BY <1>1, <1>9, TaskFacts
  <2>4. tasks'[t].at = "write" /\ tasks'[t].known = next /\ tasks'[t].doing = tasks[t].doing
        /\ tasks'[t].of = tasks[t].of
    BY <2>3, Places, Contents
  <2> HIDE DEF next
  <2> QED
    BY <1>1, <1>7, <2>2, <2>4, FollowTurn
<1> QED
  BY <1>8, <1>9

\* An annual subscription was found, or none and no key's answer is left.
LEMMA FollowFind ==
    ASSUME TypeInv, PayerInv, ~paidTwice, Following, NEW t \in Tasks, AnnualFind(t)
    PROVE  Following'
<1>1. /\ UNCHANGED <<stripe, terms>>
      /\ Turn(t)
      /\ At(t, "annual", "list")
      /\ \/ \E id \in CreatedFor(tasks[t].of) : tasks'[t] = Fetching(tasks[t], Snapshot(id))
         \/ CreatedFor(tasks[t].of) = {} /\ tasks'[t] \in {Idle, Creating(tasks[t].of)}
  BY AnnualFindEffect
<1>2. Keeps /\ UNCHANGED <<subscriptions, events, keys>>
  BY <1>1, StillKeeps DEF stripe
<1>3. tasks[t].of \in Sessions /\ tasks[t].doing # "sync"
  BY <1>1, TaskFacts DEF At, Refers
<1>4. ASSUME NEW id \in CreatedFor(tasks[t].of), tasks'[t] = Fetching(tasks[t], Snapshot(id))
      PROVE  Following'
  <2>1. Fresh(Snapshot(id), subscriptions, events)
    BY SnapshotIsFresh DEF CreatedFor, Ids
  <2>2. tasks'[t].at = "terms" /\ tasks'[t].snapshot = Snapshot(id)
    BY <1>4, Places, Contents
  <2> QED
    BY <1>1, <1>2, <1>3, <2>1, <2>2, FollowTurn
<1>5. ASSUME CreatedFor(tasks[t].of) = {}, tasks'[t] \in {Idle, Creating(tasks[t].of)}
      PROVE  Following'
  <2>1. keys[tasks[t].of] = NoSnapshot
    BY <1>3, <1>5 DEF TypeInv, KeysInv, CreatedFor, Ids
  <2>2. /\ tasks'[t].at \notin {"terms", "write"}
        /\ tasks'[t].doing = "annual" /\ tasks'[t].at = "create" => tasks'[t].of = tasks[t].of
    BY <1>5, Places, Contents
  <2> QED
    BY <1>1, <1>2, <1>3, <2>1, <2>2, FollowTurn
<1> QED
  BY <1>1, <1>4, <1>5

\* Stripe creates an annual subscription, whether or not its answer arrives.
LEMMA FollowAnswers ==
    ASSUME TypeInv, AloneInv, ~overlapped, Following, NEW t \in Tasks, Turn(t),
           TypeInv', PayerInv', ~paidTwice', UNCHANGED terms, At(t, "annual", "create"),
           NEW status, Answers(tasks[t].of, status),
           tasks'[t] \in {Idle, Fetching(tasks[t], New(status))}
    PROVE  Following'
<1> DEFINE new == Len(subscriptions) + 1
<1>1. /\ Makes(tasks[t].of)
      /\ subscriptions'[new].status = status
      /\ subscriptions'[new].plan = "builder"
  BY DEF Answers
<1>2. Keeps
  BY <1>1, MakesKeeps
<1>3. Reads(tasks[t]) /\ tasks[t].doing # "sync"
  BY ReadingPlaces DEF At
<1>4. \A u \in Tasks \ {t} : ~Reads(tasks[u])
  BY <1>3 DEF AloneInv
<1>5. New(status).id = new /\ New(status).status = status /\ New(status).plan = "builder"
  BY DEF New
<1>6. new \in DOMAIN subscriptions'
  BY <1>1 DEF Makes
<1>7. Fresh(New(status), subscriptions', events')
  BY <1>1, <1>5, <1>6 DEF Fresh, PayerInv, Paying
<1>8. /\ tasks'[t].at \notin {"write", "create"}
      /\ tasks'[t].at = "terms" => tasks'[t].snapshot = New(status)
  BY Places, Contents
<1> QED
  BY <1>2, <1>3, <1>4, <1>7, <1>8, FollowTurn

\* A plan is changed: its event is due, and no other subscription pays.
LEMMA FollowChangePlan ==
    ASSUME TypeInv, PayerInv, ~paidTwice, Following, NEW t \in Tasks, ChangePlanPost(t)
    PROVE  Following'
<1> DEFINE id == tasks[t].of
<1>1. /\ UNCHANGED <<keys, terms>>
      /\ Turn(t)
      /\ At(t, "change", "post")
      /\ \/ UNCHANGED <<subscriptions, events>> /\ tasks'[t] = Idle
         \/ /\ Alters(id)
            /\ subscriptions'[id].status = subscriptions[id].status
            /\ Changed(t).id = id
            /\ Changed(t).status = subscriptions[id].status
            /\ tasks'[t] = Fetching(tasks[t], Changed(t))
  BY ChangePlanPostEffect
<1>2. CASE UNCHANGED <<subscriptions, events>> /\ tasks'[t] = Idle
  BY <1>1, <1>2, StillKeeps, Places, FollowTurn DEF At
<1>3. CASE /\ Alters(id)
           /\ subscriptions'[id].status = subscriptions[id].status
           /\ Changed(t).id = id
           /\ Changed(t).status = subscriptions[id].status
           /\ tasks'[t] = Fetching(tasks[t], Changed(t))
  <2>1. Keeps
    BY <1>3, AltersKeeps
  <2>2. Fresh(Changed(t), subscriptions', events')
    BY <1>3 DEF Alters, Fresh, PayerInv, Paying
  <2>3. tasks'[t].at = "terms" /\ tasks'[t].snapshot = Changed(t)
    BY <1>3, Places, Contents
  <2> QED
    BY <1>1, <2>1, <2>2, <2>3, FollowTurn DEF At
<1> QED
  BY <1>1, <1>2, <1>3

\* A task's turn that is none of these.
LEMMA FollowIdle ==
    ASSUME TypeInv, Following, NEW t \in Tasks, Turn(t), Keeps, UNCHANGED <<keys, terms>>,
           tasks[t].doing = "sync" => Sync(tasks[t].of) \in events',
           tasks'[t].at \notin {"terms", "write", "create"}
    PROVE  Following'
<1>1. tasks[t].doing = "sync" => Known(terms, tasks[t].of, subscriptions', events')
  BY DEF Known
<1> QED
  BY <1>1, FollowTurn

\* Every step is a task's turn, or none of theirs.
LEMMA AloneStep ==
    ASSUME TypeInv, AloneInv, [Next]_vars PROVE AloneInv'
<1>1. (\E t \in Tasks : Turn(t)) \/ UNCHANGED <<tasks, overlapped>>
  <2>1. ASSUME NEW t \in Tasks, NEW e \in events, Deliver(t, e) PROVE Turn(t)
    BY <2>1, DeliverEffect
  <2>2. ASSUME NEW t \in Tasks, Checkout(t) PROVE Turn(t)
    BY <2>2, CheckoutEffect
  <2>3. ASSUME NEW t \in Tasks, ChangePlan(t) PROVE Turn(t)
    BY <2>3, ChangePlanEffect
  <2>4. ASSUME NEW t \in Tasks, Step(t) PROVE Turn(t)
    BY <2>4, ReadTermsEffect, WriteTermsEffect, AnnualFindEffect, AnnualCreateEffect,
       CheckoutPostEffect, ChangePlanPostEffect DEF Step
  <2>5. ASSUME NEW t \in Tasks, Fail(t) PROVE Turn(t)
    BY <2>5, FailEffect
  <2>6. ASSUME NEW t \in Tasks, AnnualAnswerLost(t) PROVE Turn(t)
    BY <2>6, AnnualAnswerLostEffect
  <2>7. ASSUME NEW s \in Sessions, Complete(s) \/ ForgetKey(s) PROVE UNCHANGED <<tasks, overlapped>>
    BY <2>7, CompleteEffect, ForgetKeyEffect
  <2>8. ASSUME NEW id \in DOMAIN subscriptions, Change(id) PROVE UNCHANGED <<tasks, overlapped>>
    BY <2>8, ChangeEffect
  <2> QED
    BY <2>1, <2>2, <2>3, <2>4, <2>5, <2>6, <2>7, <2>8 DEF Next, vars
<1>2. CASE \E t \in Tasks : Turn(t)
  BY <1>2, AloneTurn
<1>3. CASE UNCHANGED <<tasks, overlapped>>
  BY <1>3 DEF AloneInv
<1> QED
  BY <1>1, <1>2, <1>3

\* Who pays changes only where it is noted.
LEMMA PayerStep ==
    ASSUME TypeInv, PayerInv, [Next]_vars PROVE PayerInv'
<1>0. TypeInv'
  BY TypeStep
<1>1. ASSUME UNCHANGED <<subscriptions, paidTwice>> PROVE PayerInv'
  BY <1>1 DEF PayerInv
<1>2. ASSUME NotePayers PROVE PayerInv'
  BY <1>0, <1>2, PayersNoted
<1>3. ASSUME NEW t \in Tasks, NEW e \in events, Deliver(t, e) PROVE PayerInv'
  BY <1>1, <1>3, DeliverEffect
<1>4. ASSUME NEW t \in Tasks, Checkout(t) PROVE PayerInv'
  BY <1>1, <1>4, CheckoutEffect DEF stripe
<1>5. ASSUME NEW t \in Tasks, ChangePlan(t) PROVE PayerInv'
  BY <1>1, <1>5, ChangePlanEffect DEF stripe
<1>6. ASSUME NEW t \in Tasks, Step(t) PROVE PayerInv'
  <2>1. CASE ReadTerms(t)
    BY <1>1, <2>1, ReadTermsEffect DEF stripe
  <2>2. CASE WriteTerms(t)
    BY <1>1, <2>2, WriteTermsEffect DEF stripe
  <2>3. CASE AnnualFind(t)
    BY <1>1, <2>3, AnnualFindEffect DEF stripe
  <2>4. CASE AnnualCreate(t)
    BY <1>1, <1>2, <2>4, AnnualCreateEffect DEF Answers
  <2>5. CASE CheckoutPost(t)
    BY <1>1, <2>5, CheckoutPostEffect
  <2>6. CASE ChangePlanPost(t)
    <3>1. /\ UNCHANGED paidTwice
          /\ \/ UNCHANGED subscriptions
             \/ /\ Alters(tasks[t].of)
                /\ subscriptions'[tasks[t].of].status = subscriptions[tasks[t].of].status
      BY <2>6, ChangePlanPostEffect
    <3>2. Paying(subscriptions') \subseteq Paying(subscriptions)
      BY <3>1, SamePayers DEF Alters
    <3> QED
      BY <1>0, <3>1, <3>2, PayersNoted
  <2> QED
    BY <1>6, <2>1, <2>2, <2>3, <2>4, <2>5, <2>6 DEF Step
<1>7. ASSUME NEW t \in Tasks, Fail(t) PROVE PayerInv'
  BY <1>1, <1>7, FailEffect
<1>8. ASSUME NEW t \in Tasks, AnnualAnswerLost(t) PROVE PayerInv'
  BY <1>2, <1>8, AnnualAnswerLostEffect DEF Answers
<1>9. ASSUME NEW s \in Sessions, Complete(s) PROVE PayerInv'
  BY <1>1, <1>2, <1>9, CompleteEffect
<1>10. ASSUME NEW s \in Sessions, ForgetKey(s) PROVE PayerInv'
  BY <1>1, <1>10, ForgetKeyEffect
<1>11. ASSUME NEW id \in DOMAIN subscriptions, Change(id) PROVE PayerInv'
  BY <1>2, <1>11, ChangeEffect
<1>12. CASE UNCHANGED vars
  BY <1>1, <1>12 DEF vars
<1> QED
  BY <1>3, <1>4, <1>5, <1>6, <1>7, <1>8, <1>9, <1>10, <1>11, <1>12 DEF Next

\* Terms are written as they were made, and made to fit.
LEMMA PlannedStep ==
    ASSUME TypeInv, PlannedInv, [Next]_vars PROVE PlannedInv'
<1>1. ASSUME NEW t \in Tasks, Turn(t), UNCHANGED terms,
             tasks'[t].at = "write" => Fits(tasks'[t].known)
      PROVE  PlannedInv'
  <2>1. ASSUME NEW u \in Tasks, tasks'[u].at = "write" PROVE Fits(tasks'[u].known)
    BY <1>1, <2>1 DEF Turn, PlannedInv
  <2> QED
    BY <1>1, <2>1 DEF PlannedInv, Fits, IsSubscribed
<1>2. ASSUME UNCHANGED <<terms, tasks>> PROVE PlannedInv'
  BY <1>2 DEF PlannedInv, Fits, IsSubscribed
<1>3. ASSUME NEW t \in Tasks, NEW e \in events, Deliver(t, e) PROVE PlannedInv'
  BY <1>1, <1>3, DeliverEffect, Places
<1>4. ASSUME NEW t \in Tasks, Checkout(t) PROVE PlannedInv'
  BY <1>1, <1>4, CheckoutEffect, Places
<1>5. ASSUME NEW t \in Tasks, ChangePlan(t) PROVE PlannedInv'
  BY <1>1, <1>5, ChangePlanEffect, Places
<1>6. ASSUME NEW t \in Tasks, Step(t) PROVE PlannedInv'
  <2>1. CASE ReadTerms(t)
    <3>1. /\ UNCHANGED terms /\ Turn(t) /\ tasks[t].at = "terms"
          /\ \/ tasks'[t] = Idle
             \/ tasks'[t] = Writing(tasks[t], Applied(terms, tasks[t].snapshot))
      BY <2>1, ReadTermsEffect
    <3>2. tasks[t].snapshot.id # 0 /\ tasks[t] \in TaskType
      BY <3>1, ReadingPlaces, TaskFacts
    <3>3. Fits(Applied(terms, tasks[t].snapshot))
      BY <3>2, AppliedFits DEF PlannedInv
    <3>4. tasks'[t].at = "write" => Fits(tasks'[t].known)
      BY <3>1, <3>2, <3>3, Places, Contents
    <3> QED
      BY <1>1, <3>1, <3>4
  <2>2. CASE WriteTerms(t)
    <3>1. Turn(t) /\ tasks[t].at = "write" /\ terms' = tasks[t].known /\ tasks'[t] = Idle
      BY <2>2, WriteTermsEffect
    <3>2. Fits(terms')
      BY <3>1 DEF PlannedInv
    <3>3. ASSUME NEW u \in Tasks, tasks'[u].at = "write" PROVE Fits(tasks'[u].known)
      BY <3>1, <3>3, Places DEF Turn, PlannedInv
    <3> QED
      BY <3>2, <3>3 DEF PlannedInv, Fits, IsSubscribed
  <2>3. CASE AnnualFind(t)
    BY <1>1, <2>3, AnnualFindEffect, Places
  <2>4. CASE AnnualCreate(t)
    BY <1>1, <2>4, AnnualCreateEffect, Places
  <2>5. CASE CheckoutPost(t)
    BY <1>1, <2>5, CheckoutPostEffect, Places
  <2>6. CASE ChangePlanPost(t)
    BY <1>1, <2>6, ChangePlanPostEffect, Places
  <2> QED
    BY <1>6, <2>1, <2>2, <2>3, <2>4, <2>5, <2>6 DEF Step
<1>7. ASSUME NEW t \in Tasks, Fail(t) PROVE PlannedInv'
  BY <1>1, <1>7, FailEffect, Places
<1>8. ASSUME NEW t \in Tasks, AnnualAnswerLost(t) PROVE PlannedInv'
  BY <1>1, <1>8, AnnualAnswerLostEffect, Places
<1>9. ASSUME NEW s \in Sessions, Complete(s) PROVE PlannedInv'
  BY <1>2, <1>9, CompleteEffect
<1>10. ASSUME NEW s \in Sessions, ForgetKey(s) PROVE PlannedInv'
  BY <1>2, <1>10, ForgetKeyEffect
<1>11. ASSUME NEW id \in DOMAIN subscriptions, Change(id) PROVE PlannedInv'
  BY <1>2, <1>11, ChangeEffect
<1>12. CASE UNCHANGED vars
  BY <1>2, <1>12 DEF vars
<1> QED
  BY <1>3, <1>4, <1>5, <1>6, <1>7, <1>8, <1>9, <1>10, <1>11, <1>12 DEF Next

\* Every step keeps the terms following.
LEMMA FollowsStep ==
    ASSUME TypeInv, AloneInv, PayerInv, FollowsInv, [Next]_vars PROVE FollowsInv'
<1> SUFFICES ASSUME ~overlapped', ~paidTwice' PROVE Following'
  BY DEF FollowsInv
<1>0. TypeInv' /\ PayerInv'
  BY TypeStep, PayerStep
<1>1. ASSUME ~overlapped, ~paidTwice PROVE Following
  BY <1>1 DEF FollowsInv
<1>2. ASSUME NEW t \in Tasks, Turn(t) PROVE ~overlapped
  BY <1>2 DEF Turn
<1>3. ASSUME NEW t \in Tasks, NEW e \in events, Deliver(t, e) PROVE Following'
  BY <1>1, <1>2, <1>3, DeliverEffect, FollowDeliver
<1>4. ASSUME NEW t \in Tasks, Turn(t), UNCHANGED <<stripe, terms>>, tasks[t].doing = "idle",
             tasks'[t].at = "post"
      PROVE  Following'
  BY <1>1, <1>2, <1>4, StillKeeps, FollowIdle DEF stripe
<1>5. ASSUME NEW t \in Tasks, Checkout(t) PROVE Following'
  BY <1>4, <1>5, CheckoutEffect, Places
<1>6. ASSUME NEW t \in Tasks, ChangePlan(t) PROVE Following'
  BY <1>4, <1>6, ChangePlanEffect, Places
<1>7. ASSUME NEW t \in Tasks, Step(t) PROVE Following'
  <2>1. CASE ReadTerms(t)
    BY <1>1, <1>2, <2>1, ReadTermsEffect, FollowRead DEF stripe
  <2>2. CASE WriteTerms(t)
    BY <1>1, <1>2, <2>2, WriteTermsEffect, FollowWrite DEF stripe
  <2>3. CASE AnnualFind(t)
    BY <1>1, <1>2, <2>3, AnnualFindEffect, FollowFind DEF stripe
  <2>4. CASE AnnualCreate(t)
    <3>1. /\ Turn(t) /\ UNCHANGED terms /\ At(t, "annual", "create")
          /\ \/ /\ keys[tasks[t].of] # NoSnapshot
                /\ UNCHANGED <<subscriptions, events, keys, paidTwice>>
             \/ \E status \in {"active", "incomplete"} :
                   /\ Answers(tasks[t].of, status)
                   /\ tasks'[t] = Fetching(tasks[t], New(status))
      BY <2>4, AnnualCreateEffect
    <3>2. ~overlapped
      BY <1>2, <3>1
    <3>3. CASE keys[tasks[t].of] # NoSnapshot /\ UNCHANGED paidTwice
      BY <1>1, <3>1, <3>2, <3>3 DEF Following
    <3>4. CASE \E status \in {"active", "incomplete"} :
                   /\ Answers(tasks[t].of, status)
                   /\ tasks'[t] = Fetching(tasks[t], New(status))
      <4>1. ~paidTwice
        BY <3>4 DEF Answers, NotePayers, TypeInv
      <4> QED
        BY <1>0, <1>1, <3>1, <3>2, <3>4, <4>1, FollowAnswers
    <3> QED
      BY <3>1, <3>3, <3>4
  <2>5. CASE CheckoutPost(t)
    BY <1>1, <1>2, <2>5, CheckoutPostEffect, StillKeeps, FollowIdle, Places DEF At
  <2>6. CASE ChangePlanPost(t)
    BY <1>1, <1>2, <2>6, ChangePlanPostEffect, FollowChangePlan
  <2> QED
    BY <1>7, <2>1, <2>2, <2>3, <2>4, <2>5, <2>6 DEF Step
<1>8. ASSUME NEW t \in Tasks, Fail(t) PROVE Following'
  BY <1>1, <1>2, <1>8, FailEffect, StillKeeps, FollowIdle, Places
<1>9. ASSUME NEW t \in Tasks, AnnualAnswerLost(t) PROVE Following'
  <2>1. /\ Turn(t) /\ UNCHANGED terms /\ At(t, "annual", "create") /\ tasks'[t] = Idle
        /\ \E status \in {"active", "incomplete"} : Answers(tasks[t].of, status)
    BY <1>9, AnnualAnswerLostEffect
  <2>2. ~overlapped /\ ~paidTwice
    BY <1>2, <2>1 DEF Answers, NotePayers, TypeInv
  <2> QED
    BY <1>0, <1>1, <2>1, <2>2, FollowAnswers
<1>10. ASSUME NEW s \in Sessions, Complete(s) PROVE Following'
  <2>1. /\ UNCHANGED <<keys, terms, tasks, overlapped>> /\ events \subseteq events'
        /\ (Makes(0) /\ NotePayers) \/ UNCHANGED <<subscriptions, paidTwice>>
    BY <1>10, CompleteEffect
  <2>2. Keeps /\ ~paidTwice /\ ~overlapped
    BY <2>1, MakesKeeps, StillKeeps DEF NotePayers, TypeInv
  <2> QED
    BY <1>1, <2>1, <2>2, FollowStill
<1>11. ASSUME NEW s \in Sessions, ForgetKey(s) PROVE Following'
  BY <1>1, <1>11, ForgetKeyEffect, StillKeeps, FollowStill
<1>12. ASSUME NEW id \in DOMAIN subscriptions, Change(id) PROVE Following'
  <2>1. UNCHANGED <<keys, terms, tasks, overlapped>> /\ Alters(id) /\ NotePayers
    BY <1>12, ChangeEffect
  <2>2. Keeps /\ ~paidTwice /\ ~overlapped
    BY <2>1, AltersKeeps DEF NotePayers, TypeInv
  <2> QED
    BY <1>1, <2>1, <2>2, FollowStill
<1>13. CASE UNCHANGED vars
  BY <1>1, <1>13, StillKeeps, FollowStill DEF vars
<1> QED
  BY <1>3, <1>5, <1>6, <1>7, <1>8, <1>9, <1>10, <1>11, <1>12, <1>13 DEF Next

\* When nothing is due or being done, the terms are true.
LEMMA SettledIsTrue ==
    ASSUME TypeInv, PlannedInv, FollowsInv, Settled, ~overlapped, ~paidTwice
    PROVE  TermsAreTrue
<1>1. events = {} /\ \A t \in Tasks : tasks[t].doing = "idle"
  BY DEF Settled, Busy
<1>2. \A id \in Ids : Tells(terms, id, subscriptions[id])
  BY <1>1 DEF FollowsInv, Following, Known
<1>3. terms.subscription = NoSubscription => subscriptions = <<>>
  <2>1. subscriptions \in Seq(Subscription)
    BY DEF TypeInv
  <2>2. terms.subscription = NoSubscription => Ids = {}
    BY <1>2 DEF Tells, NoSubscription
  <2>3. Ids = {} => subscriptions = <<>>
    BY <2>1, LenProperties, EmptySeq DEF Ids
  <2> QED
    BY <2>2, <2>3
<1>4. terms.subscription.id # 0 => terms.subscription.id \in Ids
  BY DEF TypeInv, TermsInv
<1>5. terms.subscription.id # 0 =>
        terms.subscription.status = subscriptions[terms.subscription.id].status
  BY <1>2, <1>4 DEF Tells
<1>6. Paying(subscriptions) \subseteq {terms.subscription.id}
  BY <1>2 DEF Tells, Paying, Ids
<1>7. IF IsSubscribed(terms) THEN terms.plan = subscriptions[terms.subscription.id].plan
      ELSE terms.plan \notin SelfServe
  BY <1>2, <1>4, <1>5 DEF Tells, IsSubscribed, PlannedInv, Fits
<1> QED
  BY <1>3, <1>5, <1>6, <1>7 DEF TermsAreTrue

\* However events are repeated, delayed and reordered, and whatever fails
\* between a read and its write, the terms are those of the subscription once
\* nothing is left to deliver; tasks that overlap and two subscriptions that
\* pay are excluded (billing.rs apply, stripe_webhook.rs).
THEOREM TermsFollowStripeTheorem == Spec => []TermsFollowStripe
<1> DEFINE FollowInv == AloneInv /\ PayerInv /\ PlannedInv /\ FollowsInv
<1>1. Init => FollowInv
  <2> SUFFICES ASSUME Init PROVE FollowInv
    OBVIOUS
  <2>1. /\ subscriptions = <<>>
        /\ \A t \in Tasks : tasks[t].at = "start" /\ tasks[t].doing = "idle"
        /\ terms = [plan |-> InitialPlan, subscription |-> NoSubscription]
    BY Places DEF Init
  <2>2. AloneInv /\ PayerInv
    BY <2>1 DEF AloneInv, PayerInv, Paying, Reads
  <2>3. PlannedInv
    BY <2>1, SubscriptionsAssumption DEF PlannedInv, Fits, SelfServe
  <2>4. FollowsInv
    BY <2>1 DEF FollowsInv, Following, Ids, At
  <2> QED
    BY <2>2, <2>3, <2>4
<1>2. TypeInv /\ FollowInv /\ [Next]_vars => FollowInv'
  BY AloneStep, PayerStep, PlannedStep, FollowsStep
<1>3. TypeInv /\ FollowInv => TermsFollowStripe
  BY SettledIsTrue DEF TermsFollowStripe
<1> QED
  BY <1>1, <1>2, <1>3, TypeCorrect, PTL DEF Spec
=============================================================================
