--------------------------- MODULE Subscriptions ---------------------------
(***************************************************************************)
(* How a project's terms follow its Stripe subscriptions: the REST calls   *)
(* that start a checkout and switch plans, the webhook that applies what   *)
(* Stripe reports, and the annual subscription the webhook creates itself. *)
(* A task is one request the server is answering; every await of its       *)
(* handler is a step, so tasks interleave with each other and with Stripe. *)
(* Stripe is external: sessions, subscriptions, idempotency keys and the   *)
(* events it delivers at least once, in any order, until one is answered.  *)
(***************************************************************************)
EXTENDS Integers, FiniteSets, Sequences

CONSTANTS
    Tasks,      \* requests the server answers at a time, over all processes
    Interval,   \* the checkouts callers ask for, in order: "month" or "year"
    InitialPlan,\* the project's plan before it subscribes: hobby, or one sold by hand
    MaxChanges, \* bound: changes of subscriptions, by Stripe or by a plan change
    MaxFaults   \* bound: failures, lost answers, crashes and repeated events

ASSUME SubscriptionsAssumption ==
    /\ IsFiniteSet(Tasks)
    /\ Interval \in Seq({"month", "year"})
    /\ InitialPlan \in {"hobby", "enterprise"}
    /\ MaxChanges \in Nat
    /\ MaxFaults \in Nat

VARIABLES
    subscriptions, \* Stripe: every subscription of the customer, by id
    sessions,      \* Stripe: the status of every Checkout Session
    keys,          \* Stripe: the answer it repeats for a session's idempotency key
    events,        \* Stripe: events to deliver
    terms,         \* the store: the project's terms
    tasks,         \* what each task is doing
    overlapped,    \* history: two tasks were between a read and its write at once
    paidTwice,     \* history: two subscriptions paid at once
    changes, faults

vars == <<subscriptions, sessions, keys, events, terms, tasks, overlapped, paidTwice, changes, faults>>
stripe == <<subscriptions, sessions, keys, events, paidTwice>>

Sessions == DOMAIN Interval
Asked == {"hobby", "builder", "scale", "enterprise"}
SelfServe == {"builder", "scale"}

\* self_serve: the plans a caller may subscribe to.
ForSale(plan) == plan \in SelfServe

GrantsPlan(status) == status \in {"active", "past_due"}

\* A subscription as Stripe answers a request with it.
Snapshot(id) == [id |-> id, status |-> subscriptions[id].status, plan |-> subscriptions[id].plan]
NoSnapshot == [id |-> 0, status |-> "incomplete", plan |-> "builder"]
NoSubscription == [id |-> 0, status |-> "incomplete"]
IsSubscribed(t) == t.subscription.id # 0 /\ GrantsPlan(t.subscription.status)

Sync(id) == [kind |-> "sync", of |-> id]
Annual(s) == [kind |-> "annual", of |-> s]

\* A task: its request, the next await, and what its earlier awaits answered.
Idle == [doing |-> "idle", of |-> 0, at |-> "start", plan |-> "builder",
         snapshot |-> NoSnapshot, known |-> [plan |-> "hobby", subscription |-> NoSubscription]]

\* A mutant of TermsAfter: an old subscription that ended replaces a newer one.
TermsAfterAny(current, s) ==
    {[plan |-> IF GrantsPlan(s.status) THEN s.plan
               ELSE IF s.status = "incomplete" /\ current.subscription = NoSubscription
               THEN current.plan
               ELSE "hobby",
      subscription |-> [id |-> s.id, status |-> s.status]]}

\* The terms after a subscription's state is applied to the current ones; none
\* when it no longer pays and another one replaced it.
TermsAfter(current, s) ==
    IF current.subscription.id \notin {0, s.id} /\ ~GrantsPlan(s.status) THEN {}
    ELSE {[plan |-> IF GrantsPlan(s.status) THEN s.plan
                    ELSE IF s.status = "incomplete" /\ current.subscription = NoSubscription
                    THEN current.plan
                    ELSE "hobby",
           subscription |-> [id |-> s.id, status |-> s.status]]}

----------------------------------------------------------------------------
(* Steps of tasks *)

Busy(t) == tasks[t].doing # "idle"
\* A task that read what it may base a write of the terms on.
Reads(task) == task.doing \in {"sync", "annual", "change"}
At(t, doing, at) == tasks[t].doing = doing /\ tasks[t].at = at
Go(t, task) ==
    /\ tasks' = [tasks EXCEPT ![t] = task]
    /\ overlapped' = (overlapped \/ (Reads(task) /\ \E u \in Tasks \ {t} : Reads(tasks[u])))
Done(t) == Go(t, Idle)

\* The task has a subscription's state and applies it next.
Fetched(t, snapshot) ==
    Go(t, [Idle EXCEPT !.doing = tasks[t].doing, !.of = tasks[t].of, !.at = "terms", !.snapshot = snapshot])

Init ==
    /\ subscriptions = <<>>
    /\ sessions = [s \in Sessions |-> "none"]
    /\ keys = [s \in Sessions |-> NoSnapshot]
    /\ events = {}
    /\ terms = [plan |-> InitialPlan, subscription |-> NoSubscription]
    /\ tasks = [t \in Tasks |-> Idle]
    /\ overlapped = FALSE
    /\ paidTwice = FALSE
    /\ changes = 0
    /\ faults = 0

\* A webhook of a subscription event retrieves the subscription as it is now.
SyncSubscription(t, id) ==
    Go(t, [Idle EXCEPT !.doing = "sync", !.of = id, !.at = "terms", !.snapshot = Snapshot(id)])

\* complete_annual_checkout begins with the project's terms.
CompleteAnnualCheckout(t, s) ==
    Go(t, [Idle EXCEPT !.doing = "annual", !.of = s, !.at = "list", !.known = terms])

\* POST /v1/stripe/webhook: a delivery, which Stripe may repeat. Until its
\* first answer from Stripe or the store, a task is as good as an event that
\* has not arrived.
Deliver(t, e) ==
    /\ ~Busy(t)
    /\ e \in events
    /\ \/ e.kind = "sync" /\ SyncSubscription(t, e.of)
       \/ e.kind = "annual" /\ CompleteAnnualCheckout(t, e.of)
    /\ \/ events' = events \ {e} /\ UNCHANGED faults
       \/ faults < MaxFaults /\ faults' = faults + 1 /\ UNCHANGED events
    /\ UNCHANGED <<subscriptions, sessions, keys, paidTwice, terms, changes>>

\* apply: read the current terms, and write those that follow from them if
\* they differ.
ReadTerms(t) ==
    /\ tasks[t].at = "terms"
    /\ LET next == TermsAfter(terms, tasks[t].snapshot)
       IN  IF next \subseteq {terms} THEN Done(t)
           ELSE Go(t, [tasks[t] EXCEPT !.at = "write", !.snapshot = NoSnapshot, !.known = CHOOSE n \in next : TRUE])
    /\ UNCHANGED <<stripe, terms, changes, faults>>

WriteTerms(t) ==
    /\ tasks[t].at = "write"
    /\ terms' = tasks[t].known
    /\ Done(t)
    /\ UNCHANGED <<stripe, changes, faults>>

\* The subscriptions that were created for the session.
CreatedFor(s) == {id \in DOMAIN subscriptions : subscriptions[id].session = s}

\* A mutant of Existing: the lookup that finds what an earlier delivery created.
ExistingNever(s) == {}

Existing(s) == CreatedFor(s)

AnnualFind(t) ==
    /\ At(t, "annual", "list")
    /\ \/ \E id \in Existing(tasks[t].of) : Fetched(t, Snapshot(id))
       \/ /\ Existing(tasks[t].of) = {}
          /\ IF IsSubscribed(tasks[t].known) THEN Done(t)
             ELSE Go(t, [Idle EXCEPT !.doing = "annual", !.of = tasks[t].of, !.at = "create"])
    /\ UNCHANGED <<stripe, terms, changes, faults>>

Paying(subs) == {id \in DOMAIN subs : GrantsPlan(subs[id].status)}
NotePayers == paidTwice' = (paidTwice \/ Cardinality(Paying(subscriptions')) > 1)

\* Stripe creates a subscription and reports it.
Created(s, status, plan) ==
    /\ subscriptions' = Append(subscriptions, [status |-> status, plan |-> plan, session |-> s])
    /\ events' = events \cup {Sync(Len(subscriptions) + 1)}
    /\ NotePayers

\* The request with the session's idempotency key: Stripe repeats its first
\* answer while it remembers the key.
AnnualPost(t, answered(_)) ==
    /\ At(t, "annual", "create")
    /\ LET s == tasks[t].of
       IN  \/ /\ keys[s] # NoSnapshot
              /\ answered(keys[s])
              /\ UNCHANGED <<subscriptions, events, keys, paidTwice>>
           \/ /\ keys[s] = NoSnapshot
              /\ \E status \in {"active", "incomplete"} :
                    /\ Created(s, status, "builder")
                    /\ keys' = [keys EXCEPT ![s] =
                            [id |-> Len(subscriptions) + 1, status |-> status, plan |-> "builder"]]
                    /\ answered(keys'[s])
    /\ UNCHANGED <<sessions, terms, changes>>

AnnualCreate(t) ==
    /\ AnnualPost(t, LAMBDA snapshot : Fetched(t, snapshot))
    /\ UNCHANGED faults

\* POST /v1/billing/checkout: refused while a subscription pays.
Checkout(t) ==
    /\ ~Busy(t)
    /\ \E s \in Sessions : sessions[s] = "none"
    /\ ~IsSubscribed(terms)
    /\ Go(t, [Idle EXCEPT !.doing = "checkout", !.at = "post"])
    /\ UNCHANGED <<stripe, terms, changes, faults>>

CheckoutPost(t) ==
    /\ At(t, "checkout", "post")
    /\ \E s \in Sessions :
        /\ sessions[s] = "none"
        /\ \A r \in 1 .. s - 1 : sessions[r] # "none"
        /\ sessions' = [sessions EXCEPT ![s] = "open"]
    /\ Done(t)
    /\ UNCHANGED <<subscriptions, keys, events, paidTwice, terms, changes, faults>>

\* POST /v1/billing/plan: refused without a subscription that pays, nothing
\* to do when the plan is the same.
ChangePlan(t) ==
    /\ ~Busy(t)
    /\ changes < MaxChanges
    /\ IsSubscribed(terms)
    /\ \E plan \in Asked \ {terms.plan} :
        /\ ForSale(plan)
        /\ Go(t, [Idle EXCEPT !.doing = "change", !.of = terms.subscription.id, !.at = "post", !.plan = plan])
    /\ changes' = changes + 1
    /\ UNCHANGED <<stripe, terms, faults>>

\* The prices are swapped, and the answer is applied; Stripe refuses to
\* update a subscription that was canceled.
ChangePlanPost(t) ==
    /\ At(t, "change", "post")
    /\ LET id == tasks[t].of
       IN  IF subscriptions[id].status = "canceled"
           THEN Done(t) /\ UNCHANGED <<subscriptions, events>>
           ELSE /\ subscriptions' = [subscriptions EXCEPT ![id].plan = tasks[t].plan]
                /\ events' = events \cup {Sync(id)}
                /\ Fetched(t, [Snapshot(id) EXCEPT !.plan = tasks[t].plan])
    /\ UNCHANGED <<sessions, keys, paidTwice, terms, changes, faults>>

----------------------------------------------------------------------------
(* Faults *)

\* A mutant of Redelivered: a failed completion is acknowledged.
RedeliveredSyncs(t) ==
    IF tasks[t].doing = "sync" THEN {Sync(tasks[t].of)} ELSE {}

\* What Stripe delivers again because it was not answered.
Redelivered(t) ==
    IF tasks[t].doing \in {"sync", "annual"} THEN {[kind |-> tasks[t].doing, of |-> tasks[t].of]} ELSE {}

\* A request to Stripe or the store fails: the webhook answers 503, and Stripe
\* delivers the event again; a caller gets an error. A call that fails before
\* it posted anything leaves nothing behind.
Fail(t) ==
    /\ tasks[t].doing \in {"sync", "annual", "change"}
    /\ tasks[t].at # "post"
    /\ faults < MaxFaults
    /\ faults' = faults + 1
    /\ events' = events \cup Redelivered(t)
    /\ Done(t)
    /\ UNCHANGED <<subscriptions, sessions, keys, paidTwice, terms, changes>>

\* The creation lands and its answer is lost: the webhook answers 503.
AnnualAnswerLost(t) ==
    /\ faults < MaxFaults
    /\ AnnualPost(t, LAMBDA snapshot : Done(t))
    /\ keys[tasks[t].of] = NoSnapshot
    /\ faults' = faults + 1

----------------------------------------------------------------------------
(* Stripe *)

Complete(s) ==
    /\ sessions[s] = "open"
    /\ sessions' = [sessions EXCEPT ![s] = "complete"]
    /\ \/ /\ Interval[s] = "month"
          /\ \E status \in {"active", "incomplete"} : Created(0, status, "builder")
       \/ /\ Interval[s] = "year"
          /\ events' = events \cup {Annual(s)}
          /\ UNCHANGED <<subscriptions, paidTwice>>
    /\ UNCHANGED <<keys, terms, tasks, overlapped, changes, faults>>

\* Payments fail, are made up for, or the customer cancels.
After(status) ==
    CASE status = "incomplete" -> {"active", "incomplete_expired"}
      [] status = "active" -> {"past_due", "canceled"}
      [] status = "past_due" -> {"active", "unpaid", "canceled"}
      [] status = "unpaid" -> {"active", "canceled"}
      [] OTHER -> {}

Change(id) ==
    /\ changes < MaxChanges
    /\ changes' = changes + 1
    /\ \E status \in After(subscriptions[id].status) :
        subscriptions' = [subscriptions EXCEPT ![id].status = status]
    /\ events' = events \cup {Sync(id)}
    /\ NotePayers
    /\ UNCHANGED <<sessions, keys, terms, tasks, overlapped, faults>>

\* A day later Stripe has forgotten the key; no exchange takes that long.
ForgetKey(s) ==
    /\ keys[s] # NoSnapshot
    /\ \A t \in Tasks : tasks[t].doing # "annual"
    /\ keys' = [keys EXCEPT ![s] = NoSnapshot]
    /\ UNCHANGED <<subscriptions, sessions, events, terms, tasks, overlapped, paidTwice, changes, faults>>

Step(t) ==
    \/ ReadTerms(t)
    \/ WriteTerms(t)
    \/ AnnualFind(t)
    \/ AnnualCreate(t)
    \/ CheckoutPost(t)
    \/ ChangePlanPost(t)

Next ==
    \/ \E t \in Tasks, e \in events : Deliver(t, e)
    \/ \E t \in Tasks : Checkout(t) \/ ChangePlan(t) \/ Step(t) \/ Fail(t) \/ AnnualAnswerLost(t)
    \/ \E s \in Sessions : Complete(s) \/ ForgetKey(s)
    \/ \E id \in DOMAIN subscriptions : Change(id)

Spec == Init /\ [][Next]_vars

\* Requests are answered in the end, and Stripe keeps delivering what was not.
Fairness ==
    /\ \A t \in Tasks : WF_vars(Step(t))
    /\ \A s \in Sessions : SF_vars(\E t \in Tasks : Deliver(t, Annual(s)))

FairSpec == Spec /\ Fairness

----------------------------------------------------------------------------
(* Properties *)

\* One annual subscription per checkout, however often its completion is
\* delivered, by however many tasks at once, with lost answers and after
\* Stripe forgot the idempotency key (billing.rs complete_annual_checkout).
AnnualOnce == \A s \in Sessions : Cardinality(CreatedFor(s)) <= 1

Settled == events = {} /\ \A t \in Tasks : ~Busy(t)

\* The terms name a subscription as Stripe has it, the one that pays if one
\* does, and grant its plan only while it pays.
TermsAreTrue ==
    LET known == terms.subscription
    IN  /\ known = NoSubscription => subscriptions = <<>>
        /\ known.id # 0 => known.status = subscriptions[known.id].status
        /\ Paying(subscriptions) \subseteq {known.id}
        /\ IF IsSubscribed(terms) THEN terms.plan = subscriptions[known.id].plan
           ELSE terms.plan \notin SelfServe

\* Once Stripe has nothing to deliver, the terms are those of the subscription:
\* events lost for a while, repeated and reordered, failures between a read
\* and a write, switched plans and old subscriptions included. Two tasks that
\* read and write at the same time are excluded (see OutOfOrderIsHarmless), and
\* so is a customer who paid for two subscriptions at once.
TermsFollowStripe == Settled /\ ~overlapped /\ ~paidTwice => TermsAreTrue

\* The same without excluding tasks at the same time, as stripe_webhook.rs:3
\* and api.rs:474 say: duplicates, retries and reordering are harmless.
OutOfOrderIsHarmless == Settled /\ ~paidTwice => TermsAreTrue

\* A customer who completed an annual checkout gets the subscription, unless
\* the project already pays (billing.rs complete_annual_checkout).
AnnualIsHonoured ==
    \A s \in Sessions : Annual(s) \in events ~> CreatedFor(s) # {} \/ IsSubscribed(terms)
=============================================================================
