------------------------------ MODULE Metering ------------------------------
(***************************************************************************)
(* Usage of one project in one month: which documents are active, how the  *)
(* free plan caps them, and how paid usage reaches Stripe through the      *)
(* store (metering/mod.rs, metering/stripe.rs, store/postgres.rs).         *)
(*                                                                         *)
(* Several server processes may share the database, so admissions run      *)
(* concurrently and each process has a reporter.  An action is one         *)
(* statement of a transaction (READ COMMITTED), or all of them from taking *)
(* the project's month lock to the commit, or one call to Stripe.          *)
(*                                                                         *)
(* `usage` is the project's rows of that month; the active documents of    *)
(* its environments are summed, as the cap does, and conversions are those *)
(* of one environment, whose row is on its own.                            *)
(***************************************************************************)
EXTENDS Integers, FiniteSets

CONSTANTS
    Documents,       \* documents that may become active
    Requests,        \* admissions running at a time
    Reporters,       \* UsageReporter tasks, one per process
    Included,        \* documents the free plan includes
    MaxConversions,  \* bound: how many conversions are run
    Events,          \* the kinds of trouble that may happen: see EventKinds
    MaxEvents        \* bound: how many of them

EventKinds == {"terms",   \* the project's plan or customer changes
               "store",   \* a store call fails, before or after it commits
               "stripe",  \* a request to Stripe, retried once, gets no good answer
               "refuse",  \* Stripe refuses an event, or it is too old to send
               "crash"}   \* a process stops in the middle of a report

ASSUME MeteringAssumption ==
    /\ IsFiniteSet(Documents)
    /\ Included \in Nat
    /\ MaxConversions \in Nat
    /\ Events \subseteq EventKinds
    /\ MaxEvents \in Nat

VARIABLES
    terms,     \* the project's plan and customer
    active,    \* active_documents: each document's row
    usage,     \* the usage row
    request,   \* admissions in progress
    reporter,  \* report passes in progress
    stripe,    \* what Stripe's meters have accepted
    events     \* troubles so far (bounded by MaxEvents)

vars == <<terms, active, usage, request, reporter, stripe, events>>

-----------------------------------------------------------------------------
(* plan.rs Terms: whether the plan is a paid one, and whether the project  *)
(* has a Stripe customer.                                                  *)
Terms == [paid: BOOLEAN, customer: BOOLEAN]
Metered(t) == t.paid /\ t.customer

\* Mutant of Full: one document more fits.
FullLate(t, count) == ~t.paid /\ count > Included

\* Terms::is_full: only the free plan caps.
Full(t, count) == ~t.paid /\ count >= Included

\* A row of active_documents: none, without a customer, or with one and not
\* yet, or already, reported.
RowState == {"none", "free", "pending", "reported"}
Active == {d \in Documents : active[d] # "none"}

\* Conversions are numbered; billable ones are 1..billable, Stripe has those
\* up to `reported`, and is being told those up to `reserved` (0 is NULL).
UsageState == [active: Nat, billable: 0..MaxConversions, reported: 0..MaxConversions,
               reserved: 0..MaxConversions]
Units == 1..MaxConversions

RequestState ==
    [at: {"out", "asked", "waiting"}, doc: SUBSET Documents, terms: Terms]
Out == [at |-> "out", doc |-> {}, terms |-> [paid |-> FALSE, customer |-> FALSE]]

\* A pass: the documents it still has to report, the one just sent, or the
\* range of conversions from + 1 .. to.
ReporterState ==
    [at: {"rest", "documents", "sent", "reserved", "range", "rangeSent"},
     todo: SUBSET Documents, doc: SUBSET Documents, from: 0..MaxConversions,
     to: 0..MaxConversions]
Rest == [at |-> "rest", todo |-> {}, doc |-> {}, from |-> 0, to |-> 0]

\* Stripe remembers the identifiers it accepted, of documents and of ranges,
\* and how often its meter has counted each conversion.
StripeState ==
    [documents: SUBSET Documents, ranges: SUBSET ((0..MaxConversions) \X (0..MaxConversions)),
     counted: [Units -> Nat], refused: SUBSET Documents, refusedUnits: SUBSET Units]

Happens(kind) ==
    /\ kind \in Events
    /\ events < MaxEvents
    /\ events' = events + 1

-----------------------------------------------------------------------------
\* A month begins, whatever the project's terms are.
Init ==
    /\ terms \in Terms
    /\ active = [d \in Documents |-> "none"]
    /\ usage = [active |-> 0, billable |-> 0, reported |-> 0, reserved |-> 0]
    /\ request = [q \in Requests |-> Out]
    /\ reporter = [p \in Reporters |-> Rest]
    /\ stripe = [documents |-> {}, ranges |-> {}, counted |-> [u \in Units |-> 0],
                 refused |-> {}, refusedUnits |-> {}]
    /\ events = 0

\* An upgrade, a downgrade, or the admin endpoint.
SetTerms ==
    /\ Happens("terms")
    /\ terms' \in Terms
    /\ UNCHANGED <<active, usage, request, reporter, stripe>>

(***************************************************************************)
(* PgStore::admit.                                                         *)
(***************************************************************************)

\* It reads the terms,
Ask(q, d) ==
    /\ request[q].at = "out"
    /\ request' = [request EXCEPT ![q] = [at |-> "asked", doc |-> {d}, terms |-> terms]]
    /\ UNCHANGED <<terms, active, usage, reporter, stripe, events>>

\* then looks for the document's row, without a lock: if it is there, the
\* document is admitted.
Check(q) ==
    /\ request[q].at = "asked"
    /\ request' = [request EXCEPT
          ![q] = IF @.doc \subseteq Active THEN Out ELSE [@ EXCEPT !.at = "waiting"]]
    /\ UNCHANGED <<terms, active, usage, reporter, stripe, events>>

\* The row of an admitted document, with the customer to bill, if any.
Rows(q) ==
    [d \in Documents |->
        IF d \in request[q].doc \ Active
        THEN IF Metered(request[q].terms) THEN "pending" ELSE "free"
        ELSE active[d]]

\* Mutant of Admit: a row that was there already is counted again.
AdmitCountsAgain(q) ==
    /\ request[q].at = "waiting"
    /\ request' = [request EXCEPT ![q] = Out]
    /\ IF Full(request[q].terms, usage.active) THEN UNCHANGED <<active, usage>>
       ELSE /\ active' = Rows(q)
            /\ usage' = [usage EXCEPT !.active = @ + 1]
    /\ UNCHANGED <<terms, reporter, stripe, events>>

\* Otherwise, under the project's month lock, it counts, and pauses the
\* document if the plan is full, or inserts its row unless it is there by now.
Admit(q) ==
    /\ request[q].at = "waiting"
    /\ request' = [request EXCEPT ![q] = Out]
    /\ IF Full(request[q].terms, usage.active) THEN UNCHANGED <<active, usage>>
       ELSE /\ active' = Rows(q)
            /\ usage' = [usage EXCEPT
                  !.active = IF request[q].doc \subseteq Active THEN @ ELSE @ + 1]
    /\ UNCHANGED <<terms, reporter, stripe, events>>

\* The transaction rolls back; the caller gets an error.
AdmitFails(q) ==
    /\ Happens("store")
    /\ request[q].at \in {"asked", "waiting"}
    /\ request' = [request EXCEPT ![q] = Out]
    /\ UNCHANGED <<terms, active, usage, reporter, stripe>>

\* PgStore::add_conversions, on a plan that meters them: others are not billed.
Convert ==
    /\ Metered(terms)
    /\ usage.billable < MaxConversions
    /\ usage' = [usage EXCEPT !.billable = @ + 1]
    /\ UNCHANGED <<terms, active, request, reporter, stripe, events>>

(***************************************************************************)
(* UsageReporter::report_documents.  A pass that fails goes on to the      *)
(* conversions, as one that is done.                                       *)
(***************************************************************************)
DocumentsDone == [Rest EXCEPT !.at = "documents"]

\* Store::pending_documents.
StartPass(p) ==
    /\ reporter[p].at = "rest"
    /\ reporter' = [reporter EXCEPT
          ![p] = [Rest EXCEPT !.at = "documents",
                              !.todo = {d \in Documents : active[d] = "pending"}]]
    /\ UNCHANGED <<terms, active, usage, request, stripe, events>>

StartPassFails(p) ==
    /\ Happens("store")
    /\ reporter[p].at = "rest"
    /\ reporter' = [reporter EXCEPT ![p] = DocumentsDone]
    /\ UNCHANGED <<terms, active, usage, request, stripe>>

\* Stripe accepts an event, or has had its identifier before.
SendDocument(p) ==
    /\ reporter[p].at = "documents"
    /\ \E d \in reporter[p].todo :
        /\ stripe' = [stripe EXCEPT !.documents = @ \cup {d}]
        /\ reporter' = [reporter EXCEPT ![p].at = "sent", ![p].doc = {d}]
    /\ UNCHANGED <<terms, active, usage, request, events>>

SendDocumentFails(p) ==
    /\ Happens("stripe")
    /\ reporter[p].at = "documents"
    /\ \E d \in reporter[p].todo : \E landed \in {{}, {d}} :
          stripe' = [stripe EXCEPT !.documents = @ \cup landed]
    /\ reporter' = [reporter EXCEPT ![p] = DocumentsDone]
    /\ UNCHANGED <<terms, active, usage, request>>

\* send_or_drop: an event refused outright is dropped, as one too old is.
RefuseDocument(p) ==
    /\ Happens("refuse")
    /\ reporter[p].at = "documents"
    /\ \E d \in reporter[p].todo \ stripe.documents :
        /\ stripe' = [stripe EXCEPT !.refused = @ \cup {d}]
        /\ reporter' = [reporter EXCEPT ![p].at = "sent", ![p].doc = {d}]
    /\ UNCHANGED <<terms, active, usage, request>>

\* Store::mark_document_reported.
MarkedDocument(p) ==
    [d \in Documents |-> IF d \in reporter[p].doc THEN "reported" ELSE active[d]]

MarkDocument(p) ==
    /\ reporter[p].at = "sent"
    /\ active' = MarkedDocument(p)
    /\ reporter' = [reporter EXCEPT ![p] = [reporter[p] EXCEPT
          !.at = "documents", !.todo = @ \ reporter[p].doc, !.doc = {}]]
    /\ UNCHANGED <<terms, usage, request, stripe, events>>

MarkDocumentFails(p) ==
    /\ Happens("store")
    /\ reporter[p].at = "sent"
    /\ active' \in {active, MarkedDocument(p)}
    /\ reporter' = [reporter EXCEPT ![p] = DocumentsDone]
    /\ UNCHANGED <<terms, usage, request, stripe>>

(***************************************************************************)
(* UsageReporter::report_conversions.                                      *)
(***************************************************************************)

\* Mutant of Reservation: it is made anew though one is open.
ReservationAnew == IF usage.billable > usage.reported THEN usage.billable ELSE usage.reserved

\* What is billable is reserved up to here, if nothing was.
Reservation ==
    IF usage.reserved = 0 /\ usage.billable > usage.reported THEN usage.billable
    ELSE usage.reserved

\* Store::reserve_conversions, its UPDATE,
Reserve(p) ==
    /\ reporter[p].at = "documents"
    /\ reporter[p].todo = {}
    /\ usage' = [usage EXCEPT !.reserved = Reservation]
    /\ reporter' = [reporter EXCEPT ![p] = [Rest EXCEPT !.at = "reserved"]]
    /\ UNCHANGED <<terms, active, request, stripe, events>>

\* and its SELECT.
Claim(p) ==
    /\ reporter[p].at = "reserved"
    /\ reporter' = [reporter EXCEPT
          ![p] = IF usage.reserved # 0 /\ terms.customer
                 THEN [Rest EXCEPT !.at = "range", !.from = usage.reported, !.to = usage.reserved]
                 ELSE Rest]
    /\ UNCHANGED <<terms, active, usage, request, stripe, events>>

\* Either of them fails; the pass ends.
ReserveFails(p) ==
    /\ Happens("store")
    /\ \/ reporter[p].at = "documents" /\ reporter[p].todo = {}
       \/ reporter[p].at = "reserved"
    /\ reporter' = [reporter EXCEPT ![p] = Rest]
    /\ UNCHANGED <<terms, active, usage, request, stripe>>

\* Stripe counts a range whose identifier is new.
RangeOf(p) == <<reporter[p].from, reporter[p].to>>
CountedRange(p) ==
    IF RangeOf(p) \in stripe.ranges \/ reporter[p].to <= reporter[p].from THEN stripe
    ELSE [stripe EXCEPT
            !.ranges = @ \cup {RangeOf(p)},
            !.counted = [u \in Units |->
                IF reporter[p].from < u /\ u <= reporter[p].to
                THEN stripe.counted[u] + 1 ELSE stripe.counted[u]]]

SendRange(p) ==
    /\ reporter[p].at = "range"
    /\ stripe' = CountedRange(p)
    /\ reporter' = [reporter EXCEPT ![p].at = "rangeSent"]
    /\ UNCHANGED <<terms, active, usage, request, events>>

SendRangeFails(p) ==
    /\ Happens("stripe")
    /\ reporter[p].at = "range"
    /\ stripe' \in {stripe, CountedRange(p)}
    /\ reporter' = [reporter EXCEPT ![p] = Rest]
    /\ UNCHANGED <<terms, active, usage, request>>

RefuseRange(p) ==
    /\ Happens("refuse")
    /\ reporter[p].at = "range"
    /\ RangeOf(p) \notin stripe.ranges
    /\ stripe' = [stripe EXCEPT !.refusedUnits =
                    @ \cup {u \in Units : reporter[p].from < u /\ u <= reporter[p].to}]
    /\ reporter' = [reporter EXCEPT ![p].at = "rangeSent"]
    /\ UNCHANGED <<terms, active, usage, request>>

\* Mutants of MarkedRange: everything billable counts as reported; the
\* reservation stays.
MarkedBillable(p) ==
    IF usage.reserved = reporter[p].to
    THEN [usage EXCEPT !.reported = usage.billable, !.reserved = 0] ELSE usage

MarkedKept(p) ==
    IF usage.reserved = reporter[p].to
    THEN [usage EXCEPT !.reported = reporter[p].to] ELSE usage

\* Store::mark_conversions_reported, unless the reservation is another one by
\* now.
MarkedRange(p) ==
    IF usage.reserved = reporter[p].to
    THEN [usage EXCEPT !.reported = reporter[p].to, !.reserved = 0] ELSE usage

MarkRange(p) ==
    /\ reporter[p].at = "rangeSent"
    /\ usage' = MarkedRange(p)
    /\ reporter' = [reporter EXCEPT ![p] = Rest]
    /\ UNCHANGED <<terms, active, request, stripe, events>>

MarkRangeFails(p) ==
    /\ Happens("store")
    /\ reporter[p].at = "rangeSent"
    /\ usage' \in {usage, MarkedRange(p)}
    /\ reporter' = [reporter EXCEPT ![p] = Rest]
    /\ UNCHANGED <<terms, active, request, stripe>>

\* The process ends, or its drain runs out of time.
Crash(p) ==
    /\ Happens("crash")
    /\ reporter[p].at # "rest"
    /\ reporter' = [reporter EXCEPT ![p] = Rest]
    /\ UNCHANGED <<terms, active, usage, request, stripe>>

-----------------------------------------------------------------------------
Admission(q) ==
    \/ \E d \in Documents : Ask(q, d)
    \/ Check(q) \/ Admit(q) \/ AdmitFails(q)

\* What a pass does when everything answers.
Report(p) ==
    \/ StartPass(p) \/ SendDocument(p) \/ MarkDocument(p)
    \/ Reserve(p) \/ Claim(p) \/ SendRange(p) \/ MarkRange(p)

Trouble(p) ==
    \/ StartPassFails(p)
    \/ SendDocumentFails(p) \/ RefuseDocument(p) \/ MarkDocumentFails(p)
    \/ ReserveFails(p) \/ SendRangeFails(p) \/ RefuseRange(p) \/ MarkRangeFails(p)
    \/ Crash(p)

Next ==
    \/ SetTerms
    \/ Convert
    \/ \E q \in Requests : Admission(q)
    \/ \E p \in Reporters : Report(p) \/ Trouble(p)

Spec == Init /\ [][Next]_vars

-----------------------------------------------------------------------------
TypeOK ==
    /\ terms \in Terms
    /\ active \in [Documents -> RowState]
    /\ usage \in UsageState
    /\ request \in [Requests -> RequestState]
    /\ reporter \in [Reporters -> ReporterState]
    /\ stripe \in StripeState
    /\ events \in 0..MaxEvents

\* The counter the cap and the usage endpoint read is the number of active
\* documents, though rows and counter are two tables and two requests may
\* bring the same document at once (postgres.rs admit).
CountIsExact == usage.active = Cardinality(Active)

\* However many requests are on their way, one that read the terms of the free
\* plan never makes a document active beyond what that plan includes, though
\* it looked for the row before it took the lock (postgres.rs admit).
FreeCapHolds ==
    [][\A q \in Requests :
         (/\ request[q].at = "waiting"
          /\ ~request[q].terms.paid
          /\ Admit(q)
          /\ active' # active) => Cardinality(Active') <= Included]_vars

\* No conversion is counted twice by Stripe, whatever is retried, restarted
\* or reported by two processes at once: a retry resends the reserved range
\* under its identifier (stripe.rs report_conversions, postgres.rs
\* reserve_conversions, mark_conversions_reported); and only billable ones
\* are counted.
BilledOnce ==
    \A u \in Units : /\ stripe.counted[u] <= 1
                     /\ stripe.counted[u] = 1 => u <= usage.billable

\* What is marked as reported has landed at Stripe, or Stripe refused it:
\* crashes and outages lose no usage (stripe.rs report_documents,
\* report_conversions).
NothingUnbilled ==
    /\ \A d \in Documents : active[d] = "reported" => d \in stripe.documents \cup stripe.refused
    /\ \A u \in 1..usage.reported : stripe.counted[u] > 0 \/ u \in stripe.refusedUnits

-----------------------------------------------------------------------------
(***************************************************************************)
(* Liveness.  Each reporter starts a pass every report_interval, and every *)
(* call it awaits is answered or times out; failures are finitely many.    *)
(***************************************************************************)
Fairness == \A p \in Reporters : WF_vars(Report(p))

FairSpec == Spec /\ Fairness

\* Every document that became active on a paid plan, and every billable
\* conversion of a project that keeps its customer, is reported in the end.
AllIsReported ==
    /\ \A d \in Documents : active[d] = "pending" ~> active[d] = "reported"
    /\ \A u \in Units : u <= usage.billable ~> (u <= usage.reported \/ ~terms.customer)

-----------------------------------------------------------------------------
(* What a comment says and the code does not do.                           *)

\* "Only a full free plan refuses, and only documents not yet active this
\* month" (store/mod.rs Admit).
ActiveAreAdmitted ==
    [][\A q \in Requests :
         (Admit(q) /\ Full(request[q].terms, usage.active)) => ~(request[q].doc \subseteq Active)]_vars
=============================================================================
