--------------------------- MODULE Metering_proofs ---------------------------
(***************************************************************************)
(* Usage is counted once, capped and billed once, for any number of        *)
(* documents, admissions, reporters, conversions and troubles.             *)
(***************************************************************************)
EXTENDS Metering, TLAPS, FiniteSetTheorems

(***************************************************************************)
(* The invariant.                                                          *)
(***************************************************************************)

\* An admission is of one document; a pass only has documents with a row.
DocumentsInv ==
    /\ \A q \in Requests : request[q].at # "out" => \E d \in Documents : request[q].doc = {d}
    /\ \A p \in Reporters : reporter[p].todo \cup reporter[p].doc \subseteq Active

\* A document just sent has landed or was refused.
SentInv ==
    /\ \A p \in Reporters : reporter[p].at = "sent" =>
          reporter[p].doc \subseteq stripe.documents \cup stripe.refused
    /\ \A d \in Documents : active[d] = "reported" => d \in stripe.documents \cup stripe.refused

\* The ranges reporters work on, the one reserved, and with them those Stripe
\* has.
Claims == {RangeOf(p) : p \in {q \in Reporters : reporter[q].at \in {"range", "rangeSent"}}}
Current == IF usage.reserved = 0 THEN {} ELSE {<<usage.reported, usage.reserved>>}
Known == stripe.ranges \cup Claims \cup Current

Within(r, u) == r[1] < u /\ u <= r[2]

\* Ranges are of billable conversions, and all but the reserved one are
\* of reported conversions; two of them are equal or disjoint.
RangeInv ==
    /\ usage.reported <= usage.billable
    /\ \A r \in Known :
          /\ r[1] < r[2]
          /\ r[2] <= usage.billable
          /\ r[2] <= usage.reported \/ r \in Current
    /\ \A r, s \in Known : r = s \/ r[2] <= s[1] \/ s[2] <= r[1]

\* Stripe has counted what is in its ranges, once.
CountedInv ==
    \A u \in Units :
        stripe.counted[u] = IF \E r \in stripe.ranges : Within(r, u) THEN 1 ELSE 0

\* A conversion just sent was counted or refused; so was every reported one.
Landed(u) == stripe.counted[u] > 0 \/ u \in stripe.refusedUnits
LandedInv ==
    /\ \A p \in Reporters : reporter[p].at = "rangeSent" =>
          \A u \in Units : Within(RangeOf(p), u) => Landed(u)
    /\ \A u \in Units : u <= usage.reported => Landed(u)

-----------------------------------------------------------------------------
(***************************************************************************)
(* Types.                                                                  *)
(***************************************************************************)

\* A reporter's record is replaced, or gets another place, by one of its type.
LEMMA ReporterFields ==
    ASSUME NEW rec \in ReporterState
    PROVE  /\ Rest \in ReporterState
           /\ DocumentsDone \in ReporterState
           /\ [Rest EXCEPT !.at = "reserved"] \in ReporterState
           /\ [rec EXCEPT !.at = "rangeSent"] \in ReporterState
           /\ \A T \in SUBSET Documents :
                 /\ [Rest EXCEPT !.at = "documents", !.todo = T] \in ReporterState
                 /\ [rec EXCEPT !.at = "sent", !.doc = T] \in ReporterState
                 /\ [rec EXCEPT !.at = "documents", !.todo = T, !.doc = {}] \in ReporterState
           /\ \A m, n \in 0..MaxConversions :
                 [Rest EXCEPT !.at = "range", !.from = m, !.to = n] \in ReporterState
<1>1. Rest \in ReporterState /\ [Rest EXCEPT !.at = "reserved"] \in ReporterState
  BY MeteringAssumption DEF ReporterState, Rest
<1>2. DocumentsDone \in ReporterState
  BY MeteringAssumption DEF ReporterState, Rest, DocumentsDone
<1>3. [rec EXCEPT !.at = "rangeSent"] \in ReporterState
  BY DEF ReporterState
<1>4. ASSUME NEW T \in SUBSET Documents
      PROVE  /\ [Rest EXCEPT !.at = "documents", !.todo = T] \in ReporterState
             /\ [rec EXCEPT !.at = "sent", !.doc = T] \in ReporterState
             /\ [rec EXCEPT !.at = "documents", !.todo = T, !.doc = {}] \in ReporterState
  <2>1. [Rest EXCEPT !.at = "documents", !.todo = T] \in ReporterState
    BY <1>1 DEF ReporterState
  <2>2. [rec EXCEPT !.at = "sent", !.doc = T] \in ReporterState
    BY DEF ReporterState
  <2>3. [rec EXCEPT !.at = "documents", !.todo = T, !.doc = {}] \in ReporterState
    BY DEF ReporterState
  <2> QED
    BY <2>1, <2>2, <2>3
<1>5. ASSUME NEW m \in 0..MaxConversions, NEW n \in 0..MaxConversions
      PROVE  [Rest EXCEPT !.at = "range", !.from = m, !.to = n] \in ReporterState
  BY <1>1 DEF ReporterState
<1> QED
  BY <1>1, <1>2, <1>3, <1>4, <1>5

\* The usage row stays typed when one of its fields changes.
LEMMA UsageFields ==
    ASSUME NEW rec \in UsageState
    PROVE  /\ \A n \in Nat : [rec EXCEPT !.active = n] \in UsageState
           /\ \A n \in 0..MaxConversions :
                 /\ [rec EXCEPT !.billable = n] \in UsageState
                 /\ [rec EXCEPT !.reserved = n] \in UsageState
                 /\ \A m \in 0..MaxConversions :
                       [rec EXCEPT !.reported = n, !.reserved = m] \in UsageState
  BY DEF UsageState

\* What reporters work on is in the range of its type.
LEMMA ReporterTypes ==
    ASSUME TypeOK, NEW p \in Reporters
    PROVE  /\ reporter[p] \in ReporterState
           /\ reporter[p].todo \in SUBSET Documents
           /\ reporter[p].doc \in SUBSET Documents
           /\ reporter[p].from \in 0..MaxConversions
           /\ reporter[p].to \in 0..MaxConversions
  BY DEF TypeOK, ReporterState

LEMMA UsageTypes ==
    ASSUME TypeOK
    PROVE  /\ usage \in UsageState
           /\ usage.active \in Nat
           /\ usage.billable \in 0..MaxConversions
           /\ usage.reported \in 0..MaxConversions
           /\ usage.reserved \in 0..MaxConversions
  BY DEF TypeOK, UsageState

LEMMA StripeTypes ==
    ASSUME TypeOK
    PROVE  /\ stripe.documents \in SUBSET Documents
           /\ stripe.ranges \in SUBSET ((0..MaxConversions) \X (0..MaxConversions))
           /\ stripe.counted \in [Units -> Nat]
           /\ stripe.refused \in SUBSET Documents
           /\ stripe.refusedUnits \in SUBSET Units
  BY DEF TypeOK, StripeState

\* What Stripe has after a range is sent, and the usage row once it is marked.
LEMMA CountedType ==
    ASSUME TypeOK, NEW p \in Reporters
    PROVE  CountedRange(p) \in StripeState
<1> DEFINE new == [u \in Units |->
              IF reporter[p].from < u /\ u <= reporter[p].to
              THEN stripe.counted[u] + 1 ELSE stripe.counted[u]]
<1>1. stripe \in StripeState
  BY DEF TypeOK
<1>2. new \in [Units -> Nat]
  BY StripeTypes
<1>3. RangeOf(p) \in (0..MaxConversions) \X (0..MaxConversions)
  BY ReporterTypes DEF RangeOf
<1> HIDE DEF new
<1>4. [stripe EXCEPT !.ranges = stripe.ranges \cup {RangeOf(p)}, !.counted = new] \in StripeState
  BY <1>1, <1>2, <1>3, StripeTypes DEF StripeState
<1> QED
  BY <1>1, <1>4 DEF CountedRange, new

LEMMA MarkedType ==
    ASSUME TypeOK, NEW p \in Reporters
    PROVE  MarkedRange(p) \in UsageState
<1>1. 0 \in 0..MaxConversions /\ reporter[p].to \in 0..MaxConversions
  BY ReporterTypes, MeteringAssumption
<1> QED
  BY <1>1, UsageTypes, UsageFields DEF MarkedRange

\* A month begins in its type.
LEMMA InitType == Init => TypeOK
<1> SUFFICES ASSUME Init PROVE TypeOK
  OBVIOUS
<1>1. usage \in UsageState
  BY MeteringAssumption DEF Init, UsageState
<1>2. reporter \in [Reporters -> ReporterState]
  BY MeteringAssumption DEF Init, ReporterState, Rest
<1>3. stripe \in StripeState
  BY DEF Init, StripeState
<1>4. request \in [Requests -> RequestState]
  BY DEF Init, RequestState, Out, Terms
<1>5. active \in [Documents -> RowState] /\ terms \in Terms /\ events \in 0..MaxEvents
  BY MeteringAssumption DEF Init, RowState
<1> QED
  BY <1>1, <1>2, <1>3, <1>4, <1>5 DEF TypeOK

\* Admissions keep the types.
LEMMA AdmissionType ==
    ASSUME TypeOK, NEW q \in Requests, Admission(q)
    PROVE  TypeOK'
<1>1. Out \in RequestState
  BY DEF Out, RequestState, Terms
<1>2. request[q] \in RequestState
  BY DEF TypeOK
<1>3. ASSUME NEW d \in Documents, Ask(q, d) PROVE TypeOK'
  <2>1. [at |-> "asked", doc |-> {d}, terms |-> terms] \in RequestState
    BY DEF TypeOK, RequestState
  <2> QED
    BY <1>3, <2>1 DEF Ask, TypeOK
<1>4. CASE Check(q)
  <2>1. [request[q] EXCEPT !.at = "waiting"] \in RequestState
    BY <1>2 DEF RequestState
  <2> QED
    BY <1>1, <1>4, <2>1 DEF Check, TypeOK
<1>5. CASE Admit(q)
  <2>1. request' \in [Requests -> RequestState]
    BY <1>1, <1>5 DEF Admit, TypeOK
  <2>2. Rows(q) \in [Documents -> RowState]
    BY DEF Rows, RowState, TypeOK
  <2>3. active' \in [Documents -> RowState]
    BY <1>5, <2>2 DEF Admit, TypeOK
  <2>4. usage' = usage \/ usage' = [usage EXCEPT !.active = usage.active]
        \/ usage' = [usage EXCEPT !.active = usage.active + 1]
    BY <1>5 DEF Admit
  <2>5. usage' \in UsageState
    <3>1. usage \in UsageState /\ usage.active \in Nat /\ usage.active + 1 \in Nat
      BY UsageTypes
    <3>2. \A n \in Nat : [usage EXCEPT !.active = n] \in UsageState
      BY <3>1, UsageFields
    <3> QED
      BY <2>4, <3>1, <3>2
  <2>6. UNCHANGED <<terms, reporter, stripe, events>>
    BY <1>5 DEF Admit
  <2> QED
    BY <2>1, <2>3, <2>5, <2>6 DEF TypeOK
<1>6. CASE AdmitFails(q)
  <2>1. request' \in [Requests -> RequestState] /\ events' \in 0..MaxEvents
    BY <1>1, <1>6, MeteringAssumption DEF AdmitFails, Happens, TypeOK
  <2> QED
    BY <1>6, <2>1 DEF AdmitFails, TypeOK
<1> QED
  BY <1>3, <1>4, <1>5, <1>6 DEF Admission

\* The plan changes and conversions run within the types.
LEMMA ProjectType ==
    ASSUME TypeOK, SetTerms \/ Convert
    PROVE  TypeOK'
<1>1. CASE SetTerms
  BY <1>1, MeteringAssumption DEF SetTerms, Happens, TypeOK
<1>2. CASE Convert
  <2>1. usage.billable + 1 \in 0..MaxConversions
    BY <1>2, UsageTypes, MeteringAssumption DEF Convert
  <2>2. usage' \in UsageState
    BY <1>2, <2>1, UsageTypes, UsageFields DEF Convert
  <2> QED
    BY <1>2, <2>2 DEF Convert, TypeOK
<1> QED
  BY <1>1, <1>2

\* Report passes keep the types, when everything answers,
LEMMA ReportType ==
    ASSUME TypeOK, NEW p \in Reporters, Report(p)
    PROVE  TypeOK'
<1> DEFINE R == reporter[p]
<1>1. R \in ReporterState /\ R.todo \in SUBSET Documents /\ R.doc \in SUBSET Documents
      /\ R.from \in 0..MaxConversions /\ R.to \in 0..MaxConversions
  BY ReporterTypes
<1>2. ASSUME NEW new \in ReporterState, reporter' = [reporter EXCEPT ![p] = new]
      PROVE  reporter' \in [Reporters -> ReporterState]
  BY <1>2 DEF TypeOK
<1>3. CASE StartPass(p)
  <2>1. {d \in Documents : active[d] = "pending"} \in SUBSET Documents
    OBVIOUS
  <2>2. reporter' \in [Reporters -> ReporterState]
    BY <1>1, <1>2, <1>3, <2>1, ReporterFields DEF StartPass
  <2> QED
    BY <1>3, <2>2 DEF StartPass, TypeOK
<1>4. CASE SendDocument(p)
  <2>1. PICK d \in Documents : /\ stripe' = [stripe EXCEPT !.documents = @ \cup {d}]
                                /\ reporter' = [reporter EXCEPT ![p] = [R EXCEPT !.at = "sent", !.doc = {d}]]
    BY <1>1, <1>4 DEF SendDocument, TypeOK
  <2>2. reporter' \in [Reporters -> ReporterState]
    BY <1>1, <1>2, <2>1, ReporterFields
  <2>3. stripe' \in StripeState
    BY <2>1, StripeTypes DEF StripeState, TypeOK
  <2> QED
    BY <1>4, <2>2, <2>3 DEF SendDocument, TypeOK
<1>5. CASE MarkDocument(p)
  <2>1. reporter' \in [Reporters -> ReporterState]
    BY <1>1, <1>2, <1>5, ReporterFields DEF MarkDocument
  <2>2. active' \in [Documents -> RowState]
    BY <1>5 DEF MarkDocument, MarkedDocument, RowState, TypeOK
  <2> QED
    BY <1>5, <2>1, <2>2 DEF MarkDocument, TypeOK
<1>6. CASE Reserve(p)
  <2>1. Reservation \in 0..MaxConversions
    BY UsageTypes DEF Reservation
  <2>2. usage' \in UsageState
    BY <1>6, <2>1, UsageTypes, UsageFields DEF Reserve
  <2>3. reporter' \in [Reporters -> ReporterState]
    BY <1>1, <1>2, <1>6, ReporterFields DEF Reserve
  <2> QED
    BY <1>6, <2>2, <2>3 DEF Reserve, TypeOK
<1>7. CASE Claim(p)
  <2>1. reporter' \in [Reporters -> ReporterState]
    BY <1>1, <1>2, <1>7, ReporterFields, UsageTypes DEF Claim
  <2> QED
    BY <1>7, <2>1 DEF Claim, TypeOK
<1>8. CASE SendRange(p)
  <2>1. reporter' \in [Reporters -> ReporterState]
    BY <1>1, <1>2, <1>8, ReporterFields DEF SendRange, TypeOK
  <2>2. stripe' \in StripeState
    BY <1>8, CountedType DEF SendRange
  <2> QED
    BY <1>8, <2>1, <2>2 DEF SendRange, TypeOK
<1>9. CASE MarkRange(p)
  <2>1. reporter' \in [Reporters -> ReporterState]
    BY <1>1, <1>2, <1>9, ReporterFields DEF MarkRange
  <2>2. usage' \in UsageState
    BY <1>9, MarkedType DEF MarkRange
  <2> QED
    BY <1>9, <2>1, <2>2 DEF MarkRange, TypeOK
<1> QED
  BY <1>3, <1>4, <1>5, <1>6, <1>7, <1>8, <1>9 DEF Report

\* and when something does not.
LEMMA TroubleType ==
    ASSUME TypeOK, NEW p \in Reporters, Trouble(p)
    PROVE  TypeOK'
<1> DEFINE R == reporter[p]
<1>1. R \in ReporterState /\ R.todo \in SUBSET Documents
      /\ R.from \in 0..MaxConversions /\ R.to \in 0..MaxConversions
  BY ReporterTypes
<1>2. ASSUME NEW new \in ReporterState, reporter' = [reporter EXCEPT ![p] = new]
      PROVE  reporter' \in [Reporters -> ReporterState]
  BY <1>2 DEF TypeOK
<1>3. ASSUME NEW kind, Happens(kind) PROVE events' \in 0..MaxEvents
  BY <1>3, MeteringAssumption DEF Happens, TypeOK
<1>4. Rest \in ReporterState /\ DocumentsDone \in ReporterState
  BY <1>1, ReporterFields
<1>5. CASE StartPassFails(p)
  BY <1>2, <1>3, <1>4, <1>5 DEF StartPassFails, TypeOK
<1>6. CASE SendDocumentFails(p)
  <2>1. PICK T \in SUBSET Documents : stripe' = [stripe EXCEPT !.documents = @ \cup T]
    BY <1>1, <1>6 DEF SendDocumentFails
  <2>2. stripe' \in StripeState
    BY <2>1, StripeTypes DEF StripeState, TypeOK
  <2>3. /\ events' \in 0..MaxEvents
        /\ reporter' \in [Reporters -> ReporterState]
        /\ UNCHANGED <<terms, active, usage, request>>
    BY <1>2, <1>3, <1>4, <1>6 DEF SendDocumentFails
  <2> QED
    BY <2>2, <2>3 DEF TypeOK
<1>7. CASE RefuseDocument(p)
  <2>1. PICK d \in Documents : /\ stripe' = [stripe EXCEPT !.refused = @ \cup {d}]
                                /\ reporter' = [reporter EXCEPT ![p] = [R EXCEPT !.at = "sent", !.doc = {d}]]
    BY <1>1, <1>7 DEF RefuseDocument, TypeOK
  <2>2. reporter' \in [Reporters -> ReporterState]
    BY <1>1, <1>2, <2>1, ReporterFields
  <2>3. stripe' \in StripeState
    BY <2>1, StripeTypes DEF StripeState, TypeOK
  <2> QED
    BY <1>3, <1>7, <2>2, <2>3 DEF RefuseDocument, TypeOK
<1>8. CASE MarkDocumentFails(p)
  <2>1. MarkedDocument(p) \in [Documents -> RowState]
    BY DEF MarkedDocument, RowState, TypeOK
  <2> QED
    BY <1>2, <1>3, <1>4, <1>8, <2>1 DEF MarkDocumentFails, TypeOK
<1>9. CASE ReserveFails(p)
  BY <1>2, <1>3, <1>4, <1>9 DEF ReserveFails, TypeOK
<1>10. CASE SendRangeFails(p)
  <2>1. stripe' \in StripeState
    BY <1>10, CountedType DEF SendRangeFails, TypeOK
  <2> QED
    BY <1>2, <1>3, <1>4, <1>10, <2>1 DEF SendRangeFails, TypeOK
<1>11. CASE RefuseRange(p)
  <2>1. reporter' \in [Reporters -> ReporterState]
    BY <1>1, <1>2, <1>11, ReporterFields DEF RefuseRange, TypeOK
  <2>2. stripe' \in StripeState
    BY <1>11, StripeTypes DEF RefuseRange, StripeState, TypeOK
  <2> QED
    BY <1>3, <1>11, <2>1, <2>2 DEF RefuseRange, TypeOK
<1>12. CASE MarkRangeFails(p)
  <2>1. usage' \in UsageState
    BY <1>12, MarkedType DEF MarkRangeFails, TypeOK
  <2> QED
    BY <1>2, <1>3, <1>4, <1>12, <2>1 DEF MarkRangeFails, TypeOK
<1>13. CASE Crash(p)
  BY <1>2, <1>3, <1>4, <1>13 DEF Crash, TypeOK
<1> QED
  BY <1>5, <1>6, <1>7, <1>8, <1>9, <1>10, <1>11, <1>12, <1>13 DEF Trouble

\* Every state of Metering is typed.
THEOREM TypeCorrect == Spec => []TypeOK
<1>1. ASSUME TypeOK, [Next]_vars PROVE TypeOK'
  <2>1. CASE UNCHANGED vars
    BY <1>1, <2>1 DEF vars, TypeOK
  <2>2. CASE Next
    BY <1>1, <2>2, ProjectType, AdmissionType, ReportType, TroubleType DEF Next
  <2> QED
    BY <1>1, <2>1, <2>2
<1> QED
  BY InitType, <1>1, PTL DEF Spec
-----------------------------------------------------------------------------
(***************************************************************************)
(* Admission: the counter is exact and the free plan's cap holds.          *)
(***************************************************************************)

LEMMA ActiveIsFinite == IsFiniteSet(Active) /\ Cardinality(Active) \in Nat
<1>1. IsFiniteSet(Active)
  BY MeteringAssumption, FS_Subset DEF Active
<1> QED
  BY <1>1, FS_CardinalityType

\* The actions that touch no row, counter or admission.
LEMMA DocumentsElsewhere ==
    ASSUME TypeOK, DocumentsInv, CountIsExact,
           UNCHANGED <<active, request>>,
           usage'.active = usage.active,
           \A p \in Reporters : reporter'[p].todo \cup reporter'[p].doc \subseteq Active
    PROVE  DocumentsInv' /\ CountIsExact'
  BY DEF DocumentsInv, CountIsExact, Active

\* An admission adds its document to the rows and to the counter, or to neither.
LEMMA AdmitCounts ==
    ASSUME TypeOK, DocumentsInv, CountIsExact, NEW q \in Requests, Admit(q)
    PROVE  /\ CountIsExact'
           /\ Active \subseteq Active'
           /\ active' # active => usage.active < Cardinality(Active') /\ Cardinality(Active') = usage.active + 1
<1>1. PICK d \in Documents : request[q].doc = {d}
  BY DEF Admit, DocumentsInv
<1>2. usage \in UsageState /\ usage.active \in Nat
  BY UsageTypes
<1>3. CASE Full(request[q].terms, usage.active)
  BY <1>3 DEF Admit, CountIsExact, Active
<1>4. CASE ~Full(request[q].terms, usage.active) /\ d \in Active
  <2>1. active' = active /\ usage'.active = usage.active
    BY <1>1, <1>2, <1>4 DEF Admit, Rows, Active, TypeOK, UsageState
  <2> QED
    BY <2>1 DEF CountIsExact, Active
<1>5. CASE ~Full(request[q].terms, usage.active) /\ d \notin Active
  <2>1. active' = Rows(q) /\ usage'.active = usage.active + 1
    BY <1>1, <1>2, <1>5 DEF Admit, UsageState
  <2>2. Active' = Active \cup {d}
    BY <1>1, <1>5, <2>1 DEF Rows, Active
  <2>3. Cardinality(Active') = Cardinality(Active) + 1
    BY <1>5, <2>2, ActiveIsFinite, FS_AddElement
  <2> QED
    BY <1>2, <2>1, <2>2, <2>3 DEF CountIsExact
<1> QED
  BY <1>3, <1>4, <1>5

\* The other reporters are where they were.
LEMMA OtherReporters ==
    ASSUME TypeOK, NEW p \in Reporters, Report(p) \/ Trouble(p)
    PROVE  \A o \in Reporters \ {p} : reporter'[o] = reporter[o]
  BY DEF TypeOK, Report, Trouble, StartPass, SendDocument, MarkDocument, Reserve, Claim,
         SendRange, MarkRange, StartPassFails, SendDocumentFails, RefuseDocument,
         MarkDocumentFails, ReserveFails, SendRangeFails, RefuseRange, MarkRangeFails, Crash

\* Marking a document that has a row leaves the rows that there are.
LEMMA MarkedHasRow ==
    ASSUME TypeOK, DocumentsInv, NEW p \in Reporters,
           active' = active \/ active' = MarkedDocument(p)
    PROVE  Active' = Active
<1>1. reporter[p].doc \subseteq Active
  BY DEF DocumentsInv
<1> QED
  BY <1>1 DEF MarkedDocument, Active

LEMMA DocumentsStep ==
    ASSUME TypeOK, DocumentsInv, CountIsExact, [Next]_vars
    PROVE  DocumentsInv' /\ CountIsExact'
<1> USE DEF DocumentsInv
<1>1. \A q \in Requests : request[q] \in RequestState
  BY DEF TypeOK
<1>2. usage \in UsageState
  BY DEF TypeOK
<1>4. CASE UNCHANGED vars
  BY <1>4 DEF vars, CountIsExact, Active
<1>5. CASE SetTerms \/ Convert
  <2>1. usage'.active = usage.active /\ UNCHANGED <<active, request, reporter>>
    BY <1>2, <1>5 DEF SetTerms, Convert, UsageState
  <2> QED
    BY <2>1, DocumentsElsewhere
<1>6. ASSUME NEW q \in Requests, Admission(q)
      PROVE  DocumentsInv' /\ CountIsExact'
  <2>1. UNCHANGED reporter
    BY <1>6 DEF Admission, Ask, Check, Admit, AdmitFails
  <2>2. \A o \in Requests : request'[o].at # "out" => \E d \in Documents : request'[o].doc = {d}
    BY <1>1, <1>6 DEF Admission, Ask, Check, Admit, AdmitFails, Out, TypeOK, RequestState
  <2>3. CASE Admit(q)
    BY <2>1, <2>2, <2>3, AdmitCounts
  <2>4. CASE ~Admit(q)
    <3>1. UNCHANGED <<active, usage>>
      BY <1>6, <2>4 DEF Admission, Ask, Check, AdmitFails
    <3> QED
      BY <2>1, <2>2, <3>1 DEF CountIsExact, Active
  <2> QED
    BY <2>3, <2>4
<1>7. ASSUME NEW p \in Reporters, Report(p) \/ Trouble(p)
      PROVE  DocumentsInv' /\ CountIsExact'
  <2> DEFINE R == reporter[p]
  <2>1. UNCHANGED request /\ usage'.active = usage.active
    BY <1>2, <1>7 DEF Report, Trouble, StartPass, SendDocument, MarkDocument, Reserve, Claim,
          SendRange, MarkRange, StartPassFails, SendDocumentFails, RefuseDocument,
          MarkDocumentFails, ReserveFails, SendRangeFails, RefuseRange, MarkRangeFails, Crash,
          MarkedRange, UsageState
  <2>2. Active' = Active
    <3>1. active' = active \/ active' = MarkedDocument(p)
      BY <1>7 DEF Report, Trouble, StartPass, SendDocument, MarkDocument, Reserve, Claim,
          SendRange, MarkRange, StartPassFails, SendDocumentFails, RefuseDocument,
          MarkDocumentFails, ReserveFails, SendRangeFails, RefuseRange, MarkRangeFails, Crash
    <3> QED
      BY <3>1, MarkedHasRow
  <2>3. R.todo \in SUBSET Documents /\ R.doc \in SUBSET Documents /\ R \in ReporterState
    BY ReporterTypes
  <2>4. reporter'[p].todo \cup reporter'[p].doc \subseteq R.todo \cup R.doc \cup Active
    <3>1. CASE StartPass(p)
      BY <3>1 DEF StartPass, Rest, Active, TypeOK
    <3>2. CASE SendDocument(p) \/ RefuseDocument(p)
      <4>1. PICK d \in R.todo : reporter' = [reporter EXCEPT ![p] = [R EXCEPT !.at = "sent", !.doc = {d}]]
        BY <3>2 DEF SendDocument, RefuseDocument, TypeOK
      <4> QED
        BY <2>3, <4>1 DEF ReporterState, TypeOK
    <3>3. CASE MarkDocument(p)
      BY <2>3, <3>3 DEF MarkDocument, ReporterState, TypeOK
    <3>4. CASE SendRange(p) \/ RefuseRange(p)
      <4>1. reporter' = [reporter EXCEPT ![p] = [R EXCEPT !.at = "rangeSent"]]
        BY <3>4 DEF SendRange, RefuseRange, TypeOK
      <4> QED
        BY <2>3, <4>1 DEF ReporterState, TypeOK
    <3>5. CASE Claim(p)
      BY <3>5 DEF Claim, Rest, TypeOK
    <3>6. CASE Reserve(p) \/ MarkRange(p) \/ StartPassFails(p) \/ SendDocumentFails(p)
               \/ MarkDocumentFails(p) \/ ReserveFails(p) \/ SendRangeFails(p)
               \/ MarkRangeFails(p) \/ Crash(p)
      BY <3>6 DEF Reserve, MarkRange, StartPassFails, SendDocumentFails, MarkDocumentFails,
            ReserveFails, SendRangeFails, MarkRangeFails, Crash, Rest, DocumentsDone, TypeOK
    <3> QED
      BY <1>7, <3>1, <3>2, <3>3, <3>4, <3>5, <3>6 DEF Report, Trouble
  <2>5. \A o \in Reporters \ {p} : reporter'[o] = reporter[o]
    BY <1>7, OtherReporters
  <2>6. \A o \in Reporters : reporter'[o].todo \cup reporter'[o].doc \subseteq Active
    BY <2>4, <2>5
  <2> QED
    BY <2>1, <2>2, <2>6 DEF CountIsExact
<1> QED
  BY <1>4, <1>5, <1>6, <1>7 DEF Next

\* The counter is exact, and the rows are those of admitted documents.
LEMMA DocumentsInvariant == Spec => [](TypeOK /\ DocumentsInv /\ CountIsExact)
<1>1. Init => DocumentsInv /\ CountIsExact
  <2> SUFFICES ASSUME Init PROVE DocumentsInv /\ CountIsExact
    OBVIOUS
  <2>1. Active = {} /\ usage.active = 0
    BY DEF Init, Active
  <2> QED
    BY <2>1, FS_EmptySet DEF Init, DocumentsInv, CountIsExact, Out, Rest
<1>2. TypeOK /\ DocumentsInv /\ CountIsExact /\ [Next]_vars => (DocumentsInv /\ CountIsExact)'
  BY DocumentsStep
<1> QED
  BY <1>1, <1>2, TypeCorrect, PTL DEF Spec

\* The counter the cap reads is the number of active documents, however
\* admissions of one document interleave.
THEOREM CountIsExactTheorem == Spec => []CountIsExact
  BY DocumentsInvariant, PTL

\* No admission under the free plan's terms goes beyond what it includes.
THEOREM FreeCapHoldsTheorem == Spec => FreeCapHolds
<1>1. ASSUME TypeOK, DocumentsInv, CountIsExact, NEW q \in Requests,
             ~request[q].terms.paid, Admit(q), active' # active
      PROVE  Cardinality(Active') <= Included
  <2>1. usage.active < Included
    BY <1>1, UsageTypes, MeteringAssumption DEF Admit, Full
  <2> QED
    BY <1>1, <2>1, AdmitCounts, UsageTypes, MeteringAssumption
<1>2. TypeOK /\ DocumentsInv /\ CountIsExact =>
        \A q \in Requests :
         (/\ request[q].at = "waiting"
          /\ ~request[q].terms.paid
          /\ Admit(q)
          /\ active' # active) => Cardinality(Active') <= Included
  BY <1>1
<1> QED
  BY <1>2, DocumentsInvariant, PTL DEF FreeCapHolds
-----------------------------------------------------------------------------
(***************************************************************************)
(* Reporting: what is billed is billed once.                               *)
(***************************************************************************)

Claiming == {"range", "rangeSent"}

\* Ranges are pairs of numbers.
LEMMA KnownType ==
    ASSUME TypeOK
    PROVE  Known \subseteq (0..MaxConversions) \X (0..MaxConversions)
  BY StripeTypes, ReporterTypes, UsageTypes DEF Known, Claims, Current, RangeOf

\* Where a reporter is after each step of its pass.
LEMMA Places ==
    ASSUME TypeOK, NEW p \in Reporters
    PROVE  /\ StartPass(p) \/ MarkDocument(p) => reporter'[p].at = "documents"
           /\ SendDocument(p) \/ RefuseDocument(p) => reporter'[p].at = "sent"
           /\ Reserve(p) => reporter'[p].at = "reserved"
           /\ Claim(p) => reporter'[p].at = "rest" \/ (reporter'[p].at = "range" /\ RangeOf(p)' \in Current)
           /\ SendRange(p) \/ RefuseRange(p) =>
                 reporter'[p].at = "rangeSent" /\ RangeOf(p)' = RangeOf(p)
           /\ MarkRange(p) \/ StartPassFails(p) \/ SendDocumentFails(p) \/ MarkDocumentFails(p)
                \/ ReserveFails(p) \/ SendRangeFails(p) \/ MarkRangeFails(p) \/ Crash(p)
                 => reporter'[p].at \in {"rest", "documents"}
<1>1. reporter[p] \in ReporterState
  BY DEF TypeOK
<1>2. StartPass(p) => reporter'[p].at = "documents"
  BY DEF StartPass, Rest, TypeOK
<1>3. MarkDocument(p) => reporter'[p].at = "documents"
  BY <1>1 DEF MarkDocument, TypeOK, ReporterState
<1>4. ASSUME SendDocument(p) \/ RefuseDocument(p) PROVE reporter'[p].at = "sent"
  <2>1. PICK d : reporter' = [reporter EXCEPT ![p] = [reporter[p] EXCEPT !.at = "sent", !.doc = {d}]]
    BY <1>4 DEF SendDocument, RefuseDocument, TypeOK
  <2> QED
    BY <1>1, <2>1 DEF TypeOK, ReporterState
<1>5. Reserve(p) => reporter'[p].at = "reserved"
  BY DEF Reserve, Rest, TypeOK
<1>6. Claim(p) => reporter'[p].at = "rest" \/ (reporter'[p].at = "range" /\ RangeOf(p)' \in Current)
  BY DEF Claim, TypeOK, Rest, RangeOf, Current
<1>7. ASSUME SendRange(p) \/ RefuseRange(p)
      PROVE  reporter'[p].at = "rangeSent" /\ RangeOf(p)' = RangeOf(p)
  <2>1. reporter' = [reporter EXCEPT ![p] = [reporter[p] EXCEPT !.at = "rangeSent"]]
    BY <1>7 DEF SendRange, RefuseRange, TypeOK
  <2> QED
    BY <1>1, <2>1 DEF TypeOK, ReporterState, RangeOf
<1>8. Rest.at = "rest" /\ DocumentsDone.at = "documents"
  BY DEF Rest, DocumentsDone
<1>9. MarkRange(p) \/ StartPassFails(p) \/ SendDocumentFails(p) \/ MarkDocumentFails(p)
         \/ ReserveFails(p) \/ SendRangeFails(p) \/ MarkRangeFails(p) \/ Crash(p)
         => reporter'[p].at \in {"rest", "documents"}
  BY <1>8 DEF MarkRange, StartPassFails, SendDocumentFails, MarkDocumentFails,
        ReserveFails, SendRangeFails, MarkRangeFails, Crash, TypeOK
<1> QED
  BY <1>2, <1>3, <1>4, <1>5, <1>6, <1>7, <1>9

\* A step of a pass tells Stripe ranges that were claimed, claims at most the
\* reserved one, and reserves or marks only as the store does.
LEMMA PassStep ==
    ASSUME TypeOK, NEW p \in Reporters, Report(p) \/ Trouble(p)
    PROVE  /\ \A o \in Reporters : reporter'[o].at \in Claiming =>
                 \/ reporter[o].at \in Claiming /\ RangeOf(o)' = RangeOf(o)
                 \/ RangeOf(o)' \in Current
           /\ \/ stripe'.ranges = stripe.ranges /\ stripe'.counted = stripe.counted
              \/ reporter[p].at = "range" /\ stripe' = CountedRange(p)
           /\ \/ usage' = usage
              \/ usage' = [usage EXCEPT !.reserved = Reservation]
              \/ reporter[p].at = "rangeSent" /\ usage' = MarkedRange(p)
<1>0. SendRange(p) \/ RefuseRange(p) => reporter[p].at = "range"
  BY DEF SendRange, RefuseRange
<1>1. stripe \in StripeState
  BY DEF TypeOK
<1>2. \A o \in Reporters \ {p} : reporter'[o] = reporter[o]
  BY OtherReporters
<1>3. reporter'[p].at \in Claiming =>
         \/ reporter[p].at \in Claiming /\ RangeOf(p)' = RangeOf(p)
         \/ RangeOf(p)' \in Current
  BY <1>0, Places DEF Report, Trouble, Claiming
<1>4. \/ stripe'.ranges = stripe.ranges /\ stripe'.counted = stripe.counted
      \/ reporter[p].at = "range" /\ stripe' = CountedRange(p)
  BY <1>1 DEF StripeState, Report, Trouble, StartPass, SendDocument, MarkDocument, Reserve, Claim,
         SendRange, MarkRange, StartPassFails, SendDocumentFails, RefuseDocument,
         MarkDocumentFails, ReserveFails, SendRangeFails, RefuseRange, MarkRangeFails, Crash
<1>5. \/ usage' = usage
      \/ usage' = [usage EXCEPT !.reserved = Reservation]
      \/ reporter[p].at = "rangeSent" /\ usage' = MarkedRange(p)
  BY DEF Report, Trouble, StartPass, SendDocument, MarkDocument, Reserve, Claim,
         SendRange, MarkRange, StartPassFails, SendDocumentFails, RefuseDocument,
         MarkDocumentFails, ReserveFails, SendRangeFails, RefuseRange, MarkRangeFails, Crash
<1>6. \A o \in Reporters : reporter'[o].at \in Claiming =>
         \/ reporter[o].at \in Claiming /\ RangeOf(o)' = RangeOf(o)
         \/ RangeOf(o)' \in Current
  BY <1>2, <1>3 DEF RangeOf
<1> QED
  BY <1>4, <1>5, <1>6

\* So no step of a pass makes a range but the reserved one.
LEMMA StillKnown ==
    ASSUME TypeOK, NEW p \in Reporters, Report(p) \/ Trouble(p)
    PROVE  stripe'.ranges \cup Claims' \subseteq Known
<1>1. RangeOf(p) \in Claims \/ reporter[p].at # "range"
  BY DEF Claims
<1>2. stripe'.ranges \subseteq Known
  <2>1. CountedRange(p).ranges \subseteq stripe.ranges \cup {RangeOf(p)}
    BY DEF CountedRange, TypeOK, StripeState
  <2> QED
    BY <1>1, <2>1, PassStep DEF Known
<1>3. Claims' \subseteq Known
  BY PassStep DEF Claims, Known, Claiming
<1> QED
  BY <1>2, <1>3

\* A range that a reporter sent is the reserved one, or was marked before.
LEMMA MarkStep ==
    ASSUME TypeOK, RangeInv, NEW p \in Reporters, reporter[p].at \in Claiming,
           usage.reserved = reporter[p].to
    PROVE  /\ RangeOf(p) \in Current
           /\ reporter[p].from = usage.reported
           /\ usage.reported < reporter[p].to
           /\ usage.reserved # 0
<1>1. RangeOf(p) \in Known
  BY DEF Known, Claims, Claiming
<1>2. reporter[p].from < reporter[p].to
  BY <1>1 DEF RangeInv, RangeOf
<1>3. usage.reserved # 0
  BY <1>2, ReporterTypes, MeteringAssumption
<1>4. <<usage.reported, usage.reserved>> \in Known
  BY <1>3 DEF Known, Current
<1>5. usage.reported < usage.reserved
  BY <1>4 DEF RangeInv
<1>6. RangeOf(p) \in Current
  <2>1. RangeOf(p)[2] <= usage.reported \/ RangeOf(p) \in Current
    BY <1>1 DEF RangeInv
  <2> QED
    BY <1>5, <2>1, UsageTypes, MeteringAssumption DEF RangeOf
<1> QED
  BY <1>3, <1>5, <1>6 DEF Current, RangeOf

\* Ranges stay disjoint through a step of a pass.
LEMMA RangeStep ==
    ASSUME TypeOK, RangeInv, NEW p \in Reporters, Report(p) \/ Trouble(p)
    PROVE  RangeInv'
<1> DEFINE M == usage.reported
<1>1. Known \subseteq (0..MaxConversions) \X (0..MaxConversions)
  BY KnownType
<1>2. usage \in UsageState /\ M \in 0..MaxConversions /\ usage.billable \in 0..MaxConversions
      /\ usage.reserved \in 0..MaxConversions
  BY UsageTypes
<1>3. stripe'.ranges \cup Claims' \subseteq Known
  BY StillKnown
<1>4. CASE usage' = usage
  <2>1. Current' = Current /\ Known' \subseteq Known
    BY <1>3, <1>4 DEF Known, Current
  <2> QED
    BY <1>4, <2>1 DEF RangeInv
<1>5. CASE usage.reserved = 0 /\ usage.billable > M
           /\ usage' = [usage EXCEPT !.reserved = usage.billable]
  <2>1. usage'.reported = M /\ usage'.billable = usage.billable /\ usage'.reserved = usage.billable
    BY <1>2, <1>5 DEF UsageState
  <2>2. Current = {} /\ Current' = {<<M, usage.billable>>}
    BY <1>2, <1>5, <2>1, MeteringAssumption DEF Current
  <2>3. \A r \in Known : r[1] < r[2] /\ r[2] <= M /\ r[2] <= usage.billable
    BY <2>2 DEF RangeInv
  <2>4. Known' \subseteq Known \cup {<<M, usage.billable>>}
    BY <1>3, <2>2 DEF Known
  <2>5. \A r \in Known' : r[1] < r[2] /\ r[2] <= usage.billable /\ (r[2] <= M \/ r \in Current')
    BY <1>2, <1>5, <2>2, <2>3, <2>4
  <2>6. \A r, s \in Known' : r = s \/ r[2] <= s[1] \/ s[2] <= r[1]
    BY <2>3, <2>4 DEF RangeInv
  <2> QED
    BY <1>2, <1>5, <2>1, <2>5, <2>6 DEF RangeInv
<1>6. CASE reporter[p].at = "rangeSent" /\ usage.reserved = reporter[p].to
           /\ usage' = [usage EXCEPT !.reported = reporter[p].to, !.reserved = 0]
  <2>1. usage'.reported = usage.reserved /\ usage'.billable = usage.billable /\ usage'.reserved = 0
    BY <1>2, <1>6 DEF UsageState
  <2>2. M < usage.reserved /\ usage.reserved # 0
    BY <1>6, MarkStep DEF Claiming
  <2>3. Current = {<<M, usage.reserved>>} /\ Current' = {}
    BY <2>1, <2>2 DEF Current
  <2>4. Known' \subseteq Known
    BY <1>3, <2>3 DEF Known
  <2>5. \A r \in Known : r[2] <= usage.reserved
    BY <1>1, <1>2, <2>2, <2>3, MeteringAssumption DEF RangeInv
  <2>6. usage.reserved <= usage.billable
    <3>1. <<M, usage.reserved>> \in Known
      BY <2>3 DEF Known
    <3> QED
      BY <3>1 DEF RangeInv
  <2> QED
    BY <2>1, <2>4, <2>5, <2>6 DEF RangeInv
<1> QED
  BY <1>2, <1>4, <1>5, <1>6, PassStep DEF MarkedRange, Reservation, UsageState

\* What Stripe counts stays counted once.
LEMMA CountedStep ==
    ASSUME TypeOK, RangeInv, CountedInv, NEW p \in Reporters, Report(p) \/ Trouble(p)
    PROVE  /\ CountedInv'
           /\ \A u \in Units : stripe.counted[u] > 0 => stripe'.counted[u] > 0
<1>1. stripe \in StripeState /\ stripe.counted \in [Units -> Nat]
  BY StripeTypes DEF TypeOK
<1>2. CASE stripe'.ranges = stripe.ranges /\ stripe'.counted = stripe.counted
  BY <1>2 DEF CountedInv
<1>3. CASE stripe' = stripe
  BY <1>3 DEF CountedInv
<1>4. CASE /\ reporter[p].at = "range"
           /\ RangeOf(p) \notin stripe.ranges
           /\ stripe' = CountedRange(p)
           /\ stripe' # stripe
  <2> DEFINE In(u) == reporter[p].from < u /\ u <= reporter[p].to
             new == [u \in Units |-> IF In(u) THEN stripe.counted[u] + 1 ELSE stripe.counted[u]]
  <2>1. stripe'.ranges = stripe.ranges \cup {RangeOf(p)} /\ stripe'.counted = new
    BY <1>1, <1>4 DEF CountedRange, StripeState
  <2>2. RangeOf(p) \in Known
    BY <1>4 DEF Known, Claims
  <2>3. ASSUME NEW u \in Units, In(u), NEW r \in stripe.ranges
        PROVE  ~Within(r, u)
    <3>1. r \in Known /\ r # RangeOf(p)
      BY <1>4 DEF Known
    <3>2. RangeOf(p)[2] <= r[1] \/ r[2] <= RangeOf(p)[1]
      BY <2>2, <3>1 DEF RangeInv
    <3>3. r[1] \in Int /\ r[2] \in Int
      BY StripeTypes
    <3> QED
      BY <2>3, <3>2, <3>3, ReporterTypes, MeteringAssumption DEF RangeOf, Within, Units
  <2>4. ASSUME NEW u \in Units
        PROVE  /\ new[u] = IF \E r \in stripe'.ranges : Within(r, u) THEN 1 ELSE 0
               /\ stripe.counted[u] > 0 => new[u] > 0
    <3>1. stripe.counted[u] = IF \E r \in stripe.ranges : Within(r, u) THEN 1 ELSE 0
      BY DEF CountedInv
    <3>2. Within(RangeOf(p), u) <=> In(u)
      BY DEF Within, RangeOf
    <3>3. CASE In(u)
      <4>1. stripe.counted[u] = 0
        BY <2>3, <3>1, <3>3
      <4>2. \E r \in stripe'.ranges : Within(r, u)
        BY <2>1, <3>2, <3>3
      <4> QED
        BY <3>3, <4>1, <4>2
    <3>4. CASE ~In(u)
      BY <2>1, <3>1, <3>2, <3>4
    <3> QED
      BY <3>3, <3>4
  <2> QED
    BY <2>1, <2>4 DEF CountedInv
<1> QED
  BY <1>2, <1>3, <1>4, PassStep DEF CountedRange

\* A reporter that has just sent its range: what is in it landed or was refused.
LEMMA SentRange ==
    ASSUME TypeOK, RangeInv, CountedInv, NEW p \in Reporters, SendRange(p) \/ RefuseRange(p),
           NEW u \in Units, Within(RangeOf(p), u)
    PROVE  Landed(u)'
<1>1. stripe \in StripeState
  BY DEF TypeOK
<1>2. CASE RefuseRange(p)
  BY <1>1, <1>2 DEF RefuseRange, Landed, Within, RangeOf, StripeState
<1>3. CASE SendRange(p)
  <2>1. RangeOf(p) \in Known
    BY <1>3 DEF SendRange, Known, Claims
  <2>2. ~(reporter[p].to <= reporter[p].from)
    BY <2>1, ReporterTypes, MeteringAssumption DEF RangeInv, RangeOf
  <2>3. RangeOf(p) \in stripe'.ranges
    BY <1>1, <1>3, <2>2 DEF SendRange, CountedRange, StripeState
  <2>4. CountedInv'
    BY <1>3, CountedStep DEF Report
  <2>5. \E r \in stripe'.ranges : Within(r, u)
    BY <2>3
  <2>6. stripe'.counted[u] = 1
    BY <2>4, <2>5 DEF CountedInv
  <2> QED
    BY <2>6 DEF Landed
<1> QED
  BY <1>2, <1>3

\* Reported conversions have landed or were refused.
LEMMA LandedStep ==
    ASSUME TypeOK, RangeInv, CountedInv, LandedInv, NEW p \in Reporters, Report(p) \/ Trouble(p)
    PROVE  LandedInv'
<1>1. stripe \in StripeState /\ usage \in UsageState /\ reporter[p] \in ReporterState
  BY DEF TypeOK
<1>2. stripe.refusedUnits \subseteq stripe'.refusedUnits
  BY <1>1 DEF StripeState, Report, Trouble, StartPass, SendDocument, MarkDocument, Reserve, Claim,
         SendRange, MarkRange, StartPassFails, SendDocumentFails, RefuseDocument, CountedRange,
         MarkDocumentFails, ReserveFails, SendRangeFails, RefuseRange, MarkRangeFails, Crash
<1>3. \A u \in Units : Landed(u) => Landed(u)'
  BY <1>2, CountedStep DEF Landed
<1>4. \A o \in Reporters \ {p} : reporter'[o] = reporter[o]
  BY OtherReporters
<1>5. ASSUME reporter'[p].at = "rangeSent"
      PROVE  (SendRange(p) \/ RefuseRange(p)) /\ RangeOf(p)' = RangeOf(p)
  BY <1>5, Places DEF Report, Trouble
<1>6. ASSUME NEW o \in Reporters, reporter'[o].at = "rangeSent",
             NEW u \in Units, Within(RangeOf(o)', u)
      PROVE  Landed(u)'
  <2>1. CASE o = p
    BY <1>5, <1>6, <2>1, SentRange
  <2>2. CASE o # p
    BY <1>3, <1>4, <1>6, <2>2 DEF LandedInv, RangeOf
  <2> QED
    BY <2>1, <2>2
<1>7. ASSUME NEW u \in Units, u <= usage'.reported
      PROVE  Landed(u)'
  <2>1. CASE usage'.reported = usage.reported
    BY <1>3, <1>7, <2>1 DEF LandedInv
  <2>2. CASE /\ reporter[p].at = "rangeSent"
             /\ usage.reserved = reporter[p].to
             /\ usage'.reported = reporter[p].to
    <3>1. reporter[p].from = usage.reported
      BY <2>2, MarkStep DEF Claiming
    <3>2. u <= usage.reported \/ Within(RangeOf(p), u)
      BY <1>7, <2>2, <3>1, UsageTypes, MeteringAssumption DEF Within, RangeOf, Units
    <3> QED
      BY <1>3, <2>2, <3>2 DEF LandedInv
  <2> QED
    BY <1>1, <2>1, <2>2, PassStep DEF MarkedRange, UsageState
<1> QED
  BY <1>6, <1>7 DEF LandedInv, Within, RangeOf

\* Reported documents have landed or were refused.
LEMMA SentStep ==
    ASSUME TypeOK, SentInv, NEW p \in Reporters, Report(p) \/ Trouble(p)
    PROVE  SentInv'
<1>1. stripe \in StripeState /\ reporter[p] \in ReporterState
  BY DEF TypeOK
<1>2. stripe.documents \subseteq stripe'.documents /\ stripe.refused \subseteq stripe'.refused
  <2>1. CASE UNCHANGED stripe
    BY <2>1
  <2>2. CASE SendDocument(p) \/ RefuseDocument(p)
    BY <1>1, <2>2 DEF StripeState, SendDocument, RefuseDocument
  <2>3. CASE stripe' = CountedRange(p)
    BY <1>1, <2>3 DEF StripeState, CountedRange
  <2>4. CASE RefuseRange(p)
    BY <1>1, <2>4 DEF StripeState, RefuseRange
  <2>5. CASE SendDocumentFails(p)
    BY <1>1, <2>5 DEF StripeState, SendDocumentFails
  <2>6. CASE SendRange(p) \/ SendRangeFails(p)
    BY <2>1, <2>3, <2>6 DEF SendRange, SendRangeFails
  <2>7. CASE StartPass(p) \/ MarkDocument(p) \/ Reserve(p) \/ Claim(p) \/ MarkRange(p)
    BY <2>1, <2>7 DEF StartPass, MarkDocument, Reserve, Claim, MarkRange
  <2>8. CASE StartPassFails(p) \/ MarkDocumentFails(p) \/ ReserveFails(p) \/ MarkRangeFails(p) \/ Crash(p)
    BY <2>1, <2>8 DEF StartPassFails, MarkDocumentFails, ReserveFails, MarkRangeFails, Crash
  <2> QED
    BY <2>2, <2>4, <2>5, <2>6, <2>7, <2>8 DEF Report, Trouble
<1>3. \A o \in Reporters \ {p} : reporter'[o] = reporter[o]
  BY OtherReporters
<1>4. ASSUME reporter'[p].at = "sent"
      PROVE  reporter'[p].doc \subseteq stripe'.documents \cup stripe'.refused
  <2>5. SendDocument(p) \/ RefuseDocument(p)
    BY <1>4, Places DEF Report, Trouble
  <2>6. PICK d \in reporter[p].todo :
            /\ reporter' = [reporter EXCEPT ![p] = [reporter[p] EXCEPT !.at = "sent", !.doc = {d}]]
            /\ \/ stripe' = [stripe EXCEPT !.documents = @ \cup {d}]
               \/ stripe' = [stripe EXCEPT !.refused = @ \cup {d}]
    BY <2>5 DEF SendDocument, RefuseDocument, TypeOK
  <2> QED
    BY <1>1, <2>6 DEF StripeState, ReporterState, TypeOK
<1>5. \A d \in Documents : active'[d] = "reported" =>
         active[d] = "reported" \/ (reporter[p].at = "sent" /\ d \in reporter[p].doc)
  BY DEF Report, Trouble, StartPass, SendDocument, MarkDocument, Reserve, Claim,
         SendRange, MarkRange, StartPassFails, SendDocumentFails, RefuseDocument,
         MarkDocumentFails, ReserveFails, SendRangeFails, RefuseRange, MarkRangeFails, Crash,
         MarkedDocument
<1> QED
  BY <1>2, <1>3, <1>4, <1>5 DEF SentInv

(***************************************************************************)
(* What is reported, at every step.                                        *)
(***************************************************************************)

BillingInv == RangeInv /\ CountedInv /\ LandedInv /\ SentInv

\* Admissions and the project leave what was reported alone.
LEMMA BillingElsewhere ==
    ASSUME TypeOK, BillingInv, UNCHANGED <<reporter, stripe>>,
           \A d \in Documents : active'[d] = "reported" => active[d] = "reported",
           usage'.reported = usage.reported, usage'.reserved = usage.reserved,
           usage'.billable \in Int, usage.billable <= usage'.billable
    PROVE  BillingInv'
<1>1. Known' = Known /\ Current' = Current
  BY DEF Known, Claims, Current, RangeOf
<1>2. Known \subseteq (0..MaxConversions) \X (0..MaxConversions)
  BY KnownType
<1>3. RangeInv'
  <2>1. usage.reported \in Int /\ usage.billable \in Int
    BY UsageTypes
  <2>2. usage'.reported <= usage'.billable
    BY <2>1 DEF BillingInv, RangeInv
  <2>3. \A r \in Known : r[2] <= usage'.billable
    BY <1>2, <2>1 DEF BillingInv, RangeInv
  <2> QED
    BY <1>1, <2>2, <2>3 DEF BillingInv, RangeInv
<1>4. CountedInv' /\ SentInv'
  BY DEF BillingInv, CountedInv, SentInv
<1>5. LandedInv'
  BY DEF BillingInv, LandedInv, Landed, RangeOf, Within
<1> QED
  BY <1>3, <1>4, <1>5 DEF BillingInv

LEMMA BillingStep ==
    ASSUME TypeOK, BillingInv, [Next]_vars
    PROVE  BillingInv'
<1>1. usage \in UsageState /\ usage.billable \in Int
  BY UsageTypes
<1>2. CASE UNCHANGED vars
  BY <1>1, <1>2, BillingElsewhere DEF vars
<1>3. CASE SetTerms \/ Convert
  <2>1. /\ usage'.reported = usage.reported /\ usage'.reserved = usage.reserved
        /\ usage'.billable \in Int /\ usage.billable <= usage'.billable
        /\ UNCHANGED <<active, reporter, stripe>>
    BY <1>1, <1>3 DEF SetTerms, Convert, UsageState
  <2> QED
    BY <2>1, BillingElsewhere
<1>4. ASSUME NEW q \in Requests, Admission(q) PROVE BillingInv'
  <2>1. \A d \in Documents : active'[d] = "reported" => active[d] = "reported"
    BY <1>4 DEF Admission, Ask, Check, Admit, AdmitFails, Rows
  <2>2. /\ usage'.reported = usage.reported /\ usage'.reserved = usage.reserved
        /\ usage'.billable = usage.billable
        /\ UNCHANGED <<reporter, stripe>>
    BY <1>1, <1>4 DEF Admission, Ask, Check, Admit, AdmitFails, UsageState
  <2> QED
    BY <1>1, <2>1, <2>2, BillingElsewhere
<1>5. ASSUME NEW p \in Reporters, Report(p) \/ Trouble(p) PROVE BillingInv'
  BY <1>5, RangeStep, CountedStep, LandedStep, SentStep DEF BillingInv
<1> QED
  BY <1>2, <1>3, <1>4, <1>5 DEF Next

LEMMA BillingInvariant == Spec => [](TypeOK /\ BillingInv)
<1>1. Init => BillingInv
  <2> SUFFICES ASSUME Init PROVE BillingInv
    OBVIOUS
  <2>1. Known = {}
    BY DEF Init, Known, Claims, Current, Rest
  <2>2. RangeInv
    BY <2>1 DEF Init, RangeInv
  <2>3. CountedInv
    BY DEF Init, CountedInv
  <2>4. LandedInv
    BY DEF Init, LandedInv, Rest, Units
  <2>5. SentInv
    BY DEF Init, SentInv, Rest
  <2> QED
    BY <2>2, <2>3, <2>4, <2>5 DEF BillingInv
<1>2. TypeOK /\ BillingInv /\ [Next]_vars => BillingInv'
  BY BillingStep
<1> QED
  BY <1>1, <1>2, TypeCorrect, PTL DEF Spec

\* No conversion is billed twice, and none that is not billable.
THEOREM BilledOnceTheorem == Spec => []BilledOnce
<1>1. ASSUME TypeOK, BillingInv PROVE BilledOnce
  <2>1. ASSUME NEW u \in Units, NEW r \in stripe.ranges, Within(r, u)
        PROVE  u <= usage.billable
    <3>1. r \in Known
      BY <2>1 DEF Known
    <3>2. r[2] \in Int
      BY <1>1, <3>1, KnownType
    <3>3. r[2] <= usage.billable
      BY <1>1, <3>1 DEF BillingInv, RangeInv
    <3>4. u \in Int /\ usage.billable \in Int /\ u <= r[2]
      BY <1>1, <2>1, UsageTypes, MeteringAssumption DEF Within, Units
    <3> QED
      BY <3>2, <3>3, <3>4
  <2> QED
    BY <1>1, <2>1 DEF BillingInv, CountedInv, BilledOnce
<1> QED
  BY <1>1, BillingInvariant, PTL

\* What is marked as reported has landed at Stripe, or was refused by it.
THEOREM NothingUnbilledTheorem == Spec => []NothingUnbilled
<1>1. ASSUME TypeOK, BillingInv PROVE NothingUnbilled
  <2>1. 1..usage.reported \subseteq Units
    BY <1>1, UsageTypes, MeteringAssumption DEF Units
  <2> QED
    BY <1>1, <2>1 DEF BillingInv, LandedInv, Landed, SentInv, NothingUnbilled
<1> QED
  BY <1>1, BillingInvariant, PTL
=============================================================================
