----------------------------- MODULE Correlation -----------------------------
(***************************************************************************)
(* How provider events find their case (routers/webhooks.py and the        *)
(* handlers of orchestrator.py): many cases, many events, any order of     *)
(* arrival, redeliveries, and requests whose transactions overlap.         *)
(*                                                                         *)
(* A request is one transaction in two steps.  Receive stores the event    *)
(* under its unique id and looks for the case with SELECT ... FOR UPDATE,  *)
(* which waits while another transaction has the row locked; the second    *)
(* step does the rest and commits.  A webhook request does not await       *)
(* anything in between, so one API process has one transaction at a time;  *)
(* several processes have several.  What a case does between its events is *)
(* CasePhases, the abstraction of CaseRuntime.                             *)
(***************************************************************************)
EXTENDS Naturals, FiniteSets, CasePhases

CONSTANTS
    Events,     \* the provider's events, each with its x-razorpay-event-id
    Links,      \* payment links
    None,       \* a null column
    Requests,   \* transactions that may be under way at a time
    MaxCases    \* bound: cases that may be opened

Kinds == {"failed", "recovered", "paid", "dispute"}

\* failed: payment.failed and subscription.halted (without a payment);
\* recovered: payment.captured and subscription.charged; paid:
\* payment_link.paid, whose payment is a new one; dispute.
ASSUME EventsAssumption ==
    \A e \in Events : /\ e.kind \in Kinds
                      /\ e.kind = "paid" <=> e.link \in Links
                      /\ e.kind # "paid" => e.link = None
ASSUME NoneAssumption  == None \notin Events /\ None \notin Links
ASSUME CasesAssumption == MaxCases \in Nat /\ MaxCases >= 1

CaseIds == 1..MaxCases

VARIABLES
    n,          \* number of cases, numbered in created_at order
    payment,    \* RevenueCase.razorpay_payment_id
    sub,        \* RevenueCase.razorpay_subscription_id
    link,       \* RevenueCase.razorpay_payment_link_id
    phase,      \* the phase of RevenueCase.state
    madeFor,    \* the case a link was created for, 0 before
    stored,     \* the events with a committed PaymentEvent row
    linked,     \* PaymentEvent.revenue_case_id, 0 when null
    handling,   \* the event a request is handling
    found,      \* the case it found and locked, 0 for none
    overlapped  \* history: whether two requests were ever under way together

idVars   == <<n, payment, sub, link>>
caseVars == <<idVars, phase>>
reqVars  == <<handling, found, overlapped>>
vars     == <<caseVars, madeFor, stored, linked, reqVars>>

-----------------------------------------------------------------------------
(* Queries.                                                                *)

Opened   == 1..n
Open     == Automated \cup {"PROMISED"}
Locked(c) == \E r \in Requests : handling[r] # None /\ found[r] = c

Latest(S) == {c \in S : \A d \in S : d <= c}

ByPayment(p) == {c \in Opened : p # None /\ payment[c] = p}
ByLink(l)    == {c \in Opened : l # None /\ link[c] = l}
BySub(s, phases) == Latest({c \in Opened : s # None /\ sub[c] = s /\ phase[c] \in phases})

\* The case an earlier event of the payment belongs to.  received_at, which
\* chooses among several, is a clock of the process that received the event.
ByEvent(p) == {c \in Opened : \E e \in stored : p # None /\ e.payment = p /\ linked[e] = c}

FirstNonEmpty(A, B) == IF A # {} THEN A ELSE B

\* Fault, not in the code: a subscription's open case is not looked for.
PaymentOnly(e) == IF e.kind = "paid" THEN ByLink(e.link) ELSE ByPayment(e.payment)

\* The lookups of _handle_failure, _handle_recovery,
\* _handle_payment_link_paid and _handle_dispute.
Matches(e) ==
    CASE e.kind = "failed"    -> FirstNonEmpty(ByPayment(e.payment), BySub(e.sub, Open))
      [] e.kind = "recovered" -> FirstNonEmpty(ByPayment(e.payment),
                                 FirstNonEmpty(ByEvent(e.payment),
                                     BySub(e.sub, Phases \ {"RECOVERED", "DISPUTED"})))
      [] e.kind = "paid"      -> ByLink(e.link)
      [] OTHER                -> ByPayment(e.payment)

\* Fault, not in the code: only paid links count as prior recoveries.
PriorLinkPayments(p) == {e \in stored : /\ p # None /\ e.payment = p
                                        /\ e.kind = "paid" /\ linked[e] = 0}

\* _prior_unlinked_recovery
PriorRecoveries(p) == {e \in stored : /\ p # None /\ e.payment = p
                                      /\ e.kind = "recovered" /\ linked[e] = 0}

\* Fault, not in the code: no unique index.
AnyPayment(p) == p = p

\* uq_revenue_cases_razorpay_payment_id
IndexAllows(p) == ByPayment(p) = {}

-----------------------------------------------------------------------------
(* Requests.                                                               *)

\* razorpay_webhook up to the lookup.  A redelivered event violates the
\* unique index: it is ignored when the first one has committed, and waits
\* while that one is under way.
Receive(r, e) ==
    /\ handling[r] = None
    /\ e \notin stored
    /\ \A q \in Requests : handling[q] # e
    /\ \/ Matches(e) = {} /\ found' = [found EXCEPT ![r] = 0]
       \/ \E c \in Matches(e) : ~Locked(c) /\ found' = [found EXCEPT ![r] = c]
    /\ handling' = [handling EXCEPT ![r] = e]
    /\ overlapped' = (overlapped \/ \E q \in Requests : handling[q] # None)
    /\ UNCHANGED <<caseVars, madeFor, stored, linked>>

\* The commit: the event row becomes visible, linked to case c.
Commit(r, c) ==
    LET e == handling[r] IN
    /\ stored' = stored \cup {e}
    /\ linked' = [linked EXCEPT ![e] = c]
    /\ handling' = [handling EXCEPT ![r] = None]
    /\ found' = [found EXCEPT ![r] = 0]

SetPhase(c, phases) == \E s \in phases : phase' = [phase EXCEPT ![c] = s]

\* A failure of a known case: a subscription's open case takes over the new
\* payment.  The unique index refuses a payment that has a case by now.
FailKnown(r) ==
    LET e == handling[r]
        c == found[r] IN
    /\ handling[r] # None /\ e.kind = "failed" /\ c # 0
    /\ \/ e.payment \in {None, payment[c]} /\ UNCHANGED payment
       \/ /\ e.payment \notin {None, payment[c]} /\ IndexAllows(e.payment)
          /\ payment' = [payment EXCEPT ![c] = e.payment]
    /\ SetPhase(c, OnFailure(phase[c]))
    /\ Commit(r, c)
    /\ UNCHANGED <<n, sub, link, madeFor, overlapped>>

\* The insert of a case meets the index: the case that a concurrent request
\* opened is looked up and locked instead.
FailRaced(r) ==
    LET e == handling[r] IN
    /\ handling[r] # None /\ e.kind = "failed" /\ found[r] = 0
    /\ \E c \in ByPayment(e.payment) : /\ ~Locked(c)
                                       /\ SetPhase(c, OnFailure(phase[c]))
                                       /\ Commit(r, c)
    /\ UNCHANGED <<idVars, madeFor, overlapped>>

\* Fault, not in the code: the recovery found is not linked to the new case.
LinkNewOnly(e, c) == linked' = [linked EXCEPT ![e] = c]

\* The new case's event, and a recovery of the payment stored without a case.
LinkWithPrior(e, c) ==
    IF PriorRecoveries(e.payment) = {}
    THEN linked' = [linked EXCEPT ![e] = c]
    ELSE \E f \in PriorRecoveries(e.payment) : linked' = [linked EXCEPT ![e] = c, ![f] = c]

\* A new case, which a recovery that came first closes at once.
OpenCase(r) ==
    LET e == handling[r]
        c == n + 1 IN
    /\ handling[r] # None /\ e.kind = "failed" /\ found[r] = 0
    /\ IndexAllows(e.payment)
    /\ n < MaxCases
    /\ n' = c
    /\ payment' = [payment EXCEPT ![c] = e.payment]
    /\ sub' = [sub EXCEPT ![c] = e.sub]
    /\ SetPhase(c, OnOpening(PriorRecoveries(e.payment) # {}))
    /\ stored' = stored \cup {e}
    /\ LinkWithPrior(e, c)
    /\ handling' = [handling EXCEPT ![r] = None]
    /\ found' = [found EXCEPT ![r] = 0]
    /\ UNCHANGED <<link, madeFor, overlapped>>

\* A capture, a charge or a paid link, of a known case.
Recover(r) ==
    LET c == found[r] IN
    /\ handling[r] # None /\ handling[r].kind \in {"recovered", "paid"} /\ c # 0
    /\ SetPhase(c, OnRecovery(phase[c]))
    /\ Commit(r, c)
    /\ UNCHANGED <<idVars, madeFor, overlapped>>

Dispute(r) ==
    LET c == found[r] IN
    /\ handling[r] # None /\ handling[r].kind = "dispute" /\ c # 0
    /\ SetPhase(c, {"DISPUTED"})
    /\ Commit(r, c)
    /\ UNCHANGED <<idVars, madeFor, overlapped>>

\* An event, other than a failure, that finds no case is kept for the record.
StoreUnlinked(r) ==
    /\ handling[r] # None /\ handling[r].kind # "failed" /\ found[r] = 0
    /\ Commit(r, 0)
    /\ UNCHANGED <<caseVars, madeFor, overlapped>>

\* The process dies, or the commit is refused: everything is rolled back, and
\* the provider delivers the event again.
RollBack(r) ==
    /\ handling[r] # None
    /\ handling' = [handling EXCEPT ![r] = None]
    /\ found' = [found EXCEPT ![r] = 0]
    /\ UNCHANGED <<caseVars, madeFor, stored, linked, overlapped>>

-----------------------------------------------------------------------------
(* Between events: replies and work on the case, under its row lock.       *)

\* Fault, not in the code: a writer that does not wait for the row lock.
Unlocked(c) == c \in Opened
Live(c) == c \in Opened /\ ~Locked(c)

Reply(c) ==
    /\ Live(c)
    /\ SetPhase(c, OnReply(phase[c]))
    /\ UNCHANGED <<idVars, madeFor, stored, linked, reqVars>>

Work(c) ==
    /\ Live(c)
    /\ SetPhase(c, OnWork(phase[c]))
    /\ UNCHANGED <<idVars, madeFor, stored, linked, reqVars>>

\* apply_success of a create-link action: one column for the last link.
RecordLink(c, l) ==
    /\ Live(c) /\ phase[c] = "WORKING"
    /\ madeFor[l] = 0
    /\ madeFor' = [madeFor EXCEPT ![l] = c]
    /\ link' = [link EXCEPT ![c] = l]
    /\ SetPhase(c, {"OFFERED"})
    /\ UNCHANGED <<n, payment, sub, stored, linked, reqVars>>

-----------------------------------------------------------------------------
Init ==
    /\ n = 0
    /\ payment = [c \in CaseIds |-> None]
    /\ sub = [c \in CaseIds |-> None]
    /\ link = [c \in CaseIds |-> None]
    /\ phase = [c \in CaseIds |-> "NONE"]
    /\ madeFor = [l \in Links |-> 0]
    /\ stored = {}
    /\ linked = [e \in Events |-> 0]
    /\ handling = [r \in Requests |-> None]
    /\ found = [r \in Requests |-> 0]
    /\ overlapped = FALSE

\* A link that does not exist is not paid.
Deliver(r) == \E e \in Events : (e.kind = "paid" => madeFor[e.link] # 0) /\ Receive(r, e)

Handle(r) == \/ FailKnown(r) \/ FailRaced(r) \/ OpenCase(r)
             \/ Recover(r) \/ Dispute(r) \/ StoreUnlinked(r)

Next == \/ \E r \in Requests : Deliver(r) \/ Handle(r) \/ RollBack(r)
        \/ \E c \in CaseIds : Reply(c) \/ Work(c) \/ \E l \in Links : RecordLink(c, l)

Spec == Init /\ [][Next]_vars

-----------------------------------------------------------------------------
(* Properties.                                                             *)

TypeOK ==
    /\ n \in 0..MaxCases
    /\ payment \in [CaseIds -> {e.payment : e \in Events} \cup {None}]
    /\ sub \in [CaseIds -> {e.sub : e \in Events} \cup {None}]
    /\ link \in [CaseIds -> Links \cup {None}]
    /\ phase \in [CaseIds -> Phases]
    /\ madeFor \in [Links -> 0..MaxCases]
    /\ stored \subseteq Events
    /\ linked \in [Events -> 0..MaxCases]
    /\ handling \in [Requests -> Events \cup {None}]
    /\ found \in [Requests -> 0..MaxCases]
    /\ overlapped \in BOOLEAN
    /\ \A c \in CaseIds : c > n <=> phase[c] = "NONE"

\* razorpay_payment_id is the unique live receivable (ARCHITECTURE.md:512):
\* no two cases for one payment, although requests for it overlap, redeliver
\* it, or move a subscription's case over to it.
OneCasePerPayment ==
    \A c, d \in Opened : payment[c] # None /\ payment[c] = payment[d] => c = d

\* A case is RECOVERED only on provider evidence that is linked to it
\* (docs/DECISIONS.md:251), however evidence and case found each other.
RecoveredHasEvidence ==
    \A c \in Opened : phase[c] = "RECOVERED" =>
        \E e \in stored : e.kind \in {"recovered", "paid"} /\ linked[e] = c

\* One debt is not chased twice: of the cases of one subscription at most one
\* is automated, as long as no two requests have overlapped (in one API
\* process they never do).
OneAutomatedCasePerSubscription ==
    ~overlapped => \A c, d \in Opened :
        phase[c] \in Automated /\ phase[d] \in Automated /\ sub[c] # None /\ sub[c] = sub[d]
            => c = d

\* A payment whose events name no subscription and no link.
PlainPayment(p) ==
    p # None /\ \A e \in Events : e.payment = p => e.sub = None /\ e.kind # "paid"

\* Whichever of the failure and the capture of such a payment comes first, it
\* is not automated once both are known, as long as no two requests have
\* overlapped (docs/SYSTEM_FLOWS.md, flow 4).
OrderDoesNotMatter ==
    ~overlapped => \A c \in Opened, e \in stored :
        e.kind = "recovered" /\ e.payment = payment[c] /\ PlainPayment(e.payment)
            => phase[c] \notin Automated

\* A closed cycle is not reused for a new payment (docs/SYSTEM_FLOWS.md, flow
\* 1): a case takes over a payment only while it is open, although requests
\* choose the case before they write it.
TakesOverWhileOpen ==
    [][\A c \in Opened : payment'[c] # payment[c] => phase[c] \in Open]_vars
=============================================================================
