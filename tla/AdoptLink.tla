------------------------------ MODULE AdoptLink ------------------------------
(***************************************************************************)
(* reconcile_payment_links.py, the manual adoption of a provider link,     *)
(* next to the runtime it borrows _complete_external from, at the level of *)
(* PostgreSQL row locks.                                                   *)
(*                                                                         *)
(* One case, one CREATE_PAYMENT_LINK row after another.  A transaction     *)
(* locks its rows one at a time in the order the code asks for them and    *)
(* then reads, writes and commits at once; PostgreSQL rolls one back when  *)
(* two wait for each other.  What is left out here (other action types,    *)
(* mismatching links, due times) is in CaseRuntime.                        *)
(***************************************************************************)
EXTENDS Naturals, FiniteSets

CONSTANTS
    Workers, Reconcilers,   \* RQ workers; runs of reconcile_actions
    Scripts,                \* runs of reconcile_payment_links.py
    Requests,               \* webhook requests
    LastRow,                \* bound: action rows 1..LastRow
    MaxAttempts,            \* settings.ACTION_MAX_ATTEMPTS
    MaxEvents,              \* bound: webhooks, and links looked at by the script
    Nobody,                 \* owner of a free row lock
    MaxFaults               \* bound: dead processes and unanswered lookups

ASSUME AdoptAssumption ==
    /\ LastRow \in Nat \ {0} /\ MaxAttempts \in Nat \ {0} /\ MaxEvents \in Nat /\ MaxFaults \in Nat
    /\ Nobody \notin Workers \cup Reconcilers \cup Scripts \cup Requests

Actions  == 1..LastRow
Case     == 0                      \* the case row, next to the action rows
Lockable == {Case} \cup Actions
Procs    == Workers \cup Reconcilers \cup Scripts \cup Requests

RuntimeTx == {"claim", "complete", "put back", "recover", "drop"}
RequestTx == {"failure", "capture"}
Tx        == RuntimeTx \cup RequestTx \cup {"flip"}

VARIABLES
    caseState, caseLink,          \* RevenueCase, and the row its link came from
    status, attempts, claimed,    \* Action: claimed_at is null, in its lease or past it
    provider,                     \* rows whose link exists at Razorpay
    at, doing,                    \* where each process is, and with which row
    owner,                        \* who holds each row lock
    events, faults

tables == <<caseState, caseLink, status, attempts, claimed>>
procs  == <<at, doing>>
vars   == <<tables, provider, procs, owner, events, faults>>

Terminal  == {"RECOVERED"}         \* TERMINAL_CASE_STATES that occur here
Automated == {"ACTION_SCHEDULED", "AWAITING_OUTCOME"}
Superseded(a) == \E b \in Actions : b > a /\ status[b] \in {"SCHEDULED", "EXECUTING", "EXECUTED"}

\* Fault, not in the code: neither the case nor newer work is looked at.
Anything(a) == TRUE
\* Fault, not in the code: the state the case has by now is not asked for.
IfNewest(a) == ~Superseded(a)
Eligible(a) == caseState = "ACTION_SCHEDULED" /\ ~Superseded(a)

Goto(p, step)   == at' = [at EXCEPT ![p] = step] /\ UNCHANGED doing
Begin(p, tx, a) == at' = [at EXCEPT ![p] = tx] /\ doing' = [doing EXCEPT ![p] = a]

-----------------------------------------------------------------------------
(* Row locks.                                                              *)

InOrder(p, first, second) == IF owner[first] # p THEN {first}
                             ELSE IF owner[second] # p THEN {second} ELSE {}

\* The row the transaction asks for next.  The runtime locks the case and
\* then the action; a request locks the case, and its flush updates the
\* rows it cancels; the script locks the action first.
NextLock(p) ==
    CASE at[p] \in RuntimeTx -> InOrder(p, Case, doing[p])
      [] at[p] = "flip"      -> InOrder(p, doing[p], Case)
      [] at[p] \in RequestTx -> IF owner[Case] # p THEN {Case}
                                ELSE {a \in Actions : status[a] = "SCHEDULED" /\ owner[a] # p}
      [] OTHER               -> {}

Lock(p) ==
    \E r \in NextLock(p) : /\ owner[r] = Nobody
                           /\ owner' = [owner EXCEPT ![r] = p]
                           /\ UNCHANGED <<tables, provider, procs, events, faults>>

Released(p) == [r \in Lockable |-> IF owner[r] = p THEN Nobody ELSE owner[r]]
Inside(p, tx) == at[p] = tx /\ NextLock(p) = {}
Commit(p, next) == owner' = Released(p) /\ Goto(p, next) /\ UNCHANGED <<provider, events, faults>>

WaitsFor(p, q) == \E r \in NextLock(p) : owner[r] = q

\* deadlock_timeout: one of the two is rolled back, and its call fails.
Abort(p) ==
    /\ \E q \in Procs : WaitsFor(p, q) /\ WaitsFor(q, p)
    /\ Commit(p, "idle") /\ UNCHANGED tables

-----------------------------------------------------------------------------
(* Transactions of the runtime, with their locks held.                     *)

SetStatus(a, s) == status' = [status EXCEPT ![a] = s]

\* _claim_action
Claim(p) ==
    /\ Inside(p, "claim")
    /\ LET a == doing[p]
       IN IF status[a] = "SCHEDULED" /\ Eligible(a)
          THEN /\ SetStatus(a, "EXECUTING")
               /\ attempts' = [attempts EXCEPT ![a] = @ + 1]
               /\ claimed' = [claimed EXCEPT ![a] = "in lease"]
               /\ Commit(p, "post")
          ELSE /\ status' = [status EXCEPT ![a] = IF @ = "SCHEDULED" THEN "CANCELLED" ELSE @]
               /\ UNCHANGED <<attempts, claimed>> /\ Commit(p, "idle")
    /\ UNCHANGED <<caseState, caseLink>>

\* _complete_external, for the worker and for the script.
Complete(p) ==
    /\ Inside(p, "complete")
    /\ LET a == doing[p]
       IN IF status[a] = "EXECUTING" /\ Eligible(a)
          THEN SetStatus(a, "EXECUTED") /\ caseLink' = a /\ caseState' = "AWAITING_OUTCOME"
          ELSE /\ status' = [status EXCEPT ![a] = IF @ = "EXECUTING" THEN "CANCELLED" ELSE @]
               /\ UNCHANGED <<caseState, caseLink>>
    /\ Commit(p, "idle") /\ UNCHANGED <<attempts, claimed>>

AttemptLeft(a) == attempts[a] < MaxAttempts

\* What follows an attempt that brought nothing: the row is put back, or a
\* person has to look.
EndAttempt(a) ==
    CASE ~Eligible(a) -> SetStatus(a, "CANCELLED") /\ UNCHANGED <<caseState, claimed>>
      [] Eligible(a) /\ AttemptLeft(a) ->
             /\ SetStatus(a, "SCHEDULED")
             /\ claimed' = [claimed EXCEPT ![a] = "null"]
             /\ UNCHANGED caseState
      [] OTHER -> /\ SetStatus(a, "FAILED") /\ caseState' = "HUMAN_REVIEW" /\ UNCHANGED claimed

\* _record_external_failure and _schedule_ambiguous_retry
PutBack(p) ==
    /\ Inside(p, "put back")
    /\ IF status[doing[p]] = "EXECUTING" THEN EndAttempt(doing[p])
       ELSE UNCHANGED <<status, caseState, claimed>>
    /\ Commit(p, "idle") /\ UNCHANGED <<caseLink, attempts>>

\* reconcile_actions: the claim must still be the expired one.
Recover(p) ==
    /\ Inside(p, "recover")
    /\ IF status[doing[p]] = "EXECUTING" /\ claimed[doing[p]] = "expired" THEN EndAttempt(doing[p])
       ELSE UNCHANGED <<status, caseState, claimed>>
    /\ Commit(p, "idle") /\ UNCHANGED <<caseLink, attempts>>

Drop(p) ==
    /\ Inside(p, "drop")
    /\ status' = [status EXCEPT ![doing[p]] = IF @ = "EXECUTING" THEN "CANCELLED" ELSE @]
    /\ Commit(p, "idle") /\ UNCHANGED <<caseState, caseLink, attempts, claimed>>

-----------------------------------------------------------------------------
(* The worker, the reconciliation run and the provider between             *)
(* transactions.                                                           *)

Take(p, a) == /\ p \in Workers /\ at[p] = "idle" /\ status[a] = "SCHEDULED"
              /\ Begin(p, "claim", a) /\ UNCHANGED <<tables, provider, owner, events, faults>>

LookUnless(stop) == IF stop THEN "drop" ELSE "look"

\* create_payment_link: the reference is unique, an answer may be lost.
Post(p) ==
    /\ at[p] = "post"
    /\ \/ doing[p] \notin provider /\ provider' = provider \cup {doing[p]} /\ Goto(p, "complete")
       \/ /\ provider' \in {provider, provider \cup {doing[p]}}
          /\ Goto(p, LookUnless(caseState \in Terminal))
       \/ doing[p] \notin provider /\ Goto(p, "put back") /\ UNCHANGED provider
    /\ UNCHANGED <<tables, owner, events, faults>>

\* reconcile_actions picks an expired claim.
PickExpired(p, a) ==
    /\ p \in Reconcilers /\ at[p] = "idle"
    /\ status[a] = "EXECUTING" /\ claimed[a] = "expired"
    /\ Begin(p, LookUnless(caseState \in Terminal \/ Superseded(a)), a)
    /\ UNCHANGED <<tables, provider, owner, events, faults>>

\* The same row by its id, whatever its status or the case's state.
PickById(p, a) ==
    /\ p \in Scripts /\ at[p] = "idle" /\ status[a] # "NONE"
    /\ events < MaxEvents /\ events' = events + 1
    /\ Begin(p, "look", a) /\ UNCHANGED <<tables, provider, owner, faults>>

WhenFound(p)  == IF p \in Scripts THEN "flip" ELSE "complete"
WhenAbsent(p) == CASE p \in Workers -> "put back" [] p \in Reconcilers -> "recover" [] OTHER -> "idle"
\* Fault, not in the code: no answer is taken for a link.
Guessed(p)    == WhenFound(p)
WhenSilent(p) == IF p \in Workers THEN "put back" ELSE "idle"

\* find_payment_link_for_action, outside any transaction.
LookUp(p) ==
    /\ at[p] = "look" /\ Goto(p, IF doing[p] \in provider THEN WhenFound(p) ELSE WhenAbsent(p))
    /\ UNCHANGED <<tables, provider, owner, events, faults>>
LookUpFails(p) ==
    /\ at[p] = "look" /\ faults < MaxFaults /\ faults' = faults + 1
    /\ Goto(p, WhenSilent(p)) /\ UNCHANGED <<tables, provider, owner, events>>

\* Fault, not in the code: the script marks the row and leaves claimed_at.
Unmarked(a) == claimed
Marked(a) == [claimed EXCEPT ![a] = "in lease"]

\* reconcile_one, second part: a scheduled row is marked as being executed,
\* which counts as its first attempt and as no further one.
Flip(p) ==
    /\ Inside(p, "flip")
    /\ LET a == doing[p]
       IN /\ IF status[a] = "SCHEDULED"
             THEN /\ SetStatus(a, "EXECUTING") /\ claimed' = Marked(a)
                  /\ attempts' = [attempts EXCEPT ![a] = IF @ = 0 THEN 1 ELSE @]
             ELSE UNCHANGED <<status, claimed, attempts>>
          /\ Commit(p, IF status[a] \in {"SCHEDULED", "EXECUTING"} THEN "complete" ELSE "idle")
    /\ UNCHANGED <<caseState, caseLink>>

-----------------------------------------------------------------------------
(* Requests.                                                               *)

Receive(p, tx) ==
    /\ p \in Requests /\ at[p] = "idle"
    /\ events < MaxEvents /\ events' = events + 1
    /\ Begin(p, tx, Case) /\ UNCHANGED <<tables, provider, owner, faults>>

WithoutScheduled == [a \in Actions |-> IF status[a] = "SCHEDULED" THEN "CANCELLED" ELSE status[a]]
IsNext(a) == status[a] = "NONE" /\ \A b \in Actions : b < a => status[b] # "NONE"

\* A repeated failure replaces scheduled work by a new link, or escalates.
Failure(p) ==
    /\ Inside(p, "failure")
    /\ IF caseState \notin Automated
       THEN UNCHANGED <<caseState, status>>
       ELSE \/ \E a \in Actions : /\ IsNext(a)
                                  /\ status' = [WithoutScheduled EXCEPT ![a] = "SCHEDULED"]
                                  /\ caseState' = "ACTION_SCHEDULED"
            \/ status' = WithoutScheduled /\ caseState' = "HUMAN_REVIEW"
    /\ Commit(p, "idle") /\ UNCHANGED <<caseLink, attempts, claimed>>

Capture(p) ==
    /\ Inside(p, "capture")
    /\ status' = WithoutScheduled /\ caseState' = "RECOVERED"
    /\ Commit(p, "idle") /\ UNCHANGED <<caseLink, attempts, claimed>>

-----------------------------------------------------------------------------
\* A lease is ten times the job timeout, so no worker is still at it; the
\* script has no timeout.
LeaseRunsOut(a) ==
    /\ status[a] = "EXECUTING" /\ claimed[a] = "in lease"
    /\ \A p \in Workers : at[p] = "idle" \/ doing[p] # a
    /\ claimed' = [claimed EXCEPT ![a] = "expired"]
    /\ UNCHANGED <<caseState, caseLink, status, attempts, provider, procs, owner, events, faults>>

Crash(p) ==
    /\ at[p] # "idle" /\ faults < MaxFaults /\ faults' = faults + 1
    /\ owner' = Released(p) /\ Goto(p, "idle") /\ UNCHANGED <<tables, provider, events>>

Init ==
    /\ caseState = "ACTION_SCHEDULED" /\ caseLink = Case
    /\ status = [a \in Actions |-> IF a = 1 THEN "SCHEDULED" ELSE "NONE"]
    /\ attempts = [a \in Actions |-> 0] /\ claimed = [a \in Actions |-> "null"]
    /\ provider = {}
    /\ at = [p \in Procs |-> "idle"] /\ doing = [p \in Procs |-> Case]
    /\ owner = [r \in Lockable |-> Nobody]
    /\ events = 0 /\ faults = 0

Runs(p) == \/ Lock(p) \/ Claim(p) \/ Complete(p) \/ PutBack(p) \/ Recover(p) \/ Drop(p)
           \/ Flip(p) \/ Failure(p) \/ Capture(p) \/ Post(p) \/ LookUp(p)

Next == \/ \E p \in Procs : \/ Runs(p) \/ Abort(p) \/ Crash(p) \/ LookUpFails(p)
                            \/ \E a \in Actions : Take(p, a) \/ PickExpired(p, a) \/ PickById(p, a)
                            \/ \E tx \in RequestTx : Receive(p, tx)
        \/ \E a \in Actions : LeaseRunsOut(a)

\* Row locks are granted in turn, PostgreSQL ends every deadlock, and
\* reconcile_actions runs every minute.
Fairness == /\ \A p \in Procs : SF_vars(Runs(p)) /\ WF_vars(Abort(p))
            /\ \A p \in Reconcilers, a \in Actions : SF_vars(PickExpired(p, a))
            /\ \A a \in Actions : WF_vars(LeaseRunsOut(a))

Spec     == Init /\ [][Next]_vars
FairSpec == Spec /\ Fairness

-----------------------------------------------------------------------------
(* Properties.                                                             *)

\* The state is what the tables, the provider and the processes can hold; no
\* row is started more often than its attempts allow, by whomever.
TypeOK ==
    /\ caseState \in Automated \cup {"HUMAN_REVIEW"} \cup Terminal
    /\ caseLink \in Lockable /\ provider \subseteq Actions
    /\ status \in [Actions -> {"NONE", "SCHEDULED", "EXECUTING", "EXECUTED", "CANCELLED", "FAILED"}]
    /\ attempts \in [Actions -> 0..MaxAttempts]
    /\ claimed \in [Actions -> {"null", "in lease", "expired"}]
    /\ at \in [Procs -> Tx \cup {"idle", "post", "look"}] /\ doing \in [Procs -> Lockable]
    /\ owner \in [Lockable -> Procs \cup {Nobody}]
    /\ events \in 0..MaxEvents /\ faults \in 0..MaxFaults

\* A row is only completed with a link that exists at the provider, and the
\* case carries the link of a completed row, whoever looked it up.
AdoptedExists ==
    /\ \A a \in Actions : status[a] = "EXECUTED" => a \in provider
    /\ caseLink # Case => status[caseLink] = "EXECUTED"

\* The link of an older row never replaces that of a newer one, although the
\* script adopts any row by its id.
LinkMovesForward == [][caseLink' >= caseLink]_vars

\* Nothing the script or a late worker does brings a case back that was
\* recovered or handed to a person.
StaysOutOfAutomation == [][(caseState \notin Automated) => caseState' \notin Automated]_vars

\* Every claim ends, also one the script marked before it died, and also when
\* the script and the runtime wait for each other's rows.
ClaimsEnd == \A a \in Actions : status[a] = "EXECUTING" ~> status[a] # "EXECUTING"
=============================================================================
