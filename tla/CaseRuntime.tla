----------------------------- MODULE CaseRuntime -----------------------------
(***************************************************************************)
(* The durable-action runtime of RecoveryOS, for one revenue case.         *)
(*                                                                         *)
(* PostgreSQL is the authority: a case row, its action rows and its        *)
(* promise rows.  Webhook and reply requests change them in one            *)
(* transaction under the case's row lock (orchestrator.py); RQ workers     *)
(* and the reconciliation script change them in several short transactions *)
(* with provider calls in between (temporal_runtime.py).  Each transaction *)
(* is one action of this module; everything between two transactions of    *)
(* a process is a value of pc, so all interleavings are explored.          *)
(*                                                                         *)
(* Action rows are numbered in created_at order, which is the order in     *)
(* which transactions held the case lock.  The link a provider holds for   *)
(* reference_id = Action.id is numbered by that action, and so is the      *)
(* promise whose follow-up the action is.                                  *)
(***************************************************************************)
EXTENDS Naturals, FiniteSets

CONSTANTS
    Workers,           \* RQ worker processes
    Reconcilers,       \* runs of scripts/reconcile_actions.py
    MaxActions,        \* bound: action rows a case may ever have
    MaxAttempts,       \* settings.ACTION_MAX_ATTEMPTS
    MaxContacts,       \* GuardrailConfig.max_contacts_per_case
    PolicyChoices,     \* what the configured policy can choose
    SuspendedWorkers   \* TRUE: a worker may outlive its claim's lease

WaitTypes       == {"WAIT", "WAIT_FOR_NATIVE_RETRY"}
ExecutableTypes == {"CREATE_PAYMENT_LINK", "CONTACT_CUSTOMER", "COLLECT_PROMISE_TO_PAY"}
Instructions    == {"ESCALATE", "STOP"}
ActionTypes     == WaitTypes \cup ExecutableTypes \cup Instructions \cup {"FOLLOW_UP_PTP"}

ASSUME ProcsAssumption  == Workers \cap Reconcilers = {}
ASSUME BoundsAssumption == /\ MaxActions \in Nat /\ MaxActions >= 1
                           /\ MaxAttempts \in Nat /\ MaxAttempts >= 1
                           /\ MaxContacts \in Nat
ASSUME PolicyAssumption == /\ PolicyChoices \subseteq ActionTypes \ {"FOLLOW_UP_PTP"}
                           /\ "ESCALATE" \in PolicyChoices
ASSUME LeaseAssumption  == SuspendedWorkers \in BOOLEAN

Procs   == Workers \cup Reconcilers
Actions == 1..MaxActions

\* "NONE": no such row.  DETECTED, DIAGNOSED and DECISION_READY are passed
\* through inside one transaction and are never committed.
CaseStates     == {"NONE", "WAITING", "ACTION_SCHEDULED", "AWAITING_OUTCOME",
                   "HUMAN_REVIEW", "STOPPED", "RECOVERED", "DISPUTED"}
TerminalStates == {"STOPPED", "RECOVERED", "DISPUTED"}
Diagnosable    == {"WAITING", "ACTION_SCHEDULED", "AWAITING_OUTCOME"}
Replyable      == Diagnosable \cup {"HUMAN_REVIEW"}
Statuses       == {"NONE", "SCHEDULED", "EXECUTING", "EXECUTED", "CANCELLED", "FAILED"}
\* Fault, not in the code: scheduled rows are not counted as newer work.
OnlyStarted    == {"EXECUTING", "EXECUTED"}
LiveStatuses   == {"SCHEDULED", "EXECUTING", "EXECUTED"}
PromiseStates  == {"NONE", "PENDING", "SUPERSEDED", "KEPT", "BROKEN"}
\* "posting": the request left the worker and may still be accepted;
\* "settled": paid, and its payment_link.paid webhook has been processed.
LinkStates     == {"none", "posting", "open", "dead", "paid", "settled"}
\* "none": no capture yet.  "unlinked": stored without a case, before this one
\* was opened.  "here": credited to this case.  "missed": no lookup made for
\* this case finds it, because it was credited to another case of the
\* subscription, or stored before the case took the payment over.
Captures       == {"none", "unlinked", "here", "missed"}
Steps          == {"idle", "claimed", "performed", "failed", "ambiguous", "lookup",
                   "unresolved", "mismatch", "cancel", "expired", "reset"}

VARIABLES
    caseState,   \* RevenueCase.state
    caseLink,    \* RevenueCase.razorpay_payment_link_id, 0 when null
    captured,    \* what a capture of the case's payment was recorded on
    n,           \* number of action rows
    type,        \* Action.action_type
    status,      \* Action.status
    attempts,    \* Action.attempt_count
    due,         \* Action.scheduled_for <= now
    leased,      \* Action.claimed_at > now - ACTION_CLAIM_TIMEOUT_SECONDS
    promise,     \* PromiseToPay.status of the promise the action follows up
    link,        \* the provider's payment link for reference_id = Action.id
    pc, job      \* where each process is, and the action it works on

caseVars == <<caseState, caseLink, captured>>
rowVars  == <<n, type, status, attempts, due, leased, promise>>
procVars == <<pc, job>>
vars     == <<caseVars, rowVars, link, procVars>>

-----------------------------------------------------------------------------
(* Queries.                                                                *)

\* _is_superseded: a newer row of the case is scheduled, running or done.
Superseded(a) == \E b \in Actions : b > a /\ status[b] \in LiveStatuses

\* The case state in which work of this type is still wanted.
WantedIn(t) == CASE t \in WaitTypes        -> "WAITING"
                 [] t \in ExecutableTypes  -> "ACTION_SCHEDULED"
                 [] t = "FOLLOW_UP_PTP"    -> "AWAITING_OUTCOME"
                 [] OTHER                  -> "NONE"

\* Fault, not in the code: a finalizer that does not look at the case again.
UnlessNewer(a) == ~Superseded(a)

\* The re-check every finalizer but one makes under the row locks.
StillWanted(a) == caseState = WantedIn(type[a]) /\ ~Superseded(a)

\* Fault, not in the code: the promise check of a claim turned around.
NoPromiseLeft(a) == StillWanted(a) /\ (type[a] = "FOLLOW_UP_PTP" => promise[a] # "PENDING")

\* _claim_action and _claimed_action_is_eligible also look at the promise.
Eligible(a) == StillWanted(a) /\ (type[a] = "FOLLOW_UP_PTP" => promise[a] = "PENDING")

HasPendingPromise == \E a \in Actions : promise[a] = "PENDING"

\* Fault, not in the code: one attempt too many.
OneTooMany(a) == attempts[a] <= MaxAttempts

\* attempt_count < max_attempts, checked before a row is put back.
AttemptLeft(a) == attempts[a] < MaxAttempts

\* Fault, not in the code: only contacts still to come are counted.
ScheduledContacts(seen) ==
    Cardinality({a \in Actions : type[a] \in ExecutableTypes /\ seen[a] = "SCHEDULED"})

\* _contacts_for_case over the statuses the query sees.
ContactsSeen(seen) ==
    Cardinality({a \in Actions : /\ type[a] \in ExecutableTypes
                                 /\ seen[a] \in {"SCHEDULED", "EXECUTED"}})

\* _check_action_allowed.  The amount, the cooldown and the 7-day window, the
\* category's ranking and the stopping rule decide among what is left: they
\* are the choice in Decide.
Allowed(t, seen) ==
    /\ t \in WaitTypes => \A a \in Actions : type[a] = t => seen[a] # "EXECUTED"
    /\ t \in ExecutableTypes => ContactsSeen(seen) < MaxContacts

Cancelled(st) == [a \in Actions |-> IF st[a] = "SCHEDULED" THEN "CANCELLED" ELSE st[a]]

-----------------------------------------------------------------------------
(* Writes shared by the transactions.                                      *)

ActionToState(t) == CASE t = "ESCALATE" -> "HUMAN_REVIEW"
                      [] t = "STOP"     -> "STOPPED"
                      [] OTHER          -> WantedIn(t)

\* Bound: a wait leaves a row free for the decision its completion makes.
HasRoom(t) == n + (IF t \in WaitTypes THEN 2 ELSE 1) <= MaxActions

\* A new row, on top of the statuses st the transaction has set so far.
InsertAction(t, s, isDue, p, st) ==
    /\ HasRoom(t)
    /\ n' = n + 1
    /\ type' = [type EXCEPT ![n + 1] = t]
    /\ status' = [st EXCEPT ![n + 1] = s]
    /\ due' = [due EXCEPT ![n + 1] = isDue]
    /\ promise' = p
    /\ UNCHANGED <<attempts, leased>>

\* decide_for_case and _record_decision: seen is what the policy's queries
\* return (the session does not autoflush), st what the transaction wrote.
Decide(seen, st) ==
    \E t \in PolicyChoices :
        /\ Allowed(t, seen)
        /\ InsertAction(t, IF t \in Instructions THEN "EXECUTED" ELSE "SCHEDULED",
                        t \notin WaitTypes, promise, st)
        /\ caseState' = ActionToState(t)

KeepPromises == [a \in Actions |-> IF promise[a] = "PENDING" THEN "KEPT" ELSE promise[a]]

\* _recover_case
Recover ==
    /\ caseState' = "RECOVERED"
    /\ status' = Cancelled(status)
    /\ promise' = KeepPromises
    /\ UNCHANGED <<n, type, attempts, due, leased>>

\* claimed_at stays in a final row, but is only read of an EXECUTING one.
SetStatus(a, s) ==
    /\ status' = [status EXCEPT ![a] = s]
    /\ leased' = [leased EXCEPT ![a] = FALSE]
    /\ UNCHANGED <<n, type, attempts, due, promise>>

\* Fault, not in the code: attempt_count is reset with the claim.
WithAllAttempts(a, isDue) ==
    /\ status' = [status EXCEPT ![a] = "SCHEDULED"]
    /\ attempts' = [attempts EXCEPT ![a] = 0]
    /\ due' = [due EXCEPT ![a] = isDue]
    /\ leased' = [leased EXCEPT ![a] = FALSE]
    /\ UNCHANGED <<n, type, promise>>

\* The row goes back to SCHEDULED and its claim is cleared.
Reschedule(a, isDue) ==
    /\ status' = [status EXCEPT ![a] = "SCHEDULED"]
    /\ due' = [due EXCEPT ![a] = isDue]
    /\ leased' = [leased EXCEPT ![a] = FALSE]
    /\ UNCHANGED <<n, type, attempts, promise>>

\* Fault, not in the code: the action fails and the case is not handed over.
FailQuietly(a) == SetStatus(a, "FAILED") /\ UNCHANGED caseState

\* apply_terminal_failure, apply_reconciliation_failure and the exhausted
\* branch of _schedule_ambiguous_retry write the same two states.
FailToReview(a) ==
    /\ SetStatus(a, "FAILED")
    /\ caseState' = "HUMAN_REVIEW"

Goto(p, step)    == pc' = [pc EXCEPT ![p] = step] /\ UNCHANGED job
Start(p, a, step) == pc' = [pc EXCEPT ![p] = step] /\ job' = [job EXCEPT ![p] = a]
Finish(p)        == pc' = [pc EXCEPT ![p] = "idle"] /\ job' = [job EXCEPT ![p] = 0]
-----------------------------------------------------------------------------
(* Requests: one transaction each, under the case's row lock.  Redelivered *)
(* webhooks are dropped by their event id before they get here.            *)

\* Fault, not in the code: no look at a recovery that came first.
ForgetCapture ==
    /\ caseState = "NONE"
    /\ Decide(status, status)
    /\ UNCHANGED <<caseLink, captured, link, procVars>>

\* payment.failed with no case yet: _handle_failure opens one.
OpenCase ==
    /\ caseState = "NONE"
    /\ \/ /\ captured = "unlinked"  \* _prior_unlinked_recovery
          /\ captured' = "here"
          /\ Recover
       \/ /\ captured # "unlinked"
          /\ Decide(status, status)
          /\ UNCHANGED captured
    /\ UNCHANGED <<caseLink, link, procVars>>

\* A failure of another payment of the subscription: it becomes the case's,
\* and nobody looks for a capture of it.
TakeOver == captured' \in {"none", "missed"}

\* payment.failed again: _handle_existing_failure.  A case that is no longer
\* diagnosable only gets an audit row, and one with an unkept promise only
\* what a take-over changes.
RepeatFailure ==
    /\ caseState \in Diagnosable
    /\ UNCHANGED captured \/ TakeOver
    /\ IF HasPendingPromise
       THEN UNCHANGED <<caseState, rowVars>>
       ELSE Decide(status, Cancelled(status))
    /\ UNCHANGED <<caseLink, link, procVars>>

\* The lookups of _handle_recovery: the case of this payment, or of an earlier
\* event of it; else the subscription's newest, which need not be this one.
RecordCapture ==
    \/ caseState # "NONE" /\ captured' = "here"
    \/ caseState = "NONE" /\ captured = "none" /\ captured' \in {"unlinked", "missed"}
    \/ caseState = "NONE" /\ captured # "none" /\ UNCHANGED captured

\* Fault, not in the code: a capture recovers a disputed case.
CaptureAlways ==
    /\ RecordCapture
    /\ IF caseState = "NONE" THEN UNCHANGED <<caseState, rowVars>> ELSE Recover
    /\ UNCHANGED <<caseLink, link, procVars>>

\* payment.captured or subscription.charged: _handle_recovery.
Capture ==
    /\ RecordCapture
    /\ IF caseState \in {"NONE", "RECOVERED", "DISPUTED"}
       THEN UNCHANGED <<caseState, rowVars>>
       ELSE Recover
    /\ UNCHANGED <<caseLink, link, procVars>>

\* payment_link.paid: _handle_payment_link_paid finds the case only by the
\* link stored on it; an unmatched event is stored and never looked at again.
LinkPaid(a) ==
    /\ link[a] = "paid"
    /\ link' = [link EXCEPT ![a] = "settled"]
    /\ IF caseLink = a /\ caseState \notin {"RECOVERED", "DISPUTED"}
       THEN Recover
       ELSE UNCHANGED <<caseState, rowVars>>
    /\ UNCHANGED <<caseLink, captured, procVars>>

\* _dispute_case: from any state; promises are left as they are.
DisputeCase ==
    /\ caseState' = "DISPUTED"
    /\ status' = Cancelled(status)
    /\ UNCHANGED <<caseLink, captured, n, type, attempts, due, leased, promise, link, procVars>>

\* payment.dispute.created: _handle_dispute.
Dispute == caseState # "NONE" /\ DisputeCase

\* A reply that claims payment or disputes: handle_customer_reply.
ReplyDispute == caseState \in Replyable /\ DisputeCase

\* A reply that is no promise, or a promise that fails validation.
ReplyUnclear ==
    /\ caseState \in Replyable
    /\ caseState' = "HUMAN_REVIEW"
    /\ status' = Cancelled(status)
    /\ UNCHANGED <<caseLink, captured, n, type, attempts, due, leased, promise, link, procVars>>

\* A valid promise replaces the pending one, and its follow-up replaces all
\* scheduled work.
ReplyPromise ==
    /\ caseState \in Replyable
    /\ LET superseded == [a \in Actions |->
                            IF promise[a] = "PENDING" THEN "SUPERSEDED" ELSE promise[a]]
       IN InsertAction("FOLLOW_UP_PTP", "SCHEDULED", FALSE,
                       [superseded EXCEPT ![n + 1] = "PENDING"], Cancelled(status))
    /\ caseState' = "AWAITING_OUTCOME"
    /\ UNCHANGED <<caseLink, captured, link, procVars>>

-----------------------------------------------------------------------------
(* Workers: process_action.  RQ delivers at least once, and redeliveries,  *)
(* republished and early jobs let any worker try any row at any time.      *)

\* _claim_action
Claim(w, a) ==
    /\ pc[w] = "idle"
    /\ status[a] = "SCHEDULED" /\ due[a]
    /\ \/ /\ Eligible(a)
          /\ status' = [status EXCEPT ![a] = "EXECUTING"]
          /\ attempts' = [attempts EXCEPT ![a] = @ + 1]
          /\ leased' = [leased EXCEPT ![a] = TRUE]
          /\ Start(w, a, "claimed")
          /\ UNCHANGED <<n, type, due, promise>>
       \/ /\ ~Eligible(a)
          /\ SetStatus(a, "CANCELLED")
          /\ UNCHANGED procVars
    /\ UNCHANGED <<caseVars, link>>

\* Fault, not in the code: any answer of the provider counts as success.
TakeAnyAnswer(w) ==
    /\ pc[w] = "claimed" /\ type[job[w]] \in ExecutableTypes
    /\ Goto(w, "performed")
    /\ UNCHANGED <<caseVars, rowVars, link>>

\* action_executor.perform, outside any transaction.  A contact action only
\* drafts a message, whose failure falls back to a template; a create-link
\* request can be answered, lost before or after the provider accepts it,
\* refused as a duplicate of its reference, or refused outright.
Perform(w) ==
    LET a == job[w] IN
    /\ pc[w] = "claimed" /\ type[a] \in ExecutableTypes
    /\ \/ /\ type[a] # "CREATE_PAYMENT_LINK"
          /\ Goto(w, "performed")
          /\ UNCHANGED link
       \/ /\ type[a] = "CREATE_PAYMENT_LINK"
          /\ link[a] \in {"none", "posting"}
          /\ link' = [link EXCEPT ![a] = "open"]
          /\ Goto(w, "performed") \/ Goto(w, "ambiguous")
       \/ /\ type[a] = "CREATE_PAYMENT_LINK"
          /\ link[a] = "none"
          /\ link' = [link EXCEPT ![a] = "posting"]
          /\ Goto(w, "ambiguous")
       \/ /\ type[a] = "CREATE_PAYMENT_LINK"
          /\ Goto(w, "ambiguous") \/ Goto(w, "failed")
          /\ UNCHANGED link
    /\ UNCHANGED <<caseVars, rowVars>>

\* _handle_ambiguous_payment_link reads the case state without a lock.
CheckAmbiguous(w) ==
    /\ pc[w] = "ambiguous"
    /\ Goto(w, IF caseState \in TerminalStates THEN "cancel" ELSE "lookup")
    /\ UNCHANGED <<caseVars, rowVars, link>>

\* find_payment_link_for_action, outside any transaction: no answer, no link,
\* one valid link (paid ones included), or a mismatch: a dead link, one of
\* another amount, several of them, or a lookup that the provider refuses.
LookupUnanswered(p) ==
    /\ pc[p] = "lookup"
    /\ IF p \in Workers THEN Goto(p, "unresolved") ELSE Finish(p)
    /\ UNCHANGED <<caseVars, rowVars, link>>

LookupAnswered(p) ==
    LET a == job[p] IN
    /\ pc[p] = "lookup"
    /\ \/ /\ link[a] \in {"none", "posting"}
          /\ Goto(p, IF p \in Workers THEN "failed" ELSE "reset")
       \/ /\ link[a] \in {"open", "paid", "settled"}
          /\ Goto(p, "performed")
       \/ Goto(p, "mismatch")
    /\ UNCHANGED <<caseVars, rowVars, link>>

-----------------------------------------------------------------------------
(* Finalizers: one transaction each, which locks case and action again.    *)

\* What a process at this step is about to write about its action.
Finalizing(p) == \/ pc[p] \in {"performed", "failed", "unresolved", "mismatch", "cancel", "reset"}
                 \/ pc[p] = "claimed" /\ type[job[p]] \notin ExecutableTypes

\* Every finalizer first drops an action that is no longer EXECUTING.
FinalizeNothing(p) ==
    /\ Finalizing(p)
    /\ status[job[p]] # "EXECUTING"
    /\ Finish(p)
    /\ UNCHANGED <<caseVars, rowVars, link>>

\* _cancel_stale: the case moved on, or it was terminal before a lookup.
FinalizeCancelled(p) ==
    /\ Finalizing(p) /\ pc[p] \notin {"mismatch", "reset"}
    /\ status[job[p]] = "EXECUTING"
    /\ pc[p] = "cancel" \/ ~StillWanted(job[p])
    /\ SetStatus(job[p], "CANCELLED")
    /\ Finish(p)
    /\ UNCHANGED <<caseVars, link>>

\* _complete_wait flushes the row, so the policy sees it EXECUTED.
CompleteWait(w) ==
    LET a == job[w]
        done == [status EXCEPT ![a] = "EXECUTED"] IN
    /\ pc[w] = "claimed" /\ type[a] \in WaitTypes
    /\ status[a] = "EXECUTING" /\ StillWanted(a)
    /\ Decide(done, done)
    /\ Finish(w)
    /\ UNCHANGED <<caseLink, captured, link>>

\* _complete_ptp and complete_followup
CompleteFollowUp(w) ==
    LET a == job[w] IN
    /\ pc[w] = "claimed" /\ type[a] = "FOLLOW_UP_PTP"
    /\ status[a] = "EXECUTING" /\ StillWanted(a)
    /\ status' = [status EXCEPT ![a] = "EXECUTED"]
    /\ leased' = [leased EXCEPT ![a] = FALSE]
    /\ IF promise[a] = "PENDING"
       THEN /\ promise' = [promise EXCEPT ![a] = "BROKEN"]
            /\ caseState' = "HUMAN_REVIEW"
       ELSE UNCHANGED <<promise, caseState>>
    /\ Finish(w)
    /\ UNCHANGED <<caseLink, captured, n, type, attempts, due, link>>

\* _complete_external and apply_success
CompleteExternal(p) ==
    LET a == job[p] IN
    /\ pc[p] = "performed"
    /\ status[a] = "EXECUTING" /\ StillWanted(a)
    /\ SetStatus(a, "EXECUTED")
    /\ caseState' = "AWAITING_OUTCOME"
    /\ caseLink' = IF type[a] = "CREATE_PAYMENT_LINK" THEN a ELSE caseLink
    /\ Finish(p)
    /\ UNCHANGED <<captured, link>>

\* _record_external_failure, and _schedule_ambiguous_retry
RetryOrFail(w) ==
    LET a == job[w] IN
    /\ pc[w] \in {"failed", "unresolved"}
    /\ status[a] = "EXECUTING" /\ StillWanted(a)
    /\ \/ /\ AttemptLeft(a)
          /\ Reschedule(a, FALSE)
          /\ UNCHANGED caseState
       \/ /\ ~AttemptLeft(a)
          /\ FailToReview(a)
    /\ Finish(w)
    /\ UNCHANGED <<caseLink, captured, link>>

\* apply_reconciliation_failure: the one finalizer that does not look at the
\* case or at newer rows again.
RejectLink(p) ==
    /\ pc[p] = "mismatch"
    /\ status[job[p]] = "EXECUTING"
    /\ FailToReview(job[p])
    /\ Finish(p)
    /\ UNCHANGED <<caseLink, captured, link>>

-----------------------------------------------------------------------------
(* Reconciliation: reconcile_actions lists the expired claims, then takes  *)
(* them one by one.                                                        *)

\* Fault, not in the code: claims of finished cases are left alone.
ListUnfinished(r, a) ==
    /\ pc[r] = "idle"
    /\ status[a] = "EXECUTING" /\ ~leased[a] /\ caseState \notin TerminalStates
    /\ Start(r, a, IF type[a] = "CREATE_PAYMENT_LINK" THEN "expired" ELSE "reset")
    /\ UNCHANGED <<caseVars, rowVars, link>>

ListExpired(r, a) ==
    /\ pc[r] = "idle"
    /\ status[a] = "EXECUTING" /\ ~leased[a]
    /\ Start(r, a, IF type[a] = "CREATE_PAYMENT_LINK" THEN "expired" ELSE "reset")
    /\ UNCHANGED <<caseVars, rowVars, link>>

\* _reconcile_stale_payment_link, up to its lookup: reads without a lock.
CheckExpired(r) ==
    LET a == job[r] IN
    /\ pc[r] = "expired"
    /\ IF status[a] # "EXECUTING" \/ leased[a]
       THEN Finish(r)
       ELSE Goto(r, IF caseState \in TerminalStates \/ Superseded(a) THEN "cancel" ELSE "lookup")
    /\ UNCHANGED <<caseVars, rowVars, link>>

\* The locked recovery of an expired claim in reconcile_actions.
RecoverClaim(r) ==
    LET a == job[r] IN
    /\ pc[r] = "reset"
    /\ status[a] = "EXECUTING"
    /\ \/ leased[a] /\ UNCHANGED <<caseState, rowVars>>
       \/ /\ ~leased[a] /\ ~Eligible(a)
          /\ SetStatus(a, "CANCELLED") /\ UNCHANGED caseState
       \/ /\ ~leased[a] /\ Eligible(a) /\ ~AttemptLeft(a)
          /\ FailToReview(a)
       \/ /\ ~leased[a] /\ Eligible(a) /\ AttemptLeft(a)
          /\ Reschedule(a, TRUE) /\ UNCHANGED caseState
    /\ Finish(r)
    /\ UNCHANGED <<caseLink, captured, link>>

-----------------------------------------------------------------------------
(* Surroundings: time, crashes, the provider and the customer.             *)

FallsDue(a) ==
    /\ status[a] = "SCHEDULED" /\ ~due[a]
    /\ due' = [due EXCEPT ![a] = TRUE]
    /\ UNCHANGED <<caseVars, n, type, status, attempts, leased, promise, link, procVars>>

\* RQ ends a job after ACTION_JOB_TIMEOUT_SECONDS; with the default settings
\* that is long before its lease expires, unless the worker is suspended.
LeaseExpires(a) ==
    /\ status[a] = "EXECUTING" /\ leased[a]
    /\ SuspendedWorkers \/ \A w \in Workers : job[w] # a
    /\ leased' = [leased EXCEPT ![a] = FALSE]
    /\ UNCHANGED <<caseVars, n, type, status, attempts, due, promise, link, procVars>>

\* A killed process forgets what it was doing; its claim stays EXECUTING.
Crash(p) ==
    /\ pc[p] # "idle"
    /\ Finish(p)
    /\ UNCHANGED <<caseVars, rowVars, link>>

\* A lost request is accepted late, a link is paid, expires or is cancelled.
ProviderStep(a) ==
    /\ \/ link[a] = "posting" /\ link' = [link EXCEPT ![a] = "open"]
       \/ link[a] = "open" /\ \E s \in {"paid", "dead"} : link' = [link EXCEPT ![a] = s]
    /\ UNCHANGED <<caseVars, rowVars, procVars>>

-----------------------------------------------------------------------------
Init ==
    /\ caseState = "NONE" /\ caseLink = 0 /\ captured = "none"
    /\ n = 0
    /\ type = [a \in Actions |-> "ESCALATE"]
    /\ status = [a \in Actions |-> "NONE"]
    /\ attempts = [a \in Actions |-> 0]
    /\ due = [a \in Actions |-> FALSE]
    /\ leased = [a \in Actions |-> FALSE]
    /\ promise = [a \in Actions |-> "NONE"]
    /\ link = [a \in Actions |-> "none"]
    /\ pc = [p \in Procs |-> "idle"]
    /\ job = [p \in Procs |-> 0]

Request == \/ OpenCase \/ RepeatFailure \/ Capture \/ Dispute
           \/ ReplyDispute \/ ReplyUnclear \/ ReplyPromise
           \/ \E a \in Actions : LinkPaid(a)

Finalize(p) == \/ FinalizeNothing(p) \/ FinalizeCancelled(p)
               \/ CompleteWait(p) \/ CompleteFollowUp(p) \/ CompleteExternal(p)
               \/ RetryOrFail(p) \/ RejectLink(p) \/ RecoverClaim(p)

WorkerStep(w) == \/ \E a \in Actions : Claim(w, a)
                 \/ Perform(w) \/ CheckAmbiguous(w)

ReconcilerStep(r) == (\E a \in Actions : ListExpired(r, a)) \/ CheckExpired(r)

Surroundings == \E a \in Actions : FallsDue(a) \/ LeaseExpires(a) \/ ProviderStep(a)

Step == \/ Request
        \/ \E w \in Workers : WorkerStep(w)
        \/ \E r \in Reconcilers : ReconcilerStep(r)
        \/ \E p \in Procs : LookupUnanswered(p) \/ LookupAnswered(p) \/ Finalize(p)
        \/ Surroundings

Next == Step \/ \E p \in Procs : Crash(p)

Spec == Init /\ [][Next]_vars

-----------------------------------------------------------------------------
(* Properties.                                                             *)

\* The types of the variables, and the shape of the tables: rows are numbered
\* without gaps and only follow-ups carry a promise.
TypeOK ==
    /\ caseState \in CaseStates
    /\ caseLink \in 0..MaxActions
    /\ captured \in Captures
    /\ n \in 0..MaxActions
    /\ type \in [Actions -> ActionTypes]
    /\ status \in [Actions -> Statuses]
    /\ attempts \in [Actions -> 0..MaxAttempts]
    /\ due \in [Actions -> BOOLEAN]
    /\ leased \in [Actions -> BOOLEAN]
    /\ promise \in [Actions -> PromiseStates]
    /\ link \in [Actions -> LinkStates]
    /\ pc \in [Procs -> Steps]
    /\ job \in [Procs -> 0..MaxActions]
    /\ \A a \in Actions : a > n <=> status[a] = "NONE"
    /\ \A a \in Actions : promise[a] # "NONE" => type[a] = "FOLLOW_UP_PTP"

\* The attempt budget: whatever mix of crashes, expired leases, lost answers
\* and retries a row goes through (temporal_runtime.py), a row that can still
\* be claimed has an attempt left, so a claim never exceeds max_attempts.
AttemptBudget ==
    \A a \in Actions : status[a] = "SCHEDULED" => attempts[a] < MaxAttempts

\* No case is stuck: while it says that automatic work is under way there is
\* a row, not superseded, that is scheduled or claimed and does that work.
\* Request handlers cancel rows and workers cancel, fail and lose them.
WorkBehindState ==
    caseState \in {"WAITING", "ACTION_SCHEDULED"} =>
        \E a \in Actions : /\ WantedIn(type[a]) = caseState
                           /\ status[a] \in {"SCHEDULED", "EXECUTING"}
                           /\ ~Superseded(a)

\* A promise the case waits for is the only one, and its follow-up is still
\* coming: nothing newer will make a worker cancel it as superseded.
PromiseIsFollowedUp ==
    \A a \in Actions :
        promise[a] = "PENDING" /\ caseState = "AWAITING_OUTCOME" =>
            /\ status[a] \in {"SCHEDULED", "EXECUTING"}
            /\ ~Superseded(a)
            /\ \A b \in Actions \ {a} : promise[b] # "PENDING"

\* max_contacts_per_case bounds the outreach that completes, although the
\* guardrail's query overlooks rows that are EXECUTING at that moment.
ContactBudget ==
    Cardinality({a \in Actions : type[a] \in ExecutableTypes /\ status[a] = "EXECUTED"})
        <= MaxContacts

\* A link recorded on the case exists at the provider, whichever process
\* recorded it: the worker that created it, one that looked it up after an
\* ambiguous answer, or the reconciler.
RecordedLinkExists ==
    caseLink # 0 => /\ type[caseLink] = "CREATE_PAYMENT_LINK"
                    /\ status[caseLink] = "EXECUTED"
                    /\ link[caseLink] \in {"open", "dead", "paid", "settled"}

\* A case in which the system must not start outreach any more: it is over,
\* a person took it, or it waits for a promise of the customer.
HandsOff == \/ caseState \in TerminalStates \cup {"HUMAN_REVIEW"}
            \/ caseState = "AWAITING_OUTCOME" /\ HasPendingPromise

\* A capture that was stored before its case was opened, and one that any
\* lookup credits to the case later, make the system take its hands off the
\* case and keep them off.  (A "missed" capture does not: see TakeOver and
\* RecordCapture.)
CapturedMeansHandsOff ==
    captured \in {"unlinked", "here"} /\ caseState # "NONE" => HandsOff

\* Hands off is for good: no interleaving of late workers, reconcilers and
\* requests brings the case back to automation or claims outreach for it.
HandsOffForGood ==
    [][HandsOff => /\ HandsOff'
                   /\ \A a \in Actions : type[a] \in ExecutableTypes /\ status[a] = "SCHEDULED"
                                             => status'[a] # "EXECUTING"]_vars

\* A dispute always wins (ARCHITECTURE.md:175): a disputed case stays disputed.
DisputeIsFinal == [][caseState = "DISPUTED" => caseState' = "DISPUTED"]_vars

\* What the rows promise to the rest of the system, however many processes
\* run (DurableActions): at-least-once delivery, lost answers and recovered
\* claims never show a row twice, out of order or beyond its budget.
Table == INSTANCE DurableActions WITH Rows <- Actions

ImplementsTable == Table!Spec

\* The phase of the case that the routing of events (Correlation) relies on.
Phase == CASE caseState \in {"WAITING", "ACTION_SCHEDULED"} -> "WORKING"
           [] caseState = "AWAITING_OUTCOME" -> IF HasPendingPromise THEN "PROMISED" ELSE "OFFERED"
           [] OTHER -> caseState

\* What a case promises to the routing of events: whatever its rows and
\* processes do, its phase moves as CaseLife says.
Life == INSTANCE CaseLife WITH phase <- Phase

ImplementsLife == Life!Spec

-----------------------------------------------------------------------------
(* Liveness.  Time passes; a running worker and the repeated              *)
(* reconciliation script take their next step (the compose file restarts   *)
(* the worker, the runbook repeats the script).  A crash of the script is  *)
(* left out here: only runs that reach their end are counted on.  Requests *)
(* and worker crashes are owed nothing.                                    *)

TimePasses        == \E a \in Actions : FallsDue(a) \/ LeaseExpires(a)
WorkerRuns(w)     == WorkerStep(w) \/ LookupUnanswered(w) \/ LookupAnswered(w) \/ Finalize(w)
ReconcilerRuns(r) == ReconcilerStep(r) \/ LookupUnanswered(r) \/ LookupAnswered(r) \/ Finalize(r)

\* A lookup that is repeated forever is answered in the end.
FairSpec ==
    /\ Init
    /\ [][Step \/ \E w \in Workers : Crash(w)]_vars
    /\ WF_vars(TimePasses)
    /\ \A w \in Workers : WF_vars(WorkerRuns(w))
    /\ \A r \in Reconcilers : WF_vars(ReconcilerRuns(r)) /\ SF_vars(LookupAnswered(r))

\* Every row that is scheduled or claimed is brought to an end.
EveryActionEnds ==
    \A a \in Actions : status[a] \in {"SCHEDULED", "EXECUTING"}
                          ~> status[a] \in {"EXECUTED", "CANCELLED", "FAILED"}

\* The system does not sit on a case: it ends up waiting for the customer or
\* a person, or the case is over.
AutomationEnds ==
    caseState \in {"WAITING", "ACTION_SCHEDULED"}
        ~> caseState \in {"AWAITING_OUTCOME", "HUMAN_REVIEW"} \cup TerminalStates

\* A promise the case waits for does not stay unresolved.
PromiseIsResolved ==
    caseState = "AWAITING_OUTCOME" /\ HasPendingPromise
        ~> ~(caseState = "AWAITING_OUTCOME" /\ HasPendingPromise)
=============================================================================
