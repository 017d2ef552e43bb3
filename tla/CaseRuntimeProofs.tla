-------------------------- MODULE CaseRuntimeProofs --------------------------
(***************************************************************************)
(* Proofs about CaseRuntime, for any number of workers, reconcilers, rows, *)
(* attempts and contacts, and any policy.                                  *)
(***************************************************************************)
EXTENDS CaseRuntime, FiniteSetTheorems, TLAPS

(* The inductive invariant.  What a transaction writes about rows does not *)
(* depend on which process runs it, so it has one part for the rows, one   *)
(* for the case and one for the processes.                                 *)

\* The row a process inserts next was never used, and the budget holds.
RowsOK ==
    /\ n \in 0..MaxActions
    /\ type \in [Actions -> ActionTypes]
    /\ status \in [Actions -> Statuses]
    /\ attempts \in [Actions -> 0..MaxAttempts]
    /\ due \in [Actions -> BOOLEAN]
    /\ leased \in [Actions -> BOOLEAN]
    /\ promise \in [Actions -> PromiseStates]
    /\ \A a \in Actions : a > n <=> status[a] = "NONE"
    /\ \A a \in Actions : promise[a] # "NONE" => type[a] = "FOLLOW_UP_PTP"
    /\ \A a \in Actions : a > n => attempts[a] = 0 /\ promise[a] = "NONE"
    /\ AttemptBudget

CaseOK ==
    /\ caseState \in CaseStates
    /\ caseLink \in 0..MaxActions
    /\ captured \in Captures
    /\ link \in [Actions -> LinkStates]
    /\ caseState = "NONE" => n = 0

ProcsOK ==
    /\ pc \in [Procs -> Steps]
    /\ job \in [Procs -> 0..MaxActions]
    /\ \A p \in Procs : pc[p] # "idle" => job[p] \in Actions

IInv == RowsOK /\ CaseOK /\ ProcsOK

-----------------------------------------------------------------------------
(* What the shared writes do to the rows.                                  *)

\* Cancelling scheduled rows creates and removes no row (_cancel_scheduled_actions).
LEMMA CancelledRows ==
    ASSUME RowsOK
    PROVE  /\ Cancelled(status) \in [Actions -> Statuses]
           /\ \A a \in Actions : Cancelled(status)[a] = "NONE" <=> status[a] = "NONE"
           /\ \A a \in Actions : Cancelled(status)[a] # "SCHEDULED"
  BY DEF RowsOK, Cancelled, Statuses

\* An insert on top of what the transaction wrote keeps the table in order
\* (_record_decision): the new row is the next one, with all its attempts left.
LEMMA InsertKeepsRows ==
    ASSUME RowsOK,
           NEW t \in ActionTypes, NEW s \in {"SCHEDULED", "EXECUTED"}, NEW d \in BOOLEAN,
           NEW p \in [Actions -> PromiseStates], NEW st \in [Actions -> Statuses],
           \A a \in Actions : st[a] = "NONE" <=> status[a] = "NONE",
           \A a \in Actions : st[a] = "SCHEDULED" => attempts[a] < MaxAttempts,
           \A a \in Actions : p[a] # "NONE" =>
               promise[a] # "NONE" \/ (a = n + 1 /\ t = "FOLLOW_UP_PTP"),
           InsertAction(t, s, d, p, st)
    PROVE  RowsOK'
<1> USE DEF RowsOK, InsertAction
<1>1. n + 1 \in Actions
  BY BoundsAssumption DEF HasRoom, Actions
<1>2. n' \in 0..MaxActions
  BY <1>1 DEF Actions
<1>3. /\ type' \in [Actions -> ActionTypes]
      /\ status' \in [Actions -> Statuses]
      /\ attempts' \in [Actions -> 0..MaxAttempts]
      /\ due' \in [Actions -> BOOLEAN]
      /\ leased' \in [Actions -> BOOLEAN]
      /\ promise' \in [Actions -> PromiseStates]
  BY DEF Statuses
<1>4. ASSUME NEW a \in Actions
      PROVE  /\ a > n' <=> status'[a] = "NONE"
             /\ promise'[a] # "NONE" => type'[a] = "FOLLOW_UP_PTP"
             /\ a > n' => attempts'[a] = 0 /\ promise'[a] = "NONE"
             /\ status'[a] = "SCHEDULED" => attempts'[a] < MaxAttempts
  <2>1. CASE a = n + 1
    BY <1>1, <2>1, BoundsAssumption DEF Actions
  <2>2. CASE a # n + 1
    BY <1>1, <2>2 DEF Actions
  <2> QED BY <2>1, <2>2
<1> QED BY <1>2, <1>3, <1>4 DEF AttemptBudget

\* A decision puts the case in a state of its own and keeps the table in order.
LEMMA DecideKeepsRows ==
    ASSUME RowsOK, NEW seen, NEW st \in [Actions -> Statuses],
           \A a \in Actions : st[a] = "NONE" <=> status[a] = "NONE",
           \A a \in Actions : st[a] = "SCHEDULED" => attempts[a] < MaxAttempts,
           Decide(seen, st)
    PROVE  RowsOK' /\ caseState' \in CaseStates \ {"NONE"}
<1>1. PICK t \in PolicyChoices :
        /\ InsertAction(t, IF t \in Instructions THEN "EXECUTED" ELSE "SCHEDULED",
                        t \notin WaitTypes, promise, st)
        /\ caseState' = ActionToState(t)
  BY DEF Decide
<1>2. t \in ActionTypes
  BY PolicyAssumption
<1>3. RowsOK'
  BY <1>1, <1>2, InsertKeepsRows DEF RowsOK
<1>4. t = "ESCALATE" \/ t = "STOP" \/ t \in WaitTypes \/ t \in ExecutableTypes
  BY PolicyAssumption DEF ActionTypes, Instructions
<1>5. ActionToState(t) \in CaseStates \ {"NONE"}
  BY <1>4 DEF ActionToState, WantedIn, CaseStates
<1> QED BY <1>1, <1>3, <1>5

\* Recovery only cancels rows and keeps promises (_recover_case).
LEMMA RecoverKeepsRows ==
    ASSUME RowsOK, Recover
    PROVE  RowsOK' /\ n' = n /\ caseState' = "RECOVERED"
<1>1. promise' \in [Actions -> PromiseStates]
  BY DEF RowsOK, Recover, KeepPromises, PromiseStates
<1>2. \A a \in Actions : promise'[a] = "NONE" <=> promise[a] = "NONE"
  BY DEF RowsOK, Recover, KeepPromises
<1> QED BY <1>1, <1>2, CancelledRows DEF RowsOK, Recover, AttemptBudget

\* Writing a final or claimed status to a row that is in use.
LEMMA SetStatusKeepsRows ==
    ASSUME RowsOK, NEW a \in Actions, status[a] # "NONE",
           NEW s \in {"EXECUTING", "EXECUTED", "CANCELLED", "FAILED"},
           SetStatus(a, s)
    PROVE  RowsOK' /\ n' = n
  BY DEF RowsOK, SetStatus, Statuses, AttemptBudget

\* A row goes back to SCHEDULED only with an attempt left.
LEMMA RescheduleKeepsRows ==
    ASSUME RowsOK, NEW a \in Actions, status[a] # "NONE", attempts[a] < MaxAttempts,
           NEW d \in BOOLEAN, Reschedule(a, d)
    PROVE  RowsOK' /\ n' = n
  BY DEF RowsOK, Reschedule, Statuses, AttemptBudget

\* Giving up on a row: it was claimed, so the case exists.
LEMMA FailKeepsRows ==
    ASSUME RowsOK, NEW a \in Actions, status[a] # "NONE", FailToReview(a)
    PROVE  RowsOK' /\ n' = n /\ caseState' = "HUMAN_REVIEW"
  BY SetStatusKeepsRows DEF FailToReview

-----------------------------------------------------------------------------
(* Every step keeps the invariant.                                         *)

LEMMA InitIInv == Init => IInv
<1> SUFFICES ASSUME Init PROVE IInv
  OBVIOUS
<1>1. RowsOK
  BY BoundsAssumption DEF Init, RowsOK, AttemptBudget, Actions, ActionTypes, Instructions,
     Statuses, PromiseStates
<1>2. CaseOK
  <2>1. link \in [Actions -> LinkStates]
    BY DEF Init, LinkStates
  <2>2. captured \in Captures
    BY DEF Init, Captures
  <2>3. caseState \in CaseStates /\ caseLink \in 0..MaxActions /\ n = 0
    BY BoundsAssumption DEF Init, CaseStates
  <2> QED BY <2>1, <2>2, <2>3 DEF CaseOK
<1>3. ProcsOK
  BY BoundsAssumption DEF Init, ProcsOK, Steps
<1> QED BY <1>1, <1>2, <1>3 DEF IInv

\* Where a process goes next, it still knows the action it works on.
LEMMA MovesKeepProcs ==
    ASSUME ProcsOK, NEW p \in Procs,
           \/ Finish(p)
           \/ \E step \in Steps : Goto(p, step) /\ pc[p] # "idle"
           \/ \E step \in Steps, a \in Actions : Start(p, a, step)
    PROVE  ProcsOK'
<1>1. CASE Finish(p)
  BY <1>1, BoundsAssumption DEF ProcsOK, Finish, Steps
<1>2. CASE \E step \in Steps : Goto(p, step) /\ pc[p] # "idle"
  BY <1>2 DEF ProcsOK, Goto
<1>3. CASE \E step \in Steps, a \in Actions : Start(p, a, step)
  BY <1>3 DEF ProcsOK, Start, Actions
<1> QED BY <1>1, <1>2, <1>3

LEMMA RequestKeepsIInv == IInv /\ Request => IInv'
<1> SUFFICES ASSUME IInv, Request PROVE IInv'
  OBVIOUS
<1> USE DEF IInv
<1>1. CASE OpenCase
  <2>1. CASE captured' = "here" /\ Recover
    BY <1>1, <2>1, RecoverKeepsRows DEF OpenCase, CaseOK, ProcsOK, procVars, CaseStates, Captures
  <2>2. CASE Decide(status, status) /\ UNCHANGED captured
    <3>1. RowsOK' /\ caseState' \in CaseStates \ {"NONE"}
      BY <2>2, DecideKeepsRows DEF RowsOK, AttemptBudget
    <3> QED BY <1>1, <2>2, <3>1 DEF OpenCase, CaseOK, ProcsOK, procVars
  <2> QED BY <1>1, <2>1, <2>2 DEF OpenCase
<1>2. CASE RepeatFailure
  <2>1. CASE UNCHANGED <<caseState, rowVars>>
    BY <1>2, <2>1 DEF RepeatFailure, TakeOver, CaseOK, ProcsOK, procVars, RowsOK, rowVars,
                      AttemptBudget, Captures
  <2>2. CASE Decide(status, Cancelled(status))
    <3>1. RowsOK' /\ caseState' \in CaseStates \ {"NONE"}
      BY <2>2, CancelledRows, DecideKeepsRows
    <3> QED BY <1>2, <3>1 DEF RepeatFailure, TakeOver, CaseOK, ProcsOK, procVars, Captures
  <2> QED BY <1>2, <2>1, <2>2 DEF RepeatFailure
<1>3. CASE Capture
  <2>0. captured' \in Captures
    BY <1>3 DEF Capture, RecordCapture, Captures, CaseOK
  <2>1. CASE Recover
    BY <1>3, <2>0, <2>1, RecoverKeepsRows DEF Capture, CaseOK, ProcsOK, procVars, CaseStates
  <2>2. CASE UNCHANGED <<caseState, rowVars>>
    BY <1>3, <2>0, <2>2 DEF Capture, CaseOK, ProcsOK, procVars, RowsOK, rowVars, AttemptBudget
  <2> QED BY <1>3, <2>1, <2>2 DEF Capture
<1>4. CASE Dispute \/ ReplyDispute \/ ReplyUnclear
  <2>1. RowsOK'
    BY <1>4, CancelledRows
       DEF Dispute, ReplyDispute, ReplyUnclear, DisputeCase, RowsOK, AttemptBudget
  <2>2. CaseOK' /\ ProcsOK'
    BY <1>4 DEF Dispute, ReplyDispute, ReplyUnclear, DisputeCase, CaseOK, ProcsOK, procVars,
                CaseStates
  <2> QED BY <2>1, <2>2
<1>5. CASE ReplyPromise
  <2> DEFINE p == [[a \in Actions |->
                      IF promise[a] = "PENDING" THEN "SUPERSEDED" ELSE promise[a]]
                     EXCEPT ![n + 1] = "PENDING"]
  <2>1. p \in [Actions -> PromiseStates]
    BY DEF RowsOK, PromiseStates
  <2>2. \A a \in Actions : p[a] # "NONE" => promise[a] # "NONE" \/ a = n + 1
    BY DEF RowsOK
  <2>3. InsertAction("FOLLOW_UP_PTP", "SCHEDULED", FALSE, p, Cancelled(status))
    BY <1>5 DEF ReplyPromise
  <2>4. RowsOK'
    <3> HIDE DEF p
    <3>1. "FOLLOW_UP_PTP" \in ActionTypes
      BY DEF ActionTypes
    <3>2. ASSUME NEW d \in BOOLEAN,
                 InsertAction("FOLLOW_UP_PTP", "SCHEDULED", d, p, Cancelled(status))
          PROVE  RowsOK'
      BY <2>1, <2>2, <3>1, <3>2, CancelledRows, InsertKeepsRows
    <3> QED BY <2>3, <3>2
  <2>5. CaseOK' /\ ProcsOK'
    BY <1>5 DEF ReplyPromise, CaseOK, ProcsOK, procVars, CaseStates
  <2> QED BY <2>4, <2>5
<1>6. ASSUME NEW a \in Actions, LinkPaid(a)
      PROVE  IInv'
  <2>1. link' \in [Actions -> LinkStates]
    BY <1>6 DEF LinkPaid, CaseOK, LinkStates
  <2>2. CASE Recover
    BY <1>6, <2>1, <2>2, RecoverKeepsRows DEF LinkPaid, CaseOK, ProcsOK, procVars, CaseStates
  <2>3. CASE UNCHANGED <<caseState, rowVars>>
    BY <1>6, <2>1, <2>3 DEF LinkPaid, CaseOK, ProcsOK, procVars, RowsOK, rowVars, AttemptBudget
  <2> QED BY <1>6, <2>2, <2>3 DEF LinkPaid
<1> QED BY <1>1, <1>2, <1>3, <1>4, <1>5, <1>6 DEF Request

\* A claim uses up an attempt, which the budget says is left.
LEMMA ClaimKeepsIInv == ASSUME IInv, NEW w \in Workers, NEW a \in Actions, Claim(w, a)
                        PROVE  IInv'
<1> USE DEF IInv
<1>1. CASE Eligible(a) /\ status' = [status EXCEPT ![a] = "EXECUTING"]
  <2>1. /\ attempts' = [attempts EXCEPT ![a] = @ + 1]
        /\ leased' = [leased EXCEPT ![a] = TRUE]
        /\ UNCHANGED <<n, type, due, promise>>
        /\ Start(w, a, "claimed")
        /\ attempts[a] < MaxAttempts
        /\ a <= n
    BY <1>1 DEF Claim, RowsOK, AttemptBudget, Actions, SetStatus
  <2>2. RowsOK'
    BY <1>1, <2>1, BoundsAssumption DEF RowsOK, AttemptBudget, Statuses, Actions
  <2>3. ProcsOK'
    BY <2>1, MovesKeepProcs DEF Steps, Procs
  <2>4. CaseOK'
    BY <2>1 DEF Claim, CaseOK, caseVars
  <2> QED BY <2>2, <2>3, <2>4
<1>2. CASE SetStatus(a, "CANCELLED") /\ UNCHANGED procVars
  <2>1. RowsOK' /\ n' = n
    BY <1>2, SetStatusKeepsRows DEF Claim
  <2> QED BY <1>2, <2>1 DEF Claim, CaseOK, ProcsOK, caseVars, procVars
<1> QED BY <1>1, <1>2 DEF Claim

\* Steps outside a transaction only move the process and the provider's link.
LEMMA ReadingKeepsIInv ==
    ASSUME IInv, NEW p \in Procs,
           \/ Perform(p) \/ CheckAmbiguous(p) \/ LookupUnanswered(p) \/ LookupAnswered(p)
           \/ FinalizeNothing(p) \/ Crash(p) \/ CheckExpired(p)
           \/ \E a \in Actions : ListExpired(p, a)
    PROVE  IInv'
<1> USE DEF IInv
<1>1. UNCHANGED <<caseVars, rowVars>>
  BY DEF Perform, CheckAmbiguous, LookupUnanswered, LookupAnswered, FinalizeNothing, Crash,
         CheckExpired, ListExpired
<1>2. link' \in [Actions -> LinkStates]
  BY DEF Perform, CheckAmbiguous, LookupUnanswered, LookupAnswered, FinalizeNothing, Crash,
         CheckExpired, ListExpired, CaseOK, LinkStates
<1>3. RowsOK' /\ CaseOK'
  BY <1>1, <1>2 DEF RowsOK, CaseOK, caseVars, rowVars, AttemptBudget
<1>4. \/ Finish(p)
      \/ \E step \in Steps : Goto(p, step) /\ pc[p] # "idle"
      \/ \E step \in Steps, a \in Actions : Start(p, a, step)
  BY DEF Perform, CheckAmbiguous, LookupUnanswered, LookupAnswered, FinalizeNothing, Crash,
         CheckExpired, ListExpired, Steps
<1> QED BY <1>3, <1>4, MovesKeepProcs

\* A finalizer works on a row it found EXECUTING and writes it once.
LEMMA FinalizeKeepsIInv == ASSUME IInv, NEW p \in Procs, Finalize(p), ~FinalizeNothing(p)
                           PROVE  IInv'
<1> USE DEF IInv
<1> DEFINE a == job[p]
<1>1. pc[p] # "idle" /\ a \in Actions /\ status[a] = "EXECUTING" /\ Finish(p)
  <2>1. pc[p] # "idle" /\ status[a] = "EXECUTING" /\ Finish(p)
    BY DEF Finalize, FinalizeCancelled, Finalizing, CompleteWait, CompleteFollowUp,
           CompleteExternal, RetryOrFail, RejectLink, RecoverClaim
  <2> QED BY <2>1 DEF ProcsOK
<1>2. ProcsOK'
  BY <1>1, MovesKeepProcs
<1>3. CASE FinalizeCancelled(p)
  <2>1. RowsOK' /\ n' = n
    BY <1>1, <1>3, SetStatusKeepsRows DEF FinalizeCancelled
  <2> QED BY <1>2, <1>3, <2>1 DEF FinalizeCancelled, CaseOK, caseVars
<1>4. CASE CompleteWait(p)
  <2> DEFINE done == [status EXCEPT ![a] = "EXECUTED"]
  <2>1. /\ done \in [Actions -> Statuses]
        /\ \A b \in Actions : done[b] = "NONE" <=> status[b] = "NONE"
        /\ \A b \in Actions : done[b] = "SCHEDULED" => attempts[b] < MaxAttempts
    BY <1>1 DEF RowsOK, Statuses, AttemptBudget
  <2>2. Decide(done, done)
    BY <1>4 DEF CompleteWait
  <2>3. RowsOK' /\ caseState' \in CaseStates \ {"NONE"}
    <3> HIDE DEF done
    <3> QED BY <2>1, <2>2, DecideKeepsRows
  <2> QED BY <1>2, <1>4, <2>3 DEF CompleteWait, CaseOK
<1>5. CASE CompleteFollowUp(p)
  <2>1. RowsOK' /\ n' = n
    BY <1>1, <1>5 DEF CompleteFollowUp, RowsOK, Statuses, PromiseStates, AttemptBudget
  <2> QED BY <1>2, <1>5, <2>1 DEF CompleteFollowUp, CaseOK, CaseStates
<1>6. CASE CompleteExternal(p)
  <2>1. RowsOK' /\ n' = n
    BY <1>1, <1>6, SetStatusKeepsRows DEF CompleteExternal
  <2> QED BY <1>1, <1>2, <1>6, <2>1 DEF CompleteExternal, CaseOK, CaseStates, Actions
<1>7. CASE RetryOrFail(p) \/ RejectLink(p) \/ RecoverClaim(p)
  <2>1. CASE FailToReview(a)
    <3>1. RowsOK' /\ n' = n /\ caseState' = "HUMAN_REVIEW"
      BY <1>1, <2>1, FailKeepsRows
    <3> QED BY <1>2, <1>7, <3>1 DEF RetryOrFail, RejectLink, RecoverClaim, CaseOK, CaseStates
  <2>2. CASE \E d \in BOOLEAN : Reschedule(a, d) /\ attempts[a] < MaxAttempts /\ UNCHANGED caseState
    <3>1. RowsOK' /\ n' = n
      BY <1>1, <2>2, RescheduleKeepsRows
    <3> QED BY <1>2, <1>7, <2>2, <3>1 DEF RetryOrFail, RejectLink, RecoverClaim, CaseOK
  <2>3. CASE SetStatus(a, "CANCELLED") /\ UNCHANGED caseState
    <3>1. RowsOK' /\ n' = n
      BY <1>1, <2>3, SetStatusKeepsRows
    <3> QED BY <1>2, <1>7, <2>3, <3>1 DEF RetryOrFail, RejectLink, RecoverClaim, CaseOK
  <2>4. CASE UNCHANGED <<caseState, rowVars>>
    BY <1>2, <1>7, <2>4 DEF RetryOrFail, RejectLink, RecoverClaim, CaseOK, RowsOK, rowVars,
                            AttemptBudget
  <2> QED BY <1>7, <2>1, <2>2, <2>3, <2>4 DEF RetryOrFail, RejectLink, RecoverClaim, AttemptLeft
<1> QED BY <1>3, <1>4, <1>5, <1>6, <1>7 DEF Finalize

LEMMA SurroundingsKeepIInv == ASSUME IInv, Surroundings PROVE IInv'
<1> USE DEF IInv
<1>1. PICK a \in Actions : FallsDue(a) \/ LeaseExpires(a) \/ ProviderStep(a)
  BY DEF Surroundings
<1>2. CASE FallsDue(a) \/ LeaseExpires(a)
  <2>1. RowsOK'
    BY <1>2 DEF FallsDue, LeaseExpires, RowsOK, AttemptBudget
  <2> QED BY <1>2, <2>1 DEF FallsDue, LeaseExpires, CaseOK, ProcsOK, caseVars, procVars
<1>3. CASE ProviderStep(a)
  <2>1. link' \in [Actions -> LinkStates]
    BY <1>3 DEF ProviderStep, CaseOK, LinkStates
  <2> QED BY <1>3, <2>1 DEF ProviderStep, CaseOK, ProcsOK, RowsOK, caseVars, rowVars, procVars,
                            AttemptBudget
<1> QED BY <1>1, <1>2, <1>3

LEMMA StepKeepsIInv == IInv /\ [Next]_vars => IInv'
<1> SUFFICES ASSUME IInv, [Next]_vars PROVE IInv'
  OBVIOUS
<1>1. CASE Request
  BY <1>1, RequestKeepsIInv
<1>2. CASE \E w \in Workers : WorkerStep(w)
  BY <1>2, ClaimKeepsIInv, ReadingKeepsIInv DEF WorkerStep, Procs
<1>3. CASE \E r \in Reconcilers : ReconcilerStep(r)
  BY <1>3, ReadingKeepsIInv DEF ReconcilerStep, Procs
<1>4. CASE \E p \in Procs : LookupUnanswered(p) \/ LookupAnswered(p) \/ Finalize(p) \/ Crash(p)
  BY <1>4, ReadingKeepsIInv, FinalizeKeepsIInv
<1>5. CASE Surroundings
  BY <1>5, SurroundingsKeepIInv
<1>6. CASE UNCHANGED vars
  BY <1>6 DEF vars, caseVars, rowVars, procVars, IInv, RowsOK, CaseOK, ProcsOK, AttemptBudget
<1> QED BY <1>1, <1>2, <1>3, <1>4, <1>5, <1>6 DEF Next, Step

THEOREM Invariance == Spec => []IInv
  BY InitIInv, StepKeepsIInv, PTL DEF Spec

-----------------------------------------------------------------------------
(* The theorems.                                                           *)

\* The variables keep their types and the action table its shape, however
\* requests, workers and reconcilers interleave.
THEOREM TypeCorrect == Spec => []TypeOK
<1>1. IInv => TypeOK
  BY DEF IInv, RowsOK, CaseOK, ProcsOK, TypeOK
<1> QED BY <1>1, Invariance, PTL

\* No mix of crashes, expired leases, lost answers and retries lets a worker
\* claim an action more than ACTION_MAX_ATTEMPTS times.
THEOREM BudgetHolds == Spec => []AttemptBudget
<1>1. IInv => AttemptBudget
  BY DEF IInv, RowsOK
<1> QED BY <1>1, Invariance, PTL

-----------------------------------------------------------------------------
(* Rows in use.                                                            *)

\* A row in use keeps its type.
LEMMA TypesStay ==
    ASSUME IInv, [Next]_vars, NEW a \in Actions, status[a] # "NONE"
    PROVE  type'[a] = type[a]
<1> USE DEF IInv, RowsOK
<1>1. ASSUME NEW t, NEW s, NEW d, NEW p, NEW st, InsertAction(t, s, d, p, st)
      PROVE  type'[a] = type[a]
  BY <1>1 DEF InsertAction, Actions
<1>2. ASSUME NEW seen, NEW st, Decide(seen, st) PROVE type'[a] = type[a]
  BY <1>1, <1>2 DEF Decide
<1>3. CASE Request
  BY <1>1, <1>2, <1>3 DEF Request, OpenCase, RepeatFailure, Capture, Dispute, ReplyDispute,
     ReplyUnclear, ReplyPromise, LinkPaid, Recover, DisputeCase, rowVars
<1>4. ASSUME NEW p \in Procs, Finalize(p) PROVE type'[a] = type[a]
  BY <1>2, <1>4 DEF Finalize, FinalizeNothing, FinalizeCancelled, CompleteWait, CompleteFollowUp,
     CompleteExternal, RetryOrFail, RejectLink, RecoverClaim, SetStatus, Reschedule, FailToReview,
     rowVars
<1>5. CASE ~Request /\ ~\E p \in Procs : Finalize(p)
  BY <1>5 DEF Next, Step, WorkerStep, Claim, SetStatus, Perform, CheckAmbiguous, ReconcilerStep,
     ListExpired, CheckExpired, LookupUnanswered, LookupAnswered, Surroundings, FallsDue,
     LeaseExpires, ProviderStep, Crash, vars, rowVars
<1> QED BY <1>3, <1>4, <1>5

-----------------------------------------------------------------------------
(* Hands off.  Two facts carry the argument: the only automatic work that  *)
(* is wanted in a hands-off case is the follow-up of its promise, and a    *)
(* row starts running only by a claim, which looks at that under the lock. *)

LEMMA OnlyFollowUpWanted ==
    ASSUME IInv, HandsOff, NEW a \in Actions, StillWanted(a)
    PROVE  /\ type[a] \notin WaitTypes \cup ExecutableTypes
           /\ caseState = "AWAITING_OUTCOME" \/ type[a] \in Instructions
  BY DEF HandsOff, StillWanted, WantedIn, TerminalStates, WaitTypes, ExecutableTypes,
         Instructions, ActionTypes, IInv, RowsOK

LEMMA DecideClaimsNothing ==
    ASSUME RowsOK, NEW seen, NEW st \in [Actions -> Statuses],
           \A a \in Actions : st[a] = "EXECUTING" => status[a] = "EXECUTING",
           Decide(seen, st)
    PROVE  \A a \in Actions : status'[a] = "EXECUTING" => status[a] = "EXECUTING"
  BY DEF Decide, InsertAction

\* A claim is the only step that makes a row run.
LEMMA OnlyClaimsRun ==
    ASSUME IInv, [Next]_vars, ~\E w \in Workers, a \in Actions : Claim(w, a)
    PROVE  \A a \in Actions : status'[a] = "EXECUTING" => status[a] = "EXECUTING"
<1> USE DEF IInv
<1> DEFINE NoNewRun == \A a \in Actions : status'[a] = "EXECUTING" => status[a] = "EXECUTING"
<1>1. CASE UNCHANGED status
  BY <1>1
<1>2. CASE status' = Cancelled(status)
  BY <1>2 DEF Cancelled
<1>3. ASSUME NEW a \in Actions, NEW s \in {"EXECUTED", "CANCELLED", "FAILED", "SCHEDULED"},
             status' = [status EXCEPT ![a] = s]
      PROVE  NoNewRun
  BY <1>3 DEF RowsOK
<1>4. ASSUME Request PROVE NoNewRun
  <2>1. CASE RepeatFailure
    <3>1. \A a \in Actions : Cancelled(status)[a] = "EXECUTING" => status[a] = "EXECUTING"
      BY DEF Cancelled
    <3>2. CASE Decide(status, Cancelled(status))
      BY <3>1, <3>2, CancelledRows, DecideClaimsNothing
    <3> QED BY <1>1, <2>1, <3>2 DEF RepeatFailure, rowVars
  <2>2. CASE OpenCase
    <3>1. CASE Recover
      BY <3>1, <1>2 DEF Recover
    <3>2. CASE Decide(status, status)
      BY <3>2, DecideClaimsNothing DEF RowsOK
    <3> QED BY <2>2, <3>1, <3>2 DEF OpenCase
  <2>3. CASE ReplyPromise
    BY <2>3 DEF ReplyPromise, InsertAction, Cancelled, RowsOK
  <2>4. CASE Capture \/ Dispute \/ ReplyDispute \/ ReplyUnclear \/ \E a \in Actions : LinkPaid(a)
    BY <2>4, <1>1, <1>2 DEF Capture, Dispute, ReplyDispute, ReplyUnclear, LinkPaid, Recover,
                            DisputeCase, rowVars
  <2> QED BY <1>4, <2>1, <2>2, <2>3, <2>4 DEF Request
<1>5. ASSUME NEW p \in Procs, Finalize(p) PROVE NoNewRun
  <2>1. CASE FinalizeNothing(p)
    BY <2>1, <1>1 DEF FinalizeNothing, rowVars
  <2>2. CASE ~FinalizeNothing(p)
    <3> DEFINE a == job[p]
    <3>1. a \in Actions
      BY <1>5, <2>2 DEF Finalize, FinalizeCancelled, Finalizing, CompleteWait, CompleteFollowUp,
           CompleteExternal, RetryOrFail, RejectLink, RecoverClaim, ProcsOK
    <3>2. CASE CompleteWait(p)
      <4> DEFINE done == [status EXCEPT ![a] = "EXECUTED"]
      <4>1. /\ done \in [Actions -> Statuses]
            /\ \A b \in Actions : done[b] = "EXECUTING" => status[b] = "EXECUTING"
        BY <3>1 DEF RowsOK, Statuses
      <4>2. Decide(done, done)
        BY <3>2 DEF CompleteWait
      <4> HIDE DEF done
      <4> QED BY <4>1, <4>2, DecideClaimsNothing
    <3>3. CASE ~CompleteWait(p)
      BY <1>1, <1>3, <1>5, <2>2, <3>1, <3>3
         DEF Finalize, FinalizeCancelled, CompleteFollowUp, CompleteExternal, RetryOrFail,
             RejectLink, RecoverClaim, SetStatus, Reschedule, FailToReview, rowVars
    <3> QED BY <3>2, <3>3
  <2> QED BY <2>1, <2>2
<1>6. ASSUME Surroundings PROVE NoNewRun
  BY <1>1, <1>6 DEF Surroundings, FallsDue, LeaseExpires, ProviderStep, rowVars
<1>7. ASSUME NEW w \in Workers, WorkerStep(w) PROVE NoNewRun
  BY <1>1, <1>7 DEF WorkerStep, Perform, CheckAmbiguous, rowVars
<1>8. ASSUME NEW p \in Procs,
             ReconcilerStep(p) \/ LookupUnanswered(p) \/ LookupAnswered(p) \/ Crash(p)
      PROVE  NoNewRun
  BY <1>1, <1>8 DEF ReconcilerStep, ListExpired, CheckExpired, LookupUnanswered, LookupAnswered,
                    Crash, rowVars
<1>9. CASE UNCHANGED vars
  BY <1>1, <1>9 DEF vars, rowVars
<1> QED BY <1>4, <1>5, <1>6, <1>7, <1>8, <1>9 DEF Next, Step, Procs

\* Whatever transaction runs in a hands-off case, the case stays hands off.
LEMMA HandsOffStays == ASSUME IInv, [Next]_vars, HandsOff PROVE HandsOff'
<1> USE DEF IInv
<1>1. CASE UNCHANGED <<caseState, promise>>
  BY <1>1 DEF HandsOff, HasPendingPromise
<1>2. CASE caseState' \in TerminalStates \cup {"HUMAN_REVIEW"}
  BY <1>2 DEF HandsOff
<1>3. ASSUME Request PROVE HandsOff'
  <2>1. CASE ReplyPromise
    <3>1. n + 1 \in Actions /\ promise'[n + 1] = "PENDING"
      BY <2>1, BoundsAssumption DEF ReplyPromise, InsertAction, HasRoom, Actions, RowsOK
    <3> QED BY <2>1, <3>1 DEF ReplyPromise, HandsOff, HasPendingPromise
  <2>2. CASE ~ReplyPromise
    <3>1. ~OpenCase /\ (RepeatFailure => UNCHANGED <<caseState, rowVars>>)
      BY DEF OpenCase, RepeatFailure, HandsOff, TerminalStates, Diagnosable
    <3> QED BY <1>1, <1>2, <1>3, <2>2, <3>1
         DEF Request, Capture, Dispute, ReplyDispute, ReplyUnclear, LinkPaid, Recover, DisputeCase,
             rowVars, TerminalStates
  <2> QED BY <2>1, <2>2
<1>4. ASSUME NEW p \in Procs, Finalize(p) PROVE HandsOff'
  <2>1. CASE CompleteWait(p) \/ CompleteExternal(p)
    <3>1. job[p] \in Actions
      BY <2>1 DEF CompleteWait, CompleteExternal, ProcsOK
    <3>2. CASE CompleteWait(p)
      BY <3>1, <3>2, OnlyFollowUpWanted DEF CompleteWait
    <3>3. CASE CompleteExternal(p)
      <4>1. caseState = "AWAITING_OUTCOME" \/ type[job[p]] \in Instructions
        BY <3>1, <3>3, OnlyFollowUpWanted DEF CompleteExternal
      <4>2. caseState = "AWAITING_OUTCOME"
        BY <3>1, <3>3, <4>1 DEF CompleteExternal, StillWanted, WantedIn, Instructions, WaitTypes,
                                ExecutableTypes, HandsOff, TerminalStates
      <4> QED BY <1>1, <3>3, <4>2 DEF CompleteExternal, SetStatus
    <3> QED BY <2>1, <3>2, <3>3
  <2>2. CASE ~CompleteWait(p) /\ ~CompleteExternal(p)
    BY <1>1, <1>2, <1>4, <2>2
       DEF Finalize, FinalizeNothing, FinalizeCancelled, CompleteFollowUp, RetryOrFail, RejectLink,
           RecoverClaim, SetStatus, Reschedule, FailToReview, caseVars, rowVars
  <2> QED BY <2>1, <2>2
<1>5. ASSUME NEW w \in Workers, WorkerStep(w) PROVE HandsOff'
  BY <1>1, <1>5 DEF WorkerStep, Claim, SetStatus, Perform, CheckAmbiguous, caseVars, rowVars
<1>6. ASSUME NEW p \in Procs,
             ReconcilerStep(p) \/ LookupUnanswered(p) \/ LookupAnswered(p) \/ Crash(p)
      PROVE  HandsOff'
  BY <1>1, <1>6 DEF ReconcilerStep, ListExpired, CheckExpired, LookupUnanswered, LookupAnswered,
                    Crash, caseVars, rowVars
<1>7. ASSUME Surroundings PROVE HandsOff'
  BY <1>1, <1>7 DEF Surroundings, FallsDue, LeaseExpires, ProviderStep, caseVars, rowVars
<1>8. CASE UNCHANGED vars
  BY <1>1, <1>8 DEF vars, caseVars, rowVars
<1> QED BY <1>3, <1>4, <1>5, <1>6, <1>7, <1>8 DEF Next, Step, Procs

\* Once a case is over, with a person, or waits for a promise, no interleaving
\* of late workers, reconcilers and requests automates it again.
THEOREM HandsOffIsForGood == Spec => HandsOffForGood
<1> DEFINE Good == HandsOff =>
             /\ HandsOff'
             /\ \A a \in Actions : type[a] \in ExecutableTypes /\ status[a] = "SCHEDULED"
                                       => status'[a] # "EXECUTING"
<1>1. IInv /\ [Next]_vars => Good
  <2> SUFFICES ASSUME IInv, [Next]_vars, HandsOff,
                      NEW a \in Actions, type[a] \in ExecutableTypes, status[a] = "SCHEDULED"
               PROVE  status'[a] # "EXECUTING"
    BY HandsOffStays
  <2>1. CASE \E w \in Workers, b \in Actions : Claim(w, b)
    <3>1. PICK w \in Workers, b \in Actions : Claim(w, b)
      BY <2>1
    <3>2. CASE a = b
      <4>1. ~Eligible(a)
        BY OnlyFollowUpWanted DEF Eligible
      <4> QED BY <3>1, <3>2, <4>1 DEF Claim, SetStatus, IInv, RowsOK
    <3>3. CASE a # b
      BY <3>1, <3>3 DEF Claim, SetStatus, IInv, RowsOK
    <3> QED BY <3>2, <3>3
  <2>2. CASE ~\E w \in Workers, b \in Actions : Claim(w, b)
    BY <2>2, OnlyClaimsRun
  <2> QED BY <2>1, <2>2
<1>2. IInv /\ [Next]_vars => [Good]_vars
  BY <1>1
<1> QED BY <1>2, Invariance, PTL DEF Spec, HandsOffForGood

\* Nothing is credited to a case that does not exist.
CaptureInv == CapturedMeansHandsOff /\ (caseState = "NONE" => captured # "here")

LEMMA CapturesStay ==
    ASSUME IInv, CaptureInv, [Next]_vars
    PROVE  CaptureInv'
<1>1. CASE OpenCase
  <2>1. captured = "unlinked" => HandsOff' /\ caseState' # "NONE"
    BY <1>1 DEF OpenCase, Recover, HandsOff, TerminalStates
  <2>2. captured # "unlinked" => captured' \notin {"unlinked", "here"}
    BY <1>1 DEF OpenCase, CaptureInv
  <2> QED BY <2>1, <2>2 DEF CaptureInv, CapturedMeansHandsOff
<1>2. CASE RepeatFailure
  <2>1. \/ captured' \in {"none", "missed"}
        \/ captured' = captured /\ captured \in {"unlinked", "here"} /\ HandsOff
        \/ captured' = captured /\ captured \notin {"unlinked", "here"}
    BY <1>2 DEF RepeatFailure, TakeOver, Diagnosable, CaptureInv, CapturedMeansHandsOff
  <2>2. HandsOff => HandsOff' /\ caseState' # "NONE"
    BY <1>2, HandsOffStays DEF HandsOff, TerminalStates
  <2> QED BY <2>1, <2>2 DEF CaptureInv, CapturedMeansHandsOff
<1>3. CASE Capture
  <2>1. caseState = "NONE" => caseState' = "NONE" /\ captured' # "here"
    BY <1>3 DEF Capture, RecordCapture, CaptureInv
  <2>2. caseState # "NONE" => caseState' \in TerminalStates
    BY <1>3 DEF Capture, Recover, TerminalStates
  <2> QED BY <2>1, <2>2 DEF CaptureInv, CapturedMeansHandsOff, HandsOff, TerminalStates
<1>4. CASE ~OpenCase /\ ~RepeatFailure /\ ~Capture
  <2>1. captured' = captured
    BY <1>4 DEF Next, Step, Request, Dispute, ReplyDispute, ReplyUnclear,
         ReplyPromise, LinkPaid, DisputeCase, WorkerStep, Claim, Perform, CheckAmbiguous,
         ReconcilerStep, ListExpired, CheckExpired, LookupUnanswered, LookupAnswered, Finalize,
         FinalizeNothing, FinalizeCancelled, CompleteWait, CompleteFollowUp, CompleteExternal,
         RetryOrFail, RejectLink, RecoverClaim, Surroundings, FallsDue, LeaseExpires,
         ProviderStep, Crash, vars, caseVars
  <2>2. CASE caseState = "NONE"
    <3>1. \A a \in Actions : status[a] = "NONE"
      BY <2>2 DEF IInv, CaseOK, RowsOK, Actions
    <3>2. \A p \in Procs : Finalize(p) => FinalizeNothing(p)
      BY <3>1 DEF Finalize, FinalizeNothing, FinalizeCancelled, Finalizing, CompleteWait,
           CompleteFollowUp, CompleteExternal, RetryOrFail, RejectLink, RecoverClaim, IInv, ProcsOK
    <3>3. caseState' \in {"NONE"} \cup TerminalStates
      BY <1>4, <2>2, <3>1, <3>2 DEF Next, Step, Request, Dispute, ReplyDispute,
           ReplyUnclear, ReplyPromise, LinkPaid, Recover, DisputeCase, Replyable, Diagnosable,
           TerminalStates, WorkerStep, Claim, Perform, CheckAmbiguous, ReconcilerStep, ListExpired,
           CheckExpired, LookupUnanswered, LookupAnswered, FinalizeNothing, Surroundings, FallsDue,
           LeaseExpires, ProviderStep, Crash, vars, caseVars
    <3> QED BY <2>1, <2>2, <3>3 DEF CaptureInv, CapturedMeansHandsOff, HandsOff
  <2>3. CASE caseState # "NONE"
    <3>1. HandsOff => HandsOff' /\ caseState' # "NONE"
      BY HandsOffStays DEF HandsOff, TerminalStates
    <3> QED BY <2>1, <2>3, <3>1 DEF CaptureInv, CapturedMeansHandsOff
  <2> QED BY <2>2, <2>3
<1> QED BY <1>1, <1>2, <1>3, <1>4

\* A capture that was stored without a case before its case was opened, or that
\* a lookup credits to the case at any time after, ends automation: no case of
\* such a capture is worked on, whatever its workers and requests do later.
THEOREM CapturedIsHandsOff == Spec => []CapturedMeansHandsOff
<1>1. Init => CaptureInv
  BY DEF Init, CaptureInv, CapturedMeansHandsOff
<1>2. IInv /\ CaptureInv /\ [Next]_vars => CaptureInv'
  BY CapturesStay
<1>3. CaptureInv => CapturedMeansHandsOff
  BY DEF CaptureInv
<1> QED BY <1>1, <1>2, <1>3, Invariance, PTL DEF Spec

-----------------------------------------------------------------------------
(* The runtime implements the action table: every transaction is one step  *)
(* of DurableActions, and every other step leaves the table alone.         *)

LEMMA InsertMaps ==
    ASSUME RowsOK, NEW t, NEW s \in {"SCHEDULED", "EXECUTED"}, NEW d, NEW p, NEW st,
           InsertAction(t, s, d, p, st)
    PROVE  Table!Insert(st)
<1>1. n + 1 \in Actions
  BY BoundsAssumption DEF InsertAction, HasRoom, Actions, RowsOK
<1>2. Table!IsNext(n + 1)
  BY <1>1 DEF Table!IsNext, RowsOK, Actions
<1>3. status' = [st EXCEPT ![n + 1] = s] /\ UNCHANGED attempts
  BY DEF InsertAction
<1> QED BY <1>1, <1>2, <1>3 DEF Table!Insert

LEMMA DecideMaps ==
    ASSUME RowsOK, NEW seen, NEW st, Decide(seen, st)
    PROVE  Table!Insert(st)
<1>1. PICK t \in PolicyChoices :
        InsertAction(t, IF t \in Instructions THEN "EXECUTED" ELSE "SCHEDULED",
                     t \notin WaitTypes, promise, st)
  BY DEF Decide
<1>2. CASE t \in Instructions
  BY <1>1, <1>2, InsertMaps
<1>3. CASE t \notin Instructions
  BY <1>1, <1>3, InsertMaps
<1> QED BY <1>2, <1>3

LEMMA CancelledMaps == Cancelled(status) = Table!WithoutScheduled
  BY DEF Cancelled, Table!WithoutScheduled

LEMMA RequestMaps ==
    ASSUME IInv, Request
    PROVE  Table!Next \/ UNCHANGED <<status, attempts>>
<1> USE DEF IInv
<1>1. ASSUME Recover \/ DisputeCase \/ ReplyUnclear PROVE Table!DropAll
  BY <1>1, CancelledMaps DEF Recover, DisputeCase, ReplyUnclear, Table!DropAll
<1>2. CASE OpenCase
  <2>1. CASE Decide(status, status)
    <3>1. status = Cancelled(status)
      BY <1>2 DEF OpenCase, Cancelled, RowsOK, CaseOK, Actions
    <3> QED BY <2>1, <3>1, DecideMaps, CancelledMaps DEF Table!Next, Table!Replace
  <2> QED BY <1>1, <1>2, <2>1 DEF OpenCase, Table!Next
<1>3. CASE RepeatFailure
  BY <1>3, DecideMaps, CancelledMaps DEF RepeatFailure, Table!Next, Table!Replace, rowVars
<1>4. CASE ReplyPromise
  <2>1. \E p : InsertAction("FOLLOW_UP_PTP", "SCHEDULED", FALSE, p, Cancelled(status))
    BY <1>4 DEF ReplyPromise
  <2>2. Table!Insert(Cancelled(status))
    <3>1. ASSUME NEW p, NEW d,
                 InsertAction("FOLLOW_UP_PTP", "SCHEDULED", d, p, Cancelled(status))
          PROVE  Table!Insert(Cancelled(status))
      BY <3>1, InsertMaps
    <3> QED BY <2>1, <3>1
  <2> QED BY <2>2, CancelledMaps DEF Table!Next, Table!Replace
<1>5. CASE Capture \/ Dispute \/ ReplyDispute \/ ReplyUnclear \/ \E a \in Actions : LinkPaid(a)
  BY <1>1, <1>5 DEF Capture, Dispute, ReplyDispute, LinkPaid, rowVars, Table!Next
<1> QED BY <1>2, <1>3, <1>4, <1>5 DEF Request

LEMMA ClaimMaps ==
    ASSUME IInv, NEW w \in Workers, NEW a \in Actions, Claim(w, a)
    PROVE  Table!Next
<1>1. CASE Eligible(a) /\ status' = [status EXCEPT ![a] = "EXECUTING"]
  <2>1. status[a] = "SCHEDULED" /\ attempts[a] < MaxAttempts
    BY DEF Claim, IInv, RowsOK, AttemptBudget
  <2>2. Table!Newest(a)
    BY <1>1 DEF Eligible, StillWanted, Superseded, LiveStatuses, Table!Newest, Table!Live
  <2>3. attempts' = [attempts EXCEPT ![a] = @ + 1]
    BY <1>1, <2>1 DEF Claim, SetStatus, IInv, RowsOK
  <2> QED BY <1>1, <2>1, <2>2, <2>3 DEF Table!Next, Table!Claim
<1>2. CASE SetStatus(a, "CANCELLED")
  BY <1>2 DEF Claim, SetStatus, Table!Next, Table!Drop
<1> QED BY <1>1, <1>2 DEF Claim

LEMMA FinalizeMaps ==
    ASSUME IInv, NEW p \in Procs, Finalize(p)
    PROVE  Table!Next \/ UNCHANGED <<status, attempts>>
<1> USE DEF IInv
<1> DEFINE a == job[p]
<1>1. CASE FinalizeNothing(p)
  BY <1>1 DEF FinalizeNothing, rowVars
<1>2. CASE ~FinalizeNothing(p)
  <2>1. a \in Actions /\ status[a] = "EXECUTING"
    BY <1>2 DEF Finalize, FinalizeCancelled, Finalizing, CompleteWait, CompleteFollowUp,
         CompleteExternal, RetryOrFail, RejectLink, RecoverClaim, ProcsOK
  <2>2. ASSUME StillWanted(a) PROVE Table!Newest(a)
    BY <2>2 DEF StillWanted, Superseded, LiveStatuses, Table!Newest, Table!Live
  <2>3. ASSUME SetStatus(a, "CANCELLED") PROVE Table!Next
    BY <2>1, <2>3 DEF SetStatus, Table!Next, Table!Drop
  <2>4. ASSUME FailToReview(a) PROVE Table!Next
    BY <2>1, <2>4 DEF FailToReview, SetStatus, Table!Next, Table!Fail
  <2>5. ASSUME NEW d, Reschedule(a, d), StillWanted(a), attempts[a] < MaxAttempts
        PROVE  Table!Next
    BY <2>1, <2>2, <2>5 DEF Reschedule, Table!Next, Table!PutBack
  <2>6. CASE CompleteWait(p)
    <3>1. Table!Insert([status EXCEPT ![a] = "EXECUTED"])
      BY <2>6, DecideMaps DEF CompleteWait
    <3>2. Table!Newest(a)
      BY <2>2, <2>6 DEF CompleteWait
    <3> QED BY <2>1, <3>1, <3>2 DEF Table!Next, Table!CompleteAndDecide
  <2>7. CASE CompleteFollowUp(p) \/ CompleteExternal(p)
    <3>1. /\ status' = [status EXCEPT ![a] = "EXECUTED"]
          /\ UNCHANGED attempts
          /\ Table!Newest(a)
      BY <2>2, <2>7 DEF CompleteFollowUp, CompleteExternal, SetStatus
    <3> QED BY <2>1, <3>1 DEF Table!Next, Table!Complete
  <2>8. CASE FinalizeCancelled(p) \/ RetryOrFail(p) \/ RejectLink(p) \/ RecoverClaim(p)
    <3>1. CASE FinalizeCancelled(p)
      BY <2>3, <3>1 DEF FinalizeCancelled
    <3>2. CASE RetryOrFail(p)
      BY <2>4, <2>5, <3>2 DEF RetryOrFail, AttemptLeft
    <3>3. CASE RejectLink(p)
      BY <2>4, <3>3 DEF RejectLink
    <3>4. CASE RecoverClaim(p)
      <4>1. CASE leased[a]
        BY <3>4, <4>1 DEF RecoverClaim, rowVars
      <4>2. CASE ~leased[a]
        BY <2>3, <2>4, <2>5, <3>4, <4>2 DEF RecoverClaim, Eligible, AttemptLeft
      <4> QED BY <4>1, <4>2
    <3> QED BY <2>8, <3>1, <3>2, <3>3, <3>4
  <2> QED BY <1>2, <2>6, <2>7, <2>8 DEF Finalize
<1> QED BY <1>1, <1>2

LEMMA StepMaps == IInv /\ [Next]_vars => [Table!Next]_<<status, attempts>>
<1> SUFFICES ASSUME IInv, [Next]_vars
             PROVE  Table!Next \/ UNCHANGED <<status, attempts>>
  OBVIOUS
<1>1. CASE Request
  BY <1>1, RequestMaps
<1>2. ASSUME NEW w \in Workers, WorkerStep(w)
      PROVE  Table!Next \/ UNCHANGED <<status, attempts>>
  BY <1>2, ClaimMaps DEF WorkerStep, Perform, CheckAmbiguous, rowVars
<1>3. ASSUME NEW p \in Procs, Finalize(p)
      PROVE  Table!Next \/ UNCHANGED <<status, attempts>>
  BY <1>3, FinalizeMaps
<1>4. ASSUME NEW p \in Procs,
             ReconcilerStep(p) \/ LookupUnanswered(p) \/ LookupAnswered(p) \/ Crash(p)
      PROVE  UNCHANGED <<status, attempts>>
  BY <1>4 DEF ReconcilerStep, ListExpired, CheckExpired, LookupUnanswered, LookupAnswered,
              Crash, rowVars
<1>5. CASE Surroundings
  BY <1>5 DEF Surroundings, FallsDue, LeaseExpires, ProviderStep, rowVars
<1>6. CASE UNCHANGED vars
  BY <1>6 DEF vars, rowVars
<1> QED BY <1>1, <1>2, <1>3, <1>4, <1>5, <1>6 DEF Next, Step, Procs

\* For the rest of the system the runtime is the action table of
\* DurableActions: one row runs at a time and in order, claims are bounded,
\* and a row that is over stays over.
THEOREM TableIsImplemented == Spec => ImplementsTable
<1>1. Init => Table!Init
  BY DEF Init, Table!Init
<1> QED BY <1>1, StepMaps, Invariance, PTL DEF Spec, ImplementsTable, Table!Spec

-----------------------------------------------------------------------------
(* No case is stuck.  WorkBehindState alone is not inductive: a process    *)
(* that decided to cancel its row without a lock writes that later, and    *)
(* must not take away the row the case lives on by then.  What saves it is *)
(* that the reasons to cancel last: hands off is for good, and a row, once *)
(* superseded, stays so while the case is automated, because the case      *)
(* always has a current row, newer than all superseded ones.               *)

Carries(w) ==
    IF caseState = "AWAITING_OUTCOME"
    THEN status[w] = "EXECUTED"
    ELSE status[w] \in {"SCHEDULED", "EXECUTING"} /\ WantedIn(type[w]) = caseState

HasCurrentRow ==
    caseState \in Diagnosable =>
        HandsOff \/ \E w \in Actions : Carries(w) /\ ~Superseded(w)

CancelIsJustified ==
    \A p \in Procs : pc[p] = "cancel" => HandsOff \/ Superseded(job[p])

\* What a step leaves behind: a current row newer than the superseded ones.
MovesOn ==
    \/ HandsOff'
    \/ caseState = "NONE" /\ caseState' = "NONE"
    \/ \E w \in Actions : /\ Carries(w)' /\ ~Superseded(w)'
                           /\ \A a \in Actions : Superseded(a) => a < w

\* The new row of a decision carries the case, or the decision ends it.
LEMMA DecisionMovesOn ==
    ASSUME RowsOK, NEW seen, NEW st \in [Actions -> Statuses],
           \A a \in Actions : st[a] = "NONE" <=> status[a] = "NONE",
           Decide(seen, st)
    PROVE  MovesOn
<1>1. PICK t \in PolicyChoices :
        /\ InsertAction(t, IF t \in Instructions THEN "EXECUTED" ELSE "SCHEDULED",
                        t \notin WaitTypes, promise, st)
        /\ caseState' = ActionToState(t)
  BY DEF Decide
<1>2. t \in Instructions \/ t \in WaitTypes \/ t \in ExecutableTypes
  BY PolicyAssumption DEF ActionTypes
<1>3. CASE t \in Instructions
  <2>1. caseState' \in {"HUMAN_REVIEW", "STOPPED"}
    BY <1>1, <1>3 DEF ActionToState, Instructions
  <2> QED BY <2>1 DEF MovesOn, HandsOff, TerminalStates
<1>4. CASE t \notin Instructions
  <2>1. PICK w \in Actions : w = n + 1
    BY <1>1, BoundsAssumption DEF InsertAction, HasRoom, Actions, RowsOK
  <2>2. status' = [st EXCEPT ![w] = "SCHEDULED"] /\ type' = [type EXCEPT ![w] = t]
    BY <1>1, <1>4, <2>1 DEF InsertAction
  <2>3. caseState' = WantedIn(t) /\ caseState' # "AWAITING_OUTCOME"
    BY <1>1, <1>2, <1>4 DEF ActionToState, WantedIn, Instructions, WaitTypes, ExecutableTypes
  <2>4. Carries(w)'
    <3>1. status'[w] = "SCHEDULED" /\ type'[w] = t
      BY <2>2 DEF RowsOK
    <3> QED BY <2>3, <3>1 DEF Carries
  <2>5. ~Superseded(w)'
    <3>1. \A b \in Actions : b > w => status'[b] = "NONE"
      BY <2>1, <2>2 DEF RowsOK, Actions
    <3> QED BY <3>1 DEF Superseded, LiveStatuses
  <2>6. \A a \in Actions : Superseded(a) => a < w
    BY <2>1 DEF Superseded, LiveStatuses, RowsOK, Actions
  <2> QED BY <2>4, <2>5, <2>6 DEF MovesOn
<1> QED BY <1>3, <1>4

\* A step that neither revives a row nor ends the current one.
LEMMA CurrentRowStays ==
    ASSUME IInv, HasCurrentRow, UNCHANGED <<caseState, type, promise>>,
           \A a \in Actions : status'[a] \in LiveStatuses => status[a] \in LiveStatuses,
           \A w \in Actions : Carries(w) /\ ~Superseded(w) /\ caseState \in Diagnosable
                                 => Carries(w)'
    PROVE  MovesOn
<1>1. CASE HandsOff
  BY <1>1 DEF MovesOn, HandsOff, HasPendingPromise
<1>2. CASE caseState = "NONE"
  BY <1>2 DEF MovesOn
<1>3. CASE caseState \in Diagnosable /\ ~HandsOff
  <2>1. PICK w \in Actions : Carries(w) /\ ~Superseded(w)
    BY <1>3 DEF HasCurrentRow
  <2>2. Carries(w)' /\ ~Superseded(w)'
    BY <1>3, <2>1 DEF Superseded
  <2>3. status[w] \in LiveStatuses
    BY <2>1 DEF Carries, LiveStatuses
  <2>4. ASSUME NEW a \in Actions, Superseded(a) PROVE a < w
    BY <2>1, <2>3, <2>4 DEF Superseded, Actions
  <2> QED BY <2>2, <2>4 DEF MovesOn
<1> QED BY <1>1, <1>2, <1>3 DEF IInv, CaseOK, CaseStates, HandsOff, Diagnosable, TerminalStates

LEMMA StutterMovesOn ==
    ASSUME IInv, HasCurrentRow, UNCHANGED <<caseState, type, promise, status>>
    PROVE  MovesOn
  BY CurrentRowStays DEF Carries

\* Writing a row that is not the current one, or keeping the current one alive.
LEMMA WriteMovesOn ==
    ASSUME IInv, HasCurrentRow, UNCHANGED <<caseState, type, promise>>,
           NEW a \in Actions, status[a] \in {"SCHEDULED", "EXECUTING"},
           NEW s \in Statuses, status' = [status EXCEPT ![a] = s],
           \/ s \in {"SCHEDULED", "EXECUTING"}
           \/ HandsOff \/ ~StillWanted(a) \/ caseState = "AWAITING_OUTCOME"
    PROVE  MovesOn
<1>1. CASE HandsOff
  BY <1>1 DEF MovesOn, HandsOff, HasPendingPromise
<1>2. CASE ~HandsOff
  <2>1. \A b \in Actions : status'[b] \in LiveStatuses => status[b] \in LiveStatuses
    BY DEF LiveStatuses, IInv, RowsOK
  <2>2. ASSUME NEW w \in Actions, Carries(w), ~Superseded(w), caseState \in Diagnosable
        PROVE  Carries(w)'
    <3>1. CASE w # a
      BY <2>2, <3>1 DEF Carries, IInv, RowsOK
    <3>2. CASE w = a
      <4>1. WantedIn(type[a]) = caseState /\ caseState # "AWAITING_OUTCOME"
        BY <2>2, <3>2 DEF Carries
      <4>2. s \in {"SCHEDULED", "EXECUTING"}
        BY <1>2, <2>2, <3>2, <4>1 DEF StillWanted
      <4> QED BY <3>2, <4>1, <4>2 DEF Carries, IInv, RowsOK
    <3> QED BY <3>1, <3>2
  <2> QED BY <2>1, <2>2, CurrentRowStays
<1> QED BY <1>1, <1>2

LEMMA RequestMovesOn ==
    ASSUME IInv, HasCurrentRow, Request
    PROVE  MovesOn
<1> USE DEF IInv
<1>1. ASSUME Recover \/ DisputeCase \/ ReplyUnclear PROVE MovesOn
  BY <1>1 DEF Recover, DisputeCase, ReplyUnclear, MovesOn, HandsOff, TerminalStates
<1>2. CASE OpenCase
  <2>1. CASE Decide(status, status)
    BY <2>1, DecisionMovesOn DEF RowsOK
  <2> QED BY <1>1, <1>2, <2>1 DEF OpenCase
<1>3. CASE RepeatFailure
  <2>1. CASE Decide(status, Cancelled(status))
    BY <2>1, CancelledRows, DecisionMovesOn
  <2>2. CASE UNCHANGED <<caseState, rowVars>>
    BY <2>2, StutterMovesOn DEF rowVars
  <2> QED BY <1>3, <2>1, <2>2 DEF RepeatFailure
<1>4. CASE ReplyPromise
  <2>2. n + 1 \in Actions /\ promise' = [[a \in Actions |->
             IF promise[a] = "PENDING" THEN "SUPERSEDED" ELSE promise[a]] EXCEPT ![n + 1] = "PENDING"]
    BY <1>4, BoundsAssumption DEF ReplyPromise, InsertAction, HasRoom, Actions, RowsOK
  <2>3. \E a \in Actions : promise'[a] = "PENDING"
    BY <2>2
  <2> QED BY <1>4, <2>3 DEF ReplyPromise, MovesOn, HandsOff, HasPendingPromise
<1>5. CASE Capture \/ Dispute \/ ReplyDispute \/ ReplyUnclear \/ \E a \in Actions : LinkPaid(a)
  BY <1>1, <1>5, StutterMovesOn DEF Capture, Dispute, ReplyDispute, LinkPaid, rowVars
<1> QED BY <1>2, <1>3, <1>4, <1>5 DEF Request

LEMMA ClaimMovesOn ==
    ASSUME IInv, HasCurrentRow, NEW w \in Workers, NEW a \in Actions, Claim(w, a)
    PROVE  MovesOn
<1>1. UNCHANGED <<caseState, type, promise>> /\ status[a] = "SCHEDULED"
  BY DEF Claim, SetStatus, caseVars
<1>2. CASE status' = [status EXCEPT ![a] = "EXECUTING"]
  BY <1>1, <1>2, WriteMovesOn DEF Statuses
<1>3. CASE ~Eligible(a) /\ status' = [status EXCEPT ![a] = "CANCELLED"]
  <2>1. ~StillWanted(a) \/ caseState = "AWAITING_OUTCOME"
    BY <1>3 DEF Eligible, StillWanted, WantedIn, WaitTypes, ExecutableTypes
  <2> QED BY <1>1, <1>3, <2>1, WriteMovesOn DEF Statuses
<1> QED BY <1>2, <1>3 DEF Claim, SetStatus

LEMMA FinalizeMovesOn ==
    ASSUME IInv, HasCurrentRow, CancelIsJustified, NEW p \in Procs, Finalize(p)
    PROVE  MovesOn
<1> USE DEF IInv
<1> DEFINE a == job[p]
<1>1. CASE FinalizeNothing(p)
  BY <1>1, StutterMovesOn DEF FinalizeNothing, caseVars, rowVars
<1>2. CASE ~FinalizeNothing(p)
  <2>1. a \in Actions /\ status[a] = "EXECUTING"
    BY <1>2 DEF Finalize, FinalizeCancelled, Finalizing, CompleteWait, CompleteFollowUp,
         CompleteExternal, RetryOrFail, RejectLink, RecoverClaim, ProcsOK
  <2>2. ASSUME FailToReview(a) PROVE MovesOn
    BY <2>2 DEF FailToReview, MovesOn, HandsOff
  <2>3. ASSUME NEW d, Reschedule(a, d), UNCHANGED caseState PROVE MovesOn
    BY <2>1, <2>3, WriteMovesOn DEF Reschedule, Statuses
  <2>4. CASE FinalizeCancelled(p)
    <3>1. HandsOff \/ ~StillWanted(a)
      BY <2>1, <2>4 DEF FinalizeCancelled, CancelIsJustified, StillWanted
    <3> QED BY <2>1, <2>4, <3>1, WriteMovesOn DEF FinalizeCancelled, SetStatus, Statuses, caseVars
  <2>5. CASE CompleteWait(p)
    <3> DEFINE done == [status EXCEPT ![a] = "EXECUTED"]
    <3>1. /\ done \in [Actions -> Statuses]
          /\ \A b \in Actions : done[b] = "NONE" <=> status[b] = "NONE"
      BY <2>1 DEF RowsOK, Statuses
    <3>2. Decide(done, done)
      BY <2>5 DEF CompleteWait
    <3> HIDE DEF done
    <3> QED BY <3>1, <3>2, DecisionMovesOn
  <2>6. CASE CompleteFollowUp(p)
    <3>1. CASE promise[a] = "PENDING"
      BY <2>6, <3>1 DEF CompleteFollowUp, MovesOn, HandsOff
    <3>2. CASE promise[a] # "PENDING"
      <4>1. UNCHANGED <<caseState, type, promise>> /\ status' = [status EXCEPT ![a] = "EXECUTED"]
        BY <2>6, <3>2 DEF CompleteFollowUp
      <4>2. caseState = "AWAITING_OUTCOME"
        BY <2>6 DEF CompleteFollowUp, StillWanted, WantedIn, WaitTypes, ExecutableTypes
      <4> QED BY <2>1, <4>1, <4>2, WriteMovesOn DEF Statuses
    <3> QED BY <3>1, <3>2
  <2>7. CASE CompleteExternal(p)
    <3>1. status' = [status EXCEPT ![a] = "EXECUTED"] /\ caseState' = "AWAITING_OUTCOME"
      BY <2>7 DEF CompleteExternal, SetStatus
    <3>2. ~Superseded(a)
      BY <2>7 DEF CompleteExternal, StillWanted
    <3>3. PICK w \in Actions : w = a
      BY <2>1
    <3>4. Carries(w)' /\ ~Superseded(w)'
      BY <3>1, <3>2, <3>3 DEF Carries, Superseded, RowsOK, Actions
    <3>5. ASSUME NEW b \in Actions, Superseded(b) PROVE b < w
      BY <2>1, <3>2, <3>3, <3>5 DEF Superseded, LiveStatuses, Actions
    <3> QED BY <3>4, <3>5 DEF MovesOn
  <2>8. CASE RetryOrFail(p) \/ RejectLink(p)
    BY <2>2, <2>3, <2>8 DEF RetryOrFail, RejectLink
  <2>9. CASE RecoverClaim(p)
    <3>1. CASE leased[a]
      BY <2>9, <3>1, StutterMovesOn DEF RecoverClaim, rowVars
    <3>2. CASE ~leased[a] /\ Eligible(a)
      BY <2>2, <2>3, <2>9, <3>2 DEF RecoverClaim
    <3>3. CASE ~leased[a] /\ ~Eligible(a)
      <4>1. SetStatus(a, "CANCELLED") /\ UNCHANGED caseState
        BY <2>9, <3>3 DEF RecoverClaim
      <4>2. ~StillWanted(a) \/ caseState = "AWAITING_OUTCOME"
        BY <3>3 DEF Eligible, StillWanted, WantedIn, WaitTypes, ExecutableTypes
      <4> QED BY <2>1, <4>1, <4>2, WriteMovesOn DEF SetStatus, Statuses
    <3> QED BY <3>1, <3>2, <3>3
  <2> QED BY <1>2, <2>4, <2>5, <2>6, <2>7, <2>8, <2>9 DEF Finalize
<1> QED BY <1>1, <1>2

LEMMA StepMovesOn ==
    ASSUME IInv, HasCurrentRow, CancelIsJustified, [Next]_vars
    PROVE  MovesOn
<1>1. CASE Request
  BY <1>1, RequestMovesOn
<1>2. ASSUME NEW w \in Workers, WorkerStep(w) PROVE MovesOn
  BY <1>2, ClaimMovesOn, StutterMovesOn DEF WorkerStep, Perform, CheckAmbiguous, caseVars, rowVars
<1>3. ASSUME NEW p \in Procs, Finalize(p) PROVE MovesOn
  BY <1>3, FinalizeMovesOn
<1>4. ASSUME NEW p \in Procs,
             ReconcilerStep(p) \/ LookupUnanswered(p) \/ LookupAnswered(p) \/ Crash(p)
      PROVE  MovesOn
  BY <1>4, StutterMovesOn DEF ReconcilerStep, ListExpired, CheckExpired, LookupUnanswered,
                              LookupAnswered, Crash, caseVars, rowVars
<1>5. CASE Surroundings
  BY <1>5, StutterMovesOn DEF Surroundings, FallsDue, LeaseExpires, ProviderStep, caseVars, rowVars
<1>6. CASE UNCHANGED vars
  BY <1>6, StutterMovesOn DEF vars, caseVars, rowVars
<1> QED BY <1>1, <1>2, <1>3, <1>4, <1>5, <1>6 DEF Next, Step, Procs

\* A process gets to "cancel" only by reading that the case is over or that
\* its row is superseded.
LEMMA WhoCancels ==
    ASSUME IInv, [Next]_vars, NEW p \in Procs, pc'[p] = "cancel"
    PROVE  \/ pc[p] = "cancel" /\ job'[p] = job[p]
           \/ /\ caseState \in TerminalStates \/ Superseded(job[p])
              /\ UNCHANGED <<caseVars, rowVars>> /\ job'[p] = job[p]
<1> USE DEF IInv, ProcsOK
<1>1. CASE UNCHANGED procVars
  BY <1>1 DEF procVars
<1>2. ASSUME NEW q \in Procs,
             \/ Finish(q)
             \/ \E step \in Steps \ {"cancel"} :
                   Goto(q, step) \/ \E a \in Actions : Start(q, a, step)
      PROVE  pc[p] = "cancel" /\ job'[p] = job[p]
  BY <1>2 DEF Finish, Goto, Start
<1>3. CASE Request \/ Surroundings \/ UNCHANGED vars
  BY <1>1, <1>3 DEF Request, OpenCase, RepeatFailure, Capture, Dispute, ReplyDispute, ReplyUnclear,
       ReplyPromise, LinkPaid, DisputeCase, Surroundings, FallsDue, LeaseExpires, ProviderStep, vars
<1>4. ASSUME NEW w \in Procs, NEW a \in Actions, Claim(w, a) \/ ListExpired(w, a) PROVE
         pc[p] = "cancel" /\ job'[p] = job[p]
  BY <1>1, <1>2, <1>4 DEF Claim, ListExpired, Steps, procVars
<1>5. ASSUME NEW q \in Procs, CheckAmbiguous(q) \/ CheckExpired(q)
      PROVE  \/ pc[p] = "cancel" /\ job'[p] = job[p]
             \/ /\ caseState \in TerminalStates \/ Superseded(job[p])
                /\ UNCHANGED <<caseVars, rowVars>> /\ job'[p] = job[p]
  BY <1>5 DEF CheckAmbiguous, CheckExpired, Goto, Finish
<1>6. ASSUME NEW q \in Procs,
             Perform(q) \/ LookupUnanswered(q) \/ LookupAnswered(q) \/ Finalize(q) \/ Crash(q)
      PROVE  pc[p] = "cancel" /\ job'[p] = job[p]
  BY <1>2, <1>6 DEF Perform, LookupUnanswered, LookupAnswered, Finalize, FinalizeNothing,
       FinalizeCancelled, CompleteWait, CompleteFollowUp, CompleteExternal, RetryOrFail, RejectLink,
       RecoverClaim, Crash, Steps
<1> QED BY <1>3, <1>4, <1>5, <1>6 DEF Next, Step, WorkerStep, ReconcilerStep, Procs

WInv == HasCurrentRow /\ CancelIsJustified

LEMMA WorkInvariance == Spec => []WInv
<1> USE DEF WInv
<1>1. Init => WInv
  BY DEF Init, HasCurrentRow, CancelIsJustified, Diagnosable
<1>2. IInv /\ WInv /\ [Next]_vars => WInv'
  <2> SUFFICES ASSUME IInv, WInv, [Next]_vars PROVE WInv'
    OBVIOUS
  <2>1. MovesOn
    BY StepMovesOn
  <2>2. HasCurrentRow'
    BY <2>1 DEF MovesOn, HasCurrentRow, Diagnosable
  <2>3. ASSUME NEW a \in Actions, Superseded(a) PROVE HandsOff' \/ Superseded(a)'
    <3>1. caseState # "NONE"
      BY <2>3 DEF Superseded, LiveStatuses, IInv, CaseOK, RowsOK, Actions
    <3>2. ASSUME NEW w \in Actions, Carries(w)', a < w PROVE Superseded(a)'
      BY <3>2 DEF Superseded, Carries, LiveStatuses
    <3> QED BY <2>1, <2>3, <3>1, <3>2 DEF MovesOn
  <2>4. CancelIsJustified'
    <3> SUFFICES ASSUME NEW p \in Procs, pc'[p] = "cancel"
                 PROVE  HandsOff' \/ Superseded(job[p])' 
      BY DEF CancelIsJustified
    <3>1. CASE pc[p] = "cancel" /\ job'[p] = job[p]
      <4>1. job[p] \in Actions
        BY <3>1 DEF IInv, ProcsOK
      <4>2. HandsOff \/ Superseded(job[p])
        BY <3>1 DEF CancelIsJustified
      <4>3. PICK a \in Actions : a = job[p]
        BY <4>1
      <4> QED BY <2>3, <3>1, <4>2, <4>3, HandsOffStays DEF Superseded
    <3>2. CASE /\ caseState \in TerminalStates \/ Superseded(job[p])
               /\ UNCHANGED <<caseVars, rowVars>> /\ job'[p] = job[p]
      BY <3>2 DEF Superseded, HandsOff, caseVars, rowVars
    <3> QED BY <3>1, <3>2, WhoCancels
  <2> QED BY <2>2, <2>4
<1> QED BY <1>1, <1>2, Invariance, PTL DEF Spec

\* A case that says automatic work is under way has a row that does it: no
\* interleaving of webhooks, replies, workers and reconcilers strands it.
THEOREM NoCaseIsStuck == Spec => []WorkBehindState
<1>1. WInv => WorkBehindState
  BY DEF WInv, HasCurrentRow, WorkBehindState, Carries, HandsOff, Diagnosable, TerminalStates
<1> QED BY <1>1, WorkInvariance, PTL

-----------------------------------------------------------------------------
(***************************************************************************)
(* The contact budget.  The guardrail counts the contact rows that are     *)
(* SCHEDULED or EXECUTED, so a contact that is running when the query is   *)
(* made is overlooked.  The budget holds nevertheless: the decision        *)
(* inserts a newer row, and a running row that is not wanted any more will *)
(* never be wanted again.                                                  *)
(***************************************************************************)
\* The contacts that have completed or still can.
Counted == {a \in Actions : /\ type[a] \in ExecutableTypes
                            /\ \/ status[a] \in {"SCHEDULED", "EXECUTED"}
                               \/ status[a] = "EXECUTING" /\ StillWanted(a)}

CountedInBudget == Cardinality(Counted) <= MaxContacts

\* What the guardrail's query counts.
Seen(st) == {a \in Actions : type[a] \in ExecutableTypes /\ st[a] \in {"SCHEDULED", "EXECUTED"}}

LEMMA RowSetsAreFinite ==
    /\ IsFiniteSet(Counted) /\ Cardinality(Counted) \in Nat
    /\ \A st : IsFiniteSet(Seen(st)) /\ Cardinality(Seen(st)) \in Nat
<1>1. IsFiniteSet(Actions)
  BY FS_Interval, BoundsAssumption DEF Actions
<1>2. Counted \in SUBSET Actions /\ \A st : Seen(st) \in SUBSET Actions
  BY DEF Counted, Seen
<1>3. IsFiniteSet(Counted) /\ \A st : IsFiniteSet(Seen(st))
  BY <1>1, <1>2, FS_Subset
<1> QED BY <1>3, FS_CardinalityType

-----------------------------------------------------------------------------
(* Inserts.                                                                *)

\* Whoever inserts takes every older running row out of the count.
LEMMA InsertCounts ==
    ASSUME RowsOK, NEW t \in ActionTypes, NEW s \in {"SCHEDULED", "EXECUTED"}, NEW d, NEW p,
           NEW st \in [Actions -> Statuses], InsertAction(t, s, d, p, st),
           \A b \in Actions : st[b] = "NONE" <=> status[b] = "NONE"
    PROVE  Counted' \subseteq Seen(st) \cup (IF t \in ExecutableTypes THEN {n + 1} ELSE {})
<1>1. PICK w \in Actions : w = n + 1
  BY BoundsAssumption DEF InsertAction, HasRoom, Actions, RowsOK
<1>2. /\ status' = [st EXCEPT ![w] = s] /\ type' = [type EXCEPT ![w] = t]
      /\ status'[w] \in LiveStatuses /\ type'[w] = t
  BY <1>1 DEF InsertAction, RowsOK, LiveStatuses
<1>3. ASSUME NEW b \in Actions, b # w, b \in Counted'
      PROVE  b \in Seen(st)
  <2>1. status'[b] = st[b] /\ type'[b] = type[b]
    BY <1>2, <1>3 DEF RowsOK
  <2>2. st[b] # "NONE"
    BY <1>3, <2>1 DEF Counted
  <2>3. b < w
    BY <1>1, <1>3, <2>2 DEF RowsOK, Actions
  <2>4. ~StillWanted(b)'
    BY <1>2, <2>3 DEF StillWanted, Superseded
  <2> QED BY <1>3, <2>1, <2>4 DEF Counted, Seen
<1>4. w \in Counted' => t \in ExecutableTypes
  BY <1>2 DEF Counted
<1> QED BY <1>1, <1>3, <1>4 DEF Counted

\* The guardrail saw what the new row is counted with (_check_action_allowed).
LEMMA DecideCounts ==
    ASSUME RowsOK, CountedInBudget, NEW seen, NEW st \in [Actions -> Statuses], Decide(seen, st),
           \A b \in Actions : st[b] = "NONE" <=> status[b] = "NONE",
           Seen(st) \subseteq Seen(seen), Seen(seen) \subseteq Counted
    PROVE  CountedInBudget'
<1>1. PICK t \in PolicyChoices :
        /\ Allowed(t, seen)
        /\ InsertAction(t, IF t \in Instructions THEN "EXECUTED" ELSE "SCHEDULED",
                        t \notin WaitTypes, promise, st)
  BY DEF Decide
<1>2. Counted' \subseteq Seen(st) \cup (IF t \in ExecutableTypes THEN {n + 1} ELSE {})
  BY <1>1, PolicyAssumption, InsertCounts
<1>3. CASE t \in ExecutableTypes
  <2>1. Cardinality(Seen(seen)) < MaxContacts
    BY <1>1, <1>3 DEF Allowed, ContactsSeen, Seen
  <2>2. IsFiniteSet(Seen(seen) \cup {n + 1}) /\ Cardinality(Seen(seen) \cup {n + 1}) <= MaxContacts
    <3>1. IsFiniteSet(Seen(seen)) /\ Cardinality(Seen(seen)) \in Nat
      BY RowSetsAreFinite
    <3>2. /\ IsFiniteSet(Seen(seen) \cup {n + 1})
          /\ Cardinality(Seen(seen) \cup {n + 1})
                \in {Cardinality(Seen(seen)), Cardinality(Seen(seen)) + 1}
      <4>1. ASSUME NEW S, IsFiniteSet(S), NEW x
            PROVE  /\ IsFiniteSet(S \cup {x})
                   /\ Cardinality(S \cup {x}) \in {Cardinality(S), Cardinality(S) + 1}
        BY <4>1, FS_AddElement
      <4> QED BY <3>1, <4>1
    <3>3. Cardinality(Seen(seen) \cup {n + 1}) \in Nat
      BY <3>2, FS_CardinalityType
    <3> QED BY <2>1, <3>1, <3>2, <3>3, BoundsAssumption
  <2>3. Counted' \in SUBSET (Seen(seen) \cup {n + 1})
    BY <1>2, <1>3
  <2>4. Cardinality(Counted') <= Cardinality(Seen(seen) \cup {n + 1})
    BY <2>2, <2>3, FS_Subset
  <2> QED BY <2>2, <2>3, <2>4, BoundsAssumption, FS_Subset, FS_CardinalityType DEF CountedInBudget
<1>4. CASE t \notin ExecutableTypes
  <2>1. Counted' \in SUBSET Counted
    BY <1>2, <1>4
  <2>2. IsFiniteSet(Counted') /\ Cardinality(Counted') <= Cardinality(Counted)
    BY <2>1, RowSetsAreFinite, FS_Subset
  <2> QED BY <2>2, RowSetsAreFinite, BoundsAssumption, FS_CardinalityType DEF CountedInBudget
<1> QED BY <1>3, <1>4

-----------------------------------------------------------------------------
(* The other steps.                                                        *)

\* A running contact the case does not want will not be wanted later.
LEMMA UnwantedStaysUnwanted ==
    ASSUME IInv, WInv, [Next]_vars, NEW a \in Actions, type[a] \in ExecutableTypes,
           status[a] = "EXECUTING", ~StillWanted(a)
    PROVE  ~StillWanted(a)'
<1>1. type'[a] = type[a]
  BY TypesStay
<1>2. ASSUME HandsOff' PROVE ~StillWanted(a)'
  BY <1>1, <1>2 DEF HandsOff, StillWanted, WantedIn, TerminalStates, WaitTypes, ExecutableTypes
<1>3. CASE HandsOff
  BY <1>2, <1>3, HandsOffStays
<1>4. CASE ~HandsOff
  <2>1. caseState \in Diagnosable
    BY <1>4 DEF IInv, CaseOK, RowsOK, CaseStates, HandsOff, Diagnosable, TerminalStates, Actions
  <2>2. PICK w \in Actions : Carries(w) /\ ~Superseded(w)
    BY <1>4, <2>1 DEF WInv, HasCurrentRow
  <2>3. w # a
    BY <2>2 DEF Carries, StillWanted
  <2>4. Superseded(a)
    BY <2>2, <2>3 DEF Carries, Superseded, LiveStatuses, Actions
  <2>5. MovesOn
    BY StepMovesOn DEF WInv
  <2>6. ASSUME NEW v \in Actions, Carries(v)', a < v PROVE ~StillWanted(a)'
    BY <2>6 DEF Carries, StillWanted, Superseded, LiveStatuses
  <2> QED BY <1>2, <2>1, <2>4, <2>5, <2>6 DEF MovesOn, Diagnosable
<1> QED BY <1>3, <1>4

LEMMA FewerCounted ==
    ASSUME CountedInBudget, Counted' \subseteq Counted
    PROVE  CountedInBudget'
<1>1. IsFiniteSet(Counted') /\ Cardinality(Counted') <= Cardinality(Counted)
  BY RowSetsAreFinite, FS_Subset
<1> QED BY <1>1, RowSetsAreFinite, BoundsAssumption, FS_CardinalityType DEF CountedInBudget

\* A step that inserts nothing brings no row back into the count, unless it
\* puts back or completes a row that is not wanted.
LEMMA NothingComesBack ==
    ASSUME IInv, WInv, [Next]_vars, CountedInBudget,
           \A b \in Actions : status'[b] # "NONE" => status[b] # "NONE",
           \A b \in Actions : status'[b] = "EXECUTING" => status[b] \in {"SCHEDULED", "EXECUTING"},
           \A b \in Actions : status'[b] \in {"SCHEDULED", "EXECUTED"} =>
               \/ status[b] \in {"SCHEDULED", "EXECUTED"}
               \/ status[b] = "EXECUTING" /\ (StillWanted(b) \/ type[b] \notin ExecutableTypes)
    PROVE  CountedInBudget'
<1>1. ASSUME NEW b \in Actions, b \in Counted' PROVE b \in Counted
  <2>1. type[b] \in ExecutableTypes
    BY <1>1, TypesStay DEF Counted
  <2>2. CASE status'[b] \in {"SCHEDULED", "EXECUTED"}
    BY <2>1, <2>2 DEF Counted
  <2>3. CASE status'[b] = "EXECUTING" /\ StillWanted(b)'
    BY <2>1, <2>3, UnwantedStaysUnwanted DEF Counted
  <2> QED BY <1>1, <2>2, <2>3 DEF Counted
<1>2. Counted' \subseteq Counted
  BY <1>1 DEF Counted
<1> QED BY <1>2, FewerCounted

LEMMA RequestKeepsCount ==
    ASSUME IInv, WInv, CountedInBudget, Request, [Next]_vars
    PROVE  CountedInBudget'
<1> USE DEF IInv
<1>1. Seen(status) \subseteq Counted /\ Seen(Cancelled(status)) \subseteq Seen(status)
  BY DEF Seen, Counted, Cancelled
<1>2. CASE UNCHANGED status \/ status' = Cancelled(status)
  BY <1>2, NothingComesBack DEF Cancelled
<1>3. CASE OpenCase
  <2>1. CASE Decide(status, status)
    BY <1>1, <2>1, DecideCounts DEF RowsOK
  <2> QED BY <1>2, <1>3, <2>1 DEF OpenCase, Recover
<1>4. CASE RepeatFailure
  <2>1. CASE Decide(status, Cancelled(status))
    BY <1>1, <2>1, CancelledRows, DecideCounts
  <2> QED BY <1>2, <1>4, <2>1 DEF RepeatFailure, rowVars
<1>5. CASE ReplyPromise
  <2>1. PICK p : InsertAction("FOLLOW_UP_PTP", "SCHEDULED", FALSE, p, Cancelled(status))
    BY <1>5 DEF ReplyPromise
  <2>2. Counted' \subseteq Seen(Cancelled(status))
    <3>1. ASSUME NEW d, InsertAction("FOLLOW_UP_PTP", "SCHEDULED", d, p, Cancelled(status))
          PROVE  Counted' \subseteq Seen(Cancelled(status))
      BY <3>1, CancelledRows, InsertCounts DEF ActionTypes, ExecutableTypes
    <3> QED BY <2>1, <3>1
  <2> QED BY <1>1, <2>2, FewerCounted
<1> QED BY <1>2, <1>3, <1>4, <1>5 DEF Request, Capture, Dispute, ReplyDispute, ReplyUnclear,
       LinkPaid, Recover, DisputeCase, rowVars

LEMMA FinalizeKeepsCount ==
    ASSUME IInv, WInv, CountedInBudget, NEW p \in Procs, Finalize(p), [Next]_vars
    PROVE  CountedInBudget'
<1> USE DEF IInv
<1> DEFINE a == job[p]
<1>1. CASE UNCHANGED status
  BY <1>1, NothingComesBack
<1>2. CASE ~FinalizeNothing(p)
  <2>1. a \in Actions /\ status[a] = "EXECUTING"
    BY <1>2 DEF Finalize, FinalizeCancelled, Finalizing, CompleteWait, CompleteFollowUp,
         CompleteExternal, RetryOrFail, RejectLink, RecoverClaim, ProcsOK
  <2>2. ASSUME NEW s \in {"CANCELLED", "FAILED"}, status' = [status EXCEPT ![a] = s]
        PROVE  CountedInBudget'
    BY <2>1, <2>2, NothingComesBack DEF RowsOK
  <2>3. ASSUME NEW s \in {"SCHEDULED", "EXECUTED"}, status' = [status EXCEPT ![a] = s],
               StillWanted(a)
        PROVE  CountedInBudget'
    BY <2>1, <2>3, NothingComesBack DEF RowsOK
  <2>4. CASE CompleteWait(p)
    <3> DEFINE done == [status EXCEPT ![a] = "EXECUTED"]
    <3>1. /\ done \in [Actions -> Statuses]
          /\ \A b \in Actions : done[b] = "NONE" <=> status[b] = "NONE"
      BY <2>1 DEF RowsOK, Statuses
    <3>2. Seen(done) \subseteq Counted
      BY <2>1, <2>4 DEF CompleteWait, Seen, Counted, WaitTypes, ExecutableTypes, RowsOK
    <3>3. Decide(done, done)
      BY <2>4 DEF CompleteWait
    <3> HIDE DEF done
    <3> QED BY <3>1, <3>2, <3>3, DecideCounts
  <2> QED BY <1>1, <1>2, <2>2, <2>3, <2>4 DEF Finalize, FinalizeCancelled, CompleteFollowUp,
         CompleteExternal, RetryOrFail, RejectLink, RecoverClaim, SetStatus, Reschedule,
         FailToReview, Eligible, rowVars
<1> QED BY <1>1, <1>2 DEF FinalizeNothing, rowVars

LEMMA StepKeepsCount == IInv /\ WInv /\ CountedInBudget /\ [Next]_vars => CountedInBudget'
<1> SUFFICES ASSUME IInv, WInv, CountedInBudget, [Next]_vars PROVE CountedInBudget'
  OBVIOUS
<1>1. CASE Request
  BY <1>1, RequestKeepsCount
<1>2. ASSUME NEW p \in Procs, Finalize(p) PROVE CountedInBudget'
  BY <1>2, FinalizeKeepsCount
<1>3. CASE UNCHANGED status
  BY <1>3, NothingComesBack
<1>4. ASSUME NEW w \in Workers, NEW a \in Actions, Claim(w, a) PROVE CountedInBudget'
  BY <1>4, NothingComesBack DEF Claim, SetStatus, IInv, RowsOK
<1> QED BY <1>1, <1>2, <1>3, <1>4 DEF Next, Step, WorkerStep, Perform, CheckAmbiguous,
       ReconcilerStep, ListExpired, CheckExpired, LookupUnanswered, LookupAnswered, Surroundings,
       FallsDue, LeaseExpires, ProviderStep, Crash, vars, rowVars

\* max_contacts_per_case bounds the outreach a case ever sees completed, in
\* spite of the guardrail's blind spot for running contacts.
THEOREM ContactBudgetHolds == Spec => []ContactBudget
<1>1. Init => CountedInBudget
  <2> SUFFICES ASSUME Init PROVE CountedInBudget
    OBVIOUS
  <2>1. Counted = {}
    BY DEF Init, Counted
  <2> QED BY <2>1, FS_EmptySet, BoundsAssumption DEF CountedInBudget
<1>2. CountedInBudget => ContactBudget
  <2> SUFFICES ASSUME CountedInBudget PROVE ContactBudget
    OBVIOUS
  <2> DEFINE Done == {a \in Actions : type[a] \in ExecutableTypes /\ status[a] = "EXECUTED"}
  <2>1. Done \in SUBSET Counted
    BY DEF Counted
  <2>2. Cardinality(Done) <= Cardinality(Counted) /\ IsFiniteSet(Done)
    BY <2>1, RowSetsAreFinite, FS_Subset
  <2>3. Cardinality(Done) \in Nat
    BY <2>2, FS_CardinalityType
  <2> QED BY <2>2, <2>3, RowSetsAreFinite, BoundsAssumption DEF ContactBudget, CountedInBudget
<1> QED BY <1>1, <1>2, StepKeepsCount, Invariance, WorkInvariance, PTL DEF Spec

-----------------------------------------------------------------------------
(***************************************************************************)
(* Links and promises: what a process found out about its row before it    *)
(* took the locks again is still true when it writes it.                   *)
(***************************************************************************)
\* The provider holds a link for good once it has accepted the request.
Held == {"open", "dead", "paid", "settled"}

OnlyLinks == {"ambiguous", "lookup", "unresolved", "mismatch", "cancel", "expired"}

\* Where a process is says what it works on, and what it saw of the provider.
JobsFit ==
    \A p \in Procs :
        /\ pc[p] # "idle" => status[job[p]] # "NONE"
        /\ pc[p] \in {"performed", "failed"} => type[job[p]] \in ExecutableTypes
        /\ pc[p] \in OnlyLinks => type[job[p]] = "CREATE_PAYMENT_LINK"
        /\ pc[p] = "performed" /\ type[job[p]] = "CREATE_PAYMENT_LINK" => link[job[p]] \in Held

RowFits(p, step, a) ==
    /\ status[a] # "NONE"
    /\ step \in {"performed", "failed"} => type[a] \in ExecutableTypes
    /\ step \in OnlyLinks => type[a] = "CREATE_PAYMENT_LINK"
    /\ step = "performed" /\ type[a] = "CREATE_PAYMENT_LINK" => link'[a] \in Held

-----------------------------------------------------------------------------
(* What no step takes back.                                                *)

LEMMA LinksStay ==
    ASSUME IInv, [Next]_vars, NEW a \in Actions, link[a] \in Held
    PROVE  link'[a] \in Held
<1> USE DEF IInv, CaseOK, Held
<1>1. ASSUME NEW p \in Procs, Perform(p) PROVE link'[a] \in Held
  BY <1>1 DEF Perform
<1>2. CASE Request \/ Surroundings
  BY <1>2 DEF Request, OpenCase, RepeatFailure, Capture, Dispute, ReplyDispute, ReplyUnclear,
     ReplyPromise, LinkPaid, DisputeCase, Surroundings, FallsDue, LeaseExpires, ProviderStep
<1>3. ASSUME NEW p \in Procs,
             \/ CheckAmbiguous(p) \/ ReconcilerStep(p) \/ LookupUnanswered(p) \/ LookupAnswered(p)
             \/ Finalize(p) \/ Crash(p) \/ \E b \in Actions : Claim(p, b)
      PROVE  link' = link
  BY <1>3 DEF CheckAmbiguous, ReconcilerStep, ListExpired, CheckExpired, LookupUnanswered,
     LookupAnswered, Finalize, FinalizeNothing, FinalizeCancelled, CompleteWait, CompleteFollowUp,
     CompleteExternal, RetryOrFail, RejectLink, RecoverClaim, Crash, Claim
<1>4. CASE UNCHANGED vars
  BY <1>4 DEF vars
<1> QED BY <1>1, <1>2, <1>3, <1>4 DEF Next, Step, WorkerStep, Procs

\* A row is never deleted, and a row that is over stays over.
LEMMA RowsStay ==
    ASSUME IInv, [Next]_vars, NEW a \in Actions
    PROVE  /\ status[a] # "NONE" => status'[a] # "NONE"
           /\ status[a] \in {"EXECUTED", "CANCELLED", "FAILED"} => status'[a] = status[a]
<1>1. Table!Next \/ UNCHANGED status
  BY StepMaps
<1> QED BY <1>1 DEF IInv, RowsOK, Table!Next, Table!Replace, Table!DropAll, Table!Insert,
     Table!IsNext, Table!WithoutScheduled, Table!Claim, Table!PutBack, Table!Complete,
     Table!CompleteAndDecide, Table!Drop, Table!Fail

-----------------------------------------------------------------------------
(* Processes and their rows.                                               *)

\* A process that moves goes where its row belongs.
LEMMA MovesFit ==
    ASSUME IInv, JobsFit, [Next]_vars, NEW p \in Procs, pc'[p] # "idle"
    PROVE  \/ pc'[p] = pc[p] /\ job'[p] = job[p]
           \/ RowFits(p, pc'[p], job'[p]) /\ job'[p] \in Actions
<1> DEFINE Fits == \/ pc'[p] = pc[p] /\ job'[p] = job[p]
                   \/ RowFits(p, pc'[p], job'[p]) /\ job'[p] \in Actions
<1> USE DEF IInv, ProcsOK, CaseOK
<1>1. CASE UNCHANGED procVars
  BY <1>1 DEF procVars
<1>2. ASSUME NEW q \in Procs, Finish(q) PROVE Fits
  BY <1>2 DEF Finish
<1>3. ASSUME NEW q \in Procs, NEW a \in Actions, Claim(q, a) \/ ListExpired(q, a) PROVE Fits
  BY <1>1, <1>3 DEF Claim, ListExpired, Start, RowFits, OnlyLinks
<1>4. ASSUME NEW q \in Procs, Perform(q) PROVE Fits
  BY <1>4 DEF Perform, Goto, JobsFit, RowFits, OnlyLinks, Held, ExecutableTypes
<1>5. ASSUME NEW q \in Procs,
             CheckAmbiguous(q) \/ CheckExpired(q) \/ LookupUnanswered(q) \/ LookupAnswered(q)
      PROVE  Fits
  BY <1>2, <1>5 DEF CheckAmbiguous, CheckExpired, LookupUnanswered, LookupAnswered, Goto,
     JobsFit, RowFits, OnlyLinks, Held, ExecutableTypes
<1>6. ASSUME NEW q \in Procs, Finalize(q) \/ Crash(q) PROVE Fits
  BY <1>2, <1>6 DEF Finalize, FinalizeNothing, FinalizeCancelled, CompleteWait, CompleteFollowUp,
     CompleteExternal, RetryOrFail, RejectLink, RecoverClaim, Crash
<1>7. CASE Request \/ Surroundings \/ UNCHANGED vars
  BY <1>1, <1>7 DEF Request, OpenCase, RepeatFailure, Capture, Dispute, ReplyDispute, ReplyUnclear,
     ReplyPromise, LinkPaid, DisputeCase, Surroundings, FallsDue, LeaseExpires, ProviderStep, vars
<1> QED BY <1>3, <1>4, <1>5, <1>6, <1>7 DEF Next, Step, WorkerStep, ReconcilerStep, Procs

LEMMA JobsInvariance == Spec => []JobsFit
<1>1. Init => JobsFit
  BY DEF Init, JobsFit, OnlyLinks
<1>2. IInv /\ JobsFit /\ [Next]_vars => JobsFit'
  <2> SUFFICES ASSUME IInv, JobsFit, [Next]_vars, NEW p \in Procs, pc'[p] # "idle"
               PROVE  LET a == job'[p] IN
                      /\ status'[a] # "NONE"
                      /\ pc'[p] \in {"performed", "failed"} => type'[a] \in ExecutableTypes
                      /\ pc'[p] \in OnlyLinks => type'[a] = "CREATE_PAYMENT_LINK"
                      /\ pc'[p] = "performed" /\ type'[a] = "CREATE_PAYMENT_LINK"
                            => link'[a] \in Held
    BY DEF JobsFit, OnlyLinks
  <2>1. ASSUME NEW a \in Actions, status[a] # "NONE"
        PROVE  type'[a] = type[a] /\ status'[a] # "NONE" /\ (link[a] \in Held => link'[a] \in Held)
    BY <2>1, TypesStay, RowsStay, LinksStay
  <2>2. CASE pc'[p] = pc[p] /\ job'[p] = job[p]
    BY <2>1, <2>2 DEF JobsFit, IInv, ProcsOK
  <2>3. CASE RowFits(p, pc'[p], job'[p]) /\ job'[p] \in Actions
    BY <2>1, <2>3 DEF RowFits
  <2> QED BY <2>2, <2>3, MovesFit
<1> QED BY <1>1, <1>2, Invariance, PTL DEF Spec

-----------------------------------------------------------------------------
(* The link on the case.                                                   *)

\* Whoever completes a create-link action, at whatever delay, records a link
\* that the provider really holds for that action.
THEOREM RecordedLinkIsReal == Spec => []RecordedLinkExists
<1>1. Init => RecordedLinkExists
  BY DEF Init, RecordedLinkExists
<1>2. IInv /\ JobsFit /\ RecordedLinkExists /\ [Next]_vars => RecordedLinkExists'
  <2> SUFFICES ASSUME IInv, JobsFit, RecordedLinkExists, [Next]_vars, caseLink' # 0
               PROVE  RecordedLinkExists'
    BY DEF RecordedLinkExists
  <2>1. ASSUME NEW p \in Procs, CompleteExternal(p), type[job[p]] = "CREATE_PAYMENT_LINK"
        PROVE  RecordedLinkExists'
    <3>1. job[p] \in Actions /\ status[job[p]] = "EXECUTING" /\ caseLink' = job[p]
      BY <2>1 DEF CompleteExternal, IInv, ProcsOK
    <3>2. link[job[p]] \in Held
      BY <2>1 DEF CompleteExternal, JobsFit
    <3>3. status'[job[p]] = "EXECUTED" /\ type'[job[p]] = "CREATE_PAYMENT_LINK" /\ link' = link
      BY <2>1, <3>1 DEF CompleteExternal, SetStatus, IInv, RowsOK
    <3> QED BY <3>1, <3>2, <3>3 DEF RecordedLinkExists, Held
  <2>2. CASE caseLink' = caseLink
    <3>1. caseLink \in Actions
      BY <2>2 DEF IInv, CaseOK, Actions
    <3>2. /\ type[caseLink] = "CREATE_PAYMENT_LINK" /\ status[caseLink] = "EXECUTED"
          /\ link[caseLink] \in Held
      BY <2>2 DEF RecordedLinkExists, Held
    <3>3. /\ type'[caseLink] = "CREATE_PAYMENT_LINK" /\ status'[caseLink] = "EXECUTED"
          /\ link'[caseLink] \in Held
      BY <3>1, <3>2, TypesStay, RowsStay, LinksStay
    <3> QED BY <2>2, <3>3 DEF RecordedLinkExists, Held
  <2>3. \/ caseLink' = caseLink
        \/ \E p \in Procs : CompleteExternal(p) /\ type[job[p]] = "CREATE_PAYMENT_LINK"
    BY DEF Next, Step, Request, OpenCase, RepeatFailure, Capture, Dispute, ReplyDispute,
       ReplyUnclear, ReplyPromise, LinkPaid, DisputeCase, WorkerStep, Claim, Perform,
       CheckAmbiguous, ReconcilerStep, ListExpired, CheckExpired, LookupUnanswered, LookupAnswered,
       Finalize, FinalizeNothing, FinalizeCancelled, CompleteWait, CompleteFollowUp,
       CompleteExternal, RetryOrFail, RejectLink, RecoverClaim, Surroundings, FallsDue,
       LeaseExpires, ProviderStep, Crash, vars, caseVars
  <2> QED BY <2>1, <2>2, <2>3
<1> QED BY <1>1, <1>2, Invariance, JobsInvariance, PTL DEF Spec

-----------------------------------------------------------------------------
(* The promise the case waits for.                                         *)

PromiseInv ==
    /\ \A a, b \in Actions : promise[a] = "PENDING" /\ promise[b] = "PENDING" => a = b
    /\ HasPendingPromise => caseState \notin {"NONE", "WAITING", "ACTION_SCHEDULED"}
    /\ caseState = "AWAITING_OUTCOME" =>
          \A a \in Actions : promise[a] = "PENDING" =>
              status[a] \in {"SCHEDULED", "EXECUTING"} /\ ~Superseded(a)

NoPending == \A a \in Actions : promise[a] # "PENDING"

\* Without a pending promise there is nothing to follow up.
LEMMA NothingPending == NoPending' => PromiseInv'
  BY DEF NoPending, PromiseInv, HasPendingPromise

\* A step that leaves promises alone, and the follow-up running.
LEMMA PromiseKept ==
    ASSUME PromiseInv, UNCHANGED promise,
           caseState' = caseState \/ caseState' \in TerminalStates \cup {"HUMAN_REVIEW"},
           caseState' = "AWAITING_OUTCOME" =>
               /\ \A a \in Actions : status'[a] \in LiveStatuses => status[a] \in LiveStatuses
               /\ \A a \in Actions : promise[a] = "PENDING"
                                        => status'[a] \in {"SCHEDULED", "EXECUTING"}
    PROVE  PromiseInv'
<1>1. CASE caseState' \in TerminalStates \cup {"HUMAN_REVIEW"}
  BY <1>1 DEF PromiseInv, TerminalStates
<1>2. CASE caseState' = caseState
  BY <1>2 DEF PromiseInv, HasPendingPromise, Superseded
<1> QED BY <1>1, <1>2

LEMMA PromiseUntouched ==
    ASSUME PromiseInv, UNCHANGED <<caseState, promise, status>>
    PROVE  PromiseInv'
  BY PromiseKept DEF PromiseInv

LEMMA RequestKeepsPromise ==
    ASSUME IInv, PromiseInv, Request
    PROVE  PromiseInv'
<1> USE DEF IInv
<1>1. CASE Recover
  BY <1>1, NothingPending DEF Recover, KeepPromises, NoPending, RowsOK
<1>2. CASE DisputeCase \/ ReplyUnclear
  BY <1>2, PromiseKept DEF DisputeCase, ReplyUnclear, TerminalStates
<1>3. ASSUME NEW seen, NEW st, Decide(seen, st), NoPending PROVE PromiseInv'
  BY <1>3, NothingPending DEF Decide, InsertAction, NoPending
<1>4. CASE OpenCase
  <2>1. NoPending
    BY <1>4 DEF OpenCase, PromiseInv, HasPendingPromise, NoPending
  <2> QED BY <1>1, <1>3, <1>4, <2>1 DEF OpenCase
<1>5. CASE RepeatFailure
  <2>1. CASE NoPending
    BY <1>3, <1>5, <2>1 DEF RepeatFailure, HasPendingPromise, NoPending
  <2>2. CASE ~NoPending
    BY <1>5, <2>2, PromiseUntouched DEF RepeatFailure, HasPendingPromise, NoPending, rowVars
  <2> QED BY <2>1, <2>2
<1>6. CASE ReplyPromise
  <2>1. PICK w \in Actions : w = n + 1
    BY <1>6, BoundsAssumption DEF ReplyPromise, InsertAction, HasRoom, Actions, RowsOK
  <2>2. /\ \A a \in Actions : promise'[a] = "PENDING" <=> a = w
        /\ status' = [Cancelled(status) EXCEPT ![w] = "SCHEDULED"]
        /\ caseState' = "AWAITING_OUTCOME"
    BY <1>6, <2>1 DEF ReplyPromise, InsertAction, RowsOK
  <2>3. status'[w] = "SCHEDULED" /\ \A a \in Actions : a > w => status'[a] = "NONE"
    <3>1. Cancelled(status) \in [Actions -> Statuses]
          /\ \A a \in Actions : a > w => Cancelled(status)[a] = "NONE"
      BY <2>1, CancelledRows DEF RowsOK, Actions
    <3> QED BY <2>2, <3>1 DEF Actions
  <2>4. ~Superseded(w)'
    BY <2>3 DEF Superseded, LiveStatuses
  <2> QED BY <2>2, <2>3, <2>4 DEF PromiseInv
<1>7. CASE Capture \/ Dispute \/ ReplyDispute \/ ReplyUnclear \/ \E a \in Actions : LinkPaid(a)
  BY <1>1, <1>2, <1>7, PromiseUntouched DEF Capture, Dispute, ReplyDispute, LinkPaid, rowVars
<1> QED BY <1>4, <1>5, <1>6, <1>7 DEF Request

\* A claim of the follow-up finds it wanted; other claims leave it alone.
LEMMA ClaimKeepsPromise ==
    ASSUME IInv, PromiseInv, NEW w \in Workers, NEW a \in Actions, Claim(w, a)
    PROVE  PromiseInv'
<1> USE DEF IInv, RowsOK
<1>1. /\ UNCHANGED <<promise, caseState>> /\ status[a] = "SCHEDULED"
      /\ status' = [status EXCEPT ![a] = IF Eligible(a) THEN "EXECUTING" ELSE "CANCELLED"]
  BY DEF Claim, SetStatus, caseVars
<1>2. \A b \in Actions : status'[b] \in LiveStatuses => status[b] \in LiveStatuses
  BY <1>1 DEF LiveStatuses
<1>3. ASSUME caseState = "AWAITING_OUTCOME", NEW b \in Actions, promise[b] = "PENDING"
      PROVE  status'[b] \in {"SCHEDULED", "EXECUTING"}
  <2>1. status[b] \in {"SCHEDULED", "EXECUTING"} /\ ~Superseded(b) /\ type[b] = "FOLLOW_UP_PTP"
    BY <1>3 DEF PromiseInv
  <2>2. CASE b = a
    BY <1>1, <1>3, <2>1, <2>2 DEF Eligible, StillWanted, WantedIn, WaitTypes, ExecutableTypes
  <2>3. CASE b # a
    BY <1>1, <2>1, <2>3
  <2> QED BY <2>2, <2>3
<1> QED BY <1>1, <1>2, <1>3, PromiseKept

LEMMA FinalizeKeepsPromise ==
    ASSUME IInv, JobsFit, PromiseInv, NEW p \in Procs, Finalize(p)
    PROVE  PromiseInv'
<1> USE DEF IInv, RowsOK
<1> DEFINE a == job[p]
<1>1. CASE FinalizeNothing(p)
  BY <1>1, PromiseUntouched DEF FinalizeNothing, caseVars, rowVars
<1>2. CASE ~FinalizeNothing(p)
  <2>1. a \in Actions /\ status[a] = "EXECUTING"
    BY <1>2 DEF Finalize, FinalizeCancelled, Finalizing, CompleteWait, CompleteFollowUp,
         CompleteExternal, RetryOrFail, RejectLink, RecoverClaim, ProcsOK
  <2>2. CASE FailToReview(a)
    BY <2>2, PromiseKept DEF FailToReview, SetStatus, TerminalStates
  <2>3. ASSUME NEW d, Reschedule(a, d), UNCHANGED caseState PROVE PromiseInv'
    BY <2>1, <2>3, PromiseKept DEF Reschedule, LiveStatuses, PromiseInv
  <2>4. ASSUME SetStatus(a, "CANCELLED"), UNCHANGED caseState,
               promise[a] = "PENDING" => caseState # "AWAITING_OUTCOME"
        PROVE  PromiseInv'
    BY <2>1, <2>4, PromiseKept DEF SetStatus, LiveStatuses, PromiseInv
  <2>5. ASSUME caseState = "AWAITING_OUTCOME", promise[a] = "PENDING"
        PROVE  Eligible(a) /\ type[a] = "FOLLOW_UP_PTP"
    BY <2>1, <2>5 DEF PromiseInv, Eligible, StillWanted, WantedIn, WaitTypes, ExecutableTypes
  <2>6. CASE FinalizeCancelled(p)
    BY <2>4, <2>5, <2>6 DEF FinalizeCancelled, Eligible, JobsFit, OnlyLinks, caseVars
  <2>7. CASE CompleteWait(p)
    <3>1. caseState = "WAITING"
      BY <2>7 DEF CompleteWait, StillWanted, WantedIn, WaitTypes, ExecutableTypes
    <3>2. NoPending
      BY <3>1 DEF PromiseInv, HasPendingPromise, NoPending
    <3> QED BY <2>7, <3>2, NothingPending DEF CompleteWait, Decide, InsertAction, NoPending
  <2>8. CASE CompleteFollowUp(p)
    <3>1. CASE promise[a] = "PENDING"
      <4>1. NoPending'
        BY <2>1, <2>8, <3>1 DEF CompleteFollowUp, PromiseInv, NoPending
      <4> QED BY <4>1, NothingPending
    <3>2. CASE promise[a] # "PENDING"
      <4>1. UNCHANGED <<caseState, promise>> /\ status' = [status EXCEPT ![a] = "EXECUTED"]
        BY <2>8, <3>2 DEF CompleteFollowUp
      <4> QED BY <2>1, <3>2, <4>1, PromiseKept DEF LiveStatuses, PromiseInv
    <3> QED BY <3>1, <3>2
  <2>9. CASE CompleteExternal(p)
    <3>1. caseState = "ACTION_SCHEDULED"
      BY <2>9 DEF CompleteExternal, StillWanted, WantedIn, JobsFit, WaitTypes, ExecutableTypes
    <3>2. NoPending
      BY <3>1 DEF PromiseInv, HasPendingPromise, NoPending
    <3> QED BY <2>9, <3>2, NothingPending DEF CompleteExternal, SetStatus, NoPending
  <2>10. CASE RetryOrFail(p) \/ RejectLink(p)
    BY <2>2, <2>3, <2>10 DEF RetryOrFail, RejectLink
  <2>11. CASE RecoverClaim(p)
    BY <2>2, <2>3, <2>4, <2>5, <2>11, PromiseUntouched DEF RecoverClaim, rowVars
  <2> QED BY <1>2, <2>6, <2>7, <2>8, <2>9, <2>10, <2>11 DEF Finalize
<1> QED BY <1>1, <1>2

LEMMA PromiseInvariance == Spec => []PromiseInv
<1>1. Init => PromiseInv
  BY DEF Init, PromiseInv, HasPendingPromise
<1>2. IInv /\ JobsFit /\ PromiseInv /\ [Next]_vars => PromiseInv'
  <2> SUFFICES ASSUME IInv, JobsFit, PromiseInv, [Next]_vars PROVE PromiseInv'
    OBVIOUS
  <2>1. CASE Request
    BY <2>1, RequestKeepsPromise
  <2>2. ASSUME NEW w \in Workers, NEW a \in Actions, Claim(w, a) PROVE PromiseInv'
    BY <2>2, ClaimKeepsPromise
  <2>3. ASSUME NEW p \in Procs, Finalize(p) PROVE PromiseInv'
    BY <2>3, FinalizeKeepsPromise
  <2>4. CASE UNCHANGED <<caseState, promise, status>>
    BY <2>4, PromiseUntouched
  <2> QED BY <2>1, <2>2, <2>3, <2>4 DEF Next, Step, WorkerStep, Perform, CheckAmbiguous,
         ReconcilerStep, ListExpired, CheckExpired, LookupUnanswered, LookupAnswered,
         Surroundings, FallsDue, LeaseExpires, ProviderStep, Crash, vars, caseVars, rowVars
<1> QED BY <1>1, <1>2, Invariance, JobsInvariance, PTL DEF Spec

\* A promise the case waits for is the only pending one, and its follow-up is
\* on its way: nothing that interleaves with it cancels or supersedes it.
THEOREM PromisesAreFollowedUp == Spec => []PromiseIsFollowedUp
<1>1. PromiseInv => PromiseIsFollowedUp
  BY DEF PromiseInv, PromiseIsFollowedUp
<1> QED BY <1>1, PromiseInvariance, PTL
-----------------------------------------------------------------------------
(* CaseRuntime implements CaseLife: what a case's rows and processes do    *)
(* never moves its phase in a way the routing of events does not expect.   *)

LifeInv == IInv /\ JobsFit /\ PromiseInv /\ RecordedLinkExists

LEMMA LifeInvariance == Spec => []LifeInv
<1>1. IInv /\ JobsFit /\ PromiseInv /\ RecordedLinkExists => LifeInv
  BY DEF LifeInv
<1> QED BY <1>1, Invariance, JobsInvariance, PromiseInvariance, RecordedLinkIsReal, PTL

LifeGoesOn == Life!Open \/ Life!Advance \/ Phase' = Phase

-----------------------------------------------------------------------------
(* The writes of the transactions, as moves between phases.                *)

LEMMA SamePhase ==
    ASSUME UNCHANGED <<caseState, promise>>
    PROVE  LifeGoesOn
  BY DEF LifeGoesOn, Phase, HasPendingPromise

LEMMA PhaseIsNone ==
    ASSUME IInv
    PROVE  Phase = "NONE" <=> caseState = "NONE"
  BY DEF Phase, IInv, CaseOK, CaseStates

\* Anything can send a case to a person or to a dispute.
LEMMA ToReviewOrDispute ==
    ASSUME IInv, caseState # "NONE", caseState' \in {"HUMAN_REVIEW", "DISPUTED"}
    PROVE  LifeGoesOn
<1>1. Phase # "NONE" /\ Phase' = caseState'
  BY PhaseIsNone DEF Phase
<1>2. Phase' \in Life!OnWork(Phase) \cup {"DISPUTED"}
  BY <1>1 DEF Life!OnWork
<1> QED BY <1>1, <1>2 DEF LifeGoesOn, Life!Advance

LEMMA ToRecovered ==
    ASSUME IInv, Recover, caseState \notin {"NONE", "RECOVERED", "DISPUTED"}
    PROVE  LifeGoesOn
<1>1. Phase \notin {"NONE", "RECOVERED", "DISPUTED"} /\ Phase' = "RECOVERED"
  BY DEF Phase, Recover
<1>2. Phase' \in Life!OnRecovery(Phase)
  BY <1>1 DEF Life!OnRecovery
<1> QED BY <1>1, <1>2 DEF LifeGoesOn, Life!Advance

\* A decision opens the case, or is made in a case that is automated.
LEMMA ToDecided ==
    ASSUME IInv, NEW seen, NEW st, Decide(seen, st),
           caseState = "NONE" \/ (caseState \in Diagnosable /\ ~HasPendingPromise)
    PROVE  LifeGoesOn
<1>1. caseState' \in {"WAITING", "ACTION_SCHEDULED", "HUMAN_REVIEW", "STOPPED"}
  BY PolicyAssumption DEF Decide, ActionToState, WantedIn, ActionTypes, WaitTypes, ExecutableTypes,
                          Instructions
<1>2. Phase' \in Life!Decided
  BY <1>1 DEF Phase, Life!Decided
<1>3. CASE caseState = "NONE"
  <2>1. Phase = "NONE" /\ Phase' \in Life!OnOpening(FALSE)
    BY <1>2, <1>3 DEF Phase, Life!OnOpening
  <2> QED BY <2>1 DEF LifeGoesOn, Life!Open
<1>4. CASE caseState \in Diagnosable /\ ~HasPendingPromise
  <2>1. Phase \in Life!Automated
    BY <1>4 DEF Phase, Diagnosable, Life!Automated
  <2>2. Phase # "NONE" /\ Phase' \in Life!OnFailure(Phase)
    BY <1>2, <2>1 DEF Life!OnFailure, Life!Automated
  <2> QED BY <2>2 DEF LifeGoesOn, Life!Advance
<1> QED BY <1>3, <1>4

-----------------------------------------------------------------------------
(* The steps.                                                              *)

LEMMA RequestsGoOn ==
    ASSUME LifeInv, Request
    PROVE  LifeGoesOn
<1> USE DEF LifeInv
<1>1. CASE OpenCase
  <2>1. CASE Recover
    <3>1. Phase = "NONE" /\ Phase' = "RECOVERED"
      BY <1>1, <2>1 DEF OpenCase, Recover, Phase
    <3>2. Phase' \in Life!OnOpening(TRUE)
      BY <3>1 DEF Life!OnOpening
    <3> QED BY <3>1, <3>2 DEF LifeGoesOn, Life!Open
  <2> QED BY <1>1, <2>1, ToDecided DEF OpenCase
<1>2. CASE RepeatFailure
  BY <1>2, ToDecided, SamePhase DEF RepeatFailure, rowVars
<1>3. CASE Capture
  BY <1>3, SamePhase, ToRecovered DEF Capture, rowVars
<1>4. ASSUME NEW a \in Actions, LinkPaid(a) PROVE LifeGoesOn
  <2>1. caseLink = a => caseState # "NONE"
    BY DEF RecordedLinkExists, IInv, CaseOK, RowsOK, Actions
  <2> QED BY <1>4, <2>1, SamePhase, ToRecovered DEF LinkPaid, rowVars
<1>5. CASE Dispute \/ ReplyDispute \/ ReplyUnclear
  BY <1>5, ToReviewOrDispute
     DEF Dispute, ReplyDispute, ReplyUnclear, DisputeCase, Replyable, Diagnosable
<1>6. CASE ReplyPromise
  <2>1. n + 1 \in Actions /\ promise' = [[a \in Actions |->
             IF promise[a] = "PENDING" THEN "SUPERSEDED" ELSE promise[a]] EXCEPT ![n + 1] = "PENDING"]
    BY <1>6, BoundsAssumption DEF ReplyPromise, InsertAction, HasRoom, Actions, IInv, RowsOK
  <2>2. promise'[n + 1] = "PENDING"
    BY <2>1
  <2>3. Phase' = "PROMISED"
    BY <1>6, <2>1, <2>2 DEF ReplyPromise, Phase, HasPendingPromise
  <2>4. Phase # "NONE" /\ Phase' \in Life!OnReply(Phase)
    BY <1>6, <2>3 DEF ReplyPromise, Replyable, Diagnosable, Phase, Life!OnReply, Life!Automated
  <2> QED BY <2>4 DEF LifeGoesOn, Life!Advance
<1> QED BY <1>1, <1>2, <1>3, <1>4, <1>5, <1>6 DEF Request

LEMMA FinalizersGoOn ==
    ASSUME LifeInv, NEW p \in Procs, Finalize(p)
    PROVE  LifeGoesOn
<1> USE DEF LifeInv
<1>1. Finalizing(p) => job[p] \in Actions /\ caseState # "NONE"
  BY DEF Finalizing, IInv, ProcsOK, CaseOK, RowsOK, JobsFit, Actions
<1>2. CASE FinalizeNothing(p) \/ FinalizeCancelled(p)
  BY <1>2, SamePhase DEF FinalizeNothing, FinalizeCancelled, SetStatus, caseVars, rowVars
<1>3. CASE CompleteWait(p)
  <2>1. caseState = "WAITING"
    BY <1>3 DEF CompleteWait, StillWanted, WantedIn, WaitTypes, ExecutableTypes
  <2>2. ~HasPendingPromise
    BY <2>1 DEF PromiseInv
  <2> QED BY <1>3, <2>1, <2>2, ToDecided DEF CompleteWait, Diagnosable
<1>4. CASE CompleteFollowUp(p)
  <2>1. caseState # "NONE"
    BY <1>1, <1>4 DEF CompleteFollowUp, Finalizing, ExecutableTypes
  <2> QED BY <1>4, <2>1, SamePhase, ToReviewOrDispute DEF CompleteFollowUp
<1>5. CASE CompleteExternal(p)
  <2>1. caseState = "ACTION_SCHEDULED"
    BY <1>5 DEF CompleteExternal, StillWanted, WantedIn, JobsFit, WaitTypes, ExecutableTypes
  <2>2. ~HasPendingPromise /\ promise' = promise
    BY <1>5, <2>1 DEF PromiseInv, CompleteExternal, SetStatus
  <2>3. Phase = "WORKING" /\ Phase' = "OFFERED"
    BY <1>5, <2>1, <2>2 DEF CompleteExternal, Phase, HasPendingPromise
  <2>4. Phase' \in Life!OnWork(Phase)
    BY <2>3 DEF Life!OnWork
  <2> QED BY <2>3, <2>4 DEF LifeGoesOn, Life!Advance
<1>6. CASE RetryOrFail(p) \/ RejectLink(p) \/ RecoverClaim(p)
  <2>1. caseState # "NONE"
    BY <1>1, <1>6 DEF RetryOrFail, RejectLink, RecoverClaim, Finalizing
  <2>2. caseState' = "HUMAN_REVIEW" \/ UNCHANGED <<caseState, promise>>
    BY <1>6 DEF RetryOrFail, RejectLink, RecoverClaim, FailToReview, Reschedule, SetStatus, rowVars
  <2> QED BY <2>1, <2>2, SamePhase, ToReviewOrDispute
<1> QED BY <1>2, <1>3, <1>4, <1>5, <1>6 DEF Finalize

\* The phase of a case, whatever requests, workers and reconcilers do to it,
\* moves as CaseLife says; the routing of events is checked against CaseLife.
THEOREM LifeIsImplemented == Spec => ImplementsLife
<1>1. Init => Life!Init
  BY DEF Init, Life!Init, Phase
<1>2. LifeInv /\ [Next]_vars => LifeGoesOn
  <2> SUFFICES ASSUME LifeInv, [Next]_vars PROVE LifeGoesOn
    OBVIOUS
  <2>1. CASE UNCHANGED <<caseState, promise>>
    BY <2>1, SamePhase
  <2> QED BY <2>1, RequestsGoOn, FinalizersGoOn
       DEF Next, Step, WorkerStep, Claim, SetStatus, Perform, CheckAmbiguous, ReconcilerStep,
           ListExpired, CheckExpired, LookupUnanswered, LookupAnswered, Surroundings, FallsDue,
           LeaseExpires, ProviderStep, Crash, vars, caseVars, rowVars
<1>3. LifeInv /\ [Next]_vars => [Life!Open \/ Life!Advance]_Phase
  BY <1>2 DEF LifeGoesOn
<1> QED BY <1>1, <1>3, LifeInvariance, PTL DEF Spec, ImplementsLife, Life!Spec
=============================================================================
