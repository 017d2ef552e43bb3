------------------------------ MODULE ContactJob ------------------------------
(***************************************************************************)
(* One CONTACT_CUSTOMER or COLLECT_PROMISE_TO_PAY row, whose only external *)
(* call is the LLM's draft, and the time that call may take.               *)
(*                                                                         *)
(* draft_with_fallback turns every failure of the provider into a template *)
(* and never raises; but RQ ends the job after ACTION_JOB_TIMEOUT_SECONDS  *)
(* wherever it is, in the third attempt's wait as well, and the row is     *)
(* then a stranded claim for reconcile_actions.  Time is counted inside    *)
(* the job, in units of the shortest pause (0.2 s).                        *)
(***************************************************************************)
EXTENDS Integers

CONSTANTS
    MaxAttempts,    \* settings.ACTION_MAX_ATTEMPTS
    MaxRetries,     \* settings.LLM_MAX_RETRIES
    Timeout,        \* settings.LLM_TIMEOUT_SECONDS: a post that times out took that long,
    LongestPost,    \* or longer: httpx limits each wait, the whole only up to here, but
                    \* for an answer that trickles in without end (a fault)
    JobTimeout,     \* settings.ACTION_JOB_TIMEOUT_SECONDS
    MaxFaults       \* bound: workers that die and answers that never end

ASSUME JobAssumption ==
    /\ MaxAttempts \in Nat \ {0} /\ MaxRetries \in Nat /\ JobTimeout \in Nat /\ MaxFaults \in Nat
    /\ Timeout \in Nat /\ LongestPost \in Nat /\ Timeout <= LongestPost

\* time.sleep(0.2 * 2 ** attempt), the attempts counted from 0.
Pause(k) == 2^k
\* What the proofs need to know of ^.
ASSUME PauseAssumption == \A k \in 0..MaxRetries : Pause(k) \in Nat

L == INSTANCE LlmClient WITH Horizon <- 14

VARIABLES
    caseState,          \* RevenueCase.state
    status, attempts,   \* the row
    job,                \* "none", or what the worker's job is doing
    try, elapsed,       \* attempt of _post_with_retries, and time since the job began
    body,               \* what the draft became
    lost,               \* history: claims of the row whose job was killed or died
    faults

rowVars == <<caseState, status, attempts>>
jobVars == <<job, try, elapsed, body>>
vars    == <<rowVars, jobVars, lost, faults>>

Wanted == caseState = "ACTION_SCHEDULED"
NoJob  == job' = "none" /\ try' = 0 /\ elapsed' = 0 /\ body' = "none"

-----------------------------------------------------------------------------
(* The job.                                                                *)

\* _claim_action, and the snapshot that follows.
Claim ==
    /\ job = "none" /\ status = "SCHEDULED"
    /\ IF Wanted
       THEN /\ status' = "EXECUTING" /\ attempts' = attempts + 1
            /\ job' = "posting" /\ try' = 0 /\ elapsed' = 0 /\ UNCHANGED body
       ELSE status' = "CANCELLED" /\ UNCHANGED <<attempts, jobVars>>
    /\ UNCHANGED <<caseState, lost, faults>>

Lasts(post) == IF post = "timeout" THEN Timeout..LongestPost ELSE 0..LongestPost

RetryLeft(k) == k < MaxRetries

\* One turn of _post_with_retries: its post, and the pause before the next.
Post(post, lasted) ==
    /\ job = "posting" /\ elapsed + lasted <= JobTimeout
    /\ IF post \in L!Transient /\ RetryLeft(try)
       THEN /\ elapsed + lasted + Pause(try) <= JobTimeout
            /\ elapsed' = elapsed + lasted + Pause(try)
            /\ try' = try + 1 /\ UNCHANGED <<job, body>>
       ELSE /\ elapsed' = elapsed + lasted
            /\ job' = "drafted" /\ body' = L!BodyOf(post) /\ UNCHANGED try
    /\ UNCHANGED <<rowVars, lost, faults>>

Endless == JobTimeout + 1

\* JobTimeoutException is raised in the middle of a post or a pause that would
\* take longer than what is left, and nothing catches it.
KillJob(post, lasted) ==
    /\ job = "posting"
    /\ LET pause == IF post \in L!Transient /\ RetryLeft(try) THEN Pause(try) ELSE 0
       IN elapsed + lasted + pause > JobTimeout
    /\ IF lasted <= LongestPost THEN UNCHANGED faults
                                ELSE faults < MaxFaults /\ faults' = faults + 1
    /\ NoJob /\ lost' = lost + 1
    /\ UNCHANGED rowVars

WorkerDies ==
    /\ job # "none" /\ faults < MaxFaults
    /\ NoJob /\ lost' = lost + 1 /\ faults' = faults + 1
    /\ UNCHANGED rowVars

\* _complete_external and apply_success
Complete ==
    /\ job = "drafted"
    /\ IF Wanted
       THEN status' = "EXECUTED" /\ caseState' = "AWAITING_OUTCOME"
       ELSE status' = "CANCELLED" /\ UNCHANGED caseState
    /\ NoJob /\ UNCHANGED <<attempts, lost, faults>>

-----------------------------------------------------------------------------
(* The rest.                                                               *)

\* Fault, not in the code: the last attempt is not made.
LastIsSpared == attempts + 1 < MaxAttempts
AttemptLeft == attempts < MaxAttempts

\* Fault, not in the code: a claim without an attempt left is passed over.
OnlyWithAttempts ==
    /\ job = "none" /\ status = "EXECUTING"
    /\ \/ ~Wanted /\ status' = "CANCELLED"
       \/ Wanted /\ AttemptLeft /\ status' = "SCHEDULED"
    /\ UNCHANGED <<caseState, attempts, jobVars, lost, faults>>
\* reconcile_actions, after the lease of a claim nobody works on any more.
Recover ==
    /\ job = "none" /\ status = "EXECUTING"
    /\ CASE ~Wanted -> status' = "CANCELLED" /\ UNCHANGED caseState
         [] Wanted /\ AttemptLeft -> status' = "SCHEDULED" /\ UNCHANGED caseState
         [] OTHER -> status' = "FAILED" /\ caseState' = "HUMAN_REVIEW"
    /\ UNCHANGED <<attempts, jobVars, lost, faults>>

\* A payment, a dispute or a reply: what is scheduled is cancelled.
CaseMovesOn ==
    /\ Wanted /\ caseState' \in {"RECOVERED", "DISPUTED", "HUMAN_REVIEW"}
    /\ status' = IF status = "SCHEDULED" THEN "CANCELLED" ELSE status
    /\ UNCHANGED <<attempts, jobVars, lost, faults>>

Init == /\ caseState = "ACTION_SCHEDULED" /\ status = "SCHEDULED" /\ attempts = 0
        /\ job = "none" /\ try = 0 /\ elapsed = 0 /\ body = "none"
        /\ lost = 0 /\ faults = 0

Work == \/ \E post \in L!Posts : \/ \E d \in Lasts(post) : Post(post, d)
                                 \/ \E d \in Lasts(post) \cup {Endless} : KillJob(post, d)
        \/ Complete
Next == Claim \/ Work \/ WorkerDies \/ Recover \/ CaseMovesOn

\* The row is published (TaskQueue), a job goes on, and the reconciliation
\* script runs every minute.
Fairness == WF_vars(Claim) /\ WF_vars(Work) /\ WF_vars(Recover)

Spec     == Init /\ [][Next]_vars
FairSpec == Spec /\ Fairness

-----------------------------------------------------------------------------
(* Properties.                                                             *)

\* The state is what the row and the job can hold.
TypeOK ==
    /\ caseState \in {"ACTION_SCHEDULED", "AWAITING_OUTCOME", "RECOVERED", "DISPUTED", "HUMAN_REVIEW"}
    /\ status \in {"SCHEDULED", "EXECUTING", "EXECUTED", "CANCELLED", "FAILED"}
    /\ attempts \in 0..MaxAttempts /\ job \in {"none", "posting", "drafted"}
    /\ try \in 0..MaxRetries /\ elapsed \in 0..JobTimeout
    /\ body \in {"none", "llm", "template"}
    /\ lost \in 0..MaxAttempts /\ faults \in 0..MaxFaults

\* What draft_with_fallback leaves of a provider's failures: an answer, a
\* refusal or an exhausted retry never costs a row by itself.  A row is FAILED
\* only after all its attempts, each of which lost its job half way.
FailsOnlyAfterLosses == status = "FAILED" => lost = MaxAttempts

\* ARCHITECTURE.md:449: a contact row is never FAILED solely due to an LLM
\* outage; the fallback draft keeps it EXECUTED.  With the shipped settings
\* this is false: three posts that time out take longer than the job may, and
\* the job is killed before it falls back.
NeverFailedByLlm == faults = 0 => status # "FAILED"

\* The row is settled in the end, whatever the provider does and however often
\* the job is ended.
RowSettles == <>[](status \in {"EXECUTED", "CANCELLED", "FAILED"})
=============================================================================
