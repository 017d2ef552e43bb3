# RecoveryOS: verification development

RecoveryOS takes the failed payments of a subscription business and drives each
of them, as a *revenue case*, to recovery, to a person, or to a deliberate stop.
It waits, sends payment links, drafts contacts, collects promises to pay and
follows them up. This directory holds TLA+ models of the parts of it that
decide what happens to a case, the TLC configurations that check them on small
instances, and TLAPS proofs that hold for every number of rows, workers and
attempts. `CaseRuntime` and `Correlation` are the core, the life of a case and
the routing of events; the other modules are the parts around it, each with the
concurrency, the failures and the arithmetic that make it hard.

- [1. The system](#1-the-system)
- [2. Plan](#2-plan)
- [3. The models](#3-the-models)
- [4. Runs](#4-runs)
- [5. Proofs](#5-proofs)
- [6. Where code and documents disagree](#6-where-code-and-documents-disagree)
- [7. What is not modelled](#7-what-is-not-modelled)
- [8. Running it](#8-running-it)

## 1. The system

A FastAPI process, one or more RQ workers and a few operator scripts share a
PostgreSQL database, which is the only authority; Redis carries job messages
that hold nothing but an action id. Razorpay (payment links) and an optional
LLM are called over HTTP. All paths below are under `src/backend/app/` unless
they start otherwise.

| Component | Code | State it keeps | Operations |
|---|---|---|---|
| Orchestrator | `services/orchestrator.py` | case, action, promise, event rows | `handle_event` (failure, recovery, paid link, dispute), `handle_customer_reply`; each one transaction under the case's row lock |
| Temporal runtime | `services/temporal_runtime.py` | `Action.status`, `attempt_count`, `claimed_at`, `scheduled_for`; case state | `process_action` (claim, perform, finalize), `reconcile_actions` (expired claims, republish) |
| Action executor | `services/action_executor.py` | case state, link id | `perform` outside transactions, `apply_success`, `apply_terminal_failure`, `apply_reconciliation_failure` inside |
| Promise follow-up | `services/ptp_followup.py` | promise, action, case | `complete_followup` |
| Payment link client | `services/razorpay_client.py` | none (the provider's links) | create, look up by reference id, validate what was found |
| Policy | `services/policy_engine.py`, `ml_policy.py`, `policy_dispatcher.py`, `ml/friction.py`, `ml/costs.py` | none (queries over rows) | `decide`: category ranking, guardrails, stopping rule; adaptive scoring with fallback to rules |
| Diagnosis | `services/failure_diagnosis.py` | none | category of a failure |
| Promise rules | `services/ptp_extractor.py` | none | extract and validate a promise |
| LLM client | `services/llm_client.py` | none | request, retry, validation, fallback |
| Task queue | `services/task_queue.py`, `app/jobs.py`, `app/worker.py` | RQ jobs and registries in Redis | publish one action, publish a case's actions |
| Webhook and case routers | `routers/` | `PaymentEvent` rows | signature, event dedupe, reply endpoint |
| Scripts | `src/backend/scripts/` | rows | `reconcile_actions.py`, `reconcile_payment_links.py`, `process_followups.py` |
| Read models | `services/explainability.py`, dashboards, `src/frontend/` | none | queries and presentation |
| Experiments | `services/experiment_runner.py`, `routers/experiments.py` | experiment rows | run both policies on synthetic cases, list, summarise |
| Model | `ml/train.py`, `ml/manifest.py`, `ml/scorer.py` | two files; a cache per process | train, load, score |

### How the parts interact

A webhook or a reply opens a transaction, finds and locks its case, records the
event, may diagnose the failure and let the policy decide, and writes the new
case state together with an `Action` row: the durable job. After the commit the
action ids are published to RQ. Publishing is not part of the transaction, RQ
delivers at least once, and the reconciliation script publishes again whatever
is `SCHEDULED`. So the row, not the message, is the job, and *every* worker may
try *every* row at *any* time.

A worker processes an action in up to four transactions: claim (`SCHEDULED` to
`EXECUTING`, attempt counted), then outside any transaction the provider call,
then, after an ambiguous answer, a read of the case and a lookup of the link,
then a finalizer which locks case and action again. Requests, other workers and
the reconciler run between any two of these. A claim has no token: a worker is
recognised as the owner of a row only by the row still being `EXECUTING`.

### What is hard

- *Interleaving.* A provider result arrives after the customer disputed, paid,
  promised or a newer decision replaced the action.
- *Crashes.* A worker dies after the provider accepted a link and before the row
  says so; the claim stays until its lease (`ACTION_CLAIM_TIMEOUT_SECONDS`)
  expires and the reconciler recovers it.
- *Ambiguity.* A request times out and is accepted, is accepted late, or is
  refused as a duplicate of an earlier one. Lookups can be ambiguous too.
- *Order.* Capture before failure; the paid webhook of a link before the link is
  recorded; a follow-up against a new reply.
- *Limits.* Attempts are counted at claims and tested at failures, ambiguous
  answers and recoveries; contacts are counted by a query over some statuses.
- *Stale reads.* The policy queries a session that does not flush, a reply is
  read by the LLM before its case is locked, a decision loads the model twice,
  a publisher asks Redis several questions that workers move between.
- *Time.* A guardrail, a promise, a job and a model call each have a clock.
- *Progress.* Every row must end, no case may say `WAITING` with nothing behind
  it, and a promise must not stay pending for ever.

Correctness, per component: the **orchestrator** must never leave a case without
the work its state announces, must let capture and failure arrive in either
order, and must keep a dispute; the **runtime** must claim each row a bounded
number of times, must not finalize work the case no longer wants, and must end
every row; the **executor** must record only links that exist; the **follow-up**
must resolve each promise once; the **policy** must keep its contact budget; the
**queue** must not lose a scheduled row for ever and must not duplicate a job
with the same id; **correlation** must attach each event to one case whatever
the order of arrival; the **adopt script** must keep lock order and eligibility;
the **promise rules** must accept only dates and amounts within policy; the
**LLM client** must return within its job and always with a usable result; the
**model cache** must serve the model on disk; an **experiment** must be whole and
reproducible.

`PROJECT.json` lists every hazard at its line, with the properties about it.

## 2. Plan

1. `CaseRuntime` with its abstract specification `DurableActions`: one case, all
   requests, workers and reconcilers. This is where the program's own difficulty
   is, so it comes first. *Done: runs, refinement, proofs.*
2. `CasePhases` and `CaseLife`: what one case promises to the rest, implemented
   by `CaseRuntime`; and `Correlation` on top of it: events and cases by payment,
   subscription and link id, duplicate event ids, overlapping transactions, prior
   capture, a subscription's case that takes over a payment, link ids overwritten
   by a second link. *Done: runs, refinement, proofs.*
3. `TaskQueue` with its abstract specification `DueDelivery`: RQ registries, job
   ids, publish failure after the commit, loss of Redis, republishing. *Done:
   runs, refinement (its safety half proved), proofs.*
4. `PolicyRules` and `Policy`: diagnosis, guardrails, ranking, stopping rule,
   the view of the not-flushing session, the three modes and the fallback.
   *Done: runs, proofs.*
5. `AdoptLink`: `reconcile_payment_links.py` beside the runtime, with row locks
   and their order as state. *Done: runs, proofs.*
6. `LlmClient`, `CustomerReply`, `ContactJob`: reading replies and drafting
   messages, with the time and the failures of the LLM. *Done: runs, proofs.*
7. `ModelCache` and `Experiment`: the model on disk and in memory, and what is
   said about the policies with it. *Done: runs, proofs.*
8. Proofs. Every safety property and action property that the runs check, and
   the safety half of both refinements of rows (`DurableActions`, `DueDelivery`)
   and of `CaseLife`. *Done.* What remains model-checked is at the end of
   section 5.

Modules take their bounds as CONSTANTS with named assumptions, have one action
per transaction, or per step where the code holds no lock, and no recursive
operator, so that they can be proved about.

## 3. The models

| Module | What it is |
|---|---|
| `CaseRuntime` | one case, its action rows, all processes that work on them |
| `DurableActions` | abstract specification of the action table; implemented by `CaseRuntime` |
| `CasePhases`, `CaseLife` | abstract specification of one case as a machine over phases; implemented by `CaseRuntime` |
| `Correlation` | many cases, many events, overlapping requests; built on the phases of `CasePhases` |
| `TaskQueue` | publishing one row to RQ and its way to a worker |
| `DueDelivery` | abstract specification of a durable timer; implemented by `TaskQueue` |
| `PolicyRules` | what a policy computes from one look at a case (no state) |
| `Policy` | one case under the policy: failures, decisions, rows, the clock |
| `AdoptLink` | the adoption script, workers, reconcilers and requests with their row locks |
| `LlmClient` | what is made of a text and of a provider's answer (no state) |
| `CustomerReply` | the replies to one case, in threads that overlap |
| `ContactJob` | one drafted contact and the time its job has |
| `ModelCache` | training, loading and caching the model |
| `Experiment` | experiment runs in overlapping transactions |
| `MC*` | instances for TLC |
| `CaseRuntimeProofs`, `CorrelationProofs`, `TaskQueueProofs`, `PolicyProofs`, `AdoptLinkProofs`, `CustomerReplyProofs`, `ContactJobProofs` | theorems about the module of that name |
| `ModelCacheProofs` | theorems about `ModelCache` and `Experiment` |

The two detailed modules meet in `CasePhases`: `Correlation` moves a case by the
operators `OnFailure`, `OnRecovery`, `OnReply`, `OnWork` without knowing rows or
workers, and `ImplementsLife` (checked and proved) says that rows and workers
never move a case otherwise. The modules around them take one piece of
`CaseRuntime` each and open what it leaves abstract: `TaskQueue` its
at-least-once delivery (`ImplementsTimer` is what `CaseRuntime`'s fairness
assumes), `Policy` its free choice of a decision, `AdoptLink` the locks behind
its atomic transactions, `CustomerReply` and `ContactJob` the reply and the
contact that are one step there.

### The durable-action runtime: `CaseRuntime`

`CaseRuntime.tla` is one case with its rows, any set of workers and reconcilers,
the provider and time. The unit of atomicity is the database transaction: the
code locks the case row (and then the action row) before it reads what it acts
upon, and where it reads without a lock the model has a step of its own.

| Model | Code |
|---|---|
| `caseState`, `caseLink` | `RevenueCase.state`, `.razorpay_payment_link_id` (as the action whose id is the link's reference id) |
| `captured` | what a capture of the case's present payment was recorded on: nothing yet (`none`), no case (`unlinked`), this case (`here`), another case of the subscription, or the payment was taken over later (`missed`) |
| `n`, `type`, `status`, `attempts` | the action rows in `created_at` order |
| `due` | `scheduled_for <= now` |
| `leased` | `claimed_at` is younger than the claim timeout |
| `promise[a]` | `PromiseToPay.status` of the promise that action `a` follows up |
| `link[a]` | the provider's link with reference id `a`; `posting` is a request that left and may still be accepted |
| `pc`, `job` | where each process is between two transactions, and on which row |

Intermediate case states (`DETECTED`, `DIAGNOSED`, `DECISION_READY`) are entered
and left in one transaction and do not appear.

| Action | Code |
|---|---|
| `OpenCase`, `RepeatFailure` with `TakeOver`, `Capture` with `RecordCapture`, `LinkPaid`, `Dispute` | `handle_event` and its `_handle_*` branches |
| `ReplyDispute`, `ReplyUnclear`, `ReplyPromise` | `handle_customer_reply` |
| `Decide` (part of four actions) | `decide_for_case`, `_record_decision`; the policy's choice is any of `PolicyChoices` its guardrails allow |
| `Claim` | `_claim_action`, the cancelling branch included |
| `Perform`, `CheckAmbiguous`, `LookupUnanswered`, `LookupAnswered` | `perform`, `_handle_ambiguous_payment_link`, `find_payment_link_for_action` |
| `CompleteWait`, `CompleteFollowUp`, `CompleteExternal`, `RetryOrFail`, `RejectLink`, `FinalizeCancelled`, `FinalizeNothing` | `_complete_*`, `_record_external_failure`, `_schedule_ambiguous_retry`, `apply_reconciliation_failure`, `_cancel_stale` |
| `ListExpired`, `CheckExpired`, `RecoverClaim` | `reconcile_actions`, `_reconcile_stale_payment_link` |
| `FallsDue`, `LeaseExpires`, `ProviderStep`, `Crash` | time, the provider, process deaths |

Choices worth knowing:

- `SuspendedWorkers`. With the default settings a job is killed after 30 s and a
  lease lasts 300 s, but nothing validates that order, and a worker process can
  be suspended. When the constant is TRUE a lease may expire under a living
  worker, so that two processes finalize one row.
- The policy's amount limit, cooldown, seven-day window and ranking are a free
  choice: every property holds whatever they decide. Its two guardrails that
  relate to the rows, no repeated wait and the contact count, are modelled,
  with the statuses their queries see: the session does not autoflush
  (`core/database.py:7`), so `_handle_existing_failure` decides on rows it has
  already cancelled in memory and the query still sees `SCHEDULED`, while
  `_complete_wait` flushes first. This is `Decide(seen, st)`.
- Event deduplication and the search of an event's case are `Correlation`'s;
  here an event has found the case, except where *not* finding it matters to one
  case: a capture that was stored before the case was opened (`unlinked`,
  which `_prior_unlinked_recovery` finds), a capture that another case was
  credited with or that a taken-over payment brings along (`missed`, which
  nobody looks for), and `LinkPaid` for a link not recorded.
- `LookupAnswered` may end in a mismatch whatever the link is: the code gives the
  same answer for a dead link, one of another amount, several links, and a
  lookup that the provider refuses for good.
- Bounds: `MaxActions` rows (`HasRoom` in the guard of an insert; a wait keeps a
  row free for the decision its completion makes, so the bound never blocks a
  worker), `MaxAttempts` and `MaxContacts` are the code's own settings.

`DurableActions.tla` is what the table of action rows promises to the rest of
the system: rows are inserted in order, only the newest live row is claimed, put
back or completed, claims are bounded, a finished row stays finished, and new
work replaces scheduled work in the same step. It knows no case, process,
provider or clock. `ImplementsTable` says that `CaseRuntime` implements it
under the identity on `status` and `attempts`.

### The routing of events: `Correlation`

`Correlation.tla` is the other side of the orchestrator: which case an event
belongs to, for many cases, payments, subscriptions and links, in any order of
arrival, with redeliveries, rollbacks and overlapping transactions.

| Model | Code |
|---|---|
| `Events` | the provider's events; one record is one `x-razorpay-event-id` |
| `payment`, `sub`, `link` | the three identifying columns of `RevenueCase` |
| `phase` | what the routing needs to know of `RevenueCase.state` and of pending promises |
| `stored`, `linked` | the committed `PaymentEvent` rows and their `revenue_case_id` |
| `handling`, `found` | the open transactions: the event, and the case that is locked |
| `madeFor` | the case for which a link was created at the provider |

| Action | Code |
|---|---|
| `Receive` | `razorpay_webhook` up to the lookup: insert under the unique event id, then the lookup of `_handle_failure`, `_handle_recovery`, `_handle_payment_link_paid` or `_handle_dispute` (`Matches`), with the row lock |
| `FailKnown`, `FailRaced`, `OpenCase` | the three ends of `_handle_failure`: a known case, which may take over a new payment; the insert that met the unique index; a new case, closed at once by a prior unlinked recovery |
| `Recover`, `Dispute`, `StoreUnlinked` | the other handlers, and the event that finds no case |
| `RollBack` | a process that dies or a commit that is refused; the provider delivers again |
| `Reply`, `Work`, `RecordLink` | `handle_customer_reply`, and the runtime, between events |

A webhook request is one database transaction; it is two steps here because
`SELECT ... FOR UPDATE` is where it waits for others and what it read there is
used after it. `razorpay_webhook` is an `async def` that awaits nothing after it
has read the body, and the production compose file starts one API process, so in
that deployment requests do not overlap; with more processes they do. `Requests`
has several elements, and the history variable `overlapped` records whether two
were ever under way together: two of the properties hold only as long as it is
FALSE, and say so. A link is created and recorded in one step
here; the gap between the two is `CaseRuntime`'s.
`ByEvent` lets any earlier event of a payment choose the case: the code takes the
latest by a process-local clock.

### The queue: `TaskQueue`

| Model | Code |
|---|---|
| `status`, `attempts`, `due`, `stamp` | `Action.status`, `.attempt_count`, `.scheduled_for`, `.queue_job_id` with `.enqueued_at` |
| `record`, `queued`, `score`, `intermediate`, `started` | RQ's job hashes, list, scheduled registry, intermediate queue and started registry |
| `pub`, `work` | where each publisher is inside `enqueue_action`, and each RQ worker with its job |

| Action | Code |
|---|---|
| `ReadRow`, `FetchJob`, `LookInList`, `LookInIntermediate`, `LookInScheduled`, `LookInStarted`, `DeleteJob`, `EnqueueJob`, `Stamp`, `PublishFails` | `enqueue_action` and `_job_is_registered`, one step per question to Redis |
| `MoveDue`, `TakeJob`, `BeginJob`, `Abandon`, `FlushRedis` | RQ 1.16's scheduler, workers and registry cleanup; a lost Redis (external) |
| `CommitRow`, `CancelRow`, `Claim`, `Finish`, `Retry`, `RecoverClaim` | the writes of the rest of the system to the row |

A job id is the action and its `attempt_count`. The clock counts half seconds
because `scheduled_for` has fractions and RQ's scores have not; that is the
reason for the rounding in `enqueue_action`, and the property `NeverEarly` is
about it. `DueDelivery` is what is left of all this for the rest of the system:
a timer per row that starts no attempt early and every due row in the end.
`ImplementsTimer` is the refinement, the liveness part included.

### The policy: `PolicyRules`, `Policy`

`PolicyRules` has `classify_failure` (`Classify`: the first rule of a sequence
that applies), `_check_action_allowed` (`Allowed`), the baseline's ranking
(`BaselineChoice`), `_adaptive_choose` (`AdaptiveChoice`, two stable sorts as an
order) and `guardrail_visibility` (`View`), which computes the guardrails a
second time. A failure is described by which needle groups its texts contain.

`Policy` applies them over the life of a case. `FailedPayment` is
`_handle_failure` for the new, the known and the settled case, `CompleteWait` is
`_complete_wait`; both call `DecideForCase(rs, seen, count, ...)`, in which `rs`
are the rows the transaction has written and `seen` and `count` what its queries
find: the session does not autoflush, so a decision on a failure sees neither
the cancellations nor the audit event made a moment earlier, while a completed
wait is flushed. `Baseline`, `Shadow` and `Adaptive` are the modes of
`policy_dispatcher`. The model is any function of `Forecasts`, or it fails.
`Claim`, `Perform`, `CompleteContact` and `GiveBack` are the rows' life,
shortened to what the guardrails can tell apart. A case with a subscription may
take over another payment and its amount at any later failure (`TakesOver`,
`_handle_failure`), and decides with the new amount. That is why the amount
guardrail is only about contacts that are still to come (`DueContacts`): one
that was carried out before stays in the case's history whatever its amount is
now, and one that is being carried out is superseded by the new decision.

### Adopting a link: `AdoptLink`

The unit is the row lock. A transaction asks for its locks one after the other
(`NextLock`: the runtime the case first, the script the action first, a request
the case and then each row its flush writes), then reads, writes and commits at
once. `Abort` is PostgreSQL ending a deadlock. `PickById`, `LookUp`, `Flip` and
`Complete` are `reconcile_one`: the row is taken by its id whatever its status,
the provider is asked outside any transaction, a scheduled row is marked as
being executed and then completed by the worker's function. The script's mark
does not count a further attempt after the first, so its rows are not those of
`DurableActions`. `Claim`, `Post`, `PutBack`, `Recover`, `Drop`, `Failure`,
`Capture` are the runtime and the orchestrator, reduced to one action type.

### Replies and drafts: `LlmClient`, `CustomerReply`, `ContactJob`

`LlmClient` says what becomes of a text (`Simulated`, the deterministic
extraction), of a provider's answer (`Extract`: validation, injection downgrade,
fallback, and the exception nobody catches) and of a promise (`Valid`). A text
is what it says and names, an answer is an object of classified values; `nan`
is a class of its own, because Python's `json` reads it and no comparison
rejects it.

`CustomerReply` is the endpoint in the threads of the API process. `Receive`
reads the date, `Read` is the extraction without a lock, `Handle` is
`handle_customer_reply` under it, `StoreFails` its refused flush. `FollowUp`,
`Paid`, `Disputed` and `Midnight` are what else happens to the case meanwhile.

`ContactJob` is a row whose external call is only a draft. Time is counted inside
the job, in units of the shortest pause; `Post` is one turn of
`_post_with_retries`, `KillJob` the job timeout in the middle of it. httpx bounds
each wait and not the whole call, so a post that times out takes at least
`Timeout` and any post at most `LongestPost`. The history variable `lost` counts
the attempts whose job was killed or died: `FailsOnlyAfterLosses` says that these,
and nothing the provider answers, are what can cost a row.

### The model: `ModelCache`, `Experiment`

`ModelCache` has a step for each access to a file or to the global `_cache`:
`train` truncates, writes and closes `model.joblib` and then `manifest.json`;
`_load` is `Stat`, `Hit` or `Load`, `Hash`, `ReadManifest`, `Store`. A file's
content is the training run it came from and whether it is whole. A decision
loads twice, first to rank and then for the fingerprint; each is a load here.

`Experiment` has `run_experiment` arm by arm (`Begin`, `Decide`, `Fail`,
`Commit`), retraining and restarts around it. A model that is being rewritten
cannot be read. The adaptive choice is any action. Outcomes are a function of
seed, draw and action, which stands for the hash compared with the true
probability; `Outcome` has the cache that both arms of a scenario share. Its
specification is `RunSpec`, named apart from `ModelCache`'s `Spec` so that one proof
module can extend both; they share no state.

The operators marked *Fault, not in the code* stand beside the definition they
disturb; each is a plausible mistake that some run detects, which is how the
properties were tried out.

## 4. Runs

The `MC*` modules hold the instances' sets. Deadlock is checked in the runs of
`CaseRuntime` and `Correlation` (a case can always be disputed again, or worked
on without effect, so there is always a step). The other modules stop where
their bounded clock, faults, replies or trainings are used up, and a settled
`ContactJob` really is at its end; their configurations say `CHECK_DEADLOCK
FALSE`. Of the type invariants, `CaseRuntime`'s is in its run, those of
`Correlation`, `TaskQueue`, `Policy`, `AdoptLink`, `ContactJob` and `ModelCache`
are proved for all constants. That `TaskQueue`, `AdoptLink`, `CustomerReply` and `ContactJob` do not
stop too early is what their liveness properties are for.

| Run | Question | Bounds | Properties |
|---|---|---|---|
| `claims` | Do two workers and a reconciler on the same rows, with retries and a lease that expires under a worker, keep the promises of the table and of the case? Does work that replaces work leave a case stranded, a promise forgotten, or the contact budget exceeded? | 2 workers, 1 reconciler, 2 rows, 2 attempts, 1 contact, 4 kinds of action | `TypeOK`, `AttemptBudget`, `RecordedLinkExists`, `WorkBehindState`, `PromiseIsFollowedUp`, `ContactBudget`, `CapturedMeansHandsOff`, `HandsOffForGood`, `ImplementsTable`, `ImplementsLife` |
| `liveness` | Does everything end under fair scheduling? | 1 worker, 1 reconciler, 2 rows, 2 attempts | `EveryActionEnds`, `AutomationEnds`, `PromiseIsResolved` |
| `requests` | What do the unique index and the row locks guarantee when requests overlap, and what holds as long as they do not? | 2 requests, 3 cases; racing: 6 events of two payments of one subscription, one of them twice; else 7 events, not overlapping: two payments of a subscription and its halt, a capture, a payment of its own that fails and is captured, a paid link | `OneCasePerPayment`, `RecoveredHasEvidence`, `TakesOverWhileOpen`, `OneAutomatedCasePerSubscription`, `OrderDoesNotMatter` |
| `queue` | Can publishers, scheduler and workers lose, hasten or strand a job, and does every due row start although Redis fails? | 1 row, 2 publishers, 1 worker, 2 attempts, 2 half seconds, 1 fault | `NeverEarly`, `StampedIsPublished`, `ImplementsTimer` |
| `policy` | Do the guardrails hold over the life of a case, in every mode? Does a failing model strand it, and do the friction profiles do what they are named for? | 4 kinds of failure, 4 of them in a case, 4 rows, 2 amounts, times 0 to 4, limits 2 per case and 1 per window, cooldown and window 1, stop after 2, 2 forecasts | `WithinGuardrails`, `WaitsOnce`, `StopsAtMostOneLate`, `ViewAgrees`, `NeverStranded`, `GentlerWithWeight` |
| `adopt` | Can the script adopt what it should not, and do claims end in spite of deadlocks and a script that dies? | a worker, a reconciler, a script, a request; 2 rows, 2 attempts, 2 events, 2 faults | `AdoptedExists`, `LinkMovesForward`, `StaysOutOfAutomation`, `ClaimsEnd` |
| `reply` | What can two replies, read at the same time by any model, do to a case, and is every promise that is waited for settled? | 2 threads, 2 replies, 8 texts, 10 answers, 3 providers, 2 days | `InjectionRecordsNothing`, `PromiseOfItsDay`, `EndedStaysEnded`, `WaitEnds` |
| `contact` | What does it take to fail a drafted contact, and does its row end when jobs are killed? | the shipped settings: 3 attempts, 2 retries, posts that time out after 50 to 60 units of 0.2 s, jobs of 150; 3 faults | `FailsOnlyAfterLosses`, `RowSettles` |
| `cache` | Does the cache notice every retraining? | 2 threads, 2 training runs, 4 loads | `KeyNamesContent` |
| `experiment` | Are runs whole, and do they and their arms compare? | 2 runs, 2 scenarios, 2 actions, 2 seeds, 1 training, 1 restart | `RunsAreWhole`, `SeedDecides` |
| `dispute_overwritten` | Does a dispute always win, as the documents say? It does not. | 1 worker, 1 reconciler, 1 row, 1 attempt | `DisputeIsFinal` (violated, section 6) |
| `llm_outage_fails_row` | Does an LLM outage alone never fail a contact, as the documents say? With the shipped settings it does. | as `contact`, no fault | `NeverFailedByLlm` (violated, section 6) |

Why these bounds. Every safety property of `CaseRuntime` relates at most two
rows, an older one and the one that replaced it. One process finalizes
a row at a time; the conflicts of processes are between two of them on one row,
and `claims` has two workers and a reconciler, so that a third is there when two
conflict. Two attempts give a first, a last and an exhausted one. The proofs
remove the bounds for the safety properties. In `Correlation` a property relates
two cases, or a case and an event; three cases leave one to take over from, and
the sets of events contain each kind, each with and without a payment or
subscription where the code tells these apart. A conflict is between two
requests, whatever a third does.

In `TaskQueue` a job id belongs to one row and rows share nothing but the clock,
so one row is enough; two publishers and a worker give each pair of a conflict (the
production compose file starts one `rq worker`), and two half seconds a fraction
and a whole second. In `Policy` the settings are scaled down so that each limit
stops a contact within the bounds: one contact per window of two instants, two
per case, so that the limit per case also stops one when the window is free
again; one amount below the limit and one above; and four failures go past the
stopping rule twice. With these numbers the window limit implies the cooldown;
that the cooldown holds where it is the stricter of the two is left to the
theorem, which is for all values. `VIEW Relevant` of `MCPolicy` identifies states
that differ only in what a row that has ended, or a settled case's category, no
longer tells anybody. In
`AdoptLink` two rows are an old and a newer one, a deadlock is between two
transactions, and the second fault lets a deadlock follow a death. Two replies
can overtake each other, and a horizon of two days has a first, a last and a day
beyond. In `ContactJob` the bounds are the shipped settings, in units of 0.2 s;
three faults are one for each attempt.

`SYMMETRY` is used for the two workers in `claims` and the two requests in
`requests`; no liveness property is checked there. The constraint `Workload` of
`MCCorrelation` keeps the two sets of events of `requests` apart: racing requests
may overlap, the larger mix of events comes one request at a time. `claims` also has
`VIEW Relevant`, which identifies states that differ only in what cannot matter
any more: attempts, schedule and unrecorded link of a row that is over, where a
process is that still works on such a row (every finalizer drops it, and what it
does at the provider before that is that row's unrecorded link), how a promise
ended, and, for a case that is over or with a person, captures and what a process
found out (it cancels the row whatever it found, except for a mismatch). That
such a case stays so is `HandsOffForGood`, checked in the same run. No guard that can change anything else, and no property of that
run, reads these (`AttemptBudget` and `ImplementsTable` read `attempts` of rows
that can still be claimed; `TypeOK`'s range of `attempts` is reached while the row
is claimed).

### Fairness

`FairSpec` assumes: time passes; the worker takes its next step if it stays
possible (the production compose file runs it `restart: unless-stopped`); the
reconciliation runs again and again (the runbook repeats it) and reaches its
end; and the provider, if asked for ever, answers a lookup at some point
(strong fairness of `LookupAnswered`). Workers may crash at any time and owe
nothing; requests owe nothing. The last assumption is needed: the reconciler's
lookup is repeated without a count while its answers stay ambiguous (section 6).

The other liveness properties assume as little. `TaskQueue`: the reconciliation script
publishes every scheduled row again and again (strong fairness of `ReadRow`,
because cancellations and claims come between), a publisher goes on, RQ's
scheduler and workers run, a worker takes a queued id in the end, a claim ends.
Nothing is assumed of requests, and faults are bounded: a Redis that is lost for
ever delivers nothing. `AdoptLink`: row locks are granted in turn and PostgreSQL
ends every deadlock; the script, like every process, may die. `CustomerReply`: a
post ends with its timeout, a lock is granted, follow-ups are carried out
(`queue`), days pass. `ContactJob`: the row is published, the job goes on
or is killed, the script recovers expired claims.

## 5. Proofs

`CaseRuntimeProofs` is proved to the last leaf for every `Workers`,
`Reconcilers`, `MaxActions`, `MaxAttempts`, `MaxContacts` and `PolicyChoices`
that satisfy the assumptions in `CaseRuntime` (the process sets are disjoint; at
least one row and one attempt; the policy can escalate and does not itself
create follow-ups; the lease assumption is a Boolean); `CorrelationProofs` for
every `Events`, `Links`, `Requests` and `MaxCases` (events are of the four kinds,
null is not an event, at least one case).

`TaskQueueProofs` is for every `Rows`, `Publishers` and `Workers` and all bounds,
with at least one attempt (`ACTION_MAX_ATTEMPTS` is 3: a row that may not be
attempted would still be scheduled) and a clock that ends on a whole second, as
a job's score does. `PolicyProofs` is for all guardrail limits, cooldowns,
windows, failures, amounts, weights, modes and forecasts of the types that
`GuardrailAssumption` and `PolicyAssumption` give. The theorems about
`Experiment` need no assumption at all: neither the table of outcomes nor the
baseline matters.

The other proof modules are for all constants under the assumptions that
their component declares; those are the types of the bounds, disjoint sets of
processes, `Timeout <= LongestPost`, and for `ContactJob` that the pauses, powers of two,
are natural numbers (TLC evaluates all of them).

| Theorem | Module | States | Argument |
|---|---|---|---|
| `TypeCorrect`, `BudgetHolds` | `CaseRuntimeProofs` | `TypeOK`, `AttemptBudget` | `IInv` below |
| `HandsOffIsForGood` | `CaseRuntimeProofs` | `HandsOffForGood` | each write to the case or the promises either starts from outside `HandsOff` or stays inside; a claim needs a state that `HandsOff` excludes |
| `CapturedIsHandsOff` | `CaseRuntimeProofs` | `CapturedMeansHandsOff` | a capture that finds the case makes it `HandsOff`, which stays; a case opened after a capture that no case was found for is recovered at once. Captures credited to another case, and those of a payment taken over later, are not covered (section 6) |
| `TableIsImplemented` | `CaseRuntimeProofs` | `ImplementsTable` | `StepMaps`: each step is a `DurableActions` step or leaves the table alone |
| `NoCaseIsStuck` | `CaseRuntimeProofs` | `WorkBehindState` | `WInv` below |
| `ContactBudgetHolds` | `CaseRuntimeProofs` | `ContactBudget` | counting, below |
| `LifeIsImplemented` | `CaseRuntimeProofs` | `ImplementsLife` | one lemma for each write to the case: decided, recovered, handed over |
| `TypeCorrect`, `PaymentsHaveOneCase`, `RecoveriesHaveEvidence`, `ClosedCasesKeepPayment` | `CorrelationProofs` | `TypeOK`, `OneCasePerPayment`, `RecoveredHasEvidence`, `TakesOverWhileOpen` | `RequestsOK` below; any number of requests |
| `SubscriptionsAreAutomatedOnce`, `PlainOrderDoesNotMatter` | `CorrelationProofs` | `OneAutomatedCasePerSubscription`, `OrderDoesNotMatter` | `SInv` below; as long as no two requests have overlapped |
| `RecordedLinkIsReal`, `PromisesAreFollowedUp` | `CaseRuntimeProofs` | `RecordedLinkExists`, `PromiseIsFollowedUp` | `JobsFit`; the current-row argument for follow-ups |
| `TypeCorrect`, `AdoptedLinksExist`, `NewestLinkStays`, `ClosedStaysClosed` | `AdoptLinkProofs` | `TypeOK`, `AdoptedExists`, `LinkMovesForward`, `StaysOutOfAutomation` | what a process between two transactions knows |
| `InjectionsRecordNothing`, `PromisesAreOfTheirDay`, `EndedForGood` | `CustomerReplyProofs` | `InjectionRecordsNothing`, `PromiseOfItsDay`, `EndedStaysEnded` | what was extracted fits the text it was extracted from |
| `TypeCorrect`, `RowsFailOnlyAfterLosses` | `ContactJobProofs` | `TypeOK`, `FailsOnlyAfterLosses` | `LossesCounted`, below |
| `TypeCorrect`, `CachedUnderItsStat` | `ModelCacheProofs` | `TypeOK`, `KeyNamesContent` | drafts and cache are never ahead of the file |
| `ExperimentsAreWhole`, `SeedsDecide` | `ModelCacheProofs` | `RunsAreWhole`, `SeedDecides` | `RunInv` below |
| `TypeCorrect`, `NoneRefusedEarly`, `StampIsTrue` | `TaskQueueProofs` | `TypeOK`, `NeverEarly`, `StampedIsPublished` | the queue's `IInv`, below |
| `StepsOfTheTimer` | `TaskQueueProofs` | the safety half of `ImplementsTimer` | each step is a `DueDelivery` step or leaves the rows alone |
| `TypeCorrect`, `AlwaysDecided`, `StopsInTime` | `PolicyProofs` | `TypeOK`, `NeverStranded`, `StopsAtMostOneLate` | conjuncts of the policy's `IInv`, below |
| `GuardrailsHold`, `NoRoundOfWaits`, `OperatorSeesTheGuardrail` | `PolicyProofs` | `WithinGuardrails`, `WaitsOnce`, `ViewAgrees` | `Guarded`, `WaitsAreNew`, `InOrder` below |
| `StrongerIsGentler` | `PolicyProofs` | `GentlerWithWeight` | an exchange argument on two weights and the two actions they rank first; needs only the types |

**`IInv`** is `TypeOK` strengthened by: a row that does not exist has no attempts
and no promise; a case that does not exist has no rows; a process that is not
idle has a real row. Without the first an insert could create a `SCHEDULED` row
with its attempts spent.

**`WInv`**. `WorkBehindState` is not inductive: a row may be cancelled by a
process that decided so earlier, without a lock (`pc = "cancel"`). The
strengthening says that (a) every case that is not hands-off has a *current
row*, one that exists, is wanted and not superseded (`HasCurrentRow`), and
(b) whoever is about to cancel without looking again has a row that is
superseded or whose case is hands-off (`CancelIsJustified`), and that this stays
so. (b) is the point where the unlocked reads in `temporal_runtime.py` are shown
to be harmless: what they saw can only become more true.

**`ContactBudget`** does not follow from the guardrail at first sight, because
the guardrail's query does not count a contact that is `EXECUTING`. It holds
because a running contact is superseded by whatever the decision inserts, so it
can never complete. The invariant counts the executed contacts together with the
one row, if any, that can still complete.

**`JobsFit`** says which steps a process can be in with which type of action, and
that a process about to complete a link has one the provider holds; a link never
goes back to `none` or `posting`.

**`RequestsOK`** (`Correlation`) says that no two open transactions have the same
event or the same case, that their events are not stored yet, and that a failure
which found a case still sees in it what made it a match: its payment, or an open
case of its subscription. The row lock is what preserves it, which is why the
fault `Unlocked` breaks it.

**`SInv`** adds what a request knows that found *no* case, which no lock protects:
no automated case of its subscription (`NoRival`), no other case of its payment
(`OnlyCaseSeen`). Another request could open one meanwhile, so `SInv` also says
that no two requests have overlapped (`RequestAlone`); it holds until they do,
and the two theorems are about that time. `PlainCases` and `PlainEvents` say
that a payment without a subscription never moves between cases, and that its
events are linked to its case. That `BySub` finds a case if there is one needs
the existence of a greatest element (`LatestExists`, from the well-foundedness
of the natural numbers).

**Adopting a link.** There is no lock between `LookUp` and `Flip`, so the
invariant of `AdoptLinkProofs` says what each process between two transactions
still knows: a process about to complete a row has a link that the provider
holds, and a process inside a transaction owns the locks that its writes need.
`LinkMovesForward` follows because `Eligible`, read again under the locks,
excludes a row with a newer live one, and the newest live row is the only one
whose link can be recorded.

**Replies.** What a thread has extracted fits the text it was extracted from: an
injected text gives `uncertain`, and a promise has a date within the horizon of
the day *its* reply was received. It stays so however long the thread waits for
the row lock, because `Valid` is computed with the thread's own date and not
with the clock of the moment. `EndedForGood` only needs that `Handle` looks at
the case again under its lock.

**The contact's attempts.** `LossesCounted` says that every attempt has lost its
job but the one under way, if there is one: a row that is put back, recovered or
failed was always left by a dead or killed job, because a job that comes to the
end of `draft_with_fallback` settles the row. The budget of attempts is then the
number of losses of a row that has none left.

**The cache.** No draft and no cache entry is ahead of the file: its key is a
`stat` of the file at or before the read, so if the key is still current, nothing
was written in between. The manifest is never ahead of the model.

**The queue** (`IInv` of `TaskQueueProofs`). `NeverEarly` is not inductive: a job
gets into the queue through a publisher that read the row some steps ago, or
through RQ's scheduler, and neither looks at the row again. What holds is that
whatever may still bring a job of the row's *current* generation
has the row's own time: the publisher that read it and the score it was entered
with (`SameDue`). This is so because a row that is scheduled again has
a new generation, and nothing of a generation that is still to come exists
anywhere (`NoneAhead`: a job in the queue, a registry, a publisher or a worker is
of a generation the row has been scheduled for). `OneExecutes`, which says that
only the worker that claimed the row works on it, is why no other one can
schedule it again. For `StampedIsPublished` one needs to know, as long as nothing
failed, that a job without a record is just being put back (`Entered`), that what
is running has its worker (`Attended`), and that the statement holds one step
ahead, for the publisher that is about to stamp (`StampedIsPresent`). The first
fault makes all three void, as it does the property.

**The timer**. With `RowsOK` (a scheduled row has an attempt left) and
`OneExecutes`, every step of `TaskQueue` is a step of `DueDelivery` on the rows:
`CommitRow` and a retry put, `Claim` starts, `Finish` and `CancelRow` end; all
that publishers, RQ and a flush of Redis do is a stutter.

**The policy** (`IInv` of `PolicyProofs`). Guardrails are checked once, when a
contact is decided, against the contacts that count *then*; the property is
about all of them at all times. A contact does not count while it is carried
out and counts again afterwards, so the property alone is not inductive. The
invariant says `Guarded` of `Outreach`: the contacts that count and the one
being carried out, if it is the last row. A decision adds to it only what the
guardrail admits, because it supersedes the row before it, which
then is cancelled or, if it is being carried out, can no longer be completed
(`GuardedGrows`); every other step makes it smaller (`GuardedShrinks`).
`InOrder` (rows are in the order of their times, none in the future) makes the
window at the new contact the fullest one, and the latest contact the only one
the cooldown has to look at, which is also why the operator's page agrees
(`ViewAgrees`). `LatestIsPending` says that a case in `WAITING` or
`ACTION_SCHEDULED` has its last row pending, of a type that leads to that state;
it is what makes `WaitsAreNew` inductive: the wait that the case is in has not
yet been done, and a policy does not choose one that has. For the choice itself
one needs that a ranking has a first element (`TopExists`), from the
well-foundedness of the natural numbers, since the rankings are by `CHOOSE`.

**The experiments** (`RunInv`). The rows of a run are, in their order, a pair for
each scenario, with at most twice `count` of them, and exactly as many once it is
done; each has the outcome that seed, scenario and action determine, whether it
was drawn or found in the cache of outcomes (`OutcomeIs`). What is visible is
done.

Model-checked only: the liveness properties (`EveryActionEnds`, `AutomationEnds`,
`PromiseIsResolved`, `ClaimsEnd`, `WaitEnds`, `RowSettles`) and the fairness half
of `ImplementsTimer`, since fairness and ENABLED are outside the proof system;
and the two violations. Every invariant and action property of the other runs
is proved.

## 6. Where code and documents disagree

`dispute_overwritten` is shown by a run. A link lookup ends in a mismatch and
`apply_reconciliation_failure` sets the case to `HUMAN_REVIEW` although a dispute
was committed during the lookup; the document says a dispute always wins. Every
other finalizer re-checks the case; this one only the row. `HandsOffForGood`
holds in spite of it: `HUMAN_REVIEW` is still hands off.

`llm_outage_fails_row` is shown by a run, with the shipped settings and no fault
of ours. `draft_with_fallback` falls back when the last of three posts has
failed; with 10 s each and two pauses that is after 30.6 s (in units of 0.2 s,
3 x 50 + 1 + 2 = 153 > 150), and RQ kills the job at 30 s. After three such
attempts `reconcile_actions` marks the row `FAILED`, where `ARCHITECTURE.md:449`
says that an LLM outage alone never does. (The LLM is off by default; a job
timeout longer than the retries would restore the sentence, but for a response
that trickles in without end, because httpx bounds each wait and not the whole
call.) `FailsOnlyAfterLosses` is what holds for every setting.

While the models were written the following was read in the code. The models
behave as the code does; the statements of the documents are therefore not among
the properties, and each list item says what holds instead where something does.

*Cases and events*

- The paid webhook of a link that is recorded on the case only later finds no
  case and is not looked at again (`orchestrator.py:404`).
- A subscription's open case takes over a payment whose capture was stored
  before any case could be found for it; the prior recovery is only looked up
  when a case is created (`orchestrator.py:254`). And a capture credited to
  another open case of the subscription does not suppress a later failure of its
  own payment (`orchestrator.py:106`, `354`), because only unlinked captures are
  looked for. `docs/CURRENT_STATE.md:27` says of both that "an out-of-order recovery
  signal prevents later failure automation". They are the `missed` captures of
  `CaseRuntime`, which `CapturedMeansHandsOff` excludes; `OrderDoesNotMatter`
  holds for payments without a subscription.
- A take-over rewrites the case's amount (`orchestrator.py:256`): a contact that
  was carried out may belong to a case whose amount is by then above the limit
  for automation. `WithinGuardrails` is about contacts still to come.
- A dispute of the payment made through a link is looked up only in the case's
  payment column, and the recovered case stays recovered (`orchestrator.py:444`).
- The case has one column for a link: a second link replaces the first, whose
  payment then finds no case.
- The reconciler's lookup has no bound while its answers stay ambiguous
  (`temporal_runtime.py:464`).

*Policy*

- The stopping rule does not count the failure being handled, because the
  session does not autoflush; `StopsAtMostOneLate` is what holds.
- The contact guardrails do not count a contact that is `EXECUTING`, so a second
  one may be decided while the first is with the provider. `WithinGuardrails`
  says that the two are never both *counted*; it does not say that the provider
  sends one of them only.
- A shadow scoring that fails leaves no audit event: `shadow_recommend` catches
  it before the dispatcher can (`ml_policy.py:174`).
- In adaptive mode an `UNKNOWN` failure is acted on as the model ranks it
  (`ml_policy.py:78`); the documents promise a person.

*Links, queue and model*

- `reconcile_one` locks the action before the case, everything else the case
  first (`reconcile_payment_links.py:83`). PostgreSQL ends the deadlock, and
  `ClaimsEnd` holds.
- `--all-ambiguous` finds rows by a word in `last_error`, which publishing the
  row clears (`task_queue.py:121`).
- A decision loads the model twice, to rank and for its fingerprint, and a model
  loaded between the two writes of a training run keeps the former manifest's
  fingerprint (`KeyNamesContent` says that it is never a later one). A thread
  that found the cached key current returns what another stored since.

*Replies, drafts and experiments*

- Replies are handled in the order in which their extraction ends, so an older
  one can supersede a newer one's promise (`cases.py:413`).
- A provider's JSON of another shape raises `AttributeError`, and an amount `NaN`
  passes the validation and fails at the flush: the endpoint answers 500
  (`llm_client.py:809`, `833`).
- `PAYMENT_CLAIM_PHRASES` is used by nothing: "already paid" with an amount and a
  day becomes a promise (`llm_client.py:73`).
- An extraction that crosses midnight records a promise for a day that is over
  (`cases.py:410`).
- An experiment names the model that was on disk when it began; every adaptive
  decision loads it anew (`experiment_runner.py:116`). The list of runs is built
  from 500 rows, fewer than two runs of 250 scenarios have.

## 7. What is not modelled

*Of the modelled parts.* Prompts, wording, draft texts and the regular
expressions of the deterministic extraction (a text is what it says and names);
the validation of a link that was found (a choice between a valid and an invalid
one); costs and contact counts of an experiment's summary (sums of columns); the
list of runs and `--all-ambiguous` (queries that write nothing). The 7-day
window and the cooldown are choices in `CaseRuntime`, whose results hold for
every setting of them, and numbers in `Policy`.

*Parts left out.* Fitting the model and predicting with it are floating-point;
the model is any table of probabilities. Dashboards, health endpoints, most of
`explainability.py` and the frontend are read models without state of their own.
Signature checks, configuration, logging and failure injection have no state a
case depends on; what is configured is a constant. Migrations are schema
definitions. `demo_reset` deletes rows seeded for a demonstration.

## 8. Running it

```
tlc -workers 2 -config CaseRuntimeClaims.cfg MCCaseRuntime.tla
tlc -workers 2 -config Correlation.cfg MCCorrelation.tla
tlc -workers 2 -config TaskQueue.cfg MCTaskQueue.tla
tlc -workers 2 -config Policy.cfg MCPolicy.tla
tlc -workers 2 -config AdoptLink.cfg AdoptLink.tla
tlapm CaseRuntimeProofs.tla
tlapm CorrelationProofs.tla
tlapm PolicyProofs.tla
tlapm TaskQueueProofs.tla
```

The runs take up to about four minutes each, the proofs about four together.
