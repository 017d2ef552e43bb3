------------------------------ MODULE TaskQueue ------------------------------
(***************************************************************************)
(* How a scheduled action row reaches a worker.                            *)
(*                                                                         *)
(* The row in PostgreSQL is the work; a job in Redis only names it.        *)
(* enqueue_action publishes the row's current generation after the commit  *)
(* that scheduled it, in several steps that other publishers, RQ's         *)
(* scheduler and the workers run between.  Redis may refuse a call or lose *)
(* everything, publishers and workers may die; reconcile_actions           *)
(* publishes every scheduled row again.                                    *)
(*                                                                         *)
(* A job id is the action and its attempt_count (the generation).  Time is *)
(* in half seconds: scheduled_for has fractions, RQ's scores whole         *)
(* seconds.  CaseRuntime has the rest of a row's life; here an attempt     *)
(* ends in whatever way the case, the provider or the customer decides.    *)
(***************************************************************************)
EXTENDS Naturals

CONSTANTS
    Rows,          \* CREATE_PAYMENT_LINK rows of live cases
    Publishers,    \* processes that may be inside enqueue_action
    Workers,       \* RQ workers
    MaxAttempts,   \* settings.ACTION_MAX_ATTEMPTS
    MaxTime,       \* bound: the clock, in half seconds
    MaxCopies,     \* bound: times RQ's list may hold one id
    MaxFaults      \* bound: refused calls, lost data and dead processes

ASSUME BoundsAssumption == /\ MaxAttempts \in Nat \ {0} /\ MaxCopies \in Nat /\ MaxFaults \in Nat
                           /\ MaxTime \in Nat /\ MaxTime % 2 = 0

Generations == 0..MaxAttempts
JobIds      == Rows \X Generations
Times       == 0..MaxTime
Statuses    == {"NONE", "SCHEDULED", "EXECUTING", "OVER"}
Unset       == MaxAttempts + 1      \* queue_job_id and enqueued_at are null
Unscheduled == MaxTime + 1          \* no score in the scheduled registry
NoJob       == <<0, 0>>

VARIABLES
    now,
    status, attempts, due,   \* the action rows
    stamp,                   \* generation in queue_job_id, Unset when null
    record,                  \* job ids whose hash exists in Redis
    queued,                  \* times an id is in the queue's list
    score,                   \* ScheduledJobRegistry: whole seconds
    intermediate, started,   \* the other registries
    pub,                     \* where each publisher is, and the row it read
    work,                    \* where each worker is, and the job it holds
    faults

rowVars   == <<status, attempts, due, stamp>>
redisVars == <<record, queued, score, intermediate, started>>
vars      == <<now, rowVars, redisVars, pub, work, faults>>

PubSteps   == {"idle", "fetch", "list", "intermediate", "scheduled", "started", "delete", "enqueue", "stamp"}
WorkSteps  == {"idle", "taken", "started", "executing"}
IdleP      == [at |-> "idle", id |-> NoJob, due |-> 0]
IdleW      == [at |-> "idle", id |-> NoJob]

RowOf(id) == id[1]
GenOf(id) == id[2]
Id(a)     == <<a, attempts[a]>>

-----------------------------------------------------------------------------
(* enqueue_action.                                                         *)

At(p, step)   == pub[p].at = step
Goto(p, step) == pub' = [pub EXCEPT ![p].at = step]

\* The row is read and the session rolled back before Redis is asked.
ReadRow(p, a) ==
    /\ At(p, "idle") /\ status[a] = "SCHEDULED"
    /\ pub' = [pub EXCEPT ![p] = [at |-> "fetch", id |-> Id(a), due |-> due[a]]]
    /\ UNCHANGED <<now, rowVars, redisVars, work, faults>>

\* queue.fetch_job: is there a record under this id?
FetchJob(p) ==
    /\ At(p, "fetch")
    /\ Goto(p, IF pub[p].id \in record THEN "list" ELSE "enqueue")
    /\ UNCHANGED <<now, rowVars, redisVars, work, faults>>

\* Fault, not in the code: whatever has a record is taken for registered.
HasRecord(id) == id \in record

IsStarted(id) == id \in started

\* _job_is_registered asks in four places, one after the other: a job may move
\* between two questions.
Look(p, place, found, next) ==
    /\ At(p, place)
    /\ Goto(p, IF found THEN "stamp" ELSE next)
    /\ UNCHANGED <<now, rowVars, redisVars, work, faults>>

LookInList(p)         == Look(p, "list", queued[pub[p].id] > 0, "intermediate")
LookInIntermediate(p) == Look(p, "intermediate", pub[p].id \in intermediate, "scheduled")
LookInScheduled(p)    == Look(p, "scheduled", score[pub[p].id] # Unscheduled, "started")
LookInStarted(p)      == Look(p, "started", IsStarted(pub[p].id), "delete")

\* existing.delete(): the hash, one list entry and the registries go.
DeleteJob(p) ==
    /\ At(p, "delete")
    /\ LET id == pub[p].id
       IN /\ record' = record \ {id}
          /\ queued' = [queued EXCEPT ![id] = IF @ > 0 THEN @ - 1 ELSE 0]
          /\ score' = [score EXCEPT ![id] = Unscheduled]
          /\ started' = started \ {id}
    /\ Goto(p, "enqueue")
    /\ UNCHANGED <<now, rowVars, intermediate, work, faults>>

\* Fault, not in the code: the fraction is cut off.
CutOff(t) == t - (t % 2)
\* due_at: a fraction of a second is rounded up.
RoundedUp(t) == t + (t % 2)

\* enqueue_at stores whole seconds, enqueue pushes the id on the list.
EnqueueJob(p) ==
    /\ At(p, "enqueue")
    /\ LET id == pub[p].id
           at == RoundedUp(pub[p].due)
       IN /\ record' = record \cup {id}
          /\ IF at > now
             THEN score' = [score EXCEPT ![id] = at \div 2] /\ UNCHANGED queued
             ELSE /\ queued[id] < MaxCopies
                  /\ queued' = [queued EXCEPT ![id] = @ + 1] /\ UNCHANGED score
    /\ Goto(p, "stamp")
    /\ UNCHANGED <<now, rowVars, intermediate, started, work, faults>>

\* Fault, not in the code: the row's generation by now.
Newest(p) == attempts[RowOf(pub[p].id)]
Published(p) == GenOf(pub[p].id)

\* The row is written only if it is still scheduled.
Stamp(p) ==
    /\ At(p, "stamp")
    /\ LET a == RowOf(pub[p].id)
       IN stamp' = IF status[a] = "SCHEDULED"
                   THEN [stamp EXCEPT ![a] = Published(p)] ELSE stamp
    /\ pub' = [pub EXCEPT ![p] = IdleP]
    /\ UNCHANGED <<now, status, attempts, due, redisVars, work, faults>>

Fault == faults < MaxFaults /\ faults' = faults + 1

\* Any Redis call may raise, and a publisher may die: the row stays scheduled
\* with the stamp it had.
PublishFails(p) ==
    /\ ~At(p, "idle") /\ Fault
    /\ pub' = [pub EXCEPT ![p] = IdleP]
    /\ UNCHANGED <<now, rowVars, redisVars, work>>

Publish(p) == \/ FetchJob(p) \/ LookInList(p) \/ LookInIntermediate(p)
              \/ LookInScheduled(p) \/ LookInStarted(p)
              \/ DeleteJob(p) \/ EnqueueJob(p) \/ Stamp(p)

-----------------------------------------------------------------------------
(* Redis and RQ.                                                           *)

\* rq worker --with-scheduler: due scores move to the list, every second.
MoveDue(id) ==
    /\ score[id] # Unscheduled /\ score[id] <= now \div 2 /\ queued[id] < MaxCopies
    /\ queued' = [queued EXCEPT ![id] = @ + 1]
    /\ score' = [score EXCEPT ![id] = Unscheduled]
    /\ UNCHANGED <<now, rowVars, record, intermediate, started, pub, work, faults>>

\* A job no worker is running any more is moved to the failed registry,
\* where its hash stays (failure_ttl).
Abandon(id) ==
    /\ id \in intermediate \cup started
    /\ \A w \in Workers : work[w].id # id
    /\ intermediate' = intermediate \ {id}
    /\ started' = started \ {id}
    /\ UNCHANGED <<now, rowVars, record, queued, score, pub, work, faults>>

FlushRedis ==
    /\ Fault
    /\ record' = {} /\ intermediate' = {} /\ started' = {}
    /\ queued' = [id \in JobIds |-> 0]
    /\ score' = [id \in JobIds |-> Unscheduled]
    /\ UNCHANGED <<now, rowVars, pub, work>>

Holds(w, step) == work[w].at = step

\* An id whose hash is gone is dropped, any other goes to the worker.
TakeJob(w, id) ==
    /\ Holds(w, "idle") /\ queued[id] > 0
    /\ queued' = [queued EXCEPT ![id] = @ - 1]
    /\ IF id \in record
       THEN /\ intermediate' = intermediate \cup {id}
            /\ work' = [work EXCEPT ![w] = [at |-> "taken", id |-> id]]
       ELSE UNCHANGED <<intermediate, work>>
    /\ UNCHANGED <<now, rowVars, record, score, started, pub, faults>>

BeginJob(w) ==
    /\ Holds(w, "taken")
    /\ work' = [work EXCEPT ![w].at = "started"]
    /\ intermediate' = intermediate \ {work[w].id}
    /\ started' = started \cup {work[w].id}
    /\ UNCHANGED <<now, rowVars, record, queued, score, pub, faults>>

\* The record outlives the job (result_ttl), in no registry asked about.
EndJob(w) == /\ work' = [work EXCEPT ![w] = IdleW]
             /\ started' = started \ {work[w].id}

-----------------------------------------------------------------------------
(* The row.                                                                *)

\* A request commits a decision; the delay is the policy's.
CommitRow(a, t) ==
    /\ status[a] = "NONE" /\ t >= now
    /\ status' = [status EXCEPT ![a] = "SCHEDULED"]
    /\ due' = [due EXCEPT ![a] = t]
    /\ UNCHANGED <<now, attempts, stamp, redisVars, pub, work, faults>>

\* A request, or a newer decision, cancels scheduled work.
CancelRow(a) ==
    /\ status[a] = "SCHEDULED"
    /\ status' = [status EXCEPT ![a] = "OVER"]
    /\ UNCHANGED <<now, attempts, due, stamp, redisVars, pub, work, faults>>

\* The job names only the row: whatever generation it was published for, the
\* claim looks at the row as it is.
Claim(w) ==
    /\ Holds(w, "started")
    /\ LET a == RowOf(work[w].id)
       IN IF status[a] = "SCHEDULED" /\ due[a] <= now
          THEN /\ status' = [status EXCEPT ![a] = "EXECUTING"]
               /\ attempts' = [attempts EXCEPT ![a] = @ + 1]
               /\ work' = [work EXCEPT ![w].at = "executing"]
               /\ UNCHANGED started
          ELSE EndJob(w) /\ UNCHANGED <<status, attempts>>
    /\ UNCHANGED <<now, due, stamp, record, queued, score,
                   intermediate, pub, faults>>

AttemptLeft(a) == attempts[a] < MaxAttempts

\* status, scheduled_for, enqueued_at and queue_job_id of a row that is put
\* back.
PutBack(a, t) ==
    /\ status' = [status EXCEPT ![a] = "SCHEDULED"]
    /\ due' = [due EXCEPT ![a] = t]
    /\ stamp' = [stamp EXCEPT ![a] = Unset]

Finish(w) ==
    /\ Holds(w, "executing")
    /\ LET a == RowOf(work[w].id)
       IN status' = [status EXCEPT ![a] = "OVER"]
    /\ EndJob(w)
    /\ UNCHANGED <<now, attempts, due, stamp, record, queued, score,
                   intermediate, pub, faults>>

\* The provider refused, or nobody knows what it did.
Retry(w, t) ==
    /\ Holds(w, "executing") /\ t > now
    /\ LET a == RowOf(work[w].id) IN AttemptLeft(a) /\ PutBack(a, t)
    /\ EndJob(w)
    /\ UNCHANGED <<now, attempts, record, queued, score, intermediate, pub, faults>>

\* The process is killed, or the claim's transaction raises.
WorkerDies(w) ==
    /\ ~Holds(w, "idle") /\ Fault
    /\ work' = [work EXCEPT ![w] = IdleW]
    /\ UNCHANGED <<now, rowVars, redisVars, pub>>

\* reconcile_actions: a claim whose lease ran out.  The lease is ten times
\* the job timeout, so nobody is executing the row any more.
RecoverClaim(a) ==
    /\ status[a] = "EXECUTING"
    /\ \A w \in Workers : ~(Holds(w, "executing") /\ RowOf(work[w].id) = a)
    /\ IF AttemptLeft(a)
       THEN PutBack(a, now)
       ELSE status' = [status EXCEPT ![a] = "OVER"] /\ UNCHANGED <<due, stamp>>
    /\ UNCHANGED <<now, attempts, redisVars, pub, work, faults>>

Tick == /\ now < MaxTime /\ now' = now + 1
        /\ UNCHANGED <<rowVars, redisVars, pub, work, faults>>

-----------------------------------------------------------------------------
Init ==
    /\ now = 0
    /\ status = [a \in Rows |-> "NONE"] /\ attempts = [a \in Rows |-> 0]
    /\ due = [a \in Rows |-> 0]         /\ stamp = [a \in Rows |-> Unset]
    /\ record = {} /\ intermediate = {} /\ started = {}
    /\ queued = [id \in JobIds |-> 0]   /\ score = [id \in JobIds |-> Unscheduled]
    /\ pub = [p \in Publishers |-> IdleP] /\ work = [w \in Workers |-> IdleW]
    /\ faults = 0

PublisherNext(p) == \/ \E a \in Rows : ReadRow(p, a)
                    \/ Publish(p) \/ PublishFails(p)

WorkerNext(w) == \/ \E id \in JobIds : TakeJob(w, id)
                 \/ BeginJob(w) \/ Claim(w) \/ Finish(w) \/ WorkerDies(w)
                 \/ \E t \in Times : Retry(w, t)

Next == \/ Tick \/ FlushRedis
        \/ \E p \in Publishers : PublisherNext(p)
        \/ \E w \in Workers : WorkerNext(w)
        \/ \E id \in JobIds : MoveDue(id) \/ Abandon(id)
        \/ \E a \in Rows : \/ \E t \in Times : CommitRow(a, t)
                           \/ CancelRow(a) \/ RecoverClaim(a)

\* reconcile_actions runs every minute and publishes every scheduled row, RQ's
\* worker and scheduler run all the time, a claimed job ends within its timeout.
Fairness ==
    /\ WF_vars(Tick)
    /\ \A p \in Publishers : WF_vars(Publish(p))
    /\ \A a \in Rows : SF_vars(\E p \in Publishers : ReadRow(p, a))
    /\ \A w \in Workers : /\ WF_vars(BeginJob(w)) /\ WF_vars(Claim(w)) /\ WF_vars(Finish(w))
                          /\ \A id \in JobIds : SF_vars(TakeJob(w, id))
    /\ \A id \in JobIds : WF_vars(MoveDue(id)) /\ WF_vars(Abandon(id))
    /\ \A a \in Rows : WF_vars(RecoverClaim(a))

Spec     == Init /\ [][Next]_vars
FairSpec == Spec /\ Fairness

-----------------------------------------------------------------------------
(* Properties.                                                             *)

PubType == [at : PubSteps, id : JobIds \cup {NoJob}, due : Times]
WorkType == [at : WorkSteps, id : JobIds \cup {NoJob}]

\* The state is what the rows, Redis and the processes can hold.
TypeOK ==
    /\ now \in Times /\ faults \in 0..MaxFaults
    /\ status \in [Rows -> Statuses] /\ attempts \in [Rows -> Generations]
    /\ due \in [Rows -> Times] /\ stamp \in [Rows -> Generations \cup {Unset}]
    /\ record \subseteq JobIds /\ intermediate \subseteq JobIds /\ started \subseteq JobIds
    /\ queued \in [JobIds -> 0..MaxCopies] /\ score \in [JobIds -> Nat]
    /\ pub \in [Publishers -> PubType] /\ \A p \in Publishers : ~At(p, "idle") => pub[p].id \in JobIds
    /\ work \in [Workers -> WorkType] /\ \A w \in Workers : ~Holds(w, "idle") => work[w].id \in JobIds

\* A delivered job of the row's current generation is never refused as early:
\* the refused job would use up its id, and the row would wait for the next
\* reconciliation (enqueue_action rounds scheduled_for up because RQ's
\* scheduler counts whole seconds).
Delivered(id) == \/ queued[id] > 0
                 \/ \E w \in Workers : work[w].id = id /\ work[w].at \in {"taken", "started"}
NeverEarly == \A a \in Rows : status[a] = "SCHEDULED" /\ Delivered(Id(a)) => due[a] <= now

\* As long as Redis and the processes have not failed, enqueued_at of a
\* scheduled row means that its job exists somewhere or is being put back,
\* however publishers, the scheduler and workers interleave.
Somewhere(id) == \/ queued[id] > 0 \/ score[id] # Unscheduled \/ id \in intermediate \cup started
                 \/ \E w \in Workers : work[w].id = id
                 \/ \E p \in Publishers : pub[p].id = id /\ At(p, "enqueue")
StampedIsPublished ==
    faults = 0 => \A a \in Rows : status[a] = "SCHEDULED" /\ stamp[a] = attempts[a] => Somewhere(Id(a))

\* Whatever Redis loses, the rows behave as a durable timer: no attempt
\* before its time, every due row started or withdrawn in the end.
Timer == INSTANCE DueDelivery
ImplementsTimer == Timer!Spec
=============================================================================
