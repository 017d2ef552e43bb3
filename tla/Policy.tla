-------------------------------- MODULE Policy --------------------------------
(***************************************************************************)
(* The recovery policy over the life of one case: every failure and every  *)
(* completed wait asks policy_dispatcher for exactly one decision, and the *)
(* decision's row is carried out while the next failure may already come.  *)
(*                                                                         *)
(* CaseRuntime has the rows' full life with its processes and crashes, for *)
(* any policy; this module has the policy itself, with the clock its       *)
(* guardrails look at.  Payments, promises and disputes, which end or      *)
(* suspend automation without asking the policy, are left to CaseRuntime.  *)
(***************************************************************************)
EXTENDS PolicyRules

CONSTANTS
    Modes,         \* RECOVERY_POLICY values: "baseline", "shadow", "adaptive"
    Failures,      \* failed payments the case may see
    Amounts,       \* amounts the case may be about
    Forecasts,     \* probabilities the trained model may answer
    Weights,       \* ADAPTIVE_FRICTION_WEIGHT or the profile's weight
    NativeDelay,   \* NATIVE_RETRY_DELAY_SECONDS, in units of the clock
    MaxTime, MaxRows, MaxFailures   \* bounds

ASSUME PolicyAssumption ==
    /\ Modes \subseteq {"baseline", "shadow", "adaptive"}
    /\ Failures \subseteq Failure /\ Amounts \subseteq Nat /\ Weights \subseteq Nat
    /\ Forecasts \subseteq [ActionSet -> 0..100]
    /\ MaxTime \in Nat /\ MaxRows \in Nat /\ MaxFailures \in Nat /\ NativeDelay \in Nat

CaseStates  == {"NONE", "DIAGNOSED", "DECISION_READY", "WAITING", "ACTION_SCHEDULED",
                "AWAITING_OUTCOME", "HUMAN_REVIEW", "STOPPED"}
Diagnosable == {"WAITING", "ACTION_SCHEDULED", "AWAITING_OUTCOME"}
Statuses    == {"SCHEDULED", "EXECUTING", "EXECUTED", "CANCELLED", "FAILED"}
Row == [type : ActionSet, status : Statuses, at : 0..MaxTime, performed : BOOLEAN]
Decision == [chosen : ActionSet \cup {"none"}, after : 0..MaxFailures]

VARIABLES
    mode, weight, linked,           \* configuration; whether there is a subscription
    now,
    state, category, amount, rows,  \* RevenueCase and its actions, oldest first
    absorbed,                       \* case_detected and failure_event_received audits
    last                            \* the latest decision, after how many failures

config == <<mode, weight, linked>>
vars   == <<config, now, state, category, amount, rows, absorbed, last>>

History(rs) == {[n |-> i, type |-> rs[i].type, status |-> rs[i].status, at |-> rs[i].at]
                    : i \in DOMAIN rs}

-----------------------------------------------------------------------------
(* policy_dispatcher.decide_for_case.  seen is what the policy's queries   *)
(* find: the session does not autoflush, so rows cancelled and failures    *)
(* counted earlier in the same transaction are still missing from it.  The *)
(* amount is read from the case itself: amount' is the one a take-over has  *)
(* just written.                                                           *)

FirstStatus(chosen) == IF chosen \in {"ESCALATE", "STOP"} THEN "EXECUTED" ELSE "SCHEDULED"

\* record_decision, on top of the rows rs the transaction has written.
Record(rs, chosen, cat, after) ==
    /\ Len(rs) < MaxRows
    /\ rows' = Append(rs, [type |-> chosen, at |-> now, performed |-> FALSE,
                           status |-> FirstStatus(chosen)])
    /\ state' = StateAfter[chosen]
    /\ category' = cat
    /\ last' = [chosen |-> chosen, after |-> after]

\* policy_engine.decide does nothing for a case that is not DIAGNOSED.
Baseline(from, rs, seen, count, cat, after) ==
    IF from = "DIAGNOSED"
    THEN Record(rs, BaselineChoice(cat, History(seen), amount', count, now), cat, after)
    ELSE state' = from /\ rows' = rs /\ category' = cat /\ last' = [chosen |-> "none", after |-> after]

\* _decide_shadow: whatever the model answers, the baseline acts.  If the
\* model's modules cannot be imported, the audit of that is flushed first and
\* shows the baseline everything.
Shadow(rs, seen, count, cat, after) ==
    \/ Baseline("DIAGNOSED", rs, seen, count, cat, after)
    \/ Baseline("DIAGNOSED", rs, rs, after, cat, after)

\* Fault, not in the code: a failed scoring leaves the case where it was.
LeftAsIs(s) == s
\* decide_ml and the dispatcher put the case back before the fallback.
Restored(s) == IF s = "DECISION_READY" THEN "DIAGNOSED" ELSE s

\* _decide_adaptive: decide_ml, or the baseline if the model fails.
Adaptive(rs, seen, count, cat, after) ==
    IF MustStop(count)
    THEN Record(rs, "STOP", cat, after)
    ELSE \/ \E p \in Forecasts :
               Record(rs, AdaptiveChoice(cat, linked, History(seen), amount', now, p, weight), cat, after)
         \/ Baseline(Restored("DECISION_READY"), rs, seen, count, cat, after)

DecideForCase(rs, seen, count, cat, after) ==
    CASE mode = "baseline" -> Baseline("DIAGNOSED", rs, seen, count, cat, after)
      [] mode = "shadow"   -> Shadow(rs, seen, count, cat, after)
      [] mode = "adaptive" -> Adaptive(rs, seen, count, cat, after)

-----------------------------------------------------------------------------
(* What asks for a decision.                                               *)

Cancelled(rs) == [i \in DOMAIN rs |-> IF rs[i].status = "SCHEDULED"
                                      THEN [rs[i] EXCEPT !.status = "CANCELLED"] ELSE rs[i]]

\* A later payment of the case's subscription is taken over: the case is now
\* about its amount, if the event tells it.
TakesOver == linked /\ state \in Diagnosable

\* A failed payment: the first opens the case, a later one replaces what is
\* scheduled, and one for a case out of automation is only counted.
FailedPayment(f) ==
    /\ absorbed < MaxFailures
    /\ absorbed' = absorbed + 1
    /\ amount' \in {amount} \cup (IF TakesOver THEN Amounts ELSE {})
    /\ IF state \in {"NONE"} \cup Diagnosable
       THEN DecideForCase(Cancelled(rows), rows, absorbed, Classify(f), absorbed + 1)
       ELSE UNCHANGED <<state, category, rows, last>>
    /\ UNCHANGED <<config, now>>

\* Fault, not in the code: newer work is not looked for.
NoneNewer(i) == FALSE
Superseded(i) == \E j \in DOMAIN rows : j > i /\ rows[j].status \in {"SCHEDULED", "EXECUTING", "EXECUTED"}

Wanted(i) == state = StateAfter[rows[i].type] /\ ~Superseded(i)
Write(i, s) == [rows EXCEPT ![i].status = s]

\* _claim_action
Claim(i) ==
    /\ rows[i].status = "SCHEDULED"
    /\ now >= rows[i].at + (IF rows[i].type = "WAIT_FOR_NATIVE_RETRY" THEN NativeDelay ELSE 0)
    /\ rows' = Write(i, IF Wanted(i) THEN "EXECUTING" ELSE "CANCELLED")
    /\ UNCHANGED <<config, now, state, category, amount, absorbed, last>>

\* action_executor.perform, between two transactions.
Perform(i) ==
    /\ rows[i].status = "EXECUTING" /\ rows[i].type \in ContactActions
    /\ ~rows[i].performed
    /\ rows' = [rows EXCEPT ![i].performed = TRUE]
    /\ UNCHANGED <<config, now, state, category, amount, absorbed, last>>

\* _complete_wait: the row is flushed before the dispatcher is asked.
CompleteWait(i) ==
    /\ rows[i].status = "EXECUTING" /\ rows[i].type \in WaitActions
    /\ UNCHANGED <<config, now, amount, absorbed>>
    /\ IF Wanted(i)
       THEN LET done == Write(i, "EXECUTED")
            IN DecideForCase(done, done, absorbed, category, absorbed)
       ELSE rows' = Write(i, "CANCELLED") /\ UNCHANGED <<state, category, last>>

\* _complete_external
CompleteContact(i) ==
    /\ rows[i].status = "EXECUTING" /\ rows[i].performed
    /\ IF Wanted(i)
       THEN rows' = Write(i, "EXECUTED") /\ state' = "AWAITING_OUTCOME"
       ELSE rows' = Write(i, "CANCELLED") /\ UNCHANGED state
    /\ UNCHANGED <<config, now, category, amount, absorbed, last>>

\* A provider error or an expired claim: again, or handed to a person.
GiveBack(i) ==
    /\ rows[i].status = "EXECUTING"
    /\ IF Wanted(i)
       THEN \/ rows' = Write(i, "SCHEDULED") /\ UNCHANGED state
            \/ rows' = Write(i, "FAILED") /\ state' = "HUMAN_REVIEW"
       ELSE rows' = Write(i, "CANCELLED") /\ UNCHANGED state
    /\ UNCHANGED <<config, now, category, amount, absorbed, last>>

Tick == /\ now < MaxTime /\ now' = now + 1
        /\ UNCHANGED <<config, state, category, amount, rows, absorbed, last>>

Init ==
    /\ mode \in Modes /\ amount \in Amounts /\ weight \in Weights /\ linked \in BOOLEAN
    /\ now = 0 /\ state = "NONE" /\ category = "UNKNOWN" /\ rows = <<>> /\ absorbed = 0
    /\ last = [chosen |-> "none", after |-> 0]

Next == \/ Tick
        \/ \E f \in Failures : f.linked = linked /\ FailedPayment(f)
        \/ \E i \in DOMAIN rows : \/ Claim(i) \/ Perform(i) \/ CompleteWait(i)
                                  \/ CompleteContact(i) \/ GiveBack(i)

Spec == Init /\ [][Next]_vars

-----------------------------------------------------------------------------
(* Properties.                                                             *)

\* The state is what the tables and the clock can hold; what needs no worker
\* (STOP, ESCALATE) is never left to one.
TypeOK ==
    /\ mode \in Modes /\ amount \in Amounts /\ weight \in Weights /\ linked \in BOOLEAN
    /\ now \in 0..MaxTime /\ state \in CaseStates /\ category \in Categories
    /\ rows \in Seq(Row) /\ Len(rows) <= MaxRows
    /\ \A i \in DOMAIN rows : rows[i].type \in {"ESCALATE", "STOP"} => rows[i].status = "EXECUTED"
    /\ absorbed \in 0..MaxFailures /\ last \in Decision

\* No transaction leaves a case diagnosed without a decision, however the
\* model fails (adaptive mode falls back to the baseline in the same one).
NeverStranded == state \notin {"DIAGNOSED", "DECISION_READY"}

\* Contacts still to come: scheduled, or in the hands of a worker that may
\* complete them.
DueContacts == {i \in DOMAIN rows :
                   /\ rows[i].type \in ContactActions
                   /\ \/ rows[i].status = "SCHEDULED"
                      \/ rows[i].status = "EXECUTING" /\ Wanted(i)}

\* The contacts that count (scheduled or carried out) stay within the limit
\* per case, the limit per window and the cooldown, although a contact that
\* is being carried out does not count while the next decision is made; and
\* none is still to come on an amount above the limit, although a take-over
\* may raise the amount after a contact was decided, or carried out.
WithinGuardrails ==
    LET c == Contacts(History(rows))
    IN /\ DueContacts # {} => amount <= MaxAutomatedAmount
       /\ Cardinality(c) <= MaxContactsPerCase
       /\ \A r \in c : Cardinality({q \in c : q.at \in r.at - Window .. r.at}) <= MaxContactsPerWindow
       /\ \A r, q \in c : r.n < q.n => q.at >= r.at + Cooldown

\* A case waits at most once in each way, so automation cannot go round in
\* waits (a wait superseded while it ran does not count as taken).
WaitsOnce == \A a \in WaitActions :
                 Cardinality({i \in DOMAIN rows : rows[i].type = a /\ rows[i].status = "EXECUTED"}) <= 1

\* The stopping rule may miss the failure being handled, and no more: past
\* one failure above max_total_attempts every decision is STOP.
StopsAtMostOneLate == last.after > MaxTotalAttempts + 1 => last.chosen = "STOP"

\* The operator's guardrail page agrees with the guardrail itself on whether
\* the next contact would be allowed, now and in every mode.
ViewAgrees ==
    LET v == View(History(rows), amount, absorbed, now)
    IN \A a \in ContactActions :
          Allowed(a, History(rows), amount, now)
              <=> v.per_case /\ v.per_7_days /\ v.cooldown /\ v.amount

\* Wherever the adaptive policy may be asked next (within the bound on rows),
\* a stronger preference for low friction never chooses a more intrusive
\* action for the same forecast.
GentlerWithWeight ==
    mode = "adaptive" /\ state \in Diagnosable /\ Len(rows) < MaxRows =>
        LET h == History(rows)
            burdens(p) == {<<w, Friction(AdaptiveChoice(category, linked, h, amount, now, p, w), h)>> :
                              w \in {ProfileWeights[x] : x \in DOMAIN ProfileWeights}}
        IN \A p \in Forecasts : \A x, y \in burdens(p) : x[1] <= y[1] => y[2] <= x[2]
=============================================================================
