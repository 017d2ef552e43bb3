----------------------------- MODULE PolicyRules -----------------------------
(***************************************************************************)
(* What a recovery policy computes from one look at a case: the failure    *)
(* taxonomy, the guardrails, the baseline's ranked candidates and the      *)
(* adaptive policy's ranking by utility.  There is no state here; Policy   *)
(* applies these operators to the life of a case.                          *)
(*                                                                         *)
(* A failed payment is described by what its text says, not by the text:   *)
(* reason is the set of needle groups error_reason contains (a text may    *)
(* contain several), blank says it is empty.  Money is in rupees,          *)
(* probabilities in percent, so utilities are a hundredth of a rupee.      *)
(***************************************************************************)
EXTENDS Integers, FiniteSets, Sequences

CONSTANTS
    MaxContactsPerCase, MaxContactsPerWindow,   \* GuardrailConfig
    Cooldown, Window,                           \* min_contact_interval_hours, 7 days
    MaxAutomatedAmount, MaxTotalAttempts

ASSUME GuardrailAssumption ==
    /\ MaxContactsPerCase \in Nat /\ MaxContactsPerWindow \in Nat
    /\ Cooldown \in Nat /\ Window \in Nat
    /\ MaxAutomatedAmount \in Nat /\ MaxTotalAttempts \in Nat

WaitActions    == {"WAIT", "WAIT_FOR_NATIVE_RETRY"}
ContactActions == {"CREATE_PAYMENT_LINK", "CONTACT_CUSTOMER", "COLLECT_PROMISE_TO_PAY"}
\* ALL_ACTIONS, in the order both rankings start from.
AllActions     == <<"WAIT", "WAIT_FOR_NATIVE_RETRY", "CREATE_PAYMENT_LINK", "CONTACT_CUSTOMER",
                    "COLLECT_PROMISE_TO_PAY", "ESCALATE", "STOP">>
ActionSet      == WaitActions \cup ContactActions \cup {"ESCALATE", "STOP"}
Position(a)    == CHOOSE i \in DOMAIN AllActions : AllActions[i] = a

StateAfter == [a \in ActionSet |-> CASE a \in WaitActions    -> "WAITING"
                                     [] a \in ContactActions -> "ACTION_SCHEDULED"
                                     [] a = "ESCALATE"       -> "HUMAN_REVIEW"
                                     [] a = "STOP"           -> "STOPPED"]

Preference ==
    [TRANSIENT_INFRASTRUCTURE          |-> <<"WAIT">>,
     SUBSCRIPTION_PENDING_NATIVE_RETRY |-> <<"WAIT_FOR_NATIVE_RETRY">>,
     INSUFFICIENT_BALANCE    |-> <<"WAIT", "COLLECT_PROMISE_TO_PAY", "CONTACT_CUSTOMER", "ESCALATE">>,
     CUSTOMER_AUTHENTICATION |-> <<"CONTACT_CUSTOMER", "ESCALATE">>,
     INVALID_INSTRUMENT      |-> <<"CREATE_PAYMENT_LINK", "CONTACT_CUSTOMER", "ESCALATE">>,
     MANDATE_ISSUE           |-> <<"CONTACT_CUSTOMER", "ESCALATE">>,
     PERMANENT_HARD_FAILURE  |-> <<"ESCALATE">>,
     UNKNOWN                 |-> <<"ESCALATE">>]
Categories == DOMAIN Preference

First(S) == CHOOSE i \in S : \A j \in S : i <= j

-----------------------------------------------------------------------------
(* classify_failure: the first rule that applies.                          *)

Needles == {"funds", "mandate", "authentication", "instrument", "risk", "infrastructure"}
Failure == {f \in [reason : SUBSET Needles, blank : BOOLEAN,
                   step   : {"payment_authentication", "mandate", "other"},
                   source : {"bank", "gateway", "network", "", "customer"},
                   linked : BOOLEAN] : f.blank => f.reason = {}}

Rules == <<"INSUFFICIENT_BALANCE", "MANDATE_ISSUE", "CUSTOMER_AUTHENTICATION",
           "INVALID_INSTRUMENT", "PERMANENT_HARD_FAILURE", "TRANSIENT_INFRASTRUCTURE",
           "SUBSCRIPTION_PENDING_NATIVE_RETRY", "TRANSIENT_INFRASTRUCTURE">>
Applies(f) ==
    <<"funds" \in f.reason,
      "mandate" \in f.reason \/ f.step = "mandate",
      "authentication" \in f.reason \/ f.step = "payment_authentication",
      "instrument" \in f.reason,
      "risk" \in f.reason,
      "infrastructure" \in f.reason,
      f.linked /\ f.blank /\ f.source \in {"bank", "network", "gateway", ""},
      f.blank /\ f.source \in {"bank", "gateway", "network"}>>

Classify(f) == LET hits == {i \in DOMAIN Rules : Applies(f)[i]}
               IN IF hits = {} THEN "UNKNOWN" ELSE Rules[First(hits)]

-----------------------------------------------------------------------------
(* Guardrails.  A history is the set of the case's action rows, as the     *)
(* query sees them: [n, type, status, at], at being created_at.            *)

\* _contacts_for_case
Contacts(h) == {r \in h : r.type \in ContactActions /\ r.status \in {"SCHEDULED", "EXECUTED"}}
Recent(h, t) == {r \in Contacts(h) : r.at >= t - Window}

WaitedBefore(a, h) == \E r \in h : r.type = a /\ r.status = "EXECUTED"

\* Fault, not in the code: a wait may be repeated.
AllowedAgain(a, h, amount, t) ==
    a \in ContactActions =>
        /\ amount <= MaxAutomatedAmount
        /\ Cardinality(Contacts(h)) < MaxContactsPerCase
        /\ Cardinality(Recent(h, t)) < MaxContactsPerWindow
        /\ \A r \in Contacts(h) : t >= r.at + Cooldown

\* _check_action_allowed
Allowed(a, h, amount, t) ==
    /\ a \in WaitActions => ~WaitedBefore(a, h)
    /\ a \in ContactActions =>
          /\ amount <= MaxAutomatedAmount
          /\ Cardinality(Contacts(h)) < MaxContactsPerCase
          /\ Cardinality(Recent(h, t)) < MaxContactsPerWindow
          /\ \A r \in Contacts(h) : t >= r.at + Cooldown

\* Fault, not in the code: the limit itself still passes.
UpTo(used, limit) == used <= limit
Below(used, limit) == used < limit

\* guardrail_visibility recomputes every guardrail for the operator's page.
View(h, amount, attempts, t) ==
    LET ats == {r.at : r \in Contacts(h)}
    IN [per_case   |-> Below(Cardinality(Contacts(h)), MaxContactsPerCase),
        per_7_days |-> Below(Cardinality(Recent(h, t)), MaxContactsPerWindow),
        cooldown   |-> ats = {} \/ t >= (CHOOSE m \in ats : \A x \in ats : x <= m) + Cooldown,
        amount     |-> amount <= MaxAutomatedAmount,
        attempts   |-> attempts <= MaxTotalAttempts]

-----------------------------------------------------------------------------
(* policy_engine.decide                                                    *)

\* Fault, not in the code: the rule only fires one attempt later.
Later(attempts) == attempts > MaxTotalAttempts + 1
MustStop(attempts) == attempts > MaxTotalAttempts

BaselineChoice(category, h, amount, attempts, t) ==
    LET ranked == Preference[category]
        open   == {i \in DOMAIN ranked : Allowed(ranked[i], h, amount, t)}
    IN IF MustStop(attempts) THEN "STOP"
       ELSE IF open = {} THEN "ESCALATE" ELSE ranked[First(open)]

-----------------------------------------------------------------------------
(* ml_policy._adaptive_choose.  p gives the model's probability of recovery *)
(* for every action; STOP is never put to the model.                       *)

BaseFriction == [WAIT |-> 0, WAIT_FOR_NATIVE_RETRY |-> 2, CREATE_PAYMENT_LINK |-> 25,
                 CONTACT_CUSTOMER |-> 40, COLLECT_PROMISE_TO_PAY |-> 60, ESCALATE |-> 80, STOP |-> 0]
ActionCost   == [WAIT |-> 0, WAIT_FOR_NATIVE_RETRY |-> 0, CREATE_PAYMENT_LINK |-> 5,
                 CONTACT_CUSTOMER |-> 15, COLLECT_PROMISE_TO_PAY |-> 15, ESCALATE |-> 50, STOP |-> 0]
ContactIncrement == 12
ProfileWeights   == [revenue_first |-> 4, balanced |-> 18, low_friction |-> 45]

Friction(a, h) == BaseFriction[a] + (IF a \in ContactActions
                                     THEN ContactIncrement * Cardinality(Contacts(h)) ELSE 0)

\* WAIT_FOR_NATIVE_RETRY needs a subscription, unless nothing else is left.
Feasible(open, category, linked) ==
    LET sensible == {a \in open : a = "WAIT_FOR_NATIVE_RETRY" =>
                        linked \/ category = "SUBSCRIPTION_PENDING_NATIVE_RETRY"}
    IN IF sensible = {} THEN open ELSE sensible

Probability(a, p) == IF a = "STOP" THEN 0 ELSE p[a]
ExpectedValue(a, p, amount) == Probability(a, p) * amount - 100 * ActionCost[a]
\* Fault, not in the code: friction counts in favour of an action.
Rewarded(a, p, amount, h, weight) == ExpectedValue(a, p, amount) + 100 * weight * Friction(a, h)
Utility(a, p, amount, h, weight) == ExpectedValue(a, p, amount) - 100 * weight * Friction(a, h)

\* Two stable sorts, by expected value and then by utility, both descending.
Before(a, b, p, amount, h, weight) ==
    LET ua == Utility(a, p, amount, h, weight)  ea == ExpectedValue(a, p, amount)
        ub == Utility(b, p, amount, h, weight)  eb == ExpectedValue(b, p, amount)
    IN \/ ua > ub
       \/ ua = ub /\ (ea > eb \/ (ea = eb /\ Position(a) <= Position(b)))

TopRanked(S, p, amount, h, weight) ==
    CHOOSE a \in S : \A b \in S : Before(a, b, p, amount, h, weight)

AdaptiveChoice(category, linked, h, amount, t, p, weight) ==
    LET open == {a \in ActionSet : Allowed(a, h, amount, t)}
    IN TopRanked(Feasible(open, category, linked), p, amount, h, weight)
=============================================================================
