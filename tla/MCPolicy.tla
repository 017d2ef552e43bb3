------------------------------- MODULE MCPolicy -------------------------------
(* Small instances of Policy.  The clock counts cooldowns; with one contact  *)
(* per window of two instants and two per case, both limits are met within   *)
(* the bounds, the limit per case also when the window is free again.        *)
EXTENDS Policy

F(reason, blank, step, source, isLinked) ==
    [reason |-> reason, blank |-> blank, step |-> step, source |-> source, linked |-> isLinked]

\* A failure per ranking of several candidates, with an overlap that order decides.
Funds       == F({"funds"}, FALSE, "other", "customer", FALSE)
Card        == F({"instrument", "risk"}, FALSE, "other", "bank", FALSE)
SubscriptionCard == [Card EXCEPT !.linked = TRUE]
NativeRetry == F({}, TRUE, "other", "bank", TRUE)

SomeFailures == {Funds, Card, SubscriptionCard, NativeRetry}

\* The model prefers outreach, or prefers waiting.
Keen    == [a \in ActionSet |-> CASE a = "CONTACT_CUSTOMER" -> 90 [] a = "CREATE_PAYMENT_LINK" -> 80
                                  [] a = "COLLECT_PROMISE_TO_PAY" -> 85 [] OTHER -> 10]
Patient == [a \in ActionSet |-> CASE a \in WaitActions -> 60 [] a = "CREATE_PAYMENT_LINK" -> 65 [] OTHER -> 20]
MCForecasts == {Keen, Patient}

\* Of a row that ended, the next steps and the properties ask whether it was
\* carried out, and when only of a contact; of the latest decision, whether it
\* was a late one that did not stop; of the category, while work is pending.
Settled(r) ==
    [r EXCEPT !.type = IF r.status \in {"CANCELLED", "FAILED"} THEN "STOP" ELSE r.type,
              !.status = IF r.status = "FAILED" THEN "CANCELLED" ELSE r.status,
              !.at = IF r.status \in {"SCHEDULED", "EXECUTING"} THEN r.at
                     ELSE IF r.status = "EXECUTED" /\ r.type \in ContactActions THEN r.at ELSE 0,
              !.performed = r.performed /\ r.status = "EXECUTING"]
Relevant ==
    <<config, now, state, amount, absorbed, StopsAtMostOneLate,
      IF state \in Diagnosable THEN category ELSE "UNKNOWN",
      [i \in DOMAIN rows |-> Settled(rows[i])]>>
=============================================================================
