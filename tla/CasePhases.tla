------------------------------ MODULE CasePhases ------------------------------
(***************************************************************************)
(* The life of a revenue case as other components see it.  A phase groups  *)
(* the states of RevenueCase.state that these components do not tell       *)
(* apart: WORKING is WAITING and ACTION_SCHEDULED, OFFERED is              *)
(* AWAITING_OUTCOME without a pending promise, PROMISED with one.          *)
(***************************************************************************)

Automated == {"WORKING", "OFFERED"}
Phases    == {"NONE", "PROMISED", "HUMAN_REVIEW", "STOPPED", "RECOVERED", "DISPUTED"}
                 \cup Automated

\* What a decision of the policy can lead to.
Decided == {"WORKING", "HUMAN_REVIEW", "STOPPED"}

\* The first failure opens the case; a recovery that came first closes it.
OnOpening(recoveredBefore) == IF recoveredBefore THEN {"RECOVERED"} ELSE Decided

\* A further failure is only diagnosed again while the case is automated.
OnFailure(s) == IF s \in Automated THEN Decided ELSE {s}

\* A capture, a charge or a paid link.
OnRecovery(s) == IF s \in {"RECOVERED", "DISPUTED"} THEN {s} ELSE {"RECOVERED"}

\* The customer writes: a promise, something unclear, or a dispute.
OnReply(s) == IF s \in Automated \cup {"PROMISED", "HUMAN_REVIEW"}
              THEN {"PROMISED", "HUMAN_REVIEW", "DISPUTED"} ELSE {s}

\* Work on the case's actions: waits end in a decision, outreach in an offer
\* or with a person, a promise is broken; and a link that must not be adopted
\* sends the case to a person from wherever it is.
OnWork(s) == {s, "HUMAN_REVIEW"} \cup (IF s = "WORKING" THEN Decided \cup {"OFFERED"} ELSE {})
=============================================================================
