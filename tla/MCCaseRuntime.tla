---------------------------- MODULE MCCaseRuntime ----------------------------
(***************************************************************************)
(* Small instances of CaseRuntime for TLC.                                 *)
(***************************************************************************)
EXTENDS CaseRuntime, TLC

\* The worker processes are interchangeable.
WorkerSymmetry == Permutations(Workers)

\* One type for each kind of work: a wait, a link, another contact; the two
\* instructions differ only in the state they put the case in.
EveryKind == {"WAIT", "CREATE_PAYMENT_LINK", "CONTACT_CUSTOMER", "ESCALATE"}

\* The same with both instructions, and the one contact that can go wrong.
LinkKinds == {"WAIT", "CREATE_PAYMENT_LINK", "ESCALATE", "STOP"}

\* One link, for the run that looks for a counterexample.
LinkOnly == {"CREATE_PAYMENT_LINK", "ESCALATE"}

\* What can still influence a step or a safety property: a final row's
\* attempts, schedule and unrecorded link, and how a promise ended, cannot,
\* and a process at work on such a row can only find that out and stop.  To a
\* case that exists, a capture it misses is the same as none.  A case that is
\* over or with a person stays so (HandsOffForGood): no capture matters to it,
\* and whatever a process found, but for a mismatch, it cancels the row.
Relevant ==
    LET open == {a \in Actions : status[a] \in {"SCHEDULED", "EXECUTING"}}
        over == caseState \in TerminalStates \cup {"HUMAN_REVIEW"}
        step(p) == CASE over /\ pc[p] \in {"performed", "failed", "unresolved"} -> "cancel"
                     [] pc[p] = "unresolved" -> "failed"
                     [] OTHER -> pc[p]
    IN
    <<caseState, caseLink,
      IF over \/ (captured = "missed" /\ caseState # "NONE") THEN "none" ELSE captured,
      n, type, status, leased,
      [p \in Procs |-> IF job[p] \in open \cup {0} THEN <<step(p), job[p]>> ELSE <<"late", 0>>],
      [a \in Actions |-> IF a \in open THEN attempts[a] ELSE 0],
      [a \in Actions |-> status[a] = "SCHEDULED" /\ due[a]],
      [a \in Actions |-> promise[a] = "PENDING"],
      [a \in Actions |-> IF a \in open \cup {caseLink} THEN link[a] ELSE "none"]>>
=============================================================================
