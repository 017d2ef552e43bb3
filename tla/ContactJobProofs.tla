--------------------------- MODULE ContactJobProofs ---------------------------
(***************************************************************************)
(* Proofs about ContactJob, for any budget of attempts, retries and time:  *)
(* the types, and what a FAILED row has been through.                      *)
(***************************************************************************)
EXTENDS ContactJob, TLAPS

-----------------------------------------------------------------------------
(* Types: a row that is scheduled has an attempt left, and the attempts    *)
(* before it are accounted for.                                            *)

\* Every attempt but the one under way has lost its job.
LossesCounted ==
    /\ status = "SCHEDULED" => lost = attempts
    /\ status = "EXECUTING" => lost + (IF job # "none" THEN 1 ELSE 0) = attempts
    /\ status = "FAILED"    => lost = MaxAttempts

TypeInv == /\ TypeOK
           /\ status = "SCHEDULED" => attempts < MaxAttempts
           /\ job # "none" => status = "EXECUTING"
           /\ LossesCounted

LEMMA TypeInvariance == Spec => []TypeInv
<1>1. Init => TypeInv
  BY JobAssumption DEF Init, TypeInv, TypeOK, LossesCounted
<1>2. TypeInv /\ [Next]_vars => TypeInv'
  <2> SUFFICES ASSUME TypeInv, [Next]_vars PROVE TypeInv'
    OBVIOUS
  <2> USE JobAssumption DEF TypeInv, TypeOK, LossesCounted, rowVars, jobVars, NoJob, Wanted
  <2>1. CASE Claim
    BY <2>1 DEF Claim
  <2>2. ASSUME NEW post \in L!Posts, NEW d \in Lasts(post), Post(post, d) PROVE TypeInv'
    <3>1. d \in Nat /\ Pause(try) \in Nat
      BY PauseAssumption DEF Lasts
    <3>2. L!BodyOf(post) \in {"llm", "template"}
      BY DEF L!BodyOf
    <3> HIDE DEF Pause
    <3>3. CASE post \in L!Transient /\ RetryLeft(try)
      BY <2>2, <3>1, <3>3 DEF Post, RetryLeft
    <3>4. CASE ~(post \in L!Transient /\ RetryLeft(try))
      BY <2>2, <3>1, <3>2, <3>4 DEF Post
    <3> QED BY <3>3, <3>4
  <2>3. ASSUME NEW post \in L!Posts, NEW d \in Lasts(post) \cup {Endless}, KillJob(post, d) PROVE TypeInv'
    BY <2>3 DEF KillJob
  <2>4. CASE Complete
    BY <2>4 DEF Complete
  <2>5. CASE WorkerDies
    BY <2>5 DEF WorkerDies
  <2>6. CASE Recover
    BY <2>6 DEF Recover, AttemptLeft
  <2>7. CASE CaseMovesOn
    BY <2>7 DEF CaseMovesOn
  <2>8. CASE UNCHANGED vars
    BY <2>8 DEF vars
  <2> QED BY <2>1, <2>2, <2>3, <2>4, <2>5, <2>6, <2>7, <2>8 DEF Next, Work
<1> QED BY <1>1, <1>2, PTL DEF Spec

\* The row, the job and the clock stay in their types: whoever ends a job, no
\* row is attempted more often than settings.ACTION_MAX_ATTEMPTS says.
THEOREM TypeCorrect == Spec => []TypeOK
<1>1. TypeInv => TypeOK
  BY DEF TypeInv
<1> QED BY <1>1, TypeInvariance, PTL

-----------------------------------------------------------------------------
(* What a FAILED row has been through.                                     *)

\* A contact row is FAILED only after settings.ACTION_MAX_ATTEMPTS attempts,
\* every one of which lost its job to a dead worker or to the job's timeout:
\* what the provider answers or refuses never costs the row an attempt that
\* draft_with_fallback came to the end of.
THEOREM RowsFailOnlyAfterLosses == Spec => []FailsOnlyAfterLosses
<1>1. TypeInv => FailsOnlyAfterLosses
  BY DEF TypeInv, LossesCounted, FailsOnlyAfterLosses
<1> QED BY <1>1, TypeInvariance, PTL
=============================================================================
