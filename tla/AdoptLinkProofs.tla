--------------------------- MODULE AdoptLinkProofs ---------------------------
(***************************************************************************)
(* Proofs about AdoptLink, for any number of workers, scripts, reconciling *)
(* runs, requests and rows: what the adoption script does outside the      *)
(* runtime's protocol does not break what the runtime relies on.           *)
(***************************************************************************)
EXTENDS AdoptLink, TLAPS

-----------------------------------------------------------------------------
(* The inductive invariant.                                                *)

\* A row that can still be claimed has an attempt left.
Claimable(a) == /\ status[a] = "NONE" => attempts[a] = 0
                /\ status[a] = "SCHEDULED" => attempts[a] < MaxAttempts
RowsOK == \A a \in Actions : Claimable(a)

\* Whoever works on a row has one, and whoever is about to adopt or complete
\* a link has seen it at the provider, where links stay.
RowSteps == RuntimeTx \cup {"flip", "post", "look"}
Steps    == Tx \cup {"idle", "post", "look"}
ProcOK(p) == /\ at[p] \in RowSteps => doing[p] \in Actions
             /\ at[p] \in {"complete", "flip"} => doing[p] \in provider
ProcsOK == \A p \in Procs : ProcOK(p)

IInv == TypeOK /\ RowsOK /\ ProcsOK /\ AdoptedExists

LEMMA InitOK == Init => IInv
  BY AdoptAssumption
  DEF Init, IInv, TypeOK, RowsOK, Claimable, ProcsOK, ProcOK, AdoptedExists, Automated, Terminal,
      Lockable, Actions, Case, RowSteps, RuntimeTx

-----------------------------------------------------------------------------
(* Moves of one process.                                                   *)

LEMMA Moved ==
    ASSUME IInv, NEW p \in Procs, NEW step \in Steps, Goto(p, step), provider \subseteq provider',
           step \in RowSteps => doing[p] \in Actions,
           step \in {"complete", "flip"} => doing[p] \in provider'
    PROVE  /\ at' \in [Procs -> Steps] /\ doing' \in [Procs -> Lockable]
           /\ ProcsOK'
  BY DEF IInv, TypeOK, Goto, ProcsOK, ProcOK, Steps

LEMMA Begun ==
    ASSUME IInv, NEW p \in Procs, NEW step \in Steps, NEW a \in Lockable, Begin(p, step, a),
           UNCHANGED provider,
           step \in RowSteps => a \in Actions, step \notin {"complete", "flip"}
    PROVE  /\ at' \in [Procs -> Steps] /\ doing' \in [Procs -> Lockable]
           /\ ProcsOK'
  BY DEF IInv, TypeOK, Begin, ProcsOK, ProcOK, Steps

LEMMA Counted ==
    ASSUME IInv
    PROVE  /\ events' = events \/ (events < MaxEvents /\ events' = events + 1) => events' \in 0..MaxEvents
           /\ faults' = faults \/ (faults < MaxFaults /\ faults' = faults + 1) => faults' \in 0..MaxFaults
<1>1. events \in 0..MaxEvents /\ faults \in 0..MaxFaults
  BY DEF IInv, TypeOK
<1> QED BY <1>1, AdoptAssumption

LEMMA ReleasedOK ==
    ASSUME IInv, NEW p \in Procs
    PROVE  Released(p) \in [Lockable -> Procs \cup {Nobody}]
  BY DEF IInv, TypeOK, Released

\* A process moves, and the tables do not.
LEMMA TablesKept ==
    ASSUME IInv, UNCHANGED tables, provider \subseteq provider', provider' \subseteq Actions,
           at' \in [Procs -> Steps], doing' \in [Procs -> Lockable], ProcsOK',
           owner' \in [Lockable -> Procs \cup {Nobody}],
           events' \in 0..MaxEvents, faults' \in 0..MaxFaults
    PROVE  IInv'
  BY DEF IInv, TypeOK, tables, RowsOK, Claimable, AdoptedExists, Steps

\* A transaction commits: what is left to show is about its rows.
LEMMA Committed ==
    ASSUME IInv, NEW p \in Procs, NEW step \in {"idle", "post", "complete"}, Commit(p, step),
           step # "idle" => doing[p] \in Actions,
           step = "complete" => doing[p] \in provider,
           caseState' \in Automated \cup {"HUMAN_REVIEW"} \cup Terminal, caseLink' \in Lockable,
           status' \in [Actions -> {"NONE", "SCHEDULED", "EXECUTING", "EXECUTED", "CANCELLED", "FAILED"}],
           attempts' \in [Actions -> 0..MaxAttempts],
           claimed' \in [Actions -> {"null", "in lease", "expired"}],
           RowsOK', AdoptedExists'
    PROVE  IInv'
<1>1. step \in Steps /\ (step \in RowSteps => doing[p] \in Actions)
  BY DEF Steps, Tx, RuntimeTx, RequestTx, RowSteps
<1>2. at' \in [Procs -> Steps] /\ doing' \in [Procs -> Lockable] /\ ProcsOK'
  BY <1>1, Moved DEF Commit
<1> QED BY <1>2, ReleasedOK DEF IInv, TypeOK, Commit, Steps

\* What a transaction may do to the rows.
RowMoves ==
    /\ UNCHANGED provider
    /\ caseLink' = caseLink \/ (caseLink' \in Actions /\ status'[caseLink'] = "EXECUTED")
    /\ \A b \in Actions :
          /\ status[b] = "EXECUTED" => status'[b] = "EXECUTED"
          /\ status'[b] = "EXECUTED" => status[b] = "EXECUTED" \/ b \in provider
          /\ status'[b] = "NONE" => status[b] = "NONE" /\ attempts'[b] = attempts[b]
          /\ status'[b] = "SCHEDULED" => /\ attempts'[b] = attempts[b]
                                        /\ \/ status[b] \in {"NONE", "SCHEDULED"}
                                           \/ attempts[b] < MaxAttempts

LEMMA RowsKept ==
    ASSUME IInv, RowMoves
    PROVE  RowsOK' /\ AdoptedExists'
<1>1. AdoptedExists'
  BY DEF RowMoves, IInv, TypeOK, AdoptedExists, Lockable
<1>2. ASSUME NEW b \in Actions PROVE Claimable(b)'
  <2>1. attempts[b] \in 0..MaxAttempts /\ Claimable(b)
    BY DEF IInv, TypeOK, RowsOK
  <2> QED BY <2>1, AdoptAssumption DEF RowMoves, Claimable
<1> QED BY <1>1, <1>2 DEF RowsOK

LEMMA TableTypes ==
    ASSUME IInv
    PROVE  /\ status \in [Actions -> {"NONE", "SCHEDULED", "EXECUTING", "EXECUTED", "CANCELLED", "FAILED"}]
           /\ attempts \in [Actions -> 0..MaxAttempts] /\ caseLink \in Lockable
  BY DEF IInv, TypeOK

\* An inside transaction of the runtime, or of the script, has a row.
LEMMA HasRow ==
    ASSUME IInv, NEW p \in Procs, NEW tx \in RowSteps, Inside(p, tx)
    PROVE  doing[p] \in Actions /\ (tx \in {"complete", "flip"} => doing[p] \in provider)
  BY DEF IInv, ProcsOK, ProcOK, Inside

-----------------------------------------------------------------------------
(* Steps between transactions.                                             *)

LEMMA LockOK ==
    ASSUME IInv, NEW p \in Procs, Lock(p)
    PROVE  IInv'
<1>1. PICK r \in NextLock(p) : owner' = [owner EXCEPT ![r] = p]
  BY DEF Lock
<1>2. owner' \in [Lockable -> Procs \cup {Nobody}]
  BY <1>1 DEF IInv, TypeOK
<1> QED BY <1>2 DEF Lock, IInv, TypeOK, tables, procs, RowsOK, Claimable, ProcsOK, ProcOK, AdoptedExists

LEMMA AbortOK ==
    ASSUME IInv, NEW p \in Procs, Abort(p) \/ Crash(p)
    PROVE  IInv'
<1>1. Goto(p, "idle") /\ owner' = Released(p) /\ UNCHANGED <<tables, provider, events>>
  BY DEF Abort, Crash, Commit
<1>2. at' \in [Procs -> Steps] /\ doing' \in [Procs -> Lockable] /\ ProcsOK'
  BY <1>1, Moved DEF Steps, RowSteps, RuntimeTx
<1>3. faults' \in 0..MaxFaults
  BY Counted DEF Abort, Crash, Commit
<1> QED BY <1>1, <1>2, <1>3, ReleasedOK, TablesKept DEF IInv, TypeOK

LEMMA PickOK ==
    ASSUME IInv, NEW p \in Procs, NEW a \in Actions, Take(p, a) \/ PickExpired(p, a) \/ PickById(p, a)
    PROVE  IInv'
<1>1. PICK step \in {"claim", "drop", "look"} : Begin(p, step, a)
  BY DEF Take, PickExpired, PickById, LookUnless
<1>2. UNCHANGED <<tables, provider, owner, faults>> /\ events' \in 0..MaxEvents
  BY Counted DEF Take, PickExpired, PickById
<1>3. at' \in [Procs -> Steps] /\ doing' \in [Procs -> Lockable] /\ ProcsOK'
  BY <1>1, <1>2, Begun DEF Steps, Tx, RuntimeTx, Lockable
<1> QED BY <1>2, <1>3, TablesKept DEF IInv, TypeOK

LEMMA ReceiveOK ==
    ASSUME IInv, NEW p \in Procs, NEW tx \in RequestTx, Receive(p, tx)
    PROVE  IInv'
<1>1. Begin(p, tx, Case) /\ UNCHANGED <<tables, provider, owner, faults>> /\ events' \in 0..MaxEvents
  BY Counted DEF Receive
<1>2. at' \in [Procs -> Steps] /\ doing' \in [Procs -> Lockable] /\ ProcsOK'
  BY <1>1, Begun DEF Steps, Tx, RequestTx, RuntimeTx, RowSteps, Lockable
<1> QED BY <1>1, <1>2, TablesKept DEF IInv, TypeOK

LEMMA PostOK ==
    ASSUME IInv, NEW p \in Procs, Post(p)
    PROVE  IInv'
<1>1. doing[p] \in Actions
  BY DEF IInv, ProcsOK, ProcOK, Post, RowSteps
<1>2. PICK step \in {"complete", "put back", "drop", "look"} :
          /\ Goto(p, step) /\ provider' \in {provider, provider \cup {doing[p]}}
          /\ step = "complete" => doing[p] \in provider'
  BY DEF Post, LookUnless
<1>3. at' \in [Procs -> Steps] /\ doing' \in [Procs -> Lockable] /\ ProcsOK'
  BY <1>1, <1>2, Moved DEF Steps, Tx, RuntimeTx
<1> QED BY <1>1, <1>2, <1>3, TablesKept DEF Post, IInv, TypeOK

LEMMA LookOK ==
    ASSUME IInv, NEW p \in Procs, LookUp(p) \/ LookUpFails(p)
    PROVE  IInv'
<1>1. doing[p] \in Actions
  BY DEF IInv, ProcsOK, ProcOK, LookUp, LookUpFails, RowSteps
<1>2. PICK step \in {"complete", "flip", "put back", "recover", "idle"} :
          Goto(p, step) /\ (step \in {"complete", "flip"} => doing[p] \in provider)
  BY DEF LookUp, LookUpFails, WhenFound, WhenAbsent, WhenSilent
<1>3. UNCHANGED <<tables, provider, owner, events>> /\ faults' \in 0..MaxFaults
  BY Counted DEF LookUp, LookUpFails
<1>4. at' \in [Procs -> Steps] /\ doing' \in [Procs -> Lockable] /\ ProcsOK'
  BY <1>1, <1>2, <1>3, Moved DEF Steps, Tx, RuntimeTx
<1> QED BY <1>3, <1>4, TablesKept DEF IInv, TypeOK

LEMMA LeaseOK ==
    ASSUME IInv, NEW a \in Actions, LeaseRunsOut(a)
    PROVE  IInv'
<1>1. claimed' \in [Actions -> {"null", "in lease", "expired"}]
  BY DEF LeaseRunsOut, IInv, TypeOK
<1> QED BY <1>1 DEF LeaseRunsOut, procs, IInv, TypeOK, RowsOK, Claimable, ProcsOK, ProcOK, AdoptedExists

-----------------------------------------------------------------------------
(* Transactions.                                                           *)

LEMMA ClaimOK ==
    ASSUME IInv, NEW p \in Procs, Claim(p)
    PROVE  IInv'
<1> DEFINE a == doing[p]
<1>1. a \in Actions
  BY HasRow DEF Claim, RowSteps, RuntimeTx
<1>2. CASE status[a] = "SCHEDULED" /\ Eligible(a)
  <2>1. /\ status' = [status EXCEPT ![a] = "EXECUTING"]
        /\ attempts' = [attempts EXCEPT ![a] = @ + 1]
        /\ claimed' = [claimed EXCEPT ![a] = "in lease"]
        /\ Commit(p, "post") /\ UNCHANGED <<caseState, caseLink>>
    BY <1>2 DEF Claim, SetStatus
  <2>2. attempts[a] + 1 \in 0..MaxAttempts
    <3>1. attempts[a] \in 0..MaxAttempts /\ attempts[a] < MaxAttempts
      BY <1>1, <1>2 DEF IInv, TypeOK, RowsOK, Claimable
    <3> QED BY <3>1, AdoptAssumption
  <2>3. RowMoves
    BY <1>1, <1>2, <2>1, TableTypes DEF RowMoves, Commit
  <2> QED BY <1>1, <2>1, <2>2, <2>3, RowsKept, Committed DEF IInv, TypeOK
<1>3. CASE ~(status[a] = "SCHEDULED" /\ Eligible(a))
  <2>1. /\ status' = [status EXCEPT ![a] = IF @ = "SCHEDULED" THEN "CANCELLED" ELSE @]
        /\ UNCHANGED <<attempts, claimed, caseState, caseLink>> /\ Commit(p, "idle")
    BY <1>3 DEF Claim
  <2>2. RowMoves
    BY <1>1, <2>1, TableTypes DEF RowMoves, Commit
  <2> QED BY <1>1, <2>1, <2>2, RowsKept, Committed DEF IInv, TypeOK
<1> QED BY <1>2, <1>3

LEMMA CompleteOK ==
    ASSUME IInv, NEW p \in Procs, Complete(p)
    PROVE  IInv'
<1> DEFINE a == doing[p]
<1>1. a \in Actions /\ a \in provider
  BY HasRow DEF Complete, RowSteps, RuntimeTx
<1>2. CASE status[a] = "EXECUTING" /\ Eligible(a)
  <2>1. /\ status' = [status EXCEPT ![a] = "EXECUTED"] /\ caseLink' = a
        /\ caseState' = "AWAITING_OUTCOME"
        /\ Commit(p, "idle") /\ UNCHANGED <<attempts, claimed>>
    BY <1>2 DEF Complete, SetStatus
  <2>2. RowMoves
    BY <1>1, <1>2, <2>1, TableTypes DEF RowMoves, Commit
  <2> QED BY <1>1, <2>1, <2>2, RowsKept, Committed DEF IInv, TypeOK, Lockable, Automated
<1>3. CASE ~(status[a] = "EXECUTING" /\ Eligible(a))
  <2>1. /\ status' = [status EXCEPT ![a] = IF @ = "EXECUTING" THEN "CANCELLED" ELSE @]
        /\ UNCHANGED <<attempts, claimed, caseState, caseLink>> /\ Commit(p, "idle")
    BY <1>3 DEF Complete
  <2>2. RowMoves
    BY <1>1, <2>1, TableTypes DEF RowMoves, Commit
  <2> QED BY <1>1, <2>1, <2>2, RowsKept, Committed DEF IInv, TypeOK
<1> QED BY <1>2, <1>3

\* An attempt that ends puts a row back only with an attempt left.
LEMMA EndOK ==
    ASSUME IInv, NEW p \in Procs, NEW a \in Actions, a = doing[p], status[a] = "EXECUTING",
           EndAttempt(a), Commit(p, "idle"), UNCHANGED <<caseLink, attempts>>
    PROVE  IInv'
<1>1. PICK s \in {"CANCELLED", "SCHEDULED", "FAILED"} :
          /\ status' = [status EXCEPT ![a] = s]
          /\ s = "SCHEDULED" => attempts[a] < MaxAttempts
  BY DEF EndAttempt, SetStatus, AttemptLeft
<1>2. claimed' \in [Actions -> {"null", "in lease", "expired"}]
  BY DEF EndAttempt, IInv, TypeOK
<1>3. caseState' \in {caseState, "HUMAN_REVIEW"}
  BY DEF EndAttempt
<1>4. RowMoves
  BY <1>1, TableTypes DEF RowMoves, Commit
<1> QED BY <1>1, <1>2, <1>3, <1>4, RowsKept, Committed DEF IInv, TypeOK

LEMMA PutBackOK ==
    ASSUME IInv, NEW p \in Procs, PutBack(p) \/ Recover(p) \/ Drop(p)
    PROVE  IInv'
<1> DEFINE a == doing[p]
<1>1. a \in Actions
  BY HasRow DEF PutBack, Recover, Drop, RowSteps, RuntimeTx
<1>2. CASE status[a] = "EXECUTING" /\ EndAttempt(a) /\ Commit(p, "idle") /\ UNCHANGED <<caseLink, attempts>>
  BY <1>1, <1>2, EndOK
<1>3. CASE /\ UNCHANGED <<caseState, caseLink, attempts, claimed>> /\ Commit(p, "idle")
           /\ \/ UNCHANGED status
              \/ status' = [status EXCEPT ![a] = IF @ = "EXECUTING" THEN "CANCELLED" ELSE @]
  <2>1. RowMoves
    BY <1>1, <1>3, TableTypes DEF RowMoves, Commit
  <2>2. status' \in [Actions -> {"NONE", "SCHEDULED", "EXECUTING", "EXECUTED", "CANCELLED", "FAILED"}]
    BY <1>1, <1>3 DEF IInv, TypeOK
  <2> QED BY <1>3, <2>1, <2>2, RowsKept, Committed DEF IInv, TypeOK
<1> QED BY <1>1, <1>2, <1>3 DEF PutBack, Recover, Drop

LEMMA FlipOK ==
    ASSUME IInv, NEW p \in Procs, Flip(p)
    PROVE  IInv'
<1> DEFINE a == doing[p]
           step == IF status[a] \in {"SCHEDULED", "EXECUTING"} THEN "complete" ELSE "idle"
<1>1. a \in Actions /\ a \in provider
  BY HasRow DEF Flip, RowSteps
<1>2. Commit(p, step) /\ UNCHANGED <<caseState, caseLink>>
  BY DEF Flip
<1>3. CASE status[a] = "SCHEDULED"
  <2>1. /\ status' = [status EXCEPT ![a] = "EXECUTING"]
        /\ claimed' = [claimed EXCEPT ![a] = "in lease"]
        /\ attempts' = [attempts EXCEPT ![a] = IF @ = 0 THEN 1 ELSE @]
    BY <1>3 DEF Flip, SetStatus, Marked
  <2>2. 1 \in 0..MaxAttempts
    BY AdoptAssumption
  <2>3. /\ attempts' \in [Actions -> 0..MaxAttempts]
        /\ claimed' \in [Actions -> {"null", "in lease", "expired"}]
    BY <1>1, <2>1, <2>2 DEF IInv, TypeOK
  <2>4. RowMoves
    BY <1>1, <1>2, <1>3, <2>1, TableTypes DEF RowMoves, Commit
  <2> QED BY <1>1, <1>2, <2>1, <2>3, <2>4, RowsKept, Committed DEF IInv, TypeOK
<1>4. CASE status[a] # "SCHEDULED"
  <2>1. UNCHANGED tables
    BY <1>2, <1>4 DEF Flip, tables
  <2>2. RowsOK' /\ AdoptedExists'
    BY <1>2, <2>1, TableTypes, RowsKept DEF tables, RowMoves, Commit
  <2> QED BY <1>1, <1>2, <2>1, <2>2, RowsKept, Committed DEF IInv, TypeOK, tables
<1> QED BY <1>3, <1>4

LEMMA RequestOK ==
    ASSUME IInv, NEW p \in Procs, Failure(p) \/ Capture(p)
    PROVE  IInv'
<1>1. Commit(p, "idle") /\ UNCHANGED <<caseLink, attempts, claimed>>
  BY DEF Failure, Capture
<1>2. caseState' \in Automated \cup {"HUMAN_REVIEW"} \cup Terminal
  BY DEF Failure, Capture, IInv, TypeOK, Automated, Terminal
<1>3. /\ status' \in [Actions -> {"NONE", "SCHEDULED", "EXECUTING", "EXECUTED", "CANCELLED", "FAILED"}]
      /\ \A a \in Actions : /\ status[a] = "EXECUTED" <=> status'[a] = "EXECUTED"
                            /\ status'[a] = "SCHEDULED" => status[a] \in {"NONE", "SCHEDULED"}
                            /\ status'[a] = "NONE" => status[a] = "NONE"
  BY DEF Failure, Capture, WithoutScheduled, IsNext, IInv, TypeOK
<1>4. RowMoves
  BY <1>1, <1>3 DEF RowMoves, Commit
<1> QED BY <1>1, <1>2, <1>3, <1>4, RowsKept, Committed DEF IInv, TypeOK

LEMMA StepOK == IInv /\ [Next]_vars => IInv'
<1> SUFFICES ASSUME IInv, [Next]_vars PROVE IInv'
  OBVIOUS
<1>1. CASE UNCHANGED vars
  BY <1>1 DEF vars, tables, procs, IInv, TypeOK, RowsOK, Claimable, ProcsOK, ProcOK, AdoptedExists
<1>2. ASSUME NEW p \in Procs, Runs(p) PROVE IInv'
  BY <1>2, LockOK, ClaimOK, CompleteOK, PutBackOK, FlipOK, RequestOK, PostOK, LookOK DEF Runs
<1>3. ASSUME NEW p \in Procs, Abort(p) \/ Crash(p) \/ LookUpFails(p) PROVE IInv'
  BY <1>3, AbortOK, LookOK
<1>4. ASSUME NEW p \in Procs, NEW a \in Actions, Take(p, a) \/ PickExpired(p, a) \/ PickById(p, a)
      PROVE  IInv'
  BY <1>4, PickOK
<1>5. ASSUME NEW p \in Procs, NEW tx \in RequestTx, Receive(p, tx) PROVE IInv'
  BY <1>5, ReceiveOK
<1>6. ASSUME NEW a \in Actions, LeaseRunsOut(a) PROVE IInv'
  BY <1>6, LeaseOK
<1> QED BY <1>1, <1>2, <1>3, <1>4, <1>5, <1>6 DEF Next

LEMMA Invariance == Spec => []IInv
  BY InitOK, StepOK, PTL DEF Spec

-----------------------------------------------------------------------------
(* Theorems.                                                               *)

\* Tables, locks and processes keep their types, and no row is started more
\* often than its attempts allow, for any number of scripts and workers.
THEOREM TypeCorrect == Spec => []TypeOK
<1>1. IInv => TypeOK
  BY DEF IInv
<1> QED BY <1>1, Invariance, PTL

\* Whoever looked a link up, a completed row has one at the provider, and the
\* case's link is a completed row's.
THEOREM AdoptedLinksExist == Spec => []AdoptedExists
<1>1. IInv => AdoptedExists
  BY DEF IInv
<1> QED BY <1>1, Invariance, PTL

\* An adopted link never replaces that of a newer row: a recorded link's row
\* is executed, so every older one is superseded.
THEOREM NewestLinkStays == Spec => LinkMovesForward
<1>1. ASSUME IInv, [Next]_vars PROVE [caseLink' >= caseLink]_vars
  <2>1. ASSUME NEW p \in Procs, Complete(p), caseLink' # caseLink PROVE caseLink' >= caseLink
    <3>1. doing[p] \in Actions /\ Eligible(doing[p]) /\ caseLink' = doing[p]
      BY <1>1, <2>1, HasRow DEF Complete, RowSteps, RuntimeTx
    <3>2. CASE caseLink = Case
      BY <3>1, <3>2, AdoptAssumption DEF Case, Actions
    <3>3. CASE caseLink # Case
      <4>1. caseLink \in Actions /\ status[caseLink] = "EXECUTED"
        BY <1>1, <3>3 DEF IInv, TypeOK, AdoptedExists, Lockable
      <4>2. ~(caseLink > doing[p])
        BY <3>1, <4>1 DEF Eligible, Superseded
      <4> QED BY <3>1, <4>1, <4>2, AdoptAssumption DEF Actions
    <3> QED BY <3>2, <3>3
  <2>2. caseLink' = caseLink \/ \E p \in Procs : Complete(p)
    BY <1>1 DEF Next, Runs, Lock, Claim, PutBack, Recover, Drop, Flip, Failure, Capture, Post, LookUp,
                Abort, Crash, LookUpFails, Take, PickExpired, PickById, Receive, LeaseRunsOut, vars, tables
  <2>3. caseLink \in Nat
    <3>1. caseLink \in Lockable
      BY <1>1, TableTypes
    <3> QED BY <3>1, AdoptAssumption DEF Lockable, Case, Actions
  <2> QED BY <2>1, <2>2, <2>3
<1> QED BY <1>1, Invariance, PTL DEF Spec, LinkMovesForward

\* The script and late workers never bring back a case that was recovered or
\* handed to a person.
THEOREM ClosedStaysClosed == Spec => StaysOutOfAutomation
<1>1. ASSUME [Next]_vars, caseState \notin Automated PROVE caseState' \notin Automated
  <2>1. \A a \in Actions \cup {doing[p] : p \in Procs} : ~Eligible(a)
    BY <1>1 DEF Eligible, Automated
  <2>2. \A p \in Procs : Runs(p) => caseState' \in {caseState, "RECOVERED", "HUMAN_REVIEW"}
    BY <1>1, <2>1 DEF Runs, Lock, Claim, Complete, PutBack, Recover, Drop, Flip, Failure, Capture, Post,
                      LookUp, EndAttempt, tables
  <2> QED BY <1>1, <2>2 DEF Next, Abort, Crash, LookUpFails, Take, PickExpired, PickById, Receive,
                            LeaseRunsOut, vars, tables, Automated
<1> QED BY <1>1, PTL DEF Spec, StaysOutOfAutomation
=============================================================================
