------------------------------ MODULE Experiment ------------------------------
(***************************************************************************)
(* Policy experiments: experiment_runner.run_experiment decides a number   *)
(* of synthetic cases with both policies in one transaction, and the       *)
(* experiments router summarises what was committed.  Several requests run *)
(* in the threads of one API process while the model on disk may be        *)
(* trained anew.                                                           *)
(*                                                                         *)
(* What the adaptive policy prefers is any action (Policy and ModelCache   *)
(* have that choice), and so is its weight on friction; what counts here   *)
(* is who is credited with what, under which seed.                         *)
(***************************************************************************)
EXTENDS Naturals, Sequences, FiniteSets

CONSTANTS
    Requests,           \* POST /experiments, each a run of its own
    Seeds, Actions,
    MaxCount,           \* bound: EXPERIMENT_MAX_COUNT
    MaxTrainings,       \* bound
    MaxRestarts,        \* bound: restarts of the API process
    Baseline(_, _),     \* policy_engine.decide on scenario i of a seed
    Recovers(_, _, _)   \* _deterministic_uniform(seed, k, action) < true_probability

ASSUME ExperimentAssumption ==
    /\ MaxCount \in Nat \ {0} /\ MaxTrainings \in Nat /\ MaxRestarts \in Nat
    /\ \A s \in Seeds, i \in 1..MaxCount : Baseline(s, i) \in Actions

VARIABLES
    readable,   \* the model on disk, which a training makes unreadable for a while
    run,        \* the session of each request: its ExperimentRun and its rows
    visible,    \* the committed runs
    trainings, restarts

disk == <<readable, trainings>>
runVars == <<disk, run, visible, restarts>>   \* named apart from ModelCache's

Idle == [phase |-> "idle"]
Running(r) == run[r].phase = "running"

-----------------------------------------------------------------------------
(* run_experiment.                                                         *)

\* A request, up to the flush of its ExperimentRun.  Without a model: 503.
Begin(r, seed, count) ==
    /\ run[r] = Idle
    /\ run' = [run EXCEPT ![r] =
                 IF readable
                 THEN [phase |-> "running", seed |-> seed, count |-> count, rows |-> <<>>]
                 ELSE [phase |-> "refused"]]
    /\ UNCHANGED <<disk, visible, restarts>>

Scenario(rows) == Len(rows) \div 2 + 1
Arm(rows)      == IF Len(rows) % 2 = 0 THEN "baseline" ELSE "adaptive"

\* Fault, not in the code: the next draw of one generator, which moves on with
\* every action not drawn yet.
Consumed(rows) == 1 + Cardinality({<<rows[k].scenario, rows[k].action>> : k \in DOMAIN rows})
\* Which draw decides the outcome: the scenario's.
DrawOf(rows) == Scenario(rows)

\* The rows of this scenario hold what outcome_cache does.
Outcome(s, rows, action) ==
    LET same == {k \in DOMAIN rows : rows[k].scenario = Scenario(rows) /\ rows[k].action = action}
    IN IF same # {} THEN rows[CHOOSE k \in same : TRUE].recovered
                    ELSE Recovers(s, DrawOf(rows), action)

\* One arm of one scenario.  The adaptive policy loads the model each time.
Decide(r, action) ==
    /\ Running(r) /\ Len(run[r].rows) < 2 * run[r].count
    /\ LET rows == run[r].rows
       IN /\ IF Arm(rows) = "adaptive" THEN readable ELSE action = Baseline(run[r].seed, Scenario(rows))
          /\ run' = [run EXCEPT ![r].rows = Append(@,
                       [scenario |-> Scenario(rows), arm |-> Arm(rows), action |-> action,
                        recovered |-> Outcome(run[r].seed, rows, action)])]
    /\ UNCHANGED <<disk, visible, restarts>>

\* Fault, not in the code: what was written before an exception is committed.
WrittenSoFar(r) == IF run[r].rows = <<>> THEN {} ELSE {r}
\* What a request that fails leaves behind.
LeftBehind(r) == {}

Failed(r) == [run[r] EXCEPT !.phase = "failed"]

\* The model cannot be loaded when an adaptive decision needs it.
Fail(r) ==
    /\ Running(r) /\ Arm(run[r].rows) = "adaptive" /\ ~readable
    /\ run' = [run EXCEPT ![r] = Failed(r)]
    /\ visible' = visible \cup LeftBehind(r)
    /\ UNCHANGED <<disk, restarts>>

Commit(r) ==
    /\ Running(r) /\ Len(run[r].rows) = 2 * run[r].count
    /\ run' = [run EXCEPT ![r].phase = "done"]
    /\ visible' = visible \cup {r}
    /\ UNCHANGED <<disk, restarts>>

-----------------------------------------------------------------------------
(* Around it.                                                              *)

\* app.ml.train overwrites the artifact: unreadable, then another model.
TrainAnew ==
    /\ readable' = ~readable
    /\ IF readable THEN trainings < MaxTrainings /\ trainings' = trainings + 1
                   ELSE UNCHANGED trainings
    /\ UNCHANGED <<run, visible, restarts>>

\* The process is restarted; open transactions are lost.
Restart ==
    /\ restarts < MaxRestarts /\ restarts' = restarts + 1
    /\ run' = [r \in Requests |-> IF Running(r) THEN Failed(r) ELSE run[r]]
    /\ visible' = visible \cup UNION {LeftBehind(r) : r \in {q \in Requests : Running(q)}}
    /\ UNCHANGED disk

RunInit ==
    /\ readable = TRUE
    /\ run = [r \in Requests |-> Idle] /\ visible = {}
    /\ trainings = 0 /\ restarts = 0

RunNext ==
    \/ \E r \in Requests, s \in Seeds, n \in 1..MaxCount : Begin(r, s, n)
    \/ \E r \in Requests, a \in Actions : Decide(r, a)
    \/ \E r \in Requests : Fail(r) \/ Commit(r)
    \/ TrainAnew \/ Restart

RunSpec == RunInit /\ [][RunNext]_runVars

-----------------------------------------------------------------------------
(* What summarize_run reads of a committed run.                            *)

Rows(r) == run[r].rows
RowsOf(r, arm) == {k \in DOMAIN Rows(r) : Rows(r)[k].arm = arm}

-----------------------------------------------------------------------------
(* Properties.                                                             *)

\* One transaction per run: what a reader sees is a whole run, both arms of
\* each of its scenarios, whatever failed in between.
RunsAreWhole ==
    \A r \in visible, arm \in {"baseline", "adaptive"} :
        {Rows(r)[k].scenario : k \in RowsOf(r, arm)} = 1..run[r].count

\* A seed decides the outcome of an action in a scenario: two runs of a seed
\* agree wherever they take the same action, whatever the model did elsewhere.
SeedDecides ==
    \A r, q \in visible : run[r].seed = run[q].seed =>
        \A j \in DOMAIN Rows(r), k \in DOMAIN Rows(q) :
            (/\ Rows(r)[j].scenario = Rows(q)[k].scenario
             /\ Rows(r)[j].action = Rows(q)[k].action)
            => Rows(r)[j].recovered = Rows(q)[k].recovered
=============================================================================
