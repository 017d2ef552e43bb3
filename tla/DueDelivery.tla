----------------------------- MODULE DueDelivery -----------------------------
(***************************************************************************)
(* What PostgreSQL, Redis and the reconciliation script together promise   *)
(* for scheduled work: a durable timer.  A row waits until its time, is    *)
(* started no earlier than that and at most once per attempt, and every    *)
(* row whose time has come is eventually started or withdrawn.             *)
(***************************************************************************)
EXTENDS Naturals

CONSTANTS Rows, MaxAttempts, MaxTime

VARIABLES now, status, attempts, due

vars == <<now, status, attempts, due>>

Init == /\ now = 0
        /\ status = [a \in Rows |-> "NONE"]
        /\ attempts = [a \in Rows |-> 0]
        /\ due = [a \in Rows |-> 0]

\* Work is committed, or put back after an attempt, for a time not yet past.
Put(a, t) == /\ status[a] \in {"NONE", "EXECUTING"}
             /\ t >= now /\ attempts[a] < MaxAttempts
             /\ status' = [status EXCEPT ![a] = "SCHEDULED"]
             /\ due' = [due EXCEPT ![a] = t]
             /\ UNCHANGED <<now, attempts>>

Start(a) == /\ status[a] = "SCHEDULED" /\ due[a] <= now
            /\ status' = [status EXCEPT ![a] = "EXECUTING"]
            /\ attempts' = [attempts EXCEPT ![a] = @ + 1]
            /\ UNCHANGED <<now, due>>

End(a) == /\ status[a] \in {"SCHEDULED", "EXECUTING"}
          /\ status' = [status EXCEPT ![a] = "OVER"]
          /\ UNCHANGED <<now, attempts, due>>

Tick == now < MaxTime /\ now' = now + 1 /\ UNCHANGED <<status, attempts, due>>

Next == \/ Tick
        \/ \E a \in Rows : \/ \E t \in 0..MaxTime : Put(a, t)
                           \/ Start(a) \/ End(a)

Spec == Init /\ [][Next]_vars /\ \A a \in Rows : WF_vars(Start(a))
=============================================================================
