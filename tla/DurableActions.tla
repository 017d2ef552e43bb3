---------------------------- MODULE DurableActions ----------------------------
(***************************************************************************)
(* What the action table of one case promises to everything built on it,   *)
(* whatever processes, crashes and provider answers are behind it.  A row  *)
(* is the durable job record: it is inserted after all rows before it, is  *)
(* claimed a bounded number of times, and once it is over it stays over.   *)
(* New work replaces scheduled work, and only the newest live row is ever  *)
(* claimed, put back or completed, so outreach happens one row at a time   *)
(* and never out of order.                                                 *)
(***************************************************************************)
EXTENDS Naturals

CONSTANTS Rows, MaxAttempts

VARIABLES status, attempts

Live == {"SCHEDULED", "EXECUTING", "EXECUTED"}

Newest(a) == \A b \in Rows : b > a => status[b] \notin Live

\* The row number the next insert uses.
IsNext(a) == /\ status[a] = "NONE"
             /\ \A b \in Rows : b < a => status[b] # "NONE"

WithoutScheduled == [a \in Rows |-> IF status[a] = "SCHEDULED" THEN "CANCELLED" ELSE status[a]]

Init == /\ status = [a \in Rows |-> "NONE"]
        /\ attempts = [a \in Rows |-> 0]

\* An instruction (ESCALATE, STOP) is over as soon as it is recorded.
Insert(base) ==
    /\ \E a \in Rows, s \in {"SCHEDULED", "EXECUTED"} :
          IsNext(a) /\ status' = [base EXCEPT ![a] = s]
    /\ UNCHANGED attempts

\* A request replaces the scheduled work, or only drops it.
Replace == Insert(WithoutScheduled)
DropAll == status' = WithoutScheduled /\ UNCHANGED attempts

Claim(a) ==
    /\ status[a] = "SCHEDULED" /\ Newest(a) /\ attempts[a] < MaxAttempts
    /\ status' = [status EXCEPT ![a] = "EXECUTING"]
    /\ attempts' = [attempts EXCEPT ![a] = @ + 1]

PutBack(a) ==
    /\ status[a] = "EXECUTING" /\ Newest(a) /\ attempts[a] < MaxAttempts
    /\ status' = [status EXCEPT ![a] = "SCHEDULED"]
    /\ UNCHANGED attempts

Complete(a) ==
    /\ status[a] = "EXECUTING" /\ Newest(a)
    /\ status' = [status EXCEPT ![a] = "EXECUTED"]
    /\ UNCHANGED attempts

\* A wait is over: the next decision is taken in the same transaction.
CompleteAndDecide(a) ==
    /\ status[a] = "EXECUTING" /\ Newest(a)
    /\ Insert([status EXCEPT ![a] = "EXECUTED"])

Drop(a) ==
    /\ status[a] \in {"SCHEDULED", "EXECUTING"}
    /\ status' = [status EXCEPT ![a] = "CANCELLED"]
    /\ UNCHANGED attempts

Fail(a) ==
    /\ status[a] = "EXECUTING"
    /\ status' = [status EXCEPT ![a] = "FAILED"]
    /\ UNCHANGED attempts

Next == \/ Replace \/ DropAll
        \/ \E a \in Rows : \/ Claim(a) \/ PutBack(a) \/ Complete(a)
                           \/ CompleteAndDecide(a) \/ Drop(a) \/ Fail(a)

Spec == Init /\ [][Next]_<<status, attempts>>
=============================================================================
