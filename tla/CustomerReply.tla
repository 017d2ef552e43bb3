---------------------------- MODULE CustomerReply ----------------------------
(***************************************************************************)
(* POST /cases/{id}/customer-reply for one case.  Each request runs in a   *)
(* thread of its own: it looks at the clock, lets the LLM read the message *)
(* with no lock held, which may take half a minute, and only then locks    *)
(* the case and acts on what was read.  Meanwhile other replies overtake   *)
(* it, the case is paid or disputed, and days pass.                        *)
(*                                                                         *)
(* CaseRuntime has the workers and the policy around it; here a follow-up  *)
(* is carried out in one step.                                             *)
(***************************************************************************)
EXTENDS LlmClient, Sequences

CONSTANTS
    Threads,               \* of the API process
    Messages,              \* texts customers send
    Answers,               \* answers the provider may give
    Providers,             \* subset of {"disabled", "anthropic", "opencode_zen"}
    MaxReplies, MaxDay     \* bounds

ASSUME ReplyAssumption ==
    /\ MaxReplies \in Nat /\ MaxDay \in Nat
    /\ \A m \in Messages : m.when[2] \in Int
    /\ \A a \in Answers : a.kind = "object" => a.day \in Int

Replyable == {"WAITING", "ACTION_SCHEDULED", "AWAITING_OUTCOME", "HUMAN_REVIEW"}
Terminal  == {"RECOVERED", "DISPUTED", "STOPPED"}

VARIABLES
    provider,    \* LLM_PROVIDER, "disabled" unless the LLM is enabled
    day,         \* merchant-local date
    state,       \* RevenueCase.state
    replies,     \* messages in the order their requests began, with the day
    promises,    \* PromiseToPay rows with their follow-up actions
    thread       \* where each thread is, its reply, and what was extracted

vars == <<provider, day, state, replies, promises, thread>>

Idle == [at |-> "idle", n |-> 0, got |-> Raised]
Asked(t) == replies[thread[t].n].day       \* business_now, as it was read

Cancelled(ps) == [i \in DOMAIN ps |-> IF ps[i].followup = "SCHEDULED"
                                      THEN [ps[i] EXCEPT !.followup = "CANCELLED"] ELSE ps[i]]
Pending(ps, s) == [i \in DOMAIN ps |-> IF ps[i].status = "PENDING"
                                       THEN [ps[i] EXCEPT !.status = s] ELSE ps[i]]

-----------------------------------------------------------------------------
(* The request.                                                            *)

Receive(t, m) ==
    /\ thread[t].at = "idle" /\ Len(replies) < MaxReplies
    /\ replies' = Append(replies, [msg |-> m, day |-> day])
    /\ thread' = [thread EXCEPT ![t] = [at |-> "extract", n |-> Len(replies) + 1, got |-> Raised]]
    /\ UNCHANGED <<provider, day, state, promises>>

Over(t) == thread' = [thread EXCEPT ![t] = Idle] /\ UNCHANGED replies

\* An exception leaves the endpoint as HTTP 500.
Read(t, answer) ==
    /\ thread[t].at = "extract"
    /\ LET e == Extract(replies[thread[t].n].msg, Asked(t), provider, answer)
       IN IF e.intent = "exception"
          THEN Over(t)
          ELSE /\ thread' = [thread EXCEPT ![t] = [at |-> "handle", n |-> @.n, got |-> e]]
               /\ UNCHANGED replies
    /\ UNCHANGED <<provider, day, state, promises>>

\* Fault, not in the code: the state is not looked at again.
Anyhow(s) == TRUE
IsReplyable(s) == s \in Replyable

\* The inbound message is flushed with what was extracted; PostgreSQL takes
\* no NaN in a JSON column, and the transaction is lost.
StoreFails(t) ==
    /\ thread[t].at = "handle" /\ thread[t].got.amount = "nan"
    /\ Over(t)
    /\ UNCHANGED <<provider, day, state, promises>>

\* Fault, not in the code: scheduled work is cancelled last.
CancelledAfter(ps, p) == Cancelled(Append(Pending(ps, "SUPERSEDED"), p))
WithPromise(ps, p) == Append(Pending(Cancelled(ps), "SUPERSEDED"), p)

\* handle_customer_reply, under the lock.
Handle(t) ==
    LET e == thread[t].got IN
    /\ thread[t].at = "handle" /\ e.amount # "nan"
    /\ CASE ~IsReplyable(state) -> UNCHANGED <<state, promises>>
         [] IsReplyable(state) /\ e.intent \in {"dispute", "payment_claim"} ->
                state' = "DISPUTED" /\ promises' = Cancelled(promises)
         [] IsReplyable(state) /\ Valid(e, Asked(t)) ->
                /\ state' = "AWAITING_OUTCOME"
                /\ promises' = WithPromise(promises, [reply |-> thread[t].n, day |-> e.day,
                                                      status |-> "PENDING", followup |-> "SCHEDULED"])
         [] OTHER -> state' = "HUMAN_REVIEW" /\ promises' = Cancelled(promises)
    /\ Over(t)
    /\ UNCHANGED <<provider, day>>

-----------------------------------------------------------------------------
(* Meanwhile.                                                              *)

\* The follow-up is scheduled for the end of the promised day: claimed,
\* completed by complete_followup.
FollowUp(i) ==
    /\ promises[i].followup = "SCHEDULED" /\ day > promises[i].day
    /\ IF state = "AWAITING_OUTCOME" /\ promises[i].status = "PENDING"
       THEN /\ promises' = [promises EXCEPT ![i].followup = "EXECUTED", ![i].status = "BROKEN"]
            /\ state' = "HUMAN_REVIEW"
       ELSE promises' = [promises EXCEPT ![i].followup = "CANCELLED"] /\ UNCHANGED state
    /\ UNCHANGED <<provider, day, replies, thread>>

\* _recover_case
Paid == /\ state \notin {"RECOVERED", "DISPUTED"}
        /\ state' = "RECOVERED" /\ promises' = Pending(Cancelled(promises), "KEPT")
        /\ UNCHANGED <<provider, day, replies, thread>>

\* _dispute_case, for a dispute webhook: also over a recovered case.
Disputed == /\ state' = "DISPUTED" /\ promises' = Cancelled(promises)
            /\ UNCHANGED <<provider, day, replies, thread>>

Midnight == day < MaxDay /\ day' = day + 1 /\ UNCHANGED <<provider, state, replies, promises, thread>>

Init == /\ provider \in Providers /\ day = 0 /\ state \in Replyable
        /\ replies = <<>> /\ promises = <<>> /\ thread = [t \in Threads |-> Idle]

Next == \/ Midnight \/ Paid \/ Disputed
        \/ \E i \in DOMAIN promises : FollowUp(i)
        \/ \E t \in Threads : \/ \E m \in Messages : Receive(t, m)
                              \/ \E a \in Answers : Read(t, a)
                              \/ Handle(t) \/ StoreFails(t)

\* A post ends with its timeout, a row lock is granted, and a follow-up is
\* published and claimed (TaskQueue).
Fairness == /\ \A t \in Threads : /\ WF_vars(\E a \in Answers : Read(t, a))
                                  /\ WF_vars(Handle(t) \/ StoreFails(t))
            /\ \A i \in 1..MaxReplies : WF_vars(i \in DOMAIN promises /\ FollowUp(i))
            /\ WF_vars(Midnight)

Spec     == Init /\ [][Next]_vars
FairSpec == Spec /\ Fairness

-----------------------------------------------------------------------------
(* Properties.                                                             *)

\* A text that gives instructions never becomes a promise and never disputes
\* the case, on any path: disabled LLM, fallback, or whatever the model says.
NoInjection(n) == "injection" \notin replies[n].msg.says
InjectionRecordsNothing ==
    /\ \A i \in DOMAIN promises : NoInjection(promises[i].reply)
    /\ \A t \in Threads : thread[t].at = "handle" /\ ~NoInjection(thread[t].n)
                            => thread[t].got.intent \in {"unclear", "uncertain"}

\* A case that was paid, stopped or disputed while the LLM was reading gets no
\* promise and stays out of recovery.
EndedStaysEnded == [][(state \in Terminal) => state' \in Terminal /\ Len(promises') = Len(promises)]_vars

\* A promise is for a day within the horizon of the day the customer wrote,
\* whatever day it is when it is recorded, and one is pending at a time.
PromiseOfItsDay ==
    /\ \A i \in DOMAIN promises : LET d == replies[promises[i].reply].day
                                  IN promises[i].day \in d .. d + Horizon
    /\ \A i, j \in DOMAIN promises : promises[i].status = "PENDING" /\ promises[j].status = "PENDING" => i = j

\* A pending promise that keeps the case waiting is settled: its day passes,
\* or the case is taken over by a payment, a dispute or another reply.
Waits(i) == i \in DOMAIN promises /\ promises[i].status = "PENDING" /\ state = "AWAITING_OUTCOME"
WaitEnds == \A i \in 1..MaxReplies : Waits(i) /\ promises[i].day < MaxDay ~> ~Waits(i)
=============================================================================
