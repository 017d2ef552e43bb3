-------------------------- MODULE CustomerReplyProofs --------------------------
(***************************************************************************)
(* Proofs about CustomerReply, for any texts, any answers of any provider, *)
(* any number of threads and any horizon.                                  *)
(***************************************************************************)
EXTENDS CustomerReply, SequenceTheorems, TLAPS

-----------------------------------------------------------------------------
(* What the extraction makes of a text, whatever the provider answers.     *)

Harmless == {"unclear", "uncertain", "exception"}

\* A text that gives instructions is extracted as nothing that is acted on.
LEMMA InjectionIsHarmless ==
    ASSUME NEW m, NEW today, NEW p, NEW a, "injection" \in m.says
    PROVE  Extract(m, today, p, a).intent \in Harmless
<1>1. Simulated(m, today).intent = "unclear"
  BY DEF Simulated, Extraction
<1>2. \A e : Downgraded(m, e).intent = "uncertain"
  BY DEF Downgraded, Extraction
<1>3. Raised.intent = "exception"
  BY DEF Raised, Extraction
<1> QED BY <1>1, <1>2, <1>3 DEF Extract, Harmless

LEMMA DaysAreResolved ==
    ASSUME NEW m \in Messages, NEW today \in Nat
    PROVE  Resolve(m.when, today) \in Int
<1>1. m.when[2] \in Int /\ (m.when[2] - today) % 7 \in 0..6
  BY ReplyAssumption
<1> QED BY <1>1 DEF Resolve, NoDay

LEMMA ExtractNamesADay ==
    ASSUME NEW m \in Messages, NEW today \in Nat, NEW p, NEW a \in Answers
    PROVE  Extract(m, today, p, a).day \in Int
<1>1. Simulated(m, today).day \in Int
  <2>1. Resolve(m.when, today) \in Int
    BY DaysAreResolved
  <2>2. ASSUME "injection" \in m.says
       PROVE  Simulated(m, today).day = NoDay
    BY <2>2 DEF Simulated, Extraction
  <2>3. ASSUME "injection" \notin m.says, "opt out" \in m.says
       PROVE  Simulated(m, today).day = NoDay
    BY <2>3 DEF Simulated, Extraction
  <2>4. ASSUME m.says \cap {"injection", "opt out"} = {}, "dispute" \in m.says
       PROVE  Simulated(m, today).day = NoDay
    BY <2>4 DEF Simulated, Extraction
  <2>5. ASSUME m.says \cap {"injection", "opt out", "dispute"} = {}
       PROVE  Simulated(m, today).day = Resolve(m.when, today)
    <3>1. CASE m.amount # "none" /\ Resolve(m.when, today) # NoDay
      BY <2>1, <2>5, <3>1 DEF Simulated, Extraction
    <3>2. CASE ~(m.amount # "none" /\ Resolve(m.when, today) # NoDay)
      BY <2>1, <2>5, <3>2 DEF Simulated, Extraction
    <3> QED BY <3>1, <3>2
  <2>6. NoDay \in Int
    BY DEF NoDay
  <2> QED BY <2>1, <2>2, <2>3, <2>4, <2>5, <2>6
<1>2. a.kind = "object" =>
         Downgraded(m, Extraction(a.intent, a.amount, a.day, a.confidence = "high", "llm")).day \in Int
  BY ReplyAssumption DEF Downgraded, Extraction, NoDay
<1>3. Raised.day \in Int
  BY DEF Raised, Extraction, NoDay
<1> QED BY <1>1, <1>2, <1>3 DEF Extract

-----------------------------------------------------------------------------
(* The inductive invariant.                                                *)

Reply   == [msg : Messages, day : Nat]
Promise == [reply : Nat, day : Int,
            status   : {"PENDING", "SUPERSEDED", "KEPT", "BROKEN"},
            followup : {"SCHEDULED", "CANCELLED", "EXECUTED"}]

RepliesOK == day \in Nat /\ replies \in Seq(Reply)

\* What a thread extracted is of its own reply.
ThreadOK(t) ==
    /\ thread[t].at # "idle" => thread[t].n \in 1..Len(replies)
    /\ thread[t].at = "handle" =>
          /\ thread[t].got.day \in Int
          /\ ~NoInjection(thread[t].n) => thread[t].got.intent \in {"unclear", "uncertain"}
ThreadsOK == thread = [t \in Threads |-> thread[t]] /\ \A t \in Threads : ThreadOK(t)

\* A promise is what its reply allowed, and at most one is pending.
PromiseOK(p) ==
    /\ p.reply \in 1..Len(replies) /\ NoInjection(p.reply)
    /\ p.day \in replies[p.reply].day .. replies[p.reply].day + Horizon
OnePending == \A i, j \in 1..Len(promises) :
                 promises[i].status = "PENDING" /\ promises[j].status = "PENDING" => i = j
PromisesOK == /\ promises \in Seq(Promise)
              /\ \A i \in 1..Len(promises) : PromiseOK(promises[i])
              /\ OnePending

RInv == RepliesOK /\ ThreadsOK /\ PromisesOK

-----------------------------------------------------------------------------
(* What a step does to the tables.                                         *)

\* Replies are only added.
RepliesGrow == /\ RepliesOK' /\ Len(replies') \in Nat /\ Len(replies) \in Nat /\ Len(replies) <= Len(replies')
               /\ \A k \in 1..Len(replies) : /\ replies'[k].msg = replies[k].msg
                                             /\ replies'[k].day = replies[k].day

\* No promise appears, and none is pending again.
Fewer(ps, qs) ==
    /\ qs \in Seq(Promise) /\ Len(qs) = Len(ps)
    /\ \A i \in 1..Len(ps) : /\ qs[i].reply = ps[i].reply /\ qs[i].day = ps[i].day
                             /\ qs[i].status = "PENDING" => ps[i].status = "PENDING"

LEMMA SameReplies == ASSUME RepliesOK, UNCHANGED <<replies, day>> PROVE RepliesGrow
  BY LenProperties DEF RepliesOK, RepliesGrow

LEMMA NoFewer == ASSUME NEW ps \in Seq(Promise) PROVE Fewer(ps, ps)
  BY LenProperties DEF Fewer

LEMMA CancelledIsFewer == ASSUME NEW ps \in Seq(Promise) PROVE Fewer(ps, Cancelled(ps))
<1>1. DOMAIN ps = 1..Len(ps) /\ Len(ps) \in Nat /\ \A i \in 1..Len(ps) : ps[i] \in Promise
  BY LenProperties
<1>2. \A i \in 1..Len(ps) : Cancelled(ps)[i] \in Promise
  BY <1>1 DEF Cancelled, Promise
<1>3. Cancelled(ps) \in [1..Len(ps) -> Promise]
  BY <1>1, <1>2 DEF Cancelled
<1>4. Cancelled(ps) \in Seq(Promise) /\ Len(Cancelled(ps)) = Len(ps)
  BY <1>1, <1>3
<1> QED BY <1>1, <1>4 DEF Fewer, Cancelled, Promise

LEMMA PendingIsFewer ==
    ASSUME NEW ps \in Seq(Promise), NEW s \in {"SUPERSEDED", "KEPT"}
    PROVE  Fewer(ps, Pending(ps, s)) /\ \A i \in 1..Len(ps) : Pending(ps, s)[i].status # "PENDING"
<1>1. DOMAIN ps = 1..Len(ps) /\ Len(ps) \in Nat /\ \A i \in 1..Len(ps) : ps[i] \in Promise
  BY LenProperties
<1>2. \A i \in 1..Len(ps) : Pending(ps, s)[i] \in Promise
  BY <1>1 DEF Pending, Promise
<1>3. Pending(ps, s) \in [1..Len(ps) -> Promise]
  BY <1>1, <1>2 DEF Pending
<1>4. Pending(ps, s) \in Seq(Promise) /\ Len(Pending(ps, s)) = Len(ps)
  BY <1>1, <1>3
<1> QED BY <1>1, <1>4 DEF Fewer, Pending, Promise

LEMMA FewerThanFewer ==
    ASSUME NEW ps, NEW qs, NEW rs, Fewer(ps, qs), Fewer(qs, rs) PROVE Fewer(ps, rs)
  BY DEF Fewer

LEMMA FewerPromises ==
    ASSUME RInv, RepliesGrow, Fewer(promises, promises')
    PROVE  PromisesOK'
<1>1. /\ promises' \in Seq(Promise) /\ Len(promises') = Len(promises)
      /\ \A i \in 1..Len(promises) :
            /\ promises'[i].reply = promises[i].reply /\ promises'[i].day = promises[i].day
            /\ promises'[i].status = "PENDING" => promises[i].status = "PENDING"
  BY DEF Fewer
<1>2. ASSUME NEW i \in 1..Len(promises) PROVE PromiseOK(promises[i])'
  <2>1. PromiseOK(promises[i])
    BY DEF RInv, PromisesOK
  <2> QED BY <1>1, <2>1 DEF PromiseOK, NoInjection, RepliesGrow
<1>3. OnePending'
  BY <1>1 DEF OnePending, RInv, PromisesOK
<1> QED BY <1>1, <1>2, <1>3 DEF PromisesOK

LEMMA OtherThreads ==
    ASSUME RInv, RepliesGrow, NEW t \in Threads, thread'[t] = thread[t]
    PROVE  ThreadOK(t)'
  BY DEF RInv, ThreadsOK, ThreadOK, RepliesGrow, NoInjection

\* A step that leaves the threads alone.
LEMMA Elsewhere ==
    ASSUME RInv, RepliesGrow, UNCHANGED thread, Fewer(promises, promises')
    PROVE  RInv'
<1>1. ThreadsOK'
  BY OtherThreads DEF RInv, ThreadsOK
<1>2. PromisesOK'
  BY FewerPromises
<1> QED BY <1>1, <1>2 DEF RInv, RepliesGrow

\* A step that ends the request of t.
LEMMA RequestOver ==
    ASSUME RInv, RepliesGrow, NEW t \in Threads, thread' = [thread EXCEPT ![t] = Idle]
    PROVE  ThreadsOK'
<1>1. \A u \in Threads \ {t} : thread'[u] = thread[u]
  BY DEF RInv, ThreadsOK
<1>2. thread'[t] = Idle /\ thread' = [u \in Threads |-> thread'[u]]
  BY DEF RInv, ThreadsOK
<1>3. ThreadOK(t)'
  BY <1>2 DEF ThreadOK, Idle
<1>4. \A u \in Threads : ThreadOK(u)'
  BY <1>1, <1>3, OtherThreads
<1> QED BY <1>2, <1>4 DEF ThreadsOK

-----------------------------------------------------------------------------
(* The steps.                                                              *)

LEMMA InitOK == Init => RInv
<1> SUFFICES ASSUME Init PROVE RInv
  OBVIOUS
<1>1. RepliesOK
  BY DEF Init, RepliesOK
<1>2. ThreadsOK
  BY DEF Init, ThreadsOK, ThreadOK, Idle
<1>3. PromisesOK
  BY DEF Init, PromisesOK, OnePending
<1> QED BY <1>1, <1>2, <1>3 DEF RInv

LEMMA ReceiveOK ==
    ASSUME RInv, NEW t \in Threads, NEW m \in Messages, Receive(t, m) PROVE RInv'
<1>1. RepliesGrow
  BY LenProperties DEF RInv, RepliesOK, RepliesGrow, Receive, Reply
<1>2. PromisesOK'
  BY <1>1, FewerPromises, NoFewer DEF Receive, RInv, PromisesOK
<1>3. \A u \in Threads \ {t} : ThreadOK(u)'
  <2>1. \A u \in Threads \ {t} : thread'[u] = thread[u]
    BY DEF Receive, RInv, ThreadsOK
  <2> QED BY <1>1, <2>1, OtherThreads
<1>4. /\ thread' = [u \in Threads |-> thread'[u]]
      /\ thread'[t].at = "extract" /\ thread'[t].n = Len(replies) + 1
  BY DEF Receive, RInv, ThreadsOK
<1>5. Len(replies') = Len(replies) + 1 /\ Len(replies) \in Nat
  BY LenProperties DEF Receive, RInv, RepliesOK
<1>6. ThreadOK(t)'
  BY <1>4, <1>5 DEF ThreadOK
<1> QED BY <1>1, <1>2, <1>3, <1>4, <1>6 DEF RInv, ThreadsOK, RepliesGrow

LEMMA ReadOK ==
    ASSUME RInv, NEW t \in Threads, NEW a \in Answers, Read(t, a) PROVE RInv'
<1> DEFINE m == replies[thread[t].n].msg
           e == Extract(m, Asked(t), provider, a)
<1>1. thread[t].n \in 1..Len(replies) /\ thread[t].at # "idle"
  BY DEF Read, RInv, ThreadsOK, ThreadOK
<1>2. m \in Messages /\ Asked(t) \in Nat
  <2>1. replies[thread[t].n] \in Reply
    BY <1>1, ElementOfSeq DEF RInv, RepliesOK
  <2> QED BY <2>1 DEF Reply, Asked
<1>3. e.day \in Int
  BY <1>2, ExtractNamesADay
<1>4. "injection" \in m.says => e.intent \in Harmless
  BY InjectionIsHarmless
<1>5. CASE e.intent = "exception"
  <2>1. Over(t)
    BY <1>5 DEF Read
  <2>2. RepliesGrow
    BY <2>1, SameReplies DEF Read, Over, RInv
  <2>3. ThreadsOK'
    BY <2>1, <2>2, RequestOver DEF Over
  <2>4. PromisesOK'
    BY <2>2, FewerPromises, NoFewer DEF Read, RInv, PromisesOK
  <2> QED BY <2>2, <2>3, <2>4 DEF RInv, RepliesGrow
<1>6. CASE e.intent # "exception"
  <2>1. /\ UNCHANGED <<replies, day, promises>>
        /\ thread' = [thread EXCEPT ![t] = [at |-> "handle", n |-> thread[t].n, got |-> e]]
    BY <1>6 DEF Read
  <2> HIDE DEF e
  <2>2. RepliesGrow
    BY <2>1, SameReplies DEF RInv
  <2>3. PromisesOK'
    BY <2>1, <2>2, FewerPromises, NoFewer DEF RInv, PromisesOK
  <2>4. \A u \in Threads \ {t} : ThreadOK(u)'
    <3>1. \A u \in Threads \ {t} : thread'[u] = thread[u]
      BY <2>1 DEF RInv, ThreadsOK
    <3> QED BY <2>2, <3>1, OtherThreads
  <2>5. /\ thread' = [u \in Threads |-> thread'[u]]
        /\ thread'[t] = [at |-> "handle", n |-> thread[t].n, got |-> e]
    BY <2>1 DEF RInv, ThreadsOK
  <2>6. ThreadOK(t)'
    BY <1>1, <1>3, <1>4, <1>6, <2>1, <2>5 DEF ThreadOK, NoInjection, Harmless
  <2> QED BY <2>2, <2>3, <2>4, <2>5, <2>6 DEF RInv, ThreadsOK, RepliesGrow
<1> QED BY <1>5, <1>6

\* The reply that becomes a promise: it is of a text without instructions, and
\* for a day within the horizon of the day it was written.
LEMMA NewPromiseOK ==
    ASSUME RInv, RepliesGrow, NEW t \in Threads, thread[t].at = "handle",
           Valid(thread[t].got, Asked(t)),
           NEW p \in Promise, p.reply = thread[t].n, p.day = thread[t].got.day,
           promises' = WithPromise(promises, p)
    PROVE  PromisesOK'
<1> DEFINE old == Pending(Cancelled(promises), "SUPERSEDED")
<1>1. promises \in Seq(Promise)
  BY DEF RInv, PromisesOK
<1>2. Cancelled(promises) \in Seq(Promise) /\ Fewer(promises, Cancelled(promises))
  BY <1>1, CancelledIsFewer DEF Fewer
<1>3. /\ Fewer(promises, old)
      /\ \A i \in 1..Len(promises) : old[i].status # "PENDING"
  BY <1>2, PendingIsFewer, FewerThanFewer DEF Fewer
<1> HIDE DEF old
<1>4. promises' = Append(old, p) /\ old \in Seq(Promise)
  BY <1>3 DEF WithPromise, old, Fewer
<1>5. /\ Len(old) \in Nat /\ Len(promises') = Len(old) + 1 /\ promises' \in Seq(Promise)
      /\ \A i \in 1..Len(old) : promises'[i] = old[i]
      /\ promises'[Len(old) + 1] = p
  BY <1>4, LenProperties
<1>6. PromiseOK(p)'
  <2>1. /\ thread[t].n \in 1..Len(replies) /\ thread[t].got.day \in Int
        /\ ~NoInjection(thread[t].n) => thread[t].got.intent \in {"unclear", "uncertain"}
    BY DEF RInv, ThreadsOK, ThreadOK
  <2>2. /\ thread[t].got.intent = "promise_to_pay"
        /\ thread[t].got.day >= Asked(t) /\ thread[t].got.day <= Asked(t) + Horizon
    BY DEF Valid
  <2>3. replies[thread[t].n].day \in Nat /\ Horizon \in Int
    <3>1. replies[thread[t].n] \in Reply
      BY <2>1, ElementOfSeq DEF RInv, RepliesOK
    <3> QED BY <3>1, HorizonAssumption DEF Reply
  <2> QED BY <2>1, <2>2, <2>3 DEF PromiseOK, NoInjection, Asked, RepliesGrow
<1>7. ASSUME NEW i \in 1..Len(old) PROVE PromiseOK(promises[i])'
  <2>1. PromiseOK(promises[i]) /\ Len(old) = Len(promises)
    BY <1>3 DEF Fewer, RInv, PromisesOK
  <2>2. promises'[i].reply = promises[i].reply /\ promises'[i].day = promises[i].day
    BY <1>3, <1>5 DEF Fewer
  <2> QED BY <2>1, <2>2 DEF PromiseOK, NoInjection, RepliesGrow
<1>8. \A i \in 1..Len(promises') : PromiseOK(promises[i])'
  BY <1>5, <1>6, <1>7
<1>9. OnePending'
  BY <1>3, <1>5 DEF OnePending, Fewer
<1> QED BY <1>5, <1>8, <1>9 DEF PromisesOK

LEMMA HandleOK ==
    ASSUME RInv, NEW t \in Threads, Handle(t) PROVE RInv'
<1>1. Over(t) /\ thread[t].at = "handle" /\ UNCHANGED day
  BY DEF Handle
<1>2. RepliesGrow
  BY <1>1, SameReplies DEF Over, RInv
<1>3. ThreadsOK'
  BY <1>1, <1>2, RequestOver DEF Over
<1>4. promises \in Seq(Promise)
  BY DEF RInv, PromisesOK
<1>5. PromisesOK'
  <2>1. CASE promises' = promises \/ promises' = Cancelled(promises)
    BY <1>2, <1>4, <2>1, FewerPromises, NoFewer, CancelledIsFewer
  <2>2. CASE /\ Valid(thread[t].got, Asked(t))
             /\ promises' = WithPromise(promises, [reply |-> thread[t].n, day |-> thread[t].got.day,
                                status |-> "PENDING", followup |-> "SCHEDULED"])
    <3> DEFINE p == [reply |-> thread[t].n, day |-> thread[t].got.day,
                     status |-> "PENDING", followup |-> "SCHEDULED"]
    <3>1. /\ thread[t].n \in 1..Len(replies) /\ thread[t].got.day \in Int /\ day \in Nat
          /\ Len(replies) \in Nat
      BY <1>1, LenProperties DEF RInv, ThreadsOK, ThreadOK, RepliesOK
    <3>2. p \in Promise
      BY <3>1 DEF Promise
    <3>3. p.reply = thread[t].n /\ p.day = thread[t].got.day
      OBVIOUS
    <3>4. promises' = WithPromise(promises, p)
      BY <2>2
    <3> HIDE DEF p
    <3> QED BY <1>1, <1>2, <2>2, <3>2, <3>3, <3>4, NewPromiseOK
  <2> QED BY <2>1, <2>2 DEF Handle
<1> QED BY <1>2, <1>3, <1>5 DEF RInv, RepliesGrow

LEMMA StoreFailsOK ==
    ASSUME RInv, NEW t \in Threads, StoreFails(t) PROVE RInv'
<1>1. Over(t) /\ thread[t].at # "idle" /\ UNCHANGED <<day, promises>>
  BY DEF StoreFails
<1>2. RepliesGrow
  BY <1>1, SameReplies DEF Over, RInv
<1>3. ThreadsOK'
  BY <1>1, <1>2, RequestOver DEF Over
<1>4. PromisesOK'
  BY <1>1, <1>2, FewerPromises, NoFewer DEF RInv, PromisesOK
<1> QED BY <1>2, <1>3, <1>4 DEF RInv, RepliesGrow

LEMMA FollowUpOK ==
    ASSUME RInv, NEW i \in DOMAIN promises, FollowUp(i) PROVE RInv'
<1>1. promises \in Seq(Promise)
  BY DEF RInv, PromisesOK
<1>2. i \in 1..Len(promises) /\ promises[i] \in Promise
  BY <1>1, LenProperties, ElementOfSeq
<1> DEFINE broken == [promises[i] EXCEPT !.followup = "EXECUTED", !.status = "BROKEN"]
           dropped == [promises[i] EXCEPT !.followup = "CANCELLED"]
<1>3. Fewer(promises, promises')
  <2>1. CASE promises' = [promises EXCEPT ![i] = broken]
    <3>1. broken \in Promise /\ broken.reply = promises[i].reply /\ broken.day = promises[i].day
          /\ broken.status # "PENDING"
      BY <1>2 DEF Promise
    <3> HIDE DEF broken
    <3> QED BY <1>1, <1>2, <2>1, <3>1, ExceptSeq DEF Fewer
  <2>2. CASE promises' = [promises EXCEPT ![i] = dropped]
    <3>1. dropped \in Promise /\ dropped.reply = promises[i].reply /\ dropped.day = promises[i].day
          /\ dropped.status = promises[i].status
      BY <1>2 DEF Promise
    <3> HIDE DEF dropped
    <3> QED BY <1>1, <1>2, <2>2, <3>1, ExceptSeq DEF Fewer
  <2>3. promises' = [promises EXCEPT ![i] = broken] \/ promises' = [promises EXCEPT ![i] = dropped]
    BY <1>1, <1>2, LenProperties DEF FollowUp
  <2> QED BY <2>1, <2>2, <2>3
<1>4. RepliesGrow
  BY SameReplies DEF RInv, FollowUp
<1> QED BY <1>3, <1>4, Elsewhere DEF FollowUp

LEMMA AroundOK ==
    ASSUME RInv, Paid \/ Disputed \/ Midnight \/ UNCHANGED vars PROVE RInv'
<1>1. promises \in Seq(Promise) /\ day \in Nat
  BY DEF RInv, PromisesOK, RepliesOK
<1>2. Fewer(promises, promises')
  <2>1. /\ Fewer(promises, Cancelled(promises)) /\ Cancelled(promises) \in Seq(Promise)
        /\ Fewer(promises, promises)
    BY <1>1, CancelledIsFewer, NoFewer DEF Fewer
  <2>2. Fewer(promises, Pending(Cancelled(promises), "KEPT"))
    BY <2>1, PendingIsFewer, FewerThanFewer
  <2> QED BY <2>1, <2>2 DEF Paid, Disputed, Midnight, vars
<1>3. RepliesGrow
  BY <1>1, LenProperties DEF RInv, RepliesOK, RepliesGrow, Paid, Disputed, Midnight, vars
<1> QED BY <1>2, <1>3, Elsewhere DEF Paid, Disputed, Midnight, vars

LEMMA Invariance == Spec => []RInv
<1>1. RInv /\ [Next]_vars => RInv'
  BY AroundOK, FollowUpOK, ReceiveOK, ReadOK, HandleOK, StoreFailsOK DEF Next
<1> QED BY <1>1, InitOK, PTL DEF Spec

-----------------------------------------------------------------------------
(* Theorems.                                                               *)

\* A text that gives instructions to the model never becomes a promise or a
\* dispute, whatever any model answers to it.
THEOREM InjectionsRecordNothing == Spec => []InjectionRecordsNothing
<1>1. RInv => InjectionRecordsNothing
  BY LenProperties DEF RInv, PromisesOK, PromiseOK, ThreadsOK, ThreadOK, InjectionRecordsNothing
<1> QED BY <1>1, Invariance, PTL

\* A promise is for a day within the horizon of the day the customer wrote,
\* and at most one is pending, however many replies are read at a time.
THEOREM PromisesAreOfTheirDay == Spec => []PromiseOfItsDay
<1>1. RInv => PromiseOfItsDay
  BY LenProperties DEF RInv, PromisesOK, PromiseOK, OnePending, PromiseOfItsDay
<1> QED BY <1>1, Invariance, PTL

\* A case that ended while a reply was being read gets no promise and stays out
\* of recovery.
THEOREM EndedForGood == Spec => EndedStaysEnded
<1> DEFINE Stays == (state \in Terminal) => state' \in Terminal /\ Len(promises') = Len(promises)
<1>1. RInv /\ [Next]_vars => Stays
  <2> SUFFICES ASSUME RInv, [Next]_vars, state \in Terminal PROVE Stays
    OBVIOUS
  <2>1. promises \in Seq(Promise)
    BY DEF RInv, PromisesOK
  <2>2. Len(Cancelled(promises)) = Len(promises) /\ Cancelled(promises) \in Seq(Promise)
    BY <2>1, CancelledIsFewer DEF Fewer
  <2>3. Len(Pending(Cancelled(promises), "KEPT")) = Len(promises)
    BY <2>2, PendingIsFewer DEF Fewer
  <2>4. CASE \E t \in Threads : Handle(t)
    BY <2>4 DEF Handle, IsReplyable, Replyable, Terminal
  <2>5. CASE \E i \in DOMAIN promises : FollowUp(i)
    <3>1. PICK i \in DOMAIN promises : FollowUp(i)
      BY <2>5
    <3>2. promises' = [promises EXCEPT ![i].followup = "CANCELLED"] /\ UNCHANGED state
      BY <3>1 DEF FollowUp, Terminal
    <3>3. i \in 1..Len(promises)
      BY <2>1, <3>1, LenProperties
    <3>4. [promises[i] EXCEPT !.followup = "CANCELLED"] \in Promise
      <4>1. promises[i] \in Promise
        BY <2>1, <3>3, ElementOfSeq
      <4> QED BY <4>1 DEF Promise
    <3> QED BY <2>1, <3>2, <3>3, <3>4, ExceptSeq
  <2>6. CASE Paid \/ Disputed
    BY <2>2, <2>3, <2>6 DEF Paid, Disputed, Terminal
  <2>7. CASE Midnight \/ UNCHANGED vars
    BY <2>7 DEF Midnight, vars
  <2>8. CASE \E t \in Threads : \/ \E m \in Messages : Receive(t, m)
                                \/ \E a \in Answers : Read(t, a)
                                \/ StoreFails(t)
    BY <2>8 DEF Receive, Read, StoreFails
  <2> QED BY <2>4, <2>5, <2>6, <2>7, <2>8 DEF Next
<1> QED BY <1>1, Invariance, PTL DEF Spec, EndedStaysEnded
=============================================================================
