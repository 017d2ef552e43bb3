---------------------------- MODULE TaskQueueProofs ----------------------------
(***************************************************************************)
(* Proofs about TaskQueue, for any rows, publishers, workers and bounds:   *)
(* what a delivered job and a stamped row can rely on, and that every step *)
(* is a step of the durable timer or none.                                 *)
(***************************************************************************)
EXTENDS TaskQueue, TLAPS

-----------------------------------------------------------------------------
(* The inductive invariant.                                                *)

\* A job that something may still come of, for its row.
Live(id) == \/ queued[id] > 0 \/ score[id] # Unscheduled
            \/ \E p \in Publishers : ~At(p, "idle") /\ pub[p].id = id
            \/ \E w \in Workers : ~Holds(w, "idle") /\ work[w].id = id

\* Jobs are of generations the row has been scheduled for.
Limit(a) == IF status[a] = "SCHEDULED" THEN attempts[a] + 1 ELSE attempts[a]
NoneAhead == \A id \in JobIds :
                Live(id) /\ status[RowOf(id)] # "OVER" => GenOf(id) < Limit(RowOf(id))

RowsOK == \A a \in Rows : /\ status[a] = "NONE" => attempts[a] = 0 /\ stamp[a] = Unset
                          /\ status[a] = "SCHEDULED" => attempts[a] < MaxAttempts

\* The time a publisher read, and the time RQ's scheduler waits for, are the row's.
SameDue == \A a \in Rows : status[a] = "SCHEDULED" =>
              /\ \A p \in Publishers : ~At(p, "idle") /\ pub[p].id = Id(a) => pub[p].due = due[a]
              /\ score[Id(a)] # Unscheduled => due[a] <= 2 * score[Id(a)]

\* A row is executed by one worker, and it is claimed.
OneExecutes == \A w \in Workers : Holds(w, "executing") =>
                  /\ status[RowOf(work[w].id)] = "EXECUTING"
                  /\ \A v \in Workers : 
                        Holds(v, "executing") /\ RowOf(work[v].id) = RowOf(work[w].id) => v = w

\* Without faults, a job without a record is being put back, ...
Entered == \A id \in JobIds :
              (queued[id] > 0 \/ score[id] # Unscheduled) /\ id \notin record =>
                 \E p \in Publishers : At(p, "enqueue") /\ pub[p].id = id
\* ... every running job has its worker, ...
Attended == /\ \A id \in intermediate : \E w \in Workers : Holds(w, "taken") /\ work[w].id = id
            /\ \A id \in started :
                  \E w \in Workers : (Holds(w, "started") \/ Holds(w, "executing")) /\ work[w].id = id
\* ... and what is stamped, or about to be, is somewhere.
Stamped(a) == \/ stamp[a] = attempts[a]
              \/ \E p \in Publishers : At(p, "stamp") /\ pub[p].id = Id(a)
Present(id) == \/ queued[id] > 0 \/ score[id] # Unscheduled \/ id \in intermediate \cup started
               \/ \E w \in Workers : ~Holds(w, "idle") /\ work[w].id = id
               \/ \E p \in Publishers : pub[p].id = id /\ At(p, "enqueue")
StampedIsPresent ==
    \A a \in Rows : status[a] = "SCHEDULED" /\ Stamped(a) => Present(Id(a))

IInv == /\ TypeOK /\ NoneAhead /\ RowsOK /\ SameDue /\ OneExecutes /\ NeverEarly
        /\ faults = 0 => Entered /\ Attended /\ StampedIsPresent

-----------------------------------------------------------------------------
(* Ids, publishers and workers.                                            *)

\* An id is its row and its generation; a row's current id is an id.
LEMMA IdsAre ==
    ASSUME TypeOK
    PROVE  /\ \A id \in JobIds : RowOf(id) \in Rows /\ GenOf(id) \in Nat /\ GenOf(id) \in Generations
           /\ \A a \in Rows : Id(a) \in JobIds /\ RowOf(Id(a)) = a /\ GenOf(Id(a)) = attempts[a]
           /\ \A id \in JobIds, a \in Rows : RowOf(id) = a /\ GenOf(id) = attempts[a] => id = Id(a)
           /\ \A a, b \in Rows : Id(a) = Id(b) => a = b
<1>1. \A id \in JobIds : id[1] \in Rows /\ id[2] \in Generations /\ id = <<id[1], id[2]>>
  BY DEF JobIds
<1>2. \A g \in Generations : g \in Nat
  BY BoundsAssumption DEF Generations
<1>3. \A a \in Rows : attempts[a] \in Generations
  BY DEF TypeOK
<1>4. \A a \in Rows : <<a, attempts[a]>> \in JobIds
  BY <1>3 DEF JobIds
<1>5. \A a \in Rows : <<a, attempts[a]>>[1] = a /\ <<a, attempts[a]>>[2] = attempts[a]
  OBVIOUS
<1> QED BY <1>1, <1>2, <1>4, <1>5 DEF RowOf, GenOf, Id

\* A publisher moves on with the row it read.
LEMMA GotoIs ==
    ASSUME TypeOK, NEW p \in Publishers, ~At(p, "idle"), NEW step \in PubSteps \ {"idle"},
           Goto(p, step)
    PROVE  /\ pub' \in [Publishers -> PubType]
           /\ \A q \in Publishers : ~At(q, "idle")' => pub'[q].id \in JobIds
           /\ pub'[p].at = step /\ pub'[p].id = pub[p].id /\ pub'[p].due = pub[p].due
           /\ pub[p].id \in JobIds /\ pub[p].due \in Times
           /\ \A q \in Publishers : q # p => pub'[q] = pub[q]
<1>1. pub[p] \in PubType /\ pub[p].id \in JobIds /\ pub[p].due \in Times
  BY DEF TypeOK, PubType
<1>2. \A r \in PubType : /\ [r EXCEPT !.at = step] \in PubType
                         /\ [r EXCEPT !.at = step].at = step
                         /\ [r EXCEPT !.at = step].id = r.id
                         /\ [r EXCEPT !.at = step].due = r.due
  BY DEF PubType
<1>3. pub' = [pub EXCEPT ![p] = [pub[p] EXCEPT !.at = step]] /\ pub \in [Publishers -> PubType]
  BY DEF Goto, TypeOK
<1> QED BY <1>1, <1>2, <1>3 DEF TypeOK, At

\* A publisher is done.
LEMMA IdlePublisher ==
    ASSUME TypeOK, NEW p \in Publishers, pub' = [pub EXCEPT ![p] = IdleP]
    PROVE  /\ pub' \in [Publishers -> PubType]
           /\ \A q \in Publishers : ~At(q, "idle")' => pub'[q].id \in JobIds
           /\ pub'[p] = IdleP /\ pub'[p].at = "idle"
           /\ \A q \in Publishers : q # p => pub'[q] = pub[q]
<1>1. IdleP \in PubType /\ IdleP.at = "idle"
  BY BoundsAssumption DEF PubType, PubSteps, IdleP, Times
<1> QED BY <1>1 DEF TypeOK, At

\* A worker is done.
LEMMA IdleWorker ==
    ASSUME TypeOK, NEW w \in Workers, work' = [work EXCEPT ![w] = IdleW]
    PROVE  /\ work' \in [Workers -> WorkType]
           /\ \A v \in Workers : ~Holds(v, "idle")' => work'[v].id \in JobIds
           /\ work'[w] = IdleW /\ work'[w].at = "idle"
           /\ \A v \in Workers : v # w => work'[v] = work[v]
<1>1. IdleW \in WorkType /\ IdleW.at = "idle"
  BY DEF WorkType, WorkSteps, IdleW
<1> QED BY <1>1 DEF TypeOK, Holds

\* A worker goes on with the job it holds.
LEMMA WorkerMoves ==
    ASSUME TypeOK, NEW w \in Workers, ~Holds(w, "idle"), NEW step \in WorkSteps \ {"idle"},
           work' = [work EXCEPT ![w].at = step]
    PROVE  /\ work' \in [Workers -> WorkType]
           /\ \A v \in Workers : ~Holds(v, "idle")' => work'[v].id \in JobIds
           /\ work'[w].at = step /\ work'[w].id = work[w].id /\ work[w].id \in JobIds
           /\ \A v \in Workers : v # w => work'[v] = work[v]
<1>1. work[w] \in WorkType /\ work[w].id \in JobIds
  BY DEF TypeOK
<1>2. \A r \in WorkType : /\ [r EXCEPT !.at = step] \in WorkType
                          /\ [r EXCEPT !.at = step].at = step
                          /\ [r EXCEPT !.at = step].id = r.id
  BY DEF WorkType
<1>3. work' = [work EXCEPT ![w] = [work[w] EXCEPT !.at = step]] /\ work \in [Workers -> WorkType]
  BY DEF TypeOK
<1> QED BY <1>1, <1>2, <1>3 DEF TypeOK, Holds

\* Rounding up loses no time, and gives a score RQ can hold.
LEMMA Rounding ==
    ASSUME NEW t \in Times
    PROVE  /\ RoundedUp(t) \in Nat /\ RoundedUp(t) >= t
           /\ RoundedUp(t) \div 2 \in Nat /\ t <= 2 * (RoundedUp(t) \div 2)
           /\ RoundedUp(t) \div 2 # Unscheduled
<1>1. t \in Nat /\ t <= MaxTime /\ MaxTime \in Nat
  BY BoundsAssumption DEF Times
<1>2. t % 2 \in {0, 1}
  BY <1>1
<1>3. RoundedUp(t) \in Nat /\ RoundedUp(t) >= t /\ RoundedUp(t) <= t + 1 /\ RoundedUp(t) % 2 = 0
  BY <1>1 DEF RoundedUp
<1> DEFINE r == RoundedUp(t)
<1> HIDE DEF r
<1>4. r \in Nat /\ r % 2 = 0 => r = 2 * (r \div 2) /\ r \div 2 \in Nat
  OBVIOUS
<1>5. r = 2 * (r \div 2) /\ r \div 2 \in Nat /\ r \in Nat /\ r >= t /\ r <= t + 1
  BY <1>3, <1>4 DEF r
<1> DEFINE h == r \div 2
<1>6. h \in Nat /\ r = 2 * h
  BY <1>5
<1> HIDE DEF h
<1>7. h # MaxTime + 1 /\ t <= 2 * h
  BY <1>1, <1>5, <1>6
<1> QED BY <1>5, <1>7 DEF r, h, Unscheduled

-----------------------------------------------------------------------------
(* Steps that leave the rows' life alone.                                  *)

\* No job comes alive but one of a scheduled row's generation; none becomes
\* deliverable before its row's time; a stamp is only set on a scheduled row.
LEMMA JobsMove ==
    ASSUME IInv, TypeOK', UNCHANGED <<status, attempts, due>>, now' >= now,
           \A id \in JobIds : Live(id)' =>
              Live(id) \/ \E a \in Rows : status[a] = "SCHEDULED" /\ id = Id(a),
           \A a \in Rows : status[a] = "SCHEDULED" /\ Delivered(Id(a))' =>
              Delivered(Id(a)) \/ due[a] <= now,
           \A a \in Rows : stamp'[a] = stamp[a] \/ status[a] = "SCHEDULED"
    PROVE  NoneAhead' /\ NeverEarly' /\ RowsOK'
<1>1. TypeOK /\ \A a \in Rows : Id(a)' = Id(a) /\ Limit(a)' = Limit(a) /\ attempts[a] \in Nat
  BY BoundsAssumption DEF IInv, TypeOK, Id, Limit, Generations
<1>2. NoneAhead'
  <2> SUFFICES ASSUME NEW id \in JobIds, Live(id)', status'[RowOf(id)] # "OVER"
               PROVE  GenOf(id) < Limit(RowOf(id))'
    BY DEF NoneAhead
  <2>1. RowOf(id) \in Rows /\ GenOf(id) \in Nat
    BY <1>1, IdsAre
  <2>2. CASE Live(id)
    BY <1>1, <2>1, <2>2 DEF IInv, NoneAhead
  <2>3. ASSUME NEW a \in Rows, status[a] = "SCHEDULED", id = Id(a)
        PROVE  GenOf(id) < Limit(RowOf(id))'
    <3>1. RowOf(id) = a /\ GenOf(id) = attempts[a]
      BY <1>1, <2>3, IdsAre
    <3>2. Limit(a) = attempts[a] + 1
      BY <2>3 DEF Limit
    <3> QED BY <1>1, <3>1, <3>2
  <2> QED BY <2>2, <2>3
<1>3. NeverEarly'
  <2> SUFFICES ASSUME NEW a \in Rows, status[a] = "SCHEDULED", Delivered(Id(a))'
               PROVE  due[a] <= now'
    BY <1>1 DEF NeverEarly
  <2>1. due[a] <= now
    BY DEF IInv, NeverEarly
  <2>2. due[a] \in Nat /\ now \in Nat /\ now' \in Nat
    BY <1>1, BoundsAssumption DEF TypeOK, Times
  <2> QED BY <2>1, <2>2
<1>4. RowsOK'
  BY DEF IInv, RowsOK
<1> QED BY <1>2, <1>3, <1>4

\* A publisher that was inside stays with the row it read, or is done.
Inside(p) == /\ ~At(p, "idle")
             /\ pub'[p].id = pub[p].id /\ pub'[p].due = pub[p].due

\* The row a publisher has read stays due when it says, as long as it publishes.
LEMMA DueStays ==
    ASSUME IInv, UNCHANGED <<status, attempts, due>>,
           \A p \in Publishers : ~At(p, "idle")' => Inside(p),
           \A id \in JobIds : score'[id] \in {score[id], Unscheduled}
    PROVE  SameDue'
<1>1. \A a \in Rows : Id(a)' = Id(a) /\ Id(a) \in JobIds
  BY IdsAre DEF Id, IInv
<1>2. SUFFICES ASSUME NEW a \in Rows, status[a] = "SCHEDULED"
               PROVE  /\ \A p \in Publishers : ~At(p, "idle")' /\ pub'[p].id = Id(a) => pub'[p].due = due[a]
                      /\ score'[Id(a)] # Unscheduled => due[a] <= 2 * score'[Id(a)]
  BY <1>1 DEF SameDue
<1>3. ASSUME NEW p \in Publishers, ~At(p, "idle")', pub'[p].id = Id(a)
      PROVE  pub'[p].due = due[a]
  BY <1>2, <1>3 DEF Inside, IInv, SameDue
<1>4. score'[Id(a)] # Unscheduled => due[a] <= 2 * score'[Id(a)]
  BY <1>1, <1>2 DEF IInv, SameDue
<1> QED BY <1>3, <1>4

\* A publisher inside enqueue_action: what it may do to its own job.
LEMMA PublisherKeeps ==
    ASSUME IInv, NEW p \in Publishers, ~At(p, "idle"),
           UNCHANGED <<now, status, attempts, due, intermediate, work>>,
           pub' \in [Publishers -> PubType],
           \A q \in Publishers : ~At(q, "idle")' => pub'[q].id \in JobIds,
           \A q \in Publishers : q # p => pub'[q] = pub[q],
           ~At(p, "idle")' => pub'[p].id = pub[p].id /\ pub'[p].due = pub[p].due,
           stamp' \in [Rows -> Generations \cup {Unset}],
           \A a \in Rows : stamp'[a] = stamp[a] \/ status[a] = "SCHEDULED",
           record' \subseteq JobIds, started' \subseteq started,
           queued' \in [JobIds -> 0..MaxCopies], score' \in [JobIds -> Nat],
           \A id \in JobIds :
              /\ queued'[id] > 0 => queued[id] > 0 \/ (id = pub[p].id /\ RoundedUp(pub[p].due) <= now)
              /\ \/ score'[id] \in {score[id], Unscheduled}
                 \/ id = pub[p].id /\ score'[id] = RoundedUp(pub[p].due) \div 2,
           faults' \in 0..MaxFaults, faults' = 0 => faults = 0 /\ Entered' /\ StampedIsPresent'
    PROVE  IInv'
<1>1. /\ TypeOK /\ now \in Nat /\ pub[p].id \in JobIds /\ pub[p].due \in Times
      /\ \A a \in Rows : Id(a)' = Id(a) /\ Id(a) \in JobIds
  BY IdsAre, BoundsAssumption DEF IInv, TypeOK, Times, PubType, Id
<1>2. TypeOK'
  BY <1>1 DEF TypeOK, Holds
<1>3. \A id \in JobIds : Live(id)' => Live(id)
  <2> SUFFICES ASSUME NEW id \in JobIds, Live(id)' PROVE Live(id)
    OBVIOUS
  <2>1. CASE id = pub[p].id
    BY <2>1 DEF Live
  <2>2. CASE id # pub[p].id
    <3>1. CASE queued'[id] > 0 \/ score'[id] # Unscheduled
      BY <2>2, <3>1 DEF Live
    <3>2. ASSUME NEW q \in Publishers, ~At(q, "idle")', pub'[q].id = id PROVE Live(id)
      BY <2>2, <3>2 DEF Live, At
    <3>3. ASSUME NEW w \in Workers, ~Holds(w, "idle")', work'[w].id = id PROVE Live(id)
      BY <3>3 DEF Live, Holds
    <3> QED BY <3>1, <3>2, <3>3 DEF Live
  <2> QED BY <2>1, <2>2
<1>4. ASSUME NEW a \in Rows, status[a] = "SCHEDULED", Delivered(Id(a))'
      PROVE  Delivered(Id(a)) \/ due[a] <= now
  <2>1. CASE queued'[Id(a)] > 0
    <3>1. CASE Id(a) = pub[p].id /\ RoundedUp(pub[p].due) <= now
      <4>1. due[a] = pub[p].due
        BY <1>4, <3>1 DEF IInv, SameDue
      <4>2. due[a] \in Nat /\ RoundedUp(due[a]) \in Nat /\ due[a] <= RoundedUp(due[a])
        BY <1>1, <4>1, Rounding, BoundsAssumption DEF Times
      <4> QED BY <1>1, <3>1, <4>1, <4>2
    <3> QED BY <1>1, <2>1, <3>1 DEF Delivered
  <2>2. CASE ~(queued'[Id(a)] > 0)
    BY <1>1, <1>4, <2>2 DEF Delivered
  <2> QED BY <2>1, <2>2
<1>5. NoneAhead' /\ NeverEarly' /\ RowsOK'
  BY <1>1, <1>2, <1>3, <1>4, JobsMove
<1>6. SameDue'
  <2>1. SUFFICES ASSUME NEW a \in Rows, status[a] = "SCHEDULED"
                 PROVE  /\ \A q \in Publishers : ~At(q, "idle")' /\ pub'[q].id = Id(a) => pub'[q].due = due[a]
                        /\ score'[Id(a)] # Unscheduled => due[a] <= 2 * score'[Id(a)]
    BY <1>1 DEF SameDue
  <2>2. ASSUME NEW q \in Publishers, ~At(q, "idle")', pub'[q].id = Id(a)
        PROVE  pub'[q].due = due[a]
    BY <2>1, <2>2 DEF IInv, SameDue, At
  <2>3. ASSUME score'[Id(a)] # Unscheduled
        PROVE  due[a] <= 2 * score'[Id(a)]
    <3>1. CASE score'[Id(a)] = score[Id(a)]
      BY <2>1, <2>3, <3>1 DEF IInv, SameDue
    <3>2. CASE Id(a) = pub[p].id /\ score'[Id(a)] = RoundedUp(pub[p].due) \div 2
      <4>1. due[a] = pub[p].due
        BY <2>1, <3>2 DEF IInv, SameDue
      <4> QED BY <1>1, <3>2, <4>1, Rounding
    <3> QED BY <1>1, <2>3, <3>1, <3>2
  <2> QED BY <2>2, <2>3
<1>7. OneExecutes'
  BY DEF IInv, OneExecutes, Holds
<1>8. faults' = 0 => Attended'
  BY DEF IInv, Attended, Holds
<1> QED BY <1>2, <1>5, <1>6, <1>7, <1>8 DEF IInv

-----------------------------------------------------------------------------
(* enqueue_action.                                                         *)

\* A publisher reads a scheduled row: its generation and its time are the row's.
LEMMA ReadRowKeeps ==
    ASSUME IInv, NEW p \in Publishers, NEW a \in Rows, ReadRow(p, a)
    PROVE  IInv'
<1> DEFINE new == [at |-> "fetch", id |-> Id(a), due |-> due[a]]
<1>1. /\ At(p, "idle") /\ status[a] = "SCHEDULED" /\ pub' = [pub EXCEPT ![p] = new]
      /\ UNCHANGED <<now, status, attempts, due, stamp, record, queued, score, intermediate,
                     started, work, faults>>
  BY DEF ReadRow, rowVars, redisVars
<1>2. TypeOK /\ Id(a) \in JobIds /\ now \in Nat
  BY IdsAre, BoundsAssumption DEF IInv, TypeOK, Times
<1>3. new \in PubType /\ new.at = "fetch" /\ new.id = Id(a) /\ new.due = due[a]
  BY <1>2 DEF PubType, PubSteps, TypeOK
<1> HIDE DEF new
<1>4. /\ pub' \in [Publishers -> PubType] /\ pub'[p] = new
      /\ \A q \in Publishers : q # p => pub'[q] = pub[q]
  BY <1>1, <1>2, <1>3 DEF TypeOK
<1>5. TypeOK'
  <2>1. \A q \in Publishers : ~At(q, "idle")' => pub'[q].id \in JobIds
    BY <1>2, <1>3, <1>4 DEF TypeOK, At
  <2> QED BY <1>1, <1>2, <1>4, <2>1 DEF TypeOK, Holds
<1>6. \A b \in Rows : Id(b)' = Id(b)
  BY <1>1 DEF Id
<1>7. \A id \in JobIds : Live(id)' => Live(id) \/ id = Id(a)
  <2> SUFFICES ASSUME NEW id \in JobIds, Live(id)', id # Id(a) PROVE Live(id)
    OBVIOUS
  <2>1. ASSUME NEW q \in Publishers, ~At(q, "idle")', pub'[q].id = id PROVE Live(id)
    BY <1>3, <1>4, <2>1 DEF Live, At
  <2> QED BY <1>1, <2>1 DEF Live, Holds
<1>8. \A id \in JobIds : Delivered(id)' <=> Delivered(id)
  BY <1>1 DEF Delivered
<1>9. NoneAhead' /\ NeverEarly' /\ RowsOK'
  <2>1. \A id \in JobIds : Live(id)' => Live(id) \/ \E b \in Rows : status[b] = "SCHEDULED" /\ id = Id(b)
    BY <1>1, <1>7
  <2>2. \A b \in Rows : Delivered(Id(b))' => Delivered(Id(b))
    BY <1>1, <1>2, <1>6, <1>8, IdsAre
  <2> QED BY <1>1, <1>2, <1>5, <2>1, <2>2, JobsMove
<1>10. SameDue'
  <2> SUFFICES ASSUME NEW b \in Rows, status[b] = "SCHEDULED"
               PROVE  /\ \A q \in Publishers : ~At(q, "idle")' /\ pub'[q].id = Id(b) => pub'[q].due = due[b]
                      /\ score[Id(b)] # Unscheduled => due[b] <= 2 * score[Id(b)]
    BY <1>1, <1>6 DEF SameDue
  <2>1. \A q \in Publishers : q # p => (At(q, "idle")' <=> At(q, "idle"))
    BY <1>4 DEF At
  <2>2. Id(a) = Id(b) => a = b
    BY <1>2, IdsAre
  <2> QED BY <1>3, <1>4, <2>1, <2>2 DEF IInv, SameDue
<1>11. OneExecutes'
  BY <1>1 DEF IInv, OneExecutes, Holds
<1>12. ASSUME faults' = 0 PROVE Entered' /\ Attended' /\ StampedIsPresent'
  <2>1. Entered /\ Attended /\ StampedIsPresent
    BY <1>1, <1>12 DEF IInv
  <2>2. \A q \in Publishers, step \in PubSteps \ {"fetch"} : At(q, step) /\ ~At(q, "idle") => At(q, step)' /\ q # p
    BY <1>1, <1>4 DEF At
  <2>3. \A q \in Publishers : At(q, "stamp")' => At(q, "stamp") /\ q # p
    BY <1>3, <1>4 DEF At
  <2>4. \A q \in Publishers : At(q, "enqueue") => At(q, "enqueue")' /\ pub'[q] = pub[q]
    BY <1>1, <1>4 DEF At
  <2>5. Entered'
    BY <1>1, <2>1, <2>4 DEF Entered
  <2>6. Attended'
    BY <1>1, <2>1 DEF Attended, Holds
  <2>7. \A id \in JobIds : Present(id) => Present(id)'
    BY <1>1, <2>4 DEF Present, Holds
  <2>8. \A b \in Rows : Stamped(b)' => Stamped(b)
    BY <1>1, <1>4, <1>6, <2>3 DEF Stamped
  <2>9. StampedIsPresent'
    BY <1>1, <1>2, <1>6, <2>1, <2>7, <2>8, IdsAre DEF StampedIsPresent
  <2> QED BY <2>5, <2>6, <2>9
<1> QED BY <1>5, <1>9, <1>10, <1>11, <1>12 DEF IInv

\* What is somewhere without faults stays there for the rows whose stamp
\* this step leaves alone.
LEMMA StampedStays ==
    ASSUME IInv, faults = 0, UNCHANGED <<status, attempts, stamp>>,
           \A a \in Rows : status[a] = "SCHEDULED" /\ Present(Id(a)) => Present(Id(a))',
           \A q \in Publishers : At(q, "stamp")' => Present(pub'[q].id) \/ (At(q, "stamp") /\ pub'[q].id = pub[q].id)
    PROVE  StampedIsPresent'
<1> SUFFICES ASSUME NEW a \in Rows, status[a] = "SCHEDULED", Stamped(a)'
             PROVE  Present(Id(a))'
  BY DEF StampedIsPresent
<1>1. Id(a)' = Id(a)
  BY DEF Id
<1>2. Stamped(a) \/ Present(Id(a))
  BY <1>1 DEF Stamped
<1>3. Present(Id(a))
  BY <1>2 DEF IInv, StampedIsPresent
<1> QED BY <1>3

\* A look at Redis that leads on: to stamp only what was seen somewhere.
LEMMA LookKeeps ==
    ASSUME IInv, NEW p \in Publishers, ~At(p, "idle"), ~At(p, "enqueue"),
           NEW step \in PubSteps \ {"idle"}, Goto(p, step), step = "stamp" => Present(pub[p].id),
           UNCHANGED <<now, status, attempts, due, stamp, record, queued, score, intermediate,
                       started, work, faults>>
    PROVE  IInv'
<1>1. TypeOK
  BY DEF IInv
<1>2. /\ pub' \in [Publishers -> PubType]
      /\ \A q \in Publishers : ~At(q, "idle")' => pub'[q].id \in JobIds
      /\ pub'[p].at = step /\ pub'[p].id = pub[p].id /\ pub'[p].due = pub[p].due
      /\ \A q \in Publishers : q # p => pub'[q] = pub[q]
  BY <1>1, GotoIs
<1>3. ASSUME faults = 0 PROVE Entered' /\ StampedIsPresent'
  <2>1. Entered /\ \A q \in Publishers : At(q, "enqueue") => At(q, "enqueue")' /\ pub'[q].id = pub[q].id
    BY <1>2, <1>3 DEF IInv, At
  <2>2. Entered'
    BY <2>1 DEF Entered
  <2>3. \A id \in JobIds : Present(id) => Present(id)'
    BY <2>1 DEF Present, Holds
  <2>4. \A q \in Publishers : At(q, "stamp")' =>
            Present(pub'[q].id) \/ (At(q, "stamp") /\ pub'[q].id = pub[q].id)
    BY <1>2 DEF At
  <2>5. \A a \in Rows : Present(Id(a)) => Present(Id(a))'
    <3>1. \A a \in Rows : Id(a) \in JobIds /\ Id(a)' = Id(a)
      BY <1>1, IdsAre DEF Id
    <3> QED BY <2>3, <3>1
  <2> QED BY <1>3, <2>2, <2>4, <2>5, StampedStays
<1>4. /\ stamp \in [Rows -> Generations \cup {Unset}] /\ queued \in [JobIds -> 0..MaxCopies]
      /\ score \in [JobIds -> Nat] /\ record \subseteq JobIds /\ faults \in 0..MaxFaults
  BY <1>1 DEF TypeOK
<1> QED BY <1>2, <1>3, <1>4, PublisherKeeps

\* The look at the job's hash.
LEMMA FetchJobKeeps ==
    ASSUME IInv, NEW p \in Publishers, FetchJob(p)
    PROVE  IInv'
<1> DEFINE step == IF pub[p].id \in record THEN "list" ELSE "enqueue"
<1>1. /\ At(p, "fetch") /\ ~At(p, "idle") /\ ~At(p, "enqueue") /\ Goto(p, step)
      /\ step \in PubSteps \ {"idle", "stamp"}
      /\ UNCHANGED <<now, status, attempts, due, stamp, record, queued, score, intermediate,
                     started, work, faults>>
  BY DEF FetchJob, rowVars, redisVars, At, PubSteps
<1> HIDE DEF step
<1> QED BY <1>1, LookKeeps

\* The four questions: where a job is found, it is present.
LEMMA LooksKeep ==
    ASSUME IInv, NEW p \in Publishers,
           LookInList(p) \/ LookInIntermediate(p) \/ LookInScheduled(p) \/ LookInStarted(p)
    PROVE  IInv'
<1>1. PICK place \in {"list", "intermediate", "scheduled", "started"}, step \in PubSteps \ {"idle"} :
         /\ At(p, place) /\ Goto(p, step) /\ UNCHANGED <<now, rowVars, redisVars, work, faults>>
         /\ step = "stamp" => Present(pub[p].id)
  <2>1. CASE LookInList(p)
    <3> DEFINE to == IF queued[pub[p].id] > 0 THEN "stamp" ELSE "intermediate"
    <3>1. to \in PubSteps \ {"idle"} /\ (to = "stamp" => Present(pub[p].id))
      BY DEF Present, PubSteps
    <3>2. At(p, "list") /\ Goto(p, to) /\ UNCHANGED <<now, rowVars, redisVars, work, faults>>
      BY <2>1 DEF LookInList, Look
    <3> HIDE DEF to
    <3> QED BY <3>1, <3>2
  <2>2. CASE LookInIntermediate(p)
    <3> DEFINE to == IF pub[p].id \in intermediate THEN "stamp" ELSE "scheduled"
    <3>1. to \in PubSteps \ {"idle"} /\ (to = "stamp" => Present(pub[p].id))
      BY DEF Present, PubSteps
    <3>2. At(p, "intermediate") /\ Goto(p, to) /\ UNCHANGED <<now, rowVars, redisVars, work, faults>>
      BY <2>2 DEF LookInIntermediate, Look
    <3> HIDE DEF to
    <3> QED BY <3>1, <3>2
  <2>3. CASE LookInScheduled(p)
    <3> DEFINE to == IF score[pub[p].id] # Unscheduled THEN "stamp" ELSE "started"
    <3>1. to \in PubSteps \ {"idle"} /\ (to = "stamp" => Present(pub[p].id))
      BY DEF Present, PubSteps
    <3>2. At(p, "scheduled") /\ Goto(p, to) /\ UNCHANGED <<now, rowVars, redisVars, work, faults>>
      BY <2>3 DEF LookInScheduled, Look
    <3> HIDE DEF to
    <3> QED BY <3>1, <3>2
  <2>4. CASE LookInStarted(p)
    <3> DEFINE to == IF pub[p].id \in started THEN "stamp" ELSE "delete"
    <3>1. to \in PubSteps \ {"idle"} /\ (to = "stamp" => Present(pub[p].id))
      BY DEF Present, PubSteps
    <3>2. At(p, "started") /\ Goto(p, to) /\ UNCHANGED <<now, rowVars, redisVars, work, faults>>
      BY <2>4 DEF LookInStarted, Look, IsStarted
    <3> HIDE DEF to
    <3> QED BY <3>1, <3>2
  <2> QED BY <2>1, <2>2, <2>3, <2>4
<1>2. ~At(p, "idle") /\ ~At(p, "enqueue")
  BY <1>1 DEF At
<1> QED BY <1>1, <1>2, LookKeeps DEF rowVars, redisVars

\* A stale record is deleted; its publisher is the one who puts the job back.
LEMMA DeleteJobKeeps ==
    ASSUME IInv, NEW p \in Publishers, DeleteJob(p)
    PROVE  IInv'
<1> DEFINE id == pub[p].id
<1>1. /\ At(p, "delete") /\ ~At(p, "idle") /\ Goto(p, "enqueue") /\ "enqueue" \in PubSteps \ {"idle"}
      /\ record' = record \ {id}
      /\ queued' = [queued EXCEPT ![id] = IF @ > 0 THEN @ - 1 ELSE 0]
      /\ score' = [score EXCEPT ![id] = Unscheduled] /\ started' = started \ {id}
      /\ UNCHANGED <<now, status, attempts, due, stamp, intermediate, work, faults>>
  BY DEF DeleteJob, rowVars, At, PubSteps
<1>2. TypeOK /\ id \in JobIds
  BY <1>1 DEF IInv, TypeOK
<1>3. /\ pub' \in [Publishers -> PubType]
      /\ \A q \in Publishers : ~At(q, "idle")' => pub'[q].id \in JobIds
      /\ pub'[p].at = "enqueue" /\ pub'[p].id = id /\ pub'[p].due = pub[p].due
      /\ \A q \in Publishers : q # p => pub'[q] = pub[q]
  BY <1>1, <1>2, GotoIs
<1> HIDE DEF id
<1>4. /\ queued' \in [JobIds -> 0..MaxCopies] /\ queued'[id] <= queued[id]
      /\ \A j \in JobIds : j # id => queued'[j] = queued[j]
  <2>1. queued \in [JobIds -> 0..MaxCopies] /\ queued[id] \in 0..MaxCopies /\ MaxCopies \in Nat
    BY <1>2, BoundsAssumption DEF TypeOK
  <2>2. (IF queued[id] > 0 THEN queued[id] - 1 ELSE 0) \in 0..MaxCopies
    BY <2>1
  <2>3. (IF queued[id] > 0 THEN queued[id] - 1 ELSE 0) <= queued[id]
    BY <2>1
  <2> QED BY <1>1, <1>2, <2>1, <2>2, <2>3
<1>5. /\ score' \in [JobIds -> Nat] /\ score'[id] = Unscheduled
      /\ \A j \in JobIds : j # id => score'[j] = score[j]
  BY <1>1, <1>2, BoundsAssumption DEF TypeOK, Unscheduled
<1>6. ASSUME faults = 0 PROVE Entered' /\ StampedIsPresent'
  <2>1. Entered /\ \A q \in Publishers : At(q, "enqueue") => At(q, "enqueue")' /\ pub'[q].id = pub[q].id
    BY <1>1, <1>3, <1>6 DEF IInv, At
  <2>2. At(p, "enqueue")'
    BY <1>3 DEF At
  <2>3. Entered'
    BY <1>1, <1>3, <1>4, <1>5, <2>1, <2>2 DEF Entered
  <2>4. \A j \in JobIds : Present(j) => Present(j)'
    <3> SUFFICES ASSUME NEW j \in JobIds, Present(j), j # id PROVE Present(j)'
      BY <1>3, <2>2 DEF Present, Holds
    <3> QED BY <1>1, <1>4, <1>5, <2>1 DEF Present, Holds
  <2>5. \A q \in Publishers : At(q, "stamp")' => At(q, "stamp") /\ pub'[q].id = pub[q].id
    BY <1>3 DEF At
  <2>6. \A a \in Rows : Present(Id(a)) => Present(Id(a))'
    <3>1. \A a \in Rows : Id(a) \in JobIds /\ Id(a)' = Id(a)
      BY <1>1, <1>2, IdsAre DEF Id
    <3> QED BY <2>4, <3>1
  <2> QED BY <1>1, <1>6, <2>3, <2>5, <2>6, StampedStays
<1>7. \A j \in JobIds : /\ queued'[j] > 0 => queued[j] > 0
                        /\ score'[j] \in {score[j], Unscheduled}
  <2>1. queued[id] \in Nat /\ queued'[id] \in Nat
    BY <1>2, <1>4, BoundsAssumption DEF TypeOK
  <2> QED BY <1>4, <1>5, <2>1
<1>8. /\ stamp \in [Rows -> Generations \cup {Unset}] /\ record' \subseteq JobIds /\ faults \in 0..MaxFaults
      /\ started' \subseteq started
  BY <1>1, <1>2 DEF TypeOK
<1> QED BY <1>1, <1>3, <1>4, <1>5, <1>6, <1>7, <1>8, PublisherKeeps DEF id

\* The job is entered with the row's time, rounded up.
LEMMA EnqueueJobKeeps ==
    ASSUME IInv, NEW p \in Publishers, EnqueueJob(p)
    PROVE  IInv'
<1> DEFINE id == pub[p].id
           at == RoundedUp(pub[p].due)
<1>1. /\ At(p, "enqueue") /\ ~At(p, "idle") /\ Goto(p, "stamp") /\ "stamp" \in PubSteps \ {"idle"}
      /\ record' = record \cup {id}
      /\ \/ at > now /\ score' = [score EXCEPT ![id] = at \div 2] /\ queued' = queued
         \/ /\ ~(at > now) /\ queued[id] < MaxCopies
            /\ queued' = [queued EXCEPT ![id] = @ + 1] /\ score' = score
      /\ UNCHANGED <<now, status, attempts, due, stamp, intermediate, started, work, faults>>
  BY DEF EnqueueJob, rowVars, At, PubSteps
<1>2. TypeOK /\ id \in JobIds /\ pub[p].due \in Times
  BY <1>1 DEF IInv, TypeOK, PubType
<1>3. /\ at \in Nat /\ now \in Nat /\ at \div 2 \in Nat /\ at \div 2 # Unscheduled
      /\ MaxCopies \in Nat
  BY <1>2, Rounding, BoundsAssumption DEF TypeOK, Times
<1>4. /\ pub' \in [Publishers -> PubType]
      /\ \A q \in Publishers : ~At(q, "idle")' => pub'[q].id \in JobIds
      /\ pub'[p].at = "stamp" /\ pub'[p].id = id /\ pub'[p].due = pub[p].due
      /\ \A q \in Publishers : q # p => pub'[q] = pub[q]
  BY <1>1, <1>2, GotoIs
<1> DEFINE half == at \div 2
<1>5. /\ queued' \in [JobIds -> 0..MaxCopies] /\ score' \in [JobIds -> Nat]
      /\ \A j \in JobIds : j # id => queued'[j] = queued[j] /\ score'[j] = score[j]
      /\ score'[id] # Unscheduled \/ queued'[id] > 0
      /\ score'[id] = score[id] \/ score'[id] = half
      /\ queued'[id] = queued[id] \/ at <= now
  <2>1. half \in Nat /\ half # Unscheduled
    BY <1>3
  <2> HIDE DEF id, at, half
  <2>2. queued \in [JobIds -> 0..MaxCopies] /\ score \in [JobIds -> Nat]
    BY <1>2 DEF TypeOK
  <2>3. CASE at > now /\ score' = [score EXCEPT ![id] = half] /\ queued' = queued
    BY <1>2, <2>1, <2>2, <2>3
  <2>4. CASE /\ ~(at > now) /\ queued[id] < MaxCopies
             /\ queued' = [queued EXCEPT ![id] = @ + 1] /\ score' = score
    <3>1. queued[id] + 1 \in 0..MaxCopies /\ queued[id] + 1 > 0 /\ at <= now
      BY <1>2, <1>3, <2>2, <2>4
    <3> QED BY <1>2, <2>2, <2>4, <3>1
  <2> QED BY <1>1, <2>3, <2>4 DEF half
<1> HIDE DEF id, at, half
<1>6. ASSUME faults = 0 PROVE Entered' /\ StampedIsPresent'
  <2>1. Entered /\ \A q \in Publishers : q # p /\ At(q, "enqueue") => At(q, "enqueue")' /\ pub'[q].id = pub[q].id
    BY <1>1, <1>4, <1>6 DEF IInv, At
  <2>2. pub[p].id = id
    BY DEF id
  <2>3. Entered'
    <3> SUFFICES ASSUME NEW j \in JobIds, queued'[j] > 0 \/ score'[j] # Unscheduled, j \notin record'
                 PROVE  \E q \in Publishers : At(q, "enqueue")' /\ pub'[q].id = j
      BY DEF Entered
    <3>1. j # id /\ j \notin record /\ (queued[j] > 0 \/ score[j] # Unscheduled)
      BY <1>1, <1>5
    <3>2. PICK q \in Publishers : At(q, "enqueue") /\ pub[q].id = j
      BY <2>1, <3>1 DEF Entered
    <3> QED BY <2>1, <2>2, <3>1, <3>2
  <2>4. \A j \in JobIds : Present(j) => Present(j)'
    <3> SUFFICES ASSUME NEW j \in JobIds, Present(j), j # id PROVE Present(j)'
      BY <1>5 DEF Present, Holds
    <3> QED BY <1>1, <1>5, <2>1, <2>2 DEF Present, Holds
  <2>5. Present(id)
    BY <1>1, <2>2 DEF Present, Holds
  <2>6. \A q \in Publishers : At(q, "stamp")' =>
            Present(pub'[q].id) \/ (At(q, "stamp") /\ pub'[q].id = pub[q].id)
    BY <1>4, <2>5 DEF At
  <2>7. \A a \in Rows : Present(Id(a)) => Present(Id(a))'
    <3>1. \A a \in Rows : Id(a) \in JobIds /\ Id(a)' = Id(a)
      BY <1>1, <1>2, IdsAre DEF Id
    <3> QED BY <2>4, <3>1
  <2> QED BY <1>1, <1>6, <2>3, <2>6, <2>7, StampedStays
<1>7. \A j \in JobIds : /\ queued'[j] > 0 => queued[j] > 0 \/ (j = pub[p].id /\ RoundedUp(pub[p].due) <= now)
                        /\ \/ score'[j] \in {score[j], Unscheduled}
                           \/ j = pub[p].id /\ score'[j] = RoundedUp(pub[p].due) \div 2
  BY <1>5 DEF id, at, half
<1>8. /\ stamp \in [Rows -> Generations \cup {Unset}] /\ record' \subseteq JobIds /\ faults \in 0..MaxFaults
      /\ started' \subseteq started
  BY <1>1, <1>2 DEF TypeOK
<1> QED BY <1>1, <1>4, <1>5, <1>6, <1>7, <1>8, PublisherKeeps DEF id

\* A scheduled row is stamped with the generation that was found or entered.
LEMMA StampKeeps ==
    ASSUME IInv, NEW p \in Publishers, Stamp(p)
    PROVE  IInv'
<1> DEFINE a == RowOf(pub[p].id)
           g == GenOf(pub[p].id)
<1>1. /\ At(p, "stamp") /\ ~At(p, "idle") /\ pub' = [pub EXCEPT ![p] = IdleP]
      /\ stamp' = IF status[a] = "SCHEDULED" THEN [stamp EXCEPT ![a] = g] ELSE stamp
      /\ UNCHANGED <<now, status, attempts, due, record, queued, score, intermediate, started,
                     work, faults>>
  BY DEF Stamp, Published, redisVars, At
<1>2. TypeOK /\ pub[p].id \in JobIds
  BY <1>1 DEF IInv, TypeOK
<1>3. a \in Rows /\ g \in Generations
  BY <1>2, IdsAre
<1>4. /\ pub' \in [Publishers -> PubType]
      /\ \A q \in Publishers : ~At(q, "idle")' => pub'[q].id \in JobIds
      /\ pub'[p].at = "idle" /\ \A q \in Publishers : q # p => pub'[q] = pub[q]
  BY <1>1, <1>2, IdlePublisher
<1>5. g = attempts[a] => pub[p].id = Id(a)
  BY <1>2, <1>3, IdsAre
<1> HIDE DEF a, g
<1>6. /\ stamp' \in [Rows -> Generations \cup {Unset}]
      /\ \A b \in Rows : \/ stamp'[b] = stamp[b]
                         \/ b = a /\ status[b] = "SCHEDULED" /\ stamp'[b] = g
  BY <1>1, <1>2, <1>3 DEF TypeOK
<1>7. ASSUME faults = 0 PROVE Entered' /\ StampedIsPresent'
  <2>1. /\ Entered /\ StampedIsPresent
        /\ \A q \in Publishers : At(q, "enqueue") => At(q, "enqueue")' /\ pub'[q].id = pub[q].id
    BY <1>1, <1>4, <1>7 DEF IInv, At
  <2>2. Entered'
    BY <1>1, <2>1 DEF Entered
  <2>3. \A j \in JobIds : Present(j) => Present(j)'
    BY <1>1, <2>1 DEF Present, Holds
  <2>4. ASSUME NEW b \in Rows, status[b] = "SCHEDULED", Stamped(b)'
        PROVE  Present(Id(b))'
    <3>1. Id(b)' = Id(b) /\ Id(b) \in JobIds
      BY <1>1, <1>2, IdsAre DEF Id
    <3>2. \A q \in Publishers : At(q, "stamp")' => At(q, "stamp") /\ pub'[q].id = pub[q].id
      BY <1>4 DEF At
    <3>3. Stamped(b)
      <4>1. CASE stamp'[b] = attempts[b] /\ stamp'[b] # stamp[b]
        <5>1. pub[p].id = Id(b)
          BY <1>5, <1>6, <4>1
        <5> QED BY <1>1, <5>1 DEF Stamped
      <4>2. CASE ~(stamp'[b] = attempts[b] /\ stamp'[b] # stamp[b])
        BY <1>1, <2>4, <3>1, <3>2, <4>2 DEF Stamped
      <4> QED BY <4>1, <4>2
    <3> QED BY <2>1, <2>3, <2>4, <3>1, <3>3 DEF StampedIsPresent
  <2>5. StampedIsPresent'
    BY <1>1, <2>4 DEF StampedIsPresent
  <2> QED BY <2>2, <2>5
<1>8. /\ queued \in [JobIds -> 0..MaxCopies] /\ score \in [JobIds -> Nat] /\ record \subseteq JobIds
      /\ faults \in 0..MaxFaults
  BY <1>2 DEF TypeOK
<1>9. ~(~At(p, "idle")')
  BY <1>4 DEF At
<1> QED BY <1>1, <1>4, <1>6, <1>7, <1>8, <1>9, PublisherKeeps

\* Redis refuses a call: a fault, after which nothing is said of stamps.
LEMMA PublishFailsKeeps ==
    ASSUME IInv, NEW p \in Publishers, PublishFails(p)
    PROVE  IInv'
<1>1. /\ ~At(p, "idle") /\ pub' = [pub EXCEPT ![p] = IdleP] /\ faults < MaxFaults /\ faults' = faults + 1
      /\ UNCHANGED <<now, status, attempts, due, stamp, record, queued, score, intermediate,
                     started, work>>
  BY DEF PublishFails, Fault, rowVars, redisVars
<1>2. TypeOK /\ faults \in 0..MaxFaults /\ MaxFaults \in Nat
  BY BoundsAssumption DEF IInv, TypeOK
<1>3. faults' \in 0..MaxFaults /\ faults' # 0
  BY <1>1, <1>2
<1>4. /\ pub' \in [Publishers -> PubType]
      /\ \A q \in Publishers : ~At(q, "idle")' => pub'[q].id \in JobIds
      /\ pub'[p].at = "idle" /\ \A q \in Publishers : q # p => pub'[q] = pub[q]
  BY <1>1, <1>2, IdlePublisher
<1>5. /\ queued \in [JobIds -> 0..MaxCopies] /\ score \in [JobIds -> Nat] /\ record \subseteq JobIds
      /\ stamp \in [Rows -> Generations \cup {Unset}] /\ ~(~At(p, "idle")')
  BY <1>2, <1>4 DEF TypeOK, At
<1> QED BY <1>1, <1>3, <1>4, <1>5, PublisherKeeps

-----------------------------------------------------------------------------
(* Redis, RQ and the workers' jobs.                                        *)

\* A step outside enqueue_action that leaves the rows as they are.
LEMMA RedisKeeps ==
    ASSUME IInv, UNCHANGED <<status, attempts, due, stamp, pub>>,
           now' \in Times, now' >= now, faults' \in 0..MaxFaults,
           record' \subseteq JobIds, intermediate' \subseteq JobIds, started' \subseteq JobIds,
           queued' \in [JobIds -> 0..MaxCopies], score' \in [JobIds -> Nat],
           work' \in [Workers -> WorkType],
           \A w \in Workers : ~Holds(w, "idle")' => work'[w].id \in JobIds,
           \A id \in JobIds :
              /\ queued'[id] > 0 => queued[id] > 0 \/ (score[id] # Unscheduled /\ 2 * score[id] <= now)
              /\ score'[id] \in {score[id], Unscheduled},
           \A w \in Workers :
              /\ ~Holds(w, "idle")' =>
                    queued[work'[w].id] > 0 \/ (~Holds(w, "idle") /\ work'[w].id = work[w].id)
              /\ work'[w].at \in {"taken", "started"} =>
                    \/ queued[work'[w].id] > 0
                    \/ work[w].at \in {"taken", "started"} /\ work'[w].id = work[w].id
              /\ Holds(w, "executing")' => work'[w] = work[w],
           faults' = 0 => faults = 0 /\ Entered' /\ Attended' /\ StampedIsPresent'
    PROVE  IInv'
<1>1. TypeOK /\ \A a \in Rows : Id(a)' = Id(a) /\ Id(a) \in JobIds
  BY IdsAre DEF IInv, Id
<1>2. TypeOK'
  BY <1>1 DEF TypeOK, At
<1>3. ASSUME NEW id \in JobIds, Live(id)' PROVE Live(id)
  <2>1. CASE queued'[id] > 0 \/ score'[id] # Unscheduled
    BY <2>1 DEF Live
  <2>2. ASSUME NEW q \in Publishers, ~At(q, "idle")', pub'[q].id = id PROVE Live(id)
    BY <2>2 DEF Live, At
  <2>3. ASSUME NEW w \in Workers, ~Holds(w, "idle")', work'[w].id = id PROVE Live(id)
    BY <2>3 DEF Live
  <2> QED BY <1>3, <2>1, <2>2, <2>3 DEF Live
<1>4. ASSUME NEW a \in Rows, status[a] = "SCHEDULED", Delivered(Id(a))'
      PROVE  Delivered(Id(a)) \/ due[a] <= now
  <2>1. CASE queued'[Id(a)] > 0
    <3>1. CASE score[Id(a)] # Unscheduled /\ 2 * score[Id(a)] <= now
      <4>1. due[a] <= 2 * score[Id(a)]
        BY <1>4, <3>1 DEF IInv, SameDue
      <4>2. due[a] \in Nat /\ now \in Nat /\ score[Id(a)] \in Nat
        BY <1>1, BoundsAssumption DEF TypeOK, Times
      <4> QED BY <3>1, <4>1, <4>2
    <3> QED BY <1>1, <2>1, <3>1 DEF Delivered
  <2>2. ASSUME NEW w \in Workers, work'[w].id = Id(a), work'[w].at \in {"taken", "started"}
        PROVE  Delivered(Id(a))
    BY <2>2 DEF Delivered
  <2> QED BY <1>1, <1>4, <2>1, <2>2 DEF Delivered
<1>5. NoneAhead' /\ NeverEarly' /\ RowsOK'
  BY <1>1, <1>2, <1>3, <1>4, JobsMove
<1>6. SameDue'
  BY <1>1, DueStays DEF Inside, At
<1>7. OneExecutes'
  BY DEF IInv, OneExecutes, Holds
<1> QED BY <1>2, <1>5, <1>6, <1>7 DEF IInv

\* Without faults, what this step leaves present stays stamped and present.
LEMMA PresentStays ==
    ASSUME IInv, faults = 0, UNCHANGED <<status, attempts, stamp, pub>>,
           \A a \in Rows : status[a] = "SCHEDULED" /\ Present(Id(a)) => Present(Id(a))'
    PROVE  StampedIsPresent'
  BY StampedStays DEF At

\* Time passes: it only helps a job that waits for it.
LEMMA TickKeeps ==
    ASSUME IInv, Tick
    PROVE  IInv'
<1>1. /\ now < MaxTime /\ now' = now + 1
      /\ UNCHANGED <<status, attempts, due, stamp, record, queued, score, intermediate, started,
                     pub, work, faults>>
  BY DEF Tick, rowVars, redisVars
<1>2. TypeOK /\ now \in 0..MaxTime /\ MaxTime \in Nat
  BY BoundsAssumption DEF IInv, TypeOK, Times
<1>3. now' \in Times /\ now' >= now
  BY <1>1, <1>2 DEF Times
<1>4. /\ queued' \in [JobIds -> 0..MaxCopies] /\ score' \in [JobIds -> Nat]
      /\ work' \in [Workers -> WorkType] /\ record' \subseteq JobIds /\ intermediate' \subseteq JobIds
      /\ started' \subseteq JobIds /\ faults' \in 0..MaxFaults
      /\ \A w \in Workers : ~Holds(w, "idle")' => work'[w].id \in JobIds
  BY <1>1, <1>2 DEF TypeOK, Holds
<1>5. ASSUME faults = 0 PROVE Entered' /\ Attended' /\ StampedIsPresent'
  <2>1. Entered' /\ Attended'
    BY <1>1, <1>5 DEF IInv, Entered, Attended, At, Holds
  <2>2. \A a \in Rows : Present(Id(a)) => Present(Id(a))'
    BY <1>1 DEF Present, Holds, At, Id
  <2> QED BY <1>1, <1>5, <2>1, <2>2, PresentStays
<1> QED BY <1>1, <1>3, <1>4, <1>5, RedisKeeps DEF Holds

\* RQ's scheduler moves a job whose score is reached, so its row is due.
LEMMA MoveDueKeeps ==
    ASSUME IInv, NEW id \in JobIds, MoveDue(id)
    PROVE  IInv'
<1>1. /\ score[id] # Unscheduled /\ score[id] <= now \div 2 /\ queued[id] < MaxCopies
      /\ queued' = [queued EXCEPT ![id] = @ + 1] /\ score' = [score EXCEPT ![id] = Unscheduled]
      /\ UNCHANGED <<now, status, attempts, due, stamp, record, intermediate, started, pub, work,
                     faults>>
  BY DEF MoveDue, rowVars
<1>2. TypeOK /\ now \in Times /\ now \in Nat /\ MaxCopies \in Nat
  BY BoundsAssumption DEF IInv, TypeOK, Times
<1>3. queued \in [JobIds -> 0..MaxCopies] /\ score \in [JobIds -> Nat] /\ score[id] \in Nat
  BY <1>2 DEF TypeOK
<1>4. 2 * score[id] <= now
  BY <1>1, <1>2, <1>3
<1>5. queued[id] + 1 \in 0..MaxCopies /\ queued[id] + 1 > 0 /\ Unscheduled \in Nat
  BY <1>1, <1>2, <1>3, BoundsAssumption DEF Unscheduled
<1>6. /\ queued' \in [JobIds -> 0..MaxCopies] /\ score' \in [JobIds -> Nat]
      /\ queued'[id] > 0 /\ score'[id] = Unscheduled
      /\ \A j \in JobIds : j # id => queued'[j] = queued[j] /\ score'[j] = score[j]
  BY <1>1, <1>3, <1>5
<1>7. ASSUME faults = 0 PROVE Entered' /\ Attended' /\ StampedIsPresent'
  <2>1. Entered'
    <3> SUFFICES ASSUME NEW j \in JobIds, queued'[j] > 0 \/ score'[j] # Unscheduled, j \notin record'
                 PROVE  \E q \in Publishers : At(q, "enqueue")' /\ pub'[q].id = j
      BY DEF Entered
    <3>1. queued[j] > 0 \/ score[j] # Unscheduled
      BY <1>1, <1>6
    <3> QED BY <1>1, <1>7, <3>1 DEF IInv, Entered, At
  <2>2. Attended'
    BY <1>1, <1>7 DEF IInv, Attended, Holds
  <2>3. \A a \in Rows : Present(Id(a)) => Present(Id(a))'
    <3>1. \A a \in Rows : Id(a) \in JobIds /\ Id(a)' = Id(a)
      BY <1>1, <1>2, IdsAre DEF Id
    <3>2. ASSUME NEW j \in JobIds, Present(j) PROVE Present(j)'
      <4>1. CASE j = id
        BY <1>6, <4>1 DEF Present
      <4>2. CASE j # id
        BY <1>1, <1>6, <3>2, <4>2 DEF Present, Holds, At
      <4> QED BY <4>1, <4>2
    <3> QED BY <3>1, <3>2
  <2> QED BY <1>1, <1>7, <2>1, <2>2, <2>3, PresentStays
<1>8. /\ work' \in [Workers -> WorkType] /\ record' \subseteq JobIds /\ intermediate' \subseteq JobIds
      /\ started' \subseteq JobIds /\ faults' \in 0..MaxFaults
      /\ \A w \in Workers : ~Holds(w, "idle")' => work'[w].id \in JobIds
  BY <1>1, <1>2 DEF TypeOK, Holds
<1> QED BY <1>1, <1>2, <1>4, <1>6, <1>7, <1>8, RedisKeeps DEF Holds

\* RQ gives up a job that no worker has; without faults there is none.
LEMMA AbandonKeeps ==
    ASSUME IInv, NEW id \in JobIds, Abandon(id)
    PROVE  IInv'
<1>1. /\ id \in intermediate \cup started /\ \A w \in Workers : work[w].id # id
      /\ intermediate' = intermediate \ {id} /\ started' = started \ {id}
      /\ UNCHANGED <<now, status, attempts, due, stamp, record, queued, score, pub, work, faults>>
  BY DEF Abandon, rowVars
<1>2. TypeOK /\ now \in Times /\ now \in Nat
  BY BoundsAssumption DEF IInv, TypeOK, Times
<1>3. faults # 0
  BY <1>1 DEF IInv, Attended
<1>4. /\ queued' \in [JobIds -> 0..MaxCopies] /\ score' \in [JobIds -> Nat]
      /\ work' \in [Workers -> WorkType] /\ record' \subseteq JobIds /\ intermediate' \subseteq JobIds
      /\ started' \subseteq JobIds /\ faults' \in 0..MaxFaults /\ faults' # 0
      /\ \A w \in Workers : ~Holds(w, "idle")' => work'[w].id \in JobIds
  BY <1>1, <1>2, <1>3 DEF TypeOK, Holds
<1> QED BY <1>1, <1>2, <1>4, RedisKeeps DEF Holds

\* Redis loses everything: no job is left to be early.
LEMMA FlushRedisKeeps ==
    ASSUME IInv, FlushRedis
    PROVE  IInv'
<1>1. /\ faults < MaxFaults /\ faults' = faults + 1
      /\ record' = {} /\ intermediate' = {} /\ started' = {}
      /\ queued' = [id \in JobIds |-> 0] /\ score' = [id \in JobIds |-> Unscheduled]
      /\ UNCHANGED <<now, status, attempts, due, stamp, pub, work>>
  BY DEF FlushRedis, Fault, rowVars
<1>2. TypeOK /\ now \in Times /\ now \in Nat /\ faults \in 0..MaxFaults /\ MaxFaults \in Nat
      /\ Unscheduled \in Nat /\ MaxCopies \in Nat
  BY BoundsAssumption DEF IInv, TypeOK, Times, Unscheduled
<1>3. faults' \in 0..MaxFaults /\ faults' # 0
  BY <1>1, <1>2
<1>4. /\ queued' \in [JobIds -> 0..MaxCopies] /\ score' \in [JobIds -> Nat]
      /\ work' \in [Workers -> WorkType]
      /\ \A w \in Workers : ~Holds(w, "idle")' => work'[w].id \in JobIds
      /\ \A id \in JobIds : ~(queued'[id] > 0) /\ score'[id] = Unscheduled
  BY <1>1, <1>2 DEF TypeOK, Holds
<1> QED BY <1>1, <1>2, <1>3, <1>4, RedisKeeps DEF Holds

\* A worker takes a queued job; the row it is of was due when it was queued.
LEMMA TakeJobKeeps ==
    ASSUME IInv, NEW w \in Workers, NEW id \in JobIds, TakeJob(w, id)
    PROVE  IInv'
<1> DEFINE new == [at |-> "taken", id |-> id]
<1>1. /\ Holds(w, "idle") /\ queued[id] > 0 /\ queued' = [queued EXCEPT ![id] = @ - 1]
      /\ UNCHANGED <<now, status, attempts, due, stamp, record, score, started, pub, faults>>
  BY DEF TakeJob, rowVars
<1>2. TypeOK /\ now \in Times /\ now \in Nat /\ MaxCopies \in Nat
  BY BoundsAssumption DEF IInv, TypeOK, Times
<1>3. queued \in [JobIds -> 0..MaxCopies] /\ queued[id] - 1 \in 0..MaxCopies /\ queued[id] \in Nat
  BY <1>1, <1>2 DEF TypeOK
<1>4. /\ queued' \in [JobIds -> 0..MaxCopies]
      /\ \A j \in JobIds : /\ j # id => queued'[j] = queued[j]
                           /\ queued'[j] > 0 => queued[j] > 0
  BY <1>1, <1>3
<1>5. new \in WorkType /\ new.at = "taken" /\ new.id = id
  BY DEF WorkType, WorkSteps
<1>6. \/ id \in record /\ intermediate' = intermediate \cup {id} /\ work' = [work EXCEPT ![w] = new]
      \/ id \notin record /\ intermediate' = intermediate /\ work' = work
  BY DEF TakeJob
<1> HIDE DEF new
<1>7. /\ work' \in [Workers -> WorkType]
      /\ \A v \in Workers : v # w => work'[v] = work[v]
      /\ id \in record => work'[w] = new
      /\ id \notin record => work'[w] = work[w]
  BY <1>2, <1>5, <1>6 DEF TypeOK
<1>8. \A v \in Workers : ~Holds(v, "idle")' => work'[v].id \in JobIds
  BY <1>2, <1>5, <1>7 DEF TypeOK, Holds
<1>9. \A v \in Workers : ~Holds(v, "idle") => v # w /\ work'[v] = work[v]
  BY <1>1, <1>7
<1>10. ASSUME faults = 0 PROVE Entered' /\ Attended' /\ StampedIsPresent'
  <2>1. Entered /\ Attended
    BY <1>10 DEF IInv
  <2>2. Entered'
    BY <1>1, <1>4, <2>1 DEF Entered, At
  <2>3. Attended'
    <3>1. \A j \in started : \E v \in Workers : (Holds(v, "started") \/ Holds(v, "executing"))' /\ work'[v].id = j
      BY <1>9, <2>1 DEF Attended, Holds
    <3>2. \A j \in intermediate : \E v \in Workers : Holds(v, "taken")' /\ work'[v].id = j
      BY <1>9, <2>1 DEF Attended, Holds
    <3>3. id \in record => Holds(w, "taken")' /\ work'[w].id = id
      BY <1>5, <1>7 DEF Holds
    <3> QED BY <1>1, <1>6, <3>1, <3>2, <3>3 DEF Attended
  <2>4. ASSUME NEW j \in JobIds, Present(j) PROVE Present(j)'
    <3>1. CASE j = id /\ id \in record
      BY <1>5, <1>7, <3>1 DEF Present, Holds
    <3>2. CASE j = id /\ id \notin record
      BY <1>1, <2>1, <3>2 DEF Present, Entered, At
    <3>3. CASE j # id
      BY <1>1, <1>4, <1>6, <1>9, <2>4, <3>3 DEF Present, Holds, At
    <3> QED BY <3>1, <3>2, <3>3
  <2>5. \A a \in Rows : Present(Id(a)) => Present(Id(a))'
    <3>1. \A a \in Rows : Id(a) \in JobIds /\ Id(a)' = Id(a)
      BY <1>1, <1>2, IdsAre DEF Id
    <3> QED BY <2>4, <3>1
  <2> QED BY <1>1, <1>10, <2>2, <2>3, <2>5, PresentStays
<1>11. \A v \in Workers :
              /\ ~Holds(v, "idle")' =>
                    queued[work'[v].id] > 0 \/ (~Holds(v, "idle") /\ work'[v].id = work[v].id)
              /\ work'[v].at \in {"taken", "started"} =>
                    \/ queued[work'[v].id] > 0
                    \/ work[v].at \in {"taken", "started"} /\ work'[v].id = work[v].id
              /\ Holds(v, "executing")' => work'[v] = work[v]
  <2> SUFFICES ASSUME NEW v \in Workers, work'[v] # work[v]
               PROVE  queued[work'[v].id] > 0 /\ work'[v].at = "taken"
    BY DEF Holds
  <2> QED BY <1>1, <1>5, <1>7
<1>12. /\ score' \in [JobIds -> Nat] /\ record' \subseteq JobIds /\ intermediate' \subseteq JobIds
       /\ started' \subseteq JobIds /\ faults' \in 0..MaxFaults /\ now' >= now
  BY <1>1, <1>2, <1>6 DEF TypeOK
<1> QED BY <1>1, <1>2, <1>4, <1>7, <1>8, <1>10, <1>11, <1>12, RedisKeeps

\* A worker begins the job it took.
LEMMA BeginJobKeeps ==
    ASSUME IInv, NEW w \in Workers, BeginJob(w)
    PROVE  IInv'
<1> DEFINE id == work[w].id
<1>1. /\ Holds(w, "taken") /\ ~Holds(w, "idle") /\ work' = [work EXCEPT ![w].at = "started"]
      /\ intermediate' = intermediate \ {id} /\ started' = started \cup {id}
      /\ UNCHANGED <<now, status, attempts, due, stamp, record, queued, score, pub, faults>>
  BY DEF BeginJob, rowVars, Holds
<1>2. TypeOK /\ now \in Times /\ now \in Nat /\ "started" \in WorkSteps \ {"idle"}
  BY BoundsAssumption DEF IInv, TypeOK, Times, WorkSteps
<1>3. /\ work' \in [Workers -> WorkType]
      /\ \A v \in Workers : ~Holds(v, "idle")' => work'[v].id \in JobIds
      /\ work'[w].at = "started" /\ work'[w].id = id /\ id \in JobIds
      /\ \A v \in Workers : v # w => work'[v] = work[v]
  BY <1>1, <1>2, WorkerMoves
<1>4. work[w].id = id
  OBVIOUS
<1> HIDE DEF id
<1>5. ASSUME faults = 0 PROVE Entered' /\ Attended' /\ StampedIsPresent'
  <2>1. Entered /\ Attended
    BY <1>5 DEF IInv
  <2>2. Entered'
    BY <1>1, <2>1 DEF Entered, At
  <2>3. Attended'
    <3>1. ASSUME NEW j \in started' PROVE \E v \in Workers : (Holds(v, "started") \/ Holds(v, "executing"))' /\ work'[v].id = j
      <4>1. CASE j = id
        BY <1>3, <4>1 DEF Holds
      <4>2. CASE j # id
        <5>1. PICK v \in Workers : (Holds(v, "started") \/ Holds(v, "executing")) /\ work[v].id = j
          BY <1>1, <2>1, <3>1, <4>2 DEF Attended
        <5> QED BY <1>3, <1>4, <4>2, <5>1 DEF Holds
      <4> QED BY <4>1, <4>2
    <3>2. ASSUME NEW j \in intermediate' PROVE \E v \in Workers : Holds(v, "taken")' /\ work'[v].id = j
      <4>1. PICK v \in Workers : Holds(v, "taken") /\ work[v].id = j
        BY <1>1, <2>1, <3>2 DEF Attended
      <4> QED BY <1>1, <1>3, <1>4, <3>2, <4>1 DEF Holds
    <3> QED BY <3>1, <3>2 DEF Attended
  <2>4. ASSUME NEW j \in JobIds, Present(j) PROVE Present(j)'
    <3>1. CASE j = id
      BY <1>1, <3>1 DEF Present
    <3>2. CASE j # id
      BY <1>1, <1>3, <1>4, <2>4, <3>2 DEF Present, Holds, At
    <3> QED BY <3>1, <3>2
  <2>5. \A a \in Rows : Present(Id(a)) => Present(Id(a))'
    <3>1. \A a \in Rows : Id(a) \in JobIds /\ Id(a)' = Id(a)
      BY <1>1, <1>2, IdsAre DEF Id
    <3> QED BY <2>4, <3>1
  <2> QED BY <1>1, <1>5, <2>2, <2>3, <2>5, PresentStays
<1>6. \A v \in Workers :
              /\ ~Holds(v, "idle")' => ~Holds(v, "idle") /\ work'[v].id = work[v].id
              /\ work'[v].at \in {"taken", "started"} =>
                    work[v].at \in {"taken", "started"} /\ work'[v].id = work[v].id
              /\ Holds(v, "executing")' => work'[v] = work[v]
  BY <1>1, <1>3, <1>4 DEF Holds
<1>7. /\ score' \in [JobIds -> Nat] /\ record' \subseteq JobIds /\ intermediate' \subseteq JobIds
      /\ started' \subseteq JobIds /\ faults' \in 0..MaxFaults /\ now' >= now
      /\ queued' \in [JobIds -> 0..MaxCopies]
  BY <1>1, <1>2, <1>3 DEF TypeOK
<1> QED BY <1>1, <1>2, <1>3, <1>5, <1>6, <1>7, RedisKeeps

\* A worker dies with its job: a fault.
LEMMA WorkerDiesKeeps ==
    ASSUME IInv, NEW w \in Workers, WorkerDies(w)
    PROVE  IInv'
<1>1. /\ faults < MaxFaults /\ faults' = faults + 1 /\ work' = [work EXCEPT ![w] = IdleW]
      /\ UNCHANGED <<now, status, attempts, due, stamp, record, queued, score, intermediate,
                     started, pub>>
  BY DEF WorkerDies, Fault, rowVars, redisVars
<1>2. TypeOK /\ now \in Times /\ now \in Nat /\ faults \in 0..MaxFaults /\ MaxFaults \in Nat
  BY BoundsAssumption DEF IInv, TypeOK, Times
<1>3. faults' \in 0..MaxFaults /\ faults' # 0
  BY <1>1, <1>2
<1>4. /\ work' \in [Workers -> WorkType]
      /\ \A v \in Workers : ~Holds(v, "idle")' => work'[v].id \in JobIds
      /\ work'[w].at = "idle" /\ \A v \in Workers : v # w => work'[v] = work[v]
  BY <1>1, <1>2, IdleWorker
<1>5. \A v \in Workers : v = w \/ work'[v] = work[v]
  BY <1>4
<1>6. \A v \in Workers :
              /\ ~Holds(v, "idle")' => ~Holds(v, "idle") /\ work'[v].id = work[v].id
              /\ work'[v].at \in {"taken", "started"} =>
                    work[v].at \in {"taken", "started"} /\ work'[v].id = work[v].id
              /\ Holds(v, "executing")' => work'[v] = work[v]
  BY <1>4, <1>5 DEF Holds
<1>7. /\ score' \in [JobIds -> Nat] /\ record' \subseteq JobIds /\ intermediate' \subseteq JobIds
      /\ started' \subseteq JobIds /\ now' >= now /\ queued' \in [JobIds -> 0..MaxCopies]
  BY <1>1, <1>2 DEF TypeOK
<1> QED BY <1>1, <1>2, <1>3, <1>4, <1>6, <1>7, RedisKeeps

\* Ending a job takes it from one worker and out of the started registry.
LEMMA EndJobIs ==
    ASSUME TypeOK, NEW w \in Workers, Holds(w, "started") \/ Holds(w, "executing"), EndJob(w)
    PROVE  /\ work' \in [Workers -> WorkType]
           /\ \A v \in Workers : ~Holds(v, "idle")' => work'[v].id \in JobIds
           /\ work'[w].at = "idle" /\ \A v \in Workers : v # w => work'[v] = work[v]
           /\ started' = started \ {work[w].id} /\ work[w].id \in JobIds
           /\ Attended /\ UNCHANGED intermediate => Attended'
<1>1. work' = [work EXCEPT ![w] = IdleW] /\ started' = started \ {work[w].id} /\ ~Holds(w, "idle")
  BY DEF EndJob, Holds
<1>2. /\ work' \in [Workers -> WorkType]
      /\ \A v \in Workers : ~Holds(v, "idle")' => work'[v].id \in JobIds
      /\ work'[w].at = "idle" /\ \A v \in Workers : v # w => work'[v] = work[v]
  BY <1>1, IdleWorker
<1>3. ASSUME Attended, UNCHANGED intermediate PROVE Attended'
  <2>1. ASSUME NEW j \in started' PROVE \E v \in Workers : (Holds(v, "started") \/ Holds(v, "executing"))' /\ work'[v].id = j
    <3>1. PICK v \in Workers : (Holds(v, "started") \/ Holds(v, "executing")) /\ work[v].id = j
      BY <1>1, <1>3, <2>1 DEF Attended
    <3>2. v # w
      BY <1>1, <2>1, <3>1
    <3> QED BY <1>2, <3>1, <3>2 DEF Holds
  <2>2. ASSUME NEW j \in intermediate' PROVE \E v \in Workers : Holds(v, "taken")' /\ work'[v].id = j
    <3>1. PICK v \in Workers : Holds(v, "taken") /\ work[v].id = j
      BY <1>3, <2>2 DEF Attended
    <3>2. v # w
      BY <3>1 DEF Holds
    <3> QED BY <1>2, <3>1, <3>2 DEF Holds
  <2> QED BY <2>1, <2>2 DEF Attended
<1> QED BY <1>1, <1>2, <1>3 DEF TypeOK

\* A job whose row is not to be started is used up: by NeverEarly it is not
\* of the generation the row waits for.
LEMMA RefusalKeeps ==
    ASSUME IInv, NEW w \in Workers, Holds(w, "started"), EndJob(w),
           ~(status[RowOf(work[w].id)] = "SCHEDULED" /\ due[RowOf(work[w].id)] <= now),
           UNCHANGED <<now, status, attempts, due, stamp, record, queued, score, intermediate, pub,
                       faults>>
    PROVE  IInv'
<1>1. TypeOK /\ now \in Times /\ now \in Nat
  BY BoundsAssumption DEF IInv, TypeOK, Times
<1> DEFINE id == work[w].id
<1>2. /\ work' \in [Workers -> WorkType]
      /\ \A v \in Workers : ~Holds(v, "idle")' => work'[v].id \in JobIds
      /\ work'[w].at = "idle" /\ \A v \in Workers : v # w => work'[v] = work[v]
      /\ started' = started \ {id} /\ id \in JobIds
      /\ Attended => Attended'
  BY <1>1, EndJobIs
<1>3. work[w].id = id /\ work[w].at = "started"
  BY DEF Holds
<1> HIDE DEF id
<1>4. \A a \in Rows : status[a] = "SCHEDULED" => Id(a) # id
  <2> SUFFICES ASSUME NEW a \in Rows, status[a] = "SCHEDULED", Id(a) = id PROVE FALSE
    OBVIOUS
  <2>1. RowOf(id) = a /\ Delivered(Id(a))
    BY <1>1, <1>3, IdsAre DEF Delivered
  <2> QED BY <1>3, <2>1 DEF IInv, NeverEarly
<1>5. ASSUME faults = 0 PROVE Entered' /\ Attended' /\ StampedIsPresent'
  <2>1. Entered' /\ Attended'
    BY <1>2, <1>5 DEF IInv, Entered, At
  <2>2. ASSUME NEW j \in JobIds, Present(j), j # id PROVE Present(j)'
    BY <1>2, <1>3, <2>2 DEF Present, Holds, At
  <2>3. \A a \in Rows : status[a] = "SCHEDULED" /\ Present(Id(a)) => Present(Id(a))'
    <3>1. \A a \in Rows : Id(a) \in JobIds /\ Id(a)' = Id(a)
      BY <1>1, IdsAre DEF Id
    <3> QED BY <1>4, <2>2, <3>1
  <2> QED BY <1>5, <2>1, <2>3, PresentStays
<1>6. \A v \in Workers : v = w \/ work'[v] = work[v]
  BY <1>2
<1>7. \A v \in Workers :
              /\ ~Holds(v, "idle")' => ~Holds(v, "idle") /\ work'[v].id = work[v].id
              /\ work'[v].at \in {"taken", "started"} =>
                    work[v].at \in {"taken", "started"} /\ work'[v].id = work[v].id
              /\ Holds(v, "executing")' => work'[v] = work[v]
  BY <1>2, <1>6 DEF Holds
<1>8. /\ score' \in [JobIds -> Nat] /\ record' \subseteq JobIds /\ intermediate' \subseteq JobIds
      /\ started' \subseteq JobIds /\ now' >= now /\ queued' \in [JobIds -> 0..MaxCopies]
      /\ faults' \in 0..MaxFaults
  BY <1>1, <1>2 DEF TypeOK
<1> QED BY <1>1, <1>2, <1>5, <1>7, <1>8, RedisKeeps

-----------------------------------------------------------------------------
(* Steps of a row.                                                         *)

\* One row moves on, in whatever way; a worker may move with it, and the
\* other rows' jobs stay.  A row that is put in the queue was fresh: no job
\* of its generation was alive.
LEMMA RowKeeps ==
    ASSUME IInv, TypeOK', NEW a \in Rows,
           UNCHANGED <<now, record, queued, score, intermediate, pub, faults>>,
           \A b \in Rows : b # a => /\ status'[b] = status[b] /\ attempts'[b] = attempts[b]
                                    /\ due'[b] = due[b] /\ stamp'[b] = stamp[b],
           \A v \in Workers : ~Holds(v, "idle")' => ~Holds(v, "idle") /\ work'[v].id = work[v].id,
           \A v \in Workers : \/ work'[v] = work[v]
                              \/ RowOf(work[v].id) = a /\ work'[v].at \notin {"taken", "started"},
           \A id \in JobIds : RowOf(id) # a /\ id \in started => id \in started',
           faults = 0 /\ Attended => Attended',
           status'[a] # "OVER" => status[a] # "OVER" /\ Limit(a)' >= Limit(a),
           status'[a] # "NONE",
           status'[a] = "SCHEDULED" => /\ ~Live(Id(a)) /\ attempts'[a] = attempts[a]
                                       /\ attempts[a] < MaxAttempts /\ stamp'[a] = Unset,
           OneExecutes'
    PROVE  IInv'
<1>1. /\ TypeOK /\ \A b \in Rows : Id(b) \in JobIds /\ (b # a => Id(b)' = Id(b) /\ Limit(b)' = Limit(b))
      /\ \A b \in Rows : attempts[b] \in Nat /\ attempts'[b] \in Nat /\ Limit(b) \in Nat /\ Limit(b)' \in Nat
  BY IdsAre, BoundsAssumption DEF IInv, TypeOK, Id, Limit, Generations
<1>2. status'[a] = "SCHEDULED" => Id(a)' = Id(a)
  BY DEF Id
<1>3. \A id \in JobIds : Live(id)' => Live(id)
  <2> SUFFICES ASSUME NEW id \in JobIds, Live(id)' PROVE Live(id)
    OBVIOUS
  <2>1. ASSUME NEW q \in Publishers, ~At(q, "idle")', pub'[q].id = id PROVE Live(id)
    BY <2>1 DEF Live, At
  <2> QED BY <2>1 DEF Live
<1>4. \A b \in Rows : status'[b] = "SCHEDULED" => Id(b)' = Id(b) /\ (b = a => ~Live(Id(a)))
  BY <1>1, <1>2
<1>5. NoneAhead'
  <2> SUFFICES ASSUME NEW id \in JobIds, Live(id)', status'[RowOf(id)] # "OVER"
               PROVE  GenOf(id) < Limit(RowOf(id))'
    BY DEF NoneAhead
  <2>1. RowOf(id) \in Rows /\ GenOf(id) \in Nat /\ Live(id)
    BY <1>1, <1>3, IdsAre
  <2>2. CASE RowOf(id) = a
    BY <1>1, <2>1, <2>2 DEF IInv, NoneAhead
  <2>3. CASE RowOf(id) # a
    BY <1>1, <2>1, <2>3 DEF IInv, NoneAhead
  <2> QED BY <2>2, <2>3
<1>6. RowsOK'
  BY <1>1 DEF IInv, RowsOK
<1>7. SameDue'
  <2> SUFFICES ASSUME NEW b \in Rows, status'[b] = "SCHEDULED"
               PROVE  /\ \A q \in Publishers : ~At(q, "idle") /\ pub[q].id = Id(b) => pub[q].due = due'[b]
                      /\ score[Id(b)] # Unscheduled => due'[b] <= 2 * score[Id(b)]
    BY <1>4 DEF SameDue, At
  <2>1. CASE b = a
    BY <1>4, <2>1 DEF Live
  <2>2. CASE b # a
    BY <2>2 DEF IInv, SameDue
  <2> QED BY <2>1, <2>2
<1>8. NeverEarly'
  <2> SUFFICES ASSUME NEW b \in Rows, status'[b] = "SCHEDULED", Delivered(Id(b))'
               PROVE  due'[b] <= now
    BY <1>4 DEF NeverEarly
  <2>1. Live(Id(b))'
    <3>1. \A v \in Workers : work'[v].at \in {"taken", "started"} => ~Holds(v, "idle")'
      BY DEF Holds
    <3> QED BY <1>4, <3>1 DEF Live, Delivered
  <2>2. b # a
    BY <1>1, <1>3, <1>4, <2>1
  <2>3. Delivered(Id(b))
    <3>1. \A v \in Workers : work'[v].at \in {"taken", "started"} => work'[v] = work[v]
      OBVIOUS
    <3> QED BY <1>4, <3>1 DEF Delivered
  <2> QED BY <2>2, <2>3 DEF IInv, NeverEarly
<1>9. ASSUME faults' = 0 PROVE Entered' /\ Attended' /\ StampedIsPresent'
  <2>1. Entered' /\ Attended'
    BY <1>9 DEF IInv, Entered, At
  <2>2. ASSUME NEW b \in Rows, status'[b] = "SCHEDULED", Stamped(b)'
        PROVE  Present(Id(b))'
    <3>1. b # a
      <4> SUFFICES ASSUME b = a PROVE FALSE
        OBVIOUS
      <4>1. stamp'[a] # attempts'[a]
        BY <1>1, <2>2, BoundsAssumption DEF TypeOK, Generations, Unset
      <4>2. PICK q \in Publishers : At(q, "stamp") /\ pub[q].id = Id(a)
        BY <1>4, <2>2, <4>1 DEF Stamped, At
      <4>3. Live(Id(a))
        BY <4>2 DEF Live, At
      <4> QED BY <2>2, <4>3
    <3>2. Stamped(b) /\ status[b] = "SCHEDULED"
      BY <1>4, <2>2, <3>1 DEF Stamped, At
    <3>3. Present(Id(b))
      BY <1>9, <3>2 DEF IInv, StampedIsPresent
    <3>4. RowOf(Id(b)) = b
      BY <1>1, IdsAre
    <3>5. \A v \in Workers : ~Holds(v, "idle") /\ work[v].id = Id(b) => work'[v] = work[v]
      BY <3>1, <3>4
    <3> QED BY <1>1, <1>4, <2>2, <3>1, <3>3, <3>4, <3>5 DEF Present, Holds, At
  <2> QED BY <2>1, <2>2 DEF StampedIsPresent
<1> QED BY <1>5, <1>6, <1>7, <1>8, <1>9 DEF IInv

\* A row that waits for nothing yet, or is being executed, is fresh.
LEMMA RowIsFresh ==
    ASSUME IInv, NEW a \in Rows, status[a] \in {"NONE", "EXECUTING"}
    PROVE  ~Live(Id(a)) /\ Limit(a) = attempts[a] /\ attempts[a] \in Nat
<1>1. Id(a) \in JobIds /\ RowOf(Id(a)) = a /\ GenOf(Id(a)) = attempts[a] /\ attempts[a] \in Nat
  BY IdsAre, BoundsAssumption DEF IInv, TypeOK, Generations
<1> QED BY <1>1 DEF IInv, NoneAhead, Limit

\* A decision schedules a row: its generation is new, so nothing of it is queued.
LEMMA CommitRowKeeps ==
    ASSUME IInv, NEW a \in Rows, NEW t \in Times, CommitRow(a, t)
    PROVE  IInv'
<1>1. /\ status[a] = "NONE" /\ status' = [status EXCEPT ![a] = "SCHEDULED"]
      /\ due' = [due EXCEPT ![a] = t]
      /\ UNCHANGED <<now, attempts, stamp, record, queued, score, intermediate, started, pub, work,
                     faults>>
  BY DEF CommitRow, redisVars
<1>2. TypeOK
  BY DEF IInv
<1>3. /\ status'[a] = "SCHEDULED" /\ due'[a] = t
      /\ \A b \in Rows : b # a => status'[b] = status[b] /\ due'[b] = due[b]
      /\ status' \in [Rows -> Statuses] /\ due' \in [Rows -> Times]
  BY <1>1, <1>2 DEF TypeOK, Statuses
<1>4. TypeOK'
  BY <1>1, <1>2, <1>3 DEF TypeOK, At, Holds
<1>5. ~Live(Id(a)) /\ Limit(a) = attempts[a] /\ attempts[a] = 0 /\ stamp[a] = Unset
  BY <1>1, RowIsFresh DEF IInv, RowsOK
<1>6. Limit(a)' >= Limit(a) /\ attempts[a] < MaxAttempts
  BY <1>1, <1>3, <1>5, BoundsAssumption DEF Limit
<1>7. OneExecutes'
  <2>1. \A w \in Workers : Holds(w, "executing") => RowOf(work[w].id) # a /\ RowOf(work[w].id) \in Rows
    BY <1>1, <1>2, IdsAre DEF IInv, OneExecutes, TypeOK, Holds
  <2> QED BY <1>1, <1>3, <2>1 DEF IInv, OneExecutes, Holds
<1>8. faults = 0 /\ Attended => Attended'
  BY <1>1 DEF Attended, Holds
<1> QED BY <1>1, <1>3, <1>4, <1>5, <1>6, <1>7, <1>8, RowKeeps DEF Holds

\* A row ends before its attempt; its jobs are refused.
LEMMA CancelRowKeeps ==
    ASSUME IInv, NEW a \in Rows, CancelRow(a)
    PROVE  IInv'
<1>1. /\ status[a] = "SCHEDULED" /\ status' = [status EXCEPT ![a] = "OVER"]
      /\ UNCHANGED <<now, attempts, due, stamp, record, queued, score, intermediate, started, pub,
                     work, faults>>
  BY DEF CancelRow, redisVars
<1>2. TypeOK
  BY DEF IInv
<1>3. /\ status'[a] = "OVER" /\ \A b \in Rows : b # a => status'[b] = status[b]
      /\ status' \in [Rows -> Statuses]
  BY <1>1, <1>2 DEF TypeOK, Statuses
<1>4. TypeOK'
  BY <1>1, <1>2, <1>3 DEF TypeOK, At, Holds
<1>5. OneExecutes'
  <2>1. \A w \in Workers : Holds(w, "executing") => RowOf(work[w].id) # a /\ RowOf(work[w].id) \in Rows
    BY <1>1, <1>2, IdsAre DEF IInv, OneExecutes, TypeOK, Holds
  <2> QED BY <1>1, <1>3, <2>1 DEF IInv, OneExecutes, Holds
<1>6. faults = 0 /\ Attended => Attended'
  BY <1>1 DEF Attended, Holds
<1> QED BY <1>1, <1>3, <1>4, <1>5, <1>6, RowKeeps DEF Holds

\* A worker claims the row of its job, or is refused.
LEMMA ClaimKeeps ==
    ASSUME IInv, NEW w \in Workers, Claim(w)
    PROVE  IInv'
<1>1. /\ Holds(w, "started") /\ ~Holds(w, "idle")
      /\ UNCHANGED <<now, due, stamp, record, queued, score, intermediate, pub, faults>>
  BY DEF Claim, Holds
<1>2. TypeOK /\ work[w].id \in JobIds /\ RowOf(work[w].id) \in Rows
  BY <1>1, IdsAre DEF IInv, TypeOK
<1> PICK a \in Rows : a = RowOf(work[w].id)
  BY <1>2
<1>3. CASE ~(status[a] = "SCHEDULED" /\ due[a] <= now)
  <2>1. EndJob(w) /\ UNCHANGED <<status, attempts>>
    BY <1>3 DEF Claim
  <2> QED BY <1>1, <1>3, <2>1, RefusalKeeps
<1>4. CASE status[a] = "SCHEDULED" /\ due[a] <= now
  <2>1. /\ status' = [status EXCEPT ![a] = "EXECUTING"] /\ attempts' = [attempts EXCEPT ![a] = @ + 1]
        /\ work' = [work EXCEPT ![w].at = "executing"] /\ started' = started
    BY <1>4 DEF Claim
  <2>2. /\ work' \in [Workers -> WorkType]
        /\ \A v \in Workers : ~Holds(v, "idle")' => work'[v].id \in JobIds
        /\ work'[w].at = "executing" /\ work'[w].id = work[w].id
        /\ \A v \in Workers : v # w => work'[v] = work[v]
    <3>1. "executing" \in WorkSteps \ {"idle"}
      BY DEF WorkSteps
    <3> QED BY <1>1, <1>2, <2>1, <3>1, WorkerMoves
  <2>3. RowOf(work[w].id) = a
    OBVIOUS
  <2>4. attempts[a] \in Nat /\ attempts[a] < MaxAttempts /\ attempts[a] + 1 \in Generations
    BY <1>2, <1>4, BoundsAssumption DEF IInv, RowsOK, TypeOK, Generations
  <2>5. /\ status'[a] = "EXECUTING" /\ attempts'[a] = attempts[a] + 1
        /\ \A b \in Rows : b # a => status'[b] = status[b] /\ attempts'[b] = attempts[b]
        /\ status' \in [Rows -> Statuses] /\ attempts' \in [Rows -> Generations]
    BY <1>2, <2>1, <2>4 DEF TypeOK, Statuses
  <2>6. TypeOK'
    BY <1>1, <1>2, <2>1, <2>2, <2>5 DEF TypeOK, At
  <2>7. Limit(a)' >= Limit(a) /\ status[a] # "OVER"
    BY <1>4, <2>4, <2>5 DEF Limit
  <2>8. OneExecutes'
    <3>1. \A v \in Workers : Holds(v, "executing") => RowOf(work[v].id) # a /\ RowOf(work[v].id) \in Rows
      BY <1>2, <1>4, IdsAre DEF IInv, OneExecutes, TypeOK, Holds
    <3>2. \A v \in Workers : v # w => (Holds(v, "executing")' <=> Holds(v, "executing")) /\ work'[v] = work[v]
      BY <2>2 DEF Holds
    <3>3. \A v \in Workers : Holds(v, "executing")' /\ v # w =>
              status'[RowOf(work'[v].id)] = "EXECUTING" /\ RowOf(work'[v].id) # a
      BY <2>5, <3>1, <3>2 DEF IInv, OneExecutes
    <3>4. RowOf(work'[w].id) = a
      BY <2>2, <2>3
    <3> QED BY <2>5, <3>1, <3>2, <3>3, <3>4 DEF IInv, OneExecutes
  <2>9. Attended => Attended'
    <3> SUFFICES ASSUME Attended PROVE Attended'
      OBVIOUS
    <3>1. \A j \in started : \E v \in Workers : (Holds(v, "started") \/ Holds(v, "executing"))' /\ work'[v].id = j
      BY <2>2 DEF Attended, Holds
    <3>2. \A j \in intermediate : \E v \in Workers : Holds(v, "taken")' /\ work'[v].id = j
      BY <1>1, <2>2 DEF Attended, Holds
    <3> QED BY <1>1, <2>1, <3>1, <3>2 DEF Attended
  <2>10. \A v \in Workers :
            /\ ~Holds(v, "idle")' => ~Holds(v, "idle") /\ work'[v].id = work[v].id
            /\ \/ work'[v] = work[v]
               \/ RowOf(work[v].id) = a /\ work'[v].at \notin {"taken", "started"}
    BY <1>1, <2>2, <2>3 DEF Holds
  <2> QED BY <1>1, <1>2, <2>1, <2>5, <2>6, <2>7, <2>8, <2>9, <2>10, RowKeeps
<1> QED BY <1>3, <1>4

\* The worker that executes a row lets go of it.
LEMMA LettingGo ==
    ASSUME IInv, NEW w \in Workers, Holds(w, "executing"), EndJob(w), UNCHANGED intermediate,
           \A b \in Rows : b # RowOf(work[w].id) => status'[b] = status[b]
    PROVE  /\ status[RowOf(work[w].id)] = "EXECUTING" /\ RowOf(work[w].id) \in Rows
           /\ work' \in [Workers -> WorkType] /\ started' \subseteq JobIds
           /\ \A v \in Workers : ~Holds(v, "idle")' => work'[v].id \in JobIds
           /\ \A v \in Workers :
                 /\ ~Holds(v, "idle")' => ~Holds(v, "idle") /\ work'[v].id = work[v].id
                 /\ \/ work'[v] = work[v]
                    \/ RowOf(work[v].id) = RowOf(work[w].id) /\ work'[v].at \notin {"taken", "started"}
           /\ \A id \in JobIds : RowOf(id) # RowOf(work[w].id) /\ id \in started => id \in started'
           /\ Attended => Attended'
           /\ OneExecutes'
<1> DEFINE a == RowOf(work[w].id)
<1>1. TypeOK /\ status[a] = "EXECUTING"
  BY DEF IInv, OneExecutes
<1>2. /\ work' \in [Workers -> WorkType]
      /\ \A v \in Workers : ~Holds(v, "idle")' => work'[v].id \in JobIds
      /\ work'[w].at = "idle" /\ \A v \in Workers : v # w => work'[v] = work[v]
      /\ started' = started \ {work[w].id} /\ work[w].id \in JobIds /\ a \in Rows
      /\ Attended => Attended'
  BY <1>1, EndJobIs, IdsAre
<1>3. RowOf(work[w].id) = a
  OBVIOUS
<1> HIDE DEF a
<1>4. \A v \in Workers : v = w \/ (v # w /\ work'[v] = work[v])
  BY <1>2
<1>5. \A v \in Workers :
         /\ ~Holds(v, "idle")' => ~Holds(v, "idle") /\ work'[v].id = work[v].id
         /\ \/ work'[v] = work[v]
            \/ RowOf(work[v].id) = a /\ work'[v].at \notin {"taken", "started"}
  BY <1>2, <1>3, <1>4 DEF Holds
<1>6. OneExecutes'
  <2>1. \A v \in Workers : Holds(v, "executing")' => v # w /\ Holds(v, "executing") /\ work'[v] = work[v]
    BY <1>2, <1>4 DEF Holds
  <2>2. \A v \in Workers : Holds(v, "executing") => RowOf(work[v].id) \in Rows
    BY <1>1, IdsAre DEF TypeOK, Holds
  <2>3. \A v \in Workers : Holds(v, "executing") /\ v # w => RowOf(work[v].id) # a
    BY <1>3 DEF IInv, OneExecutes
  <2> QED BY <1>3, <2>1, <2>2, <2>3 DEF IInv, OneExecutes
<1>7. started' \subseteq JobIds /\ \A id \in JobIds : RowOf(id) # a /\ id \in started => id \in started'
  BY <1>1, <1>2, <1>3 DEF TypeOK
<1> QED BY <1>1, <1>2, <1>5, <1>6, <1>7 DEF a

\* The attempt ends the row.
LEMMA FinishKeeps ==
    ASSUME IInv, NEW w \in Workers, Finish(w)
    PROVE  IInv'
<1> DEFINE a == RowOf(work[w].id)
<1>1. /\ Holds(w, "executing") /\ status' = [status EXCEPT ![a] = "OVER"] /\ EndJob(w)
      /\ UNCHANGED <<now, attempts, due, stamp, record, queued, score, intermediate, pub, faults>>
  BY DEF Finish
<1>2. TypeOK
  BY DEF IInv
<1> HIDE DEF a
<1>3. a \in Rows
  BY <1>1, <1>2, IdsAre DEF a, TypeOK, Holds
<1>4. /\ status'[a] = "OVER" /\ \A b \in Rows : b # a => status'[b] = status[b]
      /\ status' \in [Rows -> Statuses]
  BY <1>1, <1>2, <1>3 DEF TypeOK, Statuses
<1>5. /\ work' \in [Workers -> WorkType] /\ started' \subseteq JobIds
      /\ \A v \in Workers : ~Holds(v, "idle")' => work'[v].id \in JobIds
      /\ \A v \in Workers :
            /\ ~Holds(v, "idle")' => ~Holds(v, "idle") /\ work'[v].id = work[v].id
            /\ \/ work'[v] = work[v]
               \/ RowOf(work[v].id) = a /\ work'[v].at \notin {"taken", "started"}
      /\ \A id \in JobIds : RowOf(id) # a /\ id \in started => id \in started'
      /\ Attended => Attended'
      /\ OneExecutes'
  BY <1>1, <1>4, LettingGo DEF a
<1>6. TypeOK'
  BY <1>1, <1>2, <1>4, <1>5 DEF TypeOK, At
<1> QED BY <1>1, <1>3, <1>4, <1>5, <1>6, RowKeeps

\* What PutBack writes.
LEMMA PutBackIs ==
    ASSUME TypeOK, NEW a \in Rows, NEW t \in Times, PutBack(a, t)
    PROVE  /\ status'[a] = "SCHEDULED" /\ due'[a] = t /\ stamp'[a] = Unset
           /\ \A b \in Rows : b # a => /\ status'[b] = status[b] /\ due'[b] = due[b]
                                       /\ stamp'[b] = stamp[b]
           /\ status' \in [Rows -> Statuses] /\ due' \in [Rows -> Times]
           /\ stamp' \in [Rows -> Generations \cup {Unset}]
  BY DEF TypeOK, PutBack, Statuses

\* The attempt is to be repeated: a new generation with a new time.
LEMMA RetryKeeps ==
    ASSUME IInv, NEW w \in Workers, NEW t \in Times, Retry(w, t)
    PROVE  IInv'
<1>0. TypeOK /\ RowOf(work[w].id) \in Rows
  BY IdsAre DEF Retry, IInv, TypeOK, Holds
<1> PICK a \in Rows : a = RowOf(work[w].id)
  BY <1>0
<1>1. /\ Holds(w, "executing") /\ PutBack(a, t) /\ attempts[a] < MaxAttempts /\ EndJob(w)
      /\ UNCHANGED <<now, attempts, record, queued, score, intermediate, pub, faults>>
  BY DEF Retry, AttemptLeft
<1>2. TypeOK
  BY DEF IInv
<1>4. /\ status'[a] = "SCHEDULED" /\ due'[a] = t /\ stamp'[a] = Unset
      /\ \A b \in Rows : b # a => /\ status'[b] = status[b] /\ due'[b] = due[b]
                                  /\ stamp'[b] = stamp[b]
      /\ status' \in [Rows -> Statuses] /\ due' \in [Rows -> Times]
      /\ stamp' \in [Rows -> Generations \cup {Unset}]
  BY <1>1, <1>2, PutBackIs
<1>5. /\ status[a] = "EXECUTING" /\ work' \in [Workers -> WorkType] /\ started' \subseteq JobIds
      /\ \A v \in Workers : ~Holds(v, "idle")' => work'[v].id \in JobIds
      /\ \A v \in Workers :
            /\ ~Holds(v, "idle")' => ~Holds(v, "idle") /\ work'[v].id = work[v].id
            /\ \/ work'[v] = work[v]
               \/ RowOf(work[v].id) = a /\ work'[v].at \notin {"taken", "started"}
      /\ \A id \in JobIds : RowOf(id) # a /\ id \in started => id \in started'
      /\ Attended => Attended'
      /\ OneExecutes'
  BY <1>1, <1>4, LettingGo
<1>6. TypeOK'
  BY <1>1, <1>2, <1>4, <1>5 DEF TypeOK, At
<1>7. ~Live(Id(a)) /\ Limit(a)' >= Limit(a)
  BY <1>1, <1>4, <1>5, RowIsFresh DEF Limit
<1> QED BY <1>1, <1>4, <1>5, <1>6, <1>7, RowKeeps

\* The script puts a row back, or ends it, whose worker has died.
LEMMA RecoverClaimKeeps ==
    ASSUME IInv, NEW a \in Rows, RecoverClaim(a)
    PROVE  IInv'
<1>1. /\ status[a] = "EXECUTING"
      /\ \A w \in Workers : ~(Holds(w, "executing") /\ RowOf(work[w].id) = a)
      /\ UNCHANGED <<now, attempts, record, queued, score, intermediate, started, pub, work, faults>>
  BY DEF RecoverClaim, redisVars
<1>2. TypeOK /\ now \in Times
  BY DEF IInv, TypeOK
<1>3. /\ \/ /\ status'[a] = "SCHEDULED" /\ attempts[a] < MaxAttempts /\ stamp'[a] = Unset
         \/ status'[a] = "OVER"
      /\ \A b \in Rows : b # a => /\ status'[b] = status[b] /\ due'[b] = due[b]
                                  /\ stamp'[b] = stamp[b]
      /\ status' \in [Rows -> Statuses] /\ due' \in [Rows -> Times]
      /\ stamp' \in [Rows -> Generations \cup {Unset}]
  <2>1. CASE AttemptLeft(a)
    <3>1. PutBack(a, now) /\ attempts[a] < MaxAttempts
      BY <2>1 DEF RecoverClaim, AttemptLeft
    <3> QED BY <1>2, <3>1, PutBackIs
  <2>2. CASE ~AttemptLeft(a)
    <3>1. status' = [status EXCEPT ![a] = "OVER"] /\ UNCHANGED <<due, stamp>>
      BY <2>2 DEF RecoverClaim
    <3> QED BY <1>2, <3>1 DEF TypeOK, Statuses
  <2> QED BY <2>1, <2>2
<1>4. TypeOK'
  BY <1>1, <1>2, <1>3 DEF TypeOK, At, Holds
<1>5. ~Live(Id(a)) /\ (status'[a] # "OVER" => Limit(a)' >= Limit(a))
  BY <1>1, <1>3, RowIsFresh DEF Limit
<1>6. OneExecutes'
  <2>1. \A w \in Workers : Holds(w, "executing") => RowOf(work[w].id) # a /\ RowOf(work[w].id) \in Rows
    BY <1>1, <1>2, IdsAre DEF TypeOK, Holds
  <2> QED BY <1>1, <1>3, <2>1 DEF IInv, OneExecutes, Holds
<1>7. faults = 0 /\ Attended => Attended'
  BY <1>1 DEF Attended, Holds
<1> QED BY <1>1, <1>3, <1>4, <1>5, <1>6, <1>7, RowKeeps DEF Holds

-----------------------------------------------------------------------------
(* The results.                                                            *)

\* The invariant holds at first.
LEMMA InvInit == Init => IInv
<1> SUFFICES ASSUME Init PROVE IInv
  OBVIOUS
<1>1. MaxAttempts \in Nat /\ MaxCopies \in Nat /\ MaxFaults \in Nat /\ MaxTime \in Nat /\ MaxAttempts > 0
  BY BoundsAssumption
<1>2. TypeOK
  <2>1. /\ now \in Times /\ faults \in 0..MaxFaults
        /\ status \in [Rows -> Statuses] /\ attempts \in [Rows -> Generations]
        /\ due \in [Rows -> Times] /\ stamp \in [Rows -> Generations \cup {Unset}]
    BY <1>1 DEF Init, Times, Statuses, Generations
  <2>2. /\ record \subseteq JobIds /\ intermediate \subseteq JobIds /\ started \subseteq JobIds
        /\ queued \in [JobIds -> 0..MaxCopies] /\ score \in [JobIds -> Nat]
    BY <1>1 DEF Init, Unscheduled
  <2>3. IdleP \in PubType /\ IdleP.at = "idle" /\ IdleW \in WorkType /\ IdleW.at = "idle"
    BY <1>1 DEF IdleP, IdleW, PubType, WorkType, PubSteps, WorkSteps, Times
  <2> QED BY <2>1, <2>2, <2>3 DEF Init, TypeOK, At, Holds
<1>3. /\ \A p \in Publishers : At(p, "idle") /\ ~At(p, "enqueue") /\ ~At(p, "stamp")
      /\ \A w \in Workers : Holds(w, "idle") /\ work[w].at \notin {"taken", "started", "executing"}
  BY DEF Init, At, Holds, IdleP, IdleW
<1>4. \A id \in JobIds : ~(queued[id] > 0) /\ score[id] = Unscheduled
  BY DEF Init
<1>5. \A a \in Rows : status[a] = "NONE" /\ attempts[a] = 0 /\ stamp[a] = Unset
  BY DEF Init
<1>6. NoneAhead
  BY <1>3, <1>4 DEF NoneAhead, Live
<1>7. RowsOK /\ SameDue /\ NeverEarly /\ StampedIsPresent
  BY <1>5 DEF RowsOK, SameDue, NeverEarly, StampedIsPresent
<1>8. OneExecutes /\ Entered
  BY <1>3, <1>4 DEF OneExecutes, Entered, Holds
<1>9. Attended
  BY DEF Init, Attended
<1> QED BY <1>2, <1>6, <1>7, <1>8, <1>9 DEF IInv

\* A step that changes nothing keeps the invariant.
LEMMA StutterKeeps == IInv /\ UNCHANGED vars => IInv'
<1> SUFFICES ASSUME IInv, UNCHANGED vars PROVE IInv'
  OBVIOUS
<1>1. UNCHANGED <<now, status, attempts, due, stamp, record, queued, score, intermediate, started,
                  pub, work, faults>>
  BY DEF vars, rowVars, redisVars
<1>2. TypeOK /\ now \in Times /\ now \in Nat
  BY BoundsAssumption DEF IInv, TypeOK, Times
<1>3. /\ queued' \in [JobIds -> 0..MaxCopies] /\ score' \in [JobIds -> Nat]
      /\ work' \in [Workers -> WorkType] /\ record' \subseteq JobIds /\ intermediate' \subseteq JobIds
      /\ started' \subseteq JobIds /\ faults' \in 0..MaxFaults /\ now' >= now
      /\ \A w \in Workers : ~Holds(w, "idle")' => work'[w].id \in JobIds
  BY <1>1, <1>2 DEF TypeOK, Holds
<1>4. ASSUME faults = 0 PROVE Entered' /\ Attended' /\ StampedIsPresent'
  <2>1. Entered' /\ Attended'
    BY <1>1, <1>4 DEF IInv, Entered, Attended, At, Holds
  <2>2. \A a \in Rows : Present(Id(a)) => Present(Id(a))'
    BY <1>1 DEF Present, Holds, At, Id
  <2> QED BY <1>1, <1>4, <2>1, <2>2, PresentStays
<1> QED BY <1>1, <1>2, <1>3, <1>4, RedisKeeps DEF Holds

\* Every step keeps it.
LEMMA InvNext == IInv /\ [Next]_vars => IInv'
<1> SUFFICES ASSUME IInv, [Next]_vars PROVE IInv'
  OBVIOUS
<1>1. CASE Tick \/ FlushRedis
  BY <1>1, TickKeeps, FlushRedisKeeps
<1>2. ASSUME NEW p \in Publishers, PublisherNext(p) PROVE IInv'
  <2>1. ASSUME NEW a \in Rows, ReadRow(p, a) PROVE IInv'
    BY <2>1, ReadRowKeeps
  <2>2. CASE Publish(p)
    BY <2>2, FetchJobKeeps, LooksKeep, DeleteJobKeeps,
       EnqueueJobKeeps, StampKeeps DEF Publish
  <2> QED BY <1>2, <2>1, <2>2, PublishFailsKeeps DEF PublisherNext
<1>3. ASSUME NEW w \in Workers, WorkerNext(w) PROVE IInv'
  <2>1. ASSUME NEW id \in JobIds, TakeJob(w, id) PROVE IInv'
    BY <2>1, TakeJobKeeps
  <2>2. ASSUME NEW t \in Times, Retry(w, t) PROVE IInv'
    BY <2>2, RetryKeeps
  <2> QED BY <1>3, <2>1, <2>2, BeginJobKeeps, ClaimKeeps, FinishKeeps, WorkerDiesKeeps DEF WorkerNext
<1>4. ASSUME NEW id \in JobIds, MoveDue(id) \/ Abandon(id) PROVE IInv'
  BY <1>4, MoveDueKeeps, AbandonKeeps
<1>5. ASSUME NEW a \in Rows,
             (\E t \in Times : CommitRow(a, t)) \/ CancelRow(a) \/ RecoverClaim(a)
      PROVE  IInv'
  BY <1>5, CommitRowKeeps, CancelRowKeeps, RecoverClaimKeeps
<1>6. CASE UNCHANGED vars
  BY <1>6, StutterKeeps
<1> QED BY <1>1, <1>2, <1>3, <1>4, <1>5, <1>6 DEF Next

\* It holds throughout.
LEMMA InvHolds == Spec => []IInv
  BY InvInit, InvNext, PTL DEF Spec

\* The rows, Redis and the processes always hold what TypeOK says.
THEOREM TypeCorrect == Spec => []TypeOK
<1>1. IInv => TypeOK
  BY DEF IInv
<1> QED BY <1>1, InvHolds, PTL

\* Whatever is lost and whoever dies, no delivered job of a row's current
\* generation reaches a worker before the row's time.
THEOREM NoneRefusedEarly == Spec => []NeverEarly
<1>1. IInv => NeverEarly
  BY DEF IInv
<1> QED BY <1>1, InvHolds, PTL

\* While nothing has failed, the job of a stamped row exists or is being put
\* back, for any number of publishers and workers.
THEOREM StampIsTrue == Spec => []StampedIsPublished
<1>1. ASSUME IInv PROVE StampedIsPublished
  <2> SUFFICES ASSUME faults = 0, NEW a \in Rows, status[a] = "SCHEDULED", stamp[a] = attempts[a]
               PROVE  Somewhere(Id(a))
    BY DEF StampedIsPublished
  <2>1. Present(Id(a))
    BY <1>1 DEF IInv, StampedIsPresent, Stamped
  <2> QED BY <2>1 DEF Present, Somewhere
<1> QED BY <1>1, InvHolds, PTL

\* Every step of publishers, Redis, workers and the script is, for the rows,
\* a step of the durable timer or none.
THEOREM StepsOfTheTimer == Spec => Timer!Init /\ [][Timer!Next]_(Timer!vars)
<1>1. Init => Timer!Init
  BY DEF Init, Timer!Init
<1>2. ASSUME IInv, [Next]_vars PROVE [Timer!Next]_(Timer!vars)
  <2>1. CASE Tick
    BY <2>1 DEF Tick, Timer!Next, Timer!Tick, rowVars
  <2>2. CASE FlushRedis
    BY <2>2 DEF FlushRedis, Timer!vars, rowVars
  <2>3. ASSUME NEW p \in Publishers, PublisherNext(p) PROVE UNCHANGED Timer!vars
    BY <2>3 DEF PublisherNext, Publish, ReadRow, FetchJob, Look, LookInList, LookInIntermediate,
                LookInScheduled, LookInStarted, DeleteJob, EnqueueJob, Stamp, PublishFails, Timer!vars, rowVars
  <2>4. ASSUME NEW id \in JobIds, MoveDue(id) \/ Abandon(id) PROVE UNCHANGED Timer!vars
    BY <2>4 DEF MoveDue, Abandon, Timer!vars, rowVars
  <2>5. ASSUME NEW a \in Rows, NEW t \in Times, CommitRow(a, t) PROVE Timer!Put(a, t)
    <3>1. attempts[a] < MaxAttempts
      BY <1>2, <2>5, BoundsAssumption DEF IInv, RowsOK, CommitRow
    <3> QED BY <2>5, <3>1 DEF CommitRow, Timer!Put
  <2>6. ASSUME NEW a \in Rows, CancelRow(a) PROVE Timer!End(a)
    BY <2>6 DEF CancelRow, Timer!End
  <2>7. ASSUME NEW a \in Rows, RecoverClaim(a) PROVE Timer!End(a) \/ Timer!Put(a, now)
    <3>1. now \in Nat
      BY <1>2, BoundsAssumption DEF IInv, TypeOK, Times
    <3> QED BY <2>7, <3>1 DEF RecoverClaim, PutBack, AttemptLeft, Timer!End, Timer!Put
  <2>8. ASSUME NEW w \in Workers, WorkerNext(w) PROVE [Timer!Next]_(Timer!vars)
    <3>1. ASSUME NEW id \in JobIds, TakeJob(w, id) PROVE UNCHANGED Timer!vars
      BY <3>1 DEF TakeJob, Timer!vars, rowVars
    <3>2. CASE BeginJob(w) \/ WorkerDies(w)
      BY <3>2 DEF BeginJob, WorkerDies, Timer!vars, rowVars
    <3>3. ~Holds(w, "idle") => RowOf(work[w].id) \in Rows
      BY <1>2, IdsAre DEF IInv, TypeOK
    <3>4. ASSUME Claim(w) PROVE UNCHANGED Timer!vars \/ Timer!Start(RowOf(work[w].id))
      BY <3>4 DEF Claim, Timer!Start, Timer!vars
    <3>5. ASSUME Finish(w) PROVE Timer!End(RowOf(work[w].id))
      BY <1>2, <3>5 DEF Finish, IInv, OneExecutes, Timer!End
    <3>6. ASSUME NEW t \in Times, Retry(w, t) PROVE Timer!Put(RowOf(work[w].id), t)
      <4>1. t \in Nat /\ now \in Nat
        BY <1>2, BoundsAssumption DEF IInv, TypeOK, Times
      <4> QED BY <1>2, <3>6, <4>1 DEF Retry, PutBack, AttemptLeft, IInv, OneExecutes, Timer!Put
    <3>7. Claim(w) \/ Finish(w) \/ (\E t \in Times : Retry(w, t)) => ~Holds(w, "idle")
      BY DEF Claim, Finish, Retry, Holds
    <3> QED BY <2>8, <3>1, <3>2, <3>3, <3>4, <3>5, <3>6, <3>7 DEF WorkerNext, Timer!Next, Times
  <2>9. CASE UNCHANGED vars
    BY <2>9 DEF vars, rowVars, Timer!vars
  <2>10. now \in Times
    BY <1>2 DEF IInv, TypeOK
  <2> QED BY <1>2, <2>1, <2>2, <2>3, <2>4, <2>5, <2>6, <2>7, <2>8, <2>9, <2>10 DEF Next, Timer!Next, Times
<1> QED BY <1>1, <1>2, InvHolds, PTL DEF Spec
===============================================================================
