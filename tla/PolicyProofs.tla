----------------------------- MODULE PolicyProofs -----------------------------
(***************************************************************************)
(* Proofs about Policy, for any guardrail limits, amounts, failures,       *)
(* forecasts and modes: what the policies choose from one look at a case,  *)
(* and that the rows of the case keep within the guardrails over its life. *)
(***************************************************************************)
EXTENDS Policy, FiniteSetTheorems, TLAPS

-----------------------------------------------------------------------------
(* What the operators of PolicyRules return.                               *)

\* A nonempty set of numbers has a least one, which First chooses.
LEMMA LeastNumber ==
    ASSUME NEW S \in SUBSET Nat, S # {}
    PROVE  \E m \in S : \A k \in S : m <= k
<1> DEFINE Less == {p \in Nat \X Nat : p[1] < p[2]}
<1> HIDE DEF Less
<1>1. IsWellFoundedOn(Less, Nat)
  BY NatLessThanWellFounded DEF OpToRel, Less
<1>2. PICK m \in S : \A k \in S : ~(<<k, m>> \in Less)
  BY <1>1, WFMin
<1>3. ASSUME NEW k \in S PROVE m <= k
  <2>1. m \in Nat /\ k \in Nat /\ <<k, m>> \notin Less
    BY <1>2
  <2> QED BY <2>1 DEF Less
<1> QED BY <1>2, <1>3

\* A bounded one has a greatest, which the operator's page chooses.
LEMMA GreatestNumber ==
    ASSUME NEW S \in SUBSET Nat, S # {}, NEW b \in Nat, \A k \in S : k <= b
    PROVE  \E m \in S : \A k \in S : k <= m
<1> DEFINE T == {x \in Nat : b - x \in S}
<1>1. PICK s \in S : TRUE
  OBVIOUS
<1>2. b - s \in T
  BY <1>1
<1>3. PICK x \in T : \A y \in T : x <= y
  BY <1>2, LeastNumber
<1>4. \A k \in S : b - k \in T
  OBVIOUS
<1>5. ASSUME NEW k \in S PROVE k <= b - x
  <2>1. x <= b - k
    BY <1>3, <1>4
  <2> QED BY <2>1
<1> QED BY <1>3, <1>5

LEMMA FirstIsIn ==
    ASSUME NEW S \in SUBSET Nat, S # {}
    PROVE  First(S) \in S
  BY LeastNumber DEF First

\* The state every action leaves the case in (STATE_AFTER_ACTION).
LEMMA StateAfterIs ==
    /\ \A a \in WaitActions : StateAfter[a] = "WAITING"
    /\ \A a \in ContactActions : StateAfter[a] = "ACTION_SCHEDULED"
    /\ StateAfter["ESCALATE"] = "HUMAN_REVIEW"
    /\ StateAfter["STOP"] = "STOPPED"
<1> USE DEF StateAfter, ActionSet, WaitActions, ContactActions
<1>1. StateAfter["WAIT"] = "WAITING" /\ StateAfter["WAIT_FOR_NATIVE_RETRY"] = "WAITING"
  OBVIOUS
<1>2. /\ StateAfter["CREATE_PAYMENT_LINK"] = "ACTION_SCHEDULED"
      /\ StateAfter["CONTACT_CUSTOMER"] = "ACTION_SCHEDULED"
      /\ StateAfter["COLLECT_PROMISE_TO_PAY"] = "ACTION_SCHEDULED"
  OBVIOUS
<1>3. StateAfter["ESCALATE"] = "HUMAN_REVIEW" /\ StateAfter["STOP"] = "STOPPED"
  OBVIOUS
<1> HIDE DEF StateAfter
<1> QED BY <1>1, <1>2, <1>3

\* AllActions orders the actions, as the stable sorts start from it.
LEMMA PositionIs ==
    /\ Position("WAIT") = 1
    /\ Position("WAIT_FOR_NATIVE_RETRY") = 2
    /\ Position("CREATE_PAYMENT_LINK") = 3
    /\ Position("CONTACT_CUSTOMER") = 4
    /\ Position("COLLECT_PROMISE_TO_PAY") = 5
    /\ Position("ESCALATE") = 6
    /\ Position("STOP") = 7
<1>1. DOMAIN AllActions = 1..7
  BY DEF AllActions
<1> QED BY <1>1 DEF Position, AllActions

\* Frictions and costs are numbers.
LEMMA RecordFields ==
    ASSUME NEW a \in ActionSet
    PROVE  BaseFriction[a] \in Nat /\ ActionCost[a] \in Nat
  BY DEF ActionSet, WaitActions, ContactActions, BaseFriction, ActionCost

\* Every failure has a category, and every category ranks actions.
LEMMA ClassifyIs ==
    ASSUME NEW f \in Failure
    PROVE  Classify(f) \in Categories
<1> DEFINE hits == {i \in DOMAIN Rules : Applies(f)[i]}
<1>1. DOMAIN Rules = 1..8
  BY DEF Rules
<1>2. \A i \in 1..8 : Rules[i] \in Categories
  BY DEF Rules, Categories, Preference
<1>3. "UNKNOWN" \in Categories
  BY DEF Categories, Preference
<1>4. hits # {} => First(hits) \in hits
  BY <1>1, FirstIsIn
<1> QED BY <1>1, <1>2, <1>3, <1>4 DEF Classify

LEMMA PreferenceIs ==
    ASSUME NEW c \in Categories
    PROVE  /\ DOMAIN Preference[c] \in SUBSET Nat
           /\ \A i \in DOMAIN Preference[c] : Preference[c][i] \in ActionSet
  BY DEF Categories, Preference, ActionSet, WaitActions, ContactActions

-----------------------------------------------------------------------------
(* What the policies choose.                                               *)

\* The baseline obeys the guardrails or ends automation, and stops when told.
LEMMA BaselineIs ==
    ASSUME NEW c \in Categories, NEW h, NEW amt, NEW count, NEW t
    PROVE  LET a == BaselineChoice(c, h, amt, count, t)
           IN /\ a \in ActionSet
              /\ a \in {"STOP", "ESCALATE"} \/ Allowed(a, h, amt, t)
              /\ MustStop(count) => a = "STOP"
<1> DEFINE ranked == Preference[c]
           open   == {i \in DOMAIN ranked : Allowed(ranked[i], h, amt, t)}
<1>1. open # {} => First(open) \in open
  BY PreferenceIs, FirstIsIn
<1>2. {"STOP", "ESCALATE"} \subseteq ActionSet
  BY DEF ActionSet
<1> HIDE DEF First
<1> QED BY <1>1, <1>2, PreferenceIs DEF BaselineChoice

Ahead(x, b, u, e) == \/ u[x] > u[b]
                     \/ u[x] = u[b] /\ (e[x] > e[b] \/ (e[x] = e[b] /\ Position(x) <= Position(b)))

\* Two stable sorts leave one action ahead of all others: Ahead is total and
\* transitive on the seven actions.
LEMMA TopExists ==
    ASSUME NEW u \in [ActionSet -> Int], NEW e \in [ActionSet -> Int],
           NEW S \in SUBSET ActionSet, S # {}
    PROVE  \E x \in S : \A b \in S : Ahead(x, b, u, e)
<1> DEFINE R(x, b) == Ahead(x, b, u, e)
           Top(T) == T = {} \/ \E x \in T : \A b \in T : R(x, b)
<1>1. \A x \in ActionSet : Position(x) \in Int
  BY PositionIs DEF ActionSet, WaitActions, ContactActions
<1>2. \A x, y \in ActionSet : R(x, y) \/ R(y, x)
  BY <1>1 DEF Ahead
<1>3. \A x, y, z \in ActionSet : R(x, y) /\ R(y, z) => R(x, z)
  BY <1>1 DEF Ahead
<1> HIDE DEF R
<1>4. ASSUME NEW T \in SUBSET ActionSet, Top(T), NEW a \in ActionSet
      PROVE  Top(T \cup {a})
  <2>1. CASE T = {}
    BY <1>2, <2>1
  <2>2. CASE T # {}
    <3>1. PICK x \in T : \A b \in T : R(x, b)
      BY <1>4, <2>2
    <3>2. CASE R(x, a)
      BY <3>1, <3>2
    <3>3. CASE R(a, x)
      <4>1. \A b \in T : R(a, b)
        BY <1>3, <3>1, <3>3
      <4>2. R(a, a)
        BY <1>2
      <4> QED BY <4>1, <4>2
    <3> QED BY <1>2, <3>2, <3>3
  <2> QED BY <2>1, <2>2
<1> HIDE DEF Top
<1>5. ASSUME NEW T \in SUBSET ActionSet, Top(S \cap T), NEW a \in ActionSet
      PROVE  Top(S \cap (T \cup {a}))
  <2>1. CASE a \in S
    <3>1. S \cap (T \cup {a}) = (S \cap T) \cup {a}
      BY <2>1
    <3> QED BY <1>4, <1>5, <3>1
  <2>2. CASE a \notin S
    <3>1. S \cap (T \cup {a}) = S \cap T
      BY <2>2
    <3> QED BY <1>5, <3>1
  <2> QED BY <2>1, <2>2
<1>6. Top(S \cap {})
  BY DEF Top
<1>7. {"WAIT", "WAIT_FOR_NATIVE_RETRY", "CREATE_PAYMENT_LINK", "CONTACT_CUSTOMER",
       "COLLECT_PROMISE_TO_PAY", "ESCALATE", "STOP"} = ActionSet
  BY DEF ActionSet, WaitActions, ContactActions
<1>8. Top(S \cap ({"WAIT", "WAIT_FOR_NATIVE_RETRY"}))
  <2>1. Top(S \cap ({} \cup {"WAIT"}))
    BY <1>5, <1>6, <1>7
  <2>2. Top(S \cap (({} \cup {"WAIT"}) \cup {"WAIT_FOR_NATIVE_RETRY"}))
    BY <1>5, <1>7, <2>1
  <2>3. ({} \cup {"WAIT"}) \cup {"WAIT_FOR_NATIVE_RETRY"} = {"WAIT", "WAIT_FOR_NATIVE_RETRY"}
    OBVIOUS
  <2> QED BY <2>2, <2>3
<1>9. Top(S \cap ({"WAIT", "WAIT_FOR_NATIVE_RETRY"} \cup {"CREATE_PAYMENT_LINK"}))
  BY <1>5, <1>7, <1>8
<1>10. Top(S \cap (({"WAIT", "WAIT_FOR_NATIVE_RETRY"} \cup {"CREATE_PAYMENT_LINK"})
                  \cup {"CONTACT_CUSTOMER"}))
  BY <1>5, <1>7, <1>9
<1>11. Top(S \cap ((({"WAIT", "WAIT_FOR_NATIVE_RETRY"} \cup {"CREATE_PAYMENT_LINK"})
                  \cup {"CONTACT_CUSTOMER"}) \cup {"COLLECT_PROMISE_TO_PAY"}))
  BY <1>5, <1>7, <1>10
<1>12. Top(S \cap (((({"WAIT", "WAIT_FOR_NATIVE_RETRY"} \cup {"CREATE_PAYMENT_LINK"})
                  \cup {"CONTACT_CUSTOMER"}) \cup {"COLLECT_PROMISE_TO_PAY"}) \cup {"ESCALATE"}))
  BY <1>5, <1>7, <1>11
<1>13. Top(S \cap ((((({"WAIT", "WAIT_FOR_NATIVE_RETRY"} \cup {"CREATE_PAYMENT_LINK"})
                  \cup {"CONTACT_CUSTOMER"}) \cup {"COLLECT_PROMISE_TO_PAY"}) \cup {"ESCALATE"})
                  \cup {"STOP"}))
  BY <1>5, <1>7, <1>12
<1>14. S \cap ((((({"WAIT", "WAIT_FOR_NATIVE_RETRY"} \cup {"CREATE_PAYMENT_LINK"})
                  \cup {"CONTACT_CUSTOMER"}) \cup {"COLLECT_PROMISE_TO_PAY"}) \cup {"ESCALATE"})
                  \cup {"STOP"}) = S
  BY <1>7
<1>15. Top(S)
  BY <1>13, <1>14
<1> QED BY <1>15 DEF Top, R

\* Utility is the expected value less the weighted friction.
LEMMA UtilityIs ==
    ASSUME NEW a \in ActionSet, NEW p \in [ActionSet -> 0..100], NEW amt \in Nat,
           NEW h, IsFiniteSet(Contacts(h)), NEW w \in Nat
    PROVE  /\ ExpectedValue(a, p, amt) \in Int
           /\ Friction(a, h) \in Nat
           /\ Utility(a, p, amt, h, w) = ExpectedValue(a, p, amt) - 100 * w * Friction(a, h)
           /\ Utility(a, p, amt, h, w) \in Int
<1>1. Probability(a, p) \in Nat
  BY DEF Probability
<1>2. Probability(a, p) * amt \in Nat
  BY <1>1
<1>3. ExpectedValue(a, p, amt) \in Int
  BY <1>2, RecordFields DEF ExpectedValue
<1>4. ContactIncrement * Cardinality(Contacts(h)) \in Nat
  BY FS_CardinalityType DEF ContactIncrement
<1>5. Friction(a, h) \in Nat
  BY <1>4, RecordFields DEF Friction
<1>6. 100 * w * Friction(a, h) \in Nat
  BY <1>5
<1> QED BY <1>3, <1>5, <1>6 DEF Utility

\* No action of the set has more utility than the one ranked first.
LEMMA TopRankedIs ==
    ASSUME NEW S \in SUBSET ActionSet, S # {}, NEW p \in [ActionSet -> 0..100],
           NEW amt \in Nat, NEW h, IsFiniteSet(Contacts(h)), NEW w \in Nat
    PROVE  LET x == TopRanked(S, p, amt, h, w)
           IN x \in S /\ \A b \in S : Utility(b, p, amt, h, w) <= Utility(x, p, amt, h, w)
<1> DEFINE u == [a \in ActionSet |-> Utility(a, p, amt, h, w)]
           e == [a \in ActionSet |-> ExpectedValue(a, p, amt)]
<1>1. u \in [ActionSet -> Int] /\ e \in [ActionSet -> Int]
  BY UtilityIs
<1>2. PICK y \in S : \A b \in S : Ahead(y, b, u, e)
  BY <1>1, TopExists
<1>3. \A x, b \in S : Before(x, b, p, amt, h, w) <=> Ahead(x, b, u, e)
  BY DEF Before, Ahead
<1>4. \E x \in S : \A b \in S : Before(x, b, p, amt, h, w)
  BY <1>2, <1>3
<1> DEFINE x == TopRanked(S, p, amt, h, w)
<1>5. x \in S /\ \A b \in S : Before(x, b, p, amt, h, w)
  BY <1>4 DEF TopRanked
<1>6. \A b \in S : Ahead(x, b, u, e)
  BY <1>3, <1>5
<1> HIDE DEF x, u, e
<1>7. ASSUME NEW b \in S PROVE u[b] <= u[x]
  <2>1. Ahead(x, b, u, e) /\ x \in ActionSet /\ b \in ActionSet
    BY <1>5, <1>6
  <2>2. u[x] \in Int /\ u[b] \in Int
    BY <1>1, <2>1
  <2> QED BY <2>1, <2>2 DEF Ahead
<1>8. \A b \in S : u[b] = Utility(b, p, amt, h, w)
  BY DEF u
<1>9. x \in S /\ \A b \in S : Utility(b, p, amt, h, w) <= Utility(x, p, amt, h, w)
  BY <1>5, <1>7, <1>8
<1> QED BY <1>9 DEF x

\* The adaptive policy obeys the guardrails; ESCALATE is always open to it.
LEMMA AdaptiveIs ==
    ASSUME NEW c, NEW isLinked, NEW h, IsFiniteSet(Contacts(h)), NEW amt \in Nat, NEW t,
           NEW p \in [ActionSet -> 0..100], NEW w \in Nat
    PROVE  LET a == AdaptiveChoice(c, isLinked, h, amt, t, p, w)
           IN a \in ActionSet /\ Allowed(a, h, amt, t)
<1> DEFINE open == {a \in ActionSet : Allowed(a, h, amt, t)}
           F == Feasible(open, c, isLinked)
<1>1. "ESCALATE" \in open
  BY DEF Allowed, ActionSet, WaitActions, ContactActions
<1>2. F \subseteq open /\ F # {}
  BY <1>1 DEF Feasible
<1>3. TopRanked(F, p, amt, h, w) \in F
  BY <1>2, TopRankedIs
<1> HIDE DEF F
<1> QED BY <1>2, <1>3 DEF AdaptiveChoice, F

-----------------------------------------------------------------------------
(* Histories are sets of records; the rows behind them are counted.        *)

Entry(rs, i) == [n |-> i, type |-> rs[i].type, status |-> rs[i].status, at |-> rs[i].at]

\* The rows that _contacts_for_case counts.
CountedRows(rs) == {i \in DOMAIN rs : /\ rs[i].type \in ContactActions
                                      /\ rs[i].status \in {"SCHEDULED", "EXECUTED"}}

\* Sets of rows can be counted.
LEMMA RowsAreFinite ==
    ASSUME NEW rs \in Seq(Row), NEW I \in SUBSET (DOMAIN rs)
    PROVE  IsFiniteSet(I) /\ Cardinality(I) \in Nat
<1>1. DOMAIN rs = 1..Len(rs) /\ Len(rs) \in Nat
  OBVIOUS
<1>2. IsFiniteSet(DOMAIN rs)
  BY <1>1, FS_Interval
<1> QED BY <1>2, FS_Subset, FS_CardinalityType

LEMMA RowFields ==
    ASSUME NEW rs \in Seq(Row)
    PROVE  /\ Len(rs) \in Nat /\ DOMAIN rs = 1..Len(rs) /\ DOMAIN rs \subseteq Nat
           /\ \A i \in DOMAIN rs : /\ rs[i] \in Row /\ rs[i].at \in Nat
                                   /\ rs[i].type \in ActionSet /\ rs[i].status \in Statuses
<1>1. Len(rs) \in Nat /\ DOMAIN rs = 1..Len(rs)
  OBVIOUS
<1>2. \A r \in Row : r.at \in Nat /\ r.type \in ActionSet /\ r.status \in Statuses
  BY PolicyAssumption DEF Row
<1>3. \A i \in 1..Len(rs) : rs[i] \in Row
  OBVIOUS
<1> QED BY <1>1, <1>2, <1>3

\* A history has one record for each row it is taken from.
LEMMA EntriesCount ==
    ASSUME NEW rs \in Seq(Row), NEW I \in SUBSET (DOMAIN rs)
    PROVE  /\ IsFiniteSet({Entry(rs, i) : i \in I})
           /\ Cardinality({Entry(rs, i) : i \in I}) = Cardinality(I)
<1> DEFINE T == {Entry(rs, i) : i \in I}
           f == [i \in I |-> Entry(rs, i)]
<1>1. \A i, j \in I : Entry(rs, i) = Entry(rs, j) => i = j
  BY DEF Entry
<1>2. f \in Bijection(I, T)
  BY <1>1 DEF Bijection, Injection, Surjection, IsInjective
<1>3. ExistsBijection(I, T)
  BY <1>2 DEF ExistsBijection
<1> HIDE DEF T
<1>4. IsFiniteSet(T) /\ Cardinality(T) = Cardinality(I)
  BY <1>3, RowsAreFinite, FS_Bijection
<1> QED BY <1>4 DEF T

\* So what the guardrails count in a history can be counted in the rows.
LEMMA HistoryIs ==
    ASSUME NEW rs \in Seq(Row), NEW t \in Nat
    PROVE  /\ Contacts(History(rs)) = {Entry(rs, i) : i \in CountedRows(rs)}
           /\ Recent(History(rs), t) =
                  {Entry(rs, i) : i \in {k \in CountedRows(rs) : rs[k].at >= t - Window}}
           /\ IsFiniteSet(Contacts(History(rs)))
           /\ Cardinality(Contacts(History(rs))) = Cardinality(CountedRows(rs))
           /\ Cardinality(Recent(History(rs), t)) =
                  Cardinality({k \in CountedRows(rs) : rs[k].at >= t - Window})
<1>1. History(rs) = {Entry(rs, i) : i \in DOMAIN rs}
  BY DEF History, Entry
<1>2. Contacts(History(rs)) = {Entry(rs, i) : i \in CountedRows(rs)}
  BY <1>1 DEF Contacts, CountedRows, Entry
<1>3. Recent(History(rs), t) =
          {Entry(rs, i) : i \in {k \in CountedRows(rs) : rs[k].at >= t - Window}}
  BY <1>2 DEF Recent, Entry
<1>4. CountedRows(rs) \subseteq DOMAIN rs
  BY DEF CountedRows
<1> QED BY <1>2, <1>3, <1>4, EntriesCount

\* What the guardrails promise of the rows when they let an action pass.
LEMMA AllowedContact ==
    ASSUME NEW rs \in Seq(Row), NEW a \in ContactActions, NEW amt, NEW t \in Nat,
           Allowed(a, History(rs), amt, t)
    PROVE  /\ amt <= MaxAutomatedAmount
           /\ Cardinality(CountedRows(rs)) < MaxContactsPerCase
           /\ Cardinality({k \in CountedRows(rs) : rs[k].at >= t - Window}) < MaxContactsPerWindow
           /\ \A k \in CountedRows(rs) : t >= rs[k].at + Cooldown
<1>1. \A r \in {Entry(rs, i) : i \in CountedRows(rs)} : t >= r.at + Cooldown
  BY HistoryIs DEF Allowed
<1>2. ASSUME NEW k \in CountedRows(rs) PROVE t >= rs[k].at + Cooldown
  <2>1. Entry(rs, k).at = rs[k].at
    BY DEF Entry
  <2> QED BY <1>1, <2>1
<1> QED BY <1>2, HistoryIs DEF Allowed

\* A wait the guardrails let pass has not been taken.
LEMMA AllowedWait ==
    ASSUME NEW rs \in Seq(Row), NEW a \in WaitActions, NEW amt, NEW t,
           Allowed(a, History(rs), amt, t)
    PROVE  \A i \in DOMAIN rs : rs[i].type = a => rs[i].status # "EXECUTED"
<1> SUFFICES ASSUME NEW i \in DOMAIN rs, rs[i].type = a, rs[i].status = "EXECUTED"
             PROVE  FALSE
  OBVIOUS
<1>1. Entry(rs, i) \in History(rs)
  BY DEF History, Entry
<1>2. Entry(rs, i).type = a /\ Entry(rs, i).status = "EXECUTED"
  BY DEF Entry
<1> QED BY <1>1, <1>2 DEF Allowed, WaitedBefore

-----------------------------------------------------------------------------
(* The inductive invariant.                                                *)

\* While work is pending, it is the latest row that the state is about.
LatestIsPending ==
    state \in {"WAITING", "ACTION_SCHEDULED"} =>
        /\ Len(rows) > 0
        /\ rows[Len(rows)].status \in {"SCHEDULED", "EXECUTING"}
        /\ StateAfter[rows[Len(rows)].type] = state

\* Rows are created in the order of time.
InOrder == \A i \in DOMAIN rows : /\ rows[i].at <= now
                                  /\ \A j \in DOMAIN rows : i < j => rows[i].at <= rows[j].at

Waited(rs, i) == rs[i].type \in WaitActions /\ rs[i].status = "EXECUTED"
WaitsDiffer(rs) == \A i, j \in DOMAIN rs :
                      Waited(rs, i) /\ Waited(rs, j) /\ rs[i].type = rs[j].type => i = j

\* A wait taken is neither taken again nor pending.
WaitsAreNew ==
    /\ WaitsDiffer(rows)
    /\ state = "WAITING" =>
          \A i \in DOMAIN rows : Waited(rows, i) => rows[i].type # rows[Len(rows)].type

\* The contacts that count, or will if the one in progress completes.
Outreach(rs) == {i \in DOMAIN rs :
                    /\ rs[i].type \in ContactActions
                    /\ \/ rs[i].status \in {"SCHEDULED", "EXECUTED"}
                       \/ rs[i].status = "EXECUTING" /\ i = Len(rs)}

\* The guardrails over the rows I of rs.
InWindow(rs, I, i) == {k \in I : rs[k].at \in rs[i].at - Window .. rs[i].at}
Guarded(rs, I) ==
    /\ Cardinality(I) <= MaxContactsPerCase
    /\ \A i \in I : Cardinality(InWindow(rs, I, i)) <= MaxContactsPerWindow
    /\ \A i, k \in I : i < k => rs[k].at >= rs[i].at + Cooldown

\* The contacts of rs still to come, and whether the amount allows them.
DueRows(rs) == {i \in Outreach(rs) : rs[i].status \in {"SCHEDULED", "EXECUTING"}}
ScheduledContacts(rs) == {i \in DOMAIN rs : rs[i].type \in ContactActions /\ rs[i].status = "SCHEDULED"}
AmountFits == DueRows(rows) # {} => amount <= MaxAutomatedAmount

\* The executor is only called for contacts.
OnlyContactsPerformed(rs) == \A i \in DOMAIN rs : rs[i].performed => rs[i].type \in ContactActions

IInv == /\ OnlyContactsPerformed(rows)
        /\ TypeOK /\ NeverStranded /\ LatestIsPending /\ InOrder /\ WaitsAreNew
        /\ Guarded(rows, Outreach(rows)) /\ AmountFits
        /\ StopsAtMostOneLate

-----------------------------------------------------------------------------
(* The guardrails over fewer rows, and over one row more.                  *)

\* Fewer rows stay within the guardrails, whatever else the rows become.
LEMMA GuardedShrinks ==
    ASSUME NEW rs \in Seq(Row), NEW rs2 \in Seq(Row), NEW I \in SUBSET (DOMAIN rs),
           NEW J \in SUBSET I, Guarded(rs, I), \A i \in I : rs2[i].at = rs[i].at
    PROVE  Guarded(rs2, J)
<1>1. Cardinality(J) <= MaxContactsPerCase
  <2>1. IsFiniteSet(I) /\ Cardinality(I) \in Nat /\ Cardinality(J) \in Nat
    BY RowsAreFinite
  <2>2. Cardinality(J) <= Cardinality(I)
    BY <2>1, FS_Subset
  <2> QED BY <2>1, <2>2, GuardrailAssumption DEF Guarded
<1>2. ASSUME NEW i \in J PROVE Cardinality(InWindow(rs2, J, i)) <= MaxContactsPerWindow
  <2>1. InWindow(rs2, J, i) \subseteq InWindow(rs, I, i) /\ InWindow(rs, I, i) \in SUBSET (DOMAIN rs)
    BY DEF InWindow
  <2> HIDE DEF InWindow
  <2>2. /\ IsFiniteSet(InWindow(rs, I, i)) /\ Cardinality(InWindow(rs, I, i)) \in Nat
        /\ Cardinality(InWindow(rs2, J, i)) \in Nat
    BY <2>1, RowsAreFinite
  <2>3. Cardinality(InWindow(rs2, J, i)) <= Cardinality(InWindow(rs, I, i))
    BY <2>1, <2>2, FS_Subset
  <2>4. Cardinality(InWindow(rs, I, i)) <= MaxContactsPerWindow
    BY DEF Guarded
  <2> QED BY <2>2, <2>3, <2>4, GuardrailAssumption
<1>3. \A i, k \in J : i < k => rs2[k].at >= rs2[i].at + Cooldown
  BY DEF Guarded
<1> QED BY <1>1, <1>2, <1>3 DEF Guarded

\* A row created now, after rows the guardrails allowed it to follow.
LEMMA GuardedGrows ==
    ASSUME NEW t \in Nat, NEW rs \in Seq(Row), NEW n \in DOMAIN rs,
           NEW I \in SUBSET (DOMAIN rs \ {n}), Guarded(rs, I),
           rs[n].at = t, \A i \in I : i < n /\ rs[i].at <= t,
           Cardinality(I) < MaxContactsPerCase,
           Cardinality({k \in I : rs[k].at >= t - Window}) < MaxContactsPerWindow,
           \A k \in I : t >= rs[k].at + Cooldown
    PROVE  Guarded(rs, I \cup {n})
<1>0. DOMAIN rs \subseteq Nat /\ \A i \in DOMAIN rs : rs[i] \in Row /\ rs[i].at \in Nat
  BY RowFields
<1>1. Cardinality(I \cup {n}) <= MaxContactsPerCase
  <2>1. IsFiniteSet(I) /\ Cardinality(I) \in Nat
    BY RowsAreFinite
  <2>2. Cardinality(I \cup {n}) = Cardinality(I) + 1
    BY <2>1, FS_AddElement
  <2> QED BY <2>1, <2>2, GuardrailAssumption
<1> DEFINE R == {k \in I : rs[k].at >= t - Window}
<1>2. Cardinality(R \cup {n}) <= MaxContactsPerWindow
  <2>1. IsFiniteSet(R) /\ Cardinality(R) \in Nat
    BY RowsAreFinite
  <2>2. Cardinality(R \cup {n}) = Cardinality(R) + 1
    BY <2>1, FS_AddElement
  <2>3. Cardinality(R) < MaxContactsPerWindow
    OBVIOUS
  <2> HIDE DEF R
  <2> QED BY <2>1, <2>2, <2>3, GuardrailAssumption
<1>3. ASSUME NEW i \in I \cup {n}
      PROVE  Cardinality(InWindow(rs, I \cup {n}, i)) <= MaxContactsPerWindow
  <2>1. CASE rs[i].at = t
    <3>1. InWindow(rs, I \cup {n}, i) = R \cup {n}
      BY <1>0, <2>1, GuardrailAssumption DEF InWindow
    <3> QED BY <1>2, <3>1
  <2>2. CASE rs[i].at # t
    <3>1. InWindow(rs, I \cup {n}, i) = InWindow(rs, I, i) /\ i \in I
      BY <1>0, <2>2, GuardrailAssumption DEF InWindow
    <3> QED BY <3>1 DEF Guarded
  <2> QED BY <2>1, <2>2
<1>4. \A i, k \in I \cup {n} : i < k => rs[k].at >= rs[i].at + Cooldown
  <2>1. \A i \in I : i < n /\ i \in Nat /\ n \in Nat
    BY <1>0
  <2> QED BY <1>0, <2>1 DEF Guarded
<1> QED BY <1>1, <1>3, <1>4 DEF Guarded

-----------------------------------------------------------------------------
(* What a decision does, in whatever mode and however the model fails.     *)

\* The row of chosen is recorded: the guardrails allow it, of the rows they
\* see, and it is STOP if they are told of too many attempts.
Decided(chosen, rs, sn, ct, cat, after) ==
    /\ Record(rs, chosen, cat, after)
    /\ chosen \in {"STOP", "ESCALATE"} \/ Allowed(chosen, History(sn), amount', now)
    /\ MustStop(ct) => chosen = "STOP"

\* A baseline decision, in any mode, records what BaselineChoice says.
LEMMA BaselineDecides ==
    ASSUME NEW rs, NEW seen, NEW count, NEW cat \in Categories, NEW after,
           Baseline("DIAGNOSED", rs, seen, count, cat, after)
    PROVE  \E chosen \in ActionSet : Decided(chosen, rs, seen, count, cat, after)
<1> DEFINE chosen == BaselineChoice(cat, History(seen), amount', count, now)
<1>1. Record(rs, chosen, cat, after)
  BY DEF Baseline
<1>2. /\ chosen \in ActionSet
      /\ chosen \in {"STOP", "ESCALATE"} \/ Allowed(chosen, History(seen), amount', now)
      /\ MustStop(count) => chosen = "STOP"
  BY BaselineIs
<1> HIDE DEF chosen
<1> QED BY <1>1, <1>2 DEF Decided

\* Whoever decides records one action that the guardrails allow, of the rows
\* seen or of the rows written, unless automation ends with it.
LEMMA DecisionIs ==
    ASSUME TypeOK, amount' \in Amounts, NEW rs, NEW seen \in Seq(Row), NEW count, NEW cat \in Categories, NEW after,
           DecideForCase(rs, seen, count, cat, after)
    PROVE  \E chosen \in ActionSet, sn \in {seen, rs}, ct \in {count, after} :
              Decided(chosen, rs, sn, ct, cat, after)
<1>1. mode \in {"baseline", "shadow", "adaptive"} /\ amount' \in Nat /\ weight \in Nat /\ now \in Nat
  BY PolicyAssumption DEF TypeOK
<1>2. CASE mode = "baseline"
  <2>1. Baseline("DIAGNOSED", rs, seen, count, cat, after)
    BY <1>2 DEF DecideForCase
  <2> QED BY <2>1, BaselineDecides
<1>3. CASE mode = "shadow"
  <2>1. Shadow(rs, seen, count, cat, after)
    BY <1>3 DEF DecideForCase
  <2>2. \/ Baseline("DIAGNOSED", rs, seen, count, cat, after)
        \/ Baseline("DIAGNOSED", rs, rs, after, cat, after)
    BY <2>1 DEF Shadow
  <2> QED BY <2>2, BaselineDecides
<1>4. CASE mode = "adaptive"
  <2>1. Adaptive(rs, seen, count, cat, after)
    BY <1>4 DEF DecideForCase
  <2>2. CASE MustStop(count)
    <3>1. Record(rs, "STOP", cat, after) /\ "STOP" \in ActionSet
      BY <2>1, <2>2 DEF Adaptive, ActionSet
    <3>2. Decided("STOP", rs, seen, count, cat, after)
      BY <3>1 DEF Decided
    <3> QED BY <3>1, <3>2
  <2>3. CASE ~MustStop(count)
    <3>1. CASE Baseline(Restored("DECISION_READY"), rs, seen, count, cat, after)
      <4>1. Baseline("DIAGNOSED", rs, seen, count, cat, after)
        BY <3>1 DEF Restored
      <4> QED BY <4>1, BaselineDecides
    <3>2. ASSUME NEW f \in Forecasts,
                 Record(rs, AdaptiveChoice(cat, linked, History(seen), amount', now, f, weight),
                        cat, after)
          PROVE  \E chosen \in ActionSet : Decided(chosen, rs, seen, count, cat, after)
      <4> DEFINE chosen == AdaptiveChoice(cat, linked, History(seen), amount', now, f, weight)
      <4>1. f \in [ActionSet -> 0..100] /\ IsFiniteSet(Contacts(History(seen)))
        BY <1>1, HistoryIs, PolicyAssumption
      <4>2. chosen \in ActionSet /\ Allowed(chosen, History(seen), amount', now)
        BY <1>1, <4>1, AdaptiveIs
      <4>3. Record(rs, chosen, cat, after)
        BY <3>2
      <4> HIDE DEF chosen
      <4> QED BY <2>3, <4>2, <4>3 DEF Decided
    <3> QED BY <2>1, <2>3, <3>1, <3>2 DEF Adaptive
  <2> QED BY <2>2, <2>3
<1> QED BY <1>1, <1>2, <1>3, <1>4

\* What a transaction may have written over the rows when it decides.
Written(rs) ==
    /\ rs \in Seq(Row) /\ Len(rs) = Len(rows)
    /\ \A i \in DOMAIN rs : /\ rs[i].type = rows[i].type /\ rs[i].at = rows[i].at
                            /\ rs[i].type \in {"ESCALATE", "STOP"} => rs[i].status = "EXECUTED"
    /\ CountedRows(rs) \subseteq Outreach(rows)
    /\ WaitsDiffer(rs) /\ OnlyContactsPerformed(rs)

\* Whatever counts in rs, the policy's queries find.
Covers(sn, rs) ==
    /\ sn \in Seq(Row) /\ Len(sn) = Len(rs)
    /\ \A i \in DOMAIN rs : /\ sn[i].type = rs[i].type /\ sn[i].at = rs[i].at
                            /\ rs[i].status \in {"SCHEDULED", "EXECUTED"} => sn[i].status = rs[i].status

\* A decision keeps the invariant: the row that is carried out while it is
\* made is not seen, but it is no longer the latest one either.
LEMMA RecordKeeps ==
    ASSUME IInv, NEW rs, Written(rs), NEW sn, Covers(sn, rs),
           NEW chosen \in ActionSet, NEW ct \in Nat, NEW cat \in Categories,
           NEW after \in 0..MaxFailures, after <= ct + 1,
           Decided(chosen, rs, sn, ct, cat, after),
           absorbed' \in 0..MaxFailures, UNCHANGED <<config, now>>,
           amount' \in Amounts, ScheduledContacts(rs) # {} => amount' <= MaxAutomatedAmount
    PROVE  IInv'
<1> DEFINE new == [type |-> chosen, at |-> now, performed |-> FALSE, status |-> FirstStatus(chosen)]
           n == Len(rs) + 1
<1>1. /\ Len(rs) < MaxRows /\ rows' = Append(rs, new) /\ state' = StateAfter[chosen]
      /\ category' = cat /\ last' = [chosen |-> chosen, after |-> after]
  BY DEF Decided, Record
<1>2. rs \in Seq(Row) /\ Len(rs) \in Nat /\ DOMAIN rs = 1..Len(rs) /\ n \in Nat
  BY RowFields DEF Written
<1>3. /\ now \in 0..MaxTime /\ now \in Nat /\ rows \in Seq(Row)
      /\ DOMAIN rows = 1..Len(rows) /\ Len(rows) = Len(rs)
  BY <1>2, RowFields, PolicyAssumption DEF IInv, TypeOK, Written
<1>4. new \in Row
  <2>1. FirstStatus(chosen) \in Statuses
    BY DEF FirstStatus, Statuses
  <2> QED BY <1>3, <2>1 DEF Row
<1>5. /\ rows' \in Seq(Row) /\ Len(rows') = n /\ DOMAIN rows' = 1..n /\ rows'[n] = new
      /\ \A i \in 1..Len(rs) : rows'[i] = rs[i]
  <2> HIDE DEF new
  <2> QED BY <1>1, <1>2, <1>4
<1>6. new.type = chosen /\ new.at = now /\ new.status = FirstStatus(chosen)
  OBVIOUS
<1> HIDE DEF new
<1>7. /\ chosen \in {"ESCALATE", "STOP"} => new.status = "EXECUTED" /\ chosen \notin ContactActions \cup WaitActions
      /\ chosen \in ContactActions \cup WaitActions => new.status = "SCHEDULED"
      /\ chosen \in ContactActions \/ chosen \in WaitActions \/ chosen \in {"ESCALATE", "STOP"}
      /\ ~(chosen \in ContactActions /\ chosen \in WaitActions)
  BY <1>6 DEF FirstStatus, ContactActions, WaitActions, ActionSet
<1>8. /\ state' \in {"WAITING", "ACTION_SCHEDULED", "HUMAN_REVIEW", "STOPPED"}
      /\ state' \in {"WAITING", "ACTION_SCHEDULED"} => chosen \in ContactActions \cup WaitActions
      /\ state' = "WAITING" => chosen \in WaitActions
  BY <1>1, <1>7, StateAfterIs
<1>9. TypeOK'
  <2>1. /\ mode' \in Modes /\ amount' \in Amounts /\ weight' \in Weights /\ linked' \in BOOLEAN
        /\ now' \in 0..MaxTime
    BY <1>3 DEF config, IInv, TypeOK
  <2>2. state' \in CaseStates /\ category' \in Categories /\ absorbed' \in 0..MaxFailures
    BY <1>1, <1>8 DEF CaseStates
  <2>3. last' \in Decision
    BY <1>1 DEF Decision
  <2>4. Len(rows') <= MaxRows
    BY <1>1, <1>2, <1>5, PolicyAssumption
  <2>5. \A i \in DOMAIN rows' : rows'[i].type \in {"ESCALATE", "STOP"} => rows'[i].status = "EXECUTED"
    BY <1>2, <1>5, <1>6, <1>7 DEF Written
  <2> QED BY <1>5, <2>1, <2>2, <2>3, <2>4, <2>5 DEF TypeOK
<1>10. NeverStranded'
  BY <1>8 DEF NeverStranded
<1>11. LatestIsPending'
  BY <1>1, <1>2, <1>5, <1>6, <1>7, <1>8 DEF LatestIsPending
<1>12. InOrder'
  <2>1. \A i \in 1..Len(rs) : rs[i].at \in Nat /\ rs[i].at = rows[i].at
    BY <1>2, RowFields DEF Written
  <2>2. \A i \in 1..Len(rs) : rs[i].at <= now /\ \A j \in 1..Len(rs) : i < j => rs[i].at <= rs[j].at
    BY <1>3, <2>1 DEF IInv, InOrder
  <2>3. now' = now
    BY DEF config
  <2>4. \A i \in 1..n : rows'[i].at = IF i = n THEN now ELSE rs[i].at
    BY <1>2, <1>5, <1>6
  <2>5. \A i \in 1..n : i = n \/ i \in 1..Len(rs)
    BY <1>2
  <2> HIDE DEF n
  <2>6. \A i \in 1..n : rows'[i].at <= now /\ \A j \in 1..n : i < j => rows'[i].at <= rows'[j].at
    BY <1>2, <1>3, <2>1, <2>2, <2>4, <2>5
  <2> QED BY <1>5, <2>3, <2>6 DEF InOrder
<1>13. chosen \in WaitActions => \A i \in 1..Len(rs) : Waited(rs, i) => rs[i].type # chosen
  <2> SUFFICES ASSUME chosen \in WaitActions, NEW i \in 1..Len(rs), Waited(rs, i), rs[i].type = chosen
               PROVE  FALSE
    OBVIOUS
  <2>1. Allowed(chosen, History(sn), amount', now) /\ sn \in Seq(Row)
    BY <1>7 DEF Decided, Covers
  <2>2. i \in DOMAIN sn /\ sn[i].type = chosen /\ sn[i].status = "EXECUTED"
    BY <1>2, <2>1 DEF Covers, Waited
  <2> QED BY <2>1, <2>2, AllowedWait
<1>14. WaitsAreNew'
  <2>1. ~Waited(rows', n)
    BY <1>5, <1>6, <1>7 DEF Waited
  <2>2. \A i \in 1..n : Waited(rows', i) => i \in 1..Len(rs) /\ rows'[i] = rs[i] /\ Waited(rs, i)
    BY <1>2, <1>5, <2>1 DEF Waited
  <2>3. WaitsDiffer(rows')
    BY <1>2, <1>5, <2>2 DEF WaitsDiffer, Written
  <2>4. state' = "WAITING" =>
           \A i \in DOMAIN rows' : Waited(rows', i) => rows'[i].type # rows'[Len(rows')].type
    BY <1>5, <1>6, <1>8, <1>13, <2>2
  <2> QED BY <2>3, <2>4 DEF WaitsAreNew
<1>15. Guarded(rows', Outreach(rows'))
  <2> DEFINE C == CountedRows(rs)
  <2>2. C \subseteq Outreach(rows) /\ Outreach(rows) \subseteq DOMAIN rows /\ C \subseteq DOMAIN rs
    BY DEF Written, CountedRows, Outreach
  <2>3. \A i \in Outreach(rows) : rows'[i].at = rows[i].at
    BY <1>2, <1>3, <1>5, <2>2 DEF Written
  <2>4. Guarded(rows', C)
    <3> HIDE DEF C, n
    <3> QED BY <1>3, <1>5, <2>2, <2>3, GuardedShrinks DEF IInv
  <2>5. Outreach(rows') \subseteq C \cup {n}
    BY <1>2, <1>5 DEF Outreach, CountedRows
  <2>6. CASE chosen \in ContactActions
    <3>1. Allowed(chosen, History(sn), amount', now) /\ sn \in Seq(Row)
      BY <1>7, <2>6 DEF Decided, Covers
    <3>2. C \subseteq CountedRows(sn) /\ \A i \in C : sn[i].at = rs[i].at
      BY <1>2 DEF Covers, CountedRows
    <3>3. CountedRows(sn) \subseteq DOMAIN sn
      BY DEF CountedRows
    <3>4. /\ Cardinality(CountedRows(sn)) < MaxContactsPerCase
          /\ Cardinality({k \in CountedRows(sn) : sn[k].at >= now - Window}) < MaxContactsPerWindow
          /\ \A k \in CountedRows(sn) : now >= sn[k].at + Cooldown
      BY <1>3, <2>6, <3>1, AllowedContact
    <3>5. \A i \in C : rows'[i].at = rs[i].at /\ i \in 1..Len(rs)
      BY <1>2, <1>5, <2>2
    <3> HIDE DEF C
    <3>6. Cardinality(C) < MaxContactsPerCase
      <4>1. IsFiniteSet(CountedRows(sn)) /\ Cardinality(CountedRows(sn)) \in Nat /\ Cardinality(C) \in Nat
        BY <3>1, <3>3, <2>2, <1>2, RowsAreFinite
      <4>2. Cardinality(C) <= Cardinality(CountedRows(sn))
        BY <3>2, <4>1, FS_Subset
      <4> QED BY <3>4, <4>1, <4>2, GuardrailAssumption
    <3>7. Cardinality({k \in C : rows'[k].at >= now - Window}) < MaxContactsPerWindow
      <4> DEFINE R == {k \in C : rows'[k].at >= now - Window}
                 Q == {k \in CountedRows(sn) : sn[k].at >= now - Window}
      <4>1. R \subseteq Q /\ Q \subseteq DOMAIN sn
        BY <3>2, <3>3, <3>5
      <4>2. R \subseteq DOMAIN rs
        BY <2>2
      <4>3. Cardinality(Q) < MaxContactsPerWindow
        BY <3>4
      <4> HIDE DEF R, Q
      <4>4. IsFiniteSet(Q) /\ Cardinality(Q) \in Nat /\ Cardinality(R) \in Nat
        BY <1>2, <3>1, <4>1, <4>2, RowsAreFinite
      <4>5. Cardinality(R) <= Cardinality(Q)
        BY <4>1, <4>4, FS_Subset
      <4>6. Cardinality(R) < MaxContactsPerWindow
        BY <4>3, <4>4, <4>5, GuardrailAssumption
      <4> QED BY <4>6 DEF R
    <3>8. \A i \in C : i < n /\ rows'[i].at <= now
      <4>1. InOrder /\ \A i \in C : i \in DOMAIN rows /\ rows[i].at = rows'[i].at
        BY <2>2, <2>3 DEF IInv
      <4> QED BY <1>2, <3>5, <4>1 DEF InOrder
    <3>9. \A k \in C : now >= rows'[k].at + Cooldown
      BY <3>2, <3>4, <3>5
    <3>10. C \in SUBSET (DOMAIN rows' \ {n}) /\ n \in DOMAIN rows' /\ rows'[n].at = now
      BY <1>2, <1>5, <1>6, <3>5
    <3> HIDE DEF n
    <3>11. Guarded(rows', C \cup {n})
      BY <1>3, <1>5, <2>4, <3>4, <3>6, <3>7, <3>8, <3>9, <3>10, GuardedGrows
    <3>12. C \cup {n} \in SUBSET (DOMAIN rows')
      BY <3>10
    <3> QED BY <1>5, <2>5, <3>11, <3>12, GuardedShrinks
  <2>7. CASE chosen \notin ContactActions
    <3>1. Outreach(rows') \subseteq C
      BY <1>5, <1>6, <2>5, <2>7 DEF Outreach
    <3>2. C \in SUBSET (DOMAIN rows')
      BY <1>2, <1>5, <2>2
    <3> HIDE DEF C
    <3> QED BY <1>5, <2>4, <3>1, <3>2, GuardedShrinks
  <2> QED BY <2>6, <2>7
<1>16. StopsAtMostOneLate'
  <2>1. last'.chosen = chosen /\ last'.after = after
    BY <1>1
  <2>2. after > MaxTotalAttempts + 1 => ct > MaxTotalAttempts
    BY PolicyAssumption, GuardrailAssumption
  <2> QED BY <2>1, <2>2 DEF Decided, MustStop, StopsAtMostOneLate
<1>17. OnlyContactsPerformed(rows')
  <2>1. ~new.performed
    BY DEF new
  <2> QED BY <1>2, <1>5, <2>1 DEF OnlyContactsPerformed, Written
<1>18. AmountFits'
  <2> SUFFICES ASSUME NEW i \in DueRows(rows') PROVE amount' <= MaxAutomatedAmount
    BY DEF AmountFits
  <2>1. CASE i = n
    <3>1. chosen \in ContactActions
      BY <1>5, <1>6, <2>1 DEF DueRows, Outreach
    <3>2. Allowed(chosen, History(sn), amount', now) /\ sn \in Seq(Row)
      BY <1>7, <3>1 DEF Decided, Covers
    <3> QED BY <1>3, <3>1, <3>2, AllowedContact
  <2>2. CASE i # n
    <3>1. i \in ScheduledContacts(rs)
      BY <1>2, <1>5, <2>2 DEF DueRows, Outreach, ScheduledContacts
    <3> QED BY <3>1
  <2> QED BY <2>1, <2>2
<1> QED BY <1>9, <1>10, <1>11, <1>12, <1>14, <1>15, <1>16, <1>17, <1>18 DEF IInv

-----------------------------------------------------------------------------
(* The steps that record nothing: a row's status moves on.                 *)

\* The invariant does not mind a row that moves on without becoming outreach
\* or a wait taken, while the latest stays pending if the case says so.
LEMMA RowsKept ==
    ASSUME IInv, rows' \in Seq(Row), Len(rows') = Len(rows),
           \A i \in DOMAIN rows :
              /\ rows'[i].type = rows[i].type /\ rows'[i].at = rows[i].at
              /\ rows[i].status = "EXECUTED" => rows'[i].status = "EXECUTED"
              /\ Waited(rows', i) => Waited(rows, i),
           OnlyContactsPerformed(rows'), Outreach(rows') \subseteq Outreach(rows),
           DueRows(rows') \subseteq DueRows(rows),
           state' \in {state, "AWAITING_OUTCOME", "HUMAN_REVIEW"},
           state' \in {"WAITING", "ACTION_SCHEDULED"} =>
              rows'[Len(rows)].status \in {"SCHEDULED", "EXECUTING"},
           now' \in 0..MaxTime, now' >= now, absorbed' \in 0..MaxFailures,
           UNCHANGED <<config, category, amount, last>>
    PROVE  IInv'
<1>1. /\ Len(rows) \in Nat /\ DOMAIN rows = 1..Len(rows) /\ DOMAIN rows' = 1..Len(rows)
      /\ \A i \in DOMAIN rows : rows[i].at \in Nat
  BY RowFields DEF IInv, TypeOK
<1>2. TypeOK'
  BY <1>1 DEF IInv, TypeOK, config, CaseStates
<1>3. NeverStranded'
  BY DEF IInv, NeverStranded
<1>4. LatestIsPending'
  BY <1>1 DEF IInv, LatestIsPending
<1>5. InOrder'
  <2>1. now \in Nat /\ now' \in Nat
    BY PolicyAssumption DEF IInv, TypeOK
  <2> QED BY <1>1, <2>1 DEF IInv, InOrder
<1>6. WaitsAreNew'
  <2>1. WaitsDiffer(rows')
    BY <1>1 DEF IInv, WaitsAreNew, WaitsDiffer
  <2>2. state' = "WAITING" => state = "WAITING" /\ Len(rows) \in DOMAIN rows
    BY <1>1 DEF IInv, LatestIsPending
  <2> QED BY <1>1, <2>1, <2>2 DEF IInv, WaitsAreNew
<1>7. Guarded(rows', Outreach(rows'))
  <2>1. Outreach(rows) \subseteq DOMAIN rows
    BY DEF Outreach
  <2> QED BY <2>1, GuardedShrinks DEF IInv, TypeOK
<1>8. StopsAtMostOneLate'
  BY DEF IInv, StopsAtMostOneLate
<1>9. AmountFits'
  BY DEF IInv, AmountFits
<1> QED BY <1>2, <1>3, <1>4, <1>5, <1>6, <1>7, <1>8, <1>9 DEF IInv

\* Only the latest row can still be wanted, and while work is pending it is.
LEMMA WantedIsLatest ==
    ASSUME IInv, NEW i \in DOMAIN rows
    PROVE  /\ rows[i].status # "EXECUTED" /\ Wanted(i) =>
                 i = Len(rows) /\ state \in {"WAITING", "ACTION_SCHEDULED"}
           /\ i = Len(rows) /\ state \in {"WAITING", "ACTION_SCHEDULED"} => Wanted(i)
<1>1. /\ Len(rows) \in Nat /\ DOMAIN rows = 1..Len(rows) /\ i \in 1..Len(rows)
      /\ rows[i].type \in ActionSet
  BY RowFields DEF IInv, TypeOK
<1>2. ASSUME rows[i].status # "EXECUTED", Wanted(i)
      PROVE  i = Len(rows) /\ state \in {"WAITING", "ACTION_SCHEDULED"}
  <2>1. rows[i].type \in WaitActions \cup ContactActions
    BY <1>1, <1>2 DEF IInv, TypeOK, ActionSet
  <2>2. state \in {"WAITING", "ACTION_SCHEDULED"}
    BY <1>2, <2>1, StateAfterIs DEF Wanted
  <2>3. Len(rows) \in DOMAIN rows /\ rows[Len(rows)].status \in {"SCHEDULED", "EXECUTING"}
    BY <1>1, <2>2 DEF IInv, LatestIsPending
  <2> QED BY <1>1, <1>2, <2>2, <2>3 DEF Wanted, Superseded
<1>3. ASSUME i = Len(rows), state \in {"WAITING", "ACTION_SCHEDULED"}
      PROVE  Wanted(i)
  BY <1>1, <1>3 DEF IInv, LatestIsPending, Wanted, Superseded
<1> QED BY <1>2, <1>3

\* Write changes the status of one row and nothing else.
LEMMA WriteIs ==
    ASSUME IInv, NEW i \in DOMAIN rows, NEW s \in Statuses
    PROVE  /\ Write(i, s) \in Seq(Row) /\ Len(Write(i, s)) = Len(rows)
           /\ Write(i, s)[i].status = s
           /\ \A j \in DOMAIN rows : /\ Write(i, s)[j].type = rows[j].type
                                     /\ Write(i, s)[j].at = rows[j].at
                                     /\ Write(i, s)[j].performed = rows[j].performed
                                     /\ j # i => Write(i, s)[j] = rows[j]
<1>1. rows \in Seq(Row) /\ Len(rows) \in Nat /\ DOMAIN rows = 1..Len(rows) /\ rows[i] \in Row
  BY RowFields DEF IInv, TypeOK
<1>2. [rows[i] EXCEPT !.status = s] \in Row
  BY <1>1 DEF Row
<1>3. \A r \in Row : /\ [r EXCEPT !.status = s].status = s /\ [r EXCEPT !.status = s].type = r.type
                     /\ [r EXCEPT !.status = s].at = r.at
                     /\ [r EXCEPT !.status = s].performed = r.performed
  BY DEF Row
<1> QED BY <1>1, <1>2, <1>3 DEF Write

\* A row before a worker, or in its hands, is given another status.
LEMMA StatusMoves ==
    ASSUME IInv, NEW i \in DOMAIN rows, rows[i].status \in {"SCHEDULED", "EXECUTING"},
           NEW s \in Statuses, rows' = Write(i, s),
           s # "CANCELLED" => Wanted(i),
           s = "EXECUTED" => rows[i].type \in ContactActions,
           \/ state' = state /\ (Wanted(i) => s \in {"SCHEDULED", "EXECUTING"})
           \/ Wanted(i) /\ state' \in {"AWAITING_OUTCOME", "HUMAN_REVIEW"},
           UNCHANGED <<config, now, category, amount, absorbed, last>>
    PROVE  IInv'
<1>1. /\ Len(rows) \in Nat /\ DOMAIN rows = 1..Len(rows) /\ now \in Nat /\ now \in 0..MaxTime
      /\ absorbed \in 0..MaxFailures /\ rows[i].type \in ActionSet
  BY RowFields, PolicyAssumption DEF IInv, TypeOK
<1>2. /\ rows' \in Seq(Row) /\ Len(rows') = Len(rows) /\ rows'[i].status = s
      /\ \A j \in DOMAIN rows : /\ rows'[j].type = rows[j].type /\ rows'[j].at = rows[j].at
                                /\ rows'[j].performed = rows[j].performed
                                /\ j # i => rows'[j] = rows[j]
  BY WriteIs
<1>3. DOMAIN rows' = DOMAIN rows
  BY <1>1, <1>2
<1>4. \A j \in DOMAIN rows : /\ rows[j].status = "EXECUTED" => rows'[j].status = "EXECUTED"
                             /\ Waited(rows', j) => Waited(rows, j)
  BY <1>2 DEF Waited, WaitActions, ContactActions
<1>5. Wanted(i) => i = Len(rows)
  BY WantedIsLatest
<1>6. Outreach(rows') \subseteq Outreach(rows)
  BY <1>1, <1>2, <1>3, <1>5 DEF Outreach
<1>9. DueRows(rows') \subseteq DueRows(rows)
  BY <1>1, <1>2, <1>3, <1>5, <1>6 DEF DueRows, Outreach
<1>7. state' \in {"WAITING", "ACTION_SCHEDULED"} => rows'[Len(rows)].status \in {"SCHEDULED", "EXECUTING"}
  <2> SUFFICES ASSUME state' \in {"WAITING", "ACTION_SCHEDULED"}
               PROVE  rows'[Len(rows)].status \in {"SCHEDULED", "EXECUTING"}
    OBVIOUS
  <2>1. state' = state /\ (Wanted(i) => s \in {"SCHEDULED", "EXECUTING"})
    OBVIOUS
  <2>2. Len(rows) \in DOMAIN rows /\ rows[Len(rows)].status \in {"SCHEDULED", "EXECUTING"}
    BY <1>1, <2>1 DEF IInv, LatestIsPending
  <2>3. CASE i = Len(rows)
    BY <1>2, <2>1, <2>3, WantedIsLatest
  <2>4. CASE i # Len(rows)
    BY <1>2, <2>2, <2>4
  <2> QED BY <2>3, <2>4
<1>8. OnlyContactsPerformed(rows')
  BY <1>2, <1>3 DEF IInv, OnlyContactsPerformed
<1> QED BY <1>1, <1>2, <1>4, <1>6, <1>7, <1>8, <1>9, RowsKept

-----------------------------------------------------------------------------
(* One lemma per action.                                                   *)

\* The clock, and a worker's transactions.
LEMMA TickKeeps == IInv /\ Tick => IInv'
<1> SUFFICES ASSUME IInv, Tick PROVE IInv'
  OBVIOUS
<1>1. now \in 0..MaxTime /\ MaxTime \in Nat /\ absorbed \in 0..MaxFailures /\ rows \in Seq(Row)
  BY PolicyAssumption DEF IInv, TypeOK
<1>2. now' \in 0..MaxTime /\ now' >= now
  BY <1>1 DEF Tick
<1>3. rows' = rows /\ state' = state /\ UNCHANGED <<config, category, amount, absorbed, last>>
  BY DEF Tick
<1>4. state \in {"WAITING", "ACTION_SCHEDULED"} => rows[Len(rows)].status \in {"SCHEDULED", "EXECUTING"}
  BY DEF IInv, LatestIsPending
<1>5. Outreach(rows') = Outreach(rows) /\ DueRows(rows') = DueRows(rows) /\ \A i \in DOMAIN rows : Waited(rows', i) => Waited(rows, i)
  BY <1>3
<1>6. OnlyContactsPerformed(rows')
  BY <1>3 DEF IInv
<1>7. /\ rows' \in Seq(Row) /\ Len(rows') = Len(rows)
      /\ \A i \in DOMAIN rows : rows'[i] = rows[i]
  BY <1>1, <1>3
<1> QED BY <1>1, <1>2, <1>3, <1>4, <1>5, <1>6, <1>7, RowsKept

LEMMA ClaimKeeps ==
    ASSUME IInv, NEW i \in DOMAIN rows, Claim(i)
    PROVE  IInv'
<1>1. /\ rows[i].status = "SCHEDULED" /\ rows' = Write(i, IF Wanted(i) THEN "EXECUTING" ELSE "CANCELLED")
      /\ UNCHANGED <<config, now, state, category, amount, absorbed, last>>
  BY DEF Claim
<1>2. {"EXECUTING", "CANCELLED"} \subseteq Statuses
  BY DEF Statuses
<1>3. CASE Wanted(i)
  <2>1. rows' = Write(i, "EXECUTING")
    BY <1>1, <1>3
  <2> QED BY <1>1, <1>2, <1>3, <2>1, StatusMoves
<1>4. CASE ~Wanted(i)
  <2>1. rows' = Write(i, "CANCELLED")
    BY <1>1, <1>4
  <2> QED BY <1>1, <1>2, <1>4, <2>1, StatusMoves
<1> QED BY <1>3, <1>4

LEMMA PerformKeeps ==
    ASSUME IInv, NEW i \in DOMAIN rows, Perform(i)
    PROVE  IInv'
<1>1. /\ rows \in Seq(Row) /\ Len(rows) \in Nat /\ DOMAIN rows = 1..Len(rows) /\ rows[i] \in Row
      /\ now \in 0..MaxTime /\ now \in Nat /\ absorbed \in 0..MaxFailures
  BY RowFields, PolicyAssumption DEF IInv, TypeOK
<1>2. \A r \in Row : /\ [r EXCEPT !.performed = TRUE] \in Row
                     /\ [r EXCEPT !.performed = TRUE].type = r.type
                     /\ [r EXCEPT !.performed = TRUE].at = r.at
                     /\ [r EXCEPT !.performed = TRUE].status = r.status
  BY DEF Row
<1>3. /\ rows' = [rows EXCEPT ![i] = [rows[i] EXCEPT !.performed = TRUE]]
      /\ rows[i].type \in ContactActions
      /\ UNCHANGED <<config, now, state, category, amount, absorbed, last>>
  BY DEF Perform
<1>4. /\ rows' \in Seq(Row) /\ Len(rows') = Len(rows) /\ DOMAIN rows' = DOMAIN rows
      /\ \A j \in DOMAIN rows : /\ rows'[j].type = rows[j].type /\ rows'[j].at = rows[j].at
                                /\ rows'[j].status = rows[j].status
                                /\ j # i => rows'[j] = rows[j]
  BY <1>1, <1>2, <1>3
<1>5. \A j \in DOMAIN rows : Waited(rows', j) => Waited(rows, j)
  BY <1>4 DEF Waited
<1>6. Outreach(rows') \subseteq Outreach(rows) /\ DueRows(rows') \subseteq DueRows(rows)
  BY <1>4 DEF Outreach, DueRows
<1>7. OnlyContactsPerformed(rows')
  BY <1>3, <1>4 DEF IInv, OnlyContactsPerformed
<1>8. state \in {"WAITING", "ACTION_SCHEDULED"} => rows'[Len(rows)].status \in {"SCHEDULED", "EXECUTING"}
  BY <1>1, <1>4 DEF IInv, LatestIsPending
<1>9. /\ now' \in 0..MaxTime /\ now' >= now /\ absorbed' \in 0..MaxFailures
      /\ state' = state /\ UNCHANGED <<config, category, amount, last>>
  BY <1>1, <1>3
<1>10. \A j \in DOMAIN rows :
          /\ rows'[j].type = rows[j].type /\ rows'[j].at = rows[j].at
          /\ rows[j].status = "EXECUTED" => rows'[j].status = "EXECUTED"
          /\ Waited(rows', j) => Waited(rows, j)
  BY <1>4, <1>5
<1> QED BY <1>4, <1>6, <1>7, <1>8, <1>9, <1>10, RowsKept

LEMMA CompleteContactKeeps ==
    ASSUME IInv, NEW i \in DOMAIN rows, CompleteContact(i)
    PROVE  IInv'
<1>1. /\ rows[i].status = "EXECUTING" /\ rows[i].type \in ContactActions
      /\ UNCHANGED <<config, now, category, amount, absorbed, last>>
  BY DEF CompleteContact, IInv, OnlyContactsPerformed
<1>2. {"EXECUTED", "CANCELLED"} \subseteq Statuses
  BY DEF Statuses
<1>3. CASE Wanted(i)
  <2>1. rows' = Write(i, "EXECUTED") /\ state' = "AWAITING_OUTCOME"
    BY <1>3 DEF CompleteContact
  <2> QED BY <1>1, <1>2, <1>3, <2>1, StatusMoves
<1>4. CASE ~Wanted(i)
  <2>1. rows' = Write(i, "CANCELLED") /\ state' = state
    BY <1>4 DEF CompleteContact
  <2> QED BY <1>1, <1>2, <1>4, <2>1, StatusMoves
<1> QED BY <1>3, <1>4

LEMMA GiveBackKeeps ==
    ASSUME IInv, NEW i \in DOMAIN rows, GiveBack(i)
    PROVE  IInv'
<1>1. rows[i].status = "EXECUTING" /\ UNCHANGED <<config, now, category, amount, absorbed, last>>
  BY DEF GiveBack
<1>2. {"SCHEDULED", "FAILED", "CANCELLED"} \subseteq Statuses
  BY DEF Statuses
<1>3. CASE Wanted(i)
  <2>1. \/ rows' = Write(i, "SCHEDULED") /\ state' = state
        \/ rows' = Write(i, "FAILED") /\ state' = "HUMAN_REVIEW"
    BY <1>3 DEF GiveBack
  <2> QED BY <1>1, <1>2, <1>3, <2>1, StatusMoves
<1>4. CASE ~Wanted(i)
  <2>1. rows' = Write(i, "CANCELLED") /\ state' = state
    BY <1>4 DEF GiveBack
  <2> QED BY <1>1, <1>2, <1>4, <2>1, StatusMoves
<1> QED BY <1>3, <1>4

\* What a failed payment writes before it decides, and what it still sees.
LEMMA CancelledIs ==
    ASSUME IInv
    PROVE  ScheduledContacts(Cancelled(rows)) = {} /\ Written(Cancelled(rows)) /\ Covers(rows, Cancelled(rows)) /\ Covers(Cancelled(rows), Cancelled(rows))
<1> DEFINE rs == Cancelled(rows)
<1>1. /\ rows \in Seq(Row) /\ Len(rows) \in Nat /\ DOMAIN rows = 1..Len(rows)
      /\ \A i \in DOMAIN rows : rows[i] \in Row
  BY RowFields DEF IInv, TypeOK
<1>2. \A r \in Row : /\ [r EXCEPT !.status = "CANCELLED"] \in Row
                     /\ [r EXCEPT !.status = "CANCELLED"].type = r.type
                     /\ [r EXCEPT !.status = "CANCELLED"].at = r.at
                     /\ [r EXCEPT !.status = "CANCELLED"].performed = r.performed
                     /\ [r EXCEPT !.status = "CANCELLED"].status = "CANCELLED"
  BY DEF Row, Statuses
<1>3. /\ rs \in Seq(Row) /\ Len(rs) = Len(rows) /\ DOMAIN rs = DOMAIN rows
      /\ \A i \in DOMAIN rows :
            /\ rs[i].type = rows[i].type /\ rs[i].at = rows[i].at /\ rs[i].performed = rows[i].performed
            /\ rs[i].status = IF rows[i].status = "SCHEDULED" THEN "CANCELLED" ELSE rows[i].status
  BY <1>1, <1>2 DEF Cancelled
<1> HIDE DEF rs
<1>4. CountedRows(rs) \subseteq Outreach(rows)
  BY <1>3 DEF CountedRows, Outreach
<1>5. WaitsDiffer(rs)
  BY <1>3 DEF IInv, WaitsAreNew, WaitsDiffer, Waited
<1>6. OnlyContactsPerformed(rs)
  BY <1>3 DEF IInv, OnlyContactsPerformed
<1>7. \A i \in DOMAIN rs : rs[i].type \in {"ESCALATE", "STOP"} => rs[i].status = "EXECUTED"
  BY <1>3 DEF IInv, TypeOK
<1>8. Written(rs)
  BY <1>3, <1>4, <1>5, <1>6, <1>7 DEF Written
<1>9. Covers(rows, rs) /\ Covers(rs, rs)
  BY <1>1, <1>3 DEF Covers
<1>10. ScheduledContacts(rs) = {}
  BY <1>3 DEF ScheduledContacts
<1> QED BY <1>8, <1>9, <1>10 DEF rs

\* The two transactions that decide.
LEMMA FailedPaymentKeeps ==
    ASSUME IInv, NEW f \in Failures, FailedPayment(f)
    PROVE  IInv'
<1>1. /\ rows \in Seq(Row) /\ TypeOK /\ absorbed \in 0..MaxFailures /\ absorbed \in Nat
      /\ MaxFailures \in Nat
  BY PolicyAssumption DEF IInv, TypeOK
<1>2. /\ absorbed < MaxFailures /\ absorbed' = absorbed + 1 /\ UNCHANGED <<config, now>>
      /\ amount' \in Amounts
  BY <1>1 DEF FailedPayment, TypeOK
<1>3. absorbed + 1 \in 0..MaxFailures /\ absorbed + 1 \in Nat /\ absorbed' \in 0..MaxFailures
  BY <1>1, <1>2
<1>4. CASE state \in {"NONE"} \cup Diagnosable
  <2> DEFINE rs == Cancelled(rows)  cat == Classify(f)  after == absorbed + 1
  <2>1. DecideForCase(rs, rows, absorbed, cat, after)
    BY <1>4 DEF FailedPayment
  <2>2. cat \in Categories
    BY ClassifyIs, PolicyAssumption
  <2>3. ScheduledContacts(rs) = {} /\ Written(rs) /\ Covers(rows, rs) /\ Covers(rs, rs)
    BY CancelledIs
  <2> HIDE DEF rs, cat
  <2>4. PICK chosen \in ActionSet, sn \in {rows, rs}, ct \in {absorbed, after} :
                Decided(chosen, rs, sn, ct, cat, after)
    BY <1>1, <1>2, <2>1, <2>2, DecisionIs
  <2>5. ct \in Nat /\ after <= ct + 1 /\ after \in 0..MaxFailures /\ Covers(sn, rs)
    BY <1>1, <1>3, <2>3
  <2> HIDE DEF after
  <2> QED BY <1>2, <1>3, <2>2, <2>3, <2>4, <2>5, RecordKeeps
<1>5. CASE state \notin {"NONE"} \cup Diagnosable
  <2>1. /\ rows' = rows /\ state' = state /\ UNCHANGED <<config, category, last>> /\ now' = now
        /\ amount' = amount
    BY <1>2, <1>5 DEF FailedPayment, TakesOver
  <2>2. state \notin {"WAITING", "ACTION_SCHEDULED"}
    BY <1>5 DEF Diagnosable
  <2>3. /\ rows' \in Seq(Row) /\ Len(rows') = Len(rows)
        /\ \A i \in DOMAIN rows : rows'[i] = rows[i]
        /\ now' \in 0..MaxTime /\ now' >= now
    BY <1>1, <2>1, PolicyAssumption DEF TypeOK
  <2>4. Outreach(rows') = Outreach(rows) /\ DueRows(rows') = DueRows(rows) /\ \A i \in DOMAIN rows : Waited(rows', i) => Waited(rows, i)
    BY <2>1
  <2>5. OnlyContactsPerformed(rows')
    BY <2>1 DEF IInv
  <2> QED BY <1>3, <2>1, <2>2, <2>3, <2>4, <2>5, RowsKept
<1> QED BY <1>4, <1>5

LEMMA CompleteWaitKeeps ==
    ASSUME IInv, NEW i \in DOMAIN rows, CompleteWait(i)
    PROVE  IInv'
<1>1. /\ rows[i].status = "EXECUTING" /\ rows[i].type \in WaitActions
      /\ UNCHANGED <<config, now, amount, absorbed>>
  BY DEF CompleteWait
<1>2. /\ rows \in Seq(Row) /\ Len(rows) \in Nat /\ DOMAIN rows = 1..Len(rows) /\ TypeOK
      /\ absorbed \in 0..MaxFailures /\ absorbed \in Nat /\ category \in Categories
  BY RowFields, PolicyAssumption DEF IInv, TypeOK
<1>3. {"EXECUTED", "CANCELLED"} \subseteq Statuses
  BY DEF Statuses
<1>4. CASE Wanted(i)
  <2> DEFINE rs == Write(i, "EXECUTED")
  <2>1. DecideForCase(rs, rs, absorbed, category, absorbed)
    BY <1>4 DEF CompleteWait
  <2>2. /\ rs \in Seq(Row) /\ Len(rs) = Len(rows) /\ rs[i].status = "EXECUTED"
        /\ \A j \in DOMAIN rows : /\ rs[j].type = rows[j].type /\ rs[j].at = rows[j].at
                                  /\ rs[j].performed = rows[j].performed
                                  /\ j # i => rs[j] = rows[j]
    BY <1>3, WriteIs
  <2> HIDE DEF rs
  <2>3. DOMAIN rs = DOMAIN rows
    BY <1>2, <2>2, RowFields
  <2>4. rows[i].type \notin ContactActions \cup {"ESCALATE", "STOP"}
    BY <1>1 DEF WaitActions, ContactActions
  <2>5. CountedRows(rs) \subseteq Outreach(rows)
    BY <2>2, <2>3, <2>4 DEF CountedRows, Outreach
  <2>6. i = Len(rows) /\ state = "WAITING"
    BY <1>1, <1>4, WantedIsLatest, StateAfterIs DEF Wanted
  <2>7. WaitsDiffer(rs)
    <3>1. \A j \in DOMAIN rows : j # i /\ Waited(rs, j) => Waited(rows, j) /\ rs[j].type # rs[i].type
      BY <2>2, <2>6 DEF IInv, WaitsAreNew, Waited
    <3> QED BY <2>2, <2>3, <3>1 DEF IInv, WaitsAreNew, WaitsDiffer
  <2>8. OnlyContactsPerformed(rs)
    BY <2>2, <2>3 DEF IInv, OnlyContactsPerformed
  <2>9. \A j \in DOMAIN rs : rs[j].type \in {"ESCALATE", "STOP"} => rs[j].status = "EXECUTED"
    BY <2>2, <2>3, <2>4 DEF IInv, TypeOK
  <2>10. Written(rs) /\ Covers(rs, rs)
    BY <2>2, <2>3, <2>5, <2>7, <2>8, <2>9 DEF Written, Covers
  <2>11. PICK chosen \in ActionSet, sn \in {rs}, ct \in {absorbed} :
                Decided(chosen, rs, sn, ct, category, absorbed)
    BY <1>1, <1>2, <2>1, <2>2, DecisionIs DEF TypeOK
  <2>13. amount' \in Amounts /\ (ScheduledContacts(rs) # {} => amount' <= MaxAutomatedAmount)
    <3>1. ScheduledContacts(rs) \subseteq DueRows(rows)
      BY <2>2, <2>3 DEF ScheduledContacts, DueRows, Outreach
    <3> QED BY <1>1, <1>2, <3>1 DEF IInv, AmountFits, TypeOK
  <2>12. ct \in Nat /\ absorbed <= ct + 1 /\ absorbed' \in 0..MaxFailures /\ Covers(sn, rs)
    BY <1>1, <1>2, <2>10
  <2> QED BY <1>1, <1>2, <2>10, <2>11, <2>12, <2>13, RecordKeeps
<1>5. CASE ~Wanted(i)
  <2>1. rows' = Write(i, "CANCELLED") /\ UNCHANGED <<state, category, last>>
    BY <1>5 DEF CompleteWait
  <2> QED BY <1>1, <1>3, <1>5, <2>1, StatusMoves
<1> QED BY <1>4, <1>5

\* The invariant holds at first, and every step keeps it.
LEMMA InvInit == Init => IInv
<1> SUFFICES ASSUME Init PROVE IInv
  OBVIOUS
<1>1. rows = <<>> /\ state = "NONE" /\ now = 0 /\ last = [chosen |-> "none", after |-> 0]
  BY DEF Init
<1>2. DOMAIN rows = {} /\ Len(rows) = 0 /\ rows \in Seq(Row)
  BY <1>1
<1>3. TypeOK
  <2>1. "UNKNOWN" \in Categories
    BY DEF Categories, Preference
  <2>2. last \in Decision /\ now \in 0..MaxTime /\ 0 \in 0..MaxFailures /\ Len(rows) <= MaxRows
    BY <1>1, <1>2, PolicyAssumption DEF Decision
  <2> QED BY <1>1, <1>2, <2>1, <2>2 DEF Init, TypeOK, CaseStates
<1>4. Outreach(rows) = {}
  BY <1>2 DEF Outreach
<1>5. Guarded(rows, {}) /\ AmountFits
  BY <1>4, FS_EmptySet, GuardrailAssumption DEF Guarded, AmountFits, DueRows
<1>6. StopsAtMostOneLate
  BY <1>1, GuardrailAssumption DEF StopsAtMostOneLate
<1>7. LatestIsPending /\ NeverStranded
  BY <1>1 DEF LatestIsPending, NeverStranded
<1>8. InOrder /\ WaitsAreNew /\ OnlyContactsPerformed(rows)
  BY <1>1, <1>2 DEF InOrder, WaitsAreNew, WaitsDiffer, OnlyContactsPerformed
<1> QED BY <1>3, <1>4, <1>5, <1>6, <1>7, <1>8 DEF IInv

LEMMA InvNext == IInv /\ [Next]_vars => IInv'
<1> SUFFICES ASSUME IInv, [Next]_vars PROVE IInv'
  OBVIOUS
<1>1. CASE UNCHANGED vars
  BY <1>1 DEF vars, config, IInv, TypeOK, NeverStranded, LatestIsPending, InOrder, WaitsAreNew,
              WaitsDiffer, Waited, Outreach, Guarded, InWindow, StopsAtMostOneLate,
              OnlyContactsPerformed, AmountFits, DueRows
<1>2. CASE Tick
  BY <1>2, TickKeeps
<1>3. ASSUME NEW f \in Failures, FailedPayment(f) PROVE IInv'
  BY <1>3, FailedPaymentKeeps
<1>4. ASSUME NEW i \in DOMAIN rows,
             \/ Claim(i) \/ Perform(i) \/ CompleteWait(i)
             \/ CompleteContact(i) \/ GiveBack(i)
      PROVE  IInv'
  BY <1>4, ClaimKeeps, PerformKeeps, CompleteWaitKeeps, CompleteContactKeeps, GiveBackKeeps
<1> QED BY <1>1, <1>2, <1>3, <1>4 DEF Next

LEMMA InvHolds == Spec => []IInv
  BY InvInit, InvNext, PTL DEF Spec

-----------------------------------------------------------------------------
(* The results.                                                            *)

\* The tables of a case and the decisions on it are always what TypeOK says,
\* and no row that needs no worker is left to one.
THEOREM TypeCorrect == Spec => []TypeOK
<1>1. IInv => TypeOK
  BY DEF IInv
<1> QED BY <1>1, InvHolds, PTL

\* No transaction of policy_dispatcher leaves a case without a decision.
THEOREM AlwaysDecided == Spec => []NeverStranded
<1>1. IInv => NeverStranded
  BY DEF IInv
<1> QED BY <1>1, InvHolds, PTL

\* The stopping rule is at most one failure late, whatever the session has
\* not flushed when the policy counts the attempts.
THEOREM StopsInTime == Spec => []StopsAtMostOneLate
<1>1. IInv => StopsAtMostOneLate
  BY DEF IInv
<1> QED BY <1>1, InvHolds, PTL

\* A case waits at most once in each way, so automation cannot go round.
THEOREM NoRoundOfWaits == Spec => []WaitsOnce
<1>1. ASSUME IInv PROVE WaitsOnce
  <2> SUFFICES ASSUME NEW a \in WaitActions
               PROVE  Cardinality({i \in DOMAIN rows : rows[i].type = a /\ rows[i].status = "EXECUTED"}) <= 1
    BY DEF WaitsOnce
  <2> DEFINE W == {i \in DOMAIN rows : rows[i].type = a /\ rows[i].status = "EXECUTED"}
  <2>1. \A i, j \in W : i = j
    BY <1>1 DEF IInv, WaitsAreNew, WaitsDiffer, Waited
  <2> HIDE DEF W
  <2>2. CASE W = {}
    <3>1. Cardinality(W) = 0
      BY <2>2, FS_EmptySet
    <3> QED BY <3>1 DEF W
  <2>3. CASE W # {}
    <3>1. PICK i \in W : TRUE
      BY <2>3
    <3>2. W = {i}
      BY <2>1, <3>1
    <3>3. Cardinality(W) = 1
      BY <3>2, FS_Singleton
    <3> QED BY <3>3 DEF W
  <2> QED BY <2>2, <2>3
<1> QED BY <1>1, InvHolds, PTL

\* The contacts that count stay within the limits per case and per window and
\* the cooldown over the whole life of a case, and none is still to come on an
\* amount above the limit, whatever payment the case has taken over meanwhile.
THEOREM GuardrailsHold == Spec => []WithinGuardrails
<1>1. ASSUME IInv PROVE WithinGuardrails
  <2> DEFINE C == CountedRows(rows)
  <2>1. /\ rows \in Seq(Row) /\ Outreach(rows) \subseteq DOMAIN rows /\ C \subseteq Outreach(rows)
        /\ \A i \in DOMAIN rows : rows[i].at \in Nat
    BY <1>1, RowFields DEF IInv, TypeOK, Outreach, CountedRows
  <2>2. Guarded(rows, C)
    <3> HIDE DEF C
    <3> QED BY <1>1, <2>1, GuardedShrinks DEF IInv
  <2> DEFINE c == Contacts(History(rows))
  <2>3. c = {Entry(rows, i) : i \in C} /\ Cardinality(c) = Cardinality(C)
    BY <2>1, HistoryIs
  <2> HIDE DEF C, c
  <2>4. \A i \in C : Entry(rows, i).n = i /\ Entry(rows, i).at = rows[i].at
    BY DEF Entry
  <2>5. DueContacts # {} => amount <= MaxAutomatedAmount
    <3>1. ASSUME NEW i \in DueContacts PROVE i \in DueRows(rows)
      <4>1. rows[i].status = "EXECUTING" => i = Len(rows)
        BY <1>1, <3>1, WantedIsLatest DEF DueContacts
      <4> QED BY <4>1 DEF DueContacts, DueRows, Outreach
    <3> QED BY <1>1, <3>1 DEF IInv, AmountFits
  <2>6. Cardinality(c) <= MaxContactsPerCase
    BY <2>2, <2>3 DEF Guarded
  <2>7. ASSUME NEW r \in c
        PROVE  Cardinality({q \in c : q.at \in r.at - Window .. r.at}) <= MaxContactsPerWindow
    <3>1. PICK i \in C : r = Entry(rows, i)
      BY <2>3
    <3>2. {q \in c : q.at \in r.at - Window .. r.at} = {Entry(rows, k) : k \in InWindow(rows, C, i)}
      BY <2>3, <2>4, <3>1 DEF InWindow
    <3>3. InWindow(rows, C, i) \in SUBSET (DOMAIN rows)
      BY <2>1 DEF InWindow
    <3>4. Cardinality({Entry(rows, k) : k \in InWindow(rows, C, i)}) = Cardinality(InWindow(rows, C, i))
      BY <2>1, <3>3, EntriesCount
    <3> QED BY <2>2, <3>2, <3>4 DEF Guarded
  <2>8. ASSUME NEW r \in c, NEW q \in c, r.n < q.n
        PROVE  q.at >= r.at + Cooldown
    <3>1. PICK i \in C, k \in C : r = Entry(rows, i) /\ q = Entry(rows, k)
      BY <2>3
    <3>2. i < k /\ r.at = rows[i].at /\ q.at = rows[k].at
      BY <2>4, <2>8, <3>1
    <3> QED BY <2>2, <3>2 DEF Guarded
  <2> QED BY <2>5, <2>6, <2>7, <2>8 DEF WithinGuardrails, c
<1> QED BY <1>1, InvHolds, PTL

\* The operator's page and the guardrail agree on the next contact, although
\* the one compares with the latest contact and the other with each of them.
THEOREM OperatorSeesTheGuardrail == Spec => []ViewAgrees
<1>1. ASSUME IInv PROVE ViewAgrees
  <2> DEFINE h == History(rows)
             ats == {r.at : r \in Contacts(h)}
             latest == CHOOSE m \in ats : \A x \in ats : x <= m
             v == View(h, amount, absorbed, now)
  <2>1. /\ rows \in Seq(Row) /\ now \in Nat /\ \A i \in DOMAIN rows : rows[i].at \in Nat /\ rows[i].at <= now
        /\ CountedRows(rows) \subseteq DOMAIN rows
    BY <1>1, RowFields, PolicyAssumption DEF IInv, TypeOK, InOrder, CountedRows
  <2>2. Contacts(h) = {Entry(rows, i) : i \in CountedRows(rows)}
    BY <2>1, HistoryIs
  <2>3. \A r \in Contacts(h) : r.at \in Nat /\ r.at <= now
    BY <2>1, <2>2 DEF Entry
  <2>4. ats \in SUBSET Nat /\ \A x \in ats : x <= now
    BY <2>3
  <2>5. ats # {} => latest \in ats /\ \A x \in ats : x <= latest
    <3> HIDE DEF ats
    <3> QED BY <2>1, <2>4, GreatestNumber
  <2>6. (ats = {} \/ now >= latest + Cooldown) <=> \A r \in Contacts(h) : now >= r.at + Cooldown
    <3>1. (\A r \in Contacts(h) : now >= r.at + Cooldown) <=> \A x \in ats : now >= x + Cooldown
      OBVIOUS
    <3> HIDE DEF ats, latest
    <3>2. CASE ats = {}
      BY <3>1, <3>2
    <3>3. CASE ats # {}
      <4>1. latest \in ats /\ latest \in Nat /\ \A x \in ats : x \in Nat /\ x <= latest
        BY <2>4, <2>5, <3>3
      <4>2. now >= latest + Cooldown => \A x \in ats : now >= x + Cooldown
        BY <2>1, <4>1, GuardrailAssumption
      <4>3. (\A x \in ats : now >= x + Cooldown) => now >= latest + Cooldown
        BY <4>1
      <4> QED BY <3>1, <3>3, <4>2, <4>3
    <3> QED BY <3>2, <3>3
  <2>7. /\ v.per_case <=> Cardinality(Contacts(h)) < MaxContactsPerCase
        /\ v.per_7_days <=> Cardinality(Recent(h, now)) < MaxContactsPerWindow
        /\ v.cooldown <=> (ats = {} \/ now >= latest + Cooldown)
        /\ v.amount <=> amount <= MaxAutomatedAmount
    BY DEF View, Below
  <2> HIDE DEF h, ats, latest, v
  <2>8. ASSUME NEW a \in ContactActions
        PROVE  Allowed(a, h, amount, now) <=> v.per_case /\ v.per_7_days /\ v.cooldown /\ v.amount
    <3>1. a \notin WaitActions
      BY DEF ContactActions, WaitActions
    <3> QED BY <2>6, <2>7, <3>1 DEF Allowed
  <2> QED BY <2>8 DEF ViewAgrees, h, v
<1> QED BY <1>1, InvHolds, PTL

\* Whatever the model forecasts, a stronger preference for low friction never
\* chooses a more intrusive action.
THEOREM StrongerIsGentler == Spec => []GentlerWithWeight
<1>1. ASSUME IInv PROVE GentlerWithWeight
  <2> DEFINE h == History(rows)
             open == {a \in ActionSet : Allowed(a, h, amount, now)}
             F == Feasible(open, category, linked)
             pick(p, w) == AdaptiveChoice(category, linked, h, amount, now, p, w)
             burdens(p) == {<<w, Friction(pick(p, w), h)>> :
                              w \in {ProfileWeights[x] : x \in DOMAIN ProfileWeights}}
  <2>1. amount \in Nat /\ now \in Nat /\ IsFiniteSet(Contacts(h))
    <3>1. amount \in Nat /\ now \in Nat /\ rows \in Seq(Row)
      BY <1>1, PolicyAssumption DEF IInv, TypeOK
    <3> QED BY <3>1, HistoryIs
  <2>2. F \subseteq ActionSet /\ F # {}
    <3>1. "ESCALATE" \in open
      BY DEF Allowed, ActionSet, WaitActions, ContactActions
    <3> QED BY <3>1 DEF Feasible
  <2>3. \A w \in {ProfileWeights[x] : x \in DOMAIN ProfileWeights} : w \in {4, 18, 45}
    BY DEF ProfileWeights
  <2>4. ASSUME NEW p \in Forecasts, NEW w \in {4, 18, 45}, NEW v \in {4, 18, 45}, w <= v
        PROVE  Friction(pick(p, v), h) <= Friction(pick(p, w), h)
    <3> DEFINE x == TopRanked(F, p, amount, h, w)
               y == TopRanked(F, p, amount, h, v)
    <3>1. pick(p, w) = x /\ pick(p, v) = y
      BY DEF AdaptiveChoice
    <3>2. p \in [ActionSet -> 0..100] /\ w \in Nat /\ v \in Nat
      BY PolicyAssumption
    <3> HIDE DEF F, pick
    <3>3. x \in F /\ y \in F /\ Utility(y, p, amount, h, w) <= Utility(x, p, amount, h, w)
      BY <2>1, <2>2, <3>2, TopRankedIs
    <3>4. Utility(x, p, amount, h, v) <= Utility(y, p, amount, h, v)
      BY <2>1, <2>2, <3>2, <3>3, TopRankedIs
    <3> HIDE DEF x, y
    <3> DEFINE ex == ExpectedValue(x, p, amount)  fx == Friction(x, h)
               ey == ExpectedValue(y, p, amount)  fy == Friction(y, h)
    <3>5. /\ ex \in Int /\ fx \in Nat
          /\ Utility(x, p, amount, h, w) = ex - 100 * w * fx
          /\ Utility(x, p, amount, h, v) = ex - 100 * v * fx
      <4>1. x \in ActionSet
        BY <2>2, <3>3
      <4> HIDE DEF h
      <4> QED BY <2>1, <3>2, <4>1, UtilityIs
    <3>6. /\ ey \in Int /\ fy \in Nat
          /\ Utility(y, p, amount, h, w) = ey - 100 * w * fy
          /\ Utility(y, p, amount, h, v) = ey - 100 * v * fy
      <4>1. y \in ActionSet
        BY <2>2, <3>3
      <4> HIDE DEF h
      <4> QED BY <2>1, <3>2, <4>1, UtilityIs
    <3>7. fy <= fx \/ w = v
      <4> HIDE DEF ex, ey, fx, fy
      <4>1. ey - 100 * w * fy <= ex - 100 * w * fx /\ ex - 100 * v * fx <= ey - 100 * v * fy
        BY <3>3, <3>4, <3>5, <3>6
      <4>2. CASE w = 4 /\ v = 18
        BY <3>5, <3>6, <4>1, <4>2
      <4>3. CASE w = 4 /\ v = 45
        BY <3>5, <3>6, <4>1, <4>3
      <4>4. CASE w = 18 /\ v = 45
        BY <3>5, <3>6, <4>1, <4>4
      <4> QED BY <2>4, <4>2, <4>3, <4>4
    <3>8. w = v => fy = fx
      BY DEF x, y
    <3>9. Friction(y, h) <= Friction(x, h)
      BY <3>5, <3>6, <3>7, <3>8
    <3> QED BY <3>1, <3>9
  <2>5. ASSUME NEW p \in Forecasts, NEW b \in burdens(p), NEW c \in burdens(p), b[1] <= c[1]
        PROVE  c[2] <= b[2]
    <3> HIDE DEF pick
    <3>1. PICK w \in {ProfileWeights[x] : x \in DOMAIN ProfileWeights} : b = <<w, Friction(pick(p, w), h)>>
      OBVIOUS
    <3>2. PICK v \in {ProfileWeights[x] : x \in DOMAIN ProfileWeights} : c = <<v, Friction(pick(p, v), h)>>
      OBVIOUS
    <3>3. w \in {4, 18, 45} /\ v \in {4, 18, 45} /\ w <= v
      BY <2>3, <2>5, <3>1, <3>2
    <3> QED BY <2>4, <3>1, <3>2, <3>3
  <2> QED BY <2>5 DEF GentlerWithWeight
<1> QED BY <1>1, InvHolds, PTL
===============================================================================
