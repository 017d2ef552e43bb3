-------------------------- MODULE CorrelationProofs --------------------------
(***************************************************************************)
(* Proofs about Correlation, for any events, links, requests and cases.    *)
(***************************************************************************)
EXTENDS Correlation, NaturalsInduction, WellFoundedInduction, TLAPS

(* The inductive invariant.  What a request found out before it took its   *)
(* second step is still true then, because it holds the row lock: it is    *)
(* the only one with this case, and with this event.                       *)

Matched(r) ==
    LET e == handling[r]
        c == found[r] IN
    /\ e \notin stored
    /\ c \in 0..n
    /\ c # 0 /\ e.kind = "failed" =>
          \/ e.payment # None /\ payment[c] = e.payment
          \/ e.sub # None /\ sub[c] = e.sub /\ phase[c] \in Open

RequestsOK ==
    \A r \in Requests :
        /\ handling[r] = None => found[r] = 0
        /\ handling[r] # None => Matched(r)
        /\ \A q \in Requests : r # q /\ handling[r] # None =>
               handling[q] # handling[r] /\ (found[r] # 0 => found[q] # found[r])

IInv == TypeOK /\ RequestsOK /\ OneCasePerPayment /\ RecoveredHasEvidence

-----------------------------------------------------------------------------
(* Phases.                                                                 *)

LEMMA PhasesStay ==
    ASSUME NEW s \in Phases, s # "NONE"
    PROVE  /\ OnFailure(s) \cup OnRecovery(s) \cup OnReply(s) \cup OnWork(s)
                  \subseteq Phases \ {"NONE"}
           /\ \A t \in OnFailure(s) \cup OnReply(s) \cup OnWork(s) :
                  t = "RECOVERED" => s = "RECOVERED"
  BY DEF Phases, OnFailure, OnRecovery, OnReply, OnWork, Decided, Automated

LEMMA FirstPhase ==
    ASSUME NEW prior \in BOOLEAN
    PROVE  /\ OnOpening(prior) \subseteq Phases \ {"NONE"}
           /\ "RECOVERED" \in OnOpening(prior) => prior
  BY DEF Phases, OnOpening, Decided, Automated

-----------------------------------------------------------------------------
(* Requests.                                                               *)

\* What Receive finds is a case, and a failure finds one of its payment or
\* an open one of its subscription.
LEMMA MatchesFit ==
    ASSUME TypeOK, NEW e, NEW c \in Matches(e)
    PROVE  /\ c \in 1..n
           /\ e.kind = "failed" =>
                 \/ e.payment # None /\ payment[c] = e.payment
                 \/ e.sub # None /\ sub[c] = e.sub /\ phase[c] \in Open
  BY DEF Matches, FirstNonEmpty, ByPayment, ByLink, ByEvent, BySub, Latest, Opened, Kinds

LEMMA ReceiveKeepsIInv ==
    ASSUME IInv, NEW r \in Requests, NEW e \in Events, Receive(r, e)
    PROVE  IInv'
<1> USE NoneAssumption DEF IInv
<1>1. e # None
  OBVIOUS
<1>2. handling' = [handling EXCEPT ![r] = e] /\ handling[r] = None /\ e \notin stored
      /\ \A q \in Requests : handling[q] # e
  BY DEF Receive
<1>3. PICK c : /\ c = 0 \/ (c \in Matches(e) /\ ~Locked(c))
               /\ found' = [found EXCEPT ![r] = c]
  BY DEF Receive
<1>4. c \in 0..n
  BY <1>3, MatchesFit, CasesAssumption DEF TypeOK
<1>5. UNCHANGED <<n, payment, sub, link, phase, madeFor, stored, linked>>
  BY DEF Receive, caseVars, idVars
<1>10. overlapped' \in BOOLEAN
  BY DEF Receive
<1>6. TypeOK'
  BY <1>2, <1>3, <1>4, <1>5, <1>10, CasesAssumption DEF TypeOK
<1>7. RequestsOK'
  <2> SUFFICES ASSUME NEW q \in Requests, NEW s \in Requests
               PROVE  /\ handling'[q] = None => found'[q] = 0
                      /\ handling'[q] # None => Matched(q)'
                      /\ q # s /\ handling'[q] # None =>
                           handling'[s] # handling'[q] /\ (found'[q] # 0 => found'[s] # found'[q])
    BY DEF RequestsOK
  <2>1. handling'[r] = e /\ found'[r] = c
    BY <1>2, <1>3 DEF TypeOK
  <2>2. \A t \in Requests : t # r => handling'[t] = handling[t] /\ found'[t] = found[t]
    BY <1>2, <1>3 DEF TypeOK
  <2>3. Matched(r)'
    BY <1>2, <1>3, <1>4, <1>5, <2>1, MatchesFit DEF Matched, Open
  <2>4. ASSUME q # r PROVE handling'[q] # None => Matched(q)'
    BY <1>5, <2>2, <2>4 DEF RequestsOK, Matched, Open
  <2>5. ASSUME NEW t \in Requests, t # r, c # 0, handling[t] # None PROVE found[t] # c
    BY <1>3, <2>5 DEF Locked
  <2>6. ASSUME NEW t \in Requests, handling[t] = None, c # 0 PROVE found[t] # c
    BY <2>6 DEF RequestsOK
  <2> QED BY <1>1, <1>2, <2>1, <2>2, <2>3, <2>4, <2>5, <2>6 DEF RequestsOK
<1>8. (OneCasePerPayment /\ RecoveredHasEvidence)'
  BY <1>5 DEF OneCasePerPayment, RecoveredHasEvidence, Opened
<1> QED BY <1>6, <1>7, <1>8

\* A request that ends leaves the others what they found, as long as it only
\* writes its own case and a new one.
LEMMA EndKeepsRequests ==
    ASSUME IInv, NEW r \in Requests, handling[r] # None,
           handling' = [handling EXCEPT ![r] = None], found' = [found EXCEPT ![r] = 0],
           n' \in Nat, n' >= n, stored' \subseteq stored \cup {handling[r]},
           \A c \in Opened : Locked(c) /\ c # found[r] =>
               payment'[c] = payment[c] /\ sub'[c] = sub[c] /\ phase'[c] = phase[c]
    PROVE  RequestsOK'
<1> USE DEF IInv
<1>1. handling'[r] = None /\ found'[r] = 0
  BY DEF TypeOK
<1>2. ASSUME NEW q \in Requests, q # r
      PROVE  handling'[q] = handling[q] /\ found'[q] = found[q]
  BY <1>2 DEF TypeOK
<1>3. ASSUME NEW q \in Requests, q # r, handling[q] # None PROVE Matched(q)'
  <2>1. Matched(q) /\ handling[q] # handling[r] /\ (found[q] # 0 => found[q] # found[r])
    BY <1>3 DEF RequestsOK
  <2>2. handling'[q] = handling[q] /\ found'[q] = found[q] /\ found[q] \in 0..n /\ n \in Nat
    BY <1>2, <1>3, <2>1, CasesAssumption DEF Matched, TypeOK
  <2>3. found[q] # 0 => found[q] \in Opened /\ Locked(found[q])
    BY <1>3, <2>2 DEF Opened, Locked
  <2>4. handling[q] \notin stored' /\ found[q] \in 0..n'
    BY <2>1, <2>2 DEF Matched
  <2> QED BY <2>1, <2>2, <2>3, <2>4 DEF Matched, Open
<1> QED BY <1>1, <1>2, <1>3 DEF RequestsOK

\* A new state of a case, with evidence for it that a commit adds or leaves.
LEMMA WriteKeepsEvidence ==
    ASSUME IInv, NEW c \in Opened, NEW s \in Phases, phase' = [phase EXCEPT ![c] = s], n' = n,
           stored \subseteq stored', \A e \in stored : linked'[e] = linked[e],
           s = "RECOVERED" => \/ phase[c] = "RECOVERED"
                              \/ \E e \in stored' : /\ e.kind \in {"recovered", "paid"}
                                                    /\ linked'[e] = c
    PROVE  RecoveredHasEvidence'
<1>1. \A d \in Opened : phase'[d] = IF d = c THEN s ELSE phase[d]
  BY CasesAssumption DEF IInv, TypeOK, Opened, CaseIds
<1> QED BY <1>1 DEF IInv, RecoveredHasEvidence, Opened

\* The commit of a request that found its case.
LEMMA CommitKeepsIInv ==
    ASSUME IInv, NEW r \in Requests, handling[r] # None, NEW c \in Opened, ~Locked(c) \/ c = found[r],
           NEW s \in Phases \ {"NONE"}, phase' = [phase EXCEPT ![c] = s], Commit(r, c),
           UNCHANGED <<n, payment, sub, link, madeFor, overlapped>>,
           s = "RECOVERED" => \/ phase[c] = "RECOVERED"
                              \/ handling[r].kind \in {"recovered", "paid"}
    PROVE  IInv'
<1> USE DEF IInv
<1>1. /\ handling[r] \in Events /\ handling[r] \notin stored
      /\ c \in CaseIds /\ n \in Nat /\ n <= MaxCases /\ c <= n
  BY CasesAssumption DEF TypeOK, RequestsOK, Matched, Opened, CaseIds
<1>2. /\ stored' = stored \cup {handling[r]}
      /\ \A e \in Events : linked'[e] = IF e = handling[r] THEN c ELSE linked[e]
  BY <1>1 DEF Commit, TypeOK
<1>3. TypeOK'
  <2>1. handling' \in [Requests -> Events \cup {None}] /\ found' \in [Requests -> 0..MaxCases]
    BY CasesAssumption DEF TypeOK, Commit
  <2>2. linked' \in [Events -> 0..MaxCases] /\ stored' \subseteq Events
    BY <1>1, CasesAssumption DEF TypeOK, Commit, CaseIds
  <2>3. phase' \in [CaseIds -> Phases] /\ \A d \in CaseIds : phase'[d] = "NONE" <=> phase[d] = "NONE"
    BY <1>1 DEF TypeOK, Opened
  <2> QED BY <2>1, <2>2, <2>3 DEF TypeOK
<1>4. RequestsOK'
  <2>1. handling' = [handling EXCEPT ![r] = None] /\ found' = [found EXCEPT ![r] = 0]
    BY DEF Commit
  <2>2. \A d \in Opened : Locked(d) /\ d # found[r] =>
            payment'[d] = payment[d] /\ sub'[d] = sub[d] /\ phase'[d] = phase[d]
    BY <1>1 DEF TypeOK, Opened, CaseIds
  <2>3. n' \in Nat /\ n' >= n
    BY <1>1
  <2> QED BY <1>2, <2>1, <2>2, <2>3, EndKeepsRequests
<1>5. RecoveredHasEvidence'
  BY <1>1, <1>2, WriteKeepsEvidence DEF TypeOK
<1>6. OneCasePerPayment'
  BY DEF OneCasePerPayment, Opened
<1> QED BY <1>3, <1>4, <1>5, <1>6

LEMMA FailKnownKeepsIInv ==
    ASSUME IInv, NEW r \in Requests, FailKnown(r)
    PROVE  IInv'
<1> DEFINE e == handling[r]
           c == found[r]
<1> USE DEF IInv
<1>1. /\ e # None /\ e \in Events /\ e \notin stored
      /\ c \in Opened /\ c \in CaseIds /\ n \in Nat /\ n <= MaxCases /\ c <= n
  BY CasesAssumption DEF FailKnown, TypeOK, RequestsOK, Matched, Opened, CaseIds
<1>2. PICK s \in OnFailure(phase[c]) : phase' = [phase EXCEPT ![c] = s]
  BY DEF FailKnown, SetPhase
<1>3. /\ s \in Phases \ {"NONE"}
      /\ s = "RECOVERED" => phase[c] = "RECOVERED"
  BY <1>1, <1>2, PhasesStay DEF TypeOK, Opened
<1>4. CASE UNCHANGED payment
  BY <1>1, <1>2, <1>3, <1>4, CommitKeepsIInv DEF FailKnown
<1>5. CASE ~UNCHANGED payment
  <2>1. e.payment # None /\ IndexAllows(e.payment) /\ payment' = [payment EXCEPT ![c] = e.payment]
    BY <1>5 DEF FailKnown
  <2>2. /\ stored' = stored \cup {e}
        /\ \A f \in Events : linked'[f] = IF f = e THEN c ELSE linked[f]
    BY <1>1 DEF FailKnown, Commit, TypeOK
  <2>3. TypeOK'
    <3>1. handling' \in [Requests -> Events \cup {None}] /\ found' \in [Requests -> 0..MaxCases]
      BY CasesAssumption DEF TypeOK, FailKnown, Commit
    <3>2. linked' \in [Events -> 0..MaxCases] /\ stored' \subseteq Events
      BY <1>1, CasesAssumption DEF TypeOK, FailKnown, Commit, CaseIds
    <3>3. payment' \in [CaseIds -> {f.payment : f \in Events} \cup {None}]
      BY <1>1, <2>1 DEF TypeOK
    <3>4. phase' \in [CaseIds -> Phases] /\ \A d \in CaseIds : phase'[d] = "NONE" <=> phase[d] = "NONE"
      BY <1>1, <1>2, <1>3 DEF TypeOK
    <3> QED BY <3>1, <3>2, <3>3, <3>4 DEF TypeOK, FailKnown
  <2>4. RequestsOK'
    <3>1. handling' = [handling EXCEPT ![r] = None] /\ found' = [found EXCEPT ![r] = 0]
      BY DEF FailKnown, Commit
    <3>2. \A d \in Opened : Locked(d) /\ d # found[r] =>
              payment'[d] = payment[d] /\ sub'[d] = sub[d] /\ phase'[d] = phase[d]
      BY <1>1, <1>2, <2>1, CasesAssumption DEF FailKnown, TypeOK, Opened, CaseIds
    <3>3. n' \in Nat /\ n' >= n
      BY <1>1 DEF FailKnown
    <3> QED BY <1>1, <2>2, <3>1, <3>2, <3>3, EndKeepsRequests
  <2>5. RecoveredHasEvidence'
    BY <1>1, <1>2, <1>3, <2>2, WriteKeepsEvidence DEF FailKnown, TypeOK
  <2>6. OneCasePerPayment'
    BY <1>1, <2>1 DEF FailKnown, OneCasePerPayment, IndexAllows, ByPayment, Opened, TypeOK
  <2> QED BY <2>3, <2>4, <2>5, <2>6
<1> QED BY <1>4, <1>5

LEMMA OpenCaseKeepsIInv ==
    ASSUME IInv, NEW r \in Requests, OpenCase(r)
    PROVE  IInv'
<1> DEFINE e == handling[r]
           c == n + 1
           Prior == PriorRecoveries(e.payment)
<1> USE DEF IInv
<1>1. /\ e # None /\ e \in Events /\ e \notin stored
      /\ n \in Nat /\ n < MaxCases /\ c \in CaseIds /\ c \notin Opened /\ n' = c
  BY CasesAssumption DEF OpenCase, TypeOK, RequestsOK, Matched, Opened, CaseIds
<1>2. PICK s \in OnOpening(Prior # {}) : phase' = [phase EXCEPT ![c] = s]
  BY DEF OpenCase, SetPhase
<1>3. s \in Phases \ {"NONE"} /\ (s = "RECOVERED" => Prior # {})
  BY <1>2, FirstPhase
<1>4. /\ payment' = [payment EXCEPT ![c] = e.payment] /\ sub' = [sub EXCEPT ![c] = e.sub]
      /\ stored' = stored \cup {e} /\ IndexAllows(e.payment) /\ UNCHANGED <<link, madeFor, overlapped>>
      /\ handling' = [handling EXCEPT ![r] = None] /\ found' = [found EXCEPT ![r] = 0]
  BY DEF OpenCase
<1>5. \/ Prior = {} /\ linked' = [linked EXCEPT ![e] = c]
      \/ \E f \in Prior : linked' = [linked EXCEPT ![e] = c, ![f] = c]
  BY DEF OpenCase, LinkWithPrior
<1>6. Prior \subseteq Events /\ \A f \in Prior : f \in stored /\ f.kind = "recovered" /\ linked[f] = 0
  BY DEF PriorRecoveries, TypeOK
<1>7. /\ linked' \in [Events -> 0..MaxCases]
      /\ \A f \in stored : linked[f] # 0 => linked'[f] = linked[f]
      /\ Prior # {} => \E f \in stored : f.kind = "recovered" /\ linked'[f] = c
  <2>1. linked \in [Events -> 0..MaxCases] /\ c \in 0..MaxCases /\ c # 0
    BY <1>1, CasesAssumption DEF TypeOK, CaseIds
  <2>2. CASE Prior = {} /\ linked' = [linked EXCEPT ![e] = c]
    BY <1>1, <2>1, <2>2 DEF TypeOK
  <2>3. CASE \E f \in Prior : linked' = [linked EXCEPT ![e] = c, ![f] = c]
    BY <1>1, <1>6, <2>1, <2>3 DEF TypeOK
  <2> QED BY <1>5, <2>2, <2>3
<1>8. TypeOK'
  <2>1. n' \in 0..MaxCases /\ \A d \in CaseIds : d > n' <=> phase'[d] = "NONE"
    BY <1>1, <1>2, <1>3, CasesAssumption DEF TypeOK, CaseIds
  <2>2. handling' \in [Requests -> Events \cup {None}] /\ found' \in [Requests -> 0..MaxCases]
    BY <1>4, CasesAssumption DEF TypeOK
  <2>3. payment' \in [CaseIds -> {f.payment : f \in Events} \cup {None}]
    BY <1>1, <1>4 DEF TypeOK
  <2>4. sub' \in [CaseIds -> {f.sub : f \in Events} \cup {None}]
    BY <1>1, <1>4 DEF TypeOK
  <2>5. phase' \in [CaseIds -> Phases]
    BY <1>1, <1>2, <1>3 DEF TypeOK
  <2> QED BY <1>1, <1>4, <1>7, <2>1, <2>2, <2>3, <2>4, <2>5 DEF TypeOK
<1>9. RequestsOK'
  <2>1. \A d \in Opened : payment'[d] = payment[d] /\ sub'[d] = sub[d] /\ phase'[d] = phase[d]
    BY <1>1, <1>2, <1>4, CasesAssumption DEF TypeOK, Opened, CaseIds
  <2>2. n' \in Nat /\ n' >= n
    BY <1>1
  <2> QED BY <1>1, <1>4, <2>1, <2>2, EndKeepsRequests
<1>10. \A d \in Opened' : d = c \/ (d \in Opened /\ d \in CaseIds)
  BY <1>1, CasesAssumption DEF Opened, CaseIds
<1>11. RecoveredHasEvidence'
  <2> SUFFICES ASSUME NEW d \in Opened', phase'[d] = "RECOVERED"
               PROVE  \E f \in stored' : f.kind \in {"recovered", "paid"} /\ linked'[f] = d
    BY DEF RecoveredHasEvidence
  <2>1. CASE d = c
    BY <1>1, <1>2, <1>3, <1>4, <1>7, <2>1 DEF TypeOK
  <2>2. CASE d # c
    <3>1. phase[d] = "RECOVERED" /\ d \in Opened /\ d # 0
      BY <1>1, <1>2, <1>10, <2>2 DEF TypeOK, Opened
    <3> QED BY <1>4, <1>7, <3>1 DEF RecoveredHasEvidence
  <2> QED BY <2>1, <2>2
<1>12. OneCasePerPayment'
  BY <1>1, <1>4, <1>10 DEF OneCasePerPayment, IndexAllows, ByPayment, TypeOK
<1> QED BY <1>8, <1>9, <1>11, <1>12

LEMMA HandleKeepsIInv ==
    ASSUME IInv, NEW r \in Requests, Handle(r)
    PROVE  IInv'
<1> USE DEF IInv
<1>1. n \in Nat /\ Opened \subseteq CaseIds
  BY CasesAssumption DEF TypeOK, Opened, CaseIds
<1>2. \A c \in Opened : phase[c] \in Phases \ {"NONE"}
  BY <1>1 DEF TypeOK, Opened
<1>3. handling[r] # None /\ found[r] # 0 => found[r] \in Opened
  BY <1>1 DEF RequestsOK, Matched, Opened
<1>4. CASE FailRaced(r)
  <2>. PICK c \in ByPayment(handling[r].payment) :
            ~Locked(c) /\ SetPhase(c, OnFailure(phase[c])) /\ Commit(r, c)
    BY <1>4 DEF FailRaced
  <2>1. PICK s \in OnFailure(phase[c]) : phase' = [phase EXCEPT ![c] = s]
    BY DEF SetPhase
  <2>2. c \in Opened /\ s \in Phases \ {"NONE"} /\ (s = "RECOVERED" => phase[c] = "RECOVERED")
    BY <1>2, <2>1, PhasesStay DEF ByPayment
  <2> QED BY <1>4, <2>1, <2>2, CommitKeepsIInv DEF FailRaced, idVars
<1>5. CASE Recover(r)
  <2>1. PICK s \in OnRecovery(phase[found[r]]) : phase' = [phase EXCEPT ![found[r]] = s]
    BY <1>5 DEF Recover, SetPhase
  <2>2. found[r] \in Opened /\ s \in Phases \ {"NONE"}
    BY <1>2, <1>3, <1>5, <2>1, PhasesStay DEF Recover
  <2> QED BY <1>5, <2>1, <2>2, CommitKeepsIInv DEF Recover, idVars
<1>6. CASE Dispute(r)
  BY <1>3, <1>6, CommitKeepsIInv DEF Dispute, SetPhase, idVars, Phases
<1>7. CASE StoreUnlinked(r)
  <2>1. /\ handling[r] # None /\ handling[r] \in Events /\ handling[r] \notin stored
        /\ stored' = stored \cup {handling[r]}
        /\ \A e \in Events : linked'[e] = IF e = handling[r] THEN 0 ELSE linked[e]
        /\ UNCHANGED <<n, payment, sub, link, phase, madeFor>>
    BY <1>7 DEF StoreUnlinked, Commit, caseVars, idVars, TypeOK, RequestsOK, Matched
  <2>2. TypeOK'
    BY <1>7, <2>1, CasesAssumption DEF TypeOK, StoreUnlinked, Commit
  <2>3. RequestsOK'
    <3>1. n' = n /\ n' >= n /\ payment' = payment /\ sub' = sub /\ phase' = phase
      BY <1>1, <2>1
    <3>2. handling' = [handling EXCEPT ![r] = None] /\ found' = [found EXCEPT ![r] = 0]
      BY <1>7 DEF StoreUnlinked, Commit
    <3> QED BY <1>1, <2>1, <3>1, <3>2, EndKeepsRequests
  <2>4. RecoveredHasEvidence' /\ OneCasePerPayment'
    BY <2>1 DEF RecoveredHasEvidence, OneCasePerPayment, Opened, TypeOK
  <2> QED BY <2>2, <2>3, <2>4
<1> QED BY <1>4, <1>5, <1>6, <1>7, FailKnownKeepsIInv, OpenCaseKeepsIInv DEF Handle

\* Work on a case, and a reply, wait for the case's lock.
LEMMA WorkKeepsIInv ==
    ASSUME IInv, NEW c \in CaseIds,
           Reply(c) \/ Work(c) \/ \E l \in Links : RecordLink(c, l)
    PROVE  IInv'
<1> USE DEF IInv
<1>1. c \in Opened /\ ~Locked(c) /\ phase[c] \in Phases \ {"NONE"} /\ n \in Nat
  BY CasesAssumption DEF Reply, Work, RecordLink, Live, TypeOK, Opened, CaseIds
<1>2. PICK s \in Phases \ {"NONE"} : /\ phase' = [phase EXCEPT ![c] = s]
                                     /\ s = "RECOVERED" => phase[c] = "RECOVERED"
  BY <1>1, PhasesStay DEF Reply, Work, RecordLink, SetPhase, Phases, Automated
<1>3. UNCHANGED <<n, payment, sub, stored, linked, handling, found, overlapped>>
  BY DEF Reply, Work, RecordLink, idVars, reqVars
<1>4. link' \in [CaseIds -> Links \cup {None}] /\ madeFor' \in [Links -> 0..MaxCases]
  <2>1. CASE Reply(c) \/ Work(c)
    BY <2>1 DEF Reply, Work, idVars, TypeOK
  <2>2. ASSUME NEW l \in Links, RecordLink(c, l) PROVE <1>4!1 /\ <1>4!2
    BY <2>2, CasesAssumption DEF RecordLink, TypeOK, CaseIds
  <2> QED BY <2>1, <2>2
<1>5. phase' \in [CaseIds -> Phases] /\ \A d \in CaseIds : phase'[d] = "NONE" <=> phase[d] = "NONE"
  BY <1>1, <1>2 DEF TypeOK
<1>6. TypeOK'
  BY <1>3, <1>4, <1>5 DEF TypeOK
<1>7. RequestsOK'
  <2>1. \A d \in Opened : Locked(d) => phase'[d] = phase[d]
    BY <1>1, <1>2, CasesAssumption DEF TypeOK, Opened, CaseIds
  <2> SUFFICES ASSUME NEW r \in Requests, handling[r] # None PROVE Matched(r)'
    BY <1>3 DEF RequestsOK
  <2>2. Matched(r) /\ (found[r] # 0 => found[r] \in Opened /\ Locked(found[r]))
    BY <1>1 DEF RequestsOK, Matched, Opened, Locked
  <2> QED BY <1>3, <2>1, <2>2 DEF Matched, Open
<1>8. RecoveredHasEvidence'
  BY <1>1, <1>2, <1>3, WriteKeepsEvidence
<1>9. OneCasePerPayment'
  BY <1>3 DEF OneCasePerPayment, Opened
<1> QED BY <1>6, <1>7, <1>8, <1>9

LEMMA RollBackKeepsIInv ==
    ASSUME IInv, NEW r \in Requests, RollBack(r)
    PROVE  IInv'
<1> USE DEF IInv
<1>1. UNCHANGED <<n, payment, sub, link, phase, madeFor, stored, linked>>
  BY DEF RollBack, caseVars, idVars
<1>2. TypeOK'
  BY <1>1, CasesAssumption DEF RollBack, TypeOK
<1>3. RequestsOK'
  <2>1. n' \in Nat /\ n' >= n
    BY <1>1, CasesAssumption DEF TypeOK
  <2>2. handling[r] # None /\ handling' = [handling EXCEPT ![r] = None]
        /\ found' = [found EXCEPT ![r] = 0]
    BY DEF RollBack
  <2> QED BY <1>1, <2>1, <2>2, EndKeepsRequests
<1>4. (OneCasePerPayment /\ RecoveredHasEvidence)'
  BY <1>1 DEF OneCasePerPayment, RecoveredHasEvidence, Opened
<1> QED BY <1>2, <1>3, <1>4

LEMMA InitIInv == Init => IInv
<1> SUFFICES ASSUME Init PROVE IInv
  OBVIOUS
<1>1. overlapped \in BOOLEAN
  BY DEF Init
<1>2. TypeOK
  BY <1>1, CasesAssumption DEF Init, TypeOK, CaseIds, Phases
<1>3. RequestsOK /\ OneCasePerPayment /\ RecoveredHasEvidence
  BY DEF Init, RequestsOK, OneCasePerPayment, RecoveredHasEvidence, Opened
<1> QED BY <1>2, <1>3 DEF IInv

LEMMA StepKeepsIInv == IInv /\ [Next]_vars => IInv'
<1> SUFFICES ASSUME IInv, [Next]_vars PROVE IInv'
  OBVIOUS
<1>1. CASE UNCHANGED vars
  BY <1>1 DEF vars, caseVars, idVars, reqVars, IInv, TypeOK, RequestsOK, Matched,
              OneCasePerPayment, RecoveredHasEvidence, Opened, Open
<1> QED BY <1>1, ReceiveKeepsIInv, HandleKeepsIInv, RollBackKeepsIInv, WorkKeepsIInv DEF Next, Deliver

THEOREM Invariance == Spec => []IInv
  BY InitIInv, StepKeepsIInv, PTL DEF Spec

-----------------------------------------------------------------------------
(* The theorems for any number of requests at a time.                      *)

\* The tables keep their types, however requests overlap and roll back.
THEOREM TypeCorrect == Spec => []TypeOK
<1>1. IInv => TypeOK
  BY DEF IInv
<1> QED BY <1>1, Invariance, PTL

\* No two cases for one payment: every write of a payment into a case goes
\* through the unique index.
THEOREM PaymentsHaveOneCase == Spec => []OneCasePerPayment
<1>1. IInv => OneCasePerPayment
  BY DEF IInv
<1> QED BY <1>1, Invariance, PTL

\* A recovered case has provider evidence linked to it, whichever of the case
\* and the evidence was there first.
THEOREM RecoveriesHaveEvidence == Spec => []RecoveredHasEvidence
<1>1. IInv => RecoveredHasEvidence
  BY DEF IInv
<1> QED BY <1>1, Invariance, PTL

\* A case takes over a payment only while it is open: what the request saw of
\* the case when it found it still holds when it writes it.
THEOREM ClosedCasesKeepPayment == Spec => TakesOverWhileOpen
<1> DEFINE Good == \A c \in Opened : payment'[c] # payment[c] => phase[c] \in Open
<1>1. IInv /\ [Next]_vars => Good
  <2> SUFFICES ASSUME IInv, [Next]_vars, NEW c \in Opened, payment'[c] # payment[c]
               PROVE  phase[c] \in Open
    OBVIOUS
  <2>1. CASE \E r \in Requests : FailKnown(r)
    <3> PICK r \in Requests : FailKnown(r)
      BY <2>1
    <3>1. c \in CaseIds /\ payment \in [CaseIds -> {e.payment : e \in Events} \cup {None}]
      BY CasesAssumption DEF IInv, TypeOK, Opened, CaseIds
    <3>2. /\ handling[r] # None /\ handling[r].kind = "failed" /\ found[r] # 0
          /\ handling[r].payment # payment[found[r]]
          /\ payment' = [payment EXCEPT ![found[r]] = handling[r].payment]
      BY DEF FailKnown
    <3>3. c = found[r]
      BY <3>1, <3>2
    <3> QED BY <3>2, <3>3 DEF IInv, RequestsOK, Matched
  <2>2. CASE \E r \in Requests : OpenCase(r)
    BY <2>2, CasesAssumption DEF OpenCase, IInv, TypeOK, Opened, CaseIds
  <2>3. CASE ~\E r \in Requests : FailKnown(r) \/ OpenCase(r)
    BY <2>3 DEF Next, Deliver, Receive, Handle, FailRaced, Recover, Dispute, StoreUnlinked,
                RollBack, Reply, Work, RecordLink, vars, caseVars, idVars
  <2> QED BY <2>1, <2>2, <2>3
<1>2. IInv /\ [Next]_vars => [Good]_vars
  BY <1>1
<1> QED BY <1>2, Invariance, PTL DEF Spec, TakesOverWhileOpen
-----------------------------------------------------------------------------
(* What holds of Correlation as long as requests have not overlapped, as   *)
(* they never do in the one API process of docker-compose.prod.yml:        *)
(* subscriptions are not automated twice, and the order of a payment's     *)
(* failure and capture does not matter.                                    *)

Alone == \A r, q \in Requests : handling[r] # None /\ handling[q] # None => r = q

(* The inductive invariant adds to IInv what a request that found no case  *)
(* knows about the cases there are: nothing can open one in the meantime.  *)

NoRival(r) ==
    LET e == handling[r] IN
    e.kind = "failed" /\ found[r] = 0 =>
        \A d \in Opened : e.sub # None /\ sub[d] = e.sub => phase[d] \notin Automated

OnlyCaseSeen(r) ==
    LET e == handling[r] IN
    e.kind = "recovered" /\ e.payment # None =>
        \A d \in Opened : payment[d] = e.payment => d = found[r]

PlainCaseSeen(r) ==
    LET e == handling[r] IN
    found[r] # 0 /\ PlainPayment(e.payment) => payment[found[r]] = e.payment

Seen == \A r \in Requests :
            handling[r] # None => NoRival(r) /\ OnlyCaseSeen(r) /\ PlainCaseSeen(r)

PlainCases == \A d \in Opened : PlainPayment(payment[d]) => sub[d] = None

PlainEvents ==
    \A f \in stored : PlainPayment(f.payment) /\ linked[f] # 0 =>
        linked[f] \in Opened /\ payment[linked[f]] = f.payment

SInv == /\ IInv /\ ~overlapped /\ Alone /\ Seen /\ PlainCases /\ PlainEvents
        /\ OneAutomatedCasePerSubscription /\ OrderDoesNotMatter

-----------------------------------------------------------------------------
(* Cases.                                                                  *)

LEMMA LeastExists ==
    ASSUME NEW T \in SUBSET Nat, T # {}
    PROVE  \E x \in T : \A y \in T : x <= y
<1> DEFINE Less == {p \in Nat \X Nat : p[1] < p[2]}
<1> HIDE DEF Less
<1>1. IsWellFoundedOn(Less, Nat)
  BY NatLessThanWellFounded DEF OpToRel, Less
<1>2. PICK x \in T : \A y \in T : ~ (<<y, x>> \in Less)
  BY <1>1, WFMin
<1>3. ASSUME NEW y \in T PROVE x <= y
  <2>1. x \in Nat /\ y \in Nat /\ <<y, x>> \notin Less
    BY <1>2
  <2> QED BY <2>1 DEF Less
<1> QED BY <1>3

\* The latest of some cases exists, so that BySub finds one if there is one.
LEMMA LatestExists ==
    ASSUME TypeOK, NEW S \in SUBSET Opened, S # {}
    PROVE  Latest(S) # {}
<1> DEFINE T == {n - c : c \in S}
<1>1. n \in Nat /\ \A c \in S : c \in 1..n
  BY CasesAssumption DEF TypeOK, Opened
<1>2. T \subseteq Nat /\ T # {}
  BY <1>1
<1> HIDE DEF T
<1>4. PICK x \in T : \A y \in T : x <= y
  BY <1>2, LeastExists
<1> USE DEF T
<1>5. PICK c \in S : x = n - c
  BY <1>4
<1>6. ASSUME NEW d \in S PROVE d <= c
  <2>1. n - c <= n - d
    BY <1>4, <1>5
  <2> QED BY <1>1, <2>1
<1> QED BY <1>6 DEF Latest

LEMMA CasesAreTyped ==
    ASSUME TypeOK
    PROVE  /\ n \in Nat /\ Opened \subseteq CaseIds /\ n + 1 \notin Opened
           /\ \A c \in Opened : c # 0 /\ phase[c] \in Phases \ {"NONE"}
  BY CasesAssumption DEF TypeOK, Opened, CaseIds

\* A case keeps its subscription, and is not automated again.
LEMMA CasesStay ==
    ASSUME TypeOK, [Next]_vars, NEW c \in Opened
    PROVE  /\ sub'[c] = sub[c]
           /\ phase[c] \notin Automated => phase'[c] \notin Automated
<1>1. /\ c \in CaseIds /\ c # n + 1 /\ phase[c] \in Phases \ {"NONE"}
      /\ sub \in [CaseIds -> {e.sub : e \in Events} \cup {None}]
      /\ phase \in [CaseIds -> Phases]
  BY CasesAreTyped DEF TypeOK
<1>2. sub'[c] = sub[c]
  BY <1>1 DEF Next, Deliver, Receive, Handle, OpenCase, FailKnown, FailRaced, Recover, Dispute,
              StoreUnlinked, RollBack, Reply, Work, RecordLink, vars, caseVars, idVars
<1> SUFFICES ASSUME phase[c] \notin Automated PROVE phase'[c] \notin Automated
  BY <1>2
<1>3. ASSUME NEW d, NEW S, SetPhase(d, S), d = c => S \cap Automated = {}
      PROVE  phase'[c] \notin Automated
  BY <1>1, <1>3 DEF SetPhase
<1>4. (OnFailure(phase[c]) \cup OnRecovery(phase[c]) \cup OnReply(phase[c])
           \cup OnWork(phase[c])) \cap Automated = {}
  BY <1>1 DEF OnFailure, OnRecovery, OnReply, OnWork, Automated, Phases
<1>5. CASE \E r \in Requests : Handle(r)
  <2> PICK r \in Requests : Handle(r)
    BY <1>5
  <2>1. CASE FailKnown(r)
    BY <1>3, <1>4, <2>1 DEF FailKnown
  <2>2. CASE FailRaced(r)
    BY <1>3, <1>4, <2>2 DEF FailRaced
  <2>3. CASE OpenCase(r)
    BY <1>1, <1>3, <2>3 DEF OpenCase
  <2>4. CASE Recover(r)
    BY <1>3, <1>4, <2>4 DEF Recover
  <2>5. CASE Dispute(r)
    BY <1>3, <2>5 DEF Dispute, Automated
  <2>6. CASE StoreUnlinked(r)
    BY <2>6 DEF StoreUnlinked, caseVars
  <2> QED BY <2>1, <2>2, <2>3, <2>4, <2>5, <2>6 DEF Handle
<1>6. ASSUME NEW d \in CaseIds, Reply(d) \/ Work(d) \/ \E l \in Links : RecordLink(d, l)
      PROVE  phase'[c] \notin Automated
  BY <1>3, <1>4, <1>6 DEF Reply, Work, RecordLink, Automated
<1>7. CASE phase' = phase
  BY <1>7
<1> QED BY <1>5, <1>6, <1>7 DEF Next, Deliver, Receive, RollBack, vars, caseVars

\* With one request at a time, nothing but it opens a case or stores events.
LEMMA RequestAlone ==
    ASSUME Alone, IInv, [Next]_vars, NEW r \in Requests, handling'[r] # None
    PROVE  /\ UNCHANGED <<n, payment, sub, stored, linked>>
           /\ \/ \E e \in Events : Receive(r, e)
              \/ handling'[r] = handling[r] /\ found'[r] = found[r]
<1>1. ASSUME NEW q \in Requests, handling[q] # None, handling' = [handling EXCEPT ![q] = None]
      PROVE  FALSE
  BY <1>1 DEF Alone, IInv, TypeOK
<1>2. ~\E q \in Requests : Handle(q) \/ RollBack(q)
  BY <1>1 DEF Handle, FailKnown, FailRaced, OpenCase, Recover, Dispute, StoreUnlinked, Commit, RollBack
<1>3. ASSUME NEW q \in Requests, NEW e \in Events, Receive(q, e)
      PROVE  /\ UNCHANGED <<n, payment, sub, stored, linked>>
             /\ q # r => handling'[r] = handling[r] /\ found'[r] = found[r]
  BY <1>3 DEF Receive, caseVars, idVars, IInv, TypeOK
<1>4. CASE \E q \in Requests : Deliver(q)
  BY <1>3, <1>4 DEF Deliver
<1>5. CASE ~\E q \in Requests : Deliver(q)
  BY <1>2, <1>5 DEF Next, Reply, Work, RecordLink, vars, caseVars, idVars, reqVars
<1> QED BY <1>4, <1>5

\* While requests have not overlapped, at most one is under way.
LEMMA AloneStays ==
    ASSUME Alone, IInv, [Next]_vars, ~overlapped'
    PROVE  Alone'
<1>1. ASSUME NEW q \in Requests, NEW e \in Events, Receive(q, e) PROVE Alone'
  BY <1>1 DEF Receive, Alone, IInv, TypeOK
<1>2. ASSUME \A r \in Requests : handling'[r] # None => handling[r] # None PROVE Alone'
  BY <1>2 DEF Alone
<1>3. ASSUME NEW q \in Requests, Handle(q) \/ RollBack(q) PROVE Alone'
  <2>1. handling' = [handling EXCEPT ![q] = None]
    BY <1>3 DEF Handle, FailKnown, FailRaced, OpenCase, Recover, Dispute, StoreUnlinked, Commit, RollBack
  <2> QED BY <1>2, <2>1 DEF IInv, TypeOK
<1>4. CASE handling' = handling
  BY <1>2, <1>4
<1> QED BY <1>1, <1>3, <1>4 DEF Next, Deliver, Reply, Work, RecordLink, reqVars, vars

\* An overlap is never forgotten.
LEMMA OverlapStays == [Next]_vars /\ overlapped => overlapped'
  BY DEF Next, Deliver, Receive, Handle, FailKnown, FailRaced, OpenCase, Recover, Dispute,
         StoreUnlinked, RollBack, Reply, Work, RecordLink, reqVars, vars

-----------------------------------------------------------------------------
(* What a request sees.                                                    *)

LEMMA ReceiveSees ==
    ASSUME SInv, NEW r \in Requests, NEW e \in Events, Receive(r, e)
    PROVE  (NoRival(r) /\ OnlyCaseSeen(r) /\ PlainCaseSeen(r))'
<1> USE DEF SInv, IInv
<1>1. PICK c : /\ (c = 0 /\ Matches(e) = {}) \/ c \in Matches(e)
               /\ found'[r] = c /\ handling'[r] = e
  BY DEF Receive, TypeOK
<1>2. UNCHANGED <<n, payment, sub, phase>> /\ Opened' = Opened
  BY DEF Receive, caseVars, idVars, Opened
<1>3. c \in Matches(e) => c # 0 /\ c \in Opened
  BY MatchesFit, CasesAreTyped DEF Opened
<1>4. NoRival(r)'
  <2> SUFFICES ASSUME e.kind = "failed", c = 0, NEW d \in Opened, e.sub # None, sub[d] = e.sub,
                      phase[d] \in Automated
               PROVE  FALSE
    BY <1>1, <1>2 DEF NoRival
  <2>1. BySub(e.sub, Open) = {}
    BY <1>1, <1>3 DEF Matches, FirstNonEmpty
  <2>2. d \in {b \in Opened : e.sub # None /\ sub[b] = e.sub /\ phase[b] \in Open}
    BY DEF Open
  <2> QED BY <2>1, <2>2, LatestExists DEF BySub
<1>5. OnlyCaseSeen(r)'
  <2> SUFFICES ASSUME e.kind = "recovered", e.payment # None, NEW d \in Opened,
                      payment[d] = e.payment
               PROVE  d = c
    BY <1>1, <1>2 DEF OnlyCaseSeen
  <2>1. d \in ByPayment(e.payment)
    BY DEF ByPayment
  <2>2. c \in ByPayment(e.payment)
    BY <1>1, <2>1 DEF Matches, FirstNonEmpty
  <2> QED BY <2>1, <2>2 DEF ByPayment, OneCasePerPayment
<1>6. PlainCaseSeen(r)'
  <2> SUFFICES ASSUME c # 0, PlainPayment(e.payment) PROVE payment[c] = e.payment
    BY <1>1, <1>2 DEF PlainCaseSeen, PlainPayment
  <2>1. e.payment # None /\ e.sub = None /\ e.kind # "paid" /\ c \in Matches(e)
    BY <1>1 DEF PlainPayment
  <2>2. c \in ByPayment(e.payment) \/ c \in ByEvent(e.payment)
    BY <2>1 DEF Matches, FirstNonEmpty, BySub, Latest
  <2>3. CASE c \in ByPayment(e.payment)
    BY <2>3 DEF ByPayment
  <2>4. CASE c \in ByEvent(e.payment)
    BY <1>3, <2>1, <2>4 DEF ByEvent, PlainEvents
  <2> QED BY <2>2, <2>3, <2>4
<1> QED BY <1>4, <1>5, <1>6

LEMMA SeenStays ==
    ASSUME SInv, [Next]_vars
    PROVE  Seen'
<1> USE DEF SInv, IInv
<1> SUFFICES ASSUME NEW r \in Requests, handling'[r] # None
             PROVE  (NoRival(r) /\ OnlyCaseSeen(r) /\ PlainCaseSeen(r))'
  BY DEF Seen
<1>1. CASE \E e \in Events : Receive(r, e)
  BY <1>1, ReceiveSees
<1>2. CASE handling'[r] = handling[r] /\ found'[r] = found[r]
  <2>1. UNCHANGED <<n, payment, sub>> /\ Opened' = Opened
    BY RequestAlone DEF Opened
  <2>2. NoRival(r) /\ OnlyCaseSeen(r) /\ PlainCaseSeen(r)
    BY <1>2 DEF Seen
  <2> QED BY <1>2, <2>1, <2>2, CasesStay DEF NoRival, OnlyCaseSeen, PlainCaseSeen, PlainPayment
<1> QED BY <1>1, <1>2, RequestAlone

-----------------------------------------------------------------------------
(* Payments without a subscription.                                        *)

\* A case whose payment is plain is never taken over, and no case takes a
\* plain payment over: both would need a subscription.
LEMMA PlainStays ==
    ASSUME SInv, [Next]_vars, NEW c \in Opened,
           PlainPayment(payment[c]) \/ PlainPayment(payment'[c])
    PROVE  payment'[c] = payment[c]
<1> USE DEF SInv, IInv
<1>1. c \in CaseIds /\ c # n + 1 /\ payment \in [CaseIds -> {e.payment : e \in Events} \cup {None}]
  BY CasesAreTyped DEF TypeOK
<1> SUFFICES ASSUME payment'[c] # payment[c] PROVE FALSE
  OBVIOUS
<1>2. CASE \E r \in Requests : FailKnown(r)
  <2> PICK r \in Requests : FailKnown(r)
    BY <1>2
  <2>1. /\ handling[r] # None /\ handling[r].kind = "failed" /\ found[r] # 0
        /\ handling[r].payment # payment[found[r]]
        /\ payment' = [payment EXCEPT ![found[r]] = handling[r].payment]
    BY DEF FailKnown
  <2>2. c = found[r] /\ handling[r] \in Events /\ payment'[c] = handling[r].payment
    BY <1>1, <2>1 DEF TypeOK
  <2>3. handling[r].sub # None /\ sub[c] = handling[r].sub
    BY <2>1, <2>2 DEF RequestsOK, Matched
  <2> QED BY <2>2, <2>3 DEF PlainCases, PlainPayment
<1>3. CASE ~\E r \in Requests : FailKnown(r)
  BY <1>1, <1>3 DEF Next, Deliver, Receive, Handle, OpenCase, FailRaced, Recover, Dispute,
                    StoreUnlinked, RollBack, Reply, Work, RecordLink, vars, caseVars, idVars
<1> QED BY <1>2, <1>3

\* What a step does to the cases there are and to the events there are.
LEMMA StepStores ==
    ASSUME IInv, [Next]_vars
    PROVE  \/ /\ n' = n
              /\ \/ UNCHANGED <<stored, linked>>
                 \/ \E r \in Requests : /\ Handle(r) /\ ~OpenCase(r)
                                        /\ \E c \in 0..n : Commit(r, c)
           \/ \E r \in Requests : OpenCase(r)
<1>1. n \in Nat /\ \A r \in Requests : handling[r] # None => found[r] \in 0..n
  BY CasesAreTyped DEF IInv, RequestsOK, Matched
<1>2. ASSUME NEW r \in Requests, Handle(r), ~OpenCase(r)
      PROVE  n' = n /\ \E c \in 0..n : Commit(r, c)
  <2>1. CASE FailRaced(r)
    BY <1>1, <2>1 DEF FailRaced, idVars, ByPayment, Opened
  <2>2. CASE StoreUnlinked(r)
    BY <1>1, <2>2 DEF StoreUnlinked, caseVars, idVars
  <2> QED BY <1>1, <1>2, <2>1, <2>2 DEF Handle, FailKnown, Recover, Dispute, idVars
<1>3. CASE ~\E r \in Requests : Handle(r)
  BY <1>3 DEF Next, Deliver, Receive, RollBack, Reply, Work, RecordLink, vars, caseVars, idVars
<1> QED BY <1>2, <1>3

LEMMA PlainCasesStay ==
    ASSUME SInv, [Next]_vars
    PROVE  PlainCases'
<1> USE DEF SInv, IInv
<1> SUFFICES ASSUME NEW c \in Opened', PlainPayment(payment'[c]) PROVE sub'[c] = None
  BY DEF PlainCases, PlainPayment
<1>1. CASE c \in Opened
  BY <1>1, CasesStay, PlainStays DEF PlainCases
<1>2. CASE c \notin Opened
  <2>1. PICK r \in Requests : OpenCase(r)
    BY <1>2, StepStores DEF Opened
  <2>2. c = n + 1 /\ c \in CaseIds /\ handling[r] \in Events
    BY <1>2, <2>1, CasesAssumption DEF OpenCase, TypeOK, Opened, CaseIds
  <2>3. payment'[c] = handling[r].payment /\ sub'[c] = handling[r].sub
    BY <2>1, <2>2 DEF OpenCase, TypeOK
  <2> QED BY <2>2, <2>3 DEF PlainPayment
<1> QED BY <1>1, <1>2

LEMMA PlainEventsStay ==
    ASSUME SInv, [Next]_vars
    PROVE  PlainEvents'
<1> USE DEF SInv, IInv
<1> SUFFICES ASSUME NEW f \in stored', PlainPayment(f.payment), linked'[f] # 0
             PROVE  linked'[f] \in Opened' /\ payment'[linked'[f]] = f.payment
  BY DEF PlainEvents, PlainPayment
<1>1. ASSUME NEW c \in Opened, payment[c] = f.payment
      PROVE  c \in Opened' /\ payment'[c] = f.payment
  <2>1. n \in Nat /\ n' \in Nat /\ n' >= n
    BY CasesAreTyped, StepStores DEF OpenCase
  <2> QED BY <1>1, <2>1, PlainStays DEF Opened
<1>2. CASE f \in stored /\ linked'[f] = linked[f]
  BY <1>1, <1>2 DEF PlainEvents
<1>3. ASSUME NEW r \in Requests, Handle(r), ~OpenCase(r), NEW c \in 0..n, Commit(r, c),
             ~(f \in stored /\ linked'[f] = linked[f])
      PROVE  linked'[f] \in Opened' /\ payment'[linked'[f]] = f.payment
  <2>1. handling[r] # None /\ handling[r] \in Events
    BY <1>3 DEF Handle, FailKnown, FailRaced, Recover, Dispute, StoreUnlinked, TypeOK
  <2>2. f = handling[r] /\ linked'[f] = c /\ c # 0
    BY <1>3, <2>1 DEF Commit, TypeOK
  <2>3. c = found[r] \/ c \in ByPayment(f.payment)
    <3>1. ASSUME NEW d, Commit(r, d) PROVE d = c
      BY <1>3, <2>1, <3>1 DEF Commit, TypeOK
    <3> QED BY <1>3, <2>2, <3>1 DEF Handle, FailKnown, FailRaced, Recover, Dispute, StoreUnlinked
  <2>4. c \in Opened /\ payment[c] = f.payment
    BY <2>1, <2>2, <2>3, CasesAreTyped DEF ByPayment, Seen, PlainCaseSeen, Opened
  <2> QED BY <1>1, <2>2, <2>4
<1>4. ASSUME NEW r \in Requests, OpenCase(r), ~(f \in stored /\ linked'[f] = linked[f])
      PROVE  linked'[f] \in Opened' /\ payment'[linked'[f]] = f.payment
  <2>1. n + 1 \in Opened' /\ payment'[n + 1] = handling[r].payment
    BY <1>4, CasesAssumption DEF OpenCase, TypeOK, Opened, CaseIds
  <2>2. f.payment = handling[r].payment /\ linked'[f] = n + 1
    BY <1>4 DEF OpenCase, LinkWithPrior, PriorRecoveries, TypeOK
  <2> QED BY <2>1, <2>2
<1> QED BY <1>2, <1>3, <1>4, StepStores

-----------------------------------------------------------------------------
(* The two properties.                                                     *)

LEMMA OneAutomatedStays ==
    ASSUME SInv, [Next]_vars
    PROVE  OneAutomatedCasePerSubscription'
<1> USE DEF SInv, IInv
<1> SUFFICES ASSUME NEW c \in Opened', NEW d \in Opened', phase'[c] \in Automated,
                    phase'[d] \in Automated, sub'[c] # None, sub'[c] = sub'[d]
             PROVE  c = d
  BY DEF OneAutomatedCasePerSubscription
<1>1. CASE c \in Opened /\ d \in Opened
  BY <1>1, CasesStay DEF OneAutomatedCasePerSubscription
<1>2. CASE c \notin Opened \/ d \notin Opened
  <2>1. PICK r \in Requests : OpenCase(r)
    BY <1>2, StepStores DEF Opened
  <2>2. /\ n + 1 \in CaseIds /\ sub'[n + 1] = handling[r].sub
        /\ \A b \in Opened' : b \in Opened \/ b = n + 1
    BY <2>1, CasesAssumption DEF OpenCase, TypeOK, Opened, CaseIds
  <2>3. ASSUME NEW b \in Opened, sub'[b] = handling[r].sub, handling[r].sub # None
        PROVE  phase'[b] \notin Automated
    <3>1. NoRival(r) /\ handling[r].kind = "failed" /\ found[r] = 0
      BY <2>1 DEF OpenCase, Seen
    <3> QED BY <2>3, <3>1, CasesStay DEF NoRival
  <2> QED BY <1>2, <2>2, <2>3
<1> QED BY <1>1, <1>2

LEMMA OrderStays ==
    ASSUME SInv, [Next]_vars
    PROVE  OrderDoesNotMatter'
<1> USE DEF SInv, IInv
<1> SUFFICES ASSUME NEW c \in Opened', NEW e \in stored', e.kind = "recovered",
                    e.payment = payment'[c], PlainPayment(e.payment)
             PROVE  phase'[c] \notin Automated
  BY DEF OrderDoesNotMatter, PlainPayment
<1>1. CASE c \in Opened /\ e \in stored
  BY <1>1, CasesStay, PlainStays DEF OrderDoesNotMatter
<1>2. CASE c \in Opened /\ e \notin stored
  <2>1. payment[c] = e.payment /\ c # 0 /\ e.payment # None
    BY <1>2, PlainStays, CasesAreTyped DEF PlainPayment
  <2>2. PICK r \in Requests : Handle(r) /\ handling[r] = e /\ handling[r] # None
    BY <1>2, StepStores, NoneAssumption DEF OpenCase, Commit, Handle, FailKnown, FailRaced, Recover,
       Dispute, StoreUnlinked
  <2>3. c = found[r]
    BY <1>2, <2>1, <2>2 DEF Seen, OnlyCaseSeen
  <2>4. Recover(r)
    BY <2>1, <2>2, <2>3 DEF Handle, FailKnown, FailRaced, OpenCase, Dispute, StoreUnlinked
  <2>5. c \in CaseIds /\ phase[c] \in Phases /\ phase \in [CaseIds -> Phases]
    BY <1>2, CasesAreTyped DEF TypeOK
  <2> QED BY <2>3, <2>4, <2>5 DEF Recover, SetPhase, OnRecovery, Automated
<1>3. CASE c \notin Opened
  <2>1. PICK r \in Requests : OpenCase(r)
    BY <1>3, StepStores DEF Opened
  <2>2. /\ c = n + 1 /\ c \in CaseIds
        /\ handling[r].kind = "failed" /\ stored' = stored \cup {handling[r]}
    BY <1>3, <2>1, CasesAssumption DEF OpenCase, TypeOK, Opened, CaseIds
  <2>3. e \in stored /\ e.payment = handling[r].payment
    BY <2>1, <2>2 DEF OpenCase, TypeOK
  <2>4. linked[e] = 0
    BY <2>1, <2>3 DEF OpenCase, IndexAllows, ByPayment, PlainEvents, PlainPayment
  <2>5. e \in PriorRecoveries(handling[r].payment)
    BY <2>3, <2>4 DEF PriorRecoveries, PlainPayment
  <2>6. SetPhase(c, {"RECOVERED"})
    BY <2>1, <2>2, <2>5 DEF OpenCase, OnOpening
  <2> QED BY <2>2, <2>6 DEF SetPhase, TypeOK, Automated
<1> QED BY <1>1, <1>2, <1>3

LEMMA InitSInv == Init => SInv
  BY InitIInv, CasesAssumption
     DEF Init, SInv, Seen, PlainCases, PlainEvents, OneAutomatedCasePerSubscription,
         OrderDoesNotMatter, Opened, Alone

LEMMA StepKeepsSInv == SInv /\ [Next]_vars /\ ~overlapped' => SInv'
  BY StepKeepsIInv, AloneStays, SeenStays, PlainCasesStay, PlainEventsStay, OneAutomatedStays,
     OrderStays DEF SInv

LEMMA SerialInvariance == Spec => [](overlapped \/ SInv)
<1>1. Init => overlapped \/ SInv
  BY InitSInv
<1>2. (overlapped \/ SInv) /\ [Next]_vars => (overlapped \/ SInv)'
  BY StepKeepsSInv, OverlapStays
<1> QED BY <1>1, <1>2, PTL DEF Spec

\* A subscription is never automated in two cases, as long as requests do not
\* overlap: a failure that finds no open case of its subscription knows that
\* none becomes automated before it opens one.
THEOREM SubscriptionsAreAutomatedOnce == Spec => []OneAutomatedCasePerSubscription
<1>1. overlapped \/ SInv => OneAutomatedCasePerSubscription
  BY DEF SInv, OneAutomatedCasePerSubscription
<1> QED BY <1>1, SerialInvariance, PTL

\* Whichever of the failure and the capture of a payment without subscription
\* and link is stored first, the payment is not automated once both are, as
\* long as requests do not overlap.
THEOREM PlainOrderDoesNotMatter == Spec => []OrderDoesNotMatter
<1>1. overlapped \/ SInv => OrderDoesNotMatter
  BY DEF SInv, OrderDoesNotMatter
<1> QED BY <1>1, SerialInvariance, PTL
=============================================================================
