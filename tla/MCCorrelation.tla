---------------------------- MODULE MCCorrelation ----------------------------
(***************************************************************************)
(* Small instances of Correlation for TLC: sets of events of a few         *)
(* payments.  Equal events with different ids are told apart by id.        *)
(***************************************************************************)
EXTENDS Correlation, TLC

CONSTANTS p1, p2, p3, s1, l1

Event(k, p, s, l, i) == [kind |-> k, payment |-> p, sub |-> s, link |-> l, id |-> i]
Failed(p, s)    == Event("failed", p, s, None, 1)
Recovered(p, s) == Event("recovered", p, s, None, 1)
Paid(l, p)      == Event("paid", p, None, l, 1)
Disputed(p)     == Event("dispute", p, None, None, 1)
Again(e)        == [e EXCEPT !.id = 2]

\* Two payments of one subscription, its halt, a payment of its own, a link.
MixedEvents == {Failed(p1, s1), Failed(p2, s1), Failed(None, s1), Recovered(p2, s1),
                Failed(p3, None), Recovered(p3, None), Paid(l1, p2)}

\* Requests for the same payment and the same subscription, a redelivery
\* under another id among them.
RacingEvents == {Failed(p1, s1), Again(Failed(p1, s1)), Failed(p2, s1),
                 Recovered(p1, None), Recovered(p2, s1), Disputed(p1)}

AllEvents == MixedEvents \cup RacingEvents

\* Bound: either requests do not overlap, over the mixed events, or they may,
\* over the racing ones.
Workload ==
    LET seen == (stored \cup {handling[r] : r \in Requests}) \ {None}
    IN seen \subseteq RacingEvents \/ (~overlapped /\ seen \subseteq MixedEvents)

Interchangeable == Permutations(Requests)
=============================================================================
