\* One API process, whose requests do not overlap, and two, whose requests do.
CONSTANTS
    p1 = p1
    p2 = p2
    p3 = p3
    s1 = s1
    l1 = l1
    None = None
    Links = {l1}
    Requests = {r1, r2}
    MaxCases = 3
    Events <- AllEvents
SPECIFICATION Spec
CONSTRAINT Workload
SYMMETRY Interchangeable
INVARIANTS
    OneCasePerPayment
    RecoveredHasEvidence
    OneAutomatedCasePerSubscription
    OrderDoesNotMatter
PROPERTY TakesOverWhileOpen
