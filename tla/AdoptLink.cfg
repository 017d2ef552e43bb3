\* Every kind of process once, two rows of one case, and two faults.
SPECIFICATION FairSpec
CONSTANTS
    Workers = {w1}
    Reconcilers = {r1}
    Scripts = {s1}
    Requests = {h1}
    Nobody = Nobody
    LastRow = 2
    MaxAttempts = 2
    MaxEvents = 2
    MaxFaults = 2
INVARIANT AdoptedExists
PROPERTIES LinkMovesForward StaysOutOfAutomation ClaimsEnd
CHECK_DEADLOCK FALSE
