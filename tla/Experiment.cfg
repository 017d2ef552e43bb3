SPECIFICATION RunSpec
CONSTANTS
    Contact = Contact
    Wait = Wait
    Requests = {r1, r2}
    Seeds = {1, 2}
    Actions = {Contact, Wait}
    MaxCount = 2
    MaxTrainings = 1
    MaxRestarts = 1
    Baseline <- MCBaseline
    Recovers <- MCRecovers
INVARIANTS RunsAreWhole SeedDecides
CHECK_DEADLOCK FALSE
