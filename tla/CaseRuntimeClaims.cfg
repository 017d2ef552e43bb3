\* Two workers and a reconciler on the same rows, with retries.
CONSTANTS
    Workers = {w1, w2}
    Reconcilers = {r1}
    MaxActions = 2
    MaxAttempts = 2
    MaxContacts = 1
    PolicyChoices <- EveryKind
    SuspendedWorkers = TRUE
SPECIFICATION Spec
SYMMETRY WorkerSymmetry
VIEW Relevant
INVARIANTS AttemptBudget RecordedLinkExists TypeOK WorkBehindState PromiseIsFollowedUp ContactBudget CapturedMeansHandsOff
PROPERTIES HandsOffForGood ImplementsTable ImplementsLife
