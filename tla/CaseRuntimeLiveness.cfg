\* The fairness of a running worker and of a repeated reconciliation.
CONSTANTS
    Workers = {w1}
    Reconcilers = {r1}
    MaxActions = 2
    MaxAttempts = 2
    MaxContacts = 1
    PolicyChoices <- LinkKinds
    SuspendedWorkers = FALSE
SPECIFICATION FairSpec
PROPERTIES EveryActionEnds AutomationEnds PromiseIsResolved
