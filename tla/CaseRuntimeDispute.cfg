\* A dispute against a lookup that is under way.
CONSTANTS
    Workers = {w1}
    Reconcilers = {r1}
    MaxActions = 1
    MaxAttempts = 1
    MaxContacts = 1
    PolicyChoices <- LinkOnly
    SuspendedWorkers = FALSE
SPECIFICATION Spec
PROPERTY DisputeIsFinal
