\* Every mode, with contact limits that each stop a contact within the bounds.
CONSTANTS
    Modes = {"baseline", "shadow", "adaptive"}
    Failures <- SomeFailures
    Amounts = {5000, 30000}
    MaxAutomatedAmount = 25000
    Forecasts <- MCForecasts
    Weights = {18}
    NativeDelay = 1
    MaxContactsPerCase = 2
    MaxContactsPerWindow = 1
    Cooldown = 1
    Window = 1
    MaxTotalAttempts = 2
    MaxTime = 4
    MaxRows = 4
    MaxFailures = 4
SPECIFICATION Spec
VIEW Relevant
INVARIANTS
    WithinGuardrails
    WaitsOnce
    StopsAtMostOneLate
    ViewAgrees
    NeverStranded
    GentlerWithWeight
CHECK_DEADLOCK FALSE
