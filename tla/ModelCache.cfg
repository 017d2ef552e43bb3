SPECIFICATION Spec
CONSTANTS
    Threads = {t1, t2}
    MaxRuns = 2
    MaxLoads = 4
INVARIANT KeyNamesContent
CHECK_DEADLOCK FALSE
