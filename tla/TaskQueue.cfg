\* Two publishers, a worker, and one lost answer, flush or dead process.
SPECIFICATION FairSpec
CONSTANTS
    Rows <- MCRows
    Publishers = {p1, p2}
    Workers = {w1}
    MaxAttempts = 2
    MaxTime = 2
    MaxCopies = 1
    MaxFaults = 1
INVARIANTS NeverEarly StampedIsPublished
PROPERTY ImplementsTimer
CHECK_DEADLOCK FALSE
