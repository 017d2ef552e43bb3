\* The shipped settings: 3 posts of 10 s and pauses of 0.2 s and 0.4 s, in a
\* job of 30 s.  One fault per attempt.
SPECIFICATION FairSpec
CONSTANTS
    MaxAttempts = 3
    MaxRetries = 2
    Timeout = 50
    LongestPost = 60
    JobTimeout = 150
    MaxFaults = 3
INVARIANT FailsOnlyAfterLosses
PROPERTY RowSettles
CHECK_DEADLOCK FALSE
