\* The shipped settings, and a provider that does not answer: no other fault.
SPECIFICATION Spec
CONSTANTS
    MaxAttempts = 3
    MaxRetries = 2
    Timeout = 50
    LongestPost = 60
    JobTimeout = 150
    MaxFaults = 0
INVARIANT NeverFailedByLlm
CHECK_DEADLOCK FALSE
