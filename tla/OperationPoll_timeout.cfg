SPECIFICATION Spec
CONSTANTS
    Timeout = 7
    PollInterval = 2
    RequestTimeout = 1
    MaxPollFailures = 2
    Horizon = 12
INVARIANTS
    TimeoutMeansIncomplete
CHECK_DEADLOCK FALSE
