SPECIFICATION FairSpec
CONSTANTS
    Timeout = 7
    PollInterval = 2
    RequestTimeout = 1
    MaxPollFailures = 2
    Horizon = 12
INVARIANTS
    VerdictIsTheServers
    HiccupsAreTolerated
    VerdictIsActedOn
    BoundedOvershoot
    OnlyLateVerdictsAreMissed
PROPERTIES
    Terminates
CHECK_DEADLOCK FALSE
