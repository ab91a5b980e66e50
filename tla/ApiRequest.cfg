SPECIFICATION FairSpec
CONSTANTS
    MaxRetries = 2
    RetryableIdempotent <- MCRetryableIdempotent
    RetryableMutating <- MCRetryableMutating
    Statuses <- MCStatuses
    Refusals <- MCRefusals
    RetryAfter <- MCRetryAfter
    Backoff = 1
    MaxRetryAfter = 60
INVARIANTS
    TypeOK
    NoDuplicateMutation
    BodyMeansLanded
    RefusedMeansNothingLeft
    BudgetIsSpent
    BoundedStall
PROPERTIES
    Terminates
    ImplementsCallContract
CHECK_DEADLOCK FALSE
