SPECIFICATION Spec
CONSTANTS
    MaxRetries = 2
    RetryableIdempotent <- MCRetryableIdempotent
    RetryableMutating <- MCRetryableMutating
    Statuses <- MCStatuses
    Refusals <- MCRefusals
    RetryAfter <- MCRetryAfter
    Backoff = 1
    MaxRetryAfter = 60
INVARIANTS
    ReissuedActionRunsOnce
CHECK_DEADLOCK FALSE
