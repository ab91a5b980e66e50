SPECIFICATION Spec
CONSTANTS
    MaxKey = 5
    PageSize = 2
    Limits <- MCLimits
    MaxChanges = 2
INVARIANTS
    InOrderOnce
    KeptAreListed
    CutAtTheEnd
CHECK_DEADLOCK FALSE
