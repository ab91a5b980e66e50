SPECIFICATION FairSpec
CONSTANTS
    Types = {"pg", "mysql"}
    Forms = {"pg", "postgres", "mysql"}
    Window = 3
    Pauses = {1, 2}
    Timeout = 6
    Interval = 2
    RequestTime = 1
    MaxCalls = 2
    MaxChanges = 2
INVARIANTS
    
    
    ReturnsSettled
    LastingStateIsSeen
    BoundedWait
PROPERTIES
    CallsReturn
CHECK_DEADLOCK FALSE
