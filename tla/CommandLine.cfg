SPECIFICATION CommandSpec
CONSTANTS
    MaxCalls = 2
INVARIANTS
    PolledIsOperation
    SuccessIsSettled
    ReturnsTarget
    OwnStepsDoNotConflict
    ExitIsHonest
PROPERTIES
    CommandsEnd
CHECK_DEADLOCK FALSE
