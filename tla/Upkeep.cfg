SPECIFICATION UpkeepSpec
CONSTANTS
    MaxEdits = 2
    MaxResources = 3
    Names = {"s", "t"}
    Root = "s"
    Aliases = {"x", "y"}
    Family <- MCFamily
    FieldFamilies = {"wildcard", "object"}
    Composed = {{}, {"s"}, {"t"}}
    MaxSegments = 2
INVARIANTS
    CheckIsTruthful
    RunsSettle
    DriftIsAccounted
    CallsAreAttributed
    SweepIsThorough
CHECK_DEADLOCK FALSE
