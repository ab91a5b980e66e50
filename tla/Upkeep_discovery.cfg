SPECIFICATION UpkeepSpec
CONSTANTS
    MaxEdits = 0
    MaxResources = 1
    Names = {"s"}
    Root = "s"
    Aliases = {"x", "y"}
    Family <- MCFamily
    FieldFamilies = {"wildcard", "object"}
    Composed = {{}}
    MaxSegments = 1
INVARIANTS
    EveryCallIsAttributed
CHECK_DEADLOCK FALSE
