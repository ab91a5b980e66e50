SPECIFICATION Spec
CONSTANTS
    Scripts = {s1}
    Spellings = {"web", "Web"}
    Canon <- MCCanon
    Kinds = {"ensure"}
    Waits = {TRUE}
    MaxCalls = 2
    MaxMixed = 2
    MaxId = 2
    s1 = s1
INVARIANTS
    LaterRunsAdopt
CHECK_DEADLOCK FALSE
