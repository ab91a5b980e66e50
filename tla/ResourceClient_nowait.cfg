SPECIFICATION Spec
CONSTANTS
    Scripts = {s1}
    Spellings = {"web", "Web"}
    Canon <- MCCanon
    Kinds = {"create"}
    Waits = {FALSE}
    MaxCalls = 1
    MaxMixed = 1
    MaxId = 1
    s1 = s1
INVARIANTS
    UnawaitedCreateReturns
CHECK_DEADLOCK FALSE
