SPECIFICATION FairSpec
CONSTANTS
    Scripts = {s1, s2}
    Spellings = {"web", "Web"}
    Canon <- MCCanon
    Kinds = {"ensure", "create", "update", "delete"}
    Waits = {TRUE, FALSE}
    MaxCalls = 3
    MaxMixed = 2
    MaxId = 3
    s1 = s1
    s2 = s2
INVARIANTS
    CreateReturnsSettled
    
    DeleteIsFinal
    EnsureAdopts
PROPERTIES
    ReturnsReady
    CallsReturn
CHECK_DEADLOCK FALSE
