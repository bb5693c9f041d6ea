SPECIFICATION SurfaceSpec
CONSTANTS
    Modules = {m1, m2}
    Hidden = {m2}
    NoTool = NoTool
    Guarded = TRUE
    Posts = {q1, q2}
    MaxFailures = 1
    MaxSteps = 2
    MaxUses = 2
    Turns = {t1, t2}
    MaxTexts = 1
    MaxLinks = 2
    AsksEarly = FALSE
    ReadersReturn = FALSE
    Sites = {s1}
    Addresses = {d1, d2}
    Instances = {i1, i2, i3}
    Configured = FALSE
    Nobody = Nobody
CHECK_DEADLOCK FALSE
INVARIANTS
    AgentSound
    ListsWhole
    
    
PROPERTIES
    NothingLeftBehind
