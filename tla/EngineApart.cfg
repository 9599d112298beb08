SPECIFICATION Spec

CHECK_DEADLOCK FALSE

CONSTANTS
    c1 = c1
    c2 = c2
    d0 = d0
    d1 = d1
    d2 = d2
    s1 = s1
    s2 = s2
    Clients = {c1, c2}
    Databases = {d0, d1, d2}
    Default = d0
    Opens <- OpensApart
    Sections = {s1}
    MaxHeld = 1
    MaxExits = 2
    Unrefs = TRUE
    Orderly = FALSE

INVARIANTS
    EngineTableSound
    PathsAgree
    RequestsSurviveExit
