SPECIFICATION FairSpec

CHECK_DEADLOCK FALSE

CONSTANTS
    c1 = c1
    c2 = c2
    d0 = d0
    d1 = d1
    d2 = d2
    s1 = s1
    s2 = s2
    Clients = {c1, c2}
    Databases = {d0}
    Default = d0
    Opens <- OpensDefault
    Sections = {s1, s2}
    MaxHeld = 1
    MaxExits = 2
    Unrefs = FALSE
    Orderly = TRUE

INVARIANTS
    RequestsExact
    ListsAccounted

PROPERTIES
    RequestsComeBack
