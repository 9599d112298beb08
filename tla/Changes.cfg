SPECIFICATION Spec

CONSTANTS
    k1 = k1
    k2 = k2
    v1 = v1
    v2 = v2
    Keys = {k1, k2}
    Values = {v1, v2}
    NoValue = NoValue
    NotCached = NotCached
    Default <- OneDefault
    Cached = {k1}
    MaxNotes = 3
    MaxForeign = 1
    MaxFailures = 1

INVARIANTS
    NothingLost

PROPERTIES
    SuccessIsWhole
    ReverseRestores
