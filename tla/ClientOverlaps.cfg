SPECIFICATION Spec

CONSTANTS
    c1 = c1
    c2 = c2
    Clients = {c1}
    v1 = v1
    v2 = v2
    Values = {v1}
    NoValue = NoValue
    NotCached = NotCached
    Keys <- NestedKeys
    Dirs <- NestedDirs
    SchemaDefault <- NestedDefault
    Overlaps = TRUE
    EarlyReAdd = TRUE
    PreloadWatched = TRUE
    CallsFail = FALSE
    MaxWrites = 1
    MaxAdds = 2

INVARIANTS
    RequestsMatchDaemon
    WatchedAreCovered
