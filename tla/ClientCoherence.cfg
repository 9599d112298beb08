SPECIFICATION FairSpec

CONSTANTS
    c1 = c1
    c2 = c2
    Clients = {c1}
    v1 = v1
    v2 = v2
    Values = {v1, v2}
    NoValue = NoValue
    NotCached = NotCached
    Keys <- FlatKeys
    Dirs <- FlatDirs
    SchemaDefault <- FlatDefault
    Overlaps = FALSE
    EarlyReAdd = FALSE
    PreloadWatched = FALSE
    CallsFail = TRUE
    MaxWrites = 3
    MaxAdds = 1

INVARIANTS
    CacheCoherent
    CachedAreWatched
    NothingUnread

PROPERTIES
    CacheConverges
    ChangesReachApplication
