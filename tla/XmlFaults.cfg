SPECIFICATION FairSpec

CONSTANTS
    Dirs <- Pair
    Keys = {"k"}
    Values = {"v"}
    Schemas = {"s"}
    None = None
    Uncached = Uncached
    NoFile = NoFile
    Faults = {"stat", "read", "scan", "make", "write", "move old", "move new",
              "move back", "unlink old", "unlink", "rmdir", "crash", "crash in move"}
    MaxFaults = 1

INVARIANTS
    CleanIsOnDisk

PROPERTIES
    SuccessLeavesNothingDirty
    SyncTerminates
