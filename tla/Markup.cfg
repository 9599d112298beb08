SPECIFICATION Spec

CONSTANTS
    Dirs <- Chain
    Keys = {"k"}
    Values = {"v"}
    Schemas = {}
    None = None
    NoEntry = NoEntry
    Absent = Absent
    NoFile = NoFile
    Faults = {"make", "write", "unlink", "rmdir", "crash"}
    MaxFaults = 1

INVARIANTS
    UnsavedIsQueued

PROPERTIES
    StoreSpec
    SuccessIsSaved
    EmptyDirsDisappear
