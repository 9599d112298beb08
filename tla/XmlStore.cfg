SPECIFICATION Spec

CONSTANTS
    Dirs <- Chain
    Keys = {"k"}
    Values = {"v"}
    Schemas = {}
    None = None
    Uncached = Uncached
    NoFile = NoFile
    Faults = {"make", "write", "move old", "unlink old", "unlink", "rmdir", "scan",
              "crash"}
    MaxFaults = 1

PROPERTIES
    StoreSpec
    EmptyDirsDisappear
