\* Two power failures anywhere in a write, a flush, a compaction or an open.
CONSTANTS
    Key = {"k1", "k2"}
    Value = {"v1"}
    Tombstone = Tombstone
    None = None
    Sync = TRUE
    WalFaults = {"truncate_error"}
    TableSize = 0
    Size <- UnitSize
    MaxOps = 3
    MinRun = 2
    Reader = {}
    CrashKinds = {"power"}
    MaxCrashes = 2
    Faults = {"flush_publish"}
SPECIFICATION Spec
INVARIANTS TypeOK
PROPERTIES ImplementsDurableMap
CHECK_DEADLOCK FALSE
