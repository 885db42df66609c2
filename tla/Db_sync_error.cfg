\* The fsync of the log may fail.
CONSTANTS
    Key = {"k1"}
    Value = {"v1"}
    Tombstone = Tombstone
    None = None
    Sync = TRUE
    WalFaults = {"sync_error"}
    TableSize = 1
    Size <- UnitSize
    MaxOps = 3
    MinRun = 2
    Reader = {}
    CrashKinds = {"power"}
    MaxCrashes = 1
    Faults = {}
SPECIFICATION Spec
INVARIANTS LogAgreesWithMemory
CHECK_DEADLOCK FALSE
