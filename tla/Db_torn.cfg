\* The machine may stop while a frame is half in the log.
CONSTANTS
    Key = {"k1"}
    Value = {"v1"}
    Tombstone = Tombstone
    None = None
    Sync = TRUE
    WalFaults = {"torn_by_crash"}
    TableSize = 1
    Size <- UnitSize
    MaxOps = 3
    MinRun = 2
    Reader = {}
    CrashKinds = {"power"}
    MaxCrashes = 2
    Faults = {}
SPECIFICATION Spec
INVARIANTS CrashLosesNoWrite
CHECK_DEADLOCK FALSE
