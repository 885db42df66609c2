\* The log is not fsynced; one power failure.
CONSTANTS
    Key = {"k1", "k2"}
    Value = {"v1"}
    Tombstone = Tombstone
    None = None
    Sync = FALSE
    WalFaults = {}
    TableSize = 2
    Size <- UnitSize
    MaxOps = 3
    MinRun = 2
    Reader = {}
    CrashKinds = {"power"}
    MaxCrashes = 1
    Faults = {}
SPECIFICATION HistorySpec
INVARIANTS CrashLosesLastWrites
CHECK_DEADLOCK FALSE
