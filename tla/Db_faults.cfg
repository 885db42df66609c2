\* Failing log writes, syncs, flushes and truncates mixed with both kinds of crash.
CONSTANTS
    Key = {"k1"}
    Value = {"v1"}
    Tombstone = Tombstone
    None = None
    Sync = TRUE
    WalFaults = {"truncate_error", "sync_error"}
    TableSize = 1
    Size <- UnitSize
    MaxOps = 5
    MinRun = 2
    Reader = {}
    CrashKinds = {"power", "process"}
    MaxCrashes = 2
    Faults = {"flush_publish"}
SPECIFICATION Spec
INVARIANTS CrashLosesNoWrite
CHECK_DEADLOCK FALSE
