\* Reading beside the compactor, closing, reopening, one process crash.
CONSTANTS
    Key = {"k1"}
    Value = {"v1"}
    Tombstone = Tombstone
    None = None
    Sync = TRUE
    WalFaults = {}
    TableSize = 1
    Size <- UnitSize
    MaxOps = 5
    MinRun = 2
    Reader = {"r1"}
    CrashKinds = {"process"}
    MaxCrashes = 1
    Faults = {"compact_publish", "unlink"}
SPECIFICATION FairSpec
INVARIANTS GetIsCurrent
PROPERTIES DropReturns
CHECK_DEADLOCK FALSE
