\* An unlink of a merged input may fail.
CONSTANTS
    k1 = k1
    k2 = k2
    v1 = v1
    v2 = v2
    Key = {k1}
    Value = {v1}
    Tombstone = Tombstone
    None = None
    MinRun = 2
    Memtable <- OneKeyMemtables
    MaxSeq = 3
    Reader = {}
    CrashKinds = {"power"}
    MaxCrashes = 0
    Faults = {"unlink"}
SPECIFICATION Spec
INVARIANTS CrashLosesNothing
CHECK_DEADLOCK FALSE
