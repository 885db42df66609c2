\* Two keys, partial merges, two crashes, a failing flush; no readers.
CONSTANTS
    k1 = k1
    k2 = k2
    v1 = v1
    v2 = v2
    Key = {k1, k2}
    Value = {v1, v2}
    Tombstone = Tombstone
    None = None
    MinRun = 2
    Memtable <- TwoKeyMemtables
    MaxSeq = 3
    Reader = {}
    CrashKinds = {"power"}
    MaxCrashes = 2
    Faults = {"flush_publish"}
SPECIFICATION Spec
INVARIANTS TypeOK LiveTablesDurable CrashLosesNothing
PROPERTIES ImplementsDurableMap
CHECK_DEADLOCK FALSE
