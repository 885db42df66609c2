\* Two keys, four tables: every run is picked at every place, merges are merged
\* again, flushes and a search go on meanwhile, any one unlink may fail.
CONSTANTS
    k1 = k1
    k2 = k2
    v1 = v1
    v2 = v2
    Key = {k1, k2}
    Value = {v1}
    Tombstone = Tombstone
    None = None
    MinRun = 2
    Memtable <- SparseMemtables
    MaxSeq = 4
    Reader = {r1}
    CrashKinds = {"power", "process"}
    MaxCrashes = 1
    Faults = {"unlink"}
SPECIFICATION Spec
INVARIANTS SpansOrdered RunIntact ReadsAreAtomic
PROPERTIES CompactionInvisible
CHECK_DEADLOCK FALSE
