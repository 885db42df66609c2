\* The scan of one pass against the comment on pick_run.
CONSTANTS
    short = short
    long = long
    Key = {1, 2, 3, 4}
    Value = {short, long}
    Tombstone = Tombstone
    None = None
    BitsPerKey = 3
    WordBits = 8
    KeySize <- Size1
    ValueSize <- Sizes
    BlockSize = 20
    HashOf <- Hashes
    MinRun = 3
    Num = 3
    Den = 2
    Memtable <- Memtables
    MaxTables = 5
    MaxUnsized = 0
SPECIFICATION Spec
INVARIANT OldestRunPicked
CHECK_DEADLOCK FALSE
