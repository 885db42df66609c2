\* Passes over one to five tables of five kinds, runs of three or more.
CONSTANTS
    short = short
    long = long
    Key = {1, 2, 3, 4}
    Value = {short, long}
    Tombstone = Tombstone
    None = None
    BitsPerKey = 3
    WordBits = 8
    KeySize <- Size1
    ValueSize <- Sizes
    BlockSize = 20
    HashOf <- Hashes
    MinRun = 3
    Num = 3
    Den = 2
    Memtable <- Memtables
    MaxTables = 5
    MaxUnsized = 1
SPECIFICATION Spec
INVARIANTS GetsUnchanged ReopenAgrees MergesToNewest PickedComparable BacklogBounded
PROPERTIES PassEnds
CHECK_DEADLOCK FALSE
