CONSTANTS
    Key = {k1, k2}
    Value = {v1}
    None = None
    Tombstone = Tombstone
    c1 = c1
    c2 = c2
    k1 = k1
    k2 = k2
    v1 = v1
    Client = {c1, c2}
    Command <- MCCommand
    Prompt = {c1}
    MaxSends = 3
    Capacity = 1
    Faults = {"accept", "read", "write"}
SPECIFICATION Spec
PROPERTIES ImplementsKvService CommandsAnswered ShutdownReturns
CHECK_DEADLOCK FALSE
