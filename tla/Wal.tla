-------------------------------- MODULE Wal --------------------------------
(***************************************************************************)
(* The write-ahead log: a file of framed records, appended to, truncated   *)
(* after a flush and replayed at open.  A record is one write to one key.  *)
(* Its frame (length, checksum, payload) is abstracted to whether all of   *)
(* it is in the file: a fragment is a frame whose tail is missing, because *)
(* the machine stopped, or write_all failed, half way.                     *)
(*                                                                         *)
(* As SSTableSet does for the directory, the module keeps the contents the *)
(* file had since its last fsync: a machine crash may leave any of them.   *)
(***************************************************************************)
EXTENDS Layers

CONSTANTS
    Sync,       \* Config::sync
    WalFaults   \* what can go wrong with the log

WalFaultNames == {"torn_by_crash", "torn_by_error", "sync_error", "truncate_error"}

ASSUME WalAssumption == Sync \in BOOLEAN /\ WalFaults \subseteq WalFaultNames

VARIABLES
    log,        \* what is in the file
    crash_logs  \* what it may be after the machine stops

walVars == <<log, crash_logs>>

\* One write: an entry for one key, a value (insert) or a tombstone (delete).
Operation == [key : Key, entry : Value \cup {Tombstone}]
LogItem   == [record : Operation, whole : BOOLEAN]

Whole(op)    == [record |-> op, whole |-> TRUE]
Fragment(op) == [record |-> op, whole |-> FALSE]

WalTypeOK ==
    /\ log \in Seq(LogItem)
    /\ crash_logs \subseteq Seq(LogItem) /\ log \in crash_logs

WalInit == log = <<>> /\ crash_logs = {<<>>}

\* insert and delete: write_all of one frame, then sync_data if configured.
WalWrite(op) ==
    /\ log' = Append(log, Whole(op))
    /\ crash_logs' = crash_logs \cup {log'}
        \cup (IF "torn_by_crash" \in WalFaults THEN {Append(log, Fragment(op))} ELSE {})

\* sync_data covers all the file holds, frames too whose own sync_data failed: a
\* file system that gives up dirty pages after a failed fsync is not this one.
WalSync == log' = log /\ crash_logs' = IF Sync THEN {log} ELSE crash_logs

\* write_all fails: nothing, or a part of the frame, is in the file.
WalWriteFails(op) ==
    /\ log' \in {log} \cup
        (IF "torn_by_error" \in WalFaults THEN {Append(log, Fragment(op))} ELSE {})
    /\ crash_logs' = crash_logs \cup {log'}

\* truncate: set_len(0), then sync_data whatever Sync says.
SetLenZero == log' = <<>> /\ crash_logs' = crash_logs \cup {<<>>}
SyncLength == log' = log /\ crash_logs' = {log}

\* The machine stopped: one of the possible contents is there at restart.
WalCrash == log' \in crash_logs /\ crash_logs' = {log'}

-----------------------------------------------------------------------------
(* Replay.                                                                 *)

Records(items) == [i \in DOMAIN items |-> items[i].record]

Fragments(items) == {i \in DOMAIN items : ~items[i].whole}

\* read, when it returns Ok: it stops at the first fragment.
Replayed(items) ==
    IF Fragments(items) = {} THEN Records(items)
    ELSE LET first == CHOOSE i \in Fragments(items) : \A j \in Fragments(items) : i <= j
         IN Records(SubSeq(items, 1, first - 1))

\* read may also return InvalidData.  A fragment at the end of the file runs
\* into that end, and replay stops there.  Behind any other fragment the frame
\* takes in bytes of the frames after it: either there are enough of them, and
\* the checksum does not match, or there are not, and replay stops.
MayBeInvalid(items) == Fragments(items) \notin {{}, {Len(items)}}

\* The memtable that replaying a sequence of writes builds: per key the last.
Writes(ops, k) == {i \in DOMAIN ops : ops[i].key = k}

\* Mutant: the first write to a key wins.
MemtableFirstWins(ops) ==
    [k \in Key |->
        IF Writes(ops, k) = {} THEN None
        ELSE ops[CHOOSE i \in Writes(ops, k) : \A j \in Writes(ops, k) : i <= j].entry]

MemtableOf(ops) ==
    [k \in Key |-> IF Writes(ops, k) = {} THEN None ELSE ops[Newest(Writes(ops, k))].entry]
=============================================================================
