--------------------------------- MODULE Db ---------------------------------
(***************************************************************************)
(* The database: the memtable, its write-ahead log and the SSTables, one   *)
(* writer thread going through put and delete step by step, readers, and   *)
(* the compactor thread with the channel that wakes it.  SSTableSet's      *)
(* actions are steps of this module: a flush is part of a write, the       *)
(* compactor runs one pass per signal.                                     *)
(***************************************************************************)
EXTENDS Wal

CONSTANTS
    TableSize,      \* Config::table_size
    Size,           \* bytes a write adds to Db::size
    MaxOps,         \* bound on the writes of a behaviour
    MinRun, Reader, CrashKinds, MaxCrashes, Faults

VARIABLES
    phase, dir, crash_dirs, sstables, next_seq, writer, batch,
    compactor, start, count, run, obsolete, reader, crashes,    \* SSTableSet's
    pc,         \* where the thread that owns Db is
    op,         \* the write it performs
    map,        \* the memtable
    size,
    flush_tx,   \* the sender of the compactor's channel exists
    signals,    \* messages in that channel
    thread,     \* the compactor thread's loop: parked in recv, in a pass, or over
    ops,        \* writes begun
    allowed     \* not in the code: per key, what the finished writes and the unfinished
                \* ones since the last finished one allow it to hold

tableVars == <<phase, dir, crash_dirs, sstables, next_seq, writer, batch,
               compactor, start, count, run, obsolete, reader, crashes>>
threadVars == <<flush_tx, signals, thread>>
memVars == <<map, size>>
callVars == <<ops, allowed>>
vars == <<tableVars, walVars, pc, op, memVars, threadVars, callVars>>

\* Every memtable may be flushed; each write makes at most one table.
Tables == INSTANCE SSTableSet WITH Memtable <- Data \ {Empty}, MaxSeq <- MaxOps

DbAssumption ==
    /\ TableSize \in Nat
    /\ Size \in [Value \cup {Tombstone} -> Nat]
    /\ MaxOps \in Nat
    /\ MinRun \in Nat /\ MinRun >= 2
    /\ CrashKinds \subseteq {"power", "process"}
    /\ MaxCrashes \in Nat
    /\ Faults \subseteq Tables!FaultNames

ASSUME DbAssumption

NoOp == [key |-> None, entry |-> None]

-----------------------------------------------------------------------------
(* put and delete.                                                         *)

\* No reader is inside get: put, delete and drop have &mut self.
Exclusive == \A r \in Reader : reader[r] = Tables!ReaderIdle

Begin(o) ==
    /\ pc = "idle"
    /\ Exclusive
    /\ ops < MaxOps
    /\ ops' = ops + 1
    /\ op' = o
    /\ allowed' = [allowed EXCEPT ![o.key] = @ \cup {Visible(o.entry)}]
    /\ pc' = "begun"
    /\ UNCHANGED <<tableVars, walVars, memVars, threadVars>>

\* The write returns Ok, or an error.
Finish == pc' = "idle" /\ op' = NoOp
Fail   == Finish /\ UNCHANGED callVars
Succeed ==
    /\ Finish
    /\ allowed' = [allowed EXCEPT ![op.key] = {Visible(op.entry)}]
    /\ UNCHANGED ops

LogWrite ==
    /\ pc = "begun"
    /\ WalWrite(op)
    /\ pc' = "written"
    /\ UNCHANGED <<tableVars, op, memVars, threadVars, callVars>>

LogWriteFails ==
    /\ pc = "begun"
    /\ WalWriteFails(op)
    /\ Fail
    /\ UNCHANGED <<tableVars, memVars, threadVars>>

LogSync ==
    /\ pc = "written"
    /\ WalSync
    /\ pc' = "logged"
    /\ UNCHANGED <<tableVars, op, memVars, threadVars, callVars>>

LogSyncFails ==
    /\ "sync_error" \in WalFaults
    /\ Sync
    /\ pc = "written"
    /\ Fail
    /\ UNCHANGED <<tableVars, walVars, memVars, threadVars>>

\* Only now does the memtable change; past table_size the write also flushes.
Insert ==
    /\ pc = "logged"
    /\ size' = size + Size[op.entry]
    /\ map' = [map EXCEPT ![op.key] = op.entry]
    /\ IF size' > TableSize THEN pc' = "flush" /\ UNCHANGED <<op, callVars>> ELSE Succeed
    /\ UNCHANGED <<tableVars, walVars, threadVars>>

-----------------------------------------------------------------------------
(* flush.                                                                  *)

FlushPublish ==
    /\ pc = "flush"
    /\ Tables!PublishFlush(map)
    /\ UNCHANGED <<walVars, pc, op, memVars, threadVars, callVars>>

FlushSync ==
    /\ Tables!SyncFlush
    /\ UNCHANGED <<walVars, pc, op, memVars, threadVars, callVars>>

\* write returns, and the memtable is cleared.
FlushInstall ==
    /\ Tables!InstallFlush
    /\ map' = Empty
    /\ pc' = "flushed"
    /\ UNCHANGED <<walVars, op, size, threadVars, callVars>>

\* write returns an error, before or after its rename: the memtable and size
\* stay, so that the next write tries again.
FlushFails ==
    /\ pc = "flush"
    /\ \/ Tables!FlushFails
       \/ writer = "idle" /\ UNCHANGED tableVars
    /\ Fail
    /\ UNCHANGED <<walVars, memVars, threadVars>>

\* Mutant: the log is truncated before the table is written.
TruncateFirst ==
    /\ pc \in {"flush", "flushed"}
    /\ writer = "idle"
    /\ SetLenZero
    /\ pc' = IF pc = "flush" THEN "flush" ELSE "truncating"
    /\ UNCHANGED <<tableVars, op, memVars, threadVars, callVars>>

Truncate ==
    /\ pc = "flushed"
    /\ SetLenZero
    /\ pc' = "truncating"
    /\ UNCHANGED <<tableVars, op, memVars, threadVars, callVars>>

TruncateSync ==
    /\ pc = "truncating"
    /\ SyncLength
    /\ pc' = "truncated"
    /\ UNCHANGED <<tableVars, op, memVars, threadVars, callVars>>

\* set_len or sync_data fails: no signal is sent and size is not reset.
TruncateFails ==
    /\ "truncate_error" \in WalFaults
    /\ pc \in {"flushed", "truncating"}
    /\ Fail
    /\ UNCHANGED <<tableVars, walVars, memVars, threadVars>>

Signal ==
    /\ pc = "truncated"
    /\ signals' = IF flush_tx THEN signals + 1 ELSE signals
    /\ size' = 0
    /\ Succeed
    /\ UNCHANGED <<tableVars, walVars, map, flush_tx, thread>>

-----------------------------------------------------------------------------
(* get: a memtable record answers at once, otherwise the tables are asked. *)

GetFromMemtable(r, k) ==
    /\ pc = "idle"
    /\ reader[r].pc = "idle"
    /\ map[k] # None
    /\ reader' = [reader EXCEPT ![r] =
                    [pc |-> "done", key |-> k, snap |-> <<>>, left |-> 0,
                     expected |-> Visible(map[k]), result |-> Visible(map[k])]]
    /\ UNCHANGED <<phase, dir, crash_dirs, sstables, next_seq, writer, batch,
                   compactor, start, count, run, obsolete, crashes>>

\* Mutant: a tombstone in the memtable sends get to the tables.
GetFromTablesPastTombstone(r, k) ==
    /\ pc = "idle"
    /\ map[k] \in {None, Tombstone}
    /\ Tables!GetSnapshot(r, k)

GetFromTables(r, k) ==
    /\ pc = "idle"
    /\ map[k] = None
    /\ Tables!GetSnapshot(r, k)

Get(r) ==
    /\ \/ \E k \in Key : GetFromMemtable(r, k) \/ GetFromTables(r, k)
       \/ Tables!ProbeMiss(r) \/ Tables!ProbeHit(r) \/ Tables!ProbeNothingLeft(r)
       \/ Tables!Return(r)
    /\ UNCHANGED <<walVars, pc, op, memVars, threadVars, callVars>>

-----------------------------------------------------------------------------
(* The compactor thread.                                                   *)

\* Mutant: recv does not wait for a signal.
RecvWithoutWaiting ==
    /\ thread = "parked"
    /\ signals' = signals - 1
    /\ thread' = "pass"
    /\ UNCHANGED <<tableVars, walVars, pc, op, memVars, flush_tx, callVars>>

Recv ==
    /\ thread = "parked"
    /\ signals > 0
    /\ signals' = signals - 1
    /\ thread' = "pass"
    /\ UNCHANGED <<tableVars, walVars, pc, op, memVars, flush_tx, callVars>>

\* recv returns an error only when the sender is gone and the channel empty.
RecvDisconnected ==
    /\ thread = "parked"
    /\ signals = 0
    /\ ~flush_tx
    /\ thread' = "over"
    /\ UNCHANGED <<tableVars, walVars, pc, op, memVars, flush_tx, signals, callVars>>

\* pick_run finds nothing to merge: the pass is over.
NoRun ==
    /\ thread = "pass"
    /\ compactor = "idle"
    /\ thread' = "parked"
    /\ UNCHANGED <<tableVars, walVars, pc, op, memVars, flush_tx, signals, callVars>>

CompactStep ==
    /\ thread = "pass"
    /\ \/ Tables!PickRun \/ Tables!CaptureRun \/ Tables!SkipReplacement
       \/ Tables!PublishMerge \/ Tables!SyncMerge \/ Tables!SwapRun
       \/ Tables!RemoveObsolete \/ Tables!CompactDone
    /\ UNCHANGED <<walVars, pc, op, memVars, threadVars, callVars>>

\* An error ends the pass; the next signal starts another.
CompactFails ==
    /\ Tables!CompactFails
    /\ thread' = "parked"
    /\ UNCHANGED <<walVars, pc, op, memVars, flush_tx, signals, callVars>>

-----------------------------------------------------------------------------
(* Open, drop and crashes.                                                 *)

\* with_config, first half: the log is replayed into the memtable.  When read
\* returns an error with_config does too, before anything has changed.
Replay ==
    /\ pc = "closed"
    /\ map' = MemtableOf(Replayed(log))
    /\ pc' = "opening"
    /\ UNCHANGED <<tableVars, walVars, op, size, threadVars, callVars>>

OpenTables ==
    /\ pc = "opening"
    /\ Tables!CleanLeftover
    /\ UNCHANGED <<walVars, pc, op, memVars, threadVars, callVars>>

\* Second half: the compactor is started, and size starts from 0.
Opened ==
    /\ pc = "opening"
    /\ Tables!OpenSet
    /\ pc' = "idle"
    /\ size' = 0
    /\ flush_tx' = TRUE
    /\ signals' = 0
    /\ thread' = "parked"
    /\ UNCHANGED <<walVars, op, map, callVars>>

\* Mutant: the sender outlives the join.
DropKeepsSender ==
    /\ pc = "idle"
    /\ Exclusive
    /\ pc' = "joining"
    /\ UNCHANGED <<tableVars, walVars, op, memVars, threadVars, callVars>>

\* drop: the sender goes first, then the thread is joined.
Drop ==
    /\ pc = "idle"
    /\ Exclusive
    /\ flush_tx' = FALSE
    /\ pc' = "joining"
    /\ UNCHANGED <<tableVars, walVars, op, memVars, signals, thread, callVars>>

MemoryLost ==
    /\ pc' = "closed"
    /\ op' = NoOp
    /\ map' = Empty
    /\ size' = 0
    /\ flush_tx' = FALSE
    /\ signals' = 0
    /\ thread' = "none"

\* with_config returns an error after the replay, or the process ends inside it:
\* what was read is gone, the files stay as far as they were cleaned up.
OpenFails ==
    /\ pc = "opening"
    /\ MemoryLost
    /\ UNCHANGED <<tableVars, walVars, callVars>>

Joined ==
    /\ pc = "joining"
    /\ thread = "over"
    /\ MemoryLost
    /\ Tables!MemoryLost
    /\ UNCHANGED <<dir, crash_dirs, crashes, walVars, callVars>>

PowerLoss ==
    /\ Tables!PowerLoss
    /\ WalCrash
    /\ MemoryLost
    /\ UNCHANGED callVars

ProcessDies ==
    /\ Tables!ProcessDies
    /\ MemoryLost
    /\ UNCHANGED <<walVars, callVars>>

-----------------------------------------------------------------------------
Init ==
    /\ Tables!Init
    /\ WalInit
    /\ pc = "closed"
    /\ op = NoOp
    /\ map = Empty
    /\ size = 0
    /\ flush_tx = FALSE
    /\ signals = 0
    /\ thread = "none"
    /\ ops = 0
    /\ allowed = [k \in Key |-> {None}]

Write == \/ \E o \in Operation : Begin(o)
         \/ LogWrite \/ LogWriteFails \/ LogSync \/ LogSyncFails \/ Insert
         \/ FlushPublish \/ FlushSync \/ FlushInstall \/ FlushFails
         \/ Truncate \/ TruncateSync \/ TruncateFails \/ Signal

Compactor == Recv \/ RecvDisconnected \/ NoRun \/ CompactStep \/ CompactFails

Open == Replay \/ OpenTables \/ OpenFails \/ Opened

Next == Write \/ (\E r \in Reader : Get(r)) \/ Compactor \/ Open \/ Drop \/ Joined
        \/ PowerLoss \/ ProcessDies

Spec == Init /\ [][Next]_vars

\* The compactor thread and the thread that joins it are scheduled.
FairSpec == Spec /\ WF_vars(Compactor) /\ WF_vars(Joined)

-----------------------------------------------------------------------------
(* Properties.                                                             *)

\* The type invariant.
TypeOK ==
    /\ Tables!TypeOK
    /\ WalTypeOK
    /\ pc \in {"closed", "opening", "idle", "begun", "written", "logged", "flush", "flushed",
               "truncating", "truncated", "joining"}
    /\ op \in Operation \cup {NoOp}
    /\ map \in Data
    /\ size \in Nat
    /\ flush_tx \in BOOLEAN
    /\ signals \in Nat
    /\ thread \in {"none", "parked", "pass", "over"}
    /\ ops \in Nat
    /\ allowed \in [Key -> SUBSET (Value \cup {None})]

\* What opening the database would show with these files.
Recovered(d, l) == Apply(DirView(Survivors(d)), MemtableOf(Replayed(l)))

\* What the database holds: what get answers while it is open, and what open
\* will make of the files while it is not.
Contents ==
    IF phase = "up" THEN Apply(View(sstables), map)
    ELSE IF pc = "opening" THEN Apply(DirView(Survivors(dir)), map)
    ELSE Recovered(dir, log)

\* The write in progress that get does not show yet.
InFlight ==
    IF pc \in {"begun", "written", "logged"} THEN {MemtableOf(<<op>>)} ELSE {}

Abstract == INSTANCE DurableMap WITH store <- Contents, pending <- InFlight

\* The database implements a durable map of single writes.  Logging, flushing,
\* truncating, compacting, closing and reopening are invisible; a write shows
\* at one step; a crash anywhere keeps every finished write and keeps the one
\* in progress whole or not at all.
ImplementsDurableMap == Abstract!Spec

\* No finished write is lost, and none that was overwritten or failed long ago
\* comes back: whatever state the machine leaves the directory and the log in,
\* now or at a second crash during recovery, open succeeds and finds every key
\* with its last finished write or an unfinished one begun since.
CrashLosesNoWrite ==
    \A d \in crash_dirs, l \in crash_logs :
        /\ ~MayBeInvalid(l)
        /\ \A k \in Key : Recovered(d, l)[k] \in allowed[k]

\* get searches the memtable and then a snapshot of the tables, and locks
\* nothing against the compactor in between: it answers what the database
\* held when it began.  (No write runs meanwhile.)
GetIsCurrent ==
    \A r \in Reader : reader[r].pc = "done" => reader[r].result = Contents[reader[r].key]

\* Dropping the database ends: the compactor thread drains the channel, every
\* pass comes to an end and the join returns.
DropReturns == pc = "joining" ~> pc = "closed"

\* The log and the memtable never diverge, whatever write fails: opening the
\* files as they are now would give what the database holds.
LogAgreesWithMemory == pc = "idle" => Recovered(dir, log) = Contents
=============================================================================
