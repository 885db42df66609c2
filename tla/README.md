# lsmrs in TLA+

A model of [lsmrs](../src), a single-node key-value store on a log-structured
merge tree: a memtable, a write-ahead log, a set of immutable SSTables merged by
a background thread, and a RESP server in front. The modules are checked with
TLC on small instances; the theorems are proved with TLAPS for every value of
the constants.

## 1. The system

| Part | State | Operations | Talks to |
|---|---|---|---|
| `Db` (`db.rs`) | memtable, `size`, the sender of the compactor's channel, its thread | `with_config`, `put`, `delete`, `get`, `scan`, `flush`, `drop` | `Wal` before the memtable on every write; `SSTableSet::write` when `size` passes `table_size`; a message to the compactor after each flush |
| `Wal` (`wal.rs`) | `wal.log` | `insert`, `delete`, `truncate`, `read` | the file system; replayed by `Db::with_config` |
| `SSTableSet` (`sstable.rs`) | the vector of tables behind `RwLock<Arc<..>>`, `next_seq`, the directory | `open`, `write`, `get`, `pick_run`, `compact` | readers hold snapshots; writer and compactor replace the vector |
| `SSTable`, `merge` (`sstable.rs`) | a file: blocks, sparse index, filter, key range | `open`, `get`, `records` | the bloom filter on each lookup |
| `BloomFilter`, `hash64` | bits | `insert`, `contains` | |
| `Server` (`server.rs`), RESP (`resp.rs`) | `RwLock<Db>`, the shutdown flag, one thread per connection | `run`, `serve_connection`, `dispatch`, `shutdown` | `Db` under the lock |
| CLI, `main` | none | parse, execute | `Db` |

What is hard here:

- **Three actors on one vector.** The writer appends, the compactor splices, a
  reader searches. The compactor looks at the vector three times (to pick, to
  capture, to splice) and uses indices from the first look at the last.
- **Two orders.** `get` and `merge` tell newer from older by position in the
  vector; `open` by the numbers in the names. They have to agree after any
  history of merges, and after a crash in any.
- **No manifest.** A compaction publishes its output and then deletes its inputs
  one by one. What a crash leaves is sorted out at `open` by containment of
  spans alone.
- **Two durable structures.** The log is truncated after the table is durable.
  Either may fail, and the machine or the process may stop, between any two
  steps.
- **Closing.** `drop` joins a thread that is parked on a channel or merging.
- **A file read two ways.** What `write_table` keeps in memory and what `open`
  reads back from the offsets in the trailer must be the same table, and block
  lookup, iteration, filter and key range must agree on every record.
- **Threads that wait for clients.** A connection thread takes the lock around
  the database, and writes to a socket whose other end may not be reading.

What makes each part correct:

- `SSTableSet`: get is atomic at its snapshot; compaction is invisible; a crash
  loses no installed flush and resurrects no deleted key.
- `Wal`: replay returns the finished writes in order and nothing else after a
  crash.
- `Db`: it is a durable map of single writes, whatever is flushed, merged,
  closed, crashed and reopened; closing ends.
- File format: what `write_table` wrote is what `get` and `records` read.
- Bloom filter: no false negative.
- `pick_run`: what it returns is a run of comparable size. It does not find every
  run (one that begins inside a window it gave up is cut in two, finding 3), but
  never passes over 2 × threshold − 2 comparable neighbours.
- `merge`: cursor by cursor, the merge of the tables' contents.
- Server: commands take effect one at a time and are answered in order; a client
  that reads its replies is served even beside one that does not; shutdown ends
  `run`.

## 2. Modules

| Module | What it is |
|---|---|
| `Layers` | The data: memtables and table contents as total functions on `Key` (`None` no record, `Tombstone` a recorded delete), what a stack of tables answers (`View`), the merge of a run, which files a directory listing supersedes. Constant level, so that everything in it can be proved about. |
| `DurableMap` | The abstract specification: a map that changes by whole batches. A batch is proposed, then committed; a crash keeps the map, or finds one proposed batch in it whole. |
| `SSTableSet` | The table set: directory, vector, writer, compactor, readers, crash and open. Implements `DurableMap`. |
| `Wal` | The log and its replay; its actions are conjuncts of `Db`'s. |
| `Db` | The database. Instantiates `SSTableSet` (`Tables`), whose actions become steps of put, of the compactor thread and of open. Implements `DurableMap`, with single writes as batches. |
| `DbHistory` | `Db` with a history variable, every state the database has held, for what can be asked without fsync of the log. |
| `Threshold` | The settings of `Config` that steer `pick_run`, and what is assumed of them. |
| `PickRun` | The ratio scan of `pick_run` over a vector of file sizes. |
| `Records` | Tables as sequences of records in key order, and what such a sequence holds. |
| `MergeRun` | The loop of `merge` over cursors. |
| `BloomFilter` | The filter: its size, probes, `insert`, `contains`. |
| `TableFile` | An SSTable file over byte offsets: `write_table`, `SSTable::open`, `SSTable::get`, `Records`. |
| `Compaction` | Flushes and one pass of the compactor over such files. Composes the four modules above: it extends `PickRun`, `MergeRun` and `TableFile`, and its steps contain theirs. |
| `KvService` | The abstract specification of the server: a queue of commands and one of answers per client, commands executed one at a time. |
| `Server` | The accept loop, the connection threads, the lock, shutdown, and the clients. Implements `KvService`. |
| `LayersProofs` | Lemmas about vectors of tables and about directories of files, and what the two have to do with each other. |
| `SSTableSetProofs`, `FilesProofs`, `RecoveryProofs` | Theorems about the table set, each module on top of the one before: reads and order; that the files and the vector agree, whatever stops; durability, crashes and the refinement. |
| `DbProofs` | Theorems about the database. Instantiates `FilesProofs` (`Files`), as `Db` does `SSTableSet`. |
| `ServerProofs` | Theorems about the server. |
| `TableFileProofs` | What `write_table` lays out is read back, for files of any size. |
| `CompactionProofs` | Theorems about `PickRun`, `MergeRun` and the pass that composes them with the files. |
| `MCSSTableSet`, `MCDb`, `MCDbHistory`, `MCCompaction`, `MCServer` | The instances TLC runs. |

The models meet at their interfaces. `Compaction` has files where `SSTableSet` has
functions; `CompactionProofs` shows that a vector of files answers as `Layers` says
a vector of contents does, before, during and after every pass; `Db` runs `SSTableSet`'s actions; `Server` has the map that
`Db` is shown to implement.

### How the state corresponds to the code

**`SSTableSet`.** `sstables` is the published vector, `next_seq` the counter.
`dir` is the set of files under their final names; a file is its span (its name)
and its content. `.tmp` files are left out: `write_table` syncs the bytes before
the rename, and `open` deletes every `.tmp` it meets, so nothing but the rename
is visible. `crash_dirs` is what the code relies on the file system for: the
states `dir` went through since the last directory fsync. A power failure
(`PowerLoss`) picks one of them; the end of the process alone (`ProcessDies`)
keeps `dir`, and keeps it as little synced as it was.

`write` is `PublishFlush` (up to the rename), `SyncFlush` (the fsync in
`publish`), `InstallFlush` (the counter and the swap of the vector). `compact`
is `CaptureRun`, then `SkipReplacement` or `PublishMerge` and `SyncMerge`, then
`SwapRun`, one `RemoveObsolete` per unlink, `CompactDone`. `FlushFails` and
`CompactFails` are the `?` exits. `PickRun` allows any run of at least `MinRun`
tables, because which tables have comparable sizes depends on bytes the model
does not have; what holds for any choice holds for the code's. `get` is a
snapshot and one probe per table (`ProbeMiss`, `ProbeHit`, `ProbeNothingLeft`).
`Probed` does not look at `dir`: an `SSTable` reads through the descriptor it
opened at its birth, so the unlink of a table in a snapshot is no matter to the
search; the mutant `ProbedByName`, which opens by name, is what would make it
one. `open` is `CleanLeftover` for each superseded file, in name order, and
`OpenSet`.

**`Wal`.** `log` is a sequence of frames, each whole or a fragment (its tail
missing). `crash_logs` plays the part of `crash_dirs`. A CRC that does not match
arises in the model where it arises in the code without disk corruption: behind
a fragment that is not at the end of the file (`MayBeInvalid`). `WalSync` takes a
successful `sync_data` to cover all of the file, frames too whose own `sync_data`
failed; see section 6.

**`Db`.** `pc` is the position of the thread that has `&mut Db` within put or
delete (`begun`, `written`, `logged`, `flush`, `flushed`, `truncating`,
`truncated`), or in open and drop. `OpenFails` is `with_config` returning an error, or the process
ending inside it. `scan` is left out: it changes nothing, and lists the memtable
only (`db.rs:128`), although `README.md:114` says of `SCAN` "Print all key/value
pairs, in order". put and delete differ only in the entry they
write, so one set of actions serves both. `signals` is the number of messages in
the channel, `thread` where the compactor's two nested loops are. `get` takes
`&self`, so gets run beside each other and the compactor, and `Exclusive` keeps
writes and drop away from them, which is what `&mut self` (and the server's
`RwLock`) does. `allowed` is a history variable: for each key, the last finished
write and the unfinished ones begun since; no action reads it. `expected`, in a
reader's record of `SSTableSet`, is another. `DbHistory` adds `past`, every
state `Contents` has had.

**`PickRun`.** `start` and `end` are the code's, counted from 0; `Grow` is a turn
of the inner loop, `Found` the return, `Restart` the assignment to `start` at the
end of the outer one. The ratio is a fraction, compared by multiplying out; the
code multiplies an `f64`, exact for the sizes and ratios in use.

**`MergeRun`.** `cursor[i]` is the position of the record that `peek` shows for
table `i`. `MergeSmallest` is one turn of the loop: the minimum over the peeks,
the overwriting sweep over all cursors at that key, the push. `MergeFails` is
`take_err`.

**`TableFile`.** A file is a function from byte offsets to the items that begin
there (records, index entries, the filter, the key range) with the trailer's
offsets beside it; reading at an offset where no item of the kind begins fails.
So an offset added up wrongly is an error, as it is in the code, and not a
matter of layout. Sizes are the code's sums: 9 bytes around a record, 12 around
an index entry and so on. `NewWriter` is the record that stands for
`write_table`'s locals and for what its `BufWriter` has been given (`Emit` adds an
item behind the rest); `WriteRecord` and `WriteIndexEntry` are a turn of its two
loops, and `Written` is what it returns. `ReadItems` is the three reading loops
(of `get`, of `Records` and of `open`'s index), which differ in the items they
expect; `OpenTable(file)` the set of tables `open` returns for the file (empty
for an error). `HashOf` is `hash64`: any function into pairs of halves.

**`Compaction`.** `pc` is the position in `write` (`flushing`) or in the
compactor's inner loop (`picking`, `merging`, `rewriting`). `GiveUp` is `compact`
returning an error, which breaks the loop. A memtable is the sequence of records a
`BTreeMap` iterates over, sorted and not empty (`CompactionAssumption`), as
`SSTableSet::write` returns early for an empty one. `StartScan` gives size 0 to up
to `MaxUnsized` files, those whose `metadata` fails. `contents` is a history
variable: what the flushed memtables add up to.

**`Server`.** A connection is an inbox and an outbox. `inbox` holds what the client
sent and `read_command` has not taken: commands, or bytes that are none
(`MALFORMED`); `outbox` the replies the client has not read, at most `Capacity`,
after which `write_all` waits. `pc` is the place of a connection's thread in
`serve_connection`: `reading`, then, inside `dispatch`, `waiting` for the lock,
`getting` with the read guard or `writing` with the write guard, then `replying`
or, where the turn ends the connection, `closing`. The guards are temporaries of
the `match` (and a local in the arm of `DEL`), so they are gone when `dispatch`
returns; `LockReaders` and `LockWriters` are therefore the threads at `getting`
and `writing` and no others. `DEL` holds its guard through its loop, one `DelKey`
per key; `left` and `removed` are its iterator and its counter, set up with the
command (`ReadCommand`) and used under the lock. `PING`, `ECHO`, `COMMAND` and what
`dispatch` rejects (`REJECTED`: an unknown name, a wrong number of arguments) need
no database and are answered where they are read; a `PING` with an argument is an
`ECHO`. `Stop` and `Spawn` are the loop of `run`, which looks at the flag after
`accept`; `SetFlag` and `Wake` are `ShutdownHandle::shutdown`. The lock is modelled
by what the code relies on (readers share, a writer is alone), the sockets
likewise (in order, no byte lost while both ends are open).

`Server` implements `KvService` under this mapping: the queue of a client is its
inbox, with the command its thread is executing in front; its answers are its
outbox, with the reply its thread holds behind; and the map is `seen`, the
database as it was when the write lock was last free. So a `SET` takes effect
where the map changes, a `GET` where it is read, and a `DEL` of several keys all
at once when its loop ends, in the last key's `DelDone` or the `DelFails` that
ends it.

## 3. Runs

| Run | Instance | Shows |
|---|---|---|
| `set_crash` | two keys, two values, three memtables (sets both, deletes one, overwrites one and deletes the other), 3 flushes, 2 power failures, failing flushes | `TypeOK`, `LiveTablesDurable`, `CrashLosesNothing`, and that `SSTableSet` implements `DurableMap` |
| `set_concurrent` | two keys, two memtables (one sets the first key, one deletes it and sets the second), 4 flushes, one reader, one crash of either kind, failing unlinks | `SpansOrdered`, `RunIntact`, `ReadsAreAtomic`, `CompactionInvisible` |
| `set_unlink` | one key, 3 flushes, a failing unlink | **violation** of `CrashLosesNothing` (finding 1) |
| `db_crash` | two keys, 3 writes, each flushed, 2 power failures, failing flushes and truncates | `TypeOK`, and that `Db` implements `DurableMap` |
| `db_faults` | one key, 5 writes, two to a flush, 2 crashes of either kind, failing log appends, log fsyncs, flushes, truncates | `CrashLosesNoWrite` |
| `db_close` | one key, 5 writes, one reader, one process crash, failing compactions and unlinks | `GetIsCurrent`, `DropReturns` |
| `db_torn` | 3 writes, frames may be torn by a power failure | **violation** of `CrashLosesNoWrite` (finding 2) |
| `db_sync_error` | 3 writes, the log's fsync may fail | **violation** of `LogAgreesWithMemory` (finding 4) |
| `db_nosync` | `sync = false`; two keys, 3 writes, one power failure | **violation** of `CrashLosesLastWrites` (finding 5) |
| `compact_files` | four keys, of which two and two share all their filter probes; one short and one long value; flushes of five kinds of memtable (one record, one tombstone, one block, several blocks, a long record in front of a tombstone), one to five of them, then a pass; runs of three or more within 3/2; reads and writes that fail, and one file at a time whose size cannot be read | `GetsUnchanged`, `ReopenAgrees`, `PassEnds`, and `MergesToNewest`, `PickedComparable`, `BacklogBounded` on what `merge` and `pick_run` are given there |
| `compact_oldest` | the same tables, every size read | **violation** of `OldestRunPicked` (finding 3) |
| `server_clients` | two clients, two keys, three commands; one client sends `DEL` of both keys, `SET`, `ECHO` and a command that is rejected, and always reads; the other sends `GET`, `SET`, blank lines, `QUIT` and garbage, may stop reading or hang up; room for one unread reply; accept, reads and writes of the database may fail; shutdown at any time | that `Server` implements `KvService`, `CommandsAnswered`, `ShutdownReturns` |

Bounds. `MaxSeq` bounds the sequence numbers, `MaxOps` the writes, `MaxCrashes`
the crashes; `signals` is bounded by the writes. `Memtable` is the set of
memtables a flush may write. Three tables are the fewest with a run that does
not begin at the oldest table, a table in front of it that a dropped tombstone
would uncover, and a merge of a merge; four add a flush behind the run and a run
in the middle. Two crashes are the fewest with a crash during the recovery from
a crash. One reader is enough in `set_concurrent` and `db_close` because readers
share nothing they write. One key is enough where the property is about order;
`set_crash` and `db_crash` have two, so that a merge may be partly empty and a
batch partly applied. Writes of one key still differ: put and delete.

In `compact_files` `MaxTables` bounds the vector and `MaxUnsized` the files of one
scan whose size is not known; one is enough to close a window anywhere. Five tables and a threshold of
three are the fewest with a run that neither begins nor ends at an end of the
vector, a window given up in front of one, a merge whose output is merged again,
and a stretch as long as `BacklogBounded` forbids (four). Words of 8 bits and
blocks of 20 bytes put several words into a filter and several blocks into a
file of four records; the code's 64 and 4096 would need hundreds. In
`server_clients` `MaxSends` bounds the commands. Three are enough for a `DEL`
and a `GET` beside each other with a `SET` before, and for two commands
pipelined behind one another with a third on the other connection; with
`Capacity` 1 the second unread reply blocks its thread.

Deadlock is not checked: every run stops when its bounds are used up, and an
open database without requests, or a server without clients, is at rest.

Fairness. `db_close` uses it (`FairSpec`): weak fairness of the compactor
thread, which the operating system schedules and which waits on nothing but its
channel, and of the join. No fairness is assumed of writes, reads, crashes or
open. `DropReturns` needs no strong fairness: once the sender is gone nothing
refills the channel, a pass that fails gives up its signal, and one that
succeeds shortens the vector.

`compact_files` has weak fairness of the steps of a pass, which are one thread's.
`PassEnds` holds because each turn of the scan moves `start`, each compaction
leaves fewer tables, and an error ends the pass. `server_clients` has weak
fairness of the accept loop, of each connection's thread and of the second half
of `shutdown`: threads the operating system schedules. A thread waiting for the
lock is served by weak fairness only because the model's clients send finitely
many commands (`MaxSends`); with unbounded traffic the standard library's lock
does not promise it. Of clients nothing is assumed, except that those in
`Prompt` go on reading replies: without one that does, `CommandsAnswered` could
not hold of anyone's server, and with one the property says that the other
client cannot keep it from being served. `ShutdownReturns` assumes that the
connection a server makes to itself succeeds.

Crash kinds. `ImplementsDurableMap` and `CrashLosesNothing` are checked for
power failures. A process that dies between appending a record and syncing it
leaves a record that the next process replays and shows to readers, and that a
power failure may still remove: a visible value can vanish, although no finished
write can. The same holds for a table renamed but not yet synced when the
process dies. `db_faults` mixes both kinds of crash and checks what the code
does promise then: `CrashLosesNoWrite`, which is about finished writes and does
not catch the vanishing value. A process that ends inside `with_config` is
`OpenFails`.

### Findings

1. **A leftover nothing supersedes** (`set_unlink`, `sstable.rs:264`). The first
   failing `remove_file` ends the compaction and nobody retries it. When a later
   compaction from the oldest table comes out empty, the leftover is in no other
   file's span, and the next `open` serves its deleted pairs. The same follows
   from an output that was renamed and then failed to sync or to reopen (`Faults
   = {"compact_publish"}`, three flushes, one more compaction). There it can even
   upset the order: the file [0, 1] of a merge given up beside that of a later
   merge of [1, 2] are in neither's span, and `open` lists both. This is why
   `AgeOrdered` and the theorems after it (section 4) exclude that fault.
2. **A torn frame stays in the log** (`db_torn`, `wal.rs:48`, `wal.rs:138`).
   Replay stops at it; appends go behind it. The next replay loses them or
   fails.
3. **The oldest run is not always found** (`compact_oldest`, `sstable.rs:294`). A
   window that stops growing too early is given up whole, and the scan goes on
   at its end. Of files of 144, 188, 228 and 228 bytes, threshold 3 and ratio
   1.5, the last three are a run; but 144 and 188 are a window, which the first
   228 ends, and `pick_run` returns `None`. The comment at `sstable.rs:271` promises
   "the oldest run long enough to be worth merging". `BacklogBounded` is what the
   code does promise.
4. **A failed fsync leaves its record** (`db_sync_error`, `wal.rs:83`): the
   write the caller was told had failed takes effect at the next open.
5. **Without fsync, not the last writes are lost** (`db_nosync`, `db.rs:88`). A
   flush makes its table durable. Of the log, which is truncated after that, any
   earlier part may be on disk when power fails, and is replayed over the newer
   table: the first write of a key hides its later ones while other keys keep
   theirs. `DESIGN.md:74` and `README.md:182` say "last few writes lost on crash".

## 4. Proofs

`LayersProofs` proves what `View`, `Merge` and `Splice` do to each other, ending
in `MergePreservesView`: replacing a run by its merge, or by nothing if the
merge is empty, changes the answer for no key, provided tombstones are dropped
only from a run that begins with the oldest table. The argument goes by
`Record`, the newest record of a key in a sequence of tables: the record of a
concatenation is the right part's, if it has one, and the left part's otherwise
(`RecordOfConcat`).

`SSTableSetProofs` proves for every value of the constants that satisfies the
assumptions in `Layers` and `SSTableSet`, any number of readers, flushes, tables
and crashes, and every combination of faults:

| Theorem | Says |
|---|---|
| `TypeCorrect` | `Spec => []TypeOK` |
| `RunStaysIntact` | `Spec => []RunIntact` |
| `ReadsAtomic` | `Spec => []ReadsAreAtomic` |
| `CompactionShowsNothing` | `Spec => CompactionInvisible` |

The inductive invariant is `TypeInv`. `TypeOK` alone is not inductive: that
`Merged` is a table content needs the captured run to be non-empty and of
`count` tables, which is `RunIntact`; that nothing but open changes the vector
of a closed set needs `DownIsIdle` (no actor is active while no process runs);
that `open` builds a finite vector needs `DirsFinite`. `RunIntact` is inductive
because flushes only append (`AppendKeepsRun`) and no one but the compactor
splices. `SearchInv` says of a reader inside `get` that no table it has passed
in its snapshot has a record of its key, from which `ReadsAreAtomic` follows.
`CompactionShowsNothing` is `TypeInv`, `RunIntact` to know that what is spliced
out is what was merged, and `MergePreservesView`.

The order of the vector and what is on disk need more, and hold under conditions
that the findings show to be necessary:

| Theorem | Says | If |
|---|---|---|
| `AgeOrdered` | `Spec => []SpansOrdered` | no merge is given up after its rename |
| `TablesStayDurable` | `Spec => []LiveTablesDurable` | in addition, crashes are power failures |
| `CrashesLoseNothing` | `Spec => []CrashLosesNothing` | crashes are power failures, and nothing but flushes fails |
| `Refinement` | `Spec => ImplementsDurableMap` | the same |

Without the first condition a published and forgotten merge overlaps a later one
(finding 1, second form); with a failing unlink `CrashLosesNothing` is false
(finding 1); a process that dies between rename and fsync leaves the next one a
table that is visible and not durable ("Crash kinds", section 3). Crashes during
recovery from crashes are included, in any number.

The invariants are built on each other:

- `OrderInv`: the vector is in age order because everything `open` may read is a
  set of nested or disjoint spans (`DirsNested`, of every directory a crash can
  leave, for `open` runs on those) and because each file lies within a live
  table, apart from all, or is the merge being published (`Placed`). `Placed`
  is what a merge given up would break: a file that no live table covers any
  more and that one of them will overlap.
- `FilesInv` (`FilesProofs`) speaks of one directory at a time and so holds for
  crashes of both kinds. Its heart is `DirHolds`: the files of the finished
  flushes answer like the vector once `open` has dropped what is superseded. It
  survives the publication of a merge because containment hides exactly the
  merge's inputs; it survives each unlink because the files yet to be unlinked
  are `Harmless`: a live table covers them, or the merge came out empty, in which
  case they are the oldest files and among them every key's newest record is a
  tombstone, or there is none. The unlinks go from the oldest on, so what is
  left of them never uncovers a value. `FlushSynced` says that after the fsync of
  a flush every directory a crash may leave shows the same; `StepShown`, that no
  step but the rename of a flush makes a crash show anything new.
- `DurableInv`: the file behind every live table is in each directory of
  `crash_dirs`; between rename and fsync the new file is in the last of them
  (`FlushDurable`, `MergeDurable`), and after the fsync it is in all. An unlink
  takes nothing live, because what it takes is not in the vector
  (`ObsoleteGone`) and names are distinct (`DirsNamed`).
- `LossInv` puts the two together: in whichever directory, the files of the
  finished flushes answer like the vector (`BaseHolds`). That a file of the flush
  in progress adds that flush whole (`WithPending`) completes
  `CrashLosesNothing`.
- `Refinement` maps `sstables`, or while the set is closed the directory, to the
  map, and the batch of the flush in progress to the proposed batch. Each action
  is a proposal, a commit (`InstallFlush`), a crash (`PowerLoss`, which finds the
  batch or not) or a stutter; that compaction and each unlink of a recovery are
  stutters is `CompactionShowsNothing`'s argument and `LossInv`'s.

`DbProofs` proves of the whole database, for any number of readers, writes,
tables and crashes:

| Theorem | Says | If |
|---|---|---|
| `TypeCorrect` | `Spec => []TypeOK` | |
| `GetsAreCurrent` | `Spec => []GetIsCurrent` | |
| `NoWriteIsLost` | `Spec => []CrashLosesNoWrite` | `FilesReliable` |
| `Refinement` | `Spec => ImplementsDurableMap` | `OutcomesDecided` |
| `LogAgrees` | `Spec => []LogAgreesWithMemory` | `OutcomesDecided` |

The first two hold for every combination of faults and crashes. The conditions
of the others are what the findings show to be necessary, and what the code
does not promise without them. `FilesReliable`: the log is synced (`db_nosync`
is finding 5), half a frame is never left in front of others (`db_torn` is
finding 2), and neither the publication of a merge nor an unlink fails
(finding 1); a failing flush, a failing fsync of the log, a failing truncation
and crashes of machine or process at any step are all allowed. `OutcomesDecided`:
in addition the log's fsync does not fail (finding 4) and crashes are power
failures ("Crash kinds", section 3). The constants of `db_faults` satisfy the
first, those of `db_crash` the second.

The steps of `Db` are steps of the table set (`TablesStep`), so the invariants
above carry over; the `Same...` lemmas say that `Db`'s two instances of the
table set, the one it runs and the one it is proved with, are one. What is
added:

- `DbTypeInv`: the phase of the table set follows from `pc`; a thread inside a
  write is alone, and a flush writes the memtable it was started for
  (`WriterAlone`). That a flush never gets an empty memtable is part of it.
- `ReaderCurrent`: what a get is going to answer is what the database holds at
  each moment of it. No write can begin while it runs, and `CompactorShowsNothing`
  takes care of the compactor.
- `RecoverInv`: whatever a crash leaves of the log has whole frames
  (`WholeFrames`); the write in progress is the last in the log, and once synced
  in all that may be left of it (`WriteLogged`); and, the heart, when the log is
  cut every directory a crash may leave shows all there is, and the memtable is
  empty (`TablesHoldAll`). So the two durable structures never both lack a
  write, and replaying a log over tables that have it already changes nothing.
- `AllowedInv` (for `NoWriteIsLost`): every directory with every log a crash may
  leave opens to values in `allowed` (`CrashAllowed`). The step that matters is
  the success of a write, which takes from `allowed` all but that write: by
  `WriteLogged` every log has it by then. When the write flushes, the tables
  have it by `TablesHoldAll`.
- `MapInv` (for `Refinement`): a crash shows what the database holds, or that and
  the write in progress, and must show the latter once the log is synced
  (`CrashShows`, `WrittenShows`). `Begin` proposes, `Insert` commits, a power
  failure is a crash of the map, and all other steps are stutters.

`ServerProofs`, for any number of clients and connections, any commands, room
for any number of replies, and every combination of faults:

| Theorem | Says |
|---|---|
| `ServerCorrect` | `Spec => []ServerInv` |
| `Refinement` | `Spec => ImplementsKvService` |

`ServerInv` consists of types; `Queued` (a connection waits for accept once, and
has no thread until then, so that no thread is ever started over); `Locking` (a
thread waits for the lock, or has it, in the mode of its command, and a waiting
`DEL` has all of its work to do); `WriterAlone`
(what the lock excludes); and `Progress`: the map differs from what it was when
the lock was last free by exactly the keys that the one thread inside a `DEL`
has done with, its count is the number of those that were there, and its list
is the rest (`Deleted`; `OneMoreDeleted` is the turn of its loop, for lists with
repeated keys too). Under the mapping of section 2 a command that needs no
database takes effect when it is read, and one that does when its thread lets
the lock go; every other step of a thread is the end of a connection or nothing
a client can tell. That no assumption is needed about faults shows what the
answers promise when they are errors, and no more: `KvService` lets a failed
`SET` have happened, and a failed `DEL` have removed a prefix of its keys.

`CompactionProofs` begins with the scan, for every vector of sizes, every
threshold from 2 on (`ThresholdAssumption`) and every ratio, below 1 included:

| Theorem | Says |
|---|---|
| `PickTypeCorrect` | `PickSpec => []PickTypeOK` |
| `PickedRunsComparable` | `PickSpec => []PickedComparable` |
| `BacklogIsBounded` | `PickSpec => []BacklogBounded` |

The invariant, `PickInv`, adds to types and `PickedComparable` where the window
is (`Window`), what lies behind the scan (`Passed`: no comparable stretch longer
than 2 × threshold − 3) and what lies across it (`Cut`: of a comparable stretch
across `start` at most threshold − 2 tables are behind it). `Cut` is what makes
`Passed` inductive: when a window is given up, a stretch that ends in it has at
most threshold − 2 tables in front of the window and at most threshold − 1 in
it. `Cut` itself holds because a stretch that reaches past a window given up
does not contain all of it, or the window would have grown.

Then the loop over cursors, for every number of tables of every content:

| Theorem | Says |
|---|---|
| `MergeTypeCorrect` | `MergeSpec => []MergeTypeOK` |
| `MergeIsCorrect` | `MergeSpec => []MergesToNewest` |

The invariant, `MergeInv`, is `InRange` (cursors), `Frontier` (every key read, and
every record kept, is smaller than every key a cursor shows) and `Kept` (the
records kept are those of the keys read, each as `Merge` has it). The step that
matters is that the newest record among the cursors at the smallest key is the
newest record of that key in the whole run: a table whose cursor does not show
the key does not have it, by `Frontier` on one side and its order on the other.

`TableFileProofs` is about one file, of any number of records, any sizes of keys
and values, any block size, any filter and any hash:

| Lemma | Says |
|---|---|
| `HasWritten` through `NewWriterOK`, `WriteRecordOK`, `WriteIndexEntryOK` | `write_table` keeps its records laid out one behind the other, the sparse index over them, and every record in the filter |
| `WrittenOK` | at its end index, filter and key range are where the trailer says |
| `BlockIsRead`, `AllRecordsAreRead` | between the offsets of two index entries lie the records of one block and no others; `Records` gives all records in order |
| `LookupIsContent` | `SSTable::get` finds for every key what the records hold: key range, filter and sparse index exclude no record, and the scan of one block is enough |
| `ReopenIsIdentity` | `open` makes of the file the table its writer kept |

A file is read by recursion over offsets, so these are statements about
recursive functions. The induction theorems of the library cannot be used for
them; instead a recursive function is shown to exist (`ReadingExists`: an item
takes at least one byte, so a reading moves on and ends) and to unfold
(`ReadItemsUnfolds`, `RecordsOf` likewise), and what it computes follows from the
least place at which it would be wrong (`LeastNumber`). `LookupIsContent`
contains that the filter has no false negative (`FilterOK`, kept by `InsertOK`):
an insert sets the probes of its key and clears none, and the parameters of the
probes are those `new` chose.

The pass, for every set of memtables, every `MaxTables` and all the constants
above:

| Theorem | Says |
|---|---|
| `GetsNeverChange` | `Spec => []GetsUnchanged` |
| `EveryTableReopens` | `Spec => []ReopenAgrees` |
| `PassMergesToNewest` | `Spec => []MergesToNewest` |
| `PassPicksComparable` | `Spec => []PickedComparable` |
| `PassBoundsBacklog` | `Spec => []BacklogBounded` |

The invariant, `CompactionInv`, is `PickInv`, `MergeInv`, and of the files
`VectorOK`: each is a table that can be read (`TableReads`: its records are sorted,
`get` finds their content, `open` returns it). `Files` turns such a vector into
one of the functions `SSTableSet` and `Layers` work with; append, splice and
search commute with it (`AppendOK`, `SpliceOK`, `SetGetIsView`). `contents` is the
`View` of `Files(sstables)` but while a flush is on its way; the writer is on its
way to a table of the memtable's or the merge's records (`Writing`); and the run
being merged is still the one that was picked (`AtWork`). So `MergeIsCorrect`'s
invariant meets what `write_table` lays out and `MergePreservesView` in
`CompactionKeepsView`, the step that matters: a run replaced by the file of its
merge, or by nothing, is not seen by a reader. `drop_tombstones` being `start = 0`
is what makes `MergePreservesView` apply.

`CompactionInv` speaks of all sequences of records and is not a formula TLC can
evaluate; `GetsUnchanged`, `ReopenAgrees` and the invariants of the scan and the
merge are what the run checks of it.

All of it rests on the assumptions named in `Layers` (`None` and `Tombstone` are
different, and no values), `Records` (keys are numbers, for an order),
`BloomFilter` and `TableFile` (sizes and hashes are numbers), `Compaction`
(memtables are sorted and not empty, `MaxUnsized` is a number, of any size),
`Threshold`, `SSTableSet`, `Db` and `Server` (commands have the number of arguments
that `dispatch` matches on; others are `REJECTED`).

## 5. Only model-checked

`DropReturns`, `PassEnds`, `CommandsAnswered` and `ShutdownReturns` are liveness
properties under fairness, which the prover does not do, and stay with TLC, as do
the violations of the findings. Every invariant, action property and refinement
the passing runs check is also a theorem, with the conditions of section 4.

## 6. Not modelled

- Bytes below an item: the contents of frames, records and RESP messages, their
  checksums, magic, version and type bytes, lengths beyond a `u32`. The mixing of
  `hash64`. The rendering of replies and the texts of errors.
- `read_command` takes a command in one step. An inline command that the end of
  the stream cuts short is executed as it stands (`resp.rs:81`), and the two bytes
  behind a bulk string are not compared with CR LF (`resp.rs:72`); neither is
  visible without bytes.
- A connection closed with unread input, for which TCP may discard replies still
  on their way. Failing `thread::spawn`, which panics. `accept` failing for lack
  of descriptors without a connection to take from the backlog: the loop turns
  once and nothing has changed. A poisoned lock: no code that holds the guard can
  panic. A failing connection in `shutdown` (see fairness).
- A file system that drops dirty pages when an fsync fails. The `sync_data` of a
  later write would then succeed over a hole in the log, and replay would stop
  in front of an acknowledged frame. `WalSync` assumes that it does not.
- Directory operations that reach the disk out of order; the durability of
  `wal.log`'s own creation; disk corruption.
- Two processes in one directory. The code takes no lock and assumes it does not
  happen.
- Thresholds of 0 and 1, for which `pick_run` returns single tables and
  `compact`'s assertion ends the compactor thread; `Config` does not exclude them,
  `ThresholdAssumption` does.
- `size` starting at 0 over a replayed memtable is in `Db`; how large a table can
  become by it is no property here.
- I/O errors of reads in `get`: the call returns the error and changes nothing.
- The CLI (it parses a line and calls `Db`), `main`, `Config`'s defaults, the error
  type, the load generators: no state of their own.

## 7. What could be added

All modules of section 2 are written, and every safety property of the passing
runs is a theorem. Beyond that:

1. The framing of `read_command` as a module over bytes, if more of RESP is
   wanted; it would be a reader without interleavings or faults but the end of
   the stream.
2. `SSTableSet` over the files of `Compaction` instead of functions. `Files` is the
   mapping that would carry its theorems over; crashes would be those of
   `SSTableSet`, whose directory holds whole files only.
