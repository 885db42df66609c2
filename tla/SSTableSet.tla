----------------------------- MODULE SSTableSet -----------------------------
(***************************************************************************)
(* The set of SSTables of one database: the directory, the published       *)
(* vector of tables, the writer that flushes memtables into it, the        *)
(* compactor thread that merges runs of it, and the readers that search a  *)
(* snapshot of it.  The three run concurrently: the writer holds Db's      *)
(* write lock, the compactor holds no lock but the one around each access  *)
(* to the vector, a reader holds its snapshot.                             *)
(*                                                                         *)
(* Beside the directory the module keeps the states the directory went     *)
(* through since its last fsync.  A crash may leave any of them: directory *)
(* operations reach the disk in the order they were made, and all of them  *)
(* are there once a directory fsync returned.                              *)
(***************************************************************************)
EXTENDS Layers

CONSTANTS
    MinRun,         \* compaction_threshold
    Memtable,       \* the memtables the environment may flush
    MaxSeq,         \* bound: sequence numbers 0..MaxSeq-1 are handed out
    Reader,         \* threads calling get
    CrashKinds,     \* what may stop: the machine, the process or both
    MaxCrashes,     \* bound on crashes
    Faults          \* the I/O errors that can happen

FaultNames == {"flush_publish", "compact_publish", "unlink"}

ASSUME SSTableSetAssumption ==
    /\ MinRun \in Nat /\ MinRun >= 2
    /\ Memtable \subseteq Data \ {Empty}
    /\ MaxSeq \in Nat
    /\ CrashKinds \subseteq {"power", "process"}
    /\ MaxCrashes \in Nat
    /\ Faults \subseteq FaultNames

VARIABLES
    phase,      \* "down": no process; "up": SSTableSet::open has returned
    dir,        \* the files under their final names
    crash_dirs, \* the states of dir since its last fsync
    sstables,   \* the published vector of tables, oldest first
    next_seq,
    writer,     \* where write is
    batch,      \* the memtable being written
    compactor,  \* where the compactor thread is
    start,      \* the run it picked, start counting from 0
    count,
    run,        \* the tables of that run, from compact's own snapshot
    obsolete,   \* the spliced-out tables it has yet to unlink
    reader,     \* what each thread in get is doing
    crashes

dirVars       == <<dir, crash_dirs>>
writerVars    == <<writer, batch, next_seq>>
compactorVars == <<compactor, start, count, run, obsolete>>
vars == <<phase, dirVars, sstables, writerVars, compactorVars, reader, crashes>>

-----------------------------------------------------------------------------
(* The directory.                                                          *)

DirWithout(table) == {t \in dir : ~SameName(t, table)}
DirWith(table)    == DirWithout(table) \cup {table}

\* A rename over the final name, or remove_file: no fsync has covered it yet.
ChangeDir(d) == dir' = d /\ crash_dirs' = crash_dirs \cup {d}

\* Mutant: the directory is never fsynced.
FsyncDirSkipped == UNCHANGED dirVars

FsyncDir == dir' = dir /\ crash_dirs' = {dir}

-----------------------------------------------------------------------------
(* write: flushing a memtable.                                             *)

\* Mutant: the sequence number is one behind.
FlushedOneBehind(m) == [first |-> next_seq - 1, last |-> next_seq - 1, data |-> m]

Flushed(m) == [first |-> next_seq, last |-> next_seq, data |-> m]

\* write_table up to and including the rename of publish.
PublishFlush(m) ==
    /\ phase = "up"
    /\ writer = "idle"
    /\ next_seq < MaxSeq
    /\ ChangeDir(DirWith(Flushed(m)))
    /\ writer' = "renamed"
    /\ batch' = m
    /\ UNCHANGED <<phase, sstables, next_seq, compactorVars, reader, crashes>>

\* publish's fsync of the directory.
SyncFlush ==
    /\ writer = "renamed"
    /\ FsyncDir
    /\ writer' = "synced"
    /\ UNCHANGED <<phase, sstables, next_seq, batch, compactorVars, reader, crashes>>

\* Mutant: the new table is put in front of the vector.
InstallFlushInFront ==
    /\ writer = "synced"
    /\ next_seq' = next_seq + 1
    /\ sstables' = <<Flushed(batch)>> \o sstables
    /\ writer' = "idle"
    /\ batch' = Empty
    /\ UNCHANGED <<phase, dirVars, compactorVars, reader, crashes>>

\* The sequence number is used up and the table appended to the vector.
InstallFlush ==
    /\ writer = "synced"
    /\ next_seq' = next_seq + 1
    /\ sstables' = Append(sstables, Flushed(batch))
    /\ writer' = "idle"
    /\ batch' = Empty
    /\ UNCHANGED <<phase, dirVars, compactorVars, reader, crashes>>

\* The directory fsync, or reopening the file, fails: write returns the error
\* with the file in place and next_seq as it was.
FlushFails ==
    /\ "flush_publish" \in Faults
    /\ writer \in {"renamed", "synced"}
    /\ writer' = "idle"
    /\ batch' = Empty
    /\ UNCHANGED <<phase, dirVars, sstables, next_seq, compactorVars, reader, crashes>>

-----------------------------------------------------------------------------
(* The compactor: pick_run, then compact on what it picked.                *)

CompactorIdle ==
    /\ compactor' = "idle"
    /\ start' = 0
    /\ count' = 0
    /\ run' = <<>>
    /\ obsolete' = <<>>

\* pick_run on its own snapshot.  Which runs are of comparable size depends on
\* file sizes, so any run of at least MinRun tables may be picked.
PickRun ==
    /\ phase = "up"
    /\ compactor = "idle"
    /\ \E s \in 0..Len(sstables), c \in MinRun..Len(sstables) :
        /\ s + c <= Len(sstables)
        /\ start' = s
        /\ count' = c
    /\ compactor' = "picked"
    /\ UNCHANGED <<phase, dirVars, sstables, writerVars, run, obsolete, reader, crashes>>

\* compact's snapshot.
CaptureRun ==
    /\ compactor = "picked"
    /\ run' = SubSeq(sstables, start + 1, start + count)
    /\ compactor' = "merging"
    /\ UNCHANGED <<phase, dirVars, sstables, writerVars, start, count, obsolete, reader, crashes>>

\* Mutant: every merge drops its tombstones.
MergedDroppingAlways == Merge(run, TRUE)

\* Only a run that begins with the oldest table of all may drop tombstones.
Merged == Merge(run, start = 0)

Compacted == [first |-> run[1].first, last |-> run[count].last, data |-> Merged]

\* The merge came out empty: there is no replacement to write.
SkipReplacement ==
    /\ compactor = "merging"
    /\ Merged = Empty
    /\ compactor' = "merged"
    /\ UNCHANGED <<phase, dirVars, sstables, writerVars, start, count, run, obsolete, reader, crashes>>

PublishMerge ==
    /\ compactor = "merging"
    /\ Merged # Empty
    /\ ChangeDir(DirWith(Compacted))
    /\ compactor' = "renamed"
    /\ UNCHANGED <<phase, sstables, writerVars, start, count, run, obsolete, reader, crashes>>

SyncMerge ==
    /\ compactor = "renamed"
    /\ FsyncDir
    /\ compactor' = "merged"
    /\ UNCHANGED <<phase, sstables, writerVars, start, count, run, obsolete, reader, crashes>>

Replacement == IF Merged = Empty THEN <<>> ELSE <<Compacted>>

\* replace_tables: the splice is applied to the vector as it is now.
SwapRun ==
    /\ compactor = "merged"
    /\ sstables' = Splice(sstables, start, count, Replacement)
    /\ obsolete' = SubSeq(sstables, start + 1, start + count)
    /\ compactor' = "removing"
    /\ UNCHANGED <<phase, dirVars, writerVars, start, count, run, reader, crashes>>

\* Mutant: the newest obsolete table is unlinked first.
RemoveObsoleteNewestFirst ==
    /\ compactor = "removing"
    /\ obsolete # <<>>
    /\ ChangeDir(DirWithout(obsolete[Len(obsolete)]))
    /\ obsolete' = SubSeq(obsolete, 1, Len(obsolete) - 1)
    /\ UNCHANGED <<phase, sstables, writerVars, compactor, start, count, run, reader, crashes>>

\* One remove_file of the loop over the obsolete tables, oldest first.
RemoveObsolete ==
    /\ compactor = "removing"
    /\ obsolete # <<>>
    /\ ChangeDir(DirWithout(Head(obsolete)))
    /\ obsolete' = Tail(obsolete)
    /\ UNCHANGED <<phase, sstables, writerVars, compactor, start, count, run, reader, crashes>>

CompactDone ==
    /\ compactor = "removing"
    /\ obsolete = <<>>
    /\ CompactorIdle
    /\ UNCHANGED <<phase, dirVars, sstables, writerVars, reader, crashes>>

\* compact returns an error and the compactor thread gives up for now: writing
\* the merged table failed before its rename, or after it (fsyncing the
\* directory, reopening the file), or an unlink failed.
CompactFails ==
    /\ \/ compactor = "merging"
       \/ /\ compactor \in {"renamed", "merged"}
          /\ Replacement # <<>>
          /\ "compact_publish" \in Faults
       \/ compactor = "removing" /\ obsolete # <<>> /\ "unlink" \in Faults
    /\ CompactorIdle
    /\ UNCHANGED <<phase, dirVars, sstables, writerVars, reader, crashes>>

-----------------------------------------------------------------------------
(* get: a newest-first search of a snapshot.                               *)

ReaderIdle == [pc |-> "idle", key |-> None, snap |-> <<>>, left |-> 0,
               expected |-> None, result |-> None]

\* expected is not in the code: it remembers what the vector said when the
\* snapshot was taken.
GetSnapshot(r, k) ==
    /\ phase = "up"
    /\ reader[r].pc = "idle"
    /\ reader' = [reader EXCEPT ![r] =
                    [pc |-> "probing", key |-> k, snap |-> sstables, left |-> Len(sstables),
                     expected |-> View(sstables)[k], result |-> None]]
    /\ UNCHANGED <<phase, dirVars, sstables, writerVars, compactorVars, crashes>>

\* Mutant: the search looks at the current vector instead of its snapshot.
ProbedLive(r) ==
    LET ts == IF reader[r].left <= Len(sstables) THEN sstables ELSE reader[r].snap
    IN ts[reader[r].left].data[reader[r].key]

\* Mutant: a table is opened by its name at each probe; a file that is gone has
\* no record.
ProbedByName(r) ==
    LET found == {t \in dir : SameName(t, reader[r].snap[reader[r].left])}
    IN IF found = {} THEN None ELSE (CHOOSE t \in found : TRUE).data[reader[r].key]

\* What the next table of the search has for the key.  It reads through the
\* descriptor the table keeps open, so whether the name is still in dir is no matter.
Probed(r) == reader[r].snap[reader[r].left].data[reader[r].key]

ProbeMiss(r) ==
    /\ reader[r].pc = "probing"
    /\ reader[r].left > 0
    /\ Probed(r) = None
    /\ reader' = [reader EXCEPT ![r].left = @ - 1]
    /\ UNCHANGED <<phase, dirVars, sstables, writerVars, compactorVars, crashes>>

ProbeHit(r) ==
    /\ reader[r].pc = "probing"
    /\ reader[r].left > 0
    /\ Probed(r) # None
    /\ reader' = [reader EXCEPT ![r].pc = "done", ![r].result = Visible(Probed(r))]
    /\ UNCHANGED <<phase, dirVars, sstables, writerVars, compactorVars, crashes>>

ProbeNothingLeft(r) ==
    /\ reader[r].pc = "probing"
    /\ reader[r].left = 0
    /\ reader' = [reader EXCEPT ![r].pc = "done", ![r].result = None]
    /\ UNCHANGED <<phase, dirVars, sstables, writerVars, compactorVars, crashes>>

Return(r) ==
    /\ reader[r].pc = "done"
    /\ reader' = [reader EXCEPT ![r] = ReaderIdle]
    /\ UNCHANGED <<phase, dirVars, sstables, writerVars, compactorVars, crashes>>

-----------------------------------------------------------------------------
(* Crash and open.                                                         *)

MemoryLost ==
    /\ phase' = "down"
    /\ sstables' = <<>>
    /\ next_seq' = 0
    /\ writer' = "idle"
    /\ batch' = Empty
    /\ CompactorIdle
    /\ reader' = [r \in Reader |-> ReaderIdle]

\* The machine stops: the directory is in one of the states it had since its
\* last fsync.
PowerLoss ==
    /\ "power" \in CrashKinds
    /\ crashes < MaxCrashes
    /\ crashes' = crashes + 1
    /\ MemoryLost
    /\ dir' \in crash_dirs
    /\ crash_dirs' = {dir'}

\* The process stops: the directory stays as it is, and as little synced.
ProcessDies ==
    /\ "process" \in CrashKinds
    /\ phase = "up"
    /\ crashes < MaxCrashes
    /\ crashes' = crashes + 1
    /\ MemoryLost
    /\ UNCHANGED dirVars

\* open removes superseded files as it meets them, in name order.
CleanLeftover ==
    /\ phase = "down"
    /\ \E t \in Superseded(dir) :
        /\ \A u \in Superseded(dir) \ {t} : Before(t, u)
        /\ ChangeDir(DirWithout(t))
    /\ UNCHANGED <<phase, sstables, writerVars, compactorVars, reader, crashes>>

\* Mutant: the highest sequence number in use is handed out again.
NextSeqOneBehind == {n \in {0} \cup {t.last : t \in dir} : \A t \in dir : t.last <= n}

\* One more than the highest sequence number in any name, 0 without files.
NextSeq == {n \in {0} \cup {t.last + 1 : t \in dir} : \A t \in dir : t.last < n}

\* The rest of open: the surviving files become the vector.
OpenSet ==
    /\ phase = "down"
    /\ Superseded(dir) = {}
    /\ \E s \in Listings(dir) : sstables' = s
    /\ next_seq' \in NextSeq
    /\ phase' = "up"
    /\ UNCHANGED <<dirVars, writer, batch, compactorVars, reader, crashes>>

-----------------------------------------------------------------------------
Init ==
    /\ phase = "down"
    /\ dir = {}
    /\ crash_dirs = {{}}
    /\ sstables = <<>>
    /\ next_seq = 0
    /\ writer = "idle"
    /\ batch = Empty
    /\ compactor = "idle"
    /\ start = 0
    /\ count = 0
    /\ run = <<>>
    /\ obsolete = <<>>
    /\ reader = [r \in Reader |-> ReaderIdle]
    /\ crashes = 0

Flush   == (\E m \in Memtable : PublishFlush(m)) \/ SyncFlush \/ InstallFlush \/ FlushFails
Compact == \/ PickRun \/ CaptureRun \/ SkipReplacement \/ PublishMerge \/ SyncMerge
           \/ SwapRun \/ RemoveObsolete \/ CompactDone \/ CompactFails
Get(r)  == \/ \E k \in Key : GetSnapshot(r, k)
           \/ ProbeMiss(r) \/ ProbeHit(r) \/ ProbeNothingLeft(r) \/ Return(r)
Recover == PowerLoss \/ ProcessDies \/ CleanLeftover \/ OpenSet

Next == Flush \/ Compact \/ (\E r \in Reader : Get(r)) \/ Recover

Spec == Init /\ [][Next]_vars

-----------------------------------------------------------------------------
(* Properties.                                                             *)

ReaderStates ==
    [pc : {"idle", "probing", "done"}, key : Key \cup {None}, snap : Seq(Table), left : Nat,
     expected : Value \cup {None}, result : Value \cup {None}]

\* The type invariant.
TypeOK ==
    /\ phase \in {"down", "up"}
    /\ crash_dirs \subseteq SUBSET Table /\ dir \in crash_dirs
    /\ sstables \in Seq(Table)
    /\ next_seq \in Nat
    /\ writer \in {"idle", "renamed", "synced"}
    /\ batch \in Data
    /\ compactor \in {"idle", "picked", "merging", "renamed", "merged", "removing"}
    /\ start \in Nat
    /\ count \in Nat
    /\ run \in Seq(Table)
    /\ obsolete \in Seq(Table)
    /\ reader \in [Reader -> ReaderStates]
    /\ crashes \in Nat

\* The vector is in age order: spans do not overlap, are increasing, and lie
\* below the next sequence number.  get and merge rely on position alone to
\* tell newer from older, open on names alone; this is where the two agree.
SpansOrdered ==
    /\ \A i \in DOMAIN sstables :
        sstables[i].first <= sstables[i].last /\ sstables[i].last < next_seq
    /\ \A i, j \in DOMAIN sstables : i < j => sstables[i].last < sstables[j].first

\* pick_run, compact's snapshot and the splice each look at the vector at a
\* different moment, and flushes go on in between.  The indices picked at first
\* still name, at the splice, exactly the tables that were merged; and none of
\* the assertions of compact can fail.
RunIntact ==
    compactor \in {"picked", "merging", "renamed", "merged"} =>
        /\ count >= 2
        /\ start + count <= Len(sstables)
        /\ compactor # "picked" => run = SubSeq(sstables, start + 1, start + count)

\* A table readers are served from is durable: it is in every state of the
\* directory a crash can leave, under its name and with its content.  It fails
\* if a table is installed before its rename is fsynced, if a rename clobbers
\* a live file or if an unlink hits one.
LiveTablesDurable ==
    \A i \in DOMAIN sstables, d \in crash_dirs : sstables[i] \in d

\* A get answers what the vector said when it took its snapshot, whatever is
\* flushed, merged, spliced out or unlinked while it searches.
ReadsAreAtomic ==
    \A r \in Reader : reader[r].pc = "done" => reader[r].result = reader[r].expected

\* What the whole vector answers changes only when a memtable is installed;
\* swapping a merged table in, or a run out, shows no reader a difference.
CompactionInvisible ==
    [][phase = "up" /\ phase' = "up" /\ View(sstables)' # View(sstables)
        => InstallFlush]_vars

\* What the database holds, from memory while it runs and from the directory
\* alone after a crash; and the flushed batches a crash might find durable.
Holds == IF phase = "up" THEN View(sstables) ELSE DirView(Survivors(dir))

Uncommitted ==
    IF phase = "up" THEN {t.data : t \in {u \in UNION crash_dirs : u.first = next_seq}}
    ELSE {}

Abstract == INSTANCE DurableMap WITH store <- Holds, pending <- Uncommitted

\* The directory and the vector implement the durable map: flushes commit
\* whole batches, a crash anywhere - between rename and fsync, between the
\* splice and any unlink, during recovery - loses nothing installed, brings
\* nothing deleted back, and keeps an uninstalled flush whole or not at all.
ImplementsDurableMap == Abstract!Spec

\* The same demand on crashes alone, as a state predicate: whatever a crash
\* leaves, open recovers what readers were told or that plus one flush.
CrashLosesNothing ==
    phase = "up" =>
        \A d \in crash_dirs :
            DirView(Survivors(d)) \in
                {Holds} \cup {Apply(Holds, b) : b \in Uncommitted}
=============================================================================
