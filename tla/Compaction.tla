----------------------------- MODULE Compaction -----------------------------
(***************************************************************************)
(* Flushes and one pass of the compactor over real files, with nobody else *)
(* at work: pick_run on the sizes of the files, merge through the records  *)
(* of the run, write_table of what came out, the splice, and pick_run      *)
(* again until it finds nothing.  SSTableSet has the same pass among       *)
(* flushes, readers and crashes, with a table's content as a function and  *)
(* any run picked; here is what entitles it to that.  The properties of    *)
(* PickRun and MergeRun are checked on what they are given here.           *)
(***************************************************************************)
EXTENDS TableFile, PickRun, MergeRun

CONSTANTS
    Memtable,           \* the records, in key order, that a flush may find
    MaxTables,          \* bound on the tables a pass begins with
    MaxUnsized          \* bound on the files of a scan whose size cannot be read

ASSUME CompactionAssumption ==
    /\ \A m \in Memtable : m \in Seq(TableRecord) /\ Sorted(m) /\ m # <<>>
    /\ MaxTables \in Nat
    /\ MaxUnsized \in Nat

VARIABLES
    sstables,                           \* the vector of tables, oldest first
    writer,                             \* write_table's progress
    pc,         \* "ready", "flushing", "picking", "merging", "rewriting" or "over"
    contents    \* not in the code: what the flushed memtables add up to

vars == <<sstables, writer, pickVars, mergeVars, pc, contents>>

\* SSTableSet::get: newest first, up to the first table with an answer.
SetGet(ts, k) ==
    LET answers == {i \in DOMAIN ts : TableGet(ts[i], k) # None}
    IN IF answers = {} THEN None ELSE Visible(TableGet(ts[Newest(answers)], k))

Idle == NewWriter(<<>>)

\* Flushes, before the pass.  A BTreeMap iterates in key order.
StartFlush(m) ==
    /\ pc = "ready"
    /\ Len(sstables) < MaxTables
    /\ writer' = NewWriter(m)
    /\ contents' = Apply(contents, ContentOf(m))
    /\ pc' = "flushing"
    /\ UNCHANGED <<sstables, pickVars, mergeVars>>

WriteNext ==
    /\ pc \in {"flushing", "rewriting"}
    /\ writer.left # <<>>
    /\ writer' = WriteRecord(writer)
    /\ UNCHANGED <<sstables, pickVars, mergeVars, pc, contents>>

WriteIndex ==
    /\ pc \in {"flushing", "rewriting"}
    /\ writer.left = <<>>
    /\ writer.indexed < Len(writer.sparse_index)
    /\ writer' = WriteIndexEntry(writer)
    /\ UNCHANGED <<sstables, pickVars, mergeVars, pc, contents>>

FinishFlush ==
    /\ pc = "flushing"
    /\ AllLaid(writer)
    /\ sstables' = Append(sstables, Written(writer))
    /\ writer' = Idle
    /\ pc' = "ready"
    /\ UNCHANGED <<pickVars, mergeVars, contents>>

\* pick_run takes a snapshot and the sizes of its files, 0 where metadata fails.
StartScan(ts) ==
    /\ \E unsized \in SUBSET DOMAIN ts :
        /\ Cardinality(unsized) <= MaxUnsized
        /\ sizes' = [i \in DOMAIN ts |-> IF i \in unsized THEN 0 ELSE ts[i].file.length]
    /\ start' = 0
    /\ end' = 1
    /\ scan' = IF ts = <<>> THEN "none" ELSE "growing"
    /\ pc' = "picking"

StartPass ==
    /\ pc = "ready"
    /\ sstables # <<>>
    /\ StartScan(sstables)
    /\ UNCHANGED <<sstables, writer, mergeVars, contents>>

Scan ==
    /\ pc = "picking"
    /\ PickNext
    /\ UNCHANGED <<sstables, writer, mergeVars, pc, contents>>

\* pick_run found nothing: the while let loop is left.
NothingToMerge ==
    /\ pc = "picking"
    /\ scan = "none"
    /\ pc' = "over"
    /\ UNCHANGED <<sstables, writer, pickVars, mergeVars, contents>>

StartMerge ==
    /\ pc = "picking"
    /\ scan = "found"
    /\ tables' = [i \in 1..(end - start) |-> RecordsOf(sstables[start + i])]
    /\ drop_tombstones' = (start = 0)
    /\ cursor' = [i \in 1..(end - start) |-> 1]
    /\ merged' = <<>>
    /\ merge' = "merging"
    /\ pc' = "merging"
    /\ UNCHANGED <<sstables, writer, pickVars, contents>>

MergeStep ==
    /\ pc = "merging"
    /\ MergeNext
    /\ UNCHANGED <<sstables, writer, pickVars, pc, contents>>

MergeIdle ==
    /\ tables' = <<>>
    /\ drop_tombstones' = FALSE
    /\ cursor' = <<>>
    /\ merged' = <<>>
    /\ merge' = "merged"

\* The splice; then pick_run looks at what is there now.
Replace(replacement) ==
    /\ sstables' = Splice(sstables, start, end - start, replacement)
    /\ StartScan(sstables')
    /\ MergeIdle
    /\ writer' = Idle
    /\ UNCHANGED contents

StartRewrite ==
    /\ pc = "merging"
    /\ merge = "merged"
    /\ merged # <<>>
    /\ writer' = NewWriter(merged)
    /\ pc' = "rewriting"
    /\ UNCHANGED <<sstables, pickVars, mergeVars, contents>>

ReplaceByNothing ==
    /\ pc = "merging"
    /\ merge = "merged"
    /\ merged = <<>>
    /\ Replace(<<>>)

FinishRewrite ==
    /\ pc = "rewriting"
    /\ AllLaid(writer)
    /\ Replace(<<Written(writer)>>)

\* Reading or writing failed: compact returns an error, the pass is given up.
GiveUp ==
    /\ \/ pc = "merging" /\ merge = "failed"
       \/ pc = "rewriting"
    /\ MergeIdle
    /\ writer' = Idle
    /\ pc' = "over"
    /\ UNCHANGED <<sstables, pickVars, contents>>

Init ==
    /\ sstables = <<>>
    /\ writer = Idle
    /\ sizes = <<>> /\ start = 0 /\ end = 1 /\ scan = "none"
    /\ tables = <<>> /\ drop_tombstones = FALSE /\ cursor = <<>>
    /\ merged = <<>> /\ merge = "merged"
    /\ pc = "ready"
    /\ contents = Empty

Flush == (\E m \in Memtable : StartFlush(m)) \/ FinishFlush
Pass == \/ Scan \/ NothingToMerge \/ StartMerge \/ MergeStep
        \/ StartRewrite \/ ReplaceByNothing \/ FinishRewrite \/ GiveUp

Write == WriteNext \/ WriteIndex

Next == Flush \/ Write \/ StartPass \/ Pass

\* The compactor thread is scheduled.
Spec == Init /\ [][Next]_vars /\ WF_vars(Write) /\ WF_vars(Pass)

-----------------------------------------------------------------------------
(* Properties.                                                             *)

\* Byte offsets, sparse index, filter, block scan, cursors and ratio scan
\* together answer every get as if the tables were functions: the vector of
\* files tells a reader what the flushed memtables add up to, before, between
\* and after the compactions of a pass.
GetsUnchanged ==
    pc # "flushing" => \A k \in Key : SetGet(sstables, k) = contents[k]

\* A table opened from its file after a restart is the table its writer kept
\* in memory: the three offsets of the trailer lead to the three blocks.
ReopenAgrees == \A i \in DOMAIN sstables : OpenTable(sstables[i].file) = {sstables[i]}

\* The pass ends: each compaction leaves fewer tables, each scan moves on.
PassEnds == pc = "picking" ~> pc = "over"
=============================================================================
