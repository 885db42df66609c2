------------------------------ MODULE MergeRun ------------------------------
(***************************************************************************)
(* merge: the k-way merge of a run of tables, each a sequence of records   *)
(* in key order read through a cursor.  One step is one turn of the loop:  *)
(* the smallest key at any cursor, its newest record, every cursor that    *)
(* stands at that key moved on.                                            *)
(***************************************************************************)
EXTENDS Records

VARIABLES
    tables,             \* per table of the run, oldest first, what records() yields
    drop_tombstones,
    cursor,             \* per table, the position of the record peek shows
    merged,
    merge               \* "merging", "merged" or "failed"

mergeVars == <<tables, drop_tombstones, cursor, merged, merge>>

Unread  == {i \in DOMAIN tables : cursor[i] <= Len(tables[i])}
Peek(i) == tables[i][cursor[i]]

IsSmallest(k) ==
    /\ \E i \in Unread : Peek(i).key = k
    /\ \A i \in Unread : k <= Peek(i).key

Holders(k) == {i \in Unread : Peek(i).key = k}

\* Mutant: the record of the oldest table survives.
OldestEntry(k) == Peek(CHOOSE i \in Holders(k) : \A j \in Holders(k) : i <= j).entry

\* Later tables overwrite what earlier ones gave.
NewestEntry(k) == Peek(Newest(Holders(k))).entry

MergeSmallest(k) ==
    /\ merge = "merging"
    /\ IsSmallest(k)
    /\ cursor' = [i \in DOMAIN tables |-> IF i \in Holders(k) THEN cursor[i] + 1 ELSE cursor[i]]
    /\ merged' = IF NewestEntry(k) = Tombstone /\ drop_tombstones THEN merged
                 ELSE Append(merged, [key |-> k, entry |-> NewestEntry(k)])
    /\ UNCHANGED <<tables, drop_tombstones, merge>>

MergeDone ==
    /\ merge = "merging"
    /\ Unread = {}
    /\ merge' = "merged"
    /\ UNCHANGED <<tables, drop_tombstones, cursor, merged>>

\* Reading a record failed: what was merged so far is thrown away.
MergeFails ==
    /\ merge = "merging"
    /\ Unread # {}
    /\ merge' = "failed"
    /\ UNCHANGED <<tables, drop_tombstones, cursor, merged>>

MergeInit ==
    /\ tables \in Seq({s \in Seq(TableRecord) : Sorted(s)})
    /\ drop_tombstones \in BOOLEAN
    /\ cursor = [i \in DOMAIN tables |-> 1]
    /\ merged = <<>>
    /\ merge = "merging"

MergeNext == (\E k \in Key : MergeSmallest(k)) \/ MergeDone \/ MergeFails

MergeSpec == MergeInit /\ [][MergeNext]_mergeVars

-----------------------------------------------------------------------------
(* Properties.                                                             *)

\* The type invariant.
MergeTypeOK ==
    /\ tables \in Seq({s \in Seq(TableRecord) : Sorted(s)})
    /\ drop_tombstones \in BOOLEAN
    /\ cursor \in [DOMAIN tables -> Nat \ {0}]
    /\ merged \in Seq(TableRecord)
    /\ merge \in {"merging", "merged", "failed"}

\* The run as the table set sees it.
Contents == [i \in DOMAIN tables |-> [data |-> ContentOf(tables[i])]]

\* Cursor by cursor the loop computes the merge the table set relies on: every
\* key of the run once, in order, with its newest record, tombstones dropped if
\* and only if asked to.
MergesToNewest ==
    merge = "merged" =>
        /\ Sorted(merged)
        /\ ContentOf(merged) = Merge(Contents, drop_tombstones)
=============================================================================
