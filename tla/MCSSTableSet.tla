---------------------------- MODULE MCSSTableSet ----------------------------
(* Instances of SSTableSet for TLC. *)
EXTENDS SSTableSet, TLC

CONSTANTS k1, k2, v1, v2

\* One key, every memtable.
OneKeyMemtables == {[k \in Key |-> e] : e \in Value \cup {Tombstone}}

\* Two keys, of which the first memtable holds one: a search for the other
\* passes tables without a record.
SparseMemtables ==
    {[k \in Key |-> IF k = k1 THEN v1 ELSE None],
     [k \in Key |-> IF k = k1 THEN Tombstone ELSE v1]}

\* Two keys: a memtable that sets both, one that deletes one, one that
\* overwrites one, so that a merge can come out full, partial or empty.
TwoKeyMemtables ==
    {[k \in Key |-> v1],
     [k \in Key |-> IF k = k1 THEN Tombstone ELSE None],
     [k \in Key |-> IF k = k1 THEN v2 ELSE Tombstone]}
=============================================================================
