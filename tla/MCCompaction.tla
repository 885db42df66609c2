---------------------------- MODULE MCCompaction ----------------------------
(* Instances of Compaction for TLC. *)
EXTENDS Compaction

CONSTANTS short, long

Size1 == [k \in Key |-> 1]

\* The value sizes that make a large table out of a small one.
Sizes == [v \in Value |-> IF v = long THEN 60 ELSE 2]

\* Two keys share every probe, so that one is a false positive for the other.
Hashes == [k \in Key |-> [low |-> 7 * (k \div 2), high |-> k \div 2]]

Put(k, v) == [key |-> k, entry |-> v]
Del(k)    == [key |-> k, entry |-> Tombstone]

\* Small and large tables: several blocks, one block, one record, tombstones.
Memtables ==
    {<<Put(1, short)>>,
     <<Del(2)>>,
     <<Put(1, short), Put(2, short), Put(3, short), Put(4, short)>>,
     <<Put(1, long), Del(3), Put(4, short)>>,
     <<Put(2, long), Put(4, long)>>}
=============================================================================
