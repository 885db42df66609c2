---------------------------- MODULE MCDbHistory -----------------------------
(* The instance of DbHistory for TLC. *)
EXTENDS DbHistory

\* Every write counts one byte.
UnitSize == [e \in Value \cup {Tombstone} |-> 1]
=============================================================================
