-------------------------------- MODULE MCDb --------------------------------
(* Instances of Db for TLC. *)
EXTENDS Db

\* Every write counts one byte.
UnitSize == [e \in Value \cup {Tombstone} |-> 1]
=============================================================================
