----------------------------- MODULE Threshold ------------------------------
(***************************************************************************)
(* The two settings of Config that steer pick_run.                         *)
(***************************************************************************)
EXTENDS Integers

CONSTANTS
    MinRun,     \* compaction_threshold
    Num, Den    \* compaction_size_ratio is Num / Den

ASSUME ThresholdAssumption ==
    /\ MinRun \in Nat /\ MinRun >= 2
    /\ Num \in Nat /\ Den \in Nat \ {0}
=============================================================================
