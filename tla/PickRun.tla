------------------------------- MODULE PickRun -------------------------------
(***************************************************************************)
(* pick_run: the scan over the sizes of the tables, oldest first, for a    *)
(* run of at least MinRun tables of comparable size.  A window             *)
(* [start, end) grows to the right while its largest table is within the   *)
(* ratio of its smallest; one that closes too short is given up whole, and *)
(* the scan goes on at its end.  start and end count from 0, as in the     *)
(* code; table i of the model is the code's i - 1.                         *)
(***************************************************************************)
EXTENDS Threshold, Sequences

VARIABLES
    sizes,      \* the file sizes, from one snapshot of the vector
    start, end,
    scan        \* "growing", "found" or "none"

pickVars == <<sizes, start, end, scan>>

Within(i, j) == sizes[i] * Den <= sizes[j] * Num

\* The largest of tables first..last is within the ratio of the smallest.
Comparable(first, last) == \A i, j \in first..last : Within(i, j)

ScanFrom(s) ==
    /\ start' = s
    /\ end' = s + 1
    /\ scan' = IF s < Len(sizes) THEN "growing" ELSE "none"

\* Mutant: the next table is compared with its neighbour alone.
MayGrowByNeighbour == end < Len(sizes) /\ Comparable(end, end + 1)

MayGrow == end < Len(sizes) /\ Comparable(start + 1, end + 1)

Grow ==
    /\ scan = "growing"
    /\ MayGrow
    /\ end' = end + 1
    /\ UNCHANGED <<sizes, start, scan>>

Found ==
    /\ scan = "growing"
    /\ ~MayGrow
    /\ end - start >= MinRun
    /\ scan' = "found"
    /\ UNCHANGED <<sizes, start, end>>

\* Mutant: the scan goes on behind the table that did not fit.
RestartPastEnd ==
    /\ scan = "growing"
    /\ ~MayGrow
    /\ end - start < MinRun
    /\ ScanFrom(end + 1)
    /\ UNCHANGED sizes

\* Mutant: the scan starts over at the same table.
RestartInPlace ==
    /\ scan = "growing"
    /\ ~MayGrow
    /\ end - start < MinRun
    /\ ScanFrom(start)
    /\ UNCHANGED sizes

Restart ==
    /\ scan = "growing"
    /\ ~MayGrow
    /\ end - start < MinRun
    /\ ScanFrom(IF end > start + 1 THEN end ELSE start + 1)
    /\ UNCHANGED sizes

PickInit ==
    /\ sizes \in Seq(Nat)
    /\ start = 0
    /\ end = 1
    /\ scan = IF sizes = <<>> THEN "none" ELSE "growing"

PickNext == Grow \/ Found \/ Restart

PickSpec == PickInit /\ [][PickNext]_pickVars

-----------------------------------------------------------------------------
(* Properties.                                                             *)

\* The type invariant.
PickTypeOK ==
    /\ sizes \in Seq(Nat)
    /\ start \in Nat
    /\ end \in Nat
    /\ scan \in {"growing", "found", "none"}

\* A run that is returned lies within the vector, is long enough for compact's
\* assertion, and mixes no small table with a large one.
PickedComparable ==
    scan = "found" =>
        /\ end <= Len(sizes)
        /\ end - start >= MinRun
        /\ Comparable(start + 1, end)

\* MinRun comparable neighbours begin at s, counted from 0.
RunAt(s) == s + MinRun <= Len(sizes) /\ Comparable(s + 1, s + MinRun)

\* What the comment on pick_run says: it returns the oldest run long enough to be
\* worth merging, and nothing only if there is none.
OldestRunPicked ==
    /\ scan = "found" => \A s \in 0..start - 1 : ~RunAt(s)
    /\ scan = "none" => \A s \in DOMAIN sizes : ~RunAt(s - 1)

\* How much the scan can miss.  It does not find every run: one that begins
\* inside a window given up is cut in two.  But what it passes over is bounded:
\* any 2 * MinRun - 2 comparable neighbours contain a run it returns, so that
\* when it finds nothing no such stretch of the vector is left unmerged.
BacklogBounded ==
    \A i, j \in 1..Len(sizes) :
        /\ i <= j
        /\ Comparable(i, j)
        /\ scan = "none" \/ j <= start
        => j - i + 1 < 2 * MinRun - 2
=============================================================================
