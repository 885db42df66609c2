-------------------------- MODULE CompactionProofs --------------------------
(***************************************************************************)
(* Theorems about PickRun, MergeRun and Compaction: the scan for a run of  *)
(* comparable files, the merge over cursors, and the pass that puts them   *)
(* together over the files of TableFile.  A vector of files is seen as the *)
(* vector of functions SSTableSet works with, and every step of a pass is  *)
(* shown to do to the files what SSTableSet does to the functions.         *)
(***************************************************************************)
EXTENDS Compaction, TableFileProofs

-----------------------------------------------------------------------------
(* The scan: where the window is, and what is behind it.                    *)

\* Where the window is.  (With a ratio below 1 a single table is not within the
\* ratio of itself, and the code does not ask.)
Window ==
    /\ scan = "growing" =>
        /\ start < end /\ end <= Len(sizes)
        /\ end > start + 1 => Comparable(start + 1, end)
    /\ scan = "none" => start >= Len(sizes)

\* What lies wholly behind the scan.
Passed ==
    \A i, j \in 1..Len(sizes) :
        i <= j /\ j <= start /\ Comparable(i, j) => j - i + 1 <= 2 * MinRun - 3

\* What lies across the point the scan has reached: the part behind it is too
\* short to have been a run, and shorter by one than the window it was cut from.
Cut ==
    \A i, j \in 1..Len(sizes) :
        i <= start /\ start < j /\ Comparable(i, j) => start - i + 1 <= MinRun - 2

\* The inductive invariant of PickRun.
PickInv == PickTypeOK /\ Window /\ PickedComparable /\ Passed /\ Cut

\* Neighbours among comparable tables are comparable.
LEMMA ComparablePart ==
    ASSUME NEW i \in Int, NEW j \in Int, NEW a \in Int, NEW b \in Int,
           i <= a, b <= j, Comparable(i, j)
    PROVE  Comparable(a, b)
<1>1. a..b \subseteq i..j
    OBVIOUS
<1> QED
    BY <1>1 DEF Comparable

LEMMA PickInvInit == PickInit => PickInv
<1> SUFFICES ASSUME PickInit PROVE PickInv
    OBVIOUS
<1>1. Len(sizes) \in Nat /\ (sizes # <<>> => Len(sizes) >= 1) /\ (sizes = <<>> => Len(sizes) = 0)
    BY DEF PickInit
<1>2. Window
    BY <1>1 DEF PickInit, Window
<1>3. PickTypeOK /\ PickedComparable
    BY DEF PickInit, PickTypeOK, PickedComparable
<1>4. Passed /\ Cut
    BY <1>1 DEF PickInit, Passed, Cut
<1> QED
    BY <1>2, <1>3, <1>4 DEF PickInv

LEMMA GrowKeeps == PickInv /\ Grow => PickInv'
<1> SUFFICES ASSUME PickInv, Grow PROVE PickInv'
    OBVIOUS
<1>1. /\ start \in Nat /\ end \in Nat /\ Len(sizes) \in Nat
      /\ start < end /\ end < Len(sizes) /\ Comparable(start + 1, end + 1)
    BY DEF PickInv, PickTypeOK, Window, Grow, MayGrow
<1>2. UNCHANGED <<sizes, start, scan>> /\ end' = end + 1 /\ scan = "growing"
    BY DEF Grow
<1>3. Window'
    BY <1>1, <1>2 DEF Window, Comparable, Within
<1>4. PickTypeOK' /\ PickedComparable'
    BY <1>1, <1>2 DEF PickInv, PickTypeOK, PickedComparable
<1>5. Passed' /\ Cut'
    BY <1>2 DEF PickInv, Passed, Cut, Comparable, Within
<1> QED
    BY <1>3, <1>4, <1>5 DEF PickInv

LEMMA FoundKeeps == PickInv /\ Found => PickInv'
<1> SUFFICES ASSUME PickInv, Found PROVE PickInv'
    OBVIOUS
<1>1. /\ UNCHANGED <<sizes, start, end>> /\ end - start >= MinRun
      /\ scan = "growing" /\ scan' = "found"
    BY DEF Found
<1>2. /\ start \in Nat /\ end \in Nat /\ Len(sizes) \in Nat /\ end <= Len(sizes)
      /\ end > start + 1 => Comparable(start + 1, end)
    BY <1>1 DEF PickInv, PickTypeOK, Window
<1>3. Comparable(start + 1, end)
    BY <1>1, <1>2, ThresholdAssumption
<1>4. PickedComparable'
    BY <1>1, <1>2, <1>3 DEF PickedComparable, Comparable, Within
<1>5. PickTypeOK' /\ Window'
    BY <1>1 DEF PickInv, PickTypeOK, Window
<1>6. Passed' /\ Cut'
    BY <1>1 DEF PickInv, Passed, Cut, Comparable, Within
<1> QED
    BY <1>4, <1>5, <1>6 DEF PickInv

LEMMA RestartKeeps == PickInv /\ Restart => PickInv'
<1> SUFFICES ASSUME PickInv, Restart PROVE PickInv'
    OBVIOUS
<1>1. /\ start \in Nat /\ end \in Nat /\ Len(sizes) \in Nat /\ MinRun \in Nat /\ MinRun >= 2
      /\ start < end /\ end <= Len(sizes) /\ end - start < MinRun
    BY ThresholdAssumption DEF PickInv, PickTypeOK, Window, Restart
<1>2. /\ sizes' = sizes /\ start' = end /\ end' = end + 1
      /\ scan' = IF end < Len(sizes) THEN "growing" ELSE "none"
    BY <1>1 DEF Restart, ScanFrom
<1>3. ~(end < Len(sizes) /\ Comparable(start + 1, end + 1))
    BY DEF Restart, MayGrow
<1>4. PickTypeOK' /\ Window' /\ PickedComparable'
    BY <1>1, <1>2 DEF PickInv, PickTypeOK, Window, PickedComparable
<1>5. ASSUME NEW i \in 1..Len(sizes), NEW j \in 1..Len(sizes),
             i <= j, j <= end, Comparable(i, j)
      PROVE  j - i + 1 <= 2 * MinRun - 3
    <2>1. CASE j <= start
        BY <1>5, <2>1 DEF PickInv, Passed
    <2>2. CASE start < i
        BY <1>1, <1>5, <2>2
    <2>3. CASE i <= start /\ start < j
        <3>1. start - i + 1 <= MinRun - 2
            BY <1>5, <2>3 DEF PickInv, Cut
        <3> QED
            BY <1>1, <1>5, <3>1
    <2> QED
        BY <1>1, <2>1, <2>2, <2>3
<1>6. ASSUME NEW i \in 1..Len(sizes), NEW j \in 1..Len(sizes),
             i <= end, end < j, Comparable(i, j)
      PROVE  end - i + 1 <= MinRun - 2
    \* Otherwise the table the window stopped at would have fitted into it.
    <2>1. ~(i <= start + 1)
        <3> SUFFICES ASSUME i <= start + 1 PROVE FALSE
            OBVIOUS
        <3>1. Comparable(start + 1, end + 1)
            BY <1>1, <1>6, ComparablePart
        <3> QED
            BY <1>1, <1>3, <1>6, <3>1
    <2> QED
        BY <1>1, <1>6, <2>1
<1>7. \A i, j : Comparable(i, j)' <=> Comparable(i, j)
    BY <1>2 DEF Comparable, Within
<1>8. Passed'
    BY <1>2, <1>5, <1>7 DEF Passed
<1>9. Cut'
    BY <1>2, <1>6, <1>7 DEF Cut
<1> QED
    BY <1>4, <1>8, <1>9 DEF PickInv

LEMMA PickInvNext == PickInv /\ [PickNext]_pickVars => PickInv'
<1> SUFFICES ASSUME PickInv, UNCHANGED pickVars PROVE PickInv'
    BY GrowKeeps, FoundKeeps, RestartKeeps DEF PickNext
<1> QED
    BY DEF pickVars, PickInv, PickTypeOK, Window, PickedComparable, Passed, Cut, Comparable, Within

\* Every reachable state of the scan is well typed.
THEOREM PickTypeCorrect == PickSpec => []PickTypeOK
<1>1. PickInv => PickTypeOK
    BY DEF PickInv
<1> QED
    BY <1>1, PickInvInit, PickInvNext, PTL DEF PickSpec

\* pick_run returns only runs that lie within the vector, meet the threshold,
\* and mix no small table with a large one: a flush is never rewritten into a
\* table beyond the ratio.
THEOREM PickedRunsComparable == PickSpec => []PickedComparable
<1>1. PickInv => PickedComparable
    BY DEF PickInv
<1> QED
    BY <1>1, PickInvInit, PickInvNext, PTL DEF PickSpec

LEMMA PickInvImplies == PickInv => BacklogBounded
<1> SUFFICES ASSUME PickInv,
                    NEW i \in 1..Len(sizes), NEW j \in 1..Len(sizes),
                    i <= j, Comparable(i, j), scan = "none" \/ j <= start
             PROVE  j - i + 1 < 2 * MinRun - 2
    BY DEF BacklogBounded
<1>1. /\ start \in Nat /\ Len(sizes) \in Nat /\ MinRun \in Nat
      /\ scan = "none" => start >= Len(sizes)
    BY ThresholdAssumption DEF PickInv, PickTypeOK, Window
<1>2. j <= start
    BY <1>1
<1>3. j - i + 1 <= 2 * MinRun - 3
    BY <1>2 DEF PickInv, Passed
<1> QED
    BY <1>1, <1>3

\* pick_run passes over no stretch of 2 * MinRun - 2 comparable neighbours,
\* whatever the sizes around it: that much backlog is always found, although
\* the scan misses shorter runs.
THEOREM BacklogIsBounded == PickSpec => []BacklogBounded
BY PickInvImplies, PickInvInit, PickInvNext, PTL DEF PickSpec

-----------------------------------------------------------------------------
(* The merge: what is behind the cursors and what was kept of it.          *)

\* No cursor runs past its table by more than one.
InRange == \A i \in DOMAIN tables : cursor[i] <= Len(tables[i]) + 1

\* The keys behind a cursor.
ReadKeys ==
    {k \in Key : \E i \in DOMAIN tables : \E p \in 1..cursor[i] - 1 : tables[i][p].key = k}

\* What has been read, and what was kept of it, is smaller than what has not.
Frontier ==
    \A j \in Unread :
        /\ \A k \in Key : k \in ReadKeys => k < Peek(j).key
        /\ \A q \in DOMAIN merged : merged[q].key < Peek(j).key

\* Of the keys read, the records the merge is to have are there, and no other.
Kept ==
    /\ Sorted(merged)
    /\ \A q \in DOMAIN merged :
        /\ merged[q].key \in ReadKeys
        /\ merged[q].entry = Merge(Contents, drop_tombstones)[merged[q].key]
    /\ \A k \in Key :
        k \in ReadKeys /\ Merge(Contents, drop_tombstones)[k] # None =>
            \E q \in DOMAIN merged : merged[q].key = k

\* The inductive invariant of MergeRun.
MergeInv == MergeTypeOK /\ InRange /\ Frontier /\ Kept /\ (merge = "merged" => Unread = {})

LEMMA RunOfTables ==
    ASSUME MergeTypeOK
    PROVE  /\ Len(tables) \in Nat /\ DOMAIN tables = 1..Len(tables)
           /\ \A i \in DOMAIN tables : tables[i] \in Seq(TableRecord) /\ Sorted(tables[i])
           /\ \A i \in DOMAIN tables : cursor[i] \in Nat /\ cursor[i] >= 1
<1>1. Len(tables) \in Nat /\ DOMAIN tables = 1..Len(tables)
    BY LenProperties DEF MergeTypeOK
<1>2. ASSUME NEW i \in DOMAIN tables PROVE tables[i] \in Seq(TableRecord) /\ Sorted(tables[i])
    <2>1. tables[i] \in {s \in Seq(TableRecord) : Sorted(s)}
        BY <1>1, ElementOfSeq DEF MergeTypeOK
    <2> QED
        BY <2>1
<1>3. ASSUME NEW i \in DOMAIN tables PROVE cursor[i] \in Nat /\ cursor[i] >= 1
    BY DEF MergeTypeOK
<1> QED
    BY <1>1, <1>2, <1>3

\* An unread table shows one of its records.
LEMMA PeekType ==
    ASSUME MergeTypeOK, NEW i \in Unread
    PROVE  /\ i \in DOMAIN tables /\ cursor[i] \in DOMAIN tables[i]
           /\ Peek(i) = tables[i][cursor[i]]
           /\ Peek(i).key \in Key /\ Peek(i).key \in Nat
           /\ Peek(i).entry \in Value \cup {Tombstone} /\ Peek(i).entry # None
<1>1. i \in DOMAIN tables /\ cursor[i] <= Len(tables[i])
    BY DEF Unread
<1>2. tables[i] \in Seq(TableRecord) /\ cursor[i] \in Nat /\ cursor[i] >= 1
    BY <1>1, RunOfTables
<1>3. cursor[i] \in DOMAIN tables[i]
    BY <1>1, <1>2, SequenceType
<1> QED
    BY <1>1, <1>2, <1>3, SequenceType DEF Peek

LEMMA AppendLargest ==
    ASSUME NEW s \in Seq(TableRecord), Sorted(s), NEW r \in TableRecord,
           \A q \in DOMAIN s : s[q].key < r.key
    PROVE  /\ Append(s, r) \in Seq(TableRecord) /\ Sorted(Append(s, r))
           /\ DOMAIN Append(s, r) = DOMAIN s \cup {Len(s) + 1}
           /\ \A q \in DOMAIN s : Append(s, r)[q] = s[q]
           /\ Append(s, r)[Len(s) + 1] = r
<1> DEFINE t == Append(s, r)
<1>1. /\ t \in Seq(TableRecord) /\ Len(s) \in Nat /\ Len(t) = Len(s) + 1
      /\ DOMAIN s = 1..Len(s) /\ DOMAIN t = 1..Len(t)
      /\ \A q \in 1..Len(s) : t[q] = s[q]
      /\ t[Len(s) + 1] = r
    BY AppendProperties, LenProperties
<1>2. DOMAIN t = DOMAIN s \cup {Len(s) + 1}
    BY <1>1
<1> HIDE DEF t
<1>3. ASSUME NEW i \in DOMAIN t, NEW j \in DOMAIN t, i < j PROVE t[i].key < t[j].key
    <2>1. i \in DOMAIN s
        BY <1>1, <1>3
    <2>2. CASE j \in DOMAIN s
        BY <1>1, <1>3, <2>1, <2>2 DEF Sorted
    <2>3. CASE j = Len(s) + 1
        BY <1>1, <2>1, <2>3
    <2> QED
        BY <1>2, <2>2, <2>3
<1>4. Sorted(t)
    BY <1>3 DEF Sorted
<1> QED
    BY <1>1, <1>2, <1>4 DEF t

\* The smallest key at any cursor is new, and only the tables whose cursor
\* stands at it have a record for it.
LEMMA SmallestIsNew ==
    ASSUME MergeInv, NEW k \in Key, IsSmallest(k)
    PROVE  /\ k \notin ReadKeys
           /\ \A i \in DOMAIN tables :
                ContentOf(tables[i])[k] = IF i \in Holders(k) THEN Peek(i).entry ELSE None
<1>1. MergeTypeOK /\ Frontier
    BY DEF MergeInv
<1>2. k \notin ReadKeys
    <2>1. PICK i \in Unread : Peek(i).key = k
        BY DEF IsSmallest
    <2>2. k \in Nat
        BY <1>1, <2>1, PeekType
    <2> QED
        BY <1>1, <2>1, <2>2 DEF Frontier
<1>3. ASSUME NEW i \in DOMAIN tables, i \in Holders(k)
      PROVE  ContentOf(tables[i])[k] = Peek(i).entry
    <2>1. i \in Unread /\ Peek(i).key = k
        BY <1>3 DEF Holders
    <2>2. tables[i] \in Seq(TableRecord) /\ Sorted(tables[i]) /\ cursor[i] \in DOMAIN tables[i]
        BY <1>1, <2>1, PeekType, RunOfTables
    <2> QED
        BY <2>1, <2>2, ContentAt DEF Peek
<1>4. ASSUME NEW i \in DOMAIN tables, i \notin Holders(k)
      PROVE  ContentOf(tables[i])[k] = None
    <2>1. /\ tables[i] \in Seq(TableRecord) /\ Sorted(tables[i])
          /\ cursor[i] \in Nat /\ cursor[i] >= 1
        BY <1>1, RunOfTables
    <2>2. ASSUME NEW p \in DOMAIN tables[i], tables[i][p].key = k PROVE FALSE
        <3>1. p \in 1..Len(tables[i]) /\ Len(tables[i]) \in Nat /\ k \in Nat
            BY <2>1, <2>2, SequenceType
        <3>2. p >= cursor[i]
            BY <1>2, <2>1, <2>2, <3>1 DEF ReadKeys
        <3>3. i \in Unread
            BY <2>1, <3>1, <3>2 DEF Unread
        <3>4. /\ Peek(i).key \in Nat /\ Peek(i) = tables[i][cursor[i]]
              /\ cursor[i] \in DOMAIN tables[i]
            BY <1>1, <3>3, PeekType
        <3>5. k <= Peek(i).key
            BY <3>3 DEF IsSmallest
        <3>6. CASE p = cursor[i]
            BY <1>4, <2>2, <3>3, <3>4, <3>6 DEF Holders
        <3>7. CASE p > cursor[i]
            <4>1. Peek(i).key < k
                BY <2>1, <2>2, <3>4, <3>7 DEF Sorted
            <4> QED
                BY <3>1, <3>4, <3>5, <4>1
        <3> QED
            BY <2>1, <3>1, <3>2, <3>6, <3>7
    <2> QED
        BY <2>2, ContentNowhere
<1> QED
    BY <1>2, <1>3, <1>4

\* What the loop takes for the newest record of the smallest key is the one the
\* stack of tables ends up with.
LEMMA SmallestIsNewest ==
    ASSUME MergeInv, NEW k \in Key, IsSmallest(k)
    PROVE  /\ NewestEntry(k) \in Value \cup {Tombstone} /\ NewestEntry(k) # None
           /\ Record(Contents, k) = NewestEntry(k)
<1>1. MergeTypeOK
    BY DEF MergeInv
<1>2. Len(tables) \in Nat /\ DOMAIN tables = 1..Len(tables)
    BY <1>1, RunOfTables
<1>3. Len(Contents) = Len(tables)
    BY <1>2 DEF Contents
<1>4. Holders(k) \subseteq 1..Len(tables) /\ Holders(k) \subseteq Unread /\ Holders(k) # {}
    BY <1>2 DEF Holders, Unread, IsSmallest
<1>5. Newest(Holders(k)) \in Holders(k)
    BY <1>2, <1>4, NewestIsMax
<1>6. \A i \in Holders(k) : Peek(i).entry \in Value \cup {Tombstone} /\ Peek(i).entry # None
    BY <1>1, <1>4, PeekType
<1>7. \A i \in 1..Len(tables) :
        Contents[i].data[k] = IF i \in Holders(k) THEN Peek(i).entry ELSE None
    BY <1>2, SmallestIsNew DEF Contents
<1>8. Hits(Contents, k) = Holders(k)
    BY <1>3, <1>4, <1>6, <1>7 DEF Hits
<1>9. Record(Contents, k) = Contents[Newest(Holders(k))].data[k]
    BY <1>4, <1>8 DEF Record
<1> QED
    BY <1>4, <1>5, <1>6, <1>7, <1>9 DEF NewestEntry

LEMMA MergeInvInit == MergeInit => MergeInv
<1> SUFFICES ASSUME MergeInit PROVE MergeInv
    OBVIOUS
<1>1. MergeTypeOK
    BY DEF MergeInit, MergeTypeOK
<1>2. \A i \in DOMAIN tables : cursor[i] = 1 /\ Len(tables[i]) \in Nat
    BY <1>1, RunOfTables, SequenceType DEF MergeInit
<1>3. \A k : k \notin ReadKeys
    BY <1>2 DEF ReadKeys
<1>4. InRange
    BY <1>2 DEF InRange
<1>5. merged = <<>> /\ DOMAIN merged = {}
    BY DEF MergeInit
<1> QED
    BY <1>1, <1>3, <1>4, <1>5 DEF MergeInit, MergeInv, Frontier, Kept, Sorted

\* One turn of the loop: the cursors at the smallest key pass it, and no other
\* key is passed.
LEMMA CursorsPass ==
    ASSUME MergeInv, NEW k \in Key, MergeSmallest(k)
    PROVE  /\ cursor' \in [DOMAIN tables -> Nat \ {0}]
           /\ InRange'
           /\ Unread' \subseteq Unread
           /\ \A j \in Unread' : /\ Peek(j)'.key \in Nat
                                 /\ Peek(j)'.key > k /\ Peek(j)'.key >= Peek(j).key
           /\ \A x \in Key : x \in ReadKeys' <=> x \in ReadKeys \/ x = k
<1>1. MergeTypeOK /\ InRange
    BY DEF MergeInv
<1>2. /\ IsSmallest(k) /\ tables' = tables
      /\ cursor' = [i \in DOMAIN tables |-> IF i \in Holders(k) THEN cursor[i] + 1 ELSE cursor[i]]
    BY DEF MergeSmallest
<1>3. \A i \in DOMAIN tables :
        /\ cursor[i] \in Nat /\ cursor[i] >= 1 /\ Len(tables[i]) \in Nat
        /\ tables[i] \in Seq(TableRecord) /\ Sorted(tables[i])
        /\ cursor'[i] = IF i \in Holders(k) THEN cursor[i] + 1 ELSE cursor[i]
    BY <1>1, <1>2, RunOfTables, SequenceType
<1>4. \A i \in Holders(k) : i \in Unread /\ Peek(i).key = k
    BY DEF Holders
<1>5. \A i \in Unread :
        /\ i \in DOMAIN tables /\ cursor[i] <= Len(tables[i]) /\ cursor[i] \in DOMAIN tables[i]
        /\ Peek(i) = tables[i][cursor[i]] /\ Peek(i).key \in Nat /\ k <= Peek(i).key
    BY <1>1, <1>2, PeekType DEF Unread, IsSmallest
<1>6. k \in Nat
    BY RecordsAssumption
<1>7. cursor' \in [DOMAIN tables -> Nat \ {0}]
    BY <1>2, <1>3
<1>8. InRange'
    BY <1>1, <1>2, <1>3, <1>4, <1>5 DEF InRange
<1>9. Unread' \subseteq Unread
    BY <1>2, <1>3 DEF Unread
<1>10. ASSUME NEW j \in Unread'
       PROVE  Peek(j)'.key \in Nat /\ Peek(j)'.key > k /\ Peek(j)'.key >= Peek(j).key
    <2>1. /\ j \in Unread /\ j \in DOMAIN tables /\ Peek(j)' = tables[j][cursor'[j]]
          /\ cursor'[j] <= Len(tables[j])
        BY <1>2, <1>9, <1>10 DEF Unread, Peek
    <2>2. CASE j \in Holders(k)
        <3>1. cursor'[j] = cursor[j] + 1 /\ cursor'[j] \in DOMAIN tables[j]
            BY <1>3, <2>1, <2>2, SequenceType
        <3>2. tables[j][cursor[j]].key < tables[j][cursor'[j]].key
            BY <1>3, <1>5, <2>1, <3>1 DEF Sorted
        <3>3. tables[j][cursor'[j]].key \in Nat
            BY <1>3, <2>1, <3>1, SequenceType
        <3> QED
            BY <1>4, <1>5, <1>6, <2>1, <2>2, <3>2, <3>3
    <2>3. CASE j \notin Holders(k)
        <3>1. Peek(j)' = Peek(j) /\ Peek(j).key # k
            BY <1>3, <1>5, <2>1, <2>3 DEF Holders
        <3> QED
            BY <1>5, <1>6, <2>1, <3>1
    <2> QED
        BY <2>2, <2>3
<1>11. ASSUME NEW x \in Key PROVE x \in ReadKeys' <=> x \in ReadKeys \/ x = k
    <2>1. ASSUME x \in ReadKeys' PROVE x \in ReadKeys \/ x = k
        <3>1. PICK i \in DOMAIN tables : \E p \in 1..cursor'[i] - 1 : tables[i][p].key = x
            BY <1>2, <2>1 DEF ReadKeys
        <3>2. PICK p \in 1..cursor'[i] - 1 : tables[i][p].key = x
            BY <3>1
        <3>3. CASE p \in 1..cursor[i] - 1
            BY <3>2, <3>3 DEF ReadKeys
        <3>4. CASE p \notin 1..cursor[i] - 1
            <4>1. i \in Holders(k) /\ p = cursor[i]
                BY <1>3, <3>2, <3>4
            <4> QED
                BY <1>4, <1>5, <3>2, <4>1
        <3> QED
            BY <3>3, <3>4
    <2>2. ASSUME x \in ReadKeys PROVE x \in ReadKeys'
        <3>1. PICK i \in DOMAIN tables : \E p \in 1..cursor[i] - 1 : tables[i][p].key = x
            BY <2>2 DEF ReadKeys
        <3>2. 1..cursor[i] - 1 \subseteq 1..cursor'[i] - 1
            BY <1>3
        <3> QED
            BY <1>2, <3>1, <3>2 DEF ReadKeys
    <2>3. ASSUME x = k PROVE x \in ReadKeys'
        <3>1. PICK i \in Unread : Peek(i).key = k
            BY <1>2 DEF IsSmallest
        <3>2. i \in Holders(k)
            BY <3>1 DEF Holders
        <3>3. i \in DOMAIN tables /\ cursor[i] \in 1..cursor'[i] - 1 /\ tables[i][cursor[i]].key = x
            BY <1>3, <1>5, <2>3, <3>1, <3>2
        <3> QED
            BY <1>2, <3>3 DEF ReadKeys
    <2> QED
        BY <2>1, <2>2, <2>3
<1> QED
    BY <1>7, <1>8, <1>9, <1>10, <1>11

LEMMA MergeSmallestKeeps ==
    ASSUME MergeInv, NEW k \in Key, MergeSmallest(k)
    PROVE  MergeInv'
<1> DEFINE e == NewestEntry(k)
           r == [key |-> k, entry |-> e]
           dropped == e = Tombstone /\ drop_tombstones
<1>1. MergeTypeOK /\ Frontier /\ Kept
    BY DEF MergeInv
<1>2. /\ IsSmallest(k) /\ merge = "merging" /\ merge' = merge
      /\ tables' = tables /\ drop_tombstones' = drop_tombstones
      /\ merged' = IF dropped THEN merged ELSE Append(merged, r)
    BY DEF MergeSmallest
<1>3. /\ cursor' \in [DOMAIN tables -> Nat \ {0}] /\ InRange' /\ Unread' \subseteq Unread
      /\ \A j \in Unread' : /\ Peek(j)'.key \in Nat
                            /\ Peek(j)'.key > k /\ Peek(j)'.key >= Peek(j).key
      /\ \A x \in Key : x \in ReadKeys' <=> x \in ReadKeys \/ x = k
    BY CursorsPass
<1>4. e \in Value \cup {Tombstone} /\ e # None /\ Record(Contents, k) = e
    BY <1>2, SmallestIsNewest
<1>5. Merge(Contents, drop_tombstones)[k] = IF dropped THEN None ELSE e
    BY <1>4 DEF Merge
<1>6. k \notin ReadKeys
    BY <1>2, SmallestIsNew
<1>7. r \in TableRecord /\ r.key = k /\ r.entry = e
    BY <1>4 DEF TableRecord
<1>8. /\ merged \in Seq(TableRecord) /\ Sorted(merged)
      /\ \A q \in DOMAIN merged : merged[q].key \in Nat /\ merged[q].key \in Key
    BY <1>1, SequenceType DEF MergeTypeOK, Kept
<1>9. \A j \in Unread : Peek(j).key \in Nat
    BY <1>1, PeekType
<1>10. k \in Nat
    BY RecordsAssumption
<1>11. \A q \in DOMAIN merged : merged[q].key < k
    <2>1. PICK j \in Unread : Peek(j).key = k
        BY <1>2 DEF IsSmallest
    <2> QED
        BY <1>1, <2>1 DEF Frontier
<1> HIDE DEF e, r, dropped
<1>12. /\ merged' \in Seq(TableRecord) /\ Sorted(merged')
       /\ \A q \in DOMAIN merged' :
            \/ q \in DOMAIN merged /\ merged'[q] = merged[q]
            \/ ~dropped /\ merged'[q] = r
       /\ \A q \in DOMAIN merged : q \in DOMAIN merged' /\ merged'[q] = merged[q]
       /\ ~dropped => \E q \in DOMAIN merged' : merged'[q] = r
    <2>1. CASE dropped
        BY <1>2, <1>8, <2>1
    <2>2. CASE ~dropped
        <3>1. \A q \in DOMAIN merged : merged[q].key < r.key
            BY <1>7, <1>11
        <3>2. merged' = Append(merged, r)
            BY <1>2, <2>2
        <3>3. /\ Append(merged, r) \in Seq(TableRecord) /\ Sorted(Append(merged, r))
              /\ DOMAIN Append(merged, r) = DOMAIN merged \cup {Len(merged) + 1}
              /\ \A q \in DOMAIN merged : Append(merged, r)[q] = merged[q]
              /\ Append(merged, r)[Len(merged) + 1] = r
            BY <1>7, <1>8, <3>1, AppendLargest
        <3> QED
            BY <2>2, <3>2, <3>3
    <2> QED
        BY <2>1, <2>2
<1>13. MergeTypeOK'
    BY <1>1, <1>2, <1>3, <1>12 DEF MergeTypeOK
<1>14. ASSUME NEW j \in Unread' PROVE /\ \A x \in Key : x \in ReadKeys' => x < Peek(j)'.key
                                      /\ \A q \in DOMAIN merged' : merged'[q].key < Peek(j)'.key
    <2>1. j \in Unread /\ Peek(j)'.key > k /\ Peek(j)'.key >= Peek(j).key /\ Peek(j).key \in Nat
        BY <1>3, <1>9
    <2>2. Peek(j)'.key \in Nat
        BY <1>3
    <2>3. ASSUME NEW x \in Key, x \in ReadKeys' PROVE x < Peek(j)'.key
        <3>1. x \in Nat
            BY RecordsAssumption
        <3> QED
            BY <1>1, <1>3, <1>10, <2>1, <2>2, <2>3, <3>1 DEF Frontier
    <2>4. ASSUME NEW q \in DOMAIN merged' PROVE merged'[q].key < Peek(j)'.key
        BY <1>1, <1>7, <1>8, <1>10, <1>12, <2>1, <2>2 DEF Frontier
    <2> QED
        BY <2>3, <2>4
<1>15. Frontier'
    BY <1>14 DEF Frontier
<1>16. Contents' = Contents
    BY <1>2 DEF Contents
<1>17. ASSUME NEW q \in DOMAIN merged'
       PROVE  /\ merged'[q].key \in ReadKeys'
              /\ merged'[q].entry = Merge(Contents, drop_tombstones)[merged'[q].key]
    <2>1. CASE q \in DOMAIN merged /\ merged'[q] = merged[q]
        BY <1>1, <1>3, <1>8, <2>1 DEF Kept
    <2>2. CASE ~dropped /\ merged'[q] = r
        BY <1>3, <1>5, <1>7, <2>2
    <2> QED
        BY <1>12, <2>1, <2>2
<1>18. ASSUME NEW x \in Key, x \in ReadKeys', Merge(Contents, drop_tombstones)[x] # None
       PROVE  \E q \in DOMAIN merged' : merged'[q].key = x
    <2>1. CASE x \in ReadKeys
        BY <1>1, <1>12, <1>18, <2>1 DEF Kept
    <2>2. CASE x = k
        BY <1>5, <1>7, <1>12, <1>18, <2>2
    <2> QED
        BY <1>3, <1>18, <2>1, <2>2
<1>19. Kept'
    <2>1. Sorted(merged)' /\ Merge(Contents, drop_tombstones)' = Merge(Contents, drop_tombstones)
        BY <1>2, <1>12, <1>16 DEF Sorted, Merge, Record, Hits
    <2> QED
        BY <1>17, <1>18, <2>1 DEF Kept
<1> QED
    BY <1>2, <1>3, <1>13, <1>15, <1>19 DEF MergeInv

LEMMA MergeInvNext == MergeInv /\ [MergeNext]_mergeVars => MergeInv'
<1> SUFFICES ASSUME MergeInv, [MergeNext]_mergeVars PROVE MergeInv'
    OBVIOUS
<1>1. ASSUME NEW k \in Key, MergeSmallest(k) PROVE MergeInv'
    BY <1>1, MergeSmallestKeeps
<1>2. ASSUME UNCHANGED <<tables, drop_tombstones, cursor, merged>>,
             merge' \in {"merging", "merged", "failed"}, merge' = "merged" => Unread = {}
      PROVE  MergeInv'
    <2>1. Unread' = Unread /\ Contents' = Contents /\ \A j : Peek(j)' = Peek(j)
        BY <1>2 DEF Unread, Contents, Peek
    <2>2. \A x : x \in ReadKeys' <=> x \in ReadKeys
        BY <1>2 DEF ReadKeys
    <2>3. MergeTypeOK' /\ InRange'
        BY <1>2 DEF MergeInv, MergeTypeOK, InRange
    <2>4. Frontier'
        BY <1>2, <2>1, <2>2 DEF MergeInv, Frontier
    <2>5. Kept'
        BY <1>2, <2>1, <2>2 DEF MergeInv, Kept
    <2> QED
        BY <1>2, <2>1, <2>3, <2>4, <2>5 DEF MergeInv
<1>3. CASE MergeDone
    BY <1>2, <1>3 DEF MergeDone
<1>4. CASE MergeFails
    BY <1>2, <1>4 DEF MergeFails
<1>5. CASE UNCHANGED mergeVars
    BY <1>2, <1>5 DEF mergeVars, MergeInv, MergeTypeOK
<1> QED
    BY <1>1, <1>3, <1>4, <1>5 DEF MergeNext

\* Every reachable state of the merge is well typed.
THEOREM MergeTypeCorrect == MergeSpec => []MergeTypeOK
<1>1. MergeInv => MergeTypeOK
    BY DEF MergeInv
<1> QED
    BY <1>1, MergeInvInit, MergeInvNext, PTL DEF MergeSpec

LEMMA MergeInvImplies == MergeInv => MergesToNewest
<1> SUFFICES ASSUME MergeInv, Unread = {}
             PROVE  Sorted(merged) /\ ContentOf(merged) = Merge(Contents, drop_tombstones)
    BY DEF MergesToNewest, MergeInv
<1>1. MergeTypeOK /\ InRange /\ Kept
    BY DEF MergeInv
<1>2. merged \in Seq(TableRecord) /\ Sorted(merged)
    BY <1>1 DEF MergeTypeOK, Kept
<1>3. Len(tables) \in Nat /\ DOMAIN tables = 1..Len(tables) /\ Len(Contents) = Len(tables)
    BY <1>1, RunOfTables DEF Contents
<1>4. ASSUME NEW k \in Key
      PROVE  ContentOf(merged)[k] = Merge(Contents, drop_tombstones)[k]
    <2>1. CASE \E q \in DOMAIN merged : merged[q].key = k
        BY <1>1, <1>2, <2>1, ContentAt DEF Kept
    <2>2. CASE \A q \in DOMAIN merged : merged[q].key # k
        <3>1. ContentOf(merged)[k] = None
            BY <2>2, ContentNowhere
        <3>2. CASE k \in ReadKeys
            BY <1>1, <2>2, <3>1, <3>2 DEF Kept
        <3>3. CASE k \notin ReadKeys
            <4>1. ASSUME NEW i \in DOMAIN tables, NEW p \in DOMAIN tables[i]
                  PROVE  tables[i][p].key # k
                <5>1. /\ p \in 1..Len(tables[i]) /\ Len(tables[i]) \in Nat /\ cursor[i] \in Nat
                    BY <1>1, RunOfTables, SequenceType
                <5>2. cursor[i] > Len(tables[i])
                    BY <5>1 DEF Unread
                <5> QED
                    BY <3>3, <5>1, <5>2 DEF ReadKeys
            <4>2. \A i \in DOMAIN tables : ContentOf(tables[i])[k] = None
                BY <4>1, ContentNowhere
            <4>3. Hits(Contents, k) = {}
                BY <1>3, <4>2 DEF Hits, Contents
            <4>4. Record(Contents, k) = None
                BY <4>3 DEF Record
            <4> QED
                BY <3>1, <4>4 DEF Merge
        <3> QED
            BY <3>2, <3>3
    <2> QED
        BY <2>1, <2>2
<1>5. ContentOf(merged) = Merge(Contents, drop_tombstones)
    BY <1>4 DEF ContentOf, Merge
<1> QED
    BY <1>2, <1>5

\* When every cursor is at its end, what was kept is the merge of the run: for
\* any number of tables, the loop over cursors computes, in key order, the
\* function by which SSTableSet stands for it.
THEOREM MergeIsCorrect == MergeSpec => []MergesToNewest
BY MergeInvImplies, MergeInvInit, MergeInvNext, PTL DEF MergeSpec

-----------------------------------------------------------------------------
(* The vector of files as a vector of functions.                           *)

\* A file from which the records of a sorted table can be read, one by one and
\* all together, by the table its writer kept and by the one open makes.
TableReads(t) ==
    /\ RecordsOf(t) \in Seq(TableRecord)
    /\ Sorted(RecordsOf(t))
    /\ \A k \in Key : TableGet(t, k) = ContentOf(RecordsOf(t))[k]
    /\ OpenTable(t.file) = {t}
    /\ t.file.length \in Nat

\* What write_table has finished can be read: the records in order, every key
\* where it is, and by open what was kept in memory.
LEMMA WrittenReads ==
    ASSUME NEW recs \in Seq(TableRecord), Sorted(recs), recs # <<>>,
           NEW w, HasWritten(w, recs), AllLaid(w)
    PROVE  TableReads(Written(w)) /\ RecordsOf(Written(w)) = recs
<1> DEFINE t == Written(w)
<1>1. TableOK(t, recs)
    BY WrittenOK
<1> HIDE DEF t
<1>2. PICK off, at : DataLaid(t, recs, off, at)
    BY <1>1 DEF TableOK
<1>3. PICK ioff : TailLaid(t, ioff)
    BY <1>1 DEF TableOK
<1>4. /\ Admits(t, recs) /\ t.sparse_index \in Seq(IndexEntry)
      /\ SizesPositive(t.file.items) /\ t.file.length \in Nat
    BY <1>1 DEF TableOK
<1>5. RecordsOf(t) = recs
    BY <1>2, AllRecordsAreRead
<1>6. \A k \in Key : TableGet(t, k) = ContentOf(recs)[k]
    BY <1>2, <1>4, LookupIsContent
<1>7. OpenTable(t.file) = {t}
    BY <1>3, <1>4, ReopenIsIdentity
<1>8. TableReads(t)
    BY <1>4, <1>5, <1>6, <1>7 DEF TableReads
<1> QED
    BY <1>5, <1>8 DEF t

\* The vector, with what is said of each file.
VectorOK(ts) == (\E S : ts \in Seq(S)) /\ \A i \in DOMAIN ts : TableReads(ts[i])

\* As SSTableSet sees it: positions stand in for the names nobody asks for here.
AsTable(t) == [first |-> 0, last |-> 0, data |-> ContentOf(RecordsOf(t))]
Files(ts)  == [i \in 1..Len(ts) |-> AsTable(ts[i])]

\* The content of records is the data of a table.
LEMMA ContentType ==
    ASSUME NEW recs \in Seq(TableRecord)
    PROVE  ContentOf(recs) \in Data
<1>1. ASSUME NEW k \in Key, Places(recs, k) # {}
      PROVE  recs[CHOOSE i \in Places(recs, k) : TRUE].entry \in Entry
    <2>1. (CHOOSE i \in Places(recs, k) : TRUE) \in Places(recs, k)
        BY <1>1
    <2>2. (CHOOSE i \in Places(recs, k) : TRUE) \in DOMAIN recs
        BY <2>1 DEF Places
    <2> QED
        BY <2>2, SequenceType DEF Entry
<1>2. ASSUME NEW k \in Key PROVE ContentOf(recs)[k] \in Entry
    BY <1>1 DEF ContentOf, Entry
<1>3. ContentOf(recs) = [k \in Key |-> ContentOf(recs)[k]]
    BY DEF ContentOf
<1> QED
    BY <1>2, <1>3 DEF Data

\* The vector of files, as tables, is as long as it is.
LEMMA FilesType ==
    ASSUME NEW ts, VectorOK(ts)
    PROVE  /\ Files(ts) \in Seq(Table) /\ Len(Files(ts)) = Len(ts)
           /\ Len(ts) \in Nat /\ DOMAIN ts = 1..Len(ts)
           /\ \A i \in 1..Len(ts) : Files(ts)[i] = AsTable(ts[i])
<1>1. PICK S : ts \in Seq(S)
    BY DEF VectorOK
<1>2. Len(ts) \in Nat /\ DOMAIN ts = 1..Len(ts)
    BY <1>1, LenProperties
<1>3. ASSUME NEW i \in 1..Len(ts) PROVE AsTable(ts[i]) \in Table
    <2>1. RecordsOf(ts[i]) \in Seq(TableRecord)
        BY <1>2 DEF VectorOK, TableReads
    <2>2. ContentOf(RecordsOf(ts[i])) \in Data
        BY <2>1, ContentType
    <2> QED
        BY <2>2 DEF AsTable, Table
<1>4. Files(ts) \in Seq(Table) /\ Len(Files(ts)) = Len(ts)
    BY <1>2, <1>3 DEF Files
<1> QED
    BY <1>2, <1>4 DEF Files

\* get over the files is the view of the functions they hold.
LEMMA SetGetIsView ==
    ASSUME NEW ts, VectorOK(ts), NEW k \in Key
    PROVE  SetGet(ts, k) = View(Files(ts))[k]
<1> DEFINE fs == Files(ts)
           answers == {i \in DOMAIN ts : TableGet(ts[i], k) # None}
<1> SUFFICES SetGet(ts, k) = View(fs)[k]
    OBVIOUS
<1>1. /\ fs \in Seq(Table) /\ Len(fs) = Len(ts) /\ Len(ts) \in Nat /\ DOMAIN ts = 1..Len(ts)
      /\ \A i \in 1..Len(ts) : fs[i].data[k] = TableGet(ts[i], k)
    <2>1. /\ fs \in Seq(Table) /\ Len(fs) = Len(ts) /\ Len(ts) \in Nat /\ DOMAIN ts = 1..Len(ts)
          /\ \A i \in 1..Len(ts) : fs[i] = AsTable(ts[i])
        BY FilesType
    <2>2. \A i \in 1..Len(ts) : TableGet(ts[i], k) = ContentOf(RecordsOf(ts[i]))[k]
        BY <2>1 DEF VectorOK, TableReads
    <2> HIDE DEF fs
    <2>3. \A i \in 1..Len(ts) : fs[i].data = ContentOf(RecordsOf(ts[i]))
        <3>1. \A x : AsTable(x).data = ContentOf(RecordsOf(x))
            BY DEF AsTable
        <3> QED
            BY <2>1, <3>1
    <2> QED
        BY <2>1, <2>2, <2>3
<1> HIDE DEF fs
<1>2. answers = Hits(fs, k) /\ answers \in SUBSET (1..Len(ts))
    BY <1>1 DEF Hits
<1>3. SetGet(ts, k) = IF answers = {} THEN None ELSE Visible(TableGet(ts[Newest(answers)], k))
    BY DEF SetGet
<1>4. View(fs)[k] = Visible(Record(fs, k))
    BY DEF View
<1> HIDE DEF answers
<1>5. CASE answers = {}
    <2>1. Record(fs, k) = None
        BY <1>2, <1>5 DEF Record
    <2>2. Visible(None) = None
        BY LayersAssumption DEF Visible
    <2> QED
        BY <1>3, <1>4, <1>5, <2>1, <2>2
<1>6. CASE answers # {}
    <2>1. Newest(answers) \in answers
        BY <1>1, <1>2, <1>6, NewestIsMax
    <2>2. fs[Newest(answers)].data[k] = TableGet(ts[Newest(answers)], k)
        BY <1>1, <1>2, <2>1
    <2>3. Record(fs, k) = fs[Newest(answers)].data[k]
        BY <1>2, <1>6 DEF Record
    <2> QED
        BY <1>3, <1>4, <1>6, <2>2, <2>3
<1> QED
    BY <1>5, <1>6

\* A flushed table goes behind the others.
LEMMA AppendOK ==
    ASSUME NEW ts, VectorOK(ts), NEW t, TableReads(t)
    PROVE  /\ VectorOK(Append(ts, t))
           /\ Files(Append(ts, t)) = Append(Files(ts), AsTable(t))
<1>1. PICK S : ts \in Seq(S)
    BY DEF VectorOK
<1> DEFINE T == S \cup {t}
           new == Append(ts, t)
           n == Len(ts)
<1>2. ts \in Seq(T) /\ t \in T
    BY <1>1, SeqMonotonic
<1> HIDE DEF T
<1>3. /\ new \in Seq(T) /\ n \in Nat /\ Len(new) = n + 1 /\ DOMAIN new = 1..n + 1
      /\ DOMAIN ts = 1..n
      /\ \A i \in 1..n : new[i] = ts[i]
      /\ new[n + 1] = t
    BY <1>2, AppendProperties, LenProperties
<1> HIDE DEF new, n
<1>4. VectorOK(new)
    BY <1>3 DEF VectorOK
<1>5. /\ Files(new) \in Seq(Table) /\ Len(Files(new)) = n + 1
      /\ \A i \in 1..n + 1 : Files(new)[i] = AsTable(new[i])
    BY <1>3, <1>4, FilesType
<1>6. /\ Files(ts) \in Seq(Table) /\ Len(Files(ts)) = n
      /\ \A i \in 1..n : Files(ts)[i] = AsTable(ts[i])
    BY FilesType DEF n
<1>7. AsTable(t) \in Table
    BY <1>3, <1>5, ElementOfSeq
<1> DEFINE fs == Append(Files(ts), AsTable(t))
<1>8. /\ fs \in Seq(Table) /\ Len(fs) = n + 1 /\ \A i \in 1..n : fs[i] = Files(ts)[i]
      /\ fs[n + 1] = AsTable(t)
    BY <1>6, <1>7, AppendProperties
<1> HIDE DEF fs
<1>9. \A i \in 1..n + 1 : Files(new)[i] = fs[i]
    BY <1>3, <1>5, <1>6, <1>8
<1>10. Files(new) = fs
    BY <1>5, <1>8, <1>9, SeqEqual
<1> QED
    BY <1>4, <1>10 DEF fs, new

\* A run of files is a run of tables.
LEMMA SubSeqOK ==
    ASSUME NEW ts, VectorOK(ts), NEW a \in Int, NEW b \in Int, 1 <= a, b <= Len(ts)
    PROVE  /\ VectorOK(SubSeq(ts, a, b))
           /\ Files(SubSeq(ts, a, b)) = SubSeq(Files(ts), a, b)
<1>1. PICK S : ts \in Seq(S)
    BY DEF VectorOK
<1> DEFINE new == SubSeq(ts, a, b)
           fs == Files(ts)
           gs == SubSeq(fs, a, b)
           n == IF a <= b THEN b - a + 1 ELSE 0
<1>2. /\ fs \in Seq(Table) /\ Len(fs) = Len(ts) /\ Len(ts) \in Nat /\ DOMAIN ts = 1..Len(ts)
      /\ \A i \in 1..Len(ts) : fs[i] = AsTable(ts[i])
    BY FilesType
<1>3. \A i \in a..b : i \in 1..Len(ts)
    BY <1>2
<1>4. n \in Nat /\ \A i \in 1..n : a + i - 1 \in a..b
    OBVIOUS
<1> HIDE DEF n
<1>5. /\ new \in Seq(S) /\ Len(new) = n /\ \A i \in 1..n : new[i] = ts[a + i - 1]
    <2>1. \A i \in a..b : ts[i] \in S
        BY <1>1, <1>3, ElementOfSeq
    <2> QED
        BY <2>1, SubSeqProperties DEF n
<1> HIDE DEF fs
<1>6. /\ gs \in Seq(Table) /\ Len(gs) = n /\ \A i \in 1..n : gs[i] = fs[a + i - 1]
    <2>1. \A i \in a..b : fs[i] \in Table
        BY <1>2, <1>3, ElementOfSeq
    <2> QED
        BY <2>1, SubSeqProperties DEF n
<1> HIDE DEF new, gs
<1>7. ASSUME NEW i \in 1..n
      PROVE  TableReads(new[i]) /\ gs[i] = AsTable(new[i])
    <2>1. PICK j \in 1..Len(ts) : j = a + i - 1
        BY <1>3, <1>4
    <2>2. new[i] = ts[j] /\ gs[i] = fs[j]
        BY <1>5, <1>6, <2>1
    <2>3. TableReads(ts[j])
        BY <1>2 DEF VectorOK
    <2> QED
        BY <1>2, <2>2, <2>3
<1>8. DOMAIN new = 1..n
    BY <1>5, LenProperties
<1>9. VectorOK(new)
    BY <1>5, <1>7, <1>8 DEF VectorOK
<1>10. /\ Files(new) \in Seq(Table) /\ Len(Files(new)) = n
       /\ \A i \in 1..n : Files(new)[i] = AsTable(new[i])
    BY <1>5, <1>9, FilesType
<1>11. \A i \in 1..n : Files(new)[i] = gs[i]
    BY <1>7, <1>10
<1>12. Files(new) = gs
    BY <1>6, <1>10, <1>11, SeqEqual
<1> QED
    BY <1>9, <1>12 DEF new, gs, fs

\* Two vectors, one behind the other.
LEMMA ConcatOK ==
    ASSUME NEW s, VectorOK(s), NEW t, VectorOK(t)
    PROVE  VectorOK(s \o t) /\ Files(s \o t) = Files(s) \o Files(t)
<1>1. PICK S : s \in Seq(S)
    BY DEF VectorOK
<1>2. PICK T : t \in Seq(T)
    BY DEF VectorOK
<1> DEFINE U == S \cup T
           new == s \o t
           m == Len(s)
           n == Len(t)
           fs == Files(s) \o Files(t)
<1>3. s \in Seq(U) /\ t \in Seq(U)
    BY <1>1, <1>2, SeqMonotonic
<1> HIDE DEF U
<1>4. /\ Files(s) \in Seq(Table) /\ Len(Files(s)) = m /\ m \in Nat /\ DOMAIN s = 1..m
      /\ \A i \in 1..m : Files(s)[i] = AsTable(s[i])
    BY FilesType
<1>5. /\ Files(t) \in Seq(Table) /\ Len(Files(t)) = n /\ n \in Nat /\ DOMAIN t = 1..n
      /\ \A i \in 1..n : Files(t)[i] = AsTable(t[i])
    BY FilesType
<1>6. /\ new \in Seq(U) /\ Len(new) = m + n
      /\ \A i \in 1..m + n : new[i] = IF i <= m THEN s[i] ELSE t[i - m]
    BY <1>3, <1>4, <1>5, ConcatProperties
<1>7. /\ fs \in Seq(Table) /\ Len(fs) = m + n
      /\ \A i \in 1..m + n : fs[i] = IF i <= m THEN Files(s)[i] ELSE Files(t)[i - m]
    <2> DEFINE x == Files(s)
               y == Files(t)
    <2>1. x \in Seq(Table) /\ y \in Seq(Table) /\ Len(x) = m /\ Len(y) = n
        BY <1>4, <1>5
    <2> HIDE DEF x, y, m, n
    <2>2. /\ x \o y \in Seq(Table) /\ Len(x \o y) = m + n
          /\ \A i \in 1..m + n : (x \o y)[i] = IF i <= m THEN x[i] ELSE y[i - m]
        BY <2>1, ConcatProperties
    <2> QED
        BY <2>2 DEF x, y
<1> HIDE DEF new, m, n, fs
<1>8. ASSUME NEW i \in 1..m + n
      PROVE  TableReads(new[i]) /\ fs[i] = AsTable(new[i])
    <2>1. CASE i <= m
        <3>1. i \in 1..m
            BY <1>4, <1>5, <2>1
        <3>2. TableReads(s[i]) /\ Files(s)[i] = AsTable(s[i])
            BY <1>4, <3>1 DEF VectorOK
        <3> QED
            BY <1>6, <1>7, <2>1, <3>2
    <2>2. CASE ~(i <= m)
        <3>1. i - m \in 1..n
            BY <1>4, <1>5, <2>2
        <3>2. TableReads(t[i - m]) /\ Files(t)[i - m] = AsTable(t[i - m])
            BY <1>5, <3>1 DEF VectorOK
        <3> QED
            BY <1>6, <1>7, <2>2, <3>2
    <2> QED
        BY <2>1, <2>2
<1>9. m + n \in Nat /\ DOMAIN new = 1..m + n
    BY <1>4, <1>5, <1>6, LenProperties
<1>10. VectorOK(new)
    BY <1>6, <1>8, <1>9 DEF VectorOK
<1>11. /\ Files(new) \in Seq(Table) /\ Len(Files(new)) = m + n
       /\ \A i \in 1..m + n : Files(new)[i] = AsTable(new[i])
    BY <1>6, <1>10, FilesType
<1>12. \A i \in 1..m + n : Files(new)[i] = fs[i]
    BY <1>8, <1>11
<1>13. Files(new) = fs
    BY <1>7, <1>11, <1>12, SeqEqual
<1> QED
    BY <1>10, <1>13 DEF new, fs

\* A splice of the vector of files is a splice of the tables they stand for.
LEMMA SpliceOK ==
    ASSUME NEW ts, VectorOK(ts), NEW s \in Nat, NEW c \in Nat, s + c <= Len(ts),
           NEW r, VectorOK(r)
    PROVE  /\ VectorOK(Splice(ts, s, c, r))
           /\ Files(Splice(ts, s, c, r)) = Splice(Files(ts), s, c, Files(r))
<1> DEFINE n == Len(ts)
           A == SubSeq(ts, 1, s)
           B == SubSeq(ts, s + c + 1, n)
<1>1. n \in Nat /\ Len(Files(ts)) = n
    BY FilesType
<1>2. VectorOK(A) /\ Files(A) = SubSeq(Files(ts), 1, s)
    <2>1. s <= n /\ 1 \in Int /\ s \in Int
        BY <1>1
    <2> HIDE DEF n
    <2> QED
        BY <2>1, SubSeqOK DEF n
<1>3. VectorOK(B) /\ Files(B) = SubSeq(Files(ts), s + c + 1, n)
    <2> DEFINE a == s + c + 1
    <2>1. a \in Int /\ n \in Int /\ 1 <= a /\ n <= Len(ts)
        BY <1>1
    <2> HIDE DEF a, n
    <2>2. VectorOK(SubSeq(ts, a, n)) /\ Files(SubSeq(ts, a, n)) = SubSeq(Files(ts), a, n)
        BY <2>1, SubSeqOK
    <2> QED
        BY <2>2 DEF a
<1> HIDE DEF A, B, n
<1>4. VectorOK(A \o r) /\ Files(A \o r) = Files(A) \o Files(r)
    BY <1>2, ConcatOK
<1>5. VectorOK((A \o r) \o B) /\ Files((A \o r) \o B) = Files(A \o r) \o Files(B)
    BY <1>3, <1>4, ConcatOK
<1>6. Splice(ts, s, c, r) = (A \o r) \o B
    BY DEF Splice, A, B, n
<1>7. Splice(Files(ts), s, c, Files(r)) = (Files(A) \o Files(r)) \o Files(B)
    BY <1>1, <1>2, <1>3 DEF Splice
<1> QED
    BY <1>4, <1>5, <1>6, <1>7

\* A merge asks for nothing but the data of the tables it is given.
LEMMA MergeOfSameData ==
    ASSUME NEW fs \in Seq(Table), NEW run, Len(run) = Len(fs),
           \A i \in 1..Len(fs) : run[i].data = fs[i].data, NEW drop
    PROVE  Merge(run, drop) = Merge(fs, drop)
<1>1. Len(fs) \in Nat
    BY LenProperties
<1>2. ASSUME NEW k \in Key PROVE Record(run, k) = Record(fs, k)
    <2> DEFINE H == Hits(fs, k)
    <2>1. Hits(run, k) = H /\ H \in SUBSET (1..Len(fs))
        BY DEF Hits
    <2> HIDE DEF H
    <2>2. CASE H = {}
        <3>1. Hits(fs, k) = {}
            BY <2>2 DEF H
        <3> QED
            BY <2>1, <2>2, <3>1 DEF Record
    <2>3. CASE H # {}
        <3>1. Newest(H) \in 1..Len(fs)
            BY <1>1, <2>1, <2>3, NewestIsMax
        <3>2. Record(run, k) = run[Newest(H)].data[k]
            BY <2>1, <2>3 DEF Record
        <3>3. Record(fs, k) = fs[Newest(H)].data[k]
            BY <2>3 DEF Record, H
        <3> QED
            BY <3>1, <3>2, <3>3
    <2> QED
        BY <2>2, <2>3
<1> QED
    BY <1>2 DEF Merge

\* One table of records, or none.
LEMMA ReplacementOK ==
    ASSUME NEW recs \in Seq(TableRecord), Sorted(recs),
           NEW r, \/ recs = <<>> /\ r = <<>>
                  \/ recs # <<>> /\ \E t : TableReads(t) /\ RecordsOf(t) = recs /\ r = <<t>>,
           NEW f, f = [first |-> 0, last |-> 0, data |-> ContentOf(recs)]
    PROVE  /\ f \in Table /\ VectorOK(r)
           /\ Files(r) = IF f.data = Empty THEN <<>> ELSE <<f>>
<1>1. f \in Table /\ f.data = ContentOf(recs)
    BY ContentType DEF Table
<1>2. CASE recs = <<>> /\ r = <<>>
    <2>1. VectorOK(<<>>) /\ Files(<<>>) = <<>>
        <3>1. <<>> \in Seq({}) /\ DOMAIN <<>> = {} /\ Len(<<>>) = 0
            OBVIOUS
        <3>2. VectorOK(<<>>)
            BY <3>1 DEF VectorOK
        <3>3. Files(<<>>) \in Seq(Table) /\ Len(Files(<<>>)) = 0
            BY <3>1, <3>2, FilesType
        <3> QED
            BY <3>2, <3>3, EmptySeq
    <2>2. \A p \in DOMAIN recs : FALSE
        BY <1>2
    <2>3. \A k \in Key : ContentOf(recs)[k] = None
        BY <2>2, ContentNowhere
    <2>4. ContentOf(recs) = Empty
        BY <2>3 DEF ContentOf, Empty
    <2> QED
        BY <1>1, <1>2, <2>1, <2>4
<1>3. ASSUME recs # <<>>, NEW t, TableReads(t), RecordsOf(t) = recs, r = <<t>>
      PROVE  VectorOK(r) /\ Files(r) = IF f.data = Empty THEN <<>> ELSE <<f>>
    <2>1. f.data # Empty
        <3>1. 1 \in DOMAIN recs
            BY <1>3, EmptySeq, LenProperties
        <3>2. ContentOf(recs)[recs[1].key] # None /\ recs[1].key \in Key
            BY <3>1, ContentAt, SequenceType
        <3> QED
            BY <1>1, <3>2 DEF Empty
    <2>2. AsTable(t) = f
        BY <1>3 DEF AsTable
    <2>3. r \in Seq({t}) /\ Len(r) = 1 /\ r[1] = t /\ DOMAIN r = {1}
        BY <1>3
    <2>4. VectorOK(r)
        BY <1>3, <2>3 DEF VectorOK
    <2>5. Files(r) \in Seq(Table) /\ Len(Files(r)) = 1 /\ Files(r)[1] = f
        BY <2>2, <2>3, <2>4, FilesType
    <2>6. Files(r) = <<f>>
        <3>1. <<f>> \in Seq(Table) /\ Len(<<f>>) = 1 /\ <<f>>[1] = f
            BY <1>1
        <3> QED
            BY <2>5, <3>1, SeqEqual
    <2> QED
        BY <2>1, <2>4, <2>6
<1> QED
    BY <1>1, <1>2, <1>3

\* A run replaced by the merge of its tables is not seen by a reader.
LEMMA CompactionKeepsView ==
    ASSUME NEW ts, VectorOK(ts), NEW s \in Nat, NEW c \in Nat, s + c <= Len(ts),
           NEW drop \in BOOLEAN, drop => s = 0,
           NEW recs \in Seq(TableRecord), Sorted(recs),
           ContentOf(recs) = Merge(SubSeq(Files(ts), s + 1, s + c), drop),
           NEW r, \/ recs = <<>> /\ r = <<>>
                  \/ recs # <<>> /\ \E t : TableReads(t) /\ RecordsOf(t) = recs /\ r = <<t>>
    PROVE  /\ VectorOK(Splice(ts, s, c, r))
           /\ View(Files(Splice(ts, s, c, r))) = View(Files(ts))
<1> DEFINE f == [first |-> 0, last |-> 0, data |-> ContentOf(recs)]
           fs == Files(ts)
           new == Splice(ts, s, c, r)
<1>1. f.data = ContentOf(recs)
    OBVIOUS
<1>2. /\ f \in Table /\ VectorOK(r)
      /\ Files(r) = IF f.data = Empty THEN <<>> ELSE <<f>>
    BY ReplacementOK
<1> HIDE DEF f
<1>3. VectorOK(new) /\ Files(new) = Splice(fs, s, c, Files(r))
    BY <1>2, SpliceOK
<1>4. fs \in Seq(Table) /\ s + c <= Len(fs)
    BY FilesType
<1> HIDE DEF fs, new
<1>5. f.data = Merge(SubSeq(fs, s + 1, s + c), drop)
    BY <1>1 DEF fs
<1>6. View(Splice(fs, s, c, IF f.data = Empty THEN <<>> ELSE <<f>>)) = View(fs)
    BY <1>2, <1>4, <1>5, MergePreservesView
<1> QED
    BY <1>2, <1>3, <1>6 DEF fs, new

-----------------------------------------------------------------------------
(* write_table, from its first step to its last.                           *)

\* On the way to a table of recs.
Writing(w, recs) ==
    \E done \in Seq(TableRecord) :
        w.left \in Seq(TableRecord) /\ done \o w.left = recs /\ HasWritten(w, done)

\* Before its first step write_table is on its way.
LEMMA NewWriting ==
    ASSUME NEW recs \in Seq(TableRecord)
    PROVE  Writing(NewWriter(recs), recs)
<1>1. HasWritten(NewWriter(recs), <<>>)
    BY NewWriterOK DEF HasWritten
<1>2. NewWriter(recs).left = recs
    BY DEF NewWriter
<1>3. <<>> \in Seq(TableRecord) /\ <<>> \o recs = recs
    BY ConcatEmptySeq, EmptySeq
<1> QED
    BY <1>1, <1>2, <1>3 DEF Writing

\* A record written is one less to write.
LEMMA WriteKeeps ==
    ASSUME NEW recs, NEW w, Writing(w, recs), w.left # <<>>
    PROVE  Writing(WriteRecord(w), recs)
<1>1. PICK done \in Seq(TableRecord) :
        w.left \in Seq(TableRecord) /\ done \o w.left = recs /\ HasWritten(w, done)
    BY DEF Writing
<1> DEFINE left == w.left
           h == Head(left)
<1>2. h \in TableRecord /\ Tail(left) \in Seq(TableRecord)
    BY <1>1, HeadTailProperties
<1>3. HasWritten(WriteRecord(w), Append(done, h)) /\ WriteRecord(w).left = Tail(left)
    BY <1>1, WriteRecordOK
<1>4. Append(done, h) \in Seq(TableRecord)
    BY <1>1, <1>2, AppendProperties
<1>5. Append(done, h) \o Tail(left) = recs
    <2>1. left \in Seq(TableRecord) /\ left # <<>> /\ done \in Seq(TableRecord) /\ done \o left = recs
        BY <1>1
    <2> DEFINE n == Len(done)
               m == Len(left)
               new == Append(done, h)
               c == new \o Tail(left)
    <2>2. n \in Nat /\ m \in Nat /\ m >= 1
        BY <2>1, LenProperties, EmptySeq
    <2> HIDE DEF left
    <2>3. /\ Len(Tail(left)) = m - 1 /\ h = left[1]
          /\ \A i \in 1..m - 1 : Tail(left)[i] = left[i + 1]
        BY <2>1, HeadTailProperties
    <2> HIDE DEF h
    <2>4. /\ new \in Seq(TableRecord) /\ Len(new) = n + 1 /\ new[n + 1] = h
          /\ \A i \in 1..n : new[i] = done[i]
        BY <1>2, <2>1, AppendProperties
    <2>5. /\ done \o left \in Seq(TableRecord) /\ Len(done \o left) = n + m
          /\ \A i \in 1..n + m : (done \o left)[i] = IF i <= n THEN done[i] ELSE left[i - n]
        BY <2>1, ConcatProperties
    <2> HIDE DEF new, n, m
    <2>6. Tail(left) \in Seq(TableRecord)
        BY <1>2
    <2> DEFINE t == Tail(left)
    <2> HIDE DEF t
    <2>7. /\ new \o t \in Seq(TableRecord) /\ Len(new \o t) = Len(new) + Len(t)
          /\ \A i \in 1..Len(new) + Len(t) :
                (new \o t)[i] = IF i <= Len(new) THEN new[i] ELSE t[i - Len(new)]
        BY <2>4, <2>6, ConcatProperties DEF t
    <2>8. Len(t) = m - 1 /\ \A i \in 1..m - 1 : t[i] = left[i + 1]
        BY <2>3 DEF t
    <2>9. Len(new) + Len(t) = n + m
        BY <2>2, <2>4, <2>8
    <2>10. ASSUME NEW i \in 1..n + m PROVE (new \o t)[i] = (done \o left)[i]
        <3>1. CASE i <= n
            BY <2>2, <2>4, <2>5, <2>7, <2>9, <3>1
        <3>2. CASE i = n + 1
            <4>1. (new \o t)[i] = h
                BY <2>2, <2>4, <2>7, <2>9, <3>2
            <4>2. (done \o left)[i] = left[1]
                BY <2>2, <2>5, <3>2
            <4> QED
                BY <2>3, <4>1, <4>2
        <3>3. CASE i > n + 1
            <4>1. (new \o t)[i] = t[i - (n + 1)]
                BY <2>2, <2>4, <2>7, <2>9, <3>3
            <4>2. (done \o left)[i] = left[i - n]
                BY <2>2, <2>5, <3>3
            <4>3. PICK j \in 1..m - 1 : j = i - (n + 1) /\ j + 1 = i - n
                BY <2>2, <3>3
            <4> QED
                BY <2>8, <4>1, <4>2, <4>3
        <3>4. i <= n \/ i = n + 1 \/ i > n + 1
            <4>1. i \in Int /\ n \in Int
                BY <2>2
            <4> QED
                BY <4>1
        <3> QED
            BY <3>1, <3>2, <3>3, <3>4
    <2>11. new \o t = done \o left
        BY <2>5, <2>7, <2>9, <2>10, SeqEqual
    <2> QED
        BY <2>1, <2>11 DEF new, t
<1> QED
    BY <1>2, <1>3, <1>4, <1>5 DEF Writing

\* An index entry written changes nothing about the records.
LEMMA WriteIndexKeeps ==
    ASSUME NEW recs, NEW w, Writing(w, recs), w.left = <<>>, w.indexed < Len(w.sparse_index)
    PROVE  Writing(WriteIndexEntry(w), recs)
<1>1. PICK done \in Seq(TableRecord) :
        w.left \in Seq(TableRecord) /\ done \o w.left = recs /\ HasWritten(w, done)
    BY DEF Writing
<1>2. HasWritten(WriteIndexEntry(w), done) /\ WriteIndexEntry(w).left = w.left
    BY <1>1, WriteIndexEntryOK
<1> QED
    BY <1>1, <1>2 DEF Writing

\* At its end the file can be read as the records it was made from.
LEMMA WritingEnds ==
    ASSUME NEW recs \in Seq(TableRecord), Sorted(recs), recs # <<>>,
           NEW w, Writing(w, recs), AllLaid(w)
    PROVE  TableReads(Written(w)) /\ RecordsOf(Written(w)) = recs
<1>1. PICK done \in Seq(TableRecord) : done \o w.left = recs /\ HasWritten(w, done)
    BY DEF Writing
<1>2. w.left = <<>>
    BY DEF AllLaid
<1>3. done = recs
    BY <1>1, <1>2, ConcatEmptySeq
<1> QED
    BY <1>1, <1>3, WrittenReads

-----------------------------------------------------------------------------
(* The inductive invariant of Compaction.                                  *)

\* The run that was picked, as it was when its merge began: nobody else is at
\* work, so that it is still there.
AtWork ==
    /\ scan = "found" /\ Len(sizes) = Len(sstables)
    /\ tables = [i \in 1..(end - start) |-> RecordsOf(sstables[start + i])]
    /\ drop_tombstones = (start = 0)

\* What is on its way to the files, and already in contents.
Flushing ==
    \E m \in Memtable : /\ Writing(writer, m)
                        /\ contents = Apply(View(Files(sstables)), ContentOf(m))

\* The scan, the merge and the files are each right, the records being written are
\* those of the memtable or of the merge, and the files add up to contents.
CompactionInv ==
    /\ PickInv
    /\ MergeInv
    /\ VectorOK(sstables)
    /\ contents \in Store
    /\ pc \in {"ready", "flushing", "picking", "merging", "rewriting", "over"}
    /\ pc # "flushing" => contents = View(Files(sstables))
    /\ pc = "flushing" => Flushing
    /\ pc = "picking" => Len(sizes) = Len(sstables)
    /\ pc \in {"merging", "rewriting"} => AtWork
    /\ pc = "rewriting" => merge = "merged" /\ merged # <<>> /\ Writing(writer, merged)

\* No merge is under way.
AtRest ==
    tables = <<>> /\ drop_tombstones = FALSE /\ cursor = <<>> /\ merged = <<>> /\ merge = "merged"

LEMMA NothingMerged == AtRest => MergeInv
<1> SUFFICES ASSUME AtRest PROVE MergeInv
    OBVIOUS
<1>1. tables = <<>> /\ drop_tombstones = FALSE /\ cursor = <<>> /\ merged = <<>> /\ merge = "merged"
    BY DEF AtRest
<1>2. MergeTypeOK
    <2>1. DOMAIN tables = {} /\ cursor = [i \in {} |-> 1]
        BY <1>1
    <2>2. cursor \in [DOMAIN tables -> Nat \ {0}]
        BY <2>1
    <2>3. tables \in Seq({s \in Seq(TableRecord) : Sorted(s)}) /\ merged \in Seq(TableRecord)
        BY <1>1, EmptySeq
    <2> QED
        BY <1>1, <2>2, <2>3 DEF MergeTypeOK
<1>3. InRange /\ Unread = {} /\ ReadKeys = {}
    BY <1>1 DEF InRange, Unread, ReadKeys
<1>4. Frontier
    BY <1>3 DEF Frontier
<1>5. Kept
    BY <1>1, <1>3 DEF Kept, Sorted
<1> QED
    BY <1>1, <1>2, <1>3, <1>4, <1>5 DEF MergeInv

LEMMA CompactionInvInit == Init => CompactionInv
<1> SUFFICES ASSUME Init PROVE CompactionInv
    OBVIOUS
<1>1. PickInit
    BY DEF Init, PickInit
<1>2. PickInv
    BY <1>1, PickInvInit
<1>3. MergeInv
    BY NothingMerged DEF Init, AtRest
<1>4. sstables = <<>> /\ contents = Empty /\ pc = "ready"
    BY DEF Init
<1>5. VectorOK(<<>>) /\ Files(<<>>) = <<>>
    <2>1. <<>> \in Seq({}) /\ DOMAIN <<>> = {} /\ Len(<<>>) = 0
        OBVIOUS
    <2>2. VectorOK(<<>>)
        BY <2>1 DEF VectorOK
    <2>3. Files(<<>>) \in Seq(Table) /\ Len(Files(<<>>)) = 0
        BY <2>1, <2>2, FilesType
    <2> QED
        BY <2>2, <2>3, EmptySeq
<1>6. View(<<>>) = Empty
    BY RecordOfNothing, LayersAssumption DEF View, Visible, Empty
<1>7. Empty \in Store
    BY DEF Empty, Store
<1> QED
    BY <1>2, <1>3, <1>4, <1>5, <1>6, <1>7 DEF CompactionInv

LEMMA PickStays == PickInv /\ UNCHANGED pickVars => PickInv'
BY PickInvNext

LEMMA MergeStays == MergeInv /\ UNCHANGED mergeVars => MergeInv'
BY MergeInvNext

LEMMA ApplyType ==
    ASSUME NEW store \in Store, NEW batch \in Data
    PROVE  Apply(store, batch) \in Store
BY VisibleType DEF Apply, Store, Data, Entry

LEMMA StartFlushKeeps ==
    ASSUME CompactionInv, NEW m \in Memtable, StartFlush(m)
    PROVE  CompactionInv'
<1>1. /\ pc = "ready" /\ pc' = "flushing" /\ writer' = NewWriter(m)
      /\ contents' = Apply(contents, ContentOf(m)) /\ sstables' = sstables
      /\ UNCHANGED pickVars /\ UNCHANGED mergeVars
    BY DEF StartFlush
<1>2. /\ PickInv /\ MergeInv /\ VectorOK(sstables) /\ contents \in Store
      /\ contents = View(Files(sstables))
    BY <1>1 DEF CompactionInv
<1>3. PickInv' /\ MergeInv'
    BY <1>1, <1>2, PickStays, MergeStays
<1>4. m \in Seq(TableRecord)
    BY CompactionAssumption
<1>5. Writing(writer', m)
    BY <1>1, <1>4, NewWriting
<1>6. contents' \in Store
    <2>1. ContentOf(m) \in Data
        BY <1>4, ContentType
    <2> QED
        BY <1>1, <1>2, <2>1, ApplyType
<1>7. Flushing'
    BY <1>1, <1>2, <1>5 DEF Flushing
<1> QED
    BY <1>1, <1>2, <1>3, <1>6, <1>7 DEF CompactionInv

LEMMA WriteNextKeeps ==
    ASSUME CompactionInv, Write
    PROVE  CompactionInv'
<1>1. /\ pc \in {"flushing", "rewriting"} /\ pc' = pc /\ contents' = contents
      /\ sstables' = sstables /\ UNCHANGED pickVars /\ UNCHANGED mergeVars
    BY DEF Write, WriteNext, WriteIndex
<1>2. /\ PickInv /\ MergeInv /\ VectorOK(sstables) /\ contents \in Store
    BY DEF CompactionInv
<1>3. PickInv' /\ MergeInv'
    BY <1>1, <1>2, PickStays, MergeStays
<1>4. ASSUME NEW recs, Writing(writer, recs) PROVE Writing(writer', recs)
    BY <1>4, WriteKeeps, WriteIndexKeeps DEF Write, WriteNext, WriteIndex
<1>5. pc = "flushing" => Flushing'
    BY <1>1, <1>4 DEF CompactionInv, Flushing
<1>6. pc = "rewriting" => /\ contents = View(Files(sstables)) /\ AtWork /\ merge = "merged"
                          /\ merged # <<>> /\ Writing(writer', merged)
    BY <1>4 DEF CompactionInv
<1>7. AtWork => AtWork'
    BY <1>1 DEF AtWork, pickVars, mergeVars
<1>8. merge' = merge /\ merged' = merged
    BY <1>1 DEF mergeVars
<1> QED
    BY <1>1, <1>2, <1>3, <1>5, <1>6, <1>7, <1>8 DEF CompactionInv

LEMMA FinishFlushKeeps ==
    ASSUME CompactionInv, FinishFlush
    PROVE  CompactionInv'
<1> DEFINE t == Written(writer)
<1>1. /\ pc = "flushing" /\ pc' = "ready" /\ AllLaid(writer)
      /\ sstables' = Append(sstables, t) /\ contents' = contents
      /\ UNCHANGED pickVars /\ UNCHANGED mergeVars
    BY DEF FinishFlush
<1>2. /\ PickInv /\ MergeInv /\ VectorOK(sstables) /\ contents \in Store /\ Flushing
    BY <1>1 DEF CompactionInv
<1>3. PickInv' /\ MergeInv'
    BY <1>1, <1>2, PickStays, MergeStays
<1>4. PICK m \in Memtable : /\ Writing(writer, m)
                           /\ contents = Apply(View(Files(sstables)), ContentOf(m))
    BY <1>2 DEF Flushing
<1>5. TableReads(t) /\ RecordsOf(t) = m
    BY <1>1, <1>4, CompactionAssumption, WritingEnds
<1> HIDE DEF t
<1>6. /\ VectorOK(Append(sstables, t))
      /\ Files(Append(sstables, t)) = Append(Files(sstables), AsTable(t))
    BY <1>2, <1>5, AppendOK
<1>7. AsTable(t).data = ContentOf(m) /\ AsTable(t) \in Table
    <2>1. ContentOf(m) \in Data
        BY CompactionAssumption, ContentType
    <2> QED
        BY <1>5, <2>1 DEF AsTable, Table
<1>8. View(Append(Files(sstables), AsTable(t))) = Apply(View(Files(sstables)), ContentOf(m))
    BY <1>2, <1>7, FilesType, ViewOfAppend
<1>9. contents' = View(Files(sstables'))
    BY <1>1, <1>4, <1>6, <1>8
<1>10. VectorOK(sstables')
    BY <1>1, <1>6
<1> QED
    BY <1>1, <1>2, <1>3, <1>9, <1>10 DEF CompactionInv

\* The sizes a scan looks at, one for each table, whether they could be read or not.
LEMMA SizesType ==
    ASSUME NEW ts, VectorOK(ts), NEW U
    PROVE  LET lengths == [i \in DOMAIN ts |-> IF i \in U THEN 0 ELSE ts[i].file.length]
           IN lengths \in Seq(Nat) /\ Len(lengths) = Len(ts) /\ (lengths = <<>> <=> ts = <<>>)
<1> DEFINE lengths == [i \in DOMAIN ts |-> IF i \in U THEN 0 ELSE ts[i].file.length]
<1>1. PICK S : ts \in Seq(S)
    BY DEF VectorOK
<1>2. Len(ts) \in Nat /\ DOMAIN ts = 1..Len(ts)
    BY <1>1, LenProperties
<1>3. \A i \in DOMAIN ts : ts[i].file.length \in Nat
    BY DEF VectorOK, TableReads
<1>4. lengths \in Seq(Nat) /\ Len(lengths) = Len(ts)
    BY <1>2, <1>3
<1> HIDE DEF lengths
<1>5. lengths = <<>> <=> Len(lengths) = 0
    BY <1>4, EmptySeq
<1>6. ts = <<>> <=> Len(ts) = 0
    BY <1>1, EmptySeq
<1> QED
    BY <1>4, <1>5, <1>6 DEF lengths

\* A scan begins with the files that are there.
LEMMA StartScanOK ==
    ASSUME NEW ts, VectorOK(ts), StartScan(ts)
    PROVE  PickInv' /\ Len(sizes') = Len(ts) /\ pc' = "picking"
<1>1. /\ start' = 0 /\ end' = 1 /\ scan' = IF ts = <<>> THEN "none" ELSE "growing"
      /\ pc' = "picking"
    BY DEF StartScan
<1>2. PICK U : sizes' = [i \in DOMAIN ts |-> IF i \in U THEN 0 ELSE ts[i].file.length]
    BY DEF StartScan
<1>3. sizes' \in Seq(Nat) /\ Len(sizes') = Len(ts) /\ (sizes' = <<>> <=> ts = <<>>)
    BY <1>2, SizesType
<1>4. PickInit'
    BY <1>1, <1>3 DEF PickInit
<1>5. PickInv'
    BY <1>4, PickInvInit, PTL
<1> QED
    BY <1>1, <1>3, <1>5

LEMMA StartPassKeeps ==
    ASSUME CompactionInv, StartPass
    PROVE  CompactionInv'
<1>1. /\ pc = "ready" /\ StartScan(sstables)
      /\ sstables' = sstables /\ contents' = contents /\ UNCHANGED mergeVars
    BY DEF StartPass
<1>2. /\ PickInv /\ MergeInv /\ VectorOK(sstables) /\ contents \in Store
      /\ contents = View(Files(sstables))
    BY <1>1 DEF CompactionInv
<1>3. PickInv' /\ Len(sizes') = Len(sstables) /\ pc' = "picking"
    BY <1>1, <1>2, StartScanOK
<1>4. MergeInv'
    BY <1>1, <1>2, MergeStays
<1> QED
    BY <1>1, <1>2, <1>3, <1>4 DEF CompactionInv

LEMMA ScanKeeps ==
    ASSUME CompactionInv, Scan
    PROVE  CompactionInv'
<1>1. /\ pc = "picking" /\ pc' = pc /\ PickNext
      /\ sstables' = sstables /\ contents' = contents /\ UNCHANGED mergeVars
    BY DEF Scan
<1>2. /\ PickInv /\ MergeInv /\ VectorOK(sstables) /\ contents \in Store
      /\ contents = View(Files(sstables)) /\ Len(sizes) = Len(sstables)
    BY <1>1 DEF CompactionInv
<1>3. PickInv' /\ MergeInv'
    BY <1>1, <1>2, PickInvNext, MergeStays
<1>4. sizes' = sizes
    BY <1>1 DEF PickNext, Grow, Found, Restart
<1> QED
    BY <1>1, <1>2, <1>3, <1>4 DEF CompactionInv

LEMMA NothingToMergeKeeps ==
    ASSUME CompactionInv, NothingToMerge
    PROVE  CompactionInv'
<1>1. /\ pc = "picking" /\ pc' = "over" /\ UNCHANGED pickVars
      /\ sstables' = sstables /\ contents' = contents /\ UNCHANGED mergeVars
    BY DEF NothingToMerge
<1>2. /\ PickInv /\ MergeInv /\ VectorOK(sstables) /\ contents \in Store
      /\ contents = View(Files(sstables))
    BY <1>1 DEF CompactionInv
<1>3. PickInv' /\ MergeInv'
    BY <1>1, <1>2, PickStays, MergeStays
<1> QED
    BY <1>1, <1>2, <1>3 DEF CompactionInv

\* The run that was found lies in the vector.
LEMMA RunInVector ==
    ASSUME PickInv, scan = "found", Len(sizes) = Len(sstables), VectorOK(sstables)
    PROVE  /\ start \in Nat /\ end \in Nat /\ end - start \in Nat /\ end - start >= 1
           /\ start + (end - start) <= Len(sstables)
           /\ \A i \in 1..(end - start) : start + i \in DOMAIN sstables
<1>1. /\ start \in Nat /\ end \in Nat /\ end <= Len(sizes) /\ end - start >= MinRun
    BY DEF PickInv, PickTypeOK, PickedComparable
<1>2. MinRun \in Nat /\ MinRun >= 2
    BY ThresholdAssumption
<1>3. Len(sstables) \in Nat /\ DOMAIN sstables = 1..Len(sstables)
    BY FilesType
<1>4. PICK n \in Nat : n = Len(sstables) /\ end <= n
    BY <1>1, <1>3
<1>5. end - start \in Nat /\ end - start >= 1 /\ start + (end - start) <= n
    BY <1>1, <1>2, <1>4
<1>6. \A i \in 1..(end - start) : start + i \in 1..n
    BY <1>1, <1>4
<1> QED
    BY <1>1, <1>3, <1>4, <1>5, <1>6

LEMMA StartMergeKeeps ==
    ASSUME CompactionInv, StartMerge
    PROVE  CompactionInv'
<1>1. /\ pc = "picking" /\ pc' = "merging" /\ scan = "found"
      /\ tables' = [i \in 1..(end - start) |-> RecordsOf(sstables[start + i])]
      /\ drop_tombstones' = (start = 0)
      /\ cursor' = [i \in 1..(end - start) |-> 1]
      /\ merged' = <<>> /\ merge' = "merging"
      /\ sstables' = sstables /\ contents' = contents /\ UNCHANGED pickVars
    BY DEF StartMerge
<1>2. /\ PickInv /\ VectorOK(sstables) /\ contents \in Store
      /\ contents = View(Files(sstables)) /\ Len(sizes) = Len(sstables)
    BY <1>1 DEF CompactionInv
<1>3. /\ end - start \in Nat
      /\ \A i \in 1..(end - start) : start + i \in DOMAIN sstables
    BY <1>1, <1>2, RunInVector
<1>4. tables' \in Seq({s \in Seq(TableRecord) : Sorted(s)}) /\ DOMAIN tables' = 1..(end - start)
    <2> DEFINE n == end - start
               T == {s \in Seq(TableRecord) : Sorted(s)}
    <2>1. \A i \in 1..n : RecordsOf(sstables[start + i]) \in T
        BY <1>2, <1>3 DEF VectorOK, TableReads
    <2>2. n \in Nat /\ tables' = [i \in 1..n |-> RecordsOf(sstables[start + i])]
        BY <1>1, <1>3
    <2> HIDE DEF n, T
    <2>3. tables' \in Seq(T) /\ DOMAIN tables' = 1..n
        BY <2>1, <2>2
    <2> QED
        BY <2>3 DEF n, T
<1>5. MergeInit'
    BY <1>1, <1>4 DEF MergeInit
<1>6. MergeInv'
    BY <1>5, MergeInvInit, PTL
<1>7. PickInv'
    BY <1>1, <1>2, PickStays
<1>8. AtWork'
    BY <1>1, <1>2 DEF AtWork, pickVars
<1> QED
    BY <1>1, <1>2, <1>6, <1>7, <1>8 DEF CompactionInv

LEMMA MergeStepKeeps ==
    ASSUME CompactionInv, MergeStep
    PROVE  CompactionInv'
<1>1. /\ pc = "merging" /\ pc' = pc /\ MergeNext
      /\ sstables' = sstables /\ contents' = contents /\ UNCHANGED pickVars
    BY DEF MergeStep
<1>2. /\ PickInv /\ MergeInv /\ VectorOK(sstables) /\ contents \in Store
      /\ contents = View(Files(sstables)) /\ AtWork
    BY <1>1 DEF CompactionInv
<1>3. PickInv' /\ MergeInv'
    BY <1>1, <1>2, PickStays, MergeInvNext
<1>4. tables' = tables /\ drop_tombstones' = drop_tombstones
    BY <1>1 DEF MergeNext, MergeSmallest, MergeDone, MergeFails
<1>5. AtWork'
    BY <1>1, <1>2, <1>4 DEF AtWork, pickVars
<1> QED
    BY <1>1, <1>2, <1>3, <1>5 DEF CompactionInv

LEMMA StartRewriteKeeps ==
    ASSUME CompactionInv, StartRewrite
    PROVE  CompactionInv'
<1>1. /\ pc = "merging" /\ pc' = "rewriting" /\ merge = "merged" /\ merged # <<>>
      /\ writer' = NewWriter(merged)
      /\ sstables' = sstables /\ contents' = contents
      /\ UNCHANGED pickVars /\ UNCHANGED mergeVars
    BY DEF StartRewrite
<1>2. /\ PickInv /\ MergeInv /\ VectorOK(sstables) /\ contents \in Store
      /\ contents = View(Files(sstables)) /\ AtWork
    BY <1>1 DEF CompactionInv
<1>3. PickInv' /\ MergeInv'
    BY <1>1, <1>2, PickStays, MergeStays
<1>4. Writing(writer', merged)
    BY <1>1, <1>2, NewWriting DEF MergeInv, MergeTypeOK
<1>5. AtWork' /\ merge' = merge /\ merged' = merged
    BY <1>1, <1>2 DEF AtWork, pickVars, mergeVars
<1> QED
    BY <1>1, <1>2, <1>3, <1>4, <1>5 DEF CompactionInv

\* The merged records are the merge of the run as the table set sees it.
LEMMA MergedIsMerge ==
    ASSUME PickInv, MergeInv, VectorOK(sstables), AtWork, merge = "merged"
    PROVE  /\ merged \in Seq(TableRecord) /\ Sorted(merged)
           /\ ContentOf(merged)
                = Merge(SubSeq(Files(sstables), start + 1, start + (end - start)), drop_tombstones)
<1> DEFINE fs == Files(sstables)
           n == end - start
           run == SubSeq(fs, start + 1, start + n)
<1>1. /\ merged \in Seq(TableRecord) /\ Sorted(merged)
      /\ ContentOf(merged) = Merge(Contents, drop_tombstones)
    BY MergeInvImplies DEF MergesToNewest, MergeInv, MergeTypeOK
<1>2. /\ start \in Nat /\ n \in Nat /\ start + n <= Len(sstables)
      /\ \A i \in 1..n : start + i \in DOMAIN sstables
    BY RunInVector DEF AtWork
<1>3. tables = [i \in 1..n |-> RecordsOf(sstables[start + i])]
    BY DEF AtWork
<1>4. /\ fs \in Seq(Table) /\ Len(fs) = Len(sstables)
      /\ \A i \in 1..Len(sstables) : fs[i] = AsTable(sstables[i])
      /\ DOMAIN sstables = 1..Len(sstables) /\ Len(sstables) \in Nat
    BY FilesType
<1> HIDE DEF n, fs
<1>5. /\ run \in Seq(Table) /\ Len(run) = n
      /\ \A i \in 1..n : run[i] = fs[start + i]
    <2> DEFINE a == start + 1
               b == start + n
    <2>1. \A i \in a..b : i \in 1..Len(fs)
        BY <1>2, <1>4
    <2>2. \A i \in a..b : fs[i] \in Table
        BY <1>4, <2>1, ElementOfSeq
    <2>3. a \in Int /\ b \in Int /\ b - a + 1 = n /\ (IF a <= b THEN b - a + 1 ELSE 0) = n
        BY <1>2
    <2>4. \A i \in 1..n : a + i - 1 = start + i
        BY <1>2
    <2> HIDE DEF a, b
    <2>5. /\ SubSeq(fs, a, b) \in Seq(Table)
          /\ Len(SubSeq(fs, a, b)) = IF a <= b THEN b - a + 1 ELSE 0
          /\ \A i \in 1..b - a + 1 : SubSeq(fs, a, b)[i] = fs[a + i - 1]
        BY <2>2, <2>3, SubSeqProperties
    <2>6. run = SubSeq(fs, a, b)
        BY DEF a, b
    <2> HIDE DEF run
    <2> QED
        BY <2>3, <2>4, <2>5, <2>6
<1>6. /\ DOMAIN tables = 1..n /\ Len(Contents) = n
      /\ \A i \in 1..n : Contents[i].data = ContentOf(RecordsOf(sstables[start + i]))
    BY <1>2, <1>3 DEF Contents
<1> HIDE DEF run
<1>7. ASSUME NEW i \in 1..n PROVE Contents[i].data = run[i].data
    <2>1. run[i] = AsTable(sstables[start + i])
        BY <1>2, <1>4, <1>5
    <2> QED
        BY <1>6, <2>1 DEF AsTable
<1>8. Merge(Contents, drop_tombstones) = Merge(run, drop_tombstones)
    BY <1>5, <1>6, <1>7, MergeOfSameData
<1> QED
    BY <1>1, <1>8 DEF run, n, fs

LEMMA ReplaceKeeps ==
    ASSUME CompactionInv, pc \in {"merging", "rewriting"}, merge = "merged",
           NEW r, \/ merged = <<>> /\ r = <<>>
                  \/ merged # <<>> /\ \E t : TableReads(t) /\ RecordsOf(t) = merged /\ r = <<t>>,
           Replace(r)
    PROVE  CompactionInv'
<1>1. /\ sstables' = Splice(sstables, start, end - start, r)
      /\ StartScan(sstables') /\ MergeIdle /\ contents' = contents
    BY DEF Replace
<1>2. /\ PickInv /\ MergeInv /\ VectorOK(sstables) /\ contents \in Store
      /\ contents = View(Files(sstables)) /\ AtWork
    BY DEF CompactionInv
<1>3. /\ start \in Nat /\ end - start \in Nat /\ start + (end - start) <= Len(sstables)
    BY <1>2, RunInVector DEF AtWork
<1>4. /\ merged \in Seq(TableRecord) /\ Sorted(merged)
      /\ ContentOf(merged)
            = Merge(SubSeq(Files(sstables), start + 1, start + (end - start)), drop_tombstones)
    BY <1>2, MergedIsMerge
<1>5. drop_tombstones \in BOOLEAN /\ (drop_tombstones => start = 0)
    BY <1>2 DEF AtWork
<1> DEFINE c == end - start
           new == Splice(sstables, start, c, r)
<1>6. VectorOK(new) /\ View(Files(new)) = View(Files(sstables))
    <2>1. /\ c \in Nat /\ start + c <= Len(sstables)
          /\ ContentOf(merged) = Merge(SubSeq(Files(sstables), start + 1, start + c), drop_tombstones)
        BY <1>3, <1>4
    <2> HIDE DEF c
    <2> QED
        BY <1>2, <1>3, <1>4, <1>5, <2>1, CompactionKeepsView
<1> HIDE DEF c
<1>7. sstables' = new
    BY <1>1 DEF c
<1> HIDE DEF new
<1>8. VectorOK(sstables') /\ contents' = View(Files(sstables')) /\ contents' \in Store
    BY <1>1, <1>2, <1>6, <1>7
<1>9. PickInv' /\ Len(sizes') = Len(sstables') /\ pc' = "picking"
    BY <1>1, <1>8, StartScanOK
<1>10. MergeInv'
    <2>1. AtRest'
        BY <1>1 DEF MergeIdle, AtRest
    <2> QED
        BY <2>1, NothingMerged, PTL
<1> QED
    BY <1>8, <1>9, <1>10 DEF CompactionInv

LEMMA ReplaceByNothingKeeps ==
    ASSUME CompactionInv, ReplaceByNothing
    PROVE  CompactionInv'
BY ReplaceKeeps DEF ReplaceByNothing

LEMMA FinishRewriteKeeps ==
    ASSUME CompactionInv, FinishRewrite
    PROVE  CompactionInv'
<1> DEFINE t == Written(writer)
<1>1. pc = "rewriting" /\ AllLaid(writer) /\ Replace(<<t>>)
    BY DEF FinishRewrite
<1>2. /\ MergeInv /\ merge = "merged" /\ merged # <<>> /\ Writing(writer, merged)
    BY <1>1 DEF CompactionInv
<1>3. merged \in Seq(TableRecord) /\ Sorted(merged)
    BY <1>2, MergeInvImplies DEF MergesToNewest, MergeInv, MergeTypeOK
<1>4. TableReads(t) /\ RecordsOf(t) = merged
    BY <1>1, <1>2, <1>3, WritingEnds
<1> HIDE DEF t
<1> QED
    BY <1>1, <1>2, <1>4, ReplaceKeeps

LEMMA GiveUpKeeps ==
    ASSUME CompactionInv, GiveUp
    PROVE  CompactionInv'
<1>1. /\ pc \in {"merging", "rewriting"} /\ pc' = "over" /\ MergeIdle
      /\ sstables' = sstables /\ contents' = contents /\ UNCHANGED pickVars
    BY DEF GiveUp
<1>2. /\ PickInv /\ VectorOK(sstables) /\ contents \in Store
      /\ contents = View(Files(sstables))
    BY <1>1 DEF CompactionInv
<1>3. PickInv'
    BY <1>1, <1>2, PickStays
<1>4. MergeInv'
    <2>1. AtRest'
        BY <1>1 DEF MergeIdle, AtRest
    <2> QED
        BY <2>1, NothingMerged, PTL
<1> QED
    BY <1>1, <1>2, <1>3, <1>4 DEF CompactionInv

LEMMA CompactionStutters ==
    ASSUME CompactionInv, UNCHANGED vars
    PROVE  CompactionInv'
<1>1. /\ sstables' = sstables /\ writer' = writer /\ pc' = pc /\ contents' = contents
      /\ UNCHANGED pickVars /\ UNCHANGED mergeVars
    BY DEF vars
<1>2. PickInv' /\ MergeInv'
    BY <1>1, PickStays, MergeStays DEF CompactionInv
<1>3. AtWork => AtWork'
    BY <1>1 DEF AtWork, pickVars, mergeVars
<1>4. Flushing => Flushing'
    BY <1>1 DEF Flushing
<1>5. merge' = merge /\ merged' = merged /\ sizes' = sizes
    BY <1>1 DEF pickVars, mergeVars
<1> QED
    BY <1>1, <1>2, <1>3, <1>4, <1>5 DEF CompactionInv

LEMMA CompactionInvNext == CompactionInv /\ [Next]_vars => CompactionInv'
<1> SUFFICES ASSUME CompactionInv, [Next]_vars PROVE CompactionInv'
    OBVIOUS
<1>1. CASE Flush
    BY <1>1, StartFlushKeeps, FinishFlushKeeps DEF Flush
<1>2. CASE Write
    BY <1>2, WriteNextKeeps
<1>3. CASE StartPass
    BY <1>3, StartPassKeeps
<1>4. CASE Pass
    BY <1>4, ScanKeeps, NothingToMergeKeeps, StartMergeKeeps, MergeStepKeeps, StartRewriteKeeps,
       ReplaceByNothingKeeps, FinishRewriteKeeps, GiveUpKeeps DEF Pass
<1>5. CASE UNCHANGED vars
    BY <1>5, CompactionStutters
<1> QED
    BY <1>1, <1>2, <1>3, <1>4, <1>5 DEF Next

-----------------------------------------------------------------------------
(* What follows for the properties of Compaction.                          *)

LEMMA CompactionInvImplies ==
    CompactionInv => /\ GetsUnchanged /\ ReopenAgrees
                     /\ PickedComparable /\ BacklogBounded /\ MergesToNewest
<1> SUFFICES ASSUME CompactionInv
             PROVE  /\ GetsUnchanged /\ ReopenAgrees
                    /\ PickedComparable /\ BacklogBounded /\ MergesToNewest
    OBVIOUS
<1>1. PickInv /\ MergeInv /\ VectorOK(sstables)
    BY DEF CompactionInv
<1>2. PickedComparable /\ BacklogBounded /\ MergesToNewest
    BY <1>1, PickInvImplies, MergeInvImplies DEF PickInv
<1>3. ReopenAgrees
    BY <1>1 DEF ReopenAgrees, VectorOK, TableReads
<1>4. GetsUnchanged
    <2> SUFFICES ASSUME pc # "flushing", NEW k \in Key
                 PROVE  SetGet(sstables, k) = contents[k]
        BY DEF GetsUnchanged
    <2>1. contents = View(Files(sstables))
        BY DEF CompactionInv
    <2>2. SetGet(sstables, k) = View(Files(sstables))[k]
        BY <1>1, SetGetIsView
    <2> QED
        BY <2>1, <2>2
<1> QED
    BY <1>2, <1>3, <1>4

\* Whatever is flushed, of whatever sizes, and whichever runs are compacted: a
\* search through the filters, indexes and blocks of the files finds for every
\* key what the flushed memtables add up to, at every point of the pass.
THEOREM GetsNeverChange == Spec => []GetsUnchanged
<1>1. CompactionInv => GetsUnchanged
    BY CompactionInvImplies
<1> QED
    BY <1>1, CompactionInvInit, CompactionInvNext, PTL DEF Spec

\* Every table of the vector is found again by open in its file: the offsets of
\* the trailer, the index, the filter and the key range are the writer's.
THEOREM EveryTableReopens == Spec => []ReopenAgrees
<1>1. CompactionInv => ReopenAgrees
    BY CompactionInvImplies
<1> QED
    BY <1>1, CompactionInvInit, CompactionInvNext, PTL DEF Spec

\* In a pass over real files the merge is given sorted runs, and what it writes
\* is the merge of their contents.
THEOREM PassMergesToNewest == Spec => []MergesToNewest
<1>1. CompactionInv => MergesToNewest
    BY CompactionInvImplies
<1> QED
    BY <1>1, CompactionInvInit, CompactionInvNext, PTL DEF Spec

\* In a pass every run that is compacted lies within the vector it was picked
\* from, is long enough for compact's assertion and is of comparable files.
THEOREM PassPicksComparable == Spec => []PickedComparable
<1>1. CompactionInv => PickedComparable
    BY CompactionInvImplies
<1> QED
    BY <1>1, CompactionInvInit, CompactionInvNext, PTL DEF Spec

\* When a pass is over, or between its compactions, no longer stretch of
\* comparable files has been passed over.
THEOREM PassBoundsBacklog == Spec => []BacklogBounded
<1>1. CompactionInv => BacklogBounded
    BY CompactionInvImplies
<1> QED
    BY <1>1, CompactionInvInit, CompactionInvNext, PTL DEF Spec
=============================================================================
