-------------------------- MODULE SSTableSetProofs --------------------------
(***************************************************************************)
(* Theorems about SSTableSet, for every set of keys, values, memtables and *)
(* readers, every threshold and bound, and every combination of faults.    *)
(***************************************************************************)
EXTENDS SSTableSet, LayersProofs

-----------------------------------------------------------------------------
(* Type correctness.                                                       *)

\* A directory holds finitely many files: what open needs to list it.
DirsFinite == \A d \in crash_dirs : IsFiniteSet(d)

\* Between processes no thread is at work.
DownIsIdle == phase = "down" => compactor = "idle" /\ writer = "idle"

\* A search has the answer when it is over; before that, the tables newer than
\* the next one to ask have no record of the key.
SearchOK(x) ==
    /\ x.pc = "probing" =>
        /\ x.key \in Key
        /\ x.left <= Len(x.snap)
        /\ x.expected = View(x.snap)[x.key]
        /\ \A j \in 1..Len(x.snap) : j > x.left => x.snap[j].data[x.key] = None
    /\ x.pc = "done" => x.result = x.expected

SearchInv == \A r \in Reader : SearchOK(reader[r])

\* TypeOK is not inductive alone: the tables compact and get read have a type
\* only because the run lies within the vector and the search within its
\* snapshot.
TypeInv == TypeOK /\ DirsFinite /\ DownIsIdle /\ RunIntact /\ SearchInv

LEMMA FlushedType ==
    ASSUME next_seq \in Nat, NEW m \in Data
    PROVE  Flushed(m) \in Table
BY DEF Flushed, Table

LEMMA MergedType ==
    ASSUME run \in Seq(Table)
    PROVE  Merged \in Data
BY MergeType DEF Merged

\* What compact captured is a run of tables, and their merge makes a table.
LEMMA RunType ==
    ASSUME TypeInv, compactor \in {"merging", "renamed", "merged"}
    PROVE  /\ run \in Seq(Table) /\ Len(run) = count
           /\ Compacted \in Table
           /\ Replacement \in Seq(Table)
<1>1. /\ start \in Nat /\ count \in Nat /\ count >= 2 /\ start + count <= Len(sstables)
      /\ sstables \in Seq(Table) /\ run \in Seq(Table)
      /\ run = SubSeq(sstables, start + 1, start + count)
    BY DEF TypeInv, TypeOK, RunIntact
<1>2. Len(run) = count
    <2>1. Len(sstables) \in Nat /\ \A i \in start + 1..start + count : sstables[i] \in Table
        BY <1>1, LenProperties, ElementOfSeq
    <2> QED
        BY <1>1, <2>1, SubSeqProperties
<1>3. run[1] \in Table /\ run[count] \in Table
    BY <1>1, <1>2, ElementOfSeq
<1>4. Compacted \in Table
    BY <1>1, <1>3, MergedType DEF Compacted, Table
<1> QED
    BY <1>1, <1>2, <1>4 DEF Replacement

\* Renaming a table in, or unlinking one, keeps the directory well typed.
LEMMA ChangeDirType ==
    ASSUME TypeInv, NEW t \in Table, ChangeDir(DirWith(t)) \/ ChangeDir(DirWithout(t))
    PROVE  /\ crash_dirs' \subseteq SUBSET Table /\ dir' \in crash_dirs'
           /\ DirsFinite'
<1>1. dir \subseteq Table /\ IsFiniteSet(dir)
    BY DEF TypeInv, TypeOK, DirsFinite
<1>2. DirWithout(t) \subseteq Table /\ IsFiniteSet(DirWithout(t))
    BY <1>1, FS_Subset DEF DirWithout
<1>3. DirWith(t) \subseteq Table /\ IsFiniteSet(DirWith(t))
    BY <1>2, FS_AddElement DEF DirWith
<1>4. PICK d : d \subseteq Table /\ IsFiniteSet(d) /\ ChangeDir(d)
    BY <1>2, <1>3
<1> QED
    BY <1>4 DEF ChangeDir, TypeInv, TypeOK, DirsFinite

LEMMA FsyncDirType ==
    ASSUME TypeInv, FsyncDir
    PROVE  /\ crash_dirs' \subseteq SUBSET Table /\ dir' \in crash_dirs'
           /\ DirsFinite'
BY DEF FsyncDir, TypeInv, TypeOK, DirsFinite

LEMMA ReaderIdleType == ReaderIdle \in ReaderStates /\ SearchOK(ReaderIdle)
BY DEF ReaderIdle, ReaderStates, SearchOK

\* A thread in get that moves to a good state leaves the others where they were.
LEMMA ReaderMoves ==
    ASSUME reader \in [Reader -> ReaderStates], SearchInv,
           NEW r \in Reader, NEW x \in ReaderStates, SearchOK(x),
           reader' = [reader EXCEPT ![r] = x]
    PROVE  reader' \in [Reader -> ReaderStates] /\ SearchInv'
<1>1. reader' \in [Reader -> ReaderStates]
    OBVIOUS
<1>2. ASSUME NEW q \in Reader PROVE SearchOK(reader'[q])
    BY DEF SearchInv
<1> QED
    BY <1>1, <1>2 DEF SearchInv

LEMMA TypeInvInit == Init => TypeInv
<1> SUFFICES ASSUME Init PROVE TypeInv
    OBVIOUS
<1>1. IsFiniteSet({})
    BY FS_EmptySet
<1>2. <<>> \in Seq(Table)
    OBVIOUS
<1> QED
    BY <1>1, <1>2, EmptyType, ReaderIdleType
    DEF Init, TypeInv, TypeOK, DirsFinite, DownIsIdle, RunIntact, SearchInv

\* Appending to the vector leaves a run within it where it was.
LEMMA AppendKeepsRun ==
    ASSUME NEW ts \in Seq(Table), NEW t \in Table, NEW s \in Nat, NEW c \in Nat, c >= 2,
           s + c <= Len(ts)
    PROVE  /\ s + c <= Len(Append(ts, t))
           /\ SubSeq(Append(ts, t), s + 1, s + c) = SubSeq(ts, s + 1, s + c)
<1>1. Len(ts) \in Nat /\ Len(Append(ts, t)) = Len(ts) + 1
    BY LenProperties, AppendProperties
<1>2. s + 1 \in 1..Len(ts) /\ s + c \in 1..Len(ts)
    BY <1>1
<1>3. <<t>> \in Seq(Table) /\ Append(ts, t) = ts \o <<t>>
    BY AppendIsConcat
<1>4. SubSeq(ts \o <<t>>, s + 1, s + c) = SubSeq(ts, s + 1, s + c)
    BY <1>2, <1>3, SubSeqOfConcat1
<1> QED
    BY <1>1, <1>3, <1>4

LEMMA TypeInvNext == TypeInv /\ [Next]_vars => TypeInv'
<1> SUFFICES ASSUME TypeInv, [Next]_vars PROVE TypeInv'
    OBVIOUS
<1> USE DEF TypeInv, writerVars, compactorVars, dirVars
<1>0. <<>> \in Seq(Table)
    OBVIOUS
<1>1. ASSUME NEW m \in Memtable, PublishFlush(m) PROVE TypeInv'
    <2>1. m \in Data
        BY SSTableSetAssumption
    <2>2. Flushed(m) \in Table
        BY <2>1, FlushedType DEF TypeOK
    <2>3. crash_dirs' \subseteq SUBSET Table /\ dir' \in crash_dirs' /\ DirsFinite'
        BY <1>1, <2>2, ChangeDirType DEF PublishFlush
    <2> QED
        BY <1>1, <2>1, <2>3 DEF PublishFlush, TypeOK, DownIsIdle, RunIntact, SearchInv
<1>2. CASE SyncFlush
    BY <1>2, FsyncDirType DEF SyncFlush, TypeOK, DownIsIdle, RunIntact, SearchInv
<1>3. CASE InstallFlush
    <2>1. Flushed(batch) \in Table
        BY FlushedType DEF TypeOK
    <2>2. sstables' \in Seq(Table)
        BY <1>3, <2>1, AppendProperties DEF InstallFlush, TypeOK
    <2>3. RunIntact'
        BY <1>3, <2>1, AppendKeepsRun DEF InstallFlush, TypeOK, RunIntact
    <2> QED
        BY <1>3, <2>2, <2>3, EmptyType DEF InstallFlush, TypeOK, DirsFinite, DownIsIdle, SearchInv
<1>4. CASE FlushFails
    BY <1>4, EmptyType DEF FlushFails, TypeOK, DirsFinite, DownIsIdle, RunIntact, SearchInv
<1>5. CASE PickRun
    <2>1. /\ start' \in Nat /\ count' \in Nat /\ count' >= 2
          /\ start' + count' <= Len(sstables)
        BY <1>5, LenProperties, SSTableSetAssumption DEF PickRun, TypeOK
    <2> QED
        BY <1>5, <2>1 DEF PickRun, TypeOK, DirsFinite, DownIsIdle, RunIntact, SearchInv
<1>6. CASE CaptureRun
    <2>1. run' \in Seq(Table)
        BY <1>6, SpliceParts, <1>0 DEF CaptureRun, TypeOK, RunIntact
    <2> QED
        BY <1>6, <2>1 DEF CaptureRun, TypeOK, DirsFinite, DownIsIdle, RunIntact, SearchInv
<1>7. CASE SkipReplacement
    BY <1>7 DEF SkipReplacement, TypeOK, DirsFinite, DownIsIdle, RunIntact, SearchInv
<1>8. CASE PublishMerge
    <2>1. Compacted \in Table
        BY <1>8, RunType DEF PublishMerge
    <2>2. crash_dirs' \subseteq SUBSET Table /\ dir' \in crash_dirs' /\ DirsFinite'
        BY <1>8, <2>1, ChangeDirType DEF PublishMerge
    <2> QED
        BY <1>8, <2>2 DEF PublishMerge, TypeOK, DownIsIdle, RunIntact, SearchInv
<1>9. CASE SyncMerge
    BY <1>9, FsyncDirType DEF SyncMerge, TypeOK, DownIsIdle, RunIntact, SearchInv
<1>10. CASE SwapRun
    <2>1. Replacement \in Seq(Table)
        BY <1>10, RunType DEF SwapRun
    <2>2. sstables' \in Seq(Table) /\ obsolete' \in Seq(Table)
        BY <1>10, <2>1, SpliceParts DEF SwapRun, TypeOK, RunIntact
    <2> QED
        BY <1>10, <2>2 DEF SwapRun, TypeOK, DirsFinite, DownIsIdle, RunIntact, SearchInv
<1>11. CASE RemoveObsolete
    <2>1. Head(obsolete) \in Table /\ Tail(obsolete) \in Seq(Table)
        BY <1>11, HeadTailProperties DEF RemoveObsolete, TypeOK
    <2>2. crash_dirs' \subseteq SUBSET Table /\ dir' \in crash_dirs' /\ DirsFinite'
        BY <1>11, <2>1, ChangeDirType DEF RemoveObsolete
    <2> QED
        BY <1>11, <2>1, <2>2 DEF RemoveObsolete, TypeOK, DownIsIdle, RunIntact, SearchInv
<1>12. ASSUME CompactorIdle, UNCHANGED <<phase, dirVars, sstables, writerVars, reader, crashes>>
       PROVE  TypeInv'
    BY <1>0, <1>12 DEF CompactorIdle, TypeOK, DirsFinite, DownIsIdle, RunIntact, SearchInv
<1>13. CASE CompactDone
    BY <1>12, <1>13 DEF CompactDone
<1>14. CASE CompactFails
    BY <1>12, <1>14 DEF CompactFails
<1>15. ASSUME NEW r \in Reader, NEW x \in ReaderStates, SearchOK(x),
              reader' = [reader EXCEPT ![r] = x],
              UNCHANGED <<phase, dirVars, sstables, writerVars, compactorVars, crashes>>
       PROVE  TypeInv'
    <2>1. reader' \in [Reader -> ReaderStates] /\ SearchInv'
        BY <1>15, ReaderMoves DEF TypeOK
    <2> QED
        BY <1>15, <2>1 DEF TypeOK, DirsFinite, DownIsIdle, RunIntact
<1>16. ASSUME NEW r \in Reader, NEW k \in Key, GetSnapshot(r, k) PROVE TypeInv'
    <2> DEFINE x == [pc |-> "probing", key |-> k, snap |-> sstables, left |-> Len(sstables),
                     expected |-> View(sstables)[k], result |-> None]
    <2>1. View(sstables)[k] \in Value \cup {None} /\ Len(sstables) \in Nat
        BY ViewType, LenProperties DEF TypeOK, Store
    <2>2. x \in ReaderStates
        BY <2>1 DEF TypeOK, ReaderStates
    <2>3. SearchOK(x)
        BY <2>1 DEF SearchOK
    <2> QED
        BY <1>15, <1>16, <2>2, <2>3 DEF GetSnapshot
<1>17. ASSUME NEW r \in Reader, ProbeMiss(r) PROVE TypeInv'
    <2> DEFINE q == reader[r]
               x == [q EXCEPT !.left = q.left - 1]
    <2>1. q \in ReaderStates /\ SearchOK(q) /\ q.pc = "probing" /\ q.left > 0
        BY <1>17 DEF ProbeMiss, TypeOK, SearchInv
    <2>2. q.snap[q.left].data[q.key] = None
        BY <1>17 DEF ProbeMiss, Probed
    <2>3. reader' = [reader EXCEPT ![r] = x]
        BY <1>17 DEF ProbeMiss
    <2> HIDE DEF q
    <2>4. x \in ReaderStates
        BY <2>1 DEF ReaderStates
    <2>5. SearchOK(x)
        BY <2>1, <2>2, LenProperties DEF SearchOK, ReaderStates
    <2> QED
        BY <1>15, <1>17, <2>3, <2>4, <2>5 DEF ProbeMiss
<1>18. ASSUME NEW r \in Reader, ProbeHit(r) PROVE TypeInv'
    <2> DEFINE q == reader[r]
               e == q.snap[q.left].data[q.key]
               x == [q EXCEPT !.pc = "done", !.result = Visible(e)]
    <2>1. q \in ReaderStates /\ SearchOK(q) /\ q.pc = "probing" /\ q.left > 0 /\ e # None
        BY <1>18 DEF ProbeHit, Probed, TypeOK, SearchInv
    <2>2. reader' = [reader EXCEPT ![r] = x]
        BY <1>18 DEF ProbeHit, Probed
    <2> HIDE DEF q
    <2>3. q.key \in Key /\ q.snap \in Seq(Table) /\ q.left \in 1..Len(q.snap)
        BY <2>1, LenProperties DEF ReaderStates, SearchOK
    <2>4. q.snap[q.left] \in Table
        BY <2>3, ElementOfSeq
    <2>5. e \in Entry
        BY <2>3, <2>4 DEF Table, Data
    <2>6. x \in ReaderStates
        BY <2>1, <2>5, VisibleType DEF ReaderStates
    <2>7. Record(q.snap, q.key) = e
        BY <2>1, <2>3, RecordIsLastHit DEF SearchOK
    <2>8. q.expected = Visible(e)
        BY <2>1, <2>3, <2>7 DEF SearchOK, View
    <2>9. x.pc = "done" /\ x.result = Visible(e) /\ x.expected = q.expected
        BY <2>1 DEF ReaderStates
    <2>10. SearchOK(x)
        BY <2>8, <2>9 DEF SearchOK
    <2> QED
        BY <1>15, <1>18, <2>2, <2>6, <2>10 DEF ProbeHit
<1>19. ASSUME NEW r \in Reader, ProbeNothingLeft(r) PROVE TypeInv'
    <2> DEFINE q == reader[r]
               x == [q EXCEPT !.pc = "done", !.result = None]
    <2>1. q \in ReaderStates /\ SearchOK(q) /\ q.pc = "probing" /\ q.left = 0
        BY <1>19 DEF ProbeNothingLeft, TypeOK, SearchInv
    <2>2. reader' = [reader EXCEPT ![r] = x]
        BY <1>19 DEF ProbeNothingLeft
    <2> HIDE DEF q
    <2>3. /\ q.key \in Key /\ q.snap \in Seq(Table)
          /\ \A j \in 1..Len(q.snap) : q.snap[j].data[q.key] = None
        BY <2>1, LenProperties DEF ReaderStates, SearchOK
    <2>4. Record(q.snap, q.key) = None
        BY <2>3, NoHitNoRecord
    <2>5. q.expected = None
        BY <2>1, <2>3, <2>4 DEF SearchOK, View, Visible
    <2>6. x \in ReaderStates /\ x.pc = "done" /\ x.result = None /\ x.expected = q.expected
        BY <2>1 DEF ReaderStates
    <2>7. SearchOK(x)
        BY <2>5, <2>6 DEF SearchOK
    <2> QED
        BY <1>15, <1>19, <2>2, <2>6, <2>7 DEF ProbeNothingLeft
<1>20. ASSUME NEW r \in Reader, Return(r) PROVE TypeInv'
    BY <1>15, <1>20, ReaderIdleType DEF Return
<1>21. ASSUME MemoryLost, crashes' \in Nat,
              crash_dirs' \subseteq SUBSET Table /\ dir' \in crash_dirs' /\ DirsFinite'
       PROVE  TypeInv'
    <2>1. reader' \in [Reader -> ReaderStates] /\ SearchInv'
        BY <1>21, ReaderIdleType DEF MemoryLost, SearchInv
    <2> QED
        BY <1>0, <1>21, <2>1, EmptyType
        DEF MemoryLost, CompactorIdle, TypeOK, DownIsIdle, RunIntact
<1>22. CASE PowerLoss
    <2>1. /\ crash_dirs' \subseteq SUBSET Table /\ dir' \in crash_dirs' /\ DirsFinite'
          /\ crashes' \in Nat /\ MemoryLost
        BY <1>22 DEF PowerLoss, TypeOK, DirsFinite
    <2> QED
        BY <1>21, <2>1
<1>23. CASE CleanLeftover
    <2>1. PICK t \in Superseded(dir) : ChangeDir(DirWithout(t))
        BY <1>23 DEF CleanLeftover
    <2>2. t \in Table
        BY DEF Superseded, TypeOK
    <2>3. crash_dirs' \subseteq SUBSET Table /\ dir' \in crash_dirs' /\ DirsFinite'
        BY <2>1, <2>2, ChangeDirType
    <2> QED
        BY <1>23, <2>3 DEF CleanLeftover, TypeOK, DownIsIdle, RunIntact, SearchInv
<1>24. CASE OpenSet
    <2>1. Cardinality(dir) \in Nat /\ dir \subseteq Table
        BY FS_CardinalityType DEF TypeOK, DirsFinite
    <2>2. sstables' \in Seq(Table)
        BY <1>24, <2>1 DEF OpenSet, Listings
    <2>3. next_seq' \in Nat
        BY <1>24, <2>1 DEF OpenSet, NextSeq, Table
    <2> QED
        BY <1>24, <2>2, <2>3 DEF OpenSet, TypeOK, DirsFinite, DownIsIdle, RunIntact, SearchInv
<1>25. CASE ProcessDies
    <2>1. /\ crash_dirs' \subseteq SUBSET Table /\ dir' \in crash_dirs' /\ DirsFinite'
          /\ crashes' \in Nat /\ MemoryLost
        BY <1>25 DEF ProcessDies, TypeOK, DirsFinite
    <2> QED
        BY <1>21, <2>1
<1>26. CASE UNCHANGED vars
    BY <1>26 DEF vars, TypeOK, DirsFinite, DownIsIdle, RunIntact, SearchInv
<1> QED
    BY <1>1, <1>2, <1>3, <1>4, <1>5, <1>6, <1>7, <1>8, <1>9, <1>10, <1>11, <1>13, <1>14,
       <1>16, <1>17, <1>18, <1>19, <1>20, <1>22, <1>23, <1>24, <1>25, <1>26
    DEF Next, Flush, Compact, Get, Recover

\* Every reachable state is well typed.
THEOREM TypeCorrect == Spec => []TypeOK
<1>1. TypeInv => TypeOK
    BY DEF TypeInv
<1> QED
    BY <1>1, TypeInvInit, TypeInvNext, PTL DEF Spec

\* In every reachable state the indices picked by pick_run still name the run
\* that compact captured, and compact's two assertions hold.
THEOREM RunStaysIntact == Spec => []RunIntact
<1>1. TypeInv => RunIntact
    BY DEF TypeInv
<1> QED
    BY <1>1, TypeInvInit, TypeInvNext, PTL DEF Spec

\* Every get answers from the vector as it was when the get took its snapshot,
\* for any number of readers, tables and concurrent flushes and compactions.
THEOREM ReadsAtomic == Spec => []ReadsAreAtomic
<1>1. TypeInv => ReadsAreAtomic
    BY DEF TypeInv, SearchInv, SearchOK, ReadsAreAtomic
<1> QED
    BY <1>1, TypeInvInit, TypeInvNext, PTL DEF Spec

-----------------------------------------------------------------------------
(* Compaction.                                                             *)

LEMMA SwapKeepsView == TypeInv /\ SwapRun => View(sstables)' = View(sstables)
<1> SUFFICES ASSUME TypeInv, SwapRun PROVE View(sstables') = View(sstables)
    OBVIOUS
<1>1. /\ sstables \in Seq(Table) /\ start \in Nat /\ count \in Nat
      /\ start + count <= Len(sstables)
      /\ run = SubSeq(sstables, start + 1, start + count)
    BY DEF SwapRun, TypeInv, TypeOK, RunIntact
<1>2. Compacted \in Table
    BY RunType DEF SwapRun
<1>3. Compacted.data = Merge(SubSeq(sstables, start + 1, start + count), start = 0)
    BY <1>1 DEF Compacted, Merged
<1>4. Replacement = IF Compacted.data = Empty THEN <<>> ELSE <<Compacted>>
    BY DEF Replacement, Compacted
<1> HIDE DEF Compacted
<1>5. View(Splice(sstables, start, count, Replacement)) = View(sstables)
    BY <1>1, <1>2, <1>3, <1>4, MergePreservesView
<1> QED
    BY <1>5 DEF SwapRun

\* Compaction shows no reader a difference: as long as the database is open,
\* installing a flush is the only step that changes what the vector answers.
THEOREM CompactionShowsNothing == Spec => CompactionInvisible
<1> DEFINE A == phase = "up" /\ phase' = "up" /\ View(sstables)' # View(sstables) => InstallFlush
<1>1. TypeInv /\ [Next]_vars => [A]_vars
    <2> SUFFICES ASSUME TypeInv, Next, phase = "up", phase' = "up", ~InstallFlush
                 PROVE  View(sstables)' = View(sstables)
        OBVIOUS
    <2>1. CASE SwapRun
        BY <2>1, SwapKeepsView
    <2>2. CASE ~SwapRun
        <3>1. UNCHANGED sstables
            BY <2>2
            DEF Next, Flush, Compact, Get, Recover, PublishFlush, SyncFlush, FlushFails, PickRun,
                CaptureRun, SkipReplacement, PublishMerge, SyncMerge, RemoveObsolete, CompactDone,
                CompactFails, GetSnapshot, ProbeMiss, ProbeHit, ProbeNothingLeft, Return,
                PowerLoss, ProcessDies, MemoryLost,
                CleanLeftover, OpenSet
        <3> QED
            BY <3>1
    <2> QED
        BY <2>1, <2>2
<1> QED
    BY <1>1, TypeInvInit, TypeInvNext, PTL DEF Spec, CompactionInvisible

-----------------------------------------------------------------------------
(* The vector stays in age order: its positions, by which get and merge     *)
(* tell newer from older, and the names, by which open does, agree.         *)

\* A span beside a set of tables: it overlaps none of them or lies within one.
Beside(t, S) == (\A u \in S : Apart(t, u)) \/ (\E u \in S : Covers(u, t))

\* The merged table is in the directory and not yet in the vector.
Publishing == compactor \in {"renamed", "merged"} /\ Replacement # <<>>

DirsNested == \A d \in crash_dirs : Spans(d) /\ Nested(d)

\* Only a flush in progress, or one that failed, may use the next number.
Numbered ==
    phase = "up" =>
        \A t \in dir : t.last < next_seq \/ (t.first = next_seq /\ t.last = next_seq)

\* No file straddles the border of a table readers are served from.
Placed ==
    phase = "up" =>
        \A t \in dir : Beside(t, TablesOf(sstables)) \/ (Publishing /\ SameName(t, Compacted))

\* SpansOrdered is not inductive alone: what open makes of the directory is in
\* age order only if the spans in every directory are nested.
OrderInv == TypeInv /\ SpansOrdered /\ DirsNested /\ Numbered /\ Placed

LEMMA OrderedVector ==
    ASSUME TypeOK
    PROVE  SpansOrdered <=> /\ Ordered(sstables)
                            /\ \A u \in TablesOf(sstables) : u.last < next_seq
BY DEF TypeOK, SpansOrdered, Ordered, TablesOf

LEMMA SubsetNested ==
    ASSUME NEW d, Spans(d), Nested(d), NEW e \in SUBSET d
    PROVE  Spans(e) /\ Nested(e)
BY DEF Spans, Nested

\* The span of a merged table is that of its run.
LEMMA RunSpan ==
    ASSUME NEW ts \in Seq(Table), Ordered(ts), NEW s \in Nat, NEW c \in Nat, c >= 1,
           s + c <= Len(ts), NEW u \in Table,
           u.first = ts[s + 1].first, u.last = ts[s + c].last
    PROVE  /\ u.first <= u.last
           /\ \A i \in DOMAIN ts : s + 1 <= i /\ i <= s + c => Covers(u, ts[i])
<1>1. /\ DOMAIN ts = 1..Len(ts) /\ Len(ts) \in Nat
      /\ s + 1 \in DOMAIN ts /\ s + c \in DOMAIN ts
    BY VectorType
<1>2. ASSUME NEW i \in DOMAIN ts, s + 1 <= i, i <= s + c
      PROVE  Covers(u, ts[i]) /\ u.first <= u.last
    <2>1. /\ i \in Nat /\ ts[i].first <= ts[i].last
          /\ ts[i].first \in Nat /\ ts[i].last \in Nat
          /\ ts[s + 1].first \in Nat /\ ts[s + 1].last \in Nat
          /\ ts[s + c].first \in Nat /\ ts[s + c].last \in Nat
          /\ ts[s + 1].first <= ts[s + 1].last /\ ts[s + c].first <= ts[s + c].last
          /\ s + 1 < i => ts[s + 1].last < ts[i].first
          /\ i < s + c => ts[i].last < ts[s + c].first
        BY <1>1, VectorType DEF Ordered
    <2>2. ts[s + 1].first <= ts[i].first
        <3>1. CASE i = s + 1
            BY <2>1, <3>1
        <3>2. CASE s + 1 < i
            BY <2>1, <3>2
        <3> QED
            BY <1>2, <2>1, <3>1, <3>2
    <2>3. ts[i].last <= ts[s + c].last
        <3>1. CASE i = s + c
            BY <2>1, <3>1
        <3>2. CASE i < s + c
            BY <2>1, <3>2
        <3> QED
            BY <1>2, <2>1, <3>1, <3>2
    <2> QED
        BY <2>1, <2>2, <2>3 DEF Covers
<1>3. u.first <= u.last
    BY <1>1, <1>2
<1> QED
    BY <1>2, <1>3

\* A file beside the vector does not straddle the border of a run of it.
LEMMA BesideRun ==
    ASSUME NEW ts \in Seq(Table), Ordered(ts), NEW s \in Nat, NEW c \in Nat, c >= 1,
           s + c <= Len(ts), NEW u \in Table,
           u.first = ts[s + 1].first, u.last = ts[s + c].last,
           NEW t \in Table, t.first <= t.last, Beside(t, TablesOf(ts))
    PROVE  Apart(t, u) \/ Covers(u, t)
<1>1. /\ DOMAIN ts = 1..Len(ts) /\ Len(ts) \in Nat
      /\ s + 1 \in DOMAIN ts /\ s + c \in DOMAIN ts
    BY VectorType
<1>2. /\ t.first \in Nat /\ t.last \in Nat /\ u.first \in Nat /\ u.last \in Nat
      /\ \A i \in DOMAIN ts : ts[i].first \in Nat /\ ts[i].last \in Nat
    BY VectorType DEF Table
<1>3. u.first <= u.last /\ \A i \in DOMAIN ts : s + 1 <= i /\ i <= s + c => Covers(u, ts[i])
    BY RunSpan
<1>4. CASE \A v \in TablesOf(ts) : Apart(t, v)
    <2>1. Apart(t, ts[s + 1]) /\ Apart(t, ts[s + c])
        BY <1>1, <1>4 DEF TablesOf
    <2>2. Covers(u, ts[s + 1]) /\ Covers(u, ts[s + c])
        BY <1>1, <1>3
    <2>3. ts[s + 1].first <= ts[s + 1].last /\ ts[s + c].first <= ts[s + c].last
        BY <1>1 DEF Ordered
    <2> QED
        BY <1>1, <1>2, <2>1, <2>2, <2>3 DEF Apart, Covers
<1>5. ASSUME NEW i \in DOMAIN ts, Covers(ts[i], t) PROVE Apart(t, u) \/ Covers(u, t)
    <2>1. i \in Nat
        BY <1>1
    <2>2. CASE i < s + 1
        <3>1. ts[i].last < ts[s + 1].first
            BY <1>1, <2>2 DEF Ordered
        <3> QED
            BY <1>1, <1>2, <1>5, <3>1 DEF Apart, Covers
    <2>3. CASE s + c < i
        <3>1. ts[s + c].last < ts[i].first
            BY <1>1, <2>3 DEF Ordered
        <3> QED
            BY <1>1, <1>2, <1>5, <3>1 DEF Apart, Covers
    <2>4. CASE s + 1 <= i /\ i <= s + c
        <3>1. Covers(u, ts[i])
            BY <1>3, <2>4
        <3> QED
            BY <1>1, <1>2, <1>5, <3>1 DEF Covers
    <2> QED
        BY <2>1, <2>2, <2>3, <2>4
<1> QED
    BY <1>4, <1>5 DEF Beside, TablesOf

\* It is still beside the vector when the run has been replaced.
LEMMA SpliceBeside ==
    ASSUME NEW ts \in Seq(Table), Ordered(ts), NEW s \in Nat, NEW c \in Nat, c >= 1,
           s + c <= Len(ts), NEW u \in Table,
           u.first = ts[s + 1].first, u.last = ts[s + c].last,
           NEW t \in Table, t.first <= t.last, Beside(t, TablesOf(ts)),
           NEW r \in Seq(Table), Len(r) <= 1, Len(r) = 1 => r[1] = u
    PROVE  Beside(t, TablesOf(Splice(ts, s, c, r)))
<1> DEFINE Kept == {ts[j] : j \in (1..Len(ts)) \ (s + 1..s + c)}
           New == TablesOf(Splice(ts, s, c, r))
<1>1. DOMAIN ts = 1..Len(ts) /\ Len(ts) \in Nat /\ Len(r) \in Nat /\ DOMAIN r = 1..Len(r)
    BY VectorType, LenProperties
<1>2. TablesOf(Splice(ts, s, c, r))
        = {ts[j] : j \in (1..Len(ts)) \ (s + 1..s + c)} \cup TablesOf(r)
    <2>1. ts \in Seq(Table) /\ s \in Nat /\ c \in Nat /\ s + c <= Len(ts) /\ r \in Seq(Table)
        OBVIOUS
    <2> QED
        BY <2>1, SpliceTables, SMTT(30)
<1>3. Kept \subseteq TablesOf(ts)
    BY <1>1 DEF TablesOf
<1>4. Apart(t, u) \/ Covers(u, t)
    BY BesideRun
<1>5. /\ TablesOf(r) \subseteq {u}
      /\ Len(r) = 1 => TablesOf(r) = {u}
      /\ Len(r) # 1 => TablesOf(r) = {}
    BY <1>1 DEF TablesOf
<1>6. /\ t.first \in Nat /\ t.last \in Nat /\ u.first \in Nat /\ u.last \in Nat
      /\ \A i \in DOMAIN ts : ts[i].first \in Nat /\ ts[i].last \in Nat
    BY VectorType DEF Table
<1> SUFFICES Beside(t, New)
    OBVIOUS
<1> HIDE DEF New, Kept
<1>7. New = Kept \cup TablesOf(r)
    BY <1>2 DEF New, Kept
<1>8. CASE \A v \in TablesOf(ts) : Apart(t, v)
    <2>1. CASE Apart(t, u) \/ Len(r) # 1
        <3>1. \A v \in New : Apart(t, v)
            BY <1>3, <1>5, <1>8, <1>7, <2>1
        <3> QED
            BY <3>1 DEF Beside
    <2>2. CASE Covers(u, t) /\ Len(r) = 1
        <3>1. u \in New
            BY <1>5, <1>7, <2>2
        <3> QED
            BY <2>2, <3>1 DEF Beside
    <2> QED
        BY <1>4, <2>1, <2>2
<1>9. ASSUME NEW i \in DOMAIN ts, Covers(ts[i], t) PROVE Beside(t, New)
    <2>1. CASE i \notin s + 1..s + c
        <3>1. ts[i] \in Kept
            BY <1>1, <2>1 DEF Kept
        <3> QED
            BY <1>7, <1>9, <3>1 DEF Beside
    <2>2. CASE i \in s + 1..s + c
        <3>1. Covers(u, t)
            <4>1. \A m \in DOMAIN ts : s + 1 <= m /\ m <= s + c => Covers(u, ts[m])
                BY RunSpan
            <4>2. Covers(u, ts[i])
                BY <1>1, <2>2, <4>1
            <4> QED
                BY <1>6, <1>9, <4>2 DEF Covers
        <3>2. ASSUME NEW j \in (1..Len(ts)) \ (s + 1..s + c) PROVE Apart(t, ts[j])
            <4>1. j \in DOMAIN ts /\ (i < j \/ j < i)
                BY <1>1, <2>2
            <4>2. ts[i].last < ts[j].first \/ ts[j].last < ts[i].first
                BY <4>1, SpanOrder
            <4> QED
                BY <1>6, <1>9, <4>1, <4>2 DEF Apart, Covers
        <3>3. \A v \in Kept : Apart(t, v)
            BY <3>2 DEF Kept
        <3> QED
            BY <1>7, <1>5, <3>1, <3>3 DEF Beside
    <2> QED
        BY <2>1, <2>2
<1>10. (\A v \in TablesOf(ts) : Apart(t, v)) \/ \E i \in DOMAIN ts : Covers(ts[i], t)
    BY DEF Beside, TablesOf
<1> QED
    BY <1>8, <1>9, <1>10

\* A new file that covers or avoids each of the others.
LEMMA NestedWith ==
    ASSUME NEW d \in SUBSET Table, Spans(d), Nested(d), NEW t \in Table, t.first <= t.last,
           \A x \in d : Apart(x, t) \/ Covers(t, x)
    PROVE  Spans(d \cup {t}) /\ Nested(d \cup {t})
<1>1. Covers(t, t)
    BY DEF Covers, Table
<1>2. \A x \in d : Apart(t, x) \/ Covers(t, x)
    BY DEF Apart
<1> QED
    BY <1>1, <1>2 DEF Spans, Nested

\* What compact is about to write, or has written.
LEMMA RunShape ==
    ASSUME TypeInv, SpansOrdered, compactor \in {"merging", "renamed", "merged"}
    PROVE  /\ sstables \in Seq(Table) /\ Ordered(sstables)
           /\ start \in Nat /\ count \in Nat /\ count >= 1 /\ start + count <= Len(sstables)
           /\ Compacted \in Table /\ Compacted.data = Merged
           /\ Compacted.first = sstables[start + 1].first
           /\ Compacted.last = sstables[start + count].last
           /\ Replacement \in Seq(Table) /\ Len(Replacement) <= 1
           /\ Len(Replacement) = 1 => Replacement[1] = Compacted
           /\ Replacement # <<>> <=> Len(Replacement) = 1
           /\ Replacement # <<>> <=> Merged # Empty
           /\ Compacted.last < next_seq
           /\ run = SubSeq(sstables, start + 1, start + count)
<1>1. /\ start \in Nat /\ count \in Nat /\ count >= 2 /\ start + count <= Len(sstables)
      /\ sstables \in Seq(Table) /\ run = SubSeq(sstables, start + 1, start + count)
      /\ TypeOK
    BY DEF TypeInv, TypeOK, RunIntact
<1>2. run \in Seq(Table) /\ Len(run) = count /\ Compacted \in Table /\ Replacement \in Seq(Table)
    BY RunType
<1>3. run[1] = sstables[start + 1] /\ run[count] = sstables[start + count]
    <2>1. Len(sstables) \in Nat /\ \A i \in start + 1..start + count : sstables[i] \in Table
        BY <1>1, LenProperties, ElementOfSeq
    <2>2. \A i \in 1..(start + count) - (start + 1) + 1 :
              SubSeq(sstables, start + 1, start + count)[i] = sstables[(start + 1) + i - 1]
        BY <1>1, <2>1, SubSeqProperties
    <2>3. (start + count) - (start + 1) + 1 = count
        BY <1>1
    <2>4. 1 \in 1..count /\ count \in 1..count
        BY <1>1
    <2>5. \A i \in 1..count : run[i] = sstables[(start + 1) + i - 1]
        BY <1>1, <2>2, <2>3, Zenon
    <2>6. run[1] = sstables[(start + 1) + 1 - 1] /\ run[count] = sstables[(start + 1) + count - 1]
        BY <2>4, <2>5, Zenon
    <2>7. (start + 1) + 1 - 1 = start + 1 /\ (start + 1) + count - 1 = start + count
        BY <1>1
    <2> QED
        BY <2>6, <2>7
<1>4. /\ Compacted.data = Merged
      /\ Compacted.first = sstables[start + 1].first
      /\ Compacted.last = sstables[start + count].last
    BY <1>3 DEF Compacted
<1>5. /\ Len(Replacement) <= 1
      /\ Len(Replacement) = 1 => Replacement[1] = Compacted
      /\ Replacement # <<>> <=> Len(Replacement) = 1
      /\ Replacement # <<>> <=> Merged # Empty
    BY DEF Replacement
<1>6. Ordered(sstables) /\ \A u \in TablesOf(sstables) : u.last < next_seq
    BY <1>1, OrderedVector
<1>7. Compacted.last < next_seq
    <2>1. start + count \in DOMAIN sstables
        BY <1>1, VectorType
    <2> QED
        BY <1>4, <1>6, <2>1 DEF TablesOf
<1> QED
    BY <1>1, <1>2, <1>4, <1>5, <1>6, <1>7

\* Steps that change neither files nor vector.
LEMMA OrderStays ==
    ASSUME OrderInv, TypeInv', UNCHANGED <<phase, dir, crash_dirs, sstables, next_seq>>,
           Publishing => Publishing' /\ Compacted' = Compacted
    PROVE  OrderInv'
BY DEF OrderInv, SpansOrdered, DirsNested, Numbered, Placed, SameName

\* The same with a directory fsync.
LEMMA OrderSynced ==
    ASSUME OrderInv, TypeInv', FsyncDir, UNCHANGED <<phase, sstables, next_seq>>,
           Publishing => Publishing' /\ Compacted' = Compacted
    PROVE  OrderInv'
<1>1. dir \in crash_dirs
    BY DEF OrderInv, TypeInv, TypeOK
<1> QED
    BY <1>1 DEF FsyncDir, OrderInv, SpansOrdered, DirsNested, Numbered, Placed, SameName

\* Unlinking files, whichever they are.
LEMMA OrderUnlinked ==
    ASSUME OrderInv, TypeInv', NEW t, ChangeDir(DirWithout(t)),
           UNCHANGED <<phase, sstables, next_seq>>, ~Publishing
    PROVE  OrderInv'
<1>1. dir \in crash_dirs /\ dir' \subseteq dir /\ crash_dirs' = crash_dirs \cup {dir'}
    BY DEF OrderInv, TypeInv, TypeOK, ChangeDir, DirWithout
<1>2. DirsNested'
    <2>1. Spans(dir') /\ Nested(dir')
        BY <1>1, SubsetNested DEF OrderInv, DirsNested
    <2> QED
        BY <1>1, <2>1 DEF OrderInv, DirsNested
<1> QED
    BY <1>1, <1>2 DEF OrderInv, SpansOrdered, Numbered, Placed

\* Renaming a table in.
LEMMA OrderRenamed ==
    ASSUME OrderInv, NEW t \in Table, t.first <= t.last, ChangeDir(DirWith(t)),
           \A x \in dir : Apart(x, t) \/ Covers(t, x)
    PROVE  DirsNested'
<1>1. /\ dir \in crash_dirs /\ dir \in SUBSET Table
      /\ dir' = DirWithout(t) \cup {t} /\ DirWithout(t) \subseteq dir
      /\ crash_dirs' = crash_dirs \cup {dir'}
    BY DEF OrderInv, TypeInv, TypeOK, ChangeDir, DirWith, DirWithout
<1>2. Spans(DirWithout(t)) /\ Nested(DirWithout(t))
    BY <1>1, SubsetNested DEF OrderInv, DirsNested
<1>3. Spans(dir') /\ Nested(dir')
    BY <1>1, <1>2, NestedWith
<1> QED
    BY <1>1, <1>3 DEF OrderInv, DirsNested

LEMMA OrderInvInit == Init => OrderInv
<1> SUFFICES ASSUME Init PROVE OrderInv
    OBVIOUS
<1> QED
    BY TypeInvInit
    DEF Init, OrderInv, SpansOrdered, DirsNested, Spans, Nested, Numbered, Placed

LEMMA FlushOrder ==
    ASSUME OrderInv, TypeInv', NEW m \in Memtable, PublishFlush(m)
    PROVE  OrderInv'
<1> DEFINE t == Flushed(m)
<1>1. t \in Table /\ t.first = next_seq /\ t.last = next_seq /\ next_seq \in Nat
    BY SSTableSetAssumption, FlushedType DEF OrderInv, TypeInv, TypeOK, Flushed
<1>2. ChangeDir(DirWith(t)) /\ UNCHANGED <<phase, sstables, next_seq, compactor>> /\ phase = "up"
      /\ Replacement' = Replacement /\ Compacted' = Compacted
    BY DEF PublishFlush, compactorVars, Replacement, Compacted, Merged
<1>3. dir' = DirWithout(t) \cup {t} /\ DirWithout(t) \subseteq dir
    BY <1>2 DEF ChangeDir, DirWith, DirWithout
<1> HIDE DEF t
<1>4. ASSUME NEW x \in dir PROVE Apart(x, t) \/ Covers(t, x)
    <2>1. x.last < next_seq \/ (x.first = next_seq /\ x.last = next_seq)
        BY <1>2 DEF OrderInv, Numbered
    <2> QED
        BY <1>1, <2>1 DEF Apart, Covers
<1>5. DirsNested'
    BY <1>1, <1>2, <1>4, OrderRenamed
<1>6. Numbered'
    BY <1>1, <1>2, <1>3 DEF OrderInv, Numbered
<1>7. Beside(t, TablesOf(sstables))
    <2>1. \A u \in TablesOf(sstables) : u.last < next_seq
        BY OrderedVector DEF OrderInv, TypeInv
    <2> QED
        BY <1>1, <2>1 DEF Beside, Apart
<1>8. Placed'
    <2>1. Publishing' = Publishing
        BY <1>2 DEF Publishing
    <2> QED
        BY <1>2, <1>3, <1>7, <2>1 DEF OrderInv, Placed, SameName
<1>9. SpansOrdered'
    BY <1>2 DEF OrderInv, SpansOrdered
<1> QED
    BY <1>5, <1>6, <1>8, <1>9 DEF OrderInv

LEMMA InstallOrder ==
    ASSUME OrderInv, TypeInv', InstallFlush
    PROVE  OrderInv'
<1> DEFINE t == Flushed(batch)
<1>1. t \in Table /\ t.first = next_seq /\ t.last = next_seq /\ next_seq \in Nat
      /\ sstables \in Seq(Table)
    BY FlushedType DEF OrderInv, TypeInv, TypeOK, Flushed
<1>2. /\ sstables' = Append(sstables, t) /\ next_seq' = next_seq + 1
      /\ UNCHANGED <<phase, dir, crash_dirs, compactor>> /\ phase = "up"
      /\ Replacement' = Replacement /\ Compacted' = Compacted
    BY DEF InstallFlush, compactorVars, dirVars, Replacement, Compacted, Merged, OrderInv, TypeInv,
           DownIsIdle, TypeOK
<1> HIDE DEF t
<1>3. /\ Len(sstables) \in Nat /\ DOMAIN sstables = 1..Len(sstables)
      /\ DOMAIN sstables' = 1..Len(sstables) + 1
      /\ \A i \in DOMAIN sstables : sstables'[i] = sstables[i]
      /\ sstables'[Len(sstables) + 1] = t
    BY <1>1, <1>2, VectorType, AppendProperties
<1>4. TablesOf(sstables)' = TablesOf(sstables) \cup {t}
    BY <1>3 DEF TablesOf
<1>5. SpansOrdered'
    <2>1. \A i \in DOMAIN sstables :
              sstables[i].first <= sstables[i].last /\ sstables[i].last < next_seq
              /\ sstables[i].last \in Nat
        BY <1>1, VectorType DEF OrderInv, SpansOrdered
    <2>2. ASSUME NEW i \in DOMAIN sstables'
          PROVE  sstables'[i].first <= sstables'[i].last /\ sstables'[i].last < next_seq'
        BY <1>1, <1>2, <1>3, <2>1
    <2>3. ASSUME NEW i \in DOMAIN sstables', NEW j \in DOMAIN sstables', i < j
          PROVE  sstables'[i].last < sstables'[j].first
        <3>1. i \in DOMAIN sstables
            BY <1>3, <2>3
        <3>2. CASE j \in DOMAIN sstables
            BY <1>3, <2>3, <3>1, <3>2 DEF OrderInv, SpansOrdered
        <3>3. CASE j = Len(sstables) + 1
            BY <1>1, <1>3, <2>1, <3>1, <3>3
        <3> QED
            BY <1>3, <3>2, <3>3
    <2> QED
        BY <2>2, <2>3 DEF SpansOrdered
<1>6. ASSUME NEW x \in dir
      PROVE  /\ x.last < next_seq'
             /\ Beside(x, TablesOf(sstables)) => Beside(x, TablesOf(sstables)')
    <2>1. x.last < next_seq \/ (x.first = next_seq /\ x.last = next_seq)
        BY <1>2 DEF OrderInv, Numbered
    <2>2. x \in Table /\ x.last \in Nat
        BY DEF OrderInv, TypeInv, TypeOK, Table
    <2>3. CASE x.last < next_seq
        BY <1>1, <1>2, <1>4, <2>2, <2>3 DEF Beside, Apart
    <2>4. CASE x.first = next_seq /\ x.last = next_seq
        BY <1>1, <1>2, <1>4, <2>2, <2>4 DEF Beside, Covers
    <2> QED
        BY <2>1, <2>3, <2>4
<1>7. Numbered' /\ DirsNested'
    BY <1>2, <1>6 DEF OrderInv, Numbered, DirsNested
<1>8. Placed'
    <2>1. Publishing' = Publishing
        BY <1>2 DEF Publishing
    <2> QED
        BY <1>2, <1>6, <2>1 DEF OrderInv, Placed, SameName
<1> QED
    BY <1>5, <1>7, <1>8 DEF OrderInv

LEMMA MergeOrder ==
    ASSUME OrderInv, TypeInv', PublishMerge
    PROVE  OrderInv'
<1>1. /\ sstables \in Seq(Table) /\ Ordered(sstables)
      /\ start \in Nat /\ count \in Nat /\ count >= 1 /\ start + count <= Len(sstables)
      /\ Compacted \in Table
      /\ Compacted.first = sstables[start + 1].first
      /\ Compacted.last = sstables[start + count].last
      /\ Replacement # <<>> <=> Merged # Empty
      /\ Compacted.last < next_seq
    BY RunShape DEF OrderInv, PublishMerge
<1>2. /\ ChangeDir(DirWith(Compacted)) /\ Merged # Empty
      /\ compactor = "merging" /\ compactor' = "renamed"
      /\ UNCHANGED <<phase, sstables, next_seq>> /\ phase = "up"
      /\ Replacement' = Replacement /\ Compacted' = Compacted
    BY DEF PublishMerge, writerVars, Replacement, Compacted, Merged, OrderInv, TypeInv,
           DownIsIdle, TypeOK
<1>3. ~Publishing /\ Publishing'
    BY <1>1, <1>2 DEF Publishing
<1>4. dir' = DirWithout(Compacted) \cup {Compacted} /\ DirWithout(Compacted) \subseteq dir
    BY <1>2 DEF ChangeDir, DirWith, DirWithout
<1> HIDE DEF Compacted
<1>5. Compacted.first <= Compacted.last
    BY <1>1, RunSpan
<1>6. ASSUME NEW x \in dir PROVE Apart(x, Compacted) \/ Covers(Compacted, x)
    <2>1. x \in Table /\ x.first <= x.last
        BY DEF OrderInv, TypeInv, TypeOK, DirsNested, Spans
    <2>2. Beside(x, TablesOf(sstables))
        BY <1>2, <1>3 DEF OrderInv, Placed
    <2> QED
        BY <1>1, <2>1, <2>2, BesideRun
<1>7. DirsNested'
    BY <1>1, <1>2, <1>5, <1>6, OrderRenamed
<1>8. Numbered' /\ SpansOrdered'
    BY <1>1, <1>2, <1>4 DEF OrderInv, Numbered, SpansOrdered
<1>9. Placed'
    BY <1>2, <1>3, <1>4 DEF OrderInv, Placed, SameName
<1> QED
    BY <1>7, <1>8, <1>9 DEF OrderInv

LEMMA SwapOrder ==
    ASSUME OrderInv, TypeInv', SwapRun
    PROVE  OrderInv'
<1>1. /\ sstables \in Seq(Table) /\ Ordered(sstables)
      /\ start \in Nat /\ count \in Nat /\ count >= 1 /\ start + count <= Len(sstables)
      /\ Compacted \in Table
      /\ Compacted.first = sstables[start + 1].first
      /\ Compacted.last = sstables[start + count].last
      /\ Replacement \in Seq(Table) /\ Len(Replacement) <= 1
      /\ Len(Replacement) = 1 => Replacement[1] = Compacted
      /\ Replacement # <<>> <=> Len(Replacement) = 1
      /\ Compacted.last < next_seq
    BY RunShape DEF OrderInv, SwapRun
<1>2. /\ sstables' = Splice(sstables, start, count, Replacement)
      /\ UNCHANGED <<phase, dir, crash_dirs, next_seq>> /\ phase = "up"
      /\ compactor' = "removing"
    BY DEF SwapRun, writerVars, dirVars, OrderInv, TypeInv, DownIsIdle, TypeOK
<1> HIDE DEF Compacted, Replacement
<1>3. Ordered(Splice(sstables, start, count, Replacement))
    BY <1>1, SpliceOrdered
<1>4. TablesOf(Splice(sstables, start, count, Replacement))
        = {sstables[j] : j \in (1..Len(sstables)) \ (start + 1..start + count)}
          \cup TablesOf(Replacement)
    BY <1>1, SpliceTables
<1>5. \A u \in TablesOf(Replacement) : u = Compacted
    BY <1>1, LenProperties DEF TablesOf
<1>6. Len(Replacement) = 1 => Compacted \in TablesOf(Replacement)
    BY <1>1, LenProperties DEF TablesOf
<1>7. SpansOrdered'
    <2>1. \A u \in TablesOf(sstables) : u.last < next_seq
        BY OrderedVector DEF OrderInv, TypeInv
    <2>2. DOMAIN sstables = 1..Len(sstables)
        BY <1>1, VectorType
    <2>3. \A u \in TablesOf(Splice(sstables, start, count, Replacement)) : u.last < next_seq
        BY <1>1, <1>4, <1>5, <2>1, <2>2 DEF TablesOf
    <2> QED
        BY <1>2, <1>3, <2>3 DEF SpansOrdered, Ordered, TablesOf
<1>8. ASSUME NEW x \in dir PROVE Beside(x, TablesOf(sstables)')
    <2>1. x \in Table /\ x.first <= x.last
        BY DEF OrderInv, TypeInv, TypeOK, DirsNested, Spans
    <2>2. CASE Beside(x, TablesOf(sstables))
        <3>1. Beside(x, TablesOf(Splice(sstables, start, count, Replacement)))
            BY <1>1, <2>1, <2>2, SpliceBeside
        <3> QED
            BY <1>2, <3>1
    <2>3. CASE Publishing /\ SameName(x, Compacted)
        <3>1. Compacted \in TablesOf(Splice(sstables, start, count, Replacement))
            BY <1>1, <1>4, <1>6, <2>3 DEF Publishing
        <3>2. Covers(Compacted, x)
            <4>1. Compacted.first \in Nat /\ Compacted.last \in Nat
                BY <1>1 DEF Table
            <4>2. x.first = Compacted.first /\ x.last = Compacted.last
                BY <2>3 DEF SameName
            <4> QED
                BY <4>1, <4>2 DEF Covers
        <3> QED
            BY <1>2, <3>1, <3>2 DEF Beside
    <2> QED
        BY <1>2, <2>2, <2>3 DEF OrderInv, Placed
<1>9. Placed' /\ Numbered' /\ DirsNested'
    BY <1>2, <1>8 DEF OrderInv, Placed, Numbered, DirsNested
<1> QED
    BY <1>7, <1>9 DEF OrderInv

LEMMA OpenOrder ==
    ASSUME OrderInv, TypeInv', OpenSet
    PROVE  OrderInv'
<1>1. /\ dir \in SUBSET Table /\ IsFiniteSet(dir) /\ Spans(dir) /\ Nested(dir)
      /\ Superseded(dir) = {} /\ sstables' \in Listings(dir)
      /\ UNCHANGED <<dir, crash_dirs>> /\ \A t \in dir : t.last < next_seq'
      /\ phase' = "up"
    BY DEF OpenSet, OrderInv, TypeInv, TypeOK, DirsFinite, DirsNested, NextSeq, dirVars
<1>2. Ordered(sstables') /\ TablesOf(sstables') = dir
    BY <1>1, ListingIsVector
<1>3. SpansOrdered'
    BY <1>1, <1>2 DEF SpansOrdered, Ordered, TablesOf
<1>4. DirsNested' /\ Numbered'
    BY <1>1 DEF OrderInv, DirsNested, Numbered
<1>5. Placed'
    <2>1. \A t \in dir : Covers(t, t)
        BY <1>1 DEF Table, Covers
    <2> QED
        BY <1>1, <1>2, <2>1 DEF Placed, Beside
<1> QED
    BY <1>3, <1>4, <1>5 DEF OrderInv

LEMMA OrderInvNext ==
    ASSUME "compact_publish" \notin Faults
    PROVE  OrderInv /\ [Next]_vars => OrderInv'
<1> SUFFICES ASSUME OrderInv, [Next]_vars PROVE OrderInv'
    OBVIOUS
<1>1. TypeInv'
    BY TypeInvNext DEF OrderInv
<1> USE DEF writerVars, compactorVars, dirVars
<1>2. ASSUME NEW m \in Memtable, PublishFlush(m) PROVE OrderInv'
    BY <1>1, <1>2, FlushOrder
<1>3. CASE InstallFlush
    BY <1>1, <1>3, InstallOrder
<1>4. CASE PublishMerge
    BY <1>1, <1>4, MergeOrder
<1>5. CASE SwapRun
    BY <1>1, <1>5, SwapOrder
<1>6. CASE OpenSet
    BY <1>1, <1>6, OpenOrder
<1>7. CASE SyncFlush
    <2>1. FsyncDir /\ UNCHANGED <<phase, sstables, next_seq, compactor, run, start, count>>
        BY <1>7 DEF SyncFlush
    <2>2. Publishing' = Publishing /\ Compacted' = Compacted
        BY <2>1 DEF Publishing, Replacement, Compacted, Merged
    <2> QED
        BY <1>1, <2>1, <2>2, OrderSynced
<1>8. CASE SyncMerge
    <2>1. /\ FsyncDir /\ UNCHANGED <<phase, sstables, next_seq, run, start, count>>
          /\ compactor' = "merged"
        BY <1>8 DEF SyncMerge
    <2>2. (Publishing => Publishing') /\ Compacted' = Compacted
        BY <2>1 DEF Publishing, Replacement, Compacted, Merged
    <2> QED
        BY <1>1, <2>1, <2>2, OrderSynced
<1>9. CASE RemoveObsolete
    <2>1. /\ ChangeDir(DirWithout(Head(obsolete))) /\ UNCHANGED <<phase, sstables, next_seq>>
          /\ compactor = "removing"
        BY <1>9 DEF RemoveObsolete
    <2>2. ~Publishing
        BY <2>1 DEF Publishing
    <2> QED
        BY <1>1, <2>1, <2>2, OrderUnlinked
<1>10. CASE CleanLeftover
    <2>1. PICK t \in Superseded(dir) : ChangeDir(DirWithout(t))
        BY <1>10 DEF CleanLeftover
    <2>2. UNCHANGED <<phase, sstables, next_seq>> /\ ~Publishing
        BY <1>10 DEF CleanLeftover, OrderInv, TypeInv, DownIsIdle, Publishing
    <2> QED
        BY <1>1, <2>1, <2>2, OrderUnlinked
<1>11. ASSUME MemoryLost, \A d \in crash_dirs' : d \in crash_dirs PROVE OrderInv'
    <2>1. phase' = "down" /\ sstables' = <<>>
        BY <1>11 DEF MemoryLost
    <2> QED
        BY <1>1, <1>11, <2>1 DEF OrderInv, SpansOrdered, DirsNested, Numbered, Placed
<1>12. CASE PowerLoss
    BY <1>11, <1>12 DEF PowerLoss
<1>13. CASE ProcessDies
    BY <1>11, <1>13 DEF ProcessDies
<1>14. ASSUME UNCHANGED <<phase, dirVars, sstables, next_seq>>,
              ~Publishing \/ UNCHANGED compactorVars
       PROVE  OrderInv'
    <2>1. UNCHANGED <<phase, dir, crash_dirs, sstables, next_seq>>
        BY <1>14
    <2>2. Publishing => Publishing' /\ Compacted' = Compacted
        BY <1>14 DEF Publishing, Replacement, Compacted, Merged
    <2> QED
        BY <1>1, <2>1, <2>2, OrderStays
<1>15. CASE FlushFails \/ UNCHANGED vars
    BY <1>14, <1>15 DEF FlushFails, vars
<1>16. CASE PickRun \/ CaptureRun \/ SkipReplacement \/ CompactDone
    BY <1>14, <1>16 DEF PickRun, CaptureRun, SkipReplacement, CompactDone, CompactorIdle, Publishing
<1>17. CASE CompactFails
    <2>1. ~Publishing
        BY <1>17 DEF CompactFails, Publishing
    <2> QED
        BY <1>14, <1>17, <2>1 DEF CompactFails
<1>18. ASSUME NEW r \in Reader, Get(r) PROVE OrderInv'
    BY <1>14, <1>18 DEF Get, GetSnapshot, ProbeMiss, ProbeHit, ProbeNothingLeft, Return
<1> QED
    BY <1>2, <1>3, <1>4, <1>5, <1>6, <1>7, <1>8, <1>9, <1>10, <1>12, <1>13, <1>15, <1>16, <1>17,
       <1>18
    DEF Next, Flush, Compact, Recover

\* As long as no published merge is given up, the vector is in age order in
\* every reachable state, whatever is flushed, merged, spliced, left behind by a
\* failed flush or unlink, or found by open after a crash of machine or process.
THEOREM AgeOrdered ==
    ASSUME "compact_publish" \notin Faults
    PROVE  Spec => []SpansOrdered
<1>1. OrderInv => SpansOrdered
    BY DEF OrderInv
<1>2. OrderInv /\ [Next]_vars => OrderInv'
    BY OrderInvNext
<1> QED
    BY <1>1, <1>2, OrderInvInit, PTL DEF Spec
=============================================================================
