--------------------------- MODULE RecoveryProofs ---------------------------
(***************************************************************************)
(* The tables readers are served from are in every directory that a power  *)
(* failure can leave, and what open finds there is what readers were told, *)
(* or that plus the flush in progress; so the table set implements the     *)
(* durable map.                                                            *)
(***************************************************************************)
EXTENDS FilesProofs

-----------------------------------------------------------------------------
(* The tables are durable.                                                 *)

\* Between rename and fsync the new file is there, after the fsync it stays.
FlushDurable ==
    /\ writer = "renamed" => Flushed(batch) \in dir
    /\ writer = "synced" => \A d \in crash_dirs : Flushed(batch) \in d

MergeDurable ==
    Replacement # <<>> =>
        /\ compactor = "renamed" => Compacted \in dir
        /\ compactor = "merged" => \A d \in crash_dirs : Compacted \in d

\* While open cleans up, a crash finds the same tables again.
DownSame ==
    phase = "down" =>
        /\ sstables = <<>>
        /\ \A d \in crash_dirs :
            /\ Survivors(d) = Survivors(dir)
            /\ \A t \in d : \E u \in dir : Covers(u, t)

DurableInv ==
    NamedInv /\ LiveTablesDurable /\ FlushDurable /\ MergeDurable /\ DownSame

LEMMA LiveTables ==
    ASSUME DurableInv
    PROVE  /\ next_seq \in Nat /\ sstables \in Seq(Table) /\ Ordered(sstables)
           /\ dir \in crash_dirs /\ crash_dirs \subseteq SUBSET Table
           /\ \A u \in TablesOf(sstables) :
                /\ u \in Table /\ u.last < next_seq
                /\ \A d \in crash_dirs : u \in d
BY VectorInOrder DEF DurableInv, NamedInv, LiveTablesDurable, TablesOf

\* Steps that change neither files nor vector and leave no new obligation.
LEMMA DurableStays ==
    ASSUME DurableInv, NamedInv', UNCHANGED <<phase, dir, crash_dirs, sstables, next_seq>>,
           \/ writer' = "idle"
           \/ UNCHANGED <<writer, batch>>,
           \/ compactor' \in {"idle", "picked", "merging"}
           \/ compactor' = "merged" /\ Replacement' = <<>>
           \/ UNCHANGED <<compactor, start, count, run>>
    PROVE  DurableInv'
<1>1. FlushDurable'
    BY DEF DurableInv, FlushDurable, Flushed
<1>2. MergeDurable'
    BY DEF DurableInv, MergeDurable, Replacement, Compacted, Merged
<1>3. LiveTablesDurable' /\ DownSame'
    BY DEF DurableInv, LiveTablesDurable, DownSame
<1> QED
    BY <1>1, <1>2, <1>3 DEF DurableInv

LEMMA FlushIsDurable ==
    ASSUME DurableInv, NamedInv', NEW m \in Memtable, PublishFlush(m)
    PROVE  DurableInv'
<1> DEFINE t == Flushed(m)
<1>1. /\ t \in Table /\ t.last = next_seq /\ ChangeDir(DirWith(t)) /\ phase = "up"
      /\ UNCHANGED <<phase, sstables, next_seq, compactor, obsolete>>
      /\ writer' = "renamed" /\ Flushed(batch)' = t
      /\ Replacement' = Replacement /\ Compacted' = Compacted
    BY SSTableSetAssumption, FlushedType
    DEF DurableInv, NamedInv, OrderInv, TypeInv, TypeOK, Flushed, PublishFlush, compactorVars,
        Replacement, Compacted, Merged
<1> HIDE DEF t
<1>2. t \in dir'
    BY <1>1 DEF ChangeDir, DirWith
<1>3. ASSUME NEW u \in TablesOf(sstables) PROVE \A d \in crash_dirs' : u \in d
    <2>1. u.last < next_seq /\ next_seq \in Nat /\ \A d \in crash_dirs : u \in d
        BY LiveTables
    <2>2. ~SameName(u, t)
        BY <1>1, <2>1 DEF SameName
    <2> QED
        BY <1>1, <2>1, <2>2, OthersStay DEF DurableInv
<1>4. LiveTablesDurable'
    BY <1>1, <1>3 DEF LiveTablesDurable, TablesOf
<1>5. FlushDurable'
    BY <1>1, <1>2 DEF FlushDurable
<1>6. MergeDurable'
    <2>1. ASSUME compactor \in {"renamed", "merged"} PROVE ~SameName(Compacted, t)
        <3>1. Compacted.last < next_seq /\ next_seq \in Nat
            BY <2>1, LiveTables, RunShape DEF DurableInv, NamedInv, OrderInv
        <3> QED
            BY <1>1, <3>1 DEF SameName
    <2> QED
        BY <1>1, <2>1, OthersStay DEF DurableInv, MergeDurable
<1>7. DownSame'
    BY <1>1 DEF DownSame
<1> QED
    BY <1>4, <1>5, <1>6, <1>7 DEF DurableInv

LEMMA SyncedIsDurable ==
    ASSUME DurableInv, NamedInv', SyncFlush \/ SyncMerge
    PROVE  DurableInv'
<1>1. /\ dir' = dir /\ crash_dirs' = {dir} /\ dir \in crash_dirs
      /\ UNCHANGED <<phase, sstables, next_seq, batch, obsolete>>
      /\ Replacement' = Replacement /\ Compacted' = Compacted /\ Flushed(batch)' = Flushed(batch)
    BY LiveTables
    DEF SyncFlush, SyncMerge, FsyncDir, writerVars, compactorVars, Replacement, Compacted, Merged,
        Flushed
<1>2. \/ writer = "renamed" /\ writer' = "synced" /\ UNCHANGED compactor
      \/ compactor = "renamed" /\ compactor' = "merged" /\ UNCHANGED writer
    BY DEF SyncFlush, SyncMerge, writerVars, compactorVars
<1>3. FlushDurable' /\ MergeDurable'
    BY <1>1, <1>2 DEF DurableInv, FlushDurable, MergeDurable
<1>4. LiveTablesDurable'
    BY <1>1 DEF DurableInv, LiveTablesDurable
<1>5. DownSame'
    BY <1>1 DEF DurableInv, DownSame
<1> QED
    BY <1>3, <1>4, <1>5 DEF DurableInv

LEMMA InstallIsDurable ==
    ASSUME DurableInv, NamedInv', InstallFlush
    PROVE  DurableInv'
<1> DEFINE t == Flushed(batch)
<1>1. /\ sstables' = Append(sstables, t) /\ next_seq' = next_seq + 1 /\ writer' = "idle"
      /\ UNCHANGED <<phase, dir, crash_dirs, compactor, obsolete>> /\ phase = "up"
      /\ Replacement' = Replacement /\ Compacted' = Compacted
      /\ t.last = next_seq /\ t \in Table /\ \A d \in crash_dirs : t \in d
    BY FlushedType
    DEF InstallFlush, compactorVars, dirVars, Replacement, Compacted, Merged, DurableInv,
        NamedInv, OrderInv, TypeInv, DownIsIdle, TypeOK, FlushDurable, Flushed
<1> HIDE DEF t
<1>2. sstables \in Seq(Table) /\ next_seq \in Nat
    BY LiveTables
<1>3. TablesOf(sstables)' = TablesOf(sstables) \cup {t}
    BY <1>1, <1>2, TablesOfAppend
<1>4. LiveTablesDurable'
    <2>1. \A u \in TablesOf(sstables)' : \A d \in crash_dirs : u \in d
        BY <1>1, <1>3, LiveTables
    <2> QED
        BY <1>1, <2>1 DEF LiveTablesDurable, TablesOf
<1>5. FlushDurable' /\ MergeDurable' /\ DownSame'
    BY <1>1 DEF DurableInv, FlushDurable, MergeDurable, DownSame
<1> QED
    BY <1>4, <1>5 DEF DurableInv

LEMMA MergeIsDurable ==
    ASSUME DurableInv, NamedInv', PublishMerge
    PROVE  DurableInv'
<1>1. /\ ChangeDir(DirWith(Compacted)) /\ phase = "up"
      /\ compactor = "merging" /\ compactor' = "renamed" /\ count >= 2
      /\ UNCHANGED <<phase, sstables, next_seq, writer, batch, obsolete>>
      /\ Compacted' = Compacted
    BY
    DEF PublishMerge, writerVars, Compacted, Merged, DurableInv, NamedInv, OrderInv, TypeInv,
        DownIsIdle, TypeOK, RunIntact
<1>2. /\ sstables \in Seq(Table) /\ Ordered(sstables)
      /\ start \in Nat /\ count \in Nat /\ start + count <= Len(sstables)
      /\ Compacted \in Table
      /\ Compacted.first = sstables[start + 1].first
      /\ Compacted.last = sstables[start + count].last
      /\ Compacted.last < next_seq
    BY <1>1, RunShape DEF DurableInv, NamedInv, OrderInv
<1> HIDE DEF Compacted
<1>3. \A v \in TablesOf(sstables) : ~SameName(v, Compacted)
    BY <1>1, <1>2, MergedNameIsNew
<1>4. ASSUME NEW v \in TablesOf(sstables) PROVE \A d \in crash_dirs' : v \in d
    BY <1>1, <1>3, LiveTables, OthersStay DEF DurableInv
<1>5. LiveTablesDurable'
    BY <1>1, <1>4 DEF LiveTablesDurable, TablesOf
<1>6. MergeDurable'
    <2>1. Compacted \in dir'
        BY <1>1 DEF ChangeDir, DirWith
    <2> QED
        BY <1>1, <2>1 DEF MergeDurable
<1>7. FlushDurable'
    <2>1. next_seq \in Nat /\ Flushed(batch).last = next_seq /\ Flushed(batch)' = Flushed(batch)
        BY <1>1, LiveTables DEF Flushed
    <2>2. ~SameName(Flushed(batch), Compacted)
        BY <1>2, <2>1 DEF SameName
    <2> QED
        BY <1>1, <2>1, <2>2, OthersStay DEF DurableInv, FlushDurable
<1>8. DownSame'
    BY <1>1 DEF DownSame
<1> QED
    BY <1>5, <1>6, <1>7, <1>8 DEF DurableInv

LEMMA SwapIsDurable ==
    ASSUME DurableInv, NamedInv', SwapRun
    PROVE  DurableInv'
<1>1. /\ sstables \in Seq(Table) /\ Ordered(sstables)
      /\ start \in Nat /\ count \in Nat /\ start + count <= Len(sstables)
      /\ Compacted \in Table
      /\ Compacted.first = sstables[start + 1].first
      /\ Compacted.last = sstables[start + count].last
      /\ Replacement \in Seq(Table) /\ Len(Replacement) <= 1
      /\ Len(Replacement) = 1 => Replacement[1] = Compacted
      /\ Replacement # <<>> <=> Len(Replacement) = 1
    BY RunShape DEF DurableInv, NamedInv, OrderInv, SwapRun
<1>2. /\ sstables' = Splice(sstables, start, count, Replacement)
      /\ UNCHANGED <<phase, dir, crash_dirs, next_seq, writer, batch>> /\ phase = "up"
      /\ compactor = "merged" /\ compactor' = "removing"
    BY
    DEF SwapRun, writerVars, dirVars, DurableInv, NamedInv, OrderInv, TypeInv, DownIsIdle, TypeOK
<1>3. Replacement # <<>> => \A d \in crash_dirs : Compacted \in d
    BY <1>2 DEF DurableInv, MergeDurable
<1> HIDE DEF Compacted, Replacement
<1>4. TablesOf(Splice(sstables, start, count, Replacement))
        = {sstables[j] : j \in (1..Len(sstables)) \ (start + 1..start + count)}
          \cup TablesOf(Replacement)
    BY <1>1, SpliceTables
<1>5. \A u \in TablesOf(Replacement) : u = Compacted /\ Replacement # <<>>
    BY <1>1, LenProperties DEF TablesOf
<1>6. DOMAIN sstables = 1..Len(sstables) /\ Len(sstables) \in Nat
    BY <1>1, VectorType
<1>7. LiveTablesDurable'
    <2>1. \A u \in TablesOf(Splice(sstables, start, count, Replacement)) :
              \A d \in crash_dirs : u \in d
        BY <1>3, <1>4, <1>5, <1>6, LiveTables DEF TablesOf
    <2> QED
        BY <1>2, <2>1 DEF LiveTablesDurable, TablesOf
<1>8. FlushDurable' /\ MergeDurable' /\ DownSame'
    BY <1>2 DEF DurableInv, FlushDurable, MergeDurable, DownSame, Flushed
<1> QED
    BY <1>7, <1>8 DEF DurableInv

LEMMA RemovedIsDurable ==
    ASSUME DurableInv, NamedInv', RemoveObsolete
    PROVE  DurableInv'
<1> DEFINE t == Head(obsolete)
<1>1. /\ ChangeDir(DirWithout(t)) /\ obsolete # <<>>
      /\ UNCHANGED <<phase, sstables, next_seq, writer, batch, compactor>>
      /\ compactor = "removing" /\ phase = "up" /\ obsolete \in Seq(Table)
    BY DEF RemoveObsolete, writerVars, DurableInv, NamedInv, OrderInv, TypeInv, DownIsIdle, TypeOK
<1>2. t \in TablesOf(obsolete)
    <2>1. Len(obsolete) \in Nat /\ Len(obsolete) # 0 /\ DOMAIN obsolete = 1..Len(obsolete)
          /\ t = obsolete[1]
        BY <1>1, VectorType, HeadTailProperties, EmptySeq
    <2> QED
        BY <2>1 DEF TablesOf
<1> HIDE DEF t
<1>3. /\ t.last < next_seq /\ next_seq \in Nat
      /\ \A u \in TablesOf(sstables) : ~SameName(u, t)
    BY <1>2, LiveTables DEF DurableInv, NamedInv, ObsoleteGone, SameName
<1>4. ASSUME NEW u \in TablesOf(sstables) PROVE \A d \in crash_dirs' : u \in d
    BY <1>1, <1>3, LiveTables, OthersStay DEF DurableInv
<1>5. LiveTablesDurable'
    BY <1>1, <1>4 DEF LiveTablesDurable, TablesOf
<1>6. FlushDurable'
    <2>1. ~SameName(Flushed(batch), t)
        BY <1>3 DEF Flushed, SameName
    <2>2. Flushed(batch)' = Flushed(batch)
        BY <1>1 DEF Flushed
    <2> QED
        BY <1>1, <2>1, <2>2, OthersStay DEF DurableInv, FlushDurable
<1>7. MergeDurable' /\ DownSame'
    BY <1>1 DEF MergeDurable, DownSame
<1> QED
    BY <1>5, <1>6, <1>7 DEF DurableInv

LEMMA CleanedIsDurable ==
    ASSUME DurableInv, NamedInv', CleanLeftover
    PROVE  DurableInv'
<1>1. PICK t \in Superseded(dir) : ChangeDir(DirWithout(t))
    BY DEF CleanLeftover
<1>2. /\ UNCHANGED <<phase, sstables, next_seq, writer, batch, compactor, obsolete>>
      /\ phase = "down" /\ writer = "idle" /\ compactor = "idle" /\ sstables = <<>>
    BY
    DEF CleanLeftover, writerVars, compactorVars, DurableInv, NamedInv, OrderInv, TypeInv,
        DownIsIdle, DownSame
<1>3. dir \in crash_dirs /\ dir \in SUBSET Table /\ NamesDistinct(dir)
      /\ crash_dirs \subseteq SUBSET Table
    BY LiveTables DEF DurableInv, NamedInv, DirsNamed
<1>4. dir' = dir \ {t} /\ crash_dirs' = crash_dirs \cup {dir'}
    <2>1. t \in dir
        BY DEF Superseded
    <2>2. \A x \in dir : SameName(x, t) <=> x = t
        BY <1>3, <2>1 DEF NamesDistinct, SameName
    <2> QED
        BY <1>1, <2>2 DEF ChangeDir, DirWithout
<1>5. Survivors(dir') = Survivors(dir)
    BY <1>3, <1>4, SurvivorsWithout
<1>6. ASSUME NEW x \in Table, NEW u \in dir, Covers(u, x) PROVE \E w \in dir' : Covers(w, x)
    <2>1. PICK w \in dir \ {t} : Covers(w, t)
        BY DEF Superseded
    <2>2. u # t => u \in dir'
        BY <1>4
    <2>3. u = t => Covers(w, x)
        BY <1>3, <1>6, <2>1 DEF Covers, Table
    <2> QED
        BY <1>4, <1>6, <2>1, <2>2, <2>3
<1>7. DownSame'
    <2>1. \A x \in dir' : x \in Table /\ Covers(x, x)
        BY <1>3, <1>4 DEF Covers, Table
    <2>2. ASSUME NEW d \in crash_dirs'
          PROVE  /\ Survivors(d) = Survivors(dir')
                 /\ \A x \in d : \E u \in dir' : Covers(u, x)
        <3>1. CASE d = dir'
            BY <2>1, <3>1
        <3>2. CASE d \in crash_dirs
            <4>1. /\ Survivors(d) = Survivors(dir)
                  /\ \A x \in d : x \in Table /\ \E u \in dir : Covers(u, x)
                BY <1>2, <1>3, <3>2 DEF DurableInv, DownSame
            <4> QED
                BY <1>5, <1>6, <4>1
        <3> QED
            BY <1>4, <3>1, <3>2
    <2> QED
        BY <1>2, <2>2 DEF DownSame
<1>8. LiveTablesDurable' /\ FlushDurable' /\ MergeDurable'
    BY <1>2 DEF LiveTablesDurable, FlushDurable, MergeDurable
<1> QED
    BY <1>7, <1>8 DEF DurableInv

LEMMA OpenedIsDurable ==
    ASSUME DurableInv, NamedInv', OpenSet
    PROVE  DurableInv'
<1>1. /\ dir \in SUBSET Table /\ IsFiniteSet(dir) /\ Spans(dir) /\ Nested(dir)
      /\ Superseded(dir) = {} /\ sstables' \in Listings(dir) /\ phase = "down" /\ phase' = "up"
      /\ UNCHANGED <<dir, crash_dirs, writer, batch, compactor, start, count, run, obsolete>>
      /\ writer = "idle" /\ compactor = "idle"
    BY
    DEF OpenSet, DurableInv, NamedInv, OrderInv, TypeInv, TypeOK, DirsFinite, DirsNested,
        DownIsIdle, dirVars, compactorVars
<1>2. TablesOf(sstables') = dir
    BY <1>1, ListingIsVector
<1>3. ASSUME NEW d \in crash_dirs PROVE dir \subseteq d
    <2>1. Survivors(d) = Survivors(dir)
        BY <1>1 DEF DurableInv, DownSame
    <2> QED
        BY <1>1, <2>1 DEF Survivors
<1>4. LiveTablesDurable'
    BY <1>1, <1>2, <1>3 DEF LiveTablesDurable, TablesOf
<1>5. FlushDurable' /\ MergeDurable' /\ DownSame'
    BY <1>1 DEF FlushDurable, MergeDurable, DownSame
<1> QED
    BY <1>4, <1>5 DEF DurableInv

LEMMA CrashedIsDurable ==
    ASSUME DurableInv, NamedInv', PowerLoss
    PROVE  DurableInv'
<1>1. /\ phase' = "down" /\ sstables' = <<>> /\ writer' = "idle" /\ compactor' = "idle"
      /\ obsolete' = <<>> /\ crash_dirs' = {dir'} /\ dir' \in crash_dirs
    BY DEF PowerLoss, MemoryLost, CompactorIdle
<1>2. DownSame'
    <2>1. \A x \in dir' : Covers(x, x)
        BY <1>1, LiveTables DEF Covers, Table
    <2> QED
        BY <1>1, <2>1 DEF DownSame
<1>3. LiveTablesDurable' /\ FlushDurable' /\ MergeDurable'
    BY <1>1 DEF LiveTablesDurable, FlushDurable, MergeDurable
<1> QED
    BY <1>2, <1>3 DEF DurableInv

LEMMA DurableInvInit == Init => DurableInv
<1> SUFFICES ASSUME Init PROVE DurableInv
    OBVIOUS
<1>1. NamedInv
    BY NamedInvInit
<1> QED
    BY <1>1 DEF Init, DurableInv, LiveTablesDurable, FlushDurable, MergeDurable, DownSame

LEMMA DurableInvNext ==
    ASSUME "compact_publish" \notin Faults, CrashKinds \subseteq {"power"}
    PROVE  DurableInv /\ [Next]_vars => DurableInv'
<1> SUFFICES ASSUME DurableInv, [Next]_vars PROVE DurableInv'
    OBVIOUS
<1>1. NamedInv'
    BY NamedInvNext DEF DurableInv
<1> USE DEF writerVars, compactorVars, dirVars
<1>2. ASSUME NEW m \in Memtable, PublishFlush(m) PROVE DurableInv'
    BY <1>1, <1>2, FlushIsDurable
<1>3. CASE SyncFlush \/ SyncMerge
    BY <1>1, <1>3, SyncedIsDurable
<1>4. CASE InstallFlush
    BY <1>1, <1>4, InstallIsDurable
<1>5. CASE PublishMerge
    BY <1>1, <1>5, MergeIsDurable
<1>6. CASE SwapRun
    BY <1>1, <1>6, SwapIsDurable
<1>7. CASE RemoveObsolete
    BY <1>1, <1>7, RemovedIsDurable
<1>8. CASE CleanLeftover
    BY <1>1, <1>8, CleanedIsDurable
<1>9. CASE OpenSet
    BY <1>1, <1>9, OpenedIsDurable
<1>10. CASE PowerLoss
    BY <1>1, <1>10, CrashedIsDurable
<1>11. ~ProcessDies
    BY DEF ProcessDies
<1>12. CASE FlushFails \/ UNCHANGED vars
    BY <1>1, <1>12, DurableStays DEF FlushFails, vars
<1>13. CASE PickRun \/ CaptureRun
    BY <1>1, <1>13, DurableStays DEF PickRun, CaptureRun
<1>14. CASE SkipReplacement
    <2>1. Replacement' = <<>>
        BY <1>14 DEF SkipReplacement, Replacement, Merged
    <2> QED
        BY <1>1, <1>14, <2>1, DurableStays DEF SkipReplacement
<1>15. CASE CompactDone \/ CompactFails
    BY <1>1, <1>15, DurableStays DEF CompactDone, CompactFails, CompactorIdle
<1>16. ASSUME NEW r \in Reader, Get(r) PROVE DurableInv'
    BY <1>1, <1>16, DurableStays
    DEF Get, GetSnapshot, ProbeMiss, ProbeHit, ProbeNothingLeft, Return
<1> QED
    BY <1>2, <1>3, <1>4, <1>5, <1>6, <1>7, <1>8, <1>9, <1>10, <1>11, <1>12, <1>13, <1>14, <1>15,
       <1>16
    DEF Next, Flush, Compact, Recover

\* Every table readers are served from is in every state of the directory that
\* a power failure can leave, under its name and with its content: no table is
\* installed before it is durable, no rename clobbers one, no unlink hits one.
THEOREM TablesStayDurable ==
    ASSUME "compact_publish" \notin Faults, CrashKinds \subseteq {"power"}
    PROVE  Spec => []LiveTablesDurable
<1>1. DurableInv => LiveTablesDurable
    BY DEF DurableInv
<1>2. DurableInv /\ [Next]_vars => DurableInv'
    BY DurableInvNext
<1> QED
    BY <1>1, <1>2, DurableInvInit, PTL DEF Spec
-----------------------------------------------------------------------------
(* What a crash leaves.                                                    *)

NumberedAll ==
    phase = "up" =>
        \A d \in crash_dirs : \A t \in d :
            t.last < next_seq \/ (t.first = next_seq /\ t.last = next_seq)

\* Whatever a crash leaves answers like the vector, but for a flush in progress.
BaseHolds ==
    phase = "up" => \A d \in crash_dirs : Shown(Below(d, next_seq)) = View(sstables)

LossInv == DurableInv /\ FilesHold /\ NumberedAll /\ BaseHolds

LEMMA LossImpliesSafe == LossInv => CrashLosesNothing
<1> SUFFICES ASSUME LossInv, phase = "up", NEW d \in crash_dirs
             PROVE  DirView(Survivors(d)) \in {Holds} \cup {Apply(Holds, b) : b \in Uncommitted}
    BY DEF CrashLosesNothing
<1>1. /\ d \in SUBSET Table /\ Spans(d) /\ NamesDistinct(d) /\ next_seq \in Nat
      /\ \A t \in d : t.last < next_seq \/ (t.first = next_seq /\ t.last = next_seq)
    BY LiveTables DEF LossInv, DurableInv, NamedInv, OrderInv, DirsNested, DirsNamed, NumberedAll
<1>2. Shown(Below(d, next_seq)) = Holds
    BY DEF LossInv, BaseHolds, Holds
<1>3. CASE \E u \in d : u.first = next_seq
    <2>1. PICK u \in d : u.first = next_seq
        BY <1>3
    <2>2. Shown(d) = Apply(Shown(Below(d, next_seq)), u.data)
        BY <1>1, <2>1, WithPending
    <2>3. u.data \in Uncommitted
        BY <2>1 DEF Uncommitted
    <2> QED
        BY <1>2, <2>2, <2>3 DEF Shown
<1>4. CASE ~\E u \in d : u.first = next_seq
    <2>1. Below(d, next_seq) = d
        BY <1>1, <1>4 DEF Below
    <2> QED
        BY <1>2, <2>1 DEF Shown
<1> QED
    BY <1>3, <1>4

\* What all directories have in common is kept by steps that change no file.
LEMMA LossStays ==
    ASSUME LossInv, UNCHANGED <<phase, sstables, next_seq>>, \A d \in crash_dirs' : d \in crash_dirs
    PROVE  NumberedAll' /\ BaseHolds'
BY DEF LossInv, NumberedAll, BaseHolds

\* A new directory shows what the vector answers, like those before it.
LEMMA LossChanges ==
    ASSUME LossInv, FilesHold', phase' = "up", next_seq' = next_seq,
           View(sstables)' = View(sstables), UNCHANGED phase, crash_dirs' = crash_dirs \cup {dir'}
    PROVE  NumberedAll' /\ BaseHolds'
<1>1. Shown(Below(dir', next_seq')) = View(sstables')
    BY DEF FilesHold, DirHolds
<1>2. BaseHolds'
    BY <1>1 DEF LossInv, BaseHolds
<1>3. NumberedAll'
    BY DEF LossInv, NumberedAll, FilesHold, NamedInv, OrderInv, Numbered
<1> QED
    BY <1>2, <1>3

LEMMA LossInstalled ==
    ASSUME LossInv, FilesHold', InstallFlush
    PROVE  NumberedAll' /\ BaseHolds'
<1> DEFINE t == Flushed(batch)
<1>1. /\ sstables' = Append(sstables, t) /\ next_seq' = next_seq + 1
      /\ UNCHANGED <<phase, crash_dirs>> /\ phase = "up"
      /\ t.first = next_seq /\ t \in Table /\ \A d \in crash_dirs : t \in d
    BY FlushedType
    DEF InstallFlush, dirVars, LossInv, DurableInv, NamedInv, OrderInv, TypeInv, DownIsIdle,
        TypeOK, FlushDurable, Flushed
<1> HIDE DEF t
<1>2. sstables \in Seq(Table) /\ next_seq \in Nat
    BY LiveTables DEF LossInv
<1>3. ASSUME NEW d \in crash_dirs
      PROVE  /\ Below(d, next_seq + 1) = d
             /\ Shown(d) = View(sstables')
             /\ \A x \in d : x.last < next_seq + 1
    <2>1. /\ d \in SUBSET Table /\ Spans(d) /\ NamesDistinct(d)
          /\ \A x \in d : x.last < next_seq \/ (x.first = next_seq /\ x.last = next_seq)
        BY <1>1, LiveTables
        DEF LossInv, DurableInv, NamedInv, OrderInv, DirsNested, DirsNamed, NumberedAll
    <2>2. Shown(d) = Apply(Shown(Below(d, next_seq)), t.data)
        BY <1>1, <1>2, <2>1, WithPending
    <2>3. \A x \in d : x.last < next_seq + 1
        BY <1>2, <2>1 DEF Table
    <2>4. Below(d, next_seq + 1) = d
        BY <2>3 DEF Below
    <2>5. Shown(Below(d, next_seq)) = View(sstables)
        BY <1>1 DEF LossInv, BaseHolds
    <2>6. View(Append(sstables, t)) = Apply(View(sstables), t.data)
        BY <1>1, <1>2, ViewOfAppend
    <2> QED
        BY <1>1, <2>2, <2>3, <2>4, <2>5, <2>6
<1> QED
    BY <1>1, <1>3 DEF NumberedAll, BaseHolds

LEMMA LossOpened ==
    ASSUME LossInv, FilesHold', OpenSet
    PROVE  NumberedAll' /\ BaseHolds'
<1>1. /\ dir \in crash_dirs /\ Superseded(dir) = {} /\ phase = "down" /\ phase' = "up"
      /\ UNCHANGED <<dir, crash_dirs>> /\ next_seq' \in Nat /\ \A t \in dir : t.last < next_seq'
      /\ Shown(dir) = View(sstables')
    BY LiveTables, VectorInOrder, OpenedHolds
    DEF OpenSet, LossInv, FilesHold, NamedInv, OrderInv, TypeInv, TypeOK, dirVars, NextSeq
<1>2. ASSUME NEW d \in crash_dirs
      PROVE  /\ \A t \in d : t.last < next_seq'
             /\ Below(d, next_seq') = d
             /\ Shown(d) = View(sstables')
    <2>1. Survivors(d) = Survivors(dir) /\ \A t \in d : t \in Table /\ \E u \in dir : Covers(u, t)
        BY <1>1, LiveTables DEF LossInv, DurableInv, DownSame
    <2>2. dir \subseteq Table
        BY <1>1, LiveTables DEF LossInv
    <2>3. \A t \in d : t.last < next_seq'
        BY <1>1, <2>1, <2>2 DEF Covers, Table
    <2> QED
        BY <1>1, <2>1, <2>3 DEF Below, Shown
<1> QED
    BY <1>1, <1>2 DEF NumberedAll, BaseHolds

LEMMA LossInvInit == Init => LossInv
<1> SUFFICES ASSUME Init PROVE LossInv
    OBVIOUS
<1>1. DurableInv /\ FilesHold
    BY DurableInvInit, FilesInvInit DEF FilesInv
<1> QED
    BY <1>1 DEF Init, LossInv, NumberedAll, BaseHolds

LEMMA LossInvNext ==
    ASSUME Faults \subseteq {"flush_publish"}, CrashKinds \subseteq {"power"}
    PROVE  LossInv /\ [Next]_vars => LossInv'
<1> SUFFICES ASSUME LossInv, [Next]_vars PROVE NumberedAll' /\ BaseHolds'
    BY DurableInvNext, FilesHoldNext DEF LossInv
<1>1. FilesHold'
    BY FilesHoldNext DEF LossInv
<1> USE DEF writerVars, compactorVars, dirVars
<1>2. phase \in {"up", "down"} /\ dir \in crash_dirs /\ DownIsIdle
    BY LiveTables DEF LossInv, DurableInv, NamedInv, OrderInv, TypeInv, TypeOK
<1>3. CASE InstallFlush
    BY <1>1, <1>3, LossInstalled
<1>4. CASE OpenSet
    BY <1>1, <1>4, LossOpened
<1>5. CASE (\E m \in Memtable : PublishFlush(m)) \/ PublishMerge \/ RemoveObsolete
    <2>1. UNCHANGED <<phase, sstables, next_seq>> /\ phase = "up"
          /\ crash_dirs' = crash_dirs \cup {dir'}
        BY <1>2, <1>5 DEF PublishFlush, PublishMerge, RemoveObsolete, DownIsIdle, ChangeDir
    <2> QED
        BY <1>1, <2>1, LossChanges
<1>6. CASE SwapRun
    <2>1. View(sstables)' = View(sstables)
        BY <1>6, SwapKeepsView DEF LossInv, DurableInv, NamedInv, OrderInv
    <2>2. UNCHANGED <<phase, dir, crash_dirs, next_seq>>
        BY <1>6 DEF SwapRun
    <2> QED
        BY <2>1, <2>2 DEF LossInv, NumberedAll, BaseHolds
<1>7. ASSUME phase' = "down" PROVE NumberedAll' /\ BaseHolds'
    BY <1>7 DEF NumberedAll, BaseHolds
<1>8. CASE CleanLeftover \/ PowerLoss \/ ProcessDies
    BY <1>7, <1>8 DEF CleanLeftover, PowerLoss, ProcessDies, MemoryLost
<1>9. ASSUME UNCHANGED <<phase, sstables, next_seq>>, \A d \in crash_dirs' : d \in crash_dirs
      PROVE  NumberedAll' /\ BaseHolds'
    BY <1>9, LossStays
<1>10. CASE SyncFlush \/ SyncMerge \/ FlushFails \/ UNCHANGED vars
    BY <1>2, <1>9, <1>10 DEF SyncFlush, SyncMerge, FsyncDir, FlushFails, vars
<1>11. CASE PickRun \/ CaptureRun \/ SkipReplacement \/ CompactDone \/ CompactFails
    BY <1>9, <1>11 DEF PickRun, CaptureRun, SkipReplacement, CompactDone, CompactFails
<1>12. ASSUME NEW r \in Reader, Get(r) PROVE NumberedAll' /\ BaseHolds'
    BY <1>9, <1>12 DEF Get, GetSnapshot, ProbeMiss, ProbeHit, ProbeNothingLeft, Return
<1> QED
    BY <1>3, <1>4, <1>5, <1>6, <1>8, <1>10, <1>11, <1>12 DEF Next, Flush, Compact, Recover

\* A power failure at any moment - between rename and fsync, between splice and
\* unlink, during an earlier recovery - leaves a directory that open turns into
\* exactly what readers were told, or that plus the one flush in progress.
THEOREM CrashesLoseNothing ==
    ASSUME Faults \subseteq {"flush_publish"}, CrashKinds \subseteq {"power"}
    PROVE  Spec => []CrashLosesNothing
<1>1. LossInv => CrashLosesNothing
    BY LossImpliesSafe
<1>2. LossInv /\ [Next]_vars => LossInv'
    BY LossInvNext
<1> QED
    BY <1>1, <1>2, LossInvInit, PTL DEF Spec

-----------------------------------------------------------------------------
(* Refinement: the directory and the vector implement the durable map.     *)

LEMMA AbstractApply ==
    ASSUME NEW store, NEW b
    PROVE  Abstract!Apply(store, b) = Apply(store, b)
BY DEF Abstract!Apply, Apply, Abstract!Visible, Visible

\* Steps that readers and crashes cannot tell from doing nothing.
LEMMA Invisible ==
    ASSUME Holds' = Holds, Uncommitted' = Uncommitted
    PROVE  [Abstract!Next]_(Abstract!vars)
BY DEF Abstract!vars

LEMMA RefinesInit == Init => Abstract!Init
<1> SUFFICES ASSUME Init PROVE Abstract!Init
    OBVIOUS
<1>1. Uncommitted = {}
    BY DEF Init, Uncommitted
<1>2. Holds = [k \in Key |-> None]
    BY DEF Init, Holds, DirView, DirHits, Survivors, Superseded
<1> QED
    BY <1>1, <1>2 DEF Abstract!Init

LEMMA RefinesFlush ==
    ASSUME LossInv, NEW m \in Memtable, PublishFlush(m)
    PROVE  Abstract!Propose(m)
<1> DEFINE t == Flushed(m)
<1>1. /\ t.first = next_seq /\ t.data = m /\ phase = "up" /\ dir \in crash_dirs
      /\ UNCHANGED <<phase, sstables, next_seq>>
      /\ dir' = DirWithout(t) \cup {t} /\ DirWithout(t) \subseteq dir
      /\ crash_dirs' = crash_dirs \cup {dir'}
    BY LiveTables DEF Flushed, PublishFlush, ChangeDir, DirWith, DirWithout, LossInv
<1> HIDE DEF t
<1>2. Holds' = Holds
    BY <1>1 DEF Holds
<1>3. {u \in UNION crash_dirs' : u.first = next_seq}
        = {u \in UNION crash_dirs : u.first = next_seq} \cup {t}
    BY <1>1
<1>4. Uncommitted' = Uncommitted \cup {m}
    BY <1>1, <1>3 DEF Uncommitted
<1> QED
    BY <1>2, <1>4 DEF Abstract!Propose

LEMMA RefinesSync ==
    ASSUME LossInv, SyncFlush \/ SyncMerge
    PROVE  Abstract!Forget
<1>1. /\ dir \in crash_dirs /\ crash_dirs' = {dir} /\ UNCHANGED <<phase, dir, sstables, next_seq>>
    BY LiveTables DEF SyncFlush, SyncMerge, FsyncDir, writerVars, LossInv
<1>2. Holds' = Holds
    BY <1>1 DEF Holds
<1>3. UNION crash_dirs' \subseteq UNION crash_dirs
    BY <1>1
<1>4. Uncommitted' \subseteq Uncommitted
    BY <1>1, <1>3 DEF Uncommitted
<1> QED
    BY <1>2, <1>4 DEF Abstract!Forget

LEMMA RefinesInstall ==
    ASSUME LossInv, LossInv', InstallFlush
    PROVE  Abstract!Commit(batch) /\ batch \in Data
<1> DEFINE t == Flushed(batch)
<1>1. /\ sstables' = Append(sstables, t) /\ next_seq' = next_seq + 1
      /\ UNCHANGED <<phase, dir, crash_dirs>> /\ phase = "up"
      /\ t.first = next_seq /\ t.last = next_seq /\ t.data = batch /\ t \in Table
      /\ \A d \in crash_dirs : t \in d
      /\ batch \in Data
    BY FlushedType
    DEF InstallFlush, dirVars, LossInv, DurableInv, NamedInv, OrderInv, TypeInv, DownIsIdle,
        TypeOK, FlushDurable, Flushed
<1> HIDE DEF t
<1>2. sstables \in Seq(Table) /\ next_seq \in Nat /\ dir \in crash_dirs
    BY LiveTables DEF LossInv
<1>3. batch \in Uncommitted
    BY <1>1, <1>2 DEF Uncommitted
<1>4. Holds' = Abstract!Apply(Holds, batch)
    <2>1. View(Append(sstables, t)) = Apply(View(sstables), t.data)
        BY <1>1, <1>2, ViewOfAppend
    <2>2. Holds = View(sstables) /\ Holds' = View(sstables')
        BY <1>1 DEF Holds
    <2> QED
        BY <1>1, <2>1, <2>2, AbstractApply
<1>5. Uncommitted' = {}
    <2>1. ASSUME NEW d \in crash_dirs, NEW u \in d PROVE u.first # next_seq + 1
        <3>1. u \in Table /\ u.first <= u.last
            BY LiveTables DEF LossInv, DurableInv, NamedInv, OrderInv, DirsNested, Spans
        <3>2. u.last < next_seq \/ (u.first = next_seq /\ u.last = next_seq)
            BY <1>1 DEF LossInv, NumberedAll
        <3> QED
            BY <1>2, <3>1, <3>2 DEF Table
    <2> QED
        BY <1>1, <2>1 DEF Uncommitted
<1> QED
    BY <1>1, <1>3, <1>4, <1>5 DEF Abstract!Commit

LEMMA RefinesMerge ==
    ASSUME LossInv, PublishMerge
    PROVE  [Abstract!Next]_(Abstract!vars)
<1> DEFINE t == Compacted
<1>1. /\ dir' = DirWithout(t) \cup {t} /\ DirWithout(t) \subseteq dir
      /\ crash_dirs' = crash_dirs \cup {dir'} /\ dir \in crash_dirs
      /\ UNCHANGED <<phase, sstables, next_seq>> /\ phase = "up"
    BY LiveTables
    DEF PublishMerge, ChangeDir, DirWith, DirWithout, writerVars, LossInv, DurableInv, NamedInv,
        OrderInv, TypeInv, DownIsIdle, TypeOK
<1>2. /\ sstables \in Seq(Table) /\ Ordered(sstables)
      /\ start \in Nat /\ count \in Nat /\ count >= 1 /\ start + count <= Len(sstables)
      /\ t \in Table
      /\ t.first = sstables[start + 1].first
      /\ t.last = sstables[start + count].last
      /\ t.last < next_seq /\ next_seq \in Nat
    BY RunShape, LiveTables DEF LossInv, DurableInv, NamedInv, OrderInv, PublishMerge
<1> HIDE DEF t
<1>3. t.first <= t.last
    BY <1>2, RunSpan
<1>4. t.first # next_seq
    BY <1>2, <1>3 DEF Table
<1>5. {u \in UNION crash_dirs' : u.first = next_seq} = {u \in UNION crash_dirs : u.first = next_seq}
    BY <1>1, <1>4
<1>6. Uncommitted' = Uncommitted /\ Holds' = Holds
    BY <1>1, <1>5 DEF Uncommitted, Holds
<1> QED
    BY <1>6, Invisible

LEMMA RefinesRemove ==
    ASSUME LossInv, RemoveObsolete
    PROVE  [Abstract!Next]_(Abstract!vars)
<1>1. /\ dir' \subseteq dir /\ crash_dirs' = crash_dirs \cup {dir'} /\ dir \in crash_dirs
      /\ UNCHANGED <<phase, sstables, next_seq>> /\ phase = "up"
    BY LiveTables
    DEF RemoveObsolete, ChangeDir, DirWithout, writerVars, LossInv, DurableInv, NamedInv,
        OrderInv, TypeInv, DownIsIdle, TypeOK
<1>2. UNION crash_dirs' = UNION crash_dirs
    BY <1>1
<1>3. Uncommitted' = Uncommitted /\ Holds' = Holds
    BY <1>1, <1>2 DEF Uncommitted, Holds
<1> QED
    BY <1>3, Invisible

LEMMA RefinesSwap ==
    ASSUME LossInv, SwapRun
    PROVE  [Abstract!Next]_(Abstract!vars)
<1>1. UNCHANGED <<phase, dir, crash_dirs, next_seq>> /\ phase = "up"
    BY
    DEF SwapRun, writerVars, dirVars, LossInv, DurableInv, NamedInv, OrderInv, TypeInv,
        DownIsIdle, TypeOK
<1>2. View(sstables)' = View(sstables)
    BY SwapKeepsView DEF LossInv, DurableInv, NamedInv, OrderInv
<1>3. Uncommitted' = Uncommitted /\ Holds' = Holds
    BY <1>1, <1>2 DEF Uncommitted, Holds
<1> QED
    BY <1>3, Invisible

LEMMA RefinesClean ==
    ASSUME LossInv, LossInv', CleanLeftover
    PROVE  [Abstract!Next]_(Abstract!vars)
<1>1. /\ phase = "down" /\ phase' = "down" /\ dir \in crash_dirs
      /\ crash_dirs' = crash_dirs \cup {dir'}
    BY LiveTables DEF CleanLeftover, ChangeDir, LossInv
<1>2. Survivors(dir) = Survivors(dir')
    BY <1>1 DEF LossInv, DurableInv, DownSame
<1>3. Uncommitted' = Uncommitted /\ Holds' = Holds
    BY <1>1, <1>2 DEF Uncommitted, Holds
<1> QED
    BY <1>3, Invisible

LEMMA RefinesOpen ==
    ASSUME LossInv, LossInv', OpenSet
    PROVE  [Abstract!Next]_(Abstract!vars)
<1>1. /\ dir \in crash_dirs /\ Superseded(dir) = {} /\ phase = "down" /\ phase' = "up"
      /\ UNCHANGED <<dir, crash_dirs>> /\ \A t \in dir : t.last < next_seq'
      /\ next_seq' \in Nat
    BY LiveTables
    DEF OpenSet, NextSeq, dirVars, LossInv, DurableInv, NamedInv, OrderInv, TypeInv, TypeOK
<1>2. ASSUME NEW d \in crash_dirs, NEW t \in d PROVE t.first # next_seq'
    <2>1. PICK u \in dir : Covers(u, t)
        BY <1>1 DEF LossInv, DurableInv, DownSame
    <2>2. t \in Table /\ u \in Table /\ t.first <= t.last
        BY <1>1, LiveTables DEF LossInv, DurableInv, NamedInv, OrderInv, DirsNested, Spans
    <2> QED
        BY <1>1, <2>1, <2>2 DEF Covers, Table
<1>3. Uncommitted' = Uncommitted
    BY <1>1, <1>2 DEF Uncommitted
<1>4. Below(dir, next_seq') = dir
    BY <1>1 DEF Below
<1>5. DirView(Survivors(dir)) = View(sstables')
    <2>1. Shown(Below(dir, next_seq')) = View(sstables')
        BY <1>1 DEF LossInv, BaseHolds
    <2> QED
        BY <1>4, <2>1 DEF Shown
<1>6. Holds' = Holds
    BY <1>1, <1>5 DEF Holds
<1> QED
    BY <1>3, <1>6, Invisible

LEMMA RefinesCrash ==
    ASSUME LossInv, PowerLoss
    PROVE  Abstract!Crash
<1>1. phase' = "down" /\ dir' \in crash_dirs
    BY DEF PowerLoss, MemoryLost
<1>2. Uncommitted' = {} /\ Holds' = DirView(Survivors(dir'))
    BY <1>1 DEF Uncommitted, Holds
<1>3. Holds' \in {Holds} \cup {Abstract!Apply(Holds, b) : b \in Uncommitted}
    <2>1. CASE phase = "up"
        <3>1. Holds' \in {Holds} \cup {Apply(Holds, b) : b \in Uncommitted}
            BY <1>1, <1>2, <2>1, LossImpliesSafe DEF CrashLosesNothing
        <3> QED
            BY <3>1, AbstractApply
    <2>2. CASE phase # "up"
        <3>1. phase = "down"
            BY <2>2 DEF LossInv, DurableInv, NamedInv, OrderInv, TypeInv, TypeOK
        <3>2. Survivors(dir') = Survivors(dir)
            BY <1>1, <3>1 DEF LossInv, DurableInv, DownSame
        <3> QED
            BY <1>2, <2>2, <3>2 DEF Holds
    <2> QED
        BY <2>1, <2>2
<1> QED
    BY <1>2, <1>3 DEF Abstract!Crash

LEMMA RefinesNext ==
    ASSUME CrashKinds \subseteq {"power"}
    PROVE  LossInv /\ LossInv' /\ [Next]_vars => [Abstract!Next]_(Abstract!vars)
<1> SUFFICES ASSUME LossInv, LossInv', [Next]_vars PROVE [Abstract!Next]_(Abstract!vars)
    OBVIOUS
<1>1. ASSUME NEW m \in Memtable, PublishFlush(m) PROVE [Abstract!Next]_(Abstract!vars)
    <2>1. Abstract!Propose(m)
        BY <1>1, RefinesFlush
    <2>2. m \in Abstract!Data
        BY SSTableSetAssumption DEF Data, Abstract!Data, Entry, Abstract!Entry
    <2> QED
        BY <2>1, <2>2 DEF Abstract!Next
<1>2. CASE SyncFlush \/ SyncMerge
    BY <1>2, RefinesSync DEF Abstract!Next
<1>3. CASE InstallFlush
    <2>1. batch \in Abstract!Data /\ Abstract!Commit(batch)
        BY <1>3, RefinesInstall DEF Data, Abstract!Data, Entry, Abstract!Entry
    <2> QED
        BY <2>1 DEF Abstract!Next
<1>4. CASE PublishMerge
    BY <1>4, RefinesMerge
<1>5. CASE SwapRun
    BY <1>5, RefinesSwap
<1>6. CASE RemoveObsolete
    BY <1>6, RefinesRemove
<1>7. CASE CleanLeftover
    BY <1>7, RefinesClean
<1>8. CASE OpenSet
    BY <1>8, RefinesOpen
<1>9. CASE PowerLoss
    BY <1>9, RefinesCrash DEF Abstract!Next
<1>10. ~ProcessDies
    BY DEF ProcessDies
<1>11. ASSUME UNCHANGED <<phase, dirVars, sstables, next_seq>>
       PROVE  [Abstract!Next]_(Abstract!vars)
    <2>1. Uncommitted' = Uncommitted /\ Holds' = Holds
        BY <1>11 DEF dirVars, Uncommitted, Holds
    <2> QED
        BY <2>1, Invisible
<1>12. CASE FlushFails \/ UNCHANGED vars
    BY <1>11, <1>12 DEF FlushFails, vars, writerVars
<1>13. CASE PickRun \/ CaptureRun \/ SkipReplacement \/ CompactDone \/ CompactFails
    BY <1>11, <1>13
    DEF PickRun, CaptureRun, SkipReplacement, CompactDone, CompactFails, writerVars
<1>14. ASSUME NEW r \in Reader, Get(r) PROVE [Abstract!Next]_(Abstract!vars)
    BY <1>11, <1>14
    DEF Get, GetSnapshot, ProbeMiss, ProbeHit, ProbeNothingLeft, Return, writerVars
<1> QED
    BY <1>1, <1>2, <1>3, <1>4, <1>5, <1>6, <1>7, <1>8, <1>9, <1>10, <1>12, <1>13, <1>14
    DEF Next, Flush, Compact, Recover

\* The directory and the vector implement the durable map: flushes commit whole
\* batches, compaction, recovery and reading are invisible, and a power failure
\* loses no committed batch, brings nothing deleted back and keeps a batch in
\* flight whole or not at all.
THEOREM Refinement ==
    ASSUME Faults \subseteq {"flush_publish"}, CrashKinds \subseteq {"power"}
    PROVE  Spec => ImplementsDurableMap
<1>1. LossInv /\ [Next]_vars => LossInv'
    BY LossInvNext
<1>2. LossInv /\ LossInv' /\ [Next]_vars => [Abstract!Next]_(Abstract!vars)
    BY RefinesNext
<1> QED
    BY <1>1, <1>2, LossInvInit, RefinesInit, PTL DEF Spec, ImplementsDurableMap, Abstract!Spec
=============================================================================
