------------------------------ MODULE DbProofs ------------------------------
(***************************************************************************)
(* Theorems about the database: what its memtable, its log and its tables  *)
(* have to do with one another, whatever is written, compacted, opened or  *)
(* closed, whatever fails and wherever it stops.                           *)
(***************************************************************************)
EXTENDS Db, LayersProofs

\* What is proved of the tables holds of the database's.
Files == INSTANCE FilesProofs WITH Memtable <- Data \ {Empty}, MaxSeq <- MaxOps

-----------------------------------------------------------------------------
(* Db's instance of SSTableSet and that of its proofs say the same.        *)

LEMMA FilesAssumptions ==
    /\ Tombstone \notin Value
    /\ None \notin Value
    /\ Tombstone # None
    /\ MinRun \in Nat /\ MinRun >= 2
    /\ Data \ {Empty} \subseteq Files!Data \ {Files!Empty}
    /\ MaxOps \in Nat
    /\ CrashKinds \subseteq {"power", "process"}
    /\ MaxCrashes \in Nat
    /\ Faults \subseteq Files!FaultNames
BY LayersAssumption, DbAssumption
DEF DbAssumption, Data, Entry, Empty, Tables!FaultNames, Files!Data, Files!Entry, Files!Empty,
    Files!FaultNames

LEMMA SameData ==
    /\ Files!Data = Data /\ Tables!Data = Data
    /\ Files!Empty = Empty /\ Tables!Empty = Empty
    /\ Files!Table = Table /\ Tables!Table = Table
BY DEF Data, Entry, Empty, Table, Files!Data, Files!Entry, Files!Empty, Files!Table, Tables!Data,
       Tables!Entry, Tables!Empty, Tables!Table

LEMMA SameView ==
    ASSUME NEW ts
    PROVE  Files!View(ts) = View(ts) /\ Tables!View(ts) = View(ts)
BY DEF View, Visible, Record, Newest, Hits, Files!View, Files!Visible, Files!Record, Files!Newest,
       Files!Hits, Tables!View, Tables!Visible, Tables!Record, Tables!Newest, Tables!Hits

LEMMA SameDirs ==
    ASSUME NEW d
    PROVE  /\ Files!Shown(d) = DirView(Survivors(d))
           /\ Tables!Superseded(d) = Files!Superseded(d)
           /\ Tables!Listings(d) = Files!Listings(d)
<1>1. Files!Survivors(d) = Survivors(d)
    BY DEF Survivors, Superseded, Covers, Files!Survivors, Files!Superseded, Files!Covers
<1>2. Files!DirView(Survivors(d)) = DirView(Survivors(d))
    BY Zenon DEF DirView, DirHits, Visible, Files!DirView, Files!DirHits, Files!Visible
<1>3. Files!Shown(d) = DirView(Survivors(d))
    BY <1>1, <1>2 DEF Files!Shown
<1>4. Tables!Superseded(d) = Files!Superseded(d)
    BY DEF Tables!Superseded, Tables!Covers, Files!Superseded, Files!Covers
<1>5. Tables!Listings(d) = Files!Listings(d)
    <2>1. Tables!Cardinality(d) = Files!Cardinality(d)
        BY Zenon DEF Tables!Cardinality, Files!Cardinality
    <2>2. \A t, u : Tables!Before(t, u) <=> Files!Before(t, u)
        BY DEF Tables!Before, Files!Before
    <2>3. ASSUME NEW s PROVE s \in Tables!Listings(d) <=> s \in Files!Listings(d)
        BY <2>1, <2>2, SMT DEF Tables!Listings, Files!Listings
    <2> QED
        BY <2>3 DEF Tables!Listings, Files!Listings
<1> QED
    BY <1>3, <1>4, <1>5

LEMMA SameMerge ==
    /\ Tables!Merged = Files!Merged
    /\ Tables!Compacted = Files!Compacted
    /\ Tables!Replacement = Files!Replacement
<1>1. Tables!Merged = Files!Merged
    BY Zenon DEF Tables!Merged, Tables!Merge, Tables!Record, Tables!Newest, Tables!Hits,
                 Files!Merged, Files!Merge, Files!Record, Files!Newest, Files!Hits
<1>2. Tables!Compacted = Files!Compacted
    BY <1>1, Zenon DEF Tables!Compacted, Files!Compacted
<1> QED
    BY <1>1, <1>2, SameData DEF Tables!Replacement, Files!Replacement

LEMMA SameTypes ==
    /\ Tables!TypeOK <=> Files!TypeOK
    /\ Tables!ReaderIdle = Files!ReaderIdle
    /\ Tables!Init <=> Files!Init
<1>1. Tables!ReaderIdle = Files!ReaderIdle
    BY DEF Tables!ReaderIdle, Files!ReaderIdle
<1>2. Tables!ReaderStates = Files!ReaderStates
    BY SameData DEF Tables!ReaderStates, Files!ReaderStates
<1> QED
    BY <1>1, <1>2, SameData DEF Tables!TypeOK, Files!TypeOK, Tables!Init, Files!Init

LEMMA SameFlush ==
    /\ \A m : Tables!PublishFlush(m) <=> Files!PublishFlush(m)
    /\ Tables!SyncFlush <=> Files!SyncFlush
    /\ Tables!InstallFlush <=> Files!InstallFlush
    /\ Tables!FlushFails <=> Files!FlushFails
<1> USE SameData DEF Tables!Flushed, Files!Flushed, Tables!compactorVars, Files!compactorVars,
                     Tables!dirVars, Files!dirVars
<1>1. \A m : Tables!PublishFlush(m) <=> Files!PublishFlush(m)
    BY DEF Tables!PublishFlush, Tables!ChangeDir, Tables!DirWith, Tables!DirWithout,
           Tables!SameName, Files!PublishFlush, Files!ChangeDir, Files!DirWith, Files!DirWithout,
           Files!SameName
<1>2. Tables!SyncFlush <=> Files!SyncFlush
    BY DEF Tables!SyncFlush, Tables!FsyncDir, Files!SyncFlush, Files!FsyncDir
<1>3. Tables!InstallFlush <=> Files!InstallFlush
    BY DEF Tables!InstallFlush, Files!InstallFlush
<1>4. Tables!FlushFails <=> Files!FlushFails
    BY DEF Tables!FlushFails, Files!FlushFails
<1> QED
    BY <1>1, <1>2, <1>3, <1>4

LEMMA SameCompact ==
    /\ Tables!PickRun <=> Files!PickRun
    /\ Tables!CaptureRun <=> Files!CaptureRun
    /\ Tables!SkipReplacement <=> Files!SkipReplacement
    /\ Tables!PublishMerge <=> Files!PublishMerge
    /\ Tables!SyncMerge <=> Files!SyncMerge
    /\ Tables!SwapRun <=> Files!SwapRun
    /\ Tables!RemoveObsolete <=> Files!RemoveObsolete
    /\ Tables!CompactDone <=> Files!CompactDone
    /\ Tables!CompactFails <=> Files!CompactFails
<1> USE DEF Tables!dirVars, Files!dirVars, Tables!writerVars, Files!writerVars
<1>1. Tables!PickRun <=> Files!PickRun
    BY DEF Tables!PickRun, Files!PickRun
<1>2. Tables!CaptureRun <=> Files!CaptureRun
    BY DEF Tables!CaptureRun, Files!CaptureRun
<1>3. Tables!SkipReplacement <=> Files!SkipReplacement
    BY SameData, SameMerge DEF Tables!SkipReplacement, Files!SkipReplacement
<1>4. Tables!PublishMerge <=> Files!PublishMerge
    BY SameData, SameMerge
    DEF Tables!PublishMerge, Tables!ChangeDir, Tables!DirWith, Tables!DirWithout, Tables!SameName,
        Files!PublishMerge, Files!ChangeDir, Files!DirWith, Files!DirWithout, Files!SameName
<1>5. Tables!SyncMerge <=> Files!SyncMerge
    BY DEF Tables!SyncMerge, Tables!FsyncDir, Files!SyncMerge, Files!FsyncDir
<1>6. Tables!SwapRun <=> Files!SwapRun
    BY SameMerge DEF Tables!SwapRun, Tables!Splice, Files!SwapRun, Files!Splice
<1>7. Tables!RemoveObsolete <=> Files!RemoveObsolete
    BY DEF Tables!RemoveObsolete, Tables!ChangeDir, Tables!DirWithout, Tables!SameName,
           Files!RemoveObsolete, Files!ChangeDir, Files!DirWithout, Files!SameName
<1>8. Tables!CompactDone <=> Files!CompactDone
    BY DEF Tables!CompactDone, Tables!CompactorIdle, Files!CompactDone, Files!CompactorIdle
<1>9. Tables!CompactFails <=> Files!CompactFails
    BY SameMerge
    DEF Tables!CompactFails, Tables!CompactorIdle, Files!CompactFails, Files!CompactorIdle
<1> QED
    BY <1>1, <1>2, <1>3, <1>4, <1>5, <1>6, <1>7, <1>8, <1>9

LEMMA SameRead ==
    /\ \A r, k : Tables!GetSnapshot(r, k) <=> Files!GetSnapshot(r, k)
    /\ \A r : Tables!ProbeMiss(r) <=> Files!ProbeMiss(r)
    /\ \A r : Tables!ProbeHit(r) <=> Files!ProbeHit(r)
    /\ \A r : Tables!ProbeNothingLeft(r) <=> Files!ProbeNothingLeft(r)
    /\ \A r : Tables!Return(r) <=> Files!Return(r)
<1> USE DEF Tables!dirVars, Files!dirVars, Tables!writerVars, Files!writerVars,
            Tables!compactorVars, Files!compactorVars, Tables!Probed, Files!Probed
<1>1. \A r, k : Tables!GetSnapshot(r, k) <=> Files!GetSnapshot(r, k)
    BY SameView DEF Tables!GetSnapshot, Files!GetSnapshot
<1>2. \A r : Tables!ProbeMiss(r) <=> Files!ProbeMiss(r)
    BY DEF Tables!ProbeMiss, Files!ProbeMiss
<1>3. \A r : Tables!ProbeHit(r) <=> Files!ProbeHit(r)
    BY DEF Tables!ProbeHit, Tables!Visible, Files!ProbeHit, Files!Visible
<1>4. \A r : Tables!ProbeNothingLeft(r) <=> Files!ProbeNothingLeft(r)
    BY DEF Tables!ProbeNothingLeft, Files!ProbeNothingLeft
<1>5. \A r : Tables!Return(r) <=> Files!Return(r)
    BY SameTypes DEF Tables!Return, Files!Return
<1> QED
    BY <1>1, <1>2, <1>3, <1>4, <1>5

LEMMA SameRecover ==
    /\ Tables!MemoryLost <=> Files!MemoryLost
    /\ Tables!PowerLoss <=> Files!PowerLoss
    /\ Tables!ProcessDies <=> Files!ProcessDies
    /\ Tables!CleanLeftover <=> Files!CleanLeftover
    /\ Tables!OpenSet <=> Files!OpenSet
<1> USE DEF Tables!dirVars, Files!dirVars, Tables!writerVars, Files!writerVars,
            Tables!compactorVars, Files!compactorVars
<1>1. Tables!MemoryLost <=> Files!MemoryLost
    BY SameData, SameTypes
    DEF Tables!MemoryLost, Tables!CompactorIdle, Files!MemoryLost, Files!CompactorIdle
<1>2. Tables!PowerLoss <=> Files!PowerLoss
    BY <1>1 DEF Tables!PowerLoss, Files!PowerLoss
<1>3. Tables!ProcessDies <=> Files!ProcessDies
    BY <1>1 DEF Tables!ProcessDies, Files!ProcessDies
<1>4. Tables!CleanLeftover <=> Files!CleanLeftover
    BY SameDirs
    DEF Tables!CleanLeftover, Tables!ChangeDir, Tables!DirWithout, Tables!SameName, Tables!Before,
        Files!CleanLeftover, Files!ChangeDir, Files!DirWithout, Files!SameName, Files!Before
<1>5. Tables!OpenSet <=> Files!OpenSet
    BY SameDirs DEF Tables!OpenSet, Tables!NextSeq, Files!OpenSet, Files!NextSeq
<1> QED
    BY <1>1, <1>2, <1>3, <1>4, <1>5
-----------------------------------------------------------------------------
(* The log.                                                                *)

\* A nonempty set of positions has a first one.
LEMMA FirstExists ==
    ASSUME NEW H \in SUBSET Nat, H # {}
    PROVE  \E i \in H : \A j \in H : i <= j
<1>1. PICK i \in H : \A j \in H : ~(<<j, i>> \in OpToRel(<, Nat))
    <2>1. IsWellFoundedOn(OpToRel(<, Nat), Nat)
        BY NatLessThanWellFounded
    <2> QED
        BY <2>1, WFMin
<1>2. ASSUME NEW j \in H PROVE i <= j
    <2>1. <<j, i>> \notin OpToRel(<, Nat) /\ i \in Nat /\ j \in Nat
        BY <1>1
    <2>2. ~(j < i)
        BY <2>1 DEF OpToRel
    <2>3. \A a, b \in Nat : ~(a < b) => b <= a
        OBVIOUS
    <2> QED
        BY <2>1, <2>2, <2>3
<1> QED
    BY <1>2

LEMMA RecordsType ==
    ASSUME NEW l \in Seq(LogItem)
    PROVE  /\ Records(l) \in Seq(Operation) /\ Len(Records(l)) = Len(l)
           /\ \A i \in 1..Len(l) : Records(l)[i] = l[i].record
<1>1. Len(l) \in Nat /\ DOMAIN l = 1..Len(l) /\ \A i \in 1..Len(l) : l[i] \in LogItem
    BY LenProperties, ElementOfSeq
<1>2. Records(l) \in [1..Len(l) -> Operation]
    BY <1>1 DEF Records, LogItem
<1> HIDE DEF Operation
<1>3. Records(l) \in Seq(Operation)
    BY <1>1, <1>2, SeqDef
<1>4. DOMAIN Records(l) = 1..Len(Records(l)) /\ Len(Records(l)) \in Nat
    BY <1>3, LenProperties
<1>5. Len(Records(l)) = Len(l)
    BY <1>1, <1>2, <1>4
<1> QED
    BY <1>1, <1>3, <1>5 DEF Records

\* Replay ends with a sequence of writes, wherever the first fragment is.
LEMMA ReplayedType ==
    ASSUME NEW l \in Seq(LogItem)
    PROVE  Replayed(l) \in Seq(Operation)
<1>1. CASE Fragments(l) = {}
    BY <1>1, RecordsType DEF Replayed
<1>2. CASE Fragments(l) # {}
    <2> DEFINE first == CHOOSE i \in Fragments(l) : \A j \in Fragments(l) : i <= j
    <2>1. Len(l) \in Nat /\ DOMAIN l = 1..Len(l) /\ \A i \in 1..Len(l) : l[i] \in LogItem
        BY LenProperties, ElementOfSeq
    <2>2. Fragments(l) \in SUBSET Nat /\ Fragments(l) \subseteq 1..Len(l)
        BY <2>1 DEF Fragments
    <2>3. first \in Fragments(l)
        BY <1>2, <2>2, FirstExists
    <2>4. Replayed(l) = Records(SubSeq(l, 1, first - 1))
        BY <1>2 DEF Replayed
    <2> HIDE DEF first
    <2>5. 1 \in Int /\ first - 1 \in Int /\ \A i \in 1..first - 1 : l[i] \in LogItem
        BY <2>1, <2>2, <2>3
    <2>6. SubSeq(l, 1, first - 1) \in Seq(LogItem)
        BY <2>5, SubSeqProperties
    <2> QED
        BY <2>4, <2>6, RecordsType
<1> QED
    BY <1>1, <1>2

LEMMA WritesType ==
    ASSUME NEW ws \in Seq(Operation), NEW k \in Key
    PROVE  /\ Len(ws) \in Nat /\ DOMAIN ws = 1..Len(ws)
           /\ Writes(ws, k) \in SUBSET (1..Len(ws))
           /\ \A i \in 1..Len(ws) : ws[i] \in Operation
BY LenProperties, ElementOfSeq DEF Writes

LEMMA MemtableOfType ==
    ASSUME NEW ws \in Seq(Operation)
    PROVE  MemtableOf(ws) \in Data
<1>1. ASSUME NEW k \in Key, Writes(ws, k) # {} PROVE ws[Newest(Writes(ws, k))].entry \in Entry
    <2>1. Newest(Writes(ws, k)) \in 1..Len(ws)
        BY <1>1, WritesType, NewestIsMax
    <2> QED
        BY <2>1, WritesType DEF Operation, Entry
<1> QED
    BY <1>1 DEF MemtableOf, Data, Entry

\* One more write replayed is that write applied to the memtable.
LEMMA OneMoreWrite ==
    ASSUME NEW ws \in Seq(Operation), NEW o \in Operation
    PROVE  MemtableOf(Append(ws, o)) = [MemtableOf(ws) EXCEPT ![o.key] = o.entry]
<1> DEFINE n == Len(ws)
           us == Append(ws, o)
<1>1. /\ us \in Seq(Operation) /\ Len(us) = n + 1 /\ n \in Nat
      /\ \A i \in 1..n : us[i] = ws[i]
      /\ us[n + 1] = o
    BY AppendProperties, LenProperties
<1>2. DOMAIN us = 1..n + 1 /\ DOMAIN ws = 1..n
    BY <1>1, LenProperties
<1> HIDE DEF us, n
<1>3. MemtableOf(us)[o.key] = o.entry
    <2>1. n + 1 \in Writes(us, o.key) /\ Writes(us, o.key) \in SUBSET (1..n + 1)
        BY <1>1, <1>2 DEF Writes
    <2>2. Newest(Writes(us, o.key)) \in 1..n + 1 /\ n + 1 <= Newest(Writes(us, o.key))
        <3>1. n + 1 \in Nat /\ Writes(us, o.key) # {}
            BY <1>1, <2>1
        <3>2. /\ Newest(Writes(us, o.key)) \in Writes(us, o.key)
              /\ \A j \in Writes(us, o.key) : j <= Newest(Writes(us, o.key))
            BY <2>1, <3>1, NewestIsMax
        <3> QED
            BY <2>1, <3>2
    <2>3. Newest(Writes(us, o.key)) = n + 1
        BY <1>1, <2>2
    <2> QED
        BY <1>1, <2>1, <2>3 DEF MemtableOf, Operation
<1>4. ASSUME NEW k \in Key, k # o.key PROVE MemtableOf(us)[k] = MemtableOf(ws)[k]
    <2>1. Writes(us, k) = Writes(ws, k)
        BY <1>1, <1>2, <1>4 DEF Writes
    <2>2. CASE Writes(ws, k) = {}
        BY <2>1, <2>2 DEF MemtableOf
    <2>3. CASE Writes(ws, k) # {}
        <3>1. Newest(Writes(ws, k)) \in 1..n
            BY <1>1, <2>3, WritesType, NewestIsMax DEF n
        <3> QED
            BY <1>1, <2>1, <2>3, <3>1 DEF MemtableOf
    <2> QED
        BY <2>2, <2>3
<1> QED
    BY <1>3, <1>4 DEF MemtableOf, us

\* Writing a frame behind whole frames.
LEMMA OneMoreFrame ==
    ASSUME NEW l \in Seq(LogItem), Fragments(l) = {}, NEW o \in Operation
    PROVE  /\ Append(l, Whole(o)) \in Seq(LogItem)
           /\ Fragments(Append(l, Whole(o))) = {}
           /\ MemtableOf(Replayed(Append(l, Whole(o)))) =
                  [MemtableOf(Replayed(l)) EXCEPT ![o.key] = o.entry]
<1> DEFINE u == Append(l, Whole(o))
<1>1. Whole(o) \in LogItem /\ Whole(o).record = o /\ Whole(o).whole = TRUE
    BY DEF Whole, LogItem
<1>2. /\ u \in Seq(LogItem) /\ Len(u) = Len(l) + 1 /\ Len(l) \in Nat
      /\ \A i \in 1..Len(l) : u[i] = l[i]
      /\ u[Len(l) + 1] = Whole(o)
    BY <1>1, AppendProperties, LenProperties
<1> HIDE DEF u
<1>3. DOMAIN u = 1..Len(l) + 1 /\ DOMAIN l = 1..Len(l)
    BY <1>2, LenProperties
<1>4. Fragments(u) = {}
    BY <1>1, <1>2, <1>3 DEF Fragments
<1>5. Records(u) = Append(Records(l), o)
    <2>1. /\ Records(u) \in Seq(Operation) /\ Len(Records(u)) = Len(l) + 1
          /\ \A i \in 1..Len(l) + 1 : Records(u)[i] = u[i].record
        BY <1>2, RecordsType
    <2>2. /\ Records(l) \in Seq(Operation) /\ Len(Records(l)) = Len(l)
          /\ \A i \in 1..Len(l) : Records(l)[i] = l[i].record
        BY RecordsType
    <2> DEFINE ws == Records(l)
               us == Append(ws, o)
    <2>3. /\ us \in Seq(Operation) /\ Len(us) = Len(ws) + 1
          /\ \A i \in 1..Len(ws) : us[i] = ws[i]
          /\ us[Len(ws) + 1] = o
        BY <2>2, AppendProperties
    <2> HIDE DEF ws, us
    <2>4. \A i \in 1..Len(l) + 1 : Records(u)[i] = us[i]
        BY <1>1, <1>2, <2>1, <2>2, <2>3 DEF ws
    <2>5. Len(Records(u)) = Len(us)
        BY <2>1, <2>2, <2>3 DEF ws
    <2>6. Records(u) = us
        BY <2>1, <2>3, <2>4, <2>5, SeqEqual
    <2> QED
        BY <2>6 DEF us, ws
<1>6. MemtableOf(Append(Records(l), o)) = [MemtableOf(Records(l)) EXCEPT ![o.key] = o.entry]
    BY RecordsType, OneMoreWrite
<1> QED
    BY <1>2, <1>4, <1>5, <1>6 DEF Replayed, u

\* An empty log says nothing.
LEMMA EmptyLog ==
    /\ <<>> \in Seq(LogItem) /\ Fragments(<<>>) = {}
    /\ MemtableOf(Replayed(<<>>)) = Empty
<1>1. <<>> \in Seq(LogItem) /\ DOMAIN <<>> = {}
    OBVIOUS
<1>2. Fragments(<<>>) = {}
    BY <1>1 DEF Fragments
<1>3. DOMAIN Records(<<>>) = {}
    BY <1>1 DEF Records
<1>4. \A k \in Key : Writes(Records(<<>>), k) = {}
    BY <1>3 DEF Writes
<1> QED
    BY <1>1, <1>2, <1>4 DEF Replayed, MemtableOf, Empty
-----------------------------------------------------------------------------
(* Type correctness.                                                       *)

\* put and delete are under way, until they return.
Working == {"begun", "written", "logged", "flush", "flushed", "truncating", "truncated"}

\* The thread that owns the database and the tables agree on where they are.
PhaseOfPc == phase = IF pc \in {"closed", "opening"} THEN "down" ELSE "up"

\* A write runs alone, and it is that of op; the table it writes holds the
\* memtable, which has op in it.
WriterAlone ==
    /\ pc # "idle" => Exclusive
    /\ pc \in Working => op \in Operation
    /\ writer # "idle" => pc = "flush" /\ batch = map
    /\ pc = "flush" => map[op.key] = op.entry

\* TypeOK is not inductive alone: a flush has a memtable it may write only
\* because the write that led to it is in it.
DbTypeInv == TypeOK /\ Files!TypeInv /\ PhaseOfPc /\ WriterAlone

LEMMA FlushedIsMemtable ==
    ASSUME DbTypeInv, pc = "flush"
    PROVE  map \in Data \ {Empty}
BY LayersAssumption DEF DbTypeInv, TypeOK, WriterAlone, Working, Operation, Empty

\* But for two of them, the steps of the database are steps of its tables.
LEMMA TablesStep ==
    ASSUME DbTypeInv, [Next]_vars
    PROVE  \/ [Files!Next]_(Files!vars)
           \/ Joined
           \/ \E r \in Reader, k \in Key : GetFromMemtable(r, k)
<1>1. ASSUME UNCHANGED tableVars PROVE [Files!Next]_(Files!vars)
    BY <1>1 DEF tableVars, Files!vars, Files!dirVars, Files!writerVars, Files!compactorVars
<1>2. CASE \/ \E o \in Operation : Begin(o)
           \/ LogWrite \/ LogWriteFails \/ LogSync \/ LogSyncFails \/ Insert
           \/ Truncate \/ TruncateSync \/ TruncateFails \/ Signal
    BY <1>1, <1>2 DEF Begin, LogWrite, LogWriteFails, LogSync, LogSyncFails, Insert, Truncate,
                      TruncateSync, TruncateFails, Signal
<1>3. CASE Recv \/ RecvDisconnected \/ NoRun \/ Replay \/ OpenFails \/ Drop \/ UNCHANGED vars
    BY <1>1, <1>3 DEF Recv, RecvDisconnected, NoRun, Replay, OpenFails, Drop, vars
<1>4. CASE FlushPublish
    BY <1>4, FlushedIsMemtable, SameFlush DEF FlushPublish, Files!Next, Files!Flush
<1>5. CASE FlushSync \/ FlushInstall
    BY <1>5, SameFlush DEF FlushSync, FlushInstall, Files!Next, Files!Flush
<1>6. CASE FlushFails
    BY <1>1, <1>6, SameFlush DEF FlushFails, Files!Next, Files!Flush
<1>7. CASE CompactStep \/ CompactFails
    BY <1>7, SameCompact DEF CompactStep, CompactFails, Files!Next, Files!Compact
<1>8. CASE OpenTables \/ Opened \/ PowerLoss \/ ProcessDies
    BY <1>8, SameRecover DEF OpenTables, Opened, PowerLoss, ProcessDies, Files!Next, Files!Recover
<1>9. ASSUME NEW r \in Reader, Get(r), ~\E k \in Key : GetFromMemtable(r, k)
      PROVE  [Files!Next]_(Files!vars)
    <2>1. \/ \E k \in Key : Files!GetSnapshot(r, k)
          \/ Files!ProbeMiss(r) \/ Files!ProbeHit(r) \/ Files!ProbeNothingLeft(r)
          \/ Files!Return(r)
        BY <1>9, SameRead DEF Get, GetFromTables
    <2> QED
        BY <2>1 DEF Files!Next, Files!Get
<1> QED
    BY <1>2, <1>3, <1>4, <1>5, <1>6, <1>7, <1>8, <1>9 DEF Next, Write, Compactor, Open

\* What a get that finds its answer in the memtable leaves for its caller.
LEMMA ReadOfMemtable ==
    ASSUME DbTypeInv, NEW r \in Reader, NEW k \in Key, GetFromMemtable(r, k)
    PROVE  \E x \in Files!ReaderStates :
              /\ Files!SearchOK(x) /\ reader' = [reader EXCEPT ![r] = x]
              /\ x.pc = "done" /\ x.key = k /\ x.result = Visible(map[k])
<1> DEFINE x == [pc |-> "done", key |-> k, snap |-> <<>>, left |-> 0,
                 expected |-> Visible(map[k]), result |-> Visible(map[k])]
<1>1. Visible(map[k]) \in Value \cup {None}
    BY VisibleType DEF DbTypeInv, TypeOK, Data
<1>2. <<>> \in Seq(Files!Table)
    OBVIOUS
<1>3. /\ x \in Files!ReaderStates /\ x.pc = "done" /\ x.key = k /\ x.result = Visible(map[k])
      /\ x.expected = x.result
    BY <1>1, <1>2 DEF Files!ReaderStates
<1>4. reader' = [reader EXCEPT ![r] = x]
    BY DEF GetFromMemtable
<1> HIDE DEF x
<1>5. Files!SearchOK(x)
    BY <1>3 DEF Files!SearchOK
<1> QED
    BY <1>3, <1>4, <1>5

LEMMA FilesTyped ==
    ASSUME DbTypeInv, [Next]_vars
    PROVE  Files!TypeInv'
<1> USE DEF Files!dirVars, Files!writerVars, Files!compactorVars
<1>1. CASE [Files!Next]_(Files!vars)
    BY <1>1, FilesAssumptions, Files!TypeInvNext DEF DbTypeInv
<1>2. CASE Joined
    BY <1>2, FilesAssumptions, SameRecover, Files!TypeClosed DEF Joined, DbTypeInv
<1>3. ASSUME NEW r \in Reader, NEW k \in Key, GetFromMemtable(r, k) PROVE Files!TypeInv'
    <2>1. PICK x \in Files!ReaderStates :
              Files!SearchOK(x) /\ reader' = [reader EXCEPT ![r] = x]
        BY <1>3, ReadOfMemtable
    <2> QED
        BY <1>3, <2>1, FilesAssumptions, Files!TypeRead DEF DbTypeInv, GetFromMemtable
<1> QED
    BY <1>1, <1>2, <1>3, TablesStep

\* What is in the log has a type.
LEMMA LogTyped ==
    ASSUME DbTypeInv, [Next]_vars
    PROVE  WalTypeOK'
<1>1. log \in Seq(LogItem) /\ crash_logs \subseteq Seq(LogItem) /\ log \in crash_logs
    BY DEF DbTypeInv, TypeOK, WalTypeOK
<1>2. ASSUME UNCHANGED walVars PROVE WalTypeOK'
    BY <1>1, <1>2 DEF walVars, WalTypeOK
<1>3. ASSUME NEW o \in Operation
      PROVE  Append(log, Whole(o)) \in Seq(LogItem) /\ Append(log, Fragment(o)) \in Seq(LogItem)
    <2>1. Whole(o) \in LogItem /\ Fragment(o) \in LogItem
        BY DEF Whole, Fragment, LogItem
    <2> QED
        BY <1>1, <2>1, AppendProperties
<1>4. CASE LogWrite \/ LogWriteFails
    <2>1. op \in Operation
        BY <1>4 DEF LogWrite, LogWriteFails, DbTypeInv, WriterAlone, Working
    <2> QED
        BY <1>1, <1>3, <1>4, <2>1 DEF LogWrite, LogWriteFails, WalWrite, WalWriteFails, WalTypeOK
<1>5. CASE LogSync \/ Truncate \/ TruncateSync \/ PowerLoss
    BY <1>1, <1>5, EmptyLog
    DEF LogSync, WalSync, Truncate, SetLenZero, TruncateSync, SyncLength, PowerLoss, WalCrash,
        WalTypeOK
<1>6. CASE (\E o \in Operation : Begin(o)) \/ LogSyncFails \/ Insert \/ TruncateFails \/ Signal
    BY <1>2, <1>6 DEF Begin, LogSyncFails, Insert, TruncateFails, Signal
<1>7. CASE FlushPublish \/ FlushSync \/ FlushInstall \/ FlushFails
    BY <1>2, <1>7 DEF FlushPublish, FlushSync, FlushInstall, FlushFails
<1>8. CASE Compactor \/ (\E r \in Reader : Get(r))
    BY <1>2, <1>8 DEF Compactor, Recv, RecvDisconnected, NoRun, CompactStep, CompactFails, Get
<1>9. CASE Open \/ Drop \/ Joined \/ ProcessDies \/ UNCHANGED vars
    BY <1>2, <1>9 DEF Open, Replay, OpenTables, OpenFails, Opened, Drop, Joined, ProcessDies, vars
<1> QED
    BY <1>4, <1>5, <1>6, <1>7, <1>8, <1>9 DEF Next, Write

\* So has the rest of what the database keeps in memory.
MemoryTypeOK ==
    /\ pc \in {"closed", "opening", "idle"} \cup Working \cup {"joining"}
    /\ op \in Operation \cup {NoOp}
    /\ map \in Data
    /\ size \in Nat
    /\ flush_tx \in BOOLEAN
    /\ signals \in Nat
    /\ thread \in {"none", "parked", "pass", "over"}
    /\ ops \in Nat
    /\ allowed \in [Key -> SUBSET (Value \cup {None})]

LEMMA TypeParts == TypeOK <=> Files!TypeOK /\ WalTypeOK /\ MemoryTypeOK
BY SameTypes DEF TypeOK, MemoryTypeOK, Working

LEMMA OperationType ==
    ASSUME NEW o \in Operation
    PROVE  o.key \in Key /\ o.entry \in Entry /\ Visible(o.entry) \in Value \cup {None}
           /\ Size[o.entry] \in Nat /\ o.entry # None
BY LayersAssumption, DbAssumption, VisibleType DEF DbAssumption, Operation, Entry

LEMMA MemoryTyped ==
    ASSUME DbTypeInv, [Next]_vars
    PROVE  MemoryTypeOK'
<1>1. MemoryTypeOK /\ (pc \in Working => op \in Operation)
    BY TypeParts DEF DbTypeInv, WriterAlone
<1> USE DEF MemoryTypeOK, Working, memVars, threadVars, callVars, Fail, Finish, Succeed
<1>2. CASE \/ LogWrite \/ LogWriteFails \/ LogSync \/ LogSyncFails
           \/ Truncate \/ TruncateSync \/ TruncateFails
    BY <1>1, <1>2
    DEF LogWrite, LogWriteFails, LogSync, LogSyncFails, Truncate, TruncateSync, TruncateFails
<1>3. ASSUME NEW o \in Operation, Begin(o) PROVE MemoryTypeOK'
    BY <1>1, <1>3, OperationType DEF Begin
<1>4. CASE Insert \/ Signal
    <2>1. op \in Operation /\ op.key \in Key /\ op.entry \in Entry /\ Size[op.entry] \in Nat
          /\ Visible(op.entry) \in Value \cup {None}
        BY <1>1, <1>4, OperationType DEF Insert, Signal
    <2> QED
        BY <1>1, <1>4, <2>1 DEF Insert, Signal, Data
<1>5. CASE FlushPublish \/ FlushSync \/ FlushInstall \/ FlushFails
    BY <1>1, <1>5, EmptyType DEF FlushPublish, FlushSync, FlushInstall, FlushFails
<1>6. CASE Recv \/ RecvDisconnected \/ NoRun \/ CompactStep \/ CompactFails
    BY <1>1, <1>6 DEF Recv, RecvDisconnected, NoRun, CompactStep, CompactFails
<1>7. CASE (\E r \in Reader : Get(r)) \/ OpenTables \/ Drop
    BY <1>1, <1>7 DEF Get, OpenTables, Drop
<1>8. CASE Opened
    BY <1>1, <1>8 DEF Opened
<1>9. CASE Replay
    <2>1. MemtableOf(Replayed(log)) \in Data
        BY ReplayedType, MemtableOfType DEF DbTypeInv, TypeOK, WalTypeOK
    <2> QED
        BY <1>1, <1>9, <2>1 DEF Replay
<1>10. CASE OpenFails \/ Joined \/ PowerLoss \/ ProcessDies
    <2>1. MemoryLost /\ ops' = ops /\ allowed' = allowed
        BY <1>10 DEF OpenFails, Joined, PowerLoss, ProcessDies
    <2>2. /\ pc' = "closed" /\ op' = NoOp /\ map' = Empty /\ size' = 0 /\ flush_tx' = FALSE
          /\ signals' = 0 /\ thread' = "none"
        BY <2>1 DEF MemoryLost
    <2> QED
        BY <1>1, <2>1, <2>2, EmptyType
<1>11. CASE UNCHANGED vars
    BY <1>1, <1>11 DEF vars
<1> QED
    BY <1>2, <1>3, <1>4, <1>5, <1>6, <1>7, <1>8, <1>9, <1>10, <1>11 DEF Next, Write, Compactor, Open

\* What the tables' own steps do to the phase, the writer and the readers.
LEMMA TablesFrame ==
    /\ CompactStep \/ CompactFails \/ OpenTables => UNCHANGED <<phase, writer, batch, reader>>
    /\ \A r \in Reader : Get(r) => UNCHANGED <<phase, writer, batch>>
    /\ MemoryLost /\ Tables!MemoryLost =>
           phase' = "down" /\ writer' = "idle" /\ Exclusive' /\ pc' = "closed"
    /\ Joined \/ PowerLoss \/ ProcessDies => MemoryLost /\ Tables!MemoryLost
<1> USE DEF Tables!writerVars
<1>1. CompactStep => UNCHANGED <<phase, writer, batch, reader>>
    BY DEF CompactStep, Tables!PickRun, Tables!CaptureRun, Tables!SkipReplacement,
           Tables!PublishMerge, Tables!SyncMerge, Tables!SwapRun, Tables!RemoveObsolete,
           Tables!CompactDone
<1>2. CompactFails \/ OpenTables => UNCHANGED <<phase, writer, batch, reader>>
    BY DEF CompactFails, OpenTables, Tables!CompactFails, Tables!CleanLeftover
<1>3. \A r \in Reader : Get(r) => UNCHANGED <<phase, writer, batch>>
    BY DEF Get, GetFromMemtable, GetFromTables, Tables!GetSnapshot, Tables!ProbeMiss,
           Tables!ProbeHit, Tables!ProbeNothingLeft, Tables!Return
<1>4. MemoryLost /\ Tables!MemoryLost =>
          phase' = "down" /\ writer' = "idle" /\ Exclusive' /\ pc' = "closed"
    BY DEF MemoryLost, Tables!MemoryLost, Exclusive
<1>5. Joined \/ PowerLoss \/ ProcessDies => MemoryLost /\ Tables!MemoryLost
    BY DEF Joined, PowerLoss, ProcessDies, Tables!PowerLoss, Tables!ProcessDies
<1> QED
    BY <1>1, <1>2, <1>3, <1>4, <1>5

\* A thread is in get only while nothing is written, opened or closed.
LEMMA ReadWhileIdle ==
    ASSUME DbTypeInv, NEW r \in Reader, Get(r)
    PROVE  pc = "idle"
<1>1. CASE reader[r].pc = "probing" \/ reader[r].pc = "done"
    BY <1>1 DEF DbTypeInv, WriterAlone, Exclusive, Tables!ReaderIdle
<1>2. CASE reader[r].pc # "probing" /\ reader[r].pc # "done"
    BY <1>2 DEF Get, GetFromMemtable, GetFromTables, Tables!ProbeMiss, Tables!ProbeHit,
                Tables!ProbeNothingLeft, Tables!Return
<1> QED
    BY <1>1, <1>2

LEMMA PhaseOfPcNext ==
    ASSUME DbTypeInv, [Next]_vars
    PROVE  PhaseOfPc'
<1>1. PhaseOfPc
    BY DEF DbTypeInv
<1> USE DEF PhaseOfPc
<1>2. CASE \/ \E o \in Operation : Begin(o)
           \/ LogWrite \/ LogWriteFails \/ LogSync \/ LogSyncFails \/ Insert
           \/ Truncate \/ TruncateSync \/ TruncateFails \/ Signal
    BY <1>1, <1>2 DEF Begin, LogWrite, LogWriteFails, LogSync, LogSyncFails, Insert, Truncate,
                      TruncateSync, TruncateFails, Signal, tableVars, Fail, Succeed, Finish
<1>3. CASE FlushPublish \/ FlushFails
    BY <1>1, <1>3 DEF FlushPublish, FlushFails, Tables!PublishFlush, Tables!FlushFails, tableVars,
                      Fail, Finish
<1>4. CASE FlushSync \/ FlushInstall
    <2>1. pc = "flush"
        BY <1>4 DEF FlushSync, FlushInstall, Tables!SyncFlush, Tables!InstallFlush, DbTypeInv,
                    WriterAlone
    <2> QED
        BY <1>1, <1>4, <2>1 DEF FlushSync, FlushInstall, Tables!SyncFlush, Tables!InstallFlush
<1>5. CASE CompactStep \/ CompactFails \/ OpenTables
    BY <1>1, <1>5, TablesFrame DEF CompactStep, CompactFails, OpenTables
<1>6. CASE Recv \/ RecvDisconnected \/ NoRun \/ Replay \/ Drop \/ UNCHANGED vars
    BY <1>1, <1>6 DEF Recv, RecvDisconnected, NoRun, Replay, Drop, vars, tableVars
<1>7. CASE \E r \in Reader : Get(r)
    BY <1>1, <1>7, TablesFrame DEF Get
<1>8. CASE Opened
    BY <1>8 DEF Opened, Tables!OpenSet
<1>9. CASE Joined \/ PowerLoss \/ ProcessDies
    BY <1>9, TablesFrame
<1>10. CASE OpenFails
    BY <1>1, <1>10 DEF OpenFails, MemoryLost, tableVars
<1> QED
    BY <1>2, <1>3, <1>4, <1>5, <1>6, <1>7, <1>8, <1>9, <1>10 DEF Next, Write, Compactor, Open

LEMMA WriterAloneNext ==
    ASSUME DbTypeInv, [Next]_vars
    PROVE  WriterAlone'
<1>1. WriterAlone /\ op \in Operation \cup {NoOp} /\ map \in Data
    BY DEF DbTypeInv, TypeOK
<1> USE DEF WriterAlone, Working
<1>2. ASSUME UNCHANGED reader, Exclusive PROVE Exclusive'
    BY <1>2 DEF Exclusive
<1>3. ASSUME NEW o \in Operation, Begin(o) PROVE WriterAlone'
    BY <1>1, <1>2, <1>3 DEF Begin, tableVars
<1>4. CASE \/ LogWrite \/ LogWriteFails \/ LogSync \/ LogSyncFails
           \/ Truncate \/ TruncateSync \/ TruncateFails \/ Signal
    <2>1. /\ pc \in Working \ {"flush"}
          /\ pc' = "idle" \/ (pc' \in Working \ {"flush"} /\ op' = op)
          /\ UNCHANGED <<reader, writer, batch>>
        BY <1>4
        DEF LogWrite, LogWriteFails, LogSync, LogSyncFails, Truncate, TruncateSync, TruncateFails,
            Signal, Fail, Succeed, Finish, tableVars
    <2> QED
        BY <1>1, <1>2, <2>1
<1>5. CASE Insert
    <2>1. /\ pc = "logged" /\ (pc' = "idle" \/ (pc' = "flush" /\ op' = op))
          /\ map' = [map EXCEPT ![op.key] = op.entry]
          /\ UNCHANGED <<reader, writer, batch>>
        BY <1>5 DEF Insert, Succeed, Finish, tableVars
    <2>2. op \in Operation /\ op.key \in Key
        BY <1>1, <2>1, OperationType
    <2>3. map'[op.key] = op.entry
        BY <1>1, <2>1, <2>2 DEF Data
    <2> QED
        BY <1>1, <1>2, <2>1, <2>2, <2>3
<1>6. CASE FlushPublish \/ FlushSync
    <2>1. /\ pc = "flush" /\ UNCHANGED <<reader, pc, op, map>>
          /\ batch' = map
        BY <1>1, <1>6
        DEF FlushPublish, FlushSync, Tables!PublishFlush, Tables!SyncFlush, memVars
    <2> QED
        BY <1>1, <1>2, <2>1
<1>7. CASE FlushInstall \/ FlushFails
    <2>1. /\ pc = "flush" /\ writer' = "idle" /\ UNCHANGED reader
          /\ pc' = "idle" \/ (pc' = "flushed" /\ op' = op)
        BY <1>1, <1>7
        DEF FlushInstall, FlushFails, Tables!InstallFlush, Tables!FlushFails, Fail, Finish,
            tableVars
    <2> QED
        BY <1>1, <1>2, <2>1
<1>8. CASE CompactStep \/ CompactFails \/ OpenTables
    <2>1. UNCHANGED <<writer, batch, reader, pc, op, map>>
        BY <1>8, TablesFrame DEF CompactStep, CompactFails, OpenTables, memVars
    <2> QED
        BY <1>1, <1>2, <2>1
<1>9. CASE Recv \/ RecvDisconnected \/ NoRun \/ UNCHANGED vars
    BY <1>1, <1>2, <1>9 DEF Recv, RecvDisconnected, NoRun, vars, tableVars, memVars
<1>10. CASE Replay \/ OpenFails \/ Drop
    <2>1. /\ pc \in {"closed", "opening", "idle"} /\ Exclusive
          /\ pc' \in {"closed", "opening", "joining"} /\ UNCHANGED <<writer, batch, reader>>
        BY <1>1, <1>10 DEF Replay, OpenFails, Drop, MemoryLost, tableVars
    <2> QED
        BY <1>1, <1>2, <2>1
<1>11. CASE Opened
    BY <1>1, <1>11 DEF Opened, Tables!OpenSet
<1>12. ASSUME NEW r \in Reader, Get(r) PROVE WriterAlone'
    <2>1. pc = "idle" /\ UNCHANGED <<writer, batch, pc, op, map>>
        BY <1>12, ReadWhileIdle, TablesFrame DEF Get, memVars
    <2> QED
        BY <1>1, <2>1
<1>13. CASE Joined \/ PowerLoss \/ ProcessDies
    BY <1>13, TablesFrame
<1> QED
    BY <1>3, <1>4, <1>5, <1>6, <1>7, <1>8, <1>9, <1>10, <1>11, <1>12, <1>13
    DEF Next, Write, Compactor, Open

LEMMA DbTypeInvInit == Init => DbTypeInv
<1> SUFFICES ASSUME Init PROVE DbTypeInv
    OBVIOUS
<1>1. Files!TypeInv /\ Files!TypeOK
    BY FilesAssumptions, SameTypes, Files!TypeInvInit DEF Init, Files!TypeInv
<1>2. WalTypeOK /\ MemoryTypeOK
    BY EmptyLog, EmptyType DEF Init, WalInit, WalTypeOK, MemoryTypeOK
<1>3. PhaseOfPc /\ WriterAlone
    BY DEF Init, Tables!Init, PhaseOfPc, WriterAlone, Working, Exclusive
<1> QED
    BY <1>1, <1>2, <1>3, TypeParts DEF DbTypeInv

LEMMA DbTypeInvNext == DbTypeInv /\ [Next]_vars => DbTypeInv'
<1> SUFFICES ASSUME DbTypeInv, [Next]_vars PROVE DbTypeInv'
    OBVIOUS
<1>1. Files!TypeInv' /\ Files!TypeOK'
    BY FilesTyped DEF Files!TypeInv
<1>2. TypeOK'
    <2>1. TypeOK' <=> Files!TypeOK' /\ WalTypeOK' /\ MemoryTypeOK'
        BY TypeParts, PTL
    <2> QED
        BY <1>1, <2>1, LogTyped, MemoryTyped
<1> QED
    BY <1>1, <1>2, PhaseOfPcNext, WriterAloneNext DEF DbTypeInv

\* Memtable, log, tables, channel and threads stay well typed, whatever fails
\* and whatever stops; and no flush is ever handed an empty memtable.
THEOREM TypeCorrect == Spec => []TypeOK
<1>1. DbTypeInv => TypeOK
    BY DEF DbTypeInv
<1> QED
    BY <1>1, DbTypeInvInit, DbTypeInvNext, PTL DEF Spec

-----------------------------------------------------------------------------
(* Reading beside the compactor.                                           *)

\* What a get expects to answer is what the database holds now.
ReaderCurrent ==
    \A r \in Reader :
        reader[r].pc # "idle" =>
            reader[r].key \in Key /\ reader[r].expected = Contents[reader[r].key]

LEMMA ContentsWhileOpen ==
    ASSUME phase = "up"
    PROVE  /\ \A k \in Key : map[k] = None => Contents[k] = View(sstables)[k]
           /\ \A k \in Key : map[k] # None => Contents[k] = Visible(map[k])
BY DEF Contents, Apply

\* No compactor step changes what the tables answer.
LEMMA CompactorShowsNothing ==
    ASSUME DbTypeInv, Compactor
    PROVE  UNCHANGED <<phase, map, reader, pc>> /\ View(sstables)' = View(sstables)
<1> USE DEF Tables!writerVars, memVars
<1>1. CASE Recv \/ RecvDisconnected \/ NoRun
    BY <1>1 DEF Recv, RecvDisconnected, NoRun, tableVars
<1>2. CASE CompactStep \/ CompactFails
    <2>1. UNCHANGED <<phase, map, reader, pc>>
        BY <1>2, TablesFrame DEF CompactStep, CompactFails
    <2>2. CASE Tables!SwapRun
        <3>1. Files!View(sstables)' = Files!View(sstables)
            BY <2>2, FilesAssumptions, SameCompact, Files!SwapKeepsView DEF DbTypeInv
        <3>2. Files!View(sstables') = View(sstables') /\ Files!View(sstables) = View(sstables)
            BY SameView
        <3> QED
            BY <2>1, <3>1, <3>2
    <2>3. CASE ~Tables!SwapRun
        <3>1. UNCHANGED sstables
            BY <1>2, <2>3
            DEF CompactStep, CompactFails, Tables!PickRun, Tables!CaptureRun,
                Tables!SkipReplacement, Tables!PublishMerge, Tables!SyncMerge,
                Tables!RemoveObsolete, Tables!CompactDone, Tables!CompactFails
        <3> QED
            BY <2>1, <3>1
    <2> QED
        BY <2>2, <2>3
<1> QED
    BY <1>1, <1>2 DEF Compactor

LEMMA ReaderCurrentGet ==
    ASSUME DbTypeInv, ReaderCurrent, NEW r \in Reader, Get(r)
    PROVE  ReaderCurrent'
<1> USE DEF Tables!dirVars, Tables!writerVars, Tables!compactorVars, memVars
<1>1. /\ pc = "idle" /\ phase = "up" /\ reader \in [Reader -> Files!ReaderStates]
      /\ UNCHANGED <<pc, map, phase>>
    BY ReadWhileIdle, TablesFrame DEF DbTypeInv, PhaseOfPc, Files!TypeInv, Files!TypeOK, Get
<1>2. UNCHANGED sstables
    BY DEF Get, GetFromMemtable, GetFromTables, Tables!GetSnapshot, Tables!ProbeMiss,
           Tables!ProbeHit, Tables!ProbeNothingLeft, Tables!Return
<1>3. Contents' = Contents
    BY <1>1, <1>2 DEF Contents
<1>4. PICK x : /\ reader' = [reader EXCEPT ![r] = x]
               /\ x.pc # "idle" => x.key \in Key /\ x.expected = Contents[x.key]
    <2>1. CASE \E k \in Key : GetFromMemtable(r, k)
        <3>1. PICK k \in Key : GetFromMemtable(r, k)
            BY <2>1
        <3>2. Contents[k] = Visible(map[k])
            BY <1>1, <3>1, ContentsWhileOpen DEF GetFromMemtable
        <3> DEFINE x == [pc |-> "done", key |-> k, snap |-> <<>>, left |-> 0,
                         expected |-> Visible(map[k]), result |-> Visible(map[k])]
        <3>3. reader' = [reader EXCEPT ![r] = x]
            BY <3>1 DEF GetFromMemtable
        <3>4. x.key = k /\ x.expected = Visible(map[k])
            OBVIOUS
        <3> HIDE DEF x
        <3> QED
            BY <3>2, <3>3, <3>4
    <2>2. CASE \E k \in Key : GetFromTables(r, k)
        <3>1. PICK k \in Key : GetFromTables(r, k)
            BY <2>2
        <3>2. Contents[k] = Tables!View(sstables)[k]
            BY <1>1, <3>1, ContentsWhileOpen, SameView DEF GetFromTables
        <3> DEFINE x == [pc |-> "probing", key |-> k, snap |-> sstables, left |-> Len(sstables),
                         expected |-> Tables!View(sstables)[k], result |-> None]
        <3>3. reader' = [reader EXCEPT ![r] = x]
            BY <3>1 DEF GetFromTables, Tables!GetSnapshot
        <3>4. x.key = k /\ x.expected = Tables!View(sstables)[k]
            OBVIOUS
        <3> HIDE DEF x
        <3> QED
            BY <3>2, <3>3, <3>4
    <2>3. CASE Tables!ProbeMiss(r) \/ Tables!ProbeHit(r) \/ Tables!ProbeNothingLeft(r)
        <3>1. /\ reader[r].key \in Key /\ reader[r].expected = Contents[reader[r].key]
              /\ reader[r] \in Files!ReaderStates
            BY <1>1, <2>3 DEF ReaderCurrent, Tables!ProbeMiss, Tables!ProbeHit,
                              Tables!ProbeNothingLeft
        <3>2. reader' \in [Reader -> Files!ReaderStates]
            BY FilesTyped DEF Next, Files!TypeInv, Files!TypeOK
        <3>3. /\ reader' = [reader EXCEPT ![r] = reader'[r]]
              /\ reader'[r].key = reader[r].key /\ reader'[r].expected = reader[r].expected
            BY <1>1, <2>3, <3>1
            DEF Tables!ProbeMiss, Tables!ProbeHit, Tables!ProbeNothingLeft, Files!ReaderStates
        <3> QED
            BY <3>1, <3>3
    <2>4. CASE Tables!Return(r)
        <3>1. reader' = [reader EXCEPT ![r] = Tables!ReaderIdle] /\ Tables!ReaderIdle.pc = "idle"
            BY <2>4 DEF Tables!Return, Tables!ReaderIdle
        <3> QED
            BY <3>1
    <2> QED
        BY <2>1, <2>2, <2>3, <2>4 DEF Get
<1> QED
    BY <1>1, <1>3, <1>4 DEF ReaderCurrent

LEMMA ReaderCurrentNext ==
    DbTypeInv /\ ReaderCurrent /\ [Next]_vars => ReaderCurrent'
<1> SUFFICES ASSUME DbTypeInv, ReaderCurrent, [Next]_vars PROVE ReaderCurrent'
    OBVIOUS
<1>1. ASSUME Exclusive' PROVE ReaderCurrent'
    BY <1>1 DEF Exclusive, ReaderCurrent, Tables!ReaderIdle
<1>2. ASSUME Exclusive, UNCHANGED reader PROVE Exclusive'
    BY <1>2 DEF Exclusive
<1>3. ASSUME pc' # "idle" PROVE ReaderCurrent'
    BY <1>1, <1>3, WriterAloneNext DEF WriterAlone
<1>4. ASSUME NEW r \in Reader, Get(r) PROVE ReaderCurrent'
    BY <1>4, ReaderCurrentGet
<1>5. CASE Compactor \/ UNCHANGED vars
    <2>1. /\ View(sstables') = View(sstables) /\ UNCHANGED <<phase, map, reader, pc>>
        BY <1>5, CompactorShowsNothing DEF vars, tableVars, memVars
    <2>2. CASE pc = "idle"
        <3>1. phase = "up"
            BY <2>2 DEF DbTypeInv, PhaseOfPc
        <3>2. Contents' = Contents
            BY <2>1, <3>1 DEF Contents
        <3> QED
            BY <2>1, <3>2 DEF ReaderCurrent
    <2> QED
        BY <1>3, <2>1, <2>2
<1>6. CASE Write \/ Open \/ Drop
    <2>1. CASE pc # "idle"
        <3>1. UNCHANGED reader
            BY <1>6 DEF Write, Open, Begin, LogWrite, LogWriteFails, LogSync, LogSyncFails, Insert,
               Truncate, TruncateSync, TruncateFails, Signal, FlushPublish, FlushSync,
               FlushInstall, FlushFails, Tables!PublishFlush, Tables!SyncFlush,
               Tables!InstallFlush, Tables!FlushFails, Replay, OpenTables, OpenFails,
               Opened, Tables!CleanLeftover, Tables!OpenSet, Drop, tableVars
        <3> QED
            BY <1>1, <1>2, <2>1, <3>1 DEF DbTypeInv, WriterAlone
    <2>2. CASE pc = "idle"
        <3>1. (\E o \in Operation : Begin(o)) \/ Drop
            BY <1>6, <2>2
            DEF Write, Open, LogWrite, LogWriteFails, LogSync, LogSyncFails, Insert, Truncate,
                TruncateSync, TruncateFails, Signal, FlushPublish, FlushSync, FlushInstall,
                FlushFails, Tables!SyncFlush, Tables!InstallFlush, Replay, OpenTables, OpenFails,
                Opened, DbTypeInv, WriterAlone
        <3> QED
            BY <1>3, <3>1 DEF Begin, Drop
    <2> QED
        BY <2>1, <2>2
<1>7. CASE Joined \/ PowerLoss \/ ProcessDies
    BY <1>3, <1>7, TablesFrame
<1> QED
    BY <1>4, <1>5, <1>6, <1>7 DEF Next

\* get answers what the database holds when it returns, and held all along:
\* the memtable before the tables, the newest table before older ones, and no
\* swap or unlink of the compactor shows through.
THEOREM GetsAreCurrent == Spec => []GetIsCurrent
<1>1. Init => DbTypeInv /\ ReaderCurrent
    BY DbTypeInvInit DEF Init, Tables!Init, Tables!ReaderIdle, ReaderCurrent
<1>2. DbTypeInv /\ ReaderCurrent => GetIsCurrent
    <2>1. ASSUME DbTypeInv, ReaderCurrent, NEW r \in Reader, reader[r].pc = "done"
          PROVE  reader[r].result = Contents[reader[r].key]
        BY <2>1 DEF DbTypeInv, ReaderCurrent, Files!TypeInv, Files!SearchInv, Files!SearchOK
    <2> QED
        BY <2>1 DEF GetIsCurrent
<1> QED
    BY <1>1, <1>2, DbTypeInvNext, ReaderCurrentNext, PTL DEF Spec

-----------------------------------------------------------------------------
(* What the files hold.                                                    *)

\* What is asked of the machine: writes and fsyncs of the log may fail, but do
\* not leave half a frame behind; a failed fsync of a flush leaves its file.
\* No fault of the compactor's is among them (see FilesProofs).
FilesReliable ==
    /\ Sync = TRUE
    /\ WalFaults \subseteq {"truncate_error", "sync_error"}
    /\ Faults \subseteq {"flush_publish"}

\* The memtable that replaying a log builds.
Logged(l) == MemtableOf(Replayed(l))

\* What a directory shows before the log is replayed.
DirShown(d) == DirView(Survivors(d))

WholeFrames == \A l \in crash_logs : Fragments(l) = {}

\* A write that is in the log is the last one there, and once synced it is in
\* the log whatever happens.
WriteLogged ==
    /\ pc \in {"written", "logged"} => Logged(log)[op.key] = op.entry
    /\ pc = "logged" => crash_logs = {log}

\* The log is emptied only when whatever is left of the directory shows what
\* the tables do, and nothing is in memory alone.
TablesHoldAll ==
    pc \in {"flushed", "truncating", "truncated"} =>
        /\ map = Empty
        /\ \A d \in crash_dirs : DirShown(d) = View(sstables)
        /\ View(sstables)[op.key] = Visible(op.entry)

LogEmptied ==
    /\ pc \in {"truncating", "truncated"} => log = <<>>
    /\ pc = "truncated" => crash_logs = {<<>>}
    /\ pc = "opening" => map = Logged(log)

RecoverInv ==
    DbTypeInv /\ Files!FilesInv /\ WholeFrames /\ WriteLogged /\ TablesHoldAll /\ LogEmptied

LEMMA RecoverTypes ==
    ASSUME RecoverInv
    PROVE  /\ DbTypeInv /\ Files!FilesInv /\ Files!FilesHold
           /\ dir \in crash_dirs /\ log \in crash_logs /\ crash_logs \subseteq Seq(LogItem)
           /\ map \in Data /\ (pc \in Working => op \in Operation)
BY DEF RecoverInv, Files!FilesInv, DbTypeInv, TypeOK, WalTypeOK, Files!TypeInv, Files!TypeOK,
       WriterAlone

LEMMA FilesInvDb ==
    ASSUME FilesReliable, DbTypeInv, Files!FilesInv, [Next]_vars
    PROVE  Files!FilesInv'
<1> USE DEF Files!dirVars, Files!writerVars, Files!compactorVars
<1>1. CASE [Files!Next]_(Files!vars)
    BY <1>1, FilesAssumptions, Files!FilesInvNext DEF FilesReliable
<1>2. CASE Joined
    BY <1>2, FilesAssumptions, SameRecover, Files!FilesClosed DEF Joined
<1>3. ASSUME NEW r \in Reader, NEW k \in Key, GetFromMemtable(r, k) PROVE Files!FilesInv'
    <2>1. PICK x \in Files!ReaderStates :
              Files!SearchOK(x) /\ reader' = [reader EXCEPT ![r] = x]
        BY <1>3, ReadOfMemtable
    <2> QED
        BY <1>3, <2>1, FilesAssumptions, Files!FilesRead DEF GetFromMemtable
<1> QED
    BY <1>1, <1>2, <1>3, TablesStep

\* But for the file a flush writes, no step makes a crash show a directory
\* anything new.
LEMMA NothingNewShown ==
    ASSUME FilesReliable, DbTypeInv, Files!FilesInv, [Next]_vars, ~FlushPublish
    PROVE  /\ \A d \in crash_dirs' : \E e \in crash_dirs : DirShown(d) = DirShown(e)
           /\ crashes' = crashes => DirShown(dir') = DirShown(dir)
<1>1. ASSUME UNCHANGED <<dir, crash_dirs>>
      PROVE  /\ \A d \in crash_dirs' : \E e \in crash_dirs : DirShown(d) = DirShown(e)
             /\ DirShown(dir') = DirShown(dir)
    BY <1>1
<1>2. CASE Joined \/ \E r \in Reader, k \in Key : GetFromMemtable(r, k)
    BY <1>1, <1>2 DEF Joined, GetFromMemtable
<1>3. CASE [Files!Next]_(Files!vars)
    <2>1. \A m \in Data \ {Empty} : ~Files!PublishFlush(m)
        <3> SUFFICES ASSUME NEW m \in Data \ {Empty}, Files!PublishFlush(m) PROVE FALSE
            OBVIOUS
        <3>1. writer = "idle" /\ writer' = "renamed"
            BY DEF Files!PublishFlush
        <3> QED
            BY <3>1, SameFlush, TablesFrame
            DEF Next, Write, Compactor, Open, Begin, LogWrite, LogWriteFails, LogSync,
                LogSyncFails, Insert, Truncate, TruncateSync, TruncateFails, Signal, FlushSync,
                FlushInstall, FlushFails, Tables!SyncFlush, Tables!InstallFlush,
                Tables!FlushFails, Recv, RecvDisconnected, NoRun, Replay, OpenFails, Opened,
                Tables!OpenSet, Drop, vars, tableVars
    <2>2. Files!FilesHold /\ Files!FilesHold'
        BY FilesInvDb DEF Files!FilesInv
    <2>3. /\ Files!ShowsNothingNew
          /\ Files!PowerLoss \/ Files!Shown(dir)' = Files!Shown(dir)
        BY <1>3, <2>1, <2>2, FilesAssumptions, Files!StepShown DEF FilesReliable
    <2>4. \A d : Files!Shown(d) = DirShown(d)
        BY SameDirs DEF DirShown
    <2>5. /\ \A d \in crash_dirs' : \E e \in crash_dirs : DirShown(d) = DirShown(e)
          /\ Files!PowerLoss \/ DirShown(dir') = DirShown(dir)
        BY <2>3, <2>4 DEF Files!ShowsNothingNew
    <2>6. Files!PowerLoss => crashes' = crashes + 1 /\ crashes \in Nat
        BY DEF Files!PowerLoss, DbTypeInv, Files!TypeInv, Files!TypeOK
    <2> QED
        BY <2>5, <2>6
<1> QED
    BY <1>2, <1>3, TablesStep

\* What a step does to the log.
LogMoves ==
    \/ LogWrite /\ log' = Append(log, Whole(op)) /\ crash_logs' = crash_logs \cup {log'}
    \/ LogSync /\ log' = log /\ crash_logs' = {log}
    \/ Truncate /\ log' = <<>> /\ crash_logs' = crash_logs \cup {<<>>}
    \/ TruncateSync /\ log' = log /\ crash_logs' = {log}
    \/ PowerLoss /\ log' \in crash_logs /\ crash_logs' = {log'}
    \/ UNCHANGED <<log, crash_logs>>

LEMMA LogStep ==
    ASSUME FilesReliable, RecoverInv, [Next]_vars
    PROVE  LogMoves
<1> USE DEF walVars
<1>1. CASE LogWrite \/ LogWriteFails
    <2>1. "torn_by_crash" \notin WalFaults /\ "torn_by_error" \notin WalFaults
        BY DEF FilesReliable
    <2> QED
        BY <1>1, <2>1, RecoverTypes
        DEF LogWrite, LogWriteFails, WalWrite, WalWriteFails, LogMoves
<1>2. CASE LogSync \/ Truncate \/ TruncateSync \/ PowerLoss
    BY <1>2 DEF FilesReliable, LogSync, WalSync, Truncate, SetLenZero, TruncateSync, SyncLength,
                PowerLoss, WalCrash, LogMoves
<1>3. CASE (\E o \in Operation : Begin(o)) \/ LogSyncFails \/ Insert \/ TruncateFails \/ Signal
    BY <1>3 DEF Begin, LogSyncFails, Insert, TruncateFails, Signal, LogMoves
<1>4. CASE FlushPublish \/ FlushSync \/ FlushInstall \/ FlushFails
    BY <1>4 DEF FlushPublish, FlushSync, FlushInstall, FlushFails, LogMoves
<1>5. CASE Compactor \/ (\E r \in Reader : Get(r))
    BY <1>5 DEF Compactor, Recv, RecvDisconnected, NoRun, CompactStep, CompactFails, Get, LogMoves
<1>6. CASE Open \/ Drop \/ Joined \/ ProcessDies \/ UNCHANGED vars
    BY <1>6 DEF Open, Replay, OpenTables, OpenFails, Opened, Drop, Joined, ProcessDies, vars,
                LogMoves
<1> QED
    BY <1>1, <1>2, <1>3, <1>4, <1>5, <1>6 DEF Next, Write

\* The frame a write appends, read back.
LEMMA WrittenFrame ==
    ASSUME RecoverInv, LogWrite, log' = Append(log, Whole(op))
    PROVE  /\ op \in Operation /\ op.key \in Key /\ Logged(log) \in Data
           /\ Fragments(log') = {}
           /\ Logged(log') = [Logged(log) EXCEPT ![op.key] = op.entry]
<1>1. /\ op \in Operation /\ op.key \in Key
      /\ log \in Seq(LogItem) /\ Fragments(log) = {}
    BY RecoverTypes, OperationType DEF LogWrite, Working, RecoverInv, WholeFrames
<1>2. Logged(log) \in Data
    BY <1>1, ReplayedType, MemtableOfType DEF Logged
<1> QED
    BY <1>1, <1>2, OneMoreFrame DEF Logged

LEMMA WholeFramesNext ==
    ASSUME FilesReliable, RecoverInv, [Next]_vars
    PROVE  WholeFrames'
<1>1. LogMoves
    BY LogStep
<1>2. ASSUME LogWrite, log' = Append(log, Whole(op)) PROVE Fragments(log') = {}
    BY <1>2, WrittenFrame
<1>3. log \in crash_logs /\ Fragments(<<>>) = {}
    BY RecoverTypes, EmptyLog
<1> QED
    BY <1>1, <1>2, <1>3 DEF LogMoves, RecoverInv, WholeFrames

\* Which steps lead to which point of a write.
LEMMA WriteOrder ==
    ASSUME [Next]_vars
    PROVE  /\ pc' = "written" => LogWrite \/ UNCHANGED <<pc, op>>
           /\ pc' = "logged" => LogSync \/ UNCHANGED <<pc, op>>
           /\ pc' = "flushed" => FlushInstall \/ UNCHANGED <<pc, op>>
           /\ pc' = "truncating" => Truncate \/ UNCHANGED <<pc, op>>
           /\ pc' = "truncated" => TruncateSync \/ UNCHANGED <<pc, op>>
           /\ pc' = "opening" => Replay \/ UNCHANGED <<pc, op>>
           /\ LogWrite => pc = "begun" /\ pc' = "written" /\ op' = op
           /\ LogSync => pc = "written" /\ pc' = "logged" /\ op' = op
           /\ FlushInstall => pc' = "flushed" /\ op' = op /\ map' = Empty
           /\ Truncate => pc = "flushed" /\ pc' = "truncating" /\ op' = op
           /\ TruncateSync => pc = "truncating" /\ pc' = "truncated" /\ op' = op
           /\ Replay => pc = "closed" /\ pc' = "opening"
           /\ PowerLoss => pc' = "closed"
<1> USE DEF Fail, Succeed, Finish, MemoryLost
<1>1. CASE Write
    BY <1>1 DEF Write, Begin, LogWrite, LogWriteFails, LogSync, LogSyncFails, Insert, FlushPublish,
       FlushSync, FlushInstall, FlushFails, Truncate, TruncateSync, TruncateFails, Signal,
       PowerLoss, Replay
<1>2. CASE Compactor \/ UNCHANGED vars \/ (\E r \in Reader : Get(r))
    BY <1>2 DEF Compactor, Recv, RecvDisconnected, NoRun, CompactStep, CompactFails, vars, Get,
       LogWrite, LogSync, FlushInstall, Truncate, TruncateSync, Replay, PowerLoss
<1>3. CASE Open \/ Drop \/ Joined \/ PowerLoss \/ ProcessDies
    BY <1>3 DEF Open, Replay, OpenTables, OpenFails, Opened, Drop, Joined, PowerLoss, ProcessDies,
       LogWrite, LogSync, FlushInstall, Truncate, TruncateSync
<1> QED
    BY <1>1, <1>2, <1>3 DEF Next

\* While the owner stays at one of these points only the compactor moves, or an
\* open goes on.
LEMMA OwnerStays ==
    ASSUME DbTypeInv, [Next]_vars, pc' = pc,
           pc \in {"opening", "written", "logged", "flushed", "truncating", "truncated"}
    PROVE  /\ UNCHANGED <<map, op, log, crash_logs>>
           /\ pc # "opening" => Compactor \/ UNCHANGED vars
<1> USE DEF memVars, walVars
<1>1. ~Write
    BY DEF Write, Begin, LogWrite, LogWriteFails, LogSync, LogSyncFails, Insert, FlushPublish,
       FlushSync, FlushInstall, FlushFails, Truncate, TruncateSync, TruncateFails, Signal,
       Tables!SyncFlush, Tables!InstallFlush, DbTypeInv, WriterAlone, Fail, Succeed, Finish
<1>2. ~\E r \in Reader : Get(r)
    BY ReadWhileIdle
<1>3. ~(Replay \/ OpenFails \/ Opened \/ Drop \/ Joined \/ PowerLoss \/ ProcessDies)
    BY DEF Replay, OpenFails, Opened, Drop, Joined, PowerLoss, ProcessDies, MemoryLost
<1>4. CASE Compactor
    BY <1>4 DEF Compactor, Recv, RecvDisconnected, NoRun, CompactStep, CompactFails
<1>5. CASE OpenTables
    BY <1>5 DEF OpenTables
<1>6. CASE UNCHANGED vars
    BY <1>6 DEF vars
<1> QED
    BY <1>1, <1>2, <1>3, <1>4, <1>5, <1>6 DEF Next, Open

LEMMA WriteLoggedNext ==
    ASSUME FilesReliable, RecoverInv, [Next]_vars
    PROVE  WriteLogged'
<1>1. LogMoves /\ WriteLogged /\ DbTypeInv
    BY LogStep DEF RecoverInv
<1>2. CASE pc' \in {"written", "logged"} /\ pc' = pc
    BY <1>1, <1>2, OwnerStays DEF WriteLogged
<1>3. CASE LogWrite
    <2>1. log' = Append(log, Whole(op)) /\ pc' = "written" /\ op' = op
        BY <1>3, WriteOrder DEF LogWrite, WalWrite
    <2>2. Logged(log')[op.key] = op.entry
        BY <1>3, <2>1, WrittenFrame DEF Data
    <2> QED
        BY <2>1, <2>2 DEF WriteLogged
<1>4. CASE LogSync
    BY <1>1, <1>4, WriteOrder DEF WriteLogged, LogSync, WalSync, FilesReliable
<1>5. CASE pc' \notin {"written", "logged"}
    BY <1>5 DEF WriteLogged
<1> QED
    BY <1>2, <1>3, <1>4, <1>5, WriteOrder

\* A table installed is in whatever is left of the directory.
LEMMA InstalledShown ==
    ASSUME FilesReliable, RecoverInv, FlushInstall
    PROVE  /\ \A d \in crash_dirs' : DirShown(d) = View(sstables)'
           /\ View(sstables)' = Apply(View(sstables), map)
<1>1. /\ writer = "synced" /\ Files!InstallFlush /\ crash_dirs' = crash_dirs
      /\ [Next]_vars /\ [Files!Next]_(Files!vars)
    BY SameFlush DEF FlushInstall, Tables!InstallFlush, Tables!dirVars, Next, Write, Files!Next,
                     Files!Flush
<1>2. batch = map
    BY <1>1 DEF RecoverInv, DbTypeInv, WriterAlone
<1>3. \A d \in crash_dirs : Files!Shown(d) = Files!Apply(Files!View(sstables), batch)
    BY <1>1, RecoverTypes, FilesAssumptions, Files!SyncedShown
<1>4. Files!View(sstables)' = Files!Apply(Files!View(sstables), batch)
    <2>1. Files!FilesInv'
        BY <1>1, FilesInvDb, RecoverTypes
    <2>2. Files!NamedInv'
        BY <2>1 DEF Files!FilesInv, Files!FilesHold
    <2> QED
        BY <1>1, <2>2, RecoverTypes, FilesAssumptions, Files!InstallHolds
<1>5. /\ \A d : Files!Shown(d) = DirShown(d)
      /\ \A v, m : Files!Apply(v, m) = Apply(v, m)
      /\ Files!View(sstables) = View(sstables) /\ Files!View(sstables') = View(sstables')
    BY SameDirs, SameView DEF DirShown, Apply, Visible, Files!Apply, Files!Visible
<1> QED
    BY <1>1, <1>2, <1>3, <1>4, <1>5

LEMMA TablesHoldAllNext ==
    ASSUME FilesReliable, RecoverInv, [Next]_vars
    PROVE  TablesHoldAll'
<1>1. TablesHoldAll /\ DbTypeInv /\ Files!FilesInv
    BY DEF RecoverInv
<1>2. CASE pc' \notin {"flushed", "truncating", "truncated"}
    BY <1>2 DEF TablesHoldAll
<1>3. CASE FlushInstall
    <2>1. pc = "flush" /\ op \in Operation /\ op.key \in Key /\ op.entry # None
          /\ map[op.key] = op.entry
        BY <1>1, <1>3, OperationType
        DEF FlushInstall, Tables!InstallFlush, DbTypeInv, WriterAlone, Working
    <2>2. View(sstables)'[op.key] = Visible(op.entry)
        BY <1>3, <2>1, InstalledShown DEF Apply
    <2> QED
        BY <1>3, <2>2, InstalledShown, WriteOrder DEF TablesHoldAll
<1>4. CASE Truncate \/ TruncateSync
    BY <1>1, <1>4, WriteOrder DEF Truncate, TruncateSync, TablesHoldAll, tableVars, memVars
<1>5. CASE pc' \in {"flushed", "truncating", "truncated"} /\ UNCHANGED <<pc, op>>
    <2>1. Compactor \/ UNCHANGED vars
        BY <1>1, <1>5, OwnerStays
    <2>2. map' = map /\ View(sstables') = View(sstables)
        BY <1>1, <2>1, CompactorShowsNothing DEF vars, tableVars, memVars
    <2>3. ~FlushPublish
        BY <1>5 DEF FlushPublish
    <2>4. \A d \in crash_dirs' : \E e \in crash_dirs : DirShown(d) = DirShown(e)
        BY <1>1, <2>3, NothingNewShown
    <2> QED
        BY <1>1, <1>5, <2>2, <2>4 DEF TablesHoldAll
<1> QED
    BY <1>2, <1>3, <1>4, <1>5, WriteOrder

LEMMA LogEmptiedNext ==
    ASSUME FilesReliable, RecoverInv, [Next]_vars
    PROVE  LogEmptied'
<1>1. LogEmptied /\ DbTypeInv
    BY DEF RecoverInv
<1>2. CASE pc' \in {"truncating", "truncated", "opening"} /\ pc' = pc
    BY <1>1, <1>2, OwnerStays DEF LogEmptied
<1>3. CASE Truncate \/ TruncateSync
    BY <1>1, <1>3, WriteOrder DEF LogEmptied, Truncate, SetLenZero, TruncateSync, SyncLength
<1>4. CASE Replay
    BY <1>4 DEF Replay, LogEmptied, Logged, walVars
<1>5. CASE pc' \notin {"truncating", "truncated", "opening"}
    BY <1>5 DEF LogEmptied
<1> QED
    BY <1>2, <1>3, <1>4, <1>5, WriteOrder

LEMMA RecoverInvInit == Init => RecoverInv
<1> SUFFICES ASSUME Init PROVE RecoverInv
    OBVIOUS
<1>1. DbTypeInv /\ Files!FilesInv
    BY DbTypeInvInit, FilesAssumptions, SameTypes, Files!FilesInvInit DEF Init
<1>2. WholeFrames /\ WriteLogged /\ TablesHoldAll /\ LogEmptied
    BY EmptyLog DEF Init, WalInit, WholeFrames, WriteLogged, TablesHoldAll, LogEmptied
<1> QED
    BY <1>1, <1>2 DEF RecoverInv

LEMMA RecoverInvNext ==
    ASSUME FilesReliable
    PROVE  RecoverInv /\ [Next]_vars => RecoverInv'
<1> SUFFICES ASSUME RecoverInv, [Next]_vars PROVE RecoverInv'
    OBVIOUS
<1>1. DbTypeInv' /\ Files!FilesInv'
    BY DbTypeInvNext, FilesInvDb DEF RecoverInv
<1> QED
    BY <1>1, WholeFramesNext, WriteLoggedNext, TablesHoldAllNext, LogEmptiedNext DEF RecoverInv
-----------------------------------------------------------------------------
(* What the database holds.                                                *)

LEMMA RecoveredAt ==
    ASSUME NEW d, NEW l, NEW k \in Key
    PROVE  Recovered(d, l)[k] =
               IF Logged(l)[k] = None THEN DirShown(d)[k] ELSE Visible(Logged(l)[k])
BY DEF Recovered, Apply, Logged, DirShown

LEMMA ContentsAt ==
    ASSUME phase = "up", NEW k \in Key
    PROVE  Contents[k] = IF map[k] = None THEN View(sstables)[k] ELSE Visible(map[k])
BY DEF Contents, Apply

\* While the database is closed or opens, it holds what its files do.
DownAgrees == phase = "down" => Contents = Recovered(dir, log)

LEMMA DownContents == RecoverInv => DownAgrees
BY DEF RecoverInv, LogEmptied, DbTypeInv, TypeOK, Contents, Recovered, Logged, DownAgrees

LEMMA DownContentsNext == RecoverInv' => DownAgrees'
BY DownContents, PTL

\* Flushing, truncating, compacting, cleaning up and opening change nothing of
\* what the database holds.
LEMMA ContentsKept ==
    ASSUME FilesReliable, RecoverInv, [Next]_vars,
           ~(Insert \/ Joined \/ PowerLoss \/ ProcessDies)
    PROVE  Contents' = Contents
<1> USE DEF memVars, walVars, Fail, Succeed, Finish
<1>1. /\ DbTypeInv /\ Files!FilesInv /\ PhaseOfPc /\ LogEmptied
      /\ map \in Data /\ phase \in {"up", "down"}
    BY RecoverTypes DEF RecoverInv, DbTypeInv, PhaseOfPc
<1>2. ASSUME phase = "up", UNCHANGED <<phase, map>>, View(sstables') = View(sstables)
      PROVE  Contents' = Contents
    BY <1>2 DEF Contents
<1>3. CASE \/ \E o \in Operation : Begin(o)
           \/ LogWrite \/ LogWriteFails \/ LogSync \/ LogSyncFails \/ Truncate \/ TruncateSync
           \/ TruncateFails \/ Signal \/ Drop
    <2>1. phase = "up" /\ UNCHANGED <<phase, map, sstables>>
        BY <1>1, <1>3
        DEF Begin, LogWrite, LogWriteFails, LogSync, LogSyncFails, Truncate, TruncateSync,
            TruncateFails, Signal, Drop, tableVars, PhaseOfPc
    <2> QED
        BY <1>2, <2>1
<1>4. CASE FlushPublish \/ FlushSync \/ FlushFails
    <2>1. pc = "flush" /\ UNCHANGED <<phase, map, sstables>>
        BY <1>1, <1>4
        DEF FlushPublish, FlushSync, FlushFails, Tables!PublishFlush, Tables!SyncFlush,
            Tables!FlushFails, Tables!dirVars, tableVars, DbTypeInv, WriterAlone
    <2> QED
        BY <1>1, <1>2, <2>1 DEF PhaseOfPc
<1>5. CASE FlushInstall
    <2>1. /\ pc = "flush" /\ phase' = phase /\ map' = Empty
          /\ View(sstables') = Apply(View(sstables), map)
        BY <1>1, <1>5, InstalledShown
        DEF FlushInstall, Tables!InstallFlush, DbTypeInv, WriterAlone
    <2>2. phase = "up"
        BY <1>1, <2>1 DEF PhaseOfPc
    <2> QED
        BY <2>1, <2>2 DEF Contents, Apply, Empty
<1>6. CASE \E r \in Reader : Get(r)
    <2>1. pc = "idle" /\ UNCHANGED <<phase, map, sstables>>
        BY <1>1, <1>6, ReadWhileIdle, TablesFrame
        DEF Get, GetFromMemtable, GetFromTables, Tables!GetSnapshot, Tables!ProbeMiss,
            Tables!ProbeHit, Tables!ProbeNothingLeft, Tables!Return
    <2> QED
        BY <1>1, <1>2, <2>1 DEF PhaseOfPc
<1>7. CASE (Compactor \/ OpenTables) /\ phase = "down"
    <2>1. UNCHANGED <<phase, map, pc, log, crashes>> /\ ~FlushPublish
        BY <1>1, <1>7, CompactorShowsNothing
        DEF Compactor, Recv, RecvDisconnected, NoRun, CompactStep, CompactFails, OpenTables,
            Tables!PickRun, Tables!CaptureRun, Tables!SkipReplacement, Tables!PublishMerge,
            Tables!SyncMerge, Tables!SwapRun, Tables!RemoveObsolete, Tables!CompactDone,
            Tables!CompactFails, Tables!CleanLeftover, tableVars, FlushPublish, PhaseOfPc
    <2>2. DirShown(dir') = DirShown(dir)
        BY <1>1, <2>1, NothingNewShown
    <2> QED
        BY <1>7, <2>1, <2>2 DEF Contents, Recovered, DirShown
<1>8. CASE Compactor /\ phase = "up"
    BY <1>1, <1>2, <1>8, CompactorShowsNothing
<1>9. CASE Replay
    BY <1>1, <1>9 DEF Replay, tableVars, Contents, Recovered, PhaseOfPc
<1>10. CASE Opened
    <2>1. /\ pc = "opening" /\ phase = "down" /\ phase' = "up" /\ map' = map
          /\ Files!OpenSet /\ [Files!Next]_(Files!vars)
        BY <1>1, <1>10, SameRecover DEF Opened, Tables!OpenSet, Files!Next, Files!Recover
    <2>2. Files!NamedInv'
        BY <1>1, FilesInvDb DEF Files!FilesInv, Files!FilesHold
    <2>3. Files!Shown(dir) = Files!View(sstables)'
        BY <2>1, <2>2, RecoverTypes, FilesAssumptions, Files!OpenedHolds
    <2>4. Files!View(sstables') = View(sstables') /\ Files!Shown(dir) = DirView(Survivors(dir))
        BY SameView, SameDirs
    <2>5. View(sstables') = DirView(Survivors(dir))
        BY <2>3, <2>4
    <2> QED
        BY <2>1, <2>5 DEF Contents
<1>11. CASE OpenTables /\ phase = "up"
    BY <1>11 DEF OpenTables, Tables!CleanLeftover
<1>12. CASE UNCHANGED vars
    BY <1>12 DEF vars, tableVars, Contents, Recovered
<1>13. CASE OpenFails
    <2>1. phase = "down" /\ UNCHANGED <<phase, dir, log>>
        BY <1>1, <1>13 DEF OpenFails, tableVars, PhaseOfPc
    <2>2. Contents = Recovered(dir, log) /\ Contents' = Recovered(dir, log)'
        BY <2>1, RecoverInvNext, DownContents, DownContentsNext DEF DownAgrees
    <2>3. Recovered(dir, log)' = Recovered(dir, log)
        BY <2>1 DEF Recovered
    <2> QED
        BY <2>2, <2>3
<1> QED
    BY <1>1, <1>3, <1>4, <1>5, <1>6, <1>7, <1>8, <1>9, <1>10, <1>11, <1>12, <1>13
    DEF Next, Write, Open

\* A write shows when its entry goes into the memtable.
LEMMA InsertedContents ==
    ASSUME RecoverInv, Insert
    PROVE  /\ op \in Operation /\ op.key \in Key /\ pc = "logged" /\ phase = "up"
           /\ UNCHANGED <<dir, crash_dirs, log, crash_logs>>
           /\ \A k \in Key :
                 Contents'[k] = IF k = op.key THEN Visible(op.entry) ELSE Contents[k]
<1>1. /\ op \in Operation /\ op.key \in Key /\ op.entry # None /\ map \in Data
      /\ pc = "logged" /\ phase = "up" /\ phase' = phase /\ sstables' = sstables
      /\ UNCHANGED <<dir, crash_dirs, log, crash_logs>>
      /\ map' = [map EXCEPT ![op.key] = op.entry]
    BY RecoverTypes, OperationType
    DEF Insert, Working, RecoverInv, DbTypeInv, PhaseOfPc, tableVars, walVars
<1>2. \A k \in Key : map'[k] = IF k = op.key THEN op.entry ELSE map[k]
    BY <1>1 DEF Data
<1>3. \A k \in Key :
          /\ Contents[k] = IF map[k] = None THEN View(sstables)[k] ELSE Visible(map[k])
          /\ Contents'[k] = IF map'[k] = None THEN View(sstables)[k] ELSE Visible(map'[k])
    BY <1>1 DEF Contents, Apply
<1> QED
    BY <1>1, <1>2, <1>3

-----------------------------------------------------------------------------
(* No crash loses a write.                                                 *)

\* Whatever a crash leaves, every key has one of the values it may hold.
CrashAllowed ==
    \A d \in crash_dirs, l \in crash_logs, k \in Key : Recovered(d, l)[k] \in allowed[k]

\* So it has while the database is open, and the write in progress is allowed.
ContentsAllowed == \A k \in Key : Contents[k] \in allowed[k]
PendingAllowed  == pc \in Working => Visible(op.entry) \in allowed[op.key]

AllowedInv == RecoverInv /\ CrashAllowed /\ ContentsAllowed /\ PendingAllowed

\* Only a write that succeeds takes something from what is allowed: all but
\* itself, for its key.
LEMMA AllowedMoves ==
    ASSUME DbTypeInv, [Next]_vars
    PROVE  \/ \A k \in Key : allowed[k] \subseteq allowed'[k]
           \/ /\ Insert \/ Signal
              /\ pc \in Working
              /\ allowed' = [allowed EXCEPT ![op.key] = {Visible(op.entry)}]
<1> USE DEF callVars, Fail
<1>1. allowed \in [Key -> SUBSET (Value \cup {None})]
    BY DEF DbTypeInv, TypeOK
<1>2. ASSUME NEW o \in Operation, Begin(o) PROVE \A k \in Key : allowed[k] \subseteq allowed'[k]
    BY <1>1, <1>2 DEF Begin
<1>3. CASE Insert \/ Signal
    BY <1>3 DEF Insert, Signal, Succeed, Working
<1>4. CASE \/ LogWrite \/ LogWriteFails \/ LogSync \/ LogSyncFails
           \/ Truncate \/ TruncateSync \/ TruncateFails
           \/ FlushPublish \/ FlushSync \/ FlushInstall \/ FlushFails
    BY <1>4 DEF LogWrite, LogWriteFails, LogSync, LogSyncFails, Truncate, TruncateSync,
                TruncateFails, FlushPublish, FlushSync, FlushInstall, FlushFails
<1>5. CASE Compactor \/ (\E r \in Reader : Get(r))
    BY <1>5 DEF Compactor, Recv, RecvDisconnected, NoRun, CompactStep, CompactFails, Get
<1>6. CASE Open \/ Drop \/ Joined \/ PowerLoss \/ ProcessDies \/ UNCHANGED vars
    BY <1>6 DEF Open, Replay, OpenTables, OpenFails, Opened, Drop, Joined, PowerLoss, ProcessDies,
                vars
<1> QED
    BY <1>2, <1>3, <1>4, <1>5, <1>6 DEF Next, Write

\* The rename of a flushed table adds one directory, which shows the memtable
\* over the tables.
LEMMA PublishedShown ==
    ASSUME FilesReliable, RecoverInv, FlushPublish
    PROVE  /\ crash_dirs' = crash_dirs \cup {dir'} /\ UNCHANGED <<log, crash_logs>>
           /\ DirShown(dir') = Contents
<1>1. pc = "flush" /\ phase = "up" /\ map \in Data \ {Empty} /\ Files!PublishFlush(map)
      /\ crash_dirs' = crash_dirs \cup {dir'} /\ UNCHANGED <<log, crash_logs>>
    BY FlushedIsMemtable, SameFlush
    DEF FlushPublish, Tables!PublishFlush, Tables!ChangeDir, RecoverInv, walVars
<1>2. Files!NamedInv'
    BY FilesInvDb DEF Next, Write, Files!FilesInv, Files!FilesHold, RecoverInv
<1>3. Files!Shown(dir)' = Files!Apply(Files!View(sstables), map)
    <2>1. \A m \in Data \ {Empty} :
              Files!PublishFlush(m) => Files!Shown(dir)' = Files!Apply(Files!View(sstables), m)
        BY <1>2, RecoverTypes, FilesAssumptions, Files!FlushHolds
    <2> QED
        BY <1>1, <2>1
<1>4. /\ Files!Shown(dir') = DirShown(dir')
      /\ Files!Apply(Files!View(sstables), map) = Apply(View(sstables), map)
    BY SameDirs, SameView DEF DirShown, Apply, Visible, Files!Apply, Files!Visible
<1> QED
    BY <1>1, <1>3, <1>4 DEF Contents

\* What a crash may make of the directory, with a log it could have made of the
\* file before.
LEMMA OldLogsAllowed ==
    ASSUME FilesReliable, AllowedInv, [Next]_vars,
           NEW d \in crash_dirs', NEW l \in crash_logs, NEW k \in Key
    PROVE  Recovered(d, l)[k] \in allowed[k]
<1>1. dir \in crash_dirs
    BY RecoverTypes DEF AllowedInv
<1>2. CASE d \in crash_dirs
    BY <1>2 DEF AllowedInv, CrashAllowed
<1>3. CASE FlushPublish /\ d = dir'
    <2>1. DirShown(d) = Contents
        BY <1>3, PublishedShown DEF AllowedInv
    <2>2. Recovered(dir, l)[k] \in allowed[k] /\ Contents[k] \in allowed[k]
        BY <1>1 DEF AllowedInv, CrashAllowed, ContentsAllowed
    <2> QED
        BY <2>1, <2>2, RecoveredAt
<1>4. CASE ~FlushPublish
    <2>1. PICK e \in crash_dirs : DirShown(d) = DirShown(e)
        BY <1>4, NothingNewShown DEF AllowedInv, RecoverInv
    <2>2. Recovered(e, l)[k] \in allowed[k]
        BY DEF AllowedInv, CrashAllowed
    <2> QED
        BY <2>1, <2>2, RecoveredAt
<1> QED
    BY <1>2, <1>3, <1>4, PublishedShown DEF AllowedInv

LEMMA NewLogsAllowed ==
    ASSUME FilesReliable, AllowedInv, [Next]_vars,
           NEW d \in crash_dirs', NEW l \in crash_logs', NEW k \in Key
    PROVE  Recovered(d, l)[k] \in allowed[k]
<1>1. LogMoves /\ RecoverInv /\ log \in crash_logs
    BY LogStep, RecoverTypes DEF AllowedInv
<1>2. CASE l \in crash_logs
    BY <1>2, OldLogsAllowed
<1>3. CASE LogWrite /\ log' = Append(log, Whole(op)) /\ l = log'
    <2>1. /\ op \in Operation /\ op.key \in Key /\ op.entry # None
          /\ Logged(log) \in Data
          /\ Logged(l) = [Logged(log) EXCEPT ![op.key] = op.entry]
        BY <1>1, <1>3, WrittenFrame, OperationType
    <2>2. Logged(l)[k] = IF k = op.key THEN op.entry ELSE Logged(log)[k]
        BY <2>1 DEF Data
    <2>3. Visible(op.entry) \in allowed[op.key]
        BY <1>3 DEF AllowedInv, PendingAllowed, LogWrite, Working
    <2>4. Recovered(d, log)[k] \in allowed[k]
        BY <1>1, OldLogsAllowed
    <2>5. CASE k = op.key
        <3>1. Logged(l)[k] = op.entry /\ op.entry # None
            BY <2>1, <2>2, <2>5
        <3>2. Recovered(d, l)[k] = Visible(op.entry)
            BY <3>1, RecoveredAt
        <3> QED
            BY <2>3, <2>5, <3>2
    <2>6. CASE k # op.key
        <3>1. Recovered(d, l)[k] = Recovered(d, log)[k]
            BY <2>2, <2>6, RecoveredAt
        <3> QED
            BY <2>4, <3>1
    <2> QED
        BY <2>5, <2>6
<1>4. CASE Truncate /\ l = <<>>
    <2>1. /\ d \in crash_dirs /\ pc = "flushed"
        BY <1>4 DEF Truncate, tableVars
    <2>2. DirShown(d) = View(sstables) /\ map = Empty /\ phase = "up"
        BY <1>1, <2>1 DEF RecoverInv, TablesHoldAll, DbTypeInv, PhaseOfPc
    <2>3. Logged(l)[k] = None
        BY <1>4, EmptyLog DEF Logged, Empty
    <2>4. Contents[k] = View(sstables)[k]
        BY <2>2, ContentsAt DEF Empty
    <2>5. Recovered(d, l)[k] = Contents[k]
        BY <2>2, <2>3, <2>4, RecoveredAt
    <2> QED
        BY <2>5 DEF AllowedInv, ContentsAllowed
<1> QED
    BY <1>1, <1>2, <1>3, <1>4 DEF LogMoves

\* Once a write has succeeded it is there whatever happens.
LEMMA SucceededStays ==
    ASSUME RecoverInv, Insert \/ Signal, NEW d \in crash_dirs', NEW l \in crash_logs'
    PROVE  /\ op.key \in Key
           /\ Recovered(d, l)[op.key] = Visible(op.entry)
           /\ Contents'[op.key] = Visible(op.entry)
<1>1. CASE Insert
    <2>1. /\ op \in Operation /\ op.key \in Key /\ d \in crash_dirs /\ l = log
          /\ Logged(log)[op.key] = op.entry /\ op.entry # None
        BY <1>1, InsertedContents, OperationType DEF RecoverInv, WriteLogged
    <2> QED
        BY <1>1, <2>1, InsertedContents, RecoveredAt
<1>2. CASE Signal
    <2>1. /\ pc = "truncated" /\ UNCHANGED <<map, sstables, phase, crash_dirs, crash_logs>>
          /\ op \in Operation /\ op.key \in Key
        BY <1>2, RecoverTypes, OperationType DEF Signal, tableVars, walVars, Working
    <2>2. /\ map = Empty /\ DirShown(d) = View(sstables) /\ l = <<>> /\ phase = "up"
          /\ View(sstables)[op.key] = Visible(op.entry)
        BY <2>1 DEF RecoverInv, TablesHoldAll, LogEmptied, DbTypeInv, PhaseOfPc
    <2>3. Logged(l)[op.key] = None /\ map[op.key] = None
        BY <2>1, <2>2, EmptyLog DEF Logged, Empty
    <2>4. Recovered(d, l)[op.key] = Visible(op.entry)
        BY <2>1, <2>2, <2>3, RecoveredAt
    <2>5. Contents' = Contents
        BY <2>1, <2>2 DEF Contents
    <2> QED
        BY <2>1, <2>2, <2>3, <2>4, <2>5, ContentsAt
<1> QED
    BY <1>1, <1>2

LEMMA CrashAllowedNext ==
    ASSUME FilesReliable, AllowedInv, [Next]_vars
    PROVE  CrashAllowed'
<1> SUFFICES ASSUME NEW d \in crash_dirs', NEW l \in crash_logs', NEW k \in Key
             PROVE  Recovered(d, l)[k] \in allowed'[k]
    BY DEF CrashAllowed
<1>1. Recovered(d, l)[k] \in allowed[k]
    BY NewLogsAllowed
<1>2. CASE allowed[k] \subseteq allowed'[k]
    BY <1>1, <1>2
<1>3. CASE /\ Insert \/ Signal
           /\ allowed' = [allowed EXCEPT ![op.key] = {Visible(op.entry)}]
    <2>1. op.key \in Key /\ Recovered(d, l)[op.key] = Visible(op.entry)
        BY <1>3, SucceededStays DEF AllowedInv
    <2>2. allowed'[k] = IF k = op.key THEN {Visible(op.entry)} ELSE allowed[k]
        BY <1>3, <2>1 DEF AllowedInv, RecoverInv, DbTypeInv, TypeOK
    <2> QED
        BY <1>1, <2>1, <2>2
<1> QED
    BY <1>2, <1>3, AllowedMoves DEF AllowedInv, RecoverInv

LEMMA ContentsAllowedNext ==
    ASSUME FilesReliable, AllowedInv, [Next]_vars
    PROVE  ContentsAllowed'
<1> SUFFICES ASSUME NEW k \in Key PROVE Contents'[k] \in allowed'[k]
    BY DEF ContentsAllowed
<1>1. RecoverInv /\ DbTypeInv /\ Contents[k] \in allowed[k]
    BY DEF AllowedInv, RecoverInv, ContentsAllowed
<1>2. CASE Joined \/ PowerLoss \/ ProcessDies
    <2>1. RecoverInv' /\ phase' = "down"
        BY <1>1, <1>2, RecoverInvNext, TablesFrame
    <2>2. Contents' = Recovered(dir, log)'
        BY <2>1, DownContentsNext DEF DownAgrees
    <2>3. dir' \in crash_dirs' /\ log' \in crash_logs'
        BY <2>1 DEF RecoverInv, DbTypeInv, TypeOK, WalTypeOK, Files!TypeInv, Files!TypeOK
    <2>4. Recovered(dir', log')[k] \in allowed'[k]
        BY <2>3, CrashAllowedNext DEF CrashAllowed
    <2> QED
        BY <2>2, <2>4
<1>3. CASE Insert
    <2>1. /\ op.key \in Key /\ pc \in Working
          /\ Contents'[k] = IF k = op.key THEN Visible(op.entry) ELSE Contents[k]
        BY <1>1, <1>3, InsertedContents DEF Working
    <2>2. Visible(op.entry) \in allowed[op.key]
        BY <2>1 DEF AllowedInv, PendingAllowed
    <2>3. allowed' = [allowed EXCEPT ![op.key] = {Visible(op.entry)}] \/ allowed' = allowed
        BY <1>3 DEF Insert, Succeed, callVars
    <2> QED
        BY <1>1, <2>1, <2>2, <2>3 DEF DbTypeInv, TypeOK
<1>4. CASE ~(Insert \/ Joined \/ PowerLoss \/ ProcessDies)
    <2>1. Contents' = Contents
        BY <1>1, <1>4, ContentsKept
    <2>2. CASE allowed[k] \subseteq allowed'[k]
        BY <1>1, <2>1, <2>2
    <2>3. CASE Signal /\ allowed' = [allowed EXCEPT ![op.key] = {Visible(op.entry)}]
        <3>1. dir' \in crash_dirs' /\ log' \in crash_logs'
            BY DbTypeInvNext, <1>1 DEF DbTypeInv, TypeOK, WalTypeOK, Files!TypeInv, Files!TypeOK
        <3>2. op.key \in Key /\ Contents'[op.key] = Visible(op.entry)
            BY <1>1, <2>3, <3>1, SucceededStays
        <3> QED
            BY <1>1, <2>1, <2>3, <3>2 DEF DbTypeInv, TypeOK
    <2> QED
        BY <1>1, <1>4, <2>2, <2>3, AllowedMoves
<1> QED
    BY <1>2, <1>3, <1>4

LEMMA PendingAllowedNext ==
    ASSUME DbTypeInv, PendingAllowed, [Next]_vars
    PROVE  PendingAllowed'
<1> USE DEF PendingAllowed, Working, callVars, Fail, Succeed, Finish
<1>1. allowed \in [Key -> SUBSET (Value \cup {None})]
    BY DEF DbTypeInv, TypeOK
<1>2. ASSUME NEW o \in Operation, Begin(o) PROVE PendingAllowed'
    BY <1>1, <1>2, OperationType DEF Begin
<1>3. CASE \/ LogWrite \/ LogWriteFails \/ LogSync \/ LogSyncFails \/ Insert
           \/ Truncate \/ TruncateSync \/ TruncateFails \/ Signal
           \/ FlushPublish \/ FlushSync \/ FlushInstall \/ FlushFails
    <2>1. pc' = "idle" \/ (pc \in Working /\ UNCHANGED <<op, allowed>>)
        BY <1>3
        DEF LogWrite, LogWriteFails, LogSync, LogSyncFails, Insert, Truncate, TruncateSync,
            TruncateFails, Signal, FlushPublish, FlushSync, FlushInstall, FlushFails,
            Tables!SyncFlush, Tables!InstallFlush, DbTypeInv, WriterAlone
    <2> QED
        BY <2>1
<1>4. CASE Compactor \/ (\E r \in Reader : Get(r)) \/ UNCHANGED vars
    BY <1>4 DEF Compactor, Recv, RecvDisconnected, NoRun, CompactStep, CompactFails, Get, vars
<1>5. CASE Open \/ Drop \/ Joined \/ PowerLoss \/ ProcessDies
    BY <1>5 DEF Open, Replay, OpenTables, OpenFails, Opened, Drop, Joined, PowerLoss, ProcessDies,
                MemoryLost
<1> QED
    BY <1>2, <1>3, <1>4, <1>5 DEF Next, Write

LEMMA EmptyContents ==
    ASSUME Init
    PROVE  /\ Contents = [k \in Key |-> None]
           /\ \A d \in crash_dirs, l \in crash_logs : Recovered(d, l) = [k \in Key |-> None]
<1>1. dir = {} /\ crash_dirs = {{}} /\ log = <<>> /\ crash_logs = {<<>>}
      /\ phase = "down" /\ pc = "closed"
    BY DEF Init, Tables!Init, WalInit
<1>2. Survivors({}) = {}
    BY DEF Survivors
<1>3. DirView({}) = [k \in Key |-> None]
    BY DEF DirView, DirHits
<1>4. Recovered({}, <<>>) = [k \in Key |-> None]
    BY <1>2, <1>3, EmptyLog DEF Recovered, Apply, Empty
<1> QED
    BY <1>1, <1>4 DEF Contents

\* Whatever the machine or the process stops in the middle of, and whichever
\* log writes, fsyncs, flushes or truncates fail meanwhile: opening what is
\* left succeeds and finds each key with its last finished write, or with one
\* begun since that did not finish.
THEOREM NoWriteIsLost ==
    ASSUME FilesReliable
    PROVE  Spec => []CrashLosesNoWrite
<1>1. Init => AllowedInv
    <2> SUFFICES ASSUME Init PROVE AllowedInv
        OBVIOUS
    <2>1. \A k \in Key : allowed[k] = {None}
        BY DEF Init
    <2>2. PendingAllowed
        BY DEF Init, PendingAllowed, Working
    <2> QED
        BY <2>1, <2>2, RecoverInvInit, EmptyContents DEF AllowedInv, CrashAllowed, ContentsAllowed
<1>2. AllowedInv /\ [Next]_vars => AllowedInv'
    <2> SUFFICES ASSUME AllowedInv, [Next]_vars PROVE AllowedInv'
        OBVIOUS
    <2>1. RecoverInv' /\ PendingAllowed'
        BY RecoverInvNext, PendingAllowedNext DEF AllowedInv, RecoverInv
    <2> QED
        BY <2>1, CrashAllowedNext, ContentsAllowedNext DEF AllowedInv
<1>3. AllowedInv => CrashLosesNoWrite
    BY DEF AllowedInv, RecoverInv, WholeFrames, CrashAllowed, CrashLosesNoWrite, MayBeInvalid
<1> QED
    BY <1>1, <1>2, <1>3, PTL DEF Spec

-----------------------------------------------------------------------------
(* The database implements a durable map of single writes.                 *)

\* With a log whose fsync does not fail, and nothing stopping but the machine,
\* a write whose outcome was reported is decided on disk too.
OutcomesDecided ==
    FilesReliable /\ WalFaults \subseteq {"truncate_error"} /\ CrashKinds \subseteq {"power"}

\* The write in progress alone, as a memtable.
Alone(o) == MemtableOf(<<o>>)

\* Whatever a crash leaves shows what the database holds, or that and the write
\* in progress - which it must show once the log is synced.
CrashShows ==
    \A d \in crash_dirs, l \in crash_logs :
        \/ pc # "logged" /\ Recovered(d, l) = Contents
        \/ pc \in {"written", "logged"} /\ Recovered(d, l) = Apply(Contents, Alone(op))

WrittenShows ==
    pc = "written" => \A d \in crash_dirs : Recovered(d, log) = Apply(Contents, Alone(op))

MapInv == RecoverInv /\ CrashShows /\ WrittenShows

LEMMA AloneIs ==
    ASSUME NEW o \in Operation
    PROVE  /\ Alone(o) \in Data
           /\ \A k \in Key : Alone(o)[k] = IF k = o.key THEN o.entry ELSE None
<1>1. <<>> \in Seq(Operation) /\ Append(<<>>, o) = <<o>>
    OBVIOUS
<1>2. MemtableOf(<<>>) = Empty
    BY DEF MemtableOf, Writes, Empty
<1>3. Alone(o) = [Empty EXCEPT ![o.key] = o.entry]
    BY <1>1, <1>2, OneMoreWrite DEF Alone
<1>4. o.key \in Key /\ o.entry \in Entry
    BY OperationType
<1> QED
    BY <1>3, <1>4, EmptyType DEF Data, Empty

LEMMA SameRecovered ==
    ASSUME NEW d, NEW l
    PROVE  /\ (\A k \in Key : Recovered(d, l)[k] = Contents[k]) => Recovered(d, l) = Contents
           /\ \A b : (\A k \in Key : Recovered(d, l)[k] = Apply(Contents, b)[k])
                         => Recovered(d, l) = Apply(Contents, b)
BY DEF Recovered, Contents, Apply

\* A write in the log stays in progress until it is synced, shows or is lost.
LEMMA WrittenStays ==
    ASSUME OutcomesDecided, DbTypeInv, [Next]_vars, pc \in {"written", "logged"}
    PROVE  LogSync \/ Insert \/ PowerLoss \/ UNCHANGED <<pc, op, log, crash_logs, map>>
<1>1. ~(LogSyncFails \/ ProcessDies)
    BY DEF OutcomesDecided, LogSyncFails, ProcessDies, Tables!ProcessDies
<1>2. ASSUME Write PROVE LogSync \/ Insert
    BY <1>1, <1>2 DEF Write, Begin, LogWrite, LogWriteFails, FlushPublish, FlushSync, FlushInstall,
       FlushFails, Truncate, TruncateSync, TruncateFails, Signal, Tables!SyncFlush,
       Tables!InstallFlush, DbTypeInv, WriterAlone
<1>3. ~\E r \in Reader : Get(r)
    BY ReadWhileIdle
<1>4. ASSUME Compactor \/ UNCHANGED vars PROVE pc' = pc
    BY <1>4 DEF Compactor, Recv, RecvDisconnected, NoRun, CompactStep, CompactFails, vars
<1>5. ~(Open \/ Drop \/ Joined)
    BY DEF Open, Replay, OpenTables, OpenFails, Opened, Drop, Joined
<1> QED
    BY <1>1, <1>2, <1>3, <1>4, <1>5, OwnerStays DEF Next

LEMMA OldLogsShow ==
    ASSUME OutcomesDecided, MapInv, [Next]_vars, pc \notin {"written", "logged"},
           NEW d \in crash_dirs', NEW l \in crash_logs
    PROVE  Recovered(d, l) = Contents
<1>1. RecoverInv /\ FilesReliable /\ \A e \in crash_dirs : Recovered(e, l) = Contents
    BY DEF OutcomesDecided, MapInv, CrashShows
<1>2. dir \in crash_dirs
    BY <1>1, RecoverTypes
<1>3. CASE d \in crash_dirs
    BY <1>1, <1>3
<1>4. CASE FlushPublish /\ d = dir'
    <2>1. DirShown(d) = Contents
        BY <1>1, <1>4, PublishedShown
    <2>2. ASSUME NEW k \in Key PROVE Recovered(d, l)[k] = Contents[k]
        <3>1. Recovered(dir, l)[k] = Contents[k]
            BY <1>1, <1>2
        <3> QED
            BY <2>1, <3>1, RecoveredAt
    <2> QED
        BY <2>2, SameRecovered
<1>5. CASE ~FlushPublish
    <2>1. PICK e \in crash_dirs : DirShown(d) = DirShown(e)
        BY <1>1, <1>5, NothingNewShown DEF RecoverInv
    <2>2. Recovered(d, l) = Recovered(e, l)
        BY <2>1 DEF Recovered, DirShown
    <2> QED
        BY <1>1, <2>2
<1> QED
    BY <1>1, <1>3, <1>4, <1>5, PublishedShown

LEMMA WriteShows ==
    ASSUME MapInv, LogWrite, log' = Append(log, Whole(op)), NEW d \in crash_dirs
    PROVE  Recovered(d, log') = Apply(Contents, Alone(op))
<1>1. /\ op \in Operation /\ op.key \in Key /\ op.entry # None /\ Logged(log) \in Data
      /\ Logged(log') = [Logged(log) EXCEPT ![op.key] = op.entry]
    BY WrittenFrame, OperationType DEF MapInv
<1>2. Recovered(d, log) = Contents
    BY RecoverTypes DEF MapInv, CrashShows, LogWrite
<1>3. ASSUME NEW k \in Key PROVE Recovered(d, log')[k] = Apply(Contents, Alone(op))[k]
    <2>1. Apply(Contents, Alone(op))[k]
              = IF Alone(op)[k] = None THEN Contents[k] ELSE Visible(Alone(op)[k])
        BY DEF Apply
    <2>2. Logged(log')[k] = IF k = op.key THEN op.entry ELSE Logged(log)[k]
        BY <1>1 DEF Data
    <2>3. Alone(op)[k] = IF k = op.key THEN op.entry ELSE None
        BY <1>1, AloneIs
    <2>4. /\ Recovered(d, log')[k]
                 = IF Logged(log')[k] = None THEN DirShown(d)[k] ELSE Visible(Logged(log')[k])
          /\ Recovered(d, log)[k]
                 = IF Logged(log)[k] = None THEN DirShown(d)[k] ELSE Visible(Logged(log)[k])
        BY RecoveredAt
    <2> QED
        BY <1>1, <1>2, <2>1, <2>2, <2>3, <2>4
<1> QED
    BY <1>3, SameRecovered

LEMMA InsertCommits ==
    ASSUME RecoverInv, Insert
    PROVE  Contents' = Apply(Contents, Alone(op))
<1>1. /\ op \in Operation /\ op.key \in Key /\ op.entry # None
      /\ \A k \in Key : Contents'[k] = IF k = op.key THEN Visible(op.entry) ELSE Contents[k]
    BY InsertedContents, OperationType
<1>2. \A k \in Key : Alone(op)[k] = IF k = op.key THEN op.entry ELSE None
    BY <1>1, AloneIs
<1>3. \A k \in Key : Apply(Contents, Alone(op))[k] = Contents'[k]
    BY <1>1, <1>2 DEF Apply
<1>4. Contents' = [k \in Key |-> Contents'[k]]
    BY DEF Contents, Recovered, Apply
<1>5. Apply(Contents, Alone(op)) = [k \in Key |-> Apply(Contents, Alone(op))[k]]
    BY DEF Apply
<1> QED
    BY <1>3, <1>4, <1>5

\* Closing in good order loses nothing, and a power failure leaves what it
\* leaves.
LEMMA ClosedContents ==
    ASSUME FilesReliable, MapInv, Joined \/ PowerLoss
    PROVE  /\ Contents' = Recovered(dir', log') /\ pc' = "closed"
           /\ Joined =>
                  UNCHANGED <<crash_dirs, crash_logs>> /\ Contents' = Contents /\ pc = "joining"
           /\ PowerLoss => crash_dirs' = {dir'} /\ crash_logs' = {log'}
                           /\ dir' \in crash_dirs /\ log' \in crash_logs
<1>1. RecoverInv' /\ phase' = "down" /\ pc' = "closed"
    BY RecoverInvNext, TablesFrame DEF Next, MapInv
<1>2. Contents' = Recovered(dir, log)'
    BY <1>1, DownContentsNext DEF DownAgrees
<1>3. ASSUME Joined
      PROVE  pc = "joining" /\ UNCHANGED <<dir, crash_dirs, log, crash_logs>>
    BY <1>3 DEF Joined, walVars
<1>4. ASSUME Joined PROVE Contents' = Contents
    BY <1>2, <1>3, <1>4, RecoverTypes DEF MapInv, CrashShows
<1>5. ASSUME PowerLoss
      PROVE  /\ crash_dirs' = {dir'} /\ crash_logs' = {log'}
             /\ dir' \in crash_dirs /\ log' \in crash_logs
    BY <1>5 DEF PowerLoss, Tables!PowerLoss, WalCrash
<1> QED
    BY <1>1, <1>2, <1>3, <1>4, <1>5

\* Every other step keeps what the database holds.
LEMMA OtherStepsKeep ==
    ASSUME OutcomesDecided, MapInv, [Next]_vars, ~(Insert \/ Joined \/ PowerLoss)
    PROVE  Contents' = Contents
<1>1. ~ProcessDies
    BY DEF OutcomesDecided, ProcessDies, Tables!ProcessDies
<1> QED
    BY <1>1, ContentsKept DEF OutcomesDecided, MapInv

LEMMA CrashShowsNext ==
    ASSUME OutcomesDecided, MapInv, [Next]_vars
    PROVE  CrashShows' /\ WrittenShows'
<1>1. FilesReliable /\ RecoverInv /\ DbTypeInv /\ LogMoves /\ log \in crash_logs
    BY LogStep, RecoverTypes DEF OutcomesDecided, MapInv
<1>2. CASE Insert
    <2>1. Contents' = Apply(Contents, Alone(op)) /\ pc = "logged"
          /\ UNCHANGED <<crash_dirs, crash_logs>> /\ pc' \in {"idle", "flush"}
        BY <1>1, <1>2, InsertCommits, InsertedContents DEF Insert, Succeed, Finish
    <2> QED
        BY <2>1 DEF MapInv, CrashShows, WrittenShows
<1>3. CASE LogWrite
    <2>1. /\ pc = "begun" /\ pc' = "written" /\ op' = op /\ Contents' = Contents
          /\ crash_dirs' = crash_dirs /\ log' = Append(log, Whole(op))
        BY <1>3, OtherStepsKeep DEF LogWrite, WalWrite, tableVars, Insert, Joined, PowerLoss,
                                    MemoryLost
    <2>2. crash_logs' = crash_logs \cup {log'}
        BY <1>1, <1>3 DEF LogWrite, WalWrite, FilesReliable
    <2>3. \A d \in crash_dirs : Recovered(d, log') = Apply(Contents, Alone(op))
        BY <1>3, <2>1, WriteShows
    <2> QED
        BY <2>1, <2>2, <2>3 DEF MapInv, CrashShows, WrittenShows
<1>4. CASE LogSync
    <2>1. /\ pc = "written" /\ pc' = "logged" /\ op' = op /\ Contents' = Contents
          /\ crash_dirs' = crash_dirs /\ log' = log /\ crash_logs' = {log}
        BY <1>1, <1>4, OtherStepsKeep DEF LogSync, WalSync, FilesReliable, tableVars, Insert,
                                          Joined, PowerLoss, MemoryLost
    <2> QED
        BY <2>1 DEF MapInv, CrashShows, WrittenShows
<1>5. CASE Truncate
    <2>1. /\ pc = "flushed" /\ pc' = "truncating" /\ Contents' = Contents
          /\ crash_dirs' = crash_dirs /\ crash_logs' = crash_logs \cup {<<>>}
        BY <1>5, OtherStepsKeep DEF Truncate, SetLenZero, tableVars, Insert, Joined, PowerLoss,
                                    MemoryLost
    <2>2. phase = "up" /\ map = Empty /\ \A d \in crash_dirs : DirShown(d) = View(sstables)
        BY <1>1, <2>1 DEF RecoverInv, TablesHoldAll, DbTypeInv, PhaseOfPc
    <2>3. ASSUME NEW d \in crash_dirs, NEW k \in Key PROVE Recovered(d, <<>>)[k] = Contents[k]
        <3>1. Logged(<<>>)[k] = None
            BY EmptyLog DEF Logged, Empty
        <3>2. Contents[k] = View(sstables)[k]
            BY <2>2, ContentsAt DEF Empty
        <3> QED
            BY <2>2, <3>1, <3>2, RecoveredAt
    <2>4. \A d \in crash_dirs : Recovered(d, <<>>) = Contents
        BY <2>3, SameRecovered
    <2> QED
        BY <2>1, <2>4 DEF MapInv, CrashShows, WrittenShows
<1>6. CASE Joined \/ PowerLoss
    BY <1>1, <1>6, ClosedContents DEF MapInv, CrashShows, WrittenShows
<1>7. CASE ~(Insert \/ LogWrite \/ LogSync \/ Truncate \/ Joined \/ PowerLoss)
    <2>1. Contents' = Contents /\ \A l \in crash_logs' : l \in crash_logs
        BY <1>1, <1>7, OtherStepsKeep DEF LogMoves
    <2>2. CASE pc \in {"written", "logged"}
        <3>1. UNCHANGED <<pc, op, log, crash_logs>>
            BY <1>1, <1>7, <2>2, WrittenStays
        <3>2. ~FlushPublish
            BY <2>2 DEF FlushPublish
        <3>3. \A d \in crash_dirs' : \E e \in crash_dirs : DirShown(d) = DirShown(e)
            BY <1>1, <3>2, NothingNewShown DEF RecoverInv
        <3>4. \A d, e : DirShown(d) = DirShown(e) => \A l : Recovered(d, l) = Recovered(e, l)
            BY DEF Recovered, DirShown
        <3>5. \A d \in crash_dirs' :
                  \E e \in crash_dirs : \A l : Recovered(d, l) = Recovered(e, l)
            BY <3>3, <3>4
        <3> QED
            BY <2>1, <3>1, <3>5 DEF MapInv, CrashShows, WrittenShows
    <2>3. CASE pc \notin {"written", "logged"}
        <3>1. pc' \notin {"written", "logged"}
            BY <1>7, <2>3, WriteOrder
        <3>2. \A d \in crash_dirs', l \in crash_logs' : Recovered(d, l) = Contents
            BY <2>1, <2>3, OldLogsShow
        <3> QED
            BY <2>1, <3>1, <3>2 DEF CrashShows, WrittenShows
    <2> QED
        BY <2>2, <2>3
<1> QED
    BY <1>2, <1>3, <1>4, <1>5, <1>6, <1>7

LEMMA MapInvInit == Init => MapInv
<1> SUFFICES ASSUME Init PROVE MapInv
    OBVIOUS
<1>1. pc = "closed" /\ \A d \in crash_dirs, l \in crash_logs : Recovered(d, l) = Contents
    BY EmptyContents DEF Init
<1> QED
    BY <1>1, RecoverInvInit DEF MapInv, CrashShows, WrittenShows

LEMMA MapInvNext ==
    ASSUME OutcomesDecided
    PROVE  MapInv /\ [Next]_vars => MapInv'
<1> SUFFICES ASSUME MapInv, [Next]_vars PROVE MapInv'
    OBVIOUS
<1>1. RecoverInv'
    BY RecoverInvNext DEF OutcomesDecided, MapInv
<1> QED
    BY <1>1, CrashShowsNext DEF MapInv

-----------------------------------------------------------------------------
(* The steps of the map.                                                   *)

LEMMA AbstractSame ==
    /\ Abstract!Data = Data
    /\ \A store, b : Abstract!Apply(store, b) = Apply(store, b)
BY DEF Abstract!Data, Data, Abstract!Entry, Entry, Abstract!Apply, Apply, Abstract!Visible, Visible

LEMMA MapStutters ==
    ASSUME Contents' = Contents, InFlight' = InFlight
    PROVE  [Abstract!Next]_(Abstract!vars)
BY DEF Abstract!vars

LEMMA RefinesInit == Init => Abstract!Init
<1> SUFFICES ASSUME Init PROVE Abstract!Init
    OBVIOUS
<1>1. Contents = [k \in Key |-> None] /\ InFlight = {}
    BY EmptyContents DEF Init, InFlight
<1> QED
    BY <1>1 DEF Abstract!Init

\* A write is proposed when it begins.
LEMMA RefinesBegin ==
    ASSUME OutcomesDecided, MapInv, NEW o \in Operation, Begin(o)
    PROVE  Abstract!Propose(Alone(o)) /\ Alone(o) \in Data
<1>1. /\ pc = "idle" /\ pc' = "begun" /\ op' = o /\ Contents' = Contents
    BY OtherStepsKeep DEF Begin, Next, Write, Insert, Joined, PowerLoss, MemoryLost
<1>2. InFlight = {} /\ InFlight' = {Alone(o)}
    BY <1>1 DEF InFlight, Alone
<1> QED
    BY <1>1, <1>2, AloneIs DEF Abstract!Propose

\* It commits when it shows: that it is durable was settled before.
LEMMA RefinesInsert ==
    ASSUME RecoverInv, Insert
    PROVE  Abstract!Commit(Alone(op)) /\ Alone(op) \in Data
<1>1. op \in Operation /\ pc = "logged" /\ pc' \in {"idle", "flush"}
    BY InsertedContents DEF Insert, Succeed, Finish
<1>2. InFlight = {Alone(op)} /\ InFlight' = {}
    BY <1>1 DEF InFlight, Alone
<1>3. Contents' = Apply(Contents, Alone(op))
    BY InsertCommits
<1> QED
    BY <1>1, <1>2, <1>3, AloneIs, AbstractSame DEF Abstract!Commit

\* A power failure finds the write in progress durable, or not at all.
LEMMA RefinesPowerLoss ==
    ASSUME OutcomesDecided, MapInv, PowerLoss
    PROVE  Abstract!Crash
<1>1. /\ Contents' = Recovered(dir', log') /\ pc' = "closed"
      /\ dir' \in crash_dirs /\ log' \in crash_logs
    BY ClosedContents DEF OutcomesDecided
<1>2. \/ Contents' = Contents
      \/ pc \in {"written", "logged"} /\ Contents' = Apply(Contents, Alone(op))
    BY <1>1 DEF MapInv, CrashShows
<1>3. pc \in {"written", "logged"} => Alone(op) \in InFlight
    BY DEF InFlight, Alone
<1>4. InFlight' = {}
    BY <1>1 DEF InFlight
<1>5. Contents' \in {Contents} \cup {Abstract!Apply(Contents, b) : b \in InFlight}
    BY <1>2, <1>3, AbstractSame
<1> QED
    BY <1>4, <1>5 DEF Abstract!Crash

LEMMA RefinesNext ==
    ASSUME OutcomesDecided
    PROVE  MapInv /\ [Next]_vars => [Abstract!Next]_(Abstract!vars)
<1> SUFFICES ASSUME MapInv, [Next]_vars PROVE [Abstract!Next]_(Abstract!vars)
    OBVIOUS
<1>1. RecoverInv /\ DbTypeInv /\ FilesReliable
    BY DEF OutcomesDecided, MapInv, RecoverInv
<1>2. ASSUME NEW o \in Operation, Begin(o) PROVE Abstract!Next
    <2>1. Abstract!Propose(Alone(o)) /\ Alone(o) \in Abstract!Data
        BY <1>2, RefinesBegin, AbstractSame
    <2> QED
        BY <2>1 DEF Abstract!Next
<1>3. CASE Insert
    <2>1. Abstract!Commit(Alone(op)) /\ Alone(op) \in Abstract!Data
        BY <1>1, <1>3, RefinesInsert, AbstractSame
    <2> QED
        BY <2>1 DEF Abstract!Next
<1>4. CASE PowerLoss
    BY <1>4, RefinesPowerLoss DEF Abstract!Next
<1>5. CASE LogWriteFails
    <2>1. Contents' = Contents /\ pc' = "idle"
        BY <1>5, OtherStepsKeep
        DEF LogWriteFails, Fail, Finish, Insert, Joined, PowerLoss, MemoryLost
    <2>2. InFlight' = {}
        BY <2>1 DEF InFlight
    <2>3. Abstract!Forget
        BY <2>1, <2>2 DEF Abstract!Forget
    <2> QED
        BY <2>3 DEF Abstract!Next
<1>6. CASE LogWrite \/ LogSync
    <2>1. /\ Contents' = Contents /\ op' = op
          /\ pc \in {"begun", "written"} /\ pc' \in {"written", "logged"}
        BY <1>6, OtherStepsKeep DEF LogWrite, LogSync, Insert, Joined, PowerLoss, MemoryLost
    <2> QED
        BY <2>1, MapStutters DEF InFlight
<1>7. CASE Joined
    <2>1. Contents' = Contents /\ pc = "joining" /\ pc' = "closed"
        BY <1>1, <1>7, ClosedContents
    <2> QED
        BY <2>1, MapStutters DEF InFlight
<1>8. CASE \/ FlushPublish \/ FlushSync \/ FlushInstall \/ FlushFails
           \/ Truncate \/ TruncateSync \/ TruncateFails \/ Signal
           \/ Replay \/ OpenTables \/ Opened \/ Drop
    <2>1. /\ pc \notin {"begun", "written", "logged"} /\ pc' \notin {"begun", "written", "logged"}
          /\ ~(Insert \/ Joined \/ PowerLoss)
        BY <1>1, <1>8
        DEF FlushPublish, FlushSync, FlushInstall, FlushFails, Truncate, TruncateSync,
            TruncateFails, Signal, Replay, OpenTables, Opened, Drop, Fail, Succeed, Finish,
            Tables!SyncFlush, Tables!InstallFlush, DbTypeInv, WriterAlone, Insert, Joined,
            PowerLoss, MemoryLost
    <2>2. Contents' = Contents
        BY <2>1, OtherStepsKeep
    <2> QED
        BY <2>1, <2>2, MapStutters DEF InFlight
<1>9. CASE Compactor \/ (\E r \in Reader : Get(r)) \/ UNCHANGED vars
    <2>1. UNCHANGED <<pc, op, ops>> /\ ~(Insert \/ Joined) /\ (PowerLoss => pc = "closed")
        BY <1>9
        DEF Compactor, Recv, RecvDisconnected, NoRun, CompactStep, CompactFails, Get, vars,
            Insert, Joined, PowerLoss, MemoryLost, callVars, Succeed, Finish
    <2>2. CASE PowerLoss
        BY <2>2, <1>4
    <2>3. CASE ~PowerLoss
        BY <2>1, <2>3, OtherStepsKeep, MapStutters DEF InFlight
    <2> QED
        BY <2>2, <2>3
<1>10. CASE OpenFails
    <2>1. pc = "opening" /\ pc' = "closed" /\ ~(Insert \/ Joined)
        BY <1>10 DEF OpenFails, MemoryLost, Insert, Joined
    <2>2. CASE PowerLoss
        BY <2>2, <1>4
    <2>3. CASE ~PowerLoss
        BY <2>1, <2>3, OtherStepsKeep, MapStutters DEF InFlight
    <2> QED
        BY <2>2, <2>3
<1>11. ~(LogSyncFails \/ ProcessDies)
    BY DEF OutcomesDecided, LogSyncFails, ProcessDies, Tables!ProcessDies
<1> QED
    BY <1>2, <1>3, <1>4, <1>5, <1>6, <1>7, <1>8, <1>9, <1>10, <1>11 DEF Next, Write, Open

\* The database implements the durable map: each put or delete shows at one
\* step; logging, flushing, truncating, compacting, cleaning up, closing and
\* opening show at none; and a power failure at any of them keeps every write
\* that returned and the one in progress whole or not at all.
THEOREM Refinement ==
    ASSUME OutcomesDecided
    PROVE  Spec => ImplementsDurableMap
<1>1. MapInv /\ [Next]_vars => MapInv'
    BY MapInvNext
<1>2. MapInv /\ [Next]_vars => [Abstract!Next]_(Abstract!vars)
    BY RefinesNext
<1> QED
    BY <1>1, <1>2, MapInvInit, RefinesInit, PTL DEF Spec, ImplementsDurableMap, Abstract!Spec

\* Between writes the log and the memtable agree: opening the files as they are
\* would give what the database holds.  (Where the fsync of the log may fail
\* they do not: see the run that checks the same property with that fault.)
THEOREM LogAgrees ==
    ASSUME OutcomesDecided
    PROVE  Spec => []LogAgreesWithMemory
<1>1. MapInv /\ [Next]_vars => MapInv'
    BY MapInvNext
<1>2. MapInv => LogAgreesWithMemory
    BY RecoverTypes DEF MapInv, CrashShows, LogAgreesWithMemory
<1> QED
    BY <1>1, <1>2, MapInvInit, PTL DEF Spec
=============================================================================
