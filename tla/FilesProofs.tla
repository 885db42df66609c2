----------------------------- MODULE FilesProofs -----------------------------
(***************************************************************************)
(* The files of a directory and the vector of tables agree, whatever       *)
(* stops - the machine, or the process alone, which leaves the directory   *)
(* as little synced as it was.                                             *)
(***************************************************************************)
EXTENDS SSTableSetProofs

DirsNamed == \A d \in crash_dirs : NamesDistinct(d)

\* What compact is about to unlink has the name of no table readers are served
\* from, nor of one a flush may be writing.
ObsoleteGone ==
    /\ compactor # "removing" => obsolete = <<>>
    /\ \A o \in TablesOf(obsolete) :
        o.last < next_seq /\ \A u \in TablesOf(sstables) : ~SameName(o, u)

NamedInv == OrderInv /\ DirsNamed /\ ObsoleteGone

\* The files of the flushes that are done, with number n next.
Below(d, n) == {t \in d : t.last < n}

\* The files a flush left or is about to install, with number n next.
Above(d, n) == {t \in d : t.first = n}

\* What a database opened on these files would show.
Shown(d) == DirView(Survivors(d))

\* No flush and no merge writes a table without records.
NonEmpty == \A d \in crash_dirs : \A t \in d : t.data # Empty

\* Until its table is installed, the file of a flush stays where it is.
FlushInPlace == writer \in {"renamed", "synced"} => Flushed(batch) \in dir

\* The directory holds what memory knows of, and a flush in progress.
DirExact ==
    phase = "up" =>
        Below(dir, next_seq) = TablesOf(sstables)
                                 \cup (IF Publishing THEN {Compacted} ELSE {})
                                 \cup TablesOf(obsolete)

\* But for that flush, it shows what the vector answers.
DirHolds == phase = "up" => Shown(Below(dir, next_seq)) = View(sstables)

\* Files yet to be unlinked are harmless: a live table covers them all, or they
\* are the oldest of the set and hold nothing but dead records.
Harmless(o, ts) ==
    \/ \E u \in TablesOf(ts) : \A x \in TablesOf(o) : Covers(u, x)
    \/ /\ \A x \in TablesOf(o), u \in TablesOf(ts) : x.last < u.first
       /\ Dead(o)

FilesHold ==
    /\ NamedInv /\ NonEmpty /\ FlushInPlace /\ DirExact /\ DirHolds
    /\ Ordered(obsolete) /\ Harmless(obsolete, sstables)

\* Once a flush is synced, whatever a crash leaves shows it.
FlushSynced == writer = "synced" => \A d \in crash_dirs : Shown(d) = Shown(dir)

FilesInv == FilesHold /\ FlushSynced

LEMMA VectorInOrder ==
    ASSUME OrderInv
    PROVE  /\ next_seq \in Nat /\ sstables \in Seq(Table) /\ Ordered(sstables)
           /\ dir \in crash_dirs /\ crash_dirs \subseteq SUBSET Table
           /\ \A u \in TablesOf(sstables) : u \in Table /\ u.last < next_seq
<1>1. TypeOK
    BY DEF OrderInv, TypeInv
<1>2. Ordered(sstables) /\ \A u \in TablesOf(sstables) : u.last < next_seq
    BY <1>1, OrderedVector DEF OrderInv
<1>3. \A u \in TablesOf(sstables) : u \in Table
    BY <1>1, VectorType DEF TypeOK, TablesOf
<1> QED
    BY <1>1, <1>2, <1>3 DEF TypeOK

-----------------------------------------------------------------------------
(* Names.                                                                  *)

\* A merged table has a name of its own: it spans at least two tables.
LEMMA MergedNameIsNew ==
    ASSUME NEW ts \in Seq(Table), Ordered(ts), NEW s \in Nat, NEW c \in Nat, c >= 2,
           s + c <= Len(ts), NEW u \in Table,
           u.first = ts[s + 1].first, u.last = ts[s + c].last
    PROVE  \A v \in TablesOf(ts) : ~SameName(v, u)
<1>1. /\ DOMAIN ts = 1..Len(ts) /\ Len(ts) \in Nat
      /\ s + 1 \in DOMAIN ts /\ s + c \in DOMAIN ts
    BY VectorType
<1>2. ASSUME NEW i \in DOMAIN ts, SameName(ts[i], u) PROVE FALSE
    <2>1. ts[i].first = ts[s + 1].first /\ ts[i].last = ts[s + c].last
        BY <1>2 DEF SameName
    <2>2. i = s + 1
        <3>1. /\ i \in Nat /\ ts[i].first \in Nat /\ ts[i].last \in Nat
              /\ ts[s + 1].first \in Nat /\ ts[s + 1].last \in Nat
              /\ ts[i].first <= ts[i].last /\ ts[s + 1].first <= ts[s + 1].last
              /\ i < s + 1 => ts[i].last < ts[s + 1].first
              /\ s + 1 < i => ts[s + 1].last < ts[i].first
            BY <1>1, SpanOrder
        <3> QED
            BY <2>1, <3>1
    <2>3. i = s + c
        <3>1. /\ i \in Nat /\ ts[i].first \in Nat /\ ts[i].last \in Nat
              /\ ts[s + c].first \in Nat /\ ts[s + c].last \in Nat
              /\ ts[i].first <= ts[i].last /\ ts[s + c].first <= ts[s + c].last
              /\ i < s + c => ts[i].last < ts[s + c].first
              /\ s + c < i => ts[s + c].last < ts[i].first
            BY <1>1, SpanOrder
        <3> QED
            BY <2>1, <3>1
    <2> QED
        BY <2>2, <2>3
<1> QED
    BY <1>2 DEF TablesOf

\* The tables compact is to unlink after the splice are the run.
LEMMA ObsoleteIsRun ==
    ASSUME NEW ts \in Seq(Table), NEW s \in Nat, NEW c \in Nat, s + c <= Len(ts)
    PROVE  TablesOf(SubSeq(ts, s + 1, s + c)) = {ts[i] : i \in s + 1..s + c}
<1>1. Len(ts) \in Nat /\ \A i \in s + 1..s + c : ts[i] \in Table
    BY LenProperties, ElementOfSeq
<1> DEFINE r == SubSeq(ts, s + 1, s + c)
<1>2. /\ r \in Seq(Table) /\ Len(r) = c
      /\ \A i \in 1..(s + c) - (s + 1) + 1 : r[i] = ts[(s + 1) + i - 1]
    <2>1. s + 1 \in Int /\ s + c \in Int /\ \A i \in s + 1..s + c : ts[i] \in Table
        BY <1>1
    <2>2. /\ SubSeq(ts, s + 1, s + c) \in Seq(Table)
          /\ Len(SubSeq(ts, s + 1, s + c))
               = IF s + 1 <= s + c THEN (s + c) - (s + 1) + 1 ELSE 0
          /\ \A i \in 1..(s + c) - (s + 1) + 1 :
                 SubSeq(ts, s + 1, s + c)[i] = ts[(s + 1) + i - 1]
        BY <2>1, SubSeqProperties
    <2>3. (IF s + 1 <= s + c THEN (s + c) - (s + 1) + 1 ELSE 0) = c
        OBVIOUS
    <2> QED
        BY <2>2, <2>3
<1> HIDE DEF r
<1>3. DOMAIN r = 1..c
    BY <1>2, VectorType
<1>4. \A i \in 1..c : r[i] = ts[s + i] /\ s + i \in s + 1..s + c
    <2>1. ASSUME NEW i \in 1..c PROVE (s + 1) + i - 1 = s + i /\ i \in 1..(s + c) - (s + 1) + 1
        OBVIOUS
    <2>2. ASSUME NEW i \in 1..c PROVE r[i] = ts[(s + 1) + i - 1]
        BY <1>2, <2>1
    <2> QED
        BY <2>1, <2>2
<1>5. ASSUME NEW j \in s + 1..s + c PROVE j - s \in 1..c /\ s + (j - s) = j
    OBVIOUS
<1>6. ASSUME NEW x \in TablesOf(r) PROVE x \in {ts[i] : i \in s + 1..s + c}
    BY <1>3, <1>4 DEF TablesOf
<1>7. ASSUME NEW j \in s + 1..s + c PROVE ts[j] \in TablesOf(r)
    <2>1. r[j - s] = ts[j] /\ j - s \in DOMAIN r
        BY <1>3, <1>4, <1>5
    <2> QED
        BY <2>1 DEF TablesOf
<1> QED
    BY <1>6, <1>7 DEF r

LEMMA TablesOfAppend ==
    ASSUME NEW ts \in Seq(Table), NEW t \in Table
    PROVE  TablesOf(Append(ts, t)) = TablesOf(ts) \cup {t}
<1> DEFINE w == Append(ts, t)
<1>1. /\ Len(ts) \in Nat /\ DOMAIN ts = 1..Len(ts) /\ DOMAIN w = 1..Len(ts) + 1
      /\ \A i \in DOMAIN ts : w[i] = ts[i]
      /\ w[Len(ts) + 1] = t
    BY VectorType, AppendProperties
<1> HIDE DEF w
<1>2. TablesOf(w) = TablesOf(ts) \cup {t}
    BY <1>1 DEF TablesOf
<1> QED
    BY <1>2 DEF w

LEMMA NamesStayDistinct ==
    ASSUME NamedInv, NEW t, ChangeDir(DirWith(t)) \/ ChangeDir(DirWithout(t))
    PROVE  DirsNamed'
<1>1. NamesDistinct(dir)
    BY VectorInOrder DEF NamedInv, DirsNamed
<1>2. NamesDistinct(DirWithout(t)) /\ NamesDistinct(DirWith(t))
    BY <1>1 DEF NamesDistinct, DirWith, DirWithout, SameName
<1>3. dir' \in {DirWith(t), DirWithout(t)} /\ crash_dirs' = crash_dirs \cup {dir'}
    BY DEF ChangeDir
<1> QED
    BY <1>2, <1>3 DEF NamedInv, DirsNamed

\* Only a file of that name goes.
LEMMA OthersStay ==
    ASSUME NamedInv, NEW t, ChangeDir(DirWith(t)) \/ ChangeDir(DirWithout(t)),
           NEW u, ~SameName(u, t)
    PROVE  /\ u \in dir => u \in dir'
           /\ (\A d \in crash_dirs : u \in d) => \A d \in crash_dirs' : u \in d
<1>1. dir \in crash_dirs
    BY VectorInOrder DEF NamedInv
<1> QED
    BY <1>1 DEF ChangeDir, DirWith, DirWithout

LEMMA InstallIsNamed ==
    ASSUME NamedInv, OrderInv', InstallFlush
    PROVE  NamedInv'
<1> DEFINE t == Flushed(batch)
<1>1. /\ sstables' = Append(sstables, t) /\ next_seq' = next_seq + 1
      /\ UNCHANGED <<crash_dirs, compactor, obsolete>>
      /\ t.last = next_seq /\ t \in Table
    BY FlushedType
    DEF InstallFlush, compactorVars, dirVars, NamedInv, OrderInv, TypeInv, TypeOK, Flushed
<1> HIDE DEF t
<1>2. sstables \in Seq(Table) /\ next_seq \in Nat
    BY VectorInOrder DEF NamedInv
<1>3. TablesOf(sstables)' = TablesOf(sstables) \cup {t}
    BY <1>1, <1>2, TablesOfAppend
<1>4. ASSUME NEW o \in TablesOf(obsolete)
      PROVE  /\ o.last < next_seq' /\ ~SameName(o, t)
             /\ \A u \in TablesOf(sstables) : ~SameName(o, u)
    <2>1. o.last < next_seq /\ \A u \in TablesOf(sstables) : ~SameName(o, u)
        BY DEF NamedInv, ObsoleteGone
    <2>2. o.last \in Nat
        BY VectorType DEF TablesOf, NamedInv, OrderInv, TypeInv, TypeOK
    <2> QED
        BY <1>1, <1>2, <2>1, <2>2 DEF SameName
<1> QED
    BY <1>1, <1>3, <1>4 DEF NamedInv, ObsoleteGone, DirsNamed

LEMMA SwapIsNamed ==
    ASSUME NamedInv, OrderInv', SwapRun
    PROVE  NamedInv'
<1>1. /\ sstables \in Seq(Table) /\ Ordered(sstables)
      /\ start \in Nat /\ count \in Nat /\ start + count <= Len(sstables)
      /\ Compacted \in Table
      /\ Compacted.first = sstables[start + 1].first
      /\ Compacted.last = sstables[start + count].last
      /\ Replacement \in Seq(Table) /\ Len(Replacement) <= 1
      /\ Len(Replacement) = 1 => Replacement[1] = Compacted
      /\ Replacement # <<>> <=> Len(Replacement) = 1
    BY RunShape DEF NamedInv, OrderInv, SwapRun
<1>2. /\ sstables' = Splice(sstables, start, count, Replacement)
      /\ obsolete' = SubSeq(sstables, start + 1, start + count)
      /\ UNCHANGED <<crash_dirs, next_seq>> /\ compactor' = "removing" /\ count >= 2
    BY DEF SwapRun, writerVars, dirVars, NamedInv, OrderInv, TypeInv, RunIntact
<1> HIDE DEF Compacted, Replacement
<1>3. TablesOf(Splice(sstables, start, count, Replacement))
        = {sstables[j] : j \in (1..Len(sstables)) \ (start + 1..start + count)}
          \cup TablesOf(Replacement)
    BY <1>1, SpliceTables
<1>4. \A u \in TablesOf(Replacement) : u = Compacted
    BY <1>1, LenProperties DEF TablesOf
<1>5. DOMAIN sstables = 1..Len(sstables) /\ Len(sstables) \in Nat
    BY <1>1, VectorType
<1>6. TablesOf(obsolete') = {sstables[i] : i \in start + 1..start + count}
    BY <1>1, <1>2, ObsoleteIsRun
<1>7. ASSUME NEW i \in start + 1..start + count
      PROVE  /\ sstables[i].last < next_seq
             /\ \A u \in TablesOf(sstables)' : ~SameName(sstables[i], u)
    <2>1. i \in DOMAIN sstables /\ sstables[i] \in TablesOf(sstables)
        BY <1>1, <1>5 DEF TablesOf
    <2>2. sstables[i].last < next_seq
        BY <2>1, VectorInOrder DEF NamedInv
    <2>3. ~SameName(sstables[i], Compacted)
        BY <1>1, <1>2, <2>1, MergedNameIsNew
    <2>4. ASSUME NEW j \in (1..Len(sstables)) \ (start + 1..start + count)
          PROVE  ~SameName(sstables[i], sstables[j])
        <3>1. j \in DOMAIN sstables /\ (i < j \/ j < i)
            BY <1>5, <2>1
        <3>2. /\ sstables[i].first \in Nat /\ sstables[i].last \in Nat
              /\ sstables[j].first \in Nat /\ sstables[j].last \in Nat
              /\ sstables[i].first <= sstables[i].last /\ sstables[j].first <= sstables[j].last
              /\ i < j => sstables[i].last < sstables[j].first
              /\ j < i => sstables[j].last < sstables[i].first
            BY <1>1, <2>1, <3>1, SpanOrder
        <3> QED
            BY <3>1, <3>2 DEF SameName
    <2> QED
        BY <1>2, <1>3, <1>4, <2>2, <2>3, <2>4
<1>8. ObsoleteGone'
    BY <1>2, <1>6, <1>7 DEF ObsoleteGone
<1> QED
    BY <1>2, <1>8 DEF NamedInv, DirsNamed

LEMMA NamedInvInit == Init => NamedInv
<1> SUFFICES ASSUME Init PROVE NamedInv
    OBVIOUS
<1>1. OrderInv
    BY OrderInvInit
<1> QED
    BY <1>1 DEF Init, NamedInv, DirsNamed, NamesDistinct, ObsoleteGone, TablesOf

LEMMA NamedInvNext ==
    ASSUME "compact_publish" \notin Faults
    PROVE  NamedInv /\ [Next]_vars => NamedInv'
<1> SUFFICES ASSUME NamedInv, [Next]_vars PROVE NamedInv'
    OBVIOUS
<1>1. OrderInv'
    BY OrderInvNext DEF NamedInv
<1> USE DEF writerVars, compactorVars, dirVars
<1>2. CASE InstallFlush
    BY <1>1, <1>2, InstallIsNamed
<1>3. CASE SwapRun
    BY <1>1, <1>3, SwapIsNamed
<1>4. ASSUME NEW t, ChangeDir(DirWith(t)) \/ ChangeDir(DirWithout(t)),
             UNCHANGED <<sstables, next_seq, obsolete>>,
             UNCHANGED compactor \/ (compactor' # "removing" /\ obsolete = <<>>)
      PROVE  NamedInv'
    BY <1>1, <1>4, NamesStayDistinct DEF NamedInv, ObsoleteGone
<1>5. ASSUME NEW m \in Memtable, PublishFlush(m) PROVE NamedInv'
    <2>1. ChangeDir(DirWith(Flushed(m))) /\ UNCHANGED <<sstables, next_seq, obsolete, compactor>>
        BY <1>5 DEF PublishFlush
    <2> QED
        BY <1>4, <2>1
<1>6. CASE PublishMerge
    <2>1. obsolete = <<>>
        BY <1>6 DEF PublishMerge, NamedInv, ObsoleteGone
    <2> QED
        BY <1>4, <1>6, <2>1 DEF PublishMerge
<1>7. CASE RemoveObsolete
    <2>1. DirsNamed'
        BY <1>7, NamesStayDistinct DEF RemoveObsolete
    <2>2. TablesOf(Tail(obsolete)) \subseteq TablesOf(obsolete)
        <3>1. obsolete \in Seq(Table) /\ obsolete # <<>>
            BY <1>7 DEF RemoveObsolete, NamedInv, OrderInv, TypeInv, TypeOK
        <3>2. /\ Len(obsolete) \in Nat /\ DOMAIN obsolete = 1..Len(obsolete)
              /\ Tail(obsolete) \in Seq(Table) /\ Len(Tail(obsolete)) = Len(obsolete) - 1
              /\ \A i \in 1..Len(Tail(obsolete)) : Tail(obsolete)[i] = obsolete[i + 1]
            BY <3>1, VectorType, HeadTailProperties
        <3>3. DOMAIN Tail(obsolete) = 1..Len(Tail(obsolete))
            BY <3>2, VectorType
        <3> QED
            BY <3>2, <3>3 DEF TablesOf
    <2>3. ObsoleteGone'
        BY <1>7, <2>2 DEF RemoveObsolete, NamedInv, ObsoleteGone
    <2> QED
        BY <1>1, <2>1, <2>3 DEF NamedInv
<1>8. CASE CleanLeftover
    <2>1. PICK t \in Superseded(dir) : ChangeDir(DirWithout(t))
        BY <1>8 DEF CleanLeftover
    <2>2. UNCHANGED <<sstables, next_seq, obsolete, compactor>>
        BY <1>8 DEF CleanLeftover
    <2> QED
        BY <1>4, <2>1, <2>2
<1>9. ASSUME obsolete' = <<>>, \A d \in crash_dirs' : d \in crash_dirs PROVE NamedInv'
    BY <1>1, <1>9 DEF NamedInv, DirsNamed, ObsoleteGone, TablesOf
<1>10. CASE OpenSet
    <2>1. obsolete' = <<>>
        BY <1>10 DEF OpenSet, NamedInv, OrderInv, TypeInv, DownIsIdle, ObsoleteGone
    <2> QED
        BY <1>9, <1>10, <2>1 DEF OpenSet
<1>11. CASE PowerLoss \/ ProcessDies
    BY <1>9, <1>11 DEF PowerLoss, ProcessDies, MemoryLost, CompactorIdle
<1>12. CASE CompactDone \/ CompactFails
    BY <1>9, <1>12 DEF CompactDone, CompactFails, CompactorIdle
<1>13. ASSUME UNCHANGED <<sstables, next_seq, obsolete>>,
              UNCHANGED compactor \/ (compactor' # "removing" /\ obsolete = <<>>),
              \A d \in crash_dirs' : d \in crash_dirs
       PROVE  NamedInv'
    BY <1>1, <1>13 DEF NamedInv, DirsNamed, ObsoleteGone
<1>14. CASE SyncFlush \/ FlushFails \/ UNCHANGED vars
    <2>1. dir \in crash_dirs
        BY VectorInOrder DEF NamedInv
    <2>2. /\ UNCHANGED <<sstables, next_seq, obsolete, compactor>>
          /\ crash_dirs' \in {crash_dirs, {dir}}
        BY <1>14 DEF SyncFlush, FsyncDir, FlushFails, vars
    <2> QED
        BY <1>13, <2>1, <2>2
<1>15. CASE PickRun \/ CaptureRun \/ SkipReplacement \/ SyncMerge
    <2>1. dir \in crash_dirs
        BY VectorInOrder DEF NamedInv
    <2>2. obsolete = <<>>
        BY <1>15 DEF PickRun, CaptureRun, SkipReplacement, SyncMerge, NamedInv, ObsoleteGone
    <2> QED
        BY <1>13, <1>15, <2>1, <2>2 DEF PickRun, CaptureRun, SkipReplacement, SyncMerge, FsyncDir
<1>16. ASSUME NEW r \in Reader, Get(r) PROVE NamedInv'
    <2>1. UNCHANGED <<crash_dirs, sstables, next_seq, obsolete, compactor>>
        BY <1>16 DEF Get, GetSnapshot, ProbeMiss, ProbeHit, ProbeNothingLeft, Return
    <2> QED
        BY <1>13, <2>1
<1> QED
    BY <1>2, <1>3, <1>5, <1>6, <1>7, <1>8, <1>10, <1>11, <1>12, <1>14, <1>15, <1>16
    DEF Next, Flush, Compact, Recover

-----------------------------------------------------------------------------
(* The directory and the vector.                                           *)

LEMMA NothingObsolete ==
    ASSUME NEW ts
    PROVE  Ordered(<<>>) /\ Harmless(<<>>, ts) /\ TablesOf(<<>>) = {}
BY RecordOfNothing DEF Ordered, Harmless, TablesOf, Dead

\* A directory with the numbers n and below is one of finished flushes or one
\* more table.
LEMMA WithPending ==
    ASSUME NEW d \in SUBSET Table, Spans(d), NamesDistinct(d), NEW n \in Nat,
           \A t \in d : t.last < n \/ (t.first = n /\ t.last = n),
           NEW u \in d, u.first = n
    PROVE  /\ d = Below(d, n) \cup {u}
           /\ Shown(d) = Apply(Shown(Below(d, n)), u.data)
<1>1. \A t \in d : t \in Table /\ t.first \in Nat /\ t.last \in Nat /\ t.first <= t.last
    BY DEF Table, Spans
<1>2. u.last = n
    BY <1>1
<1>3. ASSUME NEW t \in d, t # u PROVE t.last < n
    BY <1>2, <1>3 DEF NamesDistinct, SameName
<1>4. d = Below(d, n) \cup {u}
    BY <1>3 DEF Below
<1> DEFINE b == Below(d, n)
<1>5. b \in SUBSET Table /\ \A t \in b : t.first <= t.last /\ t.last < u.first
    BY <1>1 DEF Below
<1> HIDE DEF b
<1>6. DirView(Survivors(b \cup {u})) = Apply(DirView(Survivors(b)), u.data)
    BY <1>1, <1>5, DirViewWithTop
<1> QED
    BY <1>4, <1>6 DEF b, Shown

LEMMA DirShape ==
    ASSUME FilesHold
    PROVE  /\ dir \in SUBSET Table /\ Spans(dir) /\ Nested(dir) /\ NamesDistinct(dir)
           /\ IsFiniteSet(dir) /\ next_seq \in Nat
           /\ phase = "up" =>
                \A t \in dir : t.last < next_seq \/ (t.first = next_seq /\ t.last = next_seq)
BY VectorInOrder
DEF FilesHold, NamedInv, OrderInv, TypeInv, DirsFinite, DirsNested, DirsNamed, Numbered

\* What the directory shows is the vector, or that and the flush in progress.
DirShowing ==
    phase = "up" =>
        /\ \A u \in Above(dir, next_seq) : Shown(dir) = Apply(View(sstables), u.data)
        /\ Above(dir, next_seq) = {} => Shown(dir) = View(sstables)

LEMMA DirShows == FilesHold => DirShowing
<1> SUFFICES ASSUME FilesHold, phase = "up"
             PROVE  /\ \A u \in Above(dir, next_seq) : Shown(dir) = Apply(View(sstables), u.data)
                    /\ Above(dir, next_seq) = {} => Shown(dir) = View(sstables)
    BY DEF DirShowing
<1>1. Shown(Below(dir, next_seq)) = View(sstables)
    BY DEF FilesHold, DirHolds
<1>2. ASSUME NEW u \in Above(dir, next_seq) PROVE Shown(dir) = Apply(View(sstables), u.data)
    <2>1. u \in dir /\ u.first = next_seq
        BY DEF Above
    <2>2. Shown(dir) = Apply(Shown(Below(dir, next_seq)), u.data)
        BY <2>1, DirShape, WithPending
    <2> QED
        BY <1>1, <2>2
<1>3. Above(dir, next_seq) = {} => Below(dir, next_seq) = dir
    BY DirShape DEF Above, Below
<1> QED
    BY <1>1, <1>2, <1>3

LEMMA ShownStays ==
    ASSUME FilesHold, FilesHold', phase = "up", phase' = "up", View(sstables)' = View(sstables),
           Above(dir, next_seq)' = Above(dir, next_seq)
    PROVE  Shown(dir)' = Shown(dir)
<1>1. DirShowing'
    BY DirShows, PTL
<1>2. DirShowing
    BY DirShows
<1> QED
    BY <1>1, <1>2 DEF DirShowing

LEMMA DirShowsNext == FilesHold' => DirShowing'
BY DirShows, PTL

\* Steps that change neither files nor vector.
LEMMA FilesStay ==
    ASSUME FilesHold, NamedInv', UNCHANGED <<phase, dir, sstables, next_seq>>,
           \A d \in crash_dirs' : d \in crash_dirs,
           \/ (Publishing' <=> Publishing) /\ (Publishing => Compacted' = Compacted)
                 /\ UNCHANGED obsolete
           \/ UNCHANGED <<compactor, start, count, run, obsolete>>,
           writer' = "idle" \/ (writer # "idle" /\ UNCHANGED batch) \/ UNCHANGED <<writer, batch>>
    PROVE  FilesHold'
<1>1. Publishing' = Publishing /\ (Publishing => Compacted' = Compacted) /\ obsolete' = obsolete
    BY DEF Publishing, Replacement, Compacted, Merged
<1>2. NonEmpty' /\ DirHolds'
    BY DEF FilesHold, NonEmpty, DirHolds
<1>3. FlushInPlace'
    <2>1. writer \in {"idle", "renamed", "synced"}
        BY DEF FilesHold, NamedInv, OrderInv, TypeInv, TypeOK
    <2> QED
        BY <2>1 DEF FilesHold, FlushInPlace, Flushed
<1>4. DirExact'
    BY <1>1 DEF FilesHold, DirExact
<1>5. Ordered(obsolete)' /\ Harmless(obsolete, sstables)'
    BY <1>1 DEF FilesHold
<1> QED
    BY <1>2, <1>3, <1>4, <1>5 DEF FilesHold

LEMMA FlushHolds ==
    ASSUME FilesHold, NamedInv', NEW m \in Memtable, PublishFlush(m)
    PROVE  FilesHold' /\ Shown(dir)' = Apply(View(sstables), m)
<1> DEFINE t == Flushed(m)
<1>1. /\ t.first = next_seq /\ t.last = next_seq /\ t.data = m /\ m # Empty
      /\ ChangeDir(DirWith(t)) /\ phase = "up" /\ Flushed(batch)' = t
      /\ UNCHANGED <<phase, sstables, next_seq, compactor, obsolete>> /\ next_seq \in Nat
      /\ Replacement' = Replacement /\ Compacted' = Compacted /\ Publishing' = Publishing
    BY SSTableSetAssumption, VectorInOrder
    DEF Flushed, PublishFlush, compactorVars, Replacement, Compacted, Merged, Publishing, FilesHold,
        NamedInv
<1> HIDE DEF t
<1>2. /\ dir' = DirWithout(t) \cup {t} /\ DirWithout(t) \subseteq dir /\ dir \in crash_dirs
      /\ crash_dirs' = crash_dirs \cup {dir'}
    BY <1>1, VectorInOrder DEF ChangeDir, DirWith, DirWithout, FilesHold, NamedInv
<1>3. Below(dir', next_seq) = Below(dir, next_seq)
    BY <1>1 DEF ChangeDir, DirWith, DirWithout, Below, SameName
<1>4. DirExact' /\ DirHolds'
    BY <1>1, <1>3 DEF FilesHold, DirExact, DirHolds
<1>5. NonEmpty' /\ FlushInPlace'
    BY <1>1, <1>2 DEF FilesHold, NonEmpty, FlushInPlace
<1>6. FilesHold'
    BY <1>1, <1>4, <1>5 DEF FilesHold
<1>7. DirShowing'
    BY <1>6, DirShowsNext
<1>8. t \in Above(dir', next_seq')
    BY <1>1, <1>2 DEF Above
<1>9. Shown(dir') = Apply(View(sstables'), t.data)
    BY <1>1, <1>7, <1>8 DEF DirShowing
<1> QED
    BY <1>1, <1>6, <1>9

LEMMA InstallHolds ==
    ASSUME FilesHold, NamedInv', InstallFlush
    PROVE  /\ FilesHold'
           /\ Shown(dir) = View(sstables)' /\ View(sstables)' = Apply(View(sstables), batch)
<1> DEFINE t == Flushed(batch)
<1>1. /\ sstables' = Append(sstables, t) /\ next_seq' = next_seq + 1 /\ writer' = "idle"
      /\ UNCHANGED <<phase, dir, crash_dirs, compactor, obsolete>> /\ phase = "up"
      /\ Compacted' = Compacted /\ Publishing' = Publishing
      /\ t.first = next_seq /\ t.last = next_seq /\ t \in Table /\ t \in dir /\ t.data = batch
    BY FlushedType
    DEF InstallFlush, compactorVars, dirVars, Replacement, Compacted, Merged, Publishing, FilesHold,
        NamedInv, OrderInv, TypeInv, DownIsIdle, TypeOK, FlushInPlace, Flushed
<1> HIDE DEF t
<1>2. sstables \in Seq(Table) /\ next_seq \in Nat
    BY VectorInOrder DEF FilesHold, NamedInv
<1>3. TablesOf(sstables') = TablesOf(sstables) \cup {t}
    BY <1>1, <1>2, TablesOfAppend
<1>4. /\ dir = Below(dir, next_seq) \cup {t}
      /\ Shown(dir) = Apply(Shown(Below(dir, next_seq)), t.data)
    BY <1>1, DirShape, WithPending
<1>5. Below(dir, next_seq + 1) = dir
    <2>1. \A x \in dir : x.last \in Nat /\ (x.last < next_seq \/ x.last = next_seq)
        BY <1>1, DirShape DEF Table
    <2> QED
        BY <1>2, <2>1 DEF Below
<1>6. Shown(dir) = View(sstables') /\ View(sstables') = Apply(View(sstables), batch)
    <2>1. View(Append(sstables, t)) = Apply(View(sstables), t.data)
        BY <1>1, <1>2, ViewOfAppend
    <2>2. Shown(Below(dir, next_seq)) = View(sstables)
        BY <1>1 DEF FilesHold, DirHolds
    <2> QED
        BY <1>1, <1>4, <2>1, <2>2
<1>7. DirExact'
    BY <1>1, <1>3, <1>4, <1>5 DEF FilesHold, DirExact
<1>8. DirHolds' /\ NonEmpty' /\ FlushInPlace'
    BY <1>1, <1>5, <1>6 DEF FilesHold, DirHolds, NonEmpty, FlushInPlace
<1>9. Harmless(obsolete, sstables')
    <2>1. \A x \in TablesOf(obsolete) : x.last < t.first
        BY <1>1 DEF FilesHold, NamedInv, ObsoleteGone
    <2> QED
        BY <1>3, <2>1 DEF FilesHold, Harmless
<1> QED
    BY <1>1, <1>6, <1>7, <1>8, <1>9 DEF FilesHold

LEMMA MergeHolds ==
    ASSUME FilesHold, NamedInv', PublishMerge
    PROVE  FilesHold'
<1> DEFINE t == Compacted
           r == <<t>>
           new == Splice(sstables, start, count, r)
<1>1. /\ ChangeDir(DirWith(t)) /\ phase = "up"
      /\ compactor = "merging" /\ compactor' = "renamed" /\ Merged # Empty /\ count >= 2
      /\ UNCHANGED <<phase, sstables, next_seq, obsolete>>
      /\ Compacted' = t /\ Replacement' = Replacement /\ obsolete = <<>>
    BY DEF PublishMerge, writerVars, Compacted, Replacement, Merged, FilesHold, NamedInv, OrderInv,
           TypeInv, DownIsIdle, TypeOK, ObsoleteGone, RunIntact
<1>2. /\ sstables \in Seq(Table) /\ Ordered(sstables)
      /\ start \in Nat /\ count \in Nat /\ count >= 1 /\ start + count <= Len(sstables)
      /\ t \in Table /\ t.data = Merged
      /\ t.first = sstables[start + 1].first
      /\ t.last = sstables[start + count].last
      /\ t.last < next_seq
      /\ Replacement # <<>> <=> Merged # Empty
    BY <1>1, RunShape DEF FilesHold, NamedInv, OrderInv
<1>3. t.data = Merge(SubSeq(sstables, start + 1, start + count), start = 0)
    BY <1>1, RunShape DEF FilesHold, NamedInv, OrderInv, Merged
<1> HIDE DEF t
<1>4. ~Publishing /\ Publishing'
    BY <1>1, <1>2 DEF Publishing
<1>5. /\ dir' = DirWithout(t) \cup {t} /\ DirWithout(t) \subseteq dir /\ dir \in crash_dirs
      /\ crash_dirs' = crash_dirs \cup {dir'}
    BY <1>1, VectorInOrder DEF ChangeDir, DirWith, DirWithout, FilesHold, NamedInv
<1>6. Below(dir', next_seq) = TablesOf(sstables) \cup {t}
    <2>1. Below(dir, next_seq) = TablesOf(sstables)
        BY <1>1, <1>4, NothingObsolete DEF FilesHold, DirExact
    <2>2. \A v \in TablesOf(sstables) : v \in dir'
        <3>1. \A v \in TablesOf(sstables) : ~SameName(v, t)
            BY <1>1, <1>2, MergedNameIsNew
        <3> QED
            BY <1>5, <2>1, <3>1 DEF Below, DirWithout
    <2>3. \A v \in TablesOf(sstables) : v.last < next_seq
        BY VectorInOrder DEF FilesHold, NamedInv
    <2> QED
        BY <1>2, <1>5, <2>1, <2>2, <2>3 DEF Below
<1>7. DirExact'
    BY <1>1, <1>4, <1>6, NothingObsolete DEF DirExact
<1>8. View(new) = View(sstables)
    <2>1. t.data # Empty
        BY <1>1, <1>2
    <2>2. start + count <= Len(sstables) /\ t \in Table /\ sstables \in Seq(Table)
          /\ start \in Nat /\ count \in Nat
        BY <1>2
    <2>3. View(Splice(sstables, start, count, IF t.data = Empty THEN <<>> ELSE <<t>>))
            = View(sstables)
        BY <1>3, <2>2, MergePreservesView
    <2> QED
        BY <2>1, <2>3 DEF r
<1>9. r \in Seq(Table) /\ Len(r) = 1 /\ r[1] = t
    BY <1>2
<1> HIDE DEF r
<1>10. new \in Seq(Table) /\ Ordered(new)
    <2>1. Splice(sstables, start, count, r) \in Seq(Table)
        BY <1>2, <1>9, SpliceParts
    <2>2. /\ sstables \in Seq(Table) /\ Ordered(sstables)
          /\ start \in Nat /\ count \in Nat /\ count >= 1 /\ start + count <= Len(sstables)
          /\ t \in Table /\ t.first = sstables[start + 1].first
          /\ t.last = sstables[start + count].last
          /\ r \in Seq(Table) /\ Len(r) <= 1 /\ (Len(r) = 1 => r[1] = t)
        BY <1>2, <1>9
    <2>3. Ordered(Splice(sstables, start, count, r))
        BY <2>2, SpliceOrdered
    <2> QED
        BY <2>1, <2>3
<1>11. TablesOf(Splice(sstables, start, count, r))
         = {sstables[j] : j \in (1..Len(sstables)) \ (start + 1..start + count)} \cup TablesOf(r)
    BY <1>2, <1>9, SpliceTables
<1>12. TablesOf(r) = {t}
    BY <1>9, LenProperties DEF TablesOf
<1> DEFINE d == Below(dir', next_seq)
<1>13. Survivors(d) = TablesOf(new)
    <2>1. DOMAIN sstables = 1..Len(sstables) /\ Len(sstables) \in Nat
        BY <1>2, VectorType
    <2>2. TablesOf(new) \subseteq d
        BY <1>6, <1>11, <1>12, <2>1 DEF TablesOf
    <2>3. ASSUME NEW x \in d \ TablesOf(new) PROVE Covers(t, x)
        <3>1. x \in TablesOf(sstables)
            BY <1>6, <1>11, <1>12
        <3>2. PICK i \in DOMAIN sstables : x = sstables[i]
            BY <3>1 DEF TablesOf
        <3>3. i \in start + 1..start + count
            BY <1>11, <2>1, <3>2
        <3>4. \A j \in DOMAIN sstables :
                  start + 1 <= j /\ j <= start + count => Covers(t, sstables[j])
            BY <1>2, RunSpan
        <3> QED
            BY <1>2, <3>2, <3>3, <3>4
    <2>4. d \in SUBSET Table /\ NamesDistinct(d)
        <3>1. dir' \in SUBSET Table
            BY <1>2, <1>5, VectorInOrder DEF FilesHold, NamedInv
        <3>2. NamesDistinct(dir')
            BY <1>5 DEF NamedInv, DirsNamed
        <3> QED
            BY <3>1, <3>2 DEF Below, NamesDistinct
    <2>5. t \in TablesOf(new)
        BY <1>11, <1>12
    <2>6. \E i \in DOMAIN new : new[i] = t
        BY <2>5 DEF TablesOf
    <2> HIDE DEF d, new
    <2>7. \A x \in d \ TablesOf(new) : \E i \in DOMAIN new : Covers(new[i], x)
        BY <2>3, <2>6
    <2> QED
        BY <1>10, <2>2, <2>4, <2>7, SurvivorsOfVector
<1>14. DirHolds'
    <2> HIDE DEF d, new
    <2>1. DirView(TablesOf(new)) = View(new)
        BY <1>10, DirViewOfVector
    <2>2. DirView(Survivors(d)) = View(sstables)
        BY <1>8, <1>13, <2>1
    <2> QED
        BY <1>1, <2>2 DEF DirHolds, Shown, d
<1>15. NonEmpty'
    BY <1>1, <1>2, <1>5 DEF FilesHold, NonEmpty
<1>16. FlushInPlace'
    <2>1. next_seq \in Nat /\ Flushed(batch).last = next_seq /\ Flushed(batch)' = Flushed(batch)
          /\ UNCHANGED writer
        BY VectorInOrder DEF Flushed, FilesHold, NamedInv, PublishMerge, writerVars
    <2>2. ~SameName(Flushed(batch), t)
        BY <1>2, <2>1 DEF SameName
    <2> QED
        BY <1>1, <2>1, <2>2, OthersStay DEF FilesHold, FlushInPlace
<1> QED
    BY <1>1, <1>7, <1>14, <1>15, <1>16 DEF FilesHold

\* A run that merges into nothing is dead; one that does not begin with the
\* oldest table never merges into nothing.
LEMMA MergedAway ==
    ASSUME NEW r \in Seq(Table), NEW drop \in BOOLEAN, Merge(r, drop) = Empty,
           r # <<>>, \A i \in DOMAIN r : r[i].data # Empty
    PROVE  drop /\ Dead(r)
<1>1. \A k \in Key : (drop /\ Record(r, k) = Tombstone) \/ Record(r, k) = None
    BY DEF Merge, Empty
<1>2. ASSUME ~drop PROVE FALSE
    <2>1. Len(r) \in Nat /\ Len(r) # 0 /\ DOMAIN r = 1..Len(r) /\ 1 \in DOMAIN r
        BY VectorType, EmptySeq
    <2>2. \A k \in Key : r[1].data[k] = None
        BY <1>1, <1>2, <2>1, NoHitNoRecord
    <2>3. r[1].data \in [Key -> Entry]
        BY <2>1, VectorType DEF Data
    <2>4. r[1].data = Empty
        BY <2>2, <2>3 DEF Empty
    <2> QED
        BY <2>1, <2>4
<1> QED
    BY <1>1, <1>2 DEF Dead

LEMMA SwapHolds ==
    ASSUME FilesHold, NamedInv', SwapRun
    PROVE  FilesHold'
<1>1. /\ sstables \in Seq(Table) /\ Ordered(sstables)
      /\ start \in Nat /\ count \in Nat /\ count >= 1 /\ start + count <= Len(sstables)
      /\ Compacted \in Table
      /\ Compacted.first = sstables[start + 1].first
      /\ Compacted.last = sstables[start + count].last
      /\ Replacement \in Seq(Table) /\ Len(Replacement) <= 1
      /\ Len(Replacement) = 1 => Replacement[1] = Compacted
      /\ Replacement # <<>> <=> Len(Replacement) = 1
    BY RunShape DEF FilesHold, NamedInv, OrderInv, SwapRun
<1>2. Replacement # <<>> <=> Merged # Empty
    BY RunShape DEF FilesHold, NamedInv, OrderInv, SwapRun
<1>3. /\ sstables' = Splice(sstables, start, count, Replacement)
      /\ obsolete' = SubSeq(sstables, start + 1, start + count)
      /\ UNCHANGED <<phase, dir, crash_dirs, next_seq, writer, batch, run, start>> /\ phase = "up"
      /\ compactor = "merged" /\ compactor' = "removing" /\ obsolete = <<>>
    BY DEF SwapRun, writerVars, dirVars, FilesHold, NamedInv, OrderInv, TypeInv, DownIsIdle, TypeOK,
           ObsoleteGone
<1>4. View(sstables)' = View(sstables)
    BY SwapKeepsView DEF FilesHold, NamedInv, OrderInv
<1>5. Publishing <=> Replacement # <<>>
    BY <1>3 DEF Publishing
<1>6. Merged = Empty => Merge(run, start = 0) = Empty
    BY DEF Merged
<1> HIDE DEF Compacted, Replacement
<1>7. TablesOf(Splice(sstables, start, count, Replacement))
        = {sstables[j] : j \in (1..Len(sstables)) \ (start + 1..start + count)}
          \cup TablesOf(Replacement)
    BY <1>1, SpliceTables
<1>8. TablesOf(obsolete') = {sstables[i] : i \in start + 1..start + count}
    BY <1>1, <1>3, ObsoleteIsRun
<1>9. TablesOf(Replacement) = IF Replacement # <<>> THEN {Compacted} ELSE {}
    BY <1>1, LenProperties DEF TablesOf
<1>10. DOMAIN sstables = 1..Len(sstables) /\ Len(sstables) \in Nat
    BY <1>1, VectorType
<1>11. TablesOf(sstables) = {sstables[j] : j \in (1..Len(sstables)) \ (start + 1..start + count)}
                              \cup TablesOf(obsolete')
    <2>1. \A j \in start + 1..start + count : j \in 1..Len(sstables)
        BY <1>1, <1>10
    <2> QED
        BY <1>8, <1>10, <2>1 DEF TablesOf
<1>12. DirExact'
    <2>1. Below(dir, next_seq) = TablesOf(sstables) \cup TablesOf(Replacement)
        BY <1>3, <1>5, <1>9, NothingObsolete DEF FilesHold, DirExact
    <2>2. ~Publishing'
        BY <1>3 DEF Publishing
    <2>3. TablesOf(sstables') \cup TablesOf(obsolete')
            = TablesOf(sstables) \cup TablesOf(Replacement)
        BY <1>3, <1>7, <1>11
    <2> QED
        BY <1>3, <2>1, <2>2, <2>3 DEF DirExact
<1>13. obsolete' \in Seq(Table) /\ Len(obsolete') = count
       /\ \A i \in 1..count : obsolete'[i] = sstables[start + i]
    <2>1. Len(sstables) \in Nat /\ \A i \in start + 1..start + count : sstables[i] \in Table
        BY <1>1, LenProperties, ElementOfSeq
    <2>2. /\ obsolete' \in Seq(Table) /\ Len(obsolete') = count
          /\ \A i \in 1..(start + count) - (start + 1) + 1 :
                obsolete'[i] = sstables[(start + 1) + i - 1]
        BY <1>1, <1>3, <2>1, SubSeqProperties
    <2>3. ASSUME NEW i \in 1..count
          PROVE  (start + 1) + i - 1 = start + i /\ i \in 1..(start + count) - (start + 1) + 1
        BY <1>1
    <2>4. ASSUME NEW i \in 1..count PROVE obsolete'[i] = sstables[(start + 1) + i - 1]
        BY <2>2, <2>3
    <2> QED
        BY <2>2, <2>3, <2>4
<1>14. DOMAIN obsolete' = 1..count
    BY <1>13, VectorType
<1>15. Ordered(obsolete')
    <2>1. ASSUME NEW i \in 1..count PROVE start + i \in DOMAIN sstables
        BY <1>1, <1>10
    <2>2. ASSUME NEW i \in 1..count PROVE obsolete'[i].first <= obsolete'[i].last
        <3>1. sstables[start + i].first <= sstables[start + i].last
            BY <1>1, <2>1 DEF Ordered
        <3> QED
            BY <1>13, <3>1
    <2>3. ASSUME NEW i \in 1..count, NEW j \in 1..count, i < j
          PROVE  obsolete'[i].last < obsolete'[j].first
        <3>1. start + i < start + j
            BY <1>1, <2>3
        <3>2. sstables[start + i].last < sstables[start + j].first
            BY <1>1, <2>1, <3>1 DEF Ordered
        <3> QED
            BY <1>13, <3>2
    <2> QED
        BY <1>14, <2>2, <2>3 DEF Ordered
<1>16. Harmless(obsolete', sstables')
    <2>1. CASE Replacement # <<>>
        <3>1. Compacted \in TablesOf(sstables')
            BY <1>3, <1>7, <1>9, <2>1
        <3>2. \A i \in DOMAIN sstables :
                  start + 1 <= i /\ i <= start + count => Covers(Compacted, sstables[i])
            BY <1>1, RunSpan
        <3>3. ASSUME NEW x \in TablesOf(obsolete') PROVE Covers(Compacted, x)
            <4>1. PICK i \in start + 1..start + count : x = sstables[i]
                BY <1>8
            <4>2. i \in DOMAIN sstables /\ start + 1 <= i /\ i <= start + count
                BY <1>1, <1>10, <4>1
            <4> QED
                BY <3>2, <4>1, <4>2
        <3> QED
            BY <3>1, <3>3 DEF Harmless
    <2>2. CASE Replacement = <<>>
        <3>1. obsolete' = run /\ run # <<>>
            <4>1. obsolete' = run
                BY DEF SwapRun, FilesHold, NamedInv, OrderInv, TypeInv, RunIntact
            <4>2. Len(run) # 0
                BY <1>1, <1>13, <4>1
            <4> QED
                BY <4>1, <4>2
        <3>2. \A i \in DOMAIN run : run[i].data # Empty
            <4>1. \A x \in TablesOf(sstables) : x.data # Empty
                BY <1>3, VectorInOrder DEF FilesHold, NamedInv, NonEmpty, DirExact, Below
            <4> QED
                BY <1>11, <3>1, <4>1 DEF TablesOf
        <3>3. start = 0 /\ Dead(run)
            <4>1. Merge(run, start = 0) = Empty
                BY <1>2, <1>6, <2>2
            <4>2. run \in Seq(Table)
                BY <1>13, <3>1
            <4> QED
                BY <3>1, <3>2, <4>1, <4>2, MergedAway
        <3>4. ASSUME NEW x \in TablesOf(obsolete'), NEW u \in TablesOf(sstables')
              PROVE  x.last < u.first
            <4>1. PICK i \in start + 1..start + count : x = sstables[i]
                BY <1>8
            <4>2. PICK j \in (1..Len(sstables)) \ (start + 1..start + count) : u = sstables[j]
                BY <1>3, <1>7, <1>9, <2>2
            <4>3. i \in DOMAIN sstables /\ j \in DOMAIN sstables /\ i < j
                BY <1>1, <1>10, <3>3
            <4> QED
                BY <1>1, <4>1, <4>2, <4>3 DEF Ordered
        <3> QED
            BY <3>1, <3>3, <3>4 DEF Harmless
    <2> QED
        BY <2>1, <2>2
<1>17. NonEmpty' /\ FlushInPlace' /\ DirHolds'
    BY <1>3, <1>4 DEF FilesHold, NonEmpty, FlushInPlace, Flushed, DirHolds
<1> QED
    BY <1>12, <1>15, <1>16, <1>17 DEF FilesHold

\* The oldest of the files yet to be unlinked, and the others.
LEMMA HeadOfOrdered ==
    ASSUME NEW o \in Seq(Table), o # <<>>, Ordered(o)
    PROVE  /\ Head(o) \in Table /\ Tail(o) \in Seq(Table) /\ Ordered(Tail(o))
           /\ TablesOf(o) = {Head(o)} \cup TablesOf(Tail(o))
           /\ \A x \in TablesOf(Tail(o)) : ~SameName(x, Head(o))
<1>1. /\ Len(o) \in Nat /\ Len(o) # 0 /\ DOMAIN o = 1..Len(o) /\ Head(o) = o[1]
      /\ Tail(o) \in Seq(Table) /\ Len(Tail(o)) = Len(o) - 1
      /\ \A i \in 1..Len(Tail(o)) : Tail(o)[i] = o[i + 1]
    BY VectorType, HeadTailProperties, EmptySeq
<1> DEFINE r == Tail(o)
<1>2. DOMAIN r = 1..Len(r)
    BY <1>1, VectorType
<1> HIDE DEF r
<1>3. ASSUME NEW i \in DOMAIN r
      PROVE  r[i] = o[i + 1] /\ i \in Nat /\ i + 1 \in DOMAIN o /\ i + 1 > 1 /\ 1 \in DOMAIN o
    BY <1>1, <1>2 DEF r
<1>4. Ordered(r)
    <2>1. \A i \in DOMAIN r : r[i].first <= r[i].last
        BY <1>3 DEF Ordered
    <2>2. ASSUME NEW i \in DOMAIN r, NEW j \in DOMAIN r, i < j PROVE r[i].last < r[j].first
        <3>1. i + 1 < j + 1
            BY <1>3, <2>2
        <3>2. o[i + 1].last < o[j + 1].first
            BY <1>3, <3>1 DEF Ordered
        <3> QED
            BY <1>3, <3>2
    <2> QED
        BY <2>1, <2>2 DEF Ordered
<1>5. ASSUME NEW i \in DOMAIN r PROVE ~SameName(r[i], o[1])
    <2>1. /\ o[1].first <= o[1].last /\ o[1].last < o[i + 1].first
          /\ o[1].first \in Nat /\ o[1].last \in Nat /\ o[i + 1].first \in Nat
        BY <1>3, VectorType DEF Ordered
    <2> QED
        BY <1>3, <2>1 DEF SameName
<1>6. TablesOf(o) = {o[1]} \cup TablesOf(r)
    <2>1. ASSUME NEW j \in DOMAIN o PROVE j = 1 \/ (j - 1 \in DOMAIN r /\ o[j] = r[j - 1])
        <3>1. CASE j # 1
            <4>1. j - 1 \in 1..Len(o) - 1 /\ (j - 1) + 1 = j
                BY <1>1, <3>1
            <4> QED
                BY <1>1, <1>2, <4>1 DEF r
        <3> QED
            BY <3>1
    <2>2. 1 \in DOMAIN o
        BY <1>1
    <2> QED
        BY <1>3, <2>1, <2>2 DEF TablesOf
<1>7. o[1] \in Table
    BY <1>1, ElementOfSeq
<1> QED
    BY <1>1, <1>4, <1>5, <1>6, <1>7 DEF r, TablesOf

\* Harmless files do not change what the directory answers.
LEMMA HarmlessView ==
    ASSUME NEW o \in Seq(Table), Ordered(o), NEW ts \in Seq(Table), Ordered(ts), Harmless(o, ts),
           NEW d \in SUBSET Table, NamesDistinct(d), d = TablesOf(ts) \cup TablesOf(o)
    PROVE  DirView(Survivors(d)) = View(ts)
<1>1. ASSUME NEW u \in TablesOf(ts), \A x \in TablesOf(o) : Covers(u, x)
      PROVE  DirView(Survivors(d)) = View(ts)
    <2>1. PICK i \in DOMAIN ts : u = ts[i]
        BY DEF TablesOf
    <2>2. \A x \in d \ TablesOf(ts) : \E j \in DOMAIN ts : Covers(ts[j], x)
        BY <1>1, <2>1
    <2>3. TablesOf(ts) \subseteq d
        OBVIOUS
    <2>4. Survivors(d) = TablesOf(ts)
        BY <2>2, <2>3, SurvivorsOfVector
    <2> QED
        BY <2>4, DirViewOfVector
<1>2. CASE (\A x \in TablesOf(o), u \in TablesOf(ts) : x.last < u.first) /\ Dead(o)
    <2> DEFINE w == o \o ts
    <2>1. /\ w \in Seq(Table) /\ Len(w) = Len(o) + Len(ts)
          /\ \A i \in 1..Len(o) : w[i] = o[i]
          /\ \A i \in 1..Len(ts) : w[Len(o) + i] = ts[i]
        BY ConcatElements
    <2>2. /\ DOMAIN o = 1..Len(o) /\ DOMAIN ts = 1..Len(ts) /\ Len(o) \in Nat /\ Len(ts) \in Nat
        BY VectorType
    <2>3. View(w) = View(ts)
        BY <1>2, ViewBehindDead
    <2> HIDE DEF w
    <2>4. DOMAIN w = 1..Len(o) + Len(ts)
        BY <2>1, VectorType
    <2>5. ASSUME NEW i \in DOMAIN w, ~(i <= Len(o))
          PROVE  i - Len(o) \in DOMAIN ts /\ w[i] = ts[i - Len(o)]
        <3>1. i - Len(o) \in 1..Len(ts) /\ Len(o) + (i - Len(o)) = i
            BY <2>2, <2>4, <2>5
        <3>2. w[Len(o) + (i - Len(o))] = ts[i - Len(o)]
            BY <2>1, <3>1
        <3> QED
            BY <2>2, <3>1, <3>2
    <2>6. ASSUME NEW i \in DOMAIN w, i <= Len(o) PROVE i \in DOMAIN o /\ w[i] = o[i]
        BY <2>1, <2>2, <2>4, <2>6
    <2>7. TablesOf(w) = d
        <3>1. ASSUME NEW i \in DOMAIN w PROVE w[i] \in d
            BY <2>2, <2>5, <2>6 DEF TablesOf
        <3>2. ASSUME NEW i \in DOMAIN o PROVE i \in DOMAIN w /\ w[i] = o[i]
            BY <2>1, <2>2, <2>4
        <3>3. ASSUME NEW i \in DOMAIN ts PROVE Len(o) + i \in DOMAIN w /\ w[Len(o) + i] = ts[i]
            BY <2>1, <2>2, <2>4
        <3> QED
            BY <3>1, <3>2, <3>3 DEF TablesOf
    <2>8. Ordered(w)
        <3>1. \A i \in DOMAIN w : w[i].first <= w[i].last
            BY <2>5, <2>6 DEF Ordered
        <3>2. ASSUME NEW i \in DOMAIN w, NEW j \in DOMAIN w, i < j PROVE w[i].last < w[j].first
            <4>1. CASE j <= Len(o)
                <5>1. i <= Len(o)
                    BY <2>2, <2>4, <3>2, <4>1
                <5> QED
                    BY <2>6, <3>2, <4>1, <5>1 DEF Ordered
            <4>2. CASE i <= Len(o) /\ ~(j <= Len(o))
                <5>1. w[i] \in TablesOf(o) /\ w[j] \in TablesOf(ts)
                    BY <2>5, <2>6, <4>2 DEF TablesOf
                <5> QED
                    BY <1>2, <5>1
            <4>3. CASE ~(i <= Len(o)) /\ ~(j <= Len(o))
                <5>1. i - Len(o) < j - Len(o)
                    BY <2>2, <2>4, <3>2
                <5> QED
                    BY <2>5, <4>3, <5>1 DEF Ordered
            <4> QED
                BY <4>1, <4>2, <4>3
        <3> QED
            BY <3>1, <3>2 DEF Ordered
    <2>9. DirView(TablesOf(w)) = View(w)
        BY <2>1, <2>8, DirViewOfVector
    <2>10. Survivors(TablesOf(w)) = TablesOf(w)
        <3>1. \A x \in d \ TablesOf(w) : \E j \in DOMAIN w : Covers(w[j], x)
            BY <2>7
        <3>2. TablesOf(w) \subseteq d
            BY <2>7
        <3>3. Survivors(d) = TablesOf(w)
            BY <2>1, <2>8, <3>1, <3>2, SurvivorsOfVector
        <3> QED
            BY <2>7, <3>3
    <2> QED
        BY <2>3, <2>7, <2>9, <2>10
<1> QED
    BY <1>1, <1>2 DEF Harmless

LEMMA RemovedHolds ==
    ASSUME FilesHold, NamedInv', RemoveObsolete
    PROVE  FilesHold'
<1> DEFINE t == Head(obsolete)
           r == Tail(obsolete)
<1>1. /\ ChangeDir(DirWithout(t)) /\ obsolete' = r /\ obsolete # <<>>
      /\ UNCHANGED <<phase, sstables, next_seq, compactor>>
      /\ compactor = "removing" /\ phase = "up" /\ obsolete \in Seq(Table)
    BY DEF RemoveObsolete, writerVars, FilesHold, NamedInv, OrderInv, TypeInv, DownIsIdle, TypeOK
<1>2. /\ t \in Table /\ r \in Seq(Table) /\ Ordered(r)
      /\ TablesOf(obsolete) = {t} \cup TablesOf(r)
      /\ \A x \in TablesOf(r) : ~SameName(x, t)
    BY <1>1, HeadOfOrdered DEF FilesHold, NamedInv
<1>3. Harmless(r, sstables)
    <2>1. Dead(obsolete) => Dead(r)
        BY <1>1, TailIsDead
    <2> HIDE DEF r, t
    <2> QED
        BY <1>2, <2>1 DEF FilesHold, Harmless
<1> HIDE DEF r, t
<1>4. ~Publishing /\ ~Publishing'
    BY <1>1 DEF Publishing
<1>5. /\ dir' = DirWithout(t) /\ dir' \subseteq dir /\ dir \in crash_dirs
      /\ crash_dirs' = crash_dirs \cup {dir'} /\ crash_dirs \subseteq SUBSET Table
    BY <1>1, VectorInOrder DEF ChangeDir, DirWithout, FilesHold, NamedInv
<1>6. \A u \in TablesOf(sstables) : ~SameName(u, t)
    BY <1>2 DEF FilesHold, NamedInv, ObsoleteGone, SameName
<1>7. Below(dir', next_seq) = TablesOf(sstables) \cup TablesOf(r)
    <2>1. Below(dir, next_seq) = TablesOf(sstables) \cup {t} \cup TablesOf(r)
        BY <1>1, <1>2, <1>4 DEF FilesHold, DirExact
    <2>2. Below(dir', next_seq) = {x \in Below(dir, next_seq) : ~SameName(x, t)}
        BY <1>5 DEF Below, DirWithout
    <2>3. SameName(t, t)
        BY DEF SameName
    <2> QED
        BY <1>2, <1>6, <2>1, <2>2, <2>3
<1>8. DirExact'
    BY <1>1, <1>4, <1>7 DEF DirExact
<1>9. DirHolds'
    <2>1. sstables \in Seq(Table) /\ Ordered(sstables)
        BY VectorInOrder DEF FilesHold, NamedInv
    <2>2. NamesDistinct(dir')
        BY <1>5 DEF NamedInv, DirsNamed
    <2> DEFINE d == Below(dir', next_seq)
    <2>3. d \in SUBSET Table /\ NamesDistinct(d)
        BY <1>5, <2>2 DEF Below, NamesDistinct
    <2> HIDE DEF d
    <2>4. d = TablesOf(sstables) \cup TablesOf(r)
        BY <1>7 DEF d
    <2>5. DirView(Survivors(d)) = View(sstables)
        BY <1>2, <1>3, <2>1, <2>3, <2>4, HarmlessView
    <2> QED
        BY <1>1, <2>5 DEF DirHolds, Shown, d
<1>10. NonEmpty'
    BY <1>5 DEF FilesHold, NonEmpty
<1>11. FlushInPlace'
    <2>1. t.last < next_seq /\ next_seq \in Nat
        BY <1>2, VectorInOrder DEF FilesHold, NamedInv, ObsoleteGone
    <2>2. ~SameName(Flushed(batch), t)
        BY <2>1 DEF Flushed, SameName
    <2>3. UNCHANGED writer /\ Flushed(batch)' = Flushed(batch)
        BY DEF RemoveObsolete, writerVars, Flushed
    <2> QED
        BY <1>1, <2>2, <2>3, OthersStay DEF FilesHold, FlushInPlace
<1> QED
    BY <1>1, <1>2, <1>3, <1>8, <1>9, <1>10, <1>11 DEF FilesHold

LEMMA OpenedHolds ==
    ASSUME FilesHold, NamedInv', OpenSet
    PROVE  FilesHold' /\ Shown(dir) = View(sstables)'
<1>1. /\ dir \in SUBSET Table /\ IsFiniteSet(dir) /\ Spans(dir) /\ Nested(dir)
      /\ Superseded(dir) = {} /\ sstables' \in Listings(dir) /\ phase = "down" /\ phase' = "up"
      /\ UNCHANGED <<dir, crash_dirs, writer, compactor, obsolete>>
      /\ compactor = "idle" /\ writer = "idle" /\ \A t \in dir : t.last < next_seq'
    BY DirShape
    DEF OpenSet, FilesHold, NamedInv, OrderInv, TypeInv, DownIsIdle, dirVars, compactorVars, NextSeq
<1>2. sstables' \in Seq(Table) /\ Ordered(sstables') /\ TablesOf(sstables') = dir
    BY <1>1, ListingIsVector
<1>3. obsolete = <<>> /\ obsolete' = <<>>
    BY <1>1 DEF FilesHold, NamedInv, ObsoleteGone
<1>4. Below(dir, next_seq') = dir /\ Survivors(dir) = dir
    BY <1>1 DEF Below, Survivors
<1>5. DirExact'
    BY <1>1, <1>2, <1>3, <1>4, NothingObsolete DEF DirExact, Publishing
<1>6. Shown(dir) = View(sstables')
    <2>1. DirView(dir) = View(sstables')
        BY <1>2, DirViewOfVector
    <2> QED
        BY <1>4, <2>1 DEF Shown
<1>7. DirHolds' /\ NonEmpty' /\ FlushInPlace'
    BY <1>1, <1>4, <1>6 DEF FilesHold, DirHolds, NonEmpty, FlushInPlace
<1> QED
    BY <1>3, <1>5, <1>6, <1>7, NothingObsolete DEF FilesHold

\* While no process runs, only the files matter.
LEMMA DownHolds ==
    ASSUME FilesHold, NamedInv', phase' = "down", writer' = "idle", obsolete' = <<>>,
           \A d \in crash_dirs' : \E e \in crash_dirs : d \subseteq e
    PROVE  FilesHold'
<1>1. NonEmpty'
    BY DEF FilesHold, NonEmpty
<1>2. FlushInPlace' /\ DirExact' /\ DirHolds'
    BY DEF FlushInPlace, DirExact, DirHolds
<1> QED
    BY <1>1, <1>2, NothingObsolete DEF FilesHold

-----------------------------------------------------------------------------
(* The invariant, and what a step does to what the directory shows.        *)

\* A step that is not a flush's rename brings about no directory that shows
\* something new.
ShowsNothingNew == \A d \in crash_dirs' : \E e \in crash_dirs : Shown(d) = Shown(e)

\* A merge or an unlink shows nobody a difference.
LEMMA CompactionShown ==
    ASSUME FilesHold, FilesHold', PublishMerge \/ RemoveObsolete
    PROVE  Shown(dir)' = Shown(dir) /\ crash_dirs' = crash_dirs \cup {dir'}
<1>1. /\ UNCHANGED <<phase, sstables, next_seq>> /\ phase = "up"
      /\ crash_dirs' = crash_dirs \cup {dir'}
    BY DEF PublishMerge, RemoveObsolete, writerVars, FilesHold, NamedInv, OrderInv, TypeInv,
           DownIsIdle, TypeOK, ChangeDir
<1>2. Above(dir', next_seq) = Above(dir, next_seq)
    <2>1. CASE PublishMerge
        <3>1. /\ sstables \in Seq(Table) /\ Ordered(sstables)
              /\ start \in Nat /\ count \in Nat /\ count >= 1 /\ start + count <= Len(sstables)
              /\ Compacted \in Table
              /\ Compacted.first = sstables[start + 1].first
              /\ Compacted.last = sstables[start + count].last
              /\ Compacted.last < next_seq /\ next_seq \in Nat
            BY <2>1, RunShape, VectorInOrder DEF FilesHold, NamedInv, OrderInv, PublishMerge
        <3>2. dir' = DirWith(Compacted)
            BY <2>1 DEF PublishMerge, ChangeDir
        <3> HIDE DEF Compacted
        <3>3. Compacted.first <= Compacted.last
            BY <3>1, RunSpan
        <3>4. Compacted.first # next_seq
            BY <3>1, <3>3 DEF Table
        <3> QED
            BY <3>2, <3>4 DEF Above, DirWith, DirWithout, SameName
    <2>2. CASE RemoveObsolete
        <3>1. dir' = DirWithout(Head(obsolete)) /\ obsolete # <<>> /\ obsolete \in Seq(Table)
            BY <2>2 DEF RemoveObsolete, ChangeDir, FilesHold, NamedInv, OrderInv, TypeInv, TypeOK
        <3>2. Head(obsolete) \in TablesOf(obsolete)
            BY <3>1, HeadOfOrdered DEF FilesHold
        <3>3. Head(obsolete).last < next_seq /\ next_seq \in Nat
            BY <3>2, VectorInOrder DEF FilesHold, NamedInv, ObsoleteGone
        <3>4. \A u \in Above(dir, next_seq) : u.last = next_seq
            BY <1>1, DirShape DEF Above, Table, Spans
        <3> QED
            BY <3>1, <3>3, <3>4 DEF Above, DirWithout, SameName
    <2> QED
        BY <2>1, <2>2
<1> QED
    BY <1>1, <1>2, ShownStays

LEMMA CleaningShown ==
    ASSUME FilesHold, CleanLeftover
    PROVE  Shown(dir)' = Shown(dir) /\ crash_dirs' = crash_dirs \cup {dir'}
<1>1. PICK t \in Superseded(dir) : ChangeDir(DirWithout(t))
    BY DEF CleanLeftover
<1>2. dir' = dir \ {t}
    <2>1. t \in dir /\ NamesDistinct(dir)
        BY DirShape DEF Superseded
    <2>2. \A x \in dir : SameName(x, t) <=> x = t
        BY <2>1 DEF NamesDistinct, SameName
    <2> QED
        BY <1>1, <2>2 DEF ChangeDir, DirWithout
<1>3. Survivors(dir \ {t}) = Survivors(dir)
    BY DirShape, SurvivorsWithout
<1> QED
    BY <1>1, <1>2, <1>3 DEF ChangeDir, Shown

LEMMA FilesInvInit == Init => FilesInv
<1> SUFFICES ASSUME Init PROVE FilesInv
    OBVIOUS
<1>1. NamedInv
    BY NamedInvInit
<1> QED
    BY <1>1, NothingObsolete
    DEF Init, FilesInv, FilesHold, NonEmpty, FlushInPlace, DirExact, DirHolds, FlushSynced

LEMMA FilesHoldNext ==
    ASSUME Faults \subseteq {"flush_publish"}
    PROVE  FilesHold /\ [Next]_vars => FilesHold'
<1> SUFFICES ASSUME FilesHold, [Next]_vars PROVE FilesHold'
    OBVIOUS
<1>1. NamedInv'
    BY NamedInvNext DEF FilesHold
<1> USE DEF writerVars, compactorVars, dirVars
<1>2. ASSUME NEW m \in Memtable, PublishFlush(m) PROVE FilesHold'
    BY <1>1, <1>2, FlushHolds
<1>3. CASE InstallFlush
    BY <1>1, <1>3, InstallHolds
<1>4. CASE PublishMerge
    BY <1>1, <1>4, MergeHolds
<1>5. CASE SwapRun
    BY <1>1, <1>5, SwapHolds
<1>6. CASE RemoveObsolete
    BY <1>1, <1>6, RemovedHolds
<1>7. CASE OpenSet
    BY <1>1, <1>7, OpenedHolds
<1>8. CASE CleanLeftover
    <2>1. /\ phase' = "down" /\ writer' = "idle" /\ obsolete' = obsolete /\ compactor = "idle"
          /\ crash_dirs' = crash_dirs \cup {dir'} /\ dir' \subseteq dir
        BY <1>8
        DEF CleanLeftover, FilesHold, NamedInv, OrderInv, TypeInv, DownIsIdle, ChangeDir, DirWithout
    <2>2. obsolete' = <<>>
        BY <2>1 DEF FilesHold, NamedInv, ObsoleteGone
    <2>3. \A d \in crash_dirs' : \E e \in crash_dirs : d \subseteq e
        BY <2>1, VectorInOrder DEF FilesHold, NamedInv
    <2> QED
        BY <1>1, <2>1, <2>2, <2>3, DownHolds
<1>9. CASE PowerLoss \/ ProcessDies
    <2>1. /\ phase' = "down" /\ writer' = "idle" /\ obsolete' = <<>>
          /\ \A d \in crash_dirs' : \E e \in crash_dirs : d \subseteq e
        BY <1>9 DEF PowerLoss, ProcessDies, MemoryLost, CompactorIdle
    <2> QED
        BY <1>1, <2>1, DownHolds
<1>10. dir \in crash_dirs
    BY VectorInOrder DEF FilesHold, NamedInv
<1>11. CASE SyncFlush \/ FlushFails \/ UNCHANGED vars
    <2>1. /\ UNCHANGED <<phase, dir, sstables, next_seq, compactor, start, count, run, obsolete>>
          /\ \A d \in crash_dirs' : d \in crash_dirs
          /\ writer' = "idle" \/ (writer # "idle" /\ UNCHANGED batch) \/ UNCHANGED <<writer, batch>>
        BY <1>10, <1>11 DEF SyncFlush, FsyncDir, FlushFails, vars
    <2> QED
        BY <1>1, <2>1, FilesStay
<1>12. CASE PickRun \/ CaptureRun \/ SkipReplacement \/ CompactDone \/ CompactFails
    <2>1. CASE PickRun \/ CaptureRun \/ CompactDone
        <3>1. obsolete = <<>> /\ obsolete' = <<>> /\ ~Publishing /\ ~Publishing'
            BY <2>1
            DEF PickRun, CaptureRun, CompactDone, CompactorIdle, FilesHold, NamedInv, ObsoleteGone,
                Publishing
        <3>2. UNCHANGED <<phase, dir, crash_dirs, sstables, next_seq, writer, batch>>
            BY <2>1 DEF PickRun, CaptureRun, CompactDone
        <3> QED
            BY <1>1, <3>1, <3>2, FilesStay
    <2>2. CASE SkipReplacement
        <3>1. Replacement = <<>> /\ Replacement' = <<>>
            BY <2>2 DEF SkipReplacement, Replacement, Merged
        <3>2. obsolete = <<>> /\ obsolete' = <<>> /\ ~Publishing /\ ~Publishing'
            BY <2>2, <3>1 DEF SkipReplacement, FilesHold, NamedInv, ObsoleteGone, Publishing
        <3>3. UNCHANGED <<phase, dir, crash_dirs, sstables, next_seq, writer, batch>>
            BY <2>2 DEF SkipReplacement
        <3> QED
            BY <1>1, <3>2, <3>3, FilesStay
    <2>3. CASE CompactFails
        <3>1. compactor = "merging"
            BY <2>3 DEF CompactFails
        <3>2. obsolete = <<>> /\ obsolete' = <<>> /\ ~Publishing /\ ~Publishing'
            BY <2>3, <3>1
            DEF CompactFails, CompactorIdle, FilesHold, NamedInv, ObsoleteGone, Publishing
        <3>3. UNCHANGED <<phase, dir, crash_dirs, sstables, next_seq, writer, batch>>
            BY <2>3 DEF CompactFails
        <3> QED
            BY <1>1, <3>2, <3>3, FilesStay
    <2> QED
        BY <1>12, <2>1, <2>2, <2>3
<1>13. CASE SyncMerge
    <2>1. /\ UNCHANGED <<phase, dir, sstables, next_seq, writer, batch, obsolete>>
          /\ \A d \in crash_dirs' : d \in crash_dirs
          /\ Publishing' = Publishing /\ Compacted' = Compacted
        BY <1>10, <1>13 DEF SyncMerge, FsyncDir, Publishing, Replacement, Compacted, Merged
    <2> QED
        BY <1>1, <2>1, FilesStay
<1>14. ASSUME NEW r \in Reader, Get(r) PROVE FilesHold'
    <2>1. UNCHANGED <<phase, dirVars, sstables, writerVars, compactorVars>>
        BY <1>14 DEF Get, GetSnapshot, ProbeMiss, ProbeHit, ProbeNothingLeft, Return
    <2> QED
        BY <1>1, <2>1, FilesStay
<1> QED
    BY <1>2, <1>3, <1>4, <1>5, <1>6, <1>7, <1>8, <1>9, <1>11, <1>12, <1>13, <1>14
    DEF Next, Flush, Compact, Recover

\* But for the rename of a flush and for a crash, no step changes what the
\* directory shows; and a crash only picks a directory that was possible.
LEMMA StepShown ==
    ASSUME Faults \subseteq {"flush_publish"},
           FilesHold, FilesHold', [Next]_vars, \A m \in Memtable : ~PublishFlush(m)
    PROVE  ShowsNothingNew /\ (PowerLoss \/ Shown(dir)' = Shown(dir))
<1> USE DEF dirVars
<1>1. dir \in crash_dirs
    BY VectorInOrder DEF FilesHold, NamedInv
<1>2. CASE PublishMerge \/ RemoveObsolete
    BY <1>1, <1>2, CompactionShown DEF ShowsNothingNew
<1>3. CASE CleanLeftover
    BY <1>1, <1>3, CleaningShown DEF ShowsNothingNew
<1>4. CASE PowerLoss
    BY <1>4 DEF PowerLoss, ShowsNothingNew
<1>5. CASE SyncFlush \/ SyncMerge
    BY <1>1, <1>5 DEF SyncFlush, SyncMerge, FsyncDir, ShowsNothingNew
<1>6. ASSUME UNCHANGED dirVars PROVE ShowsNothingNew /\ Shown(dir)' = Shown(dir)
    BY <1>6 DEF ShowsNothingNew
<1>7. CASE InstallFlush \/ FlushFails \/ ProcessDies \/ OpenSet \/ UNCHANGED vars
    BY <1>6, <1>7 DEF InstallFlush, FlushFails, ProcessDies, OpenSet, vars
<1>8. CASE PickRun \/ CaptureRun \/ SkipReplacement \/ SwapRun \/ CompactDone \/ CompactFails
    BY <1>6, <1>8 DEF PickRun, CaptureRun, SkipReplacement, SwapRun, CompactDone, CompactFails
<1>9. ASSUME NEW r \in Reader, Get(r) PROVE ShowsNothingNew /\ Shown(dir)' = Shown(dir)
    BY <1>6, <1>9 DEF Get, GetSnapshot, ProbeMiss, ProbeHit, ProbeNothingLeft, Return
<1> QED
    BY <1>2, <1>3, <1>4, <1>5, <1>7, <1>8, <1>9 DEF Next, Flush, Compact, Recover

LEMMA FilesInvNext ==
    ASSUME Faults \subseteq {"flush_publish"}
    PROVE  FilesInv /\ [Next]_vars => FilesInv'
<1> SUFFICES ASSUME FilesInv, [Next]_vars PROVE FlushSynced'
    BY FilesHoldNext DEF FilesInv
<1>1. FilesHold /\ FilesHold' /\ FlushSynced
    BY FilesHoldNext DEF FilesInv
<1> SUFFICES ASSUME writer' = "synced" PROVE \A d \in crash_dirs' : Shown(d) = Shown(dir')
    BY DEF FlushSynced
<1>2. CASE SyncFlush
    BY <1>2 DEF SyncFlush, FsyncDir
<1>3. CASE ~SyncFlush
    <2>1. writer = "synced" /\ (\A m \in Memtable : ~PublishFlush(m)) /\ ~PowerLoss
        BY <1>3
        DEF Next, Flush, Compact, Get, Recover, PublishFlush, InstallFlush, FlushFails, PickRun,
            CaptureRun, SkipReplacement, PublishMerge, SyncMerge, SwapRun, RemoveObsolete,
            CompactDone, CompactFails, GetSnapshot, ProbeMiss, ProbeHit, ProbeNothingLeft, Return,
            PowerLoss, ProcessDies, MemoryLost, CleanLeftover, OpenSet, vars, writerVars
    <2>2. ShowsNothingNew /\ Shown(dir') = Shown(dir)
        BY <1>1, <2>1, StepShown
    <2> QED
        BY <1>1, <2>1, <2>2 DEF FlushSynced, ShowsNothingNew
<1> QED
    BY <1>2, <1>3

\* Once a flush is synced, whatever a crash leaves shows the vector and it.
LEMMA SyncedShown ==
    ASSUME FilesInv, writer = "synced"
    PROVE  \A d \in crash_dirs : Shown(d) = Apply(View(sstables), batch)
<1>1. phase = "up"
    BY DEF FilesInv, FilesHold, NamedInv, OrderInv, TypeInv, DownIsIdle, TypeOK
<1>2. Flushed(batch) \in Above(dir, next_seq) /\ Flushed(batch).data = batch
    BY DEF FilesInv, FilesHold, FlushInPlace, Above, Flushed
<1>3. Shown(dir) = Apply(View(sstables), batch)
    BY <1>1, <1>2, DirShows DEF FilesInv, DirShowing
<1> QED
    BY <1>3 DEF FilesInv, FlushSynced

-----------------------------------------------------------------------------
(* Steps that this module's users make beside Next.                        *)

\* The process ends in good order: the directory stays as it is.
LEMMA TypeClosed ==
    ASSUME TypeInv, MemoryLost, UNCHANGED <<dirVars, crashes>>
    PROVE  TypeInv'
BY EmptyType, ReaderIdleType
DEF MemoryLost, CompactorIdle, dirVars, TypeInv, TypeOK, DirsFinite, DownIsIdle, RunIntact,
    SearchInv

LEMMA FilesClosed ==
    ASSUME FilesInv, MemoryLost, UNCHANGED <<dirVars, crashes>>
    PROVE  FilesInv'
<1>1. /\ phase' = "down" /\ sstables' = <<>> /\ next_seq' = 0 /\ writer' = "idle"
      /\ batch' = Empty /\ compactor' = "idle" /\ start' = 0 /\ count' = 0 /\ run' = <<>>
      /\ obsolete' = <<>> /\ reader' = [r \in Reader |-> ReaderIdle]
      /\ UNCHANGED <<dir, crash_dirs, crashes>>
    BY DEF MemoryLost, CompactorIdle, dirVars
<1>2. TypeInv'
    BY TypeClosed DEF FilesInv, FilesHold, NamedInv, OrderInv
<1>3. OrderInv'
    BY <1>1, <1>2
    DEF FilesInv, FilesHold, NamedInv, OrderInv, SpansOrdered, DirsNested, Numbered, Placed
<1>4. NamedInv'
    BY <1>1, <1>3 DEF FilesInv, FilesHold, NamedInv, DirsNamed, ObsoleteGone, TablesOf
<1>5. FilesHold'
    BY <1>1, <1>4, DownHolds DEF FilesInv
<1> QED
    BY <1>1, <1>5 DEF FilesInv, FlushSynced

\* A get that needs no table.
LEMMA TypeRead ==
    ASSUME TypeInv, NEW r \in Reader, NEW x \in ReaderStates, SearchOK(x),
           reader' = [reader EXCEPT ![r] = x],
           UNCHANGED <<phase, dirVars, sstables, writerVars, compactorVars, crashes>>
    PROVE  TypeInv'
<1> USE DEF dirVars, writerVars, compactorVars
<1>1. reader' \in [Reader -> ReaderStates] /\ SearchInv'
    BY ReaderMoves DEF TypeInv, TypeOK
<1> QED
    BY <1>1 DEF TypeInv, TypeOK, DirsFinite, DownIsIdle, RunIntact

LEMMA FilesRead ==
    ASSUME FilesInv, NEW r \in Reader, NEW x \in ReaderStates, SearchOK(x),
           reader' = [reader EXCEPT ![r] = x],
           UNCHANGED <<phase, dirVars, sstables, writerVars, compactorVars, crashes>>
    PROVE  FilesInv'
<1> USE DEF dirVars, writerVars, compactorVars
<1>1. TypeInv'
    BY TypeRead DEF FilesInv, FilesHold, NamedInv, OrderInv
<1>2. OrderInv'
    <2>1. Publishing => Publishing' /\ Compacted' = Compacted
        BY DEF Publishing, Replacement, Compacted, Merged
    <2> QED
        BY <1>1, <2>1, OrderStays DEF FilesInv, FilesHold, NamedInv
<1>3. NamedInv'
    BY <1>2 DEF FilesInv, FilesHold, NamedInv, DirsNamed, ObsoleteGone
<1>4. FilesHold'
    BY <1>3, FilesStay DEF FilesInv
<1> QED
    BY <1>4 DEF FilesInv, FlushSynced
=============================================================================
