------------------------------- MODULE Layers -------------------------------
(***************************************************************************)
(* The data of lsmrs: memtables, SSTables and what a stack of SSTables     *)
(* means to a reader.  A memtable or a table's content is a total function *)
(* on Key; None says "no record for this key", Tombstone is a recorded     *)
(* deletion (the code's Option<Vec<u8>> being None in a map that holds the *)
(* key).  The bytes of a file are abstracted to its span of sequence       *)
(* numbers, which is its name, and its content.                            *)
(***************************************************************************)
EXTENDS Naturals, Sequences, FiniteSets

CONSTANTS Key, Value, Tombstone, None

ASSUME LayersAssumption ==
    /\ Tombstone \notin Value
    /\ None \notin Value
    /\ Tombstone # None

Entry == Value \cup {Tombstone, None}
Data  == [Key -> Entry]
Store == [Key -> Value \cup {None}]

Empty == [k \in Key |-> None]

\* sstable-{first}-{last}.sst
Table == [first : Nat, last : Nat, data : Data]

SameName(t, u) == t.first = u.first /\ t.last = u.last

(***************************************************************************)
(* Reading a stack of tables, oldest first.                                *)
(***************************************************************************)

\* The positions of the tables that hold a record for k.
Hits(ts, k) == {i \in 1..Len(ts) : ts[i].data[k] # None}

Newest(H) == CHOOSE i \in H : \A j \in H : j <= i

\* The record a newest-first search, or a merge, ends up with.
Record(ts, k) == IF Hits(ts, k) = {} THEN None ELSE ts[Newest(Hits(ts, k))].data[k]

\* What a caller of get is told: a tombstone answers like an absent key.
Visible(e) == IF e = Tombstone THEN None ELSE e

View(ts) == [k \in Key |-> Visible(Record(ts, k))]

\* The same question asked of a directory: a set of tables, ordered by name.
DirHits(dir, k) == {t \in dir : t.data[k] # None}

DirView(dir) ==
    [k \in Key |->
        IF DirHits(dir, k) = {} THEN None
        ELSE Visible((CHOOSE t \in DirHits(dir, k) :
                        \A u \in DirHits(dir, k) : u.first <= t.first).data[k])]

\* A memtable laid over a store.
Apply(store, batch) ==
    [k \in Key |-> IF batch[k] = None THEN store[k] ELSE Visible(batch[k])]

(***************************************************************************)
(* Compaction.                                                             *)
(***************************************************************************)

\* The k-way merge of a run: for every key of the run its newest record,
\* without the tombstones when the run holds the oldest table of the set.
Merge(run, drop_tombstones) ==
    [k \in Key |->
        IF drop_tombstones /\ Record(run, k) = Tombstone THEN None ELSE Record(run, k)]

\* Vec::splice of start..start + count (start counts from 0); replacement has
\* at most one table.
Splice(ts, start, count, replacement) ==
    SubSeq(ts, 1, start) \o replacement \o SubSeq(ts, start + count + 1, Len(ts))

(***************************************************************************)
(* Opening a directory.                                                    *)
(***************************************************************************)

\* spans.sort(): lexicographic on (first, last).
Before(t, u) == t.first < u.first \/ (t.first = u.first /\ t.last < u.last)

Covers(t, u) == t.first <= u.first /\ u.last <= t.last

\* Mutant: containment the wrong way round, the merged table is the one dropped.
SupersededBackwards(dir) == {t \in dir : \E u \in dir \ {t} : Covers(t, u)}

Superseded(dir) == {t \in dir : \E u \in dir \ {t} : Covers(u, t)}
Survivors(dir)  == dir \ Superseded(dir)

\* The sequences that list dir in name order (there is exactly one when the
\* names differ).
Listings(dir) ==
    {s \in [1..Cardinality(dir) -> dir] : \A i, j \in DOMAIN s : i < j => Before(s[i], s[j])}
=============================================================================
