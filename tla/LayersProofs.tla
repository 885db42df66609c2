---------------------------- MODULE LayersProofs ----------------------------
(***************************************************************************)
(* Lemmas about stacks of tables - which record a search of a concatenated *)
(* stack ends up with, and that replacing a run by its merge changes no    *)
(* answer - and about directories of tables.                               *)
(***************************************************************************)
EXTENDS Layers, SequenceTheorems, FunctionTheorems, FiniteSetTheorems,
        WellFoundedInduction, TLAPS

\* A nonempty set of positions has a last one, and Newest is it.
LEMMA NewestIsMax ==
    ASSUME NEW n \in Nat, NEW H \in SUBSET (1..n), H # {}
    PROVE  Newest(H) \in H /\ \A j \in H : j <= Newest(H)
<1> DEFINE D == {n - i : i \in H}
<1>1. \A i \in H : i \in Nat /\ n - i \in Nat
    OBVIOUS
<1>2. D \subseteq Nat /\ D # {}
    BY <1>1
<1>3. PICK d \in D : \A e \in D : ~(<<e, d>> \in OpToRel(<, Nat))
    <2>1. IsWellFoundedOn(OpToRel(<, Nat), Nat)
        BY NatLessThanWellFounded
    <2> HIDE DEF D
    <2> QED
        BY <1>2, <2>1, WFMin
<1>4. PICK i \in H : d = n - i
    OBVIOUS
<1>5. ASSUME NEW j \in H PROVE j <= i
    <2>1. <<n - j, n - i>> \notin OpToRel(<, Nat)
        BY <1>3, <1>4
    <2>2. ~(n - j < n - i)
        BY <1>1, <2>1 DEF OpToRel
    <2> QED
        BY <1>1, <2>2
<1> QED
    BY <1>5 DEF Newest

\* The record of k in a stack is that of the last table that has one.
LEMMA RecordIsLastHit ==
    ASSUME NEW ts \in Seq(Table), NEW k \in Key,
           NEW i \in 1..Len(ts), ts[i].data[k] # None,
           \A j \in 1..Len(ts) : j > i => ts[j].data[k] = None
    PROVE  Record(ts, k) = ts[i].data[k]
<1>1. Len(ts) \in Nat
    BY LenProperties
<1>2. Hits(ts, k) \subseteq 1..Len(ts) /\ i \in Hits(ts, k)
    BY DEF Hits
<1>3. \A j \in Hits(ts, k) : j <= i
    BY <1>1 DEF Hits
<1>4. Newest(Hits(ts, k)) \in Hits(ts, k) /\ i <= Newest(Hits(ts, k))
    BY <1>1, <1>2, NewestIsMax
<1>5. Newest(Hits(ts, k)) = i
    BY <1>1, <1>2, <1>3, <1>4
<1> QED
    BY <1>2, <1>5 DEF Record

\* Either no table of the stack has a record for k, or there is a last one.
LEMMA LastHitExists ==
    ASSUME NEW ts \in Seq(Table), NEW k \in Key, Hits(ts, k) # {}
    PROVE  \E i \in 1..Len(ts) :
              /\ ts[i].data[k] # None
              /\ \A j \in 1..Len(ts) : j > i => ts[j].data[k] = None
<1>1. Len(ts) \in Nat
    BY LenProperties
<1>2. Hits(ts, k) \in SUBSET (1..Len(ts))
    BY DEF Hits
<1>3. Newest(Hits(ts, k)) \in Hits(ts, k) /\ \A j \in Hits(ts, k) : j <= Newest(Hits(ts, k))
    BY <1>1, <1>2, NewestIsMax
<1>4. \A j \in 1..Len(ts) : j > Newest(Hits(ts, k)) => ts[j].data[k] = None
    BY <1>1, <1>2, <1>3 DEF Hits
<1> QED
    BY <1>3, <1>4 DEF Hits

LEMMA NoHitNoRecord ==
    ASSUME NEW ts \in Seq(Table), NEW k \in Key
    PROVE  Record(ts, k) = None <=> \A i \in 1..Len(ts) : ts[i].data[k] = None
<1>1. CASE Hits(ts, k) = {}
    BY <1>1 DEF Record, Hits
<1>2. CASE Hits(ts, k) # {}
    BY <1>2, LastHitExists, RecordIsLastHit
<1> QED
    BY <1>1, <1>2

LEMMA RecordPosition ==
    ASSUME NEW ts \in Seq(Table), NEW k \in Key, Record(ts, k) # None
    PROVE  \E i \in 1..Len(ts) :
              /\ Record(ts, k) = ts[i].data[k]
              /\ ts[i].data[k] # None
              /\ \A j \in 1..Len(ts) : j > i => ts[j].data[k] = None
<1>1. Hits(ts, k) # {}
    BY DEF Record
<1>2. PICK i \in 1..Len(ts) :
          /\ ts[i].data[k] # None
          /\ \A j \in 1..Len(ts) : j > i => ts[j].data[k] = None
    BY <1>1, LastHitExists
<1>3. Record(ts, k) = ts[i].data[k]
    BY <1>2, RecordIsLastHit
<1> QED
    BY <1>2, <1>3

LEMMA RecordType ==
    ASSUME NEW ts \in Seq(Table), NEW k \in Key
    PROVE  Record(ts, k) \in Entry
<1>1. CASE Hits(ts, k) = {}
    BY <1>1 DEF Record, Entry
<1>2. CASE Hits(ts, k) # {}
    <2>1. PICK i \in 1..Len(ts) :
              /\ ts[i].data[k] # None
              /\ \A j \in 1..Len(ts) : j > i => ts[j].data[k] = None
        BY <1>2, LastHitExists
    <2>2. ts[i] \in Table
        BY ElementOfSeq
    <2> QED
        BY <2>1, <2>2, RecordIsLastHit DEF Table, Data
<1> QED
    BY <1>1, <1>2

LEMMA VisibleType ==
    ASSUME NEW e \in Entry
    PROVE  Visible(e) \in Value \cup {None}
BY DEF Visible, Entry

LEMMA ViewType ==
    ASSUME NEW ts \in Seq(Table)
    PROVE  View(ts) \in Store
BY RecordType, VisibleType DEF View, Store

LEMMA MergeType ==
    ASSUME NEW ts \in Seq(Table), NEW drop \in BOOLEAN
    PROVE  Merge(ts, drop) \in Data
BY RecordType DEF Merge, Data, Entry

LEMMA EmptyType == Empty \in Data
BY DEF Empty, Data, Entry

LEMMA RecordOfNothing ==
    ASSUME NEW k \in Key
    PROVE  Record(<<>>, k) = None
BY DEF Record, Hits

LEMMA RecordOfOne ==
    ASSUME NEW t \in Table, NEW k \in Key
    PROVE  Record(<<t>>, k) = t.data[k]
<1>1. <<t>> \in Seq(Table) /\ Len(<<t>>) = 1 /\ <<t>>[1] = t
    OBVIOUS
<1>2. CASE t.data[k] = None
    BY <1>1, <1>2 DEF Record, Hits
<1>3. CASE t.data[k] # None
    <2> DEFINE s == <<t>>
    <2>1. s \in Seq(Table) /\ Len(s) = 1 /\ s[1] = t
        BY <1>1
    <2> HIDE DEF s
    <2>2. 1 \in 1..Len(s) /\ \A j \in 1..Len(s) : j > 1 => s[j].data[k] = None
        BY <2>1
    <2>3. Record(s, k) = s[1].data[k]
        BY <1>3, <2>1, <2>2, RecordIsLastHit
    <2> QED
        BY <2>1, <2>3 DEF s
<1> QED
    BY <1>2, <1>3

\* A search of two stacks asks the newer one first.
LEMMA RecordOfConcat ==
    ASSUME NEW s \in Seq(Table), NEW t \in Seq(Table), NEW k \in Key
    PROVE  Record(s \o t, k) = IF Record(t, k) # None THEN Record(t, k) ELSE Record(s, k)
<1> DEFINE c == s \o t
<1>1. /\ c \in Seq(Table)
      /\ Len(s) \in Nat /\ Len(t) \in Nat /\ Len(c) = Len(s) + Len(t)
      /\ \A i \in 1..Len(s) : c[i] = s[i]
      /\ \A i \in 1..Len(t) : c[Len(s) + i] = t[i]
    BY ConcatProperties, LenProperties
<1>2. \A i \in 1..Len(c) : i \in 1..Len(s) \/ \E j \in 1..Len(t) : i = Len(s) + j
    <2> SUFFICES ASSUME NEW i \in 1..Len(c), i \notin 1..Len(s)
                 PROVE  \E j \in 1..Len(t) : i = Len(s) + j
        OBVIOUS
    <2>1. i - Len(s) \in 1..Len(t) /\ i = Len(s) + (i - Len(s))
        BY <1>1
    <2> QED
        BY <2>1
<1> HIDE DEF c
<1>3. CASE Record(t, k) # None
    <2>1. PICK j \in 1..Len(t) :
              /\ Record(t, k) = t[j].data[k]
              /\ t[j].data[k] # None
              /\ \A m \in 1..Len(t) : m > j => t[m].data[k] = None
        BY <1>3, RecordPosition
    <2>3. Len(s) + j \in 1..Len(c) /\ c[Len(s) + j].data[k] = t[j].data[k]
        BY <1>1
    <2>4. ASSUME NEW m \in 1..Len(c), m > Len(s) + j
          PROVE  c[m].data[k] = None
        <3>1. m \notin 1..Len(s)
            BY <1>1, <2>4
        <3>2. PICK i \in 1..Len(t) : m = Len(s) + i
            BY <1>2, <3>1
        <3>3. i > j
            BY <1>1, <2>4, <3>2
        <3> QED
            BY <1>1, <2>1, <3>2, <3>3
    <2>5. Record(c, k) = t[j].data[k]
        BY <1>1, <2>1, <2>3, <2>4, RecordIsLastHit
    <2> QED
        BY <1>3, <2>1, <2>5 DEF c
<1>4. CASE Record(t, k) = None
    <2>1. \A j \in 1..Len(t) : t[j].data[k] = None
        BY <1>4, NoHitNoRecord
    <2>2. CASE Record(s, k) = None
        <3>1. \A j \in 1..Len(s) : s[j].data[k] = None
            BY <2>2, NoHitNoRecord
        <3>2. \A j \in 1..Len(c) : c[j].data[k] = None
            BY <1>1, <1>2, <2>1, <3>1
        <3> QED
            BY <1>1, <1>4, <2>2, <3>2, NoHitNoRecord DEF c
    <2>3. CASE Record(s, k) # None
        <3>1. PICK i \in 1..Len(s) :
                  /\ Record(s, k) = s[i].data[k]
                  /\ s[i].data[k] # None
                  /\ \A m \in 1..Len(s) : m > i => s[m].data[k] = None
            BY <2>3, RecordPosition
        <3>3. i \in 1..Len(c) /\ c[i].data[k] = s[i].data[k]
            BY <1>1
        <3>4. \A m \in 1..Len(c) : m > i => c[m].data[k] = None
            BY <1>1, <1>2, <2>1, <3>1
        <3>5. Record(c, k) = s[i].data[k]
            BY <1>1, <3>1, <3>3, <3>4, RecordIsLastHit
        <3> QED
            BY <1>4, <3>1, <3>5 DEF c
    <2> QED
        BY <2>2, <2>3
<1> QED
    BY <1>3, <1>4

LEMMA RecordOfThree ==
    ASSUME NEW a \in Seq(Table), NEW m \in Seq(Table), NEW b \in Seq(Table), NEW k \in Key
    PROVE  Record(a \o m \o b, k) =
              IF Record(b, k) # None THEN Record(b, k)
              ELSE IF Record(m, k) # None THEN Record(m, k) ELSE Record(a, k)
<1>1. a \o m \in Seq(Table)
    BY ConcatProperties
<1>2. Record(a \o m, k) = IF Record(m, k) # None THEN Record(m, k) ELSE Record(a, k)
    BY RecordOfConcat
<1>3. Record((a \o m) \o b, k) =
            IF Record(b, k) # None THEN Record(b, k) ELSE Record(a \o m, k)
    BY <1>1, RecordOfConcat
<1> QED
    BY <1>2, <1>3

\* Vec::splice: cutting a run out of a vector and putting it back together.
LEMMA SpliceParts ==
    ASSUME NEW ts \in Seq(Table), NEW s \in Nat, NEW c \in Nat, s + c <= Len(ts),
           NEW replacement \in Seq(Table)
    PROVE  /\ SubSeq(ts, 1, s) \in Seq(Table)
           /\ SubSeq(ts, s + 1, s + c) \in Seq(Table)
           /\ SubSeq(ts, s + c + 1, Len(ts)) \in Seq(Table)
           /\ ts = Splice(ts, s, c, SubSeq(ts, s + 1, s + c))
           /\ Splice(ts, s, c, replacement) \in Seq(Table)
<1>1. Len(ts) \in Nat /\ \A i \in 1..Len(ts) : ts[i] \in Table
    BY LenProperties, ElementOfSeq
<1>2. SubSeq(ts, 1, s) \in Seq(Table)
    BY <1>1, SubSeqProperties
<1>3. SubSeq(ts, s + 1, s + c) \in Seq(Table)
    BY <1>1, SubSeqProperties
<1>4. SubSeq(ts, s + c + 1, Len(ts)) \in Seq(Table)
    BY <1>1, SubSeqProperties
<1>5. SubSeq(ts, 1, s) \o SubSeq(ts, s + 1, s + c) = SubSeq(ts, 1, s + c)
    BY <1>1, ConcatAdjacentSubSeq
<1>6. SubSeq(ts, 1, s + c) \o SubSeq(ts, s + c + 1, Len(ts)) = SubSeq(ts, 1, Len(ts))
    <2>1. 1 \in 1..Len(ts) + 1 /\ s + c \in 1 - 1..Len(ts) /\ Len(ts) \in s + c..Len(ts)
        BY <1>1
    <2> QED
        BY <2>1, ConcatAdjacentSubSeq
<1>7. SubSeq(ts, 1, Len(ts)) = ts
    BY SubSeqFull
<1>8. Splice(ts, s, c, replacement) \in Seq(Table)
    BY <1>2, <1>4, ConcatProperties DEF Splice
<1>9. ts = Splice(ts, s, c, SubSeq(ts, s + 1, s + c))
    <2>1. Splice(ts, s, c, SubSeq(ts, s + 1, s + c))
            = SubSeq(ts, 1, s + c) \o SubSeq(ts, s + c + 1, Len(ts))
        BY <1>5 DEF Splice
    <2> QED
        BY <1>6, <1>7, <2>1
<1> QED
    BY <1>2, <1>3, <1>4, <1>8, <1>9

\* Replacing a run by its merge - by nothing when the merge is empty - changes
\* no answer, provided tombstones are dropped only from a run that begins with
\* the oldest table.
THEOREM MergePreservesView ==
    ASSUME NEW ts \in Seq(Table), NEW s \in Nat, NEW c \in Nat, s + c <= Len(ts),
           NEW t \in Table, NEW drop \in BOOLEAN,
           drop => s = 0,
           t.data = Merge(SubSeq(ts, s + 1, s + c), drop)
    PROVE  View(Splice(ts, s, c, IF t.data = Empty THEN <<>> ELSE <<t>>)) = View(ts)
<1> DEFINE A == SubSeq(ts, 1, s)
           R == SubSeq(ts, s + 1, s + c)
           B == SubSeq(ts, s + c + 1, Len(ts))
           N == IF t.data = Empty THEN <<>> ELSE <<t>>
<1>1. A \in Seq(Table) /\ R \in Seq(Table) /\ B \in Seq(Table) /\ N \in Seq(Table)
    <2>1. <<>> \in Seq(Table) /\ <<t>> \in Seq(Table)
        OBVIOUS
    <2> QED
        BY <2>1, SpliceParts
<1>2. ts = A \o R \o B /\ Splice(ts, s, c, N) = A \o N \o B
    BY SpliceParts, <1>1 DEF Splice
<1>3. ASSUME NEW k \in Key
      PROVE  Visible(Record(A \o N \o B, k)) = Visible(Record(A \o R \o B, k))
    <2>1. Record(N, k) = Merge(R, drop)[k]
        BY RecordOfNothing, RecordOfOne DEF Empty
    <2>2. Record(A \o N \o B, k) =
            IF Record(B, k) # None THEN Record(B, k)
            ELSE IF Record(N, k) # None THEN Record(N, k) ELSE Record(A, k)
        <3> HIDE DEF A, R, B, N
        <3> QED
            BY <1>1, RecordOfThree
    <2>3. Record(A \o R \o B, k) =
            IF Record(B, k) # None THEN Record(B, k)
            ELSE IF Record(R, k) # None THEN Record(R, k) ELSE Record(A, k)
        <3> HIDE DEF A, R, B, N
        <3> QED
            BY <1>1, RecordOfThree
    <2>4. CASE ~(drop /\ Record(R, k) = Tombstone)
        <3>1. Record(N, k) = Record(R, k)
            BY <2>1, <2>4 DEF Merge
        <3> QED
            BY <2>2, <2>3, <3>1
    <2>5. CASE drop /\ Record(R, k) = Tombstone
        <3>1. Record(N, k) = None
            BY <2>1, <2>5 DEF Merge
        <3>2. A = <<>>
            BY <2>5, SubSeqEmpty
        <3>3. Record(A, k) = None
            BY <3>2, RecordOfNothing
        <3> QED
            BY <2>2, <2>3, <2>5, <3>1, <3>3, LayersAssumption DEF Visible
    <2> QED
        BY <2>4, <2>5
<1> QED
    BY <1>2, <1>3 DEF View

-----------------------------------------------------------------------------
(* Directories: which files survive an open, and what a directory, read by *)
(* names, has to do with a vector, read by position.                       *)

TablesOf(ts) == {ts[i] : i \in DOMAIN ts}

Apart(t, u) == t.last < u.first \/ u.last < t.first

\* Spans that do not overlap, in increasing order.
Ordered(ts) ==
    /\ \A i \in DOMAIN ts : ts[i].first <= ts[i].last
    /\ \A i, j \in DOMAIN ts : i < j => ts[i].last < ts[j].first

NamesDistinct(d) == \A t, u \in d : SameName(t, u) => t = u

Spans(d) == \A t \in d : t.first <= t.last

LEMMA VectorType ==
    ASSUME NEW ts \in Seq(Table)
    PROVE  /\ Len(ts) \in Nat /\ DOMAIN ts = 1..Len(ts)
           /\ \A i \in DOMAIN ts : /\ ts[i] \in Table /\ ts[i].first \in Nat
                                   /\ ts[i].last \in Nat /\ ts[i].data \in Data
<1>1. Len(ts) \in Nat /\ DOMAIN ts = 1..Len(ts)
    BY LenProperties
<1>2. ASSUME NEW i \in DOMAIN ts PROVE ts[i] \in Table
    BY <1>1, ElementOfSeq
<1> QED
    BY <1>1, <1>2 DEF Table

LEMMA ConcatElements ==
    ASSUME NEW s \in Seq(Table), NEW t \in Seq(Table)
    PROVE  /\ s \o t \in Seq(Table) /\ Len(s \o t) = Len(s) + Len(t)
           /\ \A i \in 1..Len(s) : (s \o t)[i] = s[i]
           /\ \A i \in 1..Len(t) : (s \o t)[Len(s) + i] = t[i]
BY ConcatProperties, LenProperties

\* Where the tables of a vector are after a splice.
LEMMA SpliceElements ==
    ASSUME NEW ts \in Seq(Table), NEW s \in Nat, NEW c \in Nat, s + c <= Len(ts),
           NEW r \in Seq(Table)
    PROVE  /\ Len(Splice(ts, s, c, r)) = s + Len(r) + (Len(ts) - s - c)
           /\ \A i \in 1..s : Splice(ts, s, c, r)[i] = ts[i]
           /\ \A i \in 1..Len(r) : Splice(ts, s, c, r)[s + i] = r[i]
           /\ \A i \in 1..Len(ts) - s - c :
                Splice(ts, s, c, r)[s + Len(r) + i] = ts[s + c + i]
<1> DEFINE A == SubSeq(ts, 1, s)
           B == SubSeq(ts, s + c + 1, Len(ts))
           C == A \o r
<1>1. Len(ts) \in Nat /\ Len(r) \in Nat /\ \A i \in 1..Len(ts) : ts[i] \in Table
    BY LenProperties, ElementOfSeq
<1>2. A \in Seq(Table) /\ Len(A) = s /\ \A i \in 1..s : A[i] = ts[i]
    <2>1. \A i \in 1..s : ts[i] \in Table
        BY <1>1
    <2>2. /\ A \in Seq(Table) /\ Len(A) = IF 1 <= s THEN s - 1 + 1 ELSE 0
          /\ \A i \in 1..s - 1 + 1 : A[i] = ts[1 + i - 1]
        BY <2>1, SubSeqProperties
    <2> HIDE DEF A
    <2> QED
        BY <2>2
<1>3. /\ B \in Seq(Table) /\ Len(B) = Len(ts) - s - c
      /\ \A i \in 1..Len(ts) - s - c : B[i] = ts[s + c + i]
    <2>1. \A i \in s + c + 1..Len(ts) : ts[i] \in Table
        BY <1>1
    <2>2. /\ B \in Seq(Table)
          /\ Len(B) = IF s + c + 1 <= Len(ts) THEN Len(ts) - (s + c + 1) + 1 ELSE 0
          /\ \A i \in 1..Len(ts) - (s + c + 1) + 1 : B[i] = ts[(s + c + 1) + i - 1]
        BY <1>1, <2>1, SubSeqProperties
    <2> HIDE DEF B
    <2> QED
        BY <1>1, <2>2
<1>4. Splice(ts, s, c, r) = C \o B
    BY DEF Splice
<1> HIDE DEF A, B
<1>5. /\ C \in Seq(Table) /\ Len(C) = s + Len(r)
      /\ \A i \in 1..s : C[i] = ts[i]
      /\ \A i \in 1..Len(r) : C[s + i] = r[i]
    BY <1>2, ConcatElements
<1> HIDE DEF C
<1>6. /\ Len(C \o B) = s + Len(r) + (Len(ts) - s - c)
      /\ \A i \in 1..s + Len(r) : (C \o B)[i] = C[i]
      /\ \A i \in 1..Len(ts) - s - c : (C \o B)[s + Len(r) + i] = B[i]
    <2>1. /\ Len(C \o B) = Len(C) + Len(B)
          /\ \A i \in 1..Len(C) : (C \o B)[i] = C[i]
          /\ \A i \in 1..Len(B) : (C \o B)[Len(C) + i] = B[i]
        BY <1>3, <1>5, ConcatElements
    <2> QED
        BY <1>3, <1>5, <2>1
<1>7. \A i \in 1..s : (C \o B)[i] = ts[i]
    BY <1>1, <1>5, <1>6
<1>8. \A i \in 1..Len(r) : (C \o B)[s + i] = r[i]
    BY <1>1, <1>5, <1>6
<1>9. \A i \in 1..Len(ts) - s - c : (C \o B)[s + Len(r) + i] = ts[s + c + i]
    BY <1>1, <1>3, <1>6
<1> QED
    BY <1>4, <1>6, <1>7, <1>8, <1>9

\* Which tables a splice leaves.
LEMMA SpliceTables ==
    ASSUME NEW ts \in Seq(Table), NEW s \in Nat, NEW c \in Nat, s + c <= Len(ts),
           NEW r \in Seq(Table)
    PROVE  TablesOf(Splice(ts, s, c, r))
             = {ts[j] : j \in (1..Len(ts)) \ (s + 1..s + c)} \cup TablesOf(r)
<1> DEFINE u == Splice(ts, s, c, r)
           n == Len(ts) - s - c
<1>1. /\ Len(ts) \in Nat /\ Len(r) \in Nat /\ n \in Nat
      /\ DOMAIN r = 1..Len(r)
    BY LenProperties
<1>2. u \in Seq(Table)
    BY SpliceParts
<1>3. /\ Len(u) = s + Len(r) + n /\ DOMAIN u = 1..Len(u)
      /\ \A i \in 1..s : u[i] = ts[i]
      /\ \A i \in 1..Len(r) : u[s + i] = r[i]
      /\ \A i \in 1..n : u[s + Len(r) + i] = ts[s + c + i]
    <2>1. /\ Len(u) = s + Len(r) + n
          /\ \A i \in 1..s : u[i] = ts[i]
          /\ \A i \in 1..Len(r) : u[s + i] = r[i]
          /\ \A i \in 1..n : u[s + Len(r) + i] = ts[s + c + i]
        BY SpliceElements
    <2>2. DOMAIN u = 1..Len(u)
        BY <1>2, LenProperties
    <2> QED
        BY <2>1, <2>2
<1> HIDE DEF u
<1>4. ASSUME NEW i \in DOMAIN u
      PROVE  u[i] \in {ts[j] : j \in (1..Len(ts)) \ (s + 1..s + c)} \cup TablesOf(r)
    <2>1. i \in Nat /\ i >= 1 /\ i <= s + Len(r) + n
        BY <1>1, <1>3
    <2>2. CASE i <= s
        <3>1. i \in 1..s /\ i \in (1..Len(ts)) \ (s + 1..s + c)
            BY <1>1, <2>1, <2>2
        <3>2. u[i] = ts[i]
            BY <1>3, <3>1
        <3> QED
            BY <3>1, <3>2
    <2>3. CASE i > s /\ i <= s + Len(r)
        <3>1. i - s \in 1..Len(r) /\ i = s + (i - s)
            BY <1>1, <2>1, <2>3
        <3> QED
            BY <1>1, <1>3, <3>1 DEF TablesOf
    <2>4. CASE i > s + Len(r)
        <3>1. i - s - Len(r) \in 1..n /\ i = s + Len(r) + (i - s - Len(r))
            BY <1>1, <2>1, <2>4
        <3>2. u[i] = ts[s + c + (i - s - Len(r))]
            BY <1>3, <3>1
        <3>3. s + c + (i - s - Len(r)) \in (1..Len(ts)) \ (s + 1..s + c)
            BY <1>1, <3>1
        <3> QED
            BY <3>2, <3>3
    <2> QED
        BY <1>1, <2>1, <2>2, <2>3, <2>4
<1>5. ASSUME NEW j \in (1..Len(ts)) \ (s + 1..s + c) PROVE \E i \in DOMAIN u : u[i] = ts[j]
    <2>1. CASE j <= s
        BY <1>1, <1>3, <2>1
    <2>2. CASE j > s
        <3>1. j - s - c \in 1..n /\ s + c + (j - s - c) = j
            BY <1>1, <2>2
        <3>2. u[s + Len(r) + (j - s - c)] = ts[j]
            BY <1>3, <3>1
        <3>3. s + Len(r) + (j - s - c) \in DOMAIN u
            BY <1>1, <1>3, <3>1
        <3> QED
            BY <3>2, <3>3
    <2> QED
        BY <1>1, <2>1, <2>2
<1>6. ASSUME NEW i \in DOMAIN r PROVE \E j \in DOMAIN u : u[j] = r[i]
    <2>1. s + i \in DOMAIN u /\ u[s + i] = r[i]
        BY <1>1, <1>3
    <2> QED
        BY <2>1
<1> QED
    BY <1>4, <1>5, <1>6 DEF TablesOf, u

LEMMA BehindSplice ==
    ASSUME NEW i \in Nat, NEW s \in Nat, NEW m \in Nat, NEW n \in Nat, NEW c \in Nat,
           i > s + m, i <= s + m + n
    PROVE  /\ i - s - m \in 1..n /\ i = s + m + (i - s - m)
           /\ s + c + (i - s - m) = i - m + c
           /\ i - m + c >= 1 /\ i - m + c <= s + c + n
OBVIOUS

\* A vector stays in age order when a run is replaced by one table that spans
\* it, or by nothing.
LEMMA SpliceOrdered ==
    ASSUME NEW ts \in Seq(Table), Ordered(ts), NEW s \in Nat, NEW c \in Nat, c >= 1,
           s + c <= Len(ts), NEW t \in Table,
           t.first = ts[s + 1].first, t.last = ts[s + c].last,
           NEW r \in Seq(Table), Len(r) <= 1, Len(r) = 1 => r[1] = t
    PROVE  Ordered(Splice(ts, s, c, r))
<1> DEFINE u == Splice(ts, s, c, r)
           n == Len(ts) - s - c
           m == Len(r)
           Lo(i) == IF i <= s + m THEN i ELSE i - m + c
           Hi(i) == IF i <= s THEN i ELSE IF i <= s + m THEN s + c ELSE i - m + c
<1>0. s \in Nat /\ c \in Nat /\ c >= 1 /\ s + c <= Len(ts) /\ r \in Seq(Table)
      /\ Len(r) <= 1 /\ (Len(r) = 1 => r[1] = t)
    OBVIOUS
<1>1. /\ r \in Seq(Table) /\ m \in Nat /\ m <= 1 /\ (m = 1 => r[1] = t)
      /\ Len(ts) \in Nat /\ n \in Nat /\ Len(ts) = s + c + n
    <2>1. Len(ts) \in Nat /\ Len(r) \in Nat
        BY LenProperties
    <2> QED
        BY ONLY <1>0, <2>1
<1>2. u \in Seq(Table)
    BY <1>1, SpliceParts
<1>3. /\ Len(u) = s + m + n /\ DOMAIN u = 1..Len(u)
      /\ \A i \in 1..s : u[i] = ts[i]
      /\ \A i \in 1..m : u[s + i] = r[i]
      /\ \A i \in 1..n : u[s + m + i] = ts[s + c + i]
    <2>1. /\ Len(u) = s + m + n
          /\ \A i \in 1..s : u[i] = ts[i]
          /\ \A i \in 1..m : u[s + i] = r[i]
          /\ \A i \in 1..n : u[s + m + i] = ts[s + c + i]
        BY SpliceElements
    <2>2. DOMAIN u = 1..Len(u)
        BY <1>2, LenProperties
    <2> QED
        BY <2>1, <2>2
<1> HIDE DEF u, m, n
<1>4. ASSUME NEW i \in DOMAIN u
      PROVE  /\ Lo(i) \in 1..Len(ts) /\ Hi(i) \in 1..Len(ts) /\ Lo(i) <= Hi(i)
             /\ u[i].first = ts[Lo(i)].first /\ u[i].last = ts[Hi(i)].last
    <2>1. i \in Nat /\ i >= 1 /\ i <= s + m + n
        BY <1>1, <1>3
    <2>2. CASE i <= s
        BY <1>1, <1>3, <2>1, <2>2
    <2>3. CASE i > s /\ i <= s + m
        <3>1. m = 1 /\ i = s + 1
            BY <1>1, <2>1, <2>3
        <3>2. u[s + 1] = t
            BY <1>1, <1>3, <3>1
        <3> QED
            BY <1>1, <3>1, <3>2
    <2>4. CASE i > s + m
        <3>1. i - s - m \in 1..n /\ i = s + m + (i - s - m)
            BY <1>0, <1>1, <2>1, <2>4, BehindSplice
        <3>2. u[s + m + (i - s - m)] = ts[s + c + (i - s - m)]
            BY <1>3, <3>1
        <3>3. s + c + (i - s - m) = i - m + c /\ i - m + c \in 1..Len(ts)
            <4>1. /\ s + c + (i - s - m) = i - m + c
                  /\ i - m + c >= 1 /\ i - m + c <= s + c + n
                BY <1>0, <1>1, <2>1, <2>4, BehindSplice
            <4>2. i - m + c \in Int
                BY <1>0, <1>1, <2>1
            <4> QED
                BY <1>1, <4>1, <4>2
        <3>4. u[i] = ts[i - m + c]
            BY <3>1, <3>2, <3>3
        <3>5. Lo(i) = i - m + c /\ Hi(i) = i - m + c
            BY <1>1, <2>1, <2>4
        <3> HIDE DEF Lo, Hi
        <3> QED
            BY <3>3, <3>4, <3>5
    <2> QED
        BY <1>1, <2>1, <2>2, <2>3, <2>4
<1>5. ASSUME NEW i \in DOMAIN u, NEW j \in DOMAIN u, i < j PROVE Hi(i) < Lo(j)
    BY <1>1, <1>3, <1>5
<1> HIDE DEF Lo, Hi
<1>6. \A i \in DOMAIN ts : ts[i].first \in Nat /\ ts[i].last \in Nat
    BY VectorType
<1>7. DOMAIN ts = 1..Len(ts)
    BY VectorType
<1>8. ASSUME NEW i \in DOMAIN u PROVE u[i].first <= u[i].last
    <2>1. Lo(i) \in DOMAIN ts /\ Hi(i) \in DOMAIN ts /\ Lo(i) <= Hi(i)
        BY <1>4, <1>7
    <2>2. ts[Lo(i)].first <= ts[Hi(i)].last
        <3>1. /\ Lo(i) \in Nat /\ Hi(i) \in Nat
              /\ ts[Lo(i)].first \in Nat /\ ts[Lo(i)].last \in Nat
              /\ ts[Hi(i)].first \in Nat /\ ts[Hi(i)].last \in Nat
              /\ ts[Lo(i)].first <= ts[Lo(i)].last /\ ts[Hi(i)].first <= ts[Hi(i)].last
            BY <1>6, <1>7, <2>1 DEF Ordered
        <3>2. CASE Lo(i) = Hi(i)
            BY <3>1, <3>2
        <3>3. CASE Lo(i) < Hi(i)
            <4>1. ts[Lo(i)].last < ts[Hi(i)].first
                BY <2>1, <3>3 DEF Ordered
            <4> QED
                BY <3>1, <4>1
        <3> QED
            BY <2>1, <3>1, <3>2, <3>3
    <2> QED
        BY <1>4, <2>2
<1>9. ASSUME NEW i \in DOMAIN u, NEW j \in DOMAIN u, i < j PROVE u[i].last < u[j].first
    <2>1. Hi(i) \in DOMAIN ts /\ Lo(j) \in DOMAIN ts /\ Hi(i) < Lo(j)
        BY <1>4, <1>5, <1>7, <1>9
    <2>2. ts[Hi(i)].last < ts[Lo(j)].first
        BY <2>1 DEF Ordered
    <2> QED
        BY <1>4, <2>2
<1> QED
    BY <1>8, <1>9 DEF Ordered, u

-----------------------------------------------------------------------------
(* Reading a directory.                                                    *)

LEMMA SpanOrder ==
    ASSUME NEW ts \in Seq(Table), Ordered(ts), NEW i \in DOMAIN ts, NEW j \in DOMAIN ts
    PROVE  /\ i \in Nat /\ j \in Nat
           /\ ts[i].first \in Nat /\ ts[i].last \in Nat /\ ts[j].first \in Nat /\ ts[j].last \in Nat
           /\ ts[i].first <= ts[i].last /\ ts[j].first <= ts[j].last
           /\ i < j => ts[i].last < ts[j].first
           /\ j < i => ts[j].last < ts[i].first
BY VectorType DEF Ordered

\* The files of a vector survive beside files that each lie within one of them.
LEMMA SurvivorsOfVector ==
    ASSUME NEW ts \in Seq(Table), Ordered(ts), NEW d \in SUBSET Table, NamesDistinct(d),
           TablesOf(ts) \subseteq d,
           \A t \in d \ TablesOf(ts) : \E i \in DOMAIN ts : Covers(ts[i], t)
    PROVE  Survivors(d) = TablesOf(ts)
<1>1. \A t \in d : t.first \in Nat /\ t.last \in Nat
    BY DEF Table
<1>2. ASSUME NEW i \in DOMAIN ts, NEW u \in d \ {ts[i]}, Covers(u, ts[i]) PROVE FALSE
    <2>1. \E j \in DOMAIN ts : Covers(ts[j], u)
        <3>1. CASE u \in TablesOf(ts)
            BY <1>1, <3>1 DEF TablesOf, Covers
        <3>2. CASE u \notin TablesOf(ts)
            BY <3>2
        <3> QED
            BY <3>1, <3>2
    <2>2. PICK j \in DOMAIN ts : Covers(ts[j], u)
        BY <2>1
    <2>3. Covers(ts[j], ts[i])
        BY <1>1, <1>2, <2>2, SpanOrder DEF Covers
    <2>4. i = j
        BY <2>3, SpanOrder DEF Covers
    <2>5. SameName(u, ts[i])
        BY <1>1, <1>2, <2>2, <2>4, SpanOrder DEF Covers, SameName
    <2>6. ts[i] \in d
        BY DEF TablesOf
    <2> QED
        BY <2>5, <2>6 DEF NamesDistinct
<1>3. ASSUME NEW t \in d \ TablesOf(ts) PROVE t \in Superseded(d)
    <2>1. PICK i \in DOMAIN ts : Covers(ts[i], t)
        OBVIOUS
    <2>2. ts[i] \in d \ {t}
        BY DEF TablesOf
    <2> QED
        BY <2>1, <2>2 DEF Superseded
<1>4. ASSUME NEW t \in TablesOf(ts) PROVE t \in d /\ t \notin Superseded(d)
    BY <1>2 DEF TablesOf, Superseded
<1> QED
    BY <1>3, <1>4 DEF Survivors

\* Read by names or by position, ordered tables answer the same.
LEMMA DirViewOfVector ==
    ASSUME NEW ts \in Seq(Table), Ordered(ts)
    PROVE  DirView(TablesOf(ts)) = View(ts)
<1> DEFINE d == TablesOf(ts)
<1>1. DOMAIN ts = 1..Len(ts) /\ Len(ts) \in Nat
    BY VectorType
<1>2. ASSUME NEW k \in Key PROVE DirView(d)[k] = View(ts)[k]
    <2>1. CASE Hits(ts, k) = {}
        <3>1. DirHits(d, k) = {}
            BY <1>1, <2>1 DEF Hits, DirHits, TablesOf
        <3>2. DirView(d)[k] = None
            BY <3>1 DEF DirView
        <3>3. View(ts)[k] = Visible(None)
            BY <2>1 DEF View, Record
        <3> QED
            BY <3>2, <3>3, LayersAssumption DEF Visible
    <2>2. CASE Hits(ts, k) # {}
        <3>1. PICK n \in 1..Len(ts) :
                  /\ ts[n].data[k] # None
                  /\ \A j \in 1..Len(ts) : j > n => ts[j].data[k] = None
            BY <2>2, LastHitExists
        <3>2. ts[n] \in DirHits(d, k)
            BY <1>1, <3>1 DEF DirHits, TablesOf
        <3>3. ASSUME NEW u \in DirHits(d, k) PROVE \E j \in DOMAIN ts : u = ts[j] /\ j <= n
            <4>1. PICK j \in DOMAIN ts : u = ts[j]
                BY DEF DirHits, TablesOf
            <4>2. ts[j].data[k] # None
                BY <4>1 DEF DirHits
            <4> QED
                BY <1>1, <3>1, <4>1, <4>2
        <3>4. \A u \in DirHits(d, k) : u.first <= ts[n].first
            BY <1>1, <3>3, SpanOrder
        <3>5. ASSUME NEW u \in DirHits(d, k), \A v \in DirHits(d, k) : v.first <= u.first
              PROVE  u = ts[n]
            <4>1. PICK j \in DOMAIN ts : u = ts[j] /\ j <= n
                BY <3>3
            <4>2. ts[n].first <= ts[j].first
                BY <3>2, <3>5, <4>1
            <4>3. ~(j < n)
                BY <1>1, <4>2, SpanOrder
            <4> QED
                BY <1>1, <4>1, <4>3
        <3>6. (CHOOSE t \in DirHits(d, k) : \A u \in DirHits(d, k) : u.first <= t.first) = ts[n]
            BY <3>2, <3>4, <3>5
        <3>7. DirView(d)[k] = Visible(ts[n].data[k])
            BY <3>2, <3>6 DEF DirView
        <3>8. View(ts)[k] = Visible(ts[n].data[k])
            BY <3>1, RecordIsLastHit DEF View
        <3> QED
            BY <3>7, <3>8
    <2> QED
        BY <2>1, <2>2
<1> QED
    BY <1>2 DEF DirView, View

\* A file newer than all others is laid over what they say.
LEMMA DirViewWithTop ==
    ASSUME NEW d \in SUBSET Table, NEW u \in Table, u.first <= u.last,
           \A t \in d : t.first <= t.last /\ t.last < u.first
    PROVE  DirView(Survivors(d \cup {u})) = Apply(DirView(Survivors(d)), u.data)
<1> DEFINE S == Survivors(d)
           W == Survivors(d \cup {u})
<1>1. u.first \in Nat /\ u.last \in Nat /\ \A t \in d : t.first \in Nat /\ t.last \in Nat
    BY DEF Table
<1>2. \A t \in d : t # u /\ ~Covers(t, u) /\ ~Covers(u, t)
    BY <1>1 DEF Covers
<1>3. Superseded(d \cup {u}) = Superseded(d)
    BY <1>2 DEF Superseded
<1>4. W = S \cup {u} /\ S \subseteq d
    BY <1>2, <1>3 DEF Survivors, Superseded
<1> HIDE DEF S, W
<1>5. ASSUME NEW k \in Key PROVE DirView(W)[k] = Apply(DirView(S), u.data)[k]
    <2>1. CASE u.data[k] = None
        <3>1. DirHits(W, k) = DirHits(S, k)
            BY <1>4, <2>1 DEF DirHits
        <3> QED
            BY <2>1, <3>1 DEF DirView, Apply
    <2>2. CASE u.data[k] # None
        <3>1. u \in DirHits(W, k)
            BY <1>4, <2>2 DEF DirHits
        <3>2. \A v \in DirHits(W, k) : v.first <= u.first /\ (u.first <= v.first => v = u)
            BY <1>1, <1>4 DEF DirHits
        <3>3. (CHOOSE t \in DirHits(W, k) : \A v \in DirHits(W, k) : v.first <= t.first) = u
            BY <3>1, <3>2
        <3>4. DirView(W)[k] = Visible(u.data[k])
            BY <3>1, <3>3 DEF DirView
        <3> QED
            BY <2>2, <3>4 DEF Apply
    <2> QED
        BY <2>1, <2>2
<1> QED
    BY <1>5 DEF DirView, Apply, S, W

\* Without a superseded file the same files survive.
LEMMA SurvivorsWithout ==
    ASSUME NEW d \in SUBSET Table, NamesDistinct(d), NEW t \in Superseded(d)
    PROVE  Survivors(d \ {t}) = Survivors(d)
<1>1. t \in d /\ \A u \in d : u.first \in Nat /\ u.last \in Nat
    BY DEF Superseded, Table
<1>2. PICK z \in d \ {t} : Covers(z, t)
    BY DEF Superseded
<1>3. ASSUME NEW x \in d \ {t}, x \in Superseded(d) PROVE x \in Superseded(d \ {t})
    <2>1. PICK y \in d \ {x} : Covers(y, x)
        BY <1>3 DEF Superseded
    <2>2. CASE y # t
        BY <2>1, <2>2 DEF Superseded
    <2>3. CASE y = t
        <3>1. z # x
            <4> SUFFICES ASSUME z = x PROVE FALSE
                OBVIOUS
            <4>1. SameName(x, t)
                BY <1>1, <1>2, <2>1, <2>3 DEF Covers, SameName
            <4> QED
                BY <1>1, <4>1 DEF NamesDistinct
        <3>2. Covers(z, x)
            BY <1>1, <1>2, <2>1, <2>3 DEF Covers
        <3> QED
            BY <1>2, <3>1, <3>2 DEF Superseded
    <2> QED
        BY <2>2, <2>3
<1>4. ASSUME NEW x \in d \ {t}, x \in Superseded(d \ {t}) PROVE x \in Superseded(d)
    BY <1>4 DEF Superseded
<1> QED
    BY <1>1, <1>3, <1>4 DEF Survivors

\* A flush behind a vector is laid over what it says.
LEMMA ViewOfAppend ==
    ASSUME NEW ts \in Seq(Table), NEW t \in Table
    PROVE  View(Append(ts, t)) = Apply(View(ts), t.data)
<1>1. <<t>> \in Seq(Table) /\ Append(ts, t) = ts \o <<t>>
    BY AppendIsConcat
<1>2. ASSUME NEW k \in Key PROVE View(ts \o <<t>>)[k] = Apply(View(ts), t.data)[k]
    <2>1. Record(<<t>>, k) = t.data[k]
        BY RecordOfOne
    <2> DEFINE o == <<t>>
    <2> HIDE DEF o
    <2>2. Record(ts \o o, k) = IF Record(o, k) # None THEN Record(o, k) ELSE Record(ts, k)
        BY <1>1, RecordOfConcat DEF o
    <2>3. Record(o, k) = t.data[k]
        BY <2>1 DEF o
    <2>4. View(ts \o o)[k] = Visible(Record(ts \o o, k))
        BY DEF View
    <2>5. View(ts)[k] = Visible(Record(ts, k))
        BY DEF View
    <2> QED
        BY <2>2, <2>3, <2>4, <2>5 DEF Apply, o
<1> QED
    BY <1>1, <1>2 DEF View, Apply

\* Tables with no record but tombstones can stand in front of any vector.
Dead(ts) == \A k \in Key : Record(ts, k) \in {None, Tombstone}

LEMMA ViewBehindDead ==
    ASSUME NEW o \in Seq(Table), NEW ts \in Seq(Table), Dead(o)
    PROVE  View(o \o ts) = View(ts)
<1>1. ASSUME NEW k \in Key PROVE Visible(Record(o \o ts, k)) = Visible(Record(ts, k))
    <2>1. Record(o \o ts, k) = IF Record(ts, k) # None THEN Record(ts, k) ELSE Record(o, k)
        BY RecordOfConcat
    <2>2. Record(o, k) \in {None, Tombstone}
        BY DEF Dead
    <2> QED
        BY <2>1, <2>2, LayersAssumption DEF Visible
<1> QED
    BY <1>1 DEF View

LEMMA TailIsDead ==
    ASSUME NEW o \in Seq(Table), o # <<>>, Dead(o)
    PROVE  Dead(Tail(o))
<1>1. Head(o) \in Table /\ Tail(o) \in Seq(Table)
    BY HeadTailProperties
<1>2. <<Head(o)>> \in Seq(Table) /\ o = <<Head(o)>> \o Tail(o)
    <2>1. Len(o) \in Nat /\ Len(o) >= 1
        BY LenProperties
    <2>2. <<Head(o)>> \in Seq(Table) /\ Len(<<Head(o)>>) = 1 /\ <<Head(o)>>[1] = o[1]
        BY <1>1
    <2>3. Len(Tail(o)) = Len(o) - 1 /\ \A i \in 1..Len(o) - 1 : Tail(o)[i] = o[i + 1]
        BY HeadTailProperties
    <2> DEFINE h == <<Head(o)>>
               r == Tail(o)
    <2>4. /\ h \o r \in Seq(Table) /\ Len(h \o r) = Len(h) + Len(r)
          /\ \A i \in 1..Len(h) : (h \o r)[i] = h[i]
          /\ \A i \in 1..Len(r) : (h \o r)[Len(h) + i] = r[i]
        BY <1>1, <2>2, ConcatElements
    <2> HIDE DEF h, r
    <2>5. Len(h \o r) = Len(o) /\ Len(h) = 1 /\ Len(r) = Len(o) - 1
        BY <2>1, <2>2, <2>3, <2>4 DEF h, r
    <2>6. ASSUME NEW i \in 1..Len(o) PROVE (h \o r)[i] = o[i]
        <3>1. CASE i = 1
            BY <2>2, <2>4, <2>5, <3>1 DEF h
        <3>2. CASE i # 1
            <4>1. i - 1 \in 1..Len(r) /\ i = Len(h) + (i - 1)
                BY <2>1, <2>5, <3>2
            <4>2. (h \o r)[i] = r[i - 1]
                BY <2>4, <4>1
            <4>3. r[i - 1] = o[(i - 1) + 1]
                BY <2>3, <2>5, <4>1 DEF r
            <4> QED
                BY <4>1, <4>2, <4>3
        <3> QED
            BY <3>1, <3>2
    <2>7. h \o r = o
        BY <2>4, <2>5, <2>6, SeqEqual
    <2> QED
        BY <2>2, <2>7 DEF h, r
<1>3. ASSUME NEW k \in Key PROVE Record(Tail(o), k) \in {None, Tombstone}
    <2> DEFINE h == <<Head(o)>>
               r == Tail(o)
    <2>1. h \in Seq(Table) /\ r \in Seq(Table) /\ o = h \o r
        BY <1>1, <1>2
    <2> HIDE DEF h, r
    <2>2. Record(h \o r, k) = IF Record(r, k) # None THEN Record(r, k) ELSE Record(h, k)
        BY <2>1, RecordOfConcat
    <2>3. Record(o, k) \in {None, Tombstone}
        BY DEF Dead
    <2> QED
        BY <2>1, <2>2, <2>3 DEF r
<1> QED
    BY <1>3 DEF Dead

-----------------------------------------------------------------------------
(* Opening a directory.                                                    *)

Nested(d) == \A t, u \in d : Apart(t, u) \/ Covers(t, u) \/ Covers(u, t)

\* What is left when no file supersedes another, listed by name, is a vector in
\* age order of all the files.
LEMMA ListingIsVector ==
    ASSUME NEW d \in SUBSET Table, IsFiniteSet(d), Spans(d), Nested(d), Superseded(d) = {},
           NEW s \in Listings(d)
    PROVE  s \in Seq(Table) /\ Ordered(s) /\ TablesOf(s) = d
<1> DEFINE n == Cardinality(d)
<1>1. n \in Nat /\ IsFiniteSet(1..n) /\ Cardinality(1..n) = n
    BY FS_CardinalityType, FS_Interval
<1>2. s \in [1..n -> d] /\ \A i, j \in 1..n : i < j => Before(s[i], s[j])
    BY DEF Listings
<1>3. s \in Seq(Table) /\ DOMAIN s = 1..n
    BY <1>1, <1>2
<1>4. \A t \in d : t.first \in Nat /\ t.last \in Nat /\ t.first <= t.last
    BY DEF Table, Spans
<1>5. ASSUME NEW i \in 1..n, NEW j \in 1..n, i < j PROVE s[i].last < s[j].first
    <2>1. Before(s[i], s[j]) /\ s[i] \in d /\ s[j] \in d
        BY <1>2, <1>5
    <2>2. s[i] # s[j]
        BY <1>4, <2>1 DEF Before
    <2>3. ~Covers(s[i], s[j]) /\ ~Covers(s[j], s[i])
        BY <2>1, <2>2 DEF Superseded
    <2>4. Apart(s[i], s[j])
        BY <2>1, <2>3 DEF Nested
    <2> QED
        BY <1>4, <2>1, <2>4 DEF Apart, Before
<1>6. Ordered(s)
    BY <1>2, <1>3, <1>4, <1>5 DEF Ordered
<1>7. ASSUME NEW i \in 1..n, NEW j \in 1..n, s[i] = s[j] PROVE i = j
    <2>1. s[i] \in d
        BY <1>2
    <2>2. ~(i < j) /\ ~(j < i)
        BY <1>4, <1>5, <1>7, <2>1
    <2> QED
        BY <1>1, <2>2
<1>8. s \in Injection(1..n, d)
    BY <1>2, <1>7, Fun_IsInj
<1>9. s \in Surjection(1..n, d)
    BY <1>1, <1>8, FS_Injection
<1>10. \A t \in d : \E i \in 1..n : s[i] = t
    BY <1>9 DEF Surjection
<1>11. TablesOf(s) = d
    BY <1>2, <1>3, <1>10 DEF TablesOf
<1> QED
    BY <1>3, <1>6, <1>11
=============================================================================
