-------------------------- MODULE TableFileProofs ---------------------------
(***************************************************************************)
(* Theorems about TableFile.  What write_table lays out is read back: its  *)
(* records by blocks and by the iteration over all of them, any one key by *)
(* the filter, the index and the scan of one block, and the whole table by *)
(* open.  ReadItems and RecordsOf are recursive functions over the bytes   *)
(* of a file of any length; what they compute is proved from the least     *)
(* place at which it would be wrong.                                       *)
(***************************************************************************)
EXTENDS TableFile, LayersProofs

-----------------------------------------------------------------------------
(* Induction over data, by the least counterexample.                       *)

\* Whatever is false of some number is false of a least one: in place of an
\* induction theorem.
LEMMA LeastNumber ==
    ASSUME NEW S \in SUBSET Nat, S # {}
    PROVE  \E n \in S : \A m \in S : n <= m
<1>1. PICK x \in S : \A y \in S : ~(<<y, x>> \in OpToRel(<, Nat))
    BY NatLessThanWellFounded, WFMin
<1>2. ASSUME NEW y \in S PROVE x <= y
    <2>1. <<y, x>> \notin OpToRel(<, Nat)
        BY <1>1
    <2>2. ~(y < x)
        BY <2>1 DEF OpToRel
    <2> QED
        BY <2>2
<1> QED
    BY <1>2

\* A reading that moves on with every item and ends at lim exists as a function.
ReadsOn(f, go, elem, size) ==
    \A pos \in Nat :
        f[pos] = IF pos \in go THEN <<elem[pos]>> \o f[pos + size[pos]] ELSE <<>>

\* The recursive reading of a file has a value, because every item moves it on
\* and nothing is read from lim on.
LEMMA ReadingExists ==
    ASSUME NEW S, NEW lim \in Nat, NEW go \in SUBSET Nat, \A p \in go : p < lim,
           NEW elem, \A p \in go : elem[p] \in S,
           NEW size, \A p \in go : size[p] \in Nat \ {0}
    PROVE  \E f \in [Nat -> Seq(S)] : ReadsOn(f, go, elem, size)
<1> DEFINE
    Eq(f, pos) == f[pos] = IF pos \in go THEN <<elem[pos]>> \o f[pos + size[pos]] ELSE <<>>
    P(n) == \E f \in [Nat -> Seq(S)] : \A pos \in Nat : pos + n >= lim => Eq(f, pos)
    bad == {n \in Nat : ~P(n)}
<1>1. P(0)
    <2> DEFINE f == [pos \in Nat |-> <<>>]
    <2>1. f \in [Nat -> Seq(S)]
        OBVIOUS
    <2>2. \A pos \in Nat : pos + 0 >= lim => pos \notin go
        OBVIOUS
    <2>3. \A pos \in Nat : f[pos] = <<>>
        OBVIOUS
    <2> HIDE DEF f
    <2>4. \A pos \in Nat : pos + 0 >= lim => Eq(f, pos)
        BY <2>2, <2>3
    <2> QED
        BY <2>1, <2>4
<1>2. ASSUME NEW n \in Nat, P(n) PROVE P(n + 1)
    <2>1. PICK f \in [Nat -> Seq(S)] : \A pos \in Nat : pos + n >= lim => Eq(f, pos)
        BY <1>2
    <2>2. CASE lim < n + 1
        <3>1. \A pos \in Nat : pos + n >= lim
            BY <2>2
        <3> HIDE DEF Eq
        <3> QED
            BY <2>1, <3>1
    <2>3. CASE lim >= n + 1
        <3>1. PICK p \in Nat : p + n + 1 = lim
            <4>1. lim - (n + 1) \in Nat /\ (lim - (n + 1)) + n + 1 = lim
                BY <2>3
            <4> QED
                BY <4>1
        <3> DEFINE v == IF p \in go THEN <<elem[p]>> \o f[p + size[p]] ELSE <<>>
                   g == [f EXCEPT ![p] = v]
        <3>2. v \in Seq(S)
            <4>1. CASE p \in go
                <5>1. elem[p] \in S /\ p + size[p] \in Nat
                    <6>1. PICK z \in Nat : z = size[p]
                        BY <4>1
                    <6>2. p + z \in Nat
                        OBVIOUS
                    <6> QED
                        BY <4>1, <6>1, <6>2
                <5>2. f[p + size[p]] \in Seq(S)
                    BY <5>1
                <5>3. <<elem[p]>> \in Seq(S)
                    BY <5>1
                <5> DEFINE a == <<elem[p]>>
                           b == f[p + size[p]]
                <5>4. v = a \o b
                    BY <4>1
                <5> HIDE DEF a, b, v
                <5>5. a \o b \in Seq(S)
                    <6>1. a \in Seq(S) /\ b \in Seq(S)
                        BY <5>2, <5>3 DEF a, b
                    <6> QED
                        BY <6>1, ConcatProperties
                <5> QED
                    BY <5>4, <5>5
            <4> QED
                BY <4>1
        <3>3. g \in [Nat -> Seq(S)] /\ g[p] = v /\ \A q \in Nat : q # p => g[q] = f[q]
            <4> HIDE DEF v
            <4> QED
                BY <3>2
        <3>4. ASSUME NEW q \in go, q >= p PROVE q + size[q] \in Nat /\ q + size[q] # p
            <4>1. PICK z \in Nat \ {0} : z = size[q]
                OBVIOUS
            <4>2. q + z \in Nat /\ q + z # p
                BY <3>4
            <4> QED
                BY <4>1, <4>2
        <3> HIDE DEF g
        <3>5. Eq(g, p)
            <4>1. p \in go => p + size[p] \in Nat /\ p + size[p] # p
                BY <3>4
            <4>2. p \in go => g[p + size[p]] = f[p + size[p]]
                BY <3>3, <4>1
            <4> QED
                BY <3>3, <4>2
        <3>6. ASSUME NEW q \in Nat, q + (n + 1) >= lim, q # p PROVE Eq(g, q)
            <4>1. q + n >= lim /\ q >= p
                BY <3>1, <3>6
            <4>2. Eq(f, q) /\ g[q] = f[q]
                BY <2>1, <3>3, <3>6, <4>1
            <4>3. q \in go => g[q + size[q]] = f[q + size[q]]
                BY <3>3, <3>4, <4>1
            <4> QED
                BY <4>2, <4>3
        <3> HIDE DEF Eq
        <3>7. \A q \in Nat : q + (n + 1) >= lim => Eq(g, q)
            BY <3>5, <3>6
        <3> QED
            BY <3>3, <3>7
    <2> HIDE DEF P
    <2> QED
        BY <2>2, <2>3
<1>3. bad = {}
    <2> SUFFICES ASSUME bad # {} PROVE FALSE
        OBVIOUS
    <2>1. PICK n \in bad : \A m \in bad : n <= m
        BY LeastNumber
    <2> HIDE DEF P
    <2>2. n \in Nat /\ n # 0
        BY <1>1, <2>1
    <2>3. n - 1 \in Nat /\ P(n - 1) /\ n = (n - 1) + 1
        BY <2>1, <2>2
    <2>4. P((n - 1) + 1)
        BY <1>2, <2>3
    <2> QED
        BY <2>1, <2>3, <2>4
<1>4. P(lim)
    <2> HIDE DEF P
    <2> QED
        BY <1>3
<1>5. PICK f \in [Nat -> Seq(S)] : \A pos \in Nat : pos + lim >= lim => Eq(f, pos)
    <2> HIDE DEF Eq
    <2> QED
        BY <1>4
<1>6. \A pos \in Nat : Eq(f, pos)
    <2> HIDE DEF Eq
    <2> QED
        BY <1>5
<1> QED
    BY <1>6 DEF ReadsOn

\* The items a file is read as.
ItemsIn(file) == {file.items[o] : o \in DOMAIN file.items}

\* No item takes no bytes: a reading gets on.
SizesPositive(items) == \A o \in DOMAIN items : items[o].size \in Nat \ {0}

\* from is what ReadItems defines by recursion.
Unfolds(from, file, kind, last) ==
    /\ \A first \in Nat : ReadItems(file, kind, first, last) = from[first]
    /\ \A pos \in Nat :
          from[pos] = IF pos >= last \/ ~Begins(file, kind, pos) THEN <<>>
                      ELSE <<file.items[pos]>> \o from[pos + file.items[pos].size]

\* ReadItems can be unfolded: the recursive function it uses exists.
LEMMA ReadItemsUnfolds ==
    ASSUME NEW file, NEW kind, NEW last \in Nat, SizesPositive(file.items)
    PROVE  \E from : Unfolds(from, file, kind, last)
<1> DEFINE from[pos \in Nat] ==
            IF pos >= last \/ ~Begins(file, kind, pos) THEN <<>>
            ELSE <<file.items[pos]>> \o from[pos + file.items[pos].size]
    Solves(g) == g = [pos \in Nat |->
            IF pos >= last \/ ~Begins(file, kind, pos) THEN <<>>
            ELSE <<file.items[pos]>> \o g[pos + file.items[pos].size]]
<1>1. \A first \in Nat : ReadItems(file, kind, first, last) = from[first]
    BY DEF ReadItems
<1>2. from = CHOOSE g : Solves(g)
    OBVIOUS
<1> HIDE DEF from
<1>3. \E g \in [Nat -> Seq(ItemsIn(file))] : Solves(g)
    <2> DEFINE go == {p \in Nat : p < last /\ Begins(file, kind, p)}
               size == [p \in DOMAIN file.items |-> file.items[p].size]
    <2>1. \A p \in go : p < last /\ file.items[p] \in ItemsIn(file) /\ size[p] \in Nat \ {0}
                        /\ size[p] = file.items[p].size
        BY DEF Begins, ItemsIn, SizesPositive
    <2>2. \A p \in Nat : p \in go <=> ~(p >= last \/ ~Begins(file, kind, p))
        OBVIOUS
    <2>3. go \in SUBSET Nat
        OBVIOUS
    <2> HIDE DEF go, size
    <2>4. PICK g \in [Nat -> Seq(ItemsIn(file))] : ReadsOn(g, go, file.items, size)
        <3>1. \A p \in go : p < last
            BY <2>1
        <3>2. \A p \in go : file.items[p] \in ItemsIn(file)
            BY <2>1
        <3>3. \A p \in go : size[p] \in Nat \ {0}
            BY <2>1
        <3> DEFINE S == ItemsIn(file)
                   elem == file.items
        <3>4. \A p \in go : elem[p] \in S
            BY <3>2
        <3> HIDE DEF S, elem
        <3>5. \E g \in [Nat -> Seq(S)] : ReadsOn(g, go, elem, size)
            BY <2>3, <3>1, <3>3, <3>4, ReadingExists
        <3> QED
            BY <3>5 DEF S, elem
    <2>5. \A pos \in Nat :
              g[pos] = IF pos >= last \/ ~Begins(file, kind, pos) THEN <<>>
                       ELSE <<file.items[pos]>> \o g[pos + file.items[pos].size]
        BY <2>1, <2>2, <2>4 DEF ReadsOn
    <2>6. Solves(g)
        BY <2>5
    <2> QED
        BY <2>6
<1>4. Solves(from)
    <2> HIDE DEF Solves
    <2> QED
        BY <1>2, <1>3
<1>5. \A pos \in Nat :
        from[pos] = IF pos >= last \/ ~Begins(file, kind, pos) THEN <<>>
                    ELSE <<file.items[pos]>> \o from[pos + file.items[pos].size]
    BY <1>4
<1> QED
    BY <1>1, <1>5 DEF Unfolds

-----------------------------------------------------------------------------
(* A sequence of items laid out one behind the other.                      *)

\* The i-th item of s begins at off[i], and ends where the next begins.
Laid(items, s, off) ==
    /\ off \in Seq(Nat) /\ Len(off) = Len(s) + 1
    /\ \A i \in 1..Len(s) :
        /\ s[i].size \in Nat \ {0} /\ off[i + 1] = off[i] + s[i].size
        /\ off[i] \in DOMAIN items /\ items[off[i]] = s[i]

\* The offsets of items laid out are numbers, one more than there are items.
LEMMA LaidTypes ==
    ASSUME NEW S, NEW s \in Seq(S), NEW items, NEW off, Laid(items, s, off)
    PROVE  /\ Len(s) \in Nat /\ DOMAIN s = 1..Len(s) /\ DOMAIN off = 1..Len(s) + 1
           /\ \A i \in 1..Len(s) + 1 : off[i] \in Nat
<1>1. Len(s) \in Nat /\ DOMAIN s = 1..Len(s)
    BY LenProperties
<1>2. off \in Seq(Nat) /\ Len(off) = Len(s) + 1
    BY DEF Laid
<1>3. DOMAIN off = 1..Len(s) + 1 /\ \A i \in 1..Len(s) + 1 : off[i] \in Nat
    BY <1>2, LenProperties, ElementOfSeq
<1> QED
    BY <1>1, <1>3

\* A later item begins further on.
LEMMA LaidIncreases ==
    ASSUME NEW S, NEW s \in Seq(S), NEW items, NEW off, Laid(items, s, off),
           NEW i \in 1..Len(s) + 1, NEW j \in 1..Len(s) + 1, i < j
    PROVE  off[i] < off[j]
<1> DEFINE bad == {n \in Nat : n \in 1..Len(s) + 1 /\ i < n /\ ~(off[i] < off[n])}
<1>1. /\ Len(s) \in Nat /\ \A m \in 1..Len(s) + 1 : off[m] \in Nat
      /\ \A m \in 1..Len(s) : s[m].size \in Nat \ {0} /\ off[m + 1] = off[m] + s[m].size
    BY LaidTypes DEF Laid
<1>2. ASSUME NEW m \in 1..Len(s) PROVE off[m] < off[m + 1]
    <2>1. m \in 1..Len(s) + 1
        BY <1>1
    <2>2. PICK a \in Nat : a = off[m]
        BY <1>1, <2>1
    <2>3. PICK b \in Nat \ {0} : b = s[m].size
        BY <1>1
    <2>4. off[m + 1] = a + b
        BY <1>1, <2>2, <2>3
    <2> QED
        BY <2>2, <2>3, <2>4
<1>3. bad = {}
    <2> SUFFICES ASSUME bad # {} PROVE FALSE
        OBVIOUS
    <2>1. PICK n \in bad : \A m \in bad : n <= m
        <3>1. bad \in SUBSET Nat
            OBVIOUS
        <3> HIDE DEF bad
        <3> QED
            BY <3>1, LeastNumber
    <2>2. n - 1 \in 1..Len(s) /\ n = (n - 1) + 1 /\ n \in Nat /\ n - 1 \in Nat
        BY <1>1, <2>1
    <2>3. n - 1 \notin bad
        BY <2>1, <2>2
    <2>4. n - 1 = i \/ off[i] < off[n - 1]
        BY <1>1, <2>1, <2>2, <2>3
    <2>5. off[n - 1] < off[n]
        BY <1>2, <2>2
    <2>6. off[i] \in Nat /\ off[n - 1] \in Nat /\ off[n] \in Nat
        BY <1>1, <2>1, <2>2
    <2> QED
        BY <2>1, <2>4, <2>5, <2>6
<1>4. j \notin bad
    BY <1>3
<1>5. j \in Nat
    OBVIOUS
<1> QED
    BY <1>4, <1>5

\* The i-th item and those behind it, without the j-th, are of one kind.
SameKind(s, kind, i, j) == \A m \in i..j - 1 : s[m].kind = kind

\* Read from where the i-th item begins up to where the j-th does, the file
\* gives back the items from the i-th on, without the j-th.
LEMMA ReadsWhatWasLaid ==
    ASSUME NEW S, NEW s \in Seq(S), NEW file, SizesPositive(file.items),
           NEW off, Laid(file.items, s, off),
           NEW i \in 1..Len(s) + 1, NEW j \in 1..Len(s) + 1, i <= j,
           NEW kind, SameKind(s, kind, i, j)
    PROVE  ReadItems(file, kind, off[i], off[j]) = SubSeq(s, i, j - 1)
<1>1. /\ Len(s) \in Nat /\ \A m \in 1..Len(s) + 1 : off[m] \in Nat
      /\ \A m \in 1..Len(s) : /\ off[m] \in DOMAIN file.items /\ file.items[off[m]] = s[m]
                              /\ off[m + 1] = off[m] + s[m].size
    BY LaidTypes DEF Laid
<1>2. PICK from : Unfolds(from, file, kind, off[j])
    <2>1. off[j] \in Nat
        BY <1>1
    <2> QED
        BY <2>1, ReadItemsUnfolds
<1> DEFINE bad == {d \in Nat : \E m \in i..j : m + d = j /\ from[off[m]] # SubSeq(s, m, j - 1)}
<1>3. bad = {}
    <2> SUFFICES ASSUME bad # {} PROVE FALSE
        OBVIOUS
    <2>1. PICK d \in bad : \A e \in bad : d <= e
        <3>1. bad \in SUBSET Nat
            OBVIOUS
        <3> HIDE DEF bad
        <3> QED
            BY <3>1, LeastNumber
    <2>2. PICK m \in i..j : m + d = j /\ from[off[m]] # SubSeq(s, m, j - 1)
        BY <2>1
    <2>3. CASE m = j
        <3>1. from[off[j]] = <<>>
            <4>1. PICK p \in Nat : p = off[j]
                BY <1>1
            <4>2. p >= p
                OBVIOUS
            <4> QED
                BY <1>2, <4>1, <4>2 DEF Unfolds
        <3>2. SubSeq(s, j, j - 1) = <<>>
            BY SubSeqEmpty
        <3> QED
            BY <2>2, <2>3, <3>1, <3>2
    <2>4. CASE m < j
        <3>1. m \in 1..Len(s) /\ m + 1 \in i..j /\ j - 1 \in m..Len(s) /\ m \in i..j - 1
            BY <1>1, <2>4
        <3>2. d - 1 \in Nat /\ (m + 1) + (d - 1) = j /\ ~(d <= d - 1)
            BY <1>1, <2>1, <2>2, <2>4
        <3>3. from[off[m + 1]] = SubSeq(s, m + 1, j - 1)
            <4>1. d - 1 \notin bad
                BY <2>1, <3>2
            <4> QED
                BY <3>1, <3>2, <4>1
        <3>4. ~(off[m] >= off[j]) /\ Begins(file, kind, off[m])
            <4>1. off[m] < off[j]
                <5> DEFINE items == file.items
                <5>1. Laid(items, s, off) /\ m \in 1..Len(s) + 1 /\ j \in 1..Len(s) + 1
                    BY <1>1, <3>1
                <5> HIDE DEF items
                <5> QED
                    BY <2>4, <5>1, LaidIncreases
            <4>2. Begins(file, kind, off[m])
                BY <1>1, <3>1 DEF Begins, SameKind
            <4> QED
                <5>1. off[m] \in Nat
                    BY <1>1, <3>1
                <5>2. off[j] \in Nat
                    BY <1>1
                <5> QED
                    BY <4>1, <4>2, <5>1, <5>2
        <3>5. from[off[m]] = <<s[m]>> \o from[off[m + 1]]
            <4>1. off[m] \in Nat /\ file.items[off[m]] = s[m] /\ off[m + 1] = off[m] + s[m].size
                BY <1>1, <3>1
            <4> QED
                BY <1>2, <3>4, <4>1 DEF Unfolds
        <3>6. SubSeq(s, m, j - 1) = <<s[m]>> \o SubSeq(s, m + 1, j - 1)
            BY <3>1, SubSeqRecursiveFirst
        <3> QED
            BY <2>2, <3>3, <3>5, <3>6
    <2> QED
        BY <2>2, <2>3, <2>4
<1>4. from[off[i]] = SubSeq(s, i, j - 1)
    <2>1. j - i \in Nat /\ i + (j - i) = j /\ i \in i..j
        BY <1>1
    <2>2. j - i \notin bad
        BY <1>3
    <2> QED
        BY <2>1, <2>2
<1>5. off[i] \in Nat
    BY <1>1
<1> QED
    BY <1>2, <1>4, <1>5 DEF Unfolds

\* What is written later leaves it where it is.
LEMMA LaidStays ==
    ASSUME NEW S, NEW s \in Seq(S), NEW out, NEW off, Laid(out.items, s, off),
           out.length \notin DOMAIN out.items, NEW item
    PROVE  Laid(Emit(out, item).items, s, off)
<1> DEFINE items == Emit(out, item).items
<1>1. /\ DOMAIN out.items \subseteq DOMAIN items
      /\ \A x \in DOMAIN out.items : items[x] = out.items[x]
    BY DEF Emit
<1> HIDE DEF items
<1>2. Laid(items, s, off)
    BY <1>1 DEF Laid
<1> QED
    BY <1>2 DEF items

\* An item written where the last one ended continues the layout.
LEMMA LaidGrows ==
    ASSUME NEW S, NEW s \in Seq(S), NEW out, NEW off, Laid(out.items, s, off),
           NEW item \in S, item.size \in Nat \ {0},
           off[Len(s) + 1] = out.length, out.length \notin DOMAIN out.items
    PROVE  /\ Laid(Emit(out, item).items, Append(s, item), Append(off, out.length + item.size))
           /\ Append(off, out.length + item.size)[1] = off[1]
<1> DEFINE n == Len(s)
           top == out.length + item.size
           t == Append(s, item)
           o == Append(off, top)
           items == Emit(out, item).items
<1>1. /\ n \in Nat /\ DOMAIN off = 1..n + 1 /\ \A i \in 1..n + 1 : off[i] \in Nat
      /\ off \in Seq(Nat) /\ Len(off) = n + 1
    <2>1. off \in Seq(Nat) /\ Len(off) = n + 1
        BY DEF Laid
    <2> QED
        BY <2>1, LaidTypes
<1>2. out.length \in Nat /\ top \in Nat
    BY <1>1
<1>3. /\ t \in Seq(S) /\ Len(t) = n + 1 /\ \A i \in 1..n : t[i] = s[i]
      /\ t[n + 1] = item
    BY AppendProperties
<1>4. /\ o \in Seq(Nat) /\ Len(o) = n + 2 /\ \A i \in 1..n + 1 : o[i] = off[i]
      /\ o[n + 2] = top
    BY <1>1, <1>2, AppendProperties
<1>5. /\ DOMAIN items = DOMAIN out.items \cup {out.length}
      /\ \A x \in DOMAIN out.items : items[x] = out.items[x]
      /\ items[out.length] = item
      /\ Emit(out, item).length = top
    BY DEF Emit
<1> HIDE DEF n, top, t, o, items
<1>6. ASSUME NEW i \in 1..n + 1
      PROVE  /\ t[i].size \in Nat \ {0} /\ o[i + 1] = o[i] + t[i].size
             /\ o[i] \in DOMAIN items /\ items[o[i]] = t[i]
    <2>1. CASE i \in 1..n
        <3>1. /\ s[i].size \in Nat \ {0} /\ off[i + 1] = off[i] + s[i].size
              /\ off[i] \in DOMAIN out.items /\ out.items[off[i]] = s[i]
            BY <2>1 DEF Laid, n
        <3>2. o[i] = off[i] /\ o[i + 1] = off[i + 1] /\ t[i] = s[i]
            BY <1>1, <1>3, <1>4, <2>1
        <3> QED
            BY <1>5, <3>1, <3>2
    <2>2. CASE i = n + 1
        <3>1. o[i] = out.length /\ o[i + 1] = top /\ t[i] = item
            BY <1>1, <1>3, <1>4, <2>2 DEF n
        <3> QED
            BY <1>5, <3>1 DEF top
    <2> QED
        BY <1>1, <2>1, <2>2
<1>7. Len(o) = Len(t) + 1
    BY <1>1, <1>3, <1>4
<1>8. Laid(items, t, o)
    BY <1>3, <1>4, <1>6, <1>7 DEF Laid
<1>9. o[1] = off[1]
    BY <1>1, <1>4
<1> QED
    BY <1>4, <1>5, <1>8, <1>9 DEF n, top, t, o, items

-----------------------------------------------------------------------------
(* A table laid out in its file.                                           *)

\* What the index block is made of.
IndexEntry == [key : Key, offset : Nat]

\* The items of the data block, and of the first n entries of the index block.
RecordItems(recs) == [i \in 1..Len(recs) |-> RecordItem(recs[i])]
IndexItems(index, n) == [b \in 1..n |-> IndexItem(index[b])]

\* The sparse index over records that begin at off: block b begins with record
\* at[b], and the first block with the first.
Blocks(recs, off, index, at) ==
    /\ index \in Seq(IndexEntry) /\ at \in Seq(Nat) /\ Len(at) = Len(index)
    /\ \A b \in 1..Len(index) :
        /\ at[b] \in 1..Len(recs)
        /\ index[b].key = recs[at[b]].key /\ index[b].offset = off[at[b]]
    /\ \A b, c \in 1..Len(index) : b < c => at[b] < at[c]
    /\ recs # <<>> => Len(index) >= 1 /\ at[1] = 1

\* The last record of block b.
LastOf(recs, at, b) == IF b < Len(at) THEN at[b + 1] - 1 ELSE Len(recs)

\* The records lie in the file from off on, up to where the index starts, and
\* the sparse index is over them.
DataLaid(t, recs, off, at) ==
    /\ SizesPositive(t.file.items)
    /\ Laid(t.file.items, RecordItems(recs), off)
    /\ off[Len(recs) + 1] = t.index_start
    /\ Blocks(recs, off, t.sparse_index, at)

\* What a sequence of records holds.
LEMMA SequenceType ==
    ASSUME NEW s \in Seq(TableRecord)
    PROVE  /\ Len(s) \in Nat /\ DOMAIN s = 1..Len(s)
           /\ \A p \in DOMAIN s : /\ s[p] \in TableRecord
                                  /\ s[p].key \in Key /\ s[p].key \in Nat
                                  /\ s[p].entry \in Value \cup {Tombstone}
                                  /\ s[p].entry # None
<1>1. Len(s) \in Nat /\ DOMAIN s = 1..Len(s)
    BY LenProperties
<1>2. ASSUME NEW p \in DOMAIN s PROVE s[p] \in TableRecord
    BY <1>1, ElementOfSeq
<1> QED
    BY <1>1, <1>2, RecordsAssumption, LayersAssumption DEF TableRecord

\* In a sorted sequence a key has at most one place, and its record is there.
LEMMA ContentAt ==
    ASSUME NEW s \in Seq(TableRecord), Sorted(s), NEW p \in DOMAIN s
    PROVE  ContentOf(s)[s[p].key] = s[p].entry
<1>1. s[p].key \in Key
    BY SequenceType
<1>2. \A q \in DOMAIN s : s[q].key = s[p].key => q = p
    BY SequenceType DEF Sorted
<1>3. Places(s, s[p].key) = {p}
    BY <1>2 DEF Places
<1> QED
    BY <1>1, <1>3 DEF ContentOf

\* A key no record has is not in the content.
LEMMA ContentNowhere ==
    ASSUME NEW s, NEW k \in Key, \A p \in DOMAIN s : s[p].key # k
    PROVE  ContentOf(s)[k] = None
BY DEF ContentOf, Places

\* The items of records, one for each.
LEMMA RecordItemsType ==
    ASSUME NEW recs \in Seq(TableRecord)
    PROVE  /\ RecordItems(recs) \in Seq({RecordItem(r) : r \in TableRecord})
           /\ Len(RecordItems(recs)) = Len(recs)
           /\ \A i \in 1..Len(recs) : /\ RecordItems(recs)[i] = RecordItem(recs[i])
                                      /\ RecordItems(recs)[i].kind = "record"
                                      /\ RecordItems(recs)[i].record = recs[i]
<1> DEFINE S == {RecordItem(r) : r \in TableRecord}
<1>1. Len(recs) \in Nat /\ \A i \in 1..Len(recs) : RecordItem(recs[i]) \in S
    BY SequenceType
<1> HIDE DEF S
<1>2. RecordItems(recs) \in Seq(S) /\ Len(RecordItems(recs)) = Len(recs)
    BY <1>1 DEF RecordItems
<1>3. \A i \in 1..Len(recs) : /\ RecordItems(recs)[i] = RecordItem(recs[i])
                              /\ RecordItems(recs)[i].kind = "record"
                              /\ RecordItems(recs)[i].record = recs[i]
    BY DEF RecordItems, RecordItem
<1> QED
    BY <1>2, <1>3 DEF S

\* What a sparse index holds.
LEMMA BlocksType ==
    ASSUME NEW recs \in Seq(TableRecord), NEW off, NEW index, NEW at, Blocks(recs, off, index, at)
    PROVE  /\ Len(index) \in Nat /\ DOMAIN index = 1..Len(index)
           /\ \A b \in 1..Len(index) :
                /\ index[b].key \in Key /\ index[b].key \in Nat /\ index[b].offset \in Nat
                /\ at[b] \in 1..Len(recs) /\ at[b] \in Nat
<1>1. index \in Seq(IndexEntry)
    BY DEF Blocks
<1>2. Len(index) \in Nat /\ DOMAIN index = 1..Len(index)
    BY <1>1, LenProperties
<1>3. ASSUME NEW b \in 1..Len(index)
      PROVE  index[b].key \in Key /\ index[b].key \in Nat /\ index[b].offset \in Nat
    <2>1. index[b] \in IndexEntry
        BY <1>1, <1>3, ElementOfSeq
    <2> QED
        BY <2>1, RecordsAssumption DEF IndexEntry
<1>4. \A b \in 1..Len(index) : at[b] \in 1..Len(recs) /\ at[b] \in Nat
    BY SequenceType DEF Blocks
<1> QED
    BY <1>2, <1>3, <1>4

\* A block is read as the records from its first to the one before the next
\* block's first.
LEMMA BlockIsRead ==
    ASSUME NEW recs \in Seq(TableRecord), NEW t, NEW off, NEW at, DataLaid(t, recs, off, at),
           NEW b \in 1..Len(t.sparse_index)
    PROVE  /\ LastOf(recs, at, b) \in at[b]..Len(recs)
           /\ Block(t, b) = SubSeq(recs, at[b], LastOf(recs, at, b))
<1> DEFINE s == RecordItems(recs)
           n == Len(recs)
           i == at[b]
           j == LastOf(recs, at, b) + 1
<1>1. n \in Nat /\ i \in 1..n /\ Len(at) = Len(t.sparse_index) /\ Len(at) \in Nat
    BY SequenceType, BlocksType DEF DataLaid, Blocks
<1>2. /\ j \in Nat /\ i < j /\ j <= n + 1 /\ off[j] = BlockEnd(t, b)
      /\ LastOf(recs, at, b) \in Int
    <2>1. CASE b < Len(at)
        <3>1. b + 1 \in 1..Len(t.sparse_index)
            BY <1>1, <2>1
        <3>2. /\ at[b + 1] \in 1..n /\ at[b] < at[b + 1]
              /\ t.sparse_index[b + 1].offset = off[at[b + 1]]
            <4> DEFINE index == t.sparse_index
            <4>1. Blocks(recs, off, index, at)
                BY DEF DataLaid
            <4>2. b \in 1..Len(index) /\ b + 1 \in 1..Len(index) /\ b < b + 1
                BY <1>1, <3>1
            <4> HIDE DEF index
            <4>3. at[b + 1] \in 1..n /\ index[b + 1].offset = off[at[b + 1]]
                BY <4>1, <4>2 DEF Blocks
            <4>4. at[b] < at[b + 1]
                BY <4>1, <4>2 DEF Blocks
            <4> QED
                BY <4>3, <4>4 DEF index
        <3>3. LastOf(recs, at, b) = at[b + 1] - 1
            BY <1>1, <2>1 DEF LastOf
        <3>4. /\ LastOf(recs, at, b) \in Int /\ j = at[b + 1] /\ j \in Nat
              /\ i < j /\ j <= n + 1
            BY <1>1, <3>2, <3>3
        <3>5. BlockEnd(t, b) = off[at[b + 1]]
            BY <1>1, <2>1, <3>2 DEF BlockEnd
        <3> QED
            BY <3>4, <3>5
    <2>2. CASE ~(b < Len(at))
        BY <1>1, <2>2 DEF LastOf, DataLaid, BlockEnd
    <2> QED
        BY <2>1, <2>2
<1>3. off[i] = BlockStart(t, b)
    BY DEF DataLaid, Blocks, BlockStart
<1>4. /\ s \in Seq({RecordItem(r) : r \in TableRecord}) /\ Len(s) = n
      /\ \A m \in 1..n : s[m].kind = "record" /\ s[m].record = recs[m]
    BY RecordItemsType
<1>5. SizesPositive(t.file.items) /\ Laid(t.file.items, s, off)
    BY DEF DataLaid
<1> HIDE DEF s, n, i, j
<1>6. i \in 1..Len(s) + 1 /\ j \in 1..Len(s) + 1 /\ i <= j /\ \A m \in i..j - 1 : s[m].kind = "record"
    BY <1>1, <1>2, <1>4
<1>7. ReadItems(t.file, "record", off[i], off[j]) = SubSeq(s, i, j - 1)
    <2> DEFINE S == {RecordItem(r) : r \in TableRecord}
    <2>1. s \in Seq(S)
        BY <1>4
    <2> HIDE DEF S
    <2> DEFINE file == t.file
    <2>2. SizesPositive(file.items) /\ Laid(file.items, s, off)
        BY <1>5
    <2> DEFINE kind == "record"
    <2>3. i \in 1..Len(s) + 1 /\ j \in 1..Len(s) + 1 /\ i <= j /\ SameKind(s, kind, i, j)
        BY <1>6 DEF SameKind
    <2> HIDE DEF file, kind
    <2>4. ReadItems(file, kind, off[i], off[j]) = SubSeq(s, i, j - 1)
        BY <2>1, <2>2, <2>3, ReadsWhatWasLaid
    <2> QED
        BY <2>4 DEF file, kind
<1>8. /\ Len(SubSeq(s, i, j - 1)) = j - i
      /\ DOMAIN SubSeq(s, i, j - 1) = 1..j - i
      /\ \A m \in 1..j - i : SubSeq(s, i, j - 1)[m] = s[i + m - 1]
    <2> DEFINE S == {RecordItem(r) : r \in TableRecord}
    <2>1. s \in Seq(S)
        BY <1>4
    <2> HIDE DEF S
    <2>2. i \in Int /\ j - 1 \in Int /\ i <= j - 1 /\ \A m \in i..j - 1 : s[m] \in S
        <3>1. i \in Int /\ j - 1 \in Int /\ i <= j - 1
            BY <1>1, <1>2
        <3>2. ASSUME NEW m \in i..j - 1 PROVE s[m] \in S
            <4>1. m \in 1..Len(s)
                BY <1>1, <1>2, <1>4
            <4> QED
                BY <2>1, <4>1, ElementOfSeq
        <3> QED
            BY <3>1, <3>2
    <2> DEFINE q == SubSeq(s, i, j - 1)
    <2>3. /\ q \in Seq(S) /\ Len(q) = j - 1 - i + 1
          /\ \A m \in 1..j - 1 - i + 1 : q[m] = s[i + m - 1]
        BY <2>2, SubSeqProperties
    <2> HIDE DEF q
    <2>4. j - 1 - i + 1 = j - i
        BY <1>1, <1>2
    <2>5. DOMAIN q = 1..Len(q)
        BY <2>3, LenProperties
    <2> QED
        BY <2>3, <2>4, <2>5 DEF q
<1>9. /\ SubSeq(recs, i, j - 1) \in Seq(TableRecord)
      /\ Len(SubSeq(recs, i, j - 1)) = j - i
      /\ \A m \in 1..j - i : SubSeq(recs, i, j - 1)[m] = recs[i + m - 1]
    <2>1. i \in Int /\ j - 1 \in Int /\ i <= j - 1 /\ \A m \in i..j - 1 : recs[m] \in TableRecord
        BY <1>1, <1>2, SequenceType DEF n
    <2> DEFINE q == SubSeq(recs, i, j - 1)
    <2>2. /\ q \in Seq(TableRecord) /\ Len(q) = j - 1 - i + 1
          /\ \A m \in 1..j - 1 - i + 1 : q[m] = recs[i + m - 1]
        BY <2>1, SubSeqProperties
    <2> HIDE DEF q
    <2>3. j - 1 - i + 1 = j - i
        BY <1>1, <1>2
    <2> QED
        BY <2>2, <2>3 DEF q
<1>10. Block(t, b) = [m \in 1..j - i |-> SubSeq(s, i, j - 1)[m].record]
    BY <1>2, <1>3, <1>7, <1>8 DEF Block
<1>11. Block(t, b) = SubSeq(recs, i, j - 1)
    <2> DEFINE q == SubSeq(recs, i, j - 1)
    <2>1. DOMAIN q = 1..j - i /\ q \in [1..j - i -> TableRecord]
        <3> HIDE DEF q
        <3>1. q \in Seq(TableRecord) /\ Len(q) = j - i
            BY <1>9 DEF q
        <3> QED
            BY <3>1, LenProperties
    <2>2. \A m \in 1..j - i : SubSeq(s, i, j - 1)[m].record = q[m]
        <3>1. ASSUME NEW m \in 1..j - i PROVE s[i + m - 1].record = recs[i + m - 1]
            <4>1. i + m - 1 \in 1..n
                BY <1>1, <1>2
            <4> QED
                BY <1>4, <4>1
        <3> QED
            BY <1>8, <1>9, <3>1
    <2> HIDE DEF q
    <2>3. q = [m \in 1..j - i |-> q[m]]
        BY <2>1
    <2> QED
        BY <1>10, <2>2, <2>3 DEF q
<1>12. j - 1 = LastOf(recs, at, b) /\ j - 1 \in i..n
    BY <1>1, <1>2 DEF j
<1> QED
    BY <1>11, <1>12 DEF i, n

\* Block after block, all records of the table come out.
LEMMA AllRecordsAreRead ==
    ASSUME NEW recs \in Seq(TableRecord), recs # <<>>, NEW t, NEW off, NEW at,
           DataLaid(t, recs, off, at)
    PROVE  RecordsOf(t) = recs
<1> DEFINE
    last == Len(t.sparse_index)
    n == Len(recs)
    upTo[b \in 0..Len(t.sparse_index)] == IF b = 0 THEN <<>> ELSE upTo[b - 1] \o Block(t, b)
    Solves(f) == f = [b \in 0..Len(t.sparse_index) |->
                        IF b = 0 THEN <<>> ELSE f[b - 1] \o Block(t, b)]
    g == [b \in 0..last |-> IF b = 0 THEN <<>> ELSE SubSeq(recs, 1, LastOf(recs, at, b))]
<1>1. RecordsOf(t) = upTo[last]
    BY DEF RecordsOf
<1>2. upTo = CHOOSE f : Solves(f)
    OBVIOUS
<1> HIDE DEF upTo
<1>3. /\ n \in Nat /\ last \in Nat /\ last >= 1 /\ at[1] = 1 /\ Len(at) = last
      /\ \A b \in 1..last : at[b] \in 1..n
    BY SequenceType, BlocksType DEF DataLaid, Blocks
<1>4. \A b \in 1..last : /\ LastOf(recs, at, b) \in at[b]..n
                         /\ Block(t, b) = SubSeq(recs, at[b], LastOf(recs, at, b))
    BY BlockIsRead
<1>5. ASSUME NEW b \in 1..last
      PROVE  g[b] = g[b - 1] \o Block(t, b)
    <2> DEFINE k == LastOf(recs, at, b)
    <2>0. b \in 0..last /\ b # 0 /\ b \in Nat /\ b >= 1 /\ b <= last
        BY <1>3
    <2>1. /\ g[b] = SubSeq(recs, 1, k) /\ Block(t, b) = SubSeq(recs, at[b], k)
          /\ at[b] \in 1..n /\ k \in at[b]..n /\ k \in 1..n
        <3>1. g[b] = SubSeq(recs, 1, k)
            BY <2>0
        <3>2. at[b] \in 1..n /\ k \in at[b]..n /\ Block(t, b) = SubSeq(recs, at[b], k)
            BY <1>3, <1>4
        <3> HIDE DEF k, g, n
        <3>3. k \in 1..n
            BY <1>3, <3>2
        <3> QED
            BY <3>1, <3>2, <3>3
    <2>2. CASE b = 1
        <3>1. g[b - 1] = <<>> /\ at[b] = 1
            BY <1>3, <2>2
        <3>2. SubSeq(recs, 1, k) \in Seq(TableRecord)
            <4>1. \A m \in 1..k : recs[m] \in TableRecord
                <5>1. k \in Nat /\ k <= Len(recs)
                    BY <1>3, <2>1
                <5> HIDE DEF k
                <5> QED
                    BY <1>3, <5>1, SequenceType
            <4>2. 1 \in Int /\ k \in Int
                BY <2>1
            <4> HIDE DEF k
            <4> QED
                BY <4>1, <4>2, SubSeqProperties
        <3>3. <<>> \o SubSeq(recs, 1, k) = SubSeq(recs, 1, k)
            BY <3>2, ConcatEmptySeq
        <3> QED
            BY <2>1, <3>1, <3>3
    <2>3. CASE b > 1
        <3> DEFINE j == LastOf(recs, at, b - 1)
        <3>1. b - 1 \in 1..last /\ b - 1 < last
            BY <1>3, <2>3
        <3>2. j = at[b] - 1
            BY <1>3, <2>3, <3>1 DEF LastOf
        <3>3. g[b - 1] = SubSeq(recs, 1, j)
            <4>1. b - 1 \in 0..last /\ b - 1 # 0
                BY <2>0, <2>3
            <4> QED
                BY <4>1
        <3>4. j \in 1..n
            <4>1. at[b - 1] \in 1..n /\ j \in at[b - 1]..n
                BY <1>3, <1>4, <3>1
            <4> HIDE DEF j, n
            <4> QED
                BY <1>3, <4>1
        <3> HIDE DEF k, j, g
        <3>5. j \in 0..n /\ k \in j..n /\ at[b] = j + 1 /\ 1 \in 1..Len(recs) + 1
            BY <1>3, <2>1, <3>2, <3>4
        <3>6. SubSeq(recs, 1, j) \o SubSeq(recs, j + 1, k) = SubSeq(recs, 1, k)
            BY <1>3, <3>5, ConcatAdjacentSubSeq
        <3> QED
            BY <2>1, <3>3, <3>5, <3>6
    <2>4. b = 1 \/ b > 1
        BY <2>0
    <2> QED
        BY <2>2, <2>3, <2>4
<1>6. Solves(g)
    <2>1. g[0] = <<>> /\ DOMAIN g = 0..last
        BY <1>3
    <2> HIDE DEF g
    <2>2. \A b \in 0..last : g[b] = IF b = 0 THEN <<>> ELSE g[b - 1] \o Block(t, b)
        <3>1. ASSUME NEW b \in 0..last, b # 0 PROVE b \in 1..last
            BY <1>3, <3>1
        <3> QED
            BY <1>5, <2>1, <3>1
    <2>3. g = [b \in 0..last |-> g[b]]
        BY <2>1 DEF g
    <2> QED
        BY <2>2, <2>3
<1>7. Solves(upTo)
    <2> HIDE DEF Solves
    <2> QED
        BY <1>2, <1>6
<1>8. \A b \in 0..last : upTo[b] = IF b = 0 THEN <<>> ELSE upTo[b - 1] \o Block(t, b)
    BY <1>7
<1> DEFINE bad == {b \in Nat : b <= last /\ upTo[b] # g[b]}
<1>9. bad = {}
    <2> SUFFICES ASSUME bad # {} PROVE FALSE
        OBVIOUS
    <2>1. PICK b \in bad : \A c \in bad : b <= c
        <3>1. bad \in SUBSET Nat
            OBVIOUS
        <3> HIDE DEF bad
        <3> QED
            BY <3>1, LeastNumber
    <2>2. b \in 0..last /\ upTo[b] # g[b]
        BY <1>3, <2>1
    <2>3. b # 0
        BY <1>3, <1>8, <2>2
    <2>4. b - 1 \in Nat /\ b - 1 <= last /\ ~(b <= b - 1) /\ b \in 1..last
        BY <1>3, <2>2, <2>3
    <2>5. b - 1 \notin bad
        BY <2>1, <2>4
    <2>6. upTo[b - 1] = g[b - 1]
        BY <2>4, <2>5
    <2> HIDE DEF g
    <2> QED
        BY <1>5, <1>8, <2>2, <2>3, <2>4, <2>6
<1>10. upTo[last] = g[last]
    <2>1. last \notin bad
        BY <1>9
    <2>2. PICK z \in Nat : z = last
        BY <1>3
    <2>3. z <= z
        OBVIOUS
    <2> HIDE DEF g
    <2> QED
        BY <2>1, <2>2, <2>3
<1>11. g[last] = SubSeq(recs, 1, n)
    BY <1>3 DEF LastOf
<1> QED
    BY <1>1, <1>10, <1>11, SubSeqFull

-----------------------------------------------------------------------------
(* Lookup.                                                                 *)

\* The filter and the key range let every key of the table through.
Admits(t, recs) ==
    /\ t.min_key = recs[1].key /\ t.max_key = recs[Len(recs)].key
    /\ \A p \in DOMAIN recs : MayContain(t.filter, HashOf[recs[p].key])

\* partition_point finds the last block that begins with a key up to k.
LEMMA CandidateIsLast ==
    ASSUME NEW recs \in Seq(TableRecord), Sorted(recs), NEW t, NEW off, NEW at,
           DataLaid(t, recs, off, at), NEW k \in Key
    PROVE  /\ CandidateBlock(t, k) \in 0..Len(t.sparse_index)
           /\ \A b \in 1..Len(t.sparse_index) :
                b <= CandidateBlock(t, k) <=> t.sparse_index[b].key <= k
<1> DEFINE index == t.sparse_index
           last == Len(index)
           H == {b \in DOMAIN index : index[b].key <= k}
<1>1. /\ last \in Nat /\ DOMAIN index = 1..last /\ k \in Nat
      /\ \A b \in 1..last : index[b].key \in Nat
    BY BlocksType, RecordsAssumption DEF DataLaid
<1>2. ASSUME NEW b \in 1..last, NEW c \in 1..last, b < c
      PROVE  index[b].key < index[c].key
    <2>1. /\ at[b] \in 1..Len(recs) /\ at[c] \in 1..Len(recs) /\ at[b] < at[c]
          /\ index[b].key = recs[at[b]].key /\ index[c].key = recs[at[c]].key
        BY <1>2 DEF DataLaid, Blocks
    <2>2. DOMAIN recs = 1..Len(recs)
        BY SequenceType
    <2> QED
        BY <2>1, <2>2 DEF Sorted
<1> HIDE DEF index, last
<1>3. \E m \in 0..last : H = 1..m
    <2>1. CASE H = {}
        <3>1. H = 1..0 /\ 0 \in 0..last
            BY <1>1, <2>1
        <3> QED
            BY <3>1
    <2>2. CASE H # {}
        <3>1. H \in SUBSET (1..last)
            BY <1>1
        <3> DEFINE m == Newest(H)
        <3>2. m \in H /\ \A j \in H : j <= m
            <4> HIDE DEF H
            <4> QED
                BY <1>1, <2>2, <3>1, NewestIsMax
        <3> HIDE DEF m
        <3>3. m \in 1..last /\ m \in 0..last /\ index[m].key <= k
            BY <1>1, <3>1, <3>2
        <3>4. ASSUME NEW b \in 1..m PROVE b \in H
            <4>1. b \in 1..last
                BY <1>1, <3>3
            <4>2. CASE b = m
                BY <3>2, <4>2
            <4>3. CASE b < m
                <5>1. index[b].key < index[m].key
                    BY <1>2, <3>3, <4>1, <4>3
                <5> QED
                    BY <1>1, <3>3, <4>1, <5>1
            <4> QED
                BY <3>3, <4>2, <4>3
        <3>5. ASSUME NEW b \in H PROVE b \in 1..m
            BY <1>1, <3>1, <3>2, <3>3
        <3>6. H = 1..m
            BY <3>4, <3>5
        <3> QED
            BY <3>3, <3>6
    <2> QED
        BY <2>1, <2>2
<1>4. PICK m \in 0..last : H = 1..m
    BY <1>3
<1>5. Cardinality(H) = m
    <2>1. Cardinality(1..m) = m
        BY <1>1, <1>4, FS_Interval
    <2> QED
        BY <1>4, <2>1
<1>6. CandidateBlock(t, k) = Cardinality(H)
    BY DEF CandidateBlock, index
<1>7. \A b \in 1..last : b <= m <=> index[b].key <= k
    BY <1>1, <1>4
<1> HIDE DEF H
<1> QED
    BY <1>5, <1>6, <1>7 DEF index, last

\* SSTable::get answers for its table as for a function: the block the index
\* points to is the only one that may hold the key.
LEMMA LookupIsContent ==
    ASSUME NEW recs \in Seq(TableRecord), Sorted(recs), recs # <<>>,
           NEW t, NEW off, NEW at, DataLaid(t, recs, off, at), Admits(t, recs), NEW k \in Key
    PROVE  TableGet(t, k) = ContentOf(recs)[k]
<1> DEFINE index == t.sparse_index
           c == CandidateBlock(t, k)
           n == Len(recs)
<1>1. /\ n \in Nat /\ DOMAIN recs = 1..n /\ n >= 1 /\ k \in Nat
      /\ \A p \in 1..n : recs[p].key \in Nat /\ recs[p].entry # None
    BY SequenceType, EmptySeq, RecordsAssumption
<1>2. /\ c \in 0..Len(index) /\ Len(index) \in Nat
      /\ \A b \in 1..Len(index) : b <= c <=> index[b].key <= k
    BY CandidateIsLast, BlocksType DEF DataLaid
<1>3. ASSUME c > 0
      PROVE  /\ c \in 1..Len(index) /\ at[c] \in 1..n /\ LastOf(recs, at, c) \in at[c]..n
             /\ Block(t, c) = SubSeq(recs, at[c], LastOf(recs, at, c))
             /\ \A p \in 1..n : recs[p].key = k => p \in at[c]..LastOf(recs, at, c)
    <2>1. c \in 1..Len(index)
        BY <1>2, <1>3
    <2>2. /\ at[c] \in 1..n /\ index[c].key = recs[at[c]].key /\ Len(at) = Len(index)
          /\ \A b \in 1..Len(index) : at[b] \in 1..n /\ index[b].key = recs[at[b]].key
        BY <2>1 DEF DataLaid, Blocks
    <2>3. /\ LastOf(recs, at, c) \in at[c]..n
          /\ Block(t, c) = SubSeq(recs, at[c], LastOf(recs, at, c))
        BY <2>1, BlockIsRead
    <2>4. index[c].key <= k
        <3>1. c <= c
            BY <1>2
        <3> QED
            BY <1>2, <2>1, <3>1
    <2> HIDE DEF c
    <2>5. ASSUME NEW p \in 1..n, recs[p].key = k
          PROVE  p \in at[c]..LastOf(recs, at, c)
        <3>1. at[c] <= p
            <4> SUFFICES ASSUME p < at[c] PROVE FALSE
                BY <1>1, <2>2
            <4>1. recs[p].key < recs[at[c]].key
                BY <1>1, <2>2 DEF Sorted
            <4> QED
                BY <1>1, <2>2, <2>4, <2>5, <4>1
        <3>2. CASE c < Len(at)
            <4>1. c + 1 \in 1..Len(index) /\ ~(c + 1 <= c)
                BY <1>2, <2>1, <2>2, <3>2
            <4>2. ~(recs[at[c + 1]].key <= k) /\ at[c + 1] \in 1..n
                BY <1>2, <2>2, <4>1 DEF c
            <4>3. p < at[c + 1]
                <5> SUFFICES ASSUME ~(p < at[c + 1]) PROVE FALSE
                    OBVIOUS
                <5>1. p = at[c + 1] \/ at[c + 1] < p
                    BY <1>1, <4>2
                <5>2. at[c + 1] < p => recs[at[c + 1]].key < recs[p].key
                    BY <1>1, <4>2 DEF Sorted
                <5> QED
                    BY <1>1, <2>5, <4>2, <5>1, <5>2
            <4> QED
                BY <1>1, <2>2, <3>1, <3>2, <4>2, <4>3 DEF LastOf
        <3>3. CASE ~(c < Len(at))
            BY <1>1, <2>2, <3>1, <3>3 DEF LastOf
        <3> QED
            BY <3>2, <3>3
    <2> QED
        BY <2>1, <2>2, <2>3, <2>5
<1>4. ASSUME c > 0
      PROVE  ScanBlock(t, c, k) = ContentOf(recs)[k]
    <2> DEFINE lo == at[c]
               hi == LastOf(recs, at, c)
               block == Block(t, c)
               reached == {i \in DOMAIN block : block[i].key >= k}
               first == CHOOSE i \in reached : \A j \in reached : i <= j
    <2>1. /\ lo \in 1..n /\ hi \in lo..n /\ block = SubSeq(recs, lo, hi)
          /\ \A p \in 1..n : recs[p].key = k => p \in lo..hi
        BY <1>3, <1>4
    <2>2. ScanBlock(t, c, k) = IF reached # {} /\ block[first].key = k
                               THEN block[first].entry ELSE None
        BY DEF ScanBlock
    <2> HIDE DEF lo, hi, c
    <2>3. /\ DOMAIN block = 1..hi - lo + 1
          /\ \A i \in 1..hi - lo + 1 : block[i] = recs[lo + i - 1] /\ lo + i - 1 \in 1..n
        <3>1. lo \in Int /\ hi \in Int /\ lo <= hi /\ \A p \in lo..hi : recs[p] \in TableRecord
            BY <1>1, <2>1, SequenceType
        <3> DEFINE q == SubSeq(recs, lo, hi)
        <3>2. /\ q \in Seq(TableRecord) /\ Len(q) = hi - lo + 1
              /\ \A i \in 1..hi - lo + 1 : q[i] = recs[lo + i - 1]
            BY <3>1, SubSeqProperties
        <3> HIDE DEF q
        <3>3. DOMAIN q = 1..Len(q)
            BY <3>2, LenProperties
        <3>4. \A i \in 1..hi - lo + 1 : lo + i - 1 \in 1..n
            BY <1>1, <2>1
        <3>5. block = q
            BY <2>1 DEF q
        <3> HIDE DEF block
        <3> QED
            BY <3>2, <3>3, <3>4, <3>5
    <2> HIDE DEF block
    <2>4. reached # {} => first \in reached /\ \A j \in reached : first <= j
        <3> SUFFICES ASSUME reached # {} PROVE \E i \in reached : \A j \in reached : i <= j
            OBVIOUS
        <3>1. reached \in SUBSET Nat
            BY <2>3
        <3> HIDE DEF reached
        <3> QED
            BY <3>1, LeastNumber
    <2> HIDE DEF first
    <2>5. CASE \E p \in 1..n : recs[p].key = k
        <3>1. PICK p \in 1..n : recs[p].key = k
            BY <2>5
        <3>2. PICK i \in 1..hi - lo + 1 : lo + i - 1 = p
            <4>1. p - lo + 1 \in 1..hi - lo + 1 /\ lo + (p - lo + 1) - 1 = p
                BY <1>1, <2>1, <3>1
            <4> QED
                BY <4>1
        <3>3. i \in reached
            BY <1>1, <2>3, <3>1, <3>2
        <3>4. first \in 1..hi - lo + 1 /\ first <= i /\ block[first].key >= k
            BY <2>3, <2>4, <3>3
        <3>5. first = i
            <4> SUFFICES ASSUME first < i PROVE FALSE
                BY <3>2, <3>4
            <4>1. lo + first - 1 \in 1..n /\ lo + first - 1 < p
                BY <1>1, <2>1, <2>3, <3>2, <3>4
            <4>2. recs[lo + first - 1].key < recs[p].key
                BY <1>1, <3>1, <4>1 DEF Sorted
            <4> QED
                BY <1>1, <2>3, <3>1, <3>4, <4>1, <4>2
        <3>6. ContentOf(recs)[k] = recs[p].entry
            BY <1>1, <3>1, ContentAt
        <3> QED
            BY <2>2, <2>3, <3>1, <3>2, <3>3, <3>5, <3>6
    <2>6. CASE ~ \E p \in 1..n : recs[p].key = k
        <3>1. ContentOf(recs)[k] = None
            BY <1>1, <2>6, ContentNowhere
        <3>2. reached # {} => block[first].key # k
            BY <2>3, <2>4, <2>6
        <3> QED
            BY <2>2, <3>1, <3>2
    <2> QED
        BY <2>5, <2>6
<1>5. CASE \E p \in 1..n : recs[p].key = k
    <2>1. PICK p \in 1..n : recs[p].key = k
        BY <1>5
    <2>2. k >= t.min_key /\ k <= t.max_key /\ MayContain(t.filter, HashOf[k])
        <3>1. t.min_key = recs[1].key /\ t.max_key = recs[n].key
            BY DEF Admits
        <3>2. recs[1].key <= recs[p].key
            <4>1. 1 \in DOMAIN recs /\ p \in DOMAIN recs /\ (1 < p \/ p = 1)
                BY <1>1
            <4>2. recs[1].key \in Nat /\ recs[p].key \in Nat
                BY <1>1
            <4> QED
                BY <4>1, <4>2 DEF Sorted
        <3>3. recs[p].key <= recs[n].key
            <4>1. n \in DOMAIN recs /\ p \in DOMAIN recs
                BY <1>1, <2>1
            <4>2. p < n \/ p = n
                <5>1. p \in Nat /\ n \in Nat /\ p <= n
                    BY <1>1, <2>1
                <5> HIDE DEF n
                <5> QED
                    BY <5>1
            <4>3. recs[n].key \in Nat /\ recs[p].key \in Nat
                BY <1>1
            <4> QED
                BY <4>1, <4>2, <4>3 DEF Sorted
        <3>4. MayContain(t.filter, HashOf[recs[p].key])
            BY <1>1, <2>1 DEF Admits
        <3> QED
            BY <2>1, <3>1, <3>2, <3>3, <3>4
    <2>3. c > 0
        <3>1. Len(index) >= 1 /\ at[1] = 1 /\ index[1].key = recs[1].key
            BY <1>1, <1>2 DEF DataLaid, Blocks
        <3>2. index[1].key <= k
            <4>1. t.min_key = recs[1].key
                BY DEF Admits
            <4> QED
                BY <1>1, <2>2, <3>1, <4>1
        <3>3. 1 <= c
            BY <1>2, <3>1, <3>2
        <3> QED
            BY <1>2, <3>3
    <2> QED
        BY <1>4, <2>2, <2>3 DEF TableGet
<1>6. CASE ~ \E p \in 1..n : recs[p].key = k
    <2>1. ContentOf(recs)[k] = None
        BY <1>1, <1>6, ContentNowhere
    <2>2. TableGet(t, k) = None
        BY <1>4, <2>1 DEF TableGet
    <2> QED
        BY <2>1, <2>2
<1> QED
    BY <1>5, <1>6

-----------------------------------------------------------------------------
(* Opening.                                                                *)

\* The index, the filter and the key range lie behind the data, where the
\* trailer says.
TailLaid(t, ioff) ==
    /\ Laid(t.file.items, IndexItems(t.sparse_index, Len(t.sparse_index)), ioff)
    /\ ioff[1] = t.index_start
    /\ ioff[Len(t.sparse_index) + 1] = t.file.trailer.filter_start
    /\ t.file.trailer.index_start = t.index_start
    /\ t.file.trailer.filter_start \in DOMAIN t.file.items
    /\ t.file.items[t.file.trailer.filter_start] = FilterItem(t.filter)
    /\ t.file.trailer.meta_start \in DOMAIN t.file.items
    /\ t.file.items[t.file.trailer.meta_start] = RangeItem(t.min_key, t.max_key)
    /\ t = [file |-> t.file, sparse_index |-> t.sparse_index, index_start |-> t.index_start,
            filter |-> t.filter, min_key |-> t.min_key, max_key |-> t.max_key]

\* The items of index entries, one for each.
LEMMA IndexItemsType ==
    ASSUME NEW index \in Seq(IndexEntry), NEW n \in 0..Len(index)
    PROVE  /\ IndexItems(index, n) \in Seq({IndexItem(e) : e \in IndexEntry})
           /\ Len(IndexItems(index, n)) = n
           /\ \A b \in 1..n : /\ IndexItems(index, n)[b] = IndexItem(index[b])
                              /\ IndexItems(index, n)[b].kind = "index"
                              /\ IndexItems(index, n)[b].entry = index[b]
<1> DEFINE S == {IndexItem(e) : e \in IndexEntry}
<1>1. n \in Nat /\ \A b \in 1..n : IndexItem(index[b]) \in S
    <2>1. Len(index) \in Nat
        BY LenProperties
    <2>2. ASSUME NEW b \in 1..n PROVE index[b] \in IndexEntry
        <3>1. b \in 1..Len(index)
            BY <2>1
        <3> QED
            BY <3>1, ElementOfSeq
    <2> QED
        BY <2>1, <2>2
<1> HIDE DEF S
<1>2. IndexItems(index, n) \in Seq(S) /\ Len(IndexItems(index, n)) = n
    BY <1>1 DEF IndexItems
<1>3. \A b \in 1..n : /\ IndexItems(index, n)[b] = IndexItem(index[b])
                      /\ IndexItems(index, n)[b].kind = "index"
                      /\ IndexItems(index, n)[b].entry = index[b]
    BY DEF IndexItems, IndexItem
<1> QED
    BY <1>2, <1>3 DEF S

\* The index is read back whole.
LEMMA IndexIsRead ==
    ASSUME NEW t, t.sparse_index \in Seq(IndexEntry), SizesPositive(t.file.items),
           NEW ioff, TailLaid(t, ioff)
    PROVE  ReadIndex(t.file) = t.sparse_index
<1> DEFINE index == t.sparse_index
           n == Len(index)
           S == {IndexItem(e) : e \in IndexEntry}
           items == IndexItems(index, n)
           file == t.file
           kind == "index"
<1>1. n \in Nat /\ n \in 0..n /\ DOMAIN index = 1..n
    BY LenProperties
<1>2. /\ items \in Seq(S) /\ Len(items) = n
      /\ \A b \in 1..n : items[b].kind = kind /\ items[b].entry = index[b]
    BY <1>1, IndexItemsType
<1>3. Laid(file.items, items, ioff) /\ SizesPositive(file.items)
    BY DEF TailLaid
<1>4. ioff[1] = file.trailer.index_start /\ ioff[n + 1] = file.trailer.filter_start
    BY DEF TailLaid
<1>5. ReadIndex(file) = LET r == ReadItems(file, kind, ioff[1], ioff[n + 1])
                        IN [b \in DOMAIN r |-> r[b].entry]
    BY <1>4 DEF ReadIndex
<1> HIDE DEF n, S, items, file, kind
<1>6. SameKind(items, kind, 1, n + 1)
    BY <1>1, <1>2 DEF SameKind
<1>7. 1 \in 1..Len(items) + 1 /\ n + 1 \in 1..Len(items) + 1 /\ 1 <= n + 1
    BY <1>1, <1>2
<1>8. ReadItems(file, kind, ioff[1], ioff[n + 1]) = SubSeq(items, 1, n)
    <2> DEFINE i == 1
               j == n + 1
    <2>1. i \in 1..Len(items) + 1 /\ j \in 1..Len(items) + 1 /\ i <= j
        BY <1>7
    <2>2. SameKind(items, kind, i, j)
        BY <1>6
    <2>3. j - 1 = n
        BY <1>1
    <2> HIDE DEF i, j
    <2>4. items \in Seq(S) /\ Laid(file.items, items, ioff) /\ SizesPositive(file.items)
        BY <1>2, <1>3
    <2>5. ReadItems(file, kind, ioff[i], ioff[j]) = SubSeq(items, i, j - 1)
        BY <2>1, <2>2, <2>4, ReadsWhatWasLaid
    <2> QED
        BY <2>3, <2>5 DEF i, j
<1>9. SubSeq(items, 1, n) = items /\ DOMAIN items = 1..n
    BY <1>2, SubSeqFull, LenProperties
<1>10. ReadIndex(file) = [b \in DOMAIN items |-> items[b].entry]
    BY <1>5, <1>8, <1>9
<1>11. [b \in DOMAIN items |-> items[b].entry] = [b \in 1..n |-> index[b]]
    BY <1>2, <1>9
<1>12. [b \in 1..n |-> index[b]] = index
    BY <1>1, SeqDef
<1> QED
    BY <1>10, <1>11, <1>12 DEF file

\* open gives back the table its writer kept.
LEMMA ReopenIsIdentity ==
    ASSUME NEW t, t.sparse_index \in Seq(IndexEntry), SizesPositive(t.file.items),
           NEW ioff, TailLaid(t, ioff)
    PROVE  OpenTable(t.file) = {t}
<1> DEFINE file == t.file
           filter_start == file.trailer.filter_start
           meta_start == file.trailer.meta_start
<1>1. ReadIndex(file) = t.sparse_index
    BY IndexIsRead
<1>2. /\ Begins(file, "filter", filter_start) /\ file.items[filter_start].filter = t.filter
      /\ Begins(file, "range", meta_start)
      /\ file.items[meta_start].min_key = t.min_key /\ file.items[meta_start].max_key = t.max_key
    BY DEF TailLaid, Begins, FilterItem, RangeItem
<1>3. t = [file |-> file, sparse_index |-> ReadIndex(file), index_start |-> file.trailer.index_start,
           filter |-> file.items[filter_start].filter,
           min_key |-> file.items[meta_start].min_key, max_key |-> file.items[meta_start].max_key]
    BY <1>1, <1>2 DEF TailLaid
<1>4. OpenTable(file) = {[file |-> file, sparse_index |-> ReadIndex(file),
           index_start |-> file.trailer.index_start,
           filter |-> file.items[filter_start].filter,
           min_key |-> file.items[meta_start].min_key, max_key |-> file.items[meta_start].max_key]}
    BY <1>2 DEF OpenTable
<1> QED
    BY <1>3, <1>4

-----------------------------------------------------------------------------
(* Writing.                                                                *)

\* Every item takes bytes, so that no two begin at one offset.
LEMMA ItemSizes ==
    /\ \A r \in TableRecord : RecordSize(r) \in Nat \ {0} /\ RecordItem(r).size = RecordSize(r)
    /\ \A e \in IndexEntry : IndexEntrySize(e) \in Nat \ {0}
                             /\ IndexItem(e).size = IndexEntrySize(e)
    /\ \A k, m \in Key : RangeItem(k, m).size \in Nat \ {0}
    /\ \A f : /\ f.num_bits \in Nat => FilterSize(f) \in Nat \ {0}
            /\ FilterItem(f).size = FilterSize(f)
<1>1. ASSUME NEW r \in TableRecord PROVE RecordSize(r) \in Nat \ {0}
    <2>1. KeySize[r.key] \in Nat
        BY TableFileAssumption DEF TableRecord
    <2>2. (IF r.entry = Tombstone THEN 0 ELSE ValueSize[r.entry]) \in Nat
        BY TableFileAssumption DEF TableRecord
    <2>3. PICK n \in Nat : n = KeySize[r.key]
        BY <2>1
    <2>4. PICK m \in Nat : m = IF r.entry = Tombstone THEN 0 ELSE ValueSize[r.entry]
        BY <2>2
    <2>5. RecordSize(r) = 9 + n + m
        BY <2>3, <2>4 DEF RecordSize
    <2> QED
        BY <2>5
<1>2. ASSUME NEW e \in IndexEntry PROVE IndexEntrySize(e) \in Nat \ {0}
    <2>1. PICK n \in Nat : n = KeySize[e.key]
        BY TableFileAssumption DEF IndexEntry
    <2>2. IndexEntrySize(e) = 12 + n
        BY <2>1 DEF IndexEntrySize
    <2> QED
        BY <2>2
<1>3. ASSUME NEW k \in Key, NEW m \in Key PROVE RangeItem(k, m).size \in Nat \ {0}
    <2>1. PICK a \in Nat : a = KeySize[k]
        BY TableFileAssumption
    <2>2. PICK b \in Nat : b = KeySize[m]
        BY TableFileAssumption
    <2>3. RangeItem(k, m).size = 8 + a + b
        BY <2>1, <2>2 DEF RangeItem
    <2> QED
        BY <2>3
<1>4. ASSUME NEW f, f.num_bits \in Nat PROVE FilterSize(f) \in Nat \ {0}
    <2>1. PICK b \in Nat : b = f.num_bits
        BY <1>4
    <2>2. b \div WordBits \in Nat
        BY BloomFilterAssumption
    <2>3. PICK q \in Nat : q = b \div WordBits
        BY <2>2
    <2>4. FilterSize(f) = 12 + q * 8
        BY <2>1, <2>3 DEF FilterSize
    <2> QED
        BY <2>4
<1>5. \A r : RecordItem(r).size = RecordSize(r)
    BY DEF RecordItem
<1>6. \A e : IndexItem(e).size = IndexEntrySize(e)
    BY DEF IndexItem
<1>7. \A f : FilterItem(f).size = FilterSize(f)
    BY DEF FilterItem
<1> QED
    BY <1>1, <1>2, <1>3, <1>4, <1>5, <1>6, <1>7

\* What is written begins before the end of what is written.
OutOK(out) ==
    /\ out.length \in Nat
    /\ SizesPositive(out.items)
    /\ \A x \in DOMAIN out.items : x \in Nat /\ x < out.length

\* What is written goes behind what is there, and leaves it as it is.
LEMMA EmitOK ==
    ASSUME NEW out, OutOK(out), NEW item, item.size \in Nat \ {0}
    PROVE  /\ OutOK(Emit(out, item))
           /\ out.length \notin DOMAIN out.items
           /\ Emit(out, item).length = out.length + item.size
           /\ DOMAIN Emit(out, item).items = DOMAIN out.items \cup {out.length}
           /\ Emit(out, item).items[out.length] = item
           /\ \A x \in DOMAIN out.items : Emit(out, item).items[x] = out.items[x]
<1> DEFINE new == Emit(out, item)
<1>1. /\ new.length = out.length + item.size
      /\ DOMAIN new.items = DOMAIN out.items \cup {out.length}
      /\ new.items[out.length] = item
    BY DEF Emit
<1>2. out.length \notin DOMAIN out.items
    BY DEF OutOK
<1>3. \A x \in DOMAIN out.items : new.items[x] = out.items[x]
    BY <1>2 DEF Emit
<1> HIDE DEF new
<1>4. PICK n \in Nat : n = out.length
    BY DEF OutOK
<1>5. PICK m \in Nat \ {0} : m = item.size
    OBVIOUS
<1>6. new.length = n + m
    BY <1>1, <1>4, <1>5
<1>7. \A x \in DOMAIN new.items : x \in Nat /\ x < new.length
    BY <1>1, <1>4, <1>5, <1>6 DEF OutOK
<1>8. SizesPositive(new.items)
    BY <1>1, <1>3 DEF OutOK, SizesPositive
<1>9. OutOK(new)
    BY <1>6, <1>7, <1>8 DEF OutOK
<1> QED
    BY <1>1, <1>2, <1>3, <1>9 DEF new

\* The filter has been told of every record.
FilterOK(filter, done) ==
    /\ filter = [bits |-> filter.bits, num_bits |-> filter.num_bits,
                 num_probes |-> filter.num_probes]
    /\ filter.num_bits \in Nat
    /\ \A p \in DOMAIN done : MayContain(filter, HashOf[done[p].key])

\* A bit that is set stays set.
LEMMA InsertOK ==
    ASSUME NEW done \in Seq(TableRecord), NEW filter, FilterOK(filter, done), NEW r \in TableRecord
    PROVE  FilterOK(Insert(filter, HashOf[r.key]), Append(done, r))
<1> DEFINE hash == HashOf[r.key]
           new == Insert(filter, hash)
<1>1. /\ new = [bits |-> filter.bits \cup Probes(filter, hash), num_bits |-> filter.num_bits,
                num_probes |-> filter.num_probes]
    <2>1. PICK B, nb, np : filter = [bits |-> B, num_bits |-> nb, num_probes |-> np]
        BY DEF FilterOK
    <2>2. filter.bits = B /\ filter.num_bits = nb /\ filter.num_probes = np
        BY <2>1
    <2>3. new = [filter EXCEPT !.bits = B \cup Probes(filter, hash)]
        BY <2>2 DEF Insert
    <2> DEFINE P == Probes(filter, hash)
    <2> HIDE DEF hash, new, P
    <2>4. [filter EXCEPT !.bits = B \cup P] = [bits |-> B \cup P, num_bits |-> nb, num_probes |-> np]
        <3>1. ASSUME NEW X
              PROVE  [[bits |-> B, num_bits |-> nb, num_probes |-> np] EXCEPT !.bits = X]
                     = [bits |-> X, num_bits |-> nb, num_probes |-> np]
            OBVIOUS
        <3> QED
            BY <2>1, <3>1
    <2> QED
        BY <2>2, <2>3, <2>4 DEF P
<1> HIDE DEF hash, new
<1>2. /\ new.bits = filter.bits \cup Probes(filter, hash) /\ new.num_bits = filter.num_bits
      /\ new.num_probes = filter.num_probes
      /\ new = [bits |-> new.bits, num_bits |-> new.num_bits, num_probes |-> new.num_probes]
    BY <1>1
<1>3. \A h : Probes(new, h) = Probes(filter, h)
    BY <1>2 DEF Probes, Probe
<1>4. MayContain(new, hash)
    BY <1>2, <1>3 DEF MayContain
<1>5. \A h : MayContain(filter, h) => MayContain(new, h)
    BY <1>2, <1>3 DEF MayContain
<1>6. ASSUME NEW p \in DOMAIN Append(done, r)
      PROVE  MayContain(new, HashOf[Append(done, r)[p].key])
    <2>1. /\ Len(done) \in Nat /\ DOMAIN Append(done, r) = 1..Len(done) + 1
          /\ \A i \in 1..Len(done) : Append(done, r)[i] = done[i]
          /\ Append(done, r)[Len(done) + 1] = r
        BY SequenceType, AppendProperties
    <2>2. CASE p \in 1..Len(done)
        <3>1. MayContain(filter, HashOf[done[p].key])
            BY <2>2, SequenceType DEF FilterOK
        <3> QED
            BY <1>5, <2>1, <2>2, <3>1
    <2>3. CASE p = Len(done) + 1
        BY <1>4, <2>1, <2>3 DEF hash
    <2> QED
        BY <1>6, <2>1, <2>2, <2>3
<1> QED
    BY <1>2, <1>6 DEF FilterOK, new, hash

\* The fields of write_table's progress.
WriterShape(w) ==
    w = [left |-> w.left, offset |-> w.offset, block_start |-> w.block_start,
         sparse_index |-> w.sparse_index, filter |-> w.filter, min_key |-> w.min_key,
         max_key |-> w.max_key, indexed |-> w.indexed, index_size |-> w.index_size, out |-> w.out]

\* One turn of the loop over the index, field by field.
LEMMA WriteIndexEntryFields ==
    ASSUME NEW w, WriterShape(w)
    PROVE  LET e == w.sparse_index[w.indexed + 1]
               new == WriteIndexEntry(w)
           IN /\ WriterShape(new)
              /\ new.left = w.left /\ new.offset = w.offset /\ new.block_start = w.block_start
              /\ new.sparse_index = w.sparse_index /\ new.filter = w.filter
              /\ new.min_key = w.min_key /\ new.max_key = w.max_key
              /\ new.indexed = w.indexed + 1
              /\ new.index_size = w.index_size + IndexEntrySize(e)
              /\ new.out = Emit(w.out, IndexItem(e))
<1>1. PICK a, b, c, d, e, f, g, h, i, j :
        w = [left |-> a, offset |-> b, block_start |-> c, sparse_index |-> d, filter |-> e,
             min_key |-> f, max_key |-> g, indexed |-> h, index_size |-> i, out |-> j]
    BY DEF WriterShape
<1>2. /\ w.left = a /\ w.offset = b /\ w.block_start = c /\ w.sparse_index = d /\ w.filter = e
      /\ w.min_key = f /\ w.max_key = g /\ w.indexed = h /\ w.index_size = i /\ w.out = j
    BY <1>1
<1> DEFINE entry == d[h + 1]
           indexed == h + 1
           index_size == i + IndexEntrySize(entry)
           out == Emit(j, IndexItem(entry))
           new == WriteIndexEntry(w)
<1>3. new = [w EXCEPT !.indexed = indexed, !.index_size = index_size, !.out = out]
    BY <1>2 DEF WriteIndexEntry
<1> HIDE DEF indexed, index_size, out, new
<1>4. new = [left |-> a, offset |-> b, block_start |-> c, sparse_index |-> d, filter |-> e,
             min_key |-> f, max_key |-> g, indexed |-> indexed, index_size |-> index_size,
             out |-> out]
    BY <1>1, <1>3
<1>5. /\ new.left = a /\ new.offset = b /\ new.block_start = c /\ new.sparse_index = d
      /\ new.filter = e /\ new.min_key = f /\ new.max_key = g /\ new.indexed = indexed
      /\ new.index_size = index_size /\ new.out = out
    BY <1>4
<1>6. WriterShape(new)
    BY <1>4, <1>5 DEF WriterShape
<1> QED
    BY <1>2, <1>5, <1>6 DEF new, indexed, index_size, out

\* One more record, and one more item for it.
LEMMA AppendRecord ==
    ASSUME NEW done \in Seq(TableRecord), NEW r \in TableRecord
    PROVE  /\ Append(done, r) \in Seq(TableRecord) /\ Append(done, r) # <<>>
           /\ Len(done) \in Nat /\ Len(Append(done, r)) = Len(done) + 1
           /\ DOMAIN Append(done, r) = 1..Len(done) + 1
           /\ \A i \in 1..Len(done) : Append(done, r)[i] = done[i]
           /\ Append(done, r)[Len(done) + 1] = r
           /\ RecordItems(Append(done, r)) = Append(RecordItems(done), RecordItem(r))
<1> DEFINE n == Len(done)
           new == Append(done, r)
           S == {RecordItem(x) : x \in TableRecord}
           old == RecordItems(done)
<1>1. /\ new \in Seq(TableRecord) /\ n \in Nat /\ Len(new) = n + 1 /\ DOMAIN new = 1..n + 1
      /\ \A i \in 1..n : new[i] = done[i]
      /\ new[n + 1] = r
    BY AppendProperties, SequenceType
<1>2. old \in Seq(S) /\ Len(old) = n /\ \A i \in 1..n : old[i] = RecordItem(done[i])
    BY RecordItemsType
<1>3. RecordItem(r) \in S
    OBVIOUS
<1>4. RecordItems(new) \in Seq(S) /\ Len(RecordItems(new)) = n + 1
      /\ \A i \in 1..n + 1 : RecordItems(new)[i] = RecordItem(new[i])
    BY <1>1, RecordItemsType
<1> HIDE DEF S, old, new, n
<1>5. Append(old, RecordItem(r)) \in Seq(S) /\ Len(Append(old, RecordItem(r))) = n + 1
      /\ \A i \in 1..n : Append(old, RecordItem(r))[i] = old[i]
      /\ Append(old, RecordItem(r))[n + 1] = RecordItem(r)
    BY <1>2, <1>3, AppendProperties
<1>6. \A i \in 1..n + 1 : RecordItems(new)[i] = Append(old, RecordItem(r))[i]
    BY <1>1, <1>2, <1>4, <1>5
<1>7. RecordItems(new) = Append(old, RecordItem(r))
    BY <1>1, <1>4, <1>5, <1>6, SeqEqual
<1>8. new # <<>>
    BY <1>1, EmptySeq
<1> QED
    BY <1>1, <1>7, <1>8 DEF new, n, old

\* A record that begins no block leaves the blocks as they are; the first one
\* always begins one.
LEMMA BlocksContinue ==
    ASSUME NEW done \in Seq(TableRecord), done # <<>>, NEW off \in Seq(Nat),
           Len(off) = Len(done) + 1, NEW index, NEW at,
           Blocks(done, off, index, at), NEW r \in TableRecord, NEW x \in Nat
    PROVE  Blocks(Append(done, r), Append(off, x), index, at)
<1> DEFINE n == Len(done)
           new == Append(done, r)
           o == Append(off, x)
<1>1. /\ n \in Nat /\ Len(new) = n + 1 /\ \A i \in 1..n : new[i] = done[i]
    BY AppendRecord
<1>2. \A i \in 1..n + 1 : o[i] = off[i]
    BY <1>1, AppendProperties
<1> HIDE DEF n, new, o
<1>3. \A b \in 1..Len(index) : at[b] \in 1..n
    BY DEF Blocks, n
<1>4. /\ index \in Seq(IndexEntry) /\ at \in Seq(Nat) /\ Len(at) = Len(index)
      /\ \A b \in 1..Len(index) : index[b].key = done[at[b]].key /\ index[b].offset = off[at[b]]
      /\ \A b, c \in 1..Len(index) : b < c => at[b] < at[c]
      /\ Len(index) >= 1 /\ at[1] = 1
    BY DEF Blocks
<1>5. \A b \in 1..Len(index) : /\ at[b] \in 1..Len(new)
                               /\ index[b].key = new[at[b]].key /\ index[b].offset = o[at[b]]
    <2> SUFFICES ASSUME NEW b \in 1..Len(index)
                 PROVE  /\ at[b] \in 1..Len(new)
                        /\ index[b].key = new[at[b]].key /\ index[b].offset = o[at[b]]
        OBVIOUS
    <2>1. PICK i \in 1..n : i = at[b]
        BY <1>3
    <2>2. i \in 1..n + 1 /\ new[i] = done[i] /\ o[i] = off[i]
        BY <1>1, <1>2
    <2> QED
        BY <1>1, <1>4, <2>1, <2>2
<1>6. Blocks(new, o, index, at)
    BY <1>4, <1>5 DEF Blocks
<1> QED
    BY <1>6 DEF new, o

\* A record that begins a block is indexed where it begins.
LEMMA BlocksBegin ==
    ASSUME NEW done \in Seq(TableRecord), NEW off \in Seq(Nat),
           Len(off) = Len(done) + 1, NEW index, NEW at,
           Blocks(done, off, index, at), NEW r \in TableRecord, NEW x \in Nat,
           NEW first, first = off[Len(done) + 1]
    PROVE  Blocks(Append(done, r), Append(off, x),
                  Append(index, [key |-> r.key, offset |-> first]), Append(at, Len(done) + 1))
<1> DEFINE n == Len(done)
           m == Len(index)
           new == Append(done, r)
           o == Append(off, x)
           e == [key |-> r.key, offset |-> first]
           idx == Append(index, e)
           a == Append(at, n + 1)
<1>1. /\ n \in Nat /\ Len(new) = n + 1 /\ \A i \in 1..n : new[i] = done[i]
      /\ new[n + 1] = r
    BY AppendRecord
<1>2. \A i \in 1..n + 1 : o[i] = off[i]
    BY <1>1, AppendProperties
<1>3. e \in IndexEntry /\ e.key = r.key /\ e.offset = first
    <2>1. first \in Nat
        BY <1>1, ElementOfSeq
    <2> QED
        BY <2>1 DEF IndexEntry, TableRecord
<1>4. /\ index \in Seq(IndexEntry) /\ at \in Seq(Nat) /\ Len(at) = m /\ m \in Nat
    BY LenProperties DEF Blocks
<1>5. /\ \A b \in 1..m : at[b] \in 1..n /\ index[b].key = done[at[b]].key
                         /\ index[b].offset = off[at[b]]
      /\ \A b, c \in 1..m : b < c => at[b] < at[c]
      /\ n # 0 => m >= 1 /\ at[1] = 1
    BY EmptySeq DEF Blocks
<1>6. /\ idx \in Seq(IndexEntry) /\ Len(idx) = m + 1 /\ \A b \in 1..m : idx[b] = index[b]
      /\ idx[m + 1] = e
    BY <1>3, <1>4, AppendProperties
<1>7. /\ a \in Seq(Nat) /\ Len(a) = m + 1 /\ \A b \in 1..m : a[b] = at[b]
      /\ a[m + 1] = n + 1
    BY <1>1, <1>4, AppendProperties
<1> HIDE DEF n, m, new, o, e, idx, a
<1>8. ASSUME NEW b \in 1..m + 1
      PROVE  a[b] \in 1..n + 1 /\ idx[b].key = new[a[b]].key /\ idx[b].offset = o[a[b]]
    <2>1. CASE b \in 1..m
        <3>1. a[b] = at[b] /\ idx[b] = index[b] /\ at[b] \in 1..n
            BY <1>5, <1>6, <1>7, <2>1
        <3>2. new[at[b]] = done[at[b]] /\ o[at[b]] = off[at[b]] /\ at[b] \in 1..n + 1
            BY <1>1, <1>2, <3>1
        <3> QED
            BY <1>5, <2>1, <3>1, <3>2
    <2>2. CASE b = m + 1
        <3>1. o[n + 1] = first
            BY <1>1, <1>2 DEF n
        <3> QED
            BY <1>1, <1>3, <1>6, <1>7, <2>2, <3>1
    <2> QED
        BY <1>4, <2>1, <2>2
<1>9. ASSUME NEW b \in 1..m + 1, NEW c \in 1..m + 1, b < c PROVE a[b] < a[c]
    <2>1. b \in 1..m /\ a[b] = at[b] /\ at[b] \in 1..n
        BY <1>4, <1>5, <1>7, <1>9
    <2>2. CASE c = m + 1
        BY <1>1, <1>7, <2>1, <2>2
    <2>3. CASE c \in 1..m
        BY <1>5, <1>7, <1>9, <2>1, <2>3
    <2> QED
        BY <1>4, <2>2, <2>3
<1>10. a[1] = 1
    <2>1. CASE n = 0
        <3>1. m = 0
            <4> SUFFICES ASSUME m # 0 PROVE FALSE
                OBVIOUS
            <4>1. 1 \in 1..m
                BY <1>4
            <4> QED
                BY <1>5, <2>1, <4>1
        <3> QED
            BY <1>7, <2>1, <3>1
    <2>2. CASE n # 0
        BY <1>4, <1>5, <1>7, <2>2
    <2> QED
        BY <2>1, <2>2
<1>11. Blocks(new, o, idx, a)
    BY <1>1, <1>4, <1>6, <1>7, <1>8, <1>9, <1>10 DEF Blocks
<1> QED
    BY <1>11 DEF new, o, idx, a, e, n

\* write_table when it has written the records done: they lie from off on, its
\* sparse index is over them, and the index entries written lie behind them.
WriterOK(w, done, off, at, ioff) ==
    /\ WriterShape(w)
    /\ OutOK(w.out)
    /\ Laid(w.out.items, RecordItems(done), off)
    /\ off[1] = 0 /\ off[Len(done) + 1] = w.offset
    /\ Blocks(done, off, w.sparse_index, at)
    /\ done = <<>> => w.block_start = w.offset
    /\ w.indexed \in 0..Len(w.sparse_index)
    /\ w.left # <<>> => w.indexed = 0
    /\ Laid(w.out.items, IndexItems(w.sparse_index, w.indexed), ioff)
    /\ ioff[1] = w.offset /\ ioff[w.indexed + 1] = w.out.length
    /\ w.out.length = w.offset + w.index_size /\ w.index_size \in Nat
    /\ FilterOK(w.filter, done)
    /\ done # <<>> => w.min_key = done[1].key /\ w.max_key = done[Len(done)].key

\* Before the first item nothing is laid out.
LEMMA NoneLaid ==
    ASSUME NEW items, NEW x \in Nat, NEW index
    PROVE  /\ Laid(items, RecordItems(<<>>), <<x>>) /\ Laid(items, IndexItems(index, 0), <<x>>)
           /\ <<x>>[1] = x
<1>1. Len(<<>>) = 0 /\ <<x>> \in Seq(Nat) /\ Len(<<x>>) = 1 /\ <<x>>[1] = x
    OBVIOUS
<1>2. RecordItems(<<>>) = <<>>
    BY <1>1 DEF RecordItems
<1>3. IndexItems(index, 0) = <<>>
    BY DEF IndexItems
<1>4. Laid(items, <<>>, <<x>>)
    BY <1>1 DEF Laid
<1> QED
    BY <1>1, <1>2, <1>3, <1>4

\* write_table starts with nothing written.
LEMMA NewWriterOK ==
    ASSUME NEW recs \in Seq(TableRecord)
    PROVE  WriterOK(NewWriter(recs), <<>>, <<0>>, <<>>, <<0>>)
<1> DEFINE w == NewWriter(recs)
<1>1. /\ w.left = recs /\ w.offset = 0 /\ w.block_start = 0 /\ w.sparse_index = <<>>
      /\ w.filter = NewFilter(Len(recs)) /\ w.indexed = 0 /\ w.index_size = 0
      /\ w.out = [items |-> <<>>, length |-> 0]
    BY DEF NewWriter
<1>2. WriterShape(w)
    BY DEF WriterShape, NewWriter
<1>3. FilterOK(NewFilter(Len(recs)), <<>>)
    <2> DEFINE f == NewFilter(Len(recs))
    <2>1. /\ f = [bits |-> f.bits, num_bits |-> f.num_bits, num_probes |-> f.num_probes]
          /\ f.num_bits = NumWords(Len(recs)) * WordBits
        BY DEF NewFilter
    <2>2. PICK n \in Nat : n = Len(recs)
        BY LenProperties
    <2>3. n * BitsPerKey \in Nat
        BY BloomFilterAssumption
    <2>4. PICK m \in Nat : m = AtLeast(n * BitsPerKey, WordBits) + WordBits - 1
        <3> DEFINE b == n * BitsPerKey
        <3>1. b \in Nat
            BY <2>3
        <3> HIDE DEF b
        <3>2. AtLeast(b, WordBits) + WordBits - 1 \in Nat
            BY <3>1, BloomFilterAssumption DEF AtLeast
        <3> QED
            BY <3>2 DEF b
    <2>5. PICK q \in Nat : q = m \div WordBits
        BY BloomFilterAssumption
    <2>6. NumWords(n) = q
        BY <2>4, <2>5 DEF NumWords
    <2>7. q * WordBits \in Nat
        BY BloomFilterAssumption
    <2>8. f.num_bits \in Nat
        BY <2>1, <2>2, <2>6, <2>7
    <2> QED
        BY <2>1, <2>8 DEF FilterOK
<1>4. OutOK(w.out)
    <2>1. DOMAIN w.out.items = {} /\ w.out.length = 0
        BY <1>1
    <2> QED
        BY <2>1 DEF OutOK, SizesPositive
<1>5. Blocks(<<>>, <<0>>, <<>>, <<>>)
    <2>1. Len(<<>>) = 0 /\ <<>> \in Seq(IndexEntry) /\ <<>> \in Seq(Nat)
        OBVIOUS
    <2> QED
        BY <2>1 DEF Blocks
<1>6. /\ Laid(w.out.items, RecordItems(<<>>), <<0>>) /\ <<0>>[1] = 0
      /\ Laid(w.out.items, IndexItems(<<>>, 0), <<0>>)
    BY NoneLaid
<1>7. Len(<<>>) = 0 /\ 0 \in 0..0
    OBVIOUS
<1>8. w.out.length = 0 /\ 0 + 0 = 0
    BY <1>1
<1> HIDE DEF w
<1>9. /\ Laid(w.out.items, RecordItems(<<>>), <<0>>) /\ <<0>>[1] = 0 /\ <<0>>[Len(<<>>) + 1] = w.offset
    BY <1>1, <1>6, <1>7
<1>10. Laid(w.out.items, IndexItems(w.sparse_index, w.indexed), <<0>>)
    BY <1>1, <1>6
<1>11. <<0>>[1] = w.offset /\ <<0>>[w.indexed + 1] = w.out.length
    BY <1>1, <1>8
<1>12. w.indexed \in 0..Len(w.sparse_index) /\ (w.left # <<>> => w.indexed = 0)
       /\ w.out.length = w.offset + w.index_size /\ w.index_size \in Nat
       /\ w.block_start = w.offset
    BY <1>1, <1>7, <1>8
<1>13. Blocks(<<>>, <<0>>, w.sparse_index, <<>>) /\ FilterOK(w.filter, <<>>)
    BY <1>1, <1>3, <1>5
<1> QED
    BY <1>2, <1>4, <1>9, <1>10, <1>11, <1>12, <1>13 DEF WriterOK, w

\* write_table when it has written the records done, wherever they lie.
HasWritten(w, done) == \E off, at, ioff : WriterOK(w, done, off, at, ioff)

\* How the offsets of write_table's progress belong together.
LEMMA WriterTypes ==
    ASSUME NEW done \in Seq(TableRecord), NEW w, NEW off, NEW at, NEW ioff,
           WriterOK(w, done, off, at, ioff)
    PROVE  /\ w.offset \in Nat /\ w.out.length \in Nat /\ w.index_size \in Nat
           /\ off \in Seq(Nat) /\ Len(off) = Len(done) + 1 /\ Len(done) \in Nat
           /\ w.sparse_index \in Seq(IndexEntry)
           /\ Len(w.sparse_index) \in Nat /\ w.indexed \in 0..Len(w.sparse_index)
           /\ w.indexed = 0 => w.out.length = w.offset /\ w.index_size = 0
           /\ done # <<>> => w.offset # 0
<1> DEFINE S == {RecordItem(r) : r \in TableRecord}
           items == RecordItems(done)
           n == Len(done)
<1>1. items \in Seq(S) /\ Len(items) = n /\ n \in Nat
    BY RecordItemsType, SequenceType
<1>2. Laid(w.out.items, items, off) /\ off[1] = 0 /\ off[n + 1] = w.offset
    BY DEF WriterOK
<1>3. off \in Seq(Nat) /\ Len(off) = n + 1
    BY <1>1, <1>2 DEF Laid
<1>4. w.offset \in Nat
    BY <1>1, <1>2, <1>3, ElementOfSeq
<1>5. /\ w.sparse_index \in Seq(IndexEntry) /\ w.indexed \in 0..Len(w.sparse_index)
      /\ w.out.length \in Nat /\ w.index_size \in Nat
      /\ w.out.length = w.offset + w.index_size
      /\ ioff[1] = w.offset /\ ioff[w.indexed + 1] = w.out.length
    BY DEF WriterOK, Blocks, OutOK
<1>6. Len(w.sparse_index) \in Nat
    BY <1>5, LenProperties
<1>7. w.indexed = 0 => w.out.length = w.offset /\ w.index_size = 0
    <2> SUFFICES ASSUME w.indexed = 0 PROVE w.out.length = w.offset /\ w.index_size = 0
        OBVIOUS
    <2>1. ioff[w.indexed + 1] = ioff[1]
        OBVIOUS
    <2>2. w.out.length = w.offset
        BY <1>5, <2>1
    <2>3. PICK a \in Nat : a = w.offset
        BY <1>4
    <2>4. PICK b \in Nat : b = w.index_size
        BY <1>5
    <2>5. a = a + b
        BY <1>5, <2>2, <2>3, <2>4
    <2>6. b = 0
        BY <2>5
    <2> QED
        BY <2>2, <2>4, <2>6
<1>8. done # <<>> => w.offset # 0
    <2> SUFFICES ASSUME done # <<>> PROVE w.offset # 0
        OBVIOUS
    <2>1. n # 0
        BY EmptySeq
    <2> DEFINE i == 1
               j == n + 1
    <2>2. i \in 1..Len(items) + 1 /\ j \in 1..Len(items) + 1 /\ i < j
        BY <1>1, <2>1
    <2> HIDE DEF i, j, items, n, S
    <2>3. off[i] < off[j]
        BY <1>1, <1>2, <2>2, LaidIncreases
    <2>4. off[i] = 0 /\ off[j] = w.offset
        BY <1>2 DEF i, j
    <2> QED
        BY <1>4, <2>3, <2>4
<1> QED
    BY <1>1, <1>3, <1>4, <1>5, <1>6, <1>7, <1>8

\* One turn of the loop over the records writes the next of them, puts it into the
\* index if it begins a block, and into the filter.
LEMMA WriteRecordOK ==
    ASSUME NEW done \in Seq(TableRecord), NEW w, HasWritten(w, done),
           w.left \in Seq(TableRecord), w.left # <<>>
    PROVE  /\ HasWritten(WriteRecord(w), Append(done, Head(w.left)))
           /\ WriteRecord(w).left = Tail(w.left)
<1> DEFINE r == Head(w.left)
           new == WriteRecord(w)
           item == RecordItem(r)
           S == {RecordItem(x) : x \in TableRecord}
           items == RecordItems(done)
           n == Len(done)
           top == w.out.length + item.size
<1>1. r \in TableRecord
    BY HeadTailProperties
<1>2. PICK off, at, ioff : WriterOK(w, done, off, at, ioff)
    BY DEF HasWritten
<1>3. /\ w.offset \in Nat /\ off \in Seq(Nat) /\ Len(off) = n + 1 /\ n \in Nat
      /\ w.indexed = 0 /\ w.out.length = w.offset /\ w.index_size = 0
      /\ w.sparse_index \in Seq(IndexEntry) /\ (done # <<>> => w.offset # 0)
    <2>1. w.indexed = 0
        BY <1>2 DEF WriterOK
    <2> QED
        BY <1>2, <2>1, WriterTypes
<1>4. /\ new.left = Tail(w.left) /\ new.offset = w.offset + RecordSize(r)
      /\ new.sparse_index = IF w.block_start = w.offset
            THEN Append(w.sparse_index, [key |-> r.key, offset |-> w.offset])
            ELSE w.sparse_index
      /\ new.filter = Insert(w.filter, HashOf[r.key])
      /\ new.min_key = (IF w.offset = 0 THEN r.key ELSE w.min_key) /\ new.max_key = r.key
      /\ new.indexed = w.indexed /\ new.index_size = w.index_size
      /\ new.out = Emit(w.out, item)
    BY DEF WriteRecord, InsertRecord
<1>5. WriterShape(new)
    BY DEF WriterShape, WriteRecord
<1>6. /\ item \in S /\ item.size \in Nat \ {0} /\ RecordSize(r) = item.size
      /\ top \in Nat /\ new.offset = top
    <2>1. /\ item \in S /\ item.size \in Nat \ {0} /\ RecordSize(r) = item.size
        BY <1>1, ItemSizes
    <2> HIDE DEF item, S, new, r
    <2> QED
        BY <1>3, <1>4, <2>1
<1>7. /\ items \in Seq(S) /\ Len(items) = n
      /\ RecordItems(Append(done, r)) = Append(items, item)
      /\ Append(done, r) \in Seq(TableRecord) /\ Append(done, r) # <<>>
      /\ Len(Append(done, r)) = n + 1
      /\ \A i \in 1..n : Append(done, r)[i] = done[i]
      /\ Append(done, r)[n + 1] = r
    BY <1>1, RecordItemsType, AppendRecord
<1> HIDE DEF r, new, item, S, items, n, top
<1>8. /\ OutOK(w.out) /\ Laid(w.out.items, items, off) /\ off[n + 1] = w.out.length
      /\ off[1] = 0
    BY <1>2, <1>3 DEF WriterOK, items, n
<1>9. OutOK(new.out) /\ new.out.length = top /\ w.out.length \notin DOMAIN w.out.items
    BY <1>4, <1>6, <1>8, EmitOK DEF top
<1>10. /\ Laid(new.out.items, Append(items, item), Append(off, top))
       /\ Append(off, top)[1] = off[1]
    <2> DEFINE out == w.out
    <2>1. Laid(out.items, items, off) /\ off[Len(items) + 1] = out.length
        BY <1>7, <1>8
    <2>2. out.length \notin DOMAIN out.items
        BY <1>9
    <2>3. items \in Seq(S) /\ item \in S /\ item.size \in Nat \ {0}
        BY <1>6, <1>7
    <2> HIDE DEF out
    <2>4. /\ Laid(Emit(out, item).items, Append(items, item), Append(off, out.length + item.size))
          /\ Append(off, out.length + item.size)[1] = off[1]
        BY <2>1, <2>2, <2>3, LaidGrows
    <2> QED
        BY <1>4, <2>4 DEF top, out
<1>11. Append(off, top)[n + 2] = top
    BY <1>3, <1>6, AppendProperties
<1>12. Laid(new.out.items, IndexItems(new.sparse_index, 0), <<top>>) /\ <<top>>[1] = top
    BY <1>6, NoneLaid
<1>13. FilterOK(new.filter, Append(done, r))
    <2>1. FilterOK(w.filter, done)
        BY <1>2 DEF WriterOK
    <2> QED
        BY <1>1, <1>4, <2>1, InsertOK
<1>14. new.min_key = Append(done, r)[1].key /\ new.max_key = Append(done, r)[n + 1].key
    <2>1. CASE done = <<>>
        <3>1. n = 0 /\ w.offset = 0
            BY <1>2, <2>1 DEF WriterOK, n
        <3> QED
            BY <1>4, <1>7, <3>1
    <2>2. CASE done # <<>>
        <3>1. n # 0 /\ 1 \in 1..n
            BY <1>3, <2>2, EmptySeq DEF n
        <3>2. w.min_key = done[1].key
            BY <1>2, <2>2 DEF WriterOK
        <3> QED
            BY <1>3, <1>4, <1>7, <2>2, <3>1, <3>2
    <2> QED
        BY <2>1, <2>2
<1>15. \E a : Blocks(Append(done, r), Append(off, top), new.sparse_index, a)
    <2>1. Blocks(done, off, w.sparse_index, at)
        BY <1>2 DEF WriterOK
    <2>2. CASE w.block_start = w.offset
        <3>1. off[Len(done) + 1] = w.offset
            BY <1>2 DEF WriterOK
        <3>2. Blocks(Append(done, r), Append(off, top),
                     Append(w.sparse_index, [key |-> r.key, offset |-> w.offset]),
                     Append(at, Len(done) + 1))
            BY <1>1, <1>3, <1>6, <2>1, <3>1, BlocksBegin DEF n
        <3> QED
            BY <1>4, <2>2, <3>2
    <2>3. CASE w.block_start # w.offset
        <3>1. done # <<>>
            BY <1>2, <2>3 DEF WriterOK
        <3>2. Blocks(Append(done, r), Append(off, top), w.sparse_index, at)
            BY <1>1, <1>3, <1>6, <2>1, <3>1, BlocksContinue DEF n
        <3> QED
            BY <1>4, <2>3, <3>2
    <2> QED
        BY <2>2, <2>3
<1>16. PICK a : Blocks(Append(done, r), Append(off, top), new.sparse_index, a)
    BY <1>15
<1>17. new.indexed \in 0..Len(new.sparse_index)
    <2>1. new.sparse_index \in Seq(IndexEntry)
        BY <1>16 DEF Blocks
    <2>2. Len(new.sparse_index) \in Nat
        BY <2>1, LenProperties
    <2> QED
        BY <1>3, <1>4, <2>2
<1>18. /\ new.indexed = 0 /\ new.index_size = 0 /\ new.offset = top /\ top + 0 = top
       /\ <<top>>[0 + 1] = top
    BY <1>3, <1>4, <1>6, <1>12
<1>19. Append(off, top)[Len(Append(done, r)) + 1] = top
    BY <1>3, <1>7, <1>11
<1>20. WriterOK(new, Append(done, r), Append(off, top), a, <<top>>)
    BY <1>5, <1>7, <1>8, <1>9, <1>10, <1>12, <1>13, <1>14, <1>16, <1>17, <1>18, <1>19
    DEF WriterOK
<1> QED
    BY <1>4, <1>20 DEF HasWritten, new, r

\* One more index entry is one more item.
LEMMA AppendIndexItem ==
    ASSUME NEW index \in Seq(IndexEntry), NEW n \in Nat, n < Len(index)
    PROVE  IndexItems(index, n + 1) = Append(IndexItems(index, n), IndexItem(index[n + 1]))
<1> DEFINE S == {IndexItem(x) : x \in IndexEntry}
           old == IndexItems(index, n)
           new == IndexItems(index, n + 1)
           e == IndexItem(index[n + 1])
<1>1. n \in 0..Len(index) /\ n + 1 \in 0..Len(index) /\ n + 1 \in 1..Len(index)
    BY LenProperties
<1>2. old \in Seq(S) /\ Len(old) = n /\ \A b \in 1..n : old[b] = IndexItem(index[b])
    BY <1>1, IndexItemsType
<1>3. new \in Seq(S) /\ Len(new) = n + 1 /\ \A b \in 1..n + 1 : new[b] = IndexItem(index[b])
    BY <1>1, IndexItemsType
<1>4. e \in S
    BY <1>1, ElementOfSeq
<1> HIDE DEF S, old, new, e
<1>5. /\ Append(old, e) \in Seq(S) /\ Len(Append(old, e)) = n + 1
      /\ \A b \in 1..n : Append(old, e)[b] = old[b]
      /\ Append(old, e)[n + 1] = e
    BY <1>2, <1>4, AppendProperties
<1>6. \A b \in 1..n + 1 : new[b] = Append(old, e)[b]
    BY <1>2, <1>3, <1>5 DEF e
<1>7. new = Append(old, e)
    BY <1>3, <1>5, <1>6, SeqEqual
<1> QED
    BY <1>7 DEF new, old, e

\* One turn of the loop over the index leaves the records where they are.
LEMMA WriteIndexEntryOK ==
    ASSUME NEW done \in Seq(TableRecord), NEW w, HasWritten(w, done),
           w.left = <<>>, w.indexed < Len(w.sparse_index)
    PROVE  HasWritten(WriteIndexEntry(w), done) /\ WriteIndexEntry(w).left = w.left
<1> DEFINE index == w.sparse_index
           n == w.indexed
           e == index[n + 1]
           item == IndexItem(e)
           new == WriteIndexEntry(w)
           out == w.out
           top == out.length + item.size
           S == {IndexItem(x) : x \in IndexEntry}
           items == IndexItems(index, n)
<1>1. PICK off, at, ioff : WriterOK(w, done, off, at, ioff)
    BY DEF HasWritten
<1>2. /\ w.offset \in Nat /\ out.length \in Nat /\ w.index_size \in Nat
      /\ index \in Seq(IndexEntry) /\ Len(index) \in Nat /\ n \in 0..Len(index)
    BY <1>1, WriterTypes
<1>3. n \in Nat /\ n < Len(index) /\ n + 1 \in 0..Len(index) /\ n + 1 \in 1..Len(index)
    BY <1>2
<1>4. e \in IndexEntry
    BY <1>2, <1>3, ElementOfSeq
<1>5. /\ WriterShape(new)
      /\ new.left = w.left /\ new.offset = w.offset /\ new.block_start = w.block_start
      /\ new.sparse_index = w.sparse_index /\ new.filter = w.filter
      /\ new.min_key = w.min_key /\ new.max_key = w.max_key
      /\ new.indexed = n + 1 /\ new.index_size = w.index_size + IndexEntrySize(e)
      /\ new.out = Emit(out, item)
    <2>1. WriterShape(w)
        BY <1>1 DEF WriterOK
    <2> QED
        BY <2>1, WriteIndexEntryFields
<1>6. item \in S /\ item.size \in Nat \ {0} /\ IndexEntrySize(e) = item.size
    <2> HIDE DEF e
    <2> QED
        BY <1>4, ItemSizes
<1>7. top \in Nat
    <2> HIDE DEF out, item
    <2> QED
        BY <1>2, <1>6
<1>8. items \in Seq(S) /\ Len(items) = n
    BY <1>2, IndexItemsType
<1>9. IndexItems(index, n + 1) = Append(items, item)
    BY <1>2, <1>3, AppendIndexItem
<1>10. /\ OutOK(out) /\ Laid(out.items, items, ioff) /\ ioff[1] = w.offset
       /\ ioff[n + 1] = out.length /\ out.length = w.offset + w.index_size
    BY <1>1 DEF WriterOK
<1>11. Laid(out.items, RecordItems(done), off)
    BY <1>1 DEF WriterOK
<1>12. RecordItems(done) \in Seq({RecordItem(r) : r \in TableRecord})
    BY RecordItemsType
<1> HIDE DEF index, n, e, item, new, out, top, S, items
<1>13. OutOK(new.out) /\ new.out.length = top /\ out.length \notin DOMAIN out.items
    BY <1>5, <1>6, <1>10, EmitOK DEF top
<1>14. /\ Laid(new.out.items, Append(items, item), Append(ioff, top))
       /\ Append(ioff, top)[1] = ioff[1]
       /\ Append(ioff, top)[n + 2] = top
    <2>1. /\ Laid(out.items, items, ioff) /\ ioff[Len(items) + 1] = out.length
          /\ out.length \notin DOMAIN out.items
          /\ items \in Seq(S) /\ item \in S /\ item.size \in Nat \ {0}
        BY <1>6, <1>8, <1>10, <1>13
    <2>2. /\ Laid(Emit(out, item).items, Append(items, item), Append(ioff, out.length + item.size))
          /\ Append(ioff, out.length + item.size)[1] = ioff[1]
        BY <2>1, LaidGrows
    <2>3. ioff \in Seq(Nat) /\ Len(ioff) = n + 1
        BY <1>8, <1>10 DEF Laid
    <2>4. Append(ioff, top)[n + 2] = top
        BY <1>3, <1>7, <2>3, AppendProperties
    <2> QED
        BY <1>5, <2>2, <2>4 DEF top
<1>15. Laid(new.out.items, RecordItems(done), off)
    BY <1>5, <1>11, <1>12, <1>13, LaidStays
<1>16. new.out.length = new.offset + new.index_size /\ new.index_size \in Nat
    <2>1. PICK a \in Nat : a = w.offset
        BY <1>2
    <2>2. PICK b \in Nat : b = w.index_size
        BY <1>2
    <2>3. PICK c \in Nat : c = item.size
        BY <1>6
    <2>4. new.out.length = a + b + c /\ new.offset = a /\ new.index_size = b + c
        BY <1>5, <1>6, <1>10, <1>13, <2>1, <2>2, <2>3 DEF top
    <2> QED
        BY <2>4
<1>17. Append(ioff, top)[new.indexed + 1] = new.out.length
    <2>1. new.indexed + 1 = n + 2
        BY <1>3, <1>5
    <2> QED
        BY <1>13, <1>14, <2>1
<1>18. /\ off[1] = 0 /\ off[Len(done) + 1] = new.offset
       /\ Blocks(done, off, new.sparse_index, at)
       /\ done = <<>> => new.block_start = new.offset
       /\ FilterOK(new.filter, done)
       /\ done # <<>> => new.min_key = done[1].key /\ new.max_key = done[Len(done)].key
    BY <1>1, <1>5 DEF WriterOK
<1>19. /\ new.indexed \in 0..Len(new.sparse_index) /\ new.left = <<>>
       /\ Laid(new.out.items, IndexItems(new.sparse_index, new.indexed), Append(ioff, top))
       /\ Append(ioff, top)[1] = new.offset
    BY <1>3, <1>5, <1>9, <1>10, <1>14 DEF index
<1>20. WriterOK(new, done, off, at, Append(ioff, top))
    BY <1>5, <1>13, <1>15, <1>16, <1>17, <1>18, <1>19 DEF WriterOK
<1> QED
    BY <1>5, <1>20 DEF HasWritten, new

\* A table that holds recs, in its file as in its writer's memory.
TableOK(t, recs) ==
    /\ \E off, at : DataLaid(t, recs, off, at)
    /\ \E ioff : TailLaid(t, ioff)
    /\ Admits(t, recs)
    /\ t.sparse_index \in Seq(IndexEntry)
    /\ SizesPositive(t.file.items)
    /\ t.file.length \in Nat

\* When both loops are through, the file has the records, the index, the filter and
\* the key range where the trailer says.
LEMMA WrittenOK ==
    ASSUME NEW recs \in Seq(TableRecord), recs # <<>>, NEW w, HasWritten(w, recs), AllLaid(w)
    PROVE  TableOK(Written(w), recs)
<1> DEFINE t == Written(w)
           filter == FilterItem(w.filter)
           range == RangeItem(w.min_key, w.max_key)
           out == w.out
           mid == Emit(out, filter)
           last == Emit(mid, range)
           n == Len(recs)
           m == Len(w.sparse_index)
<1>1. PICK off, at, ioff : WriterOK(w, recs, off, at, ioff)
    BY DEF HasWritten
<1>2. /\ w.offset \in Nat /\ out.length \in Nat /\ w.index_size \in Nat
      /\ w.sparse_index \in Seq(IndexEntry) /\ m \in Nat /\ m \in 0..m
    BY <1>1, WriterTypes
<1>3. /\ t.file.items = last.items /\ t.file.length = last.length + 32
      /\ t.file.trailer.index_start = w.offset
      /\ t.file.trailer.filter_start = w.offset + w.index_size
      /\ t.file.trailer.meta_start = w.offset + w.index_size + FilterSize(w.filter)
      /\ t.sparse_index = w.sparse_index /\ t.index_start = w.offset /\ t.filter = w.filter
      /\ t.min_key = w.min_key /\ t.max_key = w.max_key
    BY DEF Written, Trailer, TrailerSize
<1>4. t = [file |-> t.file, sparse_index |-> t.sparse_index, index_start |-> t.index_start,
           filter |-> t.filter, min_key |-> t.min_key, max_key |-> t.max_key]
    BY DEF Written
<1>5. /\ OutOK(out) /\ Laid(out.items, RecordItems(recs), off)
      /\ off[n + 1] = w.offset
      /\ Blocks(recs, off, w.sparse_index, at)
      /\ Laid(out.items, IndexItems(w.sparse_index, m), ioff)
      /\ ioff[1] = w.offset /\ ioff[m + 1] = out.length
      /\ out.length = w.offset + w.index_size
      /\ FilterOK(w.filter, recs)
      /\ w.min_key = recs[1].key /\ w.max_key = recs[n].key
    BY <1>1 DEF WriterOK, AllLaid
<1>6. filter.size \in Nat \ {0} /\ filter.size = FilterSize(w.filter)
    BY <1>5, ItemSizes DEF FilterOK
<1>7. range.size \in Nat \ {0}
    <2>1. 1 \in DOMAIN recs /\ n \in DOMAIN recs
        BY SequenceType, EmptySeq
    <2>2. w.min_key \in Key /\ w.max_key \in Key
        BY <1>5, <2>1, SequenceType
    <2> QED
        BY <2>2, ItemSizes
<1> HIDE DEF filter, range, out, t
<1>8. /\ OutOK(mid) /\ out.length \notin DOMAIN out.items
      /\ mid.length = out.length + filter.size
      /\ DOMAIN mid.items = DOMAIN out.items \cup {out.length}
      /\ mid.items[out.length] = filter
    BY <1>5, <1>6, EmitOK
<1>9. /\ Laid(mid.items, RecordItems(recs), off)
      /\ Laid(mid.items, IndexItems(w.sparse_index, m), ioff)
    BY <1>2, <1>5, <1>8, RecordItemsType, IndexItemsType, LaidStays
<1> HIDE DEF mid
<1>10. /\ OutOK(last) /\ mid.length \notin DOMAIN mid.items
       /\ DOMAIN last.items = DOMAIN mid.items \cup {mid.length}
       /\ last.items[mid.length] = range
       /\ \A x \in DOMAIN mid.items : last.items[x] = mid.items[x]
    BY <1>7, <1>8, EmitOK
<1>11. /\ Laid(last.items, RecordItems(recs), off)
       /\ Laid(last.items, IndexItems(w.sparse_index, m), ioff)
    BY <1>2, <1>9, <1>10, RecordItemsType, IndexItemsType, LaidStays
<1> HIDE DEF last
<1>12. DataLaid(t, recs, off, at)
    BY <1>3, <1>5, <1>10, <1>11 DEF DataLaid, OutOK
<1>13. /\ t.file.trailer.filter_start = out.length
       /\ t.file.trailer.meta_start = mid.length
    BY <1>3, <1>5, <1>6, <1>8
<1>14. /\ t.file.trailer.filter_start \in DOMAIN t.file.items
       /\ t.file.items[t.file.trailer.filter_start] = FilterItem(t.filter)
       /\ t.file.trailer.meta_start \in DOMAIN t.file.items
       /\ t.file.items[t.file.trailer.meta_start] = RangeItem(t.min_key, t.max_key)
    BY <1>3, <1>8, <1>10, <1>13 DEF filter, range
<1>15. TailLaid(t, ioff)
    BY <1>3, <1>4, <1>5, <1>11, <1>13, <1>14 DEF TailLaid
<1>16. Admits(t, recs)
    BY <1>3, <1>5 DEF Admits, FilterOK
<1>17. t.file.length \in Nat
    BY <1>3, <1>10 DEF OutOK
<1>18. SizesPositive(t.file.items) /\ t.sparse_index \in Seq(IndexEntry)
    BY <1>2, <1>3, <1>10 DEF OutOK
<1> QED
    BY <1>12, <1>15, <1>16, <1>17, <1>18 DEF TableOK, t
=============================================================================
