----------------------------- MODULE BloomFilter -----------------------------
(***************************************************************************)
(* The bloom filter of a table: a bit array whose size and number of       *)
(* probes follow from the number of keys and Config::bits_per_key, and     *)
(* double hashing over the two halves of one 64-bit hash.  hash64 itself   *)
(* is a parameter: nothing here depends on how well it mixes, only on its  *)
(* giving the same answer when a table is written and when it is read.     *)
(***************************************************************************)
EXTENDS Naturals

CONSTANTS
    BitsPerKey,     \* Config::bits_per_key
    WordBits        \* the bits of one word: 64 in the code

ASSUME BloomFilterAssumption == BitsPerKey \in Nat /\ WordBits \in Nat \ {0}

\* A hash, as its two 32-bit halves.
Hash == [low : Nat, high : Nat]

AtLeast(n, floor) == IF n < floor THEN floor ELSE n
AtMost(n, ceiling) == IF n > ceiling THEN ceiling ELSE n

NumWords(num_keys) == (AtLeast(num_keys * BitsPerKey, WordBits) + WordBits - 1) \div WordBits

\* bits_per_key * ln 2, rounded, clamped to 1..30.
NumProbes == AtMost(AtLeast((BitsPerKey * 6931 + 5000) \div 10000, 1), 30)

NewFilter(num_keys) ==
    [bits |-> {}, num_bits |-> NumWords(num_keys) * WordBits, num_probes |-> NumProbes]

\* The stride is made odd.
Probe(filter, hash, i) ==
    LET stride == IF hash.high % 2 = 0 THEN hash.high + 1 ELSE hash.high
    IN (hash.low + i * stride) % filter.num_bits

Probes(filter, hash) == {Probe(filter, hash, i) : i \in 0..(filter.num_probes - 1)}

Insert(filter, hash) == [filter EXCEPT !.bits = @ \cup Probes(filter, hash)]

MayContain(filter, hash) == Probes(filter, hash) \subseteq filter.bits
=============================================================================
