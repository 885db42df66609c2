------------------------------ MODULE TableFile ------------------------------
(***************************************************************************)
(* An SSTable file: what write_table lays out, what SSTable::open reads    *)
(* back, and the two ways through it, the lookup of one key and the        *)
(* iteration over all records.  A file is a function from byte offsets to  *)
(* the items that begin there; an item is abstracted to what it holds and  *)
(* how many bytes it takes.  Reading where no item begins fails.           *)
(***************************************************************************)
EXTENDS Records, BloomFilter

CONSTANTS
    KeySize,    \* the bytes of a key
    ValueSize,  \* the bytes of a value
    BlockSize,  \* BLOCK_SIZE: a block ends with the record that reaches it
    HashOf      \* hash64

ASSUME TableFileAssumption ==
    /\ KeySize \in [Key -> Nat]
    /\ ValueSize \in [Value -> Nat]
    /\ BlockSize \in Nat \ {0}
    /\ HashOf \in [Key -> Hash]

TrailerSize == 32

\* [key_len: u32][key][value_len: u32][value][op_type: u8]
RecordSize(r) ==
    9 + KeySize[r.key] + (IF r.entry = Tombstone THEN 0 ELSE ValueSize[r.entry])

\* [key_len: u32][key][offset: u64]
IndexEntrySize(e) == 12 + KeySize[e.key]

\* [num_bits: u64][num_probes: u32] and the words
FilterSize(filter) == 12 + (filter.num_bits \div WordBits) * 8

\* What a file is made of.  The size of an item is the bytes it takes.
RecordItem(r) == [kind |-> "record", record |-> r, size |-> RecordSize(r)]
IndexItem(e)  == [kind |-> "index", entry |-> e, size |-> IndexEntrySize(e)]
FilterItem(f) == [kind |-> "filter", filter |-> f, size |-> FilterSize(f)]
RangeItem(min_key, max_key) ==
    [kind |-> "range", min_key |-> min_key, max_key |-> max_key,
     size |-> 8 + KeySize[min_key] + KeySize[max_key]]

-----------------------------------------------------------------------------
(* write_table.                                                            *)

\* BufWriter: the bytes go behind those already written.
Emit(out, item) ==
    [items |-> [pos \in DOMAIN out.items \cup {out.length} |->
                    IF pos = out.length THEN item ELSE out.items[pos]],
     length |-> out.length + item.size]

\* Nothing written yet.
NewWriter(records) ==
    [left |-> records, offset |-> 0, block_start |-> 0, sparse_index |-> <<>>,
     filter |-> NewFilter(Len(records)), min_key |-> None, max_key |-> None,
     indexed |-> 0, index_size |-> 0, out |-> [items |-> <<>>, length |-> 0]]

\* Mutant: a tombstone is not entered in the filter.
InsertValue(filter, r) == IF r.entry = Tombstone THEN filter ELSE Insert(filter, HashOf[r.key])

InsertRecord(filter, r) == Insert(filter, HashOf[r.key])

\* One turn of the loop over the records.  A record is indexed if it begins a
\* block; a block ends with the record that brings it to BlockSize.
WriteRecord(w) ==
    LET r == Head(w.left)
        next == w.offset + RecordSize(r)
        begins_block == w.block_start = w.offset
    IN [left         |-> Tail(w.left),
        offset       |-> next,
        block_start  |-> IF next - w.block_start >= BlockSize THEN next ELSE w.block_start,
        sparse_index |-> IF begins_block
                         THEN Append(w.sparse_index, [key |-> r.key, offset |-> w.offset])
                         ELSE w.sparse_index,
        filter       |-> InsertRecord(w.filter, r),
        min_key      |-> IF w.offset = 0 THEN r.key ELSE w.min_key,
        max_key      |-> r.key,
        indexed      |-> w.indexed,
        index_size   |-> w.index_size,
        out          |-> Emit(w.out, RecordItem(r))]

\* One turn of the loop over the index.
WriteIndexEntry(w) ==
    LET e == w.sparse_index[w.indexed + 1]
    IN [w EXCEPT !.indexed = @ + 1,
                 !.index_size = @ + IndexEntrySize(e),
                 !.out = Emit(@, IndexItem(e))]

\* Both loops are through.
AllLaid(w) == w.left = <<>> /\ w.indexed = Len(w.sparse_index)

\* Mutant: the index entries are not counted when the filter is located.
TrailerIgnoringIndex(w) ==
    [index_start |-> w.offset, filter_start |-> w.offset,
     meta_start |-> w.offset + FilterSize(w.filter)]

\* The offsets of the three blocks behind the data, added up block by block.
Trailer(w) ==
    LET filter_start == w.offset + w.index_size
    IN [index_start |-> w.offset, filter_start |-> filter_start,
        meta_start |-> filter_start + FilterSize(w.filter)]

\* The finished file, and beside it what write_table keeps of it in memory.
Written(w) ==
    LET out == Emit(Emit(w.out, FilterItem(w.filter)), RangeItem(w.min_key, w.max_key))
    IN [file |-> [items |-> out.items, length |-> out.length + TrailerSize,
                  trailer |-> Trailer(w)],
        sparse_index |-> w.sparse_index, index_start |-> w.offset, filter |-> w.filter,
        min_key |-> w.min_key, max_key |-> w.max_key]

-----------------------------------------------------------------------------
(* Reading.                                                                *)

Begins(file, kind, pos) == pos \in DOMAIN file.items /\ file.items[pos].kind = kind

\* Item after item from offset first up to offset last.  Where no item of the
\* kind begins the code returns an error; here the rest is missing.
ReadItems(file, kind, first, last) ==
    LET from[pos \in Nat] ==
            IF pos >= last \/ ~Begins(file, kind, pos) THEN <<>>
            ELSE <<file.items[pos]>> \o from[pos + file.items[pos].size]
    IN from[first]

-----------------------------------------------------------------------------
(* SSTable::open.                                                          *)

ReadIndex(file) ==
    LET items == ReadItems(file, "index", file.trailer.index_start, file.trailer.filter_start)
    IN [b \in DOMAIN items |-> items[b].entry]

\* {} when a block is not where the trailer says: open returns an error.
OpenTable(file) ==
    LET filter_start == file.trailer.filter_start
        meta_start == file.trailer.meta_start
    IN IF Begins(file, "filter", filter_start) /\ Begins(file, "range", meta_start)
       THEN {[file |-> file, sparse_index |-> ReadIndex(file),
              index_start |-> file.trailer.index_start,
              filter |-> file.items[filter_start].filter,
              min_key |-> file.items[meta_start].min_key,
              max_key |-> file.items[meta_start].max_key]}
       ELSE {}

-----------------------------------------------------------------------------
(* Lookup and iteration.                                                   *)

BlockStart(table, b) == table.sparse_index[b].offset

BlockEnd(table, b) ==
    IF b < Len(table.sparse_index) THEN table.sparse_index[b + 1].offset ELSE table.index_start

\* The records of one block, in file order.
Block(table, b) ==
    LET items == ReadItems(table.file, "record", BlockStart(table, b), BlockEnd(table, b))
    IN [i \in DOMAIN items |-> items[i].record]

\* Records: block after block.
RecordsOf(table) ==
    LET upTo[b \in 0..Len(table.sparse_index)] == IF b = 0 THEN <<>> ELSE upTo[b - 1] \o Block(table, b)
    IN upTo[Len(table.sparse_index)]

\* partition_point: the last block that begins with a key up to k, 0 for none.
CandidateBlock(table, k) == Cardinality({b \in DOMAIN table.sparse_index :
                                           table.sparse_index[b].key <= k})

\* The forward scan of a block: it stops at the first key that is not smaller.
ScanBlock(table, b, k) ==
    LET block == Block(table, b)
        reached == {i \in DOMAIN block : block[i].key >= k}
        first == CHOOSE i \in reached : \A j \in reached : i <= j
    IN IF reached # {} /\ block[first].key = k THEN block[first].entry ELSE None

\* SSTable::get.  None: this table has no record for k.
TableGet(table, k) ==
    IF /\ k >= table.min_key /\ k <= table.max_key
       /\ MayContain(table.filter, HashOf[k])
       /\ CandidateBlock(table, k) > 0
    THEN ScanBlock(table, CandidateBlock(table, k), k)
    ELSE None
=============================================================================
