------------------------------ MODULE Records -------------------------------
(***************************************************************************)
(* Tables as sequences of records in key order, which is how they are      *)
(* written and iterated.  Keys are numbers, their order that of the byte   *)
(* strings.                                                                *)
(***************************************************************************)
EXTENDS Layers

ASSUME RecordsAssumption == Key \subseteq Nat

TableRecord == [key : Key, entry : Value \cup {Tombstone}]

Sorted(records) ==
    \A i, j \in DOMAIN records : i < j => records[i].key < records[j].key

\* Such a sequence as the content of a table.
Places(records, k) == {i \in DOMAIN records : records[i].key = k}

ContentOf(records) ==
    [k \in Key |-> IF Places(records, k) = {} THEN None
                   ELSE records[CHOOSE i \in Places(records, k) : TRUE].entry]
=============================================================================
