----------------------------- MODULE GYHashTable -----------------------------
(***************************************************************************)
(* CommonDefine/GYHashTable.h: a fixed table of rows of buckets.  A key is  *)
(* three hash values: two of them say where to look, the third is compared  *)
(* instead of the key itself.  Insert takes the empty bucket nearest to     *)
(* where the key belongs and never looks for the key, Remove and Find take  *)
(* the nearest bucket that has the key.                                     *)
(*                                                                          *)
(* _HashFunction1 also reads the byte behind the key (its loop runs to      *)
(* i <= len): whatever byte the stack has there helps to choose the row.    *)
(*                                                                          *)
(* A table is a function from rows to NULL (a row CleanUp has dropped) or   *)
(* to a function from buckets to [key, value]; key NULL marks a free bucket.*)
(***************************************************************************)
EXTENDS Integers, FiniteSets

CONSTANTS
    NULL,           \* GYNULL, and the key of a free bucket
    Rows,           \* 0 .. m_nTableSize - 1
    Buckets,        \* 0 .. m_nBucketSize - 1
    RowOf(_, _),    \* _HashFunction1 of a key and a stray byte, masked
    BucketOf(_)     \* _HashFunction2 of a key, masked

(* The tables that map the given keys to the given values. *)
Tables(keys, values) ==
    [Rows -> [Buckets -> [key : keys \cup {NULL}, value : values \cup {NULL}]] \cup {NULL}]

EmptyRow == [b \in Buckets |-> [key |-> NULL, value |-> NULL]]

NewTable == [r \in Rows |-> EmptyRow]

(* CleanUp empties the buckets and then drops every row. *)
CleanedUp == [r \in Rows |-> NULL]

(* Where _FindPosition stops: going outwards from b, the lower side first. *)
FindPosition(row, b, key) ==
    LET at(i) == row[i].key = key
        distance == {i \in Buckets : (b - i \in Buckets /\ at(b - i))
                                  \/ (b + i \in Buckets /\ at(b + i))}
        i == CHOOSE i \in distance : \A j \in distance : i <= j
    IN  IF distance = {} THEN NULL
        ELSE IF b - i \in Buckets /\ at(b - i) THEN b - i ELSE b + i

Position(table, key, wanted, stray) ==
    IF table[RowOf(key, stray)] = NULL THEN NULL
    ELSE FindPosition(table[RowOf(key, stray)], BucketOf(key), wanted)

(* Mutant of Insert: the bucket the key belongs in, free or not. *)
InsertInPlace(table, key, value, stray) ==
    IF table[RowOf(key, stray)] = NULL THEN table
    ELSE [table EXCEPT ![RowOf(key, stray)][BucketOf(key)] =
                            [key |-> key, value |-> value]]

Insert(table, key, value, stray) ==
    LET b == Position(table, key, NULL, stray)
    IN  IF b = NULL THEN table
        ELSE [table EXCEPT ![RowOf(key, stray)][b] = [key |-> key, value |-> value]]

(* Mutant of Remove: the bucket the key belongs in, whoever is in it. *)
RemoveInPlace(table, key, stray) ==
    IF table[RowOf(key, stray)] = NULL THEN table
    ELSE [table EXCEPT ![RowOf(key, stray)][BucketOf(key)] =
                            [key |-> NULL, value |-> NULL]]

(* The value stays in the freed bucket; nothing reads it there. *)
Remove(table, key, stray) ==
    LET b == Position(table, key, key, stray)
    IN  IF b = NULL THEN table
        ELSE [table EXCEPT ![RowOf(key, stray)][b] = [key |-> NULL, value |-> NULL]]

Find(table, key, stray) ==
    LET b == Position(table, key, key, stray)
    IN  IF b = NULL THEN NULL ELSE table[RowOf(key, stray)][b].value

(* The entries <<key, value>> of the table. *)
Entries(table) ==
    LET full == {rb \in Rows \X Buckets :
                    table[rb[1]] # NULL /\ table[rb[1]][rb[2]].key # NULL}
    IN  {<<table[rb[1]][rb[2]].key, table[rb[1]][rb[2]].value>> : rb \in full}
=============================================================================
