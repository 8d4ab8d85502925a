------------------------- MODULE GYHashTable_proofs -------------------------
(***************************************************************************)
(* What the hash table does for any size, any keys and any hash functions,  *)
(* as long as the byte behind a key is the same each time (_HashFunction1   *)
(* reads it): with a free bucket in the row of a key, Insert enters it and  *)
(* disturbs nothing else, Find finds what is there and nothing else, and    *)
(* Remove removes it.                                                       *)
(***************************************************************************)
EXTENDS GYHashTable, FiniteSetTheorems, WellFoundedInduction, TLAPS

(* The buckets are numbered, as they are in the array of a row. *)
Numbered == \E n \in Nat \ {0} : Buckets = 0 .. n - 1

(* The row of a key is in the table and does not depend on the stray byte. *)
Steady(keys, strays) ==
    \A k \in keys : /\ BucketOf(k) \in Buckets
                    /\ \A x \in strays : RowOf(k, x) \in Rows
                    /\ \A x, y \in strays : RowOf(k, x) = RowOf(k, y)

RowType(keys, values) ==
    [Buckets -> [key : keys \cup {NULL}, value : values \cup {NULL}]]

(* No row has been dropped, every key is where it belongs, with a value, and *)
(* in one bucket only.                                                       *)
Sound(table, keys, values, strays) ==
    /\ table \in [Rows -> RowType(keys, values)]
    /\ \A r \in Rows, b \in Buckets : table[r][b].key # NULL =>
            /\ table[r][b].value # NULL
            /\ \A x \in strays : RowOf(table[r][b].key, x) = r
    /\ \A r \in Rows, b, c \in Buckets :
            table[r][b].key # NULL /\ table[r][b].key = table[r][c].key => b = c

(* Some bucket of the table has the key and the value of e. *)
InBucket(table, e) ==
    \E r \in Rows, b \in Buckets : /\ table[r][b].key # NULL
                                   /\ e = <<table[r][b].key, table[r][b].value>>

(* The key k, with the value v, may be written in row r; NULL may always be. *)
Belongs(table, strays, r, k, v) ==
    k # NULL => /\ v # NULL
                /\ \A x \in strays : RowOf(k, x) = r
                /\ \A c \in Buckets : table[r][c].key # k

(* The table new is the table but for bucket b of row r. *)
Wrote(new, table, r, b, k, v) ==
    \A q \in Rows, c \in Buckets :
        new[q][c] = IF q = r /\ c = b THEN [key |-> k, value |-> v] ELSE table[q][c]

(* The key k is not in the table. *)
Absent(table, k) == \A e \in Entries(table) : e[1] # k

(* The row r has a free bucket. *)
HasFree(table, r) == \E c \in Buckets : table[r][c].key = NULL

(* The values in the table are in the set some, and each is there once. *)
ValuesOnce(table, some) ==
    /\ \A e \in Entries(table) : e[2] \in some
    /\ \A e, f \in Entries(table) : e[2] = f[2] => e = f

(* NULL is no bucket, no key, no value and no row. *)
NullApart(keys, values) ==
    NULL \notin Buckets \cup keys \cup values \cup RowType(keys, values)

-----------------------------------------------------------------------------
(* A set of numbers that is not empty has a least element. *)
LEMMA LeastElement ==
    ASSUME NEW T \in SUBSET Nat, T # {}
    PROVE  \E i \in T : \A j \in T : i <= j
  <1>1. PICK i \in T : \A j \in T : ~ (<<j, i>> \in OpToRel(<, Nat))
    BY WFMin, NatLessThanWellFounded
  <1>2. \A j \in T : ~ (j < i)
    BY <1>1 DEF OpToRel
  <1> QED
    BY <1>2

(* _FindPosition finds a bucket that has the key, when there is one, however *)
(* far it is from the bucket the key belongs in.                             *)
LEMMA FindPositionFinds ==
    ASSUME Numbered, NEW row, NEW b \in Buckets, NEW key
    PROVE  /\ (\E i \in Buckets : row[i].key = key) =>
                    /\ FindPosition(row, b, key) \in Buckets
                    /\ row[FindPosition(row, b, key)].key = key
           /\ (\A i \in Buckets : row[i].key # key) => FindPosition(row, b, key) = NULL
  <1> DEFINE at(i) == row[i].key = key
             distance == {i \in Buckets : (b - i \in Buckets /\ at(b - i))
                                       \/ (b + i \in Buckets /\ at(b + i))}
             least == CHOOSE i \in distance : \A j \in distance : i <= j
  <1>1. PICK n \in Nat \ {0} : Buckets = 0 .. n - 1
    BY DEF Numbered
  <1>2. FindPosition(row, b, key) =
            IF distance = {} THEN NULL
            ELSE IF b - least \in Buckets /\ at(b - least) THEN b - least ELSE b + least
    BY DEF FindPosition
  <1>3. ASSUME NEW i \in Buckets, row[i].key = key
        PROVE  distance # {}
    <2>1. CASE i <= b
      <3>1. b - i \in Buckets /\ b - (b - i) = i
        BY <1>1, <2>1
      <3>2. b - i \in distance
        BY <1>3, <3>1
      <3> QED
        BY <3>2
    <2>2. CASE i > b
      <3>1. i - b \in Buckets /\ b + (i - b) = i
        BY <1>1, <2>2
      <3>2. i - b \in distance
        BY <1>3, <3>1
      <3> QED
        BY <3>2
    <2> QED
      BY <1>1, <2>1, <2>2
  <1>4. distance # {} => least \in distance
    <2> HIDE DEF at
    <2>1. distance \in SUBSET Nat
      BY <1>1
    <2> QED
      BY <2>1, LeastElement
  <1>5. distance # {} => /\ FindPosition(row, b, key) \in Buckets
                         /\ row[FindPosition(row, b, key)].key = key
    <2> HIDE DEF least
    <2> QED
      BY <1>2, <1>4
  <1>6. (\A i \in Buckets : row[i].key # key) => distance = {}
    OBVIOUS
  <1> QED
    BY <1>2, <1>3, <1>5, <1>6

(* A table just made is sound and empty. *)
LEMMA NewTableSound ==
    ASSUME NEW keys, NEW values, NEW strays, NullApart(keys, values)
    PROVE  Sound(NewTable, keys, values, strays) /\ Entries(NewTable) = {}
  <1>1. NewTable \in [Rows -> RowType(keys, values)]
    BY DEF NewTable, EmptyRow, RowType
  <1>2. \A r \in Rows, b \in Buckets : NewTable[r][b].key = NULL
    BY DEF NewTable, EmptyRow
  <1>3. Sound(NewTable, keys, values, strays)
    BY <1>1, <1>2 DEF Sound
  <1> QED
    BY <1>2, <1>3 DEF Entries

(* The entries are what is in the buckets. *)
LEMMA EntryPlace ==
    ASSUME NEW keys, NEW values, NEW strays, NullApart(keys, values),
           NEW table, Sound(table, keys, values, strays), NEW e
    PROVE  e \in Entries(table) <=> InBucket(table, e)
  <1>1. \A r \in Rows : table[r] # NULL
    BY DEF Sound, NullApart
  <1>2. ASSUME e \in Entries(table)
        PROVE  InBucket(table, e)
    BY <1>2 DEF Entries, InBucket
  <1>3. ASSUME InBucket(table, e)
        PROVE  e \in Entries(table)
    <2>1. PICK r \in Rows, b \in Buckets :
            table[r][b].key # NULL /\ e = <<table[r][b].key, table[r][b].value>>
      BY <1>3 DEF InBucket
    <2>2. <<r, b>> \in Rows \X Buckets /\ <<r, b>>[1] = r /\ <<r, b>>[2] = b
      OBVIOUS
    <2> QED
      BY <1>1, <2>1, <2>2 DEF Entries
  <1> QED
    BY <1>2, <1>3

(* A key is entered once. *)
LEMMA EntryUnique ==
    ASSUME NEW keys, NEW values, NEW strays, NullApart(keys, values),
           NEW table, Sound(table, keys, values, strays), NEW x \in strays,
           NEW e \in Entries(table)
    PROVE  /\ e[1] \in keys /\ e[2] \in values /\ e = <<e[1], e[2]>>
           /\ \A f \in Entries(table) : e[1] = f[1] => e = f
  <1>1. InBucket(table, e)
    BY EntryPlace
  <1>2. PICK r \in Rows, b \in Buckets :
            table[r][b].key # NULL /\ e = <<table[r][b].key, table[r][b].value>>
    BY <1>1 DEF InBucket
  <1>3. /\ table[r][b].key \in keys
        /\ table[r][b].value \in values
        /\ RowOf(table[r][b].key, x) = r
    BY <1>2 DEF Sound, RowType
  <1>4. ASSUME NEW f \in Entries(table), e[1] = f[1]
        PROVE  e = f
    <2>1. InBucket(table, f)
      BY EntryPlace
    <2>2. PICK q \in Rows, c \in Buckets :
            table[q][c].key # NULL /\ f = <<table[q][c].key, table[q][c].value>>
      BY <2>1 DEF InBucket
    <2>3. table[q][c].key = table[r][b].key
      BY <1>2, <1>4, <2>2
    <2>4. q = r
      BY <1>3, <2>2, <2>3 DEF Sound
    <2>5. c = b
      BY <1>2, <2>3, <2>4 DEF Sound
    <2> QED
      BY <1>2, <2>2, <2>4, <2>5
  <1> QED
    BY <1>2, <1>3, <1>4

(* Find finds the value of a key that has been entered, and only that. *)
THEOREM FindFinds ==
    ASSUME Numbered, NEW keys, NEW values, NEW strays, NullApart(keys, values),
           Steady(keys, strays), NEW table, Sound(table, keys, values, strays),
           NEW k \in keys, NEW x \in strays
    PROVE  /\ \A v : <<k, v>> \in Entries(table) => Find(table, k, x) = v
           /\ (\A v : <<k, v>> \notin Entries(table)) => Find(table, k, x) = NULL
  <1> DEFINE r == RowOf(k, x)
             p == FindPosition(table[r], BucketOf(k), k)
  <1>1. r \in Rows /\ BucketOf(k) \in Buckets /\ table[r] # NULL /\ k # NULL
    BY DEF Steady, NullApart, Sound
  <1>2. Find(table, k, x) = IF p = NULL THEN NULL ELSE table[r][p].value
    BY <1>1 DEF Find, Position
  <1>3. /\ (\E i \in Buckets : table[r][i].key = k) => p \in Buckets /\ table[r][p].key = k
        /\ (\A i \in Buckets : table[r][i].key # k) => p = NULL
    BY <1>1, FindPositionFinds
  <1> HIDE DEF p
  <1>4. ASSUME NEW v, <<k, v>> \in Entries(table)
        PROVE  Find(table, k, x) = v
    <2>0. InBucket(table, <<k, v>>)
      BY <1>4, EntryPlace
    <2>1. PICK q \in Rows, c \in Buckets :
            table[q][c].key # NULL /\ <<k, v>> = <<table[q][c].key, table[q][c].value>>
      BY <2>0 DEF InBucket
    <2>2. q = r
      BY <2>1 DEF Sound
    <2>3. p \in Buckets /\ table[r][p].key = k
      BY <1>3, <2>1, <2>2
    <2>4. p = c
      <3>1. \A d, e \in Buckets :
                table[r][d].key # NULL /\ table[r][d].key = table[r][e].key => d = e
        BY <1>1 DEF Sound
      <3>2. table[r][c].key = k
        BY <2>1, <2>2
      <3> QED
        BY <1>1, <2>1, <2>3, <3>1, <3>2
    <2> QED
      BY <1>2, <2>1, <2>2, <2>3, <2>4 DEF NullApart
  <1>5. ASSUME \A v : <<k, v>> \notin Entries(table)
        PROVE  Find(table, k, x) = NULL
    <2>1. \A i \in Buckets : table[r][i].key # k
      <3> SUFFICES ASSUME NEW i \in Buckets, table[r][i].key = k
                   PROVE  FALSE
        OBVIOUS
      <3>1. InBucket(table, <<k, table[r][i].value>>)
        BY <1>1 DEF InBucket
      <3>2. <<k, table[r][i].value>> \in Entries(table)
        BY <3>1, EntryPlace
      <3> QED
        BY <1>5, <3>2
    <2> QED
      BY <1>2, <1>3, <2>1
  <1> QED
    BY <1>4, <1>5

(* Writing one bucket of one row. *)
LEMMA WriteBucket ==
    ASSUME NEW keys, NEW values, NEW strays, NullApart(keys, values),
           NEW table, Sound(table, keys, values, strays),
           NEW r \in Rows, NEW b \in Buckets,
           NEW k \in keys \cup {NULL}, NEW v \in values \cup {NULL},
           Belongs(table, strays, r, k, v),
           NEW new, new = [table EXCEPT ![r][b] = [key |-> k, value |-> v]]
    PROVE  Sound(new, keys, values, strays) /\ Wrote(new, table, r, b, k, v)
  <1>1. \A q \in Rows, c \in Buckets :
            new[q][c] = IF q = r /\ c = b THEN [key |-> k, value |-> v] ELSE table[q][c]
    BY DEF Sound, RowType
  <1>2. new \in [Rows -> RowType(keys, values)]
    BY DEF Sound, RowType
  <1>3. ASSUME NEW q \in Rows, NEW c \in Buckets, new[q][c].key # NULL
        PROVE  /\ new[q][c].value # NULL
               /\ \A x \in strays : RowOf(new[q][c].key, x) = q
    BY <1>1, <1>3 DEF Sound, Belongs
  <1>4. ASSUME NEW q \in Rows, NEW c \in Buckets, NEW d \in Buckets,
               new[q][c].key # NULL, new[q][c].key = new[q][d].key
        PROVE  c = d
    <2>1. CASE q = r /\ c = b
      BY <1>1, <1>4, <2>1 DEF Belongs
    <2>2. CASE q = r /\ d = b
      BY <1>1, <1>4, <2>2 DEF Belongs
    <2>3. CASE ~(q = r /\ c = b) /\ ~(q = r /\ d = b)
      BY <1>1, <1>4, <2>3 DEF Sound
    <2> QED
      BY <2>1, <2>2, <2>3
  <1>5. Sound(new, keys, values, strays)
    BY <1>2, <1>3, <1>4 DEF Sound
  <1> QED
    BY <1>1, <1>5 DEF Wrote

(* Insert of a key that is not there yet, when its row has a free bucket. *)
THEOREM InsertEnters ==
    ASSUME Numbered, NEW keys, NEW values, NEW strays, NullApart(keys, values),
           Steady(keys, strays), NEW table, Sound(table, keys, values, strays),
           NEW k \in keys, NEW v \in values, NEW x \in strays,
           Absent(table, k), HasFree(table, RowOf(k, x))
    PROVE  /\ Sound(Insert(table, k, v, x), keys, values, strays)
           /\ Entries(Insert(table, k, v, x)) = Entries(table) \cup {<<k, v>>}
  <1> DEFINE r == RowOf(k, x)
             b == FindPosition(table[r], BucketOf(k), NULL)
             new == [table EXCEPT ![r][b] = [key |-> k, value |-> v]]
  <1>1. r \in Rows /\ BucketOf(k) \in Buckets /\ table[r] # NULL /\ k # NULL /\ v # NULL
    BY DEF Steady, NullApart, Sound
  <1>2. b \in Buckets /\ table[r][b].key = NULL
    BY <1>1, FindPositionFinds DEF HasFree
  <1>3. Insert(table, k, v, x) = new
    BY <1>1, <1>2 DEF Insert, Position, NullApart
  <1> HIDE DEF b
  <1>4. \A c \in Buckets : table[r][c].key # k
    <2> SUFFICES ASSUME NEW c \in Buckets, table[r][c].key = k
                 PROVE  FALSE
      OBVIOUS
    <2>1. InBucket(table, <<k, table[r][c].value>>)
      BY <1>1 DEF InBucket
    <2>2. <<k, table[r][c].value>> \in Entries(table)
      BY <2>1, EntryPlace
    <2> QED
      BY <2>2 DEF Absent
  <1>5. \A y \in strays : RowOf(k, y) = r
    BY DEF Steady
  <1>6. /\ Sound(new, keys, values, strays)
        /\ \A q \in Rows, c \in Buckets :
                new[q][c] = IF q = r /\ c = b THEN [key |-> k, value |-> v] ELSE table[q][c]
    <2>1. /\ k \in keys \cup {NULL} /\ v \in values \cup {NULL}
          /\ Belongs(table, strays, r, k, v)
      BY <1>1, <1>4, <1>5 DEF Belongs
    <2>2. new = [table EXCEPT ![r][b] = [key |-> k, value |-> v]]
      OBVIOUS
    <2> HIDE DEF r, new
    <2>3. Sound(new, keys, values, strays) /\ Wrote(new, table, r, b, k, v)
      BY <1>1, <1>2, <2>1, <2>2, WriteBucket, ZenonT(60)
    <2> QED
      BY <2>3 DEF Wrote
  <1> HIDE DEF new
  <1>7. ASSUME NEW e
        PROVE  e \in Entries(new) <=> e \in Entries(table) \/ e = <<k, v>>
    <2>1. /\ e \in Entries(new) <=> InBucket(new, e)
          /\ e \in Entries(table) <=> InBucket(table, e)
      BY <1>6, EntryPlace
    <2>2. e \in Entries(table) => InBucket(table, e)
      BY <2>1
    <2>3. new[r][b].key = k /\ new[r][b].value = v
      BY <1>1, <1>2, <1>6
    <2>4. ASSUME e = <<k, v>>
          PROVE  e \in Entries(new)
      BY <1>1, <1>2, <2>1, <2>3, <2>4 DEF InBucket
    <2>5. ASSUME e \in Entries(table)
          PROVE  e \in Entries(new)
      <3>1. PICK q \in Rows, c \in Buckets :
              table[q][c].key # NULL /\ e = <<table[q][c].key, table[q][c].value>>
        BY <2>2, <2>5 DEF InBucket
      <3>2. new[q][c] = table[q][c]
        BY <1>2, <1>6, <3>1
      <3> QED
        BY <2>1, <3>1, <3>2 DEF InBucket
    <2>6. ASSUME e \in Entries(new)
          PROVE  e \in Entries(table) \/ e = <<k, v>>
      <3>1. PICK q \in Rows, c \in Buckets :
              new[q][c].key # NULL /\ e = <<new[q][c].key, new[q][c].value>>
        BY <2>1, <2>6 DEF InBucket
      <3>2. CASE q = r /\ c = b
        BY <2>3, <3>1, <3>2
      <3>3. CASE ~(q = r /\ c = b)
        <4>1. new[q][c] = table[q][c]
          BY <1>6, <3>3
        <4> QED
          BY <2>1, <3>1, <4>1 DEF InBucket
      <3> QED
        BY <3>2, <3>3
    <2> QED
      BY <2>4, <2>5, <2>6
  <1> QED
    BY <1>3, <1>6, <1>7

(* Remove takes the entry of its key out, if there is one, and no other. *)
THEOREM RemoveRemoves ==
    ASSUME Numbered, NEW keys, NEW values, NEW strays, NullApart(keys, values),
           Steady(keys, strays), NEW table, Sound(table, keys, values, strays),
           NEW k \in keys, NEW x \in strays
    PROVE  /\ Sound(Remove(table, k, x), keys, values, strays)
           /\ Entries(Remove(table, k, x)) = {e \in Entries(table) : e[1] # k}
  <1> DEFINE r == RowOf(k, x)
             b == FindPosition(table[r], BucketOf(k), k)
             new == [table EXCEPT ![r][b] = [key |-> NULL, value |-> NULL]]
  <1>1. r \in Rows /\ BucketOf(k) \in Buckets /\ table[r] # NULL /\ k # NULL
    BY DEF Steady, NullApart, Sound
  <1>2. /\ (\E i \in Buckets : table[r][i].key = k) => b \in Buckets /\ table[r][b].key = k
        /\ (\A i \in Buckets : table[r][i].key # k) => b = NULL
    BY <1>1, FindPositionFinds
  <1>3. Remove(table, k, x) = IF b = NULL THEN table ELSE new
    BY <1>1 DEF Remove, Position
  <1> HIDE DEF b
  <1>4. CASE \A i \in Buckets : table[r][i].key # k
    <2>1. \A e \in Entries(table) : e[1] # k
      <3> SUFFICES ASSUME NEW e \in Entries(table), e[1] = k
                   PROVE  FALSE
        OBVIOUS
      <3>0. InBucket(table, e)
        BY EntryPlace
      <3>1. PICK q \in Rows, c \in Buckets :
              table[q][c].key # NULL /\ e = <<table[q][c].key, table[q][c].value>>
        BY <3>0 DEF InBucket
      <3>2. q = r
        BY <3>1 DEF Sound
      <3> QED
        BY <1>4, <3>1, <3>2
    <2> QED
      BY <1>2, <1>3, <1>4, <2>1
  <1>5. CASE \E i \in Buckets : table[r][i].key = k
    <2>1. b \in Buckets /\ table[r][b].key = k /\ b # NULL
      BY <1>2, <1>5 DEF NullApart
    <2>2. /\ Sound(new, keys, values, strays)
          /\ \A q \in Rows, c \in Buckets :
                new[q][c] = IF q = r /\ c = b THEN [key |-> NULL, value |-> NULL] ELSE table[q][c]
      <3>1. new = [table EXCEPT ![r][b] = [key |-> NULL, value |-> NULL]]
        OBVIOUS
      <3>2. Belongs(table, strays, r, NULL, NULL)
        BY DEF Belongs
      <3> HIDE DEF r, new
      <3>3. Sound(new, keys, values, strays) /\ Wrote(new, table, r, b, NULL, NULL)
        BY <1>1, <2>1, <3>1, <3>2, WriteBucket
      <3> QED
        BY <3>3 DEF Wrote
    <2> HIDE DEF new
    <2>3. ASSUME NEW e
          PROVE  e \in Entries(new) <=> e \in Entries(table) /\ e[1] # k
      <3>1. e \in Entries(new) <=> InBucket(new, e)
        BY <2>2, EntryPlace
      <3>2. e \in Entries(table) <=> InBucket(table, e)
        BY EntryPlace
      <3>3. ASSUME e \in Entries(table), e[1] # k
            PROVE  e \in Entries(new)
        <4>1. PICK q \in Rows, c \in Buckets :
                table[q][c].key # NULL /\ e = <<table[q][c].key, table[q][c].value>>
          BY <3>2, <3>3 DEF InBucket
        <4>2. new[q][c] = table[q][c]
          BY <2>1, <2>2, <3>3, <4>1
        <4> QED
          BY <3>1, <4>1, <4>2 DEF InBucket
      <3>4. ASSUME e \in Entries(new)
            PROVE  e \in Entries(table) /\ e[1] # k
        <4>1. PICK q \in Rows, c \in Buckets :
                new[q][c].key # NULL /\ e = <<new[q][c].key, new[q][c].value>>
          BY <3>1, <3>4 DEF InBucket
        <4>2. ~(q = r /\ c = b) /\ new[q][c] = table[q][c]
          BY <2>2, <4>1
        <4>3. table[q][c].key # k
          <5> SUFFICES ASSUME table[q][c].key = k
                       PROVE  FALSE
            OBVIOUS
          <5>1. q = r
            BY <4>1, <4>2 DEF Sound
          <5> QED
            BY <1>1, <2>1, <4>2, <5>1 DEF Sound
        <4> QED
          BY <3>2, <4>1, <4>2, <4>3 DEF InBucket
      <3> QED
        BY <3>3, <3>4
    <2> QED
      BY <1>3, <2>1, <2>2, <2>3
  <1> QED
    BY <1>4, <1>5

(* A row has a free bucket when its values come from fewer than it has       *)
(* buckets, and no value is entered twice.                                   *)
LEMMA FreeBucket ==
    ASSUME NEW keys, NEW values, NEW strays, NullApart(keys, values),
           NEW table, Sound(table, keys, values, strays), NEW r \in Rows,
           NEW some, IsFiniteSet(some), Cardinality(some) < Cardinality(Buckets),
           ValuesOnce(table, some)
    PROVE  HasFree(table, r)
  <1> SUFFICES ASSUME \A c \in Buckets : table[r][c].key # NULL
               PROVE  FALSE
    BY DEF HasFree
  <1> DEFINE f == [c \in Buckets |-> table[r][c].value]
  <1>1. \A c \in Buckets : <<table[r][c].key, table[r][c].value>> \in Entries(table)
    <2> SUFFICES ASSUME NEW c \in Buckets
                 PROVE  <<table[r][c].key, table[r][c].value>> \in Entries(table)
      OBVIOUS
    <2>1. InBucket(table, <<table[r][c].key, table[r][c].value>>)
      BY DEF InBucket
    <2> QED
      BY <2>1, EntryPlace
  <1>2. f \in [Buckets -> some]
    BY <1>1 DEF ValuesOnce
  <1>3. ASSUME NEW c \in Buckets, NEW d \in Buckets, f[c] = f[d]
        PROVE  c = d
    <2>1. table[r][c].key = table[r][d].key
      BY <1>1, <1>3 DEF ValuesOnce
    <2> QED
      BY <2>1 DEF Sound
  <1>4. f \in Injection(Buckets, some)
    BY <1>2, <1>3 DEF Injection, IsInjective
  <1>5. Cardinality(Buckets) <= Cardinality(some) /\ IsFiniteSet(Buckets)
    BY <1>4, FS_Injection
  <1>6. Cardinality(Buckets) \in Nat /\ Cardinality(some) \in Nat
    BY <1>5, FS_CardinalityType
  <1> QED
    BY <1>5, <1>6
=============================================================================
