---------------------------- MODULE GYList_proofs ----------------------------
(***************************************************************************)
(* What the operations of the intrusive list do to any list, whatever else *)
(* is linked in the same memory: the list they are called for stays a list *)
(* and has the items it should have, and every list with other items stays *)
(* as it is.                                                               *)
(***************************************************************************)
EXTENDS GYList, FiniteSetTheorems, TLAPS

(* A set of numbers that has 0 and the successor of each of its members has *)
(* every number: from 0 .. n to the members in it without 0, the successor  *)
(* function would be an injection.                                          *)
LEMMA SetInduction ==
    ASSUME NEW S, 0 \in S, \A n \in Nat : n \in S => n + 1 \in S
    PROVE  Nat \subseteq S
  <1> SUFFICES ASSUME NEW n \in Nat, n \notin S
               PROVE  FALSE
    OBVIOUS
  <1> DEFINE T == S \cap (0 .. n)
             f == [k \in T |-> k + 1]
  <1>1. IsFiniteSet(T)
    <2>1. IsFiniteSet(0 .. n)
      BY FS_Interval
    <2> QED
      BY <2>1, FS_Subset
  <1>2. 0 \in T
    OBVIOUS
  <1>3. /\ IsFiniteSet(T \ {0})
        /\ Cardinality(T \ {0}) = Cardinality(T) - 1
        /\ Cardinality(T) \in Nat
    BY <1>1, <1>2, FS_RemoveElement, FS_CardinalityType
  <1>4. f \in [T -> T \ {0}]
    <2> SUFFICES ASSUME NEW k \in T
                 PROVE  k + 1 \in T \ {0}
      OBVIOUS
    <2>1. k \in 0 .. n /\ k \in S /\ k # n
      OBVIOUS
    <2> QED
      BY <2>1
  <1>5. \E x, y \in T : x # y /\ f[x] = f[y]
    <2> HIDE DEF T, f
    <2> QED
      BY <1>1, <1>3, <1>4, FS_PigeonHole
  <1> QED
    BY <1>5

(* Some function of the numbers starts with a and goes on by steps of g. *)
HasRun(T, a, g) ==
    \E w \in [Nat \ {0} -> T] : w[1] = a /\ \A n \in Nat \ {0} : w[n + 1] = g[w[n]]

(* A function of the numbers can be defined by its first value and a step:  *)
(* the runs of every length exist, and agree with each other.               *)
LEMMA Iteration ==
    ASSUME NEW T, NEW a \in T, NEW g \in [T -> T]
    PROVE  HasRun(T, a, g)
  <1> DEFINE Runs(n) == {r \in [1 .. n + 1 -> T] :
                           r[1] = a /\ \A i \in 1 .. n : r[i + 1] = g[r[i]]}
             w == [n \in Nat \ {0} |-> (CHOOSE r : r \in Runs(n - 1))[n]]
  <1>1. \A n \in Nat : \E r : r \in Runs(n)
    <2> DEFINE S == {n \in Nat : \E r : r \in Runs(n)}
    <2>1. 0 \in S
      <3>1. [i \in 1 .. 0 + 1 |-> a] \in Runs(0)
        OBVIOUS
      <3> QED
        BY <3>1
    <2>2. ASSUME NEW n \in Nat, n \in S
          PROVE  n + 1 \in S
      <3>1. PICK r : r \in Runs(n)
        BY <2>2
      <3> DEFINE q == [i \in 1 .. (n + 1) + 1 |-> IF i = n + 2 THEN g[r[n + 1]] ELSE r[i]]
      <3>2. r \in [1 .. n + 1 -> T] /\ r[1] = a /\ \A i \in 1 .. n : r[i + 1] = g[r[i]]
        BY <3>1
      <3> HIDE <3>1
      <3>3. q \in [1 .. (n + 1) + 1 -> T]
        BY <3>2
      <3>4. q[1] = a
        BY <3>2
      <3>5. \A i \in 1 .. n + 1 : q[i + 1] = g[q[i]]
        <4> SUFFICES ASSUME NEW i \in 1 .. n + 1
                     PROVE  q[i + 1] = g[q[i]]
          OBVIOUS
        <4>1. q[i] = r[i] /\ i + 1 \in 1 .. (n + 1) + 1
          OBVIOUS
        <4>2. CASE i = n + 1
          BY <4>1, <4>2
        <4>3. CASE i # n + 1
          BY <4>1, <4>3, <3>2
        <4> QED
          BY <4>2, <4>3
      <3>6. q \in Runs(n + 1)
        <4> HIDE DEF q
        <4> QED
          BY <3>3, <3>4, <3>5
      <3> QED
        BY <3>6
    <2>3. Nat \subseteq S
      <3> HIDE DEF S
      <3> QED
        BY <2>1, <2>2, SetInduction
    <2> QED
      BY <2>3
  <1>2. ASSUME NEW n \in Nat, NEW r \in Runs(n), NEW q \in Runs(n + 1),
               NEW i \in 1 .. n + 1
        PROVE  r[i] = q[i]
    <2> DEFINE S == {k \in Nat : k <= n => r[k + 1] = q[k + 1]}
    <2>1. 0 \in S
      OBVIOUS
    <2>2. ASSUME NEW k \in Nat, k \in S
          PROVE  k + 1 \in S
      <3> SUFFICES ASSUME k + 1 <= n
                   PROVE  r[(k + 1) + 1] = q[(k + 1) + 1]
        OBVIOUS
      <3>1. k + 1 \in 1 .. n /\ k + 1 \in 1 .. n + 1
        OBVIOUS
      <3>2. r[k + 1] = q[k + 1]
        BY <2>2
      <3>3. r[(k + 1) + 1] = g[r[k + 1]] /\ q[(k + 1) + 1] = g[q[k + 1]]
        BY <3>1
      <3> QED
        BY <3>2, <3>3
    <2>3. Nat \subseteq S
      <3> HIDE DEF S
      <3> QED
        BY <2>1, <2>2, SetInduction
    <2>4. i - 1 \in Nat /\ i - 1 <= n /\ (i - 1) + 1 = i
      OBVIOUS
    <2>5. i - 1 \in S
      BY <2>3, <2>4
    <2>6. r[(i - 1) + 1] = q[(i - 1) + 1]
      BY <2>4, <2>5
    <2> QED
      BY <2>4, <2>6
  <1>3. ASSUME NEW n \in Nat \ {0}
        PROVE  \E r \in Runs(n - 1) : w[n] = r[n]
    <2>1. \E r : r \in Runs(n - 1)
      <3>1. n - 1 \in Nat
        OBVIOUS
      <3> HIDE DEF Runs
      <3> QED
        BY <1>1, <3>1
    <2> DEFINE c == CHOOSE r : r \in Runs(n - 1)
    <2>2. c \in Runs(n - 1)
      <3> HIDE DEF Runs
      <3> QED
        BY <2>1
    <2>3. w[n] = c[n]
      OBVIOUS
    <2> HIDE DEF w, c
    <2> QED
      BY <2>2, <2>3
  <1>4. w \in [Nat \ {0} -> T]
    <2> SUFFICES ASSUME NEW n \in Nat \ {0}
                 PROVE  w[n] \in T
      OBVIOUS
    <2>1. PICK r \in Runs(n - 1) : w[n] = r[n]
      BY <1>3
    <2> HIDE DEF w
    <2> QED
      BY <2>1
  <1>5. w[1] = a
    <2>1. PICK r \in Runs(1 - 1) : w[1] = r[1]
      <3> HIDE DEF w, Runs
      <3> QED
        BY <1>3
    <2> HIDE DEF w
    <2> QED
      BY <2>1
  <1>6. ASSUME NEW n \in Nat \ {0}
        PROVE  w[n + 1] = g[w[n]]
    <2>1. PICK r \in Runs(n - 1) : w[n] = r[n]
      BY <1>3
    <2>2. PICK q \in Runs((n + 1) - 1) : w[n + 1] = q[n + 1]
      <3> HIDE DEF w, Runs
      <3> QED
        BY <1>3
    <2>3. q \in Runs((n - 1) + 1) /\ n - 1 \in Nat /\ n \in 1 .. (n - 1) + 1
      BY <2>2
    <2>4. r[n] = q[n]
      BY <1>2, <2>3, ZenonT(60)
    <2>5. q[n + 1] = g[q[n]]
      BY <2>2
    <2> HIDE DEF w
    <2> QED
      BY <2>1, <2>2, <2>4, <2>5
  <1> HIDE DEF w
  <1> QED
    BY <1>4, <1>5, <1>6 DEF HasRun

-----------------------------------------------------------------------------
(* The memories of lists L with items of S. *)
MemoryOf(S, L) == [next : [S -> S \cup {NULL}], prev : [S -> S \cup {NULL}],
                   head : [L -> S \cup {NULL}], count : [L -> Int]]

(* The items of list l are those of q, from its head to its end. *)
Chain(S, m, l, q) ==
    LET n == m.count[l]
    IN  /\ n \in Nat
        /\ q \in [1 .. n -> S]
        /\ m.head[l] = IF n = 0 THEN NULL ELSE q[1]
        /\ \A i \in 1 .. n : m.next[q[i]] = IF i = n THEN NULL ELSE q[i + 1]
        /\ \A i \in 2 .. n : m.prev[q[i]] = q[i - 1]
        /\ \A i, j \in 1 .. n : q[i] = q[j] => i = j

(* Walk: it starts at the head and goes on along m_next. *)
LEMMA WalkSteps ==
    ASSUME NEW S, NEW L, NEW m \in MemoryOf(S, L), NEW l \in L, NULL \notin S
    PROVE  /\ Walk(m, l) \in [Nat \ {0} -> S \cup {NULL}]
           /\ Walk(m, l)[1] = m.head[l]
           /\ \A n \in Nat \ {0} :
                Walk(m, l)[n + 1] = IF Walk(m, l)[n] = NULL THEN NULL
                                    ELSE m.next[Walk(m, l)[n]]
  <1> DEFINE T == S \cup {NULL}
             g == [x \in T |-> IF x = NULL THEN NULL ELSE m.next[x]]
             IsWalk(w) == w = [n \in Nat \ {0} |->
                                IF n = 1 THEN m.head[l]
                                ELSE IF w[n - 1] = NULL THEN NULL ELSE m.next[w[n - 1]]]
  <1>1. m.head[l] \in T /\ g \in [T -> T]
    BY DEF MemoryOf
  <1>2. PICK w \in [Nat \ {0} -> T] :
            w[1] = m.head[l] /\ \A n \in Nat \ {0} : w[n + 1] = g[w[n]]
    <2> HIDE DEF g, T, IsWalk
    <2>1. HasRun(T, m.head[l], g)
      BY <1>1, Iteration
    <2> QED
      BY <2>1 DEF HasRun
  <1>3. IsWalk(w)
    <2> DEFINE v == [n \in Nat \ {0} |->
                       IF n = 1 THEN m.head[l]
                       ELSE IF w[n - 1] = NULL THEN NULL ELSE m.next[w[n - 1]]]
    <2>1. ASSUME NEW n \in Nat \ {0}
          PROVE  w[n] = v[n]
      <3>1. CASE n = 1
        BY <1>2, <3>1
      <3>2. CASE n # 1
        <4>1. n - 1 \in Nat \ {0} /\ (n - 1) + 1 = n
          BY <3>2
        <4>2. w[(n - 1) + 1] = g[w[n - 1]] /\ w[n - 1] \in T
          BY <1>2, <4>1
        <4> QED
          BY <3>2, <4>1, <4>2
      <3> QED
        BY <3>1, <3>2
    <2> QED
      BY <1>2, <2>1
  <1>4. Walk(m, l) = CHOOSE u : IsWalk(u)
    BY DEF Walk
  <1>5. IsWalk(Walk(m, l))
    <2> HIDE DEF IsWalk
    <2> QED
      BY <1>3, <1>4
  <1> DEFINE u == Walk(m, l)
  <1>6. u[1] = m.head[l]
    BY <1>5
  <1>7. ASSUME NEW n \in Nat \ {0}
        PROVE  u[n + 1] = IF u[n] = NULL THEN NULL ELSE m.next[u[n]]
    <2>1. n + 1 \in Nat \ {0} /\ n + 1 # 1 /\ (n + 1) - 1 = n
      OBVIOUS
    <2> HIDE DEF u
    <2> QED
      BY <1>5, <2>1 DEF u
  <1>8. u \in [Nat \ {0} -> T]
    <2> DEFINE R == {n \in Nat : u[n + 1] \in T}
    <2>1. 0 \in R
      BY <1>1, <1>6
    <2>2. ASSUME NEW n \in Nat, n \in R
          PROVE  n + 1 \in R
      <3>1. n + 1 \in Nat \ {0} /\ u[n + 1] \in T
        BY <2>2
      <3>2. u[(n + 1) + 1] = IF u[n + 1] = NULL THEN NULL ELSE m.next[u[n + 1]]
        BY <1>7, <3>1
      <3> HIDE DEF u
      <3> QED
        BY <3>1, <3>2 DEF MemoryOf
    <2>3. Nat \subseteq R
      <3> HIDE DEF R
      <3> QED
        BY <2>1, <2>2, SetInduction
    <2>4. ASSUME NEW n \in Nat \ {0}
          PROVE  u[n] \in T
      <3>1. n - 1 \in Nat /\ (n - 1) + 1 = n
        OBVIOUS
      <3>2. n - 1 \in R
        BY <2>3, <3>1
      <3> HIDE DEF u
      <3> QED
        BY <3>1, <3>2
    <2> HIDE DEF T
    <2> QED
      BY <1>5, <2>4
  <1> QED
    BY <1>6, <1>7, <1>8

(* A chain is a list, and its items are the items of the list. *)
LEMMA ChainIsList ==
    ASSUME NEW S, NEW L, NEW m \in MemoryOf(S, L), NEW l \in L, NULL \notin S,
           NEW q, Chain(S, m, l, q)
    PROVE  WellFormed(m, l) /\ Items(m, l) = {q[i] : i \in 1 .. m.count[l]}
  <1> DEFINE w == Walk(m, l)
             n == m.count[l]
  <1>1. n \in Nat /\ q \in [1 .. n -> S]
    BY DEF Chain
  <1>2. \A i \in 1 .. n : q[i] # NULL
    BY <1>1
  <1>3. ASSUME NEW i \in 1 .. n
        PROVE  w[i] = q[i]
    <2> DEFINE R == {k \in Nat : k + 1 <= n => w[k + 1] = q[k + 1]}
    <2>1. 0 \in R
      <3>1. w[1] = m.head[l]
        BY WalkSteps
      <3> HIDE DEF w
      <3> QED
        BY <1>1, <3>1 DEF Chain
    <2>2. ASSUME NEW k \in Nat, k \in R
          PROVE  k + 1 \in R
      <3> SUFFICES ASSUME (k + 1) + 1 <= n
                   PROVE  w[(k + 1) + 1] = q[(k + 1) + 1]
        OBVIOUS
      <3>1. k + 1 \in 1 .. n /\ k + 1 # n /\ k + 1 \in Nat \ {0}
        BY <1>1
      <3>2. w[k + 1] = q[k + 1]
        BY <2>2, <3>1
      <3>3. w[(k + 1) + 1] = IF w[k + 1] = NULL THEN NULL ELSE m.next[w[k + 1]]
        BY <3>1, WalkSteps
      <3>4. m.next[q[k + 1]] = q[(k + 1) + 1]
        BY <3>1 DEF Chain
      <3> HIDE DEF w
      <3> QED
        BY <1>2, <3>1, <3>2, <3>3, <3>4
    <2>3. Nat \subseteq R
      <3> HIDE DEF R
      <3> QED
        BY <2>1, <2>2, SetInduction
    <2>4. i - 1 \in Nat /\ (i - 1) + 1 = i /\ i <= n
      BY <1>1
    <2>5. i - 1 \in R
      BY <2>3, <2>4
    <2> HIDE DEF w
    <2> QED
      BY <2>4, <2>5
  <1>4. w[n + 1] = NULL
    <2>1. CASE n = 0
      <3>1. w[1] = m.head[l]
        BY WalkSteps
      <3> HIDE DEF w
      <3> QED
        BY <2>1, <3>1 DEF Chain
    <2>2. CASE n # 0
      <3>1. n \in 1 .. n /\ n \in Nat \ {0}
        BY <1>1, <2>2
      <3>2. w[n + 1] = IF w[n] = NULL THEN NULL ELSE m.next[w[n]]
        BY <3>1, WalkSteps
      <3>3. m.next[q[n]] = NULL /\ w[n] = q[n]
        BY <1>3, <3>1 DEF Chain
      <3> HIDE DEF w
      <3> QED
        BY <3>2, <3>3
    <2> QED
      BY <2>1, <2>2
  <1>5. WellFormed(m, l)
    <2>1. \A i \in 2 .. n : m.prev[w[i]] = w[i - 1]
      <3> SUFFICES ASSUME NEW i \in 2 .. n
                   PROVE  m.prev[w[i]] = w[i - 1]
        OBVIOUS
      <3>1. i \in 1 .. n /\ i - 1 \in 1 .. n
        BY <1>1
      <3>2. w[i] = q[i] /\ w[i - 1] = q[i - 1]
        BY <1>3, <3>1
      <3> HIDE DEF w
      <3> QED
        BY <3>2 DEF Chain
    <2>2. \A i, j \in 1 .. n : w[i] = w[j] => i = j
      <3> HIDE DEF w
      <3> QED
        BY <1>3 DEF Chain
    <2>3. \A i \in 1 .. n : w[i] # NULL
      <3> HIDE DEF w
      <3> QED
        BY <1>2, <1>3
    <2> HIDE DEF w
    <2> QED
      BY <1>1, <1>4, <2>1, <2>2, <2>3 DEF WellFormed, w
  <1>6. Items(m, l) = {q[i] : i \in 1 .. n}
    <2>1. Items(m, l) = {w[i] : i \in 1 .. n} \ {NULL}
      BY DEF Items
    <2> HIDE DEF w
    <2> QED
      BY <1>2, <1>3, <2>1
  <1> QED
    BY <1>5, <1>6

(* A list is the chain of the items a walk meets. *)
LEMMA ListIsChain ==
    ASSUME NEW S, NEW L, NEW m \in MemoryOf(S, L), NEW l \in L, NULL \notin S,
           WellFormed(m, l)
    PROVE  \E q \in [1 .. m.count[l] -> S] :
               Chain(S, m, l, q) /\ Items(m, l) = {q[i] : i \in 1 .. m.count[l]}
  <1> DEFINE w == Walk(m, l)
             n == m.count[l]
             q == [i \in 1 .. n |-> w[i]]
  <1>1. n \in Nat
    BY DEF WellFormed, MemoryOf
  <1>2. w \in [Nat \ {0} -> S \cup {NULL}] /\ w[1] = m.head[l]
    BY WalkSteps
  <1>3. w[n + 1] = NULL /\ (\A i \in 1 .. n : w[i] # NULL)
    BY DEF WellFormed
  <1>4. \A i \in 2 .. n : m.prev[w[i]] = w[i - 1]
    BY DEF WellFormed
  <1>5. \A i, j \in 1 .. n : w[i] = w[j] => i = j
    BY DEF WellFormed
  <1>6. \A i \in 1 .. n : m.next[w[i]] = w[i + 1]
    <2> SUFFICES ASSUME NEW i \in 1 .. n
                 PROVE  m.next[w[i]] = w[i + 1]
      OBVIOUS
    <2>1. i \in Nat \ {0}
      BY <1>1
    <2>2. w[i + 1] = IF w[i] = NULL THEN NULL ELSE m.next[w[i]]
      BY <2>1, WalkSteps
    <2> HIDE DEF w
    <2> QED
      BY <1>3, <2>2
  <1> HIDE DEF w
  <1>7. q \in [1 .. n -> S]
    BY <1>1, <1>2, <1>3
  <1>8. m.head[l] = IF n = 0 THEN NULL ELSE q[1]
    BY <1>1, <1>2, <1>3
  <1>9. \A i \in 1 .. n : m.next[q[i]] = IF i = n THEN NULL ELSE q[i + 1]
    BY <1>1, <1>3, <1>6
  <1>10. \A i \in 2 .. n : m.prev[q[i]] = q[i - 1]
    BY <1>1, <1>4
  <1>11. \A i, j \in 1 .. n : q[i] = q[j] => i = j
    BY <1>5
  <1>12. Chain(S, m, l, q)
    <2> HIDE DEF q
    <2> QED
      BY <1>1, <1>7, <1>8, <1>9, <1>10, <1>11 DEF Chain
  <1>13. Items(m, l) = {q[i] : i \in 1 .. n}
    <2> HIDE DEF q
    <2> QED
      BY <1>12, ChainIsList
  <1> QED
    BY <1>7, <1>12, <1>13

-----------------------------------------------------------------------------
(* The head of a list points back at nothing: true of a list that only Add *)
(* and Delete have touched, and not after PickUpFirstItem.                 *)
HeadIsFirst(m, l) == m.head[l] # NULL => m.prev[m.head[l]] = NULL

(* What FirstItem says of a list. *)
LEMMA FirstItemOfList ==
    ASSUME NEW S, NEW L, NEW m \in MemoryOf(S, L), NEW l \in L, NULL \notin S,
           WellFormed(m, l)
    PROVE  /\ Items(m, l) \subseteq S
           /\ FirstItem(m, l) = m.head[l]
           /\ FirstItem(m, l) = NULL <=> Items(m, l) = {}
           /\ FirstItem(m, l) # NULL => FirstItem(m, l) \in Items(m, l)
  <1>1. PICK q \in [1 .. m.count[l] -> S] :
            Chain(S, m, l, q) /\ Items(m, l) = {q[i] : i \in 1 .. m.count[l]}
    BY ListIsChain
  <1>2. m.count[l] \in Nat /\ m.head[l] = IF m.count[l] = 0 THEN NULL ELSE q[1]
    BY <1>1 DEF Chain
  <1>3. CASE m.count[l] = 0
    BY <1>1, <1>2, <1>3 DEF FirstItem
  <1>4. CASE m.count[l] # 0
    <2>1. 1 \in 1 .. m.count[l] /\ q[1] \in S
      BY <1>2, <1>4
    <2>2. FirstItem(m, l) = m.head[l] /\ m.head[l] = q[1]
      BY <1>2, <1>4 DEF FirstItem
    <2>3. q[1] \in Items(m, l)
      BY <1>1, <2>1
    <2> QED
      BY <1>1, <2>1, <2>2, <2>3
  <1> QED
    BY <1>3, <1>4

(* An empty list: after its constructor, or after CleanUp. *)
LEMMA EmptyList ==
    ASSUME NEW S, NEW L, NEW m \in MemoryOf(S, L), NEW l \in L, NULL \notin S,
           m.head[l] = NULL, m.count[l] = 0
    PROVE  WellFormed(m, l) /\ Items(m, l) = {} /\ HeadIsFirst(m, l)
  <1> DEFINE q == [i \in 1 .. 0 |-> NULL]
  <1>1. Chain(S, m, l, q)
    BY DEF Chain
  <1>2. WellFormed(m, l) /\ Items(m, l) = {q[i] : i \in 1 .. m.count[l]}
    <2> HIDE DEF q
    <2> QED
      BY <1>1, ChainIsList
  <1> QED
    BY <1>2 DEF HeadIsFirst

(* A list whose head, count and links are left alone stays as it is. *)
LEMMA SameList ==
    ASSUME NEW S, NEW L, NEW m \in MemoryOf(S, L), NEW p \in MemoryOf(S, L),
           NEW l \in L, NEW k \in L, NULL \notin S,
           WellFormed(m, l),
           p.head[k] = m.head[l], p.count[k] = m.count[l],
           \A x \in Items(m, l) : p.next[x] = m.next[x] /\ p.prev[x] = m.prev[x]
    PROVE  /\ WellFormed(p, k)
           /\ Items(p, k) = Items(m, l)
           /\ HeadIsFirst(m, l) => HeadIsFirst(p, k)
  <1>1. PICK q \in [1 .. m.count[l] -> S] :
            Chain(S, m, l, q) /\ Items(m, l) = {q[i] : i \in 1 .. m.count[l]}
    BY ListIsChain
  <1>2. \A i \in 1 .. m.count[l] : p.next[q[i]] = m.next[q[i]] /\ p.prev[q[i]] = m.prev[q[i]]
    BY <1>1
  <1>3. m.count[l] \in Nat /\ \A i \in 2 .. m.count[l] : i \in 1 .. m.count[l]
    BY <1>1 DEF Chain
  <1>4. Chain(S, p, k, q)
    BY <1>1, <1>2, <1>3 DEF Chain
  <1>5. WellFormed(p, k) /\ Items(p, k) = Items(m, l)
    <2>1. \A r : Chain(S, p, k, r) => WellFormed(p, k)
                /\ Items(p, k) = {r[i] : i \in 1 .. p.count[k]}
      BY ChainIsList
    <2>2. WellFormed(p, k) /\ Items(p, k) = {q[i] : i \in 1 .. p.count[k]}
      BY <1>4, <2>1
    <2> QED
      BY <1>1, <2>2
  <1>6. HeadIsFirst(m, l) => HeadIsFirst(p, k)
    BY FirstItemOfList DEF HeadIsFirst
  <1> QED
    BY <1>5, <1>6

-----------------------------------------------------------------------------
(* A chain of a list is the way to know its next state. *)
LEMMA NewChain ==
    ASSUME NEW S, NEW L, NEW p \in MemoryOf(S, L), NEW l \in L, NULL \notin S,
           NEW q, Chain(S, p, l, q), NEW n, p.count[l] = n
    PROVE  WellFormed(p, l) /\ Items(p, l) = {q[i] : i \in 1 .. n}
  BY ChainIsList

(* PickUpFirstItem takes the first item away. *)
LEMMA PickUpFromList ==
    ASSUME NEW S, NEW L, NEW m \in MemoryOf(S, L), NEW l \in L, NULL \notin S,
           WellFormed(m, l), FirstItem(m, l) # NULL
    PROVE  LET p == PickUpFirstItem(m, l)
               s == FirstItem(m, l)
           IN  /\ p \in MemoryOf(S, L)
               /\ s \in Items(m, l)
               /\ WellFormed(p, l)
               /\ Items(p, l) = Items(m, l) \ {s}
  <1> DEFINE p == PickUpFirstItem(m, l)
             n == m.count[l]
  <1>1. PICK q \in [1 .. n -> S] :
            Chain(S, m, l, q) /\ Items(m, l) = {q[i] : i \in 1 .. n}
    BY ListIsChain
  <1>2. n \in Nat /\ n # 0
    BY <1>1 DEF Chain, FirstItem
  <1>3. /\ 1 \in 1 .. n
        /\ q[1] \in S
        /\ m.head[l] = q[1]
        /\ FirstItem(m, l) = q[1]
    BY <1>1, <1>2 DEF Chain, FirstItem
  <1>4. /\ p.next = [m.next EXCEPT ![q[1]] = NULL]
        /\ p.prev = [m.prev EXCEPT ![q[1]] = NULL]
        /\ p.head = [m.head EXCEPT ![l] = m.next[q[1]]]
        /\ p.count = [m.count EXCEPT ![l] = n - 1]
        /\ p = [next |-> p.next, prev |-> p.prev, head |-> p.head, count |-> p.count]
    BY <1>3 DEF PickUpFirstItem
  <1>5. p \in MemoryOf(S, L)
    BY <1>3 DEF MemoryOf, PickUpFirstItem
  <1> HIDE DEF p
  <1> DEFINE r == [i \in 1 .. n - 1 |-> q[i + 1]]
  <1>6. \A i \in 1 .. n - 1 : i + 1 \in 1 .. n /\ i \in 1 .. n /\ q[i + 1] # q[1]
    BY <1>1, <1>2, <1>3 DEF Chain
  <1>7. r \in [1 .. n - 1 -> S]
    BY <1>1, <1>6
  <1>8. p.head[l] = IF n - 1 = 0 THEN NULL ELSE r[1]
    <2>1. m.next[q[1]] = IF 1 = n THEN NULL ELSE q[1 + 1]
      BY <1>1, <1>3 DEF Chain
    <2> QED
      BY <1>2, <1>4, <2>1 DEF MemoryOf
  <1>9. \A i \in 1 .. n - 1 : p.next[r[i]] = IF i = n - 1 THEN NULL ELSE r[i + 1]
    <2> SUFFICES ASSUME NEW i \in 1 .. n - 1
                 PROVE  p.next[r[i]] = IF i = n - 1 THEN NULL ELSE r[i + 1]
      OBVIOUS
    <2>1. i + 1 \in 1 .. n /\ q[i + 1] # q[1] /\ q[i + 1] \in S
      BY <1>1, <1>6
    <2>2. p.next[q[i + 1]] = m.next[q[i + 1]]
      BY <1>4, <2>1 DEF MemoryOf
    <2>3. m.next[q[i + 1]] = IF i + 1 = n THEN NULL ELSE q[(i + 1) + 1]
      BY <1>1, <2>1 DEF Chain
    <2> QED
      BY <1>2, <2>2, <2>3, SMTT(30)
  <1>10. \A i \in 2 .. n - 1 : p.prev[r[i]] = r[i - 1]
    <2> SUFFICES ASSUME NEW i \in 2 .. n - 1
                 PROVE  p.prev[r[i]] = r[i - 1]
      OBVIOUS
    <2>0. i \in 1 .. n - 1 /\ i + 1 \in 2 .. n /\ i - 1 \in 1 .. n - 1
      BY <1>2
    <2>1. q[i + 1] # q[1] /\ q[i + 1] \in S
      BY <1>1, <1>6, <2>0
    <2>2. p.prev[q[i + 1]] = m.prev[q[i + 1]]
      BY <1>4, <2>1 DEF MemoryOf
    <2>3. m.prev[q[i + 1]] = q[(i + 1) - 1]
      BY <1>1, <2>0 DEF Chain
    <2> QED
      BY <1>2, <2>0, <2>2, <2>3
  <1>11. \A i, j \in 1 .. n - 1 : r[i] = r[j] => i = j
    BY <1>1, <1>2, <1>6 DEF Chain
  <1>12. p.count[l] = n - 1 /\ n - 1 \in Nat
    BY <1>2, <1>4 DEF MemoryOf
  <1>13. Chain(S, p, l, r)
    <2> HIDE DEF r
    <2> QED
      BY <1>7, <1>8, <1>9, <1>10, <1>11, <1>12 DEF Chain
  <1>14. WellFormed(p, l) /\ Items(p, l) = {r[i] : i \in 1 .. n - 1}
    <2> HIDE DEF r, n
    <2> QED
      BY <1>5, <1>12, <1>13, NewChain
  <1>15. {r[i] : i \in 1 .. n - 1} = {q[i] : i \in 1 .. n} \ {q[1]}
    <2>1. ASSUME NEW i \in 1 .. n, q[i] # q[1]
          PROVE  i - 1 \in 1 .. n - 1 /\ r[i - 1] = q[i]
      BY <1>2, <2>1
    <2>2. \A i \in 1 .. n - 1 : r[i] = q[i + 1]
      OBVIOUS
    <2> HIDE DEF r
    <2> QED
      BY <1>6, <2>1, <2>2
  <1> QED
    BY <1>1, <1>3, <1>5, <1>14, <1>15 DEF p

(* It leaves the other lists alone. *)
LEMMA PickUpOther ==
    ASSUME NEW S, NEW L, NEW m \in MemoryOf(S, L), NEW l \in L, NULL \notin S,
           FirstItem(m, l) # NULL,
           NEW k \in L, k # l, WellFormed(m, k), FirstItem(m, l) \notin Items(m, k)
    PROVE  LET p == PickUpFirstItem(m, l)
           IN  /\ WellFormed(p, k)
               /\ Items(p, k) = Items(m, k)
               /\ HeadIsFirst(m, k) => HeadIsFirst(p, k)
  <1> DEFINE p == PickUpFirstItem(m, l)
  <1>1. m.head[l] = FirstItem(m, l) /\ m.head[l] \in S
    BY DEF FirstItem, MemoryOf
  <1>2. p \in MemoryOf(S, L)
    BY <1>1 DEF MemoryOf, PickUpFirstItem
  <1>3. p.head[k] = m.head[k] /\ p.count[k] = m.count[k]
    BY DEF MemoryOf, PickUpFirstItem
  <1>4. \A x \in Items(m, k) : p.next[x] = m.next[x] /\ p.prev[x] = m.prev[x]
    <2>1. Items(m, k) \subseteq S
      BY FirstItemOfList
    <2> QED
      BY <1>1, <2>1 DEF MemoryOf, PickUpFirstItem
  <1> HIDE DEF p
  <1>5. /\ WellFormed(p, k)
        /\ Items(p, k) = Items(m, k)
        /\ HeadIsFirst(m, k) => HeadIsFirst(p, k)
    BY <1>2, <1>3, <1>4, SameList
  <1> QED
    BY <1>5 DEF p

(* Add, field by field. *)
LEMMA AddFields ==
    ASSUME NEW S, NEW L, NEW m \in MemoryOf(S, L), NEW l \in L, NULL \notin S, NEW s \in S
    PROVE  LET p == Add(m, l, s)
               h == m.head[l]
           IN  /\ p \in MemoryOf(S, L)
               /\ \A x \in S : p.next[x] = IF x = s THEN h ELSE m.next[x]
               /\ \A x \in S : p.prev[x] = IF x = h THEN s
                                          ELSE IF x = s THEN NULL ELSE m.prev[x]
               /\ \A k \in L : p.head[k] = IF k = l THEN s ELSE m.head[k]
               /\ \A k \in L : p.count[k] = IF k = l THEN m.count[k] + 1 ELSE m.count[k]
  <1> DEFINE p == Add(m, l, s)
             h == m.head[l]
  <1>1. h \in S \cup {NULL}
    BY DEF MemoryOf
  <1>2. CASE h = NULL
    BY <1>2 DEF Add, Link, Publish, Pointing, MemoryOf
  <1>3. CASE h # NULL
    <2>1. h \in S
      BY <1>1, <1>3
    <2> QED
      BY <1>3, <2>1 DEF Add, Link, Publish, Pointing, MemoryOf
  <1> QED
    BY <1>2, <1>3

(* Add puts an item that is not in the list in front of it. *)
LEMMA AddToList ==
    ASSUME NEW S, NEW L, NEW m \in MemoryOf(S, L), NEW l \in L, NULL \notin S,
           NEW s \in S, WellFormed(m, l), s \notin Items(m, l)
    PROVE  LET p == Add(m, l, s)
           IN  /\ p \in MemoryOf(S, L)
               /\ WellFormed(p, l)
               /\ Items(p, l) = Items(m, l) \cup {s}
               /\ HeadIsFirst(p, l)
  <1> DEFINE p == Add(m, l, s)
             n == m.count[l]
             h == m.head[l]
  <1>1. PICK q \in [1 .. n -> S] :
            Chain(S, m, l, q) /\ Items(m, l) = {q[i] : i \in 1 .. n}
    BY ListIsChain
  <1>2. n \in Nat /\ h = (IF n = 0 THEN NULL ELSE q[1])
    BY <1>1 DEF Chain
  <1>3. \A i \in 1 .. n : q[i] # s /\ q[i] \in S
    BY <1>1
  <1>4. /\ p \in MemoryOf(S, L)
        /\ \A x \in S : p.next[x] = IF x = s THEN h ELSE m.next[x]
        /\ \A x \in S : p.prev[x] = IF x = h THEN s
                                   ELSE IF x = s THEN NULL ELSE m.prev[x]
        /\ p.head[l] = s
        /\ p.count[l] = n + 1
    BY AddFields
  <1>5. h # s
    BY <1>2, <1>3
  <1> HIDE DEF p
  <1> DEFINE r == [i \in 1 .. n + 1 |-> IF i = 1 THEN s ELSE q[i - 1]]
  <1>6. r[1] = s /\ \A i \in 2 .. n + 1 : i - 1 \in 1 .. n /\ r[i] = q[i - 1]
    BY <1>2
  <1>7. r \in [1 .. n + 1 -> S]
    BY <1>1, <1>2, <1>6
  <1>8. \A i \in 1 .. n + 1 : p.next[r[i]] = IF i = n + 1 THEN NULL ELSE r[i + 1]
    <2> SUFFICES ASSUME NEW i \in 1 .. n + 1
                 PROVE  p.next[r[i]] = IF i = n + 1 THEN NULL ELSE r[i + 1]
      OBVIOUS
    <2>1. CASE i = 1
      <3>1. p.next[r[i]] = h
        BY <1>4, <1>6, <2>1
      <3>2. n # 0 => r[i + 1] = q[1]
        BY <1>2, <2>1
      <3> HIDE DEF r
      <3> QED
        BY <1>2, <2>1, <3>1, <3>2
    <2>2. CASE i # 1
      <3>1. i \in 2 .. n + 1 /\ i - 1 \in 1 .. n
        BY <1>2, <2>2
      <3>2. p.next[r[i]] = m.next[q[i - 1]]
        BY <1>3, <1>4, <1>6, <3>1
      <3>3. m.next[q[i - 1]] = IF i - 1 = n THEN NULL ELSE q[(i - 1) + 1]
        BY <1>1, <3>1 DEF Chain
      <3>4. i # n + 1 => r[i + 1] = q[i]
        BY <1>2, <3>1
      <3> HIDE DEF r
      <3> QED
        BY <1>2, <3>1, <3>2, <3>3, <3>4
    <2> QED
      BY <2>1, <2>2
  <1>9. \A i \in 2 .. n + 1 : p.prev[r[i]] = r[i - 1]
    <2> SUFFICES ASSUME NEW i \in 2 .. n + 1
                 PROVE  p.prev[r[i]] = r[i - 1]
      OBVIOUS
    <2>1. i - 1 \in 1 .. n /\ r[i] = q[i - 1]
      BY <1>6
    <2>2. CASE i = 2
      <3>1. q[1] = h /\ n # 0
        BY <1>2, <2>1, <2>2
      <3> HIDE DEF r
      <3> QED
        BY <1>3, <1>4, <1>6, <2>1, <2>2, <3>1
    <2>3. CASE i # 2
      <3>1. i - 1 \in 2 .. n /\ i - 1 \in 2 .. n + 1 /\ 1 \in 1 .. n /\ n # 0
        BY <1>2, <2>1, <2>3
      <3>2. q[i - 1] # h
        BY <1>1, <1>2, <2>1, <2>3, <3>1 DEF Chain
      <3>3. p.prev[q[i - 1]] = m.prev[q[i - 1]]
        BY <1>3, <1>4, <2>1, <3>2
      <3>4. m.prev[q[i - 1]] = q[(i - 1) - 1]
        BY <1>1, <3>1 DEF Chain
      <3>5. r[i - 1] = q[(i - 1) - 1]
        BY <1>6, <3>1
      <3> HIDE DEF r
      <3> QED
        BY <2>1, <3>3, <3>4, <3>5
    <2> QED
      BY <2>2, <2>3
  <1>10. \A i, j \in 1 .. n + 1 : r[i] = r[j] => i = j
    BY <1>1, <1>2, <1>3 DEF Chain
  <1>11. Chain(S, p, l, r)
    <2>1. p.count[l] = n + 1 /\ n + 1 \in Nat /\ n + 1 # 0
      BY <1>2, <1>4
    <2> HIDE DEF r, n
    <2> QED
      BY <1>4, <1>6, <1>7, <1>8, <1>9, <1>10, <2>1 DEF Chain
  <1>12. WellFormed(p, l) /\ Items(p, l) = {r[i] : i \in 1 .. n + 1}
    <2> HIDE DEF r, n
    <2> QED
      BY <1>4, <1>11, NewChain
  <1>13. {r[i] : i \in 1 .. n + 1} = {q[i] : i \in 1 .. n} \cup {s}
    <2>1. ASSUME NEW i \in 1 .. n
          PROVE  i + 1 \in 1 .. n + 1 /\ r[i + 1] = q[i]
      BY <1>2
    <2>2. 1 \in 1 .. n + 1 /\ \A i \in 1 .. n + 1 : i = 1 \/ i \in 2 .. n + 1
      BY <1>2
    <2> HIDE DEF r
    <2> QED
      BY <1>6, <2>1, <2>2
  <1>14. HeadIsFirst(p, l)
    BY <1>4, <1>5 DEF HeadIsFirst
  <1> QED
    BY <1>1, <1>4, <1>12, <1>13, <1>14 DEF p

(* It leaves the lists that share no item with the new list alone. *)
LEMMA AddOther ==
    ASSUME NEW S, NEW L, NEW m \in MemoryOf(S, L), NEW l \in L, NULL \notin S,
           NEW s \in S, WellFormed(m, l),
           NEW k \in L, k # l, WellFormed(m, k),
           s \notin Items(m, k), Items(m, k) \cap Items(m, l) = {}
    PROVE  LET p == Add(m, l, s)
           IN  /\ WellFormed(p, k)
               /\ Items(p, k) = Items(m, k)
               /\ HeadIsFirst(m, k) => HeadIsFirst(p, k)
  <1> DEFINE p == Add(m, l, s)
  <1>1. /\ p \in MemoryOf(S, L)
        /\ p.head[k] = m.head[k] /\ p.count[k] = m.count[k]
    BY AddFields
  <1>2. \A x \in Items(m, k) : x \in S /\ x # s /\ x # m.head[l]
    BY FirstItemOfList
  <1>3. \A x \in Items(m, k) : p.next[x] = m.next[x] /\ p.prev[x] = m.prev[x]
    <2>1. /\ \A x \in S : p.next[x] = IF x = s THEN m.head[l] ELSE m.next[x]
          /\ \A x \in S : p.prev[x] = IF x = m.head[l] THEN s
                                     ELSE IF x = s THEN NULL ELSE m.prev[x]
      BY AddFields
    <2> HIDE DEF p
    <2> QED
      BY <1>2, <2>1
  <1> HIDE DEF p
  <1>4. /\ WellFormed(p, k)
        /\ Items(p, k) = Items(m, k)
        /\ HeadIsFirst(m, k) => HeadIsFirst(p, k)
    BY <1>1, <1>3, SameList
  <1> QED
    BY <1>4 DEF p

(* Delete, field by field. *)
LEMMA DeleteFields ==
    ASSUME NEW S, NEW L, NEW m \in MemoryOf(S, L), NEW l \in L, NULL \notin S,
           NEW s \in S, m.head[l] # NULL
    PROVE  LET p == Delete(m, l, s)
           IN  /\ p \in MemoryOf(S, L)
               /\ \A x \in S : p.next[x] = IF x = s THEN NULL
                                          ELSE IF x = m.prev[s] THEN m.next[s] ELSE m.next[x]
               /\ \A x \in S : p.prev[x] = IF x = s THEN NULL
                                          ELSE IF x = m.next[s] THEN m.prev[s] ELSE m.prev[x]
               /\ \A k \in L : p.head[k] = IF k = l /\ m.head[l] = s THEN m.next[s]
                                          ELSE m.head[k]
               /\ \A k \in L : p.count[k] = IF k = l THEN m.count[k] - 1 ELSE m.count[k]
  <1> DEFINE p == Delete(m, l, s)
             nx == Pointing(m.next, m.prev[s], m.next[s])
             pv == Pointing(m.prev, m.next[s], m.prev[s])
  <1>1. m.prev[s] \in S \cup {NULL} /\ m.next[s] \in S \cup {NULL}
    BY DEF MemoryOf
  <1>2. /\ nx \in [S -> S \cup {NULL}]
        /\ \A x \in S : nx[x] = IF x = m.prev[s] THEN m.next[s] ELSE m.next[x]
    BY <1>1 DEF Pointing, MemoryOf
  <1>3. /\ pv \in [S -> S \cup {NULL}]
        /\ \A x \in S : pv[x] = IF x = m.next[s] THEN m.prev[s] ELSE m.prev[x]
    BY <1>1 DEF Pointing, MemoryOf
  <1>4. p = [next  |-> [nx EXCEPT ![s] = NULL],
             prev  |-> [pv EXCEPT ![s] = NULL],
             head  |-> [m.head EXCEPT ![l] = IF @ = s THEN m.next[s] ELSE @],
             count |-> [m.count EXCEPT ![l] = @ - 1]]
    BY DEF Delete
  <1> HIDE DEF p, nx, pv
  <1>5. p \in MemoryOf(S, L)
    BY <1>1, <1>2, <1>3, <1>4 DEF MemoryOf
  <1>6. /\ \A k \in L : p.head[k] = IF k = l /\ m.head[l] = s THEN m.next[s]
                                    ELSE m.head[k]
        /\ \A k \in L : p.count[k] = IF k = l THEN m.count[k] - 1 ELSE m.count[k]
    BY <1>4 DEF MemoryOf
  <1>7. \A x \in S : p.next[x] = IF x = s THEN NULL
                                ELSE IF x = m.prev[s] THEN m.next[s] ELSE m.next[x]
    BY <1>2, <1>4
  <1>8. \A x \in S : p.prev[x] = IF x = s THEN NULL
                                ELSE IF x = m.next[s] THEN m.prev[s] ELSE m.prev[x]
    BY <1>3, <1>4
  <1> QED
    BY <1>5, <1>6, <1>7, <1>8 DEF p

(* The place of an item in a list, and what it is linked to. *)
LEMMA Neighbours ==
    ASSUME NEW S, NEW L, NEW m \in MemoryOf(S, L), NEW l \in L, NULL \notin S,
           NEW q, Chain(S, m, l, q), HeadIsFirst(m, l), NEW i \in 1 .. m.count[l]
    PROVE  /\ m.next[q[i]] = IF i = m.count[l] THEN NULL ELSE q[i + 1]
           /\ m.prev[q[i]] = IF i = 1 THEN NULL ELSE q[i - 1]
           /\ m.head[l] # NULL
           /\ m.head[l] = q[i] <=> i = 1
  <1>1. m.count[l] \in Nat /\ m.count[l] # 0 /\ 1 \in 1 .. m.count[l]
    BY DEF Chain
  <1>2. m.head[l] = q[1] /\ q[1] \in S
    BY <1>1 DEF Chain
  <1>3. i # 1 => i \in 2 .. m.count[l]
    BY <1>1
  <1> QED
    BY <1>1, <1>2, <1>3 DEF Chain, HeadIsFirst

(* Delete takes an item out of the list it is in, wherever it stands there. *)
LEMMA DeleteFromList ==
    ASSUME NEW S, NEW L, NEW m \in MemoryOf(S, L), NEW l \in L, NULL \notin S,
           WellFormed(m, l), HeadIsFirst(m, l), NEW s \in Items(m, l)
    PROVE  LET p == Delete(m, l, s)
           IN  /\ p \in MemoryOf(S, L)
               /\ WellFormed(p, l)
               /\ Items(p, l) = Items(m, l) \ {s}
               /\ HeadIsFirst(p, l)
  <1> DEFINE p == Delete(m, l, s)
             n == m.count[l]
  <1>1. PICK q \in [1 .. n -> S] :
            Chain(S, m, l, q) /\ Items(m, l) = {q[i] : i \in 1 .. n}
    BY ListIsChain
  <1>2. PICK c \in 1 .. n : q[c] = s
    BY <1>1
  <1>3. n \in Nat /\ n # 0 /\ c \in Nat /\ 1 <= c /\ c <= n /\ s \in S
    BY <1>1, <1>2 DEF Chain
  <1>4. \A i, j \in 1 .. n : q[i] = q[j] => i = j
    BY <1>1 DEF Chain
  <1>5. \A i \in 1 .. n : /\ q[i] \in S /\ q[i] # NULL
                          /\ m.next[q[i]] = IF i = n THEN NULL ELSE q[i + 1]
                          /\ m.prev[q[i]] = IF i = 1 THEN NULL ELSE q[i - 1]
                          /\ m.head[l] # NULL
                          /\ m.head[l] = q[i] <=> i = 1
    <2>1. \A i \in 1 .. n : q[i] \in S /\ q[i] # NULL
      BY <1>1
    <2>2. \A r : Chain(S, m, l, r) =>
            \A i \in 1 .. n : /\ m.next[r[i]] = IF i = n THEN NULL ELSE r[i + 1]
                              /\ m.prev[r[i]] = IF i = 1 THEN NULL ELSE r[i - 1]
                              /\ m.head[l] # NULL
                              /\ m.head[l] = r[i] <=> i = 1
      BY Neighbours
    <2>3. \A i \in 1 .. n : /\ m.next[q[i]] = IF i = n THEN NULL ELSE q[i + 1]
                            /\ m.prev[q[i]] = IF i = 1 THEN NULL ELSE q[i - 1]
                            /\ m.head[l] # NULL
                            /\ m.head[l] = q[i] <=> i = 1
      BY <1>1, <2>2
    <2> HIDE DEF n
    <2> QED
      BY <2>1, <2>3
  <1>6. /\ p \in MemoryOf(S, L)
        /\ \A x \in S : p.next[x] = IF x = s THEN NULL
                                   ELSE IF x = m.prev[s] THEN m.next[s] ELSE m.next[x]
        /\ \A x \in S : p.prev[x] = IF x = s THEN NULL
                                   ELSE IF x = m.next[s] THEN m.prev[s] ELSE m.prev[x]
        /\ p.head[l] = IF m.head[l] = s THEN m.next[s] ELSE m.head[l]
        /\ p.count[l] = n - 1
    <2>1. m.head[l] # NULL
      BY <1>2, <1>5
    <2> QED
      BY <1>3, <2>1, DeleteFields
  <1> HIDE DEF p
  <1>7. ASSUME NEW j \in 1 .. n, j # c
        PROVE  /\ p.next[q[j]] = IF j = c - 1 THEN (IF c = n THEN NULL ELSE q[c + 1])
                                 ELSE IF j = n THEN NULL ELSE q[j + 1]
               /\ p.prev[q[j]] = IF j = c + 1 THEN (IF c = 1 THEN NULL ELSE q[c - 1])
                                 ELSE IF j = 1 THEN NULL ELSE q[j - 1]
    <2>1. q[j] # s /\ q[j] \in S /\ q[j] # NULL
      BY <1>2, <1>4, <1>5, <1>7
    <2>2. q[j] = m.prev[s] <=> j = c - 1
      <3>1. CASE c = 1
        BY <1>2, <1>5, <2>1, <3>1
      <3>2. CASE c # 1
        <4>1. c - 1 \in 1 .. n /\ m.prev[s] = q[c - 1]
          BY <1>2, <1>3, <1>5, <3>2
        <4> QED
          BY <1>4, <4>1
      <3> QED
        BY <3>1, <3>2
    <2>3. q[j] = m.next[s] <=> j = c + 1
      <3>1. CASE c = n
        BY <1>2, <1>3, <1>5, <2>1, <3>1
      <3>2. CASE c # n
        <4>1. c + 1 \in 1 .. n /\ m.next[s] = q[c + 1]
          BY <1>2, <1>3, <1>5, <3>2
        <4> QED
          BY <1>4, <4>1
      <3> QED
        BY <3>1, <3>2
    <2>4. /\ m.next[s] = IF c = n THEN NULL ELSE q[c + 1]
          /\ m.prev[s] = IF c = 1 THEN NULL ELSE q[c - 1]
      BY <1>2, <1>5
    <2>5. p.next[q[j]] = IF q[j] = m.prev[s] THEN m.next[s] ELSE m.next[q[j]]
      BY <1>6, <2>1
    <2>6. p.prev[q[j]] = IF q[j] = m.next[s] THEN m.prev[s] ELSE m.prev[q[j]]
      BY <1>6, <2>1
    <2>7. /\ m.next[q[j]] = IF j = n THEN NULL ELSE q[j + 1]
          /\ m.prev[q[j]] = IF j = 1 THEN NULL ELSE q[j - 1]
      BY <1>5
    <2>8. p.next[q[j]] = IF j = c - 1 THEN (IF c = n THEN NULL ELSE q[c + 1])
                         ELSE IF j = n THEN NULL ELSE q[j + 1]
      BY <2>2, <2>4, <2>5, <2>7
    <2>9. p.prev[q[j]] = IF j = c + 1 THEN (IF c = 1 THEN NULL ELSE q[c - 1])
                         ELSE IF j = 1 THEN NULL ELSE q[j - 1]
      BY <2>3, <2>4, <2>6, <2>7
    <2> QED
      BY <2>8, <2>9
  <1> DEFINE r == [i \in 1 .. n - 1 |-> IF i < c THEN q[i] ELSE q[i + 1]]
  <1>8. \A i \in 1 .. n - 1 : /\ i < c => i \in 1 .. n /\ i # c /\ r[i] = q[i]
                              /\ ~(i < c) => i + 1 \in 1 .. n /\ i + 1 # c /\ r[i] = q[i + 1]
    BY <1>3
  <1>9. r \in [1 .. n - 1 -> S]
    BY <1>5, <1>8
  <1>10. p.head[l] = IF n - 1 = 0 THEN NULL ELSE r[1]
    <2>1. CASE c = 1
      <3>1. m.head[l] = s /\ m.next[s] = IF 1 = n THEN NULL ELSE q[1 + 1]
        BY <1>2, <1>5, <2>1
      <3>2. n # 1 => r[1] = q[1 + 1]
        BY <1>3, <2>1
      <3> HIDE DEF r
      <3> QED
        BY <1>3, <1>6, <3>1, <3>2
    <2>2. CASE c # 1
      <3>1. 1 \in 1 .. n /\ m.head[l] = q[1] /\ m.head[l] # s /\ n # 1
        BY <1>2, <1>3, <1>5, <2>2
      <3>2. r[1] = q[1]
        BY <1>3, <2>2
      <3> HIDE DEF r
      <3> QED
        BY <1>3, <1>6, <3>1, <3>2
    <2> QED
      BY <2>1, <2>2
  <1>11. \A i \in 1 .. n - 1 : p.next[r[i]] = IF i = n - 1 THEN NULL ELSE r[i + 1]
    <2> SUFFICES ASSUME NEW i \in 1 .. n - 1
                 PROVE  p.next[r[i]] = IF i = n - 1 THEN NULL ELSE r[i + 1]
      OBVIOUS
    <2>1. CASE i < c
      <3>1. i \in 1 .. n /\ i # c /\ r[i] = q[i]
        BY <1>8, <2>1
      <3>2. p.next[q[i]] = IF i = c - 1 THEN (IF c = n THEN NULL ELSE q[c + 1])
                           ELSE IF i = n THEN NULL ELSE q[i + 1]
        BY <1>7, <3>1
      <3>3. i # n - 1 => r[i + 1] = IF i + 1 < c THEN q[i + 1] ELSE q[(i + 1) + 1]
        <4>1. i # n - 1 => i + 1 \in 1 .. n - 1
          BY <1>3
        <4> QED
          BY <4>1
      <3>4. (i = c - 1 /\ c = n) <=> i = n - 1
        BY <1>3, <2>1
      <3> HIDE DEF r
      <3>5. CASE i = c - 1
        BY <1>3, <3>1, <3>2, <3>3, <3>4, <3>5
      <3>6. CASE i # c - 1
        BY <1>3, <2>1, <3>1, <3>2, <3>3, <3>4, <3>6
      <3> QED
        BY <3>5, <3>6
    <2>2. CASE ~(i < c)
      <3>1. i + 1 \in 1 .. n /\ i + 1 # c /\ r[i] = q[i + 1] /\ i + 1 # c - 1
        BY <1>3, <1>8, <2>2
      <3>2. p.next[q[i + 1]] = IF i + 1 = n THEN NULL ELSE q[(i + 1) + 1]
        BY <1>7, <3>1
      <3>3. i # n - 1 => r[i + 1] = q[(i + 1) + 1]
        <4>1. i # n - 1 => i + 1 \in 1 .. n - 1 /\ ~(i + 1 < c)
          BY <1>3, <2>2
        <4> QED
          BY <4>1
      <3> HIDE DEF r
      <3> QED
        BY <1>3, <3>1, <3>2, <3>3
    <2> QED
      BY <2>1, <2>2
  <1>12. \A i \in 2 .. n - 1 : p.prev[r[i]] = r[i - 1]
    <2> SUFFICES ASSUME NEW i \in 2 .. n - 1
                 PROVE  p.prev[r[i]] = r[i - 1]
      OBVIOUS
    <2>0. i \in 1 .. n - 1 /\ i - 1 \in 1 .. n - 1 /\ i # 1
      BY <1>3
    <2>1. CASE i < c
      <3>1. i \in 1 .. n /\ i # c /\ r[i] = q[i] /\ i # c + 1
        BY <1>3, <1>8, <2>0, <2>1
      <3>2. p.prev[q[i]] = q[i - 1]
        BY <1>7, <2>0, <3>1
      <3>3. r[i - 1] = q[i - 1]
        BY <1>3, <2>0, <2>1
      <3> HIDE DEF r
      <3> QED
        BY <3>1, <3>2, <3>3
    <2>2. CASE ~(i < c)
      <3>1. i + 1 \in 1 .. n /\ i + 1 # c /\ r[i] = q[i + 1] /\ i + 1 # 1
        BY <1>3, <1>8, <2>0, <2>2
      <3>2. p.prev[q[i + 1]] = IF i + 1 = c + 1 THEN (IF c = 1 THEN NULL ELSE q[c - 1])
                               ELSE q[(i + 1) - 1]
        BY <1>7, <3>1
      <3>3. r[i - 1] = IF i - 1 < c THEN q[i - 1] ELSE q[(i - 1) + 1]
        BY <2>0
      <3> HIDE DEF r
      <3>4. CASE i = c
        BY <1>3, <2>0, <3>1, <3>2, <3>3, <3>4
      <3>5. CASE i # c
        BY <1>3, <2>0, <2>2, <3>1, <3>2, <3>3, <3>5
      <3> QED
        BY <3>4, <3>5
    <2> QED
      BY <2>1, <2>2
  <1>13. \A i, j \in 1 .. n - 1 : r[i] = r[j] => i = j
    <2> HIDE DEF r
    <2> QED
      BY <1>3, <1>4, <1>8
  <1>14. Chain(S, p, l, r)
    <2>1. p.count[l] = n - 1 /\ n - 1 \in Nat
      BY <1>3, <1>6
    <2> HIDE DEF r, n
    <2> QED
      BY <1>9, <1>10, <1>11, <1>12, <1>13, <2>1 DEF Chain
  <1>15. WellFormed(p, l) /\ Items(p, l) = {r[i] : i \in 1 .. n - 1}
    <2> HIDE DEF r, n
    <2> QED
      BY <1>6, <1>14, NewChain
  <1>16. {r[i] : i \in 1 .. n - 1} = {q[i] : i \in 1 .. n} \ {s}
    <2>1. ASSUME NEW i \in 1 .. n, q[i] # s
          PROVE  \E j \in 1 .. n - 1 : r[j] = q[i]
      <3>1. i # c
        BY <1>2, <2>1
      <3>2. CASE i < c
        <4>1. i \in 1 .. n - 1 /\ r[i] = q[i]
          BY <1>3, <3>2
        <4> QED
          BY <4>1
      <3>3. CASE ~(i < c)
        <4>1. i - 1 \in 1 .. n - 1 /\ r[i - 1] = q[i]
          BY <1>3, <3>1, <3>3
        <4> QED
          BY <4>1
      <3> QED
        BY <3>2, <3>3
    <2>2. \A i \in 1 .. n - 1 : r[i] # s /\ \E j \in 1 .. n : r[i] = q[j]
      <3> HIDE DEF r
      <3> QED
        BY <1>2, <1>4, <1>8
    <2> HIDE DEF r
    <2> QED
      BY <2>1, <2>2
  <1>17. HeadIsFirst(p, l)
    <2>1. CASE n = 1
      BY <1>10, <2>1 DEF HeadIsFirst
    <2>2. CASE n # 1 /\ c = 1
      <3>1. 2 \in 1 .. n /\ 2 # c /\ p.head[l] = q[2]
        BY <1>3, <1>10, <2>2
      <3>2. p.prev[q[2]] = NULL
        BY <1>7, <2>2, <3>1
      <3> QED
        BY <3>1, <3>2 DEF HeadIsFirst
    <2>3. CASE n # 1 /\ c # 1
      <3>1. 1 \in 1 .. n /\ 1 # c /\ 1 # c + 1 /\ p.head[l] = q[1]
        BY <1>3, <1>10, <2>3
      <3>2. p.prev[q[1]] = NULL
        BY <1>7, <3>1
      <3> QED
        BY <3>1, <3>2 DEF HeadIsFirst
    <2> QED
      BY <2>1, <2>2, <2>3
  <1> QED
    BY <1>1, <1>6, <1>15, <1>16, <1>17 DEF p

(* What the links of an item of a list point at is in the list too. *)
LEMMA LinksInside ==
    ASSUME NEW S, NEW L, NEW m \in MemoryOf(S, L), NEW l \in L, NULL \notin S,
           WellFormed(m, l), HeadIsFirst(m, l), NEW s \in Items(m, l)
    PROVE  /\ m.head[l] # NULL
           /\ m.next[s] \in Items(m, l) \cup {NULL}
           /\ m.prev[s] \in Items(m, l) \cup {NULL}
  <1> DEFINE n == m.count[l]
  <1>1. PICK q \in [1 .. n -> S] :
            Chain(S, m, l, q) /\ Items(m, l) = {q[i] : i \in 1 .. n}
    BY ListIsChain
  <1>2. PICK c \in 1 .. n : q[c] = s
    BY <1>1
  <1>3. n \in Nat /\ c # 1 => c - 1 \in 1 .. n
    BY <1>1 DEF Chain
  <1>4. c # n => c + 1 \in 1 .. n
    BY <1>1 DEF Chain
  <1>5. \A r : Chain(S, m, l, r) =>
            \A i \in 1 .. n : /\ m.next[r[i]] = IF i = n THEN NULL ELSE r[i + 1]
                              /\ m.prev[r[i]] = IF i = 1 THEN NULL ELSE r[i - 1]
                              /\ m.head[l] # NULL
    BY Neighbours
  <1>6. /\ m.next[s] = IF c = n THEN NULL ELSE q[c + 1]
        /\ m.prev[s] = IF c = 1 THEN NULL ELSE q[c - 1]
        /\ m.head[l] # NULL
    BY <1>1, <1>2, <1>5
  <1>7. n \in Nat
    BY <1>1 DEF Chain
  <1> HIDE DEF n
  <1> QED
    BY <1>1, <1>3, <1>4, <1>6, <1>7

(* Delete leaves the lists that share no item with the list alone. *)
LEMMA DeleteOther ==
    ASSUME NEW S, NEW L, NEW m \in MemoryOf(S, L), NEW l \in L, NULL \notin S,
           WellFormed(m, l), HeadIsFirst(m, l), NEW s \in Items(m, l),
           NEW k \in L, k # l, WellFormed(m, k), Items(m, k) \cap Items(m, l) = {}
    PROVE  LET p == Delete(m, l, s)
           IN  /\ WellFormed(p, k)
               /\ Items(p, k) = Items(m, k)
               /\ HeadIsFirst(m, k) => HeadIsFirst(p, k)
  <1> DEFINE p == Delete(m, l, s)
  <1>1. /\ m.head[l] # NULL
        /\ m.next[s] \in Items(m, l) \cup {NULL}
        /\ m.prev[s] \in Items(m, l) \cup {NULL}
    BY LinksInside
  <1>2. s \in S
    BY FirstItemOfList
  <1>3. /\ p \in MemoryOf(S, L)
        /\ p.head[k] = m.head[k] /\ p.count[k] = m.count[k]
    BY <1>1, <1>2, DeleteFields
  <1>4. /\ \A x \in S : p.next[x] = IF x = s THEN NULL
                                   ELSE IF x = m.prev[s] THEN m.next[s] ELSE m.next[x]
        /\ \A x \in S : p.prev[x] = IF x = s THEN NULL
                                   ELSE IF x = m.next[s] THEN m.prev[s] ELSE m.prev[x]
    BY <1>1, <1>2, DeleteFields
  <1> HIDE DEF p
  <1>5. \A x \in Items(m, k) : x \in S /\ x \notin Items(m, l)
    BY FirstItemOfList
  <1>6. \A x \in Items(m, k) : p.next[x] = m.next[x] /\ p.prev[x] = m.prev[x]
    BY <1>1, <1>4, <1>5
  <1>7. /\ WellFormed(p, k)
        /\ Items(p, k) = Items(m, k)
        /\ HeadIsFirst(m, k) => HeadIsFirst(p, k)
    BY <1>3, <1>6, SameList
  <1> QED
    BY <1>7 DEF p

(* The assignment of a list to an empty one, and the end of the former: the *)
(* items change their list and nothing else happens.                        *)
LEMMA AssignList ==
    ASSUME NEW S, NEW L, NEW m \in MemoryOf(S, L), NULL \notin S,
           NEW l \in L, NEW from \in L, l # from, WellFormed(m, from)
    PROVE  LET p == CleanUpList(Assign(m, l, from), from)
           IN  /\ p \in MemoryOf(S, L)
               /\ WellFormed(p, l) /\ WellFormed(p, from)
               /\ Items(p, l) = Items(m, from) /\ Items(p, from) = {}
               /\ HeadIsFirst(m, from) => HeadIsFirst(p, l)
               /\ HeadIsFirst(p, from)
               /\ \A k \in L \ {l, from} : WellFormed(m, k) =>
                    /\ WellFormed(p, k)
                    /\ Items(p, k) = Items(m, k)
                    /\ HeadIsFirst(m, k) => HeadIsFirst(p, k)
  <1> DEFINE p == CleanUpList(Assign(m, l, from), from)
  <1>1. /\ p \in MemoryOf(S, L)
        /\ p.next = m.next /\ p.prev = m.prev
        /\ p.head[l] = m.head[from] /\ p.count[l] = m.count[from]
        /\ p.head[from] = NULL /\ p.count[from] = 0
        /\ \A k \in L \ {l, from} : p.head[k] = m.head[k] /\ p.count[k] = m.count[k]
    BY DEF MemoryOf, Assign, CleanUpList
  <1> HIDE DEF p
  <1>2. WellFormed(p, from) /\ Items(p, from) = {} /\ HeadIsFirst(p, from)
    BY <1>1, EmptyList
  <1>3. /\ WellFormed(p, l)
        /\ Items(p, l) = Items(m, from)
        /\ HeadIsFirst(m, from) => HeadIsFirst(p, l)
    BY <1>1, SameList
  <1>4. ASSUME NEW k \in L \ {l, from}, WellFormed(m, k)
        PROVE  /\ WellFormed(p, k)
               /\ Items(p, k) = Items(m, k)
               /\ HeadIsFirst(m, k) => HeadIsFirst(p, k)
    BY <1>1, <1>4, SameList
  <1> QED
    BY <1>1, <1>2, <1>3, <1>4 DEF p
=============================================================================
