------------------------- MODULE GYLogicServer_proofs -------------------------
(***************************************************************************)
(* What holds of the logic server for any number of gateways, humans, ids,  *)
(* descriptors and zones, any length of the scene's array and any hash      *)
(* function, and under every fault.                                         *)
(***************************************************************************)
EXTENDS GYLogicServer, GYList_proofs

LinkLists == {"free", "work", "temp"}
WorldLists == {POOL} \cup Zone

-----------------------------------------------------------------------------
(* A list of everything there is, as Init makes it: no list has anything    *)
(* before, and afterwards one has each item once.                           *)

(* After i turns of Init's loop over the items. *)
HasFirst(S, L, l, order, m, i) ==
    /\ m \in MemoryOf(S, L)
    /\ WellFormed(m, l)
    /\ Items(m, l) = {order[j] : j \in 1 .. i}
    /\ \A k \in L \ {l} : m.head[k] = NULL /\ m.count[k] = 0

(* The loop of Init, a turn at a time. *)
LEMMA FilledSteps ==
    ASSUME NEW S, NEW L, NULL \notin S, NEW l \in L, NEW n \in Nat,
           NEW order \in [1 .. n -> S], NEW m \in MemoryOf(S, L)
    PROVE  \E f : f = [i \in 0 .. n |-> IF i = 0 THEN m ELSE Add(f[i - 1], l, order[i])]
  <1> DEFINE M == MemoryOf(S, L)
             T == Nat \X M
             g == [x \in T |-> <<x[1] + 1, IF x[1] + 1 \in 1 .. n
                                           THEN Add(x[2], l, order[x[1] + 1]) ELSE x[2]>>]
             a == <<0, m>>
  <1>1. a \in T
    OBVIOUS
  <1>2. g \in [T -> T]
    <2> SUFFICES ASSUME NEW x \in T
                 PROVE  g[x] \in T
      OBVIOUS
    <2>1. x[1] \in Nat /\ x[2] \in M
      OBVIOUS
    <2>2. \A s \in S : Add(x[2], l, s) \in M
      BY <2>1, AddFields
    <2> QED
      BY <2>1, <2>2
  <1>3. PICK w \in [Nat \ {0} -> T] : w[1] = a /\ \A i \in Nat \ {0} : w[i + 1] = g[w[i]]
    <2> HIDE DEF T, g, a
    <2>1. HasRun(T, a, g)
      BY <1>1, <1>2, Iteration
    <2> QED
      BY <2>1 DEF HasRun
  <1>4. \A i \in Nat : w[i + 1][1] = i
    <2> DEFINE R == {i \in Nat : w[i + 1][1] = i}
    <2>1. 0 \in R
      <3>1. w[1] = <<0, m>>
        BY <1>3
      <3> QED
        BY <3>1
    <2>2. ASSUME NEW i \in Nat, i \in R
          PROVE  i + 1 \in R
      <3>1. i + 1 \in Nat \ {0}
        OBVIOUS
      <3>2. w[(i + 1) + 1] = g[w[i + 1]] /\ w[i + 1] \in T
        <4> HIDE DEF T, g, R
        <4> QED
          BY <1>3, <3>1
      <3> QED
        BY <2>2, <3>2
    <2> HIDE DEF R
    <2>3. Nat \subseteq R
      BY <2>1, <2>2, SetInduction
    <2> QED
      BY <2>3 DEF R
  <1> DEFINE f == [i \in 0 .. n |-> w[i + 1][2]]
  <1>5. f[0] = m
    BY <1>3
  <1>6. ASSUME NEW i \in 1 .. n
        PROVE  f[i] = Add(f[i - 1], l, order[i])
    <2>1. i - 1 \in Nat /\ i - 1 \in 0 .. n /\ (i - 1) + 1 = i /\ i \in Nat \ {0}
      OBVIOUS
    <2>2. w[i + 1] = g[w[i]] /\ w[i] \in T /\ w[i][1] = i - 1
      BY <1>3, <1>4, <2>1
    <2>3. w[i + 1][2] = Add(w[i][2], l, order[i])
      BY <2>1, <2>2
    <2> QED
      BY <2>1, <2>3
  <1>7. f = [i \in 0 .. n |-> IF i = 0 THEN m ELSE Add(f[i - 1], l, order[i])]
    <2> SUFFICES \A i \in 0 .. n : f[i] = IF i = 0 THEN m ELSE Add(f[i - 1], l, order[i])
      OBVIOUS
    <2> HIDE DEF f
    <2> QED
      BY <1>5, <1>6
  <1> QED
    BY <1>7

(* The list that Init fills has everything, in the order it was added. *)
LEMMA FilledList ==
    ASSUME NEW S, NEW L, IsFiniteSet(S), NULL \notin S, NEW l \in L, NEW order \in Orders(S),
           NEW m, m = Filled0(Memory(S, L), l, order)
    PROVE  /\ m \in MemoryOf(S, L)
           /\ WellFormed(m, l)
           /\ Items(m, l) = S
           /\ \A k \in L \ {l} : /\ m.head[k] = NULL /\ m.count[k] = 0
                                 /\ WellFormed(m, k) /\ Items(m, k) = {} /\ HeadIsFirst(m, k)
  <1> DEFINE n == Cardinality(S)
             m0 == Memory(S, L)
             IsAfter(f) == f = [i \in 0 .. n |-> IF i = 0 THEN m0
                                                ELSE Add(f[i - 1], l, order[i])]
             after == CHOOSE f : IsAfter(f)
  <1>1. n \in Nat /\ order \in [1 .. n -> S] /\ \A i, j \in 1 .. n : order[i] = order[j] => i = j
    BY FS_CardinalityType DEF Orders
  <1>2. m0 \in MemoryOf(S, L)
    BY DEF Memory, MemoryOf
  <1>3. m = after[n]
    <2>1. Len(order) = n /\ DOMAIN order = 1 .. n
      BY <1>1
    <2> QED
      BY <2>1 DEF Filled0
  <1>4. IsAfter(after)
    <2>1. \E f : IsAfter(f)
      <3> HIDE DEF n, m0
      <3> QED
        BY <1>1, <1>2, FilledSteps
    <2> HIDE DEF IsAfter
    <2> QED
      BY <2>1
  <1>5. after[0] = m0 /\ \A i \in 1 .. n : after[i] = Add(after[i - 1], l, order[i])
    <2> HIDE DEF after, n, m0
    <2> QED
      BY <1>1, <1>4
  <1> HIDE DEF n, after
  <1>6. \A i \in 0 .. n : HasFirst(S, L, l, order, after[i], i)
    <2> DEFINE R == {i \in Nat : i <= n => HasFirst(S, L, l, order, after[i], i)}
    <2>1. 0 \in R
      <3>1. WellFormed(m0, l) /\ Items(m0, l) = {}
        BY <1>2, EmptyList DEF Memory
      <3>2. {order[j] : j \in 1 .. 0} = {}
        OBVIOUS
      <3>3. \A k \in L : m0.head[k] = NULL /\ m0.count[k] = 0
        BY DEF Memory
      <3> HIDE DEF m0
      <3> QED
        BY <1>1, <1>2, <1>5, <3>1, <3>2, <3>3 DEF HasFirst
    <2>2. ASSUME NEW i \in Nat, i \in R
          PROVE  i + 1 \in R
      <3> SUFFICES ASSUME i + 1 <= n
                   PROVE  HasFirst(S, L, l, order, after[i + 1], i + 1)
        OBVIOUS
      <3> DEFINE b == after[i]
                 s == order[i + 1]
                 p == after[i + 1]
      <3>1. /\ b \in MemoryOf(S, L) /\ WellFormed(b, l)
            /\ Items(b, l) = {order[j] : j \in 1 .. i}
            /\ \A k \in L \ {l} : b.head[k] = NULL /\ b.count[k] = 0
        BY <1>1, <2>2 DEF HasFirst
      <3>2. s \in S /\ s \notin Items(b, l)
        BY <1>1, <3>1
      <3>3. p = Add(b, l, s)
        <4>1. i + 1 \in 1 .. n /\ (i + 1) - 1 = i
          BY <1>1
        <4> QED
          BY <1>5, <4>1
      <3> HIDE DEF b, p, s
      <3>4. /\ p \in MemoryOf(S, L) /\ WellFormed(p, l)
            /\ Items(p, l) = Items(b, l) \cup {s}
        BY <3>1, <3>2, <3>3, AddToList
      <3>5. \A k \in L \ {l} : p.head[k] = NULL /\ p.count[k] = 0
        <4>1. /\ \A k \in L : p.head[k] = IF k = l THEN s ELSE b.head[k]
              /\ \A k \in L : p.count[k] = IF k = l THEN b.count[k] + 1 ELSE b.count[k]
          BY <3>1, <3>2, <3>3, AddFields
        <4> QED
          BY <3>1, <4>1
      <3>6. {order[j] : j \in 1 .. i + 1} = {order[j] : j \in 1 .. i} \cup {s}
        BY DEF s
      <3> QED
        BY <3>1, <3>4, <3>5, <3>6 DEF HasFirst, p
    <2> HIDE DEF R
    <2>3. Nat \subseteq R
      BY <2>1, <2>2, SetInduction
    <2> QED
      BY <1>1, <2>3 DEF R
  <1>7. HasFirst(S, L, l, order, m, n)
    BY <1>1, <1>3, <1>6
  <1>8. {order[j] : j \in 1 .. n} = S
    <2>1. order \in Injection(1 .. n, S)
      BY <1>1 DEF Injection, IsInjective
    <2>2. Cardinality(1 .. n) = n
      BY <1>1, FS_Interval
    <2>3. order \in Surjection(1 .. n, S)
      BY <2>1, <2>2, FS_Injection DEF n
    <2> QED
      BY <1>1, <2>3 DEF Surjection
  <1>9. \A k \in L \ {l} : /\ m.head[k] = NULL /\ m.count[k] = 0
                           /\ WellFormed(m, k) /\ Items(m, k) = {} /\ HeadIsFirst(m, k)
    BY <1>7, EmptyList DEF HasFirst
  <1> QED
    BY <1>7, <1>8, <1>9 DEF HasFirst

-----------------------------------------------------------------------------
(* The gateways: the sessions, the lists, the descriptors and the reactor.  *)
SessionType == [reactor : BOOLEAN, manager : BOOLEAN, busy : BOOLEAN, output : BOOLEAN,
                fd : Fd \cup {NULL}]

ReactorType == [up : BOOLEAN, count : Int, listen : BOOLEAN,
                watched : SUBSET GatewaySession,
                ready : SUBSET (GatewaySession \cup {"listen"})]

NetTypes ==
    /\ link \in MemoryOf(GatewaySession, LinkLists)
    /\ session \in [GatewaySession -> SessionType]
    /\ reactor \in ReactorType
    /\ open \subseteq Fd /\ sock \in Fd \cup {NULL}
    /\ trouble \in Seq({"stale", "closed", "unsent"})
    /\ pc \in {"poll", "events", "accept", "receive", "tick", "scene", "aborted", "hung"}
    /\ cur \in GatewaySession \cup {NULL}
    /\ pc = "receive" => cur \in GatewaySession

Listening(r) == IF r.listen THEN 1 ELSE 0

(* The reactor counts at least what it watches, whatever has gone wrong, and *)
(* a reactor that was released watches nothing.                              *)
Counts(r) ==
    IF r.up
    THEN Cardinality(r.watched) + Listening(r) <= r.count /\ r.count <= MaxReactorSize
    ELSE r.count = 0 /\ r.watched = {} /\ r.ready = {} /\ ~r.listen

(* Until an accept error, what the reactor watches are the sessions in use,   *)
(* each with a descriptor of its own, and it counts just them.               *)
Owned ==
    ~AcceptErred =>
        /\ ConnectionsOwnedOnce
        /\ ReactorHasRoom
        /\ \A s \in GatewaySession : session[s].busy <=> session[s].reactor
        /\ reactor.ready \ {"listen"} \subseteq reactor.watched

NetInv == NetTypes /\ Counts(reactor) /\ Owned

(* The first item of a list is a session. *)
LEMMA FirstSession ==
    ASSUME NetTypes, NEW l \in LinkLists
    PROVE  FirstItem(link, l) \in GatewaySession \cup {NULL}
  BY DEF NetTypes, MemoryOf, FirstItem

(* PickUpFirstItem keeps the lists' fields what they are. *)
LEMMA PickUpLink ==
    ASSUME NetTypes, NEW l \in LinkLists, FirstItem(link, l) # NULL
    PROVE  PickUpFirstItem(link, l) \in MemoryOf(GatewaySession, LinkLists)
  BY DEF NetTypes, MemoryOf, FirstItem, PickUpFirstItem

(* Taking a session off one list and adding it to one. *)
LEMMA MoveLink ==
    ASSUME NetTypes, NEW l \in LinkLists, NEW k \in LinkLists, NEW s \in GatewaySession,
           FirstItem(link, l) # NULL
    PROVE  Add(PickUpFirstItem(link, l), k, s) \in MemoryOf(GatewaySession, LinkLists)
  BY PickUpLink, AddFields, LogicAssumption

(* Watching less, and counting no less. *)
LEMMA CountsLess ==
    ASSUME NEW r \in ReactorType, NEW p \in ReactorType, Counts(r),
           p.up = r.up, p.count = r.count, p.listen = r.listen,
           p.watched \subseteq r.watched, p.ready \subseteq r.ready
    PROVE  Counts(p)
  <1>1. CASE ~r.up
    BY <1>1 DEF Counts, ReactorType
  <1>2. CASE r.up
    <2>1. IsFiniteSet(r.watched)
      BY LogicAssumption, FS_Subset DEF ReactorType
    <2>2. /\ Cardinality(r.watched) \in Nat /\ Cardinality(p.watched) \in Nat
          /\ Cardinality(p.watched) <= Cardinality(r.watched)
      BY <2>1, FS_Subset, FS_CardinalityType
    <2>3. Listening(p) = Listening(r) /\ Listening(r) \in Nat
      BY DEF Listening
    <2>4. r.count \in Int /\ MaxReactorSize \in Int
      BY LogicAssumption DEF ReactorType
    <2>5. Cardinality(r.watched) + Listening(r) <= r.count /\ r.count <= MaxReactorSize
      BY <1>2 DEF Counts
    <2>6. Cardinality(p.watched) + Listening(p) <= p.count
      BY <2>2, <2>3, <2>4, <2>5
    <2> QED
      BY <1>2, <2>5, <2>6 DEF Counts
  <1> QED
    BY <1>1, <1>2

(* One session more, or one less, and its event counted. *)
LEMMA WatchOne ==
    ASSUME NEW W \in SUBSET GatewaySession, NEW s \in GatewaySession
    PROVE  /\ Cardinality(W) \in Nat
           /\ Cardinality(W \cup {s}) \in Nat /\ Cardinality(W \ {s}) \in Nat
           /\ Cardinality(W \cup {s}) <= Cardinality(W) + 1
           /\ s \in W => Cardinality(W \ {s}) = Cardinality(W) - 1
           /\ s \notin W => Cardinality(W \cup {s}) = Cardinality(W) + 1
  <1>1. IsFiniteSet(W)
    BY LogicAssumption, FS_Subset
  <1>2. Cardinality(W) \in Nat
    BY <1>1, FS_CardinalityType
  <1>3. /\ Cardinality(W \cup {s}) = IF s \in W THEN Cardinality(W) ELSE Cardinality(W) + 1
        /\ Cardinality(W \ {s}) = IF s \in W THEN Cardinality(W) - 1 ELSE Cardinality(W)
        /\ IsFiniteSet(W \ {s})
    BY <1>1, FS_AddElement, FS_RemoveElement
  <1>4. Cardinality(W \ {s}) \in Nat
    BY <1>3, FS_CardinalityType
  <1> QED
    BY <1>2, <1>3, <1>4

(* Unwatched watches no more than before. *)
LEMMA UnwatchedLess ==
    ASSUME NEW r \in ReactorType, Counts(r), NEW fd
    PROVE  Unwatched(r, fd) \in ReactorType /\ Counts(Unwatched(r, fd))
  <1> DEFINE p == Unwatched(r, fd)
  <1>1. /\ p \in ReactorType
        /\ p.up = r.up /\ p.count = r.count /\ p.listen = r.listen
        /\ p.watched \subseteq r.watched /\ p.ready = r.ready
    BY DEF ReactorType, Unwatched
  <1> HIDE DEF p
  <1>2. Counts(p)
    BY <1>1, CountsLess
  <1> QED
    BY <1>1, <1>2 DEF p

(* A new event, where AddEvent finds room. *)
LEMMA CountsMore ==
    ASSUME NEW r \in ReactorType, Counts(r), r.up, r.count < MaxReactorSize,
           NEW s \in GatewaySession,
           NEW p, p = [r EXCEPT !.watched = @ \cup {s}, !.count = @ + 1]
    PROVE  p \in ReactorType /\ Counts(p)
  <1>1. /\ p.up /\ p.count = r.count + 1 /\ p.listen = r.listen
        /\ p.watched = r.watched \cup {s} /\ r.watched \in SUBSET GatewaySession
        /\ r.count \in Int
    BY DEF ReactorType
  <1>6. p \in ReactorType
    <2>1. r.watched \cup {s} \in SUBSET GatewaySession /\ r.count + 1 \in Int
      BY <1>1
    <2> QED
      BY <2>1 DEF ReactorType
  <1>0. MaxReactorSize \in Int
    BY LogicAssumption
  <1>2. /\ Cardinality(r.watched) \in Nat /\ Cardinality(p.watched) \in Nat
        /\ Cardinality(p.watched) <= Cardinality(r.watched) + 1
    BY <1>1, WatchOne
  <1>3. Listening(p) = Listening(r) /\ Listening(r) \in Nat
    BY <1>1 DEF Listening
  <1>4. Cardinality(r.watched) + Listening(r) <= r.count
    BY DEF Counts
  <1>5. Cardinality(p.watched) + Listening(p) <= p.count /\ p.count <= MaxReactorSize
    BY <1>0, <1>1, <1>2, <1>3, <1>4
  <1> QED
    BY <1>1, <1>5, <1>6 DEF Counts

(* The event of a session is taken out and counted down. *)
LEMMA DeleteEventCounts ==
    ASSUME NEW r \in ReactorType, Counts(r), NEW s \in GatewaySession
    PROVE  DeleteEvent(r, s) \in ReactorType /\ Counts(DeleteEvent(r, s))
  <1> DEFINE p == [r EXCEPT !.watched = @ \ {s}, !.count = @ - 1]
  <1>1. CASE ~(session[s].busy /\ r.up /\ s \in r.watched)
    BY <1>1 DEF DeleteEvent
  <1>2. CASE session[s].busy /\ r.up /\ s \in r.watched
    <2>1. /\ p.up = r.up /\ p.count = r.count - 1 /\ p.listen = r.listen
          /\ p.watched = r.watched \ {s} /\ r.watched \in SUBSET GatewaySession
          /\ r.count \in Int
      BY DEF ReactorType
    <2>7. p \in ReactorType
      <3>1. r.watched \ {s} \in SUBSET GatewaySession /\ r.count - 1 \in Int
        BY <2>1
      <3> QED
        BY <3>1 DEF ReactorType
    <2>0. MaxReactorSize \in Int
      BY LogicAssumption
    <2>2. DeleteEvent(r, s) = p
      BY <1>2 DEF DeleteEvent
    <2> HIDE DEF p
    <2>3. /\ Cardinality(r.watched) \in Nat
          /\ Cardinality(p.watched) = Cardinality(r.watched) - 1
      BY <1>2, <2>1, WatchOne
    <2>4. Listening(p) = Listening(r) /\ Listening(r) \in Nat
      BY <2>1 DEF Listening
    <2>5. Cardinality(r.watched) + Listening(r) <= r.count /\ r.count <= MaxReactorSize
      BY <1>2 DEF Counts
    <2>6. Cardinality(p.watched) + Listening(p) <= p.count /\ p.count <= MaxReactorSize
      BY <2>0, <2>1, <2>3, <2>4, <2>5
    <2> QED
      BY <1>2, <2>1, <2>2, <2>6, <2>7 DEF Counts
  <1> QED
    BY <1>1, <1>2

(* A turn of the accept loop, with whatever descriptor, keeps the types and   *)
(* the counts.                                                               *)
LEMMA ServeTypes ==
    ASSUME NetTypes, Counts(reactor), NEW fd \in Fd, Serve(fd)
    PROVE  /\ link' \in MemoryOf(GatewaySession, LinkLists)
           /\ session' \in [GatewaySession -> SessionType]
           /\ reactor' \in ReactorType /\ Counts(reactor')
           /\ open' \subseteq Fd /\ sock' \in Fd \cup {NULL}
  <1> DEFINE s == FirstItem(link, "free")
  <1>1. /\ link \in MemoryOf(GatewaySession, LinkLists)
        /\ session \in [GatewaySession -> SessionType]
        /\ reactor \in ReactorType
        /\ open \subseteq Fd
        /\ "free" \in LinkLists /\ "work" \in LinkLists
        /\ s \in GatewaySession \cup {NULL}
    BY FirstSession DEF NetTypes, LinkLists
  <1>2. s # NULL =>
            /\ Add(PickUpFirstItem(link, "free"), "free", s) \in MemoryOf(GatewaySession, LinkLists)
            /\ Add(PickUpFirstItem(link, "free"), "work", s) \in MemoryOf(GatewaySession, LinkLists)
    BY <1>1, MoveLink
  <1> HIDE DEF s
  <1>3. CASE Refused(fd, s)
    <2>1. Unwatched(reactor, fd) \in ReactorType /\ Counts(Unwatched(reactor, fd))
      BY <1>1, UnwatchedLess
    <2> QED
      BY <1>1, <1>2, <1>3, <2>1 DEF Refused
  <1>4. CASE s # NULL /\ CanAddEvent(fd) /\ Accepted(fd, s) /\ open' = open \cup {fd}
    <2>1. reactor' = [reactor EXCEPT !.watched = @ \cup {s}, !.count = @ + 1]
      BY <1>4 DEF Accepted
    <2>2. reactor' \in ReactorType /\ Counts(reactor')
      BY <1>1, <1>4, <2>1, CountsMore DEF CanAddEvent
    <2>3. session' \in [GatewaySession -> SessionType]
      BY <1>1, <1>4 DEF Accepted, SessionType
    <2> QED
      BY <1>1, <1>2, <1>4, <2>2, <2>3 DEF Accepted
  <1>5. CASE s # NULL /\ EventRefused(fd, s)
    <2>1. reactor' \in ReactorType /\ Counts(reactor')
      BY <1>5 DEF EventRefused, ReactorReleased, ReactorType, Counts
    <2>2. session' \in [GatewaySession -> SessionType]
      <3>1. [CleanUp(session[s]) EXCEPT !.fd = NULL] \in SessionType
        BY <1>1, <1>5 DEF CleanUp, SessionType
      <3> QED
        BY <1>1, <1>5, <3>1 DEF EventRefused
    <2> QED
      BY <1>1, <1>2, <1>5, <2>1, <2>2 DEF EventRefused
  <1> QED
    BY <1>3, <1>4, <1>5 DEF Serve, s

(* Trouble is added, never taken away. *)
LEMMA MoreTrouble ==
    ASSUME NetTypes, NEW kind \in {"stale", "closed", "unsent"}, Happens(kind)
    PROVE  /\ trouble' \in Seq({"stale", "closed", "unsent"})
           /\ trouble' # <<>>
           /\ AcceptErred => AcceptErred'
           /\ kind = "stale" => AcceptErred'
  <1>1. trouble' = Append(trouble, kind) /\ trouble \in Seq({"stale", "closed", "unsent"})
    BY DEF Happens, NetTypes
  <1>2. /\ Len(trouble') = Len(trouble) + 1 /\ Len(trouble) \in Nat
        /\ DOMAIN trouble' = 1 .. Len(trouble) + 1 /\ DOMAIN trouble = 1 .. Len(trouble)
        /\ trouble'[Len(trouble) + 1] = kind
        /\ \A i \in DOMAIN trouble : trouble'[i] = trouble[i]
    BY <1>1
  <1>3. AcceptErred => AcceptErred'
    BY <1>2 DEF AcceptErred
  <1>4. kind = "stale" => AcceptErred'
    BY <1>2 DEF AcceptErred
  <1>5. trouble' # <<>>
    BY <1>2
  <1> QED
    BY <1>1, <1>3, <1>4, <1>5

(* Every step keeps the types and the counts. *)
LEMMA NextTypes ==
    ASSUME NetTypes, Counts(reactor), [Next]_vars
    PROVE  NetTypes' /\ Counts(reactor')
  <1>0. /\ link \in MemoryOf(GatewaySession, LinkLists)
        /\ session \in [GatewaySession -> SessionType]
        /\ reactor \in ReactorType
        /\ open \subseteq Fd
        /\ "free" \in LinkLists /\ "work" \in LinkLists /\ "temp" \in LinkLists
    BY DEF NetTypes, LinkLists
  <1>1. CASE UNCHANGED vars
    BY <1>1 DEF vars, NetTypes, Counts
  <1>2. CASE Poll
    <2>1. /\ reactor' \in ReactorType
          /\ reactor'.up = reactor.up /\ reactor'.count = reactor.count
          /\ reactor'.listen = reactor.listen /\ reactor'.watched = reactor.watched
      BY <1>0, <1>2 DEF Poll, ReactorType
    <2>2. ~reactor.up => reactor'.ready = {}
      BY <1>0, <1>2 DEF Poll, Counts, ReactorType
    <2>3. Counts(reactor')
      BY <2>1, <2>2 DEF Counts, Listening
    <2> QED
      BY <1>2, <2>1, <2>3 DEF Poll, NetTypes, humans, Goto
  <1>3. CASE EventsDone
    <2>1. CleanUpList(link, "temp") \in MemoryOf(GatewaySession, LinkLists)
      BY <1>0 DEF CleanUpList, MemoryOf
    <2> QED
      BY <1>3, <2>1 DEF EventsDone, NetTypes, humans, Goto
  <1>4. CASE AcceptBegins
    <2>1. /\ reactor' \in ReactorType
          /\ reactor'.up = reactor.up /\ reactor'.count = reactor.count
          /\ reactor'.listen = reactor.listen /\ reactor'.watched = reactor.watched
          /\ reactor'.ready \subseteq reactor.ready
      BY <1>0, <1>4 DEF AcceptBegins, ReactorType
    <2>2. Counts(reactor')
      BY <1>0, <2>1, CountsLess
    <2> QED
      BY <1>4, <2>1, <2>2 DEF AcceptBegins, NetTypes, humans, Goto
  <1>5. CASE AcceptEnds
    BY <1>5 DEF AcceptEnds, NetTypes, humans, Goto
  <1>6. CASE AcceptEmfile
    <2>1. CASE reactor' = reactor
      BY <1>6, <2>1 DEF AcceptEmfile, NetTypes, humans, Goto
    <2>2. CASE reactor.listen /\ reactor' = [reactor EXCEPT !.listen = FALSE, !.count = @ - 1]
      <3>1. /\ reactor'.up = reactor.up /\ reactor'.count = reactor.count - 1
            /\ ~reactor'.listen /\ reactor'.watched = reactor.watched
            /\ reactor.count \in Int /\ reactor.watched \in SUBSET GatewaySession
        BY <1>0, <2>2 DEF ReactorType
      <3>2. reactor' \in ReactorType
        <4>1. reactor.count - 1 \in Int
          BY <3>1
        <4> QED
          BY <1>0, <2>2, <4>1 DEF ReactorType
      <3>3. reactor.up
        BY <2>2 DEF Counts
      <3>4. Cardinality(reactor.watched) + 1 <= reactor.count /\ reactor.count <= MaxReactorSize
        BY <2>2, <3>3 DEF Counts, Listening
      <3>5. MaxReactorSize \in Int
        BY LogicAssumption
      <3>6. Cardinality(reactor.watched) \in Nat
        BY <3>1, LogicAssumption, FS_Subset, FS_CardinalityType
      <3>7. Cardinality(reactor'.watched) + 0 <= reactor'.count /\ reactor'.count <= MaxReactorSize
        BY <3>1, <3>4, <3>5, <3>6
      <3>8. Counts(reactor')
        BY <3>1, <3>3, <3>7 DEF Counts, Listening
      <3> QED
        BY <1>6, <3>2, <3>8 DEF AcceptEmfile, NetTypes, humans, Goto
    <2> QED
      BY <1>6, <2>1, <2>2 DEF AcceptEmfile
  <1>7. CASE Accept
    <2>1. PICK fd \in Fd \ open : Serve(fd)
      BY <1>7 DEF Accept
    <2>2. /\ link' \in MemoryOf(GatewaySession, LinkLists)
          /\ session' \in [GatewaySession -> SessionType]
          /\ reactor' \in ReactorType /\ Counts(reactor')
          /\ open' \subseteq Fd /\ sock' \in Fd \cup {NULL}
      BY <2>1, ServeTypes
    <2> QED
      BY <1>7, <2>2 DEF Accept, NetTypes, humans
  <1>8. CASE AcceptError
    <2>1. sock \in Fd /\ Serve(sock)
      BY <1>8 DEF AcceptError, NetTypes
    <2>2. /\ link' \in MemoryOf(GatewaySession, LinkLists)
          /\ session' \in [GatewaySession -> SessionType]
          /\ reactor' \in ReactorType /\ Counts(reactor')
          /\ open' \subseteq Fd /\ sock' \in Fd \cup {NULL}
      BY <2>1, ServeTypes
    <2>3. trouble' \in Seq({"stale", "closed", "unsent"})
      BY <1>8, MoreTrouble DEF AcceptError
    <2> QED
      BY <1>8, <2>2, <2>3 DEF AcceptError, NetTypes, humans
  <1>9. ASSUME NEW s \in GatewaySession, Close(s)
        PROVE  NetTypes' /\ Counts(reactor')
    <2> DEFINE d == DeleteEvent(reactor, s)
               u == Unwatched(d, session[s].fd)
    <2>1. d \in ReactorType /\ Counts(d)
      BY <1>0, DeleteEventCounts
    <2> HIDE DEF d
    <2>2. u \in ReactorType /\ Counts(u)
      BY <2>1, UnwatchedLess
    <2> HIDE DEF u
    <2>3. reactor' = [u EXCEPT !.ready = @ \ {s}]
      BY <1>9 DEF Close, d, u
    <2>4. /\ reactor' \in ReactorType
          /\ reactor'.up = u.up /\ reactor'.count = u.count
          /\ reactor'.listen = u.listen /\ reactor'.watched = u.watched
          /\ reactor'.ready \subseteq u.ready
      BY <2>2, <2>3 DEF ReactorType
    <2>5. Counts(reactor')
      BY <2>2, <2>4, CountsLess
    <2>6. link' \in MemoryOf(GatewaySession, LinkLists)
      BY <1>0, <1>9, AddFields, LogicAssumption DEF Close
    <2>7. session' \in [GatewaySession -> SessionType]
      <3>1. [CleanUp(session[s]) EXCEPT !.fd = NULL] \in SessionType
        BY <1>0 DEF CleanUp, SessionType
      <3> QED
        BY <1>0, <1>9, <3>1 DEF Close
    <2>8. trouble' \in Seq({"stale", "closed", "unsent"})
      BY <1>9, MoreTrouble DEF Close
    <2> QED
      BY <1>9, <2>4, <2>5, <2>6, <2>7, <2>8 DEF Close, NetTypes
  <1>10. ASSUME NEW s \in GatewaySession, Receive(s)
         PROVE  NetTypes' /\ Counts(reactor')
    <2>1. /\ reactor' \in ReactorType
          /\ reactor'.up = reactor.up /\ reactor'.count = reactor.count
          /\ reactor'.listen = reactor.listen /\ reactor'.watched = reactor.watched
          /\ reactor'.ready \subseteq reactor.ready
      BY <1>0, <1>10 DEF Receive, ReactorType
    <2>2. Counts(reactor')
      BY <1>0, <2>1, CountsLess
    <2> QED
      BY <1>10, <2>1, <2>2 DEF Receive, NetTypes, Goto
  <1>11. CASE ReceiveEnds \/ ReceiveHangs \/ Unregistered
    BY <1>11 DEF ReceiveEnds, ReceiveHangs, Unregistered, NetTypes, net, Goto
  <1>12. CASE Test
    <2>1. session' \in [GatewaySession -> SessionType]
      BY <1>0, <1>12 DEF Test, SessionType
    <2> QED
      BY <1>12, <2>1 DEF Test, NetTypes
  <1>13. ASSUME NEW id \in UserID, Login(id) \/ Logout(id)
         PROVE  NetTypes' /\ Counts(reactor')
    BY <1>13 DEF Login, Logout, NetTypes, net
  <1>14. CASE TickOk
    <2>1. FirstItem(link, "work") \in GatewaySession /\ FirstItem(link, "work") # NULL
      BY <1>0, <1>14, FirstSession DEF TickOk
    <2>2. link' \in MemoryOf(GatewaySession, LinkLists)
      BY <1>0, <1>14, <2>1, MoveLink DEF TickOk
    <2>3. session' \in [GatewaySession -> SessionType]
      BY <1>0, <1>14, <2>1 DEF TickOk, SessionType
    <2> QED
      BY <1>14, <2>2, <2>3 DEF TickOk, NetTypes
  <1>15. CASE TickFails
    <2>1. link' \in MemoryOf(GatewaySession, LinkLists)
      BY <1>0, <1>15, PickUpLink DEF TickFails
    <2>2. trouble' \in Seq({"stale", "closed", "unsent"})
      BY <1>15, MoreTrouble DEF TickFails
    <2> QED
      BY <1>15, <2>1, <2>2 DEF TickFails, NetTypes
  <1>16. CASE TickDone
    <2>1. Assign(link, "work", "temp") \in MemoryOf(GatewaySession, LinkLists)
      BY <1>0 DEF Assign, MemoryOf
    <2> QED
      BY <1>16, <2>1 DEF TickDone, NetTypes, Goto
  <1>17. CASE SceneTick
    BY <1>17 DEF SceneTick, NetTypes, net, Goto
  <1> QED
    BY <1>1, <1>2, <1>3, <1>4, <1>5, <1>6, <1>7, <1>8, <1>9, <1>10, <1>11, <1>12, <1>13,
       <1>14, <1>15, <1>16, <1>17 DEF Next

(* Nothing of the sessions, their descriptors and the reactor has changed but   *)
(* answers and what is ready.                                                  *)
LEMMA OwnedStays ==
    ASSUME Owned, AcceptErred' \/ ~AcceptErred, open' = open,
           NetTypes, NetTypes',
           \A s \in GatewaySession : /\ session'[s].fd = session[s].fd
                                     /\ session'[s].reactor = session[s].reactor
                                     /\ session'[s].busy = session[s].busy,
           reactor'.up = reactor.up, reactor'.watched = reactor.watched,
           reactor'.count - Listening(reactor') = reactor.count - Listening(reactor),
           reactor'.ready \ {"listen"} \subseteq reactor.watched \cup reactor.ready
    PROVE  Owned'
  <1> SUFFICES ASSUME ~AcceptErred'
               PROVE  Owned'
    BY DEF Owned
  <1>1. /\ ConnectionsOwnedOnce /\ ReactorHasRoom /\ ~AcceptErred
        /\ \A s \in GatewaySession : session[s].busy <=> session[s].reactor
        /\ reactor.ready \ {"listen"} \subseteq reactor.watched
    BY DEF Owned
  <1>2. reactor.watched \subseteq GatewaySession
    BY DEF NetTypes, ReactorType
  <1>3. {session'[s].fd : s \in reactor'.watched} = {session[s].fd : s \in reactor.watched}
    BY <1>2
  <1>4. ConnectionsOwnedOnce'
    <2>1. \A s, t \in GatewaySession :
            session'[s].reactor /\ session'[t].reactor /\ session'[s].fd = session'[t].fd
                => s = t
      BY <1>1 DEF ConnectionsOwnedOnce
    <2>2. reactor'.up => {session'[s].fd : s \in reactor'.watched} = open'
      BY <1>1, <1>3 DEF ConnectionsOwnedOnce
    <2>3. reactor'.up => \A s \in GatewaySession : session'[s].reactor <=> s \in reactor'.watched
      BY <1>1 DEF ConnectionsOwnedOnce
    <2> QED
      BY <2>1, <2>2, <2>3 DEF ConnectionsOwnedOnce
  <1>5. ReactorHasRoom'
    <2>1. reactor.up => reactor.count = Cardinality(reactor.watched) + Listening(reactor)
      BY <1>1 DEF ReactorHasRoom, Listening
    <2>2. /\ Cardinality(reactor.watched) \in Int
          /\ reactor.count \in Int /\ reactor'.count \in Int
          /\ Listening(reactor) \in Int /\ Listening(reactor') \in Int
      BY <1>2, LogicAssumption, FS_Subset, FS_CardinalityType
         DEF NetTypes, ReactorType, Listening
    <2>3. reactor'.up => reactor'.count = Cardinality(reactor'.watched) + Listening(reactor')
      BY <2>1, <2>2
    <2> QED
      BY <2>3 DEF ReactorHasRoom, Listening
  <1> QED
    BY <1>1, <1>4, <1>5 DEF Owned

(* A connection: its descriptor is new, and so is its session.                 *)
LEMMA OwnedAccepted ==
    ASSUME NetTypes, NetTypes', Counts(reactor), Owned, AcceptErred' = AcceptErred,
           NEW fd \in Fd \ open, NEW s \in GatewaySession, Unused(s), CanAddEvent(fd),
           Accepted(fd, s), open' = open \cup {fd}
    PROVE  Owned'
  <1> SUFFICES ASSUME ~AcceptErred'
               PROVE  Owned'
    BY DEF Owned
  <1>1. /\ ConnectionsOwnedOnce /\ ReactorHasRoom /\ ~AcceptErred
        /\ \A t \in GatewaySession : session[t].busy <=> session[t].reactor
        /\ reactor.ready \ {"listen"} \subseteq reactor.watched
    BY DEF Owned
  <1>2. /\ reactor \in ReactorType /\ reactor.watched \subseteq GatewaySession
        /\ session \in [GatewaySession -> SessionType]
        /\ reactor.up
    BY DEF NetTypes, ReactorType, CanAddEvent
  <1>3. /\ reactor'.watched = reactor.watched \cup {s} /\ reactor'.up
        /\ reactor'.count = reactor.count + 1 /\ reactor'.listen = reactor.listen
        /\ reactor'.ready = reactor.ready
    BY <1>2 DEF Accepted, ReactorType
  <1>4. /\ session'[s].reactor /\ session'[s].busy /\ session'[s].fd = fd
        /\ \A t \in GatewaySession \ {s} : session'[t] = session[t]
    BY <1>2 DEF Accepted
  <1>5. {session[t].fd : t \in reactor.watched} = open
    BY <1>1, <1>2 DEF ConnectionsOwnedOnce
  <1>6. \A t \in GatewaySession : session[t].reactor <=> t \in reactor.watched
    BY <1>1, <1>2 DEF ConnectionsOwnedOnce
  <1>7. \A t \in GatewaySession : session[t].reactor => session[t].fd \in open
    BY <1>5, <1>6
  <1>8. s \notin reactor.watched
    BY <1>6 DEF Unused
  <1>9. ConnectionsOwnedOnce'
    <2>1. ASSUME NEW t \in GatewaySession, NEW u \in GatewaySession,
                 session'[t].reactor, session'[u].reactor, session'[t].fd = session'[u].fd
          PROVE  t = u
      BY <1>1, <1>4, <1>7, <2>1 DEF ConnectionsOwnedOnce
    <2>2. {session'[t].fd : t \in reactor'.watched} = open'
      <3>1. \A t \in reactor.watched : session'[t] = session[t]
        BY <1>2, <1>4, <1>8
      <3> QED
        BY <1>3, <1>4, <1>5, <3>1
    <2>3. \A t \in GatewaySession : session'[t].reactor <=> t \in reactor'.watched
      BY <1>3, <1>4, <1>6
    <2> QED
      BY <2>1, <2>2, <2>3 DEF ConnectionsOwnedOnce
  <1>10. ReactorHasRoom'
    <2>1. reactor.count = Cardinality(reactor.watched) + Listening(reactor)
      BY <1>1, <1>2 DEF ReactorHasRoom, Listening
    <2>2. Listening(reactor') = Listening(reactor) /\ Listening(reactor) \in Int
      BY <1>3 DEF Listening
    <2>3. /\ Cardinality(reactor'.watched) = Cardinality(reactor.watched) + 1
          /\ Cardinality(reactor.watched) \in Int
      BY <1>2, <1>3, <1>8, WatchOne
    <2>4. reactor'.count = Cardinality(reactor'.watched) + Listening(reactor')
      BY <1>3, <2>1, <2>2, <2>3
    <2> QED
      BY <2>4 DEF ReactorHasRoom, Listening
  <1>11. \A t \in GatewaySession : session'[t].busy <=> session'[t].reactor
    BY <1>1, <1>4
  <1> QED
    BY <1>1, <1>3, <1>9, <1>10, <1>11 DEF Owned

(* A session closes: its descriptor goes, and no other session's event.        *)
LEMMA OwnedClosed ==
    ASSUME NetTypes, NetTypes', Counts(reactor), Owned, NEW s \in GatewaySession, Close(s)
    PROVE  Owned'
  <1> DEFINE fd == session[s].fd
             d == [reactor EXCEPT !.watched = @ \ {s}, !.count = @ - 1]
  <1>0. AcceptErred => AcceptErred'
    BY MoreTrouble DEF Close
  <1> SUFFICES ASSUME ~AcceptErred'
               PROVE  Owned'
    BY DEF Owned
  <1>1. /\ ConnectionsOwnedOnce /\ ReactorHasRoom /\ ~AcceptErred
        /\ \A t \in GatewaySession : session[t].busy <=> session[t].reactor
        /\ reactor.ready \ {"listen"} \subseteq reactor.watched
    BY <1>0 DEF Owned
  <1>2. /\ reactor \in ReactorType /\ reactor.watched \subseteq GatewaySession
        /\ session \in [GatewaySession -> SessionType]
    BY DEF NetTypes, ReactorType
  <1>3. s \in reactor.watched
    <2>1. s # "listen"
      BY LogicAssumption
    <2> QED
      BY <1>1, <2>1 DEF Close
  <1>4. reactor.up
    BY <1>3 DEF Counts
  <1>5. {session[t].fd : t \in reactor.watched} = open
    BY <1>1, <1>4 DEF ConnectionsOwnedOnce
  <1>6. \A t \in GatewaySession : session[t].reactor <=> t \in reactor.watched
    BY <1>1, <1>4 DEF ConnectionsOwnedOnce
  <1>7. \A t, u \in reactor.watched : session[t].fd = session[u].fd => t = u
    BY <1>1, <1>2, <1>6 DEF ConnectionsOwnedOnce
  <1>8. DeleteEvent(reactor, s) = d
    BY <1>1, <1>3, <1>4, <1>6 DEF DeleteEvent
  <1>9. /\ reactor'.up /\ reactor'.count = reactor.count - 1
        /\ reactor'.listen = reactor.listen
        /\ reactor'.ready = reactor.ready \ {s}
        /\ reactor'.watched = {t \in reactor.watched \ {s} : session[t].fd # fd}
    <2>1. /\ d.up /\ d.count = reactor.count - 1 /\ d.listen = reactor.listen
          /\ d.ready = reactor.ready /\ d.watched = reactor.watched \ {s}
          /\ d \in [up : BOOLEAN, count : {reactor.count - 1}, listen : BOOLEAN,
                    watched : SUBSET GatewaySession,
                    ready : SUBSET (GatewaySession \cup {"listen"})]
      BY <1>2, <1>4 DEF ReactorType
    <2>2. reactor' = [Unwatched(d, fd) EXCEPT !.ready = @ \ {s}]
      BY <1>8 DEF Close
    <2> HIDE DEF d
    <2> QED
      BY <2>1, <2>2 DEF Unwatched
  <1>10. reactor'.watched = reactor.watched \ {s}
    BY <1>3, <1>7, <1>9
  <1>11. /\ ~session'[s].reactor /\ ~session'[s].busy
         /\ \A t \in GatewaySession \ {s} : session'[t] = session[t]
    BY <1>2 DEF Close, CleanUp, SessionType
  <1>12. open' = open \ {fd}
    BY DEF Close
  <1> HIDE DEF d
  <1>13. ConnectionsOwnedOnce'
    <2>1. ASSUME NEW t \in GatewaySession, NEW u \in GatewaySession,
                 session'[t].reactor, session'[u].reactor, session'[t].fd = session'[u].fd
          PROVE  t = u
      BY <1>1, <1>11, <2>1 DEF ConnectionsOwnedOnce
    <2>2. {session'[t].fd : t \in reactor'.watched} = open'
      <3>1. \A t \in reactor'.watched : session'[t] = session[t]
        BY <1>2, <1>10, <1>11
      <3>2. {session'[t].fd : t \in reactor'.watched} = {session[t].fd : t \in reactor.watched \ {s}}
        BY <1>10, <3>1
      <3>3. {session[t].fd : t \in reactor.watched \ {s}} = {session[t].fd : t \in reactor.watched} \ {fd}
        BY <1>3, <1>7
      <3> QED
        BY <1>5, <1>12, <3>2, <3>3
    <2>3. \A t \in GatewaySession : session'[t].reactor <=> t \in reactor'.watched
      BY <1>6, <1>10, <1>11
    <2> QED
      BY <2>1, <2>2, <2>3 DEF ConnectionsOwnedOnce
  <1>14. ReactorHasRoom'
    <2>1. reactor.count = Cardinality(reactor.watched) + Listening(reactor)
      BY <1>1, <1>4 DEF ReactorHasRoom, Listening
    <2>2. Listening(reactor') = Listening(reactor) /\ Listening(reactor) \in Int
      BY <1>9 DEF Listening
    <2>3. /\ Cardinality(reactor'.watched) = Cardinality(reactor.watched) - 1
          /\ Cardinality(reactor.watched) \in Int
      <3>1. reactor.watched \in SUBSET GatewaySession
        BY <1>2
      <3>2. /\ Cardinality(reactor.watched) \in Nat
            /\ Cardinality(reactor.watched \ {s}) = Cardinality(reactor.watched) - 1
        BY <1>3, <3>1, WatchOne
      <3> QED
        BY <1>10, <3>2
    <2>4. reactor'.count = Cardinality(reactor'.watched) + Listening(reactor')
      BY <1>9, <2>1, <2>2, <2>3
    <2> QED
      BY <2>4 DEF ReactorHasRoom, Listening
  <1>15. \A t \in GatewaySession : session'[t].busy <=> session'[t].reactor
    BY <1>1, <1>11
  <1>16. reactor'.ready \ {"listen"} \subseteq reactor'.watched
    BY <1>1, <1>9, <1>10
  <1> QED
    BY <1>13, <1>14, <1>15, <1>16 DEF Owned

(* The reactor refuses: it is released, and watches nothing any more.           *)
LEMMA OwnedRefused ==
    ASSUME NetTypes, Owned, AcceptErred' = AcceptErred,
           NEW fd \in Fd \ open, NEW s \in GatewaySession, EventRefused(fd, s)
    PROVE  Owned'
  <1> SUFFICES ASSUME ~AcceptErred'
               PROVE  Owned'
    BY DEF Owned
  <1>1. /\ ConnectionsOwnedOnce /\ ~AcceptErred
        /\ \A t \in GatewaySession : session[t].busy <=> session[t].reactor
        /\ session \in [GatewaySession -> SessionType]
    BY DEF Owned, NetTypes
  <1>2. ~reactor'.up /\ reactor'.ready = {}
    BY DEF EventRefused, ReactorReleased
  <1>3. /\ ~session'[s].reactor /\ ~session'[s].busy
        /\ \A t \in GatewaySession \ {s} : session'[t] = session[t]
    BY <1>1 DEF EventRefused, CleanUp, SessionType
  <1>4. ConnectionsOwnedOnce'
    <2>1. ASSUME NEW t \in GatewaySession, NEW u \in GatewaySession,
                 session'[t].reactor, session'[u].reactor, session'[t].fd = session'[u].fd
          PROVE  t = u
      BY <1>1, <1>3, <2>1 DEF ConnectionsOwnedOnce
    <2> QED
      BY <1>2, <2>1 DEF ConnectionsOwnedOnce
  <1>5. ReactorHasRoom'
    BY <1>2 DEF ReactorHasRoom
  <1>6. \A t \in GatewaySession : session'[t].busy <=> session'[t].reactor
    BY <1>1, <1>3
  <1> QED
    BY <1>2, <1>4, <1>5, <1>6 DEF Owned

(* Every step keeps the descriptors with their sessions.                        *)
LEMMA NextOwned ==
    ASSUME NetInv, NetTypes', [Next]_vars
    PROVE  Owned'
  <1>0. /\ NetTypes /\ Counts(reactor) /\ Owned
        /\ reactor \in ReactorType
        /\ session \in [GatewaySession -> SessionType]
    BY DEF NetInv, NetTypes
  <1> DEFINE Same == /\ \A s \in GatewaySession : /\ session'[s].fd = session[s].fd
                                                  /\ session'[s].reactor = session[s].reactor
                                                  /\ session'[s].busy = session[s].busy
                     /\ open' = open /\ AcceptErred' = AcceptErred
             SameReactor == /\ reactor'.up = reactor.up /\ reactor'.watched = reactor.watched
                            /\ reactor'.count - Listening(reactor') = reactor.count - Listening(reactor)
                            /\ reactor'.ready \ {"listen"} \subseteq reactor.watched \cup reactor.ready
  <1>1. ASSUME Same, SameReactor
        PROVE  Owned'
    BY <1>0, <1>1, OwnedStays
  <1>2. ASSUME reactor' = reactor
        PROVE  SameReactor
    BY <1>0, <1>2 DEF ReactorType
  <1>3. ASSUME session' = session, open' = open, trouble' = trouble
        PROVE  Same
    BY <1>3 DEF AcceptErred
  <1>4. CASE UNCHANGED vars
    BY <1>1, <1>2, <1>3, <1>4 DEF vars
  <1>5. CASE Poll
    <2>1. SameReactor
      <3>1. /\ reactor'.up = reactor.up /\ reactor'.watched = reactor.watched
            /\ reactor'.count = reactor.count /\ reactor'.listen = reactor.listen
            /\ reactor'.ready \subseteq reactor.watched \cup {"listen"}
        BY <1>0, <1>5 DEF Poll, ReactorType
      <3> QED
        BY <3>1 DEF Listening
    <2> QED
      BY <1>1, <1>3, <1>5, <2>1 DEF Poll
  <1>6. CASE EventsDone
    BY <1>1, <1>2, <1>3, <1>6 DEF EventsDone
  <1>7. CASE AcceptBegins
    <2>1. SameReactor
      <3>1. /\ reactor'.up = reactor.up /\ reactor'.watched = reactor.watched
            /\ reactor'.count = reactor.count /\ reactor'.listen = reactor.listen
            /\ reactor'.ready \subseteq reactor.ready
        BY <1>0, <1>7 DEF AcceptBegins, ReactorType
      <3> QED
        BY <3>1 DEF Listening
    <2> QED
      BY <1>1, <1>3, <1>7, <2>1 DEF AcceptBegins
  <1>8. CASE AcceptEnds
    BY <1>1, <1>2, <1>3, <1>8 DEF AcceptEnds
  <1>9. CASE AcceptEmfile
    <2>1. CASE reactor' = reactor
      BY <1>1, <1>2, <1>3, <1>9, <2>1 DEF AcceptEmfile
    <2>2. CASE reactor.listen /\ reactor' = [reactor EXCEPT !.listen = FALSE, !.count = @ - 1]
      <3>1. SameReactor
        <4>1. /\ reactor'.up = reactor.up /\ reactor'.watched = reactor.watched
              /\ reactor'.count = reactor.count - 1 /\ ~reactor'.listen
              /\ reactor'.ready = reactor.ready /\ reactor.count \in Int
          BY <1>0, <2>2 DEF ReactorType
        <4>2. Listening(reactor) = 1 /\ Listening(reactor') = 0
          BY <2>2, <4>1 DEF Listening
        <4> QED
          BY <4>1, <4>2
      <3> QED
        BY <1>1, <1>3, <1>9, <3>1 DEF AcceptEmfile
    <2> QED
      BY <1>9, <2>1, <2>2 DEF AcceptEmfile
  <1>10. CASE Accept
    <2> DEFINE s == FirstItem(link, "free")
    <2>1. PICK fd \in Fd \ open : Serve(fd)
      BY <1>10 DEF Accept
    <2>2. s \in GatewaySession \cup {NULL} /\ AcceptErred' = AcceptErred
      BY <1>0, <1>10, FirstSession DEF Accept, AcceptErred, LinkLists
    <2> HIDE DEF s
    <2>3. CASE Refused(fd, s)
      <3>1. open' = open /\ session' = session
        BY <2>1, <2>3 DEF Refused
      <3>2. ASSUME ~AcceptErred
            PROVE  Unwatched(reactor, fd) = reactor
        <4>1. \A t \in reactor.watched : session[t].fd # fd
          <5>1. CASE reactor.up
            <6>1. {session[t].fd : t \in reactor.watched} = open
              BY <1>0, <3>2, <5>1 DEF Owned, ConnectionsOwnedOnce
            <6> QED
              BY <6>1
          <5>2. CASE ~reactor.up
            BY <1>0, <5>2 DEF Counts
          <5> QED
            BY <5>1, <5>2
        <4> QED
          BY <1>0, <4>1 DEF Unwatched, ReactorType
      <3>3. CASE AcceptErred
        BY <2>2, <3>3 DEF Owned
      <3>4. CASE ~AcceptErred
        <4>1. reactor' = reactor
          BY <2>3, <3>2, <3>4 DEF Refused
        <4> QED
          BY <1>1, <1>2, <2>2, <3>1, <4>1
      <3> QED
        BY <3>3, <3>4
    <2>4. CASE s # NULL /\ Unused(s) /\ CanAddEvent(fd) /\ Accepted(fd, s) /\ open' = open \cup {fd}
      BY <1>0, <2>2, <2>4, OwnedAccepted
    <2>5. CASE s # NULL /\ EventRefused(fd, s)
      BY <1>0, <2>2, <2>5, OwnedRefused
    <2> QED
      BY <2>1, <2>3, <2>4, <2>5 DEF Serve, s
  <1>11. CASE AcceptError
    <2>1. AcceptErred'
      BY <1>0, <1>11, MoreTrouble DEF AcceptError
    <2> QED
      BY <2>1 DEF Owned
  <1>12. ASSUME NEW s \in GatewaySession, Close(s)
         PROVE  Owned'
    BY <1>0, <1>12, OwnedClosed
  <1>13. ASSUME NEW s \in GatewaySession, Receive(s)
         PROVE  Owned'
    <2>1. SameReactor
      <3>1. /\ reactor'.up = reactor.up /\ reactor'.watched = reactor.watched
            /\ reactor'.count = reactor.count /\ reactor'.listen = reactor.listen
            /\ reactor'.ready \subseteq reactor.ready
        BY <1>0, <1>13 DEF Receive, ReactorType
      <3> QED
        BY <3>1 DEF Listening
    <2> QED
      BY <1>1, <1>3, <1>13, <2>1 DEF Receive
  <1>14. CASE ReceiveEnds \/ ReceiveHangs \/ Unregistered \/ SceneTick
    BY <1>1, <1>2, <1>3, <1>14 DEF ReceiveEnds, ReceiveHangs, Unregistered, SceneTick, net
  <1>15. CASE Test
    <2>1. Same
      BY <1>0, <1>15 DEF Test, AcceptErred, SessionType
    <2> QED
      BY <1>1, <1>2, <1>15, <2>1 DEF Test
  <1>16. ASSUME NEW id \in UserID, Login(id) \/ Logout(id)
         PROVE  Owned'
    BY <1>1, <1>2, <1>3, <1>16 DEF Login, Logout, net
  <1>17. CASE TickOk
    <2>1. Same
      BY <1>0, <1>17 DEF TickOk, AcceptErred, SessionType
    <2> QED
      BY <1>1, <1>2, <1>17, <2>1 DEF TickOk
  <1>18. CASE TickFails
    <2>1. AcceptErred => AcceptErred'
      BY <1>0, <1>18, MoreTrouble DEF TickFails
    <2>2. SameReactor /\ session' = session /\ open' = open
      BY <1>2, <1>18 DEF TickFails
    <2> QED
      BY <1>0, <2>1, <2>2, OwnedStays
  <1>19. CASE TickDone
    BY <1>1, <1>2, <1>3, <1>19 DEF TickDone
  <1> QED
    BY <1>4, <1>5, <1>6, <1>7, <1>8, <1>9, <1>10, <1>11, <1>12, <1>13, <1>14, <1>15, <1>16,
       <1>17, <1>18, <1>19 DEF Next

(* The list of free sessions starts with all of them, and the others empty.    *)
LEMMA InitLink ==
    ASSUME Init
    PROVE  /\ link \in MemoryOf(GatewaySession, LinkLists)
           /\ WellFormed(link, "free") /\ Items(link, "free") = GatewaySession
           /\ WellFormed(link, "work") /\ Items(link, "work") = {}
           /\ WellFormed(link, "temp") /\ Items(link, "temp") = {}
  <1>1. PICK order \in Orders(GatewaySession) :
            link = Filled0(Memory(GatewaySession, LinkLists), "free", order)
    BY DEF Init, LinkLists
  <1>2. /\ IsFiniteSet(GatewaySession) /\ NULL \notin GatewaySession
        /\ "free" \in LinkLists /\ "work" \in LinkLists \ {"free"} /\ "temp" \in LinkLists \ {"free"}
    BY LogicAssumption DEF LinkLists
  <1>3. /\ link \in MemoryOf(GatewaySession, LinkLists)
        /\ WellFormed(link, "free") /\ Items(link, "free") = GatewaySession
        /\ \A k \in LinkLists \ {"free"} : WellFormed(link, k) /\ Items(link, k) = {}
    BY <1>1, <1>2, FilledList
  <1> QED
    BY <1>2, <1>3

(* The first state.                                                            *)
LEMMA InitNet ==
    ASSUME Init
    PROVE  NetInv
  <1>1. NetTypes
    <2>1. session \in [GatewaySession -> SessionType]
      BY DEF Init, SessionType
    <2>2. reactor \in ReactorType
      BY DEF Init, ReactorType
    <2>3. link \in MemoryOf(GatewaySession, LinkLists)
      BY InitLink
    <2>4. /\ open = {} /\ sock = NULL /\ trouble = <<>> /\ pc = "poll" /\ cur = NULL
      BY DEF Init
    <2> QED
      BY <2>1, <2>2, <2>3, <2>4 DEF NetTypes
  <1>2. Cardinality({}) = 0 /\ MaxReactorSize \in Nat /\ MaxReactorSize > 0
    BY LogicAssumption, FS_EmptySet, FS_CardinalityType
  <1>3. Counts(reactor)
    BY <1>2 DEF Init, Counts, Listening
  <1>4. Owned
    BY <1>2 DEF Init, Owned, ConnectionsOwnedOnce, ReactorHasRoom
  <1> QED
    BY <1>1, <1>3, <1>4 DEF NetInv

(* The sessions, their descriptors and the reactor always agree.               *)
LEMMA NetInvariant == Spec => []NetInv
  <1>1. Init => NetInv
    BY InitNet
  <1>2. NetInv /\ [Next]_vars => NetInv'
    BY NextTypes, NextOwned DEF NetInv
  <1> QED
    BY <1>1, <1>2, PTL DEF Spec

(* Two connected sessions never share a descriptor, and what the reactor        *)
(* watches are the connected sessions, with just the open descriptors           *)
(* (GYGatewaySession::Init, Release), for any lists and any faults of the        *)
(* reactor or of sending, until an accept error serves a descriptor again.      *)
THEOREM SessionsOwnTheirSockets == Spec => []ConnectionsOwnedOnce
  <1>1. NetInv => ConnectionsOwnedOnce
    BY DEF NetInv, Owned, ConnectionsOwnedOnce
  <1> QED
    BY <1>1, NetInvariant, PTL

(* The reactor's count is that of its events, so that there always is room for  *)
(* the session being accepted (GYReactor::AddEvent, DeleteEvent).               *)
THEOREM RoomForEverySession == Spec => []ReactorHasRoom
  <1>1. NetInv => ReactorHasRoom
    BY DEF NetInv, Owned, ReactorHasRoom
  <1> QED
    BY <1>1, NetInvariant, PTL

-----------------------------------------------------------------------------
(* The lists of sessions, until the first is lost.                             *)
Connected == {s \in GatewaySession : session[s].reactor}

(* While the sessions are ticked, those that have been are in the temporary list. *)
Working ==
    IF pc = "tick"
    THEN /\ WellFormed(link, "temp")
         /\ Items(link, "work") \cap Items(link, "temp") = {}
         /\ Items(link, "work") \cup Items(link, "temp") = Connected
    ELSE Items(link, "work") = Connected

(* The answers there are will be sent in this frame.                            *)
Answers ==
    \A s \in GatewaySession : session[s].output =>
        IF pc = "tick" THEN s \in Items(link, "work")
        ELSE session[s].reactor /\ pc \notin {"poll", "scene"}

Frames ==
    trouble = <<>> =>
        /\ WellFormed(link, "free") /\ WellFormed(link, "work")
        /\ Items(link, "free") = GatewaySession \ Connected
        /\ \A s \in GatewaySession : session[s].manager <=> session[s].reactor
        /\ pc = "receive" => session[cur].reactor
        /\ Working
        /\ Answers

(* The first item of one list goes to another: a third, if it has none of       *)
(* theirs, stays as it is.                                                      *)
LEMMA MoveFirst ==
    ASSUME NEW S, NEW L, NEW m \in MemoryOf(S, L), NULL \notin S,
           NEW l \in L, NEW k \in L, l # k,
           WellFormed(m, l), WellFormed(m, k), Items(m, l) \cap Items(m, k) = {},
           NEW s, s = FirstItem(m, l), s # NULL,
           NEW p, p = Add(PickUpFirstItem(m, l), k, s)
    PROVE  /\ p \in MemoryOf(S, L)
           /\ s \in Items(m, l)
           /\ WellFormed(p, l) /\ Items(p, l) = Items(m, l) \ {s}
           /\ WellFormed(p, k) /\ Items(p, k) = Items(m, k) \cup {s} /\ HeadIsFirst(p, k)
           /\ \A j \in L \ {l, k} :
                WellFormed(m, j) /\ Items(m, j) \cap (Items(m, l) \cup Items(m, k)) = {}
                    => WellFormed(p, j) /\ Items(p, j) = Items(m, j)
  <1> DEFINE q == PickUpFirstItem(m, l)
  <1>1. /\ q \in MemoryOf(S, L) /\ s \in Items(m, l)
        /\ WellFormed(q, l) /\ Items(q, l) = Items(m, l) \ {s}
    BY PickUpFromList
  <1>2. s \in S
    BY <1>1, FirstItemOfList
  <1>3. WellFormed(q, k) /\ Items(q, k) = Items(m, k)
    BY <1>1, PickUpOther
  <1>4. \A j \in L \ {l, k} :
            WellFormed(m, j) /\ Items(m, j) \cap (Items(m, l) \cup Items(m, k)) = {}
                => WellFormed(q, j) /\ Items(q, j) = Items(m, j)
    BY <1>1, PickUpOther
  <1> HIDE DEF q
  <1>5. /\ p \in MemoryOf(S, L)
        /\ WellFormed(p, k) /\ Items(p, k) = Items(m, k) \cup {s} /\ HeadIsFirst(p, k)
    BY <1>1, <1>2, <1>3, AddToList DEF q
  <1>6. WellFormed(p, l) /\ Items(p, l) = Items(m, l) \ {s}
    <2>1. s \notin Items(q, l) /\ Items(q, l) \cap Items(q, k) = {}
      BY <1>1, <1>3
    <2> QED
      BY <1>1, <1>2, <1>3, <2>1, AddOther DEF q
  <1>7. ASSUME NEW j \in L \ {l, k}, WellFormed(m, j),
               Items(m, j) \cap (Items(m, l) \cup Items(m, k)) = {}
        PROVE  WellFormed(p, j) /\ Items(p, j) = Items(m, j)
    <2>1. WellFormed(q, j) /\ Items(q, j) = Items(m, j)
      BY <1>4, <1>7
    <2>2. s \notin Items(q, j) /\ Items(q, j) \cap Items(q, k) = {} /\ j # k
      BY <1>1, <1>3, <1>7, <2>1
    <2> QED
      BY <1>1, <1>2, <1>3, <2>1, <2>2, AddOther DEF q
  <1> QED
    BY <1>1, <1>5, <1>6, <1>7

(* The first item of a list is put back.                                        *)
LEMMA PutBack ==
    ASSUME NEW S, NEW L, NEW m \in MemoryOf(S, L), NULL \notin S,
           NEW l \in L, WellFormed(m, l),
           NEW s, s = FirstItem(m, l), s # NULL,
           NEW p, p = Add(PickUpFirstItem(m, l), l, s)
    PROVE  /\ p \in MemoryOf(S, L)
           /\ s \in Items(m, l)
           /\ WellFormed(p, l) /\ Items(p, l) = Items(m, l)
           /\ \A j \in L \ {l} :
                WellFormed(m, j) /\ Items(m, j) \cap Items(m, l) = {}
                    => /\ WellFormed(p, j) /\ Items(p, j) = Items(m, j)
                       /\ HeadIsFirst(m, j) => HeadIsFirst(p, j)
  <1> DEFINE q == PickUpFirstItem(m, l)
  <1>1. /\ q \in MemoryOf(S, L) /\ s \in Items(m, l)
        /\ WellFormed(q, l) /\ Items(q, l) = Items(m, l) \ {s}
    BY PickUpFromList
  <1>2. s \in S
    BY <1>1, FirstItemOfList
  <1>3. \A j \in L \ {l} :
            WellFormed(m, j) /\ Items(m, j) \cap Items(m, l) = {}
                => /\ WellFormed(q, j) /\ Items(q, j) = Items(m, j)
                   /\ HeadIsFirst(m, j) => HeadIsFirst(q, j)
    BY <1>1, PickUpOther
  <1> HIDE DEF q
  <1>4. p \in MemoryOf(S, L) /\ WellFormed(p, l) /\ Items(p, l) = Items(m, l)
    <2>1. s \notin Items(q, l) /\ Items(q, l) \cup {s} = Items(m, l)
      BY <1>1
    <2>2. p = Add(q, l, s)
      BY DEF q
    <2>3. p \in MemoryOf(S, L) /\ WellFormed(p, l) /\ Items(p, l) = Items(q, l) \cup {s}
      BY <1>1, <1>2, <2>1, <2>2, AddToList
    <2> QED
      BY <2>1, <2>3
  <1>5. ASSUME NEW j \in L \ {l}, WellFormed(m, j), Items(m, j) \cap Items(m, l) = {}
        PROVE  /\ WellFormed(p, j) /\ Items(p, j) = Items(m, j)
               /\ HeadIsFirst(m, j) => HeadIsFirst(p, j)
    <2>1. /\ WellFormed(q, j) /\ Items(q, j) = Items(m, j)
          /\ HeadIsFirst(m, j) => HeadIsFirst(q, j)
      BY <1>3, <1>5
    <2>2. s \notin Items(q, j) /\ Items(q, j) \cap Items(q, l) = {} /\ j # l
      BY <1>1, <1>5, <2>1
    <2> QED
      BY <1>1, <1>2, <2>1, <2>2, AddOther DEF q
  <1> QED
    BY <1>1, <1>4, <1>5

(* Outside the tick of the sessions, steps that touch neither lists nor         *)
(* sessions.                                                                    *)
LEMMA FramesStay ==
    ASSUME Frames, link' = link, session' = session, trouble' = trouble,
           pc # "tick", pc' # "tick",
           trouble = <<>> /\ pc' = "receive" => session[cur'].reactor,
           pc' \in {"poll", "scene"} => pc \in {"poll", "scene"}
    PROVE  Frames'
  <1> SUFFICES ASSUME trouble = <<>>
               PROVE  Frames'
    BY DEF Frames
  <1>1. /\ WellFormed(link, "free") /\ WellFormed(link, "work")
        /\ Items(link, "free") = GatewaySession \ Connected
        /\ \A s \in GatewaySession : session[s].manager <=> session[s].reactor
        /\ Working /\ Answers
    BY DEF Frames
  <1>2. Connected' = Connected
    BY DEF Connected
  <1>3. Working'
    BY <1>1, <1>2 DEF Working
  <1>4. Answers'
    BY <1>1 DEF Answers
  <1> QED
    BY <1>1, <1>2, <1>3, <1>4 DEF Frames

(* A turn of the accepting loop, with a descriptor that was not open.           *)
LEMMA FramesServe ==
    ASSUME NetInv, Frames, trouble' = trouble, pc = "accept", pc' = "accept",
           NEW fd \in Fd \ open, Serve(fd)
    PROVE  Frames'
  <1> SUFFICES ASSUME trouble = <<>>
               PROVE  Frames'
    BY DEF Frames
  <1> DEFINE s == FirstItem(link, "free")
  <1>1. /\ WellFormed(link, "free") /\ WellFormed(link, "work")
        /\ Items(link, "free") = GatewaySession \ Connected
        /\ \A t \in GatewaySession : session[t].manager <=> session[t].reactor
        /\ Items(link, "work") = Connected
        /\ \A t \in GatewaySession : session[t].output => session[t].reactor
    BY DEF Frames, Working, Answers
  <1>2. /\ NetTypes /\ session \in [GatewaySession -> SessionType]
        /\ link \in MemoryOf(GatewaySession, LinkLists) /\ NULL \notin GatewaySession
        /\ "free" \in LinkLists /\ "work" \in LinkLists /\ "free" # "work"
        /\ s \in GatewaySession \cup {NULL}
    BY FirstSession, LogicAssumption DEF NetInv, NetTypes, LinkLists
  <1>3. s # NULL => s \in GatewaySession \ Connected
    BY <1>1, <1>2, FirstItemOfList
  <1> HIDE DEF s
  <1>4. ASSUME link' = link, session' = session
        PROVE  Frames'
    BY <1>4, FramesStay
  <1>5. CASE s = NULL /\ Refused(fd, s)
    BY <1>4, <1>5 DEF Refused
  <1>6. CASE s # NULL /\ ~Unused(s) /\ Refused(fd, s)
    BY <1>1, <1>3, <1>6 DEF Unused, Connected
  <1>7. CASE s # NULL /\ Accepted(fd, s)
    <2>1. link' = Add(PickUpFirstItem(link, "free"), "work", s)
      BY <1>7 DEF Accepted
    <2>2. /\ session'[s].reactor /\ session'[s].manager /\ ~session'[s].output
          /\ \A t \in GatewaySession \ {s} : session'[t] = session[t]
      BY <1>2, <1>3, <1>7 DEF Accepted
    <2>3. Items(link, "free") \cap Items(link, "work") = {}
      BY <1>1
    <2>4. /\ WellFormed(link', "free") /\ Items(link', "free") = Items(link, "free") \ {s}
          /\ WellFormed(link', "work") /\ Items(link', "work") = Items(link, "work") \cup {s}
      BY <1>1, <1>2, <1>7, <2>1, <2>3, MoveFirst DEF s
    <2>5. Connected' = Connected \cup {s}
      BY <1>2, <1>3, <1>7, <2>2 DEF Connected
    <2>6. \A t \in GatewaySession : /\ session'[t].manager <=> session'[t].reactor
                                    /\ session'[t].output => session'[t].reactor
      BY <1>1, <2>2
    <2>7. Working'
      BY <1>1, <2>4, <2>5 DEF Working
    <2>8. Answers'
      BY <2>6 DEF Answers
    <2> QED
      BY <1>1, <2>4, <2>5, <2>6, <2>7, <2>8 DEF Frames
  <1>8. CASE s # NULL /\ EventRefused(fd, s)
    <2>1. link' = Add(PickUpFirstItem(link, "free"), "free", s)
      BY <1>8 DEF EventRefused
    <2>2. /\ ~session'[s].reactor /\ ~session'[s].manager /\ ~session'[s].output
          /\ \A t \in GatewaySession \ {s} : session'[t] = session[t]
      BY <1>2, <1>3, <1>8 DEF EventRefused, CleanUp, SessionType
    <2>3. Items(link, "work") \cap Items(link, "free") = {}
      BY <1>1
    <2>4. /\ WellFormed(link', "free") /\ Items(link', "free") = Items(link, "free")
          /\ \A j \in LinkLists \ {"free"} :
                WellFormed(link, j) /\ Items(link, j) \cap Items(link, "free") = {}
                    => /\ WellFormed(link', j) /\ Items(link', j) = Items(link, j)
                       /\ HeadIsFirst(link, j) => HeadIsFirst(link', j)
      BY <1>1, <1>2, <1>8, <2>1, PutBack DEF s
    <2>5. WellFormed(link', "work") /\ Items(link', "work") = Items(link, "work")
      BY <1>1, <1>2, <2>3, <2>4
    <2>6. Connected' = Connected
      BY <1>2, <1>3, <1>8, <2>2 DEF Connected
    <2>7. \A t \in GatewaySession : /\ session'[t].manager <=> session'[t].reactor
                                    /\ session'[t].output => session'[t].reactor
      BY <1>1, <2>2
    <2>8. Working'
      BY <1>1, <2>5, <2>6 DEF Working
    <2>9. Answers'
      BY <2>7 DEF Answers
    <2> QED
      BY <1>1, <2>4, <2>5, <2>6, <2>7, <2>8, <2>9 DEF Frames
  <1> QED
    BY <1>5, <1>6, <1>7, <1>8 DEF Serve, s

(* Every step keeps the lists what they are, until the first session is lost.   *)
LEMMA NextFrames ==
    ASSUME NetInv, Frames, [Next]_vars
    PROVE  Frames'
  <1>0. /\ NetTypes /\ Counts(reactor) /\ Owned
        /\ link \in MemoryOf(GatewaySession, LinkLists) /\ NULL \notin GatewaySession
        /\ session \in [GatewaySession -> SessionType]
        /\ "free" \in LinkLists /\ "work" \in LinkLists /\ "temp" \in LinkLists
        /\ "free" # "work" /\ "free" # "temp" /\ "work" # "temp"
    BY LogicAssumption DEF NetInv, NetTypes, LinkLists
  <1>1. ASSUME trouble' # <<>>
        PROVE  Frames'
    BY <1>1 DEF Frames
  <1>2. ASSUME trouble = <<>>
        PROVE  /\ WellFormed(link, "free") /\ WellFormed(link, "work")
               /\ Items(link, "free") = GatewaySession \ Connected
               /\ \A s \in GatewaySession : session[s].manager <=> session[s].reactor
               /\ pc = "receive" => session[cur].reactor
               /\ Working /\ Answers
    BY <1>2 DEF Frames
  <1>3. CASE UNCHANGED vars
    <2>1. Connected' = Connected /\ (Working <=> Working') /\ (Answers <=> Answers')
      BY <1>3 DEF vars, Connected, Working, Answers
    <2> QED
      BY <1>3, <2>1 DEF vars, Frames
  <1>4. CASE Poll
    BY <1>4, FramesStay DEF Poll, Goto
  <1>5. CASE EventsDone
    <2> DEFINE p == CleanUpList(link, "temp")
    <2>1. CASE trouble # <<>>
      BY <1>1, <1>5, <2>1 DEF EventsDone
    <2>2. CASE trouble = <<>>
      <3>1. /\ p \in MemoryOf(GatewaySession, LinkLists)
            /\ p.next = link.next /\ p.prev = link.prev
            /\ p.head["temp"] = NULL /\ p.count["temp"] = 0
            /\ \A l \in {"free", "work"} : p.head[l] = link.head[l] /\ p.count[l] = link.count[l]
        BY <1>0 DEF CleanUpList, MemoryOf
      <3>2. link' = p /\ session' = session /\ trouble' = trouble /\ pc = "events" /\ pc' = "tick"
        BY <1>5 DEF EventsDone, Goto
      <3> HIDE DEF p
      <3>3. WellFormed(p, "temp") /\ Items(p, "temp") = {}
        BY <1>0, <3>1, EmptyList
      <3>4. WellFormed(p, "free") /\ Items(p, "free") = Items(link, "free")
        BY <1>0, <1>2, <2>2, <3>1, SameList
      <3>5. WellFormed(p, "work") /\ Items(p, "work") = Items(link, "work")
        BY <1>0, <1>2, <2>2, <3>1, SameList
      <3>6. Connected' = Connected
        BY <3>2 DEF Connected
      <3>7. Items(link, "work") = Connected
        BY <1>2, <2>2, <3>2 DEF Working
      <3>8. Working'
        BY <3>2, <3>3, <3>5, <3>6, <3>7 DEF Working
      <3>9. Answers'
        <4>1. \A s \in GatewaySession : session[s].output => session[s].reactor
          BY <1>2, <2>2, <3>2 DEF Answers
        <4> QED
          BY <3>2, <3>5, <3>7, <4>1 DEF Answers, Connected
      <3> QED
        BY <1>2, <2>2, <3>2, <3>4, <3>5, <3>6, <3>8, <3>9 DEF Frames
    <2> QED
      BY <2>1, <2>2
  <1>6. CASE AcceptBegins \/ AcceptEnds \/ AcceptEmfile
    BY <1>6, FramesStay DEF AcceptBegins, AcceptEnds, AcceptEmfile, Goto
  <1>7. CASE Accept
    <2>1. PICK fd \in Fd \ open : Serve(fd)
      BY <1>7 DEF Accept
    <2> QED
      BY <1>7, <2>1, FramesServe DEF Accept
  <1>8. CASE AcceptError
    BY <1>0, <1>1, <1>8, MoreTrouble DEF AcceptError
  <1>9. ASSUME NEW s \in GatewaySession, Close(s)
        PROVE  Frames'
    BY <1>0, <1>1, <1>9, MoreTrouble DEF Close
  <1>10. ASSUME NEW s \in GatewaySession, Receive(s)
         PROVE  Frames'
    <2>1. ASSUME trouble = <<>>
          PROVE  session[s].reactor
      <3>1. ~AcceptErred
        BY <2>1 DEF AcceptErred
      <3>2. s # "listen"
        BY LogicAssumption
      <3>3. s \in reactor.watched
        BY <1>0, <1>10, <3>1, <3>2 DEF Receive, Owned
      <3>4. reactor.up
        BY <1>0, <3>3 DEF Counts
      <3> QED
        BY <1>0, <3>1, <3>3, <3>4 DEF Owned, ConnectionsOwnedOnce
    <2>2. /\ link' = link /\ session' = session /\ trouble' = trouble
          /\ pc = "events" /\ pc' = "receive" /\ cur' = s
      BY <1>10 DEF Receive, Goto
    <2> QED
      BY <2>1, <2>2, FramesStay
  <1>11. CASE ReceiveEnds \/ ReceiveHangs \/ Unregistered \/ SceneTick
    BY <1>11, FramesStay DEF ReceiveEnds, ReceiveHangs, Unregistered, SceneTick, net, Goto
  <1>12. CASE Test
    <2>1. CASE trouble # <<>>
      BY <1>1, <1>12, <2>1 DEF Test
    <2>2. CASE trouble = <<>>
      <3>1. /\ link' = link /\ trouble' = trouble /\ pc' = pc /\ cur' = cur /\ pc = "receive"
            /\ session' = [session EXCEPT ![cur].output = TRUE]
            /\ cur \in GatewaySession
        BY <1>0, <1>12 DEF Test, NetTypes
      <3>2. \A s \in GatewaySession : /\ session'[s].reactor = session[s].reactor
                                      /\ session'[s].manager = session[s].manager
                                      /\ session'[s].output => s = cur \/ session[s].output
        BY <1>0, <3>1 DEF SessionType
      <3>3. Connected' = Connected
        BY <3>2 DEF Connected
      <3>4. session[cur].reactor
        BY <1>2, <2>2, <3>1
      <3>5. Working'
        BY <1>2, <2>2, <3>1, <3>3 DEF Working
      <3>6. Answers'
        BY <1>2, <2>2, <3>1, <3>2, <3>4 DEF Answers
      <3> QED
        BY <1>2, <2>2, <3>1, <3>2, <3>3, <3>4, <3>5, <3>6 DEF Frames
    <2> QED
      BY <2>1, <2>2
  <1>13. ASSUME NEW id \in UserID, Login(id) \/ Logout(id)
         PROVE  Frames'
    <2>1. /\ link' = link /\ session' = session /\ trouble' = trouble
          /\ pc = "receive" /\ pc' = pc /\ cur' = cur
      BY <1>13 DEF Login, Logout, net
    <2>2. trouble = <<>> => session[cur'].reactor
      BY <1>2, <2>1
    <2> QED
      BY <2>1, <2>2, FramesStay
  <1>14. CASE TickOk
    <2> DEFINE s == FirstItem(link, "work")
    <2>1. CASE trouble # <<>>
      BY <1>1, <1>14, <2>1 DEF TickOk
    <2>2. CASE trouble = <<>>
      <3>1. /\ link' = Add(PickUpFirstItem(link, "work"), "temp", s)
            /\ session' = [session EXCEPT ![s].output = FALSE]
            /\ trouble' = trouble /\ pc = "tick" /\ pc' = "tick" /\ s # NULL
        BY <1>14 DEF TickOk
      <3> HIDE DEF s
      <3>2. /\ WellFormed(link, "temp")
            /\ Items(link, "work") \cap Items(link, "temp") = {}
            /\ Items(link, "work") \cup Items(link, "temp") = Connected
        BY <1>2, <2>2, <3>1 DEF Working
      <3>3. /\ s \in Items(link, "work")
            /\ WellFormed(link', "work") /\ Items(link', "work") = Items(link, "work") \ {s}
            /\ WellFormed(link', "temp") /\ Items(link', "temp") = Items(link, "temp") \cup {s}
            /\ \A j \in LinkLists \ {"work", "temp"} :
                 WellFormed(link, j)
                 /\ Items(link, j) \cap (Items(link, "work") \cup Items(link, "temp")) = {}
                    => WellFormed(link', j) /\ Items(link', j) = Items(link, j)
        BY <1>0, <1>2, <2>2, <3>1, <3>2, MoveFirst DEF s
      <3>4. WellFormed(link', "free") /\ Items(link', "free") = Items(link, "free")
        <4>1. Items(link, "free") \cap (Items(link, "work") \cup Items(link, "temp")) = {}
          BY <1>2, <2>2, <3>2
        <4> QED
          BY <1>0, <1>2, <2>2, <3>3, <4>1
      <3>5. s \in GatewaySession
        BY <3>2, <3>3 DEF Connected
      <3>6. /\ ~session'[s].output
            /\ \A t \in GatewaySession : /\ session'[t].reactor = session[t].reactor
                                         /\ session'[t].manager = session[t].manager
                                         /\ session'[t].output => session[t].output
        BY <1>0, <3>1, <3>5 DEF SessionType
      <3>7. Connected' = Connected
        BY <3>6 DEF Connected
      <3>8. Working'
        BY <3>1, <3>2, <3>3, <3>7 DEF Working
      <3>9. Answers'
        BY <1>2, <2>2, <3>1, <3>3, <3>6 DEF Answers
      <3> QED
        BY <1>2, <2>2, <3>1, <3>3, <3>4, <3>6, <3>7, <3>8, <3>9 DEF Frames
    <2> QED
      BY <2>1, <2>2
  <1>15. CASE TickFails
    BY <1>0, <1>1, <1>15, MoreTrouble DEF TickFails
  <1>16. CASE TickDone
    <2> DEFINE p == Assign(link, "work", "temp")
    <2>1. CASE trouble # <<>>
      BY <1>1, <1>16, <2>1 DEF TickDone
    <2>2. CASE trouble = <<>>
      <3>1. /\ p \in MemoryOf(GatewaySession, LinkLists)
            /\ p.next = link.next /\ p.prev = link.prev
            /\ p.head["work"] = link.head["temp"] /\ p.count["work"] = link.count["temp"]
            /\ p.head["free"] = link.head["free"] /\ p.count["free"] = link.count["free"]
        BY <1>0 DEF Assign, MemoryOf
      <3>2. /\ link' = p /\ session' = session /\ trouble' = trouble
            /\ pc = "tick" /\ pc' = "scene" /\ FirstItem(link, "work") = NULL
        BY <1>16 DEF TickDone, Goto
      <3> HIDE DEF p
      <3>3. /\ WellFormed(link, "temp")
            /\ Items(link, "work") \cup Items(link, "temp") = Connected
        BY <1>2, <2>2, <3>2 DEF Working
      <3>4. Items(link, "work") = {}
        BY <1>0, <1>2, <2>2, <3>2, FirstItemOfList
      <3>5. WellFormed(p, "work") /\ Items(p, "work") = Items(link, "temp")
        BY <1>0, <3>1, <3>3, SameList
      <3>6. WellFormed(p, "free") /\ Items(p, "free") = Items(link, "free")
        BY <1>0, <1>2, <2>2, <3>1, SameList
      <3>7. Connected' = Connected
        BY <3>2 DEF Connected
      <3>8. Working'
        BY <3>2, <3>3, <3>4, <3>5, <3>7 DEF Working
      <3>9. Answers'
        BY <1>2, <2>2, <3>2, <3>4 DEF Answers
      <3> QED
        BY <1>2, <2>2, <3>2, <3>5, <3>6, <3>7, <3>8, <3>9 DEF Frames
    <2> QED
      BY <2>1, <2>2
  <1> QED
    BY <1>3, <1>4, <1>5, <1>6, <1>7, <1>8, <1>9, <1>10, <1>11, <1>12, <1>13, <1>14, <1>15,
       <1>16 DEF Next

(* Until the first gateway closes or cannot be sent to, each frame serves just  *)
(* the connected sessions, and sends all their answers (GYNetWorkManager::       *)
(* RunOnce, with the lists that it moves the sessions through).                 *)
THEOREM EveryFrameServesAll == Spec => []FramesServeAll
  <1>1. Init => Frames
    <2> SUFFICES ASSUME Init
                 PROVE  Frames
      OBVIOUS
    <2>1. Connected = {}
      BY DEF Init, Connected
    <2> QED
      BY <2>1, InitLink DEF Init, Frames, Working, Answers
  <1>2. NetInv /\ Frames /\ [Next]_vars => Frames'
    BY NextFrames
  <1>3. Frames => FramesServeAll
    BY DEF Frames, Working, Answers, Connected, FramesServeAll
  <1> QED
    BY <1>1, <1>2, <1>3, NetInvariant, PTL DEF Spec

-----------------------------------------------------------------------------
(* The humans: the pool's table and its free chain, the zones, and the array.  *)
HT == INSTANCE GYHashTable_proofs WITH Rows <- {0}, RowOf <- LAMBDA key, stray : 0

Entry == GetZone(Start)

Humans(entries) == {e[2] : e \in entries}

(* An id is in the table once, and so is a human.                              *)
TableRight(t) ==
    /\ HT!Sound(t, UserID, Human, {0})
    /\ \A e, f \in Table!Entries(t) : (e[1] = f[1] \/ e[2] = f[2]) => e = f

(* Humans that are inside are in the zone where all enter, all others in the pool. *)
ListsRight(list, inside) ==
    /\ list \in MemoryOf(Human, WorldLists)
    /\ \A l \in WorldLists : WellFormed(list, l)
    /\ Items(list, Entry) = inside
    /\ Items(list, POOL) = Human \ inside
    /\ \A z \in Zone \ {Entry} : Items(list, z) = {}
    /\ HeadIsFirst(list, Entry)

(* The array has just them, each at the index it knows.                        *)
ArrayRight(items, index, inside) ==
    /\ items \in Seq(Human) /\ Len(items) <= MaxHumanInScene
    /\ index \in [Human -> INVALID_VALUE .. MaxHumanInScene - 1]
    /\ {items[i] : i \in 1 .. Len(items)} = inside
    /\ \A i \in 1 .. Len(items) : index[items[i]] = i - 1

PlacesRight(position, inside) ==
    /\ position \in [Human -> {Start, NULL}]
    /\ \A h \in inside : position[h] = Start

WorldType == [list : MemoryOf(Human, WorldLists), items : Seq(Human),
              index : [Human -> INVALID_VALUE .. MaxHumanInScene - 1],
              position : [Human -> {Start, NULL}],
              scene : [Human -> {INVALID_VALUE, 1}]]

(* A table, a world and owners that agree about who is inside.                 *)
Agree(t, w, o) ==
    /\ TableRight(t)
    /\ w \in WorldType
    /\ ListsRight(w.list, Humans(Table!Entries(t)))
    /\ ArrayRight(w.items, w.index, Humans(Table!Entries(t)))
    /\ PlacesRight(w.position, Humans(Table!Entries(t)))
    /\ o \in [Human -> GatewaySession \cup {NULL}]

HumansInv ==
    /\ Agree(table, world, owner)
    /\ pc = "poll" => world.items = <<>>

(* The table of the pool is the table of the lemmas.                           *)
LEMMA SameTable ==
    /\ Table!NewTable = HT!NewTable
    /\ \A t : Table!Entries(t) = HT!Entries(t)
    /\ \A t, k : Table!Find(t, k, 0) = HT!Find(t, k, 0)
    /\ \A t, k : Table!Remove(t, k, 0) = HT!Remove(t, k, 0)
    /\ \A t, k, v : Table!Insert(t, k, v, 0) = HT!Insert(t, k, v, 0)
  <1>1. Table!NewTable = HT!NewTable
    BY DEF Table!NewTable, Table!EmptyRow, HT!NewTable, HT!EmptyRow
  <1>2. \A t : Table!Entries(t) = HT!Entries(t)
    BY DEF Table!Entries, HT!Entries
  <1>3. \A t, k, w : Table!Position(t, k, w, 0) = HT!Position(t, k, w, 0)
    BY DEF Table!Position, Table!FindPosition, HT!Position, HT!FindPosition
  <1>4. \A t, k : Table!Find(t, k, 0) = HT!Find(t, k, 0)
    BY <1>3 DEF Table!Find, HT!Find
  <1>5. \A t, k : Table!Remove(t, k, 0) = HT!Remove(t, k, 0)
    BY <1>3 DEF Table!Remove, HT!Remove
  <1>6. \A t, k, v : Table!Insert(t, k, v, 0) = HT!Insert(t, k, v, 0)
    BY <1>3 DEF Table!Insert, HT!Insert
  <1> QED
    BY <1>1, <1>2, <1>4, <1>5, <1>6

(* The table is numbered, has one row for every id, and NULL is nothing in it. *)
LEMMA TableFits == HT!Numbered /\ HT!Steady(UserID, {0}) /\ HT!NullApart(UserID, Human)
  <1>1. HT!Steady(UserID, {0})
    BY LogicAssumption DEF HT!Steady
  <1>2. HT!Numbered
    BY LogicAssumption, FS_CardinalityType, FS_EmptySet DEF HT!Numbered
  <1>3. HT!NullApart(UserID, Human)
    BY LogicAssumption DEF HT!NullApart, HT!RowType
  <1> QED
    BY <1>1, <1>2, <1>3

(* What an entry of the table is.                                              *)
LEMMA EntryIs ==
    ASSUME NEW t, TableRight(t), NEW e \in Table!Entries(t)
    PROVE  e[1] \in UserID /\ e[2] \in Human /\ e = <<e[1], e[2]>>
  <1>1. HT!Sound(t, UserID, Human, {0}) /\ e \in HT!Entries(t)
    BY SameTable DEF TableRight
  <1>2. e[1] \in UserID /\ e[2] \in Human /\ e = <<e[1], e[2]>>
    BY <1>1, TableFits, HT!EntryUnique
  <1> QED
    BY <1>2

(* FindObject.                                                                 *)
LEMMA FindHuman ==
    ASSUME NEW t, TableRight(t), NEW id \in UserID
    PROVE  /\ \A h : <<id, h>> \in Table!Entries(t) => Table!Find(t, id, 0) = h /\ h # NULL
           /\ Table!Find(t, id, 0) # NULL => <<id, Table!Find(t, id, 0)>> \in Table!Entries(t)
           /\ Table!Find(t, id, 0) = NULL => \A e \in Table!Entries(t) : e[1] # id
  <1>1. HT!Sound(t, UserID, Human, {0}) /\ NULL \notin Human
    BY LogicAssumption DEF TableRight
  <1>2. /\ \A v : <<id, v>> \in HT!Entries(t) => HT!Find(t, id, 0) = v
        /\ (\A v : <<id, v>> \notin HT!Entries(t)) => HT!Find(t, id, 0) = NULL
    BY <1>1, TableFits, HT!FindFinds
  <1>3. /\ \A h : <<id, h>> \in Table!Entries(t) => Table!Find(t, id, 0) = h
        /\ (\A h : <<id, h>> \notin Table!Entries(t)) => Table!Find(t, id, 0) = NULL
    BY <1>2, SameTable
  <1>4. \A e \in Table!Entries(t) : e[2] \in Human /\ e = <<e[1], e[2]>>
    BY EntryIs
  <1>5. \A h : <<id, h>> \in Table!Entries(t) => h # NULL
    BY <1>1, <1>4
  <1>6. ASSUME Table!Find(t, id, 0) # NULL
        PROVE  <<id, Table!Find(t, id, 0)>> \in Table!Entries(t)
    BY <1>3, <1>6
  <1>7. ASSUME Table!Find(t, id, 0) = NULL, NEW e \in Table!Entries(t), e[1] = id
        PROVE  FALSE
    BY <1>3, <1>4, <1>5, <1>7
  <1> QED
    BY <1>3, <1>5, <1>6, <1>7

(* AddObject into the table: a human from the pool, under an id that is not there. *)
LEMMA HumanEntered ==
    ASSUME NEW t, TableRight(t), NEW id \in UserID, Table!Find(t, id, 0) = NULL,
           NEW h \in Human, h \notin Humans(Table!Entries(t)),
           NEW p, p = Table!Insert(t, id, h, 0)
    PROVE  /\ TableRight(p)
           /\ Table!Entries(p) = Table!Entries(t) \cup {<<id, h>>}
           /\ Humans(Table!Entries(p)) = Humans(Table!Entries(t)) \cup {h}
  <1> DEFINE some == Human \ {h}
  <1>1. /\ HT!Sound(t, UserID, Human, {0}) /\ Table!Entries(t) = HT!Entries(t)
        /\ p = HT!Insert(t, id, h, 0)
        /\ \A e, f \in Table!Entries(t) : (e[1] = f[1] \/ e[2] = f[2]) => e = f
    BY SameTable DEF TableRight
  <1>2. \A e \in Table!Entries(t) : e[1] # id /\ e[2] # h /\ e[2] \in Human
    BY FindHuman, EntryIs DEF Humans
  <1>3. HT!HasFree(t, 0)
    <2>1. IsFiniteSet(some) /\ Cardinality(some) < Cardinality(Buckets)
      <3>1. /\ IsFiniteSet(some) /\ Cardinality(some) = Cardinality(Human) - 1
            /\ Cardinality(Human) \in Nat /\ Cardinality(Buckets) \in Nat
        BY LogicAssumption, FS_RemoveElement, FS_CardinalityType
      <3>2. Cardinality(Human) <= Cardinality(Buckets)
        BY LogicAssumption
      <3> QED
        BY <3>1, <3>2
    <2>2. HT!ValuesOnce(t, some)
      BY <1>1, <1>2 DEF HT!ValuesOnce
    <2> HIDE DEF some
    <2>3. HT!IsFiniteSet(some) /\ HT!Cardinality(some) < HT!Cardinality(Buckets)
      BY <2>1 DEF IsFiniteSet, HT!IsFiniteSet, Cardinality, HT!Cardinality
    <2>4. 0 \in {0}
      OBVIOUS
    <2> QED
      BY <1>1, <2>2, <2>3, <2>4, TableFits, HT!FreeBucket
  <1>4. HT!Absent(t, id)
    BY <1>1, <1>2 DEF HT!Absent
  <1>5. /\ HT!Sound(p, UserID, Human, {0})
        /\ HT!Entries(p) = HT!Entries(t) \cup {<<id, h>>}
    BY <1>1, <1>3, <1>4, TableFits, HT!InsertEnters
  <1>6. Table!Entries(p) = Table!Entries(t) \cup {<<id, h>>}
    BY <1>1, <1>5, SameTable
  <1>7. TableRight(p)
    <2>1. \A e, f \in Table!Entries(p) : (e[1] = f[1] \/ e[2] = f[2]) => e = f
      BY <1>1, <1>2, <1>6
    <2> QED
      BY <1>5, <2>1 DEF TableRight
  <1>8. Humans(Table!Entries(p)) = Humans(Table!Entries(t)) \cup {h}
    <2> DEFINE new == <<id, h>>
    <2>1. new[2] = h
      OBVIOUS
    <2> HIDE DEF new
    <2>2. {e[2] : e \in Table!Entries(t) \cup {new}} = {e[2] : e \in Table!Entries(t)} \cup {new[2]}
      OBVIOUS
    <2> QED
      BY <1>6, <2>1, <2>2 DEF Humans, new
  <1> QED
    BY <1>6, <1>7, <1>8

(* DelObject out of the table.                                                 *)
LEMMA HumanLeft ==
    ASSUME NEW t, TableRight(t), NEW id \in UserID, NEW h, <<id, h>> \in Table!Entries(t),
           NEW p, p = Table!Remove(t, id, 0)
    PROVE  /\ TableRight(p)
           /\ Table!Entries(p) = {e \in Table!Entries(t) : e[1] # id}
           /\ Humans(Table!Entries(p)) = Humans(Table!Entries(t)) \ {h}
  <1>1. /\ HT!Sound(t, UserID, Human, {0}) /\ Table!Entries(t) = HT!Entries(t)
        /\ p = HT!Remove(t, id, 0)
        /\ \A e, f \in Table!Entries(t) : (e[1] = f[1] \/ e[2] = f[2]) => e = f
    BY SameTable DEF TableRight
  <1>2. /\ HT!Sound(p, UserID, Human, {0})
        /\ HT!Entries(p) = {e \in HT!Entries(t) : e[1] # id}
    BY <1>1, TableFits, HT!RemoveRemoves
  <1>3. Table!Entries(p) = {e \in Table!Entries(t) : e[1] # id}
    BY <1>1, <1>2, SameTable
  <1>4. TableRight(p)
    BY <1>1, <1>2, <1>3 DEF TableRight
  <1>5. \A e \in Table!Entries(t) : e[1] = id <=> e[2] = h
    <2>1. <<id, h>>[1] = id /\ <<id, h>>[2] = h
      OBVIOUS
    <2> QED
      BY <1>1, <2>1
  <1>6. Humans(Table!Entries(p)) = Humans(Table!Entries(t)) \ {h}
    BY <1>3, <1>5 DEF Humans
  <1> QED
    BY <1>3, <1>4, <1>6

(* An item is taken out of the middle of one list and goes to another.          *)
LEMMA MoveFrom ==
    ASSUME NEW S, NEW L, NEW m \in MemoryOf(S, L), NULL \notin S,
           NEW l \in L, NEW k \in L, l # k,
           WellFormed(m, l), HeadIsFirst(m, l), WellFormed(m, k),
           Items(m, l) \cap Items(m, k) = {},
           NEW s \in Items(m, l),
           NEW p, p = Add(Delete(m, l, s), k, s)
    PROVE  /\ p \in MemoryOf(S, L)
           /\ WellFormed(p, l) /\ Items(p, l) = Items(m, l) \ {s} /\ HeadIsFirst(p, l)
           /\ WellFormed(p, k) /\ Items(p, k) = Items(m, k) \cup {s}
           /\ \A j \in L \ {l, k} :
                WellFormed(m, j) /\ Items(m, j) \cap (Items(m, l) \cup Items(m, k)) = {}
                    => WellFormed(p, j) /\ Items(p, j) = Items(m, j)
  <1> DEFINE q == Delete(m, l, s)
  <1>1. /\ q \in MemoryOf(S, L)
        /\ WellFormed(q, l) /\ Items(q, l) = Items(m, l) \ {s} /\ HeadIsFirst(q, l)
    BY DeleteFromList
  <1>2. s \in S
    BY FirstItemOfList
  <1>3. WellFormed(q, k) /\ Items(q, k) = Items(m, k)
    <2>1. Items(m, k) \cap Items(m, l) = {}
      OBVIOUS
    <2> QED
      BY <2>1, DeleteOther
  <1>4. \A j \in L \ {l, k} :
            WellFormed(m, j) /\ Items(m, j) \cap (Items(m, l) \cup Items(m, k)) = {}
                => WellFormed(q, j) /\ Items(q, j) = Items(m, j)
    <2> SUFFICES ASSUME NEW j \in L \ {l, k}, WellFormed(m, j),
                        Items(m, j) \cap (Items(m, l) \cup Items(m, k)) = {}
                 PROVE  WellFormed(q, j) /\ Items(q, j) = Items(m, j)
      OBVIOUS
    <2>1. Items(m, j) \cap Items(m, l) = {} /\ j \in L /\ j # l
      OBVIOUS
    <2> QED
      BY <2>1, DeleteOther
  <1>5. p = Add(q, k, s)
    OBVIOUS
  <1> HIDE DEF q
  <1>6. p \in MemoryOf(S, L) /\ WellFormed(p, k) /\ Items(p, k) = Items(m, k) \cup {s}
    <2>1. s \notin Items(q, k)
      BY <1>3
    <2>2. p \in MemoryOf(S, L) /\ WellFormed(p, k) /\ Items(p, k) = Items(q, k) \cup {s}
      BY <1>1, <1>2, <1>3, <1>5, <2>1, AddToList
    <2> QED
      BY <1>3, <2>2
  <1>7. WellFormed(p, l) /\ Items(p, l) = Items(m, l) \ {s} /\ HeadIsFirst(p, l)
    <2>1. s \notin Items(q, l) /\ Items(q, l) \cap Items(q, k) = {}
      BY <1>1, <1>3
    <2> QED
      BY <1>1, <1>2, <1>3, <1>5, <2>1, AddOther
  <1>8. ASSUME NEW j \in L \ {l, k}, WellFormed(m, j),
               Items(m, j) \cap (Items(m, l) \cup Items(m, k)) = {}
        PROVE  WellFormed(p, j) /\ Items(p, j) = Items(m, j)
    <2>1. WellFormed(q, j) /\ Items(q, j) = Items(m, j)
      BY <1>4, <1>8
    <2>2. s \notin Items(q, j) /\ Items(q, j) \cap Items(q, k) = {} /\ j # k /\ j \in L
      BY <1>3, <1>8, <2>1
    <2> QED
      BY <1>1, <1>2, <1>3, <1>5, <2>1, <2>2, AddOther
  <1> QED
    BY <1>6, <1>7, <1>8

(* The lists of the pool and the zones, where they are told apart.              *)
LEMMA ListsApart == Entry \in Zone /\ POOL \notin Zone /\ Entry \in WorldLists
                    /\ POOL \in WorldLists /\ Entry # POOL /\ NULL \notin Human
                    /\ \A l \in WorldLists \ {POOL, Entry} : l \in Zone \ {Entry}
  <1>1. Entry \in Zone
    BY LogicAssumption DEF Entry
  <1>2. POOL \notin Zone
    BY DEF POOL, Zone
  <1>3. NULL \notin Human
    BY LogicAssumption
  <1> QED
    BY <1>1, <1>2, <1>3 DEF WorldLists

(* A human leaves the pool for the zone where all enter.                        *)
LEMMA ListsEnter ==
    ASSUME NEW list, NEW inside \in SUBSET Human, ListsRight(list, inside),
           NEW h, h = FirstItem(list, POOL), h # NULL,
           NEW p, p = Add(PickUpFirstItem(list, POOL), Entry, h)
    PROVE  h \in Human \ inside /\ ListsRight(p, inside \cup {h})
  <1>1. /\ list \in MemoryOf(Human, WorldLists)
        /\ \A l \in WorldLists : WellFormed(list, l)
        /\ Items(list, Entry) = inside /\ Items(list, POOL) = Human \ inside
        /\ \A z \in Zone \ {Entry} : Items(list, z) = {}
    BY DEF ListsRight
  <1>2. /\ p \in MemoryOf(Human, WorldLists)
        /\ h \in Items(list, POOL)
        /\ WellFormed(p, POOL) /\ Items(p, POOL) = Items(list, POOL) \ {h}
        /\ WellFormed(p, Entry) /\ Items(p, Entry) = Items(list, Entry) \cup {h}
        /\ HeadIsFirst(p, Entry)
        /\ \A j \in WorldLists \ {POOL, Entry} :
             WellFormed(list, j) /\ Items(list, j) \cap (Items(list, POOL) \cup Items(list, Entry)) = {}
                => WellFormed(p, j) /\ Items(p, j) = Items(list, j)
    <2>1. Items(list, POOL) \cap Items(list, Entry) = {}
      BY <1>1
    <2> QED
      BY <1>1, <2>1, ListsApart, MoveFirst
  <1>3. \A j \in WorldLists \ {POOL, Entry} : WellFormed(p, j) /\ Items(p, j) = {}
    BY <1>1, <1>2, ListsApart
  <1>4. \A z \in Zone \ {Entry} : Items(p, z) = {}
    BY <1>3, ListsApart DEF WorldLists
  <1>5. \A l \in WorldLists : WellFormed(p, l)
    BY <1>2, <1>3
  <1> QED
    BY <1>1, <1>2, <1>4, <1>5 DEF ListsRight

(* A human that finds no room in the scene goes back to the pool.               *)
LEMMA ListsBack ==
    ASSUME NEW list, NEW inside \in SUBSET Human, ListsRight(list, inside),
           NEW h, h = FirstItem(list, POOL), h # NULL,
           NEW p, p = Add(PickUpFirstItem(list, POOL), POOL, h)
    PROVE  h \in Human \ inside /\ ListsRight(p, inside)
  <1>1. /\ list \in MemoryOf(Human, WorldLists)
        /\ \A l \in WorldLists : WellFormed(list, l)
        /\ Items(list, Entry) = inside /\ Items(list, POOL) = Human \ inside
        /\ \A z \in Zone \ {Entry} : Items(list, z) = {}
        /\ HeadIsFirst(list, Entry)
    BY DEF ListsRight
  <1>2. /\ p \in MemoryOf(Human, WorldLists)
        /\ h \in Items(list, POOL)
        /\ WellFormed(p, POOL) /\ Items(p, POOL) = Items(list, POOL)
        /\ \A j \in WorldLists \ {POOL} :
             WellFormed(list, j) /\ Items(list, j) \cap Items(list, POOL) = {}
                => /\ WellFormed(p, j) /\ Items(p, j) = Items(list, j)
                   /\ HeadIsFirst(list, j) => HeadIsFirst(p, j)
    BY <1>1, ListsApart, PutBack
  <1>3. \A j \in WorldLists \ {POOL} : Items(list, j) \cap Items(list, POOL) = {}
    BY <1>1, ListsApart
  <1>4. \A j \in WorldLists \ {POOL} : WellFormed(p, j) /\ Items(p, j) = Items(list, j)
    BY <1>1, <1>2, <1>3
  <1>5. HeadIsFirst(p, Entry)
    BY <1>1, <1>2, <1>3, ListsApart
  <1>6. Items(p, Entry) = inside /\ \A z \in Zone \ {Entry} : Items(p, z) = {}
    BY <1>1, <1>4, ListsApart DEF WorldLists
  <1>7. \A l \in WorldLists : WellFormed(p, l)
    BY <1>2, <1>4
  <1> QED
    BY <1>1, <1>2, <1>5, <1>6, <1>7 DEF ListsRight

(* A human leaves its zone for the pool.                                        *)
LEMMA ListsLeave ==
    ASSUME NEW list, NEW inside \in SUBSET Human, ListsRight(list, inside),
           NEW h \in inside,
           NEW p, p = Add(Delete(list, Entry, h), POOL, h)
    PROVE  ListsRight(p, inside \ {h})
  <1>1. /\ list \in MemoryOf(Human, WorldLists)
        /\ \A l \in WorldLists : WellFormed(list, l)
        /\ Items(list, Entry) = inside /\ Items(list, POOL) = Human \ inside
        /\ \A z \in Zone \ {Entry} : Items(list, z) = {}
        /\ HeadIsFirst(list, Entry)
    BY DEF ListsRight
  <1>2. /\ p \in MemoryOf(Human, WorldLists)
        /\ WellFormed(p, Entry) /\ Items(p, Entry) = Items(list, Entry) \ {h}
        /\ HeadIsFirst(p, Entry)
        /\ WellFormed(p, POOL) /\ Items(p, POOL) = Items(list, POOL) \cup {h}
        /\ \A j \in WorldLists \ {Entry, POOL} :
             WellFormed(list, j) /\ Items(list, j) \cap (Items(list, Entry) \cup Items(list, POOL)) = {}
                => WellFormed(p, j) /\ Items(p, j) = Items(list, j)
    <2>1. Items(list, Entry) \cap Items(list, POOL) = {} /\ h \in Items(list, Entry)
      BY <1>1
    <2> QED
      BY <1>1, <2>1, ListsApart, MoveFrom
  <1>3. \A j \in WorldLists \ {Entry, POOL} : WellFormed(p, j) /\ Items(p, j) = {}
    BY <1>1, <1>2, ListsApart
  <1>4. \A z \in Zone \ {Entry} : Items(p, z) = {}
    BY <1>3, ListsApart DEF WorldLists
  <1>5. \A l \in WorldLists : WellFormed(p, l)
    BY <1>2, <1>3
  <1> QED
    BY <1>1, <1>2, <1>4, <1>5 DEF ListsRight

(* A human is put behind the last one of the array.                             *)
LEMMA ArrayEnter ==
    ASSUME NEW items, NEW index, NEW inside \in SUBSET Human, ArrayRight(items, index, inside),
           NEW h \in Human \ inside, Len(items) < MaxHumanInScene,
           NEW is, is = Append(items, h),
           NEW ix, ix = [index EXCEPT ![h] = Len(items)]
    PROVE  ArrayRight(is, ix, inside \cup {h})
  <1> DEFINE n == Len(items)
  <1>1. /\ items \in Seq(Human) /\ n \in Nat
        /\ index \in [Human -> INVALID_VALUE .. MaxHumanInScene - 1]
        /\ {items[i] : i \in 1 .. n} = inside
        /\ \A i \in 1 .. n : index[items[i]] = i - 1
    BY DEF ArrayRight
  <1>2. MaxHumanInScene \in Nat
    BY LogicAssumption
  <1>3. /\ is \in Seq(Human) /\ Len(is) = n + 1 /\ is[n + 1] = h
        /\ \A i \in 1 .. n : is[i] = items[i] /\ items[i] \in inside
    BY <1>1
  <1>4. ix \in [Human -> INVALID_VALUE .. MaxHumanInScene - 1]
    <2>1. n \in INVALID_VALUE .. MaxHumanInScene - 1
      BY <1>1, <1>2 DEF INVALID_VALUE
    <2> QED
      BY <1>1, <2>1
  <1>5. ix[h] = n /\ \A x \in inside : ix[x] = index[x]
    BY <1>1
  <1> HIDE DEF n
  <1>6. {is[i] : i \in 1 .. n + 1} = inside \cup {h}
    <2>1. 1 .. n + 1 = (1 .. n) \cup {n + 1}
      BY <1>1
    <2>2. {is[i] : i \in 1 .. n} = {items[i] : i \in 1 .. n}
      BY <1>3
    <2>3. {is[i] : i \in (1 .. n) \cup {n + 1}} = {is[i] : i \in 1 .. n} \cup {is[n + 1]}
      OBVIOUS
    <2> QED
      BY <1>1, <1>3, <2>1, <2>2, <2>3
  <1>7. \A i \in 1 .. n + 1 : ix[is[i]] = i - 1
    <2>1. ix[is[n + 1]] = (n + 1) - 1
      BY <1>1, <1>3, <1>5
    <2>2. \A i \in 1 .. n : ix[is[i]] = i - 1
      BY <1>1, <1>3, <1>5
    <2>3. \A i \in 1 .. n + 1 : i = n + 1 \/ i \in 1 .. n
      BY <1>1
    <2> QED
      BY <2>1, <2>2, <2>3
  <1>8. n + 1 <= MaxHumanInScene
    BY <1>1, <1>2 DEF n
  <1> QED
    BY <1>3, <1>4, <1>6, <1>7, <1>8 DEF ArrayRight

(* The array and the indexes without a human.                                   *)
ItemsLeft(items, index, h) ==
    SubSeq([items EXCEPT ![index[h] + 1] = items[Len(items)]], 1, Len(items) - 1)

IndexLeft(items, index, h) ==
    [i \in DOMAIN index |-> IF i = h THEN INVALID_VALUE
                            ELSE IF i = items[Len(items)] THEN index[h] ELSE index[i]]

(* The last human of the array takes the place of the one that leaves.          *)
LEMMA ArrayLeave ==
    ASSUME NEW items, NEW index, NEW inside \in SUBSET Human, ArrayRight(items, index, inside),
           NEW h \in inside,
           NEW n, n = Len(items),
           NEW is, is = ItemsLeft(items, index, h),
           NEW ix, ix = IndexLeft(items, index, h)
    PROVE  ArrayRight(is, ix, inside \ {h}) /\ index[h] \in 0 .. n - 1
  <1> DEFINE moved == [items EXCEPT ![index[h] + 1] = items[n]]
  <1>1. /\ items \in Seq(Human) /\ n \in Nat /\ n <= MaxHumanInScene
        /\ index \in [Human -> INVALID_VALUE .. MaxHumanInScene - 1]
        /\ {items[i] : i \in 1 .. n} = inside
        /\ \A i \in 1 .. n : index[items[i]] = i - 1
    BY DEF ArrayRight
  <1>2. PICK k \in 1 .. n : items[k] = h
    BY <1>1
  <1>3. MaxHumanInScene \in Nat /\ k \in Nat /\ n \in Nat \ {0} /\ n - 1 \in Nat
    BY <1>1, <1>2, LogicAssumption
  <1>4. index[h] = k - 1 /\ index[h] \in 0 .. n - 1
    BY <1>1, <1>2, <1>3
  <1>5. /\ moved \in Seq(Human) /\ Len(moved) = n
        /\ \A i \in 1 .. n : moved[i] = IF i = k THEN items[n] ELSE items[i]
    <2>1. (k - 1) + 1 = k /\ items[n] \in Human
      BY <1>1, <1>2, <1>3
    <2>2. moved = [items EXCEPT ![k] = items[n]]
      BY <1>4, <2>1
    <2> QED
      BY <1>1, <1>2, <2>1, <2>2
  <1>6. /\ is \in Seq(Human) /\ Len(is) = n - 1
        /\ \A i \in 1 .. n - 1 : is[i] = IF i = k THEN items[n] ELSE items[i]
    <2>1. is = SubSeq(moved, 1, n - 1)
      BY DEF ItemsLeft
    <2> HIDE DEF moved
    <2>2. /\ is \in Seq(Human) /\ Len(is) = n - 1
          /\ \A i \in 1 .. n - 1 : is[i] = moved[i]
      BY <1>3, <1>5, <2>1
    <2> QED
      BY <1>3, <1>5, <2>2
  <1> HIDE DEF moved
  <1>7. \A i, j \in 1 .. n : items[i] = items[j] => i = j
    <2> SUFFICES ASSUME NEW i \in 1 .. n, NEW j \in 1 .. n, items[i] = items[j]
                 PROVE  i = j
      OBVIOUS
    <2>1. i - 1 = j - 1 /\ i \in Int /\ j \in Int
      BY <1>1
    <2> QED
      BY <2>1
  <1>0. ix = [i \in Human |-> IF i = h THEN INVALID_VALUE
                             ELSE IF i = items[n] THEN index[h] ELSE index[i]]
    BY <1>1 DEF IndexLeft
  <1>8. ix \in [Human -> INVALID_VALUE .. MaxHumanInScene - 1]
    <2>1. index[h] \in INVALID_VALUE .. MaxHumanInScene - 1
      BY <1>1
    <2>2. INVALID_VALUE \in INVALID_VALUE .. MaxHumanInScene - 1
      BY <1>3 DEF INVALID_VALUE
    <2> QED
      BY <1>0, <1>1, <2>1, <2>2
  <1>9. {is[i] : i \in 1 .. n - 1} = inside \ {h}
    <2>1. ASSUME NEW i \in 1 .. n - 1
          PROVE  is[i] \in inside \ {h}
      <3>1. i \in 1 .. n /\ n \in 1 .. n /\ i # n
        BY <1>3
      <3>2. CASE i = k
        <4>1. is[i] = items[n] /\ items[n] # h /\ items[n] \in inside
          BY <1>1, <1>2, <1>6, <1>7, <3>1, <3>2
        <4> QED
          BY <4>1
      <3>3. CASE i # k
        <4>1. is[i] = items[i] /\ items[i] # h /\ items[i] \in inside
          BY <1>1, <1>2, <1>6, <1>7, <3>1, <3>3
        <4> QED
          BY <4>1
      <3> QED
        BY <3>2, <3>3
    <2>2. ASSUME NEW x \in inside \ {h}
          PROVE  \E i \in 1 .. n - 1 : is[i] = x
      <3>1. PICK j \in 1 .. n : items[j] = x
        BY <1>1
      <3>2. j # k
        BY <1>2, <3>1
      <3>3. CASE j = n
        <4>1. k \in 1 .. n - 1
          BY <1>3, <3>2, <3>3
        <4> QED
          BY <1>6, <3>1, <3>3, <4>1
      <3>4. CASE j # n
        <4>1. j \in 1 .. n - 1
          BY <1>3, <3>4
        <4> QED
          BY <1>6, <3>1, <3>2, <4>1
      <3> QED
        BY <3>3, <3>4
    <2> QED
      BY <2>1, <2>2
  <1>10. ASSUME NEW i \in 1 .. n - 1
         PROVE  ix[is[i]] = i - 1
    <2>1. i \in 1 .. n /\ n \in 1 .. n /\ i # n
      BY <1>1, <1>3
    <2>2. CASE i = k
      <3>1. is[i] = items[n] /\ items[n] # h /\ items[n] \in Human
        BY <1>1, <1>2, <1>6, <1>7, <2>1, <2>2
      <3>2. ix[items[n]] = index[h]
        BY <1>0, <3>1
      <3> QED
        BY <1>4, <2>2, <3>1, <3>2
    <2>3. CASE i # k
      <3>1. is[i] = items[i] /\ items[i] # h /\ items[i] # items[n] /\ items[i] \in Human
        BY <1>1, <1>2, <1>6, <1>7, <2>1, <2>3
      <3>2. ix[items[i]] = index[items[i]]
        BY <1>0, <3>1
      <3> QED
        BY <1>1, <2>1, <3>1, <3>2
    <2> QED
      BY <2>2, <2>3
  <1>11. Len(is) <= MaxHumanInScene
    BY <1>1, <1>3, <1>6
  <1>12. {is[i] : i \in 1 .. Len(is)} = inside \ {h} /\ \A i \in 1 .. Len(is) : ix[is[i]] = i - 1
    BY <1>6, <1>9, <1>10
  <1> QED
    BY <1>4, <1>6, <1>8, <1>11, <1>12 DEF ArrayRight

WorldOf(list, items, index, position, scene) ==
    [list |-> list, items |-> items, index |-> index, position |-> position, scene |-> scene]

With(f, x, v) == [f EXCEPT ![x] = v]

(* AddCreature, field by field.                                                 *)
LEMMA CreatureAdded ==
    ASSUME NEW a, NEW b, NEW c, NEW d, NEW e, NEW h, NEW p,
           NEW w, w = WorldOf(a, b, c, d, e)
    PROVE  AddCreature(w, h, p) =
               WorldOf(Add(a, GetZone(p), h), Append(b, h), With(c, h, Len(b)),
                       With(d, h, p), With(e, h, 1))
  <1> DEFINE x == Append(b, h)
             y == [c EXCEPT ![h] = Len(b)]
             z == Add(a, GetZone(p), h)
             u == [w EXCEPT !.items = x]
             v == ArrayAdd(w, h)
             t == [v EXCEPT !.list = Add(@, GetZone(p), h)]
             s == SetPosition(t, h, p)
  <1>1. w.items = b /\ w.index = c
    BY DEF WorldOf
  <1>2. u = WorldOf(a, x, c, d, e)
    BY DEF WorldOf
  <1>3. v = [u EXCEPT !.index = y]
    BY <1>1 DEF ArrayAdd, WorldOf
  <1> HIDE DEF u, v, x, y
  <1>4. v = WorldOf(a, x, y, d, e)
    BY <1>2, <1>3 DEF WorldOf
  <1>5. t = WorldOf(z, x, y, d, e)
    BY <1>4 DEF WorldOf
  <1> HIDE DEF t, z
  <1>6. s = WorldOf(z, x, y, [d EXCEPT ![h] = p], e)
    BY <1>5 DEF WorldOf, SetPosition
  <1>7. AddCreature(w, h, p) = [s EXCEPT !.scene = [@ EXCEPT ![h] = 1]]
    BY DEF AddCreature, t, v
  <1> HIDE DEF s
  <1>8. [s EXCEPT !.scene = [@ EXCEPT ![h] = 1]]
          = WorldOf(z, x, y, [d EXCEPT ![h] = p], [e EXCEPT ![h] = 1])
    BY <1>6 DEF WorldOf
  <1> QED
    BY <1>7, <1>8 DEF x, y, z, With

(* The human goes back, field by field. *)
LEMMA HumanPooled ==
    ASSUME NEW a, NEW b, NEW c, NEW d, NEW e, NEW h,
           NEW w, w = WorldOf(a, b, c, d, e)
    PROVE  Pooled(w, h) = WorldOf(Add(a, POOL, h), b, c, With(d, h, NULL), e)
  <1> DEFINE x == Add(a, POOL, h)
             y == [d EXCEPT ![h] = NULL]
             u == [w EXCEPT !.list = x]
  <1>1. w.list = a /\ w.position = d
    BY DEF WorldOf
  <1>2. u = WorldOf(x, b, c, d, e)
    BY DEF WorldOf
  <1>3. Pooled(w, h) = [u EXCEPT !.position = y]
    BY <1>1 DEF Pooled, WorldOf
  <1> HIDE DEF u, x, y
  <1>4. [u EXCEPT !.position = y] = WorldOf(x, b, c, y, e)
    BY <1>2 DEF WorldOf
  <1> QED
    BY <1>3, <1>4 DEF x, y, With

(* RemoveCreature, field by field, of a human that is in its zone's list and in *)
(* the array.                                                                   *)
LEMMA CreatureRemoved ==
    ASSUME NEW a, NEW b, NEW c, NEW d, NEW e, NEW h,
           NEW w, w = WorldOf(a, b, c, d, e),
           NEW zone, zone = GetZone(d[h]), zone # NULL,
           c[h] \in 0 .. Len(b) - 1
    PROVE  /\ RemoveCreature(w, h).result = INVALID_VALUE
           /\ RemoveCreature(w, h).world =
                  WorldOf(Delete(a, zone, h), ItemsLeft(b, c, h), IndexLeft(b, c, h), d,
                          With(e, h, INVALID_VALUE))
  <1> DEFINE x == Delete(a, zone, h)
             y == [e EXCEPT ![h] = INVALID_VALUE]
             is == ItemsLeft(b, c, h)
             ix == IndexLeft(b, c, h)
             u == [w EXCEPT !.scene = y]
             left == [w EXCEPT !.scene = [@ EXCEPT ![h] = INVALID_VALUE],
                               !.list = Delete(@, zone, h)]
             r == [left EXCEPT !.items = is]
  <1>1. w.list = a /\ w.scene = e /\ w.items = b /\ w.index = c /\ w.position = d
    BY DEF WorldOf
  <1>2. u = WorldOf(a, b, c, d, y)
    BY DEF WorldOf
  <1>3. left = [u EXCEPT !.list = x]
    BY <1>1 DEF WorldOf
  <1> HIDE DEF u, x, y, is, ix
  <1>4. [u EXCEPT !.list = x] = WorldOf(x, b, c, d, y)
    BY <1>2 DEF WorldOf
  <1>5. left.items = b /\ left.index = c
    BY <1>3, <1>4 DEF WorldOf
  <1>6. RemoveCreature(w, h) = [world |-> ArrayDelete(left, h), result |-> INVALID_VALUE]
    BY <1>1 DEF RemoveCreature, InArray
  <1>7. left = WorldOf(x, b, c, d, y)
    BY <1>3, <1>4
  <1> HIDE DEF left
  <1>8. r = WorldOf(x, is, c, d, y)
    BY <1>7 DEF WorldOf
  <1>9. ArrayDelete(left, h) = [r EXCEPT !.index = ix]
    <2>1. ArrayDelete(left, h) = [left EXCEPT !.items = is, !.index = ix]
      BY <1>5 DEF ArrayDelete, ItemsLeft, IndexLeft, is, ix
    <2> QED
      BY <1>7, <2>1 DEF WorldOf
  <1> HIDE DEF r
  <1>10. [r EXCEPT !.index = ix] = WorldOf(x, is, ix, d, y)
    BY <1>8 DEF WorldOf
  <1> QED
    BY <1>6, <1>9, <1>10 DEF x, y, is, ix, With
(* AddHumanToScene: whoever is inside stays, and only under a new id and with   *)
(* a human from the pool somebody comes in.                                     *)
LEMMA LoginAgrees ==
    ASSUME Agree(table, world, owner), NetTypes, NEW id \in UserID, Login(id)
    PROVE  /\ Agree(table', world', owner')
           /\ \/ UNCHANGED humans
              \/ UNCHANGED <<table, owner>>
              \/ /\ Find(id) = NULL
                 /\ \E h \in Human \ Humans(Table!Entries(table)) :
                        /\ Table!Entries(table') = Table!Entries(table) \cup {<<id, h>>}
                        /\ owner' = [owner EXCEPT ![h] = cur]
  <1> DEFINE inside == Humans(Table!Entries(table))
             h == FirstItem(world.list, POOL)
             taken == [world EXCEPT !.list = PickUpFirstItem(@, POOL)]
             placed == SetPosition(taken, h, Start)
  <1>0. /\ TableRight(table) /\ world \in WorldType
        /\ ListsRight(world.list, inside)
        /\ ArrayRight(world.items, world.index, inside)
        /\ PlacesRight(world.position, inside)
        /\ owner \in [Human -> GatewaySession \cup {NULL}]
        /\ cur \in GatewaySession
    BY DEF Agree, NetTypes, Login
  <1>1. inside \in SUBSET Human
    BY <1>0, EntryIs DEF Humans
  <1>2. CASE UNCHANGED humans
    BY <1>2 DEF humans
  <1>3. CASE ~UNCHANGED humans
    <2>1. Find(id) = NULL /\ h # NULL /\ GetZone(Start) = Entry
      BY <1>3 DEF Login, Inside, Entry
    <2> DEFINE w1 == AddCreature(placed, h, Start)
               w2 == Pooled(placed, h)
    <2>2. h \in Human \ inside
      <3>1. h \in Human \ inside /\ ListsRight(Add(PickUpFirstItem(world.list, POOL), POOL, h), inside)
        BY <1>0, <1>1, <2>1, ListsBack
      <3> QED
        BY <3>1
    <2> HIDE DEF h
    <2>12. placed = WorldOf(PickUpFirstItem(world.list, POOL), world.items, world.index,
                            [world.position EXCEPT ![h] = Start], world.scene)
      <3>1. taken = WorldOf(PickUpFirstItem(world.list, POOL), world.items, world.index,
                            world.position, world.scene)
        <4>1. world = WorldOf(world.list, world.items, world.index, world.position, world.scene)
          BY <1>0 DEF WorldType, WorldOf
        <4> QED
          BY <4>1 DEF WorldOf
      <3> HIDE DEF taken
      <3> QED
        BY <3>1 DEF SetPosition, WorldOf
    <2>3. /\ w1.list = Add(PickUpFirstItem(world.list, POOL), Entry, h)
          /\ w1.items = Append(world.items, h)
          /\ w1.index = [world.index EXCEPT ![h] = Len(world.items)]
          /\ w1.position = [world.position EXCEPT ![h] = Start]
          /\ w1.scene = [world.scene EXCEPT ![h] = 1]
          /\ w1 = WorldOf(w1.list, w1.items, w1.index, w1.position, w1.scene)
      <3> HIDE DEF placed
      <3>1. w1 = WorldOf(Add(PickUpFirstItem(world.list, POOL), Entry, h), Append(world.items, h),
                         With(world.index, h, Len(world.items)),
                         With([world.position EXCEPT ![h] = Start], h, Start),
                         With(world.scene, h, 1))
        BY <2>1, <2>12, CreatureAdded
      <3>2. [[world.position EXCEPT ![h] = Start] EXCEPT ![h] = Start]
              = [world.position EXCEPT ![h] = Start]
        BY <1>0, <2>2 DEF WorldType
      <3> HIDE DEF w1
      <3> QED
        BY <3>1, <3>2 DEF WorldOf, With
    <2>4. /\ w2.list = Add(PickUpFirstItem(world.list, POOL), POOL, h)
          /\ w2.items = world.items
          /\ w2.index = world.index
          /\ w2.position = [world.position EXCEPT ![h] = NULL]
          /\ w2.scene = world.scene
          /\ w2 = WorldOf(w2.list, w2.items, w2.index, w2.position, w2.scene)
      <3> HIDE DEF placed
      <3>1. w2 = WorldOf(Add(PickUpFirstItem(world.list, POOL), POOL, h), world.items, world.index,
                         With([world.position EXCEPT ![h] = Start], h, NULL), world.scene)
        BY <2>12, HumanPooled
      <3>2. [[world.position EXCEPT ![h] = Start] EXCEPT ![h] = NULL]
              = [world.position EXCEPT ![h] = NULL]
        BY <1>0, <2>2 DEF WorldType
      <3> HIDE DEF w2
      <3> QED
        BY <3>1, <3>2 DEF WorldOf, With
    <2>5. placed.items = world.items
      BY <1>0 DEF WorldType, SetPosition
    <2>6. /\ world.scene \in [Human -> {INVALID_VALUE, 1}]
          /\ world.position \in [Human -> {Start, NULL}]
      BY <1>0 DEF WorldType
    <2>7. CASE /\ CanAddCreature(placed, Start)
               /\ table' = Table!Insert(table, id, h, 0)
               /\ world' = w1
               /\ owner' = [owner EXCEPT ![h] = cur]
      <3> HIDE DEF w1, w2, placed, inside, h
      <3>1. /\ TableRight(table')
            /\ Table!Entries(table') = Table!Entries(table) \cup {<<id, h>>}
            /\ Humans(Table!Entries(table')) = inside \cup {h}
        <4>1. Table!Find(table, id, 0) = NULL /\ h \in Human /\ h \notin Humans(Table!Entries(table))
          BY <2>1, <2>2 DEF Find, inside
        <4> QED
          BY <1>0, <2>7, <4>1, HumanEntered DEF inside
      <3>2. ListsRight(w1.list, inside \cup {h})
        BY <1>0, <1>1, <2>1, <2>3, ListsEnter DEF h
      <3>3. ArrayRight(w1.items, w1.index, inside \cup {h})
        <4>1. Len(world.items) < MaxHumanInScene
          BY <2>5, <2>7 DEF CanAddCreature
        <4> QED
          BY <1>0, <1>1, <2>2, <2>3, <4>1, ArrayEnter
      <3>4. PlacesRight(w1.position, inside \cup {h})
        BY <1>0, <1>1, <2>2, <2>3 DEF PlacesRight
      <3>5. w1 \in WorldType
        <4>1. /\ w1.list \in MemoryOf(Human, WorldLists)
              /\ w1.items \in Seq(Human)
              /\ w1.index \in [Human -> INVALID_VALUE .. MaxHumanInScene - 1]
              /\ w1.position \in [Human -> {Start, NULL}]
          BY <3>2, <3>3, <3>4 DEF ListsRight, ArrayRight, PlacesRight
        <4>2. w1.scene \in [Human -> {INVALID_VALUE, 1}]
          BY <2>2, <2>3, <2>6
        <4> QED
          BY <2>3, <4>1, <4>2 DEF WorldType, WorldOf
      <3>6. owner' \in [Human -> GatewaySession \cup {NULL}]
        BY <1>0, <2>2, <2>7
      <3>7. Agree(table', world', owner')
        BY <2>7, <3>1, <3>2, <3>3, <3>4, <3>5, <3>6 DEF Agree
      <3> QED
        BY <2>1, <2>2, <2>7, <3>1, <3>7 DEF inside
    <2>8. CASE world' = w2 /\ UNCHANGED <<table, owner>>
      <3> HIDE DEF w1, w2, placed, inside, h
      <3>1. ListsRight(w2.list, inside)
        BY <1>0, <1>1, <2>1, <2>4, ListsBack DEF h
      <3>2. ArrayRight(w2.items, w2.index, inside)
        BY <1>0, <2>4
      <3>3. PlacesRight(w2.position, inside)
        BY <1>0, <1>1, <2>2, <2>4 DEF PlacesRight
      <3>4. w2 \in WorldType
        <4>1. /\ w2.list \in MemoryOf(Human, WorldLists)
              /\ w2.items \in Seq(Human)
              /\ w2.index \in [Human -> INVALID_VALUE .. MaxHumanInScene - 1]
              /\ w2.position \in [Human -> {Start, NULL}]
          BY <3>1, <3>2, <3>3 DEF ListsRight, ArrayRight, PlacesRight
        <4> QED
          BY <2>4, <2>6, <4>1 DEF WorldType, WorldOf
      <3>5. Agree(table', world', owner')
        BY <1>0, <2>8, <3>1, <3>2, <3>3, <3>4 DEF Agree, inside
      <3> QED
        BY <2>8, <3>5
    <2> HIDE DEF w1, w2
    <2> QED
      BY <1>3, <2>1, <2>7, <2>8 DEF Login, w1, w2, h
  <1> QED
    BY <1>0, <1>2, <1>3 DEF Agree, humans

(* RemoveHumanFromScene: whoever has the id is out of everything, and nobody    *)
(* else.                                                                        *)
LEMMA LogoutAgrees ==
    ASSUME Agree(table, world, owner), NEW id \in UserID, Logout(id)
    PROVE  /\ Agree(table', world', owner')
           /\ \/ UNCHANGED humans
              \/ /\ Table!Entries(table') = {e \in Table!Entries(table) : e[1] # id}
                 /\ \E h \in Human : /\ <<id, h>> \in Table!Entries(table)
                                     /\ owner' = [owner EXCEPT ![h] = NULL]
  <1> DEFINE inside == Humans(Table!Entries(table))
             h == Find(id)
             removed == RemoveCreature(world, h)
             w == Pooled(removed.world, h)
             items == ItemsLeft(world.items, world.index, h)
             index == IndexLeft(world.items, world.index, h)
  <1>0. /\ TableRight(table) /\ world \in WorldType
        /\ ListsRight(world.list, inside)
        /\ ArrayRight(world.items, world.index, inside)
        /\ PlacesRight(world.position, inside)
        /\ owner \in [Human -> GatewaySession \cup {NULL}]
    BY DEF Agree
  <1>1. inside \in SUBSET Human
    BY <1>0, EntryIs DEF Humans
  <1>2. CASE h = NULL
    <2>1. UNCHANGED humans
      BY <1>2 DEF Logout
    <2> QED
      BY <1>0, <2>1 DEF Agree, humans
  <1>3. CASE h # NULL
    <2>1. <<id, h>> \in Table!Entries(table)
      BY <1>0, <1>3, FindHuman DEF Find
    <2>2. h \in inside
      <3>1. <<id, h>>[2] = h
        OBVIOUS
      <3> HIDE DEF h
      <3> QED
        BY <2>1, <3>1 DEF Humans
    <2> HIDE DEF h
    <2>3. ArrayRight(items, index, inside \ {h}) /\ world.index[h] \in 0 .. Len(world.items) - 1
      <3> HIDE DEF inside
      <3> QED
        BY <1>0, <1>1, <2>2, ArrayLeave
    <2>4. /\ world.position[h] = Start /\ GetZone(Start) = Entry
          /\ Entry # NULL /\ INVALID_VALUE # 0
      BY <1>0, <2>2, LogicAssumption DEF PlacesRight, Entry, INVALID_VALUE
    <2>5. world = WorldOf(world.list, world.items, world.index, world.position, world.scene)
      BY <1>0 DEF WorldType, WorldOf
    <2>6. /\ removed.result = INVALID_VALUE
          /\ removed.world = WorldOf(Delete(world.list, Entry, h), items, index, world.position,
                                     With(world.scene, h, INVALID_VALUE))
      <3>1. Entry = GetZone(world.position[h])
        BY <2>4
      <3> QED
        BY <2>3, <2>4, <2>5, <3>1, CreatureRemoved
    <2> HIDE DEF removed, items, index, inside
    <2>7. w = WorldOf(Add(Delete(world.list, Entry, h), POOL, h), items, index,
                      With(world.position, h, NULL), With(world.scene, h, INVALID_VALUE))
      BY <2>6, HumanPooled
    <2> HIDE DEF w
    <2>8. /\ world' = w
          /\ table' = Table!Remove(table, id, 0)
          /\ owner' = [owner EXCEPT ![h] = NULL]
      BY <1>3, <2>4, <2>6 DEF Logout, Freed, h, removed, w
    <2>9. /\ w.list = Add(Delete(world.list, Entry, h), POOL, h)
          /\ w.items = items /\ w.index = index
          /\ w.position = [world.position EXCEPT ![h] = NULL]
          /\ w.scene = [world.scene EXCEPT ![h] = INVALID_VALUE]
          /\ w = WorldOf(w.list, w.items, w.index, w.position, w.scene)
      BY <2>7 DEF WorldOf, With
    <2>10. /\ TableRight(table')
           /\ Table!Entries(table') = {e \in Table!Entries(table) : e[1] # id}
           /\ Humans(Table!Entries(table')) = inside \ {h}
      BY <1>0, <2>1, <2>8, HumanLeft DEF inside
    <2>11. ListsRight(w.list, inside \ {h})
      BY <1>0, <1>1, <2>2, <2>9, ListsLeave
    <2>12. PlacesRight(w.position, inside \ {h})
      BY <1>0, <1>1, <2>2, <2>9 DEF PlacesRight
    <2>13. w \in WorldType
      <3>1. /\ w.list \in MemoryOf(Human, WorldLists)
            /\ w.items \in Seq(Human)
            /\ w.index \in [Human -> INVALID_VALUE .. MaxHumanInScene - 1]
            /\ w.position \in [Human -> {Start, NULL}]
        BY <2>3, <2>9, <2>11, <2>12 DEF ListsRight, ArrayRight, PlacesRight
      <3>2. world.scene \in [Human -> {INVALID_VALUE, 1}] /\ h \in Human
        BY <1>0, <1>1, <2>2 DEF WorldType
      <3>3. w.scene \in [Human -> {INVALID_VALUE, 1}]
        BY <2>9, <3>2
      <3> QED
        BY <2>9, <3>1, <3>3 DEF WorldType, WorldOf
    <2>14. owner' \in [Human -> GatewaySession \cup {NULL}]
      BY <1>0, <1>1, <2>2, <2>8
    <2>15. Agree(table', world', owner')
      BY <2>3, <2>8, <2>9, <2>10, <2>11, <2>12, <2>13, <2>14 DEF Agree
    <2> QED
      BY <1>1, <2>1, <2>2, <2>8, <2>10, <2>15
  <1> QED
    BY <1>2, <1>3

(* The steps of the humans are Login and Logout.                                *)
LEMMA HumansMove ==
    ASSUME [Next]_vars, ~UNCHANGED humans
    PROVE  \E id \in UserID : Login(id) \/ Logout(id)
  BY DEF Next, vars, humans, net, Poll, EventsDone, AcceptBegins, AcceptEnds, AcceptEmfile, Accept,
         AcceptError, Close, Receive, ReceiveEnds, ReceiveHangs, Test, Unregistered, TickOk,
         TickFails, TickDone, SceneTick

(* A frame begins where the tick of the scene has let the last one end.         *)
LEMMA PollAgain ==
    ASSUME [Next]_vars, pc' = "poll", pc # "poll"
    PROVE  SceneTick /\ world.items = <<>>
  BY DEF Next, vars, net, Poll, EventsDone, AcceptBegins, AcceptEnds, AcceptEmfile, Accept,
         AcceptError, Close, Receive, ReceiveEnds, ReceiveHangs, Test, Unregistered, TickOk,
         TickFails, TickDone, SceneTick, Login, Logout, Goto, TickAsserts

(* Every step keeps table, scene, zones, array and pool in agreement.           *)
LEMMA NextHumans ==
    ASSUME NetTypes, HumansInv, [Next]_vars
    PROVE  HumansInv'
  <1>1. Agree(table', world', owner')
    <2>1. CASE UNCHANGED humans
      BY <2>1 DEF HumansInv, humans, Agree
    <2>2. CASE ~UNCHANGED humans
      <3>1. PICK id \in UserID : Login(id) \/ Logout(id)
        BY <2>2, HumansMove
      <3> QED
        BY <3>1, LoginAgrees, LogoutAgrees DEF HumansInv
    <2> QED
      BY <2>1, <2>2
  <1>2. ASSUME pc' = "poll"
        PROVE  world'.items = <<>>
    <2>1. CASE pc = "poll"
      <3>1. UNCHANGED humans
        <4>1. ASSUME NEW id \in UserID
              PROVE  ~Login(id) /\ ~Logout(id)
          BY <2>1 DEF Login, Logout
        <4> QED
          BY <4>1, HumansMove
      <3> QED
        BY <2>1, <3>1 DEF HumansInv, humans
    <2>2. CASE pc # "poll"
      BY <1>2, <2>2, PollAgain DEF SceneTick, humans
    <2> QED
      BY <2>1, <2>2
  <1> QED
    BY <1>1, <1>2 DEF HumansInv, Agree

(* At first all humans are in the pool.                                         *)
LEMMA InitHumans ==
    ASSUME Init
    PROVE  HumansInv
  <1>1. PICK order \in Orders(Human) :
          world = [list |-> Filled0(Memory(Human, WorldLists), POOL, order),
                   items |-> <<>>, index |-> [h \in Human |-> INVALID_VALUE],
                   position |-> [h \in Human |-> NULL],
                   scene |-> [h \in Human |-> INVALID_VALUE]]
    BY DEF Init, WorldLists
  <1>2. /\ world.list \in MemoryOf(Human, WorldLists)
        /\ WellFormed(world.list, POOL) /\ Items(world.list, POOL) = Human
        /\ \A k \in WorldLists \ {POOL} :
             /\ WellFormed(world.list, k) /\ Items(world.list, k) = {}
             /\ HeadIsFirst(world.list, k)
    <2>1. world.list = Filled0(Memory(Human, WorldLists), POOL, order)
      BY <1>1
    <2>2. IsFiniteSet(Human) /\ NULL \notin Human /\ POOL \in WorldLists
      BY LogicAssumption, ListsApart
    <2> QED
      BY <2>1, <2>2, FilledList
  <1>3. /\ HT!Sound(Table!NewTable, UserID, Human, {0})
        /\ Table!Entries(Table!NewTable) = {}
    <2>1. HT!Sound(HT!NewTable, UserID, Human, {0}) /\ HT!Entries(HT!NewTable) = {}
      BY TableFits, HT!NewTableSound
    <2> QED
      BY <2>1, SameTable
  <1>4. table = Table!NewTable /\ Humans(Table!Entries(table)) = {}
    BY <1>3 DEF Init, Humans
  <1>5. TableRight(table)
    BY <1>3, <1>4 DEF TableRight
  <1>6. ListsRight(world.list, {})
    BY <1>2, ListsApart DEF ListsRight, WorldLists
  <1>7. /\ world.items = <<>> /\ world.index = [h \in Human |-> INVALID_VALUE]
        /\ world.position = [h \in Human |-> NULL]
        /\ world.scene = [h \in Human |-> INVALID_VALUE]
    BY <1>1
  <1>8. ArrayRight(world.items, world.index, {})
    <2>1. MaxHumanInScene \in Nat
      BY LogicAssumption
    <2> QED
      BY <1>7, <2>1 DEF ArrayRight, INVALID_VALUE
  <1>9. PlacesRight(world.position, {})
    BY <1>7 DEF PlacesRight
  <1>10. world \in WorldType
    BY <1>1, <1>2, <1>7, <1>8, <1>9 DEF WorldType, ArrayRight, PlacesRight
  <1>11. owner \in [Human -> GatewaySession \cup {NULL}]
    BY DEF Init
  <1> QED
    BY <1>4, <1>5, <1>6, <1>7, <1>8, <1>9, <1>10, <1>11 DEF HumansInv, Agree

(* Table, scene, zones, array and pool always agree.                            *)
LEMMA HumansInvariant == Spec => []HumansInv
  <1>1. Init => HumansInv
    BY InitHumans
  <1>2. NetInv /\ HumansInv /\ [Next]_vars => HumansInv'
    BY NextHumans DEF NetInv
  <1> QED
    BY <1>1, <1>2, NetInvariant, PTL DEF Spec

(* Whoever can be found by an id is in the scene's array, at the index it       *)
(* knows, and linked in the zone all enter, all others are in the pool, and no  *)
(* id and no human is there twice (AddHumanToScene, RemoveHumanFromScene and     *)
(* the four structures they keep: GYObjectPool, GYScene, GYPointArray, GYZone).  *)
THEOREM HumansAgree == Spec => []HumansConsistent
  <1>1. HumansInv => HumansConsistent
    BY DEF HumansInv, Agree, TableRight, ListsRight, ArrayRight, Humans, Entry, WorldLists,
           HumansConsistent
  <1> QED
    BY <1>1, HumansInvariant, PTL

(* No frame ends with a human in the scene, whatever ids come and go: with one  *)
(* the tick of the scene asserts (GYScene::Tick, GYPointArray::operator[]).     *)
THEOREM FramesEndEmpty == Spec => []SceneEmptyBetweenFrames
  <1>1. HumansInv => SceneEmptyBetweenFrames
    <2> SUFFICES ASSUME HumansInv, pc = "poll"
                 PROVE  Table!Entries(table) = {}
      BY DEF SceneEmptyBetweenFrames
    <2>1. {world.items[i] : i \in 1 .. Len(world.items)} = Humans(Table!Entries(table))
      BY DEF HumansInv, Agree, ArrayRight
    <2>2. world.items = <<>> /\ Len(world.items) = 0
      BY DEF HumansInv
    <2>3. Humans(Table!Entries(table)) = {}
      BY <2>1, <2>2
    <2> QED
      BY <2>3 DEF Humans
  <1> QED
    BY <1>1, HumansInvariant, PTL

(* Whom an id finds is found until the id logs out, and through the same session. *)
LEMMA KnownStays ==
    ASSUME NetTypes, HumansInv, HumansInv', [Next]_vars, NEW id \in UserID, Known(id) # NULL
    PROVE  Known(id)' = Known(id) \/ (Known(id)' = NULL /\ Logout(id))
  <1> DEFINE h == Find(id)
  <1>0. /\ Agree(table, world, owner) /\ TableRight(table) /\ TableRight(table')
        /\ owner \in [Human -> GatewaySession \cup {NULL}]
    BY DEF HumansInv, Agree
  <1>1. h # NULL /\ <<id, h>> \in Table!Entries(table)
    <2>1. h # NULL
      BY DEF Known
    <2> QED
      BY <1>0, <2>1, FindHuman DEF Find
  <1>2. h \in Human
    <2>1. <<id, h>>[2] = h
      OBVIOUS
    <2> HIDE DEF h
    <2> QED
      BY <1>0, <1>1, <2>1, EntryIs
  <1>3. Known(id) = <<h, owner[h]>>
    BY <1>1 DEF Known
  <1>4. \A g : <<id, g>> \in Table!Entries(table') => Find(id)' = g /\ g # NULL
    BY <1>0, FindHuman DEF Find
  <1>5. (\A e \in Table!Entries(table') : e[1] # id) => Find(id)' = NULL
    <2>1. Find(id)' # NULL => <<id, Find(id)'>> \in Table!Entries(table')
      BY <1>0, FindHuman DEF Find
    <2>2. <<id, Find(id)'>>[1] = id
      OBVIOUS
    <2> QED
      BY <2>1, <2>2
  <1> HIDE DEF h
  <1>6. ASSUME <<id, h>> \in Table!Entries(table'), owner'[h] = owner[h]
        PROVE  Known(id)' = Known(id)
    <2>1. Find(id)' = h /\ h # NULL
      BY <1>4, <1>6
    <2> QED
      BY <1>3, <1>6, <2>1 DEF Known
  <1>7. CASE UNCHANGED <<table, owner>>
    BY <1>1, <1>6, <1>7
  <1>8. CASE ~UNCHANGED <<table, owner>>
    <2>1. PICK x \in UserID : Login(x) \/ Logout(x)
      BY <1>8, HumansMove DEF humans
    <2>2. CASE Login(x)
      <3>1. PICK g \in Human \ Humans(Table!Entries(table)) :
               /\ Table!Entries(table') = Table!Entries(table) \cup {<<x, g>>}
               /\ owner' = [owner EXCEPT ![g] = cur]
        BY <1>0, <1>8, <2>2, LoginAgrees DEF humans
      <3>2. h \in Humans(Table!Entries(table))
        <4>1. <<id, h>>[2] = h
          OBVIOUS
        <4> QED
          BY <1>1, <4>1 DEF Humans
      <3>3. owner'[h] = owner[h]
        BY <1>0, <1>2, <3>1, <3>2
      <3> QED
        BY <1>1, <1>6, <3>1, <3>3
    <2>3. CASE Logout(x) /\ x # id
      <3>1. PICK g \in Human :
               /\ Table!Entries(table') = {e \in Table!Entries(table) : e[1] # x}
               /\ <<x, g>> \in Table!Entries(table)
               /\ owner' = [owner EXCEPT ![g] = NULL]
        BY <1>0, <1>8, <2>3, LogoutAgrees DEF humans
      <3>2. /\ <<id, h>>[1] = id /\ <<id, h>>[2] = h
            /\ <<x, g>>[1] = x /\ <<x, g>>[2] = g
        OBVIOUS
      <3>3. g # h
        BY <1>0, <1>1, <2>3, <3>1, <3>2 DEF TableRight
      <3>4. <<id, h>> \in Table!Entries(table')
        BY <1>1, <2>3, <3>1, <3>2
      <3> QED
        BY <1>0, <1>2, <1>6, <3>1, <3>3, <3>4
    <2>4. CASE Logout(x) /\ x = id
      <3>1. Table!Entries(table') = {e \in Table!Entries(table) : e[1] # id}
        BY <1>0, <1>8, <2>4, LogoutAgrees DEF humans
      <3>2. Find(id)' = NULL
        BY <1>5, <3>1
      <3> QED
        BY <2>4, <3>2 DEF Known
    <2> QED
      BY <2>1, <2>2, <2>3, <2>4
  <1> QED
    BY <1>7, <1>8

(* The first login of an id counts, for any number of ids, humans and gateways: *)
(* until its logout the id finds the same human, which belongs to the session   *)
(* it came through (AddHumanToScene, RemoveHumanFromScene, FindObject).          *)
THEOREM FirstLoginHolds == Spec => FirstLoginCounts
  <1>1. NetInv /\ HumansInv /\ HumansInv' /\ [Next]_vars =>
            [\A id \in UserID : Known(id) # NULL =>
                \/ Known(id)' = Known(id)
                \/ Known(id)' = NULL /\ Logout(id)]_vars
    BY KnownStays DEF NetInv
  <1> QED
    BY <1>1, NetInvariant, HumansInvariant, PTL DEF Spec, FirstLoginCounts

(* No link, index, descriptor or count is outside what exists, however the      *)
(* lists are damaged (GYNetWorkManager, GYReactor, GYObjectPool, GYPointArray).  *)
THEOREM LogicServerTypes == Spec => []TypeOK
  <1>1. NetInv /\ HumansInv => TypeOK
    <2> SUFFICES ASSUME NetInv, HumansInv
                 PROVE  TypeOK
      OBVIOUS
    <2>1. NetTypes /\ Counts(reactor)
      BY DEF NetInv
    <2>2. /\ link.head \in [{"free", "work", "temp"} -> GatewaySession \cup {NULL}]
          /\ link.count \in [{"free", "work", "temp"} -> Int]
          /\ link.next \in [GatewaySession -> GatewaySession \cup {NULL}]
      BY <2>1 DEF NetTypes, MemoryOf, LinkLists
    <2>3. \A s \in GatewaySession : session[s].fd \in Fd \cup {NULL}
      BY <2>1 DEF NetTypes, SessionType
    <2>4. reactor.watched \cup reactor.ready \subseteq GatewaySession \cup {"listen"}
      BY <2>1 DEF NetTypes, ReactorType
    <2>5. reactor.count \in 0 .. MaxReactorSize
      <3>1. /\ MaxReactorSize \in Nat
            /\ reactor.count \in Int /\ reactor.watched \in SUBSET GatewaySession
        BY <2>1, LogicAssumption DEF NetTypes, ReactorType
      <3>2. Cardinality(reactor.watched) \in Nat /\ Listening(reactor) \in Nat
        BY <3>1, LogicAssumption, FS_Subset, FS_CardinalityType DEF Listening
      <3>3. CASE reactor.up
        BY <2>1, <3>1, <3>2, <3>3 DEF Counts
      <3>4. CASE ~reactor.up
        BY <2>1, <3>1, <3>4 DEF Counts
      <3> QED
        BY <3>3, <3>4
    <2>6. table \in Table!Tables(UserID, Human)
      <3>1. HT!Sound(table, UserID, Human, {0})
        BY DEF HumansInv, Agree, TableRight
      <3> QED
        BY <3>1 DEF HT!Sound, HT!RowType, Table!Tables
    <2>7. /\ world.items \in Seq(Human) /\ Len(world.items) <= MaxHumanInScene
          /\ world.index \in [Human -> INVALID_VALUE .. MaxHumanInScene - 1]
          /\ owner \in [Human -> GatewaySession \cup {NULL}]
      BY DEF HumansInv, Agree, ArrayRight
    <2> QED
      BY <2>1, <2>2, <2>3, <2>4, <2>5, <2>6, <2>7 DEF NetTypes, TypeOK
  <1> QED
    BY <1>1, NetInvariant, HumansInvariant, PTL
=============================================================================
