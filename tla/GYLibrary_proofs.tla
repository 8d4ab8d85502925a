--------------------------- MODULE GYLibrary_proofs ---------------------------
(***************************************************************************)
(* What holds of the libraries for any value of their parameters: a pool   *)
(* runs every task once (GYThreadPool), a walk is told the zones it enters *)
(* and leaves (GYSceneSync), the look-up of a table finds what is there    *)
(* (GYTable), strings count, keep apart and have room in their buffers     *)
(* (GYString), a search finds a path where there is one (PathFinder), and  *)
(* the INI reader answers what its file says (GYINIReader).                *)
(* Each part has an invariant of its library, and ends with the theorem    *)
(* that GYLibrary, where the libraries are together, keeps it.             *)
(***************************************************************************)
EXTENDS GYLibrary, GYList_proofs, SequenceTheorems

(* The library that runs has always run, and its steps are its own; the     *)
(* strings are there whichever runs.                                        *)
LEMMA OneAtATime ==
    ASSUME [Next]_vars
    PROVE  /\ which' = "pool"  => which = "pool" /\ [Pool!Next]_(Pool!vars)
           /\ which' = "path"  => which = "path" /\ [P!Next]_(P!vars)
           /\ which' = "sync"  => which = "sync" /\ [Y!Next]_(Y!vars)
           /\ which' = "table" => which = "table" /\ [T!Next]_(T!vars)
           /\ which' = "ini"   => which = "ini" /\ [I!Next]_(I!vars)
           /\ [StringNext]_stringVars
  <1> USE DEF poolVars, syncVars, tableVars, pathVars, iniVars
  <1> USE DEF Pool!vars, Y!vars, T!vars, P!vars, I!vars
  <1>1. CASE Next
    BY <1>1 DEF Next
  <1>2. CASE UNCHANGED vars
    BY <1>2 DEF vars
  <1> QED
    BY <1>1, <1>2
-----------------------------------------------------------------------------
(* The thread pool, of any size, with any tasks.                           *)

Threads == [task : Tasks, created : BOOLEAN,
            state : {"waiting", "running", "ended", Pool!Deleted}]

PoolType ==
    /\ threads \in Seq(Threads)
    /\ ran \in [Tasks -> Nat]
    /\ caller \in [pc : {"idle", "joining", "crashed"}, thread : Nat]
    /\ caller.pc = "joining" => caller.thread >= 1

\* A second Init and an AddTask before the first one change no thread.
NoThreadBeforeInit == ~pool.m_threads => pool.m_maxThreadCount = 0 /\ threads = <<>>

\* A task is given to one thread.
OneThreadEach == \A i, j \in DOMAIN threads : threads[i].task = threads[j].task => i = j

\* The thread of task t that has entered its function.
Entered(t) ==
    \E i \in DOMAIN threads :
        threads[i].task = t /\ threads[i].created /\ threads[i].state # "waiting"

PoolInv == PoolType /\ NoThreadBeforeInit /\ OneThreadEach /\ Pool!TasksRunOnce

(* Changing the state of a thread that is not waiting, nor made waiting,    *)
(* keeps the invariant.                                                     *)
LEMMA StateMoves ==
    ASSUME PoolInv, NEW i \in DOMAIN threads, NEW s \in {"ended", Pool!Deleted},
           ~threads[i].created \/ threads[i].state # "waiting",
           threads' = [threads EXCEPT ![i].state = s],
           UNCHANGED <<pool, ran>>
    PROVE  /\ threads' \in Seq(Threads)
           /\ NoThreadBeforeInit' /\ OneThreadEach' /\ Pool!TasksRunOnce'
  <1>1. threads \in Seq(Threads)
    BY DEF PoolInv, PoolType
  <1>2. threads' \in Seq(Threads) /\ DOMAIN threads' = DOMAIN threads
    <2>1. [threads[i] EXCEPT !.state = s] \in Threads
      <3>1. threads[i] \in Threads
        BY <1>1
      <3> QED
        BY <3>1 DEF Threads
    <2>2. threads' = [threads EXCEPT ![i] = [threads[i] EXCEPT !.state = s]]
      OBVIOUS
    <2> QED
      BY <1>1, <2>1, <2>2
  <1>3. \A j \in DOMAIN threads :
           /\ threads'[j].task = threads[j].task
           /\ threads'[j].created = threads[j].created
           /\ threads'[j].state # "waiting" <=> j = i \/ threads[j].state # "waiting"
    BY <1>1 DEF Threads, Pool!Deleted
  <1>4. \A t \in Tasks : Entered(t)' = Entered(t)
    BY <1>2, <1>3 DEF Entered
  <1>5. Pool!TasksRunOnce'
    BY <1>4 DEF PoolInv, Pool!TasksRunOnce, Entered
  <1>6. OneThreadEach'
    BY <1>2, <1>3 DEF PoolInv, OneThreadEach
  <1>7. NoThreadBeforeInit'
    BY <1>1, <1>2 DEF PoolInv, NoThreadBeforeInit
  <1> QED
    BY <1>2, <1>5, <1>6, <1>7

(* The constructor of the pool establishes the invariant. *)
LEMMA PoolStarts ==
    ASSUME Pool!Init
    PROVE  PoolInv
  BY DEF PoolInv, Pool!Init, PoolType, NoThreadBeforeInit, OneThreadEach, Pool!TasksRunOnce, Threads

(* Every call, and every step of a thread, preserves it. *)
LEMMA PoolSteps ==
    ASSUME PoolInv, [Pool!Next]_(Pool!vars)
    PROVE  PoolInv'
  <1> USE DEF PoolInv
  <1>1. ASSUME NEW count \in PoolSizes, Pool!InitPool(count)
        PROVE  PoolInv'
    <2>1. threads = <<>> /\ threads' = <<>>
      BY <1>1 DEF Pool!InitPool, NoThreadBeforeInit
    <2> QED
      BY <1>1, <2>1 DEF Pool!InitPool, PoolType, NoThreadBeforeInit, OneThreadEach, Pool!TasksRunOnce
  <1>2. ASSUME NEW t \in Tasks, NEW created \in BOOLEAN, Pool!AddTask(t, created)
        PROVE  PoolInv'
    <2> DEFINE new == [task |-> t, created |-> created, state |-> "waiting"]
    <2>1. CASE threads' = threads
      BY <1>2, <2>1 DEF Pool!AddTask, PoolType, NoThreadBeforeInit, OneThreadEach, Pool!TasksRunOnce
    <2>2. CASE threads' = Append(threads, new) /\ ~(Len(threads) >= pool.m_maxThreadCount)
      <3>1. threads \in Seq(Threads) /\ new \in Threads
        BY DEF PoolType, Threads
      <3>2. pool.m_threads
        BY <2>2, <3>1 DEF NoThreadBeforeInit
      <3>3. /\ threads' \in Seq(Threads) /\ Len(threads') = Len(threads) + 1
            /\ threads'[Len(threads) + 1] = new
            /\ \A i \in DOMAIN threads : i \in DOMAIN threads' /\ threads'[i] = threads[i]
            /\ \A i \in DOMAIN threads' : i \in DOMAIN threads \/ i = Len(threads) + 1
        <4> HIDE DEF new
        <4> QED
          BY <2>2, <3>1
      <3>4. \A u \in Tasks : Entered(u)' = Entered(u)
        BY <3>3 DEF Entered
      <3>5. \A i \in DOMAIN threads : threads[i].task # t
        BY <1>2 DEF Pool!AddTask
      <3>6. OneThreadEach'
        <4>1. SUFFICES ASSUME NEW i \in DOMAIN threads', NEW j \in DOMAIN threads',
                              threads'[i].task = threads'[j].task
                       PROVE  i = j
          BY DEF OneThreadEach
        <4>2. CASE i \in DOMAIN threads /\ j \in DOMAIN threads
          BY <3>3, <4>1, <4>2 DEF OneThreadEach
        <4>3. CASE i = Len(threads) + 1 \/ j = Len(threads) + 1
          BY <3>3, <3>5, <4>1, <4>3
        <4> QED
          BY <3>3, <4>2, <4>3
      <3>7. Pool!TasksRunOnce'
        BY <1>2, <3>4 DEF Pool!AddTask, Pool!TasksRunOnce, Entered
      <3> QED
        BY <1>2, <3>2, <3>3, <3>6, <3>7 DEF Pool!AddTask, PoolType, NoThreadBeforeInit
    <2> QED
      BY <1>2, <2>1, <2>2 DEF Pool!AddTask
  <1>3. ASSUME Pool!Release
        PROVE  PoolInv'
    BY <1>3 DEF Pool!Release, PoolType, NoThreadBeforeInit, OneThreadEach, Pool!TasksRunOnce
  <1>4. ASSUME Pool!JoinThread
        PROVE  PoolInv'
    <2> DEFINE i == caller.thread
    <2>1. /\ threads \in Seq(Threads) /\ caller.pc = "joining"
          /\ i \in Nat /\ i >= 1 /\ i <= Len(threads)
      BY <1>4 DEF Pool!JoinThread, PoolType
    <2>2. i \in DOMAIN threads
      BY <2>1
    <2>3. CASE caller' = [caller EXCEPT !.pc = "crashed"] /\ UNCHANGED threads
      BY <1>4, <2>3 DEF Pool!JoinThread, PoolType, NoThreadBeforeInit, OneThreadEach, Pool!TasksRunOnce
    <2>4. CASE /\ Pool!Joined(i)
               /\ threads' = [threads EXCEPT ![i].state = Pool!Deleted]
               /\ caller' = [caller EXCEPT !.thread = i + 1]
      <3>1. ~threads[i].created \/ threads[i].state # "waiting"
        BY <2>4 DEF Pool!Joined
      <3>2. UNCHANGED <<pool, ran>>
        BY <1>4 DEF Pool!JoinThread
      <3>3. /\ threads' \in Seq(Threads)
            /\ NoThreadBeforeInit' /\ OneThreadEach' /\ Pool!TasksRunOnce'
        <4> HIDE DEF PoolInv, i
        <4> QED
          BY <2>2, <2>4, <3>1, <3>2, StateMoves
      <3> QED
        BY <2>1, <2>4, <3>2, <3>3 DEF PoolType
    <2> QED
      BY <1>4, <2>3, <2>4 DEF Pool!JoinThread
  <1>5. ASSUME Pool!Released
        PROVE  PoolInv'
    BY <1>5 DEF Pool!Released, PoolType, NoThreadBeforeInit, OneThreadEach, Pool!TasksRunOnce
  <1>6. ASSUME NEW i \in DOMAIN threads, Pool!thread_proc(i)
        PROVE  PoolInv'
    <2>1. threads \in Seq(Threads) /\ ran \in [Tasks -> Nat]
      BY DEF PoolType
    <2>2. threads[i] \in Threads
      BY <2>1
    <2>3. PICK t \in Tasks : t = threads[i].task
      BY <2>2 DEF Threads
    <2>4. /\ threads \in Seq(Threads) /\ ran \in [Tasks -> Nat] /\ t = threads[i].task
          /\ threads[i].created /\ threads[i].state = "waiting"
          /\ threads' = [threads EXCEPT ![i].state = "running"]
          /\ ran' = [ran EXCEPT ![t] = @ + 1]
      BY <1>6, <2>1, <2>3 DEF Pool!thread_proc, Pool!GetTask
    <2>5. threads' \in Seq(Threads) /\ DOMAIN threads' = DOMAIN threads
      <3>1. threads[i] \in Threads
        BY <2>4
      <3>2. [threads[i] EXCEPT !.state = "running"] \in Threads
        BY <3>1 DEF Threads
      <3>3. threads' = [threads EXCEPT ![i] = [threads[i] EXCEPT !.state = "running"]]
        BY <2>4
      <3> QED
        BY <2>4, <3>2, <3>3
    <2>6. \A j \in DOMAIN threads :
             /\ threads'[j].task = threads[j].task
             /\ threads'[j].created = threads[j].created
             /\ threads'[j].state # "waiting" <=> j = i \/ threads[j].state # "waiting"
      BY <2>4 DEF Threads
    <2>7. ~Entered(t)
      BY <2>4 DEF Entered, OneThreadEach
    <2>8. Entered(t)'
      BY <2>4, <2>5, <2>6 DEF Entered
    <2>9. \A u \in Tasks : u # t => Entered(u)' = Entered(u)
      BY <2>4, <2>5, <2>6 DEF Entered
    <2>10. Pool!TasksRunOnce'
      <3> SUFFICES ASSUME NEW u \in Tasks
                   PROVE  ran'[u] = IF Entered(u)' THEN 1 ELSE 0
        BY DEF Pool!TasksRunOnce, Entered
      <3>1. ran[u] = IF Entered(u) THEN 1 ELSE 0
        BY DEF Pool!TasksRunOnce, Entered
      <3>2. CASE u = t
        BY <2>4, <2>7, <2>8, <3>1, <3>2
      <3>3. CASE u # t
        BY <2>4, <2>9, <3>1, <3>3
      <3> QED
        BY <3>2, <3>3
    <2>11. OneThreadEach'
      BY <2>5, <2>6 DEF OneThreadEach
    <2>12. NoThreadBeforeInit'
      BY <1>6, <2>4, <2>5 DEF NoThreadBeforeInit, Pool!thread_proc
    <2> QED
      BY <1>6, <2>4, <2>5, <2>10, <2>11, <2>12 DEF Pool!thread_proc, PoolType
  <1>7. ASSUME NEW i \in DOMAIN threads, Pool!ThreadEnds(i)
        PROVE  PoolInv'
    <2>1. /\ threads[i].state # "waiting"
          /\ threads' = [threads EXCEPT ![i].state = "ended"]
          /\ UNCHANGED <<pool, ran, caller>>
      BY <1>7 DEF Pool!ThreadEnds
    <2>2. /\ threads' \in Seq(Threads)
          /\ NoThreadBeforeInit' /\ OneThreadEach' /\ Pool!TasksRunOnce'
      <3> HIDE DEF PoolInv
      <3> QED
        BY <2>1, StateMoves
    <2> QED
      BY <2>1, <2>2 DEF PoolType
  <1>8. ASSUME UNCHANGED Pool!vars
        PROVE  PoolInv'
    BY <1>8 DEF Pool!vars, PoolType, NoThreadBeforeInit, OneThreadEach, Pool!TasksRunOnce
  <1> QED
    BY <1>1, <1>2, <1>3, <1>4, <1>5, <1>6, <1>7, <1>8 DEF Pool!Next

(* However late the threads come to run and whichever of them could not be  *)
(* made, the function of a task is entered once, by the thread that was     *)
(* made for it, for pools of any size (GYThread.cpp:29, GYThreadPool.cpp).  *)
THEOREM EveryTaskOnce == Spec => []TasksRunOnce
  <1> DEFINE Inv == which = "pool" => PoolInv
  <1>1. Init => Inv
    BY PoolStarts DEF Init, Begin
  <1>2. Inv /\ [Next]_vars => Inv'
    BY OneAtATime, PoolSteps
  <1>3. Inv => TasksRunOnce
    BY DEF PoolInv, TasksRunOnce
  <1> QED
    BY <1>1, <1>2, <1>3, PTL DEF Spec

-----------------------------------------------------------------------------
(* The zones a walk is reported in, of a scene of any size.                *)

(* A number has one quotient and one remainder. *)
LEMMA QuotientRemainder ==
    ASSUME NEW M \in Nat \ {0}, NEW q \in Nat, NEW r \in 0 .. M - 1
    PROVE  (q * M + r) % M = r /\ (q * M + r) \div M = q
  <1> DEFINE i == q * M + r
             d == i \div M
             m == i % M
  <1>1. i \in Nat /\ d \in Int /\ m \in 0 .. M - 1 /\ i = M * d + m
    OBVIOUS
  <1>2. M * (q - d) = m - r
    BY <1>1
  <1>3. q - d \in Int
    BY <1>1
  <1>4. ~(q - d >= 1)
    <2> SUFFICES ASSUME q - d >= 1
                 PROVE  FALSE
      OBVIOUS
    <2>1. M * (q - d) >= M
      BY <1>3
    <2> QED
      BY <1>1, <1>2, <2>1
  <1>5. ~(q - d <= -1)
    <2> SUFFICES ASSUME q - d <= -1
                 PROVE  FALSE
      OBVIOUS
    <2>1. M * (q - d) <= -M
      BY <1>3
    <2> QED
      BY <1>1, <1>2, <2>1
  <1>6. q = d
    BY <1>1, <1>3, <1>4, <1>5
  <1>7. m = r
    BY <1>1, <1>2, <1>6
  <1> QED
    BY <1>6, <1>7

(* The numbers of a grid have coordinates in it. *)
LEMMA Coordinates ==
    ASSUME NEW M \in Nat, NEW K \in Nat, NEW i \in 0 .. M * K - 1
    PROVE  M >= 1 /\ K >= 1 /\ i % M \in 0 .. M - 1 /\ i \div M \in 0 .. K - 1
  <1>1. M * K >= 1
    OBVIOUS
  <1>2. M >= 1 /\ K >= 1
    BY <1>1
  <1> DEFINE d == i \div M
             m == i % M
  <1>3. d \in Int /\ m \in 0 .. M - 1 /\ i = M * d + m
    BY <1>2
  <1> HIDE DEF d, m
  <1>4. d >= 0
    <2> SUFFICES ASSUME d <= -1
                 PROVE  FALSE
      BY <1>3
    <2>1. M * d <= -M
      BY <1>2, <1>3
    <2> QED
      BY <1>3, <2>1
  <1>5. d <= K - 1
    <2> SUFFICES ASSUME d >= K
                 PROVE  FALSE
      BY <1>3
    <2>1. M * d >= M * K
      BY <1>2, <1>3
    <2> QED
      BY <1>3, <2>1
  <1> QED
    BY <1>2, <1>3, <1>4, <1>5 DEF d, m

(* The grid of a scene, and where a zone lies in it. *)
LEMMA ZonePlaces ==
    ASSUME SceneNumbers
    PROVE  /\ Y!MaxX \in Nat /\ Y!MaxZ \in Nat
           /\ \A z \in Y!Zone : /\ z \in Nat /\ Y!MaxX >= 1 /\ Y!MaxZ >= 1
                                /\ Y!XID(z) \in 0 .. Y!MaxX - 1
                                /\ Y!ZID(z) \in 0 .. Y!MaxZ - 1
           /\ IsFiniteSet(Y!Zone)
           /\ NULL \notin Y!Zone
  <1>1. Y!MaxX \in Nat /\ Y!MaxZ \in Nat
    BY DEF SceneNumbers, Y!MaxX, Y!MaxZ
  <1>2. Y!MaxX * Y!MaxZ - 1 \in Int
    BY <1>1
  <1>3. \A z \in Y!Zone : z \in 0 .. Y!MaxX * Y!MaxZ - 1
    BY DEF Y!Zone
  <1>4. ASSUME NEW z \in Y!Zone
        PROVE  /\ z \in Nat /\ Y!MaxX >= 1 /\ Y!MaxZ >= 1
               /\ Y!XID(z) \in 0 .. Y!MaxX - 1
               /\ Y!ZID(z) \in 0 .. Y!MaxZ - 1
    <2>1. /\ Y!MaxX >= 1 /\ Y!MaxZ >= 1
          /\ z % Y!MaxX \in 0 .. Y!MaxX - 1 /\ z \div Y!MaxX \in 0 .. Y!MaxZ - 1
      BY <1>1, <1>3, Coordinates
    <2> QED
      BY <1>2, <1>3, <2>1 DEF Y!XID, Y!ZID
  <1>5. IsFiniteSet(Y!Zone)
    BY <1>2, FS_Interval DEF Y!Zone
  <1>6. NULL \notin Y!Zone
    BY <1>4 DEF SceneNumbers
  <1> QED
    BY <1>1, <1>4, <1>5, <1>6

(* The zone at a place of the grid. *)
LEMMA ZoneAt ==
    ASSUME SceneNumbers, NEW x \in 0 .. Y!MaxX - 1, NEW z \in 0 .. Y!MaxZ - 1
    PROVE  \E c \in Y!Zone : Y!XID(c) = x /\ Y!ZID(c) = z
  <1> DEFINE c == z * Y!MaxX + x
  <1>1. Y!MaxX \in Nat \ {0} /\ Y!MaxZ \in Nat \ {0} /\ x \in Nat /\ z \in Nat
    BY ZonePlaces
  <1>2. c % Y!MaxX = x /\ c \div Y!MaxX = z
    BY <1>1, QuotientRemainder
  <1>3. c \in Int /\ c >= 0
    BY <1>1
  <1>4. z * Y!MaxX <= (Y!MaxZ - 1) * Y!MaxX
    BY <1>1
  <1>5. (Y!MaxZ - 1) * Y!MaxX = Y!MaxX * Y!MaxZ - Y!MaxX
    BY <1>1
  <1>6. c <= Y!MaxX * Y!MaxZ - 1
    BY <1>1, <1>4, <1>5
  <1>7. Y!MaxX * Y!MaxZ - 1 \in Int
    BY <1>1
  <1> HIDE DEF c
  <1>8. c \in Y!Zone
    BY <1>3, <1>6, <1>7 DEF Y!Zone
  <1> QED
    BY <1>2, <1>8 DEF Y!XID, Y!ZID

(* The cardinality the scene counts zones with is that of the theorems. *)
LEMMA SameCardinality == \A S : Y!Cardinality(S) = Cardinality(S)
  BY DEF Y!Cardinality, Cardinality

(* An array that has room for a set of zones gets all of them. *)
LEMMA FilledAll ==
    ASSUME SceneNumbers, NEW zones, zones \subseteq Y!Zone, Y!Fits(zones)
    PROVE  Y!Filled(zones) = zones
  <1> SUFFICES ASSUME NEW z \in zones
               PROVE  Cardinality({y \in zones : y < z}) < Y!SyncLen
    BY SameCardinality DEF Y!Filled
  <1> DEFINE B == {y \in zones : y < z}
  <1>1. IsFiniteSet(zones) /\ z \in Nat
    BY ZonePlaces, FS_Subset
  <1>2. B \subseteq zones \ {z}
    BY <1>1
  <1>3. IsFiniteSet(zones \ {z}) /\ Cardinality(zones \ {z}) = Cardinality(zones) - 1
        /\ Cardinality(zones) \in Nat
    BY <1>1, FS_RemoveElement, FS_CardinalityType
  <1>4. Cardinality(B) <= Cardinality(zones \ {z}) /\ Cardinality(B) \in Nat
    BY <1>2, <1>3, FS_Subset, FS_CardinalityType
  <1>5. Y!SyncLen \in Int
    BY DEF Y!SyncLen, SceneNumbers
  <1>6. Cardinality(zones) <= Y!SyncLen
    BY SameCardinality DEF Y!Fits
  <1> HIDE DEF B
  <1>7. Cardinality(B) < Y!SyncLen
    BY <1>3, <1>4, <1>5, <1>6
  <1> QED
    BY <1>7 DEF B

(* What the range of a zone is. *)
LEMMA RangeOf ==
    ASSUME SceneNumbers, NEW c \in Y!Zone
    PROVE  /\ Y!Rect(c).left = (IF Y!XID(c) - SysnRange < 0 THEN 0 ELSE Y!XID(c) - SysnRange)
           /\ Y!Rect(c).right = (IF Y!XID(c) + SysnRange > Y!MaxX - 1 THEN Y!MaxX - 1
                                 ELSE Y!XID(c) + SysnRange)
           /\ Y!Rect(c).top = (IF Y!ZID(c) - SysnRange < 0 THEN 0 ELSE Y!ZID(c) - SysnRange)
           /\ Y!Rect(c).bottom = (IF Y!ZID(c) + SysnRange > Y!MaxZ - 1 THEN Y!MaxZ - 1
                                  ELSE Y!ZID(c) + SysnRange)
  <1>1. /\ Y!MaxX \in Nat /\ Y!MaxZ \in Nat
        /\ Y!XID(c) \in 0 .. Y!MaxX - 1 /\ Y!ZID(c) \in 0 .. Y!MaxZ - 1
        /\ SysnRange \in Nat
    BY ZonePlaces DEF SceneNumbers
  <1> QED
    BY <1>1 DEF Y!Rect, Y!Clip

(* The ranges of two near zones have a zone in common. *)
LEMMA NearRangesMeet ==
    ASSUME SceneNumbers, NEW b \in Y!Zone, NEW a \in Y!Zone, Y!Near(b, a)
    PROVE  Y!Within(Y!Rect(b)) \cap Y!Within(Y!Rect(a)) # {}
  <1> DEFINE n == SysnRange
             bx == Y!XID(b)
             bz == Y!ZID(b)
             ax == Y!XID(a)
             az == Y!ZID(a)
             MX == Y!MaxX
             MZ == Y!MaxZ
             x == IF Y!Rect(b).left > Y!Rect(a).left THEN Y!Rect(b).left ELSE Y!Rect(a).left
             z == IF Y!Rect(b).top > Y!Rect(a).top THEN Y!Rect(b).top ELSE Y!Rect(a).top
  <1>1. /\ MX \in Nat /\ MZ \in Nat /\ n \in Nat
        /\ bx \in 0 .. MX - 1 /\ bz \in 0 .. MZ - 1 /\ ax \in 0 .. MX - 1 /\ az \in 0 .. MZ - 1
    BY ZonePlaces DEF SceneNumbers
  <1>2. /\ bx - ax <= 2 * n - 1 /\ ax - bx <= 2 * n - 1
        /\ bz - az <= 2 * n - 1 /\ az - bz <= 2 * n - 1
    BY <1>1 DEF Y!Near, Y!Distance
  <1>3. /\ Y!Rect(b).left = (IF bx - n < 0 THEN 0 ELSE bx - n)
        /\ Y!Rect(b).right = (IF bx + n > MX - 1 THEN MX - 1 ELSE bx + n)
        /\ Y!Rect(b).top = (IF bz - n < 0 THEN 0 ELSE bz - n)
        /\ Y!Rect(b).bottom = (IF bz + n > MZ - 1 THEN MZ - 1 ELSE bz + n)
        /\ Y!Rect(a).left = (IF ax - n < 0 THEN 0 ELSE ax - n)
        /\ Y!Rect(a).right = (IF ax + n > MX - 1 THEN MX - 1 ELSE ax + n)
        /\ Y!Rect(a).top = (IF az - n < 0 THEN 0 ELSE az - n)
        /\ Y!Rect(a).bottom = (IF az + n > MZ - 1 THEN MZ - 1 ELSE az + n)
    BY RangeOf
  <1> HIDE DEF bx, bz, ax, az, MX, MZ, n
  <1>4. /\ x \in 0 .. MX - 1 /\ x \in Y!Rect(b).left .. Y!Rect(b).right
        /\ x \in Y!Rect(a).left .. Y!Rect(a).right
    BY <1>1, <1>2, <1>3
  <1>5. /\ z \in 0 .. MZ - 1 /\ z \in Y!Rect(b).top .. Y!Rect(b).bottom
        /\ z \in Y!Rect(a).top .. Y!Rect(a).bottom
    BY <1>1, <1>2, <1>3
  <1>6. PICK c \in Y!Zone : Y!XID(c) = x /\ Y!ZID(c) = z
    <2> HIDE DEF x, z
    <2> QED
      BY <1>4, <1>5, ZoneAt DEF MX, MZ
  <1> HIDE DEF x, z
  <1>7. c \in Y!Within(Y!Rect(b)) /\ c \in Y!Within(Y!Rect(a))
    BY <1>4, <1>5, <1>6 DEF Y!Within
  <1> QED
    BY <1>7

(* Of a step within a row in which the comparison with the row never fails, *)
(* the arrays are the difference of the two ranges.                         *)
LEMMA InRectIsWithin ==
    ASSUME SceneNumbers, NEW b \in Y!Zone, NEW a \in Y!Zone,
           Y!ZID(b) = Y!ZID(a), Y!Rect(a).bottom >= Y!MaxX - 1,
           NEW c \in Y!Within(Y!Rect(b))
    PROVE  Y!InRect(c, Y!Rect(a)) <=> c \in Y!Within(Y!Rect(a))
  <1>1. c \in Y!Zone /\ Y!ZID(c) \in Y!Rect(b).top .. Y!Rect(b).bottom
    BY DEF Y!Within
  <1>2. /\ Y!Rect(b).top = Y!Rect(a).top
        /\ Y!Rect(b).bottom = Y!Rect(a).bottom
    BY DEF Y!Rect
  <1>3. /\ Y!MaxX \in Nat /\ Y!XID(c) \in 0 .. Y!MaxX - 1
        /\ Y!MaxZ \in Nat /\ Y!ZID(c) \in 0 .. Y!MaxZ - 1
        /\ Y!XID(a) \in 0 .. Y!MaxX - 1 /\ Y!ZID(a) \in 0 .. Y!MaxZ - 1
        /\ SysnRange \in Nat
    BY <1>1, ZonePlaces DEF SceneNumbers
  <1>4. /\ Y!Rect(a).left \in Int /\ Y!Rect(a).right \in Int
        /\ Y!Rect(a).top \in Int /\ Y!Rect(a).bottom \in Int
    BY <1>3, RangeOf
  <1>5. Y!XID(c) <= Y!Rect(a).bottom /\ Y!ZID(c) >= Y!Rect(a).top
        /\ Y!ZID(c) \in Y!Rect(a).top .. Y!Rect(a).bottom
    BY <1>1, <1>2, <1>3, <1>4
  <1> QED
    BY <1>1, <1>3, <1>4, <1>5 DEF Y!InRect, Y!Within

SyncInv ==
    /\ zone \in Y!Zone \cup {NULL}
    /\ exact => told = IF zone = NULL THEN {} ELSE Y!Within(Y!Rect(zone))

(* A step of a kind the code is right about takes the zones told to show    *)
(* the creature from the range of one zone to that of the other.            *)
LEMMA SyncStep ==
    ASSUME SceneNumbers, SyncInv, exact, NEW a \in Y!Zone,
           Y!FarRight(zone, a) \/ Y!NearRight(zone, a)
    PROVE  (told \ Y!GetSyncRange(zone, a).old) \cup Y!GetSyncRange(zone, a).new
              = Y!Within(Y!Rect(a))
  <1> DEFINE B == Y!Within(Y!Rect(zone))
             A == Y!Within(Y!Rect(a))
  <1>1. A \subseteq Y!Zone /\ B \subseteq Y!Zone
    BY DEF Y!Within
  <1>2. CASE zone = NULL
    <2>1. told = {} /\ Y!Fits(A)
      BY <1>2 DEF SyncInv, Y!FarRight, Y!NearRight
    <2>2. Y!GetSyncRange(zone, a).new = A
      BY <1>1, <1>2, <2>1, FilledAll DEF Y!GetSyncRange
    <2> QED
      BY <2>1, <2>2
  <1>3. CASE zone # NULL /\ Y!Near(zone, a)
    <2>1. zone \in Y!Zone /\ told = B
      BY <1>3 DEF SyncInv
    <2>2. Y!NearRight(zone, a)
      BY <1>3, <2>1, NearRangesMeet DEF Y!FarRight
    <2>3. /\ Y!ZID(zone) = Y!ZID(a) /\ Y!Rect(a).bottom >= Y!MaxX - 1
          /\ Y!Rect(zone).bottom = Y!Rect(a).bottom
          /\ Y!Fits(B \ A) /\ Y!Fits(A \ B)
      BY <2>2 DEF Y!NearRight, Y!Rect
    <2>4. {z \in B : ~Y!InRect(z, Y!Rect(a))} = B \ A
      BY <2>1, <2>3, InRectIsWithin
    <2>5. {z \in A : ~Y!InRect(z, Y!Rect(zone))} = A \ B
      BY <2>1, <2>3, InRectIsWithin
    <2>6. Y!Filled(B \ A) = B \ A /\ Y!Filled(A \ B) = A \ B
      BY <1>1, <2>3, FilledAll
    <2>7. /\ Y!GetSyncRange(zone, a).old = B \ A
          /\ Y!GetSyncRange(zone, a).new = A \ B
      BY <1>3, <2>4, <2>5, <2>6 DEF Y!GetSyncRange
    <2> QED
      BY <2>1, <2>7
  <1>4. CASE zone # NULL /\ ~Y!Near(zone, a)
    <2>1. zone \in Y!Zone /\ told = B
      BY <1>4 DEF SyncInv
    <2>2. ~Y!NearRight(zone, a)
      <3> SUFFICES ASSUME Y!NearRight(zone, a)
                   PROVE  FALSE
        OBVIOUS
      <3>1. Y!XID(zone) \in Int /\ Y!XID(a) \in Int /\ Y!ZID(a) \in Int
        BY <2>1, ZonePlaces
      <3>2. SysnRange \in Nat \ {0}
        BY DEF SceneNumbers
      <3>3. Y!Distance(Y!XID(zone), Y!XID(a)) < 2 * SysnRange /\ Y!ZID(zone) = Y!ZID(a)
        BY DEF Y!NearRight
      <3> QED
        BY <1>4, <3>1, <3>2, <3>3 DEF Y!Near, Y!Distance
    <2>3. Y!Fits(A) /\ Y!Fits(B)
      BY <1>4, <2>2 DEF Y!FarRight
    <2>4. /\ Y!GetSyncRange(zone, a).old = B
          /\ Y!GetSyncRange(zone, a).new = A
      BY <1>1, <1>4, <2>3, FilledAll DEF Y!GetSyncRange
    <2> QED
      BY <2>1, <2>4
  <1> QED
    BY <1>2, <1>3, <1>4

(* Every step of the walk preserves the invariant. *)
LEMMA SyncSteps ==
    ASSUME SceneNumbers, SyncInv, [Y!Next]_(Y!vars)
    PROVE  SyncInv'
  <1>1. ASSUME NEW a \in Y!Zone, exact, Y!OnCreatureChangePosition(a)
        PROVE  SyncInv'
    <2>1. /\ zone' = a
          /\ told' = (told \ Y!GetSyncRange(zone, a).old) \cup Y!GetSyncRange(zone, a).new
          /\ exact' => Y!FarRight(zone, a) \/ Y!NearRight(zone, a)
      BY <1>1 DEF Y!OnCreatureChangePosition
    <2>2. exact' => told' = Y!Within(Y!Rect(a))
      <3> SUFFICES ASSUME exact'
                   PROVE  told' = Y!Within(Y!Rect(a))
        OBVIOUS
      <3> QED
        BY <1>1, <2>1, SyncStep
    <2>3. a # NULL
      BY ZonePlaces
    <2> QED
      BY <2>1, <2>2, <2>3 DEF SyncInv, Y!Within, Y!Rect
  <1>2. ASSUME UNCHANGED Y!vars
        PROVE  SyncInv'
    BY <1>2 DEF Y!vars, SyncInv, Y!Within, Y!Rect
  <1> QED
    BY <1>1, <1>2 DEF Y!Next

(* Over walks of any length through a scene of any size, the two arrays of  *)
(* each step add up to the zones around the creature, until a step is of a   *)
(* kind that GYRect.h:59 or the length of the arrays spoils.                *)
THEOREM WalkIsExact == Spec => []SyncExact
  <1> DEFINE Inv == which = "sync" => SyncInv
  <1>1. Init => Inv
    BY DEF Init, Begin, Y!Init, SyncInv
  <1>2. Inv /\ [Next]_vars => Inv'
    BY OneAtATime, SyncSteps, LibraryAssumption
  <1>3. Inv => SyncExact
    BY DEF SyncInv, SyncExact, Y!SyncExact
  <1> QED
    BY <1>1, <1>2, <1>3, PTL DEF Spec

-----------------------------------------------------------------------------
(* Tables, of any number of rows and columns.                              *)

(* f[i] is the first i sequences one after the other, as FlattenSeq of      *)
(* SequencesExt defines it.                                                 *)
IsFlat(seqs, f) ==
    f = [i \in 1 .. Len(seqs) |-> IF i = 1 THEN seqs[i] ELSE f[i - 1] \o seqs[i]]

(* The runs of the first k + 1 sequences. *)
Flats(S, seqs, k) ==
    {f \in [1 .. k + 1 -> Seq(S)] :
        f[1] = seqs[1] /\ \A i \in 2 .. k + 1 : f[i] = f[i - 1] \o seqs[i]}

(* The recursion that flattens sequences has a value. *)
LEMMA FlatExists ==
    ASSUME NEW S, NEW seqs \in Seq(Seq(S)), Len(seqs) >= 1
    PROVE  \E f : IsFlat(seqs, f) /\ f \in [1 .. Len(seqs) -> Seq(S)]
  <1> DEFINE n == Len(seqs)
             D == {k \in Nat : k + 1 <= n => \E f : f \in Flats(S, seqs, k)}
  <1>1. 0 \in D
    <2>1. [i \in 1 .. 0 + 1 |-> seqs[1]] \in Flats(S, seqs, 0)
      BY DEF Flats
    <2> QED
      BY <2>1
  <1>2. ASSUME NEW k \in Nat, k \in D
        PROVE  k + 1 \in D
    <2> SUFFICES ASSUME (k + 1) + 1 <= n
                 PROVE  \E f : f \in Flats(S, seqs, k + 1)
      OBVIOUS
    <2>1. PICK f : f \in Flats(S, seqs, k)
      BY <1>2
    <2>2. f \in [1 .. k + 1 -> Seq(S)] /\ f[1] = seqs[1]
          /\ \A i \in 2 .. k + 1 : f[i] = f[i - 1] \o seqs[i]
      BY <2>1 DEF Flats
    <2> DEFINE g == [i \in 1 .. (k + 1) + 1 |-> IF i = k + 2 THEN f[k + 1] \o seqs[k + 2] ELSE f[i]]
    <2>3. f[k + 1] \in Seq(S) /\ seqs[k + 2] \in Seq(S)
      BY <2>2
    <2>4. f[k + 1] \o seqs[k + 2] \in Seq(S)
      BY <2>3
    <2>5. g \in [1 .. (k + 1) + 1 -> Seq(S)]
      BY <2>2, <2>4
    <2>6. g[1] = seqs[1]
      BY <2>2
    <2>7. \A i \in 2 .. (k + 1) + 1 : g[i] = g[i - 1] \o seqs[i]
      <3> SUFFICES ASSUME NEW i \in 2 .. (k + 1) + 1
                   PROVE  g[i] = g[i - 1] \o seqs[i]
        OBVIOUS
      <3>1. g[i - 1] = f[i - 1] /\ g[i] = IF i = k + 2 THEN f[k + 1] \o seqs[k + 2] ELSE f[i]
        OBVIOUS
      <3> HIDE DEF g
      <3>2. CASE i = k + 2
        <4>1. i - 1 = k + 1
          BY <3>2
        <4> QED
          BY <3>1, <3>2, <4>1
      <3>3. CASE i # k + 2
        <4>1. i \in 2 .. k + 1
          BY <3>3
        <4> QED
          BY <2>2, <3>1, <3>3, <4>1
      <3> QED
        BY <3>2, <3>3
    <2>8. g \in Flats(S, seqs, k + 1)
      <3> HIDE DEF g
      <3> QED
        BY <2>5, <2>6, <2>7 DEF Flats
    <2> QED
      BY <2>8
  <1>3. Nat \subseteq D
    <2> HIDE DEF D
    <2> QED
      BY <1>1, <1>2, SetInduction
  <1>4. n - 1 \in Nat /\ (n - 1) + 1 = n
    OBVIOUS
  <1>5. PICK f : f \in Flats(S, seqs, n - 1)
    <2>1. n - 1 \in D
      BY <1>3, <1>4
    <2> QED
      BY <1>4, <2>1
  <1>6. f \in [1 .. n -> Seq(S)] /\ f[1] = seqs[1]
        /\ \A i \in 2 .. n : f[i] = f[i - 1] \o seqs[i]
    BY <1>4, <1>5 DEF Flats
  <1>7. ASSUME NEW i \in 1 .. n
        PROVE  f[i] = IF i = 1 THEN seqs[i] ELSE f[i - 1] \o seqs[i]
    <2>1. CASE i = 1
      BY <1>6, <2>1
    <2>2. CASE i # 1
      <3>1. i \in 2 .. n
        BY <2>2
      <3> QED
        BY <1>6, <2>2, <3>1
    <2> QED
      BY <2>1, <2>2
  <1>8. f = [i \in 1 .. n |-> IF i = 1 THEN seqs[i] ELSE f[i - 1] \o seqs[i]]
    BY <1>6, <1>7
  <1> QED
    BY <1>6, <1>8 DEF IsFlat

(* The c-th of the K fields of line i, counted through all lines, lies in   *)
(* the first k lines exactly when i does.                                   *)
LEMMA FieldNumber ==
    ASSUME NEW K \in Nat, NEW k \in Nat, NEW i \in 1 .. k, NEW c \in 1 .. K
    PROVE  (i - 1) * K + c \in 1 .. k * K
  <1>1. (i - 1) * K >= 0
    OBVIOUS
  <1>2. (i - 1) * K <= (k - 1) * K
    OBVIOUS
  <1>3. (k - 1) * K = k * K - K
    OBVIOUS
  <1>4. (i - 1) * K \in Int /\ k * K \in Int
    OBVIOUS
  <1> QED
    BY <1>1, <1>2, <1>3, <1>4

(* Sequences of K items one after the other: what is where. *)
LEMMA FlatOfEqual ==
    ASSUME NEW S, NEW seqs \in Seq(Seq(S)), Len(seqs) >= 1,
           NEW K \in Nat, \A i \in 1 .. Len(seqs) : Len(seqs[i]) = K
    PROVE  /\ T!FlattenSeq(seqs) \in Seq(S)
           /\ Len(T!FlattenSeq(seqs)) = Len(seqs) * K
           /\ \A i \in 1 .. Len(seqs), c \in 1 .. K :
                 T!FlattenSeq(seqs)[(i - 1) * K + c] = seqs[i][c]
  <1> DEFINE n == Len(seqs)
             f == CHOOSE f : IsFlat(seqs, f)
  <1>1. T!FlattenSeq(seqs) = f[n]
    BY DEF T!FlattenSeq, IsFlat
  <1>2. PICK h : IsFlat(seqs, h)
    BY FlatExists
  <1>3. IsFlat(seqs, f)
    <2> HIDE DEF IsFlat
    <2> QED
      BY <1>2
  <1>4. /\ n \in Nat /\ n >= 1
        /\ \A i \in 1 .. n : seqs[i] \in Seq(S)
        /\ f = [i \in 1 .. n |-> IF i = 1 THEN seqs[i] ELSE f[i - 1] \o seqs[i]]
    <2>1. f = [i \in 1 .. n |-> IF i = 1 THEN seqs[i] ELSE f[i - 1] \o seqs[i]]
      <3> HIDE DEF f
      <3> QED
        BY <1>3 DEF IsFlat
    <2>2. n \in Nat /\ n >= 1 /\ \A i \in 1 .. n : seqs[i] \in Seq(S)
      OBVIOUS
    <2> HIDE DEF f, n
    <2> QED
      BY <2>1, <2>2, Zenon
  <1> HIDE DEF f
  <1> DEFINE Good(k) == /\ f[k] \in Seq(S)
                        /\ Len(f[k]) = k * K
                        /\ \A i \in 1 .. k, c \in 1 .. K : f[k][(i - 1) * K + c] = seqs[i][c]
             D == {k \in Nat : k + 1 <= n => Good(k + 1)}
  <1>5. 0 \in D
    <2> SUFFICES Good(1)
      OBVIOUS
    <2>1. f[1] = seqs[1]
      BY <1>4
    <2>2. seqs[1] \in Seq(S) /\ Len(seqs[1]) = 1 * K
      BY <1>4
    <2>3. \A c \in 1 .. K : (1 - 1) * K + c = c
      OBVIOUS
    <2> QED
      BY <2>1, <2>2, <2>3
  <1>6. ASSUME NEW k \in Nat, k \in D
        PROVE  k + 1 \in D
    <2> SUFFICES ASSUME (k + 1) + 1 <= n
                 PROVE  Good((k + 1) + 1)
      OBVIOUS
    <2> DEFINE a == f[k + 1]
               b == seqs[k + 2]
    <2>1. /\ a \in Seq(S) /\ Len(a) = (k + 1) * K
          /\ \A i \in 1 .. k + 1, c \in 1 .. K : a[(i - 1) * K + c] = seqs[i][c]
      BY <1>6
    <2>2. b \in Seq(S) /\ Len(b) = K
      BY <1>4
    <2>3. f[k + 2] = a \o b
      <3>1. k + 2 \in 1 .. n /\ k + 2 # 1 /\ (k + 2) - 1 = k + 1
        BY <1>4
      <3>2. f[k + 2] = IF k + 2 = 1 THEN seqs[k + 2] ELSE f[(k + 2) - 1] \o seqs[k + 2]
        BY <1>4, <3>1
      <3> QED
        BY <3>1, <3>2
    <2> HIDE DEF a
    <2>4. (k + 1) * K \in Nat
      OBVIOUS
    <2>5. (k + 1) * K + K = (k + 2) * K
      OBVIOUS
    <2>6. /\ a \o b \in Seq(S) /\ Len(a \o b) = (k + 2) * K
          /\ \A j \in 1 .. (k + 1) * K : (a \o b)[j] = a[j]
          /\ \A c \in 1 .. K : (a \o b)[(k + 1) * K + c] = b[c]
      <3> HIDE DEF b
      <3>0. /\ a \o b \in Seq(S) /\ Len(a \o b) = Len(a) + Len(b)
            /\ \A j \in 1 .. Len(a) + Len(b) :
                  (a \o b)[j] = IF j <= Len(a) THEN a[j] ELSE b[j - Len(a)]
        <4>1. a \in Seq(S) /\ b \in Seq(S)
          BY <2>1, <2>2
        <4> QED
          BY <4>1, ConcatProperties
      <3>1. a \o b \in Seq(S) /\ Len(a \o b) = (k + 1) * K + K
        BY <2>1, <2>2, <3>0
      <3>2. \A j \in 1 .. Len(a) + Len(b) :
              (a \o b)[j] = IF j <= Len(a) THEN a[j] ELSE b[j - Len(a)]
        BY <3>0
      <3> DEFINE m == (k + 1) * K
      <3>3. m \in Nat /\ Len(a) = m /\ Len(b) = K
        BY <2>1, <2>2, <2>4
      <3> HIDE DEF m
      <3>4. /\ \A j \in 1 .. m : (a \o b)[j] = a[j]
            /\ \A c \in 1 .. K : (a \o b)[m + c] = b[c]
        <4>1. ASSUME NEW c \in 1 .. K
              PROVE  (a \o b)[m + c] = b[c]
          <5>1. m + c \in 1 .. Len(a) + Len(b) /\ ~(m + c <= Len(a)) /\ (m + c) - Len(a) = c
            BY <3>3
          <5> QED
            BY <3>2, <5>1
        <4>2. ASSUME NEW j \in 1 .. m
              PROVE  (a \o b)[j] = a[j]
          <5>1. j \in 1 .. Len(a) + Len(b) /\ j <= Len(a)
            BY <3>3
          <5> QED
            BY <3>2, <5>1
        <4> QED
          BY <4>1, <4>2
      <3> QED
        BY <2>5, <3>1, <3>4 DEF m
    <2>7. ASSUME NEW i \in 1 .. k + 2, NEW c \in 1 .. K
          PROVE  (a \o b)[(i - 1) * K + c] = seqs[i][c]
      <3>1. CASE i = k + 2
        <4>1. (i - 1) * K + c = (k + 1) * K + c
          BY <3>1
        <4> QED
          BY <2>6, <3>1, <4>1
      <3>2. CASE i # k + 2
        <4>1. i \in 1 .. k + 1
          BY <3>2
        <4>2. (i - 1) * K + c \in 1 .. (k + 1) * K
          <5>1. k + 1 \in Nat
            OBVIOUS
          <5> QED
            BY <4>1, <5>1, FieldNumber
        <4> QED
          BY <2>1, <2>6, <4>1, <4>2
      <3> QED
        BY <3>1, <3>2
    <2>8. (k + 1) + 1 = k + 2
      OBVIOUS
    <2> HIDE DEF b
    <2>9. Good(k + 2)
      BY <2>3, <2>6, <2>7
    <2> QED
      BY <2>8, <2>9
  <1>7. Nat \subseteq D
    <2> HIDE DEF D
    <2> QED
      BY <1>5, <1>6, SetInduction
  <1>8. n - 1 \in Nat /\ (n - 1) + 1 = n
    BY <1>4
  <1>9. Good(n)
    <2>1. n - 1 \in D
      BY <1>7, <1>8
    <2>2. Good((n - 1) + 1)
      <3> HIDE DEF Good
      <3> QED
        BY <1>4, <1>8, <2>1
    <2> QED
      BY <1>8, <2>2
  <1> QED
    BY <1>1, <1>9

(* How many rows of data a regular file has. *)
Rows == Len(file.lines) - 2

(* The cardinality a table counts lines with is that of the theorems. *)
LEMMA SameTableCardinality == \A S : T!Cardinality(S) = Cardinality(S)
  BY DEF T!Cardinality, Cardinality

(* Where an index falls in rows of M fields. *)
LEMMA DivMod ==
    ASSUME NEW M \in Nat \ {0}, NEW i \in Nat
    PROVE  i = M * (i \div M) + (i % M)
  OBVIOUS

(* The lines of a file have the type of lines. *)
LEMMA FileLines ==
    ASSUME TableNumbers, file \in TableFiles, NEW i \in 1 .. Len(file.lines)
    PROVE  file.lines[i] \in [comment : BOOLEAN, fields : Seq(FileField)]
  <1> DEFINE Line == [comment : BOOLEAN, fields : Seq(FileField)]
  <1>1. file \in [newline : BOOLEAN, lines : Seq(Line)]
    BY DEF TableNumbers, TableFile
  <1> HIDE DEF Line
  <1>2. file.lines \in Seq(Line)
    BY <1>1
  <1>3. file.lines[i] \in Line
    BY <1>2
  <1> QED
    BY <1>3 DEF Line

(* In a regular file every line is counted, and the third begins the data. *)
LEMMA RegularLines ==
    ASSUME TableNumbers, file \in TableFiles, T!Regular
    PROVE  /\ Rows \in Nat \ {0} /\ Len(file.lines) = Rows + 2
           /\ T!RowCount = Rows + 2
           /\ T!FirstData = 3
  <1> DEFINE n == Len(file.lines)
  <1>1. n \in Nat /\ n >= 3 /\ DOMAIN file.lines = 1 .. n
    BY DEF TableNumbers, TableFile, T!Regular
  <1>2. ~file.lines[2].comment /\ \A i \in 3 .. n : ~file.lines[i].comment
    BY DEF T!Regular
  <1> HIDE DEF n
  <1>3. T!Counted = 1 .. n
    <2>1. \A j \in 1 .. n : j = 1 \/ j = 2 \/ j \in 3 .. n
      BY <1>1
    <2>2. \A j \in 1 .. n : j = 1 \/ ~file.lines[j].comment
      BY <1>2, <2>1
    <2> QED
      BY <1>1, <2>2 DEF T!Counted
  <1>4. \A k \in Nat : Cardinality(1 .. k) = k
    <2> SUFFICES ASSUME NEW k \in Nat
                 PROVE  Cardinality(1 .. k) = k
      OBVIOUS
    <2>1. Cardinality(1 .. k) = IF 1 > k THEN 0 ELSE k - 1 + 1
      BY FS_Interval
    <2> QED
      BY <2>1
  <1>5. T!RowCount = n
    BY <1>1, <1>3, <1>4, SameTableCardinality DEF T!RowCount
  <1>6. \A j \in 1 .. n : T!Cardinality({i \in 1 .. n : i < j}) = j - 1
    <2> SUFFICES ASSUME NEW j \in 1 .. n
                 PROVE  T!Cardinality({i \in 1 .. n : i < j}) = j - 1
      OBVIOUS
    <2>1. {i \in 1 .. n : i < j} = 1 .. j - 1 /\ j - 1 \in Nat
      BY <1>1
    <2>2. Cardinality(1 .. j - 1) = j - 1
      BY <1>4, <2>1
    <2> QED
      BY <2>1, <2>2, SameTableCardinality
  <1>7. T!FirstData = 3
    <2>1. T!FirstData = CHOOSE j \in 1 .. n : T!Cardinality({i \in 1 .. n : i < j}) = 2
      BY <1>3 DEF T!FirstData
    <2>2. 3 \in 1 .. n
      BY <1>1
    <2>3. \A j \in 1 .. n : T!Cardinality({i \in 1 .. n : i < j}) = 2 <=> j = 3
      BY <1>6
    <2> QED
      BY <2>1, <2>2, <2>3
  <1>8. Rows = n - 2
    BY DEF Rows, n
  <1>9. Rows \in Nat \ {0} /\ n = Rows + 2
    BY <1>1, <1>8
  <1> QED
    BY <1>5, <1>7, <1>9 DEF n

(* Its fields are those of its lines, in their order. *)
LEMMA RegularFields ==
    ASSUME TableNumbers, file \in TableFiles, T!Regular
    PROVE  /\ T!Fields \in Seq(FileField)
           /\ Len(T!Fields) = Rows * Columns
           /\ \A i \in 1 .. Rows, c \in 1 .. Columns :
                 T!Fields[(i - 1) * Columns + c] = file.lines[i + 2].fields[c]
  <1> DEFINE s == [i \in 1 .. Rows |-> file.lines[i + 2].fields]
  <1>1. Rows \in Nat \ {0} /\ Len(file.lines) = Rows + 2 /\ T!FirstData = 3
    BY RegularLines
  <1>2. T!Fields = T!FlattenSeq(s)
    <2>1. Len(file.lines) - 3 + 1 = Rows /\ \A i \in 1 .. Rows : 3 + i - 1 = i + 2
      BY <1>1
    <2>2. [i \in 1 .. (Len(file.lines) - 3 + 1) |-> file.lines[3 + i - 1].fields] = s
      BY <2>1
    <2> QED
      BY <1>1, <2>2 DEF T!Fields
  <1>3. ASSUME NEW i \in 1 .. Rows
        PROVE  file.lines[i + 2].fields \in Seq(FileField) /\ Len(file.lines[i + 2].fields) = Columns
    <2>1. i + 2 \in 3 .. Len(file.lines) /\ i + 2 \in 1 .. Len(file.lines)
      BY <1>1
    <2>2. file.lines[i + 2] \in [comment : BOOLEAN, fields : Seq(FileField)]
      BY <2>1, FileLines
    <2>3. file.lines[i + 2].fields \in Seq(FileField)
      BY <2>2
    <2> QED
      BY <2>1, <2>3 DEF T!Regular
  <1>4. s \in Seq(Seq(FileField)) /\ Len(s) = Rows
    BY <1>1, <1>3
  <1>5. \A i \in 1 .. Rows : s[i] = file.lines[i + 2].fields /\ Len(s[i]) = Columns
    BY <1>3
  <1> HIDE DEF s
  <1>6. Len(s) >= 1 /\ Columns \in Nat /\ \A i \in 1 .. Len(s) : Len(s[i]) = Columns
    BY <1>1, <1>4, <1>5 DEF TableNumbers
  <1>7. /\ T!FlattenSeq(s) \in Seq(FileField)
        /\ Len(T!FlattenSeq(s)) = Len(s) * Columns
        /\ \A i \in 1 .. Len(s), c \in 1 .. Columns :
              T!FlattenSeq(s)[(i - 1) * Columns + c] = s[i][c]
    BY <1>4, <1>6, FlatOfEqual
  <1> QED
    BY <1>2, <1>4, <1>5, <1>7

(* The rows a regular file is read into are the ones it says. *)
LEMMA RegularRows ==
    ASSUME TableNumbers, file \in TableFiles, T!Regular
    PROVE  /\ T!Readable(Rows * Columns)
           /\ DOMAIN T!Written = 1 .. Rows
           /\ \A r \in 1 .. Rows : T!Row(r) = T!Written[r] /\ T!Written[r][1] \in Int
           /\ \A i, j \in 1 .. Rows : i < j => T!Written[i][1] < T!Written[j][1]
  <1>1. /\ Rows \in Nat \ {0} /\ Len(file.lines) = Rows + 2
        /\ Columns \in Nat \ {0}
    BY RegularLines DEF TableNumbers
  <1>2. /\ T!Fields \in Seq(FileField)
        /\ Len(T!Fields) = Rows * Columns
        /\ \A i \in 1 .. Rows, c \in 1 .. Columns :
              T!Fields[(i - 1) * Columns + c] = file.lines[i + 2].fields[c]
    BY RegularFields
  <1>3. \A i : ~T!AtEnd(i)
    BY DEF T!AtEnd, T!Regular
  <1>4. ASSUME NEW i \in 1 .. Rows
        PROVE  /\ i + 2 \in 3 .. Len(file.lines)
               /\ file.lines[i + 2].fields \in Seq(FileField)
               /\ Len(file.lines[i + 2].fields) = Columns
               /\ \A c \in 1 .. Columns : file.lines[i + 2].fields[c].length > 0
    <2>1. i + 2 \in 3 .. Len(file.lines) /\ i + 2 \in 1 .. Len(file.lines)
      BY <1>1
    <2>2. file.lines[i + 2] \in [comment : BOOLEAN, fields : Seq(FileField)]
      BY <2>1, FileLines
    <2>3. file.lines[i + 2].fields \in Seq(FileField)
      BY <2>2
    <2> QED
      BY <2>1, <2>3 DEF T!Regular
  <1>5. T!Readable(Rows * Columns)
    <2>1. Rows * Columns <= Len(T!Fields)
      BY <1>1, <1>2
    <2>2. ASSUME NEW k \in 1 .. Rows * Columns
          PROVE  T!ReadCount(k) > 1
      <3> DEFINE i == ((k - 1) \div Columns) + 1
                 c == ((k - 1) % Columns) + 1
      <3>1. k - 1 \in 0 .. Columns * Rows - 1
        <4>1. Rows * Columns = Columns * Rows /\ Rows * Columns \in Int
          BY <1>1
        <4> QED
          BY <4>1
      <3>2. (k - 1) \div Columns \in 0 .. Rows - 1 /\ (k - 1) % Columns \in 0 .. Columns - 1
        BY <1>1, <3>1, Coordinates
      <3>3. i \in 1 .. Rows /\ c \in 1 .. Columns /\ i - 1 = (k - 1) \div Columns
        BY <1>1, <3>2
      <3>4. k = (i - 1) * Columns + c
        <4>1. k - 1 = Columns * ((k - 1) \div Columns) + ((k - 1) % Columns)
          <5>1. Columns \in Nat \ {0} /\ k - 1 \in Nat
            BY <1>1, <3>1
          <5> QED
            BY <5>1, DivMod
        <4>2. Columns * ((k - 1) \div Columns) = ((k - 1) \div Columns) * Columns
          BY <1>1, <3>2
        <4> QED
          BY <1>1, <3>1, <3>2, <3>3, <4>1, <4>2
      <3> HIDE DEF i, c
      <3>5. T!Fields[k] = file.lines[i + 2].fields[c]
        BY <1>2, <3>3, <3>4
      <3>6. file.lines[i + 2].fields[c].length > 0 /\ file.lines[i + 2].fields[c] \in FileField
        BY <1>4, <3>3
      <3> QED
        BY <1>3, <3>5, <3>6 DEF T!ReadCount, FileField
    <2> QED
      BY <2>1, <2>2 DEF T!Readable
  <1>6. DOMAIN T!Written = 1 .. Rows
    BY <1>1 DEF T!Written, Rows
  <1>7. ASSUME NEW r \in 1 .. Rows
        PROVE  T!Row(r) = T!Written[r] /\ T!Written[r][1] \in Int
    <2>1. T!Written[r] = [c \in 1 .. Columns |-> file.lines[r + 2].fields[c].value]
      <3>1. T!Written[r] = [c \in DOMAIN file.lines[r + 2].fields |->
                               file.lines[r + 2].fields[c].value]
        BY DEF T!Written, Rows
      <3>2. DOMAIN file.lines[r + 2].fields = 1 .. Columns
        BY <1>4
      <3> QED
        BY <3>1, <3>2
    <2>2. \A c \in 1 .. Columns : T!Value((r - 1) * Columns + c) = file.lines[r + 2].fields[c].value
      BY <1>2, <1>3 DEF T!Value
    <2>3. 1 \in 1 .. Columns /\ file.lines[r + 2].fields[1] \in FileField
      BY <1>1, <1>4
    <2> QED
      BY <2>1, <2>2, <2>3 DEF T!Row, FileField
  <1>8. \A i, j \in 1 .. Rows : i < j => T!Written[i][1] < T!Written[j][1]
    BY <1>6 DEF T!Regular
  <1> QED
    BY <1>5, <1>6, <1>7, <1>8

(* The fields of lookup; the answer is any value. *)
LookupShape ==
    /\ lookup = [pc |-> lookup.pc, id |-> lookup.id, answer |-> lookup.answer,
                 beginIndex |-> lookup.beginIndex, endIndex |-> lookup.endIndex,
                 index |-> lookup.index]
    /\ lookup.pc \in {"new", "loaded", "search", "answered"}

(* Of a file that is regular the rows are read as it says. *)
Loaded ==
    lookup.pc # "new" => /\ m_tableRowCount = Rows
                         /\ m_tableRow = [r \in 1 .. Rows |-> T!Written[r]]

(* Rows in front of beginIndex have smaller ids, those behind endIndex      *)
(* greater ones; index is in the middle.                                    *)
Bisected ==
    lookup.pc = "search" =>
        /\ lookup.id \in Int
        /\ lookup.beginIndex \in Nat /\ lookup.endIndex \in Nat /\ lookup.endIndex <= Rows
        /\ lookup.index = (lookup.beginIndex + lookup.endIndex) \div 2
        /\ \A i \in 1 .. Rows : i <= lookup.beginIndex => T!Written[i][1] < lookup.id
        /\ \A i \in 1 .. Rows : i > lookup.endIndex + 1 => T!Written[i][1] > lookup.id

(* The answer is the row the file has under the id, if it has one. *)
Answered ==
    lookup.pc = "answered" =>
        /\ (\A i \in 1 .. Rows : T!Written[i][1] # lookup.id) => lookup.answer = T!NoRow
        /\ \A i \in 1 .. Rows : T!Written[i][1] = lookup.id => lookup.answer = T!Written[i]

TableInv ==
    /\ file \in TableFiles
    /\ T!Regular => LookupShape /\ Loaded /\ Bisected /\ Answered

(* The file does not change, nor what it says. *)
LEMMA SameFile ==
    ASSUME file' = file
    PROVE  T!Regular' = T!Regular /\ T!Written' = T!Written /\ Rows' = Rows
  BY DEF T!Regular, T!Written, Rows

(* One round of the bisection leaves out only rows that are not asked for. *)
LEMMA BisectKeeps ==
    ASSUME TableNumbers, TableInv, T!Regular, T!Bisect
    PROVE  LookupShape' /\ Loaded' /\ Bisected' /\ Answered'
  <1> DEFINE b == lookup.beginIndex
             e == lookup.endIndex
             i == lookup.index
             W(k) == T!Written[k][1]
  <1>1. LookupShape /\ Loaded /\ Bisected /\ file \in TableFiles
    BY DEF TableInv
  <1>2. lookup.pc = "search" /\ e - b >= 8 /\ UNCHANGED <<file, m_tableRow, m_tableRowCount>>
    BY DEF T!Bisect
  <1>3. T!Written' = T!Written /\ Rows' = Rows
    BY <1>2, SameFile
  <1>4. /\ lookup.id \in Int /\ b \in Nat /\ e \in Nat /\ e <= Rows /\ i = (b + e) \div 2
        /\ \A k \in 1 .. Rows : k <= b => W(k) < lookup.id
        /\ \A k \in 1 .. Rows : k > e + 1 => W(k) > lookup.id
    BY <1>1, <1>2 DEF Bisected
  <1>5. Rows \in Nat \ {0}
    BY <1>1, RegularLines
  <1>6. i \in Nat /\ b < i /\ i + 1 < e /\ i + 1 \in 1 .. Rows
    <2>1. i = (b + e) \div 2 /\ b \in Nat /\ e \in Nat /\ e - b >= 8 /\ e <= Rows
      BY <1>2, <1>4
    <2> HIDE DEF b, e, i
    <2> QED
      BY <1>5, <2>1
  <1>7. T!ID(i) = W(i + 1) /\ m_tableRow[i + 1] = T!Written[i + 1]
    BY <1>1, <1>2, <1>6 DEF T!ID, Loaded
  <1>8. /\ \A k \in 1 .. Rows : W(k) \in Int
        /\ \A k, l \in 1 .. Rows : k < l => W(k) < W(l)
    BY <1>1, RegularRows
  <1>9. Loaded'
    BY <1>1, <1>2, <1>3 DEF Loaded
  <1>10. CASE T!ID(i) = lookup.id
    <2>1. lookup' = [lookup EXCEPT !.pc = "answered", !.answer = m_tableRow[i + 1]]
      BY <1>10 DEF T!Bisect
    <2>2. LookupShape' /\ lookup'.pc = "answered" /\ lookup'.id = lookup.id
          /\ lookup'.answer = T!Written[i + 1]
      BY <1>1, <1>7, <2>1 DEF LookupShape
    <2>3. \A k \in 1 .. Rows : W(k) = lookup.id => k = i + 1
      <3> SUFFICES ASSUME NEW k \in 1 .. Rows, W(k) = lookup.id
                   PROVE  k = i + 1
        OBVIOUS
      <3>1. W(k) = W(i + 1) /\ W(k) \in Int
        BY <1>7, <1>8, <1>10
      <3>2. ~(k < i + 1) /\ ~(i + 1 < k)
        BY <1>6, <1>8, <3>1
      <3> HIDE DEF i, W
      <3> QED
        BY <1>6, <3>2
    <2>4. W(i + 1) = lookup.id
      BY <1>7, <1>10
    <2>5. Answered'
      BY <1>3, <1>6, <2>2, <2>3, <2>4 DEF Answered
    <2>6. Bisected'
      BY <2>2 DEF Bisected
    <2> QED
      BY <1>9, <2>2, <2>5, <2>6
  <1>11. CASE T!ID(i) # lookup.id
    <2> DEFINE nb == IF T!ID(i) < lookup.id THEN i + 1 ELSE b
               ne == IF T!ID(i) > lookup.id THEN i - 1 ELSE e
    <2>1. lookup' = [lookup EXCEPT !.beginIndex = nb, !.endIndex = ne, !.index = (nb + ne) \div 2]
      BY <1>11 DEF T!Bisect
    <2>2. /\ LookupShape' /\ lookup'.pc = "search" /\ lookup'.id = lookup.id
          /\ lookup'.beginIndex = nb /\ lookup'.endIndex = ne
          /\ lookup'.index = (nb + ne) \div 2
      <3> HIDE DEF nb, ne
      <3> QED
        BY <1>1, <1>2, <2>1 DEF LookupShape
    <2>3. W(i + 1) \in Int
      BY <1>6, <1>8
    <2>4. /\ nb \in Nat /\ ne \in Nat /\ ne <= Rows
          /\ \A k \in 1 .. Rows : k <= nb => W(k) < lookup.id
          /\ \A k \in 1 .. Rows : k > ne + 1 => W(k) > lookup.id
      <3> HIDE DEF i, b, e, W
      <3>1. CASE T!ID(i) < lookup.id
        <4>1. nb = i + 1 /\ ne = e
          BY <1>4, <1>7, <2>3, <3>1
        <4>2. ASSUME NEW k \in 1 .. Rows, k <= nb
              PROVE  W(k) < lookup.id
          <5>1. W(k) <= W(i + 1) /\ W(k) \in Int
            <6>1. k < i + 1 \/ k = i + 1
              <7> HIDE DEF nb, ne
              <7>1. k <= i + 1 /\ k \in Int /\ i \in Int
                BY <1>5, <1>6, <4>1, <4>2
              <7> QED
                BY <7>1
            <6>2. W(k) \in Int /\ (k < i + 1 => W(k) < W(i + 1))
              BY <1>6, <1>8
            <6> QED
              BY <2>3, <6>1, <6>2
          <5> QED
            BY <1>4, <1>7, <2>3, <3>1, <5>1
        <4> QED
          BY <1>4, <1>6, <4>1, <4>2
      <3>2. CASE T!ID(i) > lookup.id
        <4>1. nb = b /\ ne = i - 1
          BY <1>4, <1>7, <2>3, <3>2
        <4>2. ASSUME NEW k \in 1 .. Rows, k > ne + 1
              PROVE  W(k) > lookup.id
          <5>1. W(k) > W(i + 1) \/ k = i + 1
            <6>1. i + 1 < k \/ k = i + 1
              <7> HIDE DEF nb, ne
              <7>1. k > (i - 1) + 1 /\ k \in Int /\ i \in Int
                BY <1>5, <1>6, <4>1, <4>2
              <7> QED
                BY <7>1
            <6>2. i + 1 < k => W(i + 1) < W(k)
              BY <1>6, <1>8
            <6>3. W(k) \in Int
              BY <1>8
            <6> QED
              BY <2>3, <6>1, <6>2, <6>3
          <5> QED
            BY <1>4, <1>7, <1>8, <2>3, <3>2, <5>1
        <4> QED
          BY <1>4, <1>5, <1>6, <4>1, <4>2
      <3> QED
        BY <1>4, <1>7, <1>11, <2>3, <3>1, <3>2
    <2>5. Bisected'
      <3> HIDE DEF nb, ne
      <3> QED
        BY <1>3, <1>4, <2>2, <2>4 DEF Bisected
    <2>6. Answered'
      <3> HIDE DEF nb, ne
      <3> QED
        BY <2>2 DEF Answered
    <2> QED
      BY <1>9, <2>2, <2>5, <2>6
  <1> QED
    BY <1>10, <1>11

(* The scan finds the row, where there is one.                              *)
LEMMA ScanAnswers ==
    ASSUME TableNumbers, TableInv, T!Regular, T!Scan
    PROVE  LookupShape' /\ Loaded' /\ Bisected' /\ Answered'
  <1> DEFINE b == lookup.beginIndex
             e == lookup.endIndex
             W(k) == T!Written[k][1]
             found == {i \in b .. (T!ScanEnd - 1) : T!ID(i) = lookup.id}
             first == CHOOSE i \in found : \A j \in found : i <= j
  <1>1. LookupShape /\ Loaded /\ Bisected /\ file \in TableFiles
    BY DEF TableInv
  <1>2. lookup.pc = "search" /\ UNCHANGED <<file, m_tableRow, m_tableRowCount>>
    BY DEF T!Scan
  <1>3. T!Written' = T!Written /\ Rows' = Rows
    BY <1>2, SameFile
  <1>4. /\ lookup.id \in Int /\ b \in Nat /\ e \in Nat /\ e <= Rows
        /\ \A k \in 1 .. Rows : k <= b => W(k) < lookup.id
        /\ \A k \in 1 .. Rows : k > e + 1 => W(k) > lookup.id
    BY <1>1, <1>2 DEF Bisected
  <1>5. Rows \in Nat \ {0} /\ m_tableRowCount = Rows
    BY <1>1, <1>2, RegularLines DEF Loaded
  <1>6. /\ \A k \in 1 .. Rows : W(k) \in Int
        /\ \A k, l \in 1 .. Rows : k < l => W(k) < W(l)
    BY <1>1, RegularRows
  <1>7. \A k \in 1 .. Rows : m_tableRow[k] = T!Written[k]
    BY <1>1, <1>2 DEF Loaded
  <1>8. T!ScanEnd = IF e = Rows THEN Rows ELSE e + 1
    BY <1>5 DEF T!ScanEnd
  <1> HIDE DEF b, e, W
  <1>9. ASSUME NEW i \in b .. (T!ScanEnd - 1)
        PROVE  i + 1 \in 1 .. Rows /\ T!ID(i) = W(i + 1) /\ i \in Int
    <2>1. i + 1 \in 1 .. Rows /\ i \in Int
      BY <1>4, <1>5, <1>8
    <2> QED
      BY <1>7, <2>1 DEF T!ID, W
  <1>10. ASSUME NEW k \in 1 .. Rows, W(k) = lookup.id
         PROVE  k - 1 \in found /\ (k - 1) + 1 = k
    <2>1. ~(k <= b) /\ ~(k > e + 1)
      <3>1. W(k) \in Int /\ lookup.id \in Int
        BY <1>4, <1>6
      <3>2. ~(W(k) < lookup.id) /\ ~(W(k) > lookup.id)
        BY <1>10, <3>1
      <3> QED
        BY <1>4, <3>2
    <2>2. k - 1 \in b .. (T!ScanEnd - 1) /\ (k - 1) + 1 = k
      BY <1>4, <1>5, <1>8, <2>1
    <2>3. T!ID(k - 1) = W(k)
      BY <1>9, <2>2
    <2> QED
      BY <1>10, <2>2, <2>3
  <1>11. ASSUME NEW k \in 1 .. Rows, W(k) = lookup.id
         PROVE  first = k - 1
    <2>1. \A i \in found : i = k - 1
      <3> SUFFICES ASSUME NEW i \in b .. (T!ScanEnd - 1), T!ID(i) = lookup.id
                   PROVE  i = k - 1
        OBVIOUS
      <3>1. i + 1 \in 1 .. Rows /\ W(i + 1) = lookup.id /\ i \in Int
        BY <1>9
      <3>2. ~(k < i + 1) /\ ~(i + 1 < k)
        <4>1. W(k) \in Int /\ W(i + 1) = W(k)
          BY <1>6, <1>11, <3>1
        <4>2. ~(W(k) < W(i + 1)) /\ ~(W(i + 1) < W(k))
          BY <4>1
        <4> QED
          BY <1>6, <3>1, <4>2
      <3> QED
        BY <3>1, <3>2
    <2>2. k - 1 \in found /\ k - 1 \in Int
      BY <1>10, <1>11
    <2> HIDE DEF found
    <2>3. found = {k - 1} /\ k - 1 <= k - 1
      BY <2>1, <2>2
    <2> QED
      BY <2>3
  <1>12. lookup' = [lookup EXCEPT !.pc = "answered",
                       !.answer = IF found = {} THEN T!NoRow ELSE m_tableRow[1 + first]]
    BY DEF T!Scan, b
  <1> HIDE DEF found, first
  <1>13. /\ LookupShape' /\ lookup'.pc = "answered" /\ lookup'.id = lookup.id
         /\ lookup'.answer = IF found = {} THEN T!NoRow ELSE m_tableRow[1 + first]
    BY <1>1, <1>12 DEF LookupShape
  <1>14. ASSUME \A k \in 1 .. Rows : W(k) # lookup.id
         PROVE  lookup'.answer = T!NoRow
    <2>1. found = {}
      <3> SUFFICES ASSUME NEW i \in b .. (T!ScanEnd - 1), T!ID(i) = lookup.id
                   PROVE  FALSE
        BY DEF found
      <3> QED
        BY <1>9, <1>14
    <2> QED
      BY <1>13, <2>1
  <1>15. ASSUME NEW k \in 1 .. Rows, W(k) = lookup.id
         PROVE  lookup'.answer = T!Written[k]
    <2>1. found # {} /\ first = k - 1 /\ 1 + (k - 1) = k
      BY <1>10, <1>11, <1>15
    <2> QED
      BY <1>7, <1>13, <2>1
  <1>16. Answered'
    BY <1>3, <1>13, <1>14, <1>15 DEF Answered, W
  <1>17. Bisected'
    BY <1>13 DEF Bisected
  <1>18. Loaded'
    BY <1>1, <1>2, <1>3 DEF Loaded
  <1> QED
    BY <1>13, <1>16, <1>17, <1>18

(* Every step keeps the invariant. *)
LEMMA TableSteps ==
    ASSUME TableNumbers, TableInv, [T!Next]_(T!vars)
    PROVE  TableInv'
  <1>1. file' = file
    BY DEF T!Next, T!vars, T!Load, T!Lookup, T!Bisect, T!Scan
  <1>2. T!Regular' = T!Regular /\ T!Written' = T!Written /\ Rows' = Rows
    BY <1>1, SameFile
  <1>3. file' \in TableFiles
    BY <1>1 DEF TableInv
  <1> SUFFICES ASSUME T!Regular
               PROVE  LookupShape' /\ Loaded' /\ Bisected' /\ Answered'
    BY <1>2, <1>3 DEF TableInv
  <1>4. LookupShape /\ Loaded /\ Bisected /\ Answered /\ file \in TableFiles
    BY DEF TableInv
  <1>5. CASE T!Load
    <2>1. /\ Rows \in Nat \ {0} /\ T!RowCount - 2 = Rows
          /\ T!Readable(Rows * Columns)
          /\ \A r \in 1 .. Rows : T!Row(r) = T!Written[r]
      BY <1>4, RegularLines, RegularRows
    <2>2. /\ lookup' = [lookup EXCEPT !.pc = "loaded"]
          /\ m_tableRow' = [r \in 1 .. Rows |-> T!Row(r)]
          /\ m_tableRowCount' = Rows
      BY <1>5, <2>1 DEF T!Load
    <2>3. LookupShape' /\ lookup'.pc = "loaded"
      BY <1>4, <2>2 DEF LookupShape
    <2>4. Loaded'
      BY <1>2, <2>1, <2>2 DEF Loaded
    <2> QED
      BY <2>3, <2>4 DEF Bisected, Answered
  <1>6. CASE \E id \in TableIDs : T!Lookup(id)
    <2>1. PICK id \in TableIDs : T!Lookup(id)
      BY <1>6
    <2>2. /\ lookup.pc \in {"loaded", "answered"}
          /\ lookup' = [pc |-> "search", id |-> id, answer |-> T!NoRow, beginIndex |-> 0,
                        endIndex |-> m_tableRowCount, index |-> m_tableRowCount \div 2]
          /\ UNCHANGED <<file, m_tableRow, m_tableRowCount>>
      BY <2>1 DEF T!Lookup
    <2>3. Rows \in Nat \ {0} /\ m_tableRowCount = Rows /\ id \in Int
      BY <1>4, <2>2, RegularLines DEF Loaded, TableNumbers
    <2>4. LookupShape' /\ Answered'
      BY <2>2 DEF LookupShape, Answered
    <2>5. Loaded'
      BY <1>2, <1>4, <2>2 DEF Loaded
    <2>6. Bisected'
      <3>1. /\ lookup'.id = id /\ lookup'.beginIndex = 0 /\ lookup'.endIndex = Rows
            /\ lookup'.index = Rows \div 2
        BY <2>2, <2>3
      <3>2. Rows \div 2 = (0 + Rows) \div 2
        BY <2>3
      <3>3. \A i \in 1 .. Rows : ~(i <= 0) /\ ~(i > Rows + 1)
        BY <2>3
      <3> QED
        BY <1>2, <2>3, <3>1, <3>2, <3>3 DEF Bisected
    <2> QED
      BY <2>4, <2>5, <2>6
  <1>7. CASE T!Bisect
    BY <1>7, BisectKeeps
  <1>8. CASE T!Scan
    BY <1>8, ScanAnswers
  <1>9. CASE UNCHANGED T!vars
    BY <1>2, <1>4, <1>9 DEF T!vars, LookupShape, Loaded, Bisected, Answered
  <1> QED
    BY <1>5, <1>6, <1>7, <1>8, <1>9 DEF T!Next

(* Of a regular file, with any number of rows and columns, every line is    *)
(* found by its id and no other answer is given: the fields come out where  *)
(* the file has them (GYTableSerialization.cpp:297), and the bisection      *)
(* leaves no row out (GYTable.h:98).                                        *)
THEOREM TableFinds == Spec => []TableAnswers
  <1> DEFINE Inv == which = "table" => TableInv
  <1>1. Init => Inv
    BY DEF Init, Begin, T!Init, TableInv, LookupShape, Loaded, Bisected, Answered
  <1>2. TableInv => T!TableAnswers
    <2> SUFFICES ASSUME TableInv, T!Regular
                 PROVE  /\ lookup.pc \notin {"failed", "aborted"}
                        /\ lookup.pc = "answered" =>
                              LET said == {i \in DOMAIN T!Written : T!Written[i][1] = lookup.id}
                              IN  IF said = {} THEN lookup.answer = T!NoRow
                                  ELSE \A i \in said : lookup.answer = T!Written[i]
      BY DEF T!TableAnswers
    <2>1. LookupShape /\ Answered /\ DOMAIN T!Written = 1 .. Rows
      BY RegularRows, LibraryAssumption DEF TableInv
    <2> QED
      BY <2>1 DEF LookupShape, Answered
  <1>3. Inv => TableAnswers
    BY <1>2 DEF TableAnswers
  <1>4. Inv /\ [Next]_vars => Inv'
    BY OneAtATime, TableSteps, LibraryAssumption
  <1> QED
    BY <1>1, <1>3, <1>4, PTL DEF Spec

-----------------------------------------------------------------------------
(* Strings of any number, length and manager, on any array of buffers.     *)

IsUsed(l) == l[3] = "used"

\* The buffers on the lists of a memory, and on its used lists.
Listed(m) == {a \in AddressSpace : \E l \in Lists : a \in Items(m, l)}
Busy(m)   == {a \in AddressSpace : \E l \in Lists : IsUsed(l) /\ a \in Items(m, l)}

\* No buffer is on two lists, and the first of a used list has none before it.
ListsApart(m) ==
    /\ m \in MemoryOf(AddressSpace, Lists)
    /\ \A l \in Lists : WellFormed(m, l)
    /\ \A l \in Lists : IsUsed(l) => HeadIsFirst(m, l)
    /\ \A l, k \in Lists : l # k => Items(m, l) \cap Items(m, k) = {}

(* The lists are named by their manager, their size and their kind. *)
LEMMA ListNames ==
    /\ \A g \in Managers, k \in Sizes :
          /\ Free(g, k) \in Lists /\ ~IsUsed(Free(g, k)) /\ Free(g, k)[2] = k
          /\ Used(g, k) \in Lists /\ IsUsed(Used(g, k)) /\ Used(g, k)[2] = k
    /\ \A l \in Lists :
          /\ l[1] \in Managers /\ l[2] \in Sizes
          /\ IsUsed(l) => l = Used(l[1], l[2])
          /\ ~IsUsed(l) => l = Free(l[1], l[2])
  BY DEF Free, Used, Lists, IsUsed

(* Taking the first buffer of a free list leaves the others on theirs. *)
LEMMA BufferTaken ==
    ASSUME StringNumbers, NEW m, ListsApart(m), NEW l \in Lists, ~IsUsed(l),
           FirstItem(m, l) # NULL
    PROVE  LET p == PickUpFirstItem(m, l)
               a == FirstItem(m, l)
           IN  /\ ListsApart(p)
               /\ a \in AddressSpace /\ a \in Items(m, l)
               /\ \A k \in Lists : Items(p, k) = IF k = l THEN Items(m, l) \ {a} ELSE Items(m, k)
  <1> DEFINE p == PickUpFirstItem(m, l)
             a == FirstItem(m, l)
  <1>1. m \in MemoryOf(AddressSpace, Lists) /\ NULL \notin AddressSpace
    BY DEF ListsApart, StringNumbers
  <1>2. \A k \in Lists : WellFormed(m, k)
    BY DEF ListsApart
  <1>3. /\ p \in MemoryOf(AddressSpace, Lists)
        /\ a \in Items(m, l) /\ WellFormed(p, l) /\ Items(p, l) = Items(m, l) \ {a}
    BY <1>1, <1>2, PickUpFromList
  <1>4. a \in AddressSpace
    BY <1>1, <1>2, <1>3, FirstItemOfList
  <1>5. ASSUME NEW k \in Lists, k # l
        PROVE  /\ WellFormed(p, k) /\ Items(p, k) = Items(m, k)
               /\ HeadIsFirst(m, k) => HeadIsFirst(p, k)
    <2>1. a \notin Items(m, k)
      BY <1>3, <1>5 DEF ListsApart
    <2> QED
      BY <1>1, <1>2, <1>5, <2>1, PickUpOther
  <1> HIDE DEF p, a
  <1>6. \A k \in Lists : Items(p, k) = IF k = l THEN Items(m, l) \ {a} ELSE Items(m, k)
    BY <1>3, <1>5
  <1>7. ListsApart(p)
    <2>1. \A k \in Lists : WellFormed(p, k) /\ (IsUsed(k) => HeadIsFirst(p, k))
      BY <1>3, <1>5 DEF ListsApart
    <2>2. \A k, j \in Lists : k # j => Items(p, k) \cap Items(p, j) = {}
      BY <1>6 DEF ListsApart
    <2> QED
      BY <1>3, <2>1, <2>2 DEF ListsApart
  <1> QED
    BY <1>3, <1>4, <1>6, <1>7 DEF p, a

(* Adding a buffer that is on no list. *)
LEMMA BufferAdded ==
    ASSUME StringNumbers, NEW m, ListsApart(m), NEW l \in Lists,
           NEW a \in AddressSpace, a \notin Listed(m)
    PROVE  LET p == Add(m, l, a)
           IN  /\ ListsApart(p)
               /\ \A k \in Lists : Items(p, k) = IF k = l THEN Items(m, l) \cup {a} ELSE Items(m, k)
  <1> DEFINE p == Add(m, l, a)
  <1>1. m \in MemoryOf(AddressSpace, Lists) /\ NULL \notin AddressSpace
    BY DEF ListsApart, StringNumbers
  <1>2. \A k \in Lists : WellFormed(m, k) /\ a \notin Items(m, k)
    BY DEF ListsApart, Listed
  <1>3. /\ p \in MemoryOf(AddressSpace, Lists)
        /\ WellFormed(p, l) /\ Items(p, l) = Items(m, l) \cup {a} /\ HeadIsFirst(p, l)
    BY <1>1, <1>2, AddToList
  <1>4. ASSUME NEW k \in Lists, k # l
        PROVE  /\ WellFormed(p, k) /\ Items(p, k) = Items(m, k)
               /\ HeadIsFirst(m, k) => HeadIsFirst(p, k)
    <2>1. Items(m, k) \cap Items(m, l) = {}
      BY <1>4 DEF ListsApart
    <2> QED
      BY <1>1, <1>2, <1>4, <2>1, AddOther
  <1> HIDE DEF p
  <1>5. \A k \in Lists : Items(p, k) = IF k = l THEN Items(m, l) \cup {a} ELSE Items(m, k)
    BY <1>3, <1>4
  <1>6. ListsApart(p)
    <2>1. \A k \in Lists : WellFormed(p, k) /\ (IsUsed(k) => HeadIsFirst(p, k))
      BY <1>3, <1>4 DEF ListsApart
    <2>2. \A k, j \in Lists : k # j => Items(p, k) \cap Items(p, j) = {}
      BY <1>2, <1>5 DEF ListsApart
    <2> QED
      BY <1>3, <2>1, <2>2 DEF ListsApart
  <1> QED
    BY <1>5, <1>6 DEF p

(* Deleting a buffer from the used list it is on. *)
LEMMA BufferDeleted ==
    ASSUME StringNumbers, NEW m, ListsApart(m), NEW l \in Lists, IsUsed(l),
           NEW a \in Items(m, l)
    PROVE  LET p == Delete(m, l, a)
           IN  /\ ListsApart(p)
               /\ a \in AddressSpace
               /\ \A k \in Lists : Items(p, k) = IF k = l THEN Items(m, l) \ {a} ELSE Items(m, k)
  <1> DEFINE p == Delete(m, l, a)
  <1>1. m \in MemoryOf(AddressSpace, Lists) /\ NULL \notin AddressSpace
    BY DEF ListsApart, StringNumbers
  <1>2. (\A k \in Lists : WellFormed(m, k)) /\ HeadIsFirst(m, l)
    BY DEF ListsApart
  <1>3. /\ p \in MemoryOf(AddressSpace, Lists)
        /\ WellFormed(p, l) /\ Items(p, l) = Items(m, l) \ {a} /\ HeadIsFirst(p, l)
    BY <1>1, <1>2, DeleteFromList
  <1>4. ASSUME NEW k \in Lists, k # l
        PROVE  /\ WellFormed(p, k) /\ Items(p, k) = Items(m, k)
               /\ HeadIsFirst(m, k) => HeadIsFirst(p, k)
    <2>1. Items(m, k) \cap Items(m, l) = {}
      BY <1>4 DEF ListsApart
    <2> QED
      BY <1>1, <1>2, <1>4, <2>1, DeleteOther
  <1>5. a \in AddressSpace
    BY <1>1, <1>2, FirstItemOfList
  <1> HIDE DEF p
  <1>6. \A k \in Lists : Items(p, k) = IF k = l THEN Items(m, l) \ {a} ELSE Items(m, k)
    BY <1>3, <1>4
  <1>7. ListsApart(p)
    <2>1. \A k \in Lists : WellFormed(p, k) /\ (IsUsed(k) => HeadIsFirst(p, k))
      BY <1>3, <1>4 DEF ListsApart
    <2>2. \A k, j \in Lists : k # j => Items(p, k) \cap Items(p, j) = {}
      BY <1>6 DEF ListsApart
    <2> QED
      BY <1>3, <2>1, <2>2 DEF ListsApart
  <1> QED
    BY <1>5, <1>6, <1>7 DEF p

Worlds == [mem : MemoryOf(AddressSpace, Lists), refs : [AddressSpace -> Int],
           size : [AddressSpace -> Int], crashed : {FALSE}]

\* A world in which the buffers of taken are on no list, and neither they nor
\* those on the lists overlap each other or the addresses of spare.
Good(w, taken, spare) ==
    /\ w \in Worlds
    /\ ListsApart(w.mem)
    /\ taken \subseteq AddressSpace /\ spare \subseteq AddressSpace
    /\ \A a \in taken : a \notin Listed(w.mem)
    /\ \A l \in Lists : \A a \in Items(w.mem, l) : w.size[a] = l[2]
    /\ \A a \in Listed(w.mem) \cup taken :
          Room(w.size[a], a) \subseteq AddressSpace /\ Room(w.size[a], a) \cap spare = {}
    /\ \A a, b \in Listed(w.mem) \cup taken :
          a # b => Room(w.size[a], a) \cap Room(w.size[b], b) = {}

\* The used lists of two worlds, and the counts of the buffers on them, agree.
SameUsed(w, v) ==
    /\ \A l \in Lists : IsUsed(l) => Items(v.mem, l) = Items(w.mem, l)
    /\ \A a \in Busy(w.mem) : v.refs[a] = w.refs[a]

\* v is w with more buffers on its free lists; the addresses of spare are left.
Grown(w, v, taken, spare) ==
    /\ Good(v, taken, spare)
    /\ SameUsed(w, v)
    /\ \A b \in taken : v.size[b] = w.size[b]

(* An address is in the room of its buffer. *)
LEMMA RoomIsThere ==
    ASSUME StringNumbers
    PROVE  \A k : \A a \in Int : a \in Room(k, a)
  BY DEF StringNumbers, Room

(* A new piece in spare addresses is one more buffer of a free list. *)
LEMMA PieceAdded ==
    ASSUME StringNumbers, NEW w, NEW taken, NEW spare, Good(w, taken, spare),
           NEW g \in Managers, NEW k \in Sizes, NEW a \in Int, Room(k, a) \subseteq spare
    PROVE  Grown(w, AddPiece(w, g, k, a), taken, spare \ Room(k, a))
  <1> DEFINE v == AddPiece(w, g, k, a)
             l == Free(g, k)
  <1>1. l \in Lists /\ ~IsUsed(l) /\ l[2] = k
    BY ListNames
  <1>2. a \in Room(k, a) /\ a \in AddressSpace
    BY RoomIsThere DEF Good
  <1>3. \A b \in Listed(w.mem) \cup taken : b \in AddressSpace /\ b \in Int /\ b \in Room(w.size[b], b)
    BY RoomIsThere DEF Good, Listed, StringNumbers
  <1>4. a \notin Listed(w.mem) \cup taken
    BY <1>2, <1>3 DEF Good
  <1>5. /\ ListsApart(Add(w.mem, l, a))
        /\ \A j \in Lists : Items(Add(w.mem, l, a), j)
                               = IF j = l THEN Items(w.mem, l) \cup {a} ELSE Items(w.mem, j)
    <2> HIDE DEF l
    <2>1. ListsApart(w.mem) /\ a \notin Listed(w.mem)
      BY <1>4 DEF Good
    <2> QED
      BY <1>1, <1>2, <2>1, BufferAdded
  <1>6. w \in Worlds /\ k \in Int
    BY DEF Good, Sizes
  <1>7. Add(w.mem, l, a) \in MemoryOf(AddressSpace, Lists)
    BY <1>5 DEF ListsApart
  <1>8. v = [mem |-> Add(w.mem, l, a), refs |-> [w.refs EXCEPT ![a] = 0],
             size |-> [w.size EXCEPT ![a] = k], crashed |-> w.crashed]
    <2> HIDE DEF l
    <2>1. w = [mem |-> w.mem, refs |-> w.refs, size |-> w.size, crashed |-> w.crashed]
      BY <1>6 DEF Worlds
    <2>2. v = [w EXCEPT !.mem = Add(w.mem, l, a), !.size = [w.size EXCEPT ![a] = k],
                        !.refs = [w.refs EXCEPT ![a] = 0]]
      BY DEF AddPiece, l
    <2> HIDE DEF v
    <2> QED
      BY <2>1, <2>2
  <1>9. v \in Worlds
    <2> HIDE DEF l, v
    <2>1. [w.refs EXCEPT ![a] = 0] \in [AddressSpace -> Int]
      BY <1>2, <1>6 DEF Worlds
    <2>2. [w.size EXCEPT ![a] = k] \in [AddressSpace -> Int]
      BY <1>2, <1>6 DEF Worlds
    <2>3. w.crashed \in {FALSE}
      BY <1>6 DEF Worlds
    <2> QED
      BY <1>7, <1>8, <2>1, <2>2, <2>3 DEF Worlds
  <1>10. /\ v.mem = Add(w.mem, l, a)
         /\ \A b \in AddressSpace : v.size[b] = IF b = a THEN k ELSE w.size[b]
         /\ \A b \in AddressSpace : v.refs[b] = IF b = a THEN 0 ELSE w.refs[b]
    BY <1>6, <1>8 DEF Worlds
  <1> HIDE DEF v, l
  <1>11. /\ ListsApart(v.mem)
         /\ \A j \in Lists : Items(v.mem, j) = IF j = l THEN Items(w.mem, l) \cup {a} ELSE Items(w.mem, j)
    BY <1>5, <1>10
  <1>12. Listed(v.mem) = Listed(w.mem) \cup {a}
    BY <1>1, <1>2, <1>11 DEF Listed
  <1>13. \A b \in taken : v.size[b] = w.size[b]
    BY <1>3, <1>4, <1>10
  <1>14. \A b \in Listed(w.mem) \cup taken : v.size[b] = w.size[b]
    BY <1>3, <1>4, <1>10
  <1>15. v.size[a] = k
    BY <1>2, <1>10
  <1>16. Good(v, taken, spare \ Room(k, a))
    <2>1. \A j \in Lists : \A b \in Items(v.mem, j) : v.size[b] = j[2]
      <3> SUFFICES ASSUME NEW j \in Lists, NEW b \in Items(v.mem, j)
                   PROVE  v.size[b] = j[2]
        OBVIOUS
      <3>1. CASE j = l /\ b = a
        BY <1>1, <1>15, <3>1
      <3>2. CASE ~(j = l /\ b = a)
        <4>1. b \in Items(w.mem, j)
          BY <1>11, <3>2
        <4>2. b \in AddressSpace
          BY <4>1, FirstItemOfList DEF Good, ListsApart, StringNumbers
        <4>3. b \in Listed(w.mem)
          BY <4>1, <4>2 DEF Listed
        <4> QED
          BY <1>14, <4>1, <4>3 DEF Good
      <3> QED
        BY <3>1, <3>2
    <2>2. \A b \in taken : b \notin Listed(v.mem)
      BY <1>4, <1>12 DEF Good
    <2>3. \A b \in Listed(v.mem) \cup taken :
             /\ Room(v.size[b], b) \subseteq AddressSpace
             /\ Room(v.size[b], b) \cap (spare \ Room(k, a)) = {}
      BY <1>12, <1>14, <1>15 DEF Good
    <2>4. \A b \in Listed(w.mem) \cup taken : Room(v.size[b], b) \cap Room(k, a) = {}
      BY <1>14 DEF Good
    <2>5. \A b, c \in Listed(v.mem) \cup taken :
             b # c => Room(v.size[b], b) \cap Room(v.size[c], c) = {}
      <3> SUFFICES ASSUME NEW b \in Listed(v.mem) \cup taken, NEW c \in Listed(v.mem) \cup taken,
                          b # c
                   PROVE  Room(v.size[b], b) \cap Room(v.size[c], c) = {}
        OBVIOUS
      <3>1. CASE b = a
        BY <1>12, <1>15, <2>4, <3>1
      <3>2. CASE c = a
        BY <1>12, <1>15, <2>4, <3>2
      <3>3. CASE b # a /\ c # a
        BY <1>12, <1>14, <3>3 DEF Good
      <3> QED
        BY <3>1, <3>2, <3>3
    <2>6. taken \subseteq AddressSpace /\ spare \ Room(k, a) \subseteq AddressSpace
      BY DEF Good
    <2> QED
      BY <1>9, <1>11, <2>1, <2>2, <2>3, <2>5, <2>6 DEF Good
  <1>17. SameUsed(w, v)
    <2>1. \A j \in Lists : IsUsed(j) => Items(v.mem, j) = Items(w.mem, j)
      BY <1>1, <1>11
    <2>2. \A b \in Busy(w.mem) : b \in AddressSpace /\ b \in Listed(w.mem)
      BY DEF Busy, Listed
    <2>3. \A b \in Busy(w.mem) : v.refs[b] = w.refs[b]
      BY <1>4, <1>10, <2>2
    <2> QED
      BY <2>1, <2>3 DEF SameUsed
  <1> QED
    BY <1>13, <1>16, <1>17 DEF v, Grown

\* The worlds in which n pieces have been added one after the other.
IsAdded(f, w, n, gs, ks, at) ==
    f = [i \in 0 .. n |-> IF i = 0 THEN w ELSE AddPiece(f[i - 1], gs[i], ks[i], at[i])]

(* The recursion over the pieces has a value. *)
LEMMA AddedExists ==
    ASSUME NEW w, NEW gs, NEW ks, NEW at, NEW n \in Nat
    PROVE  \E f : IsAdded(f, w, n, gs, ks, at)
  <1> DEFINE D == {m \in Nat : \E f : IsAdded(f, w, m, gs, ks, at)}
  <1>1. 0 \in D
    <2> DEFINE f == [i \in 0 .. 0 |-> w]
    <2>1. f = [i \in 0 .. 0 |-> IF i = 0 THEN w ELSE AddPiece(f[i - 1], gs[i], ks[i], at[i])]
      OBVIOUS
    <2> HIDE DEF f
    <2> QED
      BY <2>1 DEF IsAdded
  <1>2. ASSUME NEW m \in Nat, m \in D
        PROVE  m + 1 \in D
    <2>1. PICK f : IsAdded(f, w, m, gs, ks, at)
      BY <1>2
    <2>2. \A i \in 0 .. m : f[i] = IF i = 0 THEN w ELSE AddPiece(f[i - 1], gs[i], ks[i], at[i])
      BY <2>1 DEF IsAdded
    <2> DEFINE h == [i \in 0 .. m + 1 |-> IF i = m + 1 THEN AddPiece(f[m], gs[m + 1], ks[m + 1], at[m + 1])
                                          ELSE f[i]]
    <2>3. \A i \in 0 .. m : h[i] = f[i]
      OBVIOUS
    <2>4. h[m + 1] = AddPiece(f[m], gs[m + 1], ks[m + 1], at[m + 1])
      OBVIOUS
    <2>5. h = [i \in 0 .. m + 1 |-> h[i]]
      OBVIOUS
    <2> HIDE DEF h
    <2>6. ASSUME NEW i \in 0 .. m + 1
          PROVE  h[i] = IF i = 0 THEN w ELSE AddPiece(h[i - 1], gs[i], ks[i], at[i])
      <3>1. CASE i = m + 1
        <4>1. i # 0 /\ i - 1 = m /\ m \in 0 .. m
          BY <3>1
        <4>2. h[i - 1] = f[m]
          BY <2>3, <4>1
        <4> QED
          BY <2>4, <3>1, <4>1, <4>2
      <3>2. CASE i # m + 1
        <4>1. i \in 0 .. m /\ (i # 0 => i - 1 \in 0 .. m)
          BY <3>2
        <4> QED
          BY <2>2, <2>3, <4>1
      <3> QED
        BY <3>1, <3>2
    <2>7. IsAdded(h, w, m + 1, gs, ks, at)
      BY <2>5, <2>6, Zenon DEF IsAdded
    <2> QED
      BY <2>7
  <1> HIDE DEF D
  <1>3. n \in D
    BY <1>1, <1>2, SetInduction
  <1> QED
    BY <1>3 DEF D

(* Worlds that agree with a third one agree. *)
LEMMA SameUsedIsTransitive ==
    ASSUME NEW u, NEW v, NEW w, SameUsed(u, v), SameUsed(v, w)
    PROVE  SameUsed(u, w)
  <1>1. Busy(v.mem) = Busy(u.mem)
    BY DEF SameUsed, Busy
  <1> QED
    BY <1>1 DEF SameUsed

\* n pieces have room in spare without overlapping.
HaveRoom(ks, at, n, spare) ==
    /\ \A i \in 1 .. n : Room(ks[i], at[i]) \subseteq spare
    /\ \A i, j \in 1 .. n : i # j => Room(ks[i], at[i]) \cap Room(ks[j], at[j]) = {}

(* Pieces in spare addresses that do not overlap can all be added. *)
LEMMA PiecesAdded ==
    ASSUME StringNumbers, NEW w, NEW taken, NEW spare, Good(w, taken, spare),
           NEW n \in Nat, NEW gs \in [1 .. n -> Managers], NEW ks \in [1 .. n -> Sizes],
           NEW at \in [1 .. n -> Int],
           HaveRoom(ks, at, n, spare),
           NEW f, IsAdded(f, w, n, gs, ks, at)
    PROVE  Grown(w, f[n], taken, {})
  <1> DEFINE rest(m) == {x \in spare : \A j \in 1 .. m : x \notin Room(ks[j], at[j])}
             step(m) == Grown(w, f[m], taken, rest(m))
             D == {m \in Nat : m <= n => step(m)}
  <1>1. \A i \in 0 .. n : f[i] = IF i = 0 THEN w ELSE AddPiece(f[i - 1], gs[i], ks[i], at[i])
    BY DEF IsAdded
  <1>2. 0 \in D
    <2>1. f[0] = w
      BY <1>1
    <2>2. rest(0) = spare
      OBVIOUS
    <2>3. SameUsed(w, w)
      BY DEF SameUsed
    <2> HIDE DEF rest
    <2> QED
      BY <2>1, <2>2, <2>3 DEF Grown
  <1>3. ASSUME NEW m \in Nat, m \in D
        PROVE  m + 1 \in D
    <2> SUFFICES ASSUME m + 1 <= n
                 PROVE  step(m + 1)
      OBVIOUS
    <2> DEFINE g == gs[m + 1]
               k == ks[m + 1]
               a == at[m + 1]
    <2>1. step(m)
      BY <1>3
    <2>2. m + 1 \in 1 .. n /\ m + 1 \in 0 .. n /\ m + 1 # 0 /\ (m + 1) - 1 = m
      OBVIOUS
    <2>3. f[m + 1] = AddPiece(f[m], g, k, a)
      BY <1>1, <2>2
    <2>4. g \in Managers /\ k \in Sizes /\ a \in Int
      BY <2>2
    <2>5. \A j \in 1 .. m : j \in 1 .. n /\ j # m + 1
      OBVIOUS
    <2>6. Room(k, a) \subseteq rest(m)
      BY <2>2, <2>5 DEF HaveRoom
    <2>7. rest(m + 1) = rest(m) \ Room(k, a)
      <3>1. \A j : j \in 1 .. m + 1 <=> j \in 1 .. m \/ j = m + 1
        OBVIOUS
      <3> QED
        BY <3>1
    <2> HIDE DEF rest, g, k, a
    <2>8. Grown(f[m], f[m + 1], taken, rest(m) \ Room(k, a))
      <3>1. Good(f[m], taken, rest(m))
        BY <2>1 DEF Grown
      <3> QED
        BY <2>3, <2>4, <2>6, <3>1, PieceAdded
    <2>9. SameUsed(w, f[m + 1])
      <3>1. SameUsed(w, f[m]) /\ SameUsed(f[m], f[m + 1])
        BY <2>1, <2>8 DEF Grown
      <3> QED
        BY <3>1, SameUsedIsTransitive, Zenon
    <2> QED
      BY <2>1, <2>7, <2>8, <2>9 DEF Grown
  <1>4. n \in D
    <2> HIDE DEF D
    <2> QED
      BY <1>2, <1>3, SetInduction
  <1>5. step(n)
    BY <1>4
  <1> HIDE DEF rest
  <1>6. Good(f[n], taken, {})
    BY <1>5 DEF Good, Grown
  <1> QED
    BY <1>5, <1>6 DEF Grown

(* AddPieces, the loop that cuts a buffer. *)
LEMMA BufferCut ==
    ASSUME StringNumbers, NEW w, NEW taken, NEW a \in Int, NEW k \in Sizes, k < 512,
           NEW g \in Managers, Good(w, taken, (a + 1) .. (a + Pieces - 1))
    PROVE  Grown(w, AddPieces(w, g, k, a, Pieces - 1), taken, {})
  <1> DEFINE n == Pieces - 1
             gs == [i \in 1 .. n |-> g]
             ks == [i \in 1 .. n |-> k]
             at == [i \in 1 .. n |-> a + i]
             spare == (a + 1) .. (a + Pieces - 1)
             added == CHOOSE f : f = [i \in 0 .. n |-> IF i = 0 THEN w ELSE AddPiece(f[i - 1], g, k, a + i)]
  <1>1. n \in Nat /\ Pieces \in Int /\ Pieces >= 1
    BY DEF StringNumbers
  <1>2. gs \in [1 .. n -> Managers] /\ ks \in [1 .. n -> Sizes] /\ at \in [1 .. n -> Int]
    BY <1>1
  <1>3. PICK f : IsAdded(f, w, n, gs, ks, at)
    <2> HIDE DEF gs, ks, at, n
    <2> QED
      BY <1>1, AddedExists
  <1>4. \A h : IsAdded(h, w, n, gs, ks, at) <=>
               h = [i \in 0 .. n |-> IF i = 0 THEN w ELSE AddPiece(h[i - 1], g, k, a + i)]
    <2> SUFFICES ASSUME NEW h
                 PROVE  [i \in 0 .. n |-> IF i = 0 THEN w ELSE AddPiece(h[i - 1], gs[i], ks[i], at[i])]
                          = [i \in 0 .. n |-> IF i = 0 THEN w ELSE AddPiece(h[i - 1], g, k, a + i)]
      BY DEF IsAdded
    <2>1. \A i \in 0 .. n : i # 0 => i \in 1 .. n
      BY <1>1
    <2>2. \A i \in 1 .. n : gs[i] = g /\ ks[i] = k /\ at[i] = a + i
      OBVIOUS
    <2> HIDE DEF gs, ks, at, n
    <2> QED
      BY <2>1, <2>2
  <1>5. IsAdded(added, w, n, gs, ks, at)
    <2> HIDE DEF gs, ks, at, n
    <2> QED
      BY <1>3, <1>4
  <1>6. AddPieces(w, g, k, a, Pieces - 1) = added[n]
    BY DEF AddPieces
  <1>7. \A i \in 1 .. n : Room(ks[i], at[i]) = {a + i}
    <2>1. k \in Int
      BY DEF Sizes
    <2> QED
      BY <1>1, <2>1 DEF Room
  <1>8. \A i \in 1 .. n : a + i \in spare
    BY <1>1
  <1> HIDE DEF gs, ks, at, n, added
  <1>9. \A i \in 1 .. n : Room(ks[i], at[i]) \subseteq spare
    BY <1>7, <1>8
  <1>10. \A i, j \in 1 .. n : i # j => Room(ks[i], at[i]) \cap Room(ks[j], at[j]) = {}
    <2> SUFFICES ASSUME NEW i \in 1 .. n, NEW j \in 1 .. n, i # j
                 PROVE  Room(ks[i], at[i]) \cap Room(ks[j], at[j]) = {}
      OBVIOUS
    <2>1. a + i # a + j
      BY <1>1
    <2> QED
      BY <1>7, <2>1
  <1> HIDE DEF spare
  <1>11. Good(w, taken, spare) /\ HaveRoom(ks, at, n, spare)
    BY <1>9, <1>10 DEF spare, HaveRoom
  <1>12. Grown(w, added[n], taken, {})
    BY <1>1, <1>2, <1>5, <1>11, PiecesAdded
  <1> QED
    BY <1>6, <1>12

(* The pool of a string of n characters, and where it is looked for when it *)
(* is deleted.                                                             *)
LEMMA PoolOfLength ==
    ASSUME NEW n \in Nat, n <= 1024
    PROVE  /\ PoolToAllocate(n) \in Sizes /\ n <= PoolToAllocate(n)
           /\ n < PoolToAllocate(n) => n < 1024 /\ PoolToDelete(n) = PoolToAllocate(n)
  <1>1. \A k \in Sizes : k \in Int /\ k >= 16 /\ k <= 1024
    BY DEF Sizes
  <1>2. PoolToAllocate(n) \in Sizes /\ n <= PoolToAllocate(n)
        /\ \A j \in Sizes : n <= j => PoolToAllocate(n) <= j
    <2>1. CASE n < 16
      BY <1>1, <2>1 DEF PoolToAllocate, Sizes
    <2>2. CASE ~(n < 16)
      <3>1. \E k \in Sizes : n <= k /\ \A j \in Sizes : n <= j => k <= j
        BY DEF Sizes
      <3>2. PoolToAllocate(n) = CHOOSE k \in Sizes : n <= k /\ \A j \in Sizes : n <= j => k <= j
        BY <2>2 DEF PoolToAllocate
      <3> QED
        BY <3>1, <3>2
    <2> QED
      BY <2>1, <2>2
  <1>3. ASSUME n < PoolToAllocate(n)
        PROVE  PoolToDelete(n) = PoolToAllocate(n)
    <2>1. PoolToAllocate(n) \in Sizes
          /\ \A j \in Sizes : n < j => PoolToAllocate(n) <= j
      BY <1>1, <1>2
    <2>2. PoolToDelete(n) \in Sizes /\ n < PoolToDelete(n)
          /\ \A j \in Sizes : n < j => PoolToDelete(n) <= j
      BY <1>3, <2>1 DEF PoolToDelete
    <2> QED
      BY <1>1, <1>3, <2>1, <2>2
  <1>4. PoolToAllocate(n) <= 1024
    BY <1>1, <1>2
  <1>5. n < PoolToAllocate(n) => n < 1024
    BY <1>1, <1>2, <1>4
  <1> QED
    BY <1>2, <1>3, <1>5

(* What CutFrom lists: only the pools above 256 bytes are cut. *)
LEMMA LargerPools ==
    ASSUME NEW k \in Sizes
    PROVE  \A i \in DOMAIN CutFrom(k) :
              /\ i \in Nat
              /\ CutFrom(k)[i] \in Sizes /\ CutFrom(k)[i] >= 512
              /\ k < 512
  <1>1. CASE k \in {16, 32, 64}
    BY <1>1 DEF CutFrom, Sizes
  <1>2. CASE k = 128
    BY <1>2 DEF CutFrom, Sizes
  <1>3. CASE k \in {512, 1024}
    <2>1. CutFrom(k) = <<>>
      BY <1>3 DEF CutFrom
    <2> QED
      BY <2>1
  <1> QED
    BY <1>1, <1>2, <1>3 DEF Sizes

(* Taking the first buffer of a pool. *)
LEMMA TakenFrom ==
    ASSUME StringNumbers, NEW w, Good(w, {}, {}), NEW g \in Managers, NEW k \in Sizes,
           FirstItem(w.mem, Free(g, k)) # NULL
    PROVE  LET v == TakeFrom(w, g, k)
               a == FirstItem(w.mem, Free(g, k))
           IN  /\ a \in AddressSpace
               /\ Good(v, {a}, {})
               /\ SameUsed(w, v)
               /\ v = [mem |-> v.mem, refs |-> w.refs, size |-> w.size, crashed |-> FALSE]
               /\ w.size[a] = k
  <1> DEFINE l == Free(g, k)
             v == TakeFrom(w, g, k)
             a == FirstItem(w.mem, l)
             p == PickUpFirstItem(w.mem, l)
  <1>1. l \in Lists /\ ~IsUsed(l) /\ l[2] = k
    BY ListNames
  <1>2. ListsApart(w.mem) /\ w \in Worlds
    BY DEF Good
  <1> HIDE DEF l
  <1>3. /\ ListsApart(p)
        /\ a \in AddressSpace /\ a \in Items(w.mem, l)
        /\ \A j \in Lists : Items(p, j) = IF j = l THEN Items(w.mem, l) \ {a} ELSE Items(w.mem, j)
    <2>1. FirstItem(w.mem, l) # NULL
      BY DEF l
    <2> QED
      BY <1>1, <1>2, <2>1, BufferTaken
  <1>4. v = [w EXCEPT !.mem = p]
    BY DEF TakeFrom, l
  <1> HIDE DEF v, p, a
  <1>5. v = [mem |-> p, refs |-> w.refs, size |-> w.size, crashed |-> FALSE]
    BY <1>2, <1>4 DEF Worlds
  <1>6. v \in Worlds
    BY <1>2, <1>3, <1>5 DEF Worlds, ListsApart
  <1>7. Listed(w.mem) = Listed(p) \cup {a} /\ a \notin Listed(p)
    <2>1. \A j \in Lists : j # l => a \notin Items(w.mem, j)
      BY <1>1, <1>2, <1>3 DEF ListsApart
    <2> QED
      BY <1>1, <1>3, <2>1 DEF Listed
  <1>8. w.size[a] = k
    BY <1>1, <1>3 DEF Good
  <1>9. \A j \in Lists : \A b \in Items(p, j) : w.size[b] = j[2]
    BY <1>3 DEF Good
  <1>10. Good(v, {a}, {})
    <2>1. Listed(p) \cup {a} = Listed(w.mem)
      BY <1>7
    <2>2. /\ \A b \in Listed(w.mem) : Room(w.size[b], b) \subseteq AddressSpace
          /\ \A b, c \in Listed(w.mem) : b # c => Room(w.size[b], b) \cap Room(w.size[c], c) = {}
      BY DEF Good
    <2>3. v.mem = p /\ v.size = w.size
      BY <1>5
    <2> QED
      BY <1>3, <1>6, <1>7, <1>9, <2>1, <2>2, <2>3 DEF Good
  <1>11. SameUsed(w, v)
    BY <1>1, <1>3, <1>5 DEF SameUsed
  <1> QED
    BY <1>3, <1>5, <1>8, <1>10, <1>11 DEF v, a, l

(* _Allocate: either nothing happens, or one buffer of the size asked for is *)
(* taken from the free lists.                                              *)
LEMMA Allocated ==
    ASSUME StringNumbers, NEW w, Good(w, {}, {}), NEW g \in Managers, NEW k \in Sizes
    PROVE  LET t == Allocate(w, g, k)
           IN  \/ t = [world |-> w, buffer |-> NULL]
               \/ /\ t = [world |-> t.world, buffer |-> t.buffer]
                  /\ t.buffer \in AddressSpace
                  /\ Good(t.world, {t.buffer}, {})
                  /\ SameUsed(w, t.world)
                  /\ t.world.size[t.buffer] = k
  <1> DEFINE t == Allocate(w, g, k)
             first(j) == FirstItem(w.mem, Free(g, j))
             larger == {i \in DOMAIN CutFrom(k) : first(CutFrom(k)[i]) # NULL}
             from == CutFrom(k)[CHOOSE i \in larger : \A j \in larger : i <= j]
             block == first(from)
             u == [TakeFrom(w, g, from) EXCEPT !.size = [w.size EXCEPT ![block] = k]]
  <1>1. t = IF first(k) # NULL THEN [world |-> TakeFrom(w, g, k), buffer |-> first(k)]
            ELSE IF larger = {} THEN [world |-> w, buffer |-> NULL]
            ELSE [world |-> AddPieces(u, g, k, block, Pieces - 1), buffer |-> block]
    BY DEF Allocate
  <1>2. CASE first(k) # NULL
    <2>1. t = [world |-> TakeFrom(w, g, k), buffer |-> first(k)]
      BY <1>1, <1>2
    <2> HIDE DEF t
    <2>2. PICK v, a : v = TakeFrom(w, g, k) /\ a = FirstItem(w.mem, Free(g, k))
      OBVIOUS
    <2>3. a \in AddressSpace /\ Good(v, {a}, {}) /\ SameUsed(w, v)
          /\ v = [mem |-> v.mem, refs |-> w.refs, size |-> w.size, crashed |-> FALSE]
          /\ w.size[a] = k
      BY <1>2, <2>2, TakenFrom
    <2>4. t.world = v /\ t.buffer = a /\ t = [world |-> t.world, buffer |-> t.buffer]
      BY <2>1, <2>2
    <2>5. v.size = w.size
      BY <2>3
    <2> QED
      BY <2>3, <2>4, <2>5 DEF t
  <1>3. CASE first(k) = NULL /\ larger = {}
    BY <1>1, <1>3
  <1>4. CASE first(k) = NULL /\ larger # {}
    <2>1. t = [world |-> AddPieces(u, g, k, block, Pieces - 1), buffer |-> block]
      BY <1>1, <1>4
    <2>2. \E i \in larger : \A j \in larger : i <= j
      <3>1. larger \subseteq Nat
        BY LargerPools
      <3>2. larger \subseteq 1 .. 2
        BY DEF CutFrom, Sizes
      <3> HIDE DEF larger
      <3>3. CASE 1 \in larger
        BY <3>2, <3>3
      <3>4. CASE 1 \notin larger
        <4>1. PICK x : x \in larger
          BY <1>4
        <4>2. 2 \in larger /\ \A j \in larger : j = 2
          BY <3>2, <3>4, <4>1
        <4> QED
          BY <4>2
      <3> QED
        BY <3>3, <3>4
    <2>3. \E i \in larger : from = CutFrom(k)[i]
      <3> HIDE DEF larger
      <3> QED
        BY <2>2
    <2>4. from \in Sizes /\ from >= 512 /\ k < 512 /\ first(from) # NULL
      BY <2>3, LargerPools
    <2> HIDE DEF from
    <2>5. PICK v : v = TakeFrom(w, g, from)
      OBVIOUS
    <2> DEFINE spare == (block + 1) .. (block + Pieces - 1)
    <2>6. /\ block \in AddressSpace
          /\ Good(v, {block}, {})
          /\ SameUsed(w, v)
          /\ v = [mem |-> v.mem, refs |-> w.refs, size |-> w.size, crashed |-> FALSE]
          /\ w.size[block] = from
      BY <2>4, <2>5, TakenFrom
    <2> HIDE DEF block
    <2>7. u = [mem |-> v.mem, refs |-> w.refs, size |-> [w.size EXCEPT ![block] = k],
               crashed |-> FALSE]
      <3>1. u = [v EXCEPT !.size = [w.size EXCEPT ![block] = k]]
        BY <2>5
      <3> HIDE DEF u
      <3>2. PICK p, r, z : p = v.mem /\ r = w.refs /\ z = w.size
        OBVIOUS
      <3>3. v = [mem |-> p, refs |-> r, size |-> z, crashed |-> FALSE]
        BY <2>6, <3>2
      <3>4. u = [v EXCEPT !.size = [z EXCEPT ![block] = k]]
        BY <3>1, <3>2
      <3>5. u = [mem |-> p, refs |-> r, size |-> [z EXCEPT ![block] = k], crashed |-> FALSE]
        BY <3>3, <3>4
      <3> QED
        BY <3>2, <3>5
    <2> HIDE DEF u
    <2>8. u.mem = v.mem /\ u.refs = w.refs /\ u.size = [w.size EXCEPT ![block] = k]
      BY <2>7
    <2>9. block \in Int /\ k \in Int /\ Pieces \in Nat \ {0}
      BY <2>6 DEF StringNumbers, Sizes
    <2>10. /\ w.size \in [AddressSpace -> Int] /\ w.refs \in [AddressSpace -> Int]
           /\ v.mem \in MemoryOf(AddressSpace, Lists)
      BY <2>6 DEF Good, Worlds
    <2>11. u \in Worlds
      BY <2>7, <2>9, <2>10 DEF Worlds
    <2>12. \A b \in Listed(v.mem) : b \in AddressSpace /\ b # block
      BY <2>6 DEF Good, Listed
    <2>13. /\ \A b \in Listed(v.mem) : u.size[b] = w.size[b]
           /\ u.size[block] = k
      BY <2>6, <2>8, <2>10, <2>12
    <2>14. v.size = w.size
      BY <2>6
    <2>15. Room(w.size[block], block) = {block} \cup spare
      BY <2>4, <2>6, <2>9 DEF Room
    <2>16. Room(k, block) = {block} /\ block \notin spare
      BY <2>4, <2>9 DEF Room
    <2> HIDE DEF spare
    <2>17. spare \subseteq AddressSpace
           /\ \A b \in Listed(v.mem) : /\ Room(w.size[b], b) \cap spare = {}
                                       /\ Room(w.size[b], b) \cap {block} = {}
                                       /\ Room(w.size[b], b) \subseteq AddressSpace
      <3>1. Room(w.size[block], block) \subseteq AddressSpace
        BY <2>6, <2>14 DEF Good
      <3>2. \A b \in Listed(v.mem) : Room(w.size[b], b) \cap Room(w.size[block], block) = {}
        BY <2>6, <2>12, <2>14 DEF Good
      <3>3. \A b \in Listed(v.mem) : Room(w.size[b], b) \subseteq AddressSpace
        BY <2>6, <2>14 DEF Good
      <3> QED
        BY <2>15, <3>1, <3>2, <3>3
    <2>18. Good(u, {block}, spare)
      <3>1. \A l \in Lists : \A b \in Items(u.mem, l) : u.size[b] = l[2]
        <4> SUFFICES ASSUME NEW l \in Lists, NEW b \in Items(u.mem, l)
                     PROVE  u.size[b] = l[2]
          OBVIOUS
        <4>1. b \in Items(v.mem, l)
          BY <2>8
        <4>2. b \in AddressSpace
          BY <2>6, <4>1, FirstItemOfList DEF Good, ListsApart, StringNumbers
        <4>3. b \in Listed(v.mem)
          BY <4>1, <4>2 DEF Listed
        <4>4. v.size[b] = l[2]
          BY <2>6, <4>1 DEF Good
        <4> QED
          BY <2>13, <2>14, <4>3, <4>4
      <3>2. \A b \in Listed(u.mem) \cup {block} :
               Room(u.size[b], b) \subseteq AddressSpace /\ Room(u.size[b], b) \cap spare = {}
        BY <2>6, <2>8, <2>13, <2>16, <2>17
      <3>3. \A b, c \in Listed(u.mem) \cup {block} :
               b # c => Room(u.size[b], b) \cap Room(u.size[c], c) = {}
        <4> SUFFICES ASSUME NEW b \in Listed(v.mem) \cup {block}, NEW c \in Listed(v.mem) \cup {block},
                            b # c
                     PROVE  Room(u.size[b], b) \cap Room(u.size[c], c) = {}
          BY <2>8
        <4>1. CASE b = block
          BY <2>13, <2>16, <2>17, <4>1
        <4>2. CASE c = block
          BY <2>13, <2>16, <2>17, <4>2
        <4>3. CASE b # block /\ c # block
          <5>1. Room(v.size[b], b) \cap Room(v.size[c], c) = {}
            BY <2>6 DEF Good
          <5> QED
            BY <2>13, <2>14, <4>3, <5>1
        <4> QED
          BY <4>1, <4>2, <4>3
      <3>4. ListsApart(u.mem) /\ block \notin Listed(u.mem)
        BY <2>6, <2>8 DEF Good
      <3> QED
        BY <2>6, <2>11, <2>17, <3>1, <3>2, <3>3, <3>4 DEF Good
    <2>19. Grown(u, AddPieces(u, g, k, block, Pieces - 1), {block}, {})
      BY <2>4, <2>9, <2>18, BufferCut DEF spare
    <2>20. SameUsed(w, u)
      BY <2>6, <2>8 DEF SameUsed
    <2> HIDE DEF t
    <2>21. t.world = AddPieces(u, g, k, block, Pieces - 1) /\ t.buffer = block
      BY <2>1
    <2>22. SameUsed(w, t.world)
      BY <2>19, <2>20, <2>21, SameUsedIsTransitive DEF Grown
    <2>23. Good(t.world, {t.buffer}, {}) /\ t.world.size[t.buffer] = k
      BY <2>13, <2>19, <2>21 DEF Grown
    <2>24. t = [world |-> t.world, buffer |-> t.buffer] /\ t.buffer \in AddressSpace
      BY <2>1, <2>6, <2>21
    <2> QED
      BY <2>22, <2>23, <2>24 DEF t
  <1> QED
    BY <1>2, <1>3, <1>4

\* f is a function of the strings.
OverStrings(f) == f = [s \in Strings |-> f[s]]

\* f with string s set to h.
Changed(f, s, h) == [f EXCEPT ![s] = h]

HoldersIn(f, a) == {s \in Strings : f[s].buffer = a}

\* String s of f is no object, is empty, or holds a buffer of its manager in
\* use, of the pool its length is both put in and looked for in.
HoldsWell(w, f, s) ==
    LET a == f[s].buffer
        n == f[s].length
    IN  /\ f[s] = [buffer |-> a, length |-> n]
        /\ a = NULL => n \in {0, -1}
        /\ a # NULL => /\ n \in Nat /\ n <= 1024 /\ n < PoolToAllocate(n)
                       /\ a \in Items(w.mem, Used(ManagerOf[s], PoolToAllocate(n)))

\* The buffers in use are held, by as many strings as they count.
CountsRight(w, f) ==
    \A a \in Busy(w.mem) : HoldersIn(f, a) # {} /\ w.refs[a] = Cardinality(HoldersIn(f, a))

Full(w, f) ==
    /\ Good(w, {}, {})
    /\ OverStrings(f)
    /\ \A s \in Strings : HoldsWell(w, f, s)
    /\ CountsRight(w, f)

(* Who holds a buffer when a string changes. *)
LEMMA HoldersChange ==
    ASSUME NEW f, OverStrings(f), NEW s \in Strings, NEW h, NEW g, g = Changed(f, s, h), NEW a
    PROVE  HoldersIn(g, a) = IF h.buffer = a THEN HoldersIn(f, a) \cup {s} ELSE HoldersIn(f, a) \ {s}
  <1>1. \A x \in Strings : g[x] = IF x = s THEN h ELSE f[x]
    BY DEF OverStrings, Changed
  <1>2. \A x \in Strings : g[x].buffer = a <=> IF x = s THEN h.buffer = a ELSE f[x].buffer = a
    BY <1>1
  <1>3. \A x : /\ x \in HoldersIn(g, a) <=> x \in Strings /\ g[x].buffer = a
               /\ x \in HoldersIn(f, a) <=> x \in Strings /\ f[x].buffer = a
    BY DEF HoldersIn
  <1>4. CASE h.buffer = a
    <2>1. \A x : x \in HoldersIn(g, a) <=> x \in HoldersIn(f, a) \/ x = s
      BY <1>2, <1>3, <1>4
    <2> QED
      BY <1>4, <2>1
  <1>5. CASE h.buffer # a
    <2>1. \A x : x \in HoldersIn(g, a) <=> x \in HoldersIn(f, a) /\ x # s
      BY <1>2, <1>3, <1>5
    <2> QED
      BY <1>5, <2>1
  <1> QED
    BY <1>4, <1>5

(* The holders are finitely many. *)
LEMMA HoldersAreFinite ==
    ASSUME StringNumbers, NEW f, NEW a
    PROVE  IsFiniteSet(HoldersIn(f, a)) /\ Cardinality(HoldersIn(f, a)) \in Nat
  <1>1. IsFiniteSet(Strings) /\ HoldersIn(f, a) \subseteq Strings
    BY DEF StringNumbers, HoldersIn
  <1>2. IsFiniteSet(HoldersIn(f, a))
    BY <1>1, FS_Subset
  <1> QED
    BY <1>2, FS_CardinalityType

(* A buffer a string holds is in use. *)
LEMMA HeldIsBusy ==
    ASSUME StringNumbers, NEW w, NEW f, Full(w, f), NEW s \in Strings, f[s].buffer # NULL
    PROVE  /\ f[s].buffer \in AddressSpace
           /\ f[s].buffer \in Busy(w.mem) /\ f[s].buffer \in Listed(w.mem)
           /\ f[s].length \in Nat /\ f[s].length < 1024
           /\ PoolToDelete(f[s].length) = PoolToAllocate(f[s].length)
           /\ Used(ManagerOf[s], PoolToAllocate(f[s].length)) \in Lists
           /\ f[s].buffer \in Items(w.mem, Used(ManagerOf[s], PoolToAllocate(f[s].length)))
  <1> DEFINE n == f[s].length
             a == f[s].buffer
             l == Used(ManagerOf[s], PoolToAllocate(n))
  <1>1. n \in Nat /\ n <= 1024 /\ n < PoolToAllocate(n) /\ a \in Items(w.mem, l)
    BY DEF Full, HoldsWell
  <1> HIDE DEF n, a
  <1>2. PoolToAllocate(n) \in Sizes /\ n < 1024 /\ PoolToDelete(n) = PoolToAllocate(n)
    BY <1>1, PoolOfLength
  <1>3. ManagerOf[s] \in Managers
    BY DEF Managers
  <1>4. l \in Lists /\ IsUsed(l)
    BY <1>2, <1>3, ListNames
  <1> HIDE DEF l
  <1>5. ListsApart(w.mem)
    BY DEF Full, Good
  <1>6. a \in AddressSpace
    BY <1>1, <1>4, <1>5, FirstItemOfList DEF ListsApart, StringNumbers
  <1>7. a \in Busy(w.mem) /\ a \in Listed(w.mem)
    BY <1>1, <1>4, <1>6 DEF Busy, Listed
  <1> QED
    BY <1>1, <1>2, <1>4, <1>6, <1>7 DEF n, a, l

(* Changing counts changes no list and no size. *)
LEMMA CountsAlone ==
    ASSUME NEW w, Good(w, {}, {}), NEW v, NEW r \in [AddressSpace -> Int],
           v = [mem |-> w.mem, refs |-> r, size |-> w.size, crashed |-> FALSE]
    PROVE  Good(v, {}, {})
  <1>1. w.mem \in MemoryOf(AddressSpace, Lists) /\ w.size \in [AddressSpace -> Int]
    BY DEF Good, Worlds
  <1>2. v.mem = w.mem /\ v.size = w.size /\ v \in Worlds
    BY <1>1 DEF Worlds
  <1> QED
    BY <1>2 DEF Good

(* A string that gives up its buffer: the count goes down, and the last one *)
(* puts the buffer back on the free list it came from.                     *)
LEMMA GivesUp ==
    ASSUME StringNumbers, NEW w, NEW f, Full(w, f), NEW s \in Strings, f[s].buffer # NULL,
           NEW h \in {Gone, NoString}
    PROVE  Full(DeleteStringReference(w, ManagerOf[s], f[s].buffer, f[s].length),
                Changed(f, s, h))
  <1> DEFINE n == f[s].length
             g == Changed(f, s, h)
  <1>1. PICK a, k, l, c :
            /\ a = f[s].buffer /\ k = PoolToDelete(n) /\ l = Used(ManagerOf[s], k)
            /\ c = Free(ManagerOf[s], k)
    OBVIOUS
  <1>2. /\ a \in AddressSpace /\ a \in Busy(w.mem) /\ a \in Listed(w.mem)
        /\ n \in Nat /\ n < 1024 /\ k = PoolToAllocate(n) /\ k \in Sizes
        /\ l \in Lists /\ a \in Items(w.mem, l)
    <2>1. /\ a \in AddressSpace /\ a \in Busy(w.mem) /\ a \in Listed(w.mem)
          /\ n \in Nat /\ n < 1024 /\ k = PoolToAllocate(n)
          /\ l \in Lists /\ a \in Items(w.mem, l)
      BY <1>1, HeldIsBusy
    <2>2. n <= 1024
      BY <2>1
    <2> HIDE DEF n
    <2> QED
      BY <2>1, <2>2, PoolOfLength
  <1>3. ManagerOf[s] \in Managers
    BY DEF Managers
  <1>4. IsUsed(l) /\ l[2] = k /\ c \in Lists /\ ~IsUsed(c) /\ c[2] = k /\ c # l
    BY <1>1, <1>2, <1>3, ListNames
  <1>5. Good(w, {}, {}) /\ CountsRight(w, f) /\ (\A x \in Strings : HoldsWell(w, f, x))
        /\ OverStrings(f)
    BY DEF Full
  <1>6. /\ w \in Worlds /\ ListsApart(w.mem) /\ w.refs \in [AddressSpace -> Int]
        /\ w.size \in [AddressSpace -> Int] /\ w.crashed = FALSE
        /\ w = [mem |-> w.mem, refs |-> w.refs, size |-> w.size, crashed |-> FALSE]
    BY <1>5 DEF Good, Worlds
  <1>7. \A x \in Strings : g[x] = IF x = s THEN h ELSE f[x]
    BY <1>5 DEF OverStrings, Changed
  <1>8. OverStrings(g)
    BY <1>5 DEF OverStrings, Changed
  <1>9. h.buffer = NULL /\ h = [buffer |-> h.buffer, length |-> h.length] /\ h.length \in {0, -1}
    BY DEF Gone, NoString
  <1>10. NULL \notin AddressSpace
    BY DEF StringNumbers
  <1>11. \A b \in AddressSpace : HoldersIn(g, b) = HoldersIn(f, b) \ {s}
    <2> SUFFICES ASSUME NEW b \in AddressSpace
                 PROVE  HoldersIn(g, b) = HoldersIn(f, b) \ {s}
      OBVIOUS
    <2>1. HoldersIn(g, b) = IF h.buffer = b THEN HoldersIn(f, b) \cup {s} ELSE HoldersIn(f, b) \ {s}
      BY <1>5, HoldersChange
    <2> QED
      BY <1>9, <1>10, <2>1
  <1>12. s \in HoldersIn(f, a) /\ \A b : b # a => s \notin HoldersIn(f, b)
    BY <1>1 DEF HoldersIn
  <1>13. /\ \A b \in AddressSpace : b # a => HoldersIn(g, b) = HoldersIn(f, b)
         /\ HoldersIn(g, a) = HoldersIn(f, a) \ {s}
    BY <1>2, <1>11, <1>12
  <1>14. /\ IsFiniteSet(HoldersIn(f, a)) /\ IsFiniteSet(HoldersIn(g, a))
         /\ Cardinality(HoldersIn(f, a)) \in Nat /\ Cardinality(HoldersIn(g, a)) \in Nat
    BY HoldersAreFinite
  <1>15. Cardinality(HoldersIn(g, a)) = Cardinality(HoldersIn(f, a)) - 1
    BY <1>12, <1>13, <1>14, FS_RemoveElement
  <1>16. w.refs[a] = Cardinality(HoldersIn(f, a))
    BY <1>2, <1>5 DEF CountsRight
  <1>17. /\ ~IsUsed(l) \/ a \in Listed(w.mem)
         /\ \A b \in Busy(w.mem) : b \in AddressSpace
    BY <1>2 DEF Busy
  <1> DEFINE v == DeleteStringReference(w, ManagerOf[s], f[s].buffer, f[s].length)
             r == [w.refs EXCEPT ![a] = w.refs[a] - 1]
             less == [w EXCEPT !.refs = r]
  <1>18. v = IF r[a] > 0 THEN less
             ELSE [less EXCEPT !.mem = Add(Delete(w.mem, l, a), c, a)]
    <2>1. less.refs = r
      BY <1>6
    <2> QED
      BY <1>1, <1>2, <2>1 DEF DeleteStringReference
  <1>19. r \in [AddressSpace -> Int] /\ r[a] = Cardinality(HoldersIn(g, a))
         /\ \A b \in AddressSpace : b # a => r[b] = w.refs[b]
    BY <1>2, <1>6, <1>14, <1>15, <1>16
  <1>20. less = [mem |-> w.mem, refs |-> r, size |-> w.size, crashed |-> FALSE]
    <2> HIDE DEF r
    <2>1. PICK p, q, z : p = w.mem /\ q = w.refs /\ z = w.size
      OBVIOUS
    <2>2. w = [mem |-> p, refs |-> q, size |-> z, crashed |-> FALSE]
      BY <1>6, <2>1
    <2>3. less = [[mem |-> p, refs |-> q, size |-> z, crashed |-> FALSE] EXCEPT !.refs = r]
      BY <2>2
    <2> HIDE DEF less
    <2> QED
      BY <2>1, <2>3
  <1> HIDE DEF v, r, less, g
  <1>21. ASSUME NEW b \in AddressSpace, b # a, b \in Busy(w.mem)
         PROVE  HoldersIn(g, b) # {} /\ r[b] = Cardinality(HoldersIn(g, b))
    BY <1>5, <1>13, <1>19, <1>21 DEF CountsRight
  <1>22. CASE r[a] > 0
    <2>1. v = [mem |-> w.mem, refs |-> r, size |-> w.size, crashed |-> FALSE]
      BY <1>18, <1>20, <1>22
    <2>2. v.mem = w.mem /\ v.refs = r /\ Good(v, {}, {})
      BY <1>5, <1>19, <2>1, CountsAlone
    <2>3. HoldersIn(g, a) # {}
      <3>1. Cardinality(HoldersIn(g, a)) # 0
        BY <1>14, <1>19, <1>22
      <3> QED
        BY <3>1, FS_EmptySet
    <2>4. CountsRight(v, g)
      BY <1>17, <1>19, <1>21, <2>2, <2>3 DEF CountsRight
    <2>5. ASSUME NEW x \in Strings
          PROVE  HoldsWell(v, g, x)
      <3>1. CASE x = s
        BY <1>7, <1>9, <3>1 DEF HoldsWell
      <3>2. CASE x # s
        BY <1>5, <1>7, <2>2, <3>2 DEF HoldsWell
      <3> QED
        BY <3>1, <3>2
    <2> QED
      BY <1>8, <2>2, <2>4, <2>5 DEF Full, v, g
  <1>23. CASE ~(r[a] > 0)
    <2>1. HoldersIn(g, a) = {}
      <3>1. Cardinality(HoldersIn(g, a)) = 0
        BY <1>14, <1>19, <1>23
      <3> QED
        BY <1>14, <3>1, FS_EmptySet
    <2>2. PICK d : d = Delete(w.mem, l, a)
      OBVIOUS
    <2>3. ListsApart(d)
          /\ \A j \in Lists : Items(d, j) = IF j = l THEN Items(w.mem, l) \ {a} ELSE Items(w.mem, j)
      BY <1>2, <1>4, <1>6, <2>2, BufferDeleted
    <2>4. \A j \in Lists : a \notin Items(d, j)
      <3>1. \A j \in Lists : j # l => Items(w.mem, j) \cap Items(w.mem, l) = {}
        BY <1>2, <1>6 DEF ListsApart
      <3> QED
        BY <1>2, <2>3, <3>1
    <2>5. PICK p : p = Add(d, c, a)
      OBVIOUS
    <2>6. ListsApart(p)
          /\ \A j \in Lists : Items(p, j) = IF j = c THEN Items(d, c) \cup {a} ELSE Items(d, j)
      <3>1. a \notin Listed(d)
        BY <2>4 DEF Listed
      <3> QED
        BY <1>2, <1>4, <2>3, <2>5, <3>1, BufferAdded
    <2>7. \A j \in Lists : Items(p, j) = IF j = c THEN Items(w.mem, c) \cup {a}
                                         ELSE IF j = l THEN Items(w.mem, l) \ {a}
                                         ELSE Items(w.mem, j)
      BY <1>4, <2>3, <2>6
    <2>8. v = [mem |-> p, refs |-> r, size |-> w.size, crashed |-> FALSE]
      <3>1. v = [less EXCEPT !.mem = p]
        BY <1>18, <1>23, <2>2, <2>5
      <3> QED
        BY <1>20, <3>1
    <2>9. v.mem = p /\ v.refs = r /\ v.size = w.size
      BY <2>8
    <2>10. v \in Worlds
      BY <1>6, <1>19, <2>6, <2>8 DEF Worlds, ListsApart
    <2>11. Listed(p) = Listed(w.mem)
      <3>1. \A b \in AddressSpace : (\E j \in Lists : b \in Items(p, j))
                                       <=> (\E j \in Lists : b \in Items(w.mem, j))
        <4> SUFFICES ASSUME NEW b \in AddressSpace
                     PROVE  (\E j \in Lists : b \in Items(p, j))
                              <=> (\E j \in Lists : b \in Items(w.mem, j))
          OBVIOUS
        <4>1. CASE b = a
          <5>1. a \in Items(p, c) /\ a \in Items(w.mem, l)
            BY <1>2, <1>4, <2>7
          <5> QED
            BY <1>2, <1>4, <4>1, <5>1
        <4>2. CASE b # a
          <5>1. \A j \in Lists : b \in Items(p, j) <=> b \in Items(w.mem, j)
            BY <2>7, <4>2
          <5> QED
            BY <5>1
        <4> QED
          BY <4>1, <4>2
      <3> QED
        BY <3>1 DEF Listed
    <2>12. \A j \in Lists : \A b \in Items(p, j) : w.size[b] = j[2]
      <3>1. w.size[a] = k
        BY <1>2, <1>4, <1>5 DEF Good
      <3>2. \A j \in Lists : \A b \in Items(w.mem, j) : w.size[b] = j[2]
        BY <1>5 DEF Good
      <3> SUFFICES ASSUME NEW j \in Lists, NEW b \in Items(p, j)
                   PROVE  w.size[b] = j[2]
        OBVIOUS
      <3>3. CASE j = c
        BY <1>4, <2>7, <3>1, <3>2, <3>3
      <3>4. CASE j # c
        BY <2>7, <3>2, <3>4
      <3> QED
        BY <3>3, <3>4
    <2>13. Good(v, {}, {})
      BY <1>5, <2>6, <2>9, <2>10, <2>11, <2>12 DEF Good
    <2>14. \A b \in AddressSpace : b \in Busy(p) => b \in Busy(w.mem) /\ b # a
      <3> SUFFICES ASSUME NEW b \in AddressSpace, NEW j \in Lists, IsUsed(j), b \in Items(p, j)
                   PROVE  b \in Busy(w.mem) /\ b # a
        BY DEF Busy
      <3>1. b \in Items(d, j)
        BY <1>4, <2>6
      <3>2. b # a /\ b \in Items(w.mem, j)
        BY <2>3, <2>4, <3>1
      <3> QED
        BY <3>2 DEF Busy
    <2>15. CountsRight(v, g)
      <3>1. \A b \in Busy(p) : b \in AddressSpace
        BY DEF Busy
      <3> QED
        BY <1>21, <2>9, <2>14, <3>1 DEF CountsRight
    <2>16. ASSUME NEW x \in Strings
           PROVE  HoldsWell(v, g, x)
      <3>1. CASE x = s
        BY <1>7, <1>9, <3>1 DEF HoldsWell
      <3>2. CASE x # s
        <4>1. f[x].buffer # a
          BY <1>13, <2>1, <3>2 DEF HoldersIn
        <4>2. CASE f[x].buffer = NULL
          BY <1>5, <1>7, <3>2, <4>2 DEF HoldsWell
        <4>3. CASE f[x].buffer # NULL
          <5> DEFINE j == Used(ManagerOf[x], PoolToAllocate(f[x].length))
          <5>1. j \in Lists /\ f[x].buffer \in Items(w.mem, j)
            BY <4>3, HeldIsBusy
          <5>2. IsUsed(j)
            BY DEF IsUsed, Used
          <5> HIDE DEF j
          <5>3. f[x].buffer \in Items(p, j)
            BY <1>4, <2>7, <4>1, <5>1, <5>2
          <5> QED
            BY <1>5, <1>7, <2>9, <3>2, <4>3, <5>3 DEF HoldsWell, j
        <4> QED
          BY <4>2, <4>3
      <3> QED
        BY <3>1, <3>2
    <2> QED
      BY <1>8, <2>13, <2>15, <2>16 DEF Full, v, g
  <1> QED
    BY <1>22, <1>23

(* A string that held nothing shares the buffer of another one. *)
LEMMA Shares ==
    ASSUME StringNumbers, NEW w, NEW f, Full(w, f), NEW s \in Strings, NEW t \in Strings,
           f[s].buffer = NULL, f[t].buffer # NULL, ManagerOf[s] = ManagerOf[t]
    PROVE  Full(AddStringReferenceCount(w, f[t].buffer), Changed(f, s, f[t]))
  <1> DEFINE g == Changed(f, s, f[t])
             v == AddStringReferenceCount(w, f[t].buffer)
  <1>1. PICK a : a = f[t].buffer
    OBVIOUS
  <1>2. a \in AddressSpace /\ a \in Busy(w.mem)
    BY <1>1, HeldIsBusy
  <1>3. Good(w, {}, {}) /\ CountsRight(w, f) /\ (\A x \in Strings : HoldsWell(w, f, x))
        /\ OverStrings(f)
    BY DEF Full
  <1>4. w \in Worlds
    BY <1>3 DEF Good
  <1>5. PICK p, q, z : p = w.mem /\ q = w.refs /\ z = w.size
    OBVIOUS
  <1>6. w = [mem |-> p, refs |-> q, size |-> z, crashed |-> FALSE]
    BY <1>4, <1>5 DEF Worlds
  <1>7. q \in [AddressSpace -> Int]
    BY <1>4, <1>5 DEF Worlds
  <1> DEFINE r == [q EXCEPT ![a] = q[a] + 1]
  <1>8. v = [w EXCEPT !.refs = r]
    BY <1>1, <1>2, <1>5, StringNumbers DEF AddStringReferenceCount, StringNumbers
  <1>9. r \in [AddressSpace -> Int] /\ r[a] = q[a] + 1
        /\ \A b \in AddressSpace : b # a => r[b] = q[b]
    BY <1>2, <1>7
  <1> HIDE DEF r, v
  <1>10. v = [mem |-> p, refs |-> r, size |-> z, crashed |-> FALSE]
    BY <1>6, <1>8
  <1>11. Good(v, {}, {}) /\ v.mem = w.mem /\ v.refs = r
    BY <1>3, <1>5, <1>9, <1>10, CountsAlone
  <1>12. OverStrings(g) /\ \A x \in Strings : g[x] = IF x = s THEN f[t] ELSE f[x]
    BY <1>3 DEF OverStrings, Changed
  <1>13. \A b : HoldersIn(g, b) = IF b = a THEN HoldersIn(f, b) \cup {s} ELSE HoldersIn(f, b) \ {s}
    <2>1. PICK h : h = f[t]
      OBVIOUS
    <2>2. g = Changed(f, s, h)
      BY <2>1
    <2> HIDE DEF g
    <2>3. \A b : HoldersIn(g, b) = IF h.buffer = b THEN HoldersIn(f, b) \cup {s}
                                   ELSE HoldersIn(f, b) \ {s}
      BY <1>3, <2>2, HoldersChange
    <2> QED
      BY <1>1, <2>1, <2>3
  <1> HIDE DEF g
  <1>14. \A b \in AddressSpace : s \notin HoldersIn(f, b)
    BY DEF HoldersIn, StringNumbers
  <1>15. /\ \A b \in AddressSpace : b # a => HoldersIn(g, b) = HoldersIn(f, b)
         /\ HoldersIn(g, a) = HoldersIn(f, a) \cup {s}
    BY <1>2, <1>13, <1>14
  <1>16. IsFiniteSet(HoldersIn(f, a)) /\ Cardinality(HoldersIn(f, a)) \in Nat
    BY HoldersAreFinite
  <1>17. Cardinality(HoldersIn(g, a)) = Cardinality(HoldersIn(f, a)) + 1
    BY <1>2, <1>14, <1>15, <1>16, FS_AddElement
  <1>18. q[a] = Cardinality(HoldersIn(f, a))
    BY <1>2, <1>3, <1>5 DEF CountsRight
  <1>19. CountsRight(v, g)
    <2> SUFFICES ASSUME NEW b \in Busy(w.mem)
                 PROVE  HoldersIn(g, b) # {} /\ r[b] = Cardinality(HoldersIn(g, b))
      BY <1>11 DEF CountsRight
    <2>1. b \in AddressSpace
      BY DEF Busy
    <2>2. CASE b = a
      BY <1>9, <1>15, <1>17, <1>18, <2>2
    <2>3. CASE b # a
      BY <1>3, <1>5, <1>9, <1>15, <2>1, <2>3 DEF CountsRight
    <2> QED
      BY <2>2, <2>3
  <1>20. ASSUME NEW x \in Strings
         PROVE  HoldsWell(v, g, x)
    <2>1. CASE x = s
      <3>1. HoldsWell(w, f, t)
        BY <1>3
      <3>2. g[x] = f[t] /\ ManagerOf[x] = ManagerOf[t]
        BY <1>12, <2>1
      <3> QED
        BY <1>11, <3>1, <3>2 DEF HoldsWell
    <2>2. CASE x # s
      BY <1>3, <1>11, <1>12, <2>2 DEF HoldsWell
    <2> QED
      BY <2>1, <2>2
  <1> QED
    BY <1>11, <1>12, <1>19, <1>20 DEF Full, v, g

(* A string that held nothing and is empty or destroyed stays without one. *)
LEMMA StaysWithout ==
    ASSUME StringNumbers, NEW w, NEW f, Full(w, f), NEW s \in Strings, f[s].buffer = NULL,
           NEW h \in {Gone, NoString}
    PROVE  Full(w, Changed(f, s, h))
  <1> DEFINE g == Changed(f, s, h)
  <1>1. Good(w, {}, {}) /\ CountsRight(w, f) /\ (\A x \in Strings : HoldsWell(w, f, x))
        /\ OverStrings(f)
    BY DEF Full
  <1>2. OverStrings(g) /\ \A x \in Strings : g[x] = IF x = s THEN h ELSE f[x]
    BY <1>1 DEF OverStrings, Changed
  <1>3. h.buffer = NULL /\ h = [buffer |-> h.buffer, length |-> h.length] /\ h.length \in {0, -1}
    BY DEF Gone, NoString
  <1> HIDE DEF g
  <1>4. \A b \in AddressSpace : HoldersIn(g, b) = HoldersIn(f, b)
    <2>1. \A x \in Strings : g[x].buffer = f[x].buffer
      BY <1>2, <1>3
    <2> QED
      BY <2>1 DEF HoldersIn
  <1>5. \A b \in Busy(w.mem) : b \in AddressSpace
    BY DEF Busy
  <1>6. CountsRight(w, g)
    BY <1>1, <1>4, <1>5 DEF CountsRight
  <1>7. ASSUME NEW x \in Strings
        PROVE  HoldsWell(w, g, x)
    <2>1. CASE x = s
      BY <1>2, <1>3, <2>1 DEF HoldsWell
    <2>2. CASE x # s
      BY <1>1, <1>2, <2>2 DEF HoldsWell
    <2> QED
      BY <2>1, <2>2
  <1> QED
    BY <1>1, <1>2, <1>6, <1>7 DEF Full, g

(* A string that held nothing is given n characters. *)
LEMMA IsGiven ==
    ASSUME StringNumbers, NEW w, NEW f, Full(w, f), NEW s \in Strings, f[s].buffer = NULL,
           NEW n \in Nat
    PROVE  LET t == AllocateString(w, ManagerOf[s], n)
           IN  \/ t.buffer = NULL
               \/ n = PoolToAllocate(n)
               \/ /\ Full(t.world, Changed(f, s, [buffer |-> t.buffer, length |-> n]))
                  /\ t.buffer # NULL
  <1> DEFINE t == AllocateString(w, ManagerOf[s], n)
             h == [buffer |-> t.buffer, length |-> n]
             g == Changed(f, s, h)
  <1>1. SUFFICES ASSUME t.buffer # NULL, n # PoolToAllocate(n)
                 PROVE  Full(t.world, g)
    OBVIOUS
  <1>2. PICK m, k, x : m = ManagerOf[s] /\ k = PoolToAllocate(n) /\ x = Allocate(w, m, k)
    OBVIOUS
  <1>3. t = IF n > 1024 \/ x.buffer = NULL THEN [world |-> w, buffer |-> NULL]
            ELSE [x EXCEPT !.world.mem = Add(x.world.mem, Used(m, k), x.buffer),
                           !.world.refs = [x.world.refs EXCEPT ![x.buffer] = 1]]
    BY <1>2 DEF AllocateString
  <1>4. n <= 1024 /\ x.buffer # NULL
    <2>1. CASE n > 1024
      BY <1>1, <1>3, <2>1
    <2>2. CASE x.buffer = NULL
      BY <1>1, <1>3, <2>2
    <2> QED
      BY <2>1, <2>2
  <1>5. k \in Sizes /\ n < k
    <2>1. k \in Int /\ n <= k /\ k \in Sizes
      BY <1>2, <1>4, PoolOfLength DEF Sizes
    <2> QED
      BY <1>1, <1>2, <2>1
  <1>6. m \in Managers
    BY <1>2 DEF Managers
  <1>7. Good(w, {}, {}) /\ CountsRight(w, f) /\ (\A y \in Strings : HoldsWell(w, f, y))
        /\ OverStrings(f)
    BY DEF Full
  <1>8. PICK u, b : u = x.world /\ b = x.buffer
    OBVIOUS
  <1>9. /\ x = [world |-> u, buffer |-> b]
        /\ b \in AddressSpace
        /\ Good(u, {b}, {}) /\ SameUsed(w, u) /\ u.size[b] = k
    <2>1. \/ x = [world |-> w, buffer |-> NULL]
          \/ /\ x = [world |-> x.world, buffer |-> x.buffer]
             /\ x.buffer \in AddressSpace
             /\ Good(x.world, {x.buffer}, {})
             /\ SameUsed(w, x.world)
             /\ x.world.size[x.buffer] = k
      BY <1>2, <1>5, <1>6, <1>7, Allocated
    <2> QED
      BY <1>4, <1>8, <2>1
  <1>10. PICK l : l = Used(m, k)
    OBVIOUS
  <1>11. l \in Lists /\ IsUsed(l) /\ l[2] = k
    BY <1>5, <1>6, <1>10, ListNames
  <1>12. PICK p : p = Add(u.mem, l, b)
    OBVIOUS
  <1>13. b \notin Listed(u.mem) /\ ListsApart(u.mem) /\ u \in Worlds
    BY <1>9 DEF Good
  <1>14. ListsApart(p)
         /\ \A j \in Lists : Items(p, j) = IF j = l THEN Items(u.mem, l) \cup {b} ELSE Items(u.mem, j)
    BY <1>9, <1>11, <1>12, <1>13, BufferAdded
  <1>15. PICK um, r, z : um = u.mem /\ r = [u.refs EXCEPT ![b] = 1] /\ z = u.size
    OBVIOUS
  <1>16. u = [mem |-> u.mem, refs |-> u.refs, size |-> u.size, crashed |-> FALSE]
         /\ u.refs \in [AddressSpace -> Int] /\ u.size \in [AddressSpace -> Int]
    BY <1>13 DEF Worlds
  <1>17. t.world = [mem |-> p, refs |-> r, size |-> z, crashed |-> FALSE] /\ t.buffer = b
    <2>1. PICK q : q = u.refs
      OBVIOUS
    <2>2. u = [mem |-> um, refs |-> q, size |-> z, crashed |-> FALSE]
      BY <1>15, <1>16, <2>1
    <2>3. t = [x EXCEPT !.world.mem = p, !.world.refs = r]
      BY <1>3, <1>4, <1>8, <1>10, <1>12, <1>15
    <2> HIDE DEF t
    <2>4. t = [[world |-> [mem |-> um, refs |-> q, size |-> z, crashed |-> FALSE], buffer |-> b]
                  EXCEPT !.world.mem = p, !.world.refs = r]
      BY <1>9, <2>2, <2>3
    <2>5. t = [world |-> [mem |-> p, refs |-> r, size |-> z, crashed |-> FALSE], buffer |-> b]
      BY <2>4
    <2> QED
      BY <2>5
  <1>18. PICK v : v = t.world
    OBVIOUS
  <1>19. v.mem = p /\ v.refs = r /\ v.size = u.size
    BY <1>15, <1>17, <1>18
  <1>20. r \in [AddressSpace -> Int] /\ r[b] = 1
         /\ \A c \in AddressSpace : c # b => r[c] = u.refs[c]
    BY <1>9, <1>15, <1>16
  <1>21. v \in Worlds
    BY <1>14, <1>15, <1>16, <1>17, <1>18, <1>20 DEF Worlds, ListsApart
  <1>22. Listed(p) = Listed(u.mem) \cup {b}
    BY <1>9, <1>11, <1>14 DEF Listed
  <1>23. Good(v, {}, {})
    <2>1. \A j \in Lists : \A c \in Items(p, j) : u.size[c] = j[2]
      <3>1. \A j \in Lists : \A c \in Items(u.mem, j) : u.size[c] = j[2]
        BY <1>9 DEF Good
      <3> QED
        BY <1>9, <1>11, <1>14, <3>1
    <2> QED
      BY <1>9, <1>14, <1>19, <1>21, <1>22, <2>1 DEF Good
  <1>24. h.buffer = b /\ h = [buffer |-> b, length |-> n]
    BY <1>17
  <1>25. OverStrings(g) /\ \A y \in Strings : g[y] = IF y = s THEN h ELSE f[y]
    BY <1>7 DEF OverStrings, Changed
  <1>26. \A c : HoldersIn(g, c) = IF c = b THEN HoldersIn(f, c) \cup {s} ELSE HoldersIn(f, c) \ {s}
    <2> HIDE DEF h
    <2>1. g = Changed(f, s, h)
      OBVIOUS
    <2> HIDE DEF g
    <2> QED
      BY <1>7, <1>24, <2>1, HoldersChange
  <1> HIDE DEF t, h, g
  <1>27. Busy(u.mem) = Busy(w.mem)
    BY <1>9 DEF SameUsed, Busy
  <1>28. b \notin Busy(w.mem)
    BY <1>13, <1>27 DEF Busy, Listed
  <1>29. \A c \in AddressSpace : s \notin HoldersIn(f, c)
    BY DEF HoldersIn, StringNumbers
  <1>30. HoldersIn(f, b) = {}
    <2> SUFFICES ASSUME NEW y \in Strings, f[y].buffer = b
                 PROVE  FALSE
      BY DEF HoldersIn
    <2>1. b # NULL
      BY <1>9 DEF StringNumbers
    <2> QED
      BY <1>28, <2>1, HeldIsBusy
  <1>31. HoldersIn(g, b) = {s} /\ Cardinality({s}) = 1
    BY <1>26, <1>30, FS_Singleton
  <1>32. \A c \in AddressSpace : c # b => HoldersIn(g, c) = HoldersIn(f, c)
    BY <1>26, <1>29
  <1>33. CountsRight(v, g)
    <2> SUFFICES ASSUME NEW c \in Busy(p)
                 PROVE  HoldersIn(g, c) # {} /\ r[c] = Cardinality(HoldersIn(g, c))
      BY <1>19 DEF CountsRight
    <2>1. c \in AddressSpace
      BY DEF Busy
    <2>2. CASE c = b
      BY <1>20, <1>31, <2>2
    <2>3. CASE c # b
      <3>1. c \in Busy(w.mem)
        BY <1>11, <1>14, <1>27, <2>3 DEF Busy
      <3>2. u.refs[c] = w.refs[c]
        BY <1>9, <3>1 DEF SameUsed
      <3> QED
        BY <1>7, <1>20, <1>32, <2>1, <2>3, <3>1, <3>2 DEF CountsRight
    <2> QED
      BY <2>2, <2>3
  <1>34. ASSUME NEW y \in Strings
         PROVE  HoldsWell(v, g, y)
    <2>1. CASE y = s
      <3>1. g[y] = [buffer |-> b, length |-> n]
        BY <1>24, <1>25, <2>1
      <3>2. b \in Items(p, Used(ManagerOf[y], PoolToAllocate(n)))
        BY <1>2, <1>10, <1>11, <1>14, <2>1
      <3>3. b # NULL
        BY <1>9 DEF StringNumbers
      <3> QED
        BY <1>2, <1>4, <1>5, <1>19, <3>1, <3>2, <3>3 DEF HoldsWell
    <2>2. CASE y # s
      <3>1. g[y] = f[y] /\ HoldsWell(w, f, y)
        BY <1>7, <1>25, <2>2
      <3>2. CASE f[y].buffer = NULL
        BY <3>1, <3>2 DEF HoldsWell
      <3>3. CASE f[y].buffer # NULL
        <4> DEFINE j == Used(ManagerOf[y], PoolToAllocate(f[y].length))
        <4>1. j \in Lists /\ f[y].buffer \in Items(w.mem, j)
          BY <3>3, HeldIsBusy
        <4>2. IsUsed(j)
          BY DEF IsUsed, Used
        <4> HIDE DEF j
        <4>3. f[y].buffer \in Items(p, j)
          BY <1>9, <1>11, <1>14, <4>1, <4>2 DEF SameUsed
        <4> QED
          BY <1>19, <3>1, <3>3, <4>3 DEF HoldsWell, j
      <3> QED
        BY <3>2, <3>3
    <2> QED
      BY <2>1, <2>2
  <1> QED
    BY <1>18, <1>23, <1>25, <1>33, <1>34 DEF Full

\* What holds of the strings until one of them fills its buffer.
StringInv == brimful \in Nat /\ (Sound => Full(World, str))

(* The arrays in a new manager. *)
LEMMA NothingAdded ==
    ASSUME StringNumbers
    PROVE  Good(NoBuffers, {}, AddressSpace) /\ Busy(NoBuffers.mem) = {}
  <1>1. NoBuffers \in Worlds
    <2>1. 0 \in Int
      OBVIOUS
    <2> QED
      BY <2>1 DEF NoBuffers, Worlds, MemoryOf
  <1>2. NoBuffers.mem \in MemoryOf(AddressSpace, Lists) /\ NULL \notin AddressSpace
    BY <1>1 DEF Worlds, StringNumbers
  <1>3. \A l \in Lists : NoBuffers.mem.head[l] = NULL /\ NoBuffers.mem.count[l] = 0
    BY DEF NoBuffers
  <1>4. \A l \in Lists : /\ WellFormed(NoBuffers.mem, l) /\ Items(NoBuffers.mem, l) = {}
                         /\ HeadIsFirst(NoBuffers.mem, l)
    BY <1>2, <1>3, EmptyList
  <1>5. ListsApart(NoBuffers.mem)
    BY <1>2, <1>4 DEF ListsApart
  <1>6. Listed(NoBuffers.mem) = {} /\ Busy(NoBuffers.mem) = {}
    BY <1>4 DEF Listed, Busy
  <1> QED
    BY <1>1, <1>4, <1>5, <1>6 DEF Good

(* Init adds the buffers of the arrays to the free lists. *)
LEMMA InitialIsGood ==
    ASSUME StringNumbers
    PROVE  Good(Initial, {}, {}) /\ Busy(Initial.mem) = {}
  <1> DEFINE n == Len(Buffers)
             gs == [i \in 1 .. n |-> Buffers[i].manager]
             ks == [i \in 1 .. n |-> Buffers[i].size]
             at == [i \in 1 .. n |-> Buffers[i].address]
             added == CHOOSE f : f = [i \in 0 .. n |->
                        IF i = 0 THEN NoBuffers
                        ELSE AddPiece(f[i - 1], Buffers[i].manager, Buffers[i].size, Buffers[i].address)]
  <1>1. n \in Nat /\ DOMAIN Buffers = 1 .. n
        /\ \A i \in 1 .. n : Buffers[i] \in [manager : Managers, size : Sizes, address : Int]
    <2>1. PICK B : B = [manager : Managers, size : Sizes, address : Int]
      OBVIOUS
    <2>2. Buffers \in Seq(B)
      BY <2>1 DEF StringNumbers
    <2>3. n \in Nat /\ DOMAIN Buffers = 1 .. n /\ \A i \in 1 .. n : Buffers[i] \in B
      BY <2>2
    <2> QED
      BY <2>1, <2>3
  <1>2. gs \in [1 .. n -> Managers] /\ ks \in [1 .. n -> Sizes] /\ at \in [1 .. n -> Int]
    <2> HIDE DEF n
    <2> QED
      BY <1>1
  <1>3. PICK f : IsAdded(f, NoBuffers, n, gs, ks, at)
    <2> HIDE DEF gs, ks, at, n
    <2> QED
      BY <1>1, AddedExists
  <1>4. \A h : IsAdded(h, NoBuffers, n, gs, ks, at) <=>
               h = [i \in 0 .. n |-> IF i = 0 THEN NoBuffers
                      ELSE AddPiece(h[i - 1], Buffers[i].manager, Buffers[i].size, Buffers[i].address)]
    <2> SUFFICES ASSUME NEW h
                 PROVE  [i \in 0 .. n |-> IF i = 0 THEN NoBuffers ELSE AddPiece(h[i - 1], gs[i], ks[i], at[i])]
                          = [i \in 0 .. n |-> IF i = 0 THEN NoBuffers
                              ELSE AddPiece(h[i - 1], Buffers[i].manager, Buffers[i].size, Buffers[i].address)]
      BY DEF IsAdded
    <2>1. \A i \in 0 .. n : i # 0 => i \in 1 .. n
      BY <1>1
    <2>2. \A i \in 1 .. n : gs[i] = Buffers[i].manager /\ ks[i] = Buffers[i].size
                            /\ at[i] = Buffers[i].address
      OBVIOUS
    <2> HIDE DEF gs, ks, at, n
    <2> QED
      BY <2>1, <2>2
  <1>5. IsAdded(added, NoBuffers, n, gs, ks, at)
    <2> HIDE DEF gs, ks, at, n
    <2> QED
      BY <1>3, <1>4
  <1>6. Initial = added[n]
    BY DEF Initial
  <1>7. \A i \in 1 .. n : ks[i] = Buffers[i].size /\ at[i] = Buffers[i].address
    OBVIOUS
  <1> HIDE DEF n, gs, ks, at, added
  <1>8. HaveRoom(ks, at, n, AddressSpace)
    BY <1>1, <1>7 DEF HaveRoom, StringNumbers
  <1>9. Good(NoBuffers, {}, AddressSpace) /\ Busy(NoBuffers.mem) = {}
    BY NothingAdded
  <1>10. Grown(NoBuffers, added[n], {}, {})
    BY <1>1, <1>2, <1>5, <1>8, <1>9, PiecesAdded
  <1>11. Busy(added[n].mem) = Busy(NoBuffers.mem)
    BY <1>10 DEF Grown, SameUsed, Busy
  <1> QED
    BY <1>6, <1>9, <1>10, <1>11 DEF Grown

(* At first no string is an object, and no buffer is in use. *)
LEMMA StringsStart ==
    ASSUME StringNumbers, StringInit
    PROVE  StringInv
  <1>1. Good(Initial, {}, {}) /\ Busy(Initial.mem) = {}
    BY InitialIsGood
  <1>2. Initial = [mem |-> Initial.mem, refs |-> Initial.refs, size |-> Initial.size, crashed |-> FALSE]
    BY <1>1 DEF Good, Worlds
  <1>3. World = Initial
    BY <1>2 DEF World, StringInit
  <1>4. OverStrings(str) /\ \A s \in Strings : str[s] = Gone
    BY DEF OverStrings, StringInit
  <1>5. \A s \in Strings : HoldsWell(World, str, s)
    BY <1>4 DEF HoldsWell, Gone
  <1>6. CountsRight(World, str)
    BY <1>1, <1>3 DEF CountsRight
  <1>7. brimful \in Nat
    BY DEF StringInit
  <1> QED
    BY <1>1, <1>3, <1>4, <1>5, <1>6, <1>7 DEF StringInv, Full

(* What an operation leaves is what World is after it. *)
LEMMA Becomes ==
    ASSUME brimful \in Nat, NEW w, NEW s \in Strings, NEW h, NEW fills \in BOOLEAN,
           Become(w, s, h, fills),
           brimful = 0 /\ ~fills => Full(w, Changed(str, s, h)) \/ w.crashed
    PROVE  StringInv'
  <1>1. brimful' \in Nat /\ (brimful' = 0 => brimful = 0 /\ ~fills)
    BY DEF Become
  <1>2. ASSUME Sound'
        PROVE  Full(World, str)'
    <2>1. Full(w, Changed(str, s, h))
      BY <1>1, <1>2 DEF Sound, Become
    <2>2. w = [mem |-> w.mem, refs |-> w.refs, size |-> w.size, crashed |-> w.crashed]
      BY <2>1 DEF Full, Good, Worlds
    <2>3. World' = w
      BY <2>2 DEF World, Become
    <2>4. str' = Changed(str, s, h)
      BY DEF Become, Changed
    <2>5. Full(World', str')
      BY <2>1, <2>3, <2>4
    <2> QED
      BY <2>5
  <1> QED
    BY <1>1, <1>2 DEF StringInv

(* A string that gives up what it holds. *)
LEMMA AfterRelease ==
    ASSUME StringNumbers, Full(World, str), NEW s \in Strings, NEW h \in {Gone, NoString}
    PROVE  Full(Released(s), Changed(str, s, h))
  <1>1. CASE str[s].buffer = NULL
    BY <1>1, StaysWithout DEF Released
  <1>2. CASE str[s].buffer # NULL
    BY <1>2, GivesUp DEF Released
  <1> QED
    BY <1>1, <1>2

\* f is str, but that s may have been emptied.
EmptiedAt(f, s) ==
    /\ f[s].buffer = NULL
    /\ \A h : Changed(f, s, h) = Changed(str, s, h)
    /\ \A t \in Strings : t # s => f[t] = str[t]

(* str itself where s holds nothing, and str with s emptied. *)
LEMMA Emptied ==
    ASSUME Full(World, str), NEW s \in Strings
    PROVE  /\ str[s].buffer = NULL => EmptiedAt(str, s)
           /\ EmptiedAt(Changed(str, s, NoString), s)
  <1>1. OverStrings(str)
    BY DEF Full
  <1> DEFINE f == Changed(str, s, NoString)
  <1>2. \A x \in Strings : f[x] = IF x = s THEN NoString ELSE str[x]
    BY <1>1 DEF Changed, OverStrings
  <1>3. f[s].buffer = NULL
    BY <1>2 DEF NoString
  <1>4. ASSUME NEW h
        PROVE  Changed(f, s, h) = Changed(str, s, h)
    BY <1>1 DEF Changed, OverStrings
  <1> HIDE DEF f
  <1>5. EmptiedAt(f, s)
    BY <1>2, <1>3, <1>4 DEF EmptiedAt
  <1> QED
    BY <1>5 DEF EmptiedAt, f

(* Give keeps the invariant. *)
LEMMA Gives ==
    ASSUME StringNumbers, brimful \in Nat, NEW w, NEW f, NEW s \in Strings, NEW n \in Nat,
           brimful = 0 => Full(w, f) /\ EmptiedAt(f, s),
           Give(w, s, n)
    PROVE  StringInv'
  <1>1. PICK t : t = AllocateString(w, ManagerOf[s], n)
    OBVIOUS
  <1> DEFINE fills == t.buffer # NULL /\ n = PoolToAllocate(n)
             held == [buffer |-> t.buffer, length |-> n]
  <1>2. CASE t.buffer = NULL
    <2>1. Become(w, s, NoString, FALSE)
      BY <1>1, <1>2 DEF Give
    <2>2. brimful = 0 => Full(w, Changed(str, s, NoString))
      <3> SUFFICES ASSUME brimful = 0
                   PROVE  Full(w, Changed(str, s, NoString))
        OBVIOUS
      <3>1. Full(w, f) /\ EmptiedAt(f, s)
        OBVIOUS
      <3>2. Full(w, Changed(f, s, NoString))
        BY <3>1, StaysWithout DEF EmptiedAt
      <3>3. Changed(f, s, NoString) = Changed(str, s, NoString)
        BY <3>1 DEF EmptiedAt
      <3> QED
        BY <3>2, <3>3
    <2> QED
      BY <2>1, <2>2, Becomes
  <1>3. CASE t.buffer # NULL
    <2>1. PICK hit \in IF fills THEN {"nothing", "list", "buffer"} ELSE {"nothing"} :
              Become(Overrun(t.world, t.buffer, hit), s, held, fills)
      BY <1>1, <1>3 DEF Give
    <2>2. PICK v, e, z : v = Overrun(t.world, t.buffer, hit) /\ e = held /\ z = fills
      OBVIOUS
    <2>3. z \in BOOLEAN /\ Become(v, s, e, z)
      BY <2>1, <2>2
    <2>4. brimful = 0 /\ ~z => Full(v, Changed(str, s, e))
      <3> SUFFICES ASSUME brimful = 0, ~z
                   PROVE  Full(v, Changed(str, s, e))
        OBVIOUS
      <3>1. Full(w, f) /\ EmptiedAt(f, s)
        OBVIOUS
      <3>2. n # PoolToAllocate(n) /\ hit = "nothing"
        BY <1>3, <2>1, <2>2
      <3>3. v = t.world
        BY <2>2, <3>2 DEF Overrun
      <3>4. Full(t.world, Changed(f, s, held))
        BY <1>1, <1>3, <3>1, <3>2, IsGiven DEF EmptiedAt
      <3>5. Changed(f, s, e) = Changed(str, s, e)
        BY <3>1 DEF EmptiedAt
      <3> QED
        BY <2>2, <3>3, <3>4, <3>5
    <2> QED
      BY <2>3, <2>4, Becomes
  <1> QED
    BY <1>2, <1>3

(* So does Share. *)
LEMMA SharesWith ==
    ASSUME StringNumbers, StringInv, ~crashed, NEW w, NEW f, NEW s \in Strings, NEW t \in Strings,
           s # t, str[t] # Gone,
           brimful = 0 => Full(w, f) /\ EmptiedAt(f, s),
           Share(w, s, t)
    PROVE  StringInv'
  <1>1. brimful \in Nat
    BY DEF StringInv
  <1>2. brimful = 0 => f[t] = str[t] /\ HoldsWell(World, str, t)
    BY DEF EmptiedAt, StringInv, Sound, Full
  <1>3. CASE ManagerOf[s] # ManagerOf[t]
    <2>1. Give(w, s, str[t].length)
      BY <1>3 DEF Share
    <2>2. CASE brimful = 0
      <3>1. str[t].length \in Nat
        BY <1>2, <2>2 DEF HoldsWell, Gone
      <3>2. PICK n : n = str[t].length
        OBVIOUS
      <3> QED
        BY <1>1, <2>1, <3>1, <3>2, Gives
    <2>3. CASE brimful # 0
      <3>1. brimful' = brimful + 1
        BY <1>1, <2>1, <2>3 DEF Give, Become
      <3> QED
        BY <1>1, <3>1 DEF StringInv, Sound
    <2> QED
      BY <2>2, <2>3
  <1>4. CASE ManagerOf[s] = ManagerOf[t]
    <2>1. PICK v, h : v = AddStringReferenceCount(w, str[t].buffer) /\ h = str[t]
      OBVIOUS
    <2>2. Become(v, s, h, FALSE)
      BY <1>4, <2>1 DEF Share
    <2>3. brimful = 0 => Full(v, Changed(str, s, h)) \/ v.crashed
      <3> SUFFICES ASSUME brimful = 0
                   PROVE  Full(v, Changed(str, s, h)) \/ v.crashed
        OBVIOUS
      <3>1. Full(w, f) /\ EmptiedAt(f, s)
        OBVIOUS
      <3>2. CASE str[t].buffer = NULL
        <4>1. v = [w EXCEPT !.crashed = TRUE]
          BY <2>1, <3>2 DEF AddStringReferenceCount
        <4>2. w \in Worlds
          BY <3>1 DEF Full, Good
        <4>3. PICK m, r, z : w = [mem |-> m, refs |-> r, size |-> z, crashed |-> FALSE]
          BY <4>2 DEF Worlds
        <4> QED
          BY <4>1, <4>3
      <3>3. CASE str[t].buffer # NULL
        <4>1. Full(v, Changed(f, s, h))
          BY <1>2, <1>4, <2>1, <3>1, <3>3, Shares DEF EmptiedAt
        <4>2. Changed(f, s, h) = Changed(str, s, h)
          BY <3>1 DEF EmptiedAt
        <4> QED
          BY <4>1, <4>2
      <3> QED
        BY <3>2, <3>3
    <2> QED
      BY <1>1, <2>2, <2>3, Becomes
  <1> QED
    BY <1>3, <1>4

(* Every operation keeps the invariant. *)
LEMMA StringSteps ==
    ASSUME StringNumbers, StringInv, [StringNext]_stringVars
    PROVE  StringInv'
  <1>1. brimful \in Nat
    BY DEF StringInv
  <1>2. Lengths \subseteq Nat
    BY DEF StringNumbers
  <1>3. ~crashed /\ brimful = 0 => Full(World, str)
    BY DEF StringInv, Sound
  <1>4. ASSUME NEW s \in Strings, ConstructEmpty(s)
        PROVE  StringInv'
    <2>1. Become(World, s, NoString, FALSE) /\ ~crashed /\ str[s].buffer = NULL
      <3>1. Become(World, s, NoString, FALSE) /\ ~crashed /\ str[s] = Gone
        BY <1>4 DEF ConstructEmpty, Running
      <3>2. str[s].buffer = NULL
        <4>1. str[s] = Gone
          BY <3>1
        <4> QED
          BY <4>1 DEF Gone
      <3> QED
        BY <3>1, <3>2
    <2>2. brimful = 0 => Full(World, Changed(str, s, NoString))
      BY <1>3, <2>1, StaysWithout
    <2> QED
      BY <1>1, <2>1, <2>2, Becomes
  <1>5. ASSUME NEW s \in Strings, CleanUp(s)
        PROVE  StringInv'
    <2>1. Become(Released(s), s, NoString, FALSE) /\ ~crashed
      BY <1>5 DEF CleanUp, Live, Running
    <2>2. brimful = 0 => Full(Released(s), Changed(str, s, NoString))
      BY <1>3, <2>1, AfterRelease
    <2> QED
      BY <1>1, <2>1, <2>2, Becomes
  <1>6. ASSUME NEW s \in Strings, Destroy(s)
        PROVE  StringInv'
    <2>1. Become(Released(s), s, Gone, FALSE) /\ ~crashed
      BY <1>6 DEF Destroy, Live, Running
    <2>2. brimful = 0 => Full(Released(s), Changed(str, s, Gone))
      BY <1>3, <2>1, AfterRelease
    <2> QED
      BY <1>1, <2>1, <2>2, Becomes
  <1>7. ASSUME NEW s \in Strings, NEW n \in Lengths, ConstructChars(s, n)
        PROVE  StringInv'
    <2>1. Give(World, s, n) /\ ~crashed /\ str[s].buffer = NULL
      BY <1>7 DEF ConstructChars, Running, Gone
    <2>2. brimful = 0 => Full(World, str) /\ EmptiedAt(str, s)
      BY <1>3, <2>1, Emptied
    <2> QED
      BY <1>1, <1>2, <2>1, <2>2, Gives
  <1>8. ASSUME NEW s \in Strings, NEW n \in Lengths, AssignChars(s, n)
        PROVE  StringInv'
    <2>1. Give(Released(s), s, n) /\ ~crashed
      BY <1>8 DEF AssignChars, Live, Running
    <2>2. PICK w, f : w = Released(s) /\ f = Changed(str, s, NoString)
      OBVIOUS
    <2>3. brimful = 0 => Full(w, f) /\ EmptiedAt(f, s)
      BY <1>3, <2>1, <2>2, AfterRelease, Emptied
    <2> QED
      BY <1>1, <1>2, <2>1, <2>2, <2>3, Gives
  <1>9. ASSUME NEW s \in Strings, NEW t \in Strings, ConstructCopy(s, t)
        PROVE  StringInv'
    <2>1. Share(World, s, t) /\ ~crashed /\ str[s] = Gone /\ str[t] # Gone /\ s # t
      BY <1>9 DEF ConstructCopy, Live, Running
    <2>2. brimful = 0 => Full(World, str) /\ EmptiedAt(str, s)
      BY <1>3, <2>1, Emptied DEF Gone
    <2> QED
      BY <2>1, <2>2, SharesWith
  <1>10. ASSUME NEW s \in Strings, NEW t \in Strings, AssignString(s, t)
         PROVE  StringInv'
    <2>1. Share(Released(s), s, t) /\ ~crashed /\ str[t] # Gone /\ s # t
      BY <1>10 DEF AssignString, Live, Running
    <2>2. PICK w, f : w = Released(s) /\ f = Changed(str, s, NoString)
      OBVIOUS
    <2>3. brimful = 0 => Full(w, f) /\ EmptiedAt(f, s)
      BY <1>3, <2>1, <2>2, AfterRelease, Emptied
    <2> QED
      BY <2>1, <2>2, <2>3, SharesWith
  <1>11. CASE UNCHANGED stringVars
    <2>1. World' = World /\ str' = str /\ brimful' = brimful /\ Sound' = Sound
      BY <1>11 DEF stringVars, World, Sound
    <2> QED
      BY <2>1 DEF StringInv
  <1> QED
    BY <1>4, <1>5, <1>6, <1>7, <1>8, <1>9, <1>10, <1>11 DEF StringNext

(* The invariant gives both properties. *)
LEMMA CountedAndFit ==
    ASSUME StringNumbers, StringInv
    PROVE  StringsCounted /\ StringsFit
  <1> SUFFICES ASSUME Sound, Full(World, str)
               PROVE  StringsCounted /\ StringsFit
    BY DEF StringInv, StringsCounted, StringsFit
  <1>1. /\ World.mem = mem /\ World.refs = refs /\ World.size = size
    BY DEF World
  <1>2. Good(World, {}, {}) /\ CountsRight(World, str)
    BY DEF Full
  <1>3. ListsApart(mem) /\ mem \in MemoryOf(AddressSpace, Lists) /\ refs \in [AddressSpace -> Int]
    BY <1>1, <1>2 DEF Good, Worlds, ListsApart
  <1>4. DOMAIN mem.head = Lists /\ Addresses = AddressSpace
    BY <1>3 DEF MemoryOf, Addresses
  <1>5. \A l \in Lists : Items(mem, l) \subseteq AddressSpace
    BY <1>3, FirstItemOfList DEF ListsApart, StringNumbers
  <1>6. \A a : a \in UsedOnes <=> \E g \in Managers, k \in Sizes : a \in Items(mem, Used(g, k))
    BY DEF UsedOnes
  <1>7. \A a : a \in FreeOnes <=> \E g \in Managers, k \in Sizes : a \in Items(mem, Free(g, k))
    BY DEF FreeOnes
  <1>8. UsedOnes = Busy(mem)
    <2>1. ASSUME NEW a \in UsedOnes
          PROVE  a \in Busy(mem)
      BY <1>5, <1>6, <2>1, ListNames DEF Busy
    <2>2. ASSUME NEW a \in Busy(mem)
          PROVE  a \in UsedOnes
      BY <1>6, <2>2, ListNames DEF Busy
    <2> QED
      BY <2>1, <2>2
  <1>9. FreeOnes \subseteq Listed(mem) /\ Busy(mem) \subseteq Listed(mem)
    BY <1>5, <1>7, ListNames DEF Listed, Busy
  <1>10. FreeOnes \cap Busy(mem) = {}
    <2> SUFFICES ASSUME NEW a \in FreeOnes, NEW l \in Lists, IsUsed(l), a \in Items(mem, l)
                 PROVE  FALSE
      BY DEF Busy
    <2>1. PICK c \in Lists : ~IsUsed(c) /\ a \in Items(mem, c)
      BY <1>7, ListNames
    <2> QED
      BY <1>3, <2>1 DEF ListsApart
  <1>11. \A a : Holders(a) = HoldersIn(str, a)
    BY DEF Holders, HoldersIn
  <1>12. Held = Busy(mem)
    <2>1. ASSUME NEW a \in Held
          PROVE  a \in Busy(mem)
      <3>1. PICK s \in Strings : str[s].buffer = a /\ a \in AddressSpace
        BY <1>4, <2>1 DEF Held, Holders
      <3>2. a # NULL
        BY <3>1 DEF StringNumbers
      <3> QED
        BY <1>1, <3>1, <3>2, HeldIsBusy
    <2>2. ASSUME NEW a \in Busy(mem)
          PROVE  a \in Held
      <3>1. HoldersIn(str, a) # {}
        BY <1>1, <1>2 DEF CountsRight
      <3> QED
        BY <1>4, <1>11, <3>1 DEF Held, Busy
    <2> QED
      BY <2>1, <2>2
  <1>13. StringsCounted
    <2>1. \A l \in DOMAIN mem.head : WellFormed(mem, l)
      BY <1>3, <1>4 DEF ListsApart
    <2>2. \A a \in Held : refs[a] = Cardinality(Holders(a))
      BY <1>1, <1>2, <1>11, <1>12 DEF CountsRight
    <2> QED
      BY <1>8, <1>10, <1>12, <2>1, <2>2 DEF StringsCounted
  <1>14. \A a : Extent(a) = Room(size[a], a)
    BY DEF Extent, Room
  <1>15. \A l \in Lists : \A a \in Items(mem, l) : size[a] = l[2]
    BY <1>1, <1>2 DEF Good
  <1>16. \A s \in Strings : str[s].buffer # NULL => str[s].length < size[str[s].buffer]
    <2> SUFFICES ASSUME NEW s \in Strings, str[s].buffer # NULL
                 PROVE  str[s].length < size[str[s].buffer]
      OBVIOUS
    <2>1. PICK n, a, l : /\ n = str[s].length /\ a = str[s].buffer
                         /\ l = Used(ManagerOf[s], PoolToAllocate(n))
      OBVIOUS
    <2>2. n < PoolToAllocate(n)
      <3>1. HoldsWell(World, str, s)
        BY DEF Full
      <3> QED
        BY <2>1, <3>1 DEF HoldsWell
    <2>3. l \in Lists /\ a \in Items(mem, l)
      BY <1>1, <2>1, HeldIsBusy
    <2>4. l[2] = PoolToAllocate(n)
      BY <2>1 DEF Used
    <2> QED
      BY <1>15, <2>1, <2>2, <2>3, <2>4
  <1>17. \A g \in Managers, k \in Sizes :
            \A a \in Items(mem, Free(g, k)) \cup Items(mem, Used(g, k)) : size[a] = k
    BY <1>15, ListNames
  <1>18. \A a, b \in Held \cup FreeOnes : a # b => Extent(a) \cap Extent(b) = {}
    <2>1. \A a, b \in Listed(mem) : a # b => Room(size[a], a) \cap Room(size[b], b) = {}
      BY <1>1, <1>2 DEF Good
    <2>2. Held \cup FreeOnes \subseteq Listed(mem)
      BY <1>9, <1>12
    <2> QED
      BY <1>14, <2>1, <2>2
  <1> QED
    BY <1>13, <1>16, <1>17, <1>18 DEF StringsFit

(* Whatever is constructed, shared, copied between managers, reassigned and *)
(* destroyed, the counts are the numbers of holders and the used lists hold *)
(* exactly what strings hold, until a string is as long as its buffer.     *)
THEOREM StringsAreCounted == Spec => []StringsCounted
  <1>1. Init => StringInv
    BY StringsStart, LibraryAssumption DEF Init, Begin
  <1>2. StringInv /\ [Next]_vars => StringInv'
    BY OneAtATime, StringSteps, LibraryAssumption
  <1>3. StringInv => StringsCounted
    BY CountedAndFit, LibraryAssumption
  <1> QED
    BY <1>1, <1>2, <1>3, PTL DEF Spec

(* Until then every string has room for its terminator in a buffer of the   *)
(* size its lists stand for, and no two buffers overlap, however many       *)
(* larger ones have been cut up.                                           *)
THEOREM StringsHaveRoom == Spec => []StringsFit
  <1>1. Init => StringInv
    BY StringsStart, LibraryAssumption DEF Init, Begin
  <1>2. StringInv /\ [Next]_vars => StringInv'
    BY OneAtATime, StringSteps, LibraryAssumption
  <1>3. StringInv => StringsFit
    BY CountedAndFit, LibraryAssumption
  <1> QED
    BY <1>1, <1>2, <1>3, PTL DEF Spec

-----------------------------------------------------------------------------
(* Recursive functions.                                                    *)

(* What is true of 0 and goes up from each number to the next is true of    *)
(* all up to n.                                                             *)
LEMMA Upwards ==
    ASSUME NEW n \in Nat, NEW D, 0 \in D, \A i \in 1 .. n : i - 1 \in D => i \in D
    PROVE  \A i \in 0 .. n : i \in D
  <1> DEFINE S == {i \in Nat : i <= n => i \in D}
  <1>1. 0 \in S
    OBVIOUS
  <1>2. ASSUME NEW i \in Nat, i \in S
        PROVE  i + 1 \in S
    <2> SUFFICES ASSUME i + 1 <= n
                 PROVE  i + 1 \in D
      OBVIOUS
    <2>1. i + 1 \in 1 .. n /\ (i + 1) - 1 = i /\ i \in D
      BY <1>2
    <2> QED
      BY <2>1
  <1>3. Nat \subseteq S
    <2> HIDE DEF S
    <2> QED
      BY <1>1, <1>2, SetInduction
  <1> QED
    BY <1>3

\* f goes on from a by the steps of g.
Runs(f, n, a, g) == f[0] = a /\ \A i \in 1 .. n : f[i] = g[<<i, f[i - 1]>>]

(* A function up to n can be defined by its first value and its steps.      *)
LEMMA RunExists ==
    ASSUME NEW V, NEW a \in V, NEW n \in Nat, NEW g \in [(1 .. n) \X V -> V]
    PROVE  \E f \in [0 .. n -> V] : Runs(f, n, a, g)
  <1> DEFINE D == {m \in 0 .. n : \E f \in [0 .. m -> V] : Runs(f, m, a, g)}
  <1>1. 0 \in D
    <2> DEFINE f == [i \in 0 .. 0 |-> a]
    <2>1. f \in [0 .. 0 -> V] /\ Runs(f, 0, a, g)
      BY DEF Runs
    <2> QED
      BY <2>1
  <1>2. ASSUME NEW m \in 1 .. n, m - 1 \in D
        PROVE  m \in D
    <2>1. PICK f \in [0 .. m - 1 -> V] : Runs(f, m - 1, a, g)
      BY <1>2
    <2> DEFINE h == [i \in 0 .. m |-> IF i = m THEN g[<<m, f[m - 1]>>] ELSE f[i]]
    <2>2. g[<<m, f[m - 1]>>] \in V
      <3>1. m - 1 \in 0 .. m - 1
        OBVIOUS
      <3>2. <<m, f[m - 1]>> \in (1 .. n) \X V
        BY <3>1
      <3> QED
        BY <3>2
    <2>3. h \in [0 .. m -> V]
      BY <2>2
    <2>4. \A i \in 0 .. m - 1 : h[i] = f[i]
      OBVIOUS
    <2>5. h[m] = g[<<m, f[m - 1]>>] /\ 0 \in 0 .. m - 1
      OBVIOUS
    <2> HIDE DEF h
    <2>6. ASSUME NEW i \in 1 .. m
          PROVE  h[i] = g[<<i, h[i - 1]>>]
      <3>1. i - 1 \in 0 .. m - 1
        OBVIOUS
      <3>2. h[i - 1] = f[i - 1]
        BY <2>4, <3>1
      <3>3. CASE i = m
        BY <2>5, <3>2, <3>3
      <3>4. CASE i # m
        <4>1. i \in 1 .. m - 1 /\ i \in 0 .. m - 1
          BY <3>4
        <4>2. f[i] = g[<<i, f[i - 1]>>]
          BY <2>1, <4>1 DEF Runs
        <4> QED
          BY <2>4, <3>2, <4>1, <4>2
      <3> QED
        BY <3>3, <3>4
    <2>7. h[0] = a
      BY <2>1, <2>4, <2>5 DEF Runs
    <2>8. Runs(h, m, a, g)
      BY <2>6, <2>7 DEF Runs
    <2> QED
      BY <2>3, <2>8
  <1>3. n \in D
    <2>1. n \in 0 .. n
      OBVIOUS
    <2> HIDE DEF D
    <2> QED
      BY <1>1, <1>2, <2>1, Upwards
  <1> QED
    BY <1>3

(* A set of numbers that is not empty has a least. *)
LEMMA LeastExists ==
    ASSUME NEW S \in SUBSET Nat, S # {}
    PROVE  \E i \in S : \A j \in S : i <= j
  <1> SUFFICES ASSUME \A i \in S : \E j \in S : j < i
               PROVE  FALSE
    OBVIOUS
  <1> DEFINE D == {n \in Nat : \A j \in S : n <= j}
  <1>1. 0 \in D
    OBVIOUS
  <1>2. ASSUME NEW n \in Nat, n \in D
        PROVE  n + 1 \in D
    <2>1. n \notin S
      BY <1>2
    <2> QED
      BY <1>2, <2>1
  <1>3. Nat \subseteq D
    <2> HIDE DEF D
    <2> QED
      BY <1>1, <1>2, SetInduction
  <1>4. PICK j \in S : TRUE
    OBVIOUS
  <1>5. j + 1 \in D
    BY <1>3
  <1> QED
    BY <1>5

-----------------------------------------------------------------------------
(* The heap of the path finder: whatever the costs, what it does is to put  *)
(* the polygons it holds in another order.                                  *)

\* The sequences that have each of the n members of S once.
Orders(S, n) ==
    {h \in [1 .. n -> S] : /\ \A i, j \in 1 .. n : h[i] = h[j] => i = j
                           /\ \A x \in S : \E i \in 1 .. n : h[i] = x}

\* The heaps of S while a polygon of them moves.
Moving(S, n) == {P!At(h, i) : h \in Orders(S, n), i \in 0 .. n - 1}

(* A sequence of the members of S is one. *)
LEMMA OrderIsSequence ==
    ASSUME NEW S, NEW n \in Nat, NEW h \in Orders(S, n)
    PROVE  /\ h \in Seq(S) /\ Len(h) = n /\ DOMAIN h = 1 .. n
           /\ {h[i] : i \in DOMAIN h} = S
           /\ \A i \in 1 .. n : h[i] \in S
  <1>1. h \in [1 .. n -> S] /\ \A x \in S : \E i \in 1 .. n : h[i] = x
    BY DEF Orders
  <1>2. DOMAIN h = 1 .. n /\ \A i \in 1 .. n : h[i] \in S
    BY <1>1
  <1>3. h \in Seq(S)
    BY <1>1, SeqDef
  <1>4. Len(h) = n
    BY <1>2, <1>3, LenProperties
  <1> QED
    BY <1>1, <1>2, <1>3, <1>4

(* It is as long as S is large. *)
LEMMA OrderCounts ==
    ASSUME NEW S, NEW n \in Nat, NEW h \in Orders(S, n)
    PROVE  IsFiniteSet(S) /\ Cardinality(S) = n
  <1>1. h \in Bijection(1 .. n, S)
    BY DEF Orders, Bijection, Injection, Surjection, IsInjective
  <1>2. ExistsBijection(1 .. n, S)
    BY <1>1 DEF ExistsBijection
  <1> QED
    BY <1>2, FS_CountingElements, FS_NatBijection

(* Two exchanged members are still there. *)
LEMMA SwappedKeeps ==
    ASSUME NEW S, NEW n \in Nat, NEW h \in Orders(S, n), NEW i \in 0 .. n - 1, NEW j \in 0 .. n - 1
    PROVE  P!Swapped(h, i, j) \in Orders(S, n)
  <1> DEFINE f == P!Swapped(h, i, j)
             a == i + 1
             b == j + 1
  <1>1. a \in 1 .. n /\ b \in 1 .. n
    OBVIOUS
  <1>2. /\ h \in [1 .. n -> S]
        /\ \A k, l \in 1 .. n : h[k] = h[l] => k = l
        /\ \A x \in S : \E k \in 1 .. n : h[k] = x
    BY DEF Orders
  <1> HIDE DEF a, b
  <1>3. f = [h EXCEPT ![a] = h[b], ![b] = h[a]]
    BY DEF P!Swapped, a, b
  <1> HIDE DEF f
  <1>4. h[a] \in S /\ h[b] \in S
    BY <1>1, <1>2
  <1>5. f \in [1 .. n -> S]
    BY <1>1, <1>2, <1>3, <1>4
  <1>6. \A k \in 1 .. n : f[k] = IF k = b THEN h[a] ELSE IF k = a THEN h[b] ELSE h[k]
    BY <1>1, <1>2, <1>3
  <1>7. \A k, l \in 1 .. n : f[k] = f[l] => k = l
    BY <1>1, <1>2, <1>6
  <1>8. \A x \in S : \E k \in 1 .. n : f[k] = x
    <2> SUFFICES ASSUME NEW x \in S
                 PROVE  \E k \in 1 .. n : f[k] = x
      OBVIOUS
    <2>1. PICK k \in 1 .. n : h[k] = x
      BY <1>2
    <2>2. CASE k = a
      BY <1>1, <1>6, <2>1, <2>2
    <2>3. CASE k = b
      BY <1>1, <1>6, <2>1, <2>3
    <2>4. CASE k # a /\ k # b
      BY <1>6, <2>1, <2>4
    <2> QED
      BY <2>2, <2>3, <2>4
  <1>9. f \in Orders(S, n)
    BY <1>5, <1>7, <1>8 DEF Orders
  <1> QED
    BY <1>9 DEF f

(* An exchange keeps the polygons. *)
LEMMA ExchangeKeeps ==
    ASSUME NEW S, NEW n \in Nat, NEW s \in Moving(S, n), NEW j \in 0 .. n - 1
    PROVE  P!Exchange(s, j) \in Moving(S, n)
  <1>1. PICK h \in Orders(S, n), i \in 0 .. n - 1 : s = P!At(h, i)
    BY DEF Moving
  <1>2. s.heap = h /\ s.index = i
    BY <1>1 DEF P!At
  <1>3. P!Swapped(h, i, j) \in Orders(S, n)
    BY SwappedKeeps
  <1> QED
    BY <1>2, <1>3 DEF P!Exchange, Moving

(* So does a step up. *)
LEMMA RiseKeeps ==
    ASSUME NEW S, NEW n \in Nat, NEW s \in Moving(S, n), NEW cost
    PROVE  P!Rise(s, cost) \in Moving(S, n)
  <1>1. s.index \in 0 .. n - 1
    BY DEF Moving, P!At
  <1>2. s.index \div 2 \in 0 .. n - 1
    BY <1>1
  <1>3. P!Exchange(s, s.index \div 2) \in Moving(S, n)
    BY <1>2, ExchangeKeeps
  <1> QED
    BY <1>3 DEF P!Rise

(* So does a step down, where there is a least of the costs. *)
LEMMA SinkKeeps ==
    ASSUME NEW S, NEW n \in Nat, NEW s \in Moving(S, n), NEW cost, \A x \in S : cost[x] \in Int
    PROVE  P!Sink(s, cost) \in Moving(S, n)
  <1> DEFINE Cost(i) == cost[s.heap[i + 1]]
             children == {i \in {2 * s.index + 1, 2 * s.index + 2} : i < Len(s.heap)}
             Least(i) == \A j \in children : Cost(i) < Cost(j) \/ (Cost(i) = Cost(j) /\ i <= j)
             least == CHOOSE i \in children : Least(i)
  <1>1. s.heap \in Orders(S, n) /\ s.index \in 0 .. n - 1
    BY DEF Moving, P!At
  <1>2. Len(s.heap) = n /\ \A i \in 1 .. n : s.heap[i] \in S
    BY <1>1, OrderIsSequence
  <1>3. children \subseteq 0 .. n - 1
    BY <1>1, <1>2
  <1>4. \A i \in 0 .. n - 1 : Cost(i) \in Int
    <2> SUFFICES ASSUME NEW i \in 0 .. n - 1
                 PROVE  Cost(i) \in Int
      OBVIOUS
    <2>1. i + 1 \in 1 .. n
      OBVIOUS
    <2> QED
      BY <1>2, <2>1
  <1>5. P!Sink(s, cost) = IF children = {} \/ Cost(s.index) <= Cost(least) THEN s ELSE P!Exchange(s, least)
    BY DEF P!Sink
  <1>6. ASSUME children # {}
        PROVE  least \in 0 .. n - 1
    <2> DEFINE l == 2 * s.index + 1
               r == 2 * s.index + 2
    <2>1. children \subseteq {l, r}
      OBVIOUS
    <2>2. l \in Int /\ r \in Int /\ l <= r
      BY <1>1
    <2> HIDE DEF children, Cost, l, r
    <2>3. \E i \in children : Least(i)
      <3>1. CASE l \in children /\ r \in children
        BY <1>3, <1>4, <2>1, <2>2, <3>1
      <3>2. CASE l \in children /\ r \notin children
        BY <1>3, <1>4, <2>1, <2>2, <3>2
      <3>3. CASE l \notin children /\ r \in children
        BY <1>3, <1>4, <2>1, <2>2, <3>3
      <3> QED
        BY <1>6, <2>1, <3>1, <3>2, <3>3
    <2> HIDE DEF Least
    <2>4. least \in children
      BY <2>3
    <2> QED
      BY <1>3, <2>4
  <1> HIDE DEF children, Cost, least
  <1>7. ASSUME children # {}
        PROVE  P!Exchange(s, least) \in Moving(S, n)
    BY <1>6, <1>7, ExchangeKeeps
  <1> QED
    BY <1>5, <1>7

(* Up or down, all the way: the recursions have a value, and it is a heap   *)
(* of the same polygons.                                                    *)
LEMMA ShiftUpKeeps ==
    ASSUME NEW S, NEW n \in Nat, NEW h \in Orders(S, n), NEW cost, NEW index \in 0 .. n - 1
    PROVE  P!ShiftUp(h, cost, index) \in Orders(S, n)
  <1> DEFINE V == Moving(S, n)
             a == P!At(h, index)
             g == [x \in (1 .. index) \X V |-> P!Rise(x[2], cost)]
             IsRisen(f) == f = [m \in 0 .. index |-> IF m = 0 THEN a ELSE P!Rise(f[m - 1], cost)]
             risen == CHOOSE f : IsRisen(f)
  <1>1. a \in V /\ index \in Nat
    BY DEF Moving
  <1>2. g \in [(1 .. index) \X V -> V]
    BY RiseKeeps
  <1>3. P!ShiftUp(h, cost, index) = risen[index].heap
    BY DEF P!ShiftUp
  <1>4. \A i \in 1 .. index, x \in V : g[<<i, x>>] = P!Rise(x, cost)
    OBVIOUS
  <1> HIDE DEF a, g, V
  <1>5. PICK f \in [0 .. index -> V] : Runs(f, index, a, g)
    BY <1>1, <1>2, RunExists
  <1>6. \A m \in 0 .. index : f[m] = IF m = 0 THEN a ELSE P!Rise(f[m - 1], cost)
    <2> SUFFICES ASSUME NEW m \in 0 .. index, m # 0
                 PROVE  f[m] = P!Rise(f[m - 1], cost)
      BY <1>5 DEF Runs
    <2>1. m \in 1 .. index /\ m - 1 \in 0 .. index
      OBVIOUS
    <2>2. f[m - 1] \in V
      BY <1>5, <2>1
    <2> QED
      BY <1>4, <1>5, <2>1, <2>2 DEF Runs
  <1>7. IsRisen(f)
    BY <1>5, <1>6
  <1>8. IsRisen(risen)
    <2> HIDE DEF IsRisen
    <2> QED
      BY <1>7
  <1> HIDE DEF risen
  <1>9. \A m \in 0 .. index : risen[m] = IF m = 0 THEN a ELSE P!Rise(risen[m - 1], cost)
    BY <1>8
  <1> HIDE DEF IsRisen
  <1> DEFINE D == {m \in 0 .. index : risen[m] \in V}
  <1>10. 0 \in D
    BY <1>1, <1>9
  <1>11. ASSUME NEW m \in 1 .. index, m - 1 \in D
         PROVE  m \in D
    <2>1. risen[m] = P!Rise(risen[m - 1], cost)
      BY <1>9
    <2>2. risen[m - 1] \in V
      BY <1>11
    <2>3. P!Rise(risen[m - 1], cost) \in V
      BY <2>2, RiseKeeps DEF V
    <2> QED
      BY <2>1, <2>3
  <1>12. index \in D
    <2>1. index \in 0 .. index
      BY <1>1
    <2> HIDE DEF D
    <2> QED
      BY <1>1, <1>10, <1>11, <2>1, Upwards
  <1>13. risen[index] \in V
    BY <1>12
  <1>14. risen[index].heap \in Orders(S, n)
    BY <1>13 DEF V, Moving, P!At
  <1> QED
    BY <1>3, <1>14

(* A shift down keeps the polygons. *)
LEMMA ShiftDownKeeps ==
    ASSUME NEW S, NEW n \in Nat, NEW h \in Orders(S, n), NEW cost, \A x \in S : cost[x] \in Int,
           NEW index \in 0 .. n - 1
    PROVE  P!ShiftDown(h, cost, index) \in Orders(S, n)
  <1> DEFINE V == Moving(S, n)
             a == P!At(h, index)
             g == [x \in (1 .. n) \X V |-> P!Sink(x[2], cost)]
             IsSunk(f) == f = [m \in 0 .. n |-> IF m = 0 THEN a ELSE P!Sink(f[m - 1], cost)]
             sunk == CHOOSE f : IsSunk(f)
  <1>1. a \in V
    BY DEF Moving
  <1>2. g \in [(1 .. n) \X V -> V]
    BY SinkKeeps
  <1>3. P!ShiftDown(h, cost, index) = sunk[n].heap
    <2>1. Len(h) = n
      BY OrderIsSequence
    <2> QED
      BY <2>1 DEF P!ShiftDown
  <1>4. \A i \in 1 .. n, x \in V : g[<<i, x>>] = P!Sink(x, cost)
    OBVIOUS
  <1> HIDE DEF a, g, V
  <1>5. PICK f \in [0 .. n -> V] : Runs(f, n, a, g)
    BY <1>1, <1>2, RunExists
  <1>6. \A m \in 0 .. n : f[m] = IF m = 0 THEN a ELSE P!Sink(f[m - 1], cost)
    <2> SUFFICES ASSUME NEW m \in 0 .. n, m # 0
                 PROVE  f[m] = P!Sink(f[m - 1], cost)
      BY <1>5 DEF Runs
    <2>1. m \in 1 .. n /\ m - 1 \in 0 .. n
      OBVIOUS
    <2>2. f[m - 1] \in V
      BY <1>5, <2>1
    <2> QED
      BY <1>4, <1>5, <2>1, <2>2 DEF Runs
  <1>7. IsSunk(f)
    BY <1>5, <1>6
  <1>8. IsSunk(sunk)
    <2> HIDE DEF IsSunk
    <2> QED
      BY <1>7
  <1> HIDE DEF sunk
  <1>9. \A m \in 0 .. n : sunk[m] = IF m = 0 THEN a ELSE P!Sink(sunk[m - 1], cost)
    BY <1>8
  <1> HIDE DEF IsSunk
  <1> DEFINE D == {m \in 0 .. n : sunk[m] \in V}
  <1>10. 0 \in D
    BY <1>1, <1>9
  <1>11. ASSUME NEW m \in 1 .. n, m - 1 \in D
         PROVE  m \in D
    <2>1. sunk[m] = P!Sink(sunk[m - 1], cost)
      BY <1>9
    <2>2. sunk[m - 1] \in V
      BY <1>11
    <2>3. P!Sink(sunk[m - 1], cost) \in V
      BY <2>2, SinkKeeps DEF V
    <2> QED
      BY <2>1, <2>3
  <1>12. n \in D
    <2>1. n \in 0 .. n
      OBVIOUS
    <2> HIDE DEF D
    <2> QED
      BY <1>10, <1>11, <2>1, Upwards
  <1>13. sunk[n] \in V
    BY <1>12
  <1>14. sunk[n].heap \in Orders(S, n)
    BY <1>13 DEF V, Moving, P!At
  <1> QED
    BY <1>3, <1>14

(* A polygon pushed is the one more that the heap then holds. *)
LEMMA PushAdds ==
    ASSUME NEW S, NEW n \in Nat, NEW h \in Orders(S, n), NEW cost, NEW p, p \notin S
    PROVE  P!Push(h, cost, p) \in Orders(S \cup {p}, n + 1)
  <1> DEFINE f == Append(h, p)
             m == n + 1
             R == S \cup {p}
  <1>1. /\ h \in Seq(S) /\ Len(h) = n /\ \A i \in 1 .. n : h[i] \in S
        /\ \A k, l \in 1 .. n : h[k] = h[l] => k = l
        /\ \A x \in S : \E k \in 1 .. n : h[k] = x
    BY OrderIsSequence DEF Orders
  <1>2. h \in Seq(R) /\ p \in R
    BY <1>1
  <1>3. f \in Seq(R) /\ Len(f) = m /\ (\A i \in 1 .. n : f[i] = h[i]) /\ f[m] = p
    BY <1>1, <1>2, AppendProperties
  <1>4. f \in [1 .. m -> R]
    BY <1>3, LenProperties
  <1>5. 1 .. m = (1 .. n) \cup {m} /\ m \notin 1 .. n
    OBVIOUS
  <1> HIDE DEF f, m
  <1>6. \A k, l \in 1 .. m : f[k] = f[l] => k = l
    BY <1>1, <1>3, <1>5
  <1>7. \A x \in R : \E k \in 1 .. m : f[k] = x
    BY <1>1, <1>3, <1>5
  <1>8. f \in Orders(R, m)
    BY <1>4, <1>6, <1>7 DEF Orders
  <1>9. m \in Nat /\ n \in 0 .. m - 1
    BY DEF m
  <1> HIDE DEF R
  <1>10. P!ShiftUp(f, cost, n) \in Orders(R, m)
    BY <1>8, <1>9, ShiftUpKeeps
  <1> QED
    BY <1>1, <1>10 DEF P!Push, f, m, R

(* One that became cheaper is moved. *)
LEMMA ModifyKeeps ==
    ASSUME NEW S, NEW n \in Nat, NEW h \in Orders(S, n), NEW cost, NEW p
    PROVE  P!Modify(h, cost, p) \in Orders(S, n)
  <1> DEFINE found == {i \in DOMAIN h : h[i] = p}
             i0 == CHOOSE i \in found : \A j \in found : i <= j
  <1>1. DOMAIN h = 1 .. n /\ \A k, l \in 1 .. n : h[k] = h[l] => k = l
    BY OrderIsSequence DEF Orders
  <1>2. P!Modify(h, cost, p) = IF found = {} THEN h ELSE P!ShiftUp(h, cost, i0 - 1)
    BY DEF P!Modify
  <1>3. ASSUME found # {}
        PROVE  i0 - 1 \in 0 .. n - 1
    <2>1. PICK i \in found : TRUE
      BY <1>3
    <2>2. \A j \in found : i <= j
      BY <1>1, <2>1
    <2>3. i0 \in found
      <3> HIDE DEF found
      <3> QED
        BY <2>2
    <2> HIDE DEF i0
    <2>4. i0 \in 1 .. n
      BY <1>1, <2>3
    <2> QED
      BY <2>4
  <1> HIDE DEF found, i0
  <1>4. ASSUME found # {}
        PROVE  P!ShiftUp(h, cost, i0 - 1) \in Orders(S, n)
    BY <1>3, <1>4, ShiftUpKeeps
  <1> QED
    BY <1>2, <1>4

(* The first is taken, the others stay. *)
LEMMA PoppedDrops ==
    ASSUME NEW S, NEW n \in Nat, n # 0, NEW h \in Orders(S, n), NEW cost, \A x \in S : cost[x] \in Int
    PROVE  P!Popped(h, cost) \in Orders(S \ {h[1]}, n - 1)
  <1> DEFINE m == n - 1
             R == S \ {h[1]}
             f == <<h[n]>> \o SubSeq(h, 2, n - 1)
  <1>1. /\ h \in Seq(S) /\ Len(h) = n /\ \A i \in 1 .. n : h[i] \in S
        /\ \A k, l \in 1 .. n : h[k] = h[l] => k = l
        /\ \A x \in S : \E k \in 1 .. n : h[k] = x
    BY OrderIsSequence DEF Orders
  <1>2. m \in Nat /\ 1 \in 1 .. n /\ n \in 1 .. n
    OBVIOUS
  <1>3. CASE n = 1
    <2>1. R = {}
      BY <1>1, <1>3
    <2>2. <<>> \in Orders({}, 0)
      BY DEF Orders
    <2>3. P!Popped(h, cost) = <<>> /\ m = 0
      BY <1>1, <1>3 DEF P!Popped
    <2> HIDE DEF R, m
    <2>4. P!Popped(h, cost) \in Orders(R, m)
      BY <2>1, <2>2, <2>3
    <2> QED
      BY <2>4 DEF R, m
  <1>4. CASE n # 1
    <2>1. n - 1 \in 1 .. n /\ 2 \in 1 .. n /\ n - 1 - 2 + 1 = n - 2 /\ n - 2 \in Nat
      BY <1>4
    <2>2. /\ SubSeq(h, 2, n - 1) \in Seq(S) /\ Len(SubSeq(h, 2, n - 1)) = n - 2
          /\ \A i \in 1 .. n - 2 : SubSeq(h, 2, n - 1)[i] = h[i + 1]
      <3>1. 2 \in 1 .. Len(h) + 1 /\ n - 1 \in 2 - 1 .. Len(h)
        BY <1>1, <1>4
      <3>2. /\ SubSeq(h, 2, n - 1) \in Seq(S)
            /\ Len(SubSeq(h, 2, n - 1)) = (n - 1) - 2 + 1
            /\ \A i \in 1 .. (n - 1) - 2 + 1 : SubSeq(h, 2, n - 1)[i] = h[2 + i - 1]
        BY <1>1, <3>1, SubSeqProperties
      <3> QED
        BY <2>1, <3>2
    <2>3. PICK s : s = SubSeq(h, 2, n - 1)
      OBVIOUS
    <2>4. PICK e : e = <<h[n]>>
      OBVIOUS
    <2>5. e \in Seq(S) /\ Len(e) = 1 /\ e[1] = h[n]
      BY <1>1, <1>2, <2>4
    <2>6. /\ f \in Seq(S) /\ Len(f) = 1 + (n - 2)
          /\ \A i \in 1 .. 1 + (n - 2) : f[i] = IF i <= 1 THEN e[i] ELSE s[i - 1]
      BY <2>2, <2>3, <2>4, <2>5, ConcatProperties
    <2>7. \A i \in 1 .. m : f[i] = IF i = 1 THEN h[n] ELSE h[i]
      <3> SUFFICES ASSUME NEW i \in 1 .. m
                   PROVE  f[i] = IF i = 1 THEN h[n] ELSE h[i]
        OBVIOUS
      <3>1. i \in 1 .. 1 + (n - 2) /\ (i # 1 => i - 1 \in 1 .. n - 2 /\ (i - 1) + 1 = i /\ ~(i <= 1))
        BY <2>1
      <3>2. f[i] = IF i <= 1 THEN e[i] ELSE s[i - 1]
        BY <2>6, <3>1
      <3> HIDE DEF f
      <3>3. CASE i = 1
        BY <2>5, <3>2, <3>3
      <3>4. CASE i # 1
        <4>1. s[i - 1] = h[i]
          BY <2>2, <2>3, <3>1, <3>4
        <4> QED
          BY <3>1, <3>2, <3>4, <4>1
      <3> QED
        BY <3>3, <3>4
    <2>8. DOMAIN f = 1 .. m /\ f = [i \in 1 .. m |-> f[i]]
      <3>1. 1 + (n - 2) = m
        OBVIOUS
      <3> QED
        BY <2>6, <3>1, LenProperties
    <2>9. P!Popped(h, cost) = P!ShiftDown(f, cost, 0)
      BY <1>1, <1>4 DEF P!Popped
    <2> HIDE DEF f
    <2>10. \A i \in 1 .. m : f[i] \in R
      <3> SUFFICES ASSUME NEW i \in 1 .. m
                   PROVE  f[i] \in R
        OBVIOUS
      <3>1. i \in 1 .. n /\ i # n
        OBVIOUS
      <3>2. h[n] # h[1] /\ (i # 1 => h[i] # h[1])
        BY <1>1, <1>2, <1>4, <3>1
      <3> QED
        BY <1>1, <1>2, <2>7, <3>1, <3>2
    <2>11. f \in [1 .. m -> R]
      <3> HIDE DEF R, m
      <3> QED
        BY <2>8, <2>10
    <2>12. \A k, l \in 1 .. m : f[k] = f[l] => k = l
      <3> SUFFICES ASSUME NEW k \in 1 .. m, NEW l \in 1 .. m, f[k] = f[l]
                   PROVE  k = l
        OBVIOUS
      <3>1. k \in 1 .. n /\ l \in 1 .. n /\ k # n /\ l # n
        OBVIOUS
      <3>2. f[k] = (IF k = 1 THEN h[n] ELSE h[k]) /\ f[l] = (IF l = 1 THEN h[n] ELSE h[l])
        BY <2>7
      <3> HIDE DEF m
      <3> QED
        BY <1>1, <1>2, <3>1, <3>2
    <2>13. \A x \in R : \E k \in 1 .. m : f[k] = x
      <3> SUFFICES ASSUME NEW x \in R
                   PROVE  \E k \in 1 .. m : f[k] = x
        OBVIOUS
      <3>1. PICK k \in 1 .. n : h[k] = x
        BY <1>1
      <3>2. k # 1
        BY <3>1
      <3>3. CASE k = n
        <4>1. 1 \in 1 .. m
          BY <1>4
        <4> QED
          BY <2>7, <3>1, <3>3, <4>1
      <3>4. CASE k # n
        <4>1. k \in 1 .. m
          BY <3>4
        <4> QED
          BY <2>7, <3>1, <3>2, <4>1
      <3> QED
        BY <3>3, <3>4
    <2>14. f \in Orders(R, m)
      <3> HIDE DEF R, m
      <3> QED
        BY <2>11, <2>12, <2>13 DEF Orders
    <2>15. (\A x \in R : cost[x] \in Int) /\ 0 \in 0 .. m - 1
      BY <1>4
    <2> HIDE DEF R, m
    <2>16. P!ShiftDown(f, cost, 0) \in Orders(R, m)
      BY <1>2, <2>14, <2>15, ShiftDownKeeps
    <2> QED
      BY <2>9, <2>16 DEF R, m
  <1> QED
    BY <1>3, <1>4

-----------------------------------------------------------------------------
(* The invariant of a search that began in polygon b.                      *)

Datum == [flag : SUBSET {"open", "closed"}, parent : {P!NoPolygon} \cup P!Polygons,
          index : Nat, totalCost : Int, pos : Located]

Reached(d) == {p \in P!Polygons : d[p].flag # {}}
OpenIn(d)  == {p \in P!Polygons : "open" \in d[p].flag}

\* The heap holds the open polygons.
Heaped(d, h) == Len(h) \in Nat /\ h \in Orders(OpenIn(d), Len(h))

\* Every polygon entered but the first was entered from one that costs no more,
\* through the edge they share.
FromParent(d, q) ==
    LET p == d[q].parent
    IN  /\ p \in Reached(d)
        /\ d[q].index \in DOMAIN P!Corners(p) /\ P!Adjacent(p, d[q].index) = q
        /\ d[p].totalCost <= d[q].totalCost

Rising(d, b) ==
    /\ b \in Reached(d) /\ d[b].parent = P!NoPolygon
    /\ \A q \in Reached(d) : d[b].totalCost <= d[q].totalCost
    /\ \A q \in Reached(d) \ {b} : FromParent(d, q)
    /\ \A q \in P!Polygons \ Reached(d) : d[q].parent = P!NoPolygon

\* What holds the first and the children of what it holds holds all that was
\* entered: there are no circles among the parents.
Spans(R, d, b) == b \in R /\ \A q \in P!Polygons : d[q].parent \in R => q \in R
Rooted(d, b)   == \A R \in SUBSET P!Polygons : Spans(R, d, b) => Reached(d) \subseteq R

SoundSearch(d, h, b) == d \in [P!Polygons -> Datum] /\ Heaped(d, h) /\ Rising(d, b) /\ Rooted(d, b)

\* What was closed, but for best, has had its neighbours entered.
Beside(p, d) == \A i \in DOMAIN P!Corners(p) : P!Adjacent(p, i) \in {P!NoPolygon} \cup Reached(d)
Covered(d, best) == \A p \in P!Polygons \ {best} : "closed" \in d[p].flag => Beside(p, d)

SearchInv ==
    /\ search.pc \in {"search", "found"} =>
        /\ search.begin \in P!Polygons /\ search.target \in P!Polygons /\ search.begin # search.target
        /\ SoundSearch(data, heap, search.begin)
    /\ search.pc = "search" =>
        /\ Covered(data, P!NoPolygon)
        /\ "closed" \notin data[search.target].flag
        /\ search.lastBest \in {P!NoPolygon} \cup Reached(data) /\ search.lastBestCost \in Int
    /\ search.pc = "found" => search.target \in Reached(data)

Asked == {"pc", "beginPoint", "targetPoint", "bufferSize", "begin", "target", "result",
          "written", "lastBest", "lastBestCost"}

PathInv ==
    /\ sys # P!NoSystem => Shaped(sys) /\ Zoned(sys) /\ P!InitPathFinder(sys) # P!NoSystem
    /\ search.pc \in {"idle", "search", "found", "done"}
    /\ search.pc # "idle" =>
        /\ sys # P!NoSystem /\ DOMAIN search = Asked
        /\ search.beginPoint \in Places /\ search.targetPoint \in Places
        /\ search.begin = P!GetTriangleByPosition(search.beginPoint)
        /\ search.target = P!GetTriangleByPosition(search.targetPoint)
    /\ SearchInv
    /\ P!PathFound

(* What the polygons of a mesh that is not refused are made of. *)
LEMMA MeshKnown ==
    ASSUME Shaped(sys), P!InitPathFinder(sys) # P!NoSystem
    PROVE  /\ Len(sys.polygons) \in Nat /\ P!Polygons = 1 .. Len(sys.polygons)
           /\ \A p \in P!Polygons :
                /\ sys.polygons[p].points \in Seq(DOMAIN sys.points)
                /\ P!Corners(p) \in Seq(Located) /\ Len(P!Corners(p)) \in Nat
                /\ Len(P!Corners(p)) = Len(sys.polygons[p].points)
                /\ DOMAIN P!Corners(p) = 1 .. Len(P!Corners(p))
                /\ DOMAIN P!Corners(p) = DOMAIN sys.polygons[p].points
                /\ \A i \in DOMAIN P!Corners(p) : P!Adjacent(p, i) \in {P!NoPolygon} \cup P!Polygons
  <1>1. /\ sys.points \in Seq(Located)
        /\ sys.polygons \in Seq([points : Seq(DOMAIN sys.points), adjacent : Seq(Int)])
        /\ \A p \in P!Polygons : DOMAIN sys.polygons[p].adjacent = DOMAIN sys.polygons[p].points
    BY DEF Shaped, P!Polygons
  <1>2. Len(sys.polygons) \in Nat /\ P!Polygons = 1 .. Len(sys.polygons)
    BY <1>1, LenProperties DEF P!Polygons
  <1>3. ASSUME NEW p \in P!Polygons
        PROVE  sys.polygons[p] \in [points : Seq(DOMAIN sys.points), adjacent : Seq(Int)]
    BY <1>1, <1>2, ElementOfSeq
  <1>4. ASSUME NEW p \in P!Polygons
        PROVE  /\ sys.polygons[p].points \in Seq(DOMAIN sys.points)
               /\ P!Corners(p) \in Seq(Located) /\ Len(P!Corners(p)) \in Nat
               /\ Len(P!Corners(p)) = Len(sys.polygons[p].points)
               /\ DOMAIN P!Corners(p) = 1 .. Len(P!Corners(p))
               /\ DOMAIN P!Corners(p) = DOMAIN sys.polygons[p].points
    <2>1. PICK s : s = sys.polygons[p].points
      OBVIOUS
    <2>2. s \in Seq(DOMAIN sys.points)
      BY <1>3, <2>1
    <2>3. Len(s) \in Nat /\ DOMAIN s = 1 .. Len(s)
      BY <2>2, LenProperties
    <2>4. ASSUME NEW i \in 1 .. Len(s)
          PROVE  sys.points[s[i]] \in Located
      <3>1. s[i] \in DOMAIN sys.points
        BY <2>2, ElementOfSeq
      <3> QED
        BY <1>1, <3>1, LenProperties, ElementOfSeq
    <2>5. P!Corners(p) = [i \in 1 .. Len(s) |-> sys.points[s[i]]]
      BY <2>1, <2>3 DEF P!Corners
    <2>6. P!Corners(p) \in [1 .. Len(s) -> Located]
      BY <2>4, <2>5
    <2>7. P!Corners(p) \in Seq(Located)
      BY <2>3, <2>6, SeqDef
    <2>8. Len(P!Corners(p)) = Len(s)
      BY <2>3, <2>6, <2>7, LenProperties
    <2> QED
      BY <2>1, <2>2, <2>3, <2>6, <2>7, <2>8
  <1>5. ASSUME NEW p \in P!Polygons, NEW i \in DOMAIN P!Corners(p)
        PROVE  P!Adjacent(p, i) \in {P!NoPolygon} \cup P!Polygons
    BY <1>1, <1>4 DEF P!Adjacent, P!InitPathFinder, P!Polygons
  <1> QED
    BY <1>2, <1>4, <1>5

(* The index after one of a sequence is one of it. *)
LEMMA NextIsOne ==
    ASSUME NEW s, Len(s) \in Nat, NEW i \in 1 .. Len(s)
    PROVE  P!NextIndex(s, i) \in 1 .. Len(s)
  BY DEF P!NextIndex

(* The numbers of the search. *)
LEMMA DistanceIsNat ==
    ASSUME NEW a \in Located, NEW b \in Located
    PROVE  P!Distance(a, b) \in Nat
  <1>1. PICK x \in Int : x = b.x - a.x
    BY DEF Located
  <1>2. PICK z \in Int : z = b.z - a.z
    BY DEF Located
  <1>3. P!Distance(a, b) = x * x + z * z
    BY <1>1, <1>2 DEF P!Distance, P!Dot, P!Vector, P!Point
  <1>4. x * x \in Nat
    OBVIOUS
  <1>5. z * z \in Nat
    OBVIOUS
  <1> QED
    BY <1>3, <1>4, <1>5

LEMMA PortalLocated ==
    ASSUME Shaped(sys), P!InitPathFinder(sys) # P!NoSystem,
           NEW p \in P!Polygons, NEW i \in DOMAIN P!Corners(p)
    PROVE  P!UpdateTrianglePortalPosition(p, i) \in Located
  <1>1. /\ P!Corners(p) \in Seq(Located) /\ Len(P!Corners(p)) \in Nat
        /\ DOMAIN P!Corners(p) = 1 .. Len(P!Corners(p))
    BY MeshKnown
  <1>2. PICK a : a = P!Corners(p)[i]
    OBVIOUS
  <1>3. PICK b : b = P!Corners(p)[P!NextIndex(P!Corners(p), i)]
    OBVIOUS
  <1>4. P!NextIndex(P!Corners(p), i) \in 1 .. Len(P!Corners(p))
    BY <1>1, NextIsOne
  <1>5. a \in Located /\ b \in Located
    BY <1>1, <1>2, <1>3, <1>4, ElementOfSeq
  <1>6. P!UpdateTrianglePortalPosition(p, i) = [x |-> (a.x + b.x) \div 2, z |-> (a.z + b.z) \div 2]
    BY <1>2, <1>3 DEF P!UpdateTrianglePortalPosition, P!Point
  <1>7. (a.x + b.x) \div 2 \in Int /\ (a.z + b.z) \div 2 \in Int
    BY <1>5 DEF Located
  <1> QED
    BY <1>6, <1>7 DEF Located

\* e is d with polygon n entered from best.
Enters(d, e, best, i, total) ==
    LET n == P!Adjacent(best, i)
    IN  /\ e \in [P!Polygons -> Datum]
        /\ e[n].flag = d[n].flag \cup {"open"} /\ e[n].parent = best /\ e[n].index = i
        /\ e[n].totalCost = total
        /\ \A q \in P!Polygons \ {n} : e[q] = d[q]

(* To enter a polygon for less than before keeps the parents in order, since *)
(* no cost is taken off on the way: what went through n is not before best.  *)
LEMMA EnteringKeeps ==
    ASSUME NEW d \in [P!Polygons -> Datum], NEW b, Rising(d, b), Rooted(d, b),
           NEW best \in Reached(d), NEW i \in DOMAIN P!Corners(best),
           P!Adjacent(best, i) \in P!Polygons, P!NoPolygon \notin P!Polygons,
           NEW total \in Int, d[best].totalCost <= total,
           d[P!Adjacent(best, i)].flag = {} \/ total < d[P!Adjacent(best, i)].totalCost,
           NEW e, Enters(d, e, best, i, total)
    PROVE  /\ Reached(e) = Reached(d) \cup {P!Adjacent(best, i)}
           /\ OpenIn(e) = OpenIn(d) \cup {P!Adjacent(best, i)}
           /\ Rising(e, b) /\ Rooted(e, b)
  <1>1. PICK n \in P!Polygons : n = P!Adjacent(best, i)
    OBVIOUS
  <1>2. /\ e \in [P!Polygons -> Datum]
        /\ e[n].flag = d[n].flag \cup {"open"} /\ e[n].parent = best /\ e[n].index = i
        /\ e[n].totalCost = total
        /\ \A q \in P!Polygons \ {n} : e[q] = d[q]
    BY <1>1 DEF Enters
  <1>3. \A q \in P!Polygons : d[q].totalCost \in Int /\ d[q].flag \in SUBSET {"open", "closed"}
    BY DEF Datum
  <1>4. /\ b \in Reached(d) /\ d[b].parent = P!NoPolygon
        /\ \A q \in Reached(d) : d[b].totalCost <= d[q].totalCost
        /\ \A q \in Reached(d) \ {b} : FromParent(d, q)
        /\ \A q \in P!Polygons \ Reached(d) : d[q].parent = P!NoPolygon
    BY DEF Rising
  <1>5. Reached(d) \subseteq P!Polygons /\ \A q \in P!Polygons : q \in Reached(d) <=> d[q].flag # {}
    BY DEF Reached
  <1>6. d[n].flag = {} \/ total < d[n].totalCost
    BY <1>1
  <1>7. n # b /\ n # best
    <2>1. d[b].totalCost <= total
      BY <1>3, <1>4, <1>5
    <2> QED
      BY <1>3, <1>4, <1>5, <1>6, <2>1
  <1>8. Reached(e) = Reached(d) \cup {n}
    BY <1>2, <1>5 DEF Reached
  <1>9. OpenIn(e) = OpenIn(d) \cup {n}
    BY <1>2 DEF OpenIn
  <1>10. ASSUME NEW q \in Reached(e) \ {b}
         PROVE  FromParent(e, q)
    <2>1. CASE q = n
      <3>1. e[best] = d[best] /\ best \in Reached(e)
        BY <1>2, <1>5, <1>7, <1>8
      <3> QED
        BY <1>1, <1>2, <2>1, <3>1 DEF FromParent
    <2>2. CASE q # n
      <3>1. q \in Reached(d) \ {b} /\ e[q] = d[q]
        BY <1>2, <1>5, <1>8, <2>2
      <3>2. FromParent(d, q)
        BY <1>4, <3>1
      <3>3. PICK p : p = d[q].parent
        OBVIOUS
      <3>4. /\ p \in Reached(d) /\ d[q].index \in DOMAIN P!Corners(p)
            /\ P!Adjacent(p, d[q].index) = q /\ d[p].totalCost <= d[q].totalCost
        BY <3>2, <3>3 DEF FromParent
      <3>5. e[p].totalCost <= d[p].totalCost
        <4>1. CASE p = n
          BY <1>2, <1>3, <1>5, <1>6, <3>4, <4>1
        <4>2. CASE p # n
          BY <1>2, <1>3, <1>5, <3>4, <4>2
        <4> QED
          BY <4>1, <4>2
      <3>6. e[p].totalCost \in Int /\ d[p].totalCost \in Int /\ d[q].totalCost \in Int
        BY <1>2, <1>3, <1>5, <3>1, <3>4 DEF Datum
      <3>7. e[p].totalCost <= e[q].totalCost
        BY <3>1, <3>4, <3>5, <3>6
      <3> QED
        BY <1>8, <3>1, <3>3, <3>4, <3>7 DEF FromParent
    <2> QED
      BY <2>1, <2>2
  <1>11. Rising(e, b)
    <2>1. b \in Reached(e) /\ e[b] = d[b]
      BY <1>2, <1>4, <1>5, <1>7, <1>8
    <2>2. ASSUME NEW q \in Reached(e)
          PROVE  e[b].totalCost <= e[q].totalCost
      <3>1. CASE q = n
        BY <1>2, <1>3, <1>4, <1>5, <2>1, <3>1
      <3>2. CASE q # n
        BY <1>2, <1>4, <1>5, <1>8, <2>1, <3>2
      <3> QED
        BY <3>1, <3>2
    <2>3. \A q \in P!Polygons \ Reached(e) : e[q].parent = P!NoPolygon
      BY <1>2, <1>4, <1>8
    <2> QED
      BY <1>4, <1>10, <2>1, <2>2, <2>3 DEF Rising
  <1>12. ASSUME NEW R \in SUBSET P!Polygons, Spans(R, e, b)
         PROVE  Reached(e) \subseteq R
    <2>1. b \in R /\ \A q \in P!Polygons : e[q].parent \in R => q \in R
      BY <1>12 DEF Spans
    <2>2. \A q \in P!Polygons : q # n /\ d[q].parent \in R => q \in R
      BY <1>2, <2>1
    <2>3. best \in R => n \in R
      BY <1>2, <2>1
    <2>4. best \in R
      <3>1. CASE d[n].flag = {}
        <4>1. d[n].parent \notin R
          BY <1>4, <1>5, <3>1
        <4>2. Spans(R, d, b)
          BY <2>1, <2>2, <4>1 DEF Spans
        <4> QED
          BY <4>2 DEF Rooted
      <3>2. CASE d[n].flag # {}
        <4> DEFINE L == {x \in Reached(d) : d[n].totalCost <= d[x].totalCost}
                   R2 == R \cup L
        <4>1. n \in L /\ best \notin L
          BY <1>3, <1>5, <1>6, <3>2
        <4>2. ASSUME NEW q \in P!Polygons, d[q].parent \in R2
              PROVE  q \in R2
          <5>1. CASE q = n
            BY <4>1, <5>1
          <5>2. CASE q # n /\ d[q].parent \in R
            BY <2>2, <5>2
          <5>3. CASE q # n /\ d[q].parent \notin R
            <6>1. d[q].parent \in L
              BY <4>2, <5>3
            <6>2. d[q].parent \in P!Polygons /\ q \in Reached(d) /\ q # b
              BY <1>4, <1>5, <6>1
            <6>3. d[d[q].parent].totalCost <= d[q].totalCost
              BY <1>4, <6>2 DEF FromParent
            <6>4. d[n].totalCost <= d[d[q].parent].totalCost
              BY <6>1
            <6>5. d[n].totalCost <= d[q].totalCost
              BY <1>3, <6>2, <6>3, <6>4
            <6> QED
              BY <6>2, <6>5
          <5> QED
            BY <5>1, <5>2, <5>3
        <4>3. R2 \in SUBSET P!Polygons /\ b \in R2
          BY <1>5, <2>1
        <4> HIDE DEF R2
        <4>4. Spans(R2, d, b)
          BY <4>2, <4>3 DEF Spans
        <4>5. Reached(d) \subseteq R2
          BY <4>3, <4>4 DEF Rooted
        <4> QED
          BY <4>1, <4>5 DEF R2
      <3> QED
        BY <3>1, <3>2
    <2>5. \A q \in P!Polygons : d[q].parent \in R => q \in R
      BY <2>2, <2>3, <2>4
    <2>6. Spans(R, d, b)
      BY <2>1, <2>5 DEF Spans
    <2>7. Reached(d) \subseteq R
      BY <2>6 DEF Rooted
    <2> QED
      BY <1>8, <2>3, <2>4, <2>7
  <1>13. Rooted(e, b)
    BY <1>12 DEF Rooted
  <1> QED
    BY <1>1, <1>8, <1>9, <1>11, <1>13

\* The search while the neighbours of best are looked at.
Searching(b, best) ==
    {w \in [data : [P!Polygons -> Datum], heap : Seq(P!Polygons),
            lastBest : {P!NoPolygon} \cup P!Polygons, lastBestCost : Int] :
        /\ SoundSearch(w.data, w.heap, b) /\ best \in Reached(w.data)
        /\ Covered(w.data, best) /\ "closed" \notin w.data[search.target].flag
        /\ w.lastBest \in {P!NoPolygon} \cup Reached(w.data)}

(* An order of the open polygons is a heap of polygons. *)
LEMMA HeapOfOpen ==
    ASSUME NEW d, NEW n \in Nat, NEW h \in Orders(OpenIn(d), n)
    PROVE  Heaped(d, h) /\ h \in Seq(P!Polygons) /\ Len(h) = n
  <1>1. Len(h) = n
    BY OrderIsSequence
  <1>2. OpenIn(d) \subseteq P!Polygons
    BY DEF OpenIn
  <1>3. h \in [1 .. n -> P!Polygons]
    BY <1>2 DEF Orders
  <1>4. h \in Seq(P!Polygons)
    BY <1>3, SeqDef
  <1> QED
    BY <1>1, <1>4 DEF Heaped

(* A neighbour looked at leaves a search of the kind it found, in which it   *)
(* was entered by now.                                                      *)
LEMMA NeighbourKeeps ==
    ASSUME Shaped(sys), P!InitPathFinder(sys) # P!NoSystem, search.targetPoint \in Located,
           search.target \in P!Polygons,
           NEW b, NEW best \in P!Polygons, NEW w \in Searching(b, best), NEW i \in DOMAIN P!Corners(best)
    PROVE  /\ P!Neighbour(w, best, i) \in Searching(b, best)
           /\ Reached(w.data) \subseteq Reached(P!Neighbour(w, best, i).data)
           /\ P!Adjacent(best, i) \in {P!NoPolygon} \cup Reached(P!Neighbour(w, best, i).data)
  <1> DEFINE n         == P!Adjacent(best, i)
             pos       == IF w.data[n].flag = {} THEN P!UpdateTrianglePortalPosition(best, i)
                                                 ELSE w.data[n].pos
             heuristic == P!Distance(pos, search.targetPoint)
             total     == P!Distance(w.data[best].pos, pos) + w.data[best].totalCost + heuristic
             entered   == [w.data EXCEPT ![n] = [flag |-> @.flag \cup {"open"}, parent |-> best,
                                                 index |-> i, totalCost |-> total, pos |-> pos]]
             closer    == w.lastBestCost > heuristic
             moved     == IF "open" \in w.data[n].flag
                          THEN P!Modify(w.heap, P!TotalCosts(entered), n)
                          ELSE P!Push(w.heap, P!TotalCosts(entered), n)
             after     == [data         |-> entered,
                           heap         |-> moved,
                           lastBest     |-> IF closer THEN n ELSE w.lastBest,
                           lastBestCost |-> IF closer THEN heuristic ELSE w.lastBestCost]
  <1>1. P!Neighbour(w, best, i) = IF n = P!NoPolygon THEN w
                                  ELSE IF P!Skipped(w.data, best, n, total) THEN w
                                  ELSE after
    BY DEF P!Neighbour
  <1>2. /\ w.data \in [P!Polygons -> Datum] /\ w.heap \in Seq(P!Polygons)
        /\ w.lastBest \in {P!NoPolygon} \cup Reached(w.data) /\ w.lastBestCost \in Int
        /\ Heaped(w.data, w.heap) /\ Rising(w.data, b) /\ Rooted(w.data, b)
        /\ best \in Reached(w.data) /\ Covered(w.data, best)
        /\ "closed" \notin w.data[search.target].flag
    BY DEF Searching, SoundSearch
  <1>3. n \in {P!NoPolygon} \cup P!Polygons /\ P!NoPolygon \notin P!Polygons /\ i \in Nat
    <2>1. P!Polygons = 1 .. Len(sys.polygons) /\ Len(sys.polygons) \in Nat
          /\ n \in {P!NoPolygon} \cup P!Polygons
          /\ DOMAIN P!Corners(best) = 1 .. Len(P!Corners(best)) /\ Len(P!Corners(best)) \in Nat
      BY MeshKnown
    <2> QED
      BY <2>1 DEF P!NoPolygon
  <1>4. /\ Reached(w.data) \subseteq P!Polygons
        /\ \A q \in P!Polygons : q \in Reached(w.data) <=> w.data[q].flag # {}
    BY DEF Reached
  <1>5. CASE n = P!NoPolygon
    BY <1>1, <1>5
  <1>6. CASE n # P!NoPolygon /\ P!Skipped(w.data, best, n, total)
    <2>1. P!Neighbour(w, best, i) = w
      BY <1>1, <1>6
    <2>2. n \in P!Polygons
      BY <1>3, <1>6
    <2> HIDE DEF n, total
    <2>3. CASE w.data[best].parent = n
      <3>1. n \in Reached(w.data)
        <4>1. best # b
          BY <1>6, <2>3, <1>2 DEF Rising
        <4> QED
          BY <1>2, <2>3, <4>1 DEF Rising, FromParent
      <3> QED
        BY <2>1, <3>1 DEF n
    <2>4. CASE w.data[n].flag # {}
      BY <1>4, <2>1, <2>2, <2>4 DEF n
    <2> QED
      BY <1>6, <2>3, <2>4 DEF P!Skipped
  <1>7. CASE n # P!NoPolygon /\ ~P!Skipped(w.data, best, n, total)
    <2>1. n \in P!Polygons
      BY <1>3, <1>7
    <2>2. pos \in Located
      <3>1. P!UpdateTrianglePortalPosition(best, i) \in Located
        BY PortalLocated
      <3>2. w.data[n].pos \in Located
        BY <1>2, <2>1 DEF Datum
      <3> QED
        BY <3>1, <3>2
    <2> HIDE DEF pos
    <2>3. heuristic \in Nat
      BY <2>2, DistanceIsNat
    <2> HIDE DEF heuristic
    <2>4. total \in Int /\ w.data[best].totalCost <= total
      <3>1. w.data[best].pos \in Located /\ w.data[best].totalCost \in Int
        BY <1>2 DEF Datum
      <3>2. P!Distance(w.data[best].pos, pos) \in Nat
        BY <2>2, <3>1, DistanceIsNat
      <3> QED
        BY <2>3, <3>1, <3>2
    <2> HIDE DEF total
    <2>5. w.data[n].flag = {} \/ total < w.data[n].totalCost
      <3>1. w.data[n].totalCost \in Int
        BY <1>2, <2>1 DEF Datum
      <3> QED
        BY <1>7, <2>4, <3>1 DEF P!Skipped
    <2>6. PICK r : r = [flag |-> w.data[n].flag \cup {"open"}, parent |-> best,
                        index |-> i, totalCost |-> total, pos |-> pos]
      OBVIOUS
    <2>7. r \in Datum
      <3>1. w.data[n].flag \in SUBSET {"open", "closed"}
        BY <1>2, <2>1 DEF Datum
      <3> QED
        BY <1>3, <2>2, <2>4, <2>6, <3>1 DEF Datum
    <2>8. entered = [w.data EXCEPT ![n] = r]
      BY <2>6
    <2> HIDE DEF entered
    <2>9. /\ entered \in [P!Polygons -> Datum] /\ entered[n] = r
          /\ \A q \in P!Polygons \ {n} : entered[q] = w.data[q]
      BY <1>2, <2>1, <2>7, <2>8
    <2>10. Enters(w.data, entered, best, i, total)
      BY <2>6, <2>9 DEF Enters
    <2>11. /\ Reached(entered) = Reached(w.data) \cup {n}
           /\ OpenIn(entered) = OpenIn(w.data) \cup {n}
           /\ Rising(entered, b) /\ Rooted(entered, b)
      BY <1>2, <1>3, <2>1, <2>4, <2>5, <2>10, EnteringKeeps
    <2> HIDE DEF n
    <2>12. Heaped(entered, moved) /\ moved \in Seq(P!Polygons)
      <3>1. Len(w.heap) \in Nat /\ w.heap \in Orders(OpenIn(w.data), Len(w.heap))
        BY <1>2 DEF Heaped
      <3>2. CASE "open" \in w.data[n].flag
        <4>1. OpenIn(entered) = OpenIn(w.data)
          BY <2>1, <2>11, <3>2 DEF OpenIn
        <4>2. moved \in Orders(OpenIn(entered), Len(w.heap))
          BY <3>1, <3>2, <4>1, ModifyKeeps
        <4> QED
          BY <3>1, <4>2, HeapOfOpen
      <3>3. CASE "open" \notin w.data[n].flag
        <4>1. n \notin OpenIn(w.data)
          BY <3>3 DEF OpenIn
        <4>2. moved \in Orders(OpenIn(entered), Len(w.heap) + 1)
          BY <2>11, <3>1, <3>3, <4>1, PushAdds
        <4> QED
          BY <3>1, <4>2, HeapOfOpen
      <3> QED
        BY <3>2, <3>3
    <2> HIDE DEF moved
    <2>13. Covered(entered, best)
      <3> SUFFICES ASSUME NEW p \in P!Polygons \ {best}, "closed" \in entered[p].flag
                   PROVE  Beside(p, entered)
        BY DEF Covered
      <3>1. "closed" \in w.data[p].flag
        BY <2>1, <2>6, <2>9
      <3>2. Beside(p, w.data)
        BY <1>2, <3>1 DEF Covered
      <3> QED
        BY <2>11, <3>2 DEF Beside
    <2>14. "closed" \notin entered[search.target].flag
      BY <1>2, <2>1, <2>6, <2>9
    <2>15. /\ after.data = entered /\ after.heap = moved
           /\ after.lastBest \in {P!NoPolygon} \cup Reached(entered)
           /\ after.lastBest \in {P!NoPolygon} \cup P!Polygons
           /\ after.lastBestCost \in Int
      BY <1>2, <1>4, <2>1, <2>3, <2>11
    <2>16. after \in [data : [P!Polygons -> Datum], heap : Seq(P!Polygons),
                      lastBest : {P!NoPolygon} \cup P!Polygons, lastBestCost : Int]
      BY <2>9, <2>12, <2>15
    <2>17. P!Neighbour(w, best, i) = after
      BY <1>1, <1>7
    <2> HIDE DEF after
    <2>18. after \in Searching(b, best)
      BY <1>2, <2>9, <2>11, <2>12, <2>13, <2>14, <2>15, <2>16 DEF Searching, SoundSearch
    <2>19. n \in Reached(after.data) /\ Reached(w.data) \subseteq Reached(after.data)
      BY <2>11, <2>15
    <2> QED
      BY <2>17, <2>18, <2>19 DEF n
  <1> QED
    BY <1>5, <1>6, <1>7

(* The loop over the edges of best: it leaves such a search too, and all the *)
(* neighbours of best are entered.                                          *)
LEMMA SearchedKeeps ==
    ASSUME Shaped(sys), P!InitPathFinder(sys) # P!NoSystem, search.targetPoint \in Located,
           search.target \in P!Polygons,
           NEW b, NEW best \in P!Polygons, NEW w \in Searching(b, best)
    PROVE  P!Searched(w, best) \in Searching(b, best) /\ Beside(best, P!Searched(w, best).data)
  <1> DEFINE n == Len(P!Corners(best))
             V == Searching(b, best)
             g == [x \in (1 .. n) \X V |-> P!Neighbour(x[2], best, x[1])]
             IsDone(f) == f = [i \in 0 .. n |-> IF i = 0 THEN w ELSE P!Neighbour(f[i - 1], best, i)]
             done == CHOOSE f : IsDone(f)
             Seen(v, m) == \A i \in 1 .. m : P!Adjacent(best, i) \in {P!NoPolygon} \cup Reached(v.data)
  <1>1. n \in Nat /\ DOMAIN P!Corners(best) = 1 .. n
    BY MeshKnown
  <1>2. P!Searched(w, best) = done[n]
    BY DEF P!Searched
  <1> HIDE DEF n
  <1>3. ASSUME NEW i \in 1 .. n, NEW v \in V
        PROVE  /\ P!Neighbour(v, best, i) \in V
               /\ Reached(v.data) \subseteq Reached(P!Neighbour(v, best, i).data)
               /\ P!Adjacent(best, i) \in {P!NoPolygon} \cup Reached(P!Neighbour(v, best, i).data)
    BY <1>1, NeighbourKeeps
  <1>4. g \in [(1 .. n) \X V -> V]
    BY <1>3
  <1>5. \A i \in 1 .. n, x \in V : g[<<i, x>>] = P!Neighbour(x, best, i)
    OBVIOUS
  <1>6. w \in V
    OBVIOUS
  <1> HIDE DEF g, V
  <1>7. PICK f \in [0 .. n -> V] : Runs(f, n, w, g)
    BY <1>1, <1>4, <1>6, RunExists
  <1>8. \A m \in 0 .. n : f[m] = IF m = 0 THEN w ELSE P!Neighbour(f[m - 1], best, m)
    <2> SUFFICES ASSUME NEW m \in 0 .. n, m # 0
                 PROVE  f[m] = P!Neighbour(f[m - 1], best, m)
      BY <1>7 DEF Runs
    <2>1. m \in 1 .. n /\ m - 1 \in 0 .. n
      BY <1>1
    <2>2. f[m - 1] \in V
      BY <1>7, <2>1
    <2> QED
      BY <1>5, <1>7, <2>1, <2>2 DEF Runs
  <1>9. IsDone(f)
    BY <1>7, <1>8
  <1>10. IsDone(done)
    <2> HIDE DEF IsDone
    <2> QED
      BY <1>9
  <1> HIDE DEF done
  <1>11. \A m \in 0 .. n : done[m] = IF m = 0 THEN w ELSE P!Neighbour(done[m - 1], best, m)
    BY <1>10
  <1> HIDE DEF IsDone
  <1> DEFINE D == {m \in 0 .. n : done[m] \in V /\ Seen(done[m], m)}
  <1>12. 0 \in D
    <2>1. 0 \in 0 .. n /\ 1 .. 0 = {}
      BY <1>1
    <2> QED
      BY <1>6, <1>11, <2>1
  <1>13. ASSUME NEW m \in 1 .. n, m - 1 \in D
         PROVE  m \in D
    <2>1. PICK v : v = done[m - 1]
      OBVIOUS
    <2>2. PICK u : u = P!Neighbour(v, best, m)
      OBVIOUS
    <2>3. v \in V /\ \A i \in 1 .. m - 1 : P!Adjacent(best, i) \in {P!NoPolygon} \cup Reached(v.data)
      BY <1>13, <2>1
    <2>4. /\ u \in V /\ Reached(v.data) \subseteq Reached(u.data)
          /\ P!Adjacent(best, m) \in {P!NoPolygon} \cup Reached(u.data)
      BY <1>3, <2>2, <2>3
    <2>5. done[m] = u /\ m \in 0 .. n
      BY <1>1, <1>11, <2>1, <2>2
    <2>6. 1 .. m = (1 .. m - 1) \cup {m}
      BY <1>1
    <2>7. Seen(u, m)
      BY <2>3, <2>4, <2>6
    <2> HIDE DEF Seen
    <2> QED
      BY <2>4, <2>5, <2>7
  <1>14. n \in D
    <2>1. n \in 0 .. n
      BY <1>1
    <2> HIDE DEF D
    <2> QED
      BY <1>1, <1>12, <1>13, <2>1, Upwards
  <1>15. done[n] \in V /\ Seen(done[n], n)
    BY <1>14
  <1> QED
    BY <1>1, <1>2, <1>15 DEF V, Beside

\* The sets R[m] hold what m steps reach.
Grows(R, ps, step) ==
    /\ ps \subseteq R[0]
    /\ \A m \in 1 .. Len(sys.polygons) :
          R[m - 1] \subseteq R[m] /\ \A p \in R[m - 1] : p \in P!Polygons => step[p] \subseteq R[m]

(* What n steps reach: every closure is a set of polygons that holds what    *)
(* it begins with, is closed under the step, and is in all that grows so.   *)
LEMMA ClosureFacts ==
    ASSUME Len(sys.polygons) \in Nat, P!Polygons = 1 .. Len(sys.polygons),
           NEW ps \in SUBSET P!Polygons, NEW step \in [P!Polygons -> SUBSET P!Polygons]
    PROVE  /\ P!Closure(ps, step) \in SUBSET P!Polygons
           /\ ps \subseteq P!Closure(ps, step)
           /\ \A p \in P!Closure(ps, step) : step[p] \subseteq P!Closure(ps, step)
           /\ \A R : Grows(R, ps, step) => P!Closure(ps, step) \subseteq R[Len(sys.polygons)]
  <1> DEFINE n == Len(sys.polygons)
             V == SUBSET P!Polygons
             More(s) == s \cup UNION {step[p] : p \in s}
             g == [x \in (1 .. n) \X V |-> More(x[2])]
             IsReach(f) == f = [i \in 0 .. n |-> IF i = 0 THEN ps ELSE More(f[i - 1])]
             reached == CHOOSE f : IsReach(f)
  <1>1. P!Closure(ps, step) = reached[n]
    BY DEF P!Closure
  <1>2. n \in Nat /\ P!Polygons = 1 .. n
    OBVIOUS
  <1>3. IsFiniteSet(P!Polygons) /\ Cardinality(P!Polygons) = n
    BY <1>2, FS_Interval
  <1> HIDE DEF n
  <1>4. ASSUME NEW s \in V
        PROVE  More(s) \in V
    <2>1. \A p \in s : p \in P!Polygons /\ step[p] \subseteq P!Polygons
      OBVIOUS
    <2>2. UNION {step[p] : p \in s} \subseteq P!Polygons
      BY <2>1
    <2> QED
      BY <2>2
  <1>5. g \in [(1 .. n) \X V -> V] /\ \A i \in 1 .. n, x \in V : g[<<i, x>>] = More(x)
    BY <1>4
  <1> HIDE DEF g, V, More
  <1>6. ps \in V
    BY DEF V
  <1>7. PICK f \in [0 .. n -> V] : Runs(f, n, ps, g)
    BY <1>2, <1>5, <1>6, RunExists
  <1>8. \A m \in 0 .. n : f[m] = IF m = 0 THEN ps ELSE More(f[m - 1])
    <2> SUFFICES ASSUME NEW m \in 0 .. n, m # 0
                 PROVE  f[m] = More(f[m - 1])
      BY <1>7 DEF Runs
    <2>1. m \in 1 .. n /\ m - 1 \in 0 .. n
      BY <1>2
    <2>2. f[m - 1] \in V
      BY <1>7, <2>1
    <2> QED
      BY <1>5, <1>7, <2>1, <2>2 DEF Runs
  <1>9. IsReach(f)
    BY <1>7, <1>8
  <1>10. IsReach(reached)
    <2> HIDE DEF IsReach
    <2> QED
      BY <1>9
  <1> HIDE DEF reached
  <1>11. \A m \in 0 .. n : reached[m] = IF m = 0 THEN ps ELSE More(reached[m - 1])
    BY <1>10
  <1> HIDE DEF IsReach
  <1>12. ASSUME NEW m \in 1 .. n
         PROVE  reached[m] = More(reached[m - 1])
    BY <1>2, <1>11
  <1> DEFINE Stable(s) == More(s) = s
             D == {m \in 0 .. n : /\ reached[m] \in V /\ ps \subseteq reached[m]
                                  /\ Stable(reached[m]) \/ Cardinality(reached[m]) >= m}
  <1>13. 0 \in D
    <2>1. 0 \in 0 .. n /\ reached[0] = ps
      BY <1>2, <1>11
    <2>2. IsFiniteSet(ps)
      BY <1>3, FS_Subset
    <2>3. Cardinality(ps) \in Nat
      BY <2>2, FS_CardinalityType
    <2>4. Cardinality(ps) >= 0
      BY <2>3
    <2> HIDE DEF Stable
    <2> QED
      BY <1>6, <2>1, <2>4
  <1>14. ASSUME NEW m \in 1 .. n, m - 1 \in D
         PROVE  m \in D
    <2>1. PICK s : s = reached[m - 1]
      OBVIOUS
    <2>2. PICK u : u = More(s)
      OBVIOUS
    <2>3. s \in V /\ ps \subseteq s /\ (Stable(s) \/ Cardinality(s) >= m - 1)
      BY <1>14, <2>1
    <2>4. u \in V /\ s \subseteq u /\ reached[m] = u /\ m \in 0 .. n
      BY <1>2, <1>4, <1>12, <2>1, <2>2, <2>3 DEF More
    <2>5. CASE u = s
      <3>1. Stable(u)
        BY <2>2, <2>5
      <3> HIDE DEF Stable
      <3> QED
        BY <2>3, <2>4, <3>1
    <2>6. CASE u # s
      <3>1. ~ Stable(s)
        BY <2>2, <2>6
      <3>2. Cardinality(s) >= m - 1
        BY <2>3, <3>1
      <3>3. IsFiniteSet(u) /\ IsFiniteSet(s)
        BY <1>3, <2>3, <2>4, FS_Subset DEF V
      <3>4. Cardinality(s) < Cardinality(u) /\ Cardinality(s) \in Nat /\ Cardinality(u) \in Nat
        <4>1. Cardinality(s) <= Cardinality(u) /\ (Cardinality(s) = Cardinality(u) => s = u)
          BY <2>4, <3>3, FS_Subset
        <4> QED
          BY <2>6, <3>3, <4>1, FS_CardinalityType
      <3>5. Cardinality(u) >= m
        BY <1>2, <3>2, <3>4
      <3> HIDE DEF Stable
      <3> QED
        BY <2>3, <2>4, <3>5
    <2> QED
      BY <2>5, <2>6
  <1>15. n \in D
    <2>1. n \in 0 .. n
      BY <1>2
    <2> HIDE DEF D
    <2> QED
      BY <1>2, <1>13, <1>14, <2>1, Upwards
  <1>16. PICK c : c = reached[n]
    OBVIOUS
  <1>17. c \in V /\ ps \subseteq c /\ (Stable(c) \/ Cardinality(c) >= n)
    BY <1>15, <1>16
  <1>18. Stable(c)
    <2> SUFFICES ASSUME Cardinality(c) >= n
                 PROVE  Stable(c)
      BY <1>17
    <2>1. Cardinality(c) <= n /\ (Cardinality(c) = n => c = P!Polygons)
      BY <1>3, <1>17, FS_Subset DEF V
    <2>2. Cardinality(c) \in Nat
      BY <1>3, <1>17, FS_Subset, FS_CardinalityType DEF V
    <2>3. c = P!Polygons
      BY <1>2, <2>1, <2>2
    <2>4. More(P!Polygons) = P!Polygons
      BY DEF More
    <2> QED
      BY <2>3, <2>4
  <1>19. \A p \in c : step[p] \subseteq c
    BY <1>18 DEF More
  <1>20. ASSUME NEW R, Grows(R, ps, step)
         PROVE  c \subseteq R[n]
    <2> DEFINE E == {m \in 0 .. n : reached[m] \in V /\ reached[m] \subseteq R[m]}
    <2>1. 0 \in E
      <3>1. 0 \in 0 .. n
        BY <1>2
      <3>2. reached[0] = ps
        BY <1>11, <3>1
      <3> QED
        BY <1>6, <1>20, <3>1, <3>2 DEF Grows
    <2>2. ASSUME NEW m \in 1 .. n, m - 1 \in E
          PROVE  m \in E
      <3>1. PICK s : s = reached[m - 1]
        OBVIOUS
      <3>2. s \in V /\ s \subseteq R[m - 1]
        BY <2>2, <3>1
      <3>3. R[m - 1] \subseteq R[m] /\ \A p \in R[m - 1] : p \in P!Polygons => step[p] \subseteq R[m]
        BY <1>20 DEF Grows, n
      <3>4. More(s) \in V /\ More(s) \subseteq R[m]
        <4>1. \A p \in s : p \in P!Polygons /\ p \in R[m - 1]
          BY <3>2 DEF V
        <4>2. \A p \in s : step[p] \subseteq R[m]
          BY <3>3, <4>1
        <4>3. UNION {step[p] : p \in s} \subseteq R[m]
          BY <4>2
        <4>4. More(s) \subseteq R[m]
          BY <3>2, <3>3, <4>3 DEF More
        <4> QED
          BY <1>4, <3>2, <4>4
      <3>5. reached[m] = More(s) /\ m \in 0 .. n
        BY <1>2, <1>12, <3>1
      <3> QED
        BY <3>4, <3>5
    <2>3. n \in E
      <3>1. n \in 0 .. n
        BY <1>2
      <3> HIDE DEF E
      <3> QED
        BY <1>2, <2>1, <2>2, <3>1, Upwards
    <2> QED
      BY <1>16, <2>3
  <1> HIDE DEF Stable
  <1> QED
    BY <1>1, <1>16, <1>17, <1>19, <1>20 DEF V, n

(* The least: a set closed under the step that holds the first holds all.    *)
LEMMA ClosureIsLeast ==
    ASSUME Len(sys.polygons) \in Nat, P!Polygons = 1 .. Len(sys.polygons),
           NEW ps \in SUBSET P!Polygons, NEW step \in [P!Polygons -> SUBSET P!Polygons],
           NEW R, ps \subseteq R, \A p \in R : p \in P!Polygons => step[p] \subseteq R
    PROVE  P!Closure(ps, step) \subseteq R
  <1> DEFINE L == [m \in 0 .. Len(sys.polygons) |-> R]
  <1>1. \A m \in 0 .. Len(sys.polygons) : L[m] = R
    OBVIOUS
  <1> HIDE DEF L
  <1>2. 0 \in 0 .. Len(sys.polygons) /\ Len(sys.polygons) \in 0 .. Len(sys.polygons)
    OBVIOUS
  <1>3. ASSUME NEW m \in 1 .. Len(sys.polygons)
        PROVE  L[m - 1] = R /\ L[m] = R
    <2>1. m \in 0 .. Len(sys.polygons) /\ m - 1 \in 0 .. Len(sys.polygons)
      OBVIOUS
    <2> QED
      BY <1>1, <2>1
  <1>4. Grows(L, ps, step)
    BY <1>1, <1>2, <1>3 DEF Grows
  <1>5. P!Closure(ps, step) \subseteq L[Len(sys.polygons)]
    BY <1>4, ClosureFacts
  <1> QED
    BY <1>1, <1>2, <1>5

-----------------------------------------------------------------------------
(* The way back along the parents.                                         *)

\* k parents of p lead to a polygon without one.
Leads(d, p, c, k) ==
    /\ c \in [0 .. k -> P!Polygons] /\ c[0] = p /\ d[c[k]].parent = P!NoPolygon
    /\ \A i \in 1 .. k : c[i] = d[c[i - 1]].parent
Back(d, p, m) == \E k \in 0 .. m : \E c \in [0 .. k -> P!Polygons] : Leads(d, p, c, k)

\* What SearchSound says of the parents.
ChildrenIn(d) == [p \in P!Polygons |-> {q \in P!Polygons : d[q].parent = p}]

(* It leads from every polygon entered to one without a parent, in as many   *)
(* steps as there are polygons.                                             *)
LEMMA EnteredLeadBack ==
    ASSUME Len(sys.polygons) \in Nat, P!Polygons = 1 .. Len(sys.polygons),
           NEW d, NEW b \in P!Polygons, d[b].parent = P!NoPolygon, Rooted(d, b)
    PROVE  /\ Reached(d) \subseteq P!Closure({b}, ChildrenIn(d))
           /\ \A p \in Reached(d) : Back(d, p, Len(sys.polygons))
  <1> DEFINE n == Len(sys.polygons)
             step == ChildrenIn(d)
             c == P!Closure({b}, step)
             L == [m \in 0 .. n |-> {p \in P!Polygons : Back(d, p, m)}]
  <1>1. step \in [P!Polygons -> SUBSET P!Polygons] /\ {b} \in SUBSET P!Polygons
    BY DEF ChildrenIn
  <1>2. \A p \in P!Polygons : step[p] = {q \in P!Polygons : d[q].parent = p}
    BY DEF ChildrenIn
  <1> HIDE DEF step
  <1>3. /\ c \in SUBSET P!Polygons /\ {b} \subseteq c
        /\ \A p \in c : step[p] \subseteq c
        /\ \A R : Grows(R, {b}, step) => c \subseteq R[n]
    BY <1>1, ClosureFacts
  <1> HIDE DEF c
  <1>4. Reached(d) \subseteq c
    <2>1. Spans(c, d, b)
      BY <1>2, <1>3 DEF Spans
    <2> QED
      BY <1>3, <2>1 DEF Rooted
  <1>5. \A m \in 0 .. n : L[m] = {p \in P!Polygons : Back(d, p, m)}
    OBVIOUS
  <1> HIDE DEF L
  <1>6. b \in L[0]
    <2>1. PICK f : f = [i \in 0 .. 0 |-> b]
      OBVIOUS
    <2>2. f \in [0 .. 0 -> P!Polygons] /\ f[0] = b
      BY <2>1
    <2>3. Leads(d, b, f, 0)
      BY <2>2 DEF Leads
    <2>4. 0 \in 0 .. 0 /\ 0 \in 0 .. n
      OBVIOUS
    <2>5. Back(d, b, 0)
      BY <2>2, <2>3, <2>4 DEF Back
    <2> QED
      BY <1>5, <2>4, <2>5
  <1>7. ASSUME NEW m \in 1 .. n, NEW p \in L[m - 1]
        PROVE  /\ p \in L[m]
               /\ p \in P!Polygons => step[p] \subseteq L[m]
    <2>1. m - 1 \in 0 .. n /\ m \in 0 .. n
      OBVIOUS
    <2>2. p \in P!Polygons /\ Back(d, p, m - 1)
      BY <1>5, <2>1
    <2>3. PICK k \in 0 .. m - 1 : \E f \in [0 .. k -> P!Polygons] : Leads(d, p, f, k)
      BY <2>2 DEF Back
    <2>4. PICK f \in [0 .. k -> P!Polygons] : Leads(d, p, f, k)
      BY <2>3
    <2>5. k \in 0 .. m /\ k + 1 \in 0 .. m /\ k \in Nat
      BY <2>3
    <2>6. p \in L[m]
      <3>1. Back(d, p, m)
        BY <2>4, <2>5 DEF Back
      <3> QED
        BY <1>5, <2>1, <2>2, <3>1
    <2>7. ASSUME NEW q \in P!Polygons, d[q].parent = p
          PROVE  q \in L[m]
      <3>1. PICK e : e = [i \in 0 .. k + 1 |-> IF i = 0 THEN q ELSE f[i - 1]]
        OBVIOUS
      <3>2. \A i \in 1 .. k + 1 : i - 1 \in 0 .. k
        BY <2>5
      <3>3. e \in [0 .. k + 1 -> P!Polygons]
        <4> SUFFICES ASSUME NEW i \in 0 .. k + 1
                     PROVE  (IF i = 0 THEN q ELSE f[i - 1]) \in P!Polygons
          BY <3>1
        <4>1. i # 0 => i - 1 \in 0 .. k
          BY <2>5
        <4> QED
          BY <4>1
      <3>4. e[0] = q /\ \A i \in 1 .. k + 1 : e[i] = f[i - 1]
        <4>1. 0 \in 0 .. k + 1 /\ \A i \in 1 .. k + 1 : i \in 0 .. k + 1 /\ i # 0
          BY <2>5
        <4> QED
          BY <3>1, <4>1
      <3>5. /\ f[0] = p /\ d[f[k]].parent = P!NoPolygon
            /\ \A i \in 1 .. k : f[i] = d[f[i - 1]].parent
        BY <2>4 DEF Leads
      <3>6. d[e[k + 1]].parent = P!NoPolygon
        <4>1. e[k + 1] = f[k]
          BY <2>5, <3>4
        <4> QED
          BY <3>5, <4>1
      <3>7. ASSUME NEW i \in 1 .. k + 1
            PROVE  e[i] = d[e[i - 1]].parent
        <4>1. CASE i = 1
          <5>1. e[i] = p /\ e[i - 1] = q
            BY <3>4, <3>5, <4>1
          <5> QED
            BY <2>7, <5>1
        <4>2. CASE i # 1
          <5>1. i - 1 \in 1 .. k /\ i - 1 \in 1 .. k + 1
            BY <2>5, <4>2
          <5>2. e[i] = f[i - 1] /\ e[i - 1] = f[(i - 1) - 1]
            BY <3>4, <5>1
          <5>3. f[i - 1] = d[f[(i - 1) - 1]].parent
            BY <3>5, <5>1
          <5> QED
            BY <5>2, <5>3
        <4> QED
          BY <4>1, <4>2
      <3>8. Leads(d, q, e, k + 1)
        BY <3>3, <3>4, <3>6, <3>7 DEF Leads
      <3>9. Back(d, q, m)
        BY <2>5, <3>3, <3>8 DEF Back
      <3> QED
        BY <1>5, <2>1, <3>9
    <2> QED
      BY <1>2, <2>6, <2>7
  <1>8. Grows(L, {b}, step)
    BY <1>6, <1>7 DEF Grows
  <1>9. c \subseteq L[n]
    BY <1>3, <1>8
  <1>10. n \in 0 .. n
    OBVIOUS
  <1>11. ASSUME NEW p \in Reached(d)
         PROVE  Back(d, p, n)
    BY <1>4, <1>5, <1>9, <1>10
  <1> QED
    BY <1>4, <1>11 DEF c, step

\* A path of m polygons to p, each the parent of the next, the first without one.
PathTo(d, path, m, p) ==
    /\ path \in [1 .. m -> P!Polygons] /\ path[m] = p /\ d[path[1]].parent = P!NoPolygon
    /\ \A k \in 1 .. m - 1 : path[k] = d[path[k + 1]].parent

(* The chain is such a path. *)
LEMMA ChainIsPath ==
    ASSUME P!NoPolygon \notin P!Polygons, Len(sys.polygons) \in Nat, P!Polygons = 1 .. Len(sys.polygons),
           NEW d \in [P!Polygons -> Datum], NEW p \in P!Polygons, Back(d, p, Len(sys.polygons))
    PROVE  \E m \in Nat \ {0} : PathTo(d, P!Chain(d, p), m, p)
  <1> DEFINE n == Len(sys.polygons)
             V == {P!NoPolygon} \cup P!Polygons
             Before(q) == IF q = P!NoPolygon THEN P!NoPolygon ELSE d[q].parent
             g == [x \in (1 .. n) \X V |-> Before(x[2])]
             IsBack(f) == f = [i \in 0 .. n |-> IF i = 0 THEN p
                                                ELSE IF f[i - 1] = P!NoPolygon THEN P!NoPolygon
                                                ELSE d[f[i - 1]].parent]
             back == CHOOSE f : IsBack(f)
             IsFirst(i) == back[i] # P!NoPolygon /\ d[back[i]].parent = P!NoPolygon
             first == CHOOSE i \in 0 .. n : IsFirst(i)
  <1>1. Len(d) = n
    <2>1. d \in Seq(Datum)
      BY SeqDef
    <2> QED
      BY <2>1, LenProperties
  <1>2. P!Chain(d, p) = [k \in 1 .. (first + 1) |-> back[first + 1 - k]]
    BY <1>1 DEF P!Chain
  <1>3. n \in Nat
    OBVIOUS
  <1>4. \A q \in P!Polygons : d[q].parent \in V
    BY DEF Datum
  <1>5. g \in [(1 .. n) \X V -> V] /\ \A i \in 1 .. n, x \in V : g[<<i, x>>] = Before(x)
    BY <1>4
  <1>6. p \in V
    OBVIOUS
  <1> HIDE DEF g, V, n
  <1>7. PICK f \in [0 .. n -> V] : Runs(f, n, p, g)
    BY <1>3, <1>5, <1>6, RunExists
  <1>8. \A m \in 0 .. n : f[m] = IF m = 0 THEN p ELSE Before(f[m - 1])
    <2> SUFFICES ASSUME NEW m \in 0 .. n, m # 0
                 PROVE  f[m] = Before(f[m - 1])
      BY <1>7 DEF Runs
    <2>1. m \in 1 .. n /\ m - 1 \in 0 .. n
      BY <1>3
    <2>2. f[m - 1] \in V
      BY <1>7, <2>1
    <2> HIDE DEF Before
    <2> QED
      BY <1>5, <1>7, <2>1, <2>2 DEF Runs
  <1>9. IsBack(f)
    BY <1>7, <1>8
  <1>10. IsBack(back)
    <2> HIDE DEF IsBack
    <2> QED
      BY <1>9
  <1> HIDE DEF back
  <1>11. back[0] = p /\ \A m \in 1 .. n : back[m] = Before(back[m - 1])
    <2>1. 0 \in 0 .. n /\ \A m \in 1 .. n : m \in 0 .. n /\ m # 0
      BY <1>3
    <2> QED
      BY <1>10, <2>1
  <1> HIDE DEF IsBack
  <1>12. PICK k \in 0 .. n : \E c \in [0 .. k -> P!Polygons] : Leads(d, p, c, k)
    BY DEF Back, n
  <1>13. PICK c \in [0 .. k -> P!Polygons] : Leads(d, p, c, k)
    BY <1>12
  <1>14. back[k] = c[k]
    <2> DEFINE D == {i \in 0 .. k : back[i] = c[i]}
    <2>1. 0 \in D
      BY <1>3, <1>11, <1>12, <1>13 DEF Leads
    <2>2. ASSUME NEW i \in 1 .. k, i - 1 \in D
          PROVE  i \in D
      <3>1. i \in 1 .. n /\ i \in 0 .. k /\ i - 1 \in 0 .. k
        BY <1>3, <1>12
      <3>2. back[i] = Before(c[i - 1]) /\ c[i - 1] \in P!Polygons
        BY <1>11, <1>13, <2>2, <3>1
      <3>3. c[i] = d[c[i - 1]].parent
        BY <1>13 DEF Leads
      <3> QED
        BY <3>1, <3>2, <3>3
    <2>3. k \in D
      <3>1. k \in 0 .. k /\ k \in Nat
        BY <1>3, <1>12
      <3> HIDE DEF D
      <3> QED
        BY <2>1, <2>2, <3>1, Upwards
    <2> QED
      BY <2>3
  <1>15. IsFirst(k)
    <2>1. c[k] \in P!Polygons
      BY <1>3, <1>12, <1>13
    <2> QED
      BY <1>13, <1>14, <2>1 DEF Leads
  <1>16. first \in 0 .. n /\ IsFirst(first)
    <2> HIDE DEF IsFirst
    <2> QED
      BY <1>12, <1>15
  <1> HIDE DEF first
  <1>17. first \in Nat /\ back[first] # P!NoPolygon /\ d[back[first]].parent = P!NoPolygon
    BY <1>3, <1>16
  <1> HIDE DEF IsFirst
  <1> DEFINE E == {m \in 0 .. n : /\ back[m] \in V
                                  /\ back[m] = P!NoPolygon \/ \A l \in 0 .. m : back[l] \in P!Polygons}
  <1>18. 0 \in E
    BY <1>3, <1>6, <1>11
  <1>19. ASSUME NEW m \in 1 .. n, m - 1 \in E
         PROVE  m \in E
    <2>1. m \in 0 .. n /\ 0 .. m = (0 .. m - 1) \cup {m} /\ m - 1 \in 0 .. m - 1
      BY <1>3
    <2>2. back[m] = Before(back[m - 1])
      BY <1>11
    <2>3. CASE back[m - 1] = P!NoPolygon
      BY <2>1, <2>2, <2>3 DEF V
    <2>4. CASE back[m - 1] # P!NoPolygon
      <3>1. \A l \in 0 .. m - 1 : back[l] \in P!Polygons
        BY <1>19, <2>4
      <3>2. back[m] \in V
        BY <1>4, <2>1, <2>2, <2>4, <3>1
      <3> QED
        BY <2>1, <3>1, <3>2 DEF V
    <2> QED
      BY <2>3, <2>4
  <1>20. first \in E
    <2> HIDE DEF E
    <2> QED
      BY <1>3, <1>16, <1>18, <1>19, Upwards
  <1>21. \A l \in 0 .. first : back[l] \in P!Polygons
    BY <1>17, <1>20
  <1>22. PICK path : path = P!Chain(d, p)
    OBVIOUS
  <1>23. ASSUME NEW k2 \in 1 .. first + 1
         PROVE  path[k2] = back[first + 1 - k2] /\ path[k2] \in P!Polygons
    <2>1. first + 1 - k2 \in 0 .. first
      BY <1>17
    <2> QED
      BY <1>2, <1>21, <1>22, <2>1
  <1>24. path \in [1 .. first + 1 -> P!Polygons]
    BY <1>2, <1>22, <1>23
  <1>25. path[first + 1] = p /\ d[path[1]].parent = P!NoPolygon
    <2>1. first + 1 \in 1 .. first + 1 /\ 1 \in 1 .. first + 1
          /\ first + 1 - (first + 1) = 0 /\ first + 1 - 1 = first
      BY <1>17
    <2>2. path[first + 1] = back[0] /\ path[1] = back[first]
      BY <1>23, <2>1
    <2> QED
      BY <1>11, <1>17, <2>2
  <1>26. ASSUME NEW k2 \in 1 .. (first + 1) - 1
         PROVE  path[k2] = d[path[k2 + 1]].parent
    <2>1. k2 \in 1 .. first + 1 /\ k2 + 1 \in 1 .. first + 1
      BY <1>17
    <2>2. PICK j : j = first + 1 - k2
      OBVIOUS
    <2>3. j \in 1 .. n /\ j - 1 = first + 1 - (k2 + 1) /\ j - 1 \in 0 .. first
      BY <1>3, <1>16, <2>2
    <2>4. path[k2] = back[j] /\ path[k2 + 1] = back[j - 1] /\ back[j - 1] \in P!Polygons
      BY <1>21, <1>23, <2>1, <2>2, <2>3
    <2>5. back[j] = Before(back[j - 1])
      BY <1>11, <2>3
    <2> QED
      BY <2>4, <2>5
  <1>27. PathTo(d, path, first + 1, p)
    BY <1>24, <1>25, <1>26 DEF PathTo
  <1>28. first + 1 \in Nat \ {0}
    BY <1>17
  <1> QED
    BY <1>22, <1>27, <1>28

\* Where the walk along a path stands.
Walking(ends) == [at : Located, last : ends \X ends, way : Seq(Located)]

(* A turn is at one of the ends of the last edge. *)
LEMMA TurnIsEnd ==
    ASSUME NEW from, NEW left, NEW right, NEW newLeft, NEW newRight
    PROVE  P!TurnPoint(from, left, right, newLeft, newRight) \in {P!NoTurn, left, right}
  BY DEF P!TurnPoint

(* The walk along the parents, counting or writing, has a way of points.     *)
LEMMA WalkHasWay ==
    ASSUME Shaped(sys), P!InitPathFinder(sys) # P!NoSystem,
           NEW b, Rising(data, b), data \in [P!Polygons -> Datum],
           NEW m \in Nat \ {0, 1}, NEW p, NEW path, PathTo(data, path, m, p),
           NEW begin \in Located, NEW moving
    PROVE  P!Walk(path, begin, moving).way \in Seq(Located)
  <1> DEFINE Idx == DOMAIN sys.points
             Out(k) == LET i == data[path[k + 1]].index
                           points == sys.polygons[path[k]].points
                       IN  <<points[i], points[P!NextIndex(points, i)]>>
             Step(w, k) ==
                 LET turn == P!TurnPoint(w.at, w.last[1], w.last[2], Out(k)[1], Out(k)[2])
                 IN  [at   |-> IF moving /\ turn # P!NoTurn THEN sys.points[turn] ELSE w.at,
                      last |-> Out(k),
                      way  |-> IF turn # P!NoTurn THEN Append(w.way, w.at) ELSE w.way]
             n == m - 1
             start == [at |-> begin, last |-> Out(1), way |-> <<>>]
             V == Walking(Idx)
             g == [x \in (1 .. n) \X V |-> Step(x[2], x[1])]
             IsWalked(f) == f = [k \in 0 .. n |-> IF k = 0 THEN start ELSE Step(f[k - 1], k)]
             walked == CHOOSE f : IsWalked(f)
  <1>1. /\ path \in [1 .. m -> P!Polygons] /\ data[path[1]].parent = P!NoPolygon
        /\ \A k \in 1 .. m - 1 : path[k] = data[path[k + 1]].parent
    BY DEF PathTo
  <1>2. Len(path) = m
    <2>1. path \in Seq(P!Polygons)
      BY <1>1, SeqDef
    <2> QED
      BY <1>1, <2>1, LenProperties
  <1>3. n \in Nat /\ 1 \in 1 .. n
    OBVIOUS
  <1>4. P!Walk(path, begin, moving) = walked[n]
    BY <1>2 DEF P!Walk
  <1>5. ASSUME NEW k \in 1 .. n
        PROVE  Out(k) \in Idx \X Idx
    <2>1. PICK q : q = path[k + 1]
      OBVIOUS
    <2>2. PICK r : r = path[k]
      OBVIOUS
    <2>3. k \in 1 .. m - 1 /\ k \in 1 .. m /\ k + 1 \in 1 .. m
      OBVIOUS
    <2>4. q \in P!Polygons /\ r \in P!Polygons /\ r = data[q].parent
      BY <1>1, <2>1, <2>2, <2>3
    <2>5. /\ sys.polygons[r].points \in Seq(Idx)
          /\ Len(P!Corners(r)) \in Nat
          /\ Len(P!Corners(r)) = Len(sys.polygons[r].points)
          /\ DOMAIN P!Corners(r) = 1 .. Len(P!Corners(r))
          /\ P!NoPolygon \notin P!Polygons
      <3>1. P!Polygons = 1 .. Len(sys.polygons) /\ Len(sys.polygons) \in Nat
        BY MeshKnown
      <3>2. P!NoPolygon \notin P!Polygons
        BY <3>1 DEF P!NoPolygon
      <3> QED
        BY <2>4, <3>2, MeshKnown
    <2>6. q \in Reached(data) \ {b}
      BY <2>4, <2>5 DEF Rising
    <2>7. data[q].index \in DOMAIN P!Corners(r)
      BY <2>4, <2>6 DEF Rising, FromParent
    <2>8. PICK points : points = sys.polygons[r].points
      OBVIOUS
    <2>9. PICK i : i = data[q].index
      OBVIOUS
    <2>10. points \in Seq(Idx) /\ Len(points) \in Nat /\ i \in 1 .. Len(points)
      BY <2>5, <2>7, <2>8, <2>9
    <2>11. P!NextIndex(points, i) \in 1 .. Len(points)
      BY <2>10, NextIsOne
    <2>12. points[i] \in Idx /\ points[P!NextIndex(points, i)] \in Idx
      BY <2>10, <2>11, ElementOfSeq
    <2> QED
      BY <2>1, <2>2, <2>8, <2>9, <2>12
  <1>6. \A j \in Idx : sys.points[j] \in Located /\ j # P!NoTurn
    <2>1. sys.points \in Seq(Located)
      BY DEF Shaped
    <2>2. Idx = 1 .. Len(sys.points) /\ Len(sys.points) \in Nat
      BY <2>1, LenProperties
    <2> QED
      BY <2>1, <2>2, ElementOfSeq DEF P!NoTurn
  <1> HIDE DEF Out, Idx
  <1>7. ASSUME NEW w \in V, NEW k \in 1 .. n
        PROVE  Step(w, k) \in V
    <2>1. w.at \in Located /\ w.last \in Idx \X Idx /\ w.way \in Seq(Located)
      BY DEF Walking
    <2>2. PICK turn : turn = P!TurnPoint(w.at, w.last[1], w.last[2], Out(k)[1], Out(k)[2])
      OBVIOUS
    <2>3. turn \in {P!NoTurn, w.last[1], w.last[2]}
      BY <2>2, TurnIsEnd
    <2>4. turn # P!NoTurn => sys.points[turn] \in Located
      BY <1>6, <2>1, <2>3
    <2>5. Append(w.way, w.at) \in Seq(Located)
      BY <2>1, AppendProperties
    <2>6. Out(k) \in Idx \X Idx
      BY <1>5
    <2>7. Step(w, k) = [at   |-> IF moving /\ turn # P!NoTurn THEN sys.points[turn] ELSE w.at,
                        last |-> Out(k),
                        way  |-> IF turn # P!NoTurn THEN Append(w.way, w.at) ELSE w.way]
      BY <2>2
    <2>8. (IF moving /\ turn # P!NoTurn THEN sys.points[turn] ELSE w.at) \in Located
      BY <2>1, <2>4
    <2>9. (IF turn # P!NoTurn THEN Append(w.way, w.at) ELSE w.way) \in Seq(Located)
      BY <2>1, <2>5
    <2> HIDE DEF Step
    <2> QED
      BY <2>6, <2>7, <2>8, <2>9 DEF Walking
  <1> HIDE DEF Step
  <1>8. g \in [(1 .. n) \X V -> V] /\ \A i \in 1 .. n, x \in V : g[<<i, x>>] = Step(x, i)
    BY <1>7
  <1>9. start \in V
    BY <1>3, <1>5 DEF Walking
  <1> HIDE DEF g, V, n, start
  <1>10. PICK f \in [0 .. n -> V] : Runs(f, n, start, g)
    BY <1>3, <1>8, <1>9, RunExists
  <1>11. \A k \in 0 .. n : f[k] = IF k = 0 THEN start ELSE Step(f[k - 1], k)
    <2> SUFFICES ASSUME NEW k \in 0 .. n, k # 0
                 PROVE  f[k] = Step(f[k - 1], k)
      BY <1>10 DEF Runs
    <2>1. k \in 1 .. n /\ k - 1 \in 0 .. n
      BY <1>3
    <2>2. f[k - 1] \in V
      BY <1>10, <2>1
    <2> QED
      BY <1>8, <1>10, <2>1, <2>2 DEF Runs
  <1>12. IsWalked(f)
    BY <1>10, <1>11
  <1>13. IsWalked(walked)
    <2> HIDE DEF IsWalked
    <2> QED
      BY <1>12
  <1> HIDE DEF walked
  <1>14. walked[0] = start /\ \A k \in 1 .. n : walked[k] = Step(walked[k - 1], k)
    <2>1. 0 \in 0 .. n /\ \A k \in 1 .. n : k \in 0 .. n /\ k # 0
      BY <1>3
    <2> QED
      BY <1>13, <2>1
  <1> HIDE DEF IsWalked
  <1> DEFINE D == {k \in 0 .. n : walked[k] \in V}
  <1>15. 0 \in D
    BY <1>3, <1>9, <1>14
  <1>16. ASSUME NEW k \in 1 .. n, k - 1 \in D
         PROVE  k \in D
    BY <1>3, <1>7, <1>14, <1>16
  <1>17. n \in D
    <2>1. n \in 0 .. n
      BY <1>3
    <2> HIDE DEF D
    <2> QED
      BY <1>3, <1>15, <1>16, <2>1, Upwards
  <1>18. walked[n] \in V
    BY <1>17
  <1> QED
    BY <1>4, <1>18 DEF V, Walking

-----------------------------------------------------------------------------
(* The ends of a search.                                                   *)

(* What is inside a number of whole zones is in one of them. *)
LEMMA InsideIsInZone ==
    ASSUME NEW x \in Nat, NEW side \in Nat \ {0}, NEW count \in Nat
    PROVE  /\ x \div side \in Nat
           /\ x < side * count <=> x \div side < count
  <1>1. PICK q \in Int : q = x \div side
    OBVIOUS
  <1>2. PICK r \in Int : r = x % side
    OBVIOUS
  <1>3. x = side * q + r /\ 0 <= r /\ r < side
    BY <1>1, <1>2
  <1>4. q \in Nat
    <2> SUFFICES ASSUME q <= -1
                 PROVE  FALSE
      OBVIOUS
    <2>1. side * q <= side * (-1)
      <3>1. side * (-1 - q) >= 0
        OBVIOUS
      <3>2. side * (-1 - q) = side * (-1) - side * q
        OBVIOUS
      <3> QED
        BY <3>1, <3>2
    <2> QED
      BY <1>3, <2>1
  <1>5. ASSUME q < count
        PROVE  x < side * count
    <2>1. side * (count - 1 - q) >= 0
      BY <1>4, <1>5
    <2>2. side * (count - 1 - q) = side * count - side - side * q
      OBVIOUS
    <2> QED
      BY <1>3, <2>1, <2>2
  <1>6. ASSUME q >= count
        PROVE  x >= side * count
    <2>1. side * (q - count) >= 0
      BY <1>6
    <2>2. side * (q - count) = side * q - side * count
      OBVIOUS
    <2> QED
      BY <1>3, <2>1, <2>2
  <1> QED
    BY <1>1, <1>4, <1>5, <1>6

(* The look-up finds a polygon exactly where there is one. *)
LEMMA LookUp ==
    ASSUME Shaped(sys), Zoned(sys), P!InitPathFinder(sys) # P!NoSystem,
           Places \subseteq [x : Nat, z : Nat], NEW point \in Places
    PROVE  /\ P!GetTriangleByPosition(point) \in {P!NoPolygon} \cup P!Polygons
           /\ P!GetTriangleByPosition(point) = P!NoPolygon <=> P!PolygonsAt(point) = {}
  <1> DEFINE xZoneCount == sys.sceneMaxX \div sys.zoneSize
             zZoneCount == sys.sceneMaxZ \div sys.zoneSize
             xIndex     == point.x \div sys.zoneSize
             zIndex     == point.z \div sys.zoneSize
             list       == sys.zones[xIndex + zIndex * zZoneCount + 1]
             inside     == {i \in DOMAIN list : P!IsInTriangle(list[i], point)}
             first      == CHOOSE i \in inside : \A j \in inside : i <= j
  <1>1. P!GetTriangleByPosition(point) =
            IF \/ point.x > sys.sceneMaxX \/ point.z > sys.sceneMaxZ
               \/ xIndex >= xZoneCount \/ zIndex >= zZoneCount
            THEN P!NoPolygon
            ELSE IF inside = {} THEN P!NoPolygon ELSE list[first]
    BY DEF P!GetTriangleByPosition
  <1>2. /\ sys.zoneSize \in Nat \ {0} /\ sys.sceneMaxX \in Nat /\ sys.sceneMaxZ \in Nat
        /\ sys.sceneMaxX = sys.zoneSize * xZoneCount
        /\ sys.sceneMaxZ = sys.zoneSize * zZoneCount
    BY DEF Zoned
  <1>3. point.x \in Nat /\ point.z \in Nat
    OBVIOUS
  <1>4. xZoneCount \in Nat /\ zZoneCount \in Nat
    BY <1>2, InsideIsInZone
  <1>5. /\ xIndex \in Nat /\ zIndex \in Nat
        /\ point.x < sys.sceneMaxX <=> xIndex < xZoneCount
        /\ point.z < sys.sceneMaxZ <=> zIndex < zZoneCount
    <2> HIDE DEF xZoneCount, zZoneCount
    <2> QED
      BY <1>2, <1>3, <1>4, InsideIsInZone
  <1>6. \A p : P!IsInTriangle(p, point) <=> Within(sys, p, point)
    BY DEF P!IsInTriangle, Within, Outline, P!Corners
  <1>7. P!NoPolygon \notin P!Polygons
    <2>1. P!Polygons = 1 .. Len(sys.polygons) /\ Len(sys.polygons) \in Nat
      BY MeshKnown
    <2> QED
      BY <2>1 DEF P!NoPolygon
  <1>8. xIndex < xZoneCount /\ zIndex < zZoneCount =>
            /\ list \in Seq(P!Polygons)
            /\ (\E p \in P!Polygons : Within(sys, p, point)) => inside # {}
    <2> SUFFICES ASSUME xIndex < xZoneCount, zIndex < zZoneCount
                 PROVE  /\ list \in Seq(P!Polygons)
                        /\ (\E p \in P!Polygons : Within(sys, p, point)) => inside # {}
      OBVIOUS
    <2>1. xIndex \in 0 .. xZoneCount - 1 /\ zIndex \in 0 .. zZoneCount - 1
      BY <1>4, <1>5
    <2>2. /\ list \in Seq(P!Polygons)
          /\ (\E p \in P!Polygons : Within(sys, p, point))
                => \E i \in DOMAIN list : Within(sys, list[i], point)
      BY <2>1 DEF Zoned, P!Polygons
    <2> HIDE DEF list
    <2> QED
      BY <1>6, <2>2
  <1> HIDE DEF xIndex, zIndex, xZoneCount, zZoneCount, list
  <1>9. P!PolygonsAt(point) = {p \in P!Polygons : Within(sys, p, point) /\ xIndex < xZoneCount
                                                                       /\ zIndex < zZoneCount}
    BY <1>5, <1>6 DEF P!PolygonsAt
  <1>10. CASE ~(xIndex < xZoneCount /\ zIndex < zZoneCount)
    <2>1. xIndex >= xZoneCount \/ zIndex >= zZoneCount
      BY <1>4, <1>5, <1>10
    <2> QED
      BY <1>1, <1>9, <1>10, <2>1
  <1>11. CASE xIndex < xZoneCount /\ zIndex < zZoneCount
    <2>1. P!GetTriangleByPosition(point) = IF inside = {} THEN P!NoPolygon ELSE list[first]
      <3>1. ~(point.x > sys.sceneMaxX) /\ ~(point.z > sys.sceneMaxZ)
        BY <1>2, <1>3, <1>5, <1>11
      <3>2. ~(xIndex >= xZoneCount) /\ ~(zIndex >= zZoneCount)
        BY <1>4, <1>5, <1>11
      <3> HIDE DEF inside, first
      <3> QED
        BY <1>1, <3>1, <3>2
    <2>2. list \in Seq(P!Polygons) /\ ((\E p \in P!Polygons : Within(sys, p, point)) => inside # {})
      BY <1>8, <1>11
    <2>3. \A i \in inside : list[i] \in P!Polygons /\ Within(sys, list[i], point)
      <3>1. \A i \in DOMAIN list : list[i] \in P!Polygons
        BY <2>2, ElementOfSeq, LenProperties
      <3> QED
        BY <1>6, <3>1
    <2>4. inside \subseteq Nat
      <3>1. DOMAIN list = 1 .. Len(list) /\ Len(list) \in Nat
        BY <2>2, LenProperties
      <3> QED
        BY <3>1
    <2> HIDE DEF inside
    <2>5. ASSUME inside # {}
          PROVE  first \in inside
      <3>1. PICK i \in inside : \A j \in inside : i <= j
        BY <2>4, <2>5, LeastExists
      <3> QED
        BY <3>1
    <2> HIDE DEF first
    <2> QED
      BY <1>7, <1>9, <1>11, <2>1, <2>2, <2>3, <2>5
  <1> QED
    BY <1>10, <1>11

-----------------------------------------------------------------------------
(* The steps of a search.                                                  *)

(* The polygons are where they were. *)
LEMMA SameMesh ==
    ASSUME sys' = sys
    PROVE  /\ P!Polygons' = P!Polygons
           /\ Reached(data)' = Reached(data')
           /\ SoundSearch(data, heap, search.begin)' <=> SoundSearch(data', heap', search'.begin)
           /\ Covered(data, P!NoPolygon)' <=> Covered(data', P!NoPolygon)
  <1>1. P!Polygons' = P!Polygons
    BY DEF P!Polygons
  <1>2. Reached(data)' = Reached(data')
    BY DEF Reached, P!Polygons
  <1>3. Heaped(data, heap)' = Heaped(data', heap')
    BY DEF Heaped, OpenIn, P!Polygons
  <1>4. Rising(data, search.begin)' <=> Rising(data', search'.begin)
    BY <1>1, <1>2 DEF Rising, FromParent, Reached, P!Corners, P!Adjacent, P!Polygons
  <1>5. Rooted(data, search.begin)' <=> Rooted(data', search'.begin)
    BY <1>1, <1>2 DEF Rooted, Spans
  <1>6. Datum' = Datum
    BY <1>1 DEF Datum
  <1>7. Covered(data, P!NoPolygon)' <=> Covered(data', P!NoPolygon)
    BY <1>1, <1>2 DEF Covered, Beside, P!Corners, P!Adjacent
  <1> QED
    BY <1>1, <1>2, <1>3, <1>4, <1>5, <1>6, <1>7 DEF SoundSearch

(* The cardinality the path finder counts with is that of the theorems. *)
LEMMA SamePathCardinality == \A S : P!Cardinality(S) = Cardinality(S)
  BY DEF P!Cardinality, Cardinality

(* What SearchSound asks follows from the invariant. *)
LEMMA SoundShows ==
    ASSUME Shaped(sys), P!InitPathFinder(sys) # P!NoSystem,
           search.begin \in P!Polygons, SoundSearch(data, heap, search.begin)
    PROVE  P!SearchSound
  <1>1. /\ Len(sys.polygons) \in Nat /\ P!Polygons = 1 .. Len(sys.polygons)
    BY MeshKnown
  <1>2. Len(heap) \in Nat /\ heap \in Orders(OpenIn(data), Len(heap))
    BY DEF SoundSearch, Heaped
  <1>3. P!Opened = OpenIn(data)
    BY <1>2, OrderIsSequence DEF P!Opened
  <1>4. P!Cardinality(OpenIn(data)) = Len(heap)
    BY <1>2, OrderCounts, SamePathCardinality
  <1>5. Reached(data) \subseteq P!Closure({search.begin}, ChildrenIn(data))
    BY <1>1, EnteredLeadBack DEF SoundSearch, Rising
  <1>6. P!Children = ChildrenIn(data)
    BY DEF P!Children, ChildrenIn
  <1>7. \A p \in Reached(data) \ {search.begin} : P!Adjacent(data[p].parent, data[p].index) = p
    BY DEF SoundSearch, Rising, FromParent
  <1> QED
    BY <1>3, <1>4, <1>5, <1>6, <1>7 DEF P!SearchSound, OpenIn, Reached

\* What findPath enters at first.
Begun(b, point, cost) ==
    [p \in P!Polygons |-> IF p = b THEN [P!Fresh EXCEPT !.flag = {"open"}, !.pos = point,
                                                       !.totalCost = cost]
                                   ELSE P!Fresh]

(* A search begins with its first polygon entered and in the heap. *)
LEMMA SearchBegins ==
    ASSUME NEW b \in P!Polygons, P!NoPolygon \notin P!Polygons, NEW point \in Located, NEW cost \in Int,
           NEW d, d = Begun(b, point, cost)
    PROVE  SoundSearch(d, P!Push(<<>>, P!TotalCosts(d), b), b) /\ Reached(d) = {b} /\ Covered(d, P!NoPolygon)
  <1>1. PICK r : r = [P!Fresh EXCEPT !.flag = {"open"}, !.pos = point, !.totalCost = cost]
    OBVIOUS
  <1>2. P!Fresh = [flag |-> {}, parent |-> P!NoPolygon, index |-> 0, totalCost |-> 0,
                   pos |-> [x |-> 0, z |-> 0]]
    BY DEF P!Fresh, P!Point, P!NoPolygon
  <1>3. r = [flag |-> {"open"}, parent |-> P!NoPolygon, index |-> 0, totalCost |-> cost, pos |-> point]
    BY <1>1, <1>2
  <1>4. [x |-> 0, z |-> 0] \in Located
    BY DEF Located
  <1>5. P!Fresh \in Datum /\ r \in Datum
    BY <1>2, <1>3, <1>4 DEF Datum
  <1>6. d \in [P!Polygons -> Datum] /\ d[b] = r /\ \A p \in P!Polygons \ {b} : d[p] = P!Fresh
    BY <1>1, <1>5 DEF Begun
  <1>7. Reached(d) = {b} /\ OpenIn(d) = {b}
    BY <1>2, <1>3, <1>6 DEF Reached, OpenIn
  <1>8. Heaped(d, P!Push(<<>>, P!TotalCosts(d), b))
    <2>1. <<>> \in Orders({}, 0)
      BY DEF Orders
    <2>2. P!Push(<<>>, P!TotalCosts(d), b) \in Orders({} \cup {b}, 0 + 1)
      BY <2>1, PushAdds
    <2>3. {} \cup {b} = OpenIn(d) /\ 0 + 1 = 1
      BY <1>7
    <2>4. P!Push(<<>>, P!TotalCosts(d), b) \in Orders(OpenIn(d), 1)
      BY <2>2, <2>3
    <2> QED
      BY <2>4, HeapOfOpen
  <1>9. Rising(d, b)
    BY <1>2, <1>3, <1>6, <1>7 DEF Rising
  <1>10. Rooted(d, b)
    BY <1>7 DEF Rooted, Spans
  <1>11. Covered(d, P!NoPolygon)
    <2>1. \A p \in P!Polygons : "closed" \notin d[p].flag
      BY <1>2, <1>3, <1>6
    <2> QED
      BY <2>1 DEF Covered
  <1> QED
    BY <1>6, <1>7, <1>8, <1>9, <1>10, <1>11 DEF SoundSearch

\* What a round does first.
Close(d, p) == [d EXCEPT ![p].flag = {"closed"}]

(* Closing the polygon taken from the heap. *)
LEMMA FirstIsClosed ==
    ASSUME NEW d, NEW h, NEW b, SoundSearch(d, h, b), h # <<>>, P!NoPolygon \notin P!Polygons,
           NEW c, c = Close(d, Head(h))
    PROVE  /\ Head(h) \in Reached(d) /\ Reached(c) = Reached(d)
           /\ SoundSearch(c, P!Popped(h, P!TotalCosts(d)), b)
           /\ P!Popped(h, P!TotalCosts(d)) \in Seq(P!Polygons)
           /\ \A p \in P!Polygons \ {Head(h)} : c[p] = d[p]
           /\ Covered(d, P!NoPolygon) => Covered(c, Head(h))
  <1>1. /\ d \in [P!Polygons -> Datum] /\ Rising(d, b) /\ Rooted(d, b)
        /\ Len(h) \in Nat /\ h \in Orders(OpenIn(d), Len(h))
    BY DEF SoundSearch, Heaped
  <1>2. PICK best : best = Head(h)
    OBVIOUS
  <1>3. h \in Seq(OpenIn(d)) /\ Len(h) # 0 /\ best = h[1] /\ best \in OpenIn(d)
    <2>1. h \in Seq(OpenIn(d)) /\ \A i \in 1 .. Len(h) : h[i] \in OpenIn(d)
      BY <1>1, OrderIsSequence
    <2>2. Len(h) # 0 /\ 1 \in 1 .. Len(h)
      BY <1>1, <2>1, EmptySeq
    <2> QED
      BY <1>2, <2>1, <2>2, HeadTailProperties
  <1>4. best \in P!Polygons /\ best \in Reached(d)
    BY <1>3 DEF OpenIn, Reached
  <1>5. PICK r : r = [d[best] EXCEPT !.flag = {"closed"}]
    OBVIOUS
  <1>6. /\ d[best] \in Datum /\ r \in Datum /\ r.flag = {"closed"} /\ r.parent = d[best].parent
        /\ r.index = d[best].index /\ r.totalCost = d[best].totalCost
    <2>1. d[best] \in Datum
      BY <1>1, <1>4
    <2> QED
      BY <1>5, <2>1 DEF Datum
  <1>7. c = [d EXCEPT ![best] = r]
    BY <1>2, <1>5 DEF Close
  <1>8. /\ c \in [P!Polygons -> Datum] /\ c[best] = r
        /\ \A p \in P!Polygons \ {best} : c[p] = d[p]
    BY <1>1, <1>4, <1>6, <1>7
  <1>9. \A p \in P!Polygons : /\ c[p].parent = d[p].parent /\ c[p].index = d[p].index
                              /\ c[p].totalCost = d[p].totalCost
                              /\ c[p].flag = {} <=> d[p].flag = {}
    BY <1>4, <1>6, <1>8 DEF Reached
  <1>10. Reached(c) = Reached(d)
    BY <1>9 DEF Reached
  <1>11. OpenIn(c) = OpenIn(d) \ {best}
    <2>1. "open" \notin c[best].flag
      BY <1>6, <1>8
    <2>2. \A p \in P!Polygons : "open" \in c[p].flag <=> p # best /\ "open" \in d[p].flag
      BY <1>8, <2>1
    <2> QED
      BY <2>2 DEF OpenIn
  <1>12. PICK costs : costs = P!TotalCosts(d)
    OBVIOUS
  <1>13. Heaped(c, P!Popped(h, costs)) /\ P!Popped(h, costs) \in Seq(P!Polygons)
    <2>1. \A x \in OpenIn(d) : costs[x] \in Int
      BY <1>1, <1>12 DEF OpenIn, P!TotalCosts, Datum
    <2>2. P!Popped(h, costs) \in Orders(OpenIn(d) \ {h[1]}, Len(h) - 1)
      BY <1>1, <1>3, <2>1, PoppedDrops
    <2>3. P!Popped(h, costs) \in Orders(OpenIn(c), Len(h) - 1)
      BY <1>3, <1>11, <2>2
    <2>4. Len(h) - 1 \in Nat
      BY <1>1, <1>3
    <2> QED
      BY <2>3, <2>4, HeapOfOpen
  <1>14. Reached(d) \subseteq P!Polygons
    BY DEF Reached
  <1>15. Rising(c, b)
    <2>1. b \in Reached(c) /\ c[b].parent = P!NoPolygon
      BY <1>1, <1>9, <1>10, <1>14 DEF Rising
    <2>2. \A q \in Reached(c) : c[b].totalCost <= c[q].totalCost
      BY <1>1, <1>9, <1>10, <1>14 DEF Rising
    <2>3. ASSUME NEW q \in Reached(c) \ {b}
          PROVE  FromParent(c, q)
      <3>1. FromParent(d, q) /\ q \in P!Polygons
        BY <1>1, <1>10, <1>14 DEF Rising
      <3>2. PICK p : p = d[q].parent
        OBVIOUS
      <3>3. p \in P!Polygons /\ c[q].parent = p
        BY <1>9, <1>14, <3>1, <3>2 DEF FromParent
      <3> QED
        BY <1>9, <1>10, <3>1, <3>2, <3>3 DEF FromParent
    <2>4. \A q \in P!Polygons \ Reached(c) : c[q].parent = P!NoPolygon
      BY <1>1, <1>9, <1>10 DEF Rising
    <2> QED
      BY <2>1, <2>2, <2>3, <2>4 DEF Rising
  <1>16. Rooted(c, b)
    <2>1. \A R : Spans(R, c, b) <=> Spans(R, d, b)
      BY <1>9 DEF Spans
    <2> QED
      BY <1>1, <1>10, <2>1 DEF Rooted
  <1>17. Covered(d, P!NoPolygon) => Covered(c, best)
    <2> SUFFICES ASSUME Covered(d, P!NoPolygon), NEW p \in P!Polygons \ {best}, "closed" \in c[p].flag
                 PROVE  Beside(p, c)
      BY DEF Covered
    <2>1. "closed" \in d[p].flag /\ p # P!NoPolygon
      BY <1>8
    <2> QED
      BY <1>10, <2>1 DEF Covered, Beside
  <1>18. SoundSearch(c, P!Popped(h, costs), b)
    BY <1>8, <1>13, <1>15, <1>16 DEF SoundSearch
  <1> QED
    BY <1>2, <1>4, <1>8, <1>10, <1>12, <1>13, <1>17, <1>18

(* Neighbours are polygons. *)
LEMMA NeighboursArePolygons ==
    ASSUME Shaped(sys), P!InitPathFinder(sys) # P!NoSystem
    PROVE  /\ P!Neighbours \in [P!Polygons -> SUBSET P!Polygons]
           /\ \A p \in P!Polygons :
                 P!Neighbours[p] = {P!Adjacent(p, i) : i \in DOMAIN P!Corners(p)} \ {P!NoPolygon}
           /\ P!NoPolygon \notin P!Polygons
           /\ Len(sys.polygons) \in Nat /\ P!Polygons = 1 .. Len(sys.polygons)
  <1>1. Len(sys.polygons) \in Nat /\ P!Polygons = 1 .. Len(sys.polygons)
    BY MeshKnown
  <1>2. \A p \in P!Polygons : \A i \in DOMAIN P!Corners(p) :
            P!Adjacent(p, i) \in {P!NoPolygon} \cup P!Polygons
    BY MeshKnown
  <1>3. \A p \in P!Polygons :
            {P!Adjacent(p, i) : i \in DOMAIN P!Corners(p)} \ {P!NoPolygon} \in SUBSET P!Polygons
    BY <1>2
  <1>4. P!NoPolygon \notin P!Polygons
    BY <1>1 DEF P!NoPolygon
  <1> QED
    BY <1>1, <1>3, <1>4 DEF P!Neighbours

(* What is entered is joined to the first by neighbours. *)
LEMMA EnteredIsReachable ==
    ASSUME Shaped(sys), P!InitPathFinder(sys) # P!NoSystem,
           NEW d, NEW b \in P!Polygons, Rising(d, b), Rooted(d, b)
    PROVE  Reached(d) \subseteq P!Closure({b}, P!Neighbours)
  <1> DEFINE c == P!Closure({b}, P!Neighbours)
  <1>1. c \in SUBSET P!Polygons /\ b \in c /\ \A p \in c : P!Neighbours[p] \subseteq c
    BY NeighboursArePolygons, ClosureFacts
  <1> HIDE DEF c
  <1>2. ASSUME NEW q \in P!Polygons, d[q].parent \in c
        PROVE  q \in c
    <2>1. d[q].parent # P!NoPolygon
      BY <1>1, <1>2, NeighboursArePolygons
    <2>2. q \in Reached(d) \ {b}
      BY <2>1 DEF Rising
    <2>3. PICK p \in P!Polygons : p = d[q].parent
      BY <1>1, <1>2
    <2>4. d[q].index \in DOMAIN P!Corners(p) /\ P!Adjacent(p, d[q].index) = q
      BY <2>2, <2>3 DEF Rising, FromParent
    <2>5. q # P!NoPolygon
      BY NeighboursArePolygons
    <2>6. q \in P!Neighbours[p]
      BY <2>4, <2>5, NeighboursArePolygons
    <2> QED
      BY <1>1, <1>2, <2>3, <2>6
  <1>3. Spans(c, d, b)
    BY <1>1, <1>2 DEF Spans
  <1>4. Reached(d) \subseteq c
    BY <1>1, <1>3 DEF Rooted
  <1> QED
    BY <1>4 DEF c

(* A search that has nothing left to open has entered all that is joined.    *)
LEMMA ExhaustedIsAll ==
    ASSUME Shaped(sys), P!InitPathFinder(sys) # P!NoSystem,
           NEW d, NEW b \in P!Polygons, SoundSearch(d, <<>>, b), Covered(d, P!NoPolygon),
           NEW t \in P!Polygons, "closed" \notin d[t].flag
    PROVE  t \notin Reached(d) /\ t \notin P!Closure({b}, P!Neighbours)
  <1>1. Rising(d, b) /\ d \in [P!Polygons -> Datum]
    BY DEF SoundSearch
  <1>2. OpenIn(d) = {}
    <2>1. Len(<<>>) = 0
      OBVIOUS
    <2>2. <<>> \in Orders(OpenIn(d), 0)
      BY <2>1 DEF SoundSearch, Heaped
    <2> QED
      BY <2>2 DEF Orders
  <1>3. ASSUME NEW p \in Reached(d)
        PROVE  p \in P!Polygons /\ "closed" \in d[p].flag
    <2>1. p \in P!Polygons /\ d[p].flag # {}
      BY DEF Reached
    <2>2. d[p].flag \in SUBSET {"open", "closed"}
      BY <1>1, <2>1 DEF Datum
    <2>3. "open" \notin d[p].flag
      BY <1>2, <2>1 DEF OpenIn
    <2> QED
      BY <2>1, <2>2, <2>3
  <1>4. ASSUME NEW p \in Reached(d)
        PROVE  P!Neighbours[p] \subseteq Reached(d)
    <2>1. p \in P!Polygons /\ "closed" \in d[p].flag /\ p # P!NoPolygon
      BY <1>3, NeighboursArePolygons
    <2>2. Beside(p, d)
      BY <2>1 DEF Covered
    <2>3. P!Neighbours[p] = {P!Adjacent(p, i) : i \in DOMAIN P!Corners(p)} \ {P!NoPolygon}
      BY <2>1, NeighboursArePolygons
    <2> QED
      BY <2>2, <2>3 DEF Beside
  <1>5. t \notin Reached(d)
    BY <1>3
  <1>6. b \in Reached(d)
    BY <1>1 DEF Rising
  <1>7. P!Closure({b}, P!Neighbours) \subseteq Reached(d)
    <2>1. {b} \subseteq Reached(d) /\ {b} \in SUBSET P!Polygons
      BY <1>6
    <2> QED
      BY <1>4, <2>1, NeighboursArePolygons, ClosureIsLeast
  <1> QED
    BY <1>5, <1>7

(* The walk along the parents of the target counts its turns. *)
LEMMA WalkCounts ==
    ASSUME Shaped(sys), P!InitPathFinder(sys) # P!NoSystem,
           NEW b \in P!Polygons, SoundSearch(data, heap, b), NEW t \in Reached(data), t # b,
           NEW begin \in Located, NEW moving
    PROVE  Len(P!Walk(P!Chain(data, t), begin, moving).way) \in Nat
  <1>1. /\ data \in [P!Polygons -> Datum] /\ Rising(data, b) /\ Rooted(data, b)
        /\ data[b].parent = P!NoPolygon
    BY DEF SoundSearch, Rising
  <1>2. /\ P!NoPolygon \notin P!Polygons
        /\ Len(sys.polygons) \in Nat /\ P!Polygons = 1 .. Len(sys.polygons)
    BY NeighboursArePolygons
  <1>3. t \in P!Polygons /\ Back(data, t, Len(sys.polygons))
    BY <1>1, <1>2, EnteredLeadBack DEF Reached
  <1>4. PICK m \in Nat \ {0} : PathTo(data, P!Chain(data, t), m, t)
    BY <1>1, <1>2, <1>3, ChainIsPath
  <1>5. data[t].parent # P!NoPolygon
    BY <1>1, <1>2 DEF Rising, FromParent, Reached
  <1>6. m # 1
    BY <1>4, <1>5 DEF PathTo
  <1>7. PICK path : path = P!Chain(data, t)
    OBVIOUS
  <1>8. m \in Nat \ {0, 1} /\ PathTo(data, path, m, t)
    BY <1>4, <1>6, <1>7
  <1>9. P!Walk(path, begin, moving).way \in Seq(Located)
    BY <1>1, <1>8, WalkHasWay
  <1> QED
    BY <1>7, <1>9, LenProperties

(* A step that leaves the mesh leaves what is asked of it. *)
LEMMA SameAnswers ==
    ASSUME sys' = sys
    PROVE  /\ P!PolygonsAt(search.beginPoint)' = P!PolygonsAt(search'.beginPoint)
           /\ P!PolygonsAt(search.targetPoint)' = P!PolygonsAt(search'.targetPoint)
           /\ P!GetTriangleByPosition(search.beginPoint)' = P!GetTriangleByPosition(search'.beginPoint)
           /\ P!GetTriangleByPosition(search.targetPoint)' = P!GetTriangleByPosition(search'.targetPoint)
           /\ P!Closure({search.begin}, P!Neighbours)' = P!Closure({search'.begin}, P!Neighbours)
  <1>1. /\ P!PolygonsAt(search.beginPoint)' = P!PolygonsAt(search'.beginPoint)
        /\ P!PolygonsAt(search.targetPoint)' = P!PolygonsAt(search'.targetPoint)
    BY DEF P!PolygonsAt, P!Polygons, P!IsInTriangle, P!Corners
  <1>2. P!GetTriangleByPosition(search.beginPoint)' = P!GetTriangleByPosition(search'.beginPoint)
    BY DEF P!GetTriangleByPosition, P!IsInTriangle, P!Corners
  <1>3. P!GetTriangleByPosition(search.targetPoint)' = P!GetTriangleByPosition(search'.targetPoint)
    BY DEF P!GetTriangleByPosition, P!IsInTriangle, P!Corners
  <1>4. P!Closure({search.begin}, P!Neighbours)' = P!Closure({search'.begin}, P!Neighbours)
    BY DEF P!Closure, P!Neighbours, P!Polygons, P!Adjacent, P!Corners
  <1> QED
    BY <1>1, <1>2, <1>3, <1>4

\* A search, next, of the way from point b to point t.
AskedNext(b, t) ==
    /\ DOMAIN search' = Asked /\ search'.beginPoint = b /\ search'.targetPoint = t
    /\ search'.begin = P!GetTriangleByPosition(b) /\ search'.target = P!GetTriangleByPosition(t)

(* Where it goes on, what is left to show is the invariant of the search.    *)
LEMMA GoesOn ==
    ASSUME PathInv, sys # P!NoSystem, sys' = sys, NEW b \in Places, NEW t \in Places, AskedNext(b, t),
           search'.pc \in {"search", "found"}, SearchInv'
    PROVE  PathInv'
  <1>1. (Shaped(sys) /\ Zoned(sys) /\ P!InitPathFinder(sys) # P!NoSystem)'
    BY DEF PathInv
  <1>2. P!PathFound'
    BY DEF P!PathFound
  <1>3. (/\ sys # P!NoSystem /\ DOMAIN search = Asked
         /\ search.beginPoint \in Places /\ search.targetPoint \in Places
         /\ search.begin = P!GetTriangleByPosition(search.beginPoint)
         /\ search.target = P!GetTriangleByPosition(search.targetPoint))'
    BY SameAnswers DEF AskedNext
  <1> QED
    BY <1>1, <1>2, <1>3 DEF PathInv

(* Where it ends, that the answer is right. *)
LEMMA EndsRight ==
    ASSUME PathInv, sys # P!NoSystem, sys' = sys, Places \subseteq [x : Nat, z : Nat],
           NEW b \in Places, NEW t \in Places, AskedNext(b, t), search'.pc = "done",
           \/ search'.begin = P!NoPolygon /\ search'.result = -1
           \/ search'.begin # P!NoPolygon /\ search'.target = P!NoPolygon /\ search'.result = -2
           \/ /\ search'.begin # P!NoPolygon /\ search'.target # P!NoPolygon
              /\ IF search'.target \in P!Closure({search'.begin}, P!Neighbours)
                 THEN search'.result \in Nat
                 ELSE search'.result = -4
    PROVE  PathInv'
  <1>1. (Shaped(sys) /\ Zoned(sys) /\ P!InitPathFinder(sys) # P!NoSystem)'
    BY DEF PathInv
  <1>2. /\ P!GetTriangleByPosition(b) = P!NoPolygon <=> P!PolygonsAt(b) = {}
        /\ P!GetTriangleByPosition(t) = P!NoPolygon <=> P!PolygonsAt(t) = {}
    BY LookUp DEF PathInv
  <1>3. P!PathFound'
    <2>1. PICK B : B = P!PolygonsAt(b)
      OBVIOUS
    <2>2. PICK V : V = P!PolygonsAt(t)
      OBVIOUS
    <2>3. PICK C : C = P!Closure({search'.begin}, P!Neighbours)
      OBVIOUS
    <2>4. /\ P!PolygonsAt(search.beginPoint)' = B
          /\ P!PolygonsAt(search.targetPoint)' = V
          /\ P!Closure({search.begin}, P!Neighbours)' = C
      BY <2>1, <2>2, <2>3, SameAnswers DEF AskedNext
    <2>5. /\ B = {} => search'.result = -1
          /\ B # {} /\ V = {} => search'.result = -2
          /\ B # {} /\ V # {} => IF search'.target \in C THEN search'.result >= 0
                                                         ELSE search'.result = -4
      BY <1>2, <2>1, <2>2, <2>3 DEF AskedNext
    <2> QED
      BY <2>4, <2>5 DEF P!PathFound
  <1>4. (/\ sys # P!NoSystem /\ DOMAIN search = Asked
         /\ search.beginPoint \in Places /\ search.targetPoint \in Places
         /\ search.begin = P!GetTriangleByPosition(search.beginPoint)
         /\ search.target = P!GetTriangleByPosition(search.targetPoint))'
    BY SameAnswers DEF AskedNext
  <1>5. SearchInv'
    BY DEF SearchInv
  <1> QED
    BY <1>1, <1>3, <1>4, <1>5 DEF PathInv

(* The step that begins a search, or answers at once. *)
LEMMA FindPathKeeps ==
    ASSUME PathInv, Places \subseteq [x : Nat, z : Nat],
           NEW bp \in Places, NEW tp \in Places, NEW room, P!FindPath(bp, tp, room)
    PROVE  PathInv'
  <1> DEFINE cost == P!Distance(bp, tp)
  <1>1. PICK b : b = P!GetTriangleByPosition(bp)
    OBVIOUS
  <1>2. PICK t : t = P!GetTriangleByPosition(tp)
    OBVIOUS
  <1>3. PICK entered : entered = Begun(b, bp, cost)
    OBVIOUS
  <1>4. PICK asked : asked = [pc |-> "done", beginPoint |-> bp, targetPoint |-> tp,
                              bufferSize |-> room, begin |-> b, target |-> t, result |-> 0,
                              written |-> <<>>, lastBest |-> P!NoPolygon, lastBestCost |-> 0]
    OBVIOUS
  <1>5. /\ sys # P!NoSystem /\ sys' = sys
        /\ \/ /\ b = P!NoPolygon
              /\ search' = [asked EXCEPT !.result = P!PathFindErrorBeginPositionNoInMesh]
           \/ /\ b # P!NoPolygon /\ t = P!NoPolygon
              /\ search' = [asked EXCEPT !.result = P!PathFindErrorTargetPositionNoInMesh]
           \/ /\ b # P!NoPolygon /\ b = t
              /\ search' = [asked EXCEPT !.result = 1, !.written = <<tp>>]
           \/ /\ b # P!NoPolygon /\ t # P!NoPolygon /\ b # t
              /\ search' = [asked EXCEPT !.pc = "search", !.lastBestCost = cost]
              /\ data' = entered
              /\ heap' = P!Push(<<>>, P!TotalCosts(entered), b)
    BY <1>1, <1>2, <1>3, <1>4 DEF P!FindPath, Begun
  <1>6. Shaped(sys) /\ Zoned(sys) /\ P!InitPathFinder(sys) # P!NoSystem
    BY <1>5 DEF PathInv
  <1>7. bp \in Located /\ tp \in Located
    BY DEF Located
  <1>8. cost \in Int
    BY <1>7, DistanceIsNat
  <1> HIDE DEF cost
  <1>9. AskedNext(bp, tp)
    BY <1>1, <1>2, <1>4, <1>5 DEF AskedNext, Asked
  <1>10. /\ b \in {P!NoPolygon} \cup P!Polygons /\ t \in {P!NoPolygon} \cup P!Polygons
         /\ P!NoPolygon \notin P!Polygons
    BY <1>1, <1>2, <1>6, LookUp, NeighboursArePolygons
  <1>11. CASE b = P!NoPolygon
    <2>1. search'.pc = "done" /\ search'.begin = P!NoPolygon /\ search'.result = -1
      BY <1>4, <1>5, <1>11 DEF P!PathFindErrorBeginPositionNoInMesh
    <2> QED
      BY <1>5, <1>9, <2>1, EndsRight
  <1>12. CASE b # P!NoPolygon /\ t = P!NoPolygon
    <2>1. /\ search'.pc = "done" /\ search'.begin # P!NoPolygon /\ search'.target = P!NoPolygon
          /\ search'.result = -2
      BY <1>4, <1>5, <1>12 DEF P!PathFindErrorTargetPositionNoInMesh
    <2> QED
      BY <1>5, <1>9, <2>1, EndsRight
  <1>13. CASE b # P!NoPolygon /\ b = t
    <2>1. /\ search'.pc = "done" /\ search'.begin = b /\ search'.target = b /\ search'.result = 1
      BY <1>4, <1>5, <1>13
    <2>2. b \in P!Closure({b}, P!Neighbours)
      <3>1. {b} \in SUBSET P!Polygons
        BY <1>10, <1>13
      <3> QED
        BY <1>6, <3>1, NeighboursArePolygons, ClosureFacts
    <2> QED
      BY <1>5, <1>9, <1>13, <2>1, <2>2, EndsRight
  <1>14. CASE b # P!NoPolygon /\ t # P!NoPolygon /\ b # t
    <2>1. /\ data' = entered /\ heap' = P!Push(<<>>, P!TotalCosts(entered), b)
          /\ search'.pc = "search" /\ search'.begin = b /\ search'.target = t
          /\ search'.lastBest = P!NoPolygon /\ search'.lastBestCost = cost
      BY <1>4, <1>5, <1>14
    <2>2. b \in P!Polygons /\ t \in P!Polygons
      BY <1>10, <1>14
    <2>3. /\ SoundSearch(entered, P!Push(<<>>, P!TotalCosts(entered), b), b)
          /\ Reached(entered) = {b} /\ Covered(entered, P!NoPolygon)
      BY <1>3, <1>7, <1>8, <1>10, <2>2, SearchBegins
    <2>4. "closed" \notin entered[t].flag
      BY <1>14, <2>2, <2>3 DEF Reached
    <2>5. SearchInv'
      <3>1. SoundSearch(data, heap, search.begin)' /\ Covered(data, P!NoPolygon)'
        BY <1>5, <2>1, <2>3, SameMesh
      <3>2. search'.begin \in P!Polygons' /\ search'.target \in P!Polygons' /\ search'.begin # search'.target
        BY <1>5, <1>14, <2>1, <2>2, SameMesh
      <3> QED
        BY <1>8, <2>1, <2>4, <3>1, <3>2 DEF SearchInv
    <2> QED
      BY <1>5, <1>9, <2>1, <2>5, GoesOn
  <1> QED
    BY <1>11, <1>12, <1>13, <1>14

(* A round of the search. *)
LEMMA ExpandKeeps ==
    ASSUME PathInv, Places \subseteq [x : Nat, z : Nat], P!Expand
    PROVE  PathInv'
  <1>1. PICK best : best = Head(heap)
    OBVIOUS
  <1>2. PICK closed : closed = Close(data, Head(heap))
    OBVIOUS
  <1>3. PICK rest : rest = P!Popped(heap, P!TotalCosts(data))
    OBVIOUS
  <1>4. PICK v : v = [data |-> closed, heap |-> rest,
                      lastBest |-> search.lastBest, lastBestCost |-> search.lastBestCost]
    OBVIOUS
  <1>5. PICK w : w = P!Searched(v, best)
    OBVIOUS
  <1>6. /\ search.pc = "search" /\ heap # <<>> /\ sys' = sys
        /\ \/ /\ best = search.target
              /\ search' = [search EXCEPT !.pc = "found", !.lastBest = best]
              /\ data' = closed /\ heap' = rest
           \/ /\ best # search.target
              /\ search' = [search EXCEPT !.lastBest = w.lastBest, !.lastBestCost = w.lastBestCost]
              /\ data' = w.data /\ heap' = w.heap
    BY <1>1, <1>2, <1>3, <1>4, <1>5 DEF P!Expand, Close
  <1>7. /\ sys # P!NoSystem /\ DOMAIN search = Asked
        /\ search.beginPoint \in Places /\ search.targetPoint \in Places
        /\ search.begin = P!GetTriangleByPosition(search.beginPoint)
        /\ search.target = P!GetTriangleByPosition(search.targetPoint)
        /\ Shaped(sys) /\ P!InitPathFinder(sys) # P!NoSystem /\ SearchInv
    BY <1>6 DEF PathInv
  <1>8. PICK b : b = search.begin
    OBVIOUS
  <1>9. PICK t : t = search.target
    OBVIOUS
  <1>10. /\ b \in P!Polygons /\ t \in P!Polygons /\ b # t /\ SoundSearch(data, heap, b)
         /\ Covered(data, P!NoPolygon) /\ "closed" \notin data[t].flag
         /\ search.lastBest \in {P!NoPolygon} \cup Reached(data) /\ search.lastBestCost \in Int
    BY <1>6, <1>7, <1>8, <1>9 DEF SearchInv
  <1>11. P!NoPolygon \notin P!Polygons
    BY <1>7, NeighboursArePolygons
  <1>12. /\ best \in Reached(data) /\ Reached(closed) = Reached(data)
         /\ SoundSearch(closed, rest, b) /\ rest \in Seq(P!Polygons)
         /\ \A p \in P!Polygons \ {best} : closed[p] = data[p]
         /\ Covered(closed, best)
    BY <1>1, <1>2, <1>3, <1>6, <1>10, <1>11, FirstIsClosed
  <1>13. Reached(data) \subseteq P!Polygons
    BY DEF Reached
  <1>14. CASE best = t
    <2>1. /\ data' = closed /\ heap' = rest
          /\ search' = [search EXCEPT !.pc = "found", !.lastBest = best]
      BY <1>6, <1>9, <1>14
    <2>2. /\ search'.pc = "found" /\ search'.begin = b /\ search'.target = t
          /\ AskedNext(search.beginPoint, search.targetPoint)
      BY <1>7, <1>8, <1>9, <2>1 DEF AskedNext, Asked
    <2>3. SearchInv'
      <3>1. SoundSearch(data, heap, search.begin)'
        BY <1>6, <1>12, <2>1, <2>2, SameMesh
      <3>2. search'.begin \in P!Polygons' /\ search'.target \in P!Polygons' /\ search'.begin # search'.target
        BY <1>6, <1>10, <2>2, SameMesh
      <3>3. (search.target \in Reached(data))'
        BY <1>6, <1>12, <1>14, <2>1, <2>2, SameMesh
      <3> QED
        BY <2>2, <3>1, <3>2, <3>3 DEF SearchInv
    <2> QED
      BY <1>6, <1>7, <2>2, <2>3, GoesOn
  <1>15. CASE best # t
    <2>1. v \in Searching(b, best)
      <3>1. "closed" \notin closed[t].flag
        BY <1>10, <1>12, <1>15
      <3>2. /\ v.data = closed /\ v.heap = rest
            /\ v.lastBest = search.lastBest /\ v.lastBestCost = search.lastBestCost
        BY <1>4
      <3>3. closed \in [P!Polygons -> Datum]
        BY <1>12 DEF SoundSearch
      <3>4. v \in [data : [P!Polygons -> Datum], heap : Seq(P!Polygons),
                   lastBest : {P!NoPolygon} \cup P!Polygons, lastBestCost : Int]
        BY <1>4, <1>10, <1>12, <1>13, <3>3
      <3> QED
        BY <1>9, <1>10, <1>12, <3>1, <3>2, <3>4 DEF Searching
    <2>2. w \in Searching(b, best) /\ Beside(best, w.data)
      <3>1. search.targetPoint \in Located
        BY <1>7 DEF Located
      <3>2. best \in P!Polygons /\ search.target \in P!Polygons
        BY <1>9, <1>10, <1>12, <1>13
      <3> QED
        BY <1>5, <1>7, <2>1, <3>1, <3>2, SearchedKeeps
    <2>3. /\ SoundSearch(w.data, w.heap, b) /\ Covered(w.data, best) /\ "closed" \notin w.data[t].flag
          /\ w.lastBest \in {P!NoPolygon} \cup Reached(w.data) /\ w.lastBestCost \in Int
      BY <1>9, <2>2 DEF Searching
    <2>4. Covered(w.data, P!NoPolygon)
      BY <2>2, <2>3 DEF Covered
    <2>5. /\ data' = w.data /\ heap' = w.heap
          /\ search' = [search EXCEPT !.lastBest = w.lastBest, !.lastBestCost = w.lastBestCost]
      BY <1>6, <1>9, <1>15
    <2>6. /\ search'.pc = "search" /\ search'.begin = b /\ search'.target = t
          /\ search'.lastBest = w.lastBest /\ search'.lastBestCost = w.lastBestCost
          /\ AskedNext(search.beginPoint, search.targetPoint)
      BY <1>6, <1>7, <1>8, <1>9, <2>5 DEF AskedNext, Asked
    <2>7. SearchInv'
      <3>1. SoundSearch(data, heap, search.begin)' /\ Covered(data, P!NoPolygon)'
        BY <1>6, <2>3, <2>4, <2>5, <2>6, SameMesh
      <3>2. search'.begin \in P!Polygons' /\ search'.target \in P!Polygons' /\ search'.begin # search'.target
        BY <1>6, <1>10, <2>6, SameMesh
      <3>3. (search.lastBest \in {P!NoPolygon} \cup Reached(data))'
        BY <1>6, <2>3, <2>5, <2>6, SameMesh
      <3>4. ("closed" \notin data[search.target].flag)' /\ search'.lastBestCost \in Int
        BY <2>3, <2>5, <2>6
      <3> QED
        BY <2>6, <3>1, <3>2, <3>3, <3>4 DEF SearchInv
    <2> QED
      BY <1>6, <1>7, <2>6, <2>7, GoesOn
  <1> QED
    BY <1>14, <1>15

(* An empty heap: the target is joined to the first by nothing. *)
LEMMA UnarrivableKeeps ==
    ASSUME PathInv, Places \subseteq [x : Nat, z : Nat], P!Unarrivable
    PROVE  PathInv'
  <1>1. search.pc = "search" /\ heap = <<>> /\ UNCHANGED <<sys, data, heap>>
    BY DEF P!Unarrivable
  <1>2. /\ sys # P!NoSystem /\ DOMAIN search = Asked
        /\ search.beginPoint \in Places /\ search.targetPoint \in Places
        /\ search.begin = P!GetTriangleByPosition(search.beginPoint)
        /\ search.target = P!GetTriangleByPosition(search.targetPoint)
        /\ Shaped(sys) /\ P!InitPathFinder(sys) # P!NoSystem /\ SearchInv
    BY <1>1 DEF PathInv
  <1>3. /\ search.begin \in P!Polygons /\ search.target \in P!Polygons
        /\ SoundSearch(data, <<>>, search.begin)
        /\ Covered(data, P!NoPolygon) /\ "closed" \notin data[search.target].flag
        /\ search.lastBest \in {P!NoPolygon} \cup Reached(data)
        /\ P!NoPolygon \notin P!Polygons
    BY <1>1, <1>2, NeighboursArePolygons DEF SearchInv
  <1>4. /\ search.target \notin Reached(data)
        /\ search.target \notin P!Closure({search.begin}, P!Neighbours)
    BY <1>2, <1>3, ExhaustedIsAll
  <1>5. search' = [search EXCEPT !.pc = "done", !.result = P!PathFindErrorTargetPositionUnarrivable,
                                 !.written = <<>>]
    BY <1>3, <1>4 DEF P!Unarrivable, P!Answer
  <1>6. /\ search'.pc = "done" /\ search'.result = -4
        /\ search'.begin = search.begin /\ search'.target = search.target
        /\ AskedNext(search.beginPoint, search.targetPoint)
    BY <1>2, <1>5 DEF AskedNext, Asked, P!PathFindErrorTargetPositionUnarrivable
  <1>7. search'.begin # P!NoPolygon /\ search'.target # P!NoPolygon
    BY <1>3, <1>6
  <1> QED
    BY <1>1, <1>2, <1>4, <1>6, <1>7, EndsRight

(* The way points: the answer counts them. *)
LEMMA FinishKeeps ==
    ASSUME PathInv, Places \subseteq [x : Nat, z : Nat], P!Finish
    PROVE  PathInv'
  <1> DEFINE path == P!Chain(data, search.target)
             turns == Len(P!Walk(path, search.beginPoint, FALSE).way)
             points == Len(P!Walk(path, search.beginPoint, TRUE).way)
  <1>1. /\ search.pc = "found" /\ UNCHANGED <<sys, data, heap>>
        /\ \/ P!Answer(2 * (1 + turns), <<>>)
           \/ P!Answer(2 * points, Append(P!Walk(path, search.beginPoint, TRUE).way, search.targetPoint))
    BY DEF P!Finish
  <1>2. /\ sys # P!NoSystem /\ DOMAIN search = Asked
        /\ search.beginPoint \in Places /\ search.targetPoint \in Places
        /\ search.begin = P!GetTriangleByPosition(search.beginPoint)
        /\ search.target = P!GetTriangleByPosition(search.targetPoint)
        /\ Shaped(sys) /\ P!InitPathFinder(sys) # P!NoSystem /\ SearchInv
    BY <1>1 DEF PathInv
  <1>3. /\ search.begin \in P!Polygons /\ search.target \in P!Polygons /\ search.begin # search.target
        /\ SoundSearch(data, heap, search.begin) /\ search.target \in Reached(data)
        /\ P!NoPolygon \notin P!Polygons
    BY <1>1, <1>2, NeighboursArePolygons DEF SearchInv
  <1>4. turns \in Nat /\ points \in Nat
    <2>1. search.beginPoint \in Located
      BY <1>2 DEF Located
    <2> QED
      BY <1>2, <1>3, <2>1, WalkCounts
  <1>5. search.target \in P!Closure({search.begin}, P!Neighbours)
    BY <1>2, <1>3, EnteredIsReachable DEF SoundSearch
  <1> HIDE DEF turns, points
  <1>6. /\ search'.pc = "done" /\ search'.result \in Nat
        /\ search'.begin = search.begin /\ search'.target = search.target
        /\ AskedNext(search.beginPoint, search.targetPoint)
    <2>1. 2 * (1 + turns) \in Nat /\ 2 * points \in Nat
      BY <1>4
    <2>2. PICK result \in Nat : \E written :
              search' = [search EXCEPT !.pc = "done", !.result = result, !.written = written]
      BY <1>1, <2>1 DEF P!Answer
    <2>3. PICK written :
              search' = [search EXCEPT !.pc = "done", !.result = result, !.written = written]
      BY <2>2
    <2> QED
      BY <1>2, <2>3 DEF AskedNext, Asked
  <1>7. search'.begin # P!NoPolygon /\ search'.target # P!NoPolygon
    BY <1>3, <1>6
  <1> QED
    BY <1>1, <1>2, <1>5, <1>6, <1>7, EndsRight

(* The steps of the path finder keep its invariant. *)
LEMMA PathSteps ==
    ASSUME PathInv, Places \subseteq [x : Nat, z : Nat], [P!Next]_(P!vars)
    PROVE  PathInv'
  <1>1. CASE P!Next
    BY <1>1, FindPathKeeps, ExpandKeeps, UnarrivableKeeps, FinishKeeps DEF P!Next
  <1>2. CASE UNCHANGED P!vars
    <2>1. UNCHANGED <<sys, search, data, heap>>
      BY <1>2 DEF P!vars
    <2>2. SearchInv'
      BY <2>1, SameMesh DEF PathInv, SearchInv
    <2>3. P!PathFound'
      BY <2>1, SameAnswers DEF PathInv, P!PathFound
    <2> QED
      BY <2>1, <2>2, <2>3, SameAnswers DEF PathInv
  <1> QED
    BY <1>1, <1>2

(* It holds at first. *)
LEMMA PathStarts ==
    ASSUME GoodMeshes, P!Init
    PROVE  PathInv
  <1>1. PICK m \in Files : sys = P!InitPathFinder(m)
    BY DEF P!Init
  <1>2. search = [pc |-> "idle"]
    BY DEF P!Init
  <1>3. sys # P!NoSystem => sys = m /\ P!InitPathFinder(m) # P!NoSystem
    BY <1>1 DEF P!InitPathFinder
  <1>4. sys # P!NoSystem => Shaped(sys) /\ Zoned(sys) /\ P!InitPathFinder(sys) # P!NoSystem
    BY <1>3 DEF GoodMeshes
  <1> QED
    BY <1>2, <1>4 DEF PathInv, SearchInv, P!PathFound

(* What it shows. *)
LEMMA PathShows ==
    ASSUME PathInv
    PROVE  P!PathFound /\ P!SearchSound
  <1>1. P!PathFound
    BY DEF PathInv
  <1>2. CASE search.pc \in {"search", "found"}
    BY <1>1, <1>2, SoundShows DEF PathInv, SearchInv
  <1>3. CASE search.pc \notin {"search", "found"}
    BY <1>1, <1>3 DEF P!SearchSound
  <1> QED
    BY <1>1, <1>2, <1>3

(* Every polygon is in the heap once while it is open, however often its     *)
(* cost changes and although the heap does not keep the least first, and    *)
(* the parents lead back to the first without a circle (Heap.cpp:83,        *)
(* PathFinder.cpp:444): the walk back along them ends.                      *)
THEOREM SearchesAreSound == Spec => []SearchSound
  <1> DEFINE Inv == which = "path" => PathInv
  <1>1. Init => Inv
    BY PathStarts, LibraryAssumption DEF Init, Begin
  <1>2. Inv /\ [Next]_vars => Inv'
    BY OneAtATime, PathSteps, LibraryAssumption DEF GoodMeshes
  <1>3. Inv => SearchSound
    BY PathShows DEF SearchSound
  <1> QED
    BY <1>1, <1>2, <1>3, PTL DEF Spec

(* A path is found in every mesh between any two polygons that a chain of    *)
(* neighbours joins, and only between them, and an end outside the mesh is  *)
(* told from an end that cannot be reached (PathFinder.cpp:380).            *)
THEOREM PathsAreFound == Spec => []PathFound
  <1> DEFINE Inv == which = "path" => PathInv
  <1>1. Init => Inv
    BY PathStarts, LibraryAssumption DEF Init, Begin
  <1>2. Inv /\ [Next]_vars => Inv'
    BY OneAtATime, PathSteps, LibraryAssumption DEF GoodMeshes
  <1>3. Inv => PathFound
    BY PathShows DEF PathFound
  <1> QED
    BY <1>1, <1>2, <1>3, PTL DEF Spec

-----------------------------------------------------------------------------
(* INI files, of any lines, asked for any plain names.                     *)

\* The provers know no literal for a string: the marks are named apart.
Token == STRING \cup {"[", "]", "="}
Text  == Seq(Token)
One(token) == <<token>>

(* A token is a text, and joining goes on from the left. *)
LEMMA OneToken ==
    ASSUME NEW S, NEW e \in S
    PROVE  /\ <<e>> \in Seq(S)
           /\ \A s, t \in Seq(S) : s \o Append(t, e) = Append(s \o t, e)
  <1>1. <<e>> \in Seq(S)
    OBVIOUS
  <1>2. ASSUME NEW s \in Seq(S), NEW t \in Seq(S)
        PROVE  s \o Append(t, e) = Append(s \o t, e)
    <2>1. Append(t, e) = t \o <<e>>
      BY AppendIsConcat
    <2>2. s \o t \in Seq(S)
      BY ConcatProperties
    <2>3. Append(s \o t, e) = (s \o t) \o <<e>>
      BY <2>2, AppendIsConcat
    <2>4. (s \o t) \o <<e>> = s \o (t \o <<e>>)
      BY <1>1, ConcatAssociative
    <2> QED
      BY <2>1, <2>3, <2>4
  <1> QED
    BY <1>1, <1>2

(* The text of one token. *)
LEMMA OneText ==
    ASSUME NEW e \in Token
    PROVE  /\ One(e) \in Text /\ One(e) \in Seq(Token) /\ Len(One(e)) = 1
           /\ One(e)[1] = e /\ DOMAIN One(e) = 1 .. 1
  BY OneToken DEF One, Text

(* What one more token does to a text. *)
LEMMA TextAppend ==
    ASSUME NEW s \in Text, NEW e \in Token
    PROVE  /\ Append(s, e) \in Text /\ Append(s, e) = s \o One(e) /\ One(e) \in Text
           /\ Len(s) \in Nat /\ Len(Append(s, e)) = Len(s) + 1
           /\ \A i \in 1 .. Len(s) : Append(s, e)[i] = s[i]
           /\ Append(s, e)[Len(s) + 1] = e
           /\ DOMAIN s = 1 .. Len(s) /\ DOMAIN Append(s, e) = 1 .. Len(s) + 1
  <1>1. Append(s, e) \in Seq(Token) /\ Len(Append(s, e)) = Len(s) + 1
    BY AppendProperties DEF Text
  <1>2. \A t \in Seq(Token) : Len(t) \in Nat /\ DOMAIN t = 1 .. Len(t)
    OBVIOUS
  <1>3. \A i \in 1 .. Len(s) : Append(s, e)[i] = s[i]
    BY AppendProperties DEF Text
  <1>4. Append(s, e)[Len(s) + 1] = e
    BY AppendProperties DEF Text
  <1>5. Append(s, e) = s \o One(e)
    BY AppendIsConcat DEF Text, One
  <1>6. One(e) \in Seq(Token)
    BY OneToken DEF One
  <1> QED
    BY <1>1, <1>2, <1>3, <1>4, <1>5, <1>6 DEF Text

\* What is left of the first n tokens of s without blanks, for each n.
IsBare(b, s) ==
    b = [n \in 0 .. Len(s) |-> IF n = 0 THEN <<>>
                               ELSE IF s[n] \in I!Blanks THEN b[n - 1]
                               ELSE Append(b[n - 1], s[n])]

Bares(b, s) ==
    /\ b[0] = <<>>
    /\ \A n \in 1 .. Len(s) :
          b[n] = IF s[n] \in I!Blanks THEN b[n - 1] ELSE Append(b[n - 1], s[n])

(* The recursion that leaves the blanks out has a value. *)
LEMMA BareExists ==
    ASSUME NEW s \in Text
    PROVE  \E b \in [0 .. Len(s) -> Text] : IsBare(b, s) /\ Bares(b, s)
  <1> DEFINE m == Len(s)
             g == [x \in (1 .. m) \X Text |-> IF s[x[1]] \in I!Blanks THEN x[2]
                                              ELSE Append(x[2], s[x[1]])]
  <1>1. m \in Nat /\ \A n \in 1 .. m : s[n] \in Token
    BY DEF Text
  <1> HIDE DEF m
  <1>2. <<>> \in Text
    BY DEF Text
  <1>3. ASSUME NEW n \in 1 .. m, NEW x \in Text
        PROVE  (IF s[n] \in I!Blanks THEN x ELSE Append(x, s[n])) \in Text
    BY <1>1, TextAppend
  <1>4. g \in [(1 .. m) \X Text -> Text]
    BY <1>3
  <1>5. \A n \in 1 .. m, x \in Text :
           g[<<n, x>>] = IF s[n] \in I!Blanks THEN x ELSE Append(x, s[n])
    OBVIOUS
  <1> HIDE DEF g
  <1>6. PICK b \in [0 .. m -> Text] : Runs(b, m, <<>>, g)
    BY <1>1, <1>2, <1>4, RunExists
  <1>7. ASSUME NEW n \in 1 .. m
        PROVE  b[n] = IF s[n] \in I!Blanks THEN b[n - 1] ELSE Append(b[n - 1], s[n])
    <2>1. n - 1 \in 0 .. m
      BY <1>1
    <2>2. b[n - 1] \in Text
      BY <1>6, <2>1
    <2> QED
      BY <1>5, <1>6, <2>2 DEF Runs
  <1>8. Bares(b, s)
    BY <1>6, <1>7 DEF Bares, Runs, m
  <1>9. ASSUME NEW n \in 0 .. m
        PROVE  b[n] = IF n = 0 THEN <<>> ELSE IF s[n] \in I!Blanks THEN b[n - 1]
                      ELSE Append(b[n - 1], s[n])
    <2>1. n # 0 => n \in 1 .. m
      BY <1>1
    <2> QED
      BY <1>6, <1>7, <2>1 DEF Runs
  <1>10. IsBare(b, s)
    BY <1>6, <1>9 DEF IsBare, m
  <1> QED
    BY <1>6, <1>8, <1>10 DEF m

(* Whatever goes through the tokens that way ends with what is left. *)
LEMMA BareIs ==
    ASSUME NEW s \in Text, NEW b, Bares(b, s)
    PROVE  I!Bare(s) = b[Len(s)]
  <1> DEFINE c == CHOOSE c : IsBare(c, s)
  <1>1. I!Bare(s) = c[Len(s)]
    BY DEF I!Bare, IsBare
  <1>2. \E d : IsBare(d, s)
    BY BareExists
  <1>3. IsBare(c, s)
    BY <1>2
  <1> HIDE DEF c
  <1>4. Len(s) \in Nat
    BY DEF Text
  <1>5. \A n \in 0 .. Len(s) :
           c[n] = IF n = 0 THEN <<>> ELSE IF s[n] \in I!Blanks THEN c[n - 1]
                  ELSE Append(c[n - 1], s[n])
    BY <1>3 DEF IsBare
  <1> DEFINE D == {n \in 0 .. Len(s) : c[n] = b[n]}
  <1>6. 0 \in D
    BY <1>4, <1>5 DEF Bares
  <1>7. ASSUME NEW n \in 1 .. Len(s), n - 1 \in D
        PROVE  n \in D
    <2>1. n \in 0 .. Len(s) /\ n # 0
      BY <1>4
    <2>2. c[n] = IF s[n] \in I!Blanks THEN c[n - 1] ELSE Append(c[n - 1], s[n])
      BY <1>5, <2>1
    <2> QED
      BY <1>7, <2>1, <2>2 DEF Bares
  <1>8. Len(s) \in D
    <2>1. Len(s) \in 0 .. Len(s)
      BY <1>4
    <2> HIDE DEF D
    <2> QED
      BY <1>4, <1>6, <1>7, <2>1, Upwards
  <1> QED
    BY <1>1, <1>8

(* What is left is a text. *)
LEMMA BareType ==
    ASSUME NEW s \in Text
    PROVE  I!Bare(s) \in Text
  <1>1. PICK b \in [0 .. Len(s) -> Text] : Bares(b, s)
    BY BareExists
  <1>2. Len(s) \in 0 .. Len(s)
    BY DEF Text
  <1> QED
    BY <1>1, <1>2, BareIs

(* One token more is left out or added. *)
LEMMA BareAppend ==
    ASSUME NEW s \in Text, NEW e \in Token
    PROVE  I!Bare(Append(s, e)) = IF e \in I!Blanks THEN I!Bare(s) ELSE Append(I!Bare(s), e)
  <1> DEFINE t == Append(s, e)
             m == Len(s)
  <1>1. t \in Text /\ Len(t) = m + 1 /\ m \in Nat /\ t[m + 1] = e
    BY TextAppend
  <1>2. \A i \in 1 .. m : t[i] = s[i]
    BY TextAppend
  <1> HIDE DEF t, m
  <1>3. PICK b \in [0 .. Len(t) -> Text] : Bares(b, t)
    BY <1>1, BareExists
  <1>4. I!Bare(t) = b[m + 1]
    BY <1>1, <1>3, BareIs
  <1>5. Bares(b, s)
    BY <1>1, <1>2, <1>3 DEF Bares, m
  <1>6. I!Bare(s) = b[m]
    BY <1>5, BareIs DEF m
  <1>7. m \in 0 .. Len(t) /\ m + 1 \in 1 .. Len(t) /\ (m + 1) - 1 = m
    BY <1>1
  <1>8. b[m + 1] = IF e \in I!Blanks THEN b[m] ELSE Append(b[m], e)
    BY <1>1, <1>3, <1>7 DEF Bares
  <1> QED
    BY <1>4, <1>6, <1>8 DEF t

(* Nothing is left of nothing. *)
LEMMA BareEmpty == I!Bare(<<>>) = <<>> /\ <<>> \in Text
  <1>1. <<>> \in Text /\ Len(<<>>) = 0
    BY DEF Text
  <1>2. Bares([n \in 0 .. 0 |-> <<>>], <<>>)
    BY <1>1 DEF Bares
  <1> QED
    BY <1>1, <1>2, BareIs

(* Sequences grow from nothing, token by token. *)
LEMMA TextGrows ==
    ASSUME NEW D, <<>> \in D, \A s \in Text, e \in Token : s \in D => Append(s, e) \in D
    PROVE  Text \subseteq D
  <1> SUFFICES ASSUME NEW s \in Text
               PROVE  s \in D
    OBVIOUS
  <1> DEFINE E == {n \in 0 .. Len(s) : SubSeq(s, 1, n) \in D}
  <1>1. Len(s) \in Nat
    BY DEF Text
  <1>2. 0 \in E
    <2>1. SubSeq(s, 1, 0) = <<>> /\ 0 \in 0 .. Len(s)
      BY <1>1, SubSeqEmpty
    <2> QED
      BY <2>1
  <1>3. ASSUME NEW n \in 1 .. Len(s), n - 1 \in E
        PROVE  n \in E
    <2> DEFINE u == SubSeq(s, 1, n - 1)
    <2>1. u \in Text /\ s[n] \in Token /\ u \in D
      BY <1>1, <1>3 DEF Text
    <2>2. SubSeq(s, 1, n) = Append(u, s[n])
      <3>1. n \in 1 .. Len(s) /\ 1 \in 1 .. Len(s) /\ s \in Seq(Token)
        BY <1>1 DEF Text
      <3>2. SubSeq(s, 1, n) = u \o One(s[n])
        BY <3>1, SubSeqRecursiveSecond DEF One
      <3> QED
        BY <2>1, <3>2, AppendIsConcat DEF Text, One
    <2>3. Append(u, s[n]) \in D
      BY <2>1
    <2>4. n \in 0 .. Len(s)
      BY <1>1
    <2> QED
      BY <2>2, <2>3, <2>4
  <1>4. Len(s) \in E
    <2>1. Len(s) \in 0 .. Len(s)
      BY <1>1
    <2> HIDE DEF E
    <2> QED
      BY <1>1, <1>2, <1>3, <2>1, Upwards
  <1> QED
    BY <1>4, SubSeqFull DEF Text

(* What is left of two sequences is left of them joined. *)
LEMMA BareConcat ==
    ASSUME NEW s \in Text, NEW t \in Text
    PROVE  /\ I!Bare(s \o t) = I!Bare(s) \o I!Bare(t)
           /\ I!Bare(s) \in Text /\ s \o t \in Text
  <1> DEFINE D == {u \in Text : I!Bare(s \o u) = I!Bare(s) \o I!Bare(u)}
  <1>1. I!Bare(s) \in Text
    BY BareType
  <1>2. <<>> \in D
    BY <1>1, BareEmpty, ConcatEmptySeq DEF Text
  <1>3. ASSUME NEW u \in Text, NEW e \in Token, u \in D
        PROVE  Append(u, e) \in D
    <2>1. s \o u \in Text /\ I!Bare(u) \in Text /\ Append(u, e) \in Text
      BY BareType, TextAppend, ConcatProperties DEF Text
    <2>2. s \o Append(u, e) = Append(s \o u, e)
      BY OneToken DEF Text
    <2>3. I!Bare(s) \o Append(I!Bare(u), e) = Append(I!Bare(s) \o I!Bare(u), e)
      BY <1>1, <2>1, OneToken DEF Text
    <2> QED
      BY <1>3, <2>1, <2>2, <2>3, BareAppend
  <1>4. Text \subseteq D
    <2> HIDE DEF D
    <2> QED
      BY <1>2, <1>3, TextGrows
  <1> QED
    BY <1>1, <1>4 DEF Text

(* Of blanks nothing is left, of a word all of it. *)
LEMMA BareOfBlanks ==
    ASSUME NEW s \in Text, \A i \in DOMAIN s : s[i] \in I!Blanks
    PROVE  I!Bare(s) = <<>>
  <1>1. Bares([n \in 0 .. Len(s) |-> <<>>], s)
    BY DEF Bares, Text
  <1>2. Len(s) \in 0 .. Len(s)
    BY DEF Text
  <1> QED
    BY <1>1, <1>2, BareIs

LEMMA BareOfWord ==
    ASSUME NEW s \in Text, Lacks(s, I!Blanks)
    PROVE  I!Bare(s) = s
  <1> DEFINE D == {u \in Text : Lacks(u, I!Blanks) => I!Bare(u) = u}
  <1>1. <<>> \in D
    BY BareEmpty
  <1>2. ASSUME NEW u \in Text, NEW e \in Token, u \in D
        PROVE  Append(u, e) \in D
    <2> SUFFICES ASSUME Lacks(Append(u, e), I!Blanks)
                 PROVE  I!Bare(Append(u, e)) = Append(u, e)
      BY TextAppend
    <2>1. DOMAIN u = 1 .. Len(u) /\ DOMAIN Append(u, e) = 1 .. Len(u) + 1 /\ Len(u) \in Nat
      BY TextAppend
    <2>2. Append(u, e)[Len(u) + 1] = e /\ \A i \in 1 .. Len(u) : Append(u, e)[i] = u[i]
      BY TextAppend
    <2>3. e \notin I!Blanks /\ Lacks(u, I!Blanks)
      BY <2>1, <2>2 DEF Lacks
    <2> QED
      BY <1>2, <2>3, BareAppend
  <1>3. Text \subseteq D
    <2> HIDE DEF D
    <2> QED
      BY <1>1, <1>2, TextGrows
  <1> QED
    BY <1>3

(* A part of a text is one, and a text is what comes before a place and what *)
(* comes from it on.                                                        *)
LEMMA TextParts ==
    ASSUME NEW s \in Text, NEW k \in 1 .. Len(s) + 1
    PROVE  /\ SubSeq(s, 1, k - 1) \in Text /\ SubSeq(s, k, Len(s)) \in Text
           /\ s = SubSeq(s, 1, k - 1) \o SubSeq(s, k, Len(s))
           /\ Len(SubSeq(s, 1, k - 1)) = k - 1
           /\ \A i \in 1 .. k - 1 : SubSeq(s, 1, k - 1)[i] = s[i]
           /\ Len(SubSeq(s, k, Len(s))) = Len(s) - k + 1
           /\ \A i \in 1 .. Len(s) - k + 1 : SubSeq(s, k, Len(s))[i] = s[k + i - 1]
  <1>1. Len(s) \in Nat /\ s \in Seq(Token) /\ \A i \in 1 .. Len(s) : s[i] \in Token
    BY DEF Text
  <1>2. \A i \in 1 .. k - 1 : s[i] \in Token
    BY <1>1
  <1>3. \A i \in k .. Len(s) : s[i] \in Token
    BY <1>1
  <1>4. /\ SubSeq(s, 1, k - 1) \in Text /\ Len(SubSeq(s, 1, k - 1)) = k - 1
        /\ \A i \in 1 .. k - 1 : SubSeq(s, 1, k - 1)[i] = s[i]
    <2>1. 1 \in Int /\ k - 1 \in Int
      OBVIOUS
    <2>2. /\ SubSeq(s, 1, k - 1) \in Text
          /\ Len(SubSeq(s, 1, k - 1)) = IF 1 <= k - 1 THEN (k - 1) - 1 + 1 ELSE 0
          /\ \A i \in 1 .. (k - 1) - 1 + 1 : SubSeq(s, 1, k - 1)[i] = s[1 + i - 1]
      BY <1>2, <2>1, SubSeqProperties DEF Text
    <2> QED
      BY <1>1, <2>2
  <1>5. /\ SubSeq(s, k, Len(s)) \in Text /\ Len(SubSeq(s, k, Len(s))) = Len(s) - k + 1
        /\ \A i \in 1 .. Len(s) - k + 1 : SubSeq(s, k, Len(s))[i] = s[k + i - 1]
    <2>1. k \in Int /\ Len(s) \in Int
      BY <1>1
    <2>2. /\ SubSeq(s, k, Len(s)) \in Text
          /\ Len(SubSeq(s, k, Len(s))) = IF k <= Len(s) THEN Len(s) - k + 1 ELSE 0
          /\ \A i \in 1 .. Len(s) - k + 1 : SubSeq(s, k, Len(s))[i] = s[k + i - 1]
      BY <1>3, <2>1, SubSeqProperties DEF Text
    <2> QED
      BY <1>1, <2>2
  <1>6. s = SubSeq(s, 1, k - 1) \o SubSeq(s, k, Len(s))
    <2>1. /\ 1 \in 1 .. Len(s) + 1 /\ k - 1 \in 1 - 1 .. Len(s)
          /\ Len(s) \in k - 1 .. Len(s) /\ (k - 1) + 1 = k
      BY <1>1
    <2>2. SubSeq(s, 1, k - 1) \o SubSeq(s, (k - 1) + 1, Len(s)) = SubSeq(s, 1, Len(s))
      BY <1>1, <2>1, ConcatAdjacentSubSeq
    <2> QED
      BY <1>1, <2>1, <2>2, SubSeqFull
  <1> QED
    BY <1>4, <1>5, <1>6

(* The greatest of some numbers up to n. *)
LEMMA GreatestExists ==
    ASSUME NEW n \in Nat, NEW S \in SUBSET (1 .. n), S # {}
    PROVE  \E i \in S : \A j \in S : i >= j
  <1> DEFINE R == {n - i : i \in S}
  <1>1. R \in SUBSET Nat /\ R # {}
    <2>1. \A i \in S : i \in Int /\ n - i \in Nat
      OBVIOUS
    <2>2. PICK i \in S : TRUE
      OBVIOUS
    <2>3. n - i \in R
      OBVIOUS
    <2> QED
      BY <2>1, <2>3
  <1>2. PICK r \in R : \A q \in R : r <= q
    <2> HIDE DEF R
    <2> QED
      BY <1>1, LeastExists
  <1>3. PICK i \in S : r = n - i
    OBVIOUS
  <1>4. ASSUME NEW j \in S
        PROVE  i >= j
    <2>1. n - j \in R
      OBVIOUS
    <2>2. n - i <= n - j
      BY <1>2, <1>3, <2>1
    <2> QED
      BY <2>2
  <1> QED
    BY <1>4

(* Trimming the front takes tokens of the given ones, up to one that is not. *)
LEMMA FrontTrimmed ==
    ASSUME NEW s \in Text, NEW B
    PROVE  /\ I!TrimFront(s, B) \in Text
           /\ I!TrimFront(s, B) # <<>> => I!TrimFront(s, B)[1] \notin B
           /\ \E u \in Text : /\ s = u \o I!TrimFront(s, B)
                              /\ \A i \in DOMAIN u : u[i] \in B
  <1> DEFINE J == {i \in 1 .. Len(s) : s[i] \notin B}
             k == I!Min(J)
  <1>1. I!TrimFront(s, B) = LET i == IF J # {} THEN k ELSE 0
                            IN  IF i = 0 THEN <<>> ELSE SubSeq(s, i, Len(s))
    BY DEF I!TrimFront, I!SelectInSeq
  <1>2. Len(s) \in Nat /\ DOMAIN s = 1 .. Len(s) /\ J \in SUBSET Nat
    BY DEF Text
  <1>3. CASE J = {}
    <2>1. I!TrimFront(s, B) = <<>> /\ <<>> \in Text /\ s \o <<>> = s
      BY <1>1, <1>3, BareEmpty, ConcatEmptySeq DEF Text
    <2>2. \A i \in DOMAIN s : s[i] \in B
      BY <1>2, <1>3
    <2> QED
      BY <2>1, <2>2
  <1>4. CASE J # {}
    <2>1. k \in J /\ \A j \in J : k <= j
      <3>1. k = CHOOSE x \in J : \A y \in J : x <= y
        BY DEF I!Min
      <3> HIDE DEF J, k
      <3> QED
        BY <1>2, <1>4, <3>1, LeastExists
    <2>2. k \in 1 .. Len(s) + 1 /\ k \in 1 .. Len(s) /\ s[k] \notin B
      BY <1>2, <2>1
    <2>3. \A i \in 1 .. k - 1 : i \in 1 .. Len(s) /\ i < k
      BY <1>2, <2>2
    <2>4. \A i \in 1 .. k - 1 : s[i] \in B
      BY <1>2, <2>1, <2>2, <2>3
    <2>5. I!TrimFront(s, B) = SubSeq(s, k, Len(s))
      <3>1. k # 0
        BY <2>2
      <3> HIDE DEF J, k
      <3> QED
        BY <1>1, <1>4, <3>1
    <2> HIDE DEF J, k
    <2> DEFINE u == SubSeq(s, 1, k - 1)
               t == SubSeq(s, k, Len(s))
    <2>6. /\ u \in Text /\ t \in Text /\ s = u \o t /\ Len(u) = k - 1
          /\ \A i \in 1 .. k - 1 : u[i] = s[i]
          /\ \A i \in 1 .. Len(s) - k + 1 : t[i] = s[k + i - 1]
      BY <2>2, TextParts
    <2>7. t[1] = s[k]
      BY <1>2, <2>2, <2>6
    <2>8. DOMAIN u = 1 .. k - 1
      <3> HIDE DEF u
      <3> QED
        BY <2>6 DEF Text
    <2>9. \A i \in DOMAIN u : u[i] \in B
      BY <2>4, <2>6, <2>8
    <2> QED
      BY <2>2, <2>5, <2>6, <2>7, <2>9
  <1> QED
    BY <1>3, <1>4

(* Trimming the back takes tokens of the given ones. *)
LEMMA BackTrimmed ==
    ASSUME NEW s \in Text, NEW B
    PROVE  /\ I!TrimBack(s, B) \in Text
           /\ \E v \in Text : /\ s = I!TrimBack(s, B) \o v
                              /\ \A i \in DOMAIN v : v[i] \in B
  <1> DEFINE J == {i \in 1 .. Len(s) : s[i] \notin B}
             k == IF J # {} THEN I!Max(J) ELSE 0
  <1>1. I!TrimBack(s, B) = SubSeq(s, 1, k)
    BY DEF I!TrimBack, I!SelectLastInSeq
  <1>2. Len(s) \in Nat /\ DOMAIN s = 1 .. Len(s) /\ J \in SUBSET (1 .. Len(s))
    BY DEF Text
  <1>3. k \in 0 .. Len(s) /\ \A j \in J : j <= k
    <2>1. CASE J = {}
      BY <1>2, <2>1
    <2>2. CASE J # {}
      <3>1. k = CHOOSE x \in J : \A y \in J : x >= y
        BY <2>2 DEF I!Max
      <3>2. k \in J /\ \A y \in J : k >= y
        <4> HIDE DEF J, k
        <4> QED
          BY <1>2, <2>2, <3>1, GreatestExists
      <3> HIDE DEF k
      <3> QED
        BY <1>2, <3>2
    <2> QED
      BY <2>1, <2>2
  <1>4. \A i \in k + 1 .. Len(s) : s[i] \in B
    <2> SUFFICES ASSUME NEW i \in k + 1 .. Len(s), s[i] \notin B
                 PROVE  FALSE
      OBVIOUS
    <2>1. i \in J
      BY <1>2, <1>3
    <2> HIDE DEF k
    <2> QED
      BY <1>2, <1>3, <2>1
  <1> HIDE DEF J, k
  <1>5. k + 1 \in 1 .. Len(s) + 1 /\ (k + 1) - 1 = k
    BY <1>2, <1>3
  <1> DEFINE u == SubSeq(s, 1, k)
             v == SubSeq(s, k + 1, Len(s))
  <1>6. /\ u \in Text /\ v \in Text /\ s = u \o v
        /\ Len(v) = Len(s) - (k + 1) + 1
        /\ \A i \in 1 .. Len(s) - (k + 1) + 1 : v[i] = s[(k + 1) + i - 1]
    BY <1>5, TextParts
  <1>7. DOMAIN v = 1 .. Len(s) - (k + 1) + 1
    <2> HIDE DEF v
    <2> QED
      BY <1>6 DEF Text
  <1>8. \A i \in DOMAIN v : v[i] \in B
    <2> SUFFICES ASSUME NEW i \in DOMAIN v
                 PROVE  v[i] \in B
      OBVIOUS
    <2>1. i \in 1 .. Len(s) - (k + 1) + 1
      BY <1>7
    <2>2. (k + 1) + i - 1 \in k + 1 .. Len(s)
      BY <1>2, <1>3, <2>1
    <2> QED
      BY <1>4, <1>6, <2>1, <2>2
  <1> QED
    BY <1>1, <1>6, <1>8

(* Trimming blanks leaves what is left of a text as it is. *)
LEMMA BareOfTrimmed ==
    ASSUME NEW s \in Text, NEW B, B \subseteq I!Blanks
    PROVE  I!Bare(I!TrimFront(s, B)) = I!Bare(s) /\ I!Bare(I!TrimBack(s, B)) = I!Bare(s)
  <1>1. I!Bare(I!TrimFront(s, B)) = I!Bare(s)
    <2>1. PICK t \in Text : t = I!TrimFront(s, B)
      BY FrontTrimmed
    <2>2. PICK u \in Text : s = u \o t /\ \A i \in DOMAIN u : u[i] \in B
      BY <2>1, FrontTrimmed
    <2>3. I!Bare(u) = <<>>
      BY <2>2, BareOfBlanks
    <2>4. I!Bare(s) = I!Bare(u) \o I!Bare(t) /\ I!Bare(t) \in Text
      BY <2>2, BareConcat, BareType
    <2> QED
      BY <2>1, <2>3, <2>4, ConcatEmptySeq DEF Text
  <1>2. I!Bare(I!TrimBack(s, B)) = I!Bare(s)
    <2>1. PICK t \in Text : t = I!TrimBack(s, B)
      BY BackTrimmed
    <2>2. PICK v \in Text : s = t \o v /\ \A i \in DOMAIN v : v[i] \in B
      BY <2>1, BackTrimmed
    <2>3. I!Bare(v) = <<>>
      BY <2>2, BareOfBlanks
    <2>4. I!Bare(s) = I!Bare(t) \o I!Bare(v) /\ I!Bare(t) \in Text
      BY <2>2, BareConcat, BareType
    <2> QED
      BY <2>1, <2>3, <2>4, ConcatEmptySeq DEF Text
  <1> QED
    BY <1>1, <1>2

(* The position of a token is the first where it is, or 0. *)
LEMMA FirstPosition ==
    ASSUME NEW s \in Text, NEW token
    PROVE  /\ I!Position(s, token) \in 0 .. Len(s)
           /\ I!Position(s, token) = 0 <=> ~ (I!Position(s, token) > 0)
           /\ I!Position(s, token) = 0 => Lacks(s, {token})
           /\ I!Position(s, token) > 0 =>
                 /\ s[I!Position(s, token)] = token
                 /\ \A i \in 1 .. I!Position(s, token) - 1 : s[i] # token
  <1> DEFINE J == {i \in 1 .. Len(s) : s[i] = token}
             k == I!Position(s, token)
  <1>1. k = IF J # {} THEN I!Min(J) ELSE 0
    BY DEF I!Position, I!SelectInSeq
  <1>2. Len(s) \in Nat /\ DOMAIN s = 1 .. Len(s) /\ J \in SUBSET Nat
    BY DEF Text
  <1>3. CASE J = {}
    <2>1. k = 0
      BY <1>1, <1>3
    <2>2. \A i \in DOMAIN s : s[i] \notin {token}
      BY <1>2, <1>3
    <2>3. Lacks(s, {token}) /\ 0 \in 0 .. Len(s) /\ ~ (0 > 0)
      BY <1>2, <2>2 DEF Lacks
    <2> QED
      BY <2>1, <2>3
  <1>4. CASE J # {}
    <2>1. k = CHOOSE x \in J : \A y \in J : x <= y
      BY <1>1, <1>4 DEF I!Min
    <2>2. k \in J /\ \A j \in J : k <= j
      <3> HIDE DEF J, k
      <3> QED
        BY <1>2, <1>4, <2>1, LeastExists
    <2>3. k \in 1 .. Len(s) /\ s[k] = token /\ k \in 0 .. Len(s) /\ k # 0 /\ k > 0
      BY <1>2, <2>2
    <2>4. \A i \in 1 .. k - 1 : s[i] # token
      <3> SUFFICES ASSUME NEW i \in 1 .. k - 1, s[i] = token
                   PROVE  FALSE
        OBVIOUS
      <3>1. i \in J
        BY <1>2, <2>3
      <3> QED
        BY <2>2, <2>3, <3>1
    <2> QED
      BY <2>3, <2>4
  <1> QED
    BY <1>3, <1>4

(* Up to the first of a token the text is plain. *)
LEMMA SplitAt ==
    ASSUME NEW s \in Text, NEW token \in Token, I!Position(s, token) > 0
    PROVE  LET k == I!Position(s, token)
               u == SubSeq(s, 1, k - 1)
               t == SubSeq(s, k + 1, Len(s))
           IN  /\ u \in Text /\ t \in Text /\ Lacks(u, {token}) /\ k \in 1 .. Len(s)
               /\ s = u \o (One(token) \o t)
  <1> DEFINE k == I!Position(s, token)
             u == SubSeq(s, 1, k - 1)
             t == SubSeq(s, k + 1, Len(s))
  <1>1. k \in 1 .. Len(s) /\ s[k] = token /\ \A i \in 1 .. k - 1 : s[i] # token
    <2>1. k \in 0 .. Len(s) /\ k > 0
      BY FirstPosition
    <2>2. k \in 1 .. Len(s)
      <3> HIDE DEF k
      <3> QED
        BY <2>1
    <2>3. s[k] = token /\ \A i \in 1 .. k - 1 : s[i] # token
      BY FirstPosition
    <2> QED
      BY <2>2, <2>3
  <1> HIDE DEF k
  <1>2. Len(s) \in Nat /\ s \in Seq(Token)
    BY DEF Text
  <1>3. k \in 1 .. Len(s) + 1 /\ k + 1 \in 1 .. Len(s) + 1 /\ Len(s) \in k .. Len(s)
    BY <1>1, <1>2
  <1>4. /\ u \in Text /\ Len(u) = k - 1 /\ \A i \in 1 .. k - 1 : u[i] = s[i]
        /\ s = u \o SubSeq(s, k, Len(s))
    BY <1>3, TextParts
  <1>5. t \in Text
    BY <1>3, TextParts
  <1>6. SubSeq(s, k, Len(s)) = One(token) \o t
    BY <1>1, <1>2, <1>3, SubSeqRecursiveFirst DEF One
  <1>7. DOMAIN u = 1 .. k - 1
    <2> HIDE DEF u
    <2> QED
      BY <1>4 DEF Text
  <1>8. Lacks(u, {token})
    BY <1>1, <1>4, <1>7 DEF Lacks
  <1> QED
    BY <1>1, <1>4, <1>5, <1>6, <1>8 DEF k

(* Two texts that go up to the same token are the same as far as it. *)
LEMMA Delimited ==
    ASSUME NEW a \in Text, NEW b \in Text, NEW rest \in Text, NEW token \in Token,
           Lacks(a, {token}), Lacks(b, {token})
    PROVE  /\ I!IsPrefix(a \o One(token), b \o (One(token) \o rest)) <=> a = b
           /\ ~ I!IsPrefix(a \o One(token), b)
  <1>1. /\ Len(a) \in Nat /\ Len(b) \in Nat /\ Len(rest) \in Nat
        /\ DOMAIN a = 1 .. Len(a) /\ DOMAIN b = 1 .. Len(b)
    BY DEF Text
  <1> DEFINE one == One(token)
  <1>8. one \in Seq(Token) /\ Len(one) = 1 /\ one[1] = token
    BY OneText
  <1> HIDE DEF one
  <1> DEFINE p == a \o one
             q == b \o (one \o rest)
  <1>2. /\ p \in Seq(Token) /\ Len(p) = Len(a) + 1
        /\ \A i \in 1 .. Len(a) + 1 : p[i] = IF i <= Len(a) THEN a[i] ELSE token
    <2>1. /\ p \in Seq(Token) /\ Len(p) = Len(a) + Len(one)
          /\ \A i \in 1 .. Len(a) + Len(one) :
                p[i] = IF i <= Len(a) THEN a[i] ELSE one[i - Len(a)]
      BY <1>8, ConcatProperties DEF Text
    <2> HIDE DEF p
    <2>2. \A i \in 1 .. Len(a) + 1 : ~ (i <= Len(a)) => i - Len(a) = 1
      BY <1>1
    <2> QED
      BY <1>1, <1>8, <2>1, <2>2
  <1>3. /\ q \in Seq(Token) /\ Len(q) = Len(b) + 1 + Len(rest)
        /\ \A i \in 1 .. Len(b) : q[i] = b[i]
        /\ q[Len(b) + 1] = token
    <2> DEFINE r == one \o rest
    <2>1. /\ r \in Seq(Token) /\ Len(r) = Len(one) + Len(rest)
          /\ \A i \in 1 .. Len(one) + Len(rest) :
                r[i] = IF i <= Len(one) THEN one[i] ELSE rest[i - Len(one)]
      BY <1>8, ConcatProperties DEF Text
    <2>2. Len(r) = 1 + Len(rest) /\ r[1] = token
      <3>1. 1 \in 1 .. Len(one) + Len(rest) /\ 1 <= Len(one)
        BY <1>1, <1>8
      <3> HIDE DEF r
      <3> QED
        BY <1>8, <2>1, <3>1
    <2> HIDE DEF r
    <2>3. /\ q \in Seq(Token) /\ Len(q) = Len(b) + Len(r)
          /\ \A i \in 1 .. Len(b) + Len(r) :
                q[i] = IF i <= Len(b) THEN b[i] ELSE r[i - Len(b)]
      BY <2>1, ConcatProperties DEF Text, r
    <2> HIDE DEF q
    <2>4. Len(b) + 1 \in 1 .. Len(b) + Len(r) /\ (Len(b) + 1) - Len(b) = 1
      BY <1>1, <2>2
    <2>5. \A i \in 1 .. Len(b) : i \in 1 .. Len(b) + Len(r) /\ i <= Len(b)
      BY <1>1, <2>2
    <2>6. ~ (Len(b) + 1 <= Len(b))
      BY <1>1
    <2>7. q[Len(b) + 1] = r[1]
      BY <2>3, <2>4, <2>6
    <2>8. Len(q) = Len(b) + 1 + Len(rest)
      BY <1>1, <2>2, <2>3
    <2> QED
      BY <2>2, <2>3, <2>5, <2>7, <2>8
  <1> HIDE DEF p, q
  <1>4. \A s \in Seq(Token) :
           I!IsPrefix(p, s) => Len(p) <= Len(s) /\ \A i \in 1 .. Len(p) : p[i] = s[i]
    <2> SUFFICES ASSUME NEW s \in Seq(Token), I!IsPrefix(p, s)
                 PROVE  Len(p) <= Len(s) /\ \A i \in 1 .. Len(p) : p[i] = s[i]
      OBVIOUS
    <2>1. Len(p) <= Len(s) /\ SubSeq(p, 1, Len(p)) = SubSeq(s, 1, Len(p))
      BY DEF I!IsPrefix
    <2>2. Len(s) \in Nat /\ Len(p) \in Nat
      BY <1>1, <1>2
    <2>3. Len(p) + 1 \in 1 .. Len(s) + 1 /\ Len(p) + 1 \in 1 .. Len(p) + 1
          /\ (Len(p) + 1) - 1 = Len(p)
      BY <2>1, <2>2
    <2>4. \A i \in 1 .. Len(p) : SubSeq(s, 1, Len(p))[i] = s[i]
      BY <2>3, TextParts DEF Text
    <2>5. \A i \in 1 .. Len(p) : SubSeq(p, 1, Len(p))[i] = p[i]
      BY <1>2, <2>3, TextParts DEF Text
    <2> QED
      BY <2>1, <2>4, <2>5
  <1>5. ASSUME I!IsPrefix(p, q)
        PROVE  a = b
    <2>1. Len(p) <= Len(q) /\ \A i \in 1 .. Len(p) : p[i] = q[i]
      BY <1>3, <1>4, <1>5
    <2>2. ~ (Len(a) < Len(b))
      <3> SUFFICES ASSUME Len(a) < Len(b)
                   PROVE  FALSE
        OBVIOUS
      <3>1. Len(a) + 1 \in 1 .. Len(b) /\ Len(a) + 1 \in 1 .. Len(p) /\ ~ (Len(a) + 1 <= Len(a))
        BY <1>1, <1>2
      <3>2. b[Len(a) + 1] = token
        <4>1. p[Len(a) + 1] = token
          BY <1>1, <1>2, <3>1
        <4>2. q[Len(a) + 1] = b[Len(a) + 1] /\ p[Len(a) + 1] = q[Len(a) + 1]
          BY <1>3, <2>1, <3>1
        <4> QED
          BY <4>1, <4>2
      <3> QED
        BY <1>1, <3>1, <3>2 DEF Lacks
    <2>3. ~ (Len(b) < Len(a))
      <3> SUFFICES ASSUME Len(b) < Len(a)
                   PROVE  FALSE
        OBVIOUS
      <3>1. Len(b) + 1 \in 1 .. Len(a) /\ Len(b) + 1 \in 1 .. Len(p) /\ Len(b) + 1 <= Len(a)
        BY <1>1, <1>2
      <3>2. a[Len(b) + 1] = token
        BY <1>2, <1>3, <2>1, <3>1
      <3> QED
        BY <1>1, <3>1, <3>2 DEF Lacks
    <2>4. Len(a) = Len(b)
      <3>1. \A x, y \in Nat : ~ (x < y) /\ ~ (y < x) => x = y
        OBVIOUS
      <3> QED
        BY <1>1, <2>2, <2>3, <3>1
    <2>5. ASSUME NEW i \in 1 .. Len(a)
          PROVE  a[i] = b[i]
      <3>1. i \in 1 .. Len(p) /\ i <= Len(a) /\ i \in 1 .. Len(b)
        BY <1>1, <1>2, <2>4
      <3> QED
        BY <1>2, <1>3, <2>1, <3>1
    <2> QED
      BY <2>4, <2>5, SeqEqual DEF Text
  <1>6. ASSUME a = b
        PROVE  I!IsPrefix(p, q)
    <2>1. Len(p) <= Len(q)
      BY <1>1, <1>2, <1>3, <1>6
    <2>2. ASSUME NEW i \in 1 .. Len(p)
          PROVE  p[i] = q[i]
      <3>1. i \in 1 .. Len(a) \/ (i = Len(a) + 1 /\ ~ (i <= Len(a)))
        BY <1>1, <1>2
      <3>2. CASE i \in 1 .. Len(a)
        <4>1. i \in 1 .. Len(a) + 1 /\ i <= Len(a)
          BY <1>1, <3>2
        <4>2. p[i] = a[i] /\ q[i] = b[i]
          BY <1>2, <1>3, <1>6, <3>2, <4>1
        <4> QED
          BY <1>6, <4>2
      <3>3. CASE i = Len(a) + 1 /\ ~ (i <= Len(a))
        <4>1. i \in 1 .. Len(a) + 1
          BY <1>1, <3>3
        <4>2. p[i] = token
          BY <1>2, <3>3, <4>1
        <4>3. q[i] = token
          BY <1>3, <1>6, <3>3
        <4> QED
          BY <4>2, <4>3
      <3> QED
        BY <3>1, <3>2, <3>3
    <2>3. Len(p) + 1 \in 1 .. Len(q) + 1 /\ Len(p) + 1 \in 1 .. Len(p) + 1
          /\ (Len(p) + 1) - 1 = Len(p)
      BY <1>1, <1>2, <2>1
    <2>4. /\ SubSeq(q, 1, Len(p)) \in Text /\ Len(SubSeq(q, 1, Len(p))) = Len(p)
          /\ \A i \in 1 .. Len(p) : SubSeq(q, 1, Len(p))[i] = q[i]
      BY <1>3, <2>3, TextParts DEF Text
    <2>5. /\ SubSeq(p, 1, Len(p)) \in Text /\ Len(SubSeq(p, 1, Len(p))) = Len(p)
          /\ \A i \in 1 .. Len(p) : SubSeq(p, 1, Len(p))[i] = p[i]
      BY <1>2, <2>3, TextParts DEF Text
    <2>6. SubSeq(p, 1, Len(p)) = SubSeq(q, 1, Len(p))
      BY <2>2, <2>4, <2>5, SeqEqual DEF Text
    <2> QED
      BY <2>1, <2>6 DEF I!IsPrefix
  <1>7. ASSUME I!IsPrefix(p, b)
        PROVE  FALSE
    <2>1. Len(p) <= Len(b) /\ \A i \in 1 .. Len(p) : p[i] = b[i]
      BY <1>4, <1>7 DEF Text
    <2>2. Len(a) + 1 \in 1 .. Len(b) /\ Len(a) + 1 \in 1 .. Len(p) /\ ~ (Len(a) + 1 <= Len(a))
      BY <1>1, <1>2, <2>1
    <2>3. b[Len(a) + 1] = token
      BY <1>2, <2>1, <2>2
    <2> QED
      BY <1>1, <2>2, <2>3 DEF Lacks
  <1> QED
    BY <1>5, <1>6, <1>7 DEF p, q, one

Plain(s) == s \in Text /\ Lacks(s, I!Blanks)

(* One token is a word of its own. *)
LEMMA OneWord ==
    ASSUME NEW token \in Token, NEW other, token # other
    PROVE  /\ One(token) \in Text /\ Lacks(One(token), {other})
           /\ token \notin I!Blanks => Lacks(One(token), I!Blanks)
  <1>1. One(token) \in Text /\ DOMAIN One(token) = 1 .. 1 /\ One(token)[1] = token
    BY OneText
  <1>2. \A i \in DOMAIN One(token) : One(token)[i] = token
    BY <1>1
  <1> QED
    BY <1>1, <1>2 DEF Lacks

(* Texts joined lack what both lack. *)
LEMMA LacksConcat ==
    ASSUME NEW s \in Text, NEW t \in Text, NEW tokens
    PROVE  /\ s \o t \in Text
           /\ Lacks(s \o t, tokens) <=> Lacks(s, tokens) /\ Lacks(t, tokens)
  <1> DEFINE u == s \o t
  <1>1. /\ Len(s) \in Nat /\ Len(t) \in Nat
        /\ DOMAIN s = 1 .. Len(s) /\ DOMAIN t = 1 .. Len(t)
    BY DEF Text
  <1>2. /\ u \in Seq(Token) /\ Len(u) = Len(s) + Len(t)
        /\ \A i \in 1 .. Len(s) + Len(t) : u[i] = IF i <= Len(s) THEN s[i] ELSE t[i - Len(s)]
    BY ConcatProperties DEF Text
  <1> HIDE DEF u
  <1>3. DOMAIN u = 1 .. Len(s) + Len(t)
    BY <1>2
  <1>4. ASSUME Lacks(u, tokens), NEW i \in 1 .. Len(s)
        PROVE  s[i] \notin tokens
    <2>1. i \in 1 .. Len(s) + Len(t) /\ i <= Len(s)
      BY <1>1
    <2> QED
      BY <1>2, <1>3, <1>4, <2>1 DEF Lacks
  <1>5. ASSUME Lacks(u, tokens), NEW i \in 1 .. Len(t)
        PROVE  t[i] \notin tokens
    <2>1. /\ Len(s) + i \in 1 .. Len(s) + Len(t) /\ ~ (Len(s) + i <= Len(s))
          /\ (Len(s) + i) - Len(s) = i
      BY <1>1
    <2> QED
      BY <1>2, <1>3, <1>5, <2>1 DEF Lacks
  <1>6. ASSUME Lacks(s, tokens), Lacks(t, tokens), NEW i \in 1 .. Len(s) + Len(t)
        PROVE  u[i] \notin tokens
    <2>1. CASE i <= Len(s)
      <3>1. i \in DOMAIN s
        BY <1>1, <2>1
      <3> QED
        BY <1>2, <1>6, <2>1, <3>1 DEF Lacks
    <2>2. CASE ~ (i <= Len(s))
      <3>1. i - Len(s) \in DOMAIN t
        BY <1>1, <2>2
      <3> QED
        BY <1>2, <1>6, <2>2, <3>1 DEF Lacks
    <2> QED
      BY <2>1, <2>2
  <1> QED
    BY <1>1, <1>2, <1>3, <1>4, <1>5, <1>6 DEF Lacks, u, Text

(* Words joined are a word. *)
LEMMA PlainConcat ==
    ASSUME NEW s, NEW t, Plain(s), Plain(t)
    PROVE  Plain(s \o t)
  BY LacksConcat DEF Plain

(* What a text lacks is not left of it. *)
LEMMA BareLacks ==
    ASSUME NEW s \in Text, NEW tokens, Lacks(s, tokens)
    PROVE  Lacks(I!Bare(s), tokens)
  <1> DEFINE D == {u \in Text : Lacks(u, tokens) => Lacks(I!Bare(u), tokens)}
  <1>1. <<>> \in D
    BY BareEmpty
  <1>2. ASSUME NEW u \in Text, NEW e \in Token, u \in D
        PROVE  Append(u, e) \in D
    <2>1. Append(u, e) \in Text /\ Append(u, e) = u \o One(e) /\ One(e) \in Text
      BY TextAppend
    <2> SUFFICES ASSUME Lacks(Append(u, e), tokens)
                 PROVE  Lacks(I!Bare(Append(u, e)), tokens)
      BY <2>1
    <2>2. Lacks(u, tokens) /\ Lacks(One(e), tokens)
      BY <2>1, LacksConcat
    <2>3. Lacks(I!Bare(u), tokens) /\ I!Bare(u) \in Text
      BY <1>2, <2>2, BareType
    <2>4. Append(I!Bare(u), e) = I!Bare(u) \o One(e)
      BY <2>3, TextAppend
    <2>5. Lacks(Append(I!Bare(u), e), tokens)
      BY <2>1, <2>2, <2>3, <2>4, LacksConcat
    <2> QED
      BY <2>3, <2>5, BareAppend
  <1>3. Text \subseteq D
    <2> HIDE DEF D
    <2> QED
      BY <1>1, <1>2, TextGrows
  <1> QED
    BY <1>3

(* A token that is no blank stays between what is left on its two sides. *)
LEMMA BareAround ==
    ASSUME NEW s \in Text, NEW t \in Text, NEW token \in Token, token \notin I!Blanks
    PROVE  I!Bare(s \o (One(token) \o t)) = I!Bare(s) \o (One(token) \o I!Bare(t))
  <1>1. PICK other : other \in I!Blanks
    BY DEF I!Blanks
  <1>2. One(token) \in Text /\ Lacks(One(token), I!Blanks)
    BY <1>1, OneWord
  <1>3. I!Bare(One(token)) = One(token)
    BY <1>2, BareOfWord
  <1>4. PICK u \in Text : u = One(token) \o t
    BY <1>2, LacksConcat
  <1>5. I!Bare(u) = One(token) \o I!Bare(t)
    <2>1. I!Bare(One(token) \o t) = I!Bare(One(token)) \o I!Bare(t)
      BY <1>2, BareConcat
    <2> QED
      BY <1>3, <1>4, <2>1
  <1>6. I!Bare(s \o u) = I!Bare(s) \o I!Bare(u)
    BY BareConcat
  <1> QED
    BY <1>4, <1>5, <1>6

(* A text that begins with no blank keeps its first token. *)
LEMMA BareBegins ==
    ASSUME NEW s \in Text, s # <<>>, s[1] \notin I!Blanks
    PROVE  I!Bare(s) # <<>> /\ I!Bare(s)[1] = s[1]
  <1>1. Len(s) \in Nat /\ Len(s) >= 1 /\ s \in Seq(Token) /\ s[1] \in Token
    BY DEF Text
  <1>2. 1 \in 1 .. Len(s) /\ Len(s) \in 1 .. Len(s) /\ 2 \in 1 .. Len(s) + 1 /\ 1 + 1 = 2
    BY <1>1
  <1>3. s = One(s[1]) \o SubSeq(s, 2, Len(s))
    BY <1>1, <1>2, SubSeqRecursiveFirst, SubSeqFull DEF One
  <1> DEFINE one == One(s[1])
  <1>4. PICK t \in Text : t = SubSeq(s, 2, Len(s))
    BY <1>2, TextParts
  <1>5. PICK other : other \in I!Blanks
    BY DEF I!Blanks
  <1>6. one \in Text /\ Lacks(one, I!Blanks) /\ Len(one) = 1 /\ one[1] = s[1]
    BY <1>1, <1>5, OneWord, OneText
  <1> HIDE DEF one
  <1>7. I!Bare(s) = one \o I!Bare(t) /\ I!Bare(t) \in Text
    <2>1. s = one \o t
      BY <1>3, <1>4 DEF one
    <2>2. I!Bare(one \o t) = I!Bare(one) \o I!Bare(t)
      BY <1>6, BareConcat
    <2>3. I!Bare(one) = one
      BY <1>6, BareOfWord
    <2> QED
      BY <2>1, <2>2, <2>3, BareType
  <1>8. PICK r \in Text : r = I!Bare(t)
    BY <1>7
  <1>9. /\ Len(one \o r) = Len(one) + Len(r) /\ one \o r \in Seq(Token)
        /\ \A i \in 1 .. Len(one) + Len(r) :
              (one \o r)[i] = IF i <= Len(one) THEN one[i] ELSE r[i - Len(one)]
    BY <1>6, ConcatProperties DEF Text
  <1>10. Len(r) \in Nat
    BY DEF Text
  <1>11. 1 \in 1 .. Len(one) + Len(r) /\ 1 <= Len(one)
    BY <1>6, <1>10
  <1>12. (one \o r)[1] = s[1] /\ Len(one \o r) # 0
    BY <1>6, <1>9, <1>10, <1>11
  <1>13. one \o r # <<>>
    BY <1>12
  <1> QED
    BY <1>7, <1>8, <1>12, <1>13

(* What follows a text and a token is the rest. *)
LEMMA AfterToken ==
    ASSUME NEW s \in Text, NEW t \in Text, NEW token \in Token
    PROVE  SubSeq(s \o (One(token) \o t), Len(s) + 2, Len(s \o (One(token) \o t))) = t
  <1> DEFINE one == One(token)
             u == s \o one
             v == s \o (one \o t)
  <1>1. one \in Text /\ Len(one) = 1
    BY OneText
  <1> HIDE DEF one
  <1>2. v = u \o t /\ u \in Text /\ Len(u) = Len(s) + 1
    <2>1. (s \o one) \o t = s \o (one \o t)
      BY <1>1, ConcatAssociative DEF Text
    <2>2. s \o one \in Text /\ Len(s \o one) = Len(s) + Len(one)
      BY <1>1, ConcatProperties DEF Text
    <2> QED
      BY <1>1, <2>1, <2>2
  <1> HIDE DEF u, v
  <1>3. /\ v \in Text /\ Len(v) = Len(u) + Len(t)
        /\ \A i \in 1 .. Len(u) + Len(t) :
              v[i] = IF i <= Len(u) THEN u[i] ELSE t[i - Len(u)]
    BY <1>2, ConcatProperties DEF Text
  <1>4. Len(s) \in Nat /\ Len(t) \in Nat /\ Len(u) \in Nat
    BY <1>2 DEF Text
  <1> DEFINE k == Len(s) + 2
             w == SubSeq(v, k, Len(v))
  <1>5. k \in 1 .. Len(v) + 1 /\ Len(v) - k + 1 = Len(t)
    BY <1>2, <1>3, <1>4
  <1>6. /\ w \in Text /\ Len(w) = Len(t)
        /\ \A i \in 1 .. Len(t) : w[i] = v[k + i - 1]
    BY <1>3, <1>5, TextParts
  <1> HIDE DEF w
  <1>7. ASSUME NEW i \in 1 .. Len(t)
        PROVE  w[i] = t[i]
    <2>1. /\ k + i - 1 \in 1 .. Len(u) + Len(t) /\ ~ (k + i - 1 <= Len(u))
          /\ (k + i - 1) - Len(u) = i
      BY <1>2, <1>4
    <2> QED
      BY <1>3, <1>6, <2>1
  <1>8. w = t
    BY <1>6, <1>7, SeqEqual DEF Text
  <1> QED
    BY <1>8 DEF w, v, one

(* A line is a head exactly when what is left of it begins with a bracket. *)
LEMMA BracketLeads ==
    ASSUME NEW line \in Text
    PROVE  I!Bracketed(line) <=> I!Bare(line) # <<>> /\ I!Bare(line)[1] = "["
  <1>1. PICK s \in Text : s = I!TrimFront(line, I!Blanks)
    BY FrontTrimmed
  <1>2. I!Bare(line) = I!Bare(s)
    BY <1>1, BareOfTrimmed
  <1>3. s # <<>> => s[1] \notin I!Blanks
    BY <1>1, FrontTrimmed
  <1>4. I!Bracketed(line) <=> s # <<>> /\ s[1] = "["
    BY <1>1 DEF I!Bracketed
  <1>5. CASE s = <<>>
    BY <1>2, <1>4, <1>5, BareEmpty
  <1>6. CASE s # <<>>
    <2>1. I!Bare(s) # <<>> /\ I!Bare(s)[1] = s[1]
      BY <1>3, <1>6, BareBegins
    <2> QED
      BY <1>2, <1>4, <1>6, <2>1
  <1> QED
    BY <1>5, <1>6

(* A plain line names a node exactly when, without its blanks, it begins     *)
(* with the name in brackets.                                               *)
LEMMA NodeNamed ==
    ASSUME NEW line \in Text, I!Bracketed(line), Lacks(NodeName(line), I!Blanks),
           NEW node \in Text, Lacks(node, I!Blanks \cup {"]"})
    PROVE  I!NamesNode(line, node)
              <=> I!IsPrefix(One("[") \o node \o One("]"), I!Bare(line))
  <1>1. PICK s \in Text : s = I!TrimFront(line, I!Blanks)
    BY FrontTrimmed
  <1> DEFINE open == One("[")
             close == I!Position(s, "]")
             a == open \o node
  <1>2. I!Bare(line) = I!Bare(s) /\ s # <<>> /\ s[1] = "["
    BY <1>1, BareOfTrimmed DEF I!Bracketed
  <1>3. /\ "[" \in Token /\ "]" \in Token /\ "[" # "]"
        /\ "[" \notin I!Blanks /\ "]" \notin I!Blanks
    BY DEF I!Blanks, Token
  <1>4. Plain(open) /\ Lacks(open, {"]"})
    BY <1>3, OneWord DEF Plain
  <1>5. Plain(node) /\ Lacks(node, {"]"})
    BY DEF Plain, Lacks
  <1> HIDE DEF open
  <1>6. a \in Text /\ Lacks(a, {"]"})
    BY <1>4, <1>5, LacksConcat DEF Plain
  <1>7. CASE close = 0
    <2>1. Lacks(s, {"]"})
      BY <1>7, FirstPosition
    <2>2. Lacks(I!Bare(s), {"]"}) /\ I!Bare(s) \in Text
      BY <2>1, BareLacks, BareType
    <2>3. ~ I!IsPrefix(a \o One("]"), I!Bare(s))
      BY <1>3, <1>6, <2>2, Delimited
    <2>4. ~ I!NamesNode(line, node)
      BY <1>1, <1>7 DEF I!NamesNode
    <2> QED
      BY <1>2, <2>3, <2>4 DEF open
  <1>8. CASE close > 0
    <2> DEFINE name == SubSeq(s, 2, close - 1)
               rest == SubSeq(s, close + 1, Len(s))
               u == SubSeq(s, 1, close - 1)
    <2>1. /\ u \in Text /\ rest \in Text /\ Lacks(u, {"]"}) /\ close \in 1 .. Len(s)
          /\ s = u \o (One("]") \o rest)
      BY <1>3, <1>8, SplitAt
    <2>2. close # 1
      <3>1. s[close] = "]"
        BY <1>8, FirstPosition
      <3> QED
        BY <1>2, <1>3, <3>1
    <2>3. u = open \o name /\ name \in Text
      <3>1. Len(s) \in Nat /\ s \in Seq(Token) /\ \A i \in 1 .. Len(s) : s[i] \in Token
        BY DEF Text
      <3>2. /\ 1 \in 1 .. Len(s) /\ close - 1 \in 1 .. Len(s)
            /\ 2 \in Int /\ close - 1 \in Int /\ 1 + 1 = 2
        BY <2>1, <2>2, <3>1
      <3>3. SubSeq(s, 1, close - 1) = One(s[1]) \o SubSeq(s, 2, close - 1)
        BY <3>1, <3>2, SubSeqRecursiveFirst DEF One
      <3>4. \A i \in 2 .. close - 1 : s[i] \in Token
        BY <3>1, <3>2
      <3>5. SubSeq(s, 2, close - 1) \in Seq(Token)
        BY <3>2, <3>4, SubSeqProperties
      <3> QED
        <4>1. open = One(s[1])
          BY <1>2 DEF open
        <4> HIDE DEF open
        <4> QED
          BY <3>3, <3>5, <4>1 DEF Text
    <2>4. NodeName(line) = name
      BY <1>1 DEF NodeName
    <2>5. Plain(name) /\ Lacks(name, {"]"})
      <3>1. Lacks(u, {"]"}) /\ u = open \o name
        BY <2>1, <2>3
      <3> HIDE DEF u, name
      <3> QED
        BY <1>4, <2>3, <2>4, <3>1, LacksConcat DEF Plain
    <2>6. I!NamesNode(line, node) <=> name = node
      BY <1>1, <1>8 DEF I!NamesNode
    <2> HIDE DEF name, u, rest, close
    <2> DEFINE b == open \o name
    <2>7. b \in Text /\ Lacks(b, {"]"}) /\ I!Bare(b) = b
      <3>1. Plain(b)
        BY <1>4, <2>5, PlainConcat
      <3>2. Lacks(b, {"]"})
        BY <1>4, <2>5, LacksConcat DEF Plain
      <3> QED
        BY <3>1, <3>2, BareOfWord DEF Plain
    <2>8. I!Bare(s) = b \o (One("]") \o I!Bare(rest))
      <3>1. s = b \o (One("]") \o rest)
        BY <2>1, <2>3
      <3> HIDE DEF b
      <3>2. I!Bare(b \o (One("]") \o rest)) = I!Bare(b) \o (One("]") \o I!Bare(rest))
        BY <1>3, <2>1, <2>7, BareAround
      <3> QED
        BY <2>7, <3>1, <3>2
    <2>9. I!IsPrefix(a \o One("]"), b \o (One("]") \o I!Bare(rest))) <=> a = b
      <3>1. PICK left \in Text : left = I!Bare(rest)
        BY <2>1, BareType
      <3> HIDE DEF a, b
      <3>2. I!IsPrefix(a \o One("]"), b \o (One("]") \o left)) <=> a = b
        BY <1>3, <1>6, <2>7, Delimited
      <3> QED
        BY <3>1, <3>2
    <2>10. a = b <=> node = name
      <3>1. open \in Seq(Token) /\ node \in Seq(Token) /\ name \in Seq(Token)
        BY <1>4, <1>5, <2>5 DEF Plain, Text
      <3>2. open \o node = open \o name => node = name
        BY <3>1, ConcatSimplifications
      <3> QED
        BY <3>2
    <2> QED
      BY <1>2, <2>6, <2>8, <2>9, <2>10 DEF open
  <1>9. close = 0 \/ close > 0
    BY FirstPosition
  <1> QED
    BY <1>7, <1>8, <1>9

(* A plain line names a key exactly when, without blanks, it begins with the *)
(* key and an equal sign; what is said is what is left of its value.        *)
LEMMA KeyNamed ==
    ASSUME NEW line \in Text, Lacks(KeyName(line), I!Blanks), NEW key \in Text,
           LET word == I!TrimBack(I!TrimFront(key, {" "}), {" "})
           IN  word # <<>> /\ Lacks(word, I!Blanks \cup {"="})
    PROVE  /\ I!NamesKey(line, key)
                 <=> I!IsPrefix(I!Bare(key) \o One("="), I!Bare(line))
           /\ I!NamesKey(line, key) =>
                 /\ SubSeq(I!Bare(line), Len(I!Bare(key)) + 2, Len(I!Bare(line)))
                       = I!Bare(I!ValueOf(line))
                 /\ I!ValueOf(line) \in Text
  <1> DEFINE equal == I!Position(line, "=")
             front == SubSeq(line, 1, equal - 1)
             rest == SubSeq(line, equal + 1, Len(line))
             half == I!TrimFront(front, I!Blanks)
  <1>1. PICK word \in Text : word = I!TrimBack(I!TrimFront(key, {" "}), {" "})
    BY FrontTrimmed, BackTrimmed
  <1>2. word # <<>> /\ Plain(word) /\ Lacks(word, {"="})
    BY <1>1 DEF Plain, Lacks
  <1>3. I!Bare(key) = word
    <2>1. {" "} \subseteq I!Blanks
      BY DEF I!Blanks, Token
    <2>2. I!TrimFront(key, {" "}) \in Text
      BY FrontTrimmed
    <2>3. I!Bare(word) = I!Bare(key)
      BY <1>1, <2>1, <2>2, BareOfTrimmed
    <2> QED
      BY <1>2, <2>3, BareOfWord DEF Plain
  <1>4. "=" \in Token /\ "=" \notin I!Blanks
    BY DEF I!Blanks, Token
  <1>5. CASE equal = 0
    <2>1. Lacks(I!Bare(line), {"="}) /\ I!Bare(line) \in Text
      BY <1>5, FirstPosition, BareLacks, BareType
    <2>2. ~ I!IsPrefix(word \o One("="), I!Bare(line))
      BY <1>2, <1>4, <2>1, Delimited
    <2>3. ~ I!NamesKey(line, key)
      <3>1. I!NamesKey(line, key) => equal > 0
        BY DEF I!NamesKey
      <3>2. ~ (equal > 0)
        BY <1>5, FirstPosition
      <3> QED
        BY <3>1, <3>2
    <2> QED
      BY <1>3, <2>2, <2>3
  <1>6. CASE equal > 0
    <2>1. /\ front \in Text /\ rest \in Text /\ Lacks(front, {"="}) /\ equal \in 1 .. Len(line)
          /\ line = front \o (One("=") \o rest)
      BY <1>4, <1>6, SplitAt
    <2>2. half \in Text
      BY <2>1, FrontTrimmed
    <2>3. PICK name \in Text : name = I!TrimBack(half, I!Blanks)
      BY <2>2, BackTrimmed
    <2>4. name = KeyName(line)
      BY <2>3 DEF KeyName
    <2>5. I!NamesKey(line, key) <=> name # <<>> /\ name = word
      BY <1>1, <1>6, <2>3 DEF I!NamesKey
    <2>6. I!ValueOf(line) = I!TrimBack(I!TrimFront(rest, I!ValueBlanks), I!ValueBlanks)
      BY DEF I!ValueOf
    <2> HIDE DEF equal, front, rest
    <2>7. I!Bare(front) = name
      <3>1. I!Bare(half) = I!Bare(front)
        BY <2>1, BareOfTrimmed
      <3>2. I!Bare(name) = I!Bare(half)
        BY <2>2, <2>3, BareOfTrimmed
      <3> QED
        BY <2>4, <3>1, <3>2, BareOfWord
    <2>8. Lacks(name, {"="})
      BY <2>1, <2>7, BareLacks
    <2>9. I!Bare(line) = name \o (One("=") \o I!Bare(rest)) /\ I!Bare(rest) \in Text
      <3>1. I!Bare(front \o (One("=") \o rest)) = I!Bare(front) \o (One("=") \o I!Bare(rest))
        BY <1>4, <2>1, BareAround
      <3> QED
        BY <2>1, <2>7, <3>1, BareType
    <2>10. I!IsPrefix(word \o One("="), I!Bare(line)) <=> word = name
      <3>1. PICK left \in Text : left = I!Bare(rest)
        BY <2>9
      <3>2. I!IsPrefix(word \o One("="), name \o (One("=") \o left)) <=> word = name
        BY <1>2, <1>4, <2>8, Delimited
      <3> QED
        BY <2>9, <3>1, <3>2
    <2>11. I!ValueOf(line) \in Text /\ I!Bare(I!ValueOf(line)) = I!Bare(rest)
      <3>1. I!ValueBlanks \subseteq I!Blanks
        BY DEF I!ValueBlanks, I!Blanks
      <3>2. I!TrimFront(rest, I!ValueBlanks) \in Text
        BY <2>1, FrontTrimmed
      <3> QED
        <4>1. PICK tail \in Text : tail = I!TrimFront(rest, I!ValueBlanks)
          BY <3>2
        <4>2. I!Bare(tail) = I!Bare(rest)
          BY <2>1, <3>1, <4>1, BareOfTrimmed
        <4>3. I!Bare(I!TrimBack(tail, I!ValueBlanks)) = I!Bare(tail)
          BY <3>1, BareOfTrimmed
        <4>4. I!TrimBack(tail, I!ValueBlanks) \in Text
          BY BackTrimmed
        <4> QED
          BY <2>6, <4>1, <4>2, <4>3, <4>4
    <2>12. name = word =>
              SubSeq(I!Bare(line), Len(word) + 2, Len(I!Bare(line))) = I!Bare(rest)
      <3>1. PICK left \in Text : left = I!Bare(rest)
        BY <2>9
      <3>2. SubSeq(name \o (One("=") \o left), Len(name) + 2, Len(name \o (One("=") \o left)))
               = left
        BY <1>4, AfterToken
      <3> QED
        BY <2>9, <3>1, <3>2
    <2> QED
      BY <1>2, <1>3, <2>5, <2>10, <2>11, <2>12
  <1>7. equal = 0 \/ equal > 0
    BY FirstPosition
  <1> QED
    BY <1>5, <1>6, <1>7

(* What the lines of a file are. *)
LEMMA LinesAreTexts ==
    ASSUME PlainNames, ini \in INIFiles
    PROVE  /\ Len(ini.lines) \in Nat /\ DOMAIN ini.lines = 1 .. Len(ini.lines)
           /\ \A i \in DOMAIN ini.lines :
                 /\ ini.lines[i] \in Text
                 /\ I!Bracketed(ini.lines[i]) => Lacks(NodeName(ini.lines[i]), I!Blanks)
                 /\ Lacks(KeyName(ini.lines[i]), I!Blanks)
  <1>1. ini.lines \in Seq(Seq(STRING))
    BY DEF PlainNames
  <1>2. Seq(STRING) \subseteq Text
    BY SeqMonotonic DEF Text, Token
  <1>3. \A i \in DOMAIN ini.lines : ini.lines[i] \in Seq(STRING)
    BY <1>1
  <1>4. \A i \in DOMAIN ini.lines :
           /\ I!Bracketed(ini.lines[i]) => Lacks(NodeName(ini.lines[i]), I!Blanks)
           /\ Lacks(KeyName(ini.lines[i]), I!Blanks)
    BY DEF PlainNames
  <1>5. Len(ini.lines) \in Nat /\ DOMAIN ini.lines = 1 .. Len(ini.lines)
    BY <1>1
  <1>6. \A i \in DOMAIN ini.lines : ini.lines[i] \in Text
    BY <1>2, <1>3
  <1> QED
    BY <1>4, <1>5, <1>6

(* The heads of a file are its lines with a bracket, and those of a node the *)
(* ones that name it.                                                       *)
LEMMA HeadsAreNamed ==
    ASSUME PlainNames, ini \in INIFiles, NEW node \in Nodes
    PROVE  /\ I!Heads(ini.lines) = {i \in DOMAIN ini.lines : I!Bracketed(ini.lines[i])}
           /\ I!HeadsNamed(ini.lines, node)
                 = {i \in DOMAIN ini.lines : I!NamesNode(ini.lines[i], node)}
  <1>1. \A i \in DOMAIN ini.lines : ini.lines[i] \in Text
    BY LinesAreTexts
  <1>2. \A i \in DOMAIN ini.lines :
           I!Bracketed(ini.lines[i])
              <=> I!Bare(ini.lines[i]) # <<>> /\ I!Bare(ini.lines[i])[1] = "["
    BY <1>1, BracketLeads
  <1>3. I!Heads(ini.lines) = {i \in DOMAIN ini.lines : I!Bracketed(ini.lines[i])}
    BY <1>2 DEF I!Heads
  <1>4. node \in Text /\ Lacks(node, I!Blanks \cup {"]"})
    <2>1. node \in Seq(STRING) /\ Lacks(node, I!Blanks \cup {"]"})
      BY DEF PlainNames
    <2> QED
      BY <2>1, SeqMonotonic DEF Text, Token
  <1>5. ASSUME NEW i \in DOMAIN ini.lines, I!Bracketed(ini.lines[i])
        PROVE  I!NamesNode(ini.lines[i], node)
                  <=> I!IsPrefix(<<"[">> \o node \o <<"]">>, I!Bare(ini.lines[i]))
    <2>1. I!NamesNode(ini.lines[i], node)
             <=> I!IsPrefix(One("[") \o node \o One("]"), I!Bare(ini.lines[i]))
      BY <1>1, <1>4, <1>5, LinesAreTexts, NodeNamed
    <2> QED
      BY <2>1 DEF One
  <1>6. \A i \in DOMAIN ini.lines :
           I!NamesNode(ini.lines[i], node) => I!Bracketed(ini.lines[i])
    BY DEF I!NamesNode
  <1>7. I!HeadsNamed(ini.lines, node)
           = {i \in DOMAIN ini.lines : I!NamesNode(ini.lines[i], node)}
    BY <1>3, <1>5, <1>6 DEF I!HeadsNamed
  <1> QED
    BY <1>3, <1>7

(* The lines of a key are the ones the reader takes for it, and say what it  *)
(* reads there.                                                             *)
LEMMA KeysAreNamed ==
    ASSUME PlainNames, ini \in INIFiles, NEW key \in Keys
    PROVE  /\ \A head : I!KeyIn(ini.lines, head, key)
                 = {i \in I!Node(ini.lines, head) : I!NamesKey(ini.lines[i], key)}
           /\ \A i \in DOMAIN ini.lines : I!NamesKey(ini.lines[i], key) =>
                 /\ I!Said(ini.lines[i], key) = I!Bare(I!ValueOf(ini.lines[i]))
                 /\ I!ValueOf(ini.lines[i]) \in Text
  <1>1. /\ key \in Text
        /\ LET word == I!TrimBack(I!TrimFront(key, {" "}), {" "})
           IN  word # <<>> /\ Lacks(word, I!Blanks \cup {"="})
    <2>1. /\ key \in Seq(STRING)
          /\ LET word == I!TrimBack(I!TrimFront(key, {" "}), {" "})
             IN  word # <<>> /\ Lacks(word, I!Blanks \cup {"="})
      BY DEF PlainNames
    <2> QED
      BY <2>1, SeqMonotonic DEF Text, Token
  <1>2. ASSUME NEW i \in DOMAIN ini.lines
        PROVE  /\ I!NamesKey(ini.lines[i], key)
                     <=> I!IsPrefix(I!Bare(key) \o <<"=">>, I!Bare(ini.lines[i]))
               /\ I!NamesKey(ini.lines[i], key) =>
                     /\ I!Said(ini.lines[i], key) = I!Bare(I!ValueOf(ini.lines[i]))
                     /\ I!ValueOf(ini.lines[i]) \in Text
    <2>1. ini.lines[i] \in Text /\ Lacks(KeyName(ini.lines[i]), I!Blanks)
      BY LinesAreTexts
    <2>2. /\ I!NamesKey(ini.lines[i], key)
                <=> I!IsPrefix(I!Bare(key) \o One("="), I!Bare(ini.lines[i]))
          /\ I!NamesKey(ini.lines[i], key) =>
                /\ SubSeq(I!Bare(ini.lines[i]), Len(I!Bare(key)) + 2, Len(I!Bare(ini.lines[i])))
                      = I!Bare(I!ValueOf(ini.lines[i]))
                /\ I!ValueOf(ini.lines[i]) \in Text
      BY <1>1, <2>1, KeyNamed
    <2> QED
      BY <2>2 DEF One, I!Said
  <1>3. \A head : I!Node(ini.lines, head) \subseteq DOMAIN ini.lines
    BY DEF I!Node
  <1> QED
    BY <1>2, <1>3 DEF I!KeyIn

(* The least of some numbers is the one that no other is below. *)
LEMMA LeastIs ==
    ASSUME NEW S \in SUBSET Nat, NEW k \in S, \A i \in S : k <= i
    PROVE  I!Least(S) = k
  <1>1. I!Least(S) = CHOOSE i \in S : \A j \in S : i <= j
    BY DEF I!Least
  <1>2. \A i \in S : (\A j \in S : i <= j) => i = k
    <2> SUFFICES ASSUME NEW i \in S, i <= k, k <= i
                 PROVE  i = k
      OBVIOUS
    <2>1. i \in Nat /\ k \in Nat
      OBVIOUS
    <2> QED
      BY <2>1
  <1> QED
    BY <1>1, <1>2


-----------------------------------------------------------------------------
(* The reader of INI files.                                                *)

Results ==
    {"none", "ERROR_NO_SPECIFIED_NODE", "ERROR_NO_SPECIFIED_KEY", "ERROR_LOAD_FILE_ERROR",
     "ERROR_FIND_NODE_ERROR", "ERROR_FIND_KEY_ERROR", "ERROR_NO_VALUE", "OK"}

(* The reader is in the node of head: nothing before its line is a head     *)
(* that ends the node or a line of the key.                                 *)
InNode(head) ==
    /\ head \in I!HeadsNamed(ini.lines, reader.node)
    /\ head < reader.line
    /\ \A i \in I!HeadsNamed(ini.lines, reader.node) : head <= i
    /\ \A i \in I!Heads(ini.lines) : i > head => i >= reader.line
    /\ \A i \in I!KeyIn(ini.lines, head, reader.key) : i >= reader.line

IniType ==
    /\ ini \in INIFiles
    /\ reader \in [pc : {"idle", "node", "key", "hangs", "answered"},
                   node : Nodes \cup {I!NoName}, key : Keys \cup {I!NoName},
                   line : Nat \ {0}, result : Results, value : Text]
    /\ reader.pc \in {"node", "key"} => reader.node \in Nodes /\ reader.key \in Keys

(* The strengthening of IniAnswers: what the lines that are behind the       *)
(* reader were not.                                                         *)
IniInv ==
    /\ IniType
    /\ reader.pc = "idle" => reader.line = 1
    /\ reader.pc = "node" =>
          \A i \in I!HeadsNamed(ini.lines, reader.node) : i >= reader.line
    /\ reader.pc = "key" => \E head \in DOMAIN ini.lines : InNode(head)
    /\ I!IniAnswers

(* Heads and lines of keys are lines. *)
LEMMA NumbersOfLines ==
    ASSUME PlainNames, ini \in INIFiles
    PROVE  /\ Len(ini.lines) \in Nat
           /\ DOMAIN ini.lines = 1 .. Len(ini.lines)
           /\ I!Heads(ini.lines) \subseteq 1 .. Len(ini.lines)
           /\ \A node : I!HeadsNamed(ini.lines, node) \subseteq I!Heads(ini.lines)
           /\ \A head, key : I!KeyIn(ini.lines, head, key) \subseteq I!Node(ini.lines, head)
           /\ \A head : I!Node(ini.lines, head) \subseteq 1 .. Len(ini.lines)
  <1>1. Len(ini.lines) \in Nat /\ DOMAIN ini.lines = 1 .. Len(ini.lines)
    BY LinesAreTexts
  <1>2. I!Heads(ini.lines) \subseteq DOMAIN ini.lines
    BY DEF I!Heads
  <1>3. \A node : I!HeadsNamed(ini.lines, node) \subseteq I!Heads(ini.lines)
    BY DEF I!HeadsNamed
  <1>4. \A head, key : I!KeyIn(ini.lines, head, key) \subseteq I!Node(ini.lines, head)
    BY DEF I!KeyIn
  <1>5. \A head : I!Node(ini.lines, head) \subseteq DOMAIN ini.lines
    BY DEF I!Node
  <1> QED
    BY <1>1, <1>2, <1>3, <1>4, <1>5

LEMMA IniInit ==
    ASSUME PlainNames, I!Init
    PROVE  IniInv
  <1>1. <<>> \in Text
    BY DEF Text
  <1>2. /\ ini \in INIFiles
        /\ reader = [pc |-> "idle", node |-> I!NoName, key |-> I!NoName, line |-> 1,
                     result |-> "none", value |-> <<>>]
    BY DEF I!Init
  <1>3. IniType
    BY <1>1, <1>2 DEF IniType, Results
  <1>4. I!IniAnswers
    BY <1>2 DEF I!IniAnswers
  <1> QED
    BY <1>2, <1>3, <1>4 DEF IniInv

LEMMA IniReadValue ==
    ASSUME PlainNames, IniInv, NEW node \in Nodes, NEW key \in Keys, I!ReadValue(node, key)
    PROVE  IniInv'
  <1>1. /\ ini' = ini /\ reader.pc = "idle" /\ reader.line = 1
        /\ reader'.node = node /\ reader'.key = key
        /\ reader'.line = 1
        /\ reader'.pc \in {"node", "answered"}
        /\ reader'.pc = "answered" =>
              /\ reader'.result \in {"ERROR_NO_SPECIFIED_NODE", "ERROR_NO_SPECIFIED_KEY",
                                     "ERROR_LOAD_FILE_ERROR"}
              /\ node = I!NoName \/ key = I!NoName \/ ~ini.exists
    BY DEF IniInv, IniType, I!ReadValue
  <1>2. IniType'
    BY DEF IniInv, IniType, I!ReadValue, Results
  <1>3. \A i \in I!HeadsNamed(ini.lines, node) : i >= 1
    BY NumbersOfLines DEF IniInv, IniType
  <1>4. reader'.pc = "node" =>
           \A i \in I!HeadsNamed(ini'.lines, reader'.node) : i >= reader'.line
    BY <1>1, <1>3
  <1>5. I!IniAnswers'
    BY <1>1 DEF I!IniAnswers
  <1> QED
    BY <1>1, <1>2, <1>4, <1>5 DEF IniInv

LEMMA IniNodeLine ==
    ASSUME PlainNames, IniInv, I!NodeLine
    PROVE  IniInv'
  <1> DEFINE n == reader.node
  <1>0. PICK l \in Nat : l = reader.line
    BY DEF IniInv, IniType
  <1>1. /\ ini' = ini /\ ini \in INIFiles /\ reader.pc = "node"
        /\ l \in Nat \ {0} /\ l <= Len(ini.lines)
        /\ n \in Nodes /\ reader.key \in Keys
        /\ reader'.node = n /\ reader'.key = reader.key /\ reader'.line = l + 1
        /\ reader'.pc = IF I!NamesNode(ini.lines[l], n) THEN "key" ELSE "node"
    BY <1>0 DEF IniInv, IniType, I!NodeLine, I!HasLine
  <1>2. IniType'
    <2>1. l + 1 \in Nat \ {0}
      BY <1>1
    <2>2. reader' = [reader EXCEPT !.line = l + 1,
                        !.pc = IF I!NamesNode(ini.lines[l], n) THEN "key" ELSE "node"]
      BY <1>0 DEF I!NodeLine
    <2> QED
      BY <1>1, <2>1, <2>2 DEF IniInv, IniType
  <1>3. \A i \in I!HeadsNamed(ini.lines, n) : i >= l
    BY <1>0, <1>1 DEF IniInv
  <1>4. l \in DOMAIN ini.lines /\ I!HeadsNamed(ini.lines, n) \subseteq Nat
    BY <1>1, NumbersOfLines
  <1>5. l \in I!HeadsNamed(ini.lines, n) <=> I!NamesNode(ini.lines[l], n)
    BY <1>1, <1>4, HeadsAreNamed
  <1>6. CASE I!NamesNode(ini.lines[l], n)
    <2>1. \A i \in I!Heads(ini.lines) : i > l => i >= l + 1
      BY <1>1, NumbersOfLines
    <2>2. \A i \in I!KeyIn(ini.lines, l, reader.key) : i >= l + 1
      <3>1. \A i \in I!KeyIn(ini.lines, l, reader.key) : i \in I!Node(ini.lines, l) /\ i \in Nat
        BY <1>1, NumbersOfLines
      <3>2. \A i \in I!Node(ini.lines, l) : i > l
        BY DEF I!Node
      <3> QED
        BY <1>1, <3>1, <3>2
    <2>3. l < l + 1
      BY <1>1
    <2>4. InNode(l)'
      BY <1>1, <1>3, <1>5, <1>6, <2>1, <2>2, <2>3 DEF InNode
    <2>5. I!IniAnswers'
      BY <1>1, <1>6 DEF I!IniAnswers
    <2> QED
      BY <1>1, <1>2, <1>4, <1>6, <2>4, <2>5 DEF IniInv
  <1>7. CASE ~I!NamesNode(ini.lines[l], n)
    <2>1. \A i \in I!HeadsNamed(ini.lines, n) : i >= l + 1
      BY <1>1, <1>3, <1>4, <1>5, <1>7
    <2>2. I!IniAnswers'
      BY <1>1, <1>7 DEF I!IniAnswers
    <2> QED
      BY <1>1, <1>2, <1>7, <2>1, <2>2 DEF IniInv
  <1> QED
    BY <1>6, <1>7

(* What is so of the head the reader found. *)
LEMMA HeadOfNode ==
    ASSUME PlainNames, ini \in INIFiles, NEW head, InNode(head)
    PROVE  /\ I!HeadsNamed(ini.lines, reader.node) # {}
           /\ I!Least(I!HeadsNamed(ini.lines, reader.node)) = head
           /\ head \in Nat
  <1>1. I!HeadsNamed(ini.lines, reader.node) \subseteq Nat
    BY NumbersOfLines
  <1>2. /\ head \in I!HeadsNamed(ini.lines, reader.node)
        /\ \A i \in I!HeadsNamed(ini.lines, reader.node) : head <= i
    BY DEF InNode
  <1> QED
    BY <1>1, <1>2, LeastIs

LEMMA IniKeyLine ==
    ASSUME PlainNames, IniInv, I!KeyLine
    PROVE  IniInv'
  <1> DEFINE l == reader.line
             n == reader.node
             k == reader.key
             line == ini.lines[l]
             heads == I!HeadsNamed(ini.lines, n)
  <1>1. /\ ini' = ini /\ ini \in INIFiles /\ reader.pc = "key"
        /\ l \in Nat \ {0} /\ l <= Len(ini.lines)
        /\ n \in Nodes /\ k \in Keys
    BY DEF IniInv, IniType, I!KeyLine, I!HasLine
  <1>2. PICK head \in DOMAIN ini.lines : InNode(head)
    BY <1>1 DEF IniInv
  <1> DEFINE keys == I!KeyIn(ini.lines, head, k)
             after == {i \in I!Heads(ini.lines) : i > head}
  <1>3. heads # {} /\ I!Least(heads) = head /\ head \in Nat
    BY <1>1, <1>2, HeadOfNode
  <1>4. /\ head < l
        /\ \A i \in I!Heads(ini.lines) : i > head => i >= l
        /\ \A i \in keys : i >= l
    BY <1>2 DEF InNode
  <1>5. /\ l \in DOMAIN ini.lines
        /\ I!Heads(ini.lines) \subseteq Nat /\ keys \subseteq Nat
        /\ keys \subseteq I!Node(ini.lines, head)
        /\ DOMAIN ini.lines \subseteq Nat
    BY <1>1, NumbersOfLines
  <1>6. l \in I!Heads(ini.lines) <=> I!Bracketed(line)
    BY <1>1, <1>5, HeadsAreNamed
  <1>7. l \in keys <=> l \in I!Node(ini.lines, head) /\ I!NamesKey(line, k)
    BY <1>1, KeysAreNamed
  <1>8. CASE I!Bracketed(line)
    <2>1. reader' = [reader EXCEPT !.pc = "hangs"]
      BY <1>8 DEF I!KeyLine
    <2>2. IniType' /\ reader'.pc = "hangs" /\ reader'.node = n /\ reader'.key = k
      BY <1>1, <2>1 DEF IniInv, IniType
    <2>3. after # {}
      BY <1>4, <1>6, <1>8
    <2>4. keys = {}
      <3> SUFFICES ASSUME NEW i \in keys
                   PROVE  FALSE
        OBVIOUS
      <3>1. i \in Nat /\ i >= l /\ I!Heads(ini.lines) \cap (head + 1) .. i = {}
        BY <1>4, <1>5 DEF I!Node
      <3>2. l \in I!Heads(ini.lines) /\ l \in (head + 1) .. i
        BY <1>1, <1>3, <1>4, <1>6, <1>8, <3>1
      <3> QED
        BY <3>1, <3>2
    <2>5. I!IniAnswers'
      BY <1>1, <1>3, <2>2, <2>3, <2>4 DEF I!IniAnswers
    <2> QED
      BY <2>2, <2>5 DEF IniInv
  <1>9. CASE ~I!Bracketed(line) /\ ~I!NamesKey(line, k)
    <2>1. reader' = [reader EXCEPT !.line = l + 1]
      BY <1>9 DEF I!KeyLine
    <2>2. /\ IniType' /\ reader'.pc = "key" /\ reader'.node = n /\ reader'.key = k
          /\ reader'.line = l + 1
      BY <1>1, <2>1 DEF IniInv, IniType
    <2>3. \A i \in I!Heads(ini.lines) : i > head => i >= l + 1
      BY <1>1, <1>4, <1>5, <1>6, <1>9
    <2>4. \A i \in keys : i >= l + 1
      <3>1. \A i \in keys : i \in Nat /\ i >= l /\ i # l
        BY <1>4, <1>5, <1>7, <1>9
      <3> HIDE DEF keys
      <3> QED
        BY <1>1, <3>1
    <2>5. head < l + 1
      BY <1>1, <1>3, <1>4
    <2>6. InNode(head)'
      BY <1>1, <1>2, <2>2, <2>3, <2>4, <2>5 DEF InNode
    <2>7. I!IniAnswers'
      BY <2>2 DEF I!IniAnswers
    <2> QED
      BY <1>1, <2>2, <2>6, <2>7 DEF IniInv
  <1>10. CASE ~I!Bracketed(line) /\ I!NamesKey(line, k)
    <2>1. l \in I!Node(ini.lines, head)
      <3>1. l > head
        BY <1>1, <1>3, <1>4
      <3>2. I!Heads(ini.lines) \cap (head + 1) .. l = {}
        BY <1>1, <1>3, <1>4, <1>5, <1>6, <1>10
      <3> QED
        BY <1>5, <3>1, <3>2 DEF I!Node
    <2>2. l \in keys /\ keys # {} /\ I!Least(keys) = l
      <3>1. l \in keys
        BY <1>7, <1>10, <2>1
      <3> QED
        BY <1>4, <1>5, <3>1, LeastIs
    <2>3. I!Said(line, k) = I!Bare(I!ValueOf(line)) /\ I!ValueOf(line) \in Text
      BY <1>1, <1>5, <1>10, KeysAreNamed
    <2>4. CASE I!ValueOf(line) = <<>>
      <3>1. /\ IniType' /\ reader'.pc = "answered" /\ reader'.node = n /\ reader'.key = k
            /\ reader'.result = "ERROR_NO_VALUE"
        BY <1>1, <1>10, <2>4 DEF IniInv, IniType, I!KeyLine, I!Answer, Results
      <3>2. I!Said(line, k) = <<>>
        BY <2>3, <2>4, BareEmpty
      <3>3. I!IniAnswers'
        BY <1>1, <1>3, <2>2, <3>1, <3>2 DEF I!IniAnswers
      <3> QED
        BY <3>1, <3>3 DEF IniInv
    <2>5. CASE I!ValueOf(line) # <<>>
      <3>1. /\ IniType' /\ reader'.pc = "answered" /\ reader'.node = n /\ reader'.key = k
            /\ reader'.result = "OK" /\ reader'.value = I!ValueOf(line)
        BY <1>1, <1>10, <2>3, <2>5 DEF IniInv, IniType, I!KeyLine, I!Answer, Results
      <3>2. I!IniAnswers'
        BY <1>1, <1>3, <2>2, <2>3, <3>1 DEF I!IniAnswers
      <3> QED
        BY <3>1, <3>2 DEF IniInv
    <2> QED
      BY <2>4, <2>5
  <1> QED
    BY <1>8, <1>9, <1>10

LEMMA IniNoLine ==
    ASSUME PlainNames, IniInv, I!NoLine
    PROVE  IniInv'
  <1>1. /\ ini' = ini /\ ini \in INIFiles /\ reader.pc \in {"node", "key"}
        /\ reader.line \in Nat /\ ~(reader.line <= Len(ini.lines))
        /\ Len(ini.lines) \in Nat
    BY NumbersOfLines DEF IniInv, IniType, I!NoLine, I!HasLine
  <1>2. /\ IniType' /\ reader'.pc = "answered"
        /\ reader'.node = reader.node /\ reader'.key = reader.key
        /\ reader'.result = IF reader.pc = "node" THEN "ERROR_FIND_NODE_ERROR"
                            ELSE "ERROR_FIND_KEY_ERROR"
    BY <1>1 DEF IniInv, IniType, I!NoLine, I!Answer, Results
  <1>3. \A i \in 1 .. Len(ini.lines) : ~(i >= reader.line)
    BY <1>1
  <1>4. CASE reader.pc = "node"
    <2>1. I!HeadsNamed(ini.lines, reader.node) = {}
      BY <1>1, <1>3, <1>4, NumbersOfLines DEF IniInv
    <2>2. I!IniAnswers'
      BY <1>1, <1>2, <1>4, <2>1 DEF I!IniAnswers
    <2> QED
      BY <1>2, <2>2 DEF IniInv
  <1>5. CASE reader.pc = "key"
    <2>1. PICK head \in DOMAIN ini.lines : InNode(head)
      BY <1>5 DEF IniInv
    <2>2. /\ I!HeadsNamed(ini.lines, reader.node) # {}
          /\ I!Least(I!HeadsNamed(ini.lines, reader.node)) = head
      BY <1>1, <2>1, HeadOfNode
    <2>3. I!KeyIn(ini.lines, head, reader.key) = {}
      BY <1>1, <1>3, <2>1, NumbersOfLines DEF InNode
    <2>4. {i \in I!Heads(ini.lines) : i > head} = {}
      BY <1>1, <1>3, <2>1, NumbersOfLines DEF InNode
    <2>5. I!IniAnswers'
      BY <1>1, <1>2, <1>5, <2>2, <2>3, <2>4 DEF I!IniAnswers
    <2> QED
      BY <1>2, <2>5 DEF IniInv
  <1> QED
    BY <1>1, <1>4, <1>5

LEMMA IniUnchanged ==
    ASSUME IniInv, UNCHANGED iniVars
    PROVE  IniInv'
  <1>1. ini' = ini /\ reader' = reader
    BY DEF iniVars
  <1> QED
    BY <1>1 DEF IniInv, IniType, InNode, I!IniAnswers

LEMMA IniNext ==
    ASSUME PlainNames, IniInv, [I!Next]_(I!vars)
    PROVE  IniInv'
  <1>1. CASE I!Next
    BY <1>1, IniReadValue, IniNodeLine, IniKeyLine, IniNoLine DEF I!Next
  <1>2. CASE UNCHANGED I!vars
    BY <1>2, IniUnchanged DEF I!vars, iniVars
  <1> QED
    BY <1>1, <1>2

(* Whatever the files and the names: the reader answers what the file says  *)
(* of the key in the first node of the name, and tells what is missing.      *)
THEOREM IniIsAnswered == Spec => []IniAnswers
  <1> DEFINE Inv == which = "ini" => IniInv
  <1>1. PlainNames
    BY LibraryAssumption
  <1>2. Init => Inv
    BY <1>1, IniInit DEF Init, Begin
  <1>3. Inv /\ [Next]_vars => Inv'
    BY <1>1, OneAtATime, IniNext
  <1>4. Inv => IniAnswers
    BY DEF IniInv, IniAnswers
  <1> QED
    BY <1>2, <1>3, <1>4, PTL DEF Spec
=============================================================================
