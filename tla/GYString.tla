------------------------------ MODULE GYString ------------------------------
(***************************************************************************)
(* CommonDefine/String: strings (GYString.cpp) that share the reference    *)
(* counted buffers of a manager (GYStringManger.cpp).  A manager has one   *)
(* pool for each size of buffer; when a small pool is empty it cuts a      *)
(* larger buffer into pieces, which stay small for good.                   *)
(*                                                                         *)
(* A buffer is its address; the header in front of its characters          *)
(* (m_referenceCount, m_prev, m_next) is found from the address alone, so  *)
(* that the pool a buffer goes back to depends on the length it is deleted *)
(* with.  The layout is that of the 32-bit build, in which the header has  *)
(* no padding.  What the characters are is left out.                       *)
(***************************************************************************)
EXTENDS GYList, Sequences, FiniteSets

CONSTANTS
    Strings,     \* GYString objects
    Lengths,     \* lengths of the strings they are given
    ManagerOf,   \* the manager of each string
    Buffers,     \* the buffers of the managers' arrays, [manager, size, address],
                 \* in the order in which Init adds them
    AddressSpace,  \* the addresses of all buffers and pieces
    Pieces,      \* how many buffers a larger one is cut into
    MaxBrimful   \* bound: operations followed once a string fills its buffer

VARIABLES
    str,       \* string -> its buffer and length, or Gone where it is no object
    mem,       \* the links of the buffers and the heads and counts of the lists
    refs,      \* m_referenceCount of each address
    size,      \* the size of the buffer at an address (nothing in the code keeps it)
    brimful,   \* operations since a string was made that fills its buffer
    crashed    \* a null pointer or a destroyed list head was used

stringVars == <<str, mem, refs, size, brimful, crashed>>

Sizes     == {16, 32, 64, 128, 512, 1024}
Managers  == {ManagerOf[s] : s \in Strings}
Addresses == DOMAIN refs
Gone      == [buffer |-> NULL, length |-> -1]
NoString  == [buffer |-> NULL, length |-> 0]
Free(g, k) == <<g, k, "free">>
Used(g, k) == <<g, k, "used">>

-----------------------------------------------------------------------------
(* GYStringManager.  A world is [mem, refs, size, crashed].                *)

\* The size of the pool a string of n characters is put in: the bounds are
\* inclusive, so that one of 32 characters has no room for its terminator.
PoolToAllocate(n) ==
    IF n < 16 THEN 16 ELSE CHOOSE k \in Sizes : n <= k /\ \A j \in Sizes : n <= j => k <= j

\* Mutant of PoolToDelete: the range of the 512 byte buffers is forgotten.
PoolToDeleteSkips512(n) ==
    CHOOSE k \in Sizes \ {512} : n < k /\ \A j \in Sizes \ {512} : n < j => k <= j

\* The size of the pool a string of n characters is taken out of: here the
\* bounds are exclusive, and one of 1024 characters is not found at all.
PoolToDelete(n) == CHOOSE k \in Sizes : n < k /\ \A j \in Sizes : n < j => k <= j

\* The pools a buffer of a size may be cut from, in the order they are tried.
CutFrom(k) == CASE k \in {16, 32, 64} -> <<1024, 512>>
                [] k = 128            -> <<1024>>
                [] OTHER              -> <<>>

\* _Allocate16 ... _Allocate1024: the world with one buffer taken, and the buffer.
TakeFrom(w, g, k) == [w EXCEPT !.mem = PickUpFirstItem(w.mem, Free(g, k))]

AddPiece(w, g, k, a) ==
    [w EXCEPT !.mem = Add(w.mem, Free(g, k), a),
              !.size = [w.size EXCEPT ![a] = k],
              !.refs = [w.refs EXCEPT ![a] = 0]]

AddPieces(w, g, k, a, n) ==
    LET added[i \in 0..n] == IF i = 0 THEN w ELSE AddPiece(added[i - 1], g, k, a + i)
    IN  added[n]

Allocate(w, g, k) ==
    LET first(j) == FirstItem(w.mem, Free(g, j))
        larger   == {i \in DOMAIN CutFrom(k) : first(CutFrom(k)[i]) # NULL}
        from     == CutFrom(k)[CHOOSE i \in larger : \A j \in larger : i <= j]
        block    == first(from)
    IN  IF first(k) # NULL
        THEN [world |-> TakeFrom(w, g, k), buffer |-> first(k)]
        ELSE IF larger = {} THEN [world |-> w, buffer |-> NULL]
        ELSE [world  |-> AddPieces([TakeFrom(w, g, from) EXCEPT
                                       !.size = [w.size EXCEPT ![block] = k]],
                                   g, k, block, Pieces - 1),
              buffer |-> block]

AllocateString(w, g, n) ==
    LET k == PoolToAllocate(n)
        t == Allocate(w, g, k)
    IN  IF n > 1024 \/ t.buffer = NULL THEN [world |-> w, buffer |-> NULL]
        ELSE [t EXCEPT !.world.mem = Add(t.world.mem, Used(g, k), t.buffer),
                       !.world.refs = [t.world.refs EXCEPT ![t.buffer] = 1]]

DeleteStringReference(w, g, a, n) ==
    LET k    == PoolToDelete(n)
        less == [w EXCEPT !.refs = [w.refs EXCEPT ![a] = @ - 1]]
    IN  IF n >= 1024 THEN w
        ELSE IF less.refs[a] > 0 THEN less
        ELSE [less EXCEPT !.mem = Add(Delete(w.mem, Used(g, k), a), Free(g, k), a)]

\* AddStringReferenceCount of GYNULL writes in front of address 0.
AddStringReferenceCount(w, a) ==
    IF a = NULL THEN [w EXCEPT !.crashed = TRUE] 
    ELSE [w EXCEPT !.refs = [w.refs EXCEPT ![a] = @ + 1]]

-----------------------------------------------------------------------------
(* GYString.                                                               *)

World == [mem |-> mem, refs |-> refs, size |-> size, crashed |-> crashed]

\* The terminator of a string as long as its buffer clears the low byte of
\* the count of the next buffer of the array, or hits what lies behind the
\* array: a list, or bytes nobody uses.
Overrun(w, a, hit) ==
    CASE hit = "nothing" -> w
      [] hit = "list"    -> [w EXCEPT !.crashed = TRUE]
      [] hit = "buffer"  -> [w EXCEPT !.refs = [b \in Addresses |-> IF b = a + 1 THEN 0
                                                               ELSE w.refs[b]]]

Become(w, s, held, fills) ==
    /\ mem' = w.mem
    /\ refs' = w.refs
    /\ size' = w.size
    /\ crashed' = w.crashed
    /\ str' = [str EXCEPT ![s] = held]
    /\ brimful' = IF fills \/ brimful > 0 THEN brimful + 1 ELSE 0

\* s, which holds nothing, is given n characters: it stays empty when there
\* is no buffer.
Give(w, s, n) ==
    LET t     == AllocateString(w, ManagerOf[s], n)
        fills == t.buffer # NULL /\ n = PoolToAllocate(n)
    IN  IF t.buffer = NULL THEN Become(w, s, NoString, FALSE)
        ELSE \E hit \in IF fills THEN {"nothing", "list", "buffer"} ELSE {"nothing"} :
                 Become(Overrun(t.world, t.buffer, hit), s,
                        [buffer |-> t.buffer, length |-> n], fills)

\* The world without the buffer s holds.
Released(s) ==
    IF str[s].buffer = NULL THEN World
    ELSE DeleteStringReference(World, ManagerOf[s], str[s].buffer, str[s].length)

Running == ~crashed /\ brimful < MaxBrimful

Live(s) == Running /\ str[s] # Gone

\* operator=(const GYString&) once s holds nothing: the buffer of another
\* manager is copied, and sharing the buffer of an empty string crashes.
Share(w, s, t) ==
    IF ManagerOf[s] = ManagerOf[t]
    THEN Become(AddStringReferenceCount(w, str[t].buffer), s, str[t], FALSE)
    ELSE Give(w, s, str[t].length)

ConstructEmpty(s) ==
    /\ Running /\ str[s] = Gone
    /\ Become(World, s, NoString, FALSE)

ConstructChars(s, n) ==
    /\ Running /\ str[s] = Gone
    /\ Give(World, s, n)

\* The copy takes the manager of the original.
ConstructCopy(s, t) ==
    /\ str[s] = Gone /\ Live(t) /\ ManagerOf[s] = ManagerOf[t]
    /\ str[t].buffer # NULL
    /\ Share(World, s, t)

\* Mutant of AssignString: a string sharing its buffer with t is not left alone.
AssignStringAlways(s, t) ==
    /\ Live(s) /\ Live(t)
    /\ Share(Released(s), s, t)

\* Nothing happens to a string that shares the buffer already.
AssignString(s, t) ==
    /\ Live(s) /\ Live(t) /\ str[s].buffer # str[t].buffer
    /\ Share(Released(s), s, t)

AssignChars(s, n) ==
    /\ Live(s)
    /\ Give(Released(s), s, n)

CleanUp(s) ==
    /\ Live(s)
    /\ Become(Released(s), s, NoString, FALSE)

Destroy(s) ==
    /\ Live(s)
    /\ Become(Released(s), s, Gone, FALSE)

-----------------------------------------------------------------------------

Lists == Managers \X Sizes \X {"free", "used"}

NoBuffers ==
    [mem     |-> [next |-> [a \in AddressSpace |-> NULL], prev |-> [a \in AddressSpace |-> NULL],
                  head |-> [l \in Lists |-> NULL], count |-> [l \in Lists |-> 0]],
     refs    |-> [a \in AddressSpace |-> 0],
     size    |-> [a \in AddressSpace |-> 0],
     crashed |-> FALSE]

\* The constructor and Init: each buffer is added to the free list of its pool.
Initial ==
    LET added[i \in 0..Len(Buffers)] ==
            IF i = 0 THEN NoBuffers
            ELSE AddPiece(added[i - 1], Buffers[i].manager, Buffers[i].size, Buffers[i].address)
    IN  added[Len(Buffers)]

StringInit ==
    /\ str = [s \in Strings |-> Gone]
    /\ mem = Initial.mem
    /\ refs = Initial.refs
    /\ size = Initial.size
    /\ brimful = 0
    /\ crashed = FALSE

StringNext ==
    \E s \in Strings :
        \/ ConstructEmpty(s)
        \/ CleanUp(s)
        \/ Destroy(s)
        \/ \E n \in Lengths : ConstructChars(s, n) \/ AssignChars(s, n)
        \/ \E t \in Strings : ConstructCopy(s, t) \/ AssignString(s, t)

StringSpec == StringInit /\ [][StringNext]_stringVars

-----------------------------------------------------------------------------
(* Properties.                                                             *)

Holders(a)  == {s \in Strings : str[s].buffer = a}
Held        == {a \in Addresses : Holders(a) # {}}
FreeOnes    == UNION {Items(mem, Free(g, k)) : g \in Managers, k \in Sizes}
UsedOnes    == UNION {Items(mem, Used(g, k)) : g \in Managers, k \in Sizes}

\* The bytes of a buffer in units of the smallest piece.
Extent(a) == a..(a + (IF size[a] >= 512 THEN Pieces ELSE 1) - 1)

Sound == brimful = 0 /\ ~crashed

\* Whatever is constructed, shared, copied between managers, reassigned and
\* destroyed, the count of a buffer is the number of strings that hold it,
\* the used lists hold exactly the buffers some string holds and the free
\* lists only others - as long as no string has been as long as its buffer.
StringsCounted ==
    Sound => /\ \A l \in DOMAIN mem.head : WellFormed(mem, l)
             /\ UsedOnes = Held
             /\ UsedOnes \cap FreeOnes = {}
             /\ \A a \in Held : refs[a] = Cardinality(Holders(a))

\* Until then every string has room for its characters and their terminator
\* in a buffer of the size its lists stand for, and no two buffers in use
\* overlap, however larger buffers have been cut up.
StringsFit ==
    Sound => /\ \A s \in Strings : str[s].buffer # NULL =>
                    str[s].length < size[str[s].buffer]
             /\ \A g \in Managers, k \in Sizes :
                    \A a \in Items(mem, Free(g, k)) \cup Items(mem, Used(g, k)) : size[a] = k
             /\ \A a, b \in Held \cup FreeOnes : a # b => Extent(a) \cap Extent(b) = {}
=============================================================================
