------------------------------- MODULE GYScene -------------------------------
(***************************************************************************)
(* The scene of the logic server (Scene/GYScene.cpp, GYZone.cpp): a grid of *)
(* zones, each with the list of the creatures in it, the array of all       *)
(* creatures (CommonDefine/GYArray.h), and which zones a creature's moves   *)
(* must be told in.  Only humans exist; the areas of a scene do nothing.    *)
(*                                                                          *)
(* A world is [list: a GYList memory whose lists are the zones and the      *)
(* free chain of the pool, items: the array, index, position and scene: the *)
(* fields of each human].                                                   *)
(***************************************************************************)
EXTENDS GYList, Sequences, FiniteSets

CONSTANTS
    SceneLength, SceneWight,    \* the size of the scene
    ZoneSize,
    SysnRange,                  \* how many zones away a creature is seen
    MaxHumanInScene             \* the length of the array

INVALID_VALUE == -1

MaxX == SceneLength \div ZoneSize
MaxZ == SceneWight \div ZoneSize
Zone == 0 .. MaxX * MaxZ - 1

XID(zone) == zone % MaxX
ZID(zone) == zone \div MaxX

(* The scene is closed on all four sides: at the far ends this is no zone's    *)
(* number, or the number of a zone in the next row.                           *)
GetZoneID(p) ==
    IF p.x \in 0 .. SceneLength /\ p.z \in 0 .. SceneWight
    THEN (p.z \div ZoneSize) * MaxX + p.x \div ZoneSize
    ELSE INVALID_VALUE

GetZone(p) == IF GetZoneID(p) \in Zone THEN GetZoneID(p) ELSE NULL
-----------------------------------------------------------------------------
(* The zones a creature in a zone is seen from: SysnRange to each side.        *)
Clip(a, last) == IF a < 0 THEN 0 ELSE IF a > last THEN last ELSE a

Rect(zone) ==
    [left   |-> Clip(XID(zone) - SysnRange, MaxX - 1),
     right  |-> Clip(XID(zone) + SysnRange, MaxX - 1),
     top    |-> Clip(ZID(zone) - SysnRange, MaxZ - 1),
     bottom |-> Clip(ZID(zone) + SysnRange, MaxZ - 1)]

(* GYRect::InRect: the second comparison of z takes pos.m_x.                   *)
InRect(zone, r) ==
    /\ XID(zone) >= r.left /\ XID(zone) <= r.right
    /\ ZID(zone) >= r.top /\ XID(zone) <= r.bottom

Within(r) == {zone \in Zone : XID(zone) \in r.left .. r.right /\ ZID(zone) \in r.top .. r.bottom}

(* Which zones of a set one of the two arrays gets: they come in the order of  *)
(* the two loops, that of their numbers, the array takes no more than it is    *)
(* long, and Add's result is not looked at.                                    *)
SyncLen == (2 * SysnRange - 1) * (2 * SysnRange - 1)

Filled(zones) == {zone \in zones : Cardinality({z \in zones : z < zone}) < SyncLen}

Distance(a, b) == IF a < b THEN b - a ELSE a - b

(* Mutant of Near: the two differences are not both looked at.                 *)
NearInX(before, after) == Distance(XID(before), XID(after)) <= 2 * SysnRange - 1

Near(before, after) ==
    /\ Distance(XID(before), XID(after)) <= 2 * SysnRange - 1
    /\ Distance(ZID(before), ZID(after)) <= 2 * SysnRange - 1

(* _GetSyncRange: old, the zones that must lose the creature, and new, those   *)
(* that must get it.  With no zone after it a NULL is followed.                *)
GetSyncRange(before, after) ==
    IF before = NULL
    THEN [old |-> {}, new |-> Filled(Within(Rect(after)))]
    ELSE IF Near(before, after)
    THEN [old |-> Filled({z \in Within(Rect(before)) : ~InRect(z, Rect(after))}),
          new |-> Filled({z \in Within(Rect(after)) : ~InRect(z, Rect(before))})]
    ELSE [old |-> Filled(Within(Rect(before))), new |-> Filled(Within(Rect(after)))]
-----------------------------------------------------------------------------
(* GYPointArray: an item knows its index; the last one takes the place of the  *)
(* one that is deleted.                                                        *)
ArrayAdd(w, h) ==
    [w EXCEPT !.items = Append(@, h), !.index = [@ EXCEPT ![h] = Len(w.items)]]

InArray(w, h) == w.index[h] \in 0 .. Len(w.items) - 1

(* Mutant of ArrayDelete: the item that is moved keeps its index.              *)
ArrayDeleteKeepsIndex(w, h) ==
    LET n == Len(w.items)
        moved == [w.items EXCEPT ![w.index[h] + 1] = w.items[n]]
    IN  [w EXCEPT !.items = SubSeq(moved, 1, n - 1),
                  !.index = [@ EXCEPT ![h] = INVALID_VALUE]]

ArrayDelete(w, h) ==
    LET n == Len(w.items)
        moved == [w.items EXCEPT ![w.index[h] + 1] = w.items[n]]
    IN  [w EXCEPT !.items = SubSeq(moved, 1, n - 1),
                  !.index = [i \in DOMAIN w.index |->
                                IF i = h THEN INVALID_VALUE
                                ELSE IF i = w.items[n] THEN w.index[h]
                                ELSE w.index[i]]]
-----------------------------------------------------------------------------
(* GYCreature::SetPosition.  OnCreatureChangePosition fills the two arrays of    *)
(* GetSyncRange on its stack and drops them.                                     *)
SetPosition(w, h, p) ==
    [w EXCEPT !.position = [@ EXCEPT ![h] = p]]

(* Mutant of CanAddCreature: one creature more than the array is long.         *)
CanAddCreatureOneMore(w, p) == GetZone(p) # NULL /\ Len(w.items) <= MaxHumanInScene

CanAddCreature(w, p) == GetZone(p) # NULL /\ Len(w.items) < MaxHumanInScene

AddCreature(w, h, p) ==
    LET listed == [ArrayAdd(w, h) EXCEPT !.list = Add(@, GetZone(p), h)]
    IN  [SetPosition(listed, h, p) EXCEPT !.scene = [@ EXCEPT ![h] = 1]]

(* RemoveCreature: the zone where the creature is now.  What it returns is     *)
(* not 0 when it has removed the creature: Delete's GYTRUE is compared with 0. *)
RemoveCreature(w, h) ==
    LET zone == GetZone(w.position[h])
        left == [w EXCEPT !.scene = [@ EXCEPT ![h] = INVALID_VALUE],
                          !.list = Delete(@, zone, h)]
    IN  IF zone = NULL THEN [world |-> w, result |-> INVALID_VALUE]
        ELSE IF InArray(w, h) THEN [world |-> ArrayDelete(left, h), result |-> INVALID_VALUE]
        ELSE [world |-> left, result |-> 0]

(* Tick: the inner loop counts i, the type, on instead of t.  With a human in  *)
(* the array the next type's array is indexed and the assertion of operator[]  *)
(* fails; without one nothing is ticked.                                       *)
TickAsserts(w) == w.items # <<>>
=============================================================================
