----------------------------- MODULE GYSceneSync -----------------------------
(***************************************************************************)
(* One creature walking through a scene: what the two arrays that          *)
(* OnCreatureChangePosition has filled for each of its steps add up to.    *)
(* told is the zones that, by those arrays, have been told to show the     *)
(* creature and not to remove it again.  (The code does not send anything  *)
(* yet: it fills the arrays and returns.)                                  *)
(***************************************************************************)
EXTENDS GYScene

VARIABLES
    zone,    \* where the creature is, NULL before it enters
    told,    \* the zones told to show it
    exact    \* no step so far was of a kind the code is wrong about

vars == <<zone, told, exact>>

\* An array that is too short drops ids.
Fits(zones) == Cardinality(zones) <= SyncLen

\* The first step and a far one are reported right when the arrays have room
\* for a whole range; with no zone in common for what they say.
FarRight(before, after) ==
    /\ Fits(Within(Rect(after)))
    /\ before # NULL => /\ Fits(Within(Rect(before)))
                        /\ Within(Rect(before)) \cap Within(Rect(after)) = {}

\* A near one is when it stays in its row and the comparison of x with the last
\* row of the range never fails.
NearRight(before, after) ==
    /\ before # NULL
    /\ ZID(before) = ZID(after) /\ Rect(after).bottom >= MaxX - 1
    /\ Distance(XID(before), XID(after)) < 2 * SysnRange
    /\ Fits(Within(Rect(before)) \ Within(Rect(after)))
    /\ Fits(Within(Rect(after)) \ Within(Rect(before)))

OnCreatureChangePosition(after) ==
    LET sync == GetSyncRange(zone, after)
    IN  /\ after # zone
        /\ zone' = after
        /\ told' = (told \ sync.old) \cup sync.new
        /\ exact' = (exact /\ (FarRight(zone, after) \/ NearRight(zone, after)))

Init == zone = NULL /\ told = {} /\ exact = TRUE

\* A walk is followed up to the first step that is reported wrong.
Next == exact /\ \E after \in Zone : OnCreatureChangePosition(after)

Spec == Init /\ [][Next]_vars

-----------------------------------------------------------------------------
\* Through all steps along a row, and all far ones, the zones told to show the
\* creature are those within SysnRange of it: none is left over from where it
\* was, none is missing.  (A step to a farther row of the near ones reports no
\* new row, one to a nearer row no old one: GYRect.h:59.)
SyncExact == exact /\ zone # NULL => told = Within(Rect(zone))
=============================================================================
