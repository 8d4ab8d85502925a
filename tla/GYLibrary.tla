----------------------------- MODULE GYLibrary -----------------------------
(***************************************************************************)
(* The libraries under the servers, one to a behaviour: the path finder,   *)
(* strings, tables, INI files, the thread pool, and the zones a walk       *)
(* through the scene is reported in.  They do not call each other.  The    *)
(* strings are extended and not instantiated, so that their lists are      *)
(* those of GYList; they stay as they are made while another library runs. *)
(***************************************************************************)
EXTENDS GYString

CONSTANTS Files, Places, BufferSizes,                            \* PathFinder
          TableFiles, Columns, TableIDs,                         \* GYTable
          INIFiles, Nodes, Keys,                                 \* GYINIReader
          Tasks, PoolSizes,                                      \* GYThreadPool
          SceneLength, SceneWight, ZoneSize, SysnRange, MaxHumanInScene  \* GYScene

VARIABLES which,                                     \* the library that runs
          sys, search, data, heap,                   \* PathFinder
          file, m_tableRow, m_tableRowCount, lookup, \* GYTable
          ini, reader,                               \* GYINIReader
          pool, threads, task, ran, caller,          \* GYThreadPool
          zone, told, exact                          \* GYSceneSync

P    == INSTANCE PathFinder
T    == INSTANCE GYTable
I    == INSTANCE GYINIReader
Pool == INSTANCE GYThreadPool
Y    == INSTANCE GYSceneSync

-----------------------------------------------------------------------------
(* What is asked of the parameters.                                        *)

\* The room of a buffer of size k at address a.
Room(k, a) == a .. (a + (IF k >= 512 THEN Pieces ELSE 1) - 1)

\* The buffers of the arrays do not overlap.
StringNumbers ==
    /\ IsFiniteSet(Strings)
    /\ Lengths \subseteq Nat
    /\ Pieces \in Nat \ {0}
    /\ AddressSpace \subseteq Int
    /\ NULL \notin AddressSpace
    /\ Buffers \in Seq([manager : Managers, size : Sizes, address : Int])
    /\ \A i \in DOMAIN Buffers : Room(Buffers[i].size, Buffers[i].address) \subseteq AddressSpace
    /\ \A i, j \in DOMAIN Buffers :
          i # j => Room(Buffers[i].size, Buffers[i].address)
                      \cap Room(Buffers[j].size, Buffers[j].address) = {}

\* What a file is: lines of fields, of a length and with a number in them.
FileField == [length : Nat, value : Int]
TableFile == [newline : BOOLEAN, lines : Seq([comment : BOOLEAN, fields : Seq(FileField)])]

\* Rows have a first column, the id.
TableNumbers ==
    Columns \in Nat \ {0} /\ TableFiles \subseteq TableFile /\ TableIDs \subseteq Int

\* What SceneDefine.txt and the constants of the scene give.
SceneNumbers ==
    /\ SceneLength \in Nat /\ SceneWight \in Nat
    /\ ZoneSize \in Nat \ {0} /\ SysnRange \in Nat \ {0}
    /\ NULL \notin Int

\* The corners of polygon p of a mesh, and what lies inside of all its edges.
Located == [x : Int, z : Int]

Outline(m, p) == [i \in DOMAIN m.polygons[p].points |-> m.points[m.polygons[p].points[i]]]
Within(m, p, point) == \A i \in DOMAIN Outline(m, p) : P!Side(Outline(m, p), i, point) >= 0

\* The polygons of a mesh have points of the file for corners and a neighbour, or none,
\* at each.
Shaped(m) ==
    /\ m.points \in Seq(Located)
    /\ m.polygons \in Seq([points : Seq(DOMAIN m.points), adjacent : Seq(Int)])
    /\ \A p \in DOMAIN m.polygons : DOMAIN m.polygons[p].adjacent = DOMAIN m.polygons[p].points

\* The scene is a number of whole zones, and each lists a polygon at every
\* place where there are any.
Zoned(m) ==
    LET xZoneCount == m.sceneMaxX \div m.zoneSize
        zZoneCount == m.sceneMaxZ \div m.zoneSize
    IN  /\ m.zoneSize \in Nat \ {0} /\ m.sceneMaxX \in Nat /\ m.sceneMaxZ \in Nat
        /\ m.sceneMaxX = m.zoneSize * xZoneCount
        /\ m.sceneMaxZ = m.zoneSize * zZoneCount
        /\ \A x \in 0 .. xZoneCount - 1, z \in 0 .. zZoneCount - 1 :
              LET zoneList == m.zones[x + z * zZoneCount + 1]
              IN  /\ zoneList \in Seq(DOMAIN m.polygons)
                  /\ \A place \in Places :
                        /\ place.x \div m.zoneSize = x /\ place.z \div m.zoneSize = z
                        /\ \E p \in DOMAIN m.polygons : Within(m, p, place)
                        => \E i \in DOMAIN zoneList : Within(m, zoneList[i], place)

\* The files that are not refused hold such a mesh.
GoodMeshes ==
    /\ Places \subseteq [x : Nat, z : Nat]
    /\ \A m \in Files : P!InitPathFinder(m) # P!NoSystem => Shaped(m) /\ Zoned(m)

\* No name has blanks inside, in the files or asked for, no node a bracket,
\* no key an equal sign, and the key asked for is a word.
Lacks(s, tokens) == \A i \in DOMAIN s : s[i] \notin tokens
NodeName(line) ==
    LET s == I!TrimFront(line, I!Blanks) IN SubSeq(s, 2, I!Position(s, "]") - 1)
KeyName(line) ==
    I!TrimBack(I!TrimFront(SubSeq(line, 1, I!Position(line, "=") - 1), I!Blanks), I!Blanks)
PlainNames ==
    /\ INIFiles \subseteq [exists : BOOLEAN, lines : Seq(Seq(STRING))]
    /\ Nodes \subseteq Seq(STRING) /\ Keys \subseteq Seq(STRING)
    /\ \A f \in INIFiles : \A i \in DOMAIN f.lines :
          /\ I!Bracketed(f.lines[i]) => Lacks(NodeName(f.lines[i]), I!Blanks)
          /\ Lacks(KeyName(f.lines[i]), I!Blanks)
    /\ \A node \in Nodes : Lacks(node, I!Blanks \cup {"]"})
    /\ \A key \in Keys : LET word == I!TrimBack(I!TrimFront(key, {" "}), {" "})
                        IN  word # <<>> /\ Lacks(word, I!Blanks \cup {"="})

ASSUME LibraryAssumption ==
    StringNumbers /\ TableNumbers /\ PlainNames /\ SceneNumbers /\ GoodMeshes

-----------------------------------------------------------------------------
(* One of them at a time; the variables of the others are not used.        *)

pathVars  == <<sys, search, data, heap>>
tableVars == <<file, m_tableRow, m_tableRowCount, lookup>>
iniVars   == <<ini, reader>>
poolVars  == <<pool, threads, task, ran, caller>>
syncVars  == <<zone, told, exact>>

None == "none"

Begin ==
    /\ StringInit
    /\ IF which = "path" THEN P!Init
       ELSE sys = None /\ search = None /\ data = None /\ heap = None
    /\ IF which = "table" THEN T!Init
       ELSE file = None /\ m_tableRow = None /\ m_tableRowCount = None /\ lookup = None
    /\ IF which = "ini" THEN I!Init ELSE ini = None /\ reader = None
    /\ IF which = "pool" THEN Pool!Init
       ELSE pool = None /\ threads = None /\ task = None /\ ran = None /\ caller = None
    /\ IF which = "sync" THEN Y!Init
       ELSE zone = None /\ told = None /\ exact = None

Init == which \in {"path", "string", "table", "ini", "pool", "sync"} /\ Begin

Next ==
    /\ UNCHANGED which
    /\ \/ /\ which = "path" /\ P!Next
          /\ UNCHANGED <<stringVars, tableVars, iniVars, poolVars, syncVars>>
       \/ /\ which = "string" /\ StringNext
          /\ UNCHANGED <<pathVars, tableVars, iniVars, poolVars, syncVars>>
       \/ /\ which = "table" /\ T!Next
          /\ UNCHANGED <<pathVars, stringVars, iniVars, poolVars, syncVars>>
       \/ /\ which = "ini" /\ I!Next
          /\ UNCHANGED <<pathVars, stringVars, tableVars, poolVars, syncVars>>
       \/ /\ which = "pool" /\ Pool!Next
          /\ UNCHANGED <<pathVars, stringVars, tableVars, iniVars, syncVars>>
       \/ /\ which = "sync" /\ Y!Next
          /\ UNCHANGED <<pathVars, stringVars, tableVars, iniVars, poolVars>>

vars == <<which, pathVars, stringVars, tableVars, iniVars, poolVars, syncVars>>

Spec == Init /\ [][Next]_vars

-----------------------------------------------------------------------------
(* The properties of each; what they say is said in its module, which for  *)
(* the strings is where they are checked.                                 *)

\* findPath finds a path exactly when the mesh has one (PathFinder.cpp).
PathFound == which = "path" => P!PathFound

\* The heap and the parents of a search are sound at each of its steps.
SearchSound == which = "path" => P!SearchSound

\* Every row of a regular table is found by its id (GYTable.h).
TableAnswers == which = "table" => T!TableAnswers

\* An INI value is the one the file gives the key in its node.
IniAnswers == which = "ini" => I!IniAnswers

\* Each task of the pool is run once, by its own thread.
TasksRunOnce == which = "pool" => Pool!TasksRunOnce

\* The steps of a creature add up to the zones around it.
SyncExact == which = "sync" => Y!SyncExact
=============================================================================
