----------------------------- MODULE PathFinder -----------------------------
(***************************************************************************)
(* The path finder of MeshNavigate/PathFinder.cpp: a mesh of convex        *)
(* polygons is loaded from a file, and findPath searches it from the       *)
(* polygon of one position to that of another.  A search is a step for the *)
(* look-up of its two ends, one for each polygon taken from the heap, and  *)
(* one that turns the chain of parents into way points.                    *)
(*                                                                         *)
(* Polygons are numbered from 1; 0 stands for NULL and for the -1 of the   *)
(* file.  The normals the file holds are those of the edges.               *)
(***************************************************************************)
EXTENDS VectorMath, Heap, FiniteSets

CONSTANTS
    Files,       \* contents a mesh file may have
    Places,      \* positions findPath is asked about
    BufferSizes  \* sizes of the caller's buffer, in floats

VARIABLES
    sys,     \* the loaded mesh, or NoSystem
    search,  \* where the search stands: its ends, its best polygon, its result
    data,    \* m_pathFindData of each polygon
    heap     \* m_heap

vars == <<sys, search, data, heap>>

NoSystem == [polygons |-> <<>>]
NoPolygon == 0
NoTurn == 0
PathFindErrorBeginPositionNoInMesh == -1
PathFindErrorTargetPositionNoInMesh == -2
PathFindErrorTargetPositionUnarrivable == -4

-----------------------------------------------------------------------------
(* The mesh.                                                               *)

Polygons == DOMAIN sys.polygons
Corners(p) == [i \in DOMAIN sys.polygons[p].points |-> sys.points[sys.polygons[p].points[i]]]
Adjacent(p, i) == sys.polygons[p].adjacent[i]

\* A file without points, without polygons, or with a neighbour that is no
\* polygon of it, is refused.
InitPathFinder(file) ==
    IF \/ file.points = <<>>
       \/ file.polygons = <<>>
       \/ \E p \in DOMAIN file.polygons : \E i \in DOMAIN file.polygons[p].adjacent :
              file.polygons[p].adjacent[i] \notin {NoPolygon} \cup DOMAIN file.polygons
    THEN NoSystem
    ELSE file

IsInTriangle(p, point) ==
    \A i \in DOMAIN Corners(p) : Side(Corners(p), i, point) >= 0

\* The first polygon registered in the zone of a position that contains it.
GetTriangleByPosition(point) ==
    LET xZoneCount == sys.sceneMaxX \div sys.zoneSize
        zZoneCount == sys.sceneMaxZ \div sys.zoneSize
        xIndex     == point.x \div sys.zoneSize
        zIndex     == point.z \div sys.zoneSize
        zone       == sys.zones[xIndex + zIndex * zZoneCount + 1]
        inside     == {i \in DOMAIN zone : IsInTriangle(zone[i], point)}
    IN  IF \/ point.x > sys.sceneMaxX \/ point.z > sys.sceneMaxZ
           \/ xIndex >= xZoneCount \/ zIndex >= zZoneCount
        THEN NoPolygon
        ELSE IF inside = {} THEN NoPolygon
        ELSE zone[CHOOSE i \in inside : \A j \in inside : i <= j]

-----------------------------------------------------------------------------
(* The search.                                                             *)

Fresh == [flag |-> {}, parent |-> NoPolygon, index |-> NoPolygon, totalCost |-> 0, pos |-> Point(0, 0)]

TotalCosts(d) == [p \in DOMAIN d |-> d[p].totalCost]

\* The middle of the edge of from that the next polygon is entered through.
UpdateTrianglePortalPosition(from, i) ==
    LET a == Corners(from)[i]
        b == Corners(from)[NextIndex(Corners(from), i)]
    IN  Point((a.x + b.x) \div 2, (a.z + b.z) \div 2)

\* Mutant of Skipped: the total of a polygon not entered yet is looked at.
SkippedUnseen(d, best, n, total) ==
    \/ d[best].parent = n
    \/ total >= d[n].totalCost

\* A neighbour that is left as it is.
Skipped(d, best, n, total) ==
    \/ d[best].parent = n
    \/ d[n].flag # {} /\ total >= d[n].totalCost

\* One neighbour of best in the loop over its edges: w is the search so far.
Neighbour(w, best, i) ==
    LET n         == Adjacent(best, i)
        pos       == IF w.data[n].flag = {} THEN UpdateTrianglePortalPosition(best, i)
                                            ELSE w.data[n].pos
        heuristic == Distance(pos, search.targetPoint)
        total     == Distance(w.data[best].pos, pos) + w.data[best].totalCost + heuristic
        entered   == [w.data EXCEPT ![n] = [flag |-> @.flag \cup {"open"}, parent |-> best,
                                            index |-> i, totalCost |-> total, pos |-> pos]]
        closer    == w.lastBestCost > heuristic
    IN  IF n = NoPolygon THEN w
        ELSE IF Skipped(w.data, best, n, total) THEN w
        ELSE [data         |-> entered,
              heap         |-> IF "open" \in w.data[n].flag
                               THEN Modify(w.heap, TotalCosts(entered), n)
                               ELSE Push(w.heap, TotalCosts(entered), n),
              lastBest     |-> IF closer THEN n ELSE w.lastBest,
              lastBestCost |-> IF closer THEN heuristic ELSE w.lastBestCost]

\* The loop over the edges of best.
Searched(w, best) ==
    LET done[i \in 0..Len(Corners(best))] ==
            IF i = 0 THEN w ELSE Neighbour(done[i - 1], best, i)
    IN  done[Len(Corners(best))]

\* The polygons from the first to p along the parents (:499-505).
Chain(d, p) ==
    LET back[n \in 0..Len(d)] == IF n = 0 THEN p
                                 ELSE IF back[n - 1] = NoPolygon THEN NoPolygon
                                 ELSE d[back[n - 1]].parent
        first == CHOOSE n \in 0..Len(d) : back[n] # NoPolygon /\ d[back[n]].parent = NoPolygon
    IN  [k \in 1..(first + 1) |-> back[first + 1 - k]]

\* The point a path has to turn at when it leaves through the edge
\* newLeft-newRight and the last one was left-right, or NoTurn: XXXXXXXX.
TurnPoint(from, left, right, newLeft, newRight) ==
    LET P(i)     == sys.points[i]
        outwards == Dot(Normal(Vector(P(newLeft), P(newRight))), Vector(from, P(newLeft))) > 0
        test     == IF outwards THEN <<P(newLeft), P(newRight), from>>
                                ELSE <<P(newLeft), from, P(newRight)>>
        l        == PointInPolygon(test, P(left))
        r        == PointInPolygon(test, P(right))
    IN  CASE l >= 0 /\ r >= 0 -> NoTurn
          [] l = 0 /\ r < 0   -> NoTurn
          [] l < 0 /\ r = 0   -> NoTurn
          [] l < 0 /\ r > 0   -> right
          [] l > 0 /\ r < 0   -> left
          [] OTHER            -> IF left < right THEN left ELSE right

\* The loop over the polygons of a path: it counts the turns, and when
\* moving is set it also writes way points and goes on from each turn.
Walk(path, begin, moving) ==
    LET Out(k)  == LET i == data[path[k + 1]].index
                       points == sys.polygons[path[k]].points
                   IN  <<points[i], points[NextIndex(points, i)]>>
        Step(w, k) ==
            LET turn == TurnPoint(w.at, w.last[1], w.last[2], Out(k)[1], Out(k)[2])
            IN  [at   |-> IF moving /\ turn # NoTurn THEN sys.points[turn] ELSE w.at,
                 last |-> Out(k),
                 way  |-> IF turn # NoTurn THEN Append(w.way, w.at) ELSE w.way]
        walked[k \in 0..(Len(path) - 1)] ==
            IF k = 0 THEN [at |-> begin, last |-> Out(1), way |-> <<>>]
            ELSE Step(walked[k - 1], k)
    IN  walked[Len(path) - 1]

-----------------------------------------------------------------------------
(* Actions.                                                                *)

Answer(result, written) ==
    search' = [search EXCEPT !.pc = "done", !.result = result, !.written = written]

\* findPath up to its loop (:380-415).
FindPath(beginPoint, targetPoint, bufferSize) ==
    LET b == GetTriangleByPosition(beginPoint)
        t == GetTriangleByPosition(targetPoint)
        asked == [pc |-> "done", beginPoint |-> beginPoint, targetPoint |-> targetPoint,
                  bufferSize |-> bufferSize, begin |-> b, target |-> t, result |-> 0,
                  written |-> <<>>, lastBest |-> NoPolygon, lastBestCost |-> 0]
        cost == Distance(beginPoint, targetPoint)
        entered == [p \in Polygons |-> IF p = b THEN [Fresh EXCEPT !.flag = {"open"},
                                                          !.pos = beginPoint,
                                                          !.totalCost = cost]
                                                ELSE Fresh]
    IN  /\ sys # NoSystem
        /\ search.pc = "idle"
        /\ \/ /\ b = NoPolygon
              /\ search' = [asked EXCEPT !.result = PathFindErrorBeginPositionNoInMesh]
              /\ UNCHANGED <<data, heap>>
           \/ /\ b # NoPolygon /\ t = NoPolygon
              /\ search' = [asked EXCEPT !.result = PathFindErrorTargetPositionNoInMesh]
              /\ UNCHANGED <<data, heap>>
           \/ /\ b # NoPolygon /\ b = t
              /\ search' = [asked EXCEPT !.result = 1, !.written = <<targetPoint>>]
              /\ UNCHANGED <<data, heap>>
           \/ /\ b # NoPolygon /\ t # NoPolygon /\ b # t
              /\ search' = [asked EXCEPT !.pc = "search", !.lastBestCost = cost]
              /\ data' = entered
              /\ heap' = Push(<<>>, TotalCosts(entered), b)
        /\ UNCHANGED sys

\* One round of the A* loop: the first polygon of the heap is closed, and
\* either it is the target or its neighbours are entered (:426-492).
Expand ==
    LET best   == Head(heap)
        closed == [data EXCEPT ![best].flag = {"closed"}]
        w      == Searched([data |-> closed, heap |-> Popped(heap, TotalCosts(data)),
                            lastBest |-> search.lastBest, lastBestCost |-> search.lastBestCost],
                           best)
    IN  /\ search.pc = "search" /\ heap # <<>>
        /\ \/ /\ best = search.target
              /\ search' = [search EXCEPT !.pc = "found", !.lastBest = best]
              /\ data' = closed
              /\ heap' = Popped(heap, TotalCosts(data))
           \/ /\ best # search.target
              /\ search' = [search EXCEPT !.lastBest = w.lastBest,
                                          !.lastBestCost = w.lastBestCost]
              /\ data' = w.data
              /\ heap' = w.heap
        /\ UNCHANGED sys

\* The heap ran empty (:494).
Unarrivable ==
    /\ search.pc = "search" /\ heap = <<>>
    /\ IF search.lastBest # search.target
       THEN Answer(PathFindErrorTargetPositionUnarrivable, <<>>)
       ELSE search' = [search EXCEPT !.pc = "found"]
    /\ UNCHANGED <<sys, data, heap>>

\* The turns are counted, the buffer is checked against the count, and the
\* way points are written (:499-589).  The last one, the target, is not
\* counted in the answer.
Finish ==
    LET path   == Chain(data, search.target)
        count  == 1 + Len(Walk(path, search.beginPoint, FALSE).way)
        way    == Walk(path, search.beginPoint, TRUE).way
    IN  /\ search.pc = "found"
        /\ IF search.bufferSize < 2 * count
           THEN Answer(2 * count, <<>>)
           ELSE Answer(2 * Len(way), Append(way, search.targetPoint))
        /\ UNCHANGED <<sys, data, heap>>

Init ==
    /\ \E file \in Files : sys = InitPathFinder(file)
    /\ search = [pc |-> "idle"]
    /\ data = <<>>
    /\ heap = <<>>

Next ==
    \/ \E b, t \in Places, size \in BufferSizes : FindPath(b, t, size)
    \/ Expand
    \/ Unarrivable
    \/ Finish

Spec == Init /\ [][Next]_vars

-----------------------------------------------------------------------------
(* Properties.                                                             *)

PolygonsAt(point) ==
    {p \in Polygons : /\ IsInTriangle(p, point)
                      /\ point.x < sys.sceneMaxX /\ point.z < sys.sceneMaxZ}

\* The least set of polygons that holds ps and is closed under step: as many
\* steps as there are polygons reach all of it.
Closure(ps, step) ==
    LET reached[n \in 0..Len(sys.polygons)] ==
            IF n = 0 THEN ps ELSE reached[n - 1] \cup UNION {step[p] : p \in reached[n - 1]}
    IN  reached[Len(sys.polygons)]

Neighbours == [p \in Polygons |-> {Adjacent(p, i) : i \in DOMAIN Corners(p)} \ {NoPolygon}]
Children   == [p \in Polygons |-> {q \in Polygons : data[q].parent = p}]

\* findPath answers an error exactly when an end lies in no polygon or when
\* no chain of neighbours joins the two ends; otherwise it answers a number
\* of floats.  The costs it goes by add up the distance to the target once
\* for every polygon of the path, and its heap does not keep the least
\* first, so that it is not plain that nothing reachable is missed.
PathFound ==
    search.pc = "done" =>
        CASE PolygonsAt(search.beginPoint) = {}  -> search.result = -1
          [] PolygonsAt(search.beginPoint) # {} /\ PolygonsAt(search.targetPoint) = {}
                                                 -> search.result = -2
          [] OTHER -> IF search.target \in Closure({search.begin}, Neighbours)
                      THEN search.result >= 0
                      ELSE search.result = -4

Opened == {heap[i] : i \in DOMAIN heap}

\* During a search the heap holds each open polygon once, so that it never
\* outgrows the mesh, and the parents lead from every polygon entered back
\* to the first through an edge the two share: the walk along the parents
\* ends, whatever polygons have been opened again.
SearchSound ==
    search.pc \in {"search", "found"} =>
        /\ Opened = {p \in Polygons : "open" \in data[p].flag}
        /\ Len(heap) = Cardinality(Opened)
        /\ LET entered == {p \in Polygons : data[p].flag # {}}
           IN  /\ entered \subseteq Closure({search.begin}, Children)
               /\ \A p \in entered \ {search.begin} :
                      Adjacent(data[p].parent, data[p].index) = p

=============================================================================
