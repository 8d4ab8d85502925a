---------------------------- MODULE MeshNavigate ----------------------------
(***************************************************************************)
(* The generator of the meshes the path finder reads (MeshNavigate.cpp):   *)
(* it joins the items and the steep ground of a scene to a triangulation,  *)
(* registers the triangles in zones, numbers their corners zone by zone,   *)
(* finds their neighbours and writes a file.                               *)
(*                                                                         *)
(* A polygon is the sequence of its corners, as in VectorMath.  Zones,     *)
(* corners and triangles are numbered from 1, as in PathFinder.  The       *)
(* circles of the triangulation are exact here; where a point is exactly   *)
(* on one whose center no float has, rounding decides in the code and      *)
(* MakeMeshNavigateData is not taken (Decided).  Scenes are square, since  *)
(* the code takes the one count of zones for the other, their ground has   *)
(* a spacing of 1, and m_zoneSize, 16 in the code, is a parameter.         *)
(***************************************************************************)
EXTENDS VectorMath, FiniteSets, SequencesExt

CONSTANTS
    SceneMax,   \* m_sceneMaxX and m_sceneMaxZ
    ZoneSize,   \* m_zoneSize
    ItemShapes,      \* polygons of the items that may be added
    MaxItems,   \* bound of the items added
    Grounds     \* sets of steep cells a scene may have: [x, z, steep]

VARIABLE gen    \* the generator: pc, unwalkable, items, mesh and file

-----------------------------------------------------------------------------
(* Steep ground and items.                                                 *)

\* The polygon of a cell with both halves, or only one, too steep.
SteepPolygon(cell) ==
    LET a == Point(cell.x, cell.z)         b == Point(cell.x + 1, cell.z)
        c == Point(cell.x + 1, cell.z + 1) d == Point(cell.x, cell.z + 1)
    IN  CASE cell.steep = "both" -> <<a, b, c, d>>
          [] cell.steep = "ACD"  -> <<a, c, d>>
          [] cell.steep = "ABC"  -> <<a, b, c>>

MakeTerraionMesh(ground) ==
    LET Before(a, b) == a.z < b.z \/ (a.z = b.z /\ a.x < b.x)
        cells == SetToSortSeq(ground, Before)
    IN  [i \in DOMAIN cells |-> SteepPolygon(cells[i])]

\* ConvexPolygonClipping up to the clipping itself (PolygonClipping.cpp:54-103).
ConvexPolygonClipping(clipped, window) ==
    LET Leaves(p, q) == \E i \in DOMAIN p : PointInPolygon(q, p[i]) = -1
        Enters(p, q) == \E i \in DOMAIN p : PointInPolygon(q, p[i]) = 1
    IN  IF ~Leaves(window, clipped) THEN "CLIPPING_WINDOW_ALL_IN_CLIPPED_POLYGON"
        ELSE IF ~Leaves(clipped, window) THEN "ALL_POINT_IN_CLIPPING_WINDOW"
        ELSE IF ~Enters(window, clipped) /\ ~Enters(clipped, window) THEN "NOT_NEED_CLIPPING"
        ELSE "clipped"

\* One polygon of the queue: the last is compared with the others up to the
\* first it meets.  When that one lies inside and is not the last,
\* DeleteDataFromQueue moves the polygons themselves in place of the pointers to
\* them, and the one that is released stays in the queue ("freed").
TakeFromQueue(s) ==
    LET polygon == Last(s.items)
        rest    == Front(s.items)
        met     == {i \in DOMAIN rest : ConvexPolygonClipping(polygon, rest[i]) # "NOT_NEED_CLIPPING"}
        check   == CHOOSE i \in met : \A j \in met : i <= j
        how     == ConvexPolygonClipping(polygon, rest[check])
    IN  IF s.items = <<>> \/ s.pc # "made" THEN s
        ELSE IF met = {} THEN [s EXCEPT !.items = rest, !.result = Append(@, polygon)]
        ELSE IF how = "ALL_POINT_IN_CLIPPING_WINDOW" THEN [s EXCEPT !.items = rest]
        ELSE IF how = "clipped" THEN [s EXCEPT !.pc = "clipping"]
        ELSE IF check # Len(rest) THEN [s EXCEPT !.pc = "freed"]
        ELSE [s EXCEPT !.items = Front(rest), !.result = Append(@, polygon)]

\* What is left of the items when those inside others are gone.
UpdateItemPolygon(items) ==
    LET taken[n \in 0..Len(items)] ==
            IF n = 0 THEN [items |-> items, result |-> <<>>, pc |-> "made"]
            ELSE TakeFromQueue(taken[n - 1])
    IN  taken[Len(items)]

-----------------------------------------------------------------------------
(* The triangulation.                                                      *)

\* The circle through the corners of a triangle, its center as the
\* numerators of fractions over g.
BuildPolygonCircle(t) ==
    LET ab == Vector(t[1], t[2])
        ac == Vector(t[1], t[3])
        bc == Vector(t[2], t[3])
        e  == ab.x * (t[1].x + t[2].x) + ab.z * (t[1].z + t[2].z)
        f  == ac.x * (t[1].x + t[3].x) + ac.z * (t[1].z + t[3].z)
    IN  [g |-> 2 * (ab.x * bc.z - ab.z * bc.x), on |-> t[1],
         x |-> ac.z * e - ab.z * f, z |-> ab.x * f - ac.x * e]

\* The square of the distance of a point to the center, times g * g.
Away(circle, p) == LET d == Vector(Point(p.x * circle.g, p.z * circle.g), circle) IN Dot(d, d)

InCircle(t, p) ==
    LET circle == BuildPolygonCircle(t) IN Away(circle, p) < Away(circle, circle.on)

\* The comparison of InCircle does not depend on rounding: the point is not
\* on the circle, or the division by g is exact.
Decided(t, p) ==
    LET circle == BuildPolygonCircle(t)
    IN  /\ circle.g > 0
        /\ \/ Away(circle, p) # Away(circle, circle.on)
           \/ (2 * circle.x) % circle.g = 0 /\ (2 * circle.z) % circle.g = 0

\* The edges that only one of the triangles has.
UniqueEdga(edgas) ==
    SelectSeq(edgas, LAMBDA e : Cardinality({i \in DOMAIN edgas : ToSet(edgas[i]) = ToSet(e)}) = 1)

Edgas(t) == [i \in DOMAIN t |-> <<t[i], t[NextIndex(t, i)]>>]

\* The triangle of three points, turned so that its normals point in.
MakeTriangle(a, b, c) ==
    IF Dot(Vector(a, c), Normal(Vector(a, b))) >= 0 THEN <<a, b, c>> ELSE <<b, a, c>>

\* The triangles whose circle holds the point make way for those that join
\* it to the border of their union, but for triangles with every corner on
\* the border of the polygon the point is of.
AddPointToTriangleList(polygonList, point, polygon) ==
    LET On(p)    == PointInPolygon(polygon, p) = 0
        Kept(e)  == /\ ~(On(e[1]) /\ On(e[2]) /\ On(point))
                    /\ Cardinality({e[1], e[2], point}) = 3
        need     == SelectSeq(Reverse(polygonList), LAMBDA t : InCircle(t, point))
        noneed   == SelectSeq(Reverse(polygonList), LAMBDA t : ~InCircle(t, point))
        edgas    == UniqueEdga(FlattenSeq([i \in DOMAIN need |-> Edgas(need[i])]))
        border   == SelectSeq(edgas, Kept)
    IN  Reverse(noneed \o [i \in DOMAIN border |-> MakeTriangle(border[i][1], border[i][2], point)])

\* The points that are added, each with its polygon, in the order they are.
PointsOf(polygons) ==
    FlattenSeq([i \in DOMAIN polygons |->
                   [j \in DOMAIN polygons[i] |-> [at |-> polygons[i][j], of |-> polygons[i]]]])

\* MakeWorkArea up to the zones (:833-886).
Triangles(unwalkable, items) ==
    LET Far(x, z) == Point(x * SceneMax, z * SceneMax)
        scene  == << <<Far(0, 0), Far(1, 1), Far(0, 1)>>, <<Far(0, 0), Far(1, 0), Far(1, 1)>> >>
        Add(w, p) == [triangles |-> AddPointToTriangleList(w.triangles, p.at, p.of),
                      decided   |-> w.decided /\ \A i \in DOMAIN w.triangles : Decided(w.triangles[i], p.at)]
    IN  FoldLeft(Add, [triangles |-> scene, decided |-> TRUE],
                 PointsOf(Reverse(unwalkable)) \o PointsOf(Reverse(items)))

-----------------------------------------------------------------------------
(* Zones, corners and neighbours.                                          *)

ZoneCount == SceneMax \div ZoneSize
ZoneAt(x, z) == x + z * ZoneCount + 1
Zones == [k \in 1..(ZoneCount * ZoneCount) |-> [x |-> (k - 1) % ZoneCount, z |-> (k - 1) \div ZoneCount]]

\* The zones from the one of the least to the one of the greatest coordinate;
\* the border of the scene belongs to the last.
ZoneRange(values) ==
    LET Index(v) == IF v \div ZoneSize = ZoneCount THEN ZoneCount - 1 ELSE v \div ZoneSize
    IN  Index(Min(values))..Index(Max(values))

\* MakeWorkArea from :887: the triangles of a zone, in their order.
Registered(t, k) == /\ Zones[k].x \in ZoneRange({t[j].x : j \in DOMAIN t})
                    /\ Zones[k].z \in ZoneRange({t[j].z : j \in DOMAIN t})

ZoneQueue(triangles, k) ==
    SelectSeq([i \in DOMAIN triangles |-> i], LAMBDA i : Registered(triangles[i], k))

\* The zones whose points are looked through for those of zone k, in order.
LookedThrough(k) ==
    <<k>> \o (IF Zones[k].z > 0 THEN <<k - ZoneCount>> ELSE <<>>)
          \o (IF Zones[k].x > 0 THEN <<k - 1>> ELSE <<>>)

InZone(k, p) == /\ p.x \in (Zones[k].x * ZoneSize)..((Zones[k].x + 1) * ZoneSize)
                /\ p.z \in (Zones[k].z * ZoneSize)..((Zones[k].z + 1) * ZoneSize)

\* The points zone k adds to those of the zones before it: the corners its
\* triangles have in its rectangle that no zone it looks through has, each once.
ProcessVertexInZone(triangles, points, k) ==
    LET queue    == ZoneQueue(triangles, k)
        New(p)   == /\ InZone(k, p)
                    /\ \A n \in ToSet(LookedThrough(k)) \ {k} : ~Contains(points[n], p)
        Add(w, p) == IF Contains(w, p) THEN w ELSE Append(w, p)
    IN  Append(points, FoldLeft(Add, <<>>, SelectSeq(FlattenSeq([i \in DOMAIN queue |-> triangles[queue[i]]]), New)))

\* The points of every zone.
ProcessVertex(triangles) ==
    FoldLeft(LAMBDA points, k : ProcessVertexInZone(triangles, points, k), <<>>, [k \in DOMAIN Zones |-> k])

\* Mutant of LastZone: a corner keeps the first number it gets.
FirstZone(triangles, m, p) ==
    Min({k \in DOMAIN Zones : InZone(k, p) /\ Registered(triangles[m], k)})

\* The last zone that numbers corner p of triangle m.
LastZone(triangles, m, p) ==
    Max({k \in DOMAIN Zones : InZone(k, p) /\ Registered(triangles[m], k)})

\* The number of a point of zone k: the place, in the list of all, it has in
\* the first zone looked through that has it.
NumberIn(points, k, p) ==
    LET n     == SelectSeq(LookedThrough(k), LAMBDA z : Contains(points[z], p))[1]
        begin == Len(FlattenSeq([z \in 1..(n - 1) |-> points[z]]))
    IN  begin + CHOOSE i \in DOMAIN points[n] : points[n][i] = p

\* The neighbour of polygon m at an edge: a polygon that has an edge nobody
\* is waiting at waits there, the next one that has it joins it.
ProcessAdjacent(index, m, ends) ==
    LET Has(n)  == \E i \in DOMAIN index[n] : {index[n][i], index[n][NextIndex(index[n], i)]} = ends
        having  == SelectSeq([n \in DOMAIN index |-> n], Has)
        at      == CHOOSE i \in DOMAIN having : having[i] = m
        joined  == IF at % 2 = 1 THEN at + 1 ELSE at - 1
    IN  IF joined \in DOMAIN having THEN having[joined] ELSE 0

BuildEdgeInfo(index) ==
    [m \in DOMAIN index |-> [i \in DOMAIN index[m] |->
        ProcessAdjacent(index, m, {index[m][i], index[m][NextIndex(index[m], i)]})]]

\* The mesh MakeMeshNavigateData leaves for WriteDataToFile.
MeshOf(triangles) ==
    LET points   == ProcessVertex(triangles)
        index    == [m \in DOMAIN triangles |-> [j \in DOMAIN triangles[m] |->
                        NumberIn(points, LastZone(triangles, m, triangles[m][j]), triangles[m][j])]]
        adjacent == BuildEdgeInfo(index)
    IN  [points   |-> FlattenSeq(points),
         polygons |-> [m \in DOMAIN index |-> [points |-> index[m], adjacent |-> adjacent[m]]],
         zones    |-> [k \in DOMAIN Zones |-> ZoneQueue(triangles, k)]]

\* The file as PathFinder reads it; its normals are those of the edges.
MeshFile(mesh) ==
    [sceneMaxX |-> SceneMax, sceneMaxZ |-> SceneMax, zoneSize |-> ZoneSize,
     points |-> mesh.points, polygons |-> mesh.polygons, zones |-> mesh.zones]

-----------------------------------------------------------------------------
(* Actions.                                                                *)

Init == \E ground \in Grounds :
    gen = [pc |-> "items", unwalkable |-> MakeTerraionMesh(ground), items |-> <<>>,
           mesh |-> <<>>, file |-> <<>>]

AddItemToGridSystem(polygon) ==
    /\ gen.pc = "items" /\ Len(gen.items) < MaxItems
    /\ gen' = [gen EXCEPT !.items = Append(@, polygon)]

MakeMeshNavigateData ==
    LET left  == UpdateItemPolygon(gen.items)
        items == Reverse(left.result)
        made  == Triangles(gen.unwalkable, items)
    IN  /\ gen.pc = "items"
        /\ IF left.pc # "made" THEN gen' = [gen EXCEPT !.pc = left.pc]
           ELSE /\ made.decided
                /\ gen' = [gen EXCEPT !.pc = "made", !.items = items,
                                      !.mesh = MeshOf(made.triangles)]

WriteDataToFile ==
    /\ gen.pc = "made"
    /\ gen' = [gen EXCEPT !.pc = "written", !.file = MeshFile(gen.mesh)]

Next ==
    \/ \E polygon \in ItemShapes : AddItemToGridSystem(polygon)
    \/ MakeMeshNavigateData
    \/ WriteDataToFile

Spec == Init /\ [][Next]_gen

-----------------------------------------------------------------------------
(* Properties.                                                             *)

\* The mesh of a scene, as far as a reader of the file is concerned: two
\* triangles are neighbours at an edge exactly when they share it, however
\* the zones have numbered their corners; no two overlap; every place outside
\* the items and the steep ground is in one, and every place that is in one
\* is in one of the list of its zone.  (That no triangle covers an item is
\* not so: only triangles between corners of one item are left out.)
MeshSound ==
    gen.pc = "written" =>
        LET file      == gen.file
            mesh      == DOMAIN file.polygons
            Corner(m, i)   == file.points[file.polygons[m].points[i]]
            Edge(m, i)     == {Corner(m, i), Corner(m, NextIndex(file.polygons[m].points, i))}
            At(m, p)       == PointInPolygon(<<Corner(m, 1), Corner(m, 2), Corner(m, 3)>>, p)
            Obstacle(o, p) == PointInPolygon(o, p) >= 0
        IN  /\ \A m \in mesh : \A i \in 1..3 :
                  LET sharing == {n \in mesh \ {m} : \E j \in 1..3 : Edge(n, j) = Edge(m, i)}
                  IN  IF sharing = {} THEN file.polygons[m].adjacent[i] = 0
                      ELSE sharing = {file.polygons[m].adjacent[i]}
            /\ \A x, z \in 0..(SceneMax - 1) :
                  LET p      == Point(x, z)
                      listed == ToSet(file.zones[ZoneAt(x \div ZoneSize, z \div ZoneSize)])
                  IN  /\ Cardinality({m \in mesh : At(m, p) = 1}) <= 1
                      /\ \/ \E m \in listed : At(m, p) >= 0
                         \/ /\ \A m \in mesh : At(m, p) = -1
                            /\ \/ \E i \in DOMAIN gen.items : Obstacle(gen.items[i], p)
                               \/ \E i \in DOMAIN gen.unwalkable : Obstacle(gen.unwalkable[i], p)

=============================================================================
