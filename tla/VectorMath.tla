----------------------------- MODULE VectorMath -----------------------------
(***************************************************************************)
(* Points, polygons and tests of MeshNavigate (VectorMath.cpp, Polygon.cpp *)
(* and BaseStruct.cpp) over integer coordinates: the meshes checked have   *)
(* points on a grid whose edges have integer middles, where the code's     *)
(* floats are exact and its EPSILON tells nothing apart.  Every vector     *)
(* lies in the ground plane, y is left out.                                *)
(***************************************************************************)
EXTENDS Integers, Sequences

Point(x, z) == [x |-> x, z |-> z]

Vector(from, to) == Point(to.x - from.x, to.z - from.z)

\* VectorCrossProduct of v and StandardVector.
Normal(v) == Point(-v.z, v.x)

Dot(a, b) == a.x * b.x + a.z * b.z

Distance(a, b) == Dot(Vector(a, b), Vector(a, b))

\* InRect of the rectangle MakeRectByPoint makes of a and b.
InRectOf(a, b, p) == /\ p.x \in a.x..b.x \/ p.x \in b.x..a.x
                     /\ p.z \in a.z..b.z \/ p.z \in b.z..a.z

NextIndex(polygon, i) == IF i = Len(polygon) THEN 1 ELSE i + 1

\* On which side of the edge of a polygon that begins at vertex i p lies: a
\* polygon is the sequence of its vertices, clockwise.
Side(polygon, i, p) ==
    Dot(Vector(polygon[i], p), Normal(Vector(polygon[i], polygon[NextIndex(polygon, i)])))

\* 1 inside, 0 on the border, -1 outside.  The first edge whose line does
\* not have the point strictly inside decides.
PointInPolygon(polygon, p) ==
    LET notInside == {i \in DOMAIN polygon : Side(polygon, i, p) <= 0}
        first     == CHOOSE i \in notInside : \A j \in notInside : i <= j
    IN  IF p \in {polygon[i] : i \in DOMAIN polygon} THEN 0
        ELSE IF notInside = {} THEN 1
        ELSE IF /\ Side(polygon, first, p) = 0
                /\ InRectOf(polygon[first], polygon[NextIndex(polygon, first)], p) THEN 0
        ELSE -1
=============================================================================
