----------------------------- MODULE MCLibrary -----------------------------
(***************************************************************************)
(* The libraries under the servers, one to a behaviour: the path finder on *)
(* every mesh of 3 x 2 square cells (a wall or a way between any two) and  *)
(* on what the generator writes, that one with up to 3 items in scenes     *)
(* with and without steep ground, two strings of one manager and one of    *)
(* another, tables of up to 20 sorted rows and small irregular files, INI  *)
(* files of up to three lines, a pool for up to two threads, and a         *)
(* creature walking through 8 x 8 zones.                                   *)
(***************************************************************************)
EXTENDS GYLibrary

CONSTANTS Width, Height, CellSide,     \* of the mesh, in cells; of a cell
          MaxRows,                     \* rows of a sorted table
          MaxLines,                    \* lines of an INI file, rows of an irregular table
          SceneMax, MeshZoneSize, ItemShapes, MaxItems, Grounds  \* MeshNavigate

VARIABLES gen

-----------------------------------------------------------------------------
(* Meshes.  The corners of a cell go round so that its normals point in.   *)

Cell(i, j)   == j * Width + i + 1
Corner(i, j) == j * (Width + 1) + i + 1
Cells        == [n \in 1..(Width * Height) |-> [i |-> (n - 1) % Width, j |-> (n - 1) \div Width]]

Edges == {{Cell(i, j), Cell(i + 1, j)} : i \in 0..(Width - 2), j \in 0..(Height - 1)}
            \cup {{Cell(i, j), Cell(i, j + 1)} : i \in 0..(Width - 1), j \in 0..(Height - 2)}

NoCell == 0
Way(walls, n, next) == IF {n, next} \in walls THEN NoCell ELSE next

MeshPolygon(walls, n) ==
    LET i == Cells[n].i
        j == Cells[n].j
    IN  [points   |-> <<Corner(i, j), Corner(i + 1, j), Corner(i + 1, j + 1), Corner(i, j + 1)>>,
         adjacent |-> <<IF j = 0          THEN NoCell ELSE Way(walls, n, n - Width),
                        IF i = Width - 1  THEN NoCell ELSE Way(walls, n, n + 1),
                        IF j = Height - 1 THEN NoCell ELSE Way(walls, n, n + Width),
                        IF i = 0          THEN NoCell ELSE Way(walls, n, n - 1)>>]

\* Four zones, each with the cells that touch it; the scene is larger than the
\* mesh.
ZoneSide == CellSide * (IF Width > Height THEN Width ELSE Height)
Touches(n, x, z) ==
    /\ CellSide * Cells[n].i <= x + ZoneSide \div 2 /\ CellSide * (Cells[n].i + 1) >= x
    /\ CellSide * Cells[n].j <= z + ZoneSide \div 2 /\ CellSide * (Cells[n].j + 1) >= z

Mesh(walls) ==
    [sceneMaxX |-> ZoneSide, sceneMaxZ |-> ZoneSide, zoneSize |-> ZoneSide \div 2,
     points    |-> [n \in 1..((Width + 1) * (Height + 1)) |->
                       [x |-> CellSide * ((n - 1) % (Width + 1)), z |-> CellSide * ((n - 1) \div (Width + 1))]],
     polygons  |-> [n \in 1..(Width * Height) |-> MeshPolygon(walls, n)],
     zones     |-> [k \in 1..4 |->
                       LET Here(n) == Touches(n, ((k - 1) % 2) * (ZoneSide \div 2),
                                              ((k - 1) \div 2) * (ZoneSide \div 2))
                       IN  SelectSeq([n \in 1..(Width * Height) |-> n], Here)]]

\* Two files that are refused: without points, with a neighbour out of range.
Refused == {[Mesh({}) EXCEPT !.points = <<>>],
            [Mesh({}) EXCEPT !.polygons[1].adjacent[1] = Width * Height + 1]}

\* The items of a scene of the generator, as large as a mesh of 3 x 2 cells.
Corners(a, b, c) ==
    [i \in 1..3 |-> LET p == <<a, b, c>>[i] IN [x |-> p[1], z |-> p[2]]]
Roof    == Corners(<<6, 4>>, <<2, 6>>, <<4, 2>>)
Blade   == Corners(<<10, 8>>, <<2, 2>>, <<6, 4>>)
Wedge   == Corners(<<6, 8>>, <<4, 8>>, <<4, 6>>)
Arrow   == Corners(<<6, 6>>, <<8, 2>>, <<6, 10>>)
Tent    == Corners(<<4, 4>>, <<8, 4>>, <<6, 8>>)
Slab    == <<[x |-> 2, z |-> 6], [x |-> 6, z |-> 6], [x |-> 6, z |-> 10], [x |-> 2, z |-> 10]>>
MCItemShapes == {Roof, Blade, Wedge, Arrow, Tent, Slab}

MCGrounds == {{}, {[x |-> 3, z |-> 7, steep |-> "both"]},
              {[x |-> 3, z |-> 7, steep |-> "ACD"], [x |-> 9, z |-> 2, steep |-> "ABC"]}}

MCFiles  == {Mesh(walls) : walls \in SUBSET Edges} \cup Refused
MCPlaces == {[x |-> CellSide * i + CellSide \div 2, z |-> CellSide * j + CellSide \div 2] :
                i \in 0..(Width - 1), j \in 0..(Height - 1)}
            \cup {[x |-> ZoneSide - 1, z |-> ZoneSide - 1]}

-----------------------------------------------------------------------------
(* Strings: the managers have few buffers, so that larger ones are cut up. *)

MCStrings == {"a", "b", "c"}
Buffer(manager, k, address) == [manager |-> manager, size |-> k, address |-> address]
MCBuffers ==
    <<Buffer("one", 16, 1), Buffer("one", 32, 2), Buffer("one", 32, 3), Buffer("one", 512, 6),
      Buffer("one", 1024, 4), Buffer("other", 16, 8), Buffer("other", 64, 9)>>

MCManagerOf == [s \in MCStrings |-> IF s = "c" THEN "other" ELSE "one"]

-----------------------------------------------------------------------------
(* Tables of two columns.                                                  *)

Field(length, value) == [length |-> length, value |-> value]
Line(fields) == [comment |-> FALSE, fields |-> fields]
Heading == <<Line(<<Field(3, 0)>>), Line(<<Field(3, 0), Field(3, 0)>>)>>

\* Only comparisons of ids matter to the look-up: rows 2, 4, 6... stand for all.
Sorted(n) ==
    [newline |-> TRUE,
     lines   |-> Heading \o [i \in 1..n |-> Line(<<Field(2, 2 * i), Field(2, 100 + i)>>)]]

\* A full line, a short one, an empty field, comments of one field and of two.
Rows == {Line(<<Field(1, 2), Field(2, 10)>>), Line(<<Field(2, 12)>>),
         Line(<<Field(1, 4), Field(0, 0)>>),
         [comment |-> TRUE, fields |-> <<Field(3, 0)>>],
         [comment |-> TRUE, fields |-> <<Field(3, 0), Field(1, 3)>>]}
SmallTables == {[newline |-> ended, lines |-> Heading \o rows] :
                   ended \in BOOLEAN, rows \in UNION {[1..n -> Rows] : n \in 1..MaxLines}}

MCTableFiles == {Sorted(n) : n \in 0..MaxRows} \cup SmallTables
MCTableIDs   == 0..(2 * MaxRows + 1)

-----------------------------------------------------------------------------
(* INI files.                                                              *)

INILines ==
    {<<>>, <<"[", "n", "]">>, <<" ", "[", "n", "]", "\r">>, <<"[", "n">>,
     <<"[", "n", "x", "]">>, <<"[", "m", "]">>, <<"k", "=", "v">>,
     <<" ", "k", " ", "=", " ", "w", " ">>, <<"k", "=", "u", "\r">>, <<"k", "=">>,
     <<"x", "k", "=", "v">>, <<"=", "v">>, <<"k">>}

MCINIFiles == {[exists |-> FALSE, lines |-> <<>>]}
                 \cup {[exists |-> TRUE, lines |-> lines] :
                          lines \in UNION {[1..n -> INILines] : n \in 1..MaxLines}}
MCNodes == {<<"n">>, <<"m">>, <<"NULL">>}
MCKeys  == {<<"k">>, <<" ", "x", "k", " ">>, <<"NULL">>}
-----------------------------------------------------------------------------
(* The generator of meshes next to the other libraries; the path finder    *)
(* also reads what the generator has written.                              *)

G == INSTANCE MeshNavigate WITH ZoneSize <- MeshZoneSize

MCInit ==
    /\ which \in {"path", "string", "table", "ini", "pool", "sync", "mesh"}
    /\ Begin
    /\ IF which = "mesh" THEN G!Init ELSE gen = None

\* The path finder reads the file of the generator, of a scene with flat
\* ground and at most one item, where the middle of an edge is a place.
ReadMesh ==
    /\ which = "mesh" /\ gen.pc = "written"
    /\ gen.unwalkable = <<>> /\ Len(gen.items) <= 1
    /\ which' = "path"
    /\ gen' = None
    /\ sys' = P!InitPathFinder(gen.file)
    /\ search' = [pc |-> "idle"]
    /\ data' = <<>>
    /\ heap' = <<>>
    /\ UNCHANGED <<stringVars, tableVars, iniVars, poolVars, syncVars>>

MCNext ==
    \/ Next /\ UNCHANGED gen
    \/ which = "mesh" /\ G!Next /\ UNCHANGED vars
    \/ ReadMesh

MCSpec == MCInit /\ [][MCNext]_<<vars, gen>>

\* A mesh as the generator writes it fits together and covers the ground.
MeshSound == which = "mesh" => G!MeshSound
=============================================================================
