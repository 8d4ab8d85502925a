\* Each library on its own; what is longer than a line is in the module.
SPECIFICATION MCSpec
CONSTANTS
    Width = 3
    Height = 2
    CellSide = 4
    MaxRows = 20
    MaxLines = 3
    NULL = NULL
    Files <- MCFiles
    Places <- MCPlaces
    BufferSizes = {2, 4, 8}
    SceneMax = 12
    MeshZoneSize = 6
    ItemShapes <- MCItemShapes
    MaxItems = 3
    Grounds <- MCGrounds
    Strings <- MCStrings
    Lengths = {0, 20, 32, 100, 300}
    Buffers <- MCBuffers
    ManagerOf <- MCManagerOf
    AddressSpace = {1, 2, 3, 4, 5, 6, 7, 8, 9}
    Pieces = 2
    MaxBrimful = 3
    TableFiles <- MCTableFiles
    Columns = 2
    TableIDs <- MCTableIDs
    INIFiles <- MCINIFiles
    Nodes <- MCNodes
    Keys <- MCKeys
    Tasks = {"a", "b", "c"}
    PoolSizes = {1, 2}
    SceneLength = 8
    SceneWight = 8
    ZoneSize = 1
    SysnRange = 3
    MaxHumanInScene = 1
INVARIANT PathFound
INVARIANT SearchSound
 
 
 
INVARIANT TableAnswers
 
 
 
CHECK_DEADLOCK FALSE
