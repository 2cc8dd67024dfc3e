SPECIFICATION RagSpec
CONSTANTS
    a = a
    x = x
    y = y
    mini = mini
    large = large
    s1 = s1
    t1 = t1
    t2 = t2
    Absent = Absent
    Paths = {a}
    Roots <- MCRoots
    Contents <- MCContents
    Bodies = {x, y}
    Stats = {s1}
    NumChunks <- MCNumChunks
    Models = {mini}
    Dim <- MCDim
    MaxRuns = 2
    MaxEdits = 1
    Threads = {t1, t2}
    EngineModel = mini
SYMMETRY Symmetry
VIEW View
CHECK_DEADLOCK FALSE
INVARIANTS
    EngineTypeOK
    LoadedVersionNamesIndex
    EachVersionLoadedOnce
    SettledSearchIsAligned
PROPERTIES
    ServedVersionNeverDecreases
    ImplementsPublication
