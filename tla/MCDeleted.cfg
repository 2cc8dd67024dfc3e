SPECIFICATION Spec
CONSTANTS
    a = a
    b = b
    x = x
    y = y
    z = z
    mini = mini
    large = large
    s1 = s1
    s2 = s2
    Absent = Absent
    Paths = {a, b}
    Roots <- MCRoots
    Contents <- MCContents
    Bodies = {x, y, z}
    Stats = {s1, s2}
    NumChunks <- MCNumChunks
    Models = {mini}
    Dim <- MCDim
    MaxRuns = 2
    MaxEdits = 1
CHECK_DEADLOCK FALSE
INVARIANTS
    DeletedAreGone
