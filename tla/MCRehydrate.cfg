SPECIFICATION Spec
CONSTANTS
    f = f
    g = g
    Files = {f, g}
    Layout <- MCLayout
    Ks <- MCKs
    ChunkPool = 3
    ParentPool = 2
    TopParents = 2
    MaxVariants = 2
    MaxIndices = 2
    MaxCommits = 3
INVARIANTS
    TextIsOfItsFile
