SPECIFICATION Spec
CONSTANTS
    h1 = h1
    h2 = h2
    g1 = g1
    host = host
    gateway = gateway
    Callers = {h1, h2, g1}
    Readers = {h1, h2}
    Processes = {host, gateway}
    ProcessOf <- MCProcessOf
    ToggleKeys = {"default", "s1"}
    DefaultKey = "default"
    Changes <- MCChanges
    Unreadable = Unreadable
    Initially = {Unreadable}
    TTL = 1
    MaxTime = 1
    MaxSets = 2
    Turns = {"t1", "t2"}
    Sessions = {"a", "b", "c"}
    NoSession = NoSession
    RingSize = 2
    MaxRings = 2
    MaxPushes = 5
    Askers = {"u1", "u2", "warm"}
    Warmer = "warm"
    Nobody = "nobody"
    Objects = {"conn", "cross"}
    Unlocked = {"cross"}
    MaxMade = 2
    MaxSessions = 2
    Blocks <- MCBlocks
    MaxBlocks = 3
    CharBudget = 100
    HeaderLen = 6
    MinBody = 7
    Overhead = 5
    ClosingLen = 3
    MaxSize = 2
    Overlaps = {0, 1, 2}
    MaxPassage = 5
    MaxParent = 4
    Target = 3
    PreambleMin = 1
    MaxLetters = 6
    Chunks = {1, 2, 3, 4, 5}
    Scores = {0, 1, 2}
    LegPool = 3
    FusedPool = 4
    RRFK = 2
    Scale = 60
    Texts = {"q", "a", "b", "c", "d"}
    Query = "q"
    NoText = "none"
    MaxParaphrases = 3
    MaxWritten = 4
INVARIANTS
    QuietLoadIsCurrent
    SpacedSetsAreKept
    SeenWasWritten
    ConvoTypeOK
    RingIsLatest
    MixesOnlyThePast
    PendingTurnKeepsRing
    LazyTypeOK
    OneInstance
    UsedWhenReady
    ContextFits
    CutInsideText
    ChunksFit
    WordsAreKept
    ParentsFit
    TextIsKept
    VariantsAreUseful
    BothLegsBeatOne
PROPERTIES
    WarmUpEnds
CHECK_DEADLOCK FALSE
