SPECIFICATION ComponentsSpec
CHECK_DEADLOCK FALSE
CONSTANTS
    Capacity = 8
    Base = 8
    Sizes = {1, 2, 3}
    Aligns = {1, 2, 4}
    Kinds = {"base", "byte", "only", "aligned"}
    Polite = TRUE
    ChunkElems = {1, 2}
    ChunkSize = 4
    MaxList = 5
    MaxChunks = 3
    SmallElems = {0, 1, 2}
    Blank = 0
    SmallSize = 2
    MaxSmall = 4
    MapKeys = {1, 2, 3, 4}
    MapVals = {0, 1}
    DefaultVal = 0
    AnyHint = FALSE
    Buffers = {10, 11}
    BufferSizes = {0, 8, 16}
    PoolMax = 1
    MaxBlocks = 2
    Holders = {1, 2, 3}
    CountLimit = 16
    Types = {"a", "b"}
    MaxStored = 3
    Alphabet <- MCAlphabet
    Chars = {1, 2, 4}
    TrieVals = {7, 8}
    MaxKey = 2
    MaxNodes = 4
    ReservedDepth = 2
    WatchdogInterval = 5
    NotifyPeriod = 2
    HeartbeatPeriod = 6
    MinPeriod = 1
    MaxPeriod = 5
    MaxExtensions = 4
    Revisions = 3
    HistVals = {0, 1, 2}
    Deltas = {1}
    MaxPast = 7
    ConfigKeys = {"k1"}
    ConfigVals = {"1", "2"}
    Groups <- MCGroups
    Tags <- MCTags
    Loaders = {l1, l2}
    EditPlaces = {1, 4, 25}
    MaxEdits = 3
    AppNameGiven = TRUE
    Services = {1, 2}
    MaxUpdates = 2
    Handles = {h1, h2, h3}
    TreePaths <- MCPaths
    Overlay = FALSE
    Rank = 2
    FirstBoards <- MCBoards
    Tiles <- MCTiles
INVARIANTS
    BlocksDisjoint
    DifCountsUsed
    AllReturnedAllFree
    PoliteCallersAreServed
    OwnedOnce
    TimersAreKept
    ContextIsCurrent
    StructuresAgree
PROPERTIES
    ContainersKeepTheirPromise
    PuzzleTilesHold
