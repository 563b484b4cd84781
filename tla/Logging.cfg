CONSTANTS
    Main = "main"
    Threads = {"main", "worker"}
    Severities = {1, 2}
    MaxCalls = 5
    Signals = TRUE
    MaxEntries = 6
    MaxConns = 4
    Places = {"p"}
    PlaceValues <- MCPlaceValues
    ArgTypes = {"int32s"}
    ArgNames = {"a", "b"}
    Formats <- MCFormats
    CompiledSeverity = 3
    BackendSeverity = 5
    Methods = {"log_trace", "stat", "log_lifetime"}
    FallbackTexts = {"%s"}
    Conversions = {"%s"}
    MaxPlaceholders = 2
    MaxArgs = 2
    OrigInterval = 1
    MaxRepeats = 3
    ObjectPlaces = {"r", "x", "y"}
    Root = "r"
    ObjectIds = {"a", "b"}
    InfoSeverity = 5
    MaxSeverity = 6
    MaxLifetimes = 3
    MaxVerbosity = 1
    IvThreads = {"i1", "i2"}
    IvLogger <- MCIvLogger
    Batch = 2
    MaxClock = 2
    MaxReports = 2
SPECIFICATION LoggingSpec
CHECK_DEADLOCK FALSE
INVARIANTS
    ConnectionsAreWellFormed
    EntriesAreKept
    EntriesAreWhole
    LogIsComplete
    MessagesAreAsGiven
    LinesShowTheArguments
    LifetimesAreBalanced
    LogTimesAreRight
PROPERTIES
    EntriesAreWritten
