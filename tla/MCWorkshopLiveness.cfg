CONSTANTS
    a = a
    b = b
    u1 = u1
    u2 = u2
    Units = {u1, u2}
    Clients = {a, b}
    Batch <- OneUnitEach
    None = None
    Hardware = 2
    MaxWorkers = 2
    MaxRetries = 1
SPECIFICATION FairSpec
PROPERTIES
    BatchesComplete
    ShutdownCloses
CHECK_DEADLOCK FALSE
