CONSTANTS
    a = a
    b = b
    u1 = u1
    u2 = u2
    Units = {u1, u2}
    Clients = {a, b}
    Batch <- OneEmptyBatch
    None = None
    Hardware = 3
    MaxWorkers = 3
    MaxRetries = 1
SPECIFICATION Spec
INVARIANTS
    UnitsConserved
    LatchCountsUndelivered
    NoLostWakeup
    IdleSleepersAreOwedAWakeup
    GoneIsQuiet
    TerminateOnlyAfterMisuse
PROPERTIES
    KeepsContract
CHECK_DEADLOCK FALSE
