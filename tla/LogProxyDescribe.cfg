CONSTANTS
    Main = "main"
    Threads = {"main", "worker"}
    Severities = {1, 2}
    MaxCalls = 4
    Signals = FALSE
SPECIFICATION Spec
CHECK_DEADLOCK FALSE
INVARIANTS
    DescriptionsReachTheLog
