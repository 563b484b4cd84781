CONSTANTS
    Ids = {1, 2}
    Intervals = {1, 2}
    MaxTime = 4
    Slots = {"s1", "s2", "s3"}
    Binders = {"b1", "b2"}
    KeyMax = 4
    MaxSwitches = 2
SPECIFICATION LoopSpec
INVARIANTS
    IntervalsServedOnce
    FailureCostsOneInterval
    NothingOverdueIsLeft
    SignalsReachTheirSlots
    SwitchIsConsistent
PROPERTIES
    UpdateReturns
    InterruptionReported
