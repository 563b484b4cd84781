CONSTANTS
    MaxEntries = 4
    MaxConns = 3
SPECIFICATION StreamSpec
CHECK_DEADLOCK FALSE
INVARIANTS
    AddChunkAdds
