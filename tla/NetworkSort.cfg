SPECIFICATION NetworkSpec
CHECK_DEADLOCK FALSE
CONSTANTS
    OptVals = {0, 1, 2}
    OptFuns <- MCFuns
    Rank = 2
    FirstBoards = {}
    Tiles = {}
INVARIANT NetworksSort
