CONSTANTS
    Capacity = 6
    Base = 8
    Sizes = {1, 2}
    Aligns = {1, 2}
    Kinds = {"byte"}
    Polite = FALSE
SPECIFICATION Spec
INVARIANTS
    AssertionsHold
