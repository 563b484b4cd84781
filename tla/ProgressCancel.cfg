CONSTANTS
    Threads = {t1, t2}
    Slots = {s1, s2}
    Root = Root
    Observers = {o1, o2}
    None = None
    Addresses = {1, 2}
    IdLimit = 3
    Totals = {1}
SPECIFICATION Spec
SYMMETRY Symmetry
INVARIANTS
    CanceledStaysCanceled
