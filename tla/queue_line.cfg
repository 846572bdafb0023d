\* Four requests for one slot and two waiting places: the order of service.
SPECIFICATION Spec
CONSTANTS
    Requests = {r1, r2, r3, r4}
    Keys = {k1, k2, k3}
    Priorities = {0, 1}
    Concurrency = 1
    MaxWaiting = 2
    WaitDeadline = FALSE
    Signals = {"absent"}
    None = None
SYMMETRY RequestSymmetry
INVARIANT AnnouncedIsFact
PROPERTY ServedInOrder
PROPERTY ImplementsPool
CHECK_DEADLOCK FALSE
