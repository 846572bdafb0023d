\* Three callers whose connections may close, over a full one-place line.
SPECIFICATION Spec
CONSTANTS
    Requests = {r1, r2, r3}
    Keys = {k1, k2, k3}
    Priorities = {0, 1}
    Concurrency = 1
    MaxWaiting = 1
    WaitDeadline = TRUE
    Signals = {"absent", "live", "aborted"}
    None = None
SYMMETRY RequestSymmetry
INVARIANT QueueInv
INVARIANT RefsExact
PROPERTY RefusedOnlyWhenSaturated
PROPERTY DepartureSparesOthers
CHECK_DEADLOCK FALSE
