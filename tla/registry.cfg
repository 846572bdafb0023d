\* Results of different lifetimes in a cache of one, over two ticks of the clock.
SPECIFICATION RegistrySpec
CONSTANTS
    Requests = {r1, r2, r3}
    Keys <- TwoPositionKeys
    Games <- OneGame
    Kinds <- MCKinds
    Priorities <- MCPriorities
    PriorityOf <- MCPriorityOf
    TtlOf <- MCTtlOf
    Concurrency = 1
    MaxWaiting = 1
    WaitDeadline = TRUE
    Signals = {"absent"}
    MaxCached = 1
    MaxTime = 2
    None = None
SYMMETRY Symmetry
INVARIANT RegistryInv
PROPERTY WaitedIsTruth
PROPERTY NeverOverwritten
CHECK_DEADLOCK FALSE
