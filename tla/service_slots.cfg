\* Two accounts, two games, one of which moves on, and one engine slot.
SPECIFICATION ServiceSpec
CONSTANTS
    r1 = r1
    r2 = r2
    r3 = r3
    Requests <- ServiceRequests
    Keys <- ServiceKeys
    Games <- ServiceGames
    Kinds <- ServiceKinds
    Priorities = {0, 10}
    PriorityOf <- ServicePriorityOf
    TtlOf <- ServiceTtlOf
    Concurrency = 1
    MaxWaiting = 1
    WaitDeadline = TRUE
    Signals = {"absent"}
    MaxCached = 1
    MaxTime = 1
    None = None
    Users <- ServiceUsers
    UserOf <- ServiceUserOf
    SlotsOf <- OneSlotEach
    MaxRevision = 2
    TicksInTurn = FALSE
SYMMETRY AccountSymmetry
INVARIANT SlotCoversJob
INVARIANT OnlyUsefulnessStops
INVARIANT LeftInLineNeverSpawns
PROPERTY NeverSearchesBehind
CHECK_DEADLOCK FALSE
