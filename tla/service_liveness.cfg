\* Callers, jobs and database under fairness.
SPECIFICATION FairServiceSpec
CONSTANTS
    r1 = r1
    r2 = r2
    r3 = r3
    Requests <- ServiceRequests
    Keys <- OneGameKeys
    Games <- ServiceGames
    Kinds <- ServiceKinds
    Priorities = {0, 10}
    PriorityOf <- ServicePriorityOf
    TtlOf <- ServiceTtlOf
    Concurrency = 1
    MaxWaiting = 1
    WaitDeadline = TRUE
    Signals = {"absent"}
    MaxCached = 1
    MaxTime = 0
    None = None
    Users <- ServiceUsers
    UserOf <- ServiceUserOf
    SlotsOf <- OneSlotEach
    MaxRevision = 2
    TicksInTurn = FALSE
PROPERTY EverySlotReleased
PROPERTY EveryJobLetGo
CHECK_DEADLOCK FALSE
