SPECIFICATION Spec
CONSTANTS
    t1 = t1
    t2 = t2
    NULL = NULL
    Tasks <- MCTasks
    Basetime = 10
    InitCapacity = 1
    Increment = 1
    MaxCapacity = 2
    TickMod = 4
    MaxBacklog = 2
    Periods <- MCPeriods
    States <- MCStates
    Configs <- TableConfigs
    Calls <- TableCalls
    SelfRemoval = FALSE
    Resubscribe = FALSE
SYMMETRY MCSymmetry
INVARIANTS
    TypeOK
    TableConsistent
    CountBelowPeriod
PROPERTIES
    SubscribeStores
    SizeHasOneWriter
