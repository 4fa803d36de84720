SPECIFICATION TicksSpec
CONSTANTS
    t1 = t1
    t2 = t2
    NULL = NULL
    Tasks <- MCTasks
    Basetime = 10
    InitCapacity = 2
    Increment = 1
    MaxCapacity = 2
    TickMod = 4
    MaxBacklog = 3
    Periods <- MCPeriods
    States <- MCStates
    Configs <- TicksConfigs
    Calls <- TicksCalls
    SelfRemoval = FALSE
    Resubscribe = FALSE
    MaxDue = 4
INVARIANTS
    TicksAccounted
