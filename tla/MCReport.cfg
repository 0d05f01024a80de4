SPECIFICATION TracedSpec
CONSTANTS
    kNever = kNever
    NodeCount = 2
    Capacity <- MCCapacity
    Width = 1024
    MaxJobs = 4
    Shapes <- SomeShapes
    Workloads <- MCWorkloads
    Schedulers = {"first_fit", "round_robin", "least_loaded", "resource_aware"}
    QueuePolicies = {"fifo", "backfill"}
INVARIANTS
    CensoredAlike
    WaitWithinTurnaround
    UtilizationIsFraction
    OfferedIsDelivered
    EmptySpanIsInstantRun
    TraceTellsRecords
    FileOrderIsTimeOrder
    TraceReplays
