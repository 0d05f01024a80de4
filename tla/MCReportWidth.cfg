SPECIFICATION TracedSpec
CONSTANTS
    kNever = kNever
    NodeCount = 2
    Capacity <- MCCapacity
    Width = 16
    MaxJobs = 4
    Shapes <- HeldShapes
    Workloads <- MCWorkloads
    Schedulers = {"first_fit", "round_robin", "least_loaded", "resource_aware"}
    QueuePolicies = {"fifo", "backfill"}
INVARIANT
    MeanIsExact
