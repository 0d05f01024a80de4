SPECIFICATION Spec
CONSTANTS
    kNever = kNever
    NodeCount = 2
    Capacity <- MCCapacity
    MaxJobs = 4
    Shapes <- FewShapes
    Workloads <- MCWorkloads
    Schedulers = {"first_fit", "round_robin", "least_loaded", "resource_aware"}
    QueuePolicies = {"fifo", "backfill"}
PROPERTIES
    ImplementsJobService
    Terminates
    SatisfiableJobsFinish
