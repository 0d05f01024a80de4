SPECIFICATION ReservedSpec
CONSTANTS
    kNever = kNever
    NodeCount = 2
    Capacity <- MCCapacity
    MaxJobs = 4
    Shapes <- AllShapes
    PromisedJobs = 5
    Workloads <- RunWorkloads
    Schedulers = {"first_fit", "round_robin", "least_loaded", "resource_aware"}
    QueuePolicies = {"fifo", "backfill"}
INVARIANTS
    TypeOK
    JobAccounting
    ClockNeverBehind
    PickIsPlaceable
    Deterministic
    Conservation
    UtilizationExact
    NothingStartableWaits
    OvertakingIsBackfilling
    WedgedOnlyByUnsatisfiableHead
    SimEndIsMakespan
    ReservationHonoured
PROPERTIES
    RecordsWrittenOnce
    ReservationNeverRecedes
