SPECIFICATION SweepSpec
CONSTANTS
    kNever = kNever
    NodeCount = 2
    Capacity <- MCCapacity
    Width = 1024
    Workloads <- MCWorkloads
    Schedulers = {"first_fit", "round_robin", "least_loaded", "resource_aware"}
    QueuePolicies = {"fifo", "backfill"}
    SeedModulus = 2
    Generators <- MCGenerators
    BaseSeeds = {1}
    SeedCounts = {1, 2}
INVARIANTS
    CellMatchesAStandaloneRun
    OnlyThePolicyVaries
    WinnersFinish
    WinsAreOfFirstFastest
PROPERTIES
    SweepEnds
