SPECIFICATION Spec
CONSTANTS
    kNever = kNever
    NodeCount = 2
    Capacity <- MCCapacity
    Requests <- MCRequests
    RunningSets <- MCRunningSets
INVARIANTS
    LoopFindsShadowTime
    NeverMeansUnsatisfiable
