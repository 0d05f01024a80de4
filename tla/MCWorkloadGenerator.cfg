SPECIFICATION Spec
CONSTANTS
    NodeCount = 1
    Capacity <- MCCapacity
    Words = 4
    MinusLn <- MCMinusLn
    Profiles <- MCProfiles
    MeanGaps = {2, 60}
    Paddings = {0, 2, 9}
    MaxTick = 127
    MaxJobs = 2
INVARIANTS
    GeneratesWorkloads
    PaddingShiftsNothing
\* The generator returns when every estimate is drawn.
CHECK_DEADLOCK FALSE
