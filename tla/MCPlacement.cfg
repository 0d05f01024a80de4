SPECIFICATION Spec
CONSTANTS
    NodeCount = 3
    Capacity <- MCCapacity
    Requests <- MCRequests
    FreeLevels <- MCFreeLevels
INVARIANTS
    LoopsSelect
    PlaceContract
