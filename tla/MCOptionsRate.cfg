SPECIFICATION ParseSpec
CONSTANTS
    Arguments <- MCArguments
    MaxArguments = 4
    KnownSchedulers = {"first_fit", "round_robin", "least_loaded", "resource_aware"}
    KnownQueues = {"fifo", "backfill"}
INVARIANT MeanGapIsPositive
\* parse_args returns.
CHECK_DEADLOCK FALSE
