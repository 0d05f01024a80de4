SPECIFICATION ParseSpec
CONSTANTS
    Arguments <- MCArguments
    MaxArguments = 4
    KnownSchedulers = {"first_fit", "round_robin", "least_loaded", "resource_aware"}
    KnownQueues = {"fifo", "backfill"}
INVARIANTS
    LastOccurrenceWins
    FirstProblemDecides
\* parse_args returns.
CHECK_DEADLOCK FALSE
