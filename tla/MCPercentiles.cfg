SPECIFICATION SampleSpec
CONSTANTS
    Ticks = {0, 1, 2}
    MaxSamples = 6
    Percents <- MCPercents
INVARIANT ReadsPercentiles
\* The function returns after its third call.
CHECK_DEADLOCK FALSE
