------------------------------- MODULE Percentiles -------------------------------
(***************************************************************************)
(* percentiles() (metrics/percentiles.cpp): three order statistics of a    *)
(* sample, by three calls of std::nth_element, each on the prefix the one  *)
(* before it has isolated.                                                 *)
(*                                                                         *)
(* nth_element promises only which element ends up at the nth position and *)
(* that the range is partitioned around it, so a call may leave the range  *)
(* in any order that keeps the promise.  Positions count from 1.           *)
(***************************************************************************)
EXTENDS OrderStatistics

CONSTANTS
    Ticks,       \* the values a sample may hold
    MaxSamples,  \* bound on the size of a sample
    Percents     \* triples of percentages; the code's is <<50, 95, 99>>

\* The percentages rise, so each range is a prefix of the one before.
ASSUME PercentilesAssumption ==
    /\ Ticks \subseteq Nat
    /\ MaxSamples \in Nat
    /\ \A p \in Percents : \A x \in 1 .. 3 : p[x] \in Nat
    /\ \A p \in Percents : 0 < p[1] /\ p[1] <= p[2] /\ p[2] <= p[3] /\ p[3] <= 100

VARIABLES
    sample,    \* the values as the caller gave them; never read by the code
    values,    \* the vector, reordered in place
    percent,   \* the three percentages
    calls      \* how many calls of nth_element have returned

sampleVars == <<sample, values, percent, calls>>

Size == Cardinality(DOMAIN values)

Rank(i) == PercentileRank(Size, percent[i])

--------------------------------------------------------------------------------

\* How often v occurs in f.
Occurrences(f, v) == Cardinality({i \in DOMAIN f : f[i] = v})

\* std::nth_element on the positions 1 .. last.  An nth past the end does
\* nothing.
NthElement(nth, last) ==
    IF nth > last THEN UNCHANGED values
    ELSE /\ values' \in [DOMAIN values -> {values[i] : i \in DOMAIN values}]
         /\ \A v \in {values[i] : i \in DOMAIN values} :
                Occurrences(values', v) = Occurrences(values, v)
         /\ \A i \in DOMAIN values : i > last => values'[i] = values[i]
         /\ \A i \in 1 .. last :
                /\ i < nth => values'[i] <= values'[nth]
                /\ i > nth => values'[nth] <= values'[i]

SampleInit ==
    /\ \E n \in 1 .. MaxSamples : sample \in [1 .. n -> Ticks]
    /\ values = sample
    /\ percent \in Percents
    /\ calls = 0

\* The first call, on the whole vector.
IsolateP99 == calls = 0 /\ NthElement(Rank(3), Size)

\* A variant that calls nth_element on the whole vector again, which may move
\* what the first call put in place.
IsolateP95Whole == calls = 1 /\ NthElement(Rank(2), Size)

\* The second, on what lies before p99.
IsolateP95 == calls = 1 /\ NthElement(Rank(2), Rank(3) - 1)

\* The third, on what lies before p95.
IsolateP50 == calls = 2 /\ NthElement(Rank(1), Rank(2) - 1)

SampleNext ==
    /\ IsolateP99 \/ IsolateP95 \/ IsolateP50
    /\ calls' = calls + 1
    /\ UNCHANGED <<sample, percent>>

SampleSpec == SampleInit /\ [][SampleNext]_sampleVars

--------------------------------------------------------------------------------

\* However nth_element leaves the rest of the vector, the three values read
\* back at the end are the three percentiles: a later call disturbs nothing an
\* earlier one put in place, and needs nothing outside its prefix.
ReadsPercentiles ==
    calls = 3 => \A i \in 1 .. 3 : values[Rank(i)] = NearestRank(sample, percent[i])

================================================================================
