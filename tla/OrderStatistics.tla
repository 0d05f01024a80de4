----------------------------- MODULE OrderStatistics -----------------------------
(***************************************************************************)
(* The nearest-rank percentile of metrics/percentiles.hpp, as the rank the *)
(* code computes and as the definition of that rank.                       *)
(***************************************************************************)
EXTENDS Naturals, FiniteSets

\* A variant that rounds down.
RankRoundedDown(n, p) == IF n * p < 100 THEN 1 ELSE (n * p) \div 100

\* percentile_rank, one more than the index it returns: positions count from
\* 1 here.
PercentileRank(n, p) == (n * p + 99) \div 100

\* The nearest-rank convention: the least value of f that at least p percent
\* of the values of f do not exceed.
NearestRank(f, p) ==
    CHOOSE v \in {f[i] : i \in DOMAIN f} :
        LET Within(u) == Cardinality({i \in DOMAIN f : f[i] <= u})
            Covers(u) == 100 * Within(u) >= p * Cardinality(DOMAIN f)
        IN  Covers(v) /\ \A i \in DOMAIN f : Covers(f[i]) => v <= f[i]

================================================================================
