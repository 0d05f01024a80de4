------------------------------- MODULE Comparison -------------------------------
(***************************************************************************)
(* main() (src/main.cpp) and the sweep of io/compare.cpp: a run of its own *)
(* with the two policies and the seed of a command line, then --compare,   *)
(* which runs every pair of policies on every seed and counts who was      *)
(* fastest how often.  Both build a simulator and run it to its end, so    *)
(* their steps are the steps of Simulator.                                 *)
(*                                                                         *)
(* The generator is a function of the seed (WorkloadGenerator) and         *)
(* external here.  Rows, seeds and configurations count from 0, as in the  *)
(* code; the floating-point means and deviations of the printed table are  *)
(* left out.                                                               *)
(***************************************************************************)
EXTENDS Report
Listing == INSTANCE SequencesExt

CONSTANTS
    SeedModulus,  \* seeds are numbers below it, 2^64 in the code
    Generators,   \* what WorkloadGenerator may be: functions of the seed
    BaseSeeds,    \* the values of --seed
    SeedCounts    \* the values of --seeds

\* A run may be asked for with any of the policies, on a node or more
\* (io/options.cpp).  A generator makes at least one job, and none that an
\* empty node could not hold (model/profiles.hpp; GeneratesWorkloads in
\* WorkloadGenerator).
ASSUME ComparisonAssumption ==
    /\ NodeCount # 0
    /\ Schedulers = SchedulerNames
    /\ QueuePolicies = QueuePolicyNames
    /\ SeedModulus \in Nat \ {0}
    /\ Generators \subseteq [0 .. SeedModulus - 1 -> Workloads \ {<<>>}]
    /\ \A g \in Generators : \A seed \in 0 .. SeedModulus - 1 : \A j \in DOMAIN g[seed] :
           CanFit(Capacity, g[seed][j].request)
    /\ BaseSeeds \subseteq 0 .. SeedModulus - 1
    /\ SeedCounts \subseteq Nat \ {0}

VARIABLES
    generate,     \* the generator
    base_seed, seeds,
    alone,        \* the run of its own: its policies, its seed, what came of it
    stage,        \* "alone", "sweep" or "table"
    i, k,         \* the configuration and the seed the sweep is at
    offered_rho,  \* offered_rho, by column
    rows          \* rows, by configuration and column

sweep     == <<generate, base_seed, seeds, alone, stage, i, k, offered_rho, rows>>
sweepVars == <<vars, sweep>>

--------------------------------------------------------------------------------
(* The configurations *)

\* scheduler_names() and queue_policy_names(): the order of the table.
SchedulerOrder == <<"first_fit", "round_robin", "least_loaded", "resource_aware">>
QueueOrder     == <<"fifo", "backfill">>

Configs == Len(SchedulerOrder) * Len(QueueOrder)

\* labels: the queue policy varies slowest.
Labels ==
    Listing!FlattenSeq(
        [q \in 1 .. Len(QueueOrder) |->
            [sc \in 1 .. Len(SchedulerOrder) |-> <<QueueOrder[q], SchedulerOrder[sc]>>]])

\* The pair of names row c is run with.
ConfigOf(c) ==
    <<QueueOrder[(c \div Len(SchedulerOrder)) + 1],
      SchedulerOrder[(c % Len(SchedulerOrder)) + 1]>>

\* A variant that draws another workload for every row.
SeedAtRow(c, column) == (base_seed + column + c) % SeedModulus

\* The seed of a cell: every row of a column has the same.
SeedAt(c, column) == (base_seed + column) % SeedModulus

--------------------------------------------------------------------------------
(* What is kept of a run *)

\* p95_or_zero.
P95OrZero(times) == IF DOMAIN times = {} THEN 0 ELSE NearestRank(times, 95)

\* RunResult, before there is one and of the simulator that has returned.
NoLoad == [d \in Dim |-> [work |-> 0, room |-> 1]]

NoResult ==
    [p95_turnaround |-> 0, p95_queue_wait |-> 0, utilization |-> NoLoad,
     censored |-> 0, backfilled |-> 0]

Cell ==
    [p95_turnaround |-> P95OrZero(TurnaroundTimes.times),
     p95_queue_wait |-> P95OrZero(QueueWaitTimes.times),
     utilization    |-> [d \in Dim |-> MeanUtilization(d)],
     censored       |-> TurnaroundTimes.skipped,
     backfilled     |-> backfilled]

\* A variant in which what the last run utilized is still there.
IntegralKept == UNCHANGED ticks /\ last_checkin' = 0

\* The integral of a new simulator.
IntegralAnew == ticks' = [d \in Dim |-> 0] /\ last_checkin' = 0

\* A simulator built from scratch, and run() up to its loop: as in Init.
Construct(w, names) ==
    /\ policy' = names[1]
    /\ scheduler' = names[2]
    /\ workload' = w
    /\ state' = [j \in DOMAIN w |-> "Queued"]
    /\ start_time' = [j \in DOMAIN w |-> kNever]
    /\ finish_time' = [j \in DOMAIN w |-> kNever]
    /\ node' = [j \in DOMAIN w |-> 0]
    /\ heap' = Seeds(w)
    /\ next_seq' = Len(w)
    /\ free' = [n \in NodeId |-> Capacity]
    /\ running_jobs' = [n \in NodeId |-> 0]
    /\ IntegralAnew
    /\ pending' = <<>>
    /\ running' = {}
    /\ now' = 0
    /\ sim_end' = kNever
    /\ backfilled' = 0
    /\ pos' = 0
    /\ pc' = "run"

--------------------------------------------------------------------------------

\* The table has its size from the start.
TableInit ==
    /\ offered_rho = [column \in 0 .. seeds - 1 |-> NoLoad]
    /\ rows = [c \in 0 .. Configs - 1 |-> [column \in 0 .. seeds - 1 |-> NoResult]]

\* main without --compare: one simulator, with the policies and the seed asked for.
SweepInit ==
    /\ generate \in Generators
    /\ base_seed \in BaseSeeds
    /\ seeds \in SeedCounts
    /\ Init
    /\ alone \in [config : {<<policy, scheduler>>}, seed : 0 .. SeedModulus - 1,
                  cell : {NoResult}]
    /\ workload = generate[alone.seed]
    /\ stage = "alone"
    /\ i = 0
    /\ k = 0
    /\ TableInit

\* sim.run(), a step at a time.
Simulate ==
    /\ pc # "returned"
    /\ Next
    /\ UNCHANGED sweep

\* report(), and then main with --compare: the first cell.
StartSweep ==
    /\ stage = "alone"
    /\ pc = "returned"
    /\ alone' = [alone EXCEPT !.cell = Cell]
    /\ stage' = "sweep"
    /\ Construct(generate[SeedAt(0, 0)], ConfigOf(0))
    /\ UNCHANGED <<generate, base_seed, seeds, i, k, offered_rho, rows>>

\* The body of the inner loop after run(): the result goes into the table.
Record ==
    /\ stage = "sweep"
    /\ pc = "returned"
    /\ rows' = [rows EXCEPT ![i][k] = Cell]
    /\ offered_rho' =
         IF i = 0 THEN [offered_rho EXCEPT ![k] = [d \in Dim |-> OfferedLoad(d)]]
                  ELSE offered_rho
    /\ UNCHANGED <<generate, base_seed, seeds, alone>>

\* The next configuration of this seed.
NextRow ==
    /\ Record
    /\ i < Configs - 1
    /\ i' = i + 1
    /\ Construct(generate[SeedAt(i + 1, k)], ConfigOf(i + 1))
    /\ UNCHANGED <<stage, k>>

\* The first configuration of the next seed.
NextColumn ==
    /\ Record
    /\ i = Configs - 1
    /\ k < seeds - 1
    /\ i' = 0
    /\ k' = k + 1
    /\ Construct(generate[SeedAt(0, k + 1)], ConfigOf(0))
    /\ UNCHANGED stage

\* Both loops are through and the table is printed.
EndSweep ==
    /\ Record
    /\ i = Configs - 1
    /\ k = seeds - 1
    /\ stage' = "table"
    /\ UNCHANGED <<vars, i, k>>

\* main has returned.
SweepReturned == stage = "table" /\ UNCHANGED sweepVars

SweepNext == Simulate \/ StartSweep \/ NextRow \/ NextColumn \/ EndSweep \/ SweepReturned

\* One thread here too.
SweepSpec == SweepInit /\ [][SweepNext]_sweepVars /\ WF_sweepVars(SweepNext)

--------------------------------------------------------------------------------
(* The printed table *)

\* A variant that lets the last of equals win.
LastFastest(column) ==
    LET f[c \in 0 .. Configs - 1] ==
            IF c = 0 THEN 0
            ELSE IF rows[c][column].p95_turnaround <= rows[f[c - 1]][column].p95_turnaround
                 THEN c
                 ELSE f[c - 1]
    IN  f[Configs - 1]

\* The inner loop of win_counts: the best row of a column.
Best(column) ==
    LET f[c \in 0 .. Configs - 1] ==
            IF c = 0 THEN 0
            ELSE IF rows[c][column].p95_turnaround < rows[f[c - 1]][column].p95_turnaround
                 THEN c
                 ELSE f[c - 1]
    IN  f[Configs - 1]

\* win_counts.
WinCounts ==
    [c \in 0 .. Configs - 1 |-> Cardinality({column \in 0 .. seeds - 1 : Best(column) = c})]

--------------------------------------------------------------------------------

\* The sweep has got to this cell.
Recorded(c, column) == stage = "table" \/ column < k \/ (column = k /\ c < i)

\* A cell of the table is what a run of its own with the policies of its label
\* and the seed of its column reports (compare.hpp, compare_test.cpp): nothing
\* of one run leaks into the next, whatever ran before it.
CellMatchesAStandaloneRun ==
    \A c \in 0 .. Configs - 1, column \in 0 .. seeds - 1 :
        ( /\ Recorded(c, column)
          /\ Labels[c + 1] = alone.config
          /\ (base_seed + column) % SeedModulus = alone.seed )
        => rows[c][column] = alone.cell

\* The policies are the only thing that varies down a column (compare.hpp):
\* whatever the pair of policies, the work its run delivered is the work that
\* was offered in row 0 of the column.
OnlyThePolicyVaries ==
    \A c \in 0 .. Configs - 1, column \in 0 .. seeds - 1 :
        Recorded(c, column) =>
            \A d \in Dim : rows[c][column].utilization[d].work = offered_rho[column][d].work

\* A seed is won by a run that finished its jobs.  A run that finishes
\* none has a p95 of zero and would win (p95_or_zero).
WinnersFinish ==
    stage = "table" => \A column \in 0 .. seeds - 1 : rows[Best(column)][column].censored = 0

\* The wins are those of the fastest row of each column, the first one of
\* equals, and add up to the seeds (win_counts).
WinsAreOfFirstFastest ==
    stage = "table" =>
        LET p95(c, column) == rows[c][column].p95_turnaround
            Wins(c) == {column \in 0 .. seeds - 1 :
                           /\ \A other \in 0 .. Configs - 1 : p95(c, column) <= p95(other, column)
                           /\ \A other \in 0 .. c - 1 : p95(c, column) < p95(other, column)}
        IN  /\ \A c \in 0 .. Configs - 1 : WinCounts[c] = Cardinality(Wins(c))
            /\ SumOver(0 .. Configs - 1, WinCounts) = seeds

\* The sweep gets through all its runs, however each of them goes: one that did
\* not return would keep the whole table from being printed.
SweepEnds == <>(stage = "table")

================================================================================
