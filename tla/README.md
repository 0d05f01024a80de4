# A TLA+ model of Atlas

Atlas is a discrete-event simulator of a datacenter: a stream of jobs arrives at
a cluster of identical nodes, a queue policy decides which waiting job runs next,
a placement policy decides on which node, and a report says what came of it.
Paths below are relative to the repository; the C++ is in `src/atlas`.

The program is one thread. Its state changes only in the handlers of an event
loop, and it draws nothing at random once the workload exists. What is hard about
it is therefore not concurrency but *order and agreement*: events that share a
tick, three records of the same fact (the event queue, the backlog and running
list, the job records) that every handler must keep in step, two policies that
decide "fits" separately, predictions made from estimates and kept with true
durations, and an end that has to be noticed exactly once. A unit test sees one
sequence of these; TLC sees all of a small size, and TLAPS all there are.

## 1. Inventory

| Component | State | Operations | Used by |
|---|---|---|---|
| Event queue (`engine/event_queue.hpp`) | heap of events, next number | `schedule`, `pop` | simulator |
| Simulator (`engine/simulator.cpp`) | clock, job records, backlog `pending_`, `running_`, `sim_end_`, `backfilled_` | `run`, `on_arrival`, `on_finish`, `on_sim_end`, `drain`, `try_place`, `rebuild_views` | main, comparison |
| Cluster, nodes (`model/cluster.hpp`, `node.hpp`) | free resources and number of jobs per node | `allocate`, `release`, totals, `can_fit` | simulator, policies |
| Placement policies (`sched/*.cpp`) | the cursor of round robin | `place` | `try_place` |
| Queue policies (`sched/fifo_queue.cpp`, `backfill.cpp`) | none | `backfill`, `shadow_time` | `drain` |
| Utilization integral (`metrics/utilization.cpp`) | last tick, core-ticks and memory-ticks | `advance`, `mean` | simulator, report |
| Report (`io/report.cpp`, `metrics/time_sample.cpp`, `offered_load.cpp`) | none | `report`, `turnaround_times`, `queue_wait_times`, `offered_load` | main, comparison |
| Percentiles (`metrics/percentiles.cpp`) | the vector it reorders | `percentiles` | report, comparison |
| Workload generator (`model/workload.hpp`, `random.hpp`, `profiles.hpp`) | the engine, the current tick | `generate` | main, comparison |
| Trace writer (`io/trace.cpp`) | the file | `write`, `job_spec`, `placement` | simulator |
| Command line (`io/options.cpp`) | the options so far | `parse_args` | main |
| Comparison sweep (`io/compare.cpp`) | the table of results | `compare_schedulers`, `report_comparison` | main |

**How they interact.** `main` parses the options, has the generator draw every job
before the clock starts, and hands jobs, cluster, both policies and the trace
writer to a simulator. `run()` schedules one arrival per job, then pops events. For
each it moves the clock, writes the trace line, advances the integral with what was
in use *until now*, and calls a handler. Arrivals and finishes change the backlog or
the cluster and call `drain()`. The first loop of `drain` starts heads until one does
not fit; the second asks the queue policy, with fresh views of backlog, nodes and
running jobs, who may go around the head. `try_place` asks the placement policy for
a node, allocates, records the start and schedules the finish. When the queue is
found empty a last event, `SimEnd`, is scheduled at the current tick.

**What is hard, and what makes each part correct.**

* *Event queue*: order by tick and, within it, by insertion, whatever the heap does
  with equal keys. Correct: it serves like a list kept in order.
* *Simulator*: a start is only ever tried right after an arrival or finish, so what
  `drain` leaves undone may wait for ever; the head is not looked at again in the second
  loop; a finished job must leave `running_` before `drain`; the run must end once, also
  with a head that fits nowhere. Correct: no job lost or held twice, no startable job
  waits between events, records written once, only a backfilled job overtakes, every
  job that can run does.
* *Cluster*: nothing leaks over any sequence of starts and finishes.
* *Placement*: round robin's cursor wraps; two policies break ties by comparing
  fractions by cross multiplication. Correct: a node that fits whenever there is one.
* *Backfill*: the reservation is made of estimates and is computed anew at every pick.
  Correct: a promise once made to a head is kept.
* *Integral and report*: the interval is credited before the load changes. Correct: the
  integral is what the job records say, and figures of one report agree.
* *Percentiles*: each `nth_element` may reorder its range. Correct: nearest-rank values.
* *Generator*: two passes over one engine. Correct: estimates shift no other draw and
  cover the durations.
* *Trace*: starts are written from inside `drain`. Correct: replaying the lines in file
  order gives the run.
* *Command line*: a flag takes what stands behind it. Correct: the outcome is that of
  reading the line as a whole, and what is accepted meets the preconditions behind it.
* *Comparison*: many simulators one after the other in one process, rows taken apart by
  division and labelled apart from that. Correct: a cell is the run of its own that its
  label and its column name, a column is one workload, the wins add up.

`PROJECT.json` lists each of these hazards at its line, and those no property covers.

## 2. Modules

```
Nodes ---- Cluster ------------------.
  \------- Placement - Backfill -----+-- Simulator -- SimulatorProperties --+-- SimulatorInvariant
EventQueue --------------------------+                                      +-- SimulatorRefinement => JobService
Utilization - (Sums) ----------------'                                      +-- Reservations
                                                                            +-- Report -- OrderStatistics
EventQueue -- TimedQueue => Agenda                                          |     \-- Comparison
Placement  -- PlacementLoops                                                +-- Trace
Backfill   -- ShadowLoop
OrderStatistics -- Percentiles       WorkloadGenerator       Options
```

The modules of theorems, each with what it is about and rests on (section 4):

```
OperatorProofs  (Sums, Placement, Backfill)
  +-- PlacementLoopProofs  (PlacementLoops)
  +-- ShadowLoopProofs     (ShadowLoop)
  +-- InputProofs          (WorkloadGenerator, Options)
  \-- SimulatorProofs      (SimulatorInvariant)
        \-- SimulatorTheorems  (SimulatorProperties, SimulatorRefinement, Reservations, TimedQueue)
              \-- OutputProofs       (Report, Trace, Percentiles)
                    \-- ComparisonProofs  (Comparison)
```

* `Nodes`, `Cluster`: resources are records of two naturals; `free` and `running_jobs`
  are functions of the node. `Allocate` and `Release` are the two methods.
* `EventQueue`: the heap is the *set* of its events; `Top(e)` says which one `pop`
  takes under `EarliestFirst`. `next_seq` is the number of the next event.
* `Placement`: what each `place()` returns, as a set of at most one node (an
  `std::optional`), with round robin's cursor `pos` as state of the simulator.
* `Backfill`: `ShadowTime` is the earliest of the predicted ends that leaves room;
  `EasyBackfill` the first job behind the head that may go around it.
* `Simulator`: the composition. `pc` is where control is: at the head of the event
  loop (`run`), of `drain`'s first loop (`drain`) or second (`backfill`), or
  `returned`. One action per step: `OnArrival`, `OnFinish`, `OnSimEnd` (each with the
  loop's `pop`, clock and integral, `Take`), `StartHead`, `BlockHead`, `BackfillJob`,
  `DrainReturns` (with the `SimEnd` it may schedule), `LoopEnds` (the queue was empty
  from the start), and `Returned`, which only keeps a finished run from being a deadlock.
  `TryPlace` is the one operator behind both starts, as in the code. Ids count from 1.
  `running_` is a set: no code depends on its order, because `shadow_time` sorts it by
  predicted end and the sort's ties change no result (`ShadowLoop` checks that).
* `SimulatorProperties`: every property of a run. `Reservations` adds what the program
  does not store: the tick each head was first promised.
* `JobService`: the abstract specification, without queue, backlog or policy.
  `SimulatorRefinement` maps the simulator to it. `Agenda` is the abstract queue,
  a list kept in order; `TimedQueue` uses the queue in every way there is.
* `PlacementLoops`, `ShadowLoop`: the loops the code really runs, one iteration
  a step, with their `break`s, sorted copies and running minima, shown to return what
  `Placement` and `Backfill` say.
* `Report`, `Trace`: composed with the simulator. A fraction is the pair of its terms,
  a trace line the record of its fields. The terms have the width of the code (`Width`,
  2^64 there); the sums they are read from are exact, and reduced where they are read.
* `Comparison`: `main` and `compare_schedulers`, on top of `Report`. A run of its own with
  the policies and the seed of a command line goes first, and its figures are kept; then
  the sweep, cell by cell. Building a simulator (`Construct`) resets what `Init` sets,
  running it takes the simulator's own steps (`Simulate`), and `Record` is what the inner loop
  does with a simulator that has returned. `Best` and `WinCounts` are `win_counts`.
* `Percentiles`: `nth_element` is external and modelled by its contract: any
  reordering that keeps the promise.
* `WorkloadGenerator`: the engine is external: a draw is any word of a few bits. A double
  is a fraction with a fixed denominator, and `Exponential` and `Estimate` cut it down
  to a whole tick as the conversions do. A tick has a width here: `ToTick` of a double that
  no tick holds is the least or the largest, since that conversion is undefined, and
  `cur_tick` wraps.
* `Options`: an argument is a member of a small set; what `from_chars` makes of it is
  a table, and a double one of the classes the code tells apart.
* `Sums`, `OrderStatistics`: small helpers. `MC...` modules hold the instances for TLC;
  `MCJobs` and `MCRuns` the job shapes and workloads several of them share.

Some modules hold, before a definition, a *variant* of it (`CanFitCores`,
`YoungestFirst`, `AdmissibleEarlier`, ...): the form it would have with a plausible bug.
No specification uses one. Put in the definition's place it makes one property fail,
which shows that the property depends on the code and not on the shape of the model;
`PROJECT.json` lists the pairs.

## 3. Runs

| Run | Instance | Question |
|---|---|---|
| `simulator` | ~1,920,000 states: up to 4 jobs of 6 shapes, 5 jobs of 5, 2 nodes, 4 x 2 policies | All safety properties of a run; does a head start by the tick it was promised? |
| `refinement` | ~97,000 states: 4 jobs of 4 shapes | Does it implement `JobService`, return, and finish every job that can run? |
| `report` | ~233,000 states: 4 jobs of 5 shapes | Do the figures of a report agree, and can the trace be replayed? |
| `comparison` | ~237,000 states: 5 workloads of up to 5 jobs, 1 or 2 seeds, 8 configurations | Is a cell the run it says it is, and who wins? |
| `placement_loops` | ~258,000 states: 3 nodes, every free level and cursor | Do the `place()` loops keep the scheduler contract? |
| `shadow_loop` | ~90,000 states: every feasible set of 3 running jobs on 2 nodes | Does the sort-and-scan find the earliest tick? |
| `event_queue` | ~31,000 states: 5 events at 3 ticks | Is it a list kept in order? |
| `percentiles` | ~59,000 states: samples of 6 values of 3 ticks | Do nested `nth_element`s leave the right values? |
| `workload` | ~557,000 states: 2 jobs, words of 2 bits, the 4 profiles, 2 gaps, 3 paddings, ticks up to 127 | Is a generated workload what the simulator assumes? |
| `options` | ~55,000 states: every line of up to 4 of 12 arguments | Is a command line read as a whole? |
| `options_rate` | the same | Does the validation protect the generator? It does not (section 6) |
| `report_width` | terms of 4 bits | Does the reported mean survive a long run? It does not (section 6) |

**Bounds and why they are enough.** Two nodes are the least with a choice of node and
with a node that fits beside one that does not; three in `placement_loops` let a
cursor wrap past the middle. Four jobs are the least that make the head block
*and* another go around it on two nodes: with three, nothing is ever backfilled, which is
why the instances have four. Five, with the padded shapes of `simulator`, let a job go
around a head that already has a promise while a third finishes before its estimate. The shapes are core-heavy,
memory-heavy, whole-node, of zero length, over-claimed, and too large for any node, so
that heads block in one dimension only, starts and ends share a tick, and runs wedge;
`refinement` and `report` take fewer of them to stay small. Half of
the jobs come at tick 0 and the others at tick 0 or 1, so that arrivals tie with one
another and with finishes. Nothing is symmetric: nodes are ordered by index and jobs
by id. `percentiles` runs the code's 50, 95 and 99 and two other triples, because ranks 95
and 99 coincide in a sample this small; the ranks of all three differ in those. The
generator's words have two bits, so the smallest and the largest uniform occur in every place;
with ticks up to 127 some means and paddings fit and others pass the end, in a draw and in a
sum. `report` has terms wide enough for every run of the instance (`Width` 1024), `report_width`
not. The five workloads of `comparison` are such that the policies lead to different runs; a
generator gives each of the two seeds one of them, and the base seed is the larger one, so that
the seeds of a sweep wrap.

**Deadlock** is checked wherever the modelled thing goes on (a finished run or sweep
stutters by an action of its own); `TimedQueue`, `Percentiles`,
`WorkloadGenerator` and `Options` are functions that return, or a queue at its bound,
and their configurations say so.

**What the properties say**, beyond the type invariant:

* `JobAccounting`: each job is in exactly one of: waiting for its arrival event, one place
  in the backlog, running with exactly one finish event due, done.
* `Conservation`, `UtilizationExact`: node by node, free plus held is the capacity; the
  integral fed from cluster totals is what job records add up to.
* `ClockNeverBehind`, `PickIsPlaceable`: the asserts of `run` and `drain`.
* `NothingStartableWaits`: the fixed point `drain` must reach, although its second loop
  never looks at the head again.
* `OvertakingIsBackfilling`: nothing but a counted backfill starts before an earlier arrival.
* `Deterministic`: no step leaves a choice.
* `WedgedOnlyByUnsatisfiableHead`, `SimEndIsMakespan`: how runs end.
* `RecordsWrittenOnce`, `ReservationNeverRecedes`: what no step may do.
* `ReservationHonoured`: "the head starts no later than its reservation"
  (`sched/backfill.hpp`), from the first promise to the start, whatever happens between.
* `ImplementsJobService`, `ImplementsAgenda`: the refinements.
* `Terminates`, `SatisfiableJobsFinish`: liveness.
* `CensoredAlike`, `WaitWithinTurnaround`, `UtilizationIsFraction`, `OfferedIsDelivered`:
  figures of the report against one another. The last compares a sum over time
  with a sum over jobs.
* `EmptySpanIsInstantRun`: which runs trip the assert of `mean`, and that no other does.
* `CellMatchesAStandaloneRun`: whatever ran before it, a cell is the report of the run that main
  makes of the same policies and seed. `OnlyThePolicyVaries`: down a column, each run delivers
  what row 0 was offered. `WinnersFinish`: a run that finishes nothing has a p95 of zero, and
  does not win. `WinsAreOfFirstFastest`: the fold of `win_counts` against a definition of
  the winner, and the wins add up to the seeds. `SweepEnds`: the table gets printed.
* `TraceTellsRecords`, `FileOrderIsTimeOrder`, `TraceReplays`: the file against the records.
* `LoopsSelect`, `PlaceContract`, `LoopFindsShadowTime`, `NeverMeansUnsatisfiable`,
  `ReadsPercentiles`, `GeneratesWorkloads`, `PaddingShiftsNothing`, `LastOccurrenceWins`,
  `FirstProblemDecides`: a loop or a pass against its definition. `GeneratesWorkloads` asks
  for ordered submit times and covering estimates only under `ArgumentsFit`, which nothing in
  the code checks (section 6).

**Fairness.** `Simulator` and `Trace` assume `WF_vars(Next)` and `Comparison`
`WF_sweepVars(SweepNext)`: the program is one thread that takes its next step; no step waits for anything outside. Nothing stronger is
assumed of any single action.

## 4. Proofs

TLC settles the small instances of section 3, TLAPS every instance: any number of nodes,
any capacity, any workload, every choice of policies, any sample, any command line. The assumptions are those the modules name:

* `SimulatorAssumption`: an estimate covers its duration (`model/job.hpp`), and policies are among
  those the factories know. Submit times may come in any order. `NodesAssumption`,
  `NeverAssumption`: a capacity is a bundle, and `kNever` is no tick.
* `LoopsAssumption`: what `place()` is called with is a bundle, and a node has never more free than it
  was built with; that is `Conservation`, proved of the simulator.
* `ShadowAssumption`: there is a node, and what `shadow_time` is called with are bundles, numbers and jobs with
  ids of their own that fit together on their nodes: `Conservation` again.
* `GeneratorAssumption`: the words, the table of the logarithm and the profiles are what
  `random.hpp` and `profiles.hpp` hold. A job of any profile fits an empty default node.
* `WidthAssumption`: a report is of some width.
* `PercentilesAssumption`: a tick is a number, and the percentages rise from above zero to at most 100;
  the code's are 50, 95 and 99.
* `OptionsAssumption`: the null pointer and the value of what does not parse are no arguments.
* `TimedQueueAssumption`: a tick is unsigned, and the bound on the events is a number.
* `ComparisonAssumption`: there is a node, every policy of the table is known, and a generator makes
  a job or more, each of which fits an empty node; `WorkloadsAreSound` says that of the real one.

| Theorem | States | In |
|---|---|---|
| `Invariance`, `HistoryKept` | `[]IInv`, `[]HistoryInv`, the two inductive invariants | `SimulatorTheorems` |
| `TypeCorrect` | `[]TypeOK` | |
| `ResourcesConserved` | `[]Conservation` | |
| `ClockMonotone` | `[]ClockNeverBehind` | |
| `JobsAccountedFor` | `[]JobAccounting` | |
| `PickAlwaysPlaceable` | `[]PickIsPlaceable` | |
| `OnlyUnsatisfiableHeadsWedge` | `[]WedgedOnlyByUnsatisfiableHead` | |
| `DrainIsComplete` | `[]NothingStartableWaits` | |
| `RecordsKept` | `RecordsWrittenOnce` | |
| `EndIsMakespan` | `[]SimEndIsMakespan` | |
| `OnlyBackfillingOvertakes` | `[]OvertakingIsBackfilling` | |
| `NothingLeftToChance` | `[]Deterministic` | |
| `SimulatorImplementsService` | the safety part of `ImplementsJobService` | |
| `ReservationsStand` | `ReservationNeverRecedes` | |
| `HeadsStartInTime` | `[]ReservationHonoured` | |
| `RunsAreShort` | every step lowers `StepsLeft`, a number that starts at 7n + 1 for n jobs | |
| `RunsRepeat` | two runs of one workload under one pair of policies end in the same state | |
| `QueueImplementsAgenda` | `ImplementsAgenda`, all of it | |
| `IntegralExact` | `[]UtilizationExact` | `OutputProofs` |
| `UtilizationAtMostOne` | `[]UtilizationIsFraction` | |
| `SamplesCensorAlike` | `[]CensoredAlike` | |
| `WorkDelivered` | `[]OfferedIsDelivered` | |
| `EmptySpanOnlyOfInstantRuns` | `[]EmptySpanIsInstantRun` | |
| `PercentilesOrdered` | `[]WaitWithinTurnaround` | |
| `ReadsNearestRanks` | `[]ReadsPercentiles` | |
| `TraceKeepsTheRecords` | `[]TraceTellsRecords` | |
| `FileOrderKept` | `[]FileOrderIsTimeOrder` | |
| `TraceCanBeReplayed` | `[]TraceReplays` | |
| `PlacementContract`, `PlacementUnique` | what every `place()` returns, and that it has no choice | `OperatorProofs` |
| `BackfillContract`, `BackfillUnique` | the same of `backfill()` | |
| `LoopsSelectTheNode`, `LoopsKeepContract` | `[]LoopsSelect`, `[]PlaceContract` | `PlacementLoopProofs` |
| `ScanFindsShadowTime` | `[]LoopFindsShadowTime` | `ShadowLoopProofs` |
| `NothingOnlyForTooLarge` | `[]NeverMeansUnsatisfiable` | |
| `PaddingIsSilent`, `WorkloadsAreSound` | `[]PaddingShiftsNothing`, `[]GeneratesWorkloads` | `InputProofs` |
| `LastFlagWins`, `FirstStopDecides` | `[]LastOccurrenceWins`, `[]FirstProblemDecides` | |
| `ColumnsAreComparable` | `[]OnlyThePolicyVaries` | `ComparisonProofs` |
| `WinnersFinishTheirJobs` | `[]WinnersFinish` | |
| `WinsAddUp` | `[]WinsAreOfFirstFastest` | |
| `CellsAreRunsOfTheirOwn` | `[]CellMatchesAStandaloneRun` | |

**The present: `IInv`** (`SimulatorInvariant`). None of the properties of a state is
inductive alone: that a finish releases what was taken needs the finish event
to name the node of the job's record, which needs that the job is running, which needs that
it has only one finish event, which needs that events have different numbers; that the
clock never goes back needs that the queue holds no event behind it. `IInv` says this event by
event (`EventsAgree`, `EventsDiffer`, `JobsAwaited`) where the properties count,
together with `BacklogInv`, `RunningInv`, `RecordsInv`, and `ControlInv`, which carries
"the head is blocked" from the end of `drain`'s first loop through every backfill, where
resources only shrink, to the next event. `SimulatorProofs` has a lemma per action, and one step per
conjunct an action disturbs; the sums behind `Conservation` rest on the lemmas of `OperatorProofs`.
`DrainIsComplete` is proved on top of `IInv`, since it also speaks of the reservation.

**The past: `HistoryInv`.** How a run ends and who overtook whom is not in `IInv`. `HistoryInv` says
that arrival events are numbered by job, that jobs arrive, and stand in the backlog, in arrival order
(`OrderInv`), that records tell times in their order and none after the clock (`TimesInv`), and
that the clock stands at an arrival or a finish (`EndInv`). It is proved from what a step *amounts to*
(`StepEffect`: a job arrives, one finishes, the run is closed, one starts, or no record changes), which the proofs
about reservations and outputs use again in the place of a case for every action.

**Refinement.** An awaited job of the simulator is one `JobService` has not been given. A step of the event
loop maps to an arrival, a finish or the service's closing, a start of either loop of `drain` to a
start, and all else stutters. The fairness of `ImplementsJobService` stays with TLC.

**The promise.** What a node will have free at a tick, by the estimates, only grows with the tick, and
the shadow time is the least tick by which some node is predicted to have room for the head. That
prediction is never taken away: an arrival does not touch it, a finish comes no later than its estimate and
so gives room the prediction had counted already, and what a backfilled start takes it is predicted to have
given back by the shadow time, which is what `Admissible` asks. So the reservation never recedes
(`ReservationsStand`). A running job's finish event stands no later than its estimate, so that as
long as the head waits for its shadow time the clock is not past it; `PromiseInv` puts this
together with the promise made first (`HeadsStartInTime`).

**The integral.** `UtilizationExact` compares a sum over time, fed with cluster totals, to a sum over jobs.
Between two advances every running job adds its request times the interval (`Load`), nothing else does, and a
start or a finish changes the load at a point where the interval since the last advance is empty. The totals
are turned from sums over nodes to sums over jobs by splitting the running jobs by node (`SumPartition`).
`UtilizationAtMostOne` then bounds each advance by the capacity of all nodes, and `WorkDelivered`
has every job held for its duration. `PercentilesOrdered` counts: if at most `u` is so
many of the turnarounds, so many waits are; a nearest rank is the least such `u` that covers enough.

**The trace.** `StoryInv` says of each job which lines the file holds, with their fields, and in which
order; `LateInv` that no line is later than the clock and none that carries an event's number comes after
an event still queued; `ReplayInv` that what any prefix of the file leaves on a node fits it. Appending
changes no prefix, and the whole file leaves on a node the jobs that run there, so that `ReplayInv` follows
from `Conservation` in the state in which a line is written.

**Loops against definitions.** `PlacementContract` rests on a finite set of nodes having a best one under a
cross-multiplied fraction (a total preorder, since capacities are positive). `LoopInv` says that `best`
is the best of the nodes looked at so far; for round robin, that all of them had no room, the cursor's
positions being counted from the start modulo the nodes. `shadow_time`'s invariant says that `best` is the
least of the ends at which the nodes passed have room, and, inside a node, that the jobs already handed
back come first in the sort and do not make room yet: so the first that does is the least end of this node, since
whoever has ended at an earlier tick is among them. `InputProofs` carries the two passes of the generator:
three words to a job, one to an estimate, and `cur_tick` below the sum of the longest gaps drawn so far,
which is where `ArgumentsFit` makes the wrap of a tick impossible.

**Percentiles.** A call of `nth_element` rearranges a prefix, so that for every value there are, in the
whole and in that prefix, as many elements within it as before. A call on a prefix that ends where the last
one put its element keeps everything in front of that place at most that element: what is larger would have come
from behind it. So each place, once in order, stays a nearest rank of the sample while the prefixes in
front of it are rearranged (`SampleInv`), and the least value that so many elements are within is the one read.

**The command line.** `FlagPositions`, the places a flag is looked for, is defined by the runs of value flags
in front of a place; `ParseInv` says that the walk visits just these, since behind a flag that takes a value the
walk goes on two places further and the run of the place between has odd length. Up to where it stands each
option has what its last flag there gave, and no place it has passed stops it.

**The agenda.** An event's place in the list is the number of events before it in the heap, plus one. No two
events have as many, since numbers differ, and by the pigeonhole principle (`NumbersAllTaken`) every place is
taken (`PlacesAreFilled`), so that `AgendaOf` is the heap in order. Scheduling leaves the places of what is due
no later and moves the others by one, popping moves all by one.

**The sweep.** A step of `Comparison` is a step of the simulator or builds the next one, and `Construct`
leaves what `Init` asks for: so the simulator's own invariants hold from one cell to the next
(`RunStarts`, `RunKept`). When a simulator has returned, its backlog is empty, since only a job too large for a
node can wedge it; so its cell has no censored job and delivers the work that was drawn (`CellFacts`, from
`WorkDelivered`'s and `SamplesCensorAlike`'s lemmas). `SweepInv` adds where the sweep is and that each cell it has passed says so.
`Best` is a recursive function: that one exists is shown by a least row up to which none does
(`FoldExists`), and that it finds the first fastest row by a least row at which it has not. The wins add up
because each column is won by one row (`SumPartition`).

**One run, one outcome.** `Deterministic` says that no step of one run leaves a choice; a sweep needs the same of
*two* runs. A moment is the state of the simulator kept as a record, and `Follows` what may come after it,
branch by branch of the event loop; each moment is followed by one at most (`FollowsOnce`: the top of the
queue, the node and the pick are unique, by `PlacementUnique` and `BackfillUnique`), and by none once it has returned. Two lists of
moments with one start therefore agree as far as both go, and if both have returned they end alike (`OneEnd`).
`RerunInv` says that the simulator is on the run that starts from the sweep's current workload and
policies, and that each cell holds the outcome of the run of its label and seed. So `CellMatchesAStandaloneRun`
compares two runs of one start. It would be false of a simulator that keeps anything from the run before, which is
what its mutant does.

**How long a run is.** `StepsLeft` counts what the queue and the backlog may still lead to, and where the loop
stands. That each step lowers it needs that an event taken or scheduled is one event (`EventsDiffer`), that a
pick is placed (`PickIsPlaceable`: a start leaves the backlog for one finish event) and that the backlog loses one
place. No run checks this: it is the safety part of `Terminates`, which `refinement` does. The
rest of `Terminates` is that the thread goes on.

**Only model-checked.**
* Liveness (`Terminates`, `SatisfiableJobsFinish`, `SweepEnds`, and the fairness in `ImplementsJobService`):
  out of the prover's reach. Every other property of a passing run is a theorem.

## 5. Plan

Order of work: the simulator with its queue, cluster and policies first, since every
figure Atlas prints comes out of it; then what it promises abstractly; then the parts around it.

1. Done: `Simulator` and what it is composed of; `JobService`, `Agenda`, `Reservations`; the loops
   behind the policies; `Report`, `Trace`, `Percentiles`, `WorkloadGenerator`, `Options`; the
   sweep and `main` (`Comparison`); the widths of ticks in `WorkloadGenerator` and of products in
   `Report`. Proved: everything of section 4's table.
2. Left with TLC: liveness.
3. Not planned: what section 7 lists.

## 6. Findings

* **`--rate inf` is accepted** (`io/options.cpp:134`). `inf > 0.0` holds, so the
  validation passes it; the mean gap is then `1 / inf * kSecond`, zero, and `next_exponential`
  asserts that it is not (`model/random.hpp:38`, precondition at line 36). The check is
  there, by its comment, so that such a rate prints usage and does not trip an assert. Run
  `options_rate` shows the two-argument command line; the program built with asserts aborts on it.
* **The mean utilization wraps** (`metrics/utilization.cpp:19`). `end * capacity` is a product of
  64 bits; `metrics/utilization.hpp:31` promises the mean fraction in use, and the comment at line 22
  asks about overflow. The asserts at lines 20 and 21 (`MeanAsserts`) stop the program only when a product wraps
  to exactly zero; `MeanIsExact` is about the runs they let through. Run `report_width` finds one at a
  width of 4 bits: it ends at tick 3 on 8 cores, the product 24 becomes 8, and 6 core-ticks
  are reported as three quarters of the cores where a quarter was in use. In the code memory goes
  first: the default cluster of eight nodes has 2^19 megabytes, and a microsecond is a tick, so that
  the product wraps after 2^45 ticks, about 400 days of simulated time. The built program with `--rate 1e-6 --jobs 2000` reports a
  memory utilization of 0.0729 where the jobs use about 0.00002 of the memory.

Remarks without a run. The first three were seen in the built program:

* `--padding 1e13` makes estimates too large for a `Tick`; they come out as 0, below the duration, where
  `model/job.hpp:21` says "always >= duration". `--rate 1e-13 --jobs 50` makes submit times wrap, where
  `model/workload.hpp:31` says "non-decreasing submit_time". Both are what `ArgumentsFit` excludes in
  `GeneratesWorkloads`, and the validation of the options does not.
* `--jobs 1 --rate 1e9 --seed 371143309` draws one job of no length at tick zero and aborts on
  `assert(end > 0)` (`metrics/utilization.cpp:17`). `EmptySpanIsInstantRun` says that only such runs do.
* `metrics/percentiles.cpp:28` says three full-range calls of `nth_element`
  would also be correct. Its contract does not give that: a later call may move what an earlier
  one put in place (variant `IsolateP95Whole`). The code does the nested form, which is right.
* `--padding inf` is accepted, and the header line of a trace would then hold `inf`, which is not JSON
  (`io/trace.hpp:14`: "one JSON object per line"). Read in the code only.
* `io/compare.cpp:22` says the censored count is reported beside a p95 of zero; the printed table has no
  such column. The mean number of backfilled jobs is an integer division, so a few over many seeds print 0.

## 7. What is not modelled

* The floating-point statistics of `report_comparison` (means, deviations, paired differences), and
  every division and conversion to seconds of the report.
* Widths other than those of ticks in the generator and of products in the report. `Conservation`
  excludes a wrap of node resources. The 32-bit total of cores wraps at 2^28 nodes, and
  `now + estimated_duration` (`sched/backfill.cpp:76`) for claims within a run's length of 2^64.
* What `std::format` makes of a number that is infinite.
* Buffering and failing writes of the trace file: the writer ignores them, and a file that does not open makes
  every call return at once, which is the simulator without a trace.
* Wording and layout of usage, messages, report and JSON.
* Tests, golden hashes and the build, which are read for what they expect of the code.
