---------------------------- MODULE ComparisonProofs ----------------------------
(***************************************************************************)
(* Theorems about the sweep of compare_schedulers and the wins it counts.  *)
(* A simulator of the sweep is built as Init says and takes the steps of   *)
(* Simulator, so the invariants of SimulatorProofs hold from cell to cell, *)
(* and since a run is a function of its start, a cell tells the outcome of *)
(* any other run with its policies and seed.                               *)
(***************************************************************************)
EXTENDS Comparison, OutputProofs

--------------------------------------------------------------------------------
(* The configurations *)

Rows == 0 .. Configs - 1

LEMMA ConfigNames ==
    /\ Configs \in Nat \ {0} /\ 0 \in Rows /\ Configs - 1 \in Rows
    /\ \A c \in Rows : ConfigOf(c)[1] \in QueuePolicies /\ ConfigOf(c)[2] \in Schedulers
<1>1. Len(SchedulerOrder) = 4 /\ Len(QueueOrder) = 2
  BY DEF SchedulerOrder, QueueOrder
<1>2. Configs = 8
  BY <1>1 DEF Configs
<1>3. ASSUME NEW c \in Rows
      PROVE  ConfigOf(c)[1] \in QueuePolicies /\ ConfigOf(c)[2] \in Schedulers
  <2>1. (c \div 4) + 1 \in 1 .. 2 /\ (c % 4) + 1 \in 1 .. 4
    BY <1>2 DEF Rows
  <2>2. \A q \in 1 .. 2 : QueueOrder[q] \in QueuePolicies
    BY ComparisonAssumption DEF QueueOrder, QueuePolicyNames
  <2>3. \A s \in 1 .. 4 : SchedulerOrder[s] \in Schedulers
    BY ComparisonAssumption DEF SchedulerOrder, SchedulerNames
  <2>4. ConfigOf(c) = <<QueueOrder[(c \div 4) + 1], SchedulerOrder[(c % 4) + 1]>>
    BY <1>1 DEF ConfigOf
  <2>. QED  BY <2>1, <2>2, <2>3, <2>4
<1>. QED  BY <1>2, <1>3 DEF Rows

--------------------------------------------------------------------------------
(* The winner of a column *)

\* What the inner loop of win_counts makes of one more row.
Faster(r, column, best, c) ==
    IF r[c][column].p95_turnaround < r[best][column].p95_turnaround THEN c ELSE best

\* What the loop has found by each row: the function that Best describes by
\* recursion.
Folds(n, r, column) ==
    {f \in [0 .. n -> Nat] :
        \A c \in 0 .. n : f[c] = IF c = 0 THEN 0 ELSE Faster(r, column, f[c - 1], c)}

LEMMA FoldExists ==
    ASSUME NEW n \in Nat, NEW r, NEW column
    PROVE  Folds(n, r, column) # {}
<1>. DEFINE Fold(f, m) == /\ f \in [0 .. m -> Nat]
                          /\ \A c \in 0 .. m :
                                f[c] = IF c = 0 THEN 0 ELSE Faster(r, column, f[c - 1], c)
            Bad == {m \in Nat : ~ \E f : Fold(f, m)}
<1>1. SUFFICES ASSUME n \in Bad PROVE FALSE
  BY DEF Folds
<1>2. PICK m \in Bad : \A x \in Bad : m <= x
  <2>1. Bad \subseteq Nat /\ Bad # {}
    BY <1>1
  <2>. HIDE DEF Bad
  <2>. QED  BY <2>1, LeastNat
<1>3. m # 0
  <2>. DEFINE f == [c \in 0 .. 0 |-> 0]
  <2>1. Fold(f, 0)
    OBVIOUS
  <2>. HIDE DEF Fold
  <2>. QED  BY <1>2, <2>1
<1>4. PICK f : Fold(f, m - 1)
  <2>. HIDE DEF Fold
  <2>1. m - 1 \in Nat /\ ~ (m <= m - 1)
    BY <1>2, <1>3
  <2>. QED  BY <1>2, <2>1
<1>. DEFINE g == [c \in 0 .. m |-> IF c = m THEN Faster(r, column, f[m - 1], m) ELSE f[c]]
<1>5. m \in Nat /\ m - 1 \in Nat
  BY <1>2, <1>3
<1>6. ASSUME NEW c \in 0 .. m
      PROVE  g[c] = IF c = 0 THEN 0 ELSE Faster(r, column, g[c - 1], c)
  <2>1. c # 0 => g[c - 1] = f[c - 1]
    BY <1>5
  <2>2. CASE c = m
    BY <1>3, <1>5, <2>1, <2>2
  <2>3. CASE c # m
    <3>1. c \in 0 .. m - 1 /\ g[c] = f[c]
      BY <1>5, <2>3
    <3>. HIDE DEF g
    <3>2. f[c] = IF c = 0 THEN 0 ELSE Faster(r, column, f[c - 1], c)
      BY <1>4, <3>1
    <3>. QED  BY <2>1, <3>1, <3>2
  <2>. QED  BY <2>2, <2>3
<1>7. Fold(g, m)
  <2>1. g \in [0 .. m -> Nat]
    BY <1>3, <1>4, <1>5 DEF Faster
  <2>. HIDE DEF g
  <2>. QED  BY <1>6, <2>1
<1>. HIDE DEF Fold, g
<1>. QED  BY <1>2, <1>7

\* The winner of a column is the first of its fastest rows.
LEMMA BestIsFirstFastest ==
    ASSUME NEW column, \A c \in Rows : rows[c][column].p95_turnaround \in Nat
    PROVE  /\ Best(column) \in Rows
           /\ \A c \in Rows :
                /\ rows[Best(column)][column].p95_turnaround <= rows[c][column].p95_turnaround
                /\ c < Best(column) =>
                    rows[Best(column)][column].p95_turnaround < rows[c][column].p95_turnaround
<1>1. Configs - 1 \in Nat /\ Rows = 0 .. Configs - 1
  BY ConfigNames DEF Rows
<1>. DEFINE Fold(f) ==
        f = [c \in Rows |-> IF c = 0 THEN 0 ELSE Faster(rows, column, f[c - 1], c)]
            f == CHOOSE f_1 : Fold(f_1)
            p == [c \in Rows |-> rows[c][column].p95_turnaround]
<1>2. PICK g \in [Rows -> Nat] :
        \A c \in Rows : g[c] = IF c = 0 THEN 0 ELSE Faster(rows, column, g[c - 1], c)
  <2>1. Folds(Configs - 1, rows, column) # {}
    BY <1>1, FoldExists
  <2>. QED  BY <1>1, <2>1 DEF Folds
<1>3. Fold(f)
  <2>1. Fold(g)
    BY <1>2
  <2>. HIDE DEF Fold
  <2>. QED  BY <2>1
<1>4. Best(column) = f[Configs - 1]
  BY <1>1, Zenon DEF Best, Faster
<1>. HIDE DEF f
<1>5. /\ f[0] = 0
      /\ \A c \in Rows : c # 0 => f[c] = Faster(rows, column, f[c - 1], c)
  BY <1>1, <1>3
<1>. HIDE DEF Fold
<1>. DEFINE Best1(c) == /\ f[c] \in 0 .. c
                        /\ \A x \in 0 .. c : p[f[c]] <= p[x] /\ (x < f[c] => p[f[c]] < p[x])
            Bad == {c \in Rows : ~ Best1(c)}
<1>6. \A c \in Rows : p[c] \in Nat /\ p[c] = rows[c][column].p95_turnaround
  OBVIOUS
<1>. HIDE DEF p
<1>7. ASSUME Bad # {} PROVE FALSE
  <2>1. PICK c \in Bad : \A x \in Bad : c <= x
    <3>1. Bad \subseteq Nat
      BY <1>1
    <3>. HIDE DEF Bad
    <3>. QED  BY <1>7, <3>1, LeastNat
  <2>2. c # 0
    <3>1. Best1(0)
      BY <1>1, <1>5, <1>6
    <3>. HIDE DEF Best1
    <3>. QED  BY <2>1, <3>1
  <2>3. c \in Nat /\ c - 1 \in Rows /\ Best1(c - 1)
    <3>. HIDE DEF Best1
    <3>1. c - 1 \in Rows /\ ~ (c <= c - 1) /\ c \in Nat
      BY <1>1, <2>1, <2>2
    <3>. QED  BY <2>1, <3>1
  <2>4. f[c] = IF p[c] < p[f[c - 1]] THEN c ELSE f[c - 1]
    <3>1. f[c - 1] \in Rows
      BY <1>1, <2>1, <2>3
    <3>. QED  BY <1>5, <1>6, <2>1, <2>2, <3>1 DEF Faster
  <2>5. Best1(c)
    <3>1. \A x \in 0 .. c : x = c \/ x \in 0 .. c - 1
      BY <2>3
    <3>2. c \in Rows /\ \A x \in 0 .. c : x \in Rows
      BY <1>1, <2>1
    <3>3. p[c] \in Nat /\ p[f[c - 1]] \in Nat /\ \A x \in 0 .. c : p[x] \in Nat /\ x \in Nat
      BY <1>1, <1>6, <2>3, <3>2
    <3>4. /\ f[c - 1] \in 0 .. c - 1
          /\ \A x \in 0 .. c - 1 :
                p[f[c - 1]] <= p[x] /\ (x < f[c - 1] => p[f[c - 1]] < p[x])
      BY <2>3
    <3>5. CASE p[c] < p[f[c - 1]]
      BY <2>3, <2>4, <3>1, <3>3, <3>4, <3>5
    <3>6. CASE ~ (p[c] < p[f[c - 1]])
      BY <2>3, <2>4, <3>1, <3>3, <3>4, <3>6
    <3>. QED  BY <3>5, <3>6
  <2>. HIDE DEF Best1
  <2>. QED  BY <2>1, <2>5
<1>8. Best1(Configs - 1)
  <2>. HIDE DEF Best1
  <2>. QED  BY <1>7, ConfigNames
<1>. QED  BY <1>1, <1>4, <1>6, <1>8

--------------------------------------------------------------------------------
(* The simulator of a cell *)

\* What is known of every simulator at every step.
RunInv == IInv /\ HistoryInv /\ UtilizationExact

LEMMA RunStarts == Init => RunInv
  BY InitInv, InitHistory, ExactKept DEF RunInv

LEMMA RunStartsPrimed == Init' => RunInv'
<1>1. Init => RunInv
  BY RunStarts
<1>. QED  BY <1>1, PTL

LEMMA RunKept == RunInv /\ [Next]_vars => RunInv'
  BY NextPreserves, HistoryPreserved, ExactKept DEF RunInv

\* A simulator that is built is one that may start.
LEMMA ConstructStarts ==
    ASSUME NEW w \in Workloads, NEW c \in Rows, Construct(w, ConfigOf(c))
    PROVE  RunInv' /\ workload' = w
<1>1. ConfigOf(c)[1] \in QueuePolicies /\ ConfigOf(c)[2] \in Schedulers
  BY ConfigNames
<1>2. Init'
  BY <1>1 DEF Construct, Init, IntegralAnew, ClusterInit, UtilizationInit, JobId
<1>. QED  BY <1>2, RunStartsPrimed DEF Construct

\* A workload of the generator: not empty, and no job too large for a node.
Feasible(w) ==
    /\ w \in Workloads \ {<<>>}
    /\ \A j \in DOMAIN w : CanFit(Capacity, w[j].request)

\* The work of a workload, as a report prints it.
WorkOf(w, d) == SumOver(DOMAIN w, [j \in DOMAIN w |-> w[j].duration * w[j].request[d]]) % Width

\* What a cell says of a run that is over: the work delivered and offered is
\* that of the workload, no job is censored, and the percentile is a number.
LEMMA CellFacts ==
    ASSUME RunInv, Feasible(workload), pc = "returned"
    PROVE  /\ \A d \in Dim : Cell.utilization[d].work = WorkOf(workload, d)
           /\ \A d \in Dim : OfferedLoad(d).work = WorkOf(workload, d)
           /\ Cell.censored = 0
           /\ Cell.p95_turnaround \in Nat
<1>1. pending = <<>>
  <2>1. ASSUME pending # <<>> PROVE FALSE
    <3>1. ~ \E n \in NodeId : CanFit(Capacity, Request(Head(pending)))
      BY <2>1, WedgedByHead DEF RunInv, WedgedOnlyByUnsatisfiableHead
    <3>2. 0 \in NodeId
      BY NodesAssumption, ComparisonAssumption DEF NodeId
    <3>3. Head(pending) \in JobId
      BY <2>1 DEF RunInv, IInv, TypeOK
    <3>. QED  BY <3>1, <3>2, <3>3 DEF Feasible, JobId, Request
  <2>. QED  BY <2>1
<1>2. Reports
  BY DEF Reports, Feasible
<1>3. \A d \in Dim : OfferedLoad(d).work = WorkOf(workload, d)
  BY DEF OfferedLoad, OfferedWork, WorkOf, JobId, Request
<1>4. \A d \in Dim : MeanUtilization(d).work = OfferedLoad(d).work
  BY <1>1, <1>2, DeliveredAtReturn DEF RunInv, OfferedIsDelivered
<1>5. TurnaroundTimes.skipped = 0
  BY <1>1, <1>2, CensoredOfBacklog DEF RunInv, CensoredAlike
<1>6. P95OrZero(TurnaroundTimes.times) \in Nat
  <2>. DEFINE Done == {j \in JobId : state[j] = "Done"}
              f == TurnaroundTimes.times
  <2>1. f = [j \in Done |-> finish_time[j] - workload[j].submit_time]
    BY DEF TurnaroundTimes
  <2>2. ASSUME NEW j \in Done
        PROVE  f[j] \in Nat
    <3>1. /\ workload[j].submit_time \in Nat /\ start_time[j] \in Nat
          /\ workload[j].duration \in Nat
          /\ workload[j].submit_time <= start_time[j]
          /\ finish_time[j] = start_time[j] + workload[j].duration
      BY JobFacts DEF RunInv, IInv, TypeOK, RecordsInv, HistoryInv, TimesInv
    <3>2. f[j] = finish_time[j] - workload[j].submit_time
      BY <2>1
    <3>. QED  BY <3>1, <3>2
  <2>3. DOMAIN f = Done
    BY <2>1
  <2>4. IsFiniteSet(Done)
    BY JobFacts, FS_Subset DEF RunInv, IInv, TypeOK
  <2>. HIDE DEF f, Done
  <2>5. CASE DOMAIN f = {}
    BY <2>5 DEF P95OrZero, f
  <2>6. CASE DOMAIN f # {}
    <3>1. 95 \in 1 .. 100
      OBVIOUS
    <3>2. \E u \in Nat : Covers(f, 95, u)
      BY <2>2, <2>3, <2>4, <2>6, <3>1, SomeValueCovers
    <3>3. NearestRank(f, 95) \in Nat
      BY <2>2, <2>3, <2>4, <2>6, <3>1, <3>2, NearestRankLeast
    <3>. QED  BY <2>6, <3>3 DEF P95OrZero, f
  <2>. QED  BY <2>5, <2>6
<1>. QED  BY <1>3, <1>4, <1>5, <1>6 DEF Cell

--------------------------------------------------------------------------------
(* The sweep *)

Columns == 0 .. seeds - 1

\* The workload of a column.
Drawn(column) == generate[SeedAt(0, column)]

ArgumentsInv ==
    /\ generate \in Generators
    /\ base_seed \in 0 .. SeedModulus - 1
    /\ seeds \in Nat \ {0}

\* Where the sweep is.
PlaceInv ==
    /\ stage \in {"alone", "sweep", "table"}
    /\ i \in Rows /\ k \in Columns
    /\ stage = "alone" => i = 0 /\ k = 0
    /\ stage = "sweep" => workload = Drawn(k)
    /\ Feasible(workload)

\* What the table has of a cell once the sweep has got to it, and that its
\* percentiles are numbers from the start.
TableInv ==
    /\ DOMAIN rows = Rows /\ \A c \in Rows : DOMAIN rows[c] = Columns
    /\ DOMAIN offered_rho = Columns
    /\ \A c \in Rows, column \in Columns :
        /\ rows[c][column].p95_turnaround \in Nat
        /\ Recorded(c, column) =>
            /\ rows[c][column].censored = 0
            /\ \A d \in Dim :
                /\ rows[c][column].utilization[d].work = WorkOf(Drawn(column), d)
                /\ offered_rho[column][d].work = WorkOf(Drawn(column), d)

SweepInv == RunInv /\ ArgumentsInv /\ PlaceInv /\ TableInv

LEMMA DrawnFeasible ==
    ASSUME ArgumentsInv, NEW column \in Columns
    PROVE  Feasible(Drawn(column)) /\ \A c : SeedAt(c, column) = SeedAt(0, column)
<1>1. /\ base_seed \in Nat /\ column \in Nat /\ SeedModulus \in Nat \ {0}
      /\ generate \in Generators
  BY ComparisonAssumption DEF ArgumentsInv, Columns
<1>2. SeedAt(0, column) \in 0 .. SeedModulus - 1
  BY <1>1 DEF SeedAt
<1>3. Drawn(column) \in Workloads \ {<<>>}
  BY <1>1, <1>2, ComparisonAssumption DEF Drawn
<1>4. \A j \in DOMAIN Drawn(column) : CanFit(Capacity, Drawn(column)[j].request)
  BY <1>1, <1>2, ComparisonAssumption DEF Drawn
<1>. QED  BY <1>3, <1>4 DEF Feasible, SeedAt

LEMMA SweepStarts == SweepInit => SweepInv
<1>. SUFFICES ASSUME SweepInit PROVE SweepInv
  OBVIOUS
<1>1. RunInv
  BY RunStarts DEF SweepInit
<1>2. ArgumentsInv
  BY ComparisonAssumption DEF SweepInit, ArgumentsInv
<1>3. Feasible(workload)
  <2>1. PICK seed \in 0 .. SeedModulus - 1 : workload = generate[seed]
    BY DEF SweepInit
  <2>. QED  BY <2>1, ComparisonAssumption DEF SweepInit, Feasible
<1>4. PlaceInv
  BY <1>2, <1>3, ConfigNames DEF SweepInit, PlaceInv, Columns, ArgumentsInv
<1>5. TableInv
  <2>1. \A c \in Rows, column \in Columns : ~ Recorded(c, column)
    BY DEF SweepInit, Recorded, Rows, Columns
  <2>2. /\ offered_rho = [column \in Columns |-> NoLoad]
        /\ rows = [c \in Rows |-> [column \in Columns |-> NoResult]]
    BY DEF SweepInit, TableInit, Rows, Columns
  <2>3. NoResult.p95_turnaround \in Nat
    BY DEF NoResult
  <2>. QED  BY <2>1, <2>2, <2>3 DEF TableInv
<1>. QED  BY <1>1, <1>2, <1>4, <1>5 DEF SweepInv

\* One step of a simulator changes nothing of the sweep.
LEMMA SimulateKeeps ==
    ASSUME SweepInv, Simulate
    PROVE  SweepInv'
<1>1. RunInv'
  BY RunKept DEF SweepInv, Simulate
<1>2. UNCHANGED <<generate, base_seed, seeds, stage, i, k, offered_rho, rows>>
  BY DEF Simulate, sweep
<1>3. workload' = workload
  <2>1. IInv /\ HistoryInv /\ [Next]_vars
    BY DEF Simulate, SweepInv, RunInv
  <2>. QED  BY <2>1, StepEffect
<1>4. ArgumentsInv'
  BY <1>2 DEF SweepInv, ArgumentsInv
<1>5. Columns' = Columns /\ \A column : Drawn(column)' = Drawn(column)
  BY <1>2 DEF Columns, Drawn, SeedAt
<1>6. PlaceInv'
  <2>1. Feasible(workload)'
    BY <1>3 DEF SweepInv, PlaceInv, Feasible
  <2>. QED  BY <1>2, <1>3, <1>5, <2>1 DEF SweepInv, PlaceInv
<1>7. \A c, column : Recorded(c, column)' <=> Recorded(c, column)
  BY <1>2 DEF Recorded
<1>8. TableInv'
  BY <1>2, <1>5, <1>7 DEF SweepInv, TableInv
<1>. QED  BY <1>1, <1>4, <1>6, <1>8 DEF SweepInv

LEMMA StartSweepKeeps ==
    ASSUME SweepInv, StartSweep
    PROVE  SweepInv'
<1>1. /\ UNCHANGED <<generate, base_seed, seeds, i, k, offered_rho, rows>>
      /\ stage = "alone" /\ stage' = "sweep" /\ i = 0 /\ k = 0 /\ 0 \in Columns
  BY DEF StartSweep, SweepInv, PlaceInv
<1>2. Construct(Drawn(0), ConfigOf(0)) /\ Feasible(Drawn(0))
  BY <1>1, DrawnFeasible DEF StartSweep, SweepInv, Drawn
<1>3. RunInv' /\ workload' = Drawn(0)
  BY <1>2, ConstructStarts, ConfigNames DEF Feasible
<1>4. PlaceInv'
  BY <1>1, <1>2, <1>3 DEF SweepInv, PlaceInv, Columns, Drawn, SeedAt
<1>5. \A c, column : Recorded(c, column)' <=> Recorded(c, column)
  BY <1>1 DEF Recorded
<1>. QED  BY <1>1, <1>3, <1>4, <1>5 DEF SweepInv, ArgumentsInv, TableInv, Columns, Drawn, SeedAt

\* The table after a cell more.
LEMMA RecordKeeps ==
    ASSUME SweepInv, Record,
           \A c \in Rows, column \in Columns :
              Recorded(c, column)' => Recorded(c, column) \/ (c = i /\ column = k)
    PROVE  ArgumentsInv' /\ TableInv'
<1>1. /\ UNCHANGED <<generate, base_seed, seeds>>
      /\ stage = "sweep" /\ pc = "returned" /\ i \in Rows /\ k \in Columns
      /\ workload = Drawn(k) /\ Feasible(workload)
  BY DEF Record, SweepInv, PlaceInv
<1>2. Columns' = Columns /\ \A column : Drawn(column)' = Drawn(column)
  BY <1>1 DEF Columns, Drawn, SeedAt
<1>3. /\ \A d \in Dim : Cell.utilization[d].work = WorkOf(Drawn(k), d)
      /\ \A d \in Dim : OfferedLoad(d).work = WorkOf(Drawn(k), d)
      /\ Cell.censored = 0 /\ Cell.p95_turnaround \in Nat
  BY <1>1, CellFacts DEF SweepInv
<1>4. /\ DOMAIN rows' = Rows /\ \A c \in Rows : DOMAIN rows'[c] = Columns
      /\ \A c \in Rows, column \in Columns :
            rows'[c][column] = IF c = i /\ column = k THEN Cell ELSE rows[c][column]
  <2>1. rows' = [rows EXCEPT ![i] = [rows[i] EXCEPT ![k] = Cell]]
    BY DEF Record
  <2>2. DOMAIN rows = Rows /\ \A c \in Rows : DOMAIN rows[c] = Columns
    BY DEF SweepInv, TableInv
  <2>. QED  BY <1>1, <2>1, <2>2
<1>5. /\ DOMAIN offered_rho' = Columns
      /\ \A column \in Columns : \A d \in Dim :
            offered_rho'[column][d].work =
                IF i = 0 /\ column = k THEN WorkOf(Drawn(k), d) ELSE offered_rho[column][d].work
  <2>1. DOMAIN offered_rho = Columns
    BY DEF SweepInv, TableInv
  <2>2. CASE i = 0
    <3>1. offered_rho' = [offered_rho EXCEPT ![k] = [d \in Dim |-> OfferedLoad(d)]]
      BY <2>2 DEF Record
    <3>. QED  BY <1>1, <1>3, <2>1, <2>2, <3>1
  <2>3. CASE i # 0
    BY <2>1, <2>3 DEF Record
  <2>. QED  BY <2>2, <2>3
<1>6. i # 0 => Recorded(0, k)
  BY <1>1 DEF Recorded, Rows
<1>7. ASSUME NEW c \in Rows, NEW column \in Columns, Recorded(c, column)'
      PROVE  /\ rows'[c][column].censored = 0
             /\ \A d \in Dim :
                 /\ rows'[c][column].utilization[d].work = WorkOf(Drawn(column), d)
                 /\ offered_rho'[column][d].work = WorkOf(Drawn(column), d)
  <2>1. \A d \in Dim : column = k => offered_rho'[column][d].work = WorkOf(Drawn(column), d)
    <3>1. CASE i = 0
      BY <1>1, <1>5, <3>1
    <3>2. CASE i # 0
      <4>1. \A d \in Dim : offered_rho[k][d].work = WorkOf(Drawn(k), d)
        BY <1>1, <1>6, <3>2, ConfigNames DEF SweepInv, TableInv
      <4>. QED  BY <1>1, <1>5, <3>2, <4>1
    <3>. QED  BY <3>1, <3>2
  <2>2. CASE c = i /\ column = k
    BY <1>1, <1>3, <1>4, <2>1, <2>2
  <2>3. CASE ~ (c = i /\ column = k)
    <3>1. Recorded(c, column)
      BY <1>7, <2>3
    <3>2. /\ rows[c][column].censored = 0
          /\ \A d \in Dim :
                /\ rows[c][column].utilization[d].work = WorkOf(Drawn(column), d)
                /\ offered_rho[column][d].work = WorkOf(Drawn(column), d)
      BY <3>1 DEF SweepInv, TableInv
    <3>. QED  BY <1>4, <1>5, <2>1, <2>3, <3>2
  <2>. QED  BY <2>2, <2>3
<1>8. \A c \in Rows, column \in Columns : rows'[c][column].p95_turnaround \in Nat
  BY <1>3, <1>4 DEF SweepInv, TableInv
<1>9. ArgumentsInv'
  BY <1>1 DEF SweepInv, ArgumentsInv
<1>10. TableInv'
  BY <1>2, <1>4, <1>5, <1>7, <1>8 DEF TableInv
<1>. QED  BY <1>9, <1>10

LEMMA NextRowKeeps ==
    ASSUME SweepInv, NextRow
    PROVE  SweepInv'
<1>1. /\ Record /\ stage' = stage /\ k' = k /\ i' = i + 1 /\ i' \in Rows /\ i \in Rows
      /\ stage = "sweep" /\ k \in Columns /\ UNCHANGED <<generate, base_seed, seeds>>
  BY ConfigNames DEF NextRow, Record, SweepInv, PlaceInv, Rows
<1>2. Construct(Drawn(k), ConfigOf(i')) /\ Feasible(Drawn(k))
  BY <1>1, DrawnFeasible DEF NextRow, SweepInv, Drawn
<1>3. RunInv' /\ workload' = Drawn(k)
  <2>1. \A w \in Workloads : \A c \in Rows : Construct(w, ConfigOf(c)) => RunInv' /\ workload' = w
    BY ConstructStarts
  <2>. QED  BY <1>1, <1>2, <2>1 DEF Feasible
<1>4. PlaceInv'
  BY <1>1, <1>2, <1>3 DEF SweepInv, PlaceInv, Columns, Drawn, SeedAt
<1>5. \A c \in Rows, column \in Columns :
        Recorded(c, column)' => Recorded(c, column) \/ (c = i /\ column = k)
  BY <1>1 DEF Recorded, Rows
<1>. QED  BY <1>1, <1>3, <1>4, <1>5, RecordKeeps DEF SweepInv

LEMMA NextColumnKeeps ==
    ASSUME SweepInv, NextColumn
    PROVE  SweepInv'
<1>1. /\ Record /\ stage' = stage /\ k' = k + 1 /\ i' = 0 /\ i = Configs - 1
      /\ k' \in Columns /\ k \in Columns
      /\ stage = "sweep" /\ UNCHANGED <<generate, base_seed, seeds>>
  BY DEF NextColumn, Record, SweepInv, PlaceInv, Columns, ArgumentsInv
<1>2. Construct(Drawn(k'), ConfigOf(0)) /\ Feasible(Drawn(k'))
  <2>1. \A column \in Columns : Feasible(Drawn(column))
    BY DrawnFeasible DEF SweepInv
  <2>. QED  BY <1>1, <2>1 DEF NextColumn, Drawn
<1>3. RunInv' /\ workload' = Drawn(k')
  BY <1>2, ConstructStarts, ConfigNames DEF Feasible
<1>4. PlaceInv'
  BY <1>1, <1>2, <1>3, ConfigNames DEF SweepInv, PlaceInv, Columns, Drawn, SeedAt
<1>5. \A c \in Rows, column \in Columns :
        Recorded(c, column)' => Recorded(c, column) \/ (c = i /\ column = k)
  BY <1>1, ConfigNames DEF Recorded, Rows, Columns
<1>. QED  BY <1>1, <1>3, <1>4, <1>5, RecordKeeps DEF SweepInv

LEMMA EndSweepKeeps ==
    ASSUME SweepInv, EndSweep
    PROVE  SweepInv'
<1>1. /\ Record /\ stage' = "table" /\ k' = k /\ i' = i /\ i = Configs - 1 /\ k = seeds - 1
      /\ stage = "sweep" /\ UNCHANGED <<generate, base_seed, seeds>> /\ UNCHANGED vars
  BY DEF EndSweep, Record
<1>2. RunInv'
  BY <1>1, RunKept DEF SweepInv
<1>3. PlaceInv'
  BY <1>1 DEF SweepInv, PlaceInv, Columns, vars, config
<1>4. \A c \in Rows, column \in Columns :
        Recorded(c, column)' => Recorded(c, column) \/ (c = i /\ column = k)
  BY <1>1, ConfigNames DEF Recorded, Rows, Columns, SweepInv, ArgumentsInv
<1>. QED  BY <1>1, <1>2, <1>3, <1>4, RecordKeeps DEF SweepInv

LEMMA SweepKeeps == SweepInv /\ [SweepNext]_sweepVars => SweepInv'
<1>. SUFFICES ASSUME SweepInv, [SweepNext]_sweepVars PROVE SweepInv'
  OBVIOUS
<1>1. CASE Simulate
  BY <1>1, SimulateKeeps
<1>2. CASE StartSweep
  BY <1>2, StartSweepKeeps
<1>3. CASE NextRow
  BY <1>3, NextRowKeeps
<1>4. CASE NextColumn
  BY <1>4, NextColumnKeeps
<1>5. CASE EndSweep
  BY <1>5, EndSweepKeeps
<1>6. CASE UNCHANGED sweepVars
  <2>1. UNCHANGED vars /\ workload' = workload
        /\ UNCHANGED <<generate, base_seed, seeds, alone, stage, i, k, offered_rho, rows>>
    BY <1>6 DEF sweepVars, sweep, vars, config
  <2>2. RunInv'
    BY <2>1, RunKept DEF SweepInv
  <2>. QED  BY <2>1, <2>2
            DEF SweepInv, ArgumentsInv, PlaceInv, TableInv, Columns, Drawn, SeedAt, Recorded
<1>. QED  BY <1>1, <1>2, <1>3, <1>4, <1>5, <1>6 DEF SweepNext, SweepReturned

--------------------------------------------------------------------------------
(* The theorems *)

LEMMA SweepAlways == SweepSpec => []SweepInv
<1>. QED  BY SweepStarts, SweepKeeps, PTL DEF SweepSpec

\* Whatever the pair of policies, the work a run of a column delivered is the
\* work offered in row 0 of the column: its runs had the same jobs, and
\* finished them.
THEOREM ColumnsAreComparable == SweepSpec => []OnlyThePolicyVaries
<1>1. SweepInv => OnlyThePolicyVaries
  BY DEF SweepInv, TableInv, OnlyThePolicyVaries, Rows, Columns
<1>. QED  BY <1>1, SweepAlways, PTL

\* The rows of a finished table can be compared.
LEMMA TableHasWinners ==
    ASSUME SweepInv, NEW column \in Columns
    PROVE  /\ Best(column) \in Rows
           /\ \A c \in Rows :
                /\ rows[Best(column)][column].p95_turnaround <= rows[c][column].p95_turnaround
                /\ c < Best(column) =>
                    rows[Best(column)][column].p95_turnaround < rows[c][column].p95_turnaround
  BY BestIsFirstFastest DEF SweepInv, TableInv

\* No seed is won by a run that left jobs undone.
THEOREM WinnersFinishTheirJobs == SweepSpec => []WinnersFinish
<1>1. ASSUME SweepInv PROVE WinnersFinish
  <2>. SUFFICES ASSUME stage = "table", NEW column \in Columns
                PROVE  rows[Best(column)][column].censored = 0
    BY DEF WinnersFinish, Columns
  <2>1. Best(column) \in Rows
    BY <1>1, TableHasWinners
  <2>2. \A c \in Rows : rows[c][column].censored = 0
    BY <1>1 DEF SweepInv, TableInv, Recorded
  <2>. QED  BY <2>1, <2>2
<1>. QED  BY <1>1, SweepAlways, PTL

\* Each seed is won once, by the first of the fastest rows of its column.
THEOREM WinsAddUp == SweepSpec => []WinsAreOfFirstFastest
<1>1. ASSUME SweepInv PROVE WinsAreOfFirstFastest
  <2>. DEFINE p95(c, column) == rows[c][column].p95_turnaround
              Wins(c) == {column \in Columns :
                            /\ \A other \in Rows : p95(c, column) <= p95(other, column)
                            /\ \A other \in 0 .. c - 1 : p95(c, column) < p95(other, column)}
              Won == [c \in Rows |-> {column \in Columns : Best(column) = c}]
  <2>1. \A column \in Columns : \A c \in Rows : p95(c, column) \in Nat
    BY <1>1 DEF SweepInv, TableInv
  <2>2. ASSUME NEW c \in Rows
        PROVE  Won[c] = Wins(c)
    <3>1. c \in Nat /\ \A x \in Rows : x \in Nat
      BY DEF Rows
    <3>2. ASSUME NEW column \in Columns
          PROVE  Best(column) = c <=>
                    /\ \A other \in Rows : p95(c, column) <= p95(other, column)
                    /\ \A other \in 0 .. c - 1 : p95(c, column) < p95(other, column)
      <4>. DEFINE b == Best(column)
      <4>1. /\ b \in Rows
            /\ \A x \in Rows : /\ p95(b, column) <= p95(x, column)
                               /\ x < b => p95(b, column) < p95(x, column)
        BY <1>1, TableHasWinners
      <4>. HIDE DEF b
      <4>2. \A other \in 0 .. c - 1 : other \in Rows /\ other < c
        BY ConfigNames DEF Rows
      <4>3. \A x \in Rows : p95(x, column) \in Nat
        BY <2>1
      <4>. HIDE DEF p95
      <4>4. b = c => /\ \A other \in Rows : p95(c, column) <= p95(other, column)
                     /\ \A other \in 0 .. c - 1 : p95(c, column) < p95(other, column)
        BY <4>1, <4>2
      <4>5. ASSUME \A other \in Rows : p95(c, column) <= p95(other, column),
                   \A other \in 0 .. c - 1 : p95(c, column) < p95(other, column)
            PROVE  b = c
        <5>1. p95(c, column) <= p95(b, column) /\ p95(b, column) <= p95(c, column)
          BY <4>1, <4>5
        <5>2. ~ (c < b)
          BY <4>1, <4>3, <5>1
        <5>3. ~ (b < c)
          <6>1. b < c => b \in 0 .. c - 1
            BY <3>1, <4>1 DEF Rows
          <6>. QED  BY <4>1, <4>3, <4>5, <5>1, <6>1
        <5>. QED  BY <3>1, <4>1, <5>2, <5>3
      <4>. QED  BY <4>4, <4>5 DEF b
    <3>. QED  BY <3>2
  <2>3. WinCounts = [c \in Rows |-> Cardinality(Won[c])]
    BY DEF WinCounts, Rows, Columns
  <2>4. SumOver(Rows, WinCounts) = seeds
    <3>. DEFINE one == [column \in Columns |-> 1]
                box == [column \in Columns |-> Best(column)]
    <3>1. IsFiniteSet(Columns) /\ IsFiniteSet(Rows) /\ Cardinality(Columns) = seeds
      <4>1. seeds \in Nat \ {0} /\ Configs \in Nat \ {0}
        BY <1>1, ConfigNames DEF SweepInv, ArgumentsInv
      <4>2. IsFiniteSet(0 .. seeds - 1) /\ IsFiniteSet(0 .. Configs - 1)
        BY <4>1, FS_Interval
      <4>3. Cardinality(0 .. seeds - 1) = seeds
        BY <4>1, FS_Interval
      <4>. QED  BY <4>2, <4>3 DEF Rows, Columns
    <3>2. \A column \in Columns : box[column] \in Rows /\ one[column] = 1
      BY <1>1, TableHasWinners
    <3>3. \A c \in Rows : Won[c] = {column \in Columns : box[column] = c}
      OBVIOUS
    <3>4. ASSUME NEW c \in Rows
          PROVE  WinCounts[c] = SumOver(Won[c], one)
      <4>1. Won[c] \subseteq Columns
        OBVIOUS
      <4>. HIDE DEF Won, one
      <4>2. IsFiniteSet(Won[c]) /\ \A x \in Won[c] : one[x] = 1
        BY <3>1, <3>2, <4>1, FS_Subset
      <4>3. SumOver(Won[c], one) = Cardinality(Won[c])
        BY <4>2, SumOfOnes
      <4>. QED  BY <2>3, <4>3
    <3>. HIDE DEF Won, one, box
    <3>5. SumOver(Columns, one) = seeds
      BY <3>1, <3>2, SumOfOnes
    <3>6. (\A column \in Columns : box[column] \in Rows)
          /\ (\A column \in Columns : one[column] \in Nat)
      BY <3>2
    <3>7. SumOver(Rows, WinCounts) = SumOver(Columns, one)
      BY <3>1, <3>3, <3>4, <3>6, SumPartition
    <3>. QED  BY <3>5, <3>7
  <2>5. \A c \in Rows : WinCounts[c] = Cardinality(Wins(c))
    <3>. HIDE DEF Won, Wins
    <3>. QED  BY <2>2, <2>3
  <2>. QED  BY <2>4, <2>5 DEF WinsAreOfFirstFastest, Rows, Columns
<1>. QED  BY <1>1, SweepAlways, PTL

--------------------------------------------------------------------------------
(* What a run leaves in the table *)

\* The cell of a run that is over at moment s.
CellOf(s) ==
    LET Done    == {j \in DOMAIN s.workload : s.state[j] = "Done"}
        Begun   == {j \in DOMAIN s.workload : s.start_time[j] # kNever}
        came(j) == s.workload[j].submit_time
    IN  [p95_turnaround |-> P95OrZero([j \in Done |-> s.finish_time[j] - came(j)]),
         p95_queue_wait |-> P95OrZero([j \in Begun |-> s.start_time[j] - came(j)]),
         utilization    |-> [d \in Dim |-> [work |-> s.ticks[d] % Width,
                                            room |-> (s.sim_end * TotalCapacity[d]) % Width]],
         censored       |-> Cardinality(DOMAIN s.workload \ Done),
         backfilled     |-> s.backfilled]

LEMMA CellNow == Cell = CellOf(Moment)
  BY MomentFields, Zenon
     DEF Cell, CellOf, TurnaroundTimes, QueueWaitTimes, MeanUtilization, JobId

\* A run of workload w with two policies may leave this cell.
Outcome(w, names, cell) ==
    \E s : GetsTo(StartOf(w, names), s) /\ s.pc = "returned" /\ cell = CellOf(s)

\* And no other.
LEMMA OneOutcome ==
    ASSUME NEW w, NEW names, NEW a, NEW b, Outcome(w, names, a), Outcome(w, names, b)
    PROVE  a = b
  BY OneEnd DEF Outcome

\* A row is run with the policies it is labelled with.
LEMMA LabelsAreConfigs == \A c \in Rows : Labels[c + 1] = ConfigOf(c)
<1>. DEFINE L == [q \in 1 .. Len(QueueOrder) |->
                    [sc \in 1 .. Len(SchedulerOrder) |-> <<QueueOrder[q], SchedulerOrder[sc]>>]]
            Flat(f) == f = [x \in 1 .. Len(L) |-> IF x = 1 THEN L[x] ELSE f[x - 1] \o L[x]]
            flat == CHOOSE f : Flat(f)
<1>1. Len(SchedulerOrder) = 4 /\ Len(QueueOrder) = 2 /\ Len(L) = 2
  BY DEF SchedulerOrder, QueueOrder
<1>2. Labels = flat[Len(L)]
  BY <1>1 DEF Labels, Listing!FlattenSeq
<1>3. Flat(flat)
  <2>. DEFINE g == [x \in 1 .. 2 |-> IF x = 1 THEN L[1] ELSE L[1] \o L[2]]
  <2>1. Flat(g)
    <3>. HIDE DEF L
    <3>. QED  BY <1>1
  <2>. HIDE DEF Flat
  <2>. QED  BY <2>1
<1>. HIDE DEF flat
<1>4. Labels = L[1] \o L[2]
  <2>. HIDE DEF L
  <2>1. flat[1] = L[1]
    BY <1>1, <1>3
  <2>2. flat[2] = flat[1] \o L[2]
    BY <1>1, <1>3
  <2>. QED  BY <1>1, <1>2, <2>1, <2>2
<1>. QED  BY <1>1, <1>4 DEF ConfigOf, Rows, Configs

--------------------------------------------------------------------------------
(* The sweep, run by run *)

LEMMA ConstructIsStart ==
    ASSUME NEW w, NEW names, Construct(w, names)
    PROVE  Moment' = StartOf(w, names)
  BY DEF Construct, Moment, StartOf, IntegralAnew

\* The simulator is on the run the sweep is at, and what has been kept is what
\* such a run leaves.
RerunInv ==
    /\ DOMAIN alone = {"config", "seed", "cell"}
    /\ stage = "alone" => GetsTo(StartOf(generate[alone.seed], alone.config), Moment)
    /\ stage = "sweep" => GetsTo(StartOf(Drawn(k), ConfigOf(i)), Moment)
    /\ stage # "alone" => Outcome(generate[alone.seed], alone.config, alone.cell)
    /\ \A c \in Rows, column \in Columns :
          Recorded(c, column) => Outcome(Drawn(column), ConfigOf(c), rows[c][column])

LEMMA RerunStarts == SweepInit => RerunInv
<1>. SUFFICES ASSUME SweepInit PROVE RerunInv
  OBVIOUS
<1>1. /\ stage = "alone" /\ i = 0 /\ k = 0 /\ Init
      /\ DOMAIN alone = {"config", "seed", "cell"} /\ alone.config = <<policy, scheduler>>
      /\ workload = generate[alone.seed]
  BY DEF SweepInit
<1>2. GetsTo(StartOf(generate[alone.seed], alone.config), Moment)
  BY <1>1, InitIsStart, GetsToStart
<1>3. \A c \in Rows, column \in Columns : ~ Recorded(c, column)
  BY <1>1 DEF Recorded, Rows, Columns
<1>. QED  BY <1>1, <1>2, <1>3 DEF RerunInv

\* A step of the simulator takes its run one moment further.
LEMMA SimulateReruns ==
    ASSUME SweepInv, RerunInv, Simulate
    PROVE  RerunInv'
<1>1. UNCHANGED <<generate, base_seed, seeds, alone, stage, i, k, rows>>
  BY DEF Simulate, sweep
<1>2. Columns' = Columns /\ \A column : Drawn(column)' = Drawn(column)
  BY <1>1 DEF Columns, Drawn, SeedAt
<1>3. \A c, column : Recorded(c, column)' <=> Recorded(c, column)
  BY <1>1 DEF Recorded
<1>4. Follows(Moment, Moment') /\ Moment.pc # "returned"
  BY StepFollows, MomentFields DEF Simulate, SweepInv, RunInv
<1>5. \A s : GetsTo(s, Moment) => GetsTo(s, Moment')
  BY <1>4, GetsFurther
<1>6. /\ (stage = "alone" => GetsTo(StartOf(generate[alone.seed], alone.config), Moment))'
      /\ (stage = "sweep" => GetsTo(StartOf(Drawn(k), ConfigOf(i)), Moment))'
  BY <1>1, <1>2, <1>5 DEF RerunInv
<1>. QED  BY <1>1, <1>2, <1>3, <1>6 DEF RerunInv

\* What a run that is over leaves.
LEMMA EndIsOutcome ==
    ASSUME NEW w, NEW names, GetsTo(StartOf(w, names), Moment), pc = "returned"
    PROVE  Outcome(w, names, Cell)
  BY CellNow, MomentFields DEF Outcome

\* The run of its own is over, and the first run of the sweep begins.
LEMMA StartSweepReruns ==
    ASSUME SweepInv, RerunInv, StartSweep
    PROVE  RerunInv'
<1>1. /\ UNCHANGED <<generate, base_seed, seeds, i, k, rows>>
      /\ stage = "alone" /\ stage' = "sweep" /\ i = 0 /\ k = 0
      /\ alone' = [alone EXCEPT !.cell = Cell]
      /\ DOMAIN alone = {"config", "seed", "cell"}
  BY DEF StartSweep, SweepInv, PlaceInv, RerunInv
<1>2. /\ alone'.config = alone.config /\ alone'.seed = alone.seed /\ alone'.cell = Cell
      /\ DOMAIN alone' = {"config", "seed", "cell"}
  BY <1>1
<1>3. Outcome(generate[alone.seed], alone.config, Cell)
  BY <1>1, EndIsOutcome DEF StartSweep, RerunInv
<1>4. GetsTo(StartOf(Drawn(0), ConfigOf(0)), Moment')
  <2>1. Moment' = StartOf(Drawn(0), ConfigOf(0))
    BY ConstructIsStart DEF StartSweep, Drawn
  <2>. QED  BY <2>1, GetsToStart
<1>5. \A c, column : Recorded(c, column)' <=> Recorded(c, column)
  BY <1>1 DEF Recorded
<1>6. Columns' = Columns /\ \A column : Drawn(column)' = Drawn(column)
  BY <1>1 DEF Columns, Drawn, SeedAt
<1>7. (stage = "sweep" => GetsTo(StartOf(Drawn(k), ConfigOf(i)), Moment))'
  BY <1>1, <1>4, <1>6
<1>. QED  BY <1>1, <1>2, <1>3, <1>5, <1>6, <1>7 DEF RerunInv

\* A run of the sweep is over, and its cell goes into the table.
LEMMA RecordReruns ==
    ASSUME SweepInv, RerunInv, Record, stage' # "alone",
           \A c \in Rows, column \in Columns :
              Recorded(c, column)' => Recorded(c, column) \/ (c = i /\ column = k),
           stage' = "sweep" => GetsTo(StartOf(Drawn(k), ConfigOf(i))', Moment')
    PROVE  RerunInv'
<1>1. /\ UNCHANGED <<generate, base_seed, seeds, alone>>
      /\ stage = "sweep" /\ pc = "returned" /\ i \in Rows /\ k \in Columns
  BY DEF Record, SweepInv, PlaceInv
<1>2. Columns' = Columns /\ \A column : Drawn(column)' = Drawn(column)
  BY <1>1 DEF Columns, Drawn, SeedAt
<1>3. Outcome(Drawn(k), ConfigOf(i), Cell)
  BY <1>1, EndIsOutcome DEF RerunInv
<1>4. \A c \in Rows, column \in Columns :
        rows'[c][column] = IF c = i /\ column = k THEN Cell ELSE rows[c][column]
  <2>1. rows' = [rows EXCEPT ![i] = [rows[i] EXCEPT ![k] = Cell]]
    BY DEF Record
  <2>2. DOMAIN rows = Rows /\ \A c \in Rows : DOMAIN rows[c] = Columns
    BY DEF SweepInv, TableInv
  <2>. QED  BY <1>1, <2>1, <2>2
<1>5. ASSUME NEW c \in Rows, NEW column \in Columns, Recorded(c, column)'
      PROVE  Outcome(Drawn(column), ConfigOf(c), rows'[c][column])
  <2>1. CASE c = i /\ column = k
    BY <1>3, <1>4, <2>1
  <2>2. CASE ~ (c = i /\ column = k)
    BY <1>4, <1>5, <2>2 DEF RerunInv
  <2>. QED  BY <2>1, <2>2
<1>. QED  BY <1>1, <1>2, <1>5 DEF RerunInv

LEMMA NextRowReruns ==
    ASSUME SweepInv, RerunInv, NextRow
    PROVE  RerunInv'
<1>1. /\ Record /\ stage' = stage /\ k' = k /\ i' = i + 1 /\ i \in Rows
      /\ stage = "sweep" /\ k \in Columns /\ UNCHANGED <<generate, base_seed, seeds>>
  BY DEF NextRow, Record, SweepInv, PlaceInv
<1>2. Moment' = StartOf(Drawn(k), ConfigOf(i'))
  <2>1. Drawn(k) = generate[SeedAt(i + 1, k)]
    BY DEF Drawn, SeedAt
  <2>2. Construct(Drawn(k), ConfigOf(i'))
    BY <1>1, <2>1 DEF NextRow
  <2>. QED  BY <2>2, ConstructIsStart
<1>3. GetsTo(StartOf(Drawn(k), ConfigOf(i))', Moment')
  <2>1. Drawn(k)' = Drawn(k)
    BY <1>1 DEF Drawn, SeedAt
  <2>. QED  BY <1>2, <2>1, GetsToStart
<1>4. \A c \in Rows, column \in Columns :
        Recorded(c, column)' => Recorded(c, column) \/ (c = i /\ column = k)
  BY <1>1 DEF Recorded, Rows
<1>. QED  BY <1>1, <1>3, <1>4, RecordReruns

LEMMA NextColumnReruns ==
    ASSUME SweepInv, RerunInv, NextColumn
    PROVE  RerunInv'
<1>1. /\ Record /\ stage' = stage /\ k' = k + 1 /\ i' = 0 /\ i = Configs - 1
      /\ k \in Columns /\ stage = "sweep" /\ UNCHANGED <<generate, base_seed, seeds>>
  BY DEF NextColumn, Record, SweepInv, PlaceInv
<1>2. Moment' = StartOf(Drawn(k'), ConfigOf(i'))
  <2>1. Construct(Drawn(k'), ConfigOf(i'))
    BY <1>1 DEF NextColumn, Drawn
  <2>. QED  BY <2>1, ConstructIsStart
<1>3. GetsTo(StartOf(Drawn(k), ConfigOf(i))', Moment')
  <2>1. Drawn(k)' = Drawn(k')
    BY <1>1 DEF Drawn, SeedAt
  <2>. QED  BY <1>2, <2>1, GetsToStart
<1>4. \A c \in Rows, column \in Columns :
        Recorded(c, column)' => Recorded(c, column) \/ (c = i /\ column = k)
  BY <1>1, ConfigNames DEF Recorded, Rows, Columns
<1>. QED  BY <1>1, <1>3, <1>4, RecordReruns

LEMMA EndSweepReruns ==
    ASSUME SweepInv, RerunInv, EndSweep
    PROVE  RerunInv'
<1>1. /\ Record /\ stage' = "table" /\ k' = k /\ i' = i /\ i = Configs - 1 /\ k = seeds - 1
      /\ stage = "sweep"
  BY DEF EndSweep, Record
<1>2. \A c \in Rows, column \in Columns :
        Recorded(c, column)' => Recorded(c, column) \/ (c = i /\ column = k)
  BY <1>1, ConfigNames DEF Recorded, Rows, Columns, SweepInv, ArgumentsInv
<1>. QED  BY <1>1, <1>2, RecordReruns

LEMMA RerunKept == SweepInv /\ RerunInv /\ [SweepNext]_sweepVars => RerunInv'
<1>. SUFFICES ASSUME SweepInv, RerunInv, [SweepNext]_sweepVars PROVE RerunInv'
  OBVIOUS
<1>1. CASE UNCHANGED sweepVars
  <2>1. UNCHANGED vars /\ UNCHANGED <<generate, base_seed, seeds, alone, stage, i, k, rows>>
    BY <1>1 DEF sweepVars, sweep
  <2>2. Moment' = Moment
    BY <2>1 DEF Moment, vars, config, jobs, queue, machines, integral
  <2>3. /\ Columns' = Columns /\ \A column : Drawn(column)' = Drawn(column)
        /\ \A c, column : Recorded(c, column)' <=> Recorded(c, column)
    BY <2>1 DEF Columns, Drawn, SeedAt, Recorded
  <2>. QED  BY <2>1, <2>2, <2>3 DEF RerunInv
<1>. QED  BY <1>1, SimulateReruns, StartSweepReruns, NextRowReruns, NextColumnReruns,
             EndSweepReruns DEF SweepNext, SweepReturned

\* A cell of the table is what a run of its own with the policies of its label
\* and the seed of its column reports: both are the one outcome of one start,
\* whatever ran before it in the process.
THEOREM CellsAreRunsOfTheirOwn == SweepSpec => []CellMatchesAStandaloneRun
<1>1. ASSUME SweepInv, RerunInv PROVE CellMatchesAStandaloneRun
  <2>. SUFFICES ASSUME NEW c \in Rows, NEW column \in Columns, Recorded(c, column),
                       Labels[c + 1] = alone.config,
                       (base_seed + column) % SeedModulus = alone.seed
                PROVE  rows[c][column] = alone.cell
    BY DEF CellMatchesAStandaloneRun, Rows, Columns
  <2>1. Drawn(column) = generate[alone.seed] /\ ConfigOf(c) = alone.config
    BY LabelsAreConfigs DEF Drawn, SeedAt
  <2>2. Outcome(generate[alone.seed], alone.config, rows[c][column])
    BY <1>1, <2>1 DEF RerunInv
  <2>3. stage # "alone"
    BY <1>1 DEF SweepInv, PlaceInv, Recorded, Rows, Columns
  <2>4. Outcome(generate[alone.seed], alone.config, alone.cell)
    BY <1>1, <2>3 DEF RerunInv
  <2>. QED  BY <2>2, <2>4, OneOutcome
<1>2. SweepSpec => []RerunInv
  BY RerunStarts, RerunKept, SweepAlways, PTL DEF SweepSpec
<1>. QED  BY <1>1, <1>2, SweepAlways, PTL

================================================================================
