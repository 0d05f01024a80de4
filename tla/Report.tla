--------------------------------- MODULE Report ---------------------------------
(***************************************************************************)
(* What report() (io/report.cpp) says of a finished run: the two samples   *)
(* of metrics/time_sample.cpp, the offered load of metrics/offered_load    *)
(* .cpp and the mean utilization of metrics/utilization.cpp.  A fraction   *)
(* is the pair of its terms; the divisions, and ticks turned to seconds,   *)
(* are left to the reader of the report.  The terms are unsigned numbers   *)
(* of a fixed width, so each is the exact one modulo Width: sums that wrap *)
(* on the way, as the integral's do, come to the same.                     *)
(***************************************************************************)
EXTENDS SimulatorProperties, OrderStatistics, Integers

CONSTANT Width  \* 2^64 in the code

ASSUME WidthAssumption == Width \in Nat \ {0}

\* A sample is the time of each job that has one, and how many have none.
\* percentiles() reorders a sample, so its order is not modelled.
TurnaroundTimes ==
    LET Done == {j \in JobId : state[j] = "Done"}
    IN  [skipped |-> Cardinality(JobId \ Done),
         times   |-> [j \in Done |-> finish_time[j] - workload[j].submit_time]]

\* A variant that takes the wait from the start of the run.
QueueWaitFromZero ==
    LET Started == {j \in JobId : start_time[j] # kNever}
    IN  [skipped |-> Cardinality(JobId \ Started),
         times   |-> [j \in Started |-> start_time[j]]]

QueueWaitTimes ==
    LET Started == {j \in JobId : start_time[j] # kNever}
    IN  [skipped |-> Cardinality(JobId \ Started),
         times   |-> [j \in Started |-> start_time[j] - workload[j].submit_time]]

\* A variant that offers what was claimed and not what is used.
OfferedWorkClaimed(d) ==
    SumOver(JobId, [j \in JobId |-> workload[j].estimated_duration * Request(j)[d]])

\* The numerators of offered_load.
OfferedWork(d) ==
    SumOver(JobId, [j \in JobId |-> workload[j].duration * Request(j)[d]])

\* The terms of offered_load.  The span is from the first job to the last of
\* the vector and may be zero.
OfferedLoad(d) ==
    LET span == workload[Len(workload)].submit_time - workload[1].submit_time
    IN  [work |-> OfferedWork(d) % Width, room |-> (TotalCapacity[d] * span) % Width]

\* The terms that mean() divides, where its asserts let it come to that.
MeanUtilization(d) ==
    [work |-> ticks[d] % Width, room |-> (sim_end * TotalCapacity[d]) % Width]

\* The asserts of mean().  A product that wraps to exactly zero stops the
\* program here, and so does an empty span; one that wraps to another number
\* goes through.
MeanAsserts ==
    /\ sim_end # kNever
    /\ sim_end > 0
    /\ \A d \in Dim : MeanUtilization(d).room > 0

\* report() is called when run() has returned, and prints no percentile of
\* an empty sample.
Reports == pc = "returned" /\ workload # <<>>

--------------------------------------------------------------------------------

\* The report's two samples censor the same jobs, the ones left in the
\* backlog of a wedged run: no job is still running, so none has a wait but no
\* turnaround.
CensoredAlike ==
    Reports => /\ TurnaroundTimes.skipped = Len(pending)
               /\ QueueWaitTimes.skipped = Len(pending)

\* Each reported percentile of the queue wait is at most the same percentile
\* of the turnaround.
WaitWithinTurnaround ==
    Reports /\ DOMAIN TurnaroundTimes.times # {} =>
        \A p \in {50, 95, 99} :
            NearestRank(QueueWaitTimes.times, p) <= NearestRank(TurnaroundTimes.times, p)

\* Utilization is a fraction of one at every moment of a run: the integral
\* never credits more than the whole cluster for the whole time.
UtilizationIsFraction ==
    \A d \in Dim : ticks[d] <= last_checkin * TotalCapacity[d]

\* A run that finishes every job delivers exactly the work its workload
\* offered: the numerators of the two load factors of the report agree,
\* although one is summed over time and the other over jobs.
OfferedIsDelivered ==
    Reports /\ pending = <<>> =>
        \A d \in Dim : MeanUtilization(d).work = OfferedLoad(d).work

\* The assert of mean() that its span is not empty fails of one kind of run
\* only: every job comes at tick zero and those that are done took no time.
EmptySpanIsInstantRun ==
    Reports => (sim_end = 0 <=> /\ \A j \in JobId : workload[j].submit_time = 0
                                /\ \A j \in JobId : state[j] = "Done" => workload[j].duration = 0)

\* Not so: what mean() returns, when no assert of it has stopped the program, is
\* the mean fraction of the capacity in use over the run (utilization.hpp): its
\* terms are in the proportion of the exact ones.
MeanIsExact ==
    Reports /\ MeanAsserts =>
        \A d \in Dim : MeanUtilization(d).work * (sim_end * TotalCapacity[d])
                          = ticks[d] * MeanUtilization(d).room

================================================================================
