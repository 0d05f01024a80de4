---------------------------------- MODULE Trace ----------------------------------
(***************************************************************************)
(* class TraceWriter (io/trace.cpp) and where Simulator calls it: the file *)
(* of a traced run, line by line, composed with the simulator.  A line is  *)
(* the record of its fields.                                               *)
(*                                                                         *)
(* The writer is one that has its file open.  Without one -- no path, or a *)
(* path that does not open -- every call returns at once and the run is    *)
(* that of Simulator.                                                      *)
(***************************************************************************)
EXTENDS SimulatorProperties

VARIABLE lines  \* what has been written to out_

traceVars == <<vars, lines>>

\* The constructor's line.  What else it says of the options is fixed for a run.
Header == [ev |-> "header", nodes |-> NodeCount, scheduler |-> scheduler, queue |-> policy]

\* TraceWriter::job_spec.
JobSpecLine(j) ==
    [ev |-> "job", job |-> j, submit |-> workload[j].submit_time,
     dur |-> workload[j].duration, est |-> workload[j].estimated_duration,
     request |-> Request(j)]

\* TraceWriter::write, through to_jsonl.
EventLine(e) ==
    CASE e.payload.type = "JobArrival" ->
            [t |-> e.time, seq |-> e.seq, ev |-> "JobArrival", job |-> e.payload.job]
      [] e.payload.type = "JobFinish" ->
            [t |-> e.time, seq |-> e.seq, ev |-> "JobFinish",
             job |-> e.payload.job, node |-> e.payload.node]
      [] e.payload.type = "SimEnd" ->
            [t |-> e.time, seq |-> e.seq, ev |-> "SimEnd"]

\* A variant that writes when the job will be done.
StartLineDerived(j) ==
    [t |-> now + workload[j].duration, ev |-> "JobStart", job |-> j, node |-> node'[j]]

\* TraceWriter::placement, called by try_place after the job is placed.
StartLine(j) == [t |-> now, ev |-> "JobStart", job |-> j, node |-> node'[j]]

--------------------------------------------------------------------------------

\* Main opens the file and run() logs every job before the clock starts.
TracedInit ==
    /\ Init
    /\ lines = <<Header>> \o [j \in JobId |-> JobSpecLine(j)]

\* The loop writes the event it took before it handles it.
TraceEvent ==
    /\ OnArrival \/ OnFinish \/ OnSimEnd
    /\ \E e \in heap \ heap' : lines' = Append(lines, EventLine(e))

\* A variant that writes nothing for what the queue policy started.
TraceHeadOnly ==
    \/ StartHead /\ \E j \in running' \ running : lines' = Append(lines, StartLine(j))
    \/ BackfillJob /\ UNCHANGED lines

\* try_place writes the job it started.
TraceStart ==
    /\ StartHead \/ BackfillJob
    /\ \E j \in running' \ running : lines' = Append(lines, StartLine(j))

TraceNothing ==
    /\ LoopEnds \/ BlockHead \/ DrainReturns \/ Returned
    /\ UNCHANGED lines

TracedNext == TraceEvent \/ TraceStart \/ TraceNothing

TracedSpec == TracedInit /\ [][TracedNext]_traceVars /\ WF_traceVars(TracedNext)

--------------------------------------------------------------------------------

\* Where the lines of a kind about a job are.
LinesAbout(ev, j) == {i \in DOMAIN lines : lines[i].ev = ev /\ lines[i].job = j}

\* The lines that say what happened, and when.
Happenings == {i \in DOMAIN lines : lines[i].ev \notin {"header", "job"}}

\* The trace tells every job's story once and in order: its arrival, its start
\* on the node and at the tick of its record, and its finish; a story the
\* record does not tell is not in the trace.
TraceTellsRecords ==
    \A j \in JobId :
        LET Arrivals == LinesAbout("JobArrival", j)
            Starts   == LinesAbout("JobStart", j)
            Finishes == LinesAbout("JobFinish", j)
        IN  /\ Cardinality(Arrivals) = IF ArrivalsOf(j) = {} THEN 1 ELSE 0
            /\ Cardinality(Starts) = IF state[j] = "Queued" THEN 0 ELSE 1
            /\ Cardinality(Finishes) = IF state[j] = "Done" THEN 1 ELSE 0
            /\ \A i \in Arrivals : lines[i].t = workload[j].submit_time
            /\ \A i \in Starts :
                /\ lines[i].t = start_time[j] /\ lines[i].node = node[j]
                /\ \A k \in Arrivals : k < i
            /\ \A i \in Finishes :
                /\ lines[i].t = finish_time[j] /\ lines[i].node = node[j]
                /\ \A k \in Starts : k < i

\* File order is the order of ticks, and of (tick, number) among the events
\* that went through the queue (trace.hpp: "file order, not the seq field, is
\* what orders a tick's lines").
FileOrderIsTimeOrder ==
    \A i, k \in Happenings : i < k =>
        /\ lines[i].t <= lines[k].t
        /\ "seq" \in DOMAIN lines[i] /\ "seq" \in DOMAIN lines[k]
               => lines[i].seq < lines[k].seq \/ lines[i].t < lines[k].t

\* Whoever replays the starts and finishes of the file in its order, a line at
\* a time, never puts more on a node than it has, and ends with the free
\* resources the simulator has.
TraceReplays ==
    LET OnNode(n, upto) ==
            {j \in JobId :
                /\ \E i \in LinesAbout("JobStart", j) : i <= upto /\ lines[i].node = n
                /\ \A i \in LinesAbout("JobFinish", j) : i > upto}
        Held(n, upto, d) ==
            SumOver(OnNode(n, upto), [j \in OnNode(n, upto) |-> Request(j)[d]])
    IN  /\ \A n \in NodeId, d \in Dim, upto \in Happenings : Held(n, upto, d) <= Capacity[d]
        /\ pc \in {"run", "returned"} =>
            \A n \in NodeId, d \in Dim : Held(n, Len(lines), d) + free[n][d] = Capacity[d]

================================================================================
