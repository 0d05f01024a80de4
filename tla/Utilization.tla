------------------------------- MODULE Utilization -------------------------------
(***************************************************************************)
(* struct UtilizationIntegral (metrics/utilization.hpp): the time-weighted *)
(* integral of the resources in use.  The 64-bit width of the two          *)
(* accumulators is not modelled here.                                      *)
(***************************************************************************)
EXTENDS Nodes

VARIABLES
    last_checkin,  \* last_checkin_, the tick the integral has reached
    ticks          \* core_ticks_ and memory_ticks_, by dimension

UtilizationInit ==
    /\ last_checkin = 0
    /\ ticks = [d \in Dim |-> 0]

\* A variant that samples at every event instead of weighting by time.
AdvanceSampled(now, in_use) ==
    /\ ticks' = [d \in Dim |-> ticks[d] + in_use[d]]
    /\ last_checkin' = now

\* UtilizationIntegral::advance.  The early return for an empty interval
\* needs no case of its own: such an interval credits nothing.
Advance(now, in_use) ==
    /\ ticks' = [d \in Dim |-> ticks[d] + (now - last_checkin) * in_use[d]]
    /\ last_checkin' = now

================================================================================
