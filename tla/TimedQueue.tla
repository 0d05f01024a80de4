------------------------------- MODULE TimedQueue -------------------------------
(***************************************************************************)
(* EventQueue used by anyone, in any order: events are scheduled at any    *)
(* tick, also before ones already popped, and popped at any moment.        *)
(***************************************************************************)
EXTENDS EventQueue, FiniteSets

CONSTANTS
    Times,        \* the ticks events are scheduled at
    Payloads,     \* what events carry
    Nothing,      \* what has been popped before anything has
    MaxScheduled  \* bound on how many events are ever scheduled

\* Clock::tick is unsigned.
ASSUME TimedQueueAssumption == Times \subseteq Nat /\ MaxScheduled \in Nat

VARIABLE popped  \* the event pop() returned last, without its number

ClientInit == QueueInit /\ popped = Nothing

ScheduleAny ==
    /\ next_seq < MaxScheduled
    /\ \E time \in Times, payload \in Payloads : Schedule(time, payload)
    /\ UNCHANGED popped

PopTop ==
    \E e \in heap :
        /\ Pop(e)
        /\ popped' = [time |-> e.time, payload |-> e.payload]

ClientNext == ScheduleAny \/ PopTop

ClientSpec == ClientInit /\ [][ClientNext]_<<heap, next_seq, popped>>

--------------------------------------------------------------------------------

\* How many events are popped before e.
Ahead(e) == Cardinality({other \in heap : EarliestFirst(e, other)})

\* The heap in the order it will be popped, without the numbers.
AgendaOf ==
    [k \in 1 .. Cardinality(heap) |->
        LET e == CHOOSE event \in heap : Ahead(event) = k - 1
        IN  [time |-> e.time, payload |-> e.payload]]

Promise == INSTANCE Agenda WITH agenda <- AgendaOf, served <- popped

\* The queue serves events by time and, within a tick, in the order they were
\* scheduled, however scheduling and popping are mixed (event_queue.hpp).
ImplementsAgenda == Promise!Spec

================================================================================
