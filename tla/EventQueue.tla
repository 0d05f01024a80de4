------------------------------- MODULE EventQueue -------------------------------
(***************************************************************************)
(* class EventQueue (engine/event_queue.hpp): a priority queue of timed    *)
(* events that stamps every event with an insertion number, so that events *)
(* of the same tick leave in the order they were scheduled.                *)
(*                                                                         *)
(* The heap is the set of its events: how std::priority_queue lays them    *)
(* out is not observable, which of them is on top is.  Two events never    *)
(* compare equal, because their numbers differ.                            *)
(***************************************************************************)
EXTENDS Naturals

VARIABLES
    heap,     \* heap_, the events not yet popped
    next_seq  \* next_seq_, the number the next event is stamped with

QueueInit ==
    /\ heap = {}
    /\ next_seq = 0

\* The variant of the comparator that ignores insertion order among equals
\* of a tick and lets the younger one out first.
YoungestFirst(a, b) ==
    \/ a.time > b.time
    \/ a.time = b.time /\ a.seq < b.seq

\* The variant that forgets that a max-heap wants the comparator inverted.
LatestFirst(a, b) ==
    \/ a.time < b.time
    \/ a.time = b.time /\ a.seq > b.seq

\* EarliestFirst: a is less important than b.
EarliestFirst(a, b) ==
    \/ a.time > b.time
    \/ a.time = b.time /\ a.seq > b.seq

\* heap_.top(): the event no other one is more important than.
Top(e) ==
    /\ e \in heap
    /\ \A other \in heap \ {e} : EarliestFirst(other, e)

\* EventQueue::schedule.
Schedule(time, payload) ==
    /\ heap' = heap \cup {[time |-> time, seq |-> next_seq, payload |-> payload]}
    /\ next_seq' = next_seq + 1

\* EventQueue::pop, for the event e it returns.
Pop(e) ==
    /\ Top(e)
    /\ heap' = heap \ {e}
    /\ UNCHANGED next_seq

================================================================================
