-------------------------------- MODULE Backfill --------------------------------
(***************************************************************************)
(* The two queue policies behind the QueuePolicy interface                 *)
(* (sched/queue_policy.hpp): which waiting job may go around a blocked     *)
(* head.  A policy sees projections of the jobs and never their true       *)
(* durations:                                                              *)
(*   backlog  a sequence of [id, request, estimated_duration]              *)
(*   running  a set of [id, node, held, estimated_finish]                  *)
(*   nodes    what is free on every node                                   *)
(* ShadowLoop translates shadow_time's sort-and-scan literally, on a       *)
(* running vector in any order, and is checked against ShadowTime here.    *)
(***************************************************************************)
EXTENDS Placement, Sums, Sequences

CONSTANT kNever  \* the Tick no event has

\* Ticks that have happened are naturals; kNever is none of them.
ASSUME NeverAssumption == kNever \notin Nat

\* queue_policy_names() of sched/queue_factory.cpp.
QueuePolicyNames == {"fifo", "backfill"}

\* A variant that asks whether the request fits an empty node.
FitsEmptyNode(request, nodes) == \E n \in NodeId : CanFit(Capacity, request)

\* fits_anywhere of sched/queue_policy.hpp.
FitsAnywhere(request, nodes) == \E n \in NodeId : CanFit(nodes[n], request)

--------------------------------------------------------------------------------

\* What node n has free once every job predicted to end by t has ended.
FreeAt(n, t, nodes, running) ==
    LET Ended == {r \in running : r.node = n /\ r.estimated_finish <= t}
    IN  [d \in Dim |-> nodes[n][d] + SumOver(Ended, [r \in Ended |-> r.held[d]])]

\* The predicted ends at which some node would have room for the request.
RoomTimes(request, nodes, running) ==
    {t \in {r.estimated_finish : r \in running} :
        \E r \in running : /\ r.estimated_finish = t
                           /\ CanFit(FreeAt(r.node, t, nodes, running), request)}

\* shadow_time: the earliest tick at which the request could be placed if
\* every running job ended at its estimated finish and nothing else started.
ShadowTime(request, nodes, running, now) ==
    LET times == RoomTimes(request, nodes, running)
    IN  IF FitsAnywhere(request, nodes) THEN now
        ELSE IF times = {} THEN kNever
        ELSE CHOOSE t \in times : \A u \in times : t <= u

\* The variant backfill.hpp warns of: run the first job that fits.
AdmissibleIfFits(candidate, shadow, nodes, now) ==
    FitsAnywhere(candidate.request, nodes)

\* A variant that wants the machine back before the head is due.
AdmissibleEarlier(candidate, shadow, nodes, now) ==
    /\ now + candidate.estimated_duration < shadow
    /\ FitsAnywhere(candidate.request, nodes)

\* A candidate is admitted when it is predicted to be gone before the head's
\* reservation comes due, and fits somewhere right now.
Admissible(candidate, shadow, nodes, now) ==
    /\ now + candidate.estimated_duration <= shadow
    /\ FitsAnywhere(candidate.request, nodes)

\* BackfillQueuePolicy::backfill: the first admissible job behind the head,
\* and none when the head has no reservation at all.
EasyBackfill(backlog, nodes, running, now) ==
    LET shadow == ShadowTime(backlog[1].request, nodes, running, now)
        Admitted(i) == Admissible(backlog[i], shadow, nodes, now)
    IN  IF Len(backlog) < 2 THEN {}
        ELSE IF shadow = kNever THEN {}
        ELSE {backlog[i].id : i \in {k \in 2 .. Len(backlog) :
                                        Admitted(k) /\ \A h \in 2 .. k - 1 : ~ Admitted(h)}}

\* QueuePolicy::backfill of the policy make_queue_policy returns for a name.
BackfillPick(policy, backlog, nodes, running, now) ==
    CASE policy = "fifo"     -> {}
      [] policy = "backfill" -> EasyBackfill(backlog, nodes, running, now)

================================================================================
