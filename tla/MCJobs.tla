---------------------------------- MODULE MCJobs ----------------------------------
(***************************************************************************)
(* How the instances checked by TLC write down nodes and jobs.             *)
(***************************************************************************)

MCCapacity == [cores |-> 4, memory_mb |-> 4]

Shape(cores, memory_mb, duration, estimated_duration) ==
    [request |-> [cores |-> cores, memory_mb |-> memory_mb],
     duration |-> duration, estimated_duration |-> estimated_duration]

Submitted(shape, time) ==
    [request |-> shape.request, duration |-> shape.duration,
     estimated_duration |-> shape.estimated_duration, submit_time |-> time]

================================================================================
