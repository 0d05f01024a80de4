-------------------------- MODULE MCWorkloadGenerator --------------------------
(***************************************************************************)
(* WorkloadGenerator on words of two bits and the four profiles of the     *)
(* code, with memory in units of 2048 MB and time in units of 30 s.        *)
(***************************************************************************)
EXTENDS WorkloadGenerator

\* kDefaultResources.
MCCapacity == [cores |-> 16, memory_mb |-> 32]

\* kJobProfiles.
MCProfiles ==
    <<[request |-> [cores |-> 1,  memory_mb |-> 1],  mean_duration |-> 1],
      [request |-> [cores |-> 4,  memory_mb |-> 4],  mean_duration |-> 4],
      [request |-> [cores |-> 16, memory_mb |-> 16], mean_duration |-> 20],
      [request |-> [cores |-> 4,  memory_mb |-> 24], mean_duration |-> 20]>>

\* -ln of 1/4, 2/4, 3/4 and 1.
MCMinusLn == [r \in 0 .. 3 |-> <<1386, 693, 288, 0>>[r + 1]]

================================================================================
