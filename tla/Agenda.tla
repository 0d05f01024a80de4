--------------------------------- MODULE Agenda ---------------------------------
(***************************************************************************)
(* What the event queue promises: an agenda, in the order in which its     *)
(* entries will be served.  An entry goes behind everything that is due no *)
(* later than itself; the first entry is served first.                     *)
(***************************************************************************)
EXTENDS Naturals, Sequences, FiniteSets

CONSTANTS
    Times,     \* the ticks events are scheduled at
    Payloads,  \* what events carry
    Nothing    \* what has been served before anything has

VARIABLES
    agenda,  \* the entries waiting, first to be served first
    served   \* the entry served last

\* agenda with entry e put behind its first k entries.
PutBehind(k, e) ==
    [i \in 1 .. Len(agenda) + 1 |->
        IF i <= k THEN agenda[i] ELSE IF i = k + 1 THEN e ELSE agenda[i - 1]]

Init == agenda = <<>> /\ served = Nothing

Enter(time, payload) ==
    LET e == [time |-> time, payload |-> payload]
        NotLater == {i \in DOMAIN agenda : agenda[i].time <= time}
    IN  /\ agenda' = PutBehind(Cardinality(NotLater), e)
        /\ UNCHANGED served

Serve ==
    /\ agenda # <<>>
    /\ served' = Head(agenda)
    /\ agenda' = Tail(agenda)

Next == Serve \/ \E time \in Times, payload \in Payloads : Enter(time, payload)

Spec == Init /\ [][Next]_<<agenda, served>>

================================================================================
