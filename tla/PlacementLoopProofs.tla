--------------------------- MODULE PlacementLoopProofs ---------------------------
(***************************************************************************)
(* The four scans of PlacementLoops select what Placement says they do, on *)
(* a cluster of any size with any resources, and so keep the contract of   *)
(* sched/scheduler.hpp.                                                    *)
(***************************************************************************)
EXTENDS PlacementLoops, OperatorProofs

Fits(n) == CanFit(nodes[n], request)

--------------------------------------------------------------------------------
(* The cursor of round_robin *)

\* A number below k is its own remainder, with or without k added.
LEMMA SmallRemainder ==
    ASSUME NEW k \in Nat \ {0}, NEW a \in 0 .. k - 1
    PROVE  a % k = a /\ (a + k) % k = a
<1>. DEFINE r == a % k
            q == (a + k) % k
<1>1. a \in Int /\ a + k \in Int
  OBVIOUS
<1>2. a = k * (a \div k) + r /\ a \div k \in Int /\ r \in 0 .. k - 1
  BY <1>1, Quotient
<1>3. a + k = k * ((a + k) \div k) + q /\ (a + k) \div k \in Int /\ q \in 0 .. k - 1
  BY <1>1, Quotient
<1>. DEFINE u == a \div k
            v == (a + k) \div k
<1>. HIDE DEF r, q, u, v
<1>4. u \in Int /\ k * u = a - r
  BY <1>2 DEF u
<1>5. u = 0
  BY <1>2, <1>4, SmallMultiple
<1>6. v \in Int /\ k * v = a + k - q /\ q \in Int /\ 0 <= q /\ q < k
  BY <1>3 DEF v
<1>7. v - 1 = 0
  <2>1. v - 1 \in Int /\ k * (v - 1) = a - q
    BY <1>6
  <2>2. a - q < k /\ 0 - k < a - q
    BY <1>6
  <2>. QED  BY <2>1, <2>2, SmallMultiple
<1>8. r = a /\ q = a
  BY <1>2, <1>4, <1>5, <1>6, <1>7
<1>. QED  BY <1>8 DEF r, q

\* The node the cursor comes to after c others is the one of index c, and the
\* last one it comes to is the one it began at.
LEMMA CursorMoves ==
    ASSUME NEW s \in NodeId, NEW c \in 0 .. NodeCount - 1
    PROVE  /\ (s + c + 1) % NodeCount \in NodeId
           /\ ScanIndex(s, (s + c + 1) % NodeCount) = c
           /\ (s + c + 1) % NodeCount = s <=> c = NodeCount - 1
<1>. DEFINE n == (s + c + 1) % NodeCount
<1>0. NodeCount \in Nat \ {0} /\ s \in Nat /\ s < NodeCount
  BY NodesAssumption DEF NodeId
<1>1. CASE s + c + 1 < NodeCount
  <2>1. n = s + c + 1
    BY <1>0, <1>1, SmallRemainder
  <2>2. n + NodeCount - s - 1 = c + NodeCount
    BY <1>0, <2>1
  <2>3. ScanIndex(s, n) = c
    BY <1>0, <2>2, SmallRemainder DEF ScanIndex
  <2>. QED  BY <1>0, <1>1, <2>1, <2>3 DEF NodeId
<1>2. CASE ~ (s + c + 1 < NodeCount)
  <2>1. n = s + c + 1 - NodeCount
    <3>1. s + c + 1 - NodeCount \in 0 .. NodeCount - 1
      BY <1>0, <1>2
    <3>2. (s + c + 1 - NodeCount) + NodeCount = s + c + 1
      BY <1>0
    <3>. QED  BY <1>0, <3>1, <3>2, SmallRemainder
  <2>2. n + NodeCount - s - 1 = c
    BY <1>0, <2>1
  <2>3. ScanIndex(s, n) = c
    BY <1>0, <2>2, SmallRemainder DEF ScanIndex
  <2>. QED  BY <1>0, <1>2, <2>1, <2>3 DEF NodeId
<1>. QED  BY <1>1, <1>2

--------------------------------------------------------------------------------
(* The running best of least_loaded and resource_aware *)

Extra == IF scheduler = "least_loaded" THEN NoRequest ELSE request

\* The share a node is scored by, and whether one node scores better.
ShareOf(n) == DominantShare(UsedWith(Extra, nodes[n]))

Beats(n, m) == IF scheduler = "least_loaded" THEN ShareLess(ShareOf(n), ShareOf(m))
                                             ELSE ShareLess(ShareOf(m), ShareOf(n))

\* The nodes with room among the first c, and the one of these to choose.
Seen(c) == {n \in Fitting(request, nodes) : n < c}

Chosen(c) ==
    {n \in Seen(c) : \A m \in Seen(c) : ~ Beats(m, n) /\ (m < n => Beats(n, m))}

--------------------------------------------------------------------------------

\* What the call was made with.
CallInv ==
    /\ scheduler \in SchedulerNames
    /\ request \in Resources
    /\ nodes \in [NodeId -> FreeLevel]
    /\ start_pos \in NodeId \cup {0}
    /\ pos \in Nat
    /\ count \in 0 .. NodeCount

\* Where a scan stands that has not returned.
ScanInv ==
    pc = "scan" =>
        /\ scheduler = "first_fit" => best = {} /\ Seen(count) = {} /\ pos = start_pos
        /\ scheduler = "round_robin" =>
            /\ best = {}
            /\ \A n \in NodeId : ScanIndex(start_pos, n) < count => ~ Fits(n)
            /\ NodeCount # 0 => count < NodeCount /\ pos = (start_pos + count) % NodeCount
            /\ NodeCount = 0 => pos = start_pos
        /\ scheduler \in {"least_loaded", "resource_aware"} =>
            /\ pos = start_pos
            /\ best = Chosen(count) /\ (best = {} => Seen(count) = {})
            /\ \A n \in best : best = {n} /\ best_share = ShareOf(n)

LoopInv == CallInv /\ ScanInv /\ pc \in {"scan", "returned"} /\ LoopsSelect

--------------------------------------------------------------------------------

\* Scores are numbers, so that to beat is to have the smaller one.
LEMMA Ranks ==
    ASSUME CallInv
    PROVE  \E rank : \A n, m \in Fitting(request, nodes) :
               rank[n] \in Int /\ (Beats(n, m) <=> rank[n] < rank[m])
<1>. DEFINE F == Fitting(request, nodes)
            used(n) == UsedWith(Extra, nodes[n])
            low == scheduler = "least_loaded"
            rank == [n \in F |-> IF low THEN Score(used(n)) ELSE 0 - Score(used(n))]
<1>1. ASSUME NEW n \in F
      PROVE  used(n) \in Resources
  <2>1. nodes[n] \in FreeLevel
    BY FittingType DEF CallInv
  <2>2. Extra \in Resources
    BY DEF CallInv, Extra, NoRequest, Resources
  <2>3. \A d \in Dim : Capacity[d] - nodes[n][d] + Extra[d] \in Nat
    BY <2>1, <2>2, NodesAssumption DEF FreeLevel, Resources
  <2>. QED  BY <2>3 DEF UsedWith, Plus, Minus, Resources
<1>2. ASSUME NEW n \in F, NEW m \in F
      PROVE  rank[n] \in Int /\ (Beats(n, m) <=> rank[n] < rank[m])
  <2>1. /\ Score(used(n)) \in Nat /\ Score(used(m)) \in Nat
        /\ ShareLess(ShareOf(n), ShareOf(m)) <=> Score(used(n)) < Score(used(m))
        /\ ShareLess(ShareOf(m), ShareOf(n)) <=> Score(used(m)) < Score(used(n))
    <3>1. used(n) \in Resources /\ used(m) \in Resources
      BY <1>1
    <3>. QED  BY <3>1, ShareIsScore DEF ShareOf
  <2>2. /\ rank[n] = (IF low THEN Score(used(n)) ELSE 0 - Score(used(n)))
        /\ rank[m] = (IF low THEN Score(used(m)) ELSE 0 - Score(used(m)))
        /\ Beats(n, m) <=> IF low THEN ShareLess(ShareOf(n), ShareOf(m))
                                  ELSE ShareLess(ShareOf(m), ShareOf(n))
    BY DEF Beats
  <2>. HIDE DEF rank, used, low
  <2>. QED  BY <2>1, <2>2
<1>. HIDE DEF rank
<1>. QED  BY <1>2

\* Looking at one more node keeps the best so far, or replaces it.
LEMMA BestOfOneMore ==
    ASSUME CallInv, count < NodeCount, Chosen(count) = {} => Seen(count) = {}
    PROVE  /\ ~ Fits(count) => Chosen(count + 1) = Chosen(count) /\ Seen(count + 1) = Seen(count)
           /\ Fits(count) /\ Chosen(count) = {} => Chosen(count + 1) = {count}
           /\ \A b \in Chosen(count) : Fits(count) =>
                Chosen(count + 1) = IF Beats(count, b) THEN {count} ELSE {b}
<1>. DEFINE F == Fitting(request, nodes)
            c == count
<1>1. c \in Nat /\ c \in NodeId /\ F \subseteq Nat
  BY NodesAssumption, FittingType DEF CallInv, NodeId
<1>2. c \in F <=> Fits(c)
  BY <1>1 DEF Fitting, Fits
<1>3. Seen(c + 1) = Seen(c) \cup (F \cap {c})
  BY <1>1 DEF Seen
<1>4. PICK rank : \A n, m \in F : rank[n] \in Int /\ (Beats(n, m) <=> rank[n] < rank[m])
  BY Ranks
<1>5. Seen(c) \subseteq F /\ \A n \in Seen(c) : n < c /\ ~ (c < n) /\ n # c
  BY <1>1 DEF Seen
<1>6. CASE ~ Fits(c)
  <2>1. Seen(c + 1) = Seen(c)
    BY <1>2, <1>3, <1>6
  <2>. QED  BY <1>6, <2>1 DEF Chosen
<1>7. CASE Fits(c)
  <2>1. Seen(c + 1) = Seen(c) \cup {c} /\ c \in F
    BY <1>2, <1>3, <1>7
  <2>2. ~ Beats(c, c) /\ ~ (c < c)
    BY <1>1, <1>4, <2>1
  <2>3. ASSUME Chosen(c) = {}
        PROVE  Chosen(c + 1) = {c}
    <3>1. Seen(c + 1) = {c}
      BY <2>1, <2>3
    <3>. QED  BY <2>2, <3>1 DEF Chosen
  <2>4. ASSUME NEW b \in Chosen(c)
        PROVE  Chosen(c + 1) = IF Beats(c, b) THEN {c} ELSE {b}
    <3>1. /\ b \in Seen(c) /\ b < c /\ ~ (c < b) /\ b # c
          /\ \A m \in Seen(c) : ~ Beats(m, b) /\ (m < b => Beats(b, m))
      BY <1>5, <2>4 DEF Chosen
    <3>2. \A n \in Seen(c) : n \in Nat /\ n \in F
      BY <1>1, <1>5
    <3>3. \A n \in Seen(c) : n \in Chosen(c + 1) => n = b
      <4>1. SUFFICES ASSUME NEW n \in Seen(c), n \in Chosen(c + 1), n # b
                     PROVE  FALSE
        OBVIOUS
      <4>2. ~ Beats(b, n) /\ (b < n => Beats(n, b))
        BY <2>1, <3>1, <4>1 DEF Chosen
      <4>3. ~ Beats(n, b) /\ (n < b => Beats(b, n))
        BY <3>1, <4>1
      <4>4. n < b \/ b < n
        BY <3>1, <3>2, <4>1
      <4>. QED  BY <4>2, <4>3, <4>4
    <3>4. CASE Beats(c, b)
      <4>1. ASSUME NEW m \in Seen(c)
            PROVE  ~ Beats(m, c) /\ Beats(c, m)
        <5>1. ~ Beats(m, b) /\ m \in F /\ b \in F /\ c \in F
          BY <2>1, <3>1, <3>2
        <5>. QED  BY <1>4, <3>4, <5>1
      <4>2. c \in Chosen(c + 1)
        BY <2>1, <2>2, <4>1 DEF Chosen
      <4>3. b \notin Chosen(c + 1)
        BY <2>1, <3>4 DEF Chosen
      <4>4. Chosen(c + 1) = {c}
        BY <2>1, <3>3, <4>2, <4>3 DEF Chosen
      <4>. QED  BY <3>4, <4>4
    <3>5. CASE ~ Beats(c, b)
      <4>1. b \in Chosen(c + 1)
        BY <2>1, <3>1, <3>5 DEF Chosen
      <4>2. c \notin Chosen(c + 1)
        BY <2>1, <3>1, <3>5 DEF Chosen
      <4>3. Chosen(c + 1) = {b}
        BY <2>1, <3>3, <4>1, <4>2 DEF Chosen
      <4>. QED  BY <3>5, <4>3
    <3>. QED  BY <3>4, <3>5
  <2>. QED  BY <1>7, <2>3, <2>4
<1>. QED  BY <1>6, <1>7

\* After all nodes, the best is the one of the policy.
LEMMA BestOfAll ==
    ASSUME CallInv, scheduler \in {"least_loaded", "resource_aware"}
    PROVE  Chosen(NodeCount) = Place(scheduler, request, nodes, start_pos)
<1>1. Seen(NodeCount) = Fitting(request, nodes)
  BY NodesAssumption DEF Seen, Fitting, NodeId
<1>2. CASE scheduler = "least_loaded"
  BY <1>1, <1>2 DEF Chosen, Beats, ShareOf, Extra, Place, LeastLoaded
<1>3. CASE scheduler = "resource_aware"
  BY <1>1, <1>3 DEF Chosen, Beats, ShareOf, Extra, Place, ResourceAware
<1>. QED  BY <1>2, <1>3

--------------------------------------------------------------------------------
(* The invariant *)

LEMMA LoopInit == Init => LoopInv
<1>. SUFFICES ASSUME Init PROVE LoopInv
  OBVIOUS
<1>1. CallInv
  <2>1. FreeLevels \subseteq FreeLevel
    BY LoopsAssumption DEF FreeLevel
  <2>2. start_pos \in NodeId \cup {0} /\ pos \in Nat
    BY NodesAssumption DEF Init, NodeId
  <2>. QED  BY <2>1, <2>2, LoopsAssumption, NodesAssumption DEF Init, CallInv
<1>2. Seen(0) = {} /\ Chosen(0) = {}
  BY FittingType DEF Seen, Chosen
<1>3. scheduler = "round_robin" =>
        /\ \A n \in NodeId : ~ (ScanIndex(start_pos, n) < 0)
        /\ NodeCount # 0 => start_pos = (start_pos + 0) % NodeCount
  <2>1. \A n \in NodeId : ScanIndex(start_pos, n) \in Nat
    <3>1. ASSUME NEW n \in NodeId
          PROVE  NodeCount \in Nat \ {0} /\ n + NodeCount - start_pos - 1 \in Int
      BY <1>1, NodesAssumption DEF CallInv, NodeId
    <3>. QED  BY <3>1, Quotient DEF ScanIndex
  <2>2. NodeCount # 0 => start_pos \in 0 .. NodeCount - 1 /\ NodeCount \in Nat \ {0}
    BY <1>1, NodesAssumption DEF CallInv, NodeId
  <2>3. NodeCount # 0 => start_pos % NodeCount = start_pos /\ start_pos + 0 = start_pos
    BY <2>2, SmallRemainder
  <2>. QED  BY <2>1, <2>3
<1>. QED  BY <1>1, <1>2, <1>3, NodesAssumption DEF Init, LoopInv, ScanInv, LoopsSelect

\* first_fit stops at the first node with room.
LEMMA FirstFitKeeps ==
    ASSUME LoopInv, ScanFirstFit
    PROVE  LoopInv'
<1>1. /\ count < NodeCount /\ count \in Nat /\ count \in NodeId /\ Seen(count) = {} /\ best = {}
      /\ pos = start_pos /\ pc = "scan" /\ NodeCount \in Nat
  BY NodesAssumption DEF ScanFirstFit, Scanning, LoopInv, CallInv, ScanInv, NodeId
<1>2. CallInv'
  BY <1>1 DEF LoopInv, CallInv, ScanFirstFit, call
<1>3. \A n \in Fitting(request, nodes) : n \in Nat /\ ~ (n < count)
  BY <1>1, FittingType DEF Seen
<1>4. CASE Fits(count)
  <2>1. FirstFit(request, nodes) = {count}
    <3>1. count \in Fitting(request, nodes)
      BY <1>1, <1>4 DEF Fitting, Fits
    <3>2. \A m \in Fitting(request, nodes) : count <= m /\ (m <= count => m = count)
      BY <1>1, <1>3
    <3>. QED  BY <3>1, <3>2 DEF FirstFit
  <2>2. best' = Place(scheduler, request, nodes, start_pos) /\ pos' = start_pos /\ pc' = "returned"
    BY <1>1, <1>4, <2>1 DEF ScanFirstFit, Fits, Place
  <2>. QED  BY <1>2, <2>2
            DEF LoopInv, ScanInv, LoopsSelect, CursorAfter, ScanFirstFit, call
<1>5. CASE ~ Fits(count)
  <2>1. Seen(count + 1) = {}
    <3>1. \A n \in Fitting(request, nodes) : n # count
      BY <1>5 DEF Fitting, Fits
    <3>2. \A n \in Fitting(request, nodes) : ~ (n < count + 1)
      BY <1>1, <1>3, <3>1
    <3>. QED  BY <3>2 DEF Seen
  <2>2. Seen(count)' = {}
    BY <2>1 DEF Seen, ScanFirstFit, call
  <2>3. best' = {} /\ pc' = "scan" /\ pos' = start_pos'
    BY <1>1, <1>5 DEF ScanFirstFit, Fits, call
  <2>. QED  BY <1>2, <2>2, <2>3 DEF LoopInv, ScanInv, LoopsSelect, ScanFirstFit, call
<1>. QED  BY <1>4, <1>5

\* round_robin stops at the first node with room after its cursor, and where
\* it began if there is none.
LEMMA RoundRobinKeeps ==
    ASSUME LoopInv, ScanRoundRobin
    PROVE  LoopInv'
<1>. DEFINE n == (start_pos + count + 1) % NodeCount
<1>1. /\ count < NodeCount /\ count \in Nat /\ pc = "scan" /\ best = {}
      /\ NodeCount \in Nat \ {0} /\ start_pos \in NodeId /\ start_pos \in Nat
      /\ start_pos < NodeCount /\ pos = (start_pos + count) % NodeCount
      /\ \A m \in NodeId : ScanIndex(start_pos, m) < count => ~ Fits(m)
  BY NodesAssumption DEF ScanRoundRobin, Scanning, LoopInv, CallInv, ScanInv, NodeId
<1>2. pos' = n
  <2>1. CASE start_pos + count < NodeCount
    <3>1. pos = start_pos + count
      BY <1>1, <2>1, SmallRemainder
    <3>. QED  BY <1>1, <3>1 DEF ScanRoundRobin
  <2>2. CASE ~ (start_pos + count < NodeCount)
    <3>1. /\ start_pos + count - NodeCount \in 0 .. NodeCount - 1
          /\ start_pos + count + 1 - NodeCount \in 0 .. NodeCount - 1
          /\ (start_pos + count - NodeCount) + NodeCount = start_pos + count
          /\ (start_pos + count + 1 - NodeCount) + NodeCount = start_pos + count + 1
          /\ (start_pos + count - NodeCount) + 1 = start_pos + count + 1 - NodeCount
      BY <1>1, <2>2
    <3>2. pos = start_pos + count - NodeCount
      BY <1>1, <3>1, SmallRemainder
    <3>3. n = start_pos + count + 1 - NodeCount
      BY <1>1, <3>1, SmallRemainder
    <3>4. (start_pos + count + 1 - NodeCount) % NodeCount = start_pos + count + 1 - NodeCount
      BY <1>1, <3>1, SmallRemainder
    <3>. QED  BY <3>1, <3>2, <3>3, <3>4 DEF ScanRoundRobin
  <2>. QED  BY <2>1, <2>2
<1>3. /\ n \in NodeId /\ ScanIndex(start_pos, n) = count
      /\ n = start_pos <=> count = NodeCount - 1
  <2>1. count \in 0 .. NodeCount - 1
    BY <1>1
  <2>. QED  BY <1>1, <2>1, CursorMoves
<1>. HIDE DEF n
<1>4. \A m \in NodeId : ScanIndex(start_pos, m) \in 0 .. NodeCount - 1
  <2>1. ASSUME NEW m \in NodeId
        PROVE  m + NodeCount - start_pos - 1 \in Int
    BY <1>1 DEF NodeId
  <2>2. \A z \in Int : z % NodeCount \in 0 .. NodeCount - 1
    BY <1>1
  <2>. QED  BY <2>1, <2>2 DEF ScanIndex
<1>5. CallInv'
  BY <1>1, <1>2, <1>3 DEF LoopInv, CallInv, ScanRoundRobin, call, NodeId
<1>6. CASE Fits(n)
  <2>1. RoundRobin(request, nodes, start_pos) = {n}
    <3>1. n \in Fitting(request, nodes)
      BY <1>3, <1>6 DEF Fitting, Fits
    <3>2. \A m \in Fitting(request, nodes) : m \in NodeId /\ Fits(m)
      BY DEF Fitting, Fits
    <3>3. ASSUME NEW m \in Fitting(request, nodes)
          PROVE  ScanIndex(start_pos, n) <= ScanIndex(start_pos, m)
      <4>1. ~ (ScanIndex(start_pos, m) < count) /\ ScanIndex(start_pos, m) \in 0 .. NodeCount - 1
        BY <1>1, <1>4, <3>2
      <4>. QED  BY <1>1, <1>3, <4>1
    <3>4. n \in RoundRobin(request, nodes, start_pos)
      BY <3>1, <3>3 DEF RoundRobin
    <3>5. ASSUME NEW m \in RoundRobin(request, nodes, start_pos)
          PROVE  m = n
      <4>1. ScanIndex(start_pos, m) <= ScanIndex(start_pos, n) /\ m \in NodeId
        BY <3>1, <3>2, <3>5 DEF RoundRobin
      <4>2. ScanIndex(start_pos, n) <= ScanIndex(start_pos, m)
        BY <3>3, <3>5 DEF RoundRobin
      <4>3. ScanIndex(start_pos, m) = ScanIndex(start_pos, n)
        BY <1>3, <1>4, <4>1, <4>2
      <4>. QED  BY <1>1, <1>3, <4>1, <4>3, ScanIndexInjective
    <3>. QED  BY <3>4, <3>5
  <2>2. best' = {n} /\ pc' = "returned"
    BY <1>2, <1>6 DEF ScanRoundRobin, Fits
  <2>3. scheduler = "round_robin" /\ Place(scheduler, request, nodes, start_pos) = {n}
    BY <2>1 DEF ScanRoundRobin, Place
  <2>4. CursorAfter(scheduler, {n}, start_pos) = n
    BY <2>3 DEF CursorAfter
  <2>5. LoopsSelect'
    BY <1>2, <2>2, <2>3, <2>4 DEF LoopsSelect, ScanRoundRobin, call
  <2>. QED  BY <1>5, <2>2, <2>5 DEF LoopInv, ScanInv
<1>7. CASE ~ Fits(n)
  <2>1. ASSUME NEW m \in NodeId, ScanIndex(start_pos, m) < count + 1
        PROVE  ~ Fits(m)
    <3>1. CASE ScanIndex(start_pos, m) < count
      BY <1>1, <3>1
    <3>2. CASE ~ (ScanIndex(start_pos, m) < count)
      <4>1. ScanIndex(start_pos, m) = ScanIndex(start_pos, n)
        BY <1>1, <1>3, <1>4, <2>1, <3>2
      <4>. QED  BY <1>1, <1>3, <1>7, <4>1, ScanIndexInjective
    <3>. QED  BY <3>1, <3>2
  <2>2. best' = {} /\ pc' = (IF n = start_pos THEN "returned" ELSE "scan")
    BY <1>1, <1>2, <1>7 DEF ScanRoundRobin, Fits
  <2>3. CASE n = start_pos
    <3>1. \A m \in NodeId : ~ Fits(m)
      BY <1>1, <1>3, <1>4, <2>1, <2>3
    <3>2. RoundRobin(request, nodes, start_pos) = {}
      BY <3>1 DEF RoundRobin, Fitting, Fits
    <3>3. scheduler = "round_robin" /\ Place(scheduler, request, nodes, start_pos) = {}
      BY <3>2 DEF ScanRoundRobin, Place
    <3>4. LoopsSelect'
      BY <1>2, <2>2, <2>3, <3>3 DEF LoopsSelect, ScanRoundRobin, call, CursorAfter
    <3>. QED  BY <1>5, <2>2, <2>3, <3>4 DEF LoopInv, ScanInv
  <2>4. CASE n # start_pos
    <3>1. count + 1 < NodeCount
      BY <1>1, <1>3, <2>4
    <3>2. pos' = (start_pos + (count + 1)) % NodeCount
      BY <1>1, <1>2 DEF n
    <3>3. \A m \in NodeId : ScanIndex(start_pos, m) < count + 1 => ~ Fits(m)
      BY <2>1
    <3>4. ScanInv'
      BY <1>1, <2>2, <2>4, <3>1, <3>2, <3>3 DEF ScanInv, ScanRoundRobin, call, Fits
    <3>. QED  BY <1>5, <2>2, <2>4, <3>4 DEF LoopInv, LoopsSelect
  <2>. QED  BY <2>3, <2>4
<1>. QED  BY <1>6, <1>7

\* The other two look at every node and keep the best.
LEMMA BestKeeps ==
    ASSUME LoopInv, ScanBest
    PROVE  LoopInv'
<1>1. /\ count < NodeCount /\ count \in Nat /\ pc = "scan" /\ pc' = "scan"
      /\ scheduler \in {"least_loaded", "resource_aware"}
      /\ best = Chosen(count) /\ (best = {} => Seen(count) = {})
      /\ \A b \in best : best = {b} /\ best_share = ShareOf(b)
      /\ pos = start_pos /\ CallInv
  BY DEF ScanBest, Scanning, LoopInv, CallInv, ScanInv
<1>2. CallInv'
  BY <1>1, NodesAssumption DEF CallInv, ScanBest, call
<1>3. /\ scheduler' = scheduler /\ request' = request /\ nodes' = nodes
      /\ start_pos' = start_pos /\ pos' = pos /\ count' = count + 1
  BY DEF ScanBest, call
<1>4. /\ ~ Fits(count) => Chosen(count + 1) = Chosen(count) /\ Seen(count + 1) = Seen(count)
      /\ Fits(count) /\ Chosen(count) = {} => Chosen(count + 1) = {count}
      /\ \A b \in Chosen(count) : Fits(count) =>
           Chosen(count + 1) = IF Beats(count, b) THEN {count} ELSE {b}
  BY <1>1, BestOfOneMore
<1>5. IF Fits(count) /\ Better(ShareOf(count))
      THEN best' = {count} /\ best_share' = ShareOf(count)
      ELSE best' = best /\ best_share' = best_share
  BY DEF ScanBest, Fits, ShareOf, Extra
<1>6. \A b \in best : Better(ShareOf(count)) <=> Beats(count, b)
  BY <1>1 DEF Better, Beats
<1>7. /\ best' = Chosen(count + 1) /\ (best' = {} => Seen(count + 1) = {})
      /\ \A b \in best' : best' = {b} /\ best_share' = ShareOf(b)
  <2>1. CASE ~ Fits(count)
    BY <1>1, <1>4, <1>5, <2>1
  <2>2. CASE Fits(count) /\ best = {}
    <3>1. Better(ShareOf(count))
      BY <2>2 DEF Better
    <3>. QED  BY <1>1, <1>4, <1>5, <2>2, <3>1
  <2>3. CASE Fits(count) /\ best # {}
    <3>1. PICK b \in best : TRUE
      BY <2>3
    <3>2. Chosen(count + 1) = IF Beats(count, b) THEN {count} ELSE {b}
      BY <1>1, <1>4, <2>3, <3>1
    <3>3. best = {b} /\ best_share = ShareOf(b)
      BY <1>1, <3>1
    <3>. QED  BY <1>5, <1>6, <2>3, <3>1, <3>2, <3>3
  <2>. QED  BY <2>1, <2>2, <2>3
<1>8. /\ Chosen(count)' = Chosen(count + 1) /\ Seen(count)' = Seen(count + 1)
      /\ \A b : ShareOf(b)' = ShareOf(b)
  BY <1>3 DEF Chosen, Seen, Beats, ShareOf, Extra
<1>9. ScanInv'
  BY <1>1, <1>3, <1>7, <1>8 DEF ScanInv
<1>. QED  BY <1>1, <1>2, <1>9 DEF LoopInv, LoopsSelect

\* A scan that has looked at every node returns what it has.
LEMMA EndKeeps ==
    ASSUME LoopInv, ScanEnds
    PROVE  LoopInv'
<1>1. /\ pc = "scan" /\ count = NodeCount /\ pc' = "returned" /\ NodeCount \in Nat
      /\ best' = best /\ pos' = pos /\ count' = count
      /\ scheduler' = scheduler /\ request' = request /\ nodes' = nodes /\ start_pos' = start_pos
      /\ CallInv /\ ScanInv /\ scheduler \in SchedulerNames
  BY NodesAssumption DEF ScanEnds, call, LoopInv, CallInv
<1>2. CallInv'
  BY <1>1 DEF CallInv
<1>3. best = Place(scheduler, request, nodes, start_pos)
      /\ pos = CursorAfter(scheduler, best, start_pos)
  <2>1. CASE scheduler = "first_fit"
    <3>1. Fitting(request, nodes) = {}
      BY <1>1, <2>1 DEF ScanInv, Seen, Fitting, NodeId
    <3>. QED  BY <1>1, <2>1, <3>1 DEF ScanInv, Place, FirstFit, CursorAfter
  <2>2. CASE scheduler = "round_robin"
    <3>1. NodeCount = 0 /\ best = {} /\ pos = start_pos
      BY <1>1, <2>2 DEF ScanInv
    <3>2. NodeId = {}
      BY <3>1 DEF NodeId
    <3>. QED  BY <2>2, <3>1, <3>2 DEF Place, RoundRobin, Fitting, CursorAfter
  <2>3. CASE scheduler \in {"least_loaded", "resource_aware"}
    <3>1. best = Chosen(NodeCount) /\ pos = start_pos
      BY <1>1, <2>3 DEF ScanInv
    <3>. QED  BY <1>1, <2>3, <3>1, BestOfAll DEF CursorAfter
  <2>. QED  BY <1>1, <2>1, <2>2, <2>3 DEF SchedulerNames
<1>4. LoopsSelect'
  BY <1>1, <1>3 DEF LoopsSelect
<1>. QED  BY <1>1, <1>2, <1>4 DEF LoopInv, ScanInv

LEMMA LoopKeeps == LoopInv /\ [Next]_loopVars => LoopInv'
<1>. SUFFICES ASSUME LoopInv, [Next]_loopVars PROVE LoopInv'
  OBVIOUS
<1>1. CASE UNCHANGED loopVars
  BY <1>1 DEF LoopInv, CallInv, ScanInv, LoopsSelect, loopVars, Seen, Chosen, Fits, Beats,
              ShareOf, Extra
<1>. QED  BY <1>1, FirstFitKeeps, RoundRobinKeeps, BestKeeps, EndKeeps DEF Next

--------------------------------------------------------------------------------

\* Every loop returns the node, and leaves the cursor where, Placement says:
\* on a cluster of any size, whatever is asked for and whatever is free.
THEOREM LoopsSelectTheNode == Spec => []LoopsSelect
<1>1. LoopInv => LoopsSelect
  BY DEF LoopInv
<1>. QED  BY <1>1, LoopInit, LoopKeeps, PTL DEF Spec

\* So every loop keeps the contract of Scheduler::place: the node it returns
\* has room, and it returns none only if no node has (scheduler_contract_test.cpp).
THEOREM LoopsKeepContract == Spec => []PlaceContract
<1>1. LoopInv => PlaceContract
  <2>1. ASSUME CallInv
        PROVE  /\ Place(scheduler, request, nodes, start_pos) \subseteq Fitting(request, nodes)
               /\ Place(scheduler, request, nodes, start_pos) = {}
                    <=> Fitting(request, nodes) = {}
    <3>1. start_pos \in Nat
      BY <2>1, NodesAssumption DEF CallInv, NodeId
    <3>. QED  BY <2>1, <3>1, PlacementContract DEF CallInv
  <2>. QED  BY <2>1 DEF LoopInv, LoopsSelect, PlaceContract
<1>. QED  BY <1>1, LoopInit, LoopKeeps, PTL DEF Spec

================================================================================
