---------------------------- MODULE ShadowLoopProofs ----------------------------
(***************************************************************************)
(* The sort-and-scan of shadow_time computes ShadowTime, on a cluster of   *)
(* any size with any jobs running on it, and finds nothing only for a      *)
(* request that no empty node could hold.                                  *)
(***************************************************************************)
EXTENDS ShadowLoop, OperatorProofs

\* The running jobs of a node, and what a set of jobs holds.
There(m) == {r \in running : r.node = m}

HeldBy(S, d) == SumOver(S, [r \in S |-> r.held[d]])

\* What a node has free once the jobs of S have handed it back.
FreedBy(m, S) == [d \in Dim |-> nodes[m][d] + HeldBy(S, d)]

\* The predicted ends at which node m has room, and those of the nodes before n.
RoomOn(m) ==
    {t \in Nat : \E r \in There(m) :
        r.estimated_finish = t /\ CanFit(FreeAt(m, t, nodes, running), request)}

RoomBefore(k) == UNION {RoomOn(m) : m \in 0 .. k - 1}

\* What best is of a set of ticks.
Least(b, T) == IF T = {} THEN b = kNever ELSE b \in T /\ \A t \in T : b <= t

\* The jobs that have handed their resources back.
Gone == {r \in There(n) : \A a \in DOMAIN on_node : on_node[a] # r}

ArgumentsInv ==
    /\ request \in Requests
    /\ running \in RunningSets
    /\ nodes = [m \in NodeId |-> FreeUnder(running, m)]
    /\ now \in Nat

\* The nodes before n had no room at once, and best is the first of their ends.
ScanInv ==
    /\ n \in 0 .. NodeCount
    /\ \A m \in 0 .. n - 1 : ~ CanFit(nodes[m], request)
    /\ Least(best, RoomBefore(n))

\* Nor have the jobs that are gone made room on node n, and they are the first
\* in the order of the sort.
GiveBackInv ==
    /\ n \in NodeId
    /\ ~ CanFit(nodes[n], request)
    /\ on_node \in Seq(There(n))
    /\ \A a, b \in 1 .. Len(on_node) : a < b => EndsFirst(on_node[a], on_node[b])
    /\ \A r \in Gone : \A a \in 1 .. Len(on_node) : EndsFirst(r, on_node[a])
    /\ spare = FreedBy(n, Gone)
    /\ ~ CanFit(spare, request)

LoopInv ==
    /\ ArgumentsInv
    /\ pc \in {"node", "give_back", "returned"}
    /\ pc # "returned" => ScanInv
    /\ pc = "give_back" => GiveBackInv
    /\ LoopFindsShadowTime

--------------------------------------------------------------------------------
(* What nodes have free *)

LEMMA ArgumentFacts ==
    ASSUME ArgumentsInv
    PROVE  /\ request \in Resources /\ IsFiniteSet(running)
           /\ \A r \in running : /\ r.id \in Nat /\ r.node \in NodeId
                                 /\ r.held \in Resources /\ r.estimated_finish \in Nat
           /\ \A m \in NodeId : /\ nodes[m] \in Resources
                                /\ \A d \in Dim : nodes[m][d] + HeldBy(There(m), d) = Capacity[d]
<1>1. /\ request \in Resources /\ IsFiniteSet(running)
      /\ \A r \in running : /\ r.id \in Nat /\ r.node \in NodeId
                            /\ r.held \in Resources /\ r.estimated_finish \in Nat
  BY ShadowAssumption DEF ArgumentsInv
<1>2. ASSUME NEW m \in NodeId, NEW d \in Dim
      PROVE  nodes[m][d] \in Nat /\ nodes[m][d] + HeldBy(There(m), d) = Capacity[d]
  <2>1. HeldOn(running, m, d) = HeldBy(There(m), d)
    BY DEF HeldOn, HeldBy, There
  <2>2. HeldBy(There(m), d) \in Nat
    <3>1. IsFiniteSet(There(m))
      BY <1>1, FS_Subset DEF There
    <3>2. \A r \in There(m) : r.held[d] \in Nat
      BY <1>1 DEF There, Resources
    <3>. QED  BY <3>1, <3>2, SumType DEF HeldBy
  <2>3. HeldOn(running, m, d) <= Capacity[d] /\ Capacity[d] \in Nat
    BY ShadowAssumption, NodesAssumption DEF ArgumentsInv
  <2>4. nodes[m][d] = Capacity[d] - HeldOn(running, m, d)
    BY DEF ArgumentsInv, FreeUnder
  <2>. QED  BY <2>1, <2>2, <2>3, <2>4
<1>3. \A m \in NodeId : nodes[m] = [d \in Dim |-> nodes[m][d]]
  BY DEF ArgumentsInv, FreeUnder
<1>. QED  BY <1>1, <1>2, <1>3 DEF Resources

\* More jobs hand back more.
LEMMA FreedMonotone ==
    ASSUME ArgumentsInv, NEW m \in NodeId, NEW T, T \subseteq running, NEW S, S \subseteq T,
           CanFit(FreedBy(m, S), request)
    PROVE  CanFit(FreedBy(m, T), request)
<1>. SUFFICES ASSUME NEW d \in Dim PROVE request[d] <= FreedBy(m, T)[d]
  BY DEF CanFit
<1>1. IsFiniteSet(T) /\ IsFiniteSet(S)
  BY ArgumentFacts, FS_Subset
<1>. DEFINE f == [r \in T |-> r.held[d]]
            g == [r \in S |-> r.held[d]]
<1>2. (\A r \in T : f[r] \in Nat) /\ (\A r \in S : g[r] \in Nat) /\ \A r \in S : f[r] = g[r]
  BY ArgumentFacts DEF Resources
<1>3. HeldBy(T, d) = SumOver(T, f) /\ HeldBy(S, d) = SumOver(S, g)
  BY DEF HeldBy
<1>. HIDE DEF f, g
<1>4. SumOver(S, f) <= SumOver(T, f) /\ SumOver(S, f) = SumOver(S, g)
  BY <1>1, <1>2, SumMonotone, SumCongruence
<1>5. SumOver(T, f) \in Nat /\ SumOver(S, g) \in Nat
  BY <1>1, <1>2, SumType
<1>6. request[d] \in Nat /\ nodes[m][d] \in Nat
  BY ArgumentFacts DEF Resources
<1>7. request[d] <= nodes[m][d] + HeldBy(S, d)
  BY DEF CanFit, FreedBy
<1>. QED  BY <1>3, <1>4, <1>5, <1>6, <1>7 DEF FreedBy

\* Nobody gone, nothing is freed.
LEMMA NobodyGone ==
    ASSUME ArgumentsInv, NEW m \in NodeId
    PROVE  FreedBy(m, {}) = nodes[m]
<1>1. \A d \in Dim : HeldBy({}, d) = 0
  BY SumEmpty DEF HeldBy
<1>2. nodes[m] = [d \in Dim |-> nodes[m][d]] /\ \A d \in Dim : nodes[m][d] \in Nat
  BY ArgumentFacts DEF Resources
<1>. QED  BY <1>1, <1>2 DEF FreedBy

\* One job more.
LEMMA OneMoreGone ==
    ASSUME ArgumentsInv, NEW m \in NodeId, NEW S, S \subseteq running, NEW r \in running \ S
    PROVE  Plus(FreedBy(m, S), r.held) = FreedBy(m, S \cup {r})
<1>1. ASSUME NEW d \in Dim
      PROVE  FreedBy(m, S)[d] + r.held[d] = FreedBy(m, S \cup {r})[d]
  <2>1. IsFiniteSet(S) /\ IsFiniteSet(S \cup {r})
    BY ArgumentFacts, FS_Subset
  <2>. DEFINE f == [x \in S \cup {r} |-> x.held[d]]
              g == [x \in S |-> x.held[d]]
  <2>2. (\A x \in S \cup {r} : f[x] \in Nat) /\ (\A x \in S : f[x] = g[x]) /\ f[r] = r.held[d]
    BY ArgumentFacts DEF Resources
  <2>3. HeldBy(S \cup {r}, d) = SumOver(S \cup {r}, f) /\ HeldBy(S, d) = SumOver(S, g)
    BY DEF HeldBy
  <2>. HIDE DEF f, g
  <2>4. SumOver(S \cup {r}, f) = SumOver(S, f) + f[r] /\ SumOver(S, f) = SumOver(S, g)
    BY <2>1, <2>2, SumAdd, SumCongruence
  <2>5. SumOver(S, f) \in Nat /\ f[r] \in Nat /\ nodes[m][d] \in Nat
    BY <2>1, <2>2, SumType, ArgumentFacts DEF Resources
  <2>. QED  BY <2>2, <2>3, <2>4, <2>5 DEF FreedBy
<1>. QED  BY <1>1 DEF Plus, FreedBy

\* What is free at a tick is what those predicted to end by then have freed.
Ended(m, t) == {r \in There(m) : r.estimated_finish <= t}

LEMMA FreeAtIsFreed ==
    ASSUME NEW m, NEW t
    PROVE  FreeAt(m, t, nodes, running) = FreedBy(m, Ended(m, t))
<1>1. Ended(m, t) = {r \in running : r.node = m /\ r.estimated_finish <= t}
  BY DEF Ended, There
<1>. QED  BY <1>1 DEF FreeAt, FreedBy, HeldBy

LEMMA RoomOnIs ==
    ASSUME ArgumentsInv, NEW m, NEW t
    PROVE  t \in RoomOn(m) <=> /\ \E r \in There(m) : r.estimated_finish = t
                               /\ CanFit(FreedBy(m, Ended(m, t)), request)
<1>1. \A r \in There(m) : r.estimated_finish \in Nat
  BY ArgumentFacts DEF There
<1>. QED  BY <1>1, FreeAtIsFreed DEF RoomOn

--------------------------------------------------------------------------------
(* The least of the ends *)

LEMMA RoomIsTicks == (\A m : RoomOn(m) \subseteq Nat) /\ \A k : RoomBefore(k) \subseteq Nat
  BY DEF RoomOn, RoomBefore

LEMMA OneNodeMore ==
    ASSUME n \in NodeId
    PROVE  RoomBefore(n + 1) = RoomBefore(n) \cup RoomOn(n)
<1>1. 0 .. (n + 1) - 1 = (0 .. n - 1) \cup {n}
  BY NodesAssumption DEF NodeId
<1>. QED  BY <1>1 DEF RoomBefore

\* The node adds no tick.
LEMMA LeastStays ==
    ASSUME n \in NodeId, Least(best, RoomBefore(n)), RoomOn(n) = {}
    PROVE  Least(best, RoomBefore(n + 1))
  BY OneNodeMore

\* The node adds ticks, of which e is the first.
LEMMA LeastMoves ==
    ASSUME n \in NodeId, Least(best, RoomBefore(n)), NEW e, Least(e, RoomOn(n)), RoomOn(n) # {}
    PROVE  Least(Earlier(best, e), RoomBefore(n + 1))
<1>1. RoomBefore(n + 1) = RoomBefore(n) \cup RoomOn(n)
  BY OneNodeMore
<1>2. RoomBefore(n) \subseteq Nat /\ RoomOn(n) \subseteq Nat /\ e \in RoomOn(n)
  BY RoomIsTicks DEF Least
<1>3. CASE best = kNever
  <2>1. RoomBefore(n) = {}
    BY <1>2, <1>3, NeverAssumption DEF Least
  <2>. QED  BY <1>1, <1>3, <2>1 DEF Least, Earlier
<1>4. CASE best # kNever
  <2>1. best \in RoomBefore(n) /\ \A t \in RoomBefore(n) : best <= t
    BY <1>4 DEF Least
  <2>2. \A t \in RoomOn(n) : e <= t
    BY DEF Least
  <2>3. Earlier(best, e) = IF e < best THEN e ELSE best
    BY <1>4 DEF Earlier
  <2>. QED  BY <1>1, <1>2, <2>1, <2>2, <2>3 DEF Least
<1>. QED  BY <1>3, <1>4

--------------------------------------------------------------------------------
(* The loops *)

LEMMA LoopStarts == Init => LoopInv
<1>. SUFFICES ASSUME Init PROVE LoopInv
  OBVIOUS
<1>1. ArgumentsInv
  BY DEF Init, ArgumentsInv
<1>2. ScanInv
  <2>1. 0 .. n - 1 = {} /\ n \in 0 .. NodeCount
    BY NodesAssumption DEF Init
  <2>2. RoomBefore(n) = {}
    BY <2>1 DEF RoomBefore
  <2>. QED  BY <2>1, <2>2 DEF Init, ScanInv, Least
<1>. QED  BY <1>1, <1>2 DEF Init, LoopInv, LoopFindsShadowTime

\* Arguments do not change in a call.
LEMMA CallKept ==
    ASSUME LoopInv, UNCHANGED call
    PROVE  /\ ArgumentsInv'
           /\ \A m, S : FreedBy(m, S)' = FreedBy(m, S)
           /\ \A m : There(m)' = There(m)
           /\ \A k : RoomBefore(k)' = RoomBefore(k)
  BY DEF LoopInv, call, ArgumentsInv, FreedBy, HeldBy, There, RoomBefore, RoomOn

LEMMA EnterKeeps ==
    ASSUME LoopInv, EnterNode
    PROVE  LoopInv'
<1>0. /\ ArgumentsInv /\ ScanInv /\ UNCHANGED <<call, n>> /\ n < NodeCount
      /\ UNCHANGED <<request, running, nodes, now>>
  BY DEF EnterNode, LoopInv, call
<1>1. n \in NodeId
  BY <1>0, NodesAssumption DEF ScanInv, NodeId
<1>2. CASE CanFit(nodes[n], request)
  <2>1. best' = now /\ pc' = "returned"
    BY <1>2 DEF EnterNode
  <2>2. ShadowTime(request, nodes, running, now) = now
    BY <1>1, <1>2 DEF ShadowTime, FitsAnywhere
  <2>3. LoopFindsShadowTime'
    BY <1>0, <2>1, <2>2 DEF LoopFindsShadowTime
  <2>. QED  BY <1>0, <2>1, <2>3, CallKept DEF LoopInv
<1>3. CASE ~ CanFit(nodes[n], request)
  <2>1. /\ on_node' \in Sorted(There(n)) /\ spare' = nodes[n] /\ pc' = "give_back"
        /\ best' = best
    BY <1>3 DEF EnterNode, There
  <2>2. /\ on_node' \in [1 .. Cardinality(There(n)) -> There(n)]
        /\ \A a, b \in DOMAIN on_node' : a < b => EndsFirst(on_node'[a], on_node'[b])
    BY <2>1 DEF Sorted
  <2>3. IsFiniteSet(There(n)) /\ Cardinality(There(n)) \in Nat
    BY <1>0, ArgumentFacts, FS_Subset, FS_CardinalityType DEF There
  <2>4. on_node' \in Seq(There(n)) /\ DOMAIN on_node' = 1 .. Len(on_node')
        /\ Len(on_node') = Cardinality(There(n))
    BY <2>2, <2>3
  <2>5. \A r \in There(n) : \E a \in DOMAIN on_node' : on_node'[a] = r
    <3>. DEFINE size == Cardinality(There(n))
    <3>1. \A r \in There(n) : r.id \in Nat /\ r.estimated_finish \in Nat
      BY <1>0, ArgumentFacts DEF There
    <3>2. \A a, b \in 1 .. size : on_node'[a] = on_node'[b] => a = b
      <4>1. \A a, b \in 1 .. size : a < b => EndsFirst(on_node'[a], on_node'[b])
        BY <2>2
      <4>2. \A r \in There(n) : ~ EndsFirst(r, r)
        BY <3>1 DEF EndsFirst
      <4>3. \A a \in 1 .. size : on_node'[a] \in There(n)
        BY <2>2
      <4>4. \A a, b \in 1 .. size : a = b \/ a < b \/ b < a
        BY <2>3
      <4>. QED  BY <4>1, <4>2, <4>3, <4>4
    <3>3. on_node' \in Injection(1 .. size, There(n))
      BY <2>2, <3>2 DEF Injection, IsInjective
    <3>4. IsFiniteSet(1 .. size) /\ Cardinality(1 .. size) = size
      BY <2>3, FS_Interval
    <3>5. on_node' \in Surjection(1 .. size, There(n))
      BY <2>3, <3>3, <3>4, FS_Injection
    <3>. QED  BY <2>2, <3>5 DEF Surjection
  <2>6. Gone' = {}
    BY <1>0, <2>5, CallKept DEF Gone
  <2>7. FreedBy(n, {}) = nodes[n]
    BY <1>0, <1>1, NobodyGone
  <2>8. (spare = FreedBy(n, Gone))'
    BY <1>0, <2>1, <2>6, <2>7, CallKept
  <2>9. GiveBackInv'
    <3>1. There(n)' = There(n)
      BY <1>0, CallKept
    <3>2. \A a, b \in 1 .. Len(on_node') : a < b => EndsFirst(on_node'[a], on_node'[b])
      BY <2>2, <2>4
    <3>. QED  BY <1>0, <1>1, <1>3, <2>1, <2>4, <2>6, <2>8, <3>1, <3>2
              DEF GiveBackInv
  <2>10. ScanInv'
    BY <1>0, <2>1, CallKept DEF ScanInv
  <2>. QED  BY <1>0, <2>1, <2>9, <2>10, CallKept DEF LoopInv, LoopFindsShadowTime
<1>. QED  BY <1>2, <1>3

\* The head of what is left of a node, and those gone with it.
LEMMA HeadFacts ==
    ASSUME LoopInv, pc = "give_back", on_node # <<>>
    PROVE  LET r == Head(on_node)
           IN  /\ r \in There(n) /\ r \notin Gone /\ Gone \subseteq There(n)
               /\ \A q \in Gone : EndsFirst(q, r)
               /\ \A q \in There(n) : q \in Gone \/ q = r \/ EndsFirst(r, q)
               /\ Plus(spare, r.held) = FreedBy(n, Gone \cup {r})
<1>0. ArgumentsInv /\ GiveBackInv
  BY DEF LoopInv
<1>1. on_node \in Seq(There(n)) /\ Len(on_node) \in Nat \ {0} /\ DOMAIN on_node = 1 .. Len(on_node)
  BY <1>0 DEF GiveBackInv
<1>. DEFINE r == Head(on_node)
<1>2. r = on_node[1] /\ 1 \in 1 .. Len(on_node) /\ r \in There(n)
  BY <1>1
<1>3. r \notin Gone /\ Gone \subseteq There(n)
  BY <1>1, <1>2 DEF Gone
<1>4. \A q \in Gone : EndsFirst(q, r)
  BY <1>0, <1>2 DEF GiveBackInv
<1>5. ASSUME NEW q \in There(n), q \notin Gone, q # r
      PROVE  EndsFirst(r, q)
  <2>1. PICK a \in 1 .. Len(on_node) : on_node[a] = q
    BY <1>1, <1>5 DEF Gone
  <2>2. 1 < a
    BY <1>2, <1>5, <2>1
  <2>. QED  BY <1>0, <1>2, <2>1, <2>2 DEF GiveBackInv
<1>6. There(n) \subseteq running
  BY DEF There
<1>7. Plus(spare, r.held) = FreedBy(n, Gone \cup {r})
  <2>1. n \in NodeId /\ spare = FreedBy(n, Gone)
    BY <1>0 DEF GiveBackInv
  <2>2. Gone \subseteq running /\ r \in running \ Gone
    BY <1>2, <1>3, <1>6
  <2>. HIDE DEF r
  <2>. QED  BY <1>0, <2>1, <2>2, OneMoreGone
<1>. QED  BY <1>2, <1>3, <1>4, <1>5, <1>7

LEMMA GiveBackKeeps ==
    ASSUME LoopInv, GiveBack
    PROVE  LoopInv'
<1>. DEFINE r == Head(on_node)
            now_gone == Gone \cup {r}
<1>0. /\ ArgumentsInv /\ ScanInv /\ GiveBackInv /\ UNCHANGED call
      /\ UNCHANGED <<request, running, nodes, now>>
      /\ pc = "give_back" /\ on_node # <<>> /\ n \in NodeId
  BY DEF GiveBack, LoopInv, call, GiveBackInv
<1>1. /\ r \in There(n) /\ r \notin Gone /\ Gone \subseteq There(n)
      /\ \A q \in Gone : EndsFirst(q, r)
      /\ \A q \in There(n) : q \in Gone \/ q = r \/ EndsFirst(r, q)
      /\ spare' = FreedBy(n, now_gone)
  BY <1>0, HeadFacts DEF GiveBack
<1>2. \A q \in There(n) : q.id \in Nat /\ q.estimated_finish \in Nat /\ q \in running
  BY <1>0, ArgumentFacts DEF There
<1>. HIDE DEF r
<1>3. CASE CanFit(spare', request)
  <2>1. /\ best' = Earlier(best, r.estimated_finish) /\ n' = n + 1 /\ pc' = "node"
    BY <1>0, <1>3 DEF GiveBack, call, r
  <2>2. r.estimated_finish \in RoomOn(n)
    <3>1. now_gone \subseteq Ended(n, r.estimated_finish)
      BY <1>1, <1>2 DEF Ended, EndsFirst
    <3>2. Ended(n, r.estimated_finish) \subseteq running
      BY <1>2 DEF Ended
    <3>3. CanFit(FreedBy(n, Ended(n, r.estimated_finish)), request)
      BY <1>0, <1>1, <1>3, <3>1, <3>2, FreedMonotone
    <3>. QED  BY <1>0, <1>1, <3>3, RoomOnIs
  <2>3. ASSUME NEW t \in RoomOn(n)
        PROVE  r.estimated_finish <= t
    <3>1. SUFFICES ASSUME t < r.estimated_finish PROVE FALSE
      BY <1>1, <1>2, RoomIsTicks
    <3>2. Ended(n, t) \subseteq Gone
      <4>1. ASSUME NEW q \in Ended(n, t) PROVE q \in Gone
        <5>1. q \in There(n) /\ q.estimated_finish <= t /\ t \in Nat
          BY RoomIsTicks DEF Ended
        <5>2. ~ EndsFirst(r, q) /\ q # r
          BY <1>1, <1>2, <3>1, <5>1 DEF EndsFirst
        <5>. QED  BY <1>1, <5>1, <5>2
      <4>. QED  BY <4>1
    <3>3. CanFit(FreedBy(n, Ended(n, t)), request)
      BY <1>0, RoomOnIs
    <3>4. Gone \subseteq running
      BY <1>1, <1>2
    <3>5. CanFit(FreedBy(n, Gone), request)
      BY <1>0, <3>2, <3>3, <3>4, FreedMonotone
    <3>. QED  BY <1>0, <3>5 DEF GiveBackInv
  <2>4. Least(r.estimated_finish, RoomOn(n)) /\ RoomOn(n) # {}
    BY <2>2, <2>3 DEF Least
  <2>5. Least(best', RoomBefore(n + 1))
    BY <1>0, <2>1, <2>4, LeastMoves DEF ScanInv
  <2>6. ScanInv'
    <3>1. n' \in 0 .. NodeCount /\ 0 .. n' - 1 = (0 .. n - 1) \cup {n}
      BY <1>0, <2>1, NodesAssumption DEF NodeId
    <3>2. \A m \in 0 .. n' - 1 : ~ CanFit(nodes[m], request)
      BY <1>0, <3>1 DEF ScanInv, GiveBackInv
    <3>3. Least(best, RoomBefore(n))'
      <4>1. RoomBefore(n)' = RoomBefore(n + 1)
        BY <1>0, <2>1, CallKept
      <4>. QED  BY <2>5, <4>1 DEF Least
    <3>. QED  BY <1>0, <3>1, <3>2, <3>3 DEF ScanInv
  <2>. QED  BY <1>0, <2>1, <2>6, CallKept DEF LoopInv, LoopFindsShadowTime
<1>4. CASE ~ CanFit(spare', request)
  <2>1. on_node' = Tail(on_node) /\ UNCHANGED <<best, n, pc>>
    BY <1>0, <1>4 DEF GiveBack, call
  <2>2. on_node \in Seq(There(n)) /\ Len(on_node) \in Nat \ {0} /\ DOMAIN on_node = 1 .. Len(on_node)
    BY <1>0 DEF GiveBackInv
  <2>3. /\ on_node' \in Seq(There(n)) /\ Len(on_node') = Len(on_node) - 1
        /\ DOMAIN on_node' = 1 .. Len(on_node')
        /\ \A a \in 1 .. Len(on_node') : on_node'[a] = on_node[a + 1] /\ a + 1 \in 1 .. Len(on_node)
    BY <2>1, <2>2
  <2>4. \A a \in 1 .. Len(on_node) : a = 1 \/ (a - 1 \in 1 .. Len(on_node') /\ on_node'[a - 1] = on_node[a])
    BY <2>2, <2>3
  <2>5. r = on_node[1] /\ \A a \in 2 .. Len(on_node) : EndsFirst(r, on_node[a])
    BY <1>0, <2>2 DEF r, GiveBackInv
  <2>6. Gone' = now_gone
    <3>1. There(n)' = There(n)
      BY <1>0, <2>1, CallKept
    <3>2. \A a \in 1 .. Len(on_node') : on_node'[a] # r
      <4>1. ~ EndsFirst(r, r)
        BY <1>1, <1>2 DEF EndsFirst
      <4>2. \A a \in 1 .. Len(on_node') : a + 1 \in 2 .. Len(on_node)
        BY <2>2, <2>3
      <4>. QED  BY <2>3, <2>5, <4>1, <4>2
    <3>3. ASSUME NEW q \in There(n)
          PROVE  (\A a \in 1 .. Len(on_node') : on_node'[a] # q) <=> (q \in Gone \/ q = r)
      <4>1. (q \in Gone) <=> \A a \in 1 .. Len(on_node) : on_node[a] # q
        BY <2>2 DEF Gone
      <4>. QED  BY <2>2, <2>3, <2>4, <2>5, <3>2, <4>1
    <3>4. Gone' = {q \in There(n) : \A a \in 1 .. Len(on_node') : on_node'[a] # q}
      BY <2>3, <3>1 DEF Gone
    <3>. QED  BY <1>1, <3>3, <3>4
  <2>7. GiveBackInv'
    <3>1. There(n)' = There(n) /\ (spare = FreedBy(n, Gone))'
      BY <1>0, <1>1, <2>1, <2>6, CallKept
    <3>2. \A a, b \in 1 .. Len(on_node') : a < b => EndsFirst(on_node'[a], on_node'[b])
      BY <1>0, <2>2, <2>3 DEF GiveBackInv
    <3>3. \A q \in now_gone : \A a \in 1 .. Len(on_node') : EndsFirst(q, on_node'[a])
      <4>1. \A a \in 1 .. Len(on_node') : a + 1 \in 2 .. Len(on_node)
        BY <2>2, <2>3
      <4>. QED  BY <1>0, <2>3, <2>5, <4>1 DEF GiveBackInv
    <3>. QED  BY <1>0, <1>4, <2>1, <2>3, <2>6, <3>1, <3>2, <3>3 DEF GiveBackInv
  <2>8. ScanInv'
    BY <1>0, <2>1, CallKept DEF ScanInv
  <2>. QED  BY <1>0, <2>1, <2>7, <2>8, CallKept DEF LoopInv, LoopFindsShadowTime
<1>. QED  BY <1>3, <1>4

LEMMA LeaveKeeps ==
    ASSUME LoopInv, LeaveNode
    PROVE  LoopInv'
<1>0. /\ ArgumentsInv /\ ScanInv /\ GiveBackInv /\ UNCHANGED call
      /\ UNCHANGED <<request, running, nodes, now>> /\ n \in NodeId
      /\ on_node = <<>> /\ n' = n + 1 /\ pc' = "node" /\ best' = best
  BY DEF LeaveNode, LoopInv, call, GiveBackInv
<1>1. Gone = There(n)
  BY <1>0 DEF Gone
<1>2. RoomOn(n) = {}
  <2>1. ASSUME NEW t \in RoomOn(n) PROVE FALSE
    <3>1. CanFit(FreedBy(n, Ended(n, t)), request)
      BY <1>0, RoomOnIs
    <3>2. Ended(n, t) \subseteq Gone /\ Gone \subseteq running
      BY <1>1 DEF Ended, There
    <3>3. CanFit(FreedBy(n, Gone), request)
      BY <1>0, <3>1, <3>2, FreedMonotone
    <3>. QED  BY <1>0, <3>3 DEF GiveBackInv
  <2>. QED  BY <2>1
<1>3. Least(best, RoomBefore(n + 1))
  BY <1>0, <1>2, LeastStays DEF ScanInv
<1>4. ScanInv'
  <2>1. n' \in 0 .. NodeCount /\ 0 .. n' - 1 = (0 .. n - 1) \cup {n}
    BY <1>0, NodesAssumption DEF NodeId
  <2>2. \A m \in 0 .. n' - 1 : ~ CanFit(nodes[m], request)
    BY <1>0, <2>1 DEF ScanInv, GiveBackInv
  <2>3. Least(best, RoomBefore(n))'
    <3>1. RoomBefore(n)' = RoomBefore(n + 1)
      BY <1>0, CallKept
    <3>. QED  BY <1>0, <1>3, <3>1 DEF Least
  <2>. QED  BY <1>0, <2>1, <2>2, <2>3 DEF ScanInv
<1>. QED  BY <1>0, <1>4, CallKept DEF LoopInv, LoopFindsShadowTime

LEMMA LastKeeps ==
    ASSUME LoopInv, LastNode
    PROVE  LoopInv'
<1>0. /\ ArgumentsInv /\ ScanInv /\ UNCHANGED call
      /\ UNCHANGED <<request, running, nodes, now, best>>
      /\ n = NodeCount /\ pc' = "returned"
  BY DEF LastNode, LoopInv, call
<1>1. ~ FitsAnywhere(request, nodes)
  BY <1>0 DEF ScanInv, FitsAnywhere, NodeId
<1>2. RoomTimes(request, nodes, running) = RoomBefore(n)
  <2>1. \A r \in running : r.node \in NodeId /\ r.estimated_finish \in Nat
    BY <1>0, ArgumentFacts
  <2>2. NodeId = 0 .. n - 1
    BY <1>0 DEF NodeId
  <2>3. ASSUME NEW t
        PROVE  t \in RoomTimes(request, nodes, running) <=> \E m \in NodeId : t \in RoomOn(m)
    BY <2>1 DEF RoomTimes, RoomOn, There
  <2>. QED  BY <2>2, <2>3 DEF RoomBefore
<1>3. best = ShadowTime(request, nodes, running, now)
  <2>. DEFINE T == RoomBefore(n)
  <2>1. T \subseteq Nat /\ Least(best, T)
    BY <1>0, RoomIsTicks DEF ScanInv
  <2>2. ShadowTime(request, nodes, running, now) =
            IF T = {} THEN kNever ELSE CHOOSE t \in T : \A u \in T : t <= u
    BY <1>1, <1>2 DEF ShadowTime
  <2>. HIDE DEF T
  <2>3. CASE T = {}
    BY <2>1, <2>2, <2>3 DEF Least
  <2>4. CASE T # {}
    <3>. DEFINE least == CHOOSE t \in T : \A u \in T : t <= u
    <3>1. best \in T /\ \A u \in T : best <= u
      BY <2>1, <2>4 DEF Least
    <3>2. least \in T /\ \A u \in T : least <= u
      BY <3>1
    <3>. HIDE DEF least
    <3>3. least = best
      BY <2>1, <3>1, <3>2
    <3>. QED  BY <2>2, <2>4, <3>3 DEF least
  <2>. QED  BY <2>3, <2>4
<1>. QED  BY <1>0, <1>3, CallKept DEF LoopInv, LoopFindsShadowTime

LEMMA LoopInvariance == Spec => []LoopInv
<1>1. ASSUME LoopInv, [Next]_loopVars
      PROVE  LoopInv'
  <2>1. CASE UNCHANGED loopVars
    <3>1. UNCHANGED <<request, running, nodes, now, n, on_node, spare, best, pc>>
      BY <2>1 DEF loopVars
    <3>2. UNCHANGED call
      BY <3>1 DEF call
    <3>3. ScanInv => ScanInv'
      BY <1>1, <3>1, <3>2, CallKept DEF ScanInv
    <3>4. GiveBackInv => GiveBackInv'
      BY <3>1 DEF GiveBackInv, Gone, There, FreedBy, HeldBy
    <3>5. LoopFindsShadowTime => LoopFindsShadowTime'
      BY <3>1 DEF LoopFindsShadowTime
    <3>. QED  BY <1>1, <3>1, <3>2, <3>3, <3>4, <3>5, CallKept DEF LoopInv
  <2>. QED  BY <1>1, <2>1, EnterKeeps, GiveBackKeeps, LeaveKeeps, LastKeeps DEF Next
<1>. QED  BY <1>1, LoopStarts, PTL DEF Spec

\* The sort-and-scan finds the earliest predicted end at which some node has
\* room for the request, or now when one has room already.
THEOREM ScanFindsShadowTime == Spec => []LoopFindsShadowTime
<1>1. LoopInv => LoopFindsShadowTime
  BY DEF LoopInv
<1>. QED  BY <1>1, LoopInvariance, PTL

--------------------------------------------------------------------------------
(* kNever *)

\* There is a shadow time unless the request is larger than a node.
LEMMA ShadowExists ==
    ASSUME ArgumentsInv
    PROVE  ShadowTime(request, nodes, running, now) = kNever <=> ~ CanFit(Capacity, request)
<1>1. \A m \in NodeId : FreedBy(m, There(m)) = [d \in Dim |-> Capacity[d]]
  BY ArgumentFacts DEF FreedBy
<1>2. Capacity = [d \in Dim |-> Capacity[d]]
  BY NodesAssumption
<1>. DEFINE T == RoomTimes(request, nodes, running)
<1>3. \A r \in running : r.node \in NodeId /\ r.estimated_finish \in Nat /\ r \in There(r.node)
  BY ArgumentFacts DEF There
<1>4. \A t \in T : t \in Nat /\ \E m \in NodeId : t \in RoomOn(m)
  BY <1>3 DEF RoomTimes, RoomOn
<1>5. \A m \in NodeId : RoomOn(m) \subseteq T
  BY <1>3 DEF RoomTimes, RoomOn, There
<1>6. ASSUME CanFit(Capacity, request)
      PROVE  ShadowTime(request, nodes, running, now) # kNever
  <2>1. CASE FitsAnywhere(request, nodes)
    BY <2>1, NeverAssumption DEF ShadowTime, ArgumentsInv
  <2>2. CASE ~ FitsAnywhere(request, nodes)
    <3>1. 0 \in NodeId
      BY NodesAssumption, ShadowAssumption DEF NodeId
    <3>. DEFINE ends == {r.estimated_finish : r \in There(0)}
    <3>2. There(0) # {}
      <4>1. ASSUME There(0) = {} PROVE FALSE
        <5>1. nodes[0] = Capacity
          BY <1>1, <1>2, <3>1, <4>1, NobodyGone
        <5>. QED  BY <1>6, <2>2, <3>1, <5>1 DEF FitsAnywhere
      <4>. QED  BY <4>1
    <3>3. PICK t \in ends : \A u \in ends : t >= u
      <4>. DEFINE end == [r \in There(0) |-> r.estimated_finish]
      <4>1. IsFiniteSet(There(0)) /\ \A r \in There(0) : r.estimated_finish \in Nat
        BY ArgumentFacts, FS_Subset DEF There
      <4>2. IsFiniteSet({end[r] : r \in There(0)})
        BY <4>1, FiniteImage
      <4>3. ends = {end[r] : r \in There(0)} /\ ends \subseteq Nat /\ ends # {}
        BY <3>2, <4>1
      <4>. HIDE DEF ends, end
      <4>. QED  BY <4>2, <4>3, GreatestNat
    <3>4. Ended(0, t) = There(0)
      BY <1>3, <3>3 DEF Ended, There
    <3>5. t \in RoomOn(0)
      <4>1. \E r \in There(0) : r.estimated_finish = t
        BY <3>3
      <4>2. CanFit(FreedBy(0, Ended(0, t)), request)
        BY <1>1, <1>2, <1>6, <3>1, <3>4
      <4>. QED  BY <4>1, <4>2, RoomOnIs
    <3>6. T # {} /\ T \subseteq Nat
      BY <1>4, <1>5, <3>1, <3>5
    <3>7. ShadowTime(request, nodes, running, now) = CHOOSE s \in T : \A u \in T : s <= u
      BY <2>2, <3>6 DEF ShadowTime
    <3>. HIDE DEF T
    <3>8. (CHOOSE s \in T : \A u \in T : s <= u) \in T
      BY <3>6, LeastNat
    <3>. QED  BY <3>6, <3>7, <3>8, NeverAssumption
  <2>. QED  BY <2>1, <2>2
<1>7. ASSUME ~ CanFit(Capacity, request)
      PROVE  ShadowTime(request, nodes, running, now) = kNever
  <2>1. ASSUME NEW m \in NodeId, NEW S, S \subseteq There(m), CanFit(FreedBy(m, S), request)
        PROVE  FALSE
    <3>1. There(m) \subseteq running
      BY DEF There
    <3>2. CanFit(FreedBy(m, There(m)), request)
      BY <2>1, <3>1, FreedMonotone
    <3>. QED  BY <1>1, <1>2, <1>7, <3>2
  <2>2. ~ FitsAnywhere(request, nodes)
    <3>1. ASSUME NEW m \in NodeId, CanFit(nodes[m], request) PROVE FALSE
      <4>1. FreedBy(m, {}) = nodes[m] /\ {} \subseteq There(m)
        BY NobodyGone
      <4>. QED  BY <2>1, <3>1, <4>1
    <3>. QED  BY <3>1 DEF FitsAnywhere
  <2>3. T = {}
    <3>1. ASSUME NEW t \in T PROVE FALSE
      <4>1. PICK m \in NodeId : t \in RoomOn(m)
        BY <1>4
      <4>2. CanFit(FreedBy(m, Ended(m, t)), request)
        BY <4>1, RoomOnIs
      <4>. QED  BY <2>1, <4>2 DEF Ended
    <3>. QED  BY <3>1
  <2>. QED  BY <2>2, <2>3 DEF ShadowTime
<1>. QED  BY <1>6, <1>7

\* "kNever when no node could ever hold it even when empty" (backfill.hpp): the
\* scan finds nothing for no other request.
THEOREM NothingOnlyForTooLarge == Spec => []NeverMeansUnsatisfiable
<1>1. LoopInv => NeverMeansUnsatisfiable
  <2>. SUFFICES ASSUME LoopInv, pc = "returned"
                PROVE  best = kNever <=> ~ CanFit(Capacity, request)
    BY DEF NeverMeansUnsatisfiable
  <2>. QED  BY ShadowExists DEF LoopInv, LoopFindsShadowTime
<1>. QED  BY <1>1, LoopInvariance, PTL

================================================================================
