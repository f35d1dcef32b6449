-------------------------- MODULE SimulatorProofs ---------------------------
(***************************************************************************)
(* The simulated network, for every topology, every set of services and    *)
(* every schedule: the requests, routes, landings and pending effects of   *)
(* NetworkSim, whatever the faults do, what FaultInjector leaves of the    *)
(* fields it lays its faults over, and which paths PathSearch finds.       *)
(***************************************************************************)
EXTENDS NetworkSim, FaultInjector, PathSearch,
        FiniteSetTheorems, WellFoundedInduction, TLAPS

\* The counters of requests, and the sum that ties them together.
CountInv ==
    /\ queue \in [Service -> Nat] /\ inService \in [Service -> {0, 1}]
    /\ losses \in [Service -> Nat] /\ owed \in [Service -> Int]
    /\ rateLimit \in [Service -> RateLimits \cup {Unlimited}]
    /\ RequestsConserved

\* No request has been offered, served or lost before the first tick.
LEMMA CountInit == Init => CountInv
  BY DEF Init, CountInv, RequestsConserved

\* discard_requests moves the outstanding requests to the losses.
LEMMA DiscardCounts ==
  ASSUME CountInv, NEW s \in Service, discard_requests(s), UNCHANGED rateLimit
  PROVE  CountInv'
<1>1. /\ queue' \in [Service -> Nat] /\ inService' \in [Service -> {0, 1}]
      /\ losses' \in [Service -> Nat] /\ owed' = owed
  BY DEF discard_requests, CountInv
<1>2. ASSUME NEW t \in Service
      PROVE  owed'[t] = queue'[t] + inService'[t] + losses'[t]
  <2>1. owed[t] = queue[t] + inService[t] + losses[t]
    BY DEF CountInv, RequestsConserved
  <2>2. CASE t = s
    BY <1>1, <2>1, <2>2 DEF discard_requests, CountInv
  <2>3. CASE t # s
    BY <1>1, <2>1, <2>3 DEF discard_requests, CountInv
  <2>4. QED
    BY <2>2, <2>3
<1>3. QED
  BY <1>1, <1>2 DEF CountInv, RequestsConserved

\* A tick reports what it takes from the outstanding requests.
LEMMA ServeCounts ==
  ASSUME CountInv, NEW fp,
         NEW n \in [Service -> 0 .. MaxArrivals],
         NEW lost \in [Service -> 0 .. MaxArrivals],
         Serve(n, lost, fp), UNCHANGED rateLimit
  PROVE  CountInv'
<1>1. /\ queue' \in [Service -> 0 .. QueueCap] /\ inService' \in [Service -> {0, 1}]
      /\ losses' = [s \in Service |-> 0]
      /\ owed' = [s \in Service |-> owed[s] + n[s] - Reported(s, n[s], lost[s], fp)]
  BY DEF Serve
<1>2. ASSUME NEW s \in Service
      PROVE  owed'[s] \in Int /\ owed'[s] = queue'[s] + inService'[s] + losses'[s]
  <2>1. /\ queue[s] \in Nat /\ inService[s] \in {0, 1} /\ losses[s] \in Nat
        /\ owed[s] = queue[s] + inService[s] + losses[s]
        /\ n[s] \in Nat /\ lost[s] \in Nat
    BY NetworkAssumption DEF CountInv, RequestsConserved
  <2>2. Admitted(s, n[s]) \in Int
    <3>1. rateLimit[s] \in RateLimits \cup {Unlimited}
      BY DEF CountInv
    <3>2. rateLimit[s] # Unlimited => rateLimit[s] \in Nat
      BY <3>1, NetworkAssumption
    <3>3. QED
      BY <2>1, <3>2 DEF Admitted, Lesser
  <2>3. queue'[s] \in Nat /\ inService'[s] \in {0, 1} /\ losses'[s] = 0
    BY <1>1, NetworkAssumption
  <2>4. owed'[s] = owed[s] + n[s] - Reported(s, n[s], lost[s], fp)
    BY <1>1
  <2> DEFINE adm == Admitted(s, n[s])
  <2>5. CASE Refused(s, fp)
    <3>1. Left(s) = 0
      BY <2>5 DEF Serve
    <3>2. Reported(s, n[s], lost[s], fp) =
            n[s] - adm + losses[s] + lost[s] + (queue[s] + adm - lost[s] + inService[s])
      BY <2>5 DEF Reported, Waiting
    <3> HIDE DEF adm
    <3>3. QED
      BY <2>1, <2>2, <2>3, <2>4, <3>1, <3>2 DEF Left, adm
  <2>6. CASE ~Refused(s, fp)
    <3>1. Reported(s, n[s], lost[s], fp) =
            n[s] - adm + losses[s] + lost[s]
              + (queue[s] + adm - lost[s] + inService[s] - (queue'[s] + inService'[s]))
      BY <2>6 DEF Reported, Waiting, Left
    <3> HIDE DEF adm
    <3>2. QED
      BY <2>1, <2>2, <2>3, <2>4, <3>1 DEF adm
  <2>7. QED
    BY <2>5, <2>6
<1>3. queue' \in [Service -> Nat] /\ losses' \in [Service -> Nat]
  BY <1>1, NetworkAssumption
<1>4. owed' \in [Service -> Int]
  BY <1>1, <1>2
<1>5. QED
  BY <1>1, <1>2, <1>3, <1>4 DEF CountInv, RequestsConserved

\* Every step conserves the requests.
LEMMA CountStep == CountInv /\ [Next]_vars => CountInv'
<1> SUFFICES ASSUME CountInv, [Next]_vars PROVE CountInv'
  OBVIOUS
<1>1. CASE Migrate
  BY <1>1, DiscardCounts DEF Migrate, TakeDown
<1>2. CASE Restart
  BY <1>2, DiscardCounts DEF Restart, TakeDown
<1>3. CASE Throttle
  <2>1. PICK s \in Service, r \in RateLimits : rateLimit' = [rateLimit EXCEPT ![s] = r]
    BY <1>3 DEF Throttle
  <2>2. UNCHANGED requests
    BY <1>3 DEF Throttle
  <2>3. rateLimit' \in [Service -> RateLimits \cup {Unlimited}]
    BY <2>1 DEF CountInv
  <2>4. QED
    BY <2>2, <2>3 DEF CountInv, RequestsConserved, requests
<1>4. CASE Scale \/ Reroute \/ UNCHANGED vars
  <2>1. UNCHANGED <<requests, rateLimit>>
    BY <1>4 DEF Scale, Reroute, vars
  <2>2. QED
    BY <2>1 DEF CountInv, RequestsConserved, requests
<1>5. CASE Tick
  BY <1>5, ServeCounts DEF Tick
<1>6. QED
  BY <1>1, <1>2, <1>3, <1>4, <1>5 DEF Next

\* What engine.step and discard_requests count adds up in every state: each
\* request that arrived was reported completed, reported dropped, or is waiting.
THEOREM NoRequestVanishes == Spec => []RequestsConserved
<1>1. CountInv => RequestsConserved
  BY DEF CountInv
<1>2. QED
  BY <1>1, CountInit, CountStep, PTL DEF Spec

-----------------------------------------------------------------------------
\* A path route_to may answer is a simple path of that client and host, along
\* nodes and links that are up.
LEMMA RouteToWorks ==
  ASSUME NEW s \in Node, NEW h, NEW un, NEW ul, NEW p \in route_to(s, h, un, ul)
  PROVE  Simple(p, s, h) /\ Operational(p, s, un, ul)
<1>1. PICK r \in Routes : /\ r.path = p /\ r.source = s /\ r.host = h
                          /\ r.nodes \subseteq un /\ r.links \subseteq ul
  BY DEF route_to, OperationalPaths
<1>2. PICK q \in Paths, m \in Node :
        /\ Cardinality(Visited(q, m)) = Len(q) + 1
        /\ r = [path |-> q, source |-> m, host |-> Walk(q, m)[Len(q)],
                nodes |-> Visited(q, m), links |-> {q[k] : k \in 1 .. Len(q)}]
  BY <1>1 DEF Routes, RouteOf
<1>3. q = p /\ m = s
  BY <1>1, <1>2
<1>4. Walk(p, s)[Len(p)] = h /\ Visited(p, s) \subseteq un
      /\ {p[k] : k \in 1 .. Len(p)} \subseteq ul
  BY <1>1, <1>2, <1>3
<1>5. QED
  BY <1>2, <1>3, <1>4 DEF Simple, Operational

\* Where a service is after a tick: where it was, or where it landed.
LEMMA MoveLands ==
  ASSUME Move, NEW s \in Service
  PROVE  \/ host'[s] = host[s] /\ route'[s] = route[s]
         \/ route'[s] \in route_to(Source[s], host'[s], upNode', upLink')
<1> DEFINE alternatives == [t \in Service |->
             IF Landing(t) = {} THEN {<<host[t], route[t]>>} ELSE Landing(t)]
<1>1. PICK place \in FunctionsInto(alternatives) :
        /\ host' = [t \in Service |-> place[t][1]]
        /\ route' = [t \in Service |-> place[t][2]]
  BY DEF Move
<1>2. place[s] \in alternatives[s]
  BY <1>1 DEF FunctionsInto
<1>3. host'[s] = place[s][1] /\ route'[s] = place[s][2]
  BY <1>1
<1>4. CASE Landing(s) = {}
  BY <1>2, <1>3, <1>4
<1>5. CASE Landing(s) # {}
  <2>1. place[s] \in Landing(s)
    BY <1>2, <1>5
  <2>2. PICK t \in Arriving(s) \cap upNode' :
          place[s] \in {t} \X route_to(Source[s], t, upNode', upLink')
    BY <2>1 DEF Landing
  <2>3. place[s][1] = t /\ place[s][2] \in route_to(Source[s], t, upNode', upLink')
    BY <2>2
  <2>4. QED
    BY <1>3, <2>3
<1>6. QED
  BY <1>4, <1>5

\* A service arrives only where it can be served: _advance_pending_effects looks
\* at the target and the path again.
THEOREM ArrivesOnWorkingNode == Spec => LandsOnWorkingNode
<1> DEFINE Lands == \A s \in Service : host'[s] # host[s] =>
             ~path_error(route'[s], Source[s], host'[s], upNode', upLink')
<1>1. [Next]_vars => [Lands]_vars
  <2> SUFFICES ASSUME Next PROVE Lands
    OBVIOUS
  <2>1. CASE Tick
    <3> SUFFICES ASSUME NEW s \in Service, host'[s] # host[s]
                 PROVE  ~path_error(route'[s], Source[s], host'[s], upNode', upLink')
      OBVIOUS
    <3>1. route'[s] \in route_to(Source[s], host'[s], upNode', upLink')
      BY <2>1, MoveLands DEF Tick
    <3>2. Source[s] \in Node
      BY NetworkAssumption
    <3>3. QED
      BY <3>1, <3>2, RouteToWorks DEF path_error
  <2>2. CASE Migrate \/ Restart \/ Scale \/ Reroute \/ Throttle
    <3>1. host' = host
      BY <2>2 DEF Migrate, Restart, Scale, Reroute, Throttle, TakeDown, placement
    <3>2. QED
      BY <3>1
  <2>3. QED
    BY <2>1, <2>2 DEF Next
<1>2. QED
  BY <1>1, PTL DEF Spec, LandsOnWorkingNode

\* The routes as functions of the services, and where they lead.
RouteInv ==
    /\ host = [s \in Service |-> host[s]] /\ route = [s \in Service |-> route[s]]
    /\ RouteLeadsToHost

\* Every step leaves each route leading to its service's host.
LEMMA RouteStep == RouteInv /\ [Next]_vars => RouteInv'
<1> SUFFICES ASSUME RouteInv, [Next]_vars PROVE RouteInv'
  OBVIOUS
<1>1. CASE Tick
  <2>1. ASSUME NEW s \in Service PROVE Simple(route'[s], Source[s], host'[s])
    <3>1. CASE host'[s] = host[s] /\ route'[s] = route[s]
      BY <3>1 DEF RouteInv, RouteLeadsToHost
    <3>2. CASE route'[s] \in route_to(Source[s], host'[s], upNode', upLink')
      BY <3>2, RouteToWorks, NetworkAssumption
    <3>3. QED
      BY <1>1, <3>1, <3>2, MoveLands DEF Tick
  <2>2. host' = [s \in Service |-> host'[s]] /\ route' = [s \in Service |-> route'[s]]
    BY <1>1 DEF Tick, Move
  <2>3. QED
    BY <2>1, <2>2 DEF RouteInv, RouteLeadsToHost
<1>2. CASE Reroute
  <2>1. PICK s \in Service, p \in Paths :
          /\ ~path_error(p, Source[s], host[s], upNode, upLink)
          /\ route' = [route EXCEPT ![s] = p]
          /\ host' = host
    BY <1>2 DEF Reroute
  <2>2. Simple(p, Source[s], host[s])
    BY <2>1 DEF path_error
  <2>3. ASSUME NEW t \in Service PROVE Simple(route'[t], Source[t], host'[t])
    BY <2>1, <2>2 DEF RouteInv, RouteLeadsToHost
  <2>4. QED
    BY <2>1, <2>3 DEF RouteInv, RouteLeadsToHost
<1>3. CASE Migrate \/ Restart \/ Scale \/ Throttle \/ UNCHANGED vars
  <2>1. host' = host /\ route' = route
    BY <1>3 DEF Migrate, Restart, Scale, Throttle, TakeDown, placement, vars
  <2>2. QED
    BY <2>1 DEF RouteInv, RouteLeadsToHost
<1>4. QED
  BY <1>1, <1>2, <1>3 DEF Next

\* Placement and route never come apart: the validator lets no action change
\* one of them while a migration is about to change both.
THEOREM RoutesFollowHosts == Spec => []RouteLeadsToHost
<1>1. Init => RouteInv
  <2> SUFFICES ASSUME Init PROVE RouteInv
    OBVIOUS
  <2>1. ASSUME NEW s \in Service PROVE Simple(route[s], Source[s], host[s])
    BY NetworkAssumption DEF Init
  <2>2. host = [s \in Service |-> host[s]] /\ route = [s \in Service |-> route[s]]
    BY NetworkAssumption DEF Init
  <2>3. QED
    BY <2>1, <2>2 DEF RouteInv, RouteLeadsToHost
<1>2. RouteInv => RouteLeadsToHost
  BY DEF RouteInv
<1>3. QED
  BY <1>1, <1>2, RouteStep, PTL DEF Spec

-----------------------------------------------------------------------------
\* The effects under way.

\* A set of natural numbers that is not empty has a least one.
LEMMA LeastNumber ==
  ASSUME NEW T, T \subseteq Nat, T # {}
  PROVE  \E n \in T : \A m \in T : n <= m
<1>1. PICK n \in T : \A m \in T : ~(<<m, n>> \in OpToRel(<, Nat))
  BY NatLessThanWellFounded, WFMin, Zenon
<1>2. ASSUME NEW m \in T PROVE n <= m
  <2>1. <<m, n>> \in Nat \X Nat
    OBVIOUS
  <2>2. ~(m < n)
    BY <1>1, <2>1 DEF OpToRel
  <2>3. QED
    BY <2>2
<1>3. QED
  BY <1>2

\* The loop of _advance_pending_effects over the first n effects, given what it
\* has kept before.
Kept(g, n) ==
    IF n = 0 THEN <<>>
    ELSE IF pending[n].remaining <= 1 THEN g[n - 1]
    ELSE Append(g[n - 1], [pending[n] EXCEPT !.remaining = @ - 1])

Loop == CHOOSE g : g = [n \in 0 .. Len(pending) |-> Kept(g, n)]

\* Remaining is what the loop has kept at its end.
LEMMA RemainingIsLoop == Remaining = Loop[Len(pending)]
  BY Zenon DEF Remaining, Loop, Kept

\* The loop is defined for every list of effects, by induction on its length.
LEMMA LoopRuns ==
  ASSUME pending \in Seq(Effect)
  PROVE  \A n \in 0 .. Len(pending) : Loop[n] = Kept(Loop, n)
<1> DEFINE Runs(k) == \E g : g = [n \in 0 .. k |-> Kept(g, n)]
           bad == {k \in Nat : ~Runs(k)}
<1>1. Runs(0)
  <2>1. [n \in 0 .. 0 |-> <<>>] = [n \in 0 .. 0 |-> Kept([m \in 0 .. 0 |-> <<>>], n)]
    BY DEF Kept
  <2>2. QED
    BY <2>1
<1>2. ASSUME NEW k \in Nat, Runs(k) PROVE Runs(k + 1)
  <2>1. PICK g : g = [n \in 0 .. k |-> Kept(g, n)]
    BY <1>2
  <2> DEFINE h == [n \in 0 .. k + 1 |-> Kept(g, n)]
  <2>2. \A n \in 0 .. k : h[n] = g[n]
    BY <2>1
  <2>3. ASSUME NEW n \in 0 .. k + 1 PROVE Kept(g, n) = Kept(h, n)
    <3>1. n # 0 => h[n - 1] = g[n - 1]
      BY <2>2
    <3> HIDE DEF h
    <3>2. QED
      BY <3>1 DEF Kept
  <2>4. h = [n \in 0 .. k + 1 |-> Kept(h, n)]
    BY <2>3
  <2>5. QED
    BY <2>4
<1>3. bad = {}
  <2>1. SUFFICES ASSUME bad # {} PROVE FALSE
    OBVIOUS
  <2>2. PICK k \in bad : \A m \in bad : k <= m
    <3>1. bad \subseteq Nat
      OBVIOUS
    <3> HIDE DEF bad
    <3>2. QED
      BY <2>1, <3>1, LeastNumber
  <2>3. k \in Nat /\ ~Runs(k)
    OBVIOUS
  <2> HIDE DEF Runs
  <2>4. k # 0
    BY <1>1, <2>3
  <2>5. k - 1 \in Nat /\ k - 1 \notin bad
    BY <2>2, <2>3, <2>4
  <2>6. Runs((k - 1) + 1)
    BY <1>2, <2>5
  <2>7. QED
    BY <2>3, <2>6
<1>4. Len(pending) \in Nat
  OBVIOUS
<1>5. \E g : g = [n \in 0 .. Len(pending) |-> Kept(g, n)]
  BY <1>3, <1>4
<1>6. Loop = [n \in 0 .. Len(pending) |-> Kept(Loop, n)]
  BY <1>5, Zenon DEF Loop
<1>7. QED
  BY <1>6

\* One effect for each service.
Single(effects) == \A i, j \in DOMAIN effects : effects[i].service = effects[j].service => i = j

\* What the loop has kept after n effects.
KeptSoFar(n) ==
    /\ Loop[n] \in Seq(Effect)
    /\ \A s \in Service : (\E j \in DOMAIN Loop[n] : Loop[n][j].service = s)
                              <=> \E i \in 1 .. n : pending[i].service = s /\ pending[i].remaining > 1
    /\ Single(Loop[n])

\* Each step of the loop keeps the effect or lets it go.
LEMMA LoopKeeps ==
  ASSUME pending \in Seq(Effect), Single(pending)
  PROVE  \A n \in 0 .. Len(pending) : KeptSoFar(n)
<1> DEFINE bad == {n \in 0 .. Len(pending) : ~KeptSoFar(n)}
<1>1. Len(pending) \in Nat /\ DOMAIN pending = 1 .. Len(pending)
      /\ \A i \in 1 .. Len(pending) : pending[i] \in Effect
  OBVIOUS
<1>2. KeptSoFar(0)
  <2>1. Loop[0] = Kept(Loop, 0)
    BY <1>1, LoopRuns
  <2>2. Loop[0] = <<>>
    BY <2>1 DEF Kept
  <2>3. QED
    BY <2>2 DEF KeptSoFar, Single
<1>3. ASSUME NEW n \in 1 .. Len(pending), KeptSoFar(n - 1) PROVE KeptSoFar(n)
  <2> DEFINE e == pending[n]
             before == Loop[n - 1]
  <2>1. e \in Effect /\ e.remaining \in Nat /\ e.service \in Service
    BY <1>1 DEF Effect
  <2>2. before \in Seq(Effect) /\ Single(before)
    BY <1>3 DEF KeptSoFar
  <2>3. \A s \in Service : (\E j \in DOMAIN before : before[j].service = s)
                              <=> \E i \in 1 .. n - 1 : pending[i].service = s /\ pending[i].remaining > 1
    BY <1>3 DEF KeptSoFar
  <2>4. \A i \in 1 .. n : i \in 1 .. n - 1 \/ i = n
    BY <1>1
  <2>5. Loop[n] = Kept(Loop, n) /\ n # 0
    BY <1>1, LoopRuns
  <2>6. CASE e.remaining <= 1
    <3>1. Loop[n] = before
      BY <2>5, <2>6 DEF Kept
    <3>2. ~(e.remaining > 1)
      BY <2>1, <2>6
    <3> HIDE DEF before
    <3>3. QED
      BY <2>2, <2>3, <2>4, <3>1, <3>2 DEF KeptSoFar
  <2>7. CASE ~(e.remaining <= 1)
    <3> DEFINE later == [e EXCEPT !.remaining = @ - 1]
    <3>1. Loop[n] = Append(before, later)
      BY <2>5, <2>7 DEF Kept
    <3>2. later \in Effect /\ later.service = e.service /\ e.remaining > 1
      BY <2>1, <2>7 DEF Effect
    <3>3. \A j \in DOMAIN before : before[j].service # e.service
      <4>1. \A i \in 1 .. n - 1 : pending[i].service # e.service
        BY <1>1 DEF Single
      <4>2. QED
        BY <2>1, <2>3, <4>1
    <3> HIDE DEF before, later, e
    <3>4. Loop[n] \in Seq(Effect) /\ DOMAIN Loop[n] = 1 .. Len(before) + 1
          /\ DOMAIN before = 1 .. Len(before) /\ Len(before) \in Nat
          /\ (\A j \in 1 .. Len(before) : Loop[n][j] = before[j])
          /\ Loop[n][Len(before) + 1] = later
      BY <2>2, <3>1, <3>2
    <3>5. \A j \in 1 .. Len(before) + 1 : j \in 1 .. Len(before) \/ j = Len(before) + 1
      BY <3>4
    <3>6. Single(Loop[n])
      <4>1. ASSUME NEW i \in 1 .. Len(before), NEW j \in 1 .. Len(before),
                   Loop[n][i].service = Loop[n][j].service
            PROVE  i = j
        BY <2>2, <3>4, <4>1 DEF Single
      <4>2. \A j \in 1 .. Len(before) : Loop[n][j].service # Loop[n][Len(before) + 1].service
        BY <3>2, <3>3, <3>4
      <4>3. QED
        BY <3>4, <3>5, <4>1, <4>2 DEF Single
    <3>7. \A s \in Service : (\E j \in DOMAIN Loop[n] : Loop[n][j].service = s)
                                <=> (\E j \in DOMAIN before : before[j].service = s) \/ s = e.service
      <4>1. /\ DOMAIN Loop[n] = DOMAIN before \cup {Len(before) + 1}
            /\ \A j \in DOMAIN before : Loop[n][j] = before[j]
        BY <3>4, <3>5
      <4>2. Loop[n][Len(before) + 1].service = e.service
        BY <3>2, <3>4
      <4>3. QED
        BY <4>1, <4>2, Zenon
    <3>8. \A s \in Service : (\E i \in 1 .. n : pending[i].service = s /\ pending[i].remaining > 1)
             <=> (\E i \in 1 .. n - 1 : pending[i].service = s /\ pending[i].remaining > 1)
                    \/ s = e.service
      BY <2>4, <3>2 DEF e
    <3>9. QED
      BY <2>3, <3>4, <3>6, <3>7, <3>8 DEF KeptSoFar
  <2>8. QED
    BY <2>6, <2>7
<1>4. bad = {}
  <2>1. SUFFICES ASSUME bad # {} PROVE FALSE
    OBVIOUS
  <2>2. PICK n \in bad : \A m \in bad : n <= m
    <3>1. bad \subseteq Nat
      BY <1>1
    <3> HIDE DEF bad
    <3>2. QED
      BY <2>1, <3>1, LeastNumber
  <2>3. n \in 0 .. Len(pending) /\ ~KeptSoFar(n)
    OBVIOUS
  <2>4. n \in 1 .. Len(pending)
    BY <1>1, <1>2, <2>3
  <2>5. n - 1 \in 0 .. Len(pending) /\ n - 1 \notin bad
    BY <1>1, <2>2, <2>4
  <2>6. QED
    BY <1>3, <2>3, <2>4, <2>5
<1>5. QED
  BY <1>4

\* What a tick leaves pending: the effects that were not due, one of each service.
LEMMA RemainingKeeps ==
  ASSUME pending \in Seq(Effect), Single(pending)
  PROVE  /\ Remaining \in Seq(Effect) /\ Single(Remaining)
         /\ \A s \in Service : (\E j \in DOMAIN Remaining : Remaining[j].service = s)
               <=> \E i \in DOMAIN pending : pending[i].service = s /\ pending[i].remaining > 1
<1>1. Len(pending) \in 0 .. Len(pending) /\ DOMAIN pending = 1 .. Len(pending)
  OBVIOUS
<1>2. KeptSoFar(Len(pending))
  BY <1>1, LoopKeeps
<1>3. QED
  BY <1>1, <1>2, RemainingIsLoop DEF KeptSoFar

\* The invariant: a service without a pending effect has lost no request since
\* the last tick, which bounds what discard_requests may add to its losses.
SettledInv ==
    /\ TypeOK /\ pending \in Seq(Effect)
    /\ DownWhilePending
    /\ \A s \in Service : Idle(s) => losses[s] = 0

\* A migration or a restart is accepted only for a service that has none.
LEMMA TakeDownSettles ==
  ASSUME SettledInv, NEW s \in Service, Idle(s),
         NEW e \in Effect, e.service = s, TakeDown(s, e), owed' \in [Service -> Nat]
  PROVE  SettledInv'
<1>1. /\ status' = [status EXCEPT ![s] = "down"]
      /\ losses' = [losses EXCEPT ![s] = @ + queue[s] + inService[s]]
      /\ queue' = [queue EXCEPT ![s] = 0]
      /\ inService' = [inService EXCEPT ![s] = 0]
      /\ pending' = Append(pending, e)
      /\ UNCHANGED <<upNode, upLink, host, route, sizes, rateLimit>>
  BY DEF TakeDown, discard_requests
<1>2. pending' \in Seq(Effect) /\ Len(pending) \in Nat
      /\ DOMAIN pending = 1 .. Len(pending) /\ DOMAIN pending' = 1 .. Len(pending) + 1
      /\ (\A i \in 1 .. Len(pending) : pending'[i] = pending[i])
      /\ pending'[Len(pending) + 1] = e
  BY <1>1 DEF SettledInv
<1>3. \A i \in DOMAIN pending' : i \in DOMAIN pending \/ i = Len(pending) + 1
  BY <1>2
<1>4. losses[s] = 0
  BY DEF SettledInv
<1>5. TypeOK'
  <2>1. losses'[s] = queue[s] + inService[s]
    BY <1>1, <1>4, NetworkAssumption DEF SettledInv, TypeOK
  <2>2. queue[s] + inService[s] \in 0 .. QueueCap + 1
    <3>1. queue[s] \in 0 .. QueueCap /\ inService[s] \in {0, 1} /\ QueueCap \in Nat
      BY NetworkAssumption DEF SettledInv, TypeOK
    <3>2. QED
      BY <3>1
  <2>3. losses' \in [Service -> 0 .. QueueCap + 1]
    BY <1>1, <2>1, <2>2 DEF SettledInv, TypeOK
  <2>4. queue' \in [Service -> 0 .. QueueCap] /\ inService' \in [Service -> {0, 1}]
    <3>1. /\ queue \in [Service -> 0 .. QueueCap] /\ inService \in [Service -> {0, 1}]
          /\ 0 \in 0 .. QueueCap
      BY NetworkAssumption DEF SettledInv, TypeOK
    <3>2. QED
      BY <1>1, <3>1
  <2>5. status' \in [Service -> {"healthy", "down"}]
    BY <1>1 DEF SettledInv, TypeOK
  <2>6. \A i \in DOMAIN pending' : pending'[i] \in Effect
    BY <1>2
  <2>7. QED
    BY <1>1, <2>3, <2>4, <2>5, <2>6 DEF SettledInv, TypeOK, sizes
<1>6. Single(pending)'
  BY <1>2, <1>3 DEF Single, Idle, SettledInv, DownWhilePending
<1>7. \A t \in Service : Idle(t)' <=> Idle(t) /\ t # s
  BY <1>2, <1>3 DEF Idle
<1>8. \A t \in Service : status'[t] = IF t = s THEN "down" ELSE status[t]
  BY <1>1 DEF SettledInv, TypeOK
<1>9. \A t \in Service : t # s => losses'[t] = losses[t]
  BY <1>1 DEF SettledInv, TypeOK
<1>10. DownWhilePending'
  BY <1>6, <1>7, <1>8 DEF Single, SettledInv, DownWhilePending
<1>11. QED
  BY <1>2, <1>5, <1>7, <1>9, <1>10 DEF SettledInv

\* A route that route_to answers is one of the paths.
LEMMA RouteToIsPath ==
  ASSUME NEW s, NEW h, NEW un, NEW ul, NEW p \in route_to(s, h, un, ul)
  PROVE  p \in Paths
<1>1. PICK r \in Routes : r.path = p
  BY DEF route_to, OperationalPaths
<1>2. PICK q \in Paths, m \in Node :
        r = [path |-> q, source |-> m, host |-> Walk(q, m)[Len(q)],
             nodes |-> Visited(q, m), links |-> {q[k] : k \in 1 .. Len(q)}]
  BY <1>1 DEF Routes, RouteOf
<1>3. QED
  BY <1>1, <1>2

\* A service that moves gets one of the nodes and one of the paths.
LEMMA MoveTyped ==
  ASSUME TypeOK, Move, DOMAIN pending = 1 .. Len(pending), NEW s \in Service
  PROVE  host'[s] \in Node /\ route'[s] \in Paths
<1> DEFINE alternatives == [t \in Service |->
             IF Landing(t) = {} THEN {<<host[t], route[t]>>} ELSE Landing(t)]
<1>1. PICK place \in FunctionsInto(alternatives) :
        /\ host' = [t \in Service |-> place[t][1]]
        /\ route' = [t \in Service |-> place[t][2]]
  BY DEF Move
<1>2. place[s] \in alternatives[s]
  BY <1>1 DEF FunctionsInto
<1>3. host'[s] = place[s][1] /\ route'[s] = place[s][2]
  BY <1>1
<1>4. CASE Landing(s) = {}
  <2>1. place[s] = <<host[s], route[s]>>
    BY <1>2, <1>4
  <2>2. QED
    BY <1>3, <2>1 DEF TypeOK
<1>5. CASE Landing(s) # {}
  <2>1. place[s] \in Landing(s)
    BY <1>2, <1>5
  <2>2. PICK t \in Arriving(s) \cap upNode' :
          place[s] \in {t} \X route_to(Source[s], t, upNode', upLink')
    BY <2>1 DEF Landing
  <2>3. place[s][1] = t /\ place[s][2] \in route_to(Source[s], t, upNode', upLink')
    BY <2>2
  <2>4. t \in Node
    BY <2>2 DEF Arriving, TypeOK, Effect
  <2>5. place[s][2] \in Paths
    BY <2>3, RouteToIsPath
  <2>6. QED
    BY <1>3, <2>3, <2>4, <2>5
<1>6. QED
  BY <1>4, <1>5

\* After a tick a service is down exactly if its effect was not yet due.
LEMMA TickSettles ==
  ASSUME SettledInv, Tick, owed' \in [Service -> Nat]
  PROVE  SettledInv'
<1>1. PICK fp \in [Service -> Baseline .. MaxFootprint] :
        /\ Move /\ Recover(fp)
        /\ \E n, lost \in [Service -> 0 .. MaxArrivals] : Serve(n, lost, fp)
  BY DEF Tick, Leaks
<1>2. /\ queue' \in [Service -> 0 .. QueueCap] /\ inService' \in [Service -> {0, 1}]
      /\ losses' = [s \in Service |-> 0]
  BY <1>1 DEF Serve
<1>3. /\ status' = [s \in Service |->
             IF Due(s, "restart") \/ Due(s, "migrate") THEN "healthy" ELSE status[s]]
      /\ footprint' = [s \in Service |-> IF Due(s, "restart") THEN Baseline ELSE fp[s]]
      /\ pending' = Remaining
  BY <1>1 DEF Recover
<1>4. /\ upNode' \subseteq Node /\ upLink' \subseteq Link
      /\ UNCHANGED <<replicas, rateLimit>>
  BY DEF Tick, Faults
<1>5. pending \in Seq(Effect) /\ Single(pending) /\ DOMAIN pending = 1 .. Len(pending)
  <2>1. pending \in Seq(Effect)
    BY DEF SettledInv
  <2>2. \A i \in DOMAIN pending : pending[i].service \in Service
    BY DEF SettledInv, TypeOK, Effect
  <2>3. Single(pending)
    BY <2>2 DEF SettledInv, DownWhilePending, Single
  <2>4. QED
    BY <2>1, <2>3
<1>6. /\ pending' \in Seq(Effect) /\ Single(pending)'
      /\ \A s \in Service : ~Idle(s)' <=>
            \E i \in DOMAIN pending : pending[i].service = s /\ pending[i].remaining > 1
  BY <1>3, <1>5, RemainingKeeps DEF Single, Idle
<1>7. ASSUME NEW s \in Service PROVE status'[s] = "down" <=> ~Idle(s)'
  <2>1. (Due(s, "restart") \/ Due(s, "migrate")) <=>
            \E i \in DOMAIN pending : pending[i].service = s /\ pending[i].remaining <= 1
    BY DEF Due, SettledInv, TypeOK, Effect
  <2>2. status'[s] = IF Due(s, "restart") \/ Due(s, "migrate") THEN "healthy" ELSE status[s]
    BY <1>3
  <2>3. status[s] = "down" <=> \E i \in DOMAIN pending : pending[i].service = s
    BY DEF SettledInv, DownWhilePending, Idle
  <2>4. \A i \in DOMAIN pending : pending[i].remaining \in Nat
    BY DEF SettledInv, TypeOK, Effect
  <2>5. CASE \E i \in DOMAIN pending : pending[i].service = s /\ pending[i].remaining <= 1
    <3>1. Idle(s)'
      BY <1>5, <1>6, <2>4, <2>5 DEF Single
    <3>2. QED
      BY <2>1, <2>2, <2>5, <3>1
  <2>6. CASE ~\E i \in DOMAIN pending : pending[i].service = s /\ pending[i].remaining <= 1
    <3>1. (\E i \in DOMAIN pending : pending[i].service = s)
             <=> \E i \in DOMAIN pending : pending[i].service = s /\ pending[i].remaining > 1
      BY <2>4, <2>6
    <3>2. QED
      BY <1>6, <2>1, <2>2, <2>3, <2>6, <3>1
  <2>7. QED
    BY <2>5, <2>6
<1>8. DownWhilePending'
  BY <1>6, <1>7 DEF DownWhilePending, Single
<1>9. TypeOK'
  <2>1. host' \in [Service -> Node] /\ \A s \in Service : route'[s] \in Paths
    <3>1. \A s \in Service : host'[s] \in Node /\ route'[s] \in Paths
      BY <1>1, <1>5, MoveTyped DEF SettledInv
    <3>2. DOMAIN host' = Service /\ host' = [s \in Service |-> host'[s]]
      BY <1>1 DEF Move
    <3>3. QED
      BY <3>1, <3>2
  <2>2. status' \in [Service -> {"healthy", "down"}]
    BY <1>3 DEF SettledInv, TypeOK
  <2>3. footprint' \in [Service -> Baseline .. MaxFootprint]
    BY <1>3, NetworkAssumption
  <2>4. losses' \in [Service -> 0 .. QueueCap + 1]
    BY <1>2, NetworkAssumption
  <2>5. \A i \in DOMAIN pending' : pending'[i] \in Effect
    BY <1>6
  <2>6. replicas' \in [Service -> 1 .. ReplicaCap]
        /\ rateLimit' \in [Service -> RateLimits \cup {Unlimited}]
    BY <1>4 DEF SettledInv, TypeOK
  <2>7. QED
    BY <1>2, <1>4, <2>1, <2>2, <2>3, <2>4, <2>5, <2>6 DEF TypeOK
<1>10. QED
  BY <1>2, <1>6, <1>8, <1>9 DEF SettledInv

\* Each step keeps the invariant.
LEMMA SettledStep ==
  ASSUME SettledInv, CountInv', [Next]_vars
  PROVE  SettledInv'
<1>0. SettledInv /\ TypeOK /\ NetworkAssumption
  BY NetworkAssumption DEF SettledInv
<1>1. ASSUME \A s \in Service : losses'[s] \in Nat /\ queue'[s] \in Nat /\ inService'[s] \in Nat
      PROVE  owed' \in [Service -> Nat]
  <2>1. owed' \in [Service -> Int]
        /\ \A s \in Service : owed'[s] = queue'[s] + inService'[s] + losses'[s]
    BY DEF CountInv, RequestsConserved
  <2>2. \A s \in Service : owed'[s] \in Nat
    BY <1>1, <2>1
  <2>3. QED
    BY <2>1, <2>2
<1>2. owed' \in [Service -> Nat]
  BY <1>1 DEF CountInv
<1>3. CASE Migrate
  <2>1. PICK s \in Service, t \in Node :
          /\ Idle(s)
          /\ TakeDown(s, [kind |-> "migrate", service |-> s, target |-> t,
                          remaining |-> MigrationDowntime])
    BY <1>3 DEF Migrate
  <2>2. [kind |-> "migrate", service |-> s, target |-> t,
         remaining |-> MigrationDowntime] \in Effect
    BY <1>0 DEF Effect, NetworkAssumption
  <2>3. QED
    BY <1>2, <2>1, <2>2, TakeDownSettles
<1>4. CASE Restart
  <2>1. PICK s \in Service :
          /\ Idle(s)
          /\ TakeDown(s, [kind |-> "restart", service |-> s, target |-> host[s],
                          remaining |-> RestartDowntime])
    BY <1>4 DEF Restart
  <2>2. [kind |-> "restart", service |-> s, target |-> host[s],
         remaining |-> RestartDowntime] \in Effect
    BY <1>0 DEF Effect, NetworkAssumption, TypeOK
  <2>3. QED
    BY <1>2, <2>1, <2>2, TakeDownSettles
<1>5. CASE Scale
  <2>1. PICK s \in Service, d \in Deltas :
          /\ replicas[s] + d >= 1 /\ replicas[s] + d <= ReplicaCap
          /\ replicas' = [replicas EXCEPT ![s] = @ + d]
    BY <1>5 DEF Scale
  <2>2. replicas[s] + d \in 1 .. ReplicaCap
    BY <1>0, <2>1 DEF NetworkAssumption, TypeOK
  <2>3. replicas' \in [Service -> 1 .. ReplicaCap]
    BY <1>0, <2>1, <2>2 DEF TypeOK
  <2>4. UNCHANGED <<upNode, upLink, placement, requests, footprint, rateLimit, pending>>
    BY <1>5 DEF Scale
  <2>5. QED
    BY <2>3, <2>4 DEF SettledInv, TypeOK, DownWhilePending, Idle, placement, requests
<1>6. CASE Reroute
  <2>1. PICK s \in Service, p \in Paths : route' = [route EXCEPT ![s] = p]
    BY <1>6 DEF Reroute
  <2>2. \A t \in Service : route'[t] \in Paths
    BY <1>0, <2>1 DEF TypeOK
  <2>3. UNCHANGED <<upNode, upLink, host, status, requests, sizes, rateLimit, pending>>
    BY <1>6 DEF Reroute
  <2>4. QED
    BY <2>2, <2>3 DEF SettledInv, TypeOK, DownWhilePending, Idle, sizes, requests
<1>7. CASE Throttle
  <2>1. PICK s \in Service, r \in RateLimits : rateLimit' = [rateLimit EXCEPT ![s] = r]
    BY <1>7 DEF Throttle
  <2>2. rateLimit' \in [Service -> RateLimits \cup {Unlimited}]
    BY <1>0, <2>1 DEF TypeOK
  <2>3. UNCHANGED <<upNode, upLink, placement, requests, sizes, pending>>
    BY <1>7 DEF Throttle
  <2>4. QED
    BY <2>2, <2>3 DEF SettledInv, TypeOK, DownWhilePending, Idle, placement, requests, sizes
<1>8. CASE Tick
  BY <1>2, <1>8, TickSettles
<1>9. CASE UNCHANGED vars
  BY <1>9 DEF vars, SettledInv, TypeOK, DownWhilePending, Idle, placement, requests, sizes
<1>10. QED
  BY <1>3, <1>4, <1>5, <1>6, <1>7, <1>8, <1>9 DEF Next

\* It holds in every state.
LEMMA Settled == Spec => []SettledInv
<1>1. Init => SettledInv
  <2> SUFFICES ASSUME Init PROVE SettledInv
    OBVIOUS
  <2>1. \A s \in Service : route[s] \in Paths
    BY DEF Init
  <2>2. TypeOK
    BY <2>1, NetworkAssumption DEF Init, TypeOK
  <2>3. pending = <<>> /\ pending \in Seq(Effect)
    BY DEF Init
  <2>4. QED
    BY <2>2, <2>3 DEF Init, SettledInv, DownWhilePending, Idle
<1>2. CountInv' /\ SettledInv /\ [Next]_vars => SettledInv'
  BY SettledStep
<1>3. QED
  BY <1>1, <1>2, CountInit, CountStep, PTL DEF Spec

\* Every variable keeps its type; in particular what is lost between two ticks
\* is at most a full queue and the request in service (service.py, queue_cap).
THEOREM NetworkTyped == Spec => []TypeOK
  BY Settled, PTL DEF SettledInv

\* A service is down exactly while one effect is pending for it, for any number
\* of services: _advance_pending_effects loses and repeats no effect, and the
\* validator accepts none for a service that has one.
THEOREM OneEffectAtATime == Spec => []DownWhilePending
  BY Settled, PTL DEF SettledInv

-----------------------------------------------------------------------------
\* What the fault injector leaves behind, for every set of events and every
\* schedule.  First, that nothing of a closed window survives, which does not
\* depend on how contributions are composed; then that the open ones compose.
\* The composition is a fold: what is shown of it is that it depends on the
\* contributing events alone and that contributions of nothing leave nothing, by
\* induction on the subsets of a finite set.
\* A field no open window touches holds its original value.
HealedWhenClosed == tick > 0 => \A f \in Field :
    f \notin UNION {fault_fields(e) : e \in Open(tick - 1)} => value[f] = Original(f)

\* The invariant: before the first tick everything is original, and afterwards
\* exactly the fields with a baseline may differ from it.
FaultInv ==
    /\ tick \in Nat
    /\ value = [f \in Field |-> value[f]]
    /\ \A f \in Field \ DOMAIN baselines : value[f] = Original(f)
    /\ tick = 0 => DOMAIN baselines = {}
    /\ BaselinesAreOriginal

\* Before the first tick the live values are the originals.
LEMMA FaultInvInit == InjectorInit => FaultInv
  BY DEF InjectorInit, FaultInv, BaselinesAreOriginal

\* The fields of an event are fields.
LEMMA FaultFieldsAreFields ==
  ASSUME NEW on \in SUBSET Event
  PROVE  UNION {fault_fields(e) : e \in on} \subseteq Field
<1>1. ASSUME NEW e \in Event PROVE fault_fields(e) \subseteq Field
  BY FaultAssumption DEF fault_fields, Field
<1>2. QED
  BY <1>1

\* A tick that starts and ends faults keeps each baseline the original value.
LEMMA ApplyTickInv == FaultInv /\ ApplyTick => FaultInv'
<1> SUFFICES ASSUME FaultInv, ApplyTick PROVE FaultInv'
  OBVIOUS
<1> DEFINE restored == [f \in Field |-> IF f \in DOMAIN baselines THEN baselines[f]
                                        ELSE value[f]]
           on == Open(tick)
           touched == UNION {fault_fields(e) : e \in on}
<1>1. /\ tick' = tick + 1 /\ tick \in Nat
      /\ value' = [f \in Field |->
                      IF f \in touched THEN compose_faults(f, restored[f], on, bytes')
                      ELSE restored[f]]
      /\ baselines' = [f \in touched |-> restored[f]]
      /\ UNCHANGED <<start, duration>>
  BY DEF ApplyTick, FaultInv
<1>2. \A f \in Field : restored[f] = Original(f)
  BY DEF FaultInv, BaselinesAreOriginal
<1>3. touched \subseteq Field
  BY FaultFieldsAreFields DEF Open
<1>4. Open(tick - 1)' = on
  <2>1. tick' - 1 = tick
    BY <1>1
  <2>2. QED
    BY <1>1, <2>1 DEF Open
<1> HIDE DEF restored, on, touched
<1>5. DOMAIN baselines' = touched /\ \A f \in touched : baselines'[f] = Original(f)
  BY <1>1, <1>2, <1>3
<1>6. BaselinesAreOriginal'
  <2>1. touched = UNION {fault_fields(e) : e \in Open(tick - 1)'}
    BY <1>4 DEF touched
  <2>2. QED
    BY <1>5, <2>1 DEF BaselinesAreOriginal, fault_fields
<1>7. \A f \in Field \ touched : value'[f] = Original(f)
  BY <1>1, <1>2
<1>8. tick' \in Nat /\ tick' # 0
  BY <1>1
<1>9. value' = [f \in Field |-> value'[f]]
  BY <1>1
<1>10. QED
  BY <1>5, <1>6, <1>7, <1>8, <1>9 DEF FaultInv

\* Restarting a service, which reclaims its leaked memory, keeps them too.
LEMMA RestartInv == FaultInv /\ RestartCompletes => FaultInv'
<1> SUFFICES ASSUME FaultInv, NEW s \in ServiceTarget, Reset(s),
                    UNCHANGED <<start, duration, tick, active>>
             PROVE  FaultInv'
  BY DEF RestartCompletes
<1> DEFINE f == <<s, "mem_footprint">>
<1>1. /\ value' = [value EXCEPT ![f] = Original(f)]
      /\ baselines' = [g \in DOMAIN baselines |->
                          IF g = f THEN Original(f) ELSE baselines[g]]
  BY DEF Reset
<1>2. UNCHANGED <<start, duration, tick>>
  OBVIOUS
<1> HIDE DEF f
<1>3. DOMAIN baselines' = DOMAIN baselines
  BY <1>1
<1>4. \A g \in DOMAIN baselines' : baselines'[g] = Original(g)
  BY <1>1 DEF FaultInv, BaselinesAreOriginal
<1>5. Open(tick - 1)' = Open(tick - 1)
  BY <1>2 DEF Open
<1>6. BaselinesAreOriginal'
  BY <1>2, <1>3, <1>4, <1>5 DEF BaselinesAreOriginal, FaultInv, fault_fields
<1>7. \A g \in Field \ DOMAIN baselines' : value'[g] = Original(g)
  BY <1>1, <1>3 DEF FaultInv
<1>8. value' = [g \in Field |-> value'[g]]
  BY <1>1 DEF FaultInv
<1>9. QED
  BY <1>2, <1>3, <1>6, <1>7, <1>8 DEF FaultInv

\* The inductive invariant of the injector holds in every reachable state.
LEMMA FaultInvariance == InjectorSpec => []FaultInv
<1>1. FaultInv /\ UNCHANGED injectorVars => FaultInv'
  <2> SUFFICES ASSUME FaultInv, UNCHANGED injectorVars PROVE FaultInv'
    OBVIOUS
  <2>1. UNCHANGED <<start, duration, tick, baselines, value>>
    BY DEF injectorVars
  <2>2. Open(tick - 1)' = Open(tick - 1)
    BY <2>1 DEF Open
  <2>3. QED
    BY <2>1, <2>2 DEF FaultInv, BaselinesAreOriginal, fault_fields
<1>2. FaultInv /\ [InjectorNext]_injectorVars => FaultInv'
  BY <1>1, ApplyTickInv, RestartInv DEF InjectorNext, Finished
<1>3. QED
  BY FaultInvInit, <1>2, PTL DEF InjectorSpec

\* injector.py never takes a faulted value for a baseline, and drops a baseline
\* when the last window over its field closes, however windows overlap.
THEOREM BaselinesStayOriginal == InjectorSpec => []BaselinesAreOriginal
<1>1. FaultInv => BaselinesAreOriginal
  BY DEF FaultInv
<1>2. QED
  BY <1>1, FaultInvariance, PTL

\* After a tick nothing is left of the faults whose windows are closed.
THEOREM FaultsHeal == InjectorSpec => []HealedWhenClosed
<1>1. FaultInv => HealedWhenClosed
  BY DEF FaultInv, BaselinesAreOriginal, HealedWhenClosed
<1>2. QED
  BY <1>1, FaultInvariance, PTL

-----------------------------------------------------------------------------
\* The composition.

\* Among subsets of a finite set there is one that contains no other: what is
\* not so for some subset fails first for one whose own subsets are fine.
LEMMA SmallestSubset ==
  ASSUME NEW S, IsFiniteSet(S), NEW T, T \subseteq SUBSET S, T # {}
  PROVE  \E s \in T : \A r \in T : r \subseteq s => r = s
<1>1. IsWellFoundedOn(StrictSubsetOrdering(S), SUBSET S)
  BY FS_StrictSubsetOrderingWellFounded, FS_FiniteSubsetsOfFinite
<1>2. PICK s \in T : \A r \in T : ~(<<r, s>> \in StrictSubsetOrdering(S))
  BY <1>1, WFMin, Zenon
<1>3. \A r \in T : r \subseteq s => r = s
  BY <1>2 DEF StrictSubsetOrdering
<1>4. QED
  BY <1>3

\* The events that contribute to a field, in the order compose_faults takes them.
Parts(f, on) == {e \in on : f \in fault_fields(e)}
FirstOf(s) == CHOOSE e \in s : TRUE

\* What the composition holds for each set of events on its way.
ComposeStep(f, v, b, g, s) ==
    IF s = {} THEN v ELSE Contribute(FirstOf(s), f, g[s \ {FirstOf(s)}], b)
Composing(f, v, b, S) ==
    CHOOSE g : g = [s \in SUBSET S |-> ComposeStep(f, v, b, g, s)]

\* The composition is the recursive function at the whole set.
LEMMA ComposeIs ==
  ASSUME NEW f, NEW v, NEW on, NEW b
  PROVE  compose_faults(f, v, on, b) = Composing(f, v, b, Parts(f, on))[Parts(f, on)]
  BY Zenon DEF compose_faults, MapThenFoldSet, Composing, ComposeStep, Parts, FirstOf

\* It depends on nothing but the contributing events, and only a leak on bytes.
LEMMA ComposeAgrees ==
  ASSUME NEW f, NEW v, NEW on, NEW b, NEW c,
         \A e \in Parts(f, on) : f[2] = "mem_footprint" => b[e] = c[e]
  PROVE  compose_faults(f, v, on, b) = compose_faults(f, v, on, c)
<1> DEFINE S == Parts(f, on)
<1>1. ASSUME NEW e \in S, NEW x PROVE Contribute(e, f, x, b) = Contribute(e, f, x, c)
  <2>1. CASE f[2] = "mem_footprint"
    <3>1. b[e] = c[e]
      BY <2>1
    <3>2. QED
      BY <2>1, <3>1 DEF Contribute
  <2>2. CASE f[2] # "mem_footprint"
    BY <2>2 DEF Contribute
  <2>3. QED
    BY <2>1, <2>2
<1> HIDE DEF S
<1>2. ASSUME NEW g, NEW s \in SUBSET S
      PROVE  ComposeStep(f, v, b, g, s) = ComposeStep(f, v, c, g, s)
  <2>1. s # {} => FirstOf(s) \in S
    BY DEF FirstOf
  <2>2. QED
    BY <1>1, <2>1 DEF ComposeStep
<1>3. ASSUME NEW g
      PROVE  [s \in SUBSET S |-> ComposeStep(f, v, b, g, s)]
               = [s \in SUBSET S |-> ComposeStep(f, v, c, g, s)]
  BY <1>2
<1>4. Composing(f, v, b, S) = Composing(f, v, c, S)
  BY <1>3, Zenon DEF Composing
<1>5. QED
  BY <1>4, ComposeIs DEF S

\* If the contributions are nothing the field keeps its value.
LEMMA ComposeNothing ==
  ASSUME NEW f, NEW v \in Nat, NEW on, NEW b, IsFiniteSet(Parts(f, on)),
         \A e \in Parts(f, on) : Contribute(e, f, v, b) = v
  PROVE  compose_faults(f, v, on, b) = v
<1> DEFINE S == Parts(f, on)
           all == [s \in SUBSET S |-> v]
           g == Composing(f, v, b, S)
           bad == {s \in SUBSET S : g[s] # v}
<1>1. \A s \in SUBSET S : s # {} => FirstOf(s) \in s
  BY DEF FirstOf
<1> HIDE DEF S
<1>2. \A s \in SUBSET S : ComposeStep(f, v, b, all, s) = v
  BY <1>1 DEF ComposeStep, S
<1>3. all = [s \in SUBSET S |-> ComposeStep(f, v, b, all, s)]
  BY <1>2
<1> HIDE DEF all
<1>4. g = [s \in SUBSET S |-> ComposeStep(f, v, b, g, s)]
  BY <1>3, Zenon DEF Composing
<1> HIDE DEF g
<1>5. bad = {}
  <2>1. SUFFICES ASSUME bad # {} PROVE FALSE
    OBVIOUS
  <2>2. PICK s \in bad : \A r \in bad : r \subseteq s => r = s
    <3>1. bad \subseteq SUBSET S /\ IsFiniteSet(S)
      BY DEF S
    <3> HIDE DEF bad
    <3>2. QED
      BY <2>1, <3>1, SmallestSubset
  <2>3. s \in SUBSET S /\ g[s] # v /\ g[s] = ComposeStep(f, v, b, g, s)
    BY <1>4
  <2>4. s # {}
    BY <2>3 DEF ComposeStep
  <2>5. g[s \ {FirstOf(s)}] = v
    BY <1>1, <2>2, <2>3, <2>4
  <2>6. g[s] = Contribute(FirstOf(s), f, v, b)
    BY <2>3, <2>4, <2>5 DEF ComposeStep
  <2>7. QED
    BY <1>1, <2>3, <2>4, <2>6 DEF S
<1>6. g[S] = v
  BY <1>5
<1>7. QED
  BY <1>6, ComposeIs DEF g, S

\* The invariant: an open event has leaked one magnitude for each tick since it
\* opened or its service was restarted, and a closed one has nothing left.
LeakInv ==
    /\ tick \in Nat /\ start \in [Event -> Nat] /\ duration \in [Event -> Nat \ {0}]
    /\ bytes \in [Event -> Nat]
    /\ reclaimed \in [ServiceTarget -> Nat] /\ \A s \in ServiceTarget : reclaimed[s] <= tick
    /\ active = IF tick = 0 THEN {} ELSE Open(tick - 1)
    /\ \A e \in Event : bytes[e] = IF e \in active THEN Owed(e) ELSE 0

\* A tick adds one magnitude to what an open event owes.
LEMMA OwedGrows ==
  ASSUME LeakInv, tick' = tick + 1, UNCHANGED <<start, duration, reclaimed>>,
         NEW e \in Open(tick)
  PROVE  Owed(e)' = Leaked(Open(tick))[e]
<1>1. e \in Event /\ start[e] <= tick /\ tick < start[e] + duration[e]
      /\ start[e] \in Nat /\ duration[e] \in Nat \ {0} /\ tick \in Nat
  BY DEF LeakInv, Open
<1> DEFINE since == IF Of[e] \in ServiceTarget THEN Larger(start[e], reclaimed[Of[e]])
                    ELSE start[e]
<1>2. since \in Nat /\ since <= tick
  BY <1>1 DEF LeakInv, Larger
<1>3. Owed(e) = IF Kind[e] = "leak" /\ since < tick THEN Magnitude[e] * (tick - since) ELSE 0
  BY DEF Owed
<1>4. Owed(e)' = IF Kind[e] = "leak" /\ since' < tick' THEN Magnitude[e] * (tick' - since') ELSE 0
  BY Zenon DEF Owed
<1>0. since' = since /\ tick' = tick + 1
  OBVIOUS
<1>5. Leaked(Open(tick))[e] = bytes[e] + (IF Kind[e] = "leak" THEN Magnitude[e] ELSE 0)
  BY <1>1 DEF Leaked
<1>6. bytes[e] = IF Kind[e] = "leak" /\ since < tick THEN Magnitude[e] * (tick - since) ELSE 0
  <2>1. CASE e \in active
    BY <1>1, <1>3, <2>1 DEF LeakInv
  <2>2. CASE e \notin active
    <3>1. bytes[e] = 0
      BY <1>1, <2>2 DEF LeakInv
    <3>2. start[e] = tick
      <4>1. CASE tick = 0
        BY <1>1, <4>1
      <4>2. CASE tick # 0
        <5>1. e \notin Open(tick - 1)
          BY <2>2, <4>2 DEF LeakInv
        <5>2. QED
          BY <1>1, <4>2, <5>1 DEF Open
      <4>3. QED
        BY <4>1, <4>2
    <3>3. ~(since < tick)
      BY <1>1, <1>2, <3>2 DEF LeakInv, Larger
    <3>4. QED
      BY <3>1, <3>3
  <2>3. QED
    BY <2>1, <2>2
<1>7. Magnitude[e] \in Nat
  BY <1>1, FaultAssumption
<1> HIDE DEF since
<1>8. since' < tick' /\ tick' - since' = (tick - since) + 1 /\ tick - since \in Nat
  BY <1>0, <1>1, <1>2
<1>9. \A m, n \in Nat : m * (n + 1) = m * n + m
  OBVIOUS
<1>10. Magnitude[e] * ((tick - since) + 1) = Magnitude[e] * (tick - since) + Magnitude[e]
  BY <1>7, <1>8, <1>9
<1>11. Kind[e] = "leak" => Owed(e)' = Magnitude[e] * (tick - since) + Magnitude[e]
  BY <1>4, <1>8, <1>10, Zenon
<1>12. CASE Kind[e] = "leak"
  <2>1. bytes[e] = Magnitude[e] * (tick - since)
    <3>1. ~(since < tick) => tick - since = 0 /\ Magnitude[e] * 0 = 0
      BY <1>1, <1>2, <1>7
    <3>2. QED
      BY <1>6, <1>12, <3>1, Zenon
  <2>2. QED
    BY <1>5, <1>11, <1>12, <2>1, Zenon
<1>13. CASE Kind[e] # "leak"
  <2>1. bytes[e] = 0 /\ Owed(e)' = 0 /\ Leaked(Open(tick))[e] = bytes[e] + 0
    BY <1>4, <1>5, <1>6, <1>13, Zenon
  <2>2. QED
    BY <2>1
<1>14. QED
  BY <1>12, <1>13

\* The fields a leak contributes to, and what else contributes there.
LEMMA LeaksAlone ==
  ASSUME NEW s, NEW e \in Event, <<s, "mem_footprint">> \in fault_fields(e)
  PROVE  Kind[e] = "leak" /\ Of[e] = s
<1>1. Kind[e] \in Kinds
  BY FaultAssumption
<1>2. <<s, "mem_footprint">> \in {Of[e]} \X FieldsOf(Kind[e])
  BY DEF fault_fields
<1>3. Of[e] = s /\ "mem_footprint" \in FieldsOf(Kind[e])
  BY <1>2
<1>4. Kind[e] = "leak"
  BY <1>1, <1>3 DEF FieldsOf, Kinds
<1>5. QED
  BY <1>3, <1>4

\* What a tick and a restart keep.
ComposeInv == FaultInv /\ LeakInv /\ ValuesCompose

\* A tick composes the contributions of the open events afresh.
LEMMA ApplyTickComposes ==
  ASSUME ComposeInv, ApplyTick
  PROVE  ComposeInv'
<1> DEFINE restored == [f \in Field |-> IF f \in DOMAIN baselines THEN baselines[f]
                                        ELSE value[f]]
           on == Open(tick)
           touched == UNION {fault_fields(e) : e \in on}
           owe == [e \in Event |-> Owed(e)']
<1>1. /\ tick' = tick + 1 /\ active' = on /\ bytes' = Leaked(on)
      /\ value' = [f \in Field |->
                      IF f \in touched THEN compose_faults(f, restored[f], on, bytes')
                      ELSE restored[f]]
      /\ UNCHANGED <<start, duration, reclaimed>>
  BY DEF ApplyTick
<1>2. \A f \in Field : restored[f] = Original(f)
  BY DEF ComposeInv, FaultInv, BaselinesAreOriginal
<1>3. tick \in Nat /\ tick' \in Nat /\ tick' # 0 /\ tick' - 1 = tick
  BY <1>1 DEF ComposeInv, LeakInv
<1>4. Open(tick - 1)' = on
  BY <1>1, <1>3 DEF Open
<1>5. FaultInv'
  BY ApplyTickInv DEF ComposeInv
<1>6. \A e \in on : e \in Event /\ Owed(e)' = bytes'[e]
  <2>1. on \subseteq Event
    BY DEF Open
  <2>2. ASSUME NEW e \in on PROVE Owed(e)' = bytes'[e]
    <3>1. Owed(e)' = Leaked(on)[e]
      BY <1>1, OwedGrows DEF ComposeInv
    <3>2. QED
      BY <1>1, <3>1
  <2>3. QED
    BY <2>1, <2>2
<1>7. LeakInv'
  <2>1. bytes' \in [Event -> Nat]
    <3>1. \A e \in Event : Leaked(on)[e] \in Nat
      BY FaultAssumption DEF Leaked, ComposeInv, LeakInv
    <3>2. QED
      BY <1>1, <3>1 DEF Leaked
  <2>2. \A s \in ServiceTarget : reclaimed'[s] <= tick'
    BY <1>1, <1>3 DEF ComposeInv, LeakInv
  <2>3. active' = IF tick' = 0 THEN {} ELSE Open(tick - 1)'
    BY <1>1, <1>3, <1>4
  <2>4. \A e \in Event : bytes'[e] = IF e \in active' THEN Owed(e)' ELSE 0
    <3>1. \A e \in Event : e \notin on => bytes'[e] = 0
      BY <1>1 DEF Leaked
    <3>2. QED
      BY <1>1, <1>6, <3>1
  <2>5. QED
    BY <1>1, <1>3, <2>1, <2>2, <2>3, <2>4 DEF ComposeInv, LeakInv
<1>8. ASSUME NEW f \in Field
      PROVE  value'[f] = compose_faults(f, Original(f), on, owe)
  <2>1. \A e \in Parts(f, on) : bytes'[e] = owe[e]
    BY <1>6 DEF Parts
  <2>2. compose_faults(f, Original(f), on, bytes') = compose_faults(f, Original(f), on, owe)
    BY <2>1, ComposeAgrees
  <2>3. CASE f \in touched
    BY <1>1, <1>2, <2>2, <2>3
  <2>4. CASE f \notin touched
    <3>1. Parts(f, on) = {}
      BY <2>4 DEF Parts
    <3>2. IsFiniteSet(Parts(f, on))
      BY <3>1, FS_EmptySet
    <3>3. Original(f) \in Nat
      BY DEF Original
    <3>4. compose_faults(f, Original(f), on, owe) = Original(f)
      BY <3>1, <3>2, <3>3, ComposeNothing
    <3>5. QED
      BY <1>1, <1>2, <2>4, <3>4
  <2>5. QED
    BY <2>3, <2>4
<1>9. ValuesCompose'
  <2>1. value' = [f \in Field |-> compose_faults(f, Original(f), on, owe)]
    BY <1>1, <1>8
  <2>2. ValuesCompose' = (tick' > 0 => value' =
            [f \in Field |-> compose_faults(f, Original(f), Open(tick - 1)', owe)])
    BY Zenon DEF ValuesCompose, compose_faults, MapThenFoldSet, Contribute, fault_fields,
       Original, Smaller, Larger
  <2>3. QED
    BY <1>4, <2>1, <2>2
<1>10. QED
  BY <1>5, <1>7, <1>9 DEF ComposeInv

\* A restart makes what the leaks of its service owe start from zero.
LEMMA RestartComposes ==
  ASSUME ComposeInv, RestartCompletes
  PROVE  ComposeInv'
<1>1. PICK s \in ServiceTarget :
        /\ reclaimed[s] < tick
        /\ Reset(s)
        /\ reclaimed' = [reclaimed EXCEPT ![s] = tick]
        /\ UNCHANGED <<start, duration, tick, active>>
  BY DEF RestartCompletes
<1> DEFINE h == <<s, "mem_footprint">>
           on == Open(tick - 1)
           owes == [e \in Event |-> Owed(e)]
           owe == [e \in Event |-> Owed(e)']
<1>2. /\ value' = [value EXCEPT ![h] = Original(h)]
      /\ bytes' = [e \in Event |->
                      IF e \in active /\ Kind[e] = "leak" /\ Of[e] = s THEN 0 ELSE bytes[e]]
  BY <1>1 DEF Reset
<1>3. tick \in Nat /\ tick > 0 /\ active = on /\ on \subseteq Event
  <2>1. tick \in Nat /\ reclaimed[s] \in Nat
    BY DEF ComposeInv, LeakInv
  <2>2. tick > 0
    BY <1>1, <2>1
  <2>3. QED
    BY <2>1, <2>2 DEF ComposeInv, LeakInv, Open
<1>4. UNCHANGED <<start, duration, tick, active>> /\ Open(tick - 1)' = on
  BY <1>1 DEF Open
<1>5. FaultInv'
  BY RestartInv DEF ComposeInv
<1>6. ASSUME NEW e \in Event, Of[e] # s PROVE Owed(e)' = Owed(e)
  <2>1. Of[e] \in ServiceTarget => reclaimed'[Of[e]] = reclaimed[Of[e]]
    BY <1>1, <1>6
  <2>2. QED
    BY <1>4, <2>1 DEF Owed
<1>7. ASSUME NEW e \in on, Of[e] = s PROVE Owed(e)' = 0
  <2>1. start[e] \in Nat /\ start[e] <= tick - 1
    BY <1>3 DEF Open, ComposeInv, LeakInv
  <2>2. reclaimed'[s] = tick
    BY <1>1 DEF ComposeInv, LeakInv
  <2>3. ~(Larger(start[e], tick) < tick)
    BY <1>3, <2>1 DEF Larger
  <2>4. Larger(start'[e], reclaimed'[Of[e]]) = Larger(start[e], tick) /\ tick' = tick
    BY <1>4, <1>7, <2>2
  <2>5. Owed(e)' = IF Kind[e] = "leak" /\ Larger(start'[e], reclaimed'[Of[e]]) < tick'
                   THEN Magnitude[e] * (tick' - Larger(start'[e], reclaimed'[Of[e]])) ELSE 0
    BY <1>7 DEF Owed, Larger
  <2>6. QED
    BY <2>3, <2>4, <2>5, Zenon
<1>8. \A e \in on : Kind[e] # "leak" => Owed(e) = 0 /\ Owed(e)' = 0
  BY DEF Owed
<1>9. LeakInv'
  <2>1. bytes' \in [Event -> Nat]
    BY <1>2 DEF ComposeInv, LeakInv
  <2>2. reclaimed' \in [ServiceTarget -> Nat] /\ \A t \in ServiceTarget : reclaimed'[t] <= tick
    BY <1>1, <1>3 DEF ComposeInv, LeakInv
  <2>3. \A e \in Event : bytes'[e] = IF e \in active' THEN Owed(e)' ELSE 0
    BY <1>2, <1>3, <1>4, <1>6, <1>7, <1>8 DEF ComposeInv, LeakInv
  <2>4. active' = IF tick' = 0 THEN {} ELSE Open(tick - 1)'
    BY <1>3, <1>4
  <2>5. QED
    BY <1>3, <1>4, <2>1, <2>2, <2>3, <2>4 DEF ComposeInv, LeakInv
<1>10. value = [f \in Field |-> compose_faults(f, Original(f), on, owes)]
  BY <1>3 DEF ComposeInv, ValuesCompose
<1>11. ASSUME NEW f \in Field PROVE value'[f] = compose_faults(f, Original(f), on, owe)
  <2>1. CASE f = h
    <3>1. ASSUME NEW e \in Parts(f, on) PROVE Contribute(e, f, Original(f), owe) = Original(f)
      <4>1. e \in Event /\ e \in on /\ h \in fault_fields(e)
        BY <1>3, <2>1 DEF Parts
      <4>2. Of[e] = s
        BY <4>1, LeaksAlone
      <4>3. owe[e] = 0
        BY <1>7, <4>1, <4>2
      <4>4. f[2] = "mem_footprint" /\ Original(f) \in Nat
        BY <2>1 DEF Original
      <4>5. QED
        BY <4>3, <4>4 DEF Contribute
    <3>2. IsFiniteSet(Parts(f, on))
      <4>1. Parts(f, on) \subseteq Event
        BY <1>3 DEF Parts
      <4>2. QED
        BY <4>1, FS_Subset, FaultAssumption
    <3>3. Original(f) \in Nat
      BY DEF Original
    <3>4. compose_faults(f, Original(f), on, owe) = Original(f)
      BY <3>1, <3>2, <3>3, ComposeNothing
    <3>5. value'[f] = Original(f)
      BY <1>2, <1>10, <2>1
    <3>6. QED
      BY <3>4, <3>5
  <2>2. CASE f # h
    <3>1. ASSUME NEW e \in Parts(f, on), f[2] = "mem_footprint" PROVE owes[e] = owe[e]
      <4>1. e \in Event /\ f \in fault_fields(e)
        BY <1>3 DEF Parts
      <4>2. f = <<f[1], "mem_footprint">>
        BY <3>1 DEF Field
      <4>3. Of[e] = f[1] /\ f[1] # s
        BY <2>2, <4>1, <4>2, LeaksAlone
      <4>4. QED
        BY <1>6, <4>1, <4>3
    <3>2. compose_faults(f, Original(f), on, owes) = compose_faults(f, Original(f), on, owe)
      BY <3>1, ComposeAgrees
    <3>3. QED
      BY <1>2, <1>10, <2>2, <3>2
  <2>3. QED
    BY <2>1, <2>2
<1>12. ValuesCompose'
  <2>1. value' = [f \in Field |-> value'[f]] /\ DOMAIN value' = Field
    BY <1>2, <1>10
  <2>2. value' = [f \in Field |-> compose_faults(f, Original(f), on, owe)]
    BY <1>11, <2>1
  <2>3. ValuesCompose' = (tick' > 0 => value' =
            [f \in Field |-> compose_faults(f, Original(f), Open(tick - 1)', owe)])
    BY Zenon DEF ValuesCompose, compose_faults, MapThenFoldSet, Contribute, fault_fields,
       Original, Smaller, Larger
  <2>4. QED
    BY <1>4, <2>2, <2>3
<1>13. QED
  BY <1>5, <1>9, <1>12 DEF ComposeInv

\* The invariant holds in every state.
LEMMA ComposeInvariance == InjectorSpec => []ComposeInv
<1>1. InjectorInit => ComposeInv
  <2> SUFFICES ASSUME InjectorInit PROVE ComposeInv
    OBVIOUS
  <2>1. FaultInv
    BY FaultInvInit
  <2>2. LeakInv
    <3>1. start \in [Event -> Nat] /\ duration \in [Event -> Nat \ {0}]
      BY FaultAssumption DEF InjectorInit
    <3>2. QED
      BY <3>1 DEF InjectorInit, LeakInv
  <2>3. ValuesCompose
    BY DEF InjectorInit, ValuesCompose
  <2>4. QED
    BY <2>1, <2>2, <2>3 DEF ComposeInv
<1>2. ComposeInv /\ UNCHANGED injectorVars => ComposeInv'
  <2> SUFFICES ASSUME ComposeInv, UNCHANGED injectorVars PROVE ComposeInv'
    OBVIOUS
  <2>1. UNCHANGED <<start, duration, tick, active, bytes, baselines, value, reclaimed>>
    BY DEF injectorVars
  <2>2. Open(tick - 1)' = Open(tick - 1) /\ \A e \in Event : Owed(e)' = Owed(e)
    BY <2>1 DEF Open, Owed
  <2>3. FaultInv'
    BY <2>1, <2>2 DEF ComposeInv, FaultInv, BaselinesAreOriginal, fault_fields
  <2>4. LeakInv'
    BY <2>1, <2>2 DEF ComposeInv, LeakInv
  <2>5. ValuesCompose' = (tick' > 0 => value' = [f \in Field |->
            compose_faults(f, Original(f), Open(tick - 1)', [e \in Event |-> Owed(e)'])])
    BY Zenon DEF ValuesCompose, compose_faults, MapThenFoldSet, Contribute, fault_fields,
       Original, Smaller, Larger
  <2>6. [e \in Event |-> Owed(e)'] = [e \in Event |-> Owed(e)]
    BY <2>2
  <2>7. ValuesCompose'
    BY <2>1, <2>2, <2>5, <2>6 DEF ComposeInv, ValuesCompose
  <2>8. QED
    BY <2>3, <2>4, <2>7 DEF ComposeInv
<1>3. ComposeInv /\ [InjectorNext]_injectorVars => ComposeInv'
  BY <1>2, ApplyTickComposes, RestartComposes DEF InjectorNext, Finished
<1>4. QED
  BY <1>1, <1>3, PTL DEF InjectorSpec

\* After each tick and each restart every field holds its original value with
\* the contributions of exactly the open events, for every set of events, every
\* schedule and however often services are restarted (apply_tick and
\* reset_leak_memory of injector.py).
THEOREM FaultsCompose == InjectorSpec => []ValuesCompose
  BY ComposeInvariance, PTL DEF ComposeInv

-----------------------------------------------------------------------------
\* Functions defined by recursion on a number.

\* The function f on the numbers up to size starts at base, and each of its
\* values makes the next.
Iterates(f, S, size, base, next) ==
    /\ f \in [0 .. size -> S]
    /\ f[0] = base /\ \A k \in 1 .. size : f[k] = next[k][f[k - 1]]

\* There is such a function, by induction on its size.
LEMMA RecursiveFunction ==
  ASSUME NEW size \in Nat, NEW S, NEW base \in S,
         NEW next \in [1 .. size -> [S -> S]]
  PROVE  \E f : Iterates(f, S, size, base, next)
<1> DEFINE Runs(n) == \E f \in [0 .. n -> S] :
               f[0] = base /\ \A k \in 1 .. n : f[k] = next[k][f[k - 1]]
           bad == {n \in 0 .. size : ~Runs(n)}
<1>1. Runs(0)
  <2> DEFINE f == [n \in 0 .. 0 |-> base]
  <2>1. f \in [0 .. 0 -> S] /\ f[0] = base
    OBVIOUS
  <2>2. \A k \in 1 .. 0 : f[k] = next[k][f[k - 1]]
    OBVIOUS
  <2> HIDE DEF f
  <2>3. QED
    BY <2>1, <2>2
<1>2. ASSUME NEW n \in Nat, n < size, Runs(n) PROVE Runs(n + 1)
  <2>1. PICK f \in [0 .. n -> S] :
            f[0] = base /\ \A k \in 1 .. n : f[k] = next[k][f[k - 1]]
    BY <1>2
  <2> DEFINE g == [k \in 0 .. n + 1 |-> IF k = n + 1 THEN next[k][f[n]] ELSE f[k]]
  <2>2. f[n] \in S /\ next[n + 1][f[n]] \in S
    <3>1. f[n] \in S
      OBVIOUS
    <3>2. n + 1 \in 1 .. size
      BY <1>2
    <3>3. QED
      BY <3>1, <3>2
  <2>3. g \in [0 .. n + 1 -> S]
    BY <2>2
  <2>4. g[0] = base
    BY <2>1
  <2>5. ASSUME NEW k \in 1 .. n + 1 PROVE g[k] = next[k][g[k - 1]]
    <3>1. CASE k = n + 1
      BY <3>1
    <3>2. CASE k # n + 1
      <4>1. k \in 1 .. n /\ k \in 0 .. n + 1 /\ k - 1 \in 0 .. n + 1 /\ k - 1 # n + 1
        BY <3>2
      <4>2. g[k] = f[k] /\ g[k - 1] = f[k - 1]
        BY <3>2, <4>1
      <4> HIDE DEF g
      <4>3. QED
        BY <2>1, <4>1, <4>2
    <3>3. QED
      BY <3>1, <3>2
  <2> HIDE DEF g
  <2>6. QED
    BY <2>3, <2>4, <2>5
<1>3. bad = {}
  <2>1. SUFFICES ASSUME bad # {} PROVE FALSE
    OBVIOUS
  <2>2. PICK n \in bad : \A m \in bad : n <= m
    <3>1. bad \subseteq Nat
      OBVIOUS
    <3> HIDE DEF bad
    <3>2. QED
      BY <2>1, <3>1, LeastNumber
  <2>3. n \in 0 .. size /\ ~Runs(n)
    OBVIOUS
  <2>4. ASSUME NEW m \in 0 .. size, m < n PROVE Runs(m)
    <3>1. m \notin bad
      <4>1. n \in Nat /\ ~(n <= m)
        BY <2>3, <2>4
      <4> HIDE DEF bad
      <4>2. QED
        BY <2>2, <4>1
    <3>2. QED
      BY <3>1
  <2> HIDE DEF Runs, bad
  <2>5. n # 0
    BY <1>1, <2>3
  <2>6. n - 1 \in Nat /\ n - 1 < size /\ Runs(n - 1)
    BY <2>3, <2>4, <2>5
  <2>7. Runs((n - 1) + 1)
    BY <1>2, <2>6
  <2>8. QED
    BY <2>3, <2>7
<1>4. Runs(size)
  <2> HIDE DEF Runs
  <2>1. QED
    BY <1>3
<1>5. QED
  BY <1>4 DEF Iterates

-----------------------------------------------------------------------------
\* The walk along a path.

\* A link leads from each of its ends to another node.
LEMMA OtherEnd ==
  ASSUME NEW l \in Link, NEW n \in Ends[l]
  PROVE  Other(l, n) \in Ends[l] /\ Other(l, n) # n /\ Other(l, n) \in Node
<1>1. Ends[l] \in SUBSET Node /\ Cardinality(Ends[l]) = 2
  BY RoutingAssumption
<1>2. Ends[l] # {n}
  BY <1>1, FS_Singleton
<1>3. \E m \in Ends[l] : m # n
  BY <1>2
<1>4. QED
  BY <1>1, <1>3 DEF Other

\* Where the link l leads from the node n, and the walk so far.
Across(l, n) == IF n \in Ends[l] THEN Other(l, n) ELSE n

Stride(at, path, client, k) ==
    IF k = 0 THEN client
    ELSE LET n == at[k - 1]
         IN IF n \in Ends[path[k]] THEN Other(path[k], n) ELSE n

Strides(path, client) ==
    CHOOSE at : at = [k \in 0 .. Len(path) |-> Stride(at, path, client, k)]

\* Walk is what its recursion defines.
LEMMA WalkIsStrides ==
  ASSUME NEW path, NEW client
  PROVE  Walk(path, client) = [k \in 0 .. Len(path) |-> Strides(path, client)[k]]
  BY Zenon DEF Walk, Strides, Stride

\* The walk starts at the client and crosses one link after the other.
LEMMA WalkIs ==
  ASSUME NEW path \in Seq(Link), NEW client \in Node
  PROVE  /\ Walk(path, client) \in [0 .. Len(path) -> Node]
         /\ Walk(path, client)[0] = client
         /\ \A k \in 1 .. Len(path) :
                Walk(path, client)[k] = Across(path[k], Walk(path, client)[k - 1])
<1> DEFINE next == [k \in 1 .. Len(path) |-> [n \in Node |-> Across(path[k], n)]]
<1>1. next \in [1 .. Len(path) -> [Node -> Node]]
  <2>1. ASSUME NEW k \in 1 .. Len(path), NEW n \in Node
        PROVE  Across(path[k], n) \in Node
    BY OtherEnd DEF Across
  <2>2. QED
    BY <2>1
<1>2. PICK at \in [0 .. Len(path) -> Node] :
          /\ at[0] = client
          /\ \A k \in 1 .. Len(path) : at[k] = next[k][at[k - 1]]
  <2>1. Len(path) \in Nat
    OBVIOUS
  <2> HIDE DEF next
  <2>2. \E at : Iterates(at, Node, Len(path), client, next)
    BY <1>1, <2>1, RecursiveFunction, Zenon
  <2>3. QED
    BY <2>2 DEF Iterates
<1>3. \A k \in 1 .. Len(path) : at[k] = Across(path[k], at[k - 1])
  <2>1. ASSUME NEW k \in 1 .. Len(path) PROVE at[k] = Across(path[k], at[k - 1])
    <3>1. at[k - 1] \in Node
      OBVIOUS
    <3>2. QED
      BY <1>2, <3>1
  <2>2. QED
    BY <2>1
<1>4. at = [k \in 0 .. Len(path) |-> Stride(at, path, client, k)]
  <2>1. \A k \in 0 .. Len(path) : at[k] = Stride(at, path, client, k)
    BY <1>2, <1>3 DEF Stride, Across
  <2>2. QED
    BY <2>1
<1> DEFINE w == Strides(path, client)
<1>5. w = [k \in 0 .. Len(path) |-> Stride(w, path, client, k)]
  BY <1>4, Zenon DEF Strides
<1>6. w[0] = client /\ \A k \in 1 .. Len(path) : w[k] = Across(path[k], w[k - 1])
  <2>1. \A k \in 0 .. Len(path) : w[k] = Stride(w, path, client, k)
    BY <1>5
  <2> HIDE DEF w
  <2>2. QED
    BY <2>1 DEF Stride, Across
<1>7. \A k \in 0 .. Len(path) : w[k] \in Node
  <2> DEFINE bad == {k \in 0 .. Len(path) : w[k] \notin Node}
  <2>1. SUFFICES ASSUME bad # {} PROVE FALSE
    OBVIOUS
  <2>2. PICK k \in bad : \A m \in bad : k <= m
    <3>1. bad \subseteq Nat
      OBVIOUS
    <3> HIDE DEF bad
    <3>2. QED
      BY <2>1, <3>1, LeastNumber
  <2>3. k # 0
    BY <1>6
  <2>4. w[k - 1] \in Node
    BY <2>2, <2>3
  <2> HIDE DEF w
  <2>5. w[k] = Across(path[k], w[k - 1]) /\ path[k] \in Link
    BY <1>6, <2>2, <2>3
  <2>6. w[k] \in Node
    BY <2>4, <2>5, OtherEnd DEF Across
  <2>7. QED
    BY <2>2, <2>6
<1>8. Walk(path, client) = [k \in 0 .. Len(path) |-> w[k]]
  BY WalkIsStrides
<1> HIDE DEF w
<1>9. \A k \in 0 .. Len(path) : Walk(path, client)[k] = w[k]
  BY <1>8
<1>10. QED
  BY <1>6, <1>7, <1>8, <1>9

\* One path begins with the other.
Begins(p, q) == Len(p) <= Len(q) /\ \A k \in 1 .. Len(p) : q[k] = p[k]

\* Along a path that begins another the walks agree, by induction on the steps.
LEMMA WalksAgree ==
  ASSUME NEW p \in Seq(Link), NEW q \in Seq(Link), Begins(p, q), NEW client \in Node
  PROVE  \A k \in 0 .. Len(p) : Walk(q, client)[k] = Walk(p, client)[k]
<1> DEFINE v == Walk(p, client)
           w == Walk(q, client)
           bad == {k \in 0 .. Len(p) : w[k] # v[k]}
<1>1. SUFFICES ASSUME bad # {} PROVE FALSE
  OBVIOUS
<1>2. PICK k \in bad : \A m \in bad : k <= m
  <2>1. bad \subseteq Nat
    OBVIOUS
  <2> HIDE DEF bad
  <2>2. QED
    BY <1>1, <2>1, LeastNumber
<1>3. /\ v[0] = client /\ w[0] = client
      /\ \A i \in 1 .. Len(p) : v[i] = Across(p[i], v[i - 1])
      /\ \A i \in 1 .. Len(q) : w[i] = Across(q[i], w[i - 1])
  BY WalkIs
<1> HIDE DEF v, w
<1>4. k \in 0 .. Len(p) /\ k # 0
  BY <1>3
<1>5. k - 1 \in 0 .. Len(p) /\ k - 1 \notin bad
  <2>1. k - 1 \in 0 .. Len(p) /\ ~(k <= k - 1)
    BY <1>4
  <2> HIDE DEF bad
  <2>2. QED
    BY <1>2, <2>1
<1>6. w[k - 1] = v[k - 1]
  BY <1>5
<1>7. k \in 1 .. Len(p) /\ k \in 1 .. Len(q) /\ q[k] = p[k]
  BY <1>4 DEF Begins
<1>8. w[k] = v[k]
  BY <1>3, <1>6, <1>7
<1>9. QED
  BY <1>8

\* One more link adds to the nodes visited where it leads.
LEMMA VisitedNext ==
  ASSUME NEW p \in Seq(Link), NEW l \in Link, NEW client \in Node
  PROVE  LET q == Append(p, l)
             n == Across(l, Walk(p, client)[Len(p)])
         IN  /\ q \in Seq(Link) /\ Len(q) = Len(p) + 1 /\ Begins(p, q)
             /\ Walk(q, client)[Len(q)] = n
             /\ Visited(q, client) = Visited(p, client) \cup {n}
<1> DEFINE q == Append(p, l)
           v == Walk(p, client)
           w == Walk(q, client)
           n == Across(l, v[Len(p)])
<1>1. q \in Seq(Link) /\ Len(q) = Len(p) + 1 /\ Begins(p, q) /\ q[Len(q)] = l
  BY DEF Begins
<1>2. \A k \in 0 .. Len(p) : w[k] = v[k]
  BY <1>1, WalksAgree
<1>3. w[Len(q)] = n
  <2>1. w[Len(q)] = Across(q[Len(q)], w[Len(q) - 1])
    BY <1>1, WalkIs
  <2> HIDE DEF v, w, q
  <2>2. QED
    BY <1>1, <1>2, <2>1
<1>4. Visited(p, client) = {v[k] : k \in 0 .. Len(p)}
      /\ Visited(q, client) = {w[k] : k \in 0 .. Len(q)}
  BY DEF Visited
<1> HIDE DEF v, w, q, n
<1>5. {w[k] : k \in 0 .. Len(q)} = {v[k] : k \in 0 .. Len(p)} \cup {n}
  <2>1. 0 .. Len(q) = 0 .. Len(p) \cup {Len(q)}
    BY <1>1
  <2>2. QED
    BY <1>2, <1>3, <2>1
<1>6. QED
  BY <1>1, <1>3, <1>4, <1>5 DEF q, v, w, n

\* The nodes a path visits are finitely many; when they are as many as its length
\* allows, no two steps of the walk are at one node.
LEMMA WalkInjective ==
  ASSUME NEW p \in Seq(Link), NEW client \in Node
  PROVE  /\ IsFiniteSet(Visited(p, client)) /\ Visited(p, client) \subseteq Node
         /\ Cardinality(Visited(p, client)) = Len(p) + 1 =>
                \A i, j \in 0 .. Len(p) : Walk(p, client)[i] = Walk(p, client)[j] => i = j
<1> DEFINE w == Walk(p, client)
           seen == Visited(p, client)
<1>1. w \in [0 .. Len(p) -> Node]
  BY WalkIs
<1>2. seen = {w[k] : k \in 0 .. Len(p)}
  BY DEF Visited
<1>3. Len(p) \in Nat
  OBVIOUS
<1> HIDE DEF w, seen
<1>4. w \in Surjection(0 .. Len(p), seen)
  BY <1>1, <1>2 DEF Surjection
<1>5. IsFiniteSet(0 .. Len(p)) /\ Cardinality(0 .. Len(p)) = Len(p) + 1
  BY <1>3, FS_Interval
<1>6. /\ IsFiniteSet(seen)
      /\ Cardinality(seen) = Cardinality(0 .. Len(p)) <=> w \in Injection(0 .. Len(p), seen)
  BY <1>4, <1>5, FS_Surjection
<1>7. seen \subseteq Node
  BY <1>1, <1>2
<1>8. Cardinality(seen) = Len(p) + 1 => \A i, j \in 0 .. Len(p) : w[i] = w[j] => i = j
  BY <1>5, <1>6 DEF Injection, IsInjective
<1>9. QED
  BY <1>6, <1>7, <1>8 DEF w, seen

-----------------------------------------------------------------------------
\* The answers, and the partial paths on the way to them.

\* A simple path that works, wherever it leads.
WorksFrom(p, client, nodes, links) ==
    /\ p \in Seq(Link)
    /\ Cardinality(Visited(p, client)) = Len(p) + 1
    /\ Operational(p, client, nodes, links)

\* It is short enough to be one of the paths of the topology.
LEMMA WorkingIsPath ==
  ASSUME NEW p, NEW client \in Node, NEW nodes, NEW links, WorksFrom(p, client, nodes, links)
  PROVE  p \in Paths
<1>1. p \in Seq(Link) /\ Cardinality(Visited(p, client)) = Len(p) + 1
  BY DEF WorksFrom
<1>2. Visited(p, client) \in SUBSET Node
  BY <1>1, WalkInjective
<1>3. Cardinality(Visited(p, client)) <= Cardinality(Node) /\ Cardinality(Node) \in Nat
  BY <1>2, SearchAssumption, FS_Subset, FS_CardinalityType
<1>4. Len(p) \in 0 .. Cardinality(Node) - 1 /\ p \in [1 .. Len(p) -> Link]
  BY <1>1, <1>3
<1>5. QED
  BY <1>4 DEF Paths

\* The answers are the working paths that lead to the host.
LEMMA AnswerWorks ==
  ASSUME NEW p, NEW client \in Node, NEW dest, NEW nodes, NEW links
  PROVE  p \in OperationalPaths(client, dest, nodes, links) <=>
             WorksFrom(p, client, nodes, links) /\ Walk(p, client)[Len(p)] = dest
<1>1. ASSUME p \in OperationalPaths(client, dest, nodes, links)
      PROVE  WorksFrom(p, client, nodes, links) /\ Walk(p, client)[Len(p)] = dest
  <2>1. PICK r \in Routes : /\ p = r.path /\ r.source = client /\ r.host = dest
                            /\ r.nodes \subseteq nodes /\ r.links \subseteq links
    BY <1>1 DEF OperationalPaths
  <2>2. PICK q \in Paths \X Node : /\ Cardinality(Visited(q[1], q[2])) = Len(q[1]) + 1
                                   /\ r = RouteOf(q[1], q[2])
    BY <2>1 DEF Routes
  <2>3. /\ q[1] = p /\ q[2] = client /\ Walk(p, client)[Len(p)] = dest
        /\ Visited(p, client) \subseteq nodes /\ {p[k] : k \in 1 .. Len(p)} \subseteq links
    BY <2>1, <2>2 DEF RouteOf
  <2>4. p \in Seq(Link)
    BY <2>3 DEF Paths
  <2>5. QED
    BY <2>2, <2>3, <2>4 DEF WorksFrom, Operational
<1>2. ASSUME WorksFrom(p, client, nodes, links), Walk(p, client)[Len(p)] = dest
      PROVE  p \in OperationalPaths(client, dest, nodes, links)
  <2>1. p \in Paths
    BY <1>2, WorkingIsPath
  <2> DEFINE r == RouteOf(p, client)
  <2>2. r \in Routes
    <3>1. <<p, client>> \in Paths \X Node
      BY <2>1
    <3>2. Cardinality(Visited(p, client)) = Len(p) + 1
      BY <1>2 DEF WorksFrom
    <3>3. QED
      BY <3>1, <3>2 DEF Routes
  <2>3. /\ r.path = p /\ r.source = client /\ r.host = dest
        /\ r.nodes \subseteq nodes /\ r.links \subseteq links
    BY <1>2 DEF RouteOf, WorksFrom, Operational
  <2> HIDE DEF r
  <2>4. QED
    BY <2>2, <2>3 DEF OperationalPaths
<1>3. QED
  BY <1>1, <1>2

\* What the queue holds: where a simple path that works has come.
Good(p) ==
    /\ p \in [node : Node, path : Seq(Link), visited : SUBSET Node]
    /\ WorksFrom(p.path, source, nodesUp, linksUp)
    /\ p.node = Walk(p.path, source)[Len(p.path)]
    /\ p.visited = Visited(p.path, source)

\* A usable link makes a good path longer by one.
LEMMA LongerIsGood ==
  ASSUME source \in Node, NEW p, Good(p), NEW l \in Link, Usable(l, p)
  PROVE  /\ Good(Longer(p, l))
         /\ Longer(p, l).path = Append(p.path, l)
<1> DEFINE q == Append(p.path, l)
           n == Other(l, p.node)
<1>1. /\ p \in [node : Node, path : Seq(Link), visited : SUBSET Node]
      /\ p.node = Walk(p.path, source)[Len(p.path)]
      /\ p.visited = Visited(p.path, source)
      /\ Cardinality(p.visited) = Len(p.path) + 1
      /\ Operational(p.path, source, nodesUp, linksUp)
  BY DEF Good, WorksFrom
<1>2. l \in linksUp /\ p.node \in Ends[l] /\ n \in nodesUp /\ n \notin p.visited
  BY DEF Usable
<1>3. n = Across(l, Walk(p.path, source)[Len(p.path)]) /\ n \in Node
  BY <1>1, <1>2, OtherEnd DEF Across
<1>4. p.path \in Seq(Link)
  BY <1>1
<1>5. /\ q \in Seq(Link) /\ Len(q) = Len(p.path) + 1 /\ Begins(p.path, q)
      /\ Walk(q, source)[Len(q)] = n
      /\ Visited(q, source) = p.visited \cup {n}
  BY <1>1, <1>3, <1>4, VisitedNext
<1>6. Cardinality(Visited(q, source)) = Len(q) + 1
  <2>1. IsFiniteSet(p.visited)
    BY <1>1, <1>4, WalkInjective
  <2> HIDE DEF q, n
  <2>2. Cardinality(p.visited \cup {n}) = Cardinality(p.visited) + 1
    BY <1>2, <2>1, FS_AddElement
  <2>3. QED
    BY <1>1, <1>5, <2>2
<1>7. \A k \in 1 .. Len(q) : q[k] \in linksUp
  <2>1. ASSUME NEW k \in 1 .. Len(q) PROVE q[k] \in linksUp
    <3>1. CASE k = Len(q)
      BY <1>2, <1>4, <1>5, <3>1
    <3>2. CASE k # Len(q)
      <4>1. k \in 1 .. Len(p.path)
        BY <1>4, <1>5, <3>2
      <4>2. q[k] = p.path[k]
        BY <1>4, <4>1
      <4>3. QED
        BY <1>1, <4>1, <4>2 DEF Operational
    <3>3. QED
      BY <3>1, <3>2
  <2>2. QED
    BY <2>1
<1>8. Visited(q, source) \subseteq nodesUp
  BY <1>1, <1>2, <1>5 DEF Operational
<1>9. WorksFrom(q, source, nodesUp, linksUp)
  BY <1>5, <1>6, <1>7, <1>8 DEF WorksFrom, Operational
<1>10. Longer(p, l) = [node |-> n, path |-> q, visited |-> p.visited \cup {n}]
  BY DEF Longer
<1> HIDE DEF q, n
<1>11. Longer(p, l).path = q /\ Good(Longer(p, l))
  BY <1>1, <1>3, <1>5, <1>9, <1>10 DEF Good
<1>12. QED
  BY <1>11 DEF q

\* The loop over the sorted links, after the first n of them.
Record == [node : Node, path : Seq(Link), visited : SUBSET Node]

Turn(extended, p, n) ==
    IF n = 0 THEN <<>>
    ELSE IF Usable(Sorted[n], p) THEN Append(extended[n - 1], Longer(p, Sorted[n]))
    ELSE extended[n - 1]

Turns(p) == CHOOSE extended : extended = [n \in 0 .. Len(Sorted) |-> Turn(extended, p, n)]

\* Extend is what the loop has made at its end.
LEMMA ExtendIsLoop ==
  ASSUME NEW p
  PROVE  Extend(p) = Turns(p)[Len(Sorted)]
  BY Zenon DEF Extend, Turns, Turn

\* The loop is defined for every order of the links.
LEMMA LoopTurns ==
  ASSUME source \in Node, NEW p, Good(p)
  PROVE  /\ Turns(p)[0] = <<>>
         /\ \A n \in 1 .. Len(Sorted) :
                Turns(p)[n] = IF Usable(Sorted[n], p)
                              THEN Append(Turns(p)[n - 1], Longer(p, Sorted[n]))
                              ELSE Turns(p)[n - 1]
<1> DEFINE next == [n \in 1 .. Len(Sorted) |-> [e \in Seq(Record) |->
               IF Usable(Sorted[n], p) THEN Append(e, Longer(p, Sorted[n])) ELSE e]]
<1>1. Sorted \in Seq(Link) /\ Len(Sorted) \in Nat
  BY SearchAssumption
<1>2. next \in [1 .. Len(Sorted) -> [Seq(Record) -> Seq(Record)]]
  <2>1. ASSUME NEW n \in 1 .. Len(Sorted), NEW e \in Seq(Record)
        PROVE  (IF Usable(Sorted[n], p) THEN Append(e, Longer(p, Sorted[n])) ELSE e)
                   \in Seq(Record)
    <3>1. CASE Usable(Sorted[n], p)
      <4>1. Sorted[n] \in Link
        BY <1>1
      <4>2. Longer(p, Sorted[n]) \in Record
        BY <3>1, <4>1, LongerIsGood DEF Good, Record
      <4>3. QED
        BY <3>1, <4>2
    <3>2. CASE ~Usable(Sorted[n], p)
      BY <3>2
    <3>3. QED
      BY <3>1, <3>2
  <2>2. QED
    BY <2>1
<1>3. \A n \in 1 .. Len(Sorted), e \in Seq(Record) :
          next[n][e] = IF Usable(Sorted[n], p) THEN Append(e, Longer(p, Sorted[n])) ELSE e
  OBVIOUS
<1> HIDE DEF next
<1>4. PICK g : Iterates(g, Seq(Record), Len(Sorted), <<>>, next)
  <2>1. <<>> \in Seq(Record)
    OBVIOUS
  <2>2. QED
    BY <1>1, <1>2, <2>1, RecursiveFunction, Zenon
<1>5. g = [n \in 0 .. Len(Sorted) |-> Turn(g, p, n)]
  <2>1. /\ g \in [0 .. Len(Sorted) -> Seq(Record)] /\ g[0] = <<>>
        /\ \A n \in 1 .. Len(Sorted) : g[n] = next[n][g[n - 1]]
    BY <1>4 DEF Iterates
  <2>2. ASSUME NEW n \in 1 .. Len(Sorted) PROVE g[n] = Turn(g, p, n)
    <3>1. g[n - 1] \in Seq(Record)
      BY <1>1, <2>1
    <3>2. g[n] = IF Usable(Sorted[n], p)
                 THEN Append(g[n - 1], Longer(p, Sorted[n])) ELSE g[n - 1]
      BY <1>3, <2>1, <3>1
    <3>3. QED
      BY <3>2 DEF Turn
  <2>3. g[0] = Turn(g, p, 0)
    BY <2>1 DEF Turn
  <2>4. \A n \in 0 .. Len(Sorted) : g[n] = Turn(g, p, n)
    BY <1>1, <2>2, <2>3
  <2>5. QED
    BY <2>1, <2>4
<1>6. Turns(p) = [n \in 0 .. Len(Sorted) |-> Turn(Turns(p), p, n)]
  BY <1>5, Zenon DEF Turns
<1>7. \A n \in 0 .. Len(Sorted) : Turns(p)[n] = Turn(Turns(p), p, n)
  BY <1>6
<1>8. QED
  BY <1>1, <1>7 DEF Turn

\* What the loop has gathered after n links: p made longer by each that is usable.
Gathered(p, e, n) ==
    /\ e \in Seq(Record)
    /\ \A i \in 1 .. Len(e) : \E m \in 1 .. n :
           Usable(Sorted[m], p) /\ e[i] = Longer(p, Sorted[m])
    /\ \A m \in 1 .. n : Usable(Sorted[m], p) =>
           \E i \in 1 .. Len(e) : e[i] = Longer(p, Sorted[m])
    /\ \A i, j \in 1 .. Len(e) : e[i] = e[j] => i = j

\* One turn of the loop adds the link's path or leaves the paths alone.
LEMMA TurnGathers ==
  ASSUME source \in Node, NEW p, Good(p), NEW n \in 1 .. Len(Sorted), NEW e,
         Gathered(p, e, n - 1)
  PROVE  Gathered(p, IF Usable(Sorted[n], p) THEN Append(e, Longer(p, Sorted[n])) ELSE e, n)
<1>1. Sorted \in Seq(Link) /\ Sorted[n] \in Link
      /\ \A i, j \in 1 .. Len(Sorted) : Sorted[i] = Sorted[j] => i = j
  BY SearchAssumption DEF IsInjective
<1>2. /\ e \in Seq(Record)
      /\ \A i \in 1 .. Len(e) : \E m \in 1 .. n - 1 :
             Usable(Sorted[m], p) /\ e[i] = Longer(p, Sorted[m])
      /\ \A m \in 1 .. n - 1 : Usable(Sorted[m], p) =>
             \E i \in 1 .. Len(e) : e[i] = Longer(p, Sorted[m])
      /\ \A i, j \in 1 .. Len(e) : e[i] = e[j] => i = j
  BY DEF Gathered
<1>3. CASE ~Usable(Sorted[n], p)
  <2>1. \A i \in 1 .. Len(e) : \E m \in 1 .. n :
             Usable(Sorted[m], p) /\ e[i] = Longer(p, Sorted[m])
    BY <1>2
  <2>2. \A m \in 1 .. n : Usable(Sorted[m], p) =>
             \E i \in 1 .. Len(e) : e[i] = Longer(p, Sorted[m])
    BY <1>2, <1>3
  <2>3. QED
    BY <1>2, <1>3, <2>1, <2>2 DEF Gathered
<1>4. CASE Usable(Sorted[n], p)
  <2> DEFINE q == Longer(p, Sorted[n])
             f == Append(e, q)
  <2>1. Good(q) /\ q.path = Append(p.path, Sorted[n])
    BY <1>1, <1>4, LongerIsGood
  <2>2. q \in Record
    BY <2>1 DEF Good, Record
  <2> HIDE DEF q
  <2>3. /\ f \in Seq(Record) /\ Len(f) = Len(e) + 1 /\ f[Len(e) + 1] = q
        /\ \A i \in 1 .. Len(e) : f[i] = e[i]
    BY <1>2, <2>2
  <2> HIDE DEF f
  <2>4. ASSUME NEW i \in 1 .. Len(f)
        PROVE  \E m \in 1 .. n : Usable(Sorted[m], p) /\ f[i] = Longer(p, Sorted[m])
    <3>1. CASE i = Len(e) + 1
      BY <1>4, <2>3, <3>1 DEF q
    <3>2. CASE i # Len(e) + 1
      <4>1. i \in 1 .. Len(e)
        BY <1>2, <2>3, <3>2
      <4>2. QED
        BY <1>2, <2>3, <4>1
    <3>3. QED
      BY <3>1, <3>2
  <2>5. ASSUME NEW m \in 1 .. n, Usable(Sorted[m], p)
        PROVE  \E i \in 1 .. Len(f) : f[i] = Longer(p, Sorted[m])
    <3>1. CASE m = n
      <4>1. Len(e) + 1 \in 1 .. Len(f)
        BY <1>2, <2>3
      <4>2. QED
        BY <2>3, <3>1, <4>1 DEF q
    <3>2. CASE m # n
      <4>1. PICK i \in 1 .. Len(e) : e[i] = Longer(p, Sorted[m])
        BY <1>2, <2>5, <3>2
      <4>2. i \in 1 .. Len(f) /\ f[i] = e[i]
        BY <1>2, <2>3
      <4>3. QED
        BY <4>1, <4>2
    <3>3. QED
      BY <3>1, <3>2
  <2>6. ASSUME NEW i \in 1 .. Len(e) PROVE e[i] # q
    <3>1. PICK m \in 1 .. n - 1 : Usable(Sorted[m], p) /\ e[i] = Longer(p, Sorted[m])
      BY <1>2
    <3>2. Sorted[m] \in Link /\ Sorted[m] # Sorted[n]
      BY <1>1, <3>1
    <3>3. e[i].path = Append(p.path, Sorted[m])
      BY <3>1, <3>2, LongerIsGood
    <3>4. p.path \in Seq(Link)
      BY DEF Good
    <3>5. Append(p.path, Sorted[m])[Len(p.path) + 1] = Sorted[m]
          /\ Append(p.path, Sorted[n])[Len(p.path) + 1] = Sorted[n]
      BY <3>4
    <3>6. QED
      BY <2>1, <3>2, <3>3, <3>5
  <2>7. ASSUME NEW i \in 1 .. Len(f), NEW j \in 1 .. Len(f), f[i] = f[j] PROVE i = j
    <3>1. i \in 1 .. Len(e) \/ i = Len(e) + 1
      BY <1>2, <2>3
    <3>2. j \in 1 .. Len(e) \/ j = Len(e) + 1
      BY <1>2, <2>3
    <3>3. QED
      BY <1>2, <2>3, <2>6, <2>7, <3>1, <3>2
  <2>8. Gathered(p, f, n)
    BY <2>3, <2>4, <2>5, <2>7 DEF Gathered
  <2>9. QED
    BY <1>4, <2>8 DEF f, q
<1>5. QED
  BY <1>3, <1>4

\* Extend makes p longer by every usable link, once, by induction on the loop.
LEMMA ExtendGathers ==
  ASSUME source \in Node, NEW p, Good(p)
  PROVE  Gathered(p, Extend(p), Len(Sorted))
<1> DEFINE bad == {n \in 0 .. Len(Sorted) : ~Gathered(p, Turns(p)[n], n)}
<1>1. Len(Sorted) \in Nat
  BY SearchAssumption
<1>2. bad = {}
  <2>1. SUFFICES ASSUME bad # {} PROVE FALSE
    OBVIOUS
  <2>2. PICK n \in bad : \A m \in bad : n <= m
    <3>1. bad \subseteq Nat
      OBVIOUS
    <3> HIDE DEF bad
    <3>2. QED
      BY <2>1, <3>1, LeastNumber
  <2>3. n \in 0 .. Len(Sorted) /\ ~Gathered(p, Turns(p)[n], n)
    OBVIOUS
  <2>4. n # 0
    <3>1. Gathered(p, <<>>, 0)
      BY DEF Gathered
    <3>2. QED
      BY <2>3, <3>1, LoopTurns
  <2>5. n \in 1 .. Len(Sorted) /\ n - 1 \in 0 .. Len(Sorted) /\ ~(n <= n - 1)
    BY <1>1, <2>3, <2>4
  <2>6. Gathered(p, Turns(p)[n - 1], n - 1)
    <3>1. n - 1 \notin bad
      <4> HIDE DEF bad
      <4>1. QED
        BY <2>2, <2>5
    <3>2. QED
      BY <2>5, <3>1
  <2>7. Gathered(p, Turns(p)[n], n)
    BY <2>5, <2>6, LoopTurns, TurnGathers
  <2>8. QED
    BY <2>3, <2>7
<1>3. Len(Sorted) \in 0 .. Len(Sorted)
  BY <1>1
<1>4. Gathered(p, Turns(p)[Len(Sorted)], Len(Sorted))
  BY <1>2, <1>3
<1>5. QED
  BY <1>4, ExtendIsLoop

-----------------------------------------------------------------------------
\* The search.

\* A path that begins one no longer than it is that one.
LEMMA BeginsSame ==
  ASSUME NEW p \in Seq(Link), NEW q \in Seq(Link), Begins(p, q), Len(q) <= Len(p)
  PROVE  p = q
  BY DEF Begins

\* What the next link of a path changes about the paths that begin it.
LEMMA BeginsNext ==
  ASSUME NEW p \in Seq(Link), NEW q \in Seq(Link), NEW l \in Link
  PROVE  /\ Begins(Append(p, l), q) => Begins(p, q)
         /\ Begins(q, Append(p, l)) => Begins(q, p) \/ Begins(p, q)
<1> DEFINE r == Append(p, l)
<1>1. /\ r \in Seq(Link) /\ Len(r) = Len(p) + 1
      /\ \A k \in 1 .. Len(p) : r[k] = p[k]
  OBVIOUS
<1> HIDE DEF r
<1>2. Begins(r, q) => Begins(p, q)
  BY <1>1 DEF Begins
<1>3. ASSUME Begins(q, r) PROVE Begins(q, p) \/ Begins(p, q)
  <2>1. CASE Len(q) <= Len(p)
    BY <1>1, <1>3, <2>1 DEF Begins
  <2>2. CASE Len(q) > Len(p)
    BY <1>1, <1>3, <2>2 DEF Begins
  <2>3. QED
    BY <2>1, <2>2
<1>4. QED
  BY <1>2, <1>3 DEF r

\* The question, and everything the search holds is part of the way to an answer.
Asked ==
    /\ source \in Client /\ source \in Node /\ goal \in Node
    /\ nodesUp \subseteq Node /\ linksUp \subseteq Link
    /\ limit \in Limits /\ done \in BOOLEAN

Sound ==
    /\ frontier \in Seq(Record) /\ emitted \in Seq(Seq(Link))
    /\ \A i \in 1 .. Len(frontier) : Good(frontier[i])
    /\ \A i \in 1 .. Len(emitted) : emitted[i] \in Answers

\* The queue is sorted by length and never holds two lengths that are not next to
\* each other; nothing in it is shorter than what has been yielded.
Ordered ==
    /\ \A i, j \in 1 .. Len(emitted) : i < j => Len(emitted[i]) <= Len(emitted[j])
    /\ \A i \in 1 .. Len(emitted), j \in 1 .. Len(frontier) :
           Len(emitted[i]) <= Len(frontier[j].path)
    /\ \A i, j \in 1 .. Len(frontier) :
           /\ i < j => Len(frontier[i].path) <= Len(frontier[j].path)
           /\ Len(frontier[j].path) <= Len(frontier[i].path) + 1

\* No path yielded or in the queue begins another one.
Apart ==
    /\ \A i, j \in 1 .. Len(emitted) : Begins(emitted[i], emitted[j]) => i = j
    /\ \A i, j \in 1 .. Len(frontier) :
           Begins(frontier[i].path, frontier[j].path) => i = j
    /\ \A i \in 1 .. Len(emitted), j \in 1 .. Len(frontier) :
           ~Begins(emitted[i], frontier[j].path) /\ ~Begins(frontier[j].path, emitted[i])

\* Every answer has been yielded or the search is on its way to it.
Covered == \A a \in Answers :
    \/ \E i \in 1 .. Len(emitted) : emitted[i] = a
    \/ \E i \in 1 .. Len(frontier) : Begins(frontier[i].path, a)

\* It stops when the queue is empty or when it has as many as it was asked for.
Stops ==
    /\ done => frontier = <<>> \/ (limit # NoLimit /\ Len(emitted) >= limit)
    /\ limit # NoLimit => Len(emitted) <= limit /\ (~done => Len(emitted) < limit)

SearchInv == Asked /\ Sound /\ Ordered /\ Apart /\ Covered /\ Stops

\* The search starts with the empty path, or with nothing when an end is down.
LEMMA SearchInvInit == SearchInit => SearchInv
<1> SUFFICES ASSUME SearchInit PROVE SearchInv
  OBVIOUS
<1>1. Asked
  BY SearchAssumption DEF SearchInit, Asked
<1>2. emitted = <<>> /\ done = FALSE /\ Len(emitted) = 0
  BY DEF SearchInit
<1>3. Stops
  <2>1. limit # NoLimit => limit \in Nat \ {0}
    BY SearchAssumption DEF SearchInit
  <2>2. QED
    BY <1>2, <2>1 DEF Stops
<1>4. /\ <<>> \in Seq(Link) /\ Len(<<>>) = 0
      /\ Walk(<<>>, source) \in [0 .. 0 -> Node] /\ Walk(<<>>, source)[0] = source
  <2>1. <<>> \in Seq(Link) /\ Len(<<>>) = 0 /\ source \in Node
    BY <1>1 DEF Asked
  <2>2. QED
    BY <2>1, WalkIs
<1>5. Visited(<<>>, source) = {source}
  <2>1. Visited(<<>>, source) = {Walk(<<>>, source)[k] : k \in 0 .. 0}
    BY <1>4 DEF Visited
  <2>2. QED
    BY <1>4, <2>1
<1>6. CASE {source, goal} \subseteq nodesUp
  <2> DEFINE p == [node |-> source, path |-> <<>>, visited |-> {source}]
  <2>1. frontier = <<p>>
    BY <1>6 DEF SearchInit
  <2>2. Good(p)
    <3>1. p \in [node : Node, path : Seq(Link), visited : SUBSET Node]
      BY <1>1 DEF Asked
    <3>2. WorksFrom(<<>>, source, nodesUp, linksUp)
      <4>1. Cardinality(Visited(<<>>, source)) = Len(<<>>) + 1
        BY <1>4, <1>5, FS_Singleton
      <4>2. QED
        BY <1>4, <1>5, <1>6, <4>1 DEF WorksFrom, Operational
    <3>3. QED
      BY <1>4, <1>5, <3>1, <3>2 DEF Good
  <2>3. p \in Record /\ p.path = <<>>
    BY <2>2 DEF Good, Record
  <2> HIDE DEF p
  <2>4. /\ frontier \in Seq(Record) /\ Len(frontier) = 1 /\ frontier[1] = p
    BY <2>1, <2>3
  <2>5. Sound /\ Ordered /\ Apart
    BY <1>2, <1>4, <2>2, <2>3, <2>4 DEF Sound, Ordered, Apart
  <2>6. \A a \in Answers : Begins(frontier[1].path, a)
    <3>1. \A a \in Answers : a \in Seq(Link)
      BY <1>1, AnswerWorks DEF Answers, Asked, WorksFrom
    <3>2. QED
      BY <1>4, <2>3, <2>4, <3>1 DEF Begins
  <2>7. Covered
    BY <2>4, <2>6 DEF Covered
  <2>8. QED
    BY <1>1, <1>3, <2>5, <2>7 DEF SearchInv
<1>7. CASE ~({source, goal} \subseteq nodesUp)
  <2>1. frontier = <<>> /\ Len(frontier) = 0
    BY <1>7 DEF SearchInit
  <2>2. Sound /\ Ordered /\ Apart
    BY <1>2, <2>1 DEF Sound, Ordered, Apart
  <2>3. ASSUME NEW a \in Answers PROVE FALSE
    <3>1. WorksFrom(a, source, nodesUp, linksUp) /\ Walk(a, source)[Len(a)] = goal
      BY <1>1, AnswerWorks DEF Answers, Asked
    <3>2. a \in Seq(Link) /\ Visited(a, source) \subseteq nodesUp
      BY <3>1 DEF WorksFrom, Operational
    <3>3. Walk(a, source)[0] = source
      BY <1>1, <3>2, WalkIs DEF Asked
    <3>4. Visited(a, source) = {Walk(a, source)[k] : k \in 0 .. Len(a)}
          /\ 0 \in 0 .. Len(a) /\ Len(a) \in 0 .. Len(a)
      BY <3>2 DEF Visited
    <3>5. source \in Visited(a, source) /\ goal \in Visited(a, source)
      BY <3>1, <3>3, <3>4
    <3>6. QED
      BY <1>7, <3>2, <3>5
  <2>4. Covered
    BY <2>3 DEF Covered
  <2>5. QED
    BY <1>1, <1>3, <2>2, <2>4 DEF SearchInv
<1>8. QED
  BY <1>6, <1>7

\* What an answer is, from the client the search starts at.
LEMMA AnswerFacts ==
  ASSUME Asked, NEW a \in Answers
  PROVE  /\ a \in Seq(Link) /\ WorksFrom(a, source, nodesUp, linksUp)
         /\ Walk(a, source)[Len(a)] = goal
         /\ Walk(a, source)[0] = source
         /\ \A k \in 1 .. Len(a) :
                Walk(a, source)[k] = Across(a[k], Walk(a, source)[k - 1])
         /\ \A i, j \in 0 .. Len(a) : Walk(a, source)[i] = Walk(a, source)[j] => i = j
<1>1. source \in Node
  BY DEF Asked
<1>2. WorksFrom(a, source, nodesUp, linksUp) /\ Walk(a, source)[Len(a)] = goal
  BY <1>1, AnswerWorks DEF Answers
<1>3. a \in Seq(Link) /\ Cardinality(Visited(a, source)) = Len(a) + 1
  BY <1>2 DEF WorksFrom
<1>4. \A i, j \in 0 .. Len(a) : Walk(a, source)[i] = Walk(a, source)[j] => i = j
  BY <1>1, <1>3, WalkInjective
<1>5. QED
  BY <1>1, <1>2, <1>3, <1>4, WalkIs

\* A partial path at the host that begins an answer is that answer.
LEMMA Arrived ==
  ASSUME Asked, NEW p, Good(p), NEW a \in Answers, Begins(p.path, a), p.node = goal
  PROVE  p.path = a
<1>1. p.path \in Seq(Link) /\ p.node = Walk(p.path, source)[Len(p.path)] /\ source \in Node
  BY DEF Good, Asked
<1>2. a \in Seq(Link)
  BY AnswerFacts
<1>3. Len(p.path) \in 0 .. Len(p.path) /\ Len(p.path) \in 0 .. Len(a) /\ Len(a) \in 0 .. Len(a)
  BY <1>1, <1>2 DEF Begins
<1>4. Walk(a, source)[Len(p.path)] = goal
  BY <1>1, <1>2, <1>3, WalksAgree
<1>5. Len(p.path) = Len(a)
  BY <1>3, <1>4, AnswerFacts
<1>6. QED
  BY <1>1, <1>2, <1>5, BeginsSame

\* Elsewhere, the answer goes on by a link that is usable there.
LEMMA OnTheWay ==
  ASSUME Asked, NEW p, Good(p), NEW a \in Answers, Begins(p.path, a), p.node # goal
  PROVE  \E l \in Link : Usable(l, p) /\ Begins(Append(p.path, l), a)
<1> DEFINE w == Walk(a, source)
           n == Len(p.path)
           l == a[n + 1]
<1>1. /\ p.path \in Seq(Link) /\ p.node = Walk(p.path, source)[n] /\ source \in Node
      /\ p.visited = {Walk(p.path, source)[k] : k \in 0 .. n}
  BY DEF Good, Asked, Visited
<1>2. /\ a \in Seq(Link) /\ w[Len(a)] = goal
      /\ \A k \in 1 .. Len(a) : w[k] = Across(a[k], w[k - 1])
      /\ \A i, j \in 0 .. Len(a) : w[i] = w[j] => i = j
  BY AnswerFacts
<1>3. Visited(a, source) \subseteq nodesUp /\ \A k \in 1 .. Len(a) : a[k] \in linksUp
  BY AnswerFacts DEF WorksFrom, Operational
<1>4. n \in Nat /\ \A k \in 0 .. n : w[k] = Walk(p.path, source)[k]
  BY <1>1, <1>2, WalksAgree
<1>5. Visited(a, source) = {w[k] : k \in 0 .. Len(a)}
  BY DEF Visited
<1> HIDE DEF w
<1>6. n < Len(a)
  <2>1. n <= Len(a)
    BY DEF Begins
  <2>2. w[n] # goal
    BY <1>1, <1>4
  <2>3. QED
    BY <1>2, <1>4, <2>1, <2>2
<1>7. n + 1 \in 1 .. Len(a) /\ n \in 0 .. Len(a) /\ n + 1 \in 0 .. Len(a) /\ n + 1 # n
  BY <1>2, <1>4, <1>6
<1>8. l \in Link /\ l \in linksUp /\ w[n + 1] = Across(l, w[n]) /\ w[n] = p.node
  BY <1>1, <1>2, <1>3, <1>4, <1>7
<1> HIDE DEF l
<1>9. p.node \in Ends[l] /\ Other(l, p.node) = w[n + 1]
  <2>1. w[n + 1] # w[n]
    BY <1>2, <1>7
  <2>2. QED
    BY <1>8, <2>1 DEF Across
<1>10. w[n + 1] \in nodesUp
  BY <1>3, <1>5, <1>7
<1>11. w[n + 1] \notin p.visited
  <2>1. SUFFICES ASSUME w[n + 1] \in p.visited PROVE FALSE
    OBVIOUS
  <2>2. PICK k \in 0 .. n : w[n + 1] = Walk(p.path, source)[k]
    BY <1>1, <2>1
  <2>3. w[n + 1] = w[k] /\ k \in 0 .. Len(a) /\ k # n + 1
    BY <1>4, <1>6, <1>7, <2>2
  <2>4. QED
    BY <1>2, <1>7, <2>3
<1>12. Usable(l, p)
  BY <1>8, <1>9, <1>10, <1>11 DEF Usable
<1>13. Begins(Append(p.path, l), a)
  <2> DEFINE q == Append(p.path, l)
  <2>1. /\ Len(q) = n + 1 /\ q[n + 1] = l
        /\ \A k \in 1 .. n : q[k] = p.path[k]
    BY <1>1, <1>8
  <2> HIDE DEF q
  <2>2. \A k \in 1 .. n : a[k] = p.path[k]
    BY DEF Begins
  <2>3. Begins(q, a)
    <3>1. Len(q) <= Len(a)
      BY <1>2, <1>4, <1>6, <2>1
    <3>2. \A k \in 1 .. Len(q) : a[k] = q[k]
      BY <1>4, <2>1, <2>2 DEF l
    <3>3. QED
      BY <3>1, <3>2 DEF Begins
  <2>4. QED
    BY <2>3 DEF q
<1>14. QED
  BY <1>8, <1>12, <1>13

\* Yield takes a good path at the host to the end of the answers yielded.
LEMMA YieldKeeps ==
  ASSUME SearchInv, Yield
  PROVE  SearchInv'
<1> DEFINE p == Head(frontier)
           n == Len(frontier) - 1
           m == Len(emitted)
<1>1. Asked /\ Sound /\ Ordered /\ Apart /\ Covered /\ Stops
  BY DEF SearchInv
<1>2. /\ ~done /\ frontier # <<>> /\ p.node = goal
      /\ emitted' = Append(emitted, p.path)
      /\ done' = (limit # NoLimit /\ Len(emitted') >= limit)
      /\ frontier' = Tail(frontier)
      /\ UNCHANGED <<source, goal, nodesUp, linksUp, limit>>
  BY DEF Yield
<1>3. /\ frontier \in Seq(Record) /\ Len(frontier) = n + 1 /\ n \in Nat
      /\ p = frontier[1] /\ 1 \in 1 .. Len(frontier)
      /\ frontier' \in Seq(Record) /\ Len(frontier') = n
      /\ \A i \in 1 .. n : frontier'[i] = frontier[i + 1] /\ i + 1 \in 1 .. Len(frontier)
  BY <1>1, <1>2 DEF Sound
<1>4. Good(p) /\ p.path \in Seq(Link)
  BY <1>1, <1>3 DEF Sound, Good
<1>5. /\ emitted' \in Seq(Seq(Link)) /\ m \in Nat /\ Len(emitted') = m + 1
      /\ emitted'[m + 1] = p.path
      /\ \A i \in 1 .. m : emitted'[i] = emitted[i]
  BY <1>1, <1>2, <1>4 DEF Sound
<1>6. Answers' = Answers
  BY <1>2 DEF Answers
<1> HIDE DEF p, n, m
<1>7. Asked'
  BY <1>1, <1>2 DEF Asked
<1>8. Sound'
  <2>1. ASSUME NEW i \in 1 .. n PROVE Good(frontier[i])'
    <3>1. Good(frontier[i + 1])
      BY <1>1, <1>3 DEF Sound
    <3>2. QED
      BY <1>2, <1>3, <3>1 DEF Good
  <2>2. p.path \in Answers
    BY <1>1, <1>2, <1>4, AnswerWorks DEF Good, Answers, Asked
  <2>3. \A i \in 1 .. m : emitted[i] \in Answers
    BY <1>1 DEF Sound, m
  <2>4. ASSUME NEW i \in 1 .. m + 1 PROVE emitted'[i] \in Answers
    <3>1. CASE i = m + 1
      BY <1>5, <2>2, <3>1
    <3>2. CASE i # m + 1
      <4>1. i \in 1 .. m
        BY <1>5, <3>2
      <4>2. QED
        BY <1>5, <2>3, <4>1
    <3>3. QED
      BY <3>1, <3>2
  <2>5. QED
    BY <1>3, <1>5, <1>6, <2>1, <2>4 DEF Sound
<1>9. Ordered'
  <2>1. ASSUME NEW i \in 1 .. m + 1, NEW j \in 1 .. m + 1, i < j
        PROVE  Len(emitted'[i]) <= Len(emitted'[j])
    <3>1. i \in 1 .. m /\ emitted'[i] = emitted[i]
      BY <1>5, <2>1
    <3>2. CASE j \in 1 .. m
      BY <1>1, <1>5, <2>1, <3>1, <3>2 DEF Ordered, m
    <3>3. CASE j = m + 1
      BY <1>1, <1>3, <1>5, <3>1, <3>3 DEF Ordered, m
    <3>4. QED
      BY <1>5, <3>2, <3>3
  <2>2. ASSUME NEW i \in 1 .. m + 1, NEW j \in 1 .. n
        PROVE  Len(emitted'[i]) <= Len(frontier'[j].path)
    <3>1. CASE i \in 1 .. m
      BY <1>1, <1>3, <1>5, <3>1 DEF Ordered, m
    <3>2. CASE i = m + 1
      <4>1. 1 < j + 1 /\ j + 1 \in 1 .. Len(frontier)
        BY <1>3
      <4>2. QED
        BY <1>1, <1>3, <1>5, <3>2, <4>1 DEF Ordered
    <3>3. QED
      BY <1>5, <3>1, <3>2
  <2>3. ASSUME NEW i \in 1 .. n, NEW j \in 1 .. n
        PROVE  /\ i < j => Len(frontier'[i].path) <= Len(frontier'[j].path)
               /\ Len(frontier'[j].path) <= Len(frontier'[i].path) + 1
    <3>1. i < j => i + 1 < j + 1
      OBVIOUS
    <3>2. QED
      BY <1>1, <1>3, <3>1 DEF Ordered
  <2>4. QED
    BY <1>3, <1>5, <2>1, <2>2, <2>3 DEF Ordered
<1>10. Apart'
  <2>1. \A i \in 1 .. m : ~Begins(emitted[i], p.path) /\ ~Begins(p.path, emitted[i])
    BY <1>1, <1>3 DEF Apart, m
  <2>2. ASSUME NEW i \in 1 .. m + 1, NEW j \in 1 .. m + 1, Begins(emitted'[i], emitted'[j])
        PROVE  i = j
    <3>1. (i \in 1 .. m \/ i = m + 1) /\ (j \in 1 .. m \/ j = m + 1)
      BY <1>5
    <3>2. \A g, h \in 1 .. m : Begins(emitted[g], emitted[h]) => g = h
      BY <1>1 DEF Apart, m
    <3>3. QED
      BY <1>5, <2>1, <2>2, <3>1, <3>2
  <2>3. ASSUME NEW i \in 1 .. n, NEW j \in 1 .. n,
               Begins(frontier'[i].path, frontier'[j].path)
        PROVE  i = j
    <3>1. i + 1 = j + 1
      BY <1>1, <1>3, <2>3 DEF Apart
    <3>2. QED
      BY <3>1
  <2>4. ASSUME NEW i \in 1 .. m + 1, NEW j \in 1 .. n
        PROVE  /\ ~Begins(emitted'[i], frontier'[j].path)
               /\ ~Begins(frontier'[j].path, emitted'[i])
    <3>1. CASE i \in 1 .. m
      BY <1>1, <1>3, <1>5, <3>1 DEF Apart, m
    <3>2. CASE i = m + 1
      <4>1. j + 1 # 1
        OBVIOUS
      <4>2. QED
        BY <1>1, <1>3, <1>5, <3>2, <4>1 DEF Apart
    <3>3. QED
      BY <1>5, <3>1, <3>2
  <2>5. QED
    BY <1>3, <1>5, <2>2, <2>3, <2>4 DEF Apart
<1>11. Covered'
  <2>1. ASSUME NEW a \in Answers
        PROVE  \/ \E i \in 1 .. m + 1 : emitted'[i] = a
               \/ \E i \in 1 .. n : Begins(frontier'[i].path, a)
    <3>1. CASE \E i \in 1 .. m : emitted[i] = a
      BY <1>5, <3>1
    <3>2. CASE \E i \in 1 .. Len(frontier) : Begins(frontier[i].path, a)
      <4>1. PICK i \in 1 .. Len(frontier) : Begins(frontier[i].path, a)
        BY <3>2
      <4>2. CASE i = 1
        <5>1. p.path = a
          BY <1>1, <1>2, <1>3, <1>4, <4>1, <4>2, Arrived
        <5>2. QED
          BY <1>5, <5>1
      <4>3. CASE i # 1
        <5>1. i - 1 \in 1 .. n /\ (i - 1) + 1 = i
          BY <1>3, <4>3
        <5>2. frontier'[i - 1] = frontier[i]
          BY <1>3, <5>1
        <5>3. QED
          BY <4>1, <5>1, <5>2
      <4>4. QED
        BY <4>2, <4>3
    <3>3. QED
      BY <1>1, <3>1, <3>2 DEF Covered, m
  <2>2. QED
    BY <1>3, <1>5, <1>6, <2>1 DEF Covered
<1>12. Stops'
  <2>1. limit # NoLimit => limit \in Nat /\ m < limit
    BY <1>1, <1>2, SearchAssumption DEF Asked, Stops, m
  <2>2. limit' = limit /\ (done' <=> limit # NoLimit /\ Len(emitted') >= limit)
    BY <1>2
  <2>3. done' => limit' # NoLimit /\ Len(emitted') >= limit'
    BY <2>2
  <2>4. limit' # NoLimit =>
            Len(emitted') <= limit' /\ (~done' => Len(emitted') < limit')
    BY <1>5, <2>1, <2>2
  <2>5. QED
    BY <2>3, <2>4 DEF Stops
<1>13. QED
  BY <1>7, <1>8, <1>9, <1>10, <1>11, <1>12 DEF SearchInv

\* What Visit does to the queue: its first path goes, and at the end come the
\* paths that are longer than it by a usable link.
LEMMA VisitQueue ==
  ASSUME Asked, Sound, Visit
  PROVE  LET p == frontier[1]
             n == Len(frontier) - 1
         IN  /\ Len(frontier) \in Nat /\ 1 \in 1 .. Len(frontier)
             /\ Good(p) /\ p.node # goal
             /\ frontier' \in Seq(Record)
             /\ \A i \in 1 .. Len(frontier') :
                    \/ i \in 1 .. n /\ frontier'[i] = frontier[i + 1]
                    \/ /\ i > n
                       /\ \E l \in Link : /\ Usable(l, p) /\ frontier'[i] = Longer(p, l)
                                           /\ frontier'[i].path = Append(p.path, l)
             /\ \A i \in 1 .. n : i \in 1 .. Len(frontier') /\ frontier'[i] = frontier[i + 1]
             /\ \A i, j \in 1 .. Len(frontier') :
                    i > n /\ j > n /\ frontier'[i].path = frontier'[j].path => i = j
             /\ \A l \in Link : Usable(l, p) =>
                    \E i \in 1 .. Len(frontier') : frontier'[i].path = Append(p.path, l)
<1> DEFINE p == frontier[1]
           n == Len(frontier) - 1
           E == Extend(p)
<1>1. frontier # <<>> /\ Head(frontier).node # goal
      /\ frontier' = Tail(frontier) \o Extend(Head(frontier))
  BY DEF Visit
<1>2. /\ frontier \in Seq(Record) /\ Len(frontier) \in Nat /\ n \in Nat
      /\ Head(frontier) = p /\ 1 \in 1 .. Len(frontier)
      /\ Tail(frontier) \in Seq(Record) /\ Len(Tail(frontier)) = n
      /\ \A i \in 1 .. n : Tail(frontier)[i] = frontier[i + 1]
  BY <1>1 DEF Sound
<1>3. Good(p) /\ source \in Node
  BY <1>2 DEF Sound, Asked
<1>4. Gathered(p, E, Len(Sorted)) /\ Sorted \in Seq(Link)
  BY <1>3, ExtendGathers, SearchAssumption
<1>5. /\ E \in Seq(Record)
      /\ \A i \in 1 .. Len(E) : \E m \in 1 .. Len(Sorted) :
             Usable(Sorted[m], p) /\ E[i] = Longer(p, Sorted[m])
      /\ \A m \in 1 .. Len(Sorted) : Usable(Sorted[m], p) =>
             \E i \in 1 .. Len(E) : E[i] = Longer(p, Sorted[m])
      /\ \A i, j \in 1 .. Len(E) : E[i] = E[j] => i = j
  BY <1>4 DEF Gathered
<1>6. \A l \in Link : \E m \in 1 .. Len(Sorted) : Sorted[m] = l
  BY <1>4, SearchAssumption DEF ToSet
<1>7. frontier' = Tail(frontier) \o E
  BY <1>1, <1>2
<1> HIDE DEF p, n, E
<1>8. /\ frontier' \in Seq(Record) /\ Len(frontier') = n + Len(E) /\ Len(E) \in Nat
      /\ \A i \in 1 .. n : frontier'[i] = frontier[i + 1]
      /\ \A i \in 1 .. Len(E) : frontier'[n + i] = E[i]
  <2> DEFINE T == Tail(frontier)
  <2>1. T \in Seq(Record) /\ Len(T) = n /\ n \in Nat /\ E \in Seq(Record)
        /\ \A i \in 1 .. n : T[i] = frontier[i + 1]
    BY <1>2, <1>5
  <2> HIDE DEF T
  <2>2. /\ T \o E \in Seq(Record) /\ Len(T \o E) = Len(T) + Len(E) /\ Len(E) \in Nat
        /\ \A i \in 1 .. Len(T) : (T \o E)[i] = T[i]
        /\ \A i \in 1 .. Len(E) : (T \o E)[Len(T) + i] = E[i]
    <3>1. T \in Seq(Record) /\ E \in Seq(Record)
      BY <2>1
    <3>2. T \o E \in Seq(Record) /\ Len(T \o E) = Len(T) + Len(E) /\ Len(E) \in Nat
      BY <3>1
    <3>3. \A i \in 1 .. Len(T) : (T \o E)[i] = T[i]
      BY <3>1
    <3>4. \A i \in 1 .. Len(E) : (T \o E)[Len(T) + i] = E[i]
      BY <3>1
    <3>5. QED
      BY <3>2, <3>3, <3>4
  <2>3. QED
    BY <1>7, <2>1, <2>2 DEF T
<1>9. ASSUME NEW i \in 1 .. Len(E)
      PROVE  \E l \in Link : /\ Usable(l, p) /\ E[i] = Longer(p, l)
                             /\ E[i].path = Append(p.path, l)
  <2>1. PICK m \in 1 .. Len(Sorted) : Usable(Sorted[m], p) /\ E[i] = Longer(p, Sorted[m])
    BY <1>5
  <2>2. Sorted[m] \in Link
    BY <1>4
  <2>3. QED
    BY <1>3, <2>1, <2>2, LongerIsGood
<1>10. ASSUME NEW i \in 1 .. Len(frontier')
      PROVE  \/ i \in 1 .. n /\ frontier'[i] = frontier[i + 1]
             \/ /\ i > n /\ i - n \in 1 .. Len(E) /\ frontier'[i] = E[i - n]
  <2>1. CASE i <= n
    BY <1>2, <1>8, <2>1
  <2>2. CASE i > n
    <3>1. i - n \in 1 .. Len(E) /\ n + (i - n) = i
      BY <1>2, <1>8, <2>2
    <3>2. QED
      BY <1>8, <2>2, <3>1
  <2>3. QED
    BY <1>2, <2>1, <2>2
<1>11. ASSUME NEW i \in 1 .. Len(frontier')
       PROVE  \/ i \in 1 .. n /\ frontier'[i] = frontier[i + 1]
              \/ /\ i > n
                 /\ \E l \in Link : /\ Usable(l, p) /\ frontier'[i] = Longer(p, l)
                                     /\ frontier'[i].path = Append(p.path, l)
  BY <1>9, <1>10
<1>12. ASSUME NEW i \in 1 .. Len(frontier'), NEW j \in 1 .. Len(frontier'),
              i > n, j > n, frontier'[i].path = frontier'[j].path
       PROVE  i = j
  <2>1. /\ i - n \in 1 .. Len(E) /\ frontier'[i] = E[i - n]
        /\ j - n \in 1 .. Len(E) /\ frontier'[j] = E[j - n]
    BY <1>2, <1>10, <1>12
  <2>2. PICK k \in Link : E[i - n] = Longer(p, k) /\ E[i - n].path = Append(p.path, k)
    BY <1>9, <2>1
  <2>3. PICK l \in Link : E[j - n] = Longer(p, l) /\ E[j - n].path = Append(p.path, l)
    BY <1>9, <2>1
  <2>4. p.path \in Seq(Link) /\ Append(p.path, k) = Append(p.path, l)
    BY <1>3, <1>12, <2>1, <2>2, <2>3 DEF Good
  <2>5. Append(p.path, k)[Len(p.path) + 1] = k /\ Append(p.path, l)[Len(p.path) + 1] = l
    BY <2>4
  <2>6. E[i - n] = E[j - n]
    BY <2>2, <2>3, <2>4, <2>5
  <2>7. i - n = j - n
    BY <1>5, <2>1, <2>6
  <2>8. QED
    BY <1>2, <2>7
<1>13. ASSUME NEW l \in Link, Usable(l, p)
       PROVE  \E i \in 1 .. Len(frontier') : frontier'[i].path = Append(p.path, l)
  <2>1. PICK m \in 1 .. Len(Sorted) : Sorted[m] = l
    BY <1>6
  <2>2. PICK i \in 1 .. Len(E) : E[i] = Longer(p, l)
    BY <1>5, <1>13, <2>1
  <2>3. E[i].path = Append(p.path, l)
    BY <1>3, <1>13, <2>2, LongerIsGood
  <2>4. n + i \in 1 .. Len(frontier') /\ frontier'[n + i] = E[i]
    BY <1>2, <1>8
  <2>5. QED
    BY <2>3, <2>4
<1>14. \A i \in 1 .. n : i \in 1 .. Len(frontier')
  BY <1>2, <1>8
<1>15. p.node # goal
  BY <1>1, <1>2
<1>16. QED
  BY <1>2, <1>3, <1>8, <1>11, <1>12, <1>13, <1>14, <1>15 DEF p, n

\* Visit replaces a good path that is not at the host by those that are longer.
LEMMA VisitKeeps ==
  ASSUME SearchInv, Visit
  PROVE  SearchInv'
<1> DEFINE p == frontier[1]
           n == Len(frontier) - 1
           New(i) == i > n /\ \E l \in Link : /\ Usable(l, p) /\ frontier'[i] = Longer(p, l)
                                              /\ frontier'[i].path = Append(p.path, l)
<1>1. Asked /\ Sound /\ Ordered /\ Apart /\ Covered /\ Stops
  BY DEF SearchInv
<1>2. UNCHANGED <<source, goal, nodesUp, linksUp, limit, emitted, done>> /\ ~done
      /\ frontier # <<>>
  BY DEF Visit
<1>3. Answers' = Answers
  BY <1>2 DEF Answers
<1>4. /\ Len(frontier) \in Nat /\ 1 \in 1 .. Len(frontier) /\ n \in Nat
      /\ Good(p) /\ p.node # goal
      /\ frontier' \in Seq(Record)
      /\ \A i \in 1 .. Len(frontier') :
             (i \in 1 .. n /\ frontier'[i] = frontier[i + 1]) \/ New(i)
      /\ \A i \in 1 .. n : i \in 1 .. Len(frontier') /\ frontier'[i] = frontier[i + 1]
      /\ \A i, j \in 1 .. Len(frontier') :
             i > n /\ j > n /\ frontier'[i].path = frontier'[j].path => i = j
      /\ \A l \in Link : Usable(l, p) =>
             \E i \in 1 .. Len(frontier') : frontier'[i].path = Append(p.path, l)
  <2>1. Visit
    OBVIOUS
  <2>2. Len(frontier) \in Nat /\ 1 \in 1 .. Len(frontier)
    BY <1>1, <2>1, VisitQueue
  <2>3. n \in Nat
    BY <2>2
  <2> HIDE DEF p, n
  <2>4. QED
    BY <1>1, <2>1, <2>2, <2>3, VisitQueue DEF p, n
<1>5. p.path \in Seq(Link)
  BY <1>4 DEF Good
<1>6. \A i \in 1 .. Len(frontier) : frontier[i].path \in Seq(Link)
  BY <1>1 DEF Sound, Good
<1> HIDE DEF p
<1>7. ASSUME NEW i \in 1 .. Len(frontier'), New(i)
      PROVE  /\ frontier'[i].path \in Seq(Link) /\ Len(frontier'[i].path) = Len(p.path) + 1
             /\ \A q \in Seq(Link) : Begins(frontier'[i].path, q) => Begins(p.path, q)
             /\ \A q \in Seq(Link) : Begins(q, frontier'[i].path) =>
                    Begins(q, p.path) \/ Begins(p.path, q)
  BY <1>5, <1>7, BeginsNext
<1>8. \A i \in 1 .. n : i + 1 \in 1 .. Len(frontier) /\ i + 1 # 1 /\ 1 < i + 1
  BY <1>4
<1>9. Asked' /\ Stops'
  BY <1>1, <1>2 DEF Asked, Stops
<1>10. Sound'
  <2>1. ASSUME NEW i \in 1 .. Len(frontier') PROVE Good(frontier[i])'
    <3>1. Good(frontier'[i])
      <4>1. CASE i \in 1 .. n /\ frontier'[i] = frontier[i + 1]
        BY <1>1, <1>8, <4>1 DEF Sound
      <4>2. CASE New(i)
        BY <1>1, <1>4, <4>2, LongerIsGood DEF Asked
      <4>3. QED
        BY <1>4, <4>1, <4>2
    <3>2. QED
      BY <1>2, <3>1 DEF Good
  <2>2. QED
    BY <1>1, <1>2, <1>3, <1>4, <2>1 DEF Sound
<1>11. Ordered'
  <2> DEFINE L(i) == Len(frontier[i].path)
  <2>1. /\ \A i \in 1 .. Len(emitted), j \in 1 .. Len(frontier) : Len(emitted[i]) <= L(j)
        /\ \A i, j \in 1 .. Len(frontier) : (i < j => L(i) <= L(j)) /\ L(j) <= L(i) + 1
        /\ \A i \in 1 .. Len(frontier) : L(i) \in Nat
    BY <1>1, <1>6 DEF Ordered
  <2>2. \A i \in 1 .. Len(emitted) : Len(emitted[i]) \in Nat
    BY <1>1 DEF Sound
  <2> HIDE DEF L
  <2>3. ASSUME NEW i \in 1 .. Len(frontier')
        PROVE  \/ /\ i \in 1 .. n /\ i + 1 \in 1 .. Len(frontier)
                  /\ Len(frontier'[i].path) = L(i + 1) /\ L(1) <= L(i + 1) /\ L(i + 1) <= L(1) + 1
               \/ i > n /\ Len(frontier'[i].path) = L(1) + 1
    <3>1. CASE i \in 1 .. n /\ frontier'[i] = frontier[i + 1]
      BY <1>4, <1>8, <2>1, <3>1 DEF L
    <3>2. CASE New(i)
      BY <1>7, <3>2 DEF L, p
    <3>3. QED
      BY <1>4, <3>1, <3>2
  <2>4. ASSUME NEW i \in 1 .. Len(emitted), NEW j \in 1 .. Len(frontier')
        PROVE  Len(emitted[i]) <= Len(frontier'[j].path)
    <3>1. Len(emitted[i]) \in Nat /\ Len(emitted[i]) <= L(1) /\ L(1) \in Nat
      BY <1>4, <2>1, <2>2
    <3>2. CASE j \in 1 .. n /\ j + 1 \in 1 .. Len(frontier)
               /\ Len(frontier'[j].path) = L(j + 1)
      BY <2>1, <3>2
    <3>3. CASE Len(frontier'[j].path) = L(1) + 1
      BY <3>1, <3>3
    <3>4. QED
      BY <2>3, <3>2, <3>3
  <2>5. ASSUME NEW i \in 1 .. Len(frontier'), NEW j \in 1 .. Len(frontier')
        PROVE  /\ i < j => Len(frontier'[i].path) <= Len(frontier'[j].path)
               /\ Len(frontier'[j].path) <= Len(frontier'[i].path) + 1
    <3>1. L(1) \in Nat
      BY <1>4, <2>1
    <3>2. CASE i \in 1 .. n /\ j \in 1 .. n
      <4>1. i < j => i + 1 < j + 1
        OBVIOUS
      <4>2. /\ i + 1 \in 1 .. Len(frontier) /\ Len(frontier'[i].path) = L(i + 1)
            /\ j + 1 \in 1 .. Len(frontier) /\ Len(frontier'[j].path) = L(j + 1)
        BY <1>4, <2>3, <3>2
      <4>3. (i + 1 < j + 1 => L(i + 1) <= L(j + 1)) /\ L(j + 1) <= L(i + 1) + 1
        BY <2>1, <4>2
      <4>4. QED
        BY <4>1, <4>2, <4>3
    <3>3. CASE i \in 1 .. n /\ j > n
      <4>1. /\ Len(frontier'[i].path) = L(i + 1) /\ L(i + 1) \in Nat
            /\ L(1) <= L(i + 1) /\ L(i + 1) <= L(1) + 1
        BY <1>4, <2>1, <2>3, <3>3
      <4>2. Len(frontier'[j].path) = L(1) + 1
        BY <1>4, <2>3, <3>3
      <4>3. QED
        BY <3>1, <4>1, <4>2
    <3>4. CASE i > n /\ j \in 1 .. n
      <4>1. /\ Len(frontier'[j].path) = L(j + 1) /\ L(j + 1) \in Nat
            /\ L(1) <= L(j + 1) /\ L(j + 1) <= L(1) + 1
        BY <1>4, <2>1, <2>3, <3>4
      <4>2. Len(frontier'[i].path) = L(1) + 1 /\ ~(i < j)
        BY <1>4, <2>3, <3>4
      <4>3. QED
        BY <3>1, <4>1, <4>2
    <3>5. CASE i > n /\ j > n
      <4>1. Len(frontier'[i].path) = L(1) + 1 /\ Len(frontier'[j].path) = L(1) + 1
        BY <1>4, <2>3, <3>5
      <4>2. QED
        BY <3>1, <4>1
    <3>6. QED
      BY <1>4, <3>2, <3>3, <3>4, <3>5
  <2>6. \A i, j \in 1 .. Len(emitted) : i < j => Len(emitted[i]) <= Len(emitted[j])
    BY <1>1 DEF Ordered
  <2>7. QED
    BY <1>2, <2>4, <2>5, <2>6 DEF Ordered
<1>12. Apart'
  <2>1. /\ \A i, j \in 1 .. Len(frontier) :
               Begins(frontier[i].path, frontier[j].path) => i = j
        /\ \A i \in 1 .. Len(emitted), j \in 1 .. Len(frontier) :
               ~Begins(emitted[i], frontier[j].path) /\ ~Begins(frontier[j].path, emitted[i])
    BY <1>1 DEF Apart
  <2>2. \A i \in 1 .. Len(emitted) : emitted[i] \in Seq(Link)
    BY <1>1 DEF Sound
  <2>3. ASSUME NEW i \in 1 .. Len(frontier'), NEW j \in 1 .. Len(frontier'),
               Begins(frontier'[i].path, frontier'[j].path)
        PROVE  i = j
    <3>1. CASE i \in 1 .. n /\ j \in 1 .. n
      <4>1. i + 1 = j + 1
        BY <1>4, <1>8, <2>1, <2>3, <3>1
      <4>2. QED
        BY <4>1
    <3>2. CASE i \in 1 .. n /\ j \notin 1 .. n
      <4>1. New(j) /\ frontier'[i] = frontier[i + 1] /\ i + 1 \in 1 .. Len(frontier)
        BY <1>4, <1>8, <3>2
      <4>2. Begins(frontier[i + 1].path, p.path) \/ Begins(p.path, frontier[i + 1].path)
        BY <1>6, <1>7, <2>3, <4>1
      <4>3. QED
        BY <1>4, <1>8, <2>1, <3>2, <4>2 DEF p
    <3>3. CASE i \notin 1 .. n /\ j \in 1 .. n
      <4>1. New(i) /\ frontier'[j] = frontier[j + 1] /\ j + 1 \in 1 .. Len(frontier)
        BY <1>4, <1>8, <3>3
      <4>2. Begins(p.path, frontier[j + 1].path)
        BY <1>6, <1>7, <2>3, <4>1
      <4>3. QED
        BY <1>4, <1>8, <2>1, <3>3, <4>2 DEF p
    <3>4. CASE i \notin 1 .. n /\ j \notin 1 .. n
      <4>1. New(i) /\ New(j)
        BY <1>4, <3>4
      <4>2. frontier'[i].path = frontier'[j].path
        <5>1. /\ frontier'[i].path \in Seq(Link) /\ Len(frontier'[i].path) = Len(p.path) + 1
              /\ frontier'[j].path \in Seq(Link) /\ Len(frontier'[j].path) = Len(p.path) + 1
          BY <1>7, <4>1
        <5>2. Len(frontier'[j].path) <= Len(frontier'[i].path)
          BY <1>5, <5>1
        <5>3. QED
          BY <2>3, <5>1, <5>2, BeginsSame
      <4>3. QED
        BY <1>4, <4>1, <4>2
    <3>5. QED
      BY <3>1, <3>2, <3>3, <3>4
  <2>4. ASSUME NEW i \in 1 .. Len(emitted), NEW j \in 1 .. Len(frontier')
        PROVE  /\ ~Begins(emitted[i], frontier'[j].path)
               /\ ~Begins(frontier'[j].path, emitted[i])
    <3>1. CASE j \in 1 .. n /\ frontier'[j] = frontier[j + 1]
      BY <1>8, <2>1, <3>1
    <3>2. CASE New(j)
      BY <1>4, <1>7, <2>1, <2>2, <3>2 DEF p
    <3>3. QED
      BY <1>4, <3>1, <3>2
  <2>5. \A i, j \in 1 .. Len(emitted) : Begins(emitted[i], emitted[j]) => i = j
    BY <1>1 DEF Apart
  <2>6. QED
    BY <1>2, <2>3, <2>4, <2>5 DEF Apart
<1>13. Covered'
  <2>1. ASSUME NEW a \in Answers
        PROVE  \/ \E i \in 1 .. Len(emitted) : emitted[i] = a
               \/ \E i \in 1 .. Len(frontier') : Begins(frontier'[i].path, a)
    <3>1. CASE \E i \in 1 .. Len(emitted) : emitted[i] = a
      BY <3>1
    <3>2. CASE \E i \in 1 .. Len(frontier) : Begins(frontier[i].path, a)
      <4>1. PICK i \in 1 .. Len(frontier) : Begins(frontier[i].path, a)
        BY <3>2
      <4>2. CASE i = 1
        <5>1. PICK l \in Link : Usable(l, p) /\ Begins(Append(p.path, l), a)
          BY <1>1, <1>4, <4>1, <4>2, OnTheWay DEF p
        <5>2. PICK j \in 1 .. Len(frontier') : frontier'[j].path = Append(p.path, l)
          BY <1>4, <5>1
        <5>3. QED
          BY <5>1, <5>2
      <4>3. CASE i # 1
        <5>1. i - 1 \in 1 .. n /\ (i - 1) + 1 = i
          BY <1>4, <4>3
        <5>2. i - 1 \in 1 .. Len(frontier') /\ frontier'[i - 1] = frontier[i]
          BY <1>4, <5>1
        <5>3. QED
          BY <4>1, <5>2
      <4>4. QED
        BY <4>2, <4>3
    <3>3. QED
      BY <1>1, <3>1, <3>2 DEF Covered
  <2>2. QED
    BY <1>2, <1>3, <2>1 DEF Covered
<1>14. QED
  BY <1>9, <1>10, <1>11, <1>12, <1>13 DEF SearchInv

\* Every step of the generator keeps it.
LEMMA SearchInvStep == SearchInv /\ [SearchNext]_searchVars => SearchInv'
<1> SUFFICES ASSUME SearchInv, [SearchNext]_searchVars PROVE SearchInv'
  OBVIOUS
<1>1. CASE Yield
  BY <1>1, YieldKeeps
<1>2. CASE Visit
  BY <1>2, VisitKeeps
<1>3. CASE Exhaust
  <2>1. /\ UNCHANGED <<source, goal, nodesUp, linksUp, limit, frontier, emitted>>
        /\ frontier = <<>> /\ ~done /\ done' = TRUE
    BY <1>3 DEF Exhaust
  <2>2. Answers' = Answers
    BY <2>1 DEF Answers
  <2>3. Sound' /\ Covered'
    BY <2>1, <2>2 DEF SearchInv, Sound, Covered, Good
  <2>4. Asked' /\ Ordered' /\ Apart' /\ Stops'
    BY <2>1 DEF SearchInv, Asked, Ordered, Apart, Stops
  <2>5. QED
    BY <2>3, <2>4 DEF SearchInv
<1>4. CASE UNCHANGED searchVars
  <2>1. UNCHANGED <<source, goal, nodesUp, linksUp, limit, frontier, emitted, done>>
    BY <1>4 DEF searchVars
  <2>2. Answers' = Answers
    BY <2>1 DEF Answers
  <2>3. Sound' /\ Covered'
    BY <2>1, <2>2 DEF SearchInv, Sound, Covered, Good
  <2>4. Asked' /\ Ordered' /\ Apart' /\ Stops'
    BY <2>1 DEF SearchInv, Asked, Ordered, Apart, Stops
  <2>5. QED
    BY <2>3, <2>4 DEF SearchInv
<1>5. QED
  BY <1>1, <1>2, <1>3, <1>4 DEF SearchNext, SearchFinished

LEMMA SearchInvariance == SearchSpec => []SearchInv
  BY SearchInvInit, SearchInvStep, PTL DEF SearchSpec

\* The search has the types it should.
THEOREM SearchTyped == SearchSpec => []SearchTypeOK
<1>1. ASSUME SearchInv PROVE SearchTypeOK
  <2>1. Asked /\ Sound
    BY <1>1 DEF SearchInv
  <2>2. ASSUME NEW i \in DOMAIN frontier PROVE frontier[i] \in Partial
    <3>1. Good(frontier[i])
      BY <2>1 DEF Sound
    <3>2. frontier[i].path \in Paths
      BY <2>1, <3>1, WorkingIsPath DEF Good, Asked
    <3>3. QED
      BY <3>1, <3>2 DEF Good, Partial
  <2>3. ASSUME NEW i \in DOMAIN emitted PROVE emitted[i] \in Paths
    <3>1. emitted[i] \in Answers
      BY <2>1 DEF Sound
    <3>2. QED
      BY <2>1, <3>1, AnswerFacts, WorkingIsPath DEF Asked
  <2>4. QED
    BY <2>1, <2>2, <2>3 DEF SearchTypeOK, Asked
<1>2. QED
  BY <1>1, SearchInvariance, PTL

\* For every topology, every set of failures and every limit, the generator
\* yields working paths only, each once and the shortest first, and all there are
\* or as many as it was asked for: route_to, has_alternative_path and path_error
\* agree on what can be reached.
THEOREM SearchFindsAll == SearchSpec => []SearchExact
<1>1. ASSUME SearchInv PROVE SearchExact
  <2>1. Asked /\ Sound /\ Ordered /\ Apart /\ Covered /\ Stops
    BY <1>1 DEF SearchInv
  <2>2. /\ emitted \in Seq(Seq(Link)) /\ DOMAIN emitted = 1 .. Len(emitted)
        /\ Len(emitted) \in Nat
        /\ \A i \in 1 .. Len(emitted) : emitted[i] \in Answers
    BY <2>1 DEF Sound
  <2>3. \A i \in DOMAIN emitted : ~path_error(emitted[i], source, goal, nodesUp, linksUp)
    BY <2>1, <2>2, AnswerFacts DEF path_error, Simple, WorksFrom
  <2>4. \A i, j \in 1 .. Len(emitted) : emitted[i] = emitted[j] => i = j
    <3>1. \A i \in 1 .. Len(emitted) : Begins(emitted[i], emitted[i])
      BY <2>2 DEF Begins
    <3>2. QED
      BY <2>1, <3>1 DEF Apart
  <2>5. IsInjective(emitted)
    BY <2>2, <2>4 DEF IsInjective
  <2>6. \A i, j \in DOMAIN emitted : i < j => Len(emitted[i]) <= Len(emitted[j])
    BY <2>1, <2>2 DEF Ordered
  <2>7. ASSUME done
        PROVE  (limit = NoLimit \/ Len(emitted) < limit) => ToSet(emitted) = Answers
    <3>1. SUFFICES ASSUME limit = NoLimit \/ Len(emitted) < limit
                   PROVE  ToSet(emitted) = Answers
      OBVIOUS
    <3>2. limit # NoLimit => limit \in Nat
      BY <2>1, SearchAssumption DEF Asked
    <3>3. frontier = <<>>
      BY <2>1, <2>2, <2>7, <3>1, <3>2 DEF Stops
    <3>4. \A a \in Answers : \E i \in 1 .. Len(emitted) : emitted[i] = a
      BY <2>1, <3>3 DEF Covered
    <3>5. QED
      BY <2>2, <3>4 DEF ToSet
  <2>8. limit # NoLimit => Len(emitted) <= limit
    BY <2>1 DEF Stops
  <2>9. ASSUME emitted # <<>>
        PROVE  Head(emitted) \in route_to(source, goal, nodesUp, linksUp)
    <3>1. 1 \in 1 .. Len(emitted) /\ Head(emitted) = emitted[1]
      BY <2>2, <2>9
    <3>2. ASSUME NEW a \in Answers PROVE Len(emitted[1]) <= Len(a)
      <4>1. Len(emitted[1]) \in Nat /\ Len(a) \in Nat
        BY <2>1, <2>2, <3>1, AnswerFacts
      <4>2. CASE \E i \in 1 .. Len(emitted) : emitted[i] = a
        <5>1. PICK i \in 1 .. Len(emitted) : emitted[i] = a
          BY <4>2
        <5>2. i = 1 \/ 1 < i
          BY <2>2
        <5>3. QED
          BY <2>1, <3>1, <4>1, <5>1, <5>2 DEF Ordered
      <4>3. CASE \E i \in 1 .. Len(frontier) : Begins(frontier[i].path, a)
        <5>1. PICK i \in 1 .. Len(frontier) : Begins(frontier[i].path, a)
          BY <4>3
        <5>2. Len(frontier[i].path) \in Nat
          BY <2>1 DEF Sound, Good
        <5>3. Len(emitted[1]) <= Len(frontier[i].path)
          BY <2>1, <3>1 DEF Ordered
        <5>4. Len(frontier[i].path) <= Len(a)
          BY <5>1 DEF Begins
        <5>5. QED
          BY <4>1, <5>2, <5>3, <5>4
      <4>4. QED
        BY <2>1, <4>2, <4>3 DEF Covered
    <3>3. QED
      BY <2>2, <3>1, <3>2 DEF route_to, Answers
  <2>10. ASSUME done, limit = 2, NEW current
         PROVE  Alternative(current) <=> \E p \in Answers : p # current
    <3>1. Alternative(current) => \E p \in Answers : p # current
      BY <2>2 DEF Alternative
    <3>2. ASSUME NEW p \in Answers, p # current PROVE Alternative(current)
      <4>1. CASE Len(emitted) < 2
        <5>1. p \in ToSet(emitted)
          BY <2>7, <2>10, <4>1
        <5>2. QED
          BY <3>2, <5>1 DEF ToSet, Alternative
      <4>2. CASE Len(emitted) >= 2
        <5>1. 1 \in 1 .. Len(emitted) /\ 2 \in 1 .. Len(emitted) /\ emitted[1] # emitted[2]
          BY <2>2, <2>4, <4>2
        <5>2. QED
          BY <2>2, <5>1 DEF Alternative
      <4>3. QED
        BY <2>2, <4>1, <4>2
    <3>3. QED
      BY <3>1, <3>2
  <2>11. QED
    BY <2>3, <2>5, <2>6, <2>7, <2>8, <2>9, <2>10 DEF SearchExact
<1>2. QED
  BY <1>1, SearchInvariance, PTL
=============================================================================
