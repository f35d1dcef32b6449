----------------------------- MODULE NetworkSim -----------------------------
(***************************************************************************)
(* sim/engine.py and sim/service.py with actions/validator.py and          *)
(* actions/executor.py: services on nodes, their request queues, and the   *)
(* recovery actions whose effects take several ticks.  Tick is one call of *)
(* NetworkSim.step; between two of them a controller may execute actions   *)
(* that validate_action accepts.                                           *)
(*                                                                         *)
(* What the fault injector does to nodes, links and footprints at the      *)
(* start of a tick is a choice here (FaultInjector says which values it    *)
(* leaves).  Requests are counted, their times are not; how many of them   *)
(* arrive, get lost on a degraded link or complete in a tick is a choice.  *)
(***************************************************************************)
EXTENDS Routing, SequencesExt

CONSTANTS
    Service, Source, Home,          \* client and first host of a service
    NodeFaults, LinkFaults,         \* what may fail
    MemCapacity,                    \* of each node
    Baseline,                       \* baseline_mem
    MaxFootprint,                   \* bound on the leaks
    MaxArrivals,                    \* bound on the requests of a tick
    QueueCap, ReplicaCap,
    RateLimits, Unlimited,          \* int(rate_limit * tick_seconds), or none
    MigrationDowntime, RestartDowntime,
    Deltas                          \* the replica changes asked for

ASSUME NetworkAssumption ==
    /\ Source \in [Service -> Node] /\ Home \in [Service -> Node]
    /\ NodeFaults \subseteq Node /\ LinkFaults \subseteq Link
    /\ MemCapacity \in [Node -> Nat]
    /\ Baseline \in Nat /\ MaxFootprint \in Nat /\ Baseline <= MaxFootprint
    /\ MaxArrivals \in Nat /\ QueueCap \in Nat /\ ReplicaCap \in Nat \ {0}
    /\ RateLimits \subseteq Nat /\ Unlimited \notin Nat
    /\ MigrationDowntime \in Nat /\ RestartDowntime \in Nat
    /\ Deltas \subseteq Int
    /\ \A s \in Service : \E p \in Paths : Simple(p, Source[s], Home[s])

VARIABLES
    upNode, upLink,
    host, route, status,
    queue,      \* waiting requests of a service
    inService,  \* 1 while a request is being served
    losses,     \* pending_request_losses
    footprint, replicas, rateLimit,
    pending,    \* the effects under way
    owed        \* history: requests arrived, less those reported completed or
                \* dropped, over all ticks so far

placement == <<host, route, status>>
requests == <<queue, inService, losses, owed>>
sizes == <<footprint, replicas>>
vars == <<upNode, upLink, placement, requests, sizes, rateLimit, pending>>

Effect == [kind : {"migrate", "restart"}, service : Service, target : Node,
           remaining : Nat]

TypeOK ==
    /\ upNode \subseteq Node /\ upLink \subseteq Link
    /\ host \in [Service -> Node]
    /\ \A s \in Service : route[s] \in Paths
    /\ status \in [Service -> {"healthy", "down"}]
    /\ queue \in [Service -> 0 .. QueueCap] /\ inService \in [Service -> {0, 1}]
    /\ losses \in [Service -> 0 .. QueueCap + 1]
    /\ footprint \in [Service -> Baseline .. MaxFootprint]
    /\ replicas \in [Service -> 1 .. ReplicaCap]
    /\ rateLimit \in [Service -> RateLimits \cup {Unlimited}]
    /\ \A i \in DOMAIN pending : pending[i] \in Effect
    /\ owed \in [Service -> Nat]

Init ==
    /\ upNode = Node /\ upLink = Link
    /\ host = Home
    /\ route \in [Service -> Paths]
    /\ \A s \in Service : Simple(route[s], Source[s], Home[s])
    /\ status = [s \in Service |-> "healthy"]
    /\ queue = [s \in Service |-> 0] /\ inService = [s \in Service |-> 0]
    /\ losses = [s \in Service |-> 0] /\ owed = [s \in Service |-> 0]
    /\ footprint = [s \in Service |-> Baseline]
    /\ replicas = [s \in Service |-> 1]
    /\ rateLimit = [s \in Service |-> Unlimited]
    /\ pending = <<>>

\* The ways to choose for every service one of its alternatives.
FunctionsInto(alternatives) ==
    {f \in [Service -> UNION {alternatives[s] : s \in Service}] :
        \A s \in Service : f[s] \in alternatives[s]}

Lesser(a, b) == IF a < b THEN a ELSE b

MemUsed(n, fp) ==
    MapThenSumSet(LAMBDA s : fp[s] * replicas[s], {s \in Service : host[s] = n})

-----------------------------------------------------------------------------
\* The actions of the controller.

Idle(s) == \A i \in DOMAIN pending : pending[i].service # s

\* Mutated: the request being served is forgotten.
DiscardQueueOnly(s) ==
    /\ losses' = [losses EXCEPT ![s] = @ + queue[s]]
    /\ queue' = [queue EXCEPT ![s] = 0]
    /\ inService' = [inService EXCEPT ![s] = 0]
    /\ UNCHANGED owed

discard_requests(s) ==
    /\ losses' = [losses EXCEPT ![s] = @ + queue[s] + inService[s]]
    /\ queue' = [queue EXCEPT ![s] = 0]
    /\ inService' = [inService EXCEPT ![s] = 0]
    /\ UNCHANGED owed

\* What a migration and a restart have in common.
TakeDown(s, effect) ==
    /\ status' = [status EXCEPT ![s] = "down"]
    /\ discard_requests(s)
    /\ pending' = Append(pending, effect)
    /\ UNCHANGED <<upNode, upLink, host, route, sizes, rateLimit>>

Migrate == \E s \in Service, t \in Node :
    /\ Idle(s)
    /\ t \in upNode /\ t # host[s]
    /\ route_to(Source[s], t, upNode, upLink) # {}
    /\ MemUsed(t, footprint) + footprint[s] * replicas[s] <= MemCapacity[t]
    /\ TakeDown(s, [kind |-> "migrate", service |-> s, target |-> t,
                    remaining |-> MigrationDowntime])

\* Mutated: a service may be restarted whatever is pending for it.
RestartAnyway == \E s \in Service :
    TakeDown(s, [kind |-> "restart", service |-> s, target |-> host[s],
                 remaining |-> RestartDowntime])

Restart == \E s \in Service :
    /\ Idle(s)
    /\ TakeDown(s, [kind |-> "restart", service |-> s, target |-> host[s],
                    remaining |-> RestartDowntime])

Scale == \E s \in Service, d \in Deltas :
    /\ Idle(s)
    /\ d # 0
    /\ replicas[s] + d >= 1 /\ replicas[s] + d <= ReplicaCap
    /\ d > 0 => MemUsed(host[s], footprint) + footprint[s] * d <= MemCapacity[host[s]]
    /\ replicas' = [replicas EXCEPT ![s] = @ + d]
    /\ UNCHANGED <<upNode, upLink, placement, requests, footprint, rateLimit, pending>>

Reroute == \E s \in Service, p \in Paths :
    /\ Idle(s)
    /\ ~path_error(p, Source[s], host[s], upNode, upLink)
    /\ route' = [route EXCEPT ![s] = p]
    /\ UNCHANGED <<upNode, upLink, host, status, requests, sizes, rateLimit, pending>>

Throttle == \E s \in Service, r \in RateLimits :
    /\ Idle(s)
    /\ rateLimit' = [rateLimit EXCEPT ![s] = r]
    /\ UNCHANGED <<upNode, upLink, placement, requests, sizes, pending>>

-----------------------------------------------------------------------------
\* One tick.

\* apply_tick: what the scheduled faults leave of the network.
Faults ==
    /\ \E down \in SUBSET NodeFaults : upNode' = Node \ down
    /\ \E down \in SUBSET LinkFaults : upLink' = Link \ down

\* A leak adds to a footprint in every tick, and its window gives back what it has
\* added when it closes: with leaks that overlap, a footprint may become any.
Leaks == [Service -> Baseline .. MaxFootprint]

\* Requests that never reach the queue: over the rate limit, lost on the way,
\* or lost by an action since the last tick.
Admitted(s, n) == IF rateLimit[s] = Unlimited THEN n ELSE Lesser(n, rateLimit[s])

\* A route that is broken loses every request, a degraded one any of them.
LostOnTheWay(s, admitted, lost) ==
    /\ lost <= admitted
    /\ lost < admitted => ~path_error(route[s], Source[s], host[s], upNode', upLink')

Waiting(s, n, lost) == queue[s] + Admitted(s, n) - lost

Refused(s, fp) ==
    \/ host[s] \notin upNode'
    \/ status[s] = "down"
    \/ MemUsed(host[s], fp) > MemCapacity[host[s]]

\* process_queue: what exceeds the queue's capacity is dropped, and of the rest
\* some complete within the tick's budget.  If none does, one is being served.
Accepted(s, n, lost) == Lesser(Waiting(s, n, lost), QueueCap) + inService[s]

Left(s) == queue'[s] + inService'[s]

Process(s, n, lost) ==
    /\ Left(s) <= Accepted(s, n, lost)
    /\ Left(s) = Accepted(s, n, lost) /\ Left(s) > 0 => inService'[s] = 1

\* The requests the tick's metrics report, dropped and completed.
Reported(s, n, lost, fp) ==
    n - Admitted(s, n) + losses[s] + lost +
    (IF Refused(s, fp) THEN Waiting(s, n, lost) + inService[s]
     ELSE Waiting(s, n, lost) + inService[s] - Left(s))

Serve(n, lost, fp) ==
    /\ \A s \in Service : LostOnTheWay(s, Admitted(s, n[s]), lost[s])
    /\ queue' \in [Service -> 0 .. QueueCap] /\ inService' \in [Service -> {0, 1}]
    /\ \A s \in Service : IF Refused(s, fp) THEN Left(s) = 0
                          ELSE Process(s, n[s], lost[s])
    /\ owed' = [s \in Service |-> owed[s] + n[s] - Reported(s, n[s], lost[s], fp)]
    /\ losses' = [s \in Service |-> 0]

Due(s, kind) == \E i \in DOMAIN pending :
    pending[i].service = s /\ pending[i].kind = kind /\ pending[i].remaining <= 1

Arriving(s) == {pending[i].target : i \in {j \in DOMAIN pending :
    /\ pending[j].service = s /\ pending[j].kind = "migrate"
    /\ pending[j].remaining <= 1}}

\* Mutated: the target is trusted to be as it was when it was chosen.
LandingUnchecked(s) ==
    UNION {{t} \X route_to(Source[s], t, Node, Link) : t \in Arriving(s)}

\* Where a migration that is due lands, and by which route: nowhere if the
\* target or its last path was lost in transit.
Landing(s) ==
    UNION {{t} \X route_to(Source[s], t, upNode', upLink') : t \in Arriving(s) \cap upNode'}

\* Mutated: the service moves and its route does not.
MoveKeepingRoute ==
    /\ \E place \in FunctionsInto([s \in Service |->
            IF Landing(s) = {} THEN {<<host[s], route[s]>>} ELSE Landing(s)]) :
        host' = [s \in Service |-> place[s][1]]
    /\ UNCHANGED route

\* _advance_pending_effects: a migration that is due moves its service,
Move == \E place \in FunctionsInto([s \in Service |->
            IF Landing(s) = {} THEN {<<host[s], route[s]>>} ELSE Landing(s)]) :
    /\ host' = [s \in Service |-> place[s][1]]
    /\ route' = [s \in Service |-> place[s][2]]

\* Mutated: a migration waits until its target can be reached.
RecoverWhenLanded(fp) ==
    LET stays(e) == e.remaining > 1 \/ (e.kind = "migrate" /\ Landing(e.service) = {})
        rest == SelectSeq(pending, stays)
    IN /\ status' = [s \in Service |->
               IF \E i \in DOMAIN pending : pending[i].service = s /\ ~stays(pending[i])
               THEN "healthy" ELSE status[s]]
       /\ footprint' = [s \in Service |-> IF Due(s, "restart") THEN Baseline ELSE fp[s]]
       /\ pending' = [i \in DOMAIN rest |->
               [rest[i] EXCEPT !.remaining = IF @ > 1 THEN @ - 1 ELSE @]]

\* The effects that are not due, in their order and one tick nearer.
Remaining ==
    LET remaining[n \in 0 .. Len(pending)] ==
            IF n = 0 THEN <<>>
            ELSE IF pending[n].remaining <= 1 THEN remaining[n - 1]
            ELSE Append(remaining[n - 1], [pending[n] EXCEPT !.remaining = @ - 1])
    IN remaining[Len(pending)]

\* and whether it could or not, the service is healthy again; a restart gives
\* its leaked memory back.
Recover(fp) ==
    /\ status' = [s \in Service |->
           IF Due(s, "restart") \/ Due(s, "migrate") THEN "healthy" ELSE status[s]]
    /\ footprint' = [s \in Service |-> IF Due(s, "restart") THEN Baseline ELSE fp[s]]
    /\ pending' = Remaining

Tick ==
    /\ Faults
    /\ \E fp \in Leaks :
        /\ Move /\ Recover(fp)
        /\ \E n, lost \in [Service -> 0 .. MaxArrivals] : Serve(n, lost, fp)
    /\ UNCHANGED <<replicas, rateLimit>>

Next == Migrate \/ Restart \/ Scale \/ Reroute \/ Throttle \/ Tick

Spec == Init /\ [][Next]_vars

\* The driver steps the simulator whatever the controller does.
FairSpec == Spec /\ WF_vars(Tick)

-----------------------------------------------------------------------------
\* Arrivals plus what was outstanding equal completions plus drops plus what is
\* outstanding: no request is lost unreported or reported twice, through
\* restarts, migrations, crashes, memory pressure, overflow and throttling.
RequestsConserved == \A s \in Service : owed[s] = queue[s] + inService[s] + losses[s]

\* A service is down exactly while one effect is pending for it, and no second.
DownWhilePending == \A s \in Service :
    /\ status[s] = "down" <=> ~Idle(s)
    /\ \A i, j \in DOMAIN pending : pending[i].service = pending[j].service => i = j

\* The route of a service is at all times an ordered, acyclic path from its
\* client to the node it is on, whether or not its links work.
RouteLeadsToHost == \A s \in Service : Simple(route[s], Source[s], host[s])

\* A service moves only to a node that is up and by a route that works at the
\* moment it arrives, whatever has failed since the migration was accepted.
LandsOnWorkingNode == [][\A s \in Service : host'[s] # host[s] =>
    ~path_error(route'[s], Source[s], host'[s], upNode', upLink')]_vars

\* Every restart and every migration is over some day, even if its target fails.
EffectsComplete == \A s \in Service : status[s] = "down" ~> status[s] = "healthy"
=============================================================================
