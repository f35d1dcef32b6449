------------------------------ MODULE RuleAgent ------------------------------
(***************************************************************************)
(* agent/rule_agent.py in the gated decision loop, on the observations of  *)
(* telemetry/collector.py.  The agent acts on what has lasted for some     *)
(* ticks, leaves a service alone for a while once it has proposed          *)
(* something for it, and remembers one memory sample for every time it was *)
(* asked, which with a twin that rejects is more than once in a decision.  *)
(*                                                                         *)
(* Of the metrics of a tick the model keeps what the rules ask of them; of *)
(* the validator and the choice of a target or a path, for which service   *)
(* each remedy is out of the question at a decision.                       *)
(***************************************************************************)
EXTENDS Integers, Sequences, FiniteSets

CONSTANTS
    Services,      \* how many services: 1 .. Services, in sorted order
    Nodes,         \* how many edge servers: 1 .. Nodes, in the order of the state
    Link, Paths,   \* the routes: sets of links
    Placements,    \* where the services are when the episode begins
    Telemetry,     \* the metrics a tick may bring
    Leaky,         \* the services whose memory may leak
    Refusals,      \* what may be refused at a decision: sets of <<remedy, service>>
    Threshold,     \* rule_agent.node_util_threshold
    Sustain,       \* rule_agent.sustain_ticks
    MemWindow,     \* rule_agent.mem_growth_window
    Configs,       \* what slo.history_window and rule_agent.cooldown_ticks may be
    Downtime,      \* ticks an effect is pending
    RetryCap, Interval, EpisodeTicks

Service == 1 .. Services
Node == 1 .. Nodes
Remedies == <<"migrate", "restart", "reroute", "scale", "throttle">>
Remedy == {Remedies[i] : i \in 1 .. Len(Remedies)}
NoOp == [remedy |-> "no_op", service |-> 0]
Never == -1
Nowhere == 0

\* The metrics of a tick: utilisation and throughput, the links over the latency
\* threshold, the services with a p95 over the target and those of too low an
\* availability.  (Without a completed request there is neither a p95 nor a rate.)
Metrics == [util : [Node -> Nat], rate : [Service -> Nat], slow : SUBSET Link,
            late : SUBSET Service, lost : SUBSET Service]
Compliant(s, now) == s \notin now.late \cup now.lost /\ now.rate[s] > 0

\* What the rules want to have lasted: a hot node, a slow link, a late service.
Signal == ({"hot"} \X Node) \cup ({"slow"} \X Link) \cup ({"late"} \X Service)
Shows(now) == {<<"hot", n>> : n \in {m \in Node : now.util[m] > Threshold}}
              \cup ({"slow"} \X now.slow) \cup ({"late"} \X now.late)

Placement == [host : [Service -> Node], route : [Service -> Paths]]

ASSUME RuleAssumption ==
    /\ Services \in Nat \ {0} /\ Nodes \in Nat \ {0}
    /\ Paths \subseteq SUBSET Link /\ Placements \subseteq Placement
    /\ Telemetry \subseteq Metrics /\ Leaky \subseteq Service
    /\ Refusals \subseteq SUBSET ({"migrate", "reroute", "scale"} \X Service)
    /\ Threshold \in Nat
    /\ Sustain \in Nat \ {0} /\ MemWindow \in Nat \ {0, 1} /\ Downtime \in Nat \ {0}
    /\ Configs \subseteq [window : Nat \ {0}, cooldown : Nat]
    /\ RetryCap \in Nat /\ Interval \in Nat \ {0} /\ EpisodeTicks \in Nat

VARIABLES
    config,      \* one of Configs
    tick,
    at,          \* "drive", "decide", "judge" or "execute"
    history,     \* Collector._history
    memory,      \* the footprint of each service
    place,       \* hosts and routes
    mem_history, \* RuleAgent._mem_history
    last,        \* RuleAgent._last_action_tick
    pending,     \* the ticks each service's effect is still pending, and where it leads
    refused,     \* the remedies that are refused at this decision
    tries,       \* the proposals of this decision
    applied,     \* what it executed
    lasted,      \* history: for how many ticks each signal has lasted
    rises,       \* history: decisions over which the agent saw memory rise
    sampled      \* history: the memory of each service at the last decision

world == <<config, tick, history, memory, place, pending, refused>>
agent == <<mem_history, last>>
past == <<lasted, rises, sampled>>
vars == <<world, at, agent, tries, applied, past>>

HistoryWindow == config.window
Cooldown == config.cooldown

Init ==
    /\ config \in Configs
    /\ tick = 0 /\ at = "drive"
    /\ history = <<>>
    /\ memory = [s \in Service |-> 0]
    /\ place \in Placements
    /\ mem_history = [s \in Service |-> <<>>]
    /\ last = [s \in Service |-> Never]
    /\ pending = [s \in Service |-> [left |-> 0, to |-> Nowhere]]
    /\ refused = {} /\ tries = <<>> /\ applied = NoOp
    /\ lasted = [x \in Signal |-> 0]
    /\ rises = [s \in Service |-> 0]
    /\ sampled = [s \in Service |-> Never]

-----------------------------------------------------------------------------
Latest(seq, n) == IF Len(seq) <= n THEN seq ELSE SubSeq(seq, Len(seq) - n + 1, Len(seq))
Least(a, b) == IF a < b THEN a ELSE b

Lasting(x, now) == IF x \in Shows(now) THEN Least(Sustain, lasted[x] + 1) ELSE 0

\* How many decisions of one sample each have seen the memory of s rise: a
\* retry in the last decision leaves a sample twice, and one to begin from.
Rising(s, mem) ==
    IF mem <= sampled[s] \/ sampled[s] = Never THEN 1
    ELSE IF Len(tries) > 1 THEN 2 ELSE Least(MemWindow, rises[s] + 1)

\* Collector.observe: a deque of the last metrics.
Observe(now) == Latest(Append(history, now), HistoryWindow)

\* The effects that complete in a tick: a restarted service begins from its baseline,
\* a migrated one is on its target and on a route there, unless that has become
\* unusable.
Landing == {s \in Service : pending[s].left = 1}
Land(m) ==
    /\ memory' = [s \in Service |-> IF s \in Landing /\ pending[s].to = Nowhere THEN 0 ELSE m[s]]
    /\ pending' = [s \in Service |->
                      IF pending[s].left <= 1 THEN [left |-> 0, to |-> Nowhere]
                      ELSE [pending[s] EXCEPT !.left = @ - 1]]
    /\ \E moved \in SUBSET {s \in Landing : pending[s].to # Nowhere} : \E r \in [moved -> Paths] :
          place' = [host |-> [s \in Service |-> IF s \in moved THEN pending[s].to ELSE place.host[s]],
                    route |-> [s \in Service |-> IF s \in moved THEN r[s] ELSE place.route[s]]]

\* A tick of the simulator; on a decision tick the agent is given its context.
Tick == \E now \in Telemetry, leaking \in SUBSET Leaky, no \in Refusals :
    /\ at = "drive" /\ tick < EpisodeTicks
    /\ tick' = tick + 1
    /\ history' = Observe(now)
    /\ lasted' = [x \in Signal |-> Lasting(x, now)]
    /\ Land([s \in Service |-> memory[s] + (IF s \in leaking THEN 1 ELSE 0)])
    /\ IF tick % Interval = 0
       THEN /\ at' = "decide" /\ refused' = no
            /\ rises' = [s \in Service |-> Rising(s, memory'[s])]
            /\ tries' = <<>> /\ applied' = NoOp
       ELSE /\ leaking = {} /\ no = {} /\ refused' = {}
            /\ UNCHANGED <<at, rises, tries, applied>>
    /\ UNCHANGED <<config, agent, sampled>>

-----------------------------------------------------------------------------
\* Mutated: a service may be tried again while its cooldown runs.
AvailableAlways(s) == pending[s].left = 0

Available(s) ==
    /\ pending[s].left = 0
    /\ last[s] # Never => tick - last[s] >= Cooldown

Sustained(x) ==
    /\ Len(history) >= Sustain
    /\ \A i \in Len(history) - Sustain + 1 .. Len(history) : x \in Shows(history[i])

Now == history[Len(history)]

\* Services by throughput, nodes by utilisation, ties by name and by order.
Heavier(s, t) == Now.rate[s] > Now.rate[t] \/ (Now.rate[s] = Now.rate[t] /\ s > t)
Busier(m, n) == Now.util[m] > Now.util[n] \/ (Now.util[m] = Now.util[n] /\ m < n)

Violating(n) == {s \in Service : place.host[s] = n /\ ~Compliant(s, Now) /\ Available(s)}

\* Mutated: any service in violation may leave a hot node.
CandidateAny(s) == s \in Violating(place.host[s])

\* A hot node gives up the heaviest of its services in violation, or none.
Candidate(s) ==
    /\ s \in Violating(place.host[s])
    /\ \A t \in Violating(place.host[s]) \ {s} : Heavier(s, t)

\* The last mem_growth_window samples, out of the one more that are kept.
Growing(samples) ==
    LET recent == Latest(samples, MemWindow)
    IN  /\ Len(samples) >= MemWindow
        /\ \A i \in 1 .. Len(recent) - 1 : recent[i] < recent[i + 1]

\* The services a rule would act on, given the memory samples.
Eligible(remedy, samples) == {s \in Service :
    /\ Available(s) /\ <<remedy, s>> \notin refused
    /\ CASE remedy = "migrate" -> Sustained(<<"hot", place.host[s]>>) /\ Candidate(s)
         [] remedy = "restart" -> Growing(samples[s])
         [] remedy = "reroute" -> /\ Sustained(<<"late", s>>)
                                  /\ \E l \in place.route[s] : Sustained(<<"slow", l>>)
         [] OTHER -> Sustained(<<"late", s>>)}

Before(remedy) == {Remedies[i] : i \in
    {j \in 1 .. Len(Remedies) : \A k \in 1 .. j : Remedies[k] # remedy}}

\* The first rule with a service to act on decides, and takes the first one in
\* sorted order; that of migration begins with the busiest node.
First(remedy, s, fit) == \A t \in fit :
    IF remedy = "migrate" THEN ~Busier(place.host[t], place.host[s]) ELSE s <= t

Choices(samples) ==
    IF \A r \in Remedy : Eligible(r, samples) = {} THEN {NoOp}
    ELSE {a \in [remedy : Remedy, service : Service] :
             /\ a.service \in Eligible(a.remedy, samples)
             /\ First(a.remedy, a.service, Eligible(a.remedy, samples))
             /\ \A r \in Before(a.remedy) : Eligible(r, samples) = {}}

Record == [s \in Service |-> Latest(Append(mem_history[s], memory[s]), MemWindow + 1)]

\* RuleAgent.decide, asked for the first time or after a rejection.
Decide == \E a \in Choices(Record) :
    /\ at = "decide" /\ at' = "judge"
    /\ mem_history' = Record
    /\ last' = IF a = NoOp THEN last ELSE [last EXCEPT ![a.service] = tick]
    /\ tries' = Append(tries, a)
    /\ sampled' = memory
    /\ UNCHANGED <<world, applied, lasted, rises>>

Try == tries[Len(tries)]

\* The twin approves, as it always does a no-op; or there is none.
Approve ==
    /\ at = "judge" /\ at' = "execute"
    /\ applied' = Try
    /\ UNCHANGED <<world, agent, tries, past>>

Reject ==
    /\ at = "judge" /\ Try # NoOp
    /\ at' = IF Len(tries) <= RetryCap THEN "decide" ELSE "execute"
    /\ UNCHANGED <<world, agent, tries, applied, past>>

\* What is applied, or for the fallback nothing.  Replicas and rate limits are
\* part of the telemetry's choice.
Execute ==
    /\ at = "execute" /\ at' = "drive"
    /\ \/ /\ applied.remedy = "migrate"
          /\ \E n \in Node \ {place.host[applied.service]} :
                pending' = [pending EXCEPT ![applied.service] = [left |-> Downtime, to |-> n]]
          /\ UNCHANGED place
       \/ /\ applied.remedy = "restart"
          /\ pending' = [pending EXCEPT ![applied.service] = [left |-> Downtime, to |-> Nowhere]]
          /\ UNCHANGED place
       \/ /\ applied.remedy = "reroute"
          /\ \E r \in Paths \ {place.route[applied.service]} :
                place' = [place EXCEPT !.route[applied.service] = r]
          /\ UNCHANGED pending
       \/ /\ applied.remedy \in {"scale", "throttle", "no_op"}
          /\ UNCHANGED <<pending, place>>
    /\ UNCHANGED <<config, tick, history, memory, refused, agent, tries, applied, past>>

Over == at = "drive" /\ tick = EpisodeTicks

Finished == Over /\ UNCHANGED vars

Next == Tick \/ Decide \/ Approve \/ Reject \/ Execute \/ Finished

Spec == Init /\ [][Next]_vars

-----------------------------------------------------------------------------
\* A signal has lasted for sustain_ticks.  (With a history_window shorter than
\* that the agent never gets to see it, and four of its rules never act.)
Lasted(x) == HistoryWindow >= Sustain /\ lasted[x] >= Sustain

\* What a remedy is for has lasted: each of its signals, for the node and the route
\* that the service has now, or a rise of memory over mem_growth_window decisions,
\* none of them retried.
Due(remedy, s) ==
    CASE remedy = "migrate" -> Lasted(<<"hot", place.host[s]>>) /\ ~Compliant(s, Now)
      [] remedy = "restart" -> rises[s] >= MemWindow /\ Len(tries) = 1
      [] remedy = "reroute" -> /\ Lasted(<<"late", s>>)
                               /\ \E l \in place.route[s] : Lasted(<<"slow", l>>)
      [] OTHER -> Lasted(<<"late", s>>)

\* The service was not being left alone when the agent was asked.
Free(s) ==
    /\ pending[s].left = 0
    /\ s = Try.service \/ last[s] = Never \/ tick - last[s] >= Cooldown

\* The services that come before s in leaving its node.
Rivals(s) == {t \in Service :
    place.host[t] = place.host[s] /\ Heavier(t, s) /\ Due("migrate", t) /\ Free(t)}

\* The agent proposes what is due, counted from the beginning of the episode,
\* and holds, or takes a lesser remedy, only when nothing better is accepted, or
\* when it is a migration that the heaviest service of the node stands in the way
\* of, itself refused: neither the collector's window nor the agent's samples, which
\* restarts and retries disturb, make it see what is not there or miss what is.
ProposesWhatIsDue == at = "judge" =>
    /\ Try # NoOp => Due(Try.remedy, Try.service) /\ <<Try.remedy, Try.service>> \notin refused
    /\ Try.remedy = "migrate" => Rivals(Try.service) = {}
    /\ \A s \in Service, r \in Before(Try.remedy) : Due(r, s) /\ Free(s) =>
          \/ <<r, s>> \in refused
          \/ r = "migrate" /\ \E t \in Rivals(s) : <<"migrate", t>> \in refused

\* What the proposals after a rejection are.  None is a restart: the samples of the
\* first one hide every rise.  A service that cools down is not tried again, so with
\* as many retries as services the decision never ends exhausted.  Without a
\* cooldown the agent says the same again, whatever the twin makes of it.
RetriesMoveOn ==
    /\ \A i \in 2 .. Len(tries) : tries[i].remedy # "restart"
    /\ Cooldown > 0 =>
          /\ \A i, j \in 1 .. Len(tries) :
                i # j => tries[i] = NoOp \/ tries[i].service # tries[j].service
          /\ at = "execute" /\ RetryCap >= Services => applied = Try
    /\ Cooldown = 0 => \A i, j \in 1 .. Len(tries) :
          i < j /\ tries[i].remedy # "restart" => tries[j] = tries[i]
=============================================================================
