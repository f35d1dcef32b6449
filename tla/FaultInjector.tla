--------------------------- MODULE FaultInjector ---------------------------
(***************************************************************************)
(* faults/injector.py and faults/catalog.py: the scheduled faults of an    *)
(* episode laid over the network.  At the start of a tick the injector     *)
(* puts the baselines back, notes the events whose window is open, and     *)
(* composes their contributions afresh; a restart of a service gives back  *)
(* what its leaks have taken so far.                                       *)
(*                                                                         *)
(* Values are small numbers: a status is 0 (healthy, up), 1 (degraded) or  *)
(* 2 (down), a rate or a latency a product, a loss or a reservation a      *)
(* capped sum, a footprint a sum.                                          *)
(***************************************************************************)
EXTENDS Integers, FiniteSets, Folds

CONSTANTS
    Event, Target,
    ServiceTarget,  \* the targets that are services
    Kind,           \* an event's type
    Of,             \* its target
    Magnitude,
    StartTicks,     \* the ticks a window may open at
    Durations,      \* how long it may stay open
    Cap,            \* what a capped sum is capped at
    LastTick        \* the last tick of the run

Kinds == {"saturation", "crash", "degradation", "failure", "leak", "surge"}

ASSUME FaultAssumption ==
    /\ IsFiniteSet(Event)
    /\ StartTicks \subseteq Nat /\ Durations \subseteq Nat \ {0}
    /\ Cap \in Nat /\ LastTick \in Nat
    /\ ServiceTarget \subseteq Target
    /\ Kind \in [Event -> Kinds] /\ Of \in [Event -> Target]
    /\ Magnitude \in [Event -> Nat]

VARIABLES
    start, duration,  \* the schedule, fixed for the episode
    tick,             \* the tick the simulator steps next
    active,           \* the events with an entry in active_faults
    bytes,            \* their accumulated leak
    baselines,        \* fault_baselines: the fields in it, and their values
    value,            \* what the fields hold
    reclaimed         \* history: the tick of a service's last restart

injectorVars == <<start, duration, tick, active, bytes, baselines, value, reclaimed>>

FieldsOf(k) ==
    CASE k = "saturation"  -> {"cpu_reserved", "status"}
      [] k \in {"crash", "failure"} -> {"status"}
      [] k = "degradation" -> {"latency_multiplier", "loss_rate"}
      [] k = "leak"        -> {"mem_footprint"}
      [] k = "surge"       -> {"rate"}

Field == Target \X UNION {FieldsOf(k) : k \in Kinds}

fault_fields(e) == {Of[e]} \X FieldsOf(Kind[e])

\* What a field holds when nothing is wrong.
Original(f) == IF f[2] \in {"rate", "latency_multiplier", "mem_footprint"} THEN 1 ELSE 0

Larger(a, b) == IF a > b THEN a ELSE b
Smaller(a, b) == IF a < b THEN a ELSE b

\* One contribution on top of a field's value so far.
Contribute(e, f, v, b) ==
    CASE f[2] = "status" -> Larger(v, IF Kind[e] = "saturation" THEN 1 ELSE 2)
      [] f[2] \in {"cpu_reserved", "loss_rate"} -> Smaller(Cap, v + Magnitude[e])
      [] f[2] \in {"rate", "latency_multiplier"} -> v * Magnitude[e]
      [] f[2] = "mem_footprint" -> v + b[e]

\* The contributions of a set of events; their order does not matter.
compose_faults(f, v, on, b) ==
    MapThenFoldSet(LAMBDA e, acc : Contribute(e, f, acc, b), v, LAMBDA e : e,
                   LAMBDA s : CHOOSE e \in s : TRUE,
                   {e \in on : f \in fault_fields(e)})

Open(t) == {e \in Event : start[e] <= t /\ t < start[e] + duration[e]}

InjectorTypeOK ==
    /\ start \in [Event -> StartTicks] /\ duration \in [Event -> Durations]
    /\ tick \in 0 .. LastTick + 1
    /\ active \subseteq Event
    /\ bytes \in [Event -> Nat]
    /\ DOMAIN baselines \subseteq Field
    /\ \A f \in DOMAIN baselines : baselines[f] \in Nat
    /\ value \in [Field -> Nat]
    /\ reclaimed \in [ServiceTarget -> 0 .. LastTick + 1]

InjectorInit ==
    /\ start \in [Event -> StartTicks] /\ duration \in [Event -> Durations]
    /\ tick = 0 /\ active = {}
    /\ bytes = [e \in Event |-> 0]
    /\ baselines = [f \in {} |-> 0]
    /\ value = [f \in Field |-> Original(f)]
    /\ reclaimed = [s \in ServiceTarget |-> 0]

Leaked(on) == [e \in Event |->
    IF e \notin on THEN 0
    ELSE bytes[e] + (IF Kind[e] = "leak" THEN Magnitude[e] ELSE 0)]

\* Mutated: what a field holds now is taken for its baseline.
ApplyTickCapturing ==
    /\ tick <= LastTick /\ tick' = tick + 1
    /\ LET on == Open(tick)
           touched == UNION {fault_fields(e) : e \in on}
       IN /\ active' = on
          /\ bytes' = Leaked(on)
          /\ value' = [f \in Field |-> compose_faults(f, value[f], on, bytes')]
          /\ baselines' = [f \in touched |-> value[f]]
    /\ UNCHANGED <<start, duration, reclaimed>>

\* Mutated: a window that closes leaves the other's contribution undone.
ApplyTickUndoing ==
    /\ tick <= LastTick /\ tick' = tick + 1
    /\ LET on == Open(tick)
           touched == UNION {fault_fields(e) : e \in on}
           closed == UNION {fault_fields(e) : e \in active \ on}
       IN /\ active' = on
          /\ bytes' = Leaked(on)
          /\ value' = [f \in Field |-> IF f \in closed THEN Original(f)
                                       ELSE compose_faults(f, Original(f), on, bytes')]
          /\ baselines' = [f \in touched |-> Original(f)]
    /\ UNCHANGED <<start, duration, reclaimed>>

\* FaultInjector.apply_tick, with which every step of the simulator begins.
ApplyTick ==
    /\ tick <= LastTick /\ tick' = tick + 1
    /\ LET restored == [f \in Field |-> IF f \in DOMAIN baselines THEN baselines[f]
                                        ELSE value[f]]
           on == Open(tick)
           touched == UNION {fault_fields(e) : e \in on}
       IN /\ active' = on
          /\ bytes' = Leaked(on)
          /\ value' = [f \in Field |->
                           IF f \in touched THEN compose_faults(f, restored[f], on, bytes')
                           ELSE restored[f]]
          /\ baselines' = [f \in touched |-> restored[f]]
    /\ UNCHANGED <<start, duration, reclaimed>>

\* reset_leak_memory
Reset(s) ==
    LET f == <<s, "mem_footprint">> IN
    /\ value' = [value EXCEPT ![f] = Original(f)]
    /\ baselines' = [g \in DOMAIN baselines |->
                        IF g = f THEN Original(f) ELSE baselines[g]]
    /\ bytes' = [e \in Event |->
                    IF e \in active /\ Kind[e] = "leak" /\ Of[e] = s THEN 0 ELSE bytes[e]]

\* A restart that completes at the end of the step just made.
RestartCompletes == \E s \in ServiceTarget :
    /\ reclaimed[s] < tick
    /\ Reset(s)
    /\ reclaimed' = [reclaimed EXCEPT ![s] = tick]
    /\ UNCHANGED <<start, duration, tick, active>>

Finished == tick > LastTick /\ UNCHANGED injectorVars

InjectorNext == ApplyTick \/ RestartCompletes \/ Finished

InjectorSpec == InjectorInit /\ [][InjectorNext]_injectorVars

-----------------------------------------------------------------------------
\* The leak an event accounts for: one magnitude for each tick its window has
\* been open since the service was last restarted.
Owed(e) ==
    LET since == IF Of[e] \in ServiceTarget THEN Larger(start[e], reclaimed[Of[e]])
                 ELSE start[e]
    IN IF Kind[e] = "leak" /\ since < tick THEN Magnitude[e] * (tick - since) ELSE 0

\* Whatever windows overlap, nest, abut or repeat, and whenever services are
\* restarted, each field holds its original value with the contributions of
\* exactly the events open in the last tick, and nothing of the others.
ValuesCompose == tick > 0 => value =
    [f \in Field |-> compose_faults(f, Original(f), Open(tick - 1),
                                    [e \in Event |-> Owed(e)])]

\* A baseline is never a faulted value, and is kept exactly as long as a window
\* over its field is open.
BaselinesAreOriginal ==
    /\ \A f \in DOMAIN baselines : baselines[f] = Original(f)
    /\ tick > 0 => DOMAIN baselines = UNION {fault_fields(e) : e \in Open(tick - 1)}
=============================================================================
