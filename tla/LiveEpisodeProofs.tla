------------------------- MODULE LiveEpisodeProofs -------------------------
(***************************************************************************)
(* What holds of the episodes of LiveEpisode for every horizon, retry cap, *)
(* interval, set of scenarios and size of the network, in four parts that  *)
(* share one inductive invariant, PromiseInv: the simulators have          *)
(* generators of their own, the live one is not touched while a decision   *)
(* is pending, and the copy from before it is alike.                       *)
(*                                                                         *)
(* The loop of a rollout and that of an evaluation are recursive functions *)
(* (Ahead, Truths).  A statement about each of their ticks is proved by    *)
(* taking the least tick it would fail at (LeastNumber, UpTo).             *)
(***************************************************************************)
EXTENDS LiveEpisode, FiniteSetTheorems, WellFoundedInduction, TLAPS

-----------------------------------------------------------------------------
\* Induction, and the worlds the simulators make up.

\* A set of natural numbers that is not empty has a least member.
LEMMA LeastNumber ==
  ASSUME NEW T, T \subseteq Nat, T # {}
  PROVE  \E n \in T : \A m \in T : n <= m
<1>1. PICK n \in T : \A m \in T : ~(<<m, n>> \in OpToRel(<, Nat))
  BY NatLessThanWellFounded, WFMin, Zenon
<1>2. ASSUME NEW m \in T PROVE n <= m
  <2>1. <<m, n>> \in Nat \X Nat
    OBVIOUS
  <2>2. ~(m < n)
    BY <1>1, <2>1 DEF OpToRel
  <2>3. QED
    BY <2>2
<1>3. QED
  BY <1>2

\* Induction over a range, for the members of a set.
LEMMA UpTo ==
  ASSUME NEW n \in Nat, NEW S, 0 \in S, \A k \in 1 .. n : k - 1 \in S => k \in S
  PROVE  0 .. n \subseteq S
<1> DEFINE bad == {k \in 0 .. n : k \notin S}
<1>1. SUFFICES ASSUME bad # {} PROVE FALSE
  OBVIOUS
<1>2. PICK k \in bad : \A m \in bad : k <= m
  <2>1. bad \subseteq Nat
    OBVIOUS
  <2> HIDE DEF bad
  <2>2. QED
    BY <1>1, <2>1, LeastNumber
<1>3. k \in 1 .. n /\ k \notin S
  OBVIOUS
<1>4. k - 1 \in 0 .. n /\ k - 1 \notin bad
  BY <1>2, <1>3
<1>5. QED
  BY <1>3, <1>4

\* The shape of a world: its simulators have their fields, its generators a
\* position.
SimFields == {"tick", "queue", "replicas", "faulted", "down", "surplus", "injector",
              "compliant", "arrival", "service"}
World(u) ==
    /\ DOMAIN u = {"sim", "pos"} /\ DOMAIN u.sim = Role
    /\ \A r \in Role : DOMAIN u.sim[r] = SimFields /\ u.sim[r].tick \in Nat
    /\ u.pos \in [Generator -> Nat]

\* A simulator draws from the generators of its role only, if it draws.
OwnGenerators(u, r) ==
    /\ u.sim[r].arrival = <<r, "arrival">>
    /\ u.sim[r].service \in {<<r, "service">>, Mean}

\* Two simulators that differ in nothing but the names of their generators and
\* in whether they keep the fault schedule.
StateFields == SimFields \ {"arrival", "service", "injector"}
Alike(u, r, v, q) ==
    /\ \A field \in StateFields : u.sim[r][field] = v.sim[q][field]
    /\ u.sim[r].service = Mean <=> v.sim[q].service = Mean
    /\ u.pos[<<r, "arrival">>] = v.pos[<<q, "arrival">>]
    /\ u.pos[<<r, "service">>] = v.pos[<<q, "service">>]

\* v is u but for what belongs to the role r.
Apart(u, v, r) ==
    /\ \A q \in Role : q # r => v.sim[q] = u.sim[q]
    /\ \A g \in Generator : g[1] # r => v.pos[g] = u.pos[g]

\* A step of a simulator makes a world of a world.
LEMMA StepWorld ==
  ASSUME NEW env, NEW u, World(u), NEW r \in Role
  PROVE  World(Step(env, u, r))
<1> DEFINE v == Step(env, u, r)
<1>1. DOMAIN v = {"sim", "pos"} /\ DOMAIN v.sim = Role
  BY DEF World, Step
<1>2. DOMAIN v.sim[r] = SimFields /\ v.sim[r].tick = u.sim[r].tick + 1
  BY DEF World, Step, SimFields
<1>3. \A q \in Role : q # r => v.sim[q] = u.sim[q]
  BY DEF World, Step
<1>4. v.pos \in [Generator -> Nat]
  <2> DEFINE n == Step(env, u, r).pos
  <2>1. \A g \in Generator : n[g] = u.pos[g] + 1 \/ n[g] = u.pos[g] + 0
    BY DEF Step
  <2>2. DOMAIN n = Generator /\ n = [g \in Generator |-> n[g]]
    BY DEF Step
  <2> HIDE DEF n
  <2>3. \A g \in Generator : n[g] \in Nat
    BY <2>1 DEF World
  <2>4. QED
    BY <2>2, <2>3 DEF n
<1> HIDE DEF v
<1>5. v.sim[r].tick \in Nat
  BY <1>2 DEF World
<1>6. QED
  BY <1>1, <1>2, <1>3, <1>4, <1>5 DEF World, v

\* A step of a simulator touches nothing of the others.
LEMMA StepApart ==
  ASSUME NEW env, NEW u, World(u), NEW r \in Role, OwnGenerators(u, r)
  PROVE  /\ OwnGenerators(Step(env, u, r), r)
         /\ Apart(u, Step(env, u, r), r)
         /\ Step(env, u, r).sim[r].tick = u.sim[r].tick + 1
         /\ Step(env, u, r).sim[r].injector = u.sim[r].injector
         /\ Step(env, u, r).sim[r].faulted = Faulted(env, u.sim[r])
<1> DEFINE v == Step(env, u, r)
<1>1. /\ v.sim[r].arrival = u.sim[r].arrival /\ v.sim[r].service = u.sim[r].service
      /\ v.sim[r].tick = u.sim[r].tick + 1
      /\ v.sim[r].injector = u.sim[r].injector
      /\ v.sim[r].faulted = Faulted(env, u.sim[r])
  BY DEF World, Step, SimFields
<1>2. \A q \in Role : q # r => v.sim[q] = u.sim[q]
  BY DEF World, Step
<1>3. ASSUME NEW g \in Generator, g[1] # r PROVE v.pos[g] = u.pos[g]
  <2>1. g # u.sim[r].arrival /\ g # u.sim[r].service
    BY <1>3 DEF OwnGenerators, Mean, Generator, Role
  <2>2. v.pos[g] = u.pos[g] + 0 /\ u.pos[g] \in Nat
    BY <2>1 DEF Step, World
  <2> HIDE DEF v
  <2>3. QED
    BY <2>2
<1>4. QED
  BY <1>1, <1>2, <1>3 DEF OwnGenerators, Apart

\* Simulators that are alike stay alike when both step.
LEMMA StepAlike ==
  ASSUME NEW env, NEW u, World(u), NEW r \in Role, OwnGenerators(u, r),
         NEW v, World(v), NEW q \in Role, OwnGenerators(v, q), Alike(u, r, v, q),
         Faulted(env, u.sim[r]) = Faulted(env, v.sim[q])
  PROVE  Alike(Step(env, u, r), r, Step(env, v, q), q)
<1> DEFINE s == u.sim[r]
           t == v.sim[q]
           faulted1 == Faulted(env, s)
           faulted2 == Faulted(env, t)
           arrived1 == Above(0, Draw(env, u, s.arrival) + s.surplus)
           arrived2 == Above(0, Draw(env, v, t.arrival) + t.surplus)
           waiting1 == IF s.down > 0 THEN 0 ELSE Least(QueueCap, s.queue + arrived1)
           waiting2 == IF t.down > 0 THEN 0 ELSE Least(QueueCap, t.queue + arrived2)
           speed1 == IF waiting1 = 0 \/ s.service = Mean THEN 1 ELSE Draw(env, u, s.service)
           speed2 == IF waiting2 = 0 \/ t.service = Mean THEN 1 ELSE Draw(env, v, t.service)
           cpu1 == Above(0, s.replicas - (IF faulted1 THEN 1 ELSE 0))
           cpu2 == Above(0, t.replicas - (IF faulted2 THEN 1 ELSE 0))
           done1 == Least(waiting1, cpu1 * speed1)
           done2 == Least(waiting2, cpu2 * speed2)
<1>1. /\ s.tick = t.tick /\ s.queue = t.queue /\ s.replicas = t.replicas
      /\ s.faulted = t.faulted /\ s.down = t.down /\ s.surplus = t.surplus
      /\ s.compliant = t.compliant
  BY DEF Alike, StateFields, SimFields
<1>2. s.service = Mean <=> t.service = Mean
  BY DEF Alike
<1>3. Draw(env, u, s.arrival) = Draw(env, v, t.arrival)
  BY DEF Draw, OwnGenerators, Alike
<1>4. s.service # Mean => Draw(env, u, s.service) = Draw(env, v, t.service)
  <2> SUFFICES ASSUME s.service # Mean PROVE Draw(env, u, s.service) = Draw(env, v, t.service)
    OBVIOUS
  <2>1. s.service = <<r, "service">> /\ t.service = <<q, "service">>
    BY <1>2 DEF OwnGenerators
  <2>2. u.pos[s.service] = v.pos[t.service] /\ s.service[2] = t.service[2]
    BY <2>1 DEF Alike
  <2> HIDE DEF s, t
  <2>3. QED
    BY <2>2, Zenon DEF Draw
<1>5. faulted1 = faulted2
  OBVIOUS
<1>6. arrived1 = arrived2
  BY <1>1, <1>3, Zenon
<1>7. waiting1 = waiting2
  BY <1>1, <1>6, Zenon
<1>8. speed1 = speed2
  BY <1>2, <1>4, <1>7
<1>9. done1 = done2
  BY <1>1, <1>5, <1>7, <1>8, Zenon
<1> DEFINE after1 == Step(env, u, r)
           after2 == Step(env, v, q)
<1>10. /\ after1.sim[r].tick = s.tick + 1
       /\ after1.sim[r].faulted = faulted1
       /\ after1.sim[r].queue = waiting1 - done1
       /\ after1.sim[r].down = Above(0, s.down - 1)
       /\ after1.sim[r].compliant = (done1 > 0 /\ waiting1 = s.queue + arrived1
                                      /\ waiting1 - done1 <= SloQueue)
       /\ after1.sim[r].replicas = s.replicas /\ after1.sim[r].surplus = s.surplus
       /\ after1.sim[r].service = s.service
  BY DEF World, Step, SimFields
<1>11. /\ after2.sim[q].tick = t.tick + 1
       /\ after2.sim[q].faulted = faulted2
       /\ after2.sim[q].queue = waiting2 - done2
       /\ after2.sim[q].down = Above(0, t.down - 1)
       /\ after2.sim[q].compliant = (done2 > 0 /\ waiting2 = t.queue + arrived2
                                      /\ waiting2 - done2 <= SloQueue)
       /\ after2.sim[q].replicas = t.replicas /\ after2.sim[q].surplus = t.surplus
       /\ after2.sim[q].service = t.service
  BY DEF World, Step, SimFields
<1>12. \A g \in Generator : after1.pos[g] = u.pos[g]
             + (IF g = s.arrival \/ (waiting1 > 0 /\ g = s.service) THEN 1 ELSE 0)
  BY DEF Step
<1>13. \A g \in Generator : after2.pos[g] = v.pos[g]
             + (IF g = t.arrival \/ (waiting2 > 0 /\ g = t.service) THEN 1 ELSE 0)
  BY DEF Step
<1>14. /\ <<r, "arrival">> \in Generator /\ <<r, "service">> \in Generator
       /\ <<q, "arrival">> \in Generator /\ <<q, "service">> \in Generator
       /\ Mean # <<r, "service">> /\ Mean # <<q, "service">>
  BY DEF Generator, Stream, Mean, Role
<1> HIDE DEF faulted1, faulted2, arrived1, arrived2, waiting1, waiting2, speed1, speed2,
             cpu1, cpu2, done1, done2, after1, after2
<1>15. \A field \in StateFields : after1.sim[r][field] = after2.sim[q][field]
  BY <1>1, <1>5, <1>6, <1>7, <1>9, <1>10, <1>11 DEF StateFields, SimFields
<1>16. after1.pos[<<r, "arrival">>] = after2.pos[<<q, "arrival">>]
  BY <1>12, <1>13, <1>14 DEF Alike, OwnGenerators
<1>17. after1.pos[<<r, "service">>] = after2.pos[<<q, "service">>]
  BY <1>2, <1>7, <1>12, <1>13, <1>14 DEF Alike, OwnGenerators
<1>18. QED
  BY <1>2, <1>10, <1>11, <1>15, <1>16, <1>17 DEF Alike, after1, after2

\* The ticks of Ahead, as a function of how many of them are over.
RunStep(env, u, r, run, k) ==
    IF k = 0 THEN [w |-> u, violations |-> 0]
    ELSE LET after == Step(env, run[k - 1].w, r)
         IN  [w |-> after, violations |-> run[k - 1].violations
                + (IF after.sim[r].compliant THEN 0 ELSE 1)]
Run(env, u, r) == CHOOSE run : run = [k \in 0 .. Horizon |-> RunStep(env, u, r, run, k)]

\* Ahead is the last of them.
LEMMA AheadIsRun ==
  ASSUME NEW env, NEW u
  PROVE  Ahead(env, u) = Run(env, u, "branch")[Horizon]
  BY Zenon DEF Ahead, Run, RunStep

\* There is a run of every length.
LEMMA RunExists ==
  ASSUME NEW env, NEW u, NEW r
  PROVE  \A k \in 0 .. Horizon : Run(env, u, r)[k] = RunStep(env, u, r, Run(env, u, r), k)
<1> DEFINE Runs(k) == \E g : g = [n \in 0 .. k |-> RunStep(env, u, r, g, n)]
           bad == {k \in Nat : ~Runs(k)}
<1>1. Runs(0)
  <2> DEFINE first == [n \in 0 .. 0 |-> [w |-> u, violations |-> 0]]
  <2>1. \A n \in 0 .. 0 : n = 0
    OBVIOUS
  <2>2. first = [n \in 0 .. 0 |-> RunStep(env, u, r, first, n)]
    BY <2>1 DEF RunStep
  <2>3. QED
    BY <2>2
<1>2. ASSUME NEW k \in Nat, Runs(k) PROVE Runs(k + 1)
  <2>1. PICK g : g = [n \in 0 .. k |-> RunStep(env, u, r, g, n)]
    BY <1>2
  <2> DEFINE h == [n \in 0 .. k + 1 |-> RunStep(env, u, r, g, n)]
  <2>2. \A n \in 0 .. k : h[n] = g[n]
    BY <2>1
  <2>3. ASSUME NEW n \in 0 .. k + 1 PROVE RunStep(env, u, r, g, n) = RunStep(env, u, r, h, n)
    <3>1. n # 0 => h[n - 1] = g[n - 1]
      <4>1. n # 0 => n - 1 \in 0 .. k
        OBVIOUS
      <4> HIDE DEF h
      <4>2. QED
        BY <2>2, <4>1
    <3> HIDE DEF h
    <3>2. QED
      BY <3>1 DEF RunStep
  <2>4. h = [n \in 0 .. k + 1 |-> RunStep(env, u, r, h, n)]
    BY <2>3
  <2>5. QED
    BY <2>4
<1>3. bad = {}
  <2>1. SUFFICES ASSUME bad # {} PROVE FALSE
    OBVIOUS
  <2>2. PICK k \in bad : \A m \in bad : k <= m
    <3>1. bad \subseteq Nat
      OBVIOUS
    <3> HIDE DEF bad
    <3>2. QED
      BY <2>1, <3>1, LeastNumber
  <2>3. k \in Nat /\ ~Runs(k)
    OBVIOUS
  <2> HIDE DEF Runs
  <2>4. k # 0
    BY <1>1, <2>3
  <2>5. k - 1 \in Nat /\ k - 1 \notin bad
    BY <2>2, <2>3, <2>4
  <2>6. Runs((k - 1) + 1)
    BY <1>2, <2>5
  <2>7. QED
    BY <2>3, <2>6
<1>4. Horizon \in Nat
  BY ForkAssumption
<1>5. \E g : g = [n \in 0 .. Horizon |-> RunStep(env, u, r, g, n)]
  BY <1>3, <1>4
<1>6. Run(env, u, r) = [n \in 0 .. Horizon |-> RunStep(env, u, r, Run(env, u, r), n)]
  BY <1>5, Zenon DEF Run
<1> HIDE DEF Run
<1>7. QED
  BY <1>6

\* A simulator that runs leaves the others alone, and keeps its injector or
\* the faults of the moment.
RunGood(env, u, r, k) ==
    LET now == Run(env, u, r)[k] IN
    /\ World(now.w) /\ OwnGenerators(now.w, r) /\ Apart(u, now.w, r)
    /\ now.violations \in Nat
    /\ now.w.sim[r].tick = u.sim[r].tick + k
    /\ now.w.sim[r].injector = u.sim[r].injector
    /\ ~u.sim[r].injector => now.w.sim[r].faulted = u.sim[r].faulted

\* So it is with every tick of a run.
LEMMA RunKeeps ==
  ASSUME NEW env, NEW u, World(u), NEW r \in Role, OwnGenerators(u, r)
  PROVE  \A k \in 0 .. Horizon : RunGood(env, u, r, k)
<1> DEFINE good == {k \in 0 .. Horizon : RunGood(env, u, r, k)}
<1>1. Horizon \in Nat
  BY ForkAssumption
<1>2. RunGood(env, u, r, 0)
  <2>1. Run(env, u, r)[0] = RunStep(env, u, r, Run(env, u, r), 0)
    BY <1>1, RunExists
  <2>2. Run(env, u, r)[0] = [w |-> u, violations |-> 0]
    BY <2>1 DEF RunStep
  <2>3. u.sim[r].tick + 0 = u.sim[r].tick
    BY DEF World
  <2>4. QED
    BY <2>2, <2>3 DEF RunGood, Apart
<1>3. ASSUME NEW k \in 1 .. Horizon, RunGood(env, u, r, k - 1) PROVE RunGood(env, u, r, k)
  <2> DEFINE before == Run(env, u, r)[k - 1]
             now == Run(env, u, r)[k]
             after == Step(env, before.w, r)
  <2>1. now = RunStep(env, u, r, Run(env, u, r), k) /\ k # 0
    BY <1>1, RunExists
  <2>2. now = [w |-> after, violations |-> before.violations
                  + (IF after.sim[r].compliant THEN 0 ELSE 1)]
    BY <2>1 DEF RunStep
  <2>3. /\ World(before.w) /\ OwnGenerators(before.w, r)
        /\ Apart(u, before.w, r) /\ before.violations \in Nat
        /\ before.w.sim[r].tick = u.sim[r].tick + (k - 1)
        /\ before.w.sim[r].injector = u.sim[r].injector
        /\ ~u.sim[r].injector => before.w.sim[r].faulted = u.sim[r].faulted
    BY <1>3 DEF RunGood
  <2> HIDE DEF before
  <2>4. /\ World(after) /\ OwnGenerators(after, r) /\ Apart(before.w, after, r)
        /\ after.sim[r].tick = before.w.sim[r].tick + 1
        /\ after.sim[r].injector = before.w.sim[r].injector
        /\ after.sim[r].faulted = Faulted(env, before.w.sim[r])
    BY <2>3, StepWorld, StepApart
  <2>5. Apart(u, after, r)
    BY <2>3, <2>4 DEF Apart
  <2> HIDE DEF now, after
  <2>6. now.w = after /\ now.violations \in Nat
    BY <2>2, <2>3
  <2>7. after.sim[r].tick = u.sim[r].tick + k
    <3>1. u.sim[r].tick \in Nat
      BY DEF World
    <3>2. QED
      BY <2>3, <2>4, <3>1
  <2>8. ~u.sim[r].injector => after.sim[r].faulted = u.sim[r].faulted
    BY <2>3, <2>4 DEF Faulted
  <2>9. QED
    BY <2>3, <2>4, <2>5, <2>6, <2>7, <2>8 DEF RunGood, now
<1>4. 0 .. Horizon \subseteq good
  <2>1. 0 \in good /\ \A k \in 1 .. Horizon : k - 1 \in good => k \in good
    BY <1>1, <1>2, <1>3
  <2> HIDE DEF good
  <2>2. QED
    BY <1>1, <2>1, UpTo
<1>5. QED
  BY <1>4

\* The same faults lie ahead of two simulators that are alike: both or neither
\* keep the schedule, or the schedule has no change to offer for a horizon.
SameFaults(env, u, r, v, q) ==
    \/ u.sim[r].injector = v.sim[q].injector
    \/ /\ ~u.sim[r].injector /\ v.sim[q].injector
       /\ \A n \in 0 .. Horizon - 1 :
              u.sim[r].faulted = ((v.sim[q].tick + n) \in env.window)

\* Simulators that are alike count the same violations however far they run.
RunsAgree(env, u, r, v, q, k) ==
    /\ Alike(Run(env, u, r)[k].w, r, Run(env, v, q)[k].w, q)
    /\ Run(env, u, r)[k].violations = Run(env, v, q)[k].violations

\* Two simulators that are alike, and meet the same faults, are alike after
\* every tick of their runs and count the same violations: what Ahead returns
\* does not depend on whose generators it draws from.
LEMMA RunAlike ==
  ASSUME NEW env, NEW u, World(u), NEW r \in Role, OwnGenerators(u, r),
         NEW v, World(v), NEW q \in Role, OwnGenerators(v, q), Alike(u, r, v, q),
         SameFaults(env, u, r, v, q)
  PROVE  \A k \in 0 .. Horizon : RunsAgree(env, u, r, v, q, k)
<1> DEFINE good == {k \in 0 .. Horizon : RunsAgree(env, u, r, v, q, k)}
<1>1. Horizon \in Nat
  BY ForkAssumption
<1>2. RunsAgree(env, u, r, v, q, 0)
  <2>1. /\ Run(env, u, r)[0] = RunStep(env, u, r, Run(env, u, r), 0)
        /\ Run(env, v, q)[0] = RunStep(env, v, q, Run(env, v, q), 0)
    BY <1>1, RunExists
  <2>2. /\ Run(env, u, r)[0] = [w |-> u, violations |-> 0]
        /\ Run(env, v, q)[0] = [w |-> v, violations |-> 0]
    BY <2>1 DEF RunStep
  <2>3. QED
    BY <2>2 DEF RunsAgree
<1>3. ASSUME NEW k \in 1 .. Horizon, RunsAgree(env, u, r, v, q, k - 1)
      PROVE  RunsAgree(env, u, r, v, q, k)
  <2> DEFINE before1 == Run(env, u, r)[k - 1]
             before2 == Run(env, v, q)[k - 1]
             after1 == Step(env, before1.w, r)
             after2 == Step(env, before2.w, q)
  <2>1. /\ Run(env, u, r)[k] = RunStep(env, u, r, Run(env, u, r), k)
        /\ Run(env, v, q)[k] = RunStep(env, v, q, Run(env, v, q), k) /\ k # 0
    BY <1>1, RunExists
  <2>2. /\ Run(env, u, r)[k] = [w |-> after1, violations |-> before1.violations
                  + (IF after1.sim[r].compliant THEN 0 ELSE 1)]
        /\ Run(env, v, q)[k] = [w |-> after2, violations |-> before2.violations
                  + (IF after2.sim[q].compliant THEN 0 ELSE 1)]
    BY <2>1 DEF RunStep
  <2>3. RunGood(env, u, r, k - 1) /\ RunGood(env, v, q, k - 1)
    BY <1>1, RunKeeps
  <2>4. /\ World(before1.w) /\ OwnGenerators(before1.w, r)
        /\ World(before2.w) /\ OwnGenerators(before2.w, q)
        /\ before1.w.sim[r].tick = u.sim[r].tick + (k - 1)
        /\ before2.w.sim[q].tick = v.sim[q].tick + (k - 1)
        /\ before1.w.sim[r].injector = u.sim[r].injector
        /\ before2.w.sim[q].injector = v.sim[q].injector
        /\ ~u.sim[r].injector => before1.w.sim[r].faulted = u.sim[r].faulted
    BY <2>3 DEF RunGood
  <2>5. Alike(before1.w, r, before2.w, q) /\ before1.violations = before2.violations
    BY <1>3 DEF RunsAgree
  <2> HIDE DEF before1, before2
  <2>6. Faulted(env, before1.w.sim[r]) = Faulted(env, before2.w.sim[q])
    <3>1. /\ before1.w.sim[r].tick = before2.w.sim[q].tick
          /\ before1.w.sim[r].faulted = before2.w.sim[q].faulted
      BY <2>5 DEF Alike, StateFields, SimFields
    <3>2. CASE u.sim[r].injector = v.sim[q].injector
      BY <2>4, <3>1, <3>2 DEF Faulted
    <3>3. CASE /\ ~u.sim[r].injector /\ v.sim[q].injector
               /\ \A n \in 0 .. Horizon - 1 :
                      u.sim[r].faulted = ((v.sim[q].tick + n) \in env.window)
      <4>1. k - 1 \in 0 .. Horizon - 1
        BY <1>1
      <4>2. u.sim[r].faulted = (before2.w.sim[q].tick \in env.window)
        BY <2>4, <3>3, <4>1
      <4>3. QED
        BY <2>4, <3>3, <4>2 DEF Faulted
    <3>4. QED
      BY <3>2, <3>3 DEF SameFaults
  <2>7. Alike(after1, r, after2, q)
    BY <2>4, <2>5, <2>6, StepAlike
  <2>8. after1.sim[r].compliant = after2.sim[q].compliant
    BY <2>7 DEF Alike, StateFields, SimFields
  <2> HIDE DEF after1, after2
  <2>9. QED
    BY <2>2, <2>5, <2>7, <2>8 DEF RunsAgree
<1>4. 0 .. Horizon \subseteq good
  <2>1. 0 \in good /\ \A k \in 1 .. Horizon : k - 1 \in good => k \in good
    BY <1>1, <1>2, <1>3
  <2> HIDE DEF good
  <2>2. QED
    BY <1>1, <2>1, UpTo
<1>5. QED
  BY <1>4

-----------------------------------------------------------------------------
\* Forks, and executing an action.

\* A simulator that draws from the generators of its role, and draws.
Own(u, r) ==
    /\ u.sim[r].arrival = <<r, "arrival">>
    /\ u.sim[r].service = <<r, "service">>

\* u and v agree on what belongs to the role r.
Same(u, v, r) ==
    /\ v.sim[r] = u.sim[r]
    /\ \A g \in Generator : g[1] = r => v.pos[g] = u.pos[g]

\* What is untouched is the same, and what is the same is alike.
LEMMA ApartIsSame ==
  ASSUME NEW u, NEW v, NEW q, Apart(u, v, q), NEW r \in Role, r # q
  PROVE  Same(u, v, r)
BY DEF Apart, Same

\* A simulator that is the same in two worlds is alike.
LEMMA SameIsAlike ==
  ASSUME NEW u, NEW v, NEW r \in Role, Same(u, v, r)
  PROVE  Alike(u, r, v, r)
<1>1. /\ <<r, "arrival">> \in Generator /\ <<r, "arrival">>[1] = r
      /\ <<r, "service">> \in Generator /\ <<r, "service">>[1] = r
  BY DEF Generator, Stream
<1>2. QED
  BY <1>1 DEF Same, Alike

\* Generators of one's own are those a run may draw from.
LEMMA OwnIsOwn ==
  ASSUME NEW u, NEW r, Own(u, r)
  PROVE  OwnGenerators(u, r)
BY DEF Own, OwnGenerators

\* A fork is a copy with generators of its own, and touches nothing else.
LEMMA ForkKeeps ==
  ASSUME NEW u, World(u), NEW from \in Role, NEW to \in Role, from # to, Own(u, from)
  PROVE  /\ World(Fork(u, from, to)) /\ Own(Fork(u, from, to), to)
         /\ Apart(u, Fork(u, from, to), to)
         /\ Alike(u, from, Fork(u, from, to), to)
         /\ Fork(u, from, to).sim[to].injector = u.sim[from].injector
<1> DEFINE v == Fork(u, from, to)
           s == u.sim[from]
<1>1. v.sim = [u.sim EXCEPT ![to] = Copied(s, to)] /\ DOMAIN v = {"sim", "pos"}
  BY DEF Fork
<1>2. v.pos = Cloned(u.pos, s, to)
  BY DEF Fork
<1>3. /\ v.sim[to] = Copied(s, to) /\ DOMAIN v.sim = Role
      /\ \A q \in Role : q # to => v.sim[q] = u.sim[q]
  BY <1>1 DEF World
<1>4. /\ <<to, "arrival">> \in Generator /\ <<to, "service">> \in Generator
      /\ <<from, "arrival">> \in Generator /\ <<from, "service">> \in Generator
      /\ <<to, "service">> # <<to, "arrival">>
      /\ <<to, "service">> # Mean /\ <<from, "service">> # Mean
  BY DEF Generator, Stream, Mean, Role
<1>5. s.arrival = <<from, "arrival">> /\ s.service = <<from, "service">>
  BY DEF Own
<1>6. u.pos \in [Generator -> Nat] /\ DOMAIN s = SimFields /\ s.tick \in Nat
  BY DEF World
<1> HIDE DEF s
<1>7. /\ v.pos \in [Generator -> Nat]
      /\ v.pos[<<to, "arrival">>] = u.pos[<<from, "arrival">>]
      /\ v.pos[<<to, "service">>] = u.pos[<<from, "service">>]
      /\ \A g \in Generator : g[1] # to => v.pos[g] = u.pos[g]
  BY <1>2, <1>4, <1>5, <1>6 DEF Cloned
<1>8. /\ DOMAIN v.sim[to] = SimFields /\ v.sim[to].tick = s.tick
      /\ v.sim[to].arrival = <<to, "arrival">> /\ v.sim[to].service = <<to, "service">>
      /\ v.sim[to].injector = s.injector
      /\ \A field \in StateFields : v.sim[to][field] = s[field]
  BY <1>3, <1>6 DEF Copied, SimFields, StateFields
<1> HIDE DEF v
<1>9. World(v)
  BY <1>1, <1>3, <1>6, <1>7, <1>8 DEF World
<1>10. Own(v, to) /\ Apart(u, v, to)
  BY <1>3, <1>7, <1>8 DEF Own, Apart
<1>11. Alike(u, from, v, to)
  BY <1>4, <1>5, <1>7, <1>8 DEF Alike, s
<1>12. QED
  BY <1>8, <1>9, <1>10, <1>11 DEF v, s

\* Executing an action touches one simulator, and none of its generators.
LEMMA ExecuteKeeps ==
  ASSUME NEW u, World(u), NEW r \in Role, NEW a \in Action
  PROVE  /\ World(Execute(u, r, a)) /\ Apart(u, Execute(u, r, a), r)
         /\ Execute(u, r, a).sim[r].arrival = u.sim[r].arrival
         /\ Execute(u, r, a).sim[r].service = u.sim[r].service
         /\ Execute(u, r, a).sim[r].injector = u.sim[r].injector
         /\ Execute(u, r, a).sim[r].surplus = u.sim[r].surplus
         /\ Execute(u, r, a).sim[r].tick = u.sim[r].tick
         /\ Execute(u, r, a).sim[r].faulted = u.sim[r].faulted
         /\ Execute(u, r, a).pos = u.pos
<1> DEFINE v == Execute(u, r, a)
<1>1. \/ v = u
      \/ v = [u EXCEPT !.sim[r].replicas = @ + 1]
      \/ v = [u EXCEPT !.sim[r].down = Downtime, !.sim[r].queue = 0]
  BY DEF Execute, Action, Remedy, NoOp
<1> HIDE DEF v
<1>2. /\ DOMAIN v = {"sim", "pos"} /\ DOMAIN v.sim = Role /\ v.pos = u.pos
      /\ \A q \in Role : q # r => v.sim[q] = u.sim[q]
  BY <1>1 DEF World
<1>3. /\ DOMAIN v.sim[r] = SimFields
      /\ v.sim[r].arrival = u.sim[r].arrival /\ v.sim[r].service = u.sim[r].service
      /\ v.sim[r].injector = u.sim[r].injector /\ v.sim[r].tick = u.sim[r].tick
      /\ v.sim[r].surplus = u.sim[r].surplus
      /\ v.sim[r].faulted = u.sim[r].faulted
  <2>1. \/ v.sim[r] = u.sim[r]
        \/ v.sim[r] = [u.sim[r] EXCEPT !.replicas = u.sim[r].replicas + 1]
        \/ v.sim[r] = [u.sim[r] EXCEPT !.down = Downtime, !.queue = 0]
    <3>1. CASE v = u
      BY <3>1
    <3>2. CASE v = [u EXCEPT !.sim[r].replicas = @ + 1]
      BY <3>2 DEF World
    <3>3. CASE v = [u EXCEPT !.sim[r].down = Downtime, !.sim[r].queue = 0]
      BY <3>3 DEF World
    <3>4. QED
      BY <1>1, <3>1, <3>2, <3>3
  <2>2. DOMAIN u.sim[r] = SimFields
    BY DEF World
  <2>3. CASE v.sim[r] = u.sim[r]
    BY <2>2, <2>3
  <2>4. CASE v.sim[r] = [u.sim[r] EXCEPT !.replicas = u.sim[r].replicas + 1]
    BY <2>2, <2>4 DEF SimFields
  <2>5. CASE v.sim[r] = [u.sim[r] EXCEPT !.down = Downtime, !.queue = 0]
    <3>1. \A field \in SimFields : v.sim[r][field] =
              IF field = "down" THEN Downtime ELSE IF field = "queue" THEN 0
              ELSE u.sim[r][field]
      BY <2>2, <2>5
    <3>2. DOMAIN v.sim[r] = SimFields
      BY <2>2, <2>5
    <3>3. QED
      BY <3>1, <3>2 DEF SimFields
  <2>6. QED
    BY <2>1, <2>3, <2>4, <2>5
<1>4. World(v) /\ Apart(u, v, r)
  BY <1>2, <1>3 DEF World, Apart
<1>5. QED
  BY <1>2, <1>3, <1>4 DEF v

\* Simulators that are alike stay alike when both execute an action.
LEMMA ExecuteAlike ==
  ASSUME NEW u, World(u), NEW r \in Role, NEW v, World(v), NEW q \in Role,
         Alike(u, r, v, q), NEW a \in Action
  PROVE  Alike(Execute(u, r, a), r, Execute(v, q, a), q)
<1>1. /\ u.sim[r].down = v.sim[q].down /\ u.sim[r].replicas = v.sim[q].replicas
      /\ u.sim[r].queue = v.sim[q].queue
  BY DEF Alike, StateFields, SimFields
<1>2. Semantic(a, u.sim[r]) <=> Semantic(a, v.sim[q])
  BY <1>1 DEF Semantic
<1> DEFINE x == Execute(u, r, a)
           y == Execute(v, q, a)
<1>3. \/ x = u /\ y = v
      \/ /\ x = [u EXCEPT !.sim[r].replicas = @ + 1]
         /\ y = [v EXCEPT !.sim[q].replicas = @ + 1]
      \/ /\ x = [u EXCEPT !.sim[r].down = Downtime, !.sim[r].queue = 0]
         /\ y = [v EXCEPT !.sim[q].down = Downtime, !.sim[q].queue = 0]
  BY <1>2 DEF Execute, Action, Remedy, NoOp
<1>4. /\ x.pos = u.pos /\ x.sim[r].service = u.sim[r].service
      /\ y.pos = v.pos /\ y.sim[q].service = v.sim[q].service
  BY ExecuteKeeps
<1> HIDE DEF x, y
<1>5. \A field \in StateFields : x.sim[r][field] = y.sim[q][field]
  <2>1. CASE x = u /\ y = v
    BY <2>1 DEF Alike
  <2>2. CASE /\ x = [u EXCEPT !.sim[r].replicas = @ + 1]
             /\ y = [v EXCEPT !.sim[q].replicas = @ + 1]
    <3>1. /\ x.sim[r] = [u.sim[r] EXCEPT !.replicas = u.sim[r].replicas + 1]
          /\ y.sim[q] = [v.sim[q] EXCEPT !.replicas = v.sim[q].replicas + 1]
      BY <2>2 DEF World
    <3>2. DOMAIN u.sim[r] = SimFields /\ DOMAIN v.sim[q] = SimFields
      BY DEF World
    <3>3. QED
      BY <1>1, <3>1, <3>2 DEF Alike, StateFields, SimFields
  <2>3. CASE /\ x = [u EXCEPT !.sim[r].down = Downtime, !.sim[r].queue = 0]
             /\ y = [v EXCEPT !.sim[q].down = Downtime, !.sim[q].queue = 0]
    <3>1. /\ x.sim[r] = [u.sim[r] EXCEPT !.down = Downtime, !.queue = 0]
          /\ y.sim[q] = [v.sim[q] EXCEPT !.down = Downtime, !.queue = 0]
      BY <2>3 DEF World
    <3>2. DOMAIN u.sim[r] = SimFields /\ DOMAIN v.sim[q] = SimFields
      BY DEF World
    <3>3. \A field \in SimFields : x.sim[r][field] =
              IF field = "down" THEN Downtime ELSE IF field = "queue" THEN 0
              ELSE u.sim[r][field]
      BY <3>1, <3>2
    <3>4. \A field \in SimFields : y.sim[q][field] =
              IF field = "down" THEN Downtime ELSE IF field = "queue" THEN 0
              ELSE v.sim[q][field]
      BY <3>1, <3>2
    <3>5. StateFields \subseteq SimFields
      BY DEF StateFields
    <3>6. QED
      BY <3>3, <3>4, <3>5 DEF Alike
  <2>4. QED
    BY <1>3, <2>1, <2>2, <2>3
<1>6. QED
  BY <1>4, <1>5 DEF Alike, x, y

-----------------------------------------------------------------------------
\* How a rollout begins.

\* The branch a rollout starts from.
Cut(forked, blind) ==
    IF blind THEN [forked EXCEPT !.sim["branch"].injector = FALSE] ELSE forked
Begin(env, u, from, a, blind) ==
    Execute(Prepare(env, Cut(Fork(u, from, "branch"), blind), blind), "branch", a)

\* A rollout is a run of the branch it begins with.
LEMMA RolloutRuns ==
  ASSUME NEW env, NEW u, NEW from, NEW a, NEW blind
  PROVE  Rollout(env, u, from, a, blind)
             = Run(env, Begin(env, u, from, a, blind), "branch")[Horizon]
<1>1. Rollout(env, u, from, a, blind) = Ahead(env, Begin(env, u, from, a, blind))
  BY DEF Rollout, Begin, Cut
<1>2. QED
  BY <1>1, AheadIsRun

\* Taking the fault schedule or the drawn work from the branch changes nothing else.
BranchOnly(f, c) ==
    /\ World(c) /\ c.pos = f.pos
    /\ \A q \in Role : q # "branch" => c.sim[q] = f.sim[q]
    /\ \A field \in StateFields : c.sim["branch"][field] = f.sim["branch"][field]
    /\ c.sim["branch"].arrival = f.sim["branch"].arrival

\* Cutting takes the fault schedule from the branch of a blind rollout, and
\* changes nothing else of it.
LEMMA CutKeeps ==
  ASSUME NEW f, World(f), NEW blind \in BOOLEAN
  PROVE  /\ BranchOnly(f, Cut(f, blind))
         /\ Cut(f, blind).sim["branch"].service = f.sim["branch"].service
         /\ Cut(f, blind).sim["branch"].injector
                = (IF blind THEN FALSE ELSE f.sim["branch"].injector)
<1> DEFINE c == Cut(f, blind)
<1>1. CASE ~blind
  BY <1>1 DEF Cut, BranchOnly
<1>2. CASE blind
  <2>1. c = [f EXCEPT !.sim["branch"].injector = FALSE] /\ "branch" \in Role
    BY <1>2 DEF Cut, Role
  <2>2. /\ DOMAIN c = {"sim", "pos"} /\ DOMAIN c.sim = Role /\ c.pos = f.pos
        /\ \A q \in Role : q # "branch" => c.sim[q] = f.sim[q]
        /\ c.sim["branch"] = [f.sim["branch"] EXCEPT !.injector = FALSE]
    BY <2>1 DEF World
  <2>3. DOMAIN f.sim["branch"] = SimFields
    BY <2>1 DEF World
  <2> HIDE DEF c
  <2>4. /\ DOMAIN c.sim["branch"] = SimFields
        /\ c.sim["branch"].injector = FALSE
        /\ \A field \in StateFields : c.sim["branch"][field] = f.sim["branch"][field]
        /\ c.sim["branch"].tick = f.sim["branch"].tick
        /\ c.sim["branch"].arrival = f.sim["branch"].arrival
        /\ c.sim["branch"].service = f.sim["branch"].service
    BY <2>2, <2>3 DEF SimFields, StateFields
  <2>5. World(c)
    BY <2>2, <2>4 DEF World
  <2>6. QED
    BY <1>2, <2>2, <2>4, <2>5 DEF BranchOnly, c
<1>3. QED
  BY <1>1, <1>2

\* Preparing keeps the branch within its own generators, and gives it the mean
\* service rate only where the rollout is blind and the twin is simplified.
Prepared(env, f, blind, c) ==
    /\ BranchOnly(f, c) /\ c.sim["branch"].injector = f.sim["branch"].injector
    /\ c.sim["branch"].service
           = (IF blind /\ env.simplify THEN Mean ELSE f.sim["branch"].service)

\* A fork of a sound world, handed to Prepare, comes back Prepared.
LEMMA PrepareKeeps ==
  ASSUME NEW env, NEW f, World(f), NEW blind \in BOOLEAN
  PROVE  Prepared(env, f, blind, Prepare(env, f, blind))
<1> DEFINE c == Prepare(env, f, blind)
<1>1. CASE ~(blind /\ env.simplify)
  BY <1>1 DEF Prepare, Prepared, BranchOnly
<1>2. CASE blind /\ env.simplify
  <2>1. c = [f EXCEPT !.sim["branch"].service = Mean] /\ "branch" \in Role
    BY <1>2 DEF Prepare, Role
  <2>2. /\ DOMAIN c = {"sim", "pos"} /\ DOMAIN c.sim = Role /\ c.pos = f.pos
        /\ \A q \in Role : q # "branch" => c.sim[q] = f.sim[q]
        /\ c.sim["branch"] = [f.sim["branch"] EXCEPT !.service = Mean]
    BY <2>1 DEF World
  <2>3. DOMAIN f.sim["branch"] = SimFields
    BY <2>1 DEF World
  <2> HIDE DEF c
  <2>4. /\ DOMAIN c.sim["branch"] = SimFields
        /\ c.sim["branch"].injector = f.sim["branch"].injector
        /\ \A field \in StateFields : c.sim["branch"][field] = f.sim["branch"][field]
        /\ c.sim["branch"].tick = f.sim["branch"].tick
        /\ c.sim["branch"].arrival = f.sim["branch"].arrival
        /\ c.sim["branch"].service = Mean
    BY <2>2, <2>3 DEF SimFields, StateFields
  <2>5. World(c)
    BY <2>2, <2>4 DEF World
  <2>6. QED
    BY <1>2, <2>2, <2>4, <2>5 DEF BranchOnly, Prepared, c
<1>3. QED
  BY <1>1, <1>2

\* It is alike what it was forked from, but that a blind one has lost the fault
\* schedule, and draws no work where the twin simplifies.
BranchOf(u, from, blind, v) ==
    /\ World(v) /\ OwnGenerators(v, "branch") /\ Apart(u, v, "branch")
    /\ v.sim["branch"].injector = (IF blind THEN FALSE ELSE u.sim[from].injector)
    /\ v.sim["branch"].faulted = u.sim[from].faulted
    /\ v.sim["branch"].tick = u.sim[from].tick

\* What a rollout begins with is a branch of the simulator it is taken from.
LEMMA BeginKeeps ==
  ASSUME NEW env, NEW u, World(u), NEW from \in Role \ {"branch"}, Own(u, from),
         NEW a \in Action, NEW blind \in BOOLEAN
  PROVE  BranchOf(u, from, blind, Begin(env, u, from, a, blind))
<1> DEFINE f == Fork(u, from, "branch")
           c == Cut(f, blind)
           p == Prepare(env, c, blind)
           v == Execute(p, "branch", a)
<1>1. /\ World(f) /\ Own(f, "branch") /\ Apart(u, f, "branch")
      /\ Alike(u, from, f, "branch") /\ f.sim["branch"].injector = u.sim[from].injector
      /\ "branch" \in Role
  BY ForkKeeps DEF Role
<1>2. f.sim["branch"].faulted = u.sim[from].faulted /\ f.sim["branch"].tick = u.sim[from].tick
  BY <1>1 DEF Alike, StateFields, SimFields
<1> HIDE DEF f
<1>3. /\ BranchOnly(f, c) /\ c.sim["branch"].service = f.sim["branch"].service
      /\ c.sim["branch"].injector = (IF blind THEN FALSE ELSE f.sim["branch"].injector)
  BY <1>1, CutKeeps
<1> HIDE DEF c
<1>4. /\ BranchOnly(c, p) /\ p.sim["branch"].injector = c.sim["branch"].injector
      /\ p.sim["branch"].service
             = (IF blind /\ env.simplify THEN Mean ELSE c.sim["branch"].service)
  <2>1. World(c)
    BY <1>3 DEF BranchOnly
  <2>2. Prepared(env, c, blind, p)
    BY <2>1, PrepareKeeps
  <2> HIDE DEF p
  <2>3. QED
    BY <2>2 DEF Prepared
<1> HIDE DEF p
<1>5. OwnGenerators(p, "branch")
  BY <1>1, <1>3, <1>4 DEF BranchOnly, Own, OwnGenerators
<1>6. /\ World(v) /\ Apart(p, v, "branch")
      /\ v.sim["branch"].arrival = p.sim["branch"].arrival
      /\ v.sim["branch"].service = p.sim["branch"].service
      /\ v.sim["branch"].injector = p.sim["branch"].injector
      /\ v.sim["branch"].faulted = p.sim["branch"].faulted
      /\ v.sim["branch"].tick = p.sim["branch"].tick
  BY <1>1, <1>4, ExecuteKeeps DEF BranchOnly
<1> HIDE DEF v
<1>7. OwnGenerators(v, "branch")
  BY <1>5, <1>6 DEF OwnGenerators
<1>8. Apart(u, v, "branch")
  BY <1>1, <1>3, <1>4, <1>6 DEF BranchOnly, Apart
<1>9. /\ p.sim["branch"].faulted = f.sim["branch"].faulted
      /\ p.sim["branch"].tick = f.sim["branch"].tick
  BY <1>3, <1>4 DEF BranchOnly, StateFields, SimFields
<1>10. Begin(env, u, from, a, blind) = v
  BY DEF Begin, f, c, p, v
<1>11. QED
  BY <1>1, <1>2, <1>3, <1>4, <1>6, <1>7, <1>8, <1>9, <1>10 DEF BranchOf

\* What two blind or two scheduled rollouts start from is alike when what they
\* were forked from is.  A twin that does not simplify makes no difference.
LEMMA BeginAlike ==
  ASSUME NEW env,
         NEW u, World(u), NEW from \in Role \ {"branch"}, Own(u, from),
         NEW v, World(v), NEW q \in Role \ {"branch"}, Own(v, q),
         Alike(u, from, v, q), NEW a \in Action,
         NEW blind \in BOOLEAN, NEW dark \in BOOLEAN, blind = dark \/ ~env.simplify
  PROVE  Alike(Begin(env, u, from, a, blind), "branch", Begin(env, v, q, a, dark), "branch")
<1> DEFINE f1 == Fork(u, from, "branch")
           f2 == Fork(v, q, "branch")
           c1 == Cut(f1, blind)
           c2 == Cut(f2, dark)
           p1 == Prepare(env, c1, blind)
           p2 == Prepare(env, c2, dark)
<1>1. /\ World(f1) /\ Own(f1, "branch") /\ Alike(u, from, f1, "branch")
      /\ World(f2) /\ Own(f2, "branch") /\ Alike(v, q, f2, "branch") /\ "branch" \in Role
  BY ForkKeeps DEF Role
<1>2. Alike(f1, "branch", f2, "branch")
  BY <1>1 DEF Alike
<1> HIDE DEF f1, f2
<1>3. /\ BranchOnly(f1, c1) /\ c1.sim["branch"].service = f1.sim["branch"].service
      /\ BranchOnly(f2, c2) /\ c2.sim["branch"].service = f2.sim["branch"].service
  BY <1>1, CutKeeps
<1> HIDE DEF c1, c2
<1>4. /\ BranchOnly(c1, p1) /\ BranchOnly(c2, p2)
      /\ p1.sim["branch"].service
             = (IF blind /\ env.simplify THEN Mean ELSE c1.sim["branch"].service)
      /\ p2.sim["branch"].service
             = (IF dark /\ env.simplify THEN Mean ELSE c2.sim["branch"].service)
  <2>1. World(c1) /\ World(c2)
    BY <1>3 DEF BranchOnly
  <2>2. Prepared(env, c1, blind, p1)
    BY <2>1, PrepareKeeps
  <2>3. Prepared(env, c2, dark, p2)
    BY <2>1, PrepareKeeps
  <2> HIDE DEF p1, p2
  <2>4. QED
    BY <2>2, <2>3 DEF Prepared
<1> HIDE DEF p1, p2
<1>5. World(p1) /\ World(p2) /\ Alike(p1, "branch", p2, "branch")
  <2>1. World(p1) /\ World(p2)
    BY <1>4 DEF BranchOnly
  <2>2. \A field \in StateFields : p1.sim["branch"][field] = p2.sim["branch"][field]
    <3>1. \A field \in StateFields : p1.sim["branch"][field] = f1.sim["branch"][field]
      BY <1>3, <1>4 DEF BranchOnly
    <3>2. \A field \in StateFields : p2.sim["branch"][field] = f2.sim["branch"][field]
      BY <1>3, <1>4 DEF BranchOnly
    <3>3. QED
      BY <1>2, <3>1, <3>2 DEF Alike
  <2>3. p1.pos = f1.pos /\ p2.pos = f2.pos
    BY <1>3, <1>4 DEF BranchOnly
  <2>4. p1.sim["branch"].service = Mean <=> p2.sim["branch"].service = Mean
    BY <1>2, <1>3, <1>4 DEF Alike
  <2>5. QED
    BY <1>2, <2>1, <2>2, <2>3, <2>4 DEF Alike
<1>6. Alike(Execute(p1, "branch", a), "branch", Execute(p2, "branch", a), "branch")
  BY <1>1, <1>5, ExecuteAlike
<1>7. QED
  BY <1>6 DEF Begin, p1, p2, c1, c2, f1, f2

-----------------------------------------------------------------------------
\* Rollouts, and the twin.

\* A rollout disturbs nothing but the branch.
LEMMA RolloutKeeps ==
  ASSUME NEW env, NEW u, World(u), NEW from \in Role \ {"branch"}, Own(u, from),
         NEW a \in Action, NEW blind \in BOOLEAN
  PROVE  /\ World(Rollout(env, u, from, a, blind).w)
         /\ Apart(u, Rollout(env, u, from, a, blind).w, "branch")
         /\ Rollout(env, u, from, a, blind).violations \in Nat
<1> DEFINE v == Begin(env, u, from, a, blind)
           now == Run(env, v, "branch")[Horizon]
<1>1. World(v) /\ OwnGenerators(v, "branch") /\ Apart(u, v, "branch")
  BY BeginKeeps DEF BranchOf
<1> HIDE DEF v
<1>2. Horizon \in 0 .. Horizon /\ "branch" \in Role
  BY ForkAssumption DEF Role
<1>3. RunGood(env, v, "branch", Horizon)
  BY <1>1, <1>2, RunKeeps
<1>4. World(now.w) /\ Apart(v, now.w, "branch") /\ now.violations \in Nat
  BY <1>3 DEF RunGood
<1> HIDE DEF now
<1>5. Apart(u, now.w, "branch")
  BY <1>1, <1>4 DEF Apart
<1>6. QED
  BY <1>4, <1>5, RolloutRuns DEF now, v

\* The window of faults opens and closes outside the horizon of a simulator.
FaultsLast(env, u, r) ==
    /\ u.sim[r].injector
    /\ \A n \in 0 .. Horizon - 1 : u.sim[r].faulted = ((u.sim[r].tick + n) \in env.window)

\* Two blind rollouts, two that know the schedule, or one of each where the
\* schedule and the simplification have nothing to tell.
Comparable(env, u, from, blind, v, q, dark) ==
    \/ blind /\ dark
    \/ ~blind /\ ~dark /\ u.sim[from].injector = v.sim[q].injector
    \/ blind /\ ~dark /\ ~env.simplify /\ FaultsLast(env, v, q)

\* Rollouts from simulators that are alike predict the same, if they are
\* comparable.
LEMMA RolloutAlike ==
  ASSUME NEW env,
         NEW u, World(u), NEW from \in Role \ {"branch"}, Own(u, from),
         NEW v, World(v), NEW q \in Role \ {"branch"}, Own(v, q),
         Alike(u, from, v, q), NEW a \in Action,
         NEW blind \in BOOLEAN, NEW dark \in BOOLEAN,
         Comparable(env, u, from, blind, v, q, dark)
  PROVE  Rollout(env, u, from, a, blind).violations = Rollout(env, v, q, a, dark).violations
<1> DEFINE b == Begin(env, u, from, a, blind)
           d == Begin(env, v, q, a, dark)
<1>1. /\ World(b) /\ OwnGenerators(b, "branch")
      /\ b.sim["branch"].injector = (IF blind THEN FALSE ELSE u.sim[from].injector)
      /\ b.sim["branch"].faulted = u.sim[from].faulted
      /\ b.sim["branch"].tick = u.sim[from].tick
  <2>1. BranchOf(u, from, blind, b)
    BY BeginKeeps
  <2> HIDE DEF b
  <2>2. QED
    BY <2>1 DEF BranchOf
<1>2. /\ World(d) /\ OwnGenerators(d, "branch")
      /\ d.sim["branch"].injector = (IF dark THEN FALSE ELSE v.sim[q].injector)
      /\ d.sim["branch"].faulted = v.sim[q].faulted
      /\ d.sim["branch"].tick = v.sim[q].tick
  <2>1. BranchOf(v, q, dark, d)
    BY BeginKeeps
  <2> HIDE DEF d
  <2>2. QED
    BY <2>1 DEF BranchOf
<1>3. Alike(b, "branch", d, "branch")
  <2>1. blind = dark \/ ~env.simplify
    BY DEF Comparable
  <2>2. QED
    BY <2>1, BeginAlike
<1>4. u.sim[from].faulted = v.sim[q].faulted
  BY DEF Alike, StateFields, SimFields
<1> HIDE DEF b, d
<1>5. SameFaults(env, b, "branch", d, "branch")
  <2>1. CASE \/ blind /\ dark
             \/ ~blind /\ ~dark /\ u.sim[from].injector = v.sim[q].injector
    BY <1>1, <1>2, <2>1 DEF SameFaults
  <2>2. CASE blind /\ ~dark /\ ~env.simplify /\ FaultsLast(env, v, q)
    BY <1>1, <1>2, <1>4, <2>2 DEF SameFaults, FaultsLast
  <2>3. QED
    BY <2>1, <2>2 DEF Comparable
<1>6. Horizon \in 0 .. Horizon /\ "branch" \in Role
  BY ForkAssumption DEF Role
<1>7. RunsAgree(env, b, "branch", d, "branch", Horizon)
  BY <1>1, <1>2, <1>3, <1>5, <1>6, RunAlike
<1>8. QED
  BY <1>7, RolloutRuns DEF RunsAgree, b, d

\* The two kinds of rollout.
Blind(env, u, from, a) == Rollout(env, u, from, a, TRUE)
Told(env, u, from, a) == Rollout(env, u, from, a, FALSE)

\* A rollout of either kind touches the branch only.
LEMMA KindsKeep ==
  ASSUME NEW env, NEW u, World(u), NEW from \in Role \ {"branch"}, Own(u, from), NEW a \in Action
  PROVE  /\ World(Blind(env, u, from, a).w) /\ World(Told(env, u, from, a).w)
         /\ Apart(u, Blind(env, u, from, a).w, "branch")
         /\ Apart(u, Told(env, u, from, a).w, "branch")
         /\ Blind(env, u, from, a).violations \in Nat
         /\ Told(env, u, from, a).violations \in Nat
<1> DEFINE yes == TRUE
           no == FALSE
<1>1. yes \in BOOLEAN /\ no \in BOOLEAN
  OBVIOUS
<1>2. Blind(env, u, from, a) = Rollout(env, u, from, a, yes)
  BY Zenon DEF Blind
<1>3. Told(env, u, from, a) = Rollout(env, u, from, a, no)
  BY Zenon DEF Told
<1> HIDE DEF yes, no
<1>4. QED
  BY <1>1, <1>2, <1>3, RolloutKeeps

\* Blind rollouts from simulators that are alike count the same violations.
LEMMA BlindAlike ==
  ASSUME NEW env,
         NEW u, World(u), NEW from \in Role \ {"branch"}, Own(u, from),
         NEW v, World(v), NEW q \in Role \ {"branch"}, Own(v, q),
         Alike(u, from, v, q), NEW a \in Action
  PROVE  Blind(env, u, from, a).violations = Blind(env, v, q, a).violations
<1> DEFINE yes == TRUE
<1>1. /\ Blind(env, u, from, a) = Rollout(env, u, from, a, yes)
      /\ Blind(env, v, q, a) = Rollout(env, v, q, a, yes)
  BY Zenon DEF Blind
<1>2. Comparable(env, u, from, yes, v, q, yes)
  BY DEF Comparable
<1>3. yes \in BOOLEAN
  OBVIOUS
<1> HIDE DEF yes
<1>4. Rollout(env, u, from, a, yes).violations = Rollout(env, v, q, a, yes).violations
  BY <1>2, <1>3, RolloutAlike
<1>5. QED
  BY <1>1, <1>4

\* So do rollouts that keep the fault schedule.
LEMMA ToldAlike ==
  ASSUME NEW env,
         NEW u, World(u), NEW from \in Role \ {"branch"}, Own(u, from),
         NEW v, World(v), NEW q \in Role \ {"branch"}, Own(v, q),
         Alike(u, from, v, q), NEW a \in Action,
         u.sim[from].injector = v.sim[q].injector
  PROVE  Told(env, u, from, a).violations = Told(env, v, q, a).violations
<1> DEFINE no == FALSE
<1>1. /\ Told(env, u, from, a) = Rollout(env, u, from, a, no)
      /\ Told(env, v, q, a) = Rollout(env, v, q, a, no)
  BY Zenon DEF Told
<1>2. Comparable(env, u, from, no, v, q, no)
  BY DEF Comparable
<1>3. no \in BOOLEAN
  OBVIOUS
<1> HIDE DEF no
<1>4. Rollout(env, u, from, a, no).violations = Rollout(env, v, q, a, no).violations
  BY <1>2, <1>3, RolloutAlike
<1>5. QED
  BY <1>1, <1>4

\* Where the twin is exact, the blind rollout counts what the other one counts:
\* the faults of the moment last through the horizon.
LEMMA BlindAsTold ==
  ASSUME NEW env,
         NEW u, World(u), NEW from \in Role \ {"branch"}, Own(u, from),
         NEW v, World(v), NEW q \in Role \ {"branch"}, Own(v, q),
         Alike(u, from, v, q), NEW a \in Action,
         ~env.simplify, FaultsLast(env, v, q)
  PROVE  Blind(env, u, from, a).violations = Told(env, v, q, a).violations
<1> DEFINE yes == TRUE
           no == FALSE
<1>1. /\ Blind(env, u, from, a) = Rollout(env, u, from, a, yes)
      /\ Told(env, v, q, a) = Rollout(env, v, q, a, no)
  BY Zenon DEF Blind, Told
<1>2. Comparable(env, u, from, yes, v, q, no)
  BY DEF Comparable
<1>3. yes \in BOOLEAN /\ no \in BOOLEAN
  OBVIOUS
<1> HIDE DEF yes, no
<1>4. Rollout(env, u, from, a, yes).violations = Rollout(env, v, q, a, no).violations
  BY <1>2, <1>3, RolloutAlike
<1>5. QED
  BY <1>1, <1>4

\* A rollout that knows the schedule predicts what a simulator alike the one it
\* was forked from does, once that has executed the action.
LEMMA RolloutForetells ==
  ASSUME NEW env,
         NEW u, World(u), NEW from \in Role \ {"branch"}, Own(u, from),
         NEW v, World(v), NEW q \in Role, Own(v, q),
         Alike(u, from, v, q), u.sim[from].injector = v.sim[q].injector, NEW a \in Action
  PROVE  Told(env, u, from, a).violations = Run(env, Execute(v, q, a), q)[Horizon].violations
<1> DEFINE f == Fork(u, from, "branch")
           b == Begin(env, u, from, a, FALSE)
           d == Execute(v, q, a)
<1>1. /\ World(b) /\ OwnGenerators(b, "branch")
      /\ b.sim["branch"].injector = u.sim[from].injector
  <2>1. BranchOf(u, from, FALSE, b)
    BY BeginKeeps
  <2>2. QED
    BY <2>1 DEF BranchOf
<1>2. b = Execute(f, "branch", a)
  BY DEF Begin, Cut, Prepare
<1>3. /\ World(f) /\ Alike(u, from, f, "branch") /\ "branch" \in Role
  BY ForkKeeps DEF Role
<1>4. Alike(f, "branch", v, q)
  BY <1>3 DEF Alike
<1>5. /\ World(d) /\ d.sim[q].injector = v.sim[q].injector
      /\ d.sim[q].arrival = v.sim[q].arrival /\ d.sim[q].service = v.sim[q].service
  BY ExecuteKeeps
<1> HIDE DEF f, b, d
<1>6. Alike(b, "branch", d, q)
  BY <1>2, <1>3, <1>4, ExecuteAlike DEF d
<1>7. OwnGenerators(d, q) /\ SameFaults(env, b, "branch", d, q)
  BY <1>1, <1>5 DEF Own, OwnGenerators, SameFaults
<1>8. Horizon \in 0 .. Horizon
  BY ForkAssumption
<1>9. RunsAgree(env, b, "branch", d, q, Horizon)
  BY <1>1, <1>3, <1>5, <1>6, <1>7, <1>8, RunAlike
<1>10. QED
  <2>1. Told(env, u, from, a) = Run(env, b, "branch")[Horizon]
    BY RolloutRuns, Zenon DEF Told, b
  <2>2. QED
    BY <1>9, <2>1 DEF RunsAgree, d

\* The twin is a fork of the live simulator that has lost the fault schedule and
\* is off by the error of the tick.
LEMMA TwinKeeps ==
  ASSUME NEW env, NEW u, World(u), Own(u, "live")
  PROVE  /\ World(Twin(env, u)) /\ Own(Twin(env, u), "twin")
         /\ Apart(u, Twin(env, u), "twin")
         /\ Twin(env, u).pos = Fork(u, "live", "twin").pos
         /\ Twin(env, u).sim["twin"] = [Fork(u, "live", "twin").sim["twin"] EXCEPT
                !.injector = FALSE, !.surplus = env.error[u.sim["live"].tick]]
<1> DEFINE f == Fork(u, "live", "twin")
           t == Twin(env, u)
           e == env.error[u.sim["live"].tick]
<1>1. /\ "live" \in Role /\ "twin" \in Role
      /\ World(f) /\ Own(f, "twin") /\ Apart(u, f, "twin")
  BY ForkKeeps DEF Role
<1>2. t = [[f EXCEPT !.sim["twin"].injector = FALSE] EXCEPT !.sim["twin"].surplus = e]
  BY DEF Twin, apply_fidelity
<1> HIDE DEF f, e, t
<1>3. DOMAIN f.sim["twin"] = SimFields /\ f.sim["twin"].tick \in Nat
  BY <1>1 DEF World
<1>4. /\ DOMAIN t = {"sim", "pos"} /\ DOMAIN t.sim = Role /\ t.pos = f.pos
      /\ \A q \in Role : q # "twin" => t.sim[q] = f.sim[q]
      /\ t.sim["twin"] = [f.sim["twin"] EXCEPT !.injector = FALSE, !.surplus = e]
  <2> DEFINE cut == [f EXCEPT !.sim["twin"].injector = FALSE]
  <2>1. /\ DOMAIN cut = {"sim", "pos"} /\ DOMAIN cut.sim = Role /\ cut.pos = f.pos
        /\ \A q \in Role : q # "twin" => cut.sim[q] = f.sim[q]
        /\ cut.sim["twin"] = [f.sim["twin"] EXCEPT !.injector = FALSE]
    BY <1>1 DEF World
  <2>2. t = [cut EXCEPT !.sim["twin"].surplus = e]
    BY <1>2
  <2> HIDE DEF cut
  <2>3. /\ DOMAIN t = {"sim", "pos"} /\ DOMAIN t.sim = Role /\ t.pos = f.pos
        /\ \A q \in Role : q # "twin" => t.sim[q] = f.sim[q]
        /\ t.sim["twin"] = [cut.sim["twin"] EXCEPT !.surplus = e]
    BY <1>1, <2>1, <2>2
  <2>4. [cut.sim["twin"] EXCEPT !.surplus = e]
          = [f.sim["twin"] EXCEPT !.injector = FALSE, !.surplus = e]
    BY <2>1
  <2>5. QED
    BY <2>3, <2>4
<1>5. /\ DOMAIN t.sim["twin"] = SimFields /\ t.sim["twin"].tick = f.sim["twin"].tick
      /\ t.sim["twin"].arrival = f.sim["twin"].arrival
      /\ t.sim["twin"].service = f.sim["twin"].service
  BY <1>3, <1>4 DEF SimFields
<1>6. World(t) /\ Own(t, "twin") /\ Apart(u, t, "twin")
  <2>1. World(t)
    BY <1>1, <1>4, <1>5 DEF World
  <2>2. Own(t, "twin")
    BY <1>1, <1>5 DEF Own
  <2>3. Apart(u, t, "twin")
    BY <1>1, <1>4 DEF Apart
  <2>4. QED
    BY <2>1, <2>2, <2>3
<1>7. QED
  BY <1>4, <1>6 DEF f, e, t

\* Twins of the same live simulator are alike.
LEMMA TwinSame ==
  ASSUME NEW env, NEW u, World(u), Own(u, "live"), NEW v, World(v), Own(v, "live"),
         Same(u, v, "live")
  PROVE  Alike(Twin(env, u), "twin", Twin(env, v), "twin")
<1> DEFINE f == Fork(u, "live", "twin")
           g == Fork(v, "live", "twin")
<1>1. /\ "live" \in Role /\ "twin" \in Role
      /\ World(f) /\ Alike(u, "live", f, "twin") /\ World(g) /\ Alike(v, "live", g, "twin")
  BY ForkKeeps DEF Role
<1>2. Alike(u, "live", v, "live") /\ v.sim["live"] = u.sim["live"]
  BY <1>1, SameIsAlike DEF Same
<1>3. f.sim["twin"] = g.sim["twin"]
  BY <1>1, <1>2 DEF Fork, World
<1>4. /\ f.pos[<<"twin", "arrival">>] = g.pos[<<"twin", "arrival">>]
      /\ f.pos[<<"twin", "service">>] = g.pos[<<"twin", "service">>]
  BY <1>1, <1>2 DEF Alike
<1> HIDE DEF f, g
<1>5. Twin(env, u).sim["twin"] = Twin(env, v).sim["twin"]
  <2>1. /\ Twin(env, u).sim["twin"] = [f.sim["twin"] EXCEPT
               !.injector = FALSE, !.surplus = env.error[u.sim["live"].tick]]
        /\ Twin(env, v).sim["twin"] = [g.sim["twin"] EXCEPT
               !.injector = FALSE, !.surplus = env.error[v.sim["live"].tick]]
    BY TwinKeeps, Zenon DEF f, g
  <2>2. QED
    BY <1>2, <1>3, <2>1, Zenon
<1>6. Twin(env, u).pos = f.pos /\ Twin(env, v).pos = g.pos
  BY TwinKeeps DEF f, g
<1>7. QED
  BY <1>4, <1>5, <1>6 DEF Alike

\* A twin without error is alike the live simulator when that has no surplus.
LEMMA TwinExact ==
  ASSUME NEW env, NEW u, World(u), Own(u, "live"),
         env.error[u.sim["live"].tick] = 0, u.sim["live"].surplus = 0
  PROVE  Alike(Twin(env, u), "twin", u, "live")
<1> DEFINE f == Fork(u, "live", "twin")
           t == Twin(env, u)
<1>1. /\ "live" \in Role /\ "twin" \in Role
      /\ World(f) /\ Own(f, "twin") /\ Alike(u, "live", f, "twin")
  BY ForkKeeps DEF Role
<1>2. t.pos = f.pos /\ t.sim["twin"] = [f.sim["twin"] EXCEPT !.injector = FALSE, !.surplus = 0]
  <2>1. t.pos = f.pos /\ t.sim["twin"] = [f.sim["twin"] EXCEPT
            !.injector = FALSE, !.surplus = env.error[u.sim["live"].tick]]
    BY TwinKeeps, Zenon
  <2>2. QED
    BY <2>1, Zenon
<1>3. DOMAIN f.sim["twin"] = SimFields
  BY <1>1 DEF World
<1>4. Own(t, "twin")
  BY TwinKeeps
<1> HIDE DEF f, t
<1>5. f.sim["twin"].surplus = 0
  BY <1>1 DEF Alike, StateFields, SimFields
<1>6. \A field \in StateFields : t.sim["twin"][field] = f.sim["twin"][field]
  BY <1>2, <1>3, <1>5 DEF StateFields, SimFields
<1>7. t.sim["twin"].service = f.sim["twin"].service
  BY <1>1, <1>4 DEF Own
<1>8. QED
  BY <1>1, <1>2, <1>6, <1>7 DEF Alike, t

-----------------------------------------------------------------------------
\* Validations, and ground truth.

\* A validation disturbs neither the live simulator nor the copy kept for the
\* ground truth.
LEMMA ValidateKeeps ==
  ASSUME NEW env, NEW u, World(u), Own(u, "live"), NEW a \in Action
  PROVE  /\ World(Validate(env, u, a).w) /\ Validate(env, u, a).diff \in Int
         /\ Same(u, Validate(env, u, a).w, "live")
         /\ Same(u, Validate(env, u, a).w, "pre")
         /\ Validate(env, u, a).approved = (Validate(env, u, a).diff <= Tolerance)
<1> DEFINE t == Twin(env, u)
           acted == Blind(env, t, "twin", a)
           noop == Blind(env, acted.w, "twin", NoOp)
           judged == Validate(env, u, a)
<1>1. /\ judged.w = noop.w /\ judged.diff = acted.violations - noop.violations
      /\ judged.approved = (judged.diff <= Tolerance)
  BY DEF Validate, Blind
<1>2. World(t) /\ Own(t, "twin") /\ Apart(u, t, "twin")
  BY TwinKeeps
<1> HIDE DEF t, judged
<1>3. /\ "twin" \in Role \ {"branch"} /\ NoOp \in Action
      /\ "live" \in Role /\ "pre" \in Role /\ "twin" \in Role
  BY DEF Role, Action
<1>4. World(acted.w) /\ Apart(t, acted.w, "branch") /\ acted.violations \in Nat
  BY <1>2, <1>3, KindsKeep
<1> HIDE DEF acted
<1>5. Own(acted.w, "twin")
  BY <1>2, <1>3, <1>4 DEF Apart, Own
<1>6. World(noop.w) /\ Apart(acted.w, noop.w, "branch") /\ noop.violations \in Nat
  BY <1>3, <1>4, <1>5, KindsKeep
<1> HIDE DEF noop
<1>7. Same(u, noop.w, "live") /\ Same(u, noop.w, "pre")
  BY <1>2, <1>3, <1>4, <1>6 DEF Apart, Same
<1>8. QED
  BY <1>1, <1>4, <1>6, <1>7 DEF judged

\* The twin an action and a no-op are rolled out from.
TwinPair(env, u, a, t, after) ==
    /\ World(t) /\ Own(t, "twin") /\ World(after) /\ Own(after, "twin")
    /\ Alike(t, "twin", after, "twin")
    /\ Validate(env, u, a).diff = Blind(env, t, "twin", a).violations
                                    - Blind(env, after, "twin", NoOp).violations

\* A validation compares two rollouts from one and the same twin: the second
\* finds it as the first did.
LEMMA ValidateCompares ==
  ASSUME NEW env, NEW u, World(u), Own(u, "live"), NEW a \in Action
  PROVE  TwinPair(env, u, a, Twin(env, u), Blind(env, Twin(env, u), "twin", a).w)
<1> DEFINE t == Twin(env, u)
           after == Blind(env, t, "twin", a).w
<1>1. World(t) /\ Own(t, "twin")
  BY TwinKeeps
<1>2. Validate(env, u, a).diff = Blind(env, t, "twin", a).violations
                                    - Blind(env, after, "twin", NoOp).violations
  BY DEF Validate, Blind
<1> HIDE DEF t
<1>3. "twin" \in Role \ {"branch"} /\ "twin" \in Role
  BY DEF Role
<1>4. World(after) /\ Apart(t, after, "branch")
  BY <1>1, <1>3, KindsKeep
<1> HIDE DEF after
<1>5. Own(after, "twin") /\ Same(t, after, "twin")
  BY <1>1, <1>3, <1>4 DEF Apart, Own, Same
<1>6. Alike(t, "twin", after, "twin")
  BY <1>3, <1>5, SameIsAlike
<1>7. QED
  BY <1>1, <1>2, <1>4, <1>5, <1>6 DEF TwinPair, t, after

\* The verdict on an action depends on nothing but the live simulator.
LEMMA ValidateSame ==
  ASSUME NEW env, NEW u, World(u), Own(u, "live"), NEW v, World(v), Own(v, "live"),
         Same(u, v, "live"), NEW a \in Action
  PROVE  /\ Validate(env, u, a).diff = Validate(env, v, a).diff
         /\ Validate(env, u, a).approved = Validate(env, v, a).approved
<1> DEFINE t1 == Twin(env, u)
           t2 == Twin(env, v)
           after1 == Blind(env, t1, "twin", a).w
           after2 == Blind(env, t2, "twin", a).w
<1>1. TwinPair(env, u, a, t1, after1) /\ TwinPair(env, v, a, t2, after2)
  BY ValidateCompares
<1>2. Alike(t1, "twin", t2, "twin")
  BY TwinSame
<1> HIDE DEF t1, t2, after1, after2
<1>3. Alike(after1, "twin", after2, "twin")
  BY <1>1, <1>2 DEF TwinPair, Alike
<1>4. "twin" \in Role \ {"branch"} /\ NoOp \in Action
  BY DEF Role, Action
<1>5. /\ Blind(env, t1, "twin", a).violations
             = Blind(env, t2, "twin", a).violations
      /\ Blind(env, after1, "twin", NoOp).violations
             = Blind(env, after2, "twin", NoOp).violations
  <2>1. /\ World(t1) /\ Own(t1, "twin") /\ World(t2) /\ Own(t2, "twin")
        /\ World(after1) /\ Own(after1, "twin") /\ World(after2) /\ Own(after2, "twin")
    BY <1>1 DEF TwinPair
  <2>2. Blind(env, t1, "twin", a).violations = Blind(env, t2, "twin", a).violations
    BY <1>2, <1>4, <2>1, BlindAlike
  <2>3. Blind(env, after1, "twin", NoOp).violations = Blind(env, after2, "twin", NoOp).violations
    BY <1>3, <1>4, <2>1, BlindAlike
  <2>4. QED
    BY <2>2, <2>3
<1>6. Validate(env, u, a).diff = Validate(env, v, a).diff
  BY <1>1, <1>5 DEF TwinPair
<1>7. QED
  BY <1>6, ValidateKeeps

\* Two no-ops make no difference.
LEMMA ValidateNoOp ==
  ASSUME NEW env, NEW u, World(u), Own(u, "live")
  PROVE  Validate(env, u, NoOp).diff = 0
<1> DEFINE t == Twin(env, u)
           after == Blind(env, t, "twin", NoOp).w
<1>1. "twin" \in Role \ {"branch"} /\ NoOp \in Action
  BY DEF Role, Action
<1>2. TwinPair(env, u, NoOp, t, after)
  BY <1>1, ValidateCompares
<1> HIDE DEF t, after
<1>3. Blind(env, t, "twin", NoOp).violations
          = Blind(env, after, "twin", NoOp).violations
  <2>1. /\ World(t) /\ Own(t, "twin") /\ World(after) /\ Own(after, "twin")
        /\ Alike(t, "twin", after, "twin")
    BY <1>2 DEF TwinPair
  <2>2. QED
    BY <1>1, <2>1, BlindAlike
<1>4. Blind(env, t, "twin", NoOp).violations \in Nat
  BY <1>1, <1>2, KindsKeep DEF TwinPair
<1>5. Validate(env, u, NoOp).diff = Blind(env, t, "twin", NoOp).violations
                                      - Blind(env, after, "twin", NoOp).violations
  BY <1>2 DEF TwinPair
<1>6. QED
  BY <1>3, <1>4, <1>5

\* A twin without error tells the ground truth, as far as the faults last.
LEMMA ValidateForetells ==
  ASSUME NEW env, NEW u, World(u), Own(u, "live"), Own(u, "pre"),
         Alike(u, "pre", u, "live"), env.error[u.sim["live"].tick] = 0,
         u.sim["live"].surplus = 0, ~env.simplify, FaultsLast(env, u, "pre"), NEW a \in Action
  PROVE  Validate(env, u, a).diff = Told(env, u, "pre", a).violations
                                      - Told(env, u, "pre", NoOp).violations
<1> DEFINE t == Twin(env, u)
           after == Blind(env, t, "twin", a).w
<1>1. "twin" \in Role \ {"branch"} /\ "pre" \in Role \ {"branch"} /\ NoOp \in Action
  BY DEF Role, Action
<1>2. TwinPair(env, u, a, t, after)
  BY <1>1, ValidateCompares
<1>3. Alike(t, "twin", u, "live")
  BY TwinExact
<1> HIDE DEF t, after
<1>4. Alike(t, "twin", u, "pre")
  BY <1>3 DEF Alike
<1>5. Alike(after, "twin", u, "pre")
  BY <1>2, <1>4 DEF TwinPair, Alike
<1>6. /\ World(t) /\ Own(t, "twin") /\ World(after) /\ Own(after, "twin")
  BY <1>2 DEF TwinPair
<1>7. /\ Blind(env, t, "twin", a).violations
             = Told(env, u, "pre", a).violations
      /\ Blind(env, after, "twin", NoOp).violations
             = Told(env, u, "pre", NoOp).violations
  BY <1>1, <1>4, <1>5, <1>6, BlindAsTold
<1>8. QED
  BY <1>2, <1>7 DEF TwinPair

\* The rollouts of Truths, as a function of how many proposals are evaluated.
TruthStep(env, u, actions, run, i) ==
    LET baseline == Told(env, u, "pre", NoOp) IN
    IF i = 0 THEN [w |-> baseline.w, rows |-> <<>>]
    ELSE LET before == run[i - 1]
             ahead == Told(env, before.w, "pre", actions[i])
         IN  [w |-> ahead.w, rows |-> Append(before.rows,
               [action |-> actions[i], violations |-> ahead.violations,
                baseline |-> baseline.violations,
                harmful |-> ahead.violations - baseline.violations > Harm])]
TruthRun(env, u, actions) ==
    CHOOSE run : run = [i \in 0 .. Len(actions) |-> TruthStep(env, u, actions, run, i)]

\* Truths is the last value of a run over the proposals.
LEMMA TruthsIsRun ==
  ASSUME NEW env, NEW u, NEW actions
  PROVE  Truths(env, u, actions) = TruthRun(env, u, actions)[Len(actions)]
  BY Zenon DEF Truths, TruthRun, TruthStep, Told

\* There are truths of however many proposals.
LEMMA TruthsExist ==
  ASSUME NEW env, NEW u, NEW actions, Len(actions) \in Nat
  PROVE  \A k \in 0 .. Len(actions) :
             TruthRun(env, u, actions)[k] = TruthStep(env, u, actions, TruthRun(env, u, actions), k)
<1> DEFINE Runs(k) == \E g : g = [n \in 0 .. k |-> TruthStep(env, u, actions, g, n)]
           good == {k \in 0 .. Len(actions) : Runs(k)}
<1>1. Runs(0)
  <2> DEFINE first == [n \in 0 .. 0 |->
                          [w |-> Told(env, u, "pre", NoOp).w, rows |-> <<>>]]
  <2>1. \A n \in 0 .. 0 : n = 0
    OBVIOUS
  <2>2. first = [n \in 0 .. 0 |-> TruthStep(env, u, actions, first, n)]
    BY <2>1 DEF TruthStep
  <2>3. QED
    BY <2>2
<1>2. ASSUME NEW k \in Nat, Runs(k) PROVE Runs(k + 1)
  <2>1. PICK g : g = [n \in 0 .. k |-> TruthStep(env, u, actions, g, n)]
    BY <1>2
  <2> DEFINE h == [n \in 0 .. k + 1 |-> TruthStep(env, u, actions, g, n)]
  <2>2. \A n \in 0 .. k : h[n] = g[n]
    BY <2>1
  <2>3. ASSUME NEW n \in 0 .. k + 1
        PROVE  TruthStep(env, u, actions, g, n) = TruthStep(env, u, actions, h, n)
    <3>1. n # 0 => n - 1 \in 0 .. k
      OBVIOUS
    <3>2. n # 0 => h[n - 1] = g[n - 1]
      <4> HIDE DEF h
      <4>1. QED
        BY <2>2, <3>1
    <3> HIDE DEF h
    <3>3. QED
      BY <3>2 DEF TruthStep
  <2>4. h = [n \in 0 .. k + 1 |-> TruthStep(env, u, actions, h, n)]
    BY <2>3
  <2>5. QED
    BY <2>4
<1>3. 0 .. Len(actions) \subseteq good
  <2>1. 0 \in good
    BY <1>1
  <2>2. ASSUME NEW k \in 1 .. Len(actions), k - 1 \in good PROVE k \in good
    <3>1. k - 1 \in Nat /\ Runs(k - 1)
      BY <2>2
    <3> HIDE DEF Runs
    <3>2. Runs((k - 1) + 1)
      BY <1>2, <3>1
    <3>3. QED
      BY <3>2
  <2> HIDE DEF good
  <2>3. QED
    BY <2>1, <2>2, UpTo
<1>4. \E g : g = [n \in 0 .. Len(actions) |-> TruthStep(env, u, actions, g, n)]
  BY <1>3
<1>5. TruthRun(env, u, actions)
          = [n \in 0 .. Len(actions) |-> TruthStep(env, u, actions, TruthRun(env, u, actions), n)]
  BY <1>4, Zenon DEF TruthRun
<1> HIDE DEF TruthRun
<1>6. QED
  BY <1>5

\* The truths of a decision: one row per proposal, each what a rollout from the
\* copy predicts, whatever was evaluated before it.
Row == [action : Action, violations : Nat, baseline : Nat, harmful : BOOLEAN]
IsTruth(env, u, a, row) ==
    /\ row.violations = Told(env, u, "pre", a).violations
    /\ row.baseline = Told(env, u, "pre", NoOp).violations
    /\ row.action = a
TruthGood(env, u, actions, k) ==
    LET now == TruthRun(env, u, actions)[k] IN
    /\ World(now.w) /\ Apart(u, now.w, "branch")
    /\ now.rows \in Seq(Row) /\ Len(now.rows) = k
    /\ \A i \in 1 .. k : IsTruth(env, u, actions[i], now.rows[i])

\* The truths of a decision are, row by row, those that the copy from before the
\* decision would tell: one evaluation does not disturb the next.
LEMMA TruthsKeep ==
  ASSUME NEW env, NEW u, World(u), Own(u, "pre"), NEW actions \in Seq(Action)
  PROVE  TruthGood(env, u, actions, Len(actions))
<1> DEFINE N == Len(actions)
           good == {k \in 0 .. N : TruthGood(env, u, actions, k)}
           base == Told(env, u, "pre", NoOp)
<1>1. N \in Nat /\ "pre" \in Role \ {"branch"} /\ NoOp \in Action
  BY DEF Role, Action
<1>2. World(base.w) /\ Apart(u, base.w, "branch") /\ base.violations \in Nat
  BY <1>1, KindsKeep
<1>3. TruthGood(env, u, actions, 0)
  <2> DEFINE now == TruthRun(env, u, actions)[0]
  <2>1. now = TruthStep(env, u, actions, TruthRun(env, u, actions), 0)
    BY <1>1, TruthsExist
  <2>2. now = [w |-> base.w, rows |-> <<>>]
    BY <2>1, Zenon DEF TruthStep, Told
  <2> HIDE DEF now, base
  <2>3. /\ World(now.w) /\ Apart(u, now.w, "branch")
        /\ now.rows \in Seq(Row) /\ Len(now.rows) = 0
    BY <1>2, <2>2
  <2>4. QED
    BY <2>3 DEF TruthGood, now
<1>4. ASSUME NEW k \in 1 .. N, TruthGood(env, u, actions, k - 1)
      PROVE  TruthGood(env, u, actions, k)
  <2> DEFINE before == TruthRun(env, u, actions)[k - 1]
             now == TruthRun(env, u, actions)[k]
             a == actions[k]
             ahead == Told(env, before.w, "pre", a)
             row == [action |-> a, violations |-> ahead.violations,
                     baseline |-> base.violations,
                     harmful |-> ahead.violations - base.violations > Harm]
  <2>1. now = TruthStep(env, u, actions, TruthRun(env, u, actions), k) /\ k # 0 /\ a \in Action
    BY <1>1, TruthsExist
  <2>2. now = [w |-> ahead.w, rows |-> Append(before.rows, row)]
    BY <2>1, Zenon DEF TruthStep, Told
  <2>3. /\ World(before.w) /\ Apart(u, before.w, "branch")
        /\ before.rows \in Seq(Row) /\ Len(before.rows) = k - 1
        /\ \A i \in 1 .. k - 1 : IsTruth(env, u, actions[i], before.rows[i])
    BY <1>4 DEF TruthGood
  <2> HIDE DEF before
  <2>4. Own(before.w, "pre") /\ Same(u, before.w, "pre")
    BY <1>1, <2>3 DEF Apart, Own, Same
  <2>5. World(ahead.w) /\ Apart(before.w, ahead.w, "branch") /\ ahead.violations \in Nat
    BY <1>1, <2>1, <2>3, <2>4, KindsKeep
  <2>6. Apart(u, ahead.w, "branch")
    BY <2>3, <2>5 DEF Apart
  <2>7. ahead.violations = Told(env, u, "pre", a).violations
    <3>1. Alike(u, "pre", before.w, "pre") /\ u.sim["pre"].injector = before.w.sim["pre"].injector
      BY <1>1, <2>4, SameIsAlike DEF Same
    <3>2. Told(env, u, "pre", a).violations = Told(env, before.w, "pre", a).violations
      BY <1>1, <2>1, <2>3, <2>4, <3>1, ToldAlike
    <3>3. QED
      BY <3>2
  <2> HIDE DEF ahead, base, now, a
  <2>8. row \in Row
    BY <1>2, <2>1, <2>5 DEF Row
  <2>9. IsTruth(env, u, a, row)
    BY <2>7 DEF IsTruth, base
  <2> HIDE DEF row
  <2>10. now.w = ahead.w /\ now.rows = Append(before.rows, row)
    BY <2>2
  <2>11. /\ now.rows \in Seq(Row) /\ Len(now.rows) = k
         /\ \A i \in 1 .. k - 1 : now.rows[i] = before.rows[i]
         /\ now.rows[k] = row
    BY <2>3, <2>8, <2>10
  <2>12. \A i \in 1 .. k : IsTruth(env, u, actions[i], now.rows[i])
    <3>1. ASSUME NEW i \in 1 .. k PROVE IsTruth(env, u, actions[i], now.rows[i])
      <4>1. CASE i = k
        BY <2>9, <2>11, <4>1 DEF a
      <4>2. CASE i # k
        <5>1. i \in 1 .. k - 1
          BY <4>2
        <5>2. QED
          BY <2>3, <2>11, <5>1
      <4>3. QED
        BY <4>1, <4>2
    <3>2. QED
      BY <3>1
  <2>13. QED
    BY <2>5, <2>6, <2>10, <2>11, <2>12 DEF TruthGood, now
<1>5. 0 .. N \subseteq good
  <2>1. 0 \in good /\ \A k \in 1 .. N : k - 1 \in good => k \in good
    BY <1>1, <1>3, <1>4
  <2> HIDE DEF good
  <2>2. QED
    BY <1>1, <2>1, UpTo
<1>6. QED
  BY <1>1, <1>5

\* Forgetting leaves the others as they are.
LEMMA ForgetKeeps ==
  ASSUME NEW u, World(u), NEW gone
  PROVE  /\ World(Forget(u, gone))
         /\ \A r \in Role \ gone : Same(u, Forget(u, gone), r)
<1> DEFINE v == Forget(u, gone)
<1>1. /\ DOMAIN v = {"sim", "pos"} /\ DOMAIN v.sim = Role /\ DOMAIN v.pos = Generator
      /\ \A r \in Role : v.sim[r] = IF r \in gone THEN Fresh.sim[r] ELSE u.sim[r]
      /\ \A g \in Generator : v.pos[g] = IF g[1] \in gone THEN 0 ELSE u.pos[g]
      /\ v.pos = [g \in Generator |-> IF g[1] \in gone THEN 0 ELSE u.pos[g]]
  BY DEF Forget
<1>2. \A r \in Role : DOMAIN Fresh.sim[r] = SimFields /\ Fresh.sim[r].tick \in Nat
  BY DEF Fresh, SimFields
<1> HIDE DEF v
<1>3. World(v)
  BY <1>1, <1>2 DEF World
<1>4. \A r \in Role \ gone : Same(u, v, r)
  BY <1>1 DEF Same
<1>5. QED
  BY <1>3, <1>4 DEF v

\* Every simulator of a fresh world is new and has generators of its own.
LEMMA FreshIsWorld ==
  /\ World(Fresh) /\ \A r \in Role : Own(Fresh, r)
  /\ Fresh.sim["live"].injector = TRUE /\ Fresh.sim["live"].surplus = 0
  /\ Fresh.sim["live"].tick = 0
<1>1. /\ DOMAIN Fresh = {"sim", "pos"} /\ DOMAIN Fresh.sim = Role
      /\ Fresh.pos \in [Generator -> Nat]
      /\ \A r \in Role : /\ DOMAIN Fresh.sim[r] = SimFields /\ Fresh.sim[r].tick = 0
                         /\ Fresh.sim[r].injector = TRUE /\ Fresh.sim[r].surplus = 0
                         /\ Fresh.sim[r].arrival = <<r, "arrival">>
                         /\ Fresh.sim[r].service = <<r, "service">>
  BY DEF Fresh, SimFields
<1>2. QED
  BY <1>1 DEF World, Own, Role

-----------------------------------------------------------------------------
\* The inductive invariants.

\* What the variables hold.
Verdict == [approved : BOOLEAN, diff : Int]
Entry == [action : Action, verdict : Verdict, was_applied : BOOLEAN]
Parts == {"tick", "open", "decide", "judge", "weigh", "execute", "truth", "close",
          "returned", "done", "gone"}

Typed ==
    /\ opt \in [loop : {"live", "driver"}, env : Scenarios, gate : BOOLEAN,
                counterfactual : BOOLEAN]
    /\ at \in Parts
    /\ action \in Action \cup {Null} /\ (at \in {"judge", "weigh"} => action \in Action)
    /\ (at = "judge" => opt.gate)
    /\ verdict \in Verdict
    /\ retries \in Nat /\ records \in Seq(Entry)
    /\ taken \in Action \cup {Null} /\ (at \in {"execute", "truth"} => taken \in Action)
    /\ applied \in Action \cup {Null} /\ rows \in Seq(Row)
    /\ opt.counterfactual \/ (Streaming /\ at # "truth")
    /\ Streaming /\ at \in {"decide", "judge", "weigh", "execute", "truth"} => rows = <<>>

\* The live simulator, and the copy, have generators of their own; the live one
\* has its fault schedule, and a decision follows a tick.
Underway == at \in {"open", "decide", "judge", "weigh", "execute", "truth", "close"}
Worlds ==
    /\ World(w) /\ Own(w, "live") /\ Own(w, "pre")
    /\ live.injector = TRUE /\ live.surplus = 0
    /\ live.tick > 0 => live.faulted = ((live.tick - 1) \in opt.env.window)
    /\ Underway => live.tick > 0

\* The decision that was opened has not been executed yet.
Pending ==
    \/ at \in {"decide", "judge", "weigh", "execute"}
    \/ at = "truth" /\ ~Streaming

\* The copy from before the decision is there.
CopyKept ==
    /\ opt.counterfactual
    /\ \/ at \in {"decide", "judge", "weigh", "truth"}
       \/ at = "execute" /\ Streaming

\* Until then the live simulator, and with it what is valid and what the twin
\* approves, is what it was when the decision was opened, and so is the copy.
Opened ==
    /\ valid \subseteq Remedy /\ approves \subseteq Remedy
    /\ Pending =>
        /\ applied = Null
        /\ valid = {a \in Remedy : Semantic(a, live)}
        /\ approves = {a \in Remedy : Validate(opt.env, w, a).approved}
        /\ CopyKept => Alike(w, "pre", w, "live")
    /\ CopyKept => w.sim["pre"].injector = TRUE

\* What is to be executed is the fallback or has been approved.
Chosen ==
    /\ at = "weigh" =>
           IF opt.gate THEN /\ verdict.diff = Validate(opt.env, w, action).diff
                            /\ verdict.approved = Validate(opt.env, w, action).approved
           ELSE verdict.approved = TRUE
    /\ Pending /\ at \in {"execute", "truth"} /\ opt.gate =>
           taken = NoOp \/ Validate(opt.env, w, taken).approved = TRUE

PromiseInv == Typed /\ Worlds /\ Opened /\ Chosen

\* The verdicts on record are those the twin would give again.
Again(env, u, entry) ==
    /\ entry.verdict.diff = Validate(env, u, entry.action).diff
    /\ entry.verdict.approved = Validate(env, u, entry.action).approved
Judged == opt.gate =>
    /\ \A i, j \in 1 .. Len(records) : records[i].action = records[j].action =>
           records[i].verdict = records[j].verdict
    /\ \A i \in 1 .. Len(records) : records[i].action = NoOp => records[i].verdict.diff = 0
    /\ Pending => \A i \in 1 .. Len(records) : Again(opt.env, w, records[i])

\* An exact twin has told what the truths of a decision will be, and are.
Gain(env, u, a) == Told(env, u, "pre", a).violations - Told(env, u, "pre", NoOp).violations
Foretold == opt.gate /\ Exact =>
    /\ at = "truth" => \A i \in 1 .. Len(records) :
           records[i].verdict.diff = Gain(opt.env, w, records[i].action)
    /\ at \in {"execute", "close"} => \A i \in 1 .. Len(rows) :
           records[i].verdict.diff = rows[i].violations - rows[i].baseline

ReliableInv == PromiseInv /\ Judged /\ Foretold

\* The action executed is the last proposed or the fallback, and the copy that
\* executes it is alike the live simulator.
LastAction == records[Len(records)].action
Carried ==
    /\ at \in {"execute", "truth"} =>
           records # <<>> /\ (taken = LastAction \/ taken = NoOp)
    /\ at = "truth" /\ Streaming =>
           /\ applied = taken \/ applied = NoOp
           /\ Alike(Execute(w, "pre", applied), "pre", w, "live")

\* The violations the live simulator goes on to have in k ticks.
Coming(env, u, k) == Run(env, u, "live")[k].violations

\* The row of the last proposal tells what the live simulator goes on to have.
RowsTold ==
    /\ at = "execute" /\ ~Streaming =>
           /\ rows # <<>>
           /\ rows[Len(rows)].baseline = Coming(opt.env, w, Horizon)
           /\ rows[Len(rows)].violations = Coming(opt.env, Execute(w, "live", LastAction), Horizon)
    /\ at = "close" /\ rows # <<>> => Forecast.violations = Coming(opt.env, w, Horizon)

\* A forecast is what was seen of it and what is still to come, unless a remedy
\* has just been executed.
Superseded == at \in {"truth", "close", "returned", "gone"} /\ applied \in Remedy
OwedInv == \A f \in owed :
    /\ f \in [left : 0 .. Horizon, seen : Nat, violations : Nat]
    /\ f.left = 0 => f.seen = f.violations
    /\ ~Superseded => f.seen + Coming(opt.env, w, f.left) = f.violations

ForecastInv == PromiseInv /\ Carried /\ RowsTold /\ OwedInv

\* One component of an episode after another; the steps that touch the
\* simulators are the tick, the fork of the copy, a validation, the evaluation
\* and the execution.
LEMMA StepTickMoves ==
  ASSUME Worlds, StepTick
  PROVE  /\ Worlds' /\ at \in {"tick"} /\ at' \in {"open", "tick"}
<1>1. /\ w' = Step(opt.env, w, "live") /\ opt' = opt /\ at = "tick" /\ at' \in {"open", "tick"}
  BY DEF StepTick
<1>2. "live" \in Role /\ "pre" \in Role
  BY DEF Role
<1>3. World(w) /\ OwnGenerators(w, "live") /\ Own(w, "live") /\ Own(w, "pre")
  BY OwnIsOwn DEF Worlds
<1>4. /\ World(w') /\ Apart(w, w', "live") /\ OwnGenerators(w', "live")
      /\ w'.sim["live"].tick = w.sim["live"].tick + 1
      /\ w'.sim["live"].injector = w.sim["live"].injector
      /\ w'.sim["live"].faulted = Faulted(opt.env, w.sim["live"])
  BY <1>1, <1>2, <1>3, StepWorld, StepApart
<1>5. /\ w'.sim["live"].surplus = w.sim["live"].surplus
      /\ w'.sim["live"].arrival = w.sim["live"].arrival
      /\ w'.sim["live"].service = w.sim["live"].service
  BY <1>1, <1>2, <1>3 DEF World, Step, SimFields
<1>6. Own(w', "live") /\ Own(w', "pre")
  BY <1>2, <1>3, <1>4, <1>5 DEF Own, Apart
<1>7. w.sim["live"].tick \in Nat
  BY <1>2, <1>3 DEF World
<1>8. w'.sim["live"].tick > 0 /\ w'.sim["live"].tick - 1 = w.sim["live"].tick
  BY <1>4, <1>7
<1>9. w.sim["live"].injector = TRUE /\ w.sim["live"].surplus = 0
  BY DEF Worlds, live
<1>10. w'.sim["live"].faulted = ((w'.sim["live"].tick - 1) \in opt'.env.window)
  BY <1>1, <1>4, <1>8, <1>9 DEF Faulted
<1>11. QED
  BY <1>1, <1>4, <1>5, <1>6, <1>8, <1>9, <1>10 DEF Worlds, live

\* Opening a decision forks the copy, and leaves the live simulator as it is.
LEMMA OpenMoves ==
  ASSUME Typed, Worlds, Open
  PROVE  /\ Worlds' /\ Same(w, w', "live")
         /\ opt.counterfactual => /\ Alike(w', "pre", w', "live")
                                  /\ w'.sim["pre"].injector = TRUE
<1>1. /\ at = "open" /\ at' = "decide" /\ opt' = opt
      /\ w' = IF opt.counterfactual THEN Fork(w, "live", "pre") ELSE w
  BY DEF Open
<1>2. "live" \in Role /\ "pre" \in Role /\ World(w) /\ Own(w, "live") /\ Own(w, "pre")
  BY DEF Worlds, Role
<1>3. CASE ~opt.counterfactual
  <2>1. w' = w /\ live' = live
    BY <1>1, <1>3 DEF live
  <2>2. QED
    BY <1>1, <1>2, <1>3, <2>1 DEF Worlds, Same, Underway
<1>4. CASE opt.counterfactual
  <2>1. w' = Fork(w, "live", "pre")
    BY <1>1, <1>4
  <2>2. /\ World(w') /\ Own(w', "pre") /\ Apart(w, w', "pre") /\ Alike(w, "live", w', "pre")
        /\ w'.sim["pre"].injector = w.sim["live"].injector
    BY <1>2, <2>1, ForkKeeps
  <2>3. Same(w, w', "live") /\ Own(w', "live")
    BY <1>2, <2>2 DEF Apart, Same, Own
  <2>4. Alike(w, "live", w', "live")
    BY <1>2, <2>3, SameIsAlike
  <2>5. Alike(w', "pre", w', "live")
    BY <2>2, <2>4 DEF Alike
  <2>6. w'.sim["live"] = w.sim["live"]
    BY <2>3 DEF Same
  <2>7. QED
    BY <1>1, <2>2, <2>3, <2>5, <2>6 DEF Worlds, live, Underway
<1>5. QED
  BY <1>3, <1>4

\* A validation leaves the live simulator and the copy as they are; its verdict is
\* that of Validate.
LEMMA JudgeMoves ==
  ASSUME Typed, Worlds, Judge
  PROVE  /\ Worlds' /\ Same(w, w', "live") /\ Same(w, w', "pre")
         /\ verdict'.diff = Validate(opt.env, w, action).diff
         /\ verdict'.approved = Validate(opt.env, w, action).approved
         /\ verdict' \in Verdict
<1> DEFINE judged == Validate(opt.env, w, action)
<1>1. /\ at = "judge" /\ at' = "weigh" /\ opt' = opt
      /\ verdict' = [approved |-> judged.approved, diff |-> judged.diff]
      /\ w' = Forget(judged.w, {"twin", "branch"})
  BY DEF Judge
<1>2. World(w) /\ Own(w, "live") /\ Own(w, "pre") /\ action \in Action
  BY <1>1 DEF Worlds, Typed
<1>3. /\ World(judged.w) /\ Same(w, judged.w, "live") /\ Same(w, judged.w, "pre")
      /\ judged.diff \in Int /\ judged.approved = (judged.diff <= Tolerance)
  BY <1>2, ValidateKeeps
<1> HIDE DEF judged
<1>4. "live" \in Role \ {"twin", "branch"} /\ "pre" \in Role \ {"twin", "branch"}
  BY DEF Role
<1>5. World(w') /\ Same(judged.w, w', "live") /\ Same(judged.w, w', "pre")
  BY <1>1, <1>3, <1>4, ForgetKeeps
<1>6. Same(w, w', "live") /\ Same(w, w', "pre")
  BY <1>3, <1>5 DEF Same
<1>7. Own(w', "live") /\ Own(w', "pre") /\ w'.sim["live"] = w.sim["live"]
  BY <1>2, <1>6 DEF Same, Own
<1>8. verdict' \in Verdict
  BY <1>1, <1>3 DEF Verdict
<1>9. Worlds'
  BY <1>1, <1>5, <1>7 DEF Worlds, live, Underway
<1>10. QED
  BY <1>1, <1>6, <1>8, <1>9 DEF judged

\* The proposals of the decision.
Proposed == [i \in 1 .. Len(records) |-> records[i].action]

\* Evaluating a decision leaves the live simulator as it is, and fills a row for
\* each proposal.
LEMMA TruthMoves ==
  ASSUME Typed, Worlds, Truth
  PROVE  /\ Worlds' /\ Same(w, w', "live")
         /\ rows' \in Seq(Row) /\ Len(rows') = Len(records)
         /\ \A i \in 1 .. Len(records) : IsTruth(opt.env, w, records[i].action, rows'[i])
<1> DEFINE truths == Truths(opt.env, w, Proposed)
           last == TruthRun(opt.env, w, Proposed)[Len(Proposed)]
<1>1. /\ at = "truth" /\ opt' = opt /\ at' \in {"close", "execute"}
      /\ rows' = truths.rows /\ w' = Forget(truths.w, {"pre", "branch"})
  BY DEF Truth, Proposed
<1>2. World(w) /\ Own(w, "live") /\ Own(w, "pre") /\ records \in Seq(Entry)
  BY DEF Worlds, Typed
<1>3. /\ Proposed \in Seq(Action) /\ Len(Proposed) = Len(records)
      /\ \A i \in 1 .. Len(records) : Proposed[i] = records[i].action
  <2>1. /\ Len(records) \in Nat
        /\ \A i \in 1 .. Len(records) : records[i].action \in Action
    <3>1. Len(records) \in Nat /\ \A i \in 1 .. Len(records) : records[i] \in Entry
      BY <1>2
    <3>2. QED
      BY <3>1 DEF Entry
  <2>2. Proposed \in [1 .. Len(records) -> Action]
    BY <2>1 DEF Proposed
  <2>3. Proposed \in Seq(Action) /\ Len(Proposed) = Len(records)
    BY <2>1, <2>2
  <2>4. QED
    BY <2>3 DEF Proposed
<1>4. truths = last
  BY TruthsIsRun
<1>5. TruthGood(opt.env, w, Proposed, Len(Proposed))
  BY <1>2, <1>3, TruthsKeep
<1>6. /\ World(last.w) /\ Apart(w, last.w, "branch")
      /\ last.rows \in Seq(Row) /\ Len(last.rows) = Len(records)
      /\ \A i \in 1 .. Len(records) : IsTruth(opt.env, w, records[i].action, last.rows[i])
  BY <1>3, <1>5 DEF TruthGood
<1> HIDE DEF truths, last
<1>7. /\ "live" \in Role \ {"pre", "branch"} /\ "live" \in Role
  BY DEF Role
<1>8. World(w') /\ Same(last.w, w', "live")
  BY <1>1, <1>4, <1>6, <1>7, ForgetKeeps
<1>9. Same(w, w', "live")
  BY <1>6, <1>7, <1>8 DEF Same, Apart
<1>10. Own(w', "live") /\ w'.sim["live"] = w.sim["live"]
  BY <1>2, <1>9 DEF Same, Own
<1>11. Own(w', "pre")
  <2>1. w'.sim["pre"] = Fresh.sim["pre"]
    BY <1>1 DEF Forget, Role
  <2>2. QED
    BY <2>1, FreshIsWorld DEF Own, Role
<1>12. Worlds'
  BY <1>1, <1>8, <1>10, <1>11 DEF Worlds, live, Underway
<1>13. QED
  BY <1>1, <1>4, <1>6, <1>9, <1>12

\* Executing an action touches the live simulator only, and does not step it.
LEMMA ApplyMoves ==
  ASSUME Typed, Worlds, Apply
  PROVE  /\ Worlds' /\ Same(w, w', "pre") /\ applied' \in Action
         /\ w' = Execute(w, "live", applied') /\ live'.tick = live.tick
<1>1. /\ at = "execute" /\ at' \in {"truth", "close"} /\ opt' = opt
      /\ applied' = IF Semantic(taken, live) THEN taken ELSE NoOp
      /\ w' = Execute(w, "live", applied')
  BY DEF Apply
<1>2. World(w) /\ Own(w, "live") /\ Own(w, "pre") /\ taken \in Action
  BY <1>1 DEF Worlds, Typed
<1>3. applied' \in Action
  BY <1>1, <1>2 DEF Action
<1>4. "live" \in Role /\ "pre" \in Role
  BY DEF Role
<1>5. /\ World(w') /\ Apart(w, w', "live") /\ w'.pos = w.pos
      /\ w'.sim["live"].arrival = w.sim["live"].arrival
      /\ w'.sim["live"].service = w.sim["live"].service
      /\ w'.sim["live"].injector = w.sim["live"].injector
      /\ w'.sim["live"].surplus = w.sim["live"].surplus
      /\ w'.sim["live"].tick = w.sim["live"].tick
      /\ w'.sim["live"].faulted = w.sim["live"].faulted
  BY <1>1, <1>2, <1>3, <1>4, ExecuteKeeps
<1>6. Same(w, w', "pre") /\ Own(w', "pre") /\ Own(w', "live")
  BY <1>2, <1>4, <1>5 DEF Same, Own, Apart
<1>7. Worlds'
  BY <1>1, <1>5, <1>6 DEF Worlds, live, Underway
<1>8. QED
  BY <1>1, <1>3, <1>5, <1>6, <1>7 DEF live

-----------------------------------------------------------------------------
\* The steps of an episode.

\* The steps that touch no simulator.
Still == Decide \/ DecideRaises \/ JudgeRaises \/ Accept \/ Exhaust \/ Retry
             \/ Close \/ Done \/ Disconnect \/ Finished

\* They leave the simulators, and the episode's options, as they are.
LEMMA StillMoves ==
  ASSUME Worlds, Still \/ UNCHANGED vars
  PROVE  Worlds' /\ UNCHANGED <<w, opt>>
<1>1. /\ UNCHANGED <<w, opt>>
      /\ Underway' => Underway
  <2>1. UNCHANGED <<w, opt>>
    BY DEF Still, Decide, DecideRaises, JudgeRaises, Accept, Exhaust, Retry, Close,
           Done, Disconnect, Finished, vars
  <2>2. Underway' => Underway
    <3>1. CASE Decide
      BY <3>1 DEF Decide, Underway
    <3>2. CASE Accept
      BY <3>2 DEF Accept, Underway, AfterLoop
    <3>3. CASE Exhaust
      BY <3>3 DEF Exhaust, Underway, AfterLoop
    <3>4. CASE Retry
      BY <3>4 DEF Retry, Underway
    <3>5. CASE DecideRaises \/ JudgeRaises \/ Close \/ Done \/ Disconnect
      BY <3>5 DEF DecideRaises, JudgeRaises, Close, Done, Disconnect, Underway
    <3>6. CASE Finished \/ UNCHANGED vars
      BY <3>6 DEF Finished, vars, Underway
    <3>7. QED
      BY <3>1, <3>2, <3>3, <3>4, <3>5, <3>6 DEF Still
  <2>3. QED
    BY <2>1, <2>2
<1>2. QED
  BY <1>1 DEF Worlds, live

\* Every step is one of these.
LEMMA Steps ==
  ASSUME [Next]_vars
  PROVE  \/ Still \/ UNCHANGED vars
         \/ StepTick \/ Open \/ Judge \/ Apply \/ Truth
BY DEF Next, Still

\* Every step keeps the simulators apart.
LEMMA WorldsStep ==
  ASSUME Typed, Worlds, [Next]_vars
  PROVE  Worlds'
BY Steps, StillMoves, StepTickMoves, OpenMoves, JudgeMoves, ApplyMoves, TruthMoves

\* Every step keeps the types.
LEMMA TypedStep ==
  ASSUME Typed, Worlds, [Next]_vars
  PROVE  Typed'
<1>1. opt' = opt
  BY Steps, StillMoves DEF StepTick, Open, Judge, Apply, Truth
<1>2. Streaming' = Streaming
  BY <1>1 DEF Streaming
<1>3. /\ NoOp \in Action /\ Null \notin Action /\ NoVerdict \in Verdict
      /\ <<>> \in Seq(Entry) /\ <<>> \in Seq(Row)
  BY DEF Action, Remedy, NoOp, Null, NoVerdict, Verdict
<1>4. CASE StepTick
  BY <1>1, <1>2, <1>4 DEF Typed, StepTick, Parts, loop
<1>5. CASE Open
  BY <1>1, <1>2, <1>3, <1>5 DEF Typed, Open, Parts
<1>6. CASE Decide
  BY <1>1, <1>2, <1>3, <1>6 DEF Typed, Decide, Parts
<1>7. CASE DecideRaises \/ JudgeRaises \/ Done \/ Disconnect
  BY <1>1, <1>2, <1>7 DEF Typed, DecideRaises, JudgeRaises, Done, Disconnect, Parts, loop
<1>8. CASE Judge
  BY <1>1, <1>2, <1>8, JudgeMoves DEF Typed, Judge, Parts
<1>9. ASSUME NEW marked \in BOOLEAN, at = "weigh" PROVE Recorded(marked) \in Seq(Entry)
  <2>1. [action |-> action, verdict |-> verdict, was_applied |-> marked] \in Entry
    BY <1>9 DEF Typed, Entry
  <2>2. QED
    BY <2>1 DEF Recorded, Typed
<1>10. CASE Accept
  <2>1. records' \in Seq(Entry)
    BY <1>9, <1>10 DEF Accept
  <2>2. QED
    BY <1>1, <1>2, <1>10, <2>1 DEF Typed, Accept, AfterLoop, Parts
<1>11. CASE Exhaust
  <2>1. records' \in Seq(Entry)
    BY <1>9, <1>11 DEF Exhaust
  <2>2. QED
    BY <1>1, <1>2, <1>3, <1>11, <2>1 DEF Typed, Exhaust, AfterLoop, Parts
<1>12. CASE Retry
  <2>1. records' \in Seq(Entry)
    BY <1>9, <1>12 DEF Retry
  <2>2. retries' \in Nat
    BY <1>12 DEF Retry, Typed
  <2>3. /\ at = "weigh" /\ at' = "decide"
        /\ UNCHANGED <<action, verdict, taken, applied, rows>>
    BY <1>12 DEF Retry
  <2>4. QED
    BY <1>1, <1>2, <2>1, <2>2, <2>3 DEF Typed, Parts
<1>13. CASE Apply
  BY <1>1, <1>2, <1>13, ApplyMoves DEF Typed, Apply, Parts, loop
<1>14. CASE Truth
  BY <1>1, <1>2, <1>14, TruthMoves DEF Typed, Truth, Parts, loop
<1>15. CASE Close
  BY <1>1, <1>2, <1>15 DEF Typed, Close, Parts, loop
<1>16. CASE Finished \/ UNCHANGED vars
  BY <1>1, <1>2, <1>16 DEF Typed, Finished, vars, loop
<1>17. QED
  BY <1>4, <1>5, <1>6, <1>7, <1>8, <1>10, <1>11, <1>12, <1>13, <1>14, <1>15, <1>16 DEF Next

\* As long as the live simulator is the same, so is what is valid and approved.
LEMMA SameView ==
  ASSUME Worlds, Worlds', Same(w, w', "live"), opt' = opt, NEW a \in Action
  PROVE  /\ live' = live
         /\ Validate(opt.env, w, a).diff = Validate(opt.env, w', a).diff
         /\ Validate(opt.env, w, a).approved = Validate(opt.env, w', a).approved
<1>1. World(w) /\ Own(w, "live") /\ World(w') /\ Own(w', "live")
  BY DEF Worlds
<1>2. live' = live
  BY DEF Same, live
<1>3. QED
  BY <1>1, <1>2, ValidateSame

-----------------------------------------------------------------------------
\* A decision keeps its promise.

\* Until a decision is executed, validity and approval are what they were when it
\* was opened: validations and evaluations leave the live simulator alone.
LEMMA OpenedStep ==
  ASSUME Typed, Worlds, Opened, Chosen, [Next]_vars
  PROVE  Opened'
<1>1. Typed' /\ Worlds' /\ opt' = opt
  BY TypedStep, WorldsStep, Steps, StillMoves DEF StepTick, Open, Judge, Apply, Truth
<1>2. Streaming' = Streaming
  BY <1>1 DEF Streaming
<1>3. CASE StepTick
  BY <1>1, <1>2, <1>3 DEF Opened, Pending, CopyKept, StepTick
<1>4. CASE Open
  <2>1. /\ at' = "decide" /\ applied' = Null
        /\ valid' = {a \in Remedy : Semantic(a, live)}
        /\ approves' = {a \in Remedy : Validate(opt.env, w, a).approved}
    BY <1>4 DEF Open
  <2>2. /\ Same(w, w', "live")
        /\ opt.counterfactual => /\ Alike(w', "pre", w', "live")
                                 /\ w'.sim["pre"].injector = TRUE
    BY <1>4, OpenMoves
  <2>3. live' = live /\ \A a \in Remedy :
            Validate(opt.env, w, a).approved = Validate(opt.env, w', a).approved
    BY <1>1, <2>2, SameView DEF Action
  <2>4. valid' = {a \in Remedy : Semantic(a, live')}
    BY <2>1, <2>3
  <2>5. approves' = {a \in Remedy : Validate(opt'.env, w', a).approved}
    BY <1>1, <2>1, <2>3
  <2>6. QED
    BY <1>1, <2>1, <2>2, <2>4, <2>5 DEF Opened, CopyKept
<1>5. CASE Judge
  <2>1. /\ at = "judge" /\ at' = "weigh" /\ Same(w, w', "live") /\ Same(w, w', "pre")
        /\ UNCHANGED <<applied, valid, approves>>
    BY <1>5, JudgeMoves DEF Judge
  <2>2. live' = live /\ \A a \in Remedy :
            Validate(opt.env, w, a).approved = Validate(opt.env, w', a).approved
    BY <1>1, <2>1, SameView DEF Action
  <2>3. /\ applied = Null /\ valid = {a \in Remedy : Semantic(a, live)}
        /\ approves = {a \in Remedy : Validate(opt.env, w, a).approved}
        /\ opt.counterfactual => Alike(w, "pre", w, "live") /\ w.sim["pre"].injector = TRUE
        /\ valid \subseteq Remedy /\ approves \subseteq Remedy
    BY <2>1 DEF Opened, Pending, CopyKept
  <2>4. opt.counterfactual => Alike(w', "pre", w', "live") /\ w'.sim["pre"].injector = TRUE
    <3>1. "live" \in Role /\ "pre" \in Role
      BY DEF Role
    <3>2. Alike(w, "live", w', "live") /\ Alike(w, "pre", w', "pre")
      BY <2>1, <3>1, SameIsAlike
    <3>3. QED
      BY <2>1, <2>3, <3>2 DEF Alike, Same
  <2>5. valid' = {a \in Remedy : Semantic(a, live')}
    BY <2>1, <2>2, <2>3
  <2>6. approves' = {a \in Remedy : Validate(opt'.env, w', a).approved}
    BY <1>1, <2>1, <2>2, <2>3
  <2>7. QED
    BY <1>1, <2>1, <2>3, <2>4, <2>5, <2>6 DEF Opened, CopyKept
<1>6. CASE Truth
  <2>1. /\ at = "truth" /\ at' = IF Streaming THEN "close" ELSE "execute"
        /\ Same(w, w', "live") /\ UNCHANGED <<applied, valid, approves>>
    BY <1>6, TruthMoves DEF Truth
  <2>2. live' = live /\ \A a \in Remedy :
            Validate(opt.env, w, a).approved = Validate(opt.env, w', a).approved
    BY <1>1, <2>1, SameView DEF Action
  <2>3. valid \subseteq Remedy /\ approves \subseteq Remedy
    BY DEF Opened
  <2>4. CASE Streaming
    BY <1>1, <1>2, <2>1, <2>3, <2>4 DEF Opened, Pending, CopyKept
  <2>5. CASE ~Streaming
    <3>1. /\ applied = Null /\ valid = {a \in Remedy : Semantic(a, live)}
          /\ approves = {a \in Remedy : Validate(opt.env, w, a).approved}
      BY <2>1, <2>5 DEF Opened, Pending
    <3>2. valid' = {a \in Remedy : Semantic(a, live')}
      BY <2>1, <2>2, <3>1
    <3>3. approves' = {a \in Remedy : Validate(opt'.env, w', a).approved}
      BY <1>1, <2>1, <2>2, <3>1
    <3>4. ~CopyKept'
      BY <1>1, <1>2, <2>1, <2>5 DEF CopyKept
    <3>5. QED
      BY <2>1, <2>3, <3>1, <3>2, <3>3, <3>4 DEF Opened
  <2>6. QED
    BY <2>4, <2>5
<1>7. CASE Apply
  <2>1. /\ at = "execute" /\ Same(w, w', "pre") /\ UNCHANGED <<valid, approves>>
        /\ at' = IF Streaming /\ opt.counterfactual THEN "truth" ELSE "close"
    BY <1>7, ApplyMoves DEF Apply
  <2>2. ~Pending'
    BY <1>2, <2>1 DEF Pending
  <2>3. CopyKept' => CopyKept
    BY <1>1, <1>2, <2>1 DEF CopyKept
  <2>4. w'.sim["pre"].injector = w.sim["pre"].injector
    BY <2>1 DEF Same
  <2>5. QED
    BY <2>1, <2>2, <2>3, <2>4 DEF Opened
<1>8. CASE Still \/ UNCHANGED vars
  <2>1. UNCHANGED <<w, opt>> /\ live' = live
    BY <1>8, StillMoves DEF live
  <2>2. UNCHANGED <<applied, valid, approves>>
    BY <1>8 DEF Still, Decide, DecideRaises, JudgeRaises, Accept, Exhaust, Retry, Close,
           Done, Disconnect, Finished, vars
  <2>3. (Pending' => Pending) /\ (CopyKept' => CopyKept)
    <3>1. CASE Decide \/ Retry \/ DecideRaises \/ JudgeRaises \/ Close \/ Done \/ Disconnect
      BY <1>1, <1>2, <3>1 DEF Decide, DecideRaises, JudgeRaises, Retry, Close, Done, Disconnect,
             Pending, CopyKept
    <3>2. CASE Accept \/ Exhaust
      BY <1>1, <1>2, <3>2 DEF Accept, Exhaust, AfterLoop, Pending, CopyKept
    <3>3. CASE Finished \/ UNCHANGED vars
      BY <1>1, <1>2, <3>3 DEF Finished, vars, Pending, CopyKept
    <3>4. QED
      BY <1>8, <3>1, <3>2, <3>3 DEF Still
  <2>4. QED
    BY <2>1, <2>2, <2>3 DEF Opened
<1>9. QED
  BY <1>3, <1>4, <1>5, <1>6, <1>7, <1>8, Steps

\* What is to be executed has been approved at the state it is executed in, or is
\* the fallback.
LEMMA ChosenStep ==
  ASSUME Typed, Worlds, Opened, Chosen, [Next]_vars
  PROVE  Chosen'
<1>1. Typed' /\ Worlds' /\ opt' = opt
  BY TypedStep, WorldsStep, Steps, StillMoves DEF StepTick, Open, Judge, Apply, Truth
<1>2. Streaming' = Streaming
  BY <1>1 DEF Streaming
<1>3. CASE StepTick \/ Open \/ Retry \/ Close \/ DecideRaises \/ JudgeRaises \/ Done \/ Disconnect
  <2>1. at' \in {"tick", "open", "decide", "returned", "done", "gone"}
    BY <1>3 DEF StepTick, Open, Retry, Close, DecideRaises, JudgeRaises, Done, Disconnect
  <2>2. QED
    BY <2>1 DEF Chosen
<1>4. CASE Decide
  <2>1. at' = IF opt.gate THEN "judge" ELSE "weigh"
    BY <1>4 DEF Decide
  <2>2. verdict' = NoVerdict
    BY <1>4 DEF Decide
  <2>3. QED
    BY <1>1, <2>1, <2>2 DEF Chosen, NoVerdict
<1>5. CASE Judge
  <2>1. /\ at = "judge" /\ at' = "weigh" /\ Same(w, w', "live") /\ action' = action
        /\ verdict'.diff = Validate(opt.env, w, action).diff
        /\ verdict'.approved = Validate(opt.env, w, action).approved
    BY <1>5, JudgeMoves DEF Judge
  <2>2. action \in Action /\ opt.gate
    BY <2>1 DEF Typed
  <2>3. /\ verdict'.diff = Validate(opt'.env, w', action').diff
        /\ verdict'.approved = Validate(opt'.env, w', action').approved
    BY <1>1, <2>1, <2>2, SameView
  <2>4. QED
    BY <1>1, <2>1, <2>2, <2>3 DEF Chosen
<1>6. CASE Accept
  <2>1. /\ at = "weigh" /\ verdict.approved /\ taken' = action /\ UNCHANGED <<w, opt>>
        /\ at' \in {"execute", "truth"}
    BY <1>6 DEF Accept, AfterLoop
  <2>2. verdict.approved = TRUE
    BY <2>1 DEF Typed, Verdict
  <2>3. opt.gate => Validate(opt'.env, w', taken').approved = TRUE
    BY <2>1, <2>2 DEF Chosen
  <2>4. QED
    BY <1>1, <2>1, <2>3 DEF Chosen
<1>7. CASE Exhaust
  BY <1>7 DEF Exhaust, AfterLoop, Chosen
<1>8. CASE Apply
  BY <1>2, <1>8 DEF Apply, Chosen, Pending
<1>9. CASE Truth
  <2>1. /\ at = "truth" /\ at' = IF Streaming THEN "close" ELSE "execute"
        /\ Same(w, w', "live") /\ taken' = taken
    BY <1>9, TruthMoves DEF Truth, loop
  <2>2. CASE Streaming
    BY <2>1, <2>2 DEF Chosen
  <2>3. CASE ~Streaming
    <3>1. taken \in Action /\ (opt.gate =>
              taken = NoOp \/ Validate(opt.env, w, taken).approved = TRUE)
      BY <2>1, <2>3 DEF Chosen, Pending, Typed
    <3>2. Validate(opt'.env, w', taken').approved = Validate(opt.env, w, taken).approved
      BY <1>1, <2>1, <3>1, SameView
    <3>3. QED
      BY <1>1, <2>1, <2>3, <3>1, <3>2 DEF Chosen
  <2>4. QED
    BY <2>2, <2>3
<1>10. CASE Finished \/ UNCHANGED vars
  <2>1. UNCHANGED <<w, opt, at, action, verdict, taken>> /\ Pending' = Pending
    BY <1>2, <1>10 DEF Finished, vars, loop, Pending
  <2>2. QED
    BY <2>1 DEF Chosen
<1>11. QED
  BY <1>3, <1>4, <1>5, <1>6, <1>7, <1>8, <1>9, <1>10 DEF Next

\* The invariant holds when an episode begins.
LEMMA PromiseStart == Init => PromiseInv
<1> SUFFICES ASSUME Init PROVE PromiseInv
  OBVIOUS
<1>1. Typed
  BY DEF Init, Typed, Streaming, Parts, NoVerdict, Verdict
<1>2. Worlds
  BY FreshIsWorld DEF Init, Worlds, live, Underway, Role
<1>3. Opened /\ Chosen
  BY DEF Init, Opened, Chosen, Pending, CopyKept
<1>4. QED
  BY <1>1, <1>2, <1>3 DEF PromiseInv

\* It is inductive.
LEMMA PromiseStep == PromiseInv /\ [Next]_vars => PromiseInv'
BY TypedStep, WorldsStep, OpenedStep, ChosenStep DEF PromiseInv

\* Each decision of run_stream (dashboard/live.py) and of
\* run_instrumented_episode (dashboard/driver.py) implements GatedDecision: one
\* action is executed, it is a no-op or valid in the network as it stands, and
\* with the gate on a remedy was one the twin approves there.
THEOREM EpisodesKeepPromise == Spec => ImplementsGatedDecision
<1>1. Init => Promise!Init
  BY DEF Init, Promise!Init
<1>2. PromiseInv /\ [Next]_vars => [Promise!Next]_(Promise!vars)
  <2> SUFFICES ASSUME PromiseInv, [Next]_vars PROVE [Promise!Next]_(Promise!vars)
    OBVIOUS
  <2>1. Typed /\ Worlds /\ Opened /\ Chosen /\ Opened'
    BY PromiseStep DEF PromiseInv
  <2>2. opt' = opt
    BY <2>1, Steps, StillMoves DEF StepTick, Open, Judge, Apply, Truth
  <2>3. CASE Open
    <3>1. Promise!Advance
      BY <2>1, <2>2, <2>3 DEF Promise!Advance, Open, Opened
    <3>2. QED
      BY <3>1 DEF Promise!Next
  <2>4. CASE Apply
    <3>1. /\ at = "execute" /\ applied' = (IF Semantic(taken, live) THEN taken ELSE NoOp)
          /\ UNCHANGED <<valid, approves>>
      BY <2>4 DEF Apply
    <3>2. /\ applied = Null /\ valid = {a \in Remedy : Semantic(a, live)}
          /\ approves = {a \in Remedy : Validate(opt.env, w, a).approved}
          /\ opt.gate => taken = NoOp \/ Validate(opt.env, w, taken).approved = TRUE
          /\ taken \in Action
      BY <2>1, <3>1 DEF Opened, Chosen, Pending, Typed
    <3>3. applied' \in {NoOp} \cup Promise!Allowed
      BY <3>1, <3>2 DEF Promise!Allowed, Action
    <3>4. Promise!Decide
      BY <2>2, <3>1, <3>2, <3>3 DEF Promise!Decide
    <3>5. QED
      BY <3>4 DEF Promise!Next
  <2>5. CASE ~Open /\ ~Apply
    <3>1. UNCHANGED <<applied, valid, approves>>
      BY <2>5 DEF Next, StepTick, Decide, DecideRaises, Judge, JudgeRaises, Accept, Exhaust,
             Retry, Truth, Close, Done, Disconnect, Finished, vars
    <3>2. QED
      BY <2>2, <3>1 DEF Promise!vars
  <2>6. QED
    BY <2>3, <2>4, <2>5
<1>3. Spec => []PromiseInv
  BY PromiseStart, PromiseStep, PTL DEF Spec
<1>4. QED
  BY <1>1, <1>2, <1>3, PTL DEF Spec, ImplementsGatedDecision, Promise!Spec

-----------------------------------------------------------------------------
\* The twin is reliable.

\* What the twin would say again it has said the same way before, and of two
\* no-ops that they are no different.
LEMMA AgainIsSame ==
  ASSUME NEW env, NEW u, World(u), Own(u, "live"), NEW said \in Seq(Entry),
         \A i \in 1 .. Len(said) : Again(env, u, said[i])
  PROVE  /\ \A i, j \in 1 .. Len(said) : said[i].action = said[j].action =>
                said[i].verdict = said[j].verdict
         /\ \A i \in 1 .. Len(said) : said[i].action = NoOp => said[i].verdict.diff = 0
<1>1. \A i \in 1 .. Len(said) : said[i] \in Entry
  OBVIOUS
<1>2. ASSUME NEW i \in 1 .. Len(said), NEW j \in 1 .. Len(said),
             said[i].action = said[j].action
      PROVE  said[i].verdict = said[j].verdict
  <2>1. said[i].verdict \in Verdict /\ said[j].verdict \in Verdict
    BY <1>1 DEF Entry
  <2>2. /\ said[i].verdict.diff = said[j].verdict.diff
        /\ said[i].verdict.approved = said[j].verdict.approved
    BY <1>2 DEF Again
  <2>3. QED
    BY <2>1, <2>2 DEF Verdict
<1>3. ASSUME NEW i \in 1 .. Len(said), said[i].action = NoOp
      PROVE  said[i].verdict.diff = 0
  <2>1. Again(env, u, said[i])
    OBVIOUS
  <2>2. Validate(env, u, NoOp).diff = 0
    BY ValidateNoOp
  <2>3. QED
    BY <1>3, <2>1, <2>2 DEF Again
<1>4. QED
  BY <1>2, <1>3

\* A proposal that is recorded has just been judged.
LEMMA RecordedAgain ==
  ASSUME Typed, opt.gate, Chosen, Judged, at = "weigh", NEW marked
  PROVE  \A i \in 1 .. Len(Recorded(marked)) : Again(opt.env, w, Recorded(marked)[i])
<1> DEFINE entry == [action |-> action, verdict |-> verdict, was_applied |-> marked]
<1>1. entry.action = action /\ entry.verdict = verdict
  OBVIOUS
<1>2. Again(opt.env, w, entry)
  BY <1>1 DEF Again, Chosen
<1>3. \A i \in 1 .. Len(records) : Again(opt.env, w, records[i])
  BY DEF Judged, Pending
<1> HIDE DEF entry
<1>4. /\ Len(Recorded(marked)) = Len(records) + 1
      /\ \A i \in 1 .. Len(records) : Recorded(marked)[i] = records[i]
      /\ Recorded(marked)[Len(records) + 1] = entry /\ Len(records) \in Nat
  BY DEF Typed, Recorded, entry
<1>5. QED
  <2>1. ASSUME NEW i \in 1 .. Len(Recorded(marked)) PROVE Again(opt.env, w, Recorded(marked)[i])
    <3>1. CASE i = Len(records) + 1
      BY <1>2, <1>4, <3>1
    <3>2. CASE i # Len(records) + 1
      <4>1. i \in 1 .. Len(records)
        BY <1>4, <3>2
      <4>2. QED
        BY <1>3, <1>4, <4>1
    <3>3. QED
      BY <3>1, <3>2
  <2>2. QED
    BY <2>1

\* The verdicts on record are those Validate would give again.
LEMMA JudgedStep ==
  ASSUME PromiseInv, Judged, [Next]_vars
  PROVE  Judged'
<1>1. /\ Typed /\ Worlds /\ Opened /\ Chosen /\ Typed' /\ Worlds'
  BY PromiseStep DEF PromiseInv
<1>2. opt' = opt
  BY <1>1, Steps, StillMoves DEF StepTick, Open, Judge, Apply, Truth
<1>3. Streaming' = Streaming
  BY <1>2 DEF Streaming
<1> SUFFICES ASSUME opt.gate PROVE Judged'
  BY <1>2 DEF Judged
<1>4. CASE records' = records /\ ~Pending'
  BY <1>4 DEF Judged
<1>5. CASE records' = records /\ Pending /\ w' = w
  <2>1. \A i \in 1 .. Len(records') : Again(opt'.env, w', records'[i])
    BY <1>2, <1>5 DEF Judged, Again
  <2>2. QED
    BY <1>2, <1>5, <2>1 DEF Judged
<1>6. CASE records' = records /\ Pending /\ Same(w, w', "live")
  <2>1. ASSUME NEW i \in 1 .. Len(records') PROVE Again(opt'.env, w', records'[i])
    <3>1. Again(opt.env, w, records[i]) /\ records[i] \in Entry
      BY <1>1, <1>6 DEF Judged, Typed
    <3>2. records[i].action \in Action
      BY <3>1 DEF Entry
    <3>3. /\ Validate(opt.env, w', records[i].action).diff = Validate(opt.env, w, records[i].action).diff
          /\ Validate(opt.env, w', records[i].action).approved
                 = Validate(opt.env, w, records[i].action).approved
      BY <1>1, <1>2, <1>6, <3>2, SameView
    <3>4. QED
      BY <1>2, <1>6, <3>1, <3>3 DEF Again
  <2>2. QED
    BY <1>6, <2>1 DEF Judged
<1>7. CASE records' = <<>>
  BY <1>7 DEF Judged
<1>8. CASE \/ w' = w /\ at = "weigh" /\ records' = Recorded(TRUE)
           \/ w' = w /\ at = "weigh" /\ records' = Recorded(FALSE)
  <2>1. \A i \in 1 .. Len(records') : Again(opt.env, w, records'[i])
    BY <1>1, <1>8, RecordedAgain
  <2>2. \A i \in 1 .. Len(records') : Again(opt'.env, w', records'[i])
    BY <1>2, <1>8, <2>1 DEF Again
  <2>3. /\ \A i, j \in 1 .. Len(records') : records'[i].action = records'[j].action =>
                records'[i].verdict = records'[j].verdict
        /\ \A i \in 1 .. Len(records') : records'[i].action = NoOp => records'[i].verdict.diff = 0
    <3>1. records' \in Seq(Entry) /\ World(w') /\ Own(w', "live")
      BY <1>1 DEF Typed, Worlds
    <3>2. QED
      BY <2>2, <3>1, AgainIsSame
  <2>4. QED
    BY <2>2, <2>3 DEF Judged
<1>9. CASE StepTick \/ Apply \/ Close \/ DecideRaises \/ JudgeRaises \/ Done \/ Disconnect
  <2>1. records' = records /\ ~Pending'
    BY <1>3, <1>9 DEF StepTick, Apply, Close, DecideRaises, JudgeRaises, Done, Disconnect,
           loop, Pending
  <2>2. QED
    BY <1>4, <2>1
<1>10. CASE Decide
  BY <1>5, <1>10 DEF Decide, Pending
<1>11. CASE Open
  BY <1>7, <1>11 DEF Open
<1>12. CASE Judge
  BY <1>1, <1>6, <1>12, JudgeMoves DEF Judge, Pending
<1>13. CASE Accept \/ Exhaust \/ Retry
  BY <1>8, <1>13 DEF Accept, Exhaust, Retry
<1>14. CASE Truth
  <2>1. records' = records /\ Same(w, w', "live") /\ at = "truth"
    BY <1>1, <1>14, TruthMoves DEF Truth, loop
  <2>2. Pending' => Pending
    BY <1>3, <1>14 DEF Truth, Pending
  <2>3. QED
    BY <1>4, <1>6, <2>1, <2>2
<1>15. CASE Finished \/ UNCHANGED vars
  <2>1. records' = records /\ w' = w /\ Pending' = Pending
    BY <1>3, <1>15 DEF Finished, vars, loop, Pending
  <2>2. QED
    BY <1>4, <1>5, <2>1
<1>16. QED
  BY <1>9, <1>10, <1>11, <1>12, <1>13, <1>14, <1>15 DEF Next

\* What an exact twin says before the execution is what the copy will tell.
LEMMA ExactGain ==
  ASSUME Typed, Worlds, Opened, Pending, CopyKept, Exact, NEW a \in Action
  PROVE  Validate(opt.env, w, a).diff = Gain(opt.env, w, a)
<1>1. /\ World(w) /\ Own(w, "live") /\ Own(w, "pre") /\ Alike(w, "pre", w, "live")
      /\ w.sim["pre"].injector = TRUE /\ w.sim["live"].surplus = 0
      /\ w.sim["live"].tick > 0
      /\ w.sim["live"].faulted = ((w.sim["live"].tick - 1) \in opt.env.window)
  BY DEF Worlds, Opened, live, Underway, CopyKept
<1>2. /\ w.sim["pre"].tick = w.sim["live"].tick
      /\ w.sim["pre"].faulted = w.sim["live"].faulted
  BY <1>1 DEF Alike, StateFields, SimFields
<1>3. w.sim["live"].tick \in Nat
  BY <1>1 DEF World, Role
<1>4. opt.env.error[w.sim["live"].tick] = 0 /\ ~opt.env.simplify /\ Steady(w.sim["live"].tick)
  BY DEF Exact, live
<1>5. FaultsLast(opt.env, w, "pre")
  <2>1. ASSUME NEW n \in 0 .. Horizon - 1
        PROVE  w.sim["pre"].faulted = ((w.sim["pre"].tick + n) \in opt.env.window)
    <3>1. w.sim["pre"].tick + n \in w.sim["live"].tick .. w.sim["live"].tick + Horizon - 1
      BY <1>2, <1>3, ForkAssumption
    <3>2. ((w.sim["pre"].tick + n) \in opt.env.window)
             <=> ((w.sim["live"].tick - 1) \in opt.env.window)
      BY <1>4, <3>1 DEF Steady
    <3>3. QED
      BY <1>1, <1>2, <3>2
  <2>2. QED
    BY <1>1, <2>1 DEF FaultsLast
<1>6. QED
  BY <1>1, <1>4, <1>5, ValidateForetells DEF Gain

\* The gains an exact twin told are kept until the truths are in.
LEMMA ForetoldStep ==
  ASSUME PromiseInv, Judged, Foretold, [Next]_vars
  PROVE  Foretold'
<1>1. /\ Typed /\ Worlds /\ Opened /\ Chosen /\ Typed' /\ Worlds'
  BY PromiseStep DEF PromiseInv
<1>2. opt' = opt
  BY <1>1, Steps, StillMoves DEF StepTick, Open, Judge, Apply, Truth
<1>3. Streaming' = Streaming
  BY <1>2 DEF Streaming
<1> SUFFICES ASSUME opt.gate PROVE Foretold'
  BY <1>2 DEF Foretold
<1>4. CASE at' \notin {"truth", "execute", "close"}
  BY <1>4 DEF Foretold
<1>5. CASE Accept \/ Exhaust
  <2>1. PICK marked \in BOOLEAN : records' = Recorded(marked)
    BY <1>5 DEF Accept, Exhaust
  <2>2. /\ at = "weigh" /\ w' = w /\ rows' = rows /\ at' = AfterLoop
    BY <1>5 DEF Accept, Exhaust
  <2>3. \A i \in 1 .. Len(records') : Again(opt.env, w, records'[i])
    BY <1>1, <2>1, <2>2, RecordedAgain
  <2>4. \A i \in 1 .. Len(records') : records'[i].action \in Action
    <3>1. \A i \in 1 .. Len(records') : records'[i] \in Entry
      BY <1>1 DEF Typed
    <3>2. QED
      BY <3>1 DEF Entry
  <2>5. CASE Streaming
    <3>1. at' = "execute" /\ rows' = <<>>
      BY <1>1, <1>3, <2>2, <2>5 DEF AfterLoop, Typed
    <3>2. QED
      BY <3>1 DEF Foretold
  <2>6. CASE ~Streaming
    <3>1. at' = "truth" /\ CopyKept /\ Pending
      BY <1>1, <2>2, <2>6 DEF AfterLoop, Typed, CopyKept, Pending
    <3>2. Exact' => Exact
      BY <1>2, <2>2 DEF Exact, live, Steady
    <3>3. ASSUME Exact, NEW i \in 1 .. Len(records')
          PROVE  records'[i].verdict.diff = Gain(opt.env, w, records'[i].action)
      BY <1>1, <2>3, <2>4, <3>1, <3>3, ExactGain DEF Again
    <3>4. QED
      BY <1>2, <2>2, <3>1, <3>2, <3>3 DEF Foretold
  <2>7. QED
    BY <2>5, <2>6
<1>6. CASE Apply
  <2>1. /\ at = "execute" /\ records' = records /\ rows' = rows
        /\ at' = IF Streaming /\ opt.counterfactual THEN "truth" ELSE "close"
        /\ Same(w, w', "pre") /\ live'.tick = live.tick
    BY <1>1, <1>6, ApplyMoves DEF Apply, loop
  <2>2. Exact' => Exact
    BY <1>2, <2>1 DEF Exact, Steady
  <2>3. CASE at' = "truth"
    <3>1. CopyKept /\ Pending
      BY <2>1, <2>3 DEF CopyKept, Pending
    <3>2. ASSUME Exact, NEW i \in 1 .. Len(records)
          PROVE  records[i].verdict.diff = Gain(opt.env, w', records[i].action)
      <4>1. records[i] \in Entry /\ Again(opt.env, w, records[i])
        BY <1>1, <3>1 DEF Judged, Typed
      <4>2. records[i].action \in Action
        BY <4>1 DEF Entry
      <4>3. records[i].verdict.diff = Gain(opt.env, w, records[i].action)
        BY <1>1, <3>1, <3>2, <4>1, <4>2, ExactGain DEF Again
      <4>4. Gain(opt.env, w', records[i].action) = Gain(opt.env, w, records[i].action)
        <5>1. /\ "pre" \in Role \ {"branch"} /\ "pre" \in Role /\ NoOp \in Action
              /\ World(w) /\ Own(w, "pre") /\ World(w') /\ Own(w', "pre")
          BY <1>1 DEF Role, Action, Worlds
        <5>2. Alike(w, "pre", w', "pre") /\ w.sim["pre"].injector = w'.sim["pre"].injector
          BY <2>1, <5>1, SameIsAlike DEF Same
        <5>3. /\ Told(opt.env, w, "pre", records[i].action).violations
                     = Told(opt.env, w', "pre", records[i].action).violations
              /\ Told(opt.env, w, "pre", NoOp).violations
                     = Told(opt.env, w', "pre", NoOp).violations
          BY <4>2, <5>1, <5>2, ToldAlike
        <5>4. QED
          BY <5>3 DEF Gain
      <4>5. QED
        BY <4>3, <4>4
    <3>3. QED
      BY <1>2, <2>1, <2>2, <2>3, <3>2 DEF Foretold
  <2>4. CASE at' = "close"
    BY <2>1, <2>2, <2>4 DEF Foretold
  <2>5. QED
    BY <2>1, <2>3, <2>4
<1>7. CASE Truth
  <2>1. /\ at = "truth" /\ records' = records /\ Same(w, w', "live")
        /\ at' \in {"execute", "close"} /\ Len(rows') = Len(records)
        /\ \A i \in 1 .. Len(records) : IsTruth(opt.env, w, records[i].action, rows'[i])
    BY <1>1, <1>7, TruthMoves DEF Truth, loop
  <2>2. Exact' => Exact
    <3>1. live'.tick = live.tick
      BY <2>1 DEF Same, live
    <3>2. QED
      BY <1>2, <3>1 DEF Exact, Steady
  <2>3. ASSUME Exact, NEW i \in 1 .. Len(rows')
        PROVE  records'[i].verdict.diff = rows'[i].violations - rows'[i].baseline
    <3>1. records[i].verdict.diff = Gain(opt.env, w, records[i].action)
      BY <2>1, <2>3 DEF Foretold
    <3>2. IsTruth(opt.env, w, records[i].action, rows'[i])
      BY <2>1
    <3>3. QED
      BY <2>1, <3>1, <3>2 DEF Gain, IsTruth
  <2>4. QED
    BY <2>1, <2>2, <2>3 DEF Foretold
<1>8. CASE Finished \/ UNCHANGED vars
  <2>1. UNCHANGED <<opt, w, at, records, rows>>
    BY <1>8 DEF Finished, vars, loop
  <2>2. QED
    BY <2>1 DEF Foretold, Exact, Steady, live
<1>9. CASE StepTick \/ Open \/ Decide \/ DecideRaises \/ Judge \/ JudgeRaises \/ Retry
           \/ Close \/ Done \/ Disconnect
  <2>1. at' \notin {"truth", "execute", "close"}
    BY <1>9 DEF StepTick, Open, Decide, DecideRaises, Judge, JudgeRaises, Retry, Close, Done,
           Disconnect
  <2>2. QED
    BY <1>4, <2>1
<1>10. QED
  BY <1>5, <1>6, <1>7, <1>8, <1>9 DEF Next

\* The twin can be relied on.
THEOREM TwinIsReliable == Spec => []TwinReliable
<1>1. Init => ReliableInv
  <2>1. Init => Judged /\ Foretold
    BY DEF Init, Judged, Foretold
  <2>2. QED
    BY <2>1, PromiseStart DEF ReliableInv
<1>2. ReliableInv /\ [Next]_vars => ReliableInv'
  BY PromiseStep, JudgedStep, ForetoldStep DEF ReliableInv
<1>3. ReliableInv => TwinReliable
  BY DEF ReliableInv, Judged, Foretold, TwinReliable
<1>4. QED
  BY <1>1, <1>2, <1>3, PTL DEF Spec

-----------------------------------------------------------------------------
\* Ground truth comes true.

\* A simulator that is the same has the same violations to come.
LEMMA ComingAlike ==
  ASSUME NEW env, NEW u, World(u), NEW r \in Role, Own(u, r),
         NEW v, World(v), NEW q \in Role, Own(v, q),
         Alike(u, r, v, q), u.sim[r].injector = v.sim[q].injector, NEW k \in 0 .. Horizon
  PROVE  Run(env, u, r)[k].violations = Run(env, v, q)[k].violations
<1>1. OwnGenerators(u, r) /\ OwnGenerators(v, q) /\ SameFaults(env, u, r, v, q)
  BY OwnIsOwn DEF SameFaults
<1>2. RunsAgree(env, u, r, v, q, k)
  BY <1>1, RunAlike
<1>3. QED
  BY <1>2 DEF RunsAgree

\* What is to come depends on the live simulator alone.
LEMMA ComingSame ==
  ASSUME NEW env, NEW u, World(u), Own(u, "live"), NEW v, World(v), Own(v, "live"),
         Same(u, v, "live"), NEW k \in 0 .. Horizon
  PROVE  Coming(env, v, k) = Coming(env, u, k)
<1>1. "live" \in Role /\ Alike(u, "live", v, "live") /\ u.sim["live"].injector = v.sim["live"].injector
  BY SameIsAlike DEF Role, Same
<1>2. QED
  BY <1>1, ComingAlike DEF Coming

\* What comes in no tick is nothing, and what comes in some is what the next
\* tick brings and what comes then.
Shifted(env, u, k) ==
    LET after == Step(env, u, "live") IN
    /\ Run(env, u, "live")[k + 1].w = Run(env, after, "live")[k].w
    /\ Run(env, u, "live")[k + 1].violations = (IF after.sim["live"].compliant THEN 0 ELSE 1)
           + Run(env, after, "live")[k].violations

\* What is to come in no tick is nothing.
LEMMA ComingTyped ==
  ASSUME NEW env, NEW u, World(u), Own(u, "live")
  PROVE  /\ \A k \in 0 .. Horizon : Coming(env, u, k) \in Nat
         /\ Coming(env, u, 0) = 0
<1>1. "live" \in Role /\ OwnGenerators(u, "live") /\ 0 \in 0 .. Horizon
  BY OwnIsOwn, ForkAssumption DEF Role
<1>2. \A k \in 0 .. Horizon : Coming(env, u, k) \in Nat
  BY <1>1, RunKeeps DEF RunGood, Coming
<1>3. Run(env, u, "live")[0] = RunStep(env, u, "live", Run(env, u, "live"), 0)
  BY <1>1, RunExists
<1>4. Coming(env, u, 0) = 0
  BY <1>3 DEF RunStep, Coming
<1>5. QED
  BY <1>2, <1>4

\* A run is its first tick and then the run from there: what is to come in k + 1
\* ticks is what the next tick shows and what is to come in k ticks after it.
LEMMA RunShifts ==
  ASSUME NEW env, NEW u, World(u), Own(u, "live")
  PROVE  \A k \in 0 .. Horizon - 1 : Shifted(env, u, k)
<1> DEFINE n == Horizon - 1
           good == {k \in 0 .. n : Shifted(env, u, k)}
           after == Step(env, u, "live")
           run == Run(env, u, "live")
           next == Run(env, after, "live")
           c == IF after.sim["live"].compliant THEN 0 ELSE 1
<1>1. /\ n \in Nat /\ "live" \in Role /\ OwnGenerators(u, "live")
      /\ \A k \in 0 .. n : k \in 0 .. Horizon /\ k + 1 \in 0 .. Horizon
      /\ \A k \in 1 .. n : k - 1 \in 0 .. n
  BY OwnIsOwn, ForkAssumption DEF Role
<1>2. World(after) /\ OwnGenerators(after, "live")
  BY <1>1, StepWorld, StepApart
<1>3. /\ \A k \in 0 .. Horizon : run[k] = RunStep(env, u, "live", run, k)
      /\ \A k \in 0 .. Horizon : next[k] = RunStep(env, after, "live", next, k)
  BY RunExists
<1>4. \A k \in 0 .. Horizon : next[k].violations \in Nat /\ run[k].violations \in Nat
  BY <1>1, <1>2, RunKeeps DEF RunGood
<1>5. Shifted(env, u, 0)
  <2>1. run[0] = [w |-> u, violations |-> 0] /\ next[0] = [w |-> after, violations |-> 0]
    <3>1. 0 \in 0 .. Horizon
      BY ForkAssumption
    <3> HIDE DEF run, next, after
    <3>2. run[0] = RunStep(env, u, "live", run, 0) /\ next[0] = RunStep(env, after, "live", next, 0)
      BY <1>3, <3>1
    <3>3. QED
      BY <3>2, Zenon DEF RunStep
  <2>2. run[1] = [w |-> Step(env, run[0].w, "live"), violations |-> run[0].violations
                     + (IF Step(env, run[0].w, "live").sim["live"].compliant THEN 0 ELSE 1)]
    <3>1. run[1] = RunStep(env, u, "live", run, 1)
      BY <1>1, <1>3
    <3> HIDE DEF run
    <3>2. QED
      BY <3>1 DEF RunStep
  <2>3. run[1].w = after /\ run[1].violations = c
    BY <2>1, <2>2
  <2> HIDE DEF run, next
  <2>4. run[0 + 1].w = next[0].w /\ run[0 + 1].violations = c + next[0].violations
    BY <2>1, <2>3
  <2>5. QED
    BY <2>4 DEF Shifted, run, next
<1>6. ASSUME NEW k \in 1 .. n, Shifted(env, u, k - 1) PROVE Shifted(env, u, k)
  <2>1. run[(k - 1) + 1].w = next[k - 1].w /\ run[(k - 1) + 1].violations = c + next[k - 1].violations
    BY <1>6 DEF Shifted
  <2>2. (k - 1) + 1 = k /\ k # 0 /\ k + 1 # 0 /\ (k + 1) - 1 = k /\ k \in 0 .. Horizon
        /\ k + 1 \in 0 .. Horizon /\ k - 1 \in 0 .. Horizon
    BY <1>1
  <2> HIDE DEF run, next
  <2> DEFINE later1 == Step(env, run[k].w, "live")
             later2 == Step(env, next[k - 1].w, "live")
  <2>3. run[k + 1] = [w |-> later1, violations |-> run[k].violations
                        + (IF later1.sim["live"].compliant THEN 0 ELSE 1)]
    <3>1. run[k + 1] = RunStep(env, u, "live", run, k + 1)
      BY <1>3, <2>2
    <3>2. QED
      BY <2>2, <3>1, Zenon DEF RunStep
  <2>4. next[k] = [w |-> later2, violations |-> next[k - 1].violations
                        + (IF later2.sim["live"].compliant THEN 0 ELSE 1)]
    <3>1. next[k] = RunStep(env, after, "live", next, k)
      BY <1>3, <2>2
    <3>2. QED
      BY <2>2, <3>1, Zenon DEF RunStep
  <2>5. later1 = later2 /\ run[k].violations = c + next[k - 1].violations
    BY <2>1, <2>2
  <2> HIDE DEF later1, later2
  <2>6. run[k + 1].w = next[k].w
    BY <2>3, <2>4, <2>5
  <2>7. run[k + 1].violations = c + next[k].violations
    <3>1. c \in Nat /\ next[k - 1].violations \in Nat
      BY <1>4, <2>2
    <3> HIDE DEF c
    <3>2. QED
      BY <2>3, <2>4, <2>5, <3>1
  <2>8. QED
    BY <2>6, <2>7 DEF Shifted, run, next
<1>7. 0 .. n \subseteq good
  <2>1. 0 \in good /\ \A k \in 1 .. n : k - 1 \in good => k \in good
    BY <1>1, <1>5, <1>6
  <2> HIDE DEF good, n
  <2>2. QED
    BY <1>1, <2>1, UpTo
<1>8. QED
  BY <1>7

\* What is executed is carried over to the copy that the truth is told from.
LEMMA CarriedStep ==
  ASSUME PromiseInv, Carried, [Next]_vars
  PROVE  Carried'
<1>1. /\ Typed /\ Worlds /\ Opened /\ Typed' /\ Worlds'
  BY PromiseStep DEF PromiseInv
<1>2. opt' = opt
  BY <1>1, Steps, StillMoves DEF StepTick, Open, Judge, Apply, Truth
<1>3. Streaming' = Streaming
  BY <1>2 DEF Streaming
<1>4. CASE Accept \/ Exhaust
  <2>1. PICK marked \in BOOLEAN : records' = Recorded(marked)
    BY <1>4 DEF Accept, Exhaust
  <2>2. /\ taken' = action \/ taken' = NoOp
        /\ at' = AfterLoop
    BY <1>4 DEF Accept, Exhaust
  <2>3. records' # <<>> /\ records'[Len(records')].action = action
    <3>1. records \in Seq(Entry)
      BY <1>1 DEF Typed
    <3>2. QED
      BY <2>1, <3>1 DEF Recorded
  <2>4. ~(at' = "truth" /\ Streaming')
    BY <1>3, <2>2 DEF AfterLoop
  <2>5. LastAction' = action
    BY <2>3 DEF LastAction
  <2>6. QED
    BY <2>2, <2>3, <2>4, <2>5 DEF Carried
<1>5. CASE Apply
  <2>1. /\ at = "execute" /\ taken' = taken /\ records' = records
        /\ at' = IF Streaming /\ opt.counterfactual THEN "truth" ELSE "close"
        /\ applied' = taken \/ applied' = NoOp
        /\ Same(w, w', "pre") /\ applied' \in Action /\ w' = Execute(w, "live", applied')
    BY <1>1, <1>5, ApplyMoves DEF Apply, loop
  <2>2. LastAction' = LastAction
    BY <2>1 DEF LastAction
  <2>3. ASSUME at' = "truth" PROVE Alike(Execute(w', "pre", applied'), "pre", w', "live")
    <3>1. /\ Alike(w, "pre", w, "live") /\ "pre" \in Role /\ "live" \in Role
          /\ World(w) /\ World(w')
      BY <1>1, <2>1, <2>3 DEF Opened, Pending, CopyKept, Role, Worlds
    <3>2. Alike(w, "pre", w', "pre")
      BY <2>1, <3>1, SameIsAlike
    <3>3. Alike(w', "pre", w, "live")
      BY <3>1, <3>2 DEF Alike
    <3>4. Alike(Execute(w', "pre", applied'), "pre", Execute(w, "live", applied'), "live")
      BY <2>1, <3>1, <3>3, ExecuteAlike
    <3>5. QED
      BY <2>1, <3>4
  <2>4. /\ records # <<>> /\ (taken = LastAction \/ taken = NoOp)
        /\ at' = "truth" => Streaming
    BY <2>1 DEF Carried
  <2>5. QED
    BY <2>1, <2>2, <2>3, <2>4 DEF Carried
<1>6. CASE Truth
  <2>1. /\ at = "truth" /\ taken' = taken /\ records' = records
        /\ at' \in {"close", "execute"}
    BY <1>6 DEF Truth, loop
  <2>2. LastAction' = LastAction
    BY <2>1 DEF LastAction
  <2>3. QED
    BY <2>1, <2>2 DEF Carried
<1>7. CASE Finished \/ UNCHANGED vars
  <2>1. UNCHANGED <<opt, w, at, taken, records, applied>>
    BY <1>7 DEF Finished, vars, loop
  <2>2. LastAction' = LastAction
    BY <2>1 DEF LastAction
  <2>3. QED
    BY <1>3, <2>1, <2>2 DEF Carried
<1>8. CASE StepTick \/ Open \/ Decide \/ DecideRaises \/ Judge \/ JudgeRaises \/ Retry
           \/ Close \/ Done \/ Disconnect
  <2>1. at' \notin {"truth", "execute"}
    BY <1>8 DEF StepTick, Open, Decide, DecideRaises, Judge, JudgeRaises, Retry, Close, Done,
           Disconnect
  <2>2. QED
    BY <2>1 DEF Carried
<1>9. QED
  BY <1>4, <1>5, <1>6, <1>7, <1>8 DEF Next

\* Executing a no-op does nothing.
LEMMA NoOpExecutes ==
  ASSUME NEW u, NEW r
  PROVE  Execute(u, r, NoOp) = u
BY DEF Execute, NoOp

\* The truth taken from the copy tells of the live simulator.
LEMMA CopyTells ==
  ASSUME NEW env, NEW u, World(u), Own(u, "pre"), u.sim["pre"].injector = TRUE,
         NEW v, World(v), Own(v, "live"), v.sim["live"].injector = TRUE,
         NEW a \in Action, Alike(Execute(u, "pre", a), "pre", v, "live")
  PROVE  Told(env, u, "pre", a).violations = Coming(env, v, Horizon)
<1>1. /\ "pre" \in Role \ {"branch"} /\ "pre" \in Role /\ "live" \in Role
      /\ Horizon \in 0 .. Horizon
  BY ForkAssumption DEF Role
<1>2. Alike(u, "pre", u, "pre")
  BY <1>1, SameIsAlike DEF Same
<1> DEFINE x == Execute(u, "pre", a)
<1>3. Told(env, u, "pre", a).violations = Run(env, x, "pre")[Horizon].violations
  BY <1>1, <1>2, RolloutForetells
<1>4. World(x) /\ Own(x, "pre") /\ x.sim["pre"].injector = u.sim["pre"].injector
  BY <1>1, ExecuteKeeps DEF Own
<1> HIDE DEF x
<1>5. Alike(x, "pre", v, "live")
  BY DEF x
<1>6. x.sim["pre"].injector = v.sim["live"].injector
  BY <1>4
<1>7. Run(env, x, "pre")[Horizon].violations = Run(env, v, "live")[Horizon].violations
  BY <1>1, <1>4, <1>5, <1>6, ComingAlike
<1>8. QED
  BY <1>3, <1>7 DEF Coming

\* A row of ground truth tells what the live simulator goes on to have, whether it
\* is taken before the action is executed (the driver) or after it (the stream).
LEMMA RowsToldStep ==
  ASSUME PromiseInv, Carried, RowsTold, [Next]_vars
  PROVE  RowsTold'
<1>1. /\ Typed /\ Worlds /\ Opened /\ Typed' /\ Worlds'
  BY PromiseStep DEF PromiseInv
<1>2. opt' = opt
  BY <1>1, Steps, StillMoves DEF StepTick, Open, Judge, Apply, Truth
<1>3. Streaming' = Streaming
  BY <1>2 DEF Streaming
<1>4. NoOp \in Action /\ "live" \in Role /\ "pre" \in Role
  BY DEF Action, Role
<1>5. CASE Truth
  <2> DEFINE n == Len(records)
  <2>1. /\ at = "truth" /\ taken' = taken /\ records' = records /\ applied' = applied
        /\ at' = IF Streaming THEN "close" ELSE "execute"
        /\ Same(w, w', "live") /\ Len(rows') = n /\ rows' \in Seq(Row)
        /\ \A i \in 1 .. n : IsTruth(opt.env, w, records[i].action, rows'[i])
    BY <1>1, <1>5, TruthMoves DEF Truth, loop
  <2>2. records \in Seq(Entry) /\ records # <<>> /\ taken \in Action
        /\ (taken = LastAction \/ taken = NoOp)
    BY <1>1, <2>1 DEF Typed, Carried
  <2>3. n \in Nat \ {0} /\ n \in 1 .. n /\ LastAction' = LastAction /\ rows' # <<>>
        /\ LastAction \in Action
    <3>1. n \in Nat \ {0} /\ records[n] \in Entry
      BY <2>2
    <3>2. LastAction \in Action
      BY <3>1 DEF LastAction, Entry
    <3>3. rows' # <<>>
      BY <2>1, <3>1
    <3>4. QED
      BY <2>1, <3>1, <3>2, <3>3 DEF LastAction
  <2>4. /\ rows'[Len(rows')].violations = Told(opt.env, w, "pre", LastAction).violations
        /\ rows'[Len(rows')].baseline = Told(opt.env, w, "pre", NoOp).violations
    BY <2>1, <2>3 DEF IsTruth, LastAction
  <2>5. /\ World(w) /\ Own(w, "pre") /\ World(w') /\ Own(w', "live")
        /\ w'.sim["live"].injector = TRUE /\ w.sim["pre"].injector = TRUE
    BY <1>1, <2>1 DEF Worlds, live, Opened, CopyKept, Typed
  <2>6. Alike(w, "live", w', "live")
    BY <1>4, <2>1, SameIsAlike
  <2>7. CASE Streaming
    <3>1. /\ applied = taken \/ applied = NoOp
          /\ Alike(Execute(w, "pre", applied), "pre", w, "live")
      BY <2>1, <2>7 DEF Carried
    <3>2. applied \in Action /\ Alike(Execute(w, "pre", applied), "pre", w', "live")
      BY <1>4, <2>2, <2>6, <3>1 DEF Alike
    <3>3. Told(opt.env, w, "pre", applied).violations = Coming(opt.env, w', Horizon)
      BY <2>5, <3>2, CopyTells
    <3>4. applied = NoOp \/ applied = LastAction
      BY <2>2, <3>1
    <3>5. Forecast'.violations = (IF applied = NoOp THEN rows'[Len(rows')].baseline
                                 ELSE rows'[Len(rows')].violations)
      BY <2>1 DEF Forecast
    <3>6. Forecast'.violations = Coming(opt.env, w', Horizon)
      BY <2>4, <3>3, <3>4, <3>5
    <3>7. QED
      BY <1>2, <2>1, <2>7, <3>6 DEF RowsTold
  <2>8. CASE ~Streaming
    <3>1. Alike(w, "pre", w, "live")
      BY <1>1, <2>1, <2>8 DEF Opened, Pending, CopyKept, Typed
    <3>2. Alike(w, "pre", w', "live")
      BY <2>6, <3>1 DEF Alike
    <3>3. /\ "pre" \in Role \ {"branch"} /\ w.sim["pre"].injector = w'.sim["live"].injector
      BY <2>5 DEF Role
    <3>4. \A a \in Action : Told(opt.env, w, "pre", a).violations
                                = Coming(opt.env, Execute(w', "live", a), Horizon)
      BY <1>4, <2>5, <3>2, <3>3, RolloutForetells DEF Coming
    <3>5. /\ rows'[Len(rows')].baseline = Coming(opt.env, w', Horizon)
          /\ rows'[Len(rows')].violations
                 = Coming(opt.env, Execute(w', "live", LastAction'), Horizon)
      BY <1>4, <2>3, <2>4, <3>4, NoOpExecutes
    <3>6. QED
      BY <1>2, <1>3, <2>1, <2>3, <2>8, <3>5 DEF RowsTold
  <2>9. QED
    BY <2>7, <2>8
<1>6. CASE Apply
  <2>1. /\ at = "execute" /\ taken' = taken /\ records' = records /\ rows' = rows
        /\ at' = IF Streaming /\ opt.counterfactual THEN "truth" ELSE "close"
        /\ applied' = taken \/ applied' = NoOp
        /\ w' = Execute(w, "live", applied')
    BY <1>1, <1>6, ApplyMoves DEF Apply, loop
  <2>2. CASE Streaming
    <3>1. rows' = <<>>
      BY <1>1, <2>1, <2>2 DEF Typed
    <3>2. QED
      BY <2>1, <3>1 DEF RowsTold
  <2>3. CASE ~Streaming
    <3>1. /\ rows # <<>> /\ rows[Len(rows)].baseline = Coming(opt.env, w, Horizon)
          /\ rows[Len(rows)].violations = Coming(opt.env, Execute(w, "live", LastAction), Horizon)
          /\ taken = LastAction \/ taken = NoOp
      BY <2>1, <2>3 DEF RowsTold, Carried
    <3>2. Forecast'.violations = (IF applied' = NoOp THEN rows[Len(rows)].baseline
                                 ELSE rows[Len(rows)].violations)
      BY <2>1 DEF Forecast
    <3>3. Forecast'.violations = Coming(opt.env, w', Horizon)
      BY <2>1, <3>1, <3>2, NoOpExecutes
    <3>4. QED
      BY <1>2, <2>1, <3>3 DEF RowsTold
  <2>4. QED
    BY <2>2, <2>3
<1>7. CASE Finished \/ UNCHANGED vars
  <2>1. UNCHANGED <<opt, w, at, rows, records, applied>>
    BY <1>7 DEF Finished, vars, loop
  <2>2. LastAction' = LastAction /\ Forecast' = Forecast
    BY <2>1 DEF LastAction, Forecast
  <2>3. QED
    BY <1>3, <2>1, <2>2 DEF RowsTold
<1>8. CASE Accept \/ Exhaust
  <2>1. at' # "close" /\ ~(at' = "execute" /\ ~Streaming')
    BY <1>3, <1>8 DEF Accept, Exhaust, AfterLoop
  <2>2. QED
    BY <2>1 DEF RowsTold
<1>9. CASE StepTick \/ Open \/ Decide \/ DecideRaises \/ Judge \/ JudgeRaises \/ Retry
           \/ Close \/ Done \/ Disconnect
  <2>1. at' \notin {"close", "execute"}
    BY <1>9 DEF StepTick, Open, Decide, DecideRaises, Judge, JudgeRaises, Retry, Close, Done,
           Disconnect
  <2>2. QED
    BY <2>1 DEF RowsTold
<1>10. QED
  BY <1>5, <1>6, <1>7, <1>8, <1>9 DEF Next

\* A forecast and what has been seen of it add up as the live simulator runs.
LEMMA OwedStep ==
  ASSUME PromiseInv, RowsTold, OwedInv, [Next]_vars
  PROVE  OwedInv'
<1>1. /\ Typed /\ Worlds /\ Opened /\ Typed' /\ Worlds'
  BY PromiseStep DEF PromiseInv
<1>2. opt' = opt
  BY <1>1, Steps, StillMoves DEF StepTick, Open, Judge, Apply, Truth
<1>3. Streaming' = Streaming
  BY <1>2 DEF Streaming
<1>4. /\ World(w) /\ Own(w, "live") /\ World(w') /\ Own(w', "live")
      /\ Horizon \in Nat /\ Horizon # 0 /\ 0 \in 0 .. Horizon
  BY <1>1, ForkAssumption DEF Worlds
<1>5. ASSUME owed' = owed, Same(w, w', "live"), Superseded => Superseded'
      PROVE  OwedInv'
  <2>1. ASSUME NEW f \in owed
        PROVE  /\ f \in [left : 0 .. Horizon, seen : Nat, violations : Nat]
               /\ f.left = 0 => f.seen = f.violations
               /\ ~Superseded' => f.seen + Coming(opt.env, w', f.left) = f.violations
    <3>1. /\ f \in [left : 0 .. Horizon, seen : Nat, violations : Nat]
          /\ f.left = 0 => f.seen = f.violations
          /\ ~Superseded => f.seen + Coming(opt.env, w, f.left) = f.violations
      BY DEF OwedInv
    <3>2. f.left \in 0 .. Horizon
      BY <3>1
    <3>3. Coming(opt.env, w', f.left) = Coming(opt.env, w, f.left)
      BY <1>4, <1>5, <3>2, ComingSame
    <3>4. QED
      BY <1>5, <3>1, <3>3
  <2>2. QED
    BY <1>2, <1>5, <2>1 DEF OwedInv
<1>6. CASE StepTick
  <2> DEFINE c == IF w'.sim["live"].compliant THEN 0 ELSE 1
  <2>1. /\ at = "tick" /\ w' = Step(opt.env, w, "live")
        /\ owed' = Observe(w'.sim["live"].compliant)
    BY <1>6 DEF StepTick
  <2>2. ~Superseded
    BY <2>1 DEF Superseded
  <2>3. ASSUME NEW f \in owed'
        PROVE  /\ f \in [left : 0 .. Horizon, seen : Nat, violations : Nat]
               /\ f.left = 0 => f.seen = f.violations
               /\ f.seen + Coming(opt.env, w', f.left) = f.violations
    <3>1. PICK g \in owed : g.left > 0 /\ f = [g EXCEPT !.left = @ - 1, !.seen = @ + c]
      BY <2>1 DEF Observe
    <3>2. /\ g \in [left : 0 .. Horizon, seen : Nat, violations : Nat]
          /\ g.seen + Coming(opt.env, w, g.left) = g.violations
      BY <2>2 DEF OwedInv
    <3>3. c \in Nat
      OBVIOUS
    <3>4. c = IF Step(opt.env, w, "live").sim["live"].compliant THEN 0 ELSE 1
      BY <2>1
    <3> HIDE DEF c
    <3>5. /\ f.left = g.left - 1 /\ f.seen = g.seen + c /\ f.violations = g.violations
          /\ f \in [left : 0 .. Horizon, seen : Nat, violations : Nat]
          /\ f.left \in 0 .. Horizon - 1 /\ f.left + 1 = g.left /\ f.left \in 0 .. Horizon
          /\ g.seen \in Nat /\ g.violations \in Nat
      <4>1. /\ g.left \in 0 .. Horizon /\ g.seen \in Nat /\ g.violations \in Nat
            /\ g.left - 1 \in 0 .. Horizon /\ g.left - 1 \in 0 .. Horizon - 1
            /\ (g.left - 1) + 1 = g.left
        BY <1>4, <3>1, <3>2
      <4>2. f = [left |-> g.left - 1, seen |-> g.seen + c, violations |-> g.violations]
        BY <3>1, <3>2
      <4>3. g.seen + c \in Nat
        BY <3>3, <4>1
      <4>4. QED
        BY <4>1, <4>2, <4>3
    <3>6. Shifted(opt.env, w, f.left)
      BY <1>4, <3>5, RunShifts
    <3>7. Coming(opt.env, w, g.left) = c + Coming(opt.env, w', f.left)
      BY <2>1, <3>4, <3>5, <3>6 DEF Shifted, Coming
    <3>8. Coming(opt.env, w', f.left) \in Nat /\ Coming(opt.env, w', 0) = 0
      BY <1>4, <3>5, ComingTyped
    <3>9. f.seen + Coming(opt.env, w', f.left) = f.violations
      BY <3>2, <3>3, <3>5, <3>7, <3>8
    <3>10. f.left = 0 => f.seen = f.violations
      BY <3>3, <3>5, <3>8, <3>9
    <3>11. QED
      BY <3>5, <3>9, <3>10
  <2>4. QED
    BY <1>2, <2>3 DEF OwedInv
<1>7. CASE Close
  <2>1. /\ at = "close" /\ at' = "tick" /\ w' = w
        /\ owed' = (IF applied = NoOp THEN owed ELSE {})
                      \cup (IF rows = <<>> THEN {} ELSE {Forecast})
    BY <1>7 DEF Close
  <2>2. ASSUME NEW f \in owed'
        PROVE  /\ f \in [left : 0 .. Horizon, seen : Nat, violations : Nat]
               /\ f.left = 0 => f.seen = f.violations
               /\ f.seen + Coming(opt.env, w, f.left) = f.violations
    <3>1. CASE applied = NoOp /\ f \in owed
      <4>1. ~Superseded
        BY <3>1 DEF Superseded, NoOp, Remedy
      <4>2. QED
        BY <3>1, <4>1 DEF OwedInv
    <3>2. CASE rows # <<>> /\ f = Forecast
      <4>1. Forecast.violations = Coming(opt.env, w, Horizon)
        BY <2>1, <3>2 DEF RowsTold
      <4>2. Coming(opt.env, w, Horizon) \in Nat
        BY <1>4, ComingTyped
      <4>3. f.left = Horizon /\ f.seen = 0 /\ f.violations = Forecast.violations
            /\ f = [left |-> Horizon, seen |-> 0, violations |-> Forecast.violations]
        BY <3>2 DEF Forecast
      <4>4. QED
        BY <1>4, <4>1, <4>2, <4>3
    <3>3. QED
      BY <2>1, <3>1, <3>2
  <2>3. QED
    BY <1>2, <2>1, <2>2 DEF OwedInv
<1>8. CASE Apply
  <2>1. /\ at = "execute" /\ owed' = owed /\ w' = Execute(w, "live", applied')
        /\ at' \in {"truth", "close"} /\ applied' \in Action
    BY <1>1, <1>8, ApplyMoves DEF Apply
  <2>2. CASE applied' = NoOp
    <3>1. w' = w /\ ~Superseded
      BY <2>1, <2>2, NoOpExecutes DEF Superseded
    <3>2. Same(w, w', "live")
      BY <3>1 DEF Same
    <3>3. QED
      BY <1>5, <2>1, <3>1, <3>2
  <2>3. CASE applied' # NoOp
    <3>1. Superseded'
      BY <2>1, <2>3 DEF Superseded, Action
    <3>2. QED
      BY <2>1, <3>1 DEF OwedInv
  <2>4. QED
    BY <2>2, <2>3
<1>9. CASE Truth
  <2>1. /\ at = "truth" /\ owed' = owed /\ applied' = applied /\ Same(w, w', "live")
        /\ at' = IF Streaming THEN "close" ELSE "execute"
    BY <1>1, <1>9, TruthMoves DEF Truth
  <2>2. Superseded => Superseded'
    <3>1. CASE Streaming
      BY <2>1, <3>1 DEF Superseded
    <3>2. CASE ~Streaming
      BY <1>1, <2>1, <3>2 DEF Superseded, Opened, Pending, Remedy, Null
    <3>3. QED
      BY <3>1, <3>2
  <2>3. QED
    BY <1>5, <2>1, <2>2
<1>10. CASE Judge \/ Open
  <2>1. /\ at \in {"judge", "open"} /\ owed' = owed /\ Same(w, w', "live")
    BY <1>1, <1>10, JudgeMoves, OpenMoves DEF Judge, Open
  <2>2. QED
    BY <1>5, <2>1 DEF Superseded
<1>11. CASE UNCHANGED vars \/ Finished \/ Decide \/ DecideRaises \/ JudgeRaises \/ Accept
            \/ Exhaust \/ Retry \/ Done \/ Disconnect
  <2>1. UNCHANGED <<w, owed>>
    BY <1>11 DEF Finished, vars, Decide, DecideRaises, JudgeRaises, Accept, Exhaust, Retry,
           Done, Disconnect
  <2>2. Superseded => Superseded'
    BY <1>11 DEF Finished, vars, Decide, DecideRaises, JudgeRaises, Accept, Exhaust, Retry,
           Done, Disconnect, Superseded, Over
  <2>3. Same(w, w', "live")
    BY <2>1 DEF Same
  <2>4. QED
    BY <1>5, <2>1, <2>2, <2>3
<1>12. QED
  BY <1>6, <1>7, <1>8, <1>9, <1>10, <1>11 DEF Next

\* The ground truth of evaluate_decision (dashboard/driver.py) comes true: the
\* violations it counts for the executed action are those the live simulator has
\* in the ticks that follow, as long as no later remedy intervenes.
THEOREM TruthsComeTrue == Spec => []TruthComesTrue
<1>1. Init => ForecastInv
  <2>1. Init => Carried /\ RowsTold /\ OwedInv
    BY DEF Init, Carried, RowsTold, OwedInv
  <2>2. QED
    BY <2>1, PromiseStart DEF ForecastInv
<1>2. ForecastInv /\ [Next]_vars => ForecastInv'
  BY PromiseStep, CarriedStep, RowsToldStep, OwedStep DEF ForecastInv
<1>3. ForecastInv => TruthComesTrue
  BY DEF ForecastInv, OwedInv, TruthComesTrue
<1>4. QED
  BY <1>1, <1>2, <1>3, PTL DEF Spec

-----------------------------------------------------------------------------
\* Totals reconcile.

\* How many of a set of parts the loop is in: one or none.
One(parts) == IF at \in parts THEN 1 ELSE 0
Fields == {"proposals", "harmful", "blocked", "safe_blocked", "retries", "exhausted",
           "llm_calls", "twin_n"}
Tallied == totals \in [Fields -> Nat] /\ sent \in [Kinds -> Nat]

\* A stream that goes on has told everything it has counted, and each decision
\* it has opened is at the part the loop is at.
Aborted == at \in {"returned", "gone"}
StreamTold == Streaming /\ ~Aborted =>
    /\ totals.proposals = sent["proposal"] /\ totals.retries = sent["retry"]
    /\ totals.exhausted = sent["exhausted"] /\ totals.llm_calls = sent["llm_call"]
    /\ totals.twin_n + (IF opt.gate THEN One({"judge"}) ELSE 0)
           = IF opt.gate THEN totals.proposals ELSE 0
    /\ totals.proposals + One({"decide"}) = sent["decision_open"] + totals.retries
    /\ sent["applied"] + One({"decide", "judge", "weigh", "execute"}) = sent["decision_open"]
    /\ sent["decision_close"] + One({"decide", "judge", "weigh", "execute", "truth", "close"})
           = sent["decision_open"]

\* The rejections that have not been evaluated yet are those of the proposals on
\* record; so are the proposals that may yet turn out harmful.
BlockedNow == {i \in 1 .. Len(records) : Blocked(i)}
Unjudged == IF at \in {"decide", "judge", "weigh", "execute", "truth"}
            THEN Cardinality(BlockedNow) ELSE 0
StreamBlocked == Streaming /\ opt.counterfactual /\ ~Aborted =>
    totals.blocked + totals.safe_blocked + Unjudged = totals.retries + totals.exhausted
HarmBounded ==
    /\ totals.blocked <= totals.harmful
    /\ totals.harmful + (IF CopyKept THEN Len(records) ELSE 0) + One({"judge", "weigh"})
           <= totals.proposals

Books == Tallied /\ StreamTold /\ StreamBlocked /\ HarmBounded
TotalsInv == PromiseInv /\ Books

\* Adding to one counter leaves the others, and adds nothing to a counter the
\* loop does not keep.
Gained(t, u, f, n) ==
    /\ u \in [Fields -> Nat]
    /\ \A g \in Fields : u[g] = IF g = f /\ f \in Counted THEN t[g] + n ELSE t[g]

\* Add does that.
LEMMA AddGains ==
  ASSUME NEW t \in [Fields -> Nat], NEW f \in Fields, NEW n \in Nat
  PROVE  Gained(t, Add(t, f, n), f, n)
<1>1. CASE f \in Counted
  <2>1. Add(t, f, n) = [t EXCEPT ![f] = t[f] + n]
    BY <1>1 DEF Add
  <2>2. t[f] + n \in Nat
    OBVIOUS
  <2>3. QED
    BY <1>1, <2>1, <2>2 DEF Gained
<1>2. CASE f \notin Counted
  BY <1>2 DEF Add, Gained
<1>3. QED
  BY <1>1, <1>2

\* A stream keeps every counter, the driver those of its view.
LEMMA CountedFields ==
  ASSUME Tallied
  PROVE  Counted = IF Streaming THEN Fields ELSE {"proposals", "harmful", "blocked"}
BY DEF Tallied, Counted

\* An event is counted under its type, by a stream only.
LEMMA EmitCounts ==
  ASSUME Tallied, NEW kind \in Kinds, Emit(kind)
  PROVE  /\ sent' \in [Kinds -> Nat]
         /\ \A k \in Kinds : sent'[k] = IF k = kind /\ Streaming THEN sent[k] + 1 ELSE sent[k]
BY DEF Tallied, Emit

\* A proposal that is put on record is one more, and one more rejection when
\* the twin has rejected it.
LEMMA RecordCounts ==
  ASSUME Typed, NEW marked \in BOOLEAN, records' = Recorded(marked), opt' = opt
  PROVE  /\ Len(records) \in Nat /\ Len(records') = Len(records) + 1
         /\ Cardinality(BlockedNow) \in Nat
         /\ Cardinality(BlockedNow')
              = Cardinality(BlockedNow) + (IF opt.gate /\ ~verdict.approved THEN 1 ELSE 0)
<1> DEFINE n == Len(records)
           entry == [action |-> action, verdict |-> verdict, was_applied |-> marked]
<1>1. records \in Seq(Entry) /\ n \in Nat
  BY DEF Typed
<1>2. /\ Len(records') = n + 1 /\ records'[n + 1] = entry
      /\ \A i \in 1 .. n : records'[i] = records[i]
  BY <1>1 DEF Recorded
<1>3. records'[n + 1].verdict.approved = verdict.approved
  BY <1>2
<1>4. IsFiniteSet(1 .. n)
  BY <1>1, FS_Interval
<1>5. IsFiniteSet(BlockedNow) /\ Cardinality(BlockedNow) \in Nat
  <2>1. BlockedNow \in SUBSET (1 .. n)
    BY DEF BlockedNow
  <2>2. QED
    BY <1>4, <2>1, FS_Subset, FS_CardinalityType
<1>6. BlockedNow' = BlockedNow \cup (IF opt.gate /\ ~verdict.approved THEN {n + 1} ELSE {})
  <2>1. BlockedNow' = {i \in 1 .. n + 1 : opt.gate /\ ~records'[i].verdict.approved}
    BY <1>2 DEF BlockedNow, Blocked
  <2>2. BlockedNow = {i \in 1 .. n : opt.gate /\ ~records'[i].verdict.approved}
    BY <1>2 DEF BlockedNow, Blocked
  <2>3. 1 .. n + 1 = (1 .. n) \cup {n + 1}
    BY <1>1
  <2>4. QED
    BY <1>3, <2>1, <2>2, <2>3
<1>7. n + 1 \notin BlockedNow
  BY <1>1 DEF BlockedNow
<1>8. Cardinality(BlockedNow \cup {n + 1}) = Cardinality(BlockedNow) + 1
  BY <1>5, <1>7, FS_AddElement
<1>9. Len(records) \in Nat /\ Len(records') = Len(records) + 1
  BY <1>1, <1>2
<1> HIDE DEF n
<1>10. CASE opt.gate /\ ~verdict.approved
  <2>1. BlockedNow' = BlockedNow \cup {n + 1}
    BY <1>6, <1>10
  <2>2. Cardinality(BlockedNow') = Cardinality(BlockedNow) + 1
    BY <1>8, <2>1
  <2>3. QED
    BY <1>5, <1>9, <1>10, <2>2
<1>11. CASE ~(opt.gate /\ ~verdict.approved)
  <2>1. BlockedNow' = BlockedNow
    BY <1>6, <1>11
  <2>2. Cardinality(BlockedNow') = Cardinality(BlockedNow)
    BY <2>1
  <2>3. QED
    BY <1>5, <1>9, <1>11, <2>2
<1>12. QED
  BY <1>10, <1>11

\* The truths of a decision sort its rejections into harmful and safe ones.
LEMMA TallyCounts ==
  ASSUME Typed, Tallied, NEW r
  PROVE  \E h, b, s \in Nat :
            /\ Tally(r) = Outcomes(h, b, s)
            /\ b <= h /\ h <= Len(records) /\ b + s = Cardinality(BlockedNow)
<1> DEFINE n == Len(records)
           H == {i \in 1 .. n : r[i].harmful}
           B == {i \in 1 .. n : r[i].harmful /\ Blocked(i)}
           S == {i \in 1 .. n : ~r[i].harmful /\ Blocked(i)}
<1>1. n \in Nat
  BY DEF Typed
<1>2. Tally(r) = Outcomes(Cardinality(H), Cardinality(B), Cardinality(S))
  BY DEF Tally, Count
<1>3. IsFiniteSet(1 .. n) /\ Cardinality(1 .. n) = n
  <2>1. n \in Int /\ 1 \in Int
    BY <1>1
  <2> HIDE DEF n
  <2>2. IsFiniteSet(1 .. n) /\ Cardinality(1 .. n) = IF 1 > n THEN 0 ELSE n - 1 + 1
    BY <2>1, FS_Interval
  <2>3. (IF 1 > n THEN 0 ELSE n - 1 + 1) = n
    BY <1>1
  <2>4. QED
    BY <2>2, <2>3
<1>4. /\ H \in SUBSET (1 .. n) /\ B \in SUBSET H /\ S \in SUBSET (1 .. n)
      /\ B \in SUBSET (1 .. n) /\ B \cup S = BlockedNow /\ B \cap S = {}
  BY DEF BlockedNow
<1> HIDE DEF n, H, B, S
<1>5. /\ IsFiniteSet(H) /\ Cardinality(H) <= n
      /\ IsFiniteSet(B) /\ IsFiniteSet(S)
  <2>1. IsFiniteSet(H) /\ Cardinality(H) <= n
    <3>1. IsFiniteSet(H) /\ Cardinality(H) <= Cardinality(1 .. n)
      BY <1>3, <1>4, FS_Subset
    <3>2. QED
      BY <1>3, <3>1
  <2>2. IsFiniteSet(B)
    BY <1>3, <1>4, FS_Subset
  <2>3. IsFiniteSet(S)
    BY <1>3, <1>4, FS_Subset
  <2>4. QED
    BY <2>1, <2>2, <2>3
<1>6. Cardinality(B) <= Cardinality(H)
  BY <1>4, <1>5, FS_Subset
<1>7. /\ Cardinality(H) \in Nat /\ Cardinality(B) \in Nat /\ Cardinality(S) \in Nat
  BY <1>5, FS_CardinalityType
<1>8. Cardinality(BlockedNow) = Cardinality(B) + Cardinality(S)
  <2>1. Cardinality(B \cup S) = Cardinality(B) + Cardinality(S) - Cardinality(B \cap S)
    BY <1>5, FS_Union
  <2>2. Cardinality(B \cap S) = 0
    BY <1>4, FS_EmptySet
  <2>3. Cardinality(B \cup S) = Cardinality(BlockedNow)
    BY <1>4
  <2>4. QED
    BY <1>7, <2>1, <2>2, <2>3
<1>9. QED
  BY <1>2, <1>5, <1>6, <1>7, <1>8 DEF n

\* What a tally adds to the counters.
LEMMA OutcomesCount ==
  ASSUME Tallied, NEW h \in Nat, NEW b \in Nat, NEW s \in Nat
  PROVE  /\ Outcomes(h, b, s) \in [Fields -> Nat]
         /\ Outcomes(h, b, s).harmful = totals.harmful + h
         /\ Outcomes(h, b, s).blocked = totals.blocked + b
         /\ Streaming => Outcomes(h, b, s).safe_blocked = totals.safe_blocked + s
         /\ \A g \in Fields \ {"harmful", "blocked", "safe_blocked"} :
               Outcomes(h, b, s)[g] = totals[g]
<1> DEFINE t1 == Add(totals, "harmful", h)
           t2 == Add(t1, "blocked", b)
           t3 == Add(t2, "safe_blocked", s)
<1>1. /\ totals \in [Fields -> Nat]
      /\ "harmful" \in Fields /\ "blocked" \in Fields /\ "safe_blocked" \in Fields
  BY DEF Tallied, Fields
<1>2. Outcomes(h, b, s) = t3
  BY DEF Outcomes
<1>3. Gained(totals, t1, "harmful", h)
  BY <1>1, AddGains
<1>4. t1 \in [Fields -> Nat]
  BY <1>3 DEF Gained
<1> HIDE DEF t1
<1>5. Gained(t1, t2, "blocked", b)
  BY <1>1, <1>4, AddGains
<1>6. t2 \in [Fields -> Nat]
  BY <1>5 DEF Gained
<1> HIDE DEF t2
<1>7. Gained(t2, t3, "safe_blocked", s)
  BY <1>1, <1>6, AddGains
<1> HIDE DEF t3
<1>8. /\ "harmful" \in Counted /\ "blocked" \in Counted
      /\ Streaming => "safe_blocked" \in Counted
  BY <1>1, CountedFields
<1>9. QED
  BY <1>1, <1>2, <1>3, <1>5, <1>7, <1>8 DEF Gained

\* Every counter is a number.
LEMMA Numbers ==
  ASSUME Tallied
  PROVE  /\ totals.proposals \in Nat /\ totals.harmful \in Nat /\ totals.blocked \in Nat
         /\ totals.safe_blocked \in Nat /\ totals.retries \in Nat /\ totals.exhausted \in Nat
         /\ totals.llm_calls \in Nat /\ totals.twin_n \in Nat
         /\ sent["proposal"] \in Nat /\ sent["retry"] \in Nat /\ sent["exhausted"] \in Nat
         /\ sent["llm_call"] \in Nat /\ sent["decision_open"] \in Nat
         /\ sent["applied"] \in Nat /\ sent["decision_close"] \in Nat
BY DEF Tallied, Fields, Kinds

\* The events that no counter is compared with.
LEMMA EmitOther ==
  ASSUME Tallied, NEW kind \in {"tick", "verdict", "truth", "done", "error"}, Emit(kind)
  PROVE  /\ sent' \in [Kinds -> Nat]
         /\ \A k \in Kinds \ {"tick", "verdict", "truth", "done", "error"} : sent'[k] = sent[k]
<1>1. kind \in Kinds
  BY DEF Kinds
<1>2. QED
  BY <1>1, EmitCounts

\* Nothing that is counted changes when a stream takes these steps.
LEMMA TotalsUncounted ==
  ASSUME TotalsInv, StepTick \/ Done \/ DecideRaises \/ JudgeRaises \/ Disconnect
  PROVE  Books'
<1>1. /\ totals' = totals /\ opt' = opt /\ records' = records
      /\ sent' \in [Kinds -> Nat]
      /\ \A k \in Kinds \ {"tick", "verdict", "truth", "done", "error"} : sent'[k] = sent[k]
      /\ \/ at = "tick" /\ at' \in {"tick", "open", "done"}
         \/ at' \in {"returned", "gone"}
  <2>1. CASE StepTick
    BY <2>1, EmitOther DEF StepTick, loop, TotalsInv, Books
  <2>2. CASE Done
    BY <2>2, EmitOther DEF Done, loop, TotalsInv, Books
  <2>3. CASE DecideRaises
    BY <2>3, EmitOther DEF DecideRaises, loop, TotalsInv, Books
  <2>4. CASE JudgeRaises
    BY <2>4, EmitOther DEF JudgeRaises, loop, TotalsInv, Books
  <2>5. CASE Disconnect
    BY <2>5 DEF Disconnect, loop, told, TotalsInv, Books, Tallied
  <2>6. QED
    BY <2>1, <2>2, <2>3, <2>4, <2>5
<1>2. Streaming' = Streaming /\ BlockedNow' = BlockedNow
  BY <1>1 DEF Streaming, BlockedNow, Blocked
<1>3. Len(records) \in Nat /\ Tallied'
  BY <1>1 DEF TotalsInv, Books, PromiseInv, Typed, Tallied
<1>4. StreamTold'
  <2>1. CASE at' \in {"returned", "gone"}
    BY <2>1 DEF StreamTold, Aborted
  <2>2. CASE at = "tick" /\ at' \in {"tick", "open", "done"}
    <3>1. /\ {"proposal", "retry", "exhausted", "llm_call", "decision_open", "applied",
              "decision_close"} \subseteq Kinds \ {"tick", "verdict", "truth", "done", "error"}
      BY DEF Kinds
    <3>2. ~Aborted
      BY <2>2 DEF Aborted
    <3>3. QED
      BY <1>1, <1>2, <2>2, <3>1, <3>2 DEF TotalsInv, Books, StreamTold, One
  <2>3. QED
    BY <1>1, <2>1, <2>2
<1>5. StreamBlocked'
  BY <1>1, <1>2 DEF TotalsInv, Books, StreamBlocked, Aborted, Unjudged
<1>6. HarmBounded'
  <2>1. totals.harmful \in Nat /\ totals.proposals \in Nat
    BY Numbers DEF TotalsInv, Books
  <2>2. ~CopyKept'
    BY <1>1 DEF CopyKept
  <2>3. One({"judge", "weigh"})' = 0
    BY <1>1 DEF One
  <2>4. One({"judge", "weigh"}) \in Nat
    BY DEF One
  <2>5. QED
    BY <1>1, <1>3, <2>1, <2>2, <2>3, <2>4 DEF TotalsInv, Books, HarmBounded
<1>7. QED
  BY <1>3, <1>4, <1>5, <1>6 DEF Books

\* A step that adds dt to the counters and ds to the events keeps the stream's
\* books when what it adds fits the part of the loop it leads to.
Adds(dt, ds) ==
    /\ \A f \in Fields : totals'[f] = totals[f] + dt[f]
    /\ \A k \in Kinds : sent'[k] = sent[k] + ds[k]

Fits(dt, ds) ==
    /\ dt["proposals"] = ds["proposal"] /\ dt["retries"] = ds["retry"]
    /\ dt["exhausted"] = ds["exhausted"] /\ dt["llm_calls"] = ds["llm_call"]
    /\ dt["twin_n"] + (IF opt.gate THEN One({"judge"})' ELSE 0)
           = IF opt.gate THEN One({"judge"}) + dt["proposals"] ELSE 0
    /\ dt["proposals"] + One({"decide"})'
           = One({"decide"}) + ds["decision_open"] + dt["retries"]
    /\ ds["applied"] + One({"decide", "judge", "weigh", "execute"})'
           = One({"decide", "judge", "weigh", "execute"}) + ds["decision_open"]
    /\ ds["decision_close"] + One({"decide", "judge", "weigh", "execute", "truth", "close"})'
           = One({"decide", "judge", "weigh", "execute", "truth", "close"}) + ds["decision_open"]

\* Such a step keeps the books.
LEMMA StreamFits ==
  ASSUME Tallied, StreamTold, Streaming, ~Aborted, opt' = opt,
         NEW dt \in [Fields -> Nat], NEW ds \in [Kinds -> Nat], Adds(dt, ds), Fits(dt, ds)
  PROVE  StreamTold'
<1> DEFINE d == One({"decide"})
           j == One({"judge"})
           o == One({"decide", "judge", "weigh", "execute"})
           c == One({"decide", "judge", "weigh", "execute", "truth", "close"})
<1>1. d \in Nat /\ j \in Nat /\ o \in Nat /\ c \in Nat
  BY DEF One
<1>2. d' \in Nat /\ j' \in Nat /\ o' \in Nat /\ c' \in Nat
  BY DEF One
<1> HIDE DEF d, j, o, c
<1>3. /\ totals["proposals"] \in Nat /\ totals["retries"] \in Nat /\ totals["twin_n"] \in Nat
      /\ sent["decision_open"] \in Nat /\ sent["applied"] \in Nat
      /\ sent["decision_close"] \in Nat
  BY Numbers
<1>4. /\ dt["proposals"] \in Nat /\ dt["retries"] \in Nat /\ dt["twin_n"] \in Nat
      /\ ds["decision_open"] \in Nat /\ ds["applied"] \in Nat /\ ds["decision_close"] \in Nat
  BY DEF Fields, Kinds
<1>5. /\ totals'["proposals"] = totals["proposals"] + dt["proposals"]
      /\ totals'["retries"] = totals["retries"] + dt["retries"]
      /\ totals'["exhausted"] = totals["exhausted"] + dt["exhausted"]
      /\ totals'["llm_calls"] = totals["llm_calls"] + dt["llm_calls"]
      /\ totals'["twin_n"] = totals["twin_n"] + dt["twin_n"]
      /\ sent'["proposal"] = sent["proposal"] + ds["proposal"]
      /\ sent'["retry"] = sent["retry"] + ds["retry"]
      /\ sent'["exhausted"] = sent["exhausted"] + ds["exhausted"]
      /\ sent'["llm_call"] = sent["llm_call"] + ds["llm_call"]
      /\ sent'["decision_open"] = sent["decision_open"] + ds["decision_open"]
      /\ sent'["applied"] = sent["applied"] + ds["applied"]
      /\ sent'["decision_close"] = sent["decision_close"] + ds["decision_close"]
  BY DEF Adds, Fields, Kinds
<1>6. /\ totals["proposals"] = sent["proposal"] /\ totals["retries"] = sent["retry"]
      /\ totals["exhausted"] = sent["exhausted"] /\ totals["llm_calls"] = sent["llm_call"]
      /\ totals["twin_n"] + (IF opt.gate THEN j ELSE 0)
           = IF opt.gate THEN totals["proposals"] ELSE 0
      /\ totals["proposals"] + d = sent["decision_open"] + totals["retries"]
      /\ sent["applied"] + o = sent["decision_open"]
      /\ sent["decision_close"] + c = sent["decision_open"]
  BY DEF StreamTold, d, j, o, c
<1>7. /\ dt["proposals"] = ds["proposal"] /\ dt["retries"] = ds["retry"]
      /\ dt["exhausted"] = ds["exhausted"] /\ dt["llm_calls"] = ds["llm_call"]
      /\ dt["twin_n"] + (IF opt.gate THEN j' ELSE 0)
           = IF opt.gate THEN j + dt["proposals"] ELSE 0
      /\ dt["proposals"] + d' = d + ds["decision_open"] + dt["retries"]
      /\ ds["applied"] + o' = o + ds["decision_open"]
      /\ ds["decision_close"] + c' = c + ds["decision_open"]
  BY DEF Fits, d, j, o, c
<1>8. /\ totals'["proposals"] = sent'["proposal"] /\ totals'["retries"] = sent'["retry"]
      /\ totals'["exhausted"] = sent'["exhausted"] /\ totals'["llm_calls"] = sent'["llm_call"]
      /\ totals'["proposals"] + d' = sent'["decision_open"] + totals'["retries"]
      /\ sent'["applied"] + o' = sent'["decision_open"]
      /\ sent'["decision_close"] + c' = sent'["decision_open"]
  <2>1. /\ totals'["proposals"] = sent'["proposal"] /\ totals'["retries"] = sent'["retry"]
        /\ totals'["exhausted"] = sent'["exhausted"] /\ totals'["llm_calls"] = sent'["llm_call"]
    BY <1>5, <1>6, <1>7
  <2>2. totals'["proposals"] + d' = sent'["decision_open"] + totals'["retries"]
    BY <1>1, <1>2, <1>3, <1>4, <1>5, <1>6, <1>7
  <2>3. sent'["applied"] + o' = sent'["decision_open"]
    BY <1>1, <1>2, <1>3, <1>4, <1>5, <1>6, <1>7
  <2>4. sent'["decision_close"] + c' = sent'["decision_open"]
    BY <1>1, <1>2, <1>3, <1>4, <1>5, <1>6, <1>7
  <2>5. QED
    BY <2>1, <2>2, <2>3, <2>4
<1>9. totals'["twin_n"] + (IF opt.gate THEN j' ELSE 0)
        = IF opt.gate THEN totals'["proposals"] ELSE 0
  BY <1>1, <1>2, <1>3, <1>4, <1>5, <1>6, <1>7
<1>10. QED
  BY <1>8, <1>9 DEF StreamTold, d, j, o, c

\* One of a set of counters, or none.
Only(S, x) == [y \in S |-> IF y = x THEN 1 ELSE 0]
Nothing(S) == [y \in S |-> 0]

\* What one event, and one count, add in a stream; the other counters stay.
LEMMA EmitsOne ==
  ASSUME Tallied, NEW kind \in Kinds, Emit(kind)
  PROVE  /\ sent' \in [Kinds -> Nat] /\ Only(Kinds, kind) \in [Kinds -> Nat]
         /\ Streaming => \A k \in Kinds : sent'[k] = sent[k] + Only(Kinds, kind)[k]
<1>1. /\ sent' \in [Kinds -> Nat] /\ sent \in [Kinds -> Nat]
      /\ \A k \in Kinds : sent'[k] = IF k = kind /\ Streaming THEN sent[k] + 1 ELSE sent[k]
  BY EmitCounts DEF Tallied
<1>2. QED
  BY <1>1 DEF Only

\* What counting one more adds.
LEMMA CountsOne ==
  ASSUME Tallied, NEW field \in Fields, totals' = Add(totals, field, 1)
  PROVE  /\ totals' \in [Fields -> Nat] /\ Only(Fields, field) \in [Fields -> Nat]
         /\ Streaming => \A f \in Fields : totals'[f] = totals[f] + Only(Fields, field)[f]
         /\ \A f \in Fields \ {field} : totals'[f] = totals[f]
<1>1. totals \in [Fields -> Nat]
  BY DEF Tallied
<1>2. Gained(totals, totals', field, 1)
  BY <1>1, AddGains
<1>3. Streaming => field \in Counted
  BY CountedFields
<1>4. QED
  BY <1>1, <1>2, <1>3 DEF Gained, Only

\* A step that counts nothing adds zero.
LEMMA AddsNothing ==
  ASSUME Tallied
  PROVE  /\ Nothing(Fields) \in [Fields -> Nat] /\ Nothing(Kinds) \in [Kinds -> Nat]
         /\ totals' = totals => \A f \in Fields : totals'[f] = totals[f] + Nothing(Fields)[f]
         /\ sent' = sent => \A k \in Kinds : sent'[k] = sent[k] + Nothing(Kinds)[k]
BY DEF Tallied, Nothing

\* The rejections on record do not change in a step that puts none there.
LEMMA BlockedStays ==
  ASSUME TotalsInv, opt' = opt, records' = records,
         totals'.blocked = totals.blocked, totals'.safe_blocked = totals.safe_blocked,
         totals'.retries = totals.retries, totals'.exhausted = totals.exhausted,
         at \in {"decide", "judge", "weigh", "execute", "truth"}
            <=> at' \in {"decide", "judge", "weigh", "execute", "truth"},
         ~Aborted
  PROVE  StreamBlocked'
<1>1. BlockedNow' = BlockedNow /\ Streaming' = Streaming
  BY DEF BlockedNow, Blocked, Streaming
<1>2. QED
  BY <1>1 DEF TotalsInv, Books, StreamBlocked, Unjudged

\* As long as the copy stays and nothing is recorded or evaluated.
LEMMA HarmStays ==
  ASSUME TotalsInv, records' = records, totals'.harmful = totals.harmful,
         totals'.blocked = totals.blocked, totals'.proposals = totals.proposals,
         CopyKept' => CopyKept,
         at' \in {"judge", "weigh"} => at \in {"judge", "weigh"}
  PROVE  HarmBounded'
<1> DEFINE k == IF CopyKept THEN Len(records) ELSE 0
           m == One({"judge", "weigh"})
<1>1. k \in Nat /\ k' \in Nat /\ k' <= k
  <2>1. Len(records) \in Nat
    BY DEF TotalsInv, PromiseInv, Typed
  <2>2. QED
    BY <2>1
<1>2. m \in Nat /\ m' \in Nat /\ m' <= m
  BY DEF One
<1>3. /\ totals.blocked <= totals.harmful /\ totals.harmful + k + m <= totals.proposals
  BY DEF TotalsInv, Books, HarmBounded
<1>4. totals.harmful \in Nat /\ totals.proposals \in Nat
  BY Numbers DEF TotalsInv, Books
<1>5. totals'.blocked <= totals'.harmful /\ totals'.harmful + k' + m' <= totals'.proposals
  <2> HIDE DEF k, m
  <2>1. QED
    BY <1>1, <1>2, <1>3, <1>4
<1>6. QED
  BY <1>5 DEF HarmBounded

\* A decision that opens has no rejection on record.
LEMMA TotalsOpen ==
  ASSUME TotalsInv, Open
  PROVE  Books'
<1>1. /\ totals' = totals /\ opt' = opt /\ records' = <<>> /\ at = "open" /\ at' = "decide"
      /\ Emit("decision_open") /\ Tallied /\ "decision_open" \in Kinds
  BY DEF Open, TotalsInv, Books, Kinds
<1>2. /\ Tallied' /\ Streaming' = Streaming
  BY <1>1, EmitsOne DEF Tallied, Streaming
<1>3. StreamTold'
  <2>1. ASSUME Streaming PROVE StreamTold'
    <3> DEFINE dt == Nothing(Fields)
               ds == Only(Kinds, "decision_open")
    <3>1. dt \in [Fields -> Nat] /\ ds \in [Kinds -> Nat] /\ Adds(dt, ds)
      BY <1>1, <2>1, EmitsOne, AddsNothing DEF Adds
    <3>2. Fits(dt, ds)
      BY <1>1 DEF Fits, One, Nothing, Only, Fields, Kinds
    <3>3. StreamTold /\ ~Aborted
      BY <1>1 DEF TotalsInv, Books, Aborted
    <3> HIDE DEF dt, ds
    <3>4. QED
      BY <1>1, <2>1, <3>1, <3>2, <3>3, StreamFits
  <2>2. QED
    BY <1>2, <2>1 DEF StreamTold
<1>4. BlockedNow' = {} /\ Cardinality(BlockedNow') = 0 /\ Len(records') = 0
  <2>1. Len(records') = 0
    BY <1>1
  <2>2. BlockedNow' = {}
    BY <2>1 DEF BlockedNow
  <2>3. QED
    BY <2>1, <2>2, FS_EmptySet
<1>5. StreamBlocked'
  BY <1>1, <1>2, <1>4, Numbers DEF TotalsInv, Books, StreamBlocked, Aborted, Unjudged
<1>6. HarmBounded'
  BY <1>1, <1>2, <1>4, Numbers DEF TotalsInv, Books, HarmBounded, One, CopyKept
<1>7. QED
  BY <1>2, <1>3, <1>5, <1>6 DEF Books

\* A proposal is counted and told.
LEMMA TotalsDecide ==
  ASSUME TotalsInv, Decide
  PROVE  Books'
<1>1. /\ Tallied /\ totals \in [Fields -> Nat]
      /\ "llm_calls" \in Fields /\ "proposals" \in Fields
  BY DEF TotalsInv, Books, Fields, Tallied
<1>2. PICK calls \in 0 .. 1 :
        /\ totals' = Add(Add(totals, "llm_calls", calls), "proposals", 1)
        /\ sent' = IF Streaming
                   THEN [sent EXCEPT !["llm_call"] = @ + calls, !["proposal"] = @ + 1]
                   ELSE sent
  BY DEF Decide
<1>3. /\ at = "decide" /\ at' = IF opt.gate THEN "judge" ELSE "weigh"
      /\ records' = records /\ opt' = opt
  BY DEF Decide
<1>4. Streaming' = Streaming /\ Len(records) \in Nat
  BY <1>3 DEF Streaming, TotalsInv, PromiseInv, Typed
<1>5. /\ totals' \in [Fields -> Nat]
      /\ totals'.proposals = totals.proposals + 1
      /\ Streaming => totals'["llm_calls"] = totals["llm_calls"] + calls
      /\ \A f \in Fields \ {"proposals", "llm_calls"} : totals'[f] = totals[f]
  <2> DEFINE t == Add(totals, "llm_calls", calls)
  <2>1. Gained(totals, t, "llm_calls", calls)
    BY <1>1, AddGains
  <2>2. t \in [Fields -> Nat]
    BY <2>1 DEF Gained
  <2>3. totals' = Add(t, "proposals", 1)
    BY <1>2
  <2> HIDE DEF t
  <2>4. Gained(t, totals', "proposals", 1)
    BY <1>1, <2>2, <2>3, AddGains
  <2>5. "proposals" \in Counted /\ (Streaming => "llm_calls" \in Counted)
    BY <1>1, CountedFields
  <2>6. QED
    BY <1>1, <2>1, <2>4, <2>5 DEF Gained
<1>6. /\ sent' \in [Kinds -> Nat] /\ sent \in [Kinds -> Nat]
      /\ Streaming => /\ sent'["llm_call"] = sent["llm_call"] + calls
                      /\ sent'["proposal"] = sent["proposal"] + 1
                      /\ \A k \in Kinds \ {"llm_call", "proposal"} : sent'[k] = sent[k]
  <2>1. "llm_call" \in Kinds /\ "proposal" \in Kinds /\ sent \in [Kinds -> Nat]
    BY <1>1 DEF Kinds, Tallied
  <2>2. QED
    BY <1>2, <2>1
<1>7. /\ totals'.retries = totals.retries /\ totals'.exhausted = totals.exhausted
      /\ totals'.twin_n = totals.twin_n /\ totals'.harmful = totals.harmful
      /\ totals'.blocked = totals.blocked /\ totals'.safe_blocked = totals.safe_blocked
  BY <1>5 DEF Fields
<1>8. Tallied'
  BY <1>5, <1>6 DEF Tallied
<1>9. StreamTold'
  <2>1. ASSUME Streaming PROVE StreamTold'
    <3> DEFINE dt == [f \in Fields |-> IF f = "proposals" THEN 1
                                       ELSE IF f = "llm_calls" THEN calls ELSE 0]
               ds == [k \in Kinds |-> IF k = "proposal" THEN 1
                                      ELSE IF k = "llm_call" THEN calls ELSE 0]
    <3>1. dt \in [Fields -> Nat] /\ ds \in [Kinds -> Nat]
      OBVIOUS
    <3>2. Adds(dt, ds)
      <4>1. \A f \in Fields : totals'[f] = totals[f] + dt[f]
        BY <1>1, <1>5, <2>1
      <4>2. \A k \in Kinds : sent'[k] = sent[k] + ds[k]
        BY <1>6, <2>1
      <4>3. QED
        BY <4>1, <4>2 DEF Adds
    <3>3. Fits(dt, ds)
      BY <1>3 DEF Fits, One, Fields, Kinds
    <3>4. StreamTold /\ ~Aborted
      BY <1>3 DEF TotalsInv, Books, Aborted
    <3> HIDE DEF dt, ds
    <3>5. QED
      BY <1>1, <1>3, <2>1, <3>1, <3>2, <3>3, <3>4, StreamFits
  <2>2. QED
    BY <1>4, <2>1 DEF StreamTold
<1>10. StreamBlocked'
  BY <1>3, <1>7, BlockedStays DEF Aborted
<1>11. HarmBounded'
  <2> DEFINE k == IF CopyKept THEN Len(records) ELSE 0
  <2>1. One({"judge", "weigh"}) = 0 /\ One({"judge", "weigh"})' = 1 /\ k' = k /\ k \in Nat
    BY <1>3, <1>4 DEF One, CopyKept
  <2>2. totals.blocked <= totals.harmful /\ totals.harmful + k + 0 <= totals.proposals
    BY <2>1 DEF TotalsInv, Books, HarmBounded
  <2>3. totals.harmful \in Nat /\ totals.proposals \in Nat
    BY <1>1, Numbers
  <2>4. /\ totals'.harmful = totals.harmful /\ totals'.blocked = totals.blocked
        /\ totals'.proposals = totals.proposals + 1
    BY <1>5, <1>7
  <2>5. totals'.blocked <= totals'.harmful /\ totals'.harmful + k' + 1 <= totals'.proposals
    <3> HIDE DEF k
    <3>1. QED
      BY <2>1, <2>2, <2>3, <2>4
  <2>6. QED
    BY <2>1, <2>5 DEF HarmBounded
<1>12. QED
  BY <1>8, <1>9, <1>10, <1>11 DEF Books

\* A validation is counted and told.
LEMMA TotalsJudge ==
  ASSUME TotalsInv, Judge
  PROVE  Books'
<1>1. /\ Tallied /\ "verdict" \in Kinds /\ "twin_n" \in Fields /\ opt.gate
      /\ totals' = Add(totals, "twin_n", 1) /\ Emit("verdict")
      /\ at = "judge" /\ at' = "weigh" /\ records' = records /\ opt' = opt
  BY DEF Judge, TotalsInv, Books, PromiseInv, Typed, Kinds, Fields
<1>2. Tallied' /\ Streaming' = Streaming
  BY <1>1, EmitsOne, CountsOne DEF Tallied, Streaming
<1>3. StreamTold'
  <2>1. ASSUME Streaming PROVE StreamTold'
    <3> DEFINE dt == Only(Fields, "twin_n")
               ds == Only(Kinds, "verdict")
    <3>1. dt \in [Fields -> Nat] /\ ds \in [Kinds -> Nat] /\ Adds(dt, ds)
      BY <1>1, <2>1, EmitsOne, CountsOne DEF Adds
    <3>2. Fits(dt, ds)
      BY <1>1 DEF Fits, One, Only, Fields, Kinds
    <3>3. StreamTold /\ ~Aborted
      BY <1>1 DEF TotalsInv, Books, Aborted
    <3> HIDE DEF dt, ds
    <3>4. QED
      BY <1>1, <2>1, <3>1, <3>2, <3>3, StreamFits
  <2>2. QED
    BY <1>2, <2>1 DEF StreamTold
<1>4. /\ totals'.retries = totals.retries /\ totals'.exhausted = totals.exhausted
      /\ totals'.proposals = totals.proposals /\ totals'.harmful = totals.harmful
      /\ totals'.blocked = totals.blocked /\ totals'.safe_blocked = totals.safe_blocked
  BY <1>1, CountsOne DEF Fields
<1>5. StreamBlocked'
  BY <1>1, <1>4, BlockedStays DEF Aborted
<1>6. HarmBounded'
  BY <1>1, <1>4, HarmStays DEF CopyKept
<1>7. QED
  BY <1>2, <1>3, <1>5, <1>6 DEF Books

\* A proposal put on record is no longer between judge and weigh.
LEMMA HarmRecorded ==
  ASSUME TotalsInv, at = "weigh", Len(records') = Len(records) + 1, opt' = opt,
         at' \notin {"judge", "weigh"}, totals'.harmful = totals.harmful,
         totals'.blocked = totals.blocked, totals'.proposals = totals.proposals
  PROVE  HarmBounded'
<1> DEFINE k == IF CopyKept THEN Len(records) ELSE 0
<1>1. Len(records) \in Nat /\ totals.harmful \in Nat /\ totals.proposals \in Nat
  BY Numbers DEF TotalsInv, Books, PromiseInv, Typed
<1>2. k \in Nat /\ k' \in Nat /\ k' <= k + 1
  BY <1>1 DEF CopyKept
<1>3. One({"judge", "weigh"}) = 1 /\ One({"judge", "weigh"})' = 0
  BY DEF One
<1>4. totals.blocked <= totals.harmful /\ totals.harmful + k + 1 <= totals.proposals
  BY <1>3 DEF TotalsInv, Books, HarmBounded
<1>5. totals'.blocked <= totals'.harmful /\ totals'.harmful + k' + 0 <= totals'.proposals
  <2> HIDE DEF k
  <2>1. QED
    BY <1>1, <1>2, <1>4
<1>6. QED
  BY <1>3, <1>5 DEF HarmBounded

\* A rejection is answered with a retry or is the last one.
LEMMA BlockedRecorded ==
  ASSUME TotalsInv, at = "weigh", opt' = opt, NEW n \in Nat,
         Streaming => at' \in {"decide", "execute"},
         Cardinality(BlockedNow) \in Nat,
         Cardinality(BlockedNow') = Cardinality(BlockedNow) + n,
         totals'.blocked = totals.blocked, totals'.safe_blocked = totals.safe_blocked,
         Streaming => totals'.retries + totals'.exhausted = totals.retries + totals.exhausted + n
  PROVE  StreamBlocked'
<1>1. SUFFICES ASSUME Streaming, opt.counterfactual PROVE StreamBlocked'
  BY DEF StreamBlocked, Streaming
<1>2. Unjudged = Cardinality(BlockedNow) /\ Unjudged' = Cardinality(BlockedNow')
  BY <1>1 DEF Unjudged
<1>3. totals.blocked + totals.safe_blocked + Cardinality(BlockedNow)
        = totals.retries + totals.exhausted
  BY <1>1, <1>2 DEF TotalsInv, Books, StreamBlocked, Aborted
<1>4. /\ totals.blocked \in Nat /\ totals.safe_blocked \in Nat
      /\ totals.retries \in Nat /\ totals.exhausted \in Nat
  BY Numbers DEF TotalsInv, Books
<1>5. totals'.blocked + totals'.safe_blocked + Cardinality(BlockedNow')
        = totals'.retries + totals'.exhausted
  BY <1>1, <1>3, <1>4
<1>6. QED
  BY <1>2, <1>5 DEF StreamBlocked

\* An accepted proposal goes on record, and is not counted as a rejection.
LEMMA TotalsAccept ==
  ASSUME TotalsInv, Accept
  PROVE  Books'
<1>1. /\ Tallied /\ Typed /\ at = "weigh" /\ verdict.approved /\ records' = Recorded(TRUE)
      /\ at' = AfterLoop /\ totals' = totals /\ sent' = sent /\ opt' = opt
  BY DEF Accept, TotalsInv, Books, PromiseInv, told
<1>2. /\ Tallied' /\ Streaming' = Streaming /\ at' \in {"execute", "truth"}
      /\ Streaming => at' = "execute"
  BY <1>1 DEF Tallied, Streaming, AfterLoop
<1>3. /\ Len(records') = Len(records) + 1 /\ Cardinality(BlockedNow) \in Nat
      /\ Cardinality(BlockedNow') = Cardinality(BlockedNow) + 0
  BY <1>1, RecordCounts
<1>4. StreamTold'
  <2>1. ASSUME Streaming PROVE StreamTold'
    <3> DEFINE dt == Nothing(Fields)
               ds == Nothing(Kinds)
    <3>1. dt \in [Fields -> Nat] /\ ds \in [Kinds -> Nat] /\ Adds(dt, ds)
      BY <1>1, AddsNothing DEF Adds
    <3>2. Fits(dt, ds)
      BY <1>1, <1>2, <2>1 DEF Fits, One, Nothing, Fields, Kinds
    <3>3. StreamTold /\ ~Aborted
      BY <1>1 DEF TotalsInv, Books, Aborted
    <3> HIDE DEF dt, ds
    <3>4. QED
      BY <1>1, <2>1, <3>1, <3>2, <3>3, StreamFits
  <2>2. QED
    BY <1>2, <2>1 DEF StreamTold
<1>5. totals'.retries + totals'.exhausted = totals.retries + totals.exhausted + 0
  BY <1>1, Numbers
<1>6. StreamBlocked'
  BY <1>1, <1>2, <1>3, <1>5, BlockedRecorded
<1>7. HarmBounded'
  BY <1>1, <1>2, <1>3, HarmRecorded
<1>8. QED
  BY <1>2, <1>4, <1>6, <1>7 DEF Books

\* A rejected proposal goes on record, and the retry or the exhaustion it leads to
\* is counted and told.
LEMMA TotalsRejected ==
  ASSUME TotalsInv, Exhaust \/ Retry
  PROVE  Books'
<1>1. PICK field \in {"exhausted", "retries"}, kind \in {"exhausted", "retry"} :
        /\ totals' = Add(totals, field, 1) /\ Emit(kind)
        /\ \/ field = "exhausted" /\ kind = "exhausted" /\ at' = AfterLoop
           \/ field = "retries" /\ kind = "retry" /\ at' = "decide"
  BY DEF Exhaust, Retry
<1>2. /\ Tallied /\ Typed /\ at = "weigh" /\ ~verdict.approved /\ records' = Recorded(FALSE)
      /\ opt' = opt /\ field \in Fields /\ kind \in Kinds
  BY DEF Exhaust, Retry, TotalsInv, Books, PromiseInv, Fields, Kinds
<1>3. opt.gate
  BY <1>2 DEF TotalsInv, PromiseInv, Chosen
<1>4. /\ Tallied' /\ Streaming' = Streaming /\ at' \in {"decide", "execute", "truth"}
      /\ Streaming => at' \in {"decide", "execute"}
  BY <1>1, <1>2, EmitsOne, CountsOne DEF Tallied, Streaming, AfterLoop
<1>5. /\ Len(records') = Len(records) + 1 /\ Cardinality(BlockedNow) \in Nat
      /\ Cardinality(BlockedNow') = Cardinality(BlockedNow) + 1
  BY <1>2, <1>3, RecordCounts
<1>6. StreamTold'
  <2>1. ASSUME Streaming PROVE StreamTold'
    <3> DEFINE dt == Only(Fields, field)
               ds == Only(Kinds, kind)
    <3>1. dt \in [Fields -> Nat] /\ ds \in [Kinds -> Nat] /\ Adds(dt, ds)
      BY <1>1, <1>2, <2>1, EmitsOne, CountsOne DEF Adds
    <3>2. Fits(dt, ds)
      BY <1>1, <1>2, <2>1 DEF Fits, One, Only, Fields, Kinds, AfterLoop
    <3>3. StreamTold /\ ~Aborted
      BY <1>2 DEF TotalsInv, Books, Aborted
    <3> HIDE DEF dt, ds
    <3>4. QED
      BY <1>2, <2>1, <3>1, <3>2, <3>3, StreamFits
  <2>2. QED
    BY <1>4, <2>1 DEF StreamTold
<1>7. /\ totals'.proposals = totals.proposals /\ totals'.harmful = totals.harmful
      /\ totals'.blocked = totals.blocked /\ totals'.safe_blocked = totals.safe_blocked
  BY <1>1, <1>2, CountsOne DEF Fields
<1>8. Streaming => totals'.retries + totals'.exhausted = totals.retries + totals.exhausted + 1
  <2>1. totals.retries \in Nat /\ totals.exhausted \in Nat
    BY <1>2, Numbers
  <2>2. Streaming => \A f \in Fields : totals'[f] = totals[f] + Only(Fields, field)[f]
    BY <1>1, <1>2, CountsOne
  <2>3. Streaming => /\ totals'.retries = totals.retries + (IF field = "retries" THEN 1 ELSE 0)
                     /\ totals'.exhausted
                          = totals.exhausted + (IF field = "exhausted" THEN 1 ELSE 0)
    BY <2>2 DEF Only, Fields
  <2>4. QED
    BY <2>1, <2>3
<1>9. StreamBlocked'
  BY <1>2, <1>4, <1>5, <1>7, <1>8, BlockedRecorded
<1>10. HarmBounded'
  BY <1>2, <1>4, <1>5, <1>7, HarmRecorded
<1>11. QED
  BY <1>4, <1>6, <1>9, <1>10 DEF Books

\* Executing is told; in a stream the rejections on record await the truth.
LEMMA TotalsApply ==
  ASSUME TotalsInv, Apply
  PROVE  Books'
<1>1. /\ Tallied /\ Typed /\ at = "execute" /\ records' = records /\ totals' = totals
      /\ at' = (IF Streaming /\ opt.counterfactual THEN "truth" ELSE "close")
      /\ Emit("applied") /\ opt' = opt /\ "applied" \in Kinds
  BY DEF Apply, TotalsInv, Books, PromiseInv, loop, Kinds
<1>2. Tallied' /\ Streaming' = Streaming
  BY <1>1, EmitsOne DEF Tallied, Streaming
<1>3. StreamTold'
  <2>1. ASSUME Streaming PROVE StreamTold'
    <3> DEFINE dt == Nothing(Fields)
               ds == Only(Kinds, "applied")
    <3>1. dt \in [Fields -> Nat] /\ ds \in [Kinds -> Nat] /\ Adds(dt, ds)
      BY <1>1, <2>1, EmitsOne, AddsNothing DEF Adds
    <3>2. Fits(dt, ds)
      BY <1>1 DEF Fits, One, Nothing, Only, Fields, Kinds
    <3>3. StreamTold /\ ~Aborted
      BY <1>1 DEF TotalsInv, Books, Aborted
    <3> HIDE DEF dt, ds
    <3>4. QED
      BY <1>1, <2>1, <3>1, <3>2, <3>3, StreamFits
  <2>2. QED
    BY <1>2, <2>1 DEF StreamTold
<1>4. StreamBlocked'
  <2>1. CASE Streaming /\ opt.counterfactual
    BY <1>1, <2>1, BlockedStays DEF Aborted
  <2>2. CASE ~(Streaming /\ opt.counterfactual)
    BY <1>1, <1>2, <2>2 DEF StreamBlocked
  <2>3. QED
    BY <2>1, <2>2
<1>5. HarmBounded'
  BY <1>1, <1>2, HarmStays DEF CopyKept
<1>6. QED
  BY <1>2, <1>3, <1>4, <1>5 DEF Books

\* The evaluation settles the rejections on record, each as harmful or as safe.
LEMMA TotalsTruth ==
  ASSUME TotalsInv, Truth
  PROVE  Books'
<1>1. /\ Tallied /\ Typed /\ at = "truth" /\ records' = records /\ opt' = opt
      /\ at' = (IF Streaming THEN "close" ELSE "execute")
      /\ totals' = Tally(rows') /\ Emit("truth") /\ "truth" \in Kinds
  BY DEF Truth, TotalsInv, Books, PromiseInv, loop, Kinds
<1>2. PICK h, b, s \in Nat :
        /\ totals' = Outcomes(h, b, s)
        /\ b <= h /\ h <= Len(records) /\ b + s = Cardinality(BlockedNow)
  <2> DEFINE r == rows'
  <2>1. totals' = Tally(r)
    BY <1>1
  <2> HIDE DEF r
  <2>2. QED
    BY <1>1, <2>1, TallyCounts
<1>3. /\ totals' \in [Fields -> Nat]
      /\ totals'.harmful = totals.harmful + h /\ totals'.blocked = totals.blocked + b
      /\ Streaming => totals'.safe_blocked = totals.safe_blocked + s
      /\ \A g \in Fields \ {"harmful", "blocked", "safe_blocked"} : totals'[g] = totals[g]
  <2> DEFINE o == Outcomes(h, b, s)
  <2>1. /\ o \in [Fields -> Nat]
        /\ o.harmful = totals.harmful + h /\ o.blocked = totals.blocked + b
        /\ Streaming => o.safe_blocked = totals.safe_blocked + s
        /\ \A g \in Fields \ {"harmful", "blocked", "safe_blocked"} : o[g] = totals[g]
    BY <1>1, OutcomesCount
  <2>2. totals' = o
    BY <1>2
  <2> HIDE DEF o
  <2>3. QED
    BY <2>1, <2>2
<1>4. /\ Tallied' /\ Streaming' = Streaming /\ Len(records) \in Nat
  BY <1>1, <1>3, EmitsOne DEF Tallied, Streaming, Typed
<1>5. StreamTold'
  <2>1. ASSUME Streaming PROVE StreamTold'
    <3> DEFINE dt == [f \in Fields |-> IF f = "harmful" THEN h ELSE IF f = "blocked" THEN b
                                       ELSE IF f = "safe_blocked" THEN s ELSE 0]
               ds == Only(Kinds, "truth")
    <3>1. dt \in [Fields -> Nat] /\ ds \in [Kinds -> Nat]
      BY <1>1, EmitsOne
    <3>2. \A f \in Fields : totals'[f] = totals[f] + dt[f]
      BY <1>1, <1>3, <2>1 DEF Tallied
    <3>3. Adds(dt, ds)
      BY <1>1, <2>1, <3>2, EmitsOne DEF Adds
    <3>4. Fits(dt, ds)
      BY <1>1, <2>1 DEF Fits, One, Only, Fields, Kinds
    <3>5. StreamTold /\ ~Aborted
      BY <1>1 DEF TotalsInv, Books, Aborted
    <3> HIDE DEF dt, ds
    <3>6. QED
      BY <1>1, <2>1, <3>1, <3>3, <3>4, <3>5, StreamFits
  <2>2. QED
    BY <1>4, <2>1 DEF StreamTold
<1>6. StreamBlocked'
  <2>1. SUFFICES ASSUME Streaming, opt.counterfactual PROVE StreamBlocked'
    BY <1>1, <1>4 DEF StreamBlocked
  <2>2. Unjudged = Cardinality(BlockedNow) /\ Unjudged' = 0
    BY <1>1, <2>1 DEF Unjudged
  <2>3. totals.blocked + totals.safe_blocked + Cardinality(BlockedNow)
          = totals.retries + totals.exhausted
    BY <1>1, <2>1, <2>2 DEF TotalsInv, Books, StreamBlocked, Aborted
  <2>4. /\ totals.blocked \in Nat /\ totals.safe_blocked \in Nat
    BY <1>1, Numbers
  <2>5. totals'.retries = totals.retries /\ totals'.exhausted = totals.exhausted
    BY <1>3 DEF Fields
  <2>6. totals'.blocked + totals'.safe_blocked + 0 = totals'.retries + totals'.exhausted
    BY <1>2, <1>3, <2>1, <2>3, <2>4, <2>5
  <2>7. QED
    BY <2>2, <2>6 DEF StreamBlocked
<1>7. HarmBounded'
  <2>1. CopyKept /\ ~CopyKept'
    BY <1>1, <1>4 DEF CopyKept, Typed
  <2>2. One({"judge", "weigh"}) = 0 /\ One({"judge", "weigh"})' = 0
    BY <1>1 DEF One
  <2>3. totals.blocked <= totals.harmful /\ totals.harmful + Len(records) + 0 <= totals.proposals
    BY <2>1, <2>2 DEF TotalsInv, Books, HarmBounded
  <2>4. totals.harmful \in Nat /\ totals.blocked \in Nat /\ totals.proposals \in Nat
    BY <1>1, Numbers
  <2>5. totals'.proposals = totals.proposals
    BY <1>3 DEF Fields
  <2>6. totals'.blocked <= totals'.harmful /\ totals'.harmful + 0 + 0 <= totals'.proposals
    BY <1>2, <1>3, <1>4, <2>3, <2>4, <2>5
  <2>7. QED
    BY <2>1, <2>2, <2>6 DEF HarmBounded
<1>8. QED
  BY <1>4, <1>5, <1>6, <1>7 DEF Books

\* Closing is told.
LEMMA TotalsClose ==
  ASSUME TotalsInv, Close
  PROVE  Books'
<1>1. /\ Tallied /\ Typed /\ at = "close" /\ at' = "tick" /\ records' = records
      /\ totals' = totals /\ Emit("decision_close") /\ opt' = opt
      /\ "decision_close" \in Kinds
  BY DEF Close, TotalsInv, Books, PromiseInv, loop, Kinds
<1>2. Tallied' /\ Streaming' = Streaming
  BY <1>1, EmitsOne DEF Tallied, Streaming
<1>3. StreamTold'
  <2>1. ASSUME Streaming PROVE StreamTold'
    <3> DEFINE dt == Nothing(Fields)
               ds == Only(Kinds, "decision_close")
    <3>1. dt \in [Fields -> Nat] /\ ds \in [Kinds -> Nat] /\ Adds(dt, ds)
      BY <1>1, <2>1, EmitsOne, AddsNothing DEF Adds
    <3>2. Fits(dt, ds)
      BY <1>1 DEF Fits, One, Nothing, Only, Fields, Kinds
    <3>3. StreamTold /\ ~Aborted
      BY <1>1 DEF TotalsInv, Books, Aborted
    <3> HIDE DEF dt, ds
    <3>4. QED
      BY <1>1, <2>1, <3>1, <3>2, <3>3, StreamFits
  <2>2. QED
    BY <1>2, <2>1 DEF StreamTold
<1>4. StreamBlocked'
  BY <1>1, BlockedStays DEF Aborted
<1>5. HarmBounded'
  BY <1>1, HarmStays DEF CopyKept
<1>6. QED
  BY <1>2, <1>3, <1>4, <1>5 DEF Books

\* Nothing changes the books when nothing changes.
LEMMA TotalsStutter ==
  ASSUME TotalsInv, UNCHANGED vars
  PROVE  Books'
<1>1. UNCHANGED <<totals, sent, opt, at, records>>
  BY DEF vars, told, loop
<1>2. QED
  BY <1>1 DEF TotalsInv, Books, Tallied, StreamTold, StreamBlocked, HarmBounded, Aborted,
     Streaming, One, Unjudged, BlockedNow, Blocked, CopyKept

\* The totals of a finished episode reconcile: what run_stream
\* (dashboard/live.py) counts agrees with the events it has sent, every rejection
\* led to a retry or to exhaustion, and every opened decision was applied and
\* closed; in both loops blocked <= harmful <= proposals.
THEOREM TotalsAlwaysReconcile == Spec => []TotalsReconcile
<1>1. Init => TotalsInv
  <2> SUFFICES ASSUME Init PROVE TotalsInv
    OBVIOUS
  <2>1. PromiseInv
    BY PromiseStart
  <2>2. /\ at = "tick" /\ records = <<>> /\ sent = [k \in Kinds |-> 0]
        /\ totals = [proposals |-> 0, harmful |-> 0, blocked |-> 0, safe_blocked |-> 0,
                     retries |-> 0, exhausted |-> 0, llm_calls |-> 0, twin_n |-> 0]
    BY DEF Init
  <2>3. Tallied
    BY <2>2 DEF Tallied, Fields
  <2>4. StreamTold
    BY <2>2 DEF StreamTold, One, Kinds
  <2>5. StreamBlocked
    BY <2>2 DEF StreamBlocked, Unjudged
  <2>6. HarmBounded
    BY <2>2 DEF HarmBounded, One, CopyKept
  <2>7. QED
    BY <2>1, <2>3, <2>4, <2>5, <2>6 DEF TotalsInv, Books
<1>2. TotalsInv /\ [Next]_vars => TotalsInv'
  <2> SUFFICES ASSUME TotalsInv, [Next]_vars PROVE TotalsInv'
    OBVIOUS
  <2>1. PromiseInv'
    BY PromiseStep DEF TotalsInv
  <2>2. Books'
    BY TotalsUncounted, TotalsOpen, TotalsDecide, TotalsJudge, TotalsAccept, TotalsRejected,
       TotalsApply, TotalsTruth, TotalsClose, TotalsStutter DEF Next, Finished
  <2>3. QED
    BY <2>1, <2>2 DEF TotalsInv
<1>3. TotalsInv => TotalsReconcile
  <2> SUFFICES ASSUME TotalsInv, at = "done" PROVE TotalsReconcile
    BY DEF TotalsReconcile
  <2>1. ~Aborted /\ ~CopyKept /\ Unjudged = 0
    BY DEF Aborted, CopyKept, Unjudged
  <2>2. /\ One({"judge", "weigh"}) = 0 /\ One({"judge"}) = 0 /\ One({"decide"}) = 0
        /\ One({"decide", "judge", "weigh", "execute"}) = 0
        /\ One({"decide", "judge", "weigh", "execute", "truth", "close"}) = 0
    BY DEF One
  <2>3. Tallied /\ StreamTold /\ StreamBlocked /\ HarmBounded
    BY DEF TotalsInv, Books
  <2>4. totals.blocked <= totals.harmful /\ totals.harmful <= totals.proposals
    BY <2>1, <2>2, <2>3, Numbers DEF HarmBounded
  <2>5. ASSUME Streaming
        PROVE  /\ totals.proposals = sent["proposal"] /\ totals.retries = sent["retry"]
               /\ totals.exhausted = sent["exhausted"] /\ totals.llm_calls = sent["llm_call"]
               /\ totals.twin_n = IF opt.gate THEN totals.proposals ELSE 0
               /\ totals.proposals = sent["decision_open"] + totals.retries
               /\ sent["applied"] = sent["decision_open"]
               /\ sent["decision_close"] = sent["decision_open"]
    BY <2>1, <2>2, <2>3, <2>5, Numbers DEF StreamTold
  <2>6. Streaming /\ opt.counterfactual =>
          totals.blocked + totals.safe_blocked = totals.retries + totals.exhausted
    BY <2>1, <2>3, Numbers DEF StreamBlocked
  <2>7. QED
    BY <2>4, <2>5, <2>6 DEF TotalsReconcile
<1>4. QED
  BY <1>1, <1>2, <1>3, PTL DEF Spec
=============================================================================
