-------------------------- MODULE RuleAgentProofs ---------------------------
(***************************************************************************)
(* The rule agent sees the world through two windows of bounded length:    *)
(* the collector's deque and its own memory samples.  The invariant says   *)
(* what each of them still tells of the whole episode: a signal has lasted *)
(* for n ticks exactly if the last n entries show it, for every n that a   *)
(* rule can ask about and the deque can hold, and memory has risen over n  *)
(* decisions exactly if the last n samples rise, unless the decision was   *)
(* retried, when the last two samples are the same one.                    *)
(***************************************************************************)
EXTENDS RuleAgent, SequenceTheorems, FiniteSetTheorems, TLAPS

Proposal == {NoOp} \cup [remedy : Remedy, service : Service]

RuleTypeOK ==
    /\ config \in [window : Nat \ {0}, cooldown : Nat]
    /\ tick \in Nat /\ at \in {"drive", "decide", "judge", "execute"}
    /\ history \in Seq(Metrics) /\ Len(history) <= HistoryWindow
    /\ at # "drive" => Len(history) >= 1
    /\ memory \in [Service -> Nat] /\ mem_history \in [Service -> Seq(Nat)]
    /\ place \in Placement
    /\ pending \in [Service -> [left : Nat, to : Node \cup {Nowhere}]]
    /\ last \in [Service -> Nat \cup {Never}]
    /\ tries \in Seq(Proposal) /\ applied \in Proposal
    /\ lasted \in [Signal -> Nat]
    /\ rises \in [Service -> Nat] /\ sampled \in [Service -> Nat \cup {Never}]

\* The last n ticks in q show signal x.
Shown(q, x, n) == Len(q) >= n /\ \A i \in 0 .. n - 1 : x \in Shows(q[Len(q) - i])

\* What the collector's window, if it is long enough, says of a signal.
WindowInv == \A x \in Signal, n \in 1 .. Sustain :
    n <= HistoryWindow => (lasted[x] >= n <=> Shown(history, x, n))

\* The last n of samples h rise.
Climbs(h, n) == Len(h) >= n /\ \A i \in 0 .. n - 2 : h[Len(h) - i - 1] < h[Len(h) - i]

\* What the agent's samples of a service say of its memory.
Samples(s) ==
    LET h == mem_history[s]
    IN  /\ IF h = <<>> THEN sampled[s] = Never ELSE sampled[s] = h[Len(h)]
        /\ tries = <<>> /\ at = "drive" => h = <<>>
        /\ tries # <<>> => h # <<>>
        /\ tries # <<>> /\ at \in {"decide", "judge"} => memory[s] = sampled[s]
        /\ Len(tries) > 1 => Len(h) >= 2 /\ h[Len(h) - 1] = h[Len(h)]
        /\ Len(tries) = 1 => \A n \in 1 .. MemWindow : rises[s] >= n <=> Climbs(h, n)
        /\ tries = <<>> /\ at = "decide" =>
              \A n \in 1 .. MemWindow : rises[s] >= n <=> Climbs(Append(h, memory[s]), n)

\* Samples that show no rise.
NoSamples == [s \in Service |-> <<>>]

\* What has been tried in this decision, and why.
TriesInv ==
    /\ RetriesMoveOn
    /\ \A i \in 1 .. Len(tries) - 1 : tries[i] # NoOp
    /\ at = "decide" => Len(tries) <= RetryCap /\ \A i \in 1 .. Len(tries) : tries[i] # NoOp
    /\ at \in {"decide", "judge"} => \A i \in 1 .. Len(tries) :
          /\ tries[i] # NoOp => last[tries[i].service] = tick
          /\ Cooldown = 0 /\ tries[i].remedy # "restart" => tries[i] \in Choices(NoSamples)
    /\ at \in {"judge", "execute"} => tries # <<>>
    /\ at = "judge" => Len(tries) <= RetryCap + 1

RuleInv ==
    /\ RuleTypeOK /\ WindowInv /\ TriesInv
    /\ \A s \in Service : Samples(s)
    /\ ProposesWhatIsDue

\* The two fields of the configuration.
USE DEF HistoryWindow, Cooldown

-----------------------------------------------------------------------------
\* The windows.  A deque keeps what is last, at its distance from the end.
LEMMA LatestKeeps ==
  ASSUME NEW S, NEW q \in Seq(S), NEW w \in Nat
  PROVE  LET t == Latest(q, w)
         IN  /\ t \in Seq(S) /\ Len(t) \in Nat
             /\ Len(t) = IF Len(q) <= w THEN Len(q) ELSE w
             /\ \A i \in 0 .. Len(t) - 1 : t[Len(t) - i] = q[Len(q) - i]
<1>1. Len(q) \in Nat
  OBVIOUS
<1>2. CASE Len(q) <= w
  BY <1>1, <1>2 DEF Latest
<1>3. CASE ~(Len(q) <= w)
  <2> DEFINE t == SubSeq(q, Len(q) - w + 1, Len(q))
  <2>1. Latest(q, w) = t
    BY <1>3 DEF Latest
  <2>2. /\ Len(q) - w + 1 \in 1 .. Len(q) + 1 /\ Len(q) \in 0 .. Len(q)
        /\ Len(q) - (Len(q) - w + 1) + 1 = w
    BY <1>1, <1>3
  <2>3. /\ t \in Seq(S) /\ Len(t) = w
        /\ \A i \in 1 .. w : t[i] = q[Len(q) - w + 1 + i - 1]
    <3> DEFINE m == Len(q) - w + 1
               n == Len(q)
    <3>1. m \in 1 .. n + 1 /\ n \in Nat /\ n - m + 1 = w
      BY <1>1, <1>3
    <3>2. t = SubSeq(q, m, n)
      OBVIOUS
    <3>3. \A i \in m .. n : q[i] \in S
      BY <3>1
    <3> HIDE DEF m, n, t
    <3>4. /\ SubSeq(q, m, n) \in Seq(S)
          /\ Len(SubSeq(q, m, n)) = IF m <= n THEN n - m + 1 ELSE 0
          /\ \A i \in 1 .. n - m + 1 : SubSeq(q, m, n)[i] = q[m + i - 1]
      BY <3>1, <3>3, SubSeqProperties
    <3>5. Len(SubSeq(q, m, n)) = w
      BY <3>1, <3>4
    <3>6. QED
      BY <3>1, <3>2, <3>4, <3>5 DEF m
  <2>4. \A i \in 0 .. w - 1 : w - i \in 1 .. w /\ Len(q) - w + 1 + (w - i) - 1 = Len(q) - i
    BY <1>1
  <2> HIDE DEF t
  <2>5. \A i \in 0 .. w - 1 : t[w - i] = q[Len(q) - i]
    BY <2>3, <2>4
  <2>6. QED
    BY <1>3, <2>1, <2>3, <2>5
<1>4. QED
  BY <1>2, <1>3

\* A sample more: it rises over one decision at least, and over one more than
\* before if it is above the sample before it.
LEMMA ClimbsOn ==
  ASSUME NEW h \in Seq(Nat), NEW m \in Nat, NEW n \in Nat \ {0}
  PROVE  /\ Climbs(Append(h, m), 1)
         /\ Climbs(Append(h, m), n + 1) <=> Climbs(h, n) /\ h[Len(h)] < m
<1> DEFINE t == Append(h, m)
<1>1. /\ Len(h) \in Nat /\ Len(t) = Len(h) + 1 /\ t[Len(t)] = m
      /\ \A i \in 1 .. Len(h) : t[i] = h[i]
  OBVIOUS
<1> HIDE DEF t
<1>2. Climbs(t, 1)
  BY <1>1 DEF Climbs
<1>3. ASSUME Climbs(t, n + 1) PROVE Climbs(h, n) /\ h[Len(h)] < m
  <2>1. Len(h) >= n /\ \A i \in 0 .. n - 1 : t[Len(h) - i] < t[Len(h) + 1 - i]
    <3>1. Len(t) >= n + 1 /\ \A i \in 0 .. n + 1 - 2 : t[Len(t) - i - 1] < t[Len(t) - i]
      BY <1>3 DEF Climbs
    <3>2. \A i \in 0 .. n - 1 : Len(t) - i - 1 = Len(h) - i /\ Len(t) - i = Len(h) + 1 - i
      BY <1>1
    <3>3. n + 1 - 2 = n - 1 /\ Len(h) >= n
      BY <1>1, <3>1
    <3>4. QED
      BY <3>1, <3>2, <3>3
  <2>2. 0 \in 0 .. n - 1 /\ Len(h) \in 1 .. Len(h)
    BY <1>1, <2>1
  <2>3. t[Len(h) - 0] < t[Len(h) + 1 - 0]
    BY <2>1, <2>2
  <2>4. h[Len(h)] < m
    BY <1>1, <2>2, <2>3
  <2>5. ASSUME NEW i \in 0 .. n - 2 PROVE h[Len(h) - i - 1] < h[Len(h) - i]
    <3>1. i + 1 \in 0 .. n - 1 /\ Len(h) - (i + 1) = Len(h) - i - 1
          /\ Len(h) + 1 - (i + 1) = Len(h) - i
      BY <1>1
    <3>2. Len(h) - i - 1 \in 1 .. Len(h) /\ Len(h) - i \in 1 .. Len(h)
      BY <1>1, <2>1
    <3>3. t[Len(h) - i - 1] < t[Len(h) - i]
      BY <2>1, <3>1
    <3>4. QED
      BY <1>1, <3>2, <3>3
  <2>6. QED
    BY <2>1, <2>4, <2>5 DEF Climbs
<1>4. ASSUME Climbs(h, n), h[Len(h)] < m PROVE Climbs(t, n + 1)
  <2>1. Len(h) >= n /\ \A i \in 0 .. n - 2 : h[Len(h) - i - 1] < h[Len(h) - i]
    BY <1>4 DEF Climbs
  <2>2. ASSUME NEW i \in 0 .. n - 1 PROVE t[Len(h) + 1 - i - 1] < t[Len(h) + 1 - i]
    <3>1. CASE i = 0
      <4>1. Len(h) + 1 - i - 1 = Len(h) /\ Len(h) + 1 - i = Len(t) /\ Len(h) \in 1 .. Len(h)
        BY <1>1, <2>1, <3>1
      <4>2. QED
        BY <1>1, <1>4, <4>1
    <3>2. CASE i # 0
      <4>1. /\ i - 1 \in 0 .. n - 2 /\ Len(h) - (i - 1) - 1 = Len(h) + 1 - i - 1
            /\ Len(h) - (i - 1) = Len(h) + 1 - i
            /\ Len(h) + 1 - i - 1 \in 1 .. Len(h) /\ Len(h) + 1 - i \in 1 .. Len(h)
        BY <1>1, <2>1, <3>2
      <4>2. h[Len(h) + 1 - i - 1] < h[Len(h) + 1 - i]
        BY <2>1, <4>1
      <4>3. QED
        BY <1>1, <4>1, <4>2
    <3>3. QED
      BY <3>1, <3>2
  <2>3. Len(t) >= n + 1 /\ Len(t) = Len(h) + 1 /\ n + 1 - 2 = n - 1
    BY <1>1, <2>1
  <2>4. \A i \in 0 .. n - 1 : /\ Len(t) - i - 1 = Len(h) + 1 - i - 1
                                /\ Len(t) - i = Len(h) + 1 - i
    BY <1>1
  <2>5. \A i \in 0 .. n - 1 : t[Len(t) - i - 1] < t[Len(t) - i]
    BY <2>2, <2>4
  <2>6. QED
    BY <2>3, <2>5 DEF Climbs
<1>5. QED
  BY <1>2, <1>3, <1>4 DEF t

\* What is cut off at the other end does not matter.
LEMMA ClimbsLatest ==
  ASSUME NEW h \in Seq(Nat), NEW w \in Nat, NEW n \in Nat, n <= w
  PROVE  Climbs(Latest(h, w), n) <=> Climbs(h, n)
<1> DEFINE t == Latest(h, w)
<1>1. /\ Len(h) \in Nat /\ Len(t) \in Nat /\ Len(t) = IF Len(h) <= w THEN Len(h) ELSE w
      /\ \A i \in 0 .. Len(t) - 1 : t[Len(t) - i] = h[Len(h) - i]
  BY LatestKeeps
<1> HIDE DEF t
<1>2. Len(t) >= n <=> Len(h) >= n
  BY <1>1
<1>3. ASSUME Len(t) >= n, NEW i \in 0 .. n - 2
      PROVE  t[Len(t) - i - 1] = h[Len(h) - i - 1] /\ t[Len(t) - i] = h[Len(h) - i]
  <2>1. /\ i \in 0 .. Len(t) - 1 /\ i + 1 \in 0 .. Len(t) - 1
        /\ Len(t) - (i + 1) = Len(t) - i - 1 /\ Len(h) - (i + 1) = Len(h) - i - 1
    BY <1>1, <1>3
  <2>2. t[Len(t) - (i + 1)] = h[Len(h) - (i + 1)]
    BY <1>1, <2>1
  <2>3. QED
    BY <1>1, <2>1, <2>2
<1>4. QED
  BY <1>2, <1>3 DEF Climbs, t

\* The restart rule looks at the samples of mem_growth_window decisions.
LEMMA GrowingIsClimbing ==
  ASSUME NEW h \in Seq(Nat)
  PROVE  Growing(h) <=> Climbs(h, MemWindow)
<1> DEFINE t == Latest(h, MemWindow)
<1>1. MemWindow \in Nat /\ Len(h) \in Nat
  BY RuleAssumption DEF RuleAssumption
<1>2. Len(t) = IF Len(h) <= MemWindow THEN Len(h) ELSE MemWindow
  BY <1>1, LatestKeeps
<1>3. Climbs(t, MemWindow) <=> Climbs(h, MemWindow)
  BY <1>1, ClimbsLatest
<1>4. Growing(h) <=> Len(h) >= MemWindow /\ \A i \in 1 .. Len(t) - 1 : t[i] < t[i + 1]
  BY DEF Growing
<1> HIDE DEF t
<1>5. CASE Len(h) >= MemWindow
  <2>1. Len(t) = MemWindow
    BY <1>1, <1>2, <1>5
  <2>2. ASSUME \A i \in 1 .. MemWindow - 1 : t[i] < t[i + 1], NEW i \in 0 .. MemWindow - 2
        PROVE  t[MemWindow - i - 1] < t[MemWindow - i]
    <3>1. MemWindow - i - 1 \in 1 .. MemWindow - 1 /\ MemWindow - i - 1 + 1 = MemWindow - i
      BY <1>1
    <3>2. QED
      BY <2>2, <3>1
  <2>3. ASSUME \A i \in 0 .. MemWindow - 2 : t[MemWindow - i - 1] < t[MemWindow - i],
               NEW i \in 1 .. MemWindow - 1
        PROVE  t[i] < t[i + 1]
    <3>1. /\ MemWindow - 1 - i \in 0 .. MemWindow - 2
          /\ MemWindow - (MemWindow - 1 - i) - 1 = i /\ MemWindow - (MemWindow - 1 - i) = i + 1
      BY <1>1
    <3>2. QED
      BY <2>3, <3>1
  <2>4. QED
    BY <1>1, <1>3, <1>4, <1>5, <2>1, <2>2, <2>3 DEF Climbs
<1>6. CASE ~(Len(h) >= MemWindow)
  BY <1>4, <1>6 DEF Climbs
<1>7. QED
  BY <1>5, <1>6

\* The other rules look at the last sustain_ticks entries of the collector.
LEMMA SustainedIsShown ==
  ASSUME RuleTypeOK, NEW x
  PROVE  Sustained(x) <=> Shown(history, x, Sustain)
<1>1. Sustain \in Nat /\ Len(history) \in Nat
  BY RuleAssumption DEF RuleAssumption, RuleTypeOK
<1>2. ASSUME Sustained(x), NEW i \in 0 .. Sustain - 1 PROVE x \in Shows(history[Len(history) - i])
  <2>1. Len(history) - i \in Len(history) - Sustain + 1 .. Len(history)
    BY <1>1
  <2>2. QED
    BY <1>2, <2>1 DEF Sustained
<1>3. ASSUME Shown(history, x, Sustain), NEW i \in Len(history) - Sustain + 1 .. Len(history)
      PROVE  x \in Shows(history[i])
  <2>1. Len(history) - i \in 0 .. Sustain - 1 /\ Len(history) - (Len(history) - i) = i
    BY <1>1
  <2>2. QED
    BY <1>3, <2>1 DEF Shown
<1>4. QED
  BY <1>2, <1>3 DEF Sustained, Shown

\* A tick more has shown a condition one tick longer, or ended it.
LEMMA ShownOn ==
  ASSUME NEW q \in Seq(Metrics), NEW now \in Metrics, NEW x, NEW n \in Nat \ {0}
  PROVE  Shown(Append(q, now), x, n) <=> x \in Shows(now) /\ Shown(q, x, n - 1)
<1> DEFINE t == Append(q, now)
<1>1. /\ Len(q) \in Nat /\ Len(t) = Len(q) + 1 /\ t[Len(t)] = now
      /\ \A i \in 1 .. Len(q) : t[i] = q[i]
  OBVIOUS
<1> HIDE DEF t
<1>2. ASSUME Shown(t, x, n) PROVE x \in Shows(now) /\ Shown(q, x, n - 1)
  <2>1. Len(t) >= n /\ \A i \in 0 .. n - 1 : x \in Shows(t[Len(t) - i])
    BY <1>2 DEF Shown
  <2>2. 0 \in 0 .. n - 1 /\ Len(t) - 0 = Len(t)
    BY <1>1
  <2>3. x \in Shows(now)
    BY <1>1, <2>1, <2>2
  <2>4. ASSUME NEW i \in 0 .. n - 1 - 1 PROVE x \in Shows(q[Len(q) - i])
    <3>1. i + 1 \in 0 .. n - 1 /\ Len(t) - (i + 1) = Len(q) - i /\ Len(q) - i \in 1 .. Len(q)
      BY <1>1, <2>1
    <3>2. QED
      BY <1>1, <2>1, <3>1
  <2>5. Len(q) >= n - 1
    BY <1>1, <2>1
  <2>6. QED
    BY <2>3, <2>4, <2>5 DEF Shown
<1>3. ASSUME x \in Shows(now), Shown(q, x, n - 1) PROVE Shown(t, x, n)
  <2>1. Len(q) >= n - 1 /\ \A i \in 0 .. n - 1 - 1 : x \in Shows(q[Len(q) - i])
    BY <1>3 DEF Shown
  <2>2. ASSUME NEW i \in 0 .. n - 1 PROVE x \in Shows(t[Len(t) - i])
    <3>1. CASE i = 0
      <4>1. Len(t) - i = Len(t)
        BY <1>1, <3>1
      <4>2. QED
        BY <1>1, <1>3, <4>1
    <3>2. CASE i # 0
      <4>1. /\ i - 1 \in 0 .. n - 1 - 1 /\ Len(q) - (i - 1) = Len(t) - i
            /\ Len(t) - i \in 1 .. Len(q)
        BY <1>1, <2>1, <3>2
      <4>2. QED
        BY <1>1, <2>1, <4>1
    <3>3. QED
      BY <3>1, <3>2
  <2>3. Len(t) >= n
    BY <1>1, <2>1
  <2>4. QED
    BY <2>2, <2>3 DEF Shown
<1>4. QED
  BY <1>2, <1>3 DEF t

\* And what the collector has forgotten is too old to matter.
LEMMA ShownLatest ==
  ASSUME NEW q \in Seq(Metrics), NEW x, NEW w \in Nat, NEW n \in Nat, n <= w
  PROVE  Shown(Latest(q, w), x, n) <=> Shown(q, x, n)
<1> DEFINE t == Latest(q, w)
<1>1. /\ Len(q) \in Nat /\ Len(t) \in Nat /\ Len(t) = IF Len(q) <= w THEN Len(q) ELSE w
      /\ \A i \in 0 .. Len(t) - 1 : t[Len(t) - i] = q[Len(q) - i]
  BY LatestKeeps
<1> HIDE DEF t
<1>2. Len(t) >= n <=> Len(q) >= n
  BY <1>1
<1>3. ASSUME Len(t) >= n, NEW i \in 0 .. n - 1 PROVE t[Len(t) - i] = q[Len(q) - i]
  BY <1>1, <1>3
<1>4. QED
  BY <1>2, <1>3 DEF Shown, t

-----------------------------------------------------------------------------
\* What completes in a tick, from the footprints m that the tick brings.
LEMMA LandTypes ==
  ASSUME RuleTypeOK, NEW m \in [Service -> Nat], Land(m)
  PROVE  /\ memory' \in [Service -> Nat] /\ place' \in Placement
         /\ pending' \in [Service -> [left : Nat, to : Node \cup {Nowhere}]]
<1>1. pending \in [Service -> [left : Nat, to : Node \cup {Nowhere}]] /\ place \in Placement
  BY DEF RuleTypeOK
<1>2. memory' \in [Service -> Nat]
  BY DEF Land
<1>3. pending' \in [Service -> [left : Nat, to : Node \cup {Nowhere}]]
  <2>1. ASSUME NEW s \in Service
        PROVE  (IF pending[s].left <= 1 THEN [left |-> 0, to |-> Nowhere]
                ELSE [pending[s] EXCEPT !.left = @ - 1])
               \in [left : Nat, to : Node \cup {Nowhere}]
    BY <1>1
  <2>2. QED
    BY <2>1 DEF Land
<1>4. PICK moved \in SUBSET {s \in Landing : pending[s].to # Nowhere} :
        \E r \in [moved -> Paths] : place' =
                 [host |-> [s \in Service |-> IF s \in moved THEN pending[s].to ELSE place.host[s]],
                  route |-> [s \in Service |-> IF s \in moved THEN r[s] ELSE place.route[s]]]
  BY DEF Land
<1>5. PICK r \in [moved -> Paths] : place' =
                 [host |-> [s \in Service |-> IF s \in moved THEN pending[s].to ELSE place.host[s]],
                  route |-> [s \in Service |-> IF s \in moved THEN r[s] ELSE place.route[s]]]
  BY <1>4
<1>6. \A s \in Service : /\ s \in moved => pending[s].to \in Node /\ r[s] \in Paths
                         /\ place.host[s] \in Node /\ place.route[s] \in Paths
  BY <1>1, <1>4, <1>5 DEF Placement, Landing
<1>7. place' \in Placement
  BY <1>5, <1>6 DEF Placement
<1>8. QED
  BY <1>2, <1>3, <1>7

\* A tick: its numbers, and what it shows.
LEMMA TickTypes ==
  ASSUME RuleTypeOK, Tick
  PROVE  /\ RuleTypeOK'
         /\ \E now \in Metrics :
               /\ history' = Latest(Append(history, now), HistoryWindow)
               /\ \A x \in Signal : lasted'[x] = Lasting(x, now)
<1> USE RuleAssumption DEF RuleAssumption
<1>1. PICK now \in Telemetry, leaking \in SUBSET Leaky, no \in Refusals :
        /\ at = "drive" /\ tick' = tick + 1
        /\ history' = Observe(now)
        /\ lasted' = [x \in Signal |-> Lasting(x, now)]
        /\ Land([s \in Service |-> memory[s] + (IF s \in leaking THEN 1 ELSE 0)])
        /\ \/ /\ at' = "decide" /\ tries' = <<>> /\ applied' = NoOp
              /\ rises' = [s \in Service |-> Rising(s, memory'[s])]
           \/ UNCHANGED <<at, rises, tries, applied>>
        /\ UNCHANGED <<config, agent, sampled>>
  BY DEF Tick
<1>2. now \in Metrics
  OBVIOUS
<1>3. history' \in Seq(Metrics) /\ Len(history') <= HistoryWindow /\ Len(history') >= 1
  <2>0. HistoryWindow \in Nat \ {0}
    BY DEF RuleTypeOK
  <2>1. Append(history, now) \in Seq(Metrics) /\ Len(Append(history, now)) = Len(history) + 1
        /\ Len(history) \in Nat
    BY <1>2 DEF RuleTypeOK
  <2>2. /\ history' \in Seq(Metrics)
        /\ Len(history') = IF Len(Append(history, now)) <= HistoryWindow
                           THEN Len(Append(history, now)) ELSE HistoryWindow
    BY <1>1, <2>0, <2>1, LatestKeeps DEF Observe
  <2>3. QED
    BY <2>0, <2>1, <2>2
<1>4. lasted' \in [Signal -> Nat]
  <2>1. \A x \in Signal : Lasting(x, now) \in Nat
    BY DEF RuleTypeOK, Lasting, Least
  <2>2. QED
    BY <1>1, <2>1
<1>5. /\ memory' \in [Service -> Nat] /\ place' \in Placement
      /\ pending' \in [Service -> [left : Nat, to : Node \cup {Nowhere}]]
  <2> DEFINE m == [s \in Service |-> memory[s] + (IF s \in leaking THEN 1 ELSE 0)]
  <2>1. m \in [Service -> Nat]
    BY DEF RuleTypeOK
  <2>2. Land(m)
    BY <1>1
  <2> HIDE DEF m
  <2>3. QED
    BY <2>1, <2>2, LandTypes
<1>6. rises' \in [Service -> Nat]
  <2>1. \A s \in Service, m \in Nat : Rising(s, m) \in Nat
    BY DEF RuleTypeOK, Rising, Least
  <2>2. QED
    BY <1>1, <1>5, <2>1 DEF RuleTypeOK
<1>7. tries' \in Seq(Proposal) /\ applied' \in Proposal /\ at' \in {"drive", "decide"}
  <2>1. NoOp \in Proposal /\ <<>> \in Seq(Proposal)
    BY DEF Proposal
  <2>2. /\ tries' = <<>> \/ tries' = tries
        /\ applied' = NoOp \/ applied' = applied
        /\ at' = "decide" \/ at' = at
    BY <1>1
  <2>3. tries \in Seq(Proposal) /\ applied \in Proposal /\ at = "drive"
    BY <1>1 DEF RuleTypeOK
  <2>4. tries' \in Seq(Proposal)
    BY <2>1, <2>2, <2>3
  <2>5. applied' \in Proposal
    BY <2>1, <2>2, <2>3
  <2>6. QED
    BY <2>2, <2>3, <2>4, <2>5
<1>8. RuleTypeOK'
  BY <1>1, <1>3, <1>4, <1>5, <1>6, <1>7 DEF RuleTypeOK, agent
<1>9. \A x \in Signal : lasted'[x] = Lasting(x, now)
  BY <1>1
<1>10. QED
  BY <1>1, <1>2, <1>8, <1>9 DEF Observe

\* A signal has lasted for as long as the collector can show it.
LEMMA TickWindow == ASSUME RuleTypeOK, WindowInv, Tick PROVE WindowInv'
<1> USE RuleAssumption DEF RuleAssumption
<1>1. PICK now \in Metrics :
        /\ history' = Latest(Append(history, now), HistoryWindow)
        /\ \A x \in Signal : lasted'[x] = Lasting(x, now)
  BY TickTypes
<1>2. history \in Seq(Metrics) /\ Append(history, now) \in Seq(Metrics)
  BY DEF RuleTypeOK
<1> SUFFICES ASSUME NEW x \in Signal, NEW n \in 1 .. Sustain, n <= HistoryWindow
             PROVE  lasted'[x] >= n <=> Shown(history', x, n)
  BY DEF WindowInv, Tick
<1>3. n \in Nat \ {0} /\ HistoryWindow \in Nat /\ lasted[x] \in Nat
  BY DEF RuleTypeOK
<1>4. Shown(history', x, n) <=> x \in Shows(now) /\ Shown(history, x, n - 1)
  BY <1>1, <1>2, <1>3, ShownOn, ShownLatest
<1>5. lasted'[x] >= n <=> x \in Shows(now) /\ lasted[x] + 1 >= n
  <2>1. lasted'[x] = IF x \in Shows(now) THEN Least(Sustain, lasted[x] + 1) ELSE 0
    BY <1>1 DEF Lasting
  <2>2. CASE x \in Shows(now)
    BY <1>3, <2>1, <2>2 DEF Least
  <2>3. CASE x \notin Shows(now)
    BY <1>3, <2>1, <2>3
  <2>4. QED
    BY <2>2, <2>3
<1>6. Shown(history, x, n - 1) <=> lasted[x] + 1 >= n
  <2>1. CASE n = 1
    <3>1. Shown(history, x, 0) /\ n - 1 = 0
      BY <1>2, <2>1 DEF Shown
    <3>2. QED
      BY <1>3, <2>1, <3>1
  <2>2. CASE n # 1
    <3>1. n - 1 \in 1 .. Sustain /\ n - 1 <= HistoryWindow
      BY <1>3, <2>2
    <3>2. lasted[x] >= n - 1 <=> Shown(history, x, n - 1)
      BY <3>1 DEF WindowInv
    <3>3. QED
      BY <1>3, <3>2
  <2>3. QED
    BY <2>1, <2>2
<1>7. QED
  BY <1>4, <1>5, <1>6

\* Some proposal has been made, or none.
LEMMA TriesCounted ==
  ASSUME RuleTypeOK
  PROVE  Len(tries) \in Nat /\ (tries = <<>> <=> Len(tries) = 0)
<1>1. tries \in Seq(Proposal)
  BY DEF RuleTypeOK
<1>2. \A seq \in Seq(Proposal) : seq # <<>> => Len(seq) \in Nat \ {0}
  BY EmptySeq, Zenon
<1>3. QED
  BY <1>1, <1>2

\* On a decision tick the memory is one sample more of its last one: it rises over
\* as many decisions as the samples and it tell.
LEMMA RisingIsClimbing ==
  ASSUME RuleTypeOK, NEW s \in Service, Samples(s), at = "drive", NEW m \in Nat,
         NEW n \in 1 .. MemWindow
  PROVE  Rising(s, m) >= n <=> Climbs(Append(mem_history[s], m), n)
<1> DEFINE h == mem_history[s]
           t == Append(h, m)
<1>1. /\ h \in Seq(Nat) /\ Len(h) \in Nat /\ rises[s] \in Nat /\ sampled[s] \in Nat \cup {Never}
      /\ tries \in Seq(Proposal) /\ Len(tries) \in Nat
  BY DEF RuleTypeOK
<1>2. n \in Nat \ {0} /\ MemWindow \in Nat /\ Never \notin Nat
  BY RuleAssumption DEF RuleAssumption, Never
<1>3. /\ IF h = <<>> THEN sampled[s] = Never ELSE sampled[s] = h[Len(h)]
      /\ tries = <<>> => h = <<>>
      /\ Len(tries) > 1 => Len(h) >= 2 /\ h[Len(h) - 1] = h[Len(h)]
      /\ Len(tries) = 1 => \A k \in 1 .. MemWindow : rises[s] >= k <=> Climbs(h, k)
  BY DEF Samples
<1>4. Climbs(t, 1) /\ Len(t) = Len(h) + 1
  BY <1>1, ClimbsOn
<1>5. n > 1 => /\ n - 1 \in Nat \ {0}
               /\ Climbs(t, n) <=> Climbs(h, n - 1) /\ h[Len(h)] < m
  <2>1. SUFFICES ASSUME n > 1 PROVE n - 1 \in Nat \ {0}
                   /\ (Climbs(t, n) <=> Climbs(h, n - 1) /\ h[Len(h)] < m)
    OBVIOUS
  <2>2. n - 1 \in Nat \ {0} /\ n - 1 + 1 = n
    BY <1>2, <2>1
  <2>3. Climbs(t, n - 1 + 1) <=> Climbs(h, n - 1) /\ h[Len(h)] < m
    BY <1>1, <2>2, ClimbsOn
  <2>4. QED
    BY <2>2, <2>3
<1> HIDE DEF h, t
<1>6. CASE n = 1
  <2>1. Rising(s, m) >= 1
    BY <1>1, <1>2 DEF Rising, Least
  <2>2. QED
    BY <1>4, <1>6, <2>1 DEF t, h
<1>7. CASE n > 1
  <2>1. CASE h = <<>>
    <3>1. Len(t) = 1 /\ ~Climbs(t, n)
      BY <1>2, <1>4, <1>7, <2>1 DEF Climbs
    <3>2. Rising(s, m) = 1
      BY <1>3, <2>1 DEF Rising
    <3>3. QED
      BY <1>2, <1>7, <3>1, <3>2 DEF t, h
  <2>2. CASE h # <<>> /\ ~(h[Len(h)] < m)
    <3>1. h[Len(h)] \in Nat /\ sampled[s] = h[Len(h)]
      BY <1>1, <1>2, <1>3, <2>2
    <3>2. Rising(s, m) = 1
      BY <2>2, <3>1 DEF Rising
    <3>3. QED
      BY <1>2, <1>5, <1>7, <2>2, <3>2 DEF t, h
  <2>3. CASE h # <<>> /\ h[Len(h)] < m
    <3>1. h[Len(h)] \in Nat /\ sampled[s] = h[Len(h)] /\ ~(m <= sampled[s]) /\ sampled[s] # Never
      BY <1>1, <1>2, <1>3, <2>3
    <3>2. CASE Len(tries) > 1
      <4>1. Rising(s, m) = 2
        BY <3>1, <3>2 DEF Rising
      <4>2. Climbs(h, 1) /\ (n > 2 => ~Climbs(h, n - 1))
        <5>1. Len(h) >= 2 /\ ~(h[Len(h) - 1] < h[Len(h)])
          BY <1>1, <1>3, <3>1, <3>2
        <5>2. Climbs(h, 1)
          BY <1>1, <5>1 DEF Climbs
        <5>3. ASSUME n > 2, Climbs(h, n - 1) PROVE FALSE
          <6>1. 0 \in 0 .. n - 1 - 2 /\ Len(h) - 0 - 1 = Len(h) - 1 /\ Len(h) - 0 = Len(h)
            BY <1>1, <1>2, <5>3
          <6>2. h[Len(h) - 0 - 1] < h[Len(h) - 0]
            BY <5>3, <6>1 DEF Climbs
          <6>3. QED
            BY <5>1, <6>1, <6>2
        <5>4. QED
          BY <5>2, <5>3
      <4>3. CASE n = 2
        <5>1. n - 1 = 1
          BY <4>3
        <5>2. QED
          BY <1>5, <1>7, <2>3, <4>1, <4>2, <4>3, <5>1 DEF t, h
      <4>4. CASE n > 2
        BY <1>2, <1>5, <1>7, <4>1, <4>2, <4>4 DEF t, h
      <4>5. QED
        BY <1>2, <1>7, <4>3, <4>4
    <3>3. CASE ~(Len(tries) > 1)
      <4>1. Len(tries) = 1
        <5>1. tries # <<>>
          BY <1>3, <2>3
        <5>2. QED
          BY <3>3, <5>1, TriesCounted
      <4>2. rises[s] >= n - 1 <=> Climbs(h, n - 1)
        <5>1. n - 1 \in 1 .. MemWindow
          BY <1>2, <1>7
        <5>2. QED
          BY <1>3, <4>1, <5>1
      <4>3. Rising(s, m) = Least(MemWindow, rises[s] + 1)
        BY <3>1, <3>3 DEF Rising
      <4>4. Rising(s, m) >= n <=> rises[s] >= n - 1
        BY <1>1, <1>2, <4>3 DEF Least
      <4>5. QED
        BY <1>5, <1>7, <2>3, <4>2, <4>4 DEF t, h
    <3>4. QED
      BY <3>2, <3>3
  <2>4. QED
    BY <2>1, <2>2, <2>3
<1>8. QED
  BY <1>2, <1>6, <1>7

\* A tick keeps what the samples tell.
LEMMA TickSamples ==
  ASSUME RuleTypeOK, NEW s \in Service, Samples(s), Tick
  PROVE  Samples(s)'
<1>1. /\ at = "drive" /\ UNCHANGED <<mem_history, sampled>>
      /\ \/ /\ at' = "decide" /\ tries' = <<>>
            /\ rises' = [t \in Service |-> Rising(t, memory'[t])]
         \/ UNCHANGED <<at, rises, tries>>
  BY DEF Tick, agent
<1>2. CASE at' = "decide" /\ tries' = <<>> /\ rises' = [t \in Service |-> Rising(t, memory'[t])]
  <2>1. memory'[s] \in Nat
    BY TickTypes DEF RuleTypeOK
  <2>2. PICK m \in Nat : m = memory'[s]
    BY <2>1
  <2>3. \A n \in 1 .. MemWindow : Rising(s, m) >= n <=> Climbs(Append(mem_history[s], m), n)
    BY <1>1, RisingIsClimbing
  <2>4. rises'[s] = Rising(s, m) /\ mem_history'[s] = mem_history[s]
    BY <1>1, <1>2, <2>2
  <2>5. \A n \in 1 .. MemWindow :
            rises'[s] >= n <=> Climbs(Append(mem_history'[s], memory'[s]), n)
    BY <2>2, <2>3, <2>4
  <2>6. Len(tries') = 0 /\ ~(Len(tries') > 1) /\ Len(tries') # 1
    BY <1>2
  <2>7. QED
    BY <1>1, <1>2, <2>5, <2>6 DEF Samples
<1>3. CASE UNCHANGED <<at, rises, tries>>
  BY <1>1, <1>3 DEF Samples
<1>4. QED
  BY <1>1, <1>2, <1>3

-----------------------------------------------------------------------------
\* The rules.  A set of naturals has a least element.
LEMMA LeastOfNaturals ==
  ASSUME NEW S \in SUBSET Nat, S # {}
  PROVE  \E i \in S : \A j \in S : i <= j
<1>1. PICK i \in S : \A j \in S : ~(<<j, i>> \in OpToRel(<, Nat))
  BY NatLessThanWellFounded, WFMin, Zenon
<1>2. ASSUME NEW j \in S PROVE i <= j
  <2>1. <<j, i>> \in Nat \X Nat
    OBVIOUS
  <2>2. ~(j < i)
    BY <1>1, <2>1 DEF OpToRel
  <2>3. QED
    BY <2>2
<1>3. QED
  BY <1>2

\* There are five remedies, each at its own place, and holding is none of them.
LEMMA FiveRemedies ==
  /\ Len(Remedies) = 5
  /\ \A i \in 1 .. 5 : Remedies[i] \in Remedy
  /\ \A i, j \in 1 .. 5 : Remedies[i] = Remedies[j] => i = j
  /\ "no_op" \notin Remedy
<1>1. Len(Remedies) = 5
  BY DEF Remedies
<1>2. \A i \in 1 .. 5 : i = 1 \/ i = 2 \/ i = 3 \/ i = 4 \/ i = 5
  OBVIOUS
<1>3. \A i \in 1 .. 5 : Remedies[i] # "no_op"
  BY <1>2 DEF Remedies
<1>4. \A i, j \in 1 .. 5 : Remedies[i] = Remedies[j] => i = j
  BY <1>2 DEF Remedies
<1>5. QED
  BY <1>1, <1>3, <1>4 DEF Remedy

\* The agent acts by a rule that has a service to act on, and no rule before it has.
LEMMA FirstRuleDecides ==
  ASSUME NEW samples, NEW a \in Choices(samples)
  PROVE  /\ a \in Proposal
         /\ a # NoOp => /\ a.remedy \in Remedy /\ a.service \in Service
                        /\ a.service \in Eligible(a.remedy, samples)
                        /\ First(a.remedy, a.service, Eligible(a.remedy, samples))
         /\ \A r \in Before(a.remedy) : r \in Remedy /\ Eligible(r, samples) = {}
<1>1. Before(a.remedy) \subseteq Remedy
  BY FiveRemedies DEF Before
<1>2. CASE \A r \in Remedy : Eligible(r, samples) = {}
  <2>1. a = NoOp
    BY <1>2 DEF Choices
  <2>2. QED
    BY <1>1, <1>2, <2>1 DEF Proposal
<1>3. CASE ~(\A r \in Remedy : Eligible(r, samples) = {})
  BY <1>1, <1>3 DEF Choices, Proposal
<1>4. QED
  BY <1>2, <1>3

\* A signal that has lasted is one that the agent sees sustained.
LEMMA LastedIsSustained ==
  ASSUME RuleTypeOK, WindowInv, NEW x \in Signal
  PROVE  Lasted(x) <=> Sustained(x)
<1>1. /\ Sustain \in 1 .. Sustain /\ HistoryWindow \in Nat
      /\ Len(history) \in Nat /\ Len(history) <= HistoryWindow
  BY RuleAssumption DEF RuleAssumption, RuleTypeOK
<1>2. CASE HistoryWindow >= Sustain
  <2>1. lasted[x] >= Sustain <=> Shown(history, x, Sustain)
    BY <1>1, <1>2 DEF WindowInv
  <2>2. QED
    BY <1>2, <2>1, SustainedIsShown DEF Lasted
<1>3. CASE ~(HistoryWindow >= Sustain)
  BY <1>1, <1>3 DEF Lasted, Sustained
<1>4. QED
  BY <1>2, <1>3

\* The signals that the rules look at.
LEMMA SignalsOf ==
  ASSUME RuleTypeOK, NEW s \in Service
  PROVE  /\ <<"hot", place.host[s]>> \in Signal /\ <<"late", s>> \in Signal
         /\ \A l \in place.route[s] : <<"slow", l>> \in Signal
<1>1. place.host[s] \in Node /\ place.route[s] \subseteq Link
  BY RuleAssumption DEF RuleAssumption, RuleTypeOK, Placement
<1>2. QED
  BY <1>1 DEF Signal

\* The present metrics are those of the last tick.
LEMMA NowTyped ==
  ASSUME RuleTypeOK, at # "drive"
  PROVE  /\ \A s \in Service : Now.rate[s] \in Nat /\ place.host[s] \in Node
         /\ \A n \in Node : Now.util[n] \in Nat
<1>1. Len(history) \in 1 .. Len(history)
  BY DEF RuleTypeOK
<1>2. Now \in Metrics
  BY <1>1 DEF Now, RuleTypeOK
<1>3. QED
  BY <1>2 DEF Metrics, RuleTypeOK, Placement

\* Being heavier orders the services.
LEMMA HeavierOrders ==
  ASSUME RuleTypeOK, at # "drive"
  PROVE  /\ \A s, t \in Service : s # t => (Heavier(s, t) <=> ~Heavier(t, s))
         /\ \A s \in Service : ~Heavier(s, s)
         /\ \A s, t, u \in Service : Heavier(s, t) /\ Heavier(t, u) => Heavier(s, u)
<1>1. \A s \in Service : Now.rate[s] \in Nat /\ s \in Nat
  BY NowTyped, RuleAssumption DEF RuleAssumption, Service
<1>2. QED
  BY <1>1 DEF Heavier

\* So among some services one is the heaviest.
LEMMA HeaviestExists ==
  ASSUME RuleTypeOK, at # "drive", NEW V \in SUBSET Service, V # {}
  PROVE  \E s \in V : \A t \in V \ {s} : Heavier(s, t)
<1> DEFINE Above(s) == {t \in V : Heavier(t, s)}
           sizes == {Cardinality(Above(s)) : s \in V}
<1>1. \A s \in V : IsFiniteSet(Above(s)) /\ Cardinality(Above(s)) \in Nat
  <2>1. IsFiniteSet(Service)
    BY FS_Interval, RuleAssumption DEF RuleAssumption, Service
  <2>2. \A s \in V : Above(s) \subseteq Service
    OBVIOUS
  <2> HIDE DEF Above
  <2>3. QED
    BY <2>1, <2>2, FS_Subset, FS_CardinalityType
<1>2. PICK s \in V : \A t \in V : Cardinality(Above(s)) <= Cardinality(Above(t))
  <2>1. sizes \in SUBSET Nat /\ sizes # {}
    BY <1>1
  <2> HIDE DEF sizes
  <2>2. PICK n \in sizes : \A m \in sizes : n <= m
    BY <2>1, LeastOfNaturals
  <2>3. QED
    BY <2>2 DEF sizes
<1>3. ASSUME NEW t \in V \ {s}, ~Heavier(s, t) PROVE FALSE
  <2>1. Heavier(t, s) /\ s \in Service /\ t \in Service
    BY <1>3, HeavierOrders
  <2>2. Above(t) \subseteq Above(s) /\ t \in Above(s) /\ t \notin Above(t)
    BY <1>3, <2>1, HeavierOrders
  <2> HIDE DEF Above
  <2>3. Cardinality(Above(t)) < Cardinality(Above(s))
    BY <1>1, <2>2, FS_Subset
  <2>4. QED
    BY <1>1, <1>2, <1>3, <2>3
<1>4. QED
  BY <1>3

\* What a rule asks of a service, beside its being free to act on.
Asks(r, s, samples) ==
    CASE r = "migrate" -> Sustained(<<"hot", place.host[s]>>) /\ ~Compliant(s, Now)
      [] r = "restart" -> Growing(samples[s])
      [] r = "reroute" -> /\ Sustained(<<"late", s>>)
                          /\ \E l \in place.route[s] : Sustained(<<"slow", l>>)
      [] OTHER -> Sustained(<<"late", s>>)

LEMMA EligibleAsks ==
  ASSUME NEW samples, NEW r, NEW s \in Service
  PROVE  s \in Eligible(r, samples) <=>
            /\ Available(s) /\ <<r, s>> \notin refused /\ Asks(r, s, samples)
            /\ r = "migrate" => \A t \in Violating(place.host[s]) \ {s} : Heavier(s, t)
<1>1. CASE r = "migrate"
  BY <1>1 DEF Eligible, Asks, Candidate, Violating
<1>2. CASE r # "migrate"
  BY <1>2 DEF Eligible, Asks
<1>3. QED
  BY <1>1, <1>2

\* The rules leave no choice.
LEMMA OneChoice ==
  ASSUME RuleTypeOK, at # "drive", NEW samples,
         NEW a \in Choices(samples), NEW b \in Choices(samples)
  PROVE  a = b
<1>1. CASE \A r \in Remedy : Eligible(r, samples) = {}
  BY <1>1 DEF Choices
<1>2. CASE ~(\A r \in Remedy : Eligible(r, samples) = {})
  <2>1. /\ a \in [remedy : Remedy, service : Service] /\ b \in [remedy : Remedy, service : Service]
        /\ a.service \in Eligible(a.remedy, samples) /\ b.service \in Eligible(b.remedy, samples)
        /\ First(a.remedy, a.service, Eligible(a.remedy, samples))
        /\ First(b.remedy, b.service, Eligible(b.remedy, samples))
        /\ \A r \in Before(a.remedy) : Eligible(r, samples) = {}
        /\ \A r \in Before(b.remedy) : Eligible(r, samples) = {}
    BY <1>2 DEF Choices
  <2>2. a.remedy = b.remedy
    <3>1. PICK i \in 1 .. 5, j \in 1 .. 5 : a.remedy = Remedies[i] /\ b.remedy = Remedies[j]
      BY <2>1, FiveRemedies DEF Remedy
    <3>2. CASE i < j
      <4>1. \A k \in 1 .. i : Remedies[k] # b.remedy
        BY <3>1, <3>2, FiveRemedies
      <4>2. a.remedy \in Before(b.remedy)
        BY <3>1, <4>1, FiveRemedies DEF Before
      <4>3. QED
        BY <2>1, <4>2
    <3>3. CASE j < i
      <4>1. \A k \in 1 .. j : Remedies[k] # a.remedy
        BY <3>1, <3>3, FiveRemedies
      <4>2. b.remedy \in Before(a.remedy)
        BY <3>1, <4>1, FiveRemedies DEF Before
      <4>3. QED
        BY <2>1, <4>2
    <3>4. QED
      BY <3>1, <3>2, <3>3
  <2>3. a.service \in Service /\ b.service \in Service
    BY <2>1
  <2>4. CASE a.remedy # "migrate"
    <3>1. a.service <= b.service /\ b.service <= a.service
      BY <2>1, <2>2, <2>4 DEF First
    <3>2. a.service \in Nat /\ b.service \in Nat
      BY <2>3, RuleAssumption DEF RuleAssumption, Service
    <3>3. a.service = b.service
      BY <3>1, <3>2
    <3>4. QED
      BY <2>1, <2>2, <3>3
  <2>5. CASE a.remedy = "migrate"
    <3> DEFINE m == place.host[a.service]
               n == place.host[b.service]
    <3>1. ~Busier(m, n) /\ ~Busier(n, m)
      BY <2>1, <2>2, <2>5 DEF First
    <3>2. m \in Nat /\ n \in Nat /\ Now.util[m] \in Nat /\ Now.util[n] \in Nat
      BY <2>3, NowTyped, RuleAssumption DEF RuleAssumption, Node
    <3>3. m = n
      BY <3>1, <3>2 DEF Busier
    <3>4. a.service \in Violating(m) /\ b.service \in Violating(n)
      BY <2>1, <2>2, <2>5 DEF Eligible, Candidate
    <3>5. a.service # b.service => Heavier(a.service, b.service) /\ Heavier(b.service, a.service)
      BY <2>1, <2>2, <2>3, <2>5, <3>3, <3>4, EligibleAsks
    <3>6. a.service = b.service
      BY <2>3, <3>5, HeavierOrders
    <3>7. QED
      BY <2>1, <2>2, <3>6
  <2>6. QED
    BY <2>4, <2>5
<1>3. QED
  BY <1>1, <1>2

\* But for a restart they do not depend on the samples.
LEMMA ChoiceWithoutSamples ==
  ASSUME NEW samples, NEW a \in Choices(samples), a.remedy # "restart"
  PROVE  a \in Choices(NoSamples)
<1>1. Eligible("restart", NoSamples) = {}
  <2>1. Len(<<>>) = 0 /\ MemWindow \in Nat /\ ~(0 >= MemWindow)
    BY RuleAssumption DEF RuleAssumption
  <2>2. ~Growing(<<>>)
    BY <2>1 DEF Growing
  <2>3. QED
    BY <2>2 DEF Eligible, NoSamples
<1>2. \A r : r # "restart" => Eligible(r, samples) = Eligible(r, NoSamples)
  BY DEF Eligible
<1>3. "restart" \in Remedy /\ \A r : r \in Before("restart") => r = "migrate"
  <2>1. Remedies[2] = "restart" /\ Remedies[1] = "migrate"
    BY DEF Remedies
  <2>2. ASSUME NEW j \in 1 .. 5, \A k \in 1 .. j : Remedies[k] # "restart" PROVE j = 1
    <3>1. ~(2 \in 1 .. j)
      BY <2>1, <2>2
    <3>2. QED
      BY <3>1
  <2>3. QED
    BY <2>1, <2>2, FiveRemedies DEF Before
<1>4. CASE \A r \in Remedy : Eligible(r, samples) = {}
  <2>1. \A r \in Remedy : Eligible(r, NoSamples) = {}
    BY <1>1, <1>2, <1>4
  <2>2. QED
    BY <1>4, <2>1 DEF Choices
<1>5. CASE ~(\A r \in Remedy : Eligible(r, samples) = {})
  <2>1. /\ a \in [remedy : Remedy, service : Service]
        /\ a.service \in Eligible(a.remedy, samples)
        /\ First(a.remedy, a.service, Eligible(a.remedy, samples))
        /\ \A r \in Before(a.remedy) : Eligible(r, samples) = {}
    BY <1>5 DEF Choices
  <2>2. Eligible(a.remedy, samples) = Eligible(a.remedy, NoSamples)
    BY <1>2
  <2>3. \A r \in Before(a.remedy) : Eligible(r, NoSamples) = {}
    BY <1>1, <1>2, <2>1
  <2>4. ~(\A r \in Remedy : Eligible(r, NoSamples) = {})
    BY <2>1, <2>2
  <2>5. a.service \in Eligible(a.remedy, NoSamples)
        /\ First(a.remedy, a.service, Eligible(a.remedy, NoSamples))
    BY <2>1, <2>2
  <2>6. QED
    BY <2>1, <2>3, <2>4, <2>5 DEF Choices
<1>6. QED
  BY <1>4, <1>5

\* Nor do they change with what has been tried, if that leaves every service available.
LEMMA ChoicesStay ==
  ASSUME UNCHANGED <<history, place, refused>>,
         \A s \in Service : Available(s)' <=> Available(s)
  PROVE  Choices(NoSamples)' = Choices(NoSamples)
<1>1. Now' = Now /\ \A x : Sustained(x)' <=> Sustained(x)
  BY DEF Now, Sustained
<1>2. \A n : Violating(n)' = Violating(n)
  BY <1>1 DEF Violating
<1>3. \A s, t : Heavier(s, t)' <=> Heavier(s, t)
  BY <1>1 DEF Heavier
<1>4. \A m, n : Busier(m, n)' <=> Busier(m, n)
  BY <1>1 DEF Busier
<1>5. \A s : Candidate(s)' <=> Candidate(s)
  BY <1>2, <1>3 DEF Candidate
<1>6. \A r : Eligible(r, NoSamples)' = Eligible(r, NoSamples)
  BY <1>1, <1>5 DEF Eligible, NoSamples
<1>7. \A r, s, fit : First(r, s, fit)' <=> First(r, s, fit)
  BY <1>4 DEF First
<1>8. QED
  BY <1>6, <1>7 DEF Choices

\* The samples after a decision: the present memory is the last of them.
LEMMA Recorded ==
  ASSUME RuleTypeOK, NEW s \in Service
  PROVE  LET h == mem_history[s]
             t == Record[s]
         IN  /\ t \in Seq(Nat) /\ Len(t) \in Nat /\ Len(t) >= 1 /\ t[Len(t)] = memory[s]
             /\ h # <<>> => Len(t) >= 2 /\ t[Len(t) - 1] = h[Len(h)]
             /\ \A n \in 1 .. MemWindow : Climbs(t, n) <=> Climbs(Append(h, memory[s]), n)
<1> DEFINE h == mem_history[s]
           m == memory[s]
           q == Append(h, m)
           t == Latest(q, MemWindow + 1)
<1>1. h \in Seq(Nat) /\ m \in Nat /\ Record[s] = t
  BY DEF RuleTypeOK, Record
<1> HIDE DEF h, m
<1>2. /\ q \in Seq(Nat) /\ Len(h) \in Nat /\ Len(q) = Len(h) + 1 /\ q[Len(q)] = m
      /\ \A i \in 1 .. Len(h) : q[i] = h[i]
  BY <1>1
<1>3. MemWindow \in Nat \ {0, 1} /\ MemWindow + 1 \in Nat /\ MemWindow + 1 >= 3
  BY RuleAssumption DEF RuleAssumption
<1> HIDE DEF q
<1>4. /\ t \in Seq(Nat) /\ Len(t) \in Nat
      /\ Len(t) = IF Len(q) <= MemWindow + 1 THEN Len(q) ELSE MemWindow + 1
      /\ \A i \in 0 .. Len(t) - 1 : t[Len(t) - i] = q[Len(q) - i]
  BY <1>2, <1>3, LatestKeeps
<1>5. \A n \in 1 .. MemWindow : Climbs(t, n) <=> Climbs(q, n)
  BY <1>2, <1>3, ClimbsLatest
<1> HIDE DEF t
<1>6. Len(t) >= 1 /\ t[Len(t)] = m
  <2>1. Len(t) >= 1
    BY <1>2, <1>3, <1>4
  <2>2. 0 \in 0 .. Len(t) - 1 /\ Len(t) - 0 = Len(t) /\ Len(q) - 0 = Len(q)
    BY <1>2, <1>4, <2>1
  <2>3. QED
    BY <1>2, <1>4, <2>1, <2>2
<1>7. ASSUME h # <<>> PROVE Len(t) >= 2 /\ t[Len(t) - 1] = h[Len(h)]
  <2>1. Len(h) >= 1
    BY <1>1, <1>2, <1>7, EmptySeq
  <2>2. Len(t) >= 2
    BY <1>2, <1>3, <1>4, <2>1
  <2>3. 1 \in 0 .. Len(t) - 1 /\ Len(q) - 1 = Len(h) /\ Len(h) \in 1 .. Len(h)
    BY <1>2, <1>4, <2>1, <2>2
  <2>4. QED
    BY <1>2, <1>4, <2>2, <2>3
<1>8. QED
  BY <1>1, <1>4, <1>5, <1>6, <1>7 DEF h, m, q

\* What decide returns and remembers.
LEMMA DecideTypes ==
  ASSUME RuleTypeOK, NEW a \in Choices(Record), at = "decide", at' = "judge",
         mem_history' = Record, tries' = Append(tries, a), sampled' = memory,
         last' = IF a = NoOp THEN last ELSE [last EXCEPT ![a.service] = tick],
         UNCHANGED <<world, applied, lasted, rises>>
  PROVE  RuleTypeOK'
<1>1. a \in Proposal
  BY FirstRuleDecides
<1>2. mem_history' \in [Service -> Seq(Nat)]
  <2>1. \A s \in Service : Record[s] \in Seq(Nat)
    BY Recorded
  <2>2. QED
    BY <2>1 DEF Record
<1>3. last' \in [Service -> Nat \cup {Never}]
  BY DEF RuleTypeOK
<1>4. tries' \in Seq(Proposal)
  BY <1>1 DEF RuleTypeOK
<1>5. sampled' \in [Service -> Nat \cup {Never}]
  BY DEF RuleTypeOK
<1>6. QED
  BY <1>2, <1>3, <1>4, <1>5 DEF RuleTypeOK, world

\* One sample more for every time the agent is asked.
LEMMA DecideSamples ==
  ASSUME RuleTypeOK, NEW s \in Service, Samples(s), NEW a, at = "decide", at' = "judge",
         mem_history' = Record, tries' = Append(tries, a), sampled' = memory,
         UNCHANGED <<memory, rises>>
  PROVE  Samples(s)'
<1> DEFINE h == mem_history[s]
           t == Record[s]
<1>1. /\ t \in Seq(Nat) /\ Len(t) \in Nat /\ Len(t) >= 1 /\ t[Len(t)] = memory[s]
      /\ h # <<>> => Len(t) >= 2 /\ t[Len(t) - 1] = h[Len(h)]
      /\ \A n \in 1 .. MemWindow : Climbs(t, n) <=> Climbs(Append(h, memory[s]), n)
  BY Recorded
<1>2. mem_history'[s] = t /\ sampled'[s] = memory[s] /\ memory'[s] = memory[s]
      /\ rises'[s] = rises[s]
  OBVIOUS
<1>3. /\ IF h = <<>> THEN sampled[s] = Never ELSE sampled[s] = h[Len(h)]
      /\ tries # <<>> => h # <<>> /\ memory[s] = sampled[s]
      /\ tries = <<>> => \A n \in 1 .. MemWindow :
                            rises[s] >= n <=> Climbs(Append(h, memory[s]), n)
  BY DEF Samples
<1> HIDE DEF h, t
<1>4. /\ tries' # <<>> /\ Len(tries') = Len(tries) + 1 /\ Len(tries) \in Nat
      /\ (tries = <<>> <=> Len(tries) = 0)
  <2>1. tries \in Seq(Proposal) /\ Len(tries) \in Nat /\ (tries = <<>> <=> Len(tries) = 0)
    BY TriesCounted DEF RuleTypeOK
  <2>2. tries' = Append(tries, a)
    OBVIOUS
  <2>3. Len(tries') = Len(tries) + 1
    BY <2>1, <2>2
  <2>4. tries' # <<>>
    BY <2>1, <2>3
  <2>5. QED
    BY <2>1, <2>3, <2>4
<1>5. t # <<>>
  BY <1>1
<1>6. Len(tries') > 1 => Len(t) >= 2 /\ t[Len(t) - 1] = t[Len(t)]
  BY <1>1, <1>3, <1>4
<1>7. Len(tries') = 1 => \A n \in 1 .. MemWindow : rises'[s] >= n <=> Climbs(t, n)
  BY <1>1, <1>2, <1>3, <1>4
<1>8. QED
  BY <1>1, <1>2, <1>4, <1>5, <1>6, <1>7 DEF Samples

\* Asked again in the same decision, the agent sees every service's memory twice.
LEMMA RetryHidesRises ==
  ASSUME RuleTypeOK, NEW s \in Service, Samples(s), at = "decide", tries # <<>>
  PROVE  ~Growing(Record[s])
<1> DEFINE h == mem_history[s]
           t == Record[s]
<1>1. /\ t \in Seq(Nat) /\ Len(t) \in Nat /\ t[Len(t)] = memory[s]
      /\ h # <<>> => Len(t) >= 2 /\ t[Len(t) - 1] = h[Len(h)]
  BY Recorded
<1>2. h # <<>> /\ memory[s] = h[Len(h)] /\ memory[s] \in Nat
  BY DEF Samples, RuleTypeOK
<1> HIDE DEF h, t
<1>3. SUFFICES ASSUME Climbs(t, MemWindow) PROVE FALSE
  BY <1>1, GrowingIsClimbing DEF t
<1>4. 0 \in 0 .. MemWindow - 2 /\ Len(t) - 0 - 1 = Len(t) - 1 /\ Len(t) - 0 = Len(t)
  BY <1>1, RuleAssumption DEF RuleAssumption
<1>5. t[Len(t) - 0 - 1] < t[Len(t) - 0]
  BY <1>3, <1>4 DEF Climbs
<1>6. QED
  BY <1>1, <1>2, <1>4, <1>5

\* A service that has been tried is not available, or as available as before.
LEMMA DecideTries ==
  ASSUME RuleTypeOK, TriesInv, \A s \in Service : Samples(s),
         NEW a \in Choices(Record), at = "decide", at' = "judge",
         tries' = Append(tries, a),
         last' = IF a = NoOp THEN last ELSE [last EXCEPT ![a.service] = tick],
         UNCHANGED world
  PROVE  TriesInv'
<1> USE DEF world
<1>1. /\ a \in Proposal
      /\ a # NoOp => a.service \in Service /\ Available(a.service)
  BY FirstRuleDecides DEF Eligible
<1>2. /\ tries \in Seq(Proposal) /\ Len(tries) \in Nat /\ Len(tries') = Len(tries) + 1
      /\ tries'[Len(tries')] = a /\ tries' # <<>>
      /\ \A i \in 1 .. Len(tries) : tries'[i] = tries[i] /\ tries[i] \in Proposal
  <2>1. tries \in Seq(Proposal) /\ a \in Proposal
    BY <1>1 DEF RuleTypeOK
  <2>2. /\ Len(tries) \in Nat /\ Len(tries') = Len(tries) + 1 /\ tries'[Len(tries')] = a
        /\ \A i \in 1 .. Len(tries) : tries'[i] = tries[i] /\ tries[i] \in Proposal
    BY <2>1
  <2>3. tries' # <<>>
    BY <2>2
  <2>4. QED
    BY <2>1, <2>2, <2>3
<1>3. /\ Len(tries) <= RetryCap
      /\ \A i \in 1 .. Len(tries) : tries[i] # NoOp /\ last[tries[i].service] = tick
  BY DEF TriesInv
<1>4. \A i \in 1 .. Len(tries) : tries[i].service \in Service
  BY <1>2, <1>3 DEF Proposal
<1>5. Cooldown \in Nat /\ tick \in Nat /\ tick # Never /\ tick - tick = 0 /\ RetryCap \in Nat
  BY RuleAssumption DEF RuleAssumption, RuleTypeOK, Never
<1>6. \A i \in 1 .. Len(tries') : i = Len(tries') \/ i \in 1 .. Len(tries)
  BY <1>2
<1>7. ASSUME Cooldown > 0
      PROVE  \A i, j \in 1 .. Len(tries') :
                i # j => tries'[i] = NoOp \/ tries'[i].service # tries'[j].service
  <2>1. a # NoOp => last[a.service] # tick
    BY <1>1, <1>5, <1>7 DEF Available
  <2>2. a = NoOp => a.service = 0
    BY DEF NoOp
  <2>3. 0 \notin Service
    BY RuleAssumption DEF RuleAssumption, Service
  <2>4. \A i \in 1 .. Len(tries) : tries[i].service # a.service
    BY <1>3, <1>4, <2>1, <2>2, <2>3
  <2>5. \A i, j \in 1 .. Len(tries) : i # j => tries[i].service # tries[j].service
    BY <1>3, <1>7 DEF TriesInv, RetriesMoveOn
  <2>6. QED
    BY <1>2, <1>6, <2>4, <2>5
<1>8. tries # <<>> => a.remedy # "restart"
  <2>1. SUFFICES ASSUME tries # <<>>, a.remedy = "restart" PROVE FALSE
    OBVIOUS
  <2>2. a # NoOp
    BY <2>1 DEF NoOp
  <2>3. a.service \in Service /\ a.service \in Eligible(a.remedy, Record)
    BY <2>2, FirstRuleDecides
  <2>4. Growing(Record[a.service])
    BY <2>1, <2>3 DEF Eligible
  <2>5. QED
    BY <2>1, <2>3, <2>4, RetryHidesRises
<1>9. \A i \in 2 .. Len(tries') : tries'[i].remedy # "restart"
  <2>1. \A i \in 2 .. Len(tries) : tries[i].remedy # "restart"
    BY DEF TriesInv, RetriesMoveOn
  <2>2. \A i \in 2 .. Len(tries') : i \in 2 .. Len(tries) \/ (i = Len(tries') /\ Len(tries) # 0)
    BY <1>2
  <2>3. \A i \in 2 .. Len(tries) : i \in 1 .. Len(tries)
    OBVIOUS
  <2>4. Len(tries) # 0 => tries # <<>>
    BY TriesCounted
  <2>5. QED
    BY <1>2, <1>8, <2>1, <2>2, <2>3, <2>4
<1>10. ASSUME Cooldown = 0
       PROVE  \A i \in 1 .. Len(tries') :
                 tries'[i].remedy # "restart" => tries'[i] \in Choices(NoSamples)
  <2>1. \A i \in 1 .. Len(tries) :
            tries[i].remedy # "restart" => tries[i] \in Choices(NoSamples)
    BY <1>10 DEF TriesInv
  <2>2. a.remedy # "restart" => a \in Choices(NoSamples)
    BY ChoiceWithoutSamples
  <2>3. QED
    BY <1>2, <1>6, <2>1, <2>2
<1>11. ASSUME Cooldown = 0 PROVE Choices(NoSamples)' = Choices(NoSamples)
  <2>1. ASSUME NEW s \in Service PROVE Available(s)' <=> Available(s)
    <3>1. CASE a # NoOp /\ s = a.service
      <4>1. last'[s] = tick
        BY <3>1 DEF RuleTypeOK
      <4>2. QED
        BY <1>1, <1>5, <1>11, <3>1, <4>1 DEF Available
    <3>2. CASE ~(a # NoOp /\ s = a.service)
      <4>1. last'[s] = last[s]
        BY <1>1, <3>2 DEF RuleTypeOK
      <4>2. QED
        BY <4>1 DEF Available
    <3>3. QED
      BY <3>1, <3>2
  <2>2. QED
    BY <2>1, ChoicesStay
<1>12. ASSUME Cooldown = 0, NEW i \in 1 .. Len(tries'), NEW j \in 1 .. Len(tries'),
              i < j, tries'[i].remedy # "restart"
       PROVE  tries'[j] = tries'[i]
  <2>1. tries'[j].remedy # "restart"
    <3>1. j \in 2 .. Len(tries')
      BY <1>2, <1>12
    <3>2. QED
      BY <1>9, <3>1
  <2>2. tries'[i] \in Choices(NoSamples) /\ tries'[j] \in Choices(NoSamples)
    BY <1>10, <1>12, <2>1
  <2>3. QED
    BY <2>2, OneChoice
<1>13. \A i \in 1 .. Len(tries') - 1 : tries'[i] # NoOp
  BY <1>2, <1>3
<1>14. \A i \in 1 .. Len(tries') : tries'[i] # NoOp => last'[tries'[i].service] = tick
  <2>1. a # NoOp => last'[a.service] = tick
    BY <1>1 DEF RuleTypeOK
  <2>2. \A i \in 1 .. Len(tries) : last'[tries[i].service] = tick
    BY <1>1, <1>3, <1>4 DEF RuleTypeOK
  <2>3. QED
    BY <1>2, <1>6, <2>1, <2>2
<1>15. Len(tries') <= RetryCap + 1
  BY <1>2, <1>3, <1>5
<1>16. RetriesMoveOn'
  BY <1>7, <1>9, <1>12 DEF RetriesMoveOn
<1>17. \A i \in 1 .. Len(tries') : Cooldown = 0 /\ tries'[i].remedy # "restart"
           => tries'[i] \in Choices(NoSamples)'
  BY <1>10, <1>11
<1>18. QED
  BY <1>2, <1>13, <1>14, <1>15, <1>16, <1>17 DEF TriesInv

\* What a rule sees is what is due.
LEMMA AsksWhatIsDue ==
  ASSUME RuleTypeOK, WindowInv, NEW s \in Service, Samples(s), NEW r,
         NEW a, at = "decide", tries' = Append(tries, a),
         UNCHANGED <<config, history, place, lasted, rises>>
  PROVE  Due(r, s)' <=> Asks(r, s, Record)
<1>1. \A x \in Signal : Lasted(x)' <=> Sustained(x)
  BY LastedIsSustained DEF Lasted
<1>2. rises[s] >= MemWindow /\ Len(tries') = 1 <=> Growing(Record[s])
  <2> DEFINE h == mem_history[s]
             t == Record[s]
  <2>1. /\ t \in Seq(Nat)
        /\ \A n \in 1 .. MemWindow : Climbs(t, n) <=> Climbs(Append(h, memory[s]), n)
    BY Recorded
  <2>2. MemWindow \in 1 .. MemWindow
    BY RuleAssumption DEF RuleAssumption
  <2>3. Growing(t) <=> Climbs(t, MemWindow)
    BY <2>1, GrowingIsClimbing
  <2>4. Len(tries') = Len(tries) + 1 /\ Len(tries) \in Nat /\ (tries = <<>> <=> Len(tries) = 0)
    BY TriesCounted DEF RuleTypeOK
  <2>5. CASE tries = <<>>
    <3>1. rises[s] >= MemWindow <=> Climbs(Append(h, memory[s]), MemWindow)
      BY <2>2, <2>5 DEF Samples
    <3>2. QED
      BY <2>1, <2>2, <2>3, <2>4, <2>5, <3>1
  <2>6. CASE tries # <<>>
    <3>1. Len(tries') # 1
      BY <2>4, <2>6
    <3>2. QED
      BY <2>6, <3>1, RetryHidesRises
  <2>7. QED
    BY <2>5, <2>6
<1>3. Compliant(s, Now)' <=> Compliant(s, Now)
  BY DEF Now, Compliant
<1>4. /\ <<"hot", place.host[s]>> \in Signal /\ <<"late", s>> \in Signal
      /\ \A l \in place.route[s] : <<"slow", l>> \in Signal
  BY SignalsOf
<1>5. CASE r = "migrate"
  <2>1. Lasted(<<"hot", place.host[s]>>)' <=> Sustained(<<"hot", place.host[s]>>)
    BY <1>1, <1>4
  <2>2. QED
    BY <1>3, <1>5, <2>1 DEF Due, Asks, Lasted
<1>6. CASE r = "restart"
  BY <1>2, <1>6 DEF Due, Asks
<1>7. CASE r = "reroute"
  BY <1>1, <1>4, <1>7 DEF Due, Asks, Lasted
<1>8. CASE r \notin {"migrate", "restart", "reroute"}
  BY <1>1, <1>4, <1>8 DEF Due, Asks, Lasted
<1>9. QED
  BY <1>5, <1>6, <1>7, <1>8

\* So the agent proposes what is due, and passes over only what is refused, or
\* stands behind a heavier service that is.
LEMMA DecideDue ==
  ASSUME RuleInv, NEW a \in Choices(Record), at = "decide", at' = "judge",
         tries' = Append(tries, a),
         last' = IF a = NoOp THEN last ELSE [last EXCEPT ![a.service] = tick],
         UNCHANGED <<world, lasted, rises>>
  PROVE  ProposesWhatIsDue'
<1> USE DEF world
<1>1. /\ a \in Proposal
      /\ a # NoOp => /\ a.remedy \in Remedy /\ a.service \in Service
                     /\ a.service \in Eligible(a.remedy, Record)
      /\ \A r \in Before(a.remedy) : r \in Remedy /\ Eligible(r, Record) = {}
  BY FirstRuleDecides
<1>2. \A r, s : s \in Service => (Due(r, s)' <=> Asks(r, s, Record))
  BY AsksWhatIsDue DEF RuleInv
<1>3. Try' = a
  BY <1>1 DEF Try, RuleInv, RuleTypeOK
<1>4. ASSUME NEW s \in Service PROVE Free(s)' <=> Available(s)
  <2>1. /\ pending' = pending /\ tick' = tick /\ tick \in Nat /\ Cooldown \in Nat
        /\ last[s] \in Nat \cup {Never} /\ Never \notin Nat
    BY RuleAssumption DEF RuleAssumption, RuleInv, RuleTypeOK, Never
  <2>2. CASE s = a.service
    <3>1. a # NoOp
      <4>1. NoOp.service = 0 /\ 0 \notin Service
        BY RuleAssumption DEF RuleAssumption, Service, NoOp
      <4>2. QED
        BY <2>2, <4>1
    <3>2. Available(s)
      BY <1>1, <2>2, <3>1 DEF Eligible
    <3>3. QED
      BY <1>3, <2>1, <2>2, <3>2 DEF Free, Available
  <2>3. CASE s # a.service
    <3>1. last'[s] = last[s]
      BY <1>1, <2>3 DEF RuleInv, RuleTypeOK
    <3>2. QED
      BY <1>3, <2>1, <2>3, <3>1 DEF Free, Available
  <2>4. QED
    BY <2>2, <2>3
<1>5. \A s, t : Heavier(s, t)' <=> Heavier(s, t)
  BY DEF Heavier, Now
<1>6. ASSUME NEW s \in Service, NEW t \in Service, place.host[t] = place.host[s],
             Asks("migrate", s, Record)
      PROVE  t \in Rivals(s)' <=> t \in Violating(place.host[s]) /\ Heavier(t, s)
  <2>1. Asks("migrate", t, Record) <=> ~Compliant(t, Now)
    BY <1>6 DEF Asks
  <2>2. t \in Rivals(s)' <=> Heavier(t, s) /\ Asks("migrate", t, Record) /\ Available(t)
    BY <1>2, <1>4, <1>5, <1>6 DEF Rivals
  <2>3. QED
    BY <1>6, <2>1, <2>2 DEF Violating
<1>7. ASSUME a # NoOp PROVE Due(a.remedy, a.service)' /\ <<a.remedy, a.service>> \notin refused
  BY <1>1, <1>2, <1>7, EligibleAsks
<1>8. ASSUME a.remedy = "migrate" PROVE Rivals(a.service)' = {}
  <2>1. a # NoOp
    BY <1>8 DEF NoOp
  <2>2. /\ a.service \in Service /\ Asks("migrate", a.service, Record)
        /\ \A t \in Violating(place.host[a.service]) \ {a.service} : Heavier(a.service, t)
    BY <1>1, <1>8, <2>1, EligibleAsks
  <2>3. ASSUME NEW t \in Rivals(a.service)' PROVE FALSE
    <3>1. t \in Service /\ place.host[t] = place.host[a.service]
      BY <2>3 DEF Rivals
    <3>2. t \in Violating(place.host[a.service]) /\ Heavier(t, a.service)
      BY <1>6, <2>2, <2>3, <3>1
    <3>3. t # a.service /\ Heavier(a.service, t)
      BY <2>2, <3>1, <3>2, HeavierOrders DEF RuleInv
    <3>4. QED
      BY <2>2, <3>1, <3>2, <3>3, HeavierOrders DEF RuleInv
  <2>4. QED
    BY <2>3
<1>9. ASSUME NEW s \in Service, NEW r \in Before(a.remedy), Due(r, s)', Free(s)',
             <<r, s>> \notin refused
      PROVE  r = "migrate" /\ \E t \in Rivals(s)' : <<"migrate", t>> \in refused
  <2> DEFINE V == Violating(place.host[s])
  <2>1. Eligible(r, Record) = {} /\ Available(s) /\ Asks(r, s, Record)
    BY <1>1, <1>2, <1>4, <1>9
  <2>2. r = "migrate"
    BY <1>9, <2>1, EligibleAsks
  <2>3. s \in V /\ V \in SUBSET Service
    BY <2>1, <2>2 DEF Asks, Violating
  <2> HIDE DEF V
  <2>4. PICK t \in V : \A u \in V \ {t} : Heavier(t, u)
    BY <2>3, HeaviestExists DEF RuleInv
  <2>5. t \in Service /\ place.host[t] = place.host[s] /\ Available(t) /\ ~Compliant(t, Now)
    BY <2>4 DEF V, Violating
  <2>6. Asks("migrate", t, Record)
    BY <2>1, <2>2, <2>5 DEF Asks
  <2>7. <<"migrate", t>> \in refused
    <3>1. t \notin Eligible("migrate", Record)
      BY <2>1, <2>2
    <3>2. \A u \in Violating(place.host[t]) \ {t} : Heavier(t, u)
      BY <2>4, <2>5 DEF V
    <3>3. QED
      BY <2>5, <2>6, <3>1, <3>2, EligibleAsks
  <2>8. Heavier(t, s)
    BY <1>9, <2>2, <2>3, <2>4, <2>7
  <2>9. t \in Rivals(s)'
    BY <1>6, <2>1, <2>2, <2>4, <2>5, <2>8 DEF V
  <2>10. QED
    BY <2>2, <2>7, <2>9
<1>10. ASSUME Try' # NoOp PROVE Due(Try.remedy, Try.service)'
                             /\ <<Try.remedy, Try.service>>' \notin refused'
  <2>1. Due(a.remedy, a.service)' = Due(Try.remedy, Try.service)'
    BY <1>3 DEF Due
  <2>2. QED
    BY <1>3, <1>7, <1>10, <2>1
<1>11. ASSUME Try.remedy' = "migrate" PROVE Rivals(Try.service)' = {}
  <2>1. Rivals(a.service)' = Rivals(Try.service)'
    BY <1>3 DEF Rivals, Heavier
  <2>2. QED
    BY <1>3, <1>8, <1>11, <2>1
<1>12. ASSUME NEW s \in Service, NEW r \in Before(Try.remedy)', Due(r, s)', Free(s)'
       PROVE  \/ <<r, s>> \in refused'
              \/ r = "migrate" /\ \E t \in Rivals(s)' : <<"migrate", t>> \in refused'
  <2>1. r \in Before(a.remedy)
    BY <1>3, <1>12 DEF Before
  <2>2. QED
    BY <1>9, <1>12, <2>1
<1>13. QED
  BY <1>10, <1>11, <1>12 DEF ProposesWhatIsDue

\* A decision, of the first proposal or after a rejection, keeps RuleInv.
LEMMA DecideInv == RuleInv /\ Decide => RuleInv'
<1> SUFFICES ASSUME RuleInv, Decide PROVE RuleInv'
  OBVIOUS
<1>1. PICK a \in Choices(Record) :
        /\ at = "decide" /\ at' = "judge" /\ mem_history' = Record
        /\ last' = IF a = NoOp THEN last ELSE [last EXCEPT ![a.service] = tick]
        /\ tries' = Append(tries, a) /\ sampled' = memory
        /\ UNCHANGED <<world, applied, lasted, rises>>
  BY DEF Decide
<1>2. UNCHANGED <<config, tick, history, memory, place, lasted, rises>>
  BY <1>1 DEF world
<1>3. RuleTypeOK'
  BY <1>1, DecideTypes DEF RuleInv
<1>4. WindowInv'
  BY <1>2 DEF RuleInv, WindowInv
<1>5. TriesInv'
  BY <1>1, <1>2, DecideTries DEF RuleInv
<1>6. \A s \in Service : Samples(s)'
  BY <1>1, <1>2, DecideSamples DEF RuleInv
<1>7. ProposesWhatIsDue'
  BY <1>1, DecideDue
<1>8. QED
  BY <1>3, <1>4, <1>5, <1>6, <1>7 DEF RuleInv

-----------------------------------------------------------------------------
\* A tick keeps RuleInv.
LEMMA TickInv == RuleInv /\ Tick => RuleInv'
<1> SUFFICES ASSUME RuleInv, Tick PROVE RuleInv'
  OBVIOUS
<1>1. at = "drive" /\ ((at' = "decide" /\ tries' = <<>>) \/ UNCHANGED <<at, tries>>)
      /\ config' = config
  BY DEF Tick
<1>2. RuleTypeOK' /\ WindowInv' /\ \A s \in Service : Samples(s)'
  BY TickTypes, TickWindow, TickSamples DEF RuleInv
<1>3. TriesInv'
  <2>1. CASE at' = "decide" /\ tries' = <<>>
    <3>1. /\ Len(tries') = 0 /\ 1 .. Len(tries') = {}
          /\ 1 .. Len(tries') - 1 = {} /\ 2 .. Len(tries') = {}
      BY <2>1
    <3>2. RetriesMoveOn'
      BY <2>1, <3>1 DEF RetriesMoveOn
    <3>3. QED
      BY <2>1, <3>1, <3>2, RuleAssumption DEF RuleAssumption, TriesInv
  <2>2. CASE UNCHANGED <<at, tries>>
    BY <1>1, <2>2 DEF RuleInv, TriesInv, RetriesMoveOn
  <2>3. QED
    BY <1>1, <2>1, <2>2
<1>4. ProposesWhatIsDue'
  BY <1>1 DEF ProposesWhatIsDue
<1>5. QED
  BY <1>2, <1>3, <1>4 DEF RuleInv

\* As many proposals as there are services, and one more, cannot be of services
\* that all differ.
LEMMA NotAllRejected ==
  ASSUME RuleTypeOK, TriesInv, Cooldown > 0, \A i \in 1 .. Len(tries) : tries[i] # NoOp
  PROVE  Len(tries) <= Services
<1> DEFINE f == [i \in 1 .. Len(tries) |-> tries[i].service]
<1>1. Len(tries) \in Nat /\ Services \in Nat
  BY RuleAssumption, TriesCounted DEF RuleAssumption
<1>2. \A i \in 1 .. Len(tries) : tries[i].service \in Service
  <2>1. \A i \in 1 .. Len(tries) : tries[i] \in Proposal
    BY DEF RuleTypeOK
  <2>2. QED
    BY <2>1 DEF Proposal
<1>3. f \in [1 .. Len(tries) -> 1 .. Services]
  BY <1>2 DEF Service
<1>4. \A i, j \in 1 .. Len(tries) : i # j => f[i] # f[j]
  BY DEF TriesInv, RetriesMoveOn
<1> HIDE DEF f
<1>5. /\ IsFiniteSet(1 .. Services) /\ Cardinality(1 .. Services) = Services
      /\ IsFiniteSet(1 .. Len(tries)) /\ Cardinality(1 .. Len(tries)) = Len(tries)
  <2>1. ASSUME NEW n \in Nat PROVE IsFiniteSet(1 .. n) /\ Cardinality(1 .. n) = n
    <3>1. /\ IsFiniteSet(1 .. n)
          /\ Cardinality(1 .. n) = IF 1 > n THEN 0 ELSE n - 1 + 1
      BY FS_Interval
    <3>2. QED
      BY <3>1
  <2>2. QED
    BY <1>1, <2>1
<1>6. SUFFICES ASSUME Cardinality(1 .. Services) < Cardinality(1 .. Len(tries)) PROVE FALSE
  BY <1>1, <1>5
<1>7. \E i, j \in 1 .. Len(tries) : i # j /\ f[i] = f[j]
  BY <1>3, <1>5, <1>6, FS_PigeonHole
<1>8. QED
  BY <1>4, <1>7

\* An approved proposal is the last one; after a rejection there is another, or
\* the fallback, which is never reached with as many retries as services.
LEMMA JudgeInv == RuleInv /\ (Approve \/ Reject) => RuleInv'
<1> SUFFICES ASSUME RuleInv, Approve \/ Reject PROVE RuleInv'
  OBVIOUS
<1>1. /\ at = "judge" /\ UNCHANGED <<world, agent, tries, past>>
      /\ \/ at' = "execute" /\ applied' = Try
         \/ /\ Try # NoOp /\ applied' = applied
            /\ at' = IF Len(tries) <= RetryCap THEN "decide" ELSE "execute"
  BY DEF Approve, Reject
<1>2. /\ tries # <<>> /\ Len(tries) \in Nat \ {0} /\ Try \in Proposal
      /\ Len(tries) <= RetryCap + 1 /\ RetryCap \in Nat
  <2>1. tries # <<>> /\ Len(tries) <= RetryCap + 1
    BY <1>1 DEF RuleInv, TriesInv
  <2>2. Len(tries) \in Nat \ {0}
    BY <2>1, TriesCounted DEF RuleInv
  <2>3. Try \in Proposal
    BY <2>2 DEF Try, RuleInv, RuleTypeOK
  <2>4. QED
    BY <2>1, <2>2, <2>3, RuleAssumption DEF RuleAssumption
<1>3. RuleTypeOK'
  BY <1>1, <1>2 DEF RuleInv, RuleTypeOK, world, agent, past
<1>4. WindowInv'
  BY <1>1 DEF RuleInv, WindowInv, world, past
<1>5. \A s \in Service : Samples(s)'
  <2> TAKE s \in Service
  <2>1. Samples(s) /\ UNCHANGED <<memory, mem_history, sampled, rises, tries>>
    BY <1>1 DEF RuleInv, world, agent, past
  <2>2. at' \in {"decide", "execute"}
    BY <1>1
  <2>3. QED
    BY <1>1, <1>2, <2>1, <2>2 DEF Samples
<1>6. ProposesWhatIsDue'
  BY <1>1 DEF ProposesWhatIsDue
<1>7. TriesInv'
  <2>1. UNCHANGED <<tries, last, tick>> /\ Try' = Try
    BY <1>1 DEF world, agent, Try
  <2>2. Choices(NoSamples)' = Choices(NoSamples)
    <3>1. \A s \in Service : Available(s)' <=> Available(s)
      BY <1>1 DEF world, agent, Available
    <3>2. QED
      BY <1>1, <3>1, ChoicesStay DEF world
  <2>3. Try # NoOp => \A i \in 1 .. Len(tries) : tries[i] # NoOp
    <3>1. \A i \in 1 .. Len(tries) - 1 : tries[i] # NoOp
      BY DEF RuleInv, TriesInv
    <3>2. \A i \in 1 .. Len(tries) : i = Len(tries) \/ i \in 1 .. Len(tries) - 1
      BY <1>2
    <3>3. QED
      BY <3>1, <3>2 DEF Try
  <2>4. at' = "execute" /\ RetryCap >= Services /\ Cooldown > 0 => applied' = Try
    <3>1. SUFFICES ASSUME at' = "execute", ~(Len(tries) <= RetryCap), Try # NoOp,
                          RetryCap >= Services, Cooldown > 0
                   PROVE  FALSE
      BY <1>1
    <3>2. Len(tries) <= Services /\ Services \in Nat
      BY <2>3, <3>1, NotAllRejected, RuleAssumption DEF RuleAssumption, RuleInv
    <3>3. QED
      BY <1>2, <3>1, <3>2
  <2>5. RetriesMoveOn'
    BY <1>1, <2>1, <2>4 DEF world, RuleInv, TriesInv, RetriesMoveOn
  <2>6. at' = "decide" => Len(tries) <= RetryCap /\ Try # NoOp
    BY <1>1
  <2>7. at' # "judge"
    BY <1>1
  <2>8. config' = config
    BY <1>1 DEF world
  <2>9. QED
    BY <1>1, <1>2, <2>1, <2>2, <2>3, <2>5, <2>6, <2>7, <2>8 DEF RuleInv, TriesInv
<1>8. QED
  BY <1>3, <1>4, <1>5, <1>6, <1>7 DEF RuleInv

\* What is executed changes memory and effects, between two decisions.
LEMMA ExecuteInv == RuleInv /\ Execute => RuleInv'
<1> SUFFICES ASSUME RuleInv, Execute PROVE RuleInv'
  OBVIOUS
<1>1. /\ at = "execute" /\ at' = "drive"
      /\ UNCHANGED <<config, tick, history, memory, agent, tries, applied, past>>
  BY DEF Execute
<1>2. tries # <<>>
  BY <1>1 DEF RuleInv, TriesInv
<1>3. pending' \in [Service -> [left : Nat, to : Node \cup {Nowhere}]] /\ place' \in Placement
  <2>1. /\ pending \in [Service -> [left : Nat, to : Node \cup {Nowhere}]]
        /\ place \in Placement /\ Downtime \in Nat
    BY RuleAssumption DEF RuleAssumption, RuleInv, RuleTypeOK
  <2>2. CASE \E n \in Node : pending' = [pending EXCEPT ![applied.service] =
                                            [left |-> Downtime, to |-> n]] /\ place' = place
    <3>1. PICK n \in Node : pending' = [pending EXCEPT ![applied.service] =
                                           [left |-> Downtime, to |-> n]]
      BY <2>2
    <3>2. [left |-> Downtime, to |-> n] \in [left : Nat, to : Node \cup {Nowhere}]
      BY <2>1
    <3>3. QED
      BY <2>1, <2>2, <3>1, <3>2
  <2>3. CASE pending' = [pending EXCEPT ![applied.service] = [left |-> Downtime, to |-> Nowhere]]
             /\ place' = place
    BY <2>1, <2>3
  <2>4. CASE \E r \in Paths : place' = [place EXCEPT !.route[applied.service] = r]
                             /\ pending' = pending
    BY <2>1, <2>4 DEF Placement
  <2>5. CASE UNCHANGED <<pending, place>>
    BY <2>1, <2>5
  <2>6. QED
    BY <2>2, <2>3, <2>4, <2>5 DEF Execute
<1>4. RuleTypeOK'
  BY <1>1, <1>3 DEF RuleInv, RuleTypeOK, agent, past
<1>5. WindowInv'
  BY <1>1 DEF RuleInv, WindowInv, past
<1>6. TriesInv'
  BY <1>1 DEF RuleInv, TriesInv, RetriesMoveOn
<1>7. \A s \in Service : Samples(s)'
  <2> TAKE s \in Service
  <2>1. Samples(s) /\ UNCHANGED <<mem_history, sampled, rises, tries>>
    BY <1>1 DEF RuleInv, agent, past
  <2>2. QED
    BY <1>1, <1>2, <2>1 DEF Samples
<1>8. ProposesWhatIsDue'
  BY <1>1 DEF ProposesWhatIsDue
<1>9. QED
  BY <1>4, <1>5, <1>6, <1>7, <1>8 DEF RuleInv

\* Nothing is observed, sampled or tried.
LEMMA RuleInit == Init => RuleInv
<1> SUFFICES ASSUME Init PROVE RuleInv
  OBVIOUS
<1> USE RuleAssumption DEF RuleAssumption
<1>1. RuleTypeOK
  <2>1. NoOp \in Proposal /\ <<>> \in Seq(Proposal) /\ <<>> \in Seq(Metrics) /\ Len(<<>>) = 0
        /\ <<>> \in Seq(Nat)
    BY DEF Proposal
  <2>2. QED
    BY <2>1 DEF Init, RuleTypeOK
<1>2. WindowInv
  <2>1. \A n \in 1 .. Sustain : ~(Len(history) >= n)
    BY DEF Init
  <2>2. \A x \in Signal : lasted[x] = 0
    BY DEF Init
  <2>3. QED
    BY <2>1, <2>2 DEF WindowInv, Shown
<1>3. Len(tries) = 0 /\ tries = <<>> /\ at = "drive"
  BY DEF Init
<1>4. 1 .. Len(tries) = {} /\ 1 .. Len(tries) - 1 = {} /\ 2 .. Len(tries) = {}
  BY <1>3
<1>5. TriesInv
  BY <1>3, <1>4 DEF TriesInv, RetriesMoveOn
<1>6. \A s \in Service : Samples(s)
  BY <1>3 DEF Init, Samples
<1>7. QED
  BY <1>1, <1>2, <1>3, <1>5, <1>6 DEF RuleInv, ProposesWhatIsDue

\* The windows tell the episode in every reachable state.
LEMMA RuleInductive == Spec => []RuleInv
<1>1. RuleInv /\ [Next]_vars => RuleInv'
  <2> SUFFICES ASSUME RuleInv, [Next]_vars PROVE RuleInv'
    OBVIOUS
  <2>1. CASE UNCHANGED vars
    <3>1. UNCHANGED <<config, tick, at, history, memory, place, mem_history, last, pending, refused, tries,
                      applied, lasted, rises, sampled>>
      BY <2>1 DEF vars, world, agent, past
    <3>2. RuleTypeOK' /\ WindowInv' /\ TriesInv'
      <4>1. Choices(NoSamples)' = Choices(NoSamples)
        BY <3>1, ChoicesStay DEF Available
      <4>2. QED
        BY <3>1, <4>1 DEF RuleInv, RuleTypeOK, WindowInv, TriesInv, RetriesMoveOn, Try
    <3>3. \A s \in Service : Samples(s)'
      BY <3>1 DEF RuleInv, Samples
    <3>4. ProposesWhatIsDue'
      <4>1. Now' = Now /\ Try' = Try
        BY <3>1 DEF Now, Try
      <4>2. \A r, s : Due(r, s)' = Due(r, s)
        BY <3>1, <4>1 DEF Due, Lasted
      <4>3. \A s : Free(s)' = Free(s)
        BY <3>1, <4>1 DEF Free
      <4>4. \A s : Rivals(s)' = Rivals(s)
        BY <3>1, <4>1, <4>2, <4>3 DEF Rivals, Heavier
      <4>5. Before(Try.remedy)' = Before(Try.remedy)
        BY <4>1 DEF Before
      <4>6. QED
        BY <3>1, <4>1, <4>2, <4>3, <4>4, <4>5 DEF RuleInv, ProposesWhatIsDue
    <3>5. QED
      BY <3>2, <3>3, <3>4 DEF RuleInv
  <2>2. QED
    BY <2>1, TickInv, DecideInv, JudgeInv, ExecuteInv DEF Next, Finished
<1>2. QED
  BY RuleInit, <1>1, PTL DEF Spec

\* RuleAgent.decide on the collector's window and its own memory samples: for any
\* services, nodes, metrics, windows, cooldowns, retries and refusals the agent
\* proposes what has been due for long enough, counted from the beginning of the
\* episode, and passes over only what is refused, cools down, or is the migration of a
\* service that is not the heaviest one on its node while that one's is refused.
THEOREM RuleProposesWhatIsDue == Spec => []ProposesWhatIsDue
<1>1. RuleInv => ProposesWhatIsDue
  BY DEF RuleInv
<1>2. QED
  BY <1>1, RuleInductive, PTL

\* RuleAgent.decide asked again after a rejection, for any cooldown that the
\* configuration allows: with one, which starts with a proposal and not with its
\* execution, no service is tried twice in a decision, and with as many retries as
\* services the fallback is never reached, however many services there are; with none,
\* it repeats itself.  And a retry never restarts anything.
THEOREM RuleRetriesMoveOn == Spec => []RetriesMoveOn
<1>1. RuleInv => RetriesMoveOn
  BY DEF RuleInv, TriesInv
<1>2. QED
  BY <1>1, RuleInductive, PTL
=============================================================================
