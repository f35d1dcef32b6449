---------------------------- MODULE StudyProofs ----------------------------
(***************************************************************************)
(* The study.  First the safety of its files, for any number of processes, *)
(* workers, seeds and arms, over any number of kills and restarts.  Then   *)
(* the audit of an episode of it: JournalReplay reproduces what was done,  *)
(* for any number of attempts, steps and kills.                            *)
(***************************************************************************)
EXTENDS StudyWorkers, JournalReplay, TLAPS

Allocating == {"allocated", "budgeted", "configuring", "running", "episode", "stopping"}
Budgeted == Allocating \ {"allocated"}

\* Whoever is alive holds the lock of its index, and nobody else does.
LocksHeld ==
    \A p \in Proc : Live(p) =>
        /\ args[p] \in Args /\ args[p].worker \in lock
        /\ \A q \in Proc : Live(q) /\ args[q].worker = args[p].worker => q = p

\* One process at most is writing the manifest; those past it agree with it.
ManifestAgrees ==
    /\ \A p, q \in Proc : at[p] = "creating" /\ at[q] = "creating" => p = q
    /\ \A p \in Proc :
        /\ at[p] = "creating" => manifest = Torn
        /\ at[p] \in Allocating => manifest = Allocated(p)
        /\ at[p] \in Budgeted => ledger # "absent"

\* A running episode is one of its worker's own and has no shard yet.
EpisodesOwned ==
    \A p \in Proc : at[p] = "episode" =>
        episode[p] \in Own(p) /\ shards[episode[p]] = Absent

Inv == TypeOK /\ LocksHeld /\ ManifestAgrees /\ EpisodesOwned /\ OneExperiment

-----------------------------------------------------------------------------
\* Processes of one partition and different indices share no episode.
LEMMA OwnersDiffer ==
    ASSUME TypeOK, LocksHeld, ManifestAgrees, NEW p \in Proc, NEW q \in Proc, p # q,
           at[p] \in Allocating, at[q] \in Allocating, NEW e \in Own(p)
    PROVE  e \notin Own(q)
<1>1. args[p].workers = args[q].workers
  BY DEF ManifestAgrees, Allocated
<1>2. Live(p) /\ Live(q)
  BY DEF Allocating, Live
<1>3. args[p].worker # args[q].worker
  BY <1>2 DEF LocksHeld
<1>4. QED
  BY <1>1, <1>3 DEF Own

\* Two workers inside an episode hold different episodes, because their
\* allocations are disjoint.
LEMMA Exclusive == Inv => OneWorkerPerEpisode
<1> SUFFICES ASSUME Inv, NEW p \in Proc, NEW q \in Proc,
                    at[p] = "episode", at[q] = "episode", p # q
             PROVE  episode[p] # episode[q]
  BY DEF OneWorkerPerEpisode
<1>1. episode[p] \in Own(p) /\ episode[q] \in Own(q)
  BY DEF Inv, EpisodesOwned
<1>2. at[p] \in Allocating /\ at[q] \in Allocating
  BY DEF Allocating
<1>3. QED
  BY <1>1, <1>2, OwnersDiffer DEF Inv

-----------------------------------------------------------------------------
\* A directory that holds nothing but shards of an earlier study satisfies Inv.
LEMMA InitInv == Init => Inv
<1> SUFFICES ASSUME Init PROVE Inv
  OBVIOUS
<1>1. TypeOK
  <2>1. [exp |-> Legacy, starved |-> FALSE] \in Shard
    BY DEF Shard
  <2>2. shards \in [Episode -> Shard \cup {Absent}]
    BY <2>1 DEF Init
  <2>3. lock \subseteq Worker /\ manifest \in Allocation \cup {Absent, Torn}
        /\ config \in [Worker -> Config \cup {Absent, Torn}]
        /\ ledger \in {"absent", "granting", "closed"}
    BY DEF Init
  <2>4. /\ at \in [Proc -> Place] /\ args \in [Proc -> Args \cup {Absent}]
        /\ episode \in [Proc -> Episode \cup {Absent}]
    BY DEF Init, Place
  <2>5. QED
    BY <2>2, <2>3, <2>4 DEF TypeOK
<1>2. \A p \in Proc : at[p] = "none"
  BY DEF Init
<1>3. LocksHeld /\ ManifestAgrees /\ EpisodesOwned
  BY <1>2 DEF LocksHeld, ManifestAgrees, EpisodesOwned, Live, Allocating, Budgeted
<1>4. \A e \in Episode : shards[e] = Absent \/ shards[e] = [exp |-> Legacy, starved |-> FALSE]
  BY DEF Init
<1>5. OneExperiment
  BY <1>4 DEF OneExperiment
<1>6. QED
  BY <1>1, <1>3, <1>5 DEF Inv

\* A process of a free index gets its lock.
LEMMA LaunchInv ==
    ASSUME Inv, NEW p \in Proc, NEW a \in Args, Launch(p, a)
    PROVE  Inv'
<1>1. TypeOK'
  BY DEF Inv, TypeOK, Launch, Place, Args
<1>2. /\ at'[p] = "locked" /\ args'[p] = a
      /\ \A q \in Proc : q # p => at'[q] = at[q] /\ args'[q] = args[q]
  BY DEF Inv, TypeOK, Launch
<1>3. LocksHeld'
  BY <1>2 DEF Inv, LocksHeld, Launch, Live
<1>4. ManifestAgrees'
  BY <1>2 DEF Inv, ManifestAgrees, Launch, Allocated, Allocating, Budgeted
<1>5. EpisodesOwned' /\ OneExperiment'
  BY <1>2 DEF Inv, EpisodesOwned, OneExperiment, Launch, Own
<1>6. QED
  BY <1>1, <1>3, <1>4, <1>5 DEF Inv

\* One process fewer, whose lock goes or stays.
LEMMA GoneInv ==
    ASSUME Inv, NEW p \in Proc, Live(p), Gone(p),
           lock' = lock \ {args[p].worker} \/ lock' = lock,
           UNCHANGED <<manifest, config, ledger, shards>>
    PROVE  Inv'
<1>1. /\ at'[p] = "none"
      /\ \A q \in Proc : q # p => at'[q] = at[q] /\ args'[q] = args[q] /\ episode'[q] = episode[q]
  BY DEF Inv, TypeOK, Gone
<1>2. TypeOK'
  BY DEF Inv, TypeOK, Gone, Place
<1>3. LocksHeld'
  <2> SUFFICES ASSUME NEW q \in Proc, Live(q)'
               PROVE  /\ args'[q] \in Args /\ args'[q].worker \in lock'
                      /\ \A r \in Proc : Live(r)' /\ args'[r].worker = args'[q].worker => r = q
    BY DEF LocksHeld
  <2>1. q # p /\ Live(q) /\ args'[q] = args[q]
    BY <1>1 DEF Live
  <2>2. args[q].worker # args[p].worker
    BY <2>1 DEF Inv, LocksHeld
  <2>3. \A r \in Proc : Live(r)' => Live(r) /\ args'[r] = args[r]
    BY <1>1 DEF Live
  <2>4. QED
    BY <2>1, <2>2, <2>3 DEF Inv, LocksHeld
<1>4. ManifestAgrees'
  BY <1>1 DEF Inv, ManifestAgrees, Allocated, Allocating, Budgeted
<1>5. EpisodesOwned' /\ OneExperiment'
  BY <1>1 DEF Inv, EpisodesOwned, OneExperiment, Own
<1>6. QED
  BY <1>2, <1>3, <1>4, <1>5 DEF Inv

\* A lock is only removed by hand when no live process has its worker id.
LEMMA RemoveStaleLockInv ==
    ASSUME Inv, NEW w \in Worker, RemoveStaleLock(w)
    PROVE  Inv'
BY DEF Inv, TypeOK, LocksHeld, ManifestAgrees, EpisodesOwned, OneExperiment, RemoveStaleLock,
   Live, Allocated, Allocating, Budgeted, Own

\* A process goes on to place q and keeps its lock: what is left to show is
\* that the manifest and the ledger allow it to be there.
LEMMA GotoInv ==
    ASSUME Inv, NEW p \in Proc, NEW q \in Place \ {"none", "episode"}, Live(p), Goto(p, q),
           UNCHANGED <<lock, shards>>,
           config' \in [Worker -> Config \cup {Absent, Torn}],
           ledger' \in {"absent", "granting", "closed"},
           ledger # "absent" => ledger' # "absent",
           manifest' \in Allocation \cup {Absent, Torn},
           ManifestAgrees',
           OneExperiment'
    PROVE  Inv'
<1>1. /\ at'[p] = q /\ args' = args /\ episode' = episode
      /\ \A r \in Proc : r # p => at'[r] = at[r]
  BY DEF Inv, TypeOK, Goto
<1>2. TypeOK'
  BY DEF Inv, TypeOK, Goto
<1>3. \A r \in Proc : Live(r)' => Live(r)
  BY <1>1 DEF Live
<1>4. LocksHeld'
  BY <1>1, <1>3 DEF Inv, LocksHeld
<1>5. EpisodesOwned'
  BY <1>1 DEF Inv, EpisodesOwned, Own
<1>6. QED
  BY <1>2, <1>4, <1>5 DEF Inv

-----------------------------------------------------------------------------
\* The steps that read or write the manifest.
LEMMA ManifestSteps ==
    ASSUME Inv, NEW p \in Proc, CreateManifest(p) \/ WriteManifest(p) \/ ReadManifest(p)
    PROVE  Inv'
<1> USE FilesAssumption DEF Inv
<1>0. Live(p) /\ args[p] \in Args
  <2>1. Live(p)
    BY DEF Live, CreateManifest, WriteManifest, ReadManifest
  <2>2. QED
    BY <2>1 DEF LocksHeld
<1>1. Allocated(p) \in Allocation
  BY <1>0 DEF Allocated, Allocation, Args
<1>2. CASE CreateManifest(p)
  <2>1. /\ manifest = Absent /\ manifest' = Torn /\ at[p] = "locked" /\ at'[p] = "creating"
        /\ args' = args /\ \A r \in Proc : r # p => at'[r] = at[r]
    BY <1>2 DEF CreateManifest, Goto, TypeOK
  <2>2. \A r \in Proc : at[r] # "creating" /\ at[r] \notin Allocating
    <3> SUFFICES ASSUME NEW r \in Proc, at[r] = "creating" \/ at[r] \in Allocating PROVE FALSE
      OBVIOUS
    <3>1. manifest = Torn \/ manifest = Allocated(r)
      BY DEF ManifestAgrees
    <3>2. args[r] \in Args
      BY DEF LocksHeld, Live, Allocating
    <3>3. Allocated(r) \in Allocation
      BY <3>2 DEF Allocated, Allocation, Args
    <3>4. QED
      BY <2>1, <3>1, <3>3, StudyAssumption
  <2>3. ManifestAgrees'
    BY <2>1, <2>2 DEF ManifestAgrees, Allocating, Budgeted
  <2>4. OneExperiment'
    BY <1>2, <2>1 DEF OneExperiment, CreateManifest
  <2>5. QED
    BY <1>0, <1>2, <2>1, <2>3, <2>4, GotoInv DEF CreateManifest, Place, TypeOK
<1>3. CASE WriteManifest(p)
  <2>1. /\ manifest = Torn /\ manifest' = Allocated(p) /\ at'[p] = "allocated"
        /\ at[p] = "creating" /\ args' = args /\ \A r \in Proc : r # p => at'[r] = at[r]
    BY <1>3 DEF WriteManifest, Goto, TypeOK, ManifestAgrees
  <2>2. \A r \in Proc : r # p => at[r] # "creating" /\ at[r] \notin Allocating
    <3> SUFFICES ASSUME NEW r \in Proc, r # p, at[r] = "creating" \/ at[r] \in Allocating
                 PROVE FALSE
      OBVIOUS
    <3>1. manifest = Allocated(r)
      BY <2>1 DEF ManifestAgrees
    <3>2. args[r] \in Args
      BY <2>1 DEF LocksHeld, Live, Allocating, ManifestAgrees
    <3>3. Allocated(r) \in Allocation
      BY <3>2 DEF Allocated, Allocation, Args
    <3>4. QED
      BY <2>1, <3>1, <3>3
  <2>3. ManifestAgrees'
    BY <2>1, <2>2 DEF ManifestAgrees, Allocating, Budgeted, Allocated
  <2>4. OneExperiment'
    BY <1>3, <2>1 DEF OneExperiment, WriteManifest
  <2>5. QED
    BY <1>0, <1>1, <1>3, <2>1, <2>3, <2>4, GotoInv DEF WriteManifest, Place, TypeOK
<1>4. CASE ReadManifest(p)
  <2>1. /\ manifest' = manifest /\ manifest = Allocated(p) /\ at'[p] = "allocated"
        /\ at[p] = "locked" /\ args' = args /\ \A r \in Proc : r # p => at'[r] = at[r]
        /\ ledger' = ledger
    BY <1>4 DEF ReadManifest, SameAllocation, Goto, TypeOK, files
  <2>2. ManifestAgrees'
    BY <2>1 DEF ManifestAgrees, Allocating, Budgeted, Allocated
  <2>3. OneExperiment'
    BY <1>4, <2>1 DEF OneExperiment, ReadManifest, files
  <2>4. QED
    BY <1>0, <1>4, <2>1, <2>2, <2>3, GotoInv DEF ReadManifest, Place, TypeOK, files
<1>5. QED
  BY <1>2, <1>3, <1>4

\* The ledger is opened, the worker's configuration is written.
LEMMA SetupSteps ==
    ASSUME Inv, NEW p \in Proc, OpenLedger(p) \/ TruncateConfig(p) \/ WriteConfig(p)
    PROVE  Inv'
<1> USE DEF Inv
<1>0. Live(p) /\ args[p] \in Args
  <2>1. Live(p)
    BY DEF Live, OpenLedger, TruncateConfig, WriteConfig
  <2>2. QED
    BY <2>1 DEF LocksHeld
<1>1. /\ at[p] \in Allocating /\ (at[p] \in Budgeted \/ ledger' # "absent")
      /\ \E q \in Budgeted : Goto(p, q) /\ q # "episode"
      /\ manifest' = manifest /\ UNCHANGED <<lock, shards>>
      /\ ledger' \in {"absent", "granting", "closed"} /\ (ledger # "absent" => ledger' # "absent")
  BY DEF OpenLedger, TruncateConfig, WriteConfig, Allocating, Budgeted, TypeOK
<1>2. config' \in [Worker -> Config \cup {Absent, Torn}]
  <2>1. Frozen(p) \in Config
    BY <1>0 DEF Frozen, Config, Args
  <2>2. QED
    BY <2>1 DEF OpenLedger, TruncateConfig, WriteConfig, TypeOK
<1>3. PICK q \in Budgeted : Goto(p, q) /\ q # "episode"
  BY <1>1
<1>4. at'[p] = q /\ args' = args /\ \A r \in Proc : r # p => at'[r] = at[r]
  BY <1>3 DEF Goto, TypeOK
<1>5. ManifestAgrees'
  BY <1>1, <1>4 DEF ManifestAgrees, Allocating, Budgeted, Allocated
<1>6. OneExperiment'
  BY <1>1 DEF OneExperiment
<1>7. q \in Place \ {"none", "episode"}
  BY <1>3 DEF Budgeted, Allocating, Place
<1>8. QED
  BY <1>0, <1>1, <1>2, <1>3, <1>5, <1>6, <1>7, GotoInv DEF TypeOK

-----------------------------------------------------------------------------
\* The next episode of one's own without a shard.
LEMMA BeginInv ==
    ASSUME Inv, NEW p \in Proc, NEW e \in Episode, Begin(p, e)
    PROVE  Inv'
<1> USE DEF Inv
<1>1. /\ at[p] = "running" /\ at'[p] = "episode" /\ episode'[p] = e
      /\ \A r \in Proc : r # p => at'[r] = at[r] /\ episode'[r] = episode[r]
      /\ args' = args /\ e \in Own(p) /\ shards[e] = Absent
      /\ UNCHANGED <<lock, manifest, config, ledger, shards>>
  BY DEF Begin, Pending, TypeOK, files
<1>2. TypeOK'
  BY <1>1 DEF Begin, TypeOK, Place
<1>3. LocksHeld'
  <2>1. \A r \in Proc : Live(r)' => Live(r)
    BY <1>1 DEF Live
  <2>2. QED
    BY <1>1, <2>1 DEF LocksHeld
<1>4. ManifestAgrees'
  BY <1>1 DEF ManifestAgrees, Allocating, Budgeted, Allocated
<1>5. EpisodesOwned' /\ OneExperiment'
  BY <1>1 DEF EpisodesOwned, OneExperiment, Own
<1>6. QED
  BY <1>2, <1>3, <1>4, <1>5

\* Closing the ledger leaves locks, manifest and shards as they were.
LEMMA CloseInv ==
    ASSUME Inv, NEW p \in Proc, Close(p)
    PROVE  Inv'
<1> USE DEF Inv
<1>1. UNCHANGED <<lock, manifest, config, shards, at, args, episode>> /\ ledger' = "closed"
  BY DEF Close
<1>2. TypeOK' /\ LocksHeld'
  BY <1>1 DEF TypeOK, LocksHeld, Live
<1>3. ManifestAgrees' /\ EpisodesOwned' /\ OneExperiment'
  BY <1>1 DEF ManifestAgrees, EpisodesOwned, OneExperiment, Own, Allocated
<1>4. QED
  BY <1>2, <1>3

\* A shard is recorded that nobody else is about to record.
LEMMA RecordInv ==
    ASSUME Inv, NEW p \in Proc, NEW starved \in BOOLEAN,
           NEW then \in {"running", "stopping"}, Record(p, starved, then)
    PROVE  /\ Inv'
           /\ \A e \in Episode : shards[e] # Absent => shards'[e] = shards[e]
<1> USE DEF Inv
<1> DEFINE shard == [exp |-> args[p].exp, starved |-> starved]
<1>1. /\ at[p] = "episode" /\ at'[p] = then /\ args' = args
      /\ \A r \in Proc : r # p => at'[r] = at[r] /\ episode'[r] = episode[r]
      /\ UNCHANGED <<lock, manifest, config, ledger>>
      /\ shards' = [shards EXCEPT ![episode[p]] = shard]
  BY DEF Record, TypeOK
<1>2. Live(p) /\ args[p] \in Args
  BY <1>1 DEF Live, LocksHeld
<1>3. episode[p] \in Own(p) /\ episode[p] \in Episode /\ shards[episode[p]] = Absent
  BY <1>1 DEF EpisodesOwned, Own
<1>4. shard \in Shard
  BY <1>2 DEF Shard, Args
<1>5. TypeOK'
  BY <1>1, <1>4 DEF TypeOK, Place, Record
<1>6. LocksHeld'
  <2>1. \A r \in Proc : Live(r)' => Live(r)
    BY <1>1 DEF Live
  <2>2. QED
    BY <1>1, <2>1 DEF LocksHeld
<1>7. ManifestAgrees'
  BY <1>1 DEF ManifestAgrees, Allocating, Budgeted, Allocated
<1>8. EpisodesOwned'
  <2> SUFFICES ASSUME NEW r \in Proc, at'[r] = "episode"
               PROVE  episode'[r] \in Own(r)' /\ shards'[episode'[r]] = Absent
    BY DEF EpisodesOwned
  <2>1. r # p /\ at[r] = "episode" /\ episode'[r] = episode[r]
    BY <1>1
  <2>2. episode[r] \in Own(r) /\ shards[episode[r]] = Absent
    BY <2>1 DEF EpisodesOwned
  <2>3. episode[r] # episode[p]
    BY <1>1, <2>1, Exclusive DEF OneWorkerPerEpisode
  <2>4. Own(r)' = Own(r) /\ episode[r] \in Episode
    BY <1>1, <2>2 DEF Own
  <2>5. QED
    BY <1>1, <1>3, <2>1, <2>2, <2>3, <2>4 DEF TypeOK
<1>9. OneExperiment'
  <2>1. manifest = Allocated(p) /\ ledger # "absent"
    BY <1>1 DEF ManifestAgrees, Allocating, Budgeted
  <2>2. Allocated(p) \in Allocation /\ manifest.exp = args[p].exp
    BY <1>2, <2>1 DEF Allocated, Allocation, Args
  <2>3. manifest \notin {Absent, Torn}
    BY <2>1, <2>2, FilesAssumption
  <2>4. QED
    BY <1>1, <1>3, <2>1, <2>2, <2>3 DEF OneExperiment, TypeOK
<1>10. QED
  BY <1>1, <1>3, <1>5, <1>6, <1>7, <1>8, <1>9 DEF TypeOK

-----------------------------------------------------------------------------
\* Every end of a process is an unlink of its own lock.
LEMMA EndInv ==
    ASSUME Inv, NEW p \in Proc, Live(p), End(p) \/ Kill(p)
    PROVE  Inv' /\ shards' = shards
BY GoneInv DEF End, Kill, files

\* Every step keeps Inv, and none rewrites a shard already on disk.
LEMMA StepInv ==
    ASSUME Inv, [Next]_vars
    PROVE  /\ Inv'
           /\ \A e \in Episode : shards[e] # Absent => shards'[e] = shards[e]
<1>1. CASE UNCHANGED vars
  BY <1>1 DEF Inv, TypeOK, LocksHeld, ManifestAgrees, EpisodesOwned, OneExperiment,
     Live, Allocated, Allocating, Budgeted, Own, vars, files
<1>2. ASSUME NEW p \in Proc, Step(p)
      PROVE  /\ Inv'
             /\ \A e \in Episode : shards[e] # Absent => shards'[e] = shards[e]
  <2>1. CASE CreateManifest(p) \/ WriteManifest(p) \/ ReadManifest(p)
    BY <2>1, ManifestSteps DEF CreateManifest, WriteManifest, ReadManifest, files
  <2>2. CASE OpenLedger(p) \/ TruncateConfig(p) \/ WriteConfig(p)
    BY <2>2, SetupSteps DEF OpenLedger, TruncateConfig, WriteConfig
  <2>3. CASE \/ AllocationDiffers(p) \/ ManifestIncomplete(p) \/ RefuseUnaccounted(p)
             \/ ConfigRejected(p) \/ EpisodeRaises(p) \/ Finish(p)
    <3>1. Live(p) /\ End(p)
      BY <2>3 DEF AllocationDiffers, ManifestIncomplete, RefuseUnaccounted, ConfigRejected,
         EpisodeRaises, Finish, Live
    <3>2. QED
      BY <3>1, EndInv
  <2>4. CASE \E e \in Episode : Begin(p, e)
    BY <2>4, BeginInv DEF Begin, files
  <2>5. CASE Close(p)
    BY <2>5, CloseInv DEF Close
  <2>6. CASE \E starved \in BOOLEAN, then \in {"running", "stopping"} : Record(p, starved, then)
    BY <2>6, RecordInv
  <2>7. QED
    BY <1>2, <2>1, <2>2, <2>3, <2>4, <2>5, <2>6 DEF Step
<1>3. ASSUME NEW p \in Proc, Kill(p)
      PROVE  Inv' /\ shards' = shards
  BY <1>3, EndInv DEF Kill
<1>4. ASSUME NEW p \in Proc, NEW a \in Args, Launch(p, a)
      PROVE  Inv' /\ shards' = shards
  BY <1>4, LaunchInv DEF Launch
<1>5. ASSUME NEW w \in Worker, RemoveStaleLock(w)
      PROVE  Inv' /\ shards' = shards
  BY <1>5, RemoveStaleLockInv DEF RemoveStaleLock
<1>6. QED
  BY <1>1, <1>2, <1>3, <1>4, <1>5 DEF Next

\* The inductive invariant.
THEOREM Invariance == Spec => []Inv
<1>1. Inv /\ [Next]_vars => Inv'
  BY StepInv
<1>2. QED
  BY InitInv, <1>1, PTL DEF Spec

\* Over any kills, restarts and changes of the number of workers, two
\* processes never run the same episode at once (_command_run's partition,
\* its lock and its manifest together).
THEOREM EpisodesExclusive == Spec => []OneWorkerPerEpisode
BY Invariance, Exclusive, PTL

\* Whatever shards this code wrote, they belong to the manifest's experiment
\* and a ledger accounts for their calls.
THEOREM ExperimentsNeverMix == Spec => []OneExperiment
<1>1. Inv => OneExperiment
  BY DEF Inv
<1>2. QED
  BY Invariance, <1>1, PTL

\* A shard that is there is never replaced, by its worker or by another one.
THEOREM ShardsStay == Spec => ShardsImmutable
<1>1. Inv /\ [Next]_vars =>
        [\A e \in Episode : shards[e] # Absent => shards'[e] = shards[e]]_vars
  BY StepInv
<1>2. QED
  BY Invariance, <1>1, PTL DEF Spec, ShardsImmutable

\* The study's files and processes keep their types.
THEOREM Typing == Spec => []TypeOK
<1>1. Inv => TypeOK
  BY DEF Inv
<1>2. QED
  BY Invariance, <1>1, PTL

-----------------------------------------------------------------------------
(***************************************************************************)
(* The audit.                                                              *)
(***************************************************************************)

Outcome == {"timeout", "decision_produced", "tool_budget_exhausted",
            "provider_budget_exhausted", "provider_error"}

\* A record of an attempt; "open" stands for the attempt that is going on.
Entry == [outcome : Outcome \cup {"open"}, seen : Seq(1 .. 3)]

Key == [past : Seq(BOOLEAN), talk : Seq(Text), final : BOOLEAN]
JournalRow == [event : {"response", "budget_error", "provider_error"}, key : Key,
               what : Outcome \cup Text \cup {"before_call", "after_response"}]

Calls == {"request", "cached", "logged"}
Places == {"idle", "loop", "call", "reply"}

\* A state of the audit, without what it has left over from earlier calls.
AuditState == [at : Places, history : Seq(Entry), next : Nat \ {0},
               talk : Seq(Text), seen : Seq(1 .. 3), final : BOOLEAN, text : Text]

Stand(p, past, n, said, read, last, reply) ==
    [at |-> p, history |-> past, next |-> n, talk |-> said, seen |-> read,
     final |-> last, text |-> reply]

Idle(past, n) == Stand("idle", past, n, <<>>, <<>>, FALSE, "act")

Asks(s) == [past |-> [i \in DOMAIN s.history |-> s.history[i].outcome = "decision_produced"],
            talk |-> s.talk, final |-> s.final]

-----------------------------------------------------------------------------
\* A step of the audit from s to t, on journal j, cache c and records h.

Reads(s, i, h) ==
    /\ Len(s.history) < Len(h)
    /\ Len(s.seen) < Len(h[Len(s.history) + 1].seen)
    /\ i = h[Len(s.history) + 1].seen[Len(s.seen) + 1]

Ends(s, t, outcome, seenNow, n, h) ==
    /\ Len(s.history) < Len(h)
    /\ outcome \in Outcome
    /\ h[Len(s.history) + 1] = [outcome |-> outcome, seen |-> seenNow]
    /\ t = Idle(Append(s.history, h[Len(s.history) + 1]), n)

Begins(s, t) ==
    /\ s.at = "idle" /\ Len(s.history) < Attempts
    /\ t = Stand("loop", s.history, s.next, <<>>, <<>>, FALSE, "act")

Looks(s, t, i, h) ==
    /\ s.at = "loop" /\ Reads(s, i, h)
    /\ IF i = 3 THEN Ends(s, t, "timeout", Append(s.seen, i), s.next, h)
       ELSE t = Stand("call", s.history, s.next, s.talk, Append(s.seen, i),
                      i = 2 \/ Len(s.talk) = MaxSteps - 1, "act")

ReadsReply(s, t, i, h) ==
    /\ s.at = "reply" /\ Reads(s, i, h)
    /\ IF i = 3 THEN Ends(s, t, "timeout", Append(s.seen, i), s.next, h)
       ELSE IF s.text = "act"
       THEN Ends(s, t, "decision_produced", Append(s.seen, i), s.next, h)
       ELSE IF s.final
       THEN Ends(s, t, "tool_budget_exhausted", Append(s.seen, i), s.next, h)
       ELSE t = Stand("loop", s.history, s.next, Append(s.talk, s.text),
                      Append(s.seen, i), FALSE, "act")

FollowedAt(n, j) ==
    /\ n < Len(j)
    /\ j[n + 1].event = "budget_error" /\ j[n + 1].what = "after_response"

Asked(s, j) == s.at = "call" /\ s.next <= Len(j) /\ j[s.next].key = Asks(s)

FailsAgain(s, t, j, h) ==
    /\ Asked(s, j) /\ j[s.next].event = "provider_error"
    /\ Ends(s, t, j[s.next].what, s.seen, s.next + 1, h)

RefusedAgain(s, t, j, h) ==
    /\ Asked(s, j) /\ j[s.next].event = "budget_error"
    /\ Ends(s, t, "provider_budget_exhausted", s.seen, s.next + 1, h)

AnswersAgain(s, t, j, c, h) ==
    /\ Asked(s, j) /\ j[s.next].event = "response"
    /\ Asks(s) \in DOMAIN c /\ c[Asks(s)] = j[s.next].what
    /\ IF FollowedAt(s.next, j)
       THEN /\ j[s.next + 1].key = Asks(s)
            /\ Ends(s, t, "provider_budget_exhausted", s.seen, s.next + 2, h)
       ELSE t = Stand("reply", s.history, s.next + 1, s.talk, s.seen, s.final, c[Asks(s)])

Follows(s, t, j, c, h) ==
    \/ Begins(s, t)
    \/ \E i \in 1 .. 3 : Looks(s, t, i, h)
    \/ \E i \in 1 .. 3 : ReadsReply(s, t, i, h)
    \/ FailsAgain(s, t, j, h)
    \/ RefusedAgain(s, t, j, h)
    \/ AnswersAgain(s, t, j, c, h)

\* The first n steps of the audit.
Trace(tr, n, j, c, h) ==
    /\ n \in Nat /\ tr \in [0 .. n -> AuditState]
    /\ tr[0] = Idle(<<>>, 1)
    /\ \A i \in 0 .. n : tr[i].next <= tr[n].next
    /\ \A i \in 0 .. n - 1 : Follows(tr[i], tr[i + 1], j, c, h)

-----------------------------------------------------------------------------
\* What the audit is to go by grows with the episode.

JournalGrows(j, k, n) ==
    \/ k = j
    \/ \E row \in JournalRow :
           /\ k = Append(j, row)
           /\ row.event = "budget_error" /\ row.what = "after_response" => n <= Len(j)

CacheGrows(c, d) == \A p \in DOMAIN c : p \in DOMAIN d /\ d[p] = c[p]

RecordsGrow(h, g) ==
    /\ Len(h) <= Len(g)
    /\ \A m \in 1 .. Len(h) :
        /\ h[m].outcome # "open" => g[m] = h[m]
        /\ Len(h[m].seen) <= Len(g[m].seen)
        /\ \A i \in 1 .. Len(h[m].seen) : g[m].seen[i] = h[m].seen[i]

LEMMA EndsStay ==
    ASSUME NEW s \in AuditState, NEW t, NEW outcome, NEW seenNow, NEW n,
           NEW h \in Seq(Entry), NEW g \in Seq(Entry), RecordsGrow(h, g),
           Ends(s, t, outcome, seenNow, n, h)
    PROVE  Ends(s, t, outcome, seenNow, n, g)
<1>1. Len(s.history) \in Nat /\ Len(h) \in Nat /\ Len(g) \in Nat
    BY DEF AuditState
<1>2. Len(s.history) + 1 \in 1 .. Len(h) /\ Len(s.history) < Len(g)
    BY <1>1 DEF Ends, RecordsGrow
<1>3. h[Len(s.history) + 1].outcome # "open"
    BY DEF Ends, Outcome
<1>4. g[Len(s.history) + 1] = h[Len(s.history) + 1]
    BY <1>2, <1>3 DEF RecordsGrow
<1> QED
    BY <1>2, <1>4 DEF Ends

\* Arithmetic of positions.
LEMMA Within ==
    ASSUME NEW a \in Nat, NEW b \in Nat, NEW c \in Nat, a < b, b <= c
    PROVE  a + 1 \in 1 .. b /\ a < c
OBVIOUS

LEMMA ReadsStay ==
    ASSUME NEW s \in AuditState, NEW i,
           NEW h \in Seq(Entry), NEW g \in Seq(Entry), RecordsGrow(h, g), Reads(s, i, h)
    PROVE  Reads(s, i, g)
<1> DEFINE m == Len(s.history) + 1
<1>1. Len(s.history) \in Nat /\ Len(s.seen) \in Nat /\ Len(h) \in Nat /\ Len(g) \in Nat
    BY DEF AuditState
<1>2. m \in 1 .. Len(h) /\ m \in 1 .. Len(g)
    BY <1>1 DEF Reads, RecordsGrow
<1>3. Len(h[m].seen) \in Nat /\ Len(g[m].seen) \in Nat
  <2> HIDE DEF m
  <2>1. h[m] \in Entry /\ g[m] \in Entry
    BY <1>2
  <2> QED
    BY <2>1 DEF Entry
<1>4. Len(s.seen) < Len(h[m].seen)
    BY DEF Reads
<1>5. Len(h[m].seen) <= Len(g[m].seen)
    BY <1>2 DEF RecordsGrow
<1>6. Len(s.seen) + 1 \in 1 .. Len(h[m].seen) /\ Len(s.seen) < Len(g[m].seen)
  <2> HIDE DEF m
  <2> QED
    BY <1>1, <1>3, <1>4, <1>5, Within
<1>7. g[m].seen[Len(s.seen) + 1] = h[m].seen[Len(s.seen) + 1]
    BY <1>2, <1>6 DEF RecordsGrow
<1>8. i = g[m].seen[Len(s.seen) + 1]
    BY <1>7 DEF Reads
<1>9. Len(s.history) < Len(g)
    BY <1>1, <1>2
<1> QED
    BY <1>6, <1>8, <1>9 DEF Reads

\* A step of the audit stays one when journal, cache and records grow.
LEMMA FollowsStays ==
    ASSUME NEW s \in AuditState, NEW t \in AuditState,
           NEW j \in Seq(JournalRow), NEW k \in Seq(JournalRow), NEW c, NEW d,
           NEW h \in Seq(Entry), NEW g \in Seq(Entry),
           JournalGrows(j, k, t.next), CacheGrows(c, d), RecordsGrow(h, g),
           Follows(s, t, j, c, h)
    PROVE  Follows(s, t, k, d, g)
<1>1. s.next \in Nat \ {0} /\ t.next \in Nat /\ Len(j) \in Nat /\ Len(k) \in Nat
    BY DEF AuditState
<1>2. Len(j) <= Len(k) /\ \A n \in 1 .. Len(j) : k[n] = j[n]
  <2>1. CASE k = j
    BY <2>1, <1>1
  <2>2. ASSUME NEW row \in JournalRow, k = Append(j, row)
        PROVE Len(j) <= Len(k) /\ \A n \in 1 .. Len(j) : k[n] = j[n]
    BY <2>2, <1>1
  <2> QED
    BY <2>1, <2>2 DEF JournalGrows
<1>3. ASSUME Asked(s, j)
      PROVE  Asked(s, k) /\ k[s.next] = j[s.next]
    BY <1>1, <1>2, <1>3 DEF Asked
<1>4. CASE Begins(s, t)
    BY <1>4 DEF Follows
<1>5. ASSUME NEW i \in 1 .. 3, Looks(s, t, i, h)
      PROVE  Follows(s, t, k, d, g)
  <2>1. Looks(s, t, i, g)
    BY <1>5, EndsStay, ReadsStay DEF Looks
  <2> QED
    BY <2>1 DEF Follows
<1>6. ASSUME NEW i \in 1 .. 3, ReadsReply(s, t, i, h)
      PROVE  Follows(s, t, k, d, g)
  <2>1. ReadsReply(s, t, i, g)
    BY <1>6, EndsStay, ReadsStay DEF ReadsReply
  <2> QED
    BY <2>1 DEF Follows
<1>7. CASE FailsAgain(s, t, j, h)
  <2>1. FailsAgain(s, t, k, g)
    BY <1>7, <1>3, EndsStay DEF FailsAgain
  <2> QED
    BY <2>1 DEF Follows
<1>8. CASE RefusedAgain(s, t, j, h)
  <2>1. RefusedAgain(s, t, k, g)
    BY <1>8, <1>3, EndsStay DEF RefusedAgain
  <2> QED
    BY <2>1 DEF Follows
<1>9. CASE AnswersAgain(s, t, j, c, h)
  <2>1. Asked(s, k) /\ k[s.next] = j[s.next] /\ s.next <= Len(j)
    BY <1>9, <1>3 DEF AnswersAgain, Asked
  <2>2. Asks(s) \in DOMAIN d /\ d[Asks(s)] = c[Asks(s)]
    BY <1>9 DEF AnswersAgain, CacheGrows
  <2>3. CASE FollowedAt(s.next, j)
    <3>1. s.next + 1 \in 1 .. Len(j)
      BY <2>3, <1>1 DEF FollowedAt
    <3>2. k[s.next + 1] = j[s.next + 1] /\ s.next < Len(k)
      BY <3>1, <1>1, <1>2
    <3>3. FollowedAt(s.next, k)
      BY <2>3, <3>2 DEF FollowedAt
    <3>4. AnswersAgain(s, t, k, d, g)
      BY <1>9, <2>1, <2>2, <2>3, <3>2, <3>3, EndsStay DEF AnswersAgain
    <3> QED
      BY <3>4 DEF Follows
  <2>4. CASE ~FollowedAt(s.next, j)
    <3>1. t = Stand("reply", s.history, s.next + 1, s.talk, s.seen, s.final, c[Asks(s)])
      BY <1>9, <2>4 DEF AnswersAgain
    <3>2. t.next = s.next + 1
      BY <3>1 DEF Stand
    <3>3. ~FollowedAt(s.next, k)
      <4>1. CASE k = j
        BY <4>1, <2>4
      <4>2. ASSUME NEW row \in JournalRow, k = Append(j, row),
                   row.event = "budget_error" /\ row.what = "after_response"
                       => t.next <= Len(j)
            PROVE  ~FollowedAt(s.next, k)
        <5>1. CASE s.next < Len(j)
          <6>0. s.next + 1 \in 1 .. Len(j)
            BY <5>1, <1>1
          <6>1. k[s.next + 1] = j[s.next + 1]
            BY <6>0, <1>2
          <6> QED
            BY <6>1, <5>1, <2>4 DEF FollowedAt
        <5>2. CASE s.next >= Len(j)
          <6>1. s.next = Len(j)
            BY <5>2, <2>1, <1>1
          <6>2. ~(row.event = "budget_error" /\ row.what = "after_response")
            BY <6>1, <3>2, <4>2, <1>1
          <6>3. k[s.next + 1] = row
            BY <6>1, <4>2
          <6> QED
            BY <6>2, <6>3 DEF FollowedAt
        <5> QED
          BY <5>1, <5>2, <1>1
      <4> QED
        BY <4>1, <4>2 DEF JournalGrows
    <3>4. AnswersAgain(s, t, k, d, g)
      BY <1>9, <2>1, <2>2, <3>1, <3>3 DEF AnswersAgain
    <3> QED
      BY <3>4 DEF Follows
  <2> QED
    BY <2>3, <2>4
<1> QED
    BY <1>4, <1>5, <1>6, <1>7, <1>8, <1>9 DEF Follows

LEMMA TraceStays ==
    ASSUME NEW tr, NEW n,
           NEW j \in Seq(JournalRow), NEW k \in Seq(JournalRow), NEW c, NEW d,
           NEW h \in Seq(Entry), NEW g \in Seq(Entry), Trace(tr, n, j, c, h),
           JournalGrows(j, k, tr[n].next), CacheGrows(c, d), RecordsGrow(h, g)
    PROVE  Trace(tr, n, k, d, g)
<1> SUFFICES ASSUME NEW i \in 0 .. n - 1
             PROVE  Follows(tr[i], tr[i + 1], k, d, g)
    BY DEF Trace
<1>1. n \in Nat /\ i \in 0 .. n /\ i + 1 \in 0 .. n /\ n \in 0 .. n
    BY DEF Trace
<1>2. tr[i] \in AuditState /\ tr[i + 1] \in AuditState /\ tr[n] \in AuditState
    BY <1>1 DEF Trace
<1>3. tr[i + 1].next \in Nat /\ tr[n].next \in Nat /\ Len(j) \in Nat
  <2>1. Len(j) \in Nat
    OBVIOUS
  <2> QED
    BY <1>2, <2>1 DEF AuditState
<1>4. tr[i + 1].next <= tr[n].next
    BY <1>1 DEF Trace
<1>5. JournalGrows(j, k, tr[i + 1].next)
    BY <1>3, <1>4 DEF JournalGrows
<1>6. Follows(tr[i], tr[i + 1], j, c, h)
    BY DEF Trace
<1> QED
    BY <1>2, <1>5, <1>6, FollowsStays

LEMMA TraceExtends ==
    ASSUME NEW tr, NEW n, NEW j, NEW c, NEW h, NEW t \in AuditState,
           Trace(tr, n, j, c, h), tr[n].next <= t.next, Follows(tr[n], t, j, c, h)
    PROVE  \E ex, m : Trace(ex, m, j, c, h) /\ ex[m] = t
<1> DEFINE ex == [i \in 0 .. n + 1 |-> IF i = n + 1 THEN t ELSE tr[i]]
<1>1. n \in Nat
    BY DEF Trace
<1>2. ex \in [0 .. n + 1 -> AuditState]
    BY <1>1 DEF Trace
<1>3. ex[n + 1] = t /\ \A i \in 0 .. n : ex[i] = tr[i]
    BY <1>1
<1> HIDE DEF ex
<1>4. \A i \in 0 .. n + 1 : ex[i].next <= t.next
  <2> SUFFICES ASSUME NEW i \in 0 .. n + 1
               PROVE  ex[i].next <= t.next
    OBVIOUS
  <2>1. t.next \in Nat
    BY DEF AuditState
  <2>2. CASE i = n + 1
    BY <2>1, <2>2, <1>3
  <2>3. CASE i \in 0 .. n
    <3>1. tr[i] \in AuditState /\ tr[n] \in AuditState
      BY <2>3, <1>1 DEF Trace
    <3>2. tr[i].next <= tr[n].next /\ tr[i].next \in Nat /\ tr[n].next \in Nat
      BY <2>3, <3>1 DEF Trace, AuditState
    <3> QED
      BY <2>1, <2>3, <3>2, <1>3
  <2> QED
    BY <2>2, <2>3, <1>1
<1>5. ASSUME NEW i \in 0 .. n
      PROVE  Follows(ex[i], ex[i + 1], j, c, h)
  <2>1. CASE i = n
    BY <2>1, <1>1, <1>3
  <2>2. CASE i \in 0 .. n - 1
    <3>1. i \in 0 .. n /\ i + 1 \in 0 .. n
      BY <2>2, <1>1
    <3> QED
      BY <3>1, <2>2, <1>3 DEF Trace
  <2> QED
    BY <2>1, <2>2, <1>1
<1>6. ex[0] = Idle(<<>>, 1)
    BY <1>1, <1>3 DEF Trace
<1>7. n + 1 \in Nat /\ n + 1 - 1 = n
    BY <1>1
<1>8. Trace(ex, n + 1, j, c, h)
    BY <1>2, <1>3, <1>4, <1>5, <1>6, <1>7 DEF Trace
<1> QED
    BY <1>3, <1>8

-----------------------------------------------------------------------------
\* Where the episode stands, told as a state of the audit: a call that is going
\* on has not read its row yet.

Position ==
    IF mode = "replay" THEN next
    ELSE IF where = "logged" THEN Len(journal) ELSE Len(journal) + 1

View ==
    Stand(IF where \in Calls THEN "call" ELSE where,
          history, Position,
          IF where = "idle" THEN <<>> ELSE talk,
          IF where = "idle" THEN <<>> ELSE seen,
          IF where \in {"idle", "loop"} THEN FALSE ELSE final,
          IF where = "reply" THEN text ELSE "act")

\* The records as far as they are known.
Known ==
    IF mode = "replay" THEN recorded
    ELSE IF where = "idle" THEN history
    ELSE Append(history, [outcome |-> "open", seen |-> seen])

ReplayTypes ==
    /\ mode \in {"live", "replay"} /\ where \in Places \cup Calls
    /\ journal \in Seq(JournalRow) /\ history \in Seq(Entry)
    /\ \A p \in DOMAIN cache : cache[p] \in Text
    /\ talk \in Seq(Text) /\ seen \in Seq(1 .. 3) /\ final \in BOOLEAN /\ text \in Text
    /\ recorded \in Seq(Entry) /\ next \in Nat \ {0} /\ mismatch = FALSE
    /\ mode = "replay" => where \in Places /\ Len(recorded) = Attempts

\* An answer under way is in the cache, then in the journal.
AnswerKept ==
    /\ where = "request" => Prompt \notin DOMAIN cache
    /\ where \in {"cached", "logged"} => Prompt \in DOMAIN cache /\ cache[Prompt] = text
    /\ where = "logged" => Len(journal) > 0 /\ journal[Len(journal)] = Response(text)

\* An audit on what is there would come to where the episode stands; on the
\* records of the shard it comes to their end, and is on the way.
TraceInv == \E tr, n, k :
    /\ Trace(tr, n, journal, cache, Known)
    /\ k \in 0 .. n /\ tr[k] = View
    /\ mode = "live" => k = n
    /\ mode = "replay" => tr[n] = Idle(recorded, Len(journal) + 1)

AuditInv == ReplayTypes /\ AnswerKept /\ TraceInv

LEMMA ViewTyped == ReplayTypes /\ AnswerKept => View \in AuditState
<1> SUFFICES ASSUME ReplayTypes, AnswerKept
             PROVE  View \in AuditState
    OBVIOUS
<1>1. Position \in Nat \ {0}
    BY DEF Position, ReplayTypes, AnswerKept
<1>2. View.at \in Places
    BY DEF View, ReplayTypes, Places, Calls, Stand
<1>3. View.text \in Text
    BY DEF View, ReplayTypes, Text, Stand
<1>4. View.talk \in Seq(Text) /\ View.seen \in Seq(1 .. 3)
    BY DEF View, ReplayTypes, Stand
<1>5. View.final \in BOOLEAN
    BY DEF View, ReplayTypes, Stand
<1>6. View.history \in Seq(Entry) /\ View.next = Position
    BY DEF View, ReplayTypes, Stand
<1>7. View = [at |-> View.at, history |-> View.history, next |-> View.next,
              talk |-> View.talk, seen |-> View.seen, final |-> View.final,
              text |-> View.text]
    BY DEF View, Stand
<1> HIDE DEF View
<1> QED
    BY <1>1, <1>2, <1>3, <1>4, <1>5, <1>6, <1>7 DEF AuditState

LEMMA KnownTyped == ReplayTypes => Known \in Seq(Entry)
<1> SUFFICES ASSUME ReplayTypes
             PROVE  Known \in Seq(Entry)
    OBVIOUS
<1>1. [outcome |-> "open", seen |-> seen] \in Entry
    BY DEF ReplayTypes, Entry
<1> QED
    BY <1>1 DEF Known, ReplayTypes

LEMMA PromptTyped == ReplayTypes => Prompt \in Key
<1> SUFFICES ASSUME ReplayTypes
             PROVE  Prompt \in Key
    OBVIOUS
<1> DEFINE past == [i \in 1 .. Len(history) |-> history[i].outcome = "decision_produced"]
<1>1. Len(history) \in Nat /\ DOMAIN history = 1 .. Len(history)
    BY DEF ReplayTypes
<1>2. past \in [1 .. Len(history) -> BOOLEAN]
    BY Zenon
<1>3. past \in Seq(BOOLEAN)
    BY <1>1, <1>2
<1>4. Prompt = [past |-> past, talk |-> talk, final |-> final]
    BY <1>1 DEF Prompt
<1> HIDE DEF past
<1> QED
    BY <1>3, <1>4 DEF Key, ReplayTypes

\* An episode asks what its audit asks there.
LEMMA AsksPrompt == where \notin {"idle", "loop"} => Asks(View) = Prompt
BY DEF Asks, View, Prompt, Stand

LEMMA Grows ==
    ASSUME NEW h \in Seq(Entry), NEW e \in Entry
    PROVE  RecordsGrow(h, h) /\ RecordsGrow(h, Append(h, e))
BY DEF RecordsGrow, Entry

\* The record of the attempt that goes on is completed.
LEMMA RecordCompletes ==
    ASSUME NEW h \in Seq(Entry), NEW e \in Entry, NEW s \in Seq(1 .. 3),
           e.seen = s \/ \E i \in 1 .. 3 : e.seen = Append(s, i)
    PROVE  RecordsGrow(Append(h, [outcome |-> "open", seen |-> s]), Append(h, e))
<1> DEFINE o == [outcome |-> "open", seen |-> s]
<1>1. o \in Entry
    BY DEF Entry
<1>2. Len(s) <= Len(e.seen) /\ \A i \in 1 .. Len(s) : e.seen[i] = s[i]
  <2>1. CASE e.seen = s
    BY <2>1
  <2>2. ASSUME NEW i \in 1 .. 3, e.seen = Append(s, i)
        PROVE  Len(s) <= Len(e.seen) /\ \A k \in 1 .. Len(s) : e.seen[k] = s[k]
    <3>1. Len(Append(s, i)) = Len(s) + 1 /\ \A k \in 1 .. Len(s) : Append(s, i)[k] = s[k]
      OBVIOUS
    <3> QED
      BY <2>2, <3>1
  <2> QED
    BY <2>1, <2>2
<1> SUFFICES ASSUME NEW m \in 1 .. Len(h) + 1
             PROVE  /\ Append(h, o)[m].outcome # "open" => Append(h, e)[m] = Append(h, o)[m]
                    /\ Len(Append(h, o)[m].seen) <= Len(Append(h, e)[m].seen)
                    /\ \A i \in 1 .. Len(Append(h, o)[m].seen) :
                           Append(h, e)[m].seen[i] = Append(h, o)[m].seen[i]
    BY <1>1 DEF RecordsGrow
<1>3. CASE m = Len(h) + 1
  <2>1. Append(h, o)[m] = o /\ Append(h, e)[m] = e
    BY <1>1, <1>3
  <2>2. o.outcome = "open" /\ o.seen = s
    OBVIOUS
  <2> QED
    BY <1>2, <2>1, <2>2
<1>4. CASE m \in 1 .. Len(h)
  <2>1. Append(h, o)[m] = h[m] /\ Append(h, e)[m] = h[m] /\ h[m] \in Entry
    BY <1>1, <1>4
  <2>2. Len(h[m].seen) \in Nat
    BY <2>1 DEF Entry
  <2> QED
    BY <2>1, <2>2
<1> QED
    BY <1>3, <1>4

LEMMA LiveStep ==
    ASSUME AuditInv, mode = "live", mode' = "live", ReplayTypes', AnswerKept',
           JournalGrows(journal, journal', Position), CacheGrows(cache, cache'),
           RecordsGrow(Known, Known'),
           \/ View' = View
           \/ Position <= Position' /\ Follows(View, View', journal', cache', Known')
    PROVE  AuditInv'
<1>1. PICK tr, n, k : /\ Trace(tr, n, journal, cache, Known)
                      /\ k = n /\ tr[n] = View
    BY DEF AuditInv, TraceInv
<1>2. View.next = Position /\ View'.next = Position'
    BY DEF View, Stand
<1>3. Known \in Seq(Entry) /\ journal \in Seq(JournalRow) /\ journal' \in Seq(JournalRow)
    BY KnownTyped DEF AuditInv, ReplayTypes
<1>4. (ReplayTypes => Known \in Seq(Entry))'
      /\ (ReplayTypes /\ AnswerKept => View \in AuditState)'
    BY KnownTyped, ViewTyped, PTL
<1>5. Known' \in Seq(Entry) /\ View' \in AuditState
    BY <1>4
<1>6. Trace(tr, n, journal', cache', Known')
    BY <1>1, <1>2, <1>3, <1>5, TraceStays
<1>7. \E ex, m : Trace(ex, m, journal', cache', Known') /\ ex[m] = View'
  <2>1. CASE View' = View
    BY <2>1, <1>1, <1>6
  <2>2. CASE Position <= Position' /\ Follows(View, View', journal', cache', Known')
    BY <2>2, <1>1, <1>2, <1>6, <1>5, TraceExtends
  <2> QED
    BY <2>1, <2>2
<1>8. PICK ex, m : Trace(ex, m, journal', cache', Known') /\ ex[m] = View'
    BY <1>7
<1>9. m \in 0 .. m
    BY <1>8 DEF Trace
<1>10. TraceInv'
    BY <1>8, <1>9 DEF TraceInv
<1> QED
    BY <1>10 DEF AuditInv

LEMMA Concluded ==
    ASSUME mode = "live", NEW outcome, NEW now, Conclude(outcome, now)
    PROVE  /\ where' = "idle" /\ mismatch' = FALSE
           /\ history' = Append(history, [outcome |-> outcome, seen |-> now])
BY DEF Conclude

\* A live attempt ends, and so would the audit's.
LEMMA LiveEnds ==
    ASSUME ReplayTypes, mode = "live", mode' = "live", where # "idle", where' = "idle",
           NEW outcome \in Outcome, NEW now \in Seq(1 .. 3),
           now = seen \/ \E i \in 1 .. 3 : now = Append(seen, i),
           history' = Append(history, [outcome |-> outcome, seen |-> now])
    PROVE  /\ history' \in Seq(Entry)
           /\ RecordsGrow(Known, Known')
           /\ Ends(View, View', outcome, now, Position', Known')
<1> DEFINE e == [outcome |-> outcome, seen |-> now]
<1>1. e \in Entry /\ e.seen = now /\ history \in Seq(Entry) /\ seen \in Seq(1 .. 3)
    BY DEF Entry, ReplayTypes
<1>2. Known = Append(history, [outcome |-> "open", seen |-> seen])
    BY DEF Known
<1>3. Known' = Append(history, e)
    BY DEF Known
<1>4. RecordsGrow(Known, Known')
    BY <1>1, <1>2, <1>3, RecordCompletes
<1>5. Len(history) < Len(Known') /\ Known'[Len(history) + 1] = e
    BY <1>1, <1>3
<1>6. View.history = history /\ View' = Idle(history', Position')
    BY DEF View, Idle, Calls, Stand
<1> HIDE DEF e
<1>7. Append(View.history, Known'[Len(View.history) + 1]) = history'
    BY <1>5, <1>6 DEF e
<1>8. Ends(View, View', outcome, now, Position', Known')
    BY <1>5, <1>6, <1>7 DEF Ends, e
<1> QED
    BY <1>1, <1>4, <1>8 DEF e

\* While the journal does not change and no answer is under way, nothing
\* more has to be said of a live step than what the audit does there.
LEMMA QuietStep ==
    ASSUME AuditInv, mode = "live", mode' = "live", ReplayTypes',
           UNCHANGED <<journal, cache>>, where \notin Calls, where' \notin Calls,
           RecordsGrow(Known, Known'), Follows(View, View', journal', cache', Known')
    PROVE  AuditInv'
<1>1. AnswerKept'
    BY DEF AnswerKept, Calls
<1>2. Position = Len(journal) + 1 /\ Position' = Len(journal) + 1 /\ Len(journal) \in Nat
    BY DEF Position, Calls, AuditInv, ReplayTypes
<1> QED
    BY <1>1, <1>2, LiveStep DEF JournalGrows, CacheGrows

LEMMA BeginLive ==
    ASSUME AuditInv, mode = "live", BeginAttempt
    PROVE  AuditInv'
<1> USE DEF BeginAttempt, attempt, audit
<1>1. ReplayTypes'
    BY DEF AuditInv, ReplayTypes, Places, Calls
<1>2. where \notin Calls /\ where' \notin Calls /\ mode' = "live"
    BY DEF Calls
<1>3. RecordsGrow(Known, Known')
  <2>1. Known = history /\ Known' = Append(history, [outcome |-> "open", seen |-> <<>>])
    BY DEF Known
  <2>2. [outcome |-> "open", seen |-> <<>>] \in Entry /\ history \in Seq(Entry)
    BY DEF Entry, AuditInv, ReplayTypes
  <2> QED
    BY <2>1, <2>2, Grows
<1>4. Begins(View, View')
  <2>1. Position' = Position
    BY DEF Position
  <2>2. View.at = "idle" /\ View.history = history /\ View.next = Position
    BY DEF View, Calls, Stand
  <2>3. where' = "loop" /\ history' = history /\ talk' = <<>> /\ seen' = <<>>
    OBVIOUS
  <2>4. View' = Stand("loop", history, Position, <<>>, <<>>, FALSE, "act")
    BY <2>1, <2>3 DEF View, Calls, Stand
  <2> QED
    BY <2>2, <2>4 DEF Begins
<1> QED
    BY <1>1, <1>2, <1>3, <1>4, QuietStep DEF Follows

\* A clock reading of a live attempt is one more of its record.
LEMMA LiveReads ==
    ASSUME ReplayTypes, mode = "live", mode' = "live", NEW i \in 1 .. 3,
           where \in {"loop", "reply"}, where' \in {"call", "loop"},
           history' = history, seen' = Append(seen, i)
    PROVE  RecordsGrow(Known, Known') /\ Reads(View, i, Known')
<1>1. history \in Seq(Entry) /\ seen \in Seq(1 .. 3) /\ seen' \in Seq(1 .. 3)
    BY DEF ReplayTypes
<1> DEFINE e == [outcome |-> "open", seen |-> seen']
<1>2. e \in Entry /\ e.seen = Append(seen, i)
    BY <1>1 DEF Entry
<1>3. Known = Append(history, [outcome |-> "open", seen |-> seen]) /\ Known' = Append(history, e)
    BY DEF Known
<1>4. RecordsGrow(Known, Known')
    BY <1>1, <1>2, <1>3, RecordCompletes
<1>5. Len(history) < Len(Known') /\ Known'[Len(history) + 1] = e
    BY <1>1, <1>2, <1>3
<1>6. View.history = history /\ View.seen = seen
    BY DEF View, Stand
<1>7. Len(seen) < Len(e.seen) /\ e.seen[Len(seen) + 1] = i
    BY <1>1, <1>2
<1> HIDE DEF e
<1> QED
    BY <1>4, <1>5, <1>6, <1>7 DEF Reads

\* The same for the reading that ends the attempt.
LEMMA LastRead ==
    ASSUME ReplayTypes, mode = "live", mode' = "live", NEW i \in 1 .. 3,
           NEW outcome \in Outcome, where \in {"loop", "reply"}, where' = "idle",
           history' = Append(history, [outcome |-> outcome, seen |-> Append(seen, i)])
    PROVE  Reads(View, i, Known')
<1>1. history \in Seq(Entry) /\ seen \in Seq(1 .. 3)
    BY DEF ReplayTypes
<1> DEFINE e == [outcome |-> outcome, seen |-> Append(seen, i)]
<1>2. e \in Entry /\ e.seen = Append(seen, i)
    BY <1>1 DEF Entry
<1>3. Known' = Append(history, e)
    BY DEF Known
<1>5. Len(history) < Len(Known') /\ Known'[Len(history) + 1] = e
    BY <1>1, <1>2, <1>3
<1>6. View.history = history /\ View.seen = seen
    BY DEF View, Stand
<1>7. Len(seen) < Len(e.seen) /\ e.seen[Len(seen) + 1] = i
    BY <1>1, <1>2
<1> HIDE DEF e
<1> QED
    BY <1>5, <1>6, <1>7 DEF Reads

LEMMA Readings ==
    /\ DOMAIN Reading = 1 .. 3
    /\ \A i \in 1 .. 3 : /\ Reading[i] = "over" <=> i = 3
                         /\ Reading[i] = "reserve" <=> i = 2
BY DEF Reading

LEMMA LookLive ==
    ASSUME AuditInv, mode = "live", Look
    PROVE  AuditInv'
<1> USE DEF attempt, audit
<1>1. PICK i \in 1 .. 3 : Look!(i)
    BY Readings DEF Look
<1>2. mode' = "live" /\ ReplayTypes /\ seen' = Append(seen, i) /\ where = "loop"
      /\ journal' = journal /\ cache' = cache
    BY <1>1 DEF AuditInv
<1>3. seen' \in Seq(1 .. 3)
    BY <1>2 DEF ReplayTypes
<1>4. Position' = Position
  <2>1. next' = next /\ where' # "logged"
    BY <1>1 DEF Conclude
  <2> QED
    BY <1>2, <2>1 DEF Position
<1>5. CASE i = 3
  <2>1. Conclude("timeout", seen')
    BY <1>1, <1>5, Readings
  <2>2. where' = "idle" /\ mismatch' = FALSE
        /\ history' = Append(history, [outcome |-> "timeout", seen |-> seen'])
    BY <2>1, Concluded
  <2>3. "timeout" \in Outcome
    BY DEF Outcome
  <2>4. /\ history' \in Seq(Entry) /\ RecordsGrow(Known, Known')
        /\ Ends(View, View', "timeout", seen', Position', Known')
    BY <1>2, <1>3, <2>2, <2>3, LiveEnds
  <2>5. Reads(View, i, Known')
    BY <1>2, <2>2, <2>3, LastRead
  <2>6. View.at = "loop" /\ View.seen = seen /\ View.next = Position
    BY <1>2 DEF View, Calls, Stand
  <2>7. Looks(View, View', i, Known')
    BY <1>2, <1>4, <1>5, <2>4, <2>5, <2>6 DEF Looks
  <2>8. ReplayTypes'
    BY <1>1, <1>2, <1>3, <2>2, <2>4 DEF ReplayTypes, Places, Calls
  <2> QED
    BY <1>2, <2>2, <2>4, <2>7, <2>8, QuietStep DEF Follows, Calls
<1>6. CASE i # 3
  <2>1. where' = "call" /\ UNCHANGED <<history, mismatch, talk, text, recorded, next>>
        /\ final' = (i = 2 \/ Len(talk) = MaxSteps - 1)
    BY <1>1, <1>6, Readings
  <2>2. RecordsGrow(Known, Known') /\ Reads(View, i, Known')
    BY <1>2, <2>1, LiveReads
  <2>3. View' = Stand("call", history, Position, talk, Append(seen, i), final', "act")
    <3>1. where' = "call" /\ history' = history /\ talk' = talk /\ seen' = Append(seen, i)
      BY <1>2, <2>1
    <3> QED
      BY <1>4, <3>1 DEF View, Calls, Stand
  <2>4. View.at = "loop" /\ View.history = history /\ View.next = Position
        /\ View.talk = talk /\ View.seen = seen
    BY <1>2 DEF View, Calls, Stand
  <2>5. Looks(View, View', i, Known')
    BY <1>6, <2>1, <2>2, <2>3, <2>4 DEF Looks
  <2>6. ReplayTypes'
    BY <1>2, <1>3, <2>1 DEF ReplayTypes, Places, Calls
  <2> QED
    BY <1>2, <2>1, <2>2, <2>5, <2>6, QuietStep DEF Follows, Calls
<1> QED
    BY <1>5, <1>6

LEMMA ReadLive ==
    ASSUME AuditInv, mode = "live", Read
    PROVE  AuditInv'
<1> USE DEF attempt, audit
<1>1. PICK i \in 1 .. 3 : Read!(i)
    BY Readings DEF Read
<1>2. mode' = "live" /\ ReplayTypes /\ seen' = Append(seen, i) /\ where = "reply"
      /\ UNCHANGED <<journal, cache, final, text, recorded, next>>
    BY <1>1 DEF AuditInv
<1>3. seen' \in Seq(1 .. 3)
    BY <1>2 DEF ReplayTypes
<1>4. Position' = Position
  <2>1. where' # "logged"
    BY <1>1 DEF Conclude
  <2> QED
    BY <1>2, <2>1 DEF Position
<1>5. View.at = "reply" /\ View.seen = seen /\ View.next = Position /\ View.text = text
      /\ View.final = final /\ View.talk = talk /\ View.history = history
    BY <1>2 DEF View, Calls, Stand
<1>6. ASSUME NEW outcome \in Outcome, Conclude(outcome, seen'), talk' = talk,
             Ends(View, View', outcome, Append(View.seen, i), View.next, Known')
               /\ Reads(View, i, Known')
                 => ReadsReply(View, View', i, Known')
      PROVE  AuditInv'
  <2>2. where' = "idle" /\ mismatch' = FALSE
        /\ history' = Append(history, [outcome |-> outcome, seen |-> seen'])
    BY <1>6, Concluded
  <2>4. /\ history' \in Seq(Entry) /\ RecordsGrow(Known, Known')
        /\ Ends(View, View', outcome, seen', Position', Known')
    BY <1>2, <1>3, <2>2, LiveEnds
  <2>5. Reads(View, i, Known')
    BY <1>2, <2>2, LastRead
  <2>7. ReadsReply(View, View', i, Known')
    BY <1>2, <1>4, <1>5, <1>6, <2>4, <2>5
  <2>8. ReplayTypes'
    BY <1>2, <1>3, <1>6, <2>2, <2>4 DEF ReplayTypes, Places, Calls
  <2> QED
    BY <1>2, <2>2, <2>4, <2>7, <2>8, QuietStep DEF Follows, Calls
<1>7. CASE i = 3
  <2>1. Conclude("timeout", seen') /\ talk' = talk /\ "timeout" \in Outcome
    BY <1>1, <1>7, Readings DEF Outcome
  <2> QED
    BY <1>5, <1>6, <1>7, <2>1 DEF ReadsReply
<1>8. CASE i # 3 /\ text = "act"
  <2>1. Conclude("decision_produced", seen') /\ talk' = talk /\ "decision_produced" \in Outcome
    BY <1>1, <1>8, Readings DEF Outcome
  <2> QED
    BY <1>5, <1>6, <1>8, <2>1 DEF ReadsReply
<1>9. CASE i # 3 /\ text # "act" /\ final
  <2>1. Conclude("tool_budget_exhausted", seen') /\ talk' = talk
        /\ "tool_budget_exhausted" \in Outcome
    BY <1>1, <1>9, Readings DEF Outcome
  <2> QED
    BY <1>5, <1>6, <1>9, <2>1 DEF ReadsReply
<1>10. CASE i # 3 /\ text # "act" /\ ~final
  <2>1. where' = "loop" /\ talk' = Append(talk, text) /\ UNCHANGED <<history, mismatch>>
    BY <1>1, <1>10, Readings
  <2>2. RecordsGrow(Known, Known') /\ Reads(View, i, Known')
    BY <1>2, <2>1, LiveReads
  <2>3. View' = Stand("loop", history, Position, Append(talk, text), Append(seen, i),
                      FALSE, "act")
    <3>1. where' = "loop" /\ history' = history /\ talk' = Append(talk, text)
          /\ seen' = Append(seen, i)
      BY <1>2, <2>1
    <3> QED
      BY <1>4, <3>1 DEF View, Calls, Stand
  <2>5. ReadsReply(View, View', i, Known')
    BY <1>5, <1>10, <2>2, <2>3 DEF ReadsReply
  <2>6. ReplayTypes'
    BY <1>2, <1>3, <2>1 DEF ReplayTypes, Places, Calls
  <2> QED
    BY <1>2, <2>1, <2>2, <2>5, <2>6, QuietStep DEF Follows, Calls
<1> QED
    BY <1>7, <1>8, <1>9, <1>10

\* The rows a live call may write.
LEMMA RowsTyped ==
    ASSUME ReplayTypes
    PROVE  /\ \A t \in Text : Response(t) \in JournalRow
           /\ \A w \in {"before_call", "after_response"} : BudgetError(w) \in JournalRow
           /\ \A w \in {"timeout", "provider_error"} : ProviderError(w) \in JournalRow
BY PromptTyped DEF Response, BudgetError, ProviderError, JournalRow, Outcome

\* A live call that does not yet end the audit's call.
LEMMA SameView ==
    ASSUME mode = "live", mode' = "live", UNCHANGED <<history, talk, seen, final>>,
           where \in {"call", "request", "cached"}, where' \in Calls, Position' = Position
    PROVE  View' = View /\ Known' = Known /\ Prompt' = Prompt
BY DEF View, Known, Prompt, Calls, Stand

LEMMA SubmitLive ==
    ASSUME AuditInv, Submit
    PROVE  AuditInv'
<1> USE DEF Submit, Calling
<1>1. ReplayTypes'
    BY DEF AuditInv, ReplayTypes, Places, Calls
<1>2. Position' = Position
    BY DEF Position
<1>3. View' = View /\ Known' = Known /\ Prompt' = Prompt
    BY <1>2, SameView DEF Calls
<1>4. AnswerKept'
    BY <1>3 DEF AnswerKept
<1>5. Known \in Seq(Entry)
    BY KnownTyped DEF AuditInv
<1>6. RecordsGrow(Known, Known')
    BY <1>3, <1>5, Grows DEF RecordsGrow
<1> QED
    BY <1>1, <1>3, <1>4, <1>6, LiveStep DEF JournalGrows, CacheGrows

LEMMA AnswerLive ==
    ASSUME AuditInv, Answer
    PROVE  AuditInv'
<1> USE DEF Calling
<1>1. PICK t \in Text : Answer!(t)
    BY DEF Answer
<1>2. /\ mode = "live" /\ mode' = "live" /\ where = "request" /\ where' = "cached"
      /\ text' = t
      /\ cache' = [p \in DOMAIN cache \cup {Prompt} |-> IF p = Prompt THEN t ELSE cache[p]]
      /\ UNCHANGED <<talk, seen, final, recorded, next, journal, history, mismatch>>
    BY <1>1
<1>3. ReplayTypes'
    BY <1>2 DEF AuditInv, ReplayTypes, Places, Calls
<1>4. Position' = Position
    BY <1>2 DEF Position
<1>5. View' = View /\ Known' = Known /\ Prompt' = Prompt
    BY <1>2, <1>4, SameView DEF Calls
<1>6. AnswerKept'
    BY <1>2, <1>5 DEF AnswerKept
<1>7. CacheGrows(cache, cache')
    BY <1>2 DEF CacheGrows, AuditInv, AnswerKept
<1>8. Known \in Seq(Entry)
    BY KnownTyped DEF AuditInv
<1>9. RecordsGrow(Known, Known')
    BY <1>5, <1>8, Grows DEF RecordsGrow
<1> QED
    BY <1>2, <1>3, <1>5, <1>6, <1>7, <1>9, LiveStep DEF JournalGrows

LEMMA LogAnswerLive ==
    ASSUME AuditInv, LogAnswer
    PROVE  AuditInv'
<1> USE DEF LogAnswer, Calling, Log
<1>1. Response(text) \in JournalRow
    BY RowsTyped DEF AuditInv, ReplayTypes
<1>2. journal \in Seq(JournalRow) /\ journal' = Append(journal, Response(text))
    BY DEF AuditInv, ReplayTypes
<1>3. /\ journal' \in Seq(JournalRow) /\ Len(journal') = Len(journal) + 1
      /\ journal'[Len(journal')] = Response(text)
    BY <1>1, <1>2
<1>4. ReplayTypes'
    BY <1>3 DEF AuditInv, ReplayTypes, Places, Calls
<1>5. Position' = Position
    BY <1>3 DEF Position
<1>6. View' = View /\ Known' = Known /\ Prompt' = Prompt
    BY <1>5, SameView DEF Calls
<1>7. Response(text)' = Response(text)
    BY <1>6 DEF Response
<1>8. AnswerKept'
  <2>1. Prompt \in DOMAIN cache /\ cache[Prompt] = text /\ Len(journal) \in Nat
    BY DEF AuditInv, AnswerKept, ReplayTypes
  <2> QED
    BY <1>3, <1>6, <1>7, <2>1 DEF AnswerKept
<1>9. JournalGrows(journal, journal', Position)
    BY <1>1, <1>2 DEF JournalGrows, Response
<1>10. Known \in Seq(Entry)
    BY KnownTyped DEF AuditInv
<1>11. RecordsGrow(Known, Known')
    BY <1>6, <1>10, Grows DEF RecordsGrow
<1> QED
    BY <1>4, <1>6, <1>8, <1>9, <1>11, LiveStep DEF CacheGrows

\* The reply is there, live and in the audit: its row is the last one.
LEMMA LiveAnswered ==
    ASSUME AuditInv, mode = "live", mode' = "live",
           where \in {"call", "logged"}, where' = "reply",
           UNCHANGED <<history, talk, seen, final, cache>>, ReplayTypes',
           JournalGrows(journal, journal', Position), Position = Len(journal'),
           journal'[Position] = Response(text'),
           Prompt \in DOMAIN cache, cache[Prompt] = text'
    PROVE  AuditInv'
<1>1. AnswerKept'
    BY DEF AnswerKept
<1>2. Len(journal') \in Nat /\ Position \in Nat
    BY DEF ReplayTypes
<1>3. Position' = Position + 1
    BY DEF Position
<1>4. Known' = Known
    BY DEF Known
<1>5. Asks(View) = Prompt
    BY AsksPrompt
<1>6. View.at = "call" /\ View.next = Position
    BY DEF View, Calls, Stand
<1>7. Asked(View, journal') /\ journal'[View.next].event = "response"
      /\ journal'[View.next].what = text'
    BY <1>2, <1>5, <1>6 DEF Asked, Response
<1>8. ~FollowedAt(View.next, journal')
    BY <1>2, <1>6 DEF FollowedAt
<1>9. View' = Stand("reply", View.history, View.next + 1, View.talk, View.seen,
                    View.final, cache'[Asks(View)])
    BY <1>3, <1>5, <1>6 DEF View, Calls, Stand
<1>10. AnswersAgain(View, View', journal', cache', Known')
    BY <1>5, <1>7, <1>8, <1>9 DEF AnswersAgain
<1>11. Known \in Seq(Entry)
    BY KnownTyped DEF AuditInv
<1>12. RecordsGrow(Known, Known')
    BY <1>4, <1>11, Grows DEF RecordsGrow
<1> QED
    BY <1>1, <1>2, <1>3, <1>10, <1>12, LiveStep DEF Follows, CacheGrows

LEMMA CacheHitLive ==
    ASSUME AuditInv, CacheHit
    PROVE  AuditInv'
<1> USE DEF CacheHit, Calling, Log
<1>1. cache[Prompt] \in Text /\ journal \in Seq(JournalRow) /\ ReplayTypes
    BY DEF AuditInv, ReplayTypes
<1>2. text' = cache[Prompt] /\ Prompt' = Prompt
    BY DEF Prompt
<1>3. journal' = Append(journal, Response(text')) /\ Response(text') \in JournalRow
    BY <1>1, <1>2, RowsTyped
<1>4. journal' \in Seq(JournalRow) /\ Len(journal') = Len(journal) + 1
      /\ journal'[Len(journal) + 1] = Response(text')
    BY <1>1, <1>3
<1>5. ReplayTypes'
    BY <1>1, <1>2, <1>4 DEF ReplayTypes, Places, Calls
<1>6. JournalGrows(journal, journal', Position)
    BY <1>3 DEF JournalGrows, Response
<1>7. Position = Len(journal')
    BY <1>4 DEF Position
<1> QED
    BY <1>2, <1>4, <1>5, <1>6, <1>7, LiveAnswered

LEMMA ChargedLive ==
    ASSUME AuditInv, TokensCharged
    PROVE  AuditInv'
<1> USE DEF TokensCharged, Calling
<1>1. ReplayTypes'
    BY DEF AuditInv, ReplayTypes, Places, Calls
<1>2. Position = Len(journal')
    BY DEF Position
<1>3. journal'[Position] = Response(text') /\ Prompt \in DOMAIN cache /\ cache[Prompt] = text'
    BY <1>2 DEF AuditInv, AnswerKept
<1> QED
    BY <1>1, <1>2, <1>3, LiveAnswered DEF JournalGrows

\* A call that came to nothing: its row is the last one, and ends the attempt.
LEMMA LiveRefused ==
    ASSUME AuditInv, mode = "live", mode' = "live", where \in {"call", "request"},
           NEW row \in JournalRow, NEW outcome \in Outcome, row.key = Prompt,
           \/ row.event = "provider_error" /\ row.what = outcome
           \/ /\ row.event = "budget_error" /\ row.what # "after_response"
              /\ outcome = "provider_budget_exhausted",
           journal' = Append(journal, row), Conclude(outcome, seen),
           UNCHANGED <<talk, seen, final, text, recorded, next, cache>>
    PROVE  AuditInv'
<1>1. /\ ReplayTypes /\ seen \in Seq(1 .. 3) /\ journal \in Seq(JournalRow)
    BY DEF AuditInv, ReplayTypes
<1>2. /\ where' = "idle" /\ mismatch' = FALSE
      /\ history' = Append(history, [outcome |-> outcome, seen |-> seen])
    BY Concluded
<1>3. /\ history' \in Seq(Entry) /\ RecordsGrow(Known, Known')
      /\ Ends(View, View', outcome, seen, Position', Known')
    BY <1>1, <1>2, LiveEnds
<1>4. journal' \in Seq(JournalRow) /\ Len(journal') = Len(journal) + 1
      /\ journal'[Len(journal) + 1] = row /\ Len(journal) \in Nat
    BY <1>1
<1>5. ReplayTypes' /\ AnswerKept'
    BY <1>1, <1>2, <1>3, <1>4 DEF ReplayTypes, AnswerKept, Places, Calls
<1>6. Position = Len(journal) + 1 /\ Position' = Position + 1
    BY <1>2, <1>4 DEF Position
<1>7. View.at = "call" /\ View.next = Position /\ View.seen = seen /\ Asks(View) = Prompt
    BY AsksPrompt DEF View, Calls, Stand
<1>8. Asked(View, journal') /\ journal'[View.next] = row
    BY <1>4, <1>6, <1>7 DEF Asked
<1>9. FailsAgain(View, View', journal', Known') \/ RefusedAgain(View, View', journal', Known')
    BY <1>3, <1>6, <1>7, <1>8 DEF FailsAgain, RefusedAgain
<1>10. JournalGrows(journal, journal', Position)
    BY DEF JournalGrows
<1>11. Position <= Position'
    BY <1>4, <1>6
<1>12. Follows(View, View', journal', cache', Known')
    BY <1>9 DEF Follows
<1> QED
    BY <1>3, <1>5, <1>10, <1>11, <1>12, LiveStep DEF CacheGrows

LEMMA CallRefusedLive ==
    ASSUME AuditInv, CallRefused
    PROVE  AuditInv'
<1>1. BudgetError("before_call") \in JournalRow
    BY RowsTyped DEF AuditInv
<1> QED
    BY <1>1, LiveRefused DEF CallRefused, Calling, Log, BudgetError, Outcome

LEMMA RequestFailsLive ==
    ASSUME AuditInv, RequestFails
    PROVE  AuditInv'
<1>1. PICK kind \in {"timeout", "provider_error"} : RequestFails!(kind)
    BY DEF RequestFails
<1>2. ProviderError(kind) \in JournalRow /\ kind \in Outcome
    BY RowsTyped DEF AuditInv, Outcome
<1> QED
    BY <1>1, <1>2, LiveRefused DEF Calling, Log, ProviderError

LEMMA OverrunLive ==
    ASSUME AuditInv, ChargeOverrun
    PROVE  AuditInv'
<1> USE DEF Calling, Log
<1> DEFINE row == BudgetError("after_response")
<1>1. /\ ReplayTypes /\ seen \in Seq(1 .. 3) /\ journal \in Seq(JournalRow)
      /\ row \in JournalRow /\ "provider_budget_exhausted" \in Outcome
    BY RowsTyped DEF AuditInv, ReplayTypes, Outcome
<1>0. /\ mode = "live" /\ mode' = "live" /\ where = "logged" /\ journal' = Append(journal, row)
      /\ Conclude("provider_budget_exhausted", seen)
      /\ UNCHANGED <<talk, seen, final, text, recorded, next, cache>>
    BY DEF ChargeOverrun
<1>2. /\ where' = "idle" /\ mismatch' = FALSE
      /\ history' = Append(history, [outcome |-> "provider_budget_exhausted", seen |-> seen])
    BY <1>0, Concluded
<1>3. /\ history' \in Seq(Entry) /\ RecordsGrow(Known, Known')
      /\ Ends(View, View', "provider_budget_exhausted", seen, Position', Known')
    BY <1>0, <1>1, <1>2, LiveEnds
<1>4. /\ Len(journal) \in Nat \ {0} /\ journal[Len(journal)] = Response(text)
      /\ Prompt \in DOMAIN cache /\ cache[Prompt] = text
    BY <1>0, <1>1 DEF AuditInv, AnswerKept
<1> HIDE DEF row
<1>5. journal' \in Seq(JournalRow) /\ Len(journal') = Len(journal) + 1
      /\ journal'[Len(journal) + 1] = row /\ journal'[Len(journal)] = Response(text)
    BY <1>0, <1>1, <1>4
<1>6. ReplayTypes' /\ AnswerKept'
    BY <1>0, <1>1, <1>2, <1>3, <1>5 DEF ReplayTypes, AnswerKept, Places, Calls
<1>7. Position = Len(journal) /\ Position' = Position + 2
    BY <1>0, <1>2, <1>4, <1>5 DEF Position
<1>8. View.at = "call" /\ View.next = Position /\ View.seen = seen /\ Asks(View) = Prompt
    BY <1>0, AsksPrompt DEF View, Calls, Stand
<1>9. /\ Asked(View, journal') /\ journal'[View.next].event = "response"
      /\ journal'[View.next].what = text
    BY <1>4, <1>5, <1>7, <1>8 DEF Asked, Response
<1>10. FollowedAt(View.next, journal') /\ journal'[View.next + 1].key = Asks(View)
    BY <1>4, <1>5, <1>7, <1>8 DEF FollowedAt, row, BudgetError
<1>11. AnswersAgain(View, View', journal', cache', Known')
    BY <1>0, <1>3, <1>4, <1>7, <1>8, <1>9, <1>10 DEF AnswersAgain
<1>12. JournalGrows(journal, journal', Position)
    BY <1>0, <1>1, <1>4, <1>7 DEF JournalGrows
<1>13. Position <= Position'
    BY <1>4, <1>7
<1> QED
    BY <1>0, <1>3, <1>6, <1>11, <1>12, <1>13, LiveStep DEF Follows, CacheGrows

-----------------------------------------------------------------------------
\* Nothing is journalled yet: the audit has nothing to do.
LEMMA Afresh ==
    ASSUME ReplayTypes, mode = "live", where = "idle", history = <<>>, journal = <<>>
    PROVE  AuditInv
<1> DEFINE tr == [i \in 0 .. 0 |-> Idle(<<>>, 1)]
<1>1. AnswerKept
    BY DEF AnswerKept
<1>2. Len(journal) = 0
    OBVIOUS
<1>3. Position = 1
    BY <1>2 DEF Position
<1>4. View = Idle(<<>>, 1)
    BY <1>3 DEF View, Idle, Calls
<1>5. View \in AuditState
    BY <1>1, ViewTyped
<1>6. tr \in [0 .. 0 -> AuditState] /\ tr[0] = View
    BY <1>4, <1>5
<1> HIDE DEF tr
<1>7. \A i \in 0 .. 0 : tr[i].next <= tr[0].next
    BY <1>6 DEF AuditState
<1>8. Trace(tr, 0, journal, cache, Known)
    BY <1>4, <1>6, <1>7 DEF Trace
<1>9. TraceInv
    BY <1>6, <1>8 DEF TraceInv
<1> QED
    BY <1>1, <1>9 DEF AuditInv

LEMMA AuditInit == ReplayInit => AuditInv
<1> SUFFICES ASSUME ReplayInit
             PROVE  AuditInv
    OBVIOUS
<1>1. \A p \in DOMAIN cache : cache[p] \in Text
  <2>1. cache \in Seq({}) /\ Len(cache) = 0
    BY DEF ReplayInit
  <2> QED
    BY <2>1
<1>2. journal \in Seq(JournalRow) /\ history \in Seq(Entry) /\ recorded \in Seq(Entry)
      /\ talk \in Seq(Text) /\ seen \in Seq(1 .. 3)
    BY DEF ReplayInit
<1>3. mode = "live" /\ where \in Places /\ text \in Text /\ next \in Nat \ {0}
    BY DEF ReplayInit, Places, Text
<1>4. final \in BOOLEAN /\ mismatch = FALSE
    BY DEF ReplayInit
<1>5. ReplayTypes
    BY <1>1, <1>2, <1>3, <1>4 DEF ReplayTypes
<1> QED
    BY <1>5, Afresh DEF ReplayInit

LEMMA KillLive ==
    ASSUME AuditInv, KillEpisode
    PROVE  AuditInv'
<1>1. /\ mode' = "live" /\ where' = "idle" /\ history' = <<>> /\ journal' = <<>>
      /\ ReplayTypes'
    BY DEF KillEpisode, attempt, audit, AuditInv, ReplayTypes, Places
<1>2. (ReplayTypes /\ mode = "live" /\ where = "idle" /\ history = <<>> /\ journal = <<>>
         => AuditInv)'
    BY Afresh, PTL
<1> QED
    BY <1>1, <1>2

\* The shard is complete: the records are known, and the audit begins.
LEMMA StartsReplay ==
    ASSUME AuditInv, StartReplay
    PROVE  AuditInv'
<1> USE DEF StartReplay, attempt, audit
<1>1. PICK tr, n : Trace(tr, n, journal, cache, Known) /\ tr[n] = View
    BY DEF AuditInv, TraceInv
<1>2. ReplayTypes' /\ AnswerKept'
    BY DEF AuditInv, ReplayTypes, AnswerKept, Places, Calls
<1>3. Known' = Known /\ Known = history
    BY DEF Known
<1>4. View = Idle(recorded', Len(journal') + 1)
    BY DEF View, Idle, Position, Calls
<1>5. View' = Idle(<<>>, 1)
    BY DEF View, Idle, Position, Calls
<1>6. Trace(tr, n, journal', cache', Known') /\ tr[0] = View' /\ 0 \in 0 .. n
    BY <1>1, <1>3, <1>5 DEF Trace
<1>7. TraceInv'
    BY <1>1, <1>4, <1>6 DEF TraceInv
<1> QED
    BY <1>2, <1>7 DEF AuditInv

\* In the audit there is a next step, unless it is over.
LEMMA ReplayAhead ==
    ASSUME AuditInv, mode = "replay", where # "idle" \/ Len(history) < Attempts
    PROVE  \E t \in AuditState :
               /\ Follows(View, t, journal, cache, recorded)
               /\ /\ mode' = "replay" /\ UNCHANGED <<journal, cache, recorded>>
                  /\ ReplayTypes' /\ View' = t
                  => AuditInv'
<1>1. PICK tr, n, k : /\ Trace(tr, n, journal, cache, Known)
                      /\ k \in 0 .. n /\ tr[k] = View
                      /\ tr[n] = Idle(recorded, Len(journal) + 1)
    BY DEF AuditInv, TraceInv
<1>2. where \notin Calls /\ recorded \in Seq(Entry) /\ Len(recorded) = Attempts
    BY DEF AuditInv, ReplayTypes, Places, Calls
<1>3. k # n
  <2> SUFFICES ASSUME k = n
               PROVE  FALSE
    OBVIOUS
  <2>1. View.at = "idle" /\ View.history = recorded
    BY <1>1 DEF Idle, Stand
  <2>2. where = "idle" /\ history = recorded
    BY <1>2, <2>1 DEF View, Stand
  <2> QED
    BY <1>2, <2>2
<1>4. n \in Nat /\ k \in 0 .. n - 1 /\ k + 1 \in 0 .. n
    BY <1>1, <1>3 DEF Trace
<1>5. Known = recorded
    BY DEF Known
<1>6. tr[k + 1] \in AuditState /\ Follows(View, tr[k + 1], journal, cache, recorded)
    BY <1>1, <1>4, <1>5 DEF Trace
<1>7. ASSUME mode' = "replay", UNCHANGED <<journal, cache, recorded>>,
             ReplayTypes', View' = tr[k + 1]
      PROVE  AuditInv'
  <2>1. where' \in Places
    BY <1>7 DEF ReplayTypes
  <2>2. AnswerKept'
    BY <2>1 DEF AnswerKept, Places
  <2>3. Known' = Known
    BY <1>5, <1>7 DEF Known
  <2>4. Trace(tr, n, journal', cache', Known')
    BY <1>1, <1>7, <2>3
  <2>5. TraceInv'
    BY <1>1, <1>4, <1>7, <2>4 DEF TraceInv
  <2> QED
    BY <1>7, <2>2, <2>5 DEF AuditInv
<1> QED
    BY <1>6, <1>7

\* What an attempt of the audit ends with is what the record says.
LEMMA ReplayEnds ==
    ASSUME mode = "replay", NEW outcome, NEW now, NEW n, NEW t,
           Conclude(outcome, now), Ends(View, t, outcome, now, n, recorded),
           recorded \in Seq(Entry), history \in Seq(Entry), mode' = "replay", next' = n
    PROVE  where' = "idle" /\ mismatch' = FALSE /\ history' \in Seq(Entry) /\ View' = t
<1>1. View.history = history
    BY DEF View, Stand
<1> DEFINE e == [outcome |-> outcome, seen |-> now]
<1>2. recorded[Len(history) + 1] = e /\ t = Idle(Append(history, e), n)
      /\ Len(history) < Len(recorded) /\ Len(history) \in Nat /\ Len(recorded) \in Nat
    BY <1>1 DEF Ends
<1>3. where' = "idle" /\ history' = Append(history, e) /\ mismatch' = FALSE
    BY <1>2 DEF Conclude
<1>4. e \in Entry
  <2>1. Len(history) + 1 \in 1 .. Len(recorded)
    BY <1>2
  <2> QED
    BY <1>2, <2>1
<1> HIDE DEF e
<1>5. View' = Idle(history', n)
    BY <1>3 DEF View, Idle, Position, Calls
<1> QED
    BY <1>2, <1>3, <1>4, <1>5

\* What the audit may be at, seen from where it is.
LEMMA ViewInReplay ==
    ASSUME AuditInv, mode = "replay"
    PROVE  /\ View.at = where /\ View.history = history /\ View.next = next
           /\ where \in {"loop", "call", "reply"} => View.talk = talk /\ View.seen = seen
           /\ where \in {"call", "reply"} => View.final = final /\ Asks(View) = Prompt
           /\ where = "reply" => View.text = text
<1>1. where \in Places
    BY DEF AuditInv, ReplayTypes
<1> QED
    BY <1>1, AsksPrompt DEF View, Stand, Position, Calls, Places

LEMMA BeginReplay ==
    ASSUME AuditInv, mode = "replay", BeginAttempt
    PROVE  AuditInv'
<1>1. /\ where = "idle" /\ Len(history) < Attempts
      /\ where' = "loop" /\ talk' = <<>> /\ seen' = <<>>
      /\ UNCHANGED <<mode, cache, journal, history, final, text, recorded, next, mismatch>>
    BY DEF BeginAttempt, audit
<1>2. PICK t \in AuditState :
               /\ Follows(View, t, journal, cache, recorded)
               /\ /\ mode' = "replay" /\ UNCHANGED <<journal, cache, recorded>>
                  /\ ReplayTypes' /\ View' = t
                  => AuditInv'
    BY <1>1, ReplayAhead
<1>3. Begins(View, t)
    BY <1>1, <1>2, ViewInReplay
       DEF Follows, Looks, ReadsReply, FailsAgain, RefusedAgain, AnswersAgain, Asked
<1>4. t = Stand("loop", history, next, <<>>, <<>>, FALSE, "act")
    BY <1>3, ViewInReplay DEF Begins
<1>5. View' = t
    BY <1>1, <1>4 DEF View, Stand, Position, Calls
<1>6. ReplayTypes'
    BY <1>1 DEF AuditInv, ReplayTypes, Places, Calls
<1> QED
    BY <1>1, <1>2, <1>5, <1>6

LEMMA LookReplay ==
    ASSUME AuditInv, mode = "replay", Look
    PROVE  AuditInv'
<1>1. PICK i \in 1 .. 3 : Look!(i)
    BY Readings DEF Look
<1>2. /\ where = "loop" /\ seen' = Append(seen, i)
      /\ i = recorded[Len(history) + 1].seen[Len(seen) + 1]
      /\ UNCHANGED <<mode, cache, journal, talk, text, recorded, next>>
    BY <1>1 DEF Clock
<1>3. PICK t \in AuditState :
               /\ Follows(View, t, journal, cache, recorded)
               /\ /\ mode' = "replay" /\ UNCHANGED <<journal, cache, recorded>>
                  /\ ReplayTypes' /\ View' = t
                  => AuditInv'
    BY <1>2, ReplayAhead
<1>4. View.at = "loop" /\ View.history = history /\ View.next = next
      /\ View.talk = talk /\ View.seen = seen
    BY <1>2, ViewInReplay
<1>5. PICK k \in 1 .. 3 : Looks(View, t, k, recorded)
    BY <1>3, <1>4
       DEF Follows, Begins, ReadsReply, FailsAgain, RefusedAgain, AnswersAgain, Asked
<1>6. k = i
    BY <1>2, <1>4, <1>5 DEF Looks, Reads
<1>7. recorded \in Seq(Entry) /\ history \in Seq(Entry) /\ seen' \in Seq(1 .. 3)
    BY <1>2 DEF AuditInv, ReplayTypes
<1>8. CASE i = 3
  <2>1. Conclude("timeout", seen') /\ final' \in BOOLEAN
    BY <1>1, <1>8, Readings
  <2>2. Ends(View, t, "timeout", seen', next, recorded)
    BY <1>2, <1>4, <1>5, <1>6, <1>8 DEF Looks
  <2>3. where' = "idle" /\ mismatch' = FALSE /\ history' \in Seq(Entry) /\ View' = t
    BY <1>2, <1>7, <2>1, <2>2, ReplayEnds
  <2>4. ReplayTypes'
    BY <1>2, <1>7, <2>1, <2>3 DEF AuditInv, ReplayTypes, Places
  <2> QED
    BY <1>2, <1>3, <2>3, <2>4
<1>9. CASE i # 3
  <2>1. where' = "call" /\ UNCHANGED <<history, mismatch>>
        /\ final' = (i = 2 \/ Len(talk) = MaxSteps - 1)
    BY <1>1, <1>9, Readings
  <2>2. t = Stand("call", history, next, talk, Append(seen, i), final', "act")
    BY <1>4, <1>5, <1>6, <1>9, <2>1 DEF Looks
  <2>3. View' = t
    <3>1. where' = "call" /\ history' = history /\ seen' = Append(seen, i)
          /\ talk' = talk /\ next' = next /\ mode' = "replay"
      BY <1>2, <2>1
    <3> QED
      BY <2>2, <3>1 DEF View, Stand, Position, Calls
  <2>4. ReplayTypes'
    BY <1>2, <1>7, <2>1 DEF AuditInv, ReplayTypes, Places
  <2> QED
    BY <1>2, <1>3, <2>3, <2>4
<1> QED
    BY <1>8, <1>9

LEMMA ReadReplay ==
    ASSUME AuditInv, mode = "replay", Read
    PROVE  AuditInv'
<1>1. PICK i \in 1 .. 3 : Read!(i)
    BY Readings DEF Read
<1>2. /\ where = "reply" /\ seen' = Append(seen, i)
      /\ i = recorded[Len(history) + 1].seen[Len(seen) + 1]
      /\ UNCHANGED <<mode, cache, journal, final, text, recorded, next>>
    BY <1>1 DEF Clock
<1>3. PICK t \in AuditState :
               /\ Follows(View, t, journal, cache, recorded)
               /\ /\ mode' = "replay" /\ UNCHANGED <<journal, cache, recorded>>
                  /\ ReplayTypes' /\ View' = t
                  => AuditInv'
    BY <1>2, ReplayAhead
<1>4. View.at = "reply" /\ View.history = history /\ View.next = next
      /\ View.talk = talk /\ View.seen = seen /\ View.text = text /\ View.final = final
    BY <1>2, ViewInReplay
<1>5. PICK k \in 1 .. 3 : ReadsReply(View, t, k, recorded)
    BY <1>3, <1>4
       DEF Follows, Begins, Looks, FailsAgain, RefusedAgain, AnswersAgain, Asked
<1>6. k = i
    BY <1>2, <1>4, <1>5 DEF ReadsReply, Reads
<1>7. recorded \in Seq(Entry) /\ history \in Seq(Entry) /\ seen' \in Seq(1 .. 3)
    BY <1>2 DEF AuditInv, ReplayTypes
<1>8. ASSUME NEW outcome, Conclude(outcome, seen'), talk' = talk,
             Ends(View, t, outcome, seen', next, recorded)
      PROVE  AuditInv'
  <2>1. where' = "idle" /\ mismatch' = FALSE /\ history' \in Seq(Entry) /\ View' = t
    BY <1>2, <1>7, <1>8, ReplayEnds
  <2>2. ReplayTypes'
    BY <1>2, <1>7, <1>8, <2>1 DEF AuditInv, ReplayTypes, Places
  <2> QED
    BY <1>2, <1>3, <2>1, <2>2
<1>9. CASE i = 3
  <2>1. Conclude("timeout", seen') /\ talk' = talk
    BY <1>1, <1>9, Readings
  <2>2. Ends(View, t, "timeout", seen', next, recorded)
    BY <1>2, <1>4, <1>5, <1>6, <1>9 DEF ReadsReply
  <2> QED
    BY <1>8, <2>1, <2>2
<1>10. CASE i # 3 /\ text = "act"
  <2>1. Conclude("decision_produced", seen') /\ talk' = talk
    BY <1>1, <1>10, Readings
  <2>2. Ends(View, t, "decision_produced", seen', next, recorded)
    BY <1>2, <1>4, <1>5, <1>6, <1>10 DEF ReadsReply
  <2> QED
    BY <1>8, <2>1, <2>2
<1>11. CASE i # 3 /\ text # "act" /\ final
  <2>1. Conclude("tool_budget_exhausted", seen') /\ talk' = talk
    BY <1>1, <1>11, Readings
  <2>2. Ends(View, t, "tool_budget_exhausted", seen', next, recorded)
    BY <1>2, <1>4, <1>5, <1>6, <1>11 DEF ReadsReply
  <2> QED
    BY <1>8, <2>1, <2>2
<1>12. CASE i # 3 /\ text # "act" /\ ~final
  <2>1. where' = "loop" /\ talk' = Append(talk, text) /\ UNCHANGED <<history, mismatch>>
    BY <1>1, <1>12, Readings
  <2>2. t = Stand("loop", history, next, Append(talk, text), Append(seen, i), FALSE, "act")
    BY <1>4, <1>5, <1>6, <1>12 DEF ReadsReply
  <2>3. View' = t
    <3>1. where' = "loop" /\ history' = history /\ seen' = Append(seen, i)
          /\ talk' = Append(talk, text) /\ next' = next /\ mode' = "replay"
      BY <1>2, <2>1
    <3> QED
      BY <2>2, <3>1 DEF View, Stand, Position, Calls
  <2>4. ReplayTypes'
    BY <1>2, <1>7, <2>1 DEF AuditInv, ReplayTypes, Places
  <2> QED
    BY <1>2, <1>3, <2>3, <2>4
<1> QED
    BY <1>9, <1>10, <1>11, <1>12

LEMMA CallReplay ==
    ASSUME AuditInv, ReplayCall
    PROVE  AuditInv'
<1>1. /\ mode = "replay" /\ where = "call" /\ mismatch = FALSE
      /\ UNCHANGED <<mode, cache, journal, talk, seen, final, recorded>>
    BY DEF ReplayCall, AuditInv, ReplayTypes
<1>2. PICK t \in AuditState :
               /\ Follows(View, t, journal, cache, recorded)
               /\ /\ mode' = "replay" /\ UNCHANGED <<journal, cache, recorded>>
                  /\ ReplayTypes' /\ View' = t
                  => AuditInv'
    BY <1>1, ReplayAhead
<1>3. View.at = "call" /\ View.history = history /\ View.next = next
      /\ View.talk = talk /\ View.seen = seen /\ View.final = final /\ Asks(View) = Prompt
    BY <1>1, ViewInReplay
<1>4. \/ FailsAgain(View, t, journal, recorded)
      \/ RefusedAgain(View, t, journal, recorded)
      \/ AnswersAgain(View, t, journal, cache, recorded)
    BY <1>2, <1>3 DEF Follows, Begins, Looks, ReadsReply
<1>5. Asked(View, journal)
    BY <1>4 DEF FailsAgain, RefusedAgain, AnswersAgain
<1>6. next \in Nat \ {0} /\ next <= Len(journal) /\ Row.key = Prompt /\ Row = journal[next]
      /\ Len(journal) \in Nat
    BY <1>3, <1>5 DEF Asked, Row, AuditInv, ReplayTypes
<1>7. \/ /\ Row.event = "provider_error"
         /\ next' = next + 1
         /\ Conclude(Row.what, seen) /\ text' = text
      \/ /\ Row.event = "budget_error"
         /\ next' = next + 1
         /\ Conclude("provider_budget_exhausted", seen) /\ text' = text
      \/ /\ Row.event = "response"
         /\ IF Prompt \notin DOMAIN cache \/ cache[Prompt] # Row.what THEN Raise
            ELSE IF ~Followed
            THEN /\ next' = next + 1 /\ where' = "reply" /\ text' = cache[Prompt]
                 /\ UNCHANGED <<history, mismatch>>
            ELSE IF journal[next + 1].key # Prompt THEN Raise
            ELSE /\ next' = next + 2
                 /\ Conclude("provider_budget_exhausted", seen) /\ text' = text
    BY <1>6 DEF ReplayCall
<1>8. recorded \in Seq(Entry) /\ history \in Seq(Entry)
    BY DEF AuditInv, ReplayTypes
<1>9. ASSUME NEW outcome, NEW n \in Nat \ {0}, Conclude(outcome, seen), text' = text,
             next' = n, Ends(View, t, outcome, seen, n, recorded)
      PROVE  AuditInv'
  <2>1. where' = "idle" /\ mismatch' = FALSE /\ history' \in Seq(Entry) /\ View' = t
    BY <1>1, <1>8, <1>9, ReplayEnds
  <2>2. ReplayTypes'
    BY <1>1, <1>9, <2>1 DEF AuditInv, ReplayTypes, Places
  <2> QED
    BY <1>1, <1>2, <2>1, <2>2
<1>10. CASE Row.event = "provider_error"
  <2>1. next' = next + 1 /\ Conclude(Row.what, seen) /\ text' = text
    BY <1>7, <1>10
  <2>2. Ends(View, t, Row.what, seen, next + 1, recorded)
    BY <1>3, <1>4, <1>6, <1>10 DEF FailsAgain, RefusedAgain, AnswersAgain
  <2> QED
    BY <1>6, <1>9, <2>1, <2>2
<1>11. CASE Row.event = "budget_error"
  <2>1. next' = next + 1 /\ Conclude("provider_budget_exhausted", seen) /\ text' = text
    BY <1>7, <1>11
  <2>2. Ends(View, t, "provider_budget_exhausted", seen, next + 1, recorded)
    BY <1>3, <1>4, <1>6, <1>11 DEF FailsAgain, RefusedAgain, AnswersAgain
  <2> QED
    BY <1>6, <1>9, <2>1, <2>2
<1>12. CASE Row.event = "response"
  <2>1. AnswersAgain(View, t, journal, cache, recorded)
    BY <1>3, <1>4, <1>6, <1>12 DEF FailsAgain, RefusedAgain
  <2>2. Prompt \in DOMAIN cache /\ cache[Prompt] = Row.what
    BY <1>3, <1>6, <2>1 DEF AnswersAgain
  <2>3. FollowedAt(next, journal) <=> Followed
    BY DEF FollowedAt, Followed
  <2>4. CASE Followed
    <3>1. journal[next + 1].key = Prompt
          /\ Ends(View, t, "provider_budget_exhausted", seen, next + 2, recorded)
      BY <1>3, <2>1, <2>3, <2>4 DEF AnswersAgain
    <3>2. next' = next + 2 /\ Conclude("provider_budget_exhausted", seen) /\ text' = text
      BY <1>7, <1>12, <2>2, <2>4, <3>1
    <3> QED
      BY <1>6, <1>9, <3>1, <3>2
  <2>5. CASE ~Followed
    <3>1. t = Stand("reply", history, next + 1, talk, seen, final, cache[Prompt])
      BY <1>3, <2>1, <2>3, <2>5 DEF AnswersAgain
    <3>2. next' = next + 1 /\ where' = "reply" /\ text' = cache[Prompt]
          /\ UNCHANGED <<history, mismatch>>
      BY <1>7, <1>12, <2>2, <2>5
    <3>3. View' = t
      BY <1>1, <3>1, <3>2 DEF View, Stand, Position, Calls
    <3>4. ReplayTypes'
      BY <1>1, <1>6, <2>2, <3>2 DEF AuditInv, ReplayTypes, Places
    <3> QED
      BY <1>1, <1>2, <3>3, <3>4
  <2> QED
    BY <2>4, <2>5
<1> QED
    BY <1>7, <1>10, <1>11, <1>12

LEMMA AuditStep == AuditInv /\ [ReplayNext]_replayVars => AuditInv'
<1> SUFFICES ASSUME AuditInv, [ReplayNext]_replayVars
             PROVE  AuditInv'
    OBVIOUS
<1>1. mode = "live" \/ mode = "replay"
    BY DEF AuditInv, ReplayTypes
<1>2. CASE BeginAttempt
    BY <1>1, <1>2, BeginLive, BeginReplay
<1>3. CASE Look
    BY <1>1, <1>3, LookLive, LookReplay
<1>4. CASE Read
    BY <1>1, <1>4, ReadLive, ReadReplay
<1>5. CASE CacheHit \/ CallRefused \/ Submit \/ RequestFails
    BY <1>5, CacheHitLive, CallRefusedLive, SubmitLive, RequestFailsLive
<1>6. CASE Answer \/ LogAnswer \/ TokensCharged \/ ChargeOverrun
    BY <1>6, AnswerLive, LogAnswerLive, ChargedLive, OverrunLive
<1>7. CASE KillEpisode \/ StartReplay \/ ReplayCall
    BY <1>7, KillLive, StartsReplay, CallReplay
<1>8. CASE UNCHANGED replayVars
  <2>1. UNCHANGED <<mode, where, cache, journal, history, talk, seen, final, text,
                    recorded, next, mismatch>>
    BY <1>8 DEF replayVars, attempt, audit
  <2>2. ReplayTypes' /\ AnswerKept'
    BY <2>1 DEF AuditInv, ReplayTypes, AnswerKept, Prompt, Response
  <2>3. View' = View /\ Known' = Known
    BY <2>1 DEF View, Known, Position, Stand
  <2>4. TraceInv'
    BY <2>1, <2>3 DEF AuditInv, TraceInv
  <2> QED
    BY <2>2, <2>4 DEF AuditInv
<1> QED
    BY <1>2, <1>3, <1>4, <1>5, <1>6, <1>7, <1>8 DEF ReplayNext

LEMMA AuditIsExact == AuditInv => ReplayReproduces
<1> SUFFICES ASSUME AuditInv
             PROVE  ReplayReproduces
    OBVIOUS
<1>1. mismatch = FALSE
    BY DEF AuditInv, ReplayTypes
<1>2. ASSUME mode = "replay", where \in {"loop", "reply"}
      PROVE  Len(seen) < Len(recorded[Len(history) + 1].seen)
  <2>1. PICK t \in AuditState : Follows(View, t, journal, cache, recorded)
    BY <1>2, ReplayAhead
  <2>2. View.at = where /\ View.history = history /\ View.seen = seen
    BY <1>2, ViewInReplay
  <2>3. \E i \in 1 .. 3 : Reads(View, i, recorded)
    BY <1>2, <2>1, <2>2
       DEF Follows, Begins, Looks, ReadsReply, FailsAgain, RefusedAgain, AnswersAgain, Asked
  <2> QED
    BY <2>2, <2>3 DEF Reads
<1>3. ASSUME mode = "replay", where = "idle", Len(history) = Attempts
      PROVE  history = recorded /\ next = Len(journal) + 1
  <2>1. PICK tr, n, k : /\ Trace(tr, n, journal, cache, Known)
                        /\ k \in 0 .. n /\ tr[k] = View
                        /\ tr[n] = Idle(recorded, Len(journal) + 1)
    BY <1>3 DEF AuditInv, TraceInv
  <2>2. View.at = "idle" /\ View.history = history /\ View.next = next
    BY <1>3, ViewInReplay
  <2>3. k = n
    <3> SUFFICES ASSUME k \in 0 .. n - 1
                 PROVE  FALSE
      BY <2>1 DEF Trace
    <3>1. Begins(View, tr[k + 1])
      BY <2>1, <2>2
         DEF Trace, Follows, Looks, ReadsReply, FailsAgain, RefusedAgain, AnswersAgain, Asked
    <3>2. Len(history) < Attempts /\ Len(history) \in Nat
      BY <2>2, <3>1 DEF Begins, AuditInv, ReplayTypes
    <3> QED
      BY <1>3, <3>2
  <2> QED
    BY <2>1, <2>2, <2>3 DEF Idle, Stand
<1> QED
    BY <1>1, <1>2, <1>3 DEF ReplayReproduces, Over

\* The audit of an episode reproduces it, whatever went wrong in the episode.
THEOREM AuditReproduces == ReplaySpec => []ReplayReproduces
BY AuditInit, AuditStep, AuditIsExact, PTL DEF ReplaySpec
=============================================================================
