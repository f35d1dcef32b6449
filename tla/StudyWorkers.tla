---------------------------- MODULE StudyWorkers ----------------------------
(***************************************************************************)
(* The worker processes of scripts/llm_descriptive_study.py and the files  *)
(* of the study they share: a lock and a configuration per worker index,   *)
(* the allocation manifest, the ledger, and a shard per episode.  A worker *)
(* may be killed between any two writes; whoever starts it again removes   *)
(* the lock it left, and may start it with other arguments.                *)
(*                                                                         *)
(* The episodes themselves, and the calls the ledger grants them, are the  *)
(* other modules' matter: here the ledger exists or not, and at some time  *)
(* grants no more.                                                         *)
(***************************************************************************)
EXTENDS Naturals

CONSTANTS
    Proc,        \* process slots: how many processes may live at once
    MaxWorkers,  \* --workers is at most this
    Seeds,       \* seeds 0 .. Seeds - 1
    Arm,
    Experiment,  \* experiment hashes: code, prompt, model, limits
    Legacy,      \* the hash of shards from before there was a ledger
    Dirs,        \* --workdir and --cache-dir, part of a worker's configuration
    Absent, Torn \* a file that is not there; one created and not yet written

ASSUME StudyAssumption ==
    /\ MaxWorkers \in Nat \ {0} /\ Seeds \in Nat
    /\ Legacy \notin Experiment
    /\ Absent # Torn

Worker == 0 .. MaxWorkers - 1
Episode == (0 .. Seeds - 1) \X Arm
Allocation == [workers : 1 .. MaxWorkers, exp : Experiment]
\* A shard is starved if the ledger refused a call of its episode, which then
\* went on with no-ops.
Shard == [exp : Experiment \cup {Legacy}, starved : BOOLEAN]
Config == [exp : Experiment, dirs : Dirs]
Args == [worker : Worker, workers : 1 .. MaxWorkers, exp : Experiment, dirs : Dirs,
         replay : BOOLEAN]  \* --cache-only

\* No value of a file is one of these.
ASSUME FilesAssumption ==
    /\ Absent \notin Allocation \cup Config \cup Shard \cup Args \cup Episode
    /\ Torn \notin Allocation \cup Config

VARIABLES
    lock,      \* the worker indices with a lock file
    manifest,  \* _allocation.json
    config,    \* _config_w<i>.json
    ledger,    \* _budget.json: "absent", "granting" or "closed"
    shards,    \* the shard of each episode
    at, args,  \* where each process is, and its arguments
    episode    \* the episode it runs

files == <<lock, manifest, config, ledger, shards>>
vars == <<files, at, args, episode>>

Place == {"none", "locked", "creating", "allocated", "budgeted", "configuring",
          "running", "episode", "stopping"}

TypeOK ==
    /\ lock \subseteq Worker
    /\ manifest \in Allocation \cup {Absent, Torn}
    /\ config \in [Worker -> Config \cup {Absent, Torn}]
    /\ ledger \in {"absent", "granting", "closed"}
    /\ shards \in [Episode -> Shard \cup {Absent}]
    /\ at \in [Proc -> Place]
    /\ args \in [Proc -> Args \cup {Absent}]
    /\ episode \in [Proc -> Episode \cup {Absent}]

\* A new directory, or one with shards of a study that had no ledger.
Init ==
    /\ lock = {} /\ manifest = Absent /\ ledger = "absent"
    /\ config = [w \in Worker |-> Absent]
    /\ shards \in [Episode -> {[exp |-> Legacy, starved |-> FALSE], Absent}]
    /\ at = [p \in Proc |-> "none"]
    /\ args = [p \in Proc |-> Absent] /\ episode = [p \in Proc |-> Absent]

Live(p) == at[p] # "none"
Own(p) == {e \in Episode : e[1] % args[p].workers = args[p].worker}
Allocated(p) == [workers |-> args[p].workers, exp |-> args[p].exp]
Frozen(p) == [exp |-> args[p].exp, dirs |-> args[p].dirs]
Goto(p, q) == at' = [at EXCEPT ![p] = q] /\ UNCHANGED <<args, episode>>

\* No process p any more.
Gone(p) ==
    /\ at' = [at EXCEPT ![p] = "none"]
    /\ args' = [args EXCEPT ![p] = Absent]
    /\ episode' = [episode EXCEPT ![p] = Absent]

-----------------------------------------------------------------------------
\* A process starts and gets its lock; if there is one it ends at once.
Launch(p, a) ==
    /\ ~Live(p)
    /\ a.worker < a.workers
    /\ a.worker \notin lock
    /\ lock' = lock \cup {a.worker}
    /\ at' = [at EXCEPT ![p] = "locked"]
    /\ args' = [args EXCEPT ![p] = a]
    /\ UNCHANGED <<manifest, config, ledger, shards, episode>>

\* The process ends, by itself or on an exception, and unlinks its lock.
End(p) ==
    /\ lock' = lock \ {args[p].worker}
    /\ Gone(p)
    /\ UNCHANGED <<manifest, config, ledger, shards>>

\* It is killed: the files are as they were, the lock included.
Kill(p) == Live(p) /\ Gone(p) /\ UNCHANGED files

\* Somebody finds the lock of a process that is no more, and removes it.
RemoveStaleLock(w) ==
    /\ w \in lock
    /\ \A p \in Proc : Live(p) => args[p].worker # w
    /\ lock' = lock \ {w}
    /\ UNCHANGED <<manifest, config, ledger, shards, at, args, episode>>

-----------------------------------------------------------------------------
CreateManifest(p) ==
    /\ at[p] = "locked" /\ manifest = Absent
    /\ manifest' = Torn
    /\ Goto(p, "creating")
    /\ UNCHANGED <<lock, config, ledger, shards>>

WriteManifest(p) ==
    /\ at[p] = "creating"
    /\ manifest' = Allocated(p)
    /\ Goto(p, "allocated")
    /\ UNCHANGED <<lock, config, ledger, shards>>

\* Mutated: only the experiment is compared, not the number of workers.
SameExperiment(p) == manifest.exp = args[p].exp

\* Mutated: only the number of workers.
SameWorkers(p) == manifest.workers = args[p].workers

SameAllocation(p) == manifest = Allocated(p)

ReadManifest(p) ==
    /\ at[p] = "locked" /\ manifest \notin {Absent, Torn}
    /\ SameAllocation(p)
    /\ Goto(p, "allocated")
    /\ UNCHANGED files

AllocationDiffers(p) ==
    /\ at[p] = "locked" /\ manifest \notin {Absent, Torn}
    /\ ~SameAllocation(p)
    /\ End(p)

\* Ten readings found no allocation in it.
ManifestIncomplete(p) ==
    /\ at[p] = "locked" /\ manifest = Torn
    /\ End(p)

\* Shards without a ledger: their calls are on no account.
Unaccounted(p) ==
    ledger = "absent" /\ ~args[p].replay /\ \E e \in Own(p) : shards[e] # Absent

RefuseUnaccounted(p) ==
    /\ at[p] = "allocated" /\ Unaccounted(p)
    /\ End(p)

OpenLedger(p) ==
    /\ at[p] = "allocated" /\ ~Unaccounted(p)
    /\ ledger' = IF ledger = "absent" THEN "granting" ELSE ledger
    /\ Goto(p, "budgeted")
    /\ UNCHANGED <<lock, manifest, config, shards>>

\* A torn configuration cannot be parsed, which ends the process like one
\* that differs.
ConfigRejected(p) ==
    /\ at[p] = "budgeted" /\ config[args[p].worker] \notin {Absent, Frozen(p)}
    /\ End(p)

\* write_text truncates the file, then writes it, on every start.
TruncateConfig(p) ==
    /\ at[p] = "budgeted" /\ config[args[p].worker] \in {Absent, Frozen(p)}
    /\ config' = [config EXCEPT ![args[p].worker] = Torn]
    /\ Goto(p, "configuring")
    /\ UNCHANGED <<lock, manifest, ledger, shards>>

WriteConfig(p) ==
    /\ at[p] = "configuring"
    /\ config' = [config EXCEPT ![args[p].worker] = Frozen(p)]
    /\ Goto(p, "running")
    /\ UNCHANGED <<lock, manifest, ledger, shards>>

-----------------------------------------------------------------------------
\* Mutated: the worker does not look whether the shard exists.
PendingAll(p) == Own(p)

Pending(p) == {e \in Own(p) : shards[e] = Absent}

\* The next episode without a shard.
Begin(p, e) ==
    /\ at[p] = "running" /\ e \in Pending(p)
    /\ at' = [at EXCEPT ![p] = "episode"]
    /\ episode' = [episode EXCEPT ![p] = e]
    /\ UNCHANGED <<files, args>>

\* The ledger has granted its last call, refuses this worker an unresolved one,
\* or its circuit has opened.
Close(p) ==
    /\ at[p] = "episode" /\ ledger = "granting"
    /\ ledger' = "closed"
    /\ UNCHANGED <<lock, manifest, config, shards, at, args, episode>>

\* The shard replaces what may be there.  The worker stops after a starved
\* one, or if its last call has shown it that the circuit is open.
Record(p, starved, next) ==
    /\ at[p] = "episode"
    /\ starved => next = "stopping"
    /\ next = "stopping" => ledger = "closed"
    /\ shards' = [shards EXCEPT ![episode[p]] = [exp |-> args[p].exp, starved |-> starved]]
    /\ at' = [at EXCEPT ![p] = next]
    /\ episode' = [episode EXCEPT ![p] = Absent]
    /\ UNCHANGED <<lock, manifest, config, ledger, args>>

\* run_single raises, as in a cache-only run that misses.
EpisodeRaises(p) == at[p] = "episode" /\ End(p)

Finish(p) ==
    /\ at[p] = "stopping" \/ (at[p] = "running" /\ Pending(p) = {})
    /\ End(p)

-----------------------------------------------------------------------------
Step(p) ==
    \/ CreateManifest(p) \/ WriteManifest(p) \/ ReadManifest(p)
    \/ AllocationDiffers(p) \/ ManifestIncomplete(p)
    \/ RefuseUnaccounted(p) \/ OpenLedger(p)
    \/ ConfigRejected(p) \/ TruncateConfig(p) \/ WriteConfig(p)
    \/ \E e \in Episode : Begin(p, e)
    \/ Close(p)
    \/ \E starved \in BOOLEAN, next \in {"running", "stopping"} : Record(p, starved, next)
    \/ EpisodeRaises(p) \/ Finish(p)

Next ==
    \/ \E p \in Proc : Step(p) \/ Kill(p) \/ \E a \in Args : Launch(p, a)
    \/ \E w \in Worker : RemoveStaleLock(w)

Spec == Init /\ [][Next]_vars

-----------------------------------------------------------------------------
\* No two processes run the same episode at once, however the study has been
\* started, killed and started again, with whatever number of workers.
OneWorkerPerEpisode ==
    \A p, q \in Proc :
        at[p] = "episode" /\ at[q] = "episode" /\ p # q => episode[p] # episode[q]

\* All shards that this code wrote come from the one experiment and partition
\* that the manifest records, and there is a ledger with their calls.
OneExperiment ==
    \A e \in Episode : shards[e] # Absent /\ shards[e].exp # Legacy =>
        /\ manifest \notin {Absent, Torn} /\ manifest.exp = shards[e].exp
        /\ ledger # "absent"

\* "Existing completed shards are immutable", over crashes and resumes.
ShardsImmutable ==
    [][\A e \in Episode : shards[e] # Absent => shards'[e] = shards[e]]_vars

\* "Checkpoint so a crashed run resumes": when no process is at work a worker
\* started again finds a manifest and a configuration it can read, or none.
CrashedRunResumes ==
    (\A p \in Proc : ~Live(p)) =>
        manifest # Torn /\ \A w \in Worker : config[w] # Torn
=============================================================================
