-------------------------------- MODULE Sweep --------------------------------
(***************************************************************************)
(* run_sweep of experiment/runner.py: processes that work through the runs *)
(* of an experiment, append what they find to two logs, and buy answers    *)
(* from a provider through a cache file they share.  A process may be      *)
(* killed at any moment and be started again; it then reads the summaries  *)
(* to know which runs are complete.                                        *)
(*                                                                         *)
(* ResponseCache.put writes the instance's own view to cache.json.tmp and  *)
(* renames it.  The temporary file has one name for all instances: a file  *)
(* is therefore an inode, which a process may go on writing to after       *)
(* another has renamed it.                                                 *)
(***************************************************************************)
EXTENDS Integers, Sequences, FiniteSets

CONSTANTS
    Proc,
    RunOrder,   \* expand_runs: the runs in the order of the sweep
    Mine,       \* [Proc -> SUBSET Run]: the arms, seeds and levels asked for
    Prompts,    \* [Run -> Seq(Key)]: the prompt of each decision of a run
    MaxCalls,   \* llm.max_calls
    MaxCrashes, \* bound on the kills
    Torn,       \* the line a log ends with whose writer was killed
    Garbled,    \* such a line with the next one behind it: no JSON either
    NoFile

Run == {RunOrder[i] : i \in 1 .. Len(RunOrder)}
Key == UNION {{Prompts[r][i] : i \in 1 .. Len(Prompts[r])} : r \in Run}
Inode == 1 .. Cardinality(Proc) + 2
Record == [run : Run, index : Nat]

\* No seed and no level is listed twice, and each process has runs of its own.
ASSUME SweepAssumption ==
    /\ IsFiniteSet(Proc)
    /\ RunOrder \in Seq(Run) /\ Prompts \in [Run -> Seq(Key)]
    /\ \A i, j \in 1 .. Len(RunOrder) : RunOrder[i] = RunOrder[j] => i = j
    /\ Mine \in [Proc -> SUBSET Run]
    /\ \A p, q \in Proc : p # q => Mine[p] \cap Mine[q] = {}
    /\ MaxCalls \in Nat /\ MaxCrashes \in Nat
    /\ {Torn, Garbled} \cap (Run \cup Record) = {} /\ Torn # Garbled
    /\ NoFile \notin Inode

VARIABLES
    summaries, proposals,  \* the lines of summaries.jsonl and proposals.jsonl
    inode,      \* what is in each file: the entries, and whether it is whole
    cache, tmp, \* the inodes named cache.json and cache.json.tmp
    pc,         \* where a process is; "off" before it starts and after it ends
    completed,  \* the keys it read from the summaries
    view,       \* ResponseCache._data
    calls,      \* BudgetGuard.calls, which starts from zero with the process
    at,         \* the position in RunOrder of its run
    decided,    \* the decisions made in the run
    logged,     \* its proposals already appended
    handle,     \* the inode it is writing
    crashes,
    paid,       \* history: the calls bought for each prompt
    unsaved,    \* history: kills between an answer and its place in the cache
    overlapped, \* history: two processes were running at the same time
    raced       \* history: two had the temporary file open at the same time

logs == <<summaries, proposals>>
files == <<inode, cache, tmp>>
locals == <<completed, view, calls, at, decided, logged, handle>>
ghosts == <<crashes, paid, unsaved, overlapped, raced>>
vars == <<logs, files, pc, locals, ghosts>>

Lines(s) == {s[i] : i \in 1 .. Len(s)}
TornEnd(s) == s # <<>> /\ s[Len(s)] = Torn

\* append_jsonl: the line goes behind what a kill has left of the one before it.
Appended(s, line) ==
    IF TornEnd(s) THEN [s EXCEPT ![Len(s)] = IF line = Torn THEN Torn ELSE Garbled]
    ELSE Append(s, line)

Current(p) == RunOrder[at[p]]
Writing(p) == pc[p] \in {"fill", "replace"}
Unwritten == [data |-> {}, whole |-> FALSE]

Init ==
    /\ summaries = <<>> /\ proposals = <<>>
    /\ inode = [n \in Inode |-> Unwritten] /\ cache = NoFile /\ tmp = NoFile
    /\ pc = [p \in Proc |-> "off"]
    /\ completed = [p \in Proc |-> {}] /\ view = [p \in Proc |-> {}]
    /\ calls = [p \in Proc |-> 0] /\ at = [p \in Proc |-> 0]
    /\ decided = [p \in Proc |-> 0] /\ logged = [p \in Proc |-> 0]
    /\ handle = [p \in Proc |-> NoFile]
    /\ crashes = 0 /\ paid = [k \in Key |-> 0] /\ unsaved = 0
    /\ overlapped = FALSE /\ raced = FALSE

-----------------------------------------------------------------------------
\* A line that is no JSON ends run_sweep, and so does a cache file that is not.
Readable == {Torn, Garbled} \cap Lines(summaries) = {} /\ (cache # NoFile => inode[cache].whole)

\* What a new ResponseCache reads.
Loaded == IF cache = NoFile THEN {} ELSE inode[cache].data

\* Mutated: the cache begins empty.
StartCold(p) ==
    /\ pc[p] = "off" /\ Readable /\ ~(Mine[p] \subseteq Lines(summaries))
    /\ pc' = [pc EXCEPT ![p] = "next"]
    /\ completed' = [completed EXCEPT ![p] = Lines(summaries)]
    /\ overlapped' = (overlapped \/ \E q \in Proc : pc[q] # "off")
    /\ UNCHANGED <<logs, files, view, calls, at, decided, logged, handle, crashes,
                   paid, unsaved, raced>>

\* Not started for nothing: some run of its own is still to do.
Start(p) ==
    /\ pc[p] = "off" /\ Readable /\ ~(Mine[p] \subseteq Lines(summaries))
    /\ pc' = [pc EXCEPT ![p] = "next"]
    /\ completed' = [completed EXCEPT ![p] = Lines(summaries)]
    /\ view' = [view EXCEPT ![p] = Loaded]
    /\ overlapped' = (overlapped \/ \E q \in Proc : pc[q] # "off")
    /\ UNCHANGED <<logs, files, calls, at, decided, logged, handle, crashes, paid,
                   unsaved, raced>>

\* The locals of a process that has ended are gone.
Ended(p) ==
    /\ pc' = [pc EXCEPT ![p] = "off"]
    /\ completed' = [completed EXCEPT ![p] = {}] /\ view' = [view EXCEPT ![p] = {}]
    /\ calls' = [calls EXCEPT ![p] = 0] /\ at' = [at EXCEPT ![p] = 0]
    /\ decided' = [decided EXCEPT ![p] = 0] /\ logged' = [logged EXCEPT ![p] = 0]
    /\ handle' = [handle EXCEPT ![p] = NoFile]

\* Mutated: as many runs are skipped as there are summaries.
ToDoByCount(p) == {i \in at[p] + 1 .. Len(RunOrder) :
    RunOrder[i] \in Mine[p] /\ i > Cardinality(completed[p])}

ToDo(p) == {i \in at[p] + 1 .. Len(RunOrder) : RunOrder[i] \in Mine[p] \ completed[p]}

\* Mutated: a run that was killed goes on behind the records its log has of it.
NextRunResumes(p) ==
    /\ pc[p] = "next" /\ ToDo(p) # {}
    /\ LET i == CHOOSE j \in ToDo(p) : \A k \in ToDo(p) : j <= k
           left == {l \in 1 .. Len(proposals) :
                       proposals[l] \in Record /\ proposals[l].run = RunOrder[i]}
       IN  at' = [at EXCEPT ![p] = i] /\ logged' = [logged EXCEPT ![p] = Cardinality(left)]
    /\ decided' = [decided EXCEPT ![p] = 0]
    /\ pc' = [pc EXCEPT ![p] = "decide"]
    /\ UNCHANGED <<logs, files, completed, view, calls, handle, ghosts>>

NextRun(p) ==
    /\ pc[p] = "next" /\ ToDo(p) # {}
    /\ at' = [at EXCEPT ![p] = CHOOSE i \in ToDo(p) : \A j \in ToDo(p) : i <= j]
    /\ decided' = [decided EXCEPT ![p] = 0] /\ logged' = [logged EXCEPT ![p] = 0]
    /\ pc' = [pc EXCEPT ![p] = "decide"]
    /\ UNCHANGED <<logs, files, completed, view, calls, handle, ghosts>>

Finish(p) ==
    /\ pc[p] = "next" /\ ToDo(p) = {}
    /\ Ended(p)
    /\ UNCHANGED <<logs, files, ghosts>>

-----------------------------------------------------------------------------
Prompt(p) == Prompts[Current(p)][decided[p] + 1]
More(p) == decided[p] < Len(Prompts[Current(p)])

Decide(p) == decided' = [decided EXCEPT ![p] = @ + 1]

\* The prompt is in the cache; or the call ceiling of this process is reached
\* and the agent falls back to a no-op.
DecideFree(p) ==
    /\ pc[p] = "decide" /\ More(p)
    /\ Prompt(p) \in view[p] \/ calls[p] >= MaxCalls
    /\ Decide(p)
    /\ UNCHANGED <<logs, files, pc, completed, view, calls, at, logged, handle, ghosts>>

Free == CHOOSE n \in Inode : n # cache /\ n # tmp /\ \A p \in Proc : handle[p] # n

\* Mutated: put writes the cache file itself.
BuyInPlace(p) ==
    /\ pc[p] = "decide" /\ More(p)
    /\ Prompt(p) \notin view[p] /\ calls[p] < MaxCalls
    /\ calls' = [calls EXCEPT ![p] = @ + 1]
    /\ paid' = [paid EXCEPT ![Prompt(p)] = @ + 1]
    /\ view' = [view EXCEPT ![p] = @ \cup {Prompt(p)}]
    /\ LET n == IF cache = NoFile THEN Free ELSE cache
       IN  /\ inode' = [inode EXCEPT ![n] = Unwritten]
           /\ handle' = [handle EXCEPT ![p] = n] /\ tmp' = n /\ cache' = n
    /\ raced' = (raced \/ \E q \in Proc \ {p} : Writing(q))
    /\ pc' = [pc EXCEPT ![p] = "fill"]
    /\ UNCHANGED <<logs, completed, at, decided, logged, crashes, unsaved, overlapped>>

\* The answer is bought and put opens the temporary file, emptying it.
Buy(p) ==
    /\ pc[p] = "decide" /\ More(p)
    /\ Prompt(p) \notin view[p] /\ calls[p] < MaxCalls
    /\ calls' = [calls EXCEPT ![p] = @ + 1]
    /\ paid' = [paid EXCEPT ![Prompt(p)] = @ + 1]
    /\ view' = [view EXCEPT ![p] = @ \cup {Prompt(p)}]
    /\ LET n == IF tmp = NoFile THEN Free ELSE tmp
       IN  /\ inode' = [inode EXCEPT ![n] = Unwritten]
           /\ handle' = [handle EXCEPT ![p] = n] /\ tmp' = n
    /\ raced' = (raced \/ \E q \in Proc \ {p} : Writing(q))
    /\ pc' = [pc EXCEPT ![p] = "fill"]
    /\ UNCHANGED <<logs, cache, completed, at, decided, logged, crashes, unsaved, overlapped>>

\* What was written there since it was opened may stick out behind.
Fill(p) ==
    /\ pc[p] = "fill"
    /\ LET n == handle[p]
       IN  \E whole \in {TRUE} \cup {inode[n].data \subseteq view[p]} :
               inode' = [inode EXCEPT ![n] = [data |-> view[p], whole |-> whole]]
    /\ pc' = [pc EXCEPT ![p] = "replace"]
    /\ UNCHANGED <<logs, cache, tmp, locals, ghosts>>

\* The file that was named cache.json before is gone.
Replace(p) ==
    /\ pc[p] = "replace" /\ tmp # NoFile
    /\ cache' = tmp /\ tmp' = NoFile
    /\ inode' = [n \in Inode |-> IF n = cache THEN Unwritten ELSE inode[n]]
    /\ Decide(p)
    /\ handle' = [handle EXCEPT ![p] = NoFile]
    /\ pc' = [pc EXCEPT ![p] = "decide"]
    /\ UNCHANGED <<logs, completed, view, calls, at, logged, ghosts>>

\* Another instance has renamed the file: the exception ends the process.
ReplaceRaises(p) ==
    /\ pc[p] = "replace" /\ tmp = NoFile
    /\ Ended(p)
    /\ UNCHANGED <<logs, files, ghosts>>

-----------------------------------------------------------------------------
\* The records of a run are kept in memory until it is over, then appended.
LogProposal(p) ==
    /\ pc[p] = "decide" /\ ~More(p) /\ logged[p] < decided[p]
    /\ proposals' = Appended(proposals, [run |-> Current(p), index |-> logged[p] + 1])
    /\ logged' = [logged EXCEPT ![p] = @ + 1]
    /\ UNCHANGED <<summaries, files, pc, completed, view, calls, at, decided, handle, ghosts>>

LogSummary(p) ==
    /\ pc[p] = "decide" /\ ~More(p) /\ logged[p] = decided[p]
    /\ summaries' = Appended(summaries, Current(p))
    /\ pc' = [pc EXCEPT ![p] = "next"]
    /\ UNCHANGED <<proposals, files, locals, ghosts>>

\* A kill, which in the middle of an append leaves part of a line.
Crash(p) ==
    /\ pc[p] # "off" /\ crashes < MaxCrashes
    /\ crashes' = crashes + 1
    /\ unsaved' = unsaved + (IF Writing(p) THEN 1 ELSE 0)
    /\ \/ UNCHANGED logs
       \/ /\ pc[p] = "decide" /\ ~More(p)
          /\ IF logged[p] < decided[p]
             THEN proposals' = Appended(proposals, Torn) /\ UNCHANGED summaries
             ELSE summaries' = Appended(summaries, Torn) /\ UNCHANGED proposals
    /\ Ended(p)
    /\ UNCHANGED <<files, paid, overlapped, raced>>

Work(p) ==
    \/ Start(p) \/ NextRun(p) \/ Finish(p) \/ DecideFree(p) \/ Buy(p) \/ Fill(p)
    \/ Replace(p) \/ ReplaceRaises(p) \/ LogProposal(p) \/ LogSummary(p)

AllDone == \A p \in Proc : pc[p] = "off" /\ (Mine[p] \subseteq Lines(summaries) \/ ~Readable)

Finished == AllDone /\ UNCHANGED vars

Next == (\E p \in Proc : Work(p) \/ Crash(p)) \/ Finished

Spec == Init /\ [][Next]_vars

\* Whoever runs the sweep starts it again, and a started process goes on.
FairSpec == Spec /\ \A p \in Proc : WF_vars(Work(p))

-----------------------------------------------------------------------------
OfRun(r) == {k \in 1 .. Len(proposals) :
    proposals[k] \in Record /\ proposals[k].run = r}

\* The last lines that were written of run r are its first n decisions in order,
\* each of them a record, or lost behind what was left of a torn line.
Logged(r, n) == \E line \in [1 .. n -> 1 .. Len(proposals)] :
    /\ \A i, j \in 1 .. n : i < j => line[i] < line[j]
    /\ \A i \in 1 .. n : proposals[line[i]] \in {[run |-> r, index |-> i], Garbled}
    /\ \A i \in 1 .. n, k \in OfRun(r) : line[i] < k => \E j \in 1 .. n : line[j] = k

\* The sweep can be taken up again whatever was killed: a run has one summary,
\* and a run with a summary has logged all its decisions, each torn line having
\* cost it at most one.  (Earlier records of it may be the leftovers of a process
\* that was killed in between.)
LogsRecoverable ==
    /\ \A i, j \in 1 .. Len(summaries) :
          summaries[i] \in Run /\ summaries[i] = summaries[j] => i = j
    /\ \A r \in Run \cap Lines(summaries) : Logged(r, Len(Prompts[r]))

\* One JSON line per decision event (docs/architecture.md): a run with a summary
\* has a record of each of its decisions, and a sweep that was killed resumes.
DecisionsLogged == \A r \in Run \cap Lines(summaries) :
    \A i \in 1 .. Len(Prompts[r]) : [run |-> r, index |-> i] \in Lines(proposals)

\* A sweep that is run by one process at a time buys an answer once over all its
\* restarts, and again only if it was killed between the answer and the cache.
PaidOnce == ~overlapped => \A k \in Key : paid[k] <= 1 + unsaved

\* The cache file is a whole one at every moment, kills included, as long as two
\* processes are not in put at the same time.
CacheWhole == ~raced /\ cache # NoFile => inode[cache].whole

\* Started again after every kill, the sweep ends with a summary of each run,
\* unless a kill has torn the log of summaries or a race the cache file.
SweepCompletes == <>(~Readable \/ \A p \in Proc : Mine[p] \subseteq Lines(summaries))
=============================================================================
