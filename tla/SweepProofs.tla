----------------------------- MODULE SweepProofs -----------------------------
(***************************************************************************)
(* What a sweep leaves behind, for any processes, runs, prompts and kills. *)
(*                                                                         *)
(* LogsRecoverable and the two promises of the cache file rest on where    *)
(* each process is: a run being worked on is in no summary yet and is      *)
(* nobody else's; a process in put holds the inode that is named           *)
(* cache.json.tmp, unless two of them have raced; and a process that runs  *)
(* alone has in its view what is in the cache file, but for the answer it  *)
(* is writing.                                                             *)
(***************************************************************************)
EXTENDS Sweep, FiniteSetTheorems, TLAPS

Line == Record \cup {Torn, Garbled}
Summary == Run \cup {Torn, Garbled}
File == [data : SUBSET Key, whole : BOOLEAN]
Busy(p) == pc[p] \in {"decide", "fill", "replace"}

SweepTypeOK ==
    /\ summaries \in Seq(Summary) /\ proposals \in Seq(Line)
    /\ inode \in [Inode -> File]
    /\ cache \in Inode \cup {NoFile} /\ tmp \in Inode \cup {NoFile}
    /\ pc \in [Proc -> {"off", "next", "decide", "fill", "replace"}]
    /\ completed \in [Proc -> SUBSET Run] /\ view \in [Proc -> SUBSET Key]
    /\ calls \in [Proc -> Nat] /\ at \in [Proc -> 0 .. Len(RunOrder)]
    /\ decided \in [Proc -> Nat] /\ logged \in [Proc -> Nat]
    /\ handle \in [Proc -> Inode \cup {NoFile}]
    /\ crashes \in Nat /\ paid \in [Key -> Nat] /\ unsaved \in Nat
    /\ overlapped \in BOOLEAN /\ raced \in BOOLEAN

\* Where a process is in its run, and the file it has open.
Place(p) ==
    /\ Busy(p) => /\ at[p] \in 1 .. Len(RunOrder) /\ Current(p) \in Mine[p]
                  /\ decided[p] <= Len(Prompts[Current(p)]) /\ logged[p] <= decided[p]
    /\ Writing(p) => More(p) /\ handle[p] # NoFile
    /\ ~Writing(p) => handle[p] = NoFile

TypeInv ==
    /\ SweepTypeOK
    /\ cache # NoFile => tmp # cache
    /\ \A p \in Proc : Place(p)

\* What a process is going to log has no summary yet.
Ahead(p) ==
    /\ pc[p] # "off" => \A i \in ToDo(p) : RunOrder[i] \notin Lines(summaries)
    /\ Busy(p) => Current(p) \notin Lines(summaries) /\ Logged(Current(p), logged[p])

LogInv == LogsRecoverable /\ \A p \in Proc : Ahead(p)

\* Who writes the temporary file, and what is in the files.
CacheInv == ~raced =>
    /\ cache # NoFile => inode[cache].whole
    /\ \A p, q \in Proc : Writing(p) /\ Writing(q) => p = q
    /\ \A p \in Proc :
        /\ Writing(p) => handle[p] = tmp
        /\ pc[p] = "fill" => inode[tmp].data = {}
        /\ pc[p] = "replace" => inode[tmp].whole

\* The prompts whose answer is in the cache file or on its way into it.
Known == Loaded \cup UNION {view[p] : p \in Proc}

PaidInv == ~overlapped =>
    /\ ~raced
    /\ \A p, q \in Proc : pc[p] # "off" /\ pc[q] # "off" => p = q
    /\ \A p \in Proc :
        /\ pc[p] = "off" => view[p] = {}
        /\ pc[p] \in {"next", "decide"} => view[p] = Loaded
        /\ Writing(p) => view[p] = Loaded \cup {Prompt(p)}
        /\ pc[p] = "replace" => inode[tmp].data = view[p]
    /\ \A k \in Key : paid[k] <= (IF k \in Known THEN 1 ELSE 0) + unsaved

-----------------------------------------------------------------------------
\* The runs and prompts a process can be at.
LEMMA RunsAndPrompts ==
  /\ \A i \in 1 .. Len(RunOrder) : RunOrder[i] \in Run
  /\ \A r \in Run : Prompts[r] \in Seq(Key) /\ Len(Prompts[r]) \in Nat
  /\ \A r \in Run : \A i \in 1 .. Len(Prompts[r]) : Prompts[r][i] \in Key
  /\ Len(RunOrder) \in Nat
<1>1. RunOrder \in Seq(Run) /\ Prompts \in [Run -> Seq(Key)]
  BY SweepAssumption DEF SweepAssumption
<1>2. \A i \in 1 .. Len(RunOrder) : RunOrder[i] \in Run
  BY DEF Run
<1>3. \A r \in Run : Prompts[r] \in Seq(Key) /\ Len(Prompts[r]) \in Nat
  BY <1>1
<1>4. \A r \in Run : \A i \in 1 .. Len(Prompts[r]) : Prompts[r][i] \in Key
  BY DEF Key
<1>5. QED
  BY <1>1, <1>2, <1>3, <1>4

\* A set of naturals has a least element.
LEMMA LeastOfNaturals ==
  ASSUME NEW S \in SUBSET Nat, S # {}
  PROVE  \E i \in S : \A j \in S : i <= j
<1>1. PICK i \in S : \A j \in S : ~(<<j, i>> \in OpToRel(<, Nat))
  BY NatLessThanWellFounded, WFMin, Zenon
<1>2. ASSUME NEW j \in S PROVE i <= j
  <2>1. <<j, i>> \in Nat \X Nat
    OBVIOUS
  <2>2. ~(j < i)
    BY <1>1, <2>1 DEF OpToRel
  <2>3. QED
    BY <2>2
<1>3. QED
  BY <1>2

\* Markers are neither runs nor records.
LEMMA Markers ==
  /\ Torn \notin Run /\ Garbled \notin Run /\ Torn \notin Record /\ Garbled \notin Record
  /\ Torn # Garbled
BY SweepAssumption DEF SweepAssumption

\* append_jsonl adds a line, or takes a torn line away with it, and changes no
\* line but a torn one.
LEMMA AppendsOneLine ==
  ASSUME NEW S, NEW s \in Seq(S), NEW line \in S, Torn \in S, Garbled \in S
  PROVE  LET t == Appended(s, line)
             m == IF TornEnd(s) THEN Len(s) ELSE Len(s) + 1
         IN  /\ t \in Seq(S) /\ Len(t) = m /\ m \in Nat \ {0} /\ Len(s) \in Nat
             /\ Len(s) <= m /\ m <= Len(s) + 1
             /\ \A i \in 1 .. Len(s) : s[i] # Torn => t[i] = s[i] /\ i \in 1 .. m
             /\ \A i \in 1 .. m - 1 : t[i] = s[i] /\ i \in 1 .. Len(s)
             /\ t[m] \in {line, Torn, Garbled} /\ m \in 1 .. m
             /\ line # Torn => t[m] \in {line, Garbled}
             /\ m <= Len(s) => s[m] = Torn
<1>1. CASE TornEnd(s)
  <2>1. Len(s) \in Nat \ {0} /\ s[Len(s)] = Torn
    BY <1>1 DEF TornEnd
  <2>2. PICK last \in {Torn, Garbled} :
            /\ Appended(s, line) = [s EXCEPT ![Len(s)] = last]
            /\ line # Torn => last = Garbled
    BY <1>1 DEF Appended
  <2>3. QED
    BY <1>1, <2>1, <2>2
<1>2. CASE ~TornEnd(s)
  <2>1. Appended(s, line) = Append(s, line) /\ Len(s) \in Nat
    BY <1>2 DEF Appended
  <2>2. QED
    BY <1>2, <2>1
<1>3. QED
  BY <1>1, <1>2

\* One element more.
LEMMA OneMore ==
  ASSUME NEW S, IsFiniteSet(S), NEW x
  PROVE  /\ IsFiniteSet(S \cup {x}) /\ Cardinality(S \cup {x}) \in Nat
         /\ Cardinality(S \cup {x}) <= Cardinality(S) + 1
<1>1. /\ IsFiniteSet(S \cup {x}) /\ Cardinality(S) \in Nat
      /\ Cardinality(S \cup {x}) \in {Cardinality(S), Cardinality(S) + 1}
  BY FS_AddElement, FS_CardinalityType
<1>2. QED
  BY <1>1

\* There is always an inode that has no name and that nobody writes.
LEMMA FreeExists ==
  ASSUME SweepTypeOK, NEW p \in Proc, handle[p] = NoFile
  PROVE  Free \in Inode /\ Free # cache /\ Free # tmp /\ \A q \in Proc : handle[q] # Free
<1> DEFINE held == {handle[q] : q \in Proc}
           taken == (held \cup {cache, tmp}) \ {NoFile}
<1>1. IsFiniteSet(Proc) /\ Cardinality(Proc) \in Nat /\ NoFile \notin Inode
  BY FS_CardinalityType, SweepAssumption DEF SweepAssumption
<1>2. IsFiniteSet(held) /\ Cardinality(held) <= Cardinality(Proc) /\ Cardinality(held) \in Nat
  <2>1. handle \in Surjection(Proc, held)
    BY DEF SweepTypeOK, Surjection
  <2>2. QED
    BY <1>1, <2>1, FS_Surjection, FS_CardinalityType
<1>3. /\ IsFiniteSet(held \cup {cache}) /\ Cardinality(held \cup {cache}) \in Nat
      /\ Cardinality(held \cup {cache}) <= Cardinality(Proc) + 1
  <2> HIDE DEF held
  <2>1. /\ IsFiniteSet(held \cup {cache}) /\ Cardinality(held \cup {cache}) \in Nat
        /\ Cardinality(held \cup {cache}) <= Cardinality(held) + 1
    BY <1>2, OneMore
  <2>2. QED
    BY <1>1, <1>2, <2>1
<1>4. /\ IsFiniteSet((held \cup {cache}) \cup {tmp})
      /\ Cardinality((held \cup {cache}) \cup {tmp}) \in Nat
      /\ Cardinality((held \cup {cache}) \cup {tmp}) <= Cardinality(Proc) + 2
  <2> DEFINE named == held \cup {cache}
  <2> HIDE DEF held
  <2>1. IsFiniteSet(named) /\ Cardinality(named) \in Nat
    BY <1>3
  <2> HIDE DEF named
  <2>2. /\ IsFiniteSet(named \cup {tmp}) /\ Cardinality(named \cup {tmp}) \in Nat
        /\ Cardinality(named \cup {tmp}) <= Cardinality(named) + 1
    BY <2>1, OneMore
  <2>3. QED
    BY <1>1, <1>3, <2>2 DEF named
<1>5. IsFiniteSet(taken) /\ Cardinality(taken) < Cardinality(Proc) + 2
  <2>1. NoFile \in (held \cup {cache}) \cup {tmp}
    OBVIOUS
  <2>2. /\ IsFiniteSet(((held \cup {cache}) \cup {tmp}) \ {NoFile})
        /\ Cardinality(((held \cup {cache}) \cup {tmp}) \ {NoFile})
               = Cardinality((held \cup {cache}) \cup {tmp}) - 1
    BY <1>4, <2>1, FS_RemoveElement
  <2>3. taken = ((held \cup {cache}) \cup {tmp}) \ {NoFile}
    OBVIOUS
  <2> HIDE DEF held, taken
  <2>4. QED
    BY <1>1, <1>4, <2>2, <2>3
<1>6. ~(Inode \subseteq taken)
  <2>1. Cardinality(Inode) = Cardinality(Proc) + 2
    BY <1>1, FS_Interval DEF Inode
  <2> HIDE DEF taken
  <2>2. SUFFICES ASSUME Inode \in SUBSET taken PROVE FALSE
    OBVIOUS
  <2>3. Cardinality(Inode) <= Cardinality(taken) /\ Cardinality(taken) \in Nat
    BY <1>5, <2>2, FS_Subset, FS_CardinalityType
  <2>4. QED
    BY <1>1, <1>5, <2>1, <2>3
<1>7. \E n \in Inode : n # cache /\ n # tmp /\ \A q \in Proc : handle[q] # n
  BY <1>1, <1>6
<1>8. QED
  BY <1>7 DEF Free

-----------------------------------------------------------------------------
\* The step of a process changes its own locals only.
LEMMA OthersStay ==
  ASSUME SweepTypeOK, NEW p \in Proc, Work(p) \/ Crash(p)
  PROVE  /\ \A q \in Proc \ {p} :
               /\ pc'[q] = pc[q] /\ completed'[q] = completed[q] /\ view'[q] = view[q]
               /\ calls'[q] = calls[q] /\ at'[q] = at[q] /\ decided'[q] = decided[q]
               /\ logged'[q] = logged[q] /\ handle'[q] = handle[q]
<1> USE DEF SweepTypeOK
<1>1. CASE Start(p)
  BY <1>1 DEF Start
<1>2. CASE NextRun(p)
  BY <1>2 DEF NextRun
<1>3. CASE Finish(p)
  BY <1>3 DEF Finish, Ended
<1>4. CASE DecideFree(p)
  BY <1>4 DEF DecideFree, Decide
<1>5. CASE Buy(p)
  BY <1>5 DEF Buy
<1>6. CASE Fill(p)
  BY <1>6 DEF Fill, locals
<1>7. CASE Replace(p)
  BY <1>7 DEF Replace, Decide
<1>8. CASE ReplaceRaises(p)
  BY <1>8 DEF ReplaceRaises, Ended
<1>9. CASE LogProposal(p)
  BY <1>9 DEF LogProposal
<1>10. CASE LogSummary(p)
  BY <1>10 DEF LogSummary, locals
<1>11. CASE Crash(p)
  BY <1>11 DEF Crash, Ended
<1>12. QED
  BY <1>1, <1>2, <1>3, <1>4, <1>5, <1>6, <1>7, <1>8, <1>9, <1>10, <1>11 DEF Work

\* And so another process stays where it is.
LEMMA OthersInPlace ==
  ASSUME TypeInv, NEW p \in Proc, Work(p) \/ Crash(p)
  PROVE  \A q \in Proc \ {p} : Place(q)'
<1>1. TAKE q \in Proc \ {p}
<1>2. /\ pc'[q] = pc[q] /\ at'[q] = at[q] /\ decided'[q] = decided[q]
      /\ logged'[q] = logged[q] /\ handle'[q] = handle[q]
  BY OthersStay DEF TypeInv
<1>3. Place(q)
  BY DEF TypeInv
<1>4. QED
  BY <1>2, <1>3 DEF Place, Busy, Writing, Current, More

-----------------------------------------------------------------------------
\* Nothing has been started, logged, bought or killed.
LEMMA TypeInit == Init => TypeInv
<1> SUFFICES ASSUME Init PROVE TypeInv
  OBVIOUS
<1>1. Unwritten \in File
  BY DEF Unwritten, File
<1>2. SweepTypeOK
  <2>1. summaries \in Seq(Summary) /\ proposals \in Seq(Line)
    BY DEF Init
  <2>2. /\ inode \in [Inode -> File] /\ cache \in Inode \cup {NoFile}
        /\ tmp \in Inode \cup {NoFile} /\ handle \in [Proc -> Inode \cup {NoFile}]
    BY <1>1 DEF Init
  <2>3. at \in [Proc -> 0 .. Len(RunOrder)]
    BY RunsAndPrompts DEF Init
  <2>4. /\ pc \in [Proc -> {"off", "next", "decide", "fill", "replace"}]
        /\ completed \in [Proc -> SUBSET Run] /\ view \in [Proc -> SUBSET Key]
        /\ calls \in [Proc -> Nat] /\ decided \in [Proc -> Nat] /\ logged \in [Proc -> Nat]
    BY DEF Init
  <2>5. /\ crashes \in Nat /\ paid \in [Key -> Nat] /\ unsaved \in Nat
        /\ overlapped \in BOOLEAN /\ raced \in BOOLEAN
    BY DEF Init
  <2>6. QED
    BY <2>1, <2>2, <2>3, <2>4, <2>5 DEF SweepTypeOK
<1>3. QED
  BY <1>2 DEF Init, TypeInv, Place, Busy, Writing

\* What a process keeps TypeInv by: its own place, the types, the two names.
TypeKept(p) == SweepTypeOK' /\ (cache # NoFile => tmp # cache)' /\ Place(p)'

\* The locals of a process that is gone are those it began with.
LEMMA EndedKeepsTypes ==
  ASSUME TypeInv, NEW p \in Proc, Ended(p)
  PROVE  /\ pc' \in [Proc -> {"off", "next", "decide", "fill", "replace"}]
         /\ completed' \in [Proc -> SUBSET Run] /\ view' \in [Proc -> SUBSET Key]
         /\ calls' \in [Proc -> Nat] /\ at' \in [Proc -> 0 .. Len(RunOrder)]
         /\ decided' \in [Proc -> Nat] /\ logged' \in [Proc -> Nat]
         /\ handle' \in [Proc -> Inode \cup {NoFile}]
         /\ Place(p)'
<1>1. pc'[p] = "off" /\ handle'[p] = NoFile
  BY DEF Ended, TypeInv, SweepTypeOK
<1>2. Place(p)'
  BY <1>1 DEF Place, Busy, Writing
<1>3. QED
  BY <1>2, RunsAndPrompts DEF Ended, TypeInv, SweepTypeOK

\* What can be read are the summaries of runs.
LEMMA ReadableLines ==
  ASSUME SweepTypeOK, Readable
  PROVE  Lines(summaries) \subseteq Run
<1>1. \A i \in 1 .. Len(summaries) : summaries[i] \in Run \cup {Torn, Garbled}
  BY DEF SweepTypeOK, Summary
<1>2. Torn \notin Lines(summaries) /\ Garbled \notin Lines(summaries)
  BY DEF Readable
<1>3. QED
  BY <1>1, <1>2 DEF Lines

\* A process that starts has read the summaries of runs, and answers to prompts.
LEMMA StartType ==
  ASSUME TypeInv, NEW p \in Proc, Start(p)
  PROVE  TypeKept(p)
<1> USE DEF TypeInv, SweepTypeOK
<1>1. Lines(summaries) \subseteq Run
  BY ReadableLines DEF Start
<1>2. Loaded \in SUBSET Key
  BY DEF Loaded, File
<1>3. SweepTypeOK'
  BY <1>1, <1>2 DEF Start, logs, files
<1>4. Place(p)'
  BY DEF Start, Place, Busy, Writing
<1>5. QED
  BY <1>3, <1>4 DEF Start, files, TypeKept

\* The run it goes on to is one of its own.
LEMMA NextRunType ==
  ASSUME TypeInv, NEW p \in Proc, NextRun(p)
  PROVE  TypeKept(p)
<1> USE DEF TypeInv, SweepTypeOK
<1>1. PICK i \in ToDo(p) : at' = [at EXCEPT ![p] = i]
  <2>1. ToDo(p) # {} /\ ToDo(p) \subseteq Nat
    <3>1. at[p] \in Nat
      OBVIOUS
    <3>2. \A i \in at[p] + 1 .. Len(RunOrder) : i \in Nat
      BY <3>1, RunsAndPrompts
    <3>3. QED
      BY <3>2 DEF NextRun, ToDo
  <2>2. \E i \in ToDo(p) : \A j \in ToDo(p) : i <= j
    BY <2>1, LeastOfNaturals
  <2>3. QED
    BY <2>2 DEF NextRun
<1>2. i \in 1 .. Len(RunOrder) /\ RunOrder[i] \in Mine[p]
  BY RunsAndPrompts DEF ToDo
<1>3. SweepTypeOK'
  <2>1. at' \in [Proc -> 0 .. Len(RunOrder)]
    BY <1>1, <1>2, RunsAndPrompts
  <2>2. /\ decided' \in [Proc -> Nat] /\ logged' \in [Proc -> Nat]
        /\ pc' \in [Proc -> {"off", "next", "decide", "fill", "replace"}]
    BY DEF NextRun
  <2>3. UNCHANGED <<logs, files, completed, view, calls, handle, ghosts>>
    BY DEF NextRun
  <2>4. QED
    BY <2>1, <2>2, <2>3 DEF logs, files, ghosts
<1>4. Place(p)'
  <2>1. /\ at'[p] = i /\ pc'[p] = "decide" /\ decided'[p] = 0 /\ logged'[p] = 0
        /\ handle'[p] = NoFile
    BY <1>1 DEF NextRun, Place, Writing
  <2>2. Len(Prompts[RunOrder[i]]) \in Nat
    BY <1>2, RunsAndPrompts
  <2>3. QED
    BY <1>2, <2>1, <2>2 DEF Place, Busy, Writing, Current
<1>5. QED
  BY <1>3, <1>4 DEF NextRun, files, TypeKept

\* A process that ends, by itself or by an exception, is back where it began.
LEMMA FinishType ==
  ASSUME TypeInv, NEW p \in Proc, Finish(p) \/ ReplaceRaises(p)
  PROVE  TypeKept(p)
<1>1. Ended(p) /\ UNCHANGED <<logs, files, ghosts>>
  BY DEF Finish, ReplaceRaises
<1>2. QED
  BY <1>1, EndedKeepsTypes DEF TypeInv, SweepTypeOK, TypeKept, logs, files, ghosts

\* The run of a process that is busy, and the prompt of its next decision.
LEMMA AtARun ==
  ASSUME TypeInv, NEW p \in Proc, Busy(p)
  PROVE  /\ Current(p) \in Run /\ Len(Prompts[Current(p)]) \in Nat
         /\ decided[p] \in Nat /\ logged[p] \in Nat
         /\ decided[p] <= Len(Prompts[Current(p)]) /\ logged[p] <= decided[p]
         /\ More(p) => Prompt(p) \in Key
<1>1. Place(p) /\ decided[p] \in Nat /\ logged[p] \in Nat
  BY DEF TypeInv, SweepTypeOK
<1>2. Current(p) \in Run /\ Len(Prompts[Current(p)]) \in Nat
  BY <1>1, RunsAndPrompts DEF Place, Current
<1>3. ASSUME More(p) PROVE Prompt(p) \in Key
  <2>1. decided[p] + 1 \in 1 .. Len(Prompts[Current(p)])
    BY <1>1, <1>2, <1>3 DEF More
  <2>2. QED
    BY <1>2, <2>1, RunsAndPrompts DEF Prompt
<1>4. QED
  BY <1>1, <1>2, <1>3 DEF Place

\* A decision that costs nothing is one more of the run.
LEMMA DecideFreeType ==
  ASSUME TypeInv, NEW p \in Proc, DecideFree(p)
  PROVE  TypeKept(p)
<1>1. pc[p] = "decide" /\ More(p) /\ decided' = [decided EXCEPT ![p] = @ + 1]
  BY DEF DecideFree, Decide
<1>2. Busy(p) /\ Place(p)
  BY <1>1 DEF Busy, TypeInv
<1>3. SweepTypeOK'
  BY <1>1, <1>2, AtARun DEF DecideFree, TypeInv, SweepTypeOK, logs, files, ghosts
<1>4. /\ pc'[p] = "decide" /\ at'[p] = at[p] /\ decided'[p] = decided[p] + 1
      /\ logged'[p] = logged[p] /\ handle'[p] = handle[p]
  BY <1>1 DEF DecideFree, TypeInv, SweepTypeOK
<1>5. Place(p)'
  BY <1>1, <1>2, <1>4, AtARun DEF Place, Busy, Writing, Current, More
<1>6. QED
  BY <1>3, <1>5 DEF DecideFree, TypeInv, TypeKept, files

\* The inode put opens has the name cache.json.tmp and not the other.
LEMMA Opened ==
  ASSUME TypeInv, NEW p \in Proc, Buy(p)
  PROVE  /\ tmp' \in Inode /\ tmp' # cache /\ tmp' # NoFile
         /\ handle' = [handle EXCEPT ![p] = tmp'] /\ inode' = [inode EXCEPT ![tmp'] = Unwritten]
         /\ tmp # NoFile => tmp' = tmp
         /\ tmp = NoFile => tmp' = Free
<1>1. handle[p] = NoFile
  BY DEF Buy, TypeInv, Place, Writing
<1>2. Free \in Inode /\ Free # cache
  BY <1>1, FreeExists DEF TypeInv
<1>3. NoFile \notin Inode
  BY SweepAssumption DEF SweepAssumption
<1>4. QED
  BY <1>2, <1>3 DEF Buy, TypeInv, SweepTypeOK

\* An answer that is bought is one to the prompt of the next decision.
LEMMA BuyType ==
  ASSUME TypeInv, NEW p \in Proc, Buy(p)
  PROVE  TypeKept(p)
<1>1. pc[p] = "decide" /\ More(p) /\ Busy(p) /\ Place(p)
  BY DEF Buy, Busy, TypeInv
<1>2. Prompt(p) \in Key
  BY <1>1, AtARun
<1>3. Unwritten \in File
  BY DEF Unwritten, File
<1>4. SweepTypeOK'
  <2>1. /\ calls' \in [Proc -> Nat] /\ paid' \in [Key -> Nat] /\ view' \in [Proc -> SUBSET Key]
        /\ pc' \in [Proc -> {"off", "next", "decide", "fill", "replace"}]
        /\ raced' \in BOOLEAN
    BY <1>2 DEF Buy, TypeInv, SweepTypeOK
  <2>2. /\ inode' \in [Inode -> File] /\ tmp' \in Inode \cup {NoFile}
        /\ handle' \in [Proc -> Inode \cup {NoFile}]
    BY <1>3, Opened DEF TypeInv, SweepTypeOK
  <2>3. UNCHANGED <<logs, cache, completed, at, decided, logged, crashes, unsaved, overlapped>>
    BY DEF Buy
  <2>4. QED
    BY <2>1, <2>2, <2>3 DEF TypeInv, SweepTypeOK, logs
<1>5. Place(p)'
  <2>1. /\ pc'[p] = "fill" /\ at'[p] = at[p] /\ decided'[p] = decided[p]
        /\ logged'[p] = logged[p] /\ handle'[p] # NoFile
    BY Opened DEF Buy, TypeInv, SweepTypeOK
  <2>2. QED
    BY <1>1, <2>1 DEF Place, Busy, Writing, Current, More
<1>6. (cache # NoFile => tmp # cache)'
  BY Opened DEF Buy
<1>7. QED
  BY <1>4, <1>5, <1>6 DEF TypeKept

\* What is written is the view of the process.
LEMMA FillType ==
  ASSUME TypeInv, NEW p \in Proc, Fill(p)
  PROVE  TypeKept(p)
<1>1. pc[p] = "fill" /\ Busy(p) /\ Writing(p) /\ Place(p) /\ handle[p] \in Inode
  BY DEF Fill, Busy, Writing, TypeInv, SweepTypeOK, Place
<1>2. PICK whole \in BOOLEAN :
          inode' = [inode EXCEPT ![handle[p]] = [data |-> view[p], whole |-> whole]]
  BY DEF Fill
<1>3. [data |-> view[p], whole |-> whole] \in File
  BY DEF TypeInv, SweepTypeOK, File
<1>4. SweepTypeOK'
  BY <1>1, <1>2, <1>3 DEF Fill, TypeInv, SweepTypeOK, logs, locals, ghosts
<1>5. Place(p)'
  <2>1. /\ pc'[p] = "replace" /\ at'[p] = at[p] /\ decided'[p] = decided[p]
        /\ logged'[p] = logged[p] /\ handle'[p] = handle[p]
    BY DEF Fill, TypeInv, SweepTypeOK, locals
  <2>2. QED
    BY <1>1, <2>1 DEF Place, Busy, Writing, Current, More
<1>6. QED
  BY <1>4, <1>5 DEF Fill, TypeInv, TypeKept

\* The file that is renamed has no other name left.
LEMMA ReplaceType ==
  ASSUME TypeInv, NEW p \in Proc, Replace(p)
  PROVE  TypeKept(p)
<1>1. pc[p] = "replace" /\ Busy(p) /\ Writing(p) /\ Place(p) /\ More(p)
  BY DEF Replace, Busy, Writing, TypeInv, Place
<1>2. Unwritten \in File
  BY DEF Unwritten, File
<1>3. SweepTypeOK'
  <2>1. /\ inode' \in [Inode -> File] /\ cache' \in Inode \cup {NoFile}
        /\ tmp' \in Inode \cup {NoFile} /\ handle' \in [Proc -> Inode \cup {NoFile}]
        /\ pc' \in [Proc -> {"off", "next", "decide", "fill", "replace"}]
    BY <1>2 DEF Replace, TypeInv, SweepTypeOK
  <2>2. decided' \in [Proc -> Nat]
    BY DEF Replace, Decide, TypeInv, SweepTypeOK
  <2>3. UNCHANGED <<logs, completed, view, calls, at, logged, ghosts>>
    BY DEF Replace
  <2>4. QED
    BY <2>1, <2>2, <2>3 DEF TypeInv, SweepTypeOK, logs, ghosts
<1>4. Place(p)'
  <2>1. /\ pc'[p] = "decide" /\ at'[p] = at[p] /\ decided'[p] = decided[p] + 1
        /\ logged'[p] = logged[p] /\ handle'[p] = NoFile
    BY DEF Replace, Decide, TypeInv, SweepTypeOK
  <2>2. QED
    BY <1>1, <2>1, AtARun DEF Place, Busy, Writing, Current, More
<1>5. (cache # NoFile => tmp # cache)'
  BY DEF Replace
<1>6. QED
  BY <1>3, <1>4, <1>5 DEF TypeKept

\* One more proposal is logged, of those there are.
LEMMA LogProposalType ==
  ASSUME TypeInv, NEW p \in Proc, LogProposal(p)
  PROVE  TypeKept(p)
<1>1. pc[p] = "decide" /\ Busy(p) /\ Place(p) /\ logged[p] < decided[p]
  BY DEF LogProposal, Busy, TypeInv
<1>2. [run |-> Current(p), index |-> logged[p] + 1] \in Line
  BY <1>1, AtARun DEF Line, Record
<1>3. proposals' \in Seq(Line)
  BY <1>2, AppendsOneLine DEF LogProposal, TypeInv, SweepTypeOK, Line
<1>4. SweepTypeOK'
  <2>1. logged' \in [Proc -> Nat]
    BY <1>1, AtARun DEF LogProposal, TypeInv, SweepTypeOK
  <2>2. UNCHANGED <<summaries, files, pc, completed, view, calls, at, decided, handle, ghosts>>
    BY DEF LogProposal
  <2>3. QED
    BY <1>3, <2>1, <2>2 DEF TypeInv, SweepTypeOK, files, ghosts
<1>5. Place(p)'
  <2>1. /\ pc'[p] = "decide" /\ at'[p] = at[p] /\ decided'[p] = decided[p]
        /\ logged'[p] = logged[p] + 1 /\ handle'[p] = handle[p]
    BY <1>1 DEF LogProposal, TypeInv, SweepTypeOK
  <2>2. QED
    BY <1>1, <2>1, AtARun DEF Place, Busy, Writing, Current, More
<1>6. QED
  BY <1>4, <1>5 DEF LogProposal, TypeInv, TypeKept, files

\* A summary is that of the run the process is at.
LEMMA LogSummaryType ==
  ASSUME TypeInv, NEW p \in Proc, LogSummary(p)
  PROVE  TypeKept(p)
<1>1. pc[p] = "decide" /\ Busy(p) /\ Place(p)
  BY DEF LogSummary, Busy, TypeInv
<1>2. Current(p) \in Summary
  BY <1>1, AtARun DEF Summary
<1>3. summaries' \in Seq(Summary)
  BY <1>2, AppendsOneLine DEF LogSummary, TypeInv, SweepTypeOK, Summary
<1>4. SweepTypeOK'
  BY <1>3 DEF LogSummary, TypeInv, SweepTypeOK, files, locals, ghosts
<1>5. Place(p)'
  <2>1. pc'[p] = "next" /\ handle'[p] = handle[p]
    BY DEF LogSummary, TypeInv, SweepTypeOK, locals
  <2>2. QED
    BY <1>1, <2>1 DEF Place, Busy, Writing
<1>6. QED
  BY <1>4, <1>5 DEF LogSummary, TypeInv, TypeKept, files

\* A kill leaves types, and what is torn is a line.
LEMMA CrashType ==
  ASSUME TypeInv, NEW p \in Proc, Crash(p)
  PROVE  TypeKept(p)
<1>1. Ended(p) /\ UNCHANGED <<files, paid, overlapped, raced>>
  BY DEF Crash
<1>2. /\ summaries' \in {summaries, Appended(summaries, Torn)}
      /\ proposals' \in {proposals, Appended(proposals, Torn)}
  BY DEF Crash, logs
<1>3. summaries' \in Seq(Summary) /\ proposals' \in Seq(Line)
  <2>1. Appended(summaries, Torn) \in Seq(Summary)
    BY AppendsOneLine DEF TypeInv, SweepTypeOK, Summary
  <2>2. Appended(proposals, Torn) \in Seq(Line)
    BY AppendsOneLine DEF TypeInv, SweepTypeOK, Line
  <2>3. QED
    BY <1>2, <2>1, <2>2 DEF TypeInv, SweepTypeOK
<1>4. crashes' \in Nat /\ unsaved' \in Nat
  BY DEF Crash, TypeInv, SweepTypeOK
<1>5. QED
  BY <1>1, <1>3, <1>4, EndedKeepsTypes DEF TypeInv, SweepTypeOK, TypeKept, files

\* Every step keeps types and places.
LEMMA TypeStep == TypeInv /\ [Next]_vars => TypeInv'
<1> SUFFICES ASSUME TypeInv, [Next]_vars PROVE TypeInv'
  OBVIOUS
<1>1. CASE UNCHANGED vars
  BY <1>1 DEF vars, logs, files, locals, ghosts, TypeInv, SweepTypeOK, Place, Busy, Writing,
     Current, More
<1>2. ASSUME NEW p \in Proc, Work(p) \/ Crash(p) PROVE TypeInv'
  <2>1. TypeKept(p)
    BY <1>2, StartType, NextRunType, FinishType, DecideFreeType, BuyType, FillType, ReplaceType,
       LogProposalType, LogSummaryType, CrashType DEF Work
  <2>2. \A q \in Proc \ {p} : Place(q)'
    BY <1>2, OthersInPlace
  <2>3. QED
    BY <2>1, <2>2 DEF TypeKept, TypeInv
<1>3. QED
  BY <1>1, <1>2 DEF Next, Finished

-----------------------------------------------------------------------------
\* A step outside put after which the process does not write.
Quiet(p) ==
    \/ Start(p) \/ NextRun(p) \/ Finish(p) \/ DecideFree(p) \/ ReplaceRaises(p)
    \/ LogProposal(p) \/ LogSummary(p) \/ Crash(p)

\* A quiet step leaves the files, and who writes them, as they are.
LEMMA QuietLeavesFiles ==
  ASSUME TypeInv, NEW p \in Proc, Quiet(p)
  PROVE  UNCHANGED files /\ raced' = raced /\ ~Writing(p)' /\ paid' = paid
<1> USE DEF TypeInv, SweepTypeOK, Writing
<1>1. CASE Start(p)
  BY <1>1 DEF Start
<1>2. CASE NextRun(p)
  BY <1>2 DEF NextRun, ghosts
<1>3. CASE Finish(p) \/ ReplaceRaises(p)
  BY <1>3 DEF Finish, ReplaceRaises, Ended, ghosts
<1>4. CASE DecideFree(p)
  BY <1>4 DEF DecideFree, ghosts
<1>5. CASE LogProposal(p)
  BY <1>5 DEF LogProposal, ghosts
<1>6. CASE LogSummary(p)
  BY <1>6 DEF LogSummary, ghosts
<1>7. CASE Crash(p)
  BY <1>7 DEF Crash, Ended
<1>8. QED
  BY <1>1, <1>2, <1>3, <1>4, <1>5, <1>6, <1>7 DEF Quiet

\* Whatever a process does outside put, the files and their writers stay.
LEMMA QuietCache ==
  ASSUME TypeInv, CacheInv, NEW p \in Proc, Quiet(p)
  PROVE  CacheInv'
<1>1. UNCHANGED files /\ raced' = raced /\ ~Writing(p)'
  BY QuietLeavesFiles
<1>2. \A q \in Proc \ {p} : pc'[q] = pc[q] /\ handle'[q] = handle[q]
  BY OthersStay DEF Quiet, Work, TypeInv
<1>3. \A q \in Proc : Writing(q)' => Writing(q) /\ handle'[q] = handle[q] /\ pc'[q] = pc[q]
  BY <1>1, <1>2 DEF Writing
<1>4. QED
  BY <1>1, <1>3 DEF CacheInv, files, Writing

\* A process that opens the temporary file is its only writer, or has raced.
LEMMA BuyCache ==
  ASSUME TypeInv, CacheInv, NEW p \in Proc, Buy(p)
  PROVE  CacheInv'
<1> SUFFICES ASSUME ~raced' PROVE CacheInv'
  BY DEF CacheInv
<1>1. ~raced /\ \A q \in Proc \ {p} : ~Writing(q)
  BY DEF Buy
<1>2. \A q \in Proc \ {p} : pc'[q] = pc[q] /\ handle'[q] = handle[q]
  BY OthersStay DEF Work, TypeInv
<1>3. \A q \in Proc : Writing(q)' => q = p
  BY <1>1, <1>2 DEF Writing
<1>4. pc'[p] = "fill" /\ handle'[p] = tmp' /\ cache' = cache
  BY Opened DEF Buy, TypeInv, SweepTypeOK
<1>5. inode'[tmp'] = Unwritten /\ (cache # NoFile => inode'[cache] = inode[cache])
  BY Opened DEF TypeInv, SweepTypeOK
<1>6. cache' # NoFile => inode'[cache'].whole
  BY <1>1, <1>4, <1>5 DEF CacheInv
<1>7. \A q \in Proc : pc'[q] \in {"fill", "replace"} => q = p
  BY <1>3 DEF Writing
<1>8. QED
  BY <1>4, <1>5, <1>6, <1>7 DEF CacheInv, Writing, Unwritten

\* The only writer fills an empty file, so that nothing sticks out behind.
LEMMA FillCache ==
  ASSUME TypeInv, CacheInv, NEW p \in Proc, Fill(p)
  PROVE  CacheInv'
<1> SUFFICES ASSUME ~raced' PROVE CacheInv'
  BY DEF CacheInv
<1>1. ~raced /\ Writing(p) /\ pc[p] = "fill"
  BY DEF Fill, Writing, ghosts
<1>2. handle[p] = tmp /\ inode[tmp].data = {} /\ \A q \in Proc \ {p} : ~Writing(q)
  BY <1>1 DEF CacheInv
<1>3. tmp \in Inode /\ tmp # cache
  BY <1>1, <1>2 DEF TypeInv, SweepTypeOK, Place
<1>4. inode' = [inode EXCEPT ![tmp] = [data |-> view[p], whole |-> TRUE]]
  BY <1>2 DEF Fill
<1>5. \A q \in Proc \ {p} : pc'[q] = pc[q] /\ handle'[q] = handle[q]
  BY OthersStay DEF Work, TypeInv
<1>6. /\ pc'[p] = "replace" /\ handle'[p] = handle[p]
      /\ cache' = cache /\ tmp' = tmp
  BY DEF Fill, TypeInv, SweepTypeOK, locals
<1>7. \A q \in Proc : pc'[q] \in {"fill", "replace"} => q = p
  BY <1>2, <1>5 DEF Writing
<1>8. inode'[tmp].whole /\ (cache # NoFile => inode'[cache] = inode[cache])
  BY <1>3, <1>4 DEF TypeInv, SweepTypeOK
<1>9. cache # NoFile => inode'[cache].whole
  BY <1>1, <1>8 DEF CacheInv
<1>10. QED
  BY <1>2, <1>6, <1>7, <1>8, <1>9 DEF CacheInv, Writing

\* The only writer renames the file it has filled.
LEMMA ReplaceCache ==
  ASSUME TypeInv, CacheInv, NEW p \in Proc, Replace(p)
  PROVE  CacheInv'
<1> SUFFICES ASSUME ~raced' PROVE CacheInv'
  BY DEF CacheInv
<1>1. ~raced /\ Writing(p) /\ pc[p] = "replace"
  BY DEF Replace, Writing, ghosts
<1>2. inode[tmp].whole /\ \A q \in Proc \ {p} : ~Writing(q)
  BY <1>1 DEF CacheInv
<1>3. tmp \in Inode /\ tmp # cache
  BY DEF Replace, TypeInv, SweepTypeOK
<1>4. cache' = tmp /\ inode'[tmp] = inode[tmp]
  BY <1>3 DEF Replace
<1>5. \A q \in Proc \ {p} : pc'[q] = pc[q]
  BY OthersStay DEF Work, TypeInv
<1>6. pc'[p] = "decide"
  BY DEF Replace, TypeInv, SweepTypeOK
<1>7. \A q \in Proc : pc'[q] \notin {"fill", "replace"}
  BY <1>2, <1>5, <1>6 DEF Writing
<1>8. QED
  BY <1>2, <1>4, <1>7 DEF CacheInv, Writing

\* Every step keeps what is said of the files.
LEMMA CacheStep == TypeInv /\ CacheInv /\ [Next]_vars => CacheInv'
<1> SUFFICES ASSUME TypeInv, CacheInv, [Next]_vars PROVE CacheInv'
  OBVIOUS
<1>1. CASE UNCHANGED vars
  BY <1>1 DEF vars, files, locals, ghosts, CacheInv, Writing
<1>2. ASSUME NEW p \in Proc, Work(p) \/ Crash(p) PROVE CacheInv'
  BY <1>2, QuietCache, BuyCache, FillCache, ReplaceCache DEF Work, Quiet
<1>3. QED
  BY <1>1, <1>2 DEF Next, Finished

-----------------------------------------------------------------------------
\* Nothing is bought and nobody has a view.
LEMMA PaidInit == Init => PaidInv
<1> SUFFICES ASSUME Init PROVE PaidInv
  OBVIOUS
<1>1. Loaded = {} /\ Known = {}
  BY DEF Init, Loaded, Known
<1>2. QED
  BY <1>1 DEF Init, PaidInv, Writing

\* A process that runs alone begins with what is in the cache file, and takes no
\* answer away from it.
LEMMA QuietPaid ==
  ASSUME TypeInv, CacheInv, PaidInv, NEW p \in Proc, Quiet(p)
  PROVE  PaidInv'
<1> SUFFICES ASSUME ~overlapped' PROVE PaidInv'
  BY DEF PaidInv
<1>1. UNCHANGED files /\ raced' = raced /\ ~Writing(p)' /\ paid' = paid
  BY QuietLeavesFiles
<1>2. Loaded' = Loaded
  BY <1>1 DEF files, Loaded
<1>3. \A q \in Proc \ {p} : pc'[q] = pc[q] /\ view'[q] = view[q]
  BY OthersStay DEF Quiet, Work, TypeInv
<1>4. /\ ~overlapped
      /\ \A q \in Proc \ {p} : pc[q] = "off"
  <2>1. CASE Start(p)
    BY <2>1 DEF Start
  <2>2. CASE ~Start(p)
    <3>1. overlapped' = overlapped /\ pc[p] # "off"
      BY <2>2 DEF Quiet, NextRun, Finish, DecideFree, ReplaceRaises, LogProposal, LogSummary,
         Crash, ghosts
    <3>2. QED
      BY <3>1 DEF PaidInv
  <2>3. QED
    BY <2>1, <2>2
<1>5. \A q \in Proc \ {p} : pc'[q] = "off" /\ view'[q] = {} /\ view[q] = {}
  BY <1>3, <1>4 DEF PaidInv
<1>6. /\ pc'[p] \in {"off", "next", "decide"}
      /\ pc'[p] = "off" => view'[p] = {}
      /\ pc'[p] # "off" => view'[p] = Loaded
  <2> USE DEF TypeInv, SweepTypeOK
  <2>1. CASE Start(p)
    BY <2>1 DEF Start
  <2>2. CASE NextRun(p)
    BY <2>2, <1>4 DEF NextRun, PaidInv
  <2>3. CASE Finish(p) \/ ReplaceRaises(p) \/ Crash(p)
    BY <2>3 DEF Finish, ReplaceRaises, Crash, Ended
  <2>4. CASE DecideFree(p)
    BY <2>4, <1>4 DEF DecideFree, PaidInv
  <2>5. CASE LogProposal(p)
    BY <2>5, <1>4 DEF LogProposal, PaidInv
  <2>6. CASE LogSummary(p)
    BY <2>6, <1>4 DEF LogSummary, PaidInv, locals
  <2>7. QED
    BY <2>1, <2>2, <2>3, <2>4, <2>5, <2>6 DEF Quiet
<1>7. Known = Loaded \cup view[p] /\ Known' = Loaded
  BY <1>2, <1>5, <1>6 DEF Known
<1>8. ASSUME NEW k \in Key PROVE paid'[k] <= (IF k \in Known' THEN 1 ELSE 0) + unsaved'
  <2>1. paid[k] <= (IF k \in Known THEN 1 ELSE 0) + unsaved
    BY <1>4 DEF PaidInv
  <2>2. CASE Crash(p) /\ Writing(p)
    <3>1. unsaved' = unsaved + 1
      BY <2>2 DEF Crash
    <3>2. QED
      BY <1>1, <2>1, <3>1 DEF TypeInv, SweepTypeOK
  <2>3. CASE ~(Crash(p) /\ Writing(p))
    <3>1. unsaved' = unsaved
      BY <2>3 DEF Quiet, Start, NextRun, Finish, DecideFree, ReplaceRaises, LogProposal,
         LogSummary, Crash, ghosts, TypeInv, SweepTypeOK
    <3>2. view[p] \subseteq Loaded
      <4>1. CASE Writing(p)
        <5>1. ReplaceRaises(p) /\ tmp = NoFile /\ pc[p] = "replace"
          BY <4>1, <2>3 DEF Quiet, Start, NextRun, Finish, DecideFree, ReplaceRaises, LogProposal,
             LogSummary, Writing
        <5>2. FALSE
          BY <1>4, <4>1, <5>1 DEF CacheInv, PaidInv, TypeInv, Place
        <5>3. QED
          BY <5>2
      <4>2. CASE ~Writing(p)
        BY <1>4, <4>2 DEF PaidInv, Writing, TypeInv, SweepTypeOK
      <4>3. QED
        BY <4>1, <4>2
    <3>3. Known' = Known
      BY <1>7, <3>2
    <3>4. QED
      BY <1>1, <2>1, <3>1, <3>3
  <2>4. QED
    BY <2>2, <2>3
<1>9. \A q \in Proc : ~Writing(q)' /\ pc'[q] \notin {"fill", "replace"}
  BY <1>5, <1>6 DEF Writing
<1>10. QED
  BY <1>1, <1>2, <1>4, <1>5, <1>6, <1>8, <1>9 DEF PaidInv

\* A process that is alone pays for what is neither in its view nor in the file.
LEMMA BuyPaid ==
  ASSUME TypeInv, PaidInv, NEW p \in Proc, Buy(p)
  PROVE  PaidInv'
<1> SUFFICES ASSUME ~overlapped' PROVE PaidInv'
  BY DEF PaidInv
<1>1. ~overlapped /\ pc[p] = "decide" /\ Prompt(p) \notin view[p] /\ More(p)
  BY DEF Buy
<1>2. /\ ~raced /\ view[p] = Loaded
      /\ \A q \in Proc \ {p} : pc[q] = "off" /\ view[q] = {}
  BY <1>1 DEF PaidInv
<1>3. \A q \in Proc \ {p} : pc'[q] = "off" /\ view'[q] = {}
  BY <1>2, OthersStay DEF Work, TypeInv
<1>4. /\ pc'[p] = "fill" /\ view'[p] = view[p] \cup {Prompt(p)}
      /\ unsaved' = unsaved /\ cache' = cache
      /\ at' = at /\ decided' = decided
  BY DEF Buy, TypeInv, SweepTypeOK
<1>5. Loaded' = Loaded
  BY <1>4, Opened DEF Loaded, TypeInv, SweepTypeOK
<1>6. Prompt(p)' = Prompt(p)
  BY <1>4 DEF Prompt, Current
<1>7. ~raced'
  BY <1>2 DEF Buy, Writing
<1>8. Known = Loaded /\ Known' = Loaded \cup {Prompt(p)}
  BY <1>2, <1>3, <1>4, <1>5 DEF Known
<1>9. ASSUME NEW k \in Key PROVE paid'[k] <= (IF k \in Known' THEN 1 ELSE 0) + unsaved'
  <2>1. paid[k] <= (IF k \in Known THEN 1 ELSE 0) + unsaved /\ paid[k] \in Nat /\ unsaved \in Nat
    BY <1>1 DEF PaidInv, TypeInv, SweepTypeOK
  <2>2. paid'[k] = IF k = Prompt(p) THEN paid[k] + 1 ELSE paid[k]
    BY DEF Buy, TypeInv, SweepTypeOK
  <2>3. CASE k = Prompt(p)
    <3>1. k \notin Known /\ k \in Known'
      BY <1>1, <1>2, <1>8, <2>3
    <3>2. QED
      BY <1>4, <2>1, <2>2, <2>3, <3>1
  <2>4. CASE k # Prompt(p)
    <3>1. k \in Known' <=> k \in Known
      BY <1>8, <2>4
    <3>2. QED
      BY <1>4, <2>1, <2>2, <2>4, <3>1
  <2>5. QED
    BY <2>3, <2>4
<1>10. view'[p] = Loaded' \cup {Prompt(p)'}
  BY <1>2, <1>4, <1>5, <1>6
<1>11. \A q \in Proc : pc'[q] # "off" => q = p
  BY <1>3
<1>12. \A q \in Proc :
        /\ pc'[q] = "off" => view'[q] = {}
        /\ pc'[q] \notin {"next", "decide", "replace"}
        /\ Writing(q)' => view'[q] = Loaded' \cup {Prompt(q)'}
  BY <1>3, <1>4, <1>10 DEF Writing
<1>13. QED
  BY <1>7, <1>9, <1>11, <1>12 DEF PaidInv

\* It writes what it has in view, which is what is in the file and the answer.
LEMMA FillPaid ==
  ASSUME TypeInv, CacheInv, PaidInv, NEW p \in Proc, Fill(p)
  PROVE  PaidInv'
<1> SUFFICES ASSUME ~overlapped' PROVE PaidInv'
  BY DEF PaidInv
<1>1. ~overlapped /\ pc[p] = "fill" /\ Writing(p)
  BY DEF Fill, Writing, ghosts
<1>2. /\ ~raced /\ view[p] = Loaded \cup {Prompt(p)}
      /\ \A q \in Proc \ {p} : pc[q] = "off" /\ view[q] = {}
  BY <1>1 DEF PaidInv
<1>3. handle[p] = tmp /\ tmp \in Inode /\ tmp # cache
  BY <1>1, <1>2 DEF CacheInv, TypeInv, SweepTypeOK, Place
<1>4. PICK whole \in BOOLEAN :
          inode' = [inode EXCEPT ![tmp] = [data |-> view[p], whole |-> whole]]
  BY <1>3 DEF Fill
<1>5. inode'[tmp].data = view[p] /\ (cache # NoFile => inode'[cache] = inode[cache])
  BY <1>3, <1>4 DEF TypeInv, SweepTypeOK
<1>6. UNCHANGED <<cache, tmp, view, at, decided, paid, unsaved, raced>>
  BY DEF Fill, locals, ghosts
<1>7. Loaded' = Loaded /\ Prompt(p)' = Prompt(p)
  BY <1>5, <1>6 DEF Loaded, Prompt, Current
<1>8. Known' = Known
  BY <1>6, <1>7 DEF Known
<1>9. pc'[p] = "replace" /\ \A q \in Proc \ {p} : pc'[q] = "off" /\ view'[q] = {}
  BY <1>2, <1>6 DEF Fill, TypeInv, SweepTypeOK
<1>10. \A q \in Proc : pc'[q] # "off" => q = p
  BY <1>9
<1>11. \A q \in Proc :
        /\ pc'[q] = "off" => view'[q] = {}
        /\ pc'[q] \notin {"next", "decide"}
        /\ Writing(q)' => view'[q] = Loaded' \cup {Prompt(q)'}
        /\ pc'[q] = "replace" => inode'[tmp'].data = view'[q]
  BY <1>2, <1>5, <1>6, <1>7, <1>9 DEF Writing
<1>12. QED
  BY <1>1, <1>2, <1>6, <1>8, <1>10, <1>11 DEF PaidInv

\* And the file it has written becomes the cache file.
LEMMA ReplacePaid ==
  ASSUME TypeInv, CacheInv, PaidInv, NEW p \in Proc, Replace(p)
  PROVE  PaidInv'
<1> SUFFICES ASSUME ~overlapped' PROVE PaidInv'
  BY DEF PaidInv
<1>1. ~overlapped /\ pc[p] = "replace" /\ Writing(p)
  BY DEF Replace, Writing, ghosts
<1>2. /\ ~raced /\ view[p] = Loaded \cup {Prompt(p)} /\ inode[tmp].data = view[p]
      /\ \A q \in Proc \ {p} : pc[q] = "off" /\ view[q] = {}
  BY <1>1 DEF PaidInv
<1>3. tmp \in Inode /\ tmp # cache /\ tmp # NoFile
  BY DEF Replace, TypeInv, SweepTypeOK
<1>4. cache' = tmp /\ inode'[tmp] = inode[tmp]
  BY <1>3 DEF Replace
<1>5. Loaded' = view[p]
  BY <1>2, <1>3, <1>4 DEF Loaded
<1>6. UNCHANGED <<view, paid, unsaved, raced>>
  BY DEF Replace, ghosts
<1>7. pc'[p] = "decide" /\ \A q \in Proc \ {p} : pc'[q] = "off" /\ view'[q] = {}
  BY <1>2, <1>6 DEF Replace, TypeInv, SweepTypeOK
<1>8. Known = view[p] /\ Known' = view[p]
  BY <1>2, <1>5, <1>6 DEF Known
<1>9. \A q \in Proc : pc'[q] # "off" => q = p
  BY <1>7
<1>10. \A q \in Proc :
        /\ pc'[q] = "off" => view'[q] = {}
        /\ pc'[q] \in {"next", "decide"} => view'[q] = Loaded'
        /\ ~Writing(q)' /\ pc'[q] # "replace"
  BY <1>5, <1>6, <1>7 DEF Writing
<1>11. QED
  BY <1>1, <1>2, <1>6, <1>8, <1>9, <1>10 DEF PaidInv

\* Every step keeps what is said of the answers that were bought.
LEMMA PaidStep == TypeInv /\ CacheInv /\ PaidInv /\ [Next]_vars => PaidInv'
<1> SUFFICES ASSUME TypeInv, CacheInv, PaidInv, [Next]_vars PROVE PaidInv'
  OBVIOUS
<1>1. CASE UNCHANGED vars
  BY <1>1 DEF vars, files, locals, ghosts, PaidInv, Writing, Loaded, Known, Prompt, Current
<1>2. ASSUME NEW p \in Proc, Work(p) \/ Crash(p) PROVE PaidInv'
  BY <1>2, QuietPaid, BuyPaid, FillPaid, ReplacePaid DEF Work, Quiet
<1>3. QED
  BY <1>1, <1>2 DEF Next, Finished

-----------------------------------------------------------------------------
OneEach(s) == \A i, j \in 1 .. Len(s) : s[i] \in Run /\ s[i] = s[j] => i = j

\* Of a log of summaries a line more leaves the runs it had, each once.
LEMMA SummaryAppended ==
  ASSUME NEW s \in Seq(Summary), OneEach(s), NEW line \in Summary,
         line \in Run => line \notin Lines(s)
  PROVE  LET t == Appended(s, line)
         IN  Run \cap Lines(t) \subseteq Lines(s) \cup {line} /\ OneEach(t)
<1> DEFINE t == Appended(s, line)
           m == IF TornEnd(s) THEN Len(s) ELSE Len(s) + 1
<1>1. /\ Len(t) = m /\ m \in Nat \ {0} /\ Len(s) \in Nat
      /\ \A i \in 1 .. m - 1 : t[i] = s[i] /\ i \in 1 .. Len(s)
      /\ t[m] \in {line, Torn, Garbled}
  <2> HIDE DEF m
  <2>1. Torn \in Summary /\ Garbled \in Summary
    BY DEF Summary
  <2> HIDE DEF t
  <2>2. QED
    BY <2>1, AppendsOneLine DEF t, m
<1> HIDE DEF t, m
<1>2. t[m] \in Run => t[m] = line
  BY <1>1, Markers
<1>3. \A i \in 1 .. Len(t) : i = m \/ i \in 1 .. m - 1
  BY <1>1
<1>4. \A i \in 1 .. m - 1 : t[i] \in Lines(s)
  BY <1>1 DEF Lines
<1>5. Run \cap Lines(t) \subseteq Lines(s) \cup {line}
  BY <1>2, <1>3, <1>4 DEF Lines
<1>6. OneEach(t)
  <2> SUFFICES ASSUME NEW i \in 1 .. Len(t), NEW j \in 1 .. Len(t), t[i] \in Run, t[i] = t[j]
               PROVE  i = j
    BY DEF OneEach
  <2>1. CASE i = m \/ j = m
    BY <1>2, <1>3, <1>4, <2>1
  <2>2. CASE i \in 1 .. m - 1 /\ j \in 1 .. m - 1
    BY <1>1, <2>2 DEF OneEach
  <2>3. QED
    BY <1>3, <2>1, <2>2
<1>7. QED
  BY <1>5, <1>6 DEF t

\* A line that is not run r's takes nothing away from what r has logged.
LEMMA LoggedKept ==
  ASSUME proposals \in Seq(Line), NEW line \in Line, proposals' = Appended(proposals, line),
         NEW r \in Run, NEW n \in Nat, Logged(r, n), line \in Record => line.run # r
  PROVE  Logged(r, n)'
<1> DEFINE m == IF TornEnd(proposals) THEN Len(proposals) ELSE Len(proposals) + 1
<1>1. /\ Len(proposals') = m /\ m \in Nat \ {0}
      /\ \A i \in 1 .. Len(proposals) :
            proposals[i] # Torn => proposals'[i] = proposals[i] /\ i \in 1 .. m
      /\ \A i \in 1 .. m - 1 : proposals'[i] = proposals[i] /\ i \in 1 .. Len(proposals)
      /\ proposals'[m] \in {line, Torn, Garbled}
  <2> DEFINE t == Appended(proposals, line)
  <2> HIDE DEF m
  <2>1. Torn \in Line /\ Garbled \in Line
    BY DEF Line
  <2> HIDE DEF t
  <2>2. /\ Len(t) = m /\ m \in Nat \ {0}
        /\ \A i \in 1 .. Len(proposals) :
              proposals[i] # Torn => t[i] = proposals[i] /\ i \in 1 .. m
        /\ \A i \in 1 .. m - 1 : t[i] = proposals[i] /\ i \in 1 .. Len(proposals)
        /\ t[m] \in {line, Torn, Garbled}
    BY <2>1, AppendsOneLine DEF t, m
  <2>3. QED
    BY <2>2 DEF t
<1> HIDE DEF m
<1>2. PICK f \in [1 .. n -> 1 .. Len(proposals)] :
        /\ \A i, j \in 1 .. n : i < j => f[i] < f[j]
        /\ \A i \in 1 .. n : proposals[f[i]] \in {[run |-> r, index |-> i], Garbled}
        /\ \A i \in 1 .. n, k \in OfRun(r) : f[i] < k => \E j \in 1 .. n : f[j] = k
  BY DEF Logged
<1>3. \A i \in 1 .. n : proposals[f[i]] # Torn
  <2>1. \A i \in 1 .. n : [run |-> r, index |-> i] \in Record
    BY DEF Record
  <2>2. QED
    BY <1>2, <2>1, Markers
<1>4. \A i \in 1 .. n : proposals'[f[i]] = proposals[f[i]] /\ f[i] \in 1 .. Len(proposals')
  BY <1>1, <1>2, <1>3
<1>5. OfRun(r)' \subseteq OfRun(r)
  <2> SUFFICES ASSUME NEW k \in 1 .. Len(proposals'), proposals'[k] \in Record,
                      proposals'[k].run = r
               PROVE  k \in OfRun(r)
    BY DEF OfRun
  <2>1. k # m
    BY <1>1, Markers
  <2>2. k \in 1 .. m - 1
    BY <1>1, <2>1
  <2>3. QED
    BY <1>1, <2>2 DEF OfRun
<1>6. f \in [1 .. n -> 1 .. Len(proposals')]
  BY <1>4
<1>7. \A i \in 1 .. n : proposals'[f[i]] \in {[run |-> r, index |-> i], Garbled}
  BY <1>2, <1>4
<1>8. \A i \in 1 .. n, k \in OfRun(r)' : f[i] < k => \E j \in 1 .. n : f[j] = k
  BY <1>2, <1>5
<1>9. QED
  BY <1>2, <1>6, <1>7, <1>8 DEF Logged

\* Its next decision, whole or lost behind a torn line, is the one after those.
LEMMA LoggedGrows ==
  ASSUME proposals \in Seq(Line), NEW r \in Run, NEW n \in Nat, Logged(r, n),
         proposals' = Appended(proposals, [run |-> r, index |-> n + 1])
  PROVE  Logged(r, n + 1)'
<1> DEFINE m == IF TornEnd(proposals) THEN Len(proposals) ELSE Len(proposals) + 1
           line == [run |-> r, index |-> n + 1]
<1>1. line \in Record /\ line \in Line /\ line # Torn
  BY Markers DEF Record, Line
<1>2. /\ Len(proposals') = m /\ m \in Nat \ {0} /\ Len(proposals) \in Nat /\ Len(proposals) <= m
      /\ \A i \in 1 .. Len(proposals) :
            proposals[i] # Torn => proposals'[i] = proposals[i] /\ i \in 1 .. m
      /\ \A i \in 1 .. m - 1 : proposals'[i] = proposals[i] /\ i \in 1 .. Len(proposals)
      /\ proposals'[m] \in {line, Garbled}
      /\ m <= Len(proposals) => proposals[m] = Torn
  <2> DEFINE t == Appended(proposals, line)
  <2>1. proposals' = t
    OBVIOUS
  <2> HIDE DEF m, line, t
  <2>2. Torn \in Line /\ Garbled \in Line
    BY DEF Line
  <2>3. /\ Len(t) = m /\ m \in Nat \ {0} /\ Len(proposals) \in Nat /\ Len(proposals) <= m
        /\ \A i \in 1 .. Len(proposals) :
              proposals[i] # Torn => t[i] = proposals[i] /\ i \in 1 .. m
        /\ \A i \in 1 .. m - 1 : t[i] = proposals[i] /\ i \in 1 .. Len(proposals)
        /\ t[m] \in {line, Garbled}
        /\ m <= Len(proposals) => proposals[m] = Torn
    BY <1>1, <2>2, AppendsOneLine DEF t, m
  <2>4. QED
    BY <2>1, <2>3
<1> HIDE DEF m
<1>3. PICK f \in [1 .. n -> 1 .. Len(proposals)] :
        /\ \A i, j \in 1 .. n : i < j => f[i] < f[j]
        /\ \A i \in 1 .. n : proposals[f[i]] \in {[run |-> r, index |-> i], Garbled}
        /\ \A i \in 1 .. n, k \in OfRun(r) : f[i] < k => \E j \in 1 .. n : f[j] = k
  BY DEF Logged
<1>4. \A i \in 1 .. n : proposals[f[i]] # Torn
  <2>1. \A i \in 1 .. n : [run |-> r, index |-> i] \in Record
    BY DEF Record
  <2>2. QED
    BY <1>3, <2>1, Markers
<1>5. \A i \in 1 .. n : /\ f[i] \in 1 .. m /\ f[i] < m
                        /\ proposals'[f[i]] = proposals[f[i]]
  <2> TAKE i \in 1 .. n
  <2>1. f[i] \in 1 .. Len(proposals) /\ proposals[f[i]] # Torn
    BY <1>3, <1>4
  <2>2. f[i] # m
    BY <1>2, <2>1
  <2>3. QED
    BY <1>2, <2>1, <2>2
<1> DEFINE g == [i \in 1 .. n + 1 |-> IF i = n + 1 THEN m ELSE f[i]]
<1>6. \A i \in 1 .. n + 1 : i = n + 1 \/ i \in 1 .. n
  OBVIOUS
<1>7. g[n + 1] = m /\ \A i \in 1 .. n : g[i] = f[i]
  OBVIOUS
<1>8. g \in [1 .. n + 1 -> 1 .. Len(proposals')]
  BY <1>2, <1>5, <1>6
<1> HIDE DEF g
<1>9. ASSUME NEW i \in 1 .. n + 1, NEW j \in 1 .. n + 1, i < j PROVE g[i] < g[j]
  <2>1. i \in 1 .. n
    BY <1>9
  <2>2. CASE j = n + 1
    BY <1>5, <1>7, <2>1, <2>2
  <2>3. CASE j \in 1 .. n
    BY <1>3, <1>7, <1>9, <2>1, <2>3
  <2>4. QED
    BY <1>6, <2>2, <2>3
<1>10. ASSUME NEW i \in 1 .. n + 1
       PROVE  proposals'[g[i]] \in {[run |-> r, index |-> i], Garbled}
  <2>1. CASE i = n + 1
    BY <1>2, <1>7, <2>1
  <2>2. CASE i \in 1 .. n
    BY <1>3, <1>5, <1>7, <2>2
  <2>3. QED
    BY <1>6, <2>1, <2>2
<1>11. ASSUME NEW i \in 1 .. n + 1, NEW k \in OfRun(r)', g[i] < k
       PROVE  \E j \in 1 .. n + 1 : g[j] = k
  <2>1. k \in 1 .. m /\ proposals'[k] \in Record /\ proposals'[k].run = r
    BY <1>2 DEF OfRun
  <2>2. CASE k = m
    BY <1>7, <2>2
  <2>3. CASE k # m
    <3>1. k \in 1 .. m - 1
      BY <1>2, <2>1, <2>3
    <3>2. k \in OfRun(r)
      BY <1>2, <2>1, <3>1 DEF OfRun
    <3>3. i \in 1 .. n
      BY <1>2, <1>6, <1>7, <1>11, <2>1
    <3>4. PICK j \in 1 .. n : f[j] = k
      BY <1>3, <1>7, <1>11, <3>2, <3>3
    <3>5. j \in 1 .. n + 1 /\ g[j] = k
      BY <1>7, <3>4
    <3>6. QED
      BY <3>5
  <2>4. QED
    BY <2>2, <2>3
<1>12. QED
  BY <1>8, <1>9, <1>10, <1>11 DEF Logged

\* Nothing of a run is logged before its first record is.
LEMMA NothingLogged == ASSUME NEW r PROVE Logged(r, 0)
<1>1. [i \in 1 .. 0 |-> 1] \in [1 .. 0 -> 1 .. Len(proposals)] /\ 1 .. 0 = {}
  OBVIOUS
<1>2. QED
  BY <1>1 DEF Logged

-----------------------------------------------------------------------------
\* Where the other processes are, and what they have still to do.
LEMMA OthersToDo ==
  ASSUME TypeInv, NEW p \in Proc, Work(p) \/ Crash(p), NEW q \in Proc \ {p}
  PROVE  /\ pc'[q] = pc[q] /\ Busy(q)' = Busy(q) /\ ToDo(q)' = ToDo(q)
         /\ Current(q)' = Current(q) /\ logged'[q] = logged[q]
<1>1. /\ pc'[q] = pc[q] /\ completed'[q] = completed[q] /\ at'[q] = at[q]
      /\ logged'[q] = logged[q]
  BY OthersStay DEF TypeInv
<1>2. QED
  BY <1>1 DEF Busy, ToDo, Current

\* The run of a busy process is not one another process has, and not one it has
\* still to do itself.
LEMMA NobodyElses ==
  ASSUME TypeInv, NEW p \in Proc, Busy(p)
  PROVE  /\ \A q \in Proc \ {p} : Busy(q) => Current(q) # Current(p)
         /\ \A q \in Proc : \A i \in ToDo(q) : RunOrder[i] # Current(p)
<1>1. Current(p) \in Mine[p] /\ at[p] \in 1 .. Len(RunOrder) /\ Len(RunOrder) \in Nat
  BY RunsAndPrompts DEF TypeInv, Place
<1>2. \A q \in Proc \ {p} : Mine[q] \cap Mine[p] = {}
  BY SweepAssumption DEF SweepAssumption
<1>3. \A q \in Proc \ {p} : Busy(q) => Current(q) # Current(p)
  BY <1>1, <1>2 DEF TypeInv, Place
<1>4. ASSUME NEW q \in Proc \ {p}, NEW i \in ToDo(q) PROVE RunOrder[i] # Current(p)
  BY <1>1, <1>2 DEF ToDo
<1>5. ASSUME NEW i \in ToDo(p) PROVE RunOrder[i] # Current(p)
  <2>1. i \in 1 .. Len(RunOrder) /\ i # at[p]
    BY <1>1 DEF ToDo
  <2>2. RunOrder[i] # RunOrder[at[p]]
    BY <1>1, <2>1, SweepAssumption DEF SweepAssumption
  <2>3. QED
    BY <2>2 DEF Current
<1>6. QED
  BY <1>3, <1>4, <1>5

\* A process that is gone has nothing to log.
LEMMA GoneIsAhead ==
  ASSUME TypeInv, NEW p \in Proc, Ended(p)
  PROVE  Ahead(p)'
<1>1. pc'[p] = "off"
  BY DEF Ended, TypeInv, SweepTypeOK
<1>2. QED
  BY <1>1 DEF Ahead, Busy

\* The steps that append nothing.
Reading(p) == Start(p) \/ NextRun(p)
Within(p) == DecideFree(p) \/ Buy(p) \/ Fill(p) \/ Replace(p)
Leaving(p) == Finish(p) \/ ReplaceRaises(p) \/ (Crash(p) /\ UNCHANGED logs)

\* They leave a process what it has still to do, or give it what it has read no
\* summary of.
LEMMA QuietAhead ==
  ASSUME TypeInv, LogInv, NEW p \in Proc, Reading(p) \/ Within(p) \/ Leaving(p),
         UNCHANGED logs
  PROVE  Ahead(p)'
<1> USE DEF logs
<1>1. \A r, n : Logged(r, n)' = Logged(r, n)
  BY DEF Logged, OfRun
<1>2. Lines(summaries)' = Lines(summaries)
  BY DEF Lines
<1>3. CASE Start(p)
  <2>1. completed'[p] = Lines(summaries) /\ pc'[p] = "next"
    BY <1>3 DEF Start, TypeInv, SweepTypeOK
  <2>2. QED
    BY <1>2, <2>1 DEF Ahead, Busy, ToDo
<1>4. CASE NextRun(p)
  <2>1. /\ ToDo(p) # {} /\ ToDo(p) \subseteq Nat
        /\ \A i \in ToDo(p) : i > at[p] /\ i \in Int /\ i <= Len(RunOrder)
        /\ at[p] \in Nat
    <3>1. at[p] \in Nat
      BY DEF TypeInv, SweepTypeOK
    <3>2. \A i \in at[p] + 1 .. Len(RunOrder) :
              i \in Nat /\ i > at[p] /\ i \in Int /\ i <= Len(RunOrder)
      BY <3>1, RunsAndPrompts
    <3>3. QED
      BY <1>4, <3>1, <3>2 DEF NextRun, ToDo
  <2>2. PICK i \in ToDo(p) : at'[p] = i
    <3>1. \E i \in ToDo(p) : \A j \in ToDo(p) : i <= j
      BY <2>1, LeastOfNaturals
    <3>2. QED
      BY <1>4, <3>1 DEF NextRun, TypeInv, SweepTypeOK
  <2>3. completed'[p] = completed[p] /\ logged'[p] = 0 /\ pc[p] # "off"
    BY <1>4 DEF NextRun, TypeInv, SweepTypeOK
  <2>4. ToDo(p)' \subseteq ToDo(p)
    BY <2>1, <2>2, <2>3, RunsAndPrompts DEF ToDo
  <2>5. \A j \in ToDo(p) : RunOrder[j] \notin Lines(summaries)
    BY <2>3 DEF LogInv, Ahead
  <2>6. Current(p)' = RunOrder[i] /\ RunOrder[i] \notin Lines(summaries)
    BY <2>2, <2>5 DEF Current
  <2>7. Logged(RunOrder[i], 0)'
    BY <1>1, NothingLogged
  <2>8. Logged(Current(p), logged[p])'
    BY <2>3, <2>6, <2>7
  <2>9. QED
    BY <1>2, <2>4, <2>5, <2>6, <2>8 DEF Ahead
<1>5. CASE Within(p)
  <2>1. UNCHANGED <<at, completed, logged>>
    BY <1>5 DEF Within, DecideFree, Buy, Fill, Replace, locals
  <2>2. Busy(p) /\ pc[p] # "off"
    BY <1>5 DEF Within, DecideFree, Buy, Fill, Replace, Busy
  <2>3. /\ \A i \in ToDo(p) : RunOrder[i] \notin Lines(summaries)
        /\ Current(p) \notin Lines(summaries) /\ Logged(Current(p), logged[p])
    BY <2>2 DEF LogInv, Ahead
  <2>4. ToDo(p)' = ToDo(p) /\ Current(p)' = Current(p)
    BY <2>1 DEF ToDo, Current
  <2>5. Logged(Current(p), logged[p])'
    <3>1. \A r, n : r = Current(p) /\ n = logged[p] => Logged(r, n)'
      BY <1>1, <2>3
    <3>2. logged'[p] = logged[p]
      BY <2>1
    <3>3. QED
      BY <2>4, <3>1, <3>2
  <2>6. QED
    BY <1>2, <2>3, <2>4, <2>5 DEF Ahead
<1>6. CASE Leaving(p)
  BY <1>6, GoneIsAhead DEF Leaving, Finish, ReplaceRaises, Crash
<1>7. QED
  BY <1>3, <1>4, <1>5, <1>6 DEF Reading

\* A step that appends nothing keeps what is said of the logs.
LEMMA QuietLogs ==
  ASSUME TypeInv, LogInv, NEW p \in Proc, Reading(p) \/ Within(p) \/ Leaving(p)
  PROVE  LogInv'
<1>1. UNCHANGED logs
  BY DEF Reading, Within, Leaving, Start, NextRun, DecideFree, Buy, Fill, Replace, Finish,
         ReplaceRaises
<1>2. Work(p) \/ Crash(p)
  BY DEF Reading, Within, Leaving, Work
<1>3. LogsRecoverable'
  <2>1. \A r, n : Logged(r, n)' = Logged(r, n)
    BY <1>1 DEF Logged, OfRun, logs
  <2>2. summaries' = summaries /\ Lines(summaries)' = Lines(summaries)
    BY <1>1 DEF Lines, logs
  <2>3. QED
    BY <2>1, <2>2 DEF LogInv, LogsRecoverable
<1>4. ASSUME NEW q \in Proc \ {p} PROVE Ahead(q)'
  <2>1. /\ pc'[q] = pc[q] /\ Busy(q)' = Busy(q) /\ ToDo(q)' = ToDo(q)
        /\ Current(q)' = Current(q) /\ logged'[q] = logged[q]
    BY <1>2, OthersToDo
  <2>2. Logged(Current(q), logged[q])' = Logged(Current(q), logged[q])
    BY <1>1, <2>1 DEF Logged, OfRun, logs
  <2>3. QED
    BY <1>1, <2>1, <2>2 DEF LogInv, Ahead, Lines, logs
<1>5. Ahead(p)'
  BY <1>1, QuietAhead
<1>6. QED
  BY <1>3, <1>4, <1>5 DEF LogInv

\* A line of a run that has no summary, or a torn one, leaves the other runs what
\* they have logged.
LEMMA OthersLogged ==
  ASSUME TypeInv, LogInv, NEW p \in Proc, Work(p) \/ Crash(p), Busy(p), UNCHANGED summaries,
         NEW line \in Line, proposals' = Appended(proposals, line),
         line \in Record => line.run = Current(p)
  PROVE  LogsRecoverable' /\ \A q \in Proc \ {p} : Ahead(q)'
<1> DEFINE run == Current(p)
<1>1. proposals \in Seq(Line)
  BY DEF TypeInv, SweepTypeOK
<1>2. run \notin Lines(summaries)
  BY DEF LogInv, Ahead
<1>3. ASSUME NEW r \in Run, NEW n \in Nat, r # run, Logged(r, n) PROVE Logged(r, n)'
  BY <1>1, <1>3, LoggedKept
<1>4. Lines(summaries)' = Lines(summaries)
  BY DEF Lines
<1>5. LogsRecoverable'
  <2>1. ASSUME NEW r \in Run \cap Lines(summaries)' PROVE Logged(r, Len(Prompts[r]))'
    <3>1. r # run /\ Len(Prompts[r]) \in Nat /\ Logged(r, Len(Prompts[r]))
      BY <1>2, <1>4, RunsAndPrompts DEF LogInv, LogsRecoverable
    <3>2. QED
      BY <1>3, <3>1
  <2>2. QED
    BY <2>1 DEF LogInv, LogsRecoverable
<1>6. ASSUME NEW q \in Proc \ {p} PROVE Ahead(q)'
  <2>1. /\ pc'[q] = pc[q] /\ Busy(q)' = Busy(q) /\ ToDo(q)' = ToDo(q)
        /\ Current(q)' = Current(q) /\ logged'[q] = logged[q]
    BY OthersToDo
  <2>2. ASSUME Busy(q) PROVE Logged(Current(q), logged[q])'
    <3>1. PICK r \in Run : r = Current(q)
      BY <2>2, AtARun
    <3>2. PICK n \in Nat : n = logged[q]
      BY <2>2, AtARun
    <3>3. r # run /\ Logged(r, n)
      BY <2>2, <3>1, <3>2, NobodyElses DEF LogInv, Ahead
    <3>4. Logged(r, n)'
      BY <1>3, <3>3
    <3>5. Current(q)' = r /\ logged'[q] = n
      BY <2>1, <3>1, <3>2
    <3>6. QED
      BY <3>4, <3>5
  <2>3. QED
    BY <1>4, <2>1, <2>2 DEF LogInv, Ahead
<1>7. QED
  BY <1>5, <1>6

\* A record is the next of its run; half of one is nobody's.
LEMMA ProposalLogs ==
  ASSUME TypeInv, LogInv, NEW p \in Proc, LogProposal(p)
  PROVE  LogInv'
<1>1. Busy(p) /\ Work(p) /\ UNCHANGED <<summaries, at, completed>> /\ pc'[p] = pc[p]
  BY DEF LogProposal, Busy, Work
<1>2. PICK r \in Run, n \in Nat : r = Current(p) /\ n = logged[p]
  BY <1>1, AtARun
<1>3. proposals' = Appended(proposals, [run |-> r, index |-> n + 1]) /\ logged'[p] = n + 1
  BY <1>2 DEF LogProposal, TypeInv, SweepTypeOK
<1>4. [run |-> r, index |-> n + 1] \in Line /\ [run |-> r, index |-> n + 1].run = r
  BY DEF Line, Record
<1>5. LogsRecoverable' /\ \A q \in Proc \ {p} : Ahead(q)'
  BY <1>1, <1>2, <1>3, <1>4, OthersLogged
<1>6. /\ \A i \in ToDo(p) : RunOrder[i] \notin Lines(summaries)
      /\ r \notin Lines(summaries) /\ Logged(r, n)
  BY <1>1, <1>2 DEF LogInv, Ahead, Busy
<1>7. Logged(r, n + 1)'
  BY <1>3, <1>6, LoggedGrows DEF TypeInv, SweepTypeOK
<1>8. ToDo(p)' = ToDo(p) /\ Current(p)' = r /\ Lines(summaries)' = Lines(summaries)
  BY <1>1, <1>2 DEF ToDo, Current, Lines
<1>9. Ahead(p)'
  BY <1>3, <1>6, <1>7, <1>8 DEF Ahead
<1>10. QED
  BY <1>5, <1>9 DEF LogInv

\* The summary of a run that has logged all its decisions, or part of it, may go
\* to its log.
LEMMA SummaryLogs ==
  ASSUME TypeInv, LogInv, NEW p \in Proc, Work(p) \/ Crash(p), Busy(p), ~More(p),
         logged[p] = decided[p], NEW line \in {Current(p), Torn},
         summaries' = Appended(summaries, line), UNCHANGED proposals
  PROVE  /\ LogsRecoverable' /\ \A q \in Proc \ {p} : Ahead(q)'
         /\ \A i \in ToDo(p) : RunOrder[i] \notin Lines(summaries)'
<1> DEFINE run == Current(p)
<1>1. /\ run \in Run /\ run \notin Lines(summaries)
      /\ Logged(run, Len(Prompts[run]))
  BY AtARun DEF LogInv, Ahead, More
<1>2. line \in Summary /\ (line \in Run => line = run) /\ summaries \in Seq(Summary)
  BY <1>1, Markers DEF Summary, TypeInv, SweepTypeOK
<1>3. OneEach(summaries)
  BY DEF LogInv, LogsRecoverable, OneEach
<1>4. Run \cap Lines(summaries)' \subseteq Lines(summaries) \cup {run} /\ OneEach(summaries)'
  <2> DEFINE t == Appended(summaries, line)
  <2>1. Run \cap Lines(t) \subseteq Lines(summaries) \cup {line} /\ OneEach(t)
    BY <1>1, <1>2, <1>3, SummaryAppended
  <2> HIDE DEF t
  <2>2. summaries' = t
    BY DEF t
  <2>3. Lines(summaries)' = Lines(t) /\ OneEach(summaries)' = OneEach(t)
    BY <2>2 DEF Lines, OneEach
  <2>4. QED
    BY <1>2, <2>1, <2>3
<1>5. \A r, n : Logged(r, n)' = Logged(r, n)
  BY DEF Logged, OfRun
<1>6. LogsRecoverable'
  <2>1. ASSUME NEW r \in Run \cap Lines(summaries)' PROVE Logged(r, Len(Prompts[r]))'
    BY <1>1, <1>4, <1>5 DEF LogInv, LogsRecoverable
  <2>2. QED
    BY <1>4, <2>1 DEF LogsRecoverable, OneEach
<1>7. ASSUME NEW q \in Proc, NEW i \in ToDo(q), pc[q] # "off"
      PROVE  RunOrder[i] \notin Lines(summaries)'
  <2>1. RunOrder[i] # run /\ RunOrder[i] \notin Lines(summaries)
    BY <1>7, NobodyElses DEF LogInv, Ahead
  <2>2. RunOrder[i] \in Run
    BY RunsAndPrompts DEF ToDo, TypeInv, SweepTypeOK
  <2>3. QED
    BY <1>4, <2>1, <2>2
<1>8. ASSUME NEW q \in Proc \ {p} PROVE Ahead(q)'
  <2>1. /\ pc'[q] = pc[q] /\ Busy(q)' = Busy(q) /\ ToDo(q)' = ToDo(q)
        /\ Current(q)' = Current(q) /\ logged'[q] = logged[q]
    BY OthersToDo
  <2>2. Logged(Current(q), logged[q])' = Logged(Current(q), logged[q])
    BY <1>5, <2>1
  <2>3. Busy(q) => Current(q) \notin Lines(summaries)'
    BY <1>4, AtARun, NobodyElses DEF LogInv, Ahead
  <2>4. QED
    BY <1>7, <2>1, <2>2, <2>3 DEF LogInv, Ahead
<1>9. QED
  BY <1>6, <1>7, <1>8 DEF Busy

\* The run is over and the process goes on to the next.
LEMMA LogSummaryLogs ==
  ASSUME TypeInv, LogInv, NEW p \in Proc, LogSummary(p)
  PROVE  LogInv'
<1>1. Busy(p) /\ Work(p) /\ UNCHANGED <<proposals, locals>> /\ pc'[p] = "next"
  BY DEF LogSummary, Busy, Work, TypeInv, SweepTypeOK
<1>2. /\ LogsRecoverable' /\ \A q \in Proc \ {p} : Ahead(q)'
      /\ \A i \in ToDo(p) : RunOrder[i] \notin Lines(summaries)'
  BY <1>1, SummaryLogs DEF LogSummary
<1>3. ToDo(p)' = ToDo(p)
  BY <1>1 DEF ToDo, locals
<1>4. Ahead(p)'
  BY <1>1, <1>2, <1>3 DEF Ahead, Busy
<1>5. QED
  BY <1>2, <1>4 DEF LogInv

\* A kill leaves the logs alone, or part of a line at the end of one.
LEMMA CrashLogs ==
  ASSUME TypeInv, LogInv, NEW p \in Proc, Crash(p)
  PROVE  LogInv'
<1>1. Ahead(p)'
  BY GoneIsAhead DEF Crash
<1>2. CASE UNCHANGED logs
  BY <1>2, QuietLogs DEF Leaving
<1>3. CASE /\ pc[p] = "decide" /\ ~More(p) /\ logged[p] < decided[p]
           /\ proposals' = Appended(proposals, Torn) /\ UNCHANGED summaries
  <2>1. Busy(p) /\ Torn \in Line /\ Torn \notin Record
    BY <1>3, Markers DEF Busy, Line
  <2>2. QED
    BY <1>1, <1>3, <2>1, OthersLogged DEF LogInv
<1>4. CASE /\ pc[p] = "decide" /\ ~More(p) /\ ~(logged[p] < decided[p])
           /\ summaries' = Appended(summaries, Torn) /\ UNCHANGED proposals
  <2>1. Busy(p) /\ logged[p] = decided[p]
    BY <1>4, AtARun DEF Busy
  <2>2. QED
    BY <1>1, <1>4, <2>1, SummaryLogs DEF LogInv
<1>5. QED
  BY <1>2, <1>3, <1>4 DEF Crash

\* Every step keeps what is said of the logs.
LEMMA LogStep == TypeInv /\ LogInv /\ [Next]_vars => LogInv'
<1> SUFFICES ASSUME TypeInv, LogInv, [Next]_vars PROVE LogInv'
  OBVIOUS
<1>1. CASE UNCHANGED vars
  <2>1. \A r, n : Logged(r, n)' = Logged(r, n)
    BY <1>1 DEF vars, logs, Logged, OfRun
  <2>2. \A q \in Proc : Busy(q)' = Busy(q) /\ ToDo(q)' = ToDo(q) /\ Current(q)' = Current(q)
    BY <1>1 DEF vars, locals, Busy, ToDo, Current
  <2>3. UNCHANGED <<summaries, pc, logged>> /\ Lines(summaries)' = Lines(summaries)
    BY <1>1 DEF vars, logs, locals, Lines
  <2>4. \A q \in Proc : Ahead(q)' = Ahead(q)
    BY <2>1, <2>2, <2>3 DEF Ahead
  <2>5. LogsRecoverable'
    BY <2>1, <2>3 DEF LogInv, LogsRecoverable
  <2>6. QED
    BY <2>4, <2>5 DEF LogInv
<1>2. ASSUME NEW p \in Proc, Work(p) PROVE LogInv'
  BY <1>2, QuietLogs, ProposalLogs, LogSummaryLogs DEF Work, Reading, Within, Leaving
<1>3. QED
  BY <1>1, <1>2, CrashLogs DEF Next, Finished

\* Nothing is logged, and nobody has anything to log.
LEMMA LogInit == Init => LogInv
<1> SUFFICES ASSUME Init PROVE LogInv
  OBVIOUS
<1>1. Len(summaries) = 0 /\ \A p \in Proc : pc[p] = "off"
  BY DEF Init
<1>2. Lines(summaries) = {} /\ 1 .. Len(summaries) = {}
  BY <1>1 DEF Lines
<1>3. QED
  BY <1>1, <1>2 DEF LogInv, LogsRecoverable, Ahead, Busy

-----------------------------------------------------------------------------
\* No file is written yet, and nobody writes.
LEMMA CacheInit == Init => CacheInv
BY DEF Init, CacheInv, Writing

\* The four together: the promises of the files hold at places that are kept.
LEMMA SweepInductive == Spec => [](TypeInv /\ LogInv /\ CacheInv /\ PaidInv)
<1>1. Init => TypeInv /\ LogInv /\ CacheInv /\ PaidInv
  BY TypeInit, LogInit, CacheInit, PaidInit
<1>2. TypeInv /\ LogInv /\ CacheInv /\ PaidInv /\ [Next]_vars
        => (TypeInv /\ LogInv /\ CacheInv /\ PaidInv)'
  BY TypeStep, LogStep, CacheStep, PaidStep
<1>3. QED
  BY <1>1, <1>2, PTL DEF Spec

\* The logs hold lines, the files answers to prompts of the sweep, and a process
\* is at a run of the order, whatever is killed and whoever races.
THEOREM SweepTyped == Spec => []SweepTypeOK
<1>1. TypeInv => SweepTypeOK
  BY DEF TypeInv
<1>2. QED
  BY <1>1, SweepInductive, PTL

\* run_sweep appends the proposals of a run before its summary, and skips the
\* runs it read a summary of: for any processes with runs of their own, any kills
\* and half-written lines, a run has at most one summary, and a run with one has
\* logged its decisions in order, but for those lost behind a torn line.
THEOREM LogsAlwaysRecover == Spec => []LogsRecoverable
<1>1. LogInv => LogsRecoverable
  BY DEF LogInv
<1>2. QED
  BY <1>1, SweepInductive, PTL

\* ResponseCache.put renames a whole file over cache.json: it is never half
\* written, whatever is killed, as long as two are not in put at the same time.
THEOREM CacheStaysWhole == Spec => []CacheWhole
<1>1. CacheInv => CacheWhole
  BY DEF CacheInv, CacheWhole
<1>2. QED
  BY <1>1, SweepInductive, PTL

\* A sweep that one process runs at a time buys an answer once over all its
\* restarts, and once more for each kill between an answer and its place in the
\* cache file.
THEOREM AnswersPaidOnce == Spec => []PaidOnce
<1>1. TypeInv /\ PaidInv => PaidOnce
  <2> SUFFICES ASSUME TypeInv, PaidInv, ~overlapped, NEW k \in Key
               PROVE  paid[k] <= 1 + unsaved
    BY DEF PaidOnce
  <2>1. paid[k] \in Nat /\ unsaved \in Nat
    BY DEF TypeInv, SweepTypeOK
  <2>2. paid[k] <= (IF k \in Known THEN 1 ELSE 0) + unsaved
    BY DEF PaidInv
  <2>3. QED
    BY <2>1, <2>2
<1>2. QED
  BY <1>1, SweepInductive, PTL
=============================================================================
