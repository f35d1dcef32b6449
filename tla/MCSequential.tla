---------------------------- MODULE MCSequential ----------------------------
(***************************************************************************)
(* Six programs that run by themselves, side by side in one instance: a    *)
(* behaviour picks one of them, the others stay in their initial state.    *)
(*   path      PathSearch, on the topology build_topology makes            *)
(*   replay    JournalReplay, an episode of two attempts and its audit     *)
(*   guard     BudgetGuard, with and without a path                        *)
(*   faults    FaultInjector: two faults on each target, with every choice *)
(*             of windows that abut, nest and interleave: leaks on a       *)
(*             service, degradations on a link, a saturation and a crash   *)
(*             on a node (a surge composes as a latency multiplier does, a *)
(*             link failure as a crash)                                    *)
(*   analysis  StudyAnalysis, an episode of two decisions in every arm     *)
(*   ranks     SignedRanks, up to four differences or three p-values, which *)
(*             have nothing to do with each other                          *)
(***************************************************************************)
EXTENDS BudgetGuard, FaultInjector, JournalReplay, PathSearch, StudyAnalysis, SignedRanks

MCEvent == {"leak1", "leak2", "degradation1", "degradation2", "saturation", "crash"}
MCKind == [e \in MCEvent |-> CASE e \in {"leak1", "leak2"} -> "leak"
                               [] e \in {"degradation1", "degradation2"} -> "degradation"
                               [] OTHER -> e]
MCOf == [e \in MCEvent |-> CASE MCKind[e] = "leak" -> "service"
                             [] MCKind[e] = "degradation" -> "link"
                             [] OTHER -> "node"]
MCMagnitude == [e \in MCEvent |-> IF e \in {"leak2", "degradation2"} THEN 3 ELSE 2]

T == INSTANCE Topology WITH EdgeServers <- 2, Devices <- 1, RedundantLinks <- TRUE

MCNode == T!Nodes
MCLink == ToSet(T!SortedLinks)
MCEnds == T!LinkEnds
MCClient == {T!Device(1)}
MCSorted == T!SortedLinks
MCLimits == {1, 2, NoLimit}

MCDeltas == {-2, 0, 3, 4}

VARIABLES part

-----------------------------------------------------------------------------
IdlePath ==
    /\ source = T!Device(1)
    /\ goal = source /\ nodesUp = {} /\ linksUp = {}
    /\ limit = NoLimit
    /\ frontier = <<>> /\ emitted = <<>> /\ done = FALSE
IdleGuard == onDisk = FALSE /\ GuardInit
IdleInjector == start = [e \in Event |-> 0] /\ duration = [e \in Event |-> 1] /\ InjectorInit
IdleAnalysis == arm = "ungated" /\ StudyInit
IdleRanks == diffs = <<1>> /\ taken = 0 /\ counts = <<>> /\ pvalues = <<>>

\* Two events of one kind differ in their magnitude alone, and contributions
\* commute: of two windows the one that opens (or closes) first is the first's.
InOrder(e, f) ==
    \/ start[e] < start[f]
    \/ start[e] = start[f] /\ duration[e] <= duration[f]

SeqInit ==
    \/ /\ part = "path" /\ SearchInit
       /\ ReplayInit /\ IdleGuard /\ IdleInjector /\ IdleAnalysis /\ IdleRanks
    \/ /\ part = "replay" /\ ReplayInit
       /\ IdlePath /\ IdleGuard /\ IdleInjector /\ IdleAnalysis /\ IdleRanks
    \/ /\ part = "guard" /\ GuardInit
       /\ IdlePath /\ ReplayInit /\ IdleInjector /\ IdleAnalysis /\ IdleRanks
    \/ /\ part = "faults" /\ InjectorInit
       /\ InOrder("leak1", "leak2") /\ InOrder("degradation1", "degradation2")
       /\ IdlePath /\ ReplayInit /\ IdleGuard /\ IdleAnalysis /\ IdleRanks
    \/ /\ part = "analysis" /\ StudyInit
       /\ IdlePath /\ ReplayInit /\ IdleGuard /\ IdleInjector /\ IdleRanks
    \/ /\ part = "ranks"
       /\ diffs = <<1>> \/ pvalues = [i \in 1 .. Tests |-> One]
       /\ RanksInit
       /\ IdlePath /\ ReplayInit /\ IdleGuard /\ IdleInjector /\ IdleAnalysis

Path ==
    /\ part = "path" /\ SearchNext
    /\ UNCHANGED <<part, replayVars, guardVars, injectorVars, studyVars, ranksVars>>
Replay ==
    /\ part = "replay" /\ ReplayNext
    /\ UNCHANGED <<part, searchVars, guardVars, injectorVars, studyVars, ranksVars>>
Guard ==
    /\ part = "guard" /\ GuardNext
    /\ UNCHANGED <<part, searchVars, replayVars, injectorVars, studyVars, ranksVars>>
Injector ==
    /\ part = "faults" /\ InjectorNext
    /\ UNCHANGED <<part, searchVars, replayVars, guardVars, studyVars, ranksVars>>
Analysis ==
    /\ part = "analysis" /\ StudyNext
    /\ UNCHANGED <<part, searchVars, replayVars, guardVars, injectorVars, ranksVars>>
Ranks ==
    /\ part = "ranks" /\ RanksNext
    /\ UNCHANGED <<part, searchVars, replayVars, guardVars, injectorVars, studyVars>>

SeqNext == Path \/ Replay \/ Guard \/ Injector \/ Analysis \/ Ranks

seqVars == <<part, searchVars, replayVars, guardVars, injectorVars, studyVars, ranksVars>>

SeqSpec == SeqInit /\ [][SeqNext]_seqVars
=============================================================================
