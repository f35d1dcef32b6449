------------------------ MODULE DecisionGraphProofs ------------------------
(***************************************************************************)
(* Safety of the decision graph for every set of remedies, retry cap,      *)
(* interval and episode length.                                            *)
(***************************************************************************)
EXTENDS DecisionGraph, TLAPS

Rejected(a) == a \in Remedy \ approves

\* The proposal on its way to execute is the last one made, or the fallback.
ProposalStands == node \in {"validate", "execute"} =>
    \/ proposal = proposals[Len(proposals)].action
    \/ exhausted /\ proposal = NoOp

\* What every step preserves, beside the properties to be proved: where the
\* decision stands, and what its counters and proposals are there.
DecisionInv ==
    /\ ProposalStands
    /\ node = "validate" => gate
    /\ node \in {"propose", "validate"} => rejections = retries /\ ~exhausted
    /\ node \in {"execute", "finalise", "drive"} /\ proposals # <<>> =>
           /\ rejections = IF exhausted THEN retries + 1 ELSE retries
           /\ exhausted => retries = RetryCap
    /\ node = "propose" => Len(proposals) = retries
    /\ node \in {"validate", "execute", "finalise"} => Len(proposals) = retries + 1
    /\ node = "drive" => proposals = <<>> \/ Len(proposals) = retries + 1
    /\ node = "execute" /\ gate => proposal \in approves \cup {NoOp}
    /\ node \in {"propose", "validate", "execute"} => \A i \in 1 .. Len(proposals) :
           proposals[i].verdict = "rejected" => Rejected(proposals[i].action)
    /\ \A i \in 1 .. Len(proposals) : proposals[i].verdict # "none" => gate

Inv == TypeOK /\ DecisionInv /\ GatedExecution /\ RejectedNeverExecutes

-----------------------------------------------------------------------------
WithVerdict(s, v) == [s EXCEPT ![Len(s)].verdict = v]
WithMark(s, m) == [s EXCEPT ![Len(s)].marked = m]

\* Writing the verdict of the last proposal changes nothing else of it.
LEMMA JudgeLast ==
  ASSUME NEW s \in Seq(Entry), s # <<>>, NEW v \in Verdict
  PROVE  LET t == WithVerdict(s, v) IN
         /\ t \in Seq(Entry) /\ Len(t) = Len(s) /\ t # <<>>
         /\ t[Len(s)].verdict = v
         /\ \A i \in 1 .. Len(s) : t[i].action = s[i].action
         /\ \A i \in 1 .. Len(s) : i # Len(s) => t[i] = s[i]
<1> DEFINE t == WithVerdict(s, v)
<1>1. Len(s) \in 1 .. Len(s) /\ s[Len(s)] \in Entry
  OBVIOUS
<1>2. [s[Len(s)] EXCEPT !.verdict = v] \in Entry
  BY <1>1 DEF Entry
<1>3. t = [s EXCEPT ![Len(s)] = [s[Len(s)] EXCEPT !.verdict = v]]
  BY <1>1 DEF WithVerdict
<1> HIDE DEF t
<1>4. t \in Seq(Entry) /\ Len(t) = Len(s)
  BY <1>1, <1>2, <1>3
<1>5. t[Len(s)] = [s[Len(s)] EXCEPT !.verdict = v]
  BY <1>1, <1>3
<1>6. t[Len(s)].verdict = v /\ t[Len(s)].action = s[Len(s)].action
  BY <1>1, <1>5 DEF Entry
<1>7. \A i \in 1 .. Len(s) : i # Len(s) => t[i] = s[i]
  BY <1>3
<1>8. QED
  BY <1>1, <1>4, <1>6, <1>7 DEF t

\* Likewise its mark.
LEMMA MarkLast ==
  ASSUME NEW s \in Seq(Entry), s # <<>>, NEW m \in BOOLEAN
  PROVE  LET t == WithMark(s, m) IN
         /\ t \in Seq(Entry) /\ Len(t) = Len(s) /\ t # <<>>
         /\ \A i \in 1 .. Len(s) : /\ t[i].action = s[i].action
                                   /\ t[i].verdict = s[i].verdict
<1> DEFINE t == WithMark(s, m)
<1>1. Len(s) \in 1 .. Len(s) /\ s[Len(s)] \in Entry
  OBVIOUS
<1>2. [s[Len(s)] EXCEPT !.marked = m] \in Entry
  BY <1>1 DEF Entry
<1>3. t = [s EXCEPT ![Len(s)] = [s[Len(s)] EXCEPT !.marked = m]]
  BY <1>1 DEF WithMark
<1> HIDE DEF t
<1>4. t \in Seq(Entry) /\ Len(t) = Len(s)
  BY <1>1, <1>2, <1>3
<1>5. t[Len(s)] = [s[Len(s)] EXCEPT !.marked = m]
  BY <1>1, <1>3
<1>6. t[Len(s)].verdict = s[Len(s)].verdict /\ t[Len(s)].action = s[Len(s)].action
  BY <1>1, <1>5 DEF Entry
<1>7. \A i \in 1 .. Len(s) : i # Len(s) => t[i] = s[i]
  BY <1>3
<1>8. QED
  BY <1>1, <1>4, <1>6, <1>7 DEF t

-----------------------------------------------------------------------------
\* A loop that has decided nothing yet satisfies every part of Inv.
LEMMA InvInit == Init => Inv
<1> SUFFICES ASSUME Init PROVE Inv
  OBVIOUS
<1>1. NoRecord \in Record
  BY DecisionAssumption DEF NoRecord, Record, Verdict
<1>2. result \in Counters
  BY DEF Init, Counters
<1>3. gate \in BOOLEAN /\ exhausted \in BOOLEAN
  BY DEF Init
<1>4. proposals \in Seq(Entry)
  BY DEF Init
<1>5. TypeOK
  BY <1>1, <1>2, <1>3, <1>4, DecisionAssumption DEF Init, TypeOK, Verdict
<1>6. QED
  BY <1>5 DEF Init, Inv, DecisionInv, ProposalStands, GatedExecution,
              RejectedNeverExecutes, Decided

-----------------------------------------------------------------------------
\* Each step keeps the invariant: first the steps that leave proposals alone.
LEMMA StepInv == Inv /\ Step => Inv'
<1> SUFFICES ASSUME Inv, Step PROVE Inv'
  OBVIOUS
<1> USE DEF Inv
<1>1. tick' \in 0 .. EpisodeTicks
  BY DecisionAssumption DEF Step, TypeOK
<1>2. CASE tick % Interval = 0
  <2>1. /\ node' = "observe" /\ retries' = 0 /\ rejections' = 0
        /\ feedback' = Null
        /\ proposal' \in Action \cup {Null} /\ verdict' \in Verdict
        /\ applied' \in Action \cup {Null}
    BY <1>2 DEF Step
  <2>2. exhausted' \in BOOLEAN /\ gate' \in BOOLEAN
    BY <1>2 DEF Step, TypeOK
  <2>3. TypeOK'
    BY <1>1, <2>1, <2>2, DecisionAssumption DEF Step, TypeOK
  <2>4. QED
    BY <2>1, <2>3
       DEF Step, DecisionInv, ProposalStands, GatedExecution,
           RejectedNeverExecutes, Decided
<1>3. CASE tick % Interval # 0
  <2>1. UNCHANGED <<node, state, first, proposals, record, result, gate>>
    BY <1>3 DEF Step
  <2>2. node = "drive"
    BY DEF Step
  <2>3. TypeOK'
    BY <1>1, <2>1 DEF Step, TypeOK, state
  <2>4. DecisionInv'
    BY <2>1, <2>2 DEF DecisionInv, ProposalStands, state
  <2>5. GatedExecution' /\ RejectedNeverExecutes'
    BY <2>1, <2>2 DEF GatedExecution, RejectedNeverExecutes, Decided, state
  <2>6. QED
    BY <2>3, <2>4, <2>5
<1>4. QED
  BY <1>2, <1>3

\* The observe node keeps Inv.
LEMMA ObserveInv == Inv /\ Observe => Inv'
<1> SUFFICES ASSUME Inv, Observe PROVE Inv'
  OBVIOUS
<1> USE DEF Inv
<1>1. /\ node' = "propose" /\ proposals' = <<>> /\ retries' = 0
      /\ rejections' = 0
  BY DEF Observe
<1>2. exhausted' \in BOOLEAN /\ ~exhausted'
  BY DEF Observe
<1>3. proposals' \in Seq(Entry) /\ Len(proposals') = 0
  BY <1>1
<1>4. TypeOK'
  BY <1>2, <1>3, DecisionAssumption DEF Observe, TypeOK, world, Verdict
<1>5. QED
  BY <1>1, <1>2, <1>3, <1>4
     DEF DecisionInv, ProposalStands, GatedExecution, RejectedNeverExecutes, Decided

\* The propose node keeps Inv: what it proposes is not yet verified.
LEMMA ProposeInv == Inv /\ Propose => Inv'
<1> SUFFICES ASSUME Inv, Propose PROVE Inv'
  OBVIOUS
<1> USE DEF Inv
<1>1. PICK a \in Action :
        /\ node = "propose"
        /\ node' = IF gate THEN "validate" ELSE "execute"
        /\ proposal' = a
        /\ first' = IF first = Null THEN a ELSE first
        /\ proposals' = Append(proposals, [action |-> a, told |-> feedback,
                           verdict |-> "none", marked |-> FALSE])
        /\ UNCHANGED <<world, verdict, feedback, retries, rejections, exhausted,
                       applied, record, result>>
  BY DEF Propose
<1> DEFINE e == [action |-> a, told |-> feedback, verdict |-> "none",
                 marked |-> FALSE]
<1>2. e \in Entry
  BY DEF TypeOK, Entry, Verdict
<1>3. /\ proposals' \in Seq(Entry) /\ Len(proposals') = Len(proposals) + 1
      /\ \A i \in 1 .. Len(proposals) : proposals'[i] = proposals[i]
      /\ proposals'[Len(proposals')] = e
  <2> HIDE DEF e
  <2>1. proposals' = Append(proposals, e) /\ proposals \in Seq(Entry)
    BY <1>1 DEF e, TypeOK
  <2>2. QED
    BY <1>2, <2>1
<1>4. \A i \in 1 .. Len(proposals') : i \in 1 .. Len(proposals) \/ i = Len(proposals')
  BY <1>3 DEF TypeOK
<1>5. TypeOK'
  BY <1>1, <1>3 DEF TypeOK, world
<1>6. DecisionInv'
  <2>1. e.action = a /\ e.verdict = "none"
    OBVIOUS
  <2>2. Len(proposals) = retries /\ rejections = retries /\ ~exhausted
    BY <1>1 DEF DecisionInv, ProposalStands
  <2>3. \A i \in 1 .. Len(proposals') :
          /\ proposals'[i].verdict = "rejected" => Rejected(proposals'[i].action)
          /\ proposals'[i].verdict # "none" => gate
    BY <1>1, <1>3, <1>4, <2>1 DEF DecisionInv, ProposalStands
  <2>4. QED
    BY <1>1, <1>3, <2>1, <2>2, <2>3 DEF DecisionInv, ProposalStands, world, Rejected
<1>7. node' \notin {"finalise", "drive"}
  BY <1>1
<1>8. QED
  BY <1>5, <1>6, <1>7 DEF GatedExecution, RejectedNeverExecutes, Decided

\* Then the verdicts.
LEMMA ApproveInv == Inv /\ Approve => Inv'
<1> SUFFICES ASSUME Inv, Approve PROVE Inv'
  OBVIOUS
<1> USE DEF Inv
<1> DEFINE judged == WithVerdict(proposals, "approved")
<1>1. proposals \in Seq(Entry) /\ proposals # <<>> /\ Len(proposals) = retries + 1
  BY DEF Approve, TypeOK, DecisionInv, ProposalStands
<1>2. /\ judged \in Seq(Entry) /\ Len(judged) = Len(proposals) /\ judged # <<>>
      /\ judged[Len(proposals)].verdict = "approved"
      /\ \A i \in 1 .. Len(proposals) : judged[i].action = proposals[i].action
      /\ \A i \in 1 .. Len(proposals) : i # Len(proposals) => judged[i] = proposals[i]
  BY <1>1, JudgeLast DEF Verdict
<1>3. proposals' = judged
  BY DEF Approve, WithVerdict
<1> HIDE DEF judged
<1>4. /\ proposals' \in Seq(Entry) /\ Len(proposals') = Len(judged)
      /\ proposals' # <<>>
      /\ \A i \in 1 .. Len(judged) : /\ proposals'[i].action = judged[i].action
                                     /\ proposals'[i].verdict = judged[i].verdict
  BY <1>2, <1>3
<1>5. \A i \in 1 .. Len(proposals') :
        /\ proposals'[i].action = proposals[i].action
        /\ i # Len(proposals') => proposals'[i].verdict = proposals[i].verdict
        /\ i = Len(proposals') => proposals'[i].verdict = "approved"
  BY <1>2, <1>4
<1>6. /\ node = "validate" /\ node' = "execute" /\ verdict' = "approved"
      /\ proposal \in approves \cup {NoOp}
      /\ UNCHANGED <<world, proposal, feedback, retries, rejections, exhausted,
                     applied, first, record, result>>
  BY DEF Approve, Judge
<1>7. TypeOK'
  BY <1>4, <1>6 DEF TypeOK, world, Verdict
<1>8. gate /\ Len(proposals') = Len(proposals) /\ Len(proposals) \in 1 .. Len(proposals)
  BY <1>1, <1>2, <1>4, <1>6 DEF DecisionInv, ProposalStands, TypeOK
<1>9. /\ rejections = retries /\ ~exhausted
      /\ proposal = proposals[Len(proposals)].action
  BY <1>6 DEF DecisionInv, ProposalStands
<1>10. \A i \in 1 .. Len(proposals') :
         proposals'[i].verdict = "rejected" => Rejected(proposals'[i].action)
  BY <1>5, <1>6, <1>8 DEF DecisionInv, ProposalStands
<1>11. DecisionInv'
  <2>1. proposal' = proposals'[Len(proposals')].action
    BY <1>5, <1>6, <1>8, <1>9
  <2>2. Len(proposals') = retries' + 1 /\ rejections' = retries' /\ ~exhausted'
    BY <1>1, <1>6, <1>8, <1>9
  <2>3. gate' /\ approves' = approves /\ proposal' \in approves' \cup {NoOp}
    BY <1>6, <1>8 DEF world
  <2>4. QED
    BY <1>4, <1>5, <1>6, <1>8, <1>10, <2>1, <2>2, <2>3
       DEF DecisionInv, ProposalStands, Rejected, world
<1>12. QED
  BY <1>6, <1>7, <1>11 DEF GatedExecution, RejectedNeverExecutes, Decided

\* What Reject and GiveUp do to the proposals.
LEMMA RejectLast ==
  ASSUME Inv, node = "validate", Judge(proposal) = "rejected"
  PROVE  LET t == WithVerdict(proposals, "rejected") IN
         /\ t \in Seq(Entry) /\ Len(t) = retries + 1 /\ t # <<>>
         /\ gate /\ rejections = retries /\ ~exhausted
         /\ \A i \in 1 .. Len(t) : t[i].verdict = "rejected" => Rejected(t[i].action)
<1> DEFINE t == WithVerdict(proposals, "rejected")
<1> USE DEF Inv
<1>1. proposals \in Seq(Entry) /\ proposals # <<>> /\ Len(proposals) = retries + 1
  BY DEF TypeOK, DecisionInv, ProposalStands
<1>2. /\ t \in Seq(Entry) /\ Len(t) = Len(proposals) /\ t # <<>>
      /\ \A i \in 1 .. Len(proposals) : t[i].action = proposals[i].action
      /\ \A i \in 1 .. Len(proposals) : i # Len(proposals) => t[i] = proposals[i]
  BY <1>1, JudgeLast DEF Verdict
<1> HIDE DEF t
<1>3. gate /\ rejections = retries /\ ~exhausted
      /\ proposal = proposals[Len(proposals)].action
  BY DEF DecisionInv, ProposalStands
<1>4. proposal \in Remedy \ approves
  <2>1. Len(proposals) \in 1 .. Len(proposals) /\ proposals[Len(proposals)] \in Entry
    BY <1>1
  <2>2. proposal \in Action
    BY <1>3, <2>1 DEF Entry
  <2>3. QED
    BY <2>2 DEF Judge, Action
<1>5. \A i \in 1 .. Len(t) : t[i].verdict = "rejected" => Rejected(t[i].action)
  BY <1>2, <1>3, <1>4 DEF DecisionInv, ProposalStands, Rejected
<1>6. QED
  BY <1>1, <1>2, <1>3, <1>5 DEF t

\* Rejecting a proposal keeps Inv and counts the attempt.
LEMMA RejectInv == Inv /\ Reject => Inv'
<1> SUFFICES ASSUME Inv, Reject PROVE Inv'
  OBVIOUS
<1> USE DEF Inv
<1>1. /\ proposals' \in Seq(Entry) /\ Len(proposals') = retries + 1
      /\ gate /\ rejections = retries /\ ~exhausted
      /\ \A i \in 1 .. Len(proposals') :
           proposals'[i].verdict = "rejected" => Rejected(proposals'[i].action)
  BY RejectLast DEF Reject, WithVerdict
<1>2. /\ node' = "propose" /\ verdict' = "rejected" /\ feedback' = proposal
      /\ rejections' = rejections + 1 /\ retries' = retries + 1
      /\ retries < RetryCap
      /\ UNCHANGED <<world, proposal, exhausted, applied, first, record, result>>
  BY DEF Reject
<1>3. TypeOK'
  BY <1>1, <1>2, DecisionAssumption DEF TypeOK, world, Verdict
<1>4. DecisionInv'
  BY <1>1, <1>2 DEF DecisionInv, ProposalStands, world, Rejected
<1>5. QED
  BY <1>2, <1>3, <1>4 DEF GatedExecution, RejectedNeverExecutes, Decided

\* Giving up keeps Inv: the no-op takes the place of the rejected proposal.
LEMMA GiveUpInv == Inv /\ GiveUp => Inv'
<1> SUFFICES ASSUME Inv, GiveUp PROVE Inv'
  OBVIOUS
<1> USE DEF Inv
<1>1. /\ proposals' \in Seq(Entry) /\ Len(proposals') = retries + 1
      /\ gate /\ rejections = retries
      /\ \A i \in 1 .. Len(proposals') :
           proposals'[i].verdict = "rejected" => Rejected(proposals'[i].action)
  BY RejectLast DEF GiveUp, WithVerdict
<1>2. /\ node' = "execute" /\ verdict' = "rejected" /\ proposal' = NoOp
      /\ rejections' = rejections + 1 /\ retries = RetryCap
      /\ UNCHANGED <<world, feedback, retries, applied, first, record, result>>
  BY DecisionAssumption DEF GiveUp, TypeOK
<1>3. exhausted' \in BOOLEAN /\ exhausted'
  BY DEF GiveUp
<1>4. TypeOK'
  BY <1>1, <1>2, <1>3, DecisionAssumption DEF TypeOK, world, Verdict, Action
<1>5. DecisionInv'
  BY <1>1, <1>2, <1>3 DEF DecisionInv, ProposalStands, world, Rejected, TypeOK
<1>6. QED
  BY <1>2, <1>4, <1>5 DEF GatedExecution, RejectedNeverExecutes, Decided

-----------------------------------------------------------------------------
\* Then the end of the decision.
LEMMA ExecuteInv == Inv /\ Execute => Inv'
<1> SUFFICES ASSUME Inv, Execute PROVE Inv'
  OBVIOUS
<1> USE DEF Inv
<1>1. /\ node = "execute" /\ node' = "finalise"
      /\ applied' = IF Semantic(proposal) THEN proposal ELSE NoOp
      /\ UNCHANGED <<world, proposal, verdict, feedback, retries, rejections,
                     exhausted, first, record, result>>
  BY DEF Execute
<1>2. proposals \in Seq(Entry) /\ proposals # <<>> /\ Len(proposals) = retries + 1
  BY <1>1 DEF TypeOK, DecisionInv, ProposalStands
<1>3. /\ proposals' \in Seq(Entry) /\ Len(proposals') = Len(proposals)
      /\ \A i \in 1 .. Len(proposals) : /\ proposals'[i].action = proposals[i].action
                                        /\ proposals'[i].verdict = proposals[i].verdict
  <2>1. proposals' = proposals \/ proposals' = WithMark(proposals, TRUE)
    BY DEF Execute, WithMark
  <2>2. CASE proposals' = proposals
    BY <1>2, <2>2
  <2>3. CASE proposals' = WithMark(proposals, TRUE)
    BY <1>2, <2>3, MarkLast
  <2>4. QED
    BY <2>1, <2>2, <2>3
<1>4. Len(proposals) \in 1 .. Len(proposals) /\ proposals[Len(proposals)] \in Entry
  BY <1>2
<1>5. \/ proposal = proposals[Len(proposals)].action
      \/ exhausted /\ proposal = NoOp
  BY <1>1 DEF DecisionInv, ProposalStands
<1>6. proposal \in Action
  BY <1>4, <1>5 DEF Entry, Action
<1>7. TypeOK'
  BY <1>1, <1>3, <1>6 DEF TypeOK, world, Action
<1>8. DecisionInv'
  BY <1>1, <1>2, <1>3 DEF DecisionInv, ProposalStands, world, Rejected
<1>9. GatedExecution'
  <2>1. CASE applied' = NoOp
    BY <2>1 DEF GatedExecution
  <2>2. CASE applied' # NoOp
    <3>1. applied' = proposal /\ proposal \in valid /\ proposal # NoOp
      BY <1>1, <2>2 DEF Semantic
    <3>2. applied' = proposals'[Len(proposals')].action
      BY <1>3, <1>4, <1>5, <3>1
    <3>3. gate => proposal \in approves
      BY <1>1, <3>1 DEF DecisionInv, ProposalStands
    <3>4. QED
      BY <1>1, <3>1, <3>2, <3>3 DEF GatedExecution, world
  <2>3. QED
    BY <2>1, <2>2
<1>10. RejectedNeverExecutes'
  <2>1. applied' = NoOp \/ applied' = proposal
    BY <1>1
  <2>2. ASSUME NEW i \in 1 .. Len(proposals), proposals[i].verdict = "rejected"
        PROVE  applied' # proposals[i].action
    <3>1. gate /\ Rejected(proposals[i].action)
      BY <1>1, <2>2 DEF DecisionInv, ProposalStands
    <3>2. proposal \in approves \cup {NoOp}
      BY <1>1, <3>1 DEF DecisionInv, ProposalStands
    <3>3. QED
      BY <2>1, <3>1, <3>2, DecisionAssumption DEF Rejected
  <2>3. QED
    BY <1>3, <2>2 DEF RejectedNeverExecutes
<1>11. QED
  BY <1>7, <1>8, <1>9, <1>10

\* Recording the decision and adding it to the episode's totals keeps Inv.
LEMMA FinaliseInv == Inv /\ Finalise => Inv'
<1> SUFFICES ASSUME Inv, Finalise PROVE Inv'
  OBVIOUS
<1> USE DEF Inv
<1>1. /\ node = "finalise" /\ node' = "drive"
      /\ UNCHANGED <<world, state, first, proposals>>
  BY DEF Finalise
<1>2. record' \in Record
  BY DEF Finalise, TypeOK, Record
<1>3. result' \in Counters
  <2>1. (IF exhausted THEN 1 ELSE 0) \in Nat
    OBVIOUS
  <2>2. retries \in Nat /\ rejections \in Nat /\ result \in Counters
    BY DEF TypeOK
  <2>3. /\ result.decisions \in Nat /\ result.rejections \in Nat
        /\ result.retries \in Nat /\ result.exhaustions \in Nat
    BY <2>2 DEF Counters
  <2> DEFINE d == result.decisions + 1
             j == result.rejections + rejections
             r == result.retries + retries
             e == result.exhaustions + (IF exhausted THEN 1 ELSE 0)
  <2>4. d \in Nat /\ j \in Nat /\ r \in Nat /\ e \in Nat
    BY <2>1, <2>2, <2>3
  <2>5. result' = [decisions |-> d, rejections |-> j, retries |-> r, exhaustions |-> e]
    BY DEF Finalise
  <2> HIDE DEF d, j, r, e
  <2>6. QED
    BY <2>4, <2>5 DEF Counters
<1>4. TypeOK'
  BY <1>1, <1>2, <1>3 DEF TypeOK, world, state
<1>5. DecisionInv'
  BY <1>1 DEF DecisionInv, ProposalStands, world, state
<1>6. GatedExecution' /\ RejectedNeverExecutes'
  BY <1>1 DEF GatedExecution, RejectedNeverExecutes, Decided, world, state
<1>7. QED
  BY <1>4, <1>5, <1>6

\* An agent that raises ends the episode, and a stutter changes nothing.
LEMMA RestInv == Inv /\ (ProposeRaises \/ Finished \/ UNCHANGED vars) => Inv'
<1> SUFFICES ASSUME Inv, ProposeRaises \/ Finished \/ UNCHANGED vars PROVE Inv'
  OBVIOUS
<1> USE DEF Inv
<1>1. CASE ProposeRaises
  <2>1. /\ node' = "raised"
        /\ UNCHANGED <<world, state, first, proposals, record, result>>
    BY <1>1 DEF ProposeRaises
  <2>2. TypeOK'
    BY <2>1 DEF TypeOK, world, state
  <2>3. DecisionInv'
    BY <2>1 DEF DecisionInv, ProposalStands, world, state
  <2>4. QED
    BY <2>1, <2>2, <2>3 DEF GatedExecution, RejectedNeverExecutes, Decided
<1>2. CASE UNCHANGED vars
  <2>1. UNCHANGED <<world, node, state, first, proposals, record, result>>
    BY <1>2 DEF vars
  <2>2. TypeOK'
    BY <2>1 DEF TypeOK, world, state
  <2>3. DecisionInv'
    BY <2>1 DEF DecisionInv, ProposalStands, world, state, Rejected
  <2>4. GatedExecution' /\ RejectedNeverExecutes'
    BY <2>1 DEF GatedExecution, RejectedNeverExecutes, Decided, world, state
  <2>5. QED
    BY <2>2, <2>3, <2>4
<1>3. QED
  BY <1>1, <1>2 DEF Finished

\* The invariant holds throughout.
LEMMA Invariance == Spec => []Inv
<1>1. Inv /\ [Next]_vars => Inv'
  BY StepInv, ObserveInv, ProposeInv, ApproveInv, RejectInv, GiveUpInv,
     ExecuteInv, FinaliseInv, RestInv DEF Next
<1>2. QED
  BY InvInit, <1>1, PTL DEF Spec

-----------------------------------------------------------------------------
\* Whatever the agent proposes, the state of the graph stays well formed.
THEOREM GraphTyped == Spec => []TypeOK
<1>1. Inv => TypeOK
  BY DEF Inv
<1>2. QED
  BY <1>1, Invariance, PTL

\* What graph.py executes is a no-op or the last proposal, semantically valid,
\* and approved by the twin when the gate is on.
THEOREM OnlyGatedActionsExecute == Spec => []GatedExecution
<1>1. Inv => GatedExecution
  BY DEF Inv
<1>2. QED
  BY <1>1, Invariance, PTL

\* An action the twin rejected in this decision is not the one executed.
THEOREM NoRejectedActionExecutes == Spec => []RejectedNeverExecutes
<1>1. Inv => RejectedNeverExecutes
  BY DEF Inv
<1>2. QED
  BY <1>1, Invariance, PTL

\* The validate node asks for at most retry_cap new proposals, and its counters
\* agree with the proposals it recorded.
THEOREM RetriesWithinCap == Spec => []RetriesBounded
<1>1. Inv => RetriesBounded
  BY DecisionAssumption DEF Inv, TypeOK, DecisionInv, RetriesBounded, Decided
<1>2. QED
  BY <1>1, Invariance, PTL

-----------------------------------------------------------------------------
\* What the decision remembers: each proposal the one before it, the graph's
\* state the first and the last, and no mark before the execution.
OwnInv ==
    /\ \A i \in 1 .. Len(proposals) :
           proposals[i].told = IF i = 1 THEN Null ELSE proposals[i - 1].action
    /\ node = "propose" =>
           feedback = IF proposals = <<>> THEN Null ELSE proposals[Len(proposals)].action
    /\ node \in {"propose", "validate", "execute", "finalise"} =>
           first = IF proposals = <<>> THEN Null ELSE proposals[1].action
    /\ node = "propose" /\ ~gate => verdict = "none"
    /\ node \in {"execute", "finalise"} =>
           verdict = IF gate THEN proposals[Len(proposals)].verdict ELSE "none"
    /\ node = "drive" /\ proposals # <<>> =>
           /\ record.proposed = proposals[1].action
           /\ record.verdict = IF gate THEN proposals[Len(proposals)].verdict ELSE "none"
    /\ node \in {"propose", "validate", "execute"} =>
           \A i \in 1 .. Len(proposals) : ~proposals[i].marked
    /\ MarkedIffExecuted

\* A verdict written to the last proposal leaves what it was told and its mark.
LEMMA JudgeKeeps ==
  ASSUME NEW s \in Seq(Entry), s # <<>>, NEW v \in Verdict
  PROVE  \A i \in 1 .. Len(s) : /\ WithVerdict(s, v)[i].told = s[i].told
                                /\ WithVerdict(s, v)[i].marked = s[i].marked
<1>1. Len(s) \in 1 .. Len(s) /\ s[Len(s)] \in Entry
  OBVIOUS
<1>2. WithVerdict(s, v) = [s EXCEPT ![Len(s)] = [s[Len(s)] EXCEPT !.verdict = v]]
  BY <1>1 DEF WithVerdict
<1>3. /\ [s[Len(s)] EXCEPT !.verdict = v].told = s[Len(s)].told
      /\ [s[Len(s)] EXCEPT !.verdict = v].marked = s[Len(s)].marked
  BY <1>1 DEF Entry
<1>4. QED
  BY <1>1, <1>2, <1>3

\* A mark leaves what each was told and the other marks.
LEMMA MarkKeeps ==
  ASSUME NEW s \in Seq(Entry), s # <<>>, NEW m \in BOOLEAN
  PROVE  /\ \A i \in 1 .. Len(s) : WithMark(s, m)[i].told = s[i].told
         /\ WithMark(s, m)[Len(s)].marked = m
         /\ \A i \in 1 .. Len(s) : i # Len(s) => WithMark(s, m)[i] = s[i]
<1>1. Len(s) \in 1 .. Len(s) /\ s[Len(s)] \in Entry
  OBVIOUS
<1>2. WithMark(s, m) = [s EXCEPT ![Len(s)] = [s[Len(s)] EXCEPT !.marked = m]]
  BY <1>1 DEF WithMark
<1>3. /\ [s[Len(s)] EXCEPT !.marked = m].told = s[Len(s)].told
      /\ [s[Len(s)] EXCEPT !.marked = m].marked = m
  BY <1>1 DEF Entry
<1>4. QED
  BY <1>1, <1>2, <1>3

\* Every step keeps what the graph remembers in agreement with what it did.
LEMMA OwnStep == Inv /\ OwnInv /\ [Next]_vars => OwnInv'
<1> SUFFICES ASSUME Inv, OwnInv, [Next]_vars PROVE OwnInv'
  OBVIOUS
<1>1. CASE Step
  <2>1. /\ UNCHANGED <<gate, proposals, record>>
        /\ node' \in {"observe", node} /\ node = "drive"
    BY <1>1 DEF Step
  <2>2. QED
    BY <2>1 DEF OwnInv, MarkedIffExecuted
<1>2. CASE Observe
  <2>1. /\ proposals' = <<>> /\ node' = "propose" /\ first' = Null
        /\ feedback' = Null /\ verdict' = "none"
    BY <1>2 DEF Observe
  <2>2. QED
    BY <2>1 DEF OwnInv, MarkedIffExecuted
<1>3. CASE Propose
  <2>1. PICK a \in Action :
          /\ first' = IF first = Null THEN a ELSE first
          /\ proposals' = Append(proposals, [action |-> a, told |-> feedback,
                              verdict |-> "none", marked |-> FALSE])
    BY <1>3 DEF Propose
  <2>2. /\ node = "propose" /\ node' = IF gate THEN "validate" ELSE "execute"
        /\ UNCHANGED <<gate, verdict>>
    BY <1>3 DEF Propose, world
  <2> DEFINE last == Len(proposals) + 1
  <2>3. /\ proposals \in Seq(Entry)
        /\ Len(proposals') = last /\ proposals' # <<>> /\ last \in Nat
        /\ proposals'[last] = [action |-> a, told |-> feedback,
                               verdict |-> "none", marked |-> FALSE]
        /\ \A i \in 1 .. Len(proposals) : proposals'[i] = proposals[i]
    BY <2>1 DEF Inv, TypeOK
  <2> HIDE DEF last
  <2>4. ASSUME NEW i \in 1 .. Len(proposals')
        PROVE  /\ proposals'[i].told = IF i = 1 THEN Null ELSE proposals'[i - 1].action
               /\ ~proposals'[i].marked
    <3>1. CASE i = last
      <4>1. proposals = <<>> => last = 1 /\ feedback = Null
        BY <2>2, <2>3 DEF OwnInv, last
      <4>2. proposals # <<>> => /\ last # 1 /\ last - 1 \in 1 .. Len(proposals)
                                /\ feedback = proposals[last - 1].action
        BY <2>2, <2>3 DEF OwnInv, last
      <4>3. QED
        BY <2>3, <3>1, <4>1, <4>2
    <3>2. CASE i # last
      <4>1. i \in 1 .. Len(proposals) /\ (i # 1 => i - 1 \in 1 .. Len(proposals))
        BY <2>3, <3>2 DEF last
      <4>2. QED
        BY <2>2, <2>3, <4>1 DEF OwnInv
    <3>3. QED
      BY <3>1, <3>2
  <2>5. first' = proposals'[1].action
    <3>1. CASE proposals = <<>>
      BY <2>1, <2>2, <2>3, <3>1 DEF OwnInv, last
    <3>2. CASE proposals # <<>>
      <4>1. 1 \in 1 .. Len(proposals) /\ proposals[1].action \in Action
        <5>1. 1 \in 1 .. Len(proposals) /\ proposals[1] \in Entry
          BY <2>3, <3>2
        <5>2. QED
          BY <5>1 DEF Entry
      <4>2. first = proposals[1].action /\ first # Null
        BY <2>2, <3>2, <4>1, DecisionAssumption DEF OwnInv, Action
      <4>3. QED
        BY <2>1, <2>3, <4>1, <4>2
    <3>3. QED
      BY <3>1, <3>2
  <2>6. ~gate => verdict' = "none"
    BY <2>2 DEF OwnInv
  <2>7. QED
    BY <2>2, <2>3, <2>4, <2>5, <2>6 DEF OwnInv, MarkedIffExecuted
<1>4. CASE Approve \/ Reject \/ GiveUp
  <2>1. PICK v \in {"approved", "rejected"} :
          /\ verdict' = v /\ proposals' = WithVerdict(proposals, v)
    BY <1>4 DEF Approve, Reject, GiveUp, WithVerdict
  <2>2. /\ node = "validate" /\ node' \in {"execute", "propose"} /\ UNCHANGED <<gate, first>>
        /\ node' = "propose" => feedback' = proposal
    BY <1>4 DEF Approve, Reject, GiveUp, world
  <2>3. gate /\ proposals \in Seq(Entry) /\ proposals # <<>> /\ v \in Verdict
    BY <2>1, <2>2 DEF Inv, TypeOK, DecisionInv, Verdict
  <2>4. proposal = proposals[Len(proposals)].action
    BY <2>2 DEF Inv, DecisionInv, ProposalStands
  <2>5. /\ Len(proposals') = Len(proposals) /\ proposals' # <<>>
        /\ Len(proposals) \in Nat /\ Len(proposals) # 0
        /\ proposals'[Len(proposals)].verdict = v
        /\ \A i \in 1 .. Len(proposals) : /\ proposals'[i].action = proposals[i].action
                                          /\ proposals'[i].told = proposals[i].told
                                          /\ proposals'[i].marked = proposals[i].marked
    BY <2>1, <2>3, JudgeLast, JudgeKeeps
  <2>6. \A i \in 1 .. Len(proposals') :
          /\ proposals'[i].told = IF i = 1 THEN Null ELSE proposals'[i - 1].action
          /\ ~proposals'[i].marked
    BY <2>2, <2>5 DEF OwnInv
  <2>7. first' = proposals'[1].action
    BY <2>2, <2>3, <2>5 DEF OwnInv
  <2>8. node' = "propose" => feedback' = proposals'[Len(proposals')].action
    BY <2>2, <2>4, <2>5
  <2>9. QED
    BY <2>1, <2>2, <2>3, <2>5, <2>6, <2>7, <2>8 DEF OwnInv, MarkedIffExecuted
<1>5. CASE Execute
  <2>1. /\ node = "execute" /\ node' = "finalise"
        /\ UNCHANGED <<gate, valid, verdict, first, exhausted>>
        /\ applied' = IF Semantic(proposal) THEN proposal ELSE NoOp
        /\ proposals' = IF ~exhausted /\ Semantic(proposal)
                        THEN WithMark(proposals, TRUE) ELSE proposals
    BY <1>5 DEF Execute, world, WithMark
  <2>2. proposals \in Seq(Entry) /\ proposals # <<>>
    BY <2>1 DEF Inv, TypeOK, DecisionInv
  <2>3. ~exhausted => proposal = proposals[Len(proposals)].action
    BY <2>1 DEF Inv, DecisionInv, ProposalStands
  <2> DEFINE marked == WithMark(proposals, TRUE)
  <2>0. /\ Len(marked) = Len(proposals) /\ marked # <<>> /\ marked[Len(proposals)].marked
        /\ \A i \in 1 .. Len(proposals) :
              /\ marked[i].action = proposals[i].action
              /\ marked[i].verdict = proposals[i].verdict
              /\ marked[i].told = proposals[i].told
              /\ i # Len(proposals) => marked[i] = proposals[i]
    <3>1. TRUE \in BOOLEAN
      OBVIOUS
    <3>2. /\ Len(marked) = Len(proposals) /\ marked # <<>>
          /\ \A i \in 1 .. Len(proposals) : /\ marked[i].action = proposals[i].action
                                            /\ marked[i].verdict = proposals[i].verdict
      BY <2>2, <3>1, MarkLast
    <3>3. /\ \A i \in 1 .. Len(proposals) : marked[i].told = proposals[i].told
          /\ marked[Len(proposals)].marked
          /\ \A i \in 1 .. Len(proposals) : i # Len(proposals) => marked[i] = proposals[i]
      BY <2>2, <3>1, MarkKeeps
    <3>4. QED
      BY <3>2, <3>3
  <2> HIDE DEF marked
  <2>4. /\ Len(proposals') = Len(proposals) /\ proposals' # <<>>
        /\ Len(proposals) \in Nat /\ Len(proposals) # 0
        /\ \A i \in 1 .. Len(proposals) : /\ proposals'[i].action = proposals[i].action
                                          /\ proposals'[i].verdict = proposals[i].verdict
                                          /\ proposals'[i].told = proposals[i].told
    <3>1. CASE ~exhausted /\ Semantic(proposal)
      <4>1. proposals' = marked
        BY <2>1, <3>1 DEF marked
      <4>2. QED
        BY <2>2, <2>0, <4>1
    <3>2. CASE ~(~exhausted /\ Semantic(proposal))
      <4>1. proposals' = proposals
        BY <2>1, <3>2
      <4>2. QED
        BY <2>2, <4>1
    <3>3. QED
      BY <3>1, <3>2
  <2>5. MarkedIffExecuted'
    <3> SUFFICES ASSUME NEW i \in 1 .. Len(proposals)
                 PROVE  proposals'[i].marked <=>
                          /\ i = Len(proposals) /\ ~exhausted
                          /\ Semantic(proposals[i].action)
                          /\ applied' = proposals[i].action
      BY <2>1, <2>4 DEF MarkedIffExecuted, Semantic
    <3>1. CASE ~exhausted /\ Semantic(proposal)
      <4>1. proposals' = marked
        BY <2>1, <3>1 DEF marked
      <4>2. CASE i = Len(proposals)
        <5>1. proposals'[i].marked
          BY <2>0, <4>1, <4>2
        <5>2. proposal = proposals[i].action /\ applied' = proposal
          BY <2>1, <2>3, <3>1, <4>2
        <5>3. QED
          BY <3>1, <4>2, <5>1, <5>2
      <4>3. CASE i # Len(proposals)
        <5>1. proposals'[i] = proposals[i]
          BY <2>0, <4>1, <4>3
        <5>2. ~proposals[i].marked
          BY <2>1 DEF OwnInv
        <5>3. QED
          BY <4>3, <5>1, <5>2
      <4>4. QED
        BY <4>2, <4>3
    <3>2. CASE ~(~exhausted /\ Semantic(proposal))
      <4>1. proposals' = proposals
        BY <2>1, <3>2
      <4>2. ~proposals[i].marked
        BY <2>1 DEF OwnInv
      <4>3. i = Len(proposals) /\ ~exhausted => ~Semantic(proposals[i].action)
        BY <2>3, <3>2
      <4>4. QED
        BY <4>1, <4>2, <4>3
    <3>3. QED
      BY <3>1, <3>2
  <2>6. \A i \in 1 .. Len(proposals') :
          proposals'[i].told = IF i = 1 THEN Null ELSE proposals'[i - 1].action
    BY <2>4 DEF OwnInv
  <2>7. first' = proposals'[1].action
    <3>1. first = proposals[1].action /\ 1 \in 1 .. Len(proposals)
      BY <2>1, <2>2 DEF OwnInv
    <3>2. QED
      BY <2>1, <2>4, <3>1
  <2>8. verdict' = IF gate THEN proposals'[Len(proposals')].verdict ELSE "none"
    <3>1. verdict = IF gate THEN proposals[Len(proposals)].verdict ELSE "none"
      BY <2>1 DEF OwnInv
    <3>2. Len(proposals) \in 1 .. Len(proposals)
      BY <2>4
    <3>3. QED
      BY <2>1, <2>4, <3>1, <3>2
  <2>9. QED
    BY <2>1, <2>4, <2>5, <2>6, <2>7, <2>8 DEF OwnInv
<1>6. CASE Finalise
  <2>1. /\ node = "finalise" /\ node' = "drive" /\ UNCHANGED <<gate, proposals>>
        /\ record'.proposed = first /\ record'.verdict = verdict
    BY <1>6 DEF Finalise, world
  <2>2. QED
    BY <2>1 DEF OwnInv, MarkedIffExecuted
<1>7. CASE ProposeRaises
  <2>1. node' = "raised" /\ UNCHANGED proposals
    BY <1>7 DEF ProposeRaises
  <2>2. QED
    BY <2>1 DEF OwnInv, MarkedIffExecuted
<1>8. CASE Finished \/ UNCHANGED vars
  <2>1. UNCHANGED <<world, node, state, first, proposals, record>>
    BY <1>8 DEF Finished, vars
  <2>2. QED
    BY <2>1 DEF OwnInv, MarkedIffExecuted, Semantic, world, state
<1>9. QED
  BY <1>1, <1>2, <1>3, <1>4, <1>5, <1>6, <1>7, <1>8 DEF Next

\* And so the two agree in every reachable state.
LEMMA OwnInvariance == Spec => []OwnInv
<1>1. Init => OwnInv
  BY DEF Init, OwnInv, MarkedIffExecuted
<1>2. QED
  BY <1>1, OwnStep, Invariance, PTL DEF Spec

\* What an earlier decision or episode left in the thread's checkpoint enters
\* neither the feedback the agent is given nor the record of this decision.
THEOREM DecisionsAreOwn == Spec => []DecisionIsOwn
<1>1. OwnInv => DecisionIsOwn
  BY DEF OwnInv, DecisionIsOwn
<1>2. QED
  BY <1>1, OwnInvariance, PTL

\* was_applied is set on the executed proposal and on no other.
THEOREM MarksAreTrue == Spec => []MarkedIffExecuted
<1>1. OwnInv => MarkedIffExecuted
  BY DEF OwnInv
<1>2. QED
  BY <1>1, OwnInvariance, PTL

-----------------------------------------------------------------------------
\* Each step of the graph is a step of GatedDecision or leaves it alone.
LEMMA StepRefines == Inv /\ [Next]_vars => [Promise!Next]_(Promise!vars)
<1> SUFFICES ASSUME Inv, [Next]_vars PROVE [Promise!Next]_(Promise!vars)
  OBVIOUS
<1> DEFINE ex == IF node = "finalise" THEN applied ELSE Null
<1>1. CASE Step
  <2>1. node \in {"drive"} /\ node' \in {"drive", "observe"} /\ gate' = gate
        /\ valid' \subseteq Remedy /\ approves' \subseteq Remedy
    BY <1>1 DEF Step
  <2>2. ex' = Null
    BY <2>1
  <2>3. Promise!Advance
    BY <2>1, <2>2 DEF Promise!Advance
  <2>4. QED
    BY <2>3 DEF Promise!Next
<1>2. CASE Execute
  <2>1. /\ node = "execute" /\ node' = "finalise"
        /\ applied' = IF Semantic(proposal) THEN proposal ELSE NoOp
        /\ UNCHANGED world
    BY <1>2 DEF Execute
  <2>2. gate => proposal \in approves \cup {NoOp}
    BY <2>1 DEF Inv, DecisionInv
  <2>3. applied' \in {NoOp} \cup Promise!Allowed
    BY <2>1, <2>2 DEF Semantic, Promise!Allowed, Inv, TypeOK
  <2>4. ex = Null /\ ex' = applied'
    BY <2>1
  <2>5. Promise!Decide
    BY <2>1, <2>3, <2>4 DEF Promise!Decide, world
  <2>6. QED
    BY <2>5 DEF Promise!Next
<1>3. CASE Finalise
  <2>1. node' = "drive" /\ UNCHANGED world
    BY <1>3 DEF Finalise
  <2>2. ex' = Null
    BY <2>1
  <2>3. Promise!Advance
    BY <2>1, <2>2 DEF Promise!Advance, world, Inv, TypeOK
  <2>4. QED
    BY <2>3 DEF Promise!Next
<1>4. CASE Observe \/ Propose \/ ProposeRaises \/ Approve \/ Reject \/ GiveUp
  <2>1. UNCHANGED world /\ node # "finalise" /\ node' # "finalise"
    <3>1. CASE Propose
      BY <3>1 DEF Propose
    <3>2. CASE Observe \/ ProposeRaises \/ Approve \/ Reject \/ GiveUp
      BY <3>2 DEF Observe, ProposeRaises, Approve, Reject, GiveUp
    <3>3. QED
      BY <1>4, <3>1, <3>2
  <2>2. ex = Null /\ ex' = Null
    BY <2>1
  <2>3. UNCHANGED Promise!vars
    BY <2>1, <2>2 DEF Promise!vars, world
  <2>4. QED
    BY <2>3
<1>5. CASE Finished \/ UNCHANGED vars
  <2>1. UNCHANGED <<world, node, state>>
    BY <1>5 DEF Finished, vars
  <2>2. UNCHANGED <<gate, valid, approves, node, applied>>
    BY <2>1 DEF world, state
  <2>3. UNCHANGED Promise!vars
    BY <2>2 DEF Promise!vars
  <2>4. QED
    BY <2>3
<1>6. QED
  BY <1>1, <1>2, <1>3, <1>4, <1>5 DEF Next

\* The loop of graph.py, with its retries, its fallback and its late semantic
\* check, decides as GatedDecision promises.
THEOREM KeepsPromise == Spec => ImplementsGatedDecision
<1>1. Init => Promise!Init
  BY DEF Init, Promise!Init
<1>2. QED
  BY <1>1, StepRefines, Invariance, PTL DEF Spec, ImplementsGatedDecision, Promise!Spec
=============================================================================
