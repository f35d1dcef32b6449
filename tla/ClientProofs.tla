---------------------------- MODULE ClientProofs ----------------------------
(***************************************************************************)
(* The two sides of the LLM client.  First the agent that calls it: safety *)
(* of decide for every set of remedies, every deadline, reserve and bound  *)
(* on steps, retries, attempts and waiting.  Then the budget that a single *)
(* process gives it: BudgetGuard implements CallBudget for every ceiling,  *)
(* reservation and overrun.                                                *)
(***************************************************************************)
EXTENDS LlmAgent, BudgetGuard, TLAPS

Busy == at \in {"charge", "request", "reply"}

\* A step is left for the final call, and every step before the present one
\* has been a tool call, a bad reply or an inadmissible action.
StepsAccounted ==
    /\ at = "loop" => /\ ~final /\ steps < MaxSteps
                      /\ malformed + rejected + tools <= steps
    /\ Busy => /\ malformed + rejected + tools < steps
               /\ ~final => steps < MaxSteps

\* Unless an answer came late, the reserve is whole but for the waiting.
ReserveKept ==
    ~late =>
        /\ at = "loop" \/ (at = "reply" /\ ~final) => Timeout - now >= Reserve - waited
        /\ at = "charge" /\ ~final => Timeout - now - granted >= Reserve - waited
        /\ at = "request" /\ ~final => Timeout - due >= Reserve - waited
        /\ at = "charge" /\ final => granted >= Least(CallTimeout, Reserve - waited)

\* The deadlines of a call that is being made.
DeadlinesNest ==
    /\ at = "loop" => now <= Timeout + waited
    /\ at = "charge" => granted > 0 /\ now + granted <= Timeout + waited
    /\ at = "request" => due <= Timeout + waited /\ attempt > 0
    /\ at = "reply" => now <= Timeout + Overrun + waited

Inv ==
    /\ TypeOK /\ StepsAccounted /\ ReserveKept /\ DeadlinesNest
    /\ at = "returned" => last = action
    /\ RequestsInTime /\ ReturnsAdmissible /\ TraceAgrees

\* An agent that has not decided yet satisfies every part of Inv.
LEMMA InitInv == Init => Inv
<1> SUFFICES ASSUME Init PROVE Inv
  OBVIOUS
<1>1. /\ now \in 0 .. Timeout + Overrun + MaxWait /\ due \in 0 .. Timeout + MaxWait
      /\ granted \in 0 .. Timeout /\ waited \in 0 .. MaxWait /\ attempt \in 0 .. MaxAttempts
      /\ steps \in 0 .. MaxSteps /\ malformed \in 0 .. MaxSteps
      /\ rejected \in 0 .. MaxSteps /\ tools \in 0 .. MaxSteps
  BY AgentAssumption DEF Init, AgentAssumption
<1>2. outcome \in Resolved \cup Unresolved /\ final \in BOOLEAN /\ fallback \in BOOLEAN
      /\ late \in BOOLEAN
  BY DEF Init, Resolved, Unresolved
<1>3. TypeOK
  BY <1>1, <1>2 DEF Init, TypeOK
<1>4. QED
  BY <1>3 DEF Init, Inv, StepsAccounted, ReserveKept, DeadlinesNest, RequestsInTime,
     ReturnsAdmissible, TraceAgrees, Busy

\* A new call of decide has everything before it.
LEMMA EnterInv == Inv /\ (Decide \/ DecideAgain) => Inv'
<1> SUFFICES ASSUME Inv, Decide \/ DecideAgain PROVE Inv'
  OBVIOUS
<1> USE AgentAssumption DEF AgentAssumption
<1>1. Enter /\ valid' \subseteq Remedy /\ refused' \in Remedy \cup {Null}
  BY DEF Inv, TypeOK, Decide, DecideAgain, Action, Enter
<1>2. TypeOK'
  <2>1. (/\ now \in 0 .. Timeout + Overrun + MaxWait /\ due \in 0 .. Timeout + MaxWait
         /\ granted \in 0 .. Timeout /\ waited \in 0 .. MaxWait
         /\ attempt \in 0 .. MaxAttempts /\ steps \in 0 .. MaxSteps
         /\ malformed \in 0 .. MaxSteps /\ rejected \in 0 .. MaxSteps
         /\ tools \in 0 .. MaxSteps)'
    BY <1>1 DEF Enter
  <2>2. (/\ outcome \in Resolved \cup Unresolved /\ final \in BOOLEAN
         /\ fallback \in BOOLEAN /\ late \in BOOLEAN)'
    BY <1>1 DEF Enter, Resolved, Unresolved
  <2>3. QED
    BY <1>1, <2>1, <2>2 DEF Inv, TypeOK, Enter
<1>3. QED
  BY <1>1, <1>2 DEF Inv, Enter, StepsAccounted, ReserveKept, DeadlinesNest,
     RequestsInTime, ReturnsAdmissible, TraceAgrees, Busy

\* A failure to decide leaves a trace that says so.
LEMMA FailInv ==
  ASSUME Inv, NEW o \in {"timeout", "provider_budget_exhausted", "provider_error"},
         Fail(o), steps' \in 0 .. MaxSteps, final' \in BOOLEAN,
         now' \in 0 .. Timeout + Overrun + MaxWait, attempt' = attempt, due' = due,
         granted' = granted, late' \in BOOLEAN, waited' = waited
  PROVE  Inv'
<1> USE AgentAssumption DEF AgentAssumption, Fail, Return
<1>1. TypeOK'
  BY DEF Inv, TypeOK, Resolved, Unresolved, Action
<1>2. (StepsAccounted /\ ReserveKept /\ DeadlinesNest /\ RequestsInTime)'
  BY DEF StepsAccounted, ReserveKept, DeadlinesNest, RequestsInTime, Busy
<1>3. ReturnsAdmissible'
  BY DEF Inv, TypeOK, ReturnsAdmissible
<1>4. TraceAgrees'
  BY DEF TraceAgrees, Unresolved
<1>5. QED
  BY <1>1, <1>2, <1>3, <1>4 DEF Inv
-----------------------------------------------------------------------------
\* A turn of decide's loop, up to the submission of a request, keeps Inv.
LEMMA IterateInv == Inv /\ Iterate => Inv'
<1> SUFFICES ASSUME Inv, Iterate PROVE Inv'
  OBVIOUS
<1> USE AgentAssumption DEF AgentAssumption
<1>1. CASE OutOfTime
  BY <1>1, FailInv DEF OutOfTime, Inv, TypeOK, clock
<1>2. CASE CacheHit
  <2>1. TypeOK'
    BY <1>2 DEF Inv, TypeOK, CacheHit, Start, StepsAccounted, IsFinal, clock
  <2>2. StepsAccounted'
    BY <1>2 DEF Inv, TypeOK, CacheHit, Start, StepsAccounted, IsFinal, clock, Busy
  <2>3. (ReserveKept /\ DeadlinesNest)'
    BY <1>2 DEF Inv, TypeOK, CacheHit, Start, ReserveKept, DeadlinesNest, clock
  <2>4. QED
    BY <1>2, <2>1, <2>2, <2>3 DEF Inv, CacheHit, Start, RequestsInTime,
       ReturnsAdmissible, TraceAgrees, clock
<1>3. CASE CacheMiss
  BY <1>3 DEF Inv, TypeOK, CacheMiss, Start, StepsAccounted, IsFinal, clock, Busy,
     ReserveKept, DeadlinesNest, RequestsInTime, ReturnsAdmissible, TraceAgrees
<1>4. CASE Charge
  <2>1. Grant \in 1 .. Timeout /\ now + Grant <= Timeout
    BY <1>4 DEF Inv, TypeOK, Charge, Start, Grant, IsFinal, Least
  <2>2. TypeOK'
    BY <1>4, <2>1 DEF Inv, TypeOK, Charge, Start, StepsAccounted, IsFinal
  <2>3. StepsAccounted'
    BY <1>4 DEF Inv, TypeOK, Charge, Start, StepsAccounted, IsFinal, Busy
  <2>4. ReserveKept'
    BY <1>4, <2>1 DEF Inv, TypeOK, Charge, Start, ReserveKept, Grant, IsFinal, Least
  <2>5. DeadlinesNest'
    BY <1>4, <2>1 DEF Inv, TypeOK, Charge, Start, DeadlinesNest
  <2>6. QED
    BY <1>4, <2>2, <2>3, <2>4, <2>5 DEF Inv, Charge, Start, RequestsInTime,
       ReturnsAdmissible, TraceAgrees
<1>5. CASE CallRefused
  BY <1>5, FailInv DEF CallRefused, Inv, TypeOK, clock
<1>6. CASE Submit
  <2>1. TypeOK'
    BY <1>6 DEF Inv, TypeOK, Submit, DeadlinesNest, trace, Action
  <2>2. (StepsAccounted /\ ReserveKept /\ DeadlinesNest)'
    BY <1>6 DEF Inv, TypeOK, Submit, StepsAccounted, ReserveKept, DeadlinesNest, Busy, trace
  <2>3. RequestsInTime'
    BY <1>6 DEF Inv, TypeOK, Submit, RequestsInTime, ReserveKept, DeadlinesNest, trace
  <2>4. QED
    BY <1>6, <2>1, <2>2, <2>3 DEF Inv, Submit, ReturnsAdmissible, TraceAgrees, trace
<1>7. CASE Wait
  <2>1. TypeOK'
    BY <1>7 DEF Inv, TypeOK, Wait, DeadlinesNest, trace
  <2>2. StepsAccounted'
    BY <1>7 DEF Inv, TypeOK, Wait, StepsAccounted, Busy, trace
  <2>3. (ReserveKept /\ DeadlinesNest)'
    BY <1>7 DEF Inv, TypeOK, Wait, ReserveKept, DeadlinesNest, Least, trace
  <2>4. QED
    BY <1>7, <2>1, <2>2, <2>3 DEF Inv, Wait, RequestsInTime, ReturnsAdmissible,
       TraceAgrees, trace
<1>8. QED
  BY <1>1, <1>2, <1>3, <1>4, <1>5, <1>6, <1>7 DEF Iterate

\* When an attempt ends its deadline bounds the time.
LEMMA EndsInTime ==
  ASSUME Inv, Ends
  PROVE  /\ now' \in 0 .. Timeout + Overrun + MaxWait /\ now' <= Timeout + Overrun + waited
         /\ late' \in BOOLEAN
         /\ ~late' => ~late /\ now' <= due
<1>1. late' \in BOOLEAN /\ (~late' => ~late /\ ~(now' > due))
  BY Zenon DEF Ends
<1>2. QED
  BY <1>1, AgentAssumption DEF AgentAssumption, Inv, TypeOK, Ends, DeadlinesNest,
     RequestsInTime

\* What the provider does with a request, and its retries, keep Inv.
LEMMA ProviderInv == Inv /\ Provider => Inv'
<1> SUFFICES ASSUME Inv, Provider PROVE Inv'
  OBVIOUS
<1> USE AgentAssumption DEF AgentAssumption
<1>1. CASE Answer
  <2>1. Ends
    BY <1>1 DEF Answer
  <2>2. TypeOK'
    BY <1>1, <2>1, EndsInTime DEF Inv, TypeOK, Answer, Ends
  <2>3. StepsAccounted'
    BY <1>1 DEF Inv, Answer, Ends, StepsAccounted, Busy
  <2>4. ReserveKept'
    <3>1. SUFFICES ASSUME ~late', ~final PROVE Timeout - now' >= Reserve - waited
      BY <1>1 DEF Answer, Ends, ReserveKept
    <3>2. Timeout - due >= Reserve - waited /\ due \in Int /\ waited \in Int
      BY <2>1, <3>1, EndsInTime DEF Inv, TypeOK, Ends, ReserveKept
    <3>3. now' <= due /\ now' \in Int
      BY <2>1, <3>1, EndsInTime
    <3>4. PICK t \in Int : t = now'
      BY <3>3
    <3>5. t <= due
      BY <3>3, <3>4
    <3>6. Timeout - t >= Reserve - waited
      BY <3>2, <3>5
    <3>7. QED
      BY <3>4, <3>6
  <2>5. DeadlinesNest'
    BY <1>1, <2>1, EndsInTime DEF Answer, Ends, DeadlinesNest
  <2>6. QED
    BY <1>1, <2>2, <2>3, <2>4, <2>5 DEF Inv, Answer, Ends, RequestsInTime,
       ReturnsAdmissible, TraceAgrees
<1>2. CASE AnswerOverBudget \/ RequestFails \/ RequestTimesOut \/ NoTimeToRetry
  <2>1. Ends /\ attempt' = attempt
    BY <1>2 DEF AnswerOverBudget, RequestFails, RequestTimesOut, NoTimeToRetry
  <2>2. \E o \in {"timeout", "provider_budget_exhausted", "provider_error"} : Fail(o)
    BY <1>2 DEF AnswerOverBudget, RequestFails, RequestTimesOut, NoTimeToRetry
  <2>3. steps' \in 0 .. MaxSteps /\ final' \in BOOLEAN /\ due' = due
        /\ granted' = granted /\ waited' = waited
    BY <2>1 DEF Inv, TypeOK, Ends
  <2>4. QED
    BY <2>1, <2>2, <2>3, EndsInTime, FailInv
<1>3. CASE Retry
  <2>1. Backoff \in Nat
    <3>1. attempt - 1 \in 0 .. MaxAttempts
      BY <1>3 DEF Inv, TypeOK, DeadlinesNest, Retry
    <3>2. QED
      BY <3>1, BackoffAssumption DEF Backoff
  <2>2. now' < due /\ now' \in Nat /\ late' = late
    BY <1>3, <2>1 DEF Inv, TypeOK, Retry
  <2>3. attempt' \in 1 .. MaxAttempts
    BY <1>3 DEF Inv, TypeOK, Retry
  <2>4. TypeOK'
    BY <1>3, <2>2, <2>3 DEF Inv, TypeOK, Retry, DeadlinesNest, trace
  <2>5. (StepsAccounted /\ ReserveKept /\ DeadlinesNest)'
    BY <1>3, <2>2, <2>3 DEF Inv, Retry, StepsAccounted, ReserveKept, DeadlinesNest,
       Busy, trace
  <2>6. RequestsInTime'
    BY <1>3, <2>2 DEF Inv, Retry, RequestsInTime, trace
  <2>7. QED
    BY <1>3, <2>4, <2>5, <2>6 DEF Inv, Retry, ReturnsAdmissible, TraceAgrees, trace
<1>4. QED
  BY <1>1, <1>2, <1>3 DEF Provider

-----------------------------------------------------------------------------
\* A reply that settles nothing, whichever of the two counters it adds to.
LEMMA GoOnInv ==
  ASSUME Inv, Read, NEW o \in {"final_parse_failure", "validation_exhausted"}, GoOn(o),
         malformed' + rejected' = malformed + rejected + 1,
         malformed' \in Nat, rejected' \in Nat, tools' = tools,
         o = "final_parse_failure" => malformed' > 0,
         o = "validation_exhausted" => rejected' > 0
  PROVE  Inv'
<1> USE AgentAssumption DEF AgentAssumption
<1>1. malformed' \in 0 .. MaxSteps /\ rejected' \in 0 .. MaxSteps
      /\ malformed' + rejected' + tools' <= steps
  <2>1. malformed + rejected + tools < steps /\ steps' = steps
    BY DEF Inv, StepsAccounted, Busy, Read
  <2>2. /\ malformed \in Nat /\ rejected \in Nat /\ tools \in Nat
        /\ steps \in Nat /\ steps <= MaxSteps /\ MaxSteps \in Nat
    BY DEF Inv, TypeOK
  <2>3. PICK m \in Nat, r \in Nat : m = malformed' /\ r = rejected'
    OBVIOUS
  <2>4. m + r = malformed + rejected + 1
    BY <2>3
  <2>5. m \in 0 .. MaxSteps /\ r \in 0 .. MaxSteps /\ m + r + tools <= steps
    BY <2>1, <2>2, <2>4
  <2>6. QED
    BY <2>3, <2>5
<1>2. CASE final
  <2>1. Return(o, NoOp, TRUE)
    BY <1>2 DEF GoOn
  <2>2. TypeOK'
    BY <1>1, <2>1 DEF Inv, TypeOK, Read, Return, clock, Resolved, Unresolved, Action
  <2>3. QED
    BY <1>2, <2>1, <2>2 DEF Inv, TypeOK, Read, Return, clock, StepsAccounted, ReserveKept,
       DeadlinesNest, RequestsInTime, ReturnsAdmissible, TraceAgrees, Busy, Unresolved
<1>3. CASE ~final
  <2>1. at' = "loop" /\ outcome' = o /\ UNCHANGED <<valid, last, refused, action, fallback>>
    BY <1>3 DEF GoOn
  <2>2. TypeOK'
    BY <1>1, <2>1 DEF Inv, TypeOK, Read, clock, Resolved, Unresolved
  <2>3. StepsAccounted'
    BY <1>1, <1>3, <2>1 DEF Inv, TypeOK, Read, clock, StepsAccounted, Busy
  <2>4. (ReserveKept /\ DeadlinesNest)'
    BY <1>3, <2>1 DEF Inv, TypeOK, Read, clock, ReserveKept, DeadlinesNest
  <2>5. QED
    BY <2>1, <2>2, <2>3, <2>4 DEF Inv, RequestsInTime, ReturnsAdmissible, TraceAgrees
<1>4. QED
  BY <1>2, <1>3 DEF Inv, TypeOK

\* A reply, whatever it proposes or asks for, keeps Inv.
LEMMA ReplyInv == Inv /\ Reply => Inv'
<1> SUFFICES ASSUME Inv, Reply PROVE Inv'
  OBVIOUS
<1> USE AgentAssumption DEF AgentAssumption
<1>1. CASE LateReply
  BY <1>1, FailInv DEF LateReply, Inv, TypeOK, clock
<1>2. CASE Malformed
  BY <1>2, GoOnInv DEF Malformed, Inv, TypeOK
<1>3. CASE Tool
  <2>1. TypeOK'
    BY <1>3 DEF Inv, TypeOK, Tool, Read, clock, StepsAccounted, Busy
  <2>2. StepsAccounted'
    BY <1>3 DEF Inv, TypeOK, Tool, Read, clock, StepsAccounted, Busy
  <2>3. (ReserveKept /\ DeadlinesNest)'
    BY <1>3 DEF Inv, TypeOK, Tool, Read, clock, ReserveKept, DeadlinesNest
  <2>4. QED
    BY <1>3, <2>1, <2>2, <2>3 DEF Inv, Tool, RequestsInTime, ReturnsAdmissible, TraceAgrees
<1>4. CASE ToolAtTheEnd
  <2>1. TypeOK'
    BY <1>4 DEF Inv, TypeOK, ToolAtTheEnd, Read, Fail, Return, clock, Unresolved, Action
  <2>2. QED
    BY <1>4, <2>1 DEF Inv, TypeOK, ToolAtTheEnd, Read, Fail, Return, clock, StepsAccounted,
       ReserveKept, DeadlinesNest, RequestsInTime, ReturnsAdmissible, TraceAgrees, Busy,
       Unresolved
<1>5. ASSUME NEW a \in Action, Propose(a) PROVE Inv'
  <2> DEFINE o == IF a = NoOp THEN "deliberate_no_op" ELSE "decision_produced"
  <2>1. /\ Return(o, a, FALSE) /\ Admissible(a) /\ now < Timeout
        /\ UNCHANGED <<malformed, rejected, tools, steps, final, clock>>
    BY <1>5 DEF Propose, Read
  <2>2. TypeOK'
    BY <2>1 DEF Inv, TypeOK, Return, clock, Resolved, Action
  <2>3. TraceAgrees'
    BY <2>1 DEF TraceAgrees, Return, Unresolved, Action
  <2>4. ReturnsAdmissible'
    BY <2>1 DEF ReturnsAdmissible, Return, Admissible, clock
  <2>5. QED
    BY <2>1, <2>2, <2>3, <2>4 DEF Inv, Return, StepsAccounted, ReserveKept, DeadlinesNest,
       RequestsInTime, Busy
<1>6. ASSUME NEW a \in Action, ProposeInadmissible(a) PROVE Inv'
  BY <1>6, GoOnInv DEF ProposeInadmissible, Inv, TypeOK
<1>7. QED
  BY <1>1, <1>2, <1>3, <1>4, <1>5, <1>6 DEF Reply

-----------------------------------------------------------------------------
\* The inductive invariant of the agent's decision loop holds in every
\* reachable state.
THEOREM Invariance == Spec => []Inv
<1>1. Inv /\ [Next]_vars => Inv'
  <2> SUFFICES ASSUME Inv, [Next]_vars PROVE Inv'
    OBVIOUS
  <2>1. CASE Next
    BY <2>1, EnterInv, IterateInv, ProviderInv, ReplyInv DEF Next, Working
  <2>2. CASE UNCHANGED vars
    BY <2>2 DEF vars, trace, clock, Inv, TypeOK, StepsAccounted, ReserveKept, DeadlinesNest,
       RequestsInTime, ReturnsAdmissible, TraceAgrees, Busy
  <2>3. QED
    BY <2>1, <2>2
<1>2. QED
  BY InitInv, <1>1, PTL DEF Spec

\* decide's counters and clock keep within their bounds: it makes at most
\* MaxSteps calls and ends within the deadline, one overrun and its waiting.
THEOREM Typing == Spec => []TypeOK
<1>1. Inv => TypeOK
  BY DEF Inv
<1>2. QED
  BY Invariance, <1>1, PTL

\* Requests go out in time, and the final call has the reserve.
THEOREM InTime == Spec => []RequestsInTime
<1>1. Inv => RequestsInTime
  BY DEF Inv
<1>2. QED
  BY Invariance, <1>1, PTL

\* What decide returns is valid, not just rejected, and not late.
THEOREM Admissibility == Spec => []ReturnsAdmissible
<1>1. Inv => ReturnsAdmissible
  BY DEF Inv
<1>2. QED
  BY Invariance, <1>1, PTL

\* The outcome, the fallback flag and the counters of a trace agree.
THEOREM TraceConsistency == Spec => []TraceAgrees
<1>1. Inv => TraceAgrees
  BY DEF Inv
<1>2. QED
  BY Invariance, <1>1, PTL

-----------------------------------------------------------------------------
\* The budget of one process.  The invariant says what the file and the
\* reservation are for: with a path the counters are on disk whenever a method
\* has returned, and between calls tokens are only reserved for a call that is
\* unresolved, after which nothing is charged any more.
Counters == [calls : Nat, tokens : Nat, pending : BOOLEAN, reserved : Nat, blocked : BOOLEAN]

GuardInv ==
    /\ onDisk \in BOOLEAN
    /\ guard \in Counters /\ saved \in Counters
    /\ phase \in {"idle", "request", "failed"} /\ restarts \in Nat
    /\ onDisk => saved = guard
    /\ guard.reserved # 0 => guard.pending
    /\ phase # "request" /\ guard.reserved # 0 => onDisk

\* A guard starts from zero counters with nothing reserved.
LEMMA GuardInvInit == GuardInit => GuardInv
BY DEF GuardInit, GuardInv, Zero, Counters

\* A call, its settlement, its failure and a restart each keep GuardInv.
LEMMA GuardInvNext == ASSUME GuardInv, [GuardNext]_guardVars PROVE GuardInv'
<1> USE DEF Counters, GuardInv
<1>1. CASE ChargeCall
  <2>1. PICK reservation \in 0 .. MaxReservation :
            guard' = [guard EXCEPT !.calls = @ + 1, !.pending = TRUE, !.reserved = reservation]
      BY <1>1 DEF ChargeCall
  <2>2. reservation \in Nat /\ guard.calls + 1 \in Nat
      BY BoundsAreNat, <2>1
  <2>3. guard' \in Counters /\ guard'.pending
      BY <2>1, <2>2
  <2>. QED
      BY <1>1, <2>3 DEF ChargeCall, Persist
<1>2. CASE ChargeTokens
  <2>1. PICK count \in 0 .. guard.reserved + Excess, complete \in BOOLEAN :
            guard' = [guard EXCEPT !.tokens = @ + count, !.pending = ~complete, !.reserved = 0]
      BY <1>2 DEF ChargeTokens
  <2>2. guard.tokens + count \in Nat /\ (~complete) \in BOOLEAN
      BY BoundsAreNat, <2>1
  <2>3. guard' \in Counters /\ guard'.reserved = 0
      BY <2>1, <2>2
  <2>. QED
      BY <1>2, <2>3 DEF ChargeTokens, Persist
<1>3. CASE SettleFailedCall
  <2>1. guard' \in Counters /\ guard'.reserved = 0
    <3>1. CASE guard.reserved > 0
      <4>1. guard.tokens + guard.reserved \in Nat
          OBVIOUS
      <4>2. guard' = [guard EXCEPT !.tokens = @ + guard.reserved, !.reserved = 0,
                                   !.pending = FALSE]
          BY <1>3, <3>1 DEF SettleFailedCall
      <4>. QED
          BY <4>1, <4>2
    <3>2. CASE ~(guard.reserved > 0)
        BY <1>3, <3>2 DEF SettleFailedCall
    <3>. QED
        BY <3>1, <3>2
  <2>. QED
      BY <1>3, <2>1 DEF SettleFailedCall, Persist
<1>4. CASE AfterFailure
  <2>1. /\ guard' \in Counters
        /\ guard'.reserved = guard.reserved /\ guard'.pending = guard.pending
      BY <1>4 DEF AfterFailure
  <2>. QED
      BY <1>4, <2>1 DEF AfterFailure, Persist
<1>5. CASE Restart
  <2>1. restarts + 1 \in Nat /\ onDisk /\ guard' = guard
      BY <1>5 DEF Restart
  <2>. QED
      BY <1>5, <2>1 DEF Restart
<1>6. CASE UNCHANGED guardVars
    BY <1>6 DEF guardVars
<1>. QED
    BY <1>1, <1>2, <1>3, <1>4, <1>5, <1>6 DEF GuardNext

\* Each step of the guard is a step of the promised call budget or stutters.
LEMMA StepKeepsPromise ==
    ASSUME GuardInv, [GuardNext]_guardVars PROVE [Promise!Next]_Promise!vars
<1> USE DEF Counters, GuardInv, Promise!vars
<1>1. CASE ChargeCall
  <2>1. PICK reservation \in 0 .. MaxReservation :
            /\ MayCharge(reservation)
            /\ guard' = [guard EXCEPT !.calls = @ + 1, !.pending = TRUE, !.reserved = reservation]
      BY <1>1 DEF ChargeCall
  <2>2. guard.reserved = 0
      BY <1>1, <2>1 DEF ChargeCall, MayCharge
  <2>3. Promise!Grant
      BY BoundsAreNat, <2>1, <2>2 DEF Promise!Grant, MayCharge
  <2>. QED
      BY <2>3 DEF Promise!Next
<1>2. CASE ChargeTokens
  <2>1. PICK count \in 0 .. guard.reserved + Excess, complete \in BOOLEAN :
            guard' = [guard EXCEPT !.tokens = @ + count, !.pending = ~complete, !.reserved = 0]
      BY <1>2 DEF ChargeTokens
  <2>2. /\ guard'.tokens = guard.tokens + count /\ guard'.reserved = 0
        /\ guard'.calls = guard.calls /\ guard'.blocked = guard.blocked
      BY <2>1
  <2>3. Promise!Settle
      BY BoundsAreNat, <2>2 DEF Promise!Settle
  <2>. QED
      BY <2>3 DEF Promise!Next
<1>3. CASE SettleFailedCall
    BY <1>3 DEF SettleFailedCall
<1>4. CASE AfterFailure
  <2>1. CASE guard' = guard
      BY <2>1
  <2>2. CASE guard' = [guard EXCEPT !.blocked = TRUE]
      BY <2>2 DEF Promise!Close, Promise!Next
  <2>. QED
      BY <1>4, <2>1, <2>2 DEF AfterFailure
<1>5. CASE Restart
    BY <1>5 DEF Restart
<1>6. CASE UNCHANGED guardVars
    BY <1>6 DEF guardVars
<1>. QED
    BY <1>1, <1>2, <1>3, <1>4, <1>5, <1>6 DEF GuardNext

\* With a path, nothing a method has changed is lost by a kill: file and memory
\* agree whenever complete is not inside one.
THEOREM NothingIsForgotten == GuardSpec => [](onDisk => saved = guard)
<1>1. GuardInv => (onDisk => saved = guard)
    BY DEF GuardInv
<1>. QED
    BY GuardInvInit, GuardInvNext, <1>1, PTL DEF GuardSpec

\* A single process's guard keeps the promise of the shared budget.
THEOREM GuardImplementsCallBudget == GuardSpec => GuardKeepsPromise
<1>1. GuardInit => Promise!Init
    BY DEF GuardInit, Zero, Promise!Init
<1>. QED
    BY GuardInvInit, GuardInvNext, StepKeepsPromise, <1>1, PTL
    DEF GuardSpec, GuardKeepsPromise, Promise!Spec
=============================================================================
