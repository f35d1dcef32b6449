------------------------------ MODULE LlmAgent ------------------------------
(***************************************************************************)
(* LLMAgent.decide: a loop of provider calls inside one deadline.  Each    *)
(* call may run a tool or propose an action; the last one, last by count,  *)
(* by time or by the number of bad replies, must propose.  Whatever fails  *)
(* becomes a no-op with an outcome that says why.  A call is itself a loop *)
(* of attempts (GeminiProvider._generate) inside what is left of the       *)
(* deadline, less a reserve for the final call.                            *)
(*                                                                         *)
(* The caller is the decision graph: a first call has no feedback, a       *)
(* repeated one comes because the twin rejected what was returned.  Time   *)
(* passes while a request is out or the provider backs off, and while the  *)
(* agent runs a tool or waits for the mutex of the shared ledger.          *)
(***************************************************************************)
EXTENDS Integers

CONSTANTS
    Remedy,       \* the actions other than no-op
    NoOp, Null,
    Timeout,      \* llm.react_timeout_seconds
    Reserve,      \* the same times react_final_reserve_fraction
    CallTimeout,  \* llm.timeout_seconds
    MaxSteps,     \* llm.react_max_steps
    MaxRetries,   \* llm.max_retries
    MaxAttempts,  \* the provider's max_attempts
    MinAttempt,   \* MIN_ATTEMPT_SECONDS
    Overrun,      \* how long an answer may come after its request's timeout
    MaxWait       \* the time one decide spends in tools and on the mutex

ASSUME AgentAssumption ==
    /\ NoOp \notin Remedy /\ Null \notin Remedy \cup {NoOp}
    /\ Timeout \in Nat /\ Reserve \in Nat /\ 0 < Reserve /\ Reserve < Timeout
    /\ CallTimeout \in Nat \ {0}
    /\ MaxSteps \in Nat \ {0} /\ MaxRetries \in Nat
    /\ MaxAttempts \in Nat \ {0} /\ MinAttempt \in Nat \ {0}
    /\ Overrun \in Nat /\ MaxWait \in Nat

\* Powers are arithmetic that the provers do not know.
ASSUME BackoffAssumption == \A k \in 0 .. MaxAttempts : 2 ^ k \in Nat

VARIABLES
    at,        \* "idle", "loop", "charge", "request", "reply" or "returned"
    valid,     \* remedies validate_action accepts in the agent's context
    last,      \* _last_proposed
    refused,   \* rejected_action: what the twin turned down just now
    now,       \* seconds since decide was called
    steps, final, malformed, rejected, tools, \* the trace of this call
    outcome, action, fallback,
    attempt,   \* the provider's attempts in this call
    due,       \* the provider's deadline
    granted,   \* the time the latest call was given when it started
    late,      \* whether a request of this decide went over its timeout
    waited     \* how long this decide waited beside its requests

trace == <<steps, final, malformed, rejected, tools, outcome, action, fallback>>
clock == <<now, attempt, due, granted, late, waited>>
vars == <<at, valid, last, refused, trace, clock>>

Action == Remedy \cup {NoOp}
Resolved == {"decision_produced", "deliberate_no_op"}
Unresolved == {"tool_budget_exhausted", "final_parse_failure", "validation_exhausted",
               "timeout", "provider_budget_exhausted", "provider_error"}

TypeOK ==
    /\ at \in {"idle", "loop", "charge", "request", "reply", "returned"}
    /\ valid \subseteq Remedy
    /\ last \in Action \cup {Null} /\ refused \in Remedy \cup {Null}
    /\ now \in 0 .. Timeout + Overrun + MaxWait
    /\ steps \in 0 .. MaxSteps /\ final \in BOOLEAN
    /\ malformed \in 0 .. MaxSteps /\ rejected \in 0 .. MaxSteps /\ tools \in 0 .. MaxSteps
    /\ outcome \in Resolved \cup Unresolved
    /\ action \in Action \cup {Null} /\ fallback \in BOOLEAN
    /\ attempt \in 0 .. MaxAttempts
    /\ due \in 0 .. Timeout + MaxWait /\ granted \in 0 .. Timeout
    /\ late \in BOOLEAN /\ waited \in 0 .. MaxWait

Init ==
    /\ at = "idle" /\ valid \in SUBSET Remedy
    /\ last = Null /\ refused = Null
    /\ steps = 0 /\ final = FALSE /\ malformed = 0 /\ rejected = 0 /\ tools = 0
    /\ outcome = "final_parse_failure" /\ action = Null /\ fallback = FALSE
    /\ now = 0 /\ attempt = 0 /\ due = 0 /\ granted = 0 /\ late = FALSE
    /\ waited = 0

-----------------------------------------------------------------------------
\* decide is entered: a new deadline, an empty trace.
Enter ==
    /\ at' = "loop" /\ now' = 0
    /\ steps' = 0 /\ final' = FALSE /\ malformed' = 0 /\ rejected' = 0 /\ tools' = 0
    /\ outcome' = "final_parse_failure" /\ action' = Null /\ fallback' = FALSE
    /\ attempt' = 0 /\ due' = 0 /\ granted' = 0 /\ late' = FALSE
    /\ waited' = 0
    /\ UNCHANGED last

\* The first proposal of a decision, in a network that has moved on.
Decide ==
    /\ at \in {"idle", "returned"}
    /\ valid' \in SUBSET Remedy
    /\ refused' = Null
    /\ Enter

\* The twin rejects what was returned; a no-op it always approves.
DecideAgain ==
    /\ at = "returned" /\ action # NoOp
    /\ refused' = last
    /\ UNCHANGED valid
    /\ Enter

\* decide returns a (NoOp for want of an action) with outcome o.
Return(o, a, isFallback) ==
    /\ at' = "returned"
    /\ outcome' = o /\ action' = a /\ fallback' = isFallback
    /\ last' = a
    /\ UNCHANGED <<valid, refused>>

Fail(o) == Return(o, NoOp, TRUE) /\ UNCHANGED <<malformed, rejected, tools>>

-----------------------------------------------------------------------------
Least(m, n) == IF m <= n THEN m ELSE n

IsFinal ==
    \/ steps = MaxSteps - 1
    \/ Timeout - now <= Reserve
    \/ malformed + rejected > MaxRetries

\* Mutated: exploration may use up the time kept for the final call.
GrantWhole == Least(CallTimeout, Timeout - now)

\* The timeout of a call started now.
Grant == Least(CallTimeout, IF IsFinal THEN Timeout - now ELSE Timeout - now - Reserve)

OutOfTime ==
    /\ at = "loop" /\ now >= Timeout
    /\ Fail("timeout")
    /\ UNCHANGED <<steps, final, clock>>

\* An iteration begins.
Start ==
    /\ at = "loop" /\ now < Timeout
    /\ steps' = steps + 1
    /\ final' = IsFinal

\* The cache has the reply to this prompt.
CacheHit ==
    /\ Start
    /\ at' = "reply"
    /\ UNCHANGED <<valid, last, refused, malformed, rejected, tools, outcome, action,
                   fallback, clock>>

\* A cache-only run has no reply to this prompt: decide raises, the episode
\* is over and the next one has an agent of its own.
CacheMiss ==
    /\ Start
    /\ at' = "idle"
    /\ UNCHANGED <<valid, last, refused, malformed, rejected, tools, outcome, action,
                   fallback, clock>>

\* The call is to be charged, and how long it may take is decided.
Charge ==
    /\ Start
    /\ at' = "charge" /\ granted' = Grant
    /\ UNCHANGED <<valid, last, refused, malformed, rejected, tools, outcome, action,
                   fallback, now, attempt, due, late, waited>>

\* The budget refuses the call.
CallRefused ==
    /\ at = "charge"
    /\ Fail("provider_budget_exhausted")
    /\ UNCHANGED <<steps, final, clock>>

\* The first attempt; the provider's deadline counts from here.
Submit ==
    /\ at = "charge"
    /\ at' = "request" /\ attempt' = 1
    /\ due' = now + granted
    /\ UNCHANGED <<valid, last, refused, trace, now, granted, late, waited>>

\* A tool has run, or another worker holds the mutex of the ledger.
Wait ==
    /\ at \in {"loop", "charge", "reply"} /\ waited < MaxWait
    /\ now' = now + 1 /\ waited' = waited + 1
    /\ UNCHANGED <<at, valid, last, refused, trace, attempt, due, granted, late>>

-----------------------------------------------------------------------------
\* The attempt ends, within the time it was given or a little after.
Ends ==
    /\ at = "request"
    /\ now' \in now .. due + Overrun
    /\ late' = (late \/ now' > due)
    /\ UNCHANGED <<steps, final, due, granted, waited>>

Answer ==
    /\ Ends
    /\ at' = "reply"
    /\ UNCHANGED <<valid, last, refused, malformed, rejected, tools, outcome, action,
                   fallback, attempt>>

\* The answer is paid for and takes the budget over its ceiling.
AnswerOverBudget ==
    /\ Ends
    /\ Fail("provider_budget_exhausted")
    /\ UNCHANGED attempt

\* A permanent error, an error of the credentials, an answer that cannot be
\* decoded, or a retryable error of the last attempt.
RequestFails ==
    /\ Ends
    /\ Fail("provider_error")
    /\ UNCHANGED attempt

\* The request times out, or the last attempt meets the server's deadline.
RequestTimesOut ==
    /\ Ends
    /\ Fail("timeout")
    /\ UNCHANGED attempt

Backoff == 2 ^ (attempt - 1)

\* A retryable error that leaves time for another attempt after the backoff.
Retry ==
    /\ at = "request" /\ attempt < MaxAttempts
    /\ \E t \in now .. due :
        /\ due - t - Backoff >= MinAttempt
        /\ now' = t + Backoff
        /\ late' = late
    /\ attempt' = attempt + 1
    /\ UNCHANGED <<at, valid, last, refused, trace, due, granted, waited>>

\* A retryable error that does not.
NoTimeToRetry ==
    /\ at = "request" /\ attempt < MaxAttempts
    /\ Ends
    /\ due - now' - Backoff < MinAttempt
    /\ Fail("timeout")
    /\ UNCHANGED attempt
-----------------------------------------------------------------------------
LateReply ==
    /\ at = "reply" /\ now >= Timeout
    /\ Fail("timeout")
    /\ UNCHANGED <<steps, final, clock>>

\* A reply in time.
Read ==
    /\ at = "reply" /\ now < Timeout
    /\ UNCHANGED <<steps, final, clock>>

\* Mutated: the outcome of an earlier reply stands.
GoOnKeeping(o) ==
    IF final THEN Return(outcome, NoOp, TRUE)
    ELSE at' = "loop" /\ outcome' = o /\ UNCHANGED <<valid, last, refused, action, fallback>>

\* A reply that settles nothing: the end if this was the final call.
GoOn(o) ==
    IF final THEN Return(o, NoOp, TRUE)
    ELSE at' = "loop" /\ outcome' = o /\ UNCHANGED <<valid, last, refused, action, fallback>>

\* No JSON object, neither tool nor action, arguments of the wrong type, an
\* action that does not parse.
Malformed ==
    /\ Read
    /\ malformed' = malformed + 1
    /\ GoOn("final_parse_failure")
    /\ UNCHANGED <<rejected, tools>>

\* Mutated: a tool call is not counted as a step.
ToolForFree ==
    /\ at = "reply" /\ now < Timeout /\ ~final
    /\ at' = "loop" /\ steps' = steps - 1
    /\ UNCHANGED <<final, clock, valid, last, refused, malformed, rejected, tools,
                   outcome, action, fallback>>

\* A tool reads the observation and its result joins the conversation.
Tool ==
    /\ Read /\ ~final
    /\ at' = "loop" /\ tools' = tools + 1
    /\ UNCHANGED <<valid, last, refused, malformed, rejected, outcome, action, fallback>>

ToolAtTheEnd ==
    /\ Read /\ final
    /\ Fail("tool_budget_exhausted")

\* Mutated: the action that was just rejected is proposed again.
AdmissibleAgain(a) == a \in valid \cup {NoOp}

Admissible(a) == a \in valid \cup {NoOp} /\ a # refused

Propose(a) ==
    /\ Read
    /\ Admissible(a)
    /\ Return(IF a = NoOp THEN "deliberate_no_op" ELSE "decision_produced", a, FALSE)
    /\ UNCHANGED <<malformed, rejected, tools>>

ProposeInadmissible(a) ==
    /\ Read
    /\ ~Admissible(a)
    /\ rejected' = rejected + 1
    /\ GoOn("validation_exhausted")
    /\ UNCHANGED <<malformed, tools>>

-----------------------------------------------------------------------------
Reply ==
    \/ LateReply \/ Malformed \/ Tool \/ ToolAtTheEnd
    \/ \E a \in Action : Propose(a) \/ ProposeInadmissible(a)

Provider ==
    \/ Answer \/ AnswerOverBudget \/ RequestFails \/ RequestTimesOut
    \/ Retry \/ NoTimeToRetry

Iterate ==
    \/ OutOfTime \/ CacheHit \/ CacheMiss
    \/ Charge \/ CallRefused \/ Submit \/ Wait

Working == Iterate \/ Provider \/ Reply

Next == Decide \/ DecideAgain \/ Working

Spec == Init /\ [][Next]_vars

\* decide runs on one thread and every request has a timeout.
FairSpec == Spec /\ WF_vars(Working)
-----------------------------------------------------------------------------
\* Every request and every retry of it goes out in time left to the provider,
\* whose deadline passes that of decide at most by what was spent waiting, and
\* unless an answer came late the final call is given the reserve less that,
\* whatever tools, bad replies and backoffs came before it.
RequestsInTime ==
    at = "request" =>
        /\ now < due /\ due <= Timeout + waited
        /\ final /\ ~late => granted >= Least(CallTimeout, Reserve - waited)

\* What decide returns can be executed as far as it can know: it is a no-op
\* or it is valid in the network it was asked about, it is not what the twin
\* has just rejected, and a remedy was proposed before the deadline.
ReturnsAdmissible ==
    at = "returned" =>
        /\ action \in valid \cup {NoOp} /\ action # refused
        /\ ~fallback => now < Timeout

\* The trace supports what the study's analysis concludes from it: a fallback
\* is an unresolved outcome and a no-op, a produced decision is a remedy, and
\* an outcome that blames the replies follows a final call and such a reply.
TraceAgrees ==
    at = "returned" =>
        /\ fallback <=> outcome \in Unresolved
        /\ outcome = "decision_produced" <=> action \in Remedy
        /\ outcome = "tool_budget_exhausted" => final
        /\ outcome = "final_parse_failure" => final /\ malformed > 0
        /\ outcome = "validation_exhausted" => final /\ rejected > 0

\* decide ends, with an action or with an exception.
Decides == (at = "loop") ~> (at \in {"returned", "idle"})
=============================================================================
