--------------------------- MODULE JournalReplay ---------------------------
(***************************************************************************)
(* An episode of the study and its audit.  Live, each attempt of the LLM   *)
(* agent is a few calls of LLMClient.complete, which leaves a row in the   *)
(* episode's journal for what happened, and the responses in the worker's  *)
(* cache; the process may be killed and the episode run again, on the same *)
(* cache with a journal of its own.  The audit (llm_study_replay.py) runs  *)
(* the agent again on the recorded clock readings, with a JournalClient    *)
(* that answers from journal and cache, and compares.                      *)
(*                                                                         *)
(* Of the network nothing is left but that it is deterministic: what the   *)
(* agent is asked follows from what its attempts have led to.              *)
(***************************************************************************)
EXTENDS Naturals, Sequences

CONSTANTS
    Attempts,   \* attempts of an episode
    MaxSteps,   \* llm.react_max_steps
    MaxKills    \* bound on the kills

VARIABLES
    mode,       \* "live" or "replay"
    where,      \* "idle", "loop", "call", "request", "cached", "logged", "reply"
    open,       \* whether the budget still grants calls to this worker
    cache,      \* the replies of the worker's cache, by prompt
    journal,    \* llm_calls.jsonl of the episode
    history,       \* the attempts so far: outcome and clock readings
    talk,       \* the replies of this attempt that did not settle it
    seen,       \* the clock readings of this attempt (clock_offsets)
    final,      \* whether the call is the final one
    text,       \* the reply at hand
    recorded,   \* replay: the attempts of the shard
    next,       \* replay: the journal row to come
    mismatch,   \* replay: the audit has raised
    kills

attempt == <<talk, seen, final, text>>
audit == <<recorded, next, mismatch>>
replayVars == <<mode, where, open, cache, journal, history, attempt, audit, kills>>

\* A reply asks for a tool or for an action.
Text == {"tool", "act"}

\* A clock reading: before the reserve, within it, past the deadline.
Reading == <<"early", "reserve", "over">>

ReplayInit ==
    /\ mode = "live" /\ where = "idle" /\ open = TRUE
    /\ cache = <<>> /\ journal = <<>> /\ history = <<>>
    /\ talk = <<>> /\ seen = <<>> /\ final = FALSE /\ text = "act"
    /\ recorded = <<>> /\ next = 1 /\ mismatch = FALSE
    /\ kills = 0

-----------------------------------------------------------------------------
\* The attempt ends: live it joins the records of the shard, in the audit it
\* has to be the recorded one.
Conclude(outcome, readings) ==
    LET entry == [outcome |-> outcome, seen |-> readings]
    IN /\ where' = "idle"
       /\ history' = Append(history, entry)
       /\ mismatch' = (mode = "replay" /\ entry # recorded[Len(history) + 1])

BeginAttempt ==
    /\ where = "idle" /\ Len(history) < Attempts
    /\ where' = "loop" /\ talk' = <<>> /\ seen' = <<>>
    /\ UNCHANGED <<mode, open, cache, journal, history, final, text, audit, kills>>

\* The clock is read: live it goes on, in the audit it says what it said.
Clock(i) ==
    /\ \A k \in 1 .. Len(seen) : seen[k] <= i
    /\ mode = "replay" =>
           /\ Len(seen) < Len(recorded[Len(history) + 1].seen)
           /\ i = recorded[Len(history) + 1].seen[Len(seen) + 1]

Look == \E i \in DOMAIN Reading :
    /\ where = "loop" /\ Clock(i)
    /\ seen' = Append(seen, i)
    /\ final' = (Reading[i] = "reserve" \/ Len(talk) = MaxSteps - 1)
    /\ IF Reading[i] = "over"
       THEN Conclude("timeout", seen')
       ELSE where' = "call" /\ UNCHANGED <<history, mismatch>>
    /\ UNCHANGED <<mode, open, cache, journal, talk, text, recorded, next, kills>>

Read == \E i \in DOMAIN Reading :
    /\ where = "reply" /\ Clock(i)
    /\ seen' = Append(seen, i)
    /\ IF Reading[i] = "over" THEN Conclude("timeout", seen') /\ talk' = talk
       ELSE IF text = "act" THEN Conclude("decision_produced", seen') /\ talk' = talk
       ELSE IF final THEN Conclude("tool_budget_exhausted", seen') /\ talk' = talk
       ELSE where' = "loop" /\ talk' = Append(talk, text) /\ UNCHANGED <<history, mismatch>>
    /\ UNCHANGED <<mode, open, cache, journal, final, text, recorded, next, kills>>

-----------------------------------------------------------------------------
\* LLMClient.complete.

\* What is asked depends on the state of the network, which is what the
\* attempts so far have led to, and on the conversation.
Prompt == [past |-> [i \in DOMAIN history |-> history[i].outcome = "decision_produced"],
           talk |-> talk, final |-> final]

Log(row) == journal' = Append(journal, row)

Response(t) == [event |-> "response", key |-> Prompt, what |-> t]
BudgetError(stage) == [event |-> "budget_error", key |-> Prompt, what |-> stage]
ProviderError(kind) == [event |-> "provider_error", key |-> Prompt, what |-> kind]

Calling == mode = "live" /\ UNCHANGED <<mode, talk, seen, final, recorded, next, kills>>

CacheHit ==
    /\ where = "call" /\ Prompt \in DOMAIN cache /\ Calling
    /\ text' = cache[Prompt] /\ Log(Response(text'))
    /\ where' = "reply"
    /\ UNCHANGED <<open, cache, history, mismatch>>

\* The budget is closed, or what the other workers hold leaves too little.
CallRefused ==
    /\ where = "call" /\ Prompt \notin DOMAIN cache /\ Calling
    /\ Log(BudgetError("before_call"))
    /\ Conclude("provider_budget_exhausted", seen)
    /\ UNCHANGED <<open, cache, text>>

Submit ==
    /\ where = "call" /\ Prompt \notin DOMAIN cache /\ open /\ Calling
    /\ where' = "request"
    /\ UNCHANGED <<open, cache, journal, history, text, mismatch>>

\* A permanent error closes the budget.
RequestFails == \E kind \in {"timeout", "provider_error"} :
    /\ where = "request" /\ Calling
    /\ open' \in (IF kind = "timeout" THEN {TRUE} ELSE BOOLEAN)
    /\ Log(ProviderError(kind))
    /\ Conclude(kind, seen)
    /\ UNCHANGED <<cache, text>>

Answer == \E t \in Text :
    /\ where = "request" /\ Calling
    /\ text' = t
    /\ cache' = [p \in DOMAIN cache \cup {Prompt} |-> IF p = Prompt THEN t ELSE cache[p]]
    /\ where' = "cached"
    /\ UNCHANGED <<open, journal, history, mismatch>>

LogAnswer ==
    /\ where = "cached" /\ Calling
    /\ Log(Response(text))
    /\ where' = "logged"
    /\ UNCHANGED <<open, cache, history, text, mismatch>>

TokensCharged ==
    /\ where = "logged" /\ Calling
    /\ where' = "reply"
    /\ UNCHANGED <<open, cache, journal, history, text, mismatch>>

\* Mutated: only what keeps a call from being made is journalled.
ChargeOverrunUnlogged ==
    /\ where = "logged" /\ Calling
    /\ open' = FALSE
    /\ Conclude("provider_budget_exhausted", seen)
    /\ UNCHANGED <<cache, text, journal>>

\* The answer crosses the ceiling, or its usage is incomplete.
ChargeOverrun ==
    /\ where = "logged" /\ Calling
    /\ open' = FALSE
    /\ Log(BudgetError("after_response"))
    /\ Conclude("provider_budget_exhausted", seen)
    /\ UNCHANGED <<cache, text>>

\* The worker is killed and started again.  The shard is not there, so the
\* episode is run again; a call on the way is unresolved in the ledger.
KillEpisode ==
    /\ mode = "live" /\ kills < MaxKills /\ ~(where = "idle" /\ Len(history) = Attempts)
    /\ kills' = kills + 1
    /\ open' = (open /\ where \notin {"request", "cached", "logged"})
    /\ where' = "idle" /\ journal' = <<>> /\ history' = <<>>
    /\ UNCHANGED <<mode, cache, attempt, audit>>

-----------------------------------------------------------------------------
StartReplay ==
    /\ mode = "live" /\ where = "idle" /\ Len(history) = Attempts
    /\ mode' = "replay"
    /\ recorded' = history /\ history' = <<>> /\ next' = 1
    /\ UNCHANGED <<where, open, cache, journal, attempt, mismatch, kills>>

Raise == mismatch' = TRUE /\ UNCHANGED <<where, next, history, text>>

Row == journal[next]

\* The response was paid for and then refused: the row behind it belongs to it.
Followed ==
    /\ next < Len(journal)
    /\ journal[next + 1].event = "budget_error"
    /\ journal[next + 1].what = "after_response"

\* JournalClient.complete: the row to come must be about this very prompt.
ReplayCall ==
    /\ mode = "replay" /\ where = "call" /\ ~mismatch
    /\ IF next > Len(journal) \/ Row.key # Prompt THEN Raise
       ELSE \/ /\ Row.event = "provider_error"
               /\ next' = next + 1
               /\ Conclude(Row.what, seen) /\ text' = text
            \/ /\ Row.event = "budget_error"
               /\ next' = next + 1
               /\ Conclude("provider_budget_exhausted", seen) /\ text' = text
            \/ /\ Row.event = "response"
               /\ IF Prompt \notin DOMAIN cache \/ cache[Prompt] # Row.what THEN Raise
                  ELSE IF ~Followed
                  THEN /\ next' = next + 1 /\ where' = "reply" /\ text' = cache[Prompt]
                       /\ UNCHANGED <<history, mismatch>>
                  ELSE IF journal[next + 1].key # Prompt THEN Raise
                  ELSE /\ next' = next + 2
                       /\ Conclude("provider_budget_exhausted", seen) /\ text' = text
    /\ UNCHANGED <<mode, open, cache, journal, talk, seen, final, recorded, kills>>

Over == mode = "replay" /\ (mismatch \/ (where = "idle" /\ Len(history) = Attempts))

ReplayNext ==
    \/ BeginAttempt \/ Look \/ Read
    \/ CacheHit \/ CallRefused \/ Submit \/ RequestFails
    \/ Answer \/ LogAnswer \/ TokensCharged \/ ChargeOverrun
    \/ KillEpisode \/ StartReplay \/ ReplayCall

ReplaySpec == ReplayInit /\ [][ReplayNext]_replayVars

-----------------------------------------------------------------------------
\* The audit can repeat every episode that has a shard, whatever errors, late
\* answers, refusals and kills it went through: it asks the same prompts in the
\* same order, finds each reply in the cache, reads the clock as often, ends
\* every attempt as recorded and has no row left over.
ReplayReproduces ==
    /\ ~mismatch
    /\ mode = "replay" /\ where \in {"loop", "reply"} =>
           Len(seen) < Len(recorded[Len(history) + 1].seen)
    /\ Over => history = recorded /\ next = Len(journal) + 1
=============================================================================
