----------------------------- MODULE AgentLoop -----------------------------
(***************************************************************************)
(* runners/loop.py `run_single` with runners/client.py `chat_completion`:  *)
(* one trial of one task.  The harness and the provider alternate: the     *)
(* harness posts the transcript, retrying what is transient, the provider  *)
(* answers with a message, with tool calls, or with something unusable;    *)
(* the harness applies every call and goes round again until the model     *)
(* stops or a budget binds.  A health probe brackets the whole trial.      *)
(*                                                                         *)
(* The provider, the tools and the probe are the environment: each of      *)
(* their answers is a choice.  The content of messages is abstracted; what *)
(* is kept of the transcript is which turns it has and which call each     *)
(* tool result answers.                                                    *)
(***************************************************************************)
EXTENDS Integers, Sequences, FiniteSets

CONSTANTS SafetyCap,    \* tool-call backstop of the run
          MaxRounds,    \* model-turn budget, or NoLimit
          NoLimit,
          MaxAttempts,  \* posts chat_completion makes at most
          MaxBatch,     \* bound: tool calls the provider puts in one turn
          HasProbe      \* a health probe is configured

ASSUME LoopAssumption ==
  /\ SafetyCap \in Nat \ {0}
  /\ MaxRounds \in Nat \ {0} \/ MaxRounds = NoLimit
  /\ NoLimit \notin Nat
  /\ MaxAttempts \in Nat \ {0}
  /\ MaxBatch \in Nat \ {0}
  /\ HasProbe \in BOOLEAN

VARIABLES pc,             \* where the harness is
          attempt,        \* posts made for the current request, this one included
          turns,          \* the transcript after the task's own messages
          batch,          \* calls of the assistant turn being applied
          applied,        \* how many of them are answered
          rounds,
          calls,          \* sum(tool_call_counts.values())
          parse_failure,  \* the recorded ParseFailure's error, or "none"
          stop_reason,
          safety_cap_bound,
          max_rounds_bound,
          pre, post,      \* what the probe said before and after
          raised          \* the exception that left run_single, or "none"

modelVars  == <<turns, batch, applied>>
countVars  == <<rounds, calls>>
resultVars == <<parse_failure, stop_reason, safety_cap_bound, max_rounds_bound>>
probeVars  == <<pre, post>>
loopVars == <<pc, attempt, modelVars, countVars, resultVars, probeVars, raised>>

Calls(n)  == [kind |-> "calls", of |-> n]
Result(j) == [kind |-> "result", of |-> j]
Message   == [kind |-> "message", of |-> 0]

Health == IF HasProbe THEN {"healthy", "unhealthy"} ELSE {"none"}

LoopInit ==
  /\ pc = "start"
  /\ attempt = 1
  /\ turns = <<>>
  /\ batch = 0
  /\ applied = 0
  /\ rounds = 0
  /\ calls = 0
  /\ parse_failure = "none"
  /\ stop_reason = "completed_natural"
  /\ safety_cap_bound = FALSE
  /\ max_rounds_bound = FALSE
  /\ pre = "none"
  /\ post = "none"
  /\ raised = "none"

\* An exception leaves run_single: there is no trajectory.
Raise(exception) ==
  /\ pc' = "raised"
  /\ raised' = exception

-----------------------------------------------------------------------------
(* Before the loop: the tool check and the probe.                          *)

\* A tool of the task is missing from the registry: ValueError.
ToolsMissing ==
  /\ pc = "start"
  /\ Raise("ValueError")
  /\ UNCHANGED <<attempt, modelVars, countVars, resultVars, probeVars>>

ProbeBefore(h) ==
  /\ pc = "start"
  /\ pre' = h
  /\ pc' = "request"
  /\ UNCHANGED <<attempt, modelVars, countVars, resultVars, post, raised>>

\* The probed server cannot be reached: health_probe does not catch what its
\* post raises, and neither does run_single, before or after the loop.
ProbeRaises ==
  /\ HasProbe
  /\ pc \in {"start", "finish"}
  /\ Raise("ProbeTransportError")
  /\ UNCHANGED <<attempt, modelVars, countVars, resultVars, probeVars>>

-----------------------------------------------------------------------------
(* chat_completion: at most MaxAttempts posts of the same request.         *)

\* The API key is not in the environment: RuntimeError before the first post.
KeyMissing ==
  /\ pc = "request"
  /\ rounds = 0 /\ attempt = 1
  /\ Raise("RuntimeError")
  /\ UNCHANGED <<attempt, modelVars, countVars, resultVars, probeVars>>

\* httpx.TransportError: retried, and raised when the attempts are used up;
\* run_single does not catch it.
Unreachable ==
  /\ pc = "request"
  /\ IF attempt < MaxAttempts
     THEN attempt' = attempt + 1 /\ UNCHANGED <<pc, raised>>
     ELSE Raise("TransportError") /\ UNCHANGED attempt
  /\ UNCHANGED <<modelVars, countVars, resultVars, probeVars>>

\* HTTPStatusError: caught, recorded, and the loop is left without a round.
ProviderError ==
  /\ parse_failure' = "PROVIDER_ERROR"
  /\ stop_reason' = "parse_failure"
  /\ pc' = "finish"
  /\ UNCHANGED <<attempt, modelVars, countVars, safety_cap_bound,
                 max_rounds_bound, probeVars, raised>>

\* Mutant: the attempts start over when they are used up.
ThrottledForever ==
  /\ pc = "request"
  /\ attempt' = IF attempt < MaxAttempts THEN attempt + 1 ELSE 1
  /\ UNCHANGED <<pc, modelVars, countVars, resultVars, probeVars, raised>>

\* A retryable status (429, 500, 502, 503, 504).
Throttled ==
  /\ pc = "request"
  /\ \/ /\ attempt < MaxAttempts
        /\ attempt' = attempt + 1
        /\ UNCHANGED <<pc, modelVars, countVars, resultVars, probeVars, raised>>
     \/ /\ attempt = MaxAttempts
        /\ ProviderError

\* Any other status that is not a success, 401 and 403 among them.
Rejected ==
  /\ pc = "request"
  /\ ProviderError

\* A success whose body is no JSON: response.json() raises, nobody catches.
NotJson ==
  /\ pc = "request"
  /\ Raise("JSONDecodeError")
  /\ UNCHANGED <<attempt, modelVars, countVars, resultVars, probeVars>>

-----------------------------------------------------------------------------
(* A provider answer counts as a round, whatever it carries.               *)

\* An envelope without choices, or a message parse_assistant_payload rejects.
UnusableReply(error) ==
  /\ pc = "request"
  /\ rounds' = rounds + 1
  /\ attempt' = 1
  /\ parse_failure' = error
  /\ stop_reason' = "parse_failure"
  /\ pc' = "finish"
  /\ UNCHANGED <<modelVars, calls, safety_cap_bound, max_rounds_bound, probeVars, raised>>

\* JSON of another shape, a list or a null where the envelope has an object:
\* what is read from it raises, after the round was counted.
MisshapenReply ==
  /\ pc = "request"
  /\ rounds' = rounds + 1
  /\ attempt' = 1
  /\ Raise("AttributeError")
  /\ UNCHANGED <<modelVars, calls, resultVars, probeVars>>

FinalMessage ==
  /\ pc = "request"
  /\ rounds' = rounds + 1
  /\ attempt' = 1
  /\ turns' = Append(turns, Message)
  /\ stop_reason' = "completed_natural"
  /\ pc' = "finish"
  /\ UNCHANGED <<batch, applied, calls, parse_failure, safety_cap_bound,
                 max_rounds_bound, probeVars, raised>>

ToolCallReply(n) ==
  /\ pc = "request"
  /\ rounds' = rounds + 1
  /\ attempt' = 1
  /\ turns' = Append(turns, Calls(n))
  /\ batch' = n
  /\ applied' = 0
  /\ pc' = "apply"
  /\ UNCHANGED <<calls, resultVars, probeVars, raised>>

-----------------------------------------------------------------------------
(* Applying the calls of a turn, in order, then looking at the budgets.    *)

\* Mutants: one model turn more than the budget; the turn budget is looked
\* at first.
AfterBatchExtraTurn(total) ==
  IF total >= SafetyCap
  THEN /\ stop_reason' = "safety_cap"
       /\ safety_cap_bound' = TRUE
       /\ pc' = "finish"
       /\ UNCHANGED max_rounds_bound
  ELSE IF MaxRounds # NoLimit /\ rounds > MaxRounds
  THEN /\ stop_reason' = "max_rounds"
       /\ max_rounds_bound' = TRUE
       /\ pc' = "finish"
       /\ UNCHANGED safety_cap_bound
  ELSE /\ pc' = "request"
       /\ UNCHANGED <<stop_reason, safety_cap_bound, max_rounds_bound>>
AfterBatchRoundsFirst(total) ==
  IF MaxRounds # NoLimit /\ rounds >= MaxRounds
  THEN /\ stop_reason' = "max_rounds"
       /\ max_rounds_bound' = TRUE
       /\ pc' = "finish"
       /\ UNCHANGED safety_cap_bound
  ELSE IF total >= SafetyCap
  THEN /\ stop_reason' = "safety_cap"
       /\ safety_cap_bound' = TRUE
       /\ pc' = "finish"
       /\ UNCHANGED max_rounds_bound
  ELSE /\ pc' = "request"
       /\ UNCHANGED <<stop_reason, safety_cap_bound, max_rounds_bound>>

\* After the whole batch: the backstop first, then the turn budget.
AfterBatch(total) ==
  IF total >= SafetyCap
  THEN /\ stop_reason' = "safety_cap"
       /\ safety_cap_bound' = TRUE
       /\ pc' = "finish"
       /\ UNCHANGED max_rounds_bound
  ELSE IF MaxRounds # NoLimit /\ rounds >= MaxRounds
  THEN /\ stop_reason' = "max_rounds"
       /\ max_rounds_bound' = TRUE
       /\ pc' = "finish"
       /\ UNCHANGED safety_cap_bound
  ELSE /\ pc' = "request"
       /\ UNCHANGED <<stop_reason, safety_cap_bound, max_rounds_bound>>

\* Mutant: the backstop is looked at after every call.
ApplyCallCutShort ==
  /\ pc = "apply"
  /\ applied < batch
  /\ turns' = Append(turns, Result(applied + 1))
  /\ applied' = applied + 1
  /\ calls' = calls + 1
  /\ IF applied + 1 = batch \/ calls + 1 >= SafetyCap
     THEN AfterBatch(calls + 1)
     ELSE UNCHANGED <<pc, stop_reason, safety_cap_bound, max_rounds_bound>>
  /\ UNCHANGED <<attempt, batch, rounds, parse_failure, probeVars, raised>>

\* The world answers the call itself, or the executor fulfils its request.
ApplyCall ==
  /\ pc = "apply"
  /\ applied < batch
  /\ turns' = Append(turns, Result(applied + 1))
  /\ applied' = applied + 1
  /\ calls' = calls + 1
  /\ IF applied + 1 = batch
     THEN AfterBatch(calls + 1)
     ELSE UNCHANGED <<pc, stop_reason, safety_cap_bound, max_rounds_bound>>
  /\ UNCHANGED <<attempt, batch, rounds, parse_failure, probeVars, raised>>

\* An effect-request with no executor, or an executor that raises.
EffectRaises ==
  /\ pc = "apply"
  /\ applied < batch
  /\ calls' = calls + 1
  /\ Raise("RuntimeError")
  /\ UNCHANGED <<attempt, modelVars, rounds, resultVars, probeVars>>

-----------------------------------------------------------------------------
(* After the loop: the second probe decides whether the trial counts.      *)

ProbeAfter(h) ==
  /\ pc = "finish"
  /\ post' = h
  /\ stop_reason' = IF /\ h = "unhealthy"
                       /\ stop_reason \in
                            {"completed_natural", "safety_cap", "max_rounds"}
                    THEN "env_unhealthy" ELSE stop_reason
  /\ pc' = "done"
  /\ UNCHANGED <<attempt, modelVars, countVars, parse_failure,
                 safety_cap_bound, max_rounds_bound, pre, raised>>

Request ==
  \/ KeyMissing \/ Unreachable \/ Throttled \/ Rejected \/ NotJson \/ MisshapenReply
  \/ \E e \in {"NO_CHOICES_ERROR", "malformed"} : UnusableReply(e)
  \/ FinalMessage
  \/ \E n \in 1 .. MaxBatch : ToolCallReply(n)

LoopNext ==
  \/ ToolsMissing
  \/ \E h \in Health : ProbeBefore(h) \/ ProbeAfter(h)
  \/ ProbeRaises
  \/ Request
  \/ ApplyCall
  \/ EffectRaises

\* The driver calls run_single again, for another trial.
Again ==
  /\ pc = "done"
  /\ pc' = "start" /\ attempt' = 1
  /\ turns' = <<>> /\ batch' = 0 /\ applied' = 0
  /\ rounds' = 0 /\ calls' = 0
  /\ parse_failure' = "none" /\ stop_reason' = "completed_natural"
  /\ safety_cap_bound' = FALSE /\ max_rounds_bound' = FALSE
  /\ pre' = "none" /\ post' = "none" /\ raised' = "none"

LoopSpec == LoopInit /\ [][LoopNext \/ Again]_loopVars
-----------------------------------------------------------------------------

Turn == [kind : {"calls", "result", "message"}, of : Nat]

\* Type invariant.
LoopTypeOK ==
  /\ pc \in {"start", "request", "apply", "finish", "done", "raised"}
  /\ attempt \in 1 .. MaxAttempts
  /\ turns \in Seq(Turn)
  /\ batch \in 0 .. MaxBatch
  /\ applied \in 0 .. batch
  /\ rounds \in Nat
  /\ calls \in Nat
  /\ parse_failure \in {"none", "PROVIDER_ERROR",
                        "NO_CHOICES_ERROR", "malformed"}
  /\ stop_reason \in {"completed_natural", "safety_cap", "max_rounds",
                      "parse_failure", "env_unhealthy"}
  /\ safety_cap_bound \in BOOLEAN
  /\ max_rounds_bound \in BOOLEAN
  /\ pre \in {"none", "healthy", "unhealthy"}
  /\ post \in {"none", "healthy", "unhealthy"}
  /\ raised \in {"none", "ValueError", "RuntimeError", "JSONDecodeError",
                 "AttributeError", "TransportError", "ProbeTransportError"}

\* Every transcript that is posted to the provider, and every one that is
\* recorded, pairs its tool calls with their results: each call of a turn is
\* answered, in order, right after the turn, even when a budget ends the run
\* there; a result never stands without its call, and a message ends the run.
PairedTranscript ==
  pc \in {"request", "finish", "done"} =>
    \A i \in 1 .. Len(turns) :
      /\ turns[i].kind = "calls" =>
           \A j \in 1 .. turns[i].of :
             i + j <= Len(turns) /\ turns[i + j] = Result(j)
      /\ turns[i].kind = "result" =>
           \E k \in 1 .. i - 1 : turns[k].kind = "calls" /\ i - k <= turns[k].of
      /\ turns[i].kind = "message" => i = Len(turns)

\* The counters within their bounds.
WithinBudgets ==
  /\ pc = "request" => /\ calls < SafetyCap
                       /\ MaxRounds # NoLimit => rounds < MaxRounds
  /\ calls < SafetyCap + MaxBatch
  /\ rounds <= SafetyCap
  /\ MaxRounds # NoLimit => rounds <= MaxRounds

\* The turns that are a reply of the provider.
Replies == {i \in 1 .. Len(turns) : turns[i].kind # "result"}

\* The replies the transcript does not hold: the unusable last one.
Unusable ==
  IF parse_failure \in {"NO_CHOICES_ERROR", "malformed"} \/ raised = "AttributeError" THEN 1 ELSE 0

\* The budgets bind where they should: nothing is posted once one of them is
\* used up, a run overshoots the backstop by less than one batch, and the
\* backstop bounds the rounds too, so a run without a turn budget is finite.
\* What the turn budget counts is the provider's replies, the unusable last
\* one included, and neither the retries before a reply nor a request that
\* was refused.
BudgetsHold == WithinBudgets /\ rounds = Cardinality(Replies) + Unusable

\* A trial is marked env_unhealthy, which is what has it replaced, only where a
\* probe found the environment broken; and always where the second one did, on
\* its way to a usable end, whatever budget bound and though the first one
\* found it healthy: no healthy trial is thrown away, and a model is not
\* charged for an outage it worked into.
OutageDecides ==
  /\ stop_reason = "env_unhealthy" => "unhealthy" \in {pre, post}
  /\ post = "unhealthy" /\ parse_failure = "none" => stop_reason = "env_unhealthy"

\* The recorded stop_reason is what really ended the run: the transcript and
\* the counters bear it out, at most one budget is recorded as binding, and an
\* outage decides.
StopReasonIsTrue ==
  pc = "done" =>
    /\ stop_reason = "completed_natural" =>
         turns # <<>> /\ turns[Len(turns)] = Message
    /\ stop_reason = "safety_cap" => safety_cap_bound
    /\ stop_reason = "max_rounds" => max_rounds_bound
    /\ safety_cap_bound => calls >= SafetyCap /\ stop_reason # "parse_failure"
    /\ max_rounds_bound => /\ rounds = MaxRounds /\ calls < SafetyCap
                           /\ stop_reason # "parse_failure"
    /\ (stop_reason = "parse_failure") <=> (parse_failure # "none")
    /\ \E b \in {safety_cap_bound, max_rounds_bound} : ~b
    /\ OutageDecides

\* A trial that has begun ends, by itself and without a turn budget, as long as
\* what it calls returns.
TrialEnds == (pc = "start") ~> (pc \in {"done", "raised"})
=============================================================================
