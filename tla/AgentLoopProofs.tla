-------------------------- MODULE AgentLoopProofs --------------------------
(***************************************************************************)
(* Theorems about AgentLoop, for every backstop, turn budget, number of    *)
(* attempts and batch size, and about TaskTrials, where it is a part.      *)
(***************************************************************************)
EXTENDS TaskTrials, FiniteSetTheorems, TLAPS

LEMMA TurnTypes ==
  ASSUME NEW n \in Nat
  PROVE  Calls(n) \in Turn /\ Result(n) \in Turn /\ Message \in Turn
BY DEF Calls, Result, Message, Turn

\* The type invariant is inductive.
THEOREM TypeCorrect == LoopSpec => []LoopTypeOK
<1>0. MaxAttempts \in Nat \ {0} /\ MaxBatch \in Nat \ {0}
  BY LoopAssumption
<1> USE <1>0
<1>1. LoopInit => LoopTypeOK
  <2> SUFFICES ASSUME LoopInit PROVE LoopTypeOK
    OBVIOUS
  <2>1. turns \in Seq(Turn)
    BY DEF LoopInit
  <2>2. attempt \in 1 .. MaxAttempts /\ batch \in 0 .. MaxBatch
    BY DEF LoopInit
  <2>3. applied \in 0 .. batch /\ rounds \in Nat /\ calls \in Nat
    BY DEF LoopInit
  <2>4. /\ safety_cap_bound \in BOOLEAN
        /\ max_rounds_bound \in BOOLEAN
        /\ pre \in {"none", "healthy", "unhealthy"}
        /\ post \in {"none", "healthy", "unhealthy"}
    BY DEF LoopInit
  <2>5. QED
    BY <2>1, <2>2, <2>3, <2>4 DEF LoopInit, LoopTypeOK
<1>2. LoopTypeOK /\ [LoopNext \/ Again]_loopVars => LoopTypeOK'
  <2> SUFFICES ASSUME LoopTypeOK, [LoopNext \/ Again]_loopVars PROVE LoopTypeOK'
    OBVIOUS
  <2> USE DEF LoopTypeOK, modelVars, countVars, resultVars, probeVars, Raise
  <2>1. CASE ToolsMissing
    BY <2>1 DEF ToolsMissing
  <2>2. ASSUME NEW h \in Health, ProbeBefore(h) PROVE LoopTypeOK'
    BY <2>2 DEF ProbeBefore, Health
  <2>3. ASSUME NEW h \in Health, ProbeAfter(h) PROVE LoopTypeOK'
    BY <2>3 DEF ProbeAfter, Health
  <2>4. CASE KeyMissing
    BY <2>4 DEF KeyMissing
  <2>5. CASE Unreachable
    BY <2>5 DEF Unreachable
  <2>6. CASE Throttled
    BY <2>6 DEF Throttled, ProviderError
  <2>7. CASE Rejected
    BY <2>7 DEF Rejected, ProviderError
  <2>8. CASE NotJson
    BY <2>8 DEF NotJson
  <2>9. ASSUME NEW e \in {"NO_CHOICES_ERROR", "malformed"},
               UnusableReply(e)
        PROVE  LoopTypeOK'
    BY <2>9 DEF UnusableReply
  <2>10. CASE FinalMessage
    BY <2>10, TurnTypes, 0 \in Nat DEF FinalMessage
  <2>11. ASSUME NEW n \in 1 .. MaxBatch, ToolCallReply(n) PROVE LoopTypeOK'
    <3>1. Calls(n) \in Turn
      BY TurnTypes
    <3>2. QED
      BY <2>11, <3>1 DEF ToolCallReply
  <2>12. CASE ApplyCall
    <3>1. Result(applied + 1) \in Turn
      BY TurnTypes
    <3>2. turns' \in Seq(Turn) /\ calls' \in Nat /\ applied' \in 0 .. batch
      BY <2>12, <3>1 DEF ApplyCall
    <3>3. /\ pc' \in {"apply", "request", "finish"}
          /\ stop_reason' \in {stop_reason, "safety_cap", "max_rounds"}
          /\ safety_cap_bound' \in BOOLEAN
          /\ max_rounds_bound' \in BOOLEAN
      BY <2>12 DEF ApplyCall, AfterBatch
    <3>4. UNCHANGED <<attempt, batch, rounds, parse_failure, pre, post, raised>>
      BY <2>12 DEF ApplyCall
    <3>5. QED
      BY <3>2, <3>3, <3>4
  <2>13. CASE EffectRaises
    BY <2>13 DEF EffectRaises
  <2>14. CASE ProbeRaises
    BY <2>14 DEF ProbeRaises
  <2>15. CASE MisshapenReply
    BY <2>15 DEF MisshapenReply
  <2>16. CASE Again
    <3>1. turns' \in Seq(Turn)
      BY <2>16 DEF Again
    <3>2. /\ attempt' \in 1 .. MaxAttempts /\ batch' \in 0 .. MaxBatch
          /\ applied' \in 0 .. batch' /\ rounds' \in Nat /\ calls' \in Nat
      BY <2>16 DEF Again
    <3>3. QED
      BY <2>16, <3>1, <3>2 DEF Again
  <2>17. CASE UNCHANGED loopVars
    BY <2>17 DEF loopVars
  <2>18. QED
    BY <2>1, <2>2, <2>3, <2>4, <2>5, <2>6, <2>7, <2>8, <2>9, <2>10, <2>11,
       <2>12, <2>13, <2>14, <2>15, <2>16, <2>17 DEF LoopNext, Request
<1>3. QED
  BY <1>1, <1>2, PTL DEF LoopSpec

-----------------------------------------------------------------------------
(* The budgets.                                                            *)

\* What WithinBudgets needs while a batch is being applied: the calls made
\* before the batch were below the backstop, and every finished round made a
\* call of its own.
Headroom ==
  /\ pc = "start" => rounds = 0 /\ calls = 0
  /\ pc = "request" => rounds <= calls
  /\ pc = "apply" => /\ applied < batch
                     /\ calls < SafetyCap + applied
                     /\ rounds <= calls - applied + 1

\* Both together are inductive.
LEMMA HeadroomInvariant == LoopSpec => [](Headroom /\ WithinBudgets)
<1>0. /\ MaxAttempts \in Nat \ {0} /\ MaxBatch \in Nat \ {0}
      /\ SafetyCap \in Nat \ {0}
      /\ MaxRounds # NoLimit => MaxRounds \in Nat \ {0}
  BY LoopAssumption
<1> USE <1>0
<1>1. LoopInit => Headroom /\ WithinBudgets
  BY DEF LoopInit, Headroom, WithinBudgets
<1>2. LoopTypeOK /\ Headroom /\ WithinBudgets /\ [LoopNext \/ Again]_loopVars
        => Headroom' /\ WithinBudgets'
  <2> SUFFICES ASSUME LoopTypeOK, Headroom, WithinBudgets, [LoopNext \/ Again]_loopVars
               PROVE  Headroom' /\ WithinBudgets'
    OBVIOUS
  <2>0. /\ calls \in Nat /\ rounds \in Nat
        /\ applied \in Nat /\ batch \in Nat /\ batch <= MaxBatch
        /\ pc \in {"start", "request", "apply", "finish", "done", "raised"}
    BY DEF LoopTypeOK
  <2> USE DEF Headroom, WithinBudgets, modelVars, countVars, resultVars,
              probeVars, Raise
  <2>1. CASE ToolsMissing \/ ProbeRaises
    BY <2>0, <2>1 DEF ToolsMissing, ProbeRaises
  <2>2. ASSUME NEW h \in Health, ProbeBefore(h)
        PROVE  Headroom' /\ WithinBudgets'
    BY <2>0, <2>2 DEF ProbeBefore
  <2>3. ASSUME NEW h \in Health, ProbeAfter(h)
        PROVE  Headroom' /\ WithinBudgets'
    BY <2>0, <2>3 DEF ProbeAfter
  <2>4. CASE KeyMissing \/ Unreachable \/ Throttled \/ Rejected \/ NotJson
    BY <2>0, <2>4
       DEF KeyMissing, Unreachable, Throttled, Rejected, NotJson, ProviderError
  <2>5. ASSUME NEW e \in {"NO_CHOICES_ERROR", "malformed"}, UnusableReply(e)
        PROVE  Headroom' /\ WithinBudgets'
    BY <2>0, <2>5 DEF UnusableReply
  <2>6. CASE FinalMessage
    BY <2>0, <2>6 DEF FinalMessage
  <2>7. ASSUME NEW n \in 1 .. MaxBatch, ToolCallReply(n)
        PROVE  Headroom' /\ WithinBudgets'
    BY <2>0, <2>7 DEF ToolCallReply
  <2>8. CASE ApplyCall
    <3>1. /\ pc = "apply" /\ applied < batch
          /\ applied' = applied + 1 /\ calls' = calls + 1
          /\ rounds' = rounds /\ batch' = batch
      BY <2>8 DEF ApplyCall
    <3>2. CASE applied + 1 = batch
      <4>1. AfterBatch(calls + 1)
        BY <2>8, <3>2 DEF ApplyCall
      <4>2. pc' \in {"finish", "request"}
        BY <4>1 DEF AfterBatch
      <4>3. pc' = "request" => /\ calls + 1 < SafetyCap
                               /\ MaxRounds # NoLimit => rounds < MaxRounds
        BY <2>0, <4>1 DEF AfterBatch
      <4>4. QED
        BY <2>0, <3>1, <3>2, <4>2, <4>3
    <3>3. CASE applied + 1 # batch
      <4>1. pc' = "apply"
        BY <2>8, <3>1, <3>3 DEF ApplyCall
      <4>2. QED
        BY <2>0, <3>1, <3>3, <4>1
    <3>4. QED
      BY <3>2, <3>3
  <2>9. CASE EffectRaises
    BY <2>0, <2>9 DEF EffectRaises
  <2>10. CASE MisshapenReply
    BY <2>0, <2>10 DEF MisshapenReply
  <2>11. CASE Again
    BY <2>0, <2>11 DEF Again
  <2>12. CASE UNCHANGED loopVars
    BY <2>0, <2>12 DEF loopVars
  <2>13. QED
    BY <2>1, <2>2, <2>3, <2>4, <2>5, <2>6, <2>7, <2>8, <2>9, <2>10, <2>11, <2>12
       DEF LoopNext, Request
<1>3. QED
  BY <1>1, <1>2, TypeCorrect, PTL DEF LoopSpec

-----------------------------------------------------------------------------
(* What the record says.                                                   *)

\* Until a run is recorded its flags say what the loop has decided so far.
Decided ==
  /\ pc \in {"start", "request", "apply"} =>
       /\ stop_reason = "completed_natural" /\ parse_failure = "none"
       /\ safety_cap_bound = FALSE /\ max_rounds_bound = FALSE
  /\ pc = "finish" =>
       /\ stop_reason # "env_unhealthy"
       /\ stop_reason = "parse_failure" <=> parse_failure # "none"
  /\ pc = "done" => (stop_reason = "env_unhealthy" <=>
                       post = "unhealthy" /\ parse_failure = "none")
  /\ pc # "raised" => raised = "none"

LEMMA DecidedInvariant == LoopSpec => []Decided
<1>1. LoopInit => Decided
  BY DEF LoopInit, Decided
<1>2. LoopTypeOK /\ Decided /\ [LoopNext \/ Again]_loopVars => Decided'
  <2> SUFFICES ASSUME LoopTypeOK, Decided, [LoopNext \/ Again]_loopVars PROVE Decided'
    OBVIOUS
  <2>0. stop_reason \in {"completed_natural", "safety_cap", "max_rounds",
                         "parse_failure", "env_unhealthy"}
    BY DEF LoopTypeOK
  <2> USE DEF Decided, modelVars, countVars, resultVars, probeVars, Raise
  <2>1. CASE ToolsMissing \/ ProbeRaises \/ KeyMissing \/ NotJson \/ EffectRaises
    BY <2>1 DEF ToolsMissing, ProbeRaises, KeyMissing, NotJson, EffectRaises
  <2>2. ASSUME NEW h \in Health, ProbeBefore(h) PROVE Decided'
    BY <2>2 DEF ProbeBefore
  <2>3. ASSUME NEW h \in Health, ProbeAfter(h) PROVE Decided'
    BY <2>0, <2>3 DEF ProbeAfter
  <2>4. CASE Unreachable
    BY <2>4 DEF Unreachable
  <2>5. CASE Throttled \/ Rejected
    BY <2>5 DEF Throttled, Rejected, ProviderError
  <2>6. ASSUME NEW e \in {"NO_CHOICES_ERROR", "malformed"}, UnusableReply(e)
        PROVE  Decided'
    BY <2>6 DEF UnusableReply
  <2>7. CASE FinalMessage
    BY <2>7 DEF FinalMessage
  <2>8. ASSUME NEW n \in 1 .. MaxBatch, ToolCallReply(n) PROVE Decided'
    BY <2>8 DEF ToolCallReply
  <2>9. CASE ApplyCall
    BY <2>9 DEF ApplyCall, AfterBatch
  <2>10. CASE MisshapenReply \/ Again
    BY <2>10 DEF MisshapenReply, Again
  <2>11. CASE UNCHANGED loopVars
    BY <2>11 DEF loopVars
  <2>12. QED
    BY <2>1, <2>2, <2>3, <2>4, <2>5, <2>6, <2>7, <2>8, <2>9, <2>10, <2>11
       DEF LoopNext, Request
<1>3. QED
  BY <1>1, <1>2, TypeCorrect, PTL DEF LoopSpec

\* A trial is marked env_unhealthy only where a probe found the environment
\* broken, and always where the second one did and the provider's last answer
\* was usable.
THEOREM OutageTakesPrecedence == LoopSpec => [](pc = "done" => OutageDecides)
<1>1. Decided => (pc = "done" => OutageDecides)
  BY DEF Decided, OutageDecides
<1>2. QED
  BY <1>1, DecidedInvariant, PTL

\* One turn more is one reply more, or a result.
LEMMA ReplyAppended ==
  ASSUME NEW ts \in Seq(Turn), NEW t \in Turn
  PROVE  LET before == {i \in 1 .. Len(ts) : ts[i].kind # "result"}
             after == {i \in 1 .. Len(Append(ts, t)) : Append(ts, t)[i].kind # "result"}
         IN /\ IsFiniteSet(before) /\ Cardinality(before) \in Nat
            /\ Cardinality(after) =
                 IF t.kind = "result" THEN Cardinality(before) ELSE Cardinality(before) + 1
<1> DEFINE before == {i \in 1 .. Len(ts) : ts[i].kind # "result"}
           after == {i \in 1 .. Len(Append(ts, t)) : Append(ts, t)[i].kind # "result"}
<1>1. /\ Len(ts) \in Nat /\ Len(Append(ts, t)) = Len(ts) + 1
      /\ \A i \in 1 .. Len(ts) : Append(ts, t)[i] = ts[i]
      /\ Append(ts, t)[Len(ts) + 1] = t
  OBVIOUS
<1>2. IsFiniteSet(before)
  <2>1. IsFiniteSet(1 .. Len(ts))
    BY <1>1, FS_Interval
  <2>2. before \subseteq 1 .. Len(ts)
    OBVIOUS
  <2>3. QED
    BY <2>1, <2>2, FS_Subset
<1>3. Cardinality(before) \in Nat
  BY <1>2, FS_CardinalityType
<1>4. CASE t.kind = "result"
  <2>1. after = before
    BY <1>1, <1>4
  <2>2. QED
    BY <1>2, <1>3, <1>4, <2>1
<1>5. CASE t.kind # "result"
  <2>1. after = before \cup {Len(ts) + 1}
    BY <1>1, <1>5
  <2>2. Len(ts) + 1 \notin before
    BY <1>1
  <2>3. Cardinality(after) = Cardinality(before) + 1
    BY <1>2, <2>1, <2>2, FS_AddElement
  <2>4. QED
    BY <1>2, <1>3, <1>5, <2>3
<1>6. QED
  BY <1>4, <1>5

\* The rounds are the replies.
Counted == rounds = Cardinality(Replies) + Unusable

LEMMA CountedInvariant == LoopSpec => []Counted
<1>1. LoopInit => Counted
  <2> SUFFICES ASSUME LoopInit PROVE Counted
    OBVIOUS
  <2>1. Replies = {}
    BY DEF LoopInit, Replies
  <2>2. QED
    BY <2>1, FS_EmptySet DEF LoopInit, Counted, Unusable
<1>2. LoopTypeOK /\ Decided /\ Counted /\ [LoopNext \/ Again]_loopVars => Counted'
  <2> SUFFICES ASSUME LoopTypeOK, Decided, Counted, [LoopNext \/ Again]_loopVars PROVE Counted'
    OBVIOUS
  <2>0. /\ turns \in Seq(Turn) /\ rounds \in Nat
        /\ Cardinality(Replies) \in Nat
        /\ pc \in {"request", "apply"} =>
             Unusable = 0 /\ parse_failure = "none" /\ raised = "none"
        /\ pc # "raised" => raised = "none"
    <3>1. turns \in Seq(Turn) /\ rounds \in Nat
      BY DEF LoopTypeOK
    <3>2. Message \in Turn
      BY TurnTypes, 0 \in Nat
    <3>3. Cardinality(Replies) \in Nat
      BY <3>1, <3>2, ReplyAppended DEF Replies
    <3>4. /\ pc \in {"request", "apply"} =>
               Unusable = 0 /\ parse_failure = "none" /\ raised = "none"
          /\ pc # "raised" => raised = "none"
      BY DEF Decided, Unusable
    <3>5. QED
      BY <3>1, <3>3, <3>4
  <2> USE DEF modelVars, countVars, resultVars, probeVars, Raise
  <2>1. ASSUME UNCHANGED <<turns, rounds, parse_failure>>,
               raised' = "AttributeError" <=> raised = "AttributeError"
        PROVE  Counted'
    <3>1. Unusable' = Unusable /\ Replies' = Replies
      BY <2>1 DEF Unusable, Replies
    <3>2. QED
      BY <2>1, <3>1 DEF Counted
  <2>2. CASE ToolsMissing \/ ProbeRaises \/ KeyMissing \/ NotJson \/ EffectRaises
    BY <2>0, <2>1, <2>2 DEF ToolsMissing, ProbeRaises, KeyMissing, NotJson, EffectRaises
  <2>3. ASSUME NEW h \in Health, ProbeBefore(h) PROVE Counted'
    BY <2>1, <2>3 DEF ProbeBefore
  <2>4. ASSUME NEW h \in Health, ProbeAfter(h) PROVE Counted'
    BY <2>1, <2>4 DEF ProbeAfter
  <2>5. CASE Unreachable
    BY <2>0, <2>1, <2>5 DEF Unreachable
  <2>6. CASE Throttled \/ Rejected
    <3>1. CASE UNCHANGED <<turns, rounds, parse_failure, raised>>
      BY <2>1, <3>1
    <3>2. CASE /\ parse_failure' = "PROVIDER_ERROR" /\ pc = "request"
               /\ UNCHANGED <<turns, rounds, raised>>
      <4>1. Unusable' = 0 /\ Unusable = 0
        BY <2>0, <3>2 DEF Unusable
      <4>2. Replies' = Replies
        BY <3>2 DEF Replies
      <4>3. QED
        BY <3>2, <4>1, <4>2 DEF Counted
    <3>3. QED
      BY <2>6, <3>1, <3>2 DEF Throttled, Rejected, ProviderError
  <2>7. ASSUME NEW e \in {"NO_CHOICES_ERROR", "malformed"}, UnusableReply(e)
        PROVE  Counted'
    <3>1. pc = "request" /\ parse_failure' = e /\ turns' = turns /\ rounds' = rounds + 1
      BY <2>7 DEF UnusableReply
    <3>2. Unusable = 0 /\ Unusable' = 1
      BY <2>0, <3>1 DEF Unusable
    <3>3. Replies' = Replies
      BY <3>1 DEF Replies
    <3>4. QED
      BY <2>0, <3>1, <3>2, <3>3 DEF Counted
  <2>8. ASSUME NEW t \in Turn, t.kind # "result", turns' = Append(turns, t),
               rounds' = rounds + 1, UNCHANGED <<parse_failure, raised>>
        PROVE  Counted'
    <3>1. Cardinality(Replies') = Cardinality(Replies) + 1
      BY <2>0, <2>8, ReplyAppended DEF Replies
    <3>2. Unusable' = Unusable /\ Unusable \in Nat
      BY <2>8 DEF Unusable
    <3>3. QED
      BY <2>0, <2>8, <3>1, <3>2 DEF Counted
  <2>9. CASE FinalMessage
    <3>1. Message \in Turn /\ Message.kind # "result"
      BY TurnTypes, 0 \in Nat DEF Message
    <3>2. QED
      BY <2>8, <2>9, <3>1 DEF FinalMessage
  <2>10. ASSUME NEW n \in 1 .. MaxBatch, ToolCallReply(n) PROVE Counted'
    <3>1. Calls(n) \in Turn /\ Calls(n).kind # "result"
      BY TurnTypes DEF Calls
    <3>2. QED
      BY <2>8, <2>10, <3>1 DEF ToolCallReply
  <2>11. CASE ApplyCall
    <3>1. Result(applied + 1) \in Turn /\ Result(applied + 1).kind = "result"
      BY TurnTypes DEF Result, LoopTypeOK
    <3>2. /\ turns' = Append(turns, Result(applied + 1)) /\ rounds' = rounds
          /\ UNCHANGED <<parse_failure, raised>>
      BY <2>11 DEF ApplyCall
    <3>3. Cardinality(Replies') = Cardinality(Replies)
      BY <2>0, <3>1, <3>2, ReplyAppended DEF Replies
    <3>4. Unusable' = Unusable
      BY <3>2 DEF Unusable
    <3>5. QED
      BY <3>2, <3>3, <3>4 DEF Counted
  <2>12. CASE MisshapenReply
    <3>1. /\ pc = "request" /\ raised' = "AttributeError"
          /\ turns' = turns /\ rounds' = rounds + 1
      BY <2>12 DEF MisshapenReply
    <3>2. Unusable = 0 /\ Unusable' = 1
      BY <2>0, <3>1 DEF Unusable
    <3>3. Replies' = Replies
      BY <3>1 DEF Replies
    <3>4. QED
      BY <2>0, <3>1, <3>2, <3>3 DEF Counted
  <2>13. CASE Again
    <3>1. Replies' = {}
      BY <2>13 DEF Again, Replies
    <3>2. Unusable' = 0 /\ rounds' = 0
      BY <2>13 DEF Again, Unusable
    <3>3. QED
      BY <3>1, <3>2, FS_EmptySet DEF Counted
  <2>14. CASE UNCHANGED loopVars
    BY <2>1, <2>14 DEF loopVars
  <2>15. QED
    BY <2>2, <2>3, <2>4, <2>5, <2>6, <2>7, <2>9, <2>10, <2>11, <2>12, <2>13, <2>14
       DEF LoopNext, Request
<1>3. QED
  BY <1>1, <1>2, TypeCorrect, DecidedInvariant, PTL DEF LoopSpec

\* No post once a budget is used up, less than one batch of overshoot, a
\* finite number of rounds even for a run without a turn budget, and rounds
\* that are the provider's replies: whatever the backstop, the turn budget and
\* the size of the batches.
THEOREM BudgetsCorrect == LoopSpec => []BudgetsHold
<1>1. WithinBudgets /\ Counted => BudgetsHold
  BY DEF BudgetsHold, Counted
<1>2. QED
  BY <1>1, HeadroomInvariant, CountedInvariant, PTL

-----
(* The transcript.                                                         *)

\* The state of the transcript at turn i, in the middle of a batch too: only
\* the turn being applied may still miss results.
PairedAt(i) ==
  /\ turns[i].kind = "calls" =>
       /\ \A j \in 1 .. turns[i].of :
            i + j <= Len(turns) => turns[i + j] = Result(j)
       /\ IF pc = "apply" /\ i = Len(turns) - applied
          THEN turns[i].of = batch
          ELSE i + turns[i].of <= Len(turns)
  /\ turns[i].kind = "result" =>
       \E k \in 1 .. i - 1 : turns[k].kind = "calls" /\ i - k <= turns[k].of
  /\ turns[i].kind = "message" => i = Len(turns) /\ pc \in {"finish", "done"}

Paired ==
  pc # "raised" =>
    /\ \A i \in 1 .. Len(turns) : PairedAt(i)
    /\ pc = "apply" => /\ applied < batch
                       /\ applied < Len(turns)
                       /\ turns[Len(turns) - applied].kind = "calls"

\* A turn that is neither a message nor still missing results is not
\* disturbed by what is appended after it.
LEMMA OlderTurnsStayPaired ==
  ASSUME LoopTypeOK, NEW turn \in Turn, turns' = Append(turns, turn),
         NEW i \in 1 .. Len(turns), PairedAt(i),
         turns[i].kind # "message",
         turns[i].kind = "calls" => i + turns[i].of <= Len(turns),
         pc' = "apply" => i # Len(turns') - applied'
  PROVE  PairedAt(i)'
<1>0. /\ Len(turns) \in Nat
      /\ turns[i] \in Turn
      /\ Len(turns') = Len(turns) + 1
      /\ \A k \in 1 .. Len(turns) : turns'[k] = turns[k]
  BY DEF LoopTypeOK
<1>1. turns[i].of \in Nat
  BY <1>0 DEF Turn
<1>2. ASSUME turns[i].kind = "calls"
      PROVE  /\ i + turns[i].of <= Len(turns')
             /\ \A j \in 1 .. turns[i].of : turns'[i + j] = Result(j)
  <2>1. i + turns[i].of <= Len(turns')
    BY <1>0, <1>1, <1>2
  <2>2. ASSUME NEW j \in 1 .. turns[i].of PROVE turns'[i + j] = Result(j)
    <3>1. i + j <= Len(turns) /\ i + j \in 1 .. Len(turns)
      BY <1>0, <1>1, <1>2
    <3>2. turns[i + j] = Result(j)
      BY <1>2, <3>1 DEF PairedAt
    <3>3. QED
      BY <1>0, <3>1, <3>2
  <2>3. QED
    BY <2>1, <2>2
<1>3. ASSUME turns[i].kind = "result"
      PROVE  \E k \in 1 .. i - 1 :
               turns'[k].kind = "calls" /\ i - k <= turns'[k].of
  <2>1. PICK k \in 1 .. i - 1 : turns[k].kind = "calls" /\ i - k <= turns[k].of
    BY <1>3 DEF PairedAt
  <2>2. k \in 1 .. Len(turns)
    BY <1>0
  <2>3. QED
    BY <1>0, <2>1, <2>2
<1>4. QED
  BY <1>0, <1>2, <1>3 DEF PairedAt

LEMMA PairedInvariant == LoopSpec => []Paired
<1>1. LoopInit => Paired
  BY DEF LoopInit, Paired
<1>2. LoopTypeOK /\ Paired /\ [LoopNext \/ Again]_loopVars => Paired'
  <2> SUFFICES ASSUME LoopTypeOK, Paired, [LoopNext \/ Again]_loopVars PROVE Paired'
    OBVIOUS
  <2>0. Len(turns) \in Nat /\ applied \in Nat /\ batch \in Nat
    BY DEF LoopTypeOK
  <2> USE DEF modelVars, countVars, resultVars, probeVars, Raise
  <2>a. ASSUME NEW turn \in Turn, turns' = Append(turns, turn)
        PROVE  /\ Len(turns') = Len(turns) + 1
               /\ \A i \in 1 .. Len(turns) : turns'[i] = turns[i]
               /\ turns'[Len(turns) + 1] = turn
    BY <2>a DEF LoopTypeOK
  <2>b. ASSUME Len(turns') = Len(turns) + 1,
               \A i \in 1 .. Len(turns) : PairedAt(i)',
               \A i : i = Len(turns) + 1 => PairedAt(i)'
        PROVE  \A i \in 1 .. Len(turns') : PairedAt(i)'
    BY <2>0, <2>b
  <2>1. CASE pc' = "raised"
    BY <2>1 DEF Paired
  <2>2. CASE /\ UNCHANGED <<turns, batch, applied>>
             /\ pc # "apply" /\ pc' # "apply" /\ pc # "raised"
             /\ pc \in {"finish", "done"} => pc' \in {"finish", "done"}
    <3>1. \A i \in 1 .. Len(turns) : PairedAt(i)'
      <4> SUFFICES ASSUME NEW i \in 1 .. Len(turns) PROVE PairedAt(i)'
        OBVIOUS
      <4>1. PairedAt(i)
        BY <2>2 DEF Paired
      <4>2. QED
        BY <2>2, <4>1 DEF PairedAt
    <3>2. QED
      BY <2>2, <3>1 DEF Paired
  <2>3. ASSUME pc = "request", NEW i \in 1 .. Len(turns)
        PROVE  /\ PairedAt(i)
               /\ turns[i].kind = "calls" => i + turns[i].of <= Len(turns)
               /\ turns[i].kind # "message"
    <3>1. PairedAt(i)
      BY <2>3 DEF Paired
    <3>2. QED
      BY <2>3, <3>1 DEF PairedAt
  <2>4. CASE FinalMessage
    <3>1. /\ pc = "request" /\ pc' = "finish"
          /\ Message \in Turn
          /\ turns' = Append(turns, Message)
      BY <2>4, TurnTypes, 0 \in Nat DEF FinalMessage
    <3>2. \A i \in 1 .. Len(turns) : PairedAt(i)'
      BY <2>3, <3>1, OlderTurnsStayPaired
    <3>3. ASSUME NEW i, i = Len(turns) + 1 PROVE PairedAt(i)'
      <4>1. i = Len(turns') /\ turns'[i].kind = "message"
        BY <2>a, <3>1, <3>3 DEF Message
      <4>2. QED
        BY <3>1, <4>1 DEF PairedAt
    <3>4. QED
      BY <2>a, <2>b, <3>1, <3>2, <3>3 DEF Paired
  <2>5. ASSUME NEW n \in 1 .. MaxBatch, ToolCallReply(n) PROVE Paired'
    <3>0. n \in Nat \ {0}
      BY LoopAssumption
    <3>1. /\ pc = "request" /\ pc' = "apply"
          /\ Calls(n) \in Turn
          /\ turns' = Append(turns, Calls(n))
          /\ batch' = n /\ applied' = 0
      BY <2>5, <3>0, TurnTypes DEF ToolCallReply
    <3>2. Len(turns') = Len(turns) + 1 /\ turns'[Len(turns) + 1] = Calls(n)
      BY <2>a, <3>1
    <3>3. ASSUME NEW i \in 1 .. Len(turns) PROVE i # Len(turns') - applied'
      BY <2>0, <3>1, <3>2
    <3>4. \A i \in 1 .. Len(turns) : PairedAt(i)'
      BY <2>3, <3>1, <3>3, OlderTurnsStayPaired
    <3>5. ASSUME NEW i, i = Len(turns) + 1 PROVE PairedAt(i)'
      <4>1. /\ i = Len(turns') /\ i = Len(turns') - applied'
            /\ turns'[i].kind = "calls" /\ turns'[i].of = n
        BY <2>0, <3>1, <3>2, <3>5 DEF Calls
      <4>2. \A j \in 1 .. n : ~(i + j <= Len(turns'))
        BY <2>0, <3>2, <3>5
      <4>3. QED
        BY <3>1, <4>1, <4>2 DEF PairedAt
    <3>6. /\ Len(turns') - applied' = Len(turns) + 1
          /\ applied' < Len(turns')
      BY <2>0, <3>1, <3>2
    <3>7. turns'[Len(turns) + 1].kind = "calls"
      BY <3>2 DEF Calls
    <3>8. \A i \in 1 .. Len(turns') : PairedAt(i)'
      BY <2>b, <3>2, <3>4, <3>5
    <3>9. QED
      BY <3>0, <3>1, <3>6, <3>7, <3>8 DEF Paired
  <2>6. CASE ApplyCall
    <3>1. /\ pc = "apply" /\ applied < batch
          /\ Result(applied + 1) \in Turn
          /\ turns' = Append(turns, Result(applied + 1))
          /\ applied' = applied + 1 /\ batch' = batch
      BY <2>0, <2>6, TurnTypes DEF ApplyCall
    <3>2. /\ Len(turns') = Len(turns) + 1
          /\ \A i \in 1 .. Len(turns) : turns'[i] = turns[i]
          /\ turns'[Len(turns) + 1] = Result(applied + 1)
      BY <2>a, <3>1
    <3>3. PICK c \in 1 .. Len(turns) :
            /\ c = Len(turns) - applied
            /\ turns[c].kind = "calls"
            /\ PairedAt(c)
            /\ turns[c].of = batch
      <4>1. /\ Len(turns) - applied \in 1 .. Len(turns)
            /\ turns[Len(turns) - applied].kind = "calls"
        BY <2>0, <3>1 DEF Paired
      <4>2. PairedAt(Len(turns) - applied)
        BY <3>1, <4>1 DEF Paired
      <4>3. QED
        BY <3>1, <4>1, <4>2 DEF PairedAt
    <3>4. /\ pc' \in {"apply", "finish", "request"}
          /\ pc' = "apply" <=> applied + 1 < batch
      BY <2>0, <3>1, <2>6 DEF ApplyCall, AfterBatch
    <3>5. c = Len(turns') - applied'
      BY <2>0, <3>1, <3>2, <3>3
    <3>6. ASSUME NEW j \in 1 .. batch, c + j <= Len(turns')
          PROVE  turns'[c + j] = Result(j)
      <4>1. CASE c + j <= Len(turns)
        BY <2>0, <3>2, <3>3, <4>1 DEF PairedAt
      <4>2. CASE c + j = Len(turns) + 1
        <5>1. j = applied + 1
          BY <2>0, <3>3, <4>2
        <5>2. QED
          BY <3>2, <4>2, <5>1
      <4>3. QED
        BY <2>0, <3>2, <3>6, <4>1, <4>2
    <3>7. PairedAt(c)'
      <4>1. turns'[c].of = batch /\ turns'[c].kind = "calls"
        BY <3>2, <3>3
      <4>2. pc' # "apply" => c + batch <= Len(turns')
        BY <2>0, <3>1, <3>2, <3>3, <3>4
      <4>3. QED
        BY <3>1, <3>5, <3>6, <4>1, <4>2 DEF PairedAt
    <3>8. ASSUME NEW i \in 1 .. Len(turns), i # c PROVE PairedAt(i)'
      <4>1. PairedAt(i)
        BY <3>1 DEF Paired
      <4>2. /\ turns[i].kind = "calls" => i + turns[i].of <= Len(turns)
            /\ turns[i].kind # "message"
        BY <3>1, <3>3, <3>8, <4>1 DEF PairedAt
      <4>3. QED
        BY <3>1, <3>5, <3>8, <4>1, <4>2, OlderTurnsStayPaired
    <3>9. ASSUME NEW i, i = Len(turns) + 1 PROVE PairedAt(i)'
      <4>1. turns'[i].kind = "result"
        BY <3>2, <3>9 DEF Result
      <4>2. c \in 1 .. i - 1
        BY <2>0, <3>9
      <4>3. turns'[c].kind = "calls" /\ i - c <= turns'[c].of
        BY <2>0, <3>1, <3>2, <3>3, <3>9
      <4>4. QED
        BY <4>1, <4>2, <4>3 DEF PairedAt
    <3>10. \A i \in 1 .. Len(turns') : PairedAt(i)'
      BY <2>b, <3>2, <3>7, <3>8, <3>9
    <3>11. /\ pc' = "apply" => applied' < batch'
           /\ applied' < Len(turns')
           /\ turns'[Len(turns') - applied'].kind = "calls"
      BY <2>0, <3>1, <3>2, <3>3, <3>4, <3>5
    <3>12. QED
      BY <3>10, <3>11 DEF Paired
  <2>7. CASE Again
    BY <2>7 DEF Again, Paired, PairedAt
  <2>8. CASE UNCHANGED loopVars
    BY <2>8 DEF loopVars, Paired, PairedAt
  <2>9. QED
    BY <2>1, <2>2, <2>4, <2>5, <2>6, <2>7, <2>8
       DEF LoopNext, MisshapenReply, Request, ToolsMissing, ProbeRaises, ProbeBefore, ProbeAfter, KeyMissing,
           Unreachable, Throttled, Rejected, ProviderError, NotJson,
           UnusableReply, EffectRaises
<1>3. QED
  BY <1>1, <1>2, TypeCorrect, PTL DEF LoopSpec

\* Every transcript that is posted or recorded pairs each tool call with its
\* result, for every batch size and wherever a budget cuts the run.
THEOREM TranscriptPaired == LoopSpec => []PairedTranscript
<1>1. LoopTypeOK /\ Paired => PairedTranscript
  <2> SUFFICES ASSUME LoopTypeOK, Paired, pc \in {"request", "finish", "done"},
                      NEW i \in 1 .. Len(turns)
               PROVE  /\ turns[i].kind = "calls" =>
                           \A j \in 1 .. turns[i].of :
                             i + j <= Len(turns) /\ turns[i + j] = Result(j)
                      /\ turns[i].kind = "result" =>
                           \E k \in 1 .. i - 1 :
                             turns[k].kind = "calls" /\ i - k <= turns[k].of
                      /\ turns[i].kind = "message" => i = Len(turns)
    BY DEF PairedTranscript
  <2>1. PairedAt(i)
    BY DEF Paired
  <2>2. Len(turns) \in Nat /\ turns[i] \in Turn
    BY DEF LoopTypeOK
  <2>3. turns[i].of \in Nat
    BY <2>2 DEF Turn
  <2>4. turns[i].kind = "calls" => i + turns[i].of <= Len(turns)
    BY <2>1 DEF PairedAt
  <2>5. turns[i].kind = "calls" =>
          \A j \in 1 .. turns[i].of :
            i + j <= Len(turns) /\ turns[i + j] = Result(j)
    BY <2>1, <2>2, <2>3, <2>4 DEF PairedAt
  <2>6. QED
    BY <2>1, <2>5 DEF PairedAt
<1>2. QED
  BY <1>1, TypeCorrect, PairedInvariant, PTL
\* What StopReasonIsTrue says of a recorded run holds as soon as the loop is
\* left; before, nothing has been decided.
Ended ==
  /\ pc \in {"start", "request", "apply"} =>
       /\ stop_reason = "completed_natural" /\ parse_failure = "none"
       /\ safety_cap_bound = FALSE /\ max_rounds_bound = FALSE
  /\ pc \in {"finish", "done"} =>
       /\ stop_reason = "completed_natural" =>
            turns # <<>> /\ turns[Len(turns)] = Message
       /\ stop_reason = "safety_cap" => safety_cap_bound = TRUE
       /\ stop_reason = "max_rounds" => max_rounds_bound = TRUE
       /\ safety_cap_bound = TRUE =>
            /\ calls >= SafetyCap /\ stop_reason # "parse_failure"
            /\ max_rounds_bound = FALSE
       /\ max_rounds_bound = TRUE =>
            /\ rounds = MaxRounds /\ calls < SafetyCap
            /\ stop_reason # "parse_failure"
       /\ stop_reason = "parse_failure" <=> parse_failure # "none"

\* The recorded stop_reason is what really ended the run, whatever the
\* budgets: the transcript and the counters bear it out.
THEOREM StopReasonCorrect == LoopSpec => []StopReasonIsTrue
<1>0. /\ SafetyCap \in Nat \ {0}
      /\ MaxRounds # NoLimit => MaxRounds \in Nat \ {0}
  BY LoopAssumption
<1>1. LoopInit => Ended
  BY DEF LoopInit, Ended
<1>2. LoopTypeOK /\ Headroom /\ WithinBudgets /\ Ended /\ [LoopNext \/ Again]_loopVars => Ended'
  <2> SUFFICES ASSUME LoopTypeOK, Headroom, WithinBudgets, Ended, [LoopNext \/ Again]_loopVars
               PROVE  Ended'
    OBVIOUS
  <2>0. /\ stop_reason \in {"completed_natural", "safety_cap", "max_rounds",
                            "parse_failure", "env_unhealthy"}
        /\ calls \in Nat /\ rounds \in Nat
        /\ turns \in Seq(Turn)
    BY DEF LoopTypeOK
  <2> USE DEF modelVars, countVars, resultVars, probeVars, Raise
  <2>1. CASE ToolsMissing \/ ProbeRaises \/ KeyMissing \/ NotJson \/ EffectRaises
    BY <2>1 DEF Ended, ToolsMissing, ProbeRaises, KeyMissing, NotJson, EffectRaises
  <2>2. ASSUME NEW h \in Health, ProbeBefore(h) PROVE Ended'
    BY <2>2 DEF Ended, ProbeBefore
  <2>3. ASSUME NEW h \in Health, ProbeAfter(h) PROVE Ended'
    BY <2>0, <2>3 DEF Ended, ProbeAfter
  <2>4. CASE Unreachable
    BY <2>4 DEF Ended, Unreachable
  <2>5. CASE Throttled \/ Rejected
    BY <2>5 DEF Ended, Throttled, Rejected, ProviderError
  <2>6. ASSUME NEW e \in {"NO_CHOICES_ERROR", "malformed"}, UnusableReply(e)
        PROVE  Ended'
    BY <2>6 DEF Ended, UnusableReply
  <2>7. CASE FinalMessage
    <3>1. turns' # <<>> /\ turns'[Len(turns')] = Message
      <4>1. Message \in Turn
        BY TurnTypes, 0 \in Nat
      <4>2. turns' = Append(turns, Message)
        BY <2>7 DEF FinalMessage
      <4>3. QED
        BY <2>0, <4>1, <4>2
    <3>2. QED
      BY <2>7, <3>1 DEF Ended, FinalMessage
  <2>8. ASSUME NEW n \in 1 .. MaxBatch, ToolCallReply(n) PROVE Ended'
    BY <2>8 DEF Ended, ToolCallReply
  <2>9. CASE ApplyCall
    <3>1. /\ pc = "apply" /\ calls' = calls + 1
          /\ UNCHANGED <<rounds, parse_failure>>
          /\ parse_failure = "none"
          /\ stop_reason = "completed_natural"
          /\ safety_cap_bound = FALSE /\ max_rounds_bound = FALSE
      BY <2>9 DEF Ended, ApplyCall
    <3>2. CASE applied + 1 = batch
      <4>1. AfterBatch(calls + 1)
        BY <2>9, <3>2 DEF ApplyCall
      <4>2. CASE calls + 1 >= SafetyCap
        BY <3>1, <4>1, <4>2 DEF AfterBatch, Ended
      <4>3. CASE ~(calls + 1 >= SafetyCap) /\ MaxRounds # NoLimit
                 /\ rounds >= MaxRounds
        <5>1. rounds = MaxRounds /\ calls + 1 < SafetyCap
          BY <1>0, <2>0, <4>3 DEF WithinBudgets
        <5>2. /\ stop_reason' = "max_rounds" /\ max_rounds_bound' = TRUE
              /\ safety_cap_bound' = FALSE /\ pc' = "finish"
          BY <3>1, <4>1, <4>3 DEF AfterBatch
        <5>3. QED
          BY <1>0, <2>0, <3>1, <5>1, <5>2 DEF Ended
      <4>4. CASE ~(calls + 1 >= SafetyCap)
                 /\ ~(MaxRounds # NoLimit /\ rounds >= MaxRounds)
        BY <3>1, <4>1, <4>4 DEF AfterBatch, Ended
      <4>5. QED
        BY <4>2, <4>3, <4>4
    <3>3. CASE applied + 1 # batch
      BY <2>9, <3>1, <3>3 DEF ApplyCall, Ended
    <3>4. QED
      BY <3>2, <3>3
  <2>10. CASE MisshapenReply \/ Again
    BY <2>10 DEF Ended, MisshapenReply, Again
  <2>11. CASE UNCHANGED loopVars
    BY <2>11 DEF Ended, loopVars
  <2>12. QED
    BY <2>1, <2>2, <2>3, <2>4, <2>5, <2>6, <2>7, <2>8, <2>9, <2>10, <2>11
       DEF LoopNext, Request
<1>3. LoopTypeOK /\ Ended /\ Decided => StopReasonIsTrue
  <2> SUFFICES ASSUME LoopTypeOK, Ended, Decided, pc = "done" PROVE StopReasonIsTrue
    BY DEF StopReasonIsTrue
  <2>1. safety_cap_bound \in BOOLEAN /\ max_rounds_bound \in BOOLEAN
    BY DEF LoopTypeOK
  <2>2. \E b \in {safety_cap_bound, max_rounds_bound} : ~b
    BY <2>1 DEF Ended
  <2>3. OutageDecides
    BY DEF Decided, OutageDecides
  <2>4. QED
    BY <2>1, <2>2, <2>3 DEF Ended, StopReasonIsTrue
<1>4. LoopSpec => []Ended
  BY <1>1, <1>2, TypeCorrect, HeadroomInvariant, PTL DEF LoopSpec
<1>5. QED
  BY <1>3, <1>4, TypeCorrect, DecidedInvariant, PTL
-----------------------------------------------------------------------------
(* The parts and the whole: TaskTrials puts the trial under the loop that  *)
(* repeats it, and takes nothing from what either was shown to be alone.   *)

\* Whatever the loop asks of it, every trial of a task is a trial of AgentLoop:
\* what was proved of one trial holds of each of them.
THEOREM TrialsAreTrials == TaskSpec => LoopSpec
<1>1. TaskInit => LoopInit
  BY DEF TaskInit
<1>2. [TaskNext]_taskVars => [LoopNext \/ Again]_loopVars
  <2>1. CASE TrialWorks
    BY <2>1 DEF TrialWorks
  <2>2. CASE TrialReturns
    BY <2>2 DEF TrialReturns
  <2>3. CASE TaskRaises
    BY <2>3 DEF TaskRaises
  <2>4. CASE UNCHANGED taskVars
    BY <2>4 DEF taskVars
  <2>5. QED
    BY <2>1, <2>2, <2>3, <2>4 DEF TaskNext
<1>3. QED
  BY <1>1, <1>2, PTL DEF TaskSpec, LoopSpec

\* And the trials a provider, an executor and a probe can really produce are
\* among those the replacement loop was shown to bank, replace or give up on.
THEOREM TasksAreLoops == TaskSpec => Spec
<1>1. TaskInit => Init
  BY DEF TaskInit
<1>2. [TaskNext]_taskVars => [Next]_vars
  <2>1. CASE TrialWorks
    BY <2>1 DEF TrialWorks
  <2>2. CASE TrialReturns
    BY <2>2 DEF TrialReturns, Next
  <2>3. CASE TaskRaises
    BY <2>3 DEF TaskRaises, Next
  <2>4. CASE UNCHANGED taskVars
    BY <2>4 DEF taskVars
  <2>5. QED
    BY <2>1, <2>2, <2>3, <2>4 DEF TaskNext
<1>3. QED
  BY <1>1, <1>2, PTL DEF TaskSpec, Spec

\* What is known of the record of attempts.
LEMMA AttemptsTyped == Spec => [](attempts \in Seq(Attempt) /\ attempt_index \in Nat)
<1> DEFINE Typed == attempts \in Seq(Attempt) /\ attempt_index \in Nat
<1>1. Init => Typed
  BY DEF Init
<1>2. Typed /\ [Next]_vars => Typed'
  <2> SUFFICES ASSUME Typed, [Next]_vars PROVE Typed'
    OBVIOUS
  <2>1. ASSUME NEW run \in Runs, BankTrial(run) \/ ReplaceTrial(run) PROVE Typed'
    <3>1. attempts' = Append(attempts, [attempt_index |-> attempt_index,
                                        valid |-> ~IsInvalid(run), run |-> run])
      BY <2>1 DEF BankTrial, ReplaceTrial, Attempted
    <3>2. [attempt_index |-> attempt_index, valid |-> ~IsInvalid(run), run |-> run]
            \in Attempt
      BY DEF Attempt, IsInvalid
    <3>3. attempts' \in Seq(Attempt)
      BY <3>1, <3>2
    <3>4. attempt_index' = attempt_index + 1
      BY <2>1 DEF BankTrial, ReplaceTrial
    <3>5. QED
      BY <3>3, <3>4
  <2>2. CASE TrialRaises \/ UNCHANGED vars
    BY <2>2 DEF TrialRaises, vars
  <2>3. QED
    BY <2>1, <2>2 DEF Next
<1>3. QED
  BY <1>1, <1>2, PTL DEF Spec

\* No trial that ran into an outage is banked, and none is replaced without one
\* or the driver's word, whatever the budgets, the accepted rate and the number
\* of attempts.
THEOREM OutagesAreReplaced == TaskSpec => OutageIsReplaced
<1> DEFINE Typed == attempts \in Seq(Attempt) /\ attempt_index \in Nat
<1> DEFINE Fair == /\ pc = "done" /\ post = "unhealthy" /\ parse_failure = "none" =>
                        valid_runs' = valid_runs
                   /\ invalid_count' # invalid_count =>
                        \/ "unhealthy" \in {pre, post}
                        \/ attempts'[Len(attempts')].run \in Refuted
<1>1. Typed /\ Decided /\ [TaskNext]_taskVars => [Fair]_taskVars
  <2> SUFFICES ASSUME Typed, Decided, [TaskNext]_taskVars PROVE Fair \/ UNCHANGED taskVars
    OBVIOUS
  <2>1. CASE TrialWorks
    BY <2>1 DEF TrialWorks, vars
  <2>2. CASE TrialReturns
    <3>1. PICK run \in Runs :
            /\ run \in Unhealthy <=> stop_reason = "env_unhealthy"
            /\ BankTrial(run) \/ ReplaceTrial(run)
      BY <2>2 DEF TrialReturns
    <3>2. stop_reason = "env_unhealthy" <=> post = "unhealthy" /\ parse_failure = "none"
      BY <2>2 DEF TrialReturns, Decided
    <3>3. CASE BankTrial(run)
      <4>1. run \notin Unhealthy /\ invalid_count' = invalid_count
        BY <3>3 DEF BankTrial, IsInvalid
      <4>2. QED
        BY <3>1, <3>2, <4>1
    <3>4. CASE ReplaceTrial(run)
      <4>1. /\ run \in Unhealthy \/ run \in Refuted
            /\ valid_runs' = valid_runs
        BY <3>4 DEF ReplaceTrial, IsInvalid
      <4>2. attempts'[Len(attempts')].run = run
        <5>1. attempts' = Append(attempts, [attempt_index |-> attempt_index,
                                            valid |-> ~IsInvalid(run), run |-> run])
          BY <3>4 DEF ReplaceTrial, Attempted
        <5>2. attempts \in Seq(Attempt)
          OBVIOUS
        <5>3. [attempt_index |-> attempt_index,
               valid |-> ~IsInvalid(run), run |-> run] \in Attempt
          BY <3>1 DEF Attempt, IsInvalid
        <5>4. attempts'[Len(attempts')] =
                [attempt_index |-> attempt_index, valid |-> ~IsInvalid(run), run |-> run]
          BY <5>1, <5>2, <5>3
        <5>5. QED
          BY <5>4
      <4>3. QED
        BY <3>1, <3>2, <4>1, <4>2
    <3>5. QED
      BY <3>1, <3>3, <3>4
  <2>3. CASE TaskRaises
    BY <2>3 DEF TaskRaises, TrialRaises
  <2>4. QED
    BY <2>1, <2>2, <2>3 DEF TaskNext
<1>2. QED
  BY <1>1, AttemptsTyped, TrialsAreTrials, TasksAreLoops, DecidedInvariant, PTL DEF TaskSpec, OutageIsReplaced
=============================================================================
