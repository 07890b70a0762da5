---------------------------- MODULE TicketTrial ----------------------------
(***************************************************************************)
(* A trial of a workspace task from end to end: runners/loop.py applies    *)
(* the calls of the model's answers to the workspace world, what the       *)
(* provider is sent is trimmed (HistoryTrim), and runners/multi_run.py     *)
(* grades the trajectory (TaskGraders).                                    *)
(*                                                                         *)
(* The model is the environment: it may answer with any calls, with tools  *)
(* that do not exist or were not offered, or with a message.  AgentLoop    *)
(* has what can go wrong between the loop and the provider; here it        *)
(* answers every request.                                                  *)
(***************************************************************************)
EXTENDS TaskGraders, TLC

CONSTANTS Tasks,      \* the tasks: [initial, verification] and a bound,
                      \* the calls the model may make
          Answers,    \* bound: what a last message may say
          SafetyCap,  \* tool calls after which the loop stops
          MaxBatch,   \* bound: tool calls in one answer
          Budget,     \* as in HistoryTrim
          Size(_)     \* the length on the wire of what a call came to

ASSUME TrialAssumption ==
  /\ SafetyCap \in Nat \ {0} /\ Budget \in Nat /\ MaxBatch \in Nat \ {0}
  /\ \A t \in Tasks :
       /\ IsWorld(t.initial)
       /\ t.verification \in Seq(ToSet(t.verification)) \ {<<>>}
       /\ \A v \in ToSet(t.verification) : IsLeafSpec(v)

VARIABLES task,
          world,    \* the loop's `state`
          log,      \* the calls with their outcomes
          kept,     \* the results the last request carried in full
          turn,     \* "request" or "answer"
          stop,     \* the stop reason, or "none"
          answer,   \* the last message, or "none"
          grade     \* the GradeResult, once there is one

trialVars == <<task, world, log, kept, turn, stop, answer, grade>>

Ungraded == Pass @@ [pending |-> TRUE]

Trim == INSTANCE HistoryTrim
          WITH results <- [j \in DOMAIN log |-> Size(log[j].outcome)]

TrialInit ==
  /\ task \in Tasks
  /\ world = task.initial
  /\ log = <<>>
  /\ kept = {}
  /\ turn = "request"
  /\ stop = "none"
  /\ answer = "none"
  /\ grade = Ungraded

Ask ==
  /\ stop = "none"
  /\ UNCHANGED <<task, world, log, stop, answer, grade>>
  /\ Trim!Request

Done(call, w) == [call |-> call, outcome |-> Applied(call, w).outcome]

\* The worlds that calls lead through, each on the world the one before it left.
Worlds(calls, w) ==
  LET After[i \in 0 .. Len(calls)] ==
        IF i = 0 THEN w ELSE Applied(calls[i], After[i - 1]).world
  IN After

\* An answer with tool calls; then the backstop is looked at.
ToolCalls ==
  /\ stop = "none" /\ turn = "answer"
  /\ \E n \in 1 .. MaxBatch : \E batch \in [1 .. n -> task.calls] :
       LET worlds == Worlds(batch, world)
       IN /\ world' = worlds[n]
          /\ log' = log \o [i \in 1 .. n |-> Done(batch[i], worlds[i - 1])]
  /\ stop' = IF Len(log') >= SafetyCap THEN "safety_cap" ELSE "none"
  /\ turn' = "request"
  /\ UNCHANGED <<task, kept, answer, grade>>

\* A message ends the run.
FinalMessage ==
  /\ stop = "none" /\ turn = "answer"
  /\ answer' \in Answers
  /\ stop' = "completed_natural"
  /\ UNCHANGED <<task, world, log, kept, turn, grade>>

\* An answer that cannot be parsed ends it; none of its calls are applied.
Unparsable ==
  /\ stop = "none" /\ turn = "answer"
  /\ stop' = "parse_failure"
  /\ UNCHANGED <<task, world, log, kept, turn, answer, grade>>

Trajectory ==
  [malformed |-> stop = "parse_failure",
   calls     |-> [j \in DOMAIN log |-> log[j].call],
   answer    |-> answer,
   initial   |-> task.initial,
   final     |-> world]

\* _grade_one, once the run is over.
GradeRun ==
  /\ stop # "none" /\ grade = Ungraded
  /\ grade' = Grade(task.verification, Trajectory)
  /\ UNCHANGED <<task, world, log, kept, turn, stop, answer>>

TrialNext == Ask \/ ToolCalls \/ FinalMessage \/ Unparsable \/ GradeRun

TrialSpec == TrialInit /\ [][TrialNext]_trialVars
-----------------------------------------------------------------------------

Graded == grade # Ungraded

Succeeded(j) == log[j].outcome.error = "none"

Creates == {"create_ticket", "send_email", "draft_email"}
Sets    == {"update_ticket", "archive_ticket"}

\* The container a call writes to.
Container(call) == IF call.name \in Sets \cup {"create_ticket"} THEN "tickets" ELSE "emails"

\* The successful calls that wrote a record.
Writes(container, id) ==
  {j \in DOMAIN log : /\ log[j].call.name \in Creates \cup Sets
                      /\ Container(log[j].call) = container
                      /\ Succeeded(j) /\ log[j].outcome.ids = {id}}

\* The world is what the log says it is: no other record than the first ones
\* and those a successful call created, no id given twice, nothing of a
\* created record lost, and every ticket in the state its last successful
\* write left it in.
LogExplainsWorld ==
  \A container \in {"tickets", "emails"} :
    LET first   == DOMAIN task.initial[container]
        created == {j \in DOMAIN log : /\ log[j].call.name \in Creates
                                       /\ Container(log[j].call) = container
                                       /\ Succeeded(j)}
        given   == UNION {log[j].outcome.ids : j \in created}
    IN /\ DOMAIN world[container] = first \cup given
       /\ Cardinality(given) = Cardinality(created) /\ first \cap given = {}
       /\ \A j \in created : \A id \in log[j].outcome.ids :
            \A field \in DOMAIN log[j].call.args :
              world[container][id][field] = log[j].call.args[field]
       /\ \A id \in DOMAIN world[container] :
            container = "tickets" =>
              world.tickets[id].status =
                IF Writes("tickets", id) = {} THEN task.initial.tickets[id].status
                ELSE LET last == log[Max(Writes("tickets", id))].call
                     IN CASE last.name = "create_ticket"  -> "open"
                          [] last.name = "update_ticket"  -> last.args.status
                          [] last.name = "archive_ticket" -> "archived"

\* The leaf specs of a type, and the constraints of a trajectory spec.
LeafSpecs(type) == {v \in ToSet(task.verification) : v.type = type}
Constraints(type) ==
  {c \in UNION {ToSet(v.constraints) : v \in LeafSpecs("trajectory")} : c.type = type}

\* A passed match of the sequence means the expected calls alone, applied to
\* the task's world, would have left the world the run left: the grader reads
\* calls, not worlds, and the loop split them over its turns as it liked.
MatchedReplays ==
  Graded /\ grade.passed =>
    \A v \in LeafSpecs("tool_call_match") :
      v.match = "exact_sequence" =>
        world = Worlds(v.expected, task.initial)[Len(v.expected)]

\* A pass never ignores harm: whatever the outcome, no forbidden tool was even
\* tried, and nothing outside the allowed paths that a call of the run wrote is
\* other than it was.
PassIsClean ==
  Graded /\ grade.passed =>
    /\ \A c \in Constraints("no_tool_call") :
         \A j \in DOMAIN log : log[j].call.name # c.name
    /\ \A c \in Constraints("max_tool_calls") : Len(log) <= c.n
    /\ \A c \in Constraints("only_modifies") : \A j \in DOMAIN log :
         log[j].call.name \in Creates \cup Sets /\ Succeeded(j) =>
           LET container == Container(log[j].call)
           IN \A id \in log[j].outcome.ids : \A field \in DOMAIN world[container][id] :
                \/ Covered(<<container, id, field>>, c.paths)
                \/ /\ id \in DOMAIN task.initial[container]
                   /\ task.initial[container][id][field] = world[container][id][field]

\* The world and the grader agree on what a call is turned away for: a run
\* whose answers parsed fails with the first refusal the model was told of,
\* and with schema_violation only if there was one.
RefusalIsTheReason ==
  Graded /\ task.verification[1].type = "tool_call_match" /\ stop # "parse_failure" =>
    LET refused == {j \in DOMAIN log :
                      log[j].outcome.error \in {"unknown_tool", "invalid_args"}}
    IN /\ refused # {} =>
            grade = Fail(IF log[Min(refused)].outcome.error = "unknown_tool"
                         THEN "wrong_tool" ELSE "schema_violation")
       /\ refused = {} => grade.reason # "schema_violation"

\* What a request carries in full fits the budget, unless the newest result
\* alone does not, and a result is left out only where what is newer and kept
\* leaves it no room.
TrimsForRoom == Trim!KeptFits /\ Trim!ElidedForRoom
=============================================================================
