---------------------------- MODULE WorldTrials ----------------------------
(***************************************************************************)
(* A trial in the world its task's tools ask for (runners/worlds.py):      *)
(* tickets and emails, TicketTrial, or a tree of code, OracleGrading.  The *)
(* two share the loop and nothing else, so a trial of one world leaves the *)
(* other as it was before anything happened there.                         *)
(***************************************************************************)
EXTENDS OracleGrading, TicketTrial

VARIABLE kind  \* the world: "workspace" or "code"

worldVars == <<kind, gradingVars, trialVars>>

NoTicketTask == TrialInit /\ task = CHOOSE t \in Tasks : TRUE

NoCodeTask ==
  /\ files = Holding({}, <<>>) /\ outcome = "none"
  /\ driver = "chat" /\ edge = "none" /\ stage = "editing" /\ fair = TRUE
  /\ machine = NoTree /\ verdict = NoTree /\ onDisk = NoTree

\* resolve_world: the tools of a task are those of one world.
Init ==
  \/ kind = "workspace" /\ TrialInit /\ NoCodeTask
  \/ kind = "code" /\ GradingInit /\ NoTicketTask

Next ==
  \/ kind = "workspace" /\ TrialNext /\ UNCHANGED <<kind, gradingVars>>
  \/ kind = "code" /\ GradingNext /\ UNCHANGED <<kind, trialVars>>

Spec == Init /\ [][Next]_worldVars
=============================================================================
