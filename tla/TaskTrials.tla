----------------------------- MODULE TaskTrials -----------------------------
(***************************************************************************)
(* runners/multi_run.py `run_task_k_valid`: the replacement-trial loop of  *)
(* ReplacementTrials over the trials of AgentLoop.  Each trial_fn of the   *)
(* loop is one call of run_single, whose stop_reason says whether the      *)
(* environment was healthy; what it raises leaves the loop.                *)
(***************************************************************************)
EXTENDS ReplacementTrials, AgentLoop

taskVars == <<vars, loopVars>>

TaskInit == Init /\ LoopInit

\* run_single is at work.
TrialWorks ==
  /\ status = "running"
  /\ LoopNext
  /\ UNCHANGED vars

\* Mutant: a trial that a budget stopped is not asked for its environment.
TrialReturnsCapped ==
  /\ pc = "done"
  /\ \E run \in Runs :
       /\ run \in Unhealthy <=> stop_reason = "env_unhealthy" /\ ~safety_cap_bound
       /\ BankTrial(run) \/ ReplaceTrial(run)
  /\ IF status' = "running" THEN Again ELSE UNCHANGED loopVars

\* It returned a trajectory, which is graded: the run is banked or replaced,
\* and another trial begins unless the task is over.
TrialReturns ==
  /\ pc = "done"
  /\ \E run \in Runs :
       /\ run \in Unhealthy <=> stop_reason = "env_unhealthy"
       /\ BankTrial(run) \/ ReplaceTrial(run)
  /\ IF status' = "running" THEN Again ELSE UNCHANGED loopVars

\* It raised, or the grading of what it returned did.
TaskRaises ==
  /\ pc \in {"raised", "done"}
  /\ TrialRaises
  /\ UNCHANGED loopVars

TaskNext == TrialWorks \/ TrialReturns \/ TaskRaises

\* Sequential code: it keeps going as long as the calls it makes return,
\* which the client's, the executor's and the probe's timeouts see to.
TaskSpec == TaskInit /\ [][TaskNext]_taskVars /\ WF_taskVars(TaskNext)

-----------------------------------------------------------------------------

\* A trial that ran into an outage is never scored, whatever had stopped it,
\* and only an outage that a probe saw, or the driver's own check of the run,
\* costs a task one of its trials: a model can neither be charged for its
\* environment nor have a fair attempt taken from its record.
OutageIsReplaced ==
  [][/\ pc = "done" /\ post = "unhealthy" /\ parse_failure = "none" =>
          valid_runs' = valid_runs
     /\ invalid_count' # invalid_count =>
          \/ "unhealthy" \in {pre, post}
          \/ attempts'[Len(attempts')].run \in Refuted]_taskVars

\* A task comes to its verdict, or to an exception, and so does each trial it
\* takes, though neither the retries, the turns nor the replacements have a
\* bound in common: as long as what is called returns.
TaskEnds == TrialEnds /\ Terminates

\* The glossary says of a trial's two probes: "runs where either probe failed
\* are marked invalid and excluded".  None of them is ever banked.
FailedProbeExcludes ==
  []["unhealthy" \in {pre, post} => valid_runs' = valid_runs]_taskVars
=============================================================================
