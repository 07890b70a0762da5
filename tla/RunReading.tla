----------------------------- MODULE RunReading -----------------------------
(***************************************************************************)
(* How one graded run is read, by three readers that do not call each      *)
(* other: metrics/reliability.py counts it, records/grade.py masks it,     *)
(* reports/classify.py (fc-v4) puts it down to somebody.                   *)
(*                                                                         *)
(* A run is a record: pf, the parse failure the loop recorded; stop, its   *)
(* stop reason; capped, one of the two budget flags; passed, the grade;    *)
(* reason, the grade's failure_reason; legs, the execution evidence of the *)
(* grade's legs in declared order.                                         *)
(***************************************************************************)
EXTENDS Integers, Sequences

\* A refused request is told apart by its status: 401 and 403 are "auth".
ProviderErrors == {"refused", "auth"}
\* "truncated": unusable content at the completion budget.
ParseFailures  == ProviderErrors \cup {"none", "no_choices", "malformed", "truncated"}
CapStops       == {"safety_cap", "max_rounds"}
\* "completed_natural" also stands for the "completed" of a graded base tree.
StopReasons    == CapStops \cup {"completed_natural", "parse_failure", "env_unhealthy"}

\* A node suite that ran (the first five), one that could not, and a tree the
\* oracle was not laid over.
SuiteStatus == {"passed", "failed", "timeout", "no_tests", "error"}
Legs        == SuiteStatus \cup {"incapable", "harness", "tree_collision"}

Run == [pf : ParseFailures, stop : StopReasons, capped : BOOLEAN, passed : BOOLEAN,
        reason : {"none", "forbidden_action", "step_limit_exceeded"}, legs : Seq(Legs)]

\* The claude driver's attempt that came to nothing: a provider error and an
\* unhealthy environment at once.
NoFairTrial(r) == r.pf = "refused" /\ r.stop = "env_unhealthy" /\ ~r.capped

\* The runs the loop, the claude driver and the graders can record: a parse
\* failure ends the loop before a budget is looked at; a budget's flag outlives
\* the stop reason when the second probe fails; an edit task, whose loop has no
\* probe, is graded by an AllOf of node suites, which passes when all of them do.
Recorded(r) ==
  /\ r.pf # "none" <=> r.stop = "parse_failure" \/ NoFairTrial(r)
  /\ r.stop \in CapStops => r.capped
  /\ r.capped => r.stop \in CapStops \cup {"env_unhealthy"}
  /\ r.legs # <<>> => /\ r.stop = "env_unhealthy" => NoFairTrial(r)
                      /\ r.reason = "none"
                      /\ r.passed <=> \A i \in DOMAIN r.legs : r.legs[i] = "passed"
  /\ r.passed => r.reason = "none"

RecordedRuns ==
  {r \in [pf : ParseFailures, stop : StopReasons, capped : BOOLEAN, passed : BOOLEAN,
          reason : {"none", "forbidden_action", "step_limit_exceeded"},
          legs : {<<>>} \cup {<<a>> : a \in Legs} \cup (Legs \X Legs)] : Recorded(r)}

-----------------------------------------------------------------------------
(* records/serialize.py: a run as a row of a file, and back.               *)

\* run_result_to_dict.
RunToRow(t, r) ==
  [task_id |-> t,
   trajectory |-> [schema_version |-> "2", stop_reason |-> r.stop, parse_failure |-> r.pf,
                   bound |-> r.capped],
   grade |-> [passed |-> r.passed, failure_reason |-> r.reason, evidence |-> r.legs]]

\* trajectory_from_dict: a row from before the budgets, and any row without
\* the flags, reads as one that hit none.
FlagOf(trajectory) ==
  /\ {"schema_version", "bound"} \subseteq DOMAIN trajectory
  /\ trajectory.bound

\* _load_run_results, for one row.
RowToRun(row) ==
  [pf |-> row.trajectory.parse_failure, stop |-> row.trajectory.stop_reason,
   capped |-> FlagOf(row.trajectory), passed |-> row.grade.passed,
   reason |-> row.grade.failure_reason, legs |-> row.grade.evidence]

-----------------------------------------------------------------------------

\* _run_passes: censoring_policy "failure".
RunPasses(r) == r.passed /\ ~r.capped

\* Mutant: only the grade's own evidence is looked at, not the AllOf's legs.
MarkedOutermost(r) == Len(r.legs) = 1 /\ r.legs[1] \in {"incapable", "harness"}

\* _grade_marks_env_invalid.
GradeMarksEnvInvalid(r) == \E i \in DOMAIN r.legs : r.legs[i] \in {"incapable", "harness"}

\* is_env_invalid_run.
EnvInvalid(r) == r.pf \in ProviderErrors \cup {"no_choices"} \/ GradeMarksEnvInvalid(r)

\* provider_auth_quota_status is a status.
AccountRefused(r) == r.pf = "auth"

-----------------------------------------------------------------------------
(* classify_run: a table, the first row that matches.                      *)

\* _cap_bound.
CapBound(r) == r.capped \/ r.stop \in CapStops

Agent(s)   == <<"agent_failure", s>>
Harness(s) == <<"harness_failure", s>>

\* _classify_parse_failure.
ParseFailureRow(r) ==
  IF r.pf \in ProviderErrors \cup {"no_choices"} THEN Harness("provider_response")
  ELSE IF r.pf = "truncated" THEN Agent("token_budget_exhausted") ELSE Agent("malformed_reply")

\* What a suite that ran, or could not, says of the model; an incapable node's
\* suite has status "error".
OracleRow(leg) ==
  IF leg = "timeout" THEN Agent("oracle_timeout")
  ELSE IF leg = "failed" THEN Agent("oracle_red")
  ELSE IF leg \in {"error", "incapable"} THEN Agent("oracle_error") ELSE Agent("other_miss")

\* _classify_grade_and_budget.
GradeRow(r) ==
  IF r.reason # "none" THEN Agent(r.reason)
  ELSE IF CapBound(r) THEN Agent("budget_exhausted")
  ELSE IF r.legs = <<>> THEN Agent("other_miss") ELSE OracleRow(r.legs[1])

\* What the first execution leg says of itself, then grade and budget.
LegRow(r) ==
  IF r.legs[1] = "harness" THEN Harness("sandbox_fault")
  ELSE IF r.legs[1] = "tree_collision" THEN Agent("tree_collision")
  ELSE IF r.legs[1] = "no_tests" THEN <<"task_failure", "oracle_empty">> ELSE GradeRow(r)

\* The rows below the first: parse failure, environment, leg, grade.
FailureRow(r) ==
  IF r.pf # "none" THEN ParseFailureRow(r)
  ELSE IF r.stop = "env_unhealthy" THEN <<"environment_failure", "probe">>
  ELSE IF r.legs = <<>> THEN GradeRow(r) ELSE LegRow(r)

\* classify_run.
Classify(r) == IF r.passed /\ ~CapBound(r) THEN <<"passed", "-">> ELSE FailureRow(r)
=============================================================================
