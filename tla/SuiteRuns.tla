----------------------------- MODULE SuiteRuns -----------------------------
(***************************************************************************)
(* What is made of the process that ran a suite: runners/pytest_edge.py,   *)
(* runners/node_edge.py and runners/junit.py.                              *)
(*                                                                         *)
(* A process is a record: ended, FALSE if it outlived its time; code, its  *)
(* exit code, negative for a signal; report, the state of its JUnit file;  *)
(* cases, the statuses of the test cases in it.                            *)
(*                                                                         *)
(* Which processes there are is up to the runner, the suite and the code   *)
(* under test, which runs inside it and may end it.                        *)
(***************************************************************************)
EXTENDS Integers

Exit(code, report, cases) ==
  [ended |-> TRUE, code |-> code, report |-> report, cases |-> cases]

Outlived == [ended |-> FALSE, code |-> 0, report |-> "absent", cases |-> {}]

\* Killed before, or while, it wrote its report: the last tag may be cut, or the
\* last character.
Died == {Exit(-11, "absent", {}), Exit(-9, "malformed", {}), Exit(-9, "undecodable", {})}

\* The codes pytest ends with: 2 to 4 where the fault is not a test's.
PytestProcesses ==
  {Outlived, Exit(0, "written", {"passed", "skipped"}), Exit(1, "written", {"passed", "failed"}),
   Exit(1, "written", {"error"}), Exit(2, "written", {"error"}), Exit(4, "absent", {}),
   Exit(5, "written", {})} \cup Died

\* python -m pytest where there is no pytest.
NoPytest == {Exit(1, "absent", {})}

\* node --test ends with 0 or 1; 1 without a case is a suite that did not load.
NodeProcesses ==
  {Outlived, Exit(0, "written", {"passed"}), Exit(0, "written", {}),
   Exit(1, "written", {"passed", "failed"}), Exit(1, "written", {}), Exit(1, "absent", {})}
  \cup Died

\* A node that does not know the flags of the harness.
BadOption == {Exit(9, "absent", {})}

-----------------------------------------------------------------------------

\* An ExecutionResult.
Result(status, code, cases) == [status |-> status, code |-> code, cases |-> cases]

\* The group is killed; what it wrote is not looked at.
TimedOut == Result("timeout", -9, {})

\* ET.ParseError; an absent report is read as one without a case.
Unreadable(p) == p.report = "malformed"

\* UnicodeDecodeError: no UTF-8.  It is no ET.ParseError, and no result is made.
Undecodable(p) == p.ended /\ p.report = "undecodable"

\* suite_status.
PytestStatus(code) ==
  CASE code = 0 -> "passed"
    [] code = 1 -> "failed"
    [] code = 5 -> "no_tests"
    [] OTHER    -> "error"

\* node_suite_status.
NodeStatus(code, cases) ==
  CASE code = 0               -> "passed"
    [] code = 1 /\ cases # {} -> "failed"
    [] OTHER                  -> "error"

\* _execute.
PytestResult(p) ==
  IF ~p.ended THEN TimedOut
  ELSE IF Unreadable(p) THEN Result("error", p.code, {})
  ELSE Result(PytestStatus(p.code), p.code, p.cases)

\* run_node_tests.
NodeResult(p) ==
  IF ~p.ended THEN TimedOut
  ELSE IF Unreadable(p) THEN Result("error", p.code, {})
  ELSE Result(NodeStatus(p.code, p.cases), p.code, p.cases)

\* Mutant: any suite that did not get to a test.
IncapableByCases(result) == result.status = "error" /\ result.cases = {}

\* is_incapable_node_result: node turned the harness's own command down.
Incapable(result) == result.status = "error" /\ result.code = 9 /\ result.cases = {}
=============================================================================
