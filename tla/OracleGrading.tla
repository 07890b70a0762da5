--------------------------- MODULE OracleGrading ---------------------------
(***************************************************************************)
(* The held-out oracles: a model leaves a tree, edited through the tools   *)
(* of CodeWorld in a chat (runners/f_candidate.py) or on disk by the       *)
(* claude CLI (runners/claude_cli_candidate.py); then each execution spec  *)
(* of the task's verification is laid over that tree and run (runners/     *)
(* oracle_edge.py and runners/node_oracle_edge.py), and the verdicts are   *)
(* read by pure graders (graders/execution.py, graders/node_execution.py,  *)
(* graders/composite.py) and by the validity mask (records/grade.py).      *)
(*                                                                         *)
(* The machine is the environment: for each spec it may be able to run the *)
(* suite or not, and the process it starts may end in any way it can       *)
(* (SuiteRuns).                                                            *)
(***************************************************************************)
EXTENDS CodeWorld, SuiteRuns

CONSTANTS Specs,       \* the execution specs of the tasks
          Oracle,      \* "node" or "pytest", for each
          HeldOut,     \* the paths each brings
          OracleText   \* what it writes there

VARIABLES driver,    \* who runs the model: "chat" or "claude"
          edge,      \* whose specs the driver precomputes: "node" or "pytest"
          stage,     \* "editing", "ended", "graded", or "raised": an exception
                     \* escaped
          fair,      \* the attempt's parse_failure is not the provider's
          machine,   \* what the machine was able to do for each spec
          verdict,   \* the verdict map, by spec
          onDisk     \* the tree the suite of each spec ran over, or NoTree

gradeVars == <<machine, verdict, onDisk>>
gradingVars == <<files, outcome, driver, edge, stage, fair, gradeVars>>

\* collect_node_execution_specs or collect_execution_specs: the specs below the
\* task's AllOf.  A task of the datasets has specs of one kind.
TaskSpecs == {s \in Specs : Oracle[s] = edge}

Machines == {"capable",    \* node 20 or later, pytest
             "incapable",  \* a node that knows no JUnit reporter
             "missing",    \* no node; no pytest in the interpreter's packages
             "broken"}     \* OSError: no space for the sandbox, no process

Suites == {"passed", "failed", "no_tests", "error", "timeout"}

Verdicts == Suites \cup {"none", "incapable", "tree_collision", "harness"}

NoTree == [p \in {} |-> Absent]

\* No held-out path is reserved; no two of them collide (_oracle_collision).
ASSUME OracleAssumption ==
  /\ Oracle \in [Specs -> {"node", "pytest"}]
  /\ HeldOut \in [Specs -> SUBSET Paths]
  /\ \A s \in Specs :
       /\ Materializable(HeldOut[s]) /\ HeldOut[s] \cap Reserved = {}
       /\ \A p \in HeldOut[s] : NameFits(p) /\ Encodable(p, OracleText)
  /\ OracleText \notin Contents \cup Unencodable \cup {Absent}

-----------------------------------------------------------------------------
(* The edge.                                                               *)

\* Mutant: a file of the model stays where it stands.
OverlayKeeps(f, held) ==
  [p \in Paths |-> IF p \in held /\ f[p] = Absent THEN OracleText ELSE f[p]]

\* overlay_oracle, overlay_node_oracle: the oracle's files win.
Overlay(f, held) == [p \in Paths |-> IF p \in held THEN OracleText ELSE f[p]]

Collides(f, held) == \E p \in Tree(f), q \in held : PrefixCollision(p, q)

\* The processes a suite may come to, and none where no node is found.
Processes(o, m) ==
  IF o = "pytest" THEN IF m = "missing" THEN NoPytest ELSE PytestProcesses
  ELSE CASE m = "capable"   -> NodeProcesses
         [] m = "incapable" -> BadOption
         [] m = "missing"   -> {}

\* The status of the record, told apart where the grader does, or "raised".
StatusOf(o, p) ==
  IF Undecodable(p) THEN "raised"
  ELSE IF o = "pytest" THEN PytestResult(p).status
  ELSE IF Incapable(NodeResult(p)) THEN "incapable" ELSE NodeResult(p).status

\* run_pytest and run_node_tests, after the tree is on disk.
RunSuite(o, m) ==
  {StatusOf(o, p) : p \in Processes(o, m)}
    \cup {v \in {"harness"} : o = "node" /\ m = "missing"}

\* _verdict_for: how one spec may end, and the tree its suite ran over.
\* "raised" is the ValueError neither edge catches: of a text that cannot be
\* written, or of a report that cannot be read.
Judge(s, f, m) ==
  LET tree == Overlay(f, HeldOut[s])
      ends == Materialize(tree)
      fault == m = "broken" \/ ends \cap {"refused", "OSError"} # {}
  IN IF Collides(f, HeldOut[s]) THEN {<<"tree_collision", NoTree>>}
     ELSE {r \in {<<"harness", NoTree>>, <<"raised", NoTree>>} :
             IF r[1] = "harness" THEN fault ELSE "ValueError" \in ends}
          \cup {<<v, tree>> : v \in IF m # "broken" /\ "written" \in ends
                                    THEN RunSuite(Oracle[s], m) ELSE {}}

-----------------------------------------------------------------------------
(* The graders.                                                            *)

\* Mutant: the exit code of an incapable node is a plain failure.
MarksEnvInvalidHarnessOnly(s) == Oracle[s] = "node" /\ verdict[s] = "harness"

\* grade_node_execution marks what the machine is to blame for;
\* grade_execution marks nothing.
MarksEnvInvalid(s) == Oracle[s] = "node" /\ verdict[s] \in {"harness", "incapable"}

\* grade_execution, and grade_node_execution likewise: any other verdict, and
\* none at all, is no pass.
PassedSpec(s) == verdict[s] = "passed"

\* grade_all_of: every spec passed.
Passed == \A s \in TaskSpecs : PassedSpec(s)

\* is_env_invalid_run: the provider's failure, or a marker at any depth below
\* the AllOf.
Masked == ~fair \/ \E s \in TaskSpecs : MarksEnvInvalid(s)

-----------------------------------------------------------------------------

\* multi_run grades with the pytest edge, the two candidates with the node edge.
GradingInit ==
  /\ CodeInit
  /\ driver \in {"chat", "claude"}
  /\ edge \in {Oracle[s] : s \in Specs}
  /\ driver = "claude" => edge = "node"
  /\ stage = "editing"
  /\ fair = TRUE
  /\ machine = [s \in TaskSpecs |-> "capable"]
  /\ verdict = [s \in TaskSpecs |-> "none"]
  /\ onDisk = [s \in TaskSpecs |-> NoTree]

\* One tool call of a chat.
Edit ==
  /\ driver = "chat" /\ stage = "editing"
  /\ CodeStep
  /\ UNCHANGED <<driver, edge, stage, fair, gradeVars>>

\* The loop ends; FALSE if by a request the provider refused or left without
\* an answer.  What was edited until then is graded.
ChatEnds(answered) ==
  /\ driver = "chat" /\ stage = "editing"
  /\ stage' = "ended"
  /\ fair' = answered
  /\ UNCHANGED <<codeVars, driver, edge, gradeVars>>

\* The trees a disk may hold, as read_back_tree gives them: of two spellings of
\* a name there is one.  The directories it skips are not among Paths.
DiskTrees ==
  {tree \in SUBSET Paths :
     /\ Materializable(tree)
     /\ \A p \in tree : \A i \in 1 .. Len(p) :
          p[i] \notin BadSegs \cup TooLong \cup Unencodable}

Holding(tree, g) == [p \in Paths |-> IF p \in tree THEN g[p] ELSE Absent]

\* The claude process did what it liked to a copy of the task's tree, by no
\* tool of ours, and said that it succeeded.
ClaudeEnds ==
  /\ driver = "claude" /\ stage = "editing"
  /\ stage' = "ended"
  /\ \E tree \in DiskTrees : \E g \in [tree -> Contents \ Unencodable] :
       files' = Holding(tree, g)
  /\ UNCHANGED <<outcome, driver, edge, fair, gradeVars>>

\* _env_invalid_trajectory: it ran out of time, failed or said that it did, its
\* result cannot be parsed or a file of it is not text.  The tree is dropped.
ClaudeFails ==
  /\ driver = "claude" /\ stage = "editing"
  /\ stage' = "ended"
  /\ files' = Holding({}, <<>>)
  /\ fair' = FALSE
  /\ UNCHANGED <<outcome, driver, edge, gradeVars>>

Judgements(m) ==
  {r \in [TaskSpecs -> UNION {Judge(s, files, m[s]) : s \in TaskSpecs}] :
     \A s \in TaskSpecs : r[s] \in Judge(s, files, m[s])}

\* The attempt is over: precompute every verdict, then grade.  An exception that
\* escapes the edge leaves no grade.
GradeAttempt ==
  /\ stage = "ended"
  /\ UNCHANGED <<codeVars, driver, edge, fair>>
  /\ \E m \in [TaskSpecs -> Machines] : \E r \in Judgements(m) :
       /\ machine' = m
       /\ onDisk' = [s \in TaskSpecs |-> r[s][2]]
       /\ IF \E s \in TaskSpecs : r[s][1] = "raised"
          THEN stage' = "raised" /\ UNCHANGED verdict
          ELSE stage' = "graded" /\ verdict' = [s \in TaskSpecs |-> r[s][1]]

GradingNext ==
  \/ Edit
  \/ \E answered \in BOOLEAN : ChatEnds(answered)
  \/ ClaudeEnds
  \/ ClaudeFails
  \/ GradeAttempt

GradingSpec == GradingInit /\ [][GradingNext]_gradingVars
-----------------------------------------------------------------------------

\* Type invariant.
Typed ==
  /\ TypeOK
  /\ driver \in {"chat", "claude"} /\ edge \in {"node", "pytest"}
  /\ stage \in {"editing", "ended", "graded", "raised"}
  /\ fair \in BOOLEAN
  /\ machine \in [TaskSpecs -> Machines]
  /\ verdict \in [TaskSpecs -> Verdicts]
  /\ \A s \in TaskSpecs :
       onDisk[s] \in [Paths -> Contents \cup {OracleText, Absent}] \cup {NoTree}

\* Two paths are one file on disk.
SameFile(p, q) == Len(p) = Len(q) /\ AliasUpTo(Len(p), p, q)

\* A pass is the oracle's: every suite ran, and every file on disk at a
\* held-out path, under whatever spelling, was the oracle's.
PassIsEarned ==
  stage = "graded" /\ Passed =>
    \A s \in TaskSpecs :
      /\ onDisk[s] # NoTree
      /\ \A p \in Paths, q \in HeldOut[s] :
           SameFile(p, q) /\ onDisk[s][p] # Absent => onDisk[s][p] = OracleText

\* An attempt that counts was judged: none of its node suites was kept from
\* running by the machine.
CountedIsJudged ==
  stage = "graded" /\ ~Masked =>
    \A s \in TaskSpecs : Oracle[s] = "node" =>
      verdict[s] = "tree_collision" \/ (machine[s] = "capable" /\ verdict[s] \in Suites)

\* What keeps a suite from running, other than the machine: a file of the
\* model where the oracle needs a directory or the reverse, or a name the
\* file system does not take; and, from claude, a name the harness reserves.
Unwritable(s) ==
  \/ \E p \in Tree(files) : ~NameFits(p)
  \/ \E p \in Tree(files), q \in HeldOut[s] : IsAncestor(p, q) \/ IsAncestor(q, p)
  \/ driver = "claude" /\ Tree(files) \cap Reserved # {}

\* An attempt is masked for a reason: the provider or the process, the machine,
\* or a tree of the model that cannot be written.  In particular the edge never
\* refuses the overlaid tree of a chat.
MaskedIsExplained ==
  stage = "graded" /\ Masked =>
    ~fair \/ \E s \in TaskSpecs : machine[s] # "capable" \/ Unwritable(s)
=============================================================================
