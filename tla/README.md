# Agent Eval Lab: specifications

TLA+ models of the parts of Agent Eval Lab (`src/src/agent_eval_lab/`) that decide
*which trials count*: the loop that runs and replaces trials, the campaigns that
write them to disk and take them up again, and the edge that lays a held-out
oracle over what a model left.  A wrong step there does not crash; it moves a
number in a report.  The modules are checked with TLC on small instances, and the
properties that matter most are proved with TLAPS for every instance.

`PROJECT.json` lists the runs, the theorems, the source lines of each definition
(`map`), a mutant of the code for each property, the hazards and the components.

## The system

All paths below are under `src/src/agent_eval_lab/`.

| Component | State it keeps | Operations | Talks to |
|---|---|---|---|
| k-valid trial loop (`runners/multi_run.py`) | attempts, banked runs, invalid count | one trial, bank or replace it, give up as VOID | a trial producer and a validity function |
| agent loop (`runners/loop.py`, `client.py`, `parse.py`) | transcript, rounds, tool-call counts, stop reason | request with retries, parse, apply calls, budgets, two health probes | provider (HTTP), tools, probe |
| tool-result history (`runners/history.py`) | none; trims the transcript of each request | `trim_tool_result_history` | agent loop |
| D-set campaign (`cli.py` run-dset, `runners/dset_run.py`) | JSONL of runs, `.void.json` sidecar | start or resume, append a task's runs, rewrite the sidecar, abort | trial loop, report |
| code worlds (`tools/code_world.py`) | a map from paths to text | read, write, replace, run tests | agent loop; the disk through the edges |
| oracle edges and graders (`runners/*_edge.py`, `graders/`) | the verdict map of an attempt | overlay, materialize, run, grade, mask | code world, the machine, reports |
| F ablation campaign (`cli.py` run-f-ablation) | an artifact per model, the realized-order sidecar | start, attempt, note, finish | F candidate, oracle edges |
| B-1 live spike (`cli.py` run-b and report-b, `runners/b_live.py`, ...) | trials file per arm, verdict sheet, owner's verdicts, objects on the server, browser sessions | run an arm, emit the sheet, join verdicts | trial loop, the MicroStrategy server, the owner |
| F campaign (`cli.py` run-f, run-m1) | artifact, sidecar | k attempts a task, stop at a refused account; or k copies of a graded base tree | F candidate, claude CLI, report |
| B readback (`runners/b_run.py`) | an object on the server | preflight, capture, readback, reset | a client protocol |
| baseline campaign (`cli.py` run-baseline) | runs file, baseline report | k runs a task, none replaced; report at the end | trial loop, the four reports over it |
| dataset reports (`cli.py` report-validation, report-final, compare-configs; `reports/`) | none | completeness, reliability by tier and capability, discriminativeness, defect queue, paired bootstrap | the runs files of the baseline campaign |
| judge and calibration (`graders/judge.py`, `runners/judge_edge.py`, `calibrate/`, `metrics/agreement.py`) | none | parse a verdict, label packets, import them, agreement of two | provider, two annotators |
| reports and metrics (`reports/m1*.py`, `classify.py`, `metrics/`) | none | classify failures, aggregate, Holm, Fisher, Pareto | the files above |
| identity (`experiments/hydrate.py`, `spec_hash.py`) | none | find a run by its uid and check its hash | the files above |
| workspace tools and trace graders (`tools/workspace.py`, `graders/`) | tickets, emails | nine tools; output, tool-call, state, policy graders and their conjunction | agent loop |

How they interact.  A campaign command iterates over tasks; for each it hands a
trial producer to the trial loop; a trial is one run of the agent loop, whose tool
calls go to a world (code, workspace) or to a subprocess (browser); the trajectory
is graded, through precomputed verdicts when an oracle is involved; the outcome is
appended to a file; a report reads the files later, in another process.  There are
no threads and no locks.  What makes the code hard is the following.

* **Files as the only memory.**  Commands run for hours, are cut off and started
  again; the files are appended to and rewritten without transactions, and are
  read both by the next invocation (to skip what is done) and by the report (to
  score), by different rules.
* **Whose failure is it?**  Every failure must be put down to the model (it
  counts) or to the environment (it is masked and replaced).  The decision is
  spread over the loop, the edges, the graders and the reports.
* **Order and precedence.**  Several reasons to stop hold at once: budgets,
  outages, refused requests.  One is recorded.
* **Shared places.**  Names on a live server, browser sessions, paths that a file
  system takes for the same file.

What makes each component correct is stated with its module below.

## Modules

| Module | Models | Theorems |
|---|---|---|
| `KValidPromise` | abstract: what `run_trials_k_valid` promises | |
| `ReplacementTrials` | `runners/multi_run.py` | `TrialProofs` |
| `AgentLoop` | `runners/loop.py`, `runners/client.py` | `AgentLoopProofs` |
| `TaskTrials` (extends `ReplacementTrials`, `AgentLoop`) | `run_task_k_valid`: the loop of trials over trials of the agent loop | `AgentLoopProofs` |
| `HistoryTrim` | `runners/history.py` | `TrialProofs` |
| `WorkspaceWorld` | `tools/workspace.py`, `tools/validation.py` | `TrialProofs` |
| `TaskGraders` (extends `WorkspaceWorld`) | `graders/` tool_call, state, policy, composite, dispatch | `TrialProofs` |
| `TicketTrial` (extends `TaskGraders`, instantiates `HistoryTrim`) | a graded trial of a workspace task | `TrialProofs` |
| `CampaignPromise` | abstract: what a campaign's files promise | |
| `DsetCampaign` | run-dset, its files and their reader | `DsetCampaignProofs` |
| `CodeWorld` | `tools/code_world.py`, `materialize_tree` | `OracleGradingProofs` |
| `SuiteRuns` | the processes of the suites: `runners/pytest_edge.py`, `runners/node_edge.py`, `runners/junit.py` | |
| `OracleGrading` (extends `CodeWorld`, `SuiteRuns`) | a trial of an edit task by chat or claude CLI, oracle edges, execution graders, masking | `OracleGradingProofs` |
| `WorldTrials` (extends `OracleGrading`, `TicketTrial`) | `runners/worlds.py`: a trial in the world of its task's tools | |
| `AblationCampaign` | run-f-ablation, `experiments/ablation_order.py` | `AblationProofs` |
| `BSpike` (instantiates `ReplacementTrials`) | run-b, its drivers, report-b | `BSpikeProofs` |
| `RunReading` | how one run is counted, masked and classified: `metrics/reliability.py`, `records/grade.py`, `reports/classify.py` | `M1ReportProofs` |
| `ReportMetrics` | Holm, Fisher: `metrics/multiplicity.py`, `metrics/binomial.py` | `M1ReportProofs` |
| `FCampaign` (extends `RunReading`) | run-f and the F arm of run-m1, their two files | `M1ReportProofs` |
| `M1Report` (extends `FCampaign`, `ReportMetrics`) | report-m1 over those files, the F subreport | `M1ReportProofs` |
| `BaselineCampaign` (extends `RunReading`) | run-baseline, its two files, `runners/multi_run.py` run_task_k, `reports/baseline.py` | `BenchProofs` |
| `BenchReports` (extends `BaselineCampaign`) | report-validation, report-final, compare-configs: `reports/validation.py`, `final.py`, `defects.py`, `comparison.py`, the paired bootstrap | `BenchProofs` |
| `Calibration` | `graders/judge.py`, `runners/judge_edge.py`, `calibrate/`, `metrics/agreement.py` | `BenchProofs` |
| `Bench` (extends `BenchReports`, `Calibration`) | puts the two side by side and states what one looks at in both | `BenchProofs` |
| `Totals` | Python's `sum()`, as the size of a disjoint union; used by `HistoryTrim`, `ReportMetrics`, `BenchReports`, `Calibration` | `BenchProofs`, `M1ReportProofs` |
| `MCOracleGrading`, `MCBSpike`, `MCM1Report`, `MCTicketTrial`, `MCWorldTrials`, `MCBench` | constants for TLC | |

### ReplacementTrials

`run_trials_k_valid`, statement by statement: `attempts`, `valid_runs`,
`invalid_count`, `attempt_index` are the local variables of that name, `status` is
where the call stands.  `BankTrial` and `ReplaceTrial` are the two ways round the
loop.  What a trial produces is a member of `Runs`; `Unhealthy` and `Refuted` say
which the two halves of `_is_invalid` reject.  The float comparison is a comparison
of fractions.

`KValidPromise` is the abstract view, a call that ends with K valid runs or VOID,
and VOID only if no continuation could have been scored; `ReplacementTrials`
implements it (`KeepsPromise`), where the abstract "no continuation" quantifies
over lengths in `Futures` and the code has its one-line test.
`VoidExactlyWhenHopeless` says that the test is exact in both directions.

### AgentLoop

`run_single` with `chat_completion` folded in.  One action per way a step can go:
the probe before, each failing or succeeding post, each shape of an answer, each
tool call applied, the checks after a batch, the probe after.  `raised` is the
exception that left the function.  Provider, tools and probe are the environment
and may answer anything; messages have no content.  `turns` keeps which result
answers which call, so that `PairedTranscript` (every request the provider sees
has a result for every call, in order) is a property of the loop and not a
definition.  A body that is JSON of an unexpected shape raises after its round was
counted (`MisshapenReply`).  `StopReasonIsTrue` ties the recorded reason to what
happened, whichever of several reasons came first; that an unhealthy second probe
overrules them all is its part `OutageDecides`.  `BudgetsHold` bounds the overshoot of both budgets by one batch, and says that a round is counted
once for each answer that was had, however often its request was sent again.

### TaskTrials

The two modules above put together, as `run_task_k_valid` does: `TrialWorks` is any step of
`run_single`, `TrialReturns` takes what it returned, grades it and banks or replaces
it, `TaskRaises` is an exception of the trial or of its grading.  The validity rule
sees a trial through its `stop_reason` alone, and the properties are about what it
does not see.  `OutageIsReplaced`: an outage the second probe saw is never banked,
and a trial is replaced only for an outage some probe saw or a mismatch the driver
found.  `TaskEnds`: no answers keep trial or task going, though retries, turns and
replacements each have a bound of their own and none in common.
`FailedProbeExcludes` is the glossary's stronger claim, that a trial with *either*
probe failed is excluded; the first probe is overruled by a healthy second one, so the
run `task_probe` finds such a trial banked.

### DsetCampaign

Durable state: `rows` (intact rows of each task), `tail` and `garbled` (what torn
writes did to the file), `sidecar`.  Volatile: `todo`, `voids`.  `Completed` is the
resume rule and `Verdict` the report's rule; they read the same files differently,
and that is the point.  `Dies`, `DiesAppending` and `DiesWritingSidecar` are the
places where the process can stop, `DiesRewritingSidecar` that of an invocation which
found nothing left to do and writes the sidecar anew, `ProviderUnreachable` the one exception that
still writes the sidecar.  `outcome` and `damaged` are history variables.

`CampaignPromise` is the abstract view: a task is open, then scored or void, once
and for all, until a process dies inside a write.  `DsetCampaign` implements it
(`KeepsVerdicts`).  After a torn write a task may be lost, but never without the
report refusing the file (`NeverSilentlyLost`).

### CodeWorld, SuiteRuns and OracleGrading

`CodeWorld` has the tools of the world over a set of paths, with segments that are
different spellings of one name (`Canon`), segments the gate rejects (`BadSegs`),
and names or contents that the gate accepts and the disk does not (`TooLong`,
`Unencodable`).  `Materialize` is the edge, with its own copy of the rules.

`SuiteRuns` is what the edges make of a process: its exit code, the state of its
JUnit report and the cases in it become a status, by rules that differ between
pytest and node; a report that is not UTF-8 raises in the edge (`Undecodable`).  `PytestProcesses` and `NodeProcesses` (external) are the ways a
run may end; `Incapable` recognizes the one that is the harness's own fault.

`OracleGrading` is a whole trial of an edit task.  Under the chat driver the tree is
edited by `CodeStep`s (`Edit`) until the loop ends (`ChatEnds`); under the claude
driver the CLI does what it likes to a directory and the tree is read back
(`ClaudeEnds`), or it fails in one of the ways that make the attempt the
environment's (`ClaudeFails`).  `edge` says whose verdicts are precomputed: the trials
of `multi_run` have the pytest edge, the two F candidates the node edge, and
`TaskSpecs` are the specs of a task of that kind.  `GradeAttempt` overlays each of
them, runs it on a machine that may lack a capable node, a pytest or a working disk,
grades and masks.  A verdict is taken to belong to its spec; that the code finds it by
the hash of spec and tree, computed twice in one call, is not modelled.  Nor is a task
with specs of both kinds, which no driver grades.
`PassIsEarned` says that what a passing suite ran over was the oracle's text at
every held-out path under any spelling.  `CountedIsJudged` and `MaskedIsExplained`
bound masking from both sides: no attempt counts that the machine kept from being
judged, and none is masked without the provider, the machine or an unwritable tree
to blame.  The latter is where the drivers differ: the gate of the chat tools keeps
reserved names out of the tree, claude's directory is read back as it is.

### HistoryTrim, WorkspaceWorld, TaskGraders and TicketTrial

`HistoryTrim` is one request over the sizes of the tool results so far; `Kept` is the
newest-first walk.  `WorkspaceWorld` has one operator for each
tool, from arguments and world to world and outcome, behind the validation that
`apply` does (`Refusal`).  `TaskGraders` has one for each grader, over a trajectory;
a verification is the sequence of an `AllOf`'s leaves.  `state_contains` is read with its
whole path: what lies `Under` it.  `IsWorld` and `IsLeafSpec` are
what the schema lets a task begin with and ask for.

`TicketTrial` composes them as a trial does: `Ask` sends the trimmed record,
`ToolCalls` applies the calls of an answer one after another (`Worlds`) and looks at the
backstop, `FinalMessage` and `Unparsable` end the run, `GradeRun` grades it.  `world`
and `log` are the loop's `state` and `turns`; `Size` is the size of each result, which
the module leaves open.  The properties are about what the
parts do to each other:

* `LogExplainsWorld`: the world at any moment can be told from the log (who was
  created, under which id, in which state the last successful call left it);
* `MatchedReplays`: the tool-call grader, which sees calls, passes only runs that
  left the world the expected calls would have left;
* `PassIsClean`: the policy grader, which sees two worlds, passes no run that wrote
  outside the allowed paths and left a trace of it.  A change that is undone leaves
  none, which is why the property speaks of values;
* `RefusalIsTheReason`: the grader validates the calls anew and comes to what the
  model was told at the time;
* `TrimsForRoom`: a request carries what the budget has room for, no less and no
  more, the newest result excepted.

What makes them hard to test is an answer with several calls of which the later
depend on the earlier.

### WorldTrials

`resolve_world` gives a trial one of two worlds; `WorldTrials` is a trial in either.  It
adds no behaviour: a step of one leaves the other's variables alone, and the
properties of both are checked in one run.

### AblationCampaign

`shuffles` is what the fixed seed makes of the arms, block by block, the same for every
invocation; a property that holds for all of them holds for the seed's.  `RunOrder`
lays them over the roster the invocation has read, which may differ from the last one's
(`Start` picks it), each unit given by its place (`UnitAt`).  `Open` empties the
artifacts one by one, and the process may end or die between two.  `todo` is the set of places still to be run, since the
filter of `--arms` drops units and moves none; the loop's unit is at the least of
them.  `Attempt` and `Realize` are two actions, as a row is flushed before the unit is noted, and an
interrupt can fall between them (`Interrupted`).  `Ends` stands for completion and
for each exit between two units or two artifacts; the finally clause writes the sidecar
there too.  `AuditIsExact` compares two lists, the sidecar and the rows of a model, place
by place (`IsPartOf`), for the models whose artifact this invocation opened; of a model
it had not come to the sidecar names nothing, and the artifact is an earlier
invocation's.

### BSpike

`run-b` over the loop of `ReplacementTrials`, instantiated as `Trials`.  A trial
saves an object under its name or not, in a browser session or not.  `Registry`
and `Close` say where sessions are kept and who stops them under the two drivers.
Stopping them is best effort in the code: `Close` may leave them, and `unclean`
remembers that it did or that a trial was killed.  `SessionIsOwn` then says that an
inherited session has one of these causes or is an account's.
`OwnerJudges` (external) fills the sheet; `VerdictFor` and `PassPow` are `report-b`.
`Start` may be preceded by the owner emptying the folder and the verdicts file:
nothing in the command does, so `PassIsOwn` is stated for runs that began so
(`uncleared` is false).  Dropping that premise gives a counterexample: the save-name
is a function of condition, task and attempt, so an object of an earlier invocation
is judged as the new trial's.

### RunReading

A run is a record of what three readers look at: `metrics/reliability.py` counts
it (`RunPasses`), `records/grade.py` masks it (`EnvInvalid`), `reports/classify.py`
puts it down to somebody (`Classify`, a table).  None of them calls another, and
each goes through the record in an order of its own.  `Recorded` says which records
the loop, the graders and the claude driver can produce (the last marks an unfair attempt
by a parse failure and an unhealthy environment at once, `NoFairTrial`), and `RecordedRuns` enumerates them for up to
two legs.  `RunToRow` and `RowToRun` are the way through the file, where the version
of the row decides whether a cap is read back (`FlagOf`).  `CountedIsTheModels` says that the readers agree where they must: the
class "passed" is what pass^k counts, and what counts against the model is never put
down to the harness.

### ReportMetrics

Operators on small integers: a probability is a numerator over a fixed
denominator, and `Comb`, which is `math.comb`, counts subsets.  Each has a reference definition beside it in `M1Report`: Holm's
step-down is the closed test built on Bonferroni, and Fisher's p-value is what
counting all deals of the reliable tasks to two groups gives.

### FCampaign and M1Report

`FCampaign` has, for each condition, the runs file and the sidecar, and one process
at a time.  `RunTask` is the body of the loop of `_run_f_command`, including the stop
at a refused account, which is looked for after the whole task; `TaskRaises` is any
exception on the way, `RecordingRaises` one that comes when the task has its K
runs and before they are all appended or, for a void task, before it is put on the
list: rows may be there, the name may be missing, and `cut` remembers the task.
`WriteSidecar` is the finally clause, which follows either.  `Killed`,
`KilledAppending` and `KilledWritingSidecar` are the places where nothing of it runs
any more.  `RunM1Arm` is the other command that writes the same two files, for the
conditions of its own, with K copies of one graded base tree; it writes after
everything ran, so it is one action, and `RunM1ArmCut` is that write cut short.
`earned` and `ended` are history: how each task fared in the last invocation for the
files and how that one ended.

`M1Report` adds no state.  It says what `report-m1` would answer in any state:
`VoidTask` (`_outcomes_from_runs`), `Complete` and `FlaggedVoid`
(`aggregate_domain_metric`), `Skipped` (`run_planned_comparisons`),
`InvalidRunCount` (the validity table), `Incomplete` (the subreport's cell).  `ScoredIsEarned` is
the central property: whatever was interrupted, a scored task has exactly the K
clean runs of one invocation, and is reliable if and only if all of them passed
within their budgets; and two conditions that are compared have runs of their own for
each task of either.  `VoidIsEarned` is the other side: void is what fell short in that
invocation, and the subreport, which infers it from other data, marks the same tasks.
It excepts the task in `cut`, the one whose recording was interrupted: the report reads
such a task as void or as scored by what reached the file.  `SpecK`, the k of the
spec the report is given, is a constant apart from the campaign's `K`; `VoidIsEarned` is
stated where they agree, as with a larger k of the spec every task is void and short.
That the spec's k is no smaller is assumed (`SpecAssumption`): nothing in the code compares
the two, and with a smaller one the report scores tasks the campaign found void.
`SidecarIsEmpty` is what the command's docstring says of the sidecar and a void task
refutes.
A file that ends in the middle of a line, or a truncated
sidecar, is refused (`Readable`).

### BaselineCampaign and BenchReports

`BaselineCampaign` is `run_baseline`: the runs file is truncated at the start
(`Truncate`), a task's k runs are appended together (`RunTask`), and the report is made
of the runs in memory at the end (`WriteReport`).  None is replaced and nothing is
resumed.  `TaskRaises` is the unreachable provider and every other exception;
`Killed`, `KilledAppending`, `KilledWritingReport` are the places where the process can
disappear, between writes or inside one.  `CondOf` and `FileOf` are apart, as the name
of the files is a slug: two configurations may share files and one condition may have
several.  `results` is the list the invocation built in memory and `last` what it was;
both outlive it here so that what a file says can be compared with what happened.

`BenchReports` adds no state.  It says what the three report commands would answer in
any state, from the runs they load (`Loaded`, which refuses a file cut in a line).
`Status` and `FinalStatus` are two computations of one notion, and `Deficit`, `Whole`,
`AllFail`, `ReliableTasks` count different things about the same runs: the grade, the
grade and the caps, the tasks with k runs, all of them.  `Draws` are the multisets of
tasks the bootstrap may draw; the seed picks one function of this set, a property
quantifies over it.  `Samples`, `AtPlace` and `Percentile` are the sorted samples and the
interpolation between two of them, in integers, so the sign of an interval's end is
exact.

* `CompleteIsEarned`: the two reports agree on what is complete, and such a condition
  has K runs of every task, of one invocation and one condition, with the segment
  `report-final` accepts being that condition.  Nothing that a killed or unreachable
  invocation left is complete unless all its rows had been written.
* `ReportsBelongTogether`: the accounts of one invocation (rows, baseline report,
  validation and final report) count the same things, whatever was there before it;
  classes, taxonomy, tiers and capabilities each partition what they divide.
* `SeparationHasWitness`: an interval that excludes zero, for the seed's draw whatever it
  is, has a task behind it that was reliable on the better side and not on the other;
  so the strong rung's pair meets the weak rung too, and its task is not one the defect
  queue gives up.
* `DeficitNeverSeparates` is what a comment says and the code does not do: tasks short of
  runs are left out of one condition's interval and enter the interval of a pair.

### Calibration

Pure operators from the reply of a judge to a table of agreement.  `RunJudge` and
`ParseJudgeResponse` turn a reply into a verdict or a kind of error, or raise on a body
that is no JSON or has another shape (`Raises`), whereupon there is no packet, `JudgePasses` is the
grader, `ProvisionalPacket` and `Importable` the way of verdicts into packets and of
packets into a comparison, `Kappa` and `WeightedKappa` the arithmetic, as fractions.
`LabelsAreTheGraders`: the two ways a verdict becomes a pass, the grader's and the
calibration's, are one, and no error of a judge becomes a label.
`KappaIsChanceCorrected`: the "expected" agreement of the formula is what it should
be, the mean over all re-pairings of the two raters' labels, plain and weighted.

## Runs

| Run | Question | Result |
|---|---|---|
| `task_trials` | is a trial well-formed, bounded and truthful about why it ended; does the loop over it bank the right ones and end with K of them or a justified VOID? | holds |
| `task_probe` | is a trial excluded if either of its probes failed? | violated: a healthy second probe overrules the first |
| `dset_campaign` | are verdicts earned, final and eventually there, whatever is cut short? | holds |
| `dset_present` | is a task present in the file complete? | violated: a void task's rows are there before the sidecar |
| `world_trials` | code: are trees writable, passes earned, masks explained? workspace: do log, world, request and grade agree? | holds |
| `ablation` | do audit and rows agree, row by row, and are the arms interleaved? | holds |
| `m1_report` | does the report say of the files what happened, and are its readings and its arithmetic right? | holds |
| `m1_sidecar` | is the sidecar of `run-f` empty, as documented? | violated: it names the void tasks |
| `m1_invalid_rate` | does the report show that an arm lost trials? | violated: the file holds the valid ones only |
| `bench` | do the four reports over a baseline's files say what was run, and is agreement corrected for chance? | holds |
| `bench_deficit` | do tasks short of runs stay out of the separation of two conditions? | violated: the pair's interval takes raw runs |
| `b_spike` | whose object, whose verdict, whose browser session? | holds |

The violated properties quote a docstring, comment or design note and are listed
with it under `findings`.

### Bounds

* `task_trials`, `task_probe`: K = 3, rate 1/2, three kinds of run: clean, sick, of the wrong
  model.  Up to K invalid trials fit before VOID, so every interleaving of valid and
  invalid runs up to the decision is there.  `Futures` = {0, 1, 2, 5} reaches past any
  completion.  Within a trial: a backstop of 5, 3 rounds, batches of up to 2, 3
  attempts at a request, both probes.  The backstop is reached exactly, overshot by one,
  and reached in the round in which the turn budget is.
* `dset_campaign`: three tasks (a first, a middle, a last), K = 2 (so there is a
  partial void), three interruptions (one may damage, one run into the damage,
  one follow).
* `world_trials`, code: both drivers; paths of one and two segments in two spellings, with
  a reserved, a malformed and an over-long one; two node specs, one with a held-out file in
  a directory and one at the root, and a pytest spec.  A collision needs two paths, an
  ancestor clash one level.
* `world_trials`, workspace: four tasks after `workspace_tool_use_v2`, one for each kind of
  grader and its conjunctions, each with eight calls the model may make, among them calls
  that are unknown, malformed, name an unknown id, or undo another; up to five calls
  (a backstop of 4, overshot by a batch of 2).  A world with a gap in its ids, two
  creations in one answer, an unknown tool after a schema violation, and an older
  result kept behind a larger elided one all occur.  In the run a result has the size 1,
  3 or 5 by what it names, and the budget is 4; `RequestsFit` is proved for results of
  any sizes and any budget, the other theorems for any tasks, calls and numbers.
* `ablation`: a roster of one or both of two models, chosen anew by each of two
  invocations; one base task, two of the four arms, K = 2.
* `b_spike`: K = 1 with rate 1/2, so an arm has at most two attempts and may be void
  after one replacement more; both arms; two invocations, and `MaxStuck` = 1 place at which
  a `close()` may leave its sessions.  `Pow` = K stands for the
  `3` the report hard-codes with the configured k of 3.

* `m1_report`, `m1_sidecar`, `m1_invalid_rate`: two conditions, two tasks, K = SpecK = 2, three invocations: enough for a
  finished file, a second command over it and a cut-off third, and for two arms to
  lose different tasks.  The first condition may pass, pass at a cap, be throttled or
  be refused; the second pass or meet an incapable node.  Families of up to three
  p-values in twelfths (12 is divisible by each threshold's m - i), groups of up to four
  tasks.

* `bench`: three configurations, of which one shares its files with another and has
  another condition; two tasks, one easy (T1) and one hard (T3), whose file order is not
  that of their ids; `--k` of 0, 1 and 2 against a report's K of 2, so that a file may be
  short, exact or empty; two invocations, so that a second one meets the files of the
  first, ended in every way.  Each configuration records two kinds of run, or one: pass
  and miss; pass and pass at a cap; a refused request.  Two resamples and alpha 1/2
  put the ends of the interval between two samples.  Up to four items labelled in three categories: 81 x 81 pairs of raters and 24
  re-pairings of each.  The theorems are about any number of tasks, runs, resamples, items
  and categories.

`CHECK_DEADLOCK FALSE` is set where the program, or the bounded number of its
invocations, ends.  `dset_campaign` never stops: a finished campaign may be started
again.

### Fairness

`TaskTrials` assumes weak fairness of the whole next-state relation (`TaskSpec`): a single thread of straight-line code goes on, and every call in it has a
timeout (`httpx` client, subprocess).  `TaskEnds` then says that no choice of
answers keeps a trial or the loop over trials going.  `DsetCampaign` assumes in addition that the command is
started again after it was cut short (weak fairness of `Start`): the operator does
that, the command's own message asks for it.  Interruptions are bounded, as
nothing completes under endless ones.  `BSpike`, `AblationCampaign`, `WorldTrials`,
`FCampaign` and `BaselineCampaign` state safety only and assume no fairness.

## Proofs

Every theorem is checked by `tlapm` to its last leaf; no step is assumed.  They hold
for every value of the constants under the named assumption of the module.

* `TrialProofs`, the loop of trials (from `TrialsAssumption`).  Type correctness; then
  `Tolerance`, which relates the counters to the status, is inductive and gives
  `ScoredWithinTolerance`.  `VoidExactlyWhenHopeless` needs arithmetic: once the rate
  is exceeded no continuation brings it back (`ExceededForGood`), and a hopeless
  position has exceeded it (`HopelessIsExceeded`).  `AttemptsBounded` and `BankedRuns`
  follow on stronger invariants of the two sequences.  `LoopKeepsPromise` is the
  refinement of `KValidPromise`, step by step.
* `TrialProofs`, a trial (from `WorkspaceAssumption` and `TrialAssumption`).  The inductive
  invariant `IInv` adds to the types what no state variable holds: that there are worlds
  the run went through, from the task's to the present one, each the effect of the logged
  call on the one before (`Told`).  `AppliedEffect` says what any call does to a world: it
  is turned away and changes nothing, reads, creates one record under a number that was
  free, or sets the status of one that is there.  For `LogExplainsWorld` the claim is
  stated of the first calls of the log (`Explained`), shown to go on from one world to the
  next, and so of all of them (`UpTo`).  `MatchedReplays` holds as a list of calls leads
  through one list of worlds only (`LeadsToTheSame`), in whatever answers it came;
  `PassIsClean` as a write outside the allowed paths that left a trace is a changed leaf;
  `RefusalIsTheReason` as the world and the grader validate alike.  `RequestsFit` proves `TrimsForRoom` for every
  assignment of natural numbers to results as their sizes; it needs that the newest-first walk, which is defined by recursion, exists (`WalkExists`), and
  that what it has kept so far fits and what it left out did not (`WalkKeeps`).
* `AgentLoopProofs` (from `LoopAssumption`).  `BudgetsCorrect` needs `Headroom`: the
  count before a batch is below the cap, since the loop would have left.
  `TranscriptPaired` needs `Paired`, which describes the transcript in the middle of
  a batch.  That a round is counted once per answer (in `BudgetsCorrect`) is an invariant
  over the cardinality of the answers in the transcript: `ReplyAppended` says how an
  append changes it, `CountedInvariant` which answers leave no turn behind.
  `OutageTakesPrecedence` and `StopReasonCorrect` are invariants by the state of the
  loop; the former is the conjunct of the latter that says which reason wins.
  For the composition, `TrialsAreTrials` shows that each step of a task is one of the
  agent loop or a stutter, and `TasksAreLoops` the same of the replacement loop, so
  what is proved of either holds of a task; `OutagesAreReplaced` is an action property
  from the types and the reasons of the stop.
* `DsetCampaignProofs` (from `CampaignAssumption`).  `IInv` says, for each task, what
  its rows can be given how it last ended, where it stands in the corpus, and where
  the unfinished line is; `NeverPooled` and `ScoredIsEarned` are not inductive without
  it.  `VerdictsKept` is the refinement of `CampaignPromise`: a step that does no
  damage keeps the verdict of each task that has one (`CalmStep`).
  `NothingSilentlyLost` goes on where a step has done damage: a void task never has K
  rows, and a process knows the void tasks of the sidecar (`VoidsShort`), so only a
  write can take a row from a scored task, and that write leaves a line the report
  cannot read (`OthersStay`).
* `OracleGradingProofs` (from `CodeAssumption` and `OracleAssumption`).  First the code
  world.  The gate compares paths segment by segment; the disk merges names.
  `OnlyTheFirst` and `NoAlias` show that the first place where two paths part decides,
  so that the gate's test excludes both ways of failing on disk; `CodeInv` is inductive.
  Then the grading.  `TreeInv` says that the tree to be graded can be written down: in a
  chat by `CodeInv`, which every edit keeps, after claude because a disk held it
  (`ClaudeTree`).  `GradedByJudge` says that verdicts come from `Judge`, and that they are those of the
  specs the driver's edge knows (`SameSpecs`); the overlaid
  tree of a tree that does not collide is again writable (`OverlayWritable`).

* `M1ReportProofs` (from `FAssumption`, `SpecAssumption` and `ReportAssumption`).  `IInv` describes the two
  files of each condition given how its last invocation ended: the rows of the tasks
  done are the clean runs of these tasks in the order of the corpus, the sidecar names
  what was void, and `earned` says of each task which.  In the middle of an invocation
  the file has its first tasks, after a kill a prefix of its rows; a task that lost a
  row is then void by its number of rows, which is why `ScoredIsEarned` needs no
  exception for kills and `VoidIsEarned` does.  After an interrupt while a task was recorded
  the invariant lets this one task have a prefix of its rows or miss its name.  `ScoresAreEarned`, `VoidsAreEarned` and
  `UnflaggedCoversCorpus` follow from it without another induction.  `ReadersAgree` is a
  case analysis over what `Recorded` allows, with any number of legs.  `HolmIsClosed` and
  `AdjustedIsExact` hold for a family of any size: if the step-down stops at a
  hypothesis, the hypotheses that are no smaller are an intersection Bonferroni does not
  reject; if it goes past it, each intersection has its smallest member at a rank that
  was passed.  The maximum of the adjusted values is taken over a finite set of
  integers, which has one.  `FisherCountsDeals` is about groups of any two sizes: a deal
  of the reliable tasks is a subset for the first group and one for the second
  (`DealSplits`), so the deals with a given table are as many as the product of the two
  binomial coefficients says (`WaysAreTables`), and the test adds up those whose table
  is no likelier than the observed one.
* `BSpikeProofs` (from `SpikeAssumption`).  `IInv` has five parts: the counters of the loop
  are the counts they stand for (`LoopInv`); the trials of a finished arm are short of K
  valid ones, or K of them at an accepted share (`FilesInv`); the arms still to run have
  no file of this invocation, and names and rows recorded are those of the arms done
  (`CommandInv`); an object under the name of a recorded trial is this trial's
  (`OwnInv`); sessions left behind are the account's, or a process was killed
  or a close did nothing (`SessionInv`).  `PowsArePowered` assumes `Pow >= K`: the 3 of `pass_pow_3` is fixed
  in the report and k is configured, and with a k above 3 a void arm could pass at the
  power of 3.
* `AblationProofs` (from `AblationAssumption`).  `OrderIsOrdered` is about the order alone:
  by division with remainder it has no unit twice, each block has every arm, and a
  block's units are neighbours.  `RosterInv` says that every unit of the order
  is of a model whose artifact was opened or is still to be, and that no attempt is made
  before all are; `IInv` adds that an invocation has gone through its
  selection from the front and that the rows, the notes and the sidecar are lists of the
  same units, a row ahead between the two notes of an attempt.  For `DriftIsShared`,
  `Drift` compares two arms over what was gone through: all units of the one but the
  last have a partner of the other in their own block, and only the last block is open.

* `BenchProofs` (from `BaselineAssumption` and `ReportsAssumption`).  `FileInv`
  describes one file: its rows are those of the first runs the last invocation for it
  had in memory, all under that invocation's condition, and all of them, with the
  report made of them, once it ended well; `ProcessInv` says that a running process has
  written what it has in memory.  A kill inside an append breaks the equality and keeps
  the prefix.
  `CompletionIsEarned` follows as a complete file has as many runs of each task as are
  asked for (`CompleteCounts`), `AccountsBelong` as the round trip through the file
  loses nothing that is counted (`RoundTrip`).  `SeparationsAreWitnessed` is an argument
  about the bootstrap for any number of tasks and resamples and any alpha: if no task
  favours one side every sample is at most zero (`DifferenceSign`), so is each
  interpolation between two of them (`WeightedSign`, `PercentileSign`), and the
  interval does not exclude zero on that side (`IntervalNeedsWitness`);
  `WitnessMeetsWeak` is the step from the witness to the weak rung.
  `ReportsBelong` adds `CorpusInv`, which runs of the corpus an ended invocation has had:
  each table of the report then counts the parts of a partition, and what is counted
  part by part is counted once (`SumOfParts`; a sum is the size of a disjoint union, so
  this needs no induction).
  `KappaCorrectsForChance` is double counting, for any number of items and categories:
  the re-pairings that send one item to another are as many as those that leave the first
  where it is (`MovedBack`), so each pair of labels meets in the same share of them
  (`MeetingsCount`) and the mean agreement over all of them is the product of the
  margins (`MeanOverRepairings`).  `AgreementIsTheGraders` is about any replies whatever.

Type correctness, `AttemptBudget` and `EdgeNeverRefuses` are proved and are in no run,
where the theorem says all that an instance could.

Induction: the library's induction theorems take an operator as a parameter, which no
installed prover can instantiate.  What can be cited is that a non-empty set of naturals
has a least member; where a proof needs induction over positions (`UpTo` in
`TrialProofs`, `Listing` in `AblationProofs`, the sorted families of `M1ReportProofs`) it takes the least position
at which the claim fails.

Only model-checked, and why:

* the liveness properties (`TaskEnds`, `CorpusCompletes`): fairness and ENABLED.

## Observed and not stated as a run

* The comment `graders/node_execution.py:129-132` takes an execution error for
  "env-invalid, not a model FAIL".  The overlay looks for collisions by prefix only
  (`node_execution.py:44-49`); where the model leaves a file at a directory of a
  held-out path, or a name the disk does not take, materializing fails with OSError, and
  the attempt is masked although the machine was fit.
* `_budget_exhausted_count` and `_starvation_suspects` look for the stop reason "max_steps"
  (`reports/validation.py:97-116`), which the loop no longer writes
  (`runners/loop.py:224`, `228`); `--max-steps` is accepted and ignored.
* A flaky task is rendered as "mixed pass/fail" (`reports/validation.py:494`), but
  `_task_all_fail` reads the grade and `task_reliability` the caps too: a task that
  passed every run at a cap is flaky.
* `report-final` classifies graded failures only (`reports/final.py:136`): a pass at a cap
  is a failure to pass^k and in no class.
* Deficit tasks are said to be those without k runs (`reports/validation.py:217`:
  "run-count == k"); the test is `n < k`, and more than k runs are complete.
* `compare-configs` does not compare run counts and prints `--k` as given; an interval
  over one run a task reads like one over k.
* `report-validation` discards the condition segment of `--runs` (`cli.py:258`): a file
  under another condition's label is reported under it.  `report-final` refuses that.
* Two system prompts with the same stem, and two condition ids with the same slug, share
  their files (ADR-0007 accepts it): the later invocation replaces the earlier.
* `run-baseline` masks nothing: a refused request is a run that failed.
* `import_packet` compares ids and the format, not digests or the rubric
  (`calibrate/packet.py:121-130`): a packet filled for other trajectories under the same
  ids is accepted.
* Two raters who agree on one label throughout have a kappa of 0, flagged degenerate; in
  the bootstrap such resamples enter as 0 and pull the interval down.
* A void B task of `run-m1` would be named "?" in the sidecar, as its outcome has no run to
  take the id from (`runners/b_run.py:72`); the command passes no client
  (`cli.py:1128`), so there is none.

* `trim_tool_result_history` is called idempotent (`runners/history.py:47`); trimming
  what was trimmed elides more, as markers have a size, and a request full of
  markers exceeds the budget.
* `run-f-ablation` truncates the artifacts of an interrupted run (`cli.py:1443`), where
  ADR-0020 wants it resumable.
* A pytest suite that cannot run counts as a failure of the model
  (`graders/execution.py:118`), a node suite that cannot is masked.  Even a missing
  pytest, which is a dependency of the development group only, exits with 1 and is
  graded as failed tests (`NoPytest`).
* A file of a reserved name (`sitecustomize.py`, `.junit.xml`) in the directory claude
  leaves is refused by the edge and masks the attempt; the chat tools never let one
  be written.  Running out of time or budget masks a claude attempt by design.
* ADR-0013:114-115 lets "any cap-bound run" enter `budget_exhausted`;
  `_classification_counts` skips a run whose grade passed before it asks the classifier
  (`reports/m1.py:126`), so a pass at a cap is a failure to pass^k and in no row of the
  taxonomy.
* A condition without a scored run has an estimate, a median of rounds and a number of
  tokens of 0, and is on the Pareto front of rounds and of tokens with them
  (`reports/m1.py:284-299` looks at no void flag).
* `macro_composite` finds a domain missing by comparing two counts
  (`experiments/aggregate.py:166`): a result in a domain without a weight hides one
  missing domain that has a weight.
* `path_error` checks neither length nor encoding (`tools/code_world.py:101`).
* Under the claude driver a refused account does not stop `run-b`: no status is
  recorded.
* `AllOf` reports the reason of the first failing part even where that is None
  (`graders/composite.py:43`); all composite tasks of `workspace_tool_use_v2` but one
  list the outcome before the policy, so a run that misses the outcome and breaks a
  rule is not counted as a forbidden action.  ADR-0003 wants it so.
* Tools are looked up in the whole registry of the world, not in the task's
  `available_tools` (`runners/loop.py:211`): a tool that was not offered works.
* `records/trajectory.py:18-22` says that a transport error which exhausted its retries
  is recorded as a parse failure; `run_single` catches `HTTPStatusError` alone
  (`runners/loop.py:173`), so it leaves the loop without a trajectory (`raised` in
  `AgentLoop`) and ends the command.
* After an unreachable provider or a kill, `report-m1` scores the tasks that are there
  and flags nothing; `UnflaggedIsWhole` excepts these two endings.
* An interrupt while `run-f` records a task leaves some of its rows, and the finally clause
  a sidecar without its name (`cli.py:960-963`): the sidecar and the void tasks of the
  report part there, which is why `VoidIsEarned` excepts that task.
* A `run-m1` after `run-f` replaces the F file of a condition by copies of the graded
  base tree, which nothing in a row tells from model runs.
* `first_execution_evidence` looks at the first execution leg only: a run whose first
  leg passed and whose second failed is `other_miss` (`reports/classify.py:140`).
* A run masked for an incapable node is `agent_failure / oracle_error` to the
  classifier; it is masked first, so nothing counts it.
* The bootstrap p-value and interval "cannot disagree"
  (`metrics/multiplicity.py:44`): with 30 of 1000 resamples at exactly zero and none
  below, p = 0.03 and the lower end of the 95% interval is 0.
* A `max_invalid_rate` of 1 or more makes the trial loop endless against a provider
  that stays down.

## Not modelled

Prompt text, wire formats, argument parsing, rendering of reports, cost and latency,
exemplar excerpts: data without a decision.  Clopper-Pearson limits and the bootstrap
p-value: real arithmetic.  The B readback pipeline: the one command that leads to it
passes no client, and no code here says what the server answers.  The sandbox profiles
and mounts of the authored-test arms: what the operating system makes of them.
Datasets, golden oracles and the specs of experiments: static data, validated when
loaded.  Hydration joins a spec with an artifact by condition and writes nothing a
report reads.
Canonical JSON and SHA-256: taken as injective where a module depends on them.  Two
processes on the same files: the commands take no lock and are documented for one
operator.

## Plan

Models that would add most: identity and hydration over rewritten artifacts; the macro
composite and the Pareto front.

Theorems wanted: for identity and hydration, that a run is found again under its own id
only; for the front, that it has every condition no other dominates.
