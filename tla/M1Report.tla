------------------------------ MODULE M1Report ------------------------------
(***************************************************************************)
(* What `report-m1` makes of the files of FCampaign at any moment it may   *)
(* be called: cli.py `_outcomes_from_runs`, experiments/aggregate.py,      *)
(* experiments/comparisons.py, reports/m1.py and, for the subreport,       *)
(* reports/m1_detail.py.  F domain; nothing here changes state.            *)
(***************************************************************************)
EXTENDS FCampaign, ReportMetrics

CONSTANTS SpecK,      \* the k of the frozen spec: clean runs a task is scored over
          MaxTests,   \* bound: p-values in a family
          PDen,       \* bound: p-values are multiples of 1 / PDen
          MaxTasks    \* bound: tasks in a group of Fisher's test

\* The spec and the evaluator's config are two files.  With a spec that asks for
\* fewer runs than the config makes, a void task could be scored.
ASSUME SpecAssumption == SpecK \in Nat /\ SpecK >= K

ASSUME ReportAssumption == MaxTests \in Nat /\ PDen \in Nat \ {0} /\ MaxTasks \in Nat

\* The report refuses a file it cannot parse.
Readable(c) == torn[c] = {}

\* The rows of a task, by their place in the file, and the run a row is read as.
TaskRows(c, t) == {i \in DOMAIN rows[c] : rows[c][i].task_id = t}
RowsTasks(c)   == {rows[c][i].task_id : i \in DOMAIN rows[c]}
RunAt(c, i)    == RowToRun(rows[c][i])

(* _outcomes_from_runs.                                                    *)

Listed(c) == RowsTasks(c) \cup sidecar[c]

ValidRows(c, t) == {i \in TaskRows(c, t) : ~EnvInvalid(RunAt(c, i))}

VoidTask(c, t) ==
  \/ t \in sidecar[c]
  \/ TaskRows(c, t) # {} /\ Cardinality(ValidRows(c, t)) < SpecK

(* aggregate_domain_metric.                                                *)

\* _complete_runs, by task; they are also m1.py's _valid_runs.
Complete(c) == {t \in Listed(c) : ~VoidTask(c, t)}

\* task_reliability.
Reliable(c) == {t \in Complete(c) : \A i \in ValidRows(c, t) : RunPasses(RunAt(c, i))}

\* The result's void flag; with no outcome at all there is no result.
HasResult(c) == Listed(c) # {}

\* Mutant: void only when there is nothing to score.
FlaggedWhenEmpty(c) == Complete(c) = {}

FlaggedVoid(c) == Complete(c) = {} \/ \E t \in Listed(c) : VoidTask(c, t)

(* run_planned_comparisons.                                                *)

Skipped(a, b) == Complete(a) = {} \/ Complete(b) = {} \/ Complete(a) # Complete(b)

(* build_m1_detail.                                                        *)

\* The tasks with a cell that is present, and the cell's `incomplete`.
DetailTasks(c) == {t \in Listed(c) : ValidRows(c, t) # {}}

Incomplete(c, t) == Cardinality(ValidRows(c, t)) < SpecK

(* The validity table.                                                     *)

\* invalid_run_count, the numerator of a condition's invalid-rate.
InvalidRunCount(c) == Cardinality({i \in DOMAIN rows[c] : EnvInvalid(RunAt(c, i))})

-----------------------------------------------------------------------------

\* pass^k is over K clean runs a task: a task the report scores had K of them
\* in one invocation, the last, it is scored over these and no other, and it is
\* reliable exactly when all of them passed within their budgets; whatever was
\* interrupted and whenever the report is made.  Two arms are compared over
\* tasks scored so in both.
ScoredIsEarned ==
  /\ \A c \in Conds : Readable(c) => \A t \in Complete(c) :
       /\ earned[c][t] = IF t \in Reliable(c) THEN "reliable" ELSE "unreliable"
       /\ Cardinality(ValidRows(c, t)) = K
       /\ TaskRows(c, t) = ValidRows(c, t)
  /\ \A a, b \in Conds : Readable(a) /\ Readable(b) /\ ~Skipped(a, b) =>
       \A t \in Complete(a) \cup Complete(b) :
         {earned[a][t], earned[b][t]} \subseteq {"reliable", "unreliable"}

\* Under a spec that asks for as many runs as are made, and unless the last
\* invocation was killed or is still under way: a task the report calls void
\* fell short of K clean runs in that invocation, and one that fell short is
\* called void, so the two files belong together.  The one exception is the task
\* an invocation was recording when it was interrupted.  The subreport, which
\* looks at neither the sidecar nor the outcome's void flag, marks the same
\* tasks as excluded from pass^k.
VoidIsEarned ==
  \A c \in Conds :
    SpecK = K /\ phase = "idle" /\ ended[c] # "killed" =>
      /\ {t \in Listed(c) : VoidTask(c, t)} \ cut[c] = {t \in Tasks : earned[c][t] = "void"} \ cut[c]
      /\ \A t \in DetailTasks(c) : Incomplete(c, t) <=> VoidTask(c, t)

\* An estimate that is not flagged covers the corpus, unless the last
\* invocation failed, was killed or is under way: a corpus given up at a
\* refused account is never taken for a small one.
UnflaggedIsWhole ==
  \A c \in Conds :
    phase = "idle" /\ ended[c] \in {"done", "blocked"} /\ HasResult(c) /\ ~FlaggedVoid(c) =>
      Complete(c) = Tasks

\* The docstring of run-f says that it writes "an empty .void.json": no task is
\* ever named in one.
SidecarIsEmpty ==
  \A c \in Conds : "sidecar" \notin torn[c] => sidecar[c] = {}

\* The design says of a condition's trials: "The invalid-rate is always reported
\* alongside pass^k".  Where an invocation that ended had an invalid trial, the
\* report's rate is not zero.
InvalidIsReported ==
  \A c \in Conds :
    phase = "idle" /\ ended[c] = "done" /\ (\E t \in Tasks : earned[c][t] = "void") =>
      InvalidRunCount(c) > 0

(* What follows is about operators and not about a state: it is looked at  *)
(* once, before the first command.                                         *)

Fresh == starts = 0

\* classify_run calls a run passed exactly when pass^k counts it as one, and a
\* node run that counts against the model is put down to the model or the
\* task: what the classifier calls the harness's fault has been masked.
CountedIsTheModels ==
  Fresh => \A r \in RecordedRuns :
    /\ Classify(r)[1] = "passed" <=> RunPasses(r)
    /\ r.legs # <<>> /\ ~EnvInvalid(r) /\ ~RunPasses(r) =>
         Classify(r)[1] \in {"agent_failure", "task_failure"}

\* Holm's step-down is the closed test of its family: a hypothesis is rejected
\* exactly when Bonferroni rejects every intersection it is part of; and the
\* adjusted p-value says the same.
HolmIsClosedTesting ==
  Fresh => \A m \in 1 .. MaxTests : \A ps \in [1 .. m -> 0 .. PDen], alpha \in 0 .. PDen - 1 :
    \A i \in 1 .. m :
      LET closed == \A S \in SUBSET (1 .. m) :
                      i \in S => \E j \in S : ps[j] * Cardinality(S) <= alpha
      IN /\ Rejected(ps, alpha, i) <=> closed
         /\ Rejected(ps, alpha, i) <=> AdjustedP(ps, PDen, i) <= alpha

\* The ways to deal so many reliable tasks to two groups of aN and bN tasks,
\* and how many of them give the first group k.
Deals(aN, bN, total)   == kSubset(total, 1 .. aN + bN)
InFirst(S, aN)         == Cardinality(S \cap (1 .. aN))
Ways(k, aN, bN, total) == Cardinality({S \in Deals(aN, bN, total) : InFirst(S, aN) = k})

\* Fisher's p-value, Extreme over the number of deals, is that of the
\* permutation test: of all deals, those whose table is no more likely than
\* the observed one.
FisherIsPermutation ==
  Fresh => \A aN, bN \in 1 .. MaxTasks : \A a \in 0 .. aN, b \in 0 .. bN :
    Extreme(a, aN, b, bN) =
      Cardinality({S \in Deals(aN, bN, a + b) :
                     Ways(InFirst(S, aN), aN, bN, a + b) <= Ways(a, aN, bN, a + b)})
=============================================================================
