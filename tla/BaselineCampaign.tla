-------------------------- MODULE BaselineCampaign --------------------------
(***************************************************************************)
(* cli.py `run_baseline`: the corpus under one configuration, k runs a     *)
(* task and none of them replaced (runners/multi_run.py `run_task_k`),     *)
(* streamed into runs-<slug>.jsonl; at the end baseline-<slug>.md is built *)
(* from the runs in memory.                                                *)
(*                                                                         *)
(* The slug is that of the condition and of the prompt file's stem, so two *)
(* configurations may share their files.  A task id is a number that       *)
(* stands for its place in the sorted ids.                                 *)
(***************************************************************************)
EXTENDS RunReading, FiniteSets, SequencesExt

CONSTANTS Configs,    \* provider, model and system prompt of an invocation
          CondOf,     \* per configuration, its condition id
          FileOf,     \* per configuration, the slug of its two files
          Corpus,     \* the dataset's task ids in file order
          Outcomes,   \* per configuration, what a run may be recorded as
          Ks,         \* values of --k
          MaxStarts   \* bound: invocations

ASSUME BaselineAssumption ==
  /\ Configs # {}
  /\ Corpus \in Seq(Nat)
  /\ \A i, j \in DOMAIN Corpus : Corpus[i] = Corpus[j] => i = j
  /\ Ks \subseteq Nat
  /\ MaxStarts \in Nat
  /\ \A c \in Configs : \A r \in Outcomes[c] : r \in Run /\ Recorded(r)

Tasks == {Corpus[i] : i \in DOMAIN Corpus}
Files == {FileOf[c] : c \in Configs}
Conds == {CondOf[c] : c \in Configs}

\* A RunResult, in memory.
RunResult == [cond : Conds, task : Tasks, index : Nat, run : Run]

VARIABLES rows,     \* per file, the lines of runs-<slug>.jsonl
          torn,     \* the files that end in the middle of a line
          report,   \* per file, baseline-<slug>.md
          phase,    \* of the process: "idle" or "running"
          config,   \* its configuration
          k,        \* its --k
          next,     \* its place in the corpus
          starts,
          results,  \* per file, the list the last invocation built in memory
          last      \* history: of that invocation, configuration, k and ending

\* A line of a runs file.
Line(x) == [cond |-> x.cond, index |-> x.index, row |-> RunToRow(x.task, x.run)]

TypeOK ==
  /\ rows \in [Files -> Seq({Line(x) : x \in RunResult})]
  /\ torn \subseteq Files
  /\ report \in [Files -> [state : {"absent", "cut", "whole"}, k : Nat, runs : Nat,
                         passed : Nat, reliable : SUBSET Tasks]]
  /\ phase \in {"idle", "running"}
  /\ config \in Configs /\ k \in Nat /\ next \in 1 .. Len(Corpus) + 1 /\ starts \in Nat
  /\ results \in [Files -> Seq(RunResult)]
  /\ last \in [Files -> [config : Configs, k : Nat,
                       how : {"never", "underway", "done", "failed", "killed"}]]

vars == <<rows, torn, report, phase, config, k, next, starts, results, last>>

\* Report files: none, cut short by a kill, or whole.
NoReport  == [state |-> "absent", k |-> 0, runs |-> 0, passed |-> 0, reliable |-> {}]
CutReport == [NoReport EXCEPT !.state = "cut"]

Init ==
  /\ rows = [f \in Files |-> <<>>]
  /\ torn = {}
  /\ report = [f \in Files |-> NoReport]
  /\ phase = "idle"
  /\ config = CHOOSE c \in Configs : TRUE
  /\ k = 0
  /\ next = 1
  /\ starts = 0
  /\ results = [f \in Files |-> <<>>]
  /\ last = [f \in Files |-> [config |-> config, k |-> 0, how |-> "never"]]

File == FileOf[config]

-----------------------------------------------------------------------------
(* Reading a list of runs (metrics/reliability.py).                        *)

\* task_reliability, for one task the list has runs of.
Reliable(rs, t) == \A i \in DOMAIN rs : rs[i].task = t => RunPasses(rs[i].run)

TasksIn(rs) == {rs[i].task : i \in DOMAIN rs}

\* _run_counts.
RunsOf(rs, t) == Cardinality({i \in DOMAIN rs : rs[i].task = t})

\* The tasks pass^k counts.
ReliableTasks(rs) == {t \in TasksIn(rs) : Reliable(rs, t)}

\* What pass@1 counts: the grade alone.
Graded(rs) == {i \in DOMAIN rs : rs[i].run.passed}

\* _load_run_results.
Loaded(f) ==
  [i \in DOMAIN rows[f] |->
     [cond |-> rows[f][i].cond, task |-> rows[f][i].row.task_id,
      index |-> rows[f][i].index, run |-> RowToRun(rows[f][i].row)]]

-----------------------------------------------------------------------------

\* Mutant: the artifact is appended to.
AppendTo(f) == UNCHANGED <<rows, torn>>

\* path.open("w").
Truncate(f) ==
  /\ rows' = [rows EXCEPT ![f] = <<>>]
  /\ torn' = torn \ {f}

\* The report of the invocation before stands until this one ends.
Start(c, n) ==
  /\ phase = "idle" /\ starts < MaxStarts
  /\ Truncate(FileOf[c])
  /\ phase' = "running" /\ config' = c /\ k' = n /\ next' = 1
  /\ starts' = starts + 1
  /\ results' = [results EXCEPT ![FileOf[c]] = <<>>]
  /\ last' = [last EXCEPT ![FileOf[c]] = [config |-> c, k |-> n, how |-> "underway"]]
  /\ UNCHANGED report

\* run_task_k: k runs of the task under way, a refused request among them.
TaskRuns ==
  {[i \in 1 .. k |-> [cond |-> CondOf[config], task |-> Corpus[next],
                      index |-> i - 1, run |-> g[i]]] : g \in [1 .. k -> Outcomes[config]]}

RunTask ==
  /\ phase = "running" /\ next <= Len(Corpus)
  /\ \E new \in TaskRuns :
       /\ rows' = [rows EXCEPT ![File] = @ \o [i \in DOMAIN new |-> Line(new[i])]]
       /\ results' = [results EXCEPT ![File] = @ \o new]
  /\ next' = next + 1
  /\ UNCHANGED <<torn, report, phase, config, k, starts, last>>

Ends(how) ==
  /\ phase' = "idle" /\ next' = 1
  /\ last' = [last EXCEPT ![File].how = how]
  /\ UNCHANGED <<config, k, starts>>

\* The provider cannot be reached (exit 1), or anything else is raised before
\* the task under way has its k runs: they are lost, the rows before stay.
TaskRaises ==
  /\ phase = "running" /\ next <= Len(Corpus)
  /\ Ends("failed")
  /\ UNCHANGED <<rows, torn, report, results>>

\* _validate_k.
ValidK(rs) == rs # <<>> /\ \A t \in TasksIn(rs) : RunsOf(rs, t) = k

\* build_baseline_report.
BaselineReport(rs, n) ==
  [state |-> "whole", k |-> n, runs |-> Len(rs), passed |-> Cardinality(Graded(rs)),
   reliable |-> ReliableTasks(rs)]

WriteReport ==
  /\ phase = "running" /\ next > Len(Corpus)
  /\ ValidK(results[File])
  /\ report' = [report EXCEPT ![File] = BaselineReport(results[File], k)]
  /\ Ends("done")
  /\ UNCHANGED <<rows, torn, results>>

\* With --k 0 there is nothing to aggregate.
ReportRaises ==
  /\ phase = "running" /\ next > Len(Corpus)
  /\ ~ValidK(results[File])
  /\ Ends("failed")
  /\ UNCHANGED <<rows, torn, report, results>>

-----------------------------------------------------------------------------
(* The process is killed.                                                  *)

Killed ==
  /\ phase = "running"
  /\ Ends("killed")
  /\ UNCHANGED <<rows, torn, report, results>>

\* In _append_runs: some whole lines are out, perhaps a piece of another.
KilledAppending ==
  /\ phase = "running" /\ next <= Len(Corpus)
  /\ \E new \in TaskRuns, n \in 0 .. k :
       /\ rows' = [rows EXCEPT ![File] = @ \o [i \in 1 .. n |-> Line(new[i])]]
       /\ torn' \in {torn} \cup (IF n < k THEN {torn \cup {File}} ELSE {})
       /\ results' = [results EXCEPT ![File] = @ \o new]
  /\ Ends("killed")
  /\ UNCHANGED report

\* In write_text, which has truncated the report already.
KilledWritingReport ==
  /\ phase = "running" /\ next > Len(Corpus)
  /\ ValidK(results[File])
  /\ report' = [report EXCEPT ![File] = CutReport]
  /\ Ends("killed")
  /\ UNCHANGED <<rows, torn, results>>

-----------------------------------------------------------------------------

Next ==
  \/ \E c \in Configs, n \in Ks : Start(c, n)
  \/ RunTask \/ TaskRaises \/ WriteReport \/ ReportRaises
  \/ Killed \/ KilledAppending \/ KilledWritingReport

Spec == Init /\ [][Next]_vars
=============================================================================
