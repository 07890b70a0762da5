----------------------------- MODULE FCampaign ------------------------------
(***************************************************************************)
(* cli.py `_run_f_command` over runners/f_candidate.py `run_f_candidate`,  *)
(* and the arm of `_run_m1_command` that writes the same two files: the F  *)
(* corpus of one condition, K attempts a task with no replacement, into    *)
(* runs-m1-<condition>-F.jsonl and its .void.json.                         *)
(*                                                                         *)
(* Both commands open the runs file for writing when they start and name   *)
(* the void tasks beside it when they end, so the two files of one         *)
(* condition may come from different invocations.                          *)
(***************************************************************************)
EXTENDS RunReading, FiniteSets, SequencesExt

CONSTANTS Conds,      \* conditions, one pair of files each
          Corpus,     \* the F tasks in the order they are run
          K,          \* attempts a task: runner.k_valid of the evaluator's config
          ModelRuns,  \* per condition, what an attempt may be recorded as
          BaseRuns,   \* what grading the pinned base tree may give
          MaxStarts   \* bound: invocations

Tasks == ToSet(Corpus)

ASSUME FAssumption ==
  /\ K \in Nat \ {0}
  /\ MaxStarts \in Nat
  /\ Corpus \in Seq(Tasks)
  /\ \A i, j \in DOMAIN Corpus : Corpus[i] = Corpus[j] => i = j
  /\ \A c \in Conds : \A r \in ModelRuns[c] : r \in Run /\ Recorded(r)
  /\ \A r \in BaseRuns : r \in Run /\ Recorded(r)

VARIABLES rows,     \* per condition, the runs file: rows of RunToRow
          sidecar,  \* the .void.json file; an absent one reads as an empty one
          torn,     \* which of the two files end in the middle of a write
          phase,    \* of the process: "idle", "running" or "closing"
          cond,     \* its condition
          next,     \* its place in the corpus
          voids,    \* its void_ids
          starts,
          ended,    \* history: how the last invocation for the files ended
          earned,   \* history: how each task fared in that invocation
          cut       \* history: the task it was recording when it was interrupted

fileVars == <<rows, sidecar, torn>>
vars == <<fileVars, phase, cond, next, voids, starts, ended, earned, cut>>

Init ==
  /\ rows = [c \in Conds |-> <<>>]
  /\ sidecar = [c \in Conds |-> {}]
  /\ torn = [c \in Conds |-> {}]
  /\ phase = "idle"
  /\ cond \in Conds
  /\ next = 1
  /\ voids = {}
  /\ starts = 0
  /\ ended = [c \in Conds |-> "never"]
  /\ earned = [c \in Conds |-> [t \in Tasks |-> "none"]]
  /\ cut = [c \in Conds |-> {}]

\* Mutant: the artifact is appended to.
TruncateNothing(c) == UNCHANGED <<rows, torn>>

\* path.open("w").
Truncate(c) ==
  /\ rows' = [rows EXCEPT ![c] = <<>>]
  /\ torn' = [torn EXCEPT ![c] = @ \ {"runs"}]

Start(c) ==
  /\ phase = "idle" /\ starts < MaxStarts
  /\ Truncate(c)
  /\ phase' = "running" /\ cond' = c /\ next' = 1 /\ voids' = {}
  /\ starts' = starts + 1
  /\ ended' = [ended EXCEPT ![c] = "underway"]
  /\ earned' = [earned EXCEPT ![c] = [t \in Tasks |-> "none"]]
  /\ cut' = [cut EXCEPT ![c] = {}]
  /\ UNCHANGED sidecar

Task == Corpus[next]

\* The n-th of a set of positions.
Nth(S, n) == CHOOSE i \in S : Cardinality({j \in S : j <= i}) = n

\* The rows of a task's valid runs, in the order of the attempts.
CleanRows(t, runs) ==
  LET clean == {i \in DOMAIN runs : ~EnvInvalid(runs[i])}
  IN [n \in 1 .. Cardinality(clean) |-> RunToRow(t, runs[Nth(clean, n)])]

\* What the K attempts at a task come to.
Fared(runs) ==
  IF \E i \in DOMAIN runs : EnvInvalid(runs[i]) THEN "void"
  ELSE IF \A i \in DOMAIN runs : RunPasses(runs[i]) THEN "reliable" ELSE "unreliable"

Blocked(runs) == \E i \in DOMAIN runs : AccountRefused(runs[i])

NoteVoid(runs) == voids' = IF Fared(runs) = "void" THEN voids \cup {Task} ELSE voids

\* One task: its K attempts, its rows, its void, and the stop at a refused
\* account, which is looked for when the whole task is done.
RunTask ==
  /\ phase = "running" /\ next <= Len(Corpus)
  /\ \E runs \in [1 .. K -> ModelRuns[cond]] :
       /\ rows' = [rows EXCEPT ![cond] = @ \o CleanRows(Task, runs)]
       /\ NoteVoid(runs)
       /\ earned' = [earned EXCEPT ![cond][Task] = Fared(runs)]
       /\ IF Blocked(runs)
          THEN phase' = "closing" /\ ended' = [ended EXCEPT ![cond] = "blocked"] /\ next' = next
          ELSE next' = next + 1 /\ UNCHANGED <<phase, ended>>
  /\ UNCHANGED <<torn, sidecar, cond, starts, cut>>

CorpusDone ==
  /\ phase = "running" /\ next > Len(Corpus)
  /\ phase' = "closing"
  /\ ended' = [ended EXCEPT ![cond] = "done"]
  /\ UNCHANGED <<fileVars, cond, next, voids, starts, earned, cut>>

\* The provider is unreachable, git fails, or anything else is raised before
\* the task under way has its K runs: they are lost, the finally clause runs.
TaskRaises ==
  /\ phase = "running" /\ next <= Len(Corpus)
  /\ phase' = "closing"
  /\ ended' = [ended EXCEPT ![cond] = "failed"]
  /\ UNCHANGED <<fileVars, cond, next, voids, starts, earned, cut>>

\* In _append_runs: some whole rows are out, perhaps a piece of another.
AppendSome(runs) ==
  LET new == CleanRows(Task, runs) IN
  \E n \in 0 .. Len(new) :
    /\ rows' = [rows EXCEPT ![cond] = @ \o SubSeq(new, 1, n)]
    /\ \/ UNCHANGED torn
       \/ n < Len(new) /\ torn' = [torn EXCEPT ![cond] = @ \cup {"runs"}]
    /\ earned' = [earned EXCEPT ![cond][Task] = Fared(runs)]

\* An interrupt, or a disk that is full, while a task is recorded, before its
\* void is noted or after: the finally clause runs all the same.
RecordingRaises ==
  /\ phase = "running" /\ next <= Len(Corpus)
  /\ \E runs \in [1 .. K -> ModelRuns[cond]] :
       /\ AppendSome(runs)
       /\ \/ UNCHANGED voids
          \/ Len(rows'[cond]) = Len(rows[cond]) + Len(CleanRows(Task, runs)) /\ NoteVoid(runs)
  /\ phase' = "closing"
  /\ ended' = [ended EXCEPT ![cond] = "failed"]
  /\ cut' = [cut EXCEPT ![cond] = {Task}]
  /\ UNCHANGED <<sidecar, cond, next, starts>>

\* Mutant: only a corpus that was gone through gets its sidecar.
WriteSidecarWhenDone ==
  /\ phase = "closing"
  /\ phase' = "idle" /\ next' = 1 /\ voids' = {}
  /\ sidecar' = IF ended[cond] = "failed" THEN sidecar ELSE [sidecar EXCEPT ![cond] = voids]
  /\ torn' = [torn EXCEPT ![cond] = @ \ {"sidecar"}]
  /\ UNCHANGED <<rows, cond, starts, ended, earned, cut>>

\* The finally clause.
WriteSidecar ==
  /\ phase = "closing"
  /\ phase' = "idle" /\ next' = 1 /\ voids' = {}
  /\ sidecar' = [sidecar EXCEPT ![cond] = voids]
  /\ torn' = [torn EXCEPT ![cond] = @ \ {"sidecar"}]
  /\ UNCHANGED <<rows, cond, starts, ended, earned, cut>>

-----------------------------------------------------------------------------
(* The process is killed: nothing of it runs any more.                     *)

Dies ==
  /\ phase' = "idle" /\ next' = 1 /\ voids' = {}
  /\ ended' = [ended EXCEPT ![cond] = "killed"]

Killed ==
  /\ phase # "idle"
  /\ Dies
  /\ UNCHANGED <<fileVars, cond, starts, earned, cut>>

KilledAppending ==
  /\ phase = "running" /\ next <= Len(Corpus)
  /\ \E runs \in [1 .. K -> ModelRuns[cond]] : AppendSome(runs)
  /\ Dies
  /\ UNCHANGED <<sidecar, cond, starts, cut>>

\* In write_text: the file is already truncated.
KilledWritingSidecar ==
  /\ phase = "closing"
  /\ torn' = [torn EXCEPT ![cond] = @ \cup {"sidecar"}]
  /\ Dies
  /\ UNCHANGED <<rows, sidecar, cond, starts, earned, cut>>

-----------------------------------------------------------------------------
(* run-m1: run_f grades the base tree of each task once and repeats the    *)
(* run K times, nothing is void; the files are written after everything    *)
(* ran.  One arm of the command; a second arm is a second invocation.      *)

BaseRows(g) ==
  [i \in 1 .. K * Len(Corpus) |->
     LET t == Corpus[(i - 1) \div K + 1] IN RunToRow(t, g[t])]

BaseFared(g) == [t \in Tasks |-> Fared(<<g[t]>>)]

RunM1Arm(c) ==
  /\ phase = "idle" /\ starts < MaxStarts
  /\ \E g \in [Tasks -> BaseRuns] :
       /\ rows' = [rows EXCEPT ![c] = BaseRows(g)]
       /\ earned' = [earned EXCEPT ![c] = BaseFared(g)]
  /\ sidecar' = [sidecar EXCEPT ![c] = {}]
  /\ torn' = [torn EXCEPT ![c] = {}]
  /\ cond' = c
  /\ starts' = starts + 1
  /\ ended' = [ended EXCEPT ![c] = "done"]
  /\ cut' = [cut EXCEPT ![c] = {}]
  /\ UNCHANGED <<phase, next, voids>>

\* Killed on the way: some of the rows are out, and the sidecar is the old one
\* or, when all of them are, perhaps truncated.
RunM1ArmCut(c) ==
  /\ phase = "idle" /\ starts < MaxStarts
  /\ \E g \in [Tasks -> BaseRuns], n \in 0 .. K * Len(Corpus) :
       /\ rows' = [rows EXCEPT ![c] = SubSeq(BaseRows(g), 1, n)]
       /\ \/ torn' = [torn EXCEPT ![c] = @ \ {"runs"}]
          \/ n < K * Len(Corpus) /\ torn' = [torn EXCEPT ![c] = @ \cup {"runs"}]
          \/ n = K * Len(Corpus) /\ torn' = [torn EXCEPT ![c] = {"sidecar"}]
       /\ earned' = [earned EXCEPT ![c] = BaseFared(g)]
  /\ cond' = c
  /\ starts' = starts + 1
  /\ ended' = [ended EXCEPT ![c] = "killed"]
  /\ cut' = [cut EXCEPT ![c] = {}]
  /\ UNCHANGED <<sidecar, phase, next, voids>>

-----------------------------------------------------------------------------

RunF ==
  \/ \E c \in Conds : Start(c)
  \/ RunTask \/ CorpusDone \/ TaskRaises \/ RecordingRaises \/ WriteSidecar
Kill == Killed \/ KilledAppending \/ KilledWritingSidecar
RunM1 == \E c \in Conds : RunM1Arm(c) \/ RunM1ArmCut(c)

Next == RunF \/ Kill \/ RunM1

Spec == Init /\ [][Next]_vars
=============================================================================
