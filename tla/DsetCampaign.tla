---------------------------- MODULE DsetCampaign ----------------------------
(***************************************************************************)
(* cli.py `_run_dset_command` over runners/dset_run.py `run_dset`, with    *)
(* the reader cli.py `_outcomes_from_runs`: a corpus of tasks is run over  *)
(* hours, each task's valid runs are appended to one JSONL file, the void  *)
(* tasks are named in a sidecar, and the command is started again after    *)
(* whatever interrupted it.                                                *)
(*                                                                         *)
(* Durable: the two files.  Volatile: the tasks still to run and the void  *)
(* tasks seen, which die with the process.  One task's loop is             *)
(* ReplacementTrials; here it yields K valid runs, or fewer and void.      *)
(*                                                                         *)
(* Of the file are kept the intact rows of each task, whether its last     *)
(* line is finished, and whether some line of it cannot be parsed.         *)
(***************************************************************************)
EXTENDS Integers, FiniteSets

CONSTANTS N,           \* tasks of the corpus, run in the order 1 .. N
          K,           \* valid runs a task is scored over
          MaxAborts    \* bound: how often a run of the command is cut short

ASSUME CampaignAssumption ==
  /\ N \in Nat \ {0}
  /\ K \in Nat \ {0}
  /\ MaxAborts \in Nat

Tasks == 1 .. N

\* How the file ends: with a newline, with an unparsable piece of a row, or
\* with an intact row of a task that lacks its newline.
Clean    == 0
Fragment == N + 1

VARIABLES rows,      \* intact rows of each task in the JSONL file
          tail,      \* how the file ends
          garbled,   \* a line of the file cannot be parsed
          sidecar,   \* the .void.json file
          pc,        \* "off" or "running"
          todo,      \* run_dset's tasks not yet done by this process
          voids,     \* void_ids of this process
          aborts,
          outcome,   \* history: how each task's trials last ended
          damaged    \* history: a process died inside a write

fileVars == <<rows, tail, garbled>>
vars == <<fileVars, sidecar, pc, todo, voids, aborts, outcome, damaged>>

Sidecar(state, tasks) == [state |-> state, tasks |-> tasks]

Init ==
  /\ rows = [t \in Tasks |-> 0]
  /\ tail = Clean
  /\ garbled = FALSE
  /\ sidecar = Sidecar("absent", {})
  /\ pc = "off"
  /\ todo = {}
  /\ voids = {}
  /\ aborts = 0
  /\ outcome = [t \in Tasks |-> "none"]
  /\ damaged = FALSE

-----------------------------------------------------------------------------
(* What the next process, and the report, find on disk.                    *)

\* An absent or unreadable sidecar names no task.
PriorVoids == IF sidecar.state = "written" THEN sidecar.tasks ELSE {}

\* _completed_dset_task_ids: a task with any intact row, or a void one.
Completed == {t \in Tasks : rows[t] > 0} \cup PriorVoids

\* Mutant: whatever has rows is scored.
VerdictUnderPowered(t) ==
  IF t \in PriorVoids THEN "void"
  ELSE IF rows[t] > 0 THEN "scored"
  ELSE "open"

\* _outcomes_from_runs: a task named void, or with some rows but fewer than
\* K, is not scored; one that is in neither file is not seen at all.
Verdict(t) ==
  IF t \in PriorVoids \/ (rows[t] > 0 /\ rows[t] < K) THEN "void"
  ELSE IF rows[t] >= K THEN "scored"
  ELSE "open"

\* The report refuses a file with a malformed line and a malformed sidecar.
Readable == ~garbled /\ tail # Fragment /\ sidecar.state # "torn"

-----------------------------------------------------------------------------
(* Writing.                                                                *)

\* Mutant: an unfinished last line is written over.
WriteOver(t, lines, piece) ==
  LET unfinished == IF piece = t THEN 1 ELSE 0
  IN  /\ rows' = [u \in Tasks |->
                    rows[u] - (IF u = tail THEN 1 ELSE 0)
                            + (IF u = t THEN lines + unfinished ELSE 0)]
      /\ tail' = piece
      /\ UNCHANGED garbled

\* `lines` finished rows of t and then a last piece go to the end of the
\* file; the first of them runs into an unfinished last line, and both are
\* lost to any reader.
Write(t, lines, piece) ==
  LET unfinished == IF piece = t THEN 1 ELSE 0
      intact == IF tail = Clean THEN lines + unfinished
                ELSE IF lines > 0 THEN lines - 1 + unfinished
                ELSE 0
  IN  /\ rows' = [u \in Tasks |->
                    rows[u] - (IF u = tail THEN 1 ELSE 0)
                            + (IF u = t THEN intact ELSE 0)]
      /\ garbled' = (garbled \/ tail # Clean)
      /\ tail' = IF tail # Clean /\ lines = 0 THEN Fragment ELSE piece

\* _append_runs: nothing is written for a void task without a valid run.
AppendRuns(t, n) ==
  IF n = 0 THEN UNCHANGED fileVars ELSE Write(t, n, Clean)

-----------------------------------------------------------------------------
(* The process.                                                            *)

\* Mutant: the tasks that are done are not skipped.
StartRunsAll ==
  /\ pc = "off"
  /\ todo' = Tasks
  /\ voids' = PriorVoids
  /\ pc' = "running"
  /\ UNCHANGED <<fileVars, sidecar, aborts, outcome, damaged>>

\* The command is started: the finished tasks are skipped and the file is
\* appended to, or, when there are none, opened anew.  With nothing left to
\* run the sidecar is written again and the command is over.
Start ==
  /\ pc = "off"
  /\ todo' = Tasks \ Completed
  /\ voids' = PriorVoids
  /\ IF Completed = Tasks
     THEN sidecar' = Sidecar("written", PriorVoids) /\ UNCHANGED <<pc, fileVars>>
     ELSE /\ pc' = "running"
          /\ IF Completed = {}
             THEN rows' = [t \in Tasks |-> 0] /\ tail' = Clean /\ garbled' = FALSE
             ELSE UNCHANGED fileVars
          /\ UNCHANGED sidecar
  /\ UNCHANGED <<aborts, outcome, damaged>>

\* The next task of the corpus.
Current(t) ==
  /\ pc = "running"
  /\ t \in todo
  /\ \A u \in todo : t <= u

\* K valid runs were obtained.
TaskScored(t) ==
  /\ Current(t)
  /\ AppendRuns(t, K)
  /\ todo' = todo \ {t}
  /\ outcome' = [outcome EXCEPT ![t] = "ok"]
  /\ UNCHANGED <<sidecar, pc, voids, aborts, damaged>>

\* The task was given up with n valid runs: they are written all the same,
\* the task is void in memory only.
TaskVoid(t, n) ==
  /\ Current(t)
  /\ AppendRuns(t, n)
  /\ todo' = todo \ {t}
  /\ voids' = voids \cup {t}
  /\ outcome' = [outcome EXCEPT ![t] = "void"]
  /\ UNCHANGED <<sidecar, pc, aborts, damaged>>

\* Mutants: only the void tasks of this process are written; only those of
\* earlier ones.
WriteSidecarPriorVoids ==
  /\ sidecar' = Sidecar("written", PriorVoids)
  /\ pc' = "off"
WriteSidecarOwnVoids ==
  /\ sidecar' = Sidecar("written", voids \ PriorVoids)
  /\ pc' = "off"

\* The sidecar is rewritten, and the command is over.
WriteSidecar ==
  /\ sidecar' = Sidecar("written", voids)
  /\ pc' = "off"

CorpusDone ==
  /\ pc = "running"
  /\ todo = {}
  /\ WriteSidecar
  /\ UNCHANGED <<fileVars, todo, voids, aborts, outcome, damaged>>

\* A run of the command is cut short, which happens MaxAborts times at most.
Aborted ==
  /\ pc = "running"
  /\ aborts < MaxAborts
  /\ aborts' = aborts + 1

\* httpx.TransportError from a trial: the one exception that is caught.
ProviderUnreachable ==
  /\ Aborted
  /\ todo # {}
  /\ WriteSidecar
  /\ UNCHANGED <<fileVars, todo, voids, outcome, damaged>>

\* Any other exception, or the death of the process between two writes: the
\* void tasks it has seen are forgotten.
Dies ==
  /\ Aborted
  /\ pc' = "off"
  /\ UNCHANGED <<fileVars, sidecar, todo, voids, outcome, damaged>>

\* The process dies inside _append_runs, with n rows to write: a prefix of
\* them is in the file, up to a piece of a row or a row without its newline.
DiesAppending(t, n) ==
  /\ Aborted
  /\ Current(t)
  /\ \E lines \in 0 .. n - 1, piece \in {Clean, Fragment, t} :
       /\ <<lines, piece>> # <<0, Clean>>
       /\ Write(t, lines, piece)
  /\ pc' = "off"
  /\ outcome' = [outcome EXCEPT ![t] = IF n = K THEN "ok" ELSE "void"]
  /\ damaged' = TRUE
  /\ UNCHANGED <<sidecar, todo, voids>>

\* The process dies after write_text has truncated the sidecar.
DiesWritingSidecar ==
  /\ Aborted
  /\ sidecar' = Sidecar("torn", {})
  /\ pc' = "off"
  /\ damaged' = TRUE
  /\ UNCHANGED <<fileVars, todo, voids, outcome>>

\* ... also when it was started with nothing left to run, and only rewrites it.
DiesRewritingSidecar ==
  /\ pc = "off" /\ Completed = Tasks
  /\ aborts < MaxAborts /\ aborts' = aborts + 1
  /\ sidecar' = Sidecar("torn", {})
  /\ damaged' = TRUE
  /\ UNCHANGED <<fileVars, pc, todo, voids, outcome>>

RunTask(t) == TaskScored(t) \/ \E n \in 0 .. K - 1 : TaskVoid(t, n)

Cut ==
  \/ ProviderUnreachable
  \/ Dies
  \/ \E t \in Tasks, n \in 1 .. K : DiesAppending(t, n)
  \/ DiesWritingSidecar
  \/ DiesRewritingSidecar

Next == Start \/ (\E t \in Tasks : RunTask(t)) \/ CorpusDone \/ Cut

\* Every task's loop ends (ReplacementTrials), so the process goes on; and
\* whoever runs the campaign starts it again after an abort, as the command
\* asks ("the corpus completes across retries").
Spec ==
  /\ Init
  /\ [][Next]_vars
  /\ WF_vars(CorpusDone \/ \E t \in Tasks : RunTask(t))
  /\ WF_vars(Start)
-----------------------------------------------------------------------------

\* Type invariant.
TypeOK ==
  /\ rows \in [Tasks -> Nat]
  /\ tail \in 0 .. N + 1
  /\ garbled \in BOOLEAN
  /\ sidecar \in [state : {"absent", "written", "torn"}, tasks : SUBSET Tasks]
  /\ pc \in {"off", "running"}
  /\ todo \in SUBSET Tasks
  /\ voids \in SUBSET Tasks
  /\ aborts \in 0 .. MaxAborts
  /\ outcome \in [Tasks -> {"none", "ok", "void"}]
  /\ damaged \in BOOLEAN

\* A task's rows are the runs of one attempt at the task: a resumed campaign
\* never runs a task again that has rows, so it never pools two attempts
\* into one score, not even after a write was cut in two.
NeverPooled ==
  /\ \A t \in Tasks : rows[t] <= K
  /\ pc = "running" => \A t \in todo : rows[t] = 0 /\ t \notin voids

\* A task the report scores did obtain its K valid runs the last time it was
\* tried; a task that tripped the accepted invalid rate is never scored, even
\* when the sidecar that named it was lost.
ScoredIsEarned ==
  \A t \in Tasks : Verdict(t) = "scored" => outcome[t] = "ok"

\* What the two files say of a task is final, as long as no process has died
\* inside a write.
Promise == INSTANCE CampaignPromise
             WITH verdict <- [t \in Tasks |-> Verdict(t)]
KeepsVerdicts == Promise!Spec

\* Even after one has, a scored task stays scored, or the report refuses the
\* files: it is never lost without a word.
NeverSilentlyLost ==
  [][Readable' => \A t \in Tasks : Verdict(t) = "scored" => Verdict(t)' = "scored"]_vars

\* "The corpus completes across retries": once the interruptions stop, every
\* task gets a verdict.
CorpusCompletes == <>[](\A t \in Tasks : Verdict(t) # "open")

\* _completed_dset_task_ids says: "a task_id present in the jsonl is fully
\* complete; void task ids (from the sidecar) are likewise done".
\* Here without the excuse of a write that was cut in two.
PresentIsComplete ==
  pc = "off" /\ ~damaged => \A t \in Tasks : rows[t] > 0 => rows[t] = K \/ t \in PriorVoids
=============================================================================
