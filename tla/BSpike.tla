------------------------------- MODULE BSpike -------------------------------
(***************************************************************************)
(* The live B-set spike: `run-b` (cli.py) runs a model over the arms of    *)
(* one task, each to K valid trials (runners/b_live.py, over the loop of   *)
(* ReplacementTrials).  A trial is a candidate in a browser session of its *)
(* own that is told to save a report under the trial's name.  The command  *)
(* records the trials without grades; the owner opens the saved objects,   *)
(* writes verdicts, and `report-b` joins the two.                          *)
(*                                                                         *)
(* External: the folder of the MicroStrategy server, the candidate, the    *)
(* owner.  One condition is modelled; its trials share the folder.         *)
(***************************************************************************)
EXTENDS Integers, Sequences, FiniteSets

CONSTANTS ArmOrder,    \* the arms of --arm both
          K, RateNum, RateDen,
          Pow,         \* the valid trials pass_pow_3 asks for
          MaxIndex,    \* bound: attempts of an arm, below
          MaxRuns,     \* bound: invocations of run-b
          MaxStuck     \* bound: registries whose close() may have done nothing

Arms == {ArmOrder[i] : i \in 1 .. Len(ArmOrder)}

ASSUME SpikeAssumption ==
  /\ ArmOrder \in Seq(Arms) /\ ArmOrder # <<>>
  /\ \A i, j \in DOMAIN ArmOrder : ArmOrder[i] = ArmOrder[j] => i = j
  /\ K \in Nat \ {0} /\ Pow \in Nat \ {0}
  /\ RateNum \in Nat /\ RateDen \in Nat \ {0} /\ RateNum < RateDen
  /\ MaxIndex \in Nat /\ MaxRuns \in Nat /\ MaxStuck \in Nat

VARIABLES attempts, valid_runs, invalid_count, attempt_index, status,
          pc,        \* "off", or "arm": the first arm of todo is being run
          todo,      \* arms still to run
          driver,    \* --driver
          run,       \* invocations so far
          ended,     \* the last of them returned, it was not killed
          recorded,  \* all_trials: what the verdict sheet will list
          files,     \* trials-b-*.jsonl of each arm
          sheet,     \* the verdict sheet on disk
          verdicts,  \* the owner's verdicts file
          folder,    \* the objects on the server, by name
          leftover,  \* browser registries that still list a session
          attached,  \* history: a trial found another one's session listed
          unclean,   \* history: a trial was killed, or its close() did nothing
          uncleared  \* history: the last run began over the remains of another

trialVars   == <<attempts, valid_runs, invalid_count, attempt_index, status>>
processVars == <<pc, todo, driver, run, ended, recorded>>
diskVars    == <<files, sheet, verdicts>>
sessionVars == <<leftover, attached, unclean>>
vars == <<trialVars, processVars, diskVars, folder, sessionVars, uncleared>>

-----------------------------------------------------------------------------
(* The trials.                                                             *)

\* How a trial may end: the model had its say (a run cut at its budget
\* included), the provider or the claude process failed, or the provider
\* refused the account (401, 403).
Kinds == {"fair", "provider_error", "blocked"}

\* The chat driver alone records an HTTP status.
KindsOf(d) == IF d = "chat" THEN Kinds ELSE Kinds \ {"blocked"}

\* classify_invalid.
Invalid == {"provider_error", "blocked"}

Trials == INSTANCE ReplacementTrials
            WITH Runs <- Kinds, Unhealthy <- {}, Refuted <- Invalid, Futures <- {0}

\* Mutant: a run_uid that is not scoped to the task.
SaveNameOfIndex(arm, i) == <<ArmOrder[1], i>>

\* b_trial_run_uid and save_name_from_run_uid.
SaveName(arm, i) == <<arm, i>>

Names == Arms \X (0 .. MaxIndex)
NoObject == [arm |-> "none", run |-> 0]

\* The registry a trial's playwright-cli keeps its sessions in: a workdir of
\* its own (make_bash_executor), or the account's.
Registry(arm, i) == IF driver = "chat" THEN SaveName(arm, i) ELSE <<"account", 0>>

Init ==
  /\ Trials!Init
  /\ pc = "off" /\ todo = <<>> /\ driver \in {"chat", "claude"} /\ run = 0
  /\ ended = FALSE /\ recorded = {}
  /\ files = [a \in Arms |-> [run |-> 0, trials |-> <<>>]]
  /\ sheet = {} /\ verdicts = <<>>
  /\ folder = [n \in Names |-> NoObject]
  /\ leftover = {} /\ attached = FALSE /\ unclean = FALSE /\ uncleared = FALSE

FreshLoop ==
  /\ attempts' = <<>> /\ valid_runs' = <<>> /\ invalid_count' = 0
  /\ attempt_index' = 0 /\ status' = "running"

\* run-b is started, for both arms or for one.  The owner may have emptied the
\* folder and the verdicts file before; the command does not, nor does it look.
Start(arms) ==
  /\ pc = "off" /\ run < MaxRuns
  /\ run' = run + 1
  /\ pc' = "arm" /\ todo' = arms
  /\ ended' = FALSE /\ recorded' = {}
  /\ FreshLoop
  /\ \/ folder' = [n \in Names |-> NoObject] /\ verdicts' = <<>> /\ uncleared' = FALSE
     \/ UNCHANGED <<folder, verdicts>> /\ uncleared' = (run > 0)
  /\ UNCHANGED <<driver, files, sheet, sessionVars>>

\* What a candidate does in its session: it may save a report that meets the
\* checklist under its name, and it may open a browser, in whatever session of
\* its registry it finds.
Candidate(name, registry) ==
  /\ \E saves \in BOOLEAN :
       folder' = IF saves
                 THEN [folder EXCEPT ![name] = [arm |-> Head(todo), run |-> run]]
                 ELSE folder
  /\ attached' = (attached \/ registry \in leftover)

\* Mutant: close() of the chat driver asks the daemons and leaves the workdir.
CloseLeavesWorkdir(registry) ==
  /\ leftover' \in {leftover \ {registry}, leftover \cup {registry}}
  /\ UNCHANGED unclean

\* close() of the chat driver: the daemons of the registry are asked to stop,
\* then the workdir goes, and the registry with it.  Both are best effort, and
\* the session stays listed where both fail.  The claude driver removes its
\* workdir only, which holds no registry.
Close(registry) ==
  \/ /\ driver = "chat"
     /\ \E stopped, removed \in BOOLEAN :
          LET cleared == stopped \/ removed
          IN /\ cleared \/ Cardinality(leftover \cup {registry}) <= MaxStuck
             /\ leftover' = IF cleared THEN leftover \ {registry}
                            ELSE leftover \cup {registry}
             /\ unclean' = (unclean \/ ~cleared)
  \/ /\ driver = "claude"
     /\ leftover' \in {leftover, leftover \cup {registry}}
     /\ UNCHANGED unclean

InTrial(name, registry) ==
  /\ pc = "arm" /\ status = "running"
  /\ attempt_index <= MaxIndex
  /\ name = SaveName(Head(todo), attempt_index)
  /\ registry = Registry(Head(todo), attempt_index)

\* One attempt, recorded by the loop.
Trial(kind, name, registry) ==
  /\ InTrial(name, registry)
  /\ Candidate(name, registry)
  /\ Close(registry)
  /\ Trials!BankTrial(kind) \/ Trials!ReplaceTrial(kind)
  /\ UNCHANGED <<processVars, diskVars, uncleared>>

-----------------------------------------------------------------------------
(* The command.                                                            *)

\* emit_verdict_sheet: a row for every attempt.
Rows(arm, trials) == {<<arm, trials[j].attempt_index>> : j \in 1 .. Len(trials)}

\* Mutant: an abort skips the sheet.
EndsNoSheet(rows) ==
  /\ sheet' = IF Len(todo) = 1 THEN rows ELSE sheet
  /\ pc' = "off" /\ ended' = TRUE

Ends(rows) ==
  /\ sheet' = rows
  /\ pc' = "off" /\ ended' = TRUE

\* run_b_arm returned: its attempts replace the arm's file.  After the last
\* arm, or one with an attempt the provider refused, the command is over.
FinishArm ==
  /\ pc = "arm" /\ status \in {"completed", "void"}
  /\ LET arm == Head(todo)
     IN /\ files' = [files EXCEPT ![arm] = [run |-> run, trials |-> attempts]]
        /\ recorded' = recorded \cup Rows(arm, attempts)
  /\ IF Len(todo) = 1 \/ \E j \in 1 .. Len(attempts) : attempts[j].run = "blocked"
     THEN Ends(recorded') /\ UNCHANGED <<todo, trialVars>>
     ELSE todo' = Tail(todo) /\ FreshLoop /\ UNCHANGED <<pc, ended, sheet>>
  /\ UNCHANGED <<driver, run, verdicts, folder, sessionVars, uncleared>>

\* httpx.TransportError: the session is closed, the arm's attempts are lost.
Unreachable(name, registry) ==
  /\ driver = "chat"
  /\ InTrial(name, registry)
  /\ Candidate(name, registry)
  /\ Close(registry)
  /\ Ends(recorded)
  /\ UNCHANGED <<trialVars, todo, driver, run, recorded, files, verdicts, uncleared>>

\* The process is killed in a trial: nothing is closed.
Killed(name, registry) ==
  /\ InTrial(name, registry)
  /\ Candidate(name, registry)
  /\ leftover' = leftover \cup {registry}
  /\ unclean' = TRUE
  /\ pc' = "off"
  /\ UNCHANGED <<trialVars, todo, driver, run, ended, recorded, diskVars, uncleared>>

\* The owner goes through the sheet of a command that returned, and looks each
\* object up by its name.
OwnerJudges ==
  /\ pc = "off" /\ ended
  /\ verdicts' = [row \in sheet |->
                    IF folder[SaveName(row[1], row[2])] = NoObject
                    THEN "FAIL" ELSE "PASS"]
  /\ UNCHANGED <<trialVars, processVars, files, sheet, folder, sessionVars, uncleared>>

Next ==
  \/ Start(ArmOrder)
  \/ \E a \in Arms : Start(<<a>>)
  \/ \E name \in Names, registry \in Names \cup {<<"account", 0>>} :
       \/ \E kind \in KindsOf(driver) : Trial(kind, name, registry)
       \/ Unreachable(name, registry)
       \/ Killed(name, registry)
  \/ FinishArm
  \/ OwnerJudges

Spec == Init /\ [][Next]_vars
-----------------------------------------------------------------------------
(* report-b.                                                               *)

\* _verdict_for: invalid, or the owner's verdict, or invalid for want of one.
VerdictFor(arm, t) ==
  LET row == <<arm, t.attempt_index>>
  IN IF t.valid /\ row \in DOMAIN verdicts THEN verdicts[row] ELSE "INVALID"

With(arm, wanted) ==
  {j \in 1 .. Len(files[arm].trials) : VerdictFor(arm, files[arm].trials[j]) \in wanted}

\* Mutant: every trial of the file counts, not the judged ones.
PassPowOfAll(arm) == Len(files[arm].trials) >= Pow /\ With(arm, {"FAIL"}) = {}

\* pass_pow_3 of a row.
PassPow(arm) ==
  /\ Cardinality(With(arm, {"PASS", "FAIL"})) >= Pow
  /\ With(arm, {"PASS"}) = With(arm, {"PASS", "FAIL"})

-----------------------------------------------------------------------------

\* The sheet of a command that returned, aborted or not, has a row for every
\* trial the command left on disk, and for no other: what can be scored is
\* judged, and what is judged is in a file.
SheetCoversRun ==
  pc = "off" /\ ended =>
    sheet = UNION {Rows(a, files[a].trials) : a \in {b \in Arms : files[b].run = run}}

\* A pass counted by the report is that of a valid trial, and the object the
\* owner looked at is the one this very trial saved, of this arm and this run;
\* provided the run did not begin over the remains of another, which nothing in
\* the command sees to.
PassIsOwn ==
  ~uncleared => \A a \in Arms : \A j \in With(a, {"PASS"}) :
    LET t == files[a].trials[j]
    IN /\ t.valid
       /\ folder[SaveName(a, t.attempt_index)] = [arm |-> a, run |-> files[a].run]

\* An arm that passes at the power of Pow was not void: it has its K valid
\* trials, and their share is the accepted one.
PowIsPowered ==
  \A a \in Arms : PassPow(a) =>
    LET valid == {j \in 1 .. Len(files[a].trials) : files[a].trials[j].valid}
        bad == Len(files[a].trials) - Cardinality(valid)
    IN Cardinality(valid) = K /\ ~Trials!RateExceeded(bad)

\* A candidate finds another trial's browser session only under the claude
\* driver, or after a trial that was killed, or could neither stop its browsers
\* nor remove its registry: one of the two failing is not enough.
SessionIsOwn == attached => unclean \/ <<"account", 0>> \in leftover
=============================================================================
