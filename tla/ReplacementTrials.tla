------------------------- MODULE ReplacementTrials -------------------------
(***************************************************************************)
(* runners/multi_run.py: `run_trials_k_valid`, the replacement-trial loop  *)
(* every driver of the lab scores its tasks with.  A trial whose           *)
(* environment was broken is invalid: it is replaced, never scored.  The   *)
(* loop ends with K valid trials, or gives the task up as VOID.            *)
(*                                                                         *)
(* The float comparison invalid / (invalid + K) > max_invalid_rate is      *)
(* written with the rate as the fraction RateNum / RateDen.                *)
(***************************************************************************)
EXTENDS Integers, Sequences

CONSTANTS K,        \* k_valid
          RateNum,  \* max_invalid_rate = RateNum / RateDen
          RateDen,
          Runs,     \* what a trial can produce
          Unhealthy,\* the runs whose stop_reason is "env_unhealthy"
          Refuted,  \* the runs the driver's validity_fn answers False for
          Futures   \* lengths of continuation the promise is checked against

ASSUME TrialsAssumption ==
  /\ K \in Nat
  /\ RateNum \in Nat
  /\ RateDen \in Nat \ {0}
  /\ Unhealthy \subseteq Runs
  /\ Refuted \subseteq Runs
  /\ Futures \subseteq Nat
  /\ 0 \in Futures

VARIABLES attempts,       \* every TrialAttempt, in order
          valid_runs,     \* the banked runs
          invalid_count,
          attempt_index,
          status          \* how the call stands

vars == <<attempts, valid_runs, invalid_count, attempt_index, status>>

\* `_is_invalid`: the environment was unhealthy, or the validity function
\* answers False.
IsInvalid(run) == run \in Unhealthy \/ run \in Refuted

\* The best final invalid rate still achievable is above the threshold.
RateExceeded(bad) == bad * RateDen > RateNum * (bad + K)

\* Mutants of StatusAfter: the share taken over the trials still to run rather
\* than over all of them; the K-th valid trial overlooked; the share never
\* looked at.
StatusAfterRemainingOnly(banked, bad) ==
  IF banked = K THEN "completed"
  ELSE IF bad * RateDen > RateNum * (bad + K - banked) THEN "void"
  ELSE "running"
StatusAfterShareFirst(banked, bad) ==
  IF bad * RateDen > RateNum * (bad + banked) THEN "void"
  ELSE IF banked = K THEN "completed"
  ELSE "running"
StatusAfterNoVoid(banked, bad) ==
  IF banked = K THEN "completed" ELSE "running"

\* What the loop does after a trial: leave with K valid runs, return VOID, or
\* go round again.
StatusAfter(banked, bad) ==
  IF banked = K THEN "completed"
  ELSE IF RateExceeded(bad) THEN "void"
  ELSE "running"

Init ==
  /\ attempts = <<>>
  /\ valid_runs = <<>>
  /\ invalid_count = 0
  /\ attempt_index = 0
  /\ status = IF K = 0 THEN "completed" ELSE "running"

Attempted(run) ==
  Append(attempts, [attempt_index |-> attempt_index,
                    valid |-> ~IsInvalid(run),
                    run |-> run])

\* Mutant: the banked run is numbered by its place among the valid ones.
BankTrialRenumbered(run) ==
  /\ status = "running"
  /\ ~IsInvalid(run)
  /\ attempts' = Attempted(run)
  /\ valid_runs' =
       Append(valid_runs, [run_index |-> Len(valid_runs), run |-> run])
  /\ attempt_index' = attempt_index + 1
  /\ UNCHANGED invalid_count
  /\ status' = StatusAfter(Len(valid_runs'), invalid_count)

\* trial_fn(attempt_index) returned a valid run: it is banked.
BankTrial(run) ==
  /\ status = "running"
  /\ ~IsInvalid(run)
  /\ attempts' = Attempted(run)
  /\ valid_runs' = Append(valid_runs, [run_index |-> attempt_index, run |-> run])
  /\ attempt_index' = attempt_index + 1
  /\ UNCHANGED invalid_count
  /\ status' = StatusAfter(Len(valid_runs'), invalid_count)

\* Mutant: a replacement starts the task over.
ReplaceTrialStartsOver(run) ==
  /\ status = "running"
  /\ IsInvalid(run)
  /\ attempts' = <<>>
  /\ valid_runs' = <<>>
  /\ invalid_count' = 0
  /\ attempt_index' = 0
  /\ UNCHANGED status

\* It returned an invalid one: a replacement runs, unless none can help.
ReplaceTrial(run) ==
  /\ status = "running"
  /\ IsInvalid(run)
  /\ attempts' = Attempted(run)
  /\ invalid_count' = invalid_count + 1
  /\ attempt_index' = attempt_index + 1
  /\ UNCHANGED valid_runs
  /\ status' = StatusAfter(Len(valid_runs), invalid_count')

\* trial_fn raised (the provider is unreachable, an executor is missing): the
\* exception leaves the loop and what was banked goes with it.
TrialRaises ==
  /\ status = "running"
  /\ status' = "raised"
  /\ UNCHANGED <<attempts, valid_runs, invalid_count, attempt_index>>

Next ==
  \/ \E run \in Runs : BankTrial(run) \/ ReplaceTrial(run)
  \/ TrialRaises

Spec == Init /\ [][Next]_vars

-----------------------------------------------------------------------------

Attempt == [attempt_index : Nat, valid : BOOLEAN, run : Runs]
Banked  == [run_index : Nat, run : Runs]

\* Type invariant: the values the loop's locals take; the counters are the
\* counts they stand for, so no attempt is lost or counted twice.
TypeOK ==
  /\ attempts \in Seq(Attempt)
  /\ valid_runs \in Seq(Banked)
  /\ invalid_count \in Nat
  /\ attempt_index \in Nat
  /\ status \in {"running", "completed", "void", "raised"}
  /\ attempt_index = Len(attempts)
  /\ Len(valid_runs) + invalid_count = Len(attempts)

\* The banked runs are exactly the attempts recorded valid: each stands under
\* the index it was attempted with, in the order the attempts ran whatever was
\* replaced between them, none came out of a broken environment, and no valid
\* attempt is missing.
BankedAreValidAttempts ==
  /\ \A i \in 1 .. Len(valid_runs) :
       LET banked == valid_runs[i]
       IN  /\ banked.run_index < Len(attempts)
           /\ attempts[banked.run_index + 1].valid
           /\ attempts[banked.run_index + 1].run = banked.run
           /\ ~IsInvalid(banked.run)
           /\ \A j \in 1 .. i - 1 : valid_runs[j].run_index < banked.run_index
  /\ \A a \in 1 .. Len(attempts) :
       attempts[a].valid =>
         \E i \in 1 .. Len(valid_runs) : valid_runs[i].run_index = a - 1

\* A task is scored over exactly K valid runs, and then the share of invalid
\* attempts among all attempts made is within the accepted rate.
ScoredWithinTolerance ==
  status = "completed" =>
    /\ Len(valid_runs) = K
    /\ invalid_count * RateDen <= RateNum * Len(attempts)

\* A task is given up only when it is short of K valid runs and no way of
\* finishing it, with however many more invalid trials, could be accepted;
\* and it is given up as soon as that is so.
VoidExactlyWhenHopeless ==
  LET hopeless == \A more \in Futures : RateExceeded(invalid_count + more)
  IN  /\ status = "void" => hopeless /\ Len(valid_runs) < K
      /\ status = "running" => ~hopeless

\* The promise of the abstract specification, reached by one inequality.
Promise == INSTANCE KValidPromise WITH
             banked  <- Len(valid_runs),
             wasted  <- invalid_count,
             verdict <- CASE status = "running"   -> "pending"
                          [] status = "completed" -> "scored"
                          [] status = "void"      -> "void"
                          [] OTHER                -> "aborted"

\* The loop implements the promise.
KeepsPromise == Promise!Spec

\* With an accepted rate below one the loop makes a bounded number of
\* attempts: each invalid one uses up tolerance that K valid runs leave.
AttemptBudget ==
  RateNum < RateDen =>
    invalid_count * (RateDen - RateNum) <= RateNum * K + (RateDen - RateNum)

\* ... so a call of the loop whose trials return comes to an end.
Terminates == (RateNum < RateDen) => <>(status # "running")
=============================================================================
