--------------------------- MODULE KValidPromise ---------------------------
(***************************************************************************)
(* What `run_trials_k_valid` promises to its callers, stated without its   *)
(* loop: a task is scored over exactly K valid trials, within the accepted *)
(* share of invalid ones, and it is given up only when no continuation     *)
(* whatsoever could still be scored.                                       *)
(*                                                                         *)
(* The promise quantifies over futures ("no continuation"), the program    *)
(* computes one inequality: ReplacementTrials is shown to implement this.  *)
(***************************************************************************)
EXTENDS Integers

CONSTANTS K,        \* valid trials a score is taken over
          RateNum,  \* the accepted invalid share is RateNum / RateDen
          RateDen,
          Futures   \* how many further invalid trials a continuation may have

VARIABLES banked, wasted, verdict

promiseVars == <<banked, wasted, verdict>>

\* `bad` invalid trials next to `good` valid ones stay within the share.
Within(bad, good) == bad * RateDen <= RateNum * (bad + good)

\* Some continuation of a task with `bad` invalid trials can be scored.
Reachable(bad) == \E more \in Futures : Within(bad + more, K)

Judge(good, bad) ==
  IF good = K THEN "scored"
  ELSE IF Reachable(bad) THEN "pending"
  ELSE "void"

Init ==
  /\ banked = 0
  /\ wasted = 0
  /\ verdict = IF K = 0 THEN "scored" ELSE "pending"

Bank ==
  /\ verdict = "pending"
  /\ banked' = banked + 1
  /\ wasted' = wasted
  /\ verdict' = Judge(banked', wasted')

Waste ==
  /\ verdict = "pending"
  /\ wasted' = wasted + 1
  /\ banked' = banked
  /\ verdict' = Judge(banked', wasted')

\* The trial producer raised: the task yields no verdict at all.
Abort ==
  /\ verdict = "pending"
  /\ verdict' = "aborted"
  /\ UNCHANGED <<banked, wasted>>

Next == Bank \/ Waste \/ Abort

Spec == Init /\ [][Next]_promiseVars
=============================================================================
