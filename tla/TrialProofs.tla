----------------------------- MODULE TrialProofs -----------------------------
(***************************************************************************)
(* Theorems about a trial and about the loop that repeats it.              *)
(*                                                                         *)
(* ReplacementTrials, for every K, every accepted rate and every kind of   *)
(* trial: the inductive invariant adds to the type invariant the one fact  *)
(* the loop never states: as long as it runs, the invalid trials so far    *)
(* still fit the accepted share of a completion.                           *)
(*                                                                         *)
(* TicketTrial, for every world a task may begin with, whatever it is      *)
(* verified by and whatever the model calls: the inductive invariant       *)
(* IInv adds to the state the worlds the run went through, of which the    *)
(* program keeps the last.  What the log says is shown of one world after  *)
(* the other.                                                              *)
(***************************************************************************)
EXTENDS ReplacementTrials, TicketTrial, FiniteSetTheorems, FunctionTheorems,
        SequenceTheorems, WellFoundedInduction, TLAPS

-----------------------------------------------------------------------------
(* The replacement loop.                                                   *)

\* While the loop has not given up, the tolerance is not used up, and what
\* each way of leaving it implies about the counts.
Tolerance ==
  /\ status \in {"running", "completed"} => ~RateExceeded(invalid_count)
  /\ status = "running" => Len(valid_runs) < K
  /\ status = "completed" => Len(valid_runs) = K
  /\ status = "void" => RateExceeded(invalid_count) /\ Len(valid_runs) < K

\* The type invariant is inductive.
THEOREM TypeCorrect == Spec => []TypeOK
<1> USE TrialsAssumption
<1>1. Init => TypeOK
  BY DEF Init, TypeOK
<1>2. TypeOK /\ [Next]_vars => TypeOK'
  <2> SUFFICES ASSUME TypeOK, [Next]_vars PROVE TypeOK'
    OBVIOUS
  <2> USE DEF TypeOK
  <2>1. ASSUME NEW run \in Runs, BankTrial(run) PROVE TypeOK'
    <3>1. attempts' \in Seq(Attempt) /\ Len(attempts') = Len(attempts) + 1
      BY <2>1 DEF BankTrial, Attempted, Attempt, IsInvalid
    <3>2. /\ valid_runs' \in Seq(Banked)
          /\ Len(valid_runs') = Len(valid_runs) + 1
      BY <2>1 DEF BankTrial, Banked
    <3>3. Len(valid_runs) \in Nat /\ Len(attempts) \in Nat
      OBVIOUS
    <3>4. /\ attempt_index' = attempt_index + 1
          /\ invalid_count' = invalid_count
          /\ status' \in {"running", "completed", "void", "raised"}
      BY <2>1 DEF BankTrial, StatusAfter
    <3>5. QED
      BY <3>1, <3>2, <3>3, <3>4
  <2>2. ASSUME NEW run \in Runs, ReplaceTrial(run) PROVE TypeOK'
    <3>1. attempts' \in Seq(Attempt) /\ Len(attempts') = Len(attempts) + 1
      BY <2>2 DEF ReplaceTrial, Attempted, Attempt, IsInvalid
    <3>2. Len(valid_runs) \in Nat /\ Len(attempts) \in Nat
      OBVIOUS
    <3>3. /\ attempt_index' = attempt_index + 1
          /\ invalid_count' = invalid_count + 1
          /\ valid_runs' = valid_runs
          /\ status' \in {"running", "completed", "void", "raised"}
      BY <2>2 DEF ReplaceTrial, StatusAfter
    <3>4. QED
      BY <3>1, <3>2, <3>3
  <2>3. CASE TrialRaises
    BY <2>3 DEF TrialRaises
  <2>4. CASE UNCHANGED vars
    BY <2>4 DEF vars
  <2>5. QED
    BY <2>1, <2>2, <2>3, <2>4 DEF Next
<1>3. QED
  BY <1>1, <1>2, PTL DEF Spec

LEMMA ToleranceInvariant == Spec => []Tolerance
<1> USE TrialsAssumption
<1>1. Init => Tolerance
  BY DEF Init, Tolerance, RateExceeded
<1>2. TypeOK /\ Tolerance /\ [Next]_vars => Tolerance'
  <2> SUFFICES ASSUME TypeOK, Tolerance, [Next]_vars PROVE Tolerance'
    OBVIOUS
  <2>0. Len(valid_runs) \in Nat /\ invalid_count \in Nat
    BY DEF TypeOK
  <2>1. ASSUME NEW run \in Runs, BankTrial(run) PROVE Tolerance'
    <3>1. Len(valid_runs') = Len(valid_runs) + 1
      BY <2>1 DEF BankTrial, TypeOK
    <3>2. QED
      BY <2>0, <2>1, <3>1 DEF BankTrial, Tolerance, StatusAfter, RateExceeded
  <2>2. ASSUME NEW run \in Runs, ReplaceTrial(run) PROVE Tolerance'
    BY <2>0, <2>2 DEF ReplaceTrial, Tolerance, StatusAfter, RateExceeded
  <2>3. CASE TrialRaises
    BY <2>3 DEF TrialRaises, Tolerance, RateExceeded
  <2>4. CASE UNCHANGED vars
    BY <2>4 DEF vars, Tolerance, RateExceeded
  <2>5. QED
    BY <2>1, <2>2, <2>3, <2>4 DEF Next
<1>3. QED
  BY <1>1, <1>2, TypeCorrect, PTL DEF Spec

\* `run_trials_k_valid` scores a task over exactly K valid runs, with the
\* share of invalid attempts within the accepted rate, whatever K and the rate.
THEOREM ScoredOnlyWithinTolerance == Spec => []ScoredWithinTolerance
<1>1. TypeOK /\ Tolerance => ScoredWithinTolerance
  BY TrialsAssumption
     DEF TypeOK, Tolerance, ScoredWithinTolerance, RateExceeded
<1>2. QED
  BY <1>1, TypeCorrect, ToleranceInvariant, PTL

-----------------------------------------------------------------------------

\* What "hopeless" means: once the share is exceeded it stays exceeded in
\* every continuation, since a further invalid trial adds as much to the
\* number of invalid trials as to the number of trials.
LEMMA ExceededForGood ==
  ASSUME NEW bad \in Nat, NEW more \in Nat, RateExceeded(bad)
  PROVE  RateExceeded(bad + more)
<1> USE TrialsAssumption
<1>1. bad * RateDen > RateNum * bad + RateNum * K
  BY DEF RateExceeded
<1>2. RateNum * K \in Nat /\ bad * RateDen \in Nat /\ RateNum * bad \in Nat
  OBVIOUS
<1>3. RateNum < RateDen
  <2> SUFFICES ASSUME RateNum >= RateDen PROVE FALSE
    OBVIOUS
  <2>1. RateNum * bad >= RateDen * bad
    OBVIOUS
  <2>2. RateDen * bad = bad * RateDen
    OBVIOUS
  <2>3. QED
    BY <1>1, <1>2, <2>1, <2>2
<1>4. more * RateDen >= RateNum * more
  BY <1>3
<1>5. /\ (bad + more) * RateDen = bad * RateDen + more * RateDen
      /\ RateNum * (bad + more + K)
           = RateNum * bad + RateNum * more + RateNum * K
  OBVIOUS
<1>6. more * RateDen \in Nat /\ RateNum * more \in Nat
  OBVIOUS
<1>7. (bad + more) * RateDen > RateNum * (bad + more + K)
  BY <1>1, <1>2, <1>4, <1>5, <1>6
<1>8. QED
  BY <1>7 DEF RateExceeded

\* ... and it is exceeded in every continuation only if it is exceeded now,
\* because finishing without another invalid trial is one of them.
LEMMA HopelessIsExceeded ==
  ASSUME NEW bad \in Nat
  PROVE  (\A more \in Futures : RateExceeded(bad + more)) <=> RateExceeded(bad)
<1>1. ASSUME \A more \in Futures : RateExceeded(bad + more)
      PROVE  RateExceeded(bad)
  <2>1. RateExceeded(bad + 0)
    BY <1>1, TrialsAssumption
  <2>2. bad + 0 = bad
    OBVIOUS
  <2>3. QED
    BY <2>1, <2>2
<1>2. ASSUME RateExceeded(bad), NEW more \in Futures
      PROVE  RateExceeded(bad + more)
  BY <1>2, ExceededForGood, TrialsAssumption
<1>3. QED
  BY <1>1, <1>2

\* A task is VOID exactly when it is hopeless: it is given up at once, and
\* never while a completion within the accepted rate is still possible.
THEOREM VoidIsExact == Spec => []VoidExactlyWhenHopeless
<1>1. TypeOK /\ Tolerance => VoidExactlyWhenHopeless
  <2> SUFFICES ASSUME TypeOK, Tolerance PROVE VoidExactlyWhenHopeless
    OBVIOUS
  <2>1. (\A more \in Futures : RateExceeded(invalid_count + more))
          <=> RateExceeded(invalid_count)
    BY HopelessIsExceeded DEF TypeOK
  <2>2. QED
    BY <2>1 DEF Tolerance, VoidExactlyWhenHopeless
<1>2. QED
  BY <1>1, TypeCorrect, ToleranceInvariant, PTL

\* With an accepted rate below one, the number of replacements is bounded
\* whatever the environment does: the loop cannot go on for ever.
THEOREM AttemptsBounded == Spec => []AttemptBudget
<1> USE TrialsAssumption
<1> DEFINE Cost(bad) == bad * (RateDen - RateNum)
           Allow == RateNum * K
<1>1. ASSUME NEW bad \in Nat, RateNum < RateDen, ~RateExceeded(bad)
      PROVE  Cost(bad) <= Allow
  <2>1. bad * RateDen <= RateNum * (bad + K)
    BY <1>1 DEF RateExceeded
  <2>2. RateNum * (bad + K) = RateNum * bad + RateNum * K
    OBVIOUS
  <2>3. bad * (RateDen - RateNum) = bad * RateDen - RateNum * bad
    OBVIOUS
  <2>4. /\ bad * RateDen \in Nat
        /\ RateNum * bad \in Nat
        /\ RateNum * K \in Nat
    OBVIOUS
  <2>5. QED
    BY <2>1, <2>2, <2>3, <2>4
<1>2. Init => AttemptBudget
  <2> SUFFICES ASSUME Init, RateNum < RateDen
               PROVE  Cost(invalid_count) <= Allow + (RateDen - RateNum)
    BY DEF AttemptBudget
  <2>1. Cost(invalid_count) = 0
    BY DEF Init
  <2>2. Allow \in Nat
    OBVIOUS
  <2>3. QED
    BY <2>1, <2>2
<1>3. TypeOK /\ Tolerance /\ AttemptBudget /\ [Next]_vars => AttemptBudget'
  <2> SUFFICES ASSUME TypeOK, Tolerance, AttemptBudget, [Next]_vars,
                      RateNum < RateDen
               PROVE  Cost(invalid_count') <= Allow + (RateDen - RateNum)
    BY DEF AttemptBudget
  <2>1. ASSUME NEW run \in Runs, ReplaceTrial(run)
        PROVE  Cost(invalid_count') <= Allow + (RateDen - RateNum)
    <3>1. invalid_count \in Nat /\ ~RateExceeded(invalid_count)
      BY <2>1 DEF ReplaceTrial, Tolerance, TypeOK
    <3>2. Cost(invalid_count) <= Allow
      BY <1>1, <3>1
    <3>3. Cost(invalid_count + 1) = Cost(invalid_count) + (RateDen - RateNum)
      BY <3>1
    <3>4. invalid_count' = invalid_count + 1
      BY <2>1 DEF ReplaceTrial
    <3>5. Cost(invalid_count) \in Int /\ Allow \in Int
      BY <3>1
    <3> HIDE DEF Cost, Allow
    <3>6. QED
      BY <3>2, <3>3, <3>4, <3>5
  <2>2. CASE UNCHANGED invalid_count
    BY <2>2 DEF AttemptBudget
  <2>3. QED
    BY <2>1, <2>2 DEF Next, BankTrial, TrialRaises, vars
<1>4. QED
  BY <1>2, <1>3, TypeCorrect, ToleranceInvariant, PTL DEF Spec

\* The banked runs are the valid attempts, one for one, under their own
\* indices and in the order they ran.
THEOREM BankedRuns == Spec => []BankedAreValidAttempts
<1>1. Init => BankedAreValidAttempts
  BY DEF Init, BankedAreValidAttempts
<1>2. TypeOK /\ BankedAreValidAttempts /\ [Next]_vars
        => BankedAreValidAttempts'
  <2> SUFFICES ASSUME TypeOK, BankedAreValidAttempts, [Next]_vars
               PROVE  BankedAreValidAttempts'
    OBVIOUS
  <2> DEFINE New(run) == [attempt_index |-> attempt_index,
                          valid |-> ~IsInvalid(run), run |-> run]
  <2>0. /\ Len(attempts) \in Nat
        /\ Len(valid_runs) \in Nat
        /\ \A i \in 1 .. Len(valid_runs) : valid_runs[i].run_index \in Nat
    <3>1. /\ Len(attempts) \in Nat
          /\ Len(valid_runs) \in Nat
          /\ \A i \in 1 .. Len(valid_runs) : valid_runs[i] \in Banked
      BY DEF TypeOK
    <3>2. QED
      BY <3>1 DEF Banked
  <2>a. ASSUME NEW i \in 1 .. Len(valid_runs)
        PROVE  /\ valid_runs[i].run_index + 1 \in 1 .. Len(attempts)
               /\ attempts[valid_runs[i].run_index + 1].valid
               /\ attempts[valid_runs[i].run_index + 1].run
                    = valid_runs[i].run
               /\ ~IsInvalid(valid_runs[i].run)
               /\ valid_runs[i].run_index < Len(attempts)
               /\ \A j \in 1 .. i - 1 :
                    valid_runs[j].run_index < valid_runs[i].run_index
    BY <2>0 DEF BankedAreValidAttempts
  <2>1. ASSUME NEW run \in Runs, attempts' = Append(attempts, New(run))
        PROVE  /\ Len(attempts') = Len(attempts) + 1
               /\ \A a \in 1 .. Len(attempts) : attempts'[a] = attempts[a]
               /\ attempts'[Len(attempts) + 1] = New(run)
    BY <2>1 DEF TypeOK
  <2>2. ASSUME NEW run \in Runs, BankTrial(run)
        PROVE  BankedAreValidAttempts'
    <3> DEFINE last == [run_index |-> attempt_index, run |-> run]
    <3>1. attempts' = Append(attempts, New(run)) /\ ~IsInvalid(run)
      BY <2>2 DEF BankTrial, Attempted
    <3>0. /\ Len(attempts') = Len(attempts) + 1
          /\ \A a \in 1 .. Len(attempts) : attempts'[a] = attempts[a]
          /\ attempts'[Len(attempts) + 1] = New(run)
      BY <2>1, <3>1
    <3>2. /\ Len(valid_runs') = Len(valid_runs) + 1
          /\ \A i \in 1 .. Len(valid_runs) : valid_runs'[i] = valid_runs[i]
          /\ valid_runs'[Len(valid_runs) + 1] = last
      BY <2>2 DEF BankTrial, TypeOK
    <3>3. attempt_index = Len(attempts)
      BY DEF TypeOK
    <3>4. ASSUME NEW i \in 1 .. Len(valid_runs')
          PROVE  /\ valid_runs'[i].run_index < Len(attempts')
                 /\ attempts'[valid_runs'[i].run_index + 1].valid
                 /\ attempts'[valid_runs'[i].run_index + 1].run
                      = valid_runs'[i].run
                 /\ ~IsInvalid(valid_runs'[i].run)
                 /\ \A j \in 1 .. i - 1 :
                      valid_runs'[j].run_index < valid_runs'[i].run_index
      <4>1. CASE i = Len(valid_runs) + 1
        <5>1. valid_runs'[i] = last /\ attempts'[Len(attempts) + 1] = New(run)
          BY <3>0, <3>2, <4>1
        <5>2. \A j \in 1 .. i - 1 : valid_runs'[j].run_index < Len(attempts)
          BY <2>0, <2>a, <3>2, <4>1
        <5>3. QED
          <6>1. /\ valid_runs'[i].run_index = Len(attempts)
                /\ valid_runs'[i].run = run
            BY <3>3, <5>1
          <6>2. attempts'[Len(attempts) + 1].run = run
            BY <5>1
          <6>3. attempts'[Len(attempts) + 1].valid
            <7>1. New(run).valid = TRUE
              BY <3>1
            <7>2. QED
              BY <5>1, <7>1
          <6>4. QED
            BY <2>0, <3>0, <3>1, <5>2, <6>1, <6>2, <6>3
      <4>2. CASE i \in 1 .. Len(valid_runs)
        <5>1. \A j \in 1 .. i : valid_runs'[j] = valid_runs[j]
          BY <2>0, <3>2, <4>2
        <5>2. valid_runs'[i] = valid_runs[i]
          BY <2>0, <5>1, <4>2
        <5>3. attempts'[valid_runs[i].run_index + 1]
                = attempts[valid_runs[i].run_index + 1]
          BY <2>a, <3>0, <4>2
        <5>4. ASSUME NEW j \in 1 .. i - 1
              PROVE  valid_runs'[j].run_index < valid_runs'[i].run_index
          <6>1. j \in 1 .. i /\ i \in Nat
            BY <2>0, <4>2
          <6>2. valid_runs'[j] = valid_runs[j]
            BY <5>1, <6>1
          <6>3. QED
            BY <2>a, <4>2, <5>2, <6>2
        <5>5. QED
          BY <2>0, <2>a, <3>0, <4>2, <5>2, <5>3, <5>4
      <4>3. QED
        BY <2>0, <3>2, <4>1, <4>2
    <3>5. ASSUME NEW a \in 1 .. Len(attempts'), attempts'[a].valid
          PROVE  \E i \in 1 .. Len(valid_runs') :
                   valid_runs'[i].run_index = a - 1
      <4>1. CASE a = Len(attempts) + 1
        BY <2>0, <3>2, <3>3, <4>1
      <4>2. CASE a \in 1 .. Len(attempts)
        <5>1. attempts[a].valid
          BY <3>0, <3>5, <4>2
        <5>2. PICK i \in 1 .. Len(valid_runs) : valid_runs[i].run_index = a - 1
          BY <4>2, <5>1 DEF BankedAreValidAttempts
        <5>3. QED
          BY <2>0, <3>2, <5>2
      <4>3. QED
        BY <2>0, <3>0, <4>1, <4>2
    <3>6. QED
      BY <3>4, <3>5 DEF BankedAreValidAttempts, IsInvalid
  <2>3. ASSUME NEW run \in Runs, ReplaceTrial(run)
        PROVE  BankedAreValidAttempts'
    <3>1. /\ attempts' = Append(attempts, New(run))
          /\ ~New(run).valid
          /\ valid_runs' = valid_runs
      BY <2>3 DEF ReplaceTrial, Attempted
    <3>2. /\ Len(attempts') = Len(attempts) + 1
          /\ \A a \in 1 .. Len(attempts) : attempts'[a] = attempts[a]
          /\ ~attempts'[Len(attempts) + 1].valid
      BY <2>1, <3>1
    <3>3. ASSUME NEW i \in 1 .. Len(valid_runs)
          PROVE  /\ valid_runs[i].run_index < Len(attempts')
                 /\ attempts'[valid_runs[i].run_index + 1].valid
                 /\ attempts'[valid_runs[i].run_index + 1].run
                      = valid_runs[i].run
      BY <2>0, <2>a, <3>2
    <3>4. ASSUME NEW a \in 1 .. Len(attempts'), attempts'[a].valid
          PROVE  \E i \in 1 .. Len(valid_runs) :
                   valid_runs[i].run_index = a - 1
      BY <2>0, <3>2, <3>4 DEF BankedAreValidAttempts
    <3>5. QED
      BY <2>a, <3>1, <3>3, <3>4 DEF BankedAreValidAttempts, IsInvalid
  <2>4. CASE UNCHANGED <<attempts, valid_runs>>
    BY <2>4 DEF BankedAreValidAttempts, IsInvalid
  <2>5. QED
    BY <2>2, <2>3, <2>4 DEF Next, TrialRaises, vars
<1>3. QED
  BY <1>1, <1>2, TypeCorrect, PTL DEF Spec

\* The loop implements the promise: every behaviour of `run_trials_k_valid`
\* is one of KValidPromise, whose verdicts quantify over all continuations.
THEOREM LoopKeepsPromise == Spec => KeepsPromise
<1> DEFINE Verdict(s) == CASE s = "running"   -> "pending"
                           [] s = "completed" -> "scored"
                           [] s = "void"      -> "void"
                           [] OTHER           -> "aborted"
<1> USE TrialsAssumption
<1>1. ASSUME NEW bad \in Nat
      PROVE  Promise!Reachable(bad) <=> ~RateExceeded(bad)
  <2>1. ASSUME NEW more \in Futures
        PROVE  Promise!Within(bad + more, K) <=> ~RateExceeded(bad + more)
    <3>1. /\ (bad + more) * RateDen \in Int
          /\ RateNum * (bad + more + K) \in Int
      OBVIOUS
    <3>2. QED
      BY <3>1 DEF Promise!Within, RateExceeded
  <2>2. QED
    BY <2>1, HopelessIsExceeded DEF Promise!Reachable
<1>2. ASSUME NEW good \in Nat, NEW bad \in Nat
      PROVE  Promise!Judge(good, bad) = Verdict(StatusAfter(good, bad))
  BY <1>1 DEF Promise!Judge, StatusAfter
<1>3. Init => Promise!Init
  BY DEF Init, Promise!Init
<1>4. TypeOK /\ [Next]_vars => [Promise!Next]_(Promise!promiseVars)
  <2> SUFFICES ASSUME TypeOK, [Next]_vars
               PROVE  [Promise!Next]_(Promise!promiseVars)
    OBVIOUS
  <2>0. /\ Len(valid_runs) \in Nat /\ invalid_count \in Nat
        /\ status \in {"running", "completed", "void", "raised"}
    BY DEF TypeOK
  <2>1. ASSUME NEW run \in Runs, BankTrial(run) PROVE Promise!Bank
    <3>1. Len(valid_runs') = Len(valid_runs) + 1
      BY <2>1 DEF BankTrial, TypeOK
    <3>2. Promise!Judge(Len(valid_runs'), invalid_count') = Verdict(status')
      BY <1>2, <2>0, <2>1, <3>1 DEF BankTrial
    <3>3. QED
      BY <2>0, <2>1, <3>1, <3>2 DEF BankTrial, Promise!Bank
  <2>2. ASSUME NEW run \in Runs, ReplaceTrial(run) PROVE Promise!Waste
    <3>1. Promise!Judge(Len(valid_runs'), invalid_count') = Verdict(status')
      BY <1>2, <2>0, <2>2 DEF ReplaceTrial
    <3>2. QED
      BY <2>0, <2>2, <3>1 DEF ReplaceTrial, Promise!Waste
  <2>3. CASE TrialRaises
    BY <2>3 DEF TrialRaises, Promise!Next, Promise!Abort
  <2>4. CASE UNCHANGED vars
    BY <2>4 DEF vars, Promise!promiseVars
  <2>5. QED
    BY <2>1, <2>2, <2>3, <2>4 DEF Next, Promise!Next
<1>5. QED
  BY <1>3, <1>4, TypeCorrect, PTL DEF Spec, KeepsPromise, Promise!Spec

-----------------------------------------------------------------------------
(* Numbers.                                                                *)

\* Numbers have a least among them.
LEMMA LeastNatural ==
  ASSUME NEW S \in SUBSET Nat, S # {}
  PROVE  \E x \in S : \A y \in S : x <= y
<1> DEFINE R == OpToRel(<, Nat)
<1>1. IsWellFoundedOn(R, Nat)
  BY NatLessThanWellFounded
<1>2. \A x, y \in Nat : <<x, y>> \in R <=> x < y
  BY DEF OpToRel
<1> HIDE DEF R
<1>3. PICK x \in S : \A y \in S : ~(<<y, x>> \in R)
  BY <1>1, WFMin
<1>4. ASSUME NEW y \in S PROVE x <= y
  <2>1. x \in Nat /\ y \in Nat
    OBVIOUS
  <2>2. ~(y < x)
    BY <1>2, <1>3, <2>1
  <2>3. QED
    BY <2>1, <2>2
<1>5. QED
  BY <1>4

\* A set of numbers that has 0, and with a number below n the next, has all
\* of 0 .. n.
LEMMA UpTo ==
  ASSUME NEW n \in Nat, NEW S, 0 \in S,
         \A i \in 0 .. n - 1 : i \in S => i + 1 \in S
  PROVE  0 .. n \subseteq S
<1> SUFFICES ASSUME (0 .. n) \ S # {} PROVE FALSE
  OBVIOUS
<1>1. (0 .. n) \ S \in SUBSET Nat
  OBVIOUS
<1>2. PICK x \in (0 .. n) \ S : \A y \in (0 .. n) \ S : x <= y
  BY <1>1, LeastNatural
<1>3. x # 0 /\ x \in Nat
  BY <1>2
<1>4. x - 1 \in 0 .. n - 1 /\ x - 1 \in 0 .. n /\ x - 1 < x
  BY <1>2, <1>3
<1>5. x - 1 \in S
  BY <1>2, <1>4
<1>6. x - 1 + 1 = x
  BY <1>3
<1>7. QED
  BY <1>2, <1>4, <1>5, <1>6

-----------------------------------------------------------------------------
(* What a request carries.                                                 *)

\* One element paired with each of a set's.
LEMMA OneByMany ==
  ASSUME NEW x, NEW T, IsFiniteSet(T)
  PROVE  IsFiniteSet({x} \X T) /\ Cardinality({x} \X T) = Cardinality(T)
<1>1. IsFiniteSet({x}) /\ Cardinality({x}) = 1
  BY FS_Singleton
<1> DEFINE one == {x}
<1> HIDE DEF one
<1>2. IsFiniteSet(one \X T) /\ Cardinality(one \X T) = Cardinality(one) * Cardinality(T)
  BY <1>1, FS_Product DEF one
<1>3. Cardinality(T) \in Nat
  BY FS_CardinalityType
<1>4. QED
  BY <1>1, <1>2, <1>3 DEF one

\* A result more makes the results as much longer as it is.
LEMMA OneResultMore ==
  ASSUME NEW S, NEW s, NEW j, j \notin S, s[j] \in Nat,
         IsFiniteSet(Trim!Marks([k \in S |-> s[k]]))
  PROVE  /\ Trim!SizeOf(S \cup {j}, s) = Trim!SizeOf(S, s) + s[j]
         /\ Trim!SizeOf(S, s) \in Nat
         /\ IsFiniteSet(Trim!Marks([k \in S \cup {j} |-> s[k]]))
<1> DEFINE old == Trim!Marks([k \in S |-> s[k]])
           new == {j} \X (1 .. s[j])
           all == Trim!Marks([k \in S \cup {j} |-> s[k]])
<1>1. all = old \cup new
  BY DEF Trim!Marks
<1>2. old \cap new = {}
  BY DEF Trim!Marks
<1>3. IsFiniteSet(new) /\ Cardinality(new) = s[j]
  <2>1. IsFiniteSet({j}) /\ Cardinality({j}) = 1
    BY FS_Singleton
  <2>2. IsFiniteSet(1 .. s[j]) /\ Cardinality(1 .. s[j]) = s[j]
    <3>1. 1 \in Int /\ s[j] \in Int /\ (1 > s[j] => s[j] = 0)
      OBVIOUS
    <3>2. /\ IsFiniteSet(1 .. s[j])
          /\ Cardinality(1 .. s[j]) = IF 1 > s[j] THEN 0 ELSE s[j] - 1 + 1
      BY <3>1, FS_Interval
    <3>3. QED
      BY <3>1, <3>2
  <2> DEFINE T == 1 .. s[j]
  <2> HIDE DEF T
  <2>3. IsFiniteSet({j} \X T) /\ Cardinality({j} \X T) = Cardinality(T)
    BY <2>2, OneByMany DEF T
  <2>4. QED
    BY <2>2, <2>3 DEF T
<1> HIDE DEF old, new, all
<1>4. IsFiniteSet(old)
  BY DEF old
<1>5. /\ IsFiniteSet(old \cup new)
      /\ Cardinality(old \cup new) =
           Cardinality(old) + Cardinality(new) - Cardinality(old \cap new)
  BY <1>3, <1>4, FS_Union
<1>6. Cardinality(old \cap new) = 0 /\ Cardinality(old) \in Nat
  <2>1. IsFiniteSet({}) /\ Cardinality({}) = 0
    BY FS_EmptySet
  <2>2. Cardinality(old) \in Nat
    BY <1>4, FS_CardinalityType
  <2>3. QED
    BY <1>2, <2>1, <2>2
<1>7. Cardinality(all) = Cardinality(old) + s[j] /\ IsFiniteSet(all)
  BY <1>1, <1>2, <1>3, <1>5, <1>6
<1>8. Trim!SizeOf(S, s) = Cardinality(old) /\ Trim!SizeOf(S \cup {j}, s) = Cardinality(all)
  BY DEF Trim!SizeOf, Trim!Total, Trim!Cardinality, Cardinality, old, all
<1>9. QED
  BY <1>6, <1>7, <1>8 DEF all

\* The walk of the trim, newest result first, does what each of its steps says.
Walk(s, n, G) ==
  /\ G[0] = {}
  /\ \A i \in 1 .. n :
       G[i] = IF i = 1 \/ Trim!SizeOf(G[i - 1], s) + s[n + 1 - i] <= Budget
              THEN G[i - 1] \cup {n + 1 - i} ELSE G[i - 1]

\* The trim is such a walk.
LEMMA WalkExists ==
  ASSUME NEW s, NEW n \in Nat, n = Len(s)
  PROVE  \E G : Walk(s, n, G) /\ Trim!Kept(s) = G[n]
<1> DEFINE Step(G, i) == IF i = 1 \/ Trim!SizeOf(G[i - 1], s) + s[n + 1 - i] <= Budget
                         THEN G[i - 1] \cup {n + 1 - i} ELSE G[i - 1]
           Eq(G) == G = [i \in 0 .. n |-> IF i = 0 THEN {} ELSE Step(G, i)]
           Upto(G, m) == G[0] = {} /\ \A i \in 1 .. m : G[i] = Step(G, i)
           S == {m \in 0 .. n : \E G : Upto(G, m)}
<1>1. 0 \in S
  <2>1. Upto([i \in {0} |-> {}], 0)
    OBVIOUS
  <2> HIDE DEF Upto
  <2>2. 0 \in 0 .. n
    OBVIOUS
  <2>3. QED
    BY <2>1, <2>2
<1>2. ASSUME NEW m \in 0 .. n - 1, m \in S PROVE m + 1 \in S
  <2>1. PICK G : Upto(G, m)
    BY <1>2
  <2> DEFINE L == [i \in 0 .. m + 1 |-> IF i = m + 1 THEN Step(G, m + 1) ELSE G[i]]
  <2>2. \A i \in 0 .. m : L[i] = G[i]
    OBVIOUS
  <2>3. L[m + 1] = Step(G, m + 1)
    OBVIOUS
  <2> HIDE DEF L
  <2>4. ASSUME NEW i \in 1 .. m + 1 PROVE L[i] = Step(L, i)
    <3>1. i - 1 \in 0 .. m
      OBVIOUS
    <3>2. L[i - 1] = G[i - 1]
      BY <2>2, <3>1
    <3>3. Step(L, i) = Step(G, i)
      BY <3>2
    <3>4. CASE i = m + 1
      BY <2>3, <3>3, <3>4
    <3>5. CASE i # m + 1
      <4>1. i \in 1 .. m /\ i \in 0 .. m
        BY <3>5
      <4>2. G[i] = Step(G, i)
        BY <2>1, <4>1
      <4>3. L[i] = G[i]
        BY <2>2, <4>1
      <4> HIDE DEF Step
      <4>4. QED
        BY <3>3, <4>2, <4>3
    <3>6. QED
      BY <3>4, <3>5
  <2>5. L[0] = {}
    BY <2>1, <2>2
  <2> HIDE DEF Step
  <2>6. Upto(L, m + 1)
    BY <2>4, <2>5
  <2> HIDE DEF Upto
  <2>7. m + 1 \in 0 .. n
    OBVIOUS
  <2>8. QED
    BY <2>6, <2>7
<1>3. n \in S
  <2> HIDE DEF S
  <2>1. 0 .. n \subseteq S
    BY <1>1, <1>2, UpTo
  <2>2. QED
    BY <2>1
<1>4. PICK G : Upto(G, n)
  BY <1>3
<1> DEFINE L == [i \in 0 .. n |-> G[i]]
<1>5. Eq(L)
  <2>1. \A i \in 0 .. n : L[i] = G[i]
    OBVIOUS
  <2>2. ASSUME NEW i \in 0 .. n
        PROVE  L[i] = IF i = 0 THEN {} ELSE Step(L, i)
    <3>1. CASE i = 0
      BY <1>4, <3>1
    <3>2. CASE i # 0
      <4>1. i \in 1 .. n /\ i - 1 \in 0 .. n
        BY <3>2
      <4>2. L[i - 1] = G[i - 1] /\ L[i] = G[i]
        BY <2>1, <4>1
      <4> HIDE DEF L
      <4>3. Step(L, i) = Step(G, i)
        BY <4>2
      <4>4. G[i] = Step(G, i)
        BY <1>4, <4>1
      <4> HIDE DEF Step
      <4>5. QED
        BY <3>2, <4>2, <4>3, <4>4
    <3>3. QED
      BY <3>1, <3>2
  <2>3. [i \in 0 .. n |-> L[i]] = [i \in 0 .. n |-> IF i = 0 THEN {} ELSE Step(L, i)]
    <3> HIDE DEF Step, L
    <3>1. QED
      BY <2>2
  <2>4. L = [i \in 0 .. n |-> L[i]]
    OBVIOUS
  <2> HIDE DEF Step, L
  <2>5. QED
    BY <2>3, <2>4
<1> DEFINE After == CHOOSE f : Eq(f)
<1>6. Eq(After)
  <2> HIDE DEF Eq, L
  <2>1. \E f : Eq(f)
    BY <1>5
  <2>2. QED
    BY <2>1
<1>7. Trim!Kept(s) = After[n]
  BY DEF Trim!Kept
<1> HIDE DEF After
<1>8. Walk(s, n, After)
  <2>1. After[0] = {}
    BY <1>6
  <2>2. ASSUME NEW i \in 1 .. n PROVE After[i] = Step(After, i)
    <3>1. i \in 0 .. n /\ i # 0
      OBVIOUS
    <3> HIDE DEF Step
    <3>2. QED
      BY <1>6, <3>1
  <2>3. QED
    BY <2>1, <2>2 DEF Walk
<1>9. QED
  BY <1>7, <1>8

\* After the i newest results: what is kept fits or is the newest alone, and
\* what was left out did not fit behind the newer ones that are kept.
WalkInv(s, n, G, i) ==
  /\ G[i] \subseteq n + 1 - i .. n
  /\ IsFiniteSet(Trim!Marks([k \in G[i] |-> s[k]]))
  /\ i > 0 => n \in G[i] /\ (Trim!SizeOf(G[i], s) <= Budget \/ G[i] = {n})
  /\ \A j \in (n + 1 - i .. n) \ G[i] :
       Trim!SizeOf({k \in G[i] : k > j}, s) + s[j] > Budget

\* Every step of the walk keeps to that.
LEMMA WalkKeeps ==
  ASSUME NEW n \in Nat, NEW s \in [1 .. n -> Nat], NEW G, Walk(s, n, G), Budget \in Nat
  PROVE  \A i \in 0 .. n : WalkInv(s, n, G, i)
<1> DEFINE S == {i \in 0 .. n : WalkInv(s, n, G, i)}
<1>1. 0 \in S
  <2>1. G[0] = {}
    BY DEF Walk
  <2>2. Trim!Marks([k \in {} |-> s[k]]) = {}
    BY DEF Trim!Marks
  <2>3. IsFiniteSet(Trim!Marks([k \in G[0] |-> s[k]]))
    BY <2>1, <2>2, FS_EmptySet
  <2>4. n + 1 - 0 .. n = {}
    OBVIOUS
  <2>5. WalkInv(s, n, G, 0)
    BY <2>1, <2>3, <2>4 DEF WalkInv
  <2>6. QED
    BY <2>5
<1>2. ASSUME NEW i \in 0 .. n - 1, i \in S PROVE i + 1 \in S
  <2> DEFINE j0 == n - i
             fits == i + 1 = 1 \/ Trim!SizeOf(G[i], s) + s[j0] <= Budget
  <2>1. j0 \in 1 .. n /\ j0 = n + 1 - (i + 1) /\ s[j0] \in Nat /\ j0 < n + 1 - i
    OBVIOUS
  <2>2. WalkInv(s, n, G, i)
    BY <1>2
  <2>3. G[i + 1] = IF fits THEN G[i] \cup {j0} ELSE G[i]
    <3> DEFINE m == i + 1
    <3>1. m \in 1 .. n /\ m - 1 = i /\ n + 1 - m = j0
      OBVIOUS
    <3> HIDE DEF m, j0
    <3>2. G[m] = IF m = 1 \/ Trim!SizeOf(G[m - 1], s) + s[n + 1 - m] <= Budget
                 THEN G[m - 1] \cup {n + 1 - m} ELSE G[m - 1]
      BY <3>1 DEF Walk
    <3>3. G[m] = IF m = 1 \/ Trim!SizeOf(G[i], s) + s[j0] <= Budget
                 THEN G[i] \cup {j0} ELSE G[i]
      BY <3>1, <3>2
    <3>4. QED
      BY <3>3 DEF m
  <2>4. /\ G[i] \subseteq n + 1 - i .. n
        /\ IsFiniteSet(Trim!Marks([k \in G[i] |-> s[k]]))
    BY <2>2 DEF WalkInv
  <2>5. j0 \notin G[i] /\ \A k \in G[i] : k \in Int /\ k > j0
    BY <2>1, <2>4
  <2>6. /\ Trim!SizeOf(G[i] \cup {j0}, s) = Trim!SizeOf(G[i], s) + s[j0]
        /\ Trim!SizeOf(G[i], s) \in Nat
        /\ IsFiniteSet(Trim!Marks([k \in G[i] \cup {j0} |-> s[k]]))
    <3> HIDE DEF j0
    <3>1. QED
      BY <2>1, <2>4, <2>5, OneResultMore
  <2>7. n + 1 - (i + 1) .. n = (n + 1 - i .. n) \cup {j0}
    BY <2>1
  <2>8. G[i + 1] \subseteq n + 1 - (i + 1) .. n
    BY <2>3, <2>4, <2>7
  <2>9. IsFiniteSet(Trim!Marks([k \in G[i + 1] |-> s[k]]))
    <3> HIDE DEF fits
    <3>1. CASE fits
      BY <2>3, <2>6, <3>1
    <3>2. CASE ~fits
      BY <2>3, <2>4, <3>2
    <3>3. QED
      BY <3>1, <3>2
  <2>10. n \in G[i + 1] /\ (Trim!SizeOf(G[i + 1], s) <= Budget \/ G[i + 1] = {n})
    <3>1. CASE i = 0
      <4>1. G[0] = {} /\ j0 = n
        BY <3>1 DEF Walk
      <4>2. G[i + 1] = {n}
        BY <2>3, <3>1, <4>1
      <4>3. QED
        BY <4>2
    <3>2. CASE i # 0
      <4>1. n \in G[i] /\ (Trim!SizeOf(G[i], s) <= Budget \/ G[i] = {n})
        BY <2>2, <3>2 DEF WalkInv
      <4>2. CASE fits
        <5>1. Trim!SizeOf(G[i] \cup {j0}, s) <= Budget
          BY <2>6, <3>2, <4>2
        <5> HIDE DEF fits, j0
        <5>2. QED
          BY <2>3, <4>1, <4>2, <5>1
      <4>3. CASE ~fits
        <5> HIDE DEF fits, j0
        <5>1. QED
          BY <2>3, <4>1, <4>3
      <4>4. QED
        BY <4>2, <4>3
    <3>3. QED
      BY <3>1, <3>2
  <2>11. ASSUME NEW j \in (n + 1 - (i + 1) .. n) \ G[i + 1]
         PROVE  Trim!SizeOf({k \in G[i + 1] : k > j}, s) + s[j] > Budget
    <3>1. CASE j = j0
      <4>1. ~fits
        BY <2>3, <2>11, <3>1
      <4>2. G[i + 1] = G[i]
        BY <2>3, <4>1
      <4>3. {k \in G[i + 1] : k > j} = G[i]
        BY <2>5, <3>1, <4>2
      <4>4. Trim!SizeOf(G[i], s) + s[j0] > Budget
        BY <2>1, <2>6, <4>1
      <4> HIDE DEF j0
      <4>5. QED
        BY <3>1, <4>3, <4>4
    <3>2. CASE j # j0
      <4>1. j \in (n + 1 - i .. n) \ G[i] /\ j \in Int /\ ~(j0 > j)
        BY <2>1, <2>3, <2>7, <2>11, <3>2
      <4>2. {k \in G[i + 1] : k > j} = {k \in G[i] : k > j}
        BY <2>3, <4>1
      <4>3. Trim!SizeOf({k \in G[i] : k > j}, s) + s[j] > Budget
        BY <2>2, <4>1 DEF WalkInv
      <4>4. QED
        BY <4>2, <4>3
    <3>3. QED
      BY <3>1, <3>2
  <2>12. WalkInv(s, n, G, i + 1)
    BY <2>8, <2>9, <2>10, <2>11 DEF WalkInv
  <2>13. i + 1 \in 0 .. n
    OBVIOUS
  <2>14. QED
    BY <2>12, <2>13
<1> HIDE DEF S
<1>3. 0 .. n \subseteq S
  BY <1>1, <1>2, UpTo
<1>4. QED
  BY <1>3 DEF S

\* What is kept of any list of results fits, or is the newest alone; and a
\* result is left out only where what is newer and kept leaves it no room.
LEMMA KeptForRoom ==
  ASSUME NEW n \in Nat, NEW s \in [1 .. n -> Nat], n = Len(s), Budget \in Nat
  PROVE  /\ n > 0 => /\ n \in Trim!Kept(s) /\ Trim!Kept(s) \subseteq 1 .. n
                     /\ Trim!SizeOf(Trim!Kept(s), s) <= Budget \/ Trim!Kept(s) = {n}
         /\ \A j \in (1 .. n) \ Trim!Kept(s) :
              Trim!SizeOf({k \in Trim!Kept(s) : k > j}, s) + s[j] > Budget
<1>1. PICK G : Walk(s, n, G) /\ Trim!Kept(s) = G[n]
  BY WalkExists
<1>2. WalkInv(s, n, G, n)
  BY <1>1, WalkKeeps
<1>3. n + 1 - n = 1
  OBVIOUS
<1>4. QED
  BY <1>1, <1>2, <1>3 DEF WalkInv

-----------------------------------------------------------------------------
(* What a call does to a world.                                            *)

\* A finite set of numbers has a number that is none of them below it.
LEMMA FiniteBounded ==
  ASSUME NEW S \in SUBSET Nat, IsFiniteSet(S)
  PROVE  \E d \in Nat : \A x \in S : x <= d
<1> DEFINE n == Cardinality(S)
<1>1. n \in Nat /\ ExistsBijection(1 .. n, S)
  BY FS_CardinalityType
<1>2. PICK f : f \in Bijection(1 .. n, S)
  BY <1>1 DEF ExistsBijection
<1> HIDE DEF n
<1>3. f \in [1 .. n -> S] /\ \A x \in S : \E i \in 1 .. n : f[i] = x
  BY <1>2 DEF Bijection, Injection, Surjection
<1>9. \A i \in 1 .. n : f[i] \in Nat
  BY <1>3
<1> DEFINE B == {m \in 0 .. n : \E d \in Nat : \A i \in 1 .. m : f[i] <= d}
<1>4. 0 \in B
  BY <1>1
<1>5. ASSUME NEW m \in 0 .. n - 1, m \in B PROVE m + 1 \in B
  <2>1. PICK d \in Nat : \A i \in 1 .. m : f[i] <= d
    BY <1>5
  <2>2. m + 1 \in 1 .. n /\ m + 1 \in 0 .. n
    BY <1>1
  <2>5. f[m + 1] \in Nat
    BY <1>9, <2>2
  <2>3. PICK e \in Nat : d <= e /\ f[m + 1] <= e
    BY <2>5
  <2>4. ASSUME NEW i \in 1 .. m + 1 PROVE f[i] <= e
    <3>1. i \in 1 .. n /\ f[i] \in Nat
      BY <1>1, <1>9
    <3>2. CASE i = m + 1
      BY <2>3, <3>2
    <3>3. CASE i # m + 1
      <4>1. f[i] <= d
        BY <2>1, <3>3
      <4>2. QED
        BY <2>3, <3>1, <4>1
    <3>4. QED
      BY <3>2, <3>3
  <2>6. QED
    BY <2>2, <2>4
<1> HIDE DEF B
<1>6. n \in B
  <2>1. 0 .. n \subseteq B
    BY <1>1, <1>4, <1>5, UpTo
  <2>2. QED
    BY <1>1, <2>1
<1>7. PICK d \in Nat : \A i \in 1 .. n : f[i] <= d
  BY <1>6 DEF B
<1>8. QED
  BY <1>3, <1>7

\* Max finds the largest.
LEMMA MaxIsLargest ==
  ASSUME NEW S \in SUBSET Nat, IsFiniteSet(S), S # {}
  PROVE  Max(S) \in S /\ \A y \in S : Max(S) >= y
<1>1. PICK d \in Nat : \A x \in S : x <= d
  BY FiniteBounded
<1> DEFINE T == {d - x : x \in S}
<1>2. \A x \in S : x \in Nat /\ d - x \in Nat
  BY <1>1
<1>3. T \in SUBSET Nat /\ T # {}
  BY <1>2
<1>4. PICK t \in T : \A u \in T : t <= u
  <2> HIDE DEF T
  <2>1. QED
    BY <1>3, LeastNatural
<1>5. PICK x \in S : t = d - x
  BY <1>4
<1>6. ASSUME NEW y \in S PROVE x >= y
  <2>1. d - x <= d - y
    BY <1>4, <1>5
  <2>2. QED
    BY <1>2, <2>1
<1>7. \E z \in S : \A y \in S : z >= y
  BY <1>6
<1>8. QED
  BY <1>7 DEF Max

\* Min finds the least.
LEMMA MinIsLeast ==
  ASSUME NEW S \in SUBSET Nat, S # {}
  PROVE  Min(S) \in S /\ \A y \in S : Min(S) <= y
BY LeastNatural DEF Min

\* The id a record is given is nobody's.
LEMMA NextIdIsNew ==
  ASSUME NEW d, DOMAIN d \in SUBSET Nat, IsFiniteSet(DOMAIN d)
  PROVE  NextId(d) \in Nat \ DOMAIN d
<1> DEFINE S == DOMAIN d \cup {0}
<1>1. S \in SUBSET Nat /\ S # {}
  OBVIOUS
<1>2. IsFiniteSet(S)
  BY FS_AddElement
<1> HIDE DEF S
<1>3. Max(S) \in S /\ \A y \in S : Max(S) >= y
  BY <1>1, <1>2, MaxIsLargest
<1>4. NextId(d) = Max(S) + 1
  BY DEF NextId, S
<1>5. Max(S) \in Nat /\ Max(S) + 1 \in Nat /\ ~(Max(S) >= Max(S) + 1)
  <2>1. Max(S) \in Nat
    BY <1>1, <1>3
  <2>2. QED
    BY <2>1
<1>6. Max(S) + 1 \notin S
  BY <1>3, <1>5
<1>7. QED
  BY <1>4, <1>5, <1>6 DEF S

\* What Put makes of a function.
PutOf(p, d, key, value) ==
  /\ DOMAIN p = DOMAIN d \cup {key}
  /\ p[key] = value
  /\ \A x \in DOMAIN d : x # key => p[x] = d[x]
  /\ p = [x \in DOMAIN p |-> p[x]]

\* {**d, key: value} has the key with the value, and the rest of d as it was.
LEMMA PutIs ==
  ASSUME NEW d, NEW key, NEW value, NEW p, p = Put(d, key, value)
  PROVE  PutOf(p, d, key, value)
<1>1. DOMAIN p = DOMAIN d \cup {key}
  BY DEF Put
<1>2. p[key] = value
  BY DEF Put
<1>3. \A x \in DOMAIN d : x # key => p[x] = d[x]
  BY DEF Put
<1>4. p = [x \in DOMAIN p |-> p[x]]
  BY DEF Put
<1>5. QED
  BY <1>1, <1>2, <1>3, <1>4 DEF PutOf

\* A record more leaves a collection one.
LEMMA PutCollection ==
  ASSUME NEW d, IsCollection(d), NEW id \in Nat, NEW record
  PROVE  IsCollection(Put(d, id, record))
<1> DEFINE p == Put(d, id, record)
<1>1. DOMAIN d \in SUBSET Nat /\ IsFiniteSet(DOMAIN d)
  BY DEF IsCollection
<1>2. IsFiniteSet(DOMAIN d \cup {id})
  BY <1>1, FS_AddElement
<1> HIDE DEF p
<1>3. PutOf(p, d, id, record)
  BY PutIs DEF p
<1>4. DOMAIN p \in SUBSET Nat /\ IsFiniteSet(DOMAIN p)
  BY <1>1, <1>2, <1>3 DEF PutOf
<1>5. QED
  BY <1>3, <1>4 DEF PutOf, IsCollection, p

\* A world with other tickets, or other emails, is a world.
LEMMA WorldWith ==
  ASSUME NEW w, IsWorld(w), NEW id \in Nat, NEW record
  PROVE  /\ IsWorld([w EXCEPT !.tickets = Put(@, id, record)])
         /\ IsWorld([w EXCEPT !.emails = Put(@, id, record)])
         /\ [w EXCEPT !.tickets = Put(@, id, record)] =
              [tickets |-> Put(w.tickets, id, record), emails |-> w.emails]
         /\ [w EXCEPT !.emails = Put(@, id, record)] =
              [tickets |-> w.tickets, emails |-> Put(w.emails, id, record)]
<1>1. w = [tickets |-> w.tickets, emails |-> w.emails]
  BY DEF IsWorld
<1>2. IsCollection(w.tickets) /\ IsCollection(w.emails)
  <2>1. IsCollection(w["tickets"]) /\ IsCollection(w["emails"])
    BY DEF IsWorld
  <2>2. QED
    BY <2>1
<1>3. IsCollection(Put(w.tickets, id, record)) /\ IsCollection(Put(w.emails, id, record))
  BY <1>2, PutCollection
<1>4. ASSUME NEW t, NEW e, IsCollection(t), IsCollection(e)
      PROVE  IsWorld([tickets |-> t, emails |-> e])
  BY <1>4 DEF IsWorld
<1>5. [w EXCEPT !.tickets = Put(@, id, record)] =
        [tickets |-> Put(w.tickets, id, record), emails |-> w.emails]
  BY <1>1
<1>6. [w EXCEPT !.emails = Put(@, id, record)] =
        [tickets |-> w.tickets, emails |-> Put(w.emails, id, record)]
  BY <1>1
<1>7. QED
  BY <1>2, <1>3, <1>4, <1>5, <1>6

Ids == Nat \cup DOMAIN Accounts \cup DOMAIN Docs
Outcomes == [error : {"none", "unknown_id", "unknown_tool", "invalid_args"}, ids : SUBSET Ids]

\* The status a write leaves its ticket in.
StatusOf(call) ==
  IF call.name = "create_ticket" THEN "open"
  ELSE IF call.name = "update_ticket" THEN call.args.status ELSE "archived"

\* A record made of a call's arguments, open if it is a ticket.
MadeOf(call, record) ==
  /\ \A field \in DOMAIN call.args :
       /\ field \in DOMAIN record /\ field # "status"
       /\ record[field] = call.args[field]
  /\ call.name = "create_ticket" => record.status = "open"

\* What a call does to a world: what it tells its ids for.
CreatesIn(container, call, w, v, id) ==
  /\ id = NextId(w[container])
  /\ \E record : MadeOf(call, record) /\ v[container] = Put(w[container], id, record)
  /\ \A other \in {"tickets", "emails"} \ {container} : v[other] = w[other]

SetsIn(call, w, v, id) ==
  /\ id \in DOMAIN w["tickets"]
  /\ v["tickets"] =
       Put(w["tickets"], id, Put(w["tickets"][id], "status", StatusOf(call)))
  /\ v["emails"] = w["emails"]

\* Whether it was turned away or failed.
ErrorOf(call, o) ==
  IF Refusal(call) # "none" THEN o.error = Refusal(call)
  ELSE o.error \in {"none", "unknown_id"}

Effect(call, w, v, o) ==
  /\ IsWorld(v)
  /\ o \in Outcomes /\ IsFiniteSet(o.ids)
  /\ ErrorOf(call, o)
  /\ IF call.name \in Creates /\ o.error = "none"
     THEN \E id : o.ids = {id} /\ CreatesIn(Container(call), call, w, v, id)
     ELSE IF call.name \in Sets /\ o.error = "none"
     THEN \E id : o.ids = {id} /\ SetsIn(call, w, v, id)
     ELSE v = w

\* The parts of a world are collections.
LEMMA WorldParts ==
  ASSUME NEW w, IsWorld(w)
  PROVE  /\ w["tickets"] = w.tickets /\ w["emails"] = w.emails
         /\ IsCollection(w.tickets) /\ IsCollection(w.emails)
         /\ DOMAIN w.tickets \in SUBSET Nat /\ IsFiniteSet(DOMAIN w.tickets)
         /\ DOMAIN w.emails \in SUBSET Nat /\ IsFiniteSet(DOMAIN w.emails)
<1>1. IsCollection(w["tickets"]) /\ IsCollection(w["emails"])
  BY DEF IsWorld
<1>2. QED
  BY <1>1 DEF IsCollection

\* The legal calls of a creating tool give what its record is made of.
LEMMA CreatingArgs ==
  ASSUME NEW call, Refusal(call) = "none"
  PROVE  /\ call.name \in DOMAIN Tools
         /\ call.name = "create_ticket" => DOMAIN call.args \subseteq {"title", "priority"}
         /\ call.name \in {"send_email", "draft_email"} =>
              DOMAIN call.args \subseteq {"to", "subject", "body"}
<1>1. call.name \in DOMAIN Tools /\ Valid(call)
  BY DEF Refusal
<1>2. DOMAIN call.args \subseteq Tools[call.name].required \cup Tools[call.name].optional
  BY <1>1 DEF Valid
<1>3. /\ Tools["create_ticket"].required = {"title", "priority"}
      /\ Tools["create_ticket"].optional = {}
      /\ Tools["send_email"].required = {"to", "subject", "body"}
      /\ Tools["send_email"].optional = {}
      /\ Tools["draft_email"].required = {"to", "subject", "body"}
      /\ Tools["draft_email"].optional = {}
  BY DEF Tools, Takes
<1>4. QED
  BY <1>1, <1>2, <1>3

\* A call that is turned away.
LEMMA RefusedEffect ==
  ASSUME NEW call, NEW w, IsWorld(w), Refusal(call) # "none"
  PROVE  Effect(call, w, Applied(call, w).world, Applied(call, w).outcome)
<1>1. Applied(call, w) = Failed(w, Refusal(call))
  BY DEF Applied
<1>2. Refusal(call) \in {"unknown_tool", "invalid_args"}
  BY DEF Refusal
<1>3. Applied(call, w).world = w
  BY <1>1 DEF Failed
<1>4. Applied(call, w).outcome = [error |-> Refusal(call), ids |-> {}]
  BY <1>1 DEF Failed
<1>5. Applied(call, w).outcome \in Outcomes
  BY <1>2, <1>4 DEF Outcomes
<1>6. IsFiniteSet({})
  BY FS_EmptySet
<1>7. /\ Applied(call, w).outcome.error = Refusal(call)
      /\ Applied(call, w).outcome.ids = {}
  BY <1>4
<1> HIDE DEF Applied
<1>8. QED
  BY <1>2, <1>3, <1>5, <1>6, <1>7 DEF Effect, ErrorOf

\* A tool that only reads.
LEMMA ReadEffect ==
  ASSUME NEW call, NEW w, IsWorld(w), Refusal(call) = "none",
         call.name \notin Creates \cup Sets, NEW a,
         NEW error \in {"none", "unknown_id"}, NEW ids \in SUBSET Ids, IsFiniteSet(ids),
         a = [world |-> w, outcome |-> [error |-> error, ids |-> ids]]
  PROVE  Effect(call, w, a.world, a.outcome)
<1>1. a.world = w /\ a.outcome = [error |-> error, ids |-> ids]
  OBVIOUS
<1>2. a.outcome \in Outcomes
  BY <1>1 DEF Outcomes
<1>3. a.outcome.error = error /\ a.outcome.ids = ids
  BY <1>1
<1>4. QED
  BY <1>1, <1>2, <1>3 DEF Effect, ErrorOf

\* A tool that makes a record.
LEMMA CreateEffect ==
  ASSUME NEW call, NEW w, IsWorld(w), Refusal(call) = "none",
         call.name \in Creates, NEW record, MadeOf(call, record),
         NEW id, id = NextId(w[Container(call)]), NEW a,
         a = Found([w EXCEPT ![Container(call)] = Put(@, id, record)], {id})
  PROVE  Effect(call, w, a.world, a.outcome)
<1> DEFINE v == [w EXCEPT ![Container(call)] = Put(@, id, record)]
<1>1. a.world = v /\ a.outcome.error = "none" /\ a.outcome.ids = {id}
      /\ a.outcome = [error |-> "none", ids |-> {id}]
  BY DEF Found
<1>2. Container(call) \in {"tickets", "emails"}
  BY DEF Container
<1>3. w = [tickets |-> w.tickets, emails |-> w.emails]
  BY DEF IsWorld
<1>4. id \in Nat
  <2>1. DOMAIN w[Container(call)] \in SUBSET Nat /\ IsFiniteSet(DOMAIN w[Container(call)])
    BY <1>2, WorldParts
  <2>2. QED
    BY <2>1, NextIdIsNew
<1>5. /\ v[Container(call)] = Put(w[Container(call)], id, record)
      /\ \A other \in {"tickets", "emails"} \ {Container(call)} : v[other] = w[other]
  BY <1>2, <1>3
<1>6. IsWorld(v)
  <2>1. CASE Container(call) = "tickets"
    <3>1. v = [w EXCEPT !.tickets = Put(@, id, record)]
      BY <2>1
    <3>2. IsWorld([w EXCEPT !.tickets = Put(@, id, record)])
      BY <1>4, WorldWith
    <3>3. QED
      BY <3>1, <3>2
  <2>2. CASE Container(call) = "emails"
    <3>1. v = [w EXCEPT !.emails = Put(@, id, record)]
      BY <2>2
    <3>2. IsWorld([w EXCEPT !.emails = Put(@, id, record)])
      BY <1>4, WorldWith
    <3>3. QED
      BY <3>1, <3>2
  <2>3. QED
    BY <1>2, <2>1, <2>2
<1> HIDE DEF v
<1>7. CreatesIn(Container(call), call, w, v, id)
  BY <1>5 DEF CreatesIn
<1>8. a.outcome \in Outcomes
  BY <1>1, <1>4 DEF Outcomes, Ids
<1>9. IsFiniteSet({id})
  BY FS_Singleton
<1>10. QED
  BY <1>1, <1>6, <1>7, <1>8, <1>9 DEF Effect, ErrorOf

\* A tool that sets a ticket's status.
LEMMA SetEffect ==
  ASSUME NEW call, NEW w, IsWorld(w), Refusal(call) = "none",
         call.name \in Sets, NEW id, NEW a, a = SetStatus(id, StatusOf(call), w)
  PROVE  Effect(call, w, a.world, a.outcome)
<1>0. call.name \notin Creates
  BY DEF Creates, Sets
<1>1. CASE id \in DOMAIN w.tickets
  <2> DEFINE record == Put(w.tickets[id], "status", StatusOf(call))
             v == [w EXCEPT !.tickets = Put(@, id, Put(@[id], "status", StatusOf(call)))]
  <2>1. a = Found(v, {id})
    BY <1>1 DEF SetStatus
  <2>2. w = [tickets |-> w.tickets, emails |-> w.emails]
    BY DEF IsWorld
  <2>3. v = [w EXCEPT !.tickets = Put(@, id, record)]
    BY <2>2
  <2>4. v = [tickets |-> Put(w.tickets, id, record), emails |-> w.emails]
    BY <2>2
  <2>5. id \in Nat
    BY <1>1, WorldParts
  <2>6. IsWorld(v)
    <3> HIDE DEF record, v
    <3>1. IsWorld([w EXCEPT !.tickets = Put(@, id, record)])
      BY <2>5, WorldWith
    <3>2. QED
      BY <2>3, <3>1
  <2> HIDE DEF v
  <2>7. SetsIn(call, w, v, id)
    <3>1. w["tickets"] = w.tickets /\ w["emails"] = w.emails
      BY WorldParts
    <3>2. v["tickets"] = Put(w.tickets, id, record) /\ v["emails"] = w.emails
      BY <2>4
    <3>3. QED
      BY <1>1, <3>1, <3>2 DEF SetsIn
  <2>8. a.world = v /\ a.outcome.error = "none" /\ a.outcome.ids = {id}
        /\ a.outcome = [error |-> "none", ids |-> {id}]
    BY <2>1 DEF Found
  <2>9. a.outcome \in Outcomes
    BY <2>5, <2>8 DEF Outcomes, Ids
  <2>10. IsFiniteSet({id})
    BY FS_Singleton
  <2>11. QED
    BY <1>0, <2>6, <2>7, <2>8, <2>9, <2>10 DEF Effect, ErrorOf
<1>2. CASE id \notin DOMAIN w.tickets
  <2>1. a = Failed(w, "unknown_id")
    BY <1>2 DEF SetStatus
  <2>2. a.world = w /\ a.outcome = [error |-> "unknown_id", ids |-> {}]
    BY <2>1 DEF Failed
  <2>3. a.outcome \in Outcomes
    BY <2>2 DEF Outcomes
  <2>4. IsFiniteSet({})
    BY FS_EmptySet
  <2>5. a.outcome.error = "unknown_id" /\ a.outcome.ids = {}
    BY <2>2
  <2>6. QED
    BY <1>0, <2>2, <2>3, <2>4, <2>5 DEF Effect, ErrorOf
<1>3. QED
  BY <1>1, <1>2

\* What every call does.
LEMMA AppliedEffect ==
  ASSUME NEW call, NEW w, IsWorld(w)
  PROVE  Effect(call, w, Applied(call, w).world, Applied(call, w).outcome)
<1>1. CASE Refusal(call) # "none"
  BY <1>1, RefusedEffect
<1>2. CASE Refusal(call) = "none"
  <2> DEFINE a == Applied(call, w)
             args == call.args
  <2>1. call.name \in DOMAIN Tools
    BY <1>2, CreatingArgs
  <2>2. call.name \in {"search_docs", "create_ticket", "update_ticket", "archive_ticket",
                       "list_tickets", "get_account", "find_account", "send_email",
                       "draft_email"}
    BY <2>1 DEF Tools
  <2>3. w["tickets"] = w.tickets /\ w["emails"] = w.emails
    BY WorldParts
  <2>4. CASE call.name = "create_ticket"
    <3> DEFINE id == NextId(w.tickets)
               record == [title |-> args.title, priority |-> args.priority, status |-> "open"]
    <3>1. a = CreateTicket(args, w)
      BY <1>2, <2>4 DEF Applied
    <3>2. Container(call) = "tickets" /\ call.name \in Creates
      BY <2>4 DEF Container, Creates
    <3>3. a = Found([w EXCEPT ![Container(call)] = Put(@, id, record)], {id})
      BY <3>1, <3>2 DEF CreateTicket
    <3>4. MadeOf(call, record)
      <4>1. DOMAIN call.args \subseteq {"title", "priority"}
        BY <1>2, <2>4, CreatingArgs
      <4>2. record["title"] = args["title"] /\ record["priority"] = args["priority"]
        OBVIOUS
      <4>3. DOMAIN record = {"title", "priority", "status"} /\ record.status = "open"
        OBVIOUS
      <4> HIDE DEF record
      <4>4. QED
        BY <4>1, <4>2, <4>3 DEF MadeOf
    <3> HIDE DEF a, record, id
    <3>5. id = NextId(w[Container(call)])
      BY <2>3, <3>2 DEF id
    <3>6. Effect(call, w, a.world, a.outcome)
      BY <1>2, <3>2, <3>3, <3>4, <3>5, CreateEffect
    <3>7. QED
      BY <3>6 DEF a
  <2>5. CASE call.name \in {"send_email", "draft_email"}
    <3> DEFINE id == NextId(w.emails)
               state == IF call.name = "send_email" THEN "sent" ELSE "draft"
               record == [to |-> args.to, subject |-> args.subject, body |-> args.body,
                          state |-> state]
    <3>1. a = AddEmail(args, state, w)
      BY <1>2, <2>5 DEF Applied, SendEmail, DraftEmail
    <3>2. Container(call) = "emails" /\ call.name \in Creates /\ call.name # "create_ticket"
      BY <2>5 DEF Container, Creates, Sets
    <3>3. a = Found([w EXCEPT ![Container(call)] = Put(@, id, record)], {id})
      BY <3>1, <3>2 DEF AddEmail
    <3>4. MadeOf(call, record)
      <4>1. DOMAIN call.args \subseteq {"to", "subject", "body"}
        BY <1>2, <2>5, CreatingArgs
      <4>2. /\ record["to"] = args["to"] /\ record["subject"] = args["subject"]
            /\ record["body"] = args["body"]
        OBVIOUS
      <4>3. DOMAIN record = {"to", "subject", "body", "state"}
        OBVIOUS
      <4> HIDE DEF record
      <4>4. QED
        BY <3>2, <4>1, <4>2, <4>3 DEF MadeOf
    <3> HIDE DEF a, record, id
    <3>5. id = NextId(w[Container(call)])
      BY <2>3, <3>2 DEF id
    <3>6. Effect(call, w, a.world, a.outcome)
      BY <1>2, <3>2, <3>3, <3>4, <3>5, CreateEffect
    <3>7. QED
      BY <3>6 DEF a
  <2>6. CASE call.name = "update_ticket"
    <3>1. call.name \in Sets /\ StatusOf(call) = args.status
      BY <2>6 DEF Sets, StatusOf
    <3>2. a = SetStatus(args.ticket_id, StatusOf(call), w)
      BY <1>2, <2>6, <3>1 DEF Applied, UpdateTicket
    <3> HIDE DEF a
    <3>3. Effect(call, w, a.world, a.outcome)
      BY <1>2, <3>1, <3>2, SetEffect
    <3>4. QED
      BY <3>3 DEF a
  <2>7. CASE call.name = "archive_ticket"
    <3>1. call.name \in Sets /\ StatusOf(call) = "archived"
      BY <2>7 DEF Sets, StatusOf
    <3>2. a = SetStatus(args.ticket_id, StatusOf(call), w)
      BY <1>2, <2>7, <3>1 DEF Applied, ArchiveTicket
    <3> HIDE DEF a
    <3>3. Effect(call, w, a.world, a.outcome)
      BY <1>2, <3>1, <3>2, SetEffect
    <3>4. QED
      BY <3>3 DEF a
  <2>8. CASE call.name \in {"search_docs", "list_tickets", "get_account", "find_account"}
    <3>1. call.name \notin Creates \cup Sets
      BY <2>8 DEF Creates, Sets
    <3>2. PICK error \in {"none", "unknown_id"}, ids \in SUBSET Ids :
            /\ IsFiniteSet(ids)
            /\ a = [world |-> w, outcome |-> [error |-> error, ids |-> ids]]
      <4>1. ASSUME NEW ids \in SUBSET Ids, IsFiniteSet(ids), a = Found(w, ids)
            PROVE  \E error \in {"none", "unknown_id"}, s \in SUBSET Ids :
                     /\ IsFiniteSet(s)
                     /\ a = [world |-> w, outcome |-> [error |-> error, ids |-> s]]
        BY <4>1 DEF Found
      <4>2. CASE call.name = "search_docs"
        <5> DEFINE ids == {d \in DOMAIN Docs : args.query \in Docs[d]}
        <5>1. a = Found(w, ids)
          BY <1>2, <4>2 DEF Applied, SearchDocs
        <5>2. ids \subseteq DOMAIN Docs /\ IsFiniteSet(DOMAIN Docs)
          BY WorkspaceAssumption
        <5>3. IsFiniteSet(ids)
          BY <5>2, FS_Subset
        <5>4. ids \in SUBSET Ids
          BY <5>2 DEF Ids
        <5> HIDE DEF ids, a
        <5>5. QED
          BY <4>1, <5>1, <5>3, <5>4
      <4>3. CASE call.name = "find_account"
        <5> DEFINE ids == {u \in DOMAIN Accounts : Accounts[u] = args.email}
        <5>1. a = Found(w, ids)
          BY <1>2, <4>3 DEF Applied, FindAccount
        <5>2. ids \subseteq DOMAIN Accounts /\ IsFiniteSet(DOMAIN Accounts)
          BY WorkspaceAssumption
        <5>3. IsFiniteSet(ids)
          BY <5>2, FS_Subset
        <5>4. ids \in SUBSET Ids
          BY <5>2 DEF Ids
        <5> HIDE DEF ids, a
        <5>5. QED
          BY <4>1, <5>1, <5>3, <5>4
      <4>4. CASE call.name = "list_tickets"
        <5> DEFINE ids == {id \in DOMAIN w.tickets :
                             \A field \in DOMAIN args :
                               /\ field \in DOMAIN w.tickets[id]
                               /\ w.tickets[id][field] = args[field]}
        <5>1. a = Found(w, ids)
          BY <1>2, <4>4 DEF Applied, ListTickets
        <5>2. ids \subseteq DOMAIN w.tickets
          OBVIOUS
        <5>3. DOMAIN w.tickets \in SUBSET Nat /\ IsFiniteSet(DOMAIN w.tickets)
          BY WorldParts
        <5> HIDE DEF ids, a
        <5>4. IsFiniteSet(ids)
          BY <5>2, <5>3, FS_Subset
        <5>5. ids \in SUBSET Ids
          BY <5>2, <5>3 DEF Ids
        <5>6. QED
          BY <4>1, <5>1, <5>4, <5>5
      <4>5. CASE call.name = "get_account"
        <5>1. a = GetAccount(args, w)
          BY <1>2, <4>5 DEF Applied
        <5>2. CASE args.user_id \in DOMAIN Accounts
          <6>1. a = Found(w, {args.user_id})
            BY <5>1, <5>2 DEF GetAccount
          <6>2. IsFiniteSet({args.user_id})
            BY FS_Singleton
          <6>3. {args.user_id} \in SUBSET Ids
            BY <5>2 DEF Ids
          <6> HIDE DEF a
          <6>4. QED
            BY <4>1, <6>1, <6>2, <6>3
        <5>3. CASE args.user_id \notin DOMAIN Accounts
          <6>1. a = [world |-> w, outcome |-> [error |-> "unknown_id", ids |-> {}]]
            BY <5>1, <5>3 DEF GetAccount, Failed
          <6>2. IsFiniteSet({})
            BY FS_EmptySet
          <6> HIDE DEF a
          <6>3. QED
            BY <6>1, <6>2
        <5>4. QED
          BY <5>2, <5>3
      <4>6. QED
        BY <2>8, <4>2, <4>3, <4>4, <4>5
    <3> HIDE DEF a
    <3>3. Effect(call, w, a.world, a.outcome)
      BY <1>2, <3>1, <3>2, ReadEffect
    <3>4. QED
      BY <3>3 DEF a
  <2>9. QED
    BY <2>2, <2>4, <2>5, <2>6, <2>7, <2>8
<1>3. QED
  BY <1>1, <1>2

-----------------------------------------------------------------------------
(* The worlds calls lead through.                                          *)

Leads(H, calls, n, w) ==
  /\ H[0] = w
  /\ \A i \in 1 .. n : H[i] = Applied(calls[i], H[i - 1]).world

\* Worlds are the worlds the calls lead through.
LEMMA WorldsLead ==
  ASSUME NEW calls, NEW n \in Nat, n = Len(calls), NEW w
  PROVE  Leads(Worlds(calls, w), calls, n, w)
<1> DEFINE Step(G, i) == Applied(calls[i], G[i - 1]).world
           Eq(G) == G = [i \in 0 .. n |-> IF i = 0 THEN w ELSE Step(G, i)]
           Upto(G, m) == G[0] = w /\ \A i \in 1 .. m : G[i] = Step(G, i)
           S == {m \in 0 .. n : \E G : Upto(G, m)}
<1>1. 0 \in S
  <2>1. Upto([i \in {0} |-> w], 0)
    OBVIOUS
  <2> HIDE DEF Upto
  <2>2. 0 \in 0 .. n
    OBVIOUS
  <2>3. QED
    BY <2>1, <2>2
<1>2. ASSUME NEW m \in 0 .. n - 1, m \in S PROVE m + 1 \in S
  <2>1. PICK G : Upto(G, m)
    BY <1>2
  <2> DEFINE L == [i \in 0 .. m + 1 |-> IF i = m + 1 THEN Step(G, m + 1) ELSE G[i]]
  <2>2. \A i \in 0 .. m : L[i] = G[i]
    OBVIOUS
  <2>3. L[m + 1] = Step(G, m + 1)
    OBVIOUS
  <2> HIDE DEF L
  <2>4. ASSUME NEW i \in 1 .. m + 1 PROVE L[i] = Step(L, i)
    <3>1. i - 1 \in 0 .. m
      OBVIOUS
    <3>2. L[i - 1] = G[i - 1]
      BY <2>2, <3>1
    <3>3. Step(L, i) = Step(G, i)
      BY <3>2
    <3>4. CASE i = m + 1
      BY <2>3, <3>3, <3>4
    <3>5. CASE i # m + 1
      <4>1. i \in 1 .. m /\ i \in 0 .. m
        BY <3>5
      <4>2. G[i] = Step(G, i)
        BY <2>1, <4>1
      <4>3. L[i] = G[i]
        BY <2>2, <4>1
      <4> HIDE DEF Step
      <4>4. QED
        BY <3>3, <4>2, <4>3
    <3>6. QED
      BY <3>4, <3>5
  <2>5. L[0] = w
    BY <2>1, <2>2
  <2> HIDE DEF Step
  <2>6. Upto(L, m + 1)
    BY <2>4, <2>5
  <2> HIDE DEF Upto
  <2>7. m + 1 \in 0 .. n
    OBVIOUS
  <2>8. QED
    BY <2>6, <2>7
<1>3. n \in S
  <2> HIDE DEF S
  <2>1. 0 .. n \subseteq S
    BY <1>1, <1>2, UpTo
  <2>2. QED
    BY <2>1
<1>4. PICK G : Upto(G, n)
  BY <1>3
<1> DEFINE L == [i \in 0 .. n |-> G[i]]
<1>5. Eq(L)
  <2>1. \A i \in 0 .. n : L[i] = G[i]
    OBVIOUS
  <2>2. ASSUME NEW i \in 0 .. n
        PROVE  L[i] = IF i = 0 THEN w ELSE Step(L, i)
    <3>1. CASE i = 0
      BY <1>4, <3>1
    <3>2. CASE i # 0
      <4>1. i \in 1 .. n /\ i - 1 \in 0 .. n
        BY <3>2
      <4>2. L[i - 1] = G[i - 1] /\ L[i] = G[i]
        BY <2>1, <4>1
      <4> HIDE DEF L
      <4>3. Step(L, i) = Step(G, i)
        BY <4>2
      <4>4. G[i] = Step(G, i)
        BY <1>4, <4>1
      <4> HIDE DEF Step
      <4>5. QED
        BY <3>2, <4>2, <4>3, <4>4
    <3>3. QED
      BY <3>1, <3>2
  <2>3. [i \in 0 .. n |-> L[i]] = [i \in 0 .. n |-> IF i = 0 THEN w ELSE Step(L, i)]
    <3> HIDE DEF Step, L
    <3>1. QED
      BY <2>2
  <2>4. L = [i \in 0 .. n |-> L[i]]
    OBVIOUS
  <2> HIDE DEF Step, L
  <2>5. QED
    BY <2>3, <2>4
<1> DEFINE After == CHOOSE f : Eq(f)
<1>6. Eq(After)
  <2> HIDE DEF Eq, L
  <2>1. \E f : Eq(f)
    BY <1>5
  <2>2. QED
    BY <2>1
<1>7. Worlds(calls, w) = After
  BY DEF Worlds
<1> HIDE DEF After
<1>8. Leads(After, calls, n, w)
  <2>1. After[0] = w
    BY <1>6
  <2>2. ASSUME NEW i \in 1 .. n PROVE After[i] = Step(After, i)
    <3>1. i \in 0 .. n /\ i # 0
      OBVIOUS
    <3> HIDE DEF Step
    <3>2. QED
      BY <1>6, <3>1
  <2>3. QED
    BY <2>1, <2>2 DEF Leads
<1>9. QED
  BY <1>7, <1>8

\* They are the only ones.
LEMMA LeadsToTheSame ==
  ASSUME NEW calls, NEW n \in Nat, NEW w, NEW H, NEW G,
         Leads(H, calls, n, w), Leads(G, calls, n, w)
  PROVE  H[n] = G[n]
<1> DEFINE S == {i \in 0 .. n : H[i] = G[i]}
<1>1. 0 \in S
  BY DEF Leads
<1>2. ASSUME NEW i \in 0 .. n - 1, i \in S PROVE i + 1 \in S
  <2> DEFINE m == i + 1
  <2>1. m \in 1 .. n /\ m - 1 = i /\ m \in 0 .. n
    OBVIOUS
  <2> HIDE DEF m
  <2>2. H[m] = Applied(calls[m], H[m - 1]).world /\ G[m] = Applied(calls[m], G[m - 1]).world
    BY <2>1 DEF Leads
  <2>3. H[m - 1] = G[m - 1]
    BY <1>2, <2>1
  <2>4. m \in S
    BY <2>1, <2>2, <2>3
  <2>5. QED
    BY <2>4 DEF m
<1> HIDE DEF S
<1>3. 0 .. n \subseteq S
  BY <1>1, <1>2, UpTo
<1>4. QED
  BY <1>3 DEF S

\* Every one of them is a world.
LEMMA LeadsToWorlds ==
  ASSUME NEW calls, NEW n \in Nat, NEW w, IsWorld(w), NEW H, Leads(H, calls, n, w)
  PROVE  \A i \in 0 .. n : IsWorld(H[i])
<1> DEFINE S == {i \in 0 .. n : IsWorld(H[i])}
<1>1. 0 \in S
  BY DEF Leads
<1>2. ASSUME NEW i \in 0 .. n - 1, i \in S PROVE i + 1 \in S
  <2> DEFINE m == i + 1
  <2>1. m \in 1 .. n /\ m - 1 = i /\ m \in 0 .. n
    OBVIOUS
  <2> HIDE DEF m
  <2>2. H[m] = Applied(calls[m], H[m - 1]).world
    BY <2>1 DEF Leads
  <2>3. IsWorld(H[m - 1])
    BY <1>2, <2>1
  <2>4. IsWorld(H[m])
    BY <2>2, <2>3, AppliedEffect DEF Effect
  <2>5. m \in S
    BY <2>1, <2>4
  <2>6. QED
    BY <2>5 DEF m
<1> HIDE DEF S
<1>3. 0 .. n \subseteq S
  BY <1>1, <1>2, UpTo
<1>4. QED
  BY <1>3 DEF S

-----------------------------------------------------------------------------
(* The inductive invariant.                                                *)

Entries == [call : task.calls, outcome : Outcomes]

\* H are the worlds the run went through.
Told(H) ==
  /\ H[0] = task.initial /\ H[Len(log)] = world
  /\ \A j \in 1 .. Len(log) :
       /\ log[j] = Done(log[j].call, H[j - 1])
       /\ H[j] = Applied(log[j].call, H[j - 1]).world

IInv ==
  /\ task \in Tasks
  /\ log \in Seq(Entries)
  /\ \E H : Told(H)
  /\ turn = "answer" => kept = Trim!Kept([j \in DOMAIN log |-> Size(log[j].outcome)])
  /\ Graded => stop # "none" /\ grade = Grade(task.verification, Trajectory)

CallsOf == [j \in DOMAIN log |-> log[j].call]

\* They are what the calls of the log lead through.
LEMMA ToldLeads ==
  ASSUME NEW H, Told(H), log \in Seq(Entries)
  PROVE  Leads(H, CallsOf, Len(log), task.initial)
<1>1. DOMAIN log = 1 .. Len(log) /\ Len(log) \in Nat
  OBVIOUS
<1>2. \A j \in 1 .. Len(log) : CallsOf[j] = log[j].call
  BY <1>1 DEF CallsOf
<1>3. ASSUME NEW i \in 1 .. Len(log) PROVE H[i] = Applied(CallsOf[i], H[i - 1]).world
  <2>1. H[i] = Applied(log[i].call, H[i - 1]).world
    BY DEF Told
  <2>2. QED
    BY <1>2, <2>1
<1>4. QED
  BY <1>3 DEF Leads, Told

\* So they are worlds.
LEMMA ToldWorlds ==
  ASSUME NEW H, Told(H), log \in Seq(Entries), task \in Tasks
  PROVE  IsWorld(world) /\ \A i \in 0 .. Len(log) : IsWorld(H[i])
<1>1. IsWorld(task.initial)
  BY TrialAssumption
<1>2. Len(log) \in Nat
  OBVIOUS
<1>3. Leads(H, CallsOf, Len(log), task.initial)
  BY ToldLeads
<1>4. \A i \in 0 .. Len(log) : IsWorld(H[i])
  BY <1>1, <1>2, <1>3, LeadsToWorlds
<1>5. QED
  BY <1>2, <1>4 DEF Told

\* Two sequences in one.
LEMMA Concatenation ==
  ASSUME NEW S, NEW s \in Seq(S), NEW t \in Seq(S)
  PROVE  /\ s \o t \in Seq(S) /\ Len(s \o t) = Len(s) + Len(t)
         /\ \A j \in 1 .. Len(s) : (s \o t)[j] = s[j]
         /\ \A i \in 1 .. Len(t) : (s \o t)[Len(s) + i] = t[i]
OBVIOUS

\* G is H up to m, and goes on as F.
Joined(G, H, m, F, n) ==
  /\ \A i \in 0 .. m : G[i] = H[i]
  /\ \A i \in 0 .. n : G[m + i] = F[i]

\* There is one where the second begins with the end of the first.
LEMMA JoinedExists ==
  ASSUME NEW m \in Nat, NEW n \in Nat, NEW H, NEW F, F[0] = H[m]
  PROVE  \E G : Joined(G, H, m, F, n)
<1> DEFINE G == [i \in 0 .. m + n |-> IF i <= m THEN H[i] ELSE F[i - m]]
<1>1. ASSUME NEW i \in 0 .. m PROVE G[i] = H[i]
  BY <1>1
<1>2. ASSUME NEW i \in 0 .. n PROVE G[m + i] = F[i]
  <2>1. CASE i = 0
    BY <1>1, <2>1
  <2>2. CASE i # 0
    <3>1. m + i \in 0 .. m + n /\ ~(m + i <= m) /\ m + i - m = i
      BY <2>2
    <3>2. QED
      BY <3>1
  <2>3. QED
    BY <2>1, <2>2
<1> HIDE DEF G
<1>3. QED
  BY <1>1, <1>2 DEF Joined

\* An answer goes on from where the run is.
LEMMA AnswerTold ==
  ASSUME task \in Tasks, log \in Seq(Entries), NEW H, Told(H),
         NEW n \in Nat \ {0}, NEW batch \in [1 .. n -> task.calls], NEW worlds,
         worlds = Worlds(batch, world), world' = worlds[n], task' = task,
         log' = log \o [i \in 1 .. n |-> Done(batch[i], worlds[i - 1])]
  PROVE  log' \in Seq(Entries)' /\ \E G : Told(G)'
<1> DEFINE m == Len(log)
           told == [i \in 1 .. n |-> Done(batch[i], worlds[i - 1])]
<1>1. m \in Nat /\ Len(batch) = n /\ IsWorld(world)
  BY ToldWorlds
<1>2. Leads(worlds, batch, n, world)
  BY <1>1, WorldsLead
<1>3. \A i \in 0 .. n : IsWorld(worlds[i])
  BY <1>1, <1>2, LeadsToWorlds
<1>4. \A call, w : Done(call, w).call = call /\ Done(call, w).outcome = Applied(call, w).outcome
  BY DEF Done
<1>5. told \in Seq(Entries) /\ Len(told) = n /\ \A i \in 1 .. n : told[i] = Done(batch[i], worlds[i - 1])
  <2>1. ASSUME NEW i \in 1 .. n PROVE Done(batch[i], worlds[i - 1]) \in Entries
    <3>1. i - 1 \in 0 .. n /\ batch[i] \in task.calls
      OBVIOUS
    <3>2. IsWorld(worlds[i - 1])
      BY <1>3, <3>1
    <3>3. Applied(batch[i], worlds[i - 1]).outcome \in Outcomes
      BY <3>2, AppliedEffect DEF Effect
    <3>4. QED
      BY <3>1, <3>3 DEF Done, Entries
  <2>2. told \in [1 .. n -> Entries]
    <3> HIDE DEF Done
    <3>1. QED
      BY <2>1
  <2>3. \A i \in 1 .. n : told[i] = Done(batch[i], worlds[i - 1])
    OBVIOUS
  <2> HIDE DEF told
  <2>4. QED
    BY <2>2, <2>3
<1> HIDE DEF told
<1>6. log' = log \o told
  BY DEF told
<1>7. log' \in Seq(Entries)'
  <2>1. Entries' = Entries
    BY DEF Entries
  <2>2. log \o told \in Seq(Entries)
    BY <1>5, Concatenation
  <2>3. QED
    BY <1>6, <2>1, <2>2
<1>8. /\ Len(log') = m + n
      /\ \A j \in 1 .. m : log'[j] = log[j]
      /\ \A i \in 1 .. n : log'[m + i] = told[i]
  BY <1>5, <1>6, Concatenation
<1>9. PICK G : Joined(G, H, m, worlds, n)
  <2>1. worlds[0] = H[m]
    BY <1>2 DEF Leads, Told
  <2> HIDE DEF m
  <2>2. QED
    BY <1>1, <2>1, JoinedExists
<1>10. G[0] = task.initial /\ G[m + n] = world'
  <2>1. 0 \in 0 .. m /\ n \in 0 .. n
    BY <1>1
  <2>2. QED
    BY <1>9, <2>1 DEF Told, Joined
<1>11. ASSUME NEW j \in 1 .. m + n
       PROVE  /\ log'[j] = Done(log'[j].call, G[j - 1])
              /\ G[j] = Applied(log'[j].call, G[j - 1]).world
  <2>1. CASE j <= m
    <3>1. j \in 1 .. m /\ j \in 0 .. m /\ j - 1 \in 0 .. m
      BY <2>1
    <3>2. log'[j] = log[j] /\ G[j] = H[j] /\ G[j - 1] = H[j - 1]
      BY <1>8, <1>9, <3>1 DEF Joined
    <3>3. /\ log[j] = Done(log[j].call, H[j - 1])
          /\ H[j] = Applied(log[j].call, H[j - 1]).world
      BY <3>1 DEF Told
    <3>4. QED
      BY <3>2, <3>3
  <2>2. CASE ~(j <= m)
    <3>1. PICK i \in 1 .. n : j = m + i
      <4>1. j - m \in 1 .. n /\ j = m + (j - m)
        BY <1>1, <2>2
      <4>2. QED
        BY <4>1
    <3>2. i \in 0 .. n /\ i - 1 \in 0 .. n /\ j - 1 = m + (i - 1)
      BY <1>1, <3>1
    <3>3. G[j] = worlds[i] /\ G[j - 1] = worlds[i - 1]
      BY <1>9, <3>1, <3>2 DEF Joined
    <3>4. log'[j] = Done(batch[i], worlds[i - 1])
      BY <1>5, <1>8, <3>1
    <3>5. log'[j].call = batch[i]
      BY <1>4, <3>4
    <3>6. worlds[i] = Applied(batch[i], worlds[i - 1]).world
      BY <1>2 DEF Leads
    <3>7. QED
      BY <3>3, <3>4, <3>5, <3>6
  <2>3. QED
    BY <2>1, <2>2
<1>12. Told(G)'
  BY <1>8, <1>10, <1>11 DEF Told
<1>13. QED
  BY <1>7, <1>12

\* The invariant holds at first.
LEMMA TrialBegins == TrialInit => IInv
<1> SUFFICES ASSUME TrialInit PROVE IInv
  OBVIOUS
<1>1. Told([i \in {0} |-> world])
  BY DEF TrialInit, Told
<1>2. log \in Seq(Entries) /\ task \in Tasks /\ turn # "answer" /\ ~Graded
  BY DEF TrialInit, Graded
<1>3. QED
  BY <1>1, <1>2 DEF IInv

\* And after every step.
LEMMA TrialGoesOn == IInv /\ [TrialNext]_trialVars => IInv'
<1> SUFFICES ASSUME IInv, [TrialNext]_trialVars PROVE IInv'
  OBVIOUS
<1> USE DEF IInv
<1>1. ASSUME UNCHANGED <<task, world, log>>
      PROVE  /\ task' \in Tasks /\ log' \in Seq(Entries)' /\ (\E H : Told(H))'
             /\ UNCHANGED [j \in DOMAIN log |-> Size(log[j].outcome)]
             /\ UNCHANGED Trim!Kept([j \in DOMAIN log |-> Size(log[j].outcome)])
  <2>1. Entries' = Entries
    BY <1>1 DEF Entries
  <2>2. PICK H : Told(H)
    OBVIOUS
  <2>3. Told(H)'
    BY <1>1, <2>2 DEF Told
  <2>4. QED
    BY <1>1, <2>1, <2>3
<1>2. ASSUME UNCHANGED <<task, world, log, stop, answer>> PROVE Trajectory' = Trajectory
  BY <1>2 DEF Trajectory
<1>3. CASE Ask
  <2>1. UNCHANGED <<task, world, log, stop, answer, grade>>
    BY <1>3 DEF Ask
  <2>2. kept' = Trim!Kept([j \in DOMAIN log |-> Size(log[j].outcome)])
    BY <1>3 DEF Ask, Trim!Request
  <2>3. (Graded => stop # "none" /\ grade = Grade(task.verification, Trajectory))'
    BY <1>2, <2>1 DEF Graded
  <2>4. QED
    BY <1>1, <2>1, <2>2, <2>3
<1>4. CASE ToolCalls
  <2>1. UNCHANGED <<task, answer, grade>> /\ stop = "none"
    BY <1>4 DEF ToolCalls
  <2>2. turn' # "answer"
    BY <1>4 DEF ToolCalls
  <2>3. PICK n \in 1 .. MaxBatch : \E batch \in [1 .. n -> task.calls] :
          LET worlds == Worlds(batch, world)
          IN /\ world' = worlds[n]
             /\ log' = log \o [i \in 1 .. n |-> Done(batch[i], worlds[i - 1])]
    BY <1>4 DEF ToolCalls
  <2>4. PICK batch \in [1 .. n -> task.calls] :
          LET worlds == Worlds(batch, world)
          IN /\ world' = worlds[n]
             /\ log' = log \o [i \in 1 .. n |-> Done(batch[i], worlds[i - 1])]
    BY <2>3
  <2>5. n \in Nat \ {0}
    BY TrialAssumption
  <2>6. PICK H : Told(H)
    OBVIOUS
  <2>7. log' \in Seq(Entries)' /\ \E G : Told(G)'
    BY <2>1, <2>5, <2>6, <2>4, AnswerTold
  <2>8. ~Graded'
    BY <2>1 DEF Graded
  <2>9. QED
    BY <2>1, <2>2, <2>7, <2>8
<1>5. CASE FinalMessage \/ Unparsable
  <2>1. UNCHANGED <<task, world, log, kept, turn, grade>> /\ ~Graded
    BY <1>5 DEF FinalMessage, Unparsable
  <2>2. ~Graded'
    BY <2>1 DEF Graded
  <2>3. QED
    BY <1>1, <2>1, <2>2
<1>6. CASE GradeRun
  <2>1. UNCHANGED <<task, world, log, kept, turn, stop, answer>> /\ stop # "none"
    BY <1>6 DEF GradeRun
  <2>2. grade' = Grade(task.verification, Trajectory)
    BY <1>6 DEF GradeRun
  <2>3. Trajectory' = Trajectory
    BY <1>2, <2>1
  <2>4. QED
    BY <1>1, <2>1, <2>2, <2>3
<1>7. CASE UNCHANGED trialVars
  <2>1. UNCHANGED <<task, world, log, kept, turn, stop, answer, grade>>
    BY <1>7 DEF trialVars
  <2>2. Trajectory' = Trajectory
    BY <1>2, <2>1
  <2>3. Graded' = Graded
    BY <2>1 DEF Graded
  <2>4. QED
    BY <1>1, <2>1, <2>2, <2>3
<1>8. QED
  BY <1>3, <1>4, <1>5, <1>6, <1>7 DEF TrialNext

-----------------------------------------------------------------------------
(* The log explains the world.                                             *)

Writing(j, c) ==
  /\ log[j].call.name \in Creates \cup Sets
  /\ Container(log[j].call) = c /\ Succeeded(j)

\* What the first m calls created, and which of them wrote a record.
Made(m, c)      == {j \in 1 .. m : log[j].call.name \in Creates /\ Writing(j, c)}
Wrote(m, c, id) == {j \in 1 .. m : Writing(j, c) /\ log[j].outcome.ids = {id}}

\* W is what the first m calls made of a container.
Domains(W, m, c) ==
  DOMAIN W = DOMAIN task.initial[c] \cup (UNION {log[j].outcome.ids : j \in Made(m, c)})
Distinct(m, c) ==
  \A j \in Made(m, c) : \E id :
    /\ log[j].outcome.ids = {id} /\ id \notin DOMAIN task.initial[c]
    /\ \A k \in Made(m, c) : k # j => log[k].outcome.ids # {id}
Fields(W, m, c) ==
  \A j \in Made(m, c) : \A id \in log[j].outcome.ids : \A field \in DOMAIN log[j].call.args :
    /\ field # "status" /\ field \in DOMAIN W[id]
    /\ W[id][field] = log[j].call.args[field]
Statuses(W, m, c) ==
  c = "tickets" => \A id \in DOMAIN W :
    /\ Wrote(m, c, id) = {} => W[id] = task.initial[c][id]
    /\ \A j \in Wrote(m, c, id) :
         (\A k \in Wrote(m, c, id) : k <= j) => W[id].status = StatusOf(log[j].call)
Written(W, m, c) == \A j \in 1 .. m : Writing(j, c) => log[j].outcome.ids \subseteq DOMAIN W

Explained(W, m, c) ==
  /\ Domains(W, m, c) /\ Distinct(m, c) /\ Fields(W, m, c)
  /\ Statuses(W, m, c) /\ Written(W, m, c)

\* What one call more creates and writes.
LEMMA OneCallMore ==
  ASSUME NEW m \in Nat, NEW c
  PROVE  /\ Made(m + 1, c) = IF log[m + 1].call.name \in Creates /\ Writing(m + 1, c)
                             THEN Made(m, c) \cup {m + 1} ELSE Made(m, c)
         /\ \A id : Wrote(m + 1, c, id) =
              IF Writing(m + 1, c) /\ log[m + 1].outcome.ids = {id}
              THEN Wrote(m, c, id) \cup {m + 1} ELSE Wrote(m, c, id)
         /\ m + 1 \notin Made(m, c) /\ Made(m, c) \subseteq 1 .. m
         /\ \A id : Wrote(m, c, id) \subseteq 1 .. m
<1>1. 1 .. m + 1 = (1 .. m) \cup {m + 1} /\ m + 1 \notin 1 .. m
  OBVIOUS
<1>2. QED
  BY <1>1 DEF Made, Wrote

\* Before the first call, the container is the task's.
LEMMA NothingExplained ==
  ASSUME NEW c
  PROVE  Explained(task.initial[c], 0, c)
<1>1. Made(0, c) = {} /\ (\A id : Wrote(0, c, id) = {}) /\ 1 .. 0 = {}
  BY DEF Made, Wrote
<1>2. Domains(task.initial[c], 0, c)
  BY <1>1 DEF Domains
<1>3. QED
  BY <1>1, <1>2 DEF Explained, Distinct, Fields, Statuses, Written

\* A call that does not write to it leaves it explained.
LEMMA QuietExplained ==
  ASSUME NEW m \in Nat, NEW c, NEW W, Explained(W, m, c), ~Writing(m + 1, c)
  PROVE  Explained(W, m + 1, c)
<1>1. Made(m + 1, c) = Made(m, c) /\ \A id : Wrote(m + 1, c, id) = Wrote(m, c, id)
  BY OneCallMore
<1>2. \A j \in 1 .. m + 1 : j = m + 1 \/ j \in 1 .. m
  OBVIOUS
<1>3. Domains(W, m + 1, c) /\ Distinct(m + 1, c) /\ Fields(W, m + 1, c)
  <2>1. Domains(W, m + 1, c)
    BY <1>1 DEF Explained, Domains
  <2>2. Distinct(m + 1, c)
    BY <1>1 DEF Explained, Distinct
  <2>3. Fields(W, m + 1, c)
    BY <1>1 DEF Explained, Fields
  <2>4. QED
    BY <2>1, <2>2, <2>3
<1>4. Statuses(W, m + 1, c)
  BY <1>1 DEF Explained, Statuses
<1>5. Written(W, m + 1, c)
  BY <1>2 DEF Explained, Written
<1>6. QED
  BY <1>3, <1>4, <1>5 DEF Explained

\* A call that creates a record in it.
LEMMA CreateExplained ==
  ASSUME NEW m \in Nat, NEW c, NEW W, Explained(W, m, c), Writing(m + 1, c),
         log[m + 1].call.name \in Creates, NEW id, log[m + 1].outcome.ids = {id},
         id \notin DOMAIN W, NEW record, MadeOf(log[m + 1].call, record),
         c = "tickets" => log[m + 1].call.name = "create_ticket"
  PROVE  Explained(Put(W, id, record), m + 1, c)
<1> DEFINE V == Put(W, id, record)
           n == m + 1
           first == DOMAIN task.initial[c]
<1>1. /\ Made(n, c) = Made(m, c) \cup {n} /\ n \notin Made(m, c)
      /\ Made(m, c) \subseteq 1 .. m
      /\ Wrote(n, c, id) = Wrote(m, c, id) \cup {n}
      /\ Wrote(m, c, id) \subseteq 1 .. m
  BY OneCallMore
<1>2. \A x : x # id => Wrote(n, c, x) = Wrote(m, c, x)
  BY OneCallMore
<1>3. DOMAIN V = DOMAIN W \cup {id} /\ V[id] = record /\ \A x \in DOMAIN W : V[x] = W[x]
  <2>1. V = Put(W, id, record)
    OBVIOUS
  <2> HIDE DEF V
  <2>2. QED
    <3>1. PutOf(V, W, id, record)
      BY <2>1, PutIs
    <3>2. QED
      BY <3>1 DEF PutOf
<1>4. n \in Nat /\ \A j \in 1 .. n : j = n \/ j \in 1 .. m
  OBVIOUS
<1>5. n > m /\ \A j \in 1 .. m : ~(n <= j)
  OBVIOUS
<1> HIDE DEF V, n
<1>6. /\ log[n].outcome.ids = {id} /\ MadeOf(log[n].call, record) /\ Writing(n, c)
      /\ log[n].call.name \in Creates
      /\ c = "tickets" => log[n].call.name = "create_ticket"
  BY DEF n
<1>7. \A j \in Made(m, c) : log[j].outcome.ids \subseteq DOMAIN W
  BY DEF Explained, Domains
<1>8. first \subseteq DOMAIN W
  BY DEF Explained, Domains
<1>9. Domains(V, n, c)
  <2>1. DOMAIN W = first \cup (UNION {log[j].outcome.ids : j \in Made(m, c)})
    BY DEF Explained, Domains
  <2>2. UNION {log[j].outcome.ids : j \in Made(n, c)} =
          (UNION {log[j].outcome.ids : j \in Made(m, c)}) \cup {id}
    BY <1>1, <1>6
  <2>3. QED
    BY <1>3, <2>1, <2>2 DEF Domains
<1>10. Distinct(n, c)
  <2>1. ASSUME NEW j \in Made(n, c)
        PROVE  \E x : /\ log[j].outcome.ids = {x} /\ x \notin first
                      /\ \A k \in Made(n, c) : k # j => log[k].outcome.ids # {x}
    <3>1. CASE j = n
      <4>1. \A k \in Made(n, c) : k # j => log[k].outcome.ids # {id}
        BY <1>1, <1>7, <3>1
      <4>2. QED
        BY <1>6, <1>8, <3>1, <4>1
    <3>2. CASE j # n
      <4>1. j \in Made(m, c)
        BY <1>1, <3>2
      <4>2. PICK x : /\ log[j].outcome.ids = {x} /\ x \notin first
                     /\ \A k \in Made(m, c) : k # j => log[k].outcome.ids # {x}
        BY <4>1 DEF Explained, Distinct
      <4>3. x # id
        BY <1>7, <4>1, <4>2
      <4>4. \A k \in Made(n, c) : k # j => log[k].outcome.ids # {x}
        BY <1>1, <1>6, <4>2, <4>3
      <4>5. QED
        BY <4>2, <4>4
    <3>3. QED
      BY <3>1, <3>2
  <2>2. QED
    BY <2>1 DEF Distinct
<1>11. Fields(V, n, c)
  <2>1. ASSUME NEW j \in Made(n, c), NEW x \in log[j].outcome.ids,
               NEW field \in DOMAIN log[j].call.args
        PROVE  /\ field # "status" /\ field \in DOMAIN V[x]
               /\ V[x][field] = log[j].call.args[field]
    <3>1. CASE j = n
      <4>1. x = id /\ V[x] = record
        BY <1>3, <1>6, <3>1
      <4>2. QED
        BY <1>6, <3>1, <4>1 DEF MadeOf
    <3>2. CASE j # n
      <4>1. j \in Made(m, c)
        BY <1>1, <3>2
      <4>2. x \in DOMAIN W
        BY <1>7, <4>1
      <4>3. V[x] = W[x]
        BY <1>3, <4>2
      <4>4. /\ field # "status" /\ field \in DOMAIN W[x]
            /\ W[x][field] = log[j].call.args[field]
        BY <4>1 DEF Explained, Fields
      <4>5. QED
        BY <4>3, <4>4
    <3>3. QED
      BY <3>1, <3>2
  <2>2. QED
    BY <2>1 DEF Fields
<1>12. Statuses(V, n, c)
  <2>1. SUFFICES ASSUME c = "tickets", NEW x \in DOMAIN V
                 PROVE  /\ Wrote(n, c, x) = {} => V[x] = task.initial[c][x]
                        /\ \A j \in Wrote(n, c, x) :
                             (\A k \in Wrote(n, c, x) : k <= j)
                               => V[x].status = StatusOf(log[j].call)
    BY DEF Statuses
  <2>2. CASE x = id
    <3>1. n \in Wrote(n, c, x)
      BY <1>1, <2>2
    <3>2. \A j \in Wrote(n, c, x) : j = n \/ ~(n <= j)
      BY <1>1, <1>5, <2>2
    <3>3. V[x].status = StatusOf(log[n].call)
      BY <1>3, <1>6, <2>1, <2>2 DEF MadeOf, StatusOf
    <3>4. QED
      BY <3>1, <3>2, <3>3
  <2>3. CASE x # id
    <3>1. x \in DOMAIN W /\ V[x] = W[x] /\ Wrote(n, c, x) = Wrote(m, c, x)
      BY <1>2, <1>3, <2>3
    <3>2. QED
      BY <2>1, <3>1 DEF Explained, Statuses
  <2>4. QED
    BY <2>2, <2>3
<1>13. Written(V, n, c)
  <2>1. ASSUME NEW j \in 1 .. n, Writing(j, c) PROVE log[j].outcome.ids \subseteq DOMAIN V
    <3>1. CASE j = n
      BY <1>3, <1>6, <3>1
    <3>2. CASE j \in 1 .. m
      BY <1>3, <2>1, <3>2 DEF Explained, Written
    <3>3. QED
      BY <1>4, <3>1, <3>2
  <2>2. QED
    BY <2>1 DEF Written
<1>14. QED
  BY <1>9, <1>10, <1>11, <1>12, <1>13 DEF Explained, V, n

\* A call that sets the status of a ticket.
LEMMA SetExplained ==
  ASSUME NEW m \in Nat, NEW W, Explained(W, m, "tickets"), Writing(m + 1, "tickets"),
         log[m + 1].call.name \notin Creates, NEW id, log[m + 1].outcome.ids = {id},
         id \in DOMAIN W
  PROVE  Explained(Put(W, id, Put(W[id], "status", StatusOf(log[m + 1].call))), m + 1,
                   "tickets")
<1> DEFINE record == Put(W[id], "status", StatusOf(log[m + 1].call))
           V == Put(W, id, record)
           n == m + 1
           c == "tickets"
<1>1. /\ Made(n, c) = Made(m, c)
      /\ Wrote(n, c, id) = Wrote(m, c, id) \cup {n}
      /\ Wrote(m, c, id) \subseteq 1 .. m
  BY OneCallMore
<1>2. \A x : x # id => Wrote(n, c, x) = Wrote(m, c, x)
  BY OneCallMore
<1>3. DOMAIN V = DOMAIN W /\ V[id] = record /\ \A x \in DOMAIN W \ {id} : V[x] = W[x]
  <2> HIDE DEF record
  <2>1. V = Put(W, id, record)
    OBVIOUS
  <2> HIDE DEF V
  <2>2. QED
    <3>1. PutOf(V, W, id, record)
      BY <2>1, PutIs
    <3>2. QED
      BY <3>1 DEF PutOf
<1>4. n \in Nat /\ \A j \in 1 .. n : j = n \/ j \in 1 .. m
  OBVIOUS
<1>5. \A j \in 1 .. m : ~(n <= j)
  OBVIOUS
<1>6. /\ record["status"] = StatusOf(log[n].call)
      /\ DOMAIN record = DOMAIN W[id] \cup {"status"}
      /\ \A f \in DOMAIN W[id] : f # "status" => record[f] = W[id][f]
  <2> DEFINE d == W[id]
             value == StatusOf(log[n].call)
  <2>1. record = Put(d, "status", value)
    OBVIOUS
  <2> HIDE DEF record, d, value
  <2>2. /\ DOMAIN record = DOMAIN d \cup {"status"} /\ record["status"] = value
        /\ \A f \in DOMAIN d : f # "status" => record[f] = d[f]
    <3>1. PutOf(record, d, "status", value)
      BY <2>1, PutIs
    <3>2. QED
      BY <3>1 DEF PutOf
  <2>3. QED
    BY <2>2 DEF d, value
<1> HIDE DEF V, n, record
<1>7. log[n].outcome.ids = {id} /\ Writing(n, c)
  BY DEF n
<1>8. Domains(V, n, c) /\ Distinct(n, c)
  <2>1. Domains(V, n, c)
    BY <1>1, <1>3 DEF Explained, Domains
  <2>2. Distinct(n, c)
    BY <1>1 DEF Explained, Distinct
  <2>3. QED
    BY <2>1, <2>2
<1>9. \A j \in Made(m, c) : log[j].outcome.ids \subseteq DOMAIN W
  BY DEF Explained, Domains
<1>10. Fields(V, n, c)
  <2>1. ASSUME NEW j \in Made(n, c), NEW x \in log[j].outcome.ids,
               NEW field \in DOMAIN log[j].call.args
        PROVE  /\ field # "status" /\ field \in DOMAIN V[x]
               /\ V[x][field] = log[j].call.args[field]
    <3>1. /\ field # "status" /\ field \in DOMAIN W[x]
          /\ W[x][field] = log[j].call.args[field]
      BY <1>1 DEF Explained, Fields
    <3>2. x \in DOMAIN W
      BY <1>1, <1>9
    <3>3. CASE x = id
      BY <1>3, <1>6, <3>1, <3>3
    <3>4. CASE x # id
      <4>1. V[x] = W[x]
        BY <1>3, <3>2, <3>4
      <4>2. QED
        BY <3>1, <4>1
    <3>5. QED
      BY <3>3, <3>4
  <2>2. QED
    BY <2>1 DEF Fields
<1>11. Statuses(V, n, c)
  <2>1. SUFFICES ASSUME NEW x \in DOMAIN V
                 PROVE  /\ Wrote(n, c, x) = {} => V[x] = task.initial[c][x]
                        /\ \A j \in Wrote(n, c, x) :
                             (\A k \in Wrote(n, c, x) : k <= j)
                               => V[x].status = StatusOf(log[j].call)
    BY DEF Statuses
  <2>2. CASE x = id
    <3>1. n \in Wrote(n, c, x)
      BY <1>1, <2>2
    <3>2. \A j \in Wrote(n, c, x) : j = n \/ ~(n <= j)
      BY <1>1, <1>5, <2>2
    <3>3. V[x].status = StatusOf(log[n].call)
      BY <1>3, <1>6, <2>2
    <3>4. QED
      BY <3>1, <3>2, <3>3
  <2>3. CASE x # id
    <3>1. x \in DOMAIN W /\ V[x] = W[x] /\ Wrote(n, c, x) = Wrote(m, c, x)
      BY <1>2, <1>3, <2>3
    <3>2. QED
      BY <2>1, <3>1 DEF Explained, Statuses
  <2>4. QED
    BY <2>2, <2>3
<1>12. Written(V, n, c)
  <2>1. ASSUME NEW j \in 1 .. n, Writing(j, c) PROVE log[j].outcome.ids \subseteq DOMAIN V
    <3>1. CASE j = n
      BY <1>3, <1>7, <3>1
    <3>2. CASE j \in 1 .. m
      BY <1>3, <2>1, <3>2 DEF Explained, Written
    <3>3. QED
      BY <1>4, <3>1, <3>2
  <2>2. QED
    BY <2>1 DEF Written
<1>13. QED
  BY <1>8, <1>10, <1>11, <1>12 DEF Explained, V, n, record

\* What one call more makes of a container.
LEMMA CallExplained ==
  ASSUME NEW m \in Nat, NEW c \in {"tickets", "emails"}, NEW w, NEW v, IsWorld(w),
         Explained(w[c], m, c), Effect(log[m + 1].call, w, v, log[m + 1].outcome)
  PROVE  Explained(v[c], m + 1, c)
<1> DEFINE n == m + 1
           call == log[n].call
           o == log[n].outcome
<1>1. Effect(call, w, v, o)
  OBVIOUS
<1>2. CASE call.name \in Creates /\ o.error = "none"
  <2>1. PICK id : o.ids = {id} /\ CreatesIn(Container(call), call, w, v, id)
    BY <1>1, <1>2 DEF Effect
  <2>2. CASE Container(call) = c
    <3>1. PICK record : MadeOf(call, record) /\ v[c] = Put(w[c], id, record)
      BY <2>1, <2>2 DEF CreatesIn
    <3>2. id \notin DOMAIN w[c]
      <4>1. DOMAIN w[c] \in SUBSET Nat /\ IsFiniteSet(DOMAIN w[c])
        BY WorldParts
      <4>2. NextId(w[c]) \notin DOMAIN w[c]
        BY <4>1, NextIdIsNew
      <4>3. QED
        BY <2>1, <2>2, <4>2 DEF CreatesIn
    <3>3. Writing(n, c)
      BY <1>2, <2>2 DEF Writing, Succeeded
    <3>4. c = "tickets" => call.name = "create_ticket"
      BY <1>2, <2>2 DEF Container, Creates, Sets
    <3>5. Explained(Put(w[c], id, record), n, c)
      BY <1>2, <2>1, <3>1, <3>2, <3>3, <3>4, CreateExplained
    <3>6. QED
      BY <3>1, <3>5
  <2>3. CASE Container(call) # c
    <3>1. ~Writing(n, c)
      BY <2>3 DEF Writing
    <3>2. v[c] = w[c]
      BY <2>1, <2>3 DEF CreatesIn
    <3>3. Explained(w[c], n, c)
      BY <3>1, QuietExplained
    <3>4. QED
      BY <3>2, <3>3
  <2>4. QED
    BY <2>2, <2>3
<1>3. CASE call.name \in Sets /\ o.error = "none"
  <2>1. call.name \notin Creates /\ Container(call) = "tickets"
    BY <1>3 DEF Sets, Creates, Container
  <2>2. PICK id : o.ids = {id} /\ SetsIn(call, w, v, id)
    BY <1>1, <1>3, <2>1 DEF Effect
  <2>3. CASE c = "tickets"
    <3>1. Writing(n, "tickets")
      BY <1>3, <2>1 DEF Writing, Succeeded
    <3>2. id \in DOMAIN w["tickets"]
      BY <2>2 DEF SetsIn
    <3> DEFINE d == w["tickets"]
    <3>3. Explained(d, m, "tickets") /\ id \in DOMAIN d
      BY <2>3, <3>2
    <3> HIDE DEF d
    <3>4. Explained(Put(d, id, Put(d[id], "status", StatusOf(call))), n, "tickets")
      BY <2>1, <2>2, <3>1, <3>3, SetExplained
    <3>5. v["tickets"] = Put(d, id, Put(d[id], "status", StatusOf(call)))
      BY <2>2 DEF SetsIn, d
    <3> HIDE DEF n, call
    <3>6. Explained(v["tickets"], n, "tickets")
      BY <3>4, <3>5
    <3>7. QED
      BY <2>3, <3>6 DEF n
  <2>4. CASE c = "emails"
    <3>1. ~Writing(n, c)
      BY <2>1, <2>4 DEF Writing
    <3>2. v[c] = w[c]
      BY <2>2, <2>4 DEF SetsIn
    <3>3. Explained(w[c], n, c)
      BY <3>1, QuietExplained
    <3>4. QED
      BY <3>2, <3>3
  <2>5. QED
    BY <2>3, <2>4
<1>4. CASE ~(call.name \in Creates \cup Sets /\ o.error = "none")
  <2>1. ~Writing(n, c)
    BY <1>4 DEF Writing, Succeeded
  <2>2. v = w
    BY <1>1, <1>4 DEF Effect
  <2>3. QED
    BY <2>1, <2>2, QuietExplained
<1>5. QED
  BY <1>2, <1>3, <1>4

\* The log explains the containers of the world.
LEMMA WorldExplained ==
  ASSUME task \in Tasks, log \in Seq(Entries), NEW H, Told(H),
         NEW c \in {"tickets", "emails"}
  PROVE  Explained(world[c], Len(log), c)
<1> DEFINE n == Len(log)
           S == {m \in 0 .. n : Explained(H[m][c], m, c)}
<1>1. n \in Nat
  OBVIOUS
<1>2. 0 \in S
  BY <1>1, NothingExplained DEF Told
<1>3. ASSUME NEW m \in 0 .. n - 1, m \in S PROVE m + 1 \in S
  <2> DEFINE j == m + 1
  <2>1. j \in 1 .. n /\ j - 1 = m /\ m \in 0 .. n /\ j \in 0 .. n /\ m \in Nat
    BY <1>1
  <2>2. IsWorld(H[m])
    BY <2>1, ToldWorlds
  <2> DEFINE call == log[j].call
             a == Applied(call, H[m])
  <2>3. Effect(call, H[m], a.world, a.outcome)
    BY <2>2, AppliedEffect
  <2>4. H[j] = a.world /\ log[j].outcome = a.outcome
    <3> HIDE DEF j
    <3>1. /\ log[j] = Done(log[j].call, H[j - 1])
          /\ H[j] = Applied(log[j].call, H[j - 1]).world
      BY <2>1 DEF Told
    <3>2. log[j].outcome = Applied(log[j].call, H[j - 1]).outcome
      BY <3>1 DEF Done
    <3>3. QED
      BY <2>1, <3>1, <3>2
  <2> HIDE DEF a
  <2>5. Effect(call, H[m], H[j], log[j].outcome)
    BY <2>3, <2>4
  <2>6. Explained(H[m][c], m, c)
    BY <1>3
  <2>7. Explained(H[j][c], m + 1, c)
    BY <2>1, <2>2, <2>5, <2>6, CallExplained
  <2>8. QED
    BY <2>1, <2>7
<1> HIDE DEF S
<1>4. 0 .. n \subseteq S
  <2> HIDE DEF n
  <2>1. QED
    BY <1>1, <1>2, <1>3, UpTo
<1>5. n \in S
  BY <1>1, <1>4
<1>6. QED
  BY <1>5 DEF S, Told

\* The ids of some calls, each with one of its own.
IdsOf(ids, S)   == UNION {ids[j] : j \in S}
OneIdEach(ids, S) ==
  \A j \in S : \E id : ids[j] = {id} /\ \A k \in S : k # j => ids[k] # {id}

\* There are as many ids as calls if each has its own.
LEMMA AsManyIds ==
  ASSUME NEW S, IsFiniteSet(S), NEW ids, OneIdEach(ids, S)
  PROVE  Cardinality(IdsOf(ids, S)) = Cardinality(S)
<1> USE DEF OneIdEach
<1> DEFINE T == IdsOf(ids, S)
           f == [j \in S |-> CHOOSE id : ids[j] = {id}]
<1>1. \A j \in S : ids[j] = {f[j]}
  <2>1. ASSUME NEW j \in S PROVE ids[j] = {f[j]}
    <3>1. \E id : ids[j] = {id}
      OBVIOUS
    <3>2. f[j] = CHOOSE id : ids[j] = {id}
      OBVIOUS
    <3> HIDE DEF f
    <3>3. QED
      BY <3>1, <3>2
  <2>2. QED
    BY <2>1
<1>2. f \in [S -> T]
  <2>1. \A j \in S : f[j] \in T
    BY <1>1 DEF IdsOf
  <2>2. f = [j \in S |-> f[j]]
    OBVIOUS
  <2> HIDE DEF f, T
  <2>3. QED
    BY <2>1, <2>2
<1> HIDE DEF f
<1>3. \A j, k \in S : f[j] = f[k] => j = k
  BY <1>1
<1>4. \A x \in T : \E j \in S : f[j] = x
  BY <1>1 DEF IdsOf
<1> HIDE DEF T
<1>5. f \in Bijection(S, T)
  BY <1>2, <1>3, <1>4 DEF Bijection, Injection, IsInjective, Surjection
<1>6. ExistsBijection(S, T)
  BY <1>5 DEF ExistsBijection
<1>7. QED
  BY <1>6, FS_Bijection DEF T

CreatedIn(c) ==
  {j \in DOMAIN log : /\ log[j].call.name \in Creates
                      /\ Container(log[j].call) = c
                      /\ Succeeded(j)}
Given(c) == UNION {log[j].outcome.ids : j \in CreatedIn(c)}

Accounted(c) ==
  /\ DOMAIN world[c] = DOMAIN task.initial[c] \cup Given(c)
  /\ Cardinality(Given(c)) = Cardinality(CreatedIn(c))
  /\ DOMAIN task.initial[c] \cap Given(c) = {}
  /\ \A j \in CreatedIn(c) : \A id \in log[j].outcome.ids :
       \A field \in DOMAIN log[j].call.args : world[c][id][field] = log[j].call.args[field]

\* All of it is what the property asks of a container.
LEMMA ContainerExplained ==
  ASSUME log \in Seq(Entries), NEW c \in {"tickets", "emails"},
         Explained(world[c], Len(log), c)
  PROVE  Accounted(c)
<1> DEFINE n == Len(log)
<1>1. n \in Nat /\ DOMAIN log = 1 .. n
  OBVIOUS
<1> DEFINE created == CreatedIn(c)
           given == Given(c)
           W == world[c]
<1>2. created = Made(n, c)
  BY <1>1 DEF Made, Writing, CreatedIn
<1>3. IsFiniteSet(created)
  <2>1. created \subseteq 1 .. n
    BY <1>1 DEF CreatedIn
  <2>2. 1 \in Int /\ n \in Int
    BY <1>1
  <2> HIDE DEF n, created
  <2>3. IsFiniteSet(1 .. n)
    BY <2>2, FS_Interval
  <2>4. QED
    BY <2>1, <2>3, FS_Subset
<1>4. Domains(W, n, c) /\ Distinct(n, c) /\ Fields(W, n, c)
  BY DEF Explained
<1>5. given = UNION {log[j].outcome.ids : j \in created}
  BY DEF Given
<1> HIDE DEF n, created, given
<1>6. DOMAIN W = DOMAIN task.initial[c] \cup given
  BY <1>2, <1>4, <1>5 DEF Domains
<1>7. Cardinality(given) = Cardinality(created)
  <2> DEFINE ids == [j \in created |-> log[j].outcome.ids]
  <2>1. \A j \in created : ids[j] = log[j].outcome.ids
    OBVIOUS
  <2>2. given = IdsOf(ids, created)
    BY <1>5, <2>1 DEF IdsOf
  <2> HIDE DEF ids
  <2>3. ASSUME NEW j \in created
        PROVE  \E id : ids[j] = {id} /\ \A k \in created : k # j => ids[k] # {id}
    <3>1. PICK id : /\ log[j].outcome.ids = {id}
                    /\ \A k \in created : k # j => log[k].outcome.ids # {id}
      BY <1>2, <1>4 DEF Distinct
    <3>2. ids[j] = {id}
      BY <2>1, <3>1
    <3>3. \A k \in created : k # j => ids[k] # {id}
      BY <2>1, <3>1
    <3>4. QED
      BY <3>2, <3>3
  <2>4. OneIdEach(ids, created)
    BY <2>3 DEF OneIdEach
  <2>5. QED
    BY <1>3, <2>2, <2>4, AsManyIds
<1>8. DOMAIN task.initial[c] \cap given = {}
  BY <1>2, <1>4, <1>5 DEF Distinct
<1>9. \A j \in created : \A id \in log[j].outcome.ids :
        \A field \in DOMAIN log[j].call.args : W[id][field] = log[j].call.args[field]
  BY <1>2, <1>4 DEF Fields
<1>10. QED
  BY <1>6, <1>7, <1>8, <1>9 DEF Accounted, created, given

Settled(W, id) ==
  W[id].status =
    IF Writes("tickets", id) = {} THEN task.initial.tickets[id].status
    ELSE LET last == log[Max(Writes("tickets", id))].call
         IN CASE last.name = "create_ticket"  -> "open"
              [] last.name = "update_ticket"  -> last.args.status
              [] last.name = "archive_ticket" -> "archived"

\* The last write of a ticket is the one that tells its status.
LEMMA StatusExplained ==
  ASSUME log \in Seq(Entries), NEW W, Explained(W, Len(log), "tickets"), NEW id \in DOMAIN W
  PROVE  Settled(W, id)
<1> DEFINE n == Len(log)
           S == Writes("tickets", id)
<1>1. n \in Nat /\ DOMAIN log = 1 .. n
  OBVIOUS
<1>2. S = Wrote(n, "tickets", id)
  BY <1>1 DEF Writes, Wrote, Writing
<1>3. Statuses(W, n, "tickets")
  BY DEF Explained
<1>4. S \in SUBSET Nat /\ IsFiniteSet(S)
  <2>1. S \subseteq 1 .. n
    BY <1>2 DEF Wrote
  <2>2. 1 \in Int /\ n \in Int
    BY <1>1
  <2> HIDE DEF n, S
  <2>3. IsFiniteSet(1 .. n)
    BY <2>2, FS_Interval
  <2>4. IsFiniteSet(S)
    BY <2>1, <2>3, FS_Subset
  <2>5. QED
    BY <2>1, <2>4
<1> HIDE DEF S, n
<1>5. CASE S = {}
  <2>1. W[id] = task.initial["tickets"][id]
    BY <1>2, <1>3, <1>5 DEF Statuses
  <2>2. QED
    BY <1>5, <2>1 DEF S, Settled
<1>6. CASE S # {}
  <2> DEFINE last == Max(S)
  <2>1. last \in S /\ \A y \in S : last >= y
    BY <1>4, <1>6, MaxIsLargest
  <2> HIDE DEF last
  <2>2. \A y \in S : y <= last
    BY <1>4, <2>1
  <2>3. W[id].status = StatusOf(log[last].call)
    BY <1>2, <1>3, <2>1, <2>2 DEF Statuses
  <2>4. log[last].call.name \in {"create_ticket", "update_ticket", "archive_ticket"}
    <3>1. /\ log[last].call.name \in Creates \cup Sets
          /\ Container(log[last].call) = "tickets"
      BY <1>2, <2>1 DEF Wrote, Writing
    <3>2. QED
      BY <3>1 DEF Creates, Sets, Container
  <2> DEFINE call == log[last].call
  <2>5. W[id].status = CASE call.name = "create_ticket"  -> "open"
                         [] call.name = "update_ticket"  -> call.args.status
                         [] call.name = "archive_ticket" -> "archived"
    BY <2>3, <2>4 DEF StatusOf
  <2>6. QED
    BY <1>6, <2>5 DEF S, last, Settled
<1>7. QED
  BY <1>5, <1>6

\* The invariant implies each of the properties.
LEMMA LogExplains == IInv => LogExplainsWorld
<1> SUFFICES ASSUME IInv PROVE LogExplainsWorld
  OBVIOUS
<1>1. PICK H : Told(H)
  BY DEF IInv
<1>2. task \in Tasks /\ log \in Seq(Entries)
  BY DEF IInv
<1>3. \A c \in {"tickets", "emails"} : Explained(world[c], Len(log), c)
  BY <1>1, <1>2, WorldExplained
<1>4. /\ world["tickets"] = world.tickets
      /\ task.initial["tickets"] = task.initial.tickets
  OBVIOUS
<1>5. \A c \in {"tickets", "emails"} : Accounted(c)
  BY <1>2, <1>3, ContainerExplained
<1>6. \A id \in DOMAIN world["tickets"] : Settled(world["tickets"], id)
  BY <1>2, <1>3, StatusExplained
<1>7. SUFFICES ASSUME NEW c \in {"tickets", "emails"}
      PROVE  /\ Accounted(c)
             /\ \A id \in DOMAIN world[c] : c = "tickets" => Settled(world.tickets, id)
  BY DEF LogExplainsWorld, Accounted, Given, CreatedIn, Settled
<1>8. QED
  BY <1>4, <1>5, <1>6

-----------------------------------------------------------------------------
(* What a grade says of the run.                                           *)

\* An AllOf passes only if its parts do.
LEMMA ConjunctionPasses ==
  ASSUME NEW parts, Conjunction(parts).passed
  PROVE  \A i \in DOMAIN parts : parts[i].passed
<1>1. \A reason : Fail(reason).passed = FALSE
  BY DEF Fail
<1>2. QED
  BY <1>1 DEF Conjunction

\* It fails for the first part that does.
LEMMA ConjunctionFails ==
  ASSUME NEW parts, DOMAIN parts \in SUBSET Nat, NEW i \in DOMAIN parts, ~parts[i].passed
  PROVE  \E k \in DOMAIN parts :
           /\ ~parts[k].passed /\ k <= i /\ Conjunction(parts) = Fail(parts[k].reason)
<1> DEFINE failing == {k \in DOMAIN parts : ~parts[k].passed}
<1>1. failing \in SUBSET Nat /\ i \in failing /\ failing # {}
  OBVIOUS
<1>2. Conjunction(parts) = Fail(parts[Min(failing)].reason)
  BY <1>1 DEF Conjunction
<1>3. Min(failing) \in failing /\ \A y \in failing : Min(failing) <= y
  <2> HIDE DEF failing
  <2>1. QED
    BY <1>1, MinIsLeast
<1>4. QED
  BY <1>1, <1>2, <1>3

\* The grade of a leaf, as the grade of the run has it.
LEMMA LeafPasses ==
  ASSUME IInv, Graded, grade.passed, NEW v \in ToSet(task.verification)
  PROVE  GradeLeaf(v, Trajectory).passed
<1> DEFINE parts == [i \in DOMAIN task.verification |->
                       GradeLeaf(task.verification[i], Trajectory)]
<1>1. Conjunction(parts).passed
  BY DEF IInv, Grade
<1>2. PICK i \in DOMAIN task.verification : v = task.verification[i]
  BY DEF ToSet
<1>3. \A k \in DOMAIN parts : parts[k].passed
  <2> HIDE DEF parts
  <2>1. QED
    BY <1>1, ConjunctionPasses
<1>4. parts[i].passed
  BY <1>2, <1>3
<1>5. QED
  BY <1>2, <1>4

\* The matched calls are the log's calls, and they lead to one world only.
LEMMA Replays == IInv => MatchedReplays
<1> SUFFICES ASSUME IInv, Graded, grade.passed, NEW v \in LeafSpecs("tool_call_match"),
                    v.match = "exact_sequence"
             PROVE  world = Worlds(v.expected, task.initial)[Len(v.expected)]
  BY DEF MatchedReplays
<1>1. v \in ToSet(task.verification) /\ v.type = "tool_call_match"
  BY DEF LeafSpecs
<1>2. GradeToolCalls(v, Trajectory).passed
  BY <1>1, LeafPasses DEF GradeLeaf
<1>3. \A reason : Fail(reason).passed = FALSE
  BY DEF Fail
<1>4. GradeSequence(Trajectory.calls, v.expected).passed
  BY <1>2, <1>3 DEF GradeToolCalls
<1>5. Trajectory.calls = v.expected
  BY <1>3, <1>4 DEF GradeSequence
<1>6. CallsOf = v.expected
  BY <1>5 DEF Trajectory, CallsOf
<1>7. log \in Seq(Entries) /\ task \in Tasks
  BY DEF IInv
<1>8. PICK H : Told(H)
  BY DEF IInv
<1> DEFINE n == Len(log)
<1>9. n \in Nat /\ Len(CallsOf) = n
  BY <1>7 DEF CallsOf
<1>10. Leads(H, CallsOf, n, task.initial)
  BY <1>7, <1>8, ToldLeads
<1>11. Leads(Worlds(CallsOf, task.initial), CallsOf, n, task.initial)
  BY <1>9, WorldsLead
<1>12. H[n] = world
  BY <1>8 DEF Told
<1> HIDE DEF n
<1>13. H[n] = Worlds(CallsOf, task.initial)[n]
  BY <1>9, <1>10, <1>11, LeadsToTheSame
<1>14. QED
  BY <1>6, <1>9, <1>12, <1>13

\* A run that passes breaches none of its constraints.
LEMMA NoBreach ==
  ASSUME IInv, Graded, grade.passed, NEW type, NEW c \in Constraints(type)
  PROVE  Breach(c, Trajectory) = "none" /\ c.type = type
<1>1. PICK v \in LeafSpecs("trajectory") : c \in ToSet(v.constraints) /\ c.type = type
  BY DEF Constraints
<1>2. v \in ToSet(task.verification) /\ v.type = "trajectory"
  BY DEF LeafSpecs
<1>3. GradePolicy(v, Trajectory).passed
  BY <1>2, LeafPasses DEF GradeLeaf
<1> DEFINE parts == [i \in DOMAIN v.constraints |->
                       LET b == Breach(v.constraints[i], Trajectory)
                       IN IF b = "none" THEN Pass ELSE Fail(b)]
<1>4. Conjunction(parts).passed
  BY <1>3 DEF GradePolicy
<1>5. \A i \in DOMAIN parts : parts[i].passed
  <2> HIDE DEF parts
  <2>1. QED
    BY <1>4, ConjunctionPasses
<1>6. PICK i \in DOMAIN v.constraints : c = v.constraints[i]
  BY <1>1 DEF ToSet
<1>7. parts[i].passed
  BY <1>5
<1>8. \A reason : Fail(reason).passed = FALSE
  BY DEF Fail
<1>9. QED
  BY <1>1, <1>6, <1>7, <1>8

\* A limit on the calls is a number.
LEMMA ConstraintIsOne ==
  ASSUME task \in Tasks, NEW type, NEW c \in Constraints(type)
  PROVE  c.type = "max_tool_calls" => c.n \in Int
<1>1. PICK v \in LeafSpecs("trajectory") : c \in ToSet(v.constraints)
  BY DEF Constraints
<1>2. v \in ToSet(task.verification) /\ v.type = "trajectory"
  BY DEF LeafSpecs
<1>3. IsLeafSpec(v)
  BY <1>2, TrialAssumption
<1>4. QED
  BY <1>1, <1>2, <1>3 DEF IsLeafSpec

\* A leaf of a world is a field of a record in it.
LEMMA LeafIsAField ==
  ASSUME NEW w, w = [tickets |-> w.tickets, emails |-> w.emails],
         NEW c \in {"tickets", "emails"}, NEW id, NEW field, NEW x
  PROVE  <<<<c, id, field>>, x>> \in Leaves(w) <=>
           id \in DOMAIN w[c] /\ field \in DOMAIN w[c][id] /\ x = w[c][id][field]
<1>1. ASSUME NEW d, NEW records
      PROVE  <<<<c, id, field>>, x>> \in LeavesOf(d, records) <=>
               /\ c = d /\ id \in DOMAIN records /\ field \in DOMAIN records[id]
               /\ x = records[id][field]
  BY DEF LeavesOf
<1>2. CASE c = "tickets"
  BY <1>1, <1>2 DEF Leaves
<1>3. CASE c = "emails"
  BY <1>1, <1>3 DEF Leaves
<1>4. QED
  BY <1>2, <1>3

\* A write outside the allowed paths would be a changed path.
LEMMA Clean == IInv => PassIsClean
<1> SUFFICES ASSUME IInv, Graded, grade.passed PROVE PassIsClean
  BY DEF PassIsClean
<1>1. log \in Seq(Entries) /\ task \in Tasks
  BY DEF IInv
<1>2. DOMAIN log = 1 .. Len(log) /\ Len(log) \in Nat
  BY <1>1
<1>3. /\ Trajectory.calls = CallsOf /\ DOMAIN CallsOf = 1 .. Len(log)
      /\ Len(CallsOf) = Len(log) /\ \A j \in DOMAIN log : CallsOf[j].name = log[j].call.name
      /\ Trajectory.initial = task.initial /\ Trajectory.final = world
  BY <1>2 DEF Trajectory, CallsOf
<1>4. ASSUME NEW c \in Constraints("no_tool_call"), NEW j \in DOMAIN log
      PROVE  log[j].call.name # c.name
  <2>1. Breach(c, Trajectory) = "none" /\ c.type = "no_tool_call"
    BY NoBreach
  <2>2. ~\E i \in DOMAIN Trajectory.calls : Trajectory.calls[i].name = c.name
    BY <2>1 DEF Breach
  <2>3. QED
    BY <1>2, <1>3, <2>2
<1>5. ASSUME NEW c \in Constraints("max_tool_calls") PROVE Len(log) <= c.n
  <2>1. Breach(c, Trajectory) = "none" /\ c.type = "max_tool_calls"
    BY NoBreach
  <2>2. ~(Len(Trajectory.calls) > c.n)
    BY <2>1 DEF Breach
  <2>3. c.n \in Int
    BY <1>1, <2>1, ConstraintIsOne
  <2>4. QED
    BY <1>2, <1>3, <2>2, <2>3
<1>6. ASSUME NEW c \in Constraints("only_modifies"), NEW j \in DOMAIN log,
             log[j].call.name \in Creates \cup Sets, Succeeded(j),
             NEW container, container = Container(log[j].call),
             NEW id \in log[j].outcome.ids, NEW field \in DOMAIN world[container][id],
             ~Covered(<<container, id, field>>, c.paths)
      PROVE  /\ id \in DOMAIN task.initial[container]
             /\ task.initial[container][id][field] = world[container][id][field]
  <2>1. Breach(c, Trajectory) = "none" /\ c.type = "only_modifies"
    BY NoBreach
  <2>2. \A path \in Changed(task.initial, world) : Covered(path, c.paths)
    BY <1>3, <2>1 DEF Breach
  <2>3. container \in {"tickets", "emails"}
    BY <1>6 DEF Container
  <2>4. PICK H : Told(H)
    BY DEF IInv
  <2>5. Explained(world[container], Len(log), container)
    BY <1>1, <2>3, <2>4, WorldExplained
  <2>6. Writing(j, container)
    BY <1>6 DEF Writing
  <2>7. id \in DOMAIN world[container]
    BY <1>2, <2>5, <2>6 DEF Explained, Written
  <2>8. IsWorld(world) /\ IsWorld(task.initial)
    BY <1>1, <2>4, ToldWorlds, TrialAssumption
  <2>9. /\ world = [tickets |-> world.tickets, emails |-> world.emails]
        /\ task.initial = [tickets |-> task.initial.tickets, emails |-> task.initial.emails]
    BY <2>8 DEF IsWorld
  <2> DEFINE path == <<container, id, field>>
             x == world[container][id][field]
             leaf == <<path, x>>
  <2>10. leaf \in Leaves(world)
    BY <2>3, <2>7, <2>9, LeafIsAField
  <2>11. leaf[1] = path
    OBVIOUS
  <2> HIDE DEF leaf, path
  <2>12. path \notin Changed(task.initial, world)
    BY <1>6, <2>2 DEF path
  <2>13. leaf \in Leaves(task.initial)
    BY <2>10, <2>11, <2>12 DEF Changed
  <2>14. QED
    BY <2>3, <2>9, <2>13, LeafIsAField DEF leaf, path
<1>7. QED
  BY <1>4, <1>5, <1>6 DEF PassIsClean

\* What the model was told of each call.
LEMMA Answered ==
  ASSUME IInv, NEW j \in DOMAIN log
  PROVE  /\ ErrorOf(log[j].call, log[j].outcome)
         /\ IsFiniteSet(log[j].outcome.ids)
<1>1. log \in Seq(Entries) /\ task \in Tasks
  BY DEF IInv
<1>2. j \in 1 .. Len(log) /\ j - 1 \in 0 .. Len(log)
  BY <1>1
<1>3. PICK H : Told(H)
  BY DEF IInv
<1>4. IsWorld(H[j - 1])
  BY <1>1, <1>2, <1>3, ToldWorlds
<1> DEFINE call == log[j].call
           w == H[j - 1]
<1>5. Effect(call, w, Applied(call, w).world, Applied(call, w).outcome)
  BY <1>4, AppliedEffect
<1>6. log[j].outcome = Applied(call, w).outcome
  <2>1. log[j] = Done(call, w)
    BY <1>2, <1>3 DEF Told
  <2>2. Done(call, w).outcome = Applied(call, w).outcome
    BY DEF Done
  <2> HIDE DEF w
  <2>3. QED
    BY <2>1, <2>2
<1> HIDE DEF w
<1>7. QED
  BY <1>5, <1>6 DEF Effect

\* No grader but that of the calls speaks of the schema, and it only of a
\* call that was refused.
LEMMA SchemaReason ==
  ASSUME NEW v, IsLeafSpec(v), NEW tr, FirstRefusal(tr.calls) = "none"
  PROVE  GradeLeaf(v, tr).reason # "schema_violation"
<1>1. Pass.reason = "none" /\ \A reason : Fail(reason).reason = reason
  BY DEF Pass, Fail
<1>2. CASE v.type = "output_match"
  BY <1>1, <1>2 DEF GradeLeaf, GradeOutput
<1>3. CASE v.type = "final_state"
  BY <1>1, <1>3 DEF GradeLeaf, GradeFinalState
<1>4. CASE v.type = "tool_call_match"
  <2>1. GradeMultiset(tr.calls, v.expected).reason # "schema_violation"
    BY <1>1 DEF GradeMultiset, CountMismatch
  <2>2. GradeSequence(tr.calls, v.expected).reason # "schema_violation"
    BY <1>1 DEF GradeSequence, CountMismatch
  <2>3. GradeToolCalls(v, tr).reason # "schema_violation"
    BY <1>1, <2>1, <2>2 DEF GradeToolCalls
  <2>4. QED
    BY <1>4, <2>3 DEF GradeLeaf
<1>5. CASE v.type = "trajectory"
  <2> DEFINE parts == [i \in DOMAIN v.constraints |->
                         LET b == Breach(v.constraints[i], tr)
                         IN IF b = "none" THEN Pass ELSE Fail(b)]
  <2>1. GradeLeaf(v, tr) = Conjunction(parts)
    BY <1>5 DEF GradeLeaf, GradePolicy
  <2>2. DOMAIN parts \in SUBSET Nat
    BY <1>5 DEF IsLeafSpec
  <2>3. ASSUME NEW i \in DOMAIN parts PROVE parts[i].reason # "schema_violation"
    <3> DEFINE c == v.constraints[i]
    <3>1. c.type \in {"no_tool_call", "max_tool_calls", "only_modifies"}
      BY <1>5 DEF IsLeafSpec, ToSet
    <3> HIDE DEF c
    <3>2. Breach(c, tr) # "schema_violation"
      BY <3>1 DEF Breach
    <3>3. QED
      BY <1>1, <3>2 DEF c
  <2> HIDE DEF parts
  <2>4. CASE \E i \in DOMAIN parts : ~parts[i].passed
    <3>1. PICK k \in DOMAIN parts : Conjunction(parts) = Fail(parts[k].reason)
      BY <2>2, <2>4, ConjunctionFails
    <3>2. QED
      BY <1>1, <2>1, <2>3, <3>1
  <2>5. CASE ~\E i \in DOMAIN parts : ~parts[i].passed
    <3>1. Conjunction(parts) = Pass
      BY <2>5 DEF Conjunction
    <3>2. QED
      BY <1>1, <2>1, <3>1
  <2>6. QED
    BY <2>4, <2>5
<1>6. QED
  BY <1>2, <1>3, <1>4, <1>5 DEF IsLeafSpec

\* The first refused call is the same one for both.
LEMMA Refused == IInv => RefusalIsTheReason
<1> DEFINE refused == {j \in DOMAIN log :
                         log[j].outcome.error \in {"unknown_tool", "invalid_args"}}
           spec == task.verification[1]
<1> SUFFICES ASSUME IInv, Graded, spec.type = "tool_call_match", stop # "parse_failure"
             PROVE  /\ refused # {} =>
                         grade = Fail(IF log[Min(refused)].outcome.error = "unknown_tool"
                                      THEN "wrong_tool" ELSE "schema_violation")
                    /\ refused = {} => grade.reason # "schema_violation"
  BY DEF RefusalIsTheReason
<1>1. log \in Seq(Entries) /\ task \in Tasks
  BY DEF IInv
<1>2. DOMAIN log \in SUBSET Nat
  BY <1>1
<1>3. /\ Trajectory.calls = CallsOf /\ DOMAIN CallsOf = DOMAIN log
      /\ \A j \in DOMAIN log : CallsOf[j] = log[j].call
      /\ Trajectory.malformed = FALSE
  BY DEF Trajectory, CallsOf
<1>4. \A j \in DOMAIN log : ErrorOf(log[j].call, log[j].outcome)
  BY Answered
<1>5. \A call : Refusal(call) \in {"none", "unknown_tool", "invalid_args"}
  BY DEF Refusal
<1>6. refused = {i \in DOMAIN CallsOf : Refusal(CallsOf[i]) # "none"}
  BY <1>3, <1>4, <1>5 DEF ErrorOf
<1> DEFINE parts == [i \in DOMAIN task.verification |->
                       GradeLeaf(task.verification[i], Trajectory)]
<1>7. grade = Conjunction(parts)
  BY DEF IInv, Grade
<1>8. task.verification \in Seq(ToSet(task.verification)) /\ task.verification # <<>>
  BY <1>1, TrialAssumption
<1>9. DOMAIN parts \in SUBSET (Nat \ {0}) /\ 1 \in DOMAIN parts
  BY <1>8
<1>10. ASSUME refused # {}
       PROVE  grade = Fail(IF log[Min(refused)].outcome.error = "unknown_tool"
                           THEN "wrong_tool" ELSE "schema_violation")
  <2> DEFINE j == Min(refused)
  <2>1. j \in refused
    <3>1. refused \in SUBSET Nat
      BY <1>2
    <3> HIDE DEF refused
    <3>2. QED
      BY <1>10, <3>1, MinIsLeast
  <2>2. FirstRefusal(Trajectory.calls) = Refusal(CallsOf[j])
    BY <1>3, <1>6, <1>10 DEF FirstRefusal
  <2> HIDE DEF j
  <2>3. Refusal(CallsOf[j]) = log[j].outcome.error /\ Refusal(CallsOf[j]) # "none"
    <3>1. j \in DOMAIN log /\ Refusal(CallsOf[j]) # "none" /\ CallsOf[j] = log[j].call
      BY <1>3, <1>6, <2>1
    <3>2. ErrorOf(log[j].call, log[j].outcome)
      BY <1>4, <3>1
    <3>3. QED
      BY <3>1, <3>2 DEF ErrorOf
  <2> DEFINE reason == RefusalReason(log[j].outcome.error)
  <2>4. GradeToolCalls(spec, Trajectory) = Fail(reason)
    BY <1>3, <2>2, <2>3 DEF GradeToolCalls
  <2>5. parts[1] = Fail(reason)
    BY <1>9, <2>4 DEF GradeLeaf
  <2>6. parts[1].passed = FALSE /\ parts[1].reason = reason
    BY <2>5 DEF Fail
  <2> HIDE DEF parts, reason
  <2>7. PICK k \in DOMAIN parts : k <= 1 /\ Conjunction(parts) = Fail(parts[k].reason)
    BY <1>9, <2>6, ConjunctionFails
  <2>8. k = 1
    BY <1>9, <2>7
  <2>9. QED
    BY <1>7, <2>6, <2>7, <2>8 DEF reason, RefusalReason, j
<1>11. ASSUME refused = {} PROVE grade.reason # "schema_violation"
  <2>1. FirstRefusal(Trajectory.calls) = "none"
    BY <1>3, <1>6, <1>11 DEF FirstRefusal
  <2>2. ASSUME NEW i \in DOMAIN parts PROVE parts[i].reason # "schema_violation"
    <3>1. task.verification[i] \in ToSet(task.verification)
      BY <1>8
    <3>2. IsLeafSpec(task.verification[i])
      BY <1>1, <3>1, TrialAssumption
    <3>3. GradeLeaf(task.verification[i], Trajectory).reason # "schema_violation"
      BY <2>1, <3>2, SchemaReason
    <3>4. QED
      BY <3>3
  <2>3. Pass.reason = "none" /\ \A reason : Fail(reason).reason = reason
    BY DEF Pass, Fail
  <2> HIDE DEF parts
  <2>4. CASE \E i \in DOMAIN parts : ~parts[i].passed
    <3>1. DOMAIN parts \in SUBSET Nat
      BY <1>9
    <3>2. PICK k \in DOMAIN parts : Conjunction(parts) = Fail(parts[k].reason)
      BY <2>4, <3>1, ConjunctionFails
    <3>3. QED
      BY <1>7, <2>2, <2>3, <3>2
  <2>5. CASE ~\E i \in DOMAIN parts : ~parts[i].passed
    <3>1. Conjunction(parts) = Pass
      BY <2>5 DEF Conjunction
    <3>2. QED
      BY <1>7, <2>3, <3>1
  <2>6. QED
    BY <2>4, <2>5
<1>12. QED
  BY <1>10, <1>11

\* What a request keeps is what the trim keeps of the results.
LEMMA Trims ==
  ASSUME \A outcome : Size(outcome) \in Nat
  PROVE  IInv => TrimsForRoom
<1> SUFFICES ASSUME IInv, turn = "answer" PROVE TrimsForRoom
  BY DEF TrimsForRoom, Trim!KeptFits, Trim!ElidedForRoom
<1> DEFINE n == Len(log)
           s == [j \in DOMAIN log |-> Size(log[j].outcome)]
<1>1. n \in Nat /\ DOMAIN log = 1 .. n
  BY DEF IInv
<1>2. ASSUME NEW j \in DOMAIN log PROVE Size(log[j].outcome) \in Nat
  OBVIOUS
<1>3. s \in [1 .. n -> Nat]
  BY <1>1, <1>2
<1>4. Len(s) = n
  BY <1>1
<1>5. kept = Trim!Kept(s)
  BY DEF IInv
<1>6. Budget \in Nat
  BY TrialAssumption
<1> HIDE DEF n, s
<1>7. /\ n > 0 => /\ n \in kept /\ kept \subseteq 1 .. n
                  /\ Trim!SizeOf(kept, s) <= Budget \/ kept = {n}
      /\ \A j \in (1 .. n) \ kept : Trim!SizeOf({k \in kept : k > j}, s) + s[j] > Budget
  BY <1>1, <1>3, <1>4, <1>5, <1>6, KeptForRoom
<1>8. s # <<>> => n > 0
  BY <1>1, <1>3, <1>4
<1>9. Trim!KeptFits
  BY <1>4, <1>7, <1>8 DEF Trim!KeptFits, s
<1>10. Trim!ElidedForRoom
  BY <1>4, <1>7 DEF Trim!ElidedForRoom, s
<1>11. QED
  BY <1>9, <1>10 DEF TrimsForRoom

-----------------------------------------------------------------------------
(* The theorems.                                                           *)

\* The invariant holds throughout.
THEOREM TrialInvariant == TrialSpec => []IInv
<1>1. TrialInit => IInv
  BY TrialBegins
<1>2. IInv /\ [TrialNext]_trialVars => IInv'
  BY TrialGoesOn
<1>3. QED
  BY <1>1, <1>2, PTL DEF TrialSpec

\* Whatever the model calls, the world a run leaves is the one its log tells of:
\* no record from nowhere, no id given twice, nothing lost (tools/workspace.py).
THEOREM LogIsTheWorld == TrialSpec => []LogExplainsWorld
<1>1. IInv => LogExplainsWorld
  BY LogExplains
<1>2. QED
  BY <1>1, TrialInvariant, PTL

\* A sequence the grader matches would have left the run's world, however the
\* loop split its calls over turns (graders/tool_call.py, runners/loop.py).
THEOREM MatchIsAReplay == TrialSpec => []MatchedReplays
<1>1. IInv => MatchedReplays
  BY Replays
<1>2. QED
  BY <1>1, TrialInvariant, PTL

\* A pass has no forbidden call and no write outside the allowed paths
\* (graders/policy.py).
THEOREM PassesAreClean == TrialSpec => []PassIsClean
<1>1. IInv => PassIsClean
  BY Clean
<1>2. QED
  BY <1>1, TrialInvariant, PTL

\* The tools and the graders, which validate apart, agree on the call a run fails
\* for (tools/workspace.py, graders/tool_call.py).
THEOREM RefusalsAreReasons == TrialSpec => []RefusalIsTheReason
<1>1. IInv => RefusalIsTheReason
  BY Refused
<1>2. QED
  BY <1>1, TrialInvariant, PTL

\* What a request carries fits, and leaves out no result there was room for
\* (runners/history.py).
THEOREM RequestsFit ==
  ASSUME \A outcome : Size(outcome) \in Nat
  PROVE  TrialSpec => []TrimsForRoom
<1>1. IInv => TrimsForRoom
  BY Trims
<1>2. QED
  BY <1>1, TrialInvariant, PTL
==============================================================================
