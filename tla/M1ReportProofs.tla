--------------------------- MODULE M1ReportProofs ---------------------------
(***************************************************************************)
(* Proofs about the two files of a condition (FCampaign) and what          *)
(* report-m1 makes of them (M1Report): whatever was interrupted, a task is *)
(* scored over the K clean runs it had in the last invocation, or void.    *)
(***************************************************************************)
EXTENDS M1Report, FiniteSetTheorems, FunctionTheorems, SequenceTheorems,
        WellFoundedInduction, TLAPS

Fares == {"none", "void", "reliable", "unreliable"}

Row ==
  [task_id : Tasks,
   trajectory : [schema_version : {"2"}, stop_reason : StopReasons,
                 parse_failure : ParseFailures, bound : BOOLEAN],
   grade : [passed : BOOLEAN, failure_reason : {"none", "forbidden_action", "step_limit_exceeded"},
            evidence : Seq(Legs)]]

TypeOK ==
  /\ rows \in [Conds -> Seq(Row)]
  /\ sidecar \in [Conds -> SUBSET Tasks]
  /\ torn \in [Conds -> SUBSET {"runs", "sidecar"}]
  /\ phase \in {"idle", "running", "closing"}
  /\ cond \in Conds
  /\ next \in 1 .. Len(Corpus) + 1
  /\ voids \in SUBSET Tasks
  /\ starts \in 0 .. MaxStarts
  /\ ended \in [Conds -> {"never", "underway", "blocked", "done", "failed", "killed"}]
  /\ earned \in [Conds -> [Tasks -> Fares]]
  /\ cut \in [Conds -> SUBSET Tasks]

-----------------------------------------------------------------------------
(* A file s beside what each task earned, e, in the invocation that wrote  *)
(* it.                                                                     *)

At(s, t)   == {i \in DOMAIN s : s[i].task_id = t}
Good(s, t) == {i \in At(s, t) : ~EnvInvalid(RowToRun(s[i]))}

\* Rows of one task.
RowsOf(s, t) == \A i \in DOMAIN s : s[i].task_id = t

Grade(s, t) ==
  IF \A i \in Good(s, t) : RunPasses(RowToRun(s[i])) THEN "reliable" ELSE "unreliable"

\* The rows of a task say no more than it earned.
Honest(s, e, t) ==
  /\ e[t] = "none" => At(s, t) = {}
  /\ e[t] = "void" => Cardinality(Good(s, t)) < K
  /\ Cardinality(Good(s, t)) >= K =>
       /\ Cardinality(Good(s, t)) = K
       /\ At(s, t) = Good(s, t)
       /\ e[t] = Grade(s, t)

\* ... and no less.
Whole(s, e, t) == e[t] \in {"reliable", "unreliable"} => Cardinality(Good(s, t)) = K

Void(e) == {t \in Tasks : e[t] = "void"}

HonestInv == \A c \in Conds : \A t \in Tasks : Honest(rows[c], earned[c], t)

\* The invocation under way has got as far as its place in the corpus.
RunningInv ==
  phase = "running" =>
    /\ \A i \in DOMAIN rows[cond] : \E j \in 1 .. next - 1 : rows[cond][i].task_id = Corpus[j]
    /\ \A j \in 1 .. next - 1 : earned[cond][Corpus[j]] # "none"
    /\ \A j \in 1 .. Len(Corpus) : j >= next => earned[cond][Corpus[j]] = "none"
    /\ cut[cond] = {}

\* What it will write beside its rows is what they are to be read with, but for
\* the task it was recording.
OpenInv ==
  phase # "idle" =>
    /\ voids \subseteq Void(earned[cond])
    /\ Void(earned[cond]) \subseteq voids \cup cut[cond]
    /\ \A t \in Tasks \ cut[cond] : Whole(rows[cond], earned[cond], t)

Settled(c) == ended[c] # "killed" /\ (phase = "idle" \/ c # cond)

\* The two files of an invocation that was let end belong together.
SettledInv ==
  \A c \in Conds : Settled(c) =>
    /\ sidecar[c] \subseteq Void(earned[c])
    /\ \A t \in Tasks \ cut[c] : Whole(rows[c], earned[c], t)
    /\ \A t \in Void(earned[c]) \ cut[c] : t \in sidecar[c] \/ At(rows[c], t) # {}

\* How an invocation ended tells how much of the corpus it covered.
EndedInv ==
  \A c \in Conds :
    /\ ended[c] = "done" => \A t \in Tasks : earned[c][t] # "none"
    /\ ended[c] = "blocked" => Void(earned[c]) # {}
    /\ ended[c] \in {"done", "blocked"} => cut[c] = {}

IInv == TypeOK /\ HonestInv /\ RunningInv /\ OpenInv /\ SettledInv /\ EndedInv
-----------------------------------------------------------------------------
(* What is read back from a row is the run that was written.               *)

LEMMA RowTyped ==
  ASSUME NEW t \in Tasks, NEW r \in Run
  PROVE  RunToRow(t, r) \in Row /\ RunToRow(t, r).task_id = t
  BY DEF RunToRow, Row, Run

LEMMA RowTask ==
  ASSUME NEW w \in Row
  PROVE  w.task_id \in Tasks
  BY DEF Row

LEMMA ReadBack ==
  ASSUME NEW t, NEW r \in Run
  PROVE  RowToRun(RunToRow(t, r)) = r
<1> DEFINE w == RunToRow(t, r)
<1>1. w.trajectory.stop_reason = r.stop /\ w.trajectory.parse_failure = r.pf
      /\ w.grade.passed = r.passed /\ w.grade.failure_reason = r.reason
      /\ w.grade.evidence = r.legs /\ w.trajectory.bound = r.capped
  BY DEF RunToRow
<1>2. DOMAIN w.trajectory = {"schema_version", "stop_reason", "parse_failure", "bound"}
  BY DEF RunToRow
<1>3. FlagOf(w.trajectory) <=> r.capped
  <2>1. {"schema_version", "bound"} \subseteq DOMAIN w.trajectory
    BY <1>2
  <2> QED BY <2>1, <1>1 DEF FlagOf
<1>4. FlagOf(w.trajectory) = r.capped
  BY <1>3 DEF FlagOf, Run
<1> HIDE DEF w
<1>5. RowToRun(w) = [pf |-> r.pf, stop |-> r.stop, capped |-> r.capped, passed |-> r.passed,
                     reason |-> r.reason, legs |-> r.legs]
  BY <1>1, <1>4 DEF RowToRun
<1>6. r = [pf |-> r.pf, stop |-> r.stop, capped |-> r.capped, passed |-> r.passed,
           reason |-> r.reason, legs |-> r.legs]
  BY DEF Run
<1> QED BY <1>5, <1>6 DEF w

-----------------------------------------------------------------------------
(* Positions.                                                              *)

LEMMA IntervalCard ==
  ASSUME NEW a \in Int, NEW n \in Nat
  PROVE  IsFiniteSet(a + 1 .. a + n) /\ Cardinality(a + 1 .. a + n) = n
  BY FS_Interval

LEMMA OneToCard ==
  ASSUME NEW n \in Nat
  PROVE  IsFiniteSet(1 .. n) /\ Cardinality(1 .. n) = n
  BY FS_Interval

LEMMA PartCard ==
  ASSUME NEW S, NEW P, P \subseteq S, IsFiniteSet(S)
  PROVE  /\ IsFiniteSet(P) /\ Cardinality(P) \in Nat /\ Cardinality(S) \in Nat
         /\ Cardinality(P) <= Cardinality(S)
         /\ P # S => Cardinality(P) < Cardinality(S)
<1>1. P \in SUBSET S
  OBVIOUS
<1>2. IsFiniteSet(P) /\ Cardinality(P) <= Cardinality(S) /\ (Cardinality(S) = Cardinality(P) => S = P)
  BY <1>1, FS_Subset
<1>3. Cardinality(P) \in Nat
  BY <1>2, FS_CardinalityType
<1>4. Cardinality(S) \in Nat
  BY FS_CardinalityType
<1> QED BY <1>2, <1>3, <1>4

LEMMA AtFinite ==
  ASSUME NEW s \in Seq(Row), NEW t
  PROVE  /\ IsFiniteSet(At(s, t)) /\ IsFiniteSet(Good(s, t))
         /\ Cardinality(At(s, t)) \in Nat /\ Cardinality(Good(s, t)) \in Nat
         /\ Cardinality(Good(s, t)) <= Cardinality(At(s, t))
<1>1. IsFiniteSet(DOMAIN s)
  BY FS_Interval, DOMAIN s = 1 .. Len(s), Len(s) \in Nat
<1>2. IsFiniteSet(At(s, t))
  BY <1>1, PartCard DEF At
<1>3. Good(s, t) \subseteq At(s, t)
  BY DEF Good
<1> QED BY <1>2, <1>3, PartCard

\* A set of natural numbers that is not empty has a least member: induction,
\* in the form in which it can be cited.
LEMMA LeastMember ==
  ASSUME NEW T, T \subseteq Nat, T # {}
  PROVE  \E i \in T : \A j \in T : i <= j
<1> DEFINE R == OpToRel(<, Nat)
<1>1. \A i, j \in Nat : j < i => <<j, i>> \in R
  BY DEF OpToRel
<1>2. PICK i \in T : \A j \in T : ~(<<j, i>> \in R)
  BY WFMin, NatLessThanWellFounded
<1> HIDE DEF R
<1>3. ASSUME NEW j \in T PROVE i <= j
  <2>1. i \in Nat /\ j \in Nat
    OBVIOUS
  <2>2. ~(j < i)
    BY <2>1, <1>1, <1>2
  <2> QED BY <2>1, <2>2
<1> QED BY <1>3

LEMMA NthIsIn ==
  ASSUME NEW m \in Nat, NEW S, S \subseteq 1 .. m, NEW n \in 1 .. Cardinality(S)
  PROVE  Nth(S, n) \in S
<1> DEFINE upto(i) == {j \in S : j <= i}
           count(i) == Cardinality(upto(i))
           T == {i \in Nat : count(i) >= n}
<1> HIDE DEF T, count
<1>01. IsFiniteSet(1 .. m)
  BY FS_Interval
<1>02. IsFiniteSet(S) /\ Cardinality(S) \in Nat
  BY <1>01, PartCard
<1>0. n \in Nat /\ n >= 1 /\ \A j \in S : j \in Nat /\ 1 <= j /\ j <= m
  BY <1>02
<1>1. IsFiniteSet(S) /\ n <= Cardinality(S)
  BY <1>02
<1> USE DEF T, count
<1>2. \A i \in Nat : IsFiniteSet(upto(i)) /\ count(i) \in Nat
  BY <1>1, PartCard
<1>3. count(m) = Cardinality(S) /\ count(0) = 0
  <2>1. upto(m) = S
    BY <1>0
  <2>2. \A j \in S : ~(j <= 0)
    BY <1>0
  <2>3. upto(0) = {}
    BY <2>2
  <2> QED BY <2>1, <2>3, FS_EmptySet
<1>4. ASSUME NEW i \in Nat, i # 0
      PROVE  /\ i \in S => count(i) = count(i - 1) + 1
             /\ i \notin S => count(i) = count(i - 1)
  <2>1. \A j \in S : j <= i <=> (j <= i - 1 \/ j = i)
    BY <1>4, <1>0
  <2>2. ~(i <= i - 1) /\ i - 1 \in Nat
    BY <1>4
  <2>3. CASE i \in S
    <3>1. upto(i) = upto(i - 1) \cup {i} /\ i \notin upto(i - 1)
      BY <2>1, <2>2, <2>3
    <3> QED BY <3>1, <2>2, <2>3, <1>2, FS_AddElement
  <2>4. CASE i \notin S
    <3>1. upto(i) = upto(i - 1)
      BY <2>1, <2>4
    <3> QED BY <3>1, <2>4
  <2> QED BY <2>3, <2>4
<1>5. ASSUME NEW i \in S, count(i) = n PROVE Nth(S, n) \in S
  BY <1>5 DEF Nth
<1>6. \A i \in Nat : count(i) \in Nat
  BY <1>2
<1> HIDE DEF count, T
<1>7. PICK i \in T : \A j \in T : i <= j
  <2>1. T \subseteq Nat /\ m \in T
    BY <1>0, <1>1, <1>3, <1>6 DEF T
  <2> QED BY <2>1, LeastMember
<1>8. i \in Nat /\ i # 0 /\ count(i) >= n
  BY <1>0, <1>3 DEF T
<1>9. i - 1 \in Nat /\ count(i - 1) < n
  <2>1. i - 1 \in Nat /\ ~(i <= i - 1)
    BY <1>8
  <2>2. i - 1 \notin T
    BY <2>1, <1>7
  <2> QED BY <2>1, <2>2, <1>0, <1>6 DEF T
<1>10. i \in S /\ count(i) = n
  BY <1>4, <1>6, <1>8, <1>9, <1>0
<1> QED BY <1>5, <1>10

LEMMA NthOfAll ==
  ASSUME NEW m \in Nat, NEW n \in 1 .. m
  PROVE  Nth(1 .. m, n) = n
<1> DEFINE upto(i) == {j \in 1 .. m : j <= i}
<1>1. ASSUME NEW i \in 1 .. m PROVE Cardinality(upto(i)) = i
  <2>1. upto(i) = 1 .. i
    OBVIOUS
  <2>2. Cardinality(1 .. i) = i
    BY FS_Interval
  <2> QED BY <2>1, <2>2
<1>2. \E i \in 1 .. m : Cardinality(upto(i)) = n
  BY <1>1
<1>3. Nth(1 .. m, n) \in 1 .. m /\ Cardinality(upto(Nth(1 .. m, n))) = n
  BY <1>2 DEF Nth
<1> QED BY <1>1, <1>3

-----------------------------------------------------------------------------
(* What a task adds to the file.                                           *)

LEMMA AttemptsTyped ==
  ASSUME FAssumption, NEW c \in Conds, NEW runs \in [1 .. K -> ModelRuns[c]]
  PROVE  runs \in [1 .. K -> Run]
  BY DEF FAssumption

LEMMA CleanRowsFacts ==
  ASSUME FAssumption, NEW t \in Tasks, NEW runs \in [1 .. K -> Run]
  PROVE  LET new == CleanRows(t, runs) IN
         /\ new \in Seq(Row)
         /\ \A i \in DOMAIN new : new[i].task_id = t /\ ~EnvInvalid(RowToRun(new[i]))
         /\ Len(new) <= K
         /\ Fared(runs) = "void" => Len(new) < K
         /\ Fared(runs) # "void" =>
              /\ Len(new) = K
              /\ \A i \in 1 .. K : RowToRun(new[i]) = runs[i]
         /\ Fared(runs) \in {"void", "reliable", "unreliable"}
<1> DEFINE clean == {i \in 1 .. K : ~EnvInvalid(runs[i])}
           new == CleanRows(t, runs)
<1>1. K \in Nat /\ DOMAIN runs = 1 .. K
  BY DEF FAssumption
<1>2. clean \subseteq 1 .. K /\ IsFiniteSet(1 .. K) /\ Cardinality(1 .. K) = K
  <2>1. IsFiniteSet(1 .. K) /\ Cardinality(1 .. K) = K
    BY <1>1, OneToCard
  <2>2. clean \subseteq 1 .. K
    OBVIOUS
  <2> QED BY <2>1, <2>2
<1>3. IsFiniteSet(clean) /\ Cardinality(clean) \in Nat /\ Cardinality(clean) <= K
  <2> HIDE DEF clean
  <2> QED BY <1>2, PartCard
<1>4. new = [n \in 1 .. Cardinality(clean) |-> RunToRow(t, runs[Nth(clean, n)])]
  BY <1>1 DEF CleanRows
<1>5. ASSUME NEW n \in 1 .. Cardinality(clean) PROVE Nth(clean, n) \in clean
  <2> HIDE DEF clean
  <2> QED BY <1>1, <1>2, NthIsIn
<1>6. ASSUME NEW n \in 1 .. Cardinality(clean)
      PROVE  /\ new[n] \in Row /\ new[n].task_id = t
             /\ RowToRun(new[n]) = runs[Nth(clean, n)]
             /\ ~EnvInvalid(RowToRun(new[n]))
  <2>1. Nth(clean, n) \in 1 .. K /\ ~EnvInvalid(runs[Nth(clean, n)])
    BY <1>5
  <2>2. runs[Nth(clean, n)] \in Run
    BY <2>1
  <2>3. new[n] = RunToRow(t, runs[Nth(clean, n)])
    BY <1>4
  <2>4. RowToRun(new[n]) = runs[Nth(clean, n)]
    BY <2>2, <2>3, ReadBack
  <2>5. new[n] \in Row /\ new[n].task_id = t
    BY <2>2, <2>3, RowTyped
  <2> QED BY <2>1, <2>4, <2>5
<1>7. new \in Seq(Row) /\ Len(new) = Cardinality(clean) /\ DOMAIN new = 1 .. Cardinality(clean)
  <2> HIDE DEF clean, new
  <2>1. \A n \in 1 .. Cardinality(clean) : new[n] \in Row
    BY <1>6
  <2>2. new \in [1 .. Cardinality(clean) -> Row]
    BY <1>4, <2>1
  <2> QED BY <2>2, <1>3
<1>8. ASSUME Fared(runs) = "void" PROVE Len(new) < K
  <2>1. PICK i \in 1 .. K : EnvInvalid(runs[i])
    BY <1>8, <1>1 DEF Fared
  <2>2. i \in 1 .. K /\ i \notin clean
    BY <2>1
  <2>3. clean # 1 .. K
    BY <2>2
  <2>4. Cardinality(clean) < K
    <3> HIDE DEF clean
    <3> QED BY <1>2, <2>3, PartCard
  <2> QED BY <2>4, <1>7
<1>9. ASSUME Fared(runs) # "void"
      PROVE  Len(new) = K /\ \A i \in 1 .. K : RowToRun(new[i]) = runs[i]
  <2>1. \A i \in 1 .. K : ~EnvInvalid(runs[i])
    BY <1>9, <1>1 DEF Fared
  <2>2. clean = 1 .. K
    BY <2>1
  <2>3. Cardinality(clean) = K
    BY <2>2, <1>2
  <2>4. Len(new) = K
    BY <2>3, <1>7
  <2>5. ASSUME NEW i \in 1 .. K PROVE RowToRun(new[i]) = runs[i]
    <3>1. Nth(clean, i) = i
      BY <2>2, <1>1, NthOfAll
    <3>2. i \in 1 .. Cardinality(clean)
      BY <2>3
    <3> HIDE DEF clean, new
    <3> QED BY <3>1, <3>2, <1>6
  <2> QED BY <2>4, <2>5
<1>10. Fared(runs) \in {"void", "reliable", "unreliable"}
  BY DEF Fared
<1>11. \A i \in DOMAIN new : new[i].task_id = t /\ ~EnvInvalid(RowToRun(new[i]))
  <2> HIDE DEF clean, new
  <2> QED BY <1>6, <1>7
<1>12. Len(new) <= K
  <2> HIDE DEF clean, new
  <2> QED BY <1>7, <1>3
<1> HIDE DEF clean, new
<1> QED BY <1>7, <1>8, <1>9, <1>10, <1>11, <1>12 DEF new

LEMMA AppendAt ==
  ASSUME NEW s \in Seq(Row), NEW new \in Seq(Row), NEW t,
         RowsOf(new, t)
  PROVE  /\ s \o new \in Seq(Row)
         /\ At(s, t) = {} => At(s \o new, t) = Len(s) + 1 .. Len(s) + Len(new)
         /\ \A i \in Len(s) + 1 .. Len(s) + Len(new) : (s \o new)[i] = new[i - Len(s)]
<1> DEFINE w == s \o new
<1>1. /\ w \in Seq(Row) /\ Len(s) \in Nat /\ Len(new) \in Nat /\ Len(w) = Len(s) + Len(new)
      /\ DOMAIN w = 1 .. Len(s) + Len(new) /\ DOMAIN s = 1 .. Len(s) /\ DOMAIN new = 1 .. Len(new)
  OBVIOUS
<1>2. \A i \in 1 .. Len(s) : w[i] = s[i]
  OBVIOUS
<1>3. \A i \in Len(s) + 1 .. Len(s) + Len(new) : w[i] = new[i - Len(s)] /\ i - Len(s) \in DOMAIN new
  OBVIOUS
<1> HIDE DEF w
<1>4. \A i \in Len(s) + 1 .. Len(s) + Len(new) : w[i].task_id = t
  BY <1>3 DEF RowsOf
<1>8. ASSUME At(s, t) = {} PROVE At(w, t) = Len(s) + 1 .. Len(s) + Len(new)
  <2>1. \A i \in DOMAIN s : w[i].task_id # t
    BY <1>1, <1>2, <1>8 DEF At
  <2>2. \A i : i \in DOMAIN w <=> i \in DOMAIN s \/ i \in Len(s) + 1 .. Len(s) + Len(new)
    BY <1>1
  <2> QED BY <2>1, <2>2, <1>4 DEF At
<1> QED BY <1>1, <1>3, <1>8 DEF w

\* The rows of the other tasks stay as they are.
LEMMA AppendOther ==
  ASSUME NEW s \in Seq(Row), NEW new \in Seq(Row), NEW t,
         RowsOf(new, t),
         NEW u, u # t
  PROVE  /\ At(s \o new, u) = At(s, u)
         /\ Good(s \o new, u) = Good(s, u)
         /\ Grade(s \o new, u) = Grade(s, u)
<1> DEFINE w == s \o new
<1>1. /\ w \in Seq(Row) /\ DOMAIN s = 1 .. Len(s) /\ DOMAIN new = 1 .. Len(new)
      /\ DOMAIN w = 1 .. Len(s) + Len(new) /\ Len(s) \in Nat /\ Len(new) \in Nat
  OBVIOUS
<1>2. \A i \in 1 .. Len(s) : w[i] = s[i]
  OBVIOUS
<1>3. \A i \in Len(s) + 1 .. Len(s) + Len(new) : w[i] = new[i - Len(s)] /\ i - Len(s) \in DOMAIN new
  OBVIOUS
<1> HIDE DEF w
<1>4. \A i \in Len(s) + 1 .. Len(s) + Len(new) : w[i].task_id = t
  BY <1>3 DEF RowsOf
<1>5. At(w, u) = At(s, u)
  <2>1. \A i \in DOMAIN w : w[i].task_id = u => i \in DOMAIN s /\ s[i].task_id = u
    BY <1>1, <1>2, <1>4
  <2>2. \A i \in DOMAIN s : i \in DOMAIN w /\ w[i] = s[i]
    BY <1>1, <1>2
  <2> QED BY <2>1, <2>2 DEF At
<1>6. Good(w, u) = Good(s, u) /\ \A i \in Good(s, u) : w[i] = s[i]
  <2>1. \A i \in At(s, u) : w[i] = s[i]
    BY <1>1, <1>2 DEF At
  <2> QED BY <2>1, <1>5 DEF Good
<1>7. Grade(w, u) = Grade(s, u)
  BY <1>6 DEF Grade
<1> QED BY <1>5, <1>6, <1>7 DEF w

\* The rows of one task, all of them or, after a kill, the first n.
LEMMA TaskHonest ==
  ASSUME FAssumption, NEW s \in Seq(Row), NEW t \in Tasks, At(s, t) = {},
         NEW runs \in [1 .. K -> Run], NEW n \in 0 .. Len(CleanRows(t, runs)),
         NEW e, e[t] = Fared(runs)
  PROVE  LET w == s \o SubSeq(CleanRows(t, runs), 1, n) IN
         /\ w \in Seq(Row)
         /\ Honest(w, e, t)
         /\ n = Len(CleanRows(t, runs)) => Whole(w, e, t)
<1> DEFINE new == CleanRows(t, runs)
           part == SubSeq(new, 1, n)
           w == s \o part
<1>1. /\ new \in Seq(Row)
      /\ \A i \in DOMAIN new : new[i].task_id = t /\ ~EnvInvalid(RowToRun(new[i]))
      /\ Len(new) <= K
      /\ Fared(runs) = "void" => Len(new) < K
      /\ Fared(runs) # "void" => Len(new) = K /\ \A i \in 1 .. K : RowToRun(new[i]) = runs[i]
      /\ Fared(runs) \in {"void", "reliable", "unreliable"}
  BY CleanRowsFacts
<1>2. K \in Nat /\ K >= 1 /\ n \in Nat /\ n <= Len(new)
  <2>1. K \in Nat /\ K >= 1
    BY DEF FAssumption
  <2>2. Len(new) \in Nat
    BY <1>1
  <2> HIDE DEF new
  <2>3. n \in 0 .. Len(new)
    BY DEF new
  <2> QED BY <2>1, <2>2, <2>3
<1> HIDE DEF new
<1>3. /\ part \in Seq(Row) /\ Len(part) = n
      /\ \A i \in 1 .. n : part[i] = new[i] /\ i \in DOMAIN new
      /\ RowsOf(part, t)
  <2>1. part \in Seq(Row) /\ Len(part) = n /\ DOMAIN part = 1 .. n
    BY <1>1, <1>2
  <2>2. \A i \in 1 .. n : part[i] = new[i] /\ i \in DOMAIN new
    BY <1>1, <1>2
  <2> QED BY <2>1, <2>2, <1>1 DEF RowsOf
<1> HIDE DEF part
<1>4. /\ w \in Seq(Row) /\ At(w, t) = Len(s) + 1 .. Len(s) + n
      /\ \A i \in Len(s) + 1 .. Len(s) + n : w[i] = part[i - Len(s)]
  BY <1>3, AppendAt
<1> HIDE DEF w
<1>5. Len(s) \in Nat
  OBVIOUS
<1>6. \A i \in At(w, t) : i - Len(s) \in 1 .. n /\ w[i] = new[i - Len(s)]
  BY <1>3, <1>4, <1>5, <1>2
<1>7. Good(w, t) = At(w, t)
  BY <1>1, <1>3, <1>6 DEF Good
<1>8. Cardinality(Good(w, t)) = n
  <2>1. Cardinality(Len(s) + 1 .. Len(s) + n) = n
    <3> DEFINE a == Len(s)
    <3>1. a \in Int /\ n \in Nat
      BY <1>2, <1>5
    <3> HIDE DEF a
    <3>2. Cardinality(a + 1 .. a + n) = n
      BY <3>1, IntervalCard
    <3> QED BY <3>2 DEF a
  <2> QED BY <2>1, <1>4, <1>7
<1>9. ASSUME n = K
      PROVE  e[t] = Grade(w, t)
  <2>1. Fared(runs) # "void" /\ Len(new) = K /\ \A i \in 1 .. K : RowToRun(new[i]) = runs[i]
    BY <1>1, <1>2, <1>9
  <2>2. Fared(runs) = IF \A i \in 1 .. K : RunPasses(runs[i]) THEN "reliable" ELSE "unreliable"
    BY <2>1 DEF Fared
  <2>3. ASSUME \A i \in 1 .. K : RunPasses(runs[i])
        PROVE  \A i \in Good(w, t) : RunPasses(RowToRun(w[i]))
    BY <2>1, <2>3, <1>6, <1>7, <1>9
  <2>4. ASSUME \A i \in Good(w, t) : RunPasses(RowToRun(w[i])), NEW i \in 1 .. K
        PROVE  RunPasses(runs[i])
    <3>1. Len(s) + i \in Good(w, t) /\ (Len(s) + i) - Len(s) = i
      BY <1>2, <1>4, <1>5, <1>7, <1>9
    <3>2. w[Len(s) + i] = new[i]
      BY <3>1, <1>6, <1>7
    <3> QED BY <3>1, <3>2, <2>1, <2>4
  <2> QED BY <2>2, <2>3, <2>4 DEF Grade
<1>10. Honest(w, e, t)
  <2>1. e[t] # "none"
    BY <1>1
  <2>2. e[t] = "void" => n < K
    BY <1>1, <1>2
  <2>3. n >= K => n = K
    BY <1>1, <1>2
  <2> QED BY <2>1, <2>2, <2>3, <1>7, <1>8, <1>9 DEF Honest
<1>11. n = Len(new) => Whole(w, e, t)
  <2>1. e[t] \in {"reliable", "unreliable"} => Len(new) = K
    BY <1>1
  <2> QED BY <2>1, <1>8 DEF Whole
<1> QED BY <1>4, <1>10, <1>11 DEF w, part, new

-----------------------------------------------------------------------------
(* The rows of a base tree: K a task, one block after the other.           *)

LEMMA Block ==
  ASSUME NEW k \in Nat, k >= 1, NEW a \in Nat
  PROVE  /\ a \div k \in Nat
         /\ (a \div k) * k <= a /\ a < (a \div k) * k + k
         /\ \A q \in Nat : q * k <= a /\ a < q * k + k => a \div k = q
<1>1. a \div k \in Nat
  OBVIOUS
<1>2. (a \div k) * k <= a /\ a < (a \div k) * k + k
  OBVIOUS
<1>3. \A q \in Nat : q * k <= a /\ a < q * k + k => a \div k = q
  OBVIOUS
<1> QED BY <1>1, <1>2, <1>3

LEMMA CorpusFacts ==
  ASSUME FAssumption
  PROVE  /\ Corpus \in Seq(Tasks) /\ Len(Corpus) \in Nat /\ DOMAIN Corpus = 1 .. Len(Corpus)
         /\ Tasks = {Corpus[j] : j \in 1 .. Len(Corpus)}
         /\ \A i, j \in 1 .. Len(Corpus) : Corpus[i] = Corpus[j] => i = j
         /\ K \in Nat /\ K >= 1
<1>1. Corpus \in Seq(Tasks) /\ K \in Nat /\ K >= 1
  BY DEF FAssumption
<1>2. Len(Corpus) \in Nat /\ DOMAIN Corpus = 1 .. Len(Corpus)
  BY <1>1
<1>3. Tasks = {Corpus[j] : j \in 1 .. Len(Corpus)}
  BY <1>2 DEF Tasks, ToSet
<1>4. \A i, j \in 1 .. Len(Corpus) : Corpus[i] = Corpus[j] => i = j
  BY <1>2 DEF FAssumption
<1> QED BY <1>1, <1>2, <1>3, <1>4

\* The task of a row is that of its block.
LEMMA BaseRowAt ==
  ASSUME FAssumption, NEW g \in [Tasks -> BaseRuns]
  PROVE  /\ K * Len(Corpus) \in Nat
         /\ BaseRows(g) \in Seq(Row)
         /\ Len(BaseRows(g)) = K * Len(Corpus)
         /\ \A i \in 1 .. K * Len(Corpus) :
              LET w == BaseRows(g)[i] IN
              w.task_id \in Tasks /\ RowToRun(w) = g[w.task_id]
         /\ \A i \in 1 .. K * Len(Corpus), j \in 1 .. Len(Corpus) :
              BaseRows(g)[i].task_id = Corpus[j] <=> i \in (j - 1) * K + 1 .. (j - 1) * K + K
<1> DEFINE n == Len(Corpus)
           b == BaseRows(g)
<1>1. K \in Nat /\ K >= 1 /\ n \in Nat /\ K * n \in Nat
  BY CorpusFacts
<1>2. ASSUME NEW i \in 1 .. K * n
      PROVE  /\ (i - 1) \div K + 1 \in 1 .. n
             /\ b[i] = RunToRow(Corpus[(i - 1) \div K + 1], g[Corpus[(i - 1) \div K + 1]])
  <2> DEFINE q == (i - 1) \div K
  <2>1. i - 1 \in Nat /\ i - 1 < K * n
    BY <1>1
  <2>2. q \in Nat /\ q * K <= i - 1
    BY <1>1, <2>1, Block
  <2>3. q < n
    <3> HIDE DEF q, n
    <3> SUFFICES ASSUME q >= n PROVE FALSE
      BY <1>1, <2>2
    <3>1. q * K >= K * n
      BY <1>1, <2>2
    <3>2. q * K \in Int /\ K * n \in Int
      BY <1>1, <2>2
    <3> QED BY <3>1, <3>2, <2>1, <2>2
  <2>4. q + 1 \in 1 .. n
    BY <2>2, <2>3, <1>1
  <2>5. b[i] = RunToRow(Corpus[q + 1], g[Corpus[q + 1]])
    BY DEF BaseRows
  <2> QED BY <2>4, <2>5
<1>3. ASSUME NEW i \in 1 .. K * n
      PROVE  /\ b[i] \in Row /\ b[i].task_id = Corpus[(i - 1) \div K + 1]
             /\ b[i].task_id \in Tasks /\ RowToRun(b[i]) = g[b[i].task_id]
  <2> DEFINE t == Corpus[(i - 1) \div K + 1]
  <2>1. t \in Tasks
    BY <1>2, CorpusFacts
  <2>2. g[t] \in Run
    BY <2>1 DEF FAssumption
  <2>3. b[i] = RunToRow(t, g[t])
    BY <1>2
  <2> HIDE DEF t, b
  <2>4. b[i] \in Row /\ b[i].task_id = t
    BY <2>1, <2>2, <2>3, RowTyped
  <2>5. RowToRun(b[i]) = g[t]
    BY <2>2, <2>3, ReadBack
  <2> QED BY <2>1, <2>4, <2>5 DEF t
<1>4. b \in Seq(Row) /\ Len(b) = K * n
  <2>1. b = [i \in 1 .. K * n |-> b[i]]
    BY DEF BaseRows
  <2> HIDE DEF b
  <2>2. b \in [1 .. K * n -> Row]
    BY <2>1, <1>3
  <2> QED BY <2>2, <1>1
<1>5. ASSUME NEW i \in 1 .. K * n, NEW j \in 1 .. n
      PROVE  b[i].task_id = Corpus[j] <=> i \in (j - 1) * K + 1 .. (j - 1) * K + K
  <2> DEFINE q == (i - 1) \div K
             d == (j - 1) * K
  <2>1. i - 1 \in Nat /\ j - 1 \in Nat /\ d \in Nat
    BY <1>1
  <2>2. b[i].task_id = Corpus[j] <=> q + 1 = j
    <3>1. q + 1 \in 1 .. Len(Corpus) /\ b[i].task_id = Corpus[q + 1] /\ j \in 1 .. Len(Corpus)
      BY <1>2, <1>3
    <3> HIDE DEF q, b
    <3>2. Corpus[q + 1] = Corpus[j] => q + 1 = j
      BY <3>1, CorpusFacts
    <3> QED BY <3>1, <3>2
  <2>3. q \in Nat /\ q * K <= i - 1 /\ i - 1 < q * K + K
    BY <1>1, <2>1, Block
  <2>4. q = j - 1 => q * K = d
    OBVIOUS
  <2>5. d <= i - 1 /\ i - 1 < d + K => q = j - 1
    BY <1>1, <2>1, Block
  <2> HIDE DEF q, d
  <2>6. q + 1 = j <=> q = j - 1
    BY <2>3
  <2>7. i \in d + 1 .. d + K <=> d <= i - 1 /\ i - 1 < d + K
    BY <2>1, <1>1
  <2>8. q = j - 1 => d <= i - 1 /\ i - 1 < d + K
    BY <2>3, <2>4
  <2>9. b[i].task_id = Corpus[j] <=> i \in d + 1 .. d + K
    BY <2>2, <2>5, <2>6, <2>7, <2>8
  <2> QED BY <2>9 DEF d
<1> HIDE DEF b
<1>6. \A i \in 1 .. K * n : b[i].task_id \in Tasks /\ RowToRun(b[i]) = g[b[i].task_id]
  BY <1>3
<1>7. \A i \in 1 .. K * n, j \in 1 .. n :
        b[i].task_id = Corpus[j] <=> i \in (j - 1) * K + 1 .. (j - 1) * K + K
  BY <1>5
<1> QED BY <1>1, <1>4, <1>6, <1>7 DEF b

\* The rows of a base tree, all of them or, after a kill, the first n.
BaseCut(s, g, n) == Len(s) = n /\ \A i \in 1 .. n : s[i] = BaseRows(g)[i]

LEMMA BaseHonest ==
  ASSUME FAssumption, NEW g \in [Tasks -> BaseRuns], NEW n \in 0 .. K * Len(Corpus),
         NEW s \in Seq(Row), BaseCut(s, g, n)
  PROVE  /\ BaseFared(g) \in [Tasks -> Fares]
         /\ \A t \in Tasks :
              /\ BaseFared(g)[t] # "none"
              /\ Honest(s, BaseFared(g), t)
              /\ n = K * Len(Corpus) => Whole(s, BaseFared(g), t) /\ At(s, t) # {}
<1> DEFINE e == BaseFared(g)
<1>1. K \in Nat /\ K >= 1 /\ Len(Corpus) \in Nat /\ n \in Nat /\ n <= K * Len(Corpus)
      /\ K * Len(Corpus) \in Nat
  <2>1. K * Len(Corpus) \in Nat
    BY BaseRowAt
  <2> QED BY <2>1, CorpusFacts
<1>2. DOMAIN s = 1 .. n /\ \A i \in 1 .. n : i \in 1 .. K * Len(Corpus) /\ s[i] = BaseRows(g)[i]
  BY <1>1 DEF BaseCut
<1>3. \A i \in 1 .. n : s[i].task_id \in Tasks /\ RowToRun(s[i]) = g[s[i].task_id]
  BY <1>2, BaseRowAt
<1>4. \A i \in 1 .. n, j \in 1 .. Len(Corpus) :
        s[i].task_id = Corpus[j] <=> i \in (j - 1) * K + 1 .. (j - 1) * K + K
  BY <1>2, BaseRowAt
<1>5. ASSUME NEW t \in Tasks
      PROVE  /\ e[t] \in {"void", "reliable", "unreliable"}
             /\ e[t] = "void" <=> EnvInvalid(g[t])
             /\ e[t] # "void" => e[t] = IF RunPasses(g[t]) THEN "reliable" ELSE "unreliable"
  <2>1. e[t] = Fared(<<g[t]>>)
    BY DEF BaseFared
  <2>2. DOMAIN <<g[t]>> = {1} /\ <<g[t]>>[1] = g[t]
    OBVIOUS
  <2> DEFINE one == <<g[t]>>
  <2> HIDE DEF one
  <2>3. DOMAIN one = {1} /\ one[1] = g[t] /\ e[t] = Fared(one)
    BY <2>1, <2>2 DEF one
  <2> QED BY <2>3 DEF Fared
<1>6. ASSUME NEW t \in Tasks
      PROVE  /\ Cardinality(At(s, t)) \in Nat /\ Cardinality(At(s, t)) <= K
             /\ IsFiniteSet(At(s, t)) /\ Cardinality(Good(s, t)) \in Nat
             /\ n = K * Len(Corpus) => Cardinality(At(s, t)) = K /\ At(s, t) # {}
  <2>1. PICK j \in 1 .. Len(Corpus) : t = Corpus[j]
    BY CorpusFacts
  <2> DEFINE d == (j - 1) * K
             block == d + 1 .. d + K
  <2>2. d \in Nat
    BY <1>1
  <2>3. At(s, t) = {i \in 1 .. n : i \in block}
    BY <1>2, <1>4, <2>1 DEF At
  <2>4. n = K * Len(Corpus) => \A i \in block : i \in 1 .. n
    <3>1. d + K <= K * Len(Corpus)
      <4>1. (j - 1) * K + K = j * K /\ j * K <= K * Len(Corpus)
        BY <1>1
      <4> QED BY <4>1
    <3> HIDE DEF d
    <3> QED BY <3>1, <2>2, <1>1
  <2> HIDE DEF d
  <2>5. IsFiniteSet(block) /\ Cardinality(block) = K /\ d + 1 \in block
    <3>1. IsFiniteSet(d + 1 .. d + K) /\ Cardinality(d + 1 .. d + K) = K
      BY <2>2, <1>1, IntervalCard, d \in Int
    <3>2. d + 1 \in d + 1 .. d + K
      BY <2>2, <1>1
    <3> QED BY <3>1, <3>2
  <2> HIDE DEF block
  <2>6. At(s, t) \subseteq block
    BY <2>3
  <2>7. n = K * Len(Corpus) => At(s, t) = block
    BY <2>3, <2>4
  <2>8. IsFiniteSet(At(s, t)) /\ Cardinality(At(s, t)) \in Nat /\ Cardinality(At(s, t)) <= K
    BY <2>5, <2>6, PartCard
  <2>9. Cardinality(Good(s, t)) \in Nat
    BY AtFinite
  <2> QED BY <2>5, <2>7, <2>8, <2>9
<1>7. ASSUME NEW t \in Tasks
      PROVE  /\ EnvInvalid(g[t]) => Good(s, t) = {}
             /\ ~EnvInvalid(g[t]) => Good(s, t) = At(s, t)
             /\ \A i \in Good(s, t) : RowToRun(s[i]) = g[t]
  <2>1. \A i \in At(s, t) : RowToRun(s[i]) = g[t]
    BY <1>2, <1>3 DEF At
  <2> QED BY <2>1 DEF Good
<1> HIDE DEF e
<1>8. ASSUME NEW t \in Tasks
      PROVE  /\ Honest(s, e, t)
             /\ n = K * Len(Corpus) => Whole(s, e, t)
  <2>1. CASE EnvInvalid(g[t])
    <3>1. Cardinality(Good(s, t)) = 0 /\ e[t] = "void"
      BY <2>1, <1>5, <1>7, FS_EmptySet
    <3>2. ~(Cardinality(Good(s, t)) >= K) /\ Cardinality(Good(s, t)) < K
      BY <3>1, <1>1
    <3> QED BY <3>1, <3>2 DEF Honest, Whole
  <2>2. CASE ~EnvInvalid(g[t])
    <3>1. Good(s, t) = At(s, t) /\ e[t] = IF RunPasses(g[t]) THEN "reliable" ELSE "unreliable"
      BY <2>2, <1>5, <1>7
    <3>2. Cardinality(Good(s, t)) >= K => Cardinality(Good(s, t)) = K
      BY <3>1, <1>1, <1>6
    <3>3. Cardinality(Good(s, t)) >= K => e[t] = Grade(s, t)
      <4>1. Cardinality(Good(s, t)) >= K => Good(s, t) # {}
        <5>1. Good(s, t) = {} => Cardinality(Good(s, t)) = 0
          BY FS_EmptySet
        <5> QED BY <5>1, <1>1
      <4>2. Good(s, t) # {} => (RunPasses(g[t]) <=> \A i \in Good(s, t) : RunPasses(RowToRun(s[i])))
        BY <1>7
      <4> QED BY <4>1, <4>2, <3>1 DEF Grade
    <3>4. e[t] \notin {"none", "void"}
      BY <3>1
    <3>5. n = K * Len(Corpus) => Cardinality(Good(s, t)) = K
      BY <3>1, <1>6
    <3> QED BY <3>1, <3>2, <3>3, <3>4, <3>5 DEF Honest, Whole
  <2> QED BY <2>1, <2>2
<1>9. e \in [Tasks -> Fares] /\ \A t \in Tasks : e[t] # "none"
  <2>1. e = [t \in Tasks |-> e[t]]
    BY DEF e, BaseFared
  <2>2. \A t \in Tasks : e[t] \in Fares /\ e[t] # "none"
    BY <1>5 DEF Fares
  <2> QED BY <2>1, <2>2
<1> QED BY <1>6, <1>8, <1>9 DEF e

-----------------------------------------------------------------------------
(* The inductive invariant.                                                *)

LEMMA InitInv == FAssumption /\ Init => IInv
<1> SUFFICES ASSUME FAssumption, Init PROVE IInv
  OBVIOUS
<1> USE DEF Init
<1>1. K \in Nat /\ K >= 1 /\ MaxStarts \in Nat /\ Len(Corpus) \in Nat
  BY CorpusFacts DEF FAssumption
<1>2. TypeOK
  BY <1>1 DEF TypeOK, Fares
<1>3. ASSUME NEW c \in Conds, NEW t \in Tasks
      PROVE  At(rows[c], t) = {} /\ Good(rows[c], t) = {} /\ earned[c][t] = "none"
  BY DEF At, Good
<1>4. HonestInv
  <2>1. Cardinality({}) = 0
    BY FS_EmptySet
  <2>2. ~(0 >= K) /\ 0 < K
    BY <1>1
  <2> QED BY <1>3, <2>1, <2>2 DEF HonestInv, Honest
<1>5. RunningInv /\ OpenInv
  BY DEF RunningInv, OpenInv
<1>6. SettledInv
  BY <1>3 DEF SettledInv, Whole, Void
<1>7. EndedInv
  BY DEF EndedInv
<1> QED BY <1>2, <1>4, <1>5, <1>6, <1>7 DEF IInv

\* An empty file beside nothing earned.
LEMMA EmptyHonest ==
  ASSUME FAssumption, NEW t, NEW e, e[t] = "none"
  PROVE  Honest(<<>>, e, t) /\ Whole(<<>>, e, t) /\ At(<<>>, t) = {}
<1>1. At(<<>>, t) = {} /\ Good(<<>>, t) = {}
  BY DEF At, Good
<1>2. ~(0 >= K)
  BY CorpusFacts
<1> QED BY <1>1, <1>2, FS_EmptySet DEF Honest, Whole

LEMMA StartInv ==
  ASSUME FAssumption, IInv, NEW c \in Conds, Start(c)
  PROVE  IInv'
<1> USE DEF IInv
<1>1. TypeOK'
  BY CorpusFacts DEF TypeOK, Start, Truncate, Fares, FAssumption
<1>2. /\ rows' \in [Conds -> Seq(Row)] /\ rows'[c] = <<>> /\ \A d \in Conds : d # c => rows'[d] = rows[d]
      /\ earned'[c] = [t \in Tasks |-> "none"] /\ \A d \in Conds : d # c => earned'[d] = earned[d]
      /\ ended'[c] = "underway" /\ \A d \in Conds : d # c => ended'[d] = ended[d]
      /\ sidecar' = sidecar /\ phase = "idle" /\ phase' = "running" /\ cond' = c /\ next' = 1
      /\ voids' = {}
      /\ cut'[c] = {} /\ \A d \in Conds : d # c => cut'[d] = cut[d]
  BY <1>1 DEF TypeOK, Start, Truncate
<1>3. \A t \in Tasks : earned'[c][t] = "none"
  BY <1>2
<1>4. HonestInv'
  <2> SUFFICES ASSUME NEW d \in Conds, NEW t \in Tasks
               PROVE  Honest(rows'[d], earned'[d], t)
    BY DEF HonestInv
  <2>1. CASE d = c
    BY <2>1, <1>2, <1>3, EmptyHonest
  <2>2. CASE d # c
    BY <2>2, <1>2 DEF HonestInv
  <2> QED BY <2>1, <2>2
<1>5. RunningInv'
  <2>1. \A i \in DOMAIN rows'[c] : FALSE
    BY <1>2
  <2>2. \A j \in 1 .. 1 - 1 : FALSE
    OBVIOUS
  <2>3. \A j \in 1 .. Len(Corpus) : earned'[c][Corpus[j]] = "none"
    BY <1>3, CorpusFacts
  <2> QED BY <1>2, <2>1, <2>2, <2>3 DEF RunningInv
<1>6. OpenInv'
  <2>1. Void(earned'[c]) = {}
    BY <1>3 DEF Void
  <2>2. \A t \in Tasks : Whole(rows'[c], earned'[c], t)
    BY <1>2, <1>3, EmptyHonest
  <2> QED BY <1>2, <2>1, <2>2 DEF OpenInv
<1>7. SettledInv'
  <2> SUFFICES ASSUME NEW d \in Conds, Settled(d)'
               PROVE  /\ sidecar'[d] \subseteq Void(earned'[d])
                      /\ \A t \in Tasks \ cut'[d] : Whole(rows'[d], earned'[d], t)
                      /\ \A t \in Void(earned'[d]) \ cut'[d] : t \in sidecar'[d] \/ At(rows'[d], t) # {}
    BY DEF SettledInv
  <2>1. d # c /\ Settled(d)
    BY <1>2 DEF Settled
  <2> QED BY <2>1, <1>2 DEF SettledInv
<1>8. EndedInv'
  <2> SUFFICES ASSUME NEW d \in Conds
               PROVE  /\ ended'[d] = "done" => \A t \in Tasks : earned'[d][t] # "none"
                      /\ ended'[d] = "blocked" => Void(earned'[d]) # {}
                      /\ ended'[d] \in {"done", "blocked"} => cut'[d] = {}
    BY DEF EndedInv
  <2>1. CASE d = c
    BY <2>1, <1>2
  <2>2. CASE d # c
    BY <2>2, <1>2 DEF EndedInv
  <2> QED BY <2>1, <2>2
<1> QED BY <1>1, <1>4, <1>5, <1>6, <1>7, <1>8

\* What the rows of one task, all or some, do to the file and to what was
\* earned: RunTask and KilledAppending.
LEMMA TaskStep ==
  ASSUME FAssumption, IInv, phase = "running", next <= Len(Corpus),
         NEW runs \in [1 .. K -> ModelRuns[cond]], NEW n \in 0 .. Len(CleanRows(Task, runs)),
         rows' = [rows EXCEPT ![cond] = @ \o SubSeq(CleanRows(Task, runs), 1, n)],
         earned' = [earned EXCEPT ![cond][Task] = Fared(runs)]
  PROVE  /\ rows' \in [Conds -> Seq(Row)] /\ earned' \in [Conds -> [Tasks -> Fares]]
         /\ \A d \in Conds : d # cond => rows'[d] = rows[d] /\ earned'[d] = earned[d]
         /\ Task \in Tasks /\ Task = Corpus[next] /\ earned[cond][Task] = "none"
         /\ earned'[cond][Task] = Fared(runs) /\ Fared(runs) \in {"void", "reliable", "unreliable"}
         /\ \A t \in Tasks : t # Task => earned'[cond][t] = earned[cond][t]
         /\ \A i \in DOMAIN rows'[cond] : \E j \in 1 .. next : rows'[cond][i].task_id = Corpus[j]
         /\ HonestInv'
         /\ \A t \in Tasks \ {Task} : Whole(rows'[cond], earned'[cond], t)
         /\ n = Len(CleanRows(Task, runs)) => \A t \in Tasks : Whole(rows'[cond], earned'[cond], t)
<1> DEFINE new == CleanRows(Task, runs)
           part == SubSeq(new, 1, n)
           s == rows[cond]
<1>1. TypeOK /\ cond \in Conds /\ s \in Seq(Row) /\ earned[cond] \in [Tasks -> Fares]
      /\ next \in 1 .. Len(Corpus) /\ next \in Nat /\ Len(Corpus) \in Nat
  <2>1. next \in 1 .. Len(Corpus) + 1 /\ Len(Corpus) \in Nat
    BY CorpusFacts DEF IInv, TypeOK
  <2> QED BY <2>1 DEF IInv, TypeOK
<1>2. Task \in Tasks /\ Task = Corpus[next]
  BY <1>1, CorpusFacts DEF Task
<1>3. runs \in [1 .. K -> Run]
  BY <1>1, AttemptsTyped
<1>4. earned[cond][Task] = "none"
  <2>1. next >= next
    BY <1>1
  <2> QED BY <1>1, <1>2, <2>1 DEF IInv, RunningInv
<1>5. At(s, Task) = {}
  BY <1>1, <1>2, <1>4 DEF IInv, HonestInv, Honest
<1>6. /\ new \in Seq(Row) /\ \A i \in DOMAIN new : new[i].task_id = Task
      /\ Fared(runs) \in {"void", "reliable", "unreliable"}
  BY <1>2, <1>3, CleanRowsFacts
<1>7. part \in Seq(Row) /\ RowsOf(part, Task)
  <2>1. n \in Nat /\ n <= Len(new)
    <3>1. Len(new) \in Nat
      BY <1>6
    <3> QED BY <3>1
  <2> HIDE DEF new
  <2>2. part \in Seq(Row) /\ DOMAIN part = 1 .. n
    BY <1>6, <2>1
  <2>3. \A i \in 1 .. n : part[i] = new[i] /\ i \in DOMAIN new
    BY <1>6, <2>1
  <2> QED BY <2>2, <2>3, <1>6 DEF RowsOf
<1>8. /\ rows' \in [Conds -> Seq(Row)] /\ rows'[cond] = s \o part
      /\ \A d \in Conds : d # cond => rows'[d] = rows[d]
  <2>1. s \o part \in Seq(Row)
    BY <1>1, <1>7
  <2>2. rows' = [rows EXCEPT ![cond] = s \o part]
    OBVIOUS
  <2> HIDE DEF part, s
  <2> QED BY <1>1, <2>1, <2>2 DEF TypeOK
<1>9. /\ earned' \in [Conds -> [Tasks -> Fares]]
      /\ earned'[cond][Task] = Fared(runs)
      /\ \A t \in Tasks : t # Task => earned'[cond][t] = earned[cond][t]
      /\ \A d \in Conds : d # cond => earned'[d] = earned[d]
  BY <1>1, <1>2, <1>6 DEF TypeOK, Fares
<1>10. /\ Honest(s \o part, earned'[cond], Task)
       /\ n = Len(new) => Whole(s \o part, earned'[cond], Task)
  <2> HIDE DEF s
  <2> QED BY <1>1, <1>2, <1>3, <1>5, <1>9, TaskHonest
<1> HIDE DEF new, part, s
<1>11. ASSUME NEW u \in Tasks, u # Task
       PROVE  /\ At(s \o part, u) = At(s, u)
              /\ Good(s \o part, u) = Good(s, u)
              /\ Grade(s \o part, u) = Grade(s, u)
  <2>1. s \in Seq(Row)
    BY <1>1
  <2>2. part \in Seq(Row)
    BY <1>7
  <2> QED BY <2>1, <2>2, <1>7, <1>11, AppendOther
<1>12. ASSUME NEW t \in Tasks, t # Task
       PROVE  /\ Honest(s \o part, earned'[cond], t)
              /\ Whole(s \o part, earned'[cond], t)
  <2>1. Honest(s, earned[cond], t) /\ Whole(s, earned[cond], t)
    BY <1>1 DEF IInv, HonestInv, OpenInv, RunningInv, s
  <2> QED BY <2>1, <1>9, <1>11, <1>12 DEF Honest, Whole
<1>13. HonestInv'
  <2> SUFFICES ASSUME NEW d \in Conds, NEW t \in Tasks
               PROVE  Honest(rows'[d], earned'[d], t)
    BY DEF HonestInv
  <2>1. CASE d # cond
    BY <2>1, <1>8, <1>9 DEF IInv, HonestInv
  <2>2. CASE d = cond
    BY <2>2, <1>8, <1>10, <1>12
  <2> QED BY <2>1, <2>2
<1>14. \A i \in DOMAIN rows'[cond] : \E j \in 1 .. next : rows'[cond][i].task_id = Corpus[j]
  <2> SUFFICES ASSUME NEW i \in DOMAIN (s \o part)
               PROVE  \E j \in 1 .. next : (s \o part)[i].task_id = Corpus[j]
    BY <1>8
  <2>1. CASE i \in DOMAIN s
    <3>1. (s \o part)[i] = s[i]
      BY <2>1, <1>1, <1>7
    <3>2. PICK j \in 1 .. next - 1 : s[i].task_id = Corpus[j]
      BY <2>1 DEF IInv, RunningInv, s
    <3>3. j \in 1 .. next
      BY <1>1
    <3> QED BY <3>1, <3>2, <3>3
  <2>2. CASE i \notin DOMAIN s
    <3>1. i - Len(s) \in DOMAIN part /\ (s \o part)[i] = part[i - Len(s)]
      BY <2>2, <1>1, <1>7
    <3>2. next \in 1 .. next
      BY <1>1
    <3> QED BY <3>1, <3>2, <1>2, <1>7 DEF RowsOf
  <2> QED BY <2>1, <2>2
<1>15. /\ \A t \in Tasks \ {Task} : Whole(rows'[cond], earned'[cond], t)
       /\ n = Len(new) => \A t \in Tasks : Whole(rows'[cond], earned'[cond], t)
  BY <1>8, <1>10, <1>12
<1> QED BY <1>2, <1>4, <1>6, <1>8, <1>9, <1>13, <1>14, <1>15 DEF new

\* The conditions whose files a step of the process does not touch.
LEMMA OthersSettled ==
  ASSUME IInv, phase # "idle", cond' = cond,
         \A d \in Conds : d # cond => /\ rows'[d] = rows[d] /\ earned'[d] = earned[d]
                                      /\ sidecar'[d] = sidecar[d] /\ ended'[d] = ended[d]
                                      /\ cut'[d] = cut[d],
         NEW d \in Conds, d # cond
  PROVE  /\ Settled(d)' =>
               /\ sidecar'[d] \subseteq Void(earned'[d])
               /\ \A t \in Tasks \ cut'[d] : Whole(rows'[d], earned'[d], t)
               /\ \A t \in Void(earned'[d]) \ cut'[d] : t \in sidecar'[d] \/ At(rows'[d], t) # {}
         /\ ended'[d] = "done" => \A t \in Tasks : earned'[d][t] # "none"
         /\ ended'[d] = "blocked" => Void(earned'[d]) # {}
         /\ ended'[d] \in {"done", "blocked"} => cut'[d] = {}
<1>1. Settled(d)' => Settled(d)
  BY DEF Settled
<1>2. /\ Settled(d) =>
           /\ sidecar[d] \subseteq Void(earned[d])
           /\ \A t \in Tasks \ cut[d] : Whole(rows[d], earned[d], t)
           /\ \A t \in Void(earned[d]) \ cut[d] : t \in sidecar[d] \/ At(rows[d], t) # {}
      /\ ended[d] = "done" => \A t \in Tasks : earned[d][t] # "none"
      /\ ended[d] = "blocked" => Void(earned[d]) # {}
      /\ ended[d] \in {"done", "blocked"} => cut[d] = {}
  BY DEF IInv, SettledInv, EndedInv
<1> QED BY <1>1, <1>2

LEMMA RunTaskInv ==
  ASSUME FAssumption, IInv, RunTask
  PROVE  IInv'
<1>1. PICK runs \in [1 .. K -> ModelRuns[cond]] :
        /\ rows' = [rows EXCEPT ![cond] = @ \o CleanRows(Task, runs)]
        /\ NoteVoid(runs)
        /\ earned' = [earned EXCEPT ![cond][Task] = Fared(runs)]
        /\ IF Blocked(runs)
           THEN phase' = "closing" /\ ended' = [ended EXCEPT ![cond] = "blocked"] /\ next' = next
           ELSE next' = next + 1 /\ UNCHANGED <<phase, ended>>
  BY DEF RunTask
<1> DEFINE new == CleanRows(Task, runs)
           n == Len(new)
<1>2. phase = "running" /\ next <= Len(Corpus) /\ UNCHANGED <<torn, sidecar, cond, starts, cut>>
  BY DEF RunTask
<1>3. TypeOK /\ cond \in Conds /\ next \in 1 .. Len(Corpus) /\ Len(Corpus) \in Nat /\ next \in Nat
  <2>1. next \in 1 .. Len(Corpus) + 1 /\ Len(Corpus) \in Nat
    BY CorpusFacts DEF IInv, TypeOK
  <2> QED BY <1>2, <2>1 DEF IInv, TypeOK
<1>4. new \in Seq(Row) /\ n \in 0 .. n /\ SubSeq(new, 1, n) = new
  <2>1. Task \in Tasks
    BY <1>3, CorpusFacts DEF Task
  <2>2. runs \in [1 .. K -> Run]
    BY <1>3, AttemptsTyped
  <2>3. new \in Seq(Row)
    BY <2>1, <2>2, CleanRowsFacts
  <2> HIDE DEF new
  <2>4. n \in Nat /\ SubSeq(new, 1, n) = new
    BY <2>3, SubSeqFull
  <2> QED BY <2>3, <2>4
<1>5. rows' = [rows EXCEPT ![cond] = @ \o SubSeq(new, 1, n)]
  BY <1>1, <1>4
<1>6. /\ rows' \in [Conds -> Seq(Row)] /\ earned' \in [Conds -> [Tasks -> Fares]]
      /\ \A d \in Conds : d # cond => rows'[d] = rows[d] /\ earned'[d] = earned[d]
      /\ Task \in Tasks /\ Task = Corpus[next] /\ earned[cond][Task] = "none"
      /\ earned'[cond][Task] = Fared(runs) /\ Fared(runs) \in {"void", "reliable", "unreliable"}
      /\ \A t \in Tasks : t # Task => earned'[cond][t] = earned[cond][t]
      /\ \A i \in DOMAIN rows'[cond] : \E j \in 1 .. next : rows'[cond][i].task_id = Corpus[j]
      /\ HonestInv'
      /\ n = Len(CleanRows(Task, runs)) => \A t \in Tasks : Whole(rows'[cond], earned'[cond], t)
  BY <1>1, <1>2, <1>4, <1>5, TaskStep
<1> HIDE DEF n, new
<1>7. /\ ended' \in [Conds -> {"never", "underway", "blocked", "done", "failed", "killed"}]
      /\ \A d \in Conds : d # cond => ended'[d] = ended[d]
      /\ Blocked(runs) => ended'[cond] = "blocked" /\ phase' = "closing" /\ next' = next
      /\ ~Blocked(runs) => ended'[cond] = ended[cond] /\ phase' = "running" /\ next' = next + 1
  BY <1>1, <1>2, <1>3 DEF TypeOK
<1>8. Blocked(runs) => Fared(runs) = "void"
  <2> SUFFICES ASSUME Blocked(runs) PROVE Fared(runs) = "void"
    OBVIOUS
  <2>1. PICK i \in DOMAIN runs : runs[i].pf = "auth"
    BY DEF Blocked, AccountRefused
  <2>2. EnvInvalid(runs[i])
    BY <2>1 DEF EnvInvalid, ProviderErrors
  <2> QED BY <2>2 DEF Fared
<1>9. Void(earned'[cond]) = IF Fared(runs) = "void" THEN Void(earned[cond]) \cup {Task}
                           ELSE Void(earned[cond])
  BY <1>6 DEF Void
<1>10. voids' = Void(earned'[cond]) /\ cut[cond] = {}
  <2>1. voids = Void(earned[cond]) /\ cut[cond] = {}
    BY <1>2 DEF IInv, OpenInv, RunningInv
  <2> QED BY <1>1, <1>9, <2>1 DEF NoteVoid
<1>11. TypeOK'
  <2>1. voids' \in SUBSET Tasks
    BY <1>10 DEF Void
  <2>2. next' \in 1 .. Len(Corpus) + 1 /\ phase' \in {"idle", "running", "closing"}
    BY <1>3, <1>7
  <2> QED BY <1>2, <1>3, <1>6, <1>7, <2>1, <2>2 DEF TypeOK
<1>12. RunningInv'
  <2> SUFFICES ASSUME phase' = "running"
               PROVE  /\ \A i \in DOMAIN rows'[cond] :
                           \E j \in 1 .. next' - 1 : rows'[cond][i].task_id = Corpus[j]
                      /\ \A j \in 1 .. next' - 1 : earned'[cond][Corpus[j]] # "none"
                      /\ \A j \in 1 .. Len(Corpus) : j >= next' => earned'[cond][Corpus[j]] = "none"
                      /\ cut'[cond] = {}
    BY <1>2 DEF RunningInv
  <2>1. next' = next + 1
    BY <1>7
  <2>2. next' - 1 = next
    BY <2>1, <1>3
  <2>3. ASSUME NEW j \in 1 .. next PROVE earned'[cond][Corpus[j]] # "none"
    <3>1. CASE j = next
      BY <3>1, <1>6
    <3>2. CASE j # next
      <4>1. j \in 1 .. next - 1 /\ j \in 1 .. Len(Corpus)
        BY <3>2, <1>3
      <4>2. Corpus[j] # Task /\ Corpus[j] \in Tasks
        BY <4>1, <3>2, <1>3, <1>6, CorpusFacts
      <4>3. earned[cond][Corpus[j]] # "none"
        BY <4>1, <1>2 DEF IInv, RunningInv
      <4> QED BY <4>2, <4>3, <1>6
    <3> QED BY <3>1, <3>2
  <2>4. ASSUME NEW j \in 1 .. Len(Corpus), j >= next + 1
        PROVE  earned'[cond][Corpus[j]] = "none"
    <3>1. j >= next /\ j # next
      BY <2>4, <1>3
    <3>2. Corpus[j] # Task /\ Corpus[j] \in Tasks
      BY <3>1, <1>3, <1>6, CorpusFacts
    <3>3. earned[cond][Corpus[j]] = "none"
      BY <3>1, <1>2 DEF IInv, RunningInv
    <3> QED BY <3>2, <3>3, <1>6
  <2> QED BY <2>1, <2>2, <2>3, <2>4, <1>2, <1>6, <1>10
<1>13. OpenInv'
  BY <1>2, <1>6, <1>10 DEF OpenInv, n, new
<1>14. phase # "idle" /\ phase' # "idle" /\ cond' = cond
  BY <1>2, <1>7
<1>15. \A d \in Conds : d # cond => /\ rows'[d] = rows[d] /\ earned'[d] = earned[d]
                                    /\ sidecar'[d] = sidecar[d] /\ ended'[d] = ended[d]
                                    /\ cut'[d] = cut[d]
  BY <1>2, <1>6, <1>7
<1>16. SettledInv'
  <2> SUFFICES ASSUME NEW d \in Conds, Settled(d)'
               PROVE  /\ sidecar'[d] \subseteq Void(earned'[d])
                      /\ \A t \in Tasks \ cut'[d] : Whole(rows'[d], earned'[d], t)
                      /\ \A t \in Void(earned'[d]) \ cut'[d] : t \in sidecar'[d] \/ At(rows'[d], t) # {}
    BY DEF SettledInv
  <2>1. d # cond
    BY <1>14 DEF Settled
  <2> QED BY <2>1, <1>14, <1>15, OthersSettled
<1>17. EndedInv'
  <2> SUFFICES ASSUME NEW d \in Conds
               PROVE  /\ ended'[d] = "done" => \A t \in Tasks : earned'[d][t] # "none"
                      /\ ended'[d] = "blocked" => Void(earned'[d]) # {}
                      /\ ended'[d] \in {"done", "blocked"} => cut'[d] = {}
    BY DEF EndedInv
  <2>1. CASE d # cond
    BY <2>1, <1>14, <1>15, OthersSettled
  <2>2. CASE d = cond /\ Blocked(runs)
    BY <2>2, <1>2, <1>7, <1>8, <1>9, <1>10
  <2>3. CASE d = cond /\ ~Blocked(runs)
    <3>1. ended'[d] = ended[d]
      BY <2>3, <1>7
    <3>2. ended[d] = "done" => \A t \in Tasks : earned'[d][t] # "none"
      <4>1. ended[d] = "done" => \A t \in Tasks : earned[d][t] # "none"
        BY DEF IInv, EndedInv
      <4> QED BY <4>1, <2>3, <1>6
    <3>3. ended[d] = "blocked" => Void(earned'[d]) # {}
      <4>1. ended[d] = "blocked" => Void(earned[d]) # {}
        BY DEF IInv, EndedInv
      <4> QED BY <4>1, <2>3, <1>9
    <3> QED BY <2>3, <3>1, <3>2, <3>3, <1>2, <1>10
  <2> QED BY <2>1, <2>2, <2>3
<1> QED BY <1>6, <1>11, <1>12, <1>13, <1>16, <1>17 DEF IInv

\* A step that touches neither the rows of a file nor what was earned.
LEMMA HonestKept ==
  ASSUME IInv, rows' = rows, earned' = earned
  PROVE  HonestInv'
  BY DEF IInv, HonestInv

LEMMA CorpusDoneInv ==
  ASSUME FAssumption, IInv, CorpusDone \/ TaskRaises
  PROVE  IInv'
<1>1. /\ phase = "running" /\ phase' = "closing" /\ cond' = cond /\ cond \in Conds
      /\ rows' = rows /\ sidecar' = sidecar /\ torn' = torn /\ earned' = earned /\ voids' = voids
      /\ next' = next /\ starts' = starts /\ cut' = cut /\ cut[cond] = {}
      /\ \A d \in Conds : d # cond => ended'[d] = ended[d]
      /\ \/ ended'[cond] = "failed"
         \/ ended'[cond] = "done" /\ next > Len(Corpus)
  BY DEF CorpusDone, TaskRaises, fileVars, IInv, TypeOK, RunningInv
<1>2. TypeOK'
  BY DEF CorpusDone, TaskRaises, fileVars, IInv, TypeOK
<1>3. RunningInv' /\ OpenInv'
  BY <1>1 DEF RunningInv, OpenInv, IInv
<1>4. ended'[cond] = "done" => \A t \in Tasks : earned[cond][t] # "none"
  <2> SUFFICES ASSUME ended'[cond] = "done", NEW t \in Tasks PROVE earned[cond][t] # "none"
    OBVIOUS
  <2>1. PICK j \in 1 .. Len(Corpus) : t = Corpus[j]
    BY CorpusFacts
  <2>2. next > Len(Corpus) /\ next \in Int /\ Len(Corpus) \in Int
    BY <1>1, CorpusFacts DEF IInv, TypeOK
  <2>3. j \in 1 .. next - 1
    BY <2>2
  <2> QED BY <2>1, <2>3, <1>1 DEF IInv, RunningInv
<1>5. SettledInv'
  <2> SUFFICES ASSUME NEW d \in Conds, Settled(d)'
               PROVE  /\ sidecar'[d] \subseteq Void(earned'[d])
                      /\ \A t \in Tasks \ cut'[d] : Whole(rows'[d], earned'[d], t)
                      /\ \A t \in Void(earned'[d]) \ cut'[d] : t \in sidecar'[d] \/ At(rows'[d], t) # {}
    BY DEF SettledInv
  <2>1. d # cond
    BY <1>1 DEF Settled
  <2> QED BY <2>1, <1>1, OthersSettled
<1>6. EndedInv'
  <2> SUFFICES ASSUME NEW d \in Conds
               PROVE  /\ ended'[d] = "done" => \A t \in Tasks : earned'[d][t] # "none"
                      /\ ended'[d] = "blocked" => Void(earned'[d]) # {}
                      /\ ended'[d] \in {"done", "blocked"} => cut'[d] = {}
    BY DEF EndedInv
  <2>1. CASE d # cond
    BY <2>1, <1>1, OthersSettled
  <2>2. CASE d = cond
    BY <2>2, <1>1, <1>4
  <2> QED BY <2>1, <2>2
<1> QED BY <1>1, <1>2, <1>3, <1>5, <1>6, HonestKept DEF IInv

\* An interrupt while a task is recorded: what is known of the others is kept.
LEMMA RecordingRaisesInv ==
  ASSUME FAssumption, IInv, RecordingRaises
  PROVE  IInv'
<1>1. /\ phase = "running" /\ next <= Len(Corpus) /\ phase' = "closing"
      /\ sidecar' = sidecar /\ cond' = cond /\ next' = next /\ starts' = starts
      /\ ended' = [ended EXCEPT ![cond] = "failed"] /\ cut' = [cut EXCEPT ![cond] = {Task}]
  BY DEF RecordingRaises
<1>2. PICK runs \in [1 .. K -> ModelRuns[cond]] :
        AppendSome(runs) /\ (voids' = voids \/ NoteVoid(runs))
  BY DEF RecordingRaises
<1>3. PICK n \in 0 .. Len(CleanRows(Task, runs)) :
        /\ rows' = [rows EXCEPT ![cond] = @ \o SubSeq(CleanRows(Task, runs), 1, n)]
        /\ torn' \in {torn, [torn EXCEPT ![cond] = @ \cup {"runs"}]}
        /\ earned' = [earned EXCEPT ![cond][Task] = Fared(runs)]
  BY <1>2 DEF AppendSome
<1>4. /\ rows' \in [Conds -> Seq(Row)] /\ earned' \in [Conds -> [Tasks -> Fares]]
      /\ \A d \in Conds : d # cond => rows'[d] = rows[d] /\ earned'[d] = earned[d]
      /\ Task \in Tasks /\ earned[cond][Task] = "none" /\ earned'[cond][Task] = Fared(runs)
      /\ \A t \in Tasks : t # Task => earned'[cond][t] = earned[cond][t]
      /\ HonestInv'
      /\ \A t \in Tasks \ {Task} : Whole(rows'[cond], earned'[cond], t)
  BY <1>1, <1>3, TaskStep
<1>5. TypeOK /\ cond \in Conds
  BY DEF IInv, TypeOK
<1>6. /\ ended' \in [Conds -> {"never", "underway", "blocked", "done", "failed", "killed"}]
      /\ cut' \in [Conds -> SUBSET Tasks] /\ cut'[cond] = {Task} /\ ended'[cond] = "failed"
      /\ \A d \in Conds : d # cond => ended'[d] = ended[d] /\ cut'[d] = cut[d]
  BY <1>1, <1>4, <1>5 DEF TypeOK
<1>7. /\ voids = Void(earned[cond])
      /\ Void(earned'[cond]) = IF Fared(runs) = "void" THEN Void(earned[cond]) \cup {Task}
                               ELSE Void(earned[cond])
  <2>1. voids = Void(earned[cond])
    BY <1>1 DEF IInv, OpenInv, RunningInv
  <2> QED BY <2>1, <1>4 DEF Void
<1>8. voids' \subseteq Void(earned'[cond]) /\ Void(earned'[cond]) \subseteq voids' \cup {Task}
  BY <1>2, <1>7 DEF NoteVoid
<1>9. torn' \in [Conds -> SUBSET {"runs", "sidecar"}]
  <2>1. [torn EXCEPT ![cond] = @ \cup {"runs"}] \in [Conds -> SUBSET {"runs", "sidecar"}]
    BY <1>5 DEF TypeOK
  <2>2. torn' = torn \/ torn' = [torn EXCEPT ![cond] = @ \cup {"runs"}]
    BY <1>3
  <2> QED BY <1>5, <2>1, <2>2 DEF TypeOK
<1>10. TypeOK'
  <2>1. voids' \in SUBSET Tasks
    BY <1>8 DEF Void
  <2> QED BY <1>1, <1>4, <1>5, <1>6, <1>9, <2>1 DEF TypeOK
<1>11. RunningInv' /\ OpenInv'
  BY <1>1, <1>4, <1>6, <1>8 DEF RunningInv, OpenInv
<1>12. \A d \in Conds : d # cond => /\ rows'[d] = rows[d] /\ earned'[d] = earned[d]
                                    /\ sidecar'[d] = sidecar[d] /\ ended'[d] = ended[d]
                                    /\ cut'[d] = cut[d]
  BY <1>1, <1>4, <1>6
<1>13. SettledInv'
  <2> SUFFICES ASSUME NEW d \in Conds, Settled(d)'
               PROVE  /\ sidecar'[d] \subseteq Void(earned'[d])
                      /\ \A t \in Tasks \ cut'[d] : Whole(rows'[d], earned'[d], t)
                      /\ \A t \in Void(earned'[d]) \ cut'[d] : t \in sidecar'[d] \/ At(rows'[d], t) # {}
    BY DEF SettledInv
  <2>1. d # cond
    BY <1>1 DEF Settled
  <2> QED BY <2>1, <1>1, <1>12, OthersSettled
<1>14. EndedInv'
  <2> SUFFICES ASSUME NEW d \in Conds
               PROVE  /\ ended'[d] = "done" => \A t \in Tasks : earned'[d][t] # "none"
                      /\ ended'[d] = "blocked" => Void(earned'[d]) # {}
                      /\ ended'[d] \in {"done", "blocked"} => cut'[d] = {}
    BY DEF EndedInv
  <2>1. CASE d # cond
    BY <2>1, <1>1, <1>12, OthersSettled
  <2>2. CASE d = cond
    BY <2>2, <1>6
  <2> QED BY <2>1, <2>2
<1> QED BY <1>4, <1>10, <1>11, <1>13, <1>14 DEF IInv

LEMMA WriteSidecarInv ==
  ASSUME FAssumption, IInv, WriteSidecar
  PROVE  IInv'
<1>1. /\ phase = "closing" /\ phase' = "idle" /\ cond' = cond /\ cond \in Conds
      /\ rows' = rows /\ earned' = earned /\ ended' = ended /\ cut' = cut
      /\ sidecar'[cond] = voids
      /\ \A d \in Conds : d # cond => sidecar'[d] = sidecar[d]
  BY DEF WriteSidecar, IInv, TypeOK
<1>2. TypeOK'
  BY CorpusFacts DEF WriteSidecar, IInv, TypeOK
<1>3. RunningInv' /\ OpenInv'
  BY <1>1 DEF RunningInv, OpenInv
<1>4. /\ voids \subseteq Void(earned[cond]) /\ Void(earned[cond]) \subseteq voids \cup cut[cond]
      /\ \A t \in Tasks \ cut[cond] : Whole(rows[cond], earned[cond], t)
  BY <1>1 DEF IInv, OpenInv
<1>5. SettledInv'
  <2> SUFFICES ASSUME NEW d \in Conds, Settled(d)'
               PROVE  /\ sidecar'[d] \subseteq Void(earned'[d])
                      /\ \A t \in Tasks \ cut'[d] : Whole(rows'[d], earned'[d], t)
                      /\ \A t \in Void(earned'[d]) \ cut'[d] : t \in sidecar'[d] \/ At(rows'[d], t) # {}
    BY DEF SettledInv
  <2>1. CASE d # cond
    BY <2>1, <1>1, OthersSettled
  <2>2. CASE d = cond
    BY <2>2, <1>1, <1>4
  <2> QED BY <2>1, <2>2
<1>6. EndedInv'
  BY <1>1 DEF IInv, EndedInv
<1> QED BY <1>1, <1>2, <1>3, <1>5, <1>6, HonestKept DEF IInv

\* Once the process is gone nothing but the rows, beside what was earned, and
\* the other conditions are known of.
LEMMA DiesInv ==
  ASSUME FAssumption, IInv, phase # "idle", Dies, TypeOK', HonestInv', cond' = cond, cut' = cut,
         \A d \in Conds : d # cond => /\ rows'[d] = rows[d] /\ earned'[d] = earned[d]
                                      /\ sidecar'[d] = sidecar[d]
  PROVE  IInv'
<1>1. /\ phase' = "idle" /\ cond \in Conds /\ ended'[cond] = "killed"
      /\ \A d \in Conds : d # cond => ended'[d] = ended[d]
  BY DEF Dies, IInv, TypeOK
<1>2. RunningInv' /\ OpenInv'
  BY <1>1 DEF RunningInv, OpenInv
<1>3. SettledInv'
  <2> SUFFICES ASSUME NEW d \in Conds, Settled(d)'
               PROVE  /\ sidecar'[d] \subseteq Void(earned'[d])
                      /\ \A t \in Tasks \ cut'[d] : Whole(rows'[d], earned'[d], t)
                      /\ \A t \in Void(earned'[d]) \ cut'[d] : t \in sidecar'[d] \/ At(rows'[d], t) # {}
    BY DEF SettledInv
  <2>1. d # cond
    BY <1>1 DEF Settled
  <2> QED BY <2>1, <1>1, OthersSettled
<1>4. EndedInv'
  <2> SUFFICES ASSUME NEW d \in Conds
               PROVE  /\ ended'[d] = "done" => \A t \in Tasks : earned'[d][t] # "none"
                      /\ ended'[d] = "blocked" => Void(earned'[d]) # {}
                      /\ ended'[d] \in {"done", "blocked"} => cut'[d] = {}
    BY DEF EndedInv
  <2>1. CASE d # cond
    BY <2>1, <1>1, OthersSettled
  <2>2. CASE d = cond
    BY <2>2, <1>1
  <2> QED BY <2>1, <2>2
<1> QED BY <1>2, <1>3, <1>4 DEF IInv

LEMMA KillInv ==
  ASSUME FAssumption, IInv, Kill
  PROVE  IInv'
<1>1. CASE Killed
  <2>1. /\ phase # "idle" /\ Dies /\ cond' = cond /\ cut' = cut
        /\ rows' = rows /\ earned' = earned /\ sidecar' = sidecar
    BY <1>1 DEF Killed, fileVars
  <2>2. TypeOK'
    BY <1>1, CorpusFacts DEF Killed, Dies, fileVars, IInv, TypeOK
  <2> QED BY <2>1, <2>2, HonestKept, DiesInv
<1>2. CASE KilledWritingSidecar
  <2>1. /\ phase # "idle" /\ Dies /\ cond' = cond /\ cut' = cut
        /\ rows' = rows /\ earned' = earned /\ sidecar' = sidecar
    BY <1>2 DEF KilledWritingSidecar
  <2>2. TypeOK'
    BY <1>2, CorpusFacts DEF KilledWritingSidecar, Dies, IInv, TypeOK
  <2> QED BY <2>1, <2>2, HonestKept, DiesInv
<1>3. CASE KilledAppending
  <2>1. /\ phase = "running" /\ next <= Len(Corpus) /\ Dies
        /\ sidecar' = sidecar /\ cond' = cond /\ starts' = starts /\ cut' = cut
    BY <1>3 DEF KilledAppending
  <2>2. PICK runs \in [1 .. K -> ModelRuns[cond]] :
          \E n \in 0 .. Len(CleanRows(Task, runs)) :
            /\ rows' = [rows EXCEPT ![cond] = @ \o SubSeq(CleanRows(Task, runs), 1, n)]
            /\ torn' \in {torn, [torn EXCEPT ![cond] = @ \cup {"runs"}]}
            /\ earned' = [earned EXCEPT ![cond][Task] = Fared(runs)]
    BY <1>3 DEF KilledAppending, AppendSome
  <2>3. PICK n \in 0 .. Len(CleanRows(Task, runs)) :
            /\ rows' = [rows EXCEPT ![cond] = @ \o SubSeq(CleanRows(Task, runs), 1, n)]
            /\ torn' \in {torn, [torn EXCEPT ![cond] = @ \cup {"runs"}]}
            /\ earned' = [earned EXCEPT ![cond][Task] = Fared(runs)]
    BY <2>2
  <2>4. /\ rows' \in [Conds -> Seq(Row)] /\ earned' \in [Conds -> [Tasks -> Fares]]
        /\ \A d \in Conds : d # cond => rows'[d] = rows[d] /\ earned'[d] = earned[d]
        /\ HonestInv'
    BY <2>1, <2>3, TaskStep
  <2>5. torn' \in [Conds -> SUBSET {"runs", "sidecar"}]
    <3>1. torn \in [Conds -> SUBSET {"runs", "sidecar"}] /\ cond \in Conds
      BY DEF IInv, TypeOK
    <3>2. [torn EXCEPT ![cond] = @ \cup {"runs"}] \in [Conds -> SUBSET {"runs", "sidecar"}]
      BY <3>1
    <3>3. torn' = torn \/ torn' = [torn EXCEPT ![cond] = @ \cup {"runs"}]
      BY <2>3
    <3> QED BY <3>1, <3>2, <3>3
  <2>6. TypeOK'
    <3>1. /\ phase' = "idle" /\ next' \in 1 .. Len(Corpus) + 1 /\ voids' \in SUBSET Tasks
          /\ ended' \in [Conds -> {"never", "underway", "blocked", "done", "failed", "killed"}]
      BY <2>1, CorpusFacts DEF Dies, IInv, TypeOK
    <3>2. /\ sidecar' \in [Conds -> SUBSET Tasks] /\ cond' \in Conds /\ starts' \in 0 .. MaxStarts
          /\ cut' \in [Conds -> SUBSET Tasks]
      BY <2>1 DEF IInv, TypeOK
    <3> QED BY <3>1, <3>2, <2>4, <2>5 DEF TypeOK
  <2> QED BY <2>1, <2>4, <2>6, DiesInv
<1> QED BY <1>1, <1>2, <1>3 DEF Kill

\* run-m1 replaces the files of a condition, all of the rows or the first n.
LEMMA ArmStep ==
  ASSUME FAssumption, IInv, NEW c \in Conds, phase = "idle", starts < MaxStarts,
         NEW g \in [Tasks -> BaseRuns], NEW n \in 0 .. K * Len(Corpus),
         NEW s, s = SubSeq(BaseRows(g), 1, n),
         rows' = [rows EXCEPT ![c] = s],
         earned' = [earned EXCEPT ![c] = BaseFared(g)],
         sidecar' \in {sidecar, [sidecar EXCEPT ![c] = {}]},
         torn' \in {torn, [torn EXCEPT ![c] = torn'[c]]}, torn'[c] \subseteq {"runs", "sidecar"},
         cond' = c, starts' = starts + 1, UNCHANGED <<phase, next, voids>>,
         cut' = [cut EXCEPT ![c] = {}],
         \/ ended' = [ended EXCEPT ![c] = "killed"]
         \/ /\ ended' = [ended EXCEPT ![c] = "done"]
            /\ n = K * Len(Corpus) /\ sidecar' = [sidecar EXCEPT ![c] = {}]
  PROVE  IInv'
<1> DEFINE e == BaseFared(g)
<1>1. TypeOK
  BY DEF IInv
<1>2. /\ K * Len(Corpus) \in Nat /\ n \in Nat /\ n <= K * Len(Corpus)
      /\ s \in Seq(Row) /\ Len(s) = n /\ \A i \in 1 .. n : s[i] = BaseRows(g)[i]
  <2>1. K * Len(Corpus) \in Nat /\ BaseRows(g) \in Seq(Row) /\ Len(BaseRows(g)) = K * Len(Corpus)
    BY BaseRowAt
  <2>2. n \in Nat /\ n <= K * Len(Corpus)
    BY <2>1
  <2> DEFINE b == BaseRows(g)
             m == K * Len(Corpus)
  <2>3. b \in Seq(Row) /\ Len(b) = m /\ n \in Nat /\ n <= m /\ m \in Nat /\ s = SubSeq(b, 1, n)
    BY <2>1, <2>2
  <2> HIDE DEF b, m
  <2>4. s \in Seq(Row) /\ Len(s) = n /\ \A i \in 1 .. n : s[i] = b[i]
    BY <2>3
  <2> QED BY <2>1, <2>2, <2>4 DEF b
<1>3. /\ e \in [Tasks -> Fares]
      /\ \A t \in Tasks :
           /\ e[t] # "none"
           /\ Honest(s, e, t)
           /\ n = K * Len(Corpus) => Whole(s, e, t) /\ At(s, t) # {}
  <2>1. s \in Seq(Row) /\ BaseCut(s, g, n)
    BY <1>2 DEF BaseCut
  <2>2. BaseFared(g) \in [Tasks -> Fares]
    BY <2>1, BaseHonest
  <2>3. \A t \in Tasks :
          /\ BaseFared(g)[t] # "none"
          /\ Honest(s, BaseFared(g), t)
          /\ n = K * Len(Corpus) => Whole(s, BaseFared(g), t) /\ At(s, t) # {}
    BY <2>1, BaseHonest
  <2> QED BY <2>2, <2>3
<1> HIDE DEF e
<1>4. /\ rows' \in [Conds -> Seq(Row)] /\ rows'[c] = s
      /\ \A d \in Conds : d # c => rows'[d] = rows[d]
  BY <1>1, <1>2 DEF TypeOK
<1>5. /\ earned' \in [Conds -> [Tasks -> Fares]] /\ earned'[c] = e
      /\ \A d \in Conds : d # c => earned'[d] = earned[d]
  <2>1. earned' = [earned EXCEPT ![c] = e]
    BY DEF e
  <2> QED BY <2>1, <1>1, <1>3 DEF TypeOK
<1>6. /\ ended' \in [Conds -> {"never", "underway", "blocked", "done", "failed", "killed"}]
      /\ \A d \in Conds : d # c => ended'[d] = ended[d]
      /\ ended'[c] \in {"killed", "done"}
      /\ cut' \in [Conds -> SUBSET Tasks] /\ cut'[c] = {}
      /\ \A d \in Conds : d # c => cut'[d] = cut[d]
  BY <1>1 DEF TypeOK
<1>7. /\ sidecar' \in [Conds -> SUBSET Tasks]
      /\ \A d \in Conds : d # c => sidecar'[d] = sidecar[d]
  <2>1. [sidecar EXCEPT ![c] = {}] \in [Conds -> SUBSET Tasks]
    BY <1>1 DEF TypeOK
  <2>2. sidecar' = sidecar \/ sidecar' = [sidecar EXCEPT ![c] = {}]
    OBVIOUS
  <2> QED BY <2>1, <2>2, <1>1 DEF TypeOK
<1>8. torn' \in [Conds -> SUBSET {"runs", "sidecar"}]
  <2>1. torn' = torn \/ torn' = [torn EXCEPT ![c] = torn'[c]]
    OBVIOUS
  <2>2. torn'[c] \in SUBSET {"runs", "sidecar"}
    OBVIOUS
  <2>3. [torn EXCEPT ![c] = torn'[c]] \in [Conds -> SUBSET {"runs", "sidecar"}]
    BY <2>2, <1>1 DEF TypeOK
  <2> QED BY <2>1, <2>3, <1>1 DEF TypeOK
<1>9. TypeOK'
  <2>1. starts' \in 0 .. MaxStarts
    BY <1>1 DEF TypeOK, FAssumption
  <2> QED BY <1>1, <1>4, <1>5, <1>6, <1>7, <1>8, <2>1 DEF TypeOK
<1>10. HonestInv'
  <2> SUFFICES ASSUME NEW d \in Conds, NEW t \in Tasks
               PROVE  Honest(rows'[d], earned'[d], t)
    BY DEF HonestInv
  <2>1. CASE d = c
    BY <2>1, <1>3, <1>4, <1>5
  <2>2. CASE d # c
    BY <2>2, <1>4, <1>5 DEF IInv, HonestInv
  <2> QED BY <2>1, <2>2
<1>11. RunningInv' /\ OpenInv'
  BY DEF RunningInv, OpenInv
<1>12. SettledInv'
  <2> SUFFICES ASSUME NEW d \in Conds, Settled(d)'
               PROVE  /\ sidecar'[d] \subseteq Void(earned'[d])
                      /\ \A t \in Tasks \ cut'[d] : Whole(rows'[d], earned'[d], t)
                      /\ \A t \in Void(earned'[d]) \ cut'[d] : t \in sidecar'[d] \/ At(rows'[d], t) # {}
    BY DEF SettledInv
  <2>1. CASE d = c
    <3>1. ended'[c] # "killed"
      BY <2>1 DEF Settled
    <3>2. n = K * Len(Corpus) /\ sidecar'[c] = {}
      BY <3>1, <1>1 DEF TypeOK
    <3>3. Void(e) \subseteq Tasks
      BY DEF Void
    <3> QED BY <2>1, <3>2, <3>3, <1>3, <1>4, <1>5
  <2>2. CASE d # c
    <3>1. Settled(d)
      BY <2>2, <1>6 DEF Settled
    <3> QED BY <2>2, <3>1, <1>4, <1>5, <1>6, <1>7 DEF IInv, SettledInv
  <2> QED BY <2>1, <2>2
<1>13. EndedInv'
  <2> SUFFICES ASSUME NEW d \in Conds
               PROVE  /\ ended'[d] = "done" => \A t \in Tasks : earned'[d][t] # "none"
                      /\ ended'[d] = "blocked" => Void(earned'[d]) # {}
                      /\ ended'[d] \in {"done", "blocked"} => cut'[d] = {}
    BY DEF EndedInv
  <2>1. CASE d = c
    BY <2>1, <1>3, <1>5, <1>6
  <2>2. CASE d # c
    BY <2>2, <1>5, <1>6 DEF IInv, EndedInv
  <2> QED BY <2>1, <2>2
<1> QED BY <1>9, <1>10, <1>11, <1>12, <1>13 DEF IInv

LEMMA ArmInv ==
  ASSUME FAssumption, IInv, NEW c \in Conds, RunM1Arm(c)
  PROVE  IInv'
<1>1. PICK g \in [Tasks -> BaseRuns] :
        /\ rows' = [rows EXCEPT ![c] = BaseRows(g)]
        /\ earned' = [earned EXCEPT ![c] = BaseFared(g)]
  BY DEF RunM1Arm
<1> DEFINE n == K * Len(Corpus)
<1>2. n \in 0 .. n /\ BaseRows(g) = SubSeq(BaseRows(g), 1, n)
  <2>1. n \in Nat /\ BaseRows(g) \in Seq(Row) /\ Len(BaseRows(g)) = n
    BY BaseRowAt
  <2> DEFINE b == BaseRows(g)
  <2> HIDE DEF n, b
  <2>2. b \in Seq(Row) /\ Len(b) = n
    BY <2>1 DEF b
  <2>3. b = SubSeq(b, 1, n)
    BY <2>2, SubSeqFull
  <2> QED BY <2>1, <2>3 DEF b
<1>3. /\ phase = "idle" /\ starts < MaxStarts /\ cond' = c /\ starts' = starts + 1
      /\ sidecar' = [sidecar EXCEPT ![c] = {}] /\ torn' = [torn EXCEPT ![c] = {}]
      /\ ended' = [ended EXCEPT ![c] = "done"] /\ UNCHANGED <<phase, next, voids>>
      /\ cut' = [cut EXCEPT ![c] = {}]
  BY DEF RunM1Arm
<1>4. torn'[c] = {} /\ torn' = [torn EXCEPT ![c] = torn'[c]]
  BY <1>3 DEF IInv, TypeOK
<1> QED BY <1>1, <1>2, <1>3, <1>4, ArmStep

LEMMA ArmCutInv ==
  ASSUME FAssumption, IInv, NEW c \in Conds, RunM1ArmCut(c)
  PROVE  IInv'
<1>1. PICK g \in [Tasks -> BaseRuns] : \E n \in 0 .. K * Len(Corpus) :
        /\ rows' = [rows EXCEPT ![c] = SubSeq(BaseRows(g), 1, n)]
        /\ \/ torn' = [torn EXCEPT ![c] = @ \ {"runs"}]
           \/ torn' = [torn EXCEPT ![c] = @ \cup {"runs"}]
           \/ torn' = [torn EXCEPT ![c] = {"sidecar"}]
        /\ earned' = [earned EXCEPT ![c] = BaseFared(g)]
  BY DEF RunM1ArmCut
<1>2. PICK n \in 0 .. K * Len(Corpus) :
        /\ rows' = [rows EXCEPT ![c] = SubSeq(BaseRows(g), 1, n)]
        /\ \/ torn' = [torn EXCEPT ![c] = @ \ {"runs"}]
           \/ torn' = [torn EXCEPT ![c] = @ \cup {"runs"}]
           \/ torn' = [torn EXCEPT ![c] = {"sidecar"}]
        /\ earned' = [earned EXCEPT ![c] = BaseFared(g)]
  BY <1>1
<1>3. /\ phase = "idle" /\ starts < MaxStarts /\ cond' = c /\ starts' = starts + 1
      /\ sidecar' = sidecar /\ ended' = [ended EXCEPT ![c] = "killed"]
      /\ cut' = [cut EXCEPT ![c] = {}] /\ UNCHANGED <<phase, next, voids>>
  BY DEF RunM1ArmCut
<1>4. torn'[c] \subseteq {"runs", "sidecar"} /\ torn' = [torn EXCEPT ![c] = torn'[c]]
  <2>1. torn \in [Conds -> SUBSET {"runs", "sidecar"}] /\ torn[c] \subseteq {"runs", "sidecar"}
    BY DEF IInv, TypeOK
  <2>2. CASE torn' = [torn EXCEPT ![c] = @ \ {"runs"}]
    BY <2>1, <2>2
  <2>3. CASE torn' = [torn EXCEPT ![c] = @ \cup {"runs"}]
    BY <2>1, <2>3
  <2>4. CASE torn' = [torn EXCEPT ![c] = {"sidecar"}]
    BY <2>1, <2>4
  <2> QED BY <1>2, <2>2, <2>3, <2>4
<1> QED BY <1>2, <1>3, <1>4, ArmStep

LEMMA NextInv == FAssumption /\ IInv /\ [Next]_vars => IInv'
<1> SUFFICES ASSUME FAssumption, IInv, [Next]_vars PROVE IInv'
  OBVIOUS
<1>1. ASSUME NEW c \in Conds, Start(c) PROVE IInv'
  BY <1>1, StartInv
<1>2. CASE RunTask
  BY <1>2, RunTaskInv
<1>3. CASE CorpusDone \/ TaskRaises
  BY <1>3, CorpusDoneInv
<1>4. CASE WriteSidecar
  BY <1>4, WriteSidecarInv
<1>8. CASE RecordingRaises
  BY <1>8, RecordingRaisesInv
<1>5. CASE Kill
  BY <1>5, KillInv
<1>6. CASE RunM1
  <2>1. PICK c \in Conds : RunM1Arm(c) \/ RunM1ArmCut(c)
    BY <1>6 DEF RunM1
  <2> QED BY <2>1, ArmInv, ArmCutInv
<1>7. CASE UNCHANGED vars
  BY <1>7 DEF vars, fileVars, IInv, TypeOK, HonestInv, RunningInv, OpenInv, SettledInv, Settled,
              EndedInv
<1> QED BY <1>1, <1>2, <1>3, <1>4, <1>5, <1>6, <1>7, <1>8 DEF Next, RunF

\* The files of a condition never say of a task what it did not earn.
THEOREM FilesAreHonest == Spec => []IInv
<1>1. Init => IInv
  BY InitInv, FAssumption
<1>2. IInv /\ [Next]_vars => IInv'
  BY NextInv, FAssumption
<1> QED BY <1>1, <1>2, PTL DEF Spec

-----------------------------------------------------------------------------
(* The report.                                                             *)

\* What the report calls complete, by the rows and the sidecar.
LEMMA ReportReads ==
  ASSUME FAssumption, IInv, NEW c \in Conds
  PROVE  /\ \A t : TaskRows(c, t) = At(rows[c], t) /\ ValidRows(c, t) = Good(rows[c], t)
         /\ Listed(c) \subseteq Tasks
         /\ \A t \in Tasks : t \in Listed(c) <=> At(rows[c], t) # {} \/ t \in sidecar[c]
         /\ \A t \in Tasks : Cardinality(Good(rows[c], t)) \in Nat
<1>1. \A t : TaskRows(c, t) = At(rows[c], t)
  BY DEF TaskRows, At
<1>2. \A t : ValidRows(c, t) = Good(rows[c], t)
  BY <1>1 DEF ValidRows, Good, RunAt
<1>3. rows[c] \in Seq(Row) /\ sidecar[c] \subseteq Tasks
  BY DEF IInv, TypeOK
<1>4. \A i \in DOMAIN rows[c] : rows[c][i].task_id \in Tasks
  <2>1. \A i \in DOMAIN rows[c] : rows[c][i] \in Row
    BY <1>3
  <2> QED BY <2>1, RowTask
<1>5. Listed(c) \subseteq Tasks
  BY <1>3, <1>4 DEF Listed, RowsTasks
<1>6. \A t \in Tasks : t \in Listed(c) <=> At(rows[c], t) # {} \/ t \in sidecar[c]
  BY DEF Listed, RowsTasks, At
<1>7. \A t \in Tasks : Cardinality(Good(rows[c], t)) \in Nat
  BY <1>3, AtFinite
<1> QED BY <1>1, <1>2, <1>5, <1>6, <1>7

\* A task the report scores had its K clean runs, and the verdict they came to.
LEMMA CompleteIsEarned ==
  ASSUME FAssumption, IInv, NEW c \in Conds, NEW t \in Complete(c)
  PROVE  /\ t \in Tasks
         /\ earned[c][t] = IF t \in Reliable(c) THEN "reliable" ELSE "unreliable"
         /\ Cardinality(ValidRows(c, t)) = K
         /\ TaskRows(c, t) = ValidRows(c, t)
<1>0. SpecK \in Nat /\ SpecK >= K
  BY SpecAssumption
<1>1. t \in Listed(c) /\ ~VoidTask(c, t)
  BY DEF Complete
<1>2. t \in Tasks /\ TaskRows(c, t) = At(rows[c], t) /\ ValidRows(c, t) = Good(rows[c], t)
      /\ Cardinality(Good(rows[c], t)) \in Nat
  BY <1>1, ReportReads
<1>3. At(rows[c], t) # {} /\ ~(Cardinality(Good(rows[c], t)) < SpecK)
  BY <1>1, <1>2, ReportReads DEF VoidTask
<1>4. Cardinality(Good(rows[c], t)) >= K
  BY <1>0, <1>2, <1>3, CorpusFacts
<1>5. /\ Cardinality(Good(rows[c], t)) = K /\ At(rows[c], t) = Good(rows[c], t)
      /\ earned[c][t] = Grade(rows[c], t)
  BY <1>2, <1>4 DEF IInv, HonestInv, Honest
<1>6. t \in Reliable(c) <=> \A i \in Good(rows[c], t) : RunPasses(RowToRun(rows[c][i]))
  BY <1>2 DEF Reliable, RunAt
<1> QED BY <1>2, <1>5, <1>6 DEF Grade

\* A task the report scores, at whatever moment and after whatever
\* interruptions, had K clean runs in the last invocation, is scored over
\* these and no other, and is reliable exactly when all of them passed; two
\* arms are compared over tasks scored so in both.
THEOREM ScoresAreEarned == Spec => []ScoredIsEarned
<1>1. IInv => ScoredIsEarned
  <2> SUFFICES ASSUME IInv PROVE ScoredIsEarned
    OBVIOUS
  <2>1. \A c \in Conds : \A t \in Complete(c) :
          /\ earned[c][t] = IF t \in Reliable(c) THEN "reliable" ELSE "unreliable"
          /\ Cardinality(ValidRows(c, t)) = K
          /\ TaskRows(c, t) = ValidRows(c, t)
    BY FAssumption, CompleteIsEarned
  <2>2. \A c \in Conds : \A t \in Complete(c) : earned[c][t] \in {"reliable", "unreliable"}
    BY <2>1
  <2>3. ASSUME NEW a \in Conds, NEW b \in Conds, ~Skipped(a, b), NEW t \in Complete(a) \cup Complete(b)
        PROVE  {earned[a][t], earned[b][t]} \subseteq {"reliable", "unreliable"}
    <3>1. t \in Complete(a) /\ t \in Complete(b)
      BY <2>3 DEF Skipped
    <3> QED BY <3>1, <2>2
  <2> QED BY <2>1, <2>3 DEF ScoredIsEarned
<1> QED BY <1>1, FilesAreHonest, PTL

\* Under a spec whose k is that of the config, and unless the last invocation
\* was killed or is under way, the report and the subreport call void exactly
\* the tasks that fell short of K clean runs, but for the one that was being
\* recorded when the invocation was interrupted.
THEOREM VoidsAreEarned == Spec => []VoidIsEarned
<1>1. IInv => VoidIsEarned
  <2> SUFFICES ASSUME IInv, NEW c \in Conds, SpecK = K, phase = "idle", ended[c] # "killed"
               PROVE  /\ {t \in Listed(c) : VoidTask(c, t)} \ cut[c] =
                           {t \in Tasks : earned[c][t] = "void"} \ cut[c]
                      /\ \A t \in DetailTasks(c) : Incomplete(c, t) <=> VoidTask(c, t)
    BY DEF VoidIsEarned
  <2>1. /\ sidecar[c] \subseteq Void(earned[c])
        /\ \A t \in Tasks \ cut[c] : Whole(rows[c], earned[c], t)
        /\ \A t \in Void(earned[c]) \ cut[c] : t \in sidecar[c] \/ At(rows[c], t) # {}
    BY DEF IInv, SettledInv, Settled
  <2>2. ASSUME NEW t \in Tasks
        PROVE  /\ TaskRows(c, t) = At(rows[c], t) /\ ValidRows(c, t) = Good(rows[c], t)
               /\ Cardinality(Good(rows[c], t)) \in Nat
               /\ t \in Listed(c) <=> At(rows[c], t) # {} \/ t \in sidecar[c]
               /\ Honest(rows[c], earned[c], t)
               /\ t \notin cut[c] => Whole(rows[c], earned[c], t)
               /\ earned[c][t] \in Fares
    BY <2>1, FAssumption, ReportReads DEF IInv, HonestInv, TypeOK
  <2>3. ASSUME NEW t \in Tasks, t \in Listed(c), t \notin cut[c]
        PROVE  VoidTask(c, t) <=> earned[c][t] = "void"
    <3>1. CASE earned[c][t] = "void"
      <4>1. Cardinality(ValidRows(c, t)) < K
        BY <3>1, <2>2 DEF Honest
      <4> QED BY <3>1, <4>1, <2>2, <2>3 DEF VoidTask
    <3>2. CASE earned[c][t] # "void"
      <4>1. t \notin sidecar[c]
        BY <3>2, <2>1 DEF Void
      <4>2. earned[c][t] # "none"
        BY <4>1, <2>2, <2>3 DEF Honest
      <4>3. Cardinality(ValidRows(c, t)) = K
        BY <3>2, <4>2, <2>2, <2>3 DEF Whole, Fares
      <4>4. ~(Cardinality(ValidRows(c, t)) < K)
        BY <4>3, CorpusFacts, FAssumption
      <4> QED BY <3>2, <4>1, <4>4 DEF VoidTask
    <3> QED BY <3>1, <3>2
  <2>4. \A t \in Tasks \ cut[c] : earned[c][t] = "void" => t \in Listed(c)
    BY <2>1, <2>2 DEF Void
  <2>5. Listed(c) \subseteq Tasks
    BY FAssumption, ReportReads
  <2>6. {t \in Listed(c) : VoidTask(c, t)} \ cut[c] = {t \in Tasks : earned[c][t] = "void"} \ cut[c]
    BY <2>3, <2>4, <2>5
  <2>7. ASSUME NEW t \in DetailTasks(c) PROVE Incomplete(c, t) <=> VoidTask(c, t)
    <3>1. t \in Listed(c) /\ t \in Tasks /\ ValidRows(c, t) # {}
      BY <2>5 DEF DetailTasks
    <3>2. TaskRows(c, t) # {}
      BY <3>1 DEF ValidRows
    <3>3. VoidTask(c, t) => Cardinality(ValidRows(c, t)) < K
      BY <3>1, <2>1, <2>2 DEF Honest, Void, VoidTask
    <3> QED BY <3>2, <3>3 DEF Incomplete, VoidTask
  <2> QED BY <2>6, <2>7
<1> QED BY <1>1, FilesAreHonest, PTL

\* An estimate that is not flagged covers the corpus, unless the last
\* invocation failed, was killed or is under way.
THEOREM UnflaggedCoversCorpus == Spec => []UnflaggedIsWhole
<1>1. IInv => UnflaggedIsWhole
  <2> SUFFICES ASSUME IInv, NEW c \in Conds, phase = "idle", ended[c] \in {"done", "blocked"},
                      HasResult(c), ~FlaggedVoid(c)
               PROVE  Complete(c) = Tasks
    BY DEF UnflaggedIsWhole
  <2>1. /\ sidecar[c] \subseteq Void(earned[c])
        /\ \A t \in Tasks : Whole(rows[c], earned[c], t)
        /\ \A t \in Void(earned[c]) : t \in sidecar[c] \/ At(rows[c], t) # {}
    BY DEF IInv, SettledInv, Settled, EndedInv
  <2>2. ASSUME NEW t \in Tasks
        PROVE  /\ TaskRows(c, t) = At(rows[c], t) /\ ValidRows(c, t) = Good(rows[c], t)
               /\ t \in Listed(c) <=> At(rows[c], t) # {} \/ t \in sidecar[c]
               /\ Honest(rows[c], earned[c], t) /\ Whole(rows[c], earned[c], t)
               /\ earned[c][t] \in Fares
    BY <2>1, FAssumption, ReportReads DEF IInv, HonestInv, TypeOK
  <2>3. \A t \in Listed(c) : ~VoidTask(c, t)
    BY DEF FlaggedVoid
  <2>4. ASSUME NEW t \in Tasks PROVE earned[c][t] # "void"
    <3> SUFFICES ASSUME earned[c][t] = "void" PROVE FALSE
      OBVIOUS
    <3>1. t \in Listed(c)
      BY <2>1, <2>2 DEF Void
    <3>2. Cardinality(ValidRows(c, t)) < SpecK
      <4>1. Cardinality(Good(rows[c], t)) < K /\ Cardinality(Good(rows[c], t)) \in Nat
        BY <2>2, FAssumption, ReportReads DEF Honest
      <4> QED BY <4>1, <2>2, SpecAssumption, FAssumption, CorpusFacts
    <3>3. VoidTask(c, t)
      BY <2>2, <3>1, <3>2 DEF VoidTask
    <3> QED BY <2>3, <3>1, <3>3
  <2>5. ended[c] = "done"
    <3>1. Void(earned[c]) = {}
      BY <2>4 DEF Void
    <3> QED BY <3>1 DEF IInv, EndedInv
  <2>6. ASSUME NEW t \in Tasks PROVE t \in Complete(c)
    <3>1. earned[c][t] \in {"reliable", "unreliable"}
      BY <2>2, <2>4, <2>5 DEF IInv, EndedInv, Fares
    <3>2. Cardinality(Good(rows[c], t)) = K
      BY <3>1, <2>2 DEF Whole
    <3>3. At(rows[c], t) # {}
      <4> SUFFICES ASSUME At(rows[c], t) = {} PROVE FALSE
        OBVIOUS
      <4>1. Good(rows[c], t) = {}
        BY DEF Good
      <4>2. Cardinality(Good(rows[c], t)) = 0
        BY <4>1, FS_EmptySet
      <4> QED BY <4>2, <3>2, CorpusFacts, FAssumption
    <3>4. t \in Listed(c)
      BY <3>3, <2>2
    <3> QED BY <3>4, <2>3 DEF Complete
  <2>7. Complete(c) \subseteq Tasks
    BY FAssumption, ReportReads DEF Complete
  <2> QED BY <2>6, <2>7
<1> QED BY <1>1, FilesAreHonest, PTL

\* The variables have their types: what is on disk beside a condition's name
\* are whole rows of recorded runs, whatever was cut short.
THEOREM FTypeCorrect == Spec => []TypeOK
<1>1. IInv => TypeOK
  BY DEF IInv
<1> QED BY <1>1, FilesAreHonest, PTL

-----------------------------------------------------------------------------
(* The two readings of a run.                                              *)

\* For every recorded run, not only those with at most two legs: the
\* classifier calls it passed exactly when pass^k counts it as a pass, and puts
\* a counted node run that fails down to the model or the task.
THEOREM ReadersAgree ==
  ASSUME NEW r \in Run, Recorded(r)
  PROVE  /\ Classify(r)[1] = "passed" <=> RunPasses(r)
         /\ r.legs # <<>> /\ ~EnvInvalid(r) /\ ~RunPasses(r) =>
              Classify(r)[1] \in {"agent_failure", "task_failure"}
<1>1. r.pf \in ParseFailures /\ r.stop \in StopReasons /\ r.capped \in BOOLEAN
      /\ r.passed \in BOOLEAN /\ r.legs \in Seq(Legs)
      /\ r.reason \in {"none", "forbidden_action", "step_limit_exceeded"}
  BY DEF Run
<1>2. CapBound(r) <=> r.capped
  BY DEF CapBound, Recorded, NoFairTrial
<1>3. r.passed /\ ~r.capped => Classify(r)[1] = "passed"
  BY <1>2 DEF Classify
<1>4. ~(r.passed /\ ~r.capped) => Classify(r) = FailureRow(r)
  BY <1>2 DEF Classify
<1>5. GradeRow(r)[1] = "agent_failure"
  BY DEF GradeRow, OracleRow, Agent
<1>6. FailureRow(r)[1] # "passed"
  BY <1>5 DEF FailureRow, LegRow, ParseFailureRow, Harness, Agent
<1>7. ASSUME r.legs # <<>>, ~EnvInvalid(r), ~RunPasses(r)
      PROVE  Classify(r)[1] \in {"agent_failure", "task_failure"}
  <2>1. r.pf \notin ProviderErrors \cup {"no_choices"} /\ r.stop # "env_unhealthy"
    BY <1>7 DEF EnvInvalid, Recorded, NoFairTrial, ProviderErrors
  <2>2. r.legs[1] # "harness"
    <3>1. 1 \in DOMAIN r.legs
      BY <1>1, <1>7
    <3> QED BY <3>1, <1>7 DEF EnvInvalid, GradeMarksEnvInvalid
  <2>3. FailureRow(r)[1] \in {"agent_failure", "task_failure"}
    BY <2>1, <2>2, <1>5, <1>7 DEF FailureRow, LegRow, ParseFailureRow, Agent
  <2> QED BY <2>3, <1>4, <1>7 DEF RunPasses
<1> QED BY <1>3, <1>4, <1>6, <1>7 DEF RunPasses

\* The same for the recorded runs the report's run looks at.
THEOREM CountedAreTheModels == Spec => []CountedIsTheModels
<1>1. \A r \in RecordedRuns : r \in Run /\ Recorded(r)
  <2>1. {<<>>} \cup {<<a>> : a \in Legs} \cup (Legs \X Legs) \subseteq Seq(Legs)
    <3>1. <<>> \in Seq(Legs) /\ \A a \in Legs : <<a>> \in Seq(Legs)
      OBVIOUS
    <3>2. ASSUME NEW a \in Legs, NEW b \in Legs PROVE <<a, b>> \in Seq(Legs)
      <4> HIDE DEF Legs
      <4> QED OBVIOUS
    <3>3. \A p \in Legs \X Legs : \E a, b \in Legs : p = <<a, b>>
      OBVIOUS
    <3>4. {<<a>> : a \in Legs} \subseteq Seq(Legs)
      BY <3>1
    <3>5. Legs \X Legs \subseteq Seq(Legs)
      BY <3>2, <3>3
    <3>6. {<<>>} \subseteq Seq(Legs)
      BY <3>1
    <3> QED BY <3>4, <3>5, <3>6, Zenon
  <2> DEFINE few == {<<>>} \cup {<<a>> : a \in Legs} \cup (Legs \X Legs)
  <2> HIDE DEF few
  <2>2. \A r \in [pf : ParseFailures, stop : StopReasons, capped : BOOLEAN, passed : BOOLEAN,
                    reason : {"none", "forbidden_action", "step_limit_exceeded"}, legs : few] : r \in Run
    BY <2>1 DEF Run, few
  <2> QED BY <2>2 DEF RecordedRuns, few
<1>2. CountedIsTheModels
  BY <1>1, ReadersAgree DEF CountedIsTheModels
<1> QED BY <1>2, PTL

-----------------------------------------------------------------------------
(* Holm's step-down, for a family of any size.                             *)

\* j comes before i in the stable ascending sort.
Precedes(ps, j, i) == ps[j] < ps[i] \/ (ps[j] = ps[i] /\ j < i)
Before(ps, i) == {j \in DOMAIN ps : Precedes(ps, j, i)}

LEMMA RankFacts ==
  ASSUME NEW m \in Nat, NEW ps \in [1 .. m -> Nat]
  PROVE  /\ Len(ps) = m
         /\ \A i \in 1 .. m : Rank(ps, i) \in 0 .. m /\ Rank(ps, i) = Cardinality(Before(ps, i))
         /\ \A i, j \in 1 .. m : Rank(ps, j) <= Rank(ps, i) <=> (j = i \/ Precedes(ps, j, i))
<1>1. IsFiniteSet(1 .. m) /\ Cardinality(1 .. m) = m
  BY OneToCard
<1>2. ps \in Seq(Nat) /\ Len(ps) = m /\ DOMAIN ps = 1 .. m
  OBVIOUS
<1>3. ASSUME NEW i \in 1 .. m
      PROVE  /\ Rank(ps, i) = Cardinality(Before(ps, i)) /\ IsFiniteSet(Before(ps, i))
             /\ Rank(ps, i) \in 0 .. m
  <2>1. Rank(ps, i) = Cardinality(Before(ps, i))
    BY DEF Rank, Before, Precedes
  <2>2. Before(ps, i) \subseteq 1 .. m
    BY <1>2 DEF Before
  <2>3. IsFiniteSet(Before(ps, i)) /\ Cardinality(Before(ps, i)) \in Nat /\ Cardinality(Before(ps, i)) <= m
    BY <2>2, <1>1, PartCard
  <2> QED BY <2>1, <2>3
<1>4. ASSUME NEW i \in 1 .. m, NEW j \in 1 .. m, Precedes(ps, j, i)
      PROVE  Rank(ps, j) < Rank(ps, i)
  <2>1. Before(ps, j) \subseteq Before(ps, i)
    BY <1>2, <1>4 DEF Before, Precedes
  <2>2. j \in Before(ps, i) /\ j \notin Before(ps, j)
    BY <1>2, <1>4 DEF Before, Precedes
  <2>3. Cardinality(Before(ps, j)) < Cardinality(Before(ps, i))
    BY <2>1, <2>2, <1>3, PartCard
  <2> QED BY <2>3, <1>3
<1>5. \A i, j \in 1 .. m : i = j \/ Precedes(ps, i, j) \/ Precedes(ps, j, i)
  BY DEF Precedes
<1>6. ASSUME NEW i \in 1 .. m, NEW j \in 1 .. m
      PROVE  Rank(ps, j) <= Rank(ps, i) <=> (j = i \/ Precedes(ps, j, i))
  <2>1. Rank(ps, i) \in Int /\ Rank(ps, j) \in Int
    BY <1>3
  <2>2. Precedes(ps, j, i) => Rank(ps, j) < Rank(ps, i)
    BY <1>4
  <2>3. Precedes(ps, i, j) => Rank(ps, i) < Rank(ps, j)
    BY <1>4
  <2> QED BY <2>1, <2>2, <2>3, <1>5
<1> QED BY <1>2, <1>3, <1>6

\* Bonferroni rejects the intersection of the hypotheses of S.
BonferroniRejects(ps, alpha, S) == \E j \in S : ps[j] * Cardinality(S) <= alpha

\* Holm's step-down is the closed test of its family, whatever its size.
THEOREM HolmIsClosed ==
  ASSUME NEW m \in Nat, NEW ps \in [1 .. m -> Nat], NEW alpha \in Nat, NEW i \in 1 .. m
  PROVE  Rejected(ps, alpha, i) <=>
           \A S \in SUBSET (1 .. m) : i \in S => BonferroniRejects(ps, alpha, S)
<1>1. IsFiniteSet(1 .. m) /\ Cardinality(1 .. m) = m /\ DOMAIN ps = 1 .. m /\ Len(ps) = m
  BY OneToCard, RankFacts
<1>2. ASSUME NEW j \in 1 .. m
      PROVE  /\ Rank(ps, j) \in Nat /\ m - Rank(ps, j) \in Nat
             /\ Cardinality((1 .. m) \ Before(ps, j)) = m - Rank(ps, j)
             /\ (1 .. m) \ Before(ps, j) = {k \in 1 .. m : Rank(ps, j) <= Rank(ps, k)}
  <2>1. Rank(ps, j) \in 0 .. m /\ Rank(ps, j) = Cardinality(Before(ps, j))
    BY RankFacts
  <2>2. Before(ps, j) \subseteq 1 .. m
    BY <1>1 DEF Before
  <2>3. Cardinality((1 .. m) \ Before(ps, j)) = m - Cardinality((1 .. m) \cap Before(ps, j))
    BY <1>1, FS_Difference
  <2>4. (1 .. m) \cap Before(ps, j) = Before(ps, j)
    BY <2>2
  <2>5. \A k \in 1 .. m : k \notin Before(ps, j) <=> Rank(ps, j) <= Rank(ps, k)
    <3>1. \A k \in 1 .. m : Rank(ps, j) <= Rank(ps, k) <=> (j = k \/ Precedes(ps, j, k))
      BY RankFacts
    <3>2. \A k \in 1 .. m : ~Precedes(ps, k, j) <=> (j = k \/ Precedes(ps, j, k))
      BY DEF Precedes
    <3> QED BY <3>1, <3>2, <1>1 DEF Before
  <2>6. Rank(ps, j) \in Nat /\ m - Rank(ps, j) \in Nat
    BY <2>1
  <2> QED BY <2>1, <2>3, <2>4, <2>5, <2>6
<1>3. ASSUME Rejected(ps, alpha, i), NEW S \in SUBSET (1 .. m), i \in S
      PROVE  BonferroniRejects(ps, alpha, S)
  <2>1. PICK r \in {Rank(ps, k) : k \in S} : \A q \in {Rank(ps, k) : k \in S} : r <= q
    <3> DEFINE T == {Rank(ps, k) : k \in S}
    <3>1. T \subseteq Nat
      BY <1>2
    <3>2. Rank(ps, i) \in T
      BY <1>3
    <3> HIDE DEF T
    <3>3. \E r \in T : \A q \in T : r <= q
      BY <3>1, <3>2, LeastMember
    <3> QED BY <3>3 DEF T
  <2>2. PICK j \in S : r = Rank(ps, j)
    BY <2>1
  <2>3. \A k \in S : Rank(ps, j) <= Rank(ps, k)
    BY <2>1, <2>2
  <2>4. S \subseteq (1 .. m) \ Before(ps, j) /\ j \in 1 .. m
    BY <2>3, <1>2
  <2>5. IsFiniteSet((1 .. m) \ Before(ps, j))
    BY <1>1, PartCard
  <2>6. Cardinality(S) \in Nat /\ Cardinality(S) <= m - Rank(ps, j)
    <3>1. /\ Cardinality(S) \in Nat
          /\ Cardinality(S) <= Cardinality((1 .. m) \ Before(ps, j))
      BY <2>4, <2>5, PartCard
    <3>2. Cardinality((1 .. m) \ Before(ps, j)) = m - Rank(ps, j)
      BY <2>4, <1>2
    <3> QED BY <3>1, <3>2
  <2>7. ps[j] * (m - Rank(ps, j)) <= alpha
    BY <2>3, <2>4, <1>1, <1>3 DEF Rejected, BelowThreshold
  <2>8. ps[j] \in Nat /\ m - Rank(ps, j) \in Nat
    <3>1. m - Rank(ps, j) \in Nat
      BY <2>4, <1>2
    <3> QED BY <3>1, <2>4
  <2>9. ps[j] * Cardinality(S) <= alpha
    <3> DEFINE x == ps[j]
               y == Cardinality(S)
               z == m - Rank(ps, j)
    <3>1. x \in Nat /\ y \in Nat /\ z \in Nat /\ y <= z /\ x * z <= alpha
      BY <2>6, <2>7, <2>8
    <3> HIDE DEF x, y, z
    <3>2. x * y <= x * z /\ x * y \in Int /\ x * z \in Int
      BY <3>1
    <3>3. x * y <= alpha
      BY <3>1, <3>2
    <3> QED BY <3>3 DEF x, y, z
  <2> QED BY <2>9 DEF BonferroniRejects
<1>4. ASSUME \A S \in SUBSET (1 .. m) : i \in S => BonferroniRejects(ps, alpha, S),
             NEW j \in DOMAIN ps, Rank(ps, j) <= Rank(ps, i)
      PROVE  BelowThreshold(ps, alpha, j)
  <2> DEFINE S == (1 .. m) \ Before(ps, j)
  <2>1. j \in 1 .. m /\ i \in S /\ Cardinality(S) = m - Rank(ps, j) /\ m - Rank(ps, j) \in Nat
    <3>1. j \in 1 .. m
      BY <1>1
    <3>2. /\ m - Rank(ps, j) \in Nat
          /\ Cardinality((1 .. m) \ Before(ps, j)) = m - Rank(ps, j)
          /\ (1 .. m) \ Before(ps, j) = {k \in 1 .. m : Rank(ps, j) <= Rank(ps, k)}
      BY <3>1, <1>2
    <3> QED BY <3>1, <3>2, <1>4
  <2>2. S \in SUBSET (1 .. m)
    OBVIOUS
  <2>3. PICK l \in S : ps[l] * Cardinality(S) <= alpha
    BY <2>1, <2>2, <1>4 DEF BonferroniRejects
  <2>4. l \in 1 .. m /\ Rank(ps, j) <= Rank(ps, l)
    BY <2>1, <1>2
  <2>5. ps[j] <= ps[l]
    <3>1. j = l \/ Precedes(ps, j, l)
      BY <2>1, <2>4, RankFacts
    <3> QED BY <3>1, <2>1, <2>4 DEF Precedes
  <2>6. ps[j] * (m - Rank(ps, j)) <= alpha
    <3> DEFINE x == ps[j]
               y == ps[l]
               z == m - Rank(ps, j)
    <3>1. x \in Nat /\ y \in Nat /\ z \in Nat /\ x <= y /\ y * z <= alpha
      BY <2>1, <2>3, <2>4, <2>5
    <3> HIDE DEF x, y, z
    <3>2. x * z <= y * z /\ x * z \in Int /\ y * z \in Int
      BY <3>1
    <3>3. x * z <= alpha
      BY <3>1, <3>2
    <3> QED BY <3>3 DEF x, y, z
  <2> QED BY <2>6, <1>1 DEF BelowThreshold
<1> QED BY <1>3, <1>4 DEF Rejected

\* A set of numbers below a bound has the largest member Max chooses.
LEMMA MaxOfBounded ==
  ASSUME NEW d \in Nat, NEW S, S \subseteq 0 .. d, S # {}
  PROVE  Max(S) \in S /\ \A y \in S : Max(S) >= y
<1> DEFINE T == {d - x : x \in S}
<1>1. \A x \in S : x \in Nat /\ d - x \in Nat
  OBVIOUS
<1>2. T \subseteq Nat /\ T # {}
  BY <1>1
<1>3. PICK t \in T : \A u \in T : t <= u
  <2> HIDE DEF T
  <2> QED BY <1>2, LeastMember
<1>4. PICK x \in S : t = d - x
  BY <1>3
<1>5. ASSUME NEW y \in S PROVE x >= y
  <2>1. d - x <= d - y
    BY <1>3, <1>4
  <2> QED BY <2>1, <1>1
<1>6. \E z \in S : \A y \in S : z >= y
  BY <1>5
<1> QED BY <1>6 DEF Max

LEMMA MinOfTwo ==
  ASSUME NEW a \in Int, NEW b \in Int
  PROVE  Min({a, b}) = IF a <= b THEN a ELSE b
<1>1. \E x \in {a, b} : \A y \in {a, b} : x <= y
  OBVIOUS
<1>2. Min({a, b}) \in {a, b} /\ \A y \in {a, b} : Min({a, b}) <= y
  BY <1>1 DEF Min
<1> QED BY <1>2

\* The adjusted p-value says of every level below one what the step-down says.
THEOREM AdjustedIsExact ==
  ASSUME NEW d \in Nat, NEW m \in Nat, NEW ps \in [1 .. m -> Nat],
         NEW alpha \in 0 .. d - 1, NEW i \in 1 .. m
  PROVE  Rejected(ps, alpha, i) <=> AdjustedP(ps, d, i) <= alpha
<1> DEFINE stepped(j) == (Len(ps) - Rank(ps, j)) * ps[j]
           capped(j) == Min({d, stepped(j)})
           early == {k \in DOMAIN ps : Rank(ps, k) <= Rank(ps, i)}
           S == {capped(j) : j \in early}
<1>1. Len(ps) = m /\ DOMAIN ps = 1 .. m
  BY RankFacts
<1>2. ASSUME NEW j \in 1 .. m
      PROVE  /\ capped(j) \in 0 .. d
             /\ capped(j) <= alpha <=> BelowThreshold(ps, alpha, j)
  <2> DEFINE z == Len(ps) - Rank(ps, j)
             x == ps[j]
  <2>1. z \in Nat /\ x \in Nat
    <3>1. Rank(ps, j) \in 0 .. m
      BY RankFacts
    <3> QED BY <3>1, <1>1
  <2>2. stepped(j) = z * x /\ (BelowThreshold(ps, alpha, j) <=> x * z <= alpha)
    BY DEF BelowThreshold
  <2> HIDE DEF z, x, stepped
  <2>3. z * x \in Nat /\ z * x = x * z
    BY <2>1
  <2>4. capped(j) = IF d <= stepped(j) THEN d ELSE stepped(j)
    BY <2>2, <2>3, MinOfTwo
  <2> HIDE DEF capped
  <2> QED BY <2>2, <2>3, <2>4
<1>3. i \in early /\ early \subseteq 1 .. m
  BY <1>1, RankFacts
<1>4. AdjustedP(ps, d, i) = Max(S)
  BY DEF AdjustedP
<1>5. Rejected(ps, alpha, i) <=> \A j \in early : BelowThreshold(ps, alpha, j)
  BY DEF Rejected
<1> HIDE DEF capped, early
<1>6. S \subseteq 0 .. d /\ S # {} /\ \A j \in early : capped(j) \in S
  BY <1>2, <1>3
<1>7. \A y \in S : y \in Nat /\ \E j \in early : y = capped(j)
  BY <1>6
<1> HIDE DEF S
<1>8. Max(S) \in S /\ \A y \in S : Max(S) >= y
  BY <1>6, MaxOfBounded
<1>9. Max(S) <= alpha <=> \A y \in S : y <= alpha
  BY <1>7, <1>8
<1>10. (\A y \in S : y <= alpha) <=> \A j \in early : capped(j) <= alpha
  BY <1>6, <1>7
<1>11. (\A j \in early : capped(j) <= alpha) <=> \A j \in early : BelowThreshold(ps, alpha, j)
  BY <1>2, <1>3
<1> QED BY <1>4, <1>5, <1>9, <1>10, <1>11

\* The same for the families the report's run looks at.
THEOREM HolmIsTheClosedTest == Spec => []HolmIsClosedTesting
<1>1. ASSUME NEW m \in 1 .. MaxTests, NEW ps \in [1 .. m -> 0 .. PDen], NEW alpha \in 0 .. PDen - 1,
             NEW i \in 1 .. m
      PROVE  /\ Rejected(ps, alpha, i) <=>
                  \A S \in SUBSET (1 .. m) :
                    i \in S => \E j \in S : ps[j] * Cardinality(S) <= alpha
             /\ Rejected(ps, alpha, i) <=> AdjustedP(ps, PDen, i) <= alpha
  <2>1. m \in Nat /\ PDen \in Nat /\ alpha \in Nat /\ ps \in [1 .. m -> Nat]
    BY ReportAssumption
  <2>2. Rejected(ps, alpha, i) <=>
          \A S \in SUBSET (1 .. m) : i \in S => BonferroniRejects(ps, alpha, S)
    BY <2>1, HolmIsClosed
  <2>3. Rejected(ps, alpha, i) <=> AdjustedP(ps, PDen, i) <= alpha
    BY <2>1, AdjustedIsExact
  <2> QED BY <2>2, <2>3 DEF BonferroniRejects
<1>2. HolmIsClosedTesting
  BY <1>1 DEF HolmIsClosedTesting
<1> QED BY <1>2, PTL

-----------------------------------------------------------------------------
(* Fisher's exact test.                                                     *)

\* Sets matched one to one are of one size.
LEMMA SameSize ==
  ASSUME NEW S, NEW T, IsFiniteSet(T), NEW f \in [S -> T],
         \A x, y \in S : f[x] = f[y] => x = y,
         \A t \in T : \E x \in S : f[x] = t
  PROVE  IsFiniteSet(S) /\ Cardinality(S) = Cardinality(T)
<1>1. f \in Injection(S, T) /\ f \in Surjection(S, T)
  BY DEF Injection, IsInjective, Surjection
<1>2. QED
  BY <1>1, FS_Injection

\* A finite set can be counted off.
LEMMA Counting ==
  ASSUME NEW S, IsFiniteSet(S)
  PROVE  /\ Cardinality(S) \in Nat
         /\ \E f \in [1 .. Cardinality(S) -> S] :
              /\ \A x, y \in 1 .. Cardinality(S) : f[x] = f[y] => x = y
              /\ \A t \in S : \E x \in 1 .. Cardinality(S) : f[x] = t
<1>1. Cardinality(S) \in Nat /\ ExistsBijection(1 .. Cardinality(S), S)
  BY FS_CardinalityType
<1>2. PICK f : f \in Bijection(1 .. Cardinality(S), S)
  BY <1>1 DEF ExistsBijection
<1>3. QED
  BY <1>1, <1>2 DEF Bijection, Injection, IsInjective, Surjection

\* What is counted part by part is counted once.
LEMMA SumOfParts ==
  ASSUME NEW S, IsFiniteSet(S), NEW counts, NEW key \in [S -> DOMAIN counts],
         \A k \in DOMAIN counts : counts[k] = Cardinality({s \in S : key[s] = k})
  PROVE  Total(counts) = Cardinality(S)
<1> DEFINE part(k) == {s \in S : key[s] = k}
           Lists(k) == {f \in [1 .. counts[k] -> part(k)] :
                          /\ \A x, y \in 1 .. counts[k] : f[x] = f[y] => x = y
                          /\ \A t \in part(k) : \E x \in 1 .. counts[k] : f[x] = t}
           list == [k \in DOMAIN counts |-> CHOOSE f : f \in Lists(k)]
           marks == Marks(counts)
           place == [m \in marks |-> list[m[1]][m[2]]]
<1>1. ASSUME NEW k \in DOMAIN counts PROVE list[k] \in Lists(k)
  <2>1. IsFiniteSet(part(k))
    BY FS_Subset
  <2>2. counts[k] = Cardinality(part(k))
    OBVIOUS
  <2> HIDE DEF part
  <2>3. \E f : f \in Lists(k)
    BY <2>1, <2>2, Counting
  <2> HIDE DEF Lists
  <2>4. QED
    BY <2>3
<1>2. ASSUME NEW m \in marks
      PROVE  m = <<m[1], m[2]>> /\ m[1] \in DOMAIN counts /\ m[2] \in 1 .. counts[m[1]]
  BY DEF Marks
<1>3. ASSUME NEW k \in DOMAIN counts, NEW x \in 1 .. counts[k]
      PROVE  <<k, x>> \in marks
  BY DEF Marks
<1> HIDE DEF list, marks
<1>4. ASSUME NEW m \in marks PROVE place[m] \in S /\ key[place[m]] = m[1]
  <2>1. list[m[1]] \in [1 .. counts[m[1]] -> part(m[1])] /\ m[2] \in 1 .. counts[m[1]]
    BY <1>1, <1>2
  <2>2. list[m[1]][m[2]] \in part(m[1])
    BY <2>1
  <2>3. QED
    BY <2>2
<1>5. place \in [marks -> S]
  BY <1>4
<1>6. ASSUME NEW m \in marks, NEW l \in marks, place[m] = place[l] PROVE m = l
  <2>1. m[1] = l[1]
    BY <1>4, <1>6
  <2>2. m[2] = l[2]
    BY <1>1, <1>2, <1>6, <2>1
  <2>3. QED
    BY <1>2, <2>1, <2>2
<1>7. ASSUME NEW s \in S PROVE \E m \in marks : place[m] = s
  <2>1. key[s] \in DOMAIN counts /\ s \in part(key[s])
    OBVIOUS
  <2>2. PICK x \in 1 .. counts[key[s]] : list[key[s]][x] = s
    BY <1>1, <2>1
  <2>3. <<key[s], x>> \in marks
    BY <1>3, <2>1
  <2>4. place[<<key[s], x>>] = s
    BY <2>2, <2>3
  <2>5. QED
    BY <2>3, <2>4
<1> HIDE DEF place
<1>8. Cardinality(marks) = Cardinality(S)
  BY <1>5, <1>6, <1>7, SameSize
<1>9. QED
  BY <1>8 DEF Total, marks

\* The interval lo + 1 .. lo + n has as many subsets of k as 1 .. n.
LEMMA CombCounts ==
  ASSUME NEW n \in Nat, NEW lo \in Nat, NEW k
  PROVE  /\ IsFiniteSet(kSubset(k, lo + 1 .. lo + n))
         /\ Cardinality(kSubset(k, lo + 1 .. lo + n)) = Comb(n, k)
<1> DEFINE I == 1 .. n
           J == lo + 1 .. lo + n
           P == kSubset(k, I)
           Q == kSubset(k, J)
           down(S) == {x - lo : x \in S}
           f == [S \in Q |-> down(S)]
<1>1. IsFiniteSet(I) /\ IsFiniteSet(SUBSET I)
  <2>1. IsFiniteSet(I)
    BY FS_Interval
  <2> HIDE DEF I
  <2>2. QED
    BY <2>1, FS_SUBSET
<1>2. IsFiniteSet(P)
  <2>1. P \in SUBSET (SUBSET I)
    BY DEF kSubset
  <2> HIDE DEF P, I
  <2>2. QED
    BY <1>1, <2>1, FS_Subset
<1>3. ASSUME NEW S \in SUBSET J
      PROVE  down(S) \in SUBSET I /\ Cardinality(down(S)) = Cardinality(S)
  <2> DEFINE g == [x \in S |-> x - lo]
  <2>1. \A x \in S : x \in Int /\ x - lo \in I
    OBVIOUS
  <2>2. down(S) \in SUBSET I
    BY <2>1
  <2>3. IsFiniteSet(down(S))
    BY <1>1, <2>2, FS_Subset
  <2>4. g \in [S -> down(S)] /\ \A x \in S : g[x] = x - lo
    OBVIOUS
  <2>5. \A t \in down(S) : \E x \in S : g[x] = t
    OBVIOUS
  <2> HIDE DEF g, down
  <2>6. \A x, y \in S : g[x] = g[y] => x = y
    BY <2>1, <2>4
  <2>7. QED
    BY <2>2, <2>3, <2>4, <2>5, <2>6, SameSize
<1>4. ASSUME NEW S \in Q PROVE S \in SUBSET J /\ f[S] = down(S) /\ f[S] \in P
  <2>1. S \in SUBSET J /\ Cardinality(S) = k
    BY DEF kSubset
  <2>2. down(S) \in SUBSET I /\ Cardinality(down(S)) = k
    BY <1>3, <2>1
  <2>3. f[S] = down(S)
    OBVIOUS
  <2> HIDE DEF down, f
  <2>4. QED
    BY <2>1, <2>2, <2>3 DEF kSubset
<1>5. ASSUME NEW S \in Q, NEW T \in Q, f[S] = f[T] PROVE S = T
  <2>1. down(S) = down(T) /\ S \in SUBSET J /\ T \in SUBSET J
    BY <1>4, <1>5
  <2>2. \A x \in J : x \in S <=> x - lo \in down(S)
    BY <2>1
  <2>3. \A x \in J : x \in T <=> x - lo \in down(T)
    BY <2>1
  <2> HIDE DEF down
  <2>4. QED
    BY <2>1, <2>2, <2>3
<1>6. ASSUME NEW T \in P PROVE \E S \in Q : f[S] = T
  <2> DEFINE S == {x + lo : x \in T}
  <2>1. T \in SUBSET I /\ Cardinality(T) = k
    BY DEF kSubset
  <2>2. S \in SUBSET J
    BY <2>1
  <2>3. down(S) = T
    <3>1. \A x \in T : x \in Int /\ (x + lo) - lo = x /\ x + lo \in S
      BY <2>1
    <3>2. ASSUME NEW y \in down(S) PROVE y \in T
      <4>1. PICK x \in T : y = (x + lo) - lo
        OBVIOUS
      <4>2. QED
        BY <3>1, <4>1
    <3>3. ASSUME NEW x \in T PROVE x \in down(S)
      <4>1. (x + lo) - lo \in down(S)
        BY <3>1
      <4>2. QED
        BY <3>1, <4>1
    <3> HIDE DEF S, down
    <3>4. QED
      BY <3>2, <3>3
  <2>4. Cardinality(S) = k
    <3> HIDE DEF S, down
    <3>1. QED
      BY <1>3, <2>1, <2>2, <2>3
  <2>5. S \in Q
    BY <2>2, <2>4 DEF kSubset
  <2>6. f[S] = down(S)
    BY <2>5
  <2>7. QED
    BY <2>3, <2>5, <2>6
<1>7. f \in [Q -> P]
  BY <1>4
<1> HIDE DEF f, P, Q
<1>8. IsFiniteSet(Q) /\ Cardinality(Q) = Cardinality(P)
  BY <1>2, <1>5, <1>6, <1>7, SameSize
<1>9. QED
  BY <1>8 DEF Comb, P, Q

\* A deal gives each group its part.
LEMMA DealSplits ==
  ASSUME NEW aN \in Nat, NEW bN \in Nat, NEW S \in SUBSET (1 .. aN + bN)
  PROVE  /\ S \cap (aN + 1 .. aN + bN) = S \ (1 .. aN)
         /\ InFirst(S, aN) \in 0 .. aN
         /\ Cardinality(S \ (1 .. aN)) \in 0 .. bN
         /\ Cardinality(S) = InFirst(S, aN) + Cardinality(S \ (1 .. aN))
<1> DEFINE A == 1 .. aN
           B == aN + 1 .. aN + bN
           N == 1 .. aN + bN
           rest == S \ A
<1>1. S \cap B = rest
  <2>1. \A x \in N : x \in B <=> ~(x \in A)
    OBVIOUS
  <2>2. S \subseteq N
    OBVIOUS
  <2> HIDE DEF A, B, N
  <2>3. QED
    BY <2>1, <2>2
<1>2. /\ IsFiniteSet(A) /\ Cardinality(A) = aN
      /\ IsFiniteSet(B) /\ Cardinality(B) = bN /\ IsFiniteSet(N)
  <2>1. aN + 1 \in Int /\ aN + bN \in Int /\ aN \in Int
    OBVIOUS
  <2>2. IsFiniteSet(A) /\ Cardinality(A) = IF 1 > aN THEN 0 ELSE aN - 1 + 1
    BY <2>1, FS_Interval
  <2>3. IsFiniteSet(B) /\ Cardinality(B) = IF aN + 1 > aN + bN THEN 0 ELSE aN + bN - (aN + 1) + 1
    BY <2>1, FS_Interval
  <2>4. IsFiniteSet(N)
    BY <2>1, FS_Interval
  <2> HIDE DEF A, B, N
  <2>5. QED
    BY <2>2, <2>3, <2>4
<1>3. IsFiniteSet(S)
  BY <1>2, FS_Subset
<1>4. rest \in SUBSET B /\ S \cap A \in SUBSET A
  BY <1>1
<1> HIDE DEF A, B, N
<1>5. Cardinality(rest) = Cardinality(S) - Cardinality(S \cap A)
  BY <1>3, FS_Difference
<1>6. /\ Cardinality(rest) <= bN /\ Cardinality(S \cap A) <= aN
      /\ IsFiniteSet(rest) /\ IsFiniteSet(S \cap A)
  BY <1>2, <1>4, FS_Subset
<1>7. Cardinality(rest) \in Nat /\ Cardinality(S \cap A) \in Nat /\ Cardinality(S) \in Nat
  BY <1>3, <1>6, FS_CardinalityType
<1>8. InFirst(S, aN) = Cardinality(S \cap A)
  BY DEF InFirst, A
<1>9. /\ Cardinality(rest) \in 0 .. bN /\ InFirst(S, aN) \in 0 .. aN
      /\ Cardinality(S) = InFirst(S, aN) + Cardinality(rest)
  BY <1>5, <1>6, <1>7, <1>8
<1>10. QED
  BY <1>1, <1>9 DEF A, B

LEMMA DealsFinite ==
  ASSUME NEW aN \in Nat, NEW bN \in Nat, NEW total
  PROVE  IsFiniteSet(Deals(aN, bN, total))
<1> DEFINE N == 1 .. aN + bN
<1>1. IsFiniteSet(SUBSET N)
  <2>1. IsFiniteSet(N)
    <3>1. 1 \in Int /\ aN + bN \in Int
      OBVIOUS
    <3>2. QED
      BY <3>1, FS_Interval
  <2> HIDE DEF N
  <2>2. QED
    BY <2>1, FS_SUBSET
<1>2. Deals(aN, bN, total) \in SUBSET (SUBSET N)
  BY DEF Deals, kSubset
<1> HIDE DEF N
<1>3. QED
  BY <1>1, <1>2, FS_Subset

\* The first group gets k of the tasks in as many ways as there are tables.
LEMMA WaysAreTables ==
  ASSUME NEW aN \in Nat, NEW bN \in Nat, NEW total \in Nat, NEW k \in 0 .. total
  PROVE  Ways(k, aN, bN, total) = Tables(k, aN, bN, total)
<1> DEFINE A == 1 .. aN
           B == aN + 1 .. aN + bN
           P == {S \in Deals(aN, bN, total) : InFirst(S, aN) = k}
           QA == kSubset(k, A)
           QB == kSubset(total - k, B)
           f == [S \in P |-> <<S \cap A, S \cap B>>]
<1>1. IsFiniteSet(QA) /\ Cardinality(QA) = Comb(aN, k)
  <2>1. 0 + 1 .. 0 + aN = A
    OBVIOUS
  <2>2. QED
    BY <2>1, CombCounts
<1>2. IsFiniteSet(QB) /\ Cardinality(QB) = Comb(bN, total - k)
  BY CombCounts
<1>3. ASSUME NEW S \in P
      PROVE  f[S] \in QA \X QB /\ f[S] = <<S \cap A, S \cap B>> /\ S \subseteq A \cup B
  <2>1. S \in SUBSET (1 .. aN + bN) /\ Cardinality(S) = total /\ InFirst(S, aN) = k
    BY DEF Deals, kSubset
  <2>2. /\ S \cap B = S \ A
        /\ Cardinality(S) = InFirst(S, aN) + Cardinality(S \ A)
        /\ InFirst(S, aN) \in 0 .. aN /\ Cardinality(S \ A) \in 0 .. bN
    BY <2>1, DealSplits
  <2>3. Cardinality(S \cap A) = k /\ Cardinality(S \cap B) = total - k
    BY <2>1, <2>2 DEF InFirst
  <2>4. S \cap A \in QA /\ S \cap B \in QB
    BY <2>3 DEF kSubset
  <2>5. f[S] = <<S \cap A, S \cap B>>
    OBVIOUS
  <2>6. S \subseteq A \cup B
    BY <2>2
  <2> HIDE DEF A, B, P, QA, QB, f
  <2>7. QED
    BY <2>4, <2>5, <2>6
<1>4. ASSUME NEW S \in P, NEW T \in P, f[S] = f[T] PROVE S = T
  <2> HIDE DEF P, f
  <2>1. S \cap A = T \cap A /\ S \cap B = T \cap B /\ S \subseteq A \cup B /\ T \subseteq A \cup B
    BY <1>3, <1>4
  <2> HIDE DEF A, B
  <2>2. QED
    BY <2>1
<1>5. ASSUME NEW g \in QA \X QB PROVE \E S \in P : f[S] = g
  <2> DEFINE S == g[1] \cup g[2]
  <2>1. g = <<g[1], g[2]>> /\ g[1] \in QA /\ g[2] \in QB
    OBVIOUS
  <2>2. /\ g[1] \in SUBSET A /\ Cardinality(g[1]) = k
        /\ g[2] \in SUBSET B /\ Cardinality(g[2]) = total - k
    BY <2>1 DEF kSubset
  <2>3. S \in SUBSET (1 .. aN + bN)
    BY <2>2
  <2>4. S \cap A = g[1] /\ S \cap B = g[2]
    BY <2>2
  <2>5. InFirst(S, aN) = k
    BY <2>2, <2>4 DEF InFirst
  <2>6. Cardinality(S \ A) = total - k /\ Cardinality(S) = InFirst(S, aN) + Cardinality(S \ A)
    BY <2>2, <2>3, <2>4, DealSplits
  <2> HIDE DEF S
  <2>7. Cardinality(S) = total
    BY <2>5, <2>6
  <2>8. S \in P
    BY <2>3, <2>5, <2>7 DEF Deals, kSubset
  <2>9. f[S] = <<S \cap A, S \cap B>>
    BY <2>8
  <2>10. QED
    BY <2>1, <2>4, <2>8, <2>9
<1>6. f \in [P -> QA \X QB]
  BY <1>3
<1> HIDE DEF f, P, QA, QB
<1>7. IsFiniteSet(QA \X QB) /\ Cardinality(QA \X QB) = Comb(aN, k) * Comb(bN, total - k)
  BY <1>1, <1>2, FS_Product
<1>8. Cardinality(P) = Cardinality(QA \X QB)
  BY <1>4, <1>5, <1>6, <1>7, SameSize
<1>9. QED
  BY <1>7, <1>8 DEF Ways, Tables, P

LEMMA MaxOfTwo ==
  ASSUME NEW a \in Int, NEW b \in Int
  PROVE  Max({a, b}) = IF a >= b THEN a ELSE b
<1>1. \E x \in {a, b} : \A y \in {a, b} : x >= y
  OBVIOUS
<1>2. Max({a, b}) \in {a, b} /\ \A y \in {a, b} : Max({a, b}) >= y
  BY <1>1 DEF Max
<1> QED BY <1>2

\* For two groups of any sizes and any numbers of reliable tasks: the tables
\* that Fisher's test adds up are the deals no more likely than the observed.
THEOREM FisherCountsDeals ==
  ASSUME NEW aN \in Nat, NEW bN \in Nat, NEW a \in 0 .. aN, NEW b \in 0 .. bN
  PROVE  Extreme(a, aN, b, bN) =
           Cardinality({S \in Deals(aN, bN, a + b) :
                          Ways(InFirst(S, aN), aN, bN, a + b) <= Ways(a, aN, bN, a + b)})
<1> DEFINE total == a + b
           low == Max({0, total - bN})
           high == Min({aN, total})
           table(k) == Tables(k, aN, bN, total)
           ks == {k \in low .. high : table(k) <= table(a)}
           counts == [k \in ks |-> table(k)]
           D == Deals(aN, bN, total)
           E == {S \in D : Ways(InFirst(S, aN), aN, bN, total) <= Ways(a, aN, bN, total)}
           key == [S \in E |-> InFirst(S, aN)]
<1>1. total \in Nat /\ a \in 0 .. total
  OBVIOUS
<1>2. /\ low = IF 0 >= total - bN THEN 0 ELSE total - bN
      /\ high = IF aN <= total THEN aN ELSE total
  BY MaxOfTwo, MinOfTwo
<1>3. \A k \in low .. high : k \in 0 .. total
  BY <1>1, <1>2
<1>4. ASSUME NEW k \in 0 .. total PROVE Ways(k, aN, bN, total) = table(k)
  BY <1>1, WaysAreTables
<1>5. ASSUME NEW S \in D PROVE InFirst(S, aN) \in low .. high
  <2>1. S \in SUBSET (1 .. aN + bN) /\ Cardinality(S) = total
    BY DEF Deals, kSubset
  <2>2. /\ InFirst(S, aN) \in 0 .. aN /\ Cardinality(S \ (1 .. aN)) \in 0 .. bN
        /\ Cardinality(S) = InFirst(S, aN) + Cardinality(S \ (1 .. aN))
    BY <2>1, DealSplits
  <2> DEFINE h == InFirst(S, aN)
             r == Cardinality(S \ (1 .. aN))
  <2>3. h \in 0 .. aN /\ r \in 0 .. bN /\ total = h + r
    BY <2>1, <2>2
  <2> HIDE DEF h, r, total, low, high
  <2>4. h \in low .. high
    BY <1>1, <1>2, <2>3
  <2>5. QED
    BY <2>4 DEF h
<1>6. Extreme(a, aN, b, bN) = Total(counts)
  BY DEF Extreme
<1> HIDE DEF total, low, high, table, D
<1>7. ASSUME NEW S \in E PROVE key[S] \in ks /\ key[S] = InFirst(S, aN)
  <2>1. S \in D /\ Ways(InFirst(S, aN), aN, bN, total) <= Ways(a, aN, bN, total)
    OBVIOUS
  <2>2. InFirst(S, aN) \in low .. high /\ InFirst(S, aN) \in 0 .. total
    BY <1>3, <1>5, <2>1
  <2>3. table(InFirst(S, aN)) <= table(a)
    BY <1>1, <1>4, <2>1, <2>2
  <2>4. key[S] = InFirst(S, aN)
    OBVIOUS
  <2>5. QED
    BY <2>2, <2>3, <2>4
<1>8. ASSUME NEW k \in ks PROVE counts[k] = Cardinality({S \in E : key[S] = k})
  <2>1. k \in low .. high /\ table(k) <= table(a) /\ counts[k] = table(k)
    OBVIOUS
  <2>2. k \in 0 .. total
    BY <1>3, <2>1
  <2>3. Ways(k, aN, bN, total) = table(k) /\ Ways(a, aN, bN, total) = table(a)
    BY <1>1, <1>4, <2>2
  <2>4. {S \in E : key[S] = k} = {S \in D : InFirst(S, aN) = k}
    BY <2>1, <2>3
  <2>5. Ways(k, aN, bN, total) = Cardinality({S \in D : InFirst(S, aN) = k})
    BY DEF Ways, D
  <2>6. QED
    BY <2>1, <2>3, <2>4, <2>5
<1>9. IsFiniteSet(E)
  <2>1. IsFiniteSet(D)
    BY DealsFinite DEF D
  <2>2. QED
    BY <2>1, FS_Subset
<1>10. DOMAIN counts = ks
  OBVIOUS
<1>11. key \in [E -> ks]
  BY <1>7
<1> HIDE DEF E, key, counts, ks
<1>12. Total(counts) = Cardinality(E)
  BY <1>8, <1>9, <1>10, <1>11, SumOfParts
<1>13. QED
  BY <1>6, <1>12 DEF E, D, total

\* The same as the run states it, for any bound on the groups.
THEOREM FisherIsThePermutationTest == Spec => []FisherIsPermutation
<1>1. FisherIsPermutation
  <2>1. ASSUME NEW aN \in 1 .. MaxTasks, NEW bN \in 1 .. MaxTasks,
               NEW a \in 0 .. aN, NEW b \in 0 .. bN
        PROVE  Extreme(a, aN, b, bN) =
                 Cardinality({S \in Deals(aN, bN, a + b) :
                                Ways(InFirst(S, aN), aN, bN, a + b) <= Ways(a, aN, bN, a + b)})
    <3>1. aN \in Nat /\ bN \in Nat
      OBVIOUS
    <3>2. QED
      BY <3>1, FisherCountsDeals
  <2>2. QED
    BY <2>1 DEF FisherIsPermutation
<1>2. QED
  BY <1>1, PTL
=============================================================================
