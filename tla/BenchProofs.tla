---------------------------- MODULE BenchProofs -----------------------------
(***************************************************************************)
(* Theorems about BaselineCampaign and BenchReports, for every corpus,     *)
(* configuration, k, alpha and number of resamples, and about Calibration, *)
(* for any number of items, labels and replies.                            *)
(***************************************************************************)
EXTENDS Bench, FiniteSetTheorems, FunctionTheorems, SequenceTheorems,
        WellFoundedInduction, TLAPS

-----------------------------------------------------------------------------
(* Sums and least members.                                                 *)

\* Sets matched one to one are of one size.
LEMMA SameSize ==
  ASSUME NEW S, NEW T, IsFiniteSet(T), NEW f \in [S -> T],
         \A x, y \in S : f[x] = f[y] => x = y,
         \A t \in T : \E x \in S : f[x] = t
  PROVE  IsFiniteSet(S) /\ Cardinality(S) = Cardinality(T)
<1>1. f \in Injection(S, T) /\ f \in Surjection(S, T)
  BY DEF Injection, IsInjective, Surjection
<1>2. QED
  BY <1>1, FS_Injection

\* A finite set can be counted off.
LEMMA Counting ==
  ASSUME NEW S, IsFiniteSet(S)
  PROVE  /\ Cardinality(S) \in Nat
         /\ \E f \in [1 .. Cardinality(S) -> S] :
              /\ \A x, y \in 1 .. Cardinality(S) : f[x] = f[y] => x = y
              /\ \A t \in S : \E x \in 1 .. Cardinality(S) : f[x] = t
<1>1. Cardinality(S) \in Nat /\ ExistsBijection(1 .. Cardinality(S), S)
  BY FS_CardinalityType
<1>2. PICK f : f \in Bijection(1 .. Cardinality(S), S)
  BY <1>1 DEF ExistsBijection
<1>3. QED
  BY <1>1, <1>2 DEF Bijection, Injection, IsInjective, Surjection

\* What is counted part by part is counted once.
LEMMA SumOfParts ==
  ASSUME NEW S, IsFiniteSet(S), NEW counts, NEW key \in [S -> DOMAIN counts],
         \A c \in DOMAIN counts : counts[c] = Cardinality({s \in S : key[s] = c})
  PROVE  Total(counts) = Cardinality(S)
<1> DEFINE part(c) == {s \in S : key[s] = c}
           Lists(c) == {f \in [1 .. counts[c] -> part(c)] :
                          /\ \A x, y \in 1 .. counts[c] : f[x] = f[y] => x = y
                          /\ \A t \in part(c) : \E x \in 1 .. counts[c] : f[x] = t}
           list == [c \in DOMAIN counts |-> CHOOSE f : f \in Lists(c)]
           marks == Marks(counts)
           place == [m \in marks |-> list[m[1]][m[2]]]
<1>1. ASSUME NEW c \in DOMAIN counts PROVE list[c] \in Lists(c)
  <2>1. IsFiniteSet(part(c))
    BY FS_Subset
  <2>2. counts[c] = Cardinality(part(c))
    OBVIOUS
  <2> HIDE DEF part
  <2>3. \E f : f \in Lists(c)
    BY <2>1, <2>2, Counting
  <2> HIDE DEF Lists
  <2>4. QED
    BY <2>3
<1>2. ASSUME NEW m \in marks
      PROVE  m = <<m[1], m[2]>> /\ m[1] \in DOMAIN counts /\ m[2] \in 1 .. counts[m[1]]
  BY DEF Marks
<1>3. ASSUME NEW c \in DOMAIN counts, NEW x \in 1 .. counts[c]
      PROVE  <<c, x>> \in marks
  BY DEF Marks
<1> HIDE DEF list, marks
<1>4. ASSUME NEW m \in marks PROVE place[m] \in S /\ key[place[m]] = m[1]
  <2>1. list[m[1]] \in [1 .. counts[m[1]] -> part(m[1])] /\ m[2] \in 1 .. counts[m[1]]
    BY <1>1, <1>2
  <2>2. list[m[1]][m[2]] \in part(m[1])
    BY <2>1
  <2>3. QED
    BY <2>2
<1>5. place \in [marks -> S]
  BY <1>4
<1>6. ASSUME NEW m \in marks, NEW l \in marks, place[m] = place[l] PROVE m = l
  <2>1. m[1] = l[1]
    BY <1>4, <1>6
  <2>2. m[2] = l[2]
    BY <1>1, <1>2, <1>6, <2>1
  <2>3. QED
    BY <1>2, <2>1, <2>2
<1>7. ASSUME NEW s \in S PROVE \E m \in marks : place[m] = s
  <2>1. key[s] \in DOMAIN counts /\ s \in part(key[s])
    OBVIOUS
  <2>2. PICK x \in 1 .. counts[key[s]] : list[key[s]][x] = s
    BY <1>1, <2>1
  <2>3. <<key[s], x>> \in marks
    BY <1>3, <2>1
  <2>4. place[<<key[s], x>>] = s
    BY <2>2, <2>3
  <2>5. QED
    BY <2>3, <2>4
<1> HIDE DEF place
<1>8. Cardinality(marks) = Cardinality(S)
  BY <1>5, <1>6, <1>7, SameSize
<1>9. QED
  BY <1>8 DEF Total, marks

\* Numbers have a least among them.
LEMMA LeastNatural ==
  ASSUME NEW S \in SUBSET Nat, S # {}
  PROVE  \E x \in S : \A y \in S : x <= y
<1> DEFINE R == OpToRel(<, Nat)
<1>1. IsWellFoundedOn(R, Nat)
  BY NatLessThanWellFounded
<1>2. \A x, y \in Nat : <<x, y>> \in R <=> x < y
  BY DEF OpToRel
<1> HIDE DEF R
<1>3. PICK x \in S : \A y \in S : ~(<<y, x>> \in R)
  BY <1>1, WFMin
<1>4. ASSUME NEW y \in S PROVE x <= y
  <2>1. x \in Nat /\ y \in Nat
    OBVIOUS
  <2>2. ~(y < x)
    BY <1>2, <1>3, <2>1
  <2>3. QED
    BY <2>1, <2>2
<1>5. QED
  BY <1>4

-----------------------------------------------------------------------------
(* The interval: what is drawn from tasks that never favour B cannot       *)
(* separate in favour of B.                                                *)

LEMMA CardInterval ==
  ASSUME NEW n \in Nat, NEW S \in SUBSET (1 .. n), NEW T \in SUBSET S
  PROVE  /\ Cardinality(S) \in Nat /\ Cardinality(T) \in Nat
         /\ Cardinality(T) <= Cardinality(S)
<1>1. IsFiniteSet(1 .. n)
  BY FS_Interval
<1>2. IsFiniteSet(S)
  BY <1>1, FS_Subset
<1>3. IsFiniteSet(T) /\ Cardinality(T) <= Cardinality(S)
  BY <1>2, FS_Subset
<1>4. QED
  BY <1>2, <1>3, FS_CardinalityType

LEMMA DifferenceSign ==
  ASSUME NEW n \in Nat, NEW tasks, NEW draw \in [1 .. n -> tasks], NEW a, NEW b
  PROVE  /\ Difference(draw, a, b) \in Int
         /\ tasks \cap b \subseteq a => Difference(draw, a, b) <= 0
         /\ tasks \cap a \subseteq b => Difference(draw, a, b) >= 0
<1> DEFINE A == {i \in DOMAIN draw : draw[i] \in a}
           B == {i \in DOMAIN draw : draw[i] \in b}
<1>1. A \in SUBSET (1 .. n) /\ B \in SUBSET (1 .. n)
  OBVIOUS
<1>2. Cardinality(A) \in Nat /\ Cardinality(B) \in Nat
  BY <1>1, CardInterval
<1>3. Difference(draw, a, b) = Cardinality(B) - Cardinality(A)
  BY DEF Difference
<1>4. ASSUME tasks \cap b \subseteq a PROVE Cardinality(B) <= Cardinality(A)
  <2>1. B \in SUBSET A
    BY <1>4
  <2>2. QED
    BY <1>1, <2>1, CardInterval
<1>5. ASSUME tasks \cap a \subseteq b PROVE Cardinality(A) <= Cardinality(B)
  <2>1. A \in SUBSET B
    BY <1>5
  <2>2. QED
    BY <1>1, <2>1, CardInterval
<1> HIDE DEF A, B
<1>6. QED
  BY <1>2, <1>3, <1>4, <1>5

LEMMA WeightedSign ==
  ASSUME NEW v \in Int, NEW w \in Int, NEW p \in Nat, NEW q \in Nat
  PROVE  /\ v * p + w * q \in Int
         /\ v <= 0 /\ w <= 0 => v * p + w * q <= 0
         /\ v >= 0 /\ w >= 0 => v * p + w * q >= 0
<1>1. v <= 0 => v * p <= 0
  OBVIOUS
<1>2. w <= 0 => w * q <= 0
  OBVIOUS
<1>3. v >= 0 => v * p >= 0
  OBVIOUS
<1>4. w >= 0 => w * q >= 0
  OBVIOUS
<1>5. v * p \in Int /\ w * q \in Int
  OBVIOUS
<1>6. QED
  BY <1>1, <1>2, <1>3, <1>4, <1>5

\* A percentile of numbers of one sign has that sign.
LEMMA PercentileSign ==
  ASSUME NEW R \in Nat \ {0}, NEW samples \in [1 .. R -> Int],
         NEW num \in Nat, NEW den \in Nat \ {0},
         NEW x \in Percentile(samples, num, den)
  PROVE  /\ x \in Int
         /\ (\A s \in 1 .. R : samples[s] <= 0) => x <= 0
         /\ (\A s \in 1 .. R : samples[s] >= 0) => x >= 0
<1> DEFINE pos == num * (Len(samples) - 1)
           below == pos \div den
           above == IF below + 1 < Len(samples) THEN below + 1 ELSE below
           rem == pos % den
<1>1. Len(samples) = R
  OBVIOUS
<1>2. pos \in Nat
  <2>1. \A i, j \in Nat : i * j \in Nat
    OBVIOUS
  <2>2. R - 1 \in Nat
    OBVIOUS
  <2>3. QED
    BY <1>1, <2>1, <2>2
<1>3. PICK v \in AtPlace(samples, below), w \in AtPlace(samples, above) :
        x = v * (den - rem) + w * rem
  BY DEF Percentile
<1>4. ASSUME NEW i, NEW u \in AtPlace(samples, i) PROVE \E s \in 1 .. R : u = samples[s]
  BY DEF AtPlace
<1>5. PICK sv \in 1 .. R : v = samples[sv]
  BY <1>4
<1>6. PICK sw \in 1 .. R : w = samples[sw]
  BY <1>4
<1>7. v \in Int /\ w \in Int
  BY <1>5, <1>6
<1> HIDE DEF pos
<1>8. rem \in Nat /\ den - rem \in Nat
  BY <1>2
<1> HIDE DEF rem
<1>9. /\ x \in Int
      /\ v <= 0 /\ w <= 0 => x <= 0
      /\ v >= 0 /\ w >= 0 => x >= 0
  BY <1>3, <1>7, <1>8, WeightedSign
<1>10. QED
  BY <1>5, <1>6, <1>9

\* Whatever the draws: an interval above zero needs a task in B and not in A,
\* one below zero a task in A and not in B.
LEMMA IntervalNeedsWitness ==
  ASSUME NEW tasks, IsFiniteSet(tasks), NEW a, NEW b, NEW draws \in Draws(tasks)
  PROVE  /\ Above(Samples(draws, a, b)) => \E t \in tasks : t \in b /\ t \notin a
         /\ Below(Samples(draws, a, b)) => \E t \in tasks : t \in a /\ t \notin b
<1> DEFINE n == Cardinality(tasks)
           samples == Samples(draws, a, b)
<1>1. n \in Nat
  BY FS_CardinalityType
<1>2. Resamples \in Nat \ {0} /\ AlphaNum \in Nat \ {0} /\ AlphaDen \in Nat \ {0}
      /\ AlphaNum < AlphaDen
  BY ReportsAssumption
<1>3. draws \in [1 .. Resamples -> [1 .. n -> tasks]]
  BY DEF Draws
<1> HIDE DEF n
<1>4. ASSUME NEW s \in 1 .. Resamples
      PROVE  /\ samples[s] \in Int
             /\ tasks \cap b \subseteq a => samples[s] <= 0
             /\ tasks \cap a \subseteq b => samples[s] >= 0
  <2>1. draws[s] \in [1 .. n -> tasks]
    BY <1>3
  <2>2. samples[s] = Difference(draws[s], a, b)
    BY <1>3 DEF Samples
  <2>3. /\ Difference(draws[s], a, b) \in Int
        /\ tasks \cap b \subseteq a => Difference(draws[s], a, b) <= 0
        /\ tasks \cap a \subseteq b => Difference(draws[s], a, b) >= 0
    BY <1>1, <2>1, DifferenceSign
  <2> HIDE DEF samples
  <2>4. QED
    BY <2>2, <2>3
<1>5. samples = [s \in 1 .. Resamples |-> samples[s]]
  BY <1>3 DEF Samples
<1> HIDE DEF samples
<1>6. samples \in [1 .. Resamples -> Int]
  BY <1>4, <1>5
<1>7. AlphaNum \in Nat /\ 2 * AlphaDen \in Nat \ {0} /\ 2 * AlphaDen - AlphaNum \in Nat
  BY <1>2
<1>8. ASSUME Above(samples) PROVE \E t \in tasks : t \in b /\ t \notin a
  <2>1. PICK x \in Percentile(samples, AlphaNum, 2 * AlphaDen) : x > 0
    BY <1>8 DEF Above, Lo
  <2>2. SUFFICES ASSUME tasks \cap b \subseteq a PROVE FALSE
    OBVIOUS
  <2>3. \A s \in 1 .. Resamples : samples[s] <= 0
    BY <1>4, <2>2
  <2>4. x \in Int /\ x <= 0
    BY <1>2, <1>6, <1>7, <2>3, PercentileSign
  <2>5. QED
    BY <2>1, <2>4
<1>9. ASSUME Below(samples) PROVE \E t \in tasks : t \in a /\ t \notin b
  <2>1. PICK x \in Percentile(samples, 2 * AlphaDen - AlphaNum, 2 * AlphaDen) : x < 0
    BY <1>9 DEF Below, Hi
  <2>2. SUFFICES ASSUME tasks \cap a \subseteq b PROVE FALSE
    OBVIOUS
  <2>3. \A s \in 1 .. Resamples : samples[s] >= 0
    BY <1>4, <2>2
  <2>4. x \in Int /\ x >= 0
    BY <1>2, <1>6, <1>7, <2>3, PercentileSign
  <2>5. QED
    BY <2>1, <2>4
<1> USE DEF samples
<1>10. QED
  BY <1>8, <1>9

-----------------------------------------------------------------------------
(* The files.                                                              *)

LEMMA CorpusFacts ==
  /\ Corpus \in Seq(Nat)
  /\ \A i \in 1 .. Len(Corpus) : Corpus[i] \in Tasks
  /\ IsFiniteSet(Tasks) /\ Cardinality(Tasks) = Len(Corpus)
<1>1. /\ Corpus \in Seq(Nat)
      /\ \A i, j \in DOMAIN Corpus : Corpus[i] = Corpus[j] => i = j
  BY BaselineAssumption
<1>2. Len(Corpus) \in Nat /\ DOMAIN Corpus = 1 .. Len(Corpus)
  BY <1>1
<1>3. \A i \in 1 .. Len(Corpus) : Corpus[i] \in Tasks
  BY <1>2 DEF Tasks
<1>4. Corpus \in Surjection(1 .. Len(Corpus), Tasks)
  <2>1. Corpus \in [1 .. Len(Corpus) -> Tasks]
    BY <1>1, <1>2, <1>3
  <2>2. \A t \in Tasks : \E i \in 1 .. Len(Corpus) : Corpus[i] = t
    BY <1>2 DEF Tasks
  <2>3. QED
    BY <2>1, <2>2 DEF Surjection
<1>5. Corpus \in Injection(1 .. Len(Corpus), Tasks)
  BY <1>1, <1>2, <1>4 DEF Surjection, Injection, IsInjective
<1>6. IsFiniteSet(1 .. Len(Corpus)) /\ Cardinality(1 .. Len(Corpus)) = Len(Corpus)
  <2> DEFINE n == Len(Corpus)
  <2>1. n \in Nat
    BY <1>2
  <2> HIDE DEF n
  <2>2. 1 \in Int /\ n \in Int
    BY <2>1
  <2>3. IsFiniteSet(1 .. n) /\ Cardinality(1 .. n) = IF 1 > n THEN 0 ELSE n - 1 + 1
    BY <2>2, FS_Interval
  <2>4. IsFiniteSet(1 .. n) /\ Cardinality(1 .. n) = n
    BY <2>1, <2>3
  <2> USE DEF n
  <2>5. QED
    BY <2>4
<1>7. IsFiniteSet(Tasks) /\ Cardinality(Tasks) = Len(Corpus)
  BY <1>4, <1>5, <1>6, FS_Surjection
<1>8. QED
  BY <1>1, <1>3, <1>7

\* A row of a file is read as the run it was written for.
LEMMA RoundTrip ==
  ASSUME NEW x \in RunResult
  PROVE  [cond |-> Line(x).cond, task |-> Line(x).row.task_id,
          index |-> Line(x).index, run |-> RowToRun(Line(x).row)] = x
<1>1. x = [cond |-> x.cond, task |-> x.task, index |-> x.index, run |-> x.run]
  BY DEF RunResult
<1>2. x.run \in Run
  BY DEF RunResult
<1>3. RowToRun(RunToRow(x.task, x.run)) = x.run
  <2> DEFINE r == x.run
  <2>1. r = [pf |-> r.pf, stop |-> r.stop, capped |-> r.capped, passed |-> r.passed,
             reason |-> r.reason, legs |-> r.legs]
    BY <1>2 DEF Run
  <2>2. r.capped \in BOOLEAN
    BY <1>2 DEF Run
  <2>3. FlagOf(RunToRow(x.task, r).trajectory) = r.capped
    BY <2>2 DEF FlagOf, RunToRow
  <2>4. QED
    BY <2>1, <2>3 DEF RowToRun, RunToRow
<1>4. /\ Line(x).cond = x.cond /\ Line(x).index = x.index
      /\ Line(x).row = RunToRow(x.task, x.run)
  BY DEF Line
<1>5. Line(x).row.task_id = x.task
  BY <1>4 DEF RunToRow
<1>6. QED
  BY <1>1, <1>3, <1>4, <1>5

\* The lines of a file are those of the first runs of the invocation that has
\* it, all made under its configuration; all of them once it ended well.
FileInv(f) ==
  /\ Len(rows[f]) <= Len(results[f])
  /\ \A i \in 1 .. Len(rows[f]) : rows[f][i] = Line(results[f][i])
  /\ \A i \in 1 .. Len(results[f]) : results[f][i].cond = CondOf[last[f].config]
  /\ last[f].how = "done" =>
       /\ Len(rows[f]) = Len(results[f])
       /\ report[f] = BaselineReport(results[f], last[f].k)

\* What a running process has in memory is what it has written.
ProcessInv ==
  phase = "running" =>
    /\ Len(rows[File]) = Len(results[File])
    /\ last[File] = [config |-> config, k |-> k, how |-> "underway"]

IInv ==
  /\ TypeOK
  /\ \A f \in Files : FileInv(f)
  /\ ProcessInv

Rows == {Line(x) : x \in RunResult}

\* What a task's k runs are.
LEMMA TaskRunsTyped ==
  ASSUME TypeOK, next <= Len(Corpus), NEW new \in TaskRuns
  PROVE  /\ new \in Seq(RunResult) /\ Len(new) = k
         /\ \A i \in 1 .. k : new[i].cond = CondOf[config]
<1>1. k \in Nat /\ config \in Configs /\ next \in 1 .. Len(Corpus)
  BY CorpusFacts DEF TypeOK
<1>2. PICK g \in [1 .. k -> Outcomes[config]] :
        new = [i \in 1 .. k |-> [cond |-> CondOf[config], task |-> Corpus[next],
                                 index |-> i - 1, run |-> g[i]]]
  BY DEF TaskRuns
<1>3. ASSUME NEW i \in 1 .. k
      PROVE  new[i] \in RunResult /\ new[i].cond = CondOf[config]
  <2>1. new[i] = [cond |-> CondOf[config], task |-> Corpus[next],
                  index |-> i - 1, run |-> g[i]]
    BY <1>2
  <2>2. CondOf[config] \in Conds
    BY <1>1 DEF Conds
  <2>3. Corpus[next] \in Tasks
    BY <1>1, CorpusFacts
  <2>4. i - 1 \in Nat
    BY <1>1
  <2>5. g[i] \in Run
    BY <1>1, <1>2, BaselineAssumption
  <2>6. QED
    BY <2>1, <2>2, <2>3, <2>4, <2>5 DEF RunResult
<1>4. DOMAIN new = 1 .. k
  BY <1>2
<1>5. new = [i \in 1 .. k |-> new[i]]
  BY <1>2
<1>6. new \in Seq(RunResult) /\ Len(new) = k
  BY <1>1, <1>3, <1>4, <1>5
<1>7. QED
  BY <1>3, <1>6

\* Appending the first n lines of the new runs keeps lines and runs in step.
LEMMA Appended ==
  ASSUME NEW lines \in Seq(Rows), NEW s \in Seq(RunResult), NEW new \in Seq(RunResult),
         NEW n \in 0 .. Len(new),
         Len(lines) = Len(s), \A i \in 1 .. Len(lines) : lines[i] = Line(s[i])
  PROVE  LET more == lines \o [i \in 1 .. n |-> Line(new[i])]
             runs == s \o new
         IN /\ more \in Seq(Rows) /\ runs \in Seq(RunResult)
            /\ Len(more) = Len(s) + n /\ Len(runs) = Len(s) + Len(new)
            /\ \A i \in 1 .. Len(more) : more[i] = Line(runs[i])
            /\ \A i \in 1 .. Len(s) : runs[i] = s[i]
            /\ \A i \in 1 .. Len(new) : runs[Len(s) + i] = new[i]
<1> DEFINE piece == [i \in 1 .. n |-> Line(new[i])]
           more == lines \o piece
           runs == s \o new
<1>1. n \in Nat /\ n <= Len(new) /\ Len(new) \in Nat /\ Len(s) \in Nat
  OBVIOUS
<1>2. \A i \in 1 .. n : new[i] \in RunResult
  BY <1>1
<1>3. \A i \in 1 .. n : piece[i] \in Rows
  BY <1>2 DEF Rows
<1>4. piece \in Seq(Rows) /\ Len(piece) = n
  BY <1>1, <1>3
<1>5. \A i \in 1 .. n : piece[i] = Line(new[i])
  OBVIOUS
<1> HIDE DEF piece
<1>6. more \in Seq(Rows) /\ Len(more) = Len(s) + n
  BY <1>1, <1>4
<1>7. runs \in Seq(RunResult) /\ Len(runs) = Len(s) + Len(new)
  OBVIOUS
<1>8. /\ \A i \in 1 .. Len(s) : runs[i] = s[i]
      /\ \A i \in 1 .. Len(new) : runs[Len(s) + i] = new[i]
  OBVIOUS
<1>9. ASSUME NEW i \in 1 .. Len(more) PROVE more[i] = Line(runs[i])
  <2>1. CASE i <= Len(s)
    <3>1. more[i] = lines[i]
      BY <1>4, <1>6, <2>1
    <3>2. QED
      BY <1>8, <2>1, <3>1
  <2>2. CASE i > Len(s)
    <3>1. i - Len(s) \in 1 .. n
      BY <1>1, <1>6, <2>2
    <3>2. more[i] = piece[i - Len(s)]
      <4>1. \A p \in Seq(Rows), q \in Seq(Rows) :
              \A j \in (Len(p) + 1) .. (Len(p) + Len(q)) : (p \o q)[j] = q[j - Len(p)]
        OBVIOUS
      <4>2. i \in (Len(lines) + 1) .. (Len(lines) + Len(piece))
        BY <1>1, <1>4, <1>6, <2>2
      <4>3. (lines \o piece)[i] = piece[i - Len(lines)]
        BY <1>4, <4>1, <4>2
      <4>4. QED
        BY <4>3
    <3>3. runs[i] = new[i - Len(s)]
      BY <1>1, <2>2, <3>1
    <3>4. QED
      BY <1>5, <3>1, <3>2, <3>3
  <2>3. QED
    BY <1>1, <1>6, <2>1, <2>2
<1>10. QED
  BY <1>4, <1>6, <1>7, <1>8, <1>9 DEF piece

LEMMA ReportTyped ==
  ASSUME NEW rs \in Seq(RunResult), NEW n \in Nat
  PROVE  BaselineReport(rs, n) \in [state : {"absent", "cut", "whole"}, k : Nat, runs : Nat,
                                    passed : Nat, reliable : SUBSET Tasks]
<1>1. Len(rs) \in Nat /\ DOMAIN rs = 1 .. Len(rs)
  OBVIOUS
<1>2. Graded(rs) \in SUBSET (1 .. Len(rs))
  BY <1>1 DEF Graded
<1>3. Cardinality(Graded(rs)) \in Nat
  BY <1>1, <1>2, CardInterval
<1>4. ReliableTasks(rs) \subseteq Tasks
  <2>1. \A i \in DOMAIN rs : rs[i] \in RunResult
    OBVIOUS
  <2>2. \A x \in RunResult : x.task \in Tasks
    BY DEF RunResult
  <2>3. QED
    BY <2>1, <2>2 DEF ReliableTasks, TasksIn
<1>5. QED
  BY <1>1, <1>3, <1>4 DEF BaselineReport

LEMMA Untouched ==
  ASSUME NEW f \in Files, FileInv(f), rows'[f] = rows[f], results'[f] = results[f],
         last'[f] = last[f], report'[f] = report[f]
  PROVE  FileInv(f)'
  BY DEF FileInv

LEMMA FileOfProcess == TypeOK => File \in Files
  BY DEF TypeOK, File, Files

LEMMA InitHolds == Init => IInv
<1> SUFFICES ASSUME Init PROVE IInv
  OBVIOUS
<1>1. config \in Configs
  BY BaselineAssumption DEF Init
<1>2. NoReport \in [state : {"absent", "cut", "whole"}, k : Nat, runs : Nat,
                    passed : Nat, reliable : SUBSET Tasks]
  BY DEF NoReport
<1>3. [config |-> config, k |-> 0, how |-> "never"] \in
        [config : Configs, k : Nat, how : {"never", "underway", "done", "failed", "killed"}]
  BY <1>1
<1>4. 1 \in 1 .. Len(Corpus) + 1
  BY CorpusFacts
<1>5. /\ rows \in [Files -> Seq({Line(x) : x \in RunResult})]
      /\ results \in [Files -> Seq(RunResult)]
  BY DEF Init
<1>6. TypeOK
  BY <1>1, <1>2, <1>3, <1>4, <1>5 DEF Init, TypeOK
<1>7. ASSUME NEW f \in Files PROVE FileInv(f)
  BY DEF Init, FileInv
<1>8. ProcessInv
  BY DEF Init, ProcessInv
<1>9. QED
  BY <1>6, <1>7, <1>8 DEF IInv

LEMMA StartKeeps ==
  ASSUME IInv, NEW c \in Configs, NEW n \in Ks, Start(c, n)
  PROVE  IInv'
<1> DEFINE g == FileOf[c]
           mine == [config |-> c, k |-> n, how |-> "underway"]
<1>1. TypeOK /\ (\A f \in Files : FileInv(f))
  BY DEF IInv
<1>2. g \in Files /\ n \in Nat
  BY BaselineAssumption DEF Files
<1>3. /\ rows' = [rows EXCEPT ![g] = <<>>] /\ torn' = torn \ {g}
      /\ results' = [results EXCEPT ![g] = <<>>]
      /\ last' = [last EXCEPT ![g] = mine]
      /\ report' = report
      /\ phase' = "running" /\ config' = c /\ k' = n /\ next' = 1 /\ starts' = starts + 1
  BY DEF Start, Truncate
<1>4. TypeOK'
  <2>1. /\ rows' \in [Files -> Seq({Line(x) : x \in RunResult})]
        /\ results' \in [Files -> Seq(RunResult)]
    <3>1. rows \in [Files -> Seq(Rows)] /\ results \in [Files -> Seq(RunResult)]
      BY <1>1 DEF TypeOK, Rows
    <3>2. <<>> \in Seq(Rows) /\ <<>> \in Seq(RunResult)
      OBVIOUS
    <3>3. rows' \in [Files -> Seq(Rows)]
      BY <1>3, <3>1, <3>2
    <3>4. results' \in [Files -> Seq(RunResult)]
      BY <1>3, <3>1, <3>2
    <3>5. QED
      BY <3>3, <3>4 DEF Rows
  <2>2. mine \in [config : Configs, k : Nat,
                  how : {"never", "underway", "done", "failed", "killed"}]
    BY <1>2
  <2>3. last' \in [Files -> [config : Configs, k : Nat,
                             how : {"never", "underway", "done", "failed", "killed"}]]
    BY <1>1, <1>3, <2>2 DEF TypeOK
  <2>4. 1 \in 1 .. Len(Corpus) + 1
    BY CorpusFacts
  <2>5. QED
    BY <1>1, <1>2, <1>3, <2>1, <2>3, <2>4 DEF TypeOK
<1>5. /\ rows'[g] = <<>> /\ results'[g] = <<>> /\ last'[g] = mine
      /\ \A f \in Files \ {g} : /\ rows'[f] = rows[f] /\ results'[f] = results[f]
                                /\ last'[f] = last[f] /\ report'[f] = report[f]
  BY <1>1, <1>2, <1>3 DEF TypeOK
<1>6. ASSUME NEW f \in Files PROVE FileInv(f)'
  <2>1. CASE f = g
    BY <1>5, <2>1 DEF FileInv
  <2>2. CASE f # g
    BY <1>1, <1>5, <2>2, Untouched
  <2>3. QED
    BY <2>1, <2>2
<1>7. ProcessInv'
  <2>1. File' = g
    BY <1>3 DEF File
  <2>2. QED
    BY <1>3, <1>5, <2>1 DEF ProcessInv
<1>8. QED
  BY <1>4, <1>6, <1>7 DEF IInv

\* The n lines that come out of a task's runs.
LEMMA AppendKeeps ==
  ASSUME IInv, phase = "running", next <= Len(Corpus),
         NEW new \in TaskRuns, NEW n \in 0 .. k,
         rows' = [rows EXCEPT ![File] = @ \o [i \in 1 .. n |-> Line(new[i])]],
         results' = [results EXCEPT ![File] = @ \o new],
         NEW how \in {"underway", "killed"},
         last' = [last EXCEPT ![File].how = how],
         report' = report
  PROVE  /\ rows' \in [Files -> Seq({Line(x) : x \in RunResult})]
         /\ results' \in [Files -> Seq(RunResult)]
         /\ last' \in [Files -> [config : Configs, k : Nat,
                                 how : {"never", "underway", "done", "failed", "killed"}]]
         /\ \A f \in Files : FileInv(f)'
         /\ n = k => Len(rows'[File]) = Len(results'[File])
         /\ last'[File] = [config |-> config, k |-> k, how |-> how]
<1> DEFINE g == File
           lines == rows[g]
           s == results[g]
           more == lines \o [i \in 1 .. n |-> Line(new[i])]
           runs == s \o new
<1>1. TypeOK /\ (\A f \in Files : FileInv(f)) /\ ProcessInv
  BY DEF IInv
<1>2. g \in Files
  BY <1>1, FileOfProcess
<1>3. /\ new \in Seq(RunResult) /\ Len(new) = k
      /\ \A i \in 1 .. k : new[i].cond = CondOf[config]
  BY <1>1, TaskRunsTyped
<1>4. /\ lines \in Seq(Rows) /\ s \in Seq(RunResult)
  BY <1>1, <1>2 DEF TypeOK, Rows
<1>5. /\ Len(lines) = Len(s)
      /\ last[g] = [config |-> config, k |-> k, how |-> "underway"]
  BY <1>1 DEF ProcessInv
<1>6. /\ \A i \in 1 .. Len(lines) : lines[i] = Line(s[i])
      /\ \A i \in 1 .. Len(s) : s[i].cond = CondOf[config]
  BY <1>1, <1>2, <1>5 DEF FileInv
<1>7. /\ more \in Seq(Rows) /\ runs \in Seq(RunResult)
      /\ Len(more) = Len(s) + n /\ Len(runs) = Len(s) + Len(new)
      /\ \A i \in 1 .. Len(more) : more[i] = Line(runs[i])
      /\ \A i \in 1 .. Len(s) : runs[i] = s[i]
      /\ \A i \in 1 .. Len(new) : runs[Len(s) + i] = new[i]
  BY <1>3, <1>4, <1>5, <1>6, Appended
<1>8. /\ rows'[g] = more /\ results'[g] = runs
      /\ last'[g] = [config |-> config, k |-> k, how |-> how]
      /\ \A f \in Files \ {g} : /\ rows'[f] = rows[f] /\ results'[f] = results[f]
                                /\ last'[f] = last[f] /\ report'[f] = report[f]
  <2>1. rows'[g] = more /\ \A f \in Files \ {g} : rows'[f] = rows[f]
    BY <1>1, <1>2 DEF TypeOK
  <2>2. results'[g] = runs /\ \A f \in Files \ {g} : results'[f] = results[f]
    BY <1>1, <1>2 DEF TypeOK
  <2>3. last'[g] = [last[g] EXCEPT !.how = how] /\ \A f \in Files \ {g} : last'[f] = last[f]
    BY <1>1, <1>2 DEF TypeOK
  <2>4. last'[g] = [config |-> config, k |-> k, how |-> how]
    BY <1>5, <2>3
  <2>5. QED
    BY <2>1, <2>2, <2>3, <2>4
<1>9. k \in Nat /\ config \in Configs /\ n \in Nat /\ n <= k /\ Len(s) \in Nat
  BY <1>1, <1>4 DEF TypeOK
<1> HIDE DEF g, lines, s, more, runs
<1>10. \A i \in 1 .. Len(runs) : runs[i].cond = CondOf[config]
  <2> SUFFICES ASSUME NEW i \in 1 .. Len(runs) PROVE runs[i].cond = CondOf[config]
    OBVIOUS
  <2>1. CASE i <= Len(s)
    BY <1>6, <1>7, <1>9, <2>1
  <2>2. CASE i > Len(s)
    <3>1. i - Len(s) \in 1 .. Len(new)
      BY <1>3, <1>7, <1>9, <2>2
    <3>2. runs[Len(s) + (i - Len(s))] = new[i - Len(s)]
      BY <1>7, <3>1
    <3>3. Len(s) + (i - Len(s)) = i
      BY <1>9
    <3>4. QED
      BY <1>3, <3>1, <3>2, <3>3
  <2>3. QED
    BY <1>9, <2>1, <2>2
<1>11. ASSUME NEW f \in Files PROVE FileInv(f)'
  <2>1. CASE f = g
    <3>1. Len(more) <= Len(runs)
      BY <1>3, <1>7, <1>9
    <3>2. last'[f].config = config /\ last'[f].how # "done"
      BY <1>8, <2>1
    <3>3. /\ Len(rows'[f]) <= Len(results'[f])
          /\ \A i \in 1 .. Len(rows'[f]) : rows'[f][i] = Line(results'[f][i])
          /\ \A i \in 1 .. Len(results'[f]) : results'[f][i].cond = CondOf[config]
      BY <1>7, <1>8, <1>10, <2>1, <3>1
    <3>4. QED
      BY <3>2, <3>3 DEF FileInv
  <2>2. CASE f # g
    BY <1>1, <1>8, <2>2, Untouched
  <2>3. QED
    BY <2>1, <2>2
<1>12. /\ rows' \in [Files -> Seq({Line(x) : x \in RunResult})]
       /\ results' \in [Files -> Seq(RunResult)]
  <2>1. rows' = [rows EXCEPT ![g] = more]
    BY DEF g, lines, more
  <2>2. results' = [results EXCEPT ![g] = runs]
    BY DEF g, s, runs
  <2>3. rows \in [Files -> Seq(Rows)] /\ results \in [Files -> Seq(RunResult)]
    BY <1>1 DEF TypeOK, Rows
  <2>4. rows' \in [Files -> Seq(Rows)]
    BY <1>7, <2>1, <2>3
  <2>5. results' \in [Files -> Seq(RunResult)]
    BY <1>7, <2>2, <2>3
  <2>6. QED
    BY <2>4, <2>5 DEF Rows
<1>13. last' \in [Files -> [config : Configs, k : Nat,
                            how : {"never", "underway", "done", "failed", "killed"}]]
  <2>1. last' = [last EXCEPT ![g] = [last[g] EXCEPT !.how = how]]
    BY DEF g
  <2>2. [last[g] EXCEPT !.how = how] = [config |-> config, k |-> k, how |-> how]
    BY <1>5
  <2>3. [config |-> config, k |-> k, how |-> how] \in
          [config : Configs, k : Nat, how : {"never", "underway", "done", "failed", "killed"}]
    BY <1>9
  <2>4. QED
    BY <1>1, <2>1, <2>2, <2>3 DEF TypeOK
<1>14. n = k => Len(more) = Len(runs)
  BY <1>3, <1>7
<1>15. QED
  BY <1>8, <1>11, <1>12, <1>13, <1>14 DEF g

\* An ending that leaves lines and runs alone.
LEMMA EndsKeeps ==
  ASSUME IInv, phase = "running", NEW how \in {"done", "failed", "killed"}, Ends(how),
         rows' = rows, torn' = torn, results' = results,
         NEW file, report' = [report EXCEPT ![File] = file],
         file \in [state : {"absent", "cut", "whole"}, k : Nat, runs : Nat,
                   passed : Nat, reliable : SUBSET Tasks],
         how = "done" => file = BaselineReport(results[File], k)
  PROVE  IInv'
<1> DEFINE g == File
<1>1. TypeOK /\ (\A f \in Files : FileInv(f)) /\ ProcessInv
  BY DEF IInv
<1>2. g \in Files
  BY <1>1, FileOfProcess
<1>3. /\ Len(rows[g]) = Len(results[g])
      /\ last[g] = [config |-> config, k |-> k, how |-> "underway"]
  BY <1>1 DEF ProcessInv
<1>4. /\ phase' = "idle" /\ next' = 1 /\ config' = config /\ k' = k /\ starts' = starts
      /\ last' = [last EXCEPT ![g] = [last[g] EXCEPT !.how = how]]
  BY DEF Ends
<1>5. report' = [report EXCEPT ![g] = file]
  OBVIOUS
<1>6. how = "done" => file = BaselineReport(results[g], k)
  OBVIOUS
<1> HIDE DEF g
<1>7. [last[g] EXCEPT !.how = how] = [config |-> config, k |-> k, how |-> how]
  BY <1>3
<1>8. config \in Configs /\ k \in Nat
  BY <1>1 DEF TypeOK
<1>9. TypeOK'
  <2>1. [config |-> config, k |-> k, how |-> how] \in
          [config : Configs, k : Nat, how : {"never", "underway", "done", "failed", "killed"}]
    BY <1>8
  <2>2. last' \in [Files -> [config : Configs, k : Nat,
                             how : {"never", "underway", "done", "failed", "killed"}]]
    BY <1>1, <1>4, <1>7, <2>1 DEF TypeOK
  <2>3. report' \in [Files -> [state : {"absent", "cut", "whole"}, k : Nat, runs : Nat,
                               passed : Nat, reliable : SUBSET Tasks]]
    BY <1>1, <1>5 DEF TypeOK
  <2>4. 1 \in 1 .. Len(Corpus) + 1
    BY CorpusFacts
  <2>5. QED
    BY <1>1, <1>4, <2>2, <2>3, <2>4 DEF TypeOK
<1>10. last'[g] = [config |-> config, k |-> k, how |-> how]
  BY <1>1, <1>2, <1>4, <1>7 DEF TypeOK
<1>11. report'[g] = file
  BY <1>1, <1>2, <1>5 DEF TypeOK
<1>12. \A f \in Files \ {g} : last'[f] = last[f] /\ report'[f] = report[f]
  BY <1>1, <1>4, <1>5 DEF TypeOK
<1>13. ASSUME NEW f \in Files PROVE FileInv(f)'
  <2>1. CASE f = g
    <3>1. /\ Len(rows'[f]) = Len(results'[f])
          /\ Len(rows'[f]) <= Len(results'[f])
          /\ \A i \in 1 .. Len(rows'[f]) : rows'[f][i] = Line(results'[f][i])
          /\ \A i \in 1 .. Len(results'[f]) : results'[f][i].cond = CondOf[last[f].config]
      BY <1>1, <1>3, <2>1 DEF FileInv
    <3>2. last'[f].config = last[f].config /\ last'[f].k = k /\ last'[f].how = how
      BY <1>3, <1>10, <2>1
    <3>3. how = "done" => report'[f] = BaselineReport(results'[f], last'[f].k)
      BY <1>6, <1>11, <2>1, <3>2
    <3>4. QED
      BY <3>1, <3>2, <3>3 DEF FileInv
  <2>2. CASE f # g
    BY <1>1, <1>12, <2>2, Untouched
  <2>3. QED
    BY <2>1, <2>2
<1>14. ProcessInv'
  BY <1>4 DEF ProcessInv
<1>15. QED
  BY <1>9, <1>13, <1>14 DEF IInv

LEMMA NextKeeps == IInv /\ [Next]_vars => IInv'
<1> SUFFICES ASSUME IInv, [Next]_vars PROVE IInv'
  OBVIOUS
<1>1. TypeOK /\ (\A f \in Files : FileInv(f)) /\ ProcessInv
  BY DEF IInv
<1>2. /\ File \in Files
      /\ report \in [Files -> [state : {"absent", "cut", "whole"}, k : Nat, runs : Nat,
                               passed : Nat, reliable : SUBSET Tasks]]
      /\ report[File] \in [state : {"absent", "cut", "whole"}, k : Nat, runs : Nat,
                           passed : Nat, reliable : SUBSET Tasks]
  BY <1>1, FileOfProcess DEF TypeOK
<1>3. report = [report EXCEPT ![File] = report[File]]
  BY <1>2
<1>4. k \in Nat /\ config \in Configs /\ next \in 1 .. Len(Corpus) + 1
      /\ last \in [Files -> [config : Configs, k : Nat,
                             how : {"never", "underway", "done", "failed", "killed"}]]
      /\ results[File] \in Seq(RunResult) /\ torn \subseteq Files /\ starts \in Nat
  BY <1>1, <1>2 DEF TypeOK
<1>5. ASSUME NEW c \in Configs, NEW n \in Ks, Start(c, n) PROVE IInv'
  BY <1>5, StartKeeps
<1>6. ASSUME RunTask PROVE IInv'
  <2>1. phase = "running" /\ next <= Len(Corpus)
    BY <1>6 DEF RunTask
  <2>2. PICK new \in TaskRuns :
          /\ rows' = [rows EXCEPT ![File] = @ \o [i \in DOMAIN new |-> Line(new[i])]]
          /\ results' = [results EXCEPT ![File] = @ \o new]
    BY <1>6 DEF RunTask
  <2>3. /\ next' = next + 1 /\ torn' = torn /\ report' = report /\ phase' = phase
        /\ config' = config /\ k' = k /\ starts' = starts /\ last' = last
    BY <1>6 DEF RunTask
  <2>4. last[File] = [config |-> config, k |-> k, how |-> "underway"]
    BY <1>1, <2>1 DEF ProcessInv
  <2>5. last' = [last EXCEPT ![File].how = "underway"]
    BY <1>2, <1>4, <2>3, <2>4
  <2>6. DOMAIN new = 1 .. k
    BY <1>1, <1>4, <2>1, TaskRunsTyped
  <2>7. rows' = [rows EXCEPT ![File] = @ \o [i \in 1 .. k |-> Line(new[i])]]
    BY <2>2, <2>6
  <2>8. k \in 0 .. k
    BY <1>4
  <2>9. /\ rows' \in [Files -> Seq({Line(x) : x \in RunResult})]
        /\ results' \in [Files -> Seq(RunResult)]
        /\ \A f \in Files : FileInv(f)'
        /\ Len(rows'[File]) = Len(results'[File])
    BY <2>1, <2>2, <2>3, <2>5, <2>7, <2>8, AppendKeeps
  <2>10. next' \in 1 .. Len(Corpus) + 1
    BY <1>4, <2>1, <2>3, CorpusFacts
  <2>11. TypeOK'
    BY <1>1, <2>3, <2>9, <2>10 DEF TypeOK
  <2>12. ProcessInv'
    BY <2>3, <2>4, <2>9 DEF ProcessInv, File
  <2>13. QED
    BY <2>9, <2>11, <2>12 DEF IInv
<1>7. ASSUME TaskRaises PROVE IInv'
  <2>1. phase = "running" /\ Ends("failed") /\ rows' = rows /\ torn' = torn
        /\ report' = report /\ results' = results
    BY <1>7 DEF TaskRaises
  <2>2. QED
    BY <1>2, <1>3, <2>1, EndsKeeps
<1>8. ASSUME WriteReport PROVE IInv'
  <2>1. phase = "running" /\ Ends("done") /\ rows' = rows /\ torn' = torn
        /\ report' = [report EXCEPT ![File] = BaselineReport(results[File], k)]
        /\ results' = results
    BY <1>8 DEF WriteReport
  <2>2. BaselineReport(results[File], k) \in
          [state : {"absent", "cut", "whole"}, k : Nat, runs : Nat,
           passed : Nat, reliable : SUBSET Tasks]
    BY <1>4, ReportTyped
  <2>3. QED
    BY <2>1, <2>2, EndsKeeps
<1>9. ASSUME ReportRaises PROVE IInv'
  <2>1. phase = "running" /\ Ends("failed") /\ rows' = rows /\ torn' = torn
        /\ report' = report /\ results' = results
    BY <1>9 DEF ReportRaises
  <2>2. QED
    BY <1>2, <1>3, <2>1, EndsKeeps
<1>10. ASSUME Killed PROVE IInv'
  <2>1. phase = "running" /\ Ends("killed") /\ rows' = rows /\ torn' = torn
        /\ report' = report /\ results' = results
    BY <1>10 DEF Killed
  <2>2. QED
    BY <1>2, <1>3, <2>1, EndsKeeps
<1>11. ASSUME KilledAppending PROVE IInv'
  <2>1. phase = "running" /\ next <= Len(Corpus) /\ Ends("killed") /\ report' = report
    BY <1>11 DEF KilledAppending
  <2>2. PICK new \in TaskRuns :
          \E n \in 0 .. k :
            /\ rows' = [rows EXCEPT ![File] = @ \o [i \in 1 .. n |-> Line(new[i])]]
            /\ torn' \in {torn} \cup (IF n < k THEN {torn \cup {File}} ELSE {})
            /\ results' = [results EXCEPT ![File] = @ \o new]
    BY <1>11 DEF KilledAppending
  <2>3. PICK n \in 0 .. k :
          /\ rows' = [rows EXCEPT ![File] = @ \o [i \in 1 .. n |-> Line(new[i])]]
          /\ torn' \in {torn} \cup (IF n < k THEN {torn \cup {File}} ELSE {})
          /\ results' = [results EXCEPT ![File] = @ \o new]
    BY <2>2
  <2>4. /\ phase' = "idle" /\ next' = 1 /\ config' = config /\ k' = k /\ starts' = starts
        /\ last' = [last EXCEPT ![File].how = "killed"]
    BY <2>1 DEF Ends
  <2>5. /\ rows' \in [Files -> Seq({Line(x) : x \in RunResult})]
        /\ results' \in [Files -> Seq(RunResult)]
        /\ last' \in [Files -> [config : Configs, k : Nat,
                                how : {"never", "underway", "done", "failed", "killed"}]]
        /\ \A f \in Files : FileInv(f)'
    BY <2>1, <2>3, <2>4, AppendKeeps
  <2>6. torn' \subseteq Files
    BY <1>2, <1>4, <2>3
  <2>7. 1 \in 1 .. Len(Corpus) + 1
    BY CorpusFacts
  <2>8. TypeOK'
    BY <1>1, <2>1, <2>4, <2>5, <2>6, <2>7 DEF TypeOK
  <2>9. ProcessInv'
    BY <2>4 DEF ProcessInv
  <2>10. QED
    BY <2>5, <2>8, <2>9 DEF IInv
<1>12. ASSUME KilledWritingReport PROVE IInv'
  <2>1. phase = "running" /\ Ends("killed") /\ rows' = rows /\ torn' = torn
        /\ report' = [report EXCEPT ![File] = CutReport] /\ results' = results
    BY <1>12 DEF KilledWritingReport
  <2>2. CutReport \in [state : {"absent", "cut", "whole"}, k : Nat, runs : Nat,
                       passed : Nat, reliable : SUBSET Tasks]
    BY DEF CutReport, NoReport
  <2>3. QED
    BY <2>1, <2>2, EndsKeeps
<1>13. ASSUME vars' = vars PROVE IInv'
  <2>1. /\ rows' = rows /\ torn' = torn /\ report' = report /\ phase' = phase
        /\ config' = config /\ k' = k /\ next' = next /\ starts' = starts
        /\ results' = results /\ last' = last
    BY <1>13 DEF vars
  <2>2. TypeOK'
    BY <1>1, <2>1 DEF TypeOK
  <2>3. \A f \in Files : FileInv(f)'
    BY <1>1, <2>1, Untouched
  <2>4. ProcessInv'
    BY <1>1, <2>1 DEF ProcessInv, File
  <2>5. QED
    BY <2>2, <2>3, <2>4 DEF IInv
<1>14. QED
  BY <1>5, <1>6, <1>7, <1>8, <1>9, <1>10, <1>11, <1>12, <1>13 DEF Next

LEMMA Inductive == Spec => []IInv
<1>1. QED
  BY InitHolds, NextKeeps, PTL DEF Spec

\* Every variable has its type: what is read of a file is a list of runs.
THEOREM TypeCorrect == Spec => []TypeOK
<1>1. IInv => TypeOK
  BY DEF IInv
<1>2. QED
  BY Inductive, <1>1, PTL

-----------------------------------------------------------------------------
(* What a finished baseline has run of its corpus.                        *)

CorpusRun(f) ==
  last[f].how = "done" =>
    /\ results[f] # <<>>
    /\ \A t \in TasksIn(results[f]) : RunsOf(results[f], t) = last[f].k
    /\ last[f].k > 0 => Tasks \subseteq TasksIn(results[f])

CorpusInv ==
  /\ \A f \in Files : CorpusRun(f)
  /\ phase = "running" /\ k > 0 =>
       \A i \in 1 .. next - 1 : Corpus[i] \in TasksIn(results[File])

LEMMA AppendedTasks ==
  ASSUME NEW s \in Seq(RunResult), NEW new \in Seq(RunResult)
  PROVE  TasksIn(s \o new) = TasksIn(s) \cup TasksIn(new)
<1>1. /\ DOMAIN s = 1 .. Len(s) /\ DOMAIN new = 1 .. Len(new)
      /\ DOMAIN (s \o new) = 1 .. (Len(s) + Len(new)) /\ Len(s) \in Nat /\ Len(new) \in Nat
  OBVIOUS
<1>2. /\ \A i \in 1 .. Len(s) : (s \o new)[i] = s[i]
      /\ \A i \in 1 .. Len(new) : (s \o new)[Len(s) + i] = new[i]
  OBVIOUS
<1> DEFINE both == s \o new
<1>3. ASSUME NEW t \in TasksIn(both) PROVE t \in TasksIn(s) \cup TasksIn(new)
  <2>1. PICK i \in 1 .. (Len(s) + Len(new)) : both[i].task = t
    BY <1>1, <1>3 DEF TasksIn
  <2>2. CASE i <= Len(s)
    BY <1>1, <1>2, <2>1, <2>2 DEF TasksIn
  <2>3. CASE i > Len(s)
    <3>1. i - Len(s) \in 1 .. Len(new) /\ Len(s) + (i - Len(s)) = i
      BY <1>1, <2>3
    <3>2. new[i - Len(s)].task = t
      BY <1>2, <2>1, <3>1
    <3>3. QED
      BY <1>1, <3>1, <3>2 DEF TasksIn
  <2>4. QED
    BY <1>1, <2>1, <2>2, <2>3
<1>4. ASSUME NEW t \in TasksIn(s) PROVE t \in TasksIn(both)
  <2>1. PICK i \in 1 .. Len(s) : s[i].task = t
    BY <1>1, <1>4 DEF TasksIn
  <2>2. i \in DOMAIN both /\ both[i].task = t
    BY <1>1, <1>2, <2>1
  <2>3. QED
    BY <2>2 DEF TasksIn
<1>5. ASSUME NEW t \in TasksIn(new) PROVE t \in TasksIn(both)
  <2>1. PICK i \in 1 .. Len(new) : new[i].task = t
    BY <1>1, <1>5 DEF TasksIn
  <2>2. Len(s) + i \in DOMAIN both /\ both[Len(s) + i].task = t
    BY <1>1, <1>2, <2>1
  <2>3. QED
    BY <2>2 DEF TasksIn
<1>6. QED
  BY <1>3, <1>4, <1>5

\* An invocation that has not ended well says nothing of its corpus.
LEMMA OthersRan ==
  ASSUME TypeOK, CorpusInv, NEW g \in Files,
         \A f \in Files \ {g} : results'[f] = results[f] /\ last'[f] = last[f],
         last'[g].how # "done"
  PROVE  \A f \in Files : CorpusRun(f)'
<1> SUFFICES ASSUME NEW f \in Files PROVE CorpusRun(f)'
  OBVIOUS
<1>1. CASE f = g
  BY <1>1 DEF CorpusRun
<1>2. CASE f # g
  <2>1. results'[f] = results[f] /\ last'[f] = last[f] /\ CorpusRun(f)
    BY <1>2 DEF CorpusInv
  <2>2. QED
    BY <2>1 DEF CorpusRun
<1>3. QED
  BY <1>1, <1>2

LEMMA CorpusKept == IInv /\ CorpusInv /\ [Next]_vars => CorpusInv'
<1> SUFFICES ASSUME IInv, CorpusInv, [Next]_vars PROVE CorpusInv'
  OBVIOUS
<1>1. TypeOK /\ ProcessInv
  BY DEF IInv
<1>2. /\ File \in Files /\ k \in Nat /\ next \in 1 .. Len(Corpus) + 1
      /\ last \in [Files -> [config : Configs, k : Nat,
                             how : {"never", "underway", "done", "failed", "killed"}]]
      /\ results \in [Files -> Seq(RunResult)]
  BY <1>1, FileOfProcess DEF TypeOK
<1>3. Len(Corpus) \in Nat
  BY CorpusFacts
<1>4. ASSUME NEW c \in Configs, NEW n \in Ks, Start(c, n) PROVE CorpusInv'
  <2>1. /\ results' = [results EXCEPT ![FileOf[c]] = <<>>] /\ next' = 1
        /\ last' = [last EXCEPT ![FileOf[c]] = [config |-> c, k |-> n, how |-> "underway"]]
    BY <1>4 DEF Start
  <2>2. FileOf[c] \in Files
    BY DEF Files
  <2>3. last'[FileOf[c]].how # "done"
    BY <1>2, <2>1, <2>2
  <2>4. \A f \in Files \ {FileOf[c]} : results'[f] = results[f] /\ last'[f] = last[f]
    BY <1>2, <2>1
  <2>5. \A f \in Files : CorpusRun(f)'
    BY <1>1, <2>2, <2>3, <2>4, OthersRan
  <2>6. 1 .. next' - 1 = {}
    BY <2>1
  <2>7. QED
    BY <2>5, <2>6 DEF CorpusInv
<1>5. ASSUME RunTask PROVE CorpusInv'
  <2>1. phase = "running" /\ next <= Len(Corpus)
    BY <1>5 DEF RunTask
  <2>2. PICK new \in TaskRuns : results' = [results EXCEPT ![File] = @ \o new]
    BY <1>5 DEF RunTask
  <2>3. next' = next + 1 /\ last' = last /\ k' = k /\ config' = config /\ phase' = phase
    BY <1>5 DEF RunTask
  <2>4. File' = File
    BY <2>3 DEF File
  <2>5. new \in Seq(RunResult) /\ Len(new) = k
    BY <1>1, <2>1, TaskRunsTyped
  <2>6. results'[File] = results[File] \o new
    BY <1>2, <2>2
  <2>7. last'[File].how # "done"
    BY <1>1, <2>1, <2>3 DEF ProcessInv
  <2>8. \A f \in Files : CorpusRun(f)'
    BY <1>1, <1>2, <2>2, <2>3, <2>7, OthersRan
  <2>9. TasksIn(results'[File]) = TasksIn(results[File]) \cup TasksIn(new)
    BY <1>2, <2>5, <2>6, AppendedTasks
  <2>10. ASSUME k > 0 PROVE Corpus[next] \in TasksIn(new)
    <3>1. PICK g \in [1 .. k -> Outcomes[config]] :
            new = [i \in 1 .. k |-> [cond |-> CondOf[config], task |-> Corpus[next],
                                     index |-> i - 1, run |-> g[i]]]
      BY DEF TaskRuns
    <3>2. 1 \in DOMAIN new /\ new[1].task = Corpus[next]
      BY <1>2, <2>10, <3>1
    <3>3. QED
      BY <3>2 DEF TasksIn
  <2>11. ASSUME k > 0, NEW i \in 1 .. next PROVE Corpus[i] \in TasksIn(results'[File])
    <3>1. CASE i = next
      BY <2>9, <2>10, <2>11, <3>1
    <3>2. CASE i # next
      <4>1. i \in 1 .. next - 1
        BY <1>2, <3>2
      <4>2. Corpus[i] \in TasksIn(results[File])
        BY <2>1, <2>11, <4>1 DEF CorpusInv
      <4>3. QED
        BY <2>9, <4>2
    <3>3. QED
      BY <3>1, <3>2
  <2>12. next' - 1 = next
    BY <1>2, <2>3
  <2>13. QED
    BY <2>3, <2>4, <2>8, <2>11, <2>12 DEF CorpusInv
<1>6. ASSUME NEW how, Ends(how)
      PROVE  /\ phase' = "idle" /\ last'[File].how = how /\ last'[File].k = last[File].k
             /\ \A f \in Files \ {File} : last'[f] = last[f]
  <2>1. phase' = "idle" /\ last' = [last EXCEPT ![File] = [last[File] EXCEPT !.how = how]]
    BY <1>6 DEF Ends
  <2>2. last'[File] = [last[File] EXCEPT !.how = how]
    BY <1>2, <2>1
  <2>3. /\ "how" \in DOMAIN last[File] /\ "k" \in DOMAIN last[File]
        /\ last[File] = [x \in DOMAIN last[File] |-> last[File][x]]
    BY <1>2
  <2>4. last'[File].how = how /\ last'[File].k = last[File].k
    BY <2>2, <2>3
  <2>5. QED
    BY <1>2, <2>1, <2>4
<1>7. ASSUME NEW how \in {"failed", "killed"}, Ends(how), results' = results PROVE CorpusInv'
  <2>1. last'[File].how # "done"
    BY <1>6, <1>7
  <2>2. \A f \in Files : CorpusRun(f)'
    BY <1>1, <1>2, <1>6, <1>7, <2>1, OthersRan
  <2>3. QED
    BY <1>6, <1>7, <2>2 DEF CorpusInv
<1>8. ASSUME WriteReport PROVE CorpusInv'
  <2>1. /\ phase = "running" /\ next > Len(Corpus) /\ ValidK(results[File])
        /\ Ends("done") /\ results' = results
    BY <1>8 DEF WriteReport
  <2>2. last[File].k = k
    BY <1>1, <2>1 DEF ProcessInv
  <2>3. last'[File].k = k
    BY <1>6, <2>1, <2>2
  <2>4. ASSUME k > 0, NEW t \in Tasks PROVE t \in TasksIn(results[File])
    <3>1. PICK i \in 1 .. Len(Corpus) : t = Corpus[i]
      BY CorpusFacts DEF Tasks
    <3>2. i \in 1 .. next - 1
      BY <1>2, <1>3, <2>1
    <3>3. QED
      BY <2>1, <2>4, <3>1, <3>2 DEF CorpusInv
  <2>5. CorpusRun(File)'
    <3>1. \A t \in TasksIn(results[File]) : RunsOf(results[File], t) = k
      BY <2>1 DEF ValidK
    <3>2. results[File] # <<>>
      BY <2>1 DEF ValidK
    <3>3. \A g \in Files : g = File => CorpusRun(g)'
      BY <2>1, <2>3, <2>4, <3>1, <3>2 DEF CorpusRun
    <3>4. File' = File
      BY <2>1 DEF Ends, File
    <3>5. QED
      BY <1>2, <3>3, <3>4
  <2>6. \A f \in Files : CorpusRun(f)'
    <3> SUFFICES ASSUME NEW f \in Files PROVE CorpusRun(f)'
      OBVIOUS
    <3>1. CASE f = File
      <4>1. File' = File
        BY <2>1 DEF Ends, File
      <4>2. QED
        BY <2>5, <3>1, <4>1 DEF CorpusRun
    <3>2. CASE f # File
      <4>1. last'[f] = last[f] /\ results'[f] = results[f] /\ CorpusRun(f)
        BY <1>6, <2>1, <3>2 DEF CorpusInv
      <4>2. QED
        BY <4>1 DEF CorpusRun
    <3>3. QED
      BY <3>1, <3>2
  <2>7. QED
    BY <1>6, <2>1, <2>6 DEF CorpusInv
<1>9. ASSUME KilledAppending PROVE CorpusInv'
  <2>1. Ends("killed")
    BY <1>9 DEF KilledAppending
  <2>2. PICK new : results' = [results EXCEPT ![File] = @ \o new]
    BY <1>9 DEF KilledAppending
  <2>3. last'[File].how # "done"
    BY <1>6, <2>1
  <2>4. \A f \in Files : CorpusRun(f)'
    BY <1>1, <1>2, <1>6, <2>1, <2>2, <2>3, OthersRan
  <2>5. QED
    BY <1>6, <2>1, <2>4 DEF CorpusInv
<1>10. ASSUME vars' = vars PROVE CorpusInv'
  <2>1. /\ results' = results /\ last' = last /\ phase' = phase /\ k' = k /\ next' = next
        /\ config' = config
    BY <1>10 DEF vars
  <2>2. File' = File
    BY <2>1 DEF File
  <2>3. \A f \in Files : CorpusRun(f)'
    BY <2>1 DEF CorpusInv, CorpusRun
  <2>4. QED
    BY <2>1, <2>2, <2>3 DEF CorpusInv
<1>11. QED
  BY <1>4, <1>5, <1>7, <1>8, <1>9, <1>10
     DEF Next, TaskRaises, ReportRaises, Killed, KilledWritingReport

LEMMA CorpusRuns == Spec => []CorpusInv
<1>1. Init => CorpusInv
  <2> SUFFICES ASSUME Init PROVE CorpusInv
    OBVIOUS
  <2>1. \A f \in Files : CorpusRun(f)
    BY DEF Init, CorpusRun
  <2>2. QED
    BY <2>1 DEF Init, CorpusInv
<1>2. QED
  BY <1>1, CorpusKept, Inductive, PTL DEF Spec

-----------------------------------------------------------------------------
(* What a report over a file says.                                         *)

\* The runs a report loads are the first of those the invocation had in memory.
LEMMA LoadedRuns ==
  ASSUME IInv, NEW f \in Files
  PROVE  /\ Loaded(f) \in Seq(RunResult) /\ results[f] \in Seq(RunResult)
         /\ Len(Loaded(f)) = Len(rows[f]) /\ Len(Loaded(f)) <= Len(results[f])
         /\ \A i \in 1 .. Len(Loaded(f)) :
              Loaded(f)[i] = results[f][i] /\ Loaded(f)[i].cond = CondOf[last[f].config]
<1> DEFINE lines == rows[f]
           seen == Loaded(f)
           s == results[f]
<1>1. lines \in Seq(Rows) /\ s \in Seq(RunResult)
  BY DEF IInv, TypeOK, Rows
<1>2. /\ Len(lines) <= Len(s)
      /\ \A i \in 1 .. Len(lines) : lines[i] = Line(s[i])
      /\ \A i \in 1 .. Len(s) : s[i].cond = CondOf[last[f].config]
  BY DEF IInv, FileInv
<1>3. seen = [i \in 1 .. Len(lines) |->
                [cond |-> lines[i].cond, task |-> lines[i].row.task_id,
                 index |-> lines[i].index, run |-> RowToRun(lines[i].row)]]
  BY <1>1 DEF Loaded
<1>4. Len(lines) \in Nat /\ Len(s) \in Nat
  BY <1>1
<1> HIDE DEF lines, seen, s
<1>5. ASSUME NEW i \in 1 .. Len(lines) PROVE seen[i] = s[i] /\ s[i] \in RunResult
  <2>1. s[i] \in RunResult
    BY <1>1, <1>2, <1>4
  <2>2. lines[i] = Line(s[i])
    BY <1>2
  <2>3. seen[i] = [cond |-> Line(s[i]).cond, task |-> Line(s[i]).row.task_id,
                   index |-> Line(s[i]).index, run |-> RowToRun(Line(s[i]).row)]
    BY <1>3, <2>2
  <2>4. seen[i] = s[i]
    BY <2>1, <2>3, RoundTrip
  <2>5. QED
    BY <2>1, <2>4
<1>6. seen \in Seq(RunResult) /\ Len(seen) = Len(lines)
  <2>1. seen = [i \in 1 .. Len(lines) |-> seen[i]]
    BY <1>3
  <2>2. \A i \in 1 .. Len(lines) : seen[i] \in RunResult
    BY <1>5
  <2>3. QED
    BY <1>4, <2>1, <2>2
<1>7. \A i \in 1 .. Len(lines) : s[i].cond = CondOf[last[f].config]
  BY <1>2, <1>4
<1>8. QED
  BY <1>1, <1>2, <1>5, <1>6, <1>7 DEF lines, seen, s

LEMMA AccountsHold == IInv => OwnAccounts
<1> SUFFICES ASSUME IInv, NEW f \in Readable
             PROVE  /\ \A x, y \in DerivedConds(Loaded(f)) : x = y
                    /\ last[f].how = "done" =>
                         /\ Loaded(f) = results[f]
                         /\ report[f] = BaselineReport(Loaded(f), last[f].k)
  BY DEF OwnAccounts
<1>1. f \in Files
  BY DEF Readable
<1> DEFINE seen == Loaded(f)
           s == results[f]
<1>2. /\ seen \in Seq(RunResult) /\ s \in Seq(RunResult) /\ Len(seen) = Len(rows[f])
      /\ \A i \in 1 .. Len(seen) :
            seen[i] = s[i] /\ seen[i].cond = CondOf[last[f].config]
  BY <1>1, LoadedRuns
<1>3. last[f].how = "done" => Len(rows[f]) = Len(s) /\ report[f] = BaselineReport(s, last[f].k)
  BY <1>1 DEF IInv, FileInv
<1> HIDE DEF seen, s
<1>4. \A x \in DerivedConds(seen) : x = CondOf[last[f].config]
  BY <1>2 DEF DerivedConds
<1>5. ASSUME last[f].how = "done" PROVE seen = s
  <2>1. Len(seen) = Len(s)
    BY <1>2, <1>3, <1>5
  <2>2. QED
    BY <1>2, <2>1
<1>6. last[f].how = "done" => seen = s /\ report[f] = BaselineReport(seen, last[f].k)
  BY <1>3, <1>5
<1>7. QED
  BY <1>4, <1>6 DEF seen, s

\* Once a baseline has ended well, the file holds what it ran, under one
\* condition, and the report beside it is made of just that, whatever other
\* invocations shared the file before.
THEOREM AccountsBelong == Spec => []OwnAccounts
<1>1. QED
  BY Inductive, AccountsHold, PTL

LEMMA StatusesAgree ==
  ASSUME NEW rs PROVE FinalStatus(rs) = Status(rs)
<1>1. {rs[i].task : i \in {j \in DOMAIN rs : rs[j].task \notin Deficit(rs)}} = Whole(rs)
  BY DEF Whole, TasksIn
<1>2. QED
  BY <1>1 DEF FinalStatus, Status

\* A status of complete means runs enough of every task of the corpus.
LEMMA CompleteCounts ==
  ASSUME NEW rs \in Seq(RunResult), Status(rs) = "complete", NEW t \in Tasks
  PROVE  /\ rs # <<>> /\ t \in Whole(rs) /\ RunsOf(rs, t) >= K
<1>1. rs # <<>> /\ Cardinality(Whole(rs)) = ExpectedN /\ Deficit(rs) = {}
  BY DEF Status
<1>2. Whole(rs) = TasksIn(rs)
  BY <1>1 DEF Whole
<1>3. TasksIn(rs) \subseteq Tasks
  <2>1. \A i \in DOMAIN rs : rs[i] \in RunResult
    OBVIOUS
  <2>2. \A x \in RunResult : x.task \in Tasks
    BY DEF RunResult
  <2>3. QED
    BY <2>1, <2>2 DEF TasksIn
<1>4. Whole(rs) = Tasks
  <2>1. Cardinality(Whole(rs)) = Cardinality(Tasks)
    BY <1>1, CorpusFacts, ReportsAssumption
  <2>2. QED
    BY <1>2, <1>3, <2>1, CorpusFacts, FS_Subset
<1>5. ~(RunsOf(rs, t) < K)
  BY <1>1, <1>2, <1>4 DEF Deficit
<1>6. RunsOf(rs, t) \in Nat
  <2>1. {i \in DOMAIN rs : rs[i].task = t} \in SUBSET (1 .. Len(rs)) /\ Len(rs) \in Nat
    OBVIOUS
  <2>2. QED
    BY <2>1, CardInterval DEF RunsOf
<1>7. QED
  BY <1>1, <1>4, <1>5, <1>6, ReportsAssumption

LEMMA EarnedHolds == IInv => CompleteIsEarned
<1> SUFFICES ASSUME IInv, NEW f \in Readable
             PROVE  /\ FinalStatus(Loaded(f)) = Status(Loaded(f))
                    /\ Status(Loaded(f)) = "complete" =>
                         /\ IsPrefixOf(Loaded(f), results[f])
                         /\ \A t \in Tasks :
                              /\ RunsOf(Loaded(f), t) >= K
                              /\ ValidationCondition(Loaded(f)).matrix[t] = Reliable(Loaded(f), t)
                         /\ \A c \in Conds : Accepts(Loaded(f), c) => c = CondOf[last[f].config]
  BY DEF CompleteIsEarned
<1> DEFINE seen == Loaded(f)
           s == results[f]
<1>1. /\ seen \in Seq(RunResult) /\ s \in Seq(RunResult) /\ Len(seen) <= Len(s)
      /\ \A i \in 1 .. Len(seen) :
            seen[i] = s[i] /\ seen[i].cond = CondOf[last[f].config]
  BY LoadedRuns DEF Readable
<1> HIDE DEF seen, s
<1>2. FinalStatus(seen) = Status(seen)
  BY StatusesAgree
<1>3. ASSUME Status(seen) = "complete"
      PROVE  /\ IsPrefixOf(seen, s)
             /\ \A t \in Tasks :
                  /\ RunsOf(seen, t) >= K
                  /\ ValidationCondition(seen).matrix[t] = Reliable(seen, t)
             /\ \A c \in Conds : Accepts(seen, c) => c = CondOf[last[f].config]
  <2>1. IsPrefixOf(seen, s)
    BY <1>1 DEF IsPrefixOf
  <2>2. ASSUME NEW t \in Tasks
        PROVE  /\ RunsOf(seen, t) >= K
               /\ ValidationCondition(seen).matrix[t] = Reliable(seen, t)
    <3>1. t \in Whole(seen) /\ RunsOf(seen, t) >= K
      BY <1>1, <1>3, <2>2, CompleteCounts
    <3>2. ValidationCondition(seen).matrix = [u \in Whole(seen) |-> Reliable(seen, u)]
      BY DEF ValidationCondition
    <3>3. QED
      BY <3>1, <3>2
  <2>3. ASSUME NEW c \in Conds, Accepts(seen, c) PROVE c = CondOf[last[f].config]
    <3>1. seen # <<>>
      BY <1>3 DEF Status
    <3>2. 1 \in 1 .. Len(seen) /\ DOMAIN seen = 1 .. Len(seen)
      BY <1>1, <3>1
    <3>3. seen[1].cond \in DerivedConds(seen)
      BY <3>2 DEF DerivedConds
    <3>4. DerivedConds(seen) = {c}
      BY <2>3, <3>1 DEF Accepts
    <3>5. QED
      BY <1>1, <3>2, <3>3, <3>4
  <2>4. QED
    BY <2>1, <2>2, <2>3
<1>4. QED
  BY <1>2, <1>3 DEF seen, s

\* A condition the two reports call complete has K runs or more of every task
\* of the corpus, from the last invocation that had the file.
THEOREM CompletionIsEarned == Spec => []CompleteIsEarned
<1>1. QED
  BY Inductive, EarnedHolds, PTL

-----------------------------------------------------------------------------
(* Separations.                                                            *)

LEMMA RunsTyped ==
  ASSUME IInv, NEW f \in Files
  PROVE  /\ Runs[f] \in Seq(RunResult)
         /\ TasksIn(Runs[f]) \subseteq Tasks /\ IsFiniteSet(TasksIn(Runs[f]))
<1>1. Runs[f] \in Seq(RunResult)
  <2>1. Runs[f] = IF f \in Readable THEN Loaded(f) ELSE <<>>
    BY DEF Runs
  <2>2. Loaded(f) \in Seq(RunResult)
    BY LoadedRuns
  <2>3. QED
    BY <2>1, <2>2
<1> DEFINE rs == Runs[f]
<1> HIDE DEF rs
<1>2. rs \in Seq(RunResult) => TasksIn(rs) \subseteq Tasks
  <2>1. rs \in Seq(RunResult) => \A i \in DOMAIN rs : rs[i] \in RunResult
    OBVIOUS
  <2>2. \A x \in RunResult : x.task \in Tasks
    BY DEF RunResult
  <2>3. QED
    BY <2>1, <2>2 DEF TasksIn
<1>3. TasksIn(Runs[f]) \subseteq Tasks
  BY <1>1, <1>2 DEF rs
<1>4. QED
  BY <1>1, <1>3, CorpusFacts, FS_Subset

\* A reliable task has a graded pass.
LEMMA ReliableHasPass ==
  ASSUME NEW rs, NEW t \in ReliableTasks(rs)
  PROVE  t \in TasksIn(rs) /\ t \notin AllFail(rs)
<1>1. t \in TasksIn(rs) /\ Reliable(rs, t)
  BY DEF ReliableTasks
<1>2. PICK i \in DOMAIN rs : rs[i].task = t
  BY <1>1 DEF TasksIn
<1>3. i \in Graded(rs)
  BY <1>1, <1>2 DEF Reliable, RunPasses, Graded
<1>4. QED
  BY <1>1, <1>2, <1>3 DEF AllFail

\* The same, of the pairs of the validation report and of two files compared.
LEMMA PairNeedsWitness ==
  ASSUME NEW a, NEW b, NEW tasks, IsFiniteSet(tasks), NEW draws \in Draws(tasks)
  PROVE  /\ Above(PairSamples(a, b, draws)) => \E t \in tasks : Witness(t, a, b)
         /\ Below(PairSamples(a, b, draws)) => \E t \in tasks : Witness(t, b, a)
<1>1. PairSamples(a, b, draws) = Samples(draws, ReliableTasks(a), ReliableTasks(b))
  BY DEF PairSamples, Indicator
<1>2. /\ Above(Samples(draws, ReliableTasks(a), ReliableTasks(b))) =>
           \E t \in tasks : t \in ReliableTasks(b) /\ t \notin ReliableTasks(a)
      /\ Below(Samples(draws, ReliableTasks(a), ReliableTasks(b))) =>
           \E t \in tasks : t \in ReliableTasks(a) /\ t \notin ReliableTasks(b)
  BY IntervalNeedsWitness
<1>3. QED
  BY <1>1, <1>2 DEF Witness

\* A task reliable in one live condition and not in another, both without
\* deficit, meets the weak rung and is no candidate for a defect.
LEMMA WitnessMeetsWeak ==
  ASSUME NEW p \in Pairs(Runs), NEW f, NEW g, p = <<f, g>> \/ p = <<g, f>>,
         TasksIn(Runs[f]) = TasksIn(Runs[g]),
         Deficit(Runs[f]) = {}, Deficit(Runs[g]) = {},
         NEW t \in TasksIn(Runs[f]), Witness(t, Runs[f], Runs[g])
  PROVE  t \notin DefectCandidates(Runs) /\ WeakMet(Runs)
<1>1. f \in Live(Runs) /\ g \in Live(Runs)
  BY DEF Pairs
<1>2. g \in Files
  BY <1>1, ReportsAssumption DEF Live
<1>3. t \in ReliableTasks(Runs[g]) /\ t \notin ReliableTasks(Runs[f])
  BY DEF Witness
<1>4. t \notin DefectCandidates(Runs)
  <2>1. t \in TasksIn(Runs[g]) /\ t \notin AllFail(Runs[g])
    BY <1>3, ReliableHasPass
  <2>2. QED
    BY <1>2, <2>1 DEF DefectCandidates
<1>5. t \in Whole(Runs[f]) /\ t \in Whole(Runs[g])
  BY DEF Whole
<1>6. Reliable(Runs[g], t) /\ ~Reliable(Runs[f], t)
  BY <1>3 DEF ReliableTasks
<1>7. Differ(Runs, p)
  <2>1. CASE p = <<f, g>>
    <3>1. p[1] = f /\ p[2] = g
      BY <2>1
    <3>2. t \in Whole(Runs[p[1]]) \cap Whole(Runs[p[2]])
      BY <1>5, <3>1
    <3>3. Reliable(Runs[p[2]], t) /\ ~Reliable(Runs[p[1]], t)
      BY <1>6, <3>1
    <3>4. QED
      BY <3>2, <3>3 DEF Differ
  <2>2. CASE p = <<g, f>>
    <3>1. p[1] = g /\ p[2] = f
      BY <2>2
    <3>2. t \in Whole(Runs[p[1]]) \cap Whole(Runs[p[2]])
      BY <1>5, <3>1
    <3>3. Reliable(Runs[p[1]], t) /\ ~Reliable(Runs[p[2]], t)
      BY <1>6, <3>1
    <3>4. QED
      BY <3>2, <3>3 DEF Differ
  <2>3. QED
    BY <2>1, <2>2
<1>8. WeakMet(Runs)
  BY <1>1, <1>3, <1>5, <1>7 DEF WeakMet
<1>9. QED
  BY <1>4, <1>8

LEMMA WitnessHolds == IInv => SeparationHasWitness
<1> SUFFICES ASSUME IInv PROVE SeparationHasWitness
  OBVIOUS
<1>1. ASSUME NEW p \in Pairs(Runs),
             Deficit(Runs[p[1]]) = {}, Deficit(Runs[p[2]]) = {}, MaySeparate(Runs, p)
      PROVE  /\ \E t \in TasksIn(Runs[p[1]]) \ DefectCandidates(Runs) :
                  Witness(t, Runs[p[1]], Runs[p[2]]) \/ Witness(t, Runs[p[2]], Runs[p[1]])
             /\ WeakMet(Runs)
  <2>1. p \in Live(Runs) \X Live(Runs)
    BY DEF Pairs
  <2>2. PICK f \in Live(Runs), g \in Live(Runs) : p = <<f, g>>
    BY <2>1
  <2>3. p[1] = f /\ p[2] = g
    BY <2>2
  <2>4. f \in Files /\ g \in Files
    BY ReportsAssumption DEF Live
  <2>5. TasksIn(Runs[f]) = TasksIn(Runs[g])
    BY <1>1, <2>3 DEF MaySeparate, Skipped
  <2>6. PICK draws \in Draws(TasksIn(Runs[f])) : SeparatedBy(Runs[f], Runs[g], draws)
    BY <1>1, <2>3 DEF MaySeparate
  <2>7. IsFiniteSet(TasksIn(Runs[f]))
    BY <2>4, RunsTyped
  <2>8. PICK t \in TasksIn(Runs[f]) : Witness(t, Runs[f], Runs[g]) \/ Witness(t, Runs[g], Runs[f])
    BY <2>6, <2>7, PairNeedsWitness DEF SeparatedBy
  <2>9. Deficit(Runs[f]) = {} /\ Deficit(Runs[g]) = {}
    BY <1>1, <2>3
  <2>10. t \notin DefectCandidates(Runs) /\ WeakMet(Runs)
    <3>1. CASE Witness(t, Runs[f], Runs[g])
      BY <2>2, <2>5, <2>8, <2>9, <3>1, WitnessMeetsWeak
    <3>2. CASE Witness(t, Runs[g], Runs[f])
      BY <2>2, <2>5, <2>8, <2>9, <3>2, WitnessMeetsWeak
    <3>3. QED
      BY <2>8, <3>1, <3>2
  <2>11. QED
    BY <2>3, <2>8, <2>10
<1>2. ASSUME NEW f \in Files, NEW g \in Files, NEW draws \in Draws(Hard(Runs[f]))
      PROVE  /\ Verdict(Runs[f], Runs[g], draws) = "helps" =>
                  \E t \in Hard(Runs[f]) : Witness(t, Runs[f], Runs[g])
             /\ Verdict(Runs[f], Runs[g], draws) = "hurts" =>
                  \E t \in Hard(Runs[f]) : Witness(t, Runs[g], Runs[f])
  <2>1. Hard(Runs[f]) \subseteq TasksIn(Runs[f])
    BY DEF Hard
  <2>2. IsFiniteSet(Hard(Runs[f]))
    BY <2>1, RunsTyped, FS_Subset
  <2>3. /\ Above(PairSamples(Runs[f], Runs[g], draws)) =>
             \E t \in Hard(Runs[f]) : Witness(t, Runs[f], Runs[g])
        /\ Below(PairSamples(Runs[f], Runs[g], draws)) =>
             \E t \in Hard(Runs[f]) : Witness(t, Runs[g], Runs[f])
    BY <1>2, <2>2, PairNeedsWitness
  <2>4. QED
    BY <2>3 DEF Verdict
<1>3. QED
  BY <1>1, <1>2 DEF SeparationHasWitness

\* Whatever the seed, alpha and the number of resamples: two conditions with
\* all their runs are called CI-separated, and a configuration is said to help
\* or to hurt, only where a task passed every run on one side and not on the
\* other; and no such task is queued as a defect.
THEOREM SeparationsAreWitnessed == Spec => []SeparationHasWitness
<1>1. QED
  BY Inductive, WitnessHolds, PTL

-----------------------------------------------------------------------------
(* The headline of a report and its breakdowns.                            *)

\* The places of a list of runs.
LEMMA Places ==
  ASSUME NEW rs \in Seq(RunResult)
  PROVE  /\ Len(rs) \in Nat /\ DOMAIN rs = 1 .. Len(rs)
         /\ IsFiniteSet(DOMAIN rs) /\ Cardinality(DOMAIN rs) = Len(rs)
         /\ \A i \in DOMAIN rs : /\ rs[i].task \in Tasks /\ rs[i].index \in Nat
                                 /\ rs[i].run \in Run
<1> DEFINE n == Len(rs)
<1>1. n \in Nat /\ DOMAIN rs = 1 .. n
  OBVIOUS
<1>2. \A i \in DOMAIN rs : rs[i] \in RunResult
  OBVIOUS
<1>3. \A x \in RunResult : x.task \in Tasks /\ x.index \in Nat /\ x.run \in Run
  BY DEF RunResult
<1> HIDE DEF n
<1>4. IsFiniteSet(1 .. n) /\ Cardinality(1 .. n) = IF 1 > n THEN 0 ELSE n - 1 + 1
  BY <1>1, FS_Interval
<1>5. Cardinality(1 .. n) = n
  BY <1>1, <1>4
<1>6. QED
  BY <1>1, <1>2, <1>3, <1>4, <1>5 DEF n

\* The complete tasks that are reliable, by any map of the tasks.
LEMMA ReliableByAxis ==
  ASSUME NEW rs \in Seq(RunResult), NEW AxisOf, NEW Values,
         \A t \in Whole(rs) : AxisOf[t] \in Values
  PROVE  Cardinality(ReliableTasks(rs) \cap Whole(rs)) =
           Total([v \in Values |-> PassPowIn(rs, AxisOf, v).reliable])
<1> DEFINE S == ReliableTasks(rs) \cap Whole(rs)
           counts == [v \in Values |-> PassPowIn(rs, AxisOf, v).reliable]
           key == [t \in S |-> AxisOf[t]]
<1>1. IsFiniteSet(S)
  <2>1. \A i \in DOMAIN rs : rs[i].task \in Tasks
    BY Places
  <2>2. S \in SUBSET Tasks
    BY <2>1 DEF Whole, TasksIn
  <2>3. QED
    BY <2>2, CorpusFacts, FS_Subset
<1>2. ASSUME NEW v \in Values PROVE counts[v] = Cardinality({t \in S : key[t] = v})
  <2>1. {t \in S : key[t] = v} = {t \in Whole(rs) : AxisOf[t] = v} \cap ReliableTasks(rs)
    OBVIOUS
  <2>2. counts[v] = Cardinality({t \in Whole(rs) : AxisOf[t] = v} \cap ReliableTasks(rs))
    BY DEF PassPowIn
  <2>3. QED
    BY <2>1, <2>2
<1>3. DOMAIN counts = Values
  OBVIOUS
<1>4. key \in [S -> Values]
  OBVIOUS
<1> HIDE DEF S, counts, key
<1>5. Total(counts) = Cardinality(S)
  BY <1>1, <1>2, <1>3, <1>4, SumOfParts
<1>6. QED
  BY <1>5 DEF S, counts

\* The runs that failed.
LEMMA FailuresCounted ==
  ASSUME NEW rs \in Seq(RunResult)
  PROVE  /\ Len(rs) - Cardinality(Graded(rs)) = Cardinality(Classified(rs))
         /\ IsFiniteSet(Classified(rs))
<1>1. Graded(rs) \in SUBSET DOMAIN rs /\ Classified(rs) = DOMAIN rs \ Graded(rs)
  BY DEF Graded, Classified
<1>2. DOMAIN rs \cap Graded(rs) = Graded(rs)
  BY <1>1
<1>3. IsFiniteSet(DOMAIN rs) /\ Cardinality(DOMAIN rs) = Len(rs) /\ Len(rs) \in Nat
  BY Places
<1>4. /\ IsFiniteSet(DOMAIN rs \ Graded(rs))
      /\ Cardinality(DOMAIN rs \ Graded(rs)) = Cardinality(DOMAIN rs) - Cardinality(DOMAIN rs \cap Graded(rs))
  BY <1>3, FS_Difference
<1>5. QED
  BY <1>1, <1>2, <1>3, <1>4

\* Every failure is counted in the class of its own that it has.
LEMMA FailuresByClass ==
  ASSUME NEW rs \in Seq(RunResult)
  PROVE  Len(rs) - Cardinality(Graded(rs)) =
           Total([c \in {Classify(rs[i].run) : i \in Classified(rs)} |-> ClassCount(rs, c)])
<1> DEFINE classes == {Classify(rs[i].run) : i \in Classified(rs)}
           counts == [c \in classes |-> ClassCount(rs, c)]
           key == [i \in Classified(rs) |-> Classify(rs[i].run)]
<1>1. ASSUME NEW c \in classes
      PROVE  counts[c] = Cardinality({i \in Classified(rs) : key[i] = c})
  <2>1. {i \in Classified(rs) : key[i] = c} = {i \in Classified(rs) : Classify(rs[i].run) = c}
    OBVIOUS
  <2>2. QED
    BY <2>1 DEF ClassCount
<1>2. key \in [Classified(rs) -> classes] /\ DOMAIN counts = classes
  OBVIOUS
<1> HIDE DEF classes, counts, key
<1>3. Len(rs) - Cardinality(Graded(rs)) = Total(counts)
  BY <1>1, <1>2, FailuresCounted, SumOfParts
<1>4. QED
  BY <1>3 DEF classes, counts

\* And in one cell of the taxonomy.
LEMMA FailuresByTaxonomy ==
  ASSUME NEW rs \in Seq(RunResult), NEW tiers, NEW caps, NEW reasons,
         \A t \in Tasks : TierOf[t] \in tiers /\ CapabilityOf[t] \in caps,
         \A r \in Run : r.reason \in reasons
  PROVE  Len(rs) - Cardinality(Graded(rs)) =
           Total([q \in reasons \X tiers \X caps |-> Taxonomy(rs, q[1], q[2], q[3])])
<1> DEFINE keys == reasons \X tiers \X caps
           counts == [q \in keys |-> Taxonomy(rs, q[1], q[2], q[3])]
           key == [i \in Classified(rs) |->
                     <<rs[i].run.reason, TierOf[rs[i].task], CapabilityOf[rs[i].task]>>]
<1>1. ASSUME NEW q \in keys
      PROVE  counts[q] = Cardinality({i \in Classified(rs) : key[i] = q})
  <2>1. q = <<q[1], q[2], q[3]>>
    OBVIOUS
  <2>2. ASSUME NEW i \in Classified(rs)
        PROVE  key[i] = q <=> /\ rs[i].run.reason = q[1] /\ TierOf[rs[i].task] = q[2]
                              /\ CapabilityOf[rs[i].task] = q[3]
    BY <2>1
  <2>3. {i \in Classified(rs) : key[i] = q} =
          {i \in DOMAIN rs : /\ ~rs[i].run.passed /\ rs[i].run.reason = q[1]
                             /\ TierOf[rs[i].task] = q[2] /\ CapabilityOf[rs[i].task] = q[3]}
    <3> HIDE DEF key
    <3>1. QED
      BY <2>2 DEF Classified
  <2>4. QED
    BY <2>3 DEF Taxonomy
<1>2. key \in [Classified(rs) -> keys]
  <2>1. ASSUME NEW i \in Classified(rs)
        PROVE  /\ rs[i].run.reason \in reasons /\ TierOf[rs[i].task] \in tiers
               /\ CapabilityOf[rs[i].task] \in caps
    <3>1. i \in DOMAIN rs
      BY DEF Classified
    <3>2. QED
      BY <3>1, Places
  <2>2. QED
    BY <2>1
<1>3. DOMAIN counts = keys
  OBVIOUS
<1> HIDE DEF keys, counts, key
<1>4. Len(rs) - Cardinality(Graded(rs)) = Total(counts)
  BY <1>1, <1>2, <1>3, FailuresCounted, SumOfParts
<1>5. QED
  BY <1>4 DEF keys, counts

\* An exemplar of a category is one of its failures.
LEMMA ExemplarFails ==
  ASSUME NEW rs \in Seq(RunResult), NEW i0 \in Classified(rs)
  PROVE  Exemplar(rs, Classify(rs[i0].run)[1]) \in Classified(rs)
<1> DEFINE category == Classify(rs[i0].run)[1]
           I == {i \in Classified(rs) : Classify(rs[i].run)[1] = category}
           T == {rs[i].task : i \in I}
<1>1. I \subseteq DOMAIN rs /\ i0 \in I
  BY DEF Classified
<1>2. \A i \in I : rs[i].task \in Nat /\ rs[i].index \in Nat
  <2>1. Tasks \subseteq Nat
    BY CorpusFacts DEF Tasks
  <2>2. QED
    BY <1>1, <2>1, Places
<1> HIDE DEF I
<1>3. PICK t \in T : \A u \in T : t <= u
  <2>1. T \in SUBSET Nat /\ T # {}
    BY <1>1, <1>2
  <2> HIDE DEF T
  <2>2. QED
    BY <2>1, LeastNatural
<1> DEFINE X == {rs[i].index : i \in {j \in I : rs[j].task = t}}
<1>4. PICK x \in X : \A y \in X : x <= y
  <2>1. X \in SUBSET Nat /\ X # {}
    BY <1>2, <1>3
  <2> HIDE DEF X
  <2>2. QED
    BY <2>1, LeastNatural
<1>5. PICK i \in I : rs[i].task = t /\ rs[i].index = x
  BY <1>4
<1>6. ASSUME NEW j \in I
      PROVE  \/ rs[i].task < rs[j].task
             \/ rs[i].task = rs[j].task /\ rs[i].index <= rs[j].index
  <2>1. rs[j].task \in T /\ t <= rs[j].task /\ rs[j].task \in Nat /\ t \in Nat
    BY <1>2, <1>3, <1>5
  <2>2. CASE rs[j].task = t
    <3>1. rs[j].index \in X
      BY <2>2
    <3>2. x <= rs[j].index
      BY <1>4, <3>1
    <3>3. QED
      BY <1>5, <2>2, <3>2
  <2>3. CASE rs[j].task # t
    BY <1>5, <2>1, <2>3
  <2>4. QED
    BY <2>2, <2>3
<1> DEFINE Best(l) == /\ Classify(rs[l].run)[1] = category
                      /\ \A j \in Classified(rs) : Classify(rs[j].run)[1] = category =>
                           \/ rs[l].task < rs[j].task
                           \/ rs[l].task = rs[j].task /\ rs[l].index <= rs[j].index
<1>7. i \in Classified(rs) /\ Best(i)
  BY <1>6 DEF I
<1>8. Exemplar(rs, category) = CHOOSE l \in Classified(rs) : Best(l)
  BY Zenon DEF Exemplar
<1> HIDE DEF Best, category
<1>9. Exemplar(rs, category) \in Classified(rs)
  BY <1>7, <1>8, Zenon
<1>10. QED
  BY <1>9 DEF category

\* The breakdowns of one report add up.
LEMMA CountsAdd ==
  ASSUME NEW rs \in Seq(RunResult)
  PROVE  CountsAddUp(rs)
<1> DEFINE final == FinalCondition(rs)
           caps == {CapabilityOf[t] : t \in Whole(rs)}
           tiers == {"T1", "T2", "T3", "T4"}
           classes == {Classify(rs[i].run) : i \in Classified(rs)}
           keys == {"none", "forbidden_action", "step_limit_exceeded"} \X tiers
                     \X Range(CapabilityOf)
<1>1. /\ final.reliable = ReliableTasks(rs) \cap Whole(rs)
      /\ final.runs = Len(rs) /\ final.passed = Cardinality(Graded(rs))
      /\ final.capabilities = [c \in caps |-> PassPowIn(rs, CapabilityOf, c)]
  BY DEF FinalCondition
<1>2. DOMAIN final.capabilities = caps
  BY <1>1
<1>3. [c \in caps |-> final.capabilities[c].reliable] =
        [c \in caps |-> PassPowIn(rs, CapabilityOf, c).reliable]
  BY <1>1
<1>4. \A t \in Tasks : TierOf[t] \in tiers /\ CapabilityOf[t] \in Range(CapabilityOf)
  BY ReportsAssumption DEF Range
<1>5. \A t \in Whole(rs) : t \in Tasks
  BY Places DEF Whole, TasksIn
<1>6. Cardinality(final.reliable) = Total([c \in caps |-> final.capabilities[c].reliable])
  <2>1. \A t \in Whole(rs) : CapabilityOf[t] \in caps
    OBVIOUS
  <2> HIDE DEF caps, final
  <2>2. Cardinality(ReliableTasks(rs) \cap Whole(rs)) =
          Total([v \in caps |-> PassPowIn(rs, CapabilityOf, v).reliable])
    BY <2>1, ReliableByAxis, Zenon
  <2>3. QED
    BY <1>1, <1>3, <2>2, Zenon
<1>7. Cardinality(final.reliable) = Total([v \in tiers |-> PassPowIn(rs, TierOf, v).reliable])
  <2>1. \A t \in Whole(rs) : TierOf[t] \in tiers
    BY <1>4, <1>5
  <2> HIDE DEF tiers, final
  <2>2. Cardinality(ReliableTasks(rs) \cap Whole(rs)) =
          Total([v \in tiers |-> PassPowIn(rs, TierOf, v).reliable])
    BY <2>1, ReliableByAxis, Zenon
  <2>3. QED
    BY <1>1, <2>2, Zenon
<1>8. final.runs - final.passed = Total([c \in classes |-> ClassCount(rs, c)])
  BY <1>1, FailuresByClass
<1>9. final.runs - final.passed = Total([q \in keys |-> Taxonomy(rs, q[1], q[2], q[3])])
  <2> DEFINE reasons == {"none", "forbidden_action", "step_limit_exceeded"}
             axes == Range(CapabilityOf)
  <2>1. \A r \in Run : r.reason \in reasons
    BY DEF Run
  <2>2. \A t \in Tasks : TierOf[t] \in tiers /\ CapabilityOf[t] \in axes
    BY <1>4
  <2>3. keys = reasons \X tiers \X axes
    OBVIOUS
  <2> HIDE DEF reasons, axes, tiers, final, keys
  <2>4. Len(rs) - Cardinality(Graded(rs)) =
          Total([q \in reasons \X tiers \X axes |-> Taxonomy(rs, q[1], q[2], q[3])])
    BY <2>1, <2>2, FailuresByTaxonomy, Zenon
  <2>5. final.runs - final.passed = Len(rs) - Cardinality(Graded(rs))
    BY <1>1
  <2>6. QED
    BY <2>3, <2>4, <2>5, Zenon
<1>10. ASSUME NEW c \in classes PROVE rs[Exemplar(rs, c[1])].task \notin final.reliable
  <2>1. PICK i \in Classified(rs) : c = Classify(rs[i].run)
    OBVIOUS
  <2> DEFINE e == Exemplar(rs, c[1])
  <2>2. e \in Classified(rs)
    BY <2>1, ExemplarFails
  <2>3. e \in DOMAIN rs /\ ~rs[e].run.passed
    BY <2>2 DEF Classified
  <2> HIDE DEF e
  <2>4. ~RunPasses(rs[e].run)
    BY <2>3 DEF RunPasses
  <2>5. rs[e].task \notin ReliableTasks(rs)
    BY <2>3, <2>4 DEF ReliableTasks, Reliable
  <2>6. QED
    BY <1>1, <2>5 DEF e
<1> HIDE DEF final, caps, tiers, classes, keys
<1>11. QED
  BY <1>2, <1>6, <1>7, <1>8, <1>9, <1>10 DEF CountsAddUp, final, caps, tiers, classes, keys

\* Where a tier is harder, some task is not reliable.
LEMMA GradientShows ==
  ASSUME NEW rs \in Seq(RunResult), StrictDecrease(rs)
  PROVE  ReliableTasks(rs) \cap Whole(rs) # Whole(rs)
<1> SUFFICES ASSUME ReliableTasks(rs) \cap Whole(rs) = Whole(rs) PROVE FALSE
  OBVIOUS
<1>1. PICK p \in Neighbours(rs) : Drop(rs, p) > 0
  BY DEF StrictDecrease
<1>2. ASSUME NEW v
      PROVE  /\ PassPowIn(rs, TierOf, v).tasks \in Nat
             /\ PassPowIn(rs, TierOf, v).reliable = PassPowIn(rs, TierOf, v).tasks
  <2> DEFINE its == {t \in Whole(rs) : TierOf[t] = v}
  <2>1. its \cap ReliableTasks(rs) = its
    OBVIOUS
  <2>2. its \in SUBSET Tasks
    BY Places DEF Whole, TasksIn
  <2> HIDE DEF its
  <2>3. Cardinality(its) \in Nat
    BY <2>2, CorpusFacts, FS_Subset, FS_CardinalityType
  <2>4. PassPowIn(rs, TierOf, v) =
          [tasks |-> Cardinality(its), reliable |-> Cardinality(its \cap ReliableTasks(rs))]
    BY DEF PassPowIn, its
  <2>5. /\ PassPowIn(rs, TierOf, v).tasks = Cardinality(its)
        /\ PassPowIn(rs, TierOf, v).reliable = Cardinality(its \cap ReliableTasks(rs))
    BY <2>4
  <2>6. QED
    BY <2>1, <2>3, <2>5
<1> DEFINE hi == PassPowIn(rs, TierOf, TierOrder[p[1]])
           lo == PassPowIn(rs, TierOf, TierOrder[p[2]])
<1>3. hi.tasks \in Nat /\ lo.tasks \in Nat /\ hi.reliable = hi.tasks /\ lo.reliable = lo.tasks
  BY <1>2
<1>4. Drop(rs, p) = hi.reliable * lo.tasks - lo.reliable * hi.tasks
  BY DEF Drop
<1> HIDE DEF hi, lo
<1>5. Drop(rs, p) = 0
  BY <1>3, <1>4
<1>6. QED
  BY <1>1, <1>5

LEMMA BelongHolds == IInv /\ CorpusInv => ReportsBelongTogether
<1> SUFFICES ASSUME IInv, CorpusInv PROVE ReportsBelongTogether
  OBVIOUS
<1>1. OwnAccounts
  BY AccountsHold
<1>2. ASSUME NEW f \in Readable
      PROVE  /\ CountsAddUp(Loaded(f))
             /\ f \in Gradient(Runs) => FinalCondition(Loaded(f)).reliable # Whole(Loaded(f))
             /\ last[f].how = "done" /\ last[f].k = K =>
                  /\ FinalCondition(Loaded(f)).status = "complete"
                  /\ FinalCondition(Loaded(f)).reliable = report[f].reliable
  <2> DEFINE rs == Loaded(f)
  <2>1. f \in Files /\ rs \in Seq(RunResult)
    BY LoadedRuns DEF Readable
  <2>2. Runs[f] = rs
    BY <2>1 DEF Runs
  <2>3. last[f].how = "done" => rs = results[f] /\ report[f] = BaselineReport(rs, last[f].k)
    BY <1>1 DEF OwnAccounts
  <2>4. CorpusRun(f)
    BY <2>1 DEF CorpusInv
  <2> HIDE DEF rs
  <2>5. FinalCondition(rs).reliable = ReliableTasks(rs) \cap Whole(rs)
        /\ FinalCondition(rs).status = FinalStatus(rs)
    BY DEF FinalCondition
  <2>6. ASSUME f \in Gradient(Runs) PROVE FinalCondition(rs).reliable # Whole(rs)
    <3>1. StrictDecrease(rs)
      BY <2>2, <2>6 DEF Gradient
    <3>2. QED
      BY <2>1, <2>5, <3>1, GradientShows
  <2>7. ASSUME last[f].how = "done", last[f].k = K
        PROVE  FinalCondition(rs).status = "complete" /\ FinalCondition(rs).reliable = report[f].reliable
    <3>1. K \in Nat /\ K > 0 /\ ExpectedN = Cardinality(Tasks)
      BY ReportsAssumption, CorpusFacts
    <3>2. /\ rs # <<>> /\ \A t \in TasksIn(rs) : RunsOf(rs, t) = K
          /\ Tasks \subseteq TasksIn(rs)
      BY <2>3, <2>4, <2>7, <3>1 DEF CorpusRun
    <3>3. Deficit(rs) = {}
      BY <3>1, <3>2 DEF Deficit
    <3>4. TasksIn(rs) = Tasks
      BY <2>1, <3>2, Places DEF TasksIn
    <3>5. Whole(rs) = Tasks
      BY <3>3, <3>4 DEF Whole
    <3>6. FinalStatus(rs) = "complete"
      BY <3>1, <3>2, <3>3, <3>5, StatusesAgree DEF Status
    <3>7. ReliableTasks(rs) \cap Whole(rs) = ReliableTasks(rs)
      BY <3>4, <3>5 DEF ReliableTasks
    <3>8. report[f].reliable = ReliableTasks(rs)
      BY <2>3, <2>7 DEF BaselineReport
    <3>9. QED
      BY <2>5, <3>6, <3>7, <3>8
  <2>8. QED
    BY <2>1, <2>6, <2>7, CountsAdd DEF rs
<1>3. QED
  BY <1>1, <1>2 DEF ReportsBelongTogether

\* Whatever the baselines and however they ended: for every file a report can
\* be made of, the headline, the breakdowns by capability, tier and failure
\* class, the taxonomy, the gradient and the account of the invocation that
\* wrote the file tell of the same runs.
THEOREM ReportsBelong == Spec => []ReportsBelongTogether
<1>1. QED
  BY Inductive, CorpusRuns, BelongHolds, PTL

-----------------------------------------------------------------------------
(* Re-pairing the labels of two raters.                                     *)

\* The re-pairing p with 1 exchanged for i where it asks and for j where it
\* answers.
Exchanged(n, i) == [x \in 1 .. n |-> IF x = 1 THEN i ELSE IF x = i THEN 1 ELSE x]
Moved(n, p, i, j) == [x \in 1 .. n |-> Exchanged(n, j)[p[Exchanged(n, i)[x]]]]

\* Exchanging twice changes nothing.
LEMMA ExchangedTwice ==
  ASSUME NEW n \in Nat \ {0}, NEW i \in 1 .. n
  PROVE  /\ Exchanged(n, i) \in [1 .. n -> 1 .. n]
         /\ \A x \in 1 .. n : Exchanged(n, i)[Exchanged(n, i)[x]] = x
         /\ Exchanged(n, i)[1] = i /\ Exchanged(n, i)[i] = 1 /\ 1 \in 1 .. n
<1>1. 1 \in 1 .. n
  OBVIOUS
<1>2. \A x \in 1 .. n : (IF x = 1 THEN i ELSE IF x = i THEN 1 ELSE x) \in 1 .. n
  BY <1>1
<1>3. Exchanged(n, i) \in [1 .. n -> 1 .. n]
  BY <1>2 DEF Exchanged
<1>4. \A x \in 1 .. n : Exchanged(n, i)[x] = IF x = 1 THEN i ELSE IF x = i THEN 1 ELSE x
  BY DEF Exchanged
<1>5. QED
  BY <1>1, <1>2, <1>3, <1>4

\* Exchanging is undone by exchanging again, and brings i and j to 1.
LEMMA MovedBack ==
  ASSUME NEW n \in Nat \ {0}, NEW p \in Repairings(n), NEW i \in 1 .. n, NEW j \in 1 .. n
  PROVE  /\ Moved(n, p, i, j) \in Repairings(n)
         /\ Moved(n, Moved(n, p, i, j), i, j) = p
         /\ p[i] = j => Moved(n, p, i, j)[1] = 1
         /\ p[1] = 1 => Moved(n, p, i, j)[i] = j
<1> DEFINE I == 1 .. n
           s == Exchanged(n, i)
           r == Exchanged(n, j)
           q == Moved(n, p, i, j)
<1>1. p \in [I -> I] /\ \A y \in I : \E x \in I : p[x] = y
  BY DEF Repairings
<1>2. /\ s \in [I -> I] /\ r \in [I -> I]
      /\ \A x \in I : s[s[x]] = x /\ r[r[x]] = x
      /\ s[1] = i /\ s[i] = 1 /\ r[1] = j /\ r[j] = 1 /\ 1 \in I
  BY ExchangedTwice
<1>3. q = [x \in I |-> r[p[s[x]]]]
  BY DEF Moved
<1>4. Moved(n, q, i, j) = [x \in I |-> r[q[s[x]]]]
  BY DEF Moved
<1>5. i \in I /\ j \in I
  OBVIOUS
<1> HIDE DEF I, s, r, q
<1>6. \A x \in I : s[x] \in I /\ r[x] \in I /\ p[x] \in I
  BY <1>1, <1>2
<1>7. q \in [I -> I] /\ \A x \in I : q[x] = r[p[s[x]]]
  BY <1>3, <1>6
<1>8. ASSUME NEW y \in I PROVE \E x \in I : q[x] = y
  <2>1. PICK z \in I : p[z] = r[y]
    BY <1>1, <1>6
  <2>2. s[z] \in I /\ s[s[z]] = z
    BY <1>2, <1>6
  <2>3. q[s[z]] = r[r[y]]
    BY <1>7, <2>1, <2>2
  <2>4. QED
    BY <1>2, <2>2, <2>3
<1>9. q \in Repairings(n)
  <2>1. {q[x] : x \in I} = I
    BY <1>7, <1>8
  <2>2. QED
    BY <1>7, <2>1 DEF Repairings, I
<1>10. ASSUME NEW x \in I PROVE r[q[s[x]]] = p[x]
  <2>1. s[x] \in I /\ s[s[x]] = x
    BY <1>2, <1>6
  <2>2. q[s[x]] = r[p[x]]
    BY <1>7, <2>1
  <2>3. QED
    BY <1>2, <1>6, <2>2
<1>11. Moved(n, q, i, j) = p
  BY <1>1, <1>4, <1>10
<1>12. p[i] = j => q[1] = 1
  BY <1>2, <1>7
<1>13. p[1] = 1 => q[i] = j
  BY <1>2, <1>5, <1>7
<1>14. QED
  BY <1>9, <1>11, <1>12, <1>13 DEF q

\* There are finitely many items, pairs and re-pairings.
LEMMA RepairingsFinite ==
  ASSUME NEW n \in Nat
  PROVE  /\ IsFiniteSet(1 .. n) /\ Cardinality(1 .. n) = n
         /\ IsFiniteSet((1 .. n) \X (1 .. n)) /\ Cardinality((1 .. n) \X (1 .. n)) = n * n
         /\ IsFiniteSet(Repairings(n))
<1>1. IsFiniteSet(1 .. n) /\ Cardinality(1 .. n) = n
  BY FS_Interval
<1> DEFINE I == 1 .. n
           square == I \X I
           graph == [p \in Repairings(n) |-> {<<i, p[i]>> : i \in I}]
<1>2. \A p \in Repairings(n) : p \in [I -> I]
  BY DEF Repairings
<1> HIDE DEF I
<1>3. IsFiniteSet(square) /\ Cardinality(square) = n * n
  BY <1>1, FS_Product DEF I
<1>4. IsFiniteSet(SUBSET square)
  BY <1>3, FS_SUBSET
<1>5. ASSUME NEW p \in Repairings(n) PROVE graph[p] \in SUBSET square
  <2>1. \A i \in I : p[i] \in I
    BY <1>2
  <2>2. QED
    BY <2>1
<1>6. ASSUME NEW p \in Repairings(n), NEW q \in Repairings(n), graph[p] = graph[q]
      PROVE  p = q
  <2>1. p \in [I -> I] /\ q \in [I -> I]
    BY <1>2
  <2>2. ASSUME NEW i \in I PROVE p[i] = q[i]
    <3>1. <<i, p[i]>> \in graph[p]
      OBVIOUS
    <3>2. PICK j \in I : <<i, p[i]>> = <<j, q[j]>>
      BY <1>6, <3>1
    <3>3. QED
      BY <3>2
  <2>3. QED
    BY <2>1, <2>2
<1> HIDE DEF square
<1>7. graph \in [Repairings(n) -> SUBSET square]
  BY <1>5
<1> HIDE DEF graph
<1>8. graph \in Injection(Repairings(n), SUBSET square)
  BY <1>6, <1>7 DEF Injection, IsInjective
<1>9. IsFiniteSet(Repairings(n))
  BY <1>4, <1>8, FS_Injection
<1>10. QED
  BY <1>1, <1>3, <1>9 DEF square, I

\* The marks of D a re-pairing meets, and the re-pairings that leave 1 where it is.
Meet(n, U, D, p) == {e \in (1 .. n) \X U : <<<<e[1], p[e[1]]>>, e[2]>> \in D}
Still(n) == {p \in Repairings(n) : p[1] = 1}

\* Over all re-pairings every mark of D is met equally often: as often as
\* there are re-pairings that leave 1 where it is.
LEMMA MeetingsCount ==
  ASSUME NEW n \in Nat \ {0}, NEW U, IsFiniteSet(U),
         NEW D \in SUBSET (((1 .. n) \X (1 .. n)) \X U)
  PROVE  /\ IsFiniteSet(D) /\ IsFiniteSet(Still(n))
         /\ Total([p \in Repairings(n) |-> Cardinality(Meet(n, U, D, p))]) =
              Cardinality(Still(n)) * Cardinality(D)
<1> DEFINE I == 1 .. n
           E == I \X U
           R == Repairings(n)
           C == Still(n)
           P == {t \in R \X E : <<<<t[2][1], t[1][t[2][1]]>>, t[2][2]>> \in D}
           move == [t \in P |-> <<Moved(n, t[1], t[2][1], t[1][t[2][1]]),
                                  <<<<t[2][1], t[1][t[2][1]]>>, t[2][2]>> >>]
           counts == [p \in R |-> Cardinality(Meet(n, U, D, p))]
<1>1. IsFiniteSet(D)
  <2>1. IsFiniteSet((1 .. n) \X (1 .. n))
    BY RepairingsFinite
  <2>2. IsFiniteSet(((1 .. n) \X (1 .. n)) \X U)
    BY <2>1, FS_Product
  <2>3. QED
    BY <2>2, FS_Subset
<1>2. IsFiniteSet(C)
  <2>1. C \in SUBSET R
    BY DEF Still
  <2>2. QED
    BY <2>1, RepairingsFinite, FS_Subset
<1>3. IsFiniteSet(C \X D) /\ Cardinality(C \X D) = Cardinality(C) * Cardinality(D)
  BY <1>1, <1>2, FS_Product
<1>4. ASSUME NEW t \in P
      PROVE  /\ t = <<t[1], t[2]>> /\ t[2] = <<t[2][1], t[2][2]>>
             /\ t[1] \in R /\ t[2] \in E /\ t[2][1] \in I /\ t[2][2] \in U
             /\ t[1][t[2][1]] \in I
             /\ <<<<t[2][1], t[1][t[2][1]]>>, t[2][2]>> \in D
  <2>1. t \in R \X E
    OBVIOUS
  <2>2. t[1] \in R /\ t[2] \in E /\ t = <<t[1], t[2]>>
    BY <2>1
  <2>3. t[2][1] \in I /\ t[2][2] \in U /\ t[2] = <<t[2][1], t[2][2]>>
    BY <2>2
  <2>4. t[1] \in [I -> I]
    BY <2>2 DEF Repairings
  <2>5. t[1][t[2][1]] \in I
    BY <2>3, <2>4
  <2>6. QED
    BY <2>2, <2>3, <2>5
<1>5. ASSUME NEW t \in P
      PROVE  /\ move[t] \in C \X D
             /\ move[t] = <<Moved(n, t[1], t[2][1], t[1][t[2][1]]),
                            <<<<t[2][1], t[1][t[2][1]]>>, t[2][2]>> >>
  <2>1. Moved(n, t[1], t[2][1], t[1][t[2][1]]) \in C
    BY <1>4, MovedBack DEF Still
  <2> HIDE DEF C, P
  <2>2. QED
    BY <1>4, <2>1
<1>6. ASSUME NEW t \in P, NEW u \in P, move[t] = move[u] PROVE t = u
  <2> HIDE DEF P, move
  <2>1. /\ t[2][1] = u[2][1] /\ t[1][t[2][1]] = u[1][u[2][1]] /\ t[2][2] = u[2][2]
        /\ Moved(n, t[1], t[2][1], t[1][t[2][1]]) = Moved(n, u[1], u[2][1], u[1][u[2][1]])
    BY <1>5, <1>6
  <2>2. ASSUME NEW v \in P
        PROVE  Moved(n, Moved(n, v[1], v[2][1], v[1][v[2][1]]), v[2][1], v[1][v[2][1]]) = v[1]
    <3>1. v[1] \in Repairings(n) /\ v[2][1] \in 1 .. n /\ v[1][v[2][1]] \in 1 .. n
      BY <1>4
    <3>2. QED
      BY <3>1, MovedBack
  <2>3. t[1] = u[1]
    BY <2>1, <2>2
  <2>4. QED
    BY <1>4, <2>1, <2>3
<1>7. ASSUME NEW g \in C \X D PROVE \E t \in P : move[t] = g
  <2> DEFINE i == g[2][1][1]
             j == g[2][1][2]
             u == g[2][2]
             q == Moved(n, g[1], i, j)
             t == <<q, <<i, u>> >>
  <2>1. g[1] \in C /\ g[2] \in D /\ g = <<g[1], g[2]>>
    OBVIOUS
  <2>2. g[2][1] \in I \X I /\ u \in U /\ g[2] = <<g[2][1], u>>
    BY <2>1
  <2>3. i \in I /\ j \in I /\ g[2][1] = <<i, j>>
    BY <2>2
  <2>4. g[1] \in R /\ g[1][1] = 1
    BY <2>1 DEF Still
  <2>5. q \in R /\ q[i] = j /\ Moved(n, q, i, j) = g[1]
    BY <2>3, <2>4, MovedBack
  <2> HIDE DEF i, j, u, q, C
  <2>6. t \in P
    BY <2>1, <2>2, <2>3, <2>5
  <2> HIDE DEF P
  <2>7. move[t] = <<Moved(n, q, i, j), <<<<i, j>>, u>> >>
    BY <2>5, <2>6
  <2>8. QED
    BY <2>1, <2>2, <2>3, <2>5, <2>6, <2>7
<1>8. ASSUME NEW p \in R PROVE counts[p] = Cardinality({t \in P : t[1] = p})
  <2> DEFINE M == Meet(n, U, D, p)
             Q == {t \in P : t[1] = p}
             second == [t \in Q |-> t[2]]
  <2>1. IsFiniteSet(M)
    <3>1. IsFiniteSet((1 .. n) \X U)
      BY RepairingsFinite, FS_Product
    <3>2. M \in SUBSET ((1 .. n) \X U)
      BY DEF Meet
    <3>3. QED
      BY <3>1, <3>2, FS_Subset
  <2>2. ASSUME NEW t \in Q PROVE second[t] \in M /\ t = <<p, second[t]>>
    <3>1. t \in P /\ t[1] = p
      OBVIOUS
    <3> HIDE DEF P
    <3>2. t = <<p, t[2]>>
      BY <1>4, <3>1
    <3>3. t[2] \in E /\ <<<<t[2][1], p[t[2][1]]>>, t[2][2]>> \in D
      BY <1>4, <3>1
    <3>4. t[2] \in M
      BY <3>3 DEF Meet
    <3>5. second[t] = t[2]
      OBVIOUS
    <3>6. QED
      BY <3>2, <3>4, <3>5
  <2>3. ASSUME NEW e \in M PROVE <<p, e>> \in Q /\ second[<<p, e>>] = e
    BY DEF Meet
  <2> HIDE DEF M, Q
  <2>4. second \in [Q -> M]
    BY <2>2
  <2> HIDE DEF second
  <2>5. \A t, u \in Q : second[t] = second[u] => t = u
    BY <2>2
  <2>6. \A e \in M : \E t \in Q : second[t] = e
    BY <2>3
  <2>7. Cardinality(Q) = Cardinality(M)
    BY <2>1, <2>4, <2>5, <2>6, SameSize
  <2>8. QED
    BY <2>7 DEF Q, M
<1>9. DOMAIN counts = R
  OBVIOUS
<1>10. [t \in P |-> t[1]] \in [P -> R]
  BY <1>4
<1> DEFINE key == [t \in P |-> t[1]]
<1>11. \A t \in P : key[t] = t[1]
  OBVIOUS
<1>12. move \in [P -> C \X D]
  BY <1>5
<1> HIDE DEF P, move, counts, key, C, R
<1>13. IsFiniteSet(P) /\ Cardinality(P) = Cardinality(C \X D)
  BY <1>3, <1>6, <1>7, <1>12, SameSize
<1>14. ASSUME NEW p \in DOMAIN counts PROVE counts[p] = Cardinality({t \in P : key[t] = p})
  <2>1. {t \in P : key[t] = p} = {t \in P : t[1] = p}
    BY <1>11
  <2>2. QED
    BY <1>8, <1>9, <2>1
<1>15. key \in [P -> DOMAIN counts]
  BY <1>9, <1>10 DEF key
<1>16. Total(counts) = Cardinality(P)
  BY <1>13, <1>14, <1>15, SumOfParts
<1>17. Total(counts) = Cardinality(C) * Cardinality(D)
  BY <1>3, <1>13, <1>16
<1>18. QED
  BY <1>1, <1>2, <1>17 DEF counts, C, R

\* Where 1 goes tells n classes of re-pairings apart, all of one size.
LEMMA RepairingsByFirst ==
  ASSUME NEW n \in Nat \ {0}
  PROVE  Cardinality(Repairings(n)) = Cardinality(Still(n)) * n
<1> DEFINE I == 1 .. n
           R == Repairings(n)
           U == {1}
           D == {d \in (I \X I) \X U : d[1][1] = 1}
           ones == [p \in R |-> Cardinality(Meet(n, U, D, p))]
           same == [p \in R |-> p]
           second == [d \in D |-> d[1][2]]
<1>1. \A d \in D : d = <<<<1, d[1][2]>>, 1>> /\ d[1][2] \in I
  OBVIOUS
<1>2. \A j \in I : <<<<1, j>>, 1>> \in D
  OBVIOUS
<1>3. D \in SUBSET (((1 .. n) \X (1 .. n)) \X U)
  OBVIOUS
<1> HIDE DEF D
<1>4. Cardinality(D) = n
  <2>1. second \in [D -> I] /\ \A d \in D : second[d] = d[1][2]
    BY <1>1
  <2>2. \A j \in I : second[<<<<1, j>>, 1>>] = j
    BY <1>2
  <2> HIDE DEF second
  <2>3. \A d, e \in D : second[d] = second[e] => d = e
    BY <1>1, <2>1
  <2>4. \A j \in I : \E d \in D : second[d] = j
    BY <1>2, <2>2
  <2>5. IsFiniteSet(I) /\ Cardinality(I) = n
    BY RepairingsFinite
  <2> HIDE DEF I
  <2>6. Cardinality(D) = Cardinality(I)
    BY <2>1, <2>3, <2>4, <2>5, SameSize
  <2>7. QED
    BY <2>5, <2>6
<1>5. IsFiniteSet(U)
  BY FS_Singleton
<1>6. Total(ones) = Cardinality(Still(n)) * n
  <2> HIDE DEF U
  <2>1. Total([p \in Repairings(n) |-> Cardinality(Meet(n, U, D, p))]) =
          Cardinality(Still(n)) * Cardinality(D)
    BY <1>3, <1>5, MeetingsCount
  <2>2. QED
    BY <1>4, <2>1
<1>7. ASSUME NEW p \in R PROVE ones[p] = 1
  <2>1. p \in [I -> I] /\ 1 \in I
    BY DEF Repairings
  <2>2. p[1] \in I
    BY <2>1
  <2>3. Meet(n, U, D, p) = {<<1, 1>>}
    <3>1. ASSUME NEW e \in Meet(n, U, D, p) PROVE e = <<1, 1>>
      <4>1. e \in I \X U /\ <<<<e[1], p[e[1]]>>, e[2]>> \in D
        BY DEF Meet
      <4>2. e[1] = 1
        BY <1>1, <4>1
      <4>3. QED
        BY <4>1, <4>2
    <3>2. <<1, 1>> \in Meet(n, U, D, p)
      BY <1>2, <2>1, <2>2 DEF Meet
    <3>3. QED
      BY <3>1, <3>2
  <2>4. ones[p] = Cardinality({<<1, 1>>})
    BY <2>3
  <2>5. QED
    BY <2>4, FS_Singleton
<1>8. /\ DOMAIN ones = R /\ same \in [R -> R] /\ \A p \in R : same[p] = p
  OBVIOUS
<1>9. IsFiniteSet(R)
  BY RepairingsFinite
<1> HIDE DEF ones, R, same
<1>10. ASSUME NEW p \in DOMAIN ones PROVE ones[p] = Cardinality({q \in R : same[q] = p})
  <2>1. {q \in R : same[q] = p} = {p}
    BY <1>8
  <2>2. QED
    BY <1>7, <1>8, <2>1, FS_Singleton
<1>11. Total(ones) = Cardinality(R)
  BY <1>8, <1>9, <1>10, SumOfParts
<1>12. QED
  BY <1>6, <1>11 DEF R

\* So the marks met over all re-pairings are, on average, a share of 1 in n.
LEMMA MeanOverRepairings ==
  ASSUME NEW n \in Nat \ {0}, NEW U, IsFiniteSet(U),
         NEW D \in SUBSET (((1 .. n) \X (1 .. n)) \X U)
  PROVE  Total([p \in Repairings(n) |-> Cardinality(Meet(n, U, D, p))]) * n =
           Cardinality(Repairings(n)) * Cardinality(D)
<1> DEFINE t == Total([p \in Repairings(n) |-> Cardinality(Meet(n, U, D, p))])
           c == Cardinality(Still(n))
           d == Cardinality(D)
           r == Cardinality(Repairings(n))
<1>1. t = c * d /\ c \in Nat /\ d \in Nat
  BY MeetingsCount, FS_CardinalityType
<1>2. r = c * n
  BY RepairingsByFirst
<1> HIDE DEF t, c, d, r
<1>3. (c * d) * n = (c * n) * d
  BY <1>1
<1>4. t * n = r * d
  BY <1>1, <1>2, <1>3
<1>5. QED
  BY <1>4 DEF t, r, d

\* Two raters' labels of the same items, 1 .. n, out of 1 .. c.
Labelling(n, c) == [1 .. n -> 1 .. c]

\* What is observed is the items the two meet at, what is expected the pairs.
Agreeing(n, a, b) == {d \in ((1 .. n) \X (1 .. n)) \X {1} : a[d[1][1]] = b[d[1][2]]}

\* What two raters agree on after a re-pairing.
LEMMA ObservedMeet ==
  ASSUME NEW n \in Nat \ {0}, NEW c, NEW a \in Labelling(n, c), NEW b \in Labelling(n, c),
         NEW p \in Repairings(n)
  PROVE  Observed(a, Repaired(b, p)) = Cardinality(Meet(n, {1}, Agreeing(n, a, b), p))
<1> DEFINE I == 1 .. n
           O == {i \in I : a[i] = b[p[i]]}
<1>1. p \in [I -> I] /\ DOMAIN a = I /\ DOMAIN b = I
  BY DEF Repairings, Labelling
<1>2. \A i \in I : Repaired(b, p)[i] = b[p[i]]
  BY <1>1 DEF Repaired
<1>3. Observed(a, Repaired(b, p)) = Cardinality(O)
  <2>1. {i \in DOMAIN a : a[i] = Repaired(b, p)[i]} = O
    BY <1>1, <1>2
  <2>2. QED
    BY <2>1 DEF Observed
<1>4. Meet(n, {1}, Agreeing(n, a, b), p) = O \X {1}
  BY <1>1 DEF Meet, Agreeing
<1>5. IsFiniteSet(O) /\ IsFiniteSet({1}) /\ Cardinality({1}) = 1 /\ Cardinality(O) \in Nat
  BY RepairingsFinite, FS_Subset, FS_Singleton, FS_CardinalityType
<1> HIDE DEF O
<1>6. Cardinality(O \X {1}) = Cardinality(O) * 1
  BY <1>5, FS_Product
<1>7. Cardinality(O \X {1}) = Cardinality(O)
  BY <1>5, <1>6
<1>8. Cardinality(Meet(n, {1}, Agreeing(n, a, b), p)) = Cardinality(O)
  BY <1>4, <1>7
<1>9. QED
  BY <1>3, <1>8

\* The items a rater gave the label x.
Given(n, a, x) == {i \in 1 .. n : a[i] = x}

\* A rater gives a label to finitely many items.
LEMMA GivenCounted ==
  ASSUME NEW n \in Nat, NEW c, NEW a \in Labelling(n, c), NEW x
  PROVE  /\ IsFiniteSet(Given(n, a, x)) /\ Count(a, x) \in Nat
         /\ Count(a, x) = Cardinality(Given(n, a, x))
<1>1. Given(n, a, x) \in SUBSET (1 .. n)
  BY DEF Given
<1>2. IsFiniteSet(Given(n, a, x))
  BY <1>1, RepairingsFinite, FS_Subset
<1>3. Count(a, x) = Cardinality(Given(n, a, x))
  BY DEF Count, Labelling, Given
<1>4. QED
  BY <1>2, <1>3, FS_CardinalityType

\* The pairs of an item of a's and one of b's that got the same label.
AgreeingPairs(n, a, b) == {q \in (1 .. n) \X (1 .. n) : a[q[1]] = b[q[2]]}

\* What is expected, times n squared, is the number of agreeing pairs.
LEMMA ExpectedCounts ==
  ASSUME NEW n \in Nat, NEW c, NEW a \in Labelling(n, c), NEW b \in Labelling(n, c)
  PROVE  /\ Expected(a, b) = Cardinality(AgreeingPairs(n, a, b))
         /\ IsFiniteSet(AgreeingPairs(n, a, b))
<1> DEFINE I == 1 .. n
           S == AgreeingPairs(n, a, b)
           L == LabelsOf(a, b)
           counts == [x \in L |-> Count(a, x) * Count(b, x)]
           key == [q \in S |-> a[q[1]]]
<1>1. DOMAIN a = I /\ DOMAIN b = I
  BY DEF Labelling
<1>2. IsFiniteSet(S)
  BY RepairingsFinite, FS_Subset DEF AgreeingPairs
<1>3. ASSUME NEW x \in L PROVE counts[x] = Cardinality({q \in S : key[q] = x})
  <2>1. {q \in S : key[q] = x} = Given(n, a, x) \X Given(n, b, x)
    BY DEF AgreeingPairs, Given
  <2>2. counts[x] = Count(a, x) * Count(b, x)
    OBVIOUS
  <2> HIDE DEF S, key, counts
  <2>3. /\ IsFiniteSet(Given(n, a, x)) /\ Count(a, x) = Cardinality(Given(n, a, x))
        /\ IsFiniteSet(Given(n, b, x)) /\ Count(b, x) = Cardinality(Given(n, b, x))
    BY GivenCounted
  <2>4. Cardinality(Given(n, a, x) \X Given(n, b, x)) =
          Cardinality(Given(n, a, x)) * Cardinality(Given(n, b, x))
    BY <2>3, FS_Product
  <2>5. QED
    BY <2>1, <2>2, <2>3, <2>4
<1>4. key \in [S -> L]
  BY <1>1 DEF AgreeingPairs, LabelsOf
<1>5. DOMAIN counts = L
  OBVIOUS
<1>6. Expected(a, b) = Total(counts)
  BY DEF Expected
<1> HIDE DEF S, L, key, counts
<1>7. Total(counts) = Cardinality(S)
  BY <1>2, <1>3, <1>4, <1>5, SumOfParts
<1>8. QED
  BY <1>2, <1>6, <1>7 DEF S

LEMMA ExpectedAgreeing ==
  ASSUME NEW n \in Nat \ {0}, NEW c, NEW a \in Labelling(n, c), NEW b \in Labelling(n, c)
  PROVE  Expected(a, b) = Cardinality(Agreeing(n, a, b))
<1> DEFINE S == AgreeingPairs(n, a, b)
<1>1. Agreeing(n, a, b) = S \X {1}
  BY DEF Agreeing, AgreeingPairs
<1>2. IsFiniteSet(S) /\ Expected(a, b) = Cardinality(S) /\ Cardinality(S) \in Nat
  BY ExpectedCounts, FS_CardinalityType
<1>3. IsFiniteSet({1}) /\ Cardinality({1}) = 1
  BY FS_Singleton
<1> HIDE DEF S
<1>4. Cardinality(S \X {1}) = Cardinality(S) * 1
  BY <1>2, <1>3, FS_Product
<1>5. QED
  BY <1>1, <1>2, <1>4

\* What is expected is the mean over the re-pairings.
LEMMA ExpectedIsMeanPlain ==
  ASSUME NEW n \in Nat \ {0}, NEW c, NEW a \in Labelling(n, c), NEW b \in Labelling(n, c)
  PROVE  Total([p \in Repairings(n) |-> Observed(a, Repaired(b, p))]) * n =
           Cardinality(Repairings(n)) * Expected(a, b)
<1> DEFINE D == Agreeing(n, a, b)
           R == Repairings(n)
<1>1. [p \in R |-> Observed(a, Repaired(b, p))] = [p \in R |-> Cardinality(Meet(n, {1}, D, p))]
  BY ObservedMeet
<1>2. D \in SUBSET (((1 .. n) \X (1 .. n)) \X {1})
  BY DEF Agreeing
<1>3. IsFiniteSet({1})
  BY FS_Singleton
<1> HIDE DEF D
<1>4. Total([p \in Repairings(n) |-> Cardinality(Meet(n, {1}, D, p))]) * n =
        Cardinality(Repairings(n)) * Cardinality(D)
  BY <1>2, <1>3, MeanOverRepairings
<1>5. Expected(a, b) = Cardinality(D)
  BY ExpectedAgreeing DEF D
<1>6. QED
  BY <1>1, <1>4, <1>5

-----------------------------------------------------------------------------
(* The same with weights.                                                   *)

\* The marks a pair of labels can be given, and those it is given.
Room(c) == 1 .. ((c - 1) * (c - 1))
Weighed(x, y, c) == 1 .. Weight(x, y, c)

\* A weight is a number from 0 to (c - 1) squared.
LEMMA WeighedCounted ==
  ASSUME NEW c \in Nat \ {0}, NEW x \in 1 .. c, NEW y \in 1 .. c
  PROVE  /\ Weight(x, y, c) \in Nat /\ Weighed(x, y, c) \subseteq Room(c)
         /\ IsFiniteSet(Weighed(x, y, c)) /\ Cardinality(Weighed(x, y, c)) = Weight(x, y, c)
         /\ \A u \in Room(c) : u \in Weighed(x, y, c) <=> u <= Weight(x, y, c)
         /\ IsFiniteSet(Room(c))
<1> DEFINE m == c - 1
           d == x - y
           w == Weight(x, y, c)
           s == d * d
           t == m * m
<1>1. m \in Nat /\ d \in Int /\ d <= m /\ -m <= d
  OBVIOUS
<1>2. w = t - s
  BY DEF Weight
<1> HIDE DEF m, d
<1>3. s \in Int /\ t \in Int
  BY <1>1
<1>4. m - d \in Nat /\ m + d \in Nat
  BY <1>1
<1>5. t - s = (m - d) * (m + d)
  BY <1>1
<1>6. (m - d) * (m + d) \in Nat
  BY <1>4
<1>7. s >= 0
  BY <1>1
<1> HIDE DEF w, s, t
<1>8. w \in Nat /\ w <= t
  BY <1>2, <1>3, <1>5, <1>6, <1>7
<1>9. IsFiniteSet(1 .. w) /\ Cardinality(1 .. w) = w
  BY <1>8, RepairingsFinite
<1>10. IsFiniteSet(1 .. t)
  BY <1>3, FS_Interval
<1>11. 1 .. w \subseteq 1 .. t /\ \A u \in 1 .. t : u \in 1 .. w <=> u <= w
  BY <1>3, <1>8
<1>12. Weighed(x, y, c) = 1 .. w /\ Room(c) = 1 .. t
  BY DEF Weighed, Room, w, t, m
<1>13. QED
  BY <1>8, <1>9, <1>10, <1>11, <1>12 DEF w

\* An item or a pair with the marks its labels are given.
Marked(n, a, b, c) == {e \in (1 .. n) \X Room(c) : e[2] <= Weight(a[e[1]], b[e[1]], c)}
Heavy(n, a, b, c) ==
  {d \in ((1 .. n) \X (1 .. n)) \X Room(c) : d[2] <= Weight(a[d[1][1]], b[d[1][2]], c)}

\* The items the raters gave x and y.
GivenBoth(n, a, b, x, y) == {i \in 1 .. n : a[i] = x /\ b[i] = y}

\* The weighted agreement is the marks of the items.
LEMMA WeightedObservedMarks ==
  ASSUME NEW n \in Nat, NEW c \in Nat \ {0},
         NEW a \in Labelling(n, c), NEW b \in Labelling(n, c)
  PROVE  WeightedObserved(a, b, c) = Cardinality(Marked(n, a, b, c))
<1> DEFINE I == 1 .. n
           S == Marked(n, a, b, c)
           L == {<<a[i], b[i]>> : i \in DOMAIN a}
           counts == [q \in L |-> Weight(q[1], q[2], c) * Cell(a, b, q[1], q[2])]
           key == [e \in S |-> <<a[e[1]], b[e[1]]>>]
<1>1. /\ DOMAIN a = I /\ DOMAIN b = I
      /\ \A i \in I : a[i] \in 1 .. c /\ b[i] \in 1 .. c
  BY DEF Labelling
<1>2. IsFiniteSet(S)
  <2>1. 1 \in 1 .. c
    OBVIOUS
  <2>2. IsFiniteSet(I) /\ IsFiniteSet(Room(c))
    BY <2>1, RepairingsFinite, WeighedCounted
  <2>3. IsFiniteSet(I \X Room(c))
    BY <2>2, FS_Product
  <2>4. S \in SUBSET (I \X Room(c))
    BY DEF Marked
  <2>5. QED
    BY <2>3, <2>4, FS_Subset
<1>3. ASSUME NEW q \in L PROVE counts[q] = Cardinality({e \in S : key[e] = q})
  <2> DEFINE B == GivenBoth(n, a, b, q[1], q[2])
             W == Weighed(q[1], q[2], c)
  <2>1. q = <<q[1], q[2]>> /\ q[1] \in 1 .. c /\ q[2] \in 1 .. c
    BY <1>1
  <2>2. /\ W \subseteq Room(c) /\ IsFiniteSet(W) /\ Cardinality(W) = Weight(q[1], q[2], c)
        /\ \A u \in Room(c) : u \in W <=> u <= Weight(q[1], q[2], c)
        /\ Weight(q[1], q[2], c) \in Nat
    BY <2>1, WeighedCounted
  <2>3. ASSUME NEW e
        PROVE  e \in {f \in S : key[f] = q} <=> e \in B \X W
    <3> HIDE DEF W
    <3>1. ASSUME e \in S, key[e] = q PROVE e \in B \X W
      <4>1. e \in I \X Room(c) /\ e[2] <= Weight(a[e[1]], b[e[1]], c)
        BY <3>1 DEF Marked
      <4>2. a[e[1]] = q[1] /\ b[e[1]] = q[2]
        BY <2>1, <3>1
      <4>3. e[1] \in B
        BY <4>1, <4>2 DEF GivenBoth
      <4>4. e[2] \in W
        BY <2>2, <4>1, <4>2
      <4>5. QED
        BY <4>1, <4>3, <4>4
    <3>2. ASSUME e \in B \X W PROVE e \in S /\ key[e] = q
      <4>1. e[1] \in I /\ a[e[1]] = q[1] /\ b[e[1]] = q[2] /\ e[2] \in W /\ e = <<e[1], e[2]>>
        BY <3>2 DEF GivenBoth
      <4>2. e[2] \in Room(c) /\ e[2] <= Weight(q[1], q[2], c)
        BY <2>2, <4>1
      <4>3. e \in S
        BY <4>1, <4>2 DEF Marked
      <4> HIDE DEF S
      <4>4. QED
        BY <2>1, <4>1, <4>3
    <3> HIDE DEF B, S, key
    <3>3. QED
      BY <3>1, <3>2
  <2>4. B \in SUBSET I
    BY DEF GivenBoth
  <2>5. IsFiniteSet(B) /\ Cardinality(B) \in Nat
    BY <2>4, RepairingsFinite, FS_Subset, FS_CardinalityType
  <2>6. Cell(a, b, q[1], q[2]) = Cardinality(B)
    BY <1>1 DEF Cell, GivenBoth
  <2>7. counts[q] = Weight(q[1], q[2], c) * Cell(a, b, q[1], q[2])
    OBVIOUS
  <2> HIDE DEF S, L, B, W, counts, key
  <2>8. Cardinality(B \X W) = Cardinality(B) * Cardinality(W)
    BY <2>2, <2>5, FS_Product
  <2>9. {e \in S : key[e] = q} = B \X W
    BY <2>3
  <2>10. Cardinality({e \in S : key[e] = q}) = Cell(a, b, q[1], q[2]) * Weight(q[1], q[2], c)
    BY <2>2, <2>6, <2>8, <2>9
  <2>11. \A x, w \in Nat : x * w = w * x
    OBVIOUS
  <2>12. Cell(a, b, q[1], q[2]) \in Nat
    BY <2>5, <2>6
  <2>13. QED
    BY <2>2, <2>7, <2>10, <2>11, <2>12
<1>4. key \in [S -> L]
  BY <1>1 DEF Marked
<1>5. DOMAIN counts = L
  OBVIOUS
<1>6. WeightedObserved(a, b, c) = Total(counts)
  BY DEF WeightedObserved
<1> HIDE DEF S, L, key, counts
<1>7. Total(counts) = Cardinality(S)
  BY <1>2, <1>3, <1>4, <1>5, SumOfParts
<1>8. QED
  BY <1>6, <1>7 DEF S

\* The weighted expectation is the marks of the pairs.
LEMMA WeightedExpectedMarks ==
  ASSUME NEW n \in Nat, NEW c \in Nat \ {0},
         NEW a \in Labelling(n, c), NEW b \in Labelling(n, c)
  PROVE  WeightedExpected(a, b, c) = Cardinality(Heavy(n, a, b, c))
<1> DEFINE I == 1 .. n
           S == Heavy(n, a, b, c)
           L == (1 .. c) \X (1 .. c)
           counts == [q \in L |-> Weight(q[1], q[2], c) * Count(a, q[1]) * Count(b, q[2])]
           key == [d \in S |-> <<a[d[1][1]], b[d[1][2]]>>]
<1>1. /\ DOMAIN a = I /\ DOMAIN b = I
      /\ \A i \in I : a[i] \in 1 .. c /\ b[i] \in 1 .. c
  BY DEF Labelling
<1>2. IsFiniteSet(S)
  <2>1. 1 \in 1 .. c
    OBVIOUS
  <2>2. IsFiniteSet(I \X I) /\ IsFiniteSet(Room(c))
    BY <2>1, RepairingsFinite, WeighedCounted
  <2>3. IsFiniteSet((I \X I) \X Room(c))
    BY <2>2, FS_Product
  <2>4. S \in SUBSET ((I \X I) \X Room(c))
    BY DEF Heavy
  <2>5. QED
    BY <2>3, <2>4, FS_Subset
<1>3. ASSUME NEW q \in L PROVE counts[q] = Cardinality({d \in S : key[d] = q})
  <2> DEFINE A == Given(n, a, q[1])
             B == Given(n, b, q[2])
             W == Weighed(q[1], q[2], c)
  <2>1. q = <<q[1], q[2]>> /\ q[1] \in 1 .. c /\ q[2] \in 1 .. c
    OBVIOUS
  <2>2. /\ W \subseteq Room(c) /\ IsFiniteSet(W) /\ Cardinality(W) = Weight(q[1], q[2], c)
        /\ \A u \in Room(c) : u \in W <=> u <= Weight(q[1], q[2], c)
        /\ Weight(q[1], q[2], c) \in Nat
    BY <2>1, WeighedCounted
  <2>3. ASSUME NEW d
        PROVE  d \in {e \in S : key[e] = q} <=> d \in (A \X B) \X W
    <3> HIDE DEF W
    <3>1. ASSUME d \in S, key[d] = q PROVE d \in (A \X B) \X W
      <4>1. d \in (I \X I) \X Room(c) /\ d[2] <= Weight(a[d[1][1]], b[d[1][2]], c)
        BY <3>1 DEF Heavy
      <4>2. a[d[1][1]] = q[1] /\ b[d[1][2]] = q[2]
        BY <2>1, <3>1
      <4>3. d[1][1] \in A /\ d[1][2] \in B /\ d[1] = <<d[1][1], d[1][2]>>
        BY <4>1, <4>2 DEF Given
      <4>4. d[2] \in W /\ d = <<d[1], d[2]>>
        BY <2>2, <4>1, <4>2
      <4> HIDE DEF A, B
      <4>5. d[1] \in A \X B
        BY <4>3
      <4>6. QED
        BY <4>4, <4>5
    <3>2. ASSUME d \in (A \X B) \X W PROVE d \in S /\ key[d] = q
      <4>1. d[1] \in A \X B /\ d[2] \in W /\ d = <<d[1], d[2]>>
        BY <3>2
      <4>2. /\ d[1][1] \in I /\ a[d[1][1]] = q[1] /\ d[1][2] \in I /\ b[d[1][2]] = q[2]
            /\ d[1] \in I \X I
        BY <4>1 DEF Given
      <4>3. d[2] \in Room(c) /\ d[2] <= Weight(q[1], q[2], c)
        BY <2>2, <4>1
      <4>4. d \in (I \X I) \X Room(c)
        BY <4>1, <4>2, <4>3
      <4>5. d \in S
        BY <4>2, <4>3, <4>4 DEF Heavy
      <4> HIDE DEF S
      <4>6. QED
        BY <2>1, <4>2, <4>5
    <3> HIDE DEF A, B, S, key
    <3>3. QED
      BY <3>1, <3>2
  <2>4. counts[q] = Weight(q[1], q[2], c) * Count(a, q[1]) * Count(b, q[2])
    OBVIOUS
  <2>5. /\ IsFiniteSet(A) /\ Count(a, q[1]) = Cardinality(A) /\ Count(a, q[1]) \in Nat
        /\ IsFiniteSet(B) /\ Count(b, q[2]) = Cardinality(B) /\ Count(b, q[2]) \in Nat
    BY GivenCounted
  <2> HIDE DEF S, L, A, B, W, counts, key
  <2>6. IsFiniteSet(A \X B) /\ Cardinality(A \X B) = Cardinality(A) * Cardinality(B)
    BY <2>5, FS_Product
  <2>7. Cardinality((A \X B) \X W) = Cardinality(A \X B) * Cardinality(W)
    BY <2>2, <2>6, FS_Product
  <2>8. {d \in S : key[d] = q} = (A \X B) \X W
    BY <2>3
  <2>9. Cardinality({d \in S : key[d] = q}) =
          Count(a, q[1]) * Count(b, q[2]) * Weight(q[1], q[2], c)
    BY <2>2, <2>5, <2>6, <2>7, <2>8
  <2>10. \A x, y, w \in Nat : x * y * w = w * x * y
    OBVIOUS
  <2>11. QED
    BY <2>2, <2>4, <2>5, <2>9, <2>10
<1>4. key \in [S -> L]
  BY <1>1 DEF Heavy
<1>5. DOMAIN counts = L
  OBVIOUS
<1>6. WeightedExpected(a, b, c) = Total(counts)
  BY DEF WeightedExpected
<1> HIDE DEF S, L, key, counts
<1>7. Total(counts) = Cardinality(S)
  BY <1>2, <1>3, <1>4, <1>5, SumOfParts
<1>8. QED
  BY <1>6, <1>7 DEF S

LEMMA RepairedLabels ==
  ASSUME NEW n, NEW c, NEW b \in Labelling(n, c), NEW p \in Repairings(n)
  PROVE  /\ Repaired(b, p) \in Labelling(n, c)
         /\ \A i \in 1 .. n : Repaired(b, p)[i] = b[p[i]] /\ p[i] \in 1 .. n
<1>1. p \in [1 .. n -> 1 .. n] /\ DOMAIN b = 1 .. n
  BY DEF Repairings, Labelling
<1>2. \A i \in 1 .. n : p[i] \in 1 .. n /\ b[p[i]] \in 1 .. c
  BY <1>1 DEF Labelling
<1>3. QED
  BY <1>1, <1>2 DEF Repaired, Labelling

\* What is expected with weights is the mean over the re-pairings.
LEMMA ExpectedIsMeanWeighted ==
  ASSUME NEW n \in Nat \ {0}, NEW c \in Nat \ {0},
         NEW a \in Labelling(n, c), NEW b \in Labelling(n, c)
  PROVE  Total([p \in Repairings(n) |-> WeightedObserved(a, Repaired(b, p), c)]) * n =
           Cardinality(Repairings(n)) * WeightedExpected(a, b, c)
<1> DEFINE D == Heavy(n, a, b, c)
           R == Repairings(n)
           U == Room(c)
<1>1. ASSUME NEW p \in R
      PROVE  WeightedObserved(a, Repaired(b, p), c) = Cardinality(Meet(n, U, D, p))
  <2>1. Repaired(b, p) \in Labelling(n, c)
    BY RepairedLabels
  <2>2. WeightedObserved(a, Repaired(b, p), c) = Cardinality(Marked(n, a, Repaired(b, p), c))
    BY <2>1, WeightedObservedMarks
  <2>3. \A i \in 1 .. n : Repaired(b, p)[i] = b[p[i]] /\ p[i] \in 1 .. n
    BY RepairedLabels
  <2>4. Marked(n, a, Repaired(b, p), c) = Meet(n, U, D, p)
    BY <2>3 DEF Marked, Meet, Heavy
  <2>5. QED
    BY <2>2, <2>4
<1>2. D \in SUBSET (((1 .. n) \X (1 .. n)) \X U)
  BY DEF Heavy
<1>3. IsFiniteSet(U)
  <2>1. 1 \in 1 .. c
    OBVIOUS
  <2>2. QED
    BY <2>1, WeighedCounted
<1>4. [p \in R |-> WeightedObserved(a, Repaired(b, p), c)] =
        [p \in R |-> Cardinality(Meet(n, U, D, p))]
  BY <1>1
<1> HIDE DEF D, U
<1>5. Total([p \in Repairings(n) |-> Cardinality(Meet(n, U, D, p))]) * n =
        Cardinality(Repairings(n)) * Cardinality(D)
  BY <1>2, <1>3, MeanOverRepairings
<1>6. WeightedExpected(a, b, c) = Cardinality(D)
  BY WeightedExpectedMarks DEF D
<1>7. QED
  BY <1>4, <1>5, <1>6

-----------------------------------------------------------------------------
(* Kappa.                                                                   *)

LEMMA LabellingFacts ==
  ASSUME NEW n \in Nat \ {0}, NEW c, NEW a \in Labelling(n, c)
  PROVE  /\ Len(a) = n /\ DOMAIN a = 1 .. n /\ 1 \in 1 .. n
         /\ \A i \in 1 .. n : a[i] \in 1 .. c
<1>1. a \in [1 .. n -> 1 .. c]
  BY DEF Labelling
<1>2. a \in Seq(1 .. c)
  BY <1>1, SeqDef
<1> DEFINE m == Len(a)
<1>3. m \in Nat /\ DOMAIN a = 1 .. m
  BY <1>2, LenProperties
<1> HIDE DEF m
<1>4. 1 .. m = 1 .. n
  BY <1>1, <1>3
<1>5. \A x \in Nat : (x \in 1 .. m) <=> (x \in 1 .. n)
  BY <1>4
<1>6. n \in 1 .. n /\ 1 \in 1 .. n
  OBVIOUS
<1>7. n <= m /\ 1 <= m
  BY <1>3, <1>5, <1>6
<1>8. m <= n
  BY <1>3, <1>5, <1>7
<1>9. m = n
  BY <1>3, <1>7, <1>8
<1>10. QED
  BY <1>1, <1>6, <1>9 DEF m

\* One label it is where every item of the one is labelled as every item of
\* the other.
LEMMA OneLabelMeans ==
  ASSUME NEW n \in Nat \ {0}, NEW c, NEW a \in Labelling(n, c), NEW b \in Labelling(n, c)
  PROVE  OneLabel(a, b) <=> \A i, j \in 1 .. n : a[i] = b[j]
<1> DEFINE L == LabelsOf(a, b)
<1>1. /\ DOMAIN a = 1 .. n /\ DOMAIN b = 1 .. n /\ 1 \in 1 .. n
      /\ \A i \in 1 .. n : a[i] \in 1 .. c /\ b[i] \in 1 .. c
  BY LabellingFacts
<1>2. L = {a[i] : i \in 1 .. n} \cup {b[i] : i \in 1 .. n}
  BY <1>1 DEF LabelsOf
<1> HIDE DEF L
<1>3. ASSUME OneLabel(a, b), NEW i \in 1 .. n, NEW j \in 1 .. n PROVE a[i] = b[j]
  <2>1. Cardinality(L) = 1
    BY <1>3 DEF OneLabel, L
  <2> DEFINE R == L
  <2>2. IsFiniteSet(L)
    <3> DEFINE f == [q \in 1 .. n + n |-> IF q <= n THEN a[q] ELSE b[q - n]]
    <3>1. ASSUME NEW q \in 1 .. n + n PROVE f[q] \in L
      <4>1. CASE q <= n
        BY <1>2, <4>1
      <4>2. CASE q > n
        <5>1. q - n \in 1 .. n
          BY <4>2
        <5>2. QED
          BY <1>2, <4>2, <5>1
      <4>3. QED
        BY <4>1, <4>2
    <3>2. ASSUME NEW x \in L PROVE \E q \in 1 .. n + n : f[q] = x
      <4>1. CASE \E h \in 1 .. n : x = a[h]
        <5>1. PICK h \in 1 .. n : x = a[h]
          BY <4>1
        <5>2. h \in 1 .. n + n /\ h <= n
          OBVIOUS
        <5>3. QED
          BY <5>1, <5>2
      <4>2. CASE \E h \in 1 .. n : x = b[h]
        <5>1. PICK h \in 1 .. n : x = b[h]
          BY <4>2
        <5>2. n + h \in 1 .. n + n /\ ~(n + h <= n) /\ (n + h) - n = h
          OBVIOUS
        <5>3. QED
          BY <5>1, <5>2
      <4>3. QED
        BY <1>2, <4>1, <4>2
    <3>3. f \in [1 .. n + n -> L]
      BY <3>1
    <3> HIDE DEF f
    <3>4. f \in Surjection(1 .. n + n, L)
      BY <3>2, <3>3 DEF Surjection
    <3>5. IsFiniteSet(1 .. n + n)
      BY FS_Interval
    <3>6. QED
      BY <3>4, <3>5, FS_Surjection
  <2>3. PICK x : L = {x}
    BY <2>1, <2>2, FS_Singleton
  <2>4. a[i] \in L /\ b[j] \in L
    BY <1>2
  <2>5. QED
    BY <2>3, <2>4
<1>4. ASSUME \A i, j \in 1 .. n : a[i] = b[j] PROVE OneLabel(a, b)
  <2>1. L = {a[1]}
    BY <1>1, <1>2, <1>4
  <2>2. QED
    BY <2>1, FS_Singleton DEF OneLabel, L
<1>5. QED
  BY <1>3, <1>4

\* Kappa is 0 / 0 where there is one label and nowhere else.
LEMMA DegenerateMeans ==
  ASSUME NEW n \in Nat \ {0}, NEW c, NEW a \in Labelling(n, c), NEW b \in Labelling(n, c)
  PROVE  /\ Degenerate(a, b) <=> \A i, j \in 1 .. n : a[i] = b[j]
         /\ Degenerate(a, b) <=> OneLabel(a, b)
<1> DEFINE I == 1 .. n
           S == AgreeingPairs(n, a, b)
<1>1. S \in SUBSET (I \X I)
  BY DEF AgreeingPairs
<1>2. IsFiniteSet(I \X I) /\ Cardinality(I \X I) = n * n
  BY RepairingsFinite
<1>3. Expected(a, b) = Cardinality(S)
  BY ExpectedCounts
<1>4. Len(a) = n
  BY LabellingFacts
<1>5. Degenerate(a, b) <=> S = I \X I
  <2> HIDE DEF S, I
  <2>1. Cardinality(S) = n * n <=> S = I \X I
    BY <1>1, <1>2, FS_Subset
  <2>2. QED
    BY <1>3, <1>4, <2>1 DEF Degenerate
<1>6. S = I \X I <=> \A i, j \in I : a[i] = b[j]
  <2>1. ASSUME S = I \X I, NEW i \in I, NEW j \in I PROVE a[i] = b[j]
    <3>1. <<i, j>> \in S
      BY <2>1
    <3>2. QED
      BY <3>1 DEF AgreeingPairs
  <2>2. ASSUME \A i, j \in I : a[i] = b[j] PROVE S = I \X I
    BY <2>2 DEF AgreeingPairs
  <2>3. QED
    BY <2>1, <2>2
<1>7. QED
  BY <1>5, <1>6, OneLabelMeans

\* Kappa does not depend on who is first.
LEMMA KappaSymmetric ==
  ASSUME NEW n \in Nat \ {0}, NEW c, NEW a \in Labelling(n, c), NEW b \in Labelling(n, c)
  PROVE  Kappa(a, b) = Kappa(b, a)
<1>1. Len(a) = n /\ Len(b) = n /\ DOMAIN a = 1 .. n /\ DOMAIN b = 1 .. n
  BY LabellingFacts
<1>2. Observed(a, b) = Observed(b, a)
  <2>1. {i \in DOMAIN a : a[i] = b[i]} = {i \in DOMAIN b : b[i] = a[i]}
    BY <1>1
  <2>2. QED
    BY <2>1 DEF Observed
<1>3. Expected(a, b) = Expected(b, a)
  <2>1. LabelsOf(a, b) = LabelsOf(b, a)
    BY DEF LabelsOf
  <2>2. ASSUME NEW x \in LabelsOf(a, b) PROVE Count(a, x) * Count(b, x) = Count(b, x) * Count(a, x)
    <3>1. Count(a, x) \in Nat /\ Count(b, x) \in Nat
      BY GivenCounted
    <3>2. QED
      BY <3>1
  <2>3. [x \in LabelsOf(a, b) |-> Count(a, x) * Count(b, x)] =
          [x \in LabelsOf(b, a) |-> Count(b, x) * Count(a, x)]
    BY <2>1, <2>2
  <2>4. QED
    BY <2>3 DEF Expected
<1>4. QED
  BY <1>1, <1>2, <1>3 DEF Kappa, Degenerate

LEMMA ObservedAll ==
  ASSUME NEW n \in Nat \ {0}, NEW c, NEW a \in Labelling(n, c), NEW b \in Labelling(n, c)
  PROVE  /\ Observed(a, b) \in Nat
         /\ Observed(a, b) = n <=> a = b
<1> DEFINE I == 1 .. n
           S == {i \in I : a[i] = b[i]}
<1>1. a \in [I -> 1 .. c] /\ b \in [I -> 1 .. c]
  BY DEF Labelling
<1>2. Observed(a, b) = Cardinality(S)
  BY <1>1 DEF Observed
<1>3. S \in SUBSET I /\ IsFiniteSet(I) /\ Cardinality(I) = n
  BY RepairingsFinite
<1>4. S = I <=> a = b
  <2>1. ASSUME S = I PROVE a = b
    <3>1. \A i \in I : a[i] = b[i]
      BY <2>1
    <3>2. QED
      BY <1>1, <3>1
  <2>2. ASSUME a = b PROVE S = I
    BY <2>2
  <2>3. QED
    BY <2>1, <2>2
<1> HIDE DEF S, I
<1>5. IsFiniteSet(S) /\ (Cardinality(S) = n <=> S = I)
  BY <1>3, FS_Subset
<1>6. Cardinality(S) \in Nat
  BY <1>5, FS_CardinalityType
<1>7. QED
  BY <1>2, <1>4, <1>5, <1>6

\* Kappa is 1 for raters who agree on everything, and on more than one label.
LEMMA KappaOfOne ==
  ASSUME NEW n \in Nat \ {0}, NEW c, NEW a \in Labelling(n, c), NEW b \in Labelling(n, c)
  PROVE  Kappa(a, b).num = Kappa(a, b).den <=> a = b /\ ~OneLabel(a, b)
<1>1. Len(a) = n
  BY LabellingFacts
<1>2. Degenerate(a, b) <=> OneLabel(a, b)
  BY DegenerateMeans
<1>3. Observed(a, b) \in Nat /\ (Observed(a, b) = n <=> a = b)
  BY ObservedAll
<1>4. Expected(a, b) \in Nat
  BY ExpectedCounts, FS_CardinalityType
<1>5. CASE Degenerate(a, b)
  BY <1>2, <1>5 DEF Kappa
<1>6. CASE ~Degenerate(a, b)
  <2> DEFINE o == Observed(a, b)
             e == Expected(a, b)
  <2>1. Kappa(a, b) = [num |-> n * o - e, den |-> n * n - e]
    BY <1>1, <1>6 DEF Kappa
  <2>2. Kappa(a, b).num = n * o - e /\ Kappa(a, b).den = n * n - e
    BY <2>1
  <2>3. o \in Nat /\ e \in Nat
    BY <1>3, <1>4
  <2> HIDE DEF o, e
  <2>4. n * o - e = n * n - e <=> n * o = n * n
    BY <2>3
  <2>5. n * o = n * n <=> o = n
    <3>1. n * o - n * n = n * (o - n)
      BY <2>3
    <3>2. n * (o - n) = 0 => o - n = 0
      BY <2>3
    <3>3. QED
      BY <2>3, <3>1, <3>2
  <2>6. o = n <=> a = b
    BY <1>3 DEF o
  <2>7. QED
    BY <1>2, <1>6, <2>2, <2>4, <2>5, <2>6
<1>7. QED
  BY <1>5, <1>6

\* Over two categories a mark is given to agreement alone.
LEMMA TwoCategories ==
  ASSUME NEW n \in Nat \ {0}, NEW c, NEW a \in Labelling(n, c), NEW b \in Labelling(n, c),
         LabelsOf(a, b) \subseteq {1, 2}
  PROVE  Equal(Kappa(a, b), WeightedKappa(a, b, 2))
<1> DEFINE I == 1 .. n
           O == {i \in I : a[i] = b[i]}
           S == AgreeingPairs(n, a, b)
<1>1. DOMAIN a = I /\ DOMAIN b = I /\ Len(a) = n
  BY LabellingFacts
<1>2. \A i \in I : a[i] \in {1, 2} /\ b[i] \in {1, 2}
  BY <1>1 DEF LabelsOf
<1>3. a \in Labelling(n, 2) /\ b \in Labelling(n, 2)
  <2>1. 1 .. 2 = {1, 2}
    OBVIOUS
  <2>2. a \in [I -> 1 .. c] /\ b \in [I -> 1 .. c]
    BY DEF Labelling
  <2>3. a \in [I -> {1, 2}] /\ b \in [I -> {1, 2}]
    BY <1>2, <2>2
  <2>4. QED
    BY <2>1, <2>3 DEF Labelling
<1>4. Room(2) = {1}
  BY DEF Room
<1>5. \A x, y \in {1, 2} : 1 <= Weight(x, y, 2) <=> x = y
  BY DEF Weight
<1>6. IsFiniteSet({1}) /\ Cardinality({1}) = 1
  BY FS_Singleton
<1>7. WeightedObserved(a, b, 2) = Observed(a, b)
  <2>1. Marked(n, a, b, 2) = O \X {1}
    BY <1>2, <1>4, <1>5 DEF Marked
  <2>2. WeightedObserved(a, b, 2) = Cardinality(Marked(n, a, b, 2))
    BY <1>3, WeightedObservedMarks
  <2>3. Observed(a, b) = Cardinality(O)
    BY <1>1 DEF Observed
  <2>4. IsFiniteSet(O) /\ Cardinality(O) \in Nat
    BY RepairingsFinite, FS_Subset, FS_CardinalityType
  <2> HIDE DEF O
  <2>5. Cardinality(O \X {1}) = Cardinality(O) * 1
    BY <1>6, <2>4, FS_Product
  <2>6. Cardinality(O \X {1}) = Cardinality(O)
    BY <2>4, <2>5
  <2>7. QED
    BY <2>1, <2>2, <2>3, <2>6
<1>8. WeightedExpected(a, b, 2) = Expected(a, b)
  <2>1. Heavy(n, a, b, 2) = Agreeing(n, a, b)
    BY <1>2, <1>4, <1>5 DEF Heavy, Agreeing
  <2>2. WeightedExpected(a, b, 2) = Cardinality(Heavy(n, a, b, 2))
    BY <1>3, WeightedExpectedMarks
  <2>3. Expected(a, b) = Cardinality(Agreeing(n, a, b))
    BY ExpectedAgreeing
  <2>4. QED
    BY <2>1, <2>2, <2>3
<1>9. n * n * (2 - 1) * (2 - 1) = n * n
  OBVIOUS
<1>10. Kappa(a, b) = WeightedKappa(a, b, 2)
  BY <1>1, <1>7, <1>8, <1>9 DEF Kappa, WeightedKappa, Degenerate
<1>11. QED
  <2> DEFINE r == Kappa(a, b)
  <2>1. r.num * r.den = r.num * r.den
    OBVIOUS
  <2>2. QED
    BY <1>10 DEF Equal

LEMMA Resampled ==
  ASSUME NEW n \in Nat \ {0}, NEW c, NEW a \in Labelling(n, c), NEW draw \in [1 .. n -> 1 .. n]
  PROVE  Resample(a, draw) \in Labelling(n, c)
<1>1. \A i \in 1 .. n : draw[i] \in 1 .. n
  OBVIOUS
<1>2. \A i \in 1 .. n : a[draw[i]] \in 1 .. c
  BY <1>1, LabellingFacts
<1>3. QED
  BY <1>2 DEF Resample, Labelling

\* For any number of items and of ordered categories: what agreement is
\* expected by chance is the mean over all re-pairings, plain and weighted;
\* kappa is symmetric, is 1 exactly for raters who agree on everything and on
\* more than one label, is 0 / 0 only where there is one label, in a bootstrap
\* resample too, and over two categories the weights change nothing.
THEOREM KappaCorrectsForChance ==
  ASSUME NEW n \in Nat \ {0}, NEW c \in Nat \ {0},
         NEW a \in [1 .. n -> 1 .. c], NEW b \in [1 .. n -> 1 .. c]
  PROVE  ExpectedIsMean(n, a, b, c) /\ KappaIsFair(n, a, b)
<1>1. a \in Labelling(n, c) /\ b \in Labelling(n, c)
  BY DEF Labelling
<1>2. ExpectedIsMean(n, a, b, c)
  BY <1>1, ExpectedIsMeanPlain, ExpectedIsMeanWeighted DEF ExpectedIsMean
<1>3. ASSUME NEW draw \in [1 .. n -> 1 .. n]
      PROVE  Degenerate(Resample(a, draw), Resample(b, draw)) <=>
               OneLabel(Resample(a, draw), Resample(b, draw))
  <2>1. Resample(a, draw) \in Labelling(n, c) /\ Resample(b, draw) \in Labelling(n, c)
    BY <1>1, Resampled
  <2>2. QED
    BY <2>1, DegenerateMeans
<1>4. Kappa(a, b) = Kappa(b, a)
  BY <1>1, KappaSymmetric
<1>5. Degenerate(a, b) <=> OneLabel(a, b)
  BY <1>1, DegenerateMeans
<1>6. Kappa(a, b).num = Kappa(a, b).den <=> a = b /\ ~OneLabel(a, b)
  BY <1>1, KappaOfOne
<1>7. LabelsOf(a, b) \subseteq {1, 2} => Equal(Kappa(a, b), WeightedKappa(a, b, 2))
  BY <1>1, TwoCategories
<1>8. QED
  BY <1>2, <1>3, <1>4, <1>5, <1>6, <1>7 DEF KappaIsFair

\* The same as the run states it, for any number of items.
THEOREM KappaIsCorrected == Spec => []KappaIsChanceCorrected
<1>1. KappaIsChanceCorrected
  <2>1. ASSUME NEW n \in 1 .. MaxItems, NEW a \in [1 .. n -> 1 .. 3], NEW b \in [1 .. n -> 1 .. 3]
        PROVE  ExpectedIsMean(n, a, b, 3) /\ KappaIsFair(n, a, b)
    <3>1. n \in Nat \ {0}
      OBVIOUS
    <3>2. QED
      BY <3>1, KappaCorrectsForChance
  <2>2. QED
    BY <2>1 DEF KappaIsChanceCorrected
<1>2. QED
  BY <1>1, PTL

-----------------------------------------------------------------------------
(* The judge's replies and the labels of an agreement.                      *)

\* A text of one score, of the scale.
OneScore(reply) ==
  /\ reply.kind = "text" /\ reply.scores # <<>>
  /\ \E v \in Scale : \A j \in DOMAIN reply.scores : reply.scores[j] = v

\* What a provider may answer: a text with any numbers on its SCORE lines.
Reply == [kind : {"text", "http", "transport", "empty_response", "odd"}, scores : Seq(Int)]

\* A reply is a verdict where its SCORE lines say one score of the scale.
LEMMA ParsedWell ==
  ASSUME NEW scores \in Seq(Int)
  PROVE  LET parsed == ParseJudgeResponse(scores)
         IN /\ parsed.kind = "verdict" <=>
                 scores # <<>> /\ \E v \in Scale : \A j \in DOMAIN scores : scores[j] = v
            /\ parsed.kind = "verdict" => parsed.score \in Scale
<1> DEFINE parsed == ParseJudgeResponse(scores)
           D == {scores[i] : i \in DOMAIN scores}
           n == Len(scores)
<1>1. n \in Nat /\ DOMAIN scores = 1 .. n /\ (scores = <<>> <=> n = 0)
  OBVIOUS
<1>2. D = {} <=> scores = <<>>
  <2>1. n = 0 => D = {}
    BY <1>1
  <2>2. n # 0 => scores[1] \in D
    <3>1. n # 0 => 1 \in DOMAIN scores
      BY <1>1
    <3>2. QED
      BY <3>1
  <2>3. QED
    BY <1>1, <2>1, <2>2
<1>3. IsFiniteSet(D)
  <2> DEFINE f == [i \in 1 .. n |-> scores[i]]
  <2>1. f \in [1 .. n -> D] /\ \A x \in D : \E i \in 1 .. n : f[i] = x
    BY <1>1
  <2> HIDE DEF f, D, n
  <2>2. f \in Surjection(1 .. n, D)
    BY <2>1 DEF Surjection
  <2>3. IsFiniteSet(1 .. n)
    BY <1>1, FS_Interval
  <2>4. QED
    BY <2>2, <2>3, FS_Surjection
<1>4. parsed =
        IF D = {} THEN JudgeError("no_score")
        ELSE IF Cardinality(D) > 1 THEN JudgeError("conflicting_scores")
        ELSE IF ~(D \subseteq Scale) THEN JudgeError("out_of_range")
        ELSE JudgeVerdict(CHOOSE s \in D : TRUE)
  BY DEF ParseJudgeResponse
<1>5. \A e : JudgeError(e).kind = e
  BY DEF JudgeError
<1>6. \A s : JudgeVerdict(s).kind = "verdict" /\ JudgeVerdict(s).score = s
  BY DEF JudgeVerdict
<1> DEFINE One == scores # <<>> /\ \E v \in Scale : \A j \in DOMAIN scores : scores[j] = v
<1>7. One <=> D # {} /\ ~(Cardinality(D) > 1) /\ D \subseteq Scale
  <2>1. ASSUME One PROVE D # {} /\ ~(Cardinality(D) > 1) /\ D \subseteq Scale
    <3>1. PICK v \in Scale : \A j \in DOMAIN scores : scores[j] = v
      BY <2>1
    <3>2. D = {v}
      BY <1>2, <2>1, <3>1
    <3>3. Cardinality(D) = 1
      BY <3>2, FS_Singleton
    <3>4. ~(Cardinality(D) > 1)
      BY <3>3
    <3> HIDE DEF D
    <3>5. QED
      BY <3>2, <3>4
  <2>2. ASSUME D # {}, ~(Cardinality(D) > 1), D \subseteq Scale PROVE One
    <3>1. Cardinality(D) \in Nat /\ Cardinality(D) # 0
      BY <1>3, <2>2, FS_CardinalityType, FS_EmptySet
    <3>2. Cardinality(D) = 1
      BY <2>2, <3>1
    <3>3. PICK v : D = {v}
      BY <1>3, <3>2, FS_Singleton
    <3>4. v \in Scale /\ \A j \in DOMAIN scores : scores[j] = v
      BY <2>2, <3>3
    <3>5. QED
      BY <1>2, <2>2, <3>4
  <2>3. QED
    BY <2>1, <2>2
<1> HIDE DEF D, n, One, parsed
<1>8. D # {} => (CHOOSE s \in D : TRUE) \in D
  OBVIOUS
<1>9. parsed.kind = "verdict" <=> One
  BY <1>4, <1>5, <1>6, <1>7
<1>10. parsed.kind = "verdict" => parsed.score \in Scale
  BY <1>4, <1>5, <1>6, <1>7, <1>8, <1>9
<1>11. QED
  BY <1>9, <1>10 DEF One, parsed

LEMMA JudgedWell ==
  ASSUME NEW reply \in Reply
  PROVE  /\ RunJudge(reply).kind = "verdict" <=> OneScore(reply)
         /\ RunJudge(reply).kind = "verdict" => RunJudge(reply).score \in Scale
<1>1. reply.kind \in {"text", "http", "transport", "empty_response", "odd"} /\ reply.scores \in Seq(Int)
  BY DEF Reply
<1>2. CASE reply.kind = "text"
  <2>1. RunJudge(reply) = ParseJudgeResponse(reply.scores)
    BY <1>2 DEF RunJudge
  <2>2. QED
    BY <1>1, <1>2, <2>1, ParsedWell DEF OneScore
<1>3. CASE reply.kind # "text"
  <2>1. RunJudge(reply).kind = reply.kind
    BY <1>3 DEF RunJudge, JudgeError
  <2>2. QED
    BY <1>1, <1>3, <2>1 DEF OneScore
<1>4. QED
  BY <1>2, <1>3

\* A packet is imported where every reply was a verdict.
LEMMA PacketImported ==
  ASSUME NEW ids \in Seq(Nat), NEW today \in Seq(Nat), NEW r \in [DOMAIN ids -> Reply],
         today # <<>>
  PROVE  /\ Importable(ProvisionalPacket(ids, r), Blank(today)) <=>
              ids = today /\ \A i \in DOMAIN ids : OneScore(r[i])
         /\ Importable(ProvisionalPacket(ids, r), Blank(today)) =>
              Labels(ProvisionalPacket(ids, r)) = Grades(r)
<1> DEFINE I == DOMAIN ids
           packet == ProvisionalPacket(ids, r)
           cell(i) == IF RunJudge(r[i]).kind = "verdict" THEN <<RunJudge(r[i]).score>> ELSE <<>>
<1>a. ASSUME NEW i \in I, Raises(r[i])
      PROVE  ~Importable(packet, Blank(today)) /\ ~OneScore(r[i])
  <2>1. packet = NoPacket
    BY <1>a DEF ProvisionalPacket
  <2>2. packet.ids = <<>> /\ Blank(today).ids = today
    BY <2>1 DEF NoPacket, Blank
  <2>3. ~OneScore(r[i])
    BY <1>a DEF OneScore, Raises
  <2>4. QED
    BY <2>2, <2>3 DEF Importable
<1>b. SUFFICES ASSUME \A i \in I : ~Raises(r[i])
               PROVE  /\ Importable(packet, Blank(today)) <=>
                           ids = today /\ \A i \in I : OneScore(r[i])
                      /\ Importable(packet, Blank(today)) => Labels(packet) = Grades(r)
  BY <1>a
<1>1. /\ packet.ids = ids /\ packet.scores = [i \in I |-> cell(i)] /\ Blank(today).ids = today
  BY <1>b DEF ProvisionalPacket, Blank
<1>2. DOMAIN packet.scores = I /\ \A i \in I : packet.scores[i] = cell(i)
  BY <1>1
<1>3. ASSUME NEW i \in I
      PROVE  /\ packet.scores[i] # <<>> /\ packet.scores[i][1] \in Scale <=> OneScore(r[i])
             /\ OneScore(r[i]) => /\ RunJudge(r[i]).kind = "verdict"
                                  /\ packet.scores[i][1] = RunJudge(r[i]).score
  <2>1. r[i] \in Reply
    OBVIOUS
  <2>2. /\ RunJudge(r[i]).kind = "verdict" <=> OneScore(r[i])
        /\ RunJudge(r[i]).kind = "verdict" => RunJudge(r[i]).score \in Scale
    BY <2>1, JudgedWell
  <2>3. packet.scores[i] = cell(i)
    BY <1>2
  <2> HIDE DEF packet
  <2>4. CASE OneScore(r[i])
    <3>1. packet.scores[i] = <<RunJudge(r[i]).score>>
      BY <2>2, <2>3, <2>4
    <3>2. QED
      BY <2>2, <2>4, <3>1
  <2>5. CASE ~OneScore(r[i])
    BY <2>2, <2>3, <2>5
  <2>6. QED
    BY <2>4, <2>5
<1> HIDE DEF packet
<1>4. Importable(packet, Blank(today)) <=> ids = today /\ \A i \in I : OneScore(r[i])
  BY <1>1, <1>2, <1>3 DEF Importable
<1>5. ASSUME \A i \in I : OneScore(r[i]) PROVE Labels(packet) = Grades(r)
  <2>1. Labels(packet) = [i \in I |-> packet.scores[i][1] >= Threshold]
    BY <1>1 DEF Labels
  <2>2. Grades(r) = [i \in I |-> JudgePasses(RunJudge(r[i]))]
    BY DEF Grades
  <2>3. ASSUME NEW i \in I
        PROVE  (packet.scores[i][1] >= Threshold) = JudgePasses(RunJudge(r[i]))
    BY <1>3, <1>5 DEF JudgePasses, Threshold, PassThreshold
  <2>4. QED
    BY <2>1, <2>2, <2>3, Zenon
<1>6. QED
  BY <1>4, <1>5 DEF packet

\* For any fixtures, any fixtures of today and any replies of the two judges,
\* whatever numbers are on their SCORE lines: the agreement is computed exactly
\* where every reply is a text of one score on the scale and the fixtures, one
\* at least, are those of today in their order, and its labels are then the
\* judge's grades.
THEOREM AgreementIsTheGraders ==
  ASSUME NEW ids \in Seq(Nat), NEW today \in Seq(Nat),
         NEW r \in [DOMAIN ids -> Reply], NEW s \in [DOMAIN ids -> Reply]
  PROVE  AgreesWithGrader(ids, r, s, today)
<1> DEFINE p == ProvisionalPacket(ids, r)
           q == ProvisionalPacket(ids, s)
           both == Importable(p, Blank(today)) /\ Importable(q, Blank(today)) /\ today # <<>>
           agreement == Compute(p, q, Blank(today))
<1>1. Judged(r) <=> \A i \in DOMAIN ids : OneScore(r[i])
  BY DEF Judged, OneScore
<1>2. Judged(s) <=> \A i \in DOMAIN ids : OneScore(s[i])
  BY DEF Judged, OneScore
<1>3. both <=> Judged(r) /\ Judged(s) /\ ids = today /\ ids # <<>>
  BY <1>1, <1>2, PacketImported
<1>4. both => Labels(p) = Grades(r) /\ Labels(q) = Grades(s)
  BY PacketImported
<1> HIDE DEF p, q
<1>5. (agreement.made <=> both) /\ (both => agreement.labels = <<Labels(p), Labels(q)>>)
  BY DEF Compute, Blank
<1> HIDE DEF both, agreement
<1>6. /\ agreement.made <=> Judged(r) /\ Judged(s) /\ ids = today /\ ids # <<>>
      /\ agreement.made => agreement.labels = <<Grades(r), Grades(s)>>
  BY <1>3, <1>4, <1>5
<1>7. QED
  BY <1>6 DEF AgreesWithGrader, agreement, p, q

\* The same as the run states it.
THEOREM LabelsAreGrades == Spec => []LabelsAreTheGraders
<1>1. Replies \subseteq Reply
  <2>1. /\ <<>> \in Seq(Int) /\ <<3>> \in Seq(Int) /\ <<4>> \in Seq(Int)
        /\ <<4, 4>> \in Seq(Int) /\ <<4, 3>> \in Seq(Int)
        /\ <<6>> \in Seq(Int) /\ <<0>> \in Seq(Int)
    OBVIOUS
  <2>2. QED
    BY <2>1 DEF Replies, Reply
<1>2. LabelsAreTheGraders
  <2>1. ASSUME NEW r \in [1 .. 2 -> Replies], NEW s \in [1 .. 2 -> Replies],
               NEW today \in {<<1, 2>>, <<2, 1>>, <<1, 2, 3>>}
        PROVE  AgreesWithGrader(<<1, 2>>, r, s, today)
    <3> DEFINE ids == <<1, 2>>
    <3>1. /\ <<1, 2>> \in Seq(Nat) /\ <<2, 1>> \in Seq(Nat) /\ <<1, 2, 3>> \in Seq(Nat)
          /\ DOMAIN ids = 1 .. 2
      OBVIOUS
    <3> HIDE DEF ids
    <3>2. ids \in Seq(Nat) /\ today \in Seq(Nat)
      BY <3>1 DEF ids
    <3>3. r \in [DOMAIN ids -> Reply] /\ s \in [DOMAIN ids -> Reply]
      BY <1>1, <3>1
    <3>4. AgreesWithGrader(ids, r, s, today)
      BY <3>2, <3>3, AgreementIsTheGraders
    <3>5. QED
      BY <3>4 DEF ids
  <2>2. QED
    BY <2>1 DEF LabelsAreTheGraders
<1>3. QED
  BY <1>2, PTL
=============================================================================
