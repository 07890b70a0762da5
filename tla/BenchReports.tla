---------------------------- MODULE BenchReports ----------------------------
(***************************************************************************)
(* What is made of the runs files of BaselineCampaign: report-validation   *)
(* (reports/validation.py), report-final (final.py, defects.py) and        *)
(* compare-configs (comparison.py), pure functions of the files.  A rate   *)
(* is kept as what is counted, a difference of pass^k as a number over n.  *)
(* The seed picks the bootstrap's draws: a property holds for every draw.  *)
(***************************************************************************)
EXTENDS BaselineCampaign, Totals

CONSTANTS Order,        \* the files in the order of --runs, one label each
          Hosted,       \* the files labelled C1, C2 or C3
          K,            \* the reports' --k
          ExpectedN,    \* --expected-n-tasks: the size of the corpus
          TierOf,       \* the tier sidecar
          CapabilityOf, \* the dataset's capability map
          Resamples,    \* --n-resamples
          AlphaNum, AlphaDen \* --alpha

TierOrder == <<"T1", "T2", "T3", "T4">>

ASSUME ReportsAssumption ==
  /\ ToSet(Order) = Files /\ Hosted \subseteq Files
  /\ K \in Nat \ {0} /\ ExpectedN = Len(Corpus)
  /\ TierOf \in [Tasks -> {"T1", "T2", "T3", "T4"}]
  /\ DOMAIN CapabilityOf = Tasks
  /\ Resamples \in Nat \ {0}
  /\ AlphaNum \in Nat \ {0} /\ AlphaDen \in Nat \ {0} /\ AlphaNum < AlphaDen

-----------------------------------------------------------------------------
(* The paired bootstrap by task (paired_pass_pow_k_diff_ci).               *)

\* One set of task ids, drawn with replacement, for both configurations.
Draws(tasks) == [1 .. Resamples -> [1 .. Cardinality(tasks) -> tasks]]

\* n times pass^k(B) - pass^k(A) over the tasks drawn.
Difference(draw, a, b) ==
  Cardinality({i \in DOMAIN draw : draw[i] \in b}) -
  Cardinality({i \in DOMAIN draw : draw[i] \in a})

Samples(draws, a, b) == [s \in DOMAIN draws |-> Difference(draws[s], a, b)]

\* The value at place i, from 0, of the sorted samples: a set of one.
AtPlace(samples, i) ==
  {v \in {samples[s] : s \in DOMAIN samples} :
     /\ Cardinality({s \in DOMAIN samples : samples[s] < v}) <= i
     /\ i < Cardinality({s \in DOMAIN samples : samples[s] <= v})}

\* _percentile at q = num / den, times den: also a set of one.
Percentile(samples, num, den) ==
  LET pos == num * (Len(samples) - 1)
      below == pos \div den
      above == IF below + 1 < Len(samples) THEN below + 1 ELSE below
  IN {v * (den - (pos % den)) + w * (pos % den) :
        v \in AtPlace(samples, below), w \in AtPlace(samples, above)}

Lo(samples) == Percentile(samples, AlphaNum, 2 * AlphaDen)
Hi(samples) == Percentile(samples, 2 * AlphaDen - AlphaNum, 2 * AlphaDen)

\* ci.lo > 0 and ci.hi < 0.
Above(samples) == \E x \in Lo(samples) : x > 0
Below(samples) == \E x \in Hi(samples) : x < 0

\* Mutant: the difference is taken of what the grades say, caps or no caps.
GradedReliable(rs) ==
  {t \in TasksIn(rs) : \A i \in DOMAIN rs : rs[i].task = t => rs[i].run.passed}

\* The reliability the difference is taken of.
Indicator(rs) == ReliableTasks(rs)

-----------------------------------------------------------------------------
(* One condition of the validation report (_build_condition).              *)

Deficit(rs) == {t \in TasksIn(rs) : RunsOf(rs, t) < K}

\* The tasks of complete_results.
Whole(rs) == TasksIn(rs) \ Deficit(rs)

\* Mutant: nobody counts the tasks.
StatusUncounted(rs) ==
  IF rs = <<>> THEN "blocked" ELSE IF Deficit(rs) = {} THEN "complete" ELSE "incomplete"

Status(rs) ==
  IF rs = <<>> THEN "blocked"
  ELSE IF Cardinality(Whole(rs)) = ExpectedN /\ Deficit(rs) = {} THEN "complete"
       ELSE "incomplete"

\* _task_all_fail reads the grade, task_reliability the caps as well.
AllFail(rs) == {t \in TasksIn(rs) : \A i \in Graded(rs) : rs[i].task # t}

\* pass_pow_k over the complete tasks of one tier, or of one capability.
PassPowIn(rs, AxisOf, v) ==
  LET its == {t \in Whole(rs) : AxisOf[t] = v}
  IN [tasks |-> Cardinality(its), reliable |-> Cardinality(its \cap ReliableTasks(rs))]

\* The places in TierOrder of the tiers with complete tasks.
Present(rs) == {i \in DOMAIN TierOrder : \E t \in Whole(rs) : TierOf[t] = TierOrder[i]}

\* Two present tiers with none between: neighbours in the list of rates.
Neighbours(rs) ==
  {p \in Present(rs) \X Present(rs) :
     p[1] < p[2] /\ \A i \in Present(rs) : i <= p[1] \/ i >= p[2]}

\* The rate of the first tier, less that of the second, times both counts.
Drop(rs, p) ==
  LET hi == PassPowIn(rs, TierOf, TierOrder[p[1]])
      lo == PassPowIn(rs, TierOf, TierOrder[p[2]])
  IN hi.reliable * lo.tasks - lo.reliable * hi.tasks

TierMonotone(rs) ==
  Cardinality(Present(rs)) >= 2 /\ \A p \in Neighbours(rs) : Drop(rs, p) >= 0

\* _has_strict_decrease.
StrictDecrease(rs) == \E p \in Neighbours(rs) : Drop(rs, p) > 0

\* failure_taxonomy, for one key; its category is the failure reason.
Taxonomy(rs, reason, tier, capability) ==
  Cardinality({i \in DOMAIN rs : /\ ~rs[i].run.passed /\ rs[i].run.reason = reason
                                 /\ TierOf[rs[i].task] = tier
                                 /\ CapabilityOf[rs[i].task] = capability})

ValidationCondition(rs) ==
  [status |-> Status(rs), runs |-> Len(rs), passed |-> Cardinality(Graded(rs)),
   matrix |-> [t \in Whole(rs) |-> Reliable(rs, t)],
   deterministic |-> AllFail(rs) \cap Whole(rs),
   flaky |-> Whole(rs) \ (ReliableTasks(rs) \cup AllFail(rs)),
   incomplete |-> Deficit(rs)]

-----------------------------------------------------------------------------
(* The verdict on a dataset (_discriminativeness) from the files' runs, R. *)

Live(R) == {f \in Hosted : R[f] # <<>>}

\* The pairs in the order they are gone through.
Pairs(R) ==
  {p \in Live(R) \X Live(R) :
     \E i, j \in DOMAIN Order : i < j /\ p = <<Order[i], Order[j]>>}

\* The weak rung: a matrix over the tasks with k runs.
Differ(R, p) ==
  \E t \in Whole(R[p[1]]) \cap Whole(R[p[2]]) : Reliable(R[p[1]], t) # Reliable(R[p[2]], t)

WeakMet(R) ==
  /\ \E p \in Pairs(R) : Differ(R, p)
  /\ \E f \in Live(R) : ~(Whole(R[f]) \subseteq ReliableTasks(R[f]))

\* The strong rung's pairs: raw runs, whatever their number.
Skipped(R) == {p \in Pairs(R) : TasksIn(R[p[1]]) # TasksIn(R[p[2]])}

PairSamples(a, b, draws) == Samples(draws, Indicator(a), Indicator(b))

SeparatedBy(a, b, draws) ==
  Above(PairSamples(a, b, draws)) \/ Below(PairSamples(a, b, draws))

\* A pair the report may name: strong_pair is the first of these.
MaySeparate(R, p) ==
  p \notin Skipped(R) /\ \E draws \in Draws(TasksIn(R[p[1]])) : SeparatedBy(R[p[1]], R[p[2]], draws)

Gradient(R) ==
  {f \in Live(R) : TierMonotone(R[f]) /\ StrictDecrease(R[f])}

-----------------------------------------------------------------------------
(* The final report: one condition (_build_final_condition), the queue.    *)

\* _derived_condition_id.
DerivedConds(rs) == {rs[i].cond : i \in DOMAIN rs}

\* _final_condition_input: the segment names a condition.
Accepts(rs, segment) ==
  rs = <<>> \/ DerivedConds(rs) = {segment}

FinalStatus(rs) ==
  IF rs = <<>> THEN "blocked"
  ELSE LET complete == {i \in DOMAIN rs : rs[i].task \notin Deficit(rs)}
       IN IF Cardinality({rs[i].task : i \in complete}) = ExpectedN /\ Deficit(rs) = {}
          THEN "complete" ELSE "incomplete"

\* _classified_failures: the graded failures, by fc-v4.
Classified(rs) == {i \in DOMAIN rs : ~rs[i].run.passed}

ClassCount(rs, class) == Cardinality({i \in Classified(rs) : Classify(rs[i].run) = class})

\* _exemplars: of a category, the first task's first run.
Exemplar(rs, category) ==
  CHOOSE i \in Classified(rs) :
    /\ Classify(rs[i].run)[1] = category
    /\ \A j \in Classified(rs) : Classify(rs[j].run)[1] = category =>
         \/ rs[i].task < rs[j].task
         \/ rs[i].task = rs[j].task /\ rs[i].index <= rs[j].index

FinalCondition(rs) ==
  [status |-> FinalStatus(rs), runs |-> Len(rs), passed |-> Cardinality(Graded(rs)),
   reliable |-> ReliableTasks(rs) \cap Whole(rs),
   capabilities |-> [c \in {CapabilityOf[t] : t \in Whole(rs)} |->
                       PassPowIn(rs, CapabilityOf, c)],
   incomplete |-> Deficit(rs)]

\* task_defect_candidates: of the groups with records of the task, none has a
\* graded pass.
DefectCandidates(R) ==
  {t \in UNION {TasksIn(R[f]) : f \in Files} :
     \A f \in Files : t \in TasksIn(R[f]) => t \in AllFail(R[f])}

-----------------------------------------------------------------------------
(* compare-configs, A against B.                                           *)

\* _hard_subset.
Hard(rs) == {t \in TasksIn(rs) : TierOf[t] \in {"T3", "T4"}}

\* No report without hard tasks, or over two sets of tasks.
Comparable(a, b) == Hard(a) # {} /\ Hard(b) # {} /\ TasksIn(a) = TasksIn(b)

\* _verdict on the interval over the hard tasks, from which the draws are.
Verdict(a, b, draws) ==
  IF Above(PairSamples(a, b, draws)) THEN "helps"
  ELSE IF Below(PairSamples(a, b, draws)) THEN "hurts" ELSE "none"

-----------------------------------------------------------------------------
(* Properties.                                                             *)

\* The files' runs, as a report loads them; a torn file raises.
Readable == Files \ torn
Runs == [f \in Files |-> IF f \in Readable THEN Loaded(f) ELSE <<>>]

IsPrefixOf(s, t) == Len(s) <= Len(t) /\ \A i \in DOMAIN s : s[i] = t[i]

\* A condition the two reports call complete has, of every task of the corpus,
\* K runs or more of the last invocation for its file and in its order; the
\* matrix says of them what they were; and the condition segment report-final
\* accepts is the one they were made under.  What a truncated, killed or
\* unreachable invocation left is never called complete.
CompleteIsEarned ==
  \A f \in Readable :
    /\ FinalStatus(Loaded(f)) = Status(Loaded(f))
    /\ Status(Loaded(f)) = "complete" =>
         LET seen == Loaded(f) IN
         /\ IsPrefixOf(seen, results[f])
         /\ \A t \in Tasks :
              /\ RunsOf(seen, t) >= K
              /\ ValidationCondition(seen).matrix[t] = Reliable(seen, t)
         /\ \A c \in Conds : Accepts(seen, c) => c = CondOf[last[f].config]

\* No runs file mixes conditions; and once an invocation has ended well the
\* file holds what it ran and the baseline report beside it is its own, made of
\* what the file gives.
OwnAccounts ==
  \A f \in Readable :
    /\ \A x, y \in DerivedConds(Loaded(f)) : x = y
    /\ last[f].how = "done" =>
         /\ Loaded(f) = results[f]
         /\ report[f] = BaselineReport(Loaded(f), last[f].k)

\* The reports over a file count the same things: a complete task is in one
\* tier and one capability, a graded failure in one class and under one key of
\* the taxonomy, and an exemplar's task is not a reliable one.
CountsAddUp(rs) ==
  LET final == FinalCondition(rs)
      caps == DOMAIN final.capabilities
      tiers == {"T1", "T2", "T3", "T4"}
      classes == {Classify(rs[i].run) : i \in Classified(rs)}
      keys == {"none", "forbidden_action", "step_limit_exceeded"} \X tiers \X Range(CapabilityOf)
  IN /\ Cardinality(final.reliable) = Total([c \in caps |-> final.capabilities[c].reliable])
     /\ Cardinality(final.reliable) =
          Total([v \in tiers |-> PassPowIn(rs, TierOf, v).reliable])
     /\ final.runs - final.passed = Total([c \in classes |-> ClassCount(rs, c)])
     /\ final.runs - final.passed =
          Total([q \in keys |-> Taxonomy(rs, q[1], q[2], q[3])])
     /\ \A c \in classes : rs[Exemplar(rs, c[1])].task \notin final.reliable

\* The accounts given of one invocation belong together: its two files, and,
\* at its k, the validation and the final report over them.  A condition said
\* to show a tier gradient has an unreliable task.
ReportsBelongTogether ==
  /\ OwnAccounts
  /\ \A f \in Readable :
       /\ CountsAddUp(Loaded(f))
       /\ f \in Gradient(Runs) => FinalCondition(Loaded(f)).reliable # Whole(Loaded(f))
       /\ last[f].how = "done" /\ last[f].k = K =>
            LET final == FinalCondition(Loaded(f))
            IN final.status = "complete" /\ final.reliable = report[f].reliable

\* A pair the validation report may call CI-separated, and the verdict of
\* compare-configs either way, rest on a task: one that passed every run on
\* the side said to be better and not on the other, whatever the seed drew.
\* So the weak rung is met where the strong pair is, and the witness is not
\* in the task-defect queue.  Tasks short of runs are left out of this: see
\* DeficitNeverSeparates.
Witness(t, worse, better) == t \in ReliableTasks(better) /\ t \notin ReliableTasks(worse)

SeparationHasWitness ==
  /\ \A p \in Pairs(Runs) :
       LET a == Runs[p[1]]
           b == Runs[p[2]]
       IN (Deficit(a) = {} /\ Deficit(b) = {} /\ MaySeparate(Runs, p)) =>
            /\ \E t \in TasksIn(a) \ DefectCandidates(Runs) : Witness(t, a, b) \/ Witness(t, b, a)
            /\ WeakMet(Runs)
  /\ \A f, g \in Files :
       LET a == Runs[f]
           b == Runs[g]
       IN Comparable(a, b) =>
            \A draws \in Draws(Hard(a)) :
              /\ Verdict(a, b, draws) = "helps" => \E t \in Hard(a) : Witness(t, a, b)
              /\ Verdict(a, b, draws) = "hurts" => \E t \in Hard(a) : Witness(t, b, a)

\* "Deficit tasks are EXCLUDED from pass^k and from the bootstrap input"
\* (reports/validation.py:218): two conditions without a task of k runs in
\* common are not called CI-separated.
DeficitNeverSeparates ==
  \A p \in Pairs(Runs) :
    MaySeparate(Runs, p) =>
      Whole(Runs[p[1]]) \cap Whole(Runs[p[2]]) # {}
=============================================================================
