------------------------------- MODULE Bench --------------------------------
(***************************************************************************)
(* The reports over a baseline's files and the calibration of the judge    *)
(* beside each other.  The latter is pure: what is said of its operators   *)
(* is looked at once, before the first command.                            *)
(***************************************************************************)
EXTENDS BenchReports, Calibration

CONSTANT MaxItems  \* bound: items two raters label

Fresh == starts = 0

Equal(x, y) == x.num * y.den = y.num * x.den

\* The ways to give the second rater's labels to other items.
Repairings(n)  == {p \in [1 .. n -> 1 .. n] : {p[i] : i \in 1 .. n} = 1 .. n}
Repaired(b, p) == [i \in DOMAIN b |-> b[p[i]]]

\* What is expected of two raters is the mean over all re-pairings.
ExpectedIsMean(n, a, b, c) ==
  /\ Total([p \in Repairings(n) |-> Observed(a, Repaired(b, p))]) * n =
       Cardinality(Repairings(n)) * Expected(a, b)
  /\ Total([p \in Repairings(n) |-> WeightedObserved(a, Repaired(b, p), c)]) * n =
       Cardinality(Repairings(n)) * WeightedExpected(a, b, c)

\* Both raters gave every item one and the same label.
OneLabel(a, b) == Cardinality(LabelsOf(a, b)) = 1

\* What a kappa says of two raters.
KappaIsFair(n, a, b) ==
  /\ Kappa(a, b) = Kappa(b, a)
  /\ Degenerate(a, b) <=> OneLabel(a, b)
  /\ Kappa(a, b).num = Kappa(a, b).den <=> a = b /\ ~OneLabel(a, b)
  /\ LabelsOf(a, b) \subseteq {1, 2} => Equal(Kappa(a, b), WeightedKappa(a, b, 2))
  /\ \A draw \in [1 .. n -> 1 .. n] :
       Degenerate(Resample(a, draw), Resample(b, draw)) <=>
         OneLabel(Resample(a, draw), Resample(b, draw))

\* Kappa is agreement corrected for chance: what is expected of two raters is
\* the mean of what they would agree on over all ways to re-pair their labels,
\* plain and weighted; kappa does not depend on who is first, is 1 exactly
\* when they agree on everything, and is written as 0 only where both gave
\* every item one and the same label, in the bootstrap's resamples too.  Over
\* two categories weighting changes nothing.  (metrics/agreement.py)
KappaIsChanceCorrected ==
  Fresh => \A n \in 1 .. MaxItems : \A a, b \in [1 .. n -> 1 .. 3] :
    ExpectedIsMean(n, a, b, 3) /\ KappaIsFair(n, a, b)

Replies ==
  [kind : {"http", "transport", "empty_response", "odd"}, scores : {<<>>}] \cup
  [kind : {"text"}, scores : {<<>>, <<3>>, <<4>>, <<4, 4>>, <<4, 3>>, <<6>>, <<0>>}]

\* Every reply is a text with one score, of the scale, however often it says so.
Judged(replies) ==
  \A i \in DOMAIN replies :
    /\ replies[i].kind = "text" /\ replies[i].scores # <<>>
    /\ \E v \in Scale : \A j \in DOMAIN replies[i].scores : replies[i].scores[j] = v

Grades(replies) == [i \in DOMAIN replies |-> JudgePasses(RunJudge(replies[i]))]

\* For two judges' replies to the fixtures `ids`, compared against `today`.
AgreesWithGrader(ids, r, s, today) ==
  LET agreement == Compute(ProvisionalPacket(ids, r), ProvisionalPacket(ids, s), Blank(today))
  IN /\ agreement.made <=> Judged(r) /\ Judged(s) /\ ids = today /\ ids # <<>>
     /\ agreement.made => agreement.labels = <<Grades(r), Grades(s)>>

\* The labels an agreement is computed on are the grades the judge would have
\* given: label for label those of grade_llm_judge, for the fixtures of today
\* in their order; a reply that is no verdict is never turned into a score,
\* it keeps the whole agreement from being computed, and so does a reply that
\* cannot be read, which ends the labelling.
LabelsAreTheGraders ==
  Fresh => \A r, s \in [1 .. 2 -> Replies] : \A today \in {<<1, 2>>, <<2, 1>>, <<1, 2, 3>>} :
    AgreesWithGrader(<<1, 2>>, r, s, today)
=============================================================================
