---------------------------- MODULE Calibration -----------------------------
(***************************************************************************)
(* The judge and its calibration, all pure: graders/judge.py and           *)
(* runners/judge_edge.py (a reply becomes a verdict or an error, a verdict *)
(* a grade), calibrate/packet.py and provisional.py (verdicts or people's  *)
(* scores become packets, two packets an agreement), metrics/agreement.py. *)
(*                                                                         *)
(* A reply is what the provider answered: kind, "odd" where it is no JSON  *)
(* or not of the shape of an answer, and of a text the numbers on its      *)
(* SCORE lines.  An optional score is a sequence of at most one.  A kappa  *)
(* is a fraction [num, den].                                               *)
(***************************************************************************)
EXTENDS Integers, Sequences, FiniteSets, Totals

Scale         == 1 .. 5
PassThreshold == 4
\* `threshold` of the compute command.
Threshold     == 4

-----------------------------------------------------------------------------
(* One verdict.                                                            *)

JudgeVerdict(s)    == [kind |-> "verdict", score |-> s]
JudgeError(e) == [kind |-> e, score |-> 0]

\* Mutant: the last SCORE line is taken.
ParseLast(scores) ==
  IF scores = <<>> THEN JudgeError("no_score")
  ELSE IF scores[Len(scores)] \notin Scale THEN JudgeError("out_of_range")
  ELSE JudgeVerdict(scores[Len(scores)])

\* parse_judge_response: the same score twice is one score.
ParseJudgeResponse(scores) ==
  LET distinct == {scores[i] : i \in DOMAIN scores}
  IN IF distinct = {} THEN JudgeError("no_score")
     ELSE IF Cardinality(distinct) > 1 THEN JudgeError("conflicting_scores")
     ELSE IF ~(distinct \subseteq Scale) THEN JudgeError("out_of_range")
     ELSE JudgeVerdict(CHOOSE s \in distinct : TRUE)

\* What chat_completion and run_judge catch nothing of.
Raises(reply) == reply.kind = "odd"

\* run_judge, where nothing is raised; an empty text has no score.
RunJudge(reply) ==
  IF reply.kind = "text" THEN ParseJudgeResponse(reply.scores) ELSE JudgeError(reply.kind)

\* grade_llm_judge, given what the map holds for the prompt.
JudgePasses(value) == value.kind = "verdict" /\ value.score >= PassThreshold

-----------------------------------------------------------------------------
(* Packets: the fixtures' ids and a score for each.                        *)

\* build_packet.
Blank(ids) == [ids |-> ids, scores |-> [i \in DOMAIN ids |-> <<>>]]

\* No file; there is nothing to import.
NoPacket == Blank(<<>>)

\* run_provisional_labeling: an error leaves its item unscored, and nothing is
\* written where a reply raised.
ProvisionalPacket(ids, replies) ==
  IF \E i \in DOMAIN ids : Raises(replies[i]) THEN NoPacket
  ELSE LET value(i) == RunJudge(replies[i])
       IN [ids |-> ids,
           scores |-> [i \in DOMAIN ids |-> IF value(i).kind = "verdict"
                                            THEN <<value(i).score>> ELSE <<>>]]

\* import_packet: the ids in order, every item scored and within the scale.
\* The digests and the rubric are not compared.
Importable(packet, expected) ==
  /\ packet.ids = expected.ids
  /\ \A i \in DOMAIN packet.scores :
       packet.scores[i] # <<>> /\ packet.scores[i][1] \in Scale

\* _binarize, of an imported packet.
Labels(packet) == [i \in DOMAIN packet.ids |-> packet.scores[i][1] >= Threshold]
Scores(packet) == [i \in DOMAIN packet.ids |-> packet.scores[i][1]]

-----------------------------------------------------------------------------
(* Two raters' labels a and b of the same items.                           *)

LabelsOf(a, b) == {a[i] : i \in DOMAIN a} \cup {b[i] : i \in DOMAIN b}

\* confusion_matrix, one cell.
Cell(a, b, x, y) == Cardinality({i \in DOMAIN a : a[i] = x /\ b[i] = y})

Count(a, x) == Cardinality({i \in DOMAIN a : a[i] = x})

\* observed_agreement, times n.
Observed(a, b) == Cardinality({i \in DOMAIN a : a[i] = b[i]})

\* Mutant: the expectation is taken over the first rater's labels alone.
ExpectedOfFirst(a, b) ==
  Total([x \in LabelsOf(a, b) |-> Count(a, x) * Count(a, x)])

\* expected_agreement, times n squared.
Expected(a, b) ==
  Total([x \in LabelsOf(a, b) |-> Count(a, x) * Count(b, x)])

\* cohens_kappa: (p_o - p_e) / (1 - p_e), 0 where that is 0 / 0.
Degenerate(a, b) == Expected(a, b) = Len(a) * Len(a)

Kappa(a, b) ==
  IF Degenerate(a, b) THEN [num |-> 0, den |-> 1]
  ELSE [num |-> Len(a) * Observed(a, b) - Expected(a, b),
        den |-> Len(a) * Len(a) - Expected(a, b)]

\* kappa_bootstrap_ci, one resample of the items.
Resample(a, draw) == [i \in DOMAIN draw |-> a[draw[i]]]

\* _quadratic_weight over c ordered categories, times (c - 1) squared.
Weight(x, y, c) == (c - 1) * (c - 1) - (x - y) * (x - y)

\* weighted_kappa over the categories 1 .. c; p_o from the confusion matrix.
WeightedObserved(a, b, c) ==
  Total([p \in {<<a[i], b[i]>> : i \in DOMAIN a} |->
           Weight(p[1], p[2], c) * Cell(a, b, p[1], p[2])])

WeightedExpected(a, b, c) ==
  Total([p \in (1 .. c) \X (1 .. c) |->
           Weight(p[1], p[2], c) * Count(a, p[1]) * Count(b, p[2])])

WeightedKappa(a, b, c) ==
  LET n == Len(a)
      most == n * n * (c - 1) * (c - 1)
  IN IF WeightedExpected(a, b, c) = most THEN [num |-> 0, den |-> 1]
     ELSE [num |-> n * WeightedObserved(a, b, c) - WeightedExpected(a, b, c),
           den |-> most - WeightedExpected(a, b, c)]

\* _run_compute: the packets the report is made of, and its labels.  There is
\* no agreement of no items.
Compute(p, q, expected) ==
  IF Importable(p, expected) /\ Importable(q, expected) /\ expected.ids # <<>>
  THEN [made |-> TRUE, labels |-> <<Labels(p), Labels(q)>>,
        kappa |-> Kappa(Labels(p), Labels(q)),
        weighted |-> WeightedKappa(Scores(p), Scores(q), 5)]
  ELSE [made |-> FALSE, labels |-> <<<<>>, <<>>>>,
        kappa |-> [num |-> 0, den |-> 1], weighted |-> [num |-> 0, den |-> 1]]
=============================================================================
