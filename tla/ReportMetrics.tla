--------------------------- MODULE ReportMetrics ----------------------------
(***************************************************************************)
(* The arithmetic of the M1 report: metrics/multiplicity.py and            *)
(* binomial.py.  A probability is a numerator over a fixed denominator; a  *)
(* rejection is decided by comparing products, as the floats would without *)
(* rounding.                                                               *)
(***************************************************************************)
EXTENDS Integers, FiniteSets, Sequences, FiniteSetsExt, Totals

(* Holm's step-down over p-values ps[i] / D at level alpha / D.            *)

\* The position of i in the stable ascending sort, from 0.
Rank(ps, i) == Cardinality({j \in DOMAIN ps : ps[j] < ps[i] \/ (ps[j] = ps[i] /\ j < i)})

\* p_(r) <= alpha / (m - r).
BelowThreshold(ps, alpha, i) == ps[i] * (Len(ps) - Rank(ps, i)) <= alpha

\* Mutant: each p-value against its own threshold, with no stop.
RejectedNoStop(ps, alpha, i) == BelowThreshold(ps, alpha, i)

\* holm_step_down: `rejected` of the i-th p-value.
Rejected(ps, alpha, i) ==
  \A j \in DOMAIN ps : Rank(ps, j) <= Rank(ps, i) => BelowThreshold(ps, alpha, j)

\* `adjusted_p`, as a numerator over D.
AdjustedP(ps, d, i) ==
  Max({Min({d, (Len(ps) - Rank(ps, j)) * ps[j]}) :
         j \in {k \in DOMAIN ps : Rank(ps, k) <= Rank(ps, i)}})

-----------------------------------------------------------------------------
(* fisher_exact_two_sided over two groups of aN and bN tasks, of which a   *)
(* and b are reliable.  The p-value is Extreme over Comb(aN + bN, a + b).  *)

\* math.comb: the ways to choose k of n.
Comb(n, k) == Cardinality(kSubset(k, 1 .. n))

\* _hypergeom_pmf, times that denominator.
Tables(k, aN, bN, total) == Comb(aN, k) * Comb(bN, total - k)

\* Mutant: only the tables less likely than the observed one.
ExtremeStrict(a, aN, b, bN) ==
  LET total == a + b
      ks == {k \in Max({0, total - bN}) .. Min({aN, total}) :
               Tables(k, aN, bN, total) < Tables(a, aN, bN, total)}
  IN Total([k \in ks |-> Tables(k, aN, bN, total)])

\* fisher_exact_two_sided, times that denominator.
Extreme(a, aN, b, bN) ==
  LET total == a + b
      ks == {k \in Max({0, total - bN}) .. Min({aN, total}) :
               Tables(k, aN, bN, total) <= Tables(a, aN, bN, total)}
  IN Total([k \in ks |-> Tables(k, aN, bN, total)])
=============================================================================
