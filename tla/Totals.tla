------------------------------- MODULE Totals -------------------------------
(***************************************************************************)
(* The sum of a family of counts, Python's sum() over an iterable of them. *)
(* It is the number of marks there are if every member is given as many as *)
(* it counts, and so has nothing recursive about it.                       *)
(***************************************************************************)
EXTENDS Integers, FiniteSets

Marks(counts) == UNION {{x} \X (1 .. counts[x]) : x \in DOMAIN counts}
Total(counts) == Cardinality(Marks(counts))
=============================================================================
