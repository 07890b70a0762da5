---------------------------- MODULE HistoryTrim ----------------------------
(***************************************************************************)
(* runners/history.py in the loop that uses it (runners/loop.py): before   *)
(* every request the older tool results are replaced by a marker, as far   *)
(* as a budget of characters asks for.  The record keeps them all; the     *)
(* trim starts from the record each time.                                  *)
(*                                                                         *)
(* A result is its size on the wire.  Only tool results are counted or     *)
(* replaced, so the other turns are left out; what lengthens the record is *)
(* the loop that uses this module.                                         *)
(***************************************************************************)
EXTENDS Integers, Sequences, FiniteSets, FiniteSetsExt, Totals

CONSTANT Budget  \* char_budget

VARIABLES results,  \* sizes of the tool results in the record, oldest first
          kept,     \* those the last request carried in full
          turn      \* "request": the loop is about to ask the provider

SizeOf(S, sizes) == Total([j \in S |-> sizes[j]])

\* Mutant: the newest result is kept and not counted.
KeptUncounted(sizes) ==
  LET n == Len(sizes)
      After[i \in 0 .. n] ==
        IF i = 0 THEN {}
        ELSE LET newer == After[i - 1]
                 j == n + 1 - i
             IN IF i = 1 \/ SizeOf(newer \ {n}, sizes) + sizes[j] <= Budget
                THEN newer \cup {j} ELSE newer
  IN After[n]

\* trim_tool_result_history: newest first, the newest always, each older one if
\* it fits into what the newer ones left of the budget.
Kept(sizes) ==
  LET n == Len(sizes)
      After[i \in 0 .. n] ==     \* after the i newest results
        IF i = 0 THEN {}
        ELSE LET newer == After[i - 1]
                 j == n + 1 - i
             IN IF i = 1 \/ SizeOf(newer, sizes) + sizes[j] <= Budget
                THEN newer \cup {j} ELSE newer
  IN After[n]

Request ==
  /\ turn = "request"
  /\ kept' = Kept(results)
  /\ turn' = "answer"
  /\ UNCHANGED results

-----------------------------------------------------------------------------

\* What a request carries in full fits the budget, unless the newest result
\* alone does not: then it carries that one.
KeptFits ==
  turn = "answer" /\ results # <<>> =>
    LET n == Len(results)
    IN /\ n \in kept /\ kept \subseteq 1 .. n
       /\ (SizeOf(kept, results) <= Budget \/ kept = {n})

\* A result is left out only where what is newer and kept leaves it no room.
ElidedForRoom ==
  turn = "answer" =>
    \A j \in (1 .. Len(results)) \ kept :
      SizeOf({i \in kept : i > j}, results) + results[j] > Budget
=============================================================================
