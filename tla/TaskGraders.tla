---------------------------- MODULE TaskGraders ----------------------------
(***************************************************************************)
(* graders/: the deterministic graders of a workspace task, which read a   *)
(* finished trajectory and never replay it.                                *)
(*                                                                         *)
(* A trajectory is a record: malformed, an answer could not be parsed;     *)
(* calls, every attempted call in order; answer, the last message; initial *)
(* and final, the world the run was given and the one it left.             *)
(*                                                                         *)
(* A verification is the sequence of the leaf specs of an AllOf, one for a *)
(* spec that is no AllOf: nested, an AllOf passes when its leaves do and   *)
(* reports the first of them that fails.                                   *)
(***************************************************************************)
EXTENDS WorkspaceWorld, Sequences, SequencesExt

\* The leaf specs there are without a judge, and the constraints of a trajectory.
IsLeafSpec(spec) ==
  /\ spec.type \in {"output_match", "tool_call_match", "final_state", "trajectory"}
  /\ spec.type = "trajectory" =>
       /\ spec.constraints \in Seq(ToSet(spec.constraints))
       /\ \A c \in ToSet(spec.constraints) :
            /\ c.type \in {"no_tool_call", "max_tool_calls", "only_modifies"}
            /\ c.type = "max_tool_calls" => c.n \in Int

\* A GradeResult is whether it passed and its failure_reason.
Pass          == [passed |-> TRUE, reason |-> "none"]
Fail(reason)  == [passed |-> FALSE, reason |-> reason]

\* grade_all_of: every part is graded, and the reason is the first failing
\* part's, even "none".
Conjunction(parts) ==
  LET failing == {i \in DOMAIN parts : ~parts[i].passed}
  IN IF failing = {} THEN Pass ELSE Fail(parts[Min(failing)].reason)

-----------------------------------------------------------------------------
(* tool_call.py: the calls against the expected calls.                     *)

Times(x, s) == Cardinality({i \in DOMAIN s : s[i] = x})

SameBag(s, t) ==
  \A x \in ToSet(s) \cup ToSet(t) : Times(x, s) = Times(x, t)

NamesOf(calls) == [i \in DOMAIN calls |-> calls[i].name]

CountMismatch(observed, expected) ==
  IF Len(observed) < Len(expected) THEN "missing_call" ELSE "extra_call"

\* Mutant: the order of the calls does not matter.
GradeSequenceUnordered(observed, expected) ==
  IF SameBag(observed, expected) THEN Pass ELSE Fail("wrong_args")

\* _grade_sequence: the first position that differs names the reason.
GradeSequence(observed, expected) ==
  IF observed = expected THEN Pass
  ELSE IF Len(observed) # Len(expected) THEN Fail(CountMismatch(observed, expected))
  ELSE IF SameBag(observed, expected) THEN Fail("order_mismatch")
  ELSE LET p == Min({i \in DOMAIN expected : observed[i] # expected[i]})
       IN Fail(IF observed[p].name # expected[p].name THEN "wrong_tool" ELSE "wrong_args")

\* _grade_multiset.
GradeMultiset(observed, expected) ==
  IF SameBag(observed, expected) THEN Pass
  ELSE IF Len(observed) # Len(expected) THEN Fail(CountMismatch(observed, expected))
  ELSE Fail(IF SameBag(NamesOf(observed), NamesOf(expected))
            THEN "wrong_args" ELSE "wrong_tool")

\* The verdict on a call the validation turns away.
RefusalReason(refusal) ==
  IF refusal = "unknown_tool" THEN "wrong_tool" ELSE "schema_violation"

\* Mutant: unknown tools are looked for first, in the whole run.
FirstRefusalByTool(calls) ==
  IF \E i \in DOMAIN calls : Refusal(calls[i]) = "unknown_tool" THEN "unknown_tool"
  ELSE IF \E i \in DOMAIN calls : Refusal(calls[i]) # "none" THEN "invalid_args"
  ELSE "none"

\* The validation tier: call by call, an unknown tool before its arguments.
FirstRefusal(calls) ==
  LET refused == {i \in DOMAIN calls : Refusal(calls[i]) # "none"}
  IN IF refused = {} THEN "none" ELSE Refusal(calls[Min(refused)])

\* grade_tool_call_match.
GradeToolCalls(spec, tr) ==
  IF tr.malformed THEN Fail("malformed_call")
  ELSE IF FirstRefusal(tr.calls) # "none" THEN Fail(RefusalReason(FirstRefusal(tr.calls)))
  ELSE IF spec.match = "multiset" THEN GradeMultiset(tr.calls, spec.expected)
  ELSE GradeSequence(tr.calls, spec.expected)

-----------------------------------------------------------------------------
(* state.py and policy.py: the final world.                                *)

LeavesOf(container, records) ==
  UNION {{<<<<container, id, field>>, records[id][field]>> :
            field \in DOMAIN records[id]} : id \in DOMAIN records}

\* _leaf_paths with their values; an empty container has none.
Leaves(w) == LeavesOf("tickets", w.tickets) \cup LeavesOf("emails", w.emails)

\* resolve_path and _contains: what is under a path of the world, the keys of a
\* container or of a record; a text, which is one value here, holds itself.
Under(path, w) ==
  {IF leaf[1] = path THEN leaf[2] ELSE leaf[1][Len(path) + 1] :
     leaf \in {l \in Leaves(w) : IsPrefix(path, l[1])}}

\* grade_state_constraint: a path that leads nowhere fails.
Satisfied(c, w) ==
  \/ c.type = "state_equals" /\ <<c.path, c.expected>> \in Leaves(w)
  \/ c.type = "state_contains" /\ c.expected \in Under(c.path, w)

\* grade_final_state: a miss is no breach, its reason is "none".
GradeFinalState(spec, tr) ==
  IF \A i \in DOMAIN spec.constraints : Satisfied(spec.constraints[i], tr.final)
  THEN Pass ELSE Fail("none")

\* Mutant: only what was there before is compared.
ChangedOld(before, after) == {leaf[1] : leaf \in Leaves(before) \ Leaves(after)}

\* _changed_leaf_paths: added, removed or changed.
Changed(before, after) ==
  {leaf[1] : leaf \in (Leaves(before) \ Leaves(after)) \cup (Leaves(after) \ Leaves(before))}

\* _is_covered: an allowed path is a prefix of the path, segment by segment.
Covered(path, allowed) == \E prefix \in allowed : IsPrefix(prefix, path)

\* _check_constraint: what a constraint is breached by, or "none".
Breach(c, tr) ==
  CASE c.type = "no_tool_call" ->
         IF \E i \in DOMAIN tr.calls : tr.calls[i].name = c.name
         THEN "forbidden_action" ELSE "none"
    [] c.type = "max_tool_calls" ->
         IF Len(tr.calls) > c.n THEN "step_limit_exceeded" ELSE "none"
    [] c.type = "only_modifies" ->
         IF \A path \in Changed(tr.initial, tr.final) : Covered(path, c.paths)
         THEN "none" ELSE "forbidden_action"

\* grade_trajectory_spec: the first breach is the reason.
GradePolicy(spec, tr) ==
  Conjunction([i \in DOMAIN spec.constraints |->
                 LET b == Breach(spec.constraints[i], tr)
                 IN IF b = "none" THEN Pass ELSE Fail(b)])

-----------------------------------------------------------------------------
\* grade_output_match: the last assistant message; a run without one misses.
GradeOutput(spec, tr) == IF tr.answer = spec.expected THEN Pass ELSE Fail("none")

\* grade_trajectory, for a leaf.
GradeLeaf(spec, tr) ==
  CASE spec.type = "output_match"    -> GradeOutput(spec, tr)
    [] spec.type = "tool_call_match" -> GradeToolCalls(spec, tr)
    [] spec.type = "final_state"     -> GradeFinalState(spec, tr)
    [] spec.type = "trajectory"      -> GradePolicy(spec, tr)

\* grade_trajectory.
Grade(verification, tr) ==
  Conjunction([i \in DOMAIN verification |-> GradeLeaf(verification[i], tr)])
=============================================================================
