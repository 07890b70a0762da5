-------------------------- MODULE CampaignPromise --------------------------
(***************************************************************************)
(* What the artifacts of a campaign promise to whoever scores them: each   *)
(* task of the corpus gets one verdict, and keeps it, however often the    *)
(* campaign is interrupted and resumed.  The one thing that may undo a     *)
(* verdict is a process that dies inside a write.                          *)
(***************************************************************************)
CONSTANT Tasks

VARIABLES verdict,
          damaged   \* a process has died inside a write

Verdicts == {"scored", "void"}

Init == verdict = [t \in Tasks |-> "open"] /\ damaged = FALSE

\* Some tasks are decided together: a sidecar names all void tasks at once.
Decide(decided) ==
  /\ \A t \in decided : verdict[t] = "open"
  /\ \E v \in [decided -> Verdicts] :
       verdict' = [t \in Tasks |-> IF t \in decided THEN v[t] ELSE verdict[t]]

Next ==
  \/ damaged'
  \/ ~damaged' /\ \E decided \in SUBSET Tasks : Decide(decided)

Spec == Init /\ [][Next]_<<verdict, damaged>>
=============================================================================
