-------------------------- MODULE AblationCampaign --------------------------
(***************************************************************************)
(* run-f-ablation (cli.py) and experiments/ablation_order.py: the units of *)
(* a 2x2 experiment are attempted in one seeded order across all models;   *)
(* each graded unit is a row of its model's artifact, and what was         *)
(* attempted goes to one realized-order sidecar when the command ends.     *)
(*                                                                         *)
(* The seed is fixed in the source: every invocation draws the same        *)
(* shuffles, and lays them over the roster it has read.  Any shuffles a    *)
(* seed can give are considered.                                           *)
(***************************************************************************)
EXTENDS Integers, Sequences, FiniteSets, SequencesExt

CONSTANTS Models, Bases, Arms, K,
          MaxRuns      \* bound: invocations of the command

ASSUME AblationAssumption ==
  /\ IsFiniteSet(Models) /\ IsFiniteSet(Bases) /\ IsFiniteSet(Arms)
  /\ Models # {} /\ Bases # {} /\ Arms # {}
  /\ K \in Nat \ {0} /\ MaxRuns \in Nat

VARIABLES shuffles,   \* what the seed makes of the arms, block by block
          order,      \* ablation_run_order: a sequence of units
          todo,       \* the places of the order still to be run
          shut,       \* the models of the roster whose artifact is to be opened
          opened,     \* the models whose artifact this invocation has opened
          artifact,   \* rows of each model's artifact, on disk
          realized,   \* the units this invocation has attempted
          sidecar,    \* the sidecar on disk
          process,    \* "idle", "opening", "running", "graded" or "ended"
          selected,   \* the arms of this invocation
          runs        \* invocations so far

vars == <<shuffles, order, todo, shut, opened, artifact, realized, sidecar,
          process, selected, runs>>

Units == [model : Models, base : Bases, arm : Arms, rep : 1 .. K]

\* A roster: some of the models, in an order.
Rosters == UNION {SetToSeqs(R) : R \in (SUBSET Models) \ {{}}}

\* The blocks of an order for n models, from 0, hold each arm once.
Blocks(n)  == n * Cardinality(Bases) * K
BlockOf(i) == (i - 1) \div Cardinality(Arms)

\* Mutant: the arms of a model are run one after the other.
UnitAtByArm(models, bases, shuffled, i) ==
  LET ofModel == Cardinality(Arms) * Cardinality(Bases) * K
      ofArm == Cardinality(Bases) * K
  IN [model |-> models[((i - 1) \div ofModel) + 1],
      base |-> bases[(((i - 1) \div K) % Cardinality(Bases)) + 1],
      arm |-> shuffled[0][(((i - 1) \div ofArm) % Cardinality(Arms)) + 1],
      rep |-> ((i - 1) % K) + 1]

\* Model by model, base task by base task, repetition by repetition; the arms
\* of a block as they were shuffled.
UnitAt(models, bases, shuffled, i) ==
  [model |-> models[((BlockOf(i) \div K) \div Cardinality(Bases)) + 1],
   base |-> bases[((BlockOf(i) \div K) % Cardinality(Bases)) + 1],
   arm |-> shuffled[BlockOf(i)][((i - 1) % Cardinality(Arms)) + 1],
   rep |-> (BlockOf(i) % K) + 1]

\* ablation_run_order.
RunOrder(models, bases) ==
  [i \in 1 .. Blocks(Len(models)) * Cardinality(Arms) |->
     UnitAt(models, bases, shuffles, i)]

Init ==
  /\ shuffles \in [0 .. Blocks(Cardinality(Models)) - 1 -> SetToSeqs(Arms)]
  /\ order = <<>> /\ todo = {} /\ shut = <<>> /\ opened = {}
  /\ realized = <<>> /\ sidecar = <<>>
  /\ artifact = [m \in Models |-> <<>>]
  /\ process = "idle" /\ selected = {} /\ runs = 0

\* The filter of --arms: a place keeps its rank.
Selected(o, arms) == {i \in DOMAIN o : o[i].arm \in arms}
Filtered(o, arms) == SelectSeq(o, LAMBDA u : u.arm \in arms)

\* The loop's `unit` is the first that is left.
First == CHOOSE i \in todo : \A j \in todo : i <= j
Unit  == order[First]

\* The command starts, with the roster as it is now.
Start ==
  /\ process \in {"idle", "ended"}
  /\ runs < MaxRuns
  /\ runs' = runs + 1
  /\ \E roster \in Rosters, bases \in SetToSeqs(Bases), arms \in (SUBSET Arms) \ {{}} :
       /\ order' = RunOrder(roster, bases)
       /\ selected' = arms
       /\ todo' = Selected(order', arms)
       /\ shut' = roster
  /\ opened' = {} /\ realized' = <<>>
  /\ process' = "opening"
  /\ UNCHANGED <<shuffles, artifact, sidecar>>

\* A dry run only writes the order it would follow.
DryRun ==
  /\ process \in {"idle", "ended"}
  /\ runs < MaxRuns
  /\ runs' = runs + 1
  /\ \E roster \in Rosters, bases \in SetToSeqs(Bases), arms \in (SUBSET Arms) \ {{}} :
       sidecar' = Filtered(RunOrder(roster, bases), arms)
  /\ process' = "idle"
  /\ UNCHANGED <<shuffles, order, todo, shut, opened, artifact, realized, selected>>

\* The next artifact of the roster is opened, which empties it.
Open ==
  /\ process = "opening"
  /\ artifact' = [artifact EXCEPT ![Head(shut)] = <<>>]
  /\ opened' = opened \cup {Head(shut)}
  /\ shut' = Tail(shut)
  /\ process' = IF shut' = <<>> THEN "running" ELSE "opening"
  /\ UNCHANGED <<shuffles, order, todo, realized, sidecar, selected, runs>>

\* An attempt is run and graded, and its row flushed ...
Attempt ==
  /\ process = "running" /\ todo # {}
  /\ artifact' = [artifact EXCEPT ![Unit.model] = Append(@, Unit)]
  /\ process' = "graded"
  /\ UNCHANGED <<shuffles, order, todo, shut, opened, realized, sidecar, selected, runs>>

\* ... and then it is taken down as realized.
Realize ==
  /\ process = "graded"
  /\ realized' = Append(realized, Unit)
  /\ todo' = todo \ {First}
  /\ process' = "running"
  /\ UNCHANGED <<shuffles, order, shut, opened, artifact, sidecar, selected, runs>>

\* Mutant: the order that was planned is written.
FinallyPlanned ==
  /\ sidecar' = Filtered(order, selected)
  /\ UNCHANGED <<shuffles, order, todo, shut, opened, artifact, realized, selected, runs>>

\* The finally clause: the sidecar is replaced at once (_atomic_write).
Finally ==
  /\ sidecar' = realized
  /\ UNCHANGED <<shuffles, order, todo, shut, opened, artifact, realized, selected, runs>>

\* The order is done; or, before the next row: HTTP 401 or 403, no provider,
\* no git, an exception nobody catches; or an artifact cannot be opened.
Ends == process \in {"opening", "running"} /\ process' = "ended" /\ Finally

\* An interrupt from the keyboard, after the row and before the note of it.
Interrupted == process = "graded" /\ process' = "idle" /\ Finally

\* The machine goes down, or the process is killed, at any moment.
Dies ==
  /\ process \in {"opening", "running", "graded"}
  /\ process' = "idle"
  /\ UNCHANGED <<shuffles, order, todo, shut, opened, artifact, realized, sidecar,
                 selected, runs>>

Next == Start \/ DryRun \/ Open \/ Attempt \/ Realize \/ Ends \/ Interrupted \/ Dies

Spec == Init /\ [][Next]_vars
-----------------------------------------------------------------------------

Rows(m) == ToSet(artifact[m])

\* The rows of a model, r, are what a list of units, s, has of it, in its order.
IsPartOf(r, s, m) ==
  LET places == {i \in DOMAIN s : s[i].model = m}
  IN /\ Len(r) = Cardinality(places)
     /\ \A i \in places : r[Cardinality({j \in places : j <= i})] = s[i]

\* When the command has ended, complete or not, the sidecar lists exactly the
\* rows of the artifacts it opened, model by model in the order of the file, and
\* no unit twice; what an earlier roster left beside them it does not claim.
AuditIsExact ==
  process = "ended" =>
    /\ \A i \in DOMAIN sidecar : sidecar[i].model \in opened
    /\ \A m \in opened : /\ IsPartOf(artifact[m], sidecar, m)
                          /\ Cardinality(Rows(m)) = Len(artifact[m])

\* No arm gets ahead of another of the same invocation by more than one
\* repetition of a base task: the provider's drift hits them all.
DriftIsShared ==
  LET count(m, b, a) == Cardinality({u \in Rows(m) : u.base = b /\ u.arm = a})
  IN \A m \in opened, b \in Bases, a1, a2 \in selected :
       process # "idle" => count(m, b, a1) <= count(m, b, a2) + 1
=============================================================================
