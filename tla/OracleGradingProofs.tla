------------------------ MODULE OracleGradingProofs ------------------------
(***************************************************************************)
(* Proofs about CodeWorld and OracleGrading.  Whatever sequence of tool    *)
(* calls a model makes, the tree it leaves behind can be written to a disk *)
(* that ignores case and normalization without two of its paths meeting    *)
(* there.  The grading step is a function of the tree the model left: the  *)
(* tools of a chat keep it writable, and the claude CLI found it on a      *)
(* disk.  Every property of a grade follows from the two.                  *)
(*                                                                         *)
(* The code compares two paths segment by segment and stops at the first   *)
(* difference; the disk compares them as wholes.  That the first is enough *)
(* for the second is lemma OnlyTheFirst, an argument by the least index at *)
(* which the two paths differ.                                             *)
(***************************************************************************)
EXTENDS OracleGrading, WellFoundedInduction, TLAPS

\* A set of natural numbers that is not empty has a least element.
LEMMA LeastNumber ==
  ASSUME NEW S \in SUBSET Nat, S # {}
  PROVE  \E m \in S : \A n \in S : m <= n
<1>1. \E x \in S : \A y \in S : ~(<<y, x>> \in OpToRel(<, Nat))
  BY NatLessThanWellFounded, WFMin
<1>2. PICK m \in S : \A y \in S : ~(<<y, m>> \in OpToRel(<, Nat))
  BY <1>1
<1>3. \A y \in S : <<y, m>> \in Nat \X Nat
  OBVIOUS
<1>4. \A y \in S : ~(y < m)
  BY <1>2, <1>3 DEF OpToRel
<1>5. QED
  BY <1>4

\* Where two paths do not collide, what the disk takes for the same is the
\* same.
LEMMA OnlyTheFirst ==
  ASSUME NEW p \in Seq(Segs), NEW q \in Seq(Segs), ~PrefixCollision(p, q),
         NEW i \in Shared(p, q), AliasUpTo(i, p, q)
  PROVE  SameUpTo(i, p, q)
<1>1. SUFFICES ASSUME ~SameUpTo(i, p, q) PROVE FALSE
  OBVIOUS
<1> DEFINE S == {j \in 1 .. i : p[j] # q[j]}
<1>2. i \in Nat /\ S \in SUBSET Nat /\ S # {}
  BY <1>1 DEF SameUpTo, Shared
<1>3. PICK m \in S : \A n \in S : m <= n
  BY <1>2, LeastNumber
<1>4. m \in Shared(p, q) /\ m \in 1 .. i
  BY <1>2, <1>3 DEF Shared
<1>5. SameUpTo(m - 1, p, q)
  BY <1>2, <1>3, <1>4 DEF SameUpTo
<1>6. p[m] # q[m] /\ Canon[p[m]] = Canon[q[m]]
  BY <1>3, <1>4 DEF AliasUpTo
<1>7. QED
  BY <1>4, <1>5, <1>6 DEF PrefixCollision

\* Two paths that do not collide are told apart by the disk.
LEMMA NoAlias ==
  ASSUME NEW p \in Seq(Segs), NEW q \in Seq(Segs), ~PrefixCollision(p, q)
  PROVE  ~Alias(p, q)
BY OnlyTheFirst DEF Alias

\* The converse: a collision is an alias, so the edge refuses no tree that is
\* materializable and free of reserved names.
LEMMA CollisionIsAlias ==
  ASSUME NEW p \in Seq(Segs), NEW q \in Seq(Segs), PrefixCollision(p, q)
  PROVE  Alias(p, q)
<1>1. PICK i \in Shared(p, q) : /\ SameUpTo(i - 1, p, q)
                                /\ p[i] # q[i]
                                /\ Canon[p[i]] = Canon[q[i]]
  BY DEF PrefixCollision
<1>2. i \in Nat \ {0}
  BY <1>1 DEF Shared
<1>3. \A j \in 1 .. i : j = i \/ j \in 1 .. (i - 1)
  BY <1>2
<1>4. AliasUpTo(i, p, q)
  BY <1>1, <1>3 DEF AliasUpTo, SameUpTo
<1>5. ~SameUpTo(i, p, q)
  BY <1>1, <1>2 DEF SameUpTo
<1>6. QED
  BY <1>4, <1>5 DEF Alias

\* Of two paths that do not collide, one stands in the way of the other only
\* if it is, letter for letter, a directory of it.
LEMMA ClashIsAncestor ==
  ASSUME NEW p \in Seq(Segs), NEW q \in Seq(Segs), ~PrefixCollision(p, q),
         p # <<>>, Clash(p, q)
  PROVE  IsAncestor(p, q)
<1>1. Len(p) \in Nat \ {0} /\ Len(q) \in Nat /\ Len(p) < Len(q)
  BY DEF Clash
<1>2. Len(p) \in Shared(p, q)
  BY <1>1 DEF Shared
<1>3. SameUpTo(Len(p), p, q)
  BY <1>2, OnlyTheFirst DEF Clash
<1>4. QED
  BY <1>1, <1>3 DEF IsAncestor

\* Neither path is the first or the second of a collision: the code compares
\* the new path with the old ones, in that order only.
LEMMA CollisionSymmetric ==
  ASSUME NEW p \in Seq(Segs), NEW q \in Seq(Segs), PrefixCollision(p, q)
  PROVE  PrefixCollision(q, p)
<1>1. PICK i \in Shared(p, q) : /\ SameUpTo(i - 1, p, q)
                                /\ p[i] # q[i]
                                /\ Canon[p[i]] = Canon[q[i]]
  BY DEF PrefixCollision
<1>2. i \in Shared(q, p)
  BY DEF Shared
<1>3. SameUpTo(i - 1, q, p)
  BY <1>1 DEF SameUpTo
<1>4. QED
  BY <1>1, <1>2, <1>3 DEF PrefixCollision

\* A path is no alias of itself and does not stand in its own way.
LEMMA WithItself ==
  ASSUME NEW p \in Seq(Segs)
  PROVE  ~Alias(p, p) /\ ~Clash(p, p)
<1>1. Len(p) \in Nat
  OBVIOUS
<1>2. QED
  BY <1>1 DEF Alias, Clash, SameUpTo

\* The check of one new path against every old one keeps the whole tree
\* materializable.
LEMMA NewPathFits ==
  ASSUME NEW tree \in SUBSET Paths, Materializable(tree),
         NEW p \in Paths, ~CollisionError(p, tree)
  PROVE  Materializable(tree \cup {p})
<1>1. Paths \in SUBSET Seq(Segs) /\ <<>> \notin Paths
  BY CodeAssumption
<1>2. ASSUME NEW q \in tree
      PROVE  ~Clash(p, q) /\ ~Alias(p, q) /\ ~Clash(q, p) /\ ~Alias(q, p)
  <2>1. p \in Seq(Segs) /\ q \in Seq(Segs) /\ p # <<>> /\ q # <<>>
    BY <1>1
  <2>2. ~IsAncestor(p, q) /\ ~IsAncestor(q, p) /\ ~PrefixCollision(p, q)
    BY DEF CollisionError
  <2>3. ~PrefixCollision(q, p)
    BY <2>1, <2>2, CollisionSymmetric
  <2>4. ~Alias(p, q) /\ ~Alias(q, p)
    BY <2>1, <2>2, <2>3, NoAlias
  <2>5. ~Clash(p, q) /\ ~Clash(q, p)
    BY <2>1, <2>2, <2>3, ClashIsAncestor
  <2>6. QED
    BY <2>4, <2>5
<1>3. ~Clash(p, p) /\ ~Alias(p, p)
  BY <1>1, WithItself
<1>4. QED
  BY <1>2, <1>3 DEF Materializable

-----------------------------------------------------------------------------

NoReserved == Tree(files) \cap Reserved = {}

CodeInv == TypeOK /\ TreeMaterializable /\ NoReserved /\ EdgeNeverRefuses

\* A new content at p adds at most p to the tree.
LEMMA TreeAfterWrite ==
  ASSUME NEW p \in Paths, NEW c \in Contents, TypeOK,
         files' = [files EXCEPT ![p] = c]
  PROVE  Tree(files)' = Tree(files) \cup {p}
<1>1. c # Absent
  BY CodeAssumption
<1>2. \A q \in Paths : files'[q] = IF q = p THEN c ELSE files[q]
  BY DEF TypeOK
<1>3. QED
  BY <1>1, <1>2 DEF Tree

\* The initial trees satisfy the invariant.
LEMMA InitEstablishes == CodeInit => CodeInv
<1> SUFFICES ASSUME CodeInit PROVE CodeInv
  OBVIOUS
<1>1. PICK tree \in InitialTrees, c \in Contents \ Unencodable :
        files = [p \in Paths |-> IF p \in tree THEN c ELSE Absent]
  BY DEF CodeInit
<1>2. outcome = "none"
  BY DEF CodeInit
<1>3. tree \in SUBSET Paths /\ Materializable(tree) /\ tree \cap Reserved = {}
  BY CodeAssumption
<1>4. c # Absent
  BY CodeAssumption
<1>5. Tree(files) = tree
  BY <1>1, <1>3, <1>4 DEF Tree
<1>6. TypeOK
  BY <1>1, <1>2 DEF TypeOK, Outcomes
<1>7. EdgeNeverRefuses
  BY <1>2 DEF EdgeNeverRefuses
<1>8. QED
  BY <1>3, <1>5, <1>6, <1>7 DEF CodeInv, TreeMaterializable, NoReserved

\* A call that leaves the tree alone and answers with a success or a failure.
LEMMA ReadOnly ==
  ASSUME CodeInv, UNCHANGED files, outcome' \in {"success", "failure"}
  PROVE  CodeInv'
<1>1. Tree(files)' = Tree(files)
  BY DEF Tree
<1>2. QED
  BY <1>1 DEF CodeInv, TypeOK, Outcomes, TreeMaterializable, NoReserved,
              EdgeNeverRefuses

\* Every tool call keeps the invariant.
LEMMA InvariantInductive == CodeInv /\ [CodeStep]_codeVars => CodeInv'
<1> SUFFICES ASSUME CodeInv, [CodeStep]_codeVars PROVE CodeInv'
  OBVIOUS
<1> USE DEF CodeInv
<1>1. ASSUME NEW p \in Paths, NEW c \in Contents, WriteFile(p, c)
      PROVE  CodeInv'
  <2>1. CASE PathError(p) \/ CollisionError(p, Tree(files))
    BY <1>1, <2>1, ReadOnly DEF WriteFile, Fails
  <2>2. CASE ~PathError(p) /\ ~CollisionError(p, Tree(files))
    <3>1. files' = [files EXCEPT ![p] = c] /\ outcome' = "success"
      BY <1>1, <2>2 DEF WriteFile
    <3>2. Tree(files)' = Tree(files) \cup {p}
      BY <3>1, TreeAfterWrite
    <3>3. TreeMaterializable'
      <4>1. Tree(files) \in SUBSET Paths
        BY DEF Tree
      <4>2. Materializable(Tree(files) \cup {p})
        BY <2>2, <4>1, NewPathFits DEF TreeMaterializable
      <4>3. QED
        BY <3>2, <4>2 DEF TreeMaterializable
    <3>4. NoReserved'
      BY <2>2, <3>2 DEF NoReserved, PathError
    <3>5. TypeOK'
      BY <3>1 DEF TypeOK, Outcomes
    <3>6. EdgeNeverRefuses'
      BY <3>1 DEF EdgeNeverRefuses
    <3>7. QED
      BY <3>3, <3>4, <3>5, <3>6
  <2>3. QED
    BY <2>1, <2>2
<1>2. ASSUME NEW p \in Paths, NEW n \in 0 .. 2, NEW c \in Contents,
             StrReplace(p, n, c)
      PROVE  CodeInv'
  <2>1. CASE PathError(p) \/ files[p] = Absent \/ n # 1
    BY <1>2, <2>1, ReadOnly DEF StrReplace, Fails
  <2>2. CASE ~(PathError(p) \/ files[p] = Absent \/ n # 1)
    <3>1. files' = [files EXCEPT ![p] = c] /\ outcome' = "success"
      BY <1>2, <2>2 DEF StrReplace
    <3>2. Tree(files)' = Tree(files)
      <4>1. p \in Tree(files)
        BY <2>2 DEF Tree
      <4>2. QED
        BY <3>1, <4>1, TreeAfterWrite
    <3>3. TypeOK'
      BY <3>1 DEF TypeOK, Outcomes
    <3>4. EdgeNeverRefuses'
      BY <3>1 DEF EdgeNeverRefuses
    <3>5. QED
      BY <3>2, <3>3, <3>4 DEF TreeMaterializable, NoReserved
  <2>3. QED
    BY <2>1, <2>2
<1>3. ASSUME NEW p \in Paths, ReadFile(p)
      PROVE  CodeInv'
  BY <1>3, ReadOnly DEF ReadFile
<1>4. ASSUME RunTests
      PROVE  CodeInv'
  <2>1. files' = files /\ Tree(files)' = Tree(files)
    BY <1>4 DEF RunTests, Tree
  <2>2. Tree(files) \in SUBSET Seq(Segs)
    BY CodeAssumption DEF Tree
  <2>3. ~TreeRefused(Tree(files))
    BY <2>2, CollisionIsAlias DEF TreeRefused, TreeMaterializable,
                                  Materializable, NoReserved
  <2>4. outcome' \in {"OSError", "ValueError", "written"}
    BY <1>4, <2>3 DEF RunTests, Materialize
  <2>5. outcome' = "OSError" => \E p \in Tree(files) : ~NameFits(p)
    BY <1>4, <2>3 DEF RunTests, Materialize, TreeMaterializable, Materializable
  <2>6. EdgeNeverRefuses'
    BY <2>1, <2>4, <2>5 DEF EdgeNeverRefuses
  <2>7. TypeOK'
    BY <2>1, <2>4 DEF TypeOK, Outcomes
  <2>8. QED
    BY <2>1, <2>6, <2>7 DEF TreeMaterializable, NoReserved
<1>5. CASE Fails
  BY <1>5, ReadOnly DEF Fails
<1>6. CASE ListFiles
  BY <1>6, ReadOnly DEF ListFiles
<1>7. CASE UNCHANGED codeVars
  <2>1. Tree(files)' = Tree(files)
    BY <1>7 DEF codeVars, Tree
  <2>2. QED
    BY <1>7, <2>1 DEF codeVars, TypeOK, TreeMaterializable, NoReserved,
                      EdgeNeverRefuses
<1>8. QED
  BY <1>1, <1>2, <1>3, <1>4, <1>5, <1>6, <1>7 DEF CodeStep

\* The invariant holds of every behavior of the tools.
LEMMA CodeInvariant == CodeSpec => []CodeInv
BY InitEstablishes, InvariantInductive, PTL DEF CodeSpec

\* Type correctness: a file holds a content or is absent.
THEOREM TypeCorrect == CodeSpec => []TypeOK
<1>1. CodeInv => TypeOK
  BY DEF CodeInv
<1>2. QED
  BY <1>1, CodeInvariant, PTL

\* The tree the tools build can always be written down: no two of its paths
\* merge, and no file stands where another needs a directory.
THEOREM AlwaysMaterializable == CodeSpec => []TreeMaterializable
<1>1. CodeInv => TreeMaterializable
  BY DEF CodeInv
<1>2. QED
  BY <1>1, CodeInvariant, PTL

\* materialize_tree never refuses a tree the tools built, and an OSError is
\* about the length of a name.
THEOREM EdgeChecksRedundant == CodeSpec => []EdgeNeverRefuses
<1>1. CodeInv => EdgeNeverRefuses
  BY DEF CodeInv
<1>2. QED
  BY <1>1, CodeInvariant, PTL

-----------------------------------------------------------------------------
(* The grading of a tree.                                                  *)

\* What an attempt was given is what its tree and its machine allow.
GradedByJudge ==
  stage = "graded" =>
    \A s \in TaskSpecs : <<verdict[s], onDisk[s]>> \in Judge(s, files, machine[s])

\* What is known of the tree to be graded: all that CodeWorld promises, if
\* its tools made it.
TreeInv ==
  /\ TypeOK
  /\ TreeMaterializable
  /\ driver = "chat" \/ stage = "editing" => CodeInv

\* The edge is the driver's for good, so a task's specs stay what they are.
LEMMA SameSpecs ==
  [GradingNext]_gradingVars => edge' = edge /\ TaskSpecs' = TaskSpecs
<1>1. [GradingNext]_gradingVars => edge' = edge
  BY DEF GradingNext, gradingVars, Edit, ChatEnds, ClaudeEnds, ClaudeFails, GradeAttempt
<1>2. QED
  BY <1>1 DEF TaskSpecs

\* A tree that is read back from a disk: its files are these and no more.
LEMMA HeldTree ==
  ASSUME NEW tree \in SUBSET Paths, NEW g \in [tree -> Contents]
  PROVE  /\ Holding(tree, g) \in [Paths -> Contents \cup {Absent}]
         /\ Tree(Holding(tree, g)) = tree
<1>1. \A p \in tree : g[p] # Absent
  BY CodeAssumption
<1>2. QED
  BY <1>1 DEF Holding, Tree

\* The end of a claude process leaves a tree that was on a disk, or none.
LEMMA ClaudeTree ==
  ASSUME TreeInv, ClaudeEnds \/ ClaudeFails
  PROVE  TypeOK' /\ TreeMaterializable'
<1>1. PICK tree \in SUBSET Paths : /\ Materializable(tree)
                                   /\ \E g \in [tree -> Contents] :
                                        files' = Holding(tree, g)
  <2>1. CASE ClaudeEnds
    <3>1. PICK tree \in DiskTrees : \E g \in [tree -> Contents \ Unencodable] :
                                      files' = Holding(tree, g)
      BY <2>1 DEF ClaudeEnds
    <3>2. PICK g \in [tree -> Contents \ Unencodable] : files' = Holding(tree, g)
      BY <3>1
    <3>3. g \in [tree -> Contents]
      OBVIOUS
    <3>4. QED
      BY <3>1, <3>2, <3>3 DEF DiskTrees
  <2>2. CASE ClaudeFails
    <3>1. Holding({}, <<>>) = Holding({}, [p \in {} |-> Absent])
      BY DEF Holding
    <3>2. [p \in {} |-> Absent] \in [{} -> Contents]
      OBVIOUS
    <3>3. Materializable({})
      BY DEF Materializable
    <3>4. QED
      BY <2>2, <3>1, <3>2, <3>3 DEF ClaudeFails
  <2>3. QED
    BY <2>1, <2>2
<1>2. PICK g \in [tree -> Contents] : files' = Holding(tree, g)
  BY <1>1
<1>3. files' \in [Paths -> Contents \cup {Absent}] /\ Tree(files') = tree
  BY <1>2, HeldTree
<1>4. outcome' = outcome
  BY DEF ClaudeEnds, ClaudeFails
<1>5. QED
  BY <1>1, <1>3, <1>4 DEF TreeInv, TypeOK, TreeMaterializable

LEMMA TreeInvariant == GradingSpec => []TreeInv
<1>1. GradingInit => TreeInv
  BY InitEstablishes DEF GradingInit, TreeInv, CodeInv
<1>2. TreeInv /\ [GradingNext]_gradingVars => TreeInv'
  <2> SUFFICES ASSUME TreeInv, [GradingNext]_gradingVars PROVE TreeInv'
    OBVIOUS
  <2>1. CASE Edit
    <3>1. CodeInv'
      BY <2>1, InvariantInductive DEF Edit, TreeInv
    <3>2. QED
      BY <3>1 DEF TreeInv, CodeInv
  <2>2. ASSUME NEW answered \in BOOLEAN, ChatEnds(answered) PROVE TreeInv'
    <3>1. CodeInv /\ UNCHANGED codeVars
      BY <2>2 DEF ChatEnds, TreeInv
    <3>2. CodeInv'
      BY <3>1, InvariantInductive
    <3>3. QED
      BY <3>2 DEF TreeInv, CodeInv
  <2>3. CASE ClaudeEnds
    <3>1. driver' = "claude" /\ stage' = "ended"
      BY <2>3 DEF ClaudeEnds
    <3>2. QED
      BY <2>3, <3>1, ClaudeTree DEF TreeInv
  <2>4. CASE ClaudeFails
    <3>1. driver' = "claude" /\ stage' = "ended"
      BY <2>4 DEF ClaudeFails
    <3>2. QED
      BY <2>4, <3>1, ClaudeTree DEF TreeInv
  <2>5. CASE GradeAttempt
    <3>1. UNCHANGED codeVars /\ driver' = driver /\ stage = "ended" /\ stage' # "editing"
      BY <2>5 DEF GradeAttempt
    <3>2. TypeOK' /\ TreeMaterializable'
      BY <3>1 DEF TreeInv, codeVars, TypeOK, TreeMaterializable, Tree
    <3>3. CodeInv => CodeInv'
      BY <3>1, InvariantInductive
    <3>4. QED
      BY <3>1, <3>2, <3>3 DEF TreeInv
  <2>6. CASE UNCHANGED gradingVars
    <3>1. UNCHANGED codeVars /\ driver' = driver /\ stage' = stage
      BY <2>6 DEF gradingVars, codeVars
    <3>2. TypeOK' /\ TreeMaterializable'
      BY <3>1 DEF TreeInv, codeVars, TypeOK, TreeMaterializable, Tree
    <3>3. CodeInv => CodeInv'
      BY <3>1, InvariantInductive
    <3>4. QED
      BY <3>1, <3>2, <3>3 DEF TreeInv
  <2>7. QED
    BY <2>1, <2>2, <2>3, <2>4, <2>5, <2>6 DEF GradingNext
<1>3. QED
  BY <1>1, <1>2, PTL DEF GradingSpec

LEMMA JudgedInvariant == GradingSpec => []GradedByJudge
<1>1. GradingInit => GradedByJudge
  BY DEF GradingInit, GradedByJudge
<1>2. GradedByJudge /\ [GradingNext]_gradingVars => GradedByJudge'
  <2> SUFFICES ASSUME GradedByJudge, [GradingNext]_gradingVars PROVE GradedByJudge'
    OBVIOUS
  <2>1. CASE ~GradeAttempt /\ ~UNCHANGED gradingVars
    <3>1. stage' # "graded"
      BY <2>1 DEF GradingNext, Edit, ChatEnds, ClaudeEnds, ClaudeFails
    <3>2. QED
      BY <3>1 DEF GradedByJudge
  <2>2. CASE GradeAttempt
    <3>0. PICK m \in [TaskSpecs -> Machines] : \E r \in Judgements(m) :
            /\ machine' = m
            /\ onDisk' = [s \in TaskSpecs |-> r[s][2]]
            /\ IF \E s \in TaskSpecs : r[s][1] = "raised"
               THEN stage' = "raised" /\ UNCHANGED verdict
               ELSE stage' = "graded" /\ verdict' = [s \in TaskSpecs |-> r[s][1]]
      BY <2>2 DEF GradeAttempt
    <3>1. PICK r \in Judgements(m) :
            /\ machine' = m
            /\ onDisk' = [s \in TaskSpecs |-> r[s][2]]
            /\ IF \E s \in TaskSpecs : r[s][1] = "raised"
               THEN stage' = "raised" /\ UNCHANGED verdict
               ELSE stage' = "graded" /\ verdict' = [s \in TaskSpecs |-> r[s][1]]
      BY <3>0
    <3>2. files' = files
      BY <2>2 DEF GradeAttempt, codeVars
    <3>a. TaskSpecs' = TaskSpecs
      BY SameSpecs
    <3>3. SUFFICES ASSUME stage' = "graded", NEW s \in TaskSpecs
                   PROVE  <<verdict'[s], onDisk'[s]>> \in Judge(s, files, machine'[s])
      BY <3>2, <3>a DEF GradedByJudge
    <3>4. verdict'[s] = r[s][1] /\ onDisk'[s] = r[s][2]
      BY <3>1, <3>3
    <3>5. r[s] \in Judge(s, files, m[s])
      BY DEF Judgements
    <3>6. r[s] = <<r[s][1], r[s][2]>>
      BY <3>5 DEF Judge
    <3>7. QED
      BY <3>1, <3>4, <3>5, <3>6
  <2>3. CASE UNCHANGED gradingVars
    BY <2>3, SameSpecs
       DEF gradingVars, codeVars, gradeVars, GradedByJudge, Judge, Overlay, Collides, Tree
  <2>4. QED
    BY <2>1, <2>2, <2>3
<1>3. QED
  BY <1>1, <1>2, PTL DEF GradingSpec

-----------------------------------------------------------------------------

\* The tree of an overlay is the model's files and the oracle's.
LEMMA OverlaidTree ==
  ASSUME NEW f, NEW held \in SUBSET Paths
  PROVE  Tree(Overlay(f, held)) = Tree(f) \cup held
<1>1. OracleText # Absent
  BY OracleAssumption
<1>2. QED
  BY <1>1 DEF Tree, Overlay

\* Two paths without a collision that the disk takes for one file are one
\* path.
LEMMA SamePath ==
  ASSUME NEW p \in Seq(Segs), NEW q \in Seq(Segs), p # <<>>,
         ~PrefixCollision(p, q), SameFile(p, q)
  PROVE  p = q
<1>1. Len(p) \in Nat \ {0} /\ Len(q) = Len(p)
  BY DEF SameFile
<1>2. Len(p) \in Shared(p, q)
  BY <1>1 DEF Shared
<1>3. SameUpTo(Len(p), p, q)
  BY <1>2, OnlyTheFirst DEF SameFile
<1>4. QED
  BY <1>1, <1>3 DEF SameUpTo

\* A suite that ran, ran over the overlaid tree, and nothing collided.
LEMMA SuiteRanOverlaid ==
  ASSUME NEW s \in TaskSpecs, NEW f, NEW m \in Machines, NEW v \in Suites, NEW t,
         <<v, t>> \in Judge(s, f, m)
  PROVE  ~Collides(f, HeldOut[s]) /\ t = Overlay(f, HeldOut[s])
<1>1. v # "tree_collision" /\ v # "harness" /\ v # "raised"
  BY DEF Suites
<1>2. QED
  BY <1>1 DEF Judge

\* Every pass is the oracle's own: each suite ran, over a disk on which no
\* spelling of a held-out path names a file of the model.
LEMMA EarnedFromJudge == TreeInv /\ GradedByJudge /\ machine \in [TaskSpecs -> Machines]
                           => PassIsEarned
<1> SUFFICES ASSUME TreeInv, GradedByJudge, machine \in [TaskSpecs -> Machines],
                    stage = "graded", Passed, NEW s \in TaskSpecs
             PROVE  /\ onDisk[s] # NoTree
                    /\ \A p \in Paths, q \in HeldOut[s] :
                         SameFile(p, q) /\ onDisk[s][p] # Absent
                           => onDisk[s][p] = OracleText
  BY DEF PassIsEarned
<1>1. ~Collides(files, HeldOut[s]) /\ onDisk[s] = Overlay(files, HeldOut[s])
  <2>1. verdict[s] = "passed" /\ verdict[s] \in Suites
    BY DEF Passed, PassedSpec, Suites
  <2>2. <<verdict[s], onDisk[s]>> \in Judge(s, files, machine[s])
    BY DEF GradedByJudge
  <2>3. QED
    BY <2>1, <2>2, SuiteRanOverlaid
<1>2. \A p \in Paths, q \in HeldOut[s] :
        SameFile(p, q) /\ onDisk[s][p] # Absent => onDisk[s][p] = OracleText
  <2> SUFFICES ASSUME NEW p \in Paths, NEW q \in HeldOut[s], SameFile(p, q),
                      onDisk[s][p] # Absent, p \notin HeldOut[s]
               PROVE  FALSE
    BY <1>1 DEF Overlay
  <2>1. p \in Tree(files)
    BY <1>1 DEF Overlay, Tree
  <2>2. ~PrefixCollision(p, q)
    BY <1>1, <2>1 DEF Collides
  <2>3. p \in Seq(Segs) /\ q \in Seq(Segs) /\ p # <<>>
    BY CodeAssumption, OracleAssumption DEF TaskSpecs
  <2>4. QED
    BY <2>2, <2>3, SamePath
<1>3. onDisk[s] # NoTree
  <2>1. Paths # {}
    BY CodeAssumption
  <2>2. DOMAIN onDisk[s] = Paths
    BY <1>1 DEF Overlay
  <2>3. DOMAIN NoTree = {}
    BY DEF NoTree
  <2>4. QED
    BY <2>1, <2>2, <2>3
<1>4. QED
  BY <1>2, <1>3

-----------------------------------------------------------------------------

\* A status is one of those of a record; pytest's and a capable node's are
\* never taken for the mark of an incapable one.
LEMMA PytestRuns ==
  ASSUME NEW m PROVE RunSuite("pytest", m) \subseteq Suites \cup {"raised"}
<1>1. \A p : PytestResult(p).status \in Suites
  BY DEF PytestResult, TimedOut, Result, PytestStatus, Suites
<1>2. QED
  BY <1>1 DEF RunSuite, StatusOf

LEMMA CapableNodeRuns == RunSuite("node", "capable") \subseteq Suites \cup {"raised"}
<1>1. \A p : NodeResult(p).status \in Suites
  BY DEF NodeResult, TimedOut, Result, NodeStatus, Suites
<1>2. \A p \in NodeProcesses : p.code # 9
  BY DEF NodeProcesses, Died, Exit, Outlived
<1>3. \A p \in NodeProcesses : ~Incapable(NodeResult(p))
  BY <1>2 DEF Incapable, NodeResult, TimedOut, Result
<1>4. \A p \in NodeProcesses : StatusOf("node", p) \in {NodeResult(p).status, "raised"}
  BY <1>3 DEF StatusOf
<1>5. RunSuite("node", "capable") = {StatusOf("node", p) : p \in NodeProcesses}
  BY DEF RunSuite, Processes
<1>6. QED
  BY <1>1, <1>4, <1>5

LEMMA OldNodeRuns == RunSuite("node", "incapable") = {"incapable"}
<1>1. \A p \in BadOption : StatusOf("node", p) = "incapable"
  BY DEF BadOption, Exit, StatusOf, Undecodable, Incapable, NodeResult, NodeStatus, Unreadable, Result
<1>2. BadOption # {}
  BY DEF BadOption
<1>3. RunSuite("node", "incapable") = {StatusOf("node", p) : p \in BadOption}
  BY DEF RunSuite, Processes
<1>4. QED
  BY <1>1, <1>2, <1>3

LEMMA NoNodeRuns == RunSuite("node", "missing") = {"harness"}
BY DEF RunSuite, Processes

\* What a judgement is made of.
LEMMA JudgeTyped ==
  ASSUME NEW s \in TaskSpecs, NEW m \in Machines, NEW v, NEW t, TypeOK,
         <<v, t>> \in Judge(s, files, m)
  PROVE  /\ v \in Verdicts \cup {"raised"}
         /\ t \in [Paths -> Contents \cup {OracleText, Absent}] \cup {NoTree}
<1>1. Overlay(files, HeldOut[s]) \in [Paths -> Contents \cup {OracleText, Absent}]
  BY DEF Overlay, TypeOK
<1>2. m # "broken" => RunSuite(Oracle[s], m) \subseteq Verdicts \cup {"raised"}
  BY OracleAssumption, PytestRuns, CapableNodeRuns, OldNodeRuns, NoNodeRuns
     DEF Verdicts, Machines, TaskSpecs
<1>3. QED
  BY <1>1, <1>2 DEF Judge, Verdicts

\* Type correctness of edits and grades.
THEOREM GradesTyped == GradingSpec => []Typed
<1>1. GradingInit => Typed
  BY InitEstablishes, OracleAssumption DEF GradingInit, Typed, CodeInv, Machines, Verdicts
<1>2. TreeInv /\ TreeInv' /\ Typed /\ [GradingNext]_gradingVars => Typed'
  <2> SUFFICES ASSUME TreeInv, TreeInv', Typed, [GradingNext]_gradingVars PROVE Typed'
    OBVIOUS
  <2>0. TypeOK' /\ edge' \in {"node", "pytest"} /\ TaskSpecs' = TaskSpecs
    BY SameSpecs DEF TreeInv, Typed
  <2>1. CASE ~GradeAttempt /\ ~UNCHANGED gradingVars
    <3>1. UNCHANGED <<driver, gradeVars>> /\ stage' \in {"editing", "ended"}
      BY <2>1 DEF GradingNext, Edit, ChatEnds, ClaudeEnds, ClaudeFails, Typed
    <3>2. fair' \in BOOLEAN
      BY <2>1 DEF GradingNext, Edit, ChatEnds, ClaudeEnds, ClaudeFails, Typed
    <3>3. QED
      BY <2>0, <3>1, <3>2 DEF gradeVars, Typed
  <2>2. CASE GradeAttempt
    <3>1. PICK m \in [TaskSpecs -> Machines] : \E r \in Judgements(m) :
            /\ machine' = m
            /\ onDisk' = [s \in TaskSpecs |-> r[s][2]]
            /\ IF \E s \in TaskSpecs : r[s][1] = "raised"
               THEN stage' = "raised" /\ UNCHANGED verdict
               ELSE stage' = "graded" /\ verdict' = [s \in TaskSpecs |-> r[s][1]]
      BY <2>2 DEF GradeAttempt
    <3>2. PICK r \in Judgements(m) :
            /\ machine' = m
            /\ onDisk' = [s \in TaskSpecs |-> r[s][2]]
            /\ IF \E s \in TaskSpecs : r[s][1] = "raised"
               THEN stage' = "raised" /\ UNCHANGED verdict
               ELSE stage' = "graded" /\ verdict' = [s \in TaskSpecs |-> r[s][1]]
      BY <3>1
    <3>3. driver' = driver /\ fair' = fair
      BY <2>2 DEF GradeAttempt
    <3>4. \A s \in TaskSpecs :
            /\ r[s][1] \in Verdicts \cup {"raised"}
            /\ r[s][2] \in [Paths -> Contents \cup {OracleText, Absent}] \cup {NoTree}
      <4>1. SUFFICES ASSUME NEW s \in TaskSpecs
                     PROVE  /\ r[s][1] \in Verdicts \cup {"raised"}
                            /\ r[s][2] \in [Paths -> Contents \cup {OracleText, Absent}]
                                              \cup {NoTree}
        OBVIOUS
      <4>2. r[s] \in Judge(s, files, m[s]) /\ m[s] \in Machines
        BY DEF Judgements
      <4>3. r[s] = <<r[s][1], r[s][2]>>
        BY <4>2 DEF Judge
      <4>4. <<r[s][1], r[s][2]>> \in Judge(s, files, m[s])
        BY <4>2, <4>3
      <4>5. TypeOK
        BY DEF Typed
      <4>6. QED
        BY <4>2, <4>4, <4>5, JudgeTyped
    <3>5. stage' \in {"graded", "raised"} /\ machine' \in [TaskSpecs -> Machines]
      BY <3>2
    <3>6. verdict' \in [TaskSpecs -> Verdicts]
      BY <3>2, <3>4 DEF Typed
    <3>7. \A s \in TaskSpecs : onDisk'[s] \in [Paths -> Contents \cup {OracleText, Absent}]
                                           \cup {NoTree}
      BY <3>2, <3>4
    <3>8. QED
      BY <2>0, <3>3, <3>5, <3>6, <3>7 DEF Typed
  <2>3. CASE UNCHANGED gradingVars
    BY <2>0, <2>3 DEF gradingVars, gradeVars, Typed
  <2>4. QED
    BY <2>1, <2>2, <2>3
<1>3. QED
  BY <1>1, <1>2, TreeInvariant, PTL DEF GradingSpec

\* An overlaid tree that is free of collisions is refused by nobody, and can be
\* written unless a name is too long or a file stands where the other side
\* needs a directory.
LEMMA OverlayWritable ==
  ASSUME TreeInv, driver \in {"chat", "claude"}, NEW s \in Specs,
         ~Collides(files, HeldOut[s]), ~Unwritable(s)
  PROVE  Materialize(Overlay(files, HeldOut[s])) \cap {"refused", "OSError"} = {}
<1> DEFINE held == HeldOut[s]
           tree == Tree(files) \cup held
<1>1. Tree(Overlay(files, held)) = tree
  BY OracleAssumption, OverlaidTree
<1>2. tree \in SUBSET Paths /\ tree \in SUBSET Seq(Segs) /\ <<>> \notin tree
  BY CodeAssumption, OracleAssumption DEF Tree
<1>3. ASSUME NEW p \in tree, NEW q \in tree
      PROVE  ~PrefixCollision(p, q) /\ ~Clash(p, q)
  <2>0. p \in Seq(Segs) /\ q \in Seq(Segs) /\ p # <<>>
    BY <1>2
  <2>1. CASE p \in Tree(files) /\ q \in Tree(files)
    BY <2>0, <2>1, CollisionIsAlias DEF TreeInv, TreeMaterializable, Materializable
  <2>2. CASE p \in held /\ q \in held
    BY <2>0, <2>2, CollisionIsAlias, OracleAssumption DEF Materializable
  <2>3. CASE p \in Tree(files) /\ q \in held
    <3>1. ~PrefixCollision(p, q)
      BY <2>3 DEF Collides
    <3>2. ~IsAncestor(p, q)
      BY <2>3 DEF Unwritable
    <3>3. QED
      BY <2>0, <3>1, <3>2, ClashIsAncestor
  <2>4. CASE p \in held /\ q \in Tree(files)
    <3>1. ~PrefixCollision(q, p)
      BY <2>4 DEF Collides
    <3>2. ~PrefixCollision(p, q)
      BY <2>0, <3>1, CollisionSymmetric
    <3>3. ~IsAncestor(p, q)
      BY <2>4 DEF Unwritable
    <3>4. QED
      BY <2>0, <3>2, <3>3, ClashIsAncestor
  <2>5. QED
    BY <2>1, <2>2, <2>3, <2>4
<1>4. tree \cap Reserved = {}
  <2>1. CASE CodeInv
    BY <2>1, OracleAssumption DEF CodeInv, NoReserved
  <2>2. CASE driver = "claude"
    BY <2>2, OracleAssumption DEF Unwritable
  <2>3. QED
    BY <2>1, <2>2 DEF TreeInv
<1>5. \A p \in tree : NameFits(p)
  BY OracleAssumption DEF Unwritable
<1>6. ~TreeRefused(tree)
  BY <1>3, <1>4 DEF TreeRefused
<1>7. QED
  BY <1>1, <1>3, <1>5, <1>6 DEF Materialize

\* A pass is the oracle's: no suite passes over a disk on which a held-out
\* file, under any spelling, is the model's.
THEOREM PassesAreEarned == GradingSpec => []PassIsEarned
<1>1. TreeInv /\ GradedByJudge /\ Typed => PassIsEarned
  BY EarnedFromJudge DEF Typed
<1>2. QED
  BY <1>1, TreeInvariant, JudgedInvariant, GradesTyped, PTL

\* An attempt that counts is one whose node suites the machine could run.
THEOREM CountedAttemptsAreJudged == GradingSpec => []CountedIsJudged
<1>1. GradedByJudge /\ Typed => CountedIsJudged
  <2> SUFFICES ASSUME GradedByJudge, Typed, stage = "graded", ~Masked,
                      NEW s \in TaskSpecs, Oracle[s] = "node"
               PROVE  \/ verdict[s] = "tree_collision"
                      \/ machine[s] = "capable" /\ verdict[s] \in Suites
    BY DEF CountedIsJudged
  <2>1. verdict[s] \notin {"harness", "incapable"}
    BY DEF Masked, MarksEnvInvalid
  <2>2. verdict[s] # "raised" /\ machine[s] \in Machines
    BY DEF Typed, Verdicts, Suites
  <2>3. <<verdict[s], onDisk[s]>> \in Judge(s, files, machine[s])
    BY DEF GradedByJudge
  <2>4. \/ verdict[s] = "tree_collision"
        \/ machine[s] # "broken" /\ verdict[s] \in RunSuite("node", machine[s])
    BY <2>1, <2>2, <2>3 DEF Judge
  <2>5. QED
    BY <2>1, <2>2, <2>4, CapableNodeRuns, OldNodeRuns, NoNodeRuns DEF Machines
<1>2. QED
  BY <1>1, JudgedInvariant, GradesTyped, PTL

\* An attempt is masked only because of the provider, of the machine, or because
\* the tree the model left cannot be written next to the oracle's files.
THEOREM MasksAreExplained == GradingSpec => []MaskedIsExplained
<1>1. TreeInv /\ GradedByJudge /\ Typed => MaskedIsExplained
  <2> SUFFICES ASSUME TreeInv, GradedByJudge, Typed, stage = "graded", Masked, fair
               PROVE  \E s \in TaskSpecs : machine[s] # "capable" \/ Unwritable(s)
    BY DEF MaskedIsExplained
  <2>1. PICK s \in TaskSpecs : MarksEnvInvalid(s)
    BY DEF Masked
  <2>2. SUFFICES ASSUME machine[s] = "capable", ~Unwritable(s) PROVE FALSE
    OBVIOUS
  <2>3. <<verdict[s], onDisk[s]>> \in Judge(s, files, "capable")
    BY <2>2 DEF GradedByJudge
  <2>4. verdict[s] \in {"harness", "incapable"} /\ verdict[s] \notin Suites \cup {"raised"}
    BY <2>1 DEF MarksEnvInvalid, Suites
  <2>5. RunSuite(Oracle[s], "capable") \subseteq Suites \cup {"raised"}
    BY OracleAssumption, PytestRuns, CapableNodeRuns DEF TaskSpecs
  <2>6. ~Collides(files, HeldOut[s])
    BY <2>3, <2>4 DEF Judge
  <2>7. Materialize(Overlay(files, HeldOut[s])) \cap {"refused", "OSError"} # {}
    BY <2>3, <2>4, <2>5, <2>6 DEF Judge
  <2>8. QED
    BY <2>2, <2>6, <2>7, OverlayWritable DEF Typed, TaskSpecs
<1>2. QED
  BY <1>1, TreeInvariant, JudgedInvariant, GradesTyped, PTL
=============================================================================
