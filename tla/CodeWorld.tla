----------------------------- MODULE CodeWorld -----------------------------
(***************************************************************************)
(* tools/code_world.py: the file tree a model edits through pure tools,    *)
(* and runners/pytest_edge.py `materialize_tree`, which writes it to disk. *)
(*                                                                         *)
(* A path is a sequence of segments; two segments a file system that       *)
(* ignores case or normalization takes for the same name have the same     *)
(* Canon.  Text is abstracted: a content is a value, and an edit may turn  *)
(* it into any other.                                                      *)
(***************************************************************************)
EXTENDS Integers, Sequences

CONSTANTS Segs,          \* spellings of path segments
          Canon,         \* NFC-normalized and case-folded form of each
          BadSegs,       \* "", ".", ".." and what holds a backslash or NUL
          TooLong,       \* segments longer than the file system allows
          Paths,         \* bound: the paths the model ever names
          Reserved,      \* _HARNESS_RESERVED
          Contents,
          Unencodable,   \* contents and segments with a lone surrogate
          Absent,        \* "no such file"
          InitialTrees   \* sets of paths: the trees tasks start from

VARIABLES files,     \* content of each path, or Absent
          outcome    \* what the last tool call gave

codeVars == <<files, outcome>>

Tree(f) == {p \in Paths : f[p] # Absent}

-----------------------------------------------------------------------------
(* Paths.                                                                  *)

\* path_error: the spelling is not canonical, or the name is reserved.
PathError(p) == p \in Reserved \/ \E i \in 1 .. Len(p) : p[i] \in BadSegs

SameUpTo(i, p, q) == \A j \in 1 .. i : p[j] = q[j]

\* The same for a file system that ignores case and normalization.
AliasUpTo(i, p, q) == \A j \in 1 .. i : Canon[p[j]] = Canon[q[j]]

Shared(p, q) == 1 .. (IF Len(p) < Len(q) THEN Len(p) ELSE Len(q))

\* p is a directory of q.
IsAncestor(p, q) == Len(p) < Len(q) /\ SameUpTo(Len(p), p, q)

\* Mutant: whole paths are compared, directories are not.
PrefixCollisionWhole(p, q) ==
  p # q /\ Len(p) = Len(q) /\ AliasUpTo(Len(p), p, q)

\* prefix_collision: where the two paths part, their segments are two
\* spellings of one name.
PrefixCollision(p, q) ==
  \E i \in Shared(p, q) :
    /\ SameUpTo(i - 1, p, q)
    /\ p[i] # q[i]
    /\ Canon[p[i]] = Canon[q[i]]

\* Mutant: a new file below an existing file is let through.
CollisionErrorNoAncestors(p, tree) ==
  \E q \in tree : IsAncestor(p, q) \/ PrefixCollision(p, q)

\* _collision_error: p is a directory of the tree, a directory of p is a
\* file of it, or p collides with one of its paths.
CollisionError(p, tree) ==
  \E q \in tree : IsAncestor(p, q) \/ IsAncestor(q, p) \/ PrefixCollision(p, q)

-----------------------------------------------------------------------------
(* The disk: a file system that ignores case and normalization, the least  *)
(* forgiving of those the edge runs on.  None of the three depends on the  *)
(* order in which the files are written.                                   *)

\* Two paths cannot be written side by side: one needs a directory where the
\* other is a file.
Clash(p, q) == Len(p) < Len(q) /\ AliasUpTo(Len(p), p, q)

\* Two paths run into one file, or into one directory under two spellings.
Alias(p, q) == \E i \in Shared(p, q) : AliasUpTo(i, p, q) /\ ~SameUpTo(i, p, q)

\* The tree on disk is the tree of the model: nothing clashes, nothing merges.
Materializable(tree) == \A p, q \in tree : ~Clash(p, q) /\ ~Alias(p, q)

\* The trees tasks start from are what the curated datasets hold: writable.
ASSUME CodeAssumption ==
  /\ Canon \in [Segs -> Segs]
  /\ Paths \in SUBSET Seq(Segs) /\ Paths # {}
  /\ <<>> \notin Paths
  /\ Absent \notin Contents
  /\ \E c \in Contents : c \notin Unencodable
  /\ \A tree \in InitialTrees :
       tree \in SUBSET Paths /\ Materializable(tree) /\ tree \cap Reserved = {}

\* The file system takes the name; the name and the content have an encoding.
NameFits(p) == \A i \in 1 .. Len(p) : p[i] \notin TooLong
Encodable(p, c) == c \notin Unencodable /\ \A i \in 1 .. Len(p) : p[i] \notin Unencodable

\* _check_tree_invariants of the edge: the same rules once more.
TreeRefused(tree) ==
  \/ tree \cap Reserved # {}
  \/ \E p, q \in tree : PrefixCollision(p, q)

\* How materialize_tree may end: it refuses (RuntimeError), fails at the first
\* file it cannot write (OSError, or the ValueError of an encoder; which one is
\* first is left open), or writes the tree.
Materialize(f) ==
  LET tree == Tree(f)
      osError == (\E p, q \in tree : Clash(p, q)) \/ (\E p \in tree : ~NameFits(p))
      valueError == \E p \in tree : ~Encodable(p, f[p])
  IN IF TreeRefused(tree) THEN {"refused"}
     ELSE {o \in {"OSError", "ValueError", "written"} :
             /\ o = "OSError" => osError
             /\ o = "ValueError" => valueError
             /\ o = "written" => ~osError /\ ~valueError}

-----------------------------------------------------------------------------
(* The tools.                                                              *)

CodeInit ==
  /\ \E tree \in InitialTrees, c \in Contents \ Unencodable :
       files = [p \in Paths |-> IF p \in tree THEN c ELSE Absent]
  /\ outcome = "none"

Fails ==
  /\ outcome' = "failure"
  /\ UNCHANGED files

\* Mutant: the file is emptied before its path is found to be wrong.
WriteFileClears(p, c) ==
  /\ files' = IF PathError(p) THEN [files EXCEPT ![p] = "empty"] ELSE files
  /\ outcome' = "failure"

WriteFile(p, c) ==
  IF PathError(p) \/ CollisionError(p, Tree(files))
  THEN Fails
  ELSE /\ files' = [files EXCEPT ![p] = c]
       /\ outcome' = "success"

\* str_replace of a text that occurs so many times in the file.
StrReplace(p, occurrences, c) ==
  IF PathError(p) \/ files[p] = Absent \/ occurrences # 1
  THEN Fails
  ELSE /\ files' = [files EXCEPT ![p] = c]
       /\ outcome' = "success"

ReadFile(p) ==
  /\ outcome' = IF PathError(p) \/ files[p] = Absent THEN "failure" ELSE "success"
  /\ UNCHANGED files

\* run_tests: the snapshot is materialized for the agent's own test run.
RunTests ==
  /\ outcome' \in Materialize(files)
  /\ UNCHANGED files

ListFiles ==
  /\ outcome' = "success"
  /\ UNCHANGED files

\* apply: Fails is an unknown tool, or arguments its schema rejects.
CodeStep ==
  \/ Fails
  \/ ListFiles
  \/ \E p \in Paths, c \in Contents : WriteFile(p, c)
  \/ \E p \in Paths, n \in 0 .. 2, c \in Contents : StrReplace(p, n, c)
  \/ \E p \in Paths : ReadFile(p)
  \/ RunTests

CodeSpec == CodeInit /\ [][CodeStep]_codeVars
-----------------------------------------------------------------------------

Outcomes == {"none", "success", "failure", "refused", "OSError",
             "ValueError", "written"}

\* Type invariant.
TypeOK ==
  /\ files \in [Paths -> Contents \cup {Absent}]
  /\ outcome \in Outcomes

\* Whatever the model writes, in whatever order, no two of its paths fall
\* together or stand in each other's way on disk, on any file system.
TreeMaterializable == Materializable(Tree(files))

\* The edge's own checks are defense in depth: they never fire, and no file
\* of the tree stands where another needs a directory.
EdgeNeverRefuses ==
  /\ outcome # "refused"
  /\ outcome = "OSError" => \E p \in Tree(files) : ~NameFits(p)
=============================================================================
