CONSTANTS
  low = low
  up = up
  lib = lib
  bad = bad
  reserved = reserved
  long = long
  text = text
  surrogate = surrogate
  inLib = inLib
  atRoot = atRoot
  tests = tests
  Absent = Absent
  Segs <- MCSegs
  Canon <- MCCanon
  BadSegs = {bad}
  TooLong = {long}
  Paths <- MCPaths
  Reserved <- MCReserved
  Contents = {text, surrogate}
  Unencodable = {surrogate}
  InitialTrees <- MCInitialTrees
  Specs = {inLib, atRoot, tests}
  Oracle <- MCOracle
  HeldOut <- MCHeldOut
  OracleText = OracleText
  Accounts <- MCAccounts
  Docs <- MCDocs
  Tasks <- MCTasks
  Answers = {"done", "failed"}
  SafetyCap = 4
  Budget = 4
  MaxBatch = 2
  Size <- MCSize

SPECIFICATION Spec

INVARIANTS
  TreeMaterializable
  PassIsEarned
  CountedIsJudged
  MaskedIsExplained
  LogExplainsWorld
  MatchedReplays
  PassIsClean
  RefusalIsTheReason
  TrimsForRoom

\* A graded attempt is over.
CHECK_DEADLOCK FALSE
