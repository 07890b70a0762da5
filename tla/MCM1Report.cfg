SPECIFICATION Spec
CONSTANTS
  c1 = c1
  c2 = c2
  t1 = t1
  t2 = t2
  Conds <- MCConds
  Corpus <- MCCorpus
  K = 2
  SpecK = 2
  ModelRuns <- MCModelRuns
  BaseRuns <- MCBaseRuns
  MaxStarts = 3
  MaxTests = 3
  PDen = 12
  MaxTasks = 4
INVARIANTS
  ScoredIsEarned
  VoidIsEarned
  UnflaggedIsWhole
  CountedIsTheModels
  HolmIsClosedTesting
  FisherIsPermutation
CHECK_DEADLOCK FALSE
