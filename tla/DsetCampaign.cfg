CONSTANTS
  N = 3
  K = 2
  MaxAborts = 3

SPECIFICATION Spec

INVARIANTS
  NeverPooled
  ScoredIsEarned

PROPERTIES
  KeepsVerdicts
  NeverSilentlyLost
  CorpusCompletes
