SPECIFICATION TaskSpec
CONSTANTS
  K = 3
  RateNum = 1
  RateDen = 2
  Runs = {clean, sick, mismatched}
  Unhealthy = {sick}
  Refuted = {mismatched}
  Futures = {0, 1, 2, 5}
  SafetyCap = 5
  MaxRounds = 3
  NoLimit = NoLimit
  MaxAttempts = 3
  MaxBatch = 2
  HasProbe = TRUE
INVARIANTS
  BankedAreValidAttempts
  ScoredWithinTolerance
  VoidExactlyWhenHopeless
  PairedTranscript
  BudgetsHold
  StopReasonIsTrue
PROPERTIES
  KeepsPromise
  OutageIsReplaced
  TaskEnds
CHECK_DEADLOCK FALSE
