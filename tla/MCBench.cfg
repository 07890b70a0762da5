SPECIFICATION Spec
CONSTANTS
  default = default
  planning = planning
  collision = collision
  fileA = fileA
  fileB = fileB
  condA = condA
  condB = condB
  Configs <- MCConfigs
  CondOf <- MCCondOf
  FileOf <- MCFileOf
  Corpus <- MCCorpus
  Outcomes <- MCOutcomes
  Ks = {0, 1, 2}
  MaxStarts = 2
  Order <- MCOrder
  Hosted <- MCHosted
  K = 2
  ExpectedN = 2
  TierOf <- MCTierOf
  CapabilityOf <- MCCapabilityOf
  Resamples = 2
  AlphaNum = 1
  AlphaDen = 2
  MaxItems = 4
INVARIANTS
  CompleteIsEarned
  ReportsBelongTogether
  SeparationHasWitness
  KappaIsChanceCorrected
  LabelsAreTheGraders
CHECK_DEADLOCK FALSE
