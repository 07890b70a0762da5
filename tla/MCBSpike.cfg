CONSTANTS
  ArmOrder <- ArmOrder2
  K = 1
  RateNum = 1
  RateDen = 2
  Pow = 1
  MaxIndex = 1
  MaxRuns = 2
  MaxStuck = 1

SPECIFICATION Spec

INVARIANTS
  SheetCoversRun
  PassIsOwn
  PowIsPowered
  SessionIsOwn

CHECK_DEADLOCK FALSE
