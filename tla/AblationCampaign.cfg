CONSTANTS
  Models = {m1, m2}
  Bases = {f1}
  Arms = {bare, both}
  K = 2
  MaxRuns = 2

SPECIFICATION Spec

INVARIANTS
  AuditIsExact
  DriftIsShared

\* The bound on invocations.
CHECK_DEADLOCK FALSE
