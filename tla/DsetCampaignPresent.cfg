CONSTANTS
  N = 3
  K = 2
  MaxAborts = 2

SPECIFICATION Spec

INVARIANT PresentIsComplete
