CONSTANTS
  c1 = c1
  c2 = c2
  Caller = {c1, c2}
  MaxCalls = 2
  MaxSwaps = 2
SYMMETRY Symmetric
SPECIFICATION Spec
INVARIANTS
  TypeOK
  ProbedAsSpawned
  EnginesRunVerified
CHECK_DEADLOCK FALSE
