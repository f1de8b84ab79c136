SPECIFICATION Spec
CONSTANTS
  MaxVertices = 3
  MaxBoots = 3
  BatchSize = 2
INVARIANT NoEventGap
CHECK_DEADLOCK FALSE
