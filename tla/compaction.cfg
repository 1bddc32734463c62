SPECIFICATION Spec
CONSTANTS
  MaxHistory = 10
  MaxLarge = 1
  MaxSystem = 1
  MaxTurns = 5
INVARIANTS CompactionPreserves
CHECK_DEADLOCK FALSE
