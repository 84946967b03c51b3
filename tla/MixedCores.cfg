\* Two cores of one efficiency class.
CONSTANTS
  Efficiencies = {0}
  MaxCores = 2
SPECIFICATION Spec
INVARIANTS AsManyThreadsAsBestCores
CHECK_DEADLOCK FALSE
