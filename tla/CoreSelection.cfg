\* Every processor of up to four cores of up to three efficiency classes.
CONSTANTS
  Efficiencies = {0, 1, 2}
  MaxCores = 4
SPECIFICATION Spec
INVARIANTS TypeOK GroupsPartitionCores OneThreadPerCoreOfFirstBest
CHECK_DEADLOCK FALSE
