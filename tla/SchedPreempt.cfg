SPECIFICATION FairSpec
CONSTANTS
  NENV = 3
  GenStep = 3
  IdLimit = 12
  MaxBirths = 3
PROPERTIES Preempted
