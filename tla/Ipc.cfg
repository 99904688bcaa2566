SPECIFICATION IpcSpec
CONSTANTS
  NENV = 3
  GenStep = 3
  IdLimit = 9
  MaxBirths = 3
  UTOP = 1
  Value = {1}
INVARIANTS NoLostWakeup
PROPERTIES AcceptedOnce
