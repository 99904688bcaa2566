SPECIFICATION IpcSpec
CONSTANTS
  NENV = 3
  GenStep = 3
  IdLimit = 12
  MaxBirths = 3
  UTOP = 2
  Value = {1}
INVARIANTS NothingAboveUTOP
