SPECIFICATION Spec
CONSTANTS
  NPT = 24
  KernTables = 2
  IOHole = 4
  Ext = 6
  MPEntry = 2
  FirstFree = 18
  NCPU = 4
  KSTKSIZE = 1
  KSTKGAP = 1
  PerPage = 16
  EnvPages = 1
  Bootstack = 7
  Kstacks = 8
  Ends = {13}
  ExtMem = {20, 34}
  LapicPage = 1000
  MmioReturns = "base"
  IntVectors = {3, 9, 13, 14, 48}
  Tables <- MCTables
  Firmware <- MCFirmware
INVARIANTS FreeListSafe MemoryReady OwnResources ApsUp RegistersRestored
PROPERTIES BootFinishes
