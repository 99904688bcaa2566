SPECIFICATION Spec
CONSTANTS
  NENV = 4
  GenStep = 4
  IdLimit = 24
  MaxBirths = 5
INVARIANTS TypeOK OneRunning EnvListExact ParentIsCreator StaleIdRefused NoneRunnableLeft
PROPERTIES RoundRobin
