SPECIFICATION Spec
CONSTANTS
  Cpu = {c1, c2, c3}
  NoCpu = NoCpu
INVARIANTS Mutex NoFalsePanic
PROPERTIES LockHandedOn
