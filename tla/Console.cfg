SPECIFICATION Spec
CONSTANTS
  CONSBUFSIZE = 3
  Key = {"letter", "lshift", "rctrl", "lalt", "del", "caps"}
  Serial = {"a", "NO"}
  MaxPending = 2
INVARIANTS InOrder ModifiersTrack
PROPERTIES RebootMeant
