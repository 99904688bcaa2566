SPECIFICATION Spec
CONSTANTS
  NPages = 5
  NIdx = 2
  RefMod = 16
  Env = {e1, e2}
  NoEnv = NoEnv
  VA <- MCVA
  StoreWord <- MCStoreWord
INVARIANTS TypeOK RefCount FreeListExact RolesDisjoint TlbCoherent
PROPERTIES ReadOnlyStays ImplementsSpaces
SYMMETRY MCSymmetry
CONSTRAINT Small
