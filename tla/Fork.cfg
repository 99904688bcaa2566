SPECIFICATION Spec
CONSTANTS
  Env = {e1, e2, e3}
  NoEnv = NoEnv
  NFrames = 9
  Stack = 2
  Value = {0, 1}
INVARIANTS PrivateMemory WritableIsPrivate FaultsHandled
CONSTRAINT Small
SYMMETRY MCSymmetry
VIEW MCView
