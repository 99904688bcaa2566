SPECIFICATION Spec
CONSTANTS
  UTop = 2
  XBase = 4
  XTop = 19
  Word = {0, 1}
INVARIANTS FramesIntact
PROPERTIES Resumes UpcallOrDestroy
