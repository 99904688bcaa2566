SPECIFICATION Spec
CONSTANTS
  CRT_COLS = 2
  CRT_ROWS = 4
  BUFLEN = 6
  Glyph = {"x", "DEL", " "}
  MAXARGS = 3
  Commands <- MCCommands
  WORD = 4
  IntBits = 8
  PRINTBUF = 4
  MAXERROR = 9
  PGSIZE = 3
  ULIM = 9
  SPACE = 15
  Addresses = {2, 4, 6}
INVARIANTS ScreenShowsLine ArgvSplit StringResults Formatted Encloses UserMemExact
