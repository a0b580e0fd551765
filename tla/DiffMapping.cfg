\* Three files, one with a name git quotes; hunks with lines of every kind.
CONSTANTS
  p1 = p1
  p2 = p2
  p3 = p3
  None = None
  Paths = {p1, p2, p3}
  Quoted = {p3}
  MaxFiles = 2
  MaxHunks = 2
  MaxLines = 4
  MaxSkip = 1
  MaxShown = 2
  Room = 6
SPECIFICATION Spec
SYMMETRY Symmetry
INVARIANTS
  MappingIsExact
  AnchorsNameTheFile
  PromptsShowTheDiff
CHECK_DEADLOCK FALSE
