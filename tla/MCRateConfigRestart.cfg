SPECIFICATION CarefulSpec
CONSTANTS
  Nodes = {n1, n2}
  Keys = {k1}
  Configs = {v1, v2}
  None = None
  Handlers = {h1, h2}
  ConfigDirIsCwd = TRUE
  MaxPuts = 2
  MaxStops = 1
SYMMETRY Symmetry
INVARIANTS AckedKept
CHECK_DEADLOCK FALSE
