SPECIFICATION Spec
CONSTANTS
  Nodes = {n1, n2}
  Keys = {k1, k2}
  Configs = {v1}
  None = None
  Handlers = {h1, h2}
  ConfigDirIsCwd = TRUE
  MaxPuts = 1
  MaxStops = 1
SYMMETRY Symmetry
INVARIANTS TypeOK AckedKept FileMatchesMemory
CHECK_DEADLOCK FALSE
