SPECIFICATION FairSpec
CONSTANTS
  Nodes = {n1, n2}
  Keys = {k1}
  Configs = {v1}
  None = None
  Handlers = {h1, h2}
  ConfigDirIsCwd = TRUE
  MaxPuts = 1
  MaxStops = 2
INVARIANTS AckedKept
PROPERTIES EventuallySettled
CHECK_DEADLOCK FALSE
