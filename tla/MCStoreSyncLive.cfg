SPECIFICATION FairSpec
CONSTANTS
  MaxInt32 = 15
  Keys = {k1}
  Callers = {c1, c2}
  Nodes = {}
  Objs = {o1, o2, o3}
  NoObj = NoObj
  Counts = {1}
  Buffer = 1
  CtrLimit = 1
  TimeLimit = 1
  MaxWindow = 1
  MaxCalls = 3
PROPERTIES EventuallyDrained
