SPECIFICATION Spec
CONSTANTS
  MaxInt32 = 3
  Keys = {k1}
  Callers = {c1, c2}
  Nodes = {n1}
  Objs = {o1, o2, o3}
  NoObj = NoObj
  Counts = {1, 2}
  Buffer = 1
  CtrLimit = 2
  TimeLimit = 1
  MaxWindow = 1
  MaxCalls = 3
SYMMETRY Symmetry
INVARIANTS TypeOK OneOwner Conservation UnsyncedBounded
