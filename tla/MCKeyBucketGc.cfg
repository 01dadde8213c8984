SPECIFICATION Spec
CONSTANTS
  MaxInt32 = 15
  Second = 1
  Keys = {k1}
  Threads = {t1, t2}
  EntryIds = {e1, e2, e3}
  NoEntry = NoEntry
  Counts = {1}
  Limits = {1}
  Windows = {1}
  GcGrace = 1
  MaxNow = 3
  MaxCalls = 4
SYMMETRY Symmetry
INVARIANTS KeyWindowLimit
