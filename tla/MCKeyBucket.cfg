SPECIFICATION Spec
CONSTANTS
  MaxInt32 = 15
  Second = 1
  Keys = {k1}
  Threads = {t1, t2}
  EntryIds = {e1, e2, e3}
  NoEntry = NoEntry
  Counts = {1}
  Limits = {0, 1}
  Windows = {0, 1}
  GcGrace = 0
  MaxNow = 3
  MaxCalls = 3
SYMMETRY Symmetry
INVARIANTS TypeOK Ledger RefusalSticks ReportedInItsWindow
PROPERTIES AllowedWithinLimit LiveEntryKept ActsAtOnce
