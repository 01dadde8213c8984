SPECIFICATION FairSpec
CONSTANTS
  Handlers = {h1}
  Publishers = {p1, p2}
  Workers = {w1, w2}
  Objs = {o1, o2}
  None = None
  Buffer = 1
  MaxEvents = 2
  MaxChanges = 4
INVARIANTS TypeOK OneOwner DeliveredOnce CalledOnlyIfRegistered
PROPERTIES EventuallyHandled
CHECK_DEADLOCK FALSE
