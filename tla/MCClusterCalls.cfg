SPECIFICATION FairSpec
CONSTANTS
  MaxInt32 = 7
  Second = 2
  Nodes = {n1, n2}
  k1 = k1
  Keys = {k1}
  None = None
  Sidecars = {n1}
  IncrRequests <- TwoLengthRequests
  RateLimitRequests <- MCRateLimitRequests
  PutRequests <- MCPutRequests
  CtrLimit = 1
  GcGrace = 0
  MaxSkew = 1
  MaxNow = 1
  MaxInputs = 3
CHECK_DEADLOCK FALSE
INVARIANTS TypeOK NoPhantomCounts CountsAgree AdmittedAsAsked ConfigAsPut AnswerAsDecided
PROPERTIES BreachSpreads
