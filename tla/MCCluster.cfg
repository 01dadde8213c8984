SPECIFICATION Spec
CONSTANTS
  MaxInt32 = 7
  Second = 2
  Nodes = {n1, n2}
  k1 = k1
  Keys = {k1}
  None = None
  Sidecars = {}
  IncrRequests <- OneRequest
  RateLimitRequests = {}
  PutRequests = {}
  CtrLimit = 1
  GcGrace = 0
  MaxSkew = 1
  MaxNow = 3
  MaxInputs = 3
CHECK_DEADLOCK FALSE
SYMMETRY Symmetry
INVARIANTS NoPhantomCounts CountsAgree MixedOnlyAtTheEnd AdmittedAsAsked
