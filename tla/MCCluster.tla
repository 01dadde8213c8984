----------------------------- MODULE MCCluster ------------------------------
(***************************************************************************)
(* Instances of Cluster for TLC: the requests of its callers.              *)
(***************************************************************************)
EXTENDS Cluster, TLC

CONSTANT k1

\* Nodes are interchangeable unless one of them is a sidecar.
Symmetry == Permutations(Nodes)

\* A limit of 1 in a second.
OneRequest ==
  {[K |-> k1, C |-> Absent, T |-> Num(1), W |-> Num(1), P |-> Absent]}

\* A peak averaged limit of 3 in 2 seconds, that is, of 2 in a second, and a
\* limit of 2 in two seconds with a count that fills a counter.
TwoLengthRequests ==
  {[K |-> k1, C |-> Absent, T |-> Num(3), W |-> Num(2), P |-> Num(1)],
   [K |-> k1, C |-> Num(7), T |-> Num(2), W |-> Num(2), P |-> Absent]}

MCRateLimitRequests == {[K |-> k1, C |-> Num(1)], [K |-> k1, C |-> Junk]}

\* The second is accepted and narrowed to a limit of 1 in a window of 0; the
\* last is refused.
MCPutRequests ==
  {[authorised |-> TRUE, Key |-> k1, Window |-> 1, Limit |-> 1,
    PeakAveraged |-> FALSE],
   [authorised |-> TRUE, Key |-> k1, Window |-> 16, Limit |-> 17,
    PeakAveraged |-> TRUE],
   [authorised |-> TRUE, Key |-> k1, Window |-> 0, Limit |-> 2,
    PeakAveraged |-> FALSE]}
=============================================================================
