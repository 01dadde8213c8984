---------------------------- MODULE MCKeyBucket -----------------------------
(***************************************************************************)
(* Instances of KeyBucket for TLC, and a statement of the documentation    *)
(* about the limit of a key that the code does not keep.                   *)
(***************************************************************************)
EXTENDS KeyBucketRefines, FiniteSetsExt, TLC

\* Goroutines and addresses are interchangeable.
Symmetry == Permutations(Threads) \union Permutations(EntryIds)

\* README.md, line 79: W is the "time window for which provided threshold is
\* applicable".  Per key: what the entries that count calls of one key in one
\* window have admitted together is within the threshold, while that window
\* is open.  An entry that Store.gc removed while an Incr held it counts
\* calls, too.
EntriesOf(k) == ({lookup[k]} \ {NoEntry})
  \union {ent[t] : t \in {u \in Threads : pc[u] = "expiry" /\ call[u].key = k}}

KeyWindowLimit ==
  \A k \in Keys, x \in {y \in Expiries : y >= now} :
    MapThenSumSet(LAMBDA id : tally[id].granted,
                  {id \in EntriesOf(k) : heap[id].expires = x})
      <= Max(Limits)
=============================================================================
