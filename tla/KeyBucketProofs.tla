-------------------------- MODULE KeyBucketProofs ---------------------------
(***************************************************************************)
(* Proofs about KeyBucket: its type invariant, and the safety properties   *)
(* of its counters, for every set of keys, goroutines and entries, every   *)
(* width of the counters and every bound.                                  *)
(*                                                                         *)
(* IncrEntryEffect and SyncEntryEffect say what the two regions under an   *)
(* entry's lock do to that entry; the other steps leave its fields alone   *)
(* (EntryWriters) or make a new one.  Ledger is inductive together with    *)
(* TypeOK; RefusalSticks and the two action properties rest on Ledger;     *)
(* ReportedInItsWindow needs the stronger ReportInv.                       *)
(***************************************************************************)
EXTENDS KeyBucket, TLAPS

\* atomic.AddInt32 returns an int32.
LEMMA AddInt32Type ==
  ASSUME NEW a \in Int32, NEW b \in Int32
  PROVE  AddInt32(a, b) \in Int32
BY Int32Assumption DEF AddInt32, Int32

\* atomic.AddInt32 does not wrap around while the sum fits an int32.
LEMMA AddInt32Exact ==
  ASSUME NEW a \in Int, NEW b \in Int, a + b \in Int32
  PROVE  AddInt32(a, b) = a + b
BY Int32Assumption DEF AddInt32, Int32

\* GenExpiry never yields an instant before the one it is given.
LEMMA GenExpiryType ==
  ASSUME NEW t \in Nat, NEW w \in Int
  PROVE  GenExpiry(t, w) \in Nat /\ GenExpiry(t, w) >= t
<1>1. CASE w <= 0
  BY <1>1 DEF GenExpiry
<1>2. CASE w > 0
  <2> DEFINE d == w * Second
  <2>1. d \in Nat \ {0}
    BY <1>2, SecondAssumption
  <2> HIDE DEF d
  <2>2. t % d \in 0 .. d - 1
    BY <2>1
  <2>3. GenExpiry(t, w) = t + d - (t % d)
    BY <1>2 DEF GenExpiry, d
  <2> QED BY <2>1, <2>2, <2>3
<1> QED BY <1>1, <1>2

\* ReInit of an expired entry leaves an entry.
LEMMA CurrentType ==
  ASSUME NEW e \in Entry, NEW x \in Nat
  PROVE  Current(e, x) \in Entry
<1>1. 0 \in Int32
  BY Int32Assumption DEF Int32
<1>2. [e EXCEPT !.expires = x] \in Entry
  BY DEF Entry
<1>3. ReInit(e, 0, x) \in Entry
  BY <1>1, <1>2 DEF ReInit, Entry
<1> QED BY <1>3 DEF Current

\* KeyEntry.Incr and KeyEntry.Sync add to the count and keep the expiry.
LEMMA EntryIncrType ==
  ASSUME NEW e \in Entry, NEW c \in Counts
  PROVE  /\ EntryIncr(e, c) \in Entry
         /\ EntrySync(e, c) \in Entry
         /\ EntryIncr(e, c).expires = e.expires
         /\ EntrySync(e, c).expires = e.expires
         /\ EntryIncr(e, c).count = AddInt32(e.count, c)
         /\ EntrySync(e, c).count = AddInt32(e.count, c)
<1>1. e.count \in Int32 /\ c \in Int32
  BY Int32Assumption, BucketAssumption DEF Entry, Int32
<1>2. AddInt32(e.count, c) \in Int32
  BY <1>1, AddInt32Type
<1> QED BY <1>2 DEF EntryIncr, EntrySync, Entry

\* NewEntry makes an entry.
LEMMA NewEntryType ==
  ASSUME NEW x \in Nat
  PROVE  NewEntry(0, x) \in Entry
BY Int32Assumption DEF NewEntry, Entry, Int32

\* A new bucket satisfies the type invariant.
LEMMA InitTypeOK == Init => TypeOK
<1> SUFFICES ASSUME Init PROVE TypeOK
  OBVIOUS
<1>1. heap \in [EntryIds -> Entry]
  BY NewEntryType DEF Init
<1>2. ret \in [Threads -> Result] /\ tally \in [EntryIds -> Tally]
  BY DEF Init, NoResult, Result, NoTally, Tally
<1>3. \A t \in Threads : pc[t] = "idle"
  BY DEF Init
<1>4. /\ pc \in [Threads -> {"idle", "lookup", "create", "entry", "expiry"}]
      /\ call \in [Threads -> IncrCalls \union SyncCalls \union {NoCall}]
      /\ ent \in [Threads -> EntryIds \union {NoEntry}]
      /\ lookup \in [Keys -> EntryIds \union {NoEntry}]
  BY DEF Init
<1>5. now \in 0 .. MaxNow /\ calls \in Nat /\ origin \in [Threads -> Nat]
  BY BucketAssumption DEF Init
<1>6. /\ bucketLocked \in BOOLEAN /\ gcTodo \in SUBSET Keys
      /\ gcKey \in SUBSET Keys /\ barred \in [EntryIds -> SUBSET Limits]
  BY DEF Init
<1> QED BY <1>1, <1>2, <1>3, <1>4, <1>5, <1>6 DEF TypeOK

\* The start of a call of Incr or Sync preserves the type invariant.
LEMMA BeginTypeOK ==
  ASSUME TypeOK, NEW t \in Threads, NEW c \in IncrCalls \union SyncCalls,
         Begin(t, c)
  PROVE  TypeOK'
<1>1. ret' \in [Threads -> Result]
  BY DEF Begin, TypeOK, NoResult, Result
<1> QED BY <1>1 DEF Begin, TypeOK

\* Every region of Incr, Sync and Store.gc preserves the type invariant.
LEMMA NextTypeOK == TypeOK /\ [Next]_vars => TypeOK'
<1> SUFFICES ASSUME TypeOK, [Next]_vars PROVE TypeOK'
  OBVIOUS
<1>1. ASSUME NEW t \in Threads, NEW k \in Keys, NEW c \in Counts,
             NEW l \in Limits, NEW w \in Windows, IncrCall(t, k, c, l, w)
      PROVE  TypeOK'
  <2>1. GenExpiry(now, w) \in Nat
    <3>1. now \in Nat /\ w \in Int
      BY BucketAssumption DEF TypeOK
    <3> QED BY <3>1, GenExpiryType
  <2>2. [op |-> "Incr", key |-> k, count |-> c, limit |-> l,
         expiry |-> GenExpiry(now, w)] \in IncrCalls
    BY <2>1 DEF IncrCalls
  <2> QED BY <1>1, <2>2, BeginTypeOK DEF IncrCall
<1>2. ASSUME NEW t \in Threads, NEW k \in Keys, NEW c \in Counts,
             NEW x \in Expiries, SyncCall(t, k, c, x)
      PROVE  TypeOK'
  <2>1. x \in Nat
    BY GenExpiryType, BucketAssumption DEF Expiries
  <2>2. [op |-> "Sync", key |-> k, count |-> c, expiry |-> x] \in SyncCalls
    BY <2>1 DEF SyncCalls
  <2> QED BY <1>2, <2>2, BeginTypeOK DEF SyncCall
<1>3. ASSUME NEW t \in Threads, GetEntry(t)
      PROVE  TypeOK'
  BY <1>3 DEF GetEntry, TypeOK, IncrCalls, SyncCalls
<1>4. ASSUME NEW t \in Threads, FindEntry(t)
      PROVE  TypeOK'
  BY <1>4 DEF FindEntry, TypeOK, IncrCalls, SyncCalls
<1>5. ASSUME NEW t \in Threads, CreateEntry(t)
      PROVE  TypeOK'
  <2>1. call[t].key \in Keys /\ call[t].expiry \in Nat
    BY <1>5 DEF CreateEntry, TypeOK, IncrCalls, SyncCalls
  <2>2. NewEntry(0, call[t].expiry) \in Entry /\ NoTally \in Tally
    BY <2>1, NewEntryType DEF NoTally, Tally
  <2> QED BY <1>5, <2>1, <2>2 DEF CreateEntry, TypeOK
<1>6. ASSUME NEW t \in Threads, IncrEntry(t)
      PROVE  TypeOK'
  <2> DEFINE id == ent[t]
             e == Current(heap[id], call[t].expiry)
             new == IF e.count <= call[t].limit
                      THEN EntryIncr(e, call[t].count) ELSE e
  <2>1. /\ id \in EntryIds
        /\ call[t] \in IncrCalls
        /\ call[t].expiry \in Nat
        /\ call[t].count \in Counts
        /\ call[t].limit \in Limits
    BY <1>6 DEF IncrEntry, TypeOK, IncrCalls, SyncCalls
  <2>2. e \in Entry
    BY <2>1, CurrentType DEF TypeOK
  <2>3. new \in Entry
    BY <2>1, <2>2, EntryIncrType
  <2>4. heap' \in [EntryIds -> Entry] /\ origin' \in [Threads -> Nat]
    BY <1>6, <2>1, <2>3 DEF IncrEntry, Counted, Allowed, TypeOK, Entry
  <2>5. ret' \in [Threads -> Result]
    BY <1>6, <2>1 DEF IncrEntry, Counted, Allowed, TypeOK, Result
  <2>6. tally' \in [EntryIds -> Tally]
    BY <1>6, <2>1, BucketAssumption
       DEF IncrEntry, Counted, Allowed, TypeOK, Tally, NoTally
  <2>7. barred' \in [EntryIds -> SUBSET Limits]
    BY <1>6, <2>1 DEF IncrEntry, TypeOK
  <2> QED BY <1>6, <2>1, <2>4, <2>5, <2>6, <2>7 DEF IncrEntry, TypeOK
<1>7. ASSUME NEW t \in Threads, IncrReturn(t)
      PROVE  TypeOK'
  <2>1. ret' \in [Threads -> Result]
    BY <1>7 DEF IncrReturn, TypeOK, Result, Entry
  <2> QED BY <1>7, <2>1 DEF IncrReturn, TypeOK
<1>8. ASSUME NEW t \in Threads, SyncEntry(t)
      PROVE  TypeOK'
  <2>1. /\ ent[t] \in EntryIds
        /\ call[t].expiry \in Nat
        /\ call[t].count \in Counts
    BY <1>8 DEF SyncEntry, TypeOK, IncrCalls, SyncCalls
  <2>2. EntrySync(Current(heap[ent[t]], call[t].expiry), call[t].count) \in Entry
    BY <2>1, CurrentType, EntryIncrType DEF TypeOK
  <2>3. heap' \in [EntryIds -> Entry]
    BY <1>8, <2>1, <2>2 DEF SyncEntry, TypeOK
  <2>4. tally' \in [EntryIds -> Tally]
    BY <1>8, <2>1, BucketAssumption DEF SyncEntry, TypeOK, Tally, NoTally
  <2> QED BY <1>8, <2>1, <2>3, <2>4 DEF SyncEntry, TypeOK
<1>9. CASE GcLock
  BY <1>9 DEF GcLock, TypeOK
<1>10. ASSUME NEW k \in Keys, GcScan(k)
       PROVE  TypeOK'
  BY <1>10 DEF GcScan, TypeOK
<1>11. ASSUME NEW k \in Keys, GcReap(k)
       PROVE  TypeOK'
  BY <1>11 DEF GcReap, TypeOK
<1>12. CASE GcUnlock
  BY <1>12 DEF GcUnlock, TypeOK
<1>13. CASE Tick
  BY <1>13, BucketAssumption DEF Tick, TypeOK
<1>14. CASE UNCHANGED vars
  BY <1>14 DEF vars, TypeOK
<1> QED
  BY <1>1, <1>2, <1>3, <1>4, <1>5, <1>6, <1>7, <1>8, <1>9, <1>10, <1>11,
     <1>12, <1>13, <1>14 DEF Next, Resume, Collect

\* Every variable keeps its type, and no call of KeyBucket.Incr or
\* KeyBucket.Sync locks, or reads the expiry of, a nil entry.
THEOREM TypeCorrect == Spec => []TypeOK
BY InitTypeOK, NextTypeOK, PTL DEF Spec

-----------------------------------------------------------------------------
(* The counters.  Only three actions write entries and their tallies.      *)

Sum(y) == y.granted + y.synced + y.refused

\* The tally of an entry as a call finds it under the entry's lock.
Kept(id) == IF Expired(heap[id], now) THEN NoTally ELSE tally[id]

\* Only the creation of an entry and the two regions under an entry's lock
\* write entries and their history.
LEMMA EntryWriters ==
  ASSUME [Next]_vars
  PROVE  \/ \E t \in Threads : CreateEntry(t) \/ IncrEntry(t) \/ SyncEntry(t)
         \/ UNCHANGED <<heap, tally, barred>>
BY DEF Next, vars, Resume, Collect, IncrCall, SyncCall, Begin, GetEntry,
       FindEntry, IncrReturn, GcLock, GcScan, GcReap, GcUnlock, Tick

\* What Current does to the two fields of an entry.
LEMMA CurrentFields ==
  ASSUME NEW e \in Entry, NEW x \in Nat
  PROVE  /\ Expired(e, now) => /\ Current(e, x).count = 0
                               /\ Current(e, x).expires = x
         /\ ~Expired(e, now) => Current(e, x) = e
<1>1. ~Expired(e, now) => Current(e, x) = e
  BY DEF Current
<1>2. ReInit(e, 0, x).count = 0 /\ ReInit(e, 0, x).expires = x
  BY DEF ReInit, Entry
<1> QED BY <1>1, <1>2 DEF Current

\* What a call that has locked its entry knows of its arguments.
LEMMA CallArguments ==
  ASSUME TypeOK, NEW t \in Threads, pc[t] = "entry"
  PROVE  /\ ent[t] \in EntryIds
         /\ call[t].count \in 0 .. MaxInt32
         /\ call[t].count \in Counts
         /\ call[t].expiry \in Nat
         /\ heap[ent[t]] \in Entry
         /\ Current(heap[ent[t]], call[t].expiry) \in Entry
         /\ Kept(ent[t]) \in Tally
<1>1. /\ ent[t] \in EntryIds
      /\ call[t].count \in Counts
      /\ call[t].expiry \in Nat
  BY DEF TypeOK, IncrCalls, SyncCalls
<1>2. heap[ent[t]] \in Entry /\ tally[ent[t]] \in Tally
  BY <1>1 DEF TypeOK
<1>3. NoTally \in Tally
  BY DEF NoTally, Tally
<1> QED BY <1>1, <1>2, <1>3, CurrentType, BucketAssumption DEF Kept

\* Ledger for the entry as a call finds it under its lock.
LEMMA KeptLedger ==
  ASSUME TypeOK, Ledger, NEW t \in Threads, pc[t] = "entry"
  PROVE  Sum(Kept(ent[t])) <= MaxInt32
           => Current(heap[ent[t]], call[t].expiry).count = Sum(Kept(ent[t]))
<1>1. CASE Expired(heap[ent[t]], now)
  BY <1>1, CallArguments, CurrentFields DEF Kept, Sum, NoTally
<1>2. CASE ~Expired(heap[ent[t]], now)
  BY <1>2, CallArguments, CurrentFields DEF Kept, Sum, Ledger, Total
<1> QED BY <1>1, <1>2

\* IncrEntry and SyncEntry seen from the one entry they write: either they
\* leave its count and its tally as they found them, or they add the call's
\* count to both.
LEMMA IncrEntryEffect ==
  ASSUME TypeOK, NEW t \in Threads, IncrEntry(t)
  PROVE  LET id == ent[t]
             e == Current(heap[id], call[t].expiry)
         IN  /\ pc[t] = "entry"
             /\ call[t].limit \in Int32
             /\ \A i \in EntryIds : i # id => /\ heap'[i] = heap[i]
                                             /\ tally'[i] = tally[i]
                                             /\ barred'[i] = barred[i]
             /\ heap'[id].expires = e.expires
             /\ \/ /\ e.count > call[t].limit
                   /\ heap'[id].count = e.count
                   /\ Sum(tally'[id]) = Sum(Kept(id))
                \/ /\ e.count <= call[t].limit
                   /\ heap'[id].count = AddInt32(e.count, call[t].count)
                   /\ Sum(tally'[id]) = Sum(Kept(id)) + call[t].count
             /\ ret'[t].blocked = ~ (heap'[id].count <= call[t].limit)
             /\ barred'[id] = (IF Expired(heap[id], now) THEN {} ELSE barred[id])
                                \union (IF ret'[t].blocked
                                          THEN {call[t].limit} ELSE {})
<1> DEFINE id == ent[t]
           e == Current(heap[id], call[t].expiry)
<1>1. pc[t] = "entry" /\ call[t].limit \in Limits
  BY DEF IncrEntry, TypeOK, IncrCalls, SyncCalls
<1>2. /\ id \in EntryIds
      /\ call[t].count \in Nat
      /\ call[t].count \in Counts
      /\ e \in Entry
      /\ Kept(id) \in Tally
  BY <1>1, CallArguments
<1>3. \A i \in EntryIds : i # id => /\ heap'[i] = heap[i]
                                   /\ tally'[i] = tally[i]
                                   /\ barred'[i] = barred[i]
  BY DEF IncrEntry, TypeOK
<1>4. heap'[id] = IF e.count <= call[t].limit
                    THEN EntryIncr(e, call[t].count) ELSE e
  BY <1>2 DEF IncrEntry, Counted, Allowed, TypeOK
<1>5. /\ heap'[id].expires = e.expires
      /\ e.count <= call[t].limit
           => heap'[id].count = AddInt32(e.count, call[t].count)
      /\ ~ (e.count <= call[t].limit) => heap'[id].count = e.count
  BY <1>2, <1>4, EntryIncrType
<1>6. ret'[t].blocked = ~ (heap'[id].count <= call[t].limit)
  BY <1>2, <1>4 DEF IncrEntry, Counted, Allowed, TypeOK
<1>7. tally'[id] = IF ~ (e.count <= call[t].limit) THEN Kept(id)
                   ELSE IF ret'[t].blocked
                     THEN [Kept(id) EXCEPT !.refused = @ + call[t].count]
                     ELSE [Kept(id) EXCEPT !.granted = @ + call[t].count]
  BY <1>2, <1>4, <1>6 DEF IncrEntry, Counted, Allowed, TypeOK, Kept
<1>8. /\ ~ (e.count <= call[t].limit) => Sum(tally'[id]) = Sum(Kept(id))
      /\ e.count <= call[t].limit
           => Sum(tally'[id]) = Sum(Kept(id)) + call[t].count
  BY <1>2, <1>7 DEF Sum, Tally
<1>9. barred'[id] = (IF Expired(heap[id], now) THEN {} ELSE barred[id])
                      \union (IF ret'[t].blocked
                                THEN {call[t].limit} ELSE {})
  BY <1>2, <1>4, <1>6 DEF IncrEntry, Counted, Allowed, TypeOK
<1>10. call[t].limit \in Int32 /\ e.count \in Int32
  BY <1>1, <1>2, BucketAssumption DEF Entry
<1>11. e.count > call[t].limit \/ e.count <= call[t].limit
  BY <1>10, Int32Assumption DEF Int32
<1> QED BY <1>1, <1>3, <1>5, <1>6, <1>8, <1>9, <1>10, <1>11 DEF Int32

\* What KeyBucket.Sync does to the entry it has locked.
LEMMA SyncEntryEffect ==
  ASSUME TypeOK, NEW t \in Threads, SyncEntry(t)
  PROVE  LET id == ent[t]
             e == Current(heap[id], call[t].expiry)
         IN  /\ pc[t] = "entry"
             /\ \A i \in EntryIds : i # id => /\ heap'[i] = heap[i]
                                             /\ tally'[i] = tally[i]
                                             /\ barred'[i] = barred[i]
             /\ heap'[id].expires = e.expires
             /\ heap'[id].count = AddInt32(e.count, call[t].count)
             /\ Sum(tally'[id]) = Sum(Kept(id)) + call[t].count
             /\ barred'[id] = IF Expired(heap[id], now) THEN {} ELSE barred[id]
<1> DEFINE id == ent[t]
           e == Current(heap[id], call[t].expiry)
<1>1. pc[t] = "entry"
  BY DEF SyncEntry
<1>2. /\ id \in EntryIds
      /\ call[t].count \in Nat
      /\ call[t].count \in Counts
      /\ e \in Entry
      /\ Kept(id) \in Tally
  BY <1>1, CallArguments
<1>3. \A i \in EntryIds : i # id => /\ heap'[i] = heap[i]
                                   /\ tally'[i] = tally[i]
                                   /\ barred'[i] = barred[i]
  BY DEF SyncEntry, TypeOK
<1>4. heap'[id] = EntrySync(e, call[t].count)
  BY <1>2 DEF SyncEntry, TypeOK
<1>5. tally'[id] = [Kept(id) EXCEPT !.synced = @ + call[t].count]
  BY <1>2 DEF SyncEntry, TypeOK, Kept
<1>6. Sum(tally'[id]) = Sum(Kept(id)) + call[t].count
  BY <1>2, <1>5 DEF Sum, Tally
<1>7. barred'[id] = IF Expired(heap[id], now) THEN {} ELSE barred[id]
  BY <1>2 DEF SyncEntry, TypeOK
<1> QED BY <1>1, <1>2, <1>3, <1>4, <1>6, <1>7, EntryIncrType

-----------------------------------------------------------------------------
(* Ledger is inductive on its own, given the types.                        *)

\* Every region of Incr, Sync and Store.gc preserves Ledger.
LEMMA NextLedger == TypeOK /\ Ledger /\ [Next]_vars => Ledger'
<1> SUFFICES ASSUME TypeOK, Ledger, [Next]_vars,
                    NEW i \in EntryIds, Total(i)' <= MaxInt32
             PROVE  heap'[i].count = Total(i)'
  BY DEF Ledger
<1>1. Total(i)' = Sum(tally'[i]) /\ Total(i) = Sum(tally[i])
  BY DEF Total, Sum
<1>2. ASSUME NEW t \in Threads, CreateEntry(t)
      PROVE  heap'[i].count = Total(i)'
  <2>1. PICK id \in EntryIds :
          /\ heap' = [heap EXCEPT ![id] = NewEntry(0, call[t].expiry)]
          /\ tally' = [tally EXCEPT ![id] = NoTally]
    BY <1>2 DEF CreateEntry
  <2>2. CASE i = id
    <3>1. heap'[i].count = 0
      BY <2>1, <2>2 DEF TypeOK, NewEntry
    <3>2. tally'[i] = NoTally
      BY <2>1, <2>2 DEF TypeOK
    <3> QED BY <1>1, <3>1, <3>2 DEF NoTally, Sum
  <2>3. CASE i # id
    BY <1>1, <2>1, <2>3 DEF TypeOK, Ledger
  <2> QED BY <2>2, <2>3
<1>3. ASSUME NEW t \in Threads, pc[t] = "entry",
             heap'[ent[t]].count
               = AddInt32(Current(heap[ent[t]], call[t].expiry).count,
                          call[t].count),
             Sum(tally'[ent[t]]) = Sum(Kept(ent[t])) + call[t].count,
             i = ent[t]
      PROVE  heap'[i].count = Total(i)'
  <2> DEFINE old == Sum(Kept(ent[t]))
             c == call[t].count
             n == Current(heap[ent[t]], call[t].expiry).count
  <2>1. old \in Nat /\ c \in Nat
    BY <1>3, CallArguments DEF Sum, Tally
  <2>2. old + c <= MaxInt32
    BY <1>1, <1>3
  <2>3. old <= MaxInt32 => n = old
    BY <1>3, KeptLedger
  <2>4. heap'[i].count = AddInt32(n, c) /\ Total(i)' = old + c
    BY <1>1, <1>3
  <2> HIDE DEF old, c, n
  <2>5. n = old /\ old + c \in Int32
    BY <2>1, <2>2, <2>3, Int32Assumption DEF Int32
  <2> QED BY <2>1, <2>4, <2>5, AddInt32Exact
<1>4. ASSUME NEW t \in Threads, IncrEntry(t)
      PROVE  heap'[i].count = Total(i)'
  <2>1. CASE i # ent[t]
    BY <1>1, <1>4, <2>1, IncrEntryEffect DEF Ledger
  <2>2. CASE i = ent[t]
    BY <1>1, <1>3, <1>4, <2>2, IncrEntryEffect, KeptLedger
  <2> QED BY <2>1, <2>2
<1>5. ASSUME NEW t \in Threads, SyncEntry(t)
      PROVE  heap'[i].count = Total(i)'
  <2>1. CASE i # ent[t]
    BY <1>1, <1>5, <2>1, SyncEntryEffect DEF Ledger
  <2>2. CASE i = ent[t]
    BY <1>3, <1>5, <2>2, SyncEntryEffect
  <2> QED BY <2>1, <2>2
<1>6. CASE UNCHANGED <<heap, tally, barred>>
  BY <1>1, <1>6 DEF Ledger
<1> QED BY <1>2, <1>4, <1>5, <1>6, EntryWriters

\* The counts of a new bucket are exact.
LEMMA InitLedger == Init => Ledger
BY DEF Init, Ledger, Total, NewEntry, NoTally

\* The count of an entry is what KeyBucket.Incr and KeyBucket.Sync added to
\* it since its window began, for any number of goroutines, keys and calls.
THEOREM LedgerHolds == Spec => []Ledger
BY InitTypeOK, NextTypeOK, InitLedger, NextLedger, PTL DEF Spec

-----------------------------------------------------------------------------
(* A refusal lasts: RefusalSticks, from Ledger.                            *)

\* Every region of Incr, Sync and Store.gc preserves RefusalSticks.
LEMMA NextRefusal ==
  TypeOK /\ Ledger /\ RefusalSticks /\ [Next]_vars => RefusalSticks'
<1> SUFFICES ASSUME TypeOK, Ledger, RefusalSticks, [Next]_vars,
                    NEW i \in EntryIds, NEW l \in barred'[i],
                    Total(i)' <= MaxInt32
             PROVE  heap'[i].count > l
  BY DEF RefusalSticks
<1>1. Total(i)' = Sum(tally'[i]) /\ Total(i) = Sum(tally[i])
  BY DEF Total, Sum
<1>2. TypeOK' /\ Ledger'
  BY NextTypeOK, NextLedger
<1>3. heap'[i].count = Total(i)'
  BY <1>2 DEF Ledger
<1>4. ASSUME NEW t \in Threads, CreateEntry(t)
      PROVE  heap'[i].count > l
  <2>1. PICK id \in EntryIds :
          /\ heap' = [heap EXCEPT ![id] = NewEntry(0, call[t].expiry)]
          /\ tally' = [tally EXCEPT ![id] = NoTally]
          /\ barred' = [barred EXCEPT ![id] = {}]
    BY <1>4 DEF CreateEntry
  <2>2. i # id
    BY <2>1 DEF TypeOK
  <2> QED BY <1>1, <2>1, <2>2 DEF TypeOK, RefusalSticks
\* The limits at which an entry refused stay below its count when a call
\* that has locked it adds to the count.
<1>5. ASSUME NEW t \in Threads, pc[t] = "entry", i = ent[t],
             l \in IF Expired(heap[i], now) THEN {} ELSE barred[i],
             \/ Sum(tally'[i]) = Sum(Kept(i)) + call[t].count
             \/ Sum(tally'[i]) = Sum(Kept(i))
      PROVE  heap'[i].count > l
  <2>1. Kept(i) = tally[i] /\ l \in barred[i]
    BY <1>5 DEF Kept
  <2>2. Sum(tally[i]) \in Nat /\ call[t].count \in Nat
    BY <1>5, <2>1, CallArguments DEF Sum, Tally
  <2>3. Total(i) <= Total(i)'
    BY <1>1, <1>5, <2>1, <2>2
  <2>4. l \in Int32
    BY <2>1, BucketAssumption DEF TypeOK
  <2>5. Total(i) <= MaxInt32 /\ Total(i) \in Nat
    BY <1>1, <1>5, <2>1, <2>2, <2>3, Int32Assumption
  <2>6. heap[i].count > l /\ heap[i].count = Total(i)
    BY <2>1, <2>5 DEF RefusalSticks, Ledger
  <2>7. Total(i)' \in Nat
    BY <1>1, <1>5, <2>1, <2>2
  <2> QED BY <1>3, <2>3, <2>4, <2>5, <2>6, <2>7, Int32Assumption DEF Int32
<1>6. ASSUME NEW t \in Threads, IncrEntry(t)
      PROVE  heap'[i].count > l
  <2>1. CASE i # ent[t]
    BY <1>1, <1>6, <2>1, IncrEntryEffect DEF RefusalSticks
  <2>2. CASE i = ent[t] /\ l \in IF Expired(heap[i], now) THEN {} ELSE barred[i]
    BY <1>5, <1>6, <2>2, IncrEntryEffect
  <2>3. CASE i = ent[t] /\ ret'[t].blocked /\ l = call[t].limit
    <3>1. heap'[i].count \in Int32
      BY <1>2 DEF TypeOK, Entry
    <3>2. l \in Int32 /\ ~ (heap'[i].count <= l)
      BY <1>6, <2>3, IncrEntryEffect
    <3> QED BY <3>1, <3>2, Int32Assumption DEF Int32
  <2> QED BY <1>6, <2>1, <2>2, <2>3, IncrEntryEffect
<1>7. ASSUME NEW t \in Threads, SyncEntry(t)
      PROVE  heap'[i].count > l
  <2>1. CASE i # ent[t]
    BY <1>1, <1>7, <2>1, SyncEntryEffect DEF RefusalSticks
  <2>2. CASE i = ent[t]
    BY <1>5, <1>7, <2>2, SyncEntryEffect
  <2> QED BY <2>1, <2>2
<1>8. CASE UNCHANGED <<heap, tally, barred>>
  BY <1>1, <1>8 DEF RefusalSticks
<1> QED BY <1>4, <1>6, <1>7, <1>8, EntryWriters

\* A new bucket has refused nothing.
LEMMA InitRefusal == Init => RefusalSticks
BY DEF Init, RefusalSticks

\* A limit at which KeyBucket.Incr refused a call keeps refusing for the rest
\* of the entry's window.
THEOREM RefusalHolds == Spec => []RefusalSticks
BY InitTypeOK, NextTypeOK, InitLedger, NextLedger, InitRefusal, NextRefusal,
   PTL DEF Spec

-----------------------------------------------------------------------------
(* What is allowed is within the limit.                                    *)

\* Of all steps only IncrEntry(t) takes goroutine t from "entry" to "expiry".
LEMMA CountingStep ==
  ASSUME TypeOK, [Next]_vars, NEW t \in Threads,
         pc[t] = "entry", pc'[t] = "expiry"
  PROVE  IncrEntry(t)
<1>1. ASSUME NEW u \in Threads, NEW c, Begin(u, c) PROVE FALSE
  BY <1>1 DEF Begin, TypeOK
<1>2. ASSUME NEW u \in Threads,
             \/ GetEntry(u) \/ FindEntry(u) \/ CreateEntry(u)
             \/ IncrReturn(u) \/ SyncEntry(u)
      PROVE  FALSE
  BY <1>2 DEF GetEntry, FindEntry, CreateEntry, IncrReturn, SyncEntry, TypeOK
<1>3. ASSUME NEW u \in Threads, IncrEntry(u) PROVE u = t
  BY <1>3 DEF IncrEntry, TypeOK
<1>4. pc' # pc
  OBVIOUS
<1> QED BY <1>1, <1>2, <1>3, <1>4
        DEF Next, vars, Resume, Collect, IncrCall, SyncCall, GcLock, GcScan,
            GcReap, GcUnlock, Tick

\* A region of Incr that allows its call leaves what was admitted within the
\* call's limit.
LEMMA NextAllowed ==
  ASSUME TypeOK, Ledger, [Next]_vars, NEW t \in Threads,
         pc[t] = "entry", pc'[t] = "expiry", ~ret'[t].blocked,
         Total(ent[t])' <= MaxInt32
  PROVE  tally'[ent[t]].granted <= call[t].limit
<1>1. TypeOK' /\ Ledger'
  BY NextTypeOK, NextLedger
<1>2. IncrEntry(t)
  BY CountingStep
<1>3. ent[t] \in EntryIds /\ ent'[t] = ent[t]
  BY <1>2, CallArguments DEF IncrEntry
<1>4. /\ heap'[ent[t]].count <= call[t].limit
      /\ call[t].limit \in Int32
  BY <1>2, IncrEntryEffect
<1>5. heap'[ent[t]].count = Sum(tally'[ent[t]])
  BY <1>1, <1>3 DEF Ledger, Total, Sum
<1>6. tally'[ent[t]] \in Tally
  BY <1>1, <1>3 DEF TypeOK
<1>7. /\ tally'[ent[t]].granted \in Nat
      /\ tally'[ent[t]].granted <= Sum(tally'[ent[t]])
      /\ Sum(tally'[ent[t]]) \in Nat
  BY <1>6 DEF Tally, Sum
<1> QED BY <1>4, <1>5, <1>7, Int32Assumption DEF Int32

\* An Incr that is allowed leaves everything admitted in its entry's window
\* within the limit it was called with.
THEOREM AllowedHolds == Spec => AllowedWithinLimit
<1>1. TypeOK /\ Ledger /\ [Next]_vars
        => [\A t \in Threads :
              /\ pc[t] = "entry" /\ pc'[t] = "expiry"
              /\ ~ret'[t].blocked
              /\ Total(ent[t])' <= MaxInt32
              => tally'[ent[t]].granted <= call[t].limit]_vars
  BY NextAllowed
<1> QED BY <1>1, InitTypeOK, NextTypeOK, InitLedger, NextLedger, PTL
        DEF Spec, AllowedWithinLimit

-----------------------------------------------------------------------------
(* A live entry is kept.                                                   *)

\* No region of Incr, Sync or Store.gc harms a live entry.
LEMMA NextLive ==
  ASSUME TypeOK, Ledger, [Next]_vars, NEW k \in Keys,
         lookup[k] # NoEntry, ~Expired(heap[lookup[k]], now)
  PROVE  /\ lookup'[k] = lookup[k]
         /\ heap'[lookup[k]].expires = heap[lookup[k]].expires
         /\ Total(lookup[k])' <= MaxInt32
              => heap'[lookup[k]].count >= heap[lookup[k]].count
<1> DEFINE id == lookup[k]
           Goal == /\ lookup'[k] = id
                   /\ heap'[id].expires = heap[id].expires
                   /\ Total(id)' <= MaxInt32
                        => heap'[id].count >= heap[id].count
<1>1. id \in EntryIds /\ heap[id] \in Entry /\ tally[id] \in Tally
  BY DEF TypeOK
<1>2. TypeOK' /\ Ledger'
  BY NextTypeOK, NextLedger
<1>3. heap[id].count \in Int
  BY <1>1, Int32Assumption DEF Entry, Int32
<1>4. lookup'[k] = id
  <2>1. CASE UNCHANGED lookup
    BY <2>1
  <2>2. ASSUME NEW t \in Threads, CreateEntry(t) PROVE lookup'[k] = id
    BY <2>2 DEF CreateEntry, TypeOK
  <2>3. ASSUME NEW j \in Keys, GcReap(j) PROVE lookup'[k] = id
    BY <2>3 DEF GcReap, TypeOK
  <2> QED BY <2>1, <2>2, <2>3
          DEF Next, vars, Resume, Collect, IncrCall, SyncCall, Begin,
              GetEntry, FindEntry, IncrEntry, IncrReturn, SyncEntry, GcLock,
              GcScan, GcUnlock, Tick
\* A call that locks this very entry finds it live and only adds to it.
<1>5. ASSUME NEW t \in Threads, IncrEntry(t) \/ SyncEntry(t), ent[t] = id
      PROVE  /\ heap'[id].expires = heap[id].expires
             /\ Sum(tally'[id]) >= Sum(tally[id])
  <2>1. pc[t] = "entry"
    BY <1>5 DEF IncrEntry, SyncEntry
  <2>2. /\ Current(heap[id], call[t].expiry) = heap[id]
        /\ Kept(id) = tally[id]
        /\ call[t].count \in Nat
    BY <1>5, <2>1, CallArguments, CurrentFields DEF Kept
  <2>3. Sum(tally[id]) \in Nat
    BY <1>1 DEF Sum, Tally
  <2>4. heap'[id].expires = heap[id].expires
    BY <1>5, <2>2, IncrEntryEffect, SyncEntryEffect
  <2>5. \/ Sum(tally'[id]) = Sum(tally[id]) + call[t].count
        \/ Sum(tally'[id]) = Sum(tally[id])
    BY <1>5, <2>2, IncrEntryEffect, SyncEntryEffect
  <2> QED BY <2>2, <2>3, <2>4, <2>5
<1>6. ASSUME NEW t \in Threads, IncrEntry(t) \/ SyncEntry(t)
      PROVE  Goal
  <2>1. CASE ent[t] # id
    BY <1>1, <1>3, <1>4, <1>6, <2>1, IncrEntryEffect, SyncEntryEffect
  <2>2. CASE ent[t] = id
    <3> SUFFICES ASSUME Total(id)' <= MaxInt32
                 PROVE  heap'[id].count >= heap[id].count
      BY <1>4, <1>5, <1>6, <2>2
    <3>1. Total(id)' = Sum(tally'[id]) /\ Total(id) = Sum(tally[id])
      BY <1>4 DEF Total, Sum
    <3>2. tally'[id] \in Tally
      BY <1>1, <1>2 DEF TypeOK
    <3>3. Sum(tally'[id]) \in Nat /\ Sum(tally[id]) \in Nat
      BY <1>1, <3>2 DEF Sum, Tally
    <3>4. Sum(tally[id]) <= Sum(tally'[id])
      BY <1>5, <1>6, <2>2, <3>3
    <3>5. heap'[id].count = Sum(tally'[id]) /\ heap[id].count = Sum(tally[id])
      <4>1. Sum(tally[id]) <= MaxInt32 /\ Sum(tally'[id]) <= MaxInt32
        BY <3>1, <3>3, <3>4, Int32Assumption
      <4> QED BY <1>1, <1>2, <1>4, <3>1, <4>1 DEF Ledger
    <3> QED BY <3>3, <3>4, <3>5
  <2> QED BY <2>1, <2>2
<1>7. ASSUME NEW t \in Threads, CreateEntry(t)
      PROVE  Goal
  <2>1. PICK new \in EntryIds \ InUse :
          heap' = [heap EXCEPT ![new] = NewEntry(0, call[t].expiry)]
    BY <1>7 DEF CreateEntry
  <2>2. new # id
    BY DEF InUse
  <2>3. heap'[id] = heap[id]
    BY <1>1, <2>1, <2>2 DEF TypeOK
  <2> QED BY <1>3, <1>4, <2>3
<1>8. CASE UNCHANGED <<heap, tally, barred>>
  BY <1>3, <1>4, <1>8
<1> QED BY <1>6, <1>7, <1>8, EntryWriters

\* No step of any goroutine or of the collector takes a live entry from its
\* key, ends its window early or lowers its count.
THEOREM LiveHolds == Spec => LiveEntryKept
<1>1. TypeOK /\ Ledger /\ [Next]_vars
        => [\A k \in Keys :
              LET id == lookup[k] IN
              id # NoEntry /\ ~Expired(heap[id], now)
              => /\ lookup'[k] = id
                 /\ heap'[id].expires = heap[id].expires
                 /\ Total(id)' <= MaxInt32
                      => heap'[id].count >= heap[id].count]_vars
  BY NextLive
<1> QED BY <1>1, InitTypeOK, NextTypeOK, InitLedger, NextLedger, PTL
        DEF Spec, LiveEntryKept

-----------------------------------------------------------------------------
(* The window a count is reported under.  ReportedInItsWindow speaks of    *)
(* returned calls; while a call is on its way to return, the same holds of *)
(* the expiry its entry has now, which is what it is about to read.  Until *)
(* it is counted, the two records of it are still equal.                   *)

ReportInv ==
  \A t \in Threads :
    /\ pc[t] \in {"lookup", "create", "entry"}
         => ret[t].expires = 0 /\ origin[t] = 0
    /\ pc[t] = "expiry"
         => (heap[ent[t]].expires # origin[t] => origin[t] < now)
    /\ pc[t] = "idle"
         => (ret[t].expires # origin[t] => origin[t] < now)

\* A new bucket has reported nothing.
LEMMA InitReport == Init => ReportInv
BY DEF Init, ReportInv, NoResult

\* Every region of Incr, Sync and Store.gc preserves ReportInv.
LEMMA NextReport == TypeOK /\ ReportInv /\ [Next]_vars => ReportInv'
<1> SUFFICES ASSUME TypeOK, ReportInv, [Next]_vars PROVE ReportInv'
  OBVIOUS
<1>1. \A t \in Threads : origin[t] \in Nat
  BY DEF TypeOK
<1>2. now \in Nat
  BY BucketAssumption DEF TypeOK
<1>3. ASSUME NEW t \in Threads, NEW c, Begin(t, c) PROVE ReportInv'
  BY <1>3 DEF Begin, TypeOK, ReportInv, NoResult, Result
<1>4. ASSUME NEW t \in Threads, GetEntry(t) \/ FindEntry(t) PROVE ReportInv'
  BY <1>4 DEF GetEntry, FindEntry, TypeOK, ReportInv
\* A new entry takes an address that no call on its way to return points to.
<1>5. ASSUME NEW t \in Threads, CreateEntry(t) PROVE ReportInv'
  <2>1. PICK new \in EntryIds \ InUse :
          heap' = [heap EXCEPT ![new] = NewEntry(0, call[t].expiry)]
    BY <1>5 DEF CreateEntry
  <2>2. \A u \in Threads : pc[u] = "expiry" => heap'[ent[u]] = heap[ent[u]]
    BY <2>1 DEF InUse, TypeOK
  <2>3. /\ pc[t] = "create" /\ pc' = [pc EXCEPT ![t] = "entry"]
        /\ \A u \in Threads : u # t => ent'[u] = ent[u]
        /\ UNCHANGED <<now, ret, origin>>
    BY <1>5 DEF CreateEntry, TypeOK
  <2> QED BY <2>2, <2>3 DEF TypeOK, ReportInv
\* A call that locks an entry renews it only when its window is over.
<1>6. ASSUME NEW t \in Threads, IncrEntry(t) \/ SyncEntry(t),
             NEW u \in Threads, pc[u] = "expiry"
      PROVE  heap'[ent[u]].expires # origin[u] => origin[u] < now
  <2>1. ent[u] \in EntryIds
    BY <1>6 DEF TypeOK
  <2>2. CASE ent[u] # ent[t]
    BY <1>6, <2>1, <2>2, IncrEntryEffect, SyncEntryEffect DEF ReportInv
  <2>3. CASE ent[u] = ent[t]
    <3> DEFINE e == heap[ent[t]]
    <3>1. pc[t] = "entry"
      BY <1>6 DEF IncrEntry, SyncEntry
    <3>2. e \in Entry /\ call[t].expiry \in Nat
      BY <3>1, CallArguments
    <3>3. heap'[ent[u]].expires = Current(e, call[t].expiry).expires
      BY <1>6, <2>3, IncrEntryEffect, SyncEntryEffect
    <3>4. CASE Expired(e, now)
      BY <1>6, <2>3, <3>4 DEF Expired, ReportInv
    <3>5. CASE ~Expired(e, now)
      BY <1>6, <2>3, <3>2, <3>3, <3>5, CurrentFields DEF ReportInv
    <3> QED BY <3>4, <3>5
  <2> QED BY <2>2, <2>3
<1>7. ASSUME NEW t \in Threads, IncrEntry(t) PROVE ReportInv'
  <2>1. /\ pc[t] = "entry" /\ pc' = [pc EXCEPT ![t] = "expiry"]
        /\ ent[t] \in EntryIds
        /\ origin'[t] = heap'[ent[t]].expires
        /\ \A u \in Threads : u # t => /\ ret'[u] = ret[u]
                                       /\ origin'[u] = origin[u]
        /\ UNCHANGED <<now, ent>>
    BY <1>7, CallArguments DEF IncrEntry, TypeOK
  <2> QED BY <1>6, <1>7, <2>1 DEF TypeOK, ReportInv
<1>8. ASSUME NEW t \in Threads, IncrReturn(t) PROVE ReportInv'
  BY <1>8 DEF IncrReturn, TypeOK, ReportInv, Result
<1>9. ASSUME NEW t \in Threads, SyncEntry(t) PROVE ReportInv'
  <2>1. /\ pc[t] = "entry" /\ pc' = [pc EXCEPT ![t] = "idle"]
        /\ \A u \in Threads : u # t => ent'[u] = ent[u]
        /\ UNCHANGED <<now, ret, origin>>
    BY <1>9 DEF SyncEntry, TypeOK
  <2> QED BY <1>6, <1>9, <2>1 DEF TypeOK, ReportInv
<1>10. CASE Tick
  BY <1>1, <1>2, <1>10 DEF Tick, ReportInv
<1>11. CASE UNCHANGED <<now, heap, pc, ent, ret, origin>>
  BY <1>11 DEF ReportInv
<1> QED BY <1>3, <1>4, <1>5, <1>7, <1>8, <1>9, <1>10, <1>11
        DEF Next, vars, Resume, Collect, IncrCall, SyncCall, GcLock, GcScan,
            GcReap, GcUnlock

\* A count is reported under another window than its own only when its own
\* window is over.
THEOREM ReportedHolds == Spec => []ReportedInItsWindow
<1>1. ReportInv => ReportedInItsWindow
  BY DEF ReportInv, ReportedInItsWindow
<1> QED BY <1>1, InitTypeOK, NextTypeOK, InitReport, NextReport, PTL DEF Spec
=============================================================================
