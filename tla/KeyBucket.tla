----------------------------- MODULE KeyBucket ------------------------------
(***************************************************************************)
(* store/bucket/keybucket.go and Store.gc of store/store.go: one bucket of *)
(* entries, the goroutines that call Incr and Sync on it, and the garbage  *)
(* collector that walks it.                                                *)
(*                                                                         *)
(* Incr and Sync read the bucket's map under the bucket's lock, release    *)
(* it, and only then lock the entry they found.  One action is one such    *)
(* region: what a region reads and writes is protected by its lock, except *)
(* the entry's expiry, which a region writes once and which is read        *)
(* atomically without the lock by the collector and by Incr's return.  The *)
(* collector holds the bucket's lock across several steps (bucketLocked).  *)
(*                                                                         *)
(* Incr reads the clock when it starts and uses that reading only for the  *)
(* expiry GenExpiry(t, window) it would give a fresh entry, so a pending   *)
(* call carries that expiry.  For Sync the expiry comes with the command.  *)
(***************************************************************************)
EXTENDS KeyEntry

CONSTANTS Keys,      \* the keys that hash to this bucket
          Threads,   \* the goroutines serving Incr and SyncKeys calls
          EntryIds,  \* addresses of KeyEntry objects
          NoEntry,   \* the nil pointer
          Counts,    \* counts passed to Incr and Sync
          Limits,    \* thresholds passed to Incr
          Windows,   \* windows, in seconds, passed to Incr
          GcGrace,   \* opts.gcGrace, in the unit of the clock
          MaxNow,    \* bound: the last instant of the clock
          MaxCalls   \* bound: the number of calls made

ASSUME BucketAssumption == /\ NoEntry \notin EntryIds \union Entry
                           /\ Counts \subseteq 0 .. MaxInt32
                           /\ Limits \subseteq Int32
                           /\ Windows \subseteq Int
                           /\ GcGrace \in Nat
                           /\ MaxNow \in Nat
                           /\ MaxCalls \in Nat

VARIABLES
  now,           \* the clock
  lookup,        \* KeyBucket.lookup: the entry of each key
  heap,          \* the KeyEntry objects
  bucketLocked,  \* the collector holds the bucket's lock
  pc,            \* where each goroutine is in Incr or Sync
  call,          \* the arguments of its call
  ent,           \* its local variable e
  ret,           \* what its Incr returns: blocked, expiry, dosync
  gcTodo,        \* keys the collector has yet to visit in this pass
  gcKey,         \* the key found out of grace whose entry is not yet locked
  calls,         \* the number of calls made so far
  \* History variables, read by no action.
  tally,         \* what was added to each entry since it was (re)initialised
  barred,        \* the limits at which a call was refused in that time
  origin         \* the expiry of the entry when each Incr was counted

vars == <<now, lookup, heap, bucketLocked, pc, call, ent, ret, gcTodo, gcKey,
          calls, tally, barred, origin>>

\* The instants at which a window can end, whichever node's clock chose it.
Expiries == {GenExpiry(t, w) : t \in 0 .. MaxNow, w \in Windows}

IncrCalls == [op : {"Incr"}, key : Keys, count : Counts, limit : Limits,
              expiry : Nat]
SyncCalls == [op : {"Sync"}, key : Keys, count : Counts, expiry : Nat]
NoCall == [op |-> "None"]

Result == [blocked : BOOLEAN, dosync : BOOLEAN, expires : Nat]
NoResult == [blocked |-> FALSE, dosync |-> FALSE, expires |-> 0]

\* What made up an entry's count: counts admitted, counts received from other
\* nodes, and counts added by calls that were nevertheless refused.
Tally == [granted : Nat, synced : Nat, refused : Nat]
NoTally == [granted |-> 0, synced |-> 0, refused |-> 0]
Total(id) == tally[id].granted + tally[id].synced + tally[id].refused

\* Objects something still points to; any other address can be allocated.
InUse == {lookup[k] : k \in Keys}
           \union {ent[t] : t \in {u \in Threads : pc[u] \in {"entry", "expiry"}}}

TypeOK ==
  /\ now \in 0 .. MaxNow
  /\ lookup \in [Keys -> EntryIds \union {NoEntry}]
  /\ heap \in [EntryIds -> Entry]
  /\ bucketLocked \in BOOLEAN
  /\ pc \in [Threads -> {"idle", "lookup", "create", "entry", "expiry"}]
  /\ call \in [Threads -> IncrCalls \union SyncCalls \union {NoCall}]
  /\ ent \in [Threads -> EntryIds \union {NoEntry}]
  /\ \A t \in Threads :
       /\ pc[t] \in {"lookup", "create", "entry"}
            => call[t] \in IncrCalls \union SyncCalls
       /\ pc[t] = "expiry" => call[t] \in IncrCalls
       /\ pc[t] \in {"entry", "expiry"} => ent[t] \in EntryIds
  /\ ret \in [Threads -> Result]
  /\ gcTodo \in SUBSET Keys
  /\ gcKey \in SUBSET Keys
  /\ calls \in Nat
  /\ tally \in [EntryIds -> Tally]
  /\ barred \in [EntryIds -> SUBSET Limits]
  /\ origin \in [Threads -> Nat]

Init ==
  /\ now = 0
  /\ lookup = [k \in Keys |-> NoEntry]
  /\ heap = [id \in EntryIds |-> NewEntry(0, 0)]
  /\ bucketLocked = FALSE
  /\ pc = [t \in Threads |-> "idle"]
  /\ call = [t \in Threads |-> NoCall]
  /\ ent = [t \in Threads |-> NoEntry]
  /\ ret = [t \in Threads |-> NoResult]
  /\ gcTodo = {}
  /\ gcKey = {}
  /\ calls = 0
  /\ tally = [id \in EntryIds |-> NoTally]
  /\ barred = [id \in EntryIds |-> {}]
  /\ origin = [t \in Threads |-> 0]

-----------------------------------------------------------------------------
(* The calls.                                                              *)

Begin(t, c) ==
  /\ pc[t] = "idle"
  /\ calls < MaxCalls
  /\ calls' = calls + 1
  /\ pc' = [pc EXCEPT ![t] = "lookup"]
  /\ call' = [call EXCEPT ![t] = c]
  /\ ret' = [ret EXCEPT ![t] = NoResult]
  /\ origin' = [origin EXCEPT ![t] = 0]
  /\ UNCHANGED <<now, lookup, heap, bucketLocked, ent, gcTodo, gcKey, tally,
                 barred>>

IncrCall(t, key, count, limit, window) ==
  Begin(t, [op |-> "Incr", key |-> key, count |-> count, limit |-> limit,
            expiry |-> GenExpiry(now, window)])

\* A command whose window is over on this node's clock is dropped.
SyncCall(t, key, count, expiry) ==
  /\ ~ (now > expiry)
  /\ Begin(t, [op |-> "Sync", key |-> key, count |-> count,
               expiry |-> expiry])

\* Mutant of GetEntry: the result is used without the check for nil.
GetEntryUnchecked(t) ==
  /\ pc[t] = "lookup"
  /\ ~bucketLocked
  /\ ent' = [ent EXCEPT ![t] = lookup[call[t].key]]
  /\ pc' = [pc EXCEPT ![t] = "entry"]
  /\ UNCHANGED <<now, lookup, heap, bucketLocked, call, ret, gcTodo, gcKey,
                 calls, tally, barred, origin>>

GetEntry(t) ==
  /\ pc[t] = "lookup"
  /\ ~bucketLocked
  /\ ent' = [ent EXCEPT ![t] = lookup[call[t].key]]
  /\ pc' = [pc EXCEPT ![t] = IF lookup[call[t].key] = NoEntry
                               THEN "create" ELSE "entry"]
  /\ UNCHANGED <<now, lookup, heap, bucketLocked, call, ret, gcTodo, gcKey,
                 calls, tally, barred, origin>>

\* The double check under the bucket's lock finds another call's entry ...
FindEntry(t) ==
  LET key == call[t].key IN
  /\ pc[t] = "create"
  /\ ~bucketLocked
  /\ lookup[key] # NoEntry
  /\ ent' = [ent EXCEPT ![t] = lookup[key]]
  /\ pc' = [pc EXCEPT ![t] = "entry"]
  /\ UNCHANGED <<now, lookup, heap, bucketLocked, call, ret, gcTodo, gcKey,
                 calls, tally, barred, origin>>

\* Mutant of CreateEntry: the new entry is not put into the map.
CreateEntryUnlisted(t) ==
  /\ pc[t] = "create"
  /\ ~bucketLocked
  /\ lookup[call[t].key] = NoEntry
  /\ \E id \in EntryIds \ InUse :
       /\ heap' = [heap EXCEPT ![id] = NewEntry(0, call[t].expiry)]
       /\ ent' = [ent EXCEPT ![t] = id]
       /\ tally' = [tally EXCEPT ![id] = NoTally]
       /\ barred' = [barred EXCEPT ![id] = {}]
  /\ pc' = [pc EXCEPT ![t] = "entry"]
  /\ UNCHANGED <<now, lookup, bucketLocked, call, ret, gcTodo, gcKey, calls,
                 origin>>

\* ... or makes one, at an address no one points to.
CreateEntry(t) ==
  LET key == call[t].key IN
  /\ pc[t] = "create"
  /\ ~bucketLocked
  /\ lookup[key] = NoEntry
  /\ \E id \in EntryIds \ InUse :
       /\ heap' = [heap EXCEPT ![id] = NewEntry(0, call[t].expiry)]
       /\ lookup' = [lookup EXCEPT ![key] = id]
       /\ ent' = [ent EXCEPT ![t] = id]
       /\ tally' = [tally EXCEPT ![id] = NoTally]
       /\ barred' = [barred EXCEPT ![id] = {}]
  /\ pc' = [pc EXCEPT ![t] = "entry"]
  /\ UNCHANGED <<now, bucketLocked, call, ret, gcTodo, gcKey, calls, origin>>

\* The entry as a call finds it under its lock: a new window if it expired.
Current(e, expiry) == IF Expired(e, now) THEN ReInit(e, 0, expiry) ELSE e

\* Incr between e.Lock and e.Unlock.  Calls are counted until one goes over
\* the limit: that one is counted and refused, later ones only refused.
IncrEntry(t) ==
  LET id == ent[t]
      limit == call[t].limit
      count == call[t].count
      e == Current(heap[id], call[t].expiry)
      previousTotal == e.count
      counted == Counted(previousTotal, limit)
      new == IF counted THEN EntryIncr(e, count) ELSE e
      newTotal == new.count
      blocked == ~Allowed(newTotal, limit)
      old == IF Expired(heap[id], now) THEN NoTally ELSE tally[id]
      seen == IF Expired(heap[id], now) THEN {} ELSE barred[id]
  IN
  /\ pc[t] = "entry"
  /\ call[t].op = "Incr"
  /\ heap' = [heap EXCEPT ![id] = new]
  /\ ret' = [ret EXCEPT ![t] =
               [blocked |-> blocked,
                dosync |-> blocked /\ previousTotal < newTotal,
                expires |-> 0]]
  /\ pc' = [pc EXCEPT ![t] = "expiry"]
  /\ tally' = [tally EXCEPT ![id] =
                 IF ~counted THEN old
                 ELSE IF blocked THEN [old EXCEPT !.refused = @ + count]
                 ELSE [old EXCEPT !.granted = @ + count]]
  /\ barred' = [barred EXCEPT ![id] =
                  IF blocked THEN seen \union {limit} ELSE seen]
  /\ origin' = [origin EXCEPT ![t] = new.expires]
  /\ UNCHANGED <<now, lookup, bucketLocked, call, ent, gcTodo, gcKey, calls>>

\* Incr reads the entry's expiry again, without its lock, to return it.
IncrReturn(t) ==
  /\ pc[t] = "expiry"
  /\ ret' = [ret EXCEPT ![t].expires = heap[ent[t]].expires]
  /\ pc' = [pc EXCEPT ![t] = "idle"]
  /\ call' = [call EXCEPT ![t] = NoCall]
  /\ ent' = [ent EXCEPT ![t] = NoEntry]
  /\ UNCHANGED <<now, lookup, heap, bucketLocked, gcTodo, gcKey, calls, tally,
                 barred, origin>>

\* Sync between e.Lock and e.Unlock, and its return.
SyncEntry(t) ==
  LET id == ent[t]
      count == call[t].count
      old == IF Expired(heap[id], now) THEN NoTally ELSE tally[id]
      seen == IF Expired(heap[id], now) THEN {} ELSE barred[id]
  IN
  /\ pc[t] = "entry"
  /\ call[t].op = "Sync"
  /\ heap' = [heap EXCEPT ![id] =
                EntrySync(Current(heap[id], call[t].expiry), count)]
  /\ pc' = [pc EXCEPT ![t] = "idle"]
  /\ call' = [call EXCEPT ![t] = NoCall]
  /\ ent' = [ent EXCEPT ![t] = NoEntry]
  /\ tally' = [tally EXCEPT ![id] = [old EXCEPT !.synced = @ + count]]
  /\ barred' = [barred EXCEPT ![id] = seen]
  /\ UNCHANGED <<now, lookup, bucketLocked, ret, gcTodo, gcKey, calls, origin>>

-----------------------------------------------------------------------------
(* The garbage collector.                                                  *)

GcLock ==
  /\ ~bucketLocked
  /\ bucketLocked' = TRUE
  /\ gcTodo' = {k \in Keys : lookup[k] # NoEntry}
  /\ UNCHANGED <<now, lookup, heap, pc, call, ent, ret, gcKey, calls, tally,
                 barred, origin>>

\* The check of an entry's age does not take the entry's lock.
GcScan(k) ==
  /\ bucketLocked
  /\ gcKey = {}
  /\ k \in gcTodo
  /\ gcTodo' = gcTodo \ {k}
  /\ gcKey' = IF heap[lookup[k]].expires + GcGrace < now THEN {k} ELSE {}
  /\ UNCHANGED <<now, lookup, heap, bucketLocked, pc, call, ent, ret, calls,
                 tally, barred, origin>>

\* Mutant of GcReap: the entry's expiry is not checked again.
GcReapUnchecked(k) ==
  /\ k \in gcKey
  /\ gcKey' = {}
  /\ lookup' = [lookup EXCEPT ![k] = NoEntry]
  /\ UNCHANGED <<now, heap, bucketLocked, pc, call, ent, ret, gcTodo, calls,
                 tally, barred, origin>>

\* Under the entry's lock only its expiry is checked again.
GcReap(k) ==
  /\ k \in gcKey
  /\ gcKey' = {}
  /\ lookup' = IF Expired(heap[lookup[k]], now)
                 THEN [lookup EXCEPT ![k] = NoEntry] ELSE lookup
  /\ UNCHANGED <<now, heap, bucketLocked, pc, call, ent, ret, gcTodo, calls,
                 tally, barred, origin>>

GcUnlock ==
  /\ bucketLocked
  /\ gcTodo = {} /\ gcKey = {}
  /\ bucketLocked' = FALSE
  /\ UNCHANGED <<now, lookup, heap, pc, call, ent, ret, gcTodo, gcKey, calls,
                 tally, barred, origin>>

-----------------------------------------------------------------------------

Tick ==
  /\ now < MaxNow
  /\ now' = now + 1
  /\ UNCHANGED <<lookup, heap, bucketLocked, pc, call, ent, ret, gcTodo,
                 gcKey, calls, tally, barred, origin>>

Resume(t) ==
  \/ GetEntry(t) \/ FindEntry(t) \/ CreateEntry(t)
  \/ IncrEntry(t) \/ IncrReturn(t) \/ SyncEntry(t)

Collect == \/ \E k \in Keys : GcScan(k) \/ GcReap(k)
           \/ GcUnlock

Next ==
  \/ \E t \in Threads, k \in Keys, c \in Counts :
       \/ \E l \in Limits, w \in Windows : IncrCall(t, k, c, l, w)
       \/ \E x \in Expiries : SyncCall(t, k, c, x)
  \/ \E t \in Threads : Resume(t)
  \/ GcLock
  \/ Collect
  \/ Tick

Spec == Init /\ [][Next]_vars

-----------------------------------------------------------------------------
(* Properties.                                                             *)

\* An entry's count is exactly what Incr and Sync added to it since its
\* window began, as long as that sum fits the 32-bit counter: no addition of
\* KeyBucket.Incr or KeyBucket.Sync is lost or made twice, whichever
\* goroutine re-initialises the entry and however calls overlap.
Ledger ==
  \A id \in EntryIds : Total(id) <= MaxInt32 => heap[id].count = Total(id)

\* When KeyBucket.Incr answers ALLOWED for a threshold, everything admitted
\* in the entry's window, this call included, is within that threshold (until
\* the counter overflows), also when callers pass different thresholds.
AllowedWithinLimit ==
  [][\A t \in Threads :
       /\ pc[t] = "entry" /\ pc'[t] = "expiry"
       /\ ~ret'[t].blocked
       /\ Total(ent[t])' <= MaxInt32
       => tally'[ent[t]].granted <= call[t].limit]_vars

\* Once KeyBucket.Incr has refused a call at some limit, the entry's count
\* stays above that limit for the rest of its window: every later call with
\* that limit is refused, and the entry is not flooded with counts.
RefusalSticks ==
  \A id \in EntryIds : \A l \in barred[id] :
    Total(id) <= MaxInt32 => heap[id].count > l

\* No step takes a live entry away from its key, ends its window early or
\* lowers its count.  Store.gc looks at an entry's age without its lock, and a
\* call may renew the entry before the collector locks it.
LiveEntryKept ==
  [][\A k \in Keys :
       LET id == lookup[k] IN
       id # NoEntry /\ ~Expired(heap[id], now)
       => /\ lookup'[k] = id
          /\ heap'[id].expires = heap[id].expires
          /\ Total(id)' <= MaxInt32 => heap'[id].count >= heap[id].count]_vars

\* KeyBucket.Incr reads the expiry it returns after it has unlocked the entry,
\* when another call may have renewed it.  The count is then reported under
\* another window than the one it was added to, but only when its own window
\* is over: as long as that window is open, other nodes get the count in it.
ReportedInItsWindow ==
  \A t \in Threads :
    pc[t] = "idle" /\ ret[t].expires # origin[t] => origin[t] < now
=============================================================================
