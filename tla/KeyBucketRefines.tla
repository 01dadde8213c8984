-------------------------- MODULE KeyBucketRefines --------------------------
(***************************************************************************)
(* KeyBucket implements WindowCounter: the goroutines of a bucket, with    *)
(* their look-ups, the double check, the locks of entries and the          *)
(* collector, behave as if every call took effect at one instant.          *)
(***************************************************************************)
EXTENDS KeyBucketProofs

\* The counter of a key is the entry its look-up yields.
CounterOf == [k \in Keys |-> IF lookup[k] = NoEntry THEN NoEntry
                             ELSE heap[lookup[k]]]

AnswerOf == [t \in Threads |-> [blocked |-> ret[t].blocked,
                                dosync |-> ret[t].dosync]]

\* Calls that are about to lock an entry that is no longer their key's.
Astray == {t \in Threads : pc[t] = "entry" /\ lookup[call[t].key] # ent[t]}

Answered == {t \in Threads : pc[t] = "expiry"}

\* What the callers of a bucket may ask for.
Calls == [op : {"Incr"}, key : Keys, count : Counts, limit : Limits,
          expiry : Expiries]
           \union [op : {"Sync"}, key : Keys, count : Counts, expiry : Expiries]

WC == INSTANCE WindowCounter
        WITH counter <- CounterOf, pending <- call, answered <- Answered,
             answer <- AnswerOf, astray <- Astray, None <- NoEntry

\* KeyBucket.Incr and KeyBucket.Sync are atomic: every call takes effect once,
\* on the counter of its key, between its beginning and its return, unless
\* Store.gc deletes the entry it has looked up and not yet locked.
ActsAtOnce == WC!Spec

-----------------------------------------------------------------------------
(* The proof.  A step of a goroutine on its own entry is a step on the     *)
(* counter of its own key only because no two keys share an entry and no   *)
(* goroutine holds the entry of another key: OwnEntries.                   *)

OwnEntries ==
  /\ \A j, k \in Keys : lookup[j] = lookup[k] /\ lookup[k] # NoEntry => j = k
  /\ \A t \in Threads :
       /\ pc[t] = "idle" => call[t] = NoCall
       /\ pc[t] \in {"entry", "expiry"}
            => \A k \in Keys : lookup[k] = ent[t] => k = call[t].key

\* A new bucket has no entries.
LEMMA InitOwn == Init => OwnEntries
BY DEF Init, OwnEntries

\* Every region of Incr, Sync and Store.gc preserves OwnEntries.
LEMMA NextOwn == TypeOK /\ OwnEntries /\ [Next]_vars => OwnEntries'
<1> SUFFICES ASSUME TypeOK, OwnEntries, [Next]_vars PROVE OwnEntries'
  OBVIOUS
<1>1. ASSUME NEW t \in Threads, NEW c, Begin(t, c) PROVE OwnEntries'
  BY <1>1 DEF Begin, TypeOK, OwnEntries
<1>2. ASSUME NEW t \in Threads, GetEntry(t) \/ FindEntry(t)
      PROVE  OwnEntries'
  <2>1. call[t].key \in Keys
    BY <1>2 DEF GetEntry, FindEntry, TypeOK, IncrCalls, SyncCalls
  <2> QED BY <1>2, <2>1 DEF GetEntry, FindEntry, TypeOK, OwnEntries
<1>3. ASSUME NEW t \in Threads, CreateEntry(t) PROVE OwnEntries'
  <2>1. PICK new \in EntryIds \ InUse :
          /\ lookup' = [lookup EXCEPT ![call[t].key] = new]
          /\ ent' = [ent EXCEPT ![t] = new]
    BY <1>3 DEF CreateEntry
  <2>2. call[t].key \in Keys
    BY <1>3 DEF CreateEntry, TypeOK, IncrCalls, SyncCalls
  <2>3. /\ \A k \in Keys : lookup[k] # new
        /\ \A u \in Threads : pc[u] \in {"entry", "expiry"} => ent[u] # new
    BY DEF InUse
  <2>4. /\ pc[t] = "create" /\ pc' = [pc EXCEPT ![t] = "entry"]
        /\ UNCHANGED call
    BY <1>3 DEF CreateEntry
  <2> QED BY <2>1, <2>2, <2>3, <2>4 DEF TypeOK, OwnEntries
<1>4. ASSUME NEW t \in Threads, IncrEntry(t) PROVE OwnEntries'
  BY <1>4 DEF IncrEntry, TypeOK, OwnEntries
<1>5. ASSUME NEW t \in Threads, IncrReturn(t) \/ SyncEntry(t)
      PROVE  OwnEntries'
  BY <1>5 DEF IncrReturn, SyncEntry, TypeOK, OwnEntries
<1>6. ASSUME NEW k \in Keys, GcReap(k) PROVE OwnEntries'
  <2>1. UNCHANGED <<pc, call, ent>>
    BY <1>6 DEF GcReap
  <2>2. \A j \in Keys : lookup'[j] = lookup[j] \/ lookup'[j] = NoEntry
    BY <1>6 DEF GcReap, TypeOK
  <2>3. \A t \in Threads : pc[t] \in {"entry", "expiry"} => ent[t] # NoEntry
    BY BucketAssumption DEF TypeOK
  <2> QED BY <2>1, <2>2, <2>3 DEF OwnEntries
<1>7. CASE UNCHANGED <<lookup, pc, call, ent>>
  BY <1>7 DEF OwnEntries
<1> QED BY <1>1, <1>2, <1>3, <1>4, <1>5, <1>6, <1>7
        DEF Next, vars, Resume, Collect, IncrCall, SyncCall, GcLock, GcScan,
            GcUnlock, Tick

\* What a goroutine in the midst of a call knows of its arguments.
LEMMA UnderWay ==
  ASSUME TypeOK, NEW t \in Threads, pc[t] # "idle"
  PROVE  /\ call[t] # NoCall
         /\ call[t].key \in Keys
         /\ pc[t] \in {"entry", "expiry"} => ent[t] \in EntryIds
<1>1. call[t] \in IncrCalls \union SyncCalls
  BY DEF TypeOK
<1>2. \A c \in IncrCalls \union SyncCalls :
        c.op \in {"Incr", "Sync"} /\ c.key \in Keys
  BY DEF IncrCalls, SyncCalls
<1>3. NoCall.op = "None"
  BY DEF NoCall
<1> QED BY <1>1, <1>2, <1>3 DEF TypeOK

\* The counters seen by callers, key by key.
LEMMA CounterAt ==
  ASSUME NEW k \in Keys
  PROVE  /\ lookup[k] = NoEntry => CounterOf[k] = NoEntry
         /\ lookup[k] # NoEntry => CounterOf[k] = heap[lookup[k]]
BY DEF CounterOf

\* A call of Incr or Sync begins.
LEMMA BeginInvokes ==
  ASSUME TypeOK, OwnEntries, NEW t \in Threads, NEW c \in Calls, Begin(t, c)
  PROVE  WC!Invoke(t, c)
<1>1. call[t] = NoCall
  BY DEF Begin, OwnEntries
<1>2. AnswerOf' = [AnswerOf EXCEPT ![t] = WC!NoAnswer]
  BY DEF Begin, TypeOK, AnswerOf, NoResult, WC!NoAnswer
<1>3. Answered' = Answered /\ Astray' = Astray
  BY DEF Begin, TypeOK, Answered, Astray
<1>4. CounterOf' = CounterOf
  BY DEF Begin, CounterOf
<1> QED BY <1>1, <1>2, <1>3, <1>4 DEF Begin, WC!Invoke

\* Looking an entry up has no effect: the entry is the key's.
LEMMA LookUpStutters ==
  ASSUME TypeOK, NEW t \in Threads, GetEntry(t) \/ FindEntry(t)
  PROVE  UNCHANGED WC!vars
<1>1. UNCHANGED <<now, lookup, heap, call, ret>>
  BY DEF GetEntry, FindEntry
<1>2. CounterOf' = CounterOf /\ AnswerOf' = AnswerOf
  BY <1>1 DEF CounterOf, AnswerOf
<1>3. Answered' = Answered /\ Astray' = Astray
  BY DEF GetEntry, FindEntry, TypeOK, Answered, Astray
<1> QED BY <1>1, <1>2, <1>3 DEF WC!vars

\* The call that creates the entry opens the window.
LEMMA CreateOpens ==
  ASSUME TypeOK, NEW t \in Threads, CreateEntry(t)
  PROVE  WC!Open(t)
<1> DEFINE key == call[t].key
<1>1. PICK new \in EntryIds \ InUse :
        /\ heap' = [heap EXCEPT ![new] = NewEntry(0, call[t].expiry)]
        /\ lookup' = [lookup EXCEPT ![key] = new]
        /\ ent' = [ent EXCEPT ![t] = new]
  BY DEF CreateEntry
<1>2. /\ pc[t] = "create" /\ pc' = [pc EXCEPT ![t] = "entry"]
      /\ lookup[key] = NoEntry
      /\ UNCHANGED <<now, call, ret>>
  BY DEF CreateEntry
<1>3. call[t] # NoCall /\ key \in Keys
  BY <1>2, UnderWay
<1>4. /\ \A k \in Keys : lookup[k] # new
      /\ \A u \in Threads : pc[u] \in {"entry", "expiry"} => ent[u] # new
  BY DEF InUse
<1>5. new # NoEntry
  BY BucketAssumption
<1>6. CounterOf' = [CounterOf EXCEPT ![key] = NewEntry(0, call[t].expiry)]
  <2>1. \A k \in Keys : k # key => CounterOf'[k] = CounterOf[k]
    BY <1>1, <1>3, <1>4 DEF CounterOf, TypeOK
  <2>2. CounterOf'[key] = NewEntry(0, call[t].expiry)
    BY <1>1, <1>3, <1>5 DEF CounterOf, TypeOK
  <2> QED BY <1>3, <2>1, <2>2 DEF CounterOf
<1>7. AnswerOf' = AnswerOf
  BY <1>2 DEF AnswerOf
<1>8. Answered' = Answered
  BY <1>2 DEF Answered, TypeOK
<1>9. Astray' = Astray
  <2>1. \A u \in Threads : u # t /\ pc[u] = "entry"
          => (lookup'[call[u].key] # ent[u] <=> lookup[call[u].key] # ent[u])
    <3> SUFFICES ASSUME NEW u \in Threads, u # t, pc[u] = "entry"
                 PROVE  lookup'[call[u].key] # ent[u]
                          <=> lookup[call[u].key] # ent[u]
      OBVIOUS
    <3>1. call[u].key \in Keys /\ ent[u] \in EntryIds
      BY UnderWay
    <3> QED BY <1>1, <1>2, <1>3, <1>4, <3>1, BucketAssumption DEF TypeOK
  <2> QED BY <1>1, <1>2, <1>3, <2>1 DEF Astray, TypeOK
<1>10. CounterOf[key] = NoEntry
  BY <1>2, <1>3, CounterAt
<1> QED BY <1>2, <1>3, <1>6, <1>7, <1>8, <1>9, <1>10
        DEF WC!Open, NewEntry, WC!NewEntry

\* A region under the lock of entry id changes the counter of the key that
\* id belongs to, if any, and no other.
LEMMA CounterWritten ==
  ASSUME TypeOK, OwnEntries, NEW t \in Threads, pc[t] = "entry",
         NEW new, UNCHANGED lookup, heap' = [heap EXCEPT ![ent[t]] = new]
  PROVE  CounterOf' = IF t \in Astray THEN CounterOf
                      ELSE [CounterOf EXCEPT ![call[t].key] = new]
<1>1. call[t].key \in Keys /\ ent[t] \in EntryIds
  BY UnderWay
<1>2. \A k \in Keys : lookup[k] = ent[t] => k = call[t].key
  BY DEF OwnEntries
<1>3. \A k \in Keys : lookup[k] # ent[t] => CounterOf'[k] = CounterOf[k]
  BY <1>1 DEF CounterOf, TypeOK
<1>4. CASE t \in Astray
  <2>1. \A k \in Keys : lookup[k] # ent[t]
    BY <1>2, <1>4 DEF Astray
  <2> QED BY <1>3, <1>4, <2>1 DEF CounterOf
<1>5. CASE t \notin Astray
  <2>1. lookup[call[t].key] = ent[t]
    BY <1>5 DEF Astray
  <2>2. CounterOf'[call[t].key] = new
    BY <1>1, <2>1, BucketAssumption DEF CounterOf, TypeOK
  <2>3. \A k \in Keys : k # call[t].key => CounterOf'[k] = CounterOf[k]
    BY <1>2, <1>3
  <2>4. CounterOf' = [CounterOf EXCEPT ![call[t].key] = new]
    <3>1. /\ CounterOf = [k \in Keys |-> CounterOf[k]]
          /\ CounterOf' = [k \in Keys |-> CounterOf'[k]]
      BY DEF CounterOf
    <3> QED BY <1>1, <2>2, <2>3, <3>1
  <2> QED BY <1>5, <2>4
<1> QED BY <1>4, <1>5

\* The counter a call finds is the entry as it finds it under its lock.
LEMMA FoundIsCurrent ==
  ASSUME TypeOK, NEW t \in Threads, pc[t] = "entry", t \notin Astray
  PROVE  /\ CounterOf[call[t].key] = heap[ent[t]]
         /\ CounterOf[call[t].key] # NoEntry
         /\ WC!Found(call[t]) = Current(heap[ent[t]], call[t].expiry)
<1>1. call[t].key \in Keys /\ ent[t] \in EntryIds
  BY UnderWay
<1>2. lookup[call[t].key] = ent[t] /\ ent[t] # NoEntry
  BY <1>1, BucketAssumption DEF Astray
<1>3. CounterOf[call[t].key] = heap[ent[t]]
  BY <1>1, <1>2, CounterAt
<1>4. CounterOf[call[t].key] # NoEntry
  BY <1>1, <1>3, BucketAssumption DEF TypeOK
<1> QED BY <1>3, <1>4
        DEF WC!Found, WC!Expired, WC!ReInit, Current, Expired, ReInit

\* The region of Incr under its entry's lock is the whole of its effect.
LEMMA IncrActs ==
  ASSUME TypeOK, OwnEntries, NEW t \in Threads, IncrEntry(t)
  PROVE  WC!Incr(t) \/ WC!IncrAstray(t)
<1> DEFINE c == call[t]
           e == Current(heap[ent[t]], c.expiry)
           new == IF Counted(e.count, c.limit) THEN EntryIncr(e, c.count) ELSE e
           blocked == ~Allowed(new.count, c.limit)
           dosync == blocked /\ e.count < new.count
<1>1. pc[t] = "entry" /\ c.op = "Incr" /\ pc' = [pc EXCEPT ![t] = "expiry"]
  BY DEF IncrEntry
<1>2. c # NoCall /\ c.key \in Keys /\ ent[t] \in EntryIds
  BY <1>1, UnderWay
<1>3. UNCHANGED <<now, lookup, call, ent>>
  BY DEF IncrEntry
<1>4. heap' = [heap EXCEPT ![ent[t]] = new]
  BY DEF IncrEntry
<1>5. CounterOf' = IF t \in Astray THEN CounterOf
                   ELSE [CounterOf EXCEPT ![c.key] = new]
  BY <1>1, <1>3, <1>4, CounterWritten
<1>6. AnswerOf' = [AnswerOf EXCEPT ![t] = [blocked |-> blocked,
                                           dosync |-> dosync]]
  <2>1. ret' = [ret EXCEPT ![t] = [blocked |-> blocked, dosync |-> dosync,
                                   expires |-> 0]]
    BY DEF IncrEntry
  <2> HIDE DEF blocked, dosync
  <2> QED BY <2>1 DEF TypeOK, AnswerOf
<1>7. Answered' = Answered \union {t} /\ t \notin Answered
  BY <1>1 DEF Answered, TypeOK
<1>8. Astray' = Astray \ {t}
  BY <1>1, <1>3 DEF Astray, TypeOK
<1>9. CASE t \in Astray
  <2>1. [blocked |-> blocked, dosync |-> dosync] \in WC!Answer
    BY DEF WC!Answer, Allowed
  <2> HIDE DEF blocked, dosync, new
  <2>2. WC!IncrAstray(t)
    BY <1>1, <1>3, <1>5, <1>6, <1>7, <1>8, <1>9, <2>1 DEF WC!IncrAstray
  <2> QED BY <2>2
<1>10. CASE t \notin Astray
  <2>1. WC!Ready(t, "Incr")
    BY <1>1, <1>2, <1>7, <1>10, FoundIsCurrent DEF WC!Ready
  <2>2. WC!Found(c) = e
    BY <1>1, <1>10, FoundIsCurrent
  <2>3. Astray' = Astray
    BY <1>8, <1>10
  <2>4. /\ \A p, l : WC!Counted(p, l) = Counted(p, l)
        /\ \A p, l : WC!Allowed(p, l) = Allowed(p, l)
        /\ WC!EntryIncr(e, c.count) = EntryIncr(e, c.count)
    BY DEF WC!Counted, Counted, WC!Allowed, Allowed, WC!EntryIncr, EntryIncr,
           WC!AddInt32, AddInt32
  <2> HIDE DEF e
  <2>5. WC!Incr(t)
    BY <1>3, <1>5, <1>6, <1>7, <1>10, <2>1, <2>2, <2>3, <2>4 DEF WC!Incr
  <2> QED BY <2>5
<1> QED BY <1>9, <1>10

\* The region of Sync under its entry's lock is the whole of its effect.
LEMMA SyncActs ==
  ASSUME TypeOK, OwnEntries, NEW t \in Threads, SyncEntry(t)
  PROVE  WC!Sync(t) \/ WC!SyncAstray(t)
<1> DEFINE c == call[t]
           e == Current(heap[ent[t]], c.expiry)
<1>1. /\ pc[t] = "entry" /\ c.op = "Sync" /\ pc' = [pc EXCEPT ![t] = "idle"]
      /\ call' = [call EXCEPT ![t] = NoCall]
  BY DEF SyncEntry
<1>2. c # NoCall /\ c.key \in Keys /\ ent[t] \in EntryIds
  BY <1>1, UnderWay
<1>3. UNCHANGED <<now, lookup, ret>> /\ \A u \in Threads : u # t => ent'[u] = ent[u]
  BY DEF SyncEntry, TypeOK
<1>4. heap' = [heap EXCEPT ![ent[t]] = EntrySync(e, c.count)]
  BY DEF SyncEntry
<1>5. CounterOf' = IF t \in Astray THEN CounterOf
                   ELSE [CounterOf EXCEPT ![c.key] = EntrySync(e, c.count)]
  BY <1>1, <1>3, <1>4, CounterWritten
<1>6. AnswerOf' = AnswerOf
  BY <1>3 DEF AnswerOf
<1>7. Answered' = Answered /\ t \notin Answered
  BY <1>1 DEF Answered, TypeOK
<1>8. Astray' = Astray \ {t}
  BY <1>1, <1>3 DEF Astray, TypeOK
<1>9. CASE t \in Astray
  BY <1>1, <1>3, <1>5, <1>6, <1>7, <1>8, <1>9 DEF WC!SyncAstray
<1>10. CASE t \notin Astray
  <2>1. WC!Ready(t, "Sync")
    BY <1>1, <1>2, <1>7, <1>10, FoundIsCurrent DEF WC!Ready
  <2>2. WC!Found(c) = e
    BY <1>1, <1>10, FoundIsCurrent
  <2>3. WC!EntrySync(e, c.count) = EntrySync(e, c.count)
    BY DEF WC!EntrySync, EntrySync, WC!AddInt32, AddInt32
  <2> HIDE DEF e
  <2> QED BY <1>1, <1>3, <1>5, <1>6, <1>7, <1>8, <1>10, <2>1, <2>2, <2>3
          DEF WC!Sync
<1> QED BY <1>9, <1>10

\* Reading the expiry to return it has no effect on the counters.
LEMMA ReturnActs ==
  ASSUME TypeOK, NEW t \in Threads, IncrReturn(t)
  PROVE  WC!Return(t)
<1>1. /\ pc[t] = "expiry" /\ pc' = [pc EXCEPT ![t] = "idle"]
      /\ call' = [call EXCEPT ![t] = NoCall]
      /\ UNCHANGED <<now, lookup, heap>>
      /\ \A u \in Threads : u # t => ent'[u] = ent[u]
  BY DEF IncrReturn, TypeOK
<1>2. CounterOf' = CounterOf
  BY <1>1 DEF CounterOf
<1>3. AnswerOf' = AnswerOf
  <2>1. \A u \in Threads : /\ ret'[u].blocked = ret[u].blocked
                           /\ ret'[u].dosync = ret[u].dosync
    BY DEF IncrReturn, TypeOK, Result
  <2> QED BY <2>1 DEF AnswerOf
<1>4. t \in Answered /\ Answered' = Answered \ {t}
  BY <1>1 DEF Answered, TypeOK
<1>5. Astray' = Astray
  BY <1>1 DEF Astray, TypeOK
<1> QED BY <1>1, <1>2, <1>3, <1>4, <1>5 DEF WC!Return

\* Deleting an entry forgets an expired counter; the calls that had looked it
\* up go astray.
LEMMA ReapForgets ==
  ASSUME TypeOK, OwnEntries, NEW k \in Keys, GcReap(k)
  PROVE  WC!Forget(k) \/ UNCHANGED WC!vars
<1>1. UNCHANGED <<now, heap, pc, call, ent, ret>>
  BY DEF GcReap
<1>2. AnswerOf' = AnswerOf /\ Answered' = Answered
  BY <1>1 DEF AnswerOf, Answered
<1>3. CASE UNCHANGED lookup
  BY <1>1, <1>2, <1>3 DEF CounterOf, Astray, WC!vars
<1>4. CASE lookup' # lookup
  <2>1. /\ lookup' = [lookup EXCEPT ![k] = NoEntry]
        /\ Expired(heap[lookup[k]], now)
    BY <1>4 DEF GcReap
  <2>2. lookup[k] # NoEntry
    BY <1>4, <2>1 DEF TypeOK
  <2>3. lookup[k] \in EntryIds
    BY <2>2 DEF TypeOK
  <2>4. CounterOf[k] = heap[lookup[k]] /\ CounterOf[k] # NoEntry
    BY <2>2, <2>3, CounterAt, BucketAssumption DEF TypeOK
  <2>5. CounterOf' = [CounterOf EXCEPT ![k] = NoEntry]
    BY <1>1, <2>1 DEF CounterOf, TypeOK
  <2> DEFINE S == {t \in Threads : pc[t] = "entry" /\ ent[t] = lookup[k]}
  <2>6. S \subseteq {t \in Threads \ Answered : call[t] # NoCall
                                               /\ call[t].key = k}
    BY UnderWay DEF Answered, OwnEntries
  <2>7. Astray' = Astray \union S
    <3> SUFFICES ASSUME NEW t \in Threads, pc[t] = "entry"
                 PROVE  lookup'[call[t].key] # ent[t]
                          <=> \/ lookup[call[t].key] # ent[t]
                              \/ ent[t] = lookup[k]
      BY <1>1 DEF Astray
    <3>1. ent[t] \in EntryIds /\ call[t].key \in Keys
      BY UnderWay
    <3>2. ent[t] = lookup[k] => k = call[t].key
      BY DEF OwnEntries
    <3> QED BY <2>1, <3>1, <3>2, BucketAssumption DEF TypeOK
  <2>8. WC!Expired(CounterOf[k], now)
    BY <2>1, <2>4 DEF WC!Expired, Expired
  <2> HIDE DEF S
  <2>9. WC!Forget(k)
    BY <1>1, <1>2, <2>4, <2>5, <2>6, <2>7, <2>8 DEF WC!Forget
  <2> QED BY <2>9
<1> QED BY <1>3, <1>4

\* A new bucket is a new counter.
LEMMA InitRefines == Init => WC!Init
<1> SUFFICES ASSUME Init PROVE WC!Init
  OBVIOUS
<1>1. CounterOf = [k \in Keys |-> NoEntry]
  BY DEF Init, CounterOf
<1>2. AnswerOf = [t \in Threads |-> WC!NoAnswer]
  BY DEF Init, AnswerOf, NoResult, WC!NoAnswer
<1>3. Answered = {} /\ Astray = {}
  BY DEF Init, Answered, Astray
<1> QED BY <1>1, <1>2, <1>3 DEF Init, WC!Init

\* Every step of the goroutines and of the collector is a step of the atomic
\* counter, or none.
LEMMA NextRefines ==
  TypeOK /\ OwnEntries /\ [Next]_vars => [WC!Next]_WC!vars
<1> SUFFICES ASSUME TypeOK, OwnEntries, [Next]_vars
             PROVE  WC!Next \/ UNCHANGED WC!vars
  OBVIOUS
<1>1. ASSUME NEW t \in Threads, NEW k \in Keys, NEW c \in Counts,
             NEW l \in Limits, NEW w \in Windows, IncrCall(t, k, c, l, w)
      PROVE  WC!Next
  <2>1. [op |-> "Incr", key |-> k, count |-> c, limit |-> l,
         expiry |-> GenExpiry(now, w)] \in Calls
    <3>1. GenExpiry(now, w) \in Expiries
      BY DEF Expiries, TypeOK
    <3> QED BY <3>1 DEF Calls
  <2> QED BY <1>1, <2>1, BeginInvokes DEF IncrCall, WC!Next
<1>2. ASSUME NEW t \in Threads, NEW k \in Keys, NEW c \in Counts,
             NEW x \in Expiries, SyncCall(t, k, c, x)
      PROVE  WC!Next
  <2>1. [op |-> "Sync", key |-> k, count |-> c, expiry |-> x] \in Calls
    BY DEF Calls
  <2> QED BY <1>2, <2>1, BeginInvokes DEF SyncCall, WC!Next
<1>3. ASSUME NEW t \in Threads, Resume(t)
      PROVE  WC!Next \/ UNCHANGED WC!vars
  BY <1>3, LookUpStutters, CreateOpens, IncrActs, ReturnActs, SyncActs
     DEF Resume, WC!Next
<1>4. ASSUME NEW k \in Keys, GcReap(k)
      PROVE  WC!Next \/ UNCHANGED WC!vars
  BY <1>4, ReapForgets DEF WC!Next
<1>5. CASE Tick
  <2>1. now' = now + 1 /\ UNCHANGED <<lookup, heap, pc, call, ent, ret>>
    BY <1>5 DEF Tick
  <2>2. WC!Tick
    BY <2>1 DEF WC!Tick, CounterOf, AnswerOf, Answered, Astray
  <2> QED BY <2>2 DEF WC!Next
<1>6. CASE UNCHANGED <<now, lookup, heap, pc, call, ent, ret>>
  BY <1>6 DEF WC!vars, CounterOf, AnswerOf, Answered, Astray
<1> QED BY <1>1, <1>2, <1>3, <1>4, <1>5, <1>6
        DEF Next, vars, Collect, GcLock, GcScan, GcUnlock

\* The bucket implements the atomic counter: for any number of goroutines,
\* keys and entries, KeyBucket.Incr and KeyBucket.Sync act at one instant, on
\* the counter of their own key, and only Store.gc makes calls go astray.
THEOREM BucketRefines == Spec => ActsAtOnce
BY InitTypeOK, NextTypeOK, InitOwn, NextOwn, InitRefines, NextRefines, PTL
   DEF Spec, ActsAtOnce, WC!Spec
=============================================================================
