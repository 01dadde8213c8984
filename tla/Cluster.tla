------------------------------ MODULE Cluster -------------------------------
(***************************************************************************)
(* Several golimit nodes: calls that arrive over HTTP (store/http/         *)
(* server.go) or Thrift (gen-go/com), Store.Incr and RateLimitGlobal       *)
(* (store/store.go), the broadcast of counts and configurations (store/    *)
(* cluster.go), and nodes that are closed and started again                *)
(* (golimitV3.go).                                                         *)
(*                                                                         *)
(* A call acts on the entry of its key at one instant, while it holds the  *)
(* entry's lock.  What KeyBucket lets happen before and after that instant *)
(* happens here too: the clock was read earlier, the entry was found       *)
(* before the collector took it away, the expiry is read again afterwards. *)
(* Of the entries taken away only the last of a key is still found, and    *)
(* the entry that a call makes is counted in by that call first.           *)
(*                                                                         *)
(* The channel is a set of reports in no order, the worker's map has one   *)
(* aggregate per key.  As StoreSync shows, the objects of a request are    *)
(* reused before it is serialised: it may carry what was written later.    *)
(* The event of a call is published in EventManager; the file of the       *)
(* configurations and their resending are in RateConfigSync, and here a    *)
(* node that starts knows the configurations it had.                       *)
(*                                                                         *)
(* Requests are what the generated code writes; a request under way is     *)
(* lost, late, overtaken, or cut short when its connection breaks.         *)
(* ringpop's Forward is given no keys, so it has no destination for a      *)
(* second attempt: a request is handled at most once.                      *)
(*                                                                         *)
(* Every node has a clock of its own.                                      *)
(***************************************************************************)
EXTENDS KeyEntry, HttpApi, ThriftCodec, FiniteSets, SequencesExt

CONSTANTS Nodes,
          Keys,
          None,               \* nil
          Sidecars,           \* the nodes that applications call through Thrift
          IncrRequests,       \* requests to POST /incr
          RateLimitRequests,  \* requests to POST /ratelimit
          PutRequests,        \* requests to PUT /rate
          CtrLimit,           \* opts.unsyncedCtrLimit
          GcGrace,            \* opts.gcGrace
          MaxSkew,            \* how far two clocks are apart at most
          MaxNow,             \* bound: the last instant of a clock
          MaxInputs           \* bound: requests made and nodes closed

ASSUME ClusterAssumption == /\ Sidecars \subseteq Nodes
                            /\ IsFiniteSet(Nodes) /\ IsFiniteSet(Keys)
                            /\ CtrLimit \in Int32
                            /\ GcGrace \in Nat
                            /\ MaxSkew \in Nat /\ MaxNow \in Nat
                            /\ MaxInputs \in Nat

\* The types of requests; text that is no number stands for 0.
ASSUME RequestAssumption ==
  LET text == [given : BOOLEAN, numeric : BOOLEAN, value : Int]
      param == {p \in text : p.numeric \/ p.value = 0} IN
  /\ IncrRequests \subseteq [K : Keys, C : param, T : param, W : param,
                             P : param]
  /\ RateLimitRequests \subseteq [K : Keys, C : param]
  /\ PutRequests \subseteq [authorised : BOOLEAN, Key : Keys, Window : Int,
                            Limit : Int, PeakAveraged : BOOLEAN]
  /\ IsFiniteSet(IncrRequests) /\ IsFiniteSet(PutRequests)

VARIABLES
  status,      \* "up", "closed" (Close has returned) or "down"
  clock,       \* the clock of each node
  booted,      \* what it showed when the node was started
  counter,     \* the entries in the buckets of each node
  collected,   \* the entry the collector last took from each key, and when
  reports,     \* commands of counted calls that no worker has received yet
  unsynced,    \* what each worker has still to send, by key
  written,     \* what was written into pooled commands since the oldest flush
               \* that a node has not serialised
  rateConfig,  \* Store.rateConfig of each node
  syncs,       \* SyncKeys requests
  configs,     \* SyncRateConfig requests under way
  app,         \* the one application that calls through Thrift
  inputs,      \* requests made and nodes closed so far
  \* History variables, read by no action.
  made,        \* what each node counted, by key and the window it reports
  lost,        \* what a node will never send to another, by key and window
  misfiled,    \* counts added to the entry of another window
  apart,       \* windows of which not all a node counted is in its entry
  mixed,       \* windows of which a node was told otherwise than was counted
  garbled,     \* keys for which a node was sent an overwritten command
  admitted,    \* what each node admitted, by key and window ...
  budget,      \* ... and the highest threshold it was asked to keep
  breached,    \* calls that were counted and refused, unless an earlier one
               \* was still reporting
  asked        \* what PUT /rate accepted, by key

buckets == <<counter, collected>>
outgoing == <<reports, unsynced, written>>
requests == <<syncs, configs, app>>
ledgers == <<made, lost, misfiled, apart, mixed, garbled, admitted, budget,
             breached>>
vars == <<status, clock, booted, buckets, outgoing, rateConfig, requests,
          inputs, ledgers, asked>>

\* The lengths of the windows that are asked for, and the ends of windows.
Lengths ==
  {WindowOf(a.window, a.peakaveraged) :
     a \in {IncrArgs(r) : r \in {r \in IncrRequests : IncrAccepted(r)}}}
  \union
  {WindowOf(cfg.Window, cfg.PeakAveraged) :
     cfg \in {RateConfigOf(r) : r \in {r \in PutRequests : RateAccepted(r)}}}
Windows == {GenExpiry(t, w) : t \in 0 .. MaxNow, w \in Lengths}

Ledger == [Keys -> [Windows -> Int]]
NoLedger == [k \in Keys |-> [x \in Windows |-> 0]]
Book(ledger, k, x, n) == [ledger EXCEPT ![k][x] = @ + n]

Unsynced == [count : Int32, expiry : Windows, force : BOOLEAN, due : BOOLEAN]
RateConfig == [Limit : Int32, Window : Int32, PeakAveraged : BOOLEAN]
Command == [key : Keys, count : Int32, expiry : Windows, force : BOOLEAN]
NoCall == [phase |-> "idle", decided |-> {}, told |-> {}]

\* A request that has been serialised.
Sent(m) == m.args # << >>

ASSUME NoneAssumption == /\ None \notin Unsynced \union Entry
                         /\ None \notin [entry : Entry, until : 0 .. MaxNow]

TypeOK ==
  /\ status \in [Nodes -> {"up", "closed", "down"}]
  /\ clock \in [Nodes -> 0 .. MaxNow]
  /\ \A n \in Nodes, k \in Keys :
       /\ booted[n] \in 0 .. clock[n]
       /\ counter[n][k] # None => /\ counter[n][k].count \in Int32
                                  /\ counter[n][k].expires \in Windows
       /\ collected[n][k] # None =>
            /\ collected[n][k].until \in booted[n] .. clock[n]
            /\ collected[n][k].entry.count \in Int32
            /\ collected[n][k].entry.expires \in Windows
       /\ unsynced[n][k] # None => unsynced[n][k] \in Unsynced
       /\ rateConfig[n][k] # None => rateConfig[n][k] \in RateConfig
       /\ status[n] = "down" => counter[n][k] = None /\ unsynced[n][k] = None
       /\ written[n] \in Seq(Command)
  /\ \A m \in reports : /\ status[m.node] # "down"
                        /\ m.count \in Int32
                        /\ m.own \in Windows /\ m.expiry \in Windows
  /\ \A m \in syncs : /\ m.from # m.to
                      /\ ToSet(m.batch) \subseteq Command
                      /\ Sent(m) => Complete(m.args)
                      /\ ~Sent(m) => m.sound /\ status[m.from] # "down"
  /\ \A m \in configs : m.from # m.to /\ Complete(m.args)
  /\ app.phase \in {"idle", "called", "answered"}
  /\ made \in [Nodes -> Ledger]
  /\ lost \in [Nodes -> [Nodes -> Ledger]]

Init ==
  /\ status = [n \in Nodes |-> "up"]
  /\ clock = [n \in Nodes |-> 0]
  /\ booted = [n \in Nodes |-> 0]
  /\ counter = [n \in Nodes |-> [k \in Keys |-> None]]
  /\ collected = [n \in Nodes |-> [k \in Keys |-> None]]
  /\ reports = {}
  /\ unsynced = [n \in Nodes |-> [k \in Keys |-> None]]
  /\ written = [n \in Nodes |-> << >>]
  /\ rateConfig = [n \in Nodes |-> [k \in Keys |-> None]]
  /\ syncs = {} /\ configs = {}
  /\ app = NoCall
  /\ inputs = 0
  /\ made = [n \in Nodes |-> NoLedger]
  /\ lost = [n \in Nodes |-> [o \in Nodes |-> NoLedger]]
  /\ misfiled = [n \in Nodes |-> [k \in Keys |-> {}]]
  /\ apart = [n \in Nodes |-> [k \in Keys |-> {}]]
  /\ mixed = [n \in Nodes |-> [k \in Keys |-> {}]]
  /\ garbled = [n \in Nodes |-> {}]
  /\ admitted = [n \in Nodes |-> NoLedger]
  /\ budget = [n \in Nodes |-> NoLedger]
  /\ breached = {}
  /\ asked = [k \in Keys |-> {}]

-----------------------------------------------------------------------------
(* The counters.                                                           *)

\* The entry as a call finds it: a new one, or a new window if it expired.
Renewed(e, expiry, now) ==
  IF e = None THEN NewEntry(0, expiry)
  ELSE IF Expired(e, now) THEN ReInit(e, 0, expiry) ELSE e

BucketIncr(e, count, limit, expiry, now) ==
  LET old == Renewed(e, expiry, now)
      counted == Counted(old.count, limit)
      new == IF counted THEN EntryIncr(old, count) ELSE old
      blocked == ~Allowed(new.count, limit)
  IN  [entry |-> new, counted |-> counted, blocked |-> blocked,
       dosync |-> blocked /\ old.count < new.count]

\* Mutant of BucketSync: a new entry begins with the count that is then added.
BucketSyncTwice(entries, cmd, at, now) ==
  IF at > cmd.expiry THEN entries
  ELSE [entries EXCEPT ![cmd.key] =
          EntrySync(IF @ = None THEN NewEntry(cmd.count, cmd.expiry)
                    ELSE Renewed(@, cmd.expiry, now), cmd.count)]

\* A command whose window was over when the clock was read is dropped.
BucketSync(entries, cmd, at, now) ==
  IF at > cmd.expiry THEN entries
  ELSE [entries EXCEPT ![cmd.key] =
          EntrySync(Renewed(@, cmd.expiry, now), cmd.count)]

\* Store.SyncKeys: the commands of a request, one after the other.
SyncKeys(entries, cmds, at, now) ==
  FoldLeft(LAMBDA e, cmd : BucketSync(e, cmd, at, now), entries, cmds)

\* Mutant of MustSend: a refused call waits for the timer.
MustSendOverLimit(force, total) == total > CtrLimit

MustSend(force, total) == force \/ total > CtrLimit

\* Mutant of Aggregate: the counts of a key are not added up.
AggregateLast(u, cmd) ==
  [count |-> cmd.count, expiry |-> cmd.expiry, force |-> cmd.force,
   due |-> MustSend(cmd.force, cmd.count)]

\* What the worker holds for a key once it has received a command.
Aggregate(u, cmd) ==
  IF u # None /\ u.expiry = cmd.expiry
    THEN LET total == AddInt32(u.count, cmd.count)
         IN  [u EXCEPT !.count = total,
                       !.due = @ \/ MustSend(cmd.force, total)]
    ELSE [count |-> cmd.count, expiry |-> cmd.expiry, force |-> cmd.force,
          due |-> MustSend(cmd.force, cmd.count)]

\* What a worker has still to send, of the keys in K.
Unsent(n, K) ==
  [k \in Keys |-> [x \in Windows |->
     IF k \in K /\ unsynced[n][k] # None /\ unsynced[n][k].expiry = x
       THEN unsynced[n][k].count ELSE 0]]

\* What a report carries.
Reported(m, k, x) == IF m.key = k /\ m.expiry = x THEN m.count ELSE 0

\* What a request carries, unless it has been overwritten.
Carried(m) ==
  [k \in Keys |-> [x \in Windows |->
     SumFunction([i \in DOMAIN m.batch |->
                    IF m.sound /\ m.batch[i].key = k /\ m.batch[i].expiry = x
                      THEN m.batch[i].count ELSE 0])]]

\* What a node holds that it has still to send to o.
Withheld(n, o) ==
  [k \in Keys |-> [x \in Windows |->
     Unsent(n, {k})[k][x]
       + SumFunction([m \in {m \in reports : m.node = n} |-> Reported(m, k, x)])
       + SumFunction([m \in {m \in syncs : m.from = n /\ m.to = o /\ ~Sent(m)}
                        |-> Carried(m)[k][x]])]]

\* Books, for each node in to, that it will never get what was counted from n.
Lose(n, to, what) ==
  [lost EXCEPT ![n] =
     [o \in Nodes |->
        IF o \notin to THEN @[o]
        ELSE [k \in Keys |-> [x \in Windows |-> @[o][k][x] + what[o][k][x]]]]]

\* The threshold a caller is entitled to, from the numbers it passed: the
\* smallest that reaches T in W steps if it is peak averaged.  No claim is
\* made for numbers that are not int32, or when W is not positive.
Entitled(a) ==
  IF ~ (a.threshold \in 0 .. MaxInt32 /\ a.window \in 1 .. MaxInt32)
    THEN MaxInt32
  ELSE IF ~a.peakaveraged THEN a.threshold
  ELSE Min({b \in 0 .. MaxInt32 : b * a.window >= a.threshold})

\* The entries a call on the key k may be at work on: the one in the map, and
\* the one the collector took from it after the call had begun.
Lookup(n, k) ==
  {[entry |-> counter[n][k], until |-> clock[n], astray |-> FALSE]}
  \union IF collected[n][k] = None THEN {}
         ELSE {[entry |-> collected[n][k].entry, until |-> collected[n][k].until,
                astray |-> TRUE]}

\* Tells requests of the same content apart.
NewId(S) == CHOOSE i \in 0 .. Cardinality(S) : \A m \in S : m.id # i

\* Store.Incr with its arguments a, on behalf of a caller who asked for ask
\* and is answered by blocked, up to where its command is on the channel.  The
\* clock was read at some time t since the node is up.
StoreIncr(n, a, ask, blocked) ==
  LET k == a.key IN
  \E limit \in Thresholds(a.threshold, a.window, a.peakaveraged),
     f \in Lookup(n, k) :
  \E t \in booted[n] .. f.until :
    LET r == BucketIncr(f.entry, a.count, limit,
                        GenExpiry(t, WindowOf(a.window, a.peakaveraged)),
                        clock[n])
        x == r.entry.expires
    IN
    /\ blocked = r.blocked
    /\ IF f.astray
         THEN /\ collected' = [collected EXCEPT ![n][k].entry = r.entry]
              /\ apart' = [apart EXCEPT ![n][k] = @ \union {x}]
              /\ UNCHANGED counter
         ELSE /\ counter' = [counter EXCEPT ![n][k] = r.entry]
              /\ UNCHANGED <<collected, apart>>
    /\ reports' = IF r.blocked /\ ~r.dosync THEN reports
                  ELSE reports \union
                         {[id |-> NewId(reports), node |-> n, key |-> k,
                           count |-> a.count, own |-> x, expiry |-> x,
                           force |-> r.dosync]}
    /\ made' = IF r.counted
                 THEN [made EXCEPT ![n] = Book(@, k, x, a.count)] ELSE made
    /\ IF r.blocked THEN UNCHANGED <<admitted, budget>>
       ELSE /\ admitted' = [admitted EXCEPT ![n] = Book(@, k, x, a.count)]
            /\ budget' = [budget EXCEPT ![n][k][x] =
                            Max({@, Entitled(ask)})]
    /\ breached' = IF r.dosync /\ \A m \in reports : m.node # n \/ m.key # k
                     THEN breached \union {[node |-> n, key |-> k,
                                            window |-> x, limit |-> limit]}
                     ELSE breached
    /\ UNCHANGED <<lost, misfiled, mixed, garbled>>

\* Store.RateLimitGlobal: without a configuration every call is allowed.
RateLimitGlobal(n, a, blocked) ==
  LET cfg == rateConfig[n][a.key] IN
  IF cfg = None
    THEN /\ blocked = FALSE
         /\ UNCHANGED <<buckets, reports, ledgers>>
    ELSE LET full == [key |-> a.key, count |-> a.count,
                      threshold |-> cfg.Limit, window |-> cfg.Window,
                      peakaveraged |-> cfg.PeakAveraged]
         IN  StoreIncr(n, full, full, blocked)

-----------------------------------------------------------------------------
(* HTTP.  It is served until the process exits.                            *)

Serving(n) == status[n] # "down"

Input == inputs < MaxInputs /\ inputs' = inputs + 1

\* A request that is not accepted changes nothing.
HttpIncr(n, r) ==
  /\ Serving(n)
  /\ IncrAccepted(r)
  /\ Input
  /\ \E blocked \in BOOLEAN :
       StoreIncr(n, IncrArgs(r),
                 [threshold |-> r.T.value, window |-> r.W.value,
                  peakaveraged |-> r.P.value > 0], blocked)
  /\ UNCHANGED <<status, clock, booted, unsynced, written, rateConfig,
                 requests, asked>>

HttpRateLimit(n, r) ==
  /\ Serving(n)
  /\ RateLimitAccepted(r)
  /\ Input
  /\ \E blocked \in BOOLEAN :
       RateLimitGlobal(n, RateLimitArgs(r), blocked)
  /\ UNCHANGED <<status, clock, booted, unsynced, written, rateConfig,
                 requests, asked>>

\* The members that ringpop reports: any of the others, none when it fails,
\* as it does once it is destroyed.
GetReachableMembers(n) ==
  IF status[n] = "up" THEN SUBSET (Nodes \ {n}) ELSE {{}}

\* Mutant of SendSyncRateConfigToNode: the two numbers are swapped.
SendSwappedRateConfig(n, to, id, k, cfg) ==
  [id |-> id, from |-> n, to |-> to,
   args |-> WriteStruct(StoreNodeSyncRateConfigArgs,
              [key |-> k, threshold |-> cfg.Window, window |-> cfg.Limit,
               peakaveraged |-> cfg.PeakAveraged])]

SendSyncRateConfigToNode(n, to, id, k, cfg) ==
  [id |-> id, from |-> n, to |-> to,
   args |-> WriteStruct(StoreNodeSyncRateConfigArgs,
              [key |-> k, threshold |-> cfg.Limit, window |-> cfg.Window,
               peakaveraged |-> cfg.PeakAveraged])]

\* SetRateConfig and its file are modelled step by step in RateConfigSync.
HttpPutRate(n, r) ==
  LET cfg == RateConfigOf(r) IN
  /\ Serving(n)
  /\ RateAccepted(r)
  /\ Input
  /\ rateConfig' = [rateConfig EXCEPT ![n][r.Key] = cfg]
  /\ \E reachable \in GetReachableMembers(n) :
       configs' = configs \union
         {SendSyncRateConfigToNode(n, o, NewId(configs), r.Key, cfg)
            : o \in reachable}
  /\ asked' = [asked EXCEPT ![r.Key] = @ \union {r}]
  /\ UNCHANGED <<status, clock, booted, buckets, outgoing, syncs, app,
                 ledgers>>

-----------------------------------------------------------------------------
(* The broadcast of counts.                                                *)

\* KeyBucket.Incr returns the expiry its entry has by now, which is another
\* if its window is over and a later call has renewed the entry.  The count
\* is then reported, and booked, for that window.
RereadExpiry(m) ==
  LET n == m.node
      k == m.key IN
  /\ m.expiry = m.own
  /\ m.own < clock[n]
  /\ counter[n][k] # None
  /\ counter[n][k].expires # m.own
  /\ LET y == counter[n][k].expires IN
     /\ reports' = (reports \ {m}) \union {[m EXCEPT !.expiry = y]}
     /\ made' = [made EXCEPT ![n] = Book(Book(@, k, m.own, -m.count),
                                        k, y, m.count)]
     /\ apart' = [apart EXCEPT ![n][k] = @ \union {y}]
  /\ UNCHANGED <<status, clock, booted, buckets, unsynced, written, rateConfig,
                 requests, inputs, lost, misfiled, mixed, garbled, admitted,
                 budget, breached, asked>>

\* The worker has something to send before it receives again.
MustFlush(n) == \E k \in Keys : unsynced[n][k] # None /\ unsynced[n][k].due

\* The requests whose objects are in the pool already.
Unserialised(n) == {m \in syncs : m.from = n /\ ~Sent(m)}

CommandOf(m) == [key |-> m.key, count |-> m.count, expiry |-> m.expiry,
                 force |-> m.force]

\* The worker receives a command.  Pooled commands have been written by the
\* call, and by the worker where it adds to one.
Receive(m) ==
  LET n == m.node
      k == m.key
      u == unsynced[n][k]
      new == Aggregate(u, CommandOf(m))
  IN
  /\ ~MustFlush(n)
  /\ reports' = reports \ {m}
  /\ unsynced' = [unsynced EXCEPT ![n][k] = new]
  /\ lost' = IF u # None /\ u.expiry # m.expiry
               THEN Lose(n, Nodes \ {n}, [o \in Nodes |-> Unsent(n, {k})])
               ELSE lost
  /\ written' = IF Unserialised(n) = {} THEN written
                ELSE [written EXCEPT ![n] =
                        @ \o <<CommandOf(m),
                               [key |-> k, count |-> new.count,
                                expiry |-> new.expiry, force |-> new.force]>>]
  /\ UNCHANGED <<status, clock, booted, buckets, rateConfig, requests, inputs,
                 made, misfiled, apart, mixed, garbled, admitted, budget,
                 breached, asked>>

\* What is left to send after a flush: nothing.
Cleared(n) == [unsynced EXCEPT ![n] = [k \in Keys |-> None]]

\* The worker hands all it holds to a goroutine for every node it can reach,
\* and returns the objects to the pool.
Flush(n) ==
  LET keys == {k \in Keys : unsynced[n][k] # None}
      batch == [i \in 1 .. Cardinality(keys) |->
                  LET k == SetToSeq(keys)[i] IN
                  [key |-> k, count |-> unsynced[n][k].count,
                   expiry |-> unsynced[n][k].expiry,
                   force |-> unsynced[n][k].force]]
  IN
  /\ Serving(n)
  /\ keys # {}
  /\ unsynced' = Cleared(n)
  /\ \E reachable \in GetReachableMembers(n) :
       /\ syncs' = syncs \union
            {[id |-> NewId(syncs), from |-> n, to |-> o, batch |-> batch,
              since |-> Len(written[n]), sound |-> TRUE, args |-> << >>]
                : o \in reachable}
       /\ lost' = Lose(n, Nodes \ (reachable \union {n}),
                       [o \in Nodes |-> Unsent(n, Keys)])
  /\ UNCHANGED <<status, clock, booted, buckets, reports, written, rateConfig,
                 configs, app, inputs, made, misfiled, apart, mixed, garbled,
                 admitted, budget, breached, asked>>

FlushDue(n) == MustFlush(n) /\ Flush(n)

\* What may have been written into the commands of a request since its flush.
Later(m) ==
  {written[m.from][i] : i \in m.since + 1 .. Len(written[m.from])}
  \union {CommandOf(r) : r \in {r \in reports : r.node = m.from}}

\* What the goroutine may read there: field by field, no lock is taken.
Readings(m, i) ==
  LET seen == {m.batch[i]} \union Later(m) IN
  [key : {c.key : c \in seen}, count : {c.count : c \in seen},
   expiry : {c.expiry : c \in seen}, force : {c.force : c \in seen}]

\* Books a request that was not handled in full.
LoseRequest(m) == Lose(m.from, {m.to}, [o \in Nodes |-> Carried(m)])

Serialize(m) ==
  /\ ~Sent(m)
  /\ \E b \in [DOMAIN m.batch -> UNION {Readings(m, i) : i \in DOMAIN m.batch}] :
       /\ \A i \in DOMAIN b : b[i] \in Readings(m, i)
       /\ syncs' = (syncs \ {m}) \union
                      {[m EXCEPT !.batch = b, !.since = 0,
                                 !.sound = (b = m.batch),
                                 !.args = WriteSyncs(b)]}
       /\ lost' = IF b = m.batch THEN lost ELSE LoseRequest(m)
  /\ written' = IF Unserialised(m.from) # {m} THEN written
                ELSE [written EXCEPT ![m.from] = << >>]
  /\ UNCHANGED <<status, clock, booted, buckets, reports, unsynced, rateConfig,
                 configs, app, inputs, made, misfiled, apart, mixed, garbled,
                 admitted, budget, breached, asked>>

\* The server reads the request up to where its connection broke, if it did.
\* Nothing is counted unless it is complete.  KeyBucket.Sync read the clock
\* when it was at, and the commands for the keys gone have found entries that
\* the collector has taken away since.
HandleSyncKeys(m, read, at, gone) ==
  LET n == m.to
      wire == SubSeq(m.args, 1, read)
      found == [k \in Keys |-> IF k \in gone THEN collected[n][k].entry
                               ELSE counter[n][k]]
      after == SyncKeys(found, ReadSyncs(wire), at, clock[n])
      whole == read = Len(m.args)
      commands == {c \in ToSet(m.batch) : whole}
      ends(c) == IF found[c.key] = None THEN c.expiry ELSE found[c.key].expires
      misfiles(c) == /\ at <= c.expiry
                     /\ clock[n] <= ends(c)
                     /\ ends(c) # c.expiry
      astray(c) == c.key \in gone \/ ~m.sound
  IN
  /\ Sent(m)
  /\ status[n] = "up"
  /\ syncs' = syncs \ {m}
  /\ IF ~Complete(wire) THEN UNCHANGED buckets
     ELSE /\ counter' = [counter EXCEPT ![n] = [k \in Keys |->
                           IF k \in gone THEN @[k] ELSE after[k]]]
          /\ collected' = [collected EXCEPT ![n] = [k \in Keys |->
                             IF k \in gone THEN [@[k] EXCEPT !.entry = after[k]]
                             ELSE @[k]]]
  /\ lost' = IF whole THEN lost ELSE LoseRequest(m)
  /\ misfiled' = [misfiled EXCEPT ![n] = [k \in Keys |-> @[k] \union
                    {<<ends(c), c.expiry, clock[n]>> :
                       c \in {c \in commands : c.key = k /\ misfiles(c)}}]]
  /\ mixed' = [mixed EXCEPT ![n] = [k \in Keys |-> @[k] \union
                 UNION {{ends(c), c.expiry} :
                          c \in {c \in commands : /\ c.key = k
                                                  /\ misfiles(c) \/ astray(c)}}]]
  /\ garbled' = [garbled EXCEPT ![n] = @ \union
                   {c.key : c \in {c \in commands : ~m.sound}}]
  /\ UNCHANGED <<status, clock, booted, outgoing, rateConfig, configs, app,
                 inputs, made, apart, admitted, budget, breached, asked>>

\* Forward fails, and the sender only logs it.
FailSyncKeys(m) ==
  /\ Sent(m)
  /\ status[m.to] # "up"
  /\ syncs' = syncs \ {m}
  /\ lost' = LoseRequest(m)
  /\ UNCHANGED <<status, clock, booted, buckets, outgoing, rateConfig, configs,
                 app, inputs, made, misfiled, apart, mixed, garbled, admitted,
                 budget, breached, asked>>

HandleSyncRateConfig(m, read) ==
  LET wire == SubSeq(m.args, 1, read)
      a == ReadStruct(StoreNodeSyncRateConfigArgs, wire)
  IN
  /\ configs' = configs \ {m}
  /\ rateConfig' = IF ~ (status[m.to] = "up" /\ Complete(wire)) THEN rateConfig
                   ELSE [rateConfig EXCEPT ![m.to][a.key] =
                           [Limit |-> a.threshold, Window |-> a.window,
                            PeakAveraged |-> a.peakaveraged]]
  /\ UNCHANGED <<status, clock, booted, buckets, outgoing, syncs, app, inputs,
                 ledgers, asked>>

-----------------------------------------------------------------------------
(* An application that calls a node through the generated client.          *)

AppCall(n, method, fields, a, ask) ==
  /\ app.phase = "idle"
  /\ n \in Sidecars
  /\ status[n] = "up"
  /\ Input
  /\ app' = [phase |-> "called", node |-> n, method |-> method, ask |-> ask,
             args |-> WriteStruct(fields, a)]
  /\ UNCHANGED <<status, clock, booted, buckets, outgoing, rateConfig, syncs,
                 configs, ledgers, asked>>

CallIncrAction(n, r) ==
  /\ IncrAccepted(r)
  /\ AppCall(n, "IncrAction", StoreNodeIncrActionArgs, IncrArgs(r),
             IncrArgs(r))

CallRateLimitGlobalAction(n, r) ==
  /\ RateLimitAccepted(r)
  /\ AppCall(n, "RateLimitGlobalAction", StoreNodeRateLimitGlobalActionArgs,
             RateLimitArgs(r), RateLimitArgs(r))

\* Mutant of WriteSuccess: the handler's answer is not put into the result.
WriteNoSuccess(fields, blocked) == <<Stop>>

\* The result of a call that went well has its success set.
WriteSuccess(fields, blocked) == WriteStruct(fields, [success |-> blocked])

\* A handler decided on blocked.
Answer(fields, blocked) ==
  app' = [phase |-> "answered", node |-> app.node, method |-> app.method,
          decided |-> {blocked}, reply |-> WriteSuccess(fields, blocked)]

HandleIncrAction(read) ==
  LET wire == SubSeq(app.args, 1, read) IN
  /\ app.phase = "called"
  /\ app.method = "IncrAction"
  /\ status[app.node] = "up"
  /\ Complete(wire)
  /\ \E blocked \in BOOLEAN :
       /\ StoreIncr(app.node, ReadStruct(StoreNodeIncrActionArgs, wire),
                    app.ask, blocked)
       /\ Answer(StoreNodeIncrActionResult, blocked)
  /\ UNCHANGED <<status, clock, booted, unsynced, written, rateConfig, syncs,
                 configs, inputs, asked>>

HandleRateLimitGlobalAction(read) ==
  LET wire == SubSeq(app.args, 1, read) IN
  /\ app.phase = "called"
  /\ app.method = "RateLimitGlobalAction"
  /\ status[app.node] = "up"
  /\ Complete(wire)
  /\ \E blocked \in BOOLEAN :
       /\ RateLimitGlobal(app.node,
            ReadStruct(StoreNodeRateLimitGlobalActionArgs, wire), blocked)
       /\ Answer(StoreNodeRateLimitGlobalActionResult, blocked)
  /\ UNCHANGED <<status, clock, booted, unsynced, written, rateConfig, syncs,
                 configs, inputs, asked>>

\* The client returns GetSuccess of the result.
AppReturn ==
  LET fields == IF app.method = "IncrAction" THEN StoreNodeIncrActionResult
                ELSE StoreNodeRateLimitGlobalActionResult IN
  /\ app.phase = "answered"
  /\ app' = [phase |-> "idle", decided |-> app.decided,
             told |-> {ReadStruct(fields, app.reply).success}]
  /\ UNCHANGED <<status, clock, booted, buckets, outgoing, rateConfig, syncs,
                 configs, inputs, ledgers, asked>>

\* The connection breaks on the way there, when the server reads an
\* incomplete request and returns an error, or on the way back.
AppError ==
  /\ app.phase # "idle"
  /\ app' = NoCall
  /\ UNCHANGED <<status, clock, booted, buckets, outgoing, rateConfig, syncs,
                 configs, inputs, ledgers, asked>>

-----------------------------------------------------------------------------
(* Nodes and time.                                                         *)

\* Store.gc takes an entry out of its map.
Collect(n, k) ==
  /\ Serving(n)
  /\ counter[n][k] # None
  /\ counter[n][k].expires + GcGrace < clock[n]
  /\ counter' = [counter EXCEPT ![n][k] = None]
  /\ collected' = [collected EXCEPT ![n][k] = [entry |-> counter[n][k],
                                              until |-> clock[n]]]
  /\ UNCHANGED <<status, clock, booted, outgoing, rateConfig, requests, inputs,
                 ledgers, asked>>

\* Close destroys the ring and the channel; nothing is flushed.
Close(n) ==
  /\ status[n] = "up"
  /\ Input
  /\ status' = [status EXCEPT ![n] = "closed"]
  /\ UNCHANGED <<clock, booted, buckets, outgoing, rateConfig, requests,
                 ledgers, asked>>

\* The process exits, two seconds after Close or without it.
Exit(n) ==
  /\ Serving(n)
  /\ IF status[n] = "up" THEN Input ELSE UNCHANGED inputs
  /\ status' = [status EXCEPT ![n] = "down"]
  /\ counter' = [counter EXCEPT ![n] = [k \in Keys |-> None]]
  /\ collected' = [collected EXCEPT ![n] = [k \in Keys |-> None]]
  /\ reports' = {m \in reports : m.node # n}
  /\ unsynced' = Cleared(n)
  /\ written' = [written EXCEPT ![n] = << >>]
  /\ syncs' = syncs \ Unserialised(n)
  /\ lost' = Lose(n, Nodes \ {n}, [o \in Nodes |-> Withheld(n, o)])
  /\ apart' = [apart EXCEPT ![n] = [k \in Keys |->
                  IF counter[n][k] = None THEN @[k]
                  ELSE @[k] \union {counter[n][k].expires}]]
  /\ garbled' = [garbled EXCEPT ![n] = {}]
  /\ UNCHANGED <<clock, booted, rateConfig, configs, app, made, misfiled, mixed,
                 admitted, budget, breached, asked>>

\* NewStore: empty buckets; the configurations come back from the file.
Start(n) ==
  /\ status[n] = "down"
  /\ status' = [status EXCEPT ![n] = "up"]
  /\ booted' = [booted EXCEPT ![n] = clock[n]]
  /\ UNCHANGED <<clock, buckets, outgoing, rateConfig, requests, inputs,
                 ledgers, asked>>

Tick(n) ==
  /\ clock[n] < MaxNow
  /\ \A o \in Nodes : clock[n] + 1 <= clock[o] + MaxSkew
  /\ clock' = [clock EXCEPT ![n] = @ + 1]
  /\ UNCHANGED <<status, booted, buckets, outgoing, rateConfig, requests,
                 inputs, ledgers, asked>>

-----------------------------------------------------------------------------

ReceiveOn(n) == \E m \in reports : m.node = n /\ Receive(m)

DeliverSyncs ==
  \E m \in syncs :
    \/ \E i \in 0 .. Len(m.args), at \in booted[m.to] .. clock[m.to] :
       \E gone \in SUBSET {k \in Keys : collected[m.to][k] # None
                                        /\ at <= collected[m.to][k].until} :
         HandleSyncKeys(m, i, at, gone)
    \/ FailSyncKeys(m)

DeliverConfigs == \E m \in configs : \E i \in 0 .. Len(m.args) :
                    HandleSyncRateConfig(m, i)

Next ==
  \/ \E n \in Nodes :
       \/ \E r \in IncrRequests : HttpIncr(n, r) \/ CallIncrAction(n, r)
       \/ \E r \in RateLimitRequests :
            HttpRateLimit(n, r) \/ CallRateLimitGlobalAction(n, r)
       \/ \E r \in PutRequests : HttpPutRate(n, r)
       \/ ReceiveOn(n) \/ Flush(n)
       \/ \E k \in Keys : Collect(n, k)
       \/ Close(n) \/ Exit(n) \/ Start(n)
       \/ Tick(n)
  \/ \E m \in reports : RereadExpiry(m)
  \/ \E m \in syncs : Serialize(m)
  \/ DeliverSyncs
  \/ DeliverConfigs
  \/ app.phase = "called" /\ \E i \in 0 .. Len(app.args) :
       HandleIncrAction(i) \/ HandleRateLimitGlobalAction(i)
  \/ AppReturn \/ AppError

Spec == Init /\ [][Next]_vars

(***************************************************************************)
(* Fairness.  Calls that were counted report, and the worker of a node     *)
(* receives what they report and flushes at once what is due; goroutines   *)
(* run, and every request is handled or fails.  The timer that flushes the *)
(* rest, and time itself, may take as long as they like.                   *)
(***************************************************************************)
FairSpec == /\ Spec
            /\ \A n \in Nodes : WF_vars(ReceiveOn(n)) /\ WF_vars(FlushDue(n))
            /\ WF_vars(\E m \in syncs : Serialize(m))
            /\ WF_vars(DeliverSyncs)

-----------------------------------------------------------------------------
(* Properties.                                                             *)

Live(n, k) == counter[n][k] # None /\ ~Expired(counter[n][k], clock[n])

\* What all nodes counted in the windows X.
Made(k, X) == SumFunction([n \in Nodes |-> SumFunctionOnSet(made[n][k], X)])

\* What o counted in the window x that n has not been told.
Untold(o, n, k, x) ==
  lost[o][n][k][x] + Withheld(o, n)[k][x]
    + SumFunction([m \in {m \in syncs : m.from = o /\ m.to = n /\ Sent(m)} |->
                     Carried(m)[k][x]])

Disturbed(n, k, x) == x \in apart[n][k] \union mixed[n][k]

\* At every moment a node's counter is exactly what all nodes counted in its
\* window, except what its peers have not sent yet, what is under way, and
\* what was lost: with a failed request, an unreachable member or a stopped
\* node, in an aggregate the worker replaced, or in a command that was
\* overwritten before it was serialised.  From Store.Incr over the aggregation,
\* the generated code and the network to KeyBucket.Sync nothing else is lost,
\* changed or counted twice.  A count is booked in the window Store.Incr
\* reports.  There is no claim for a node's window once it exited in it, once
\* a call on an entry that the collector took away, or the count of another
\* window, was reported for it, or once it was sent a command for it that was
\* overwritten, that found such an entry, or the entry of another window.
CountsAgree ==
  \A n \in Nodes, k \in Keys :
    LET x == counter[n][k].expires IN
    Live(n, k) /\ ~Disturbed(n, k, x)
    => (counter[n][k].count - Made(k, {x})
          + SumFunction([o \in Nodes \ {n} |-> Untold(o, n, k, x)]))
         % (2 * (MaxInt32 + 1)) = 0

\* Whatever is lost, late, reported for another window, mixed up with one or
\* gone astray, a node never holds more for a key than all nodes ever counted:
\* no count is applied twice, so no call is refused for calls nobody made.  That
\* is false once the node has handled a command that was overwritten before it
\* was serialised, which may repeat the count of another.
NoPhantomCounts ==
  \A n \in Nodes, k \in Keys :
    /\ counter[n][k] # None
    /\ k \notin garbled[n]
    /\ Made(k, Windows) <= MaxInt32
    => counter[n][k].count <= Made(k, Windows)

\* All callers ask for windows of the same length.
OneLength == \A v, w \in Lengths : v = w

\* KeyBucket.Sync adds a count to the entry it finds, whatever its window.
\* If all windows have the same length they are aligned, and that mixes two
\* of them up only while the older is about to end: within the difference of
\* two clocks.  With two lengths they may be mixed up at any time.
MixedOnlyAtTheEnd ==
  OneLength => \A n \in Nodes, k \in Keys : \A t \in misfiled[n][k] :
                 Min({t[1], t[2]}) - t[3] <= MaxSkew

\* In a window that is still open a node has admitted no more than the highest
\* threshold that was asked for, or its share for a second if it is peak
\* averaged, through parsing, narrowing, rounding and the generated code, as
\* long as the numbers are int32 and the window is positive.  There is no
\* claim for a window in which the node exited or a call counted in an entry
\* that the collector had taken away, nor after an overwritten command.
AdmittedAsAsked ==
  \A n \in Nodes, k \in Keys, x \in Windows :
    /\ clock[n] <= x
    /\ x \notin apart[n][k]
    /\ k \notin garbled[n]
    /\ Made(k, Windows) <= MaxInt32
    => admitted[n][k][x] <= budget[n][k][x]

\* Every configuration on any node is one that PUT /rate accepted on some
\* node, number by number (modulo 2^32): none is a mixture of two requests.
ConfigAsPut ==
  \A n \in Nodes, k \in Keys :
    LET cfg == rateConfig[n][k]
        same(a, b) == (a - b) % (2 * (MaxInt32 + 1)) = 0 IN
    cfg # None => \E r \in asked[k] : /\ same(cfg.Limit, r.Limit)
                                      /\ same(cfg.Window, r.Window)
                                      /\ cfg.PeakAveraged = r.PeakAveraged

\* What the generated client tells its application is what the node decided.
\* An answer that was not set would read as "not blocked".
AnswerAsDecided == app.phase = "idle" => app.told \subseteq app.decided

\* A call that goes over a threshold makes every other node refuse at that
\* threshold for the rest of the window, without waiting for the timer,
\* unless a count was lost (in an overwritten command too), reported for
\* another window, mixed up or gone astray, or the sum overflows.  There is
\* no claim for a call before which another was counted whose command is still
\* on its way to the worker: that command may come after the flush, and waits
\* for the timer.
Spread ==
  \/ \E n, o \in Nodes : lost[n][o] # NoLedger
  \/ \E n \in Nodes, k \in Keys : apart[n][k] # {} \/ mixed[n][k] # {}
  \/ \A b \in breached, n \in Nodes :
       \/ clock[n] > b.window \/ Made(b.key, {b.window}) > MaxInt32
       \/ status[n] # "up"
       \/ /\ counter[n][b.key] # None
          /\ counter[n][b.key].expires = b.window
          /\ counter[n][b.key].count > b.limit

BreachSpreads == ~Spread ~> Spread
=============================================================================
