# Golimit: TLA+ specifications

Golimit is a decentralised rate limiter.  Every node counts calls per key in
memory, answers at once whether a call is over its threshold, and tells the
other nodes of its counts asynchronously.  This directory models the parts of
it whose correctness depends on interleavings, time and failure; TLC checks
small instances of the models, and TLAPS proves most of the safety properties for
every size; section 5 names the ones it does not.

Paths below are relative to the repository.

## 1. Inventory

| Component | State | Operations | Interacts with |
|---|---|---|---|
| Key entry (`store/bucket/keyentry.go`) | `expires`, 32-bit `count` | `NewEntry`, `ReInit`, `Expired`, `Incr`, `Sync` | locked by the bucket's calls and by the collector; `Expiry` is read without the lock |
| Key bucket (`store/bucket/keybucket.go`) | `lookup`: key -> entry, under a lock | `GetEntry`, `Incr`, `Sync`, `GenExpiry` | called by `Store.Incr` and `Store.SyncKeys`, from any number of goroutines |
| Collector (`Store.gc`) | none | walks all buckets periodically and deletes expired entries | takes the bucket's lock, then entries' locks |
| Synchroniser (`store/store.go`, `store/cluster.go`) | `syncChannel`, `syncPool`, the worker's map `m` and timer | end of `Store.Incr`; `startSyncWorker`; `sendSyncCommandToNodes`, `SendSyncToNode` | fed by callers through the channel, starts a sender goroutine per node, shares pooled objects with both |
| Counter replication | buckets of the other nodes | `SyncKeys` | calls `KeyBucket.Sync` for every command received |
| Rate configuration | `rateConfig` map, file `rateconfig.json` | `SetRateConfig`, `SyncRateConfig`, `SaveRateConfig`, `LoadRateConfig`, `HandleEvent` | HTTP API, RPC between nodes, ring events, the file system |
| Store (`store/store.go`) | options, buckets | `Incr`, `RateLimitGlobal`, `NewStore`, `Close` | composes all of the above |
| Event manager and StatsD (`store/event`) | handlers, event channel, pools | `Publish`, `RegisterHandler`, `UnRegisterHandler`, `GetPool`, workers | `Store.Incr` publishes, `Store.Handle` consumes |
| HTTP API (`store/http/server.go`) | none | `/incr`, `/ratelimit`, `/rate`, `/rateall`, ... | validates and narrows numbers, calls the store |
| Clock (`store/clock`) | none (a test double has one) | `Now` | read by buckets, entries and the collector |
| Process (`golimitV3.go`) | none | configuration, start, signal handling | `NewStore`, `Close` |
| Generated Thrift code (`gen-go`) | none | structures with `Read` and `Write`; a server that dispatches calls; a client for applications | carries counts, configurations and answers between nodes and applications |
| Membership (ringpop, a library) | external | `GetReachableMembers`, `Forward`, events | cluster code |

What is hard here, and what would make each part correct:

* **Bucket.**  Calls look an entry up under one lock and use it under another,
  the collector deletes in between, the clock is read before both, the expiry
  is read again after.  Correct: counts are exact, an allowed call is within
  its limit, a refusal lasts, a live entry is never lost.
* **Synchroniser.**  Pooled objects pass between callers, worker and senders;
  the timer is reset by every command; the channel is bounded.  Correct: each
  object has one owner, counts are conserved, breaches leave at once, everything
  leaves eventually, what is sent is what was flushed.
* **Rate configuration.**  Unversioned broadcasts, a file rewritten in place,
  requests that fail without a second attempt, nodes that crash, restart and
  resend.  Correct: what was acknowledged reaches every node but for what is
  known to be lost, the file follows the memory, everything comes to rest.
* **Cluster.**  Counts are aggregated, overwritten, encoded, lost, delayed and
  applied by nodes whose clocks differ and whose collectors run; nodes stop with
  counts unsent.  Correct: counters differ by what is under way or lost and by
  nothing else that cannot be named, a breach of a limit spreads at once, limits
  and answers survive narrowing and encoding.
* **Event manager, HTTP API, process.**  A slice shifted under its readers, a
  channel that drops, numbers narrowed after they were checked, initialisation
  in an order that exposes half-built state.

`PROJECT.json` lists the hazards line by line, with the properties that cover
each.

## 2. Modules

| Module | Models | State and actions |
|---|---|---|
| `Int32Arith` | int32 addition | `AddInt32` wraps around at `MaxInt32` |
| `KeyEntry` | `keyentry.go`, `GenExpiry`, the comparisons of `KeyBucket.Incr` | an entry is a record; one operator per method |
| `KeyBucket` | `keybucket.go`, `Store.gc` | one bucket, goroutines `Threads`, the collector, the clock |
| `KeyBucketProofs` | theorems about `KeyBucket` | |
| `WindowCounter` | what a bucket promises | one counter per key, atomic calls, a collector that makes calls go astray |
| `KeyBucketRefines` | `KeyBucket` implements `WindowCounter` | the refinement mapping and its proof |
| `MCKeyBucket` | instances; a documented claim about a key's limit | |
| `StoreSync` | the synchroniser of one node | callers, pool, channel, worker, timer, senders |
| `MCStoreSync` | instances | |
| `StoreSyncProofs` | theorems about `StoreSync` | |
| `RateConfigSync` | rate configurations of the cluster | nodes, files, handlers, requests, joins, crashes |
| `MCRateConfig` | instances, a careful operator | |
| `RateConfigProofs` | theorems about `RateConfigSync` | |
| `EventManager` | `eventmanager.go`, end of `Store.Incr` | publishers, pooled events, channel, workers, the array of handlers |
| `MCEventManager` | an instance | |
| `EventManagerProofs` | theorems about `EventManager` | |
| `HttpApi` | `store/http/server.go`, peak averaging in `Store.Incr` | what is accepted, narrowed and rounded |
| `ThriftCodec` | `gen-go/com/store.go` | one reader and one writer, a table of fields per structure |
| `Cluster` | several nodes: `Store.Incr`, `RateLimitGlobal`, HTTP, `tchan-com.go`, broadcast of counts and configurations, `Close`, exit and start | composes `KeyEntry`, `HttpApi`, `ThriftCodec` |
| `MCCluster` | the requests of an instance | |
| `ClusterProofs` | theorems about `Cluster`, and with it `HttpApi` and `ThriftCodec` | |
| `QueueLemmas` | lemmas about channels of pooled objects | |
| `NumberLemmas` | lemmas about sums over finite sets and about remainders | |

**KeyBucket.**  A call of `Incr` is `IncrCall` (reads the clock), `GetEntry`
(read lock of the bucket), if nil `FindEntry` or `CreateEntry` (the double check
under the write lock), `IncrEntry` (all between `e.Lock` and `e.Unlock`, with
the renewal of an expired entry) and `IncrReturn` (the unlocked read of the
expiry).  `Sync` is `SyncCall`, which drops late commands, the same look-up, and
`SyncEntry`.  The collector is `GcLock`, `GcScan` (unlocked check of the age),
`GcReap` (check under the entry's lock, deletion) and `GcUnlock`.  Between them
`Tick` moves the clock.  A lock-protected region that cannot be seen half done
is one step.  Entries are addresses in a heap, so that an entry the collector has
removed while a call holds it goes on existing.  The history variables `tally`,
`barred` and `origin` record what was added to an entry since its window began,
the limits at which it refused, and the window each call was counted in.

**StoreSync.**  The end of `Store.Incr` is `IncrReturns` (the bucket's answer),
`GetCommand` (`syncPool.Get`), `FillCommand` (the four assignments) and
`SendCommand` (waits for room).  An iteration of the worker is `ReceiveNew`,
`ReceiveSame`, `ReceiveOther` or `Timeout`, each ending in `Finish`: flush if due,
return objects, reset the timer.  The timer is `idle` (time since the reset) and
`fired` (the value in `timer.C`, which `Stop` does not drain).  A sender reads its
objects when it serialises (`Serialize`): if a caller is filling one of them the
two race, and the sender reads any mixture of old and new fields.
`GetReachableMembers` returns any set of nodes, none standing for an error too.
`KeyBucket` appears through what it returns: the expiry of the key's window,
which only moves forward, and `dosync`.  `ledger`-valued history variables book
what was counted, flushed and discarded for each key and window.

**RateConfigSync.**  `PutRate` and `SyncRateConfig` start a handler, which goes
through `WriteConfig` (write lock), `SaveStart` and `SaveEnd` (read lock held from
marshalling to the end of the write; in between the file is truncated) and, for
`PUT /rate`, `SendConfig`.  `SaveFails` is `WriteFile` with an error, which the code
ignores: the file stays as it was, or truncated.  `RequestFails` may befall any
request at any time; the sender only logs it.  `Stop` is a crash or exit at any
point; `Start`, `Register`, `LoadRead` and `LoadMerge` are `NewStore` in its order:
join the ring, register the handler, read the file, unmarshal it over the map.  A
request for a node that has joined and not registered can only fail.  A join makes
every other member, and the joining node itself, wait in `HandleEvent` and then
`Resend` all they have, at any time.  The history variable `missed` books what the
code gives up: a request that failed or was never sent, what a stopping node has
and its file has not, what a save replaces in a file not yet read.  A node that
joins while a member is up and has the configuration misses it no more: that member
is to send it.  `unsaved` are the nodes whose last save failed.

**EventManager.**  The end of `Store.Incr` is `GetEvent`, `FillEvent` and `Publish`
or, when the channel is full, `PublishDiscards`.  A worker does `ReceiveEvent`,
`TakeHandlers` (copies the slice under the lock), `CallHandler` for each element
(reads the shared array without the lock) and `PutEvent`.  `RegisterHandler` is one
step; `UnRegisterHandler` keeps the lock while `ShiftHandler` moves the elements
one by one and `UnRegisterEnd` shortens the slice.  Arrays have identities: a
worker may read an array that `append` has since replaced, or one it still writes.
Nothing keeps a handler from being registered twice, so an element of the array
is a handler together with the number of the call that registered it; `called`
counts by registration.

**WindowCounter.**  A call is `Invoke`, then `Incr` or `Sync`, which act on the
counter of the key in one step, then `Return`; `Open` is the first window of a
key.  `Forget` is the collector's deletion of an expired counter, after which
calls of that key that are under way may end by `IncrAstray` or `SyncAstray`,
without effect on the counter.  The mapping of `KeyBucketRefines` takes for a
key's counter the entry its look-up yields, and for astray the goroutines about
to lock an entry that is no longer their key's.

**Cluster.**  What the other modules take apart is here a step or two; what they show
to happen in between is kept as a choice of those steps.

* *Calls.*  `StoreIncr` is `Store.Incr` from the reading of the clock to the command
  on the channel.  It acts on an entry at one instant, as `WindowCounter` says, but
  with a clock read at any earlier time since the node is up (`t`), and on the entry
  in the map or on the last one that the collector took from the key (`Lookup`,
  `Collect`), if the clock was read before that.  `RereadExpiry` is the second
  reading of the expiry, when a later call has renewed the entry.
* *Broadcast.*  `reports` is the channel, without order; `Receive` aggregates one
  command into the worker's map (`Aggregate`), where a command of another window
  replaces what was there.  `Flush` hands the map to one goroutine per reachable
  node, and the objects to the pool.  `Serialize` comes later: it reads, field by
  field, what was flushed or anything that calls and the worker have written into
  pooled commands since (`Later`, `Readings`), as `StoreSync` shows.  A request that
  does not hold what was flushed is not `sound`.
* *Delivery.*  A request is the sequence of fields that the generated code writes; a
  server may read any prefix of it and acts on a complete one only
  (`HandleSyncKeys`, which also has an early reading of the clock and may find
  entries that the collector took away); or it fails (`FailSyncKeys`).
  `ringpop.Forward` is given no keys and so has no destination to try again: a
  request is handled at most once, which is an assumption about that library.
* *Entrances.*  `HttpIncr`, `HttpRateLimit`, `HttpPutRate`; `CallIncrAction`,
  `HandleIncrAction`, `AppReturn` and their likes for the generated client and
  server.  What `int32()` makes of a float that is not an int32 (a peak averaged
  limit with a window of zero) depends on the processor: any of three values.
  Windows may be of any length, and of several on one key.
* *Nodes.*  `Close`, `Exit`, `Start` and a clock for every node (`Tick`).

Left out here, and where it is instead: more than one collected entry per key, and
an entry that is in the map before the call that made it counts (`KeyBucket`);
the answer is given when the call is counted, not when it returns; one reading of
the clock for all commands of a request, where the code reads it for each; the
order of the channel and the timer (`StoreSync`); the file of the configurations,
the moments of `SetRateConfig` and the resending (`RateConfigSync`: here a node that
starts knows the configurations it had).

The history variables book what was counted (`made`), admitted, put and given up.
`lost` grows where the code gives a count up: a flush that does not reach a node, a
failed or broken request, an overwritten command, a command that another replaces in
the worker's map, an exit.  Four more name the windows and keys for which a property
makes no claim: `apart` (a node's own counts are not all in its entry: it exited, the
entry had been collected, the count was reported for another window), `mixed` (a
command of another window, an unsound one, or one for a collected entry was added),
`misfiled` (the windows and the time of a mixture) and `garbled` (a node has handled
an unsound command for the key).

## 3. Runs

Passing runs:

| Run | Question | Bounds |
|---|---|---|
| `bucket` | Do counters count exactly and limits hold when calls with two thresholds and windows, commands from other nodes, the collector and time interleave?  Is a live entry never lost or cut short, and is a count reported in its window? Does every call act at one instant? (`Ledger`, `AllowedWithinLimit`, `RefusalSticks`, `LiveEntryKept`, `ReportedInItsWindow`, `TypeOK`, and the refinement `ActsAtOnce`) | 2 goroutines, 1 key, 3 calls, 4 instants, windows of zero and one instant, so that every renewal and deletion can fall anywhere |
| `sync` | Ownership, conservation and the limits of the worker's map (`OneOwner`, `Conservation`, `UnsyncedBounded`, `TypeOK`) | 2 callers, channel of 1, counts 1 and 2 with `MaxInt32` = 3 so that the aggregate wraps, 2 windows, 3 calls and as many objects, so that `Get` never waits, as in the code |
| `sync_live` | Is everything flushed once calls cease, and does no caller stay blocked? (`EventuallyDrained`) | 2 callers, channel of 1, 2 windows, 3 calls; no node, since nothing waits for a sender |
| `config_join` | Do acknowledged configurations reach and stay on every node, but for what is booked as missed, across a crash at any point (`AckedKept`)?  Does the file follow the memory (`FileMatchesMemory`)?  `TypeOK` | 2 nodes, 2 keys put once each (on one node at the same time, too), 2 handlers, 1 stop; any request and any save may fail |
| `config_live` | The same across two crashes (`AckedKept`), and does the cluster come to rest (`EventuallySettled`)? | 2 nodes, 1 key put once, 2 handlers, 2 stops |
| `events` | Do handlers get what was accepted, once for each registration, while others come and go (`OneOwner`, `DeliveredOnce`, `CalledOnlyIfRegistered`, `TypeOK`), and is everything accepted handled (`EventuallyHandled`)? | 2 publishers, 2 workers, channel of 1, 2 events, 4 registrations and removals of a handler: the third registration leaves the array with room, and the fourth is written into the array that workers read; a removal shifts and the next registration fills it again under a reader |
| `cluster` | Do the counters of the nodes agree but for what is under way or lost (`CountsAgree`), does no count come from nowhere (`NoPhantomCounts`), are windows mixed up only at their end (`MixedOnlyAtTheEnd`), is no more admitted than was asked for (`AdmittedAsAsked`)? | 2 nodes, 1 key, one length of windows, 3 inputs (calls and stops), clocks of 4 instants that differ by one at most, windows of 2, no grace for the collector, so that an entry is collected while calls are under way; `unsyncedCtrLimit` 1 |
| `cluster_calls` | The same but for `MixedOnlyAtTheEnd` with two lengths of windows, and are configurations and answers what was put and decided (`ConfigAsPut`, `AnswerAsDecided`, `TypeOK`), and does a breach of a limit spread at once (`BreachSpreads`)? | 2 nodes, 1 key, 3 inputs (calls, configurations, stops), clocks of 2 instants, windows of zero, one and two seconds; `MaxInt32` = 7 and a call of 7, so that two calls overflow; one application that calls one of the nodes, the `Sidecar` |

The bounds are the smallest at which two actors of each kind overlap, every
window can end while a call is under way, and every queue can be full; `MaxNow`,
`MaxCalls`, `MaxWindow`, `MaxPuts`, `MaxStops` and `MaxInputs` bound behaviours and
are named in the modules.  `MaxSkew` is not a bound but an assumption about the
clocks of the nodes, and appears in the properties.  Symmetry is used where values
are interchangeable and no liveness is checked.  `CHECK_DEADLOCK FALSE` is set for `RateConfigSync`,
`EventManager` and `Cluster` only: without requests they are at rest;
`EventuallySettled`, `EventuallyHandled` and `BreachSpreads` show that they are not
stuck.  Larger instances pass as well: `config_join` with three nodes and one key,
`events` with two handlers (safety only), `cluster_calls` with one more instant (safety
only), `cluster` with `BreachSpreads` (a million states).

Runs that show a disagreement between the code and its documentation (details
in the findings of `PROJECT.json`):

| Run | What TLC finds |
|---|---|
| `bucket_gc` | the collector deletes an entry between an `Incr`'s look-up and its lock; that call renews the deleted entry, the next makes a second one, and the two admit the threshold twice in a window that is still open |
| `sync_race` | a late command of the previous window discards the counts of the current one |
| `sync_reuse` | flushed commands are reused before they are serialised; other counts are sent |
| `config_restart` | a node that was down during an update loads the old configuration and sends it to the other when it joins again: both end with it, although the operator (`CarefulSpec`) lets every update and every start take effect before the next, and nothing is lost but what is sent to a node that is down |

What the passing runs do not claim, seen with the same modules on other
instances:

* `AllowedWithinLimit`, `Ledger` and `RefusalSticks` stop at an overflow of the
  32-bit counter: a total beyond it is negative and below every limit.
* Windows end at multiples of W seconds, so the second call of the example in
  `README.md:87` is admitted when such an instant lies between the two calls.
* `CountsAgree` counts modulo 2^32, so it holds across an overflow; `AdmittedAsAsked`,
  `NoPhantomCounts` and `BreachSpreads` stop at it.
* The findings of `bucket_gc` and `sync_reuse` are in `Cluster`, too, and its
  properties except what they do: `CountsAgree` makes no claim for a window that is
  `apart` or `mixed`, `AdmittedAsAsked` none for one that is `apart` (a node that
  exits and starts again in a window admits again; so does one whose collector takes
  an entry from a call) nor for a key that is `garbled`, and `NoPhantomCounts`
  none for a `garbled` key, since an overwritten command may repeat another's count.
  An overwritten command is `lost`, and `BreachSpreads` makes no claim then.  Nor does
  it for a call that overtakes an earlier one of its key on the way to the worker: the
  earlier count then waits for the timer.
* `AdmittedAsAsked` takes any number for kept that is no int32, or a window that is
  not positive: nothing says what these should mean.  `PUT /rate` checks its numbers
  before it narrows them (`server.go:149-155`), so that a window of 2^32 seconds
  passes and becomes one of zero; `ConfigAsPut` compares modulo 2^32.
* `MixedOnlyAtTheEnd` is about windows of one length.  With two lengths on one key
  `KeyBucket.Sync` adds the counts of one to the other at any time.
* Every command resets the worker's timer (`store.go:366`), not only a flush:
  calls that keep coming put the periodic flush off.  `EventuallyDrained` speaks
  of calls that cease.
* `DeliveredOnce` is stated without removals: `UnRegisterHandler` moves elements
  under a worker that reads them, which may then miss a handler that stays
  registered, or call it twice.  The program itself removes no handler.
* `AckedKept` is about one put for each key, and excepts what is `missed`.  With two
  puts it fails: configurations carry no version, so two that cross, or an old one
  that is resent, end in any order (`config_restart` has the case that hurts).
  With `ConfigDirIsCwd` false a restart loses all (the file written is then not the
  file read; the program itself leaves `configDir` empty).
* `FileMatchesMemory` is about nodes that have not been restarted: `LoadRateConfig`
  merges what it has read into a map that may have been saved meanwhile.
* That no call hangs between the lock of a bucket and those of its entries is not
  shown: a region under an entry's lock is one step of `KeyBucket`.  A call holds one
  of the two locks at a time.

## 4. Fairness

* `StoreSync!FairSpec`: goroutines run and the timer advances; senders blocked on
  a channel are queued first in, first out (strong fairness per caller); Go's
  `select` chooses at random between a command and the timer (weak fairness for
  each).
* `RateConfigSync!FairSpec`: goroutines run and obtain the lock of their node, every
  request is handled or fails (`Forward` has a time limit), and a stopped node is
  started again.  The last is an assumption about the operator.
* `EventManager!FairSpec`: goroutines run, handlers return, and those that wait for
  the lock or the channel are served in turn.
* `Cluster!FairSpec`: the worker receives what is on its channel and flushes what is
  due at once, goroutines serialise their requests, and every request is handled or
  fails.  Nothing is assumed of the timer, of time, or of callers: what spreads at
  once does so without them.

## 5. Proofs

`KeyBucketProofs` proves, for all sets of keys, goroutines, entries, counts,
limits and windows and every `MaxInt32` and `Second`:

| Theorem | Statement |
|---|---|
| `TypeCorrect` | `Spec => []TypeOK`, which includes that no call locks a nil entry |
| `LedgerHolds` | `Spec => []Ledger` |
| `RefusalHolds` | `Spec => []RefusalSticks` |
| `AllowedHolds` | `Spec => AllowedWithinLimit` |
| `LiveHolds` | `Spec => LiveEntryKept` |
| `ReportedHolds` | `Spec => []ReportedInItsWindow` |

`KeyBucketRefines` proves, for the same constants:

| Theorem | Statement |
|---|---|
| `BucketRefines` | `Spec => ActsAtOnce`, that is, `KeyBucket` implements `WindowCounter` |

`StoreSyncProofs` proves, for all finite sets of keys, callers, nodes and objects
and every buffer, limit and interval:

| Theorem | Statement |
|---|---|
| `TypeCorrect` | `Spec => []TypeOK` |
| `OwnerHolds` | `Spec => []OneOwner` |
| `BoundedHolds` | `Spec => []UnsyncedBounded` |
| `ConservationHolds` | `Spec => []Conservation` |

`RateConfigProofs` proves, for all sets of nodes, keys, configurations and
handlers:

| Theorem | Statement |
|---|---|
| `TypeCorrect` | `Spec => []TypeOK` |
| `FileHolds` | `Spec => []FileMatchesMemory` |
| `KeptHolds` | `Spec => []AckedKept`, if each key is put once (`MaxPuts = 1`); any number of keys, failures, stops and starts |

`EventManagerProofs` proves, for all sets of handlers, publishers, workers and
objects and every capacity:

| Theorem | Statement |
|---|---|
| `TypeCorrect` | `Spec => []TypeOK` |
| `OwnerHolds` | `Spec => []OneOwner` |
| `CalledHolds` | `Spec => []CalledOnlyIfRegistered` |
| `OnceHolds` | `Spec => []DeliveredOnce` |

`ClusterProofs` proves, for all finite sets of nodes and keys, all requests, every
difference of clocks and every `MaxInt32` and `Second`:

| Theorem | Statement |
|---|---|
| `TypeCorrect` | `Spec => []TypeOK` |
| `MixedHolds` | `Spec => []MixedOnlyAtTheEnd` |
| `ConfigHolds` | `Spec => []ConfigAsPut` |
| `AnswerHolds` | `Spec => []AnswerAsDecided` |

Assumptions (TLC evaluates them in every run of the module that states them):
the constants are of their types and limits are int32 (`Int32Assumption`,
`SecondAssumption`, `BucketAssumption`, `SyncAssumption`, `ConfigAssumption`,
`EventAssumption`, `ClusterAssumption`).  In
`KeyBucket` and `StoreSync` counts are not negative, which is an assumption about
callers, since the HTTP API does not check it; `Cluster` does without it.  `StoreSync`
and `Cluster` have finitely many nodes, keys, callers and objects, because counts
are added up over them.  `RequestAssumption` gives the requests of `Cluster` their
types; text that is no number stands for 0, as `POST /incr` takes such a `P`
(`server.go:83`; the other parameters are refused then).
`NoneAssumption` says that nil is no entry and no command.

The argument: `IncrEntryEffect` and `SyncEntryEffect` say what the two locked
regions do to the one entry they hold.  With `AddInt32Exact` (no wrap-around
while the sum fits) `Ledger` is inductive by itself.  `RefusalSticks` needs
`Ledger`, since only exact counts are known to grow; the two action properties
follow from `Ledger` before and after the step.  `ReportedInItsWindow` is not
inductive: it speaks of calls that have returned, so `ReportInv` adds the same
for calls about to read the expiry, and that nothing is recorded for a call not
yet counted.  There the freshness of `CreateEntry`'s address matters: an entry
somebody holds is never reused.

The refinement rests on `OwnEntries`: no two keys share an entry, and a goroutine
that holds the entry of some key is making a call of that key.  With it
`CounterWritten` shows that a region under an entry's lock changes the counter of
its own key, if the entry is still that key's, and no other counter; one lemma
per action then names the step of `WindowCounter` it is, or that it is none.

For the synchroniser, `Inv` is `Shape` (the types of what callers and worker
share), the four places of a command as a partition of the objects, and the
limits of the worker's map.  `UnsyncedBounded` is not inductive without the
rest: a caller filling its command must not be writing into one the worker
keeps, and adding to one key must not change the command of another.
`FinishStep` does the common end of the four worker steps once, for any map the
step has arrived at.

`Conservation` is inductive with `Inv` and `BookInv` (a caller that sends has written
its command): each step moves counts between the places where they can be, and
`Balance` changes by a multiple of 2^32 at most.  What the sum over a set is
follows from `NumberLemmas`.  The community modules define it by recursion, with
an element chosen at each step; `SumFunctionOnSet` is that recursion's value only
if the recursion has a solution, which is proved first, by induction on the size
of the set (induction takes a set of naturals or of subsets instead of a
predicate, and rests on the least element of a set of naturals).  `SumAdd` and
`SumChange` then are all that the modules use.

For the configurations, `FileInv` says that a handler that writes the file holds
the lock, so that what it marshalled is still the map, and that without such a
handler the two agree.  A stop breaks it, as it may fall into the writing, hence
the condition on `stops`.  `AckedKept` follows from `KeptInv`: all that is anywhere
known of a key is one configuration (`OneConfigInv`, where `MaxPuts = 1` is needed),
and a node that has not missed it has it in memory, or gets it from a request under
way, a handler about to write it, a member that is to resend it, its file or what it
has just read of that (`ComingInv`).  The proof goes through the ways each of these
can end: into the next one, or into `missed`.

For the events, the invariants are layered: the slice apart from the element
`UnRegisterHandler` is about to overwrite (`SliceInv`), what a worker walks through
(`WalkInv`), the owners (`OwnerInv`), one object for each event (`EventInv`), the
handlers that an event may meet (`SinceInv`), and, without removals, the handlers
that a worker has called and has still to call (`OnceInv`).  `SinceInv` is where
the unlocked reading matters: whatever the array of a worker holds, at any
position it may still read, has been registered since its event was accepted.

For the cluster, the lemmas about the generated code come first: a structure is
complete only if it was read to its end, and then every field is what was written
(`CompleteIsWhole`, `ReadsBack`), for any table of fields without duplicates.
`AppInv` and `ConfigInv` carry an answer and a configuration through a request with
them.  `ReplicaInv` says that every count, in an entry, in a collected one, in a report,
in the worker's map, in what was written into pooled commands or in a request, is an
int32 of a window that some clock has come to (`Begun`).  It survives the overwriting
of commands because whatever mixture of fields a goroutine reads, each field is one
that was written.  If all windows have one length then of two such windows that a
node's clock has not passed the older ends within `MaxSkew`, since they are multiples of
that length apart; that is `MixedOnlyAtTheEnd`.  The loop of `SyncKeys` is a fold over
the commands; as with the sum, that the fold is what it computes is proved first
(`LoopExists`).

Only model-checked:

* Liveness (`EventuallyDrained`, `EventuallySettled`, `EventuallyHandled`,
  `BreachSpreads`): outside this prover.
* `CountsAgree`, `NoPhantomCounts` and `AdmittedAsAsked`.  Their proofs need a balance of
  counts over all places of `Cluster`, its `reports` and overwritten commands included;
  that is planned.

## 6. Plan

Done in this order: `KeyEntry` and `KeyBucket` with their proofs; `StoreSync`;
`RateConfigSync`; `EventManager`; `WindowCounter` and the refinement; `HttpApi`,
`ThriftCodec` and `Cluster`; `StoreSyncProofs`; `RateConfigProofs`,
`EventManagerProofs` and `ClusterProofs`; then the effects that `KeyBucket` and
`StoreSync` had shown, carried over into `Cluster`: stale clocks, collected entries,
the second reading of the expiry, overwritten commands, windows of several lengths.

To be done: the balance behind `CountsAgree` for every number of nodes and keys, on
the lines of `ConservationHolds`: of every window that is not over, `apart` or `mixed`,
a node's count, less what all nodes made, plus what its peers still hold, report,
send or have lost, is a multiple of 2^32.

## 7. Not modelled

* YAML, flags, logging, profiling, and the requests that only read (`ping`,
  `rateall`, `clusterinfo`, `GET /rate`): input and output.
* ringpop and tchannel: libraries.  Membership is arbitrary, requests are handled,
  lost or cut short.
* The Apache Thrift client and processor in `gen-go/com/store.go`: generated, and
  used by no part of the program.
* The choice of a bucket by the hash of a key: a key always has the same bucket,
  and buckets share nothing.
* The statsd client.  `NewStore` registers the handler before it sets the client
  (`store.go:268`): an event handled in between meets nil.  Nothing in the
  repository states what should happen, so the hazard is listed and no run is
  about it.
* The branch of the worker for a closed channel: nothing closes `syncChannel`.
* The data race on `rateConfig` (`store.go:397`) beyond its outcome that the process
  is aborted, which is a stop.
