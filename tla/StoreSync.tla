----------------------------- MODULE StoreSync ------------------------------
(***************************************************************************)
(* The synchroniser of store/store.go and store/cluster.go on one node:    *)
(* the end of Store.Incr, which hands each counted call to the sync worker *)
(* in a pooled SyncCommand; the worker started by startSyncWorker, which   *)
(* adds commands up by key; and the goroutines sendSyncCommandToNodes      *)
(* starts, one per node, which serialise what the worker flushed.          *)
(*                                                                         *)
(* SyncCommand objects have an identity, since the worker returns them to  *)
(* the pool while the senders still read them.  One iteration of the       *)
(* worker's loop is one step: it works on a map of its own, and what it    *)
(* shares (channel, pool, senders) it touches once, in the order receive,  *)
(* start senders, return objects.                                          *)
(*                                                                         *)
(* KeyBucket.Incr is seen here through what it returns: the expiry of the  *)
(* key's current window, and dosync.  Calls it refuses without counting    *)
(* send nothing and are left out.                                          *)
(***************************************************************************)
EXTENDS Int32Arith, FiniteSets, Sequences, FiniteSetsExt, SequencesExt

CONSTANTS Keys,        \* the keys callers count
          Callers,     \* the goroutines inside Store.Incr
          Nodes,       \* the other members of the cluster
          Objs,        \* addresses of SyncCommand objects
          NoObj,       \* nil
          Counts,      \* counts passed to Incr
          Buffer,      \* opts.syncBuffer, the capacity of syncChannel
          CtrLimit,    \* opts.unsyncedCtrLimit
          TimeLimit,   \* opts.unsyncedTimeLimit, in ticks
          MaxWindow,   \* bound: the windows of each key are 0 .. MaxWindow
          MaxCalls     \* bound: the number of calls made

ASSUME SyncAssumption == /\ Keys # {}
                         /\ NoObj \notin Objs
                         /\ IsFiniteSet(Objs) /\ IsFiniteSet(Callers)
                         /\ IsFiniteSet(Nodes)
                         /\ Counts \subseteq 0 .. MaxInt32
                         /\ Buffer \in Nat \ {0}
                         /\ CtrLimit \in Int32
                         /\ TimeLimit \in Nat \ {0}
                         /\ MaxWindow \in Nat
                         /\ MaxCalls \in Nat

VARIABLES
  window,       \* the expiry the bucket returns now for each key
  obj,          \* the contents of the SyncCommand objects
  syncPool,     \* objects Get may return: pooled ones and fresh ones
  pc,           \* where each caller is in the end of Store.Incr
  arg,          \* what it is to write into its command
  held,         \* its local variable sCmd
  syncChannel,  \* the queue of commands
  m,            \* the worker's map from keys to commands
  idle,         \* ticks since the worker's timer was reset
  fired,        \* timer.C holds a value
  senders,      \* goroutines in SendSyncToNode
  calls,        \* the number of calls made so far
  \* History variables, read by no action.
  produced,     \* what calls of each key and window have counted
  flushed,      \* what the worker gave to sendSyncCommandToNodes
  discarded     \* what it dropped for a command with another expiry

history == <<produced, flushed, discarded>>
vars == <<window, obj, syncPool, pc, arg, held, syncChannel, m, idle, fired,
          senders, calls, history>>

Command == [key : Keys, count : Int32, expiry : 0 .. MaxWindow, force : BOOLEAN]

\* A fresh object; its key is any, and no one reads it before it is written.
Blank == [key |-> CHOOSE k \in Keys : TRUE, count |-> 0, expiry |-> 0,
          force |-> FALSE]

\* A sender [id, node, batch, flushed, payload] holds the slice of objects it
\* is to send; payload is what it has serialised, flushed (history) what the
\* worker flushed, both by object.
NoBatch == [o \in {} |-> Blank]

\* The history variables hold one number for each key and window.
NoLedger == [k \in Keys |-> [x \in 0 .. MaxWindow |-> 0]]
Book(ledger, c) == [ledger EXCEPT ![c.key][c.expiry] = @ + c.count]

\* What each object counts, if it counts calls of the key k in the window x.
CountIn(contents, k, x) ==
  [o \in Objs |-> IF contents[o].key = k /\ contents[o].expiry = x
                    THEN contents[o].count ELSE 0]

InChannel == ToSet(syncChannel)
InMap == {m[k] : k \in Keys} \ {NoObj}
InHands == {held[c] : c \in Callers} \ {NoObj}

TypeOK ==
  /\ window \in [Keys -> 0 .. MaxWindow]
  /\ obj \in [Objs -> Command]
  /\ syncPool \subseteq Objs
  /\ pc \in [Callers -> {"idle", "get", "fill", "send"}]
  /\ arg \in [Callers -> Command]
  /\ held \in [Callers -> Objs \union {NoObj}]
  /\ \A c \in Callers : held[c] = NoObj <=> pc[c] \in {"idle", "get"}
  /\ syncChannel \in Seq(Objs)
  /\ Len(syncChannel) <= Buffer
  /\ m \in [Keys -> Objs \union {NoObj}]
  /\ idle \in 0 .. TimeLimit
  /\ fired \in BOOLEAN
  /\ \A s \in senders : /\ s.id \in Nat /\ s.node \in Nodes
                         /\ s.batch \subseteq Objs
                         /\ s.flushed \in [s.batch -> Command]
                         /\ s.payload \in {NoBatch} \union [s.batch -> Command]
  /\ calls \in Nat

Init ==
  /\ window = [k \in Keys |-> 0]
  /\ obj = [o \in Objs |-> Blank]
  /\ syncPool = Objs
  /\ pc = [c \in Callers |-> "idle"]
  /\ arg = [c \in Callers |-> Blank]
  /\ held = [c \in Callers |-> NoObj]
  /\ syncChannel = << >>
  /\ m = [k \in Keys |-> NoObj]
  /\ idle = 0
  /\ fired = FALSE
  /\ senders = {}
  /\ calls = 0
  /\ produced = NoLedger
  /\ flushed = NoLedger
  /\ discarded = NoLedger

-----------------------------------------------------------------------------
(* The callers: Store.Incr after KeyBucket.Incr.                           *)

IncrReturns(c, key, count, dosync) ==
  LET cmd == [key |-> key, count |-> count, expiry |-> window[key],
              force |-> dosync] IN
  /\ pc[c] = "idle"
  /\ calls < MaxCalls
  /\ calls' = calls + 1
  /\ pc' = [pc EXCEPT ![c] = "get"]
  /\ arg' = [arg EXCEPT ![c] = cmd]
  /\ produced' = Book(produced, cmd)
  /\ UNCHANGED <<window, obj, syncPool, held, syncChannel, m, idle, fired,
                 senders, flushed, discarded>>

GetCommand(c) ==
  /\ pc[c] = "get"
  /\ \E o \in syncPool : /\ held' = [held EXCEPT ![c] = o]
                         /\ syncPool' = syncPool \ {o}
  /\ pc' = [pc EXCEPT ![c] = "fill"]
  /\ UNCHANGED <<window, obj, arg, syncChannel, m, idle, fired, senders,
                 calls, history>>

FillCommand(c) ==
  /\ pc[c] = "fill"
  /\ obj' = [obj EXCEPT ![held[c]] = arg[c]]
  /\ pc' = [pc EXCEPT ![c] = "send"]
  /\ UNCHANGED <<window, syncPool, arg, held, syncChannel, m, idle, fired,
                 senders, calls, history>>

\* The caller waits while the channel is full.
SendCommand(c) ==
  /\ pc[c] = "send"
  /\ Len(syncChannel) < Buffer
  /\ syncChannel' = Append(syncChannel, held[c])
  /\ held' = [held EXCEPT ![c] = NoObj]
  /\ pc' = [pc EXCEPT ![c] = "idle"]
  /\ arg' = [arg EXCEPT ![c] = Blank]
  /\ UNCHANGED <<window, obj, syncPool, m, idle, fired, senders, calls,
                 history>>

-----------------------------------------------------------------------------
(* The worker.                                                             *)

\* Mutant of ResetTimer: the timer is not started again.
LeaveTimer == UNCHANGED idle

\* timer.Stop and timer.Reset.  Stop does not empty timer.C: a timer that has
\* fired meanwhile still wakes the next iteration.
ResetTimer == idle' = 0

\* Tells the senders of one flush from those of the others.
NewId == CHOOSE i \in 0 .. Cardinality(senders) : \A s \in senders : s.id # i

\* sendSyncCommandToNodes: a sender for each reachable node, none when the
\* members cannot be obtained.
StartSenders(batch, contents) ==
  \E reachable \in SUBSET Nodes :
    senders' = senders \union
      {[id |-> NewId, node |-> n, batch |-> batch,
        flushed |-> [o \in batch |-> contents[o]], payload |-> NoBatch]
         : n \in reachable}

\* The end of an iteration, with the map and the objects it has arrived at:
\* flush the map if send is set, return the objects no longer needed.
Finish(map, contents, unused, send) ==
  LET batch == IF send THEN {map[k] : k \in Keys} \ {NoObj} ELSE {} IN
  /\ obj' = contents
  /\ m' = IF send THEN [k \in Keys |-> NoObj] ELSE map
  /\ syncPool' = syncPool \union unused \union batch
  /\ IF batch = {} THEN UNCHANGED senders ELSE StartSenders(batch, contents)
  /\ flushed' = [k \in Keys |-> [x \in 0 .. MaxWindow |->
                   flushed[k][x]
                     + SumFunctionOnSet(CountIn(contents, k, x), batch)]]
  /\ ResetTimer

\* Mutant of MustSend: Force is ignored.
MustSendOverLimit(cmd, total) == total > CtrLimit

\* A command is flushed at once when it is forced or goes over the limit.
MustSend(cmd, total) == cmd.force \/ total > CtrLimit

\* The next command, o, when there is one.
Receive(o) ==
  /\ syncChannel # << >>
  /\ o = Head(syncChannel)
  /\ syncChannel' = Tail(syncChannel)
  /\ UNCHANGED <<window, pc, arg, held, fired, calls, produced>>

\* The key is not in the map.
ReceiveNew(o) ==
  LET k == obj[o].key IN
  /\ Receive(o)
  /\ m[k] = NoObj
  /\ Finish([m EXCEPT ![k] = o], obj, {}, MustSend(obj[o], obj[o].count))
  /\ UNCHANGED discarded

\* Mutants of ReceiveSame: the count replaces the one in the map ...
ReceiveSameReplaces(o) ==
  LET k == obj[o].key
      total == obj[o].count IN
  /\ Receive(o)
  /\ m[k] # NoObj
  /\ obj[m[k]].expiry = obj[o].expiry
  /\ Finish(m, [obj EXCEPT ![m[k]].count = total], {o},
            MustSend(obj[o], total))
  /\ UNCHANGED discarded

\* ... or the wrong object goes back to the pool.
ReceiveSamePutsOld(o) ==
  LET k == obj[o].key
      total == AddInt32(obj[m[k]].count, obj[o].count) IN
  /\ Receive(o)
  /\ m[k] # NoObj
  /\ obj[m[k]].expiry = obj[o].expiry
  /\ Finish(m, [obj EXCEPT ![m[k]].count = total], {m[k]},
            MustSend(obj[o], total))
  /\ UNCHANGED discarded

\* It is, in the same window: the counts are added.
ReceiveSame(o) ==
  LET k == obj[o].key
      total == AddInt32(obj[m[k]].count, obj[o].count) IN
  /\ Receive(o)
  /\ m[k] # NoObj
  /\ obj[m[k]].expiry = obj[o].expiry
  /\ Finish(m, [obj EXCEPT ![m[k]].count = total], {o},
            MustSend(obj[o], total))
  /\ UNCHANGED discarded

\* It is, in another window: the command replaces what was added up.
ReceiveOther(o) ==
  LET k == obj[o].key IN
  /\ Receive(o)
  /\ m[k] # NoObj
  /\ obj[m[k]].expiry # obj[o].expiry
  /\ Finish([m EXCEPT ![k] = o], obj, {m[k]}, MustSend(obj[o], obj[o].count))
  /\ discarded' = Book(discarded, obj[m[k]])

Timeout ==
  /\ fired
  /\ fired' = FALSE
  /\ Finish(m, obj, {}, TRUE)
  /\ UNCHANGED <<window, pc, arg, held, syncChannel, calls, produced,
                 discarded>>

-----------------------------------------------------------------------------
(* The senders.                                                            *)

\* What a sender may read in an object: its contents, or any mixture with
\* what a caller is writing into it.
Readable(o) ==
  {obj[o]} \union
  UNION {[key : {obj[o].key, arg[c].key}, count : {obj[o].count, arg[c].count},
          expiry : {obj[o].expiry, arg[c].expiry},
          force : {obj[o].force, arg[c].force}]
           : c \in {d \in Callers : pc[d] = "fill" /\ held[d] = o}}

Serialize(s) ==
  /\ s.payload = NoBatch
  /\ \E payload \in [s.batch -> UNION {Readable(o) : o \in s.batch}] :
       /\ \A o \in s.batch : payload[o] \in Readable(o)
       /\ senders' = (senders \ {s}) \union {[s EXCEPT !.payload = payload]}
  /\ UNCHANGED <<window, obj, syncPool, pc, arg, held, syncChannel, m, idle,
                 fired, calls, history>>

\* The request is answered or fails; a failure is only logged.
Forwarded(s) ==
  /\ s.payload # NoBatch
  /\ senders' = senders \ {s}
  /\ UNCHANGED <<window, obj, syncPool, pc, arg, held, syncChannel, m, idle,
                 fired, calls, history>>

-----------------------------------------------------------------------------

\* The bucket starts a new window for the key.
NewWindow(k) ==
  /\ window[k] < MaxWindow
  /\ window' = [window EXCEPT ![k] = @ + 1]
  /\ UNCHANGED <<obj, syncPool, pc, arg, held, syncChannel, m, idle, fired,
                 senders, calls, history>>

Tick ==
  /\ idle < TimeLimit
  /\ idle' = idle + 1
  /\ fired' = (fired \/ idle + 1 = TimeLimit)
  /\ UNCHANGED <<window, obj, syncPool, pc, arg, held, syncChannel, m,
                 senders, calls, history>>

Proceed(c) == GetCommand(c) \/ FillCommand(c) \/ SendCommand(c)

ReceiveCommand == \E o \in Objs :
                    ReceiveNew(o) \/ ReceiveSame(o) \/ ReceiveOther(o)

Transmit == \E s \in senders : Serialize(s) \/ Forwarded(s)

Next ==
  \/ \E c \in Callers, k \in Keys, n \in Counts, dosync \in BOOLEAN :
       IncrReturns(c, k, n, dosync)
  \/ \E c \in Callers : Proceed(c)
  \/ ReceiveCommand
  \/ Timeout
  \/ Transmit
  \/ \E k \in Keys : NewWindow(k)
  \/ Tick

Spec == Init /\ [][Next]_vars

(***************************************************************************)
(* Fairness.  The runtime schedules every goroutine and fires every timer. *)
(* A caller that waits for room in the channel is served although others   *)
(* compete with it: senders blocked on a channel are queued first in,      *)
(* first out.  The worker's select chooses at random between a command and *)
(* the timer when both are ready, so neither is put off for ever.          *)
(***************************************************************************)
FairSpec == /\ Spec
            /\ \A c \in Callers : SF_vars(Proceed(c))
            /\ WF_vars(ReceiveCommand)
            /\ WF_vars(Timeout)
            /\ WF_vars(Transmit)
            /\ WF_vars(Tick)

-----------------------------------------------------------------------------
(* Properties.                                                             *)

\* Every SyncCommand is in exactly one place: the pool, the hands of one
\* caller, one slot of the channel or one key of the worker's map.  No
\* syncPool.Put of the worker gives away an object it or a caller still uses.
OneOwner ==
  /\ syncPool \union InHands \union InChannel \union InMap = Objs
  /\ \A o \in InHands : o \notin syncPool \union InChannel \union InMap
  /\ \A o \in InChannel : o \notin syncPool \union InMap
  /\ InMap \intersect syncPool = {}
  /\ \A c, d \in Callers : held[c] = held[d] => c = d \/ held[c] = NoObj
  /\ \A i, j \in DOMAIN syncChannel : syncChannel[i] = syncChannel[j] => i = j
  /\ \A k \in Keys : m[k] # NoObj => obj[m[k]].key = k

\* What each caller has counted and not yet sent, of the key and the window.
WaitingIn(k, x) ==
  [c \in Callers |-> IF pc[c] # "idle" /\ arg[c].key = k /\ arg[c].expiry = x
                       THEN arg[c].count ELSE 0]

\* What has been counted and is not yet flushed.
Pending(k, x) == SumFunctionOnSet(CountIn(obj, k, x), InChannel)
                   + SumFunctionOnSet(CountIn(obj, k, x), InMap)
                   + SumFunctionOnSet(WaitingIn(k, x), Callers)

\* What calls of a key counted in a window is in the hands of callers, in the
\* channel, in the worker's map, flushed, or discarded for another window:
\* aggregation loses nothing else and sends nothing twice (modulo 2^32).
Conservation ==
  \A k \in Keys, x \in 0 .. MaxWindow :
    (produced[k][x] - flushed[k][x] - discarded[k][x] - Pending(k, x))
      % (2 * (MaxInt32 + 1)) = 0

\* Between two iterations of the worker no key has more than
\* unsyncedCtrLimit unsynced counts, and no call that went over its limit
\* waits: its command, forced by dosync, has been flushed.
UnsyncedBounded ==
  \A k \in Keys : m[k] # NoObj => /\ obj[m[k]].count <= CtrLimit
                                  /\ ~obj[m[k]].force

\* README.md, line 7: the "local value is synchronized with other nodes".
\* The worker drops what it added up only for a command of a later window,
\* which makes the count worthless.
DiscardsOnlyOld ==
  [][\A k \in Keys, x \in 0 .. MaxWindow :
       discarded'[k][x] # discarded[k][x]
       => x < obj[Head(syncChannel)].expiry]_vars

\* README.md, line 17: the synchroniser "keeps aggregating counters in memory
\* and broadcast to other nodes".  What a sender transmits is what the worker
\* flushed.
SentIsWhatWasFlushed ==
  \A s \in senders : s.payload # NoBatch => s.payload = s.flushed

\* When calls cease, no caller stays blocked on the channel and whatever has
\* been counted is flushed: the worker's timer keeps firing although every
\* command, and every flush, resets it.
Drained == /\ \A c \in Callers : pc[c] = "idle"
           /\ syncChannel = << >>
           /\ InMap = {}

EventuallyDrained == ~Drained ~> Drained
=============================================================================
