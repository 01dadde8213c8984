-------------------------- MODULE StoreSyncProofs ---------------------------
(***************************************************************************)
(* Proofs about StoreSync: every SyncCommand has one owner, the worker's   *)
(* map keeps its limits, nothing counted is lost, and the state is typed,  *)
(* for every set of keys, callers, nodes and objects and every option of   *)
(* the store.                                                              *)
(*                                                                         *)
(* OneOwner is inductive together with the types of what the callers and   *)
(* the worker share (Shape).  UnsyncedBounded rests on it: a caller that   *)
(* writes into its command does not write into the worker's map.  So does  *)
(* Conservation: each step moves what one command counts between two of    *)
(* the places Pending adds up, which are disjoint.                         *)
(***************************************************************************)
EXTENDS StoreSync, QueueLemmas, NumberLemmas, TLAPS

Shape ==
  /\ window \in [Keys -> 0 .. MaxWindow]
  /\ obj \in [Objs -> Command]
  /\ arg \in [Callers -> Command]
  /\ syncPool \subseteq Objs
  /\ pc \in [Callers -> {"idle", "get", "fill", "send"}]
  /\ held \in [Callers -> Objs \union {NoObj}]
  /\ \A c \in Callers : held[c] = NoObj <=> pc[c] \in {"idle", "get"}
  /\ syncChannel \in Seq(Objs)
  /\ m \in [Keys -> Objs \union {NoObj}]

\* A fresh SyncCommand is a command.
LEMMA BlankType == Blank \in Command
<1>1. (CHOOSE k \in Keys : TRUE) \in Keys
  BY SyncAssumption
<1>2. 0 \in Int32 /\ 0 \in 0 .. MaxWindow
  BY Int32Assumption, SyncAssumption DEF Int32
<1> QED BY <1>1, <1>2 DEF Blank, Command

-----------------------------------------------------------------------------
(* The invariant.                                                          *)

\* Every object is in one of four places, and in one only.
Partition(pool, hands, channel, kept) ==
  /\ pool \union hands \union channel \union kept = Objs
  /\ hands \intersect (pool \union channel \union kept) = {}
  /\ channel \intersect (pool \union kept) = {}
  /\ kept \intersect pool = {}

Distinct(q) == \A i, j \in DOMAIN q : q[i] = q[j] => i = j

HandsDistinct ==
  \A c, d \in Callers : held[c] = held[d] => c = d \/ held[c] = NoObj

Values(map) == {map[k] : k \in Keys} \ {NoObj}

\* A map holds each command under its own key.
Keyed(map, contents) ==
  \A k \in Keys : map[k] # NoObj => contents[map[k]].key = k

\* What the worker keeps in a map is within its limits.
Bounded(map, contents) ==
  \A k \in Keys : map[k] # NoObj => /\ contents[map[k]].count <= CtrLimit
                                    /\ ~contents[map[k]].force

Inv == /\ Shape
       /\ Partition(syncPool, InHands, InChannel, InMap)
       /\ HandsDistinct
       /\ Distinct(syncChannel)
       /\ Keyed(m, obj)
       /\ Bounded(m, obj)

\* The parts of Inv are OneOwner and UnsyncedBounded.
LEMMA InvImplies == Inv => OneOwner /\ UnsyncedBounded
<1> SUFFICES ASSUME Inv PROVE OneOwner /\ UnsyncedBounded
  OBVIOUS
<1>1. /\ syncPool \union InHands \union InChannel \union InMap = Objs
      /\ \A o \in InHands : o \notin syncPool \union InChannel \union InMap
      /\ \A o \in InChannel : o \notin syncPool \union InMap
      /\ InMap \intersect syncPool = {}
  BY Zenon DEF Inv, Partition
<1>2. UnsyncedBounded
  BY DEF Inv, Bounded, UnsyncedBounded
<1> QED BY <1>1, <1>2 DEF Inv, OneOwner, HandsDistinct, Distinct, Keyed

\* The program starts with every object in the pool.
LEMMA InitInv == Init => Inv
<1> SUFFICES ASSUME Init PROVE Inv
  OBVIOUS
<1>1. Shape
  BY BlankType, SyncAssumption DEF Init, Shape
<1>2. InHands = {} /\ InMap = {} /\ InChannel = {}
  BY DEF Init, InHands, InMap, InChannel, ToSet
<1>3. Partition(syncPool, InHands, InChannel, InMap)
  BY <1>2 DEF Init, Partition
<1>4. HandsDistinct /\ Distinct(syncChannel)
  BY DEF Init, HandsDistinct, Distinct
<1>5. Keyed(m, obj) /\ Bounded(m, obj)
  BY DEF Init, Keyed, Bounded
<1> QED BY <1>1, <1>3, <1>4, <1>5 DEF Inv

\* A step that leaves the objects, the map, the pool, the channel and the
\* callers alone keeps the invariant.
LEMMA QuietStep ==
  ASSUME Inv, window' \in [Keys -> 0 .. MaxWindow],
         UNCHANGED <<obj, syncPool, pc, arg, held, syncChannel, m>>
  PROVE  Inv'
<1>1. Shape'
  BY DEF Inv, Shape
<1>2. InHands' = InHands /\ InMap' = InMap /\ InChannel' = InChannel
  BY DEF InHands, InMap, InChannel
<1> QED BY <1>1, <1>2 DEF Inv, Partition, HandsDistinct, Distinct, Keyed, Bounded

\* The end of an iteration of the worker keeps the invariant when the map and
\* the objects it has arrived at satisfy it, the limits included unless the
\* map is flushed now.
LEMMA FinishStep ==
  ASSUME Inv, NEW map \in [Keys -> Objs \union {NoObj}],
         NEW contents \in [Objs -> Command],
         NEW unused \in SUBSET Objs, NEW send \in BOOLEAN,
         Finish(map, contents, unused, send),
         UNCHANGED <<window, pc, arg, held>>,
         syncChannel' \in Seq(Objs),
         Distinct(syncChannel'),
         Partition(syncPool \union unused, InHands, InChannel', Values(map)),
         Keyed(map, contents),
         ~send => Bounded(map, contents)
  PROVE  Inv'
<1>1. InHands' = InHands /\ HandsDistinct'
  BY DEF Inv, InHands, HandsDistinct
<1>2. Values(map) \subseteq Objs
  BY DEF Values
<1>3. CASE send
  <2>1. /\ obj' = contents
        /\ m' = [k \in Keys |-> NoObj]
        /\ syncPool' = syncPool \union unused \union Values(map)
    BY <1>3, Zenon DEF Finish, Values
  <2>2. InMap' = {}
    BY <2>1 DEF InMap
  <2>3. Shape'
    BY <1>2, <2>1 DEF Inv, Shape
  <2>4. Partition(syncPool', InHands', InChannel', InMap')
    BY <1>1, <2>1, <2>2 DEF Partition
  <2>5. Keyed(m', obj') /\ Bounded(m', obj')
    BY <2>1 DEF Keyed, Bounded
  <2> QED BY <1>1, <2>3, <2>4, <2>5 DEF Inv, Partition, Distinct, Keyed, Bounded
<1>4. CASE ~send
  <2>1. /\ obj' = contents
        /\ m' = map
        /\ syncPool' = syncPool \union unused
    BY <1>4, Zenon DEF Finish
  <2>2. InMap' = Values(map)
    BY <2>1 DEF InMap, Values
  <2>3. Shape'
    BY <2>1 DEF Inv, Shape
  <2>4. Partition(syncPool', InHands', InChannel', InMap')
    BY <1>1, <2>1, <2>2 DEF Partition
  <2>5. Keyed(m', obj') /\ Bounded(m', obj')
    BY <1>4, <2>1 DEF Keyed, Bounded
  <2> QED BY <1>1, <2>3, <2>4, <2>5 DEF Inv, Partition, Distinct, Keyed, Bounded
<1> QED BY <1>3, <1>4

-----------------------------------------------------------------------------
(* The callers.                                                            *)

\* A caller whose call has been counted builds a well-typed command.
LEMMA IncrReturnsInv ==
  ASSUME Inv, NEW c \in Callers, NEW k \in Keys, NEW n \in Counts,
         NEW dosync \in BOOLEAN, IncrReturns(c, k, n, dosync)
  PROVE  Inv'
<1> DEFINE cmd == [key |-> k, count |-> n, expiry |-> window[k],
                   force |-> dosync]
<1>1. n \in Int32
  BY SyncAssumption, Int32Assumption DEF Int32
<1>2. cmd \in Command
  BY <1>1 DEF Inv, Shape, Command
<1>3. /\ pc[c] = "idle"
      /\ pc' = [pc EXCEPT ![c] = "get"]
      /\ arg' = [arg EXCEPT ![c] = cmd]
      /\ UNCHANGED <<window, obj, syncPool, held, syncChannel, m>>
  BY DEF IncrReturns
<1> HIDE DEF cmd
<1>4. Shape'
  BY <1>2, <1>3 DEF Inv, Shape
<1>5. InHands' = InHands /\ InMap' = InMap /\ InChannel' = InChannel
  BY <1>3 DEF InHands, InMap, InChannel
<1> QED
  BY <1>3, <1>4, <1>5
  DEF Inv, Partition, HandsDistinct, Distinct, Keyed, Bounded

\* Get moves an object from the pool into the hands of one caller.
LEMMA GetCommandInv ==
  ASSUME Inv, NEW c \in Callers, GetCommand(c)
  PROVE  Inv'
<1>1. PICK o \in syncPool : /\ held' = [held EXCEPT ![c] = o]
                            /\ syncPool' = syncPool \ {o}
  BY DEF GetCommand
<1>2. /\ pc[c] = "get"
      /\ pc' = [pc EXCEPT ![c] = "fill"]
      /\ UNCHANGED <<window, obj, arg, syncChannel, m>>
  BY DEF GetCommand
<1>3. o \in Objs /\ o # NoObj /\ held[c] = NoObj
  BY <1>2, SyncAssumption DEF Inv, Shape
<1>4. Shape'
  BY <1>1, <1>2, <1>3 DEF Inv, Shape
<1>5. InMap' = InMap /\ InChannel' = InChannel
  BY <1>2 DEF InMap, InChannel
<1>6. InHands' = InHands \union {o}
  BY <1>1, <1>3 DEF Inv, Shape, InHands
<1>7. Partition(syncPool', InHands', InChannel', InMap')
  BY <1>1, <1>5, <1>6 DEF Inv, Partition
<1>8. HandsDistinct'
  <2>1. \A d \in Callers : held[d] # o
    BY <1>1, <1>3 DEF Inv, Partition, InHands
  <2> QED BY <1>1, <2>1 DEF Inv, Shape, HandsDistinct
<1> QED
  BY <1>2, <1>4, <1>7, <1>8 DEF Inv, Partition, Distinct, Keyed, Bounded

\* A caller writes into the command it holds, never into the worker's map.
LEMMA FillCommandInv ==
  ASSUME Inv, NEW c \in Callers, FillCommand(c)
  PROVE  Inv'
<1>1. /\ pc[c] = "fill"
      /\ obj' = [obj EXCEPT ![held[c]] = arg[c]]
      /\ pc' = [pc EXCEPT ![c] = "send"]
      /\ UNCHANGED <<window, syncPool, arg, held, syncChannel, m>>
  BY DEF FillCommand
<1>2. held[c] # NoObj /\ held[c] \in Objs
  BY <1>1 DEF Inv, Shape
<1>3. Shape'
  BY <1>1, <1>2 DEF Inv, Shape
<1>4. InHands' = InHands /\ InMap' = InMap /\ InChannel' = InChannel
  BY <1>1 DEF InHands, InMap, InChannel
<1>5. \A k \in Keys : m[k] # NoObj => obj'[m[k]] = obj[m[k]]
  <2>1. held[c] \notin InMap
    BY <1>2 DEF Inv, Partition, InHands
  <2>2. \A k \in Keys : m[k] # NoObj => m[k] \in Objs /\ m[k] # held[c]
    BY <2>1 DEF Inv, Shape, InMap
  <2> QED BY <1>1, <1>2, <2>2 DEF Inv, Shape
<1>6. Keyed(m', obj') /\ Bounded(m', obj')
  BY <1>1, <1>5 DEF Inv, Keyed, Bounded
<1> QED
  BY <1>1, <1>3, <1>4, <1>6
  DEF Inv, Partition, HandsDistinct, Distinct, Keyed, Bounded

\* Sending moves the command from the caller into one slot of the channel.
LEMMA SendCommandInv ==
  ASSUME Inv, NEW c \in Callers, SendCommand(c)
  PROVE  Inv'
<1>1. /\ pc[c] = "send"
      /\ syncChannel' = Append(syncChannel, held[c])
      /\ held' = [held EXCEPT ![c] = NoObj]
      /\ pc' = [pc EXCEPT ![c] = "idle"]
      /\ arg' = [arg EXCEPT ![c] = Blank]
      /\ UNCHANGED <<window, obj, syncPool, m>>
  BY DEF SendCommand
<1>2. held[c] # NoObj /\ held[c] \in Objs /\ held[c] \in InHands
  BY <1>1 DEF Inv, Shape, InHands
<1>3. held[c] \notin InChannel
  BY <1>2 DEF Inv, Partition
<1>4. /\ syncChannel' \in Seq(Objs)
      /\ InChannel' = InChannel \union {held[c]}
      /\ Distinct(syncChannel')
  BY <1>1, <1>2, <1>3, AppendOwner DEF Inv, Shape, InChannel, Distinct
<1>5. Shape'
  BY <1>1, <1>4, BlankType DEF Inv, Shape
<1>6. InMap' = InMap
  BY <1>1 DEF InMap
<1>7. \A d \in Callers : d # c => held'[d] = held[d] /\ held[d] # held[c]
  BY <1>1, <1>2 DEF Inv, Shape, HandsDistinct
<1>8. InHands' = InHands \ {held[c]}
  BY <1>1, <1>2, <1>7 DEF Inv, Shape, InHands
<1>9. HandsDistinct'
  BY <1>1, <1>7 DEF Inv, Shape, HandsDistinct
<1>10. Partition(syncPool', InHands', InChannel', InMap')
  BY <1>1, <1>2, <1>4, <1>6, <1>8 DEF Inv, Partition
<1> QED
  BY <1>1, <1>4, <1>5, <1>9, <1>10
  DEF Inv, Partition, Distinct, Keyed, Bounded

-----------------------------------------------------------------------------
(* The worker.                                                             *)

\* The sum of two counts is an int32.
LEMMA SumType ==
  ASSUME NEW a \in Int32, NEW b \in Int32
  PROVE  AddInt32(a, b) \in Int32
BY Int32Assumption DEF AddInt32, Int32

\* The object the worker receives was in the channel, and is nowhere else.
LEMMA ReceiveEffect ==
  ASSUME Inv, NEW o \in Objs, Receive(o)
  PROVE  /\ syncChannel' \in Seq(Objs)
         /\ Distinct(syncChannel')
         /\ o \in InChannel
         /\ InChannel' = InChannel \ {o}
         /\ UNCHANGED <<window, pc, arg, held>>
         /\ \A k \in Keys : m[k] # o
         /\ o # NoObj
         /\ obj[o] \in Command
<1>1. /\ syncChannel # << >>
      /\ o = Head(syncChannel)
      /\ syncChannel' = Tail(syncChannel)
      /\ UNCHANGED <<window, pc, arg, held>>
  BY DEF Receive
<1>2. /\ syncChannel' \in Seq(Objs)
      /\ Distinct(syncChannel')
      /\ o \in InChannel
      /\ InChannel' = InChannel \ {o}
  BY <1>1, TailOwner DEF Inv, Shape, InChannel, Distinct
<1>3. o # NoObj
  BY SyncAssumption
<1>4. \A k \in Keys : m[k] # o
  BY <1>2, <1>3 DEF Inv, Partition, InMap
<1> QED BY <1>1, <1>2, <1>3, <1>4 DEF Inv, Shape

\* MustSend is a Boolean, and what it does not send is within the limits.
LEMMA NotSent ==
  ASSUME NEW cmd \in Command, NEW total \in Int32
  PROVE  /\ MustSend(cmd, total) \in BOOLEAN
         /\ ~MustSend(cmd, total) => total <= CtrLimit /\ ~cmd.force
<1>1. cmd.force \in BOOLEAN
  BY DEF Command
<1>2. total \in Int /\ CtrLimit \in Int
  BY SyncAssumption, Int32Assumption DEF Int32
<1> QED BY <1>1, <1>2 DEF MustSend

\* A command of a key that is not in the map moves from the channel into it.
LEMMA ReceiveNewInv ==
  ASSUME Inv, NEW o \in Objs, ReceiveNew(o)
  PROVE  Inv'
<1> DEFINE k == obj[o].key
           map == [m EXCEPT ![k] = o]
           send == MustSend(obj[o], obj[o].count)
<1>1. Receive(o) /\ m[k] = NoObj /\ Finish(map, obj, {}, send)
  BY Zenon DEF ReceiveNew
<1>2. /\ syncChannel' \in Seq(Objs)
      /\ Distinct(syncChannel')
      /\ o \in InChannel
      /\ InChannel' = InChannel \ {o}
      /\ UNCHANGED <<window, pc, arg, held>>
      /\ \A j \in Keys : m[j] # o
      /\ o # NoObj
      /\ obj[o] \in Command
  BY <1>1, ReceiveEffect
<1>3. k \in Keys /\ obj[o].count \in Int32
  BY <1>2 DEF Command
<1>4. send \in BOOLEAN /\ (~send => obj[o].count <= CtrLimit /\ ~obj[o].force)
  BY <1>2, <1>3, NotSent
<1>5. /\ obj \in [Objs -> Command]
      /\ m \in [Keys -> Objs \union {NoObj}]
      /\ map \in [Keys -> Objs \union {NoObj}]
  BY <1>3 DEF Inv, Shape
<1>6. /\ map[k] = o
      /\ \A j \in Keys : j # k => map[j] = m[j]
  BY <1>3, <1>5
<1>7. obj[o].key = k
  OBVIOUS
<1> HIDE DEF k, map, send
<1>8. Values(map) = InMap \union {o}
  BY <1>1, <1>2, <1>3, <1>6 DEF Values, InMap
<1>9. Partition(syncPool \union {}, InHands, InChannel', Values(map))
  BY <1>2, <1>8 DEF Inv, Partition
<1>10. Keyed(map, obj)
  BY <1>3, <1>6, <1>7 DEF Inv, Keyed
<1>11. ~send => Bounded(map, obj)
  BY <1>3, <1>4, <1>6 DEF Inv, Bounded
<1> QED BY <1>1, <1>2, <1>4, <1>5, <1>9, <1>10, <1>11, FinishStep

\* A command of the same window is added to the one in the map and returned.
LEMMA ReceiveSameInv ==
  ASSUME Inv, NEW o \in Objs, ReceiveSame(o)
  PROVE  Inv'
<1> DEFINE k == obj[o].key
           total == AddInt32(obj[m[k]].count, obj[o].count)
           contents == [obj EXCEPT ![m[k]].count = total]
           send == MustSend(obj[o], total)
<1>1. Receive(o) /\ m[k] # NoObj /\ Finish(m, contents, {o}, send)
  BY Zenon DEF ReceiveSame
<1>2. /\ syncChannel' \in Seq(Objs)
      /\ Distinct(syncChannel')
      /\ o \in InChannel
      /\ InChannel' = InChannel \ {o}
      /\ UNCHANGED <<window, pc, arg, held>>
      /\ \A j \in Keys : m[j] # o
      /\ o # NoObj
      /\ obj[o] \in Command
  BY <1>1, ReceiveEffect
<1>3. /\ obj \in [Objs -> Command]
      /\ m \in [Keys -> Objs \union {NoObj}]
  BY DEF Inv, Shape
<1>4. k \in Keys /\ obj[o].count \in Int32
  BY <1>2 DEF Command
<1>5. m[k] \in Objs /\ obj[m[k]] \in Command
  BY <1>1, <1>3, <1>4
<1>6. total \in Int32
  BY <1>4, <1>5, SumType DEF Command
<1>7. send \in BOOLEAN /\ (~send => total <= CtrLimit)
  BY <1>2, <1>6, NotSent
<1>8. [obj[m[k]] EXCEPT !.count = total] \in Command
  BY <1>5, <1>6 DEF Command
<1>9. /\ contents \in [Objs -> Command]
      /\ contents[m[k]].key = obj[m[k]].key
      /\ contents[m[k]].count = total
      /\ contents[m[k]].force = obj[m[k]].force
      /\ \A p \in Objs : p # m[k] => contents[p] = obj[p]
  <2> HIDE DEF total
  <2> QED BY <1>3, <1>5, <1>8 DEF Command
<1> HIDE DEF k, total, contents, send
<1>10. \A j \in Keys : j # k /\ m[j] # NoObj => contents[m[j]] = obj[m[j]]
  <2>1. \A j \in Keys : j # k /\ m[j] # NoObj => m[j] # m[k] /\ m[j] \in Objs
    BY <1>1, <1>3, <1>4 DEF Inv, Keyed
  <2> QED BY <1>9, <2>1
<1>11. Values(m) = InMap
  BY DEF Values, InMap
<1>12. Partition(syncPool \union {o}, InHands, InChannel', Values(m))
  BY <1>2, <1>11 DEF Inv, Partition
<1>13. Keyed(m, contents)
  BY <1>1, <1>4, <1>9, <1>10 DEF Inv, Keyed
<1>14. ~send => Bounded(m, contents)
  BY <1>1, <1>4, <1>7, <1>9, <1>10 DEF Inv, Bounded
<1> QED BY <1>1, <1>2, <1>3, <1>7, <1>9, <1>12, <1>13, <1>14, FinishStep

\* A command of another window takes the place of the one in the map, which is
\* returned.
LEMMA ReceiveOtherInv ==
  ASSUME Inv, NEW o \in Objs, ReceiveOther(o)
  PROVE  Inv'
<1> DEFINE k == obj[o].key
           map == [m EXCEPT ![k] = o]
           send == MustSend(obj[o], obj[o].count)
<1>1. Receive(o) /\ m[k] # NoObj /\ Finish(map, obj, {m[k]}, send)
  BY Zenon DEF ReceiveOther
<1>2. /\ syncChannel' \in Seq(Objs)
      /\ Distinct(syncChannel')
      /\ o \in InChannel
      /\ InChannel' = InChannel \ {o}
      /\ UNCHANGED <<window, pc, arg, held>>
      /\ \A j \in Keys : m[j] # o
      /\ o # NoObj
      /\ obj[o] \in Command
  BY <1>1, ReceiveEffect
<1>3. k \in Keys /\ obj[o].count \in Int32
  BY <1>2 DEF Command
<1>4. send \in BOOLEAN /\ (~send => obj[o].count <= CtrLimit /\ ~obj[o].force)
  BY <1>2, <1>3, NotSent
<1>5. /\ obj \in [Objs -> Command]
      /\ m \in [Keys -> Objs \union {NoObj}]
      /\ map \in [Keys -> Objs \union {NoObj}]
      /\ m[k] \in Objs
  BY <1>1, <1>3 DEF Inv, Shape
<1>6. /\ map[k] = o
      /\ \A j \in Keys : j # k => map[j] = m[j]
  BY <1>3, <1>5
<1>7. obj[o].key = k
  OBVIOUS
<1> HIDE DEF k, map, send
<1>8. \A j \in Keys : j # k /\ m[j] # NoObj => m[j] # m[k]
  BY <1>1, <1>3 DEF Inv, Keyed
<1>9. Values(map) = (InMap \ {m[k]}) \union {o} /\ m[k] \in InMap
  BY <1>1, <1>2, <1>3, <1>6, <1>8 DEF Values, InMap
<1>10. Partition(syncPool \union {m[k]}, InHands, InChannel', Values(map))
  BY <1>2, <1>9 DEF Inv, Partition
<1>11. Keyed(map, obj)
  BY <1>3, <1>6, <1>7 DEF Inv, Keyed
<1>12. ~send => Bounded(map, obj)
  BY <1>3, <1>4, <1>6 DEF Inv, Bounded
<1>13. {m[k]} \in SUBSET Objs
  BY <1>5
<1> QED
  BY <1>1, <1>2, <1>4, <1>5, <1>10, <1>11, <1>12, <1>13, FinishStep

\* The timer's flush empties the map into the pool.
LEMMA TimeoutInv ==
  ASSUME Inv, Timeout
  PROVE  Inv'
<1>1. /\ Finish(m, obj, {}, TRUE)
      /\ UNCHANGED <<window, pc, arg, held, syncChannel>>
  BY Zenon DEF Timeout
<1>2. /\ m \in [Keys -> Objs \union {NoObj}]
      /\ obj \in [Objs -> Command]
      /\ syncChannel' \in Seq(Objs)
      /\ Distinct(syncChannel')
      /\ Keyed(m, obj)
  BY <1>1 DEF Inv, Shape, Distinct
<1>3. Values(m) = InMap /\ InChannel' = InChannel
  BY <1>1 DEF Values, InMap, InChannel
<1>4. Partition(syncPool \union {}, InHands, InChannel', Values(m))
  BY <1>3 DEF Inv, Partition
<1>5. {} \in SUBSET Objs /\ TRUE \in BOOLEAN
  OBVIOUS
<1> QED BY <1>1, <1>2, <1>4, <1>5, FinishStep

-----------------------------------------------------------------------------
(* The theorems.                                                           *)

\* Every step of the synchroniser keeps the invariant.
LEMMA NextInv ==
  ASSUME Inv, [Next]_vars
  PROVE  Inv'
<1>1. ASSUME NEW c \in Callers, NEW k \in Keys, NEW n \in Counts,
             NEW dosync \in BOOLEAN, IncrReturns(c, k, n, dosync)
      PROVE  Inv'
  BY <1>1, IncrReturnsInv
<1>2. ASSUME NEW c \in Callers, Proceed(c)
      PROVE  Inv'
  BY <1>2, GetCommandInv, FillCommandInv, SendCommandInv DEF Proceed
<1>3. CASE ReceiveCommand
  BY <1>3, ReceiveNewInv, ReceiveSameInv, ReceiveOtherInv DEF ReceiveCommand
<1>4. CASE Timeout
  BY <1>4, TimeoutInv
<1>5. CASE Transmit
  <2>1. UNCHANGED <<window, obj, syncPool, pc, arg, held, syncChannel, m>>
    BY <1>5, Zenon DEF Transmit, Serialize, Forwarded
  <2> QED BY <2>1, QuietStep DEF Inv, Shape
<1>6. ASSUME NEW k \in Keys, NewWindow(k)
      PROVE  Inv'
  <2>1. window' \in [Keys -> 0 .. MaxWindow]
    BY <1>6, SyncAssumption DEF NewWindow, Inv, Shape
  <2> QED BY <1>6, <2>1, QuietStep DEF NewWindow
<1>7. CASE Tick
  BY <1>7, QuietStep DEF Tick, Inv, Shape
<1>8. CASE UNCHANGED vars
  BY <1>8, QuietStep DEF vars, Inv, Shape
<1> QED
  BY <1>1, <1>2, <1>3, <1>4, <1>5, <1>6, <1>7, <1>8, Zenon DEF Next

\* Every SyncCommand of the program is at all times in the pool, in the hands
\* of one caller, in one slot of the channel or under its own key of the
\* worker's map, and in one of them only.
THEOREM OwnerHolds == Spec => []OneOwner
<1>1. Init => Inv
  BY InitInv
<1>2. Inv /\ [Next]_vars => Inv'
  BY NextInv
<1>3. Inv => OneOwner
  BY InvImplies
<1> QED BY <1>1, <1>2, <1>3, PTL DEF Spec

\* Between two iterations of the worker no command in its map is over
\* unsyncedCtrLimit or forced by dosync.
THEOREM BoundedHolds == Spec => []UnsyncedBounded
<1>1. Init => Inv
  BY InitInv
<1>2. Inv /\ [Next]_vars => Inv'
  BY NextInv
<1>3. Inv => UnsyncedBounded
  BY InvImplies
<1> QED BY <1>1, <1>2, <1>3, PTL DEF Spec
-----------------------------------------------------------------------------
(* Conservation: nothing counted is lost or sent twice.                    *)

Ledger == [Keys -> [0 .. MaxWindow -> Int]]

\* The history is typed, and a caller that sends has written its command.
BookInv == /\ produced \in Ledger /\ flushed \in Ledger /\ discarded \in Ledger
           /\ \A c \in Callers : pc[c] = "send" => obj[held[c]] = arg[c]

\* Where the counts of a key and a window are.
OnChannel(k, x) == SumFunctionOnSet(CountIn(obj, k, x), InChannel)
OnMap(k, x) == SumFunctionOnSet(CountIn(obj, k, x), InMap)
OnCallers(k, x) == SumFunctionOnSet(WaitingIn(k, x), Callers)

Balance(k, x) == produced[k][x] - flushed[k][x] - discarded[k][x]
                   - (OnChannel(k, x) + OnMap(k, x) + OnCallers(k, x))

\* What a command counts of a key and a window.
Part(c, k, x) == IF c.key = k /\ c.expiry = x THEN c.count ELSE 0

\* A command counts an integer.
LEMMA PartType ==
  ASSUME NEW c \in Command, NEW k, NEW x
  PROVE  Part(c, k, x) \in Int
BY Int32Assumption DEF Part, Command, Int32

\* Booking a command adds what it counts.
LEMMA BookEffect ==
  ASSUME NEW ledger \in Ledger, NEW c \in Command
  PROVE  /\ Book(ledger, c) \in Ledger
         /\ \A k \in Keys, x \in 0 .. MaxWindow :
              Book(ledger, c)[k][x] = ledger[k][x] + Part(c, k, x)
<1>1. c.key \in Keys /\ c.expiry \in 0 .. MaxWindow /\ c.count \in Int
  BY Int32Assumption DEF Command, Int32
<1>2. Book(ledger, c) \in Ledger
  <2>1. ledger[c.key] \in [0 .. MaxWindow -> Int]
    BY <1>1 DEF Ledger
  <2>2. [ledger[c.key] EXCEPT ![c.expiry] = @ + c.count] \in [0 .. MaxWindow -> Int]
    <3>1. ledger[c.key][c.expiry] + c.count \in Int
      <4>1. ledger[c.key][c.expiry] \in Int
        BY <1>1, <2>1, Zenon
      <4> QED BY <1>1, <4>1
    <3> QED BY <2>1, <3>1, Zenon
  <2> QED BY <1>1, <2>2, Zenon DEF Book, Ledger
<1>3. ASSUME NEW k \in Keys, NEW x \in 0 .. MaxWindow
      PROVE  Book(ledger, c)[k][x] = ledger[k][x] + Part(c, k, x)
  <2>1. ledger[k][x] \in Int
    BY DEF Ledger
  <2>2. CASE c.key = k /\ c.expiry = x
    BY <1>1, <2>2 DEF Book, Ledger, Part
  <2>3. CASE ~(c.key = k /\ c.expiry = x)
    BY <1>1, <2>1, <2>3 DEF Book, Ledger, Part
  <2> QED BY <2>2, <2>3
<1> QED BY <1>2, <1>3

\* The counts of some objects add up to an integer.
LEMMA CountType ==
  ASSUME NEW contents \in [Objs -> Command], NEW k, NEW x, NEW S \in SUBSET Objs
  PROVE  /\ IsFiniteSet(S)
         /\ \A o \in S : /\ CountIn(contents, k, x)[o] = Part(contents[o], k, x)
                         /\ CountIn(contents, k, x)[o] \in Int
         /\ SumFunctionOnSet(CountIn(contents, k, x), S) \in Int
<1>1. IsFiniteSet(S)
  BY SyncAssumption, FS_Subset
<1>2. \A o \in S : CountIn(contents, k, x)[o] = Part(contents[o], k, x)
  BY DEF CountIn, Part
<1>3. \A o \in S : CountIn(contents, k, x)[o] \in Int
  BY <1>2, PartType
<1> QED BY <1>1, <1>2, <1>3, SumInt

\* One object less ...
LEMMA CountOut ==
  ASSUME NEW contents \in [Objs -> Command], NEW k, NEW x,
         NEW S \in SUBSET Objs, NEW o \in S
  PROVE  /\ SumFunctionOnSet(CountIn(contents, k, x), S) =
              SumFunctionOnSet(CountIn(contents, k, x), S \ {o})
                + Part(contents[o], k, x)
         /\ SumFunctionOnSet(CountIn(contents, k, x), S \ {o}) \in Int
<1>1. /\ IsFiniteSet(S)
      /\ \A p \in S : /\ CountIn(contents, k, x)[p] = Part(contents[p], k, x)
                      /\ CountIn(contents, k, x)[p] \in Int
  BY CountType
<1>2. SumFunctionOnSet(CountIn(contents, k, x), S) =
        SumFunctionOnSet(CountIn(contents, k, x), S \ {o})
          + CountIn(contents, k, x)[o]
  BY <1>1, SumRemove
<1>3. S \ {o} \in SUBSET Objs
  OBVIOUS
<1> QED BY <1>1, <1>2, <1>3, CountType

\* ... and one more.
LEMMA CountAnother ==
  ASSUME NEW contents \in [Objs -> Command], NEW k, NEW x,
         NEW S \in SUBSET Objs, NEW o \in Objs, o \notin S
  PROVE  SumFunctionOnSet(CountIn(contents, k, x), S \union {o}) =
           SumFunctionOnSet(CountIn(contents, k, x), S)
             + Part(contents[o], k, x)
<1>1. (S \union {o}) \in SUBSET Objs /\ o \in S \union {o}
  OBVIOUS
<1>2. (S \union {o}) \ {o} = S
  OBVIOUS
<1> QED BY <1>1, <1>2, CountOut

\* What callers at p, with arguments a, have counted and not yet sent.
Waits(p, a, k, x) ==
  [c \in Callers |-> IF p[c] # "idle" /\ a[c].key = k /\ a[c].expiry = x
                       THEN a[c].count ELSE 0]

\* The counts of the callers add up to an integer.
LEMMA CallersType ==
  ASSUME NEW p, NEW a \in [Callers -> Command], NEW k, NEW x
  PROVE  /\ \A c \in Callers :
              /\ Waits(p, a, k, x)[c] =
                   IF p[c] = "idle" THEN 0 ELSE Part(a[c], k, x)
              /\ Waits(p, a, k, x)[c] \in Int
         /\ SumFunctionOnSet(Waits(p, a, k, x), Callers) \in Int
<1>1. ASSUME NEW c \in Callers
      PROVE  /\ Waits(p, a, k, x)[c] =
                  IF p[c] = "idle" THEN 0 ELSE Part(a[c], k, x)
             /\ Waits(p, a, k, x)[c] \in Int
  <2>1. Waits(p, a, k, x)[c] = IF p[c] = "idle" THEN 0 ELSE Part(a[c], k, x)
    BY DEF Waits, Part
  <2>2. Part(a[c], k, x) \in Int
    BY PartType
  <2> QED BY <2>1, <2>2
<1> QED BY <1>1, SyncAssumption, SumInt

\* Only the caller c changes its place and its argument.
OnlyMoves(c, p, a, q, b) ==
  \A d \in Callers : d # c => p[d] = q[d] /\ a[d] = b[d]

\* One caller's place and argument change, and with them what it waits with.
LEMMA CallerMoves ==
  ASSUME NEW p, NEW q, NEW a \in [Callers -> Command],
         NEW b \in [Callers -> Command], NEW c \in Callers, NEW k, NEW x,
         OnlyMoves(c, p, a, q, b)
  PROVE  SumFunctionOnSet(Waits(q, b, k, x), Callers) =
           SumFunctionOnSet(Waits(p, a, k, x), Callers)
             - Waits(p, a, k, x)[c] + Waits(q, b, k, x)[c]
<1>1. \A d \in Callers : Waits(p, a, k, x)[d] \in Int /\ Waits(q, b, k, x)[d] \in Int
  BY CallersType
<1>2. \A d \in Callers : d # c => Waits(q, b, k, x)[d] = Waits(p, a, k, x)[d]
  BY DEF Waits, OnlyMoves
<1> QED BY <1>1, <1>2, SyncAssumption, SumChange

\* The places hold objects, and all that is counted is an integer.
LEMMA BalanceType ==
  ASSUME Inv, BookInv, NEW k \in Keys, NEW x \in 0 .. MaxWindow
  PROVE  /\ InChannel \subseteq Objs /\ InMap \subseteq Objs
         /\ InHands \subseteq Objs
         /\ OnChannel(k, x) \in Int /\ OnMap(k, x) \in Int
         /\ OnCallers(k, x) \in Int
         /\ produced[k][x] \in Int /\ flushed[k][x] \in Int
         /\ discarded[k][x] \in Int
         /\ Balance(k, x) \in Int
<1>1. Shape /\ obj \in [Objs -> Command]
  BY DEF Inv, Shape
<1>2. InChannel \subseteq Objs /\ InMap \subseteq Objs /\ InHands \subseteq Objs
  BY <1>1 DEF Shape, InChannel, InMap, InHands, ToSet
<1>3. OnChannel(k, x) \in Int /\ OnMap(k, x) \in Int
  BY <1>1, <1>2, CountType DEF OnChannel, OnMap
<1>4. OnCallers(k, x) \in Int
  <2>1. WaitingIn(k, x) = Waits(pc, arg, k, x)
    BY DEF WaitingIn, Waits
  <2> QED BY <1>1, <2>1, CallersType DEF Shape, OnCallers
<1>5. /\ produced[k][x] \in Int /\ flushed[k][x] \in Int
      /\ discarded[k][x] \in Int
  BY DEF BookInv, Ledger
<1> QED BY <1>2, <1>3, <1>4, <1>5 DEF Balance

\* The worker's flush moves counts from the map to the history, and at its end
\* they add up to what the map held before.
LEMMA FinishBook ==
  ASSUME BookInv, NEW map \in [Keys -> Objs \union {NoObj}],
         NEW contents \in [Objs -> Command],
         NEW unused, NEW send \in BOOLEAN,
         Finish(map, contents, unused, send)
  PROVE  /\ flushed' \in Ledger
         /\ \A k \in Keys, x \in 0 .. MaxWindow :
              flushed'[k][x] + OnMap(k, x)' =
                flushed[k][x]
                  + SumFunctionOnSet(CountIn(contents, k, x), Values(map))
<1>1. Values(map) \subseteq Objs
  BY DEF Values
<1> DEFINE batch == IF send THEN Values(map) ELSE {}
<1>2. /\ obj' = contents
      /\ m' = IF send THEN [k \in Keys |-> NoObj] ELSE map
      /\ flushed' = [k \in Keys |-> [x \in 0 .. MaxWindow |->
           flushed[k][x] + SumFunctionOnSet(CountIn(contents, k, x), batch)]]
  BY Zenon DEF Finish, Values
<1>3. InMap' = IF send THEN {} ELSE Values(map)
  BY <1>2 DEF InMap, Values
<1>4. batch \subseteq Objs
  BY <1>1
<1>5. \A k \in Keys, x \in 0 .. MaxWindow :
        SumFunctionOnSet(CountIn(contents, k, x), batch) \in Int
  BY <1>4, CountType
<1>5a. \A k \in Keys, x \in 0 .. MaxWindow : flushed[k][x] \in Int
  <2>1. flushed \in Ledger
    BY Zenon DEF BookInv
  <2> HIDE DEF batch
  <2> QED BY <2>1 DEF Ledger
<1>6. flushed' \in Ledger
  <2> HIDE DEF batch
  <2>1. \A k \in Keys, x \in 0 .. MaxWindow :
          flushed[k][x] + SumFunctionOnSet(CountIn(contents, k, x), batch) \in Int
    <3> SUFFICES ASSUME NEW k \in Keys, NEW x \in 0 .. MaxWindow
                 PROVE  flushed[k][x]
                          + SumFunctionOnSet(CountIn(contents, k, x), batch) \in Int
      OBVIOUS
    <3> QED BY <1>5, <1>5a
  <2> QED BY <1>2, <2>1, Zenon DEF Ledger
<1>7. ASSUME NEW k \in Keys, NEW x \in 0 .. MaxWindow
      PROVE  flushed'[k][x] + OnMap(k, x)' =
               flushed[k][x]
                 + SumFunctionOnSet(CountIn(contents, k, x), Values(map))
  <2>1. flushed'[k][x] =
          flushed[k][x] + SumFunctionOnSet(CountIn(contents, k, x), batch)
    BY <1>2
  <2>2. OnMap(k, x)' = SumFunctionOnSet(CountIn(contents, k, x), InMap')
    BY <1>2 DEF OnMap, CountIn
  <2>3. flushed[k][x] \in Int
    BY <1>5a
  <2>4. SumFunctionOnSet(CountIn(contents, k, x), Values(map)) \in Int
    BY <1>1, CountType
  <2>5. CASE send
    BY <1>3, <2>1, <2>2, <2>3, <2>4, <2>5, SumEmpty
  <2>6. CASE ~send
    BY <1>3, <2>1, <2>2, <2>3, <2>4, <2>6, SumEmpty
  <2> QED BY <2>5, <2>6
<1> QED BY <1>6, <1>7

\* A step that leaves the commands, the places and the history alone keeps the
\* balance, if no caller becomes idle or busy and none goes on to send.
LEMMA QuietBook ==
  ASSUME BookInv,
         UNCHANGED <<obj, arg, syncChannel, m, history>>,
         \A c \in Callers :
           /\ pc'[c] = "idle" <=> pc[c] = "idle"
           /\ pc'[c] = "send" => pc[c] = "send" /\ held'[c] = held[c],
         NEW k, NEW x
  PROVE  BookInv' /\ Balance(k, x)' = Balance(k, x)
<1>1. BookInv'
  BY DEF BookInv, history
<1>2. WaitingIn(k, x)' = WaitingIn(k, x)
  BY DEF WaitingIn
<1>3. InChannel' = InChannel /\ InMap' = InMap
  BY DEF InChannel, InMap
<1>4. OnCallers(k, x)' = OnCallers(k, x)
  BY <1>2 DEF OnCallers
<1>5. CountIn(obj, k, x)' = CountIn(obj, k, x)
  BY DEF CountIn
<1>6. OnChannel(k, x)' = OnChannel(k, x) /\ OnMap(k, x)' = OnMap(k, x)
  BY <1>3, <1>5 DEF OnChannel, OnMap
<1> QED BY <1>1, <1>4, <1>6 DEF Balance, history

\* A counted call is in the hands of its caller.
LEMMA IncrReturnsBook ==
  ASSUME Inv, BookInv, NEW c \in Callers, NEW j \in Keys, NEW n \in Counts,
         NEW dosync \in BOOLEAN, IncrReturns(c, j, n, dosync),
         NEW k \in Keys, NEW x \in 0 .. MaxWindow
  PROVE  BookInv' /\ Balance(k, x)' = Balance(k, x)
<1> DEFINE cmd == [key |-> j, count |-> n, expiry |-> window[j],
                   force |-> dosync]
<1>1. n \in Int32
  BY SyncAssumption, Int32Assumption DEF Int32
<1>2. cmd \in Command
  BY <1>1 DEF Inv, Shape, Command
<1>3. /\ pc[c] = "idle"
      /\ pc' = [pc EXCEPT ![c] = "get"]
      /\ arg' = [arg EXCEPT ![c] = cmd]
      /\ produced' = Book(produced, cmd)
      /\ UNCHANGED <<obj, held, syncChannel, m, flushed, discarded>>
  BY DEF IncrReturns
<1> HIDE DEF cmd
<1>4. /\ pc \in [Callers -> {"idle", "get", "fill", "send"}]
      /\ arg \in [Callers -> Command]
      /\ arg' \in [Callers -> Command]
  BY <1>2, <1>3 DEF Inv, Shape
<1>5. produced' \in Ledger /\ produced'[k][x] = produced[k][x] + Part(cmd, k, x)
  BY <1>2, <1>3, BookEffect DEF BookInv
<1>6. BookInv'
  <2>1. \A d \in Callers : pc'[d] = "send" => d # c /\ pc[d] = "send"
    BY <1>3, <1>4
  <2>2. \A d \in Callers : pc'[d] = "send" => obj'[held'[d]] = arg'[d]
    BY <1>3, <1>4, <2>1 DEF BookInv
  <2> QED BY <1>3, <1>5, <2>2 DEF BookInv
<1>7. OnCallers(k, x)' = OnCallers(k, x) + Part(cmd, k, x)
  <2>1. /\ WaitingIn(k, x) = Waits(pc, arg, k, x)
        /\ WaitingIn(k, x)' = Waits(pc', arg', k, x)
    BY DEF WaitingIn, Waits
  <2>2. OnlyMoves(c, pc, arg, pc', arg')
    BY <1>3, <1>4 DEF OnlyMoves
  <2>3. pc'[c] = "get" /\ arg'[c] = cmd
    BY <1>3, <1>4
  <2>4. /\ Waits(pc, arg, k, x)[c] = 0
        /\ Waits(pc', arg', k, x)[c] = Part(cmd, k, x)
    <3>1. Waits(pc, arg, k, x)[c] =
            IF pc[c] = "idle" THEN 0 ELSE Part(arg[c], k, x)
      BY <1>4, CallersType
    <3>2. Waits(pc', arg', k, x)[c] =
            IF pc'[c] = "idle" THEN 0 ELSE Part(arg'[c], k, x)
      BY <1>4, CallersType
    <3> QED BY <1>3, <2>3, <3>1, <3>2
  <2>5. SumFunctionOnSet(Waits(pc', arg', k, x), Callers) =
          SumFunctionOnSet(Waits(pc, arg, k, x), Callers)
            - Waits(pc, arg, k, x)[c] + Waits(pc', arg', k, x)[c]
    BY <1>4, <2>2, CallerMoves
  <2>6. SumFunctionOnSet(Waits(pc, arg, k, x), Callers) \in Int
    BY <1>4, CallersType
  <2>7. Part(cmd, k, x) \in Int
    BY <1>2, PartType
  <2> QED BY <2>1, <2>4, <2>5, <2>6, <2>7 DEF OnCallers
<1>8. OnChannel(k, x)' = OnChannel(k, x) /\ OnMap(k, x)' = OnMap(k, x)
  BY <1>3 DEF OnChannel, OnMap, CountIn, InChannel, InMap
<1>9. /\ flushed'[k][x] = flushed[k][x] /\ discarded'[k][x] = discarded[k][x]
      /\ Part(cmd, k, x) \in Int
  BY <1>2, <1>3, PartType
<1>10. Balance(k, x)' = Balance(k, x)
  <2>1. /\ OnChannel(k, x) \in Int /\ OnMap(k, x) \in Int
        /\ OnCallers(k, x) \in Int
        /\ produced[k][x] \in Int /\ flushed[k][x] \in Int
        /\ discarded[k][x] \in Int
    BY BalanceType
  <2> QED BY <1>5, <1>7, <1>8, <1>9, <2>1 DEF Balance
<1> QED BY <1>6, <1>10

\* Getting a command from the pool counts nothing.
LEMMA GetCommandBook ==
  ASSUME Inv, BookInv, NEW c \in Callers, GetCommand(c),
         NEW k \in Keys, NEW x \in 0 .. MaxWindow
  PROVE  BookInv' /\ Balance(k, x)' = Balance(k, x)
<1>1. PICK o \in syncPool : held' = [held EXCEPT ![c] = o]
  BY DEF GetCommand
<1>2. /\ pc[c] = "get"
      /\ pc' = [pc EXCEPT ![c] = "fill"]
      /\ UNCHANGED <<obj, arg, syncChannel, m, history>>
  BY DEF GetCommand
<1>3. \A d \in Callers :
        /\ pc'[d] = "idle" <=> pc[d] = "idle"
        /\ pc'[d] = "send" => pc[d] = "send" /\ held'[d] = held[d]
  BY <1>1, <1>2 DEF Inv, Shape
<1> QED BY <1>2, <1>3, QuietBook

\* A caller writes what it counted into its command, which no other place holds.
LEMMA FillCommandBook ==
  ASSUME Inv, BookInv, NEW c \in Callers, FillCommand(c),
         NEW k \in Keys, NEW x \in 0 .. MaxWindow
  PROVE  BookInv' /\ Balance(k, x)' = Balance(k, x)
<1>1. /\ pc[c] = "fill"
      /\ obj' = [obj EXCEPT ![held[c]] = arg[c]]
      /\ pc' = [pc EXCEPT ![c] = "send"]
      /\ UNCHANGED <<arg, held, syncChannel, m, history>>
  BY DEF FillCommand
<1>2. /\ pc \in [Callers -> {"idle", "get", "fill", "send"}]
      /\ arg \in [Callers -> Command]
      /\ obj \in [Objs -> Command]
      /\ held[c] # NoObj /\ held[c] \in Objs
  BY <1>1 DEF Inv, Shape
<1>3. /\ obj' \in [Objs -> Command]
      /\ obj'[held[c]] = arg[c]
      /\ \A o \in Objs : o # held[c] => obj'[o] = obj[o]
  BY <1>1, <1>2
<1>4. BookInv'
  <2>1. ASSUME NEW d \in Callers, pc'[d] = "send"
        PROVE  obj'[held'[d]] = arg'[d]
    <3>1. CASE d = c
      BY <1>1, <1>3, <3>1
    <3>2. CASE d # c
      <4>1. pc[d] = "send"
        BY <1>1, <1>2, <2>1, <3>2
      <4>2. held[d] \in Objs /\ held[d] # NoObj
        BY <4>1 DEF Inv, Shape
      <4>3. held[d] # held[c]
        BY <3>2, <4>2 DEF Inv, HandsDistinct
      <4> QED BY <1>1, <1>3, <4>1, <4>2, <4>3 DEF BookInv
    <3> QED BY <3>1, <3>2
  <2> QED BY <1>1, <2>1 DEF BookInv, history
<1>5. held[c] \notin InChannel /\ held[c] \notin InMap
  BY <1>2 DEF Inv, Partition, InHands
<1>6. InChannel' = InChannel /\ InMap' = InMap
  BY <1>1 DEF InChannel, InMap
<1>7. ASSUME NEW S \in SUBSET Objs, held[c] \notin S
      PROVE  SumFunctionOnSet(CountIn(obj', k, x), S) =
               SumFunctionOnSet(CountIn(obj, k, x), S)
  <2>1. IsFiniteSet(S)
    BY SyncAssumption, FS_Subset
  <2>2. \A o \in S : CountIn(obj', k, x)[o] = CountIn(obj, k, x)[o]
    BY <1>3, <1>7 DEF CountIn
  <2> QED BY <2>1, <2>2, SumSame
<1>8. InChannel \subseteq Objs /\ InMap \subseteq Objs
  BY BalanceType
<1>9. /\ OnChannel(k, x)' = SumFunctionOnSet(CountIn(obj', k, x), InChannel)
      /\ OnMap(k, x)' = SumFunctionOnSet(CountIn(obj', k, x), InMap)
  BY <1>6 DEF OnChannel, OnMap, CountIn
<1>10. OnChannel(k, x)' = OnChannel(k, x) /\ OnMap(k, x)' = OnMap(k, x)
  BY <1>5, <1>7, <1>8, <1>9 DEF OnChannel, OnMap
<1>11. \A d \in Callers : pc'[d] = "idle" <=> pc[d] = "idle"
  BY <1>1, <1>2
<1>12. OnCallers(k, x)' = OnCallers(k, x)
  BY <1>1, <1>11 DEF OnCallers, WaitingIn
<1> QED BY <1>1, <1>4, <1>10, <1>12 DEF Balance, history

\* What a caller sends leaves its hands for the channel.
LEMMA SendCommandBook ==
  ASSUME Inv, BookInv, NEW c \in Callers, SendCommand(c),
         NEW k \in Keys, NEW x \in 0 .. MaxWindow
  PROVE  BookInv' /\ Balance(k, x)' = Balance(k, x)
<1>1. /\ pc[c] = "send"
      /\ syncChannel' = Append(syncChannel, held[c])
      /\ held' = [held EXCEPT ![c] = NoObj]
      /\ pc' = [pc EXCEPT ![c] = "idle"]
      /\ arg' = [arg EXCEPT ![c] = Blank]
      /\ UNCHANGED <<obj, m, history>>
  BY DEF SendCommand
<1>2. /\ pc \in [Callers -> {"idle", "get", "fill", "send"}]
      /\ arg \in [Callers -> Command]
      /\ arg' \in [Callers -> Command]
      /\ held \in [Callers -> Objs \union {NoObj}]
      /\ obj \in [Objs -> Command]
      /\ held[c] # NoObj /\ held[c] \in Objs /\ held[c] \in InHands
  BY <1>1, BlankType DEF Inv, Shape, InHands
<1>3. held[c] \notin InChannel
  BY <1>2 DEF Inv, Partition
<1>4. InChannel' = InChannel \union {held[c]}
  BY <1>1, <1>2, <1>3, AppendOwner DEF Inv, Shape, InChannel, Distinct
<1>5. obj[held[c]] = arg[c]
  BY <1>1 DEF BookInv
<1>6. BookInv'
  <2>1. \A d \in Callers : pc'[d] = "send" =>
          d # c /\ pc[d] = "send" /\ held'[d] = held[d] /\ arg'[d] = arg[d]
    BY <1>1, <1>2
  <2>2. \A d \in Callers : pc'[d] = "send" => obj'[held'[d]] = arg'[d]
    BY <1>1, <2>1 DEF BookInv
  <2> QED BY <1>1, <2>2 DEF BookInv, history
<1>7. Part(arg[c], k, x) \in Int
  BY <1>2, PartType
<1>8. OnChannel(k, x)' = OnChannel(k, x) + Part(arg[c], k, x)
  <2>1. InChannel \union {held[c]} \in SUBSET Objs /\ InChannel \in SUBSET Objs
    BY <1>2, BalanceType
  <2>2. /\ IsFiniteSet(InChannel)
        /\ \A o \in InChannel \union {held[c]} :
             /\ CountIn(obj, k, x)[o] = Part(obj[o], k, x)
             /\ CountIn(obj, k, x)[o] \in Int
    BY <1>2, <2>1, CountType
  <2>3. SumFunctionOnSet(CountIn(obj, k, x), InChannel \union {held[c]}) =
          SumFunctionOnSet(CountIn(obj, k, x), InChannel)
            + CountIn(obj, k, x)[held[c]]
    BY <1>3, <2>2, SumAdd
  <2>4. CountIn(obj, k, x)[held[c]] = Part(arg[c], k, x)
    BY <1>5, <2>2
  <2>5. OnChannel(k, x)' =
          SumFunctionOnSet(CountIn(obj, k, x), InChannel \union {held[c]})
    BY <1>1, <1>4 DEF OnChannel, CountIn
  <2> QED BY <2>3, <2>4, <2>5 DEF OnChannel
<1>9. OnCallers(k, x)' = OnCallers(k, x) - Part(arg[c], k, x)
  <2>1. /\ WaitingIn(k, x) = Waits(pc, arg, k, x)
        /\ WaitingIn(k, x)' = Waits(pc', arg', k, x)
    BY DEF WaitingIn, Waits
  <2>2. OnlyMoves(c, pc, arg, pc', arg')
    BY <1>1, <1>2 DEF OnlyMoves
  <2>3. pc'[c] = "idle"
    BY <1>1, <1>2
  <2>4. /\ Waits(pc, arg, k, x)[c] = Part(arg[c], k, x)
        /\ Waits(pc', arg', k, x)[c] = 0
    <3>1. Waits(pc, arg, k, x)[c] =
            IF pc[c] = "idle" THEN 0 ELSE Part(arg[c], k, x)
      BY <1>2, CallersType
    <3>2. Waits(pc', arg', k, x)[c] =
            IF pc'[c] = "idle" THEN 0 ELSE Part(arg'[c], k, x)
      BY <1>2, CallersType
    <3> QED BY <1>1, <2>3, <3>1, <3>2
  <2>5. SumFunctionOnSet(Waits(pc', arg', k, x), Callers) =
          SumFunctionOnSet(Waits(pc, arg, k, x), Callers)
            - Waits(pc, arg, k, x)[c] + Waits(pc', arg', k, x)[c]
    BY <1>2, <2>2, CallerMoves
  <2>6. SumFunctionOnSet(Waits(pc, arg, k, x), Callers) \in Int
    BY <1>2, CallersType
  <2> QED BY <1>7, <2>1, <2>4, <2>5, <2>6 DEF OnCallers
<1>10. OnMap(k, x)' = OnMap(k, x)
  BY <1>1 DEF OnMap, CountIn, InMap
<1>11. Balance(k, x)' = Balance(k, x)
  <2>1. /\ OnChannel(k, x) \in Int /\ OnMap(k, x) \in Int
        /\ OnCallers(k, x) \in Int
        /\ produced[k][x] \in Int /\ flushed[k][x] \in Int
        /\ discarded[k][x] \in Int
    BY BalanceType
  <2>2. /\ produced'[k][x] = produced[k][x] /\ flushed'[k][x] = flushed[k][x]
        /\ discarded'[k][x] = discarded[k][x]
    BY <1>1 DEF history
  <2> QED BY <1>7, <1>8, <1>9, <1>10, <2>1, <2>2 DEF Balance
<1> QED BY <1>6, <1>11

\* What the worker arrives at, before a flush, decides the balance; the callers'
\* commands are not the worker's to write.
LEMMA WorkerBook ==
  ASSUME Inv, BookInv, NEW map \in [Keys -> Objs \union {NoObj}],
         NEW contents \in [Objs -> Command],
         NEW unused, NEW send \in BOOLEAN,
         Finish(map, contents, unused, send),
         UNCHANGED <<pc, arg, held, produced>>, discarded' \in Ledger,
         \A h \in InHands : contents[h] = obj[h],
         InChannel' \subseteq Objs,
         NEW k \in Keys, NEW x \in 0 .. MaxWindow
  PROVE  /\ BookInv'
         /\ Balance(k, x)' =
              produced[k][x] - flushed[k][x] - discarded'[k][x]
                - (SumFunctionOnSet(CountIn(contents, k, x), InChannel')
                     + SumFunctionOnSet(CountIn(contents, k, x), Values(map))
                     + OnCallers(k, x))
<1>1. obj' = contents
  BY Zenon DEF Finish
<1>2. /\ flushed' \in Ledger
      /\ flushed'[k][x] + OnMap(k, x)' =
           flushed[k][x] + SumFunctionOnSet(CountIn(contents, k, x), Values(map))
  BY FinishBook
<1>3. BookInv'
  <2>1. ASSUME NEW c \in Callers, pc'[c] = "send"
        PROVE  obj'[held'[c]] = arg'[c]
    <3>1. pc[c] = "send"
      BY <2>1
    <3>2. held[c] \in InHands
      BY <3>1 DEF Inv, Shape, InHands
    <3>3. obj[held[c]] = arg[c]
      BY <3>1 DEF BookInv
    <3> QED BY <1>1, <3>2, <3>3
  <2>2. produced' \in Ledger
    BY DEF BookInv
  <2> QED BY <1>2, <2>1, <2>2 DEF BookInv
<1>4. OnChannel(k, x)' = SumFunctionOnSet(CountIn(contents, k, x), InChannel')
  BY <1>1 DEF OnChannel, CountIn
<1>5. OnCallers(k, x)' = OnCallers(k, x)
  BY DEF OnCallers, WaitingIn
<1>6. /\ SumFunctionOnSet(CountIn(contents, k, x), InChannel') \in Int
      /\ SumFunctionOnSet(CountIn(contents, k, x), Values(map)) \in Int
  <2>1. Values(map) \subseteq Objs
    BY DEF Values
  <2> QED BY <2>1, CountType
<1>7. OnMap(k, x)' \in Int
  <2>1. InMap' = {} \/ InMap' = Values(map)
    <3>1. m' = IF send THEN [j \in Keys |-> NoObj] ELSE map
      BY Zenon DEF Finish
    <3> QED BY <3>1 DEF InMap, Values
  <2>2. OnMap(k, x)' = SumFunctionOnSet(CountIn(contents, k, x), InMap')
    BY <1>1 DEF OnMap, CountIn
  <2> QED BY <1>6, <2>1, <2>2, SumEmpty
<1>8. Balance(k, x)' =
        produced'[k][x] - flushed'[k][x] - discarded'[k][x]
          - (OnChannel(k, x)' + OnMap(k, x)' + OnCallers(k, x)')
  BY DEF Balance
<1>9. /\ OnCallers(k, x) \in Int /\ produced[k][x] \in Int
      /\ flushed[k][x] \in Int
  BY BalanceType
<1>10. discarded'[k][x] \in Int /\ flushed'[k][x] \in Int
  BY <1>2 DEF Ledger
<1>11. Balance(k, x)' =
         produced[k][x] - flushed[k][x] - discarded'[k][x]
           - (SumFunctionOnSet(CountIn(contents, k, x), InChannel')
                + SumFunctionOnSet(CountIn(contents, k, x), Values(map))
                + OnCallers(k, x))
  <2>1. PICK a \in Int, b \in Int, c \in Int, d \in Int, e \in Int, f \in Int,
             g \in Int, h \in Int :
          /\ a = produced[k][x] /\ b = flushed[k][x] /\ c = discarded'[k][x]
          /\ d = SumFunctionOnSet(CountIn(contents, k, x), InChannel')
          /\ e = SumFunctionOnSet(CountIn(contents, k, x), Values(map))
          /\ f = OnCallers(k, x) /\ g = flushed'[k][x] /\ h = OnMap(k, x)'
    BY <1>6, <1>7, <1>9, <1>10
  <2>2. g + h = b + e
    BY <1>2, <2>1
  <2>3. Balance(k, x)' = a - g - c - (d + h + f)
    BY <1>4, <1>5, <1>8, <2>1
  <2>4. a - g - c - (d + h + f) = a - b - c - (d + e + f)
    BY <2>2
  <2> QED BY <2>1, <2>3, <2>4
<1> QED BY <1>3, <1>11

\* The command of a new key leaves the channel for the map.
LEMMA ReceiveNewBook ==
  ASSUME Inv, BookInv, NEW o \in Objs, ReceiveNew(o),
         NEW k \in Keys, NEW x \in 0 .. MaxWindow
  PROVE  BookInv' /\ Balance(k, x)' = Balance(k, x)
<1> DEFINE j == obj[o].key
           map == [m EXCEPT ![j] = o]
           send == MustSend(obj[o], obj[o].count)
<1>1. /\ Receive(o) /\ m[j] = NoObj /\ Finish(map, obj, {}, send)
      /\ UNCHANGED discarded
  BY Zenon DEF ReceiveNew
<1>2. /\ o \in InChannel
      /\ InChannel' = InChannel \ {o}
      /\ UNCHANGED <<pc, arg, held>>
      /\ \A i \in Keys : m[i] # o
      /\ o # NoObj
      /\ obj[o] \in Command
  BY <1>1, ReceiveEffect
<1>3. j \in Keys /\ obj[o].count \in Int32
  BY <1>2 DEF Command
<1>4. send \in BOOLEAN
  BY <1>2, <1>3, NotSent
<1>5. /\ obj \in [Objs -> Command]
      /\ m \in [Keys -> Objs \union {NoObj}]
      /\ map \in [Keys -> Objs \union {NoObj}]
  BY <1>3 DEF Inv, Shape
<1>6. /\ map[j] = o
      /\ \A i \in Keys : i # j => map[i] = m[i]
  BY <1>3, <1>5
<1>7. produced' = produced
  BY <1>1 DEF Receive
<1> HIDE DEF j, map, send
<1>8. Values(map) = InMap \union {o} /\ o \notin InMap
  BY <1>1, <1>2, <1>3, <1>6 DEF Values, InMap
<1>9. InChannel \subseteq Objs /\ InMap \subseteq Objs /\ InChannel' \subseteq Objs
  BY <1>2, BalanceType
<1>10. discarded' \in Ledger /\ discarded'[k][x] = discarded[k][x]
  BY <1>1 DEF BookInv
<1>11. /\ BookInv'
       /\ Balance(k, x)' =
            produced[k][x] - flushed[k][x] - discarded'[k][x]
              - (SumFunctionOnSet(CountIn(obj, k, x), InChannel')
                   + SumFunctionOnSet(CountIn(obj, k, x), Values(map))
                   + OnCallers(k, x))
  BY <1>1, <1>2, <1>4, <1>5, <1>7, <1>9, <1>10, WorkerBook
<1>12. /\ OnChannel(k, x) = SumFunctionOnSet(CountIn(obj, k, x), InChannel')
                              + Part(obj[o], k, x)
       /\ SumFunctionOnSet(CountIn(obj, k, x), InChannel') \in Int
  <2>1. InChannel \in SUBSET Objs
    BY <1>9
  <2>2. /\ SumFunctionOnSet(CountIn(obj, k, x), InChannel) =
             SumFunctionOnSet(CountIn(obj, k, x), InChannel \ {o})
               + Part(obj[o], k, x)
        /\ SumFunctionOnSet(CountIn(obj, k, x), InChannel \ {o}) \in Int
    BY <1>2, <1>5, <2>1, CountOut
  <2> QED BY <1>2, <2>2 DEF OnChannel
<1>13. SumFunctionOnSet(CountIn(obj, k, x), Values(map)) =
         OnMap(k, x) + Part(obj[o], k, x)
  BY <1>5, <1>8, <1>9, CountAnother DEF OnMap
<1>14. /\ OnMap(k, x) \in Int /\ OnCallers(k, x) \in Int
       /\ produced[k][x] \in Int /\ flushed[k][x] \in Int
       /\ discarded[k][x] \in Int /\ Part(obj[o], k, x) \in Int
  BY <1>2, BalanceType, PartType
<1>15. Balance(k, x)' = Balance(k, x)
  <2>1. PICK a \in Int, b \in Int, c \in Int, d \in Int, e \in Int, f \in Int,
             g \in Int :
          /\ a = produced[k][x] /\ b = flushed[k][x] /\ c = discarded[k][x]
          /\ d = SumFunctionOnSet(CountIn(obj, k, x), InChannel')
          /\ e = OnMap(k, x) /\ f = OnCallers(k, x) /\ g = Part(obj[o], k, x)
    BY <1>12, <1>14
  <2>2. Balance(k, x)' = a - b - c - (d + (e + g) + f)
    BY <1>10, <1>11, <1>13, <2>1
  <2>3. Balance(k, x) = a - b - c - ((d + g) + e + f)
    BY <1>12, <2>1 DEF Balance
  <2> QED BY <2>2, <2>3
<1> QED BY <1>11, <1>15

\* The command of another window leaves the channel for the map, and the one it
\* replaces is discarded.
LEMMA ReceiveOtherBook ==
  ASSUME Inv, BookInv, NEW o \in Objs, ReceiveOther(o),
         NEW k \in Keys, NEW x \in 0 .. MaxWindow
  PROVE  BookInv' /\ Balance(k, x)' = Balance(k, x)
<1> DEFINE j == obj[o].key
           map == [m EXCEPT ![j] = o]
           send == MustSend(obj[o], obj[o].count)
<1>1. /\ Receive(o) /\ m[j] # NoObj /\ Finish(map, obj, {m[j]}, send)
      /\ discarded' = Book(discarded, obj[m[j]])
  BY Zenon DEF ReceiveOther
<1>2. /\ o \in InChannel
      /\ InChannel' = InChannel \ {o}
      /\ UNCHANGED <<pc, arg, held>>
      /\ \A i \in Keys : m[i] # o
      /\ o # NoObj
      /\ obj[o] \in Command
  BY <1>1, ReceiveEffect
<1>3. j \in Keys /\ obj[o].count \in Int32
  BY <1>2 DEF Command
<1>4. send \in BOOLEAN
  BY <1>2, <1>3, NotSent
<1>5. /\ obj \in [Objs -> Command]
      /\ m \in [Keys -> Objs \union {NoObj}]
      /\ map \in [Keys -> Objs \union {NoObj}]
      /\ m[j] \in Objs /\ obj[m[j]] \in Command
  BY <1>1, <1>3 DEF Inv, Shape
<1>6. /\ map[j] = o
      /\ \A i \in Keys : i # j => map[i] = m[i]
  BY <1>3, <1>5
<1>7. produced' = produced
  BY <1>1 DEF Receive
<1> HIDE DEF j, map, send
<1>8. \A i \in Keys : i # j /\ m[i] # NoObj => m[i] # m[j]
  BY <1>1, <1>3 DEF Inv, Keyed
<1>9. /\ Values(map) = (InMap \ {m[j]}) \union {o} /\ m[j] \in InMap
      /\ o \notin InMap \ {m[j]}
  BY <1>1, <1>2, <1>3, <1>6, <1>8 DEF Values, InMap
<1>10. /\ InChannel \in SUBSET Objs /\ InMap \in SUBSET Objs
       /\ InMap \ {m[j]} \in SUBSET Objs /\ InChannel' \subseteq Objs
  BY <1>2, BalanceType
<1>11. /\ discarded' \in Ledger
       /\ discarded'[k][x] = discarded[k][x] + Part(obj[m[j]], k, x)
  BY <1>1, <1>5, BookEffect DEF BookInv
<1>12. /\ BookInv'
       /\ Balance(k, x)' =
            produced[k][x] - flushed[k][x] - discarded'[k][x]
              - (SumFunctionOnSet(CountIn(obj, k, x), InChannel')
                   + SumFunctionOnSet(CountIn(obj, k, x), Values(map))
                   + OnCallers(k, x))
  BY <1>1, <1>2, <1>4, <1>5, <1>7, <1>10, <1>11, WorkerBook
<1>13. /\ OnChannel(k, x) = SumFunctionOnSet(CountIn(obj, k, x), InChannel')
                              + Part(obj[o], k, x)
       /\ SumFunctionOnSet(CountIn(obj, k, x), InChannel') \in Int
  <2>1. /\ SumFunctionOnSet(CountIn(obj, k, x), InChannel) =
             SumFunctionOnSet(CountIn(obj, k, x), InChannel \ {o})
               + Part(obj[o], k, x)
        /\ SumFunctionOnSet(CountIn(obj, k, x), InChannel \ {o}) \in Int
    BY <1>2, <1>5, <1>10, CountOut
  <2> QED BY <1>2, <2>1 DEF OnChannel
<1>14. /\ OnMap(k, x) = SumFunctionOnSet(CountIn(obj, k, x), InMap \ {m[j]})
                          + Part(obj[m[j]], k, x)
       /\ SumFunctionOnSet(CountIn(obj, k, x), InMap \ {m[j]}) \in Int
  BY <1>5, <1>9, <1>10, CountOut DEF OnMap
<1>15. SumFunctionOnSet(CountIn(obj, k, x), Values(map)) =
         SumFunctionOnSet(CountIn(obj, k, x), InMap \ {m[j]})
           + Part(obj[o], k, x)
  BY <1>5, <1>9, <1>10, CountAnother
<1>16. /\ OnCallers(k, x) \in Int
       /\ produced[k][x] \in Int /\ flushed[k][x] \in Int
       /\ discarded[k][x] \in Int /\ Part(obj[o], k, x) \in Int
       /\ Part(obj[m[j]], k, x) \in Int
  BY <1>2, <1>5, BalanceType, PartType
<1>17. Balance(k, x)' = Balance(k, x)
  <2>1. PICK a \in Int, b \in Int, c \in Int, d \in Int, e \in Int, f \in Int,
             g \in Int, h \in Int :
          /\ a = produced[k][x] /\ b = flushed[k][x] /\ c = discarded[k][x]
          /\ d = SumFunctionOnSet(CountIn(obj, k, x), InChannel')
          /\ e = SumFunctionOnSet(CountIn(obj, k, x), InMap \ {m[j]})
          /\ f = OnCallers(k, x) /\ g = Part(obj[o], k, x)
          /\ h = Part(obj[m[j]], k, x)
    BY <1>13, <1>14, <1>16
  <2>2. Balance(k, x)' = a - b - (c + h) - (d + (e + g) + f)
    BY <1>11, <1>12, <1>15, <2>1
  <2>3. Balance(k, x) = a - b - c - ((d + g) + (e + h) + f)
    BY <1>13, <1>14, <2>1 DEF Balance
  <2> QED BY <2>2, <2>3
<1> QED BY <1>12, <1>17

\* The timer's flush moves the map to the history.
LEMMA TimeoutBook ==
  ASSUME Inv, BookInv, Timeout, NEW k \in Keys, NEW x \in 0 .. MaxWindow
  PROVE  BookInv' /\ Balance(k, x)' = Balance(k, x)
<1>1. /\ Finish(m, obj, {}, TRUE)
      /\ UNCHANGED <<pc, arg, held, syncChannel, produced, discarded>>
  BY Zenon DEF Timeout
<1>2. /\ m \in [Keys -> Objs \union {NoObj}]
      /\ obj \in [Objs -> Command]
      /\ TRUE \in BOOLEAN
  BY DEF Inv, Shape
<1>3. Values(m) = InMap /\ InChannel' = InChannel
  BY <1>1 DEF Values, InMap, InChannel
<1>4. InChannel' \subseteq Objs
  BY <1>3, BalanceType
<1>5. discarded' \in Ledger /\ discarded'[k][x] = discarded[k][x]
  BY <1>1 DEF BookInv
<1>6. /\ BookInv'
      /\ Balance(k, x)' =
           produced[k][x] - flushed[k][x] - discarded'[k][x]
             - (SumFunctionOnSet(CountIn(obj, k, x), InChannel')
                  + SumFunctionOnSet(CountIn(obj, k, x), Values(m))
                  + OnCallers(k, x))
  BY <1>1, <1>2, <1>4, <1>5, WorkerBook
<1> QED BY <1>3, <1>5, <1>6 DEF Balance, OnChannel, OnMap

\* A wrapped sum differs from the sum by 2^32 or not at all.
LEMMA WrapEffect ==
  ASSUME NEW a \in Int32, NEW b \in Int32
  PROVE  \E w \in {-1, 0, 1} : AddInt32(a, b) = a + b + w * (2 * (MaxInt32 + 1))
<1>1. a \in Int /\ b \in Int /\ MaxInt32 \in Int
  BY Int32Assumption DEF Int32
<1> QED BY <1>1 DEF AddInt32

\* The command of the same window leaves the channel, and what it counts is
\* added, up to 2^32, to the one in the map.
LEMMA ReceiveSameBook ==
  ASSUME Inv, BookInv, NEW o \in Objs, ReceiveSame(o),
         NEW k \in Keys, NEW x \in 0 .. MaxWindow
  PROVE  /\ BookInv'
         /\ \E w \in {-1, 0, 1} :
              Balance(k, x)' = Balance(k, x) - w * (2 * (MaxInt32 + 1))
<1> DEFINE j == obj[o].key
           total == AddInt32(obj[m[j]].count, obj[o].count)
           contents == [obj EXCEPT ![m[j]].count = total]
           send == MustSend(obj[o], total)
<1>1. /\ Receive(o) /\ m[j] # NoObj /\ Finish(m, contents, {o}, send)
      /\ obj[m[j]].expiry = obj[o].expiry
      /\ UNCHANGED discarded
  BY Zenon DEF ReceiveSame
<1>2. /\ o \in InChannel
      /\ InChannel' = InChannel \ {o}
      /\ UNCHANGED <<pc, arg, held>>
      /\ obj[o] \in Command
  BY <1>1, ReceiveEffect
<1>3. /\ obj \in [Objs -> Command]
      /\ m \in [Keys -> Objs \union {NoObj}]
  BY DEF Inv, Shape
<1>4. j \in Keys /\ obj[o].count \in Int32
  BY <1>2 DEF Command
<1>5. m[j] \in Objs /\ obj[m[j]] \in Command /\ obj[m[j]].count \in Int32
  BY <1>1, <1>3, <1>4 DEF Command
<1>6. total \in Int32
  BY <1>4, <1>5, SumType
<1>7. send \in BOOLEAN
  BY <1>2, <1>6, NotSent
<1>8. [obj[m[j]] EXCEPT !.count = total] \in Command
  BY <1>5, <1>6 DEF Command
<1>9. /\ contents \in [Objs -> Command]
      /\ contents[m[j]].key = obj[m[j]].key
      /\ contents[m[j]].count = total
      /\ contents[m[j]].expiry = obj[m[j]].expiry
      /\ \A p \in Objs : p # m[j] => contents[p] = obj[p]
  <2> HIDE DEF total
  <2> QED BY <1>3, <1>5, <1>8 DEF Command
<1>10. PICK w \in {-1, 0, 1} :
         total = obj[m[j]].count + obj[o].count + w * (2 * (MaxInt32 + 1))
  BY <1>4, <1>5, WrapEffect
<1>11. produced' = produced
  BY <1>1 DEF Receive
<1>12. obj[o].key = j
  OBVIOUS
<1> HIDE DEF j, total, contents, send
<1>13. obj[m[j]].key = j
  BY <1>1, <1>4 DEF Inv, Keyed
<1>14. Values(m) = InMap /\ m[j] \in InMap
  BY <1>1, <1>4 DEF Values, InMap
<1>15. /\ InChannel \in SUBSET Objs /\ InMap \in SUBSET Objs
       /\ InHands \subseteq Objs /\ InChannel' \in SUBSET Objs
  BY <1>2, BalanceType
<1>16. m[j] \notin InHands /\ m[j] \notin InChannel'
  BY <1>2, <1>14 DEF Inv, Partition
<1>17. discarded' \in Ledger /\ discarded'[k][x] = discarded[k][x]
  BY <1>1 DEF BookInv
<1>18. /\ BookInv'
       /\ Balance(k, x)' =
            produced[k][x] - flushed[k][x] - discarded'[k][x]
              - (SumFunctionOnSet(CountIn(contents, k, x), InChannel')
                   + SumFunctionOnSet(CountIn(contents, k, x), Values(m))
                   + OnCallers(k, x))
  <2>1. \A h \in InHands : contents[h] = obj[h]
    BY <1>9, <1>15, <1>16
  <2>2. InChannel' \subseteq Objs
    BY <1>15
  <2> QED BY <1>1, <1>2, <1>3, <1>7, <1>9, <1>11, <1>17, <2>1, <2>2, WorkerBook
<1>19. /\ OnChannel(k, x) = SumFunctionOnSet(CountIn(contents, k, x), InChannel')
                              + Part(obj[o], k, x)
       /\ SumFunctionOnSet(CountIn(contents, k, x), InChannel') \in Int
  <2>1. /\ SumFunctionOnSet(CountIn(obj, k, x), InChannel) =
             SumFunctionOnSet(CountIn(obj, k, x), InChannel \ {o})
               + Part(obj[o], k, x)
        /\ SumFunctionOnSet(CountIn(obj, k, x), InChannel \ {o}) \in Int
    BY <1>2, <1>3, <1>15, CountOut
  <2>2. \A p \in InChannel' : CountIn(obj, k, x)[p] = CountIn(contents, k, x)[p]
    BY <1>9, <1>15, <1>16 DEF CountIn
  <2>3. IsFiniteSet(InChannel')
    BY <1>15, SyncAssumption, FS_Subset
  <2>4. SumFunctionOnSet(CountIn(obj, k, x), InChannel') =
          SumFunctionOnSet(CountIn(contents, k, x), InChannel')
    BY <2>2, <2>3, SumSame
  <2> QED BY <1>2, <2>1, <2>4 DEF OnChannel
<1>20. /\ SumFunctionOnSet(CountIn(contents, k, x), InMap) =
            OnMap(k, x) - Part(obj[m[j]], k, x) + Part(contents[m[j]], k, x)
       /\ OnMap(k, x) \in Int
  <2>1. /\ IsFiniteSet(InMap)
        /\ \A p \in InMap : /\ CountIn(obj, k, x)[p] = Part(obj[p], k, x)
                            /\ CountIn(obj, k, x)[p] \in Int
    BY <1>3, <1>15, CountType
  <2>2. \A p \in InMap :
          /\ CountIn(contents, k, x)[p] = Part(contents[p], k, x)
          /\ CountIn(contents, k, x)[p] \in Int
    BY <1>9, <1>15, CountType
  <2>3. \A p \in InMap : p # m[j] =>
          CountIn(contents, k, x)[p] = CountIn(obj, k, x)[p]
    BY <1>9, <1>15 DEF CountIn
  <2>4. SumFunctionOnSet(CountIn(contents, k, x), InMap) =
          SumFunctionOnSet(CountIn(obj, k, x), InMap)
            - CountIn(obj, k, x)[m[j]] + CountIn(contents, k, x)[m[j]]
    BY <1>14, <2>1, <2>2, <2>3, SumChange
  <2> QED BY <1>14, <2>1, <2>2, <2>4, BalanceType DEF OnMap
<1>21. /\ OnCallers(k, x) \in Int
       /\ produced[k][x] \in Int /\ flushed[k][x] \in Int
       /\ discarded[k][x] \in Int /\ Part(obj[o], k, x) \in Int
       /\ Part(obj[m[j]], k, x) \in Int /\ Part(contents[m[j]], k, x) \in Int
  BY <1>2, <1>5, <1>9, BalanceType, PartType
<1>22. PICK v \in {-1, 0, 1} :
         Part(contents[m[j]], k, x) = Part(obj[m[j]], k, x) + Part(obj[o], k, x)
                                        + v * (2 * (MaxInt32 + 1))
  <2>1. obj[m[j]].count \in Int /\ obj[o].count \in Int
    BY <1>4, <1>5, Int32Assumption DEF Int32
  <2>2. CASE j = k /\ obj[o].expiry = x
    BY <1>1, <1>9, <1>10, <1>12, <1>13, <2>2 DEF Part
  <2>3. CASE ~(j = k /\ obj[o].expiry = x)
    <3>1. /\ Part(contents[m[j]], k, x) = 0 /\ Part(obj[m[j]], k, x) = 0
          /\ Part(obj[o], k, x) = 0
      BY <1>1, <1>9, <1>12, <1>13, <2>3 DEF Part
    <3>2. 0 = 0 + 0 + 0 * (2 * (MaxInt32 + 1))
      BY Int32Assumption
    <3> QED BY <3>1, <3>2
  <2> QED BY <2>2, <2>3
<1>23. Balance(k, x)' = Balance(k, x) - v * (2 * (MaxInt32 + 1))
  <2>1. v * (2 * (MaxInt32 + 1)) \in Int
    BY Int32Assumption
  <2>2. PICK a \in Int, b \in Int, c \in Int, d \in Int, e \in Int, f \in Int,
             g \in Int, h \in Int, q \in Int :
          /\ a = produced[k][x] /\ b = flushed[k][x] /\ c = discarded[k][x]
          /\ d = SumFunctionOnSet(CountIn(contents, k, x), InChannel')
          /\ e = OnMap(k, x)
          /\ f = OnCallers(k, x) /\ g = Part(obj[o], k, x)
          /\ h = Part(obj[m[j]], k, x) /\ q = v * (2 * (MaxInt32 + 1))
    BY <1>19, <1>20, <1>21, <2>1
  <2>3. Balance(k, x)' = a - b - c - (d + (e - h + (h + g + q)) + f)
    BY <1>14, <1>17, <1>18, <1>20, <1>22, <2>2
  <2>4. Balance(k, x) = a - b - c - ((d + g) + e + f)
    BY <1>19, <2>2 DEF Balance
  <2>5. Balance(k, x)' = Balance(k, x) - q
    BY <2>3, <2>4
  <2> QED BY <2>2, <2>5
<1> QED BY <1>18, <1>23

\* Nothing is counted, and nowhere, when the program starts.
LEMMA InitBook ==
  ASSUME Init
  PROVE  BookInv /\ Conservation
<1>1. Inv
  BY InitInv
<1>2. /\ produced = NoLedger /\ flushed = NoLedger /\ discarded = NoLedger
      /\ pc = [c \in Callers |-> "idle"]
  BY DEF Init
<1>3. BookInv
  BY <1>2 DEF BookInv, NoLedger, Ledger
<1>4. InMap = {} /\ InChannel = {}
  BY DEF Init, InMap, InChannel, ToSet
<1>5. ASSUME NEW k \in Keys, NEW x \in 0 .. MaxWindow
      PROVE  (produced[k][x] - flushed[k][x] - discarded[k][x] - Pending(k, x))
               % (2 * (MaxInt32 + 1)) = 0
  <2>1. \A c \in Callers : WaitingIn(k, x)[c] = 0
    BY <1>2 DEF WaitingIn
  <2>2. SumFunctionOnSet(WaitingIn(k, x), Callers) = 0
    BY <2>1, SyncAssumption, SumZero
  <2>3. Pending(k, x) = 0
    BY <1>4, <2>2, SumEmpty DEF Pending
  <2>4. produced[k][x] = 0 /\ flushed[k][x] = 0 /\ discarded[k][x] = 0
    BY <1>2 DEF NoLedger
  <2>5. 0 % (2 * (MaxInt32 + 1)) = 0
    <3>1. 2 * (MaxInt32 + 1) \in Nat \ {0}
      BY Int32Assumption
    <3>2. 0 = (2 * (MaxInt32 + 1)) * 0
      BY Int32Assumption
    <3> QED BY <3>1, <3>2, Multiple
  <2> QED BY <2>3, <2>4, <2>5
<1> QED BY <1>3, <1>5 DEF Conservation

\* A step that shifts the balance by 2^32, up or down, or not at all keeps it a
\* multiple of 2^32.
LEMMA StillConserved ==
  ASSUME NEW a \in Int, a % (2 * (MaxInt32 + 1)) = 0, NEW w \in {-1, 0, 1}
  PROVE  (a - w * (2 * (MaxInt32 + 1))) % (2 * (MaxInt32 + 1)) = 0
<1>1. PICK M \in Nat \ {0} : M = 2 * (MaxInt32 + 1)
  BY Int32Assumption
<1>2. (a + M) % M = 0 /\ (a - M) % M = 0 /\ a % M = 0
  BY <1>1, MultipleShift
<1>3. CASE w = 1
  BY <1>1, <1>2, <1>3
<1>4. CASE w = 0
  BY <1>1, <1>2, <1>4
<1>5. CASE w = -1
  BY <1>1, <1>2, <1>5
<1> QED BY <1>3, <1>4, <1>5

\* Every step keeps the history typed and shifts each balance by a multiple.
LEMMA NextBook ==
  ASSUME Inv, BookInv, [Next]_vars, NEW k \in Keys, NEW x \in 0 .. MaxWindow
  PROVE  /\ BookInv'
         /\ \E w \in {-1, 0, 1} :
              Balance(k, x)' = Balance(k, x) - w * (2 * (MaxInt32 + 1))
<1> DEFINE Kept == BookInv' /\ Balance(k, x)' = Balance(k, x)
           Goal == /\ BookInv'
                   /\ \E w \in {-1, 0, 1} :
                        Balance(k, x)' = Balance(k, x) - w * (2 * (MaxInt32 + 1))
<1>1. ASSUME Kept PROVE Goal
  <2>1. Balance(k, x) \in Int
    BY BalanceType
  <2>2. Balance(k, x) = Balance(k, x) - 0 * (2 * (MaxInt32 + 1))
    BY <2>1, Int32Assumption
  <2> QED BY <1>1, <2>2
<1>2. ASSUME NEW c \in Callers, NEW j \in Keys, NEW n \in Counts,
             NEW dosync \in BOOLEAN, IncrReturns(c, j, n, dosync)
      PROVE  Kept
  BY <1>2, IncrReturnsBook
<1>3. ASSUME NEW c \in Callers, Proceed(c)
      PROVE  Kept
  BY <1>3, GetCommandBook, FillCommandBook, SendCommandBook DEF Proceed
<1>4. ASSUME NEW o \in Objs, ReceiveNew(o) \/ ReceiveOther(o)
      PROVE  Kept
  BY <1>4, ReceiveNewBook, ReceiveOtherBook
<1>5. ASSUME NEW o \in Objs, ReceiveSame(o)
      PROVE  Goal
  BY <1>5, ReceiveSameBook
<1>6. ASSUME Timeout PROVE Kept
  BY <1>6, TimeoutBook
<1>7. ASSUME UNCHANGED <<obj, pc, arg, held, syncChannel, m, history>>
      PROVE  Kept
  BY <1>7, QuietBook
<1>8. ASSUME Transmit PROVE Kept
  <2>1. UNCHANGED <<obj, pc, arg, held, syncChannel, m, history>>
    BY <1>8, Zenon DEF Transmit, Serialize, Forwarded
  <2> QED BY <1>7, <2>1
<1>9. ASSUME NEW j \in Keys, NewWindow(j)
      PROVE  Kept
  <2>1. UNCHANGED <<obj, pc, arg, held, syncChannel, m, history>>
    BY <1>9 DEF NewWindow
  <2> QED BY <1>7, <2>1
<1>10. ASSUME Tick PROVE Kept
  <2>1. UNCHANGED <<obj, pc, arg, held, syncChannel, m, history>>
    BY <1>10 DEF Tick
  <2> QED BY <1>7, <2>1
<1>11. ASSUME UNCHANGED vars PROVE Kept
  <2>1. UNCHANGED <<obj, pc, arg, held, syncChannel, m, history>>
    BY <1>11 DEF vars
  <2> QED BY <1>7, <2>1
<1> HIDE DEF Kept, Goal
<1>12. Kept => Goal
  BY <1>1
<1>13. Kept \/ Goal
  BY <1>2, <1>3, <1>4, <1>5, <1>6, <1>8, <1>9, <1>10, <1>11, Zenon
  DEF Next, ReceiveCommand
<1>14. Goal
  BY <1>12, <1>13
<1> QED BY <1>14 DEF Goal

\* Every step keeps the books.
LEMMA NextConserves ==
  ASSUME Inv, BookInv, Conservation, [Next]_vars
  PROVE  BookInv' /\ Conservation'
<1>1. BookInv'
  <2>1. PICK k \in Keys : TRUE
    BY SyncAssumption
  <2>2. 0 \in 0 .. MaxWindow
    BY SyncAssumption
  <2> QED BY <2>1, <2>2, NextBook
<1>2. ASSUME NEW k \in Keys, NEW x \in 0 .. MaxWindow
      PROVE  ((produced[k][x] - flushed[k][x] - discarded[k][x] - Pending(k, x))
                % (2 * (MaxInt32 + 1)) = 0)'
  <2>1. Balance(k, x) \in Int
    BY BalanceType
  <2>2. /\ Balance(k, x) =
             produced[k][x] - flushed[k][x] - discarded[k][x] - Pending(k, x)
        /\ Balance(k, x)' =
             (produced[k][x] - flushed[k][x] - discarded[k][x] - Pending(k, x))'
    BY DEF Balance, OnChannel, OnMap, OnCallers, Pending
  <2>3. Balance(k, x) % (2 * (MaxInt32 + 1)) = 0
    BY <2>2 DEF Conservation
  <2>4. PICK w \in {-1, 0, 1} :
          Balance(k, x)' = Balance(k, x) - w * (2 * (MaxInt32 + 1))
    BY NextBook
  <2>5. Balance(k, x)' % (2 * (MaxInt32 + 1)) = 0
    BY <2>1, <2>3, <2>4, StillConserved
  <2> QED BY <2>2, <2>5
<1> QED BY <1>1, <1>2 DEF Conservation

\* What calls counted is at all times in the hands of callers, in the channel,
\* in the worker's map, flushed to the nodes, or dropped for a command of
\* another window, up to the wrapping of int32: the aggregation loses nothing
\* else and sends nothing twice.
THEOREM ConservationHolds == Spec => []Conservation
<1>1. Init => Inv /\ BookInv /\ Conservation
  BY InitInv, InitBook
<1>2. Inv /\ BookInv /\ Conservation /\ [Next]_vars
      => Inv' /\ BookInv' /\ Conservation'
  BY NextInv, NextConserves
<1> QED BY <1>1, <1>2, PTL DEF Spec
-----------------------------------------------------------------------------
(* Type correctness: the senders, the timer and the capacity of the channel. *)

\* A sender as StartSenders makes it and Serialize completes it.
Sender(s) ==
  /\ s = [id |-> s.id, node |-> s.node, batch |-> s.batch,
          flushed |-> s.flushed, payload |-> s.payload]
  /\ s.id \in Nat /\ s.node \in Nodes /\ s.batch \subseteq Objs
  /\ s.flushed \in [s.batch -> Command]
  /\ s.payload \in {NoBatch} \union [s.batch -> Command]

SendersInv == IsFiniteSet(senders) /\ \A s \in senders : Sender(s)

TimerInv == /\ idle \in 0 .. TimeLimit
            /\ fired \in BOOLEAN
            /\ calls \in Nat
            /\ Len(syncChannel) <= Buffer

\* The types of the callers, the worker and the senders together.
LEMMA TypesImply == Inv /\ SendersInv /\ TimerInv => TypeOK
BY DEF Inv, Shape, SendersInv, Sender, TimerInv, TypeOK

\* There is always an identity that no sender has.
LEMMA NewIdType ==
  ASSUME SendersInv
  PROVE  NewId \in Nat
<1> DEFINE n == Cardinality(senders)
           ids == 0 .. n
           f == [i \in ids |-> CHOOSE s \in senders : s.id = i]
<1>1. n \in Nat /\ IsFiniteSet(senders)
  BY FS_CardinalityType DEF SendersInv
<1>2. IsFiniteSet(ids) /\ Cardinality(ids) = n + 1
  BY <1>1, FS_Interval
<1>3. \E i \in ids : \A s \in senders : s.id # i
  <2> SUFFICES ASSUME \A i \in ids : \E s \in senders : s.id = i
               PROVE  FALSE
    OBVIOUS
  <2>1. \A i \in ids : f[i] \in senders /\ f[i].id = i
    OBVIOUS
  <2>2. f \in [ids -> senders]
    BY <2>1
  <2> HIDE DEF f, ids
  <2>3. PICK i \in ids, j \in ids : i # j /\ f[i] = f[j]
    BY <1>1, <1>2, <2>2, FS_PigeonHole
  <2> QED BY <2>1, <2>3
<1>4. NewId \in ids
  BY <1>3 DEF NewId
<1> QED BY <1>1, <1>4

\* A flush starts one well-typed sender for each node it reaches.
LEMMA StartSendersType ==
  ASSUME SendersInv, NEW batch \in SUBSET Objs,
         NEW contents \in [Objs -> Command], StartSenders(batch, contents)
  PROVE  SendersInv'
<1>1. PICK reachable \in SUBSET Nodes :
        senders' = senders \union
          {[id |-> NewId, node |-> n, batch |-> batch,
            flushed |-> [o \in batch |-> contents[o]], payload |-> NoBatch]
             : n \in reachable}
  BY DEF StartSenders
<1>2. PICK i \in Nat : i = NewId
  BY NewIdType
<1> DEFINE new(n) == [id |-> i, node |-> n, batch |-> batch,
                      flushed |-> [o \in batch |-> contents[o]],
                      payload |-> NoBatch]
           started == {new(n) : n \in reachable}
           f == [n \in reachable |-> new(n)]
<1>3. senders' = senders \union started
  BY <1>1, <1>2
<1>4. IsFiniteSet(started)
  <2>1. IsFiniteSet(reachable)
    BY SyncAssumption, FS_Subset
  <2>2. f \in [reachable -> started] /\ \A s \in started : \E n \in reachable : f[n] = s
    <3> HIDE DEF new
    <3> QED OBVIOUS
  <2>3. f \in Surjection(reachable, started)
    <3> HIDE DEF f, started
    <3> QED BY <2>2 DEF Surjection
  <2> HIDE DEF f, started
  <2> QED BY <2>1, <2>3, FS_Surjection
<1>5. ASSUME NEW n \in reachable
      PROVE  Sender(new(n))
  <2>1. [o \in batch |-> contents[o]] \in [batch -> Command]
    OBVIOUS
  <2> QED BY <2>1 DEF Sender
<1>6. \A s \in started : Sender(s)
  <2> HIDE DEF new
  <2> QED BY <1>5
<1> HIDE DEF started
<1>7. IsFiniteSet(senders')
  BY <1>3, <1>4, FS_Union DEF SendersInv
<1> QED BY <1>3, <1>6, <1>7 DEF SendersInv

\* The end of an iteration keeps the senders and the timer typed.
LEMMA FinishTypes ==
  ASSUME SendersInv, NEW map \in [Keys -> Objs \union {NoObj}],
         NEW contents \in [Objs -> Command], NEW unused, NEW send,
         Finish(map, contents, unused, send)
  PROVE  SendersInv' /\ idle' = 0
<1> DEFINE batch == IF send THEN {map[k] : k \in Keys} \ {NoObj} ELSE {}
<1>1. /\ IF batch = {} THEN UNCHANGED senders ELSE StartSenders(batch, contents)
      /\ ResetTimer
  BY Zenon DEF Finish
<1>2. batch \in SUBSET Objs
  OBVIOUS
<1> HIDE DEF batch
<1>3. CASE batch = {}
  BY <1>1, <1>3 DEF SendersInv, ResetTimer
<1>4. CASE batch # {}
  BY <1>1, <1>2, <1>4, StartSendersType DEF ResetTimer
<1> QED BY <1>3, <1>4

\* What a sender reads in an object, however torn, has the types of a command.
LEMMA ReadableType ==
  ASSUME Inv, NEW o \in Objs
  PROVE  Readable(o) \subseteq Command
<1>1. obj[o] \in Command /\ \A c \in Callers : arg[c] \in Command
  BY DEF Inv, Shape
<1>2. ASSUME NEW c \in Callers
      PROVE  [key : {obj[o].key, arg[c].key},
              count : {obj[o].count, arg[c].count},
              expiry : {obj[o].expiry, arg[c].expiry},
              force : {obj[o].force, arg[c].force}] \subseteq Command
  <2>1. PICK a \in Command, b \in Command : a = obj[o] /\ b = arg[c]
    BY <1>1
  <2>2. [key : {a.key, b.key}, count : {a.count, b.count},
         expiry : {a.expiry, b.expiry}, force : {a.force, b.force}]
          \subseteq Command
    BY DEF Command
  <2> QED BY <2>1, <2>2
<1> QED BY <1>1, <1>2, Zenon DEF Readable

\* A sender that serialises its batch stays well typed.
LEMMA SerializeTypes ==
  ASSUME Inv, SendersInv, NEW s \in senders, Serialize(s)
  PROVE  SendersInv'
<1>1. PICK payload \in [s.batch -> UNION {Readable(o) : o \in s.batch}] :
        /\ \A o \in s.batch : payload[o] \in Readable(o)
        /\ senders' = (senders \ {s}) \union {[s EXCEPT !.payload = payload]}
  BY DEF Serialize
<1> DEFINE t == [s EXCEPT !.payload = payload]
<1>2. Sender(s)
  BY DEF SendersInv
<1>3. payload \in [s.batch -> Command]
  <2>1. \A o \in s.batch : payload[o] \in Command
    BY <1>1, <1>2, ReadableType DEF Sender
  <2> QED BY <1>1, <2>1
<1>4. t = [id |-> s.id, node |-> s.node, batch |-> s.batch,
           flushed |-> s.flushed, payload |-> payload]
  BY <1>2 DEF Sender
<1>5. Sender(t)
  BY <1>2, <1>3, <1>4 DEF Sender
<1> HIDE DEF t
<1>6. IsFiniteSet((senders \ {s}) \union {t})
  BY FS_RemoveElement, FS_AddElement DEF SendersInv
<1>7. senders' = (senders \ {s}) \union {t}
  BY <1>1 DEF t
<1> QED BY <1>5, <1>6, <1>7 DEF SendersInv

\* Every step keeps these types.
LEMMA NextTypes ==
  ASSUME Inv, SendersInv, TimerInv, [Next]_vars
  PROVE  SendersInv' /\ TimerInv'
<1> DEFINE Goal == SendersInv' /\ TimerInv'
<1>1. /\ Len(syncChannel) \in Nat /\ syncChannel \in Seq(Objs)
      /\ 0 \in 0 .. TimeLimit /\ Buffer \in Nat
      /\ m \in [Keys -> Objs \union {NoObj}]
      /\ obj \in [Objs -> Command]
  BY SyncAssumption DEF Inv, Shape
<1>2. ASSUME NEW c \in Callers, NEW k \in Keys, NEW n \in Counts,
             NEW dosync \in BOOLEAN, IncrReturns(c, k, n, dosync)
      PROVE  Goal
  BY <1>2 DEF IncrReturns, SendersInv, TimerInv
<1>3. ASSUME NEW c \in Callers, Proceed(c)
      PROVE  Goal
  <2>1. CASE GetCommand(c) \/ FillCommand(c)
    BY <2>1 DEF GetCommand, FillCommand, SendersInv, TimerInv
  <2>2. CASE SendCommand(c)
    <3>1. /\ Len(syncChannel) < Buffer
          /\ syncChannel' = Append(syncChannel, held[c])
          /\ UNCHANGED <<idle, fired, senders, calls>>
      BY <2>2 DEF SendCommand
    <3>2. Len(syncChannel') = Len(syncChannel) + 1
      BY <1>1, <3>1
    <3>3. Len(syncChannel') <= Buffer
      BY <1>1, <3>1, <3>2
    <3> QED BY <3>1, <3>3 DEF SendersInv, TimerInv
  <2> QED BY <1>3, <2>1, <2>2 DEF Proceed
<1>4. ASSUME NEW o \in Objs, Receive(o), SendersInv', idle' = 0
      PROVE  Goal
  <2>1. Len(syncChannel') <= Buffer
    BY <1>1, <1>4 DEF Receive, TimerInv
  <2> QED BY <1>1, <1>4, <2>1 DEF Receive, TimerInv
<1>5. ASSUME NEW o \in Objs, ReceiveNew(o) \/ ReceiveOther(o)
      PROVE  Goal
  <2> DEFINE map == [m EXCEPT ![obj[o].key] = o]
             send == MustSend(obj[o], obj[o].count)
  <2>1. \E unused : Receive(o) /\ Finish(map, obj, unused, send)
    BY <1>5, Zenon DEF ReceiveNew, ReceiveOther
  <2>2. map \in [Keys -> Objs \union {NoObj}]
    BY <1>1
  <2> QED BY <1>1, <1>4, <2>1, <2>2, FinishTypes
<1>6. ASSUME NEW o \in Objs, ReceiveSame(o)
      PROVE  Goal
  <2> DEFINE k == obj[o].key
             total == AddInt32(obj[m[k]].count, obj[o].count)
             contents == [obj EXCEPT ![m[k]].count = total]
             send == MustSend(obj[o], total)
  <2>1. Receive(o) /\ m[k] # NoObj /\ Finish(m, contents, {o}, send)
    BY <1>6, Zenon DEF ReceiveSame
  <2>2. contents \in [Objs -> Command]
    <3>1. obj[o] \in Command /\ k \in Keys
      BY <1>1 DEF Command
    <3>2. m[k] \in Objs /\ obj[m[k]] \in Command
      BY <1>1, <2>1, <3>1
    <3>3. total \in Int32
      BY <3>1, <3>2, SumType DEF Command
    <3> HIDE DEF k, total
    <3>4. [obj[m[k]] EXCEPT !.count = total] \in Command
      BY <3>2, <3>3 DEF Command
    <3> QED BY <1>1, <3>2, <3>4
  <2> HIDE DEF contents, send
  <2> QED BY <1>1, <1>4, <2>1, <2>2, FinishTypes
<1>7. ASSUME Timeout PROVE Goal
  <2>1. /\ Finish(m, obj, {}, TRUE) /\ fired' = FALSE
        /\ UNCHANGED <<syncChannel, calls>>
    BY <1>7, Zenon DEF Timeout
  <2>2. SendersInv' /\ idle' = 0
    BY <1>1, <2>1, FinishTypes
  <2> QED BY <1>1, <2>1, <2>2 DEF TimerInv
<1>8. ASSUME NEW s \in senders, Serialize(s)
      PROVE  Goal
  <2>1. SendersInv'
    BY <1>8, SerializeTypes
  <2>2. UNCHANGED <<syncChannel, idle, fired, calls>>
    BY <1>8 DEF Serialize
  <2> QED BY <2>1, <2>2 DEF TimerInv
<1>9. ASSUME NEW s \in senders, Forwarded(s)
      PROVE  Goal
  <2>1. senders' = senders \ {s} /\ UNCHANGED <<syncChannel, idle, fired, calls>>
    BY <1>9 DEF Forwarded
  <2>2. IsFiniteSet(senders \ {s})
    BY FS_RemoveElement DEF SendersInv
  <2> QED BY <2>1, <2>2 DEF SendersInv, TimerInv
<1>10. ASSUME NEW k \in Keys, NewWindow(k)
       PROVE  Goal
  BY <1>10 DEF NewWindow, SendersInv, TimerInv
<1>11. ASSUME Tick PROVE Goal
  BY <1>11, SyncAssumption DEF Tick, SendersInv, TimerInv
<1>12. ASSUME UNCHANGED vars PROVE Goal
  BY <1>12 DEF vars, SendersInv, TimerInv
<1> HIDE DEF Goal
<1>13. Goal
  BY <1>2, <1>3, <1>5, <1>6, <1>7, <1>8, <1>9, <1>10, <1>11, <1>12, Zenon
  DEF Next, ReceiveCommand, Transmit
<1> QED BY <1>13 DEF Goal

\* The synchroniser's state is well typed at all times: the channel never holds
\* more than its capacity, each caller has a command exactly while it fills and
\* sends one, and what a sender serialises, torn or not, is made of commands.
THEOREM TypeCorrect == Spec => []TypeOK
<1>1. Init => Inv /\ SendersInv /\ TimerInv
  <2> SUFFICES ASSUME Init PROVE SendersInv /\ TimerInv
    BY InitInv
  <2>1. senders = {} /\ syncChannel = << >> /\ idle = 0 /\ fired = FALSE /\ calls = 0
    BY DEF Init
  <2>2. SendersInv
    BY <2>1, FS_EmptySet DEF SendersInv
  <2>3. Len(<< >>) = 0 /\ Buffer \in Nat /\ TimeLimit \in Nat
    BY SyncAssumption
  <2>4. TimerInv
    <3>1. idle \in 0 .. TimeLimit /\ calls \in Nat
      BY <2>1, <2>3
    <3>2. Len(syncChannel) <= Buffer
      BY <2>1, <2>3
    <3>3. fired \in BOOLEAN
      BY <2>1
    <3> QED BY <3>1, <3>2, <3>3 DEF TimerInv
  <2> QED BY <2>2, <2>4
<1>2. Inv /\ SendersInv /\ TimerInv /\ [Next]_vars
      => Inv' /\ SendersInv' /\ TimerInv'
  BY NextInv, NextTypes
<1>3. Inv /\ SendersInv /\ TimerInv => TypeOK
  BY TypesImply
<1> QED BY <1>1, <1>2, <1>3, PTL DEF Spec
=============================================================================
