-------------------------- MODULE RateConfigProofs --------------------------
(***************************************************************************)
(* Proofs about RateConfigSync, for every set of nodes, keys,              *)
(* configurations and handlers: its types; that the file of a node follows *)
(* its memory as long as no node has been stopped; and that the one        *)
(* configuration put for a key reaches every node, whichever requests are  *)
(* lost, files not written and nodes stopped and started, except where the *)
(* model books that a node missed it.                                      *)
(***************************************************************************)
EXTENDS RateConfigSync, TLAPS

\* The domains of what TypeOK states of each node and handler.
Shape == /\ file \in [Nodes -> Table \union {Torn}]
         /\ bytes \in [Nodes -> Table \union {Torn}]
         /\ work \in [Handlers -> Task \union {NoWork}]
         /\ json \in [Handlers -> Table]

TypeInv == TypeOK /\ Shape

\* An empty table, and the initial values of the handlers.
LEMMA EmptyType == Empty \in Table
BY DEF Empty, Table

\* All nodes are up with empty tables.
LEMMA InitType == Init => TypeInv
<1> SUFFICES ASSUME Init PROVE TypeInv
  OBVIOUS
<1>1. Shape
  BY EmptyType DEF Init, Shape
<1>2. TypeOK
  BY EmptyType, ConfigAssumption DEF Init, TypeOK
<1> QED BY <1>1, <1>2 DEF TypeInv

\* A handler that is not idle has a task, on a node that is not down.
LEMMA TaskOf ==
  ASSUME TypeInv, NEW h \in Handlers, pc[h] # "idle"
  PROVE  /\ work[h] \in Task
         /\ work[h].node \in Nodes
         /\ work[h].key \in Keys
         /\ work[h].cfg \in Configs
         /\ work[h].api \in BOOLEAN
         /\ Registered(work[h].node)
BY DEF TypeInv, TypeOK, Task

\* PUT /rate and SyncRateConfig give an idle handler a task.
LEMMA TakeType ==
  ASSUME TypeInv, NEW h \in Handlers, NEW t \in Task, pc[h] = "idle",
         Registered(t.node),
         pc' = [pc EXCEPT ![h] = "write"],
         work' = [work EXCEPT ![h] = t],
         net' \subseteq net,
         puts' \in [Keys -> 0 .. MaxPuts],
         acked' \in Table,
         UNCHANGED <<state, mem, file, bytes, json, resend, stops, missed,
                     unsaved>>
  PROVE  TypeInv'
<1>1. Shape'
  BY DEF TypeInv, Shape
<1>2. pc' \in [Handlers -> {"idle", "write", "save", "saving", "send"}]
  BY DEF TypeInv, TypeOK
<1>3. \A g \in Handlers : /\ pc'[g] # "idle" => work'[g] \in Task
                          /\ json'[g] \in Table
                          /\ pc'[g] # "idle" => Registered(work[g].node)'
  BY DEF TypeInv, TypeOK, Shape, Registered
<1>4. TypeOK'
  BY <1>2, <1>3 DEF TypeInv, TypeOK
<1> QED BY <1>1, <1>4 DEF TypeInv

\* Writing the map.
LEMMA WriteType ==
  ASSUME TypeInv, NEW h \in Handlers, WriteConfig(h)
  PROVE  TypeInv'
<1>1. pc[h] # "idle"
  BY DEF WriteConfig
<1>2. work[h].node \in Nodes /\ work[h].key \in Keys /\ work[h].cfg \in Configs
  BY <1>1, TaskOf
<1>3. mem' \in [Nodes -> Table]
  BY <1>2 DEF WriteConfig, TypeInv, TypeOK, Table
<1>4. Shape'
  BY DEF WriteConfig, TypeInv, Shape
<1>5. TypeOK'
  BY <1>1, <1>3 DEF WriteConfig, TypeInv, TypeOK, Shape, Registered
<1> QED BY <1>4, <1>5 DEF TypeInv

\* Marshalling the map and truncating the file.
LEMMA SaveStartType ==
  ASSUME TypeInv, NEW h \in Handlers, SaveStart(h)
  PROVE  TypeInv'
<1>1. pc[h] # "idle"
  BY DEF SaveStart
<1>2. work[h].node \in Nodes
  BY <1>1, TaskOf
<1>3. Shape'
  BY <1>2 DEF SaveStart, TypeInv, TypeOK, Shape
<1>4. missed' \subseteq Nodes \X Keys
  BY <1>2 DEF SaveStart, TypeInv, TypeOK, Overwritten
<1>5. TypeOK'
  BY <1>1, <1>3, <1>4 DEF SaveStart, TypeInv, TypeOK, Shape, Registered
<1> QED BY <1>3, <1>5 DEF TypeInv

\* Writing the file, or failing to.
LEMMA SaveEndType ==
  ASSUME TypeInv, NEW h \in Handlers, SaveEnd(h) \/ SaveFails(h)
  PROVE  TypeInv'
<1>1. pc[h] # "idle"
  BY DEF SaveEnd, SaveFails
<1>2. work[h].node \in Nodes
  BY <1>1, TaskOf
<1>3. Shape'
  BY <1>2, EmptyType DEF SaveEnd, SaveFails, Saved, TypeInv, Shape
<1>4. TypeOK'
  BY <1>1, <1>2, <1>3
  DEF SaveEnd, SaveFails, Saved, TypeInv, TypeOK, Shape, Registered
<1> QED BY <1>3, <1>4 DEF TypeInv

\* Sending the configuration and answering.
LEMMA SendType ==
  ASSUME TypeInv, NEW h \in Handlers, SendConfig(h)
  PROVE  TypeInv'
<1>1. pc[h] # "idle"
  BY DEF SendConfig
<1>2. /\ work[h].node \in Nodes
      /\ work[h].key \in Keys
      /\ work[h].cfg \in Configs
  BY <1>1, TaskOf
<1>3. net' \subseteq Request /\ missed' \subseteq Nodes \X Keys
  BY <1>2 DEF SendConfig, TypeInv, TypeOK, Request
<1>4. Shape'
  BY DEF SendConfig, TypeInv, Shape
<1>5. acked' \in Table
  BY <1>2 DEF SendConfig, TypeInv, TypeOK, Table
<1>6. TypeOK'
  BY <1>1, <1>3, <1>4, <1>5 DEF SendConfig, TypeInv, TypeOK, Shape, Registered
<1> QED BY <1>4, <1>6 DEF TypeInv

\* A stop clears what was in the node's memory, its handlers included.
LEMMA StopType ==
  ASSUME TypeInv, NEW n \in Nodes, Stop(n)
  PROVE  TypeInv'
<1>1. Shape'
  BY EmptyType DEF Stop, TypeInv, Shape
<1>2. /\ state' \in [Nodes -> {"down", "joined", "starting", "loading", "up"}]
      /\ mem' \in [Nodes -> Table]
      /\ pc' \in [Handlers -> {"idle", "write", "save", "saving", "send"}]
      /\ net' \subseteq Request
      /\ resend' \subseteq Nodes \X Nodes
  BY EmptyType DEF Stop, TypeInv, TypeOK
<1>3. \A h \in Handlers : pc'[h] # "idle" => /\ pc[h] # "idle"
                                             /\ work[h].node # n
                                             /\ work'[h] = work[h]
  BY DEF Stop
<1>4. \A h \in Handlers : pc'[h] # "idle" => /\ work'[h] \in Task
                                             /\ Registered(work[h].node)'
  BY <1>3, TaskOf DEF Stop, TypeInv, TypeOK, Registered
<1>5. stops' \in 0 .. MaxStops
  BY ConfigAssumption DEF Stop, TypeInv, TypeOK
<1>6. missed' \subseteq Nodes \X Keys
  BY DEF Stop, TypeInv, TypeOK, Request, LostBy
<1>7. TypeOK'
  BY <1>1, <1>2, <1>4, <1>5, <1>6 DEF Stop, TypeInv, TypeOK, Shape
<1> QED BY <1>1, <1>7 DEF TypeInv

\* A node joins, registers, reads its file, and merges it into its map.
LEMMA StartType ==
  ASSUME TypeInv, NEW n \in Nodes, Boot(n)
  PROVE  TypeInv'
<1> USE DEF Boot, Register
<1>1. Shape'
  BY EmptyType DEF Start, LoadRead, LoadMerge, TypeInv, Shape
<1>2. /\ state' \in [Nodes -> {"down", "joined", "starting", "loading", "up"}]
      /\ \A o \in Nodes : Registered(o) => Registered(o)'
  BY DEF Start, LoadRead, LoadMerge, TypeInv, TypeOK, Registered
<1>3. mem' \in [Nodes -> Table]
  <2>1. CASE LoadMerge(n)
    <3>1. bytes[n] \in Table \union {Torn} /\ mem[n] \in Table
      BY DEF TypeInv, TypeOK
    <3>2. Unmarshal(mem[n], bytes[n]) \in Table
      BY <3>1 DEF Unmarshal, Table
    <3> QED BY <2>1, <3>2 DEF LoadMerge, TypeInv, TypeOK
  <2>2. CASE Start(n) \/ Register(n) \/ LoadRead(n)
    BY <2>2 DEF Start, LoadRead, TypeInv, TypeOK
  <2> QED BY <2>1, <2>2
<1>4. resend' \subseteq Nodes \X Nodes
  BY DEF Start, LoadRead, LoadMerge, TypeInv, TypeOK
<1>5. /\ UNCHANGED <<pc, work, json, net, puts, stops, acked, unsaved>>
      /\ missed' \subseteq missed
  BY DEF Start, LoadRead, LoadMerge, history
<1>6. TypeOK'
  BY <1>1, <1>2, <1>3, <1>4, <1>5, TaskOf DEF TypeInv, TypeOK, Shape
<1> QED BY <1>1, <1>6 DEF TypeInv

\* HandleEvent sends the whole table.
LEMMA ResendType ==
  ASSUME TypeInv, NEW n \in Nodes, NEW o \in Nodes, Resend(n, o)
  PROVE  TypeInv'
<1>1. net' \subseteq Request
  BY DEF Resend, TypeInv, TypeOK, Table, Request
<1>2. Shape'
  BY DEF Resend, TypeInv, Shape
<1>3. TypeOK'
  BY <1>1 DEF Resend, TypeInv, TypeOK, Shape, history, Registered
<1> QED BY <1>2, <1>3 DEF TypeInv

\* Every step keeps the types.
LEMMA NextType ==
  ASSUME TypeInv, [Next]_vars
  PROVE  TypeInv'
<1>1. ASSUME NEW h \in Handlers, NEW n \in Nodes, NEW k \in Keys,
             NEW c \in Configs, PutRate(h, n, k, c)
      PROVE  TypeInv'
  <2>1. [node |-> n, key |-> k, cfg |-> c, api |-> TRUE] \in Task
    BY DEF Task
  <2>2. puts' \in [Keys -> 0 .. MaxPuts]
    BY <1>1, ConfigAssumption DEF PutRate, TypeInv, TypeOK
  <2>3. acked' \in Table
    BY <1>1 DEF PutRate, TypeInv, TypeOK, Table
  <2> QED BY <1>1, <2>1, <2>2, <2>3, TakeType DEF PutRate, Registered
<1>2. ASSUME NEW h \in Handlers, NEW r \in net, SyncRateConfig(h, r)
      PROVE  TypeInv'
  <2>1. [node |-> r.to, key |-> r.key, cfg |-> r.cfg, api |-> FALSE] \in Task
    BY DEF Task, Request, TypeInv, TypeOK
  <2>2. puts' \in [Keys -> 0 .. MaxPuts]
    BY <1>2 DEF SyncRateConfig, TypeInv, TypeOK
  <2>3. acked' \in Table
    BY <1>2 DEF SyncRateConfig, history, TypeInv, TypeOK
  <2> QED BY <1>2, <2>1, <2>2, <2>3, TakeType DEF SyncRateConfig, history
<1>3. ASSUME NEW h \in Handlers, Handle(h)
      PROVE  TypeInv'
  BY <1>2, <1>3, WriteType, SaveStartType, SaveEndType, SendType DEF Handle
<1>4. ASSUME NEW r \in net, RequestFails(r)
      PROVE  TypeInv'
  BY <1>4 DEF RequestFails, TypeInv, TypeOK, Shape, Request, Registered
<1>5. ASSUME NEW n \in Nodes, Stop(n) \/ Boot(n)
      PROVE  TypeInv'
  BY <1>5, StopType, StartType
<1>6. ASSUME NEW n \in Nodes, NEW o \in Nodes, Resend(n, o)
      PROVE  TypeInv'
  BY <1>6, ResendType
<1>7. CASE UNCHANGED vars
  BY <1>7 DEF vars, history, TypeInv, TypeOK, Shape, Registered
<1>8. ASSUME NEW h \in Handlers, SaveFails(h)
      PROVE  TypeInv'
  BY <1>8, SaveEndType
<1> QED BY <1>1, <1>3, <1>4, <1>5, <1>6, <1>7, <1>8 DEF Next

\* The nodes of the cluster keep the types of their tables, files and requests,
\* and no handler runs on a node that has not registered one, across stops,
\* starts and lost requests.
THEOREM TypeCorrect == Spec => []TypeOK
<1>1. Init => TypeInv
  BY InitType
<1>2. TypeInv /\ [Next]_vars => TypeInv'
  BY NextType
<1>3. TypeInv => TypeOK
  BY DEF TypeInv
<1> QED BY <1>1, <1>2, <1>3, PTL DEF Spec

-----------------------------------------------------------------------------
(* The file.                                                               *)

\* Some handler of n is between writing the map and having written the file.
Busy(n) == \E h \in Handlers : pc[h] \in {"save", "saving"} /\ work[h].node = n

\* While SaveRateConfig writes the file it holds the lock, so that the map is
\* still what it marshalled; without such a handler the file is the map.
FileInv ==
  stops = 0 => /\ \A n \in Nodes : state[n] = "up"
               /\ resend = {}
               /\ \A n \in Nodes \ unsaved : Busy(n) \/ file[n] = mem[n]
               /\ \A h \in Handlers : pc[h] = "saving"
                                        => json[h] = mem[work[h].node]

\* A step that writes no map and no file, and neither ends nor begins a save.
LEMMA FileQuiet ==
  ASSUME TypeInv, FileInv, UNCHANGED <<state, mem, file, stops, unsaved>>,
         resend' \subseteq resend,
         \A h \in Handlers : /\ pc'[h] = "saving"
                                  => pc[h] = "saving" /\ json'[h] = json[h]
                             /\ pc[h] \in {"save", "saving"} => pc'[h] = pc[h]
                             /\ pc[h] \in {"save", "saving"}
                                  => work'[h] = work[h]
  PROVE  FileInv'
<1>1. \A n \in Nodes : Busy(n) => Busy(n)'
  BY DEF Busy
<1> QED BY <1>1 DEF FileInv

\* The lock keeps the map from being written while it is saved.
LEMMA FileWrite ==
  ASSUME TypeInv, FileInv, NEW h \in Handlers, WriteConfig(h)
  PROVE  FileInv'
<1> DEFINE n == work[h].node
<1>1. pc[h] = "write" /\ n \in Nodes
  BY TaskOf DEF WriteConfig
<1>2. /\ \A o \in Nodes : o # n => mem'[o] = mem[o]
      /\ pc' = [pc EXCEPT ![h] = "save"]
      /\ UNCHANGED <<state, file, work, json, resend, stops, unsaved>>
      /\ ~Saving(n)
  BY <1>1 DEF WriteConfig, TypeInv, TypeOK
<1>3. Busy(n)'
  BY <1>1, <1>2 DEF Busy, TypeInv, TypeOK
<1>4. \A o \in Nodes : Busy(o) => Busy(o)'
  BY <1>1, <1>2 DEF Busy, TypeInv, TypeOK
<1>5. \A g \in Handlers : pc'[g] = "saving"
                            => /\ pc[g] = "saving"
                               /\ work[g].node # n
                               /\ work[g].node \in Nodes
  BY <1>1, <1>2, TaskOf DEF Saving, TypeInv, TypeOK
<1> QED BY <1>1, <1>2, <1>3, <1>4, <1>5 DEF FileInv

\* What is marshalled is the map.
LEMMA FileSaveStart ==
  ASSUME TypeInv, FileInv, NEW h \in Handlers, SaveStart(h)
  PROVE  FileInv'
<1> DEFINE n == work[h].node
<1>1. pc[h] = "save" /\ n \in Nodes
  BY TaskOf DEF SaveStart
<1>2. /\ \A o \in Nodes : o # n => file'[o] = file[o]
      /\ pc' = [pc EXCEPT ![h] = "saving"]
      /\ json' = [json EXCEPT ![h] = mem[n]]
      /\ UNCHANGED <<state, mem, work, resend, stops, unsaved>>
  BY <1>1 DEF SaveStart, TypeInv, Shape
<1>3. Busy(n)'
  BY <1>1, <1>2 DEF Busy, TypeInv, TypeOK
<1>4. \A o \in Nodes : Busy(o) => Busy(o)'
  BY <1>1, <1>2 DEF Busy, TypeInv, TypeOK
<1>5. \A g \in Handlers : g # h => pc'[g] = pc[g] /\ json'[g] = json[g]
  BY <1>2 DEF TypeInv, TypeOK, Shape
<1>6. json'[h] = mem[n]
  BY <1>2 DEF TypeInv, Shape
<1> QED BY <1>1, <1>2, <1>3, <1>4, <1>5, <1>6 DEF FileInv

\* What is written is what was marshalled, which still is the map.
LEMMA FileSaveEnd ==
  ASSUME TypeInv, FileInv, NEW h \in Handlers, SaveEnd(h)
  PROVE  FileInv'
<1> DEFINE n == work[h].node
<1>1. pc[h] = "saving" /\ n \in Nodes
  BY TaskOf DEF SaveEnd
<1>2. /\ file'[n] = json[h]
      /\ \A o \in Nodes : o # n => file'[o] = file[o]
      /\ UNCHANGED <<state, mem, resend, stops>>
      /\ unsaved' = unsaved \ {n}
  BY <1>1 DEF SaveEnd, TypeInv, Shape
<1>3. /\ \A g \in Handlers : g # h => /\ pc'[g] = pc[g]
                                      /\ json'[g] = json[g]
                                      /\ work'[g] = work[g]
      /\ pc'[h] \in {"send", "idle"}
  BY <1>1 DEF SaveEnd, Saved, TypeInv, TypeOK, Shape
<1>4. \A o \in Nodes : o # n /\ Busy(o) => Busy(o)'
  BY <1>3 DEF Busy
<1> QED BY <1>1, <1>2, <1>3, <1>4 DEF FileInv

\* A save that fails leaves its node out of the claim.
LEMMA FileSaveFails ==
  ASSUME TypeInv, FileInv, NEW h \in Handlers, SaveFails(h)
  PROVE  FileInv'
<1> DEFINE n == work[h].node
<1>1. pc[h] \in {"save", "saving"} /\ n \in Nodes
  BY TaskOf DEF SaveFails
<1>2. /\ UNCHANGED <<state, mem, file, resend, stops>>
      /\ unsaved' = unsaved \union {n}
  BY <1>1 DEF SaveFails, TypeInv, Shape
<1>3. /\ \A g \in Handlers : g # h => /\ pc'[g] = pc[g]
                                      /\ json'[g] = json[g]
                                      /\ work'[g] = work[g]
      /\ pc'[h] \in {"send", "idle"}
  BY <1>1 DEF SaveFails, Saved, TypeInv, TypeOK, Shape
<1>4. \A o \in Nodes : o # n /\ Busy(o) => Busy(o)'
  BY <1>3 DEF Busy
<1> QED BY <1>1, <1>2, <1>3, <1>4 DEF FileInv

\* Every step keeps the invariant of the file.
LEMMA NextFile ==
  ASSUME TypeInv, FileInv, [Next]_vars
  PROVE  FileInv'
<1>1. ASSUME NEW h \in Handlers, NEW n \in Nodes, NEW k \in Keys,
             NEW c \in Configs, PutRate(h, n, k, c)
      PROVE  FileInv'
  BY <1>1, FileQuiet DEF PutRate, TypeInv, TypeOK, Shape
<1>2. ASSUME NEW h \in Handlers, NEW r \in net, SyncRateConfig(h, r)
      PROVE  FileInv'
  BY <1>2, FileQuiet DEF SyncRateConfig, history, TypeInv, TypeOK, Shape
<1>3. ASSUME NEW h \in Handlers, SendConfig(h)
      PROVE  FileInv'
  BY <1>3, FileQuiet DEF SendConfig, TypeInv, TypeOK, Shape
<1>4. ASSUME NEW h \in Handlers, Handle(h)
      PROVE  FileInv'
  BY <1>2, <1>3, <1>4, FileWrite, FileSaveStart, FileSaveEnd DEF Handle
<1>5. ASSUME NEW r \in net, RequestFails(r)
      PROVE  FileInv'
  BY <1>5, FileQuiet DEF RequestFails
<1>6. ASSUME NEW n \in Nodes, Stop(n)
      PROVE  FileInv'
  BY <1>6 DEF Stop, FileInv, TypeInv, TypeOK
<1>7. ASSUME NEW n \in Nodes, Boot(n)
      PROVE  FileInv'
  <2>1. state[n] # "up" /\ UNCHANGED stops
    BY <1>7 DEF Boot, Start, Register, LoadRead, LoadMerge
  <2> QED BY <2>1 DEF FileInv
<1>8. ASSUME NEW n \in Nodes, NEW o \in Nodes, Resend(n, o)
      PROVE  FileInv'
  BY <1>8, FileQuiet DEF Resend, history
<1>9. CASE UNCHANGED vars
  BY <1>9, FileQuiet DEF vars, history
<1> QED
  BY <1>1, <1>4, <1>5, <1>6, <1>7, <1>8, <1>9, FileSaveFails DEF Next

\* As long as no node has been stopped, rateconfig.json of a node is its map
\* whenever no handler is between writing the one and the other and its last
\* WriteFile did not fail, whatever the number of handlers that save at the
\* same time and whichever requests are lost.
THEOREM FileHolds == Spec => []FileMatchesMemory
<1>1. Init => TypeInv /\ FileInv
  BY InitType DEF Init, FileInv
<1>2. TypeInv /\ FileInv /\ [Next]_vars => TypeInv' /\ FileInv'
  BY NextType, NextFile
<1>3. TypeInv /\ FileInv => FileMatchesMemory
  BY DEF FileInv, Busy, FileMatchesMemory
<1> QED BY <1>1, <1>2, <1>3, PTL DEF Spec
-----------------------------------------------------------------------------
(* The configurations.                                                     *)

\* All that is known of the key k, anywhere, is the configuration c.
Uniform(k, c) ==
  /\ \A n \in Nodes : /\ mem[n][k] \in {None, c}
                      /\ file[n] # Torn => file[n][k] \in {None, c}
                      /\ bytes[n] # Torn => bytes[n][k] \in {None, c}
  /\ \A r \in net : r.key = k => r.cfg = c
  /\ \A h \in Handlers : /\ json[h][k] \in {None, c}
                         /\ pc[h] # "idle" /\ work[h].key = k
                              => work[h].cfg = c
  /\ acked[k] \in {None, c}

\* A request with a configuration of k is on its way to n.
OnTheWire(n, k) == \E r \in net : r.to = n /\ r.key = k

\* A handler of SyncRateConfig on n is about to write k.
AtHand(n, k) == \E h \in Handlers : /\ pc[h] = "write" /\ ~work[h].api
                                    /\ work[h].node = n /\ work[h].key = k

\* A member that has a configuration of k is to send what it has to n.
Promised(n, k) == \E o \in Nodes : <<o, n>> \in resend /\ mem[o][k] # None

\* n is down or starts, and has yet to read the file that holds k.
OnDisk(n, k) == /\ ConfigDirIsCwd
                /\ state[n] \in {"down", "joined", "starting"}
                /\ ~Saving(n)
                /\ file[n] # Torn /\ file[n][k] # None

\* n has read k from its file and is about to unmarshal it.
JustRead(n, k) == /\ state[n] = "loading"
                  /\ bytes[n] # Torn /\ bytes[n][k] # None

\* The node n has a configuration for k, or is about to get one.
Coming(n, k) ==
  \/ mem[n][k] # None
  \/ OnTheWire(n, k)
  \/ AtHand(n, k)
  \/ Promised(n, k)
  \/ OnDisk(n, k)
  \/ JustRead(n, k)

\* A handler that has written its configuration has it in the map of its node.
WrittenInv == \A h \in Handlers : pc[h] \in {"save", "saving", "send"}
                                    => mem[work[h].node][work[h].key] # None

\* What has been answered is on its way to every node that has not missed it.
ComingInv == \A n \in Nodes, k \in Keys :
               acked[k] # None /\ <<n, k>> \notin missed => Coming(n, k)

\* With one PUT for each key there is one configuration for it, or none.
OneConfigInv == \A k \in Keys : /\ \E c \in Configs \union {None} : Uniform(k, c)
                                /\ puts[k] = 0 => Uniform(k, None)

KeptInv == OneConfigInv /\ WrittenInv /\ ComingInv

\* A step that adds no configuration leaves every key with the one it has.
LEMMA OneStep ==
  ASSUME OneConfigInv, UNCHANGED puts,
         \A k \in Keys, c \in Configs \union {None} :
           Uniform(k, c) => Uniform(k, c)'
  PROVE  OneConfigInv'
BY DEF OneConfigInv

\* The one PUT of a key brings in its configuration.
LEMMA KeptPut ==
  ASSUME TypeInv, KeptInv, MaxPuts = 1, NEW h \in Handlers, NEW n \in Nodes,
         NEW k \in Keys, NEW c \in Configs, PutRate(h, n, k, c)
  PROVE  KeptInv'
<1>1. puts[k] = 0 /\ puts'[k] = 1 /\ \A j \in Keys : j # k => puts'[j] = puts[j]
  BY DEF PutRate, TypeInv, TypeOK
<1>2. Uniform(k, None)
  BY <1>1 DEF KeptInv, OneConfigInv
<1>3. /\ \A g \in Handlers : g # h => pc'[g] = pc[g] /\ work'[g] = work[g]
      /\ pc'[h] = "write"
      /\ work'[h].key = k /\ work'[h].cfg = c
      /\ pc[h] = "idle"
      /\ acked'[k] = None /\ \A j \in Keys : j # k => acked'[j] = acked[j]
      /\ UNCHANGED <<state, mem, file, bytes, json, net, resend, missed>>
  BY DEF PutRate, TypeInv, TypeOK, Shape, Table
<1>4. Uniform(k, c)'
  <2>1. \A g \in Handlers : pc[g] # "idle" => work[g].key # k
    BY <1>2, TaskOf, ConfigAssumption DEF Uniform
  <2>2. \A r \in net : r.key # k
    BY <1>2, ConfigAssumption DEF Uniform, TypeInv, TypeOK, Request
  <2> QED BY <1>2, <1>3, <2>1, <2>2 DEF Uniform
<1>5. ASSUME NEW j \in Keys, j # k, NEW d, Uniform(j, d)
      PROVE  Uniform(j, d)'
  BY <1>3, <1>5 DEF Uniform
<1>6. OneConfigInv'
  BY <1>1, <1>4, <1>5 DEF KeptInv, OneConfigInv
<1>7. WrittenInv'
  BY <1>3 DEF KeptInv, WrittenInv
<1>8. \A o \in Nodes : Saving(o)' => Saving(o)
  BY <1>3 DEF Saving
<1>9. \A j \in Keys, o \in Nodes : Coming(o, j) => Coming(o, j)'
  BY <1>3, <1>8 DEF Coming, OnTheWire, AtHand, Promised, OnDisk, JustRead
<1>10. ComingInv'
  BY <1>3, <1>9 DEF KeptInv, ComingInv
<1> QED BY <1>6, <1>7, <1>10 DEF KeptInv

\* A request that is received becomes the task of a handler.
LEMMA KeptSync ==
  ASSUME TypeInv, KeptInv, NEW h \in Handlers, NEW r \in net,
         SyncRateConfig(h, r)
  PROVE  KeptInv'
<1>1. /\ \A g \in Handlers : g # h => pc'[g] = pc[g] /\ work'[g] = work[g]
      /\ pc'[h] = "write"
      /\ work'[h].node = r.to /\ work'[h].key = r.key /\ work'[h].cfg = r.cfg
      /\ ~work'[h].api
      /\ pc[h] = "idle"
      /\ net' = net \ {r}
      /\ UNCHANGED <<state, mem, file, bytes, json, resend, puts, acked, missed>>
  BY DEF SyncRateConfig, history, TypeInv, TypeOK, Shape
<1>2. \A k \in Keys, c \in Configs \union {None} :
        Uniform(k, c) => Uniform(k, c)'
  BY <1>1 DEF Uniform
<1>3. \A o \in Nodes : Saving(o)' => Saving(o)
  BY <1>1 DEF Saving
<1>4. \A k \in Keys, n \in Nodes : /\ OnTheWire(n, k) => Coming(n, k)'
                                   /\ AtHand(n, k) => AtHand(n, k)'
  BY <1>1 DEF Coming, OnTheWire, AtHand
<1>5. \A k \in Keys, n \in Nodes : Coming(n, k) => Coming(n, k)'
  BY <1>1, <1>3, <1>4 DEF Coming, Promised, OnDisk, JustRead
<1>6. WrittenInv'
  BY <1>1 DEF KeptInv, WrittenInv
<1>7. ComingInv'
  BY <1>1, <1>5 DEF KeptInv, ComingInv
<1> QED BY <1>1, <1>2, <1>6, <1>7, OneStep DEF KeptInv

\* A handler writes its configuration into the map of its node.
LEMMA KeptWrite ==
  ASSUME TypeInv, KeptInv, NEW h \in Handlers, WriteConfig(h)
  PROVE  KeptInv'
<1> DEFINE n == work[h].node
           k == work[h].key
<1>1. pc[h] = "write"
  BY DEF WriteConfig
<1>2. n \in Nodes /\ k \in Keys /\ work[h].cfg \in Configs
  BY <1>1, TaskOf
<1>3. work[h].cfg # None
  BY <1>2, ConfigAssumption
<1>4. mem \in [Nodes -> [Keys -> Configs \union {None}]]
  BY DEF TypeInv, TypeOK, Table
<1>5. /\ mem'[n][k] = work[h].cfg
      /\ \A o \in Nodes, j \in Keys : o # n \/ j # k => mem'[o][j] = mem[o][j]
  BY <1>2, <1>4 DEF WriteConfig
<1>6. /\ \A g \in Handlers : g # h => pc'[g] = pc[g]
      /\ pc'[h] = "save"
      /\ missed' = missed \ {<<n, k>>}
      /\ UNCHANGED <<state, file, bytes, json, work, net, resend, acked, puts>>
  BY DEF WriteConfig, TypeInv, TypeOK
<1> HIDE DEF n, k
<1>7. \A o \in Nodes, j \in Keys : mem[o][j] # None => mem'[o][j] # None
  BY <1>3, <1>5
<1>8. ASSUME NEW j \in Keys, NEW c \in Configs \union {None}, Uniform(j, c)
      PROVE  Uniform(j, c)'
  <2>1. \A o \in Nodes : mem'[o][j] \in {None, c}
    BY <1>1, <1>5, <1>8 DEF Uniform, k
  <2> QED BY <1>1, <1>6, <1>8, <2>1 DEF Uniform
<1>9. \A o \in Nodes : Saving(o)' => Saving(o)
  BY <1>6 DEF Saving
<1>10. \A j \in Keys, o \in Nodes : /\ AtHand(o, j) => Coming(o, j)'
                                    /\ Promised(o, j) => Promised(o, j)'
  BY <1>1, <1>3, <1>5, <1>6, <1>7 DEF Coming, AtHand, Promised, n, k
<1>11. \A j \in Keys, o \in Nodes : Coming(o, j) => Coming(o, j)'
  BY <1>6, <1>7, <1>9, <1>10 DEF Coming, OnTheWire, OnDisk, JustRead
<1>12. WrittenInv'
  <2> SUFFICES ASSUME NEW g \in Handlers, pc'[g] \in {"save", "saving", "send"}
               PROVE  mem'[work[g].node][work[g].key] # None
    BY <1>6 DEF WrittenInv
  <2>1. CASE g = h
    BY <1>3, <1>5, <2>1 DEF n, k
  <2>2. CASE g # h
    <3>1. pc[g] = pc'[g] /\ pc[g] # "idle"
      BY <1>6, <2>2
    <3> QED BY <1>7, <3>1, TaskOf DEF KeptInv, WrittenInv
  <2> QED BY <2>1, <2>2
<1>13. \A o \in Nodes, j \in Keys : o = n /\ j = k => Coming(o, j)'
  BY <1>3, <1>5 DEF Coming
<1>14. ComingInv'
  BY <1>6, <1>11, <1>13 DEF KeptInv, ComingInv
<1> QED BY <1>6, <1>8, <1>12, <1>14, OneStep DEF KeptInv

\* A save replaces a file its node has not read only by booking what is lost.
LEMMA KeptSaveStart ==
  ASSUME TypeInv, KeptInv, NEW h \in Handlers, SaveStart(h)
  PROVE  KeptInv'
<1>1. pc[h] = "save"
  BY DEF SaveStart
<1>2. PICK n \in Nodes : n = work[h].node /\ Registered(n)
  BY <1>1, TaskOf
<1>3. /\ pc' = [pc EXCEPT ![h] = "saving"]
      /\ json' = [json EXCEPT ![h] = mem[n]]
      /\ file' = [file EXCEPT ![n] = Torn]
      /\ missed' = missed \union ({n} \X Overwritten(n))
      /\ UNCHANGED <<state, mem, bytes, work, net, resend, puts, acked>>
  BY <1>2 DEF SaveStart
<1>4. /\ \A g \in Handlers : g # h => pc'[g] = pc[g] /\ json'[g] = json[g]
      /\ pc'[h] = "saving" /\ json'[h] = mem[n]
      /\ file'[n] = Torn /\ \A o \in Nodes : o # n => file'[o] = file[o]
  BY <1>3 DEF TypeInv, TypeOK, Shape
<1>5. \A k \in Keys, c \in Configs \union {None} :
        Uniform(k, c) => Uniform(k, c)'
  BY <1>1, <1>3, <1>4 DEF Uniform
<1>6. WrittenInv'
  BY <1>1, <1>3, <1>4 DEF KeptInv, WrittenInv
<1>7. ASSUME NEW o \in Nodes, NEW k \in Keys, OnDisk(o, k), <<o, k>> \notin missed'
      PROVE  Coming(o, k)'
  <2>1. CASE o # n
    <3>1. ~Saving(o)'
      BY <1>2, <1>3, <1>4, <1>7, <2>1 DEF Saving, OnDisk
    <3> QED BY <1>3, <1>4, <1>7, <2>1, <3>1 DEF OnDisk, Coming
  <2>2. CASE o = n
    <3>1. state[n] = "starting" /\ file[n] # Torn /\ file[n][k] # None
      BY <1>2, <1>7, <2>2 DEF OnDisk, Registered
    <3>2. k \notin Overwritten(n)
      BY <1>3, <1>7, <2>2
    <3>3. mem[n][k] # None
      BY <3>1, <3>2 DEF Overwritten
    <3> QED BY <1>3, <2>2, <3>3 DEF Coming
  <2> QED BY <2>1, <2>2
<1>8. \A o \in Nodes, k \in Keys : AtHand(o, k) => AtHand(o, k)'
  BY <1>1, <1>3, <1>4 DEF AtHand
<1>9. \A o \in Nodes, k \in Keys :
        Coming(o, k) /\ <<o, k>> \notin missed' => Coming(o, k)'
  BY <1>3, <1>7, <1>8 DEF Coming, OnTheWire, Promised, JustRead
<1>10. ComingInv'
  BY <1>3, <1>9 DEF KeptInv, ComingInv
<1> QED BY <1>3, <1>5, <1>6, <1>10, OneStep DEF KeptInv

\* What is written is what was marshalled; a failed write changes no file.
LEMMA KeptSaved ==
  ASSUME TypeInv, KeptInv, NEW h \in Handlers, SaveEnd(h) \/ SaveFails(h)
  PROVE  KeptInv'
<1>1. pc[h] \in {"save", "saving"}
  BY DEF SaveEnd, SaveFails
<1>2. PICK n \in Nodes : n = work[h].node
  BY <1>1, TaskOf
<1>3. /\ \/ file' = file
         \/ pc[h] = "saving" /\ file' = [file EXCEPT ![n] = json[h]]
      /\ UNCHANGED <<state, mem, bytes, net, resend, puts, acked, missed>>
  BY <1>2 DEF SaveEnd, SaveFails
<1>4. /\ \A g \in Handlers : g # h => /\ pc'[g] = pc[g]
                                      /\ json'[g] = json[g]
                                      /\ work'[g] = work[g]
      /\ pc'[h] \in {"send", "idle"}
      /\ pc'[h] # "idle" => work'[h] = work[h]
      /\ json'[h] = Empty
  BY <1>1 DEF SaveEnd, SaveFails, Saved, TypeInv, TypeOK, Shape
<1>5. ASSUME NEW k \in Keys, NEW c \in Configs \union {None}, Uniform(k, c)
      PROVE  Uniform(k, c)'
  <2>1. \A o \in Nodes : file'[o] # Torn => file'[o][k] \in {None, c}
    BY <1>3, <1>5 DEF Uniform, TypeInv, Shape
  <2>2. \A g \in Handlers : json'[g][k] \in {None, c}
    BY <1>4, <1>5 DEF Uniform, Empty
  <2> QED BY <1>1, <1>3, <1>4, <1>5, <2>1, <2>2 DEF Uniform
<1>6. WrittenInv'
  BY <1>1, <1>3, <1>4 DEF KeptInv, WrittenInv
<1>7. \A o \in Nodes : Saving(o)' => Saving(o)
  BY <1>4 DEF Saving
<1>8. pc[h] = "saving" => Saving(n)
  BY <1>2 DEF Saving
<1>9. \A o \in Nodes, k \in Keys : OnDisk(o, k) => OnDisk(o, k)'
  BY <1>3, <1>7, <1>8 DEF OnDisk, TypeInv, Shape
<1>10. \A o \in Nodes, k \in Keys : AtHand(o, k) => AtHand(o, k)'
  BY <1>1, <1>4 DEF AtHand
<1>11. \A o \in Nodes, k \in Keys : Coming(o, k) => Coming(o, k)'
  BY <1>3, <1>9, <1>10 DEF Coming, OnTheWire, Promised, JustRead
<1>12. ComingInv'
  BY <1>3, <1>11 DEF KeptInv, ComingInv
<1> QED BY <1>3, <1>5, <1>6, <1>12, OneStep DEF KeptInv

\* The configuration that is acknowledged is in the map of the node, and has
\* been sent to every other node or is booked as missed.
LEMMA KeptSend ==
  ASSUME TypeInv, KeptInv, NEW h \in Handlers, SendConfig(h)
  PROVE  KeptInv'
<1>1. pc[h] = "send"
  BY DEF SendConfig
<1>2. PICK n \in Nodes, k \in Keys : work[h].node = n /\ work[h].key = k
  BY <1>1, TaskOf
<1> DEFINE request(o) == [from |-> n, to |-> o, key |-> k, cfg |-> work[h].cfg]
<1>3. PICK reachable \in SUBSET (Nodes \ {n}) :
        /\ net' = net \union {request(o) : o \in reachable}
        /\ missed' = missed \union ((Nodes \ (reachable \union {n})) \X {k})
  BY <1>2 DEF SendConfig
<1>4. /\ pc'[h] = "idle"
      /\ \A g \in Handlers : g # h => pc'[g] = pc[g] /\ work'[g] = work[g]
      /\ acked'[k] = work[h].cfg
      /\ \A j \in Keys : j # k => acked'[j] = acked[j]
      /\ UNCHANGED <<state, mem, file, bytes, json, resend, puts>>
  BY <1>2 DEF SendConfig, TypeInv, TypeOK, Shape, Table
<1>5. ASSUME NEW j \in Keys, NEW c \in Configs \union {None}, Uniform(j, c)
      PROVE  Uniform(j, c)'
  <2>1. \A r \in net' : r.key = j => r.cfg = c
    BY <1>1, <1>2, <1>3, <1>5 DEF Uniform
  <2> QED BY <1>1, <1>2, <1>4, <1>5, <2>1 DEF Uniform
<1>6. \A o \in Nodes : Saving(o)' => Saving(o)
  BY <1>4 DEF Saving
<1>7. \A j \in Keys, o \in Nodes : /\ AtHand(o, j) => AtHand(o, j)'
                                   /\ OnTheWire(o, j) => OnTheWire(o, j)'
  BY <1>1, <1>3, <1>4 DEF AtHand, OnTheWire
<1>8. \A j \in Keys, o \in Nodes : Coming(o, j) => Coming(o, j)'
  BY <1>4, <1>6, <1>7 DEF Coming, Promised, OnDisk, JustRead
<1>9. ASSUME NEW o \in Nodes, <<o, k>> \notin missed' PROVE Coming(o, k)'
  <2>1. CASE o = n
    BY <1>1, <1>2, <1>4, <2>1 DEF KeptInv, WrittenInv, Coming
  <2>2. CASE o # n
    <3>1. o \in reachable
      BY <1>3, <1>9, <2>2
    <3>2. request(o) \in net'
      BY <1>3, <3>1
    <3>3. OnTheWire(o, k)'
      BY <3>2 DEF OnTheWire
    <3> QED BY <3>3 DEF Coming
  <2> QED BY <2>1, <2>2
<1>10. missed \subseteq missed'
  BY <1>3
<1>11. WrittenInv'
  BY <1>4 DEF KeptInv, WrittenInv
<1>12. ComingInv'
  BY <1>4, <1>8, <1>9, <1>10 DEF KeptInv, ComingInv
<1> QED BY <1>4, <1>5, <1>11, <1>12, OneStep DEF KeptInv

\* A request that fails is booked as missed.
LEMMA KeptFails ==
  ASSUME TypeInv, KeptInv, NEW r \in net, RequestFails(r)
  PROVE  KeptInv'
<1>1. /\ net' = net \ {r}
      /\ missed' = missed \union {<<r.to, r.key>>}
      /\ UNCHANGED <<state, mem, file, bytes, pc, work, json, resend, puts,
                     acked>>
  BY DEF RequestFails
<1>2. \A k \in Keys, c \in Configs \union {None} :
        Uniform(k, c) => Uniform(k, c)'
  BY <1>1 DEF Uniform
<1>3. \A n \in Nodes, k \in Keys :
        OnTheWire(n, k) /\ <<n, k>> \notin missed' => OnTheWire(n, k)'
  BY <1>1 DEF OnTheWire
<1>4. \A n \in Nodes, k \in Keys :
        Coming(n, k) /\ <<n, k>> \notin missed' => Coming(n, k)'
  BY <1>1, <1>3
  DEF Coming, AtHand, Promised, OnDisk, JustRead, Saving
<1>5. ComingInv'
  BY <1>1, <1>4 DEF KeptInv, ComingInv
<1>6. WrittenInv'
  BY <1>1 DEF KeptInv, WrittenInv
<1> QED BY <1>1, <1>2, <1>5, <1>6, OneStep DEF KeptInv

\* A node that stops has what it had in its file, or it is booked as missed, as
\* is what it was to send to others.
LEMMA KeptStop ==
  ASSUME TypeInv, KeptInv, NEW n \in Nodes, Stop(n)
  PROVE  KeptInv'
<1>1. PICK unsent \in SUBSET {r \in net : r.from = n} :
        /\ net' = net \ unsent
        /\ missed' = missed
             \union {<<r.to, r.key>> : r \in unsent}
             \union ({p[2] : p \in {q \in resend : q[1] = n}} \X Keys)
             \union ({n} \X LostBy(n))
  BY DEF Stop
<1>2. /\ state'[n] = "down" /\ mem'[n] = Empty /\ bytes'[n] = Empty
      /\ \A o \in Nodes : o # n => /\ state'[o] = state[o]
                                   /\ mem'[o] = mem[o]
                                   /\ bytes'[o] = bytes[o]
      /\ resend' = {p \in resend : p[1] # n}
      /\ UNCHANGED <<file, puts, acked>>
  BY DEF Stop, TypeInv, TypeOK, Shape
<1>3. \A h \in Handlers :
        /\ pc'[h] # "idle" => /\ pc'[h] = pc[h] /\ work'[h] = work[h]
                              /\ work[h].node # n
        /\ pc[h] # "idle" /\ work[h].node # n
             => pc'[h] = pc[h] /\ work'[h] = work[h]
        /\ json'[h] \in {Empty, json[h]}
  BY DEF Stop, TypeInv, TypeOK, Shape
<1>4. ASSUME NEW k \in Keys, NEW c \in Configs \union {None}, Uniform(k, c)
      PROVE  Uniform(k, c)'
  <2>1. \A o \in Nodes : /\ mem'[o][k] \in {None, c}
                         /\ bytes'[o] # Torn => bytes'[o][k] \in {None, c}
    BY <1>2, <1>4 DEF Uniform, Empty
  <2>2. \A h \in Handlers : json'[h][k] \in {None, c}
    BY <1>3, <1>4 DEF Uniform, Empty
  <2> QED BY <1>1, <1>2, <1>3, <1>4, <2>1, <2>2 DEF Uniform
<1>5. WrittenInv'
  <2> SUFFICES ASSUME NEW h \in Handlers, pc'[h] \in {"save", "saving", "send"}
               PROVE  mem'[work'[h].node][work'[h].key] # None
    BY DEF WrittenInv
  <2>1. pc[h] # "idle" /\ work[h].node # n
    BY <1>3
  <2>2. work[h].node \in Nodes
    BY <2>1, TaskOf
  <2> QED BY <1>2, <1>3, <2>1, <2>2 DEF KeptInv, WrittenInv
<1>6. \A o \in Nodes : Saving(o)' => Saving(o)
  BY <1>3 DEF Saving
<1>7. ~Saving(n)'
  BY <1>3 DEF Saving
<1>8. ASSUME NEW o \in Nodes, NEW k \in Keys, <<o, k>> \notin missed'
      PROVE  /\ OnTheWire(o, k) => OnTheWire(o, k)'
             /\ Promised(o, k) => Promised(o, k)'
  <2>1. ASSUME NEW r \in net, r.to = o, r.key = k
        PROVE  r \in net'
    BY <1>1, <1>8, <2>1
  <2>2. ASSUME NEW m \in Nodes, <<m, o>> \in resend
        PROVE  m # n
    BY <1>1, <1>8, <2>2
  <2> QED BY <1>2, <2>1, <2>2 DEF OnTheWire, Promised
<1>9. ASSUME NEW k \in Keys, <<n, k>> \notin missed', Coming(n, k)
      PROVE  Coming(n, k)'
  <2> DEFINE has == Unmarshal(mem[n], bytes[n])
  <2>1. k \notin LostBy(n)
    BY <1>1, <1>9
  <2>2. /\ ConfigDirIsCwd /\ file[n] # Torn
        /\ has[k] \in {None, file[n][k]}
        /\ ~AtHand(n, k)
    BY <2>1 DEF LostBy, AtHand
  <2>3. has[k] = IF bytes[n] # Torn /\ bytes[n][k] # None
                   THEN bytes[n][k] ELSE mem[n][k]
    BY DEF Unmarshal, TypeInv, TypeOK, Table
  <2> HIDE DEF has
  <2>4. CASE mem[n][k] # None \/ JustRead(n, k)
    BY <1>2, <1>7, <2>2, <2>3, <2>4 DEF JustRead, Coming, OnDisk
  <2>5. CASE OnDisk(n, k)
    BY <1>2, <1>7, <2>5 DEF Coming, OnDisk
  <2>6. CASE OnTheWire(n, k) \/ Promised(n, k)
    BY <1>8, <1>9, <2>6 DEF Coming
  <2> QED BY <1>9, <2>2, <2>4, <2>5, <2>6 DEF Coming
<1>10. ASSUME NEW o \in Nodes, o # n, NEW k \in Keys, <<o, k>> \notin missed',
              Coming(o, k)
       PROVE  Coming(o, k)'
  <2>1. AtHand(o, k) => AtHand(o, k)'
    BY <1>3, <1>10 DEF AtHand
  <2>2. OnDisk(o, k) => OnDisk(o, k)'
    BY <1>2, <1>6, <1>10 DEF OnDisk
  <2>3. JustRead(o, k) => JustRead(o, k)'
    BY <1>2, <1>10 DEF JustRead
  <2> QED BY <1>2, <1>8, <1>10, <2>1, <2>2, <2>3 DEF Coming
<1>11. missed \subseteq missed'
  BY <1>1
<1>12. ComingInv'
  BY <1>2, <1>9, <1>10, <1>11 DEF KeptInv, ComingInv
<1> QED BY <1>2, <1>4, <1>5, <1>12, OneStep DEF KeptInv

\* A node that joins is promised what a member that is up has; reading its file
\* and unmarshalling it bring in what it holds and remove nothing.
LEMMA KeptBoot ==
  ASSUME TypeInv, KeptInv, NEW n \in Nodes, Boot(n)
  PROVE  KeptInv'
<1>1. UNCHANGED <<file, pc, work, json, net, puts, acked>>
  BY DEF Boot, Start, Register, LoadRead, LoadMerge, history
<1>2. \A o \in Nodes : Saving(o)' <=> Saving(o)
  BY <1>1 DEF Saving
<1>3. \A o \in Nodes, k \in Keys : /\ OnTheWire(o, k) => OnTheWire(o, k)'
                                   /\ AtHand(o, k) => AtHand(o, k)'
  BY <1>1 DEF OnTheWire, AtHand
<1>4. /\ mem \in [Nodes -> Table]
      /\ state \in [Nodes -> {"down", "joined", "starting", "loading", "up"}]
  BY DEF TypeInv, TypeOK
<1>5. CASE Start(n)
  <2> DEFINE others == {o \in Nodes \ {n} : state[o] # "down"}
             holders(k) == {o \in others : state[o] = "up" /\ mem[o][k] # None}
  <2>1. /\ state[n] = "down" /\ state'[n] = "joined"
        /\ \A o \in Nodes : o # n => state'[o] = state[o]
        /\ resend' = resend \union (others \X {n}) \union ({n} \X others)
        /\ missed' = missed \ ({n} \X {k \in Keys : holders(k) # {}})
        /\ UNCHANGED <<mem, bytes>>
    BY <1>4, <1>5 DEF Start
  <2>2. ASSUME NEW o \in Nodes, NEW k \in Keys, Coming(o, k)
        PROVE  Coming(o, k)'
    <3>1. Promised(o, k) => Promised(o, k)'
      BY <2>1 DEF Promised
    <3>2. OnDisk(o, k) => OnDisk(o, k)'
      BY <1>1, <1>2, <2>1 DEF OnDisk
    <3>3. JustRead(o, k) => JustRead(o, k)'
      BY <2>1 DEF JustRead
    <3> QED BY <1>3, <2>1, <2>2, <3>1, <3>2, <3>3 DEF Coming
  <2>3. ASSUME NEW o \in Nodes, NEW k \in Keys, <<o, k>> \in missed,
               <<o, k>> \notin missed'
        PROVE  Coming(o, k)'
    <3>1. o = n /\ holders(k) # {}
      BY <2>1, <2>3
    <3>2. PICK m \in others : mem[m][k] # None
      BY <3>1
    <3>3. <<m, n>> \in resend'
      BY <2>1, <3>2
    <3>4. Promised(o, k)'
      BY <2>1, <3>1, <3>2, <3>3 DEF Promised
    <3> QED BY <3>4 DEF Coming
  <2>4. ComingInv'
    BY <1>1, <2>2, <2>3 DEF KeptInv, ComingInv
  <2>5. \A k \in Keys, c \in Configs \union {None} :
          Uniform(k, c) => Uniform(k, c)'
    BY <1>1, <2>1 DEF Uniform
  <2>6. WrittenInv'
    BY <1>1, <2>1 DEF KeptInv, WrittenInv
  <2> QED BY <1>1, <2>4, <2>5, <2>6, OneStep DEF KeptInv
<1>6. CASE Register(n) \/ LoadRead(n)
  <2>1. /\ UNCHANGED <<mem, resend, missed>>
        /\ \A o \in Nodes : o # n => /\ state'[o] = state[o]
                                     /\ bytes'[o] = bytes[o]
    BY <1>4, <1>6 DEF Register, LoadRead, history, TypeInv, Shape
  <2>2. \/ state[n] = "joined" /\ state'[n] = "starting" /\ bytes'[n] = bytes[n]
        \/ /\ state[n] = "starting" /\ state'[n] = "loading"
           /\ bytes'[n] = IF ConfigDirIsCwd THEN file[n] ELSE Empty
    BY <1>4, <1>6 DEF Register, LoadRead, TypeInv, Shape
  <2>3. ASSUME NEW o \in Nodes, NEW k \in Keys, Coming(o, k)
        PROVE  Coming(o, k)'
    <3>1. Promised(o, k) => Promised(o, k)'
      BY <2>1 DEF Promised
    <3>2. OnDisk(o, k) => OnDisk(o, k)' \/ JustRead(o, k)'
      BY <1>1, <1>2, <2>1, <2>2 DEF OnDisk, JustRead
    <3>3. JustRead(o, k) => JustRead(o, k)'
      BY <2>1, <2>2 DEF JustRead
    <3> QED BY <1>3, <2>1, <2>3, <3>1, <3>2, <3>3 DEF Coming
  <2>4. ComingInv'
    BY <1>1, <2>1, <2>3 DEF KeptInv, ComingInv
  <2>5. \A k \in Keys, c \in Configs \union {None} :
          Uniform(k, c) => Uniform(k, c)'
    BY <1>1, <2>1, <2>2 DEF Uniform, Empty
  <2>6. WrittenInv'
    BY <1>1, <2>1 DEF KeptInv, WrittenInv
  <2> QED BY <1>1, <2>4, <2>5, <2>6, OneStep DEF KeptInv
<1>7. CASE LoadMerge(n)
  <2>1. /\ state[n] = "loading" /\ state'[n] = "up" /\ bytes'[n] = Empty
        /\ \A o \in Nodes : o # n => /\ state'[o] = state[o]
                                     /\ bytes'[o] = bytes[o]
                                     /\ mem'[o] = mem[o]
        /\ mem'[n] = Unmarshal(mem[n], bytes[n])
        /\ UNCHANGED <<resend, missed>>
    BY <1>4, <1>7 DEF LoadMerge, history, TypeInv, Shape
  <2>2. \A k \in Keys :
          mem'[n][k] = IF bytes[n] # Torn /\ bytes[n][k] # None
                         THEN bytes[n][k] ELSE mem[n][k]
    BY <2>1 DEF Unmarshal, TypeInv, TypeOK, Table
  <2>3. \A o \in Nodes, k \in Keys : mem[o][k] # None => mem'[o][k] # None
    BY <2>1, <2>2
  <2>4. ASSUME NEW o \in Nodes, NEW k \in Keys, Coming(o, k)
        PROVE  Coming(o, k)'
    <3>1. Promised(o, k) => Promised(o, k)'
      BY <2>1, <2>3 DEF Promised
    <3>2. OnDisk(o, k) => OnDisk(o, k)'
      BY <1>1, <1>2, <2>1 DEF OnDisk
    <3>3. JustRead(o, k) => JustRead(o, k)' \/ mem'[o][k] # None
      BY <2>1, <2>2 DEF JustRead
    <3> QED BY <1>3, <2>3, <2>4, <3>1, <3>2, <3>3 DEF Coming
  <2>5. ComingInv'
    BY <1>1, <2>1, <2>4 DEF KeptInv, ComingInv
  <2>6. ASSUME NEW k \in Keys, NEW c \in Configs \union {None}, Uniform(k, c)
        PROVE  Uniform(k, c)'
    <3>1. \A o \in Nodes : /\ mem'[o][k] \in {None, c}
                           /\ bytes'[o] # Torn => bytes'[o][k] \in {None, c}
      BY <2>1, <2>2, <2>6 DEF Uniform, Empty
    <3> QED BY <1>1, <2>6, <3>1 DEF Uniform
  <2>7. WrittenInv'
    <3> SUFFICES ASSUME NEW h \in Handlers, pc[h] \in {"save", "saving", "send"}
                 PROVE  mem'[work[h].node][work[h].key] # None
      BY <1>1 DEF WrittenInv
    <3>1. work[h].node \in Nodes /\ work[h].key \in Keys
      BY TaskOf
    <3> QED BY <2>3, <3>1 DEF KeptInv, WrittenInv
  <2> QED BY <1>1, <2>5, <2>6, <2>7, OneStep DEF KeptInv
<1> QED BY <1>5, <1>6, <1>7 DEF Boot

\* HandleEvent puts on the wire what was promised.
LEMMA KeptResend ==
  ASSUME TypeInv, KeptInv, NEW n \in Nodes, NEW o \in Nodes, Resend(n, o)
  PROVE  KeptInv'
<1> DEFINE request(k) == [from |-> n, to |-> o, key |-> k, cfg |-> mem[n][k]]
<1>1. /\ resend' = resend \ {<<n, o>>}
      /\ net' = net \union {request(k) : k \in {j \in Keys : mem[n][j] # None}}
      /\ UNCHANGED <<state, mem, file, bytes, pc, work, json, puts, acked,
                     missed>>
  BY DEF Resend, history
<1>2. ASSUME NEW k \in Keys, NEW c \in Configs \union {None}, Uniform(k, c)
      PROVE  Uniform(k, c)'
  <2>1. \A r \in net' : r.key = k => r.cfg = c
    BY <1>1, <1>2 DEF Uniform
  <2> QED BY <1>1, <1>2, <2>1 DEF Uniform
<1>3. ASSUME NEW m \in Nodes, NEW k \in Keys
      PROVE  /\ OnTheWire(m, k) => OnTheWire(m, k)'
             /\ Promised(m, k) => Promised(m, k)' \/ OnTheWire(m, k)'
  <2>1. OnTheWire(m, k) => OnTheWire(m, k)'
    BY <1>1 DEF OnTheWire
  <2>2. ASSUME m = o, mem[n][k] # None PROVE OnTheWire(m, k)'
    <3>1. request(k) \in net'
      BY <1>1, <2>2
    <3> QED BY <2>2, <3>1 DEF OnTheWire
  <2>3. Promised(m, k) => Promised(m, k)' \/ (m = o /\ mem[n][k] # None)
    BY <1>1 DEF Promised
  <2> QED BY <2>1, <2>2, <2>3
<1>4. \A m \in Nodes, k \in Keys : Coming(m, k) => Coming(m, k)'
  BY <1>1, <1>3 DEF Coming, AtHand, OnDisk, JustRead, Saving
<1>5. ComingInv'
  BY <1>1, <1>4 DEF KeptInv, ComingInv
<1>6. WrittenInv'
  BY <1>1 DEF KeptInv, WrittenInv
<1> QED BY <1>1, <1>2, <1>5, <1>6, OneStep DEF KeptInv

\* Every step keeps it.
LEMMA NextKept ==
  ASSUME TypeInv, KeptInv, MaxPuts = 1, [Next]_vars
  PROVE  KeptInv'
<1>1. ASSUME NEW h \in Handlers, NEW n \in Nodes, NEW k \in Keys,
             NEW c \in Configs, PutRate(h, n, k, c)
      PROVE  KeptInv'
  BY <1>1, KeptPut
<1>2. ASSUME NEW h \in Handlers, Handle(h) \/ SaveFails(h)
      PROVE  KeptInv'
  BY <1>2, KeptSync, KeptWrite, KeptSaveStart, KeptSaved, KeptSend DEF Handle
<1>3. ASSUME NEW r \in net, RequestFails(r)
      PROVE  KeptInv'
  BY <1>3, KeptFails
<1>4. ASSUME NEW n \in Nodes, Stop(n) \/ Boot(n)
      PROVE  KeptInv'
  BY <1>4, KeptStop, KeptBoot
<1>5. ASSUME NEW n \in Nodes, NEW o \in Nodes, Resend(n, o)
      PROVE  KeptInv'
  BY <1>5, KeptResend
<1>6. CASE UNCHANGED vars
  <2>1. \A k \in Keys, c \in Configs \union {None} :
          Uniform(k, c) => Uniform(k, c)'
    BY <1>6 DEF vars, history, Uniform
  <2>2. \A n \in Nodes, k \in Keys : Coming(n, k) => Coming(n, k)'
    BY <1>6 DEF vars, history, Coming, OnTheWire, AtHand, Promised, OnDisk,
                JustRead, Saving
  <2>3. ComingInv' /\ WrittenInv'
    BY <1>6, <2>2 DEF vars, history, KeptInv, ComingInv, WrittenInv
  <2> QED BY <1>6, <2>1, <2>3, OneStep DEF vars, KeptInv
<1> QED BY <1>1, <1>2, <1>3, <1>4, <1>5, <1>6 DEF Next

\* In a settled state everything that was acknowledged has arrived.
LEMMA KeptImplies ==
  ASSUME TypeInv, KeptInv
  PROVE  AckedKept
<1> SUFFICES ASSUME Settled, NEW n \in Nodes, NEW k \in Keys, acked[k] # None,
                    <<n, k>> \notin missed
             PROVE  mem[n][k] = acked[k]
  BY DEF AckedKept
<1>1. Coming(n, k)
  BY DEF KeptInv, ComingInv
<1>2. mem[n][k] # None
  BY <1>1
  DEF Coming, OnTheWire, AtHand, Promised, OnDisk, JustRead, Settled
<1>3. PICK c \in Configs \union {None} : Uniform(k, c)
  BY DEF KeptInv, OneConfigInv
<1> QED BY <1>2, <1>3 DEF Uniform

\* The configuration put once for each of any number of keys, on any nodes and
\* at any time, is on every node when everything has settled, however many
\* requests and file writes fail and however often nodes stop and start again,
\* except on a node for which the model books that it missed it.  With a second
\* PUT for a key this is false: a node that starts sends its old file.
THEOREM KeptHolds ==
  ASSUME MaxPuts = 1
  PROVE  Spec => []AckedKept
<1>1. Init => TypeInv /\ KeptInv
  <2> SUFFICES ASSUME Init PROVE TypeInv /\ KeptInv
    OBVIOUS
  <2>1. TypeInv
    BY InitType
  <2>2. \A k \in Keys : Uniform(k, None)
    BY DEF Init, Uniform, Empty
  <2>3. OneConfigInv
    BY <2>2 DEF OneConfigInv
  <2>4. WrittenInv /\ ComingInv
    BY DEF Init, WrittenInv, ComingInv, Empty
  <2> QED BY <2>1, <2>3, <2>4 DEF KeptInv
<1>2. TypeInv /\ KeptInv /\ [Next]_vars => TypeInv' /\ KeptInv'
  BY NextType, NextKept
<1>3. TypeInv /\ KeptInv => AckedKept
  BY KeptImplies
<1> QED BY <1>1, <1>2, <1>3, PTL DEF Spec
=============================================================================
