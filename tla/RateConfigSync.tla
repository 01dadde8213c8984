--------------------------- MODULE RateConfigSync ---------------------------
(***************************************************************************)
(* The global rate configurations of store/store.go and store/cluster.go:  *)
(* each node keeps them in memory and in the file rateconfig.json, sets    *)
(* them through PUT /rate (SetRateConfig), sends each change to the other  *)
(* nodes (SyncRateConfig) without a version, and sends all it has to a     *)
(* node that joins (HandleEvent).                                          *)
(*                                                                         *)
(* A configuration (limit, window and peak averaging) is one value.  Any   *)
(* request may fail, whatever the state of its node: the sender logs that  *)
(* and does not try again.  What the code does not make up for is booked   *)
(* in missed, so that the properties can say exactly what remains.         *)
(***************************************************************************)
EXTENDS Integers, FiniteSets

CONSTANTS Nodes, Keys,
          Configs,         \* rate configurations
          None,            \* no configuration
          Handlers,        \* the goroutines serving PUT /rate and SyncRateConfig
          ConfigDirIsCwd,  \* opts.configDir is "", as the program leaves it
          MaxPuts,         \* bound: PUT /rate requests for each key
          MaxStops         \* bound: crashes and shutdowns

ASSUME ConfigAssumption == /\ None \notin Configs
                           /\ ConfigDirIsCwd \in BOOLEAN
                           /\ MaxPuts \in Nat
                           /\ MaxStops \in Nat

VARIABLES
  state,    \* how far each node's NewStore has come; "down", "up"
  mem,      \* Store.rateConfig of each node
  file,     \* its rateconfig.json; Torn while it is being written
  bytes,    \* what LoadRateConfig has read of it
  pc,       \* where each handler is
  work,     \* its node, key and configuration, and whether it serves the API
  json,     \* what its SaveRateConfig has marshalled
  net,      \* SyncRateConfig requests in flight
  resend,   \* pairs <<n, o>>: a goroutine of n's HandleEvent waits to send to o
  puts,     \* number of PUT /rate requests so far for each key
  stops,    \* number of crashes so far
  \* History variables, read by no action.
  acked,    \* the configuration of the last PUT /rate, once it is answered
  missed,   \* pairs <<n, k>>: a configuration of k for n was lost on its way,
            \* or with n's memory, and n has taken none since
  unsaved   \* nodes whose last SaveRateConfig failed

history == <<acked, missed, unsaved>>
vars == <<state, mem, file, bytes, pc, work, json, net, resend, puts, stops,
          history>>

Table == [Keys -> Configs \union {None}]
Empty == [k \in Keys |-> None]
Torn == [k \in {} |-> None]  \* what a truncated file holds: not even a {}
NoWork == [api |-> FALSE]
Task == [node : Nodes, key : Keys, cfg : Configs, api : BOOLEAN]
Request == [from : Nodes, to : Nodes, key : Keys, cfg : Configs]

\* The Thrift handler of a node is registered.
Registered(n) == state[n] \in {"starting", "loading", "up"}

TypeOK ==
  /\ state \in [Nodes -> {"down", "joined", "starting", "loading", "up"}]
  /\ mem \in [Nodes -> Table]
  /\ \A n \in Nodes : file[n] \in Table \union {Torn}
  /\ \A n \in Nodes : bytes[n] \in Table \union {Torn}
  /\ pc \in [Handlers -> {"idle", "write", "save", "saving", "send"}]
  /\ \A h \in Handlers : /\ pc[h] # "idle" => work[h] \in Task
                         /\ json[h] \in Table
                         /\ pc[h] # "idle" => Registered(work[h].node)
  /\ net \subseteq Request
  /\ resend \subseteq Nodes \X Nodes
  /\ puts \in [Keys -> 0 .. MaxPuts]
  /\ stops \in 0 .. MaxStops
  /\ acked \in Table
  /\ missed \subseteq Nodes \X Keys
  /\ unsaved \subseteq Nodes

Init ==
  /\ state = [n \in Nodes |-> "up"]
  /\ mem = [n \in Nodes |-> Empty]
  /\ file = [n \in Nodes |-> Empty]
  /\ bytes = [n \in Nodes |-> Empty]
  /\ pc = [h \in Handlers |-> "idle"]
  /\ work = [h \in Handlers |-> NoWork]
  /\ json = [h \in Handlers |-> Empty]
  /\ net = {}
  /\ resend = {}
  /\ puts = [k \in Keys |-> 0]
  /\ stops = 0
  /\ acked = Empty
  /\ missed = {}
  /\ unsaved = {}

-----------------------------------------------------------------------------
(* SetRateConfig and SyncRateConfig.                                       *)

PutRate(h, n, k, c) ==
  /\ pc[h] = "idle"
  /\ state[n] = "up"
  /\ puts[k] < MaxPuts
  /\ puts' = [puts EXCEPT ![k] = @ + 1]
  /\ pc' = [pc EXCEPT ![h] = "write"]
  /\ work' = [work EXCEPT ![h] = [node |-> n, key |-> k, cfg |-> c,
                                  api |-> TRUE]]
  /\ acked' = [acked EXCEPT ![k] = None]
  /\ UNCHANGED <<state, mem, file, bytes, json, net, resend, stops, missed,
                 unsaved>>

\* A node answers requests as soon as it has registered its handler, before
\* it has loaded its file.
SyncRateConfig(h, r) ==
  /\ pc[h] = "idle"
  /\ Registered(r.to)
  /\ net' = net \ {r}
  /\ pc' = [pc EXCEPT ![h] = "write"]
  /\ work' = [work EXCEPT ![h] = [node |-> r.to, key |-> r.key, cfg |-> r.cfg,
                                  api |-> FALSE]]
  /\ UNCHANGED <<state, mem, file, bytes, json, resend, puts, stops, history>>

\* The node's lock is held for reading while the file is written.
Saving(n) == \E h \in Handlers : pc[h] = "saving" /\ work[h].node = n

\* Mutant of WriteConfig: the lock is not held while the file is written.
WriteWhileSaving(h) ==
  LET n == work[h].node IN
  /\ pc[h] = "write"
  /\ mem' = [mem EXCEPT ![n][work[h].key] = work[h].cfg]
  /\ missed' = missed \ {<<n, work[h].key>>}
  /\ pc' = [pc EXCEPT ![h] = "save"]
  /\ UNCHANGED <<state, file, bytes, work, json, net, resend, puts, stops,
                 acked, unsaved>>

WriteConfig(h) ==
  LET n == work[h].node IN
  /\ pc[h] = "write"
  /\ ~Saving(n)
  /\ mem' = [mem EXCEPT ![n][work[h].key] = work[h].cfg]
  /\ missed' = missed \ {<<n, work[h].key>>}
  /\ pc' = [pc EXCEPT ![h] = "save"]
  /\ UNCHANGED <<state, file, bytes, work, json, net, resend, puts, stops,
                 acked, unsaved>>

\* What a node has in its file and has not read yet is lost when a save, for a
\* request that comes before LoadRateConfig, replaces the file.
Overwritten(n) ==
  {k \in Keys : /\ state[n] = "starting" /\ file[n] # Torn
                /\ file[n][k] \notin {None, mem[n][k]}}

\* Mutant of SaveStart: the caller still holds the lock for writing, as with a
\* deferred Unlock, while SaveRateConfig waits to take it for reading.
SaveStartInLock(h) ==
  LET n == work[h].node IN
  /\ pc[h] = "save"
  /\ ~\E g \in Handlers : pc[g] = "save" /\ work[g].node = n
  /\ json' = [json EXCEPT ![h] = mem[n]]
  /\ file' = [file EXCEPT ![n] = Torn]
  /\ pc' = [pc EXCEPT ![h] = "saving"]
  /\ missed' = missed \union ({n} \X Overwritten(n))
  /\ UNCHANGED <<state, mem, bytes, work, net, resend, puts, stops, acked,
                 unsaved>>

\* SaveRateConfig takes the lock, marshals, and truncates the file ...
SaveStart(h) ==
  LET n == work[h].node IN
  /\ pc[h] = "save"
  /\ json' = [json EXCEPT ![h] = mem[n]]
  /\ file' = [file EXCEPT ![n] = Torn]
  /\ pc' = [pc EXCEPT ![h] = "saving"]
  /\ missed' = missed \union ({n} \X Overwritten(n))
  /\ UNCHANGED <<state, mem, bytes, work, net, resend, puts, stops, acked,
                 unsaved>>

\* A SyncRateConfig returns after SaveRateConfig.
Saved(h) ==
  /\ pc' = [pc EXCEPT ![h] = IF work[h].api THEN "send" ELSE "idle"]
  /\ work' = IF work[h].api THEN work ELSE [work EXCEPT ![h] = NoWork]
  /\ json' = [json EXCEPT ![h] = Empty]

\* ... and writes it.
SaveEnd(h) ==
  /\ pc[h] = "saving"
  /\ file' = [file EXCEPT ![work[h].node] = json[h]]
  /\ Saved(h)
  /\ unsaved' = unsaved \ {work[h].node}
  /\ UNCHANGED <<state, mem, bytes, net, resend, puts, stops, acked, missed>>

\* WriteFile cannot open the file, or cannot write what it has truncated; its
\* error is ignored.
SaveFails(h) ==
  /\ pc[h] \in {"save", "saving"}
  /\ Saved(h)
  /\ unsaved' = unsaved \union {work[h].node}
  /\ UNCHANGED <<state, mem, file, bytes, net, resend, puts, stops, acked,
                 missed>>

\* sendSyncRateConfigToNodes; PUT /rate is then answered.  The ring may not
\* have noticed yet which members are up.
SendConfig(h) ==
  LET n == work[h].node
      k == work[h].key
  IN
  /\ pc[h] = "send"
  /\ \E reachable \in SUBSET (Nodes \ {n}) :
       /\ net' = net \union {[from |-> n, to |-> o, key |-> k,
                              cfg |-> work[h].cfg] : o \in reachable}
       /\ missed' = missed \union ((Nodes \ (reachable \union {n})) \X {k})
  /\ acked' = [acked EXCEPT ![k] = work[h].cfg]
  /\ pc' = [pc EXCEPT ![h] = "idle"]
  /\ work' = [work EXCEPT ![h] = NoWork]
  /\ UNCHANGED <<state, mem, file, bytes, json, resend, puts, stops, unsaved>>

\* A request that fails is only logged.
RequestFails(r) ==
  /\ net' = net \ {r}
  /\ missed' = missed \union {<<r.to, r.key>>}
  /\ UNCHANGED <<state, mem, file, bytes, pc, work, json, resend, puts, stops,
                 acked, unsaved>>

-----------------------------------------------------------------------------
(* Nodes that stop, start and join.                                        *)

\* Mutant of Unmarshal: the file is read into a map of its own.
UnmarshalFresh(table, read) == IF read = Torn THEN table ELSE read

\* What json.Unmarshal leaves in a map: the file's entries over the map's.
Unmarshal(table, read) ==
  IF read = Torn THEN table
  ELSE [k \in Keys |-> IF read[k] # None THEN read[k] ELSE table[k]]

\* What a node loses when it stops: what it has, or has read, and its file has
\* not, and what its handlers have received and not written.
LostBy(n) ==
  LET has == Unmarshal(mem[n], bytes[n]) IN
  {k \in Keys : \/ ~ConfigDirIsCwd
                \/ file[n] = Torn
                \/ has[k] \notin {None, file[n][k]}
                \/ \E h \in Handlers : /\ pc[h] = "write" /\ ~work[h].api
                                       /\ work[h].node = n /\ work[h].key = k}

\* A crash, or Close and exit: the node's goroutines are gone, and with them
\* requests they had not sent yet.
Stop(n) ==
  LET mine == {h \in Handlers : pc[h] # "idle" /\ work[h].node = n} IN
  /\ state[n] # "down"
  /\ stops < MaxStops
  /\ stops' = stops + 1
  /\ state' = [state EXCEPT ![n] = "down"]
  /\ mem' = [mem EXCEPT ![n] = Empty]
  /\ bytes' = [bytes EXCEPT ![n] = Empty]
  /\ pc' = [h \in Handlers |-> IF h \in mine THEN "idle" ELSE pc[h]]
  /\ work' = [h \in Handlers |-> IF h \in mine THEN NoWork ELSE work[h]]
  /\ json' = [h \in Handlers |-> IF h \in mine THEN Empty ELSE json[h]]
  /\ resend' = {p \in resend : p[1] # n}
  /\ \E unsent \in SUBSET {r \in net : r.from = n} :
       /\ net' = net \ unsent
       /\ missed' = missed
            \union {<<r.to, r.key>> : r \in unsent}
            \union ({p[2] : p \in {q \in resend : q[1] = n}} \X Keys)
            \union ({n} \X LostBy(n))
  /\ UNCHANGED <<file, puts, acked, unsaved>>

\* NewStore, initRingPop: the node joins the ring, whose members see it added
\* as it sees them.  HandleEvent sleeps before it sends.  A member that is up
\* and has a configuration is to send it: the node misses it no more.
Start(n) ==
  LET others == {o \in Nodes \ {n} : state[o] # "down"}
      holders(k) == {o \in others : state[o] = "up" /\ mem[o][k] # None}
  IN
  /\ state[n] = "down"
  /\ state' = [state EXCEPT ![n] = "joined"]
  /\ resend' = resend \union (others \X {n}) \union ({n} \X others)
  /\ missed' = missed \ ({n} \X {k \in Keys : holders(k) # {}})
  /\ UNCHANGED <<mem, file, bytes, pc, work, json, net, puts, stops, acked,
                 unsaved>>

\* registerClusterNode: from now on the node answers requests.
Register(n) ==
  /\ state[n] = "joined"
  /\ state' = [state EXCEPT ![n] = "starting"]
  /\ UNCHANGED <<mem, file, bytes, pc, work, json, net, resend, puts, stops,
                 history>>

\* LoadRateConfig reads the file in the working directory ...
LoadRead(n) ==
  /\ state[n] = "starting"
  /\ state' = [state EXCEPT ![n] = "loading"]
  /\ bytes' = [bytes EXCEPT ![n] = IF ConfigDirIsCwd THEN file[n] ELSE Empty]
  /\ UNCHANGED <<mem, file, pc, work, json, net, resend, puts, stops, history>>

\* Mutant of LoadMerge: what was read becomes the map, also when it is torn.
LoadReplace(n) ==
  /\ state[n] = "loading"
  /\ state' = [state EXCEPT ![n] = "up"]
  /\ mem' = [mem EXCEPT ![n] = bytes[n]]
  /\ bytes' = [bytes EXCEPT ![n] = Empty]
  /\ UNCHANGED <<file, pc, work, json, net, resend, puts, stops, history>>

\* ... and unmarshals it over what the node has received meanwhile.
LoadMerge(n) ==
  /\ state[n] = "loading"
  /\ state' = [state EXCEPT ![n] = "up"]
  /\ mem' = [mem EXCEPT ![n] = Unmarshal(@, bytes[n])]
  /\ bytes' = [bytes EXCEPT ![n] = Empty]
  /\ UNCHANGED <<file, pc, work, json, net, resend, puts, stops, history>>

\* Mutant of Resend: the configurations are not sent to the added node.
ResendNothing(n, o) ==
  /\ <<n, o>> \in resend
  /\ resend' = resend \ {<<n, o>>}
  /\ UNCHANGED <<state, mem, file, bytes, pc, work, json, net, puts, stops,
                 history>>

\* HandleEvent wakes up and sends all its node then has to the added node.  It
\* sleeps for a random time of up to 20 seconds, which may be over before the
\* node has loaded its file, or before the added node is registered.
Resend(n, o) ==
  /\ <<n, o>> \in resend
  /\ resend' = resend \ {<<n, o>>}
  /\ net' = net \union {[from |-> n, to |-> o, key |-> k, cfg |-> mem[n][k]]
                          : k \in {j \in Keys : mem[n][j] # None}}
  /\ UNCHANGED <<state, mem, file, bytes, pc, work, json, puts, stops, history>>

-----------------------------------------------------------------------------

Handle(h) == \/ \E r \in net : SyncRateConfig(h, r)
             \/ WriteConfig(h) \/ SaveStart(h) \/ SaveEnd(h) \/ SendConfig(h)

Boot(n) == Start(n) \/ Register(n) \/ LoadRead(n) \/ LoadMerge(n)

Next ==
  \/ \E h \in Handlers, n \in Nodes, k \in Keys, c \in Configs :
       PutRate(h, n, k, c)
  \/ \E h \in Handlers : Handle(h)
  \/ \E h \in Handlers : SaveFails(h)
  \/ \E r \in net : RequestFails(r)
  \/ \E n \in Nodes : Stop(n) \/ Boot(n)
  \/ \E n, o \in Nodes : Resend(n, o)

Spec == Init /\ [][Next]_vars

(***************************************************************************)
(* Fairness.  Goroutines run, a request is handled or fails, for Forward   *)
(* gives up after a time, and a node that has been stopped is started      *)
(* again by its operator and completes its start.  The lock of a node is   *)
(* granted to a waiting writer, as sync.RWMutex does, although readers     *)
(* keep coming.                                                            *)
(***************************************************************************)
FairSpec == /\ Spec
            /\ \A h \in Handlers : SF_vars(Handle(h))
            /\ WF_vars(\E r \in net : \/ RequestFails(r)
                                     \/ \E h \in Handlers :
                                          SyncRateConfig(h, r))
            /\ \A n \in Nodes : WF_vars(Boot(n))
            /\ \A n, o \in Nodes : WF_vars(Resend(n, o))

-----------------------------------------------------------------------------
(* Properties.                                                             *)

\* Nothing is under way: what the nodes have now is what they keep.
Settled == /\ \A n \in Nodes : state[n] = "up"
           /\ \A h \in Handlers : pc[h] = "idle"
           /\ net = {} /\ resend = {}

\* Once PUT requests and crashes cease the cluster comes to rest: no handler
\* waits for ever for its node's lock, and the configurations nodes send to
\* one another when one joins do not set off further requests without end.
EventuallySettled == ~Settled ~> Settled

\* As long as no node has been stopped, rateconfig.json of a node holds what
\* its memory holds whenever none of its handlers is between writing the map
\* and writing the file: of two calls of SaveRateConfig that overlap, none
\* leaves an older file behind.  Excepted is a node whose last WriteFile failed:
\* SaveRateConfig ignores the error.  There is no claim after a start, when
\* LoadRateConfig merges what it has read into a map that may be saved already.
FileMatchesMemory ==
  stops = 0 =>
    \A n \in Nodes \ unsaved :
      (\A h \in Handlers : pc[h] # "idle" /\ work[h].node = n
                              => pc[h] \in {"write", "send"})
      => file[n] = mem[n]

\* When everything has settled every node applies the configuration of the
\* last PUT /rate that was answered (README.md, line 98: "Create/Update global
\* rate configuration"), except where the code lets it miss one for good: a
\* request to it was lost, or it stopped with what its file does not hold, and
\* HandleEvent of no member that had the configuration made up for that.
AckedKept ==
  Settled => \A n \in Nodes, k \in Keys :
               acked[k] # None /\ <<n, k>> \notin missed
                 => mem[n][k] = acked[k]
=============================================================================
