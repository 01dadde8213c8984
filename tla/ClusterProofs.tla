--------------------------- MODULE ClusterProofs ----------------------------
(***************************************************************************)
(* Proofs about Cluster, for any number of nodes and keys.  What the       *)
(* generated code writes it reads back, so applications are told what a    *)
(* node decided, and every configuration is one that was put.  Every count *)
(* belongs to a window that some clock has come to, so windows of one      *)
(* length are mixed up only while the older one ends.                      *)
(***************************************************************************)
EXTENDS Cluster, NumberLemmas, SequenceTheorems, TLAPS

-----------------------------------------------------------------------------
(* The generated code.                                                     *)

\* A table of fields as the generator makes it: no id or name occurs twice,
\* and no field has the type that ends a structure.
Table(fields) ==
  /\ Len(fields) \in Nat /\ DOMAIN fields = 1 .. Len(fields)
  /\ \A i \in DOMAIN fields : fields[i].type # "stop"
  /\ \A i, j \in DOMAIN fields : \/ i = j
                                 \/ /\ fields[i].id # fields[j].id
                                    /\ fields[i].name # fields[j].name

\* What is written: one element for each field, then Stop, and no other Stop.
LEMMA Written ==
  ASSUME NEW fields, Table(fields), NEW v
  PROVE  /\ Len(fields) \in Nat /\ DOMAIN fields = 1 .. Len(fields)
         /\ WriteStruct(fields, v) \in Seq(Range(WriteStruct(fields, v)))
         /\ Len(WriteStruct(fields, v)) = Len(fields) + 1
         /\ DOMAIN WriteStruct(fields, v) = 1 .. Len(fields) + 1
         /\ WriteStruct(fields, v)[Len(fields) + 1] = Stop
         /\ \A i \in 1 .. Len(fields) :
              /\ WriteStruct(fields, v)[i] # Stop
              /\ WriteStruct(fields, v)[i].id = fields[i].id
              /\ WriteStruct(fields, v)[i].value = v[fields[i].name]
<1>1. Len(fields) \in Nat /\ DOMAIN fields = 1 .. Len(fields)
  BY DEF Table
<1> DEFINE n == Len(fields)
           body == [i \in 1 .. n |-> [type |-> fields[i].type,
                                      id |-> fields[i].id,
                                      value |-> v[fields[i].name]]]
           S == {body[i] : i \in 1 .. n} \union {Stop}
           wire == Append(body, Stop)
<1>2. body \in Seq(S) /\ Len(body) = n
  <2>1. body \in [1 .. n -> S]
    OBVIOUS
  <2> HIDE DEF body, S
  <2> QED BY <1>1, <2>1
<1>3. WriteStruct(fields, v) = wire
  BY <1>1 DEF WriteStruct
<1>4. ASSUME NEW i \in 1 .. n
      PROVE  /\ body[i] # Stop
             /\ body[i].id = fields[i].id
             /\ body[i].value = v[fields[i].name]
  <2>1. fields[i].type # "stop"
    BY <1>1 DEF Table
  <2>2. body[i].type = fields[i].type
    OBVIOUS
  <2>3. Stop.type = "stop"
    BY DEF Stop
  <2>4. body[i] # Stop
    BY <2>1, <2>2, <2>3
  <2> QED BY <2>4
<1>5. /\ wire \in Seq(S) /\ Len(wire) = n + 1 /\ wire[n + 1] = Stop
      /\ DOMAIN wire = 1 .. n + 1
      /\ \A i \in 1 .. n : wire[i] = body[i]
  <2> HIDE DEF body
  <2>1. Stop \in S
    OBVIOUS
  <2> HIDE DEF S
  <2> QED BY <1>1, <1>2, <2>1
<1> HIDE DEF wire, body, S
<1>6. wire \in Seq(Range(wire))
  BY <1>1, <1>5 DEF Range
<1> QED BY <1>1, <1>3, <1>4, <1>5, <1>6

\* A structure of which the end was not read is not complete, so what is
\* complete is the whole.
LEMMA CompleteIsWhole ==
  ASSUME NEW fields, Table(fields), NEW v, NEW read \in 0 .. Len(WriteStruct(fields, v)),
         Complete(SubSeq(WriteStruct(fields, v), 1, read))
  PROVE  SubSeq(WriteStruct(fields, v), 1, read) = WriteStruct(fields, v)
<1> DEFINE wire == WriteStruct(fields, v)
           n == Len(fields)
<1>1. /\ n \in Nat /\ wire \in Seq(Range(wire)) /\ Len(wire) = n + 1
      /\ \A i \in 1 .. n : wire[i] # Stop
  BY Written
<1> HIDE DEF wire, n
<1>2. /\ Len(SubSeq(wire, 1, read)) = read
      /\ DOMAIN SubSeq(wire, 1, read) = 1 .. read
      /\ \A i \in 1 .. read : SubSeq(wire, 1, read)[i] = wire[i]
  <2>1. read \in 0 .. n + 1
    BY <1>1 DEF wire
  <2>2. \A i \in 1 .. read : wire[i] \in Range(wire)
    BY <1>1, <2>1
  <2>3. /\ SubSeq(wire, 1, read) \in Seq(Range(wire))
        /\ Len(SubSeq(wire, 1, read)) = IF 1 <= read THEN read - 1 + 1 ELSE 0
        /\ \A i \in 1 .. read - 1 + 1 : SubSeq(wire, 1, read)[i] = wire[1 + i - 1]
    BY <2>1, <2>2, SubSeqProperties
  <2> QED BY <2>1, <2>3
<1>3. Complete(SubSeq(wire, 1, read))
  BY DEF wire
<1>4. PICK i \in 1 .. read : wire[i] = Stop
  BY <1>2, <1>3 DEF Complete
<1>5. read = n + 1
  BY <1>1, <1>4 DEF wire
<1>6. SubSeq(wire, 1, read) = wire
  BY <1>1, <1>5, SubSeqFull
<1> QED BY <1>6 DEF wire

\* Reading what was written gives back every field.
LEMMA ReadsBack ==
  ASSUME NEW fields, Table(fields), NEW v, NEW i \in DOMAIN fields
  PROVE  ReadStruct(fields, WriteStruct(fields, v))[fields[i].name] =
           v[fields[i].name]
<1> DEFINE wire == WriteStruct(fields, v)
           n == Len(fields)
           f == fields[i]
<1>1. /\ n \in Nat /\ DOMAIN fields = 1 .. n
      /\ DOMAIN wire = 1 .. n + 1
      /\ wire[n + 1] = Stop
      /\ \A j \in 1 .. n : /\ wire[j] # Stop
                           /\ wire[j].id = fields[j].id
                           /\ wire[j].value = v[fields[j].name]
  BY Written
<1>2. (CHOOSE g \in {fields[j] : j \in DOMAIN fields} : g.name = f.name) = f
  BY DEF Table
<1> HIDE DEF wire, n
<1>3. Found(f, wire) = {i}
  <2>1. \A j \in 1 .. n : j # i => fields[j].id # f.id
    BY <1>1 DEF Table
  <2> QED BY <1>1, <2>1 DEF Found
<1>4. Max({i}) = i
  BY <1>1 DEF Max
<1>5. f.name \in {fields[j].name : j \in DOMAIN fields}
  OBVIOUS
<1>6. ReadStruct(fields, wire)[f.name] = wire[i].value
  <2> HIDE DEF f
  <2> QED BY <1>2, <1>3, <1>4, <1>5 DEF ReadStruct
<1> QED BY <1>1, <1>6 DEF wire

\* The structures of the service are such tables.
LEMMA Tables ==
  /\ Table(StoreNodeSyncRateConfigArgs) /\ Table(StoreNodeIncrActionArgs)
  /\ Table(StoreNodeRateLimitGlobalActionArgs) /\ Table(StoreNodeSyncKeysArgs)
  /\ Table(SyncCommand) /\ Table(StoreNodeIncrActionResult)
  /\ Table(StoreNodeRateLimitGlobalActionResult)
<1>1. Table(StoreNodeSyncRateConfigArgs)
  BY DEF Table, Field, StoreNodeSyncRateConfigArgs
<1>2. Table(StoreNodeIncrActionArgs)
  BY DEF Table, Field, StoreNodeIncrActionArgs
<1>3. Table(StoreNodeRateLimitGlobalActionArgs)
  BY DEF Table, Field, StoreNodeRateLimitGlobalActionArgs
<1>4. Table(StoreNodeSyncKeysArgs)
  BY DEF Table, Field, StoreNodeSyncKeysArgs
<1>5. Table(SyncCommand)
  BY DEF Table, Field, SyncCommand
<1>6. Table(StoreNodeIncrActionResult)
  BY DEF Table, Field, StoreNodeIncrActionResult
<1>7. Table(StoreNodeRateLimitGlobalActionResult)
  BY DEF Table, Field, StoreNodeRateLimitGlobalActionResult
<1> QED BY <1>1, <1>2, <1>3, <1>4, <1>5, <1>6, <1>7
-----------------------------------------------------------------------------
(* Requests.                                                               *)

\* int32() of a number is an int32, and differs from it by a multiple of 2^32.
LEMMA NarrowEffect ==
  ASSUME NEW v \in Int
  PROVE  /\ Narrow(v) \in Int32
         /\ (Narrow(v) - v) % (2 * (MaxInt32 + 1)) = 0
<1>1. PICK M \in Nat \ {0}, c \in Int :
        M = 2 * (MaxInt32 + 1) /\ c = MaxInt32 + 1 /\ M = 2 * c
  BY Int32Assumption
<1>2. Narrow(v) = ((v + c) % M) - c
  <2>1. v + MaxInt32 + 1 = v + c
    BY <1>1, Int32Assumption
  <2> QED BY <1>1, <2>1 DEF Narrow
<1>3. PICK r \in 0 .. M - 1 : r = (v + c) % M
  <2>1. v + c \in Int
    BY <1>1
  <2> QED BY <2>1, Quotient, Zenon
<1>4. Narrow(v) \in Int32
  BY <1>1, <1>2, <1>3, Int32Assumption DEF Int32
<1>5. ((((v + c) % M) - c) - v) % M = 0
  BY <1>1, ShiftedRemainder
<1> QED BY <1>1, <1>2, <1>4, <1>5

\* The arguments of a call, on the way to Store.Incr and to RateLimitGlobal.
IncrCall == {a \in [key : Keys, count : Int32, threshold : Int32,
                    window : Int32, peakaveraged : BOOLEAN] :
               WindowOf(a.window, a.peakaveraged) \in Lengths}
RateLimitCall == [key : Keys, count : Int32]

\* A parsed count is a number.
LEMMA CountParamType ==
  ASSUME NEW r, r.C \in [given : BOOLEAN, numeric : BOOLEAN, value : Int]
  PROVE  CountParam(r).value \in Int
BY DEF CountParam, Num

\* What POST /incr makes of a request it accepts is a call.
LEMMA IncrArgsType ==
  ASSUME NEW r \in IncrRequests, IncrAccepted(r)
  PROVE  IncrArgs(r) \in IncrCall
<1> DEFINE param == [given : BOOLEAN, numeric : BOOLEAN, value : Int]
<1>1. r \in [K : Keys, C : param, T : param, W : param, P : param]
  BY RequestAssumption
<1>2. WindowOf(IncrArgs(r).window, IncrArgs(r).peakaveraged) \in Lengths
  BY DEF Lengths
<1>3. /\ r.K \in Keys /\ r.C \in param /\ r.T.value \in Int
      /\ r.W.value \in Int /\ r.P.value \in Int /\ r.P.numeric \in BOOLEAN
  BY <1>1
<1>4. CountParam(r).value \in Int
  BY <1>3, CountParamType
<1>5. /\ Narrow(CountParam(r).value) \in Int32 /\ Narrow(r.T.value) \in Int32
      /\ Narrow(r.W.value) \in Int32
  BY <1>3, <1>4, NarrowEffect
<1>6. (r.P.numeric /\ r.P.value > 0) \in BOOLEAN
  BY <1>3
<1>7. IncrArgs(r) \in [key : Keys, count : Int32, threshold : Int32,
                       window : Int32, peakaveraged : BOOLEAN]
  BY <1>3, <1>5, <1>6 DEF IncrArgs
<1> QED BY <1>2, <1>7 DEF IncrCall

\* So is what POST /ratelimit makes of one.
LEMMA RateLimitArgsType ==
  ASSUME NEW r \in RateLimitRequests
  PROVE  RateLimitArgs(r) \in RateLimitCall
<1> DEFINE param == [given : BOOLEAN, numeric : BOOLEAN, value : Int]
<1>1. r \in [K : Keys, C : param]
  BY RequestAssumption
<1>2. CountParam(r).value \in Int
  BY <1>1, CountParamType
<1>3. Narrow(CountParam(r).value) \in Int32
  BY <1>2, NarrowEffect
<1> QED BY <1>1, <1>3 DEF RateLimitArgs, RateLimitCall

\* What PUT /rate makes of a request it accepts is a configuration.
LEMMA PutType ==
  ASSUME NEW r \in PutRequests
  PROVE  /\ r.Key \in Keys /\ r.Limit \in Int /\ r.Window \in Int
         /\ RateConfigOf(r) \in RateConfig
         /\ RateAccepted(r) =>
              WindowOf(RateConfigOf(r).Window, RateConfigOf(r).PeakAveraged)
                \in Lengths
<1>1. r \in [authorised : BOOLEAN, Key : Keys, Window : Int, Limit : Int,
             PeakAveraged : BOOLEAN]
  BY RequestAssumption
<1>2. Narrow(r.Limit) \in Int32 /\ Narrow(r.Window) \in Int32
  BY <1>1, NarrowEffect
<1>3. RateConfigOf(r) \in RateConfig
  BY <1>1, <1>2 DEF RateConfigOf, RateConfig
<1>4. RateAccepted(r) =>
        WindowOf(RateConfigOf(r).Window, RateConfigOf(r).PeakAveraged)
          \in Lengths
  BY DEF Lengths
<1> QED BY <1>1, <1>3, <1>4

\* What a delivery of counts, or its failure, leaves alone.
LEMMA DeliverQuiet ==
  ASSUME DeliverSyncs
  PROVE  UNCHANGED <<status, clock, booted, outgoing, rateConfig, configs, app,
                     inputs, made, apart, admitted, budget, breached, asked>>
<1>1. ASSUME NEW m, NEW i, NEW at, NEW gone, HandleSyncKeys(m, i, at, gone)
      PROVE  UNCHANGED <<status, clock, booted, outgoing, rateConfig, configs,
                         app, inputs, made, apart, admitted, budget, breached,
                         asked>>
  BY <1>1, Zenon DEF HandleSyncKeys
<1>2. ASSUME NEW m, FailSyncKeys(m)
      PROVE  UNCHANGED <<status, clock, booted, outgoing, rateConfig, configs,
                         app, inputs, made, apart, admitted, budget, breached,
                         asked>>
  BY <1>2 DEF FailSyncKeys
<1> QED BY <1>1, <1>2, Zenon DEF DeliverSyncs

-----------------------------------------------------------------------------
(* The application that calls through Thrift.                              *)

Methods == {"IncrAction", "RateLimitGlobalAction"}

\* A call under way is what the client wrote, and an answer what the handler
\* decided.
AppInv ==
  /\ app.phase \in {"idle", "called", "answered"}
  /\ app.phase = "idle" => app.told \subseteq app.decided
  /\ app.phase \in {"called", "answered"} =>
       app.node \in Nodes /\ app.method \in Methods
  /\ app.phase = "called" /\ app.method = "IncrAction" =>
       \E r \in IncrRequests :
         /\ IncrAccepted(r) /\ app.ask = IncrArgs(r)
         /\ app.args = WriteStruct(StoreNodeIncrActionArgs, IncrArgs(r))
  /\ app.phase = "called" /\ app.method = "RateLimitGlobalAction" =>
       \E r \in RateLimitRequests :
         /\ RateLimitAccepted(r)
         /\ app.args = WriteStruct(StoreNodeRateLimitGlobalActionArgs,
                                   RateLimitArgs(r))
  /\ app.phase = "answered" =>
       \E b \in BOOLEAN :
         /\ app.decided = {b}
         /\ app.reply = WriteStruct(StoreNodeIncrActionResult,
                                    [success |-> b])

\* The results of the two methods are alike.
LEMMA ResultsAlike ==
  StoreNodeRateLimitGlobalActionResult = StoreNodeIncrActionResult
BY DEF StoreNodeRateLimitGlobalActionResult, StoreNodeIncrActionResult

\* What the client reads in a result is what the handler wrote into it.
LEMMA SuccessReadsBack ==
  ASSUME NEW b
  PROVE  ReadStruct(StoreNodeIncrActionResult,
                    WriteStruct(StoreNodeIncrActionResult,
                                [success |-> b])).success = b
<1>1. /\ 1 \in DOMAIN StoreNodeIncrActionResult
      /\ StoreNodeIncrActionResult[1].name = "success"
  BY DEF StoreNodeIncrActionResult, Field
<1>2. Table(StoreNodeIncrActionResult)
  BY Tables
<1>3. ReadStruct(StoreNodeIncrActionResult,
                 WriteStruct(StoreNodeIncrActionResult,
                             [success |-> b]))["success"] =
        [success |-> b]["success"]
  BY <1>1, <1>2, ReadsBack
<1> QED BY <1>3

\* A call through the client.
LEMMA AppCallInv ==
  ASSUME AppInv, NEW n \in Nodes, NEW r,
         \/ r \in IncrRequests /\ CallIncrAction(n, r)
         \/ r \in RateLimitRequests /\ CallRateLimitGlobalAction(n, r)
  PROVE  AppInv'
<1>1. CASE r \in IncrRequests /\ CallIncrAction(n, r)
  <2>1. /\ n \in Nodes
        /\ app' = [phase |-> "called", node |-> n, method |-> "IncrAction",
                   ask |-> IncrArgs(r),
                   args |-> WriteStruct(StoreNodeIncrActionArgs, IncrArgs(r))]
    BY <1>1 DEF CallIncrAction, AppCall
  <2>2. r \in IncrRequests /\ IncrAccepted(r)
    BY <1>1 DEF CallIncrAction
  <2> QED BY <2>1, <2>2 DEF AppInv, Methods
<1>2. CASE r \in RateLimitRequests /\ CallRateLimitGlobalAction(n, r)
  <2>1. /\ n \in Nodes
        /\ app' = [phase |-> "called", node |-> n,
                   method |-> "RateLimitGlobalAction",
                   ask |-> RateLimitArgs(r),
                   args |-> WriteStruct(StoreNodeRateLimitGlobalActionArgs,
                                        RateLimitArgs(r))]
    BY <1>2 DEF CallRateLimitGlobalAction, AppCall
  <2>2. r \in RateLimitRequests /\ RateLimitAccepted(r)
    BY <1>2 DEF CallRateLimitGlobalAction
  <2> QED BY <2>1, <2>2 DEF AppInv, Methods
<1> QED BY <1>1, <1>2

\* A handler answers with what it decided.
LEMMA AnswerInv ==
  ASSUME AppInv, app.phase = "called", NEW blocked \in BOOLEAN,
         Answer(StoreNodeIncrActionResult, blocked)
  PROVE  AppInv'
<1>1. app' = [phase |-> "answered", node |-> app.node, method |-> app.method,
              decided |-> {blocked},
              reply |-> WriteStruct(StoreNodeIncrActionResult,
                                    [success |-> blocked])]
  BY DEF Answer, WriteSuccess
<1>2. app.node \in Nodes /\ app.method \in Methods
  BY DEF AppInv
<1> HIDE DEF AppInv
<1>3. /\ app'.phase = "answered" /\ app'.node \in Nodes
      /\ app'.method \in Methods /\ app'.decided = {blocked}
      /\ app'.reply = WriteStruct(StoreNodeIncrActionResult,
                                  [success |-> blocked])
  BY <1>1, <1>2
<1> QED BY <1>3 DEF AppInv

\* The client returns it.
LEMMA AppReturnInv ==
  ASSUME AppInv, AppReturn
  PROVE  AppInv'
<1>1. /\ app.phase = "answered"
      /\ app' = [phase |-> "idle", decided |-> app.decided,
                 told |-> {ReadStruct(StoreNodeIncrActionResult,
                                      app.reply).success}]
  BY ResultsAlike DEF AppReturn
<1>2. PICK b \in BOOLEAN :
        /\ app.decided = {b}
        /\ app.reply = WriteStruct(StoreNodeIncrActionResult, [success |-> b])
  BY <1>1 DEF AppInv
<1>3. ReadStruct(StoreNodeIncrActionResult, app.reply).success = b
  BY <1>2, SuccessReadsBack
<1>4. app'.phase = "idle" /\ app'.told = {b} /\ app'.decided = {b}
  BY <1>1, <1>2, <1>3
<1> QED BY <1>4 DEF AppInv

\* Every step keeps AppInv.
LEMMA NextApp ==
  ASSUME AppInv, [Next]_vars
  PROVE  AppInv'
<1>1. ASSUME UNCHANGED app PROVE AppInv'
  BY <1>1 DEF AppInv
<1>2. ASSUME NEW n \in Nodes, NEW r \in IncrRequests,
             HttpIncr(n, r) \/ CallIncrAction(n, r)
      PROVE  AppInv'
  BY <1>1, <1>2, AppCallInv DEF HttpIncr, requests
<1>3. ASSUME NEW n \in Nodes, NEW r \in RateLimitRequests,
             HttpRateLimit(n, r) \/ CallRateLimitGlobalAction(n, r)
      PROVE  AppInv'
  BY <1>1, <1>3, AppCallInv DEF HttpRateLimit, requests
<1>4. ASSUME NEW n \in Nodes, NEW r \in PutRequests, HttpPutRate(n, r)
      PROVE  AppInv'
  BY <1>1, <1>4 DEF HttpPutRate
<1>5. ASSUME NEW n \in Nodes,
             \/ ReceiveOn(n) \/ Flush(n) \/ \E k \in Keys : Collect(n, k)
             \/ Close(n) \/ Exit(n) \/ Start(n) \/ Tick(n)
      PROVE  AppInv'
  BY <1>1, <1>5, Zenon
  DEF ReceiveOn, Receive, Flush, Collect, Close, Exit, Start, Tick, requests
<1>6. ASSUME \/ \E m \in reports : RereadExpiry(m)
             \/ \E m \in syncs : Serialize(m)
             \/ DeliverSyncs \/ DeliverConfigs
      PROVE  AppInv'
  <2>1. ASSUME NEW m \in reports, RereadExpiry(m) PROVE AppInv'
    BY <1>1, <2>1 DEF RereadExpiry, requests
  <2>2. ASSUME NEW m \in syncs, Serialize(m) PROVE AppInv'
    BY <1>1, <2>2, Zenon DEF Serialize
  <2>3. ASSUME DeliverSyncs PROVE AppInv'
    BY <1>1, <2>3, DeliverQuiet
  <2>4. ASSUME DeliverConfigs PROVE AppInv'
    BY <1>1, <2>4, Zenon DEF DeliverConfigs, HandleSyncRateConfig
  <2> QED BY <1>6, <2>1, <2>2, <2>3, <2>4, Zenon
<1>7. ASSUME app.phase = "called", NEW i \in 0 .. Len(app.args),
             HandleIncrAction(i) \/ HandleRateLimitGlobalAction(i)
      PROVE  AppInv'
  <2>1. \E blocked \in BOOLEAN : Answer(StoreNodeIncrActionResult, blocked)
    BY <1>7, ResultsAlike, Zenon
    DEF HandleIncrAction, HandleRateLimitGlobalAction
  <2> QED BY <1>7, <2>1, AnswerInv
<1>8. ASSUME AppReturn PROVE AppInv'
  BY <1>8, AppReturnInv
<1>9. ASSUME AppError PROVE AppInv'
  BY <1>9 DEF AppError, NoCall, AppInv
<1>10. ASSUME UNCHANGED vars PROVE AppInv'
  BY <1>1, <1>10 DEF vars, requests
<1> QED
  BY <1>2, <1>3, <1>4, <1>5, <1>6, <1>7, <1>8, <1>9, <1>10, Zenon DEF Next

\* What the generated client tells an application is what the node decided: no
\* answer is lost in the result, or taken for "not blocked" where it is missing.
THEOREM AnswerHolds == Spec => []AnswerAsDecided
<1>1. Init => AppInv
  BY DEF Init, NoCall, AppInv
<1>2. AppInv /\ [Next]_vars => AppInv'
  BY NextApp
<1>3. AppInv => AnswerAsDecided
  BY DEF AppInv, AnswerAsDecided
<1> QED BY <1>1, <1>2, <1>3, PTL DEF Spec
-----------------------------------------------------------------------------
(* The configurations.                                                     *)

\* What SyncRateConfig is called with for a configuration.
ConfigArgs(k, cfg) == [key |-> k, threshold |-> cfg.Limit,
                       window |-> cfg.Window,
                       peakaveraged |-> cfg.PeakAveraged]

\* A request that was accepted for a key.
PutFor(k) == {r \in asked[k] : r \in PutRequests /\ RateAccepted(r)}

\* Every configuration, on a node or on the way to one, is that of a request
\* PUT /rate accepted for its key.
ConfigInv ==
  /\ asked \in [Keys -> SUBSET PutRequests]
  /\ rateConfig \in [Nodes -> [Keys -> RateConfig \union {None}]]
  /\ \A n \in Nodes, k \in Keys : rateConfig[n][k] # None =>
       \E r \in PutFor(k) : rateConfig[n][k] = RateConfigOf(r)
  /\ \A m \in configs :
       /\ m.to \in Nodes /\ m.from # m.to
       /\ \E k \in Keys : \E r \in PutFor(k) :
            m.args = WriteStruct(StoreNodeSyncRateConfigArgs,
                                 ConfigArgs(k, RateConfigOf(r)))

\* The handler reads the configuration that was sent.
LEMMA ConfigReadsBack ==
  ASSUME NEW k, NEW cfg
  PROVE  LET a == ReadStruct(StoreNodeSyncRateConfigArgs,
                             WriteStruct(StoreNodeSyncRateConfigArgs,
                                         ConfigArgs(k, cfg)))
         IN  /\ a.key = k /\ a.threshold = cfg.Limit
             /\ a.window = cfg.Window /\ a.peakaveraged = cfg.PeakAveraged
<1> DEFINE F == StoreNodeSyncRateConfigArgs
           v == ConfigArgs(k, cfg)
           a == ReadStruct(F, WriteStruct(F, v))
<1>1. /\ DOMAIN F = 1 .. 4
      /\ F[1].name = "key" /\ F[2].name = "threshold"
      /\ F[3].name = "window" /\ F[4].name = "peakaveraged"
  BY DEF StoreNodeSyncRateConfigArgs, Field
<1>2. Table(F)
  BY Tables
<1>3. \A i \in DOMAIN F : a[F[i].name] = v[F[i].name]
  BY <1>2, ReadsBack
<1> HIDE DEF F, a
<1>4. /\ a["key"] = v["key"] /\ a["threshold"] = v["threshold"]
      /\ a["window"] = v["window"] /\ a["peakaveraged"] = v["peakaveraged"]
  <2> HIDE DEF v
  <2>1. 1 \in DOMAIN F /\ 2 \in DOMAIN F /\ 3 \in DOMAIN F /\ 4 \in DOMAIN F
    BY <1>1
  <2> QED BY <1>1, <1>3, <2>1, Zenon
<1>5. /\ a.key = k /\ a.threshold = cfg.Limit
      /\ a.window = cfg.Window /\ a.peakaveraged = cfg.PeakAveraged
  BY <1>4 DEF ConfigArgs
<1> QED BY <1>5 DEF F, a

\* A step that leaves the configurations alone keeps the invariant.
LEMMA ConfigQuiet ==
  ASSUME ConfigInv, UNCHANGED <<rateConfig, configs, asked>>
  PROVE  ConfigInv'
BY DEF ConfigInv, PutFor

\* PUT /rate sets the configuration and sends it as it was accepted.
LEMMA HttpPutRateConfig ==
  ASSUME ConfigInv, NEW n \in Nodes, NEW r \in PutRequests, HttpPutRate(n, r)
  PROVE  ConfigInv'
<1> DEFINE cfg == RateConfigOf(r)
           k == r.Key
<1>1. /\ RateAccepted(r)
      /\ rateConfig' = [rateConfig EXCEPT ![n][k] = cfg]
      /\ asked' = [asked EXCEPT ![k] = @ \union {r}]
  BY DEF HttpPutRate
<1>2. PICK reachable \in GetReachableMembers(n) :
        configs' = configs \union
          {SendSyncRateConfigToNode(n, o, NewId(configs), k, cfg)
             : o \in reachable}
  BY DEF HttpPutRate
<1>3. reachable \subseteq Nodes \ {n}
  BY <1>2 DEF GetReachableMembers
<1>4. k \in Keys /\ cfg \in RateConfig
  BY PutType
<1>5. /\ asked \in [Keys -> SUBSET PutRequests]
      /\ rateConfig \in [Nodes -> [Keys -> RateConfig \union {None}]]
  BY DEF ConfigInv
<1> HIDE DEF cfg, k
<1>6. asked' \in [Keys -> SUBSET PutRequests]
  BY <1>1, <1>4, <1>5
<1>7. \A j \in Keys : PutFor(j) \subseteq PutFor(j)'
  BY <1>1, <1>4, <1>5 DEF PutFor
<1>8. r \in PutFor(k)' /\ cfg = RateConfigOf(r)
  BY <1>1, <1>4, <1>5 DEF PutFor, cfg
<1>9. rateConfig' \in [Nodes -> [Keys -> RateConfig \union {None}]]
  <2>1. [rateConfig[n] EXCEPT ![k] = cfg] \in [Keys -> RateConfig \union {None}]
    BY <1>4, <1>5
  <2> QED BY <1>1, <1>5, <2>1
<1>10. \A p \in Nodes, j \in Keys : rateConfig'[p][j] # None =>
         \E s \in PutFor(j)' : rateConfig'[p][j] = RateConfigOf(s)
  <2> SUFFICES ASSUME NEW p \in Nodes, NEW j \in Keys, rateConfig'[p][j] # None
               PROVE  \E s \in PutFor(j)' : rateConfig'[p][j] = RateConfigOf(s)
    OBVIOUS
  <2>1. CASE p = n /\ j = k
    <3>1. rateConfig'[p][j] = cfg
      BY <1>1, <1>4, <1>5, <2>1
    <3> QED BY <1>8, <2>1, <3>1
  <2>2. CASE ~(p = n /\ j = k)
    <3>1. rateConfig'[p][j] = rateConfig[p][j]
      BY <1>1, <1>4, <1>5, <2>2
    <3>2. PICK s \in PutFor(j) : rateConfig[p][j] = RateConfigOf(s)
      BY <3>1 DEF ConfigInv
    <3> QED BY <1>7, <3>1, <3>2
  <2> QED BY <2>1, <2>2
<1>11. ASSUME NEW m \in configs'
       PROVE  /\ m.to \in Nodes /\ m.from # m.to
              /\ \E j \in Keys : \E s \in PutFor(j)' :
                   m.args = WriteStruct(StoreNodeSyncRateConfigArgs,
                                        ConfigArgs(j, RateConfigOf(s)))
  <2>1. CASE m \in configs
    <3>1. m.to \in Nodes /\ m.from # m.to
      BY <2>1 DEF ConfigInv
    <3>2. PICK j \in Keys : \E s \in PutFor(j) :
            m.args = WriteStruct(StoreNodeSyncRateConfigArgs,
                                 ConfigArgs(j, RateConfigOf(s)))
      BY <2>1 DEF ConfigInv
    <3> QED BY <1>7, <3>1, <3>2
  <2>2. CASE m \notin configs
    <3>1. PICK o \in reachable :
            m = SendSyncRateConfigToNode(n, o, NewId(configs), k, cfg)
      BY <1>2, <1>11, <2>2
    <3>2. /\ m.from = n /\ m.to = o
          /\ m.args = WriteStruct(StoreNodeSyncRateConfigArgs,
                                  ConfigArgs(k, cfg))
      BY <3>1 DEF SendSyncRateConfigToNode, ConfigArgs
    <3> QED BY <1>3, <1>4, <1>8, <3>2
  <2> QED BY <2>1, <2>2
<1> QED BY <1>6, <1>9, <1>10, <1>11 DEF ConfigInv

\* A node sets the configuration it was sent, if it got all of the request.
LEMMA HandleSyncRateConfigConfig ==
  ASSUME ConfigInv, NEW m \in configs, NEW i \in 0 .. Len(m.args),
         HandleSyncRateConfig(m, i)
  PROVE  ConfigInv'
<1> DEFINE F == StoreNodeSyncRateConfigArgs
           wire == SubSeq(m.args, 1, i)
           a == ReadStruct(F, wire)
           new == [Limit |-> a.threshold, Window |-> a.window,
                   PeakAveraged |-> a.peakaveraged]
<1>1. /\ configs' = configs \ {m}
      /\ rateConfig' =
           IF ~ (status[m.to] = "up" /\ Complete(wire)) THEN rateConfig
           ELSE [rateConfig EXCEPT ![m.to][a.key] = new]
      /\ UNCHANGED asked
  BY DEF HandleSyncRateConfig
<1>2. \A k \in Keys : PutFor(k)' = PutFor(k)
  BY <1>1 DEF PutFor
<1>3. asked' \in [Keys -> SUBSET PutRequests]
  BY <1>1 DEF ConfigInv
<1>4. \A p \in configs' :
        /\ p.to \in Nodes /\ p.from # p.to
        /\ \E k \in Keys : \E r \in PutFor(k)' :
             p.args = WriteStruct(StoreNodeSyncRateConfigArgs,
                                  ConfigArgs(k, RateConfigOf(r)))
  BY <1>1, <1>2 DEF ConfigInv
<1>5. rateConfig \in [Nodes -> [Keys -> RateConfig \union {None}]]
  BY DEF ConfigInv
<1>6. CASE ~ (status[m.to] = "up" /\ Complete(wire))
  <2>1. rateConfig' = rateConfig
    BY <1>1, <1>6
  <2> QED BY <1>2, <1>3, <1>4, <2>1 DEF ConfigInv
<1>7. CASE status[m.to] = "up" /\ Complete(wire)
  <2>sent. PICK k \in Keys : \E r \in PutFor(k) :
          m.args = WriteStruct(F, ConfigArgs(k, RateConfigOf(r)))
    BY DEF ConfigInv
  <2>1. PICK r \in PutFor(k) :
          m.args = WriteStruct(F, ConfigArgs(k, RateConfigOf(r)))
    BY <2>sent
  <2>2. m.to \in Nodes
    BY DEF ConfigInv
  <2>3. wire = WriteStruct(F, ConfigArgs(k, RateConfigOf(r)))
    <3>1. Table(F)
      BY Tables
    <3> HIDE DEF F
    <3> QED BY <1>7, <2>1, <3>1, CompleteIsWhole
  <2>4. /\ a.key = k /\ a.threshold = RateConfigOf(r).Limit
        /\ a.window = RateConfigOf(r).Window
        /\ a.peakaveraged = RateConfigOf(r).PeakAveraged
    <3>1. a = ReadStruct(F, WriteStruct(F, ConfigArgs(k, RateConfigOf(r))))
      BY <2>3
    <3>2. LET b == ReadStruct(F, WriteStruct(F, ConfigArgs(k, RateConfigOf(r))))
          IN  /\ b.key = k /\ b.threshold = RateConfigOf(r).Limit
              /\ b.window = RateConfigOf(r).Window
              /\ b.peakaveraged = RateConfigOf(r).PeakAveraged
      BY ConfigReadsBack
    <3> HIDE DEF a, F
    <3> QED BY <3>1, <3>2
  <2>5. new = RateConfigOf(r)
    BY <2>4 DEF RateConfigOf
  <2>6. RateConfigOf(r) \in RateConfig
    BY PutType DEF PutFor
  <2>7. rateConfig' = [rateConfig EXCEPT ![m.to][k] = RateConfigOf(r)]
    BY <1>1, <1>7, <2>4, <2>5
  <2> HIDE DEF a, new, wire, F
  <2>8. rateConfig' \in [Nodes -> [Keys -> RateConfig \union {None}]]
    <3>1. [rateConfig[m.to] EXCEPT ![k] = RateConfigOf(r)]
            \in [Keys -> RateConfig \union {None}]
      BY <1>5, <2>2, <2>6
    <3> QED BY <1>5, <2>2, <2>7, <3>1
  <2>9. ASSUME NEW p \in Nodes, NEW j \in Keys, rateConfig'[p][j] # None
        PROVE  \E s \in PutFor(j)' : rateConfig'[p][j] = RateConfigOf(s)
    <3>1. CASE p = m.to /\ j = k
      <4>1. rateConfig'[p][j] = RateConfigOf(r)
        BY <1>5, <2>2, <2>7, <3>1
      <4> QED BY <1>2, <2>1, <3>1, <4>1
    <3>2. CASE ~(p = m.to /\ j = k)
      <4>1. rateConfig'[p][j] = rateConfig[p][j]
        BY <1>5, <2>2, <2>7, <3>2
      <4>2. PICK s \in PutFor(j) : rateConfig[p][j] = RateConfigOf(s)
        BY <2>9, <4>1 DEF ConfigInv
      <4> QED BY <1>2, <4>1, <4>2
    <3> QED BY <3>1, <3>2
  <2> QED BY <1>3, <1>4, <2>8, <2>9 DEF ConfigInv
<1> QED BY <1>6, <1>7

\* Every step keeps ConfigInv.
LEMMA NextConfig ==
  ASSUME ConfigInv, [Next]_vars
  PROVE  ConfigInv'
<1>1. ASSUME UNCHANGED <<rateConfig, configs, asked>> PROVE ConfigInv'
  BY <1>1, ConfigQuiet
<1>2. ASSUME NEW n \in Nodes, NEW r \in IncrRequests,
             HttpIncr(n, r) \/ CallIncrAction(n, r)
      PROVE  ConfigInv'
  BY <1>1, <1>2 DEF HttpIncr, CallIncrAction, AppCall, requests
<1>3. ASSUME NEW n \in Nodes, NEW r \in RateLimitRequests,
             HttpRateLimit(n, r) \/ CallRateLimitGlobalAction(n, r)
      PROVE  ConfigInv'
  BY <1>1, <1>3 DEF HttpRateLimit, CallRateLimitGlobalAction, AppCall, requests
<1>4. ASSUME NEW n \in Nodes, NEW r \in PutRequests, HttpPutRate(n, r)
      PROVE  ConfigInv'
  BY <1>4, HttpPutRateConfig
<1>5. ASSUME NEW n \in Nodes,
             \/ ReceiveOn(n) \/ Flush(n) \/ \E k \in Keys : Collect(n, k)
             \/ Close(n) \/ Exit(n) \/ Start(n) \/ Tick(n)
      PROVE  ConfigInv'
  BY <1>1, <1>5, Zenon
  DEF ReceiveOn, Receive, Flush, Collect, Close, Exit, Start, Tick, requests
<1>6. ASSUME \/ \E m \in reports : RereadExpiry(m)
             \/ \E m \in syncs : Serialize(m)
             \/ DeliverSyncs
      PROVE  ConfigInv'
  <2>1. ASSUME NEW m \in reports, RereadExpiry(m) PROVE ConfigInv'
    BY <1>1, <2>1 DEF RereadExpiry, requests
  <2>2. ASSUME NEW m \in syncs, Serialize(m) PROVE ConfigInv'
    BY <1>1, <2>2, Zenon DEF Serialize
  <2>3. ASSUME DeliverSyncs PROVE ConfigInv'
    BY <1>1, <2>3, DeliverQuiet
  <2> QED BY <1>6, <2>1, <2>2, <2>3, Zenon
<1>7. ASSUME DeliverConfigs PROVE ConfigInv'
  BY <1>7, HandleSyncRateConfigConfig DEF DeliverConfigs
<1>8. ASSUME NEW i \in 0 .. Len(app.args),
             HandleIncrAction(i) \/ HandleRateLimitGlobalAction(i)
      PROVE  ConfigInv'
  BY <1>1, <1>8, Zenon DEF HandleIncrAction, HandleRateLimitGlobalAction
<1>9. ASSUME AppReturn \/ AppError PROVE ConfigInv'
  BY <1>1, <1>9, Zenon DEF AppReturn, AppError
<1>10. ASSUME UNCHANGED vars PROVE ConfigInv'
  BY <1>1, <1>10 DEF vars, requests
<1> QED
  BY <1>2, <1>3, <1>4, <1>5, <1>6, <1>7, <1>8, <1>9, <1>10, Zenon DEF Next

\* There is no configuration at first.
LEMMA InitConfig == Init => ConfigInv
BY DEF Init, ConfigInv

\* Every configuration on any node is, number by number modulo 2^32, one that
\* PUT /rate accepted on some node: none is a mixture of two requests, and
\* none is what is left of a request cut short.
THEOREM ConfigHolds == Spec => []ConfigAsPut
<1>1. ConfigInv => ConfigAsPut
  <2> SUFFICES ASSUME ConfigInv, NEW n \in Nodes, NEW k \in Keys,
                      rateConfig[n][k] # None
               PROVE  \E r \in asked[k] :
                        /\ (rateConfig[n][k].Limit - r.Limit)
                             % (2 * (MaxInt32 + 1)) = 0
                        /\ (rateConfig[n][k].Window - r.Window)
                             % (2 * (MaxInt32 + 1)) = 0
                        /\ rateConfig[n][k].PeakAveraged = r.PeakAveraged
    BY DEF ConfigAsPut
  <2>1. PICK r \in PutFor(k) : rateConfig[n][k] = RateConfigOf(r)
    BY DEF ConfigInv
  <2>2. r \in asked[k] /\ r.Limit \in Int /\ r.Window \in Int
    BY <2>1, PutType DEF PutFor
  <2>3. /\ (Narrow(r.Limit) - r.Limit) % (2 * (MaxInt32 + 1)) = 0
        /\ (Narrow(r.Window) - r.Window) % (2 * (MaxInt32 + 1)) = 0
    BY <2>2, NarrowEffect
  <2> QED BY <2>1, <2>2, <2>3 DEF RateConfigOf
<1> QED BY <1>1, InitConfig, NextConfig, PTL DEF Spec
-----------------------------------------------------------------------------
(* The loop of SyncKeys over the commands of a request.                    *)

\* The loop has come to g[s] once it has handled the commands at s.
Loop(base, seq, at, now, g) ==
  g = [s \in SUBSET DOMAIN seq |->
         IF s = {} THEN base
         ELSE BucketSync(g[s \ {Max(s)}], seq[Max(s)], at, now)]

\* ... if s has at most n elements.
LoopUpTo(base, seq, at, now, n, g) ==
  \A s \in SUBSET DOMAIN seq : Cardinality(s) <= n =>
    g[s] = IF s = {} THEN base
           ELSE BucketSync(g[s \ {Max(s)}], seq[Max(s)], at, now)

\* The definition of the fold.
LEMMA LoopDefinition ==
  ASSUME NEW base, NEW seq, NEW at, NEW now
  PROVE  SyncKeys(base, seq, at, now) =
           (CHOOSE g : Loop(base, seq, at, now, g))[DOMAIN seq]
BY DEF SyncKeys, FoldLeft, MapThenFoldSet, Loop

\* The last of some positions in a sequence, and what is before it.
LEMMA LastPosition ==
  ASSUME NEW n \in Nat, NEW s \in SUBSET (1 .. n)
  PROVE  /\ IsFiniteSet(s) /\ Cardinality(s) \in Nat
         /\ s # {} => /\ Max(s) \in s
                      /\ Cardinality(s \ {Max(s)}) = Cardinality(s) - 1
                      /\ Cardinality(s) >= 1
<1>1. IsFiniteSet(s) /\ Cardinality(s) \in Nat
  <2>1. IsFiniteSet(1 .. n)
    BY FS_Interval
  <2>2. IsFiniteSet(s)
    BY <2>1, FS_Subset
  <2> QED BY <2>2, FS_CardinalityType
<1>2. ASSUME s # {}
      PROVE  /\ Max(s) \in s
             /\ Cardinality(s \ {Max(s)}) = Cardinality(s) - 1
             /\ Cardinality(s) >= 1
  <2>1. s \in SUBSET (0 .. n)
    OBVIOUS
  <2>2. \E x \in s : \A y \in s : x >= y
    BY <1>2, <2>1, GreatestNat
  <2>3. Max(s) \in s
    BY <2>2 DEF Max
  <2>4. Cardinality(s \ {Max(s)}) = Cardinality(s) - 1
    BY <1>1, <2>3, FS_RemoveElement
  <2>5. Cardinality(s) # 0
    BY <1>1, <1>2, FS_EmptySet
  <2> QED BY <1>1, <2>3, <2>4, <2>5
<1> QED BY <1>1, <1>2

\* The recursion has a solution for the smaller sets, and so for the larger.
LEMMA LoopUpToExists ==
  ASSUME NEW base, NEW seq, NEW at, NEW now, NEW len \in Nat,
         DOMAIN seq = 1 .. len,
         NEW n \in Nat
  PROVE  \E g : LoopUpTo(base, seq, at, now, n, g)
<1> DEFINE Bad == {i \in Nat : ~ \E g : LoopUpTo(base, seq, at, now, i, g)}
<1> SUFFICES ASSUME Bad # {} PROVE FALSE
  OBVIOUS
<1>1. PICK i \in Bad : \A j \in Bad : i <= j
  <2>1. Bad \in SUBSET Nat
    OBVIOUS
  <2> HIDE DEF Bad
  <2> QED BY <2>1, LeastNat
<1>2. i \in Nat
  OBVIOUS
<1>3. PICK h : i = 0 \/ LoopUpTo(base, seq, at, now, i - 1, h)
  <2>1. i = 0 \/ \E h : LoopUpTo(base, seq, at, now, i - 1, h)
    BY <1>1, <1>2
  <2> QED BY <2>1
<1> DEFINE g == [s \in SUBSET DOMAIN seq |->
                   IF s = {} THEN base
                   ELSE BucketSync(h[s \ {Max(s)}], seq[Max(s)], at, now)]
<1>4. ASSUME NEW s \in SUBSET DOMAIN seq, Cardinality(s) <= i
      PROVE  g[s] = IF s = {} THEN base
                    ELSE BucketSync(g[s \ {Max(s)}], seq[Max(s)], at, now)
  <2>1. CASE s = {}
    BY <2>1
  <2>2. CASE s # {}
    <3> DEFINE r == s \ {Max(s)}
    <3>1. r \in SUBSET DOMAIN seq
      OBVIOUS
    <3>2. /\ Cardinality(r) = Cardinality(s) - 1
          /\ Cardinality(s) >= 1 /\ Cardinality(s) \in Nat
      BY <2>2, LastPosition
    <3>3. i # 0 /\ Cardinality(r) <= i - 1
      BY <1>2, <1>4, <3>2
    <3>4. h[r] = IF r = {} THEN base
                 ELSE BucketSync(h[r \ {Max(r)}], seq[Max(r)], at, now)
      BY <1>3, <3>1, <3>3 DEF LoopUpTo
    <3>5. g[r] = IF r = {} THEN base
                 ELSE BucketSync(h[r \ {Max(r)}], seq[Max(r)], at, now)
      BY <3>1
    <3>6. g[s] = BucketSync(h[r], seq[Max(s)], at, now)
      BY <2>2
    <3> HIDE DEF g, r
    <3>7. g[s] = BucketSync(g[r], seq[Max(s)], at, now)
      BY <3>4, <3>5, <3>6
    <3> QED BY <2>2, <3>7 DEF r
  <2> QED BY <2>1, <2>2
<1>5. LoopUpTo(base, seq, at, now, i, g)
  <2> HIDE DEF g
  <2> QED BY <1>4 DEF LoopUpTo
<1> QED BY <1>5

\* The recursion is solved by some function.
LEMMA LoopExists ==
  ASSUME NEW base, NEW seq, NEW at, NEW now, NEW len \in Nat,
         DOMAIN seq = 1 .. len
  PROVE  \E g : Loop(base, seq, at, now, g)
<1>1. IsFiniteSet(DOMAIN seq) /\ Cardinality(DOMAIN seq) \in Nat
  BY LastPosition
<1>2. PICK h : LoopUpTo(base, seq, at, now, Cardinality(DOMAIN seq), h)
  BY <1>1, LoopUpToExists
<1> DEFINE g == [s \in SUBSET DOMAIN seq |-> h[s]]
<1>3. ASSUME NEW s \in SUBSET DOMAIN seq
      PROVE  g[s] = IF s = {} THEN base
                    ELSE BucketSync(g[s \ {Max(s)}], seq[Max(s)], at, now)
  <2>1. Cardinality(s) <= Cardinality(DOMAIN seq)
    BY <1>1, FS_Subset
  <2>2. h[s] = IF s = {} THEN base
               ELSE BucketSync(h[s \ {Max(s)}], seq[Max(s)], at, now)
    BY <1>2, <2>1 DEF LoopUpTo
  <2>3. g[s \ {Max(s)}] = h[s \ {Max(s)}] /\ g[s] = h[s]
    OBVIOUS
  <2> HIDE DEF g
  <2> QED BY <2>2, <2>3
<1>4. g = [s \in SUBSET DOMAIN seq |->
             IF s = {} THEN base
             ELSE BucketSync(g[s \ {Max(s)}], seq[Max(s)], at, now)]
  <2>1. g = [s \in SUBSET DOMAIN seq |-> g[s]]
    OBVIOUS
  <2> HIDE DEF g
  <2> QED BY <1>3, <2>1
<1> QED BY <1>4 DEF Loop

\* If every round of the loop stays within a set of buckets, so does the loop.
LEMMA LoopType ==
  ASSUME NEW B, NEW base \in B, NEW seq, NEW at, NEW now, NEW len \in Nat,
         DOMAIN seq = 1 .. len,
         \A e \in B, i \in DOMAIN seq : BucketSync(e, seq[i], at, now) \in B
  PROVE  SyncKeys(base, seq, at, now) \in B
<1>1. PICK g : /\ Loop(base, seq, at, now, g)
                  /\ SyncKeys(base, seq, at, now) = g[DOMAIN seq]
  BY LoopDefinition, LoopExists
<1> DEFINE G == {s \in SUBSET DOMAIN seq : g[s] \in B}
<1>2. ASSUME NEW s \in SUBSET DOMAIN seq, \A r \in SUBSET s : r # s => r \in G
      PROVE  s \in G
  <2>1. g[s] = IF s = {} THEN base
               ELSE BucketSync(g[s \ {Max(s)}], seq[Max(s)], at, now)
    BY <1>1 DEF Loop
  <2>2. CASE s = {}
    BY <2>1, <2>2
  <2>3. CASE s # {}
    <3>1. Max(s) \in s
      BY <2>3, LastPosition
    <3>2. g[s \ {Max(s)}] \in B
      BY <1>2, <3>1
    <3> QED BY <2>1, <2>3, <3>1, <3>2
  <2> QED BY <2>2, <2>3
<1>3. IsFiniteSet(DOMAIN seq)
  BY LastPosition
<1>4. DOMAIN seq \in G
  <2> HIDE DEF G
  <2> QED BY <1>2, <1>3, SubsetInduction
<1> QED BY <1>1, <1>4
-----------------------------------------------------------------------------
(* Windows.                                                                *)

\* The windows that some node's clock has come to.
Begun == {x \in Windows : \E o \in Nodes : \E t \in 0 .. clock[o], w \in Lengths :
                            x = GenExpiry(t, w)}

\* Windows are asked for in int32 numbers of seconds.
LEMMA LengthsInt == Lengths \subseteq Int
<1>1. ASSUME NEW r \in IncrRequests, IncrAccepted(r)
      PROVE  WindowOf(IncrArgs(r).window, IncrArgs(r).peakaveraged) \in Int
  <2>1. IncrArgs(r).window \in Int32
    BY <1>1, IncrArgsType DEF IncrCall
  <2> QED BY <2>1, Int32Assumption DEF Int32, WindowOf
<1>2. ASSUME NEW r \in PutRequests
      PROVE  WindowOf(RateConfigOf(r).Window, RateConfigOf(r).PeakAveraged)
               \in Int
  <2>1. RateConfigOf(r).Window \in Int32
    BY PutType DEF RateConfig
  <2> QED BY <2>1, Int32Assumption DEF Int32, WindowOf
<1> QED BY <1>1, <1>2 DEF Lengths

\* A window ends no earlier than an instant of it, and, if it has a length, at
\* the first multiple of it after that instant.
LEMMA WindowEnds ==
  ASSUME NEW t \in Nat, NEW w \in Int
  PROVE  /\ GenExpiry(t, w) \in Nat /\ t <= GenExpiry(t, w)
         /\ w <= 0 => GenExpiry(t, w) = t
         /\ w > 0 => /\ w * Second \in Nat \ {0}
                     /\ GenExpiry(t, w) <= t + w * Second
                     /\ \E q \in Int : GenExpiry(t, w) = (w * Second) * q
<1>1. CASE w <= 0
  BY <1>1 DEF GenExpiry
<1>2. CASE w > 0
  <2>1. PICK S \in Nat \ {0} : S = w * Second
    <3>1. w \in Nat \ {0} /\ Second \in Nat \ {0}
      BY <1>2, SecondAssumption
    <3>2. w * Second \in Nat \ {0}
      BY <3>1
    <3> QED BY <3>2
  <2>2. GenExpiry(t, w) = t + S - (t % S)
    BY <1>2, <2>1 DEF GenExpiry
  <2>3. PICK d \in Int, r \in 0 .. S - 1 : t = S * d + r /\ r = t % S
    <3>1. t \in Int
      OBVIOUS
    <3> QED BY <3>1, Quotient, Zenon
  <2>4. t + S - r = S * (d + 1)
    <3>1. S * (d + 1) = S * d + S /\ S * d \in Int
      OBVIOUS
    <3> QED BY <2>3, <3>1
  <2>5. d + 1 \in Int
    OBVIOUS
  <2>6. t + S - r \in Nat /\ t <= t + S - r /\ t + S - r <= t + S
    OBVIOUS
  <2> QED BY <1>2, <2>1, <2>2, <2>3, <2>4, <2>5, <2>6
<1> QED BY <1>1, <1>2

\* Of two multiples of a length, the later is at least that length later.
LEMMA MultiplesApart ==
  ASSUME NEW S \in Nat \ {0}, NEW p \in Int, NEW q \in Int, S * p < S * q
  PROVE  S * p + S <= S * q
<1>1. p < q
  <2>1. SUFFICES ASSUME q <= p PROVE FALSE
    OBVIOUS
  <2>2. PICK d \in Nat : p = q + d
    <3>1. p - q \in Nat /\ p = q + (p - q)
      BY <2>1
    <3> QED BY <3>1
  <2>3. S * p = S * q + S * d /\ S * d \in Nat /\ S * q \in Int
    BY <2>2
  <2> QED BY <2>3
<1>2. PICK d \in Nat : q = p + 1 + d
  <2>1. q - p - 1 \in Nat /\ q = p + 1 + (q - p - 1)
    BY <1>1
  <2> QED BY <2>1
<1>3. S * q = S * p + S + S * d /\ S * d \in Nat /\ S * p \in Int
  BY <1>2
<1> QED BY <1>3

\* The windows are numbers.
LEMMA WindowsNat == Windows \subseteq Nat
BY ClusterAssumption, LengthsInt, WindowEnds DEF Windows

\* So are those that have begun.
LEMMA BegunNat == Begun \subseteq Nat /\ Begun \subseteq Windows
BY WindowsNat DEF Begun

\* A window that a node's clock has been in has begun.
LEMMA OwnWindow ==
  ASSUME NEW n \in Nodes, clock[n] \in 0 .. MaxNow, NEW t \in 0 .. clock[n],
         NEW w \in Lengths
  PROVE  GenExpiry(t, w) \in Begun
<1>1. t \in 0 .. MaxNow
  BY ClusterAssumption
<1> QED BY <1>1 DEF Begun, Windows
-----------------------------------------------------------------------------
(* Counters and requests.                                                  *)

\* What nodes hold and send, of the windows X.
Entries(X) == [count : Int32, expires : X]
Buckets(X) == [Keys -> Entries(X) \union {None}]
Taken(X) == [entry : Entries(X), until : 0 .. MaxNow]
Shelves(X) == [Keys -> Taken(X) \union {None}]
Held(X) == [count : Int32, expiry : X, force : BOOLEAN, due : BOOLEAN]
Waiting(X) == [Keys -> Held(X) \union {None}]
Commands(X) == [key : Keys, count : Int32, expiry : X, force : BOOLEAN]
Reports(X) == [id : Int, node : Nodes, key : Keys, count : Int32, own : X,
               expiry : X, force : BOOLEAN]

\* int32 addition.
LEMMA AddInt32Type ==
  ASSUME NEW a \in Int32, NEW b \in Int32
  PROVE  AddInt32(a, b) \in Int32
BY Int32Assumption DEF AddInt32, Int32

\* The entry as a call finds it.
LEMMA RenewedType ==
  ASSUME NEW X, NEW e \in Entries(X) \union {None}, NEW expiry \in X, NEW now
  PROVE  Renewed(e, expiry, now) \in Entries(X)
<1>1. 0 \in Int32
  BY Int32Assumption DEF Int32
<1>2. CASE e = None
  BY <1>1, <1>2 DEF Renewed, NewEntry, Entries
<1>3. CASE e # None
  <2>1. e \in Entries(X)
    BY <1>3
  <2>2. ReInit(e, 0, expiry) \in Entries(X)
    BY <1>1, <2>1 DEF ReInit, Entries
  <2> QED BY <1>3, <2>1, <2>2 DEF Renewed
<1> QED BY <1>2, <1>3

\* What KeyBucket.Incr leaves of an entry is an entry.
LEMMA BucketIncrType ==
  ASSUME NEW X, NEW e \in Entries(X) \union {None}, NEW count \in Int32,
         NEW limit, NEW expiry \in X, NEW now
  PROVE  LET r == BucketIncr(e, count, limit, expiry, now) IN
         r.entry \in Entries(X) /\ r.dosync \in BOOLEAN
<1> DEFINE old == Renewed(e, expiry, now)
           new == IF Counted(old.count, limit) THEN EntryIncr(old, count)
                  ELSE old
           blocked == ~Allowed(new.count, limit)
<1>1. old \in Entries(X)
  BY RenewedType
<1> HIDE DEF old
<1>2. new \in Entries(X)
  <2>1. AddInt32(old.count, count) \in Int32
    BY <1>1, AddInt32Type DEF Entries
  <2> QED BY <1>1, <2>1 DEF EntryIncr, Entries
<1>3. (blocked /\ old.count < new.count) \in BOOLEAN
  <2> HIDE DEF new, blocked
  <2> QED OBVIOUS
<1>4. /\ BucketIncr(e, count, limit, expiry, now).entry = new
      /\ BucketIncr(e, count, limit, expiry, now).dosync =
           (blocked /\ old.count < new.count)
  <2> HIDE DEF new, blocked
  <2> QED BY DEF BucketIncr, old, new, blocked
<1> QED BY <1>2, <1>3, <1>4

\* So is what KeyBucket.Sync leaves.
LEMMA BucketSyncType ==
  ASSUME NEW X, NEW b \in Buckets(X), NEW cmd, cmd.key \in Keys,
         cmd.count \in Int32, cmd.expiry \in X, NEW at, NEW now
  PROVE  BucketSync(b, cmd, at, now) \in Buckets(X)
<1> DEFINE old == Renewed(b[cmd.key], cmd.expiry, now)
<1>1. b[cmd.key] \in Entries(X) \union {None}
  BY DEF Buckets
<1>2. old \in Entries(X)
  BY <1>1, RenewedType
<1>3. BucketSync(b, cmd, at, now) =
        IF at > cmd.expiry THEN b
        ELSE [b EXCEPT ![cmd.key] = EntrySync(old, cmd.count)]
  BY DEF BucketSync, Buckets
<1> HIDE DEF old
<1>4. EntrySync(old, cmd.count) \in Entries(X)
  <2>1. AddInt32(old.count, cmd.count) \in Int32
    BY <1>2, AddInt32Type DEF Entries
  <2> QED BY <1>2, <2>1 DEF EntrySync, Entries
<1> QED BY <1>3, <1>4 DEF Buckets

\* What the worker holds for a key.
LEMMA AggregateType ==
  ASSUME NEW X, NEW u \in Held(X) \union {None}, NEW cmd \in Commands(X)
  PROVE  Aggregate(u, cmd) \in Held(X)
<1>0. PICK c \in Int32, x \in X, f \in BOOLEAN :
        c = cmd.count /\ x = cmd.expiry /\ f = cmd.force
  BY DEF Commands
<1>1. CASE u # None /\ u.expiry = cmd.expiry
  <2> DEFINE total == AddInt32(u.count, c)
  <2>1. u \in Held(X)
    BY <1>1
  <2>2. total \in Int32
    BY <2>1, AddInt32Type DEF Held
  <2>3. Aggregate(u, cmd) = [u EXCEPT !.count = total,
                                      !.due = @ \/ MustSend(f, total)]
    BY <1>0, <1>1 DEF Aggregate
  <2> HIDE DEF total
  <2>4. (u.due \/ MustSend(f, total)) \in BOOLEAN
    OBVIOUS
  <2> QED BY <2>1, <2>2, <2>3, <2>4 DEF Held
<1>2. CASE ~(u # None /\ u.expiry = cmd.expiry)
  <2>1. Aggregate(u, cmd) = [count |-> c, expiry |-> x, force |-> f,
                             due |-> MustSend(f, c)]
    BY <1>0, <1>2 DEF Aggregate
  <2>2. MustSend(f, c) \in BOOLEAN
    BY DEF MustSend
  <2> QED BY <2>1, <2>2 DEF Held
<1> QED BY <1>1, <1>2

\* A report carries a command.
LEMMA CommandOfType ==
  ASSUME NEW X, NEW m \in Reports(X)
  PROVE  CommandOf(m) \in Commands(X)
BY DEF CommandOf, Commands, Reports

\* What the history is kept in stays so.
LEMMA BookType ==
  ASSUME NEW l \in Ledger, NEW k \in Keys, NEW x \in Windows, NEW c \in Int
  PROVE  Book(l, k, x, c) \in Ledger
<1>1. l[k] \in [Windows -> Int] /\ l[k][x] \in Int
  BY DEF Ledger
<1>2. [l[k] EXCEPT ![x] = @ + c] \in [Windows -> Int]
  BY <1>1
<1> QED BY <1>1, <1>2 DEF Book, Ledger

\* ... what a node has to send ...
LEMMA UnsentType ==
  ASSUME NEW n \in Nodes, NEW X, unsynced \in [Nodes -> Waiting(X)], NEW K
  PROVE  Unsent(n, K) \in Ledger
<1>1. ASSUME NEW k \in Keys, NEW x \in Windows
      PROVE  (IF k \in K /\ unsynced[n][k] # None /\ unsynced[n][k].expiry = x
                THEN unsynced[n][k].count ELSE 0) \in Int
  <2>1. unsynced[n][k] # None => unsynced[n][k].count \in Int
    BY Int32Assumption DEF Waiting, Held, Int32
  <2> QED BY <2>1
<1> QED BY <1>1 DEF Unsent, Ledger

\* ... what it has to report ...
LEMMA ReportedSum ==
  ASSUME NEW S, IsFiniteSet(S), NEW X, S \subseteq Reports(X), NEW k, NEW x
  PROVE  SumFunction([m \in S |-> Reported(m, k, x)]) \in Int
<1> DEFINE f == [m \in S |-> Reported(m, k, x)]
<1>1. \A m \in S : m.count \in Int
  BY Int32Assumption DEF Reports, Int32
<1>2. f \in [S -> Int]
  BY <1>1 DEF Reported
<1> HIDE DEF f
<1> QED BY <1>2, SumFunctionInt DEF f

\* ... what a request carries ...
LEMMA CarriedType ==
  ASSUME NEW X, NEW m, m.batch \in Seq(Commands(X))
  PROVE  Carried(m) \in Ledger
<1> DEFINE sum(k, x) ==
             SumFunction([i \in DOMAIN m.batch |->
                            IF m.sound /\ m.batch[i].key = k /\ m.batch[i].expiry = x
                              THEN m.batch[i].count ELSE 0])
<1>1. ASSUME NEW k, NEW x
      PROVE  sum(k, x) \in Int
  <2> DEFINE D == DOMAIN m.batch
             f == [i \in D |->
                     IF m.sound /\ m.batch[i].key = k /\ m.batch[i].expiry = x
                       THEN m.batch[i].count ELSE 0]
  <2>1. IsFiniteSet(D)
    <3>1. Len(m.batch) \in Nat /\ D = 1 .. Len(m.batch)
      OBVIOUS
    <3> QED BY <3>1, FS_Interval
  <2>2. \A i \in D : f[i] \in Int
    <3>1. \A i \in D : m.batch[i] \in Commands(X)
      OBVIOUS
    <3>2. \A i \in D : m.batch[i].count \in Int
      BY <3>1, Int32Assumption DEF Commands, Int32
    <3> QED BY <3>2
  <2>3. DOMAIN f = D
    OBVIOUS
  <2> HIDE DEF f, D
  <2>4. SumFunctionOnSet(f, D) \in Int
    BY <2>1, <2>2, SumInt
  <2>5. SumFunction(f) \in Int
    BY <2>3, <2>4 DEF SumFunction
  <2> QED BY <2>5 DEF f, D
<1>2. Carried(m) = [k \in Keys |-> [x \in Windows |-> sum(k, x)]]
  BY DEF Carried
<1> HIDE DEF sum
<1> QED BY <1>1, <1>2 DEF Ledger

\* ... what several of them carry ...
LEMMA CarriedSum ==
  ASSUME NEW S, IsFiniteSet(S), NEW X,
         \A m \in S : m.batch \in Seq(Commands(X)),
         NEW k \in Keys, NEW x \in Windows
  PROVE  SumFunction([m \in S |-> Carried(m)[k][x]]) \in Int
<1> DEFINE f == [m \in S |-> Carried(m)[k][x]]
<1>1. \A m \in S : Carried(m) \in Ledger
  BY CarriedType
<1>2. \A m \in S : Carried(m)[k][x] \in Int
  BY <1>1 DEF Ledger
<1>3. f \in [S -> Int]
  BY <1>2
<1> HIDE DEF f
<1> QED BY <1>3, SumFunctionInt DEF f

\* ... what it has still to send ...
LEMMA WithheldType ==
  ASSUME NEW n \in Nodes, NEW o \in Nodes, NEW X,
         unsynced \in [Nodes -> Waiting(X)],
         IsFiniteSet(reports), reports \subseteq Reports(X),
         IsFiniteSet(syncs), \A m \in syncs : m.batch \in Seq(Commands(X))
  PROVE  Withheld(n, o) \in Ledger
<1> DEFINE R == {m \in reports : m.node = n}
           Q == {m \in syncs : m.from = n /\ m.to = o /\ ~Sent(m)}
<1>1. IsFiniteSet(R) /\ R \subseteq Reports(X)
  BY FS_Subset
<1>2. IsFiniteSet(Q) /\ \A m \in Q : m.batch \in Seq(Commands(X))
  BY FS_Subset
<1>3. ASSUME NEW k \in Keys, NEW x \in Windows
      PROVE  Unsent(n, {k})[k][x]
               + SumFunction([m \in R |-> Reported(m, k, x)])
               + SumFunction([m \in Q |-> Carried(m)[k][x]]) \in Int
  <2> HIDE DEF R, Q
  <2>1. Unsent(n, {k})[k][x] \in Int
    BY UnsentType DEF Ledger
  <2>2. SumFunction([m \in R |-> Reported(m, k, x)]) \in Int
    BY <1>1, ReportedSum
  <2>3. SumFunction([m \in Q |-> Carried(m)[k][x]]) \in Int
    BY <1>2, CarriedSum
  <2> QED BY <2>1, <2>2, <2>3
<1>4. Withheld(n, o) = [k \in Keys |-> [x \in Windows |->
                          Unsent(n, {k})[k][x]
                            + SumFunction([m \in R |-> Reported(m, k, x)])
                            + SumFunction([m \in Q |-> Carried(m)[k][x]])]]
  BY DEF Withheld
<1> HIDE DEF R, Q
<1> QED BY <1>3, <1>4 DEF Ledger

\* ... and what was lost.
LEMMA LoseType ==
  ASSUME lost \in [Nodes -> [Nodes -> Ledger]], NEW n \in Nodes, NEW to,
         NEW what \in [Nodes -> Ledger]
  PROVE  Lose(n, to, what) \in [Nodes -> [Nodes -> Ledger]]
<1> DEFINE new == [o \in Nodes |->
                     IF o \notin to THEN lost[n][o]
                     ELSE [k \in Keys |-> [x \in Windows |->
                             lost[n][o][k][x] + what[o][k][x]]]]
<1>1. ASSUME NEW o \in Nodes
      PROVE  [k \in Keys |-> [x \in Windows |->
                lost[n][o][k][x] + what[o][k][x]]] \in Ledger
  <2>1. lost[n][o] \in Ledger
    OBVIOUS
  <2>2. \A k \in Keys, x \in Windows : lost[n][o][k][x] + what[o][k][x] \in Int
    <3>1. what[o] \in Ledger
      OBVIOUS
    <3> QED BY <2>1, <3>1 DEF Ledger
  <2> QED BY <2>2 DEF Ledger
<1>2. new \in [Nodes -> Ledger]
  BY <1>1
<1>3. Lose(n, to, what) = [lost EXCEPT ![n] = new]
  BY DEF Lose
<1> HIDE DEF new
<1> QED BY <1>2, <1>3

\* SyncKeys reads the commands that were sent.
LEMMA CommandReadsBack ==
  ASSUME NEW c
  PROVE  LET a == ReadStruct(SyncCommand, WriteStruct(SyncCommand, c)) IN
         a.key = c.key /\ a.count = c.count /\ a.expiry = c.expiry
<1> DEFINE F == SyncCommand
           a == ReadStruct(F, WriteStruct(F, c))
<1>1. /\ DOMAIN F = 1 .. 4
      /\ F[1].name = "key" /\ F[2].name = "count" /\ F[3].name = "expiry"
  BY DEF SyncCommand, Field
<1>2. Table(F)
  BY Tables
<1>3. \A i \in DOMAIN F : a[F[i].name] = c[F[i].name]
  BY <1>2, ReadsBack
<1> HIDE DEF F, a
<1>4. 1 \in DOMAIN F /\ 2 \in DOMAIN F /\ 3 \in DOMAIN F
  BY <1>1
<1>5. a["key"] = c["key"] /\ a["count"] = c["count"] /\ a["expiry"] = c["expiry"]
  BY <1>1, <1>3, <1>4, Zenon
<1>6. a.key = c.key /\ a.count = c.count /\ a.expiry = c.expiry
  BY <1>5
<1> QED BY <1>6 DEF F, a

\* The list is read element by element.
LEMMA SyncsReadBack ==
  ASSUME NEW b
  PROVE  /\ DOMAIN ReadSyncs(WriteSyncs(b)) = DOMAIN b
         /\ \A i \in DOMAIN b :
              /\ ReadSyncs(WriteSyncs(b))[i].key = b[i].key
              /\ ReadSyncs(WriteSyncs(b))[i].count = b[i].count
              /\ ReadSyncs(WriteSyncs(b))[i].expiry = b[i].expiry
<1> DEFINE F == StoreNodeSyncKeysArgs
           elements == [i \in DOMAIN b |-> WriteStruct(SyncCommand, b[i])]
           v == [syncs |-> elements]
           list == ReadStruct(F, WriteSyncs(b)).syncs
<1>1. 1 \in DOMAIN F /\ F[1].name = "syncs"
  BY DEF StoreNodeSyncKeysArgs, Field
<1>2. Table(F)
  BY Tables
<1>3. WriteSyncs(b) = WriteStruct(F, v)
  BY DEF WriteSyncs
<1>4. list = elements
  <2> HIDE DEF F, elements
  <2>1. ReadStruct(F, WriteStruct(F, v))["syncs"] = v["syncs"]
    BY <1>1, <1>2, ReadsBack
  <2> QED BY <1>3, <2>1
<1>5. ReadSyncs(WriteSyncs(b)) =
        [i \in DOMAIN list |-> ReadStruct(SyncCommand, list[i])]
  BY DEF ReadSyncs
<1> HIDE DEF list, F
<1>6. ReadSyncs(WriteSyncs(b)) =
        [i \in DOMAIN b |->
           ReadStruct(SyncCommand, WriteStruct(SyncCommand, b[i]))]
  BY <1>4, <1>5
<1>7. ASSUME NEW i \in DOMAIN b
      PROVE  /\ ReadSyncs(WriteSyncs(b))[i].key = b[i].key
             /\ ReadSyncs(WriteSyncs(b))[i].count = b[i].count
             /\ ReadSyncs(WriteSyncs(b))[i].expiry = b[i].expiry
  <2> DEFINE a == ReadStruct(SyncCommand, WriteStruct(SyncCommand, b[i]))
  <2>1. ReadSyncs(WriteSyncs(b))[i] = a
    BY <1>6
  <2>2. a.key = b[i].key /\ a.count = b[i].count /\ a.expiry = b[i].expiry
    BY CommandReadsBack
  <2> HIDE DEF a
  <2> QED BY <2>1, <2>2
<1> QED BY <1>6, <1>7

\* A request that has been serialised says so.
LEMMA WrittenIsSent ==
  ASSUME NEW b
  PROVE  WriteSyncs(b) # << >> /\ Complete(WriteSyncs(b))
<1> DEFINE F == StoreNodeSyncKeysArgs
           v == [syncs |-> [i \in DOMAIN b |-> WriteStruct(SyncCommand, b[i])]]
<1>1. WriteSyncs(b) = WriteStruct(F, v)
  BY DEF WriteSyncs
<1>2. Table(F)
  BY Tables
<1> HIDE DEF F, v
<1>3. /\ Len(F) \in Nat /\ DOMAIN WriteStruct(F, v) = 1 .. Len(F) + 1
      /\ Len(WriteStruct(F, v)) = Len(F) + 1
      /\ WriteStruct(F, v)[Len(F) + 1] = Stop
  BY <1>2, Written
<1>4. Len(F) + 1 \in DOMAIN WriteStruct(F, v)
  BY <1>3
<1>5. WriteStruct(F, v) # << >>
  BY <1>4
<1> QED BY <1>1, <1>3, <1>4, <1>5 DEF Complete
-----------------------------------------------------------------------------
(* The replicas: every count on a node or on the way to one belongs to a   *)
(* window that some clock has come to.                                     *)

\* A batch has at most one command for a key.
Distinct(b) == \A i, j \in DOMAIN b : b[i].key = b[j].key => i = j

\* A request from when it is flushed until it is handled or fails.
WellSent(m) ==
  /\ DOMAIN m = {"id", "from", "to", "batch", "since", "sound", "args"}
  /\ m.id \in Int /\ m.from \in Nodes /\ m.to \in Nodes /\ m.from # m.to
  /\ m.batch \in Seq(Commands(Begun)) /\ m.since \in Nat
  /\ m.sound \in BOOLEAN /\ (m.sound => Distinct(m.batch))
  /\ Sent(m) => m.args = WriteSyncs(m.batch)
  /\ ~Sent(m) => m.sound /\ status[m.from] # "down"

ClockInv == /\ clock \in [Nodes -> 0 .. MaxNow]
            /\ booted \in [Nodes -> Nat]
            /\ \A n \in Nodes : booted[n] <= clock[n]
            /\ \A n, o \in Nodes : clock[o] <= clock[n] + MaxSkew

CountersInv ==
  /\ status \in [Nodes -> {"up", "closed", "down"}]
  /\ counter \in [Nodes -> Buckets(Begun)]
  /\ collected \in [Nodes -> Shelves(Begun)]
  /\ unsynced \in [Nodes -> Waiting(Begun)]
  /\ \A n \in Nodes, k \in Keys :
       /\ collected[n][k] # None => collected[n][k].until \in booted[n] .. clock[n]
       /\ status[n] = "down" => /\ counter[n][k] = None /\ unsynced[n][k] = None
                                /\ collected[n][k] = None

ReportsInv ==
  /\ IsFiniteSet(reports) /\ reports \subseteq Reports(Begun)
  /\ \A m \in reports : status[m.node] # "down"
  /\ \A m, q \in reports : m.id = q.id => m = q
  /\ written \in [Nodes -> Seq(Commands(Begun))]

SyncsInv == /\ IsFiniteSet(syncs)
            /\ \A m \in syncs : WellSent(m)
            /\ \A m, q \in syncs : m.id = q.id /\ m.to = q.to => m = q

BooksInv == /\ made \in [Nodes -> Ledger]
            /\ lost \in [Nodes -> [Nodes -> Ledger]]
            /\ apart \in [Nodes -> [Keys -> SUBSET Windows]]

MixedInv ==
  /\ misfiled \in [Nodes -> [Keys -> SUBSET (Windows \X Windows
                                               \X (0 .. MaxNow))]]
  /\ mixed \in [Nodes -> [Keys -> SUBSET Windows]]
  /\ garbled \in [Nodes -> SUBSET Keys]
  /\ MixedOnlyAtTheEnd

ReplicaInv ==
  ClockInv /\ CountersInv /\ ReportsInv /\ SyncsInv /\ BooksInv /\ MixedInv

\* While the clocks stand still no window begins.
LEMMA ClockQuiet ==
  ASSUME ClockInv, UNCHANGED <<clock, booted>>
  PROVE  ClockInv' /\ Begun' = Begun
BY DEF ClockInv, Begun

\* Requests under way stay as they are.
LEMMA SyncsQuiet ==
  ASSUME SyncsInv, UNCHANGED <<clock, status>>, syncs' \subseteq syncs
  PROVE  SyncsInv'
<1>1. Begun' = Begun
  BY DEF Begun
<1>2. IsFiniteSet(syncs')
  BY FS_Subset DEF SyncsInv
<1>3. \A m \in syncs' : WellSent(m)'
  BY <1>1 DEF SyncsInv, WellSent, Sent, Distinct
<1> QED BY <1>2, <1>3 DEF SyncsInv

\* So do the reports.
LEMMA ReportsQuiet ==
  ASSUME ReportsInv, UNCHANGED <<clock, status, written>>, reports' \subseteq reports
  PROVE  ReportsInv'
<1>1. Begun' = Begun
  BY DEF Begun
<1>2. IsFiniteSet(reports')
  BY FS_Subset DEF ReportsInv
<1> QED BY <1>1, <1>2 DEF ReportsInv

\* So do the counters.
LEMMA CountersQuiet ==
  ASSUME CountersInv,
         UNCHANGED <<clock, booted, status, counter, collected, unsynced>>
  PROVE  CountersInv'
<1>1. Begun' = Begun
  BY DEF Begun
<1> QED BY <1>1 DEF CountersInv

\* The history stays as it is.
LEMMA BooksQuiet ==
  ASSUME BooksInv, UNCHANGED <<made, lost, apart>>
  PROVE  BooksInv'
BY DEF BooksInv

\* So does what was mixed up.
LEMMA MixedQuiet ==
  ASSUME MixedInv, UNCHANGED <<misfiled, mixed, garbled>>
  PROVE  MixedInv'
BY DEF MixedInv, MixedOnlyAtTheEnd, OneLength

\* The arguments that Store.Incr is called with.
CallArgs(a) == /\ a.key \in Keys /\ a.count \in Int32 /\ a.threshold \in Int32
               /\ WindowOf(a.window, a.peakaveraged) \in Lengths

\* A step that calls Store.Incr, or that finds no configuration to call it.
CallStep ==
  /\ UNCHANGED <<status, clock, booted, unsynced, written, syncs>>
  /\ UNCHANGED <<lost, misfiled, mixed, garbled>>
  /\ \/ UNCHANGED <<buckets, reports, made, apart, admitted, budget>>
     \/ \E n \in Nodes : \E a, ask, blocked :
          Serving(n) /\ CallArgs(a) /\ StoreIncr(n, a, ask, blocked)

\* An id that no request has.
LEMMA NewIdFresh ==
  ASSUME NEW S, IsFiniteSet(S)
  PROVE  NewId(S) \in Nat /\ \A m \in S : m.id # NewId(S)
<1> DEFINE I == {m.id : m \in S}
           f == [m \in S |-> m.id]
           c == Cardinality(S)
<1>1. c \in Nat
  BY FS_CardinalityType
<1>2. IsFiniteSet(I) /\ Cardinality(I) <= c /\ Cardinality(I) \in Nat
  <2>1. f \in Surjection(S, I)
    BY DEF Surjection
  <2> HIDE DEF f, I
  <2>2. IsFiniteSet(I) /\ Cardinality(I) <= Cardinality(S)
    BY <2>1, FS_Surjection
  <2> QED BY <2>2, FS_CardinalityType
<1>3. IsFiniteSet(0 .. c) /\ Cardinality(0 .. c) = c + 1
  BY <1>1, FS_Interval
<1>4. \E i \in 0 .. c : i \notin I
  <2>1. SUFFICES ASSUME 0 .. c \subseteq I PROVE FALSE
    OBVIOUS
  <2>2. Cardinality(0 .. c) <= Cardinality(I)
    <3> HIDE DEF I, c
    <3> QED BY <1>2, <2>1, FS_Subset
  <2> HIDE DEF I, c
  <2> QED BY <1>1, <1>2, <1>3, <2>2
<1>5. \E i \in 0 .. c : \A m \in S : m.id # i
  BY <1>4
<1>6. NewId(S) \in 0 .. c /\ \A m \in S : m.id # NewId(S)
  BY <1>5, Zenon DEF NewId
<1> QED BY <1>1, <1>6

\* What Store.Incr does with the entry f that its call has found, when the
\* result of KeyBucket.Incr is r.
Counts(n, a, ask, limit, f, r, blocked) ==
  /\ blocked = r.blocked
  /\ IF f.astray
       THEN /\ collected' = [collected EXCEPT ![n][a.key].entry = r.entry]
            /\ apart' = [apart EXCEPT ![n][a.key] = @ \union {r.entry.expires}]
            /\ UNCHANGED counter
       ELSE /\ counter' = [counter EXCEPT ![n][a.key] = r.entry]
            /\ UNCHANGED <<collected, apart>>
  /\ reports' = IF r.blocked /\ ~r.dosync THEN reports
                ELSE reports \union
                       {[id |-> NewId(reports), node |-> n, key |-> a.key,
                         count |-> a.count, own |-> r.entry.expires,
                         expiry |-> r.entry.expires, force |-> r.dosync]}
  /\ made' = IF r.counted
               THEN [made EXCEPT ![n] =
                       Book(@, a.key, r.entry.expires, a.count)]
               ELSE made
  /\ IF r.blocked THEN UNCHANGED <<admitted, budget>>
     ELSE /\ admitted' = [admitted EXCEPT ![n] =
                            Book(@, a.key, r.entry.expires, a.count)]
          /\ budget' = [budget EXCEPT ![n][a.key][r.entry.expires] =
                          Max({@, Entitled(ask)})]
  /\ breached' = IF r.dosync /\ \A m \in reports : m.node # n \/ m.key # a.key
                   THEN breached \union {[node |-> n, key |-> a.key,
                                          window |-> r.entry.expires,
                                          limit |-> limit]}
                   ELSE breached
  /\ UNCHANGED <<lost, misfiled, mixed, garbled>>

\* The entry that a call has found.
Finds(n, k, f) ==
  /\ f.astray \in BOOLEAN
  /\ f.entry \in Entries(Begun) \union {None}
  /\ ~f.astray => f.entry = counter[n][k]
  /\ f.astray => collected[n][k] # None /\ f.entry = collected[n][k].entry

\* What Store.Incr does.
LEMMA StoreIncrEffect ==
  ASSUME ClockInv, CountersInv, NEW n \in Nodes, NEW a, CallArgs(a),
         NEW ask, NEW blocked, StoreIncr(n, a, ask, blocked)
  PROVE  \E f : \E limit \in Thresholds(a.threshold, a.window, a.peakaveraged),
                    y \in Begun :
           /\ Finds(n, a.key, f)
           /\ Counts(n, a, ask, limit, f,
                     BucketIncr(f.entry, a.count, limit, y, clock[n]), blocked)
<1>1. PICK limit \in Thresholds(a.threshold, a.window, a.peakaveraged),
           f \in Lookup(n, a.key) :
        \E t \in booted[n] .. f.until :
          Counts(n, a, ask, limit, f,
                 BucketIncr(f.entry, a.count, limit,
                   GenExpiry(t, WindowOf(a.window, a.peakaveraged)), clock[n]),
                 blocked)
  BY ZenonT(60) DEF StoreIncr, Counts
<1>2. PICK t \in booted[n] .. f.until :
        Counts(n, a, ask, limit, f,
               BucketIncr(f.entry, a.count, limit,
                 GenExpiry(t, WindowOf(a.window, a.peakaveraged)), clock[n]),
                 blocked)
  BY <1>1
<1>3. /\ a.key \in Keys /\ clock[n] \in 0 .. MaxNow
      /\ booted[n] \in Nat /\ booted[n] <= clock[n]
      /\ counter[n][a.key] \in Entries(Begun) \union {None}
      /\ collected[n][a.key] \in Taken(Begun) \union {None}
      /\ collected[n][a.key] # None =>
           collected[n][a.key].until \in booted[n] .. clock[n]
  <2>1. a.key \in Keys
    BY DEF CallArgs
  <2> QED BY <2>1 DEF ClockInv, CountersInv, Buckets, Shelves
<1>4. f.until \in Int /\ f.until <= clock[n] /\ Finds(n, a.key, f)
  <2>1. CASE f = [entry |-> counter[n][a.key], until |-> clock[n],
                  astray |-> FALSE]
    BY <1>3, <2>1, ClusterAssumption DEF Finds
  <2>2. CASE /\ collected[n][a.key] # None
             /\ f = [entry |-> collected[n][a.key].entry,
                     until |-> collected[n][a.key].until, astray |-> TRUE]
    <3>1. collected[n][a.key].entry \in Entries(Begun)
      BY <1>3, <2>2 DEF Taken
    <3>2. /\ f.entry = collected[n][a.key].entry /\ f.astray = TRUE
          /\ f.until \in booted[n] .. clock[n]
      BY <1>3, <2>2
    <3> QED BY <1>3, <2>2, <3>1, <3>2, ClusterAssumption DEF Finds
  <2> QED BY <1>1, <2>1, <2>2 DEF Lookup
<1>5. t \in 0 .. clock[n]
  BY <1>2, <1>3, <1>4, ClusterAssumption
<1>6. GenExpiry(t, WindowOf(a.window, a.peakaveraged)) \in Begun
  BY <1>3, <1>5, OwnWindow DEF CallArgs
<1>7. PICK y \in Begun : y = GenExpiry(t, WindowOf(a.window, a.peakaveraged))
  BY <1>6
<1>8. Counts(n, a, ask, limit, f,
             BucketIncr(f.entry, a.count, limit, y, clock[n]), blocked)
  BY <1>2, <1>7
<1> QED BY <1>1, <1>4, <1>7, <1>8, Zenon

\* What it leaves alone.
LEMMA StoreIncrQuiet ==
  ASSUME NEW n, NEW a, NEW ask, NEW blocked, StoreIncr(n, a, ask, blocked)
  PROVE  UNCHANGED <<lost, misfiled, mixed, garbled>>
<1>1. PICK limit \in Thresholds(a.threshold, a.window, a.peakaveraged),
           f \in Lookup(n, a.key) :
        \E t \in booted[n] .. f.until :
          Counts(n, a, ask, limit, f,
                 BucketIncr(f.entry, a.count, limit,
                   GenExpiry(t, WindowOf(a.window, a.peakaveraged)), clock[n]),
                 blocked)
  BY ZenonT(60) DEF StoreIncr, Counts
<1> QED BY <1>1 DEF Counts

\* RateLimitGlobal calls it with what is configured, or changes nothing.
LEMMA RateLimitGlobalCall ==
  ASSUME ConfigInv, NEW n \in Nodes, Serving(n), NEW a, a.key \in Keys,
         a.count \in Int32, NEW blocked, RateLimitGlobal(n, a, blocked),
         UNCHANGED <<status, clock, booted, unsynced, written, syncs>>
  PROVE  CallStep
<1> DEFINE cfg == rateConfig[n][a.key]
<1>1. CASE cfg = None
  <2>1. /\ UNCHANGED <<buckets, reports, made, apart, admitted, budget>>
        /\ UNCHANGED <<lost, misfiled, mixed, garbled>>
    BY <1>1 DEF RateLimitGlobal, ledgers
  <2> QED BY <2>1 DEF CallStep
<1>2. CASE cfg # None
  <2> DEFINE full == [key |-> a.key, count |-> a.count,
                      threshold |-> cfg.Limit, window |-> cfg.Window,
                      peakaveraged |-> cfg.PeakAveraged]
  <2>1. StoreIncr(n, full, full, blocked)
    BY <1>2 DEF RateLimitGlobal
  <2>2. PICK r \in PutFor(a.key) : cfg = RateConfigOf(r)
    BY <1>2 DEF ConfigInv
  <2>3. /\ WindowOf(cfg.Window, cfg.PeakAveraged) \in Lengths
        /\ cfg \in RateConfig
    BY <2>2, PutType DEF PutFor
  <2>4. CallArgs(full)
    BY <2>3 DEF CallArgs, RateConfig
  <2> HIDE DEF full
  <2>5. UNCHANGED <<lost, misfiled, mixed, garbled>>
    BY <2>1, StoreIncrQuiet
  <2> QED BY <2>1, <2>4, <2>5 DEF CallStep
<1> QED BY <1>1, <1>2

\* Calls through HTTP.
LEMMA HttpCall ==
  ASSUME ConfigInv, NEW n \in Nodes, NEW r,
         \/ r \in IncrRequests /\ HttpIncr(n, r)
         \/ r \in RateLimitRequests /\ HttpRateLimit(n, r)
  PROVE  CallStep
<1>1. /\ UNCHANGED <<status, clock, booted, unsynced, written, syncs>>
      /\ Serving(n)
  BY Zenon DEF HttpIncr, HttpRateLimit, requests
<1>2. CASE r \in IncrRequests /\ HttpIncr(n, r)
  <2>1. IncrArgs(r) \in IncrCall
    BY <1>2, IncrArgsType DEF HttpIncr
  <2>2. \E blocked \in BOOLEAN :
          StoreIncr(n, IncrArgs(r),
                    [threshold |-> r.T.value, window |-> r.W.value,
                     peakaveraged |-> r.P.value > 0], blocked)
    BY <1>2, Zenon DEF HttpIncr
  <2>3. CallArgs(IncrArgs(r))
    BY <2>1 DEF IncrCall, CallArgs
  <2> QED BY <1>1, <2>2, <2>3, StoreIncrQuiet, Zenon DEF CallStep
<1>3. CASE r \in RateLimitRequests /\ HttpRateLimit(n, r)
  <2>1. RateLimitArgs(r) \in RateLimitCall
    BY <1>3, RateLimitArgsType
  <2>2. PICK blocked \in BOOLEAN :
          RateLimitGlobal(n, RateLimitArgs(r), blocked)
    BY <1>3, Zenon DEF HttpRateLimit
  <2>3. /\ RateLimitArgs(r).key \in Keys /\ RateLimitArgs(r).count \in Int32
    BY <2>1 DEF RateLimitCall
  <2> QED BY <1>1, <2>2, <2>3, RateLimitGlobalCall
<1> QED BY <1>2, <1>3

\* Calls through Thrift: the handler reads what the client wrote.
LEMMA ThriftCall ==
  ASSUME ConfigInv, AppInv, NEW i \in 0 .. Len(app.args),
         HandleIncrAction(i) \/ HandleRateLimitGlobalAction(i)
  PROVE  CallStep
<1> DEFINE wire == SubSeq(app.args, 1, i)
<1>1. /\ UNCHANGED <<status, clock, booted, unsynced, written, syncs>>
      /\ app.phase = "called" /\ status[app.node] = "up" /\ Complete(wire)
  BY Zenon DEF HandleIncrAction, HandleRateLimitGlobalAction
<1>2. app.node \in Nodes /\ Serving(app.node)
  BY <1>1 DEF AppInv, Serving
<1>3. CASE HandleIncrAction(i)
  <2> DEFINE F == StoreNodeIncrActionArgs
             b == ReadStruct(F, wire)
  <2>1. app.method = "IncrAction"
    BY <1>3 DEF HandleIncrAction
  <2>2. PICK r \in IncrRequests :
          /\ IncrAccepted(r) /\ app.ask = IncrArgs(r)
          /\ app.args = WriteStruct(F, IncrArgs(r))
    BY <1>1, <2>1 DEF AppInv
  <2> DEFINE a == IncrArgs(r)
  <2>0. a \in IncrCall
    BY <2>2, IncrArgsType
  <2> HIDE DEF a
  <2>3. wire = WriteStruct(F, a)
    <3>1. Table(F)
      BY Tables
    <3> HIDE DEF F
    <3> QED BY <1>1, <2>2, <3>1, CompleteIsWhole DEF a
  <2>4. \E blocked \in BOOLEAN : StoreIncr(app.node, b, app.ask, blocked)
    BY <1>3, Zenon DEF HandleIncrAction
  <2>5. /\ DOMAIN F = 1 .. 5
        /\ F[1].name = "key" /\ F[2].name = "count" /\ F[3].name = "threshold"
        /\ F[4].name = "window" /\ F[5].name = "peakaveraged"
    BY DEF StoreNodeIncrActionArgs, Field
  <2>6. \A j \in DOMAIN F : b[F[j].name] = a[F[j].name]
    <3>1. Table(F)
      BY Tables
    <3>2. b = ReadStruct(F, WriteStruct(F, a))
      BY <2>3
    <3> HIDE DEF F, b
    <3> QED BY <3>1, <3>2, ReadsBack
  <2> HIDE DEF F, b, wire
  <2>7. /\ b["key"] = a["key"] /\ b["count"] = a["count"]
        /\ b["threshold"] = a["threshold"] /\ b["window"] = a["window"]
        /\ b["peakaveraged"] = a["peakaveraged"]
    <3>1. /\ 1 \in DOMAIN F /\ 2 \in DOMAIN F /\ 3 \in DOMAIN F
          /\ 4 \in DOMAIN F /\ 5 \in DOMAIN F
      BY <2>5
    <3> QED BY <2>5, <2>6, <3>1, Zenon
  <2>8. /\ b.key = a.key /\ b.count = a.count /\ b.threshold = a.threshold
        /\ b.window = a.window /\ b.peakaveraged = a.peakaveraged
    BY <2>7
  <2>9. CallArgs(b)
    BY <2>0, <2>8 DEF IncrCall, CallArgs
  <2> QED BY <1>1, <1>2, <2>4, <2>9, StoreIncrQuiet, Zenon DEF CallStep
<1>4. CASE HandleRateLimitGlobalAction(i)
  <2> DEFINE F == StoreNodeRateLimitGlobalActionArgs
             b == ReadStruct(F, wire)
  <2>1. app.method = "RateLimitGlobalAction"
    BY <1>4 DEF HandleRateLimitGlobalAction
  <2>2. PICK r \in RateLimitRequests :
          RateLimitAccepted(r) /\ app.args = WriteStruct(F, RateLimitArgs(r))
    BY <1>1, <2>1 DEF AppInv
  <2> DEFINE a == RateLimitArgs(r)
  <2>0. a \in RateLimitCall
    BY <2>2, RateLimitArgsType
  <2> HIDE DEF a
  <2>3. wire = WriteStruct(F, a)
    <3>1. Table(F)
      BY Tables
    <3> HIDE DEF F
    <3> QED BY <1>1, <2>2, <3>1, CompleteIsWhole DEF a
  <2>4. PICK blocked \in BOOLEAN : RateLimitGlobal(app.node, b, blocked)
    BY <1>4, Zenon DEF HandleRateLimitGlobalAction
  <2>5. DOMAIN F = 1 .. 2 /\ F[1].name = "key" /\ F[2].name = "count"
    BY DEF StoreNodeRateLimitGlobalActionArgs, Field
  <2>6. \A j \in DOMAIN F : b[F[j].name] = a[F[j].name]
    <3>1. Table(F)
      BY Tables
    <3>2. b = ReadStruct(F, WriteStruct(F, a))
      BY <2>3
    <3> HIDE DEF F, b
    <3> QED BY <3>1, <3>2, ReadsBack
  <2> HIDE DEF F, b, wire
  <2>7. b["key"] = a["key"] /\ b["count"] = a["count"]
    <3>1. 1 \in DOMAIN F /\ 2 \in DOMAIN F
      BY <2>5
    <3> QED BY <2>5, <2>6, <3>1, Zenon
  <2>8. b.key \in Keys /\ b.count \in Int32
    BY <2>0, <2>7 DEF RateLimitCall
  <2> QED BY <1>1, <1>2, <2>4, <2>8, RateLimitGlobalCall
<1> QED BY <1>3, <1>4

\* None of what nodes hold is nil.
LEMMA TakenNotNone ==
  ASSUME NEW e \in Taken(Begun) \union Entries(Begun) \union Held(Begun)
  PROVE  e # None
<1>1. Begun \subseteq Nat /\ Begun \subseteq Windows
  BY BegunNat
<1>2. Taken(Begun) \subseteq [entry : Entry, until : 0 .. MaxNow]
  BY <1>1 DEF Taken, Entries, Entry
<1>3. Entries(Begun) \subseteq Entry
  BY <1>1 DEF Entries, Entry
<1>4. Held(Begun) \subseteq Unsynced
  BY <1>1 DEF Held, Unsynced
<1> QED BY <1>2, <1>3, <1>4, NoneAssumption

\* Store.Incr counts in the window of the entry it finds, or in its own.
LEMMA StoreIncrInv ==
  ASSUME ReplicaInv, NEW n \in Nodes, Serving(n), NEW a, CallArgs(a),
         NEW ask, NEW blocked, StoreIncr(n, a, ask, blocked),
         UNCHANGED <<status, clock, booted, unsynced, written, syncs>>
  PROVE  CountersInv' /\ ReportsInv' /\ BooksInv'
<1>0. ClockInv /\ CountersInv /\ ReportsInv /\ BooksInv
  BY DEF ReplicaInv
<1>1. PICK f : \E limit \in Thresholds(a.threshold, a.window, a.peakaveraged),
                  y \in Begun :
        /\ Finds(n, a.key, f)
        /\ Counts(n, a, ask, limit, f,
                  BucketIncr(f.entry, a.count, limit, y, clock[n]), blocked)
  BY <1>0, StoreIncrEffect
<1>2. PICK limit \in Thresholds(a.threshold, a.window, a.peakaveraged),
           y \in Begun :
        /\ Finds(n, a.key, f)
        /\ Counts(n, a, ask, limit, f,
                  BucketIncr(f.entry, a.count, limit, y, clock[n]), blocked)
  BY <1>1
<1>3. a.key \in Keys /\ a.count \in Int32
  BY DEF CallArgs
<1>4. PICK r : r = BucketIncr(f.entry, a.count, limit, y, clock[n])
  OBVIOUS
<1>5. r.entry \in Entries(Begun) /\ r.dosync \in BOOLEAN
  <2>1. LET s == BucketIncr(f.entry, a.count, limit, y, clock[n]) IN
        s.entry \in Entries(Begun) /\ s.dosync \in BOOLEAN
    BY <1>2, <1>3, BucketIncrType DEF Finds
  <2> QED BY <1>4, <2>1
<1>6. Counts(n, a, ask, limit, f, r, blocked)
  BY <1>2, <1>4
<1>7. PICK k \in Keys, x \in Begun, c \in Int32 :
        k = a.key /\ x = r.entry.expires /\ c = a.count
  BY <1>3, <1>5 DEF Entries
<1>8. /\ f.astray => collected[n][k] # None
      /\ f.astray \in BOOLEAN
  BY <1>2, <1>7 DEF Finds
<1>9. /\ counter' = IF f.astray THEN counter
                    ELSE [counter EXCEPT ![n][k] = r.entry]
      /\ collected' = IF f.astray
                        THEN [collected EXCEPT ![n][k].entry = r.entry]
                        ELSE collected
  BY <1>6, <1>7, <1>8 DEF Counts
<1>10. /\ made' = IF r.counted THEN [made EXCEPT ![n] = Book(@, k, x, c)]
                  ELSE made
       /\ reports' = IF r.blocked /\ ~r.dosync THEN reports
                     ELSE reports \union
                            {[id |-> NewId(reports), node |-> n, key |-> k,
                              count |-> c, own |-> x, expiry |-> x,
                              force |-> r.dosync]}
       /\ UNCHANGED lost
  BY <1>6, <1>7 DEF Counts
<1>11. /\ counter \in [Nodes -> Buckets(Begun)]
       /\ collected \in [Nodes -> Shelves(Begun)]
       /\ unsynced \in [Nodes -> Waiting(Begun)]
       /\ status \in [Nodes -> {"up", "closed", "down"}]
       /\ made \in [Nodes -> Ledger]
       /\ lost \in [Nodes -> [Nodes -> Ledger]]
  BY <1>0 DEF CountersInv, BooksInv
<1>12. counter' \in [Nodes -> Buckets(Begun)]
  <2>1. [counter[n] EXCEPT ![k] = r.entry] \in Buckets(Begun)
    BY <1>5, <1>11 DEF Buckets
  <2> QED BY <1>9, <1>11, <2>1
<1>13. /\ collected' \in [Nodes -> Shelves(Begun)]
       /\ \A o \in Nodes, j \in Keys :
            /\ collected'[o][j] = None <=> collected[o][j] = None
            /\ collected[o][j] # None =>
                 collected'[o][j].until = collected[o][j].until
  <2>1. CASE ~f.astray
    BY <1>9, <1>11, <2>1
  <2>2. CASE f.astray
    <3>1. collected[n][k] \in Taken(Begun)
      BY <1>8, <1>11, <2>2 DEF Shelves
    <3>2. PICK new : new = [collected[n][k] EXCEPT !.entry = r.entry]
      OBVIOUS
    <3>3. new \in Taken(Begun) /\ new.until = collected[n][k].until
      BY <1>5, <3>1, <3>2 DEF Taken
    <3>4. new # None
      BY <3>3, TakenNotNone
    <3>5. [collected[n] EXCEPT ![k] = new] \in Shelves(Begun)
      BY <1>11, <3>3 DEF Shelves
    <3>6. collected' = [collected EXCEPT ![n] = [collected[n] EXCEPT ![k] = new]]
      BY <1>9, <1>11, <2>2, <3>2 DEF Shelves
    <3>7. collected' \in [Nodes -> Shelves(Begun)]
      BY <1>11, <3>5, <3>6
    <3>8. /\ collected'[n][k] = new
          /\ \A o \in Nodes, j \in Keys : ~(o = n /\ j = k) =>
               collected'[o][j] = collected[o][j]
      BY <1>11, <3>6 DEF Shelves
    <3> QED BY <1>8, <2>2, <3>3, <3>4, <3>7, <3>8
  <2> QED BY <1>8, <2>1, <2>2
<1>14. ASSUME NEW o \in Nodes, NEW j \in Keys
       PROVE  /\ collected'[o][j] # None =>
                   collected'[o][j].until \in booted[o] .. clock[o]
              /\ status[o] = "down" =>
                   /\ counter'[o][j] = None /\ unsynced[o][j] = None
                   /\ collected'[o][j] = None
  <2>1. status[o] = "down" => counter'[o] = counter[o]
    BY <1>9, <1>11 DEF Serving
  <2> QED BY <1>0, <1>13, <2>1 DEF CountersInv
<1>15. reports' \subseteq Reports(Begun) /\ IsFiniteSet(reports')
  <2>1. IsFiniteSet(reports) /\ reports \subseteq Reports(Begun)
    BY <1>0 DEF ReportsInv
  <2>2. NewId(reports) \in Int
    BY <2>1, NewIdFresh
  <2> DEFINE q == [id |-> NewId(reports), node |-> n, key |-> k, count |-> c,
                   own |-> x, expiry |-> x, force |-> r.dosync]
  <2>3. q \in Reports(Begun)
    BY <1>5, <2>2 DEF Reports
  <2> HIDE DEF q
  <2>4. IsFiniteSet(reports \union {q})
    BY <2>1, FS_AddElement
  <2>5. reports' = reports \/ reports' = reports \union {q}
    BY <1>10 DEF q
  <2> QED BY <2>1, <2>3, <2>4, <2>5
<1>16. /\ \A m \in reports' : status[m.node] # "down"
       /\ \A m, q \in reports' : m.id = q.id => m = q
  <2>1. \A m \in reports : m.id # NewId(reports)
    BY <1>0, NewIdFresh DEF ReportsInv
  <2>2. PICK i : i = NewId(reports)
    OBVIOUS
  <2>3. PICK p : p = [id |-> i, node |-> n, key |-> k, count |-> c,
                      own |-> x, expiry |-> x, force |-> r.dosync]
    OBVIOUS
  <2>4. p.id = i /\ p.node = n
    BY <2>3
  <2>5. reports' = reports \/ reports' = reports \union {p}
    BY <1>10, <2>2, <2>3
  <2>6. /\ \A m \in reports : status[m.node] # "down"
        /\ \A m, q \in reports : m.id = q.id => m = q
    BY <1>0 DEF ReportsInv
  <2> QED BY <2>1, <2>2, <2>4, <2>5, <2>6, Zenon DEF Serving
<1>17. made' \in [Nodes -> Ledger]
  <2>1. c \in Int /\ x \in Windows
    BY BegunNat, Int32Assumption DEF Int32
  <2>2. Book(made[n], k, x, c) \in Ledger
    BY <1>11, <2>1, BookType
  <2> QED BY <1>10, <1>11, <2>2
<1>18. Begun' = Begun
  BY DEF Begun
<1>19. CountersInv'
  BY <1>11, <1>12, <1>13, <1>14, <1>18 DEF CountersInv
<1>20. ReportsInv'
  BY <1>0, <1>15, <1>16, <1>18 DEF ReportsInv
<1>21. apart' \in [Nodes -> [Keys -> SUBSET Windows]]
  <2>1. apart \in [Nodes -> [Keys -> SUBSET Windows]] /\ x \in Windows
    BY <1>0, BegunNat DEF BooksInv
  <2>2. \/ apart' = apart
        \/ apart' = [apart EXCEPT ![n][k] = @ \union {x}]
    BY <1>6, <1>7, <1>8 DEF Counts
  <2> QED BY <2>1, <2>2
<1> QED BY <1>10, <1>11, <1>17, <1>19, <1>20, <1>21 DEF BooksInv

\* A step that calls Store.Incr keeps the invariant.
LEMMA CallReplica ==
  ASSUME ReplicaInv, CallStep
  PROVE  ReplicaInv'
<1>1. /\ UNCHANGED <<status, clock, booted, unsynced, written, syncs>>
      /\ UNCHANGED <<lost, misfiled, mixed, garbled>>
  BY DEF CallStep
<1>2. CountersInv' /\ ReportsInv' /\ BooksInv'
  <2>1. CASE UNCHANGED <<buckets, reports, made, apart, admitted, budget>>
    BY <1>1, <2>1, CountersQuiet, ReportsQuiet, BooksQuiet
    DEF ReplicaInv, buckets
  <2>2. CASE \E n \in Nodes : \E a, ask, blocked :
               Serving(n) /\ CallArgs(a) /\ StoreIncr(n, a, ask, blocked)
    <3>1. PICK n \in Nodes : \E a, ask, blocked :
            Serving(n) /\ CallArgs(a) /\ StoreIncr(n, a, ask, blocked)
      BY <2>2
    <3>2. PICK a, ask, blocked :
            Serving(n) /\ CallArgs(a) /\ StoreIncr(n, a, ask, blocked)
      BY <3>1
    <3> QED BY <1>1, <3>2, StoreIncrInv
  <2> QED BY <2>1, <2>2 DEF CallStep
<1> QED BY <1>1, <1>2, ClockQuiet, SyncsQuiet, MixedQuiet DEF ReplicaInv

\* The keys that a node holds something for, the batch it sends of them, and
\* the request with it.
HeldKeys(n) == {k \in Keys : unsynced[n][k] # None}
Batch(n) ==
  [i \in 1 .. Cardinality(HeldKeys(n)) |->
     LET k == SetToSeq(HeldKeys(n))[i] IN
     [key |-> k, count |-> unsynced[n][k].count,
      expiry |-> unsynced[n][k].expiry, force |-> unsynced[n][k].force]]
Flushed(n, o) ==
  [id |-> NewId(syncs), from |-> n, to |-> o, batch |-> Batch(n),
   since |-> Len(written[n]), sound |-> TRUE, args |-> << >>]

\* What a flush does.
LEMMA FlushStep ==
  ASSUME NEW p, Flush(p)
  PROVE  /\ UNCHANGED <<status, clock, booted, counter, collected, reports,
                        written, made, misfiled, apart, mixed, garbled,
                        admitted, budget>>
         /\ Serving(p)
         /\ unsynced' = Cleared(p)
         /\ \E R \in SUBSET (Nodes \ {p}) :
              /\ syncs' = syncs \union {Flushed(p, o) : o \in R}
              /\ lost' = Lose(p, Nodes \ (R \union {p}),
                              [o \in Nodes |-> Unsent(p, Keys)])
<1>1. /\ UNCHANGED <<status, clock, booted, counter, collected, reports,
                     written, made, misfiled, apart, mixed, garbled,
                     admitted, budget>>
      /\ Serving(p)
      /\ unsynced' = Cleared(p)
  BY Zenon DEF Flush, buckets
<1>2. PICK R \in GetReachableMembers(p) :
        /\ syncs' = syncs \union
             {[id |-> NewId(syncs), from |-> p, to |-> o, batch |-> Batch(p),
               since |-> Len(written[p]), sound |-> TRUE, args |-> << >>]
                 : o \in R}
        /\ lost' = Lose(p, Nodes \ (R \union {p}),
                        [o \in Nodes |-> Unsent(p, Keys)])
  BY Zenon DEF Flush, Batch, HeldKeys
<1>3. R \in SUBSET (Nodes \ {p})
  BY <1>2 DEF GetReachableMembers
<1>4. syncs' = syncs \union {Flushed(p, o) : o \in R}
  BY <1>2 DEF Flushed
<1> QED BY <1>1, <1>2, <1>3, <1>4

\* A batch has one command for each key that the node holds something for.
OneEach(b, n) ==
  /\ Distinct(b)
  /\ \A i \in DOMAIN b : /\ b[i].key \in HeldKeys(n)
                         /\ b[i].count = unsynced[n][b[i].key].count
                         /\ b[i].expiry = unsynced[n][b[i].key].expiry
  /\ \A k \in HeldKeys(n) : \E i \in DOMAIN b : b[i].key = k

\* The batch that Flush sends is one.
LEMMA BatchOf ==
  ASSUME NEW n \in Nodes
  PROVE  OneEach(Batch(n), n)
<1> DEFINE keys == HeldKeys(n)
           D == 1 .. Cardinality(keys)
           f == SetToSeq(keys)
           batch == Batch(n)
<1>1. IsFiniteSet(keys) /\ Cardinality(keys) \in Nat
  <2>1. IsFiniteSet(keys)
    BY ClusterAssumption, FS_Subset DEF HeldKeys
  <2> QED BY <2>1, FS_CardinalityType
<1>2. f \in [D -> keys] /\ IsInjective(f)
  <2> HIDE DEF keys
  <2>1. ExistsBijection(1 .. Cardinality(keys), keys)
    BY <1>1, FS_CardinalityType
  <2>2. \E g \in [1 .. Cardinality(keys) -> keys] : IsInjective(g)
    BY <2>1 DEF ExistsBijection, Bijection, Injection
  <2> QED BY <2>2 DEF SetToSeq
<1>3. \A k \in keys : \E i \in D : f[i] = k
  <2>1. f \in Injection(D, keys)
    BY <1>2 DEF Injection
  <2>2. IsFiniteSet(D) /\ Cardinality(D) = Cardinality(keys)
    BY <1>1, FS_Interval
  <2> HIDE DEF f, D, keys
  <2>3. f \in Surjection(D, keys)
    BY <1>1, <2>1, <2>2, FS_Injection
  <2> QED BY <2>3 DEF Surjection
<1>4. ASSUME NEW i \in D
      PROVE  /\ batch[i].key = f[i]
             /\ batch[i].count = unsynced[n][f[i]].count
             /\ batch[i].expiry = unsynced[n][f[i]].expiry
  BY DEF Batch
<1>5. DOMAIN batch = D
  BY DEF Batch
<1> HIDE DEF f, keys, batch
<1>6. Distinct(batch)
  BY <1>2, <1>4, <1>5 DEF Distinct, IsInjective
<1>7. \A i \in DOMAIN batch :
        /\ batch[i].key \in keys
        /\ batch[i].count = unsynced[n][batch[i].key].count
        /\ batch[i].expiry = unsynced[n][batch[i].key].expiry
  BY <1>2, <1>4, <1>5
<1>8. \A k \in keys : \E i \in DOMAIN batch : batch[i].key = k
  BY <1>3, <1>4, <1>5
<1> QED BY <1>6, <1>7, <1>8 DEF batch, keys, OneEach

\* ... of commands.
LEMMA BatchType ==
  ASSUME NEW n \in Nodes, NEW X, unsynced \in [Nodes -> Waiting(X)]
  PROVE  Batch(n) \in Seq(Commands(X))
<1> DEFINE keys == HeldKeys(n)
           batch == Batch(n)
<1>1. IsFiniteSet(keys) /\ Cardinality(keys) \in Nat
  <2>1. IsFiniteSet(keys)
    BY ClusterAssumption, FS_Subset DEF HeldKeys
  <2> QED BY <2>1, FS_CardinalityType
<1>2. SetToSeq(keys) \in [1 .. Cardinality(keys) -> keys]
  <2> HIDE DEF keys
  <2>1. ExistsBijection(1 .. Cardinality(keys), keys)
    BY <1>1, FS_CardinalityType
  <2>2. \E f \in [1 .. Cardinality(keys) -> keys] : IsInjective(f)
    BY <2>1 DEF ExistsBijection, Bijection, Injection
  <2> QED BY <2>2 DEF SetToSeq
<1>3. ASSUME NEW i \in 1 .. Cardinality(keys)
      PROVE  batch[i] \in Commands(X)
  <2> DEFINE k == SetToSeq(keys)[i]
  <2>1. k \in keys
    BY <1>2
  <2>2. k \in Keys /\ unsynced[n][k] \in Held(X)
    BY <2>1 DEF Waiting, HeldKeys
  <2>3. batch[i] = [key |-> k, count |-> unsynced[n][k].count,
                    expiry |-> unsynced[n][k].expiry,
                    force |-> unsynced[n][k].force]
    BY DEF Batch
  <2> HIDE DEF k, batch
  <2> QED BY <2>2, <2>3 DEF Held, Commands
<1>4. batch \in [1 .. Cardinality(keys) -> Commands(X)]
  <2>1. batch = [i \in 1 .. Cardinality(keys) |-> batch[i]]
    BY DEF Batch
  <2> HIDE DEF batch, keys
  <2> QED BY <1>3, <2>1
<1> HIDE DEF batch, keys
<1>5. batch \in Seq(Commands(X))
  BY <1>1, <1>4
<1> QED BY <1>5 DEF batch

\* The goroutines of a flush have the batch, each to send it to its node.
LEMMA FlushReplica ==
  ASSUME ReplicaInv, NEW n \in Nodes, Flush(n)
  PROVE  ReplicaInv'
<1>1. /\ UNCHANGED <<status, clock, booted, counter, collected, reports,
                     written, made, misfiled, apart, mixed, garbled>>
      /\ Serving(n) /\ unsynced' = Cleared(n)
  BY FlushStep
<1>2. PICK R \in SUBSET (Nodes \ {n}) :
        /\ syncs' = syncs \union {Flushed(n, o) : o \in R}
        /\ lost' = Lose(n, Nodes \ (R \union {n}),
                        [o \in Nodes |-> Unsent(n, Keys)])
  BY FlushStep
<1>3. /\ unsynced \in [Nodes -> Waiting(Begun)]
      /\ lost \in [Nodes -> [Nodes -> Ledger]] /\ made \in [Nodes -> Ledger]
      /\ CountersInv /\ ReportsInv /\ SyncsInv /\ BooksInv
  BY DEF ReplicaInv, CountersInv, BooksInv
<1>4. Batch(n) \in Seq(Commands(Begun)) /\ Distinct(Batch(n))
  BY <1>3, BatchType, BatchOf DEF OneEach
<1>5. Begun' = Begun
  BY <1>1 DEF Begun
<1>6. NewId(syncs) \in Nat /\ \A m \in syncs : m.id # NewId(syncs)
  BY <1>3, NewIdFresh DEF SyncsInv
<1>7. ASSUME NEW o \in R, NEW m, m = Flushed(n, o)
      PROVE  WellSent(m)'
  <2>1. /\ DOMAIN m = {"id", "from", "to", "batch", "since", "sound", "args"}
        /\ m.id = NewId(syncs) /\ m.from = n /\ m.to = o /\ m.batch = Batch(n)
        /\ m.since = Len(written[n]) /\ m.sound = TRUE /\ m.args = << >>
    BY <1>7 DEF Flushed
  <2>2. Len(written[n]) \in Nat
    BY <1>3 DEF ReportsInv
  <2>3. m.id \in Int /\ m.batch \in Seq(Commands(Begun)) /\ Distinct(m.batch)
    BY <1>4, <1>6, <2>1
  <2> QED BY <1>1, <1>2, <1>5, <2>1, <2>2, <2>3
          DEF WellSent, Sent, Serving, Distinct
<1>8. SyncsInv'
  <2>1. IsFiniteSet(R)
    BY ClusterAssumption, FS_Subset
  <2> DEFINE new == {Flushed(n, o) : o \in R}
             f == [o \in R |-> Flushed(n, o)]
  <2>2. f \in Surjection(R, new)
    BY DEF Surjection
  <2>3. IsFiniteSet(new)
    <3> HIDE DEF f, new
    <3> QED BY <2>1, <2>2, FS_Surjection
  <2>4. IsFiniteSet(syncs')
    <3> HIDE DEF new
    <3> QED BY <1>2, <1>3, <2>3, FS_Union DEF SyncsInv, new
  <2>5. \A m \in syncs : WellSent(m)'
    BY <1>1, <1>3, <1>5 DEF SyncsInv, WellSent, Sent, Distinct
  <2>6. \A o \in R : Flushed(n, o).id = NewId(syncs) /\ Flushed(n, o).to = o
    BY DEF Flushed
  <2>7. \A m \in syncs' : m \in syncs \/ \E o \in R : m = Flushed(n, o)
    BY <1>2
  <2>8. \A m, q \in syncs' : m.id = q.id /\ m.to = q.to => m = q
    BY <1>3, <1>6, <2>6, <2>7 DEF SyncsInv
  <2> QED BY <1>7, <2>4, <2>5, <2>7, <2>8 DEF SyncsInv
<1>9. CountersInv'
  <2>1. [k \in Keys |-> None] \in Waiting(Begun)
    BY DEF Waiting
  <2>2. unsynced' \in [Nodes -> Waiting(Begun)]
    BY <1>1, <1>3, <2>1 DEF Cleared
  <2>3. \A o \in Nodes, k \in Keys :
          unsynced'[o][k] = None \/ unsynced'[o][k] = unsynced[o][k]
    BY <1>1, <1>3 DEF Cleared
  <2> QED BY <1>1, <1>3, <1>5, <2>2, <2>3 DEF CountersInv
<1>10. BooksInv'
  <2>1. [o \in Nodes |-> Unsent(n, Keys)] \in [Nodes -> Ledger]
    BY <1>3, UnsentType
  <2> QED BY <1>1, <1>2, <1>3, <2>1, LoseType DEF BooksInv
<1> QED BY <1>1, <1>8, <1>9, <1>10, ClockQuiet, ReportsQuiet, MixedQuiet
        DEF ReplicaInv

\* The worker receives a command, and adds it to what it holds.
LEMMA ReceiveReplica ==
  ASSUME ReplicaInv, NEW m \in reports, Receive(m)
  PROVE  ReplicaInv'
<1>0. CountersInv /\ ReportsInv /\ SyncsInv /\ BooksInv
  BY DEF ReplicaInv
<1>1. m \in Reports(Begun) /\ status[m.node] # "down"
  BY <1>0 DEF ReportsInv
<1>2. PICK n \in Nodes, k \in Keys : n = m.node /\ k = m.key
  BY <1>1 DEF Reports
<1>3. PICK u \in Held(Begun) \union {None} : u = unsynced[n][k]
  BY <1>0 DEF CountersInv, Waiting
<1>4. PICK c \in Commands(Begun) : c = CommandOf(m)
  BY <1>1, CommandOfType
<1>5. PICK new \in Held(Begun) : new = Aggregate(u, c)
  BY AggregateType
<1>6. /\ UNCHANGED <<status, clock, booted, counter, collected, syncs, made,
                     misfiled, apart, mixed, garbled>>
      /\ reports' = reports \ {m}
  BY DEF Receive, buckets, requests
<1>7. unsynced' = [unsynced EXCEPT ![n][k] = new]
  BY <1>2, <1>3, <1>4, <1>5 DEF Receive
<1>8. \/ lost' = lost
      \/ lost' = Lose(n, Nodes \ {n}, [o \in Nodes |-> Unsent(n, {k})])
  BY <1>2 DEF Receive
<1>9. \/ written' = written
      \/ written' = [written EXCEPT ![n] =
                       @ \o <<c, [key |-> k, count |-> new.count,
                                  expiry |-> new.expiry, force |-> new.force]>>]
  BY <1>2, <1>3, <1>4, <1>5 DEF Receive
<1>10. Begun' = Begun
  BY <1>6 DEF Begun
<1>11. CountersInv'
  <2>1. unsynced \in [Nodes -> Waiting(Begun)]
    BY <1>0 DEF CountersInv
  <2>2. [unsynced[n] EXCEPT ![k] = new] \in Waiting(Begun)
    BY <2>1 DEF Waiting
  <2>3. unsynced' \in [Nodes -> Waiting(Begun)]
    BY <1>7, <2>1, <2>2
  <2>4. \A o \in Nodes : o # n => unsynced'[o] = unsynced[o]
    BY <1>7, <2>1
  <2>5. status[n] # "down"
    BY <1>1, <1>2
  <2> QED BY <1>0, <1>6, <1>10, <2>3, <2>4, <2>5 DEF CountersInv
<1>12. ReportsInv'
  <2>1. written \in [Nodes -> Seq(Commands(Begun))]
    BY <1>0 DEF ReportsInv
  <2>2. PICK d \in Commands(Begun) :
          d = [key |-> k, count |-> new.count, expiry |-> new.expiry,
               force |-> new.force]
    BY DEF Commands, Held
  <2>3. written[n] \o <<c, d>> \in Seq(Commands(Begun))
    BY <2>1
  <2>4. written' \in [Nodes -> Seq(Commands(Begun))]
    BY <1>9, <2>1, <2>2, <2>3
  <2>5. IsFiniteSet(reports')
    BY <1>0, <1>6, FS_Subset DEF ReportsInv
  <2> QED BY <1>0, <1>6, <1>10, <2>4, <2>5 DEF ReportsInv
<1>13. BooksInv'
  <2>1. [o \in Nodes |-> Unsent(n, {k})] \in [Nodes -> Ledger]
    BY <1>0, UnsentType DEF CountersInv
  <2>2. made \in [Nodes -> Ledger] /\ lost \in [Nodes -> [Nodes -> Ledger]]
    BY <1>0 DEF BooksInv
  <2>3. Lose(n, Nodes \ {n}, [o \in Nodes |-> Unsent(n, {k})])
          \in [Nodes -> [Nodes -> Ledger]]
    BY <2>1, <2>2, LoseType
  <2>4. lost' \in [Nodes -> [Nodes -> Ledger]]
    BY <1>8, <2>2, <2>3
  <2> QED BY <1>0, <1>6, <2>2, <2>4 DEF BooksInv
<1> QED BY <1>6, <1>11, <1>12, <1>13, ClockQuiet, SyncsQuiet, MixedQuiet
        DEF ReplicaInv

\* A call reads the expiry of its entry again.
LEMMA RereadReplica ==
  ASSUME ReplicaInv, NEW m \in reports, RereadExpiry(m)
  PROVE  ReplicaInv'
<1>0. CountersInv /\ ReportsInv /\ SyncsInv /\ BooksInv
  BY DEF ReplicaInv
<1>1. /\ m \in Reports(Begun) /\ reports \subseteq Reports(Begun)
      /\ status[m.node] # "down"
  BY <1>0 DEF ReportsInv
<1>2. PICK n \in Nodes, k \in Keys, c \in Int, z \in Windows :
        n = m.node /\ k = m.key /\ c = m.count /\ z = m.own
  <2>1. m.node \in Nodes /\ m.key \in Keys /\ m.count \in Int32 /\ m.own \in Begun
    BY <1>1 DEF Reports
  <2>2. m.count \in Int
    BY <2>1, Int32Assumption DEF Int32
  <2> QED BY <2>1, <2>2, BegunNat
<1>3. counter[n][k] # None
  BY <1>2 DEF RereadExpiry
<1>4. PICK y \in Begun : y = counter[n][k].expires
  BY <1>0, <1>3 DEF CountersInv, Buckets, Entries
<1>5. PICK q : q = [m EXCEPT !.expiry = y]
  OBVIOUS
<1>6. q \in Reports(Begun) /\ q.id = m.id /\ q.node = m.node
  BY <1>1, <1>5 DEF Reports
<1>7. /\ UNCHANGED <<status, clock, booted, counter, collected, unsynced,
                     written, syncs, lost, misfiled, mixed, garbled>>
      /\ reports' = (reports \ {m}) \union {q}
  BY <1>2, <1>4, <1>5 DEF RereadExpiry, buckets, requests
<1>8. made' = [made EXCEPT ![n] = Book(Book(@, k, z, -c), k, y, c)]
  BY <1>2, <1>4 DEF RereadExpiry
<1>9. Begun' = Begun
  BY <1>7 DEF Begun
<1>10. ReportsInv'
  <2>1. IsFiniteSet(reports')
    <3>1. IsFiniteSet(reports \ {m})
      BY <1>0, FS_Subset DEF ReportsInv
    <3> QED BY <1>7, <3>1, FS_AddElement
  <2>2. reports' \subseteq Reports(Begun)
    BY <1>1, <1>6, <1>7
  <2>3. \A p \in reports' : status[p.node] # "down"
    BY <1>0, <1>1, <1>6, <1>7, Zenon DEF ReportsInv
  <2>4. \A p, r \in reports : p.id = r.id => p = r
    BY <1>0 DEF ReportsInv
  <2>5. \A p, r \in reports' : p.id = r.id => p = r
    BY <1>6, <1>7, <2>4, Zenon
  <2> QED BY <1>0, <1>7, <1>9, <2>1, <2>2, <2>3, <2>5 DEF ReportsInv
<1>11. BooksInv'
  <2>1. made \in [Nodes -> Ledger] /\ y \in Windows
    BY <1>0, BegunNat DEF BooksInv
  <2>2. Book(made[n], k, z, -c) \in Ledger
    BY <2>1, BookType
  <2>3. Book(Book(made[n], k, z, -c), k, y, c) \in Ledger
    BY <2>1, <2>2, BookType
  <2>4. apart' = [apart EXCEPT ![n][k] = @ \union {y}]
    BY <1>2, <1>4 DEF RereadExpiry
  <2>5. apart' \in [Nodes -> [Keys -> SUBSET Windows]]
    BY <1>0, <2>1, <2>4 DEF BooksInv
  <2> QED BY <1>0, <1>7, <1>8, <2>1, <2>3, <2>5 DEF BooksInv
<1> QED BY <1>7, <1>10, <1>11, ClockQuiet, CountersQuiet, SyncsQuiet, MixedQuiet
        DEF ReplicaInv

\* What the goroutine of a flush may read are commands.
LEMMA ReadingsType ==
  ASSUME ReportsInv, SyncsInv, NEW m \in syncs, NEW i \in DOMAIN m.batch
  PROVE  Readings(m, i) \subseteq Commands(Begun)
<1>1. m.batch \in Seq(Commands(Begun)) /\ m.from \in Nodes /\ m.since \in Nat
  BY DEF SyncsInv, WellSent
<1>2. m.batch[i] \in Commands(Begun)
  BY <1>1
<1>3. Later(m) \subseteq Commands(Begun)
  <2>1. PICK w \in Seq(Commands(Begun)) : w = written[m.from]
    BY <1>1 DEF ReportsInv
  <2>2. \A j \in m.since + 1 .. Len(w) : w[j] \in Commands(Begun)
    BY <1>1
  <2>3. \A r \in reports : CommandOf(r) \in Commands(Begun)
    BY CommandOfType DEF ReportsInv
  <2> QED BY <2>1, <2>2, <2>3 DEF Later
<1>4. PICK seen \in SUBSET Commands(Begun) : seen = {m.batch[i]} \union Later(m)
  BY <1>2, <1>3
<1>5. Readings(m, i) = [key : {c.key : c \in seen}, count : {c.count : c \in seen},
                        expiry : {c.expiry : c \in seen},
                        force : {c.force : c \in seen}]
  BY <1>4 DEF Readings
<1> QED BY <1>4, <1>5 DEF Commands

\* Books what a request carries.
LEMMA LoseRequestType ==
  ASSUME SyncsInv, BooksInv, NEW m \in syncs
  PROVE  LoseRequest(m) \in [Nodes -> [Nodes -> Ledger]]
<1>1. m.from \in Nodes /\ m.batch \in Seq(Commands(Begun))
  BY DEF SyncsInv, WellSent
<1>2. [o \in Nodes |-> Carried(m)] \in [Nodes -> Ledger]
  BY <1>1, CarriedType
<1> QED BY <1>1, <1>2, LoseType DEF LoseRequest, BooksInv

\* What a goroutine does when it serialises a request.
Serialized(m, b) == [m EXCEPT !.batch = b, !.since = 0,
                              !.sound = (b = m.batch), !.args = WriteSyncs(b)]

LEMMA SerializeStep ==
  ASSUME ReportsInv, SyncsInv, NEW m \in syncs, Serialize(m)
  PROVE  /\ UNCHANGED <<status, clock, booted, counter, collected, reports,
                        unsynced, made, misfiled, apart, mixed, garbled,
                        admitted, budget>>
         /\ ~Sent(m)
         /\ written' = IF Unserialised(m.from) # {m} THEN written
                       ELSE [written EXCEPT ![m.from] = << >>]
         /\ \E b \in Seq(Commands(Begun)) :
              /\ DOMAIN b = DOMAIN m.batch
              /\ syncs' = (syncs \ {m}) \union {Serialized(m, b)}
              /\ lost' = IF b = m.batch THEN lost ELSE LoseRequest(m)
<1>1. /\ UNCHANGED <<status, clock, booted, counter, collected, reports,
                     unsynced, made, misfiled, apart, mixed, garbled,
                     admitted, budget>>
      /\ ~Sent(m)
      /\ written' = IF Unserialised(m.from) # {m} THEN written
                    ELSE [written EXCEPT ![m.from] = << >>]
  BY Zenon DEF Serialize, buckets
<1>2. PICK b \in [DOMAIN m.batch ->
                    UNION {Readings(m, i) : i \in DOMAIN m.batch}] :
        /\ syncs' = (syncs \ {m}) \union {Serialized(m, b)}
        /\ lost' = IF b = m.batch THEN lost ELSE LoseRequest(m)
  BY Zenon DEF Serialize, Serialized
<1>3. m.batch \in Seq(Commands(Begun))
  BY DEF SyncsInv, WellSent
<1>4. UNION {Readings(m, i) : i \in DOMAIN m.batch} \subseteq Commands(Begun)
  BY ReadingsType
<1>5. b \in [DOMAIN m.batch -> Commands(Begun)]
  BY <1>2, <1>4
<1>6. Len(m.batch) \in Nat /\ DOMAIN m.batch = 1 .. Len(m.batch)
  BY <1>3
<1>7. b \in Seq(Commands(Begun)) /\ DOMAIN b = DOMAIN m.batch
  BY <1>5, <1>6
<1> QED BY <1>1, <1>2, <1>7

\* A goroutine serialises its request.
LEMMA SerializeReplica ==
  ASSUME ReplicaInv, NEW m \in syncs, Serialize(m)
  PROVE  ReplicaInv'
<1>0. CountersInv /\ ReportsInv /\ SyncsInv /\ BooksInv
  BY DEF ReplicaInv
<1>1. /\ UNCHANGED <<status, clock, booted, counter, collected, reports,
                     unsynced, made, misfiled, apart, mixed, garbled>>
      /\ ~Sent(m)
      /\ written' = IF Unserialised(m.from) # {m} THEN written
                    ELSE [written EXCEPT ![m.from] = << >>]
  BY <1>0, SerializeStep
<1>2. PICK b \in Seq(Commands(Begun)) :
        /\ syncs' = (syncs \ {m}) \union {Serialized(m, b)}
        /\ lost' = IF b = m.batch THEN lost ELSE LoseRequest(m)
  BY <1>0, SerializeStep
<1>3. PICK q : q = Serialized(m, b)
  OBVIOUS
<1>4. WellSent(m)
  BY <1>0 DEF SyncsInv
<1>5. /\ DOMAIN q = {"id", "from", "to", "batch", "since", "sound", "args"}
      /\ q.id = m.id /\ q.from = m.from /\ q.to = m.to /\ q.batch = b
      /\ q.since = 0 /\ q.sound = (b = m.batch) /\ q.args = WriteSyncs(b)
  BY <1>3, <1>4 DEF Serialized, WellSent
<1>6. Begun' = Begun
  BY <1>1 DEF Begun
<1>7. Sent(q)
  BY <1>5, WrittenIsSent DEF Sent
<1>8. WellSent(q)'
  <2>1. q.sound => Distinct(q.batch)
    BY <1>1, <1>4, <1>5 DEF WellSent
  <2>2. q.sound \in BOOLEAN
    BY <1>5
  <2> QED BY <1>4, <1>5, <1>6, <1>7, <2>1, <2>2 DEF WellSent, Sent, Distinct
<1>9. SyncsInv'
  <2>1. IsFiniteSet(syncs')
    <3>1. IsFiniteSet(syncs \ {m})
      BY <1>0, FS_Subset DEF SyncsInv
    <3> QED BY <1>2, <3>1, FS_AddElement
  <2>2. \A r \in syncs : WellSent(r)'
    BY <1>0, <1>1, <1>6 DEF SyncsInv, WellSent, Sent, Distinct
  <2>3. syncs' = (syncs \ {m}) \union {q}
    BY <1>2, <1>3
  <2>4. \A r \in syncs' : WellSent(r)'
    BY <1>8, <2>2, <2>3
  <2>5. \A r, s \in syncs : r.id = s.id /\ r.to = s.to => r = s
    BY <1>0 DEF SyncsInv
  <2>6. \A r, s \in syncs' : r.id = s.id /\ r.to = s.to => r = s
    <3>1. q.id = m.id /\ q.to = m.to
      BY <1>5
    <3>2. \A r \in syncs' : r = q \/ (r \in syncs /\ r # m)
      BY <2>3, Zenon
    <3> QED BY <2>5, <3>1, <3>2
  <2> QED BY <2>1, <2>4, <2>6 DEF SyncsInv
<1>10. ReportsInv'
  <2>1. written \in [Nodes -> Seq(Commands(Begun))] /\ m.from \in Nodes
    BY <1>0, <1>4 DEF ReportsInv, WellSent
  <2>2. written' \in [Nodes -> Seq(Commands(Begun))]
    BY <1>1, <2>1
  <2> QED BY <1>0, <1>1, <1>6, <2>2 DEF ReportsInv
<1>11. BooksInv'
  BY <1>0, <1>1, <1>2, LoseRequestType DEF BooksInv
<1> QED BY <1>1, <1>9, <1>10, <1>11, ClockQuiet, CountersQuiet, MixedQuiet
        DEF ReplicaInv

\* A request that fails is booked as lost.
LEMMA FailSyncKeysReplica ==
  ASSUME ReplicaInv, NEW m \in syncs, FailSyncKeys(m)
  PROVE  ReplicaInv'
<1>1. /\ UNCHANGED <<status, clock, booted, counter, collected, unsynced,
                     reports, written, made, misfiled, apart, mixed, garbled>>
      /\ syncs' = syncs \ {m} /\ lost' = LoseRequest(m)
  BY DEF FailSyncKeys, buckets, outgoing
<1>2. BooksInv'
  BY <1>1, LoseRequestType DEF ReplicaInv, BooksInv
<1> QED BY <1>1, <1>2, ClockQuiet, CountersQuiet, ReportsQuiet, SyncsQuiet,
           MixedQuiet
        DEF ReplicaInv

\* The collector takes an entry away.
LEMMA CollectReplica ==
  ASSUME ReplicaInv, NEW n \in Nodes, NEW k \in Keys, Collect(n, k)
  PROVE  ReplicaInv'
<1>0. ClockInv /\ CountersInv
  BY DEF ReplicaInv
<1>1. /\ UNCHANGED <<status, clock, booted, unsynced, reports, written, syncs,
                     made, lost, misfiled, apart, mixed, garbled>>
      /\ Serving(n) /\ counter[n][k] # None
      /\ counter' = [counter EXCEPT ![n][k] = None]
  BY DEF Collect, outgoing, requests, ledgers
<1>2. PICK e : e = [entry |-> counter[n][k], until |-> clock[n]]
  OBVIOUS
<1>3. collected' = [collected EXCEPT ![n][k] = e]
  BY <1>2 DEF Collect
<1>4. /\ counter \in [Nodes -> Buckets(Begun)]
      /\ collected \in [Nodes -> Shelves(Begun)]
      /\ clock[n] \in 0 .. MaxNow /\ clock[n] \in booted[n] .. clock[n]
  BY <1>0, ClusterAssumption DEF ClockInv, CountersInv
<1>5. e \in Taken(Begun) /\ e.until = clock[n]
  BY <1>1, <1>2, <1>4 DEF Taken, Buckets
<1>6. [counter[n] EXCEPT ![k] = None] \in Buckets(Begun)
  BY <1>4 DEF Buckets
<1>7. [collected[n] EXCEPT ![k] = e] \in Shelves(Begun)
  BY <1>4, <1>5 DEF Shelves
<1>8. /\ counter' \in [Nodes -> Buckets(Begun)]
      /\ collected' \in [Nodes -> Shelves(Begun)]
  BY <1>1, <1>3, <1>4, <1>6, <1>7
<1>9. ASSUME NEW o \in Nodes, NEW j \in Keys
      PROVE  /\ collected'[o][j] # None =>
                  collected'[o][j].until \in booted[o] .. clock[o]
             /\ status[o] = "down" =>
                  /\ counter'[o][j] = None /\ unsynced[o][j] = None
                  /\ collected'[o][j] = None
  <2>1. CASE o = n /\ j = k
    <3>1. collected'[n][k] = e
      BY <1>3, <1>4 DEF Shelves
    <3> QED BY <1>1, <1>4, <1>5, <2>1, <3>1 DEF Serving
  <2>2. CASE ~(o = n /\ j = k)
    <3>1. collected'[o][j] = collected[o][j] /\ counter'[o][j] = counter[o][j]
      BY <1>1, <1>3, <1>4, <2>2 DEF Shelves, Buckets
    <3> QED BY <1>0, <3>1 DEF CountersInv
  <2> QED BY <2>1, <2>2
<1>10. Begun' = Begun
  BY <1>1 DEF Begun
<1>11. CountersInv'
  BY <1>0, <1>1, <1>8, <1>9, <1>10 DEF CountersInv
<1> QED BY <1>1, <1>11, ClockQuiet, ReportsQuiet, SyncsQuiet, BooksQuiet,
           MixedQuiet
        DEF ReplicaInv

\* The commands c are the commands b, as far as KeyBucket.Sync looks.
Alike(c, b) == /\ DOMAIN c = DOMAIN b
               /\ \A i \in DOMAIN b : /\ c[i].key = b[i].key
                                      /\ c[i].count = b[i].count
                                      /\ c[i].expiry = b[i].expiry

\* A request that was read up to its end is complete, and no other is.
LEMMA ReadInFull ==
  ASSUME NEW b, NEW read \in 0 .. Len(WriteSyncs(b))
  PROVE  /\ read # Len(WriteSyncs(b)) =>
              ~Complete(SubSeq(WriteSyncs(b), 1, read))
         /\ read = Len(WriteSyncs(b)) =>
              /\ SubSeq(WriteSyncs(b), 1, read) = WriteSyncs(b)
              /\ Complete(SubSeq(WriteSyncs(b), 1, read))
<1> DEFINE F == StoreNodeSyncKeysArgs
           v == [syncs |-> [i \in DOMAIN b |-> WriteStruct(SyncCommand, b[i])]]
           wire == WriteSyncs(b)
<1>1. wire = WriteStruct(F, v)
  BY DEF WriteSyncs
<1>2. Table(F)
  BY Tables
<1> HIDE DEF F, v
<1>3. /\ Len(F) \in Nat
      /\ wire \in Seq(Range(wire)) /\ Len(wire) = Len(F) + 1
      /\ DOMAIN wire = 1 .. Len(F) + 1 /\ wire[Len(F) + 1] = Stop
  BY <1>1, <1>2, Written
<1>4. ASSUME read # Len(wire), Complete(SubSeq(wire, 1, read))
      PROVE  FALSE
  <2>1. SubSeq(WriteStruct(F, v), 1, read) = WriteStruct(F, v)
    BY <1>1, <1>2, <1>4, CompleteIsWhole
  <2> HIDE DEF wire
  <2>2. \A i \in 1 .. read : wire[i] \in Range(wire)
    BY <1>3, <1>4 DEF wire
  <2>3. Len(SubSeq(wire, 1, read)) = IF 1 <= read THEN read - 1 + 1 ELSE 0
    BY <1>3, <1>4, <2>2, SubSeqProperties DEF wire
  <2> QED BY <1>1, <1>3, <1>4, <2>1, <2>3 DEF wire
<1>5. ASSUME read = Len(wire)
      PROVE  SubSeq(wire, 1, read) = wire /\ Complete(SubSeq(wire, 1, read))
  <2> HIDE DEF wire
  <2>1. SubSeq(wire, 1, read) = wire
    BY <1>3, <1>5, SubSeqFull
  <2>2. Complete(wire)
    BY <1>3 DEF Complete
  <2> QED BY <2>1, <2>2
<1> QED BY <1>4, <1>5

\* The entries that the commands of a request find; the window that a command
\* is added to; whether it is another one than its own; whether it tells of
\* something else than its window's counts.
AsFound(n, gone) ==
  [k \in Keys |-> IF k \in gone THEN collected[n][k].entry ELSE counter[n][k]]
Ends(n, gone, c) ==
  IF AsFound(n, gone)[c.key] = None THEN c.expiry
  ELSE AsFound(n, gone)[c.key].expires
Misfiles(n, gone, at, c) == /\ at <= c.expiry
                            /\ clock[n] <= Ends(n, gone, c)
                            /\ Ends(n, gone, c) # c.expiry
Misleads(m, gone, c) == c.key \in gone \/ ~m.sound

\* The commands cmds of a request are added to the entries they find.
Adds(m, at, gone, cmds) ==
  LET n == m.to
      after == SyncKeys(AsFound(n, gone), cmds, at, clock[n]) IN
  /\ counter' = [counter EXCEPT ![n] = [k \in Keys |->
                   IF k \in gone THEN @[k] ELSE after[k]]]
  /\ collected' = [collected EXCEPT ![n] = [k \in Keys |->
                     IF k \in gone THEN [@[k] EXCEPT !.entry = after[k]]
                     ELSE @[k]]]
  /\ misfiled' = [misfiled EXCEPT ![n] = [k \in Keys |-> @[k] \union
                    {<<Ends(n, gone, c), c.expiry, clock[n]>> :
                       c \in {c \in ToSet(m.batch) :
                                c.key = k /\ Misfiles(n, gone, at, c)}}]]
  /\ mixed' = [mixed EXCEPT ![n] = [k \in Keys |-> @[k] \union
                 UNION {{Ends(n, gone, c), c.expiry} :
                          c \in {c \in ToSet(m.batch) :
                                   /\ c.key = k
                                   /\ \/ Misfiles(n, gone, at, c)
                                      \/ Misleads(m, gone, c)}}]]
  /\ garbled' = [garbled EXCEPT ![n] = @ \union
                   {c.key : c \in {c \in ToSet(m.batch) : ~m.sound}}]

\* Nothing is added of a request that was cut short.
LEMMA HandleStep ==
  ASSUME SyncsInv, misfiled \in [Nodes -> [Keys -> SUBSET (Windows \X Windows
                                                      \X (0 .. MaxNow))]],
         mixed \in [Nodes -> [Keys -> SUBSET Windows]],
         garbled \in [Nodes -> SUBSET Keys],
         NEW m \in syncs, NEW read \in 0 .. Len(m.args), NEW at, NEW gone,
         HandleSyncKeys(m, read, at, gone)
  PROVE  /\ UNCHANGED <<status, clock, booted, reports, unsynced, written,
                        made, apart, admitted, budget>>
         /\ Sent(m) /\ status[m.to] = "up" /\ syncs' = syncs \ {m}
         /\ \/ /\ UNCHANGED <<counter, collected, misfiled, mixed, garbled>>
               /\ lost' = LoseRequest(m)
            \/ /\ UNCHANGED lost
               /\ \E cmds : Alike(cmds, m.batch) /\ Adds(m, at, gone, cmds)
<1> DEFINE n == m.to
           wire == SubSeq(m.args, 1, read)
           whole == read = Len(m.args)
           commands == {c \in ToSet(m.batch) : whole}
           cmds == ReadSyncs(wire)
           after == SyncKeys(AsFound(n, gone), cmds, at, clock[n])
<1>1. /\ UNCHANGED <<status, clock, booted, reports, unsynced, written,
                     made, apart, admitted, budget>>
      /\ Sent(m) /\ status[n] = "up" /\ syncs' = syncs \ {m}
      /\ lost' = IF whole THEN lost ELSE LoseRequest(m)
  BY Zenon DEF HandleSyncKeys, outgoing
<1>2. IF ~Complete(wire) THEN UNCHANGED buckets
      ELSE /\ counter' = [counter EXCEPT ![n] = [k \in Keys |->
                            IF k \in gone THEN @[k] ELSE after[k]]]
           /\ collected' = [collected EXCEPT ![n] = [k \in Keys |->
                              IF k \in gone THEN [@[k] EXCEPT !.entry = after[k]]
                              ELSE @[k]]]
  BY Zenon DEF HandleSyncKeys, AsFound
<1>3. /\ misfiled' = [misfiled EXCEPT ![n] = [k \in Keys |-> @[k] \union
                        {<<Ends(n, gone, c), c.expiry, clock[n]>> :
                           c \in {c \in commands :
                                    c.key = k /\ Misfiles(n, gone, at, c)}}]]
      /\ mixed' = [mixed EXCEPT ![n] = [k \in Keys |-> @[k] \union
                     UNION {{Ends(n, gone, c), c.expiry} :
                              c \in {c \in commands :
                                       /\ c.key = k
                                       /\ \/ Misfiles(n, gone, at, c)
                                          \/ Misleads(m, gone, c)}}]]
      /\ garbled' = [garbled EXCEPT ![n] = @ \union
                       {c.key : c \in {c \in commands : ~m.sound}}]
  BY Zenon DEF HandleSyncKeys, AsFound, Ends, Misfiles, Misleads
<1>4. m.args = WriteSyncs(m.batch) /\ n \in Nodes
  BY <1>1 DEF SyncsInv, WellSent
<1>5. /\ ~whole => ~Complete(wire)
      /\ whole => wire = WriteSyncs(m.batch) /\ Complete(wire)
  <2>1. read \in 0 .. Len(WriteSyncs(m.batch))
    BY <1>4
  <2> QED BY <1>4, <2>1, ReadInFull
<1>6. CASE ~whole
  <2>1. UNCHANGED <<counter, collected>> /\ lost' = LoseRequest(m)
    BY <1>1, <1>2, <1>5, <1>6 DEF buckets
  <2>2. commands = {}
    BY <1>6
  <2>3. misfiled' = misfiled
    <3>1. misfiled' = [misfiled EXCEPT ![n] = [k \in Keys |-> @[k] \union {}]]
      BY <1>3, <2>2
    <3> QED BY <1>4, <3>1
  <2>4. mixed' = mixed
    <3>1. mixed' = [mixed EXCEPT ![n] = [k \in Keys |-> @[k] \union {}]]
      BY <1>3, <2>2
    <3> QED BY <1>4, <3>1
  <2>5. garbled' = garbled
    <3>1. garbled' = [garbled EXCEPT ![n] = @ \union {}]
      BY <1>3, <2>2
    <3> QED BY <1>4, <3>1
  <2> QED BY <1>1, <2>1, <2>3, <2>4, <2>5
<1>7. CASE whole
  <2>1. lost' = lost
    BY <1>1, <1>7
  <2>2. Alike(cmds, m.batch)
    <3> DEFINE b == m.batch
    <3>1. cmds = ReadSyncs(WriteSyncs(b))
      BY <1>5, <1>7
    <3> HIDE DEF b, cmds
    <3>2. Alike(ReadSyncs(WriteSyncs(b)), b)
      BY SyncsReadBack DEF Alike
    <3> QED BY <3>1, <3>2 DEF b
  <2>3. commands = ToSet(m.batch)
    BY <1>7
  <2>4. /\ counter' = [counter EXCEPT ![n] = [k \in Keys |->
                         IF k \in gone THEN @[k] ELSE after[k]]]
        /\ collected' = [collected EXCEPT ![n] = [k \in Keys |->
                           IF k \in gone THEN [@[k] EXCEPT !.entry = after[k]]
                           ELSE @[k]]]
    BY <1>2, <1>5, <1>7
  <2>5. Adds(m, at, gone, cmds)
    <3> HIDE DEF cmds, commands
    <3> QED BY <1>3, <2>3, <2>4, Zenon DEF Adds
  <2> HIDE DEF cmds
  <2> QED BY <1>1, <2>1, <2>2, <2>5
<1> QED BY <1>6, <1>7

\* If all windows have the same length, two of them have begun and neither is
\* over by the clock of a node, the older ends within the difference of two
\* clocks.
LEMMA MixedAtTheEnd ==
  ASSUME ClockInv, OneLength, NEW n \in Nodes, NEW x \in Begun, NEW y \in Begun,
         x # y, clock[n] <= x, clock[n] <= y
  PROVE  Min({x, y}) - clock[n] <= MaxSkew
<1>1. x \in Nat /\ y \in Nat /\ clock[n] \in Nat
  BY BegunNat, ClusterAssumption DEF ClockInv
<1>2. PICK w \in Lengths : \A v \in Lengths : v = w
  BY DEF Begun, OneLength
<1>3. w \in Int
  BY LengthsInt
<1>4. ASSUME NEW z \in Begun
      PROVE  \E t \in Nat : z = GenExpiry(t, w) /\ t <= clock[n] + MaxSkew
  <2>1. PICK o \in Nodes : \E t \in 0 .. clock[o], v \in Lengths :
                             z = GenExpiry(t, v)
    BY DEF Begun
  <2>2. PICK t \in 0 .. clock[o], v \in Lengths : z = GenExpiry(t, v)
    BY <2>1
  <2>3. clock[o] <= clock[n] + MaxSkew /\ clock[o] \in Nat
    BY ClusterAssumption DEF ClockInv
  <2>4. t \in Nat /\ t <= clock[n] + MaxSkew
    BY <1>1, <2>3, ClusterAssumption
  <2>5. v = w
    BY <1>2
  <2> QED BY <2>2, <2>4, <2>5
<1>5. ASSUME NEW p \in Begun, NEW q \in Begun, p < q
      PROVE  p <= clock[n] + MaxSkew
  <2>1. p \in Nat /\ q \in Nat
    BY BegunNat
  <2>2. PICK s \in Nat : p = GenExpiry(s, w) /\ s <= clock[n] + MaxSkew
    BY <1>4
  <2>3. PICK t \in Nat : q = GenExpiry(t, w) /\ t <= clock[n] + MaxSkew
    BY <1>4
  <2>4. CASE w <= 0
    <3>1. p = s
      BY <1>3, <2>2, <2>4, WindowEnds
    <3> QED BY <2>2, <3>1
  <2>5. CASE w > 0
    <3>1. PICK S \in Nat \ {0} : S = w * Second
      BY <1>3, <2>2, <2>5, WindowEnds
    <3>2. q <= t + S
      BY <1>3, <2>3, <2>5, <3>1, WindowEnds
    <3>3. PICK i \in Int : p = S * i
      BY <1>3, <2>2, <2>5, <3>1, WindowEnds
    <3>4. PICK j \in Int : q = S * j
      BY <1>3, <2>3, <2>5, <3>1, WindowEnds
    <3>5. S * i + S <= S * j
      BY <1>5, <3>3, <3>4, MultiplesApart
    <3>6. p + S <= q
      BY <3>3, <3>4, <3>5
    <3> QED BY <1>1, <2>1, <2>3, <3>2, <3>6, ClusterAssumption
  <2> QED BY <1>3, <2>4, <2>5
<1>6. CASE x < y
  <2>1. Min({x, y}) = x /\ x <= clock[n] + MaxSkew
    BY <1>1, <1>5, <1>6 DEF Min
  <2> QED BY <1>1, <2>1, ClusterAssumption
<1>7. CASE y < x
  <2>1. Min({x, y}) = y /\ y <= clock[n] + MaxSkew
    BY <1>1, <1>5, <1>7 DEF Min
  <2> QED BY <1>1, <2>1, ClusterAssumption
<1> QED BY <1>1, <1>6, <1>7

\* The entries that commands find, and the windows they are added to.
LEMMA FoundType ==
  ASSUME CountersInv, NEW n \in Nodes,
         NEW gone, \A k \in gone : k \in Keys /\ collected[n][k] # None
  PROVE  /\ AsFound(n, gone) \in Buckets(Begun)
         /\ \A c \in Commands(Begun) : Ends(n, gone, c) \in Begun
<1>1. ASSUME NEW k \in Keys
      PROVE  AsFound(n, gone)[k] \in Entries(Begun) \union {None}
  <2>1. counter[n][k] \in Entries(Begun) \union {None}
    BY DEF CountersInv, Buckets
  <2>2. k \in gone => collected[n][k] \in Taken(Begun)
    BY DEF CountersInv, Shelves
  <2>3. k \in gone => collected[n][k].entry \in Entries(Begun)
    BY <2>2 DEF Taken
  <2> QED BY <2>1, <2>3 DEF AsFound
<1>2. AsFound(n, gone) = [k \in Keys |-> AsFound(n, gone)[k]]
  BY DEF AsFound
<1>3. PICK F : F = AsFound(n, gone)
  OBVIOUS
<1>4. F \in Buckets(Begun)
  BY <1>1, <1>2, <1>3 DEF Buckets
<1>5. ASSUME NEW c \in Commands(Begun) PROVE Ends(n, gone, c) \in Begun
  <2>1. c.key \in Keys /\ c.expiry \in Begun
    BY DEF Commands
  <2>2. F[c.key] \in Entries(Begun) \union {None}
    BY <1>4, <2>1 DEF Buckets
  <2>3. F[c.key] # None => F[c.key].expires \in Begun
    BY <2>2 DEF Entries
  <2> QED BY <1>3, <2>1, <2>3 DEF Ends
<1> QED BY <1>3, <1>4, <1>5

\* What the commands of a request leave in the entries they find.
LEMMA AfterType ==
  ASSUME NEW X \in SUBSET Nat, NEW base \in Buckets(X),
         NEW b \in Seq(Commands(X)), NEW cmds, Alike(cmds, b), NEW at, NEW now
  PROVE  /\ SyncKeys(base, cmds, at, now) \in Buckets(X)
         /\ \A k \in Keys : base[k] # None =>
              SyncKeys(base, cmds, at, now)[k] # None
<1>1. Len(b) \in Nat /\ DOMAIN cmds = 1 .. Len(b) /\ DOMAIN b = 1 .. Len(b)
  BY DEF Alike
<1>2. \A i \in DOMAIN b : b[i] \in Commands(X)
  OBVIOUS
<1>3. \A i \in DOMAIN cmds : /\ cmds[i].key \in Keys /\ cmds[i].count \in Int32
                             /\ cmds[i].expiry \in X
  BY <1>1, <1>2 DEF Alike, Commands
<1> DEFINE B == {d \in Buckets(X) : \A k \in Keys : base[k] # None => d[k] # None}
<1>4. ASSUME NEW d \in B, NEW i \in DOMAIN cmds
      PROVE  BucketSync(d, cmds[i], at, now) \in B
  <2>1. PICK c : c = cmds[i]
    OBVIOUS
  <2>2. c.key \in Keys /\ c.count \in Int32 /\ c.expiry \in X
    BY <1>3, <2>1
  <2>3. BucketSync(d, c, at, now) \in Buckets(X)
    BY <2>2, BucketSyncType
  <2>4. d \in Buckets(X) /\ \A k \in Keys : base[k] # None => d[k] # None
    OBVIOUS
  <2>5. ASSUME NEW k \in Keys, base[k] # None
        PROVE  BucketSync(d, c, at, now)[k] # None
    <3>1. d[k] # None
      BY <2>4, <2>5
    <3>2. d[k] \in Entries(X)
      BY <2>4, <3>1 DEF Buckets
    <3>3. \/ BucketSync(d, c, at, now)[k] = d[k]
          \/ BucketSync(d, c, at, now)[k] =
               EntrySync(Renewed(d[k], c.expiry, now), c.count)
      BY <2>2, <2>4 DEF BucketSync, Buckets
    <3>4. Renewed(d[k], c.expiry, now) \in Entries(X)
      BY <2>2, <3>2, RenewedType
    <3>5. EntrySync(Renewed(d[k], c.expiry, now), c.count) # None
      <4>1. PICK e \in Entries(X) : e = Renewed(d[k], c.expiry, now)
        BY <3>4
      <4>2. EntrySync(e, c.count) \in [count : Int32, expires : X]
        BY <2>2, <4>1, AddInt32Type DEF EntrySync, Entries
      <4>3. EntrySync(e, c.count) \in Entry
        BY <4>2 DEF Entry
      <4> QED BY <4>1, <4>3, NoneAssumption
    <3> QED BY <3>1, <3>3, <3>5
  <2> QED BY <2>1, <2>3, <2>5
<1>5. base \in B
  OBVIOUS
<1> HIDE DEF B
<1>6. SyncKeys(base, cmds, at, now) \in B
  BY <1>1, <1>4, <1>5, LoopType
<1> QED BY <1>6 DEF B

\* A request is handled: its commands are added to the entries of their keys.
LEMMA HandleSyncKeysReplica ==
  ASSUME ReplicaInv, NEW m \in syncs, NEW read \in 0 .. Len(m.args), NEW at,
         NEW gone, \A k \in gone : k \in Keys /\ collected[m.to][k] # None,
         HandleSyncKeys(m, read, at, gone)
  PROVE  ReplicaInv'
<1>0. /\ ClockInv /\ CountersInv /\ ReportsInv /\ SyncsInv /\ BooksInv
      /\ MixedInv
  BY DEF ReplicaInv
<1>1. /\ UNCHANGED <<status, clock, booted, reports, unsynced, written, made,
                     apart>>
      /\ status[m.to] = "up" /\ syncs' = syncs \ {m}
      /\ \/ /\ UNCHANGED <<counter, collected, misfiled, mixed, garbled>>
            /\ lost' = LoseRequest(m)
         \/ /\ UNCHANGED lost
            /\ \E cmds : Alike(cmds, m.batch) /\ Adds(m, at, gone, cmds)
  BY <1>0, HandleStep DEF MixedInv
<1>2. PICK n \in Nodes, b \in Seq(Commands(Begun)) : n = m.to /\ b = m.batch
  BY <1>0 DEF SyncsInv, WellSent
<1>3. /\ ClockInv' /\ ReportsInv' /\ SyncsInv' /\ Begun' = Begun
  BY <1>0, <1>1, ClockQuiet, ReportsQuiet, SyncsQuiet
<1>4. CASE /\ UNCHANGED <<counter, collected, misfiled, mixed, garbled>>
           /\ lost' = LoseRequest(m)
  <2>1. BooksInv'
    BY <1>0, <1>1, <1>4, LoseRequestType DEF BooksInv
  <2> QED BY <1>0, <1>1, <1>3, <1>4, <2>1, CountersQuiet, MixedQuiet
          DEF ReplicaInv
<1>5. ASSUME UNCHANGED lost,
             NEW cmds, Alike(cmds, m.batch), Adds(m, at, gone, cmds)
      PROVE  ReplicaInv'
  <2>1. PICK F \in Buckets(Begun) : F = AsFound(n, gone)
    BY <1>0, <1>2, FoundType
  <2>2. PICK now \in 0 .. MaxNow : now = clock[n]
    BY <1>0 DEF ClockInv
  <2>3. PICK after : after = SyncKeys(F, cmds, at, now)
    OBVIOUS
  <2>4. after \in Buckets(Begun) /\ \A k \in Keys : F[k] # None => after[k] # None
    BY <1>2, <1>5, <2>3, AfterType, BegunNat
  <2>5. /\ counter' = [counter EXCEPT ![n] = [k \in Keys |->
                         IF k \in gone THEN counter[n][k] ELSE after[k]]]
        /\ collected' = [collected EXCEPT ![n] = [k \in Keys |->
                           IF k \in gone
                             THEN [collected[n][k] EXCEPT !.entry = after[k]]
                             ELSE collected[n][k]]]
    <3>1. n \in DOMAIN counter /\ n \in DOMAIN collected
      BY <1>0 DEF CountersInv
    <3> QED BY <1>2, <1>5, <2>1, <2>2, <2>3, <3>1, Zenon DEF Adds
  <2>6. /\ counter \in [Nodes -> Buckets(Begun)]
        /\ collected \in [Nodes -> Shelves(Begun)]
    BY <1>0 DEF CountersInv
  <2>7. ASSUME NEW k \in Keys, k \in gone
        PROVE  /\ [collected[n][k] EXCEPT !.entry = after[k]] \in Taken(Begun)
               /\ [collected[n][k] EXCEPT !.entry = after[k]].until =
                    collected[n][k].until
               /\ collected[n][k] # None
    <3>1. collected[n][k] # None
      BY <1>2, <2>7
    <3>2. collected[n][k] \in Taken(Begun)
      BY <2>6, <3>1 DEF Shelves
    <3>3. F[k] = collected[n][k].entry
      BY <2>1, <2>7 DEF AsFound
    <3>4. collected[n][k].entry \in Entries(Begun)
      BY <3>2 DEF Taken
    <3>5. after[k] # None
      BY <2>4, <3>3, <3>4, TakenNotNone
    <3>6. after[k] \in Entries(Begun)
      BY <2>4, <3>5 DEF Buckets
    <3> QED BY <3>1, <3>2, <3>6 DEF Taken
  <2>8. PICK T : T = [k \in Keys |->
                        IF k \in gone
                          THEN [collected[n][k] EXCEPT !.entry = after[k]]
                          ELSE collected[n][k]]
    OBVIOUS
  <2>9. T \in Shelves(Begun)
    <3>1. \A k \in Keys : T[k] \in Taken(Begun) \union {None}
      BY <2>6, <2>7, <2>8 DEF Shelves
    <3> QED BY <2>8, <3>1 DEF Shelves
  <2>10. \A k \in Keys : /\ T[k] # None => collected[n][k] # None
                         /\ T[k] # None => T[k].until = collected[n][k].until
    BY <2>7, <2>8
  <2>11. collected' \in [Nodes -> Shelves(Begun)]
    BY <2>5, <2>6, <2>8, <2>9
  <2>12. counter' \in [Nodes -> Buckets(Begun)]
    <3>1. [k \in Keys |-> IF k \in gone THEN counter[n][k] ELSE after[k]]
            \in Buckets(Begun)
      BY <2>4, <2>6 DEF Buckets
    <3> QED BY <2>5, <2>6, <3>1
  <2>13. /\ collected'[n] = T
         /\ \A o \in Nodes : o # n => /\ collected'[o] = collected[o]
                                      /\ counter'[o] = counter[o]
    BY <2>5, <2>6, <2>8
  <2>14. CountersInv'
    <3>1. ASSUME NEW o \in Nodes, NEW j \in Keys
          PROVE  /\ collected'[o][j] # None =>
                      collected'[o][j].until \in booted[o] .. clock[o]
                 /\ status[o] = "down" =>
                      /\ counter'[o][j] = None /\ unsynced[o][j] = None
                      /\ collected'[o][j] = None
      <4>1. CASE o # n
        BY <1>0, <2>13, <4>1 DEF CountersInv
      <4>2. CASE o = n
        BY <1>0, <1>1, <1>2, <2>10, <2>13, <4>2 DEF CountersInv
      <4> QED BY <4>1, <4>2
    <3> QED BY <1>0, <1>1, <1>3, <2>11, <2>12, <3>1 DEF CountersInv
  <2>15. MixedInv'
    <3> DEFINE mis(k) == {<<Ends(n, gone, c), c.expiry, clock[n]>> :
                            c \in {c \in ToSet(b) :
                                     c.key = k /\ Misfiles(n, gone, at, c)}}
               mix(k) == UNION {{Ends(n, gone, c), c.expiry} :
                            c \in {c \in ToSet(b) :
                                     /\ c.key = k
                                     /\ \/ Misfiles(n, gone, at, c)
                                        \/ Misleads(m, gone, c)}}
               W == Windows \X Windows \X (0 .. MaxNow)
    <3>1. /\ misfiled' = [misfiled EXCEPT ![n] = [k \in Keys |->
                                             @[k] \union mis(k)]]
          /\ mixed' = [mixed EXCEPT ![n] = [k \in Keys |-> @[k] \union mix(k)]]
          /\ garbled' = [garbled EXCEPT ![n] = @ \union
                           {c.key : c \in {c \in ToSet(b) : ~m.sound}}]
      BY <1>2, <1>5, Zenon DEF Adds
    <3>2. /\ misfiled \in [Nodes -> [Keys -> SUBSET W]]
          /\ mixed \in [Nodes -> [Keys -> SUBSET Windows]]
          /\ garbled \in [Nodes -> SUBSET Keys]
      BY <1>0 DEF MixedInv
    <3>3. \A c \in ToSet(b) : c \in Commands(Begun)
      BY DEF ToSet
    <3>4. ASSUME NEW c \in ToSet(b)
          PROVE  c.key \in Keys /\ c.expiry \in Begun /\ Ends(n, gone, c) \in Begun
      <4>1. c \in Commands(Begun)
        BY <3>3
      <4>2. Ends(n, gone, c) \in Begun
        BY <1>0, <1>2, <4>1, FoundType
      <4> QED BY <4>1, <4>2 DEF Commands
    <3>5. ASSUME NEW k \in Keys, NEW t \in mis(k)
          PROVE  /\ t \in W
                 /\ OneLength => Min({t[1], t[2]}) - t[3] <= MaxSkew
      <4>1. PICK c \in ToSet(b) :
              /\ Misfiles(n, gone, at, c)
              /\ t = <<Ends(n, gone, c), c.expiry, clock[n]>>
        BY <3>5
      <4>2. PICK x \in Begun, y \in Begun : x = Ends(n, gone, c) /\ y = c.expiry
        BY <3>4
      <4>3. x # y /\ clock[n] <= x /\ at <= y
        BY <4>1, <4>2 DEF Misfiles
      <4>4. t = <<x, y, clock[n]>> /\ x \in Windows /\ y \in Windows
        BY <4>1, <4>2, BegunNat
      <4>5. t \in W
        BY <2>2, <4>4
      <4>6. ASSUME OneLength PROVE Min({x, y}) - clock[n] <= MaxSkew
        <5>1. x \in Nat /\ y \in Nat /\ clock[n] \in Nat
          BY <2>2, BegunNat, ClusterAssumption
        <5>2. CASE clock[n] <= y
          BY <1>0, <4>3, <4>6, <5>2, MixedAtTheEnd
        <5>3. CASE y < clock[n]
          <6>1. Min({x, y}) = y
            BY <4>3, <5>1, <5>3 DEF Min
          <6> QED BY <5>1, <5>3, <6>1, ClusterAssumption
        <5> QED BY <5>1, <5>2, <5>3
      <4> QED BY <4>4, <4>5, <4>6
    <3>6. ASSUME NEW k \in Keys, NEW x \in mix(k) PROVE x \in Windows
      <4>1. PICK c \in ToSet(b) : x \in {Ends(n, gone, c), c.expiry}
        BY <3>6, Zenon
      <4> QED BY <3>4, <4>1, BegunNat
    <3> HIDE DEF mis, mix, W
    <3>7. misfiled' \in [Nodes -> [Keys -> SUBSET W]]
      <4>1. [k \in Keys |-> misfiled[n][k] \union mis(k)] \in [Keys -> SUBSET W]
        BY <3>2, <3>5
      <4> QED BY <3>1, <3>2, <4>1
    <3>8. mixed' \in [Nodes -> [Keys -> SUBSET Windows]]
      <4>1. [k \in Keys |-> mixed[n][k] \union mix(k)] \in [Keys -> SUBSET Windows]
        BY <3>2, <3>6
      <4> QED BY <3>1, <3>2, <4>1
    <3>9. garbled' \in [Nodes -> SUBSET Keys]
      BY <3>1, <3>2, <3>4
    <3>10. ASSUME OneLength, NEW o \in Nodes, NEW k \in Keys,
                  NEW t \in misfiled'[o][k]
           PROVE  Min({t[1], t[2]}) - t[3] <= MaxSkew
      <4>1. t \in misfiled[o][k] \/ t \in mis(k)
        BY <3>1, <3>2, <3>10
      <4>2. \A r \in misfiled[o][k] : Min({r[1], r[2]}) - r[3] <= MaxSkew
        BY <1>0, <3>10 DEF MixedInv, MixedOnlyAtTheEnd
      <4> QED BY <3>5, <3>10, <4>1, <4>2
    <3>11. MixedOnlyAtTheEnd'
      <4>1. OneLength' <=> OneLength
        BY DEF OneLength
      <4> QED BY <3>10, <4>1 DEF MixedOnlyAtTheEnd
    <3> QED BY <3>7, <3>8, <3>9, <3>11 DEF MixedInv, W
  <2> QED BY <1>0, <1>1, <1>3, <1>5, <2>14, <2>15, BooksQuiet DEF ReplicaInv
<1> QED BY <1>1, <1>4, <1>5

\* A node that exits forgets its counters and what it had to send.
LEMMA ExitStep ==
  ASSUME NEW n \in Nodes, Exit(n)
  PROVE  /\ UNCHANGED <<clock, booted, made, misfiled, mixed, admitted, budget>>
         /\ Serving(n)
         /\ status' = [status EXCEPT ![n] = "down"]
         /\ counter' = [counter EXCEPT ![n] = [k \in Keys |-> None]]
         /\ collected' = [collected EXCEPT ![n] = [k \in Keys |-> None]]
         /\ reports' = {m \in reports : m.node # n}
         /\ unsynced' = [unsynced EXCEPT ![n] = [k \in Keys |-> None]]
         /\ written' = [written EXCEPT ![n] = << >>]
         /\ syncs' = syncs \ Unserialised(n)
         /\ lost' = Lose(n, Nodes \ {n}, [o \in Nodes |-> Withheld(n, o)])
         /\ apart' = [apart EXCEPT ![n] = [k \in Keys |->
                         IF counter[n][k] = None THEN @[k]
                         ELSE @[k] \union {counter[n][k].expires}]]
         /\ garbled' = [garbled EXCEPT ![n] = {}]
BY Zenon DEF Exit, Cleared

LEMMA ExitReplica ==
  ASSUME ReplicaInv, NEW n \in Nodes, Exit(n)
  PROVE  ReplicaInv'
<1>0. /\ ClockInv /\ CountersInv /\ ReportsInv /\ SyncsInv /\ BooksInv
      /\ MixedInv
  BY DEF ReplicaInv
<1>1. /\ UNCHANGED <<clock, booted, made, misfiled, mixed>>
      /\ status' = [status EXCEPT ![n] = "down"]
      /\ counter' = [counter EXCEPT ![n] = [k \in Keys |-> None]]
      /\ collected' = [collected EXCEPT ![n] = [k \in Keys |-> None]]
      /\ reports' = {m \in reports : m.node # n}
      /\ unsynced' = [unsynced EXCEPT ![n] = [k \in Keys |-> None]]
      /\ written' = [written EXCEPT ![n] = << >>]
      /\ syncs' = syncs \ Unserialised(n)
      /\ lost' = Lose(n, Nodes \ {n}, [o \in Nodes |-> Withheld(n, o)])
      /\ apart' = [apart EXCEPT ![n] = [k \in Keys |->
                      IF counter[n][k] = None THEN @[k]
                      ELSE @[k] \union {counter[n][k].expires}]]
      /\ garbled' = [garbled EXCEPT ![n] = {}]
  BY ExitStep
<1>2. ClockInv' /\ Begun' = Begun
  BY <1>0, <1>1, ClockQuiet
<1>3. status \in [Nodes -> {"up", "closed", "down"}]
  BY <1>0 DEF CountersInv
<1>4. status'[n] = "down" /\ \A o \in Nodes : o # n => status'[o] = status[o]
  BY <1>1, <1>3
<1>5. CountersInv'
  <2>1. /\ [k \in Keys |-> None] \in Buckets(Begun)
        /\ [k \in Keys |-> None] \in Shelves(Begun)
        /\ [k \in Keys |-> None] \in Waiting(Begun)
    BY DEF Buckets, Waiting, Shelves
  <2>2. /\ counter \in [Nodes -> Buckets(Begun)]
        /\ collected \in [Nodes -> Shelves(Begun)]
        /\ unsynced \in [Nodes -> Waiting(Begun)]
    BY <1>0 DEF CountersInv
  <2>3. /\ counter' \in [Nodes -> Buckets(Begun)]
        /\ collected' \in [Nodes -> Shelves(Begun)]
        /\ unsynced' \in [Nodes -> Waiting(Begun)]
        /\ status' \in [Nodes -> {"up", "closed", "down"}]
    BY <1>1, <1>3, <2>1, <2>2
  <2>4. ASSUME NEW o \in Nodes, NEW j \in Keys
        PROVE  /\ collected'[o][j] # None =>
                    collected'[o][j].until \in booted[o] .. clock[o]
               /\ status'[o] = "down" =>
                    /\ counter'[o][j] = None /\ unsynced'[o][j] = None
                    /\ collected'[o][j] = None
    <3>1. CASE o = n
      BY <1>1, <2>2, <3>1
    <3>2. CASE o # n
      <4>1. /\ counter'[o] = counter[o] /\ collected'[o] = collected[o]
            /\ unsynced'[o] = unsynced[o] /\ status'[o] = status[o]
        BY <1>1, <1>4, <2>2, <3>2
      <4> QED BY <1>0, <4>1 DEF CountersInv
    <3> QED BY <3>1, <3>2
  <2> QED BY <1>1, <1>2, <2>3, <2>4 DEF CountersInv
<1>6. ReportsInv'
  <2>1. written \in [Nodes -> Seq(Commands(Begun))]
    BY <1>0 DEF ReportsInv
  <2>2. written' \in [Nodes -> Seq(Commands(Begun))]
    BY <1>1, <2>1
  <2>3. IsFiniteSet(reports')
    BY <1>0, <1>1, FS_Subset DEF ReportsInv
  <2>4. \A m \in reports' : m \in reports /\ m.node # n /\ m.node \in Nodes
    BY <1>0, <1>1 DEF ReportsInv, Reports
  <2>5. \A m \in reports' : status'[m.node] # "down"
    BY <1>0, <1>4, <2>4 DEF ReportsInv
  <2> QED BY <1>0, <1>2, <2>2, <2>3, <2>4, <2>5 DEF ReportsInv
<1>7. SyncsInv'
  <2>1. IsFiniteSet(syncs')
    BY <1>0, <1>1, FS_Subset DEF SyncsInv
  <2>2. ASSUME NEW m \in syncs' PROVE WellSent(m)'
    <3>1. m \in syncs /\ WellSent(m) /\ (Sent(m) \/ m.from # n)
      BY <1>0, <1>1, <2>2 DEF SyncsInv, Unserialised
    <3>2. ~Sent(m) => status'[m.from] # "down"
      BY <1>4, <3>1 DEF WellSent
    <3> QED BY <1>2, <3>1, <3>2 DEF WellSent, Sent, Distinct
  <2> QED BY <1>0, <1>1, <2>1, <2>2 DEF SyncsInv
<1>8. BooksInv'
  <2>1. ASSUME NEW o \in Nodes PROVE Withheld(n, o) \in Ledger
    <3>1. /\ unsynced \in [Nodes -> Waiting(Begun)]
          /\ IsFiniteSet(reports) /\ reports \subseteq Reports(Begun)
          /\ IsFiniteSet(syncs)
          /\ \A m \in syncs : m.batch \in Seq(Commands(Begun))
      BY <1>0 DEF CountersInv, ReportsInv, SyncsInv, WellSent
    <3> QED BY <3>1, WithheldType
  <2>2. [o \in Nodes |-> Withheld(n, o)] \in [Nodes -> Ledger]
    BY <2>1
  <2>3. lost' \in [Nodes -> [Nodes -> Ledger]]
    BY <1>0, <1>1, <2>2, LoseType DEF BooksInv
  <2>4. ASSUME NEW k \in Keys, counter[n][k] # None
        PROVE  counter[n][k].expires \in Windows
    <3>1. counter[n][k] \in Entries(Begun)
      BY <1>0, <2>4 DEF CountersInv, Buckets
    <3> QED BY <3>1, BegunNat DEF Entries
  <2>5. apart \in [Nodes -> [Keys -> SUBSET Windows]]
    BY <1>0 DEF BooksInv
  <2>6. [k \in Keys |-> IF counter[n][k] = None THEN apart[n][k]
                        ELSE apart[n][k] \union {counter[n][k].expires}]
          \in [Keys -> SUBSET Windows]
    BY <2>4, <2>5
  <2>7. apart' \in [Nodes -> [Keys -> SUBSET Windows]]
    BY <1>1, <2>5, <2>6
  <2> QED BY <1>0, <1>1, <2>3, <2>7 DEF BooksInv
<1>9. MixedInv'
  <2>1. garbled' \in [Nodes -> SUBSET Keys]
    BY <1>0, <1>1 DEF MixedInv
  <2>2. OneLength' <=> OneLength
    BY DEF OneLength
  <2> QED BY <1>0, <1>1, <2>1, <2>2 DEF MixedInv, MixedOnlyAtTheEnd
<1> QED BY <1>2, <1>5, <1>6, <1>7, <1>8, <1>9 DEF ReplicaInv

\* Closing and starting a node leave the rest as it is.
LEMMA StatusReplica ==
  ASSUME ReplicaInv, NEW n \in Nodes, Close(n) \/ Start(n)
  PROVE  ReplicaInv'
<1>0. /\ ClockInv /\ CountersInv /\ ReportsInv /\ SyncsInv
  BY DEF ReplicaInv
<1>1. /\ UNCHANGED <<clock, counter, collected, unsynced, reports, written,
                     syncs, made, lost, misfiled, apart, mixed, garbled>>
      /\ \E s \in {"up", "closed"} : status' = [status EXCEPT ![n] = s]
      /\ \/ booted' = booted
         \/ status[n] = "down" /\ booted' = [booted EXCEPT ![n] = clock[n]]
  BY DEF Close, Start, requests, outgoing, buckets, ledgers
<1>2. status \in [Nodes -> {"up", "closed", "down"}]
  BY <1>0 DEF CountersInv
<1>3. Begun' = Begun
  BY <1>1 DEF Begun
<1>4. /\ status' \in [Nodes -> {"up", "closed", "down"}]
      /\ \A o \in Nodes : status'[o] = "down" => status[o] = "down"
  BY <1>1, <1>2
<1>5. ClockInv'
  <2>1. /\ clock \in [Nodes -> 0 .. MaxNow] /\ booted \in [Nodes -> Nat]
        /\ \A o \in Nodes : booted[o] <= clock[o]
    BY <1>0 DEF ClockInv
  <2>2. booted' \in [Nodes -> Nat] /\ \A o \in Nodes : booted'[o] <= clock[o]
    BY <1>1, <2>1, ClusterAssumption
  <2> QED BY <1>0, <1>1, <2>2 DEF ClockInv
<1>6. CountersInv'
  <2>1. ASSUME NEW o \in Nodes, NEW j \in Keys, collected[o][j] # None
        PROVE  collected[o][j].until \in booted'[o] .. clock[o]
    <3>1. status[o] # "down"
      BY <1>0, <2>1 DEF CountersInv
    <3>2. booted'[o] = booted[o]
      BY <1>0, <1>1, <3>1 DEF ClockInv
    <3> QED BY <1>0, <2>1, <3>2 DEF CountersInv
  <2> QED BY <1>0, <1>1, <1>3, <1>4, <2>1 DEF CountersInv
<1>7. ReportsInv'
  <2>1. \A m \in reports : m.node \in Nodes
    BY <1>0 DEF ReportsInv, Reports
  <2> QED BY <1>0, <1>1, <1>3, <1>4, <2>1 DEF ReportsInv
<1>8. SyncsInv'
  <2>1. ASSUME NEW m \in syncs PROVE WellSent(m)'
    <3>1. WellSent(m)
      BY <1>0 DEF SyncsInv
    <3>2. ~Sent(m) => status'[m.from] # "down"
      BY <1>4, <3>1 DEF WellSent
    <3> QED BY <1>3, <3>1, <3>2 DEF WellSent, Sent, Distinct
  <2> QED BY <1>0, <1>1, <2>1 DEF SyncsInv
<1> QED BY <1>1, <1>5, <1>6, <1>7, <1>8, MixedQuiet, BooksQuiet DEF ReplicaInv

\* What is of some windows is of more.
LEMMA MoreWindows ==
  ASSUME NEW X, NEW Y, X \subseteq Y
  PROVE  /\ Buckets(X) \subseteq Buckets(Y)
         /\ Shelves(X) \subseteq Shelves(Y)
         /\ Waiting(X) \subseteq Waiting(Y)
         /\ Reports(X) \subseteq Reports(Y)
         /\ Seq(Commands(X)) \subseteq Seq(Commands(Y))
<1>1. Entries(X) \subseteq Entries(Y)
  BY DEF Entries
<1>2. Held(X) \subseteq Held(Y)
  BY DEF Held
<1>3. Commands(X) \subseteq Commands(Y)
  BY DEF Commands
<1>4. Buckets(X) \subseteq Buckets(Y)
  BY <1>1 DEF Buckets
<1>5. Waiting(X) \subseteq Waiting(Y)
  BY <1>2 DEF Waiting
<1>6. Seq(Commands(X)) \subseteq Seq(Commands(Y))
  BY <1>3
<1>7. Taken(X) \subseteq Taken(Y)
  BY <1>1 DEF Taken
<1>8. Shelves(X) \subseteq Shelves(Y)
  BY <1>7 DEF Shelves
<1>9. Reports(X) \subseteq Reports(Y)
  BY DEF Reports
<1> QED BY <1>4, <1>5, <1>6, <1>8, <1>9

\* A clock moves on, never further than the difference of two clocks allows:
\* windows begin, and none is taken back.
LEMMA TickReplica ==
  ASSUME ReplicaInv, NEW n \in Nodes, Tick(n)
  PROVE  ReplicaInv' /\ Begun \subseteq Begun'
<1>0. /\ ClockInv /\ CountersInv /\ ReportsInv /\ SyncsInv
  BY DEF ReplicaInv
<1>1. /\ UNCHANGED <<status, booted, counter, collected, unsynced, reports,
                     written, syncs, made, lost, misfiled, apart, mixed,
                     garbled>>
      /\ clock' = [clock EXCEPT ![n] = @ + 1]
      /\ clock[n] < MaxNow
      /\ \A o \in Nodes : clock[n] + 1 <= clock[o] + MaxSkew
  BY DEF Tick, requests, outgoing, buckets, ledgers
<1>2. /\ clock \in [Nodes -> 0 .. MaxNow] /\ booted \in [Nodes -> Nat]
      /\ \A p \in Nodes : booted[p] <= clock[p]
      /\ \A p, o \in Nodes : clock[o] <= clock[p] + MaxSkew
  BY <1>0 DEF ClockInv
<1>3. \A o \in Nodes : /\ clock[o] \in Nat
                       /\ clock'[o] = IF o = n THEN clock[n] + 1 ELSE clock[o]
  BY <1>1, <1>2, ClusterAssumption
<1>4. ClockInv'
  <2>1. clock' \in [Nodes -> 0 .. MaxNow]
    BY <1>1, <1>2, ClusterAssumption
  <2>2. ASSUME NEW p \in Nodes, NEW o \in Nodes
        PROVE  clock'[o] <= clock'[p] + MaxSkew
    BY <1>1, <1>2, <1>3, ClusterAssumption
  <2>3. \A p \in Nodes : booted[p] <= clock'[p]
    BY <1>2, <1>3
  <2> QED BY <1>1, <1>2, <2>1, <2>2, <2>3 DEF ClockInv
<1>5. Begun \subseteq Begun'
  <2> SUFFICES ASSUME NEW x \in Begun
               PROVE  \E o \in Nodes : \E t \in 0 .. clock'[o], w \in Lengths :
                        x = GenExpiry(t, w)
    BY DEF Begun
  <2>1. PICK o \in Nodes : \E t \in 0 .. clock[o], w \in Lengths :
                             x = GenExpiry(t, w)
    BY DEF Begun
  <2>2. PICK t \in 0 .. clock[o], w \in Lengths : x = GenExpiry(t, w)
    BY <2>1
  <2>3. t \in 0 .. clock'[o]
    BY <1>3, <2>2
  <2> QED BY <2>2, <2>3
<1>6. /\ Buckets(Begun) \subseteq Buckets(Begun')
      /\ Shelves(Begun) \subseteq Shelves(Begun')
      /\ Waiting(Begun) \subseteq Waiting(Begun')
      /\ Reports(Begun) \subseteq Reports(Begun')
      /\ Seq(Commands(Begun)) \subseteq Seq(Commands(Begun'))
  BY <1>5, MoreWindows
<1>7. CountersInv'
  <2>1. /\ counter \in [Nodes -> Buckets(Begun)]
        /\ collected \in [Nodes -> Shelves(Begun)]
        /\ unsynced \in [Nodes -> Waiting(Begun)]
    BY <1>0 DEF CountersInv
  <2>2. /\ counter \in [Nodes -> Buckets(Begun')]
        /\ collected \in [Nodes -> Shelves(Begun')]
        /\ unsynced \in [Nodes -> Waiting(Begun')]
    BY <1>6, <2>1
  <2>3. ASSUME NEW o \in Nodes, NEW j \in Keys, collected[o][j] # None
        PROVE  collected[o][j].until \in booted[o] .. clock'[o]
    <3>1. collected[o][j].until \in booted[o] .. clock[o]
      BY <1>0, <2>3 DEF CountersInv
    <3> QED BY <1>2, <1>3, <3>1
  <2> QED BY <1>0, <1>1, <2>2, <2>3 DEF CountersInv
<1>8. ReportsInv'
  <2>1. written \in [Nodes -> Seq(Commands(Begun'))]
    BY <1>0, <1>6 DEF ReportsInv
  <2> QED BY <1>0, <1>1, <1>6, <2>1 DEF ReportsInv
<1>9. SyncsInv'
  <2>1. ASSUME NEW m \in syncs PROVE WellSent(m)'
    <3>1. WellSent(m)
      BY <1>0 DEF SyncsInv
    <3> QED BY <1>1, <1>6, <3>1 DEF WellSent, Sent, Distinct
  <2> QED BY <1>0, <1>1, <2>1 DEF SyncsInv
<1> QED BY <1>1, <1>4, <1>5, <1>7, <1>8, <1>9, BooksQuiet, MixedQuiet
        DEF ReplicaInv

\* Every step keeps ReplicaInv.
LEMMA NextReplica ==
  ASSUME ReplicaInv, ConfigInv, AppInv, [Next]_vars
  PROVE  ReplicaInv'
<1>1. ASSUME UNCHANGED <<status, clock, booted, buckets, outgoing, syncs,
                         ledgers>>
      PROVE  ReplicaInv'
  <2>1. UNCHANGED <<status, clock, booted, counter, collected, reports,
                    unsynced, written, syncs, made, lost, misfiled, apart,
                    mixed, garbled>>
    BY <1>1 DEF buckets, outgoing, ledgers
  <2> QED BY <2>1, ClockQuiet, CountersQuiet, ReportsQuiet, SyncsQuiet,
             BooksQuiet, MixedQuiet
          DEF ReplicaInv
<1>2. ASSUME NEW n \in Nodes, NEW r \in IncrRequests,
             HttpIncr(n, r) \/ CallIncrAction(n, r)
      PROVE  ReplicaInv'
  <2>1. CASE HttpIncr(n, r)
    BY <2>1, HttpCall, CallReplica
  <2>2. CASE CallIncrAction(n, r)
    BY <1>1, <2>2, Zenon DEF CallIncrAction, AppCall
  <2> QED BY <1>2, <2>1, <2>2
<1>3. ASSUME NEW n \in Nodes, NEW r \in RateLimitRequests,
             HttpRateLimit(n, r) \/ CallRateLimitGlobalAction(n, r)
      PROVE  ReplicaInv'
  <2>1. CASE HttpRateLimit(n, r)
    BY <2>1, HttpCall, CallReplica
  <2>2. CASE CallRateLimitGlobalAction(n, r)
    BY <1>1, <2>2, Zenon DEF CallRateLimitGlobalAction, AppCall
  <2> QED BY <1>3, <2>1, <2>2
<1>4. ASSUME NEW n \in Nodes, NEW r \in PutRequests, HttpPutRate(n, r)
      PROVE  ReplicaInv'
  BY <1>1, <1>4, Zenon DEF HttpPutRate
<1>5. ASSUME NEW n \in Nodes, ReceiveOn(n) PROVE ReplicaInv'
  BY <1>5, ReceiveReplica DEF ReceiveOn
<1>6. ASSUME NEW n \in Nodes,
             \/ Flush(n) \/ Close(n) \/ Exit(n) \/ Start(n) \/ Tick(n)
             \/ \E k \in Keys : Collect(n, k)
      PROVE  ReplicaInv'
  BY <1>6, FlushReplica, StatusReplica, ExitReplica, TickReplica,
     CollectReplica
<1>7. ASSUME NEW m \in reports, RereadExpiry(m) PROVE ReplicaInv'
  BY <1>7, RereadReplica
<1>8. ASSUME NEW m \in syncs, Serialize(m) PROVE ReplicaInv'
  BY <1>8, SerializeReplica
<1>9. ASSUME DeliverSyncs PROVE ReplicaInv'
  <2>1. PICK m \in syncs :
          \/ \E i \in 0 .. Len(m.args), at \in booted[m.to] .. clock[m.to] :
             \E gone \in SUBSET {k \in Keys : collected[m.to][k] # None
                                         /\ at <= collected[m.to][k].until} :
               HandleSyncKeys(m, i, at, gone)
          \/ FailSyncKeys(m)
    BY <1>9, Zenon DEF DeliverSyncs
  <2>2. CASE FailSyncKeys(m)
    BY <2>2, FailSyncKeysReplica
  <2>3. ASSUME NEW i \in 0 .. Len(m.args), NEW at,
               NEW gone, \A k \in gone : k \in Keys /\ collected[m.to][k] # None,
               HandleSyncKeys(m, i, at, gone)
        PROVE  ReplicaInv'
    BY <2>3, HandleSyncKeysReplica
  <2> QED BY <2>1, <2>2, <2>3
<1>10. ASSUME DeliverConfigs PROVE ReplicaInv'
  BY <1>1, <1>10, Zenon DEF DeliverConfigs, HandleSyncRateConfig
<1>11. ASSUME NEW i \in 0 .. Len(app.args),
             HandleIncrAction(i) \/ HandleRateLimitGlobalAction(i)
      PROVE  ReplicaInv'
  BY <1>11, ThriftCall, CallReplica
<1>12. ASSUME AppReturn \/ AppError PROVE ReplicaInv'
  BY <1>1, <1>12, Zenon DEF AppReturn, AppError
<1>13. ASSUME UNCHANGED vars PROVE ReplicaInv'
  BY <1>1, <1>13 DEF vars, requests
<1> QED
  BY <1>2, <1>3, <1>4, <1>5, <1>6, <1>7, <1>8, <1>9, <1>10, <1>11, <1>12, <1>13,
     Zenon DEF Next

\* At first no node holds anything.
LEMMA InitReplica == Init => ReplicaInv
<1> SUFFICES ASSUME Init PROVE ReplicaInv
  OBVIOUS
<1>1. ClockInv
  BY ClusterAssumption DEF Init, ClockInv
<1>2. CountersInv
  BY DEF Init, CountersInv, Buckets, Shelves, Waiting
<1>3. SyncsInv
  BY FS_EmptySet DEF Init, SyncsInv
<1>4. BooksInv
  <2>1. NoLedger \in Ledger
    BY DEF NoLedger, Ledger
  <2> QED BY <2>1 DEF Init, BooksInv
<1>5. MixedInv
  BY DEF Init, MixedInv, MixedOnlyAtTheEnd
<1>6. ReportsInv
  BY FS_EmptySet DEF Init, ReportsInv
<1> QED BY <1>1, <1>2, <1>3, <1>4, <1>5, <1>6 DEF ReplicaInv

\* The three invariants of the cluster together.
LEMMA ClusterInvariant == Spec => [](AppInv /\ ConfigInv /\ ReplicaInv)
<1>1. Init => AppInv
  BY DEF Init, NoCall, AppInv
<1> QED BY <1>1, InitConfig, InitReplica, NextApp, NextConfig, NextReplica, PTL
        DEF Spec

\* The types of the cluster's state: every counter is an int32 of a window, a
\* node that is down holds nothing, and requests under way are whole.
THEOREM TypeCorrect == Spec => []TypeOK
<1>1. ASSUME AppInv, ConfigInv, ReplicaInv PROVE TypeOK
  <2>0. /\ ClockInv /\ CountersInv /\ ReportsInv /\ SyncsInv /\ BooksInv
    BY <1>1 DEF ReplicaInv
  <2>1. /\ status \in [Nodes -> {"up", "closed", "down"}]
        /\ clock \in [Nodes -> 0 .. MaxNow]
        /\ app.phase \in {"idle", "called", "answered"}
        /\ made \in [Nodes -> Ledger]
        /\ lost \in [Nodes -> [Nodes -> Ledger]]
    BY <1>1, <2>0 DEF ClockInv, CountersInv, BooksInv, AppInv
  <2>2. Begun \subseteq Windows
    BY BegunNat
  <2>3. ASSUME NEW X, X \subseteq Commands(Begun) PROVE X \subseteq Command
    BY <2>2, <2>3 DEF Commands, Command
  <2>4. ASSUME NEW n \in Nodes, NEW k \in Keys
        PROVE  /\ booted[n] \in 0 .. clock[n]
               /\ counter[n][k] # None => /\ counter[n][k].count \in Int32
                                          /\ counter[n][k].expires \in Windows
               /\ collected[n][k] # None =>
                    /\ collected[n][k].until \in booted[n] .. clock[n]
                    /\ collected[n][k].entry.count \in Int32
                    /\ collected[n][k].entry.expires \in Windows
               /\ unsynced[n][k] # None => unsynced[n][k] \in Unsynced
               /\ rateConfig[n][k] # None => rateConfig[n][k] \in RateConfig
               /\ status[n] = "down" =>
                    counter[n][k] = None /\ unsynced[n][k] = None
               /\ written[n] \in Seq(Command)
    <3>1. /\ counter[n][k] # None => counter[n][k] \in Entries(Begun)
          /\ collected[n][k] # None => collected[n][k] \in Taken(Begun)
          /\ unsynced[n][k] # None => unsynced[n][k] \in Held(Begun)
      BY <2>0 DEF CountersInv, Buckets, Shelves, Waiting
    <3>2. counter[n][k] # None => /\ counter[n][k].count \in Int32
                                  /\ counter[n][k].expires \in Windows
      BY <2>2, <3>1 DEF Entries
    <3>3. collected[n][k] # None => collected[n][k].entry \in Entries(Begun)
      BY <3>1 DEF Taken
    <3>4. collected[n][k] # None =>
            /\ collected[n][k].until \in booted[n] .. clock[n]
            /\ collected[n][k].entry.count \in Int32
            /\ collected[n][k].entry.expires \in Windows
      BY <2>0, <2>2, <3>3 DEF Entries, CountersInv
    <3>5. unsynced[n][k] # None => unsynced[n][k] \in Unsynced
      BY <2>2, <3>1 DEF Held, Unsynced
    <3>6. rateConfig[n][k] # None => rateConfig[n][k] \in RateConfig
      BY <1>1 DEF ConfigInv
    <3>7. status[n] = "down" => counter[n][k] = None /\ unsynced[n][k] = None
      BY <2>0 DEF CountersInv
    <3>8. written[n] \in Seq(Command)
      <4>1. written[n] \in Seq(Commands(Begun))
        BY <2>0 DEF ReportsInv
      <4>2. Commands(Begun) \subseteq Command
        BY <2>3
      <4> QED BY <4>1, <4>2
    <3>9. booted[n] \in 0 .. clock[n]
      BY <2>0, ClusterAssumption DEF ClockInv
    <3> QED BY <3>2, <3>4, <3>5, <3>6, <3>7, <3>8, <3>9
  <2>5. ASSUME NEW m \in reports
        PROVE  /\ status[m.node] # "down" /\ m.count \in Int32
               /\ m.own \in Windows /\ m.expiry \in Windows
    <3>1. m \in Reports(Begun) /\ status[m.node] # "down"
      BY <2>0 DEF ReportsInv
    <3> QED BY <2>2, <3>1 DEF Reports
  <2>6. ASSUME NEW F, Table(F), NEW v
        PROVE  Complete(WriteStruct(F, v))
    <3>1. /\ Len(F) \in Nat
          /\ DOMAIN WriteStruct(F, v) = 1 .. Len(F) + 1
          /\ WriteStruct(F, v)[Len(F) + 1] = Stop
      BY <2>6, Written
    <3> QED BY <3>1 DEF Complete
  <2>7. ASSUME NEW m \in syncs
        PROVE  /\ m.from # m.to /\ ToSet(m.batch) \subseteq Command
               /\ Sent(m) => Complete(m.args)
               /\ ~Sent(m) => m.sound /\ status[m.from] # "down"
    <3>1. WellSent(m)
      BY <2>0 DEF SyncsInv
    <3>2. ToSet(m.batch) \subseteq Commands(Begun)
      BY <3>1 DEF WellSent, ToSet
    <3>3. ToSet(m.batch) \subseteq Command
      BY <2>3, <3>2
    <3>4. Sent(m) => Complete(m.args)
      BY <3>1, WrittenIsSent DEF WellSent
    <3> QED BY <3>1, <3>3, <3>4 DEF WellSent
  <2>8. ASSUME NEW m \in configs PROVE m.from # m.to /\ Complete(m.args)
    <3>1. m.from # m.to
      BY <1>1 DEF ConfigInv
    <3>2. \E v : m.args = WriteStruct(StoreNodeSyncRateConfigArgs, v)
      BY <1>1 DEF ConfigInv
    <3> QED BY <2>6, <3>1, <3>2, Tables
  <2> QED BY <2>1, <2>4, <2>5, <2>7, <2>8 DEF TypeOK
<1> QED BY <1>1, ClusterInvariant, PTL

\* KeyBucket.Sync adds a count to the entry it finds, whatever its window.  If
\* all callers ask for windows of one length, whatever it is, two windows are
\* mixed up only when the older ends within the difference of two clocks, for
\* windows are aligned to the clock.
THEOREM MixedHolds == Spec => []MixedOnlyAtTheEnd
<1>1. ReplicaInv => MixedOnlyAtTheEnd
  BY DEF ReplicaInv, MixedInv
<1> QED BY <1>1, ClusterInvariant, PTL
=============================================================================
