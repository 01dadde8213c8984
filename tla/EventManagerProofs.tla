------------------------- MODULE EventManagerProofs -------------------------
(***************************************************************************)
(* Proofs about EventManager, for every set of handlers, publishers,       *)
(* workers and objects and every capacity of the channel: its types, that  *)
(* an event object has one owner, that only handlers registered since its  *)
(* publication are called with an event, and, while none is removed, that  *)
(* each is called once.                                                    *)
(*                                                                         *)
(* The invariants are layered: each uses those before it.                  *)
(***************************************************************************)
EXTENDS EventManager, QueueLemmas, TLAPS

Task == [obj : Objs \union {None}, arr : Nat, n : Nat, i : Nat]

Shape ==
  /\ free \subseteq Objs
  /\ content \in [Objs -> Events \union {0}]
  /\ pc \in [Publishers -> {"idle", "fill", "publish"}]
  /\ held \in [Publishers -> Objs \union {None}]
  /\ arg \in [Publishers -> Events \union {0}]
  /\ events \in 0 .. MaxEvents
  /\ \A p \in Publishers : /\ held[p] = None <=> pc[p] = "idle"
                           /\ pc[p] # "idle" => arg[p] \in Events
  /\ eventChan \in Seq(Objs) /\ Len(eventChan) <= Buffer
  /\ wpc \in [Workers -> {"idle", "look", "call"}]
  /\ task \in [Workers -> Task]
  /\ \A w \in Workers : wpc[w] = "idle" <=> task[w].obj = None

\* The registrations there can have been so far.
Known == {g \in Registrations : g[2] <= changes}

\* The current slice: what UnRegisterHandler is about to overwrite apart, its
\* elements are the registrations in force, each once.
Kept == (1 .. len) \ {moving}

SliceInv ==
  /\ arrays \in Seq(Seq(Registrations \union {None}))
  /\ len \in Nat /\ changes \in 0 .. MaxChanges
  /\ len <= Cap
  /\ moving \in 0 .. len
  /\ \A j \in 1 .. len : Last(arrays)[j] \in Known
  /\ members = {Last(arrays)[j] : j \in Kept}
  /\ \A j, k \in Kept : Last(arrays)[j] = Last(arrays)[k] => j = k

\* What a worker walks through lies within its array.
WalkInv ==
  \A w \in Workers :
    /\ wpc[w] # "call" => task[w].i = 1
    /\ wpc[w] = "call" =>
         /\ task[w].i \in 1 .. task[w].n + 1
         /\ task[w].n > 0 => /\ task[w].arr \in 1 .. Len(arrays)
                             /\ task[w].n <= Len(arrays[task[w].arr])

\* The objects that hold an event to be handled.
Queued == ToSet(eventChan) \union InWork

\* The owners of the objects.
OwnerInv == /\ OneOwner
            /\ \A p, q \in Publishers : held[p] = held[q]
                                          => p = q \/ held[p] = None

\* Events are numbered, and each is in one object, from the call that takes a
\* number to the worker that is done with it.
EventInv ==
  /\ accepted \subseteq 1 .. events
  /\ done \subseteq accepted
  /\ \A p \in Publishers : pc[p] # "idle" => arg[p] \in (1 .. events) \ accepted
  /\ \A p, q \in Publishers : pc[p] # "idle" /\ pc[q] # "idle" /\ arg[p] = arg[q]
                                => p = q
  /\ \A p \in Publishers : pc[p] = "publish" => content[held[p]] = arg[p]
  /\ \A o \in Queued : content[o] \in accepted \ done
  /\ \A o, q \in Queued : content[o] = content[q] => o = q

\* The handlers an event may meet have been registered since it was accepted.
SinceInv ==
  /\ called \in [Events -> [Registrations -> Nat]]
  /\ since \in [Events -> SUBSET Registrations]
  /\ \A e \in accepted : members \subseteq since[e]
  /\ \A e \in Events \ accepted, h \in Registrations : called[e][h] = 0
  /\ \A w \in Workers : wpc[w] = "call" =>
       \A j \in 1 .. task[w].n :
         arrays[task[w].arr][j] \in since[content[task[w].obj]]
  /\ CalledOnlyIfRegistered

\* The objects that no worker has taken the handlers for.
Waiting == {o \in Queued : \A w \in Workers : wpc[w] = "call" => task[w].obj # o}

\* The handlers that the worker w has called already.
Visited(w) == {arrays[task[w].arr][j] : j \in 1 .. task[w].i - 1}

\* The worker w walks through distinct handlers, all that were registered when
\* its event was accepted among them, and has called those it has walked past.
WalkOnce(w) ==
  /\ task[w].arr = Len(arrays) => task[w].n <= len
  /\ \A j, k \in 1 .. task[w].n :
       arrays[task[w].arr][j] = arrays[task[w].arr][k] => j = k
  /\ due[content[task[w].obj]] \subseteq
       {arrays[task[w].arr][j] : j \in 1 .. task[w].n}
  /\ \A h \in Registrations : called[content[task[w].obj]][h] =
                           IF h \in Visited(w) THEN 1 ELSE 0

\* This is so as long as no handler is removed.
OnceInv ==
  ~removals =>
    /\ moving = 0
    /\ due \in [Events -> SUBSET Registrations]
    /\ \A e \in accepted : due[e] \subseteq members
    /\ \A o \in Waiting, h \in Registrations : called[content[o]][h] = 0
    /\ \A w \in Workers : wpc[w] = "call" => WalkOnce(w)
    /\ DeliveredOnce

-----------------------------------------------------------------------------
(* Types.                                                                  *)

\* What is on the channel or in the hands of a worker or a publisher.
LEMMA ShapeFacts ==
  ASSUME Shape
  PROVE  /\ InHands \subseteq Objs
         /\ InWork \subseteq Objs
         /\ ToSet(eventChan) \subseteq Objs
         /\ None \notin Objs
<1>1. InHands \subseteq Objs
  BY DEF Shape, InHands
<1>2. InWork \subseteq Objs
  BY DEF Shape, Task, InWork
<1>3. ToSet(eventChan) \subseteq Objs
  BY DEF Shape, ToSet
<1> QED BY <1>1, <1>2, <1>3, EventAssumption

\* The publishers keep the types.
LEMMA PublisherShape ==
  ASSUME Shape, NEW p \in Publishers, GetEvent(p) \/ Proceed(p)
  PROVE  Shape'
<1>1. CASE GetEvent(p)
  <2>1. PICK o \in free : /\ held' = [held EXCEPT ![p] = o]
                          /\ free' = free \ {o}
    BY <1>1 DEF GetEvent
  <2>2. o \in Objs /\ o # None
    BY EventAssumption DEF Shape
  <2>3. events' \in 0 .. MaxEvents /\ events + 1 \in Events
    BY <1>1, EventAssumption DEF GetEvent, Shape, Events
  <2> QED
    BY <1>1, <2>1, <2>2, <2>3 DEF GetEvent, Shape, workerVars
<1>2. CASE FillEvent(p)
  <2>1. held[p] \in Objs /\ arg[p] \in Events
    BY <1>2 DEF FillEvent, Shape
  <2> QED BY <1>2, <2>1 DEF FillEvent, Shape, workerVars
<1>3. CASE Publish(p)
  <2>1. held[p] \in Objs
    BY <1>3 DEF Publish, Shape
  <2>2. eventChan' \in Seq(Objs) /\ Len(eventChan') <= Buffer
    BY <1>3, <2>1, EventAssumption DEF Publish, Shape
  <2> QED BY <1>3, <2>2 DEF Publish, LetGo, Shape, workerVars
<1>4. CASE PublishDiscards(p)
  <2>1. held[p] \in Objs
    BY <1>4 DEF PublishDiscards, Shape
  <2> QED BY <1>4, <2>1 DEF PublishDiscards, LetGo, Shape, workerVars
<1> QED BY <1>1, <1>2, <1>3, <1>4 DEF Proceed

\* The workers keep them.
LEMMA WorkerShape ==
  ASSUME Shape, SliceInv, NEW w \in Workers, Work(w)
  PROVE  Shape'
<1>1. CASE ReceiveEvent(w)
  <2>1. /\ Head(eventChan) \in Objs
        /\ Tail(eventChan) \in Seq(Objs)
        /\ Len(Tail(eventChan)) <= Buffer
    BY <1>1, EventAssumption DEF ReceiveEvent, Shape
  <2>2. [task[w] EXCEPT !.obj = Head(eventChan)] \in Task
    BY <2>1 DEF Shape, Task
  <2>3. task' \in [Workers -> Task] /\ task'[w].obj = Head(eventChan)
    BY <1>1, <2>2 DEF ReceiveEvent, Shape, Task
  <2>4. Head(eventChan) # None
    BY <2>1, EventAssumption
  <2>5. \A x \in Workers : x # w => task'[x] = task[x] /\ wpc'[x] = wpc[x]
    BY <1>1 DEF ReceiveEvent, Shape
  <2>6. wpc' \in [Workers -> {"idle", "look", "call"}] /\ wpc'[w] = "look"
    BY <1>1 DEF ReceiveEvent, Shape
  <2>7. \A x \in Workers : wpc'[x] = "idle" <=> task'[x].obj = None
    BY <2>3, <2>4, <2>5, <2>6 DEF Shape
  <2> QED
    BY <1>1, <2>1, <2>3, <2>6, <2>7 DEF ReceiveEvent, Shape, publisherVars
<1>2. CASE TakeHandlers(w)
  <2>1. Len(arrays) \in Nat /\ len \in Nat
    BY DEF SliceInv
  <2>2. [task[w] EXCEPT !.arr = Len(arrays), !.n = len] \in Task
    BY <2>1 DEF Shape, Task
  <2>3. /\ task' \in [Workers -> Task]
        /\ \A x \in Workers : task'[x].obj = task[x].obj
    BY <1>2, <2>1, <2>2 DEF TakeHandlers, Shape, Task
  <2>4. /\ wpc' \in [Workers -> {"idle", "look", "call"}]
        /\ \A x \in Workers : wpc'[x] = "idle" <=> wpc[x] = "idle"
    BY <1>2 DEF TakeHandlers, Shape
  <2> QED BY <1>2, <2>3, <2>4 DEF TakeHandlers, Shape, publisherVars
<1>3. CASE CallHandler(w)
  <2>1. [task[w] EXCEPT !.i = @ + 1] \in Task
    <3>1. task[w] \in Task /\ task[w].i + 1 \in Nat
      BY DEF Shape, Task
    <3> QED BY <3>1 DEF Task
  <2>2. /\ task' \in [Workers -> Task]
        /\ \A x \in Workers : task'[x].obj = task[x].obj
    BY <1>3, <2>1 DEF CallHandler, Shape, Task
  <2> QED BY <1>3, <2>2 DEF CallHandler, Shape, publisherVars
<1>4. CASE PutEvent(w)
  <2>1. task[w].obj \in Objs
    BY <1>4 DEF PutEvent, Shape, Task
  <2>2. NoTask \in Task
    BY DEF NoTask, Task
  <2>3. /\ task' = [task EXCEPT ![w] = NoTask]
        /\ wpc' = [wpc EXCEPT ![w] = "idle"]
        /\ free' = free \union {task[w].obj}
        /\ UNCHANGED <<content, publisherVars, eventChan>>
    BY <1>4 DEF PutEvent, Return
  <2>4. NoTask.obj = None
    BY DEF NoTask
  <2> QED BY <2>1, <2>2, <2>3, <2>4 DEF Shape, publisherVars
<1> QED BY <1>1, <1>2, <1>3, <1>4 DEF Work

-----------------------------------------------------------------------------
(* The array of handlers.                                                  *)

\* What append leaves behind: the arrays, with h behind the slice.
Appended(A, h) ==
  /\ A \in Seq(Seq(Registrations \union {None}))
  /\ Len(A) \in Nat \ {0} /\ Len(A) >= Len(arrays)
  /\ Len(A[Len(A)]) >= len + 1
  /\ \A j \in 1 .. len : A[Len(A)][j] = Last(arrays)[j]
  /\ A[Len(A)][len + 1] = h
  /\ \A a \in 1 .. Len(arrays) : Len(A[a]) = Len(arrays[a])
  /\ \A a \in 1 .. Len(arrays) : \A j \in 1 .. Len(arrays[a]) :
       \/ A[a][j] = arrays[a][j]
       \/ a = Len(arrays) /\ a = Len(A) /\ j = len + 1 /\ A[a][j] = h

\* What one overwritten element leaves behind.
Shifted(A) ==
  /\ A \in Seq(Seq(Registrations \union {None}))
  /\ Len(A) = Len(arrays)
  /\ Len(A) \in Nat \ {0}
  /\ \A a \in 1 .. Len(arrays) : Len(A[a]) = Len(arrays[a])
  /\ A[Len(A)][moving] = Last(arrays)[moving + 1]
  /\ \A j \in 1 .. len : j # moving => A[Len(A)][j] = Last(arrays)[j]
  /\ \A a \in 1 .. Len(arrays) : \A j \in 1 .. Len(arrays[a]) :
       \/ A[a][j] = arrays[a][j]
       \/ A[a][j] = Last(arrays)[moving + 1]

\* append writes behind the slice, into its array or into a new one.
LEMMA AppendEffect ==
  ASSUME SliceInv, NEW h \in Registrations,
         NEW A, A = AppendHandler(h)
  PROVE  Appended(A, h)
<1> DEFINE L == Len(arrays)
           H == Registrations \union {None}
<1>1. /\ L \in Nat
      /\ \A a \in 1 .. L : arrays[a] \in Seq(H) /\ Len(arrays[a]) \in Nat
      /\ len \in Nat
      /\ arrays \in Seq(Seq(H))
  BY DEF SliceInv
<1>2. /\ L = 0 => Cap = 0
      /\ L > 0 => Cap = Len(arrays[L])
      /\ Cap \in Nat
      /\ len <= Cap
  BY <1>1 DEF SliceInv, Cap, Last
<1>3. CASE len < Cap
  <2>1. L > 0 /\ L \in 1 .. L /\ len + 1 \in 1 .. Len(arrays[L])
    BY <1>1, <1>2, <1>3
  <2>2. A = [arrays EXCEPT ![L][len + 1] = h]
    BY <1>3 DEF AppendHandler
  <2> DEFINE row == [arrays[L] EXCEPT ![len + 1] = h]
  <2>3. A = [arrays EXCEPT ![L] = row]
    BY <2>2
  <2>4. /\ row \in Seq(H)
        /\ Len(row) = Len(arrays[L])
        /\ row[len + 1] = h
        /\ \A j \in 1 .. Len(arrays[L]) : j # len + 1 => row[j] = arrays[L][j]
    BY <1>1, <2>1, SlotWritten
  <2> HIDE DEF row
  <2>5. /\ A \in Seq(Seq(H))
        /\ Len(A) = L
        /\ A[L] = row
        /\ \A a \in 1 .. L : a # L => A[a] = arrays[a]
    BY <1>1, <2>1, <2>3, <2>4, SlotWritten
  <2>6. /\ Len(A[L]) >= len + 1
        /\ \A j \in 1 .. len : A[L][j] = Last(arrays)[j]
    BY <1>1, <2>1, <2>4, <2>5 DEF Last
  <2>7. \A a \in 1 .. L : Len(A[a]) = Len(arrays[a])
    BY <2>4, <2>5
  <2>8. \A a \in 1 .. L : \A j \in 1 .. Len(arrays[a]) :
          \/ A[a][j] = arrays[a][j]
          \/ a = L /\ a = Len(A) /\ j = len + 1 /\ A[a][j] = h
    BY <2>4, <2>5
  <2> QED BY <1>1, <2>1, <2>4, <2>5, <2>6, <2>7, <2>8 DEF Appended
<1>4. CASE ~(len < Cap)
  <2> DEFINE size == IF Cap = 0 THEN 1 ELSE 2 * Cap
             new == [j \in 1 .. size |-> IF j <= len THEN Last(arrays)[j]
                                         ELSE IF j = len + 1 THEN h ELSE None]
  <2>1. A = Append(arrays, new)
    BY <1>4 DEF AppendHandler, Grown
  <2>2. len = Cap /\ size \in Nat /\ len + 1 <= size
    BY <1>1, <1>2, <1>4
  <2>3. \A j \in 1 .. len : Last(arrays)[j] \in H
    BY DEF SliceInv, Known
  <2>4. new \in Seq(H) /\ Len(new) = size
    <3>1. new \in [1 .. size -> H]
      BY <1>1, <2>2, <2>3
    <3> QED BY <2>2, <3>1
  <2>5. /\ \A j \in 1 .. len : new[j] = Last(arrays)[j]
        /\ new[len + 1] = h
    BY <1>1, <2>2
  <2> HIDE DEF new, size
  <2>6. /\ A \in Seq(Seq(H))
        /\ Len(A) = L + 1
        /\ A[L + 1] = new
        /\ \A a \in 1 .. L : A[a] = arrays[a]
    BY <1>1, <2>1, <2>4
  <2>7. /\ Len(A[L + 1]) >= len + 1
        /\ \A j \in 1 .. len : A[L + 1][j] = Last(arrays)[j]
        /\ A[L + 1][len + 1] = h
    BY <1>1, <2>2, <2>4, <2>5, <2>6
  <2>8. /\ \A a \in 1 .. L : A[a] = arrays[a]
        /\ Len(A) \in Nat \ {0} /\ Len(A) >= L
    BY <1>1, <2>6
  <2> HIDE DEF H
  <2> QED BY <2>6, <2>7, <2>8 DEF Appended, H
<1> QED BY <1>3, <1>4

\* UnRegisterHandler overwrites one element of the array by the next.
LEMMA ShiftEffect ==
  ASSUME SliceInv, moving # 0, moving < len,
         NEW A, A = [arrays EXCEPT ![Len(arrays)][moving] =
                       Last(arrays)[moving + 1]]
  PROVE  Shifted(A)
<1> DEFINE L == Len(arrays)
           H == Registrations \union {None}
           x == Last(arrays)[moving + 1]
<1>1. /\ L \in Nat
      /\ \A a \in 1 .. L : arrays[a] \in Seq(H) /\ Len(arrays[a]) \in Nat
      /\ len \in Nat
      /\ moving \in 1 .. len
      /\ arrays \in Seq(Seq(H))
  BY DEF SliceInv
<1>2. L > 0 /\ len <= Len(arrays[L])
  BY <1>1 DEF SliceInv, Cap, Last
<1>3. L \in 1 .. L /\ moving \in 1 .. Len(arrays[L])
  BY <1>1, <1>2
<1>4. x \in H
  BY <1>1 DEF SliceInv, Known
<1> HIDE DEF x
<1> DEFINE row == [arrays[L] EXCEPT ![moving] = x]
<1>5. A = [arrays EXCEPT ![L] = row]
  BY DEF x
<1>6. /\ row \in Seq(H)
      /\ Len(row) = Len(arrays[L])
      /\ row[moving] = x
      /\ \A j \in 1 .. Len(arrays[L]) : j # moving => row[j] = arrays[L][j]
  BY <1>1, <1>3, <1>4, SlotWritten
<1> HIDE DEF row
<1>7. /\ A \in Seq(Seq(H))
      /\ Len(A) = L
      /\ A[L] = row
      /\ \A a \in 1 .. L : a # L => A[a] = arrays[a]
  BY <1>1, <1>3, <1>5, <1>6, SlotWritten
<1> QED BY <1>1, <1>2, <1>6, <1>7 DEF Last, x, Shifted

\* What a registration does, with a registration that is new.
Adds(g) ==
  /\ Appended(arrays', g)
  /\ g \in Known' /\ g \notin Known
  /\ Known \subseteq Known'
  /\ members' = members \union {g}
  /\ since' = [e \in Events |-> IF e \in accepted THEN since[e] \union {g}
                                ELSE since[e]]

\* So registration appends, ...
LEMMA RegisterAppends ==
  ASSUME SliceInv, NEW h \in Handlers, RegisterHandler(h)
  PROVE  \E g \in Registrations : Adds(g)
<1>1. PICK c : c = changes
  OBVIOUS
<1>2. PICK g : g = <<h, c + 1>>
  OBVIOUS
<1>3. c \in 0 .. MaxChanges /\ c < MaxChanges /\ changes' = c + 1
  BY <1>1 DEF RegisterHandler, SliceInv
<1>4. g \in Registrations /\ g[2] = c + 1
  BY <1>2, <1>3, EventAssumption DEF Registrations
<1>5. g \in Known' /\ g \notin Known
  BY <1>1, <1>3, <1>4 DEF Known
<1>6. Known \subseteq Known'
  <2>1. \A f \in Registrations : f[2] \in Int
    BY EventAssumption DEF Registrations
  <2> QED BY <1>1, <1>3, <2>1 DEF Known
<1>7. /\ arrays' = AppendHandler(g)
      /\ members' = members \union {g}
      /\ since' = [e \in Events |-> IF e \in accepted THEN since[e] \union {g}
                                    ELSE since[e]]
  BY <1>1, <1>2 DEF RegisterHandler
<1>8. Appended(arrays', g)
  BY <1>4, <1>7, AppendEffect
<1> QED BY <1>4, <1>5, <1>6, <1>7, <1>8 DEF Adds

\* ... and each step of a removal shifts.
LEMMA RemovalShifts ==
  ASSUME SliceInv, ShiftHandler
  PROVE  Shifted(arrays')
<1>1. moving # 0 /\ moving < len
  BY DEF ShiftHandler, Unlocked
<1>2. arrays' = [arrays EXCEPT ![Len(arrays)][moving] = Last(arrays)[moving + 1]]
  BY DEF ShiftHandler
<1> QED BY <1>1, <1>2, ShiftEffect

\* A registration extends the slice by the handler.
LEMMA RegisterSlice ==
  ASSUME SliceInv, NEW h \in Handlers, RegisterHandler(h)
  PROVE  SliceInv'
<1> PICK g \in Registrations : Adds(g)
  BY RegisterAppends
<1>1. /\ moving = 0 /\ moving' = 0
      /\ changes' \in 0 .. MaxChanges
      /\ len' = len + 1 /\ len \in Nat
      /\ members' = members \union {g}
  <2>1. members' = members \union {g}
    BY DEF Adds
  <2>2. /\ moving = 0 /\ UNCHANGED moving /\ len' = len + 1
        /\ changes < MaxChanges /\ changes' = changes + 1
    BY Zenon DEF RegisterHandler, Unlocked
  <2>3. len \in Nat /\ changes \in 0 .. MaxChanges
    BY Zenon DEF SliceInv
  <2>4. changes' \in 0 .. MaxChanges
    BY <2>2, <2>3, EventAssumption
  <2> QED BY <2>1, <2>2, <2>3, <2>4
<1>2. PICK old : old = Last(arrays)
  OBVIOUS
<1>3. PICK new : new = Last(arrays')
  OBVIOUS
<1>4. /\ arrays' \in Seq(Seq(Registrations \union {None}))
      /\ arrays' # << >>
      /\ Len(new) >= len + 1
      /\ \A j \in 1 .. len : new[j] = old[j]
      /\ new[len + 1] = g
  <2>1. /\ arrays' \in Seq(Seq(Registrations \union {None}))
        /\ Len(arrays') \in Nat \ {0}
        /\ Len(arrays'[Len(arrays')]) >= len + 1
        /\ \A j \in 1 .. len : arrays'[Len(arrays')][j] = Last(arrays)[j]
        /\ arrays'[Len(arrays')][len + 1] = g
    BY DEF Adds, Appended
  <2>2. new = arrays'[Len(arrays')]
    BY <1>3 DEF Last
  <2> QED BY <1>2, <2>1, <2>2
<1>5. /\ members = {old[j] : j \in 1 .. len}
      /\ \A j, k \in 1 .. len : old[j] = old[k] => j = k
      /\ \A j \in 1 .. len : old[j] \in Known /\ old[j] # g
  <2>1. Kept = 1 .. len
    BY <1>1 DEF Kept
  <2>2. \A j \in 1 .. len : old[j] \in Known /\ old[j] # g
    BY <1>2 DEF SliceInv, Adds
  <2> QED BY <1>2, <2>1, <2>2 DEF SliceInv
<1>6. Kept' = 1 .. len + 1 /\ Cap' = Len(new)
  BY <1>1, <1>3, <1>4 DEF Kept, Cap
<1>7. \A j \in 1 .. len + 1 : j \in 1 .. len \/ j = len + 1
  BY <1>1
<1>8. members' = {new[j] : j \in 1 .. len + 1}
  <2>1. {new[j] : j \in 1 .. len + 1} \subseteq members'
    BY <1>1, <1>4, <1>5, <1>7
  <2>2. 1 .. len \subseteq 1 .. len + 1 /\ len + 1 \in 1 .. len + 1
    BY <1>1
  <2>3. members' \subseteq {new[j] : j \in 1 .. len + 1}
    BY <1>1, <1>4, <1>5, <2>2
  <2> QED BY <2>1, <2>3
<1>9. \A j, k \in 1 .. len + 1 : new[j] = new[k] => j = k
  BY <1>4, <1>5, <1>7
<1>10. \A j \in 1 .. len + 1 : new[j] \in Known'
  BY <1>4, <1>5, <1>7 DEF Adds
<1>11. len' <= Cap' /\ moving' \in 0 .. len'
  BY <1>1, <1>4, <1>6
<1>12. members' = {Last(arrays')[j] : j \in Kept'}
  BY <1>3, <1>6, <1>8
<1>13. \A j, k \in Kept' : Last(arrays')[j] = Last(arrays')[k] => j = k
  BY <1>3, <1>6, <1>9
<1>14. \A j \in 1 .. len' : Last(arrays')[j] \in Known'
  BY <1>1, <1>3, <1>10
<1>15. len' \in Nat
  BY <1>1
<1> QED BY <1>1, <1>4, <1>11, <1>12, <1>13, <1>14, <1>15 DEF SliceInv

\* UnRegisterHandler leaves out the element it has found.
LEMMA UnRegisterSlice ==
  ASSUME SliceInv, NEW h \in Handlers,
         UnRegisterHandler(h) \/ UnRegisterAbsent(h)
  PROVE  SliceInv'
<1>1. UNCHANGED <<arrays, len>> /\ changes' \in 0 .. MaxChanges
      /\ moving = 0
  BY EventAssumption DEF UnRegisterHandler, UnRegisterAbsent, SliceInv, Unlocked
<1>2. Cap' = Cap
  BY <1>1 DEF Cap
<1>5. \A j \in 1 .. len : Last(arrays)[j] \in Known'
  <2>1. \A f \in Registrations : f[2] \in Int
    BY EventAssumption DEF Registrations
  <2>2. changes \in Nat /\ changes' = changes + 1
    BY EventAssumption DEF UnRegisterHandler, UnRegisterAbsent, SliceInv
  <2>3. Known \subseteq Known'
    BY <2>1, <2>2 DEF Known
  <2> QED BY <2>3 DEF SliceInv
<1>3. CASE UnRegisterHandler(h)
  <2>1. PICK i \in 1 .. len : /\ moving' = i
                             /\ members' = members \ {Last(arrays)[i]}
    BY <1>3 DEF UnRegisterHandler
  <2>2. members' = members \ {Last(arrays)[i]}
    BY <2>1
  <2>3. Kept = 1 .. len /\ Kept' = Kept \ {i} /\ i \in Kept
    BY <1>1, <2>1 DEF Kept, SliceInv
  <2>4. members' = {Last(arrays)[j] : j \in Kept'}
    BY <2>1, <2>2, <2>3 DEF SliceInv
  <2>5. \A j, k \in Kept' : Last(arrays)[j] = Last(arrays)[k] => j = k
    BY <2>3 DEF SliceInv
  <2>6. /\ arrays' \in Seq(Seq(Registrations \union {None}))
        /\ len' \in Nat /\ len' <= Cap' /\ moving' \in 0 .. len'
    BY <1>1, <1>2, <2>1 DEF SliceInv
  <2>7. \A j \in 1 .. len' : Last(arrays')[j] \in Known'
    BY <1>1, <1>5
  <2>8. /\ members' = {Last(arrays')[j] : j \in Kept'}
        /\ \A j, k \in Kept' : Last(arrays')[j] = Last(arrays')[k] => j = k
    BY <1>1, <2>4, <2>5
  <2> QED BY <1>1, <2>6, <2>7, <2>8 DEF SliceInv
<1>4. CASE UnRegisterAbsent(h)
  <2>1. UNCHANGED <<moving, members>> /\ Kept' = Kept
    BY <1>1, <1>4 DEF UnRegisterAbsent, Kept
  <2> QED BY <1>1, <1>2, <1>5, <2>1 DEF SliceInv
<1> QED BY <1>3, <1>4

\* Moving one element by one slot moves the gap.
LEMMA ShiftSlice ==
  ASSUME SliceInv, ShiftHandler
  PROVE  SliceInv'
<1>1. PICK m : m = moving
  OBVIOUS
<1>2. /\ len \in Nat /\ m \in 1 .. len /\ m < len
      /\ moving' = m + 1
      /\ UNCHANGED <<len, changes, members>>
  BY <1>1 DEF ShiftHandler, Unlocked, SliceInv, history
<1>3. PICK old : old = Last(arrays)
  OBVIOUS
<1>4. PICK new : new = Last(arrays')
  OBVIOUS
<1>5. /\ arrays' \in Seq(Seq(Registrations \union {None}))
      /\ arrays' # << >> /\ arrays # << >>
      /\ Len(new) = Len(old)
      /\ new[m] = old[m + 1]
      /\ \A j \in 1 .. len : j # m => new[j] = old[j]
  <2>1. moving # 0 /\ moving < len
    BY <1>1, <1>2
  <2>2. /\ arrays' \in Seq(Seq(Registrations \union {None}))
        /\ Len(arrays') = Len(arrays)
        /\ Len(arrays') \in Nat \ {0}
        /\ \A a \in 1 .. Len(arrays) : Len(arrays'[a]) = Len(arrays[a])
        /\ arrays'[Len(arrays')][moving] = Last(arrays)[moving + 1]
        /\ \A j \in 1 .. len : j # moving
             => arrays'[Len(arrays')][j] = Last(arrays)[j]
    BY RemovalShifts DEF Shifted
  <2>3. new = arrays'[Len(arrays')] /\ old = arrays[Len(arrays)]
    BY <1>3, <1>4 DEF Last
  <2>4. Len(arrays) \in 1 .. Len(arrays)
    BY <2>2
  <2>5. Len(new) = Len(old)
    BY <2>2, <2>3, <2>4
  <2> QED BY <1>1, <1>3, <2>2, <2>3, <2>5
<1>6. Cap' = Cap
  BY <1>3, <1>4, <1>5 DEF Cap
<1>7. Kept = (1 .. len) \ {m} /\ Kept' = (1 .. len) \ {m + 1}
  BY <1>1, <1>2 DEF Kept
<1>8. /\ members = {old[j] : j \in (1 .. len) \ {m}}
      /\ \A j, k \in (1 .. len) \ {m} : old[j] = old[k] => j = k
      /\ \A j \in 1 .. len : old[j] \in Known
  BY <1>3, <1>7 DEF SliceInv
<1>9. m + 1 \in (1 .. len) \ {m} /\ m \in (1 .. len) \ {m + 1}
  BY <1>2
<1>10. \A j \in (1 .. len) \ {m + 1} :
         \/ j = m /\ new[j] = old[m + 1]
         \/ j \in (1 .. len) \ {m} /\ new[j] = old[j]
  BY <1>5
<1>11. members' = {new[j] : j \in (1 .. len) \ {m + 1}}
  <2>1. {new[j] : j \in (1 .. len) \ {m + 1}} \subseteq members
    BY <1>8, <1>9, <1>10
  <2>2. ASSUME NEW j \in (1 .. len) \ {m}
        PROVE  old[j] \in {new[k] : k \in (1 .. len) \ {m + 1}}
    <3>1. CASE j = m + 1
      BY <1>5, <1>9, <3>1
    <3>2. CASE j # m + 1
      BY <1>5, <3>2
    <3> QED BY <3>1, <3>2
  <2>3. members \subseteq {new[j] : j \in (1 .. len) \ {m + 1}}
    BY <1>8, <2>2
  <2> QED BY <1>2, <2>1, <2>3
<1>12. \A j, k \in (1 .. len) \ {m + 1} : new[j] = new[k] => j = k
  BY <1>8, <1>9, <1>10
<1>13. \A j \in 1 .. len : new[j] \in Known
  <2>1. m + 1 \in 1 .. len
    BY <1>2
  <2> QED BY <1>5, <1>8, <2>1
<1>14. len <= Cap /\ changes \in 0 .. MaxChanges /\ m + 1 \in 0 .. len
  BY <1>2 DEF SliceInv
<1>15. members' = {Last(arrays')[j] : j \in Kept'}
  BY <1>4, <1>7, <1>11
<1>16. \A j, k \in Kept' : Last(arrays')[j] = Last(arrays')[k] => j = k
  BY <1>4, <1>7, <1>12
<1>17. \A j \in 1 .. len' : Last(arrays')[j] \in Known'
  BY <1>2, <1>4, <1>13 DEF Known
<1> QED BY <1>2, <1>5, <1>6, <1>14, <1>15, <1>16, <1>17 DEF SliceInv

\* Shortening the slice closes the gap.
LEMMA EndSlice ==
  ASSUME SliceInv, UnRegisterEnd
  PROVE  SliceInv'
<1>1. /\ moving = len /\ len \in Nat \ {0}
      /\ len' = len - 1 /\ moving' = 0
      /\ UNCHANGED <<arrays, changes, members>>
  BY DEF UnRegisterEnd, Unlocked, SliceInv, history
<1>2. Kept' = Kept /\ Cap' = Cap /\ Cap \in Nat /\ Known' = Known
  BY <1>1 DEF Kept, Cap, Last, SliceInv, Known
<1> QED BY <1>1, <1>2 DEF SliceInv

\* No handler step shortens an array.
LEMMA HandlerWalk ==
  ASSUME SliceInv, WalkInv, UNCHANGED workerVars,
         \/ \E h \in Handlers : RegisterHandler(h)
         \/ ShiftHandler
         \/ UNCHANGED arrays
  PROVE  WalkInv'
<1>1. /\ Len(arrays) \in Nat /\ Len(arrays') \in Nat
      /\ Len(arrays') >= Len(arrays)
      /\ \A a \in 1 .. Len(arrays) : Len(arrays'[a]) = Len(arrays[a])
  <2>1. ASSUME NEW h \in Handlers, RegisterHandler(h)
        PROVE  <1>1!:
    BY <2>1, RegisterAppends DEF Adds, Appended, SliceInv
  <2>2. CASE ShiftHandler
    BY <2>2, RemovalShifts DEF Shifted, SliceInv
  <2>3. CASE UNCHANGED arrays
    BY <2>3 DEF SliceInv
  <2> QED BY <2>1, <2>2, <2>3
<1> QED BY <1>1 DEF WalkInv, workerVars

\* A worker's copy of the slice lies within the current array.
LEMMA WorkerWalk ==
  ASSUME Shape, SliceInv, WalkInv, NEW w \in Workers, Work(w)
  PROVE  WalkInv'
<1> SUFFICES ASSUME NEW x \in Workers
             PROVE  /\ wpc'[x] # "call" => task'[x].i = 1
                    /\ wpc'[x] = "call" =>
                         /\ task'[x].i \in 1 .. task'[x].n + 1
                         /\ task'[x].n > 0 =>
                              /\ task'[x].arr \in 1 .. Len(arrays')
                              /\ task'[x].n <= Len(arrays'[task'[x].arr])
  BY DEF WalkInv
<1>1. UNCHANGED arrays /\ task[w] \in Task
  BY DEF Work, ReceiveEvent, TakeHandlers, CallHandler, PutEvent, Return,
         handlerVars, Shape
<1>2. CASE x # w
  <2>1. task'[x] = task[x] /\ wpc'[x] = wpc[x]
    BY <1>2 DEF Work, ReceiveEvent, TakeHandlers, CallHandler, PutEvent, Return,
                Shape
  <2> QED BY <1>1, <2>1 DEF WalkInv
<1>3. CASE x = w
  <2>1. CASE ReceiveEvent(w)
    BY <1>3, <2>1 DEF ReceiveEvent, WalkInv, Shape, Task
  <2>2. CASE TakeHandlers(w)
    <3>1. /\ task'[w].i = task[w].i /\ task[w].i = 1
          /\ task'[w].n = len /\ task'[w].arr = Len(arrays)
          /\ wpc'[w] = "call"
      BY <2>2 DEF TakeHandlers, WalkInv, Shape, Task
    <3>2. /\ len \in Nat /\ Len(arrays) \in Nat
          /\ len > 0 => Len(arrays) > 0 /\ len <= Len(arrays[Len(arrays)])
      BY DEF SliceInv, Cap, Last
    <3> QED BY <1>1, <1>3, <3>1, <3>2
  <2>3. CASE CallHandler(w)
    <3>1. /\ task'[w].i = task[w].i + 1
          /\ task'[w].n = task[w].n /\ task'[w].arr = task[w].arr
          /\ wpc'[w] = "call" /\ wpc[w] = "call"
          /\ task[w].i <= task[w].n
      BY <2>3 DEF CallHandler, Shape, Task
    <3>2. task[w].i \in Nat /\ task[w].n \in Nat
      BY <1>1 DEF Task
    <3> QED BY <1>1, <1>3, <3>1, <3>2 DEF WalkInv
  <2>4. CASE PutEvent(w)
    BY <1>3, <2>4 DEF PutEvent, Return, NoTask, Shape
  <2> QED BY <2>1, <2>2, <2>3, <2>4 DEF Work
<1> QED BY <1>2, <1>3

-----------------------------------------------------------------------------

TypeInv == Shape /\ SliceInv /\ WalkInv

\* Every step keeps the types and the slice.
LEMMA NextType ==
  ASSUME TypeInv, [Next]_vars
  PROVE  TypeInv'
<1> USE DEF TypeInv
<1>1. ASSUME NEW p \in Publishers, GetEvent(p) \/ Proceed(p)
      PROVE  TypeInv'
  <2>1. UNCHANGED <<handlerVars, workerVars, members>>
    BY <1>1 DEF GetEvent, Proceed, FillEvent, Publish, PublishDiscards, history
  <2>2. SliceInv' /\ WalkInv'
    BY <2>1 DEF SliceInv, WalkInv, Kept, Cap, Known, handlerVars, workerVars
  <2> QED BY <1>1, <2>2, PublisherShape
<1>2. ASSUME NEW h \in Handlers,
             \/ RegisterHandler(h)
             \/ UnRegisterHandler(h)
             \/ UnRegisterAbsent(h)
      PROVE  TypeInv'
  <2>1. UNCHANGED <<free, content, publisherVars, eventChan, workerVars>>
    BY <1>2 DEF RegisterHandler, UnRegisterHandler, UnRegisterAbsent
  <2>2. Shape'
    BY <2>1 DEF Shape, publisherVars, workerVars
  <2>3. SliceInv'
    BY <1>2, RegisterSlice, UnRegisterSlice
  <2>4. WalkInv'
    BY <1>2, <2>1, HandlerWalk DEF UnRegisterHandler, UnRegisterAbsent
  <2> QED BY <2>2, <2>3, <2>4
<1>3. CASE ShiftHandler \/ UnRegisterEnd
  <2>1. UNCHANGED <<free, content, publisherVars, eventChan, workerVars>>
    BY <1>3 DEF ShiftHandler, UnRegisterEnd
  <2>2. Shape'
    BY <2>1 DEF Shape, publisherVars, workerVars
  <2>3. SliceInv'
    BY <1>3, ShiftSlice, EndSlice
  <2>4. WalkInv'
    BY <1>3, <2>1, HandlerWalk DEF UnRegisterEnd
  <2> QED BY <2>2, <2>3, <2>4
<1>4. ASSUME NEW w \in Workers, Work(w)
      PROVE  TypeInv'
  <2>1. UNCHANGED <<handlerVars, members>>
    BY <1>4 DEF Work, ReceiveEvent, TakeHandlers, CallHandler, PutEvent, Return,
                history
  <2>2. SliceInv'
    BY <2>1 DEF SliceInv, Kept, Cap, Known, handlerVars
  <2> QED BY <1>4, <2>2, WorkerShape, WorkerWalk
<1>5. CASE UNCHANGED vars
  BY <1>5 DEF vars, handlerVars, publisherVars, workerVars, history, Shape,
              SliceInv, WalkInv, Kept, Cap, Known
<1> QED BY <1>1, <1>2, <1>3, <1>4, <1>5 DEF Next

\* The event manager starts without handlers and events.
LEMMA InitType == Init => TypeInv
<1> SUFFICES ASSUME Init PROVE TypeInv
  OBVIOUS
<1>1. NoTask \in Task /\ NoTask.obj = None /\ NoTask.i = 1
  BY DEF NoTask, Task
<1>2. Shape
  BY <1>1, EventAssumption DEF Init, Shape
<1>3. Kept = {} /\ Cap = 0
  BY DEF Init, Kept, Cap
<1>4. SliceInv
  BY <1>3, EventAssumption DEF Init, SliceInv
<1>5. WalkInv
  BY <1>1 DEF Init, WalkInv
<1> QED BY <1>2, <1>4, <1>5 DEF TypeInv

\* The invariant gives the types of the event manager.
LEMMA TypeImplies == TypeInv => TypeOK
<1> SUFFICES ASSUME TypeInv PROVE TypeOK
  OBVIOUS
<1>1. \A k \in DOMAIN arrays : arrays[k] \in Seq(Registrations \union {None})
  BY DEF TypeInv, SliceInv
<1>2. len \in 0 .. Cap
  BY DEF TypeInv, SliceInv, Cap, Last
<1>3. Registered \subseteq Registrations /\ moving \in Nat
  BY DEF TypeInv, SliceInv, Registered, Known
<1> QED BY <1>1, <1>2, <1>3 DEF TypeInv, Shape, SliceInv, TypeOK

\* The slice of the handlers lies within its array and holds handlers only,
\* the channel within its buffer, and a worker has an object iff it is busy.
THEOREM TypeCorrect == Spec => []TypeOK
<1>1. Init => TypeInv
  BY InitType
<1>2. TypeInv /\ [Next]_vars => TypeInv'
  BY NextType
<1>3. TypeInv => TypeOK
  BY TypeImplies
<1> QED BY <1>1, <1>2, <1>3, PTL DEF Spec

-----------------------------------------------------------------------------
(* Every object has one owner.                                             *)

\* The publishers' steps move an object from the pool to the channel, or back.
LEMMA PublisherOwner ==
  ASSUME Shape, OwnerInv, NEW p \in Publishers, GetEvent(p) \/ Proceed(p)
  PROVE  OwnerInv'
<1>1. UNCHANGED workerVars /\ InWork' = InWork
  BY DEF GetEvent, Proceed, FillEvent, Publish, PublishDiscards, InWork,
         workerVars
<1>2. CASE GetEvent(p)
  <2>1. PICK o \in free : /\ held' = [held EXCEPT ![p] = o]
                          /\ free' = free \ {o}
    BY <1>2 DEF GetEvent
  <2>2. UNCHANGED eventChan
    BY <1>2 DEF GetEvent
  <2>3. o # None /\ held[p] = None /\ o \notin InHands
    BY <1>2, EventAssumption DEF GetEvent, Shape, OwnerInv, OneOwner
  <2>4. InHands' = InHands \union {o}
    BY <2>1, <2>3 DEF InHands, Shape
  <2>5. \A q \in Publishers : held[q] # o
    BY <2>3 DEF InHands
  <2>6. \A q, r \in Publishers : held'[q] = held'[r] => q = r \/ held'[q] = None
    BY <2>1, <2>5 DEF OwnerInv, Shape
  <2> QED BY <1>1, <2>1, <2>2, <2>4, <2>6 DEF OwnerInv, OneOwner, workerVars
<1>3. CASE FillEvent(p)
  <2>1. UNCHANGED <<free, held, eventChan>> /\ InHands' = InHands
    BY <1>3 DEF FillEvent, InHands
  <2> QED BY <1>1, <2>1 DEF OwnerInv, OneOwner, workerVars
<1>4. CASE Publish(p) \/ PublishDiscards(p)
  <2> DEFINE o == held[p]
  <2>1. held' = [held EXCEPT ![p] = None]
    BY <1>4 DEF Publish, PublishDiscards, LetGo
  <2>2. o \in Objs /\ o # None
    BY <1>4, EventAssumption DEF Publish, PublishDiscards, Shape
  <2>3. /\ \A q \in Publishers : q # p => held'[q] = held[q] /\ held[q] # o
        /\ held'[p] = None
    BY <2>1, <2>2 DEF OwnerInv, Shape
  <2>4. InHands' = InHands \ {o} /\ o \in InHands
    BY <2>2, <2>3 DEF InHands
  <2>5. \A q, r \in Publishers : held'[q] = held'[r] => q = r \/ held'[q] = None
    BY <2>3 DEF OwnerInv
  <2>6. CASE Publish(p)
    <3>1. eventChan' = Append(eventChan, o) /\ UNCHANGED free
      BY <2>6 DEF Publish
    <3>2. /\ eventChan \in Seq(Objs) /\ o \notin ToSet(eventChan)
          /\ \A i, j \in DOMAIN eventChan : eventChan[i] = eventChan[j] => i = j
      BY <2>4 DEF Shape, OwnerInv, OneOwner, IsInjective
    <3>3. /\ ToSet(eventChan') = ToSet(eventChan) \union {o}
          /\ IsInjective(eventChan')
      BY <2>2, <3>1, <3>2, AppendOwner DEF IsInjective
    <3> QED BY <1>1, <2>4, <2>5, <3>1, <3>3 DEF OwnerInv, OneOwner, workerVars
  <2>7. CASE PublishDiscards(p)
    <3>1. free' = free \union {o} /\ UNCHANGED eventChan
      BY <2>7 DEF PublishDiscards
    <3> QED BY <1>1, <2>4, <2>5, <3>1 DEF OwnerInv, OneOwner, workerVars
  <2> QED BY <1>4, <2>6, <2>7
<1> QED BY <1>2, <1>3, <1>4 DEF Proceed

\* A worker takes the head of the channel ...
LEMMA ReceiveOwner ==
  ASSUME Shape, OwnerInv, NEW w \in Workers, ReceiveEvent(w)
  PROVE  /\ OwnerInv'
         /\ Head(eventChan) \in ToSet(eventChan)
         /\ Queued' = Queued
<1> DEFINE o == Head(eventChan)
<1>1. /\ eventChan' = Tail(eventChan) /\ eventChan # << >>
      /\ UNCHANGED <<free, held>>
      /\ wpc[w] = "idle"
      /\ task' = [task EXCEPT ![w].obj = o]
  BY DEF ReceiveEvent, publisherVars
<1>2. /\ eventChan \in Seq(Objs)
      /\ \A i, j \in DOMAIN eventChan : eventChan[i] = eventChan[j] => i = j
  BY DEF Shape, OwnerInv, OneOwner, IsInjective
<1>3. /\ o \in Objs /\ o \in ToSet(eventChan)
      /\ ToSet(eventChan') = ToSet(eventChan) \ {o}
      /\ IsInjective(eventChan')
  BY <1>1, <1>2, TailOwner DEF IsInjective
<1> HIDE DEF o
<1>4. o # None /\ task[w].obj = None
  BY <1>1, <1>3, EventAssumption DEF Shape
<1>5. /\ \A x \in Workers : x # w => task'[x] = task[x]
      /\ task'[w].obj = o
  BY <1>1 DEF Shape, Task
<1>6. InWork' = InWork \union {o}
  BY <1>4, <1>5 DEF InWork
<1>7. o \notin InWork
  BY <1>3 DEF OwnerInv, OneOwner
<1>8. \A x \in Workers : task[x].obj # o
  BY <1>4, <1>7 DEF InWork
<1>9. \A x, y \in Workers : task'[x].obj = task'[y].obj
                              => x = y \/ task'[x].obj = None
  BY <1>5, <1>8 DEF OwnerInv, OneOwner
<1>10. InHands' = InHands
  BY <1>1 DEF InHands
<1>11. OwnerInv'
  BY <1>1, <1>3, <1>6, <1>9, <1>10 DEF OwnerInv, OneOwner
<1>12. Queued' = Queued
  BY <1>3, <1>6 DEF Queued
<1> QED BY <1>3, <1>11, <1>12 DEF o

\* ... and puts it into the pool when it is done.
LEMMA PutOwner ==
  ASSUME Shape, OwnerInv, NEW w \in Workers, PutEvent(w)
  PROVE  /\ OwnerInv'
         /\ task[w].obj \in InWork
         /\ Queued' = Queued \ {task[w].obj}
<1> DEFINE o == task[w].obj
<1>1. /\ free' = free \union {o} /\ wpc[w] = "call"
      /\ UNCHANGED <<eventChan, held>>
      /\ task' = [task EXCEPT ![w] = NoTask]
  BY DEF PutEvent, Return, publisherVars
<1>2. o \in Objs /\ o # None
  BY <1>1, EventAssumption DEF Shape, Task
<1>3. /\ \A x \in Workers : x # w => task'[x] = task[x] /\ task[x].obj # o
      /\ task'[w].obj = None
  BY <1>1, <1>2 DEF Shape, NoTask, OwnerInv, OneOwner
<1>4. InWork' = InWork \ {o} /\ o \in InWork
  BY <1>2, <1>3 DEF InWork
<1>5. \A x, y \in Workers : task'[x].obj = task'[y].obj
                              => x = y \/ task'[x].obj = None
  BY <1>3 DEF OwnerInv, OneOwner
<1>6. InHands' = InHands
  BY <1>1 DEF InHands
<1> HIDE DEF o
<1>7. OwnerInv'
  BY <1>1, <1>4, <1>5, <1>6 DEF OwnerInv, OneOwner
<1>8. o \notin ToSet(eventChan)
  BY <1>4 DEF OwnerInv, OneOwner
<1>9. Queued' = Queued \ {o}
  BY <1>1, <1>4, <1>8 DEF Queued
<1> QED BY <1>4, <1>7, <1>9 DEF o

\* In between, the object stays with the worker.
LEMMA WalkOwner ==
  ASSUME Shape, OwnerInv, NEW w \in Workers, TakeHandlers(w) \/ CallHandler(w)
  PROVE  /\ OwnerInv'
         /\ Queued' = Queued
         /\ \A x \in Workers : task'[x].obj = task[x].obj
<1>1. UNCHANGED <<free, eventChan, held>>
  BY DEF TakeHandlers, CallHandler, publisherVars
<1>2. \A x \in Workers : task'[x].obj = task[x].obj
  <2>1. CASE TakeHandlers(w)
    BY <2>1 DEF TakeHandlers, Shape, Task
  <2>2. CASE CallHandler(w)
    BY <2>2 DEF CallHandler, Shape, Task
  <2> QED BY <2>1, <2>2
<1>3. InWork' = InWork /\ InHands' = InHands
  BY <1>1, <1>2 DEF InWork, InHands
<1> QED BY <1>1, <1>2, <1>3 DEF OwnerInv, OneOwner, Queued

\* Every step keeps the owners.
LEMMA NextOwner ==
  ASSUME TypeInv, OwnerInv, [Next]_vars
  PROVE  OwnerInv'
<1>1. ASSUME NEW p \in Publishers, GetEvent(p) \/ Proceed(p)
      PROVE  OwnerInv'
  BY <1>1, PublisherOwner DEF TypeInv
<1>2. ASSUME NEW w \in Workers, Work(w)
      PROVE  OwnerInv'
  BY <1>2, ReceiveOwner, PutOwner, WalkOwner DEF TypeInv, Work
<1>3. CASE UNCHANGED <<free, held, eventChan, task>>
  <2>1. InHands' = InHands /\ InWork' = InWork
    BY <1>3 DEF InHands, InWork
  <2> QED BY <1>3, <2>1 DEF OwnerInv, OneOwner
<1>4. ASSUME NEW h \in Handlers,
             \/ RegisterHandler(h)
             \/ UnRegisterHandler(h)
             \/ UnRegisterAbsent(h)
      PROVE  OwnerInv'
  BY <1>3, <1>4 DEF RegisterHandler, UnRegisterHandler, UnRegisterAbsent,
                    publisherVars, workerVars
<1>5. CASE ShiftHandler \/ UnRegisterEnd \/ UNCHANGED vars
  BY <1>3, <1>5 DEF ShiftHandler, UnRegisterEnd, vars, publisherVars, workerVars
<1> QED BY <1>1, <1>2, <1>4, <1>5 DEF Next

\* At first every object is free.
LEMMA InitOwner == Init => OwnerInv
<1> SUFFICES ASSUME Init PROVE OwnerInv
  OBVIOUS
<1>1. InHands = {} /\ InWork = {} /\ ToSet(eventChan) = {}
  BY DEF Init, InHands, InWork, NoTask, ToSet
<1>2. IsInjective(eventChan)
  BY DEF Init, IsInjective
<1> QED BY <1>1, <1>2 DEF Init, OwnerInv, OneOwner, NoTask

\* A KeyEvent is in one place only, however many goroutines publish and work:
\* none in the pool is on the channel, before a handler or with another
\* goroutine.
THEOREM OwnerHolds == Spec => []OneOwner
<1> DEFINE Inv == TypeInv /\ OwnerInv
<1>1. Init => Inv
  BY InitType, InitOwner
<1>2. Inv /\ [Next]_vars => Inv'
  BY NextType, NextOwner
<1>3. Inv => OneOwner
  BY DEF OwnerInv
<1> QED BY <1>1, <1>2, <1>3, PTL DEF Spec
-----------------------------------------------------------------------------
(* Every event is in one object.                                           *)

\* Of the publishers' steps, Publish alone adds to the objects to be handled,
\* and none changes what these hold.
LEMMA PublisherQueued ==
  ASSUME Shape, OwnerInv, NEW p \in Publishers, GetEvent(p) \/ Proceed(p)
  PROVE  /\ UNCHANGED <<workerVars, done, called, members, removals, arrays, len,
                        moving>>
         /\ Publish(p) => Queued' = Queued \union {held[p]} /\ held[p] \in Objs
         /\ ~Publish(p) => Queued' = Queued
                           /\ UNCHANGED <<accepted, due, since>>
         /\ \A o \in Queued : content'[o] = content[o] /\ o # held[p]
<1>1. UNCHANGED <<workerVars, done, called, members, removals, arrays, len,
                  moving>>
  BY DEF GetEvent, Proceed, FillEvent, Publish, PublishDiscards, history,
         handlerVars
<1>2. InWork' = InWork
  BY <1>1 DEF InWork, workerVars
<1>3. ASSUME Publish(p)
      PROVE  Queued' = Queued \union {held[p]} /\ held[p] \in Objs
  <2>1. held[p] \in Objs /\ held[p] # None
    BY <1>3, EventAssumption DEF Publish, Shape
  <2>2. held[p] \in InHands
    BY <2>1 DEF InHands
  <2>3. /\ eventChan \in Seq(Objs) /\ held[p] \notin ToSet(eventChan)
        /\ \A i, j \in DOMAIN eventChan : eventChan[i] = eventChan[j] => i = j
    BY <2>2 DEF Shape, OwnerInv, OneOwner, IsInjective
  <2>4. ToSet(eventChan') = ToSet(eventChan) \union {held[p]}
    BY <1>3, <2>1, <2>3, AppendOwner DEF Publish
  <2> QED BY <1>2, <2>1, <2>4 DEF Queued
<1>4. ASSUME ~Publish(p)
      PROVE  Queued' = Queued /\ UNCHANGED <<accepted, due, since>>
  BY <1>2, <1>4 DEF GetEvent, Proceed, FillEvent, PublishDiscards, Queued,
                    history
<1>5. ASSUME NEW o \in Queued
      PROVE  content'[o] = content[o] /\ o # held[p]
  <2>1. o \in Objs /\ None \notin Objs
    BY ShapeFacts DEF Queued
  <2>2. o # held[p]
    BY <2>1 DEF Queued, OwnerInv, OneOwner, InHands
  <2> QED BY <2>1, <2>2 DEF GetEvent, Proceed, FillEvent, Publish,
                            PublishDiscards, Shape
<1> QED BY <1>1, <1>3, <1>4, <1>5

\* The publishers number the events and write each into an object.
LEMMA PublisherEvent ==
  ASSUME Shape, OwnerInv, EventInv, NEW p \in Publishers,
         GetEvent(p) \/ Proceed(p)
  PROVE  EventInv'
<1>1. /\ UNCHANGED done
      /\ Publish(p) => Queued' = Queued \union {held[p]}
      /\ ~Publish(p) => Queued' = Queued /\ UNCHANGED accepted
      /\ \A o \in Queued : content'[o] = content[o] /\ o # held[p]
  BY PublisherQueued
<1>2. events \in Nat
  BY EventAssumption DEF Shape
<1>3. CASE GetEvent(p)
  <2>1. /\ events' = events + 1
        /\ arg' = [arg EXCEPT ![p] = events + 1]
        /\ pc' = [pc EXCEPT ![p] = "fill"]
        /\ UNCHANGED <<content, accepted>>
    BY <1>3 DEF GetEvent, history
  <2>2. Queued' = Queued
    BY <1>1, <1>3 DEF GetEvent, Publish
  <2>3. /\ \A q \in Publishers : q # p => /\ pc'[q] = pc[q]
                                          /\ arg'[q] = arg[q]
                                          /\ held'[q] = held[q]
        /\ pc'[p] = "fill" /\ arg'[p] = events + 1
    BY <1>3, <2>1 DEF Shape, GetEvent
  <2>4. events + 1 \notin accepted /\ 1 .. events \subseteq 1 .. events + 1
    BY <1>2 DEF EventInv
  <2>5. \A q \in Publishers : pc'[q] # "idle"
                                => arg'[q] \in (1 .. events') \ accepted'
    BY <1>2, <2>1, <2>3, <2>4 DEF EventInv
  <2>6. \A q, r \in Publishers :
          pc'[q] # "idle" /\ pc'[r] # "idle" /\ arg'[q] = arg'[r] => q = r
    BY <1>2, <2>3 DEF EventInv
  <2>7. \A q \in Publishers : pc'[q] = "publish" => content'[held'[q]] = arg'[q]
    BY <2>1, <2>3 DEF EventInv
  <2>8. accepted' \subseteq 1 .. events' /\ done' \subseteq accepted'
    BY <1>1, <2>1, <2>4 DEF EventInv
  <2>9. /\ \A o \in Queued' : content'[o] \in accepted' \ done'
        /\ \A o, q \in Queued' : content'[o] = content'[q] => o = q
    BY <1>1, <2>1, <2>2 DEF EventInv
  <2> QED BY <2>5, <2>6, <2>7, <2>8, <2>9 DEF EventInv
<1>4. CASE FillEvent(p)
  <2>1. /\ pc[p] = "fill" /\ pc' = [pc EXCEPT ![p] = "publish"]
        /\ content' = [content EXCEPT ![held[p]] = arg[p]]
        /\ UNCHANGED <<held, arg, events, accepted>>
    BY <1>4 DEF FillEvent, history
  <2>2. Queued' = Queued
    BY <1>1, <1>4 DEF FillEvent, Publish
  <2>3. held[p] \in Objs /\ held[p] # None
    BY <2>1, EventAssumption DEF Shape
  <2>4. /\ content'[held[p]] = arg[p]
        /\ \A q \in Publishers : pc[q] = "publish"
                                   => content'[held[q]] = content[held[q]]
    BY <2>1, <2>3, EventAssumption DEF Shape, OwnerInv
  <2>5. \A q \in Publishers : q # p => pc'[q] = pc[q]
    BY <2>1 DEF Shape
  <2>6. \A q \in Publishers : pc'[q] = "publish" => content'[held'[q]] = arg'[q]
    BY <2>1, <2>4, <2>5 DEF EventInv
  <2>7. \A q \in Publishers : pc'[q] # "idle" <=> pc[q] # "idle"
    BY <2>1 DEF Shape
  <2>8. /\ \A o \in Queued' : content'[o] \in accepted' \ done'
        /\ \A o, q \in Queued' : content'[o] = content'[q] => o = q
    BY <1>1, <2>1, <2>2 DEF EventInv
  <2>9. /\ \A q \in Publishers : pc'[q] # "idle"
                                   => arg'[q] \in (1 .. events') \ accepted'
        /\ \A q, r \in Publishers :
             pc'[q] # "idle" /\ pc'[r] # "idle" /\ arg'[q] = arg'[r] => q = r
    BY <2>1, <2>7 DEF EventInv
  <2> QED BY <1>1, <2>1, <2>6, <2>8, <2>9 DEF EventInv
<1>5. CASE Publish(p) \/ PublishDiscards(p)
  <2>1. /\ pc[p] = "publish" /\ pc' = [pc EXCEPT ![p] = "idle"]
        /\ held' = [held EXCEPT ![p] = None] /\ arg' = [arg EXCEPT ![p] = 0]
        /\ UNCHANGED <<content, events>>
    BY <1>5 DEF Publish, PublishDiscards, LetGo
  <2>2. /\ accepted \subseteq accepted'
        /\ accepted' \subseteq accepted \union {arg[p]}
        /\ Publish(p) => arg[p] \in accepted'
    BY <1>1, <1>5 DEF Publish
  <2>3. /\ \A q \in Publishers : q # p => /\ pc'[q] = pc[q]
                                          /\ arg'[q] = arg[q]
                                          /\ held'[q] = held[q]
        /\ pc'[p] = "idle"
    BY <2>1 DEF Shape
  <2>4. arg[p] \in (1 .. events) \ accepted /\ content[held[p]] = arg[p]
        /\ arg[p] \notin done
    BY <2>1 DEF EventInv
  <2>5. \A q \in Publishers : q # p /\ pc[q] # "idle" => arg[q] # arg[p]
    BY <2>1 DEF EventInv
  <2>6. \A q \in Publishers : pc'[q] # "idle"
                                => arg'[q] \in (1 .. events') \ accepted'
    BY <2>1, <2>2, <2>3, <2>5 DEF EventInv
  <2>7. /\ \A q, r \in Publishers :
             pc'[q] # "idle" /\ pc'[r] # "idle" /\ arg'[q] = arg'[r] => q = r
        /\ \A q \in Publishers : pc'[q] = "publish"
                                   => content'[held'[q]] = arg'[q]
    BY <2>1, <2>3 DEF EventInv
  <2>8. accepted' \subseteq 1 .. events' /\ done' \subseteq accepted'
    BY <1>1, <2>1, <2>2, <2>4 DEF EventInv
  <2>9. ASSUME NEW o \in Queued'
        PROVE  /\ content'[o] \in accepted' \ done'
               /\ o \in Queued \/ (o = held[p] /\ content'[o] = arg[p])
    <3>1. CASE o \in Queued
      BY <1>1, <2>1, <2>2, <3>1 DEF EventInv
    <3>2. CASE o \notin Queued
      <4>1. Publish(p) /\ o = held[p]
        BY <1>1, <3>2
      <4> QED BY <1>1, <2>1, <2>2, <2>4, <4>1
    <3> QED BY <3>1, <3>2
  <2>10. \A o \in Queued : content'[o] # arg[p]
    BY <1>1, <2>4 DEF EventInv
  <2>11. \A o, q \in Queued' : content'[o] = content'[q] => o = q
    BY <2>1, <2>9, <2>10 DEF EventInv
  <2> QED BY <2>6, <2>7, <2>8, <2>9, <2>11 DEF EventInv
<1> QED BY <1>3, <1>4, <1>5 DEF Proceed

\* A worker's event is accepted and not done with.
LEMMA WorkerEvent ==
  ASSUME Shape, EventInv, NEW w \in Workers, wpc[w] # "idle"
  PROVE  /\ task[w].obj \in Queued
         /\ content[task[w].obj] \in accepted \ done
         /\ content[task[w].obj] \in Events
<1>1. task[w].obj \in InWork
  BY DEF Shape, InWork
<1>2. accepted \subseteq Events
  BY EventAssumption DEF EventInv, Shape, Events
<1> QED BY <1>1, <1>2 DEF EventInv, Queued

\* Every step keeps each event in one object.
LEMMA NextEvent ==
  ASSUME TypeInv, OwnerInv, EventInv, [Next]_vars
  PROVE  EventInv'
<1>1. Shape
  BY DEF TypeInv
<1>2. ASSUME NEW p \in Publishers, GetEvent(p) \/ Proceed(p)
      PROVE  EventInv'
  BY <1>1, <1>2, PublisherEvent
<1>3. CASE Queued' = Queued /\ UNCHANGED <<content, publisherVars, accepted, done>>
  BY <1>3 DEF EventInv, publisherVars
<1>4. ASSUME NEW w \in Workers, Work(w)
      PROVE  EventInv'
  <2>1. CASE ReceiveEvent(w)
    BY <1>1, <1>3, <2>1, ReceiveOwner DEF ReceiveEvent, history
  <2>2. CASE TakeHandlers(w) \/ CallHandler(w)
    BY <1>1, <1>3, <2>2, WalkOwner DEF TakeHandlers, CallHandler, history
  <2>3. CASE PutEvent(w)
    <3>1. PICK o : o = task[w].obj
      OBVIOUS
    <3>2. /\ UNCHANGED <<content, publisherVars, accepted>>
          /\ done' = done \union {content[o]} /\ wpc[w] = "call"
      BY <2>3, <3>1 DEF PutEvent, Return
    <3>3. Queued' = Queued \ {o}
      BY <1>1, <2>3, <3>1, PutOwner
    <3>4. o \in Queued /\ content[o] \in accepted
      BY <1>1, <3>1, <3>2, WorkerEvent
    <3>5. /\ \A q \in Queued' : content'[q] \in accepted' \ done'
          /\ \A q, r \in Queued' : content'[q] = content'[r] => q = r
      BY <3>2, <3>3, <3>4 DEF EventInv
    <3> QED BY <3>2, <3>4, <3>5 DEF EventInv, publisherVars
  <2> QED BY <1>4, <2>1, <2>2, <2>3 DEF Work
<1>5. CASE UNCHANGED <<content, publisherVars, eventChan, workerVars, accepted, done>>
  <2>1. Queued' = Queued
    BY <1>5 DEF Queued, InWork, workerVars
  <2> QED BY <1>3, <1>5, <2>1
<1>6. ASSUME NEW h \in Handlers,
             \/ RegisterHandler(h)
             \/ UnRegisterHandler(h)
             \/ UnRegisterAbsent(h)
      PROVE  EventInv'
  BY <1>5, <1>6 DEF RegisterHandler, UnRegisterHandler, UnRegisterAbsent
<1>7. CASE ShiftHandler \/ UnRegisterEnd \/ UNCHANGED vars
  BY <1>5, <1>7 DEF ShiftHandler, UnRegisterEnd, vars, history
<1> QED BY <1>2, <1>4, <1>6, <1>7 DEF Next
-----------------------------------------------------------------------------
(* Only handlers registered since its publication are called with an       *)
(* event.                                                                  *)

\* The slots a worker walks through are slots of the arrays.
LEMMA WalkSlot ==
  ASSUME Shape, SliceInv, WalkInv, NEW w \in Workers, wpc[w] = "call",
         NEW j \in 1 .. task[w].n
  PROVE  /\ task[w].arr \in 1 .. Len(arrays)
         /\ j \in 1 .. Len(arrays[task[w].arr])
<1>1. task[w].n \in Nat /\ task[w].n > 0
  BY DEF Shape, Task
<1>2. task[w].arr \in 1 .. Len(arrays) /\ task[w].n <= Len(arrays[task[w].arr])
  BY <1>1 DEF WalkInv
<1>3. Len(arrays[task[w].arr]) \in Nat
  BY <1>2 DEF SliceInv
<1> QED BY <1>1, <1>2, <1>3

\* Publish starts with the handlers of the moment.
LEMMA PublisherSince ==
  ASSUME Shape, OwnerInv, EventInv, SliceInv, SinceInv, NEW p \in Publishers,
         GetEvent(p) \/ Proceed(p)
  PROVE  SinceInv'
<1>1. /\ UNCHANGED <<workerVars, called, members, arrays>>
      /\ ~Publish(p) => UNCHANGED <<accepted, since>>
      /\ \A o \in Queued : content'[o] = content[o]
  BY PublisherQueued
<1>2. \A w \in Workers : wpc[w] # "idle" =>
        /\ content'[task[w].obj] = content[task[w].obj]
        /\ content[task[w].obj] \in accepted
  BY <1>1, WorkerEvent
<1>3. CASE ~Publish(p)
  BY <1>1, <1>2, <1>3 DEF SinceInv, workerVars, CalledOnlyIfRegistered
<1>4. CASE Publish(p)
  <2>1. PICK e : e = arg[p]
    OBVIOUS
  <2>2. e \in Events /\ e \notin accepted
    BY <1>4, <2>1 DEF Publish, Shape, EventInv
  <2>3. members \subseteq Registrations
    BY DEF SliceInv, Kept, Known
  <2>4. /\ accepted' = accepted \union {e}
        /\ since' = [since EXCEPT ![e] = members]
    BY <1>4, <2>1 DEF Publish
  <2>5. /\ since' \in [Events -> SUBSET Registrations]
        /\ since'[e] = members
        /\ \A f \in Events : f # e => since'[f] = since[f]
    BY <2>2, <2>3, <2>4 DEF SinceInv
  <2>6. accepted \subseteq Events
    BY EventAssumption DEF EventInv, Shape, Events
  <2>7. \A f \in accepted' : members' \subseteq since'[f]
    BY <1>1, <2>4, <2>5, <2>6 DEF SinceInv
  <2>8. \A w \in Workers : wpc'[w] = "call" =>
          \A j \in 1 .. task'[w].n :
            arrays'[task'[w].arr][j] \in since'[content'[task'[w].obj]]
    <3>1. ASSUME NEW w \in Workers, wpc[w] = "call", NEW j \in 1 .. task[w].n
          PROVE  arrays[task[w].arr][j] \in since'[content'[task[w].obj]]
      <4>1. /\ content'[task[w].obj] = content[task[w].obj]
            /\ content[task[w].obj] \in accepted
        BY <1>2, <3>1
      <4>2. since'[content[task[w].obj]] = since[content[task[w].obj]]
        BY <2>2, <2>5, <2>6, <4>1
      <4>3. arrays[task[w].arr][j] \in since[content[task[w].obj]]
        BY <3>1 DEF SinceInv
      <4> QED BY <4>1, <4>2, <4>3
    <3> QED BY <1>1, <3>1 DEF workerVars
  <2>9. \A f \in Events, h \in Registrations : called'[f][h] > 0 => h \in since'[f]
    BY <1>1, <2>2, <2>5 DEF SinceInv, CalledOnlyIfRegistered
  <2>10. \A f \in Events \ accepted', h \in Registrations : called'[f][h] = 0
    BY <1>1, <2>4 DEF SinceInv
  <2> QED BY <1>1, <2>5, <2>7, <2>8, <2>9, <2>10
          DEF SinceInv, CalledOnlyIfRegistered
<1> QED BY <1>3, <1>4

\* RegisterHandler may show its handler to workers that have their slice.
LEMMA RegisterSince ==
  ASSUME Shape, EventInv, SliceInv, WalkInv, SinceInv,
         NEW h \in Handlers, RegisterHandler(h)
  PROVE  SinceInv'
<1> PICK g \in Registrations : Adds(g)
  BY RegisterAppends
<1>1. /\ UNCHANGED <<content, workerVars, accepted, called>>
      /\ members' = members \union {g}
      /\ since' = [e \in Events |-> IF e \in accepted THEN since[e] \union {g}
                                    ELSE since[e]]
  BY DEF RegisterHandler, Adds
<1>2. accepted \subseteq Events
  BY EventAssumption DEF EventInv, Shape, Events
<1>3. /\ since' \in [Events -> SUBSET Registrations]
      /\ \A e \in Events : since[e] \subseteq since'[e]
      /\ \A e \in accepted : g \in since'[e]
  BY <1>1, <1>2 DEF SinceInv
<1>4. \A e \in accepted : members' \subseteq since'[e]
  BY <1>1, <1>2, <1>3 DEF SinceInv
<1>5. ASSUME NEW w \in Workers, wpc[w] = "call", NEW j \in 1 .. task[w].n
      PROVE  arrays'[task[w].arr][j] \in since'[content[task[w].obj]]
  <2>1. /\ content[task[w].obj] \in accepted
        /\ content[task[w].obj] \in Events
    BY <1>5, WorkerEvent
  <2>2. arrays[task[w].arr][j] \in since[content[task[w].obj]]
    BY <1>5 DEF SinceInv
  <2>3. task[w].arr \in 1 .. Len(arrays) /\ j \in 1 .. Len(arrays[task[w].arr])
    BY <1>5, WalkSlot
  <2>4. \/ arrays'[task[w].arr][j] = arrays[task[w].arr][j]
        \/ arrays'[task[w].arr][j] = g
    BY <2>3 DEF Adds, Appended
  <2> QED BY <1>3, <2>1, <2>2, <2>4
<1>6. \A e \in Events, k \in Registrations : called'[e][k] > 0 => k \in since'[e]
  BY <1>1, <1>3 DEF SinceInv, CalledOnlyIfRegistered
<1> QED BY <1>1, <1>3, <1>4, <1>5, <1>6
        DEF SinceInv, CalledOnlyIfRegistered, workerVars

\* UnRegisterHandler may show a worker a handler again, or another that is
\* registered still.
LEMMA ShiftSince ==
  ASSUME Shape, EventInv, SliceInv, WalkInv, SinceInv, ShiftHandler
  PROVE  SinceInv'
<1>1. /\ UNCHANGED <<content, workerVars, accepted, called, members, since>>
      /\ moving # 0 /\ moving < len
  BY DEF ShiftHandler, history, Unlocked
<1>2. PICK x : x = Last(arrays)[moving + 1]
  OBVIOUS
<1>3. x \in members
  <2>1. moving + 1 \in Kept
    BY <1>1 DEF SliceInv, Kept
  <2> QED BY <1>2, <2>1 DEF SliceInv
<1>4. ASSUME NEW w \in Workers, wpc[w] = "call", NEW j \in 1 .. task[w].n
      PROVE  arrays'[task[w].arr][j] \in since[content[task[w].obj]]
  <2>1. content[task[w].obj] \in accepted
    BY <1>4, WorkerEvent
  <2>2. arrays[task[w].arr][j] \in since[content[task[w].obj]]
    BY <1>4 DEF SinceInv
  <2>3. task[w].arr \in 1 .. Len(arrays) /\ j \in 1 .. Len(arrays[task[w].arr])
    BY <1>4, WalkSlot
  <2>5. \/ arrays'[task[w].arr][j] = arrays[task[w].arr][j]
        \/ arrays'[task[w].arr][j] = x
    BY <1>2, <2>3, RemovalShifts DEF Shifted
  <2> QED BY <1>3, <2>1, <2>2, <2>5 DEF SinceInv
<1> QED BY <1>1, <1>4 DEF SinceInv, CalledOnlyIfRegistered, workerVars

\* The workers take and call handlers registered since.
LEMMA WorkerSince ==
  ASSUME Shape, EventInv, SliceInv, WalkInv, SinceInv, NEW w \in Workers, Work(w)
  PROVE  SinceInv'
<1>1. UNCHANGED <<content, accepted, members, since, arrays>>
  BY DEF Work, ReceiveEvent, TakeHandlers, CallHandler, PutEvent, Return,
         handlerVars, history
<1>2. \A x \in Workers : x # w => task'[x] = task[x] /\ wpc'[x] = wpc[x]
  BY DEF Work, ReceiveEvent, TakeHandlers, CallHandler, PutEvent, Return, Shape
<1>3. CASE ReceiveEvent(w) \/ PutEvent(w)
  <2>1. wpc'[w] # "call" /\ UNCHANGED called
    BY <1>3 DEF ReceiveEvent, PutEvent, Return, Shape, history
  <2>2. \A x \in Workers : wpc'[x] = "call" =>
          \A j \in 1 .. task'[x].n :
            arrays'[task'[x].arr][j] \in since'[content'[task'[x].obj]]
    BY <1>1, <1>2, <2>1 DEF SinceInv
  <2> QED BY <1>1, <2>1, <2>2 DEF SinceInv, CalledOnlyIfRegistered
<1>4. CASE TakeHandlers(w)
  <2>1. /\ task'[w].arr = Len(arrays) /\ task'[w].n = len
        /\ task'[w].obj = task[w].obj
        /\ wpc[w] = "look" /\ moving = 0 /\ UNCHANGED called
    BY <1>4 DEF TakeHandlers, Shape, Task, Unlocked, history
  <2>2. content[task[w].obj] \in accepted
    BY <2>1, WorkerEvent
  <2>3. \A j \in 1 .. len : Last(arrays)[j] \in members
    <3>1. Kept = 1 .. len
      BY <2>1 DEF Kept
    <3> QED BY <3>1 DEF SliceInv
  <2>4. \A j \in 1 .. len : arrays[Len(arrays)][j] \in since[content[task[w].obj]]
    BY <2>2, <2>3 DEF SinceInv, Last
  <2>5. \A x \in Workers : wpc'[x] = "call" =>
          \A j \in 1 .. task'[x].n :
            arrays'[task'[x].arr][j] \in since'[content'[task'[x].obj]]
    BY <1>1, <1>2, <2>1, <2>4 DEF SinceInv
  <2> QED BY <1>1, <2>1, <2>5 DEF SinceInv, CalledOnlyIfRegistered
<1>5. CASE CallHandler(w)
  <2>1. PICK e, h : /\ e = content[task[w].obj]
                    /\ h = arrays[task[w].arr][task[w].i]
    OBVIOUS
  <2>2. /\ wpc[w] = "call" /\ task[w].i <= task[w].n
        /\ called' = [called EXCEPT ![e][h] = @ + 1]
        /\ task'[w].arr = task[w].arr /\ task'[w].n = task[w].n
        /\ task'[w].obj = task[w].obj /\ UNCHANGED wpc
    BY <1>5, <2>1 DEF CallHandler, Shape, Task
  <2>3. e \in accepted /\ e \in Events
    BY <2>1, <2>2, WorkerEvent
  <2>4. h \in since[e]
    <3>1. task[w].i \in 1 .. task[w].n
      BY <2>2 DEF WalkInv, Shape, Task
    <3> QED BY <2>1, <2>2, <3>1 DEF SinceInv
  <2>5. h \in Registrations
    BY <2>3, <2>4 DEF SinceInv
  <2>6. /\ called' \in [Events -> [Registrations -> Nat]]
        /\ \A f \in Events, k \in Registrations :
             f # e \/ k # h => called'[f][k] = called[f][k]
    BY <2>2, <2>3, <2>5 DEF SinceInv
  <2>7. \A f \in Events, k \in Registrations : called'[f][k] > 0 => k \in since[f]
    BY <2>4, <2>6 DEF SinceInv, CalledOnlyIfRegistered
  <2>8. \A x \in Workers : wpc'[x] = "call" =>
          \A j \in 1 .. task'[x].n :
            arrays'[task'[x].arr][j] \in since'[content'[task'[x].obj]]
    BY <1>1, <1>2, <2>2 DEF SinceInv
  <2>9. \A f \in Events \ accepted, k \in Registrations : called'[f][k] = 0
    BY <2>3, <2>6 DEF SinceInv
  <2> QED BY <1>1, <2>6, <2>7, <2>8, <2>9 DEF SinceInv, CalledOnlyIfRegistered
<1> QED BY <1>3, <1>4, <1>5 DEF Work

\* Every step keeps the handlers an event may meet.
LEMMA NextSince ==
  ASSUME TypeInv, OwnerInv, EventInv, SinceInv, [Next]_vars
  PROVE  SinceInv'
<1> USE DEF TypeInv
<1>1. ASSUME NEW p \in Publishers, GetEvent(p) \/ Proceed(p)
      PROVE  SinceInv'
  BY <1>1, PublisherSince
<1>2. ASSUME NEW w \in Workers, Work(w)
      PROVE  SinceInv'
  BY <1>2, WorkerSince
<1>3. CASE /\ UNCHANGED <<arrays, content, workerVars, accepted, called, since>>
           /\ members' \subseteq members
  <2>1. \A e \in accepted' : members' \subseteq since'[e]
    BY <1>3 DEF SinceInv
  <2> QED BY <1>3, <2>1 DEF SinceInv, CalledOnlyIfRegistered, workerVars
<1>4. ASSUME NEW h \in Handlers,
             \/ RegisterHandler(h)
             \/ UnRegisterHandler(h)
             \/ UnRegisterAbsent(h)
      PROVE  SinceInv'
  <2>1. CASE RegisterHandler(h)
    BY <2>1, RegisterSince
  <2>2. CASE UnRegisterHandler(h) \/ UnRegisterAbsent(h)
    BY <1>3, <2>2 DEF UnRegisterHandler, UnRegisterAbsent
  <2> QED BY <1>4, <2>1, <2>2
<1>5. CASE ShiftHandler
  BY <1>5, ShiftSince
<1>6. CASE UnRegisterEnd \/ UNCHANGED vars
  BY <1>3, <1>6 DEF UnRegisterEnd, vars, handlerVars, history
<1> QED BY <1>1, <1>2, <1>4, <1>5, <1>6 DEF Next

EventInvs == TypeInv /\ OwnerInv /\ EventInv /\ SinceInv

\* At first there is no event.
LEMMA InitEvents == Init => EventInvs
<1> SUFFICES ASSUME Init PROVE EventInvs
  OBVIOUS
<1>1. TypeInv /\ OwnerInv
  BY InitType, InitOwner
<1>2. Queued = {}
  BY DEF Init, Queued, InWork, NoTask, ToSet
<1>3. EventInv
  BY <1>2 DEF Init, EventInv
<1>4. SinceInv
  BY DEF Init, SinceInv, CalledOnlyIfRegistered
<1> QED BY <1>1, <1>3, <1>4 DEF EventInvs

\* Every step keeps the invariants of the events.
LEMMA NextEvents ==
  ASSUME EventInvs, [Next]_vars
  PROVE  EventInvs'
BY NextType, NextOwner, NextEvent, NextSince DEF EventInvs

\* A handler is called with an event only if it was registered at some time
\* since the event was accepted, although UnRegisterHandler moves the elements
\* of the array that the workers read.
THEOREM CalledHolds == Spec => []CalledOnlyIfRegistered
<1>1. Init => EventInvs
  BY InitEvents
<1>2. EventInvs /\ [Next]_vars => EventInvs'
  BY NextEvents
<1>3. EventInvs => CalledOnlyIfRegistered
  BY DEF EventInvs, SinceInv
<1> QED BY <1>1, <1>2, <1>3, PTL DEF Spec
-----------------------------------------------------------------------------
(* While no handler is removed, each is called once.                       *)

\* A worker's walk is not disturbed by a step that leaves its event, its task
\* and the elements of its slice as they are.
LEMMA WalkOnceKept ==
  ASSUME Shape, WalkInv, NEW w \in Workers, wpc[w] = "call", WalkOnce(w),
         task'[w] = task[w],
         content'[task[w].obj] = content[task[w].obj],
         due'[content[task[w].obj]] = due[content[task[w].obj]],
         called'[content[task[w].obj]] = called[content[task[w].obj]],
         \A j \in 1 .. task[w].n :
           arrays'[task[w].arr][j] = arrays[task[w].arr][j],
         task[w].arr = Len(arrays') => task[w].n <= len'
  PROVE  WalkOnce(w)'
<1>1. task[w].n \in Nat /\ task[w].i \in 1 .. task[w].n + 1
  BY DEF Shape, Task, WalkInv
<1>2. 1 .. task[w].i - 1 \subseteq 1 .. task[w].n
  BY <1>1
<1>3. {arrays'[task'[w].arr][j] : j \in 1 .. task'[w].i - 1} =
        {arrays[task[w].arr][j] : j \in 1 .. task[w].i - 1}
  BY <1>2
<1>4. Visited(w)' = Visited(w)
  BY <1>3 DEF Visited
<1>5. {arrays'[task'[w].arr][j] : j \in 1 .. task'[w].n} =
        {arrays[task[w].arr][j] : j \in 1 .. task[w].n}
  OBVIOUS
<1>6. /\ \A j, k \in 1 .. task'[w].n :
           arrays'[task'[w].arr][j] = arrays'[task'[w].arr][k] => j = k
      /\ task'[w].arr = Len(arrays') => task'[w].n <= len'
  BY DEF WalkOnce
<1>7. \A h \in Registrations : called'[content'[task'[w].obj]][h] =
                             IF h \in Visited(w)' THEN 1 ELSE 0
  BY <1>4 DEF WalkOnce
<1>8. due'[content'[task'[w].obj]] \subseteq
        {arrays'[task'[w].arr][j] : j \in 1 .. task'[w].n}
  BY <1>5 DEF WalkOnce
<1> QED BY <1>6, <1>7, <1>8, Zenon DEF WalkOnce

\* An event accepted is due to those registered then.
LEMMA PublisherOnce ==
  ASSUME TypeInv, OwnerInv, EventInv, SinceInv, OnceInv, NEW p \in Publishers,
         GetEvent(p) \/ Proceed(p)
  PROVE  OnceInv'
<1> USE DEF TypeInv
<1> SUFFICES ASSUME ~removals' PROVE OnceInv'
  BY DEF OnceInv
<1>1. /\ UNCHANGED <<workerVars, done, called, members, removals, arrays, len,
                     moving>>
      /\ Publish(p) => Queued' = Queued \union {held[p]} /\ held[p] \in Objs
      /\ ~Publish(p) => Queued' = Queued /\ UNCHANGED <<accepted, due>>
      /\ \A o \in Queued : content'[o] = content[o] /\ o # held[p]
  BY PublisherQueued
<1>2. \A w \in Workers : wpc[w] = "call" =>
        /\ task[w].obj \in Queued
        /\ content'[task[w].obj] = content[task[w].obj]
        /\ content[task[w].obj] \in accepted
  BY <1>1, WorkerEvent
<1>3. Waiting' = {o \in Queued' : \A w \in Workers :
                    wpc[w] = "call" => task[w].obj # o}
  BY <1>1 DEF Waiting, workerVars
<1>4. accepted \subseteq Events /\ members \subseteq Registrations
  BY EventAssumption DEF EventInv, Shape, Events, SliceInv, Kept, Known
<1>5. /\ due' \in [Events -> SUBSET Registrations]
      /\ \A e \in accepted' : due'[e] \subseteq members
      /\ \A e \in accepted : due'[e] = due[e]
  <2>1. CASE ~Publish(p)
    BY <1>1, <2>1 DEF OnceInv
  <2>2. CASE Publish(p)
    <3>1. /\ accepted' = accepted \union {arg[p]}
          /\ due' = [due EXCEPT ![arg[p]] = members]
          /\ arg[p] \in Events /\ arg[p] \notin accepted
      BY <2>2 DEF Publish, Shape, EventInv
    <3> QED BY <1>1, <1>4, <3>1 DEF OnceInv
  <2> QED BY <2>1, <2>2
<1>6. ASSUME NEW o \in Waiting', NEW h \in Registrations
      PROVE  called[content'[o]][h] = 0
  <2>1. CASE o \in Queued
    BY <1>1, <1>3, <2>1 DEF OnceInv, Waiting
  <2>2. CASE o \notin Queued
    <3>1. Publish(p) /\ o = held[p]
      BY <1>1, <1>3, <2>2
    <3>2. content'[o] = arg[p] /\ arg[p] \in Events \ accepted
      BY <3>1 DEF Publish, Shape, EventInv
    <3> QED BY <3>2 DEF SinceInv
  <2> QED BY <2>1, <2>2
<1>7. ASSUME NEW w \in Workers, wpc[w] = "call"
      PROVE  WalkOnce(w)'
  <2>1. WalkOnce(w) /\ (task[w].arr = Len(arrays) => task[w].n <= len)
    BY <1>1, <1>7 DEF OnceInv, WalkOnce
  <2>2. /\ content'[task[w].obj] = content[task[w].obj]
        /\ due'[content[task[w].obj]] = due[content[task[w].obj]]
    BY <1>2, <1>5, <1>7
  <2> QED BY <1>1, <1>7, <2>1, <2>2, WalkOnceKept DEF workerVars
<1>8. DeliveredOnce'
  <2>1. done \subseteq accepted
    BY DEF EventInv
  <2> QED BY <1>1, <1>5, <2>1 DEF OnceInv, DeliveredOnce
<1> QED BY <1>1, <1>5, <1>6, <1>7, <1>8 DEF OnceInv, workerVars

\* RegisterHandler writes behind the slices of all workers.
LEMMA RegisterOnce ==
  ASSUME TypeInv, EventInv, SinceInv, OnceInv, NEW h \in Handlers,
         RegisterHandler(h)
  PROVE  OnceInv'
<1> USE DEF TypeInv
<1> PICK g \in Registrations : Adds(g)
  BY RegisterAppends
<1> SUFFICES ASSUME ~removals' PROVE OnceInv'
  BY DEF OnceInv
<1>1. /\ UNCHANGED <<content, workerVars, eventChan, accepted, done, called, due,
                     removals, moving>>
      /\ len' = len + 1 /\ members' = members \union {g}
      /\ len \in Nat
  BY DEF RegisterHandler, SliceInv, Adds
<1>2. Waiting' = Waiting
  BY <1>1 DEF Waiting, Queued, InWork, workerVars
<1>3. ASSUME NEW w \in Workers, wpc[w] = "call"
      PROVE  WalkOnce(w)'
  <2>1. WalkOnce(w) /\ task[w].n \in Nat
        /\ (task[w].arr = Len(arrays) => task[w].n <= len)
    BY <1>1, <1>3 DEF OnceInv, WalkOnce, Shape, Task
  <2>2. ASSUME NEW j \in 1 .. task[w].n
        PROVE  arrays'[task[w].arr][j] = arrays[task[w].arr][j]
    <3>1. task[w].arr \in 1 .. Len(arrays) /\ j \in 1 .. Len(arrays[task[w].arr])
      BY <1>3, WalkSlot
    <3>2. \/ arrays'[task[w].arr][j] = arrays[task[w].arr][j]
          \/ task[w].arr = Len(arrays) /\ j = len + 1
      BY <3>1 DEF Adds, Appended
    <3>3. ~(task[w].arr = Len(arrays) /\ j = len + 1)
      BY <1>1, <2>1
    <3> QED BY <3>2, <3>3
  <2>3. task[w].arr = Len(arrays') => task[w].n <= len'
    <3>1. CASE task[w].n = 0
      BY <1>1, <3>1
    <3>2. CASE task[w].n > 0
      <4>1. task[w].arr \in 1 .. Len(arrays)
        BY <1>3, <3>2 DEF WalkInv
      <4>2. /\ Len(arrays) \in Nat /\ Len(arrays') \in Nat
            /\ Len(arrays') >= Len(arrays)
        BY DEF Adds, Appended, SliceInv
      <4> QED BY <1>1, <2>1, <4>1, <4>2
    <3> QED BY <2>1, <3>1, <3>2
  <2> QED BY <1>1, <1>3, <2>1, <2>2, <2>3, WalkOnceKept DEF workerVars
<1>4. \A e \in accepted : due[e] \subseteq members'
  BY <1>1 DEF OnceInv
<1>5. DeliveredOnce'
  BY <1>1 DEF OnceInv, DeliveredOnce
<1> QED BY <1>1, <1>2, <1>3, <1>4, <1>5 DEF OnceInv, workerVars
\* An event that a worker receives has not been handed to anyone.
LEMMA ReceiveOnce ==
  ASSUME TypeInv, OwnerInv, EventInv, OnceInv, NEW w \in Workers,
         ReceiveEvent(w), ~removals'
  PROVE  OnceInv'
<1> USE DEF TypeInv
<1>1. /\ UNCHANGED <<arrays, len, moving, content, accepted, done, called, members,
                     due, removals>>
      /\ wpc[w] = "idle" /\ wpc'[w] = "look"
      /\ \A x \in Workers : x # w => task'[x] = task[x] /\ wpc'[x] = wpc[x]
  BY DEF ReceiveEvent, handlerVars, history, Shape
<1>2. Waiting' = Waiting
  <2>1. Queued' = Queued
    BY ReceiveOwner
  <2>2. ASSUME NEW o
        PROVE  (\A x \in Workers : wpc'[x] = "call" => task'[x].obj # o)
                 <=> (\A x \in Workers : wpc[x] = "call" => task[x].obj # o)
    BY <1>1
  <2> QED BY <2>1, <2>2 DEF Waiting
<1>3. ASSUME NEW x \in Workers, wpc'[x] = "call"
      PROVE  WalkOnce(x)'
  <2>1. task'[x] = task[x] /\ wpc[x] = "call"
    BY <1>1, <1>3
  <2>2. WalkOnce(x) /\ (task[x].arr = Len(arrays) => task[x].n <= len)
    BY <1>1, <2>1 DEF OnceInv, WalkOnce
  <2> QED BY <1>1, <2>1, <2>2, WalkOnceKept
<1>4. DeliveredOnce'
  BY <1>1 DEF OnceInv, DeliveredOnce
<1> QED BY <1>1, <1>2, <1>3, <1>4 DEF OnceInv

\* A worker takes distinct handlers, all that the event is due to among them.
LEMMA TakeOnce ==
  ASSUME TypeInv, OwnerInv, EventInv, OnceInv, NEW w \in Workers,
         TakeHandlers(w), ~removals'
  PROVE  OnceInv'
<1> USE DEF TypeInv
<1>1. /\ UNCHANGED <<arrays, len, moving, content, accepted, done, called, members,
                     due, removals>>
      /\ wpc[w] = "look" /\ wpc'[w] = "call"
      /\ \A x \in Workers : x # w => task'[x] = task[x] /\ wpc'[x] = wpc[x]
      /\ moving = 0
  BY DEF TakeHandlers, handlerVars, history, Shape, Unlocked
<1>2. /\ task'[w].obj = task[w].obj /\ task'[w].i = 1
      /\ task'[w].arr = Len(arrays) /\ task'[w].n = len
  BY <1>1 DEF TakeHandlers, Shape, Task, WalkInv
<1>3. Waiting' \subseteq Waiting
  <2>1. Queued' = Queued
    BY WalkOwner
  <2>2. \A x \in Workers : task'[x].obj = task[x].obj
    BY WalkOwner
  <2> QED BY <1>1, <2>1, <2>2 DEF Waiting
<1>4. task[w].obj \in Waiting
  <2>1. task[w].obj \in Queued /\ task[w].obj # None
    BY <1>1, WorkerEvent DEF Shape
  <2>2. \A x \in Workers : wpc[x] = "call" => task[x].obj # task[w].obj
    BY <1>1, <2>1 DEF OwnerInv, OneOwner
  <2> QED BY <2>1, <2>2 DEF Waiting
<1>5. WalkOnce(w)'
  <2>1. Kept = 1 .. len /\ len \in Nat
    BY <1>1 DEF Kept, SliceInv
  <2>2. /\ members = {arrays[Len(arrays)][j] : j \in 1 .. len}
        /\ \A j, k \in 1 .. len :
             arrays[Len(arrays)][j] = arrays[Len(arrays)][k] => j = k
    BY <2>1 DEF SliceInv, Last
  <2>3. due[content[task[w].obj]] \subseteq members
    <3>1. content[task[w].obj] \in accepted
      BY <1>1, WorkerEvent
    <3> QED BY <1>1, <3>1 DEF OnceInv
  <2>4. Visited(w)' = {}
    BY <1>2 DEF Visited
  <2>5. \A h \in Registrations : called[content[task[w].obj]][h] = 0
    BY <1>1, <1>4 DEF OnceInv
  <2>6. due'[content'[task'[w].obj]] \subseteq
          {arrays'[task'[w].arr][j] : j \in 1 .. task'[w].n}
    BY <1>1, <1>2, <2>2, <2>3
  <2>7. \A j, k \in 1 .. task'[w].n :
          arrays'[task'[w].arr][j] = arrays'[task'[w].arr][k] => j = k
    BY <1>1, <1>2, <2>2
  <2> QED BY <1>1, <1>2, <2>1, <2>4, <2>5, <2>6, <2>7 DEF WalkOnce
<1>6. ASSUME NEW x \in Workers, x # w, wpc'[x] = "call"
      PROVE  WalkOnce(x)'
  <2>1. task'[x] = task[x] /\ wpc[x] = "call"
    BY <1>1, <1>6
  <2>2. WalkOnce(x) /\ (task[x].arr = Len(arrays) => task[x].n <= len)
    BY <1>1, <2>1 DEF OnceInv, WalkOnce
  <2> QED BY <1>1, <2>1, <2>2, WalkOnceKept
<1>7. \A x \in Workers : wpc'[x] = "call" => WalkOnce(x)'
  BY <1>5, <1>6
<1>8. \A o \in Waiting', h \in Registrations : called'[content'[o]][h] = 0
  BY <1>1, <1>3 DEF OnceInv
<1>9. DeliveredOnce'
  BY <1>1 DEF OnceInv, DeliveredOnce
<1> QED BY <1>1, <1>7, <1>8, <1>9 DEF OnceInv

\* The next handler of a walk has not been called with the event.
LEMMA CallOnce ==
  ASSUME TypeInv, OwnerInv, EventInv, SinceInv, OnceInv, NEW w \in Workers,
         CallHandler(w), ~removals'
  PROVE  OnceInv'
<1> USE DEF TypeInv
<1>1. PICK e, h, R, n, i : /\ e = content[task[w].obj]
                           /\ h = arrays[task[w].arr][task[w].i]
                           /\ R = arrays[task[w].arr]
                           /\ n = task[w].n /\ i = task[w].i
  OBVIOUS
<1>2. /\ UNCHANGED <<arrays, len, moving, content, accepted, done, members, due,
                     removals, wpc>>
      /\ wpc[w] = "call" /\ i <= n
      /\ called' = [called EXCEPT ![e][h] = @ + 1]
      /\ \A x \in Workers : x # w => task'[x] = task[x]
  BY <1>1 DEF CallHandler, handlerVars, Shape
<1>3. /\ task'[w].obj = task[w].obj /\ task'[w].arr = task[w].arr
      /\ task'[w].n = n /\ task'[w].i = i + 1
      /\ n \in Nat /\ i \in 1 .. n
  <2>1. task' = [task EXCEPT ![w].i = @ + 1] /\ task \in [Workers -> Task]
    BY DEF CallHandler, Shape
  <2>2. n \in Nat /\ i \in 1 .. n
    <3>1. task[w].n \in Nat /\ task[w].i \in Nat
      BY <2>1 DEF Task
    <3>2. task[w].i >= 1
      BY <1>2, <3>1 DEF WalkInv
    <3>3. n = task[w].n /\ i = task[w].i /\ i <= n
      BY <1>1, <1>2, Zenon
    <3> QED BY <3>1, <3>2, <3>3
  <2> QED BY <1>1, <2>1, <2>2 DEF Task
<1>4. WalkOnce(w) /\ ~removals
  BY <1>2 DEF OnceInv
<1>5. /\ e \in accepted /\ e \in Events /\ e \notin done
      /\ task[w].obj \in Queued
  BY <1>1, <1>2, WorkerEvent
<1>6. h \in Registrations
  <2>1. h \in since[e]
    BY <1>1, <1>2, <1>3 DEF SinceInv
  <2> QED BY <1>5, <2>1 DEF SinceInv
<1>7. /\ \A f \in Events, k \in Registrations :
           called'[f][k] = IF f = e /\ k = h THEN called[f][k] + 1
                                             ELSE called[f][k]
      /\ \A f \in Events : f # e => called'[f] = called[f]
  BY <1>2, <1>5, <1>6 DEF SinceInv
<1>8. /\ Visited(w) = {R[j] : j \in 1 .. i - 1}
      /\ Visited(w)' = {R[j] : j \in 1 .. i}
  <2>1. (i + 1) - 1 = i
    BY <1>3
  <2>2. R = arrays[task[w].arr] /\ i = task[w].i
    BY <1>1
  <2>3. Visited(w) = {R[j] : j \in 1 .. i - 1}
    BY <2>2 DEF Visited
  <2>4. R = arrays'[task'[w].arr] /\ task'[w].i - 1 = i
    BY <1>2, <1>3, <2>1, <2>2
  <2>5. Visited(w)' = {R[j] : j \in 1 .. i}
    BY <2>4 DEF Visited
  <2> QED BY <2>3, <2>5
<1>9. /\ \A j, k \in 1 .. n : R[j] = R[k] => j = k
      /\ \A k \in Registrations : called[e][k] = IF k \in Visited(w) THEN 1 ELSE 0
      /\ h = R[i]
  BY <1>1, <1>4 DEF WalkOnce
<1>10. Visited(w)' = Visited(w) \union {h} /\ h \notin Visited(w)
  <2>1. 1 .. i = 1 .. i - 1 \union {i} /\ i \notin 1 .. i - 1
        /\ 1 .. i - 1 \subseteq 1 .. n
    BY <1>3
  <2> QED BY <1>3, <1>8, <1>9, <2>1
<1>11. \A k \in Registrations : called'[e][k] = IF k \in Visited(w)' THEN 1 ELSE 0
  BY <1>5, <1>7, <1>9, <1>10
<1>12. WalkOnce(w)'
  <2>1. called'[content'[task'[w].obj]] = called'[e]
    BY <1>1, <1>2, <1>3
  <2>2. \A k \in Registrations : called'[content'[task'[w].obj]][k] =
                              IF k \in Visited(w)' THEN 1 ELSE 0
    BY <1>11, <2>1
  <2>3. /\ task'[w].arr = Len(arrays') => task'[w].n <= len'
        /\ \A j, k \in 1 .. task'[w].n :
             arrays'[task'[w].arr][j] = arrays'[task'[w].arr][k] => j = k
        /\ due'[content'[task'[w].obj]] \subseteq
             {arrays'[task'[w].arr][j] : j \in 1 .. task'[w].n}
    <3>1. /\ arrays' = arrays /\ len' = len
          /\ due'[content'[task'[w].obj]] = due[content[task[w].obj]]
          /\ task'[w].arr = task[w].arr /\ task'[w].n = task[w].n
      BY <1>1, <1>2, <1>3
    <3>2. /\ task[w].arr = Len(arrays) => task[w].n <= len
          /\ \A j, k \in 1 .. task[w].n :
               arrays[task[w].arr][j] = arrays[task[w].arr][k] => j = k
          /\ due[content[task[w].obj]] \subseteq
               {arrays[task[w].arr][j] : j \in 1 .. task[w].n}
      BY <1>4, Zenon DEF WalkOnce
    <3> QED BY <3>1, <3>2
  <2> QED BY <2>2, <2>3 DEF WalkOnce
<1>13. ASSUME NEW x \in Workers, x # w, wpc[x] = "call"
       PROVE  WalkOnce(x)'
  <2>1. WalkOnce(x) /\ (task[x].arr = Len(arrays) => task[x].n <= len)
    BY <1>4, <1>13 DEF OnceInv, WalkOnce
  <2>2. task[x].obj \in Queued /\ content[task[x].obj] \in Events
    BY <1>13, WorkerEvent
  <2>3. task[x].obj # task[w].obj
    BY <1>2, <1>13 DEF OwnerInv, OneOwner, Shape
  <2>4. content[task[x].obj] # e
    BY <1>1, <1>5, <2>2, <2>3 DEF EventInv
  <2>5. called'[content[task[x].obj]] = called[content[task[x].obj]]
    BY <1>7, <2>2, <2>4
  <2> QED BY <1>2, <1>13, <2>1, <2>5, WalkOnceKept
<1>14. ASSUME NEW o \in Waiting', NEW k \in Registrations
       PROVE  called'[content'[o]][k] = 0
  <2>1. Queued' = Queued /\ \A x \in Workers : task'[x].obj = task[x].obj
    BY WalkOwner
  <2>2. o \in Waiting /\ o \in Queued /\ o # task[w].obj
    BY <1>2, <2>1 DEF Waiting
  <2>3. content[o] # e /\ content[o] \in Events
    <3>1. accepted \subseteq Events
      BY EventAssumption DEF EventInv, Shape, Events
    <3> QED BY <1>1, <1>5, <2>2, <3>1 DEF EventInv
  <2> QED BY <1>2, <1>4, <1>7, <2>2, <2>3 DEF OnceInv
<1>15. DeliveredOnce'
  <2>1. \A f \in Events, k \in Registrations :
          /\ called'[f][k] <= 1
          /\ f \in done /\ k \in due[f] => called'[f][k] = 1
    <3>1. \A k \in Registrations : called'[e][k] <= 1
      BY <1>11
    <3> QED BY <1>4, <1>5, <1>7, <3>1 DEF OnceInv, DeliveredOnce
  <2> QED BY <1>2, <2>1 DEF DeliveredOnce
<1> QED BY <1>2, <1>4, <1>12, <1>13, <1>14, <1>15 DEF OnceInv

\* A worker is done with an event when it has called all it is due to.
LEMMA PutOnce ==
  ASSUME TypeInv, OwnerInv, EventInv, OnceInv, NEW w \in Workers,
         PutEvent(w), ~removals'
  PROVE  OnceInv'
<1> USE DEF TypeInv
<1>1. PICK o, e : o = task[w].obj /\ e = content[o]
  OBVIOUS
<1>2. /\ UNCHANGED <<arrays, len, moving, content, accepted, called, members, due,
                     removals>>
      /\ done' = done \union {e}
      /\ wpc[w] = "call" /\ wpc'[w] = "idle" /\ task[w].i > task[w].n
      /\ \A x \in Workers : x # w => task'[x] = task[x] /\ wpc'[x] = wpc[x]
  BY <1>1 DEF PutEvent, Return, handlerVars, Shape
<1>3. WalkOnce(w) /\ ~removals
  BY <1>2 DEF OnceInv
<1>4. task[w].i - 1 = task[w].n
  BY <1>2 DEF WalkInv, Shape, Task
<1>5. due[e] \subseteq Visited(w)
  BY <1>1, <1>3, <1>4 DEF WalkOnce, Visited
<1>6. \A h \in Registrations : h \in due[e] => called[e][h] = 1
  BY <1>1, <1>3, <1>5 DEF WalkOnce
<1>7. DeliveredOnce'
  BY <1>2, <1>3, <1>6 DEF OnceInv, DeliveredOnce
<1>8. Waiting' \subseteq Waiting
  <2>1. Queued' = Queued \ {o}
    BY <1>1, PutOwner
  <2>2. ASSUME NEW q \in Waiting'
        PROVE  q \in Waiting
    <3>1. q \in Queued /\ q # o
      BY <2>1 DEF Waiting
    <3>2. \A x \in Workers : wpc[x] = "call" => task[x].obj # q
      BY <1>1, <1>2, <3>1 DEF Waiting
    <3> QED BY <3>1, <3>2 DEF Waiting
  <2> QED BY <2>2
<1>9. \A q \in Waiting', h \in Registrations : called'[content'[q]][h] = 0
  BY <1>2, <1>3, <1>8 DEF OnceInv
<1>10. ASSUME NEW x \in Workers, wpc'[x] = "call"
       PROVE  WalkOnce(x)'
  <2>1. task'[x] = task[x] /\ wpc[x] = "call"
    BY <1>2, <1>10
  <2>2. WalkOnce(x) /\ (task[x].arr = Len(arrays) => task[x].n <= len)
    BY <1>3, <2>1 DEF OnceInv, WalkOnce
  <2> QED BY <1>2, <2>1, <2>2, WalkOnceKept
<1> QED BY <1>2, <1>3, <1>7, <1>9, <1>10 DEF OnceInv

\* Every step keeps the walks; once a handler is removed nothing is claimed.
LEMMA NextOnce ==
  ASSUME EventInvs, OnceInv, [Next]_vars
  PROVE  OnceInv'
<1> USE DEF EventInvs
<1> SUFFICES ASSUME ~removals' PROVE OnceInv'
  BY DEF OnceInv
<1>1. ASSUME NEW p \in Publishers, GetEvent(p) \/ Proceed(p)
      PROVE  OnceInv'
  BY <1>1, PublisherOnce
<1>2. ASSUME NEW w \in Workers, Work(w)
      PROVE  OnceInv'
  BY <1>2, ReceiveOnce, TakeOnce, CallOnce, PutOnce DEF Work
<1>3. ASSUME NEW h \in Handlers,
             \/ RegisterHandler(h)
             \/ UnRegisterHandler(h)
             \/ UnRegisterAbsent(h)
      PROVE  OnceInv'
  <2>1. RegisterHandler(h)
    BY <1>3 DEF UnRegisterHandler, UnRegisterAbsent
  <2> QED BY <2>1, RegisterOnce
<1>4. CASE ShiftHandler \/ UnRegisterEnd
  <2>1. moving # 0 /\ UNCHANGED removals
    BY <1>4 DEF ShiftHandler, UnRegisterEnd, Unlocked, history
  <2> QED BY <2>1 DEF OnceInv
<1>5. CASE UNCHANGED vars
  <2>1. Waiting' = Waiting
    BY <1>5 DEF vars, workerVars, Waiting, Queued, InWork
  <2>2. \A w \in Workers : WalkOnce(w)' <=> WalkOnce(w)
    BY <1>5 DEF vars, handlerVars, workerVars, history, WalkOnce, Visited
  <2>3. DeliveredOnce' <=> DeliveredOnce
    BY <1>5 DEF vars, history, DeliveredOnce
  <2> QED BY <1>5, <2>1, <2>2, <2>3
          DEF vars, handlerVars, workerVars, history, OnceInv
<1> QED BY <1>1, <1>2, <1>3, <1>4, <1>5 DEF Next

\* As long as no handler is removed, a handler is called at most once with an
\* event, and one that was registered when Publish accepted the event has been
\* called when the worker is done with it, whoever registers meanwhile.
THEOREM OnceHolds == Spec => []DeliveredOnce
<1> DEFINE Inv == EventInvs /\ OnceInv
<1>1. Init => Inv
  <2> SUFFICES ASSUME Init PROVE Inv
    OBVIOUS
  <2>1. Queued = {}
    BY DEF Init, Queued, InWork, NoTask, ToSet
  <2>2. OnceInv
    BY <2>1 DEF Init, OnceInv, DeliveredOnce, Waiting
  <2> QED BY <2>2, InitEvents
<1>2. Inv /\ [Next]_vars => Inv'
  BY NextEvents, NextOnce
<1>3. Inv => DeliveredOnce
  BY DEF OnceInv, DeliveredOnce
<1> QED BY <1>1, <1>2, <1>3, PTL DEF Spec
=============================================================================
