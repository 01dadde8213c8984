---------------------------- MODULE EventManager ----------------------------
(***************************************************************************)
(* store/event/eventmanager.go and the end of Store.Incr: goroutines that  *)
(* publish events in pooled objects, the workers that hand each event to   *)
(* the registered handlers, and handlers that come and go meanwhile.  All  *)
(* events have the one route of the program, KEYEVENT.                     *)
(*                                                                         *)
(* A worker copies the slice em.handlers[route] under the lock, but the    *)
(* array behind it is shared: append writes into it while it has room, and *)
(* UnRegisterHandler moves its elements, one after the other.  The k-th    *)
(* array has 2^(k-1) slots, since append doubles a full one and nothing    *)
(* shrinks.                                                                *)
(*                                                                         *)
(* Handlers may be registered more than once, and are then called more     *)
(* than once.  A slot of the array holds a handler, and the model notes    *)
(* beside it which call of RegisterHandler put it there.                   *)
(*                                                                         *)
(* An event is the number of its publication.  Which pool GetPool returns  *)
(* is left out: goroutines that find none may each make one, and what a    *)
(* replaced pool holds is as good as freed.                                *)
(***************************************************************************)
EXTENDS Integers, FiniteSets, Sequences, SequencesExt

CONSTANTS Handlers, Publishers, Workers,
          Objs,       \* addresses of KeyEvent objects
          None,       \* nil
          Buffer,     \* the capacity of eventChan
          MaxEvents,  \* bound: the number of events published
          MaxChanges  \* bound: calls of RegisterHandler and UnRegisterHandler

ASSUME EventAssumption == /\ None \notin Handlers \union Objs
                          /\ Buffer \in Nat \ {0}
                          /\ MaxEvents \in Nat
                          /\ MaxChanges \in Nat

VARIABLES
  arrays,     \* the arrays em.handlers[route] has had; the last is the current
  len,        \* the length of em.handlers[route]
  moving,     \* the slot UnRegisterHandler is to overwrite; 0 if unlocked
  free,       \* objects Get may return: pooled ones and fresh ones
  content,    \* the event each object holds
  pc,         \* where each publisher is
  held,       \* its object
  arg,        \* the event it is to write into it
  eventChan,  \* the queue of objects
  wpc,        \* where each worker is
  task,       \* its object, its copy of the slice and its next index
  events,     \* the number of events so far
  changes,    \* the number of registrations and removals so far
  \* History variables, read by no action.
  accepted,   \* events whose Publish returned true
  done,       \* events a worker is done with
  called,     \* how often each registration was called with each event
  members,    \* registrations made and not removed
  due,        \* the registrations there were when each event was accepted
  since,      \* registrations there were at some time since the event was accepted
  removals    \* UnRegisterHandler has been called

publisherVars == <<pc, held, arg, events>>
workerVars == <<wpc, task>>
handlerVars == <<arrays, len, moving, changes>>
history == <<accepted, done, called, members, due, since, removals>>
vars == <<handlerVars, free, content, publisherVars, eventChan, workerVars,
          history>>

Events == 1 .. MaxEvents

\* A handler and the number of the change that registered it.
Registrations == Handlers \X (1 .. MaxChanges)

Cap == IF arrays = << >> THEN 0 ELSE Len(Last(arrays))
Registered == {Last(arrays)[i] : i \in 1 .. len}

\* The slot at index i of em.handlers[route] holds the handler h.
HoldsAt(i, h) == Last(arrays)[i][1] = h

NoTask == [obj |-> None, arr |-> 0, n |-> 0, i |-> 1]

TypeOK ==
  /\ \A k \in DOMAIN arrays : arrays[k] \in Seq(Registrations \union {None})
  /\ len \in 0 .. Cap
  /\ Registered \subseteq Registrations
  /\ moving \in Nat
  /\ free \subseteq Objs
  /\ content \in [Objs -> Events \union {0}]
  /\ pc \in [Publishers -> {"idle", "fill", "publish"}]
  /\ held \in [Publishers -> Objs \union {None}]
  /\ arg \in [Publishers -> Events \union {0}]
  /\ eventChan \in Seq(Objs) /\ Len(eventChan) <= Buffer
  /\ wpc \in [Workers -> {"idle", "look", "call"}]
  /\ \A w \in Workers : wpc[w] = "idle" <=> task[w].obj = None
  /\ events \in 0 .. MaxEvents
  /\ changes \in 0 .. MaxChanges

Init ==
  /\ arrays = << >> /\ len = 0 /\ moving = 0 /\ changes = 0
  /\ free = Objs
  /\ content = [o \in Objs |-> 0]
  /\ pc = [p \in Publishers |-> "idle"]
  /\ held = [p \in Publishers |-> None]
  /\ arg = [p \in Publishers |-> 0]
  /\ events = 0
  /\ eventChan = << >>
  /\ wpc = [w \in Workers |-> "idle"]
  /\ task = [w \in Workers |-> NoTask]
  /\ accepted = {} /\ done = {} /\ members = {} /\ removals = FALSE
  /\ called = [e \in Events |-> [g \in Registrations |-> 0]]
  /\ due = [e \in Events |-> {}]
  /\ since = [e \in Events |-> {}]

-----------------------------------------------------------------------------
(* The publishers: the end of Store.Incr.                                  *)

GetEvent(p) ==
  /\ pc[p] = "idle"
  /\ events < MaxEvents
  /\ events' = events + 1
  /\ \E o \in free : /\ held' = [held EXCEPT ![p] = o]
                     /\ free' = free \ {o}
  /\ arg' = [arg EXCEPT ![p] = events + 1]
  /\ pc' = [pc EXCEPT ![p] = "fill"]
  /\ UNCHANGED <<handlerVars, content, eventChan, workerVars, history>>

FillEvent(p) ==
  /\ pc[p] = "fill"
  /\ content' = [content EXCEPT ![held[p]] = arg[p]]
  /\ pc' = [pc EXCEPT ![p] = "publish"]
  /\ UNCHANGED <<handlerVars, free, held, arg, events, eventChan, workerVars,
                 history>>

\* The publisher goes on without its event.
LetGo(p) ==
  /\ pc' = [pc EXCEPT ![p] = "idle"]
  /\ held' = [held EXCEPT ![p] = None]
  /\ arg' = [arg EXCEPT ![p] = 0]
  /\ UNCHANGED events

Publish(p) ==
  /\ pc[p] = "publish"
  /\ Len(eventChan) < Buffer
  /\ eventChan' = Append(eventChan, held[p])
  /\ accepted' = accepted \union {arg[p]}
  /\ due' = [due EXCEPT ![arg[p]] = members]
  /\ since' = [since EXCEPT ![arg[p]] = members]
  /\ LetGo(p)
  /\ UNCHANGED <<handlerVars, free, content, workerVars, done, called,
                 members, removals>>

\* The channel is full: the event is dropped and its object left to the
\* garbage collector.
PublishDiscards(p) ==
  /\ pc[p] = "publish"
  /\ Len(eventChan) = Buffer
  /\ free' = free \union {held[p]}
  /\ LetGo(p)
  /\ UNCHANGED <<handlerVars, content, eventChan, workerVars, history>>

-----------------------------------------------------------------------------
(* Registration.                                                           *)

Unlocked == moving = 0

\* The array append makes when the current one is full, with g added.
Grown(g) ==
  Append(arrays, [i \in 1 .. (IF Cap = 0 THEN 1 ELSE 2 * Cap) |->
                    IF i <= len THEN Last(arrays)[i]
                    ELSE IF i = len + 1 THEN g ELSE None])

\* Mutant of AppendHandler: in an array with room g is put before the last.
AppendBeforeLast(g) ==
  IF 0 < len /\ len < Cap
    THEN [arrays EXCEPT ![Len(arrays)][len + 1] = Last(arrays)[len],
                        ![Len(arrays)][len] = g]
    ELSE Grown(g)

\* append(slice, g): into the array while it has room, else into a new one.
AppendHandler(g) ==
  IF len < Cap THEN [arrays EXCEPT ![Len(arrays)][len + 1] = g] ELSE Grown(g)

RegisterHandler(h) ==
  LET g == <<h, changes + 1>> IN
  /\ Unlocked
  /\ changes < MaxChanges
  /\ changes' = changes + 1
  /\ arrays' = AppendHandler(g)
  /\ len' = len + 1
  /\ members' = members \union {g}
  /\ since' = [e \in Events |-> IF e \in accepted THEN since[e] \union {g}
                                 ELSE since[e]]
  /\ UNCHANGED <<moving, free, content, publisherVars, eventChan, workerVars,
                 accepted, done, called, due, removals>>

\* UnRegisterHandler locks and finds the first slot with the handler ...
UnRegisterHandler(h) ==
  /\ Unlocked
  /\ changes < MaxChanges
  /\ changes' = changes + 1
  /\ \E i \in 1 .. len : /\ HoldsAt(i, h)
                         /\ \A j \in 1 .. i - 1 : ~HoldsAt(j, h)
                         /\ moving' = i
                         /\ members' = members \ {Last(arrays)[i]}
  /\ removals' = TRUE
  /\ UNCHANGED <<arrays, len, free, content, publisherVars, eventChan,
                 workerVars, accepted, done, called, due, since>>

\* Mutant of UnRegisterAbsent: the slice is cut although nothing was found.
UnRegisterAbsentCuts(h) ==
  /\ Unlocked
  /\ changes < MaxChanges
  /\ \A i \in 1 .. len : ~HoldsAt(i, h)
  /\ changes' = changes + 1
  /\ len' = len - 1
  /\ removals' = TRUE
  /\ UNCHANGED <<arrays, moving, free, content, publisherVars, eventChan,
                 workerVars, accepted, done, called, members, due, since>>

\* ... or does not, and returns.
UnRegisterAbsent(h) ==
  /\ Unlocked
  /\ changes < MaxChanges
  /\ \A i \in 1 .. len : ~HoldsAt(i, h)
  /\ changes' = changes + 1
  /\ removals' = TRUE
  /\ UNCHANGED <<arrays, len, moving, free, content, publisherVars, eventChan,
                 workerVars, accepted, done, called, members, due, since>>

\* append(slice[:i], slice[i+1:]...) moves the elements after i by one ...
ShiftHandler ==
  /\ ~Unlocked
  /\ moving < len
  /\ arrays' = [arrays EXCEPT ![Len(arrays)][moving] =
                  Last(arrays)[moving + 1]]
  /\ moving' = moving + 1
  /\ UNCHANGED <<len, changes, free, content, publisherVars, eventChan,
                 workerVars, history>>

\* Mutants of UnRegisterEnd: the result of append is not stored ...
UnRegisterKeepsLength ==
  /\ moving = len /\ ~Unlocked
  /\ moving' = 0
  /\ UNCHANGED <<arrays, len, changes, free, content, publisherVars, eventChan,
                 workerVars, history>>

\* ... or the lock is not released.
UnRegisterStaysLocked ==
  /\ moving = len /\ ~Unlocked
  /\ len' = len - 1
  /\ UNCHANGED <<arrays, moving, changes, free, content, publisherVars,
                 eventChan, workerVars, history>>

\* ... and shortens the slice; the lock is released.
UnRegisterEnd ==
  /\ moving = len /\ ~Unlocked
  /\ len' = len - 1
  /\ moving' = 0
  /\ UNCHANGED <<arrays, changes, free, content, publisherVars, eventChan,
                 workerVars, history>>

-----------------------------------------------------------------------------
(* The workers.                                                            *)

ReceiveEvent(w) ==
  /\ wpc[w] = "idle"
  /\ eventChan # << >>
  /\ eventChan' = Tail(eventChan)
  /\ task' = [task EXCEPT ![w].obj = Head(eventChan)]
  /\ wpc' = [wpc EXCEPT ![w] = "look"]
  /\ UNCHANGED <<handlerVars, free, content, publisherVars, history>>

\* Mutant of TakeHandlers: the event is put back before it is handled.
TakeHandlersPuts(w) ==
  /\ wpc[w] = "look"
  /\ Unlocked
  /\ task' = [task EXCEPT ![w].arr = Len(arrays), ![w].n = len]
  /\ wpc' = [wpc EXCEPT ![w] = "call"]
  /\ free' = free \union {task[w].obj}
  /\ UNCHANGED <<handlerVars, content, publisherVars, eventChan, history>>

TakeHandlers(w) ==
  /\ wpc[w] = "look"
  /\ Unlocked
  /\ task' = [task EXCEPT ![w].arr = Len(arrays), ![w].n = len]
  /\ wpc' = [wpc EXCEPT ![w] = "call"]
  /\ UNCHANGED <<handlerVars, free, content, publisherVars, eventChan,
                 history>>

\* The next element of the worker's slice is read, without the lock, and
\* called with what the object then holds.
CallHandler(w) ==
  LET t == task[w] IN
  /\ wpc[w] = "call"
  /\ t.i <= t.n
  /\ called' = [called EXCEPT ![content[t.obj]][arrays[t.arr][t.i]] = @ + 1]
  /\ task' = [task EXCEPT ![w].i = @ + 1]
  /\ UNCHANGED <<handlerVars, free, content, publisherVars, eventChan, wpc,
                 accepted, done, members, due, since, removals>>

\* The worker returns its object and waits for the next event.
Return(w) ==
  /\ free' = free \union {task[w].obj}
  /\ done' = done \union {content[task[w].obj]}
  /\ task' = [task EXCEPT ![w] = NoTask]
  /\ wpc' = [wpc EXCEPT ![w] = "idle"]
  /\ UNCHANGED <<handlerVars, content, publisherVars, eventChan, accepted,
                 called, members, due, since, removals>>

PutEvent(w) == wpc[w] = "call" /\ task[w].i > task[w].n /\ Return(w)

-----------------------------------------------------------------------------

Proceed(p) == FillEvent(p) \/ Publish(p) \/ PublishDiscards(p)

Work(w) == ReceiveEvent(w) \/ TakeHandlers(w) \/ CallHandler(w) \/ PutEvent(w)

Next ==
  \/ \E p \in Publishers : GetEvent(p) \/ Proceed(p)
  \/ \E h \in Handlers : \/ RegisterHandler(h)
                         \/ UnRegisterHandler(h)
                         \/ UnRegisterAbsent(h)
  \/ ShiftHandler \/ UnRegisterEnd
  \/ \E w \in Workers : Work(w)

Spec == Init /\ [][Next]_vars

(***************************************************************************)
(* Fairness.  Goroutines run, handlers return, and a worker that waits for *)
(* the lock or for an event is served although others compete with it:     *)
(* sync.RWMutex and channels queue those that wait.                        *)
(***************************************************************************)
FairSpec == /\ Spec
            /\ \A p \in Publishers : WF_vars(Proceed(p))
            /\ WF_vars(ShiftHandler \/ UnRegisterEnd)
            /\ \A w \in Workers : SF_vars(Work(w))

-----------------------------------------------------------------------------
(* Properties.                                                             *)

InHands == {held[p] : p \in Publishers} \ {None}
InWork == {task[w].obj : w \in Workers} \ {None}

\* A KeyEvent is in one place only: no pooled object, which the next
\* Store.Incr may overwrite, is still in the channel or before a handler.
OneOwner ==
  /\ free \intersect (InHands \union ToSet(eventChan) \union InWork) = {}
  /\ InHands \intersect (ToSet(eventChan) \union InWork) = {}
  /\ ToSet(eventChan) \intersect InWork = {}
  /\ IsInjective(eventChan)
  /\ \A w, x \in Workers : task[w].obj = task[x].obj
                             => w = x \/ task[w].obj = None

\* As long as no handler is removed (the program removes none), a handler is
\* called at most once with an event for each time it was registered, and for
\* each registration made before Publish accepted the event it has been called
\* when the worker is done with it, although RegisterHandler writes into the
\* array the worker reads while that has room.
DeliveredOnce ==
  ~removals => \A e \in Events, g \in Registrations :
                 /\ called[e][g] <= 1
                 /\ e \in done /\ g \in due[e] => called[e][g] = 1

\* A handler is called with an event only for a registration there was at some
\* time since Publish accepted the event: once UnRegisterHandler has removed
\* it, nothing published later reaches the handler, however many workers still
\* read the array whose elements it moves.
CalledOnlyIfRegistered ==
  \A e \in Events, g \in Registrations : called[e][g] > 0 => g \in since[e]

\* Every event that Publish accepted is handed to the handlers and returned to
\* the pool, whoever registers and unregisters meanwhile.
EventuallyHandled == \A e \in Events : e \in accepted ~> e \in done
=============================================================================
