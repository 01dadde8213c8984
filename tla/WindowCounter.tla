--------------------------- MODULE WindowCounter ----------------------------
(***************************************************************************)
(* What a bucket promises its callers: one counter per key, on which every *)
(* call takes effect at one instant between its beginning and its end.     *)
(*                                                                         *)
(* The collector weakens the promise: when it forgets the counter of a     *)
(* key, calls of that key that are under way may go astray.  Such a call   *)
(* is answered somehow and leaves the key's counter alone.                 *)
(***************************************************************************)
EXTENDS KeyEntry

CONSTANTS Keys, Threads,
          None,     \* no counter
          Calls,    \* what callers may ask for
          NoCall

VARIABLES now, counter,
          pending,   \* the call each thread is making
          answered,  \* the threads whose call has taken effect
          answer,    \* its answer: blocked, dosync
          astray     \* the threads whose counter was forgotten under way

vars == <<now, counter, pending, answered, answer, astray>>

Answer == [blocked : BOOLEAN, dosync : BOOLEAN]
NoAnswer == [blocked |-> FALSE, dosync |-> FALSE]

Init ==
  /\ now = 0
  /\ counter = [k \in Keys |-> None]
  /\ pending = [t \in Threads |-> NoCall]
  /\ answered = {}
  /\ answer = [t \in Threads |-> NoAnswer]
  /\ astray = {}

Invoke(t, c) ==
  /\ pending[t] = NoCall
  /\ pending' = [pending EXCEPT ![t] = c]
  /\ answer' = [answer EXCEPT ![t] = NoAnswer]
  /\ UNCHANGED <<now, counter, answered, astray>>

\* A call under way opens the first window of its key.
Open(t) ==
  LET c == pending[t] IN
  /\ c # NoCall
  /\ counter[c.key] = None
  /\ counter' = [counter EXCEPT ![c.key] = NewEntry(0, c.expiry)]
  /\ UNCHANGED <<now, pending, answered, answer, astray>>

\* The counter a call finds: a new window if the last is over.
Found(c) == IF Expired(counter[c.key], now)
              THEN ReInit(counter[c.key], 0, c.expiry) ELSE counter[c.key]

\* A call that may still take effect on its key's counter.
Ready(t, op) == /\ pending[t] # NoCall /\ pending[t].op = op
                /\ t \notin answered \union astray
                /\ counter[pending[t].key] # None

\* The effect and the answer of Incr, in one step.
Incr(t) ==
  LET c == pending[t]
      old == Found(c)
      new == IF Counted(old.count, c.limit) THEN EntryIncr(old, c.count)
             ELSE old
      blocked == ~Allowed(new.count, c.limit)
  IN
  /\ Ready(t, "Incr")
  /\ counter' = [counter EXCEPT ![c.key] = new]
  /\ answer' = [answer EXCEPT ![t] =
                  [blocked |-> blocked,
                   dosync |-> blocked /\ old.count < new.count]]
  /\ answered' = answered \union {t}
  /\ UNCHANGED <<now, pending, astray>>

\* Sync has no answer: it is over when it has taken effect.
Sync(t) ==
  LET c == pending[t] IN
  /\ Ready(t, "Sync")
  /\ counter' = [counter EXCEPT ![c.key] = EntrySync(Found(c), c.count)]
  /\ pending' = [pending EXCEPT ![t] = NoCall]
  /\ UNCHANGED <<now, answered, answer, astray>>

IncrAstray(t) ==
  /\ t \in astray /\ pending[t].op = "Incr"
  /\ \E a \in Answer : answer' = [answer EXCEPT ![t] = a]
  /\ answered' = answered \union {t}
  /\ astray' = astray \ {t}
  /\ UNCHANGED <<now, counter, pending>>

SyncAstray(t) ==
  /\ t \in astray /\ pending[t].op = "Sync"
  /\ pending' = [pending EXCEPT ![t] = NoCall]
  /\ astray' = astray \ {t}
  /\ UNCHANGED <<now, counter, answered, answer>>

Return(t) ==
  /\ t \in answered
  /\ pending' = [pending EXCEPT ![t] = NoCall]
  /\ answered' = answered \ {t}
  /\ UNCHANGED <<now, counter, answer, astray>>

\* The collector forgets a counter, but only one whose window is over.
Forget(k) ==
  /\ counter[k] # None
  /\ Expired(counter[k], now)
  /\ counter' = [counter EXCEPT ![k] = None]
  /\ \E S \in SUBSET {t \in Threads \ answered : pending[t] # NoCall
                                                 /\ pending[t].key = k} :
       astray' = astray \union S
  /\ UNCHANGED <<now, pending, answered, answer>>

Tick == now' = now + 1 /\ UNCHANGED <<counter, pending, answered, answer, astray>>

Next ==
  \/ \E t \in Threads : \/ \E c \in Calls : Invoke(t, c)
                        \/ Open(t) \/ Incr(t) \/ Sync(t)
                        \/ IncrAstray(t) \/ SyncAstray(t) \/ Return(t)
  \/ \E k \in Keys : Forget(k)
  \/ Tick

Spec == Init /\ [][Next]_vars
=============================================================================
