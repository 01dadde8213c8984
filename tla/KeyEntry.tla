------------------------------ MODULE KeyEntry ------------------------------
(***************************************************************************)
(* store/bucket/keyentry.go, and of store/bucket/keybucket.go GenExpiry    *)
(* and the two comparisons of Incr: the counter of one key, the arithmetic *)
(* of its window, and the decisions taken on its count.                    *)
(*                                                                         *)
(* An entry is the record of its 32-bit count and of the instant (in       *)
(* nanoseconds) at which its window ends.  The field lastmodified is       *)
(* written but never read by the program and is left out; the clock the    *)
(* entry holds is the parameter now of Expired.                            *)
(***************************************************************************)
EXTENDS Int32Arith

CONSTANT Second  \* nanoseconds in a second: 10^9 in the program

ASSUME SecondAssumption == Second \in Nat \ {0}

Entry == [count : Int32, expires : Nat]

NewEntry(count, expires) == [count |-> count, expires |-> expires]

\* Mutant of ReInit: it forgets to reset the count.
ReInitKeepsCount(e, count, expires) == [e EXCEPT !.expires = expires]

ReInit(e, count, expires) == [e EXCEPT !.expires = expires, !.count = count]

\* Mutant of Expired: the boundary is taken the other way.
ExpiredAtEnd(e, now) == e.expires <= now

\* An entry is still live at the very instant its window ends.
Expired(e, now) == e.expires < now

EntryIncr(e, count) == [e EXCEPT !.count = AddInt32(@, count)]

EntrySync(e, count) == [e EXCEPT !.count = AddInt32(@, count)]

\* Mutant of GenExpiry: windows begin with their first call.
GenExpiryUnaligned(curTime, ttl) == curTime + ttl * Second

\* The end of the window, aligned to multiples of ttl, that holds curTime.
GenExpiry(curTime, ttl) ==
  IF ttl <= 0 THEN curTime
  ELSE curTime + ttl * Second - (curTime % (ttl * Second))

\* Incr adds a call's count as long as the total is within the limit ...
Counted(previousTotal, limit) == previousTotal <= limit

\* Mutants of Allowed: each is off by one.
AllowedBelow(newTotal, limit) == newTotal < limit

AllowedOneMore(newTotal, limit) == newTotal <= limit + 1

\* ... and allows the call if the total still is.
Allowed(newTotal, limit) == newTotal <= limit
=============================================================================
