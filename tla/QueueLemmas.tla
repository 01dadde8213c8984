---------------------------- MODULE QueueLemmas -----------------------------
(***************************************************************************)
(* Facts about a Go channel of pooled objects, a sequence in which each    *)
(* object occurs at most once.                                             *)
(***************************************************************************)
EXTENDS Integers, Sequences, SequencesExt, TLAPS

\* Sending on the channel adds the object to those in it.
LEMMA AppendOwner ==
  ASSUME NEW S, NEW q \in Seq(S), NEW o \in S, o \notin ToSet(q),
         \A i, j \in DOMAIN q : q[i] = q[j] => i = j
  PROVE  /\ Append(q, o) \in Seq(S)
         /\ ToSet(Append(q, o)) = ToSet(q) \union {o}
         /\ \A i, j \in DOMAIN Append(q, o) :
              Append(q, o)[i] = Append(q, o)[j] => i = j
<1> DEFINE r == Append(q, o)
<1>1. /\ r \in Seq(S)
      /\ Len(r) = Len(q) + 1
      /\ \A i \in 1 .. Len(q) : r[i] = q[i]
      /\ r[Len(q) + 1] = o
      /\ Len(q) \in Nat
      /\ DOMAIN q = 1 .. Len(q)
      /\ DOMAIN r = 1 .. Len(r)
  OBVIOUS
<1> HIDE DEF r
<1>2. DOMAIN r = DOMAIN q \union {Len(q) + 1} /\ Len(q) + 1 \notin DOMAIN q
  BY <1>1
<1>3. \A i \in DOMAIN q : r[i] = q[i] /\ q[i] # o
  BY <1>1 DEF ToSet
<1>4. ToSet(r) = ToSet(q) \union {o}
  BY <1>1, <1>2, <1>3 DEF ToSet
<1>5. \A i, j \in DOMAIN r : r[i] = r[j] => i = j
  BY <1>1, <1>2, <1>3
<1> QED BY <1>1, <1>4, <1>5 DEF r

\* Receiving from the channel removes the object from those in it.
LEMMA TailOwner ==
  ASSUME NEW S, NEW q \in Seq(S), q # << >>,
         \A i, j \in DOMAIN q : q[i] = q[j] => i = j
  PROVE  /\ Head(q) \in S
         /\ Head(q) \in ToSet(q)
         /\ Tail(q) \in Seq(S)
         /\ ToSet(Tail(q)) = ToSet(q) \ {Head(q)}
         /\ \A i, j \in DOMAIN Tail(q) : Tail(q)[i] = Tail(q)[j] => i = j
<1> DEFINE r == Tail(q)
<1>1. /\ r \in Seq(S)
      /\ Len(q) \in Nat \ {0}
      /\ Len(r) = Len(q) - 1
      /\ \A i \in 1 .. Len(r) : r[i] = q[i + 1]
      /\ Head(q) = q[1]
      /\ DOMAIN q = 1 .. Len(q)
      /\ DOMAIN r = 1 .. Len(r)
  OBVIOUS
<1> HIDE DEF r
<1>2. 1 \in DOMAIN q /\ q[1] \in S
  BY <1>1
<1>3. \A i \in DOMAIN r : i + 1 \in DOMAIN q /\ r[i] = q[i + 1] /\ i + 1 # 1
  BY <1>1
<1>4. \A i \in DOMAIN q : i # 1 => i - 1 \in DOMAIN r /\ r[i - 1] = q[i]
  BY <1>1
<1>5. ToSet(r) = ToSet(q) \ {q[1]}
  <2>1. ToSet(r) \subseteq ToSet(q) \ {q[1]}
    BY <1>2, <1>3 DEF ToSet
  <2>2. ToSet(q) \ {q[1]} \subseteq ToSet(r)
    BY <1>4 DEF ToSet
  <2> QED BY <2>1, <2>2
<1>6. \A i, j \in DOMAIN r : r[i] = r[j] => i = j
  BY <1>1, <1>3
<1> QED BY <1>1, <1>2, <1>5, <1>6 DEF r, ToSet

\* Writing into one slot of an array.
LEMMA SlotWritten ==
  ASSUME NEW S, NEW q \in Seq(S), NEW i \in 1 .. Len(q), NEW x \in S,
         NEW r, r = [q EXCEPT ![i] = x]
  PROVE  /\ r \in Seq(S)
         /\ Len(r) = Len(q)
         /\ r[i] = x
         /\ \A j \in 1 .. Len(q) : j # i => r[j] = q[j]
<1>1. q \in [1 .. Len(q) -> S] /\ Len(q) \in Nat
  OBVIOUS
<1>2. r \in [1 .. Len(q) -> S]
  BY <1>1
<1> QED BY <1>1, <1>2
=============================================================================
