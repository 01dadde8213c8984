---------------------------- MODULE NumberLemmas ----------------------------
(***************************************************************************)
(* Facts about numbers that the proofs share: the sum of a function over a *)
(* finite set, and remainders, which int32 arithmetic is about.            *)
(*                                                                         *)
(* The community modules' SumFunctionOnSet is defined by recursion: it     *)
(* adds one element after the other, in an order it does not tell.         *)
(* Induction takes a set here, of the subsets that have a property, and    *)
(* rests on the well-foundedness of the naturals.                          *)
(***************************************************************************)
EXTENDS Integers, FiniteSets, FiniteSetsExt, Functions, TLAPS,
        FiniteSetTheorems, WellFoundedInduction

\* A set of naturals has a least element.
LEMMA LeastNat ==
  ASSUME NEW T \in SUBSET Nat, T # {}
  PROVE  \E x \in T : \A y \in T : x <= y
<1> DEFINE R == OpToRel(<, Nat)
<1>1. IsWellFoundedOn(R, Nat)
  BY NatLessThanWellFounded, Zenon
<1>2. \A x, y \in Nat : <<y, x>> \in R <=> y < x
  BY DEF OpToRel
<1> HIDE DEF R
<1>3. PICK x \in T : \A y \in T : ~ (<<y, x>> \in R)
  BY <1>1, WFMin, Zenon
<1>4. \A y \in T : ~ (y < x)
  BY <1>2, <1>3, Zenon
<1> QED BY <1>4

\* A set of naturals that has a bound has a greatest element.
LEMMA GreatestNat ==
  ASSUME NEW n \in Nat, NEW T \in SUBSET (0 .. n), T # {}
  PROVE  \E x \in T : \A y \in T : x >= y
<1> DEFINE U == {n - x : x \in T}
<1>1. U \in SUBSET Nat /\ U # {}
  <2>1. \A x \in T : n - x \in Nat
    OBVIOUS
  <2> QED BY <2>1, Zenon
<1>2. PICK u \in U : \A w \in U : u <= w
  <2> HIDE DEF U
  <2> QED BY <1>1, LeastNat
<1>3. PICK x \in T : u = n - x
  BY <1>2
<1>4. ASSUME NEW y \in T
      PROVE  x >= y
  <2>1. n - y \in U
    OBVIOUS
  <2>2. n - x <= n - y
    BY <1>2, <1>3, <2>1
  <2> QED BY <1>3, <2>2
<1> QED BY <1>3, <1>4

\* Induction over the subsets of a finite set.
LEMMA SubsetInduction ==
  ASSUME NEW S, IsFiniteSet(S), NEW G,
         \A s \in SUBSET S : (\A r \in SUBSET s : r # s => r \in G) => s \in G
  PROVE  S \in G
<1> DEFINE Bad == {i \in Nat : \E s \in SUBSET S : Cardinality(s) = i /\ s \notin G}
<1>1. \A s \in SUBSET S : IsFiniteSet(s) /\ Cardinality(s) \in Nat
  BY FS_Subset, FS_CardinalityType
<1> SUFFICES ASSUME Bad # {} PROVE FALSE
  BY <1>1
<1>2. PICK i \in Bad : \A j \in Bad : i <= j
  <2>1. Bad \in SUBSET Nat
    OBVIOUS
  <2> HIDE DEF Bad
  <2> QED BY <2>1, LeastNat
<1>3. PICK s \in SUBSET S : Cardinality(s) = i /\ s \notin G
  OBVIOUS
<1>4. ASSUME NEW r \in SUBSET s, r # s, r \notin G
      PROVE  FALSE
  <2>1. Cardinality(r) <= Cardinality(s) /\ Cardinality(r) # Cardinality(s)
    BY <1>1, <1>4, FS_Subset
  <2>2. Cardinality(r) \in Bad /\ Cardinality(r) \in Nat
    BY <1>1, <1>4
  <2> HIDE DEF Bad
  <2> QED BY <1>1, <1>2, <1>3, <2>1, <2>2
<1> QED BY <1>3, <1>4

-----------------------------------------------------------------------------
(* The recursive definition has a solution.                                *)

\* The element that is added first.
First(s) == CHOOSE x \in s : TRUE

\* g[s] is the sum of f over s, as the recursion defines it, for the subsets
\* of S ...
Sums(f, S, g) ==
  g = [s \in SUBSET S |-> IF s = {} THEN 0
                          ELSE f[First(s)] + g[s \ {First(s)}]]

\* ... and for those of at most n elements.
SumsUpTo(f, S, n, g) ==
  \A s \in SUBSET S : Cardinality(s) <= n =>
    g[s] = IF s = {} THEN 0 ELSE f[First(s)] + g[s \ {First(s)}]

\* The definition of the sum.
LEMMA SumDefinition ==
  ASSUME NEW f, NEW S
  PROVE  SumFunctionOnSet(f, S) = (CHOOSE g : Sums(f, S, g))[S]
BY DEF SumFunctionOnSet, FoldFunctionOnSet, MapThenFoldSet, Sums, First

\* What is left once the first element is taken has one element less.
LEMMA Rest ==
  ASSUME NEW S, IsFiniteSet(S), NEW s \in SUBSET S
  PROVE  /\ IsFiniteSet(s) /\ Cardinality(s) \in Nat
         /\ s # {} => /\ First(s) \in s
                      /\ s \ {First(s)} \in SUBSET S
                      /\ Cardinality(s \ {First(s)}) = Cardinality(s) - 1
                      /\ Cardinality(s) >= 1
<1>1. IsFiniteSet(s) /\ Cardinality(s) \in Nat
  BY FS_Subset, FS_CardinalityType
<1>2. ASSUME s # {}
      PROVE  /\ First(s) \in s
             /\ Cardinality(s \ {First(s)}) = Cardinality(s) - 1
             /\ Cardinality(s) >= 1
  <2>1. First(s) \in s
    BY <1>2 DEF First
  <2>2. Cardinality(s \ {First(s)}) = Cardinality(s) - 1
    BY <1>1, <2>1, FS_RemoveElement
  <2>3. Cardinality(s) # 0
    BY <1>1, <1>2, FS_EmptySet
  <2> QED BY <1>1, <2>1, <2>2, <2>3
<1> QED BY <1>1, <1>2

\* The sums over the smaller subsets give those over the next larger.
LEMMA SumsUpToExist ==
  ASSUME NEW f, NEW S, IsFiniteSet(S), NEW n \in Nat
  PROVE  \E g : SumsUpTo(f, S, n, g)
<1> DEFINE Bad == {i \in Nat : ~ \E g : SumsUpTo(f, S, i, g)}
<1> SUFFICES ASSUME Bad # {} PROVE FALSE
  OBVIOUS
<1>1. PICK i \in Bad : \A j \in Bad : i <= j
  <2>1. Bad \in SUBSET Nat
    OBVIOUS
  <2> HIDE DEF Bad
  <2> QED BY <2>1, LeastNat
<1>2. i \in Nat
  OBVIOUS
<1>3. PICK h : i = 0 \/ SumsUpTo(f, S, i - 1, h)
  <2>1. i = 0 \/ \E h : SumsUpTo(f, S, i - 1, h)
    BY <1>1, <1>2
  <2> QED BY <2>1
<1> DEFINE g == [s \in SUBSET S |-> IF s = {} THEN 0
                                    ELSE f[First(s)] + h[s \ {First(s)}]]
<1>4. ASSUME NEW s \in SUBSET S, Cardinality(s) <= i
      PROVE  g[s] = IF s = {} THEN 0 ELSE f[First(s)] + g[s \ {First(s)}]
  <2>1. CASE s = {}
    BY <2>1
  <2>2. CASE s # {}
    <3> DEFINE r == s \ {First(s)}
    <3>1. /\ r \in SUBSET S /\ Cardinality(r) = Cardinality(s) - 1
          /\ Cardinality(s) >= 1 /\ Cardinality(s) \in Nat
      BY <2>2, Rest
    <3>2. i # 0 /\ Cardinality(r) <= i - 1
      BY <1>2, <1>4, <3>1
    <3>3. h[r] = IF r = {} THEN 0 ELSE f[First(r)] + h[r \ {First(r)}]
      BY <1>3, <3>1, <3>2 DEF SumsUpTo
    <3>4. g[r] = h[r]
      BY <3>1, <3>3
    <3>5. g[s] = f[First(s)] + h[r]
      BY <2>2
    <3> QED BY <2>2, <3>4, <3>5
  <2> QED BY <2>1, <2>2
<1>5. SumsUpTo(f, S, i, g)
  BY <1>4 DEF SumsUpTo
<1> QED BY <1>5

\* The recursion is solved by some function.
LEMMA SumsExist ==
  ASSUME NEW f, NEW S, IsFiniteSet(S)
  PROVE  \E g : Sums(f, S, g)
<1>1. PICK h : SumsUpTo(f, S, Cardinality(S), h)
  BY SumsUpToExist, FS_CardinalityType
<1> DEFINE g == [s \in SUBSET S |-> h[s]]
<1>2. ASSUME NEW s \in SUBSET S
      PROVE  h[s] = IF s = {} THEN 0 ELSE f[First(s)] + g[s \ {First(s)}]
  <2>1. Cardinality(s) <= Cardinality(S)
    BY FS_Subset
  <2>2. h[s] = IF s = {} THEN 0 ELSE f[First(s)] + h[s \ {First(s)}]
    BY <1>1, <2>1 DEF SumsUpTo
  <2>3. s \ {First(s)} \in SUBSET S
    OBVIOUS
  <2> QED BY <2>2, <2>3
<1>3. Sums(f, S, g)
  BY <1>2 DEF Sums
<1> QED BY <1>3

\* The solutions for a set and for a subset of it agree.
LEMMA SumsAgree ==
  ASSUME NEW f, NEW S, IsFiniteSet(S), NEW T \in SUBSET S,
         NEW g, Sums(f, S, g), NEW h, Sums(f, T, h)
  PROVE  g[T] = h[T]
<1> DEFINE G == {s \in SUBSET T : g[s] = h[s]}
<1>1. IsFiniteSet(T)
  BY FS_Subset
<1>2. ASSUME NEW s \in SUBSET T, \A r \in SUBSET s : r # s => r \in G
      PROVE  s \in G
  <2>1. /\ g[s] = IF s = {} THEN 0 ELSE f[First(s)] + g[s \ {First(s)}]
        /\ h[s] = IF s = {} THEN 0 ELSE f[First(s)] + h[s \ {First(s)}]
    BY DEF Sums
  <2>2. s # {} => s \ {First(s)} \in G
    BY <1>1, <1>2, Rest
  <2> QED BY <2>1, <2>2
<1>3. T \in G
  <2> HIDE DEF G
  <2> QED BY <1>1, <1>2, SubsetInduction
<1> QED BY <1>3

-----------------------------------------------------------------------------
(* The sum.                                                                *)

\* The first element and the sum of the rest.
LEMMA SumUnfold ==
  ASSUME NEW f, NEW S, IsFiniteSet(S)
  PROVE  SumFunctionOnSet(f, S) =
           IF S = {} THEN 0
           ELSE f[First(S)] + SumFunctionOnSet(f, S \ {First(S)})
<1> DEFINE r == S \ {First(S)}
<1>1. PICK g : Sums(f, S, g) /\ SumFunctionOnSet(f, S) = g[S]
  BY SumDefinition, SumsExist
<1>2. IsFiniteSet(r) /\ r \in SUBSET S
  BY FS_Subset
<1>3. PICK h : Sums(f, r, h) /\ SumFunctionOnSet(f, r) = h[r]
  BY <1>2, SumDefinition, SumsExist
<1>4. g[r] = h[r]
  BY <1>1, <1>2, <1>3, SumsAgree
<1>5. g[S] = IF S = {} THEN 0 ELSE f[First(S)] + g[r]
  BY <1>1 DEF Sums
<1> QED BY <1>1, <1>3, <1>4, <1>5

\* The sum over no element.
LEMMA SumEmpty == \A f : SumFunctionOnSet(f, {}) = 0
BY SumUnfold, FS_EmptySet

\* A sum of integers is an integer.
LEMMA SumInt ==
  ASSUME NEW f, NEW S, IsFiniteSet(S), \A x \in S : f[x] \in Int
  PROVE  SumFunctionOnSet(f, S) \in Int
<1> DEFINE G == {s \in SUBSET S : SumFunctionOnSet(f, s) \in Int}
<1>1. ASSUME NEW s \in SUBSET S, \A r \in SUBSET s : r # s => r \in G
      PROVE  s \in G
  <2>1. IsFiniteSet(s) /\ (s # {} => First(s) \in s)
    BY Rest
  <2>2. SumFunctionOnSet(f, s) =
          IF s = {} THEN 0
          ELSE f[First(s)] + SumFunctionOnSet(f, s \ {First(s)})
    BY <2>1, SumUnfold
  <2>3. s # {} => /\ SumFunctionOnSet(f, s \ {First(s)}) \in Int
                  /\ f[First(s)] \in Int
    BY <1>1, <2>1
  <2> QED BY <2>2, <2>3
<1>2. S \in G
  <2> HIDE DEF G
  <2> QED BY <1>1, SubsetInduction
<1> QED BY <1>2

\* The sum depends on what the function is on the set, and on nothing else.
LEMMA SumSame ==
  ASSUME NEW f, NEW g, NEW S, IsFiniteSet(S), \A x \in S : f[x] = g[x]
  PROVE  SumFunctionOnSet(f, S) = SumFunctionOnSet(g, S)
<1> DEFINE G == {s \in SUBSET S : SumFunctionOnSet(f, s) = SumFunctionOnSet(g, s)}
<1>1. ASSUME NEW s \in SUBSET S, \A r \in SUBSET s : r # s => r \in G
      PROVE  s \in G
  <2>1. IsFiniteSet(s) /\ (s # {} => First(s) \in s)
    BY Rest
  <2>2. /\ SumFunctionOnSet(f, s) =
             IF s = {} THEN 0
             ELSE f[First(s)] + SumFunctionOnSet(f, s \ {First(s)})
        /\ SumFunctionOnSet(g, s) =
             IF s = {} THEN 0
             ELSE g[First(s)] + SumFunctionOnSet(g, s \ {First(s)})
    BY <2>1, SumUnfold
  <2>3. s # {} => /\ SumFunctionOnSet(f, s \ {First(s)}) =
                       SumFunctionOnSet(g, s \ {First(s)})
                  /\ f[First(s)] = g[First(s)]
    BY <1>1, <2>1
  <2> QED BY <2>2, <2>3
<1>2. S \in G
  <2> HIDE DEF G
  <2> QED BY <1>1, SubsetInduction
<1> QED BY <1>2

\* A sum of zeros is zero.
LEMMA SumZero ==
  ASSUME NEW f, NEW S, IsFiniteSet(S), \A x \in S : f[x] = 0
  PROVE  SumFunctionOnSet(f, S) = 0
<1> DEFINE G == {s \in SUBSET S : SumFunctionOnSet(f, s) = 0}
<1>1. ASSUME NEW s \in SUBSET S, \A r \in SUBSET s : r # s => r \in G
      PROVE  s \in G
  <2>1. SumFunctionOnSet(f, s) =
          IF s = {} THEN 0
          ELSE f[First(s)] + SumFunctionOnSet(f, s \ {First(s)})
    BY FS_Subset, SumUnfold
  <2>2. CASE s # {}
    <3>1. First(s) \in s /\ f[First(s)] = 0
      BY <2>2, Rest
    <3>2. s \ {First(s)} \in G
      BY <1>1, <3>1
    <3> QED BY <2>1, <2>2, <3>1, <3>2
  <2> QED BY <2>1, <2>2
<1> HIDE DEF G
<1>2. S \in G
  BY <1>1, SubsetInduction
<1> QED BY <1>2 DEF G

\* Any element may be added last: the order does not matter.
LEMMA SumRemove ==
  ASSUME NEW f, NEW S, IsFiniteSet(S), \A x \in S : f[x] \in Int, NEW y \in S
  PROVE  SumFunctionOnSet(f, S) = SumFunctionOnSet(f, S \ {y}) + f[y]
<1> DEFINE G == {s \in SUBSET S : \A x \in s :
                   SumFunctionOnSet(f, s) = SumFunctionOnSet(f, s \ {x}) + f[x]}
<1>1. ASSUME NEW s \in SUBSET S, \A r \in SUBSET s : r # s => r \in G,
             NEW x \in s
      PROVE  SumFunctionOnSet(f, s) = SumFunctionOnSet(f, s \ {x}) + f[x]
  <2>1. PICK p : p = First(s)
    OBVIOUS
  <2>2. IsFiniteSet(s) /\ p \in s
    BY <2>1, Rest
  <2>3. SumFunctionOnSet(f, s) = f[p] + SumFunctionOnSet(f, s \ {p})
    BY <2>1, <2>2, SumUnfold
  <2>4. ASSUME NEW t \in SUBSET s
        PROVE  SumFunctionOnSet(f, t) \in Int
    BY <2>2, SumInt, FS_Subset
  <2>5. PICK a, b, c, d, e \in Int :
          /\ a = f[p] /\ b = f[x]
          /\ c = SumFunctionOnSet(f, s \ {p, x})
          /\ d = SumFunctionOnSet(f, s \ {p})
          /\ e = SumFunctionOnSet(f, s \ {x})
    <3>1. f[p] \in Int /\ f[x] \in Int
      BY <2>2
    <3>2. /\ SumFunctionOnSet(f, s \ {p, x}) \in Int
          /\ SumFunctionOnSet(f, s \ {p}) \in Int
          /\ SumFunctionOnSet(f, s \ {x}) \in Int
      BY <2>4
    <3> QED BY <3>1, <3>2
  <2>6. CASE p = x
    BY <2>3, <2>5, <2>6
  <2>7. CASE p # x
    <3>1. s \ {p} \in G /\ x \in s \ {p} /\ s \ {x} \in G /\ p \in s \ {x}
      BY <1>1, <2>2, <2>7
    <3>2. /\ SumFunctionOnSet(f, s \ {p}) =
               SumFunctionOnSet(f, (s \ {p}) \ {x}) + f[x]
          /\ SumFunctionOnSet(f, s \ {x}) =
               SumFunctionOnSet(f, (s \ {x}) \ {p}) + f[p]
      BY <3>1
    <3>3. (s \ {p}) \ {x} = s \ {p, x} /\ (s \ {x}) \ {p} = s \ {p, x}
      OBVIOUS
    <3>4. d = c + b /\ e = c + a
      BY <2>5, <3>2, <3>3
    <3>5. a + d = e + b
      BY <3>4
    <3> QED BY <2>3, <2>5, <3>5
  <2> QED BY <2>6, <2>7
<1>2. \A s \in SUBSET S : (\A r \in SUBSET s : r # s => r \in G) => s \in G
  BY <1>1
<1>3. S \in G
  <2> HIDE DEF G
  <2> QED BY <1>2, SubsetInduction
<1> QED BY <1>3

\* One element more.
LEMMA SumAdd ==
  ASSUME NEW f, NEW S, IsFiniteSet(S), NEW y, y \notin S,
         \A x \in S \union {y} : f[x] \in Int
  PROVE  SumFunctionOnSet(f, S \union {y}) = SumFunctionOnSet(f, S) + f[y]
<1>1. IsFiniteSet(S \union {y}) /\ (S \union {y}) \ {y} = S
  BY FS_AddElement
<1> QED BY <1>1, SumRemove

\* The function changes at one element.
LEMMA SumChange ==
  ASSUME NEW f, NEW g, NEW S, IsFiniteSet(S), NEW y \in S,
         \A x \in S : f[x] \in Int /\ g[x] \in Int,
         \A x \in S : x # y => g[x] = f[x]
  PROVE  SumFunctionOnSet(g, S) = SumFunctionOnSet(f, S) - f[y] + g[y]
<1>1. IsFiniteSet(S \ {y})
  BY FS_RemoveElement
<1>2. SumFunctionOnSet(f, S \ {y}) = SumFunctionOnSet(g, S \ {y})
  BY <1>1, SumSame
<1>3. PICK a, b, c \in Int : /\ a = SumFunctionOnSet(f, S \ {y})
                             /\ b = f[y] /\ c = g[y]
  BY <1>1, SumInt
<1>4. SumFunctionOnSet(f, S) = a + b /\ SumFunctionOnSet(g, S) = a + c
  BY <1>2, <1>3, SumRemove
<1>5. a + c = (a + b) - b + c
  BY <1>3
<1> QED BY <1>3, <1>4, <1>5

\* The sum of a function of integers.
LEMMA SumFunctionInt ==
  ASSUME NEW S, IsFiniteSet(S), NEW f \in [S -> Int]
  PROVE  SumFunction(f) \in Int
<1>1. SumFunctionOnSet(f, S) \in Int
  BY SumInt
<1> QED BY <1>1 DEF SumFunction

-----------------------------------------------------------------------------
(* Comparing sums.                                                         *)

-----------------------------------------------------------------------------
(* Remainders.                                                             *)

\* What the quotient and the remainder are.
LEMMA Quotient ==
  ASSUME NEW M \in Nat \ {0}, NEW v \in Int
  PROVE  \E d \in Int, r \in 0 .. M - 1 : v = M * d + r /\ r = v % M
<1>1. v = M * (v \div M) + (v % M) /\ v \div M \in Int /\ v % M \in 0 .. M - 1
  OBVIOUS
<1> QED BY <1>1

\* The remainder is 0 for the multiples, and for no other number.
LEMMA Multiple ==
  ASSUME NEW M \in Nat \ {0}, NEW v \in Int
  PROVE  v % M = 0 <=> \E q \in Int : v = M * q
<1>1. PICK d \in Int, r \in 0 .. M - 1 : v = M * d + r /\ r = v % M
  BY Quotient
<1>2. ASSUME r = 0
      PROVE  \E q \in Int : v = M * q
  BY <1>1, <1>2
<1>3. ASSUME NEW q \in Int, v = M * q
      PROVE  r = 0
  <2>1. PICK t \in Int : t = q - d
    OBVIOUS
  <2>2. M * t = M * q - M * d
    BY <2>1
  <2>3. M * t = r
    BY <1>1, <1>3, <2>2
  <2>4. (t >= 1 => M * t >= M) /\ (t <= -1 => M * t <= -M)
    OBVIOUS
  <2>5. t = 0
    BY <2>3, <2>4
  <2> QED BY <2>3, <2>5
<1> QED BY <1>1, <1>2, <1>3

\* A multiple stays one when the modulus is added or subtracted.
LEMMA MultipleShift ==
  ASSUME NEW M \in Nat \ {0}, NEW v \in Int, v % M = 0
  PROVE  (v + M) % M = 0 /\ (v - M) % M = 0
<1>1. PICK q \in Int : v = M * q
  BY Multiple
<1>2. v + M = M * (q + 1) /\ v - M = M * (q - 1)
  BY <1>1
<1>3. v + M \in Int /\ v - M \in Int /\ q + 1 \in Int /\ q - 1 \in Int
  OBVIOUS
<1> QED BY <1>2, <1>3, Multiple

\* Taking the remainder after a shift by c, and shifting back, changes a number
\* by a multiple of the modulus.
LEMMA ShiftedRemainder ==
  ASSUME NEW M \in Nat \ {0}, NEW c \in Int, NEW v \in Int
  PROVE  ((((v + c) % M) - c) - v) % M = 0
<1>1. PICK w \in Int : w = v + c
  OBVIOUS
<1>2. PICK d \in Int, r \in 0 .. M - 1 : w = M * d + r /\ r = w % M
  BY Quotient
<1>3. PICK q \in Int : q = -d
  OBVIOUS
<1>4. M * q = -(M * d)
  BY <1>3
<1>5. PICK u \in Int : u = (r - c) - v
  OBVIOUS
<1>6. u = M * q
  <2>1. PICK n \in Int : n = M * d
    OBVIOUS
  <2>2. v + c = n + r
    BY <1>1, <1>2, <2>1
  <2>3. u = -n
    BY <1>5, <2>2
  <2> QED BY <1>4, <2>1, <2>3
<1>7. u % M = 0
  BY <1>6, Multiple
<1> QED BY <1>1, <1>2, <1>5, <1>7
=============================================================================
