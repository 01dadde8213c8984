---------------------------- MODULE Int32Arith ------------------------------
(***************************************************************************)
(* Go's int32, the type of every count and limit of the program: addition  *)
(* wraps around, in atomic.AddInt32 of store/bucket/keyentry.go as in the  *)
(* += of the aggregation in store/store.go.                                *)
(***************************************************************************)
EXTENDS Integers

CONSTANT MaxInt32  \* the largest int32: 2^31 - 1 in the program

ASSUME Int32Assumption == MaxInt32 \in Nat \ {0}

Int32 == -(MaxInt32 + 1) .. MaxInt32

\* Mutant of AddInt32: the sum does not wrap.
AddWide(a, b) == a + b

AddInt32(a, b) ==
  IF a + b > MaxInt32 THEN a + b - 2 * (MaxInt32 + 1)
  ELSE IF a + b < -(MaxInt32 + 1) THEN a + b + 2 * (MaxInt32 + 1)
  ELSE a + b
=============================================================================
