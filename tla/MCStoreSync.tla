---------------------------- MODULE MCStoreSync -----------------------------
(***************************************************************************)
(* Instances of StoreSync for TLC.                                         *)
(***************************************************************************)
EXTENDS StoreSync

\* Callers, nodes and addresses are interchangeable.
Symmetry == Permutations(Callers) \union Permutations(Nodes)
              \union Permutations(Objs)
=============================================================================
