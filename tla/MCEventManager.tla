--------------------------- MODULE MCEventManager ---------------------------
(***************************************************************************)
(* Instances of EventManager for TLC.                                      *)
(***************************************************************************)
EXTENDS EventManager
=============================================================================
