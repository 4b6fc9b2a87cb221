---------------------------- MODULE MC_EventManager ----------------------------
(* Instances of EventManager for TLC: the .cfg files give the constants their values. *)
EXTENDS EventManager
=============================================================================
