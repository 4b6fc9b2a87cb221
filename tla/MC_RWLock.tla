---------------------------- MODULE MC_RWLock ----------------------------
(* Instances of RWLock for TLC: the .cfg files give the constants their values. *)
EXTENDS RWLock
=============================================================================
