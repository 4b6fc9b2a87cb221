---------------------------- MODULE MC_EventAsync ----------------------------
(* Instances of EventAsync for TLC: the .cfg files give the constants their values. *)
EXTENDS EventAsync
=============================================================================
