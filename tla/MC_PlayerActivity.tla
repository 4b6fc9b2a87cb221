------------------------- MODULE MC_PlayerActivity -------------------------
(* Instances of PlayerActivity for TLC: the .cfg files give the constants their values. *)
EXTENDS PlayerActivity
=============================================================================
