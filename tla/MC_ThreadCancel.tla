---------------------------- MODULE MC_ThreadCancel ----------------------------
(* Instances of ThreadCancel for TLC: the .cfg files give the constants their values. *)
EXTENDS ThreadCancel
=============================================================================
