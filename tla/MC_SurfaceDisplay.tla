------------------------- MODULE MC_SurfaceDisplay -------------------------
(* Instances of SurfaceDisplay for TLC: the .cfg files give the constants their values. *)
EXTENDS SurfaceDisplay
=============================================================================
