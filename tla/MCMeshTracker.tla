---------------------------- MODULE MCMeshTracker ----------------------------
(* MeshTracker on small instances; the constants are in the cfg files. *)
EXTENDS MeshTracker
==============================================================================
