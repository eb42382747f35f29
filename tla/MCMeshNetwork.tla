---------------------------- MODULE MCMeshNetwork ----------------------------
(* MeshNetwork on small topologies. *)
EXTENDS MeshNetwork, TLC

CONSTANTS a, b, c

Triangle == {<<a, b>>, <<b, a>>, <<b, c>>, <<c, b>>, <<a, c>>, <<c, a>>}
Chain == {<<a, b>>, <<b, a>>, <<b, c>>, <<c, b>>}
OneMessage == {<<a, 6>>}
OneHasTheTime == a :> 6 @@ b :> 0 @@ c :> 0
==============================================================================
