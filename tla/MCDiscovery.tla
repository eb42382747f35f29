----------------------------- MODULE MCDiscovery -----------------------------
(* Discovery on small instances; the constants are in the cfg files. *)
EXTENDS Discovery
==============================================================================
