------------------------------ MODULE MCMainLoop ------------------------------
(* MainLoop on small instances; the constants are in the cfg files. *)
EXTENDS MainLoop
==============================================================================
