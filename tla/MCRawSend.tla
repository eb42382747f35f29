------------------------------ MODULE MCRawSend ------------------------------
(* RawSend on small instances; the constants are in the cfg files. *)
EXTENDS RawSend
==============================================================================
