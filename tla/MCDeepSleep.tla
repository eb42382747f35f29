----------------------------- MODULE MCDeepSleep -----------------------------
(* DeepSleep has no constants: the model is finite as it is. *)
EXTENDS DeepSleep
==============================================================================
