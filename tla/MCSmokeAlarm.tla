----------------------------- MODULE MCSmokeAlarm -----------------------------
(* SmokeAlarm on small instances; the constants are in the cfg files. *)
EXTENDS SmokeAlarm
==============================================================================
