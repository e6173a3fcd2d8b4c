----------------------------- MODULE MCMonitor -----------------------------
(* Constants for model checking Monitor. *)
EXTENDS Monitor
=============================================================================
