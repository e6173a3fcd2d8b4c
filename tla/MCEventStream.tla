---------------------------- MODULE MCEventStream ----------------------------
(* Constants for model checking EventStream. *)
EXTENDS EventStream

CONSTANT c1
=============================================================================
