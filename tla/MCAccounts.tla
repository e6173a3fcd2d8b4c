------------------------------ MODULE MCAccounts ------------------------------
(* Constants for model checking Accounts. *)
EXTENDS Accounts, TLC

CONSTANTS q1, q2, q3, q4

\* Requests are alike.
MCSymmetry == Permutations(Request)
=============================================================================
