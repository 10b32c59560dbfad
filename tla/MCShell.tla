------------------------------ MODULE MCShell ------------------------------
(* Shell on a small instance for TLC. *)
EXTENDS Shell
=============================================================================
