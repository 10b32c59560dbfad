-------------------------- MODULE MCAndroidClient --------------------------
(* AndroidClient on a small instance for TLC. *)
EXTENDS AndroidClient
=============================================================================
