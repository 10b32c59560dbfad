----------------------------- MODULE MCDesktop -----------------------------
(* Desktop on small instances for TLC: the .cfg files give the constants.   *)
EXTENDS Desktop
=============================================================================
