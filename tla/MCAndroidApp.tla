---------------------------- MODULE MCAndroidApp ----------------------------
(* AndroidApp on small instances for TLC: the .cfg files give the constants. *)
EXTENDS AndroidApp
=============================================================================
