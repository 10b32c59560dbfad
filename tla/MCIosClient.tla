---------------------------- MODULE MCIosClient ----------------------------
(* IosClient on small instances for TLC: the .cfg files give the constants. *)
EXTENDS IosClient
=============================================================================
