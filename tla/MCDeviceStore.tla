---------------------------- MODULE MCDeviceStore ----------------------------
(* Instances of DeviceStore for TLC.                                       *)
EXTENDS DeviceStore, TLC

CONSTANTS p1, p2, g1, g2, k1, k2, k3

StoreSymmetry ==
  Permutations(Proc) \cup Permutations(Gateway) \cup Permutations(Key)
=============================================================================
