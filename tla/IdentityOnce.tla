----------------------------- MODULE IdentityOnce -----------------------------
(***************************************************************************)
(* What the device store promises of the identity: it is made once, and    *)
(* then it is the device's for good, whatever programs start, stop or are  *)
(* killed.                                                                 *)
(***************************************************************************)
CONSTANTS Key,    \* identities
          NoKey   \* the device has none yet

VARIABLE device

OnceInit == device = NoKey

OnceNext == device = NoKey /\ device' \in Key

OnceSpec == OnceInit /\ [][OnceNext]_device
=============================================================================
