CONSTANTS
  p1 = p1
  p2 = p2
  g1 = g1
  g2 = g2
  k1 = k1
  k2 = k2
  k3 = k3
  Proc = {p1, p2}
  Gateway = {g1, g2}
  Key = {k1, k2, k3}
  NoKey = NoKey
  NoToken = NoToken
  Bootstrap = Bootstrap
  NoGateway = NoGateway
SPECIFICATION StoreSpec
INVARIANTS
  StoreTypeOK
  PresentedIsStored
  StoredTokenIsOurs
PROPERTIES
  IdentityIsForGood
SYMMETRY StoreSymmetry
CHECK_DEADLOCK FALSE
