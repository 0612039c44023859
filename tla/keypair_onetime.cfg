\* The one-time keypair after its delete.
CONSTANTS
  BOAT_MAX_KEYPAIR_NUM = 2
  k1 = k1
  k2 = k2
  Keys = {k1, k2}
  NoKey = NoKey
  NoRec = NoRec
  NameLens = {8}
  FaultKinds = {}
  MaxFaults = 0
SPECIFICATION Spec
PROPERTY OnetimeDeleteErases
