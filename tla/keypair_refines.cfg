\* The keypair store implements IndexDirectory, one failed write included.
CONSTANTS
  BOAT_MAX_KEYPAIR_NUM = 3
  k1 = k1
  k2 = k2
  Keys = {k1, k2}
  NoKey = NoKey
  NoRec = NoRec
  NameLens = {8}
  FaultKinds = {"write"}
  MaxFaults = 1
SYMMETRY KeySymmetry
SPECIFICATION Spec
PROPERTY ImplementsDirectory
