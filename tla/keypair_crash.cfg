\* A power cut during a call on another index.
CONSTANTS
  BOAT_MAX_KEYPAIR_NUM = 2
  k1 = k1
  k2 = k2
  Keys = {k1, k2}
  NoKey = NoKey
  NoRec = NoRec
  NameLens = {8}
  FaultKinds = {"crash"}
  MaxFaults = 1
SPECIFICATION Spec
PROPERTY OthersSurviveCrash
