\* One fault of any kind, at any access of any call.
CONSTANTS
  BOAT_MAX_KEYPAIR_NUM = 2
  k1 = k1
  k2 = k2
  Keys = {k1, k2}
  NoKey = NoKey
  NoRec = NoRec
  NameLens = {8, 20}
  FaultKinds = {"read", "write", "internal", "crash"}
  MaxFaults = 1
SPECIFICATION Spec
INVARIANTS TypeOK TablesSound SignsForItself CreateFailsOnlyWhenFull
PROPERTIES OthersUntouched CreateOkUsable FailedDeleteKeeps DeleteErases FailedCreateHeals
