\* The network store implements IndexDirectory, one failed write included.
CONSTANTS
  BOAT_MAX_NETWORK_NUM = 2
  Builds = {{"ETHEREUM", "HLFABRIC"}}
  NoRec = NoRec
  DataLens = {40, 200}
  FaultKinds = {"write"}
  MaxFaults = 1
SPECIFICATION Spec
PROPERTY ImplementsDirectory
