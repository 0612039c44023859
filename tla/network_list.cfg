\* Two protocols on one table, and the lists they get.
CONSTANTS
  BOAT_MAX_NETWORK_NUM = 2
  Builds = {{"ETHEREUM", "HLFABRIC"}}
  NoRec = NoRec
  DataLens = {40}
  FaultKinds = {}
  MaxFaults = 0
SPECIFICATION Spec
INVARIANT ListCountsItsNetworks
