\* One fault of any kind; two protocols on one table, each of the ten in a pair.
CONSTANTS
  BOAT_MAX_NETWORK_NUM = 2
  Builds = {{"ETHEREUM", "HLFABRIC"}, {"PLATON", "HWBCS"}, {"PLATONE", "CHAINMAKER"},
            {"QUORUM", "CITA"}, {"VENACHAIN", "FISCOBCOS"}}
  NoRec = NoRec
  DataLens = {40}
  FaultKinds = {"read", "write", "internal", "overflow", "crash"}
  MaxFaults = 1
SPECIFICATION Spec
INVARIANTS TypeOK TablesSound ListShowsEveryNetwork
PROPERTIES OthersUntouched CreateOkReadable DeleteTellsTruth
