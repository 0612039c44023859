\* Fabric with orderers that answer, and reject.
SPECIFICATION Spec
CONSTANTS
  NoAnswer = "none"
  Protocols = {"HLFABRIC"}
  NodeCfgs <- MCNodeCfgs
  ENDORSER_MAX_NUM = 4
  MaxCalls = 5
  FaultKinds = {}
  MaxFaults = 0
  BOAT_RETRY_CNT = 3
INVARIANT SubmitSuccessMeansOrdered
CHECK_DEADLOCK FALSE
