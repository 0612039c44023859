\* One fault of any kind at any request; up to two submits or evaluates.
SPECIFICATION Spec
CONSTANTS
  NoAnswer = "none"
  Protocols = {"HLFABRIC", "HWBCS", "CHAINMAKER_V1", "CHAINMAKER_V2"}
  NodeCfgs <- MCNodeCfgs
  ENDORSER_MAX_NUM = 4
  MaxCalls = 5
  FaultKinds = {"connect", "send", "timeout", "protocol", "pack", "nomem"}
  MaxFaults = 1
  BOAT_RETRY_CNT = 3
INVARIANTS TypeOK EndorsementsAreOfThisProposal EveryGroupEndorsed EvaluateResultIsCurrent
  HwbcsSuccessMeansOrdered  SocketsClosed SyncInvokeMeansExecuted
PROPERTIES ResponsesFit CallReturns
CHECK_DEADLOCK FALSE
