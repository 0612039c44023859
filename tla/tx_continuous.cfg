SPECIFICATION Spec
CONSTANTS
  NoHash = NoHash
  UINT32 = 4096
  Chains = {"ETHEREUM"}
  Recipients = {1}
  Payloads = {2}
  ChainIds = {2}
  NODE_CHAIN_ID = 2
  WAIT_PENDING_TX_TIMEOUT = 2
  MINE_INTERVAL = 1
  BLOCKLIMIT_OFFSET = 1
  MaxTx = 2
  MaxCalls = 4
  MaxHeight = 1
  FaultKinds = {}
  MaxFaults = 0
INVARIANT ContinuousTransfersAccepted
CHECK_DEADLOCK FALSE
