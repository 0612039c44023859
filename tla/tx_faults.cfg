SPECIFICATION Spec
CONSTANTS
  NoHash = NoHash
  UINT32 = 4096
  Chains = {"ETHEREUM", "PLATON", "PLATONE", "QUORUM", "VENACHAIN", "FISCOBCOS", "CITA"}
  Recipients = {1}
  Payloads = {2}
  ChainIds = {2, 3}
  NODE_CHAIN_ID = 2
  WAIT_PENDING_TX_TIMEOUT = 2
  MINE_INTERVAL = 1
  BLOCKLIMIT_OFFSET = 1
  MaxTx = 2
  MaxCalls = 4
  MaxHeight = 1
  FaultKinds = {"timeout", "answer", "garbage", "reject", "nomem", "sign", "packbuf"}
  MaxFaults = 1
INVARIANTS TypeOK SuccessMeansMined PendingMeansAccepted HashIsOfLastSend SenderRecovers EverySuccessIsATransaction
PROPERTIES CallReturns SentIsWhatWasSet PrivatePayloadStaysPrivate
CHECK_DEADLOCK FALSE
