--------------------------- MODULE BoatWalletApi ---------------------------
(***************************************************************************)
(* The wallet API of the seven JSON-RPC protocols: each function is the    *)
(* list of the steps it takes, in the order of the code, and the change it *)
(* makes before the first of them.  The arguments are well-formed: the     *)
(* checks for NULL pointers and malformed strings return before anything   *)
(* is changed, but for those of TxInitRefused.                             *)
(***************************************************************************)
EXTENDS BoatTransaction

----------------------------------------------------------------------------
(* What the functions of the protocols have in common.                     *)

\* A function of the wallet, which leaves the transaction alone.
WalletCall(c, op, steps) == Api(c, op, steps) /\ UNCHANGED tx
\* A function of a transaction that TxInit has tied to the wallet.
TxCall(c, op, steps) == tx.wallet_ptr /\ WalletCall(c, op, steps)

\* Keypair and network are read, a web3 context is made; nothing is left of
\* an attempt that fails.
WalletInit(c, ids, eip155) ==
  /\ Called(c) /\ ~wallet.open
  /\ \/ /\ \E id \in ids, e \in eip155 :
             wallet' = [open |-> TRUE, key |-> Key, chain_id |-> id, eip155 |-> e]
        /\ web3' = [json |-> 1, result |-> 0]
        /\ UNCHANGED faults
     \/ Fault("nomem") /\ UNCHANGED <<wallet, web3>>
  /\ UNCHANGED <<chain, tx, call, todo, wait, ret, rpc, node, sent, acks>>

\* The application gives up the wallet and its transaction.
WalletDeInit(c) ==
  /\ Called(c) /\ wallet.open
  /\ wallet' = Closed
  /\ web3' = [json |-> 0, result |-> 0]
  /\ tx' = NewTx
  /\ ret' = NoRet
  /\ sent' = NoRaw
  /\ UNCHANGED <<chain, call, todo, wait, rpc, node, faults, acks>>

WalletSet(c, w) ==
  /\ Called(c) /\ wallet.open
  /\ wallet' = w
  /\ ret' = NoRet
  /\ UNCHANGED <<chain, web3, tx, call, todo, wait, rpc, node, faults, sent, acks>>

\* The fields are cleared, the hash and the flags of the last use are not.
TxInit(c, sync, private, steps) ==
  /\ Api(c, "TxInit", steps)
  /\ tx' = [tx EXCEPT !.wallet_ptr = TRUE, !.is_sync = sync, !.is_private = private, !.f = NoFields]

\* A malformed argument that is noticed when the fields are cleared already.
TxInitRefused(c, sync) ==
  TxChange(c, [tx EXCEPT !.wallet_ptr = TRUE, !.is_sync = sync, !.f = NoFields])

\* The gas price is the caller's or the node's.
PriceSteps(auto) == IF auto THEN <<Step("gasprice")>> ELSE <<SetStep([gasprice |-> 1])>>

\* A random nonce: one that was never used.
FreshNonce == CHOOSE n \in 1..(MaxTx + MaxFaults + 1) : \A a \in node.accepted \cup node.late : Nonce(a) # n

\* CITA's random nonce fills the buffer; its first bytes are no one's.
RandomNonce ==
  LET filled == {Byte * Byte * (k + 1) - 1 : k \in 1..(MaxTx + MaxFaults + 1)}
  IN  CHOOSE n \in filled : \A a \in node.accepted \cup node.late : Nonce(a) # n

Explicit == 0..1     \* nonces the application may set itself
Amounts  == {1}      \* values it may transfer

\* Asking for a nonce.
NonceAuto(c) == TxCall(c, "TxSetNonce", <<Step("nonce")>>)
\* Transfer: nonce, value and data, then TxSend.
Transfer(c, data, send) ==
  \E v \in Amounts :
    TxCall(c, "Transfer", <<Step("nonce"), SetStep([value |-> v, data |-> data])>> \o send)

----------------------------------------------------------------------------
(* api_ethereum.c                                                          *)

BoatEthWalletInit == WalletInit("ETHEREUM", ChainIds, BOOLEAN)
BoatEthWalletDeInit == WalletDeInit("ETHEREUM")
BoatEthTxInit ==
  \E sync, auto \in BOOLEAN, to \in Recipients :
    TxInit("ETHEREUM", sync, FALSE,
           PriceSteps(auto) \o <<SetStep([gaslimit |-> 1, recipient |-> to, value |-> 0])>>)
BoatEthTxSetNonce == NonceAuto("ETHEREUM") \/ \E n \in Explicit : TxSet("ETHEREUM", "nonce", n)
BoatEthTxSetGasPrice == TxSet("ETHEREUM", "gasprice", 1) \/ TxCall("ETHEREUM", "TxSetGasPrice", <<Step("gasprice")>>)
BoatEthTxSetGasLimit == TxSet("ETHEREUM", "gaslimit", 1)
BoatEthTxSetRecipient == \E a \in Recipients : TxSet("ETHEREUM", "recipient", a)
BoatEthTxSetValue == \E v \in Amounts \cup {0} : TxSet("ETHEREUM", "value", v)
BoatEthTxSetData == \E d \in Payloads \cup {0} : TxSet("ETHEREUM", "data", d)
BoatEthSendRawtxWithReceipt == <<Step("send"), Step("receipt")>>
EthSend == IF tx.is_sync THEN BoatEthSendRawtxWithReceipt ELSE <<Step("send")>>
BoatEthTxSend == TxCall("ETHEREUM", "TxSend", EthSend)
BoatEthTransfer == Transfer("ETHEREUM", 0, EthSend)
BoatEthCallContractFunc == TxCall("ETHEREUM", "Call", <<Ask(web3_call(tx.f["recipient"]))>>)
BoatEthGetTransactionReceipt == TxCall("ETHEREUM", "Receipt", <<Step("receipt")>>)
BoatEthWalletGetBalance == WalletCall("ETHEREUM", "GetBalance", <<Ask(web3_getBalance(wallet.key))>>)
BoatEthWalletChangeNodeUrl == WalletSet("ETHEREUM", wallet)
BoatEthWalletChangeChainID == \E id \in ChainIds : WalletSet("ETHEREUM", [wallet EXCEPT !.chain_id = id])
BoatEthWalletChangeEIP155Comp == \E e \in BOOLEAN : WalletSet("ETHEREUM", [wallet EXCEPT !.eip155 = e])

EthApi ==
  \/ BoatEthWalletInit \/ BoatEthWalletDeInit \/ BoatEthTxInit \/ BoatEthTxSetNonce
  \/ BoatEthTxSetGasPrice \/ BoatEthTxSetGasLimit \/ BoatEthTxSetRecipient \/ BoatEthTxSetValue
  \/ BoatEthTxSetData \/ BoatEthTxSend \/ BoatEthTransfer \/ BoatEthCallContractFunc
  \/ BoatEthGetTransactionReceipt \/ BoatEthWalletGetBalance \/ BoatEthWalletChangeNodeUrl
  \/ BoatEthWalletChangeChainID \/ BoatEthWalletChangeEIP155Comp

----------------------------------------------------------------------------
(* api_venachain.c                                                         *)

BoatVenachainWalletInit == WalletInit("VENACHAIN", ChainIds, BOOLEAN)
BoatVenachainWalletDeInit == WalletDeInit("VENACHAIN")
BoatVenachainTxInit ==
  \E sync, auto \in BOOLEAN, to \in Recipients :
    TxInit("VENACHAIN", sync, FALSE,
           PriceSteps(auto) \o <<SetStep([gaslimit |-> 1, recipient |-> to, value |-> 0])>>)
BoatVenachainTxSetNonce == NonceAuto("VENACHAIN") \/ \E n \in Explicit : TxSet("VENACHAIN", "nonce", n)
BoatVenachainTxSetGasPrice == TxSet("VENACHAIN", "gasprice", 1) \/ TxCall("VENACHAIN", "TxSetGasPrice", <<Step("gasprice")>>)
BoatVenachainTxSetGasLimit == TxSet("VENACHAIN", "gaslimit", 1)
BoatVenachainTxSetRecipient == \E a \in Recipients : TxSet("VENACHAIN", "recipient", a)
BoatVenachainTxSetValue == \E v \in Amounts \cup {0} : TxSet("VENACHAIN", "value", v)
BoatVenachainTxSetData == \E d \in Payloads \cup {0} : TxSet("VENACHAIN", "data", d)
BoatVenachainSendRawtxWithReceipt == <<Step("send"), Step("receipt")>>
VenachainSend == IF tx.is_sync THEN BoatVenachainSendRawtxWithReceipt ELSE <<Step("send")>>
BoatVenachainTxSend == TxCall("VENACHAIN", "TxSend", VenachainSend)
BoatVenachainTransfer == Transfer("VENACHAIN", 0, VenachainSend)
BoatVenachainCallContractFunc == TxCall("VENACHAIN", "Call", <<Ask(web3_call(tx.f["recipient"]))>>)
BoatVenachainGetTransactionReceipt == TxCall("VENACHAIN", "Receipt", <<Step("receipt")>>)
BoatVenachainWalletGetBalance == WalletCall("VENACHAIN", "GetBalance", <<Ask(web3_getBalance(wallet.key))>>)
BoatVenachainWalletChangeNodeUrl == WalletSet("VENACHAIN", wallet)
BoatVenachainWalletChangeChainID == \E id \in ChainIds : WalletSet("VENACHAIN", [wallet EXCEPT !.chain_id = id])
BoatVenachainWalletChangeEIP155Comp == \E e \in BOOLEAN : WalletSet("VENACHAIN", [wallet EXCEPT !.eip155 = e])

VenachainApi ==
  \/ BoatVenachainWalletInit \/ BoatVenachainWalletDeInit \/ BoatVenachainTxInit
  \/ BoatVenachainTxSetNonce \/ BoatVenachainTxSetGasPrice \/ BoatVenachainTxSetGasLimit
  \/ BoatVenachainTxSetRecipient \/ BoatVenachainTxSetValue \/ BoatVenachainTxSetData
  \/ BoatVenachainTxSend \/ BoatVenachainTransfer \/ BoatVenachainCallContractFunc
  \/ BoatVenachainGetTransactionReceipt \/ BoatVenachainWalletGetBalance
  \/ BoatVenachainWalletChangeNodeUrl \/ BoatVenachainWalletChangeChainID
  \/ BoatVenachainWalletChangeEIP155Comp

----------------------------------------------------------------------------
(* api_platon.c                                                            *)

BoatPlatONWalletInit == WalletInit("PLATON", ChainIds, BOOLEAN)
BoatPlatONWalletDeInit == WalletDeInit("PLATON")
BoatPlatONTxInit ==
  \/ TxInitRefused("PLATON", tx.is_sync)
  \/ \E sync, auto \in BOOLEAN, to \in Recipients :
       TxInit("PLATON", sync, FALSE,
              PriceSteps(auto) \o <<SetStep([gaslimit |-> 1, recipient |-> to, value |-> 0, recipientbech32 |-> to])>>)
BoatPlatONTxSetNonce == NonceAuto("PLATON") \/ \E n \in Explicit : TxSet("PLATON", "nonce", n)
BoatPlatONTxSetGasPrice == TxSet("PLATON", "gasprice", 1) \/ TxCall("PLATON", "TxSetGasPrice", <<Step("gasprice")>>)
BoatPlatONTxSetGasLimit == TxSet("PLATON", "gaslimit", 1)
BoatPlatONTxSetRecipient == \E a \in Recipients : TxSet("PLATON", "recipient", a)
BoatPlatONTxSetValue == \E v \in Amounts \cup {0} : TxSet("PLATON", "value", v)
BoatPlatONTxSetData == \E d \in Payloads \cup {0} : TxSet("PLATON", "data", d)
BoatPlatONSendRawtxWithReceipt == <<Step("send"), Step("receipt")>>
PlatONSend == IF tx.is_sync THEN BoatPlatONSendRawtxWithReceipt ELSE <<Step("send")>>
BoatPlatONTxSend == TxCall("PLATON", "TxSend", PlatONSend)
BoatPlatONTransfer == Transfer("PLATON", 0, PlatONSend)
BoatPlatONCallContractFunc == TxCall("PLATON", "Call", <<Ask(platon_web3_call(tx.f["recipientbech32"]))>>)
BoatPlatONGetTransactionReceipt == TxCall("PLATON", "Receipt", <<Step("receipt")>>)
BoatPlatONWalletGetBalance == WalletCall("PLATON", "GetBalance", <<Ask(web3_getBalance(wallet.key))>>)

PlatONApi ==
  \/ BoatPlatONWalletInit \/ BoatPlatONWalletDeInit \/ BoatPlatONTxInit \/ BoatPlatONTxSetNonce
  \/ BoatPlatONTxSetGasPrice \/ BoatPlatONTxSetGasLimit \/ BoatPlatONTxSetRecipient
  \/ BoatPlatONTxSetValue \/ BoatPlatONTxSetData \/ BoatPlatONTxSend \/ BoatPlatONTransfer
  \/ BoatPlatONCallContractFunc \/ BoatPlatONGetTransactionReceipt \/ BoatPlatONWalletGetBalance

----------------------------------------------------------------------------
(* api_platone.c                                                           *)

BoatPlatoneWalletInit == WalletInit("PLATONE", ChainIds, BOOLEAN)
BoatPlatoneWalletDeInit == WalletDeInit("PLATONE")
BoatPlatoneTxInit ==
  \E sync, auto \in BOOLEAN, to \in Recipients :
    TxInit("PLATONE", sync, FALSE,
           PriceSteps(auto) \o <<SetStep([gaslimit |-> 1, recipient |-> to, value |-> 0, txtype |-> 0])>>)
BoatPlatoneTxSetNonce == NonceAuto("PLATONE") \/ \E n \in Explicit : TxSet("PLATONE", "nonce", n)
BoatPlatoneTxSetGasPrice == TxSet("PLATONE", "gasprice", 1) \/ TxCall("PLATONE", "TxSetGasPrice", <<Step("gasprice")>>)
BoatPlatoneTxSetGasLimit == TxSet("PLATONE", "gaslimit", 1)
BoatPlatoneTxSetRecipient == \E a \in Recipients : TxSet("PLATONE", "recipient", a)
BoatPlatoneTxSetValue == \E v \in Amounts \cup {0} : TxSet("PLATONE", "value", v)
BoatPlatoneTxSetData == \E d \in Payloads \cup {0} : TxSet("PLATONE", "data", d)
BoatPlatoneTxSetTxtype == \E t \in 0..1 : TxSet("PLATONE", "txtype", t)
BoatPlatoneSendRawtxWithReceipt == <<Step("send"), Step("receipt")>>
PlatoneSend == IF tx.is_sync THEN BoatPlatoneSendRawtxWithReceipt ELSE <<Step("send")>>
BoatPlatoneTxSend == TxCall("PLATONE", "TxSend", PlatoneSend)
BoatPlatoneTransfer == Transfer("PLATONE", TxTypeData, PlatoneSend)
BoatPlatoneCallContractFunc == TxCall("PLATONE", "Call", <<Ask(web3_call(tx.f["recipient"]))>>)
BoatPlatoneGetTransactionReceipt == TxCall("PLATONE", "Receipt", <<Step("receipt")>>)
BoatPlatoneWalletGetBalance == WalletCall("PLATONE", "GetBalance", <<Ask(web3_getBalance(wallet.key))>>)
BoatPlatoneWalletChangeNodeUrl == WalletSet("PLATONE", wallet)
BoatPlatoneWalletChangeChainID == \E id \in ChainIds : WalletSet("PLATONE", [wallet EXCEPT !.chain_id = id])
BoatPlatoneWalletChangeEIP155Comp == \E e \in BOOLEAN : WalletSet("PLATONE", [wallet EXCEPT !.eip155 = e])
\* The node is asked for the address of the manager, which is asked for the nodes.
web3_platone_call_getNodesManagerAddr == <<Ask(web3_call(0)), Ask(web3_call(0))>>
BoatPlatoneGetNodesInfo == TxCall("PLATONE", "GetNodesInfo", web3_platone_call_getNodesManagerAddr)

PlatoneApi ==
  \/ BoatPlatoneWalletInit \/ BoatPlatoneWalletDeInit \/ BoatPlatoneTxInit \/ BoatPlatoneTxSetNonce
  \/ BoatPlatoneTxSetGasPrice \/ BoatPlatoneTxSetGasLimit \/ BoatPlatoneTxSetRecipient
  \/ BoatPlatoneTxSetValue \/ BoatPlatoneTxSetData \/ BoatPlatoneTxSetTxtype \/ BoatPlatoneTxSend
  \/ BoatPlatoneTransfer \/ BoatPlatoneCallContractFunc \/ BoatPlatoneGetTransactionReceipt
  \/ BoatPlatoneWalletGetBalance \/ BoatPlatoneWalletChangeNodeUrl
  \/ BoatPlatoneWalletChangeChainID \/ BoatPlatoneWalletChangeEIP155Comp
  \/ BoatPlatoneGetNodesInfo

----------------------------------------------------------------------------
(* api_quorum.c                                                            *)

BoatQuorumWalletInit == WalletInit("QUORUM", ChainIds, BOOLEAN)
BoatQuorumWalletDeInit == WalletDeInit("QUORUM")
\* The gas price is empty.
BoatQuorumTxInit ==
  \E sync, private \in BOOLEAN, to \in Recipients :
    TxInit("QUORUM", sync, private,
           <<SetStep([gaslimit |-> 1, recipient |-> to, privatefor |-> IF private THEN 1 ELSE 0, value |-> 0])>>)
BoatQuorumTxSetNonce == NonceAuto("QUORUM") \/ \E n \in Explicit : TxSet("QUORUM", "nonce", n)
BoatQuorumTxSetGasLimit == TxSet("QUORUM", "gaslimit", 1)
BoatQuorumTxSetRecipient == \E a \in Recipients : TxSet("QUORUM", "recipient", a)
BoatQuorumTxSetValue == \E v \in Amounts \cup {0} : TxSet("QUORUM", "value", v)
BoatQuorumTxSetData == \E d \in Payloads \cup {0} : TxSet("QUORUM", "data", d)
BoatQuorumTxSetPrivateFor == TxSet("QUORUM", "privatefor", 1)
\* Mutant: a synchronous private transaction is not filled.
MutantBoatQuorumSendRawtxWithReceipt == <<Step("send"), Step("receipt")>>

\* A private transaction is filled first.
BoatQuorumSendRawtxWithReceipt ==
  (IF tx.is_private THEN <<Step("fill"), Step("send")>> ELSE <<Step("send")>>) \o <<Step("receipt")>>
QuorumSend == IF tx.is_sync THEN BoatQuorumSendRawtxWithReceipt
              ELSE IF tx.is_private THEN <<Step("fill"), Step("send")>> ELSE <<Step("send")>>
BoatQuorumTxSend == TxCall("QUORUM", "TxSend", QuorumSend)
BoatQuorumTransfer == Transfer("QUORUM", 0, QuorumSend)
BoatQuorumCallContractFunc == TxCall("QUORUM", "Call", <<Ask(web3_call(tx.f["recipient"]))>>)
BoatQuorumGetTransactionReceipt == TxCall("QUORUM", "Receipt", <<Step("receipt")>>)
BoatQuorumWalletGetBalance == WalletCall("QUORUM", "GetBalance", <<Ask(web3_getBalance(wallet.key))>>)
BoatQuorumWalletSetChainId == \E id \in ChainIds : WalletSet("QUORUM", [wallet EXCEPT !.chain_id = id])

QuorumApi ==
  \/ BoatQuorumWalletInit \/ BoatQuorumWalletDeInit \/ BoatQuorumTxInit \/ BoatQuorumTxSetNonce
  \/ BoatQuorumTxSetGasLimit \/ BoatQuorumTxSetRecipient \/ BoatQuorumTxSetValue
  \/ BoatQuorumTxSetData \/ BoatQuorumTxSetPrivateFor \/ BoatQuorumTxSend \/ BoatQuorumTransfer
  \/ BoatQuorumCallContractFunc \/ BoatQuorumGetTransactionReceipt \/ BoatQuorumWalletGetBalance
  \/ BoatQuorumWalletSetChainId

----------------------------------------------------------------------------
(* api_fiscobcos.c: no coin, so no Transfer                                *)

BoatFiscobcosWalletInit == WalletInit("FISCOBCOS", {NODE_CHAIN_ID}, {FALSE})
BoatFiscobcosWalletDeInit == WalletDeInit("FISCOBCOS")
\* The limit is fixed here, from the block number of now.
BoatFiscobcosTxInit ==
  \/ \E sync \in BOOLEAN : TxInitRefused("FISCOBCOS", sync)
  \/ \E sync \in BOOLEAN, to \in Recipients, id \in ChainIds :
       TxInit("FISCOBCOS", sync, FALSE,
              <<SetStep([gasprice |-> 1, gaslimit |-> 1, recipient |-> to, chainid |-> id, groupid |-> 1]),
                Step("block"), SetStep([value |-> 0])>>)
BoatFiscobcosTxSetNonce == \E n \in Explicit \cup {FreshNonce} : TxSet("FISCOBCOS", "nonce", n)
BoatFiscobcosTxSetGasPrice == TxSet("FISCOBCOS", "gasprice", 1)
BoatFiscobcosTxSetGasLimit == TxSet("FISCOBCOS", "gaslimit", 1)
BoatFiscobcosTxSetRecipient == \E a \in Recipients : TxSet("FISCOBCOS", "recipient", a)
BoatFiscobcosTxSetValue == \E v \in Amounts \cup {0} : TxSet("FISCOBCOS", "value", v)
BoatFiscobcosTxSetData == \E d \in Payloads \cup {0} : TxSet("FISCOBCOS", "data", d)
BoatFiscobcosSendRawtxWithReceipt == <<Step("send"), Step("receipt")>>
FiscobcosSend == IF tx.is_sync THEN BoatFiscobcosSendRawtxWithReceipt ELSE <<Step("send")>>
BoatFiscobcosTxSend == TxCall("FISCOBCOS", "TxSend", FiscobcosSend)
BoatFiscobcosCallContractFunc == TxCall("FISCOBCOS", "Call", <<Ask(web3_fiscobcos_call(tx.f["recipient"]))>>)
BoatFiscobcosGetTransactionReceipt == TxCall("FISCOBCOS", "Receipt", <<Step("receipt")>>)
BoatFiscobcosGetBlockNumber == TxCall("FISCOBCOS", "GetBlockNumber", <<Ask(web3_fiscobcos_getBlockNumber)>>)

FiscobcosApi ==
  \/ BoatFiscobcosWalletInit \/ BoatFiscobcosWalletDeInit \/ BoatFiscobcosTxInit
  \/ BoatFiscobcosTxSetNonce \/ BoatFiscobcosTxSetGasPrice \/ BoatFiscobcosTxSetGasLimit
  \/ BoatFiscobcosTxSetRecipient \/ BoatFiscobcosTxSetValue \/ BoatFiscobcosTxSetData
  \/ BoatFiscobcosTxSend \/ BoatFiscobcosCallContractFunc \/ BoatFiscobcosGetTransactionReceipt
  \/ BoatFiscobcosGetBlockNumber

----------------------------------------------------------------------------
(* api_cita.c: no coin, so no Transfer                                     *)

BoatCitaWalletInit == WalletInit("CITA", ChainIds, {FALSE})
BoatCitaWalletDeInit == WalletDeInit("CITA")
BoatCitaTxInit ==
  \/ \E sync \in BOOLEAN : TxInitRefused("CITA", sync)
  \/ \E sync \in BOOLEAN, to \in Recipients :
       TxInit("CITA", sync, FALSE,
              <<SetStep([recipient |-> to, gaslimit |-> 1]), Step("block"), SetStep([value |-> 0])>>)
\* The nonces of one byte and the smallest of two, or a random one.
BoatCitaTxSetNonce ==
  \E n \in Explicit \cup {Byte, RandomNonce} :
    tx.wallet_ptr /\ TxChange("CITA", [tx EXCEPT !.f = CitaNonce(@, n)])
BoatCitaTxSetQuotaLimit == TxSet("CITA", "gaslimit", 1)
BoatCitaTxSetRecipient == \E a \in Recipients : TxSet("CITA", "recipient", a)
BoatCitaTxSetValue == \E v \in Amounts \cup {0} : TxSet("CITA", "value", v)
BoatCitaTxSetData == \E d \in Payloads \cup {0} : TxSet("CITA", "data", d)
BoatCitaSendRawtxWithReceipt == <<Step("send"), Step("receipt")>>
CitaSend == IF tx.is_sync THEN BoatCitaSendRawtxWithReceipt ELSE <<Step("send")>>
BoatCitaTxSend == TxCall("CITA", "TxSend", CitaSend)
BoatCitaCallContractFunc == TxCall("CITA", "Call", <<Ask(web3_cita_call(tx.f["recipient"]))>>)
BoatCitaGetTransactionReceipt == TxCall("CITA", "Receipt", <<Step("receipt")>>)
BoatCitaGetBlockNumber == TxCall("CITA", "GetBlockNumber", <<Ask(web3_cita_getBlockNumber)>>)

CitaApi ==
  \/ BoatCitaWalletInit \/ BoatCitaWalletDeInit \/ BoatCitaTxInit \/ BoatCitaTxSetNonce
  \/ BoatCitaTxSetQuotaLimit \/ BoatCitaTxSetRecipient \/ BoatCitaTxSetValue \/ BoatCitaTxSetData
  \/ BoatCitaTxSend \/ BoatCitaCallContractFunc \/ BoatCitaGetTransactionReceipt
  \/ BoatCitaGetBlockNumber

----------------------------------------------------------------------------
(* The specification.                                                      *)

Init ==
  /\ chain \in Chains
  /\ wallet = Closed
  /\ web3 = [json |-> 0, result |-> 0]
  /\ tx = NewTx
  /\ call = "none" /\ todo = <<>> /\ ret = NoRet
  /\ rpc = NoRpc
  /\ wait = WAIT_PENDING_TX_TIMEOUT
  /\ node = NoNode
  /\ faults = [left |-> MaxFaults, seen |-> {}]
  /\ sent = NoRaw /\ acks = 0 /\ calls = 0

Application ==
  EthApi \/ VenachainApi \/ PlatONApi \/ PlatoneApi \/ QuorumApi \/ FiscobcosApi \/ CitaApi

Sends == EthSendRawtx \/ PlatONSendRawtx \/ VenachainSendRawtx \/ PlatoneSendRawtx
           \/ FiscobcosSendRawtx \/ QuorumSendRawtx \/ CitaSendRawtx \/ CitaSendRawtx_NoPackBuffer
Requests == Request_Nonce \/ Request_GasPrice \/ Request_Block \/ Request_Receipt \/ Request_Query
              \/ QuorumSendFilltx
TakesAnswer == Answer_Nonce \/ Answer_GasPrice \/ Answer_Block \/ Answer_Fill \/ Answer_Send
                 \/ Answer_Receipt \/ Answer_Query

\* The running call goes on.
Client == Do_Set \/ Sends \/ Requests \/ TakesAnswer
\* The request comes to an end.
Network == Node_Handle \/ Node_Refuse \/ Node_Garbage \/ Answer_Lost \/ Rpc_Timeout
\* The node by itself.
Node == Node_Late \/ Node_Mine \/ Node_Block

Next == Application \/ Client \/ Network \/ Node

\* A call that runs goes on, and a request ends: RpcRequestSync has a timeout.
\* The application need not call anything and the node need not mine.
Spec == Init /\ [][Next]_vars /\ WF_vars(Client) /\ WF_vars(Network)

----------------------------------------------------------------------------
(* Properties.                                                             *)

Raws == node.accepted \cup node.late

\* Type correctness of the wallet, the transaction, the running call and the
\* node (Web3IntfContext, BoatEthTx and its kin, the locals of the receipt loop).
TypeOK ==
  /\ chain \in AllChains
  /\ wallet \in [open : BOOLEAN, key : {Key}, chain_id : ChainIds, eip155 : BOOLEAN]
  /\ web3 \in [json : 0..2, result : Nat]
  /\ DOMAIN tx = {"wallet_ptr", "is_sync", "is_private", "tx_hash", "f"}
  /\ tx.wallet_ptr \in BOOLEAN /\ tx.is_sync \in BOOLEAN /\ tx.is_private \in BOOLEAN
  /\ tx.f \in [FieldNames -> Nat]
  /\ call = "none" <=> todo = <<>>
  /\ rpc.st \in {"idle", "sent", "answered"}
  /\ wait \in 1..WAIT_PENDING_TX_TIMEOUT
  /\ node.height \in 0..MaxHeight
  /\ node.pool \subseteq node.accepted /\ Mined \subseteq node.accepted
  /\ Cardinality(node.accepted) <= MaxTx
  /\ faults.left \in 0..MaxFaults /\ faults.seen \subseteq FaultKinds

Returned(ops, code) == ret.op \in ops /\ ret.code = code

\* A synchronous TxSend or Transfer, or a later GetTransactionReceipt, that
\* reports success is about a transaction in the ledger, and a send is about the
\* transaction it was given: no answer to an earlier request, no lost or late
\* answer and no hash of an earlier transaction stands in for its receipt
\* (SendRawtxWithReceipt, GetTransactionReceipt).  CITA without memory for the
\* packed transaction is the exception.
SuccessMeansMined ==
  /\ Returned({"TxSend", "Transfer"}, "SUCCESS") /\ tx.is_sync /\ "packbuf" \notin faults.seen => tx.tx_hash = sent /\ sent \in Mined
  /\ Returned({"Receipt"}, "SUCCESS") => tx.tx_hash \in Mined

\* TX_PENDING ("This does not mean the transaction fails") is only said of a
\* transaction the node has taken: it is in the pool, in the ledger, or has
\* expired (GetTransactionReceipt).
PendingMeansAccepted ==
  Returned({"TxSend", "Transfer", "Receipt"}, "TX_PENDING") => tx.tx_hash \in node.accepted

\* Between calls the hash in the transaction is empty or that of the last
\* transaction that was put together, however its sending ended: a receipt is
\* never asked for under the hash of an earlier one.  CITA does not clear it.
HashIsOfLastSend ==
  Idle /\ chain # "CITA" => tx.tx_hash \in {NoHash, sent}

\* A transaction signed for the wallet is recovered to its address by a node
\* that reads the fields in the order of its protocol, whatever chain id and
\* EIP-155 setting the application has changed to in between (SendRawtx).  The
\* one exception is CITA's: with an r or s that begins with a zero byte the
\* sender is not recovered, and the node never takes such a transaction.
SenderRecovers ==
  /\ \A raw \in (Raws \cup {sent}) \ {NoRaw} :
       Sender(chain, raw) = Key \/ (chain = "CITA" /\ ~raw.sig.whole)
  /\ \A raw \in node.accepted : raw.sig.whole

\* The data of the transaction are not what is sent: the handle of a private
\* payload replaces them, or they were a local variable of an earlier Transfer.
DataReplaced ==
  \/ chain = "QUORUM" /\ tx.is_private
  \/ chain = "PLATONE" /\ tx.f["data"] = TxTypeData /\ call # "Transfer"

\* The nonce b is the one that was set.  CITA's begins with the bytes that were
\* set, and zeros follow them unless a longer nonce was set since TxInit.
NonceAsSet(b) ==
  LET n == tx.f["nonce"]
  IN  IF chain # "CITA" THEN b = n
      ELSE NonceBuf(b, n) = b /\ (tx.f["longest"] <= NonceLen(n) => b = NonceBuf(0, n))

\* The node executes what the application asked for: the transaction that was
\* sent has the nonce, price, limits, recipient, value, data, ids and type the
\* transaction had when the send began, CITA's the chain id of the wallet
\* (SendRawtx).  See DataReplaced and NonceAsSet for what may differ.
SentIsWhatWasSet ==
  [][sent' # sent /\ sent' # NoRaw =>
       \A n \in {Layout(chain)[i] : i \in DOMAIN Layout(chain)} :
         LET x == FieldOf(chain, sent', n)
         IN  CASE n = "nonce" -> NonceAsSet(x)
               [] n = "data"  -> DataReplaced \/ x = tx.f[n]
               [] n = "chainid" /\ chain = "CITA" -> x = wallet.chain_id
               [] OTHER -> x = tx.f[n]]_vars

\* The payload of a private Quorum transaction never leaves in the raw
\* transaction: it carries the handle the node gave for this payload, not the
\* payload, and no text another request left in the shared result buffer
\* (QuorumSendFilltx, QuorumSendRawtx).
PrivatePayloadStaysPrivate ==
  [][chain = "QUORUM" /\ tx.is_private /\ sent' # sent /\ sent' # NoRaw =>
       FieldOf(chain, sent', "data") = Handle(tx.f["data"])]_vars

\* No two sends are told of success for one transaction: whatever is retried
\* after a timeout, as many transactions were accepted as sends succeeded
\* (TxSend, Transfer).  CITA without memory for the packed transaction is the
\* exception.
EverySuccessIsATransaction == "packbuf" \notin faults.seen => acks <= Cardinality(node.accepted)

\* Every call returns: each request ends and the receipt loop is bounded
\* (RpcRequestSync, GetTransactionReceipt).
CallReturns == call # "none" ~> call = "none"

\* Sent asynchronously, several transactions can be sent one after the other:
\* when nothing goes wrong on the way, the node takes each of them.
ContinuousTransfersAccepted ==
  faults.seen = {} /\ Returned({"Transfer"}, "JSON_GETOBJ_FAIL") => Cardinality(node.accepted) = MaxTx
=============================================================================
