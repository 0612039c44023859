-------------------------- MODULE BoatTransaction --------------------------
(***************************************************************************)
(* A wallet of one of the seven JSON-RPC protocols, one transaction of the *)
(* application, and the node it is sent to.                                *)
(*                                                                         *)
(* A call of the API is a list of steps (todo).  A step either changes the *)
(* transaction or asks the node something: the request goes out, the node  *)
(* handles it while the caller waits in RpcRequestSync, the answer comes   *)
(* back or the request fails after its timeout.  The first step that fails *)
(* ends the call with its error code, which is what the early returns of   *)
(* the API functions do.  Calls do not overlap; the node runs on its own.  *)
(*                                                                         *)
(* BoatWalletApi has the functions of the API, this module their steps.    *)
(***************************************************************************)
EXTENDS Integers, Sequences, FiniteSets, Web3Intf, RawTransaction

CONSTANTS
  Chains,            \* the protocols: see AllChains
  Recipients,        \* addresses a transaction may go to
  Payloads,          \* data a transaction may carry, other than none
  ChainIds,          \* chain ids a wallet may be given
  NODE_CHAIN_ID,     \* the chain id of the node
  WAIT_PENDING_TX_TIMEOUT,
  MINE_INTERVAL,
  BLOCKLIMIT_OFFSET, \* FISCO BCOS: 500, CITA: 100 blocks
  MaxCalls,          \* bound: calls of the application in a behaviour
  MaxTx,             \* bound: transactions the node accepts
  MaxHeight,         \* bound: blocks the node makes
  FaultKinds,        \* what may go wrong: see AllFaultKinds
  MaxFaults          \* bound: how often something goes wrong in a behaviour

VARIABLES
  chain,     \* the protocol of the wallet
  wallet,    \* account and network of the wallet
  web3,      \* Web3IntfContext: length of the JSON buffer, text in the result buffer
  tx,        \* the transaction (BoatEthTx and its kin)
  call,      \* the running API function, "none" between calls
  todo,      \* the steps the running call still has to do
  rpc,       \* the request in RpcRequestSync
  wait,      \* tx_mined_timeout of the receipt loop
  calls,     \* how many calls the application has made
  ret,       \* the last call that sends or asks for a receipt, and its result
  node,      \* the node: transactions waiting, mined, ever accepted and on their way; height
  faults,    \* what went wrong so far
  sent,      \* ghost: the transaction the last send step put together
  acks       \* ghost: how many sends reported success

client == <<chain, wallet, web3, tx, call, todo, wait, calls, ret, sent, acks>>
vars   == <<client, rpc, node, faults>>

Eip155Chains == {"ETHEREUM", "PLATON", "PLATONE", "QUORUM", "VENACHAIN"}
LimitChains  == {"FISCOBCOS", "CITA"}
AllChains    == Eip155Chains \cup LimitChains

\* "timeout": the request fails and may still reach the node later;
\* "answer": the node has handled the request but its answer is lost;
\* "garbage": the answer is no JSON; "reject": the node refuses at will;
\* "nomem": an allocation fails; "sign": BoatSignature fails;
\* "packbuf": the allocation of CITA's packed transaction fails.
AllFaultKinds == {"timeout", "answer", "garbage", "reject", "nomem", "sign", "packbuf"}

ASSUME ChainAssumption == Chains \subseteq AllChains
ASSUME InputAssumption == /\ Recipients \cup Payloads \cup ChainIds \subseteq Nat \ {0}
                          /\ NODE_CHAIN_ID \in ChainIds
\* v = 2 * chain_id + 36 fits a BUINT32; on Quorum the v of chain id 1, 37 or
\* 38, is the mark of a private transaction.
ASSUME ChainIdAssumption == /\ \A id \in ChainIds : 2 * id + 36 < UINT32
                            /\ "QUORUM" \in Chains => 1 \notin ChainIds
ASSUME WaitAssumption  == WAIT_PENDING_TX_TIMEOUT \in Nat \ {0} /\ MINE_INTERVAL \in Nat \ {0}
ASSUME LimitAssumption == BLOCKLIMIT_OFFSET \in Nat \ {0}
ASSUME BoundAssumption == MaxCalls \in Nat /\ MaxTx \in Nat /\ MaxHeight \in Nat \ {0} /\ MaxFaults \in Nat
ASSUME FaultAssumption == FaultKinds \subseteq AllFaultKinds

Key == 1            \* the wallet's key, and the address that belongs to it

\* The hash of a private payload, which replaces it (external).  All hashes of
\* hashes are one.
Handle(d) == IF d < 10 THEN d + 10 ELSE 99

\* The eight zero bytes of a PlatONE Transfer, and anything else.
TxTypeData == 8
OtherData  == 9

NoRet  == [op |-> "none", code |-> "SUCCESS"]
NoRpc  == [st |-> "idle"]
NoRaw  == [list |-> <<>>, v |-> 0, sig |-> [key |-> Stranger, over |-> <<>>, whole |-> TRUE]]
NoNode == [pool |-> {}, ledger |-> <<>>, accepted |-> {}, late |-> {}, height |-> 0]
NewTx  == [wallet_ptr |-> FALSE, is_sync |-> FALSE, is_private |-> FALSE, tx_hash |-> NoHash, f |-> NoFields]
Closed == [open |-> FALSE, key |-> Key, chain_id |-> NODE_CHAIN_ID, eip155 |-> TRUE]

----------------------------------------------------------------------------
(* Steps, and the end of a call.                                           *)

Idle == call = "none"
At(op) == todo # <<>> /\ Head(todo).op = op

Fault(kind) ==
  /\ kind \in FaultKinds
  /\ faults.left > 0
  /\ faults' = [left |-> faults.left - 1, seen |-> faults.seen \cup {kind}]

\* Only what a send or a receipt returned is remembered.
Return(code) ==
  /\ call' = "none"
  /\ todo' = <<>>
  /\ ret'  = IF call \in {"TxSend", "Transfer", "Receipt"} THEN [op |-> call, code |-> code] ELSE NoRet
  /\ wait' = WAIT_PENDING_TX_TIMEOUT
  /\ acks' = IF call \in {"TxSend", "Transfer"} /\ code = "SUCCESS" THEN acks + 1 ELSE acks

Advance ==
  IF Len(todo) = 1 THEN Return("SUCCESS")
  ELSE todo' = Tail(todo) /\ UNCHANGED <<call, ret, wait, acks>>

\* The application calls a function of protocol c.
Called(c) ==
  /\ Idle /\ chain = c
  /\ calls < MaxCalls
  /\ calls' = calls + 1

\* The application calls op, which starts with these steps.
Api(c, op, steps) ==
  /\ Called(c) /\ wallet.open
  /\ call' = op
  /\ todo' = steps
  /\ ret'  = NoRet
  /\ UNCHANGED <<chain, wallet, web3, wait, rpc, node, faults, sent, acks>>

Step(op)      == [op |-> op]
Ask(req)      == [op |-> "query", req |-> req]
SetStep(g)    == [op |-> "set", g |-> g]

\* The fields f with those of g set.
With(f, g) == [n \in FieldNames |-> IF n \in DOMAIN g THEN g[n] ELSE f[n]]

\* A function that leaves t of the transaction and returns.
TxChange(c, t) ==
  /\ Called(c) /\ wallet.open
  /\ tx'  = t
  /\ ret' = NoRet
  /\ UNCHANGED <<chain, wallet, web3, call, todo, wait, rpc, node, faults, sent, acks>>

\* A function that changes one field and returns.
TxSet(c, f, x) == tx.wallet_ptr /\ TxChange(c, [tx EXCEPT !.f[f] = x])

Do_Set ==
  /\ At("set")
  /\ tx' = [tx EXCEPT !.f = With(@, Head(todo).g)]
  /\ Advance
  /\ UNCHANGED <<chain, wallet, web3, rpc, node, faults, sent, calls>>

----------------------------------------------------------------------------
(* Sending a request.                                                      *)

\* The JSON buffer is enlarged as needed; when that fails it is gone, and the
\* request is not sent.
Post(req) ==
  \/ /\ web3' = [web3 EXCEPT !.json = BoatFieldVariable_malloc_size_expand(@, Steps(req))]
     /\ rpc'  = [st |-> "sent", req |-> req]
     /\ UNCHANGED <<call, todo, ret, wait, acks, faults>>
  \/ /\ web3.json < Steps(req)
     /\ Fault("nomem")
     /\ web3' = [web3 EXCEPT !.json = 0]
     /\ rpc'  = [st |-> "answered", ans |-> AnsNone("OUT_OF_MEMORY")]
     /\ UNCHANGED <<call, todo, ret, wait, acks>>

Request(op, req) ==
  /\ At(op) /\ rpc = NoRpc
  /\ Post(req)
  /\ UNCHANGED <<chain, wallet, tx, node, sent, calls>>

ReceiptRequest ==
  CASE chain = "FISCOBCOS" -> web3_fiscobcos_getTransactionReceiptStatus(tx.tx_hash)
    [] chain = "CITA"      -> web3_cita_getTransactionReceiptStatus(tx.tx_hash)
    [] OTHER               -> web3_getTransactionReceiptStatus(tx.tx_hash)

Request_Nonce    == Request("nonce", web3_getTransactionCount(wallet.key))
Request_GasPrice == Request("gasprice", web3_gasPrice)
Request_Block    == Request("block", IF chain = "CITA" THEN web3_cita_getBlockNumber
                                     ELSE web3_fiscobcos_getBlockNumber)
Request_Receipt  == Request("receipt", ReceiptRequest)
Request_Query    == At("query") /\ Request("query", Head(todo).req)
\* QuorumSendFilltx: payload and recipient go to the node in the clear.
QuorumSendFilltx == Request("fill", web3_fillTransaction(tx.f["recipient"], tx.f["data"]))

----------------------------------------------------------------------------
(* Putting a transaction together and sending it.                          *)

\* The hash of the last transaction is dropped, raw is signed and sent; f are
\* the fields of the transaction from now on.
SendRawtx(c, f, raw, req, hash) ==
  /\ At("send") /\ chain = c /\ rpc = NoRpc
  /\ tx'   = [tx EXCEPT !.f = f, !.tx_hash = hash]
  /\ sent' = raw
  /\ \/ Post(req)
     \/ Fault("nomem") /\ Return("OUT_OF_MEMORY") /\ UNCHANGED <<web3, rpc>>
     \/ Fault("sign") /\ Return("GEN_SIGN_FAIL") /\ UNCHANGED <<web3, rpc>>
  /\ UNCHANGED <<chain, wallet, node, calls>>

\* Mutant: the hash of the last transaction is kept.
MutantEthSendRawtx ==
  LET raw == EthSigned(wallet, EthTx(tx.f))
  IN  SendRawtx("ETHEREUM", tx.f, raw, web3_sendRawTransaction(raw), tx.tx_hash)

EthSendRawtx ==
  LET raw == EthSigned(wallet, EthTx(tx.f))
  IN  SendRawtx("ETHEREUM", tx.f, raw, web3_sendRawTransaction(raw), NoHash)

PlatONSendRawtx ==
  LET raw == PlatONSigned(wallet, PlatONTx(tx.f))
  IN  SendRawtx("PLATON", tx.f, raw, web3_sendRawTransaction(raw), NoHash)

VenachainSendRawtx ==
  LET raw == VenachainSigned(wallet, VenachainTx(tx.f))
  IN  SendRawtx("VENACHAIN", tx.f, raw, web3_sendRawTransaction(raw), NoHash)

\* The data of a Transfer are a local variable of it: any later send reads
\* what is there by then.
PlatoneSendRawtx ==
  \E d \in IF tx.f["data"] = TxTypeData /\ call # "Transfer" THEN {TxTypeData, OtherData} ELSE {tx.f["data"]} :
    LET f   == [tx.f EXCEPT !["data"] = d]
        raw == PlatoneSigned(wallet, PlatoneTx(f))
    IN  SendRawtx("PLATONE", tx.f, raw, web3_sendRawTransaction(raw), NoHash)

FiscobcosSendRawtx ==
  LET raw == FiscobcosSigned(wallet, FiscobcosTx(tx.f))
  IN  SendRawtx("FISCOBCOS", tx.f, raw, web3_fiscobcos_sendRawTransaction(raw), NoHash)

QuorumSendRawtx ==
  LET f   == QuorumData(tx.f, tx.is_private, web3.result)
      raw == QuorumSigned(wallet, QuorumTx(f), tx.is_private)
  IN  SendRawtx("QUORUM", f, raw,
                IF tx.is_private THEN web3_sendRawPrivateTransaction(raw)
                ELSE web3_sendRawTransaction(raw), NoHash)

\* The hash of the last transaction is kept.  r and s may be short.
CitaSendRawtx ==
  \E whole \in BOOLEAN :
    LET raw == CitaSigned(wallet, CitaTx(wallet, tx.f), whole)
    IN  SendRawtx("CITA", tx.f, raw, web3_cita_sendRawTransaction(raw), tx.tx_hash)

\* boat_throw(result) with a result of BOAT_SUCCESS: nothing is sent, and the
\* step counts as done.
CitaSendRawtx_NoPackBuffer ==
  /\ At("send") /\ chain = "CITA" /\ rpc = NoRpc
  /\ Fault("packbuf")
  /\ sent' = CitaSigned(wallet, CitaTx(wallet, tx.f), TRUE)
  /\ Advance
  /\ UNCHANGED <<chain, wallet, web3, tx, rpc, node, calls>>

----------------------------------------------------------------------------
(* The answer to a request.                                                *)

Parse(child, grand) ==
  CASE chain = "ETHEREUM"  -> eth_parse_json_result(rpc.ans, child, web3.result)
    [] chain = "PLATON"    -> platon_parse_json_result(rpc.ans, child, web3.result)
    [] chain = "PLATONE"   -> platone_parse_json_result(rpc.ans, child, web3.result)
    [] chain = "VENACHAIN" -> venachain_parse_json_result(rpc.ans, child, web3.result)
    [] chain = "FISCOBCOS" -> fiscobcos_parse_json_result(rpc.ans, child, web3.result)
    [] chain = "QUORUM"    -> quorum_parse_json_result(rpc.ans, child, grand, web3.result)
    [] chain = "CITA"      -> cita_parse_json_result(rpc.ans, child)

\* The caller goes on with the answer to step op.
Answer(op) ==
  /\ At(op) /\ rpc.st = "answered"
  /\ rpc' = NoRpc
  /\ UNCHANGED <<chain, wallet, node, faults, sent, calls>>

NoAnswer == rpc.ans.kind = "none"

\* No function but QuorumSendRawtx looks at a text an earlier request left in
\* the result buffer: every other text is 0.
Result(x) == web3' = [web3 EXCEPT !.result = x]
Fails(code) == Return(code) /\ UNCHANGED <<tx, web3>>

\* The answer becomes field f.
AnswerField(op, f, offset, rpc_fail) ==
  /\ Answer(op)
  /\ LET p == Parse("", "")
     IN  IF p.code = "SUCCESS"
         THEN tx' = [tx EXCEPT !.f[f] = p.val + offset] /\ Result(0) /\ Advance
         ELSE Fails(IF NoAnswer THEN rpc_fail ELSE p.code)

Answer_Nonce    == AnswerField("nonce", "nonce", 0, IF NoAnswer THEN rpc.ans.code ELSE "")
Answer_GasPrice == AnswerField("gasprice", "gasprice", 0, "GET_GASPRICE_FAIL")
\* A NULL answer is handed to the parser.
Answer_Block    == AnswerField("block", "limit", BLOCKLIMIT_OFFSET, "INVALID_ARGUMENT")

Answer_Fill ==
  /\ Answer("fill")
  /\ LET p == Parse("tx", "input")
     IN  IF p.code = "SUCCESS" THEN Result(p.val) /\ Advance /\ UNCHANGED tx
         ELSE Fails(IF NoAnswer THEN rpc.ans.code ELSE p.code)

\* Mutant: an answer that carries no hash is not noticed.
MutantAnswer_Send ==
  /\ Answer("send")
  /\ LET p == Parse(IF chain = "CITA" THEN "hash" ELSE "", "")
     IN  IF p.code = "SUCCESS" THEN tx' = [tx EXCEPT !.tx_hash = p.val] /\ Result(0) /\ Advance
         ELSE IF NoAnswer THEN Fails(rpc.ans.code) ELSE Advance /\ UNCHANGED <<tx, web3>>

Answer_Send ==
  /\ Answer("send")
  /\ LET p == Parse(IF chain = "CITA" THEN "hash" ELSE "", "")
     IN  IF p.code = "SUCCESS" THEN tx' = [tx EXCEPT !.tx_hash = p.val] /\ Result(0) /\ Advance
         ELSE Fails(IF NoAnswer THEN rpc.ans.code ELSE p.code)

\* Mutant: a receipt that is not there yet counts as one.
MutantReceiptResult(p) == IF NoAnswer THEN rpc.ans.code
                          ELSE IF p.code \in {"SUCCESS", "JSON_OBJ_IS_NULL"} THEN "SUCCESS"
                          ELSE "RESULT_PARSE_FAIL"

\* Mutant: an answer that cannot be read counts as no receipt yet.
MutantReceiptUnread(p) == IF NoAnswer THEN rpc.ans.code
                          ELSE IF p.code = "SUCCESS" THEN "SUCCESS" ELSE "pending"

\* What a receipt says; "pending" when there is none.  A transaction that
\* failed counts as one that was executed.
ReceiptResult(p) == IF NoAnswer THEN rpc.ans.code
                    ELSE IF p.code = "SUCCESS" THEN "SUCCESS"
                    ELSE IF p.code = "JSON_OBJ_IS_NULL" THEN "pending"
                    ELSE "RESULT_PARSE_FAIL"

\* Mutant: the wait is not shortened, so the loop has no end.
MutantAnswer_Receipt ==
  /\ Answer("receipt")
  /\ UNCHANGED tx
  /\ LET r == ReceiptResult(Parse("status", ""))
     IN  IF r # "pending" THEN Return(r) /\ Result(0)
         ELSE UNCHANGED <<call, todo, ret, wait, acks, web3>>

\* One round of the loop in GetTransactionReceipt.
Answer_Receipt ==
  /\ Answer("receipt")
  /\ UNCHANGED tx
  /\ LET r == ReceiptResult(Parse(IF chain = "CITA" THEN "errorMessage" ELSE "status", ""))
     IN  \/ r # "pending" /\ Return(r) /\ (IF r = "SUCCESS" THEN Result(0) ELSE UNCHANGED web3)
         \/ r = "pending" /\ wait <= MINE_INTERVAL /\ Return("TX_PENDING") /\ UNCHANGED web3
         \/ /\ r = "pending" /\ wait > MINE_INTERVAL
            /\ wait' = wait - MINE_INTERVAL
            /\ UNCHANGED <<call, todo, ret, acks, web3>>

\* The answer goes to the application as it is; NULL ends the call.
Answer_Query ==
  /\ Answer("query")
  /\ IF NoAnswer THEN Fails("NULL") ELSE Advance /\ UNCHANGED <<tx, web3>>

----------------------------------------------------------------------------
(* The node (external), and what the network does to a request.            *)

Nonce(raw) == FieldOf(chain, raw, "nonce")

\* An account's transactions are executed in the order of their nonces; FISCO
\* BCOS and CITA only refuse a nonce they have seen and a limit in the past.
Accepts(raw) ==
  /\ Cardinality(node.accepted) < MaxTx
  /\ Sender(chain, raw) = Key
  /\ HasChainId(chain, raw) \/ chain \in LimitChains => ChainIdOf(chain, raw) = NODE_CHAIN_ID
  /\ IF chain \in Eip155Chains
     THEN Nonce(raw) >= Len(node.ledger) /\ \A p \in node.pool : Nonce(p) # Nonce(raw)
     ELSE /\ \A a \in node.accepted : Nonce(a) # Nonce(raw)
          /\ FieldOf(chain, raw, "limit") > node.height

Accept(raw) ==
  IF Accepts(raw) THEN [node EXCEPT !.pool = @ \cup {raw}, !.accepted = @ \cup {raw}] ELSE node

Mined == {node.ledger[i].raw : i \in DOMAIN node.ledger}

ReceiptAnswer(hash) ==
  IF hash = NoHash THEN AnsError
  ELSE IF hash \notin Mined THEN AnsNull
  ELSE LET e == CHOOSE i \in DOMAIN node.ledger : node.ledger[i].raw = hash
           ok == node.ledger[e].ok
       IN  IF chain # "CITA" THEN AnsObject("status", "", IF ok THEN 1 ELSE 0)
           ELSE IF ok THEN AnsNonString("errorMessage") ELSE AnsObject("errorMessage", "", 1)

NodeAnswer(req) ==
  CASE req.method = "count"   -> AnsString(Len(node.ledger))
    [] req.method = "price"   -> AnsString(1)
    [] req.method = "block"   -> AnsString(node.height)
    [] req.method = "fill"    -> AnsObject("tx", "input", Handle(req.data))
    [] req.method = "receipt" -> ReceiptAnswer(req.hash)
    [] req.method = "send" /\ ~Accepts(req.raw) -> AnsError
    [] req.method = "send" /\ Accepts(req.raw)  ->
         IF chain = "CITA" THEN AnsObject("hash", "", req.raw) ELSE AnsString(req.raw)
    [] OTHER -> AnsString(1)

After(req) == IF req.method = "send" THEN Accept(req.raw) ELSE node

Answers(ans) ==
  /\ rpc.st = "sent"
  /\ rpc' = [st |-> "answered", ans |-> ans]
  /\ UNCHANGED client

Node_Handle  == rpc.st = "sent" /\ Answers(NodeAnswer(rpc.req)) /\ node' = After(rpc.req) /\ UNCHANGED faults
Node_Refuse  == Answers(AnsError) /\ Fault("reject") /\ UNCHANGED node
Node_Garbage == rpc.st = "sent" /\ Answers(AnsGarbage) /\ node' = After(rpc.req) /\ Fault("garbage")
Answer_Lost  == rpc.st = "sent" /\ Answers(AnsNone("RPC_FAIL")) /\ node' = After(rpc.req) /\ Fault("answer")

\* RpcRequestSync gives up; a transaction may still be on its way.
Rpc_Timeout ==
  /\ Answers(AnsNone("RPC_FAIL"))
  /\ Fault("timeout")
  /\ \/ UNCHANGED node
     \/ rpc.req.method = "send" /\ node' = [node EXCEPT !.late = @ \cup {rpc.req.raw}]

Node_Late ==
  \E raw \in node.late :
    /\ node' = [Accept(raw) EXCEPT !.late = @ \ {raw}]
    /\ UNCHANGED <<client, rpc, faults>>

Node_Mine ==
  \E raw \in node.pool, ok \in BOOLEAN :
    /\ chain \in Eip155Chains => Nonce(raw) = Len(node.ledger)
    /\ node' = [node EXCEPT !.pool = @ \ {raw}, !.ledger = Append(@, [raw |-> raw, ok |-> ok])]
    /\ UNCHANGED <<client, rpc, faults>>

\* A block without transactions of the wallet; those that expired are dropped.
Node_Block ==
  /\ chain \in LimitChains /\ node.height < MaxHeight
  /\ node' = [node EXCEPT !.height = @ + 1,
                          !.pool = {raw \in @ : FieldOf(chain, raw, "limit") > node.height + 1}]
  /\ UNCHANGED <<client, rpc, faults>>
=============================================================================
