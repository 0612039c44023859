--------------------------- MODULE BoatChainmaker ---------------------------
(***************************************************************************)
(* The wallets that talk gRPC over HTTP/2: those of BoatFabric and the two *)
(* versions of ChainMaker.                                                 *)
(*                                                                         *)
(* A ChainMaker invocation is one request; a synchronous one then asks for *)
(* the transaction, up to BOAT_RETRY_CNT times.  Each request has its own  *)
(* response buffer.                                                        *)
(***************************************************************************)
EXTENDS BoatFabric

CONSTANT BOAT_RETRY_CNT

ASSUME RetryAssumption == BOAT_RETRY_CNT \in Nat \ {0}
ASSUME NoAnswerAssumption ==
  NoAnswer \notin Answers \cup {"no result", "executed", "failed", "unreadable", "not found"}

VARIABLES
  cm,     \* the ChainMaker transaction, the application's response_data, and the last tx id
  block   \* the ChainMaker node: invocations accepted and executed

fabric == <<chain, cfg, http2, tx, exec, rpc, ret, node, calls, faults, alive>>
vars   == <<fabric, cm, block>>

Versions == {"CHAINMAKER_V1", "CHAINMAKER_V2"}

\* code is response_data->code; params is what the parameters were set from.
NoCm    == [init |-> FALSE, params |-> "none", code |-> "none", id |-> 0, sync |-> FALSE]
NoCfg   == [layouts |-> <<>>, orderers |-> 0]     \* ChainMaker has one node
NoBlock == [pool |-> {}, done |-> {}]

----------------------------------------------------------------------------
(* Calls of the application.                                               *)

BoatChainmakerWalletInit   == \E c \in Versions : WalletInit(c) /\ UNCHANGED <<cm, block>>
BoatChainmakerWalletDeInit ==
  \E c \in Versions : WalletDeInit(c) /\ cm' = [cm EXCEPT !.init = FALSE] /\ UNCHANGED block

\* The parameters stay as they are.
BoatChainmakerTxInit ==
  /\ \E c \in Versions : Configured(c)
  /\ http2.ctx # "none"
  /\ cm' = [cm EXCEPT !.init = TRUE]
  /\ UNCHANGED <<http2, tx, faults, block>>

\* A parameter that is NULL ends the call with some of them set.
BoatChainmakerAddTxParam ==
  /\ \E c \in Versions : Configured(c)
  /\ cm.init
  /\ \E p \in {"app", "part"} : cm' = [cm EXCEPT !.params = p]
  /\ UNCHANGED <<http2, tx, faults, block>>

Start(fun, type, sync) ==
  /\ \E c \in Versions : Called(c)
  /\ cm.init
  /\ exec' = [fun |-> fun, type |-> type, st |-> "pack", i |-> 0, result |-> "SUCCESS", resp |-> FALSE]
  /\ ret'  = NoRet
  /\ cm'   = [cm EXCEPT !.id = @ + 1, !.sync = sync]
  /\ UNCHANGED <<chain, cfg, http2, tx, rpc, node, faults, alive, block>>

BoatChainmakerContractInvoke == \E sync \in BOOLEAN : Start("INVOKE", "INVOKE", sync)
BoatChainmakerContractQuery  == Start("QUERY", "QUERY", FALSE)

----------------------------------------------------------------------------

\* The call ends; response_data->code is code from now on.
CmReturn(result, code) ==
  /\ exec' = NoExec
  /\ ret'  = [op |-> exec.fun, code |-> result]
  /\ cm'   = [cm EXCEPT !.code = code]

\* Mutant: response_data->code stays what the last answer said.
MutantSyncEnd(result, resp, code) == CmReturn(result, code)

\* After the loop: without an answer of the last round response_data says so,
\* whatever the call returns.
SyncEnd(result, resp, code) ==
  CmReturn(result, IF result = "SUCCESS" /\ resp THEN code ELSE "ERROR")

\* Mutant: a round without the transaction is not counted.
MutantNextRound(i, result, resp, code) ==
  /\ exec' = [exec EXCEPT !.st = "pack", !.result = result, !.resp = resp]
  /\ cm'   = [cm EXCEPT !.code = code]
  /\ UNCHANGED ret

\* The round after round i of the loop that asks for the transaction.
NextRound(i, result, resp, code) ==
  IF i + 1 < BOAT_RETRY_CNT
  THEN /\ exec' = [exec EXCEPT !.st = "pack", !.i = i + 1, !.result = result, !.resp = resp]
       /\ cm'   = [cm EXCEPT !.code = code]
       /\ UNCHANGED ret
  ELSE SyncEnd(result, resp, code)

\* A new tx id; a query for the transaction replaces the parameters.
TransactionPacked(c) ==
  /\ alive /\ chain = c /\ exec # NoExec /\ exec.st = "pack"
  /\ UNCHANGED <<block>>
  /\ \/ http2.ctx = "freed" /\ Crash /\ UNCHANGED cm
     \/ /\ http2.ctx \in {"ok", "null"}
        /\ UNCHANGED <<chain, cfg, http2, tx, rpc, node, calls, alive>>
        /\ \/ /\ http2.ctx = "ok"
              /\ exec' = [exec EXCEPT !.st = "ask"]
              /\ cm'   = [cm EXCEPT !.params = IF exec.type = "SYNC" THEN "txId" ELSE @]
              /\ UNCHANGED <<ret, faults>>
           \/ /\ (http2.ctx = "null" /\ UNCHANGED faults) \/ Fault("pack")
              /\ exec.type # "SYNC" /\ CmReturn("GEN_SIGN_FAIL", cm.code)
           \/ /\ Fault("pack") /\ exec.type = "SYNC"
              /\ CmReturn("ERROR", cm.code) \/ NextRound(exec.i, "GEN_SIGN_FAIL", exec.resp, cm.code)

chainmaker_v1_TransactionPacked == TransactionPacked("CHAINMAKER_V1")
chainmaker_v2_TransactionPacked == TransactionPacked("CHAINMAKER_V2")

----------------------------------------------------------------------------
(* The node (external).                                                    *)

CmAnswers ==
  CASE exec.type = "INVOKE" -> {"accepted", "rejected"}
    [] exec.type = "QUERY"  -> {"ok", "bad", "no result"}
    [] exec.type = "SYNC"   -> IF [id |-> cm.id, ok |-> TRUE] \in block.done THEN {"executed", "unreadable"}
                               ELSE IF [id |-> cm.id, ok |-> FALSE] \in block.done THEN {"failed", "unreadable"}
                               ELSE {"not found"}

CmGets(a) == block' = IF a = "accepted" THEN [block EXCEPT !.pool = @ \cup {cm.id}] ELSE block

CmRequest(piece, a, result) ==
  /\ alive /\ rpc.st = "sent" /\ chain \in Versions
  /\ http2' \in Received(http2, piece, a)
  /\ Ends(result)
  /\ UNCHANGED <<chain, cfg, tx, exec, ret, node, calls, alive, cm>>

CmRequest_Answered ==
  rpc.st = "sent" /\ chain \in Versions /\
    \E a \in CmAnswers : CmRequest("whole", a, "SUCCESS") /\ CmGets(a) /\ UNCHANGED faults

CmRequest_TimedOut ==
  rpc.st = "sent" /\ chain \in Versions /\
    \E a \in CmAnswers, piece \in Pieces \ {"whole"} :
      CmRequest(piece, a, "SUCCESS") /\ Fault("timeout") /\ (CmGets(a) \/ (piece = "none" /\ UNCHANGED block))

CmRequest_Broken ==
  rpc.st = "sent" /\ chain \in Versions /\
    \E a \in CmAnswers, piece \in Pieces \ {"whole"} :
      CmRequest(piece, a, "HTTP2_INTERNAL") /\ Fault("protocol") /\ CmGets(a)

Node_Execute ==
  \E id \in block.pool, ok \in BOOLEAN :
    /\ block' = [pool |-> block.pool \ {id}, done |-> block.done \cup {[id |-> id, ok |-> ok]}]
    /\ UNCHANGED <<fabric, cm>>

----------------------------------------------------------------------------
(* The caller goes on with the answer.                                     *)

\* What TxRequest makes of a request; an answer that is too short is unpacked
\* with a length below zero.
TxRequest(result, a) ==
  IF rpc.result # "SUCCESS" THEN result = rpc.result /\ a = NoAnswer
  ELSE IF http2.buf.len = "none" THEN result = "HTTP2_RECEIVE_FAIL" /\ a = NoAnswer
  ELSE a \in http2.buf.may /\ result = IF a = NoAnswer THEN "RLP_ENCODER_FAIL" ELSE "SUCCESS"

CmAfter(type) == /\ alive /\ chain \in Versions /\ exec # NoExec /\ exec.st = "ask" /\ exec.type = type
                 /\ rpc.st = "done"

Results == {"SUCCESS", "HTTP2_RECEIVE_FAIL", "RLP_ENCODER_FAIL", "CONNECT_FAIL", "HTTP2_INTERNAL"}

CmHandle(type, step(_, _)) ==
  /\ CmAfter(type)
  /\ \E result \in Results, a \in http2.buf.may \cup {NoAnswer} : TxRequest(result, a) /\ step(result, a)
  /\ rpc'   = NoRpc
  /\ http2' = [http2 EXCEPT !.buf = EmptyBuf]
  /\ UNCHANGED <<chain, cfg, tx, node, calls, faults, alive, block>>

CmRequest_Crash ==
  /\ alive /\ chain \in Versions /\ rpc.st = "done" /\ rpc.result = "SUCCESS" /\ http2.buf.len = "short"
  /\ Crash /\ UNCHANGED <<cm, block>>

Invoke_Answer(result, a) ==
  \/ result # "SUCCESS" /\ CmReturn(result, cm.code)
  \/ result = "SUCCESS" /\ a = "rejected" /\ CmReturn("ERROR", "bad")
  \/ result = "SUCCESS" /\ a = "accepted" /\ ~cm.sync /\ CmReturn("SUCCESS", "SUCCESS")
  \/ /\ result = "SUCCESS" /\ a = "accepted" /\ cm.sync
     /\ exec' = [exec EXCEPT !.type = "SYNC", !.st = "pack", !.resp = TRUE]
     /\ cm'   = [cm EXCEPT !.code = "SUCCESS"]
     /\ UNCHANGED ret

Chainmaker_Invoke == CmHandle("INVOKE", Invoke_Answer)

\* One round of the loop.  V1 frees the answer and goes on using it, see
\* Chainmaker_FreedTwice; V2 takes an execution that failed as the last
\* round (an assignment where a comparison was meant).
Sync_Answer(result, a) ==
  \/ result # "SUCCESS" /\ NextRound(exec.i, result, FALSE, cm.code)
  \/ result = "SUCCESS" /\ a = "not found" /\ NextRound(exec.i, "SUCCESS", TRUE, "bad")
  \/ result = "SUCCESS" /\ a = "executed" /\ SyncEnd("SUCCESS", TRUE, "SUCCESS")
  \/ result = "SUCCESS" /\ a \in {"failed", "unreadable"} /\ chain = "CHAINMAKER_V1" /\
       NextRound(exec.i, "SUCCESS", TRUE, "SUCCESS")
  \/ result = "SUCCESS" /\ a \in {"failed", "unreadable"} /\ chain = "CHAINMAKER_V2" /\
       NextRound(IF a = "failed" THEN BOAT_RETRY_CNT - 1 ELSE exec.i, "SUCCESS", FALSE, "SUCCESS")

Chainmaker_Sync == CmHandle("SYNC", Sync_Answer)

Chainmaker_FreedTwice ==
  /\ CmAfter("SYNC") /\ chain = "CHAINMAKER_V1" /\ rpc.result = "SUCCESS"
  /\ http2.buf.may \cap {"executed", "failed", "unreadable"} # {}
  /\ Crash /\ UNCHANGED <<cm, block>>

Query_Answer(result, a) ==
  \/ result # "SUCCESS" /\ CmReturn(result, cm.code)
  \/ result = "SUCCESS" /\ a \in {"ok", "bad"} /\ CmReturn("SUCCESS", IF a = "ok" THEN "SUCCESS" ELSE "bad")

Chainmaker_Query == CmHandle("QUERY", Query_Answer)

\* contract_result is read without a look whether it is there.
Chainmaker_QueryCrash ==
  CmAfter("QUERY") /\ rpc.result = "SUCCESS" /\ "no result" \in http2.buf.may /\ Crash /\ UNCHANGED <<cm, block>>

----------------------------------------------------------------------------

Init ==
  /\ chain \in Protocols
  /\ cfg \in IF chain \in Versions THEN {NoCfg} ELSE NodeCfgs
  /\ http2 = [http2Init EXCEPT !.ctx = "none"]
  /\ tx = NoTx /\ exec = NoExec /\ rpc = NoRpc /\ ret = NoRet
  /\ node = {}
  /\ calls = 0 /\ faults = [left |-> MaxFaults, seen |-> {}] /\ alive = TRUE
  /\ cm = NoCm /\ block = NoBlock

Fabric(A) == A /\ UNCHANGED <<cm, block>>

Application ==
  \/ Fabric(BoatHlfabricWalletInit) \/ Fabric(BoatHlfabricWalletDeInit)
  \/ Fabric(BoatHwbcsWalletInit) \/ Fabric(BoatHwbcsWalletDeInit)
  \/ Fabric(BoatHlfabricTxInit) \/ Fabric(BoatHlfabricTxDeInit)
  \/ Fabric(BoatHwbcsTxInit) \/ Fabric(BoatHwbcsTxDeInit)
  \/ Fabric(BoatHlfabricTxSetArgs) \/ Fabric(BoatHwbcsTxSetArgs)
  \/ Fabric(BoatHlfabricTxEvaluate) \/ Fabric(BoatHlfabricTxSubmit)
  \/ Fabric(BoatHwbcsTxEvaluate) \/ Fabric(BoatHwbcsTxSubmit)
  \/ BoatChainmakerWalletInit \/ BoatChainmakerWalletDeInit \/ BoatChainmakerTxInit
  \/ BoatChainmakerAddTxParam \/ BoatChainmakerContractInvoke \/ BoatChainmakerContractQuery
  \/ Fabric(TxInit_FreesOther) \/ Fabric(http2DeInit_FreedTwice)

Client ==
  \/ Fabric(hlfabricProposalTransactionPacked) \/ Fabric(hwbcsProposalTransactionPacked)
  \/ Fabric(http2SubmitRequest)
  \/ Fabric(Hlfabric_NoAnswer) \/ Fabric(Hlfabric_Endorser) \/ Fabric(Hlfabric_Orderer)
  \/ Fabric(Hlfabric_FreedTwice)
  \/ Fabric(Hwbcs_Endorser) \/ Fabric(Hwbcs_EndorserCrash) \/ Fabric(Hwbcs_Orderer) \/ Fabric(Hwbcs_OrdererCrash)
  \/ chainmaker_v1_TransactionPacked \/ chainmaker_v2_TransactionPacked
  \/ Chainmaker_Invoke \/ Chainmaker_Sync \/ Chainmaker_Query
  \/ Chainmaker_FreedTwice \/ Chainmaker_QueryCrash \/ CmRequest_Crash

Network ==
  \/ Fabric(Request_Answered) \/ Fabric(Request_TimedOut) \/ Fabric(Request_Broken) \/ Fabric(Request_IntoFreed)
  \/ CmRequest_Answered \/ CmRequest_TimedOut \/ CmRequest_Broken

Next == Application \/ Client \/ Network \/ Node_Execute

\* A call that has started runs on, and SO_RCVTIMEO ends every request.
Spec == Init /\ [][Next]_vars /\ WF_vars(Client) /\ WF_vars(Network)

----------------------------------------------------------------------------
(* Properties.                                                             *)

\* The values the state of wallet, transaction and loops can have, the
\* position in the node configuration included (BoatHlfabricTxExec).
TypeOK ==
  /\ http2.ctx \in {"none", "ok", "freed", "null"} /\ http2.open \in Nat
  /\ http2.buf.len \in {"none", "short", "long"}
  /\ tx.nonce \in Nat /\ tx.evaluateRes \in Nat \cup {Overrun}
  /\ exec.fun \in {"none", "EVALUATE", "SUBMIT", "INVOKE", "QUERY"}
  /\ exec.fun \in {"EVALUATE", "SUBMIT"} /\ exec.type = "PROPOSAL" =>
       exec.k <= GroupOf(exec).n /\ exec.valid <= GroupOf(exec).q
  /\ exec.fun \in {"INVOKE", "QUERY"} => exec.i < BOAT_RETRY_CNT
  /\ cm.params \in {"none", "app", "part", "txId"}

\* What went to orderers with nothing of a failed Submit in it, and what they accepted.
Clean    == {m \in node : m.left = 0}
Accepted == {m \in node : m.answer = "accepted"}

\* An orderer is sent the endorsements of the proposal the transaction belongs
\* to, whatever was evaluated or submitted before with the same transaction.
\* A Submit that failed is the exception: it leaves its endorsements behind
\* (BoatHlfabricTxEvaluate, BoatHlfabricTxSubmit).
EndorsementsAreOfThisProposal ==
  \A m \in Clean : \A x \in DOMAIN m.response : m.response[x].nonce = m.nonce

\* Before a transaction goes to an orderer, every group of one layout has
\* endorsed it as often as the network asks for (the loops of BoatHlfabricTxExec
\* and BoatHwbcsTxExec).
EveryGroupEndorsed ==
  \A m \in Clean : \E i \in DOMAIN cfg.layouts : \A j \in DOMAIN cfg.layouts[i] :
    Cardinality({x \in DOMAIN m.response : m.response[x].i = i /\ m.response[x].j = j}) >= cfg.layouts[i][j].q

\* The groups TxExec comes to: a layout behind another, or in an Evaluate a group
\* behind another, only when that one ends with a group that needs no endorser.
Reached(c, fun, i, j) ==
  \A ii \in DOMAIN c.layouts : \A jj \in DOMAIN c.layouts[ii] :
    (IF fun = "EVALUATE" THEN ii < i \/ (ii = i /\ jj < j) ELSE ii < i /\ jj = Len(c.layouts[ii])) =>
      c.layouts[ii][jj].q = 0

\* The answers of endorsers a call may store, told apart by layout, group and a
\* number: an Evaluate those of all endorsers it comes to, a Submit as many as a
\* group needs, and the first one of a group that needs none.
Room(fun, g) == IF fun = "EVALUATE" THEN g.n ELSE IF g.q = 0 THEN 1 ELSE g.q
Places(c, fun) ==
  UNION {UNION {{<<i, j, x>> : x \in IF Reached(c, fun, i, j) THEN 1..Room(fun, c.layouts[i][j]) ELSE {}} :
                  j \in DOMAIN c.layouts[i]} : i \in DOMAIN c.layouts}

\* The answers a call needs room for: a Submit also stores the orderer's.
Needs(c, fun) == Cardinality(Places(c, fun)) + IF fun = "SUBMIT" THEN 1 ELSE 0

\* The array of answers has as many places as endorsers are "supported"
\* (api_hlfabric.h:35), nothing checks its end, an orderer's answer goes into it
\* too, and so do those of the next call when a Submit has failed.  It is overrun
\* only if what failed Submits left and what this call can collect in this
\* configuration are more than its places: no loop asks or stores more, nothing
\* else stays in it (response[responseCount] in BoatHlfabricTxExec).
ResponsesFit ==
  [][tx'.evaluateRes = Overrun /\ tx.evaluateRes # Overrun =>
       tx.left + Needs(cfg, exec.fun) > ENDORSER_MAX_NUM]_vars

\* The result the application finds after an Evaluate is never that of an
\* earlier one, whether the call succeeds or not (evaluateRes in BoatHlfabricTxExec).
EvaluateResultIsCurrent == tx.evaluateRes \in {0, Overrun, tx.nonce}

\* A Huawei BCS Submit that reports success was accepted by an orderer,
\* whichever of them could not be reached or rejected it (BoatHwbcsTxExec).
HwbcsSuccessMeansOrdered ==
  chain = "HWBCS" /\ ret = [op |-> "SUBMIT", code |-> "SUCCESS"] =>
    \E m \in Accepted : m.nonce = tx.nonce

\* An answer about transaction nonce did not come back whole, or left a buffer
\* that was freed.
Amiss(nonce) ==
  \E m \in node : m.nonce = nonce /\ (~m.whole \/ (chain = "HLFABRIC" /\ m.answer = "rejected"))

\* What is ordered is ordered once, and the application is told: unless an
\* orderer's answer about the transaction got lost, one orderer at most accepts
\* it, and the Submit does not end with an error after which it would be
\* submitted again; orderers that cannot be reached or reject the transaction
\* before one accepts it do not change that (BoatHlfabricTxExec, BoatHwbcsTxExec).
OrderedIsTold ==
  \A m \in Accepted : ~Amiss(m.nonce) =>
    /\ \A n \in Accepted : n.nonce = m.nonce => n.by = m.by
    /\ Idle /\ ret.op = "SUBMIT" /\ ret.code # "INVALID_ARGUMENT" /\ m.nonce = tx.nonce => ret.code = "SUCCESS"

\* Without faults no socket is open between two calls, however many nodes were
\* asked (on_stream_close_callback, BoatClose).
SocketsClosed == Idle /\ faults.seen = {} => http2.open = 0

\* A synchronous ChainMaker invocation that reports success, with a response
\* that does, was executed without failure, however many rounds it took and
\* whatever failed on the way (BoatChainmakerContractInvoke).  V1 reads the
\* answer after it was freed.
SyncInvokeMeansExecuted ==
  Idle /\ chain = "CHAINMAKER_V2" /\ ret = [op |-> "INVOKE", code |-> "SUCCESS"] /\ cm.sync /\ cm.code = "SUCCESS" =>
    [id |-> cm.id, ok |-> TRUE] \in block.done

\* Every call returns, unless the process dies: the loops over nodes and the
\* rounds of a synchronous invocation are bounded (BoatHlfabricTxExec,
\* BoatChainmakerContractInvoke).
CallReturns == exec # NoExec ~> exec = NoExec \/ ~alive

\* A Hyperledger Fabric Submit that reports success was accepted by an orderer.
SubmitSuccessMeansOrdered ==
  chain = "HLFABRIC" /\ ret = [op |-> "SUBMIT", code |-> "SUCCESS"] =>
    \E m \in Accepted : m.nonce = tx.nonce
=============================================================================
