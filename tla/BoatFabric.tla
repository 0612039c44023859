----------------------------- MODULE BoatFabric -----------------------------
(***************************************************************************)
(* A wallet of Hyperledger Fabric or of Huawei BCS, one transaction of the *)
(* application, its endorsers and its orderers.                            *)
(*                                                                         *)
(* Evaluate asks endorsers for the result of a call.  Submit collects      *)
(* endorsements, group by group, and sends them to an orderer.  Both run   *)
(* TxExec: a loop over nodes with one HTTP/2 request each.  A request is   *)
(* sent (Request), the node and the network deal with it (Node_...,        *)
(* Request_...), and the loop goes on with what has arrived (Endorser_...,  *)
(* Orderer_...).                                                           *)
(*                                                                         *)
(* Proposals are told apart by their nonce, a number counted up; an answer *)
(* carries the nonce of the proposal it was given for.                     *)
(***************************************************************************)
EXTENDS Integers, Sequences, FiniteSets, Http2Intf

CONSTANTS
  Protocols,       \* see AllProtocols
  NodeCfgs,        \* node configurations: see NodeCfgAssumption
  ENDORSER_MAX_NUM,\* BOAT_HLFABRIC_ENDORSER_MAX_NUM, length of the response array
  MaxCalls,        \* bound: calls of the application in a behaviour
  FaultKinds,      \* what may go wrong: see AllFaultKinds
  MaxFaults        \* bound: how often something goes wrong in a behaviour

VARIABLES
  chain,    \* the protocol of the wallet
  cfg,      \* nodesCfg of its network
  http2,    \* http2Context_ptr of the wallet
  tx,       \* the transaction
  exec,     \* the running call and TxExec
  rpc,      \* the request that is under way
  ret,      \* the last call and its result
  node,     \* ghost: the transactions that reached an orderer, and its answers
  calls,    \* how many calls the application has made
  faults,   \* what went wrong so far
  alive     \* FALSE: the process was killed by an access to memory it does not own

AllProtocols == {"HLFABRIC", "HWBCS", "CHAINMAKER_V1", "CHAINMAKER_V2"}

\* "connect": no connection; "send": the request cannot be sent; "timeout":
\* nothing, or not all, arrives in time; "protocol": nghttp2_session_recv
\* fails; "pack": the message cannot be packed or signed; "nomem": no memory.
AllFaultKinds == {"connect", "send", "timeout", "protocol", "pack", "nomem"}

Group == [n : Nat \ {0}, q : Nat]

ASSUME ProtocolAssumption == Protocols \subseteq AllProtocols
\* What checkNodefig lets through: any number of layouts, groups and endorsers.
ASSUME NodeCfgAssumption ==
  \A c \in NodeCfgs :
    /\ c.layouts \in Seq(Seq(Group)) /\ c.layouts # <<>> /\ c.orderers \in Nat \ {0}
    /\ \A i \in DOMAIN c.layouts :
         /\ c.layouts[i] # <<>>
         /\ \A j \in DOMAIN c.layouts[i] : c.layouts[i][j].q <= c.layouts[i][j].n
ASSUME BoundAssumption == MaxCalls \in Nat /\ MaxFaults \in Nat /\ ENDORSER_MAX_NUM \in Nat
ASSUME FaultAssumption == FaultKinds \subseteq AllFaultKinds

\* left is a ghost: how many of the answers are those of Submits that failed.
NoTx   == [init |-> FALSE, args |-> FALSE, nonce |-> 0, response |-> <<>>, evaluateRes |-> 0, left |-> 0]
Overrun == -1    \* evaluateRes after a write behind the response array
NoExec == [fun |-> "none"]
NoRpc  == [st |-> "idle"]
NoRet  == [op |-> "none", code |-> "SUCCESS"]

\* Answers.  An endorser's answer may lack the endorsement ("refused"); "ok",
\* "bad" and "empty" are what an endorsed answer says about the chaincode.
Endorsed == {"ok", "bad", "empty"}
Answers  == Endorsed \cup {"refused", "accepted", "rejected"}

----------------------------------------------------------------------------

Idle == alive /\ exec = NoExec

MayFail(kind) == kind \in FaultKinds /\ faults.left > 0

Fault(kind) ==
  /\ MayFail(kind)
  /\ faults' = [left |-> faults.left - 1, seen |-> faults.seen \cup {kind}]

\* The call ends with code and leaves transaction t.
Return(code, t) ==
  /\ exec' = NoExec
  /\ ret'  = [op |-> exec.fun, code |-> code]
  /\ tx'   = [t EXCEPT !.left = IF exec.fun = "SUBMIT" /\ code # "SUCCESS" THEN Len(t.response) ELSE 0]
  /\ http2' = [http2 EXCEPT !.buf = EmptyBuf]

\* An access to memory that is not there, or no longer.
Crash == alive' = FALSE /\ UNCHANGED <<chain, cfg, http2, tx, exec, rpc, ret, node, calls, faults>>

----------------------------------------------------------------------------
(* The application's calls that ask no node.                               *)

Called(c) == Idle /\ chain = c /\ calls < MaxCalls /\ calls' = calls + 1

Configured(c) == Called(c) /\ ret' = NoRet /\ UNCHANGED <<chain, cfg, exec, rpc, node, alive>>

\* Without memory no wallet is made, or one with a context that was freed, or,
\* except on Fabric, one without a context.
WalletInit(c) ==
  /\ Configured(c) /\ http2.ctx = "none"
  /\ \/ http2' = [http2Init EXCEPT !.open = http2.open] /\ UNCHANGED faults
     \/ Fault("nomem") /\ http2' \in {http2, [http2Init_NoBuffer EXCEPT !.open = http2.open]}
     \/ Fault("nomem") /\ c # "HLFABRIC" /\ http2' = [http2 EXCEPT !.ctx = "null"]
  /\ UNCHANGED tx

\* The transaction that used the wallet is not used any more.
WalletDeInit(c) ==
  /\ Configured(c) /\ http2.ctx # "none"
  /\ http2' = http2DeInit(http2)
  /\ tx'    = [NoTx EXCEPT !.nonce = tx.nonce]
  /\ UNCHANGED faults

BoatHlfabricWalletInit   == WalletInit("HLFABRIC")
BoatHlfabricWalletDeInit == WalletDeInit("HLFABRIC")
BoatHwbcsWalletInit      == WalletInit("HWBCS")
BoatHwbcsWalletDeInit    == WalletDeInit("HWBCS")

\* Everything is reset; endorsements of an earlier use are forgotten.
TxInit(c) ==
  /\ Configured(c) /\ http2.ctx # "none"
  /\ tx' = [NoTx EXCEPT !.init = TRUE, !.nonce = tx.nonce]
  /\ UNCHANGED <<http2, faults>>

BoatHlfabricTxInit == TxInit("HLFABRIC")
BoatHwbcsTxInit    == TxInit("HWBCS")

\* The wallet goes with the transaction.
TxDeInit(c) ==
  /\ Configured(c) /\ tx.init
  /\ tx'    = [NoTx EXCEPT !.nonce = tx.nonce]
  /\ http2' = http2DeInit(http2)
  /\ UNCHANGED faults

BoatHlfabricTxDeInit == TxDeInit("HLFABRIC")
BoatHwbcsTxDeInit    == TxDeInit("HWBCS")

TxSetArgs(c) ==
  /\ Configured(c) /\ tx.init
  /\ tx' = [tx EXCEPT !.args = TRUE]
  /\ UNCHANGED <<http2, faults>>

BoatHlfabricTxSetArgs == TxSetArgs("HLFABRIC")
BoatHwbcsTxSetArgs    == TxSetArgs("HWBCS")

\* Without memory TxInit frees what was not allocated: addresses in the transaction.
TxInit_FreesOther ==
  /\ Idle /\ calls < MaxCalls /\ chain \in {"HLFABRIC", "HWBCS"} /\ http2.ctx # "none"
  /\ MayFail("nomem") /\ Crash

\* A context that was freed is freed once more, with its wallet.
http2DeInit_FreedTwice == Idle /\ calls < MaxCalls /\ http2.ctx = "freed" /\ Crash

----------------------------------------------------------------------------
(* The loops of TxExec.                                                    *)

Proposal(fun)  == [fun |-> fun, type |-> "PROPOSAL", i |-> 1, j |-> 1, k |-> 1, valid |-> 0,
                   result |-> "SUCCESS", st |-> "pack"]
Transaction    == [Proposal("SUBMIT") EXCEPT !.type = "TRANSACTION"]
GroupOf(e)     == cfg.layouts[e.i][e.j]

Freed(t) == [t EXCEPT !.response = <<>>]

\* Mutant: Evaluate keeps the answers it got.
MutantExecReturns(result, t) ==
  IF exec.fun = "SUBMIT" /\ exec.type = "PROPOSAL" /\ result = "SUCCESS"
  THEN exec' = Transaction /\ tx' = t /\ http2' = [http2 EXCEPT !.buf = EmptyBuf] /\ UNCHANGED ret
  ELSE Return(result, IF exec.fun = "SUBMIT" /\ result = "SUCCESS" THEN Freed(t) ELSE t)

\* TxExec returns result: to Evaluate, or to one of the two halves of Submit.
\* A Submit that fails leaves the answers it got where they are.
ExecReturns(result, t) ==
  IF exec.fun = "SUBMIT" /\ exec.type = "PROPOSAL" /\ result = "SUCCESS"
  THEN exec' = Transaction /\ tx' = t /\ http2' = [http2 EXCEPT !.buf = EmptyBuf] /\ UNCHANGED ret
  ELSE Return(result, IF exec.fun = "SUBMIT" /\ result # "SUCCESS" THEN t ELSE Freed(t))

\* The loop goes on at e.
Continue(e, buf, t) ==
  /\ exec'  = [e EXCEPT !.st = "ask"]
  /\ tx'    = t
  /\ http2' = [http2 EXCEPT !.buf = buf]
  /\ UNCHANGED ret

\* On to the next group, or to the next layout, or out of the loops.
NextGroup(e, buf, t) ==
  IF e.j < Len(cfg.layouts[e.i])
  THEN Continue([e EXCEPT !.j = @ + 1, !.k = 1, !.valid = 0], buf, t)
  ELSE IF e.i < Len(cfg.layouts)
  THEN Continue([e EXCEPT !.i = @ + 1, !.j = 1, !.k = 1, !.valid = 0], buf, t)
  ELSE ExecReturns(e.result, t)

\* Mutant: the loop runs one endorser too far.
MutantNextEndorser(e, buf, t) ==
  IF e.k <= GroupOf(e).n THEN Continue([e EXCEPT !.k = @ + 1], buf, t)
  ELSE IF e.valid < GroupOf(e).q THEN ExecReturns("ERROR", t)
  ELSE NextGroup(e, buf, t)

\* The end of a round of the innermost loop: a group that falls short ends
\* TxExec, the next layout is not tried.
NextEndorser(e, buf, t) ==
  IF e.k < GroupOf(e).n THEN Continue([e EXCEPT !.k = @ + 1], buf, t)
  ELSE IF e.valid < GroupOf(e).q THEN ExecReturns("ERROR", t)
  ELSE NextGroup(e, buf, t)

\* The endorser counts for its group; with the last group TxExec is done.
Counted(f, t) ==
  IF f.j = Len(cfg.layouts[f.i]) THEN ExecReturns("SUCCESS", t) ELSE NextGroup(f, EmptyBuf, t)

\* Mutant: one endorser less than the group's quantity is enough.
MutantCountEndorser(e, t) ==
  LET f == [e EXCEPT !.valid = @ + 1]
  IN  IF f.valid + 1 < GroupOf(f).q THEN NextEndorser(f, EmptyBuf, t) ELSE Counted(f, t)

\* Mutant: all endorsers of a group are asked.
MutantCountOneMore(e, t) ==
  LET f == [e EXCEPT !.valid = @ + 1]
  IN  IF f.k < GroupOf(f).n \/ f.valid < GroupOf(f).q THEN NextEndorser(f, EmptyBuf, t) ELSE Counted(f, t)

CountEndorser(e, t) ==
  LET f == [e EXCEPT !.valid = @ + 1]
  IN  IF f.valid < GroupOf(f).q THEN NextEndorser(f, EmptyBuf, t) ELSE Counted(f, t)

\* The next orderer, or the result as it stands.
NextOrderer(e, buf) ==
  IF e.k < cfg.orderers THEN Continue([e EXCEPT !.k = @ + 1], buf, tx) ELSE ExecReturns(e.result, tx)

----------------------------------------------------------------------------
(* Evaluate and Submit.                                                    *)

TxStart(c, fun) ==
  /\ Called(c) /\ tx.init
  /\ IF tx.args THEN exec' = Proposal(fun) /\ ret' = NoRet
     ELSE exec' = NoExec /\ ret' = [op |-> fun, code |-> "INVALID_ARGUMENT"]
  /\ UNCHANGED <<chain, cfg, http2, tx, rpc, node, faults, alive>>

BoatHlfabricTxEvaluate == TxStart("HLFABRIC", "EVALUATE")
BoatHlfabricTxSubmit   == TxStart("HLFABRIC", "SUBMIT")
BoatHwbcsTxEvaluate    == TxStart("HWBCS", "EVALUATE")
BoatHwbcsTxSubmit      == TxStart("HWBCS", "SUBMIT")

\* Packing has no use for freed memory: the send buffer is gone with the
\* context, and an overrun of the response array has hit evaluateRes.
Unusable == http2.ctx = "freed" \/ tx.evaluateRes = Overrun

\* A proposal gets a nonce of its own; a transaction keeps it.
Header(t) == IF exec.type = "PROPOSAL" THEN [t EXCEPT !.nonce = @ + 1, !.evaluateRes = 0]
             ELSE [t EXCEPT !.evaluateRes = 0]

Pack(c, header(_)) ==
  /\ alive /\ chain = c /\ exec # NoExec /\ exec.st = "pack"
  /\ \/ Unusable /\ Crash
     \/ /\ ~Unusable
        /\ UNCHANGED <<chain, cfg, rpc, node, calls, alive>>
        /\ \/ http2.ctx = "ok" /\ Continue(exec, EmptyBuf, header(tx)) /\ UNCHANGED faults
           \/ /\ (http2.ctx = "null" /\ UNCHANGED faults) \/ Fault("pack")
              /\ ExecReturns("PROTO_PACKET_FAIL", header(tx))

\* Mutant: the result of an earlier Evaluate is kept.
Mutant_hlfabricProposalTransactionPacked ==
  Pack("HLFABRIC", LAMBDA t : [Header(t) EXCEPT !.evaluateRes = t.evaluateRes])

hlfabricProposalTransactionPacked == Pack("HLFABRIC", Header)
hwbcsProposalTransactionPacked    == Pack("HWBCS", Header)

----------------------------------------------------------------------------
(* A request (http2SubmitRequest), and what becomes of it.                 *)

Ends(result) == rpc' = [st |-> "done", result |-> result]

http2SubmitRequest ==
  /\ alive /\ exec # NoExec /\ exec.st = "ask" /\ rpc = NoRpc
  /\ \/ rpc' = [st |-> "sent"] /\ http2' = Connected(http2) /\ UNCHANGED faults
     \/ Fault("connect") /\ Ends("CONNECT_FAIL") /\ http2' \in {http2, Connected(http2)}
     \/ Fault("send") /\ Ends("HTTP2_INTERNAL") /\ http2' = Connected(http2)
  /\ UNCHANGED <<chain, cfg, tx, exec, ret, node, calls, alive>>

\* The node has the request, and answers a; piece is what arrives of the answer.
NodeGets(a, piece) ==
  node' = IF exec.type # "TRANSACTION" THEN node
          ELSE node \cup {[nonce |-> tx.nonce, response |-> tx.response, left |-> tx.left,
                           by |-> exec.k, answer |-> a, whole |-> piece = "whole"]}

NodeAnswers == IF exec.type = "PROPOSAL" THEN Endorsed \cup {"refused"} ELSE {"accepted", "rejected"}

Request(piece, a, result) ==
  /\ alive /\ rpc.st = "sent" /\ chain \in {"HLFABRIC", "HWBCS"}
  /\ a \in NodeAnswers
  /\ http2' \in Received(http2, piece, a)
  /\ Ends(result)
  /\ UNCHANGED <<chain, cfg, tx, exec, ret, calls, alive>>

Request_Answered ==
  \E a \in Answers : Request("whole", a, "SUCCESS") /\ NodeGets(a, "whole") /\ UNCHANGED faults

\* Half a second without a byte ends the request, which counts as a success.
Request_TimedOut ==
  \E a \in Answers, piece \in Pieces \ {"whole"} :
    Request(piece, a, "SUCCESS") /\ Fault("timeout") /\ (NodeGets(a, piece) \/ (piece = "none" /\ UNCHANGED node))

Request_Broken ==
  \E a \in Answers, piece \in Pieces \ {"whole"} :
    Request(piece, a, "HTTP2_INTERNAL") /\ Fault("protocol") /\ NodeGets(a, piece)

\* An answer is appended to a buffer that was freed.
Request_IntoFreed == alive /\ rpc.st = "sent" /\ http2.buf.freed /\ Crash

----------------------------------------------------------------------------
(* TxExec after a request.                                                 *)

After(c, type) ==
  /\ alive /\ chain = c /\ exec # NoExec /\ exec.st = "ask" /\ exec.type = type /\ rpc.st = "done"

Handled == rpc' = NoRpc /\ UNCHANGED <<chain, cfg, node, calls, alive>>

With(result) == [exec EXCEPT !.result = result]
Long         == http2.buf.len = "long"

\* An answer is put at the end of the response array, which is not checked;
\* behind it lies evaluateRes.
Store(t, type) ==
  [t EXCEPT !.response = Append(@, [type |-> type, nonce |-> tx.nonce, i |-> exec.i, j |-> exec.j]),
            !.evaluateRes = IF Len(t.response) >= ENDORSER_MAX_NUM THEN Overrun ELSE @]

Hlfabric_NoAnswer ==
  /\ After("HLFABRIC", "PROPOSAL") /\ Handled /\ UNCHANGED faults
  /\ \/ rpc.result # "SUCCESS" /\ NextEndorser(With(rpc.result), http2.buf, tx)
     \/ rpc.result = "SUCCESS" /\ ~Long /\ NextEndorser(With("ERROR"), http2.buf, tx)

\* The answer is unpacked; one with an endorsement is stored whatever it says.
Hlfabric_Endorser ==
  /\ After("HLFABRIC", "PROPOSAL") /\ Handled /\ rpc.result = "SUCCESS" /\ Long
  /\ \E a \in http2.buf.may :
       \/ a \notin Endorsed /\ NextEndorser(With("SUCCESS"), EmptyBuf, tx) /\ UNCHANGED faults
       \/ a \in Endorsed /\ exec.fun = "SUBMIT" /\ CountEndorser(With("SUCCESS"), Store(tx, "PROPOSAL")) /\ UNCHANGED faults
       \/ a = "bad" /\ exec.fun = "EVALUATE" /\ NextEndorser(With("SUCCESS"), EmptyBuf, Store(tx, "PROPOSAL")) /\ UNCHANGED faults
       \/ a = "empty" /\ exec.fun = "EVALUATE" /\ ExecReturns("SUCCESS", Store(tx, "PROPOSAL")) /\ UNCHANGED faults
       \/ /\ a = "ok" /\ exec.fun = "EVALUATE"
          /\ \/ ExecReturns("SUCCESS", [Store(tx, "PROPOSAL") EXCEPT !.evaluateRes = tx.nonce]) /\ UNCHANGED faults
             \/ Fault("nomem") /\ ExecReturns("OUT_OF_MEMORY", Store(tx, "PROPOSAL"))

\* Mutant: the loop goes on after an orderer has accepted.
MutantHlfabric_Orderer ==
  /\ After("HLFABRIC", "TRANSACTION") /\ Handled /\ UNCHANGED faults
  /\ \/ rpc.result # "SUCCESS" /\ NextOrderer(With(rpc.result), http2.buf)
     \/ rpc.result = "SUCCESS" /\ ~Long /\ NextOrderer(With("SUCCESS"), http2.buf)
     \/ rpc.result = "SUCCESS" /\ Long /\ NextOrderer(With("SUCCESS"), EmptyBuf)

\* The buffer is freed and keeps its length.  An answer that is no acceptance
\* leaves the result at BOAT_SUCCESS.
Hlfabric_Orderer ==
  /\ After("HLFABRIC", "TRANSACTION") /\ Handled /\ UNCHANGED faults
  /\ \/ rpc.result # "SUCCESS" /\ NextOrderer(With(rpc.result), http2.buf)
     \/ rpc.result = "SUCCESS" /\ ~Long /\ NextOrderer(With("SUCCESS"), http2.buf)
     \/ /\ rpc.result = "SUCCESS" /\ Long
        /\ \E a \in http2.buf.may :
             IF a = "accepted" THEN ExecReturns("SUCCESS", Store(tx, "TRANSACTION"))
             ELSE NextOrderer(With("SUCCESS"), [http2.buf EXCEPT !.freed = TRUE])

\* Nothing came in addition to the answer that was freed: it is read and freed again.
Hlfabric_FreedTwice ==
  After("HLFABRIC", "TRANSACTION") /\ rpc.result = "SUCCESS" /\ http2.buf.freed /\ Crash

\* An answer that is too short is unpacked with a length below zero.
Hwbcs_Endorser ==
  /\ After("HWBCS", "PROPOSAL") /\ Handled /\ UNCHANGED faults
  /\ \/ rpc.result # "SUCCESS" /\ NextEndorser(With(rpc.result), http2.buf, tx)
     \/ /\ rpc.result = "SUCCESS"
        /\ http2.buf.may \ {"ok", "empty"} # {}
        /\ NextEndorser(With("SUCCESS"), EmptyBuf, tx)

\* parsePtr is NULL when the first good answer is stored through it.
Hwbcs_EndorserCrash ==
  /\ After("HWBCS", "PROPOSAL") /\ rpc.result = "SUCCESS"
  /\ ~Long \/ http2.buf.may \cap {"ok", "empty"} # {}
  /\ Crash

\* Mutant: a rejection is no error.
MutantHwbcs_Orderer ==
  /\ After("HWBCS", "TRANSACTION") /\ Handled /\ UNCHANGED faults
  /\ \/ rpc.result # "SUCCESS" /\ NextOrderer(With(rpc.result), http2.buf)
     \/ rpc.result = "SUCCESS" /\ "accepted" \in http2.buf.may /\ ExecReturns("SUCCESS", tx)
     \/ rpc.result = "SUCCESS" /\ "rejected" \in http2.buf.may /\ NextOrderer(With("SUCCESS"), EmptyBuf)

Hwbcs_Orderer ==
  /\ After("HWBCS", "TRANSACTION") /\ Handled /\ UNCHANGED faults
  /\ \/ rpc.result # "SUCCESS" /\ NextOrderer(With(rpc.result), http2.buf)
     \/ rpc.result = "SUCCESS" /\ "accepted" \in http2.buf.may /\ ExecReturns("SUCCESS", tx)
     \/ rpc.result = "SUCCESS" /\ "rejected" \in http2.buf.may /\ NextOrderer(With("ERROR"), EmptyBuf)

\* The status of an answer that could not be unpacked is read.
Hwbcs_OrdererCrash ==
  After("HWBCS", "TRANSACTION") /\ rpc.result = "SUCCESS" /\ NoAnswer \in http2.buf.may /\ Crash
=============================================================================
