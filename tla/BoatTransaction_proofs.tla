----------------------- MODULE BoatTransaction_proofs -----------------------
(***************************************************************************)
(* The inductive invariant of a wallet of the JSON-RPC protocols, and what *)
(* the steps of a call and of the node do to it.  BoatWalletApi_proofs     *)
(* adds the functions of the API and draws the conclusions.                *)
(***************************************************************************)
EXTENDS BoatTransaction, FiniteSetTheorems, SequenceTheorems, TLAPS

----------------------------------------------------------------------------
(* What the variables hold.                                                *)

Fields == [FieldNames -> Nat]

\* What a function of the API asks the node for and hands to the application.
QuerySet == [method : {"balance"}, address : Nat] \cup [method : {"call"}, to : Nat]
              \cup [method : {"block"}]

\* The fields a function of the API sets at once.
GroupSet ==
  [gasprice : Nat] \cup [value : Nat] \cup [value : Nat, data : Nat]
    \cup [recipient : Nat, gaslimit : Nat]
    \cup [gaslimit : Nat, recipient : Nat, value : Nat]
    \cup [gaslimit : Nat, recipient : Nat, value : Nat, recipientbech32 : Nat]
    \cup [gaslimit : Nat, recipient : Nat, value : Nat, txtype : Nat]
    \cup [gaslimit : Nat, recipient : Nat, privatefor : Nat, value : Nat]
    \cup [gasprice : Nat, gaslimit : Nat, recipient : Nat, chainid : Nat, groupid : Nat]

PlainOps == {"nonce", "gasprice", "block", "receipt", "fill", "send"}
StepSet  == [op : PlainOps] \cup [op : {"query"}, req : QuerySet] \cup [op : {"set"}, g : GroupSet]

RawSet    == [list : Seq(Nat), v : Nat, sig : [key : Nat, over : Seq(Nat), whole : BOOLEAN]]
EntrySet  == [raw : RawSet, ok : BOOLEAN]
WalletRec == [open : BOOLEAN, key : {Key}, chain_id : ChainIds, eip155 : BOOLEAN]
Web3Rec   == [json : 0..2, result : Nat]
TxRec     == [wallet_ptr : BOOLEAN, is_sync : BOOLEAN, is_private : BOOLEAN,
              tx_hash : {NoHash} \cup RawSet, f : Fields]
NodeRec   == [pool : SUBSET RawSet, ledger : Seq(EntrySet), accepted : SUBSET RawSet,
              late : SUBSET RawSet, height : 0..MaxHeight]
FaultRec  == [left : 0..MaxFaults, seen : SUBSET FaultKinds]

TypeInv ==
  /\ chain \in Chains
  /\ wallet \in WalletRec
  /\ web3 \in Web3Rec
  /\ tx \in TxRec
  /\ todo \in Seq(StepSet)
  /\ wait \in 1..WAIT_PENDING_TX_TIMEOUT
  /\ node \in NodeRec
  /\ faults \in FaultRec
  /\ sent \in RawSet
  /\ acks \in Nat

----------------------------------------------------------------------------
(* The running call.                                                       *)

Sending == {"TxSend", "Transfer"}

\* A call that sends: the send is the last step but for the receipt of a
\* synchronous transaction, and a private payload is filled right before it.
SendList(s, sync, private) ==
  /\ s # <<>>
  /\ \A i \in 1..Len(s) :
       /\ s[i].op = "send" <=> i = IF sync THEN Len(s) - 1 ELSE Len(s)
       /\ s[i].op = "receipt" <=> sync /\ i = Len(s)
  /\ private => \A i \in 1..(Len(s) - 1) : s[i + 1].op = "send" => s[i].op = "fill"

Private == chain = "QUORUM" /\ tx.is_private

CallInv ==
  /\ call = "none" <=> todo = <<>>
  /\ call # "none" => ret = NoRet
  /\ IF call \in Sending THEN SendList(todo, tx.is_sync, Private)
     ELSE \A i \in 1..Len(todo) : todo[i].op \notin {"send", "fill"}
  /\ call = "Receipt" => \A i \in 1..Len(todo) : todo[i].op = "receipt"

\* The node finds the wallet to be the sender, unless CITA's r or s was short.
Recovered(c, raw) == /\ raw.sig.whole => Sender(c, raw) = Key
                     /\ c # "CITA" => raw.sig.whole

GoodRaw(raw) == raw \in RawSet /\ Recovered(chain, raw)

\* The request of the step the call is at.
ReqOK(op, req) ==
  \/ op = "nonce"    /\ req = web3_getTransactionCount(wallet.key)
  \/ op = "gasprice" /\ req = web3_gasPrice
  \/ op = "block"    /\ req = web3_cita_getBlockNumber
  \/ op = "receipt"  /\ req = web3_getTransactionReceiptStatus(tx.tx_hash)
  \/ op = "fill"     /\ req = web3_fillTransaction(tx.f["recipient"], tx.f["data"])
  \/ op = "send"     /\ req = web3_sendRawTransaction(sent) /\ GoodRaw(sent)
  \/ op = "query"    /\ req \in QuerySet

\* What its answer may be.
AnsOK(op, ans) ==
  \/ ans.kind \in {"error", "garbage"}
  \/ ans.kind = "none" /\ ans.code \in {"RPC_FAIL", "OUT_OF_MEMORY"}
  \/ op \in {"nonce", "gasprice", "block"} /\ ans.kind = "string" /\ ans.val \in Nat
  \/ op = "query" /\ ans.kind = "string"
  \/ op = "fill" /\ ans.kind = "object" /\ ans.val = Handle(tx.f["data"])
  \/ op = "receipt" /\ ans.kind = "null" /\ tx.tx_hash # NoHash
  \/ op = "receipt" /\ ans.kind \in {"object", "nonstring"} /\ tx.tx_hash \in Mined
  \/ op = "send" /\ ans.kind \in {"string", "object"} /\ ans.val = sent /\ sent \in node.accepted

RpcInv ==
  \/ rpc = NoRpc
  \/ /\ todo # <<>> /\ Head(todo).op # "set"
     /\ \/ rpc.st = "sent" /\ ReqOK(Head(todo).op, rpc.req)
        \/ rpc.st = "answered" /\ AnsOK(Head(todo).op, rpc.ans)

\* The text fillTransaction left in the result buffer is there when it is used.
FillInv == Private /\ At("send") /\ rpc = NoRpc => web3.result = Handle(tx.f["data"])

----------------------------------------------------------------------------
(* The node, and what the wallet knows of it.                              *)

NodeInv ==
  /\ IsFiniteSet(node.accepted) /\ IsFiniteSet(node.late)
  /\ node.pool \subseteq node.accepted
  /\ Mined \subseteq node.accepted
  /\ Cardinality(node.accepted) <= MaxTx
  /\ Cardinality(node.late) + faults.left <= MaxFaults
  /\ \A raw \in node.accepted \cup node.late : GoodRaw(raw)
  /\ \A raw \in node.accepted : raw.sig.whole
  /\ chain \in Eip155Chains => /\ node.accepted \subseteq node.pool \cup Mined
                               /\ \A i \in 1..Len(node.ledger) : Nonce(node.ledger[i].raw) = i - 1

Perfect == "packbuf" \notin faults.seen

HashInv ==
  /\ chain # "CITA" => tx.tx_hash \in {NoHash, sent}
  /\ tx.tx_hash # NoHash => tx.tx_hash \in node.accepted
  /\ call \in Sending /\ At("receipt") /\ Perfect => tx.tx_hash = sent
  /\ sent # NoRaw => Recovered(chain, sent)

RetInv ==
  /\ ret.op \in Sending /\ ret.code = "SUCCESS" /\ tx.is_sync /\ Perfect =>
       tx.tx_hash = sent /\ sent \in Mined
  /\ ret.op = "Receipt" /\ ret.code = "SUCCESS" => tx.tx_hash \in Mined
  /\ ret.op \in Sending \cup {"Receipt"} /\ ret.code = "TX_PENDING" => tx.tx_hash \in node.accepted

\* The running call has sent its transaction, and nothing but its receipt is
\* left to do.
Acked ==
  /\ call \in Sending
  /\ \/ At("receipt")
     \/ At("send") /\ rpc.st = "answered" /\ rpc.ans.kind \in {"string", "object"}

AckInv == Perfect => acks + (IF Acked THEN 1 ELSE 0) <= Cardinality(node.accepted)

Inv == TypeInv /\ CallInv /\ RpcInv /\ FillInv /\ NodeInv /\ HashInv /\ RetInv /\ AckInv

----------------------------------------------------------------------------
(* Facts about the operators.                                              *)

\* What a step of each kind carries.
LEMMA StepFacts ==
  ASSUME NEW s \in StepSet
  PROVE  /\ s.op \in PlainOps \cup {"query", "set"}
         /\ s.op = "set" => s.g \in GroupSet
         /\ s.op = "query" => s.req \in QuerySet
BY DEF StepSet, PlainOps

LEMMA PlainStep == ASSUME NEW op \in PlainOps PROVE Step(op) \in StepSet /\ Step(op).op = op
BY DEF Step, StepSet

\* Setting a group of fields leaves numbers in all of them.
LEMMA WithType == ASSUME NEW f \in Fields, NEW g \in GroupSet PROVE With(f, g) \in Fields
<1>1. \A n \in DOMAIN g : g[n] \in Nat
  BY DEF GroupSet
<1>. QED
  BY <1>1 DEF With, Fields

LEMMA HandleType == ASSUME NEW d \in Nat PROVE Handle(d) \in Nat
BY DEF Handle

LEMMA ChainCases == Chains \subseteq AllChains
BY ChainAssumption

Onward == faults' \in FaultRec /\ faults'.left <= faults.left /\ faults.seen \subseteq faults'.seen

\* Faults are used up and remembered.
LEMMA FaultOnward ==
  ASSUME TypeInv, NEW kind, UNCHANGED faults \/ Fault(kind)
  PROVE  /\ Onward
         /\ Fault(kind) => faults'.left = faults.left - 1 /\ kind \in faults'.seen
<1>1. faults \in FaultRec
  BY DEF TypeInv
<1>2. CASE UNCHANGED faults /\ ~Fault(kind)
  BY <1>1, <1>2 DEF Onward, FaultRec
<1>3. CASE Fault(kind)
  BY <1>1, <1>3, BoundAssumption DEF Fault, Onward, FaultRec
<1>. QED
  BY <1>2, <1>3
----------------------------------------------------------------------------
(* Raw transactions.                                                       *)

\* A list signed without a chain id is recovered when v does not announce one.
LEMMA PlainSigned ==
  ASSUME NEW list \in Seq(Nat), NEW v \in Nat,
         ~HasChainId(chain, Signed(Key, list, <<>>, v))
  PROVE  GoodRaw(Signed(Key, list, <<>>, v))
<1>. DEFINE raw == Signed(Key, list, <<>>, v)
<1>1. list \o <<>> = list
  OBVIOUS
<1>2. raw \in RawSet
  BY <1>1 DEF Signed, RawSet, Key
<1>3. SignedList(chain, raw) = list /\ raw.sig.over = list /\ raw.sig.key = Key
  BY <1>1 DEF SignedList, Signed
<1>. QED
  BY <1>2, <1>3 DEF GoodRaw, Recovered, Sender, Signed

LEMMA ParityType == ASSUME NEW list \in Seq(Nat), Len(list) >= 1 PROVE Parity(list) \in 0..1
<1>1. list[1] \in Nat
  OBVIOUS
<1>. QED
  BY <1>1 DEF Parity

\* v carries the chain id, whatever the parity: the node gets back the list
\* that was signed.
LEMMA Eip155Recovers ==
  ASSUME chain \in Chains \ LimitChains, NEW list \in Seq(Nat), Len(list) >= 1,
         NEW id \in ChainIds, NEW e \in BOOLEAN
  PROVE  GoodRaw(Eip155(Key, list, id, e))
<1>. DEFINE p == Parity(list)
<1>1. p \in 0..1
  BY ParityType
<1>2. id \in Nat /\ 2 * id + 36 < UINT32 /\ UINT32 \in Nat
  BY ChainIdAssumption, InputAssumption, UintAssumption
<1>. HIDE DEF p
<1>3. CASE ~e
  <2>1. ~HasChainId(chain, Signed(Key, list, <<>>, p + 27))
    BY <1>1 DEF HasChainId, IsPrivate, Signed
  <2>2. GoodRaw(Signed(Key, list, <<>>, p + 27))
    BY <2>1, <1>1, PlainSigned
  <2>. QED
    BY <1>3, <2>2 DEF Eip155, p
<1>4. CASE e
  <2>. DEFINE v   == id * 2 + p + 35
              raw == Signed(Key, list, <<id, 0, 0>>, v)
  <2>1. v \in Nat /\ v < UINT32 /\ Eip155V(id, p) = v
    BY <1>1, <1>2 DEF Eip155V
  <2>2. (v - 35) \div 2 = id
    BY <1>1, <1>2
  <2>3. chain = "QUORUM" => v \notin {37, 38}
    BY <1>1, <1>2, ChainIdAssumption
  <2>. HIDE DEF v
  <2>4. list \o <<id, 0, 0>> \in Seq(Nat)
    BY <1>2
  <2>5. raw \in RawSet
    BY <2>1, <2>4 DEF Signed, RawSet, Key
  <2>6. HasChainId(chain, raw)
    BY <2>1, <2>3, <1>1, <1>2 DEF HasChainId, IsPrivate, Signed, LimitChains, v
  <2>7. SignedList(chain, raw) = list \o <<id, 0, 0>>
    BY <2>2, <2>6 DEF SignedList, ChainIdOf, Signed
  <2>8. GoodRaw(raw)
    BY <2>5, <2>7 DEF GoodRaw, Recovered, Sender, Signed
  <2>. QED
    BY <1>4, <2>1, <2>8 DEF Eip155, p
<1>. QED
  BY <1>3, <1>4

\* The fields of a transaction, in the order of its protocol.
LEMMA ListType ==
  ASSUME chain \in AllChains, NEW f \in Fields
  PROVE  List(f, Layout(chain)) \in Seq(Nat) /\ Len(List(f, Layout(chain))) >= 1
<1>1. CASE chain = "PLATONE"
  <2>1. Layout(chain) = <<"nonce", "gasprice", "gaslimit", "recipient", "value", "data", "txtype">>
    BY <1>1 DEF Layout
  <2>. QED
    BY <2>1 DEF List, Fields, FieldNames
<1>2. CASE chain = "FISCOBCOS"
  <2>1. Layout(chain) = <<"nonce", "gasprice", "gaslimit", "limit", "recipient", "value", "data",
                          "chainid", "groupid", "extra">>
    BY <1>2 DEF Layout
  <2>. QED
    BY <2>1 DEF List, Fields, FieldNames
<1>3. CASE chain = "CITA"
  <2>1. Layout(chain) = <<"nonce", "gaslimit", "limit", "data", "value", "recipient", "chainid">>
    BY <1>3 DEF Layout
  <2>. QED
    BY <2>1 DEF List, Fields, FieldNames
<1>4. CASE chain \notin {"PLATONE", "FISCOBCOS", "CITA"}
  <2>1. Layout(chain) = <<"nonce", "gasprice", "gaslimit", "recipient", "value", "data">>
    BY <1>4 DEF Layout
  <2>. QED
    BY <2>1 DEF List, Fields, FieldNames
<1>. QED
  BY <1>1, <1>2, <1>3, <1>4

\* A node that knows the order reads each field as it was.
LEMMA FieldIsRead ==
  ASSUME NEW f, NEW raw, raw.list = List(f, Layout(chain)),
         NEW n \in {Layout(chain)[i] : i \in DOMAIN Layout(chain)}
  PROVE  FieldOf(chain, raw, n) = f[n]
BY DEF FieldOf, List

\* The fields g are those of the transaction: CITA's nonce are the bytes of its
\* buffer, its chain id is the wallet's.  The data may have been replaced.
AsSet(g) ==
  /\ \A n \in FieldNames \ {"nonce", "chainid", "data"} : g[n] = tx.f[n]
  /\ g["nonce"] = IF chain = "CITA" THEN tx.f["noncebuf"] ELSE tx.f["nonce"]
  /\ g["chainid"] = IF chain = "CITA" THEN wallet.chain_id ELSE tx.f["chainid"]
  /\ \/ g["data"] = tx.f["data"]
     \/ Private
     \/ chain = "PLATONE" /\ tx.f["data"] = TxTypeData /\ call # "Transfer"

\* What the SendRawtx functions have in common: raw is signed by the wallet's
\* key and has the fields g.
SendOf(f, g, raw, hash) ==
  /\ SendRawtx(chain, f, raw, web3_sendRawTransaction(raw), hash)
  /\ f \in Fields /\ g \in Fields
  /\ GoodRaw(raw) /\ raw.list = List(g, Layout(chain))
  /\ hash \in {NoHash, tx.tx_hash} /\ (chain # "CITA" => hash = NoHash)
  /\ AsSet(g)
  /\ Private => g["data"] = web3.result

LEMMA TypeFacts ==
  ASSUME TypeInv
  PROVE  /\ chain \in Chains /\ chain \in AllChains
         /\ wallet.key = Key /\ wallet.chain_id \in ChainIds /\ wallet.chain_id \in Nat
         /\ wallet.eip155 \in BOOLEAN
         /\ tx.f \in Fields /\ web3.result \in Nat
BY ChainAssumption, InputAssumption DEF TypeInv, WalletRec, TxRec, Web3Rec

\* EthSendRawtx, PlatONSendRawtx, VenachainSendRawtx
LEMMA PlainSendOf ==
  ASSUME TypeInv, EthSendRawtx \/ PlatONSendRawtx \/ VenachainSendRawtx
  PROVE  \E f, g, raw, hash : SendOf(f, g, raw, hash)
<1>. DEFINE list == List(tx.f, Layout(chain))
            raw  == Eip155(Key, list, wallet.chain_id, wallet.eip155)
<1>1. chain \in {"ETHEREUM", "PLATON", "VENACHAIN"}
  BY DEF EthSendRawtx, PlatONSendRawtx, VenachainSendRawtx, SendRawtx
<1>2. Layout(chain) = <<"nonce", "gasprice", "gaslimit", "recipient", "value", "data">>
  BY <1>1 DEF Layout
<1>3. EthTx(tx.f) = list /\ PlatONTx(tx.f) = list /\ VenachainTx(tx.f) = list
  BY <1>2 DEF EthTx, PlatONTx, VenachainTx
<1>4. list \in Seq(Nat) /\ Len(list) >= 1
  BY TypeFacts, ListType
<1>. HIDE DEF list
<1>5. /\ EthSigned(wallet, list) = raw
      /\ PlatONSigned(wallet, list) = raw
      /\ VenachainSigned(wallet, list) = raw
  BY TypeFacts DEF EthSigned, PlatONSigned, VenachainSigned
<1>6. raw.list = list
  BY DEF Eip155, Signed
<1>7. GoodRaw(raw)
  BY <1>1, <1>4, TypeFacts, Eip155Recovers DEF LimitChains
<1>. HIDE DEF raw
<1>8. SendRawtx(chain, tx.f, raw, web3_sendRawTransaction(raw), NoHash)
  BY <1>3, <1>5 DEF EthSendRawtx, PlatONSendRawtx, VenachainSendRawtx, SendRawtx
<1>9. SendOf(tx.f, tx.f, raw, NoHash)
  BY <1>1, <1>6, <1>7, <1>8, TypeFacts DEF SendOf, AsSet, Private, list
<1>. QED
  BY <1>9

LEMMA PlatoneSendOf ==
  ASSUME TypeInv, PlatoneSendRawtx
  PROVE  \E f, g, raw, hash : SendOf(f, g, raw, hash)
<1>0. chain = "PLATONE"
  BY DEF PlatoneSendRawtx, SendRawtx
<1>1. PICK d \in IF tx.f["data"] = TxTypeData /\ call # "Transfer" THEN {TxTypeData, OtherData} ELSE {tx.f["data"]} :
        LET f   == [tx.f EXCEPT !["data"] = d]
            raw == PlatoneSigned(wallet, PlatoneTx(f))
        IN  SendRawtx("PLATONE", tx.f, raw, web3_sendRawTransaction(raw), NoHash)
  BY DEF PlatoneSendRawtx
<1>. DEFINE g    == [tx.f EXCEPT !["data"] = d]
            list == List(g, Layout(chain))
            raw  == Eip155(Key, list, wallet.chain_id, wallet.eip155)
<1>2. g \in Fields /\ AsSet(g)
  <2>1. d \in Nat /\ tx.f \in [FieldNames -> Nat]
    BY <1>1, TypeFacts DEF Fields, FieldNames, TxTypeData, OtherData
  <2>2. \A n \in FieldNames : g[n] = IF n = "data" THEN d ELSE tx.f[n]
    BY <2>1
  <2>3. g \in Fields
    BY <2>1 DEF Fields
  <2>4. d = tx.f["data"] \/ (tx.f["data"] = TxTypeData /\ call # "Transfer")
    BY <1>1
  <2>. QED
    BY <1>0, <2>2, <2>3, <2>4 DEF AsSet, FieldNames
<1>. HIDE DEF g
<1>3. PlatoneTx(g) = list
  BY <1>0 DEF PlatoneTx, Layout
<1>4. list \in Seq(Nat) /\ Len(list) >= 1
  BY <1>2, TypeFacts, ListType
<1>. HIDE DEF list
<1>5. PlatoneSigned(wallet, list) = raw
  BY TypeFacts DEF PlatoneSigned
<1>6. raw.list = list
  BY DEF Eip155, Signed
<1>7. GoodRaw(raw)
  BY <1>0, <1>4, TypeFacts, Eip155Recovers DEF LimitChains
<1>. HIDE DEF raw
<1>8. SendRawtx(chain, tx.f, raw, web3_sendRawTransaction(raw), NoHash)
  BY <1>0, <1>1, <1>3, <1>5 DEF g
<1>9. SendOf(tx.f, g, raw, NoHash)
  BY <1>0, <1>2, <1>6, <1>7, <1>8, TypeFacts DEF SendOf, Private, list
<1>. QED
  BY <1>9

LEMMA QuorumSendOf ==
  ASSUME TypeInv, QuorumSendRawtx
  PROVE  \E f, g, raw, hash : SendOf(f, g, raw, hash)
<1>0. chain = "QUORUM"
  BY DEF QuorumSendRawtx, SendRawtx
<1>. DEFINE g    == QuorumData(tx.f, tx.is_private, web3.result)
            list == List(g, Layout(chain))
            raw  == QuorumSigned(wallet, list, tx.is_private)
<1>2. /\ g \in Fields
      /\ AsSet(g)
      /\ tx.is_private => g["data"] = web3.result
  BY <1>0, TypeFacts DEF QuorumData, AsSet, Private, Fields, FieldNames
<1>3. QuorumTx(g) = list
  BY <1>0 DEF QuorumTx, Layout
<1>4. list \in Seq(Nat) /\ Len(list) >= 1
  BY <1>2, TypeFacts, ListType
<1>5. SendRawtx(chain, g, raw, web3_sendRawTransaction(raw), NoHash)
  BY <1>0, <1>3 DEF QuorumSendRawtx, web3_sendRawPrivateTransaction, web3_sendRawTransaction
<1>. HIDE DEF g, list
<1>6. raw.list = list
  BY DEF QuorumSigned, Eip155, Signed
<1>7. GoodRaw(raw)
  <2>1. CASE ~wallet.eip155 /\ tx.is_private
    <3>1. Parity(list) \in 0..1
      BY <1>4, ParityType
    <3>2. ~HasChainId(chain, Signed(Key, list, <<>>, Parity(list) + 37))
      BY <3>1, <1>0 DEF HasChainId, IsPrivate, Signed
    <3>3. GoodRaw(Signed(Key, list, <<>>, Parity(list) + 37))
      BY <3>1, <3>2, <1>4, PlainSigned
    <3>. QED
      BY <2>1, <3>3, TypeFacts DEF QuorumSigned
  <2>2. CASE ~(~wallet.eip155 /\ tx.is_private)
    <3>1. GoodRaw(Eip155(Key, list, wallet.chain_id, wallet.eip155))
      BY <1>0, <1>4, TypeFacts, Eip155Recovers DEF LimitChains
    <3>. QED
      BY <2>2, <3>1, TypeFacts DEF QuorumSigned
  <2>. QED
    BY <2>1, <2>2
<1>. HIDE DEF raw
<1>8. SendOf(g, g, raw, NoHash)
  BY <1>0, <1>2, <1>5, <1>6, <1>7 DEF SendOf, Private, list
<1>. QED
  BY <1>8

LEMMA FiscobcosSendOf ==
  ASSUME TypeInv, FiscobcosSendRawtx
  PROVE  \E f, g, raw, hash : SendOf(f, g, raw, hash)
<1>0. chain = "FISCOBCOS"
  BY DEF FiscobcosSendRawtx, SendRawtx
<1>. DEFINE list == List(tx.f, Layout(chain))
            raw  == Signed(Key, list, <<>>, Parity(list) + 27)
<1>1. FiscobcosTx(tx.f) = list
  BY <1>0 DEF FiscobcosTx, Layout
<1>2. list \in Seq(Nat) /\ Len(list) >= 1
  BY TypeFacts, ListType
<1>. HIDE DEF list
<1>3. Parity(list) \in 0..1
  BY <1>2, ParityType
<1>4. GoodRaw(raw)
  BY <1>0, <1>2, <1>3, PlainSigned DEF HasChainId
<1>5. raw.list = list /\ raw = FiscobcosSigned(wallet, list)
  BY TypeFacts DEF Signed, FiscobcosSigned
<1>. HIDE DEF raw
<1>6. SendRawtx(chain, tx.f, raw, web3_sendRawTransaction(raw), NoHash)
  BY <1>0, <1>1, <1>5 DEF FiscobcosSendRawtx, web3_fiscobcos_sendRawTransaction, web3_sendRawTransaction
<1>7. SendOf(tx.f, tx.f, raw, NoHash)
  BY <1>0, <1>4, <1>5, <1>6, TypeFacts DEF SendOf, AsSet, Private, list
<1>. QED
  BY <1>7

\* CITA's packed transaction, sent or not.
LEMMA CitaRaw ==
  ASSUME TypeInv, chain = "CITA", NEW whole \in BOOLEAN,
         NEW raw, raw = CitaSigned(wallet, CitaTx(wallet, tx.f), whole)
  PROVE  /\ GoodRaw(raw)
         /\ \E g \in Fields : raw.list = List(g, Layout(chain)) /\ AsSet(g)
<1>. DEFINE g    == [tx.f EXCEPT !["chainid"] = wallet.chain_id, !["nonce"] = tx.f["noncebuf"]]
            list == List(g, Layout(chain))
<1>1. g \in Fields /\ AsSet(g)
  BY TypeFacts DEF AsSet, Fields, FieldNames
<1>2. CitaTx(wallet, tx.f) = list
  BY DEF CitaTx, Layout
<1>. HIDE DEF g
<1>3. list \in Seq(Nat) /\ Len(list) >= 1
  BY <1>1, TypeFacts, ListType
<1>. HIDE DEF list
<1>4. Parity(list) \in 0..1
  BY <1>3, ParityType
<1>5. raw = [list |-> list, v |-> Parity(list), sig |-> [key |-> Key, over |-> list, whole |-> whole]]
  BY <1>2, TypeFacts DEF CitaSigned
<1>6. raw \in RawSet
  BY <1>3, <1>4, <1>5 DEF RawSet, Key
<1>7. SignedList(chain, raw) = list
  BY <1>5 DEF SignedList, HasChainId
<1>8. GoodRaw(raw)
  BY <1>5, <1>6, <1>7 DEF GoodRaw, Recovered, Sender
<1>. QED
  BY <1>1, <1>5, <1>8 DEF list

LEMMA CitaSendOf ==
  ASSUME TypeInv, CitaSendRawtx
  PROVE  \E f, g, raw, hash : SendOf(f, g, raw, hash)
<1>0. chain = "CITA"
  BY DEF CitaSendRawtx, SendRawtx
<1>. DEFINE signed(w) == CitaSigned(wallet, CitaTx(wallet, tx.f), w)
<1>1. PICK whole \in BOOLEAN :
        SendRawtx("CITA", tx.f, signed(whole), web3_cita_sendRawTransaction(signed(whole)), tx.tx_hash)
  BY DEF CitaSendRawtx
<1>. DEFINE raw == signed(whole)
<1>2. SendRawtx(chain, tx.f, raw, web3_sendRawTransaction(raw), tx.tx_hash)
  BY <1>0, <1>1 DEF web3_cita_sendRawTransaction, web3_sendRawTransaction
<1>3. GoodRaw(raw) /\ \E g \in Fields : raw.list = List(g, Layout(chain)) /\ AsSet(g)
  BY <1>0, CitaRaw
<1>. HIDE DEF raw
<1>4. PICK g \in Fields : raw.list = List(g, Layout(chain)) /\ AsSet(g)
  BY <1>3
<1>5. SendOf(tx.f, g, raw, tx.tx_hash)
  BY <1>0, <1>2, <1>3, <1>4, TypeFacts DEF SendOf, Private
<1>. QED
  BY <1>5

----------------------------------------------------------------------------
(* Answers.                                                                *)

Kinds == {"none", "garbage", "error", "null", "string", "object", "nonstring"}
Codes == {"SUCCESS", "INVALID_ARGUMENT", "JSON_PARSE_FAIL", "JSON_GETOBJ_FAIL", "JSON_OBJ_IS_NULL"}

\* What a parser returns is what the answer holds, and it finds nothing to
\* return in an answer without a result.
ParseOK(ans, p) ==
  /\ p.code \in Codes
  /\ p.code = "SUCCESS" => /\ ans.kind \in {"string", "object", "nonstring"}
                           /\ ans.kind # "nonstring" => p.val = ans.val
  /\ p.code = "JSON_OBJ_IS_NULL" => ans.kind = "null"

LEMMA ParseResultOK ==
  ASSUME NEW ans, ans.kind \in Kinds, NEW child, NEW dflt
  PROVE  ParseOK(ans, ParseResult(ans, child, dflt))
<1>. DEFINE p == ParseResult(ans, child, dflt)
<1>0. \A c : Refused(c).code = c
  BY DEF Refused
<1>1. \A x : Parsed(x).code = "SUCCESS" /\ Parsed(x).val = x
  BY DEF Parsed
<1>2. CASE ans.kind = "none"
  <2>1. p = Refused("INVALID_ARGUMENT")
    BY <1>2 DEF ParseResult
  <2>. QED
    BY <2>1, <1>0, <1>2 DEF ParseOK, Codes
<1>3. CASE ans.kind = "garbage"
  <2>1. p = Refused("JSON_PARSE_FAIL")
    BY <1>3 DEF ParseResult
  <2>. QED
    BY <2>1, <1>0, <1>3 DEF ParseOK, Codes
<1>4. CASE ans.kind = "error"
  <2>1. p = Refused("JSON_GETOBJ_FAIL")
    BY <1>4 DEF ParseResult
  <2>. QED
    BY <2>1, <1>0, <1>4 DEF ParseOK, Codes
<1>5. CASE ans.kind = "null"
  <2>1. p = Refused("JSON_OBJ_IS_NULL")
    BY <1>5 DEF ParseResult
  <2>. QED
    BY <2>1, <1>0, <1>5 DEF ParseOK, Codes
<1>6. CASE ans.kind = "string"
  <2>1. p = Parsed(ans.val)
    BY <1>6 DEF ParseResult
  <2>. QED
    BY <2>1, <1>1, <1>6 DEF ParseOK, Codes
<1>7. CASE ans.kind \in {"object", "nonstring"} /\ ans.child # child
  <2>1. p = Refused("JSON_GETOBJ_FAIL")
    BY <1>7 DEF ParseResult
  <2>. QED
    BY <2>1, <1>0, <1>7 DEF ParseOK, Codes
<1>8. CASE ans.kind = "object" /\ ans.child = child
  <2>1. p = Parsed(ans.val)
    BY <1>8 DEF ParseResult
  <2>. QED
    BY <2>1, <1>1, <1>8 DEF ParseOK, Codes
<1>9. CASE ans.kind = "nonstring" /\ ans.child = child
  <2>1. p = Parsed(dflt)
    BY <1>9 DEF ParseResult
  <2>. QED
    BY <2>1, <1>1, <1>9 DEF ParseOK, Codes
<1>. QED
  BY <1>2, <1>3, <1>4, <1>5, <1>6, <1>7, <1>8, <1>9 DEF Kinds

LEMMA ParseFacts ==
  ASSUME chain \in AllChains, NEW child, NEW grand, rpc.ans.kind \in Kinds
  PROVE  ParseOK(rpc.ans, Parse(child, grand))
<1>. DEFINE ans == rpc.ans
            p   == ParseResult(ans, child, web3.result)
            q   == ParseResult(ans, child, NullText)
<1>1. ParseOK(ans, p) /\ ParseOK(ans, q) /\ ParseOK(ans, Refused("JSON_GETOBJ_FAIL"))
  BY ParseResultOK DEF ParseOK, Refused, Codes
<1>. HIDE DEF p, q
<1>2. Parse(child, grand) \in {p, q, Refused("JSON_GETOBJ_FAIL")}
  <2>1. CASE chain = "ETHEREUM"
    BY <2>1 DEF Parse, eth_parse_json_result, p
  <2>2. CASE chain = "PLATON"
    BY <2>2 DEF Parse, platon_parse_json_result, p
  <2>3. CASE chain = "PLATONE"
    BY <2>3 DEF Parse, platone_parse_json_result, p
  <2>4. CASE chain = "VENACHAIN"
    BY <2>4 DEF Parse, venachain_parse_json_result, p
  <2>5. CASE chain = "FISCOBCOS"
    BY <2>5 DEF Parse, fiscobcos_parse_json_result, p
  <2>6. CASE chain = "QUORUM"
    <3>1. Parse(child, grand) = quorum_parse_json_result(ans, child, grand, web3.result)
      BY <2>6 DEF Parse
    <3>. QED
      BY <3>1 DEF quorum_parse_json_result, p
  <2>7. CASE chain = "CITA"
    BY <2>7 DEF Parse, cita_parse_json_result, q
  <2>. QED
    BY <2>1, <2>2, <2>3, <2>4, <2>5, <2>6, <2>7 DEF AllChains, Eip155Chains, LimitChains
<1>. QED
  BY <1>1, <1>2

\* What a caller that takes an answer knows of it.
LEMMA AnswerFacts ==
  ASSUME TypeInv, RpcInv, NEW op, Answer(op), NEW child, NEW grand
  PROVE  /\ AnsOK(op, rpc.ans) /\ rpc.ans.kind \in Kinds
         /\ ParseOK(rpc.ans, Parse(child, grand))
         /\ NoAnswer => rpc.ans.code \in {"RPC_FAIL", "OUT_OF_MEMORY"}
<1>1. AnsOK(op, rpc.ans)
  BY DEF Answer, At, RpcInv, NoRpc
<1>2. rpc.ans.kind \in Kinds /\ (NoAnswer => rpc.ans.code \in {"RPC_FAIL", "OUT_OF_MEMORY"})
  BY <1>1 DEF AnsOK, Kinds, NoAnswer
<1>. QED
  BY <1>1, <1>2, TypeFacts, ParseFacts

----------------------------------------------------------------------------
(* The end of a step.                                                      *)

\* What every step of a call that does not leave a request under way does.
Ends ==
  /\ rpc' = NoRpc
  /\ UNCHANGED <<chain, wallet, node>>
  /\ web3' \in Web3Rec /\ tx' \in TxRec /\ sent' \in RawSet /\ Onward
  /\ tx'.is_sync = tx.is_sync /\ tx'.is_private = tx.is_private
  /\ chain # "CITA" => tx'.tx_hash \in {NoHash, sent'}
  /\ tx'.tx_hash # NoHash => tx'.tx_hash \in node.accepted
  /\ sent' # NoRaw => Recovered(chain, sent')

LEMMA PerfectStays == ASSUME Onward PROVE Perfect' => Perfect
BY DEF Onward, Perfect

LEMMA NodeSame ==
  ASSUME TypeInv, NodeInv, UNCHANGED <<chain, node>>, Onward
  PROVE  NodeInv'
<1>1. faults.left \in Nat /\ faults'.left \in Nat /\ faults'.left <= faults.left
  BY DEF Onward, TypeInv, FaultRec
<1>2. Cardinality(node.late) \in Nat
  BY FS_CardinalityType DEF NodeInv
<1>3. Cardinality(node'.late) + faults'.left <= MaxFaults
  BY <1>1, <1>2, BoundAssumption DEF NodeInv
<1>4. (\A raw \in node.accepted \cup node.late : GoodRaw(raw))'
  BY DEF NodeInv, GoodRaw
<1>5. Mined' = Mined
  BY DEF Mined
<1>. QED
  BY <1>3, <1>4, <1>5 DEF NodeInv, Nonce

LEMMA HeadIsFirst ==
  ASSUME TypeInv, todo # <<>>
  PROVE  /\ Len(todo) \in Nat /\ Len(todo) >= 1
         /\ Head(todo) = todo[1] /\ Head(todo) \in StepSet
BY DEF TypeInv

LEMMA TailFacts ==
  ASSUME NEW S, NEW s \in Seq(S), Len(s) >= 2
  PROVE  /\ Tail(s) \in Seq(S) /\ Len(Tail(s)) = Len(s) - 1 /\ Tail(s) # <<>>
         /\ \A i \in 1..Len(Tail(s)) : Tail(s)[i] = s[i + 1]
         /\ Head(Tail(s)) = s[2]
<1>1. Tail(s) \in Seq(S) /\ Len(Tail(s)) = Len(s) - 1
  OBVIOUS
<1>2. \A i \in 1..Len(Tail(s)) : Tail(s)[i] = s[i + 1]
  BY <1>1
<1>3. Tail(s) # <<>> /\ Head(Tail(s)) = Tail(s)[1]
  <2>. DEFINE t == Tail(s)
  <2>1. t \in Seq(S) /\ Len(t) >= 1
    BY <1>1
  <2>. HIDE DEF t
  <2>2. t # <<>> /\ Head(t) = t[1]
    BY <2>1
  <2>. QED
    BY <2>2 DEF t
<1>4. 1 \in 1..Len(Tail(s)) /\ 1 + 1 = 2
  BY <1>1
<1>. QED
  BY <1>1, <1>2, <1>3, <1>4

\* A call that returns: the codes it may return with are those that say the
\* truth about its transaction.
LEMMA ReturnKeeps ==
  ASSUME Inv, todo # <<>>, Ends, NEW code, Return(code),
         call \in Sending /\ code = "SUCCESS" =>
           /\ Perfect' => Acked
           /\ tx.is_sync /\ Perfect' => tx'.tx_hash = sent' /\ sent' \in Mined,
         call = "Receipt" /\ code = "SUCCESS" => tx'.tx_hash \in Mined,
         code = "TX_PENDING" => tx'.tx_hash \in node.accepted
  PROVE  Inv'
<1>0. /\ TypeInv /\ CallInv /\ NodeInv /\ AckInv
      /\ call' = "none" /\ todo' = <<>> /\ Mined' = Mined
  BY DEF Inv, Return, Ends, Mined
<1>1. TypeInv'
  <2>1. wait' \in 1..WAIT_PENDING_TX_TIMEOUT
    BY WaitAssumption DEF Return
  <2>2. acks' \in Nat
    BY <1>0 DEF Return, TypeInv
  <2>3. todo' \in Seq(StepSet)
    BY <1>0
  <2>4. faults' \in FaultRec
    BY DEF Ends, Onward
  <2>. QED
    BY <1>0, <2>1, <2>2, <2>3, <2>4 DEF TypeInv, Ends
<1>2. CallInv'
  BY <1>0 DEF CallInv, Sending
<1>3. RpcInv' /\ FillInv'
  BY <1>0 DEF RpcInv, FillInv, Ends, At
<1>4. NodeInv'
  BY <1>0, NodeSame DEF Ends
<1>5. HashInv'
  BY <1>0 DEF HashInv, Ends, Sending
<1>6. RetInv'
  <2>1. CASE call \in Sending \cup {"Receipt"}
    <3>1. ret' = [op |-> call, code |-> code]
      BY <2>1 DEF Return, Sending
    <3>2. ret'.op = call /\ ret'.code = code
      BY <3>1
    <3>. QED
      BY <1>0, <3>2 DEF RetInv, Ends, Sending
  <2>2. CASE call \notin Sending \cup {"Receipt"}
    <3>1. ret' = NoRet
      BY <2>2 DEF Return, Sending
    <3>. QED
      BY <3>1 DEF RetInv, NoRet, Sending
  <2>. QED
    BY <2>1, <2>2
<1>7. AckInv'
  <2>1. SUFFICES ASSUME Perfect' PROVE acks' <= Cardinality(node.accepted)
    <3>1. ~Acked' /\ Cardinality(node.accepted)' = Cardinality(node.accepted) /\ acks' \in Nat
      BY <1>0, <1>1 DEF Acked, Sending, Ends, TypeInv
    <3>. QED
      BY <2>1, <3>1 DEF AckInv
  <2>2. Perfect
    BY <2>1, PerfectStays DEF Ends
  <2>3. Cardinality(node.accepted) \in Nat /\ acks \in Nat
    BY <1>0, FS_CardinalityType DEF NodeInv, TypeInv
  <2>4. CASE call \in Sending /\ code = "SUCCESS"
    <3>1. Acked /\ acks' = acks + 1
      BY <2>1, <2>4 DEF Return, Sending
    <3>. QED
      BY <1>0, <2>2, <2>3, <3>1 DEF AckInv
  <2>5. CASE ~(call \in Sending /\ code = "SUCCESS")
    <3>1. acks' = acks
      BY <2>5 DEF Return, Sending
    <3>. QED
      BY <1>0, <2>2, <2>3, <3>1 DEF AckInv
  <2>. QED
    BY <2>4, <2>5
<1>. QED
  BY <1>1, <1>2, <1>3, <1>4, <1>5, <1>6, <1>7 DEF Inv

\* A list of more than one step.
LEMMA TwoSteps ==
  \A n \in Nat : n >= 1 /\ n # 1 => n >= 2 /\ 2 \in 1..n /\ 1 \in 1..(n - 1) /\ 1 + 1 = 2
OBVIOUS

\* A step that is done, with others to follow or as the last one: a send has
\* been accepted and its hash is at hand, a payload has been filled.
LEMMA AdvanceKeeps ==
  ASSUME Inv, NEW op, At(op), op # "receipt", Ends, Advance,
         op = "send" /\ Perfect' => Acked /\ tx'.tx_hash = sent',
         op = "fill" => web3'.result = Handle(tx'.f["data"])
  PROVE  Inv'
<1>0. TypeInv /\ CallInv /\ NodeInv /\ AckInv /\ todo # <<>> /\ todo[1].op = op
  BY HeadIsFirst DEF Inv, At
<1>1. Len(todo) \in Nat /\ Len(todo) >= 1
  BY <1>0, HeadIsFirst
<1>2. call # "Receipt"
  BY <1>0, <1>1 DEF CallInv
<1>3. CASE Len(todo) = 1
  <2>1. Return("SUCCESS")
    BY <1>3 DEF Advance
  <2>2. call \in Sending => ~tx.is_sync /\ op = "send"
    BY <1>0, <1>3 DEF CallInv, SendList
  <2>3. "SUCCESS" # "TX_PENDING"
    OBVIOUS
  <2>. QED
    BY <1>0, <1>2, <2>1, <2>2, <2>3, ReturnKeeps
<1>4. CASE Len(todo) # 1
  <2>1. todo' = Tail(todo) /\ UNCHANGED <<call, ret, wait, acks>>
    BY <1>4 DEF Advance
  <2>2. /\ todo' \in Seq(StepSet) /\ Len(todo') = Len(todo) - 1 /\ todo' # <<>>
        /\ \A i \in 1..Len(todo') : todo'[i] = todo[i + 1]
        /\ Head(todo') = todo[2]
    <3>1. todo \in Seq(StepSet)
      BY <1>0 DEF TypeInv
    <3>2. Len(todo) >= 2
      BY <1>1, <1>4, TwoSteps, Zenon
    <3>. QED
      BY <2>1, <3>1, <3>2, TailFacts, Zenon
  <2>3. TypeInv'
    BY <1>0, <2>1, <2>2 DEF TypeInv, Ends, Onward
  <2>4. CallInv'
    <3>1. CASE call \in Sending
      <4>1. SendList(todo, tx.is_sync, Private)
        BY <3>1, <1>0 DEF CallInv
      <4>2. Private' = Private /\ tx'.is_sync = tx.is_sync
        BY DEF Private, Ends
      <4>3. \A i \in 1..Len(todo') :
              /\ todo'[i].op = "send" <=> i = IF tx.is_sync THEN Len(todo') - 1 ELSE Len(todo')
              /\ todo'[i].op = "receipt" <=> tx.is_sync /\ i = Len(todo')
        BY <4>1, <2>2, <1>1 DEF SendList
      <4>4. Private => \A i \in 1..(Len(todo') - 1) : todo'[i + 1].op = "send" => todo'[i].op = "fill"
        BY <4>1, <2>2, <1>1 DEF SendList
      <4>5. SendList(todo', tx'.is_sync, Private')
        BY <4>2, <4>3, <4>4, <2>2 DEF SendList
      <4>. QED
        BY <4>5, <3>1, <2>1, <2>2, <1>0, <1>2 DEF CallInv, Sending
    <3>2. CASE call \notin Sending
      BY <3>2, <2>1, <2>2, <1>0, <1>1, <1>2 DEF CallInv
    <3>. QED
      BY <3>1, <3>2
  <2>5. RpcInv'
    BY DEF RpcInv, Ends
  <2>6. call \in Sending /\ todo[2].op = "receipt" => op = "send"
    BY <1>0, <1>1, <1>4 DEF CallInv, SendList
  <2>7. FillInv'
    <3>1. SUFFICES ASSUME Private', todo[2].op = "send" PROVE op = "fill"
      BY <2>2, <3>1 DEF FillInv, At
    <3>2. Private
      BY <3>1 DEF Private, Ends
    <3>3. 2 \in 1..Len(todo) /\ 1 \in 1..(Len(todo) - 1) /\ 1 + 1 = 2
      BY <1>1, <1>4, TwoSteps, Zenon
    <3>4. SendList(todo, tx.is_sync, Private)
      BY <3>1, <3>3, <1>0 DEF CallInv
    <3>. QED
      BY <3>1, <3>2, <3>3, <3>4, <1>0 DEF SendList
  <2>8. NodeInv'
    BY <1>0, NodeSame DEF Ends
  <2>9. HashInv'
    BY <2>1, <2>2, <2>6 DEF HashInv, Ends, At
  <2>10. RetInv'
    <3>1. ret' = NoRet
      BY <1>0, <2>1 DEF CallInv
    <3>. QED
      BY <3>1 DEF RetInv, NoRet, Sending
  <2>11. AckInv'
    <3>1. rpc'.st # "answered"
      BY DEF Ends, NoRpc
    <3>2. Acked' => call \in Sending /\ todo[2].op = "receipt"
      BY <3>1, <2>1, <2>2 DEF Acked, At
    <3>3. Perfect' => Perfect /\ (Acked' => Acked)
      BY <3>2, <2>6, PerfectStays DEF Ends
    <3>4. Cardinality(node.accepted) \in Nat /\ acks \in Nat /\ node' = node
      BY <1>0, FS_CardinalityType DEF NodeInv, TypeInv, Ends
    <3>. QED
      BY <3>3, <3>4, <2>1, <1>0 DEF AckInv
  <2>. QED
    BY <2>3, <2>4, <2>5, <2>7, <2>8, <2>9, <2>10, <2>11 DEF Inv
<1>. QED
  BY <1>3, <1>4

----------------------------------------------------------------------------
(* The steps of a call.                                                    *)

\* What a step that leaves the transaction's hash alone does not have to show.
LEMMA HashKept ==
  ASSUME Inv, UNCHANGED <<chain, node, sent>>, tx'.tx_hash = tx.tx_hash
  PROVE  /\ chain # "CITA" => tx'.tx_hash \in {NoHash, sent'}
         /\ tx'.tx_hash # NoHash => tx'.tx_hash \in node.accepted
         /\ sent' # NoRaw => Recovered(chain, sent')
BY DEF Inv, HashInv

LEMMA FieldsSet ==
  ASSUME tx \in TxRec, NEW f \in Fields, tx' = [tx EXCEPT !.f = f]
  PROVE  /\ tx' \in TxRec /\ tx'.f = f
         /\ tx'.is_sync = tx.is_sync /\ tx'.is_private = tx.is_private /\ tx'.tx_hash = tx.tx_hash
BY DEF TxRec

LEMMA FieldSet ==
  ASSUME tx \in TxRec, NEW n \in FieldNames, NEW x \in Nat, tx' = [tx EXCEPT !.f[n] = x]
  PROVE  /\ tx' \in TxRec
         /\ tx'.is_sync = tx.is_sync /\ tx'.is_private = tx.is_private /\ tx'.tx_hash = tx.tx_hash
<1>1. [tx.f EXCEPT ![n] = x] \in Fields
  BY DEF TxRec, Fields
<1>. QED
  BY <1>1 DEF TxRec

LEMMA SetKeeps == ASSUME Inv, Do_Set PROVE Inv'
<1>1. TypeInv /\ RpcInv /\ todo # <<>> /\ Head(todo).op = "set"
  BY DEF Inv, Do_Set, At
<1>2. rpc = NoRpc
  BY <1>1 DEF RpcInv
<1>3. Head(todo).g \in GroupSet
  BY <1>1, HeadIsFirst, StepFacts
<1>4. tx \in TxRec /\ tx.f \in Fields
  BY <1>1 DEF TypeInv, TxRec
<1>5. tx' = [tx EXCEPT !.f = With(tx.f, Head(todo).g)] /\ With(tx.f, Head(todo).g) \in Fields
  BY <1>3, <1>4, WithType DEF Do_Set
<1>6. /\ tx' \in TxRec
      /\ tx'.is_sync = tx.is_sync /\ tx'.is_private = tx.is_private /\ tx'.tx_hash = tx.tx_hash
  BY <1>4, <1>5, FieldsSet
<1>7. Onward
  BY <1>1, FaultOnward DEF Do_Set
<1>8. Ends
  BY <1>1, <1>2, <1>6, <1>7, HashKept DEF Ends, Do_Set, TypeInv
<1>. QED
  BY <1>8, AdvanceKeeps DEF Do_Set

\* A request is put together and sent, or there is no memory for it.
LEMMA PostEffect ==
  ASSUME TypeInv, NEW req, Post(req)
  PROVE  /\ web3' \in Web3Rec /\ web3'.result = web3.result /\ Onward
         /\ UNCHANGED <<call, todo, ret, wait, acks>>
         /\ \/ rpc' = [st |-> "sent", req |-> req]
            \/ rpc' = [st |-> "answered", ans |-> AnsNone("OUT_OF_MEMORY")]
<1>1. web3 \in Web3Rec /\ Steps(req) \in 1..2
  BY DEF TypeInv, Steps
<1>2. BoatFieldVariable_malloc_size_expand(web3.json, Steps(req)) \in 0..2
  BY <1>1 DEF BoatFieldVariable_malloc_size_expand, Web3Rec
<1>3. Onward
  BY FaultOnward DEF Post
<1>. QED
  BY <1>1, <1>2, <1>3 DEF Post, Web3Rec

\* The request of the step the call is at goes out: nothing else has changed.
LEMMA PostKeeps ==
  ASSUME Inv, NEW op \in PlainOps \cup {"query"}, At(op), rpc = NoRpc, NEW req, Post(req),
         UNCHANGED <<chain, wallet, node>>,
         tx' \in TxRec, sent' \in RawSet,
         tx'.is_sync = tx.is_sync, tx'.is_private = tx.is_private,
         ReqOK(op, req)',
         tx'.tx_hash \in {NoHash, tx.tx_hash},
         op # "send" => UNCHANGED <<tx, sent>>,
         op = "send" /\ chain # "CITA" => tx'.tx_hash = NoHash,
         sent' # NoRaw => Recovered(chain, sent')
  PROVE  Inv'
<1>0. /\ TypeInv /\ CallInv /\ NodeInv /\ HashInv /\ AckInv
      /\ todo # <<>> /\ Head(todo).op = op /\ op # "set"
  BY DEF Inv, At, PlainOps
<1>1. /\ web3' \in Web3Rec /\ Onward /\ UNCHANGED <<call, todo, ret, wait, acks>>
      /\ \/ rpc' = [st |-> "sent", req |-> req]
         \/ rpc' = [st |-> "answered", ans |-> AnsNone("OUT_OF_MEMORY")]
  BY <1>0, PostEffect
<1>2. TypeInv'
  BY <1>0, <1>1 DEF TypeInv, Onward
<1>3. CallInv'
  BY <1>0, <1>1 DEF CallInv, Private
<1>4. RpcInv'
  <2>1. todo' # <<>> /\ Head(todo').op = op
    BY <1>0, <1>1
  <2>2. CASE rpc' = [st |-> "sent", req |-> req]
    <3>1. rpc'.st = "sent" /\ rpc'.req = req
      BY <2>2
    <3>. QED
      BY <1>0, <2>1, <3>1 DEF RpcInv
  <2>3. CASE rpc' = [st |-> "answered", ans |-> AnsNone("OUT_OF_MEMORY")]
    <3>1. rpc'.st = "answered" /\ rpc'.ans.kind = "none" /\ rpc'.ans.code = "OUT_OF_MEMORY"
      BY <2>3 DEF AnsNone
    <3>. QED
      BY <1>0, <2>1, <3>1 DEF RpcInv, AnsOK
  <2>. QED
    BY <1>1, <2>2, <2>3
<1>5. rpc'.st \in {"sent", "answered"} /\ rpc' # NoRpc
  BY <1>1 DEF NoRpc
<1>6. FillInv'
  BY <1>5 DEF FillInv
<1>7. NodeInv'
  BY <1>0, <1>1, NodeSame
<1>8. HashInv'
  BY <1>0, <1>1, PerfectStays DEF HashInv, At
<1>9. RetInv'
  <2>1. ret' = NoRet
    BY <1>0, <1>1 DEF CallInv
  <2>. QED
    BY <2>1 DEF RetInv, NoRet, Sending
<1>10. AckInv'
  <2>1. rpc'.st = "answered" => rpc'.ans.kind = "none"
    BY <1>1 DEF AnsNone
  <2>2. Acked' => Acked
    BY <2>1, <1>1 DEF Acked, At
  <2>3. Perfect' => Perfect
    BY <1>1, PerfectStays
  <2>4. Cardinality(node.accepted) \in Nat /\ acks \in Nat
    BY <1>0, FS_CardinalityType DEF NodeInv, TypeInv
  <2>. QED
    BY <2>2, <2>3, <2>4, <1>0, <1>1 DEF AckInv
<1>. QED
  BY <1>2, <1>3, <1>4, <1>6, <1>7, <1>8, <1>9, <1>10 DEF Inv

\* A step that asks the node something and changes nothing else.
LEMMA RequestKeeps ==
  ASSUME Inv, NEW op \in PlainOps \cup {"query"}, op # "send", NEW req, Request(op, req), ReqOK(op, req)
  PROVE  Inv'
<1>1. /\ At(op) /\ rpc = NoRpc /\ Post(req)
      /\ UNCHANGED <<chain, wallet, node>> /\ UNCHANGED <<tx, sent>>
  BY DEF Request
<1>2. tx' \in TxRec /\ sent' \in RawSet /\ tx'.tx_hash \in {NoHash, tx.tx_hash}
  BY <1>1 DEF Inv, TypeInv
<1>3. sent' # NoRaw => Recovered(chain, sent')
  BY <1>1 DEF Inv, HashInv
<1>4. ReqOK(op, req)'
  BY <1>1 DEF ReqOK, GoodRaw
<1>. QED
  BY <1>1, <1>2, <1>3, <1>4, PostKeeps

LEMMA RequestsKeep ==
  ASSUME Inv, \/ Request_Nonce \/ Request_GasPrice \/ Request_Block \/ Request_Receipt
              \/ Request_Query \/ QuorumSendFilltx
  PROVE  Inv'
<1>0. TypeInv
  BY DEF Inv
<1>1. CASE Request_Nonce
  BY <1>1, RequestKeeps DEF Request_Nonce, ReqOK, PlainOps
<1>2. CASE Request_GasPrice
  BY <1>2, RequestKeeps DEF Request_GasPrice, ReqOK, PlainOps
<1>3. CASE Request_Block
  <2>1. Request("block", web3_cita_getBlockNumber)
    BY <1>3 DEF Request_Block, web3_cita_getBlockNumber, web3_fiscobcos_getBlockNumber
  <2>. QED
    BY <2>1, RequestKeeps DEF ReqOK, PlainOps
<1>4. CASE Request_Receipt
  <2>1. ReceiptRequest = web3_getTransactionReceiptStatus(tx.tx_hash)
    BY DEF ReceiptRequest, web3_getTransactionReceiptStatus,
           web3_fiscobcos_getTransactionReceiptStatus, web3_cita_getTransactionReceiptStatus
  <2>2. Request("receipt", web3_getTransactionReceiptStatus(tx.tx_hash))
    BY <1>4, <2>1 DEF Request_Receipt
  <2>. QED
    BY <2>2, RequestKeeps DEF ReqOK, PlainOps
<1>5. CASE Request_Query
  <2>1. At("query") /\ Request("query", Head(todo).req)
    BY <1>5 DEF Request_Query
  <2>2. Head(todo).req \in QuerySet
    BY <2>1, <1>0, HeadIsFirst, StepFacts DEF At
  <2>. QED
    BY <2>1, <2>2, RequestKeeps DEF ReqOK
<1>6. CASE QuorumSendFilltx
  BY <1>6, RequestKeeps DEF QuorumSendFilltx, ReqOK, PlainOps
<1>. QED
  BY <1>1, <1>2, <1>3, <1>4, <1>5, <1>6

\* A transaction is put together, signed and sent: the hash of the one before
\* is gone, except for CITA.
LEMMA SendKeeps ==
  ASSUME Inv, NEW f, NEW g, NEW raw, NEW hash, SendOf(f, g, raw, hash)
  PROVE  Inv'
<1>0. TypeInv /\ HashInv /\ tx \in TxRec /\ tx.tx_hash \in {NoHash} \cup RawSet
  BY DEF Inv, TypeInv, TxRec
<1>1. /\ At("send") /\ rpc = NoRpc /\ todo # <<>>
      /\ tx' = [tx EXCEPT !.f = f, !.tx_hash = hash]
      /\ sent' = raw
      /\ UNCHANGED <<chain, wallet, node>>
  BY DEF SendOf, SendRawtx, At
<1>2. f \in Fields /\ hash \in {NoHash, tx.tx_hash} /\ GoodRaw(raw)
  BY DEF SendOf
<1>3. /\ tx' \in TxRec /\ tx'.is_sync = tx.is_sync /\ tx'.is_private = tx.is_private
      /\ tx'.tx_hash = hash
  BY <1>0, <1>1, <1>2 DEF TxRec
<1>4. sent' \in RawSet /\ Recovered(chain, sent') /\ GoodRaw(sent)'
  BY <1>1, <1>2 DEF GoodRaw
<1>5. tx'.tx_hash # NoHash => tx'.tx_hash \in node.accepted
  BY <1>0, <1>2, <1>3 DEF HashInv
<1>6. chain # "CITA" => tx'.tx_hash = NoHash
  BY <1>3 DEF SendOf
<1>7. CASE Post(web3_sendRawTransaction(raw))
  <2>1. ReqOK("send", web3_sendRawTransaction(raw))'
    BY <1>1, <1>4 DEF ReqOK, web3_sendRawTransaction
  <2>. QED
    BY <2>1, <1>1, <1>2, <1>3, <1>4, <1>6, <1>7, PostKeeps DEF PlainOps
<1>8. ASSUME NEW code \in {"OUT_OF_MEMORY", "GEN_SIGN_FAIL"}, NEW kind, Fault(kind),
             Return(code), UNCHANGED <<web3, rpc>>
      PROVE  Inv'
  <2>1. Onward
    BY <1>0, <1>8, FaultOnward
  <2>2. web3' \in Web3Rec /\ rpc' = NoRpc
    BY <1>0, <1>1, <1>8 DEF TypeInv
  <2>3. Ends
    BY <2>1, <2>2, <1>1, <1>3, <1>4, <1>5, <1>6 DEF Ends
  <2>4. code # "SUCCESS" /\ code # "TX_PENDING"
    OBVIOUS
  <2>. QED
    BY <2>3, <2>4, <1>1, <1>8, ReturnKeeps
<1>. QED
  BY <1>7, <1>8 DEF SendOf, SendRawtx

LEMMA NoPackBufferKeeps == ASSUME Inv, CitaSendRawtx_NoPackBuffer PROVE Inv'
<1>0. TypeInv /\ chain = "CITA" /\ At("send") /\ rpc = NoRpc /\ Advance
      /\ UNCHANGED <<chain, wallet, web3, tx, rpc, node>>
  BY DEF Inv, CitaSendRawtx_NoPackBuffer
<1>1. Onward /\ "packbuf" \in faults'.seen
  BY <1>0, FaultOnward DEF CitaSendRawtx_NoPackBuffer
<1>2. GoodRaw(sent')
  BY <1>0, CitaRaw DEF CitaSendRawtx_NoPackBuffer
<1>3. tx'.tx_hash # NoHash => tx'.tx_hash \in node.accepted
  BY <1>0 DEF Inv, HashInv
<1>4. Ends
  BY <1>0, <1>1, <1>2, <1>3 DEF Ends, GoodRaw, TypeInv
<1>5. ~Perfect'
  BY <1>1 DEF Perfect
<1>. QED
  BY <1>0, <1>4, <1>5, AdvanceKeeps

----------------------------------------------------------------------------
(* Taking an answer.                                                       *)

LEMMA AnswerFrame ==
  ASSUME Inv, NEW op, Answer(op)
  PROVE  /\ TypeInv /\ RpcInv /\ At(op) /\ todo # <<>>
         /\ rpc' = NoRpc /\ Onward
         /\ UNCHANGED <<chain, wallet, node, sent>> /\ sent' \in RawSet
         /\ web3 \in Web3Rec /\ tx \in TxRec
<1>1. TypeInv
  BY DEF Inv
<1>2. Onward
  BY <1>1, FaultOnward DEF Answer
<1>. QED
  BY <1>1, <1>2 DEF Inv, Answer, At, TypeInv

LEMMA ResultType ==
  ASSUME web3 \in Web3Rec, NEW x \in Nat, Result(x)
  PROVE  web3' \in Web3Rec /\ web3'.result = x
BY DEF Result, Web3Rec

\* An answer that ends the call with an error code.
LEMMA FailKeeps ==
  ASSUME Inv, NEW op, Answer(op), NEW code, Fails(code), code # "SUCCESS", code # "TX_PENDING"
  PROVE  Inv'
<1>1. Ends
  BY AnswerFrame, HashKept DEF Ends, Fails
<1>. QED
  BY <1>1, AnswerFrame, ReturnKeeps DEF Fails

LEMMA FieldKeeps ==
  ASSUME Inv, NEW op \in {"nonce", "gasprice", "block"}, NEW f \in FieldNames, NEW offset \in Nat, NEW code,
         AnswerField(op, f, offset, code), NoAnswer => code # "SUCCESS" /\ code # "TX_PENDING"
  PROVE  Inv'
<1>. DEFINE p == Parse("", "")
<1>0. Answer(op)
  BY DEF AnswerField
<1>1. AnsOK(op, rpc.ans) /\ ParseOK(rpc.ans, p)
  BY <1>0, AnswerFacts DEF Inv
<1>. HIDE DEF p
<1>2. CASE p.code = "SUCCESS"
  <2>1. p.val \in Nat
    BY <1>1, <1>2 DEF ParseOK, AnsOK
  <2>2. tx' = [tx EXCEPT !.f[f] = p.val + offset] /\ Result(0) /\ Advance
    BY <1>2 DEF AnswerField, p
  <2>3. p.val + offset \in Nat
    BY <2>1
  <2>4. /\ tx' \in TxRec
        /\ tx'.is_sync = tx.is_sync /\ tx'.is_private = tx.is_private /\ tx'.tx_hash = tx.tx_hash
    BY <2>2, <2>3, <1>0, AnswerFrame, FieldSet
  <2>5. web3' \in Web3Rec
    BY <2>2, <1>0, AnswerFrame, ResultType
  <2>6. Ends
    BY <2>4, <2>5, <1>0, AnswerFrame, HashKept DEF Ends
  <2>. QED
    BY <2>2, <2>6, <1>0, AnswerFrame, AdvanceKeeps
<1>3. CASE p.code # "SUCCESS"
  <2>1. Fails(IF NoAnswer THEN code ELSE p.code)
    BY <1>3 DEF AnswerField, p
  <2>2. p.code # "TX_PENDING"
    BY <1>1 DEF ParseOK, Codes
  <2>. QED
    BY <2>1, <2>2, <1>0, <1>3, FailKeeps
<1>. QED
  BY <1>2, <1>3

LEMMA FillKeeps == ASSUME Inv, Answer_Fill PROVE Inv'
<1>. DEFINE p == Parse("tx", "input")
<1>0. Answer("fill") /\ tx.f["data"] \in Nat
  BY TypeFacts DEF Answer_Fill, Inv, Fields, FieldNames
<1>1. /\ AnsOK("fill", rpc.ans) /\ ParseOK(rpc.ans, p)
      /\ NoAnswer => rpc.ans.code \in {"RPC_FAIL", "OUT_OF_MEMORY"}
  BY <1>0, AnswerFacts DEF Inv
<1>. HIDE DEF p
<1>2. CASE p.code = "SUCCESS"
  <2>1. p.val = Handle(tx.f["data"]) /\ p.val \in Nat
    BY <1>0, <1>1, <1>2, HandleType DEF ParseOK, AnsOK
  <2>2. Result(p.val) /\ Advance /\ UNCHANGED tx
    BY <1>2 DEF Answer_Fill, p
  <2>3. web3' \in Web3Rec /\ web3'.result = p.val
    BY <2>1, <2>2, <1>0, AnswerFrame, ResultType
  <2>4. Ends
    BY <2>2, <2>3, <1>0, AnswerFrame, HashKept DEF Ends
  <2>. QED
    BY <2>1, <2>2, <2>3, <2>4, <1>0, AnswerFrame, AdvanceKeeps
<1>3. CASE p.code # "SUCCESS"
  <2>1. Fails(IF NoAnswer THEN rpc.ans.code ELSE p.code)
    BY <1>3 DEF Answer_Fill, p
  <2>2. p.code # "TX_PENDING"
    BY <1>1 DEF ParseOK, Codes
  <2>. QED
    BY <2>1, <2>2, <1>0, <1>1, <1>3, FailKeeps
<1>. QED
  BY <1>2, <1>3

\* The hash a send takes over is that of the transaction it sent, which the
\* node has accepted.
LEMMA SentKeeps == ASSUME Inv, Answer_Send PROVE Inv'
<1>. DEFINE p == Parse(IF chain = "CITA" THEN "hash" ELSE "", "")
<1>0. Answer("send") /\ todo # <<>> /\ At("send") /\ TypeInv /\ CallInv
  BY DEF Answer_Send, Answer, At, Inv
<1>1. /\ AnsOK("send", rpc.ans) /\ ParseOK(rpc.ans, p)
      /\ NoAnswer => rpc.ans.code \in {"RPC_FAIL", "OUT_OF_MEMORY"}
  BY <1>0, AnswerFacts DEF Inv
<1>. HIDE DEF p
<1>2. CASE p.code = "SUCCESS"
  <2>1. p.val = sent /\ sent \in node.accepted /\ rpc.ans.kind \in {"string", "object"}
    BY <1>1, <1>2 DEF ParseOK, AnsOK
  <2>2. tx' = [tx EXCEPT !.tx_hash = p.val] /\ Result(0) /\ Advance
    BY <1>2 DEF Answer_Send, p
  <2>3. sent \in RawSet /\ tx \in TxRec
    BY <1>0 DEF TypeInv
  <2>4. /\ tx' \in TxRec /\ tx'.tx_hash = sent
        /\ tx'.is_sync = tx.is_sync /\ tx'.is_private = tx.is_private
    BY <2>1, <2>2, <2>3 DEF TxRec
  <2>5. web3' \in Web3Rec
    BY <2>2, <1>0, AnswerFrame, ResultType
  <2>6. sent' = sent /\ (sent' # NoRaw => Recovered(chain, sent'))
    BY <1>0 DEF Answer, Inv, HashInv
  <2>7. Ends
    BY <2>1, <2>4, <2>5, <2>6, <1>0, AnswerFrame DEF Ends
  <2>8. call \in Sending
    <3>1. 1 \in 1..Len(todo) /\ todo[1].op = "send"
      BY <1>0, HeadIsFirst DEF At
    <3>. QED
      BY <3>1, <1>0 DEF CallInv
  <2>9. Acked
    BY <2>1, <2>8, <1>0 DEF Acked, Answer
  <2>. QED
    BY <2>2, <2>4, <2>6, <2>7, <2>9, <1>0, AdvanceKeeps
<1>3. CASE p.code # "SUCCESS"
  <2>1. Fails(IF NoAnswer THEN rpc.ans.code ELSE p.code)
    BY <1>3 DEF Answer_Send, p
  <2>2. p.code # "TX_PENDING"
    BY <1>1 DEF ParseOK, Codes
  <2>. QED
    BY <2>1, <2>2, <1>0, <1>1, <1>3, FailKeeps
<1>. QED
  BY <1>2, <1>3

\* One round of the receipt loop: success is said of a transaction in the
\* ledger, and pending of one the node has accepted.
LEMMA ReceiptKeeps == ASSUME Inv, Answer_Receipt PROVE Inv'
<1>. DEFINE p == Parse(IF chain = "CITA" THEN "errorMessage" ELSE "status", "")
            r == ReceiptResult(p)
<1>0. /\ Answer("receipt") /\ todo # <<>> /\ At("receipt") /\ UNCHANGED tx
      /\ TypeInv /\ CallInv /\ HashInv /\ RpcInv /\ AckInv
  BY DEF Answer_Receipt, Answer, At, Inv
<1>1. /\ AnsOK("receipt", rpc.ans) /\ ParseOK(rpc.ans, p)
      /\ NoAnswer => rpc.ans.code \in {"RPC_FAIL", "OUT_OF_MEMORY"}
  BY <1>0, AnswerFacts
<1>2. /\ r # "TX_PENDING"
      /\ r = "SUCCESS" => tx.tx_hash \in Mined
      /\ r = "pending" => tx.tx_hash # NoHash
  <2>. HIDE DEF p
  <2>1. r = "SUCCESS" => p.code = "SUCCESS" /\ ~NoAnswer
    BY <1>1 DEF ReceiptResult
  <2>2. r = "pending" => p.code = "JSON_OBJ_IS_NULL"
    BY <1>1 DEF ReceiptResult
  <2>3. r # "TX_PENDING"
    BY <1>1 DEF ReceiptResult
  <2>. HIDE DEF r
  <2>4. r = "SUCCESS" => tx.tx_hash \in Mined
    BY <2>1, <1>1 DEF ParseOK, AnsOK
  <2>5. r = "pending" => tx.tx_hash # NoHash
    BY <2>2, <1>1 DEF ParseOK, AnsOK
  <2>. QED
    BY <2>3, <2>4, <2>5
<1>3. \/ r # "pending" /\ Return(r) /\ (IF r = "SUCCESS" THEN Result(0) ELSE UNCHANGED web3)
      \/ r = "pending" /\ wait <= MINE_INTERVAL /\ Return("TX_PENDING") /\ UNCHANGED web3
      \/ /\ r = "pending" /\ wait > MINE_INTERVAL
         /\ wait' = wait - MINE_INTERVAL
         /\ UNCHANGED <<call, todo, ret, acks, web3>>
  BY DEF Answer_Receipt
<1>. HIDE DEF p, r
<1>4. ASSUME web3' \in Web3Rec PROVE Ends
  BY <1>0, <1>4, AnswerFrame, HashKept DEF Ends
<1>5. call \in Sending => Acked
  BY <1>0 DEF Acked
<1>6. call \in Sending /\ Perfect' => tx'.tx_hash = sent'
  <2>1. Perfect' => Perfect
    BY <1>0, AnswerFrame, PerfectStays
  <2>. QED
    BY <2>1, <1>0, AnswerFrame DEF HashInv
<1>7. CASE r # "pending" /\ Return(r) /\ (IF r = "SUCCESS" THEN Result(0) ELSE UNCHANGED web3)
  <2>1. web3' \in Web3Rec
    BY <1>0, <1>7, AnswerFrame, ResultType
  <2>2. Ends
    BY <2>1, <1>4
  <2>. QED
    BY <2>2, <1>0, <1>2, <1>5, <1>6, <1>7, ReturnKeeps
<1>8. CASE r = "pending" /\ wait <= MINE_INTERVAL /\ Return("TX_PENDING") /\ UNCHANGED web3
  <2>1. Ends
    BY <1>0, <1>4, <1>8 DEF TypeInv
  <2>2. tx'.tx_hash \in node.accepted
    BY <1>0, <1>2, <1>8 DEF HashInv
  <2>3. "TX_PENDING" # "SUCCESS"
    OBVIOUS
  <2>. QED
    BY <2>1, <2>2, <2>3, <1>0, <1>8, ReturnKeeps
<1>9. CASE /\ r = "pending" /\ wait > MINE_INTERVAL
           /\ wait' = wait - MINE_INTERVAL
           /\ UNCHANGED <<call, todo, ret, acks, web3>>
  <2>0. /\ rpc' = NoRpc /\ Onward
        /\ UNCHANGED <<chain, wallet, node, sent>>
    BY <1>0, AnswerFrame
  <2>1. wait' \in 1..WAIT_PENDING_TX_TIMEOUT
    BY <1>0, <1>9, WaitAssumption DEF TypeInv
  <2>2. TypeInv'
    BY <2>0, <2>1, <1>0, <1>9 DEF TypeInv, Onward
  <2>3. CallInv'
    BY <2>0, <1>0, <1>9 DEF CallInv, Private
  <2>4. RpcInv' /\ FillInv'
    BY <2>0, <1>0, <1>9 DEF RpcInv, FillInv, At
  <2>5. NodeInv'
    BY <2>0, <1>0, NodeSame DEF Inv
  <2>6. HashInv'
    BY <2>0, <1>0, <1>9, PerfectStays DEF HashInv, At
  <2>7. RetInv'
    <3>1. ret' = NoRet
      BY <1>0, <1>9 DEF CallInv
    <3>. QED
      BY <3>1 DEF RetInv, NoRet, Sending
  <2>8. AckInv'
    <3>1. Acked' => Acked
      BY <2>0, <1>0, <1>9 DEF Acked, At, NoRpc
    <3>2. Perfect' => Perfect
      BY <2>0, PerfectStays
    <3>3. Cardinality(node.accepted) \in Nat /\ acks \in Nat
      BY <1>0, FS_CardinalityType DEF Inv, NodeInv, TypeInv
    <3>. QED
      BY <3>1, <3>2, <3>3, <2>0, <1>0, <1>9 DEF AckInv
  <2>. QED
    BY <2>2, <2>3, <2>4, <2>5, <2>6, <2>7, <2>8 DEF Inv
<1>. QED
  BY <1>3, <1>7, <1>8, <1>9

LEMMA QueryKeeps == ASSUME Inv, Answer_Query PROVE Inv'
<1>0. Answer("query")
  BY DEF Answer_Query
<1>1. CASE NoAnswer
  <2>1. Fails("NULL")
    BY <1>1 DEF Answer_Query
  <2>. QED
    BY <2>1, <1>0, FailKeeps
<1>2. CASE ~NoAnswer
  <2>1. Advance /\ UNCHANGED <<tx, web3>>
    BY <1>2 DEF Answer_Query
  <2>2. Ends
    BY <2>1, <1>0, AnswerFrame, HashKept DEF Ends
  <2>. QED
    BY <2>1, <2>2, <1>0, AnswerFrame, AdvanceKeeps
<1>. QED
  BY <1>1, <1>2

LEMMA AnswersKeep ==
  ASSUME Inv, \/ Answer_Nonce \/ Answer_GasPrice \/ Answer_Block \/ Answer_Fill \/ Answer_Send
              \/ Answer_Receipt \/ Answer_Query
  PROVE  Inv'
<1>1. CASE Answer_Nonce
  <2>1. Answer("nonce")
    BY <1>1 DEF Answer_Nonce, AnswerField
  <2>2. NoAnswer => rpc.ans.code \in {"RPC_FAIL", "OUT_OF_MEMORY"}
    BY <2>1, AnswerFacts DEF Inv
  <2>. QED
    BY <1>1, <2>2, FieldKeeps DEF Answer_Nonce, FieldNames
<1>2. CASE Answer_GasPrice
  BY <1>2, FieldKeeps DEF Answer_GasPrice, FieldNames
<1>3. CASE Answer_Block
  BY <1>3, FieldKeeps, LimitAssumption DEF Answer_Block, FieldNames
<1>. QED
  BY <1>1, <1>2, <1>3, FillKeeps, SentKeeps, ReceiptKeeps, QueryKeeps

----------------------------------------------------------------------------
(* The node.                                                               *)

\* The node accepts nothing twice: a nonce below the length of the ledger is
\* spent, one in the pool is taken.
LEMMA AcceptsFresh ==
  ASSUME TypeInv, NodeInv, NEW raw, Accepts(raw)
  PROVE  raw \notin node.accepted
<1>1. SUFFICES ASSUME raw \in node.accepted PROVE FALSE
  OBVIOUS
<1>2. CASE chain \in Eip155Chains
  <2>1. Nonce(raw) >= Len(node.ledger) /\ \A p \in node.pool : Nonce(p) # Nonce(raw)
    BY <1>2 DEF Accepts
  <2>2. raw \notin node.pool
    BY <2>1
  <2>3. raw \in Mined
    BY <1>1, <1>2, <2>2 DEF NodeInv
  <2>4. node.ledger \in Seq(EntrySet)
    BY DEF TypeInv, NodeRec
  <2>5. PICK i \in 1..Len(node.ledger) : raw = node.ledger[i].raw
    BY <2>3, <2>4 DEF Mined
  <2>6. Nonce(raw) = i - 1
    BY <1>2, <2>5 DEF NodeInv
  <2>. QED
    BY <2>1, <2>4, <2>5, <2>6
<1>3. CASE chain \notin Eip155Chains
  BY <1>1, <1>3 DEF Accepts
<1>. QED
  BY <1>2, <1>3

\* A transaction arrives at the node, which may still be waiting for others.
LEMMA AcceptNode ==
  ASSUME TypeInv, NodeInv, UNCHANGED chain, NEW raw, GoodRaw(raw),
         NEW late \in SUBSET RawSet, IsFiniteSet(late), \A r \in late : GoodRaw(r),
         Cardinality(late) + faults'.left <= MaxFaults,
         node' = [Accept(raw) EXCEPT !.late = late]
  PROVE  /\ NodeInv' /\ node' \in NodeRec /\ Mined' = Mined
         /\ Accepts(raw) => /\ node'.accepted = node.accepted \cup {raw}
                            /\ Cardinality(node'.accepted) = Cardinality(node.accepted) + 1
         /\ ~Accepts(raw) => node'.accepted = node.accepted
<1>0. node \in NodeRec /\ raw \in RawSet
  BY DEF TypeInv, GoodRaw
<1>1. /\ node' \in NodeRec /\ node'.late = late /\ node'.ledger = node.ledger
      /\ node'.pool = IF Accepts(raw) THEN node.pool \cup {raw} ELSE node.pool
      /\ node'.accepted = IF Accepts(raw) THEN node.accepted \cup {raw} ELSE node.accepted
  BY <1>0 DEF Accept, NodeRec
<1>2. Mined' = Mined
  BY <1>1 DEF Mined
<1>3. Accepts(raw) => raw \notin node.accepted /\ Cardinality(node.accepted) < MaxTx
  BY AcceptsFresh DEF Accepts
<1>4. /\ IsFiniteSet(node'.accepted) /\ Cardinality(node.accepted) \in Nat
      /\ Accepts(raw) => Cardinality(node'.accepted) = Cardinality(node.accepted) + 1
  <2>1. IsFiniteSet(node.accepted)
    BY DEF NodeInv
  <2>. QED
    BY <1>1, <1>3, <2>1, FS_AddElement, FS_CardinalityType
<1>5. Cardinality(node'.accepted) <= MaxTx
  BY <1>1, <1>3, <1>4, BoundAssumption DEF NodeInv
<1>6. (\A r \in node.accepted \cup node.late : GoodRaw(r))'
  BY <1>1 DEF NodeInv, GoodRaw
<1>7. node'.pool \subseteq node'.accepted /\ Mined' \subseteq node'.accepted
  BY <1>1, <1>2 DEF NodeInv
<1>8. chain' \in Eip155Chains =>
        /\ node'.accepted \subseteq node'.pool \cup Mined'
        /\ (\A i \in 1..Len(node.ledger) : Nonce(node.ledger[i].raw) = i - 1)'
  BY <1>1, <1>2 DEF NodeInv, Nonce
<1>9. Accepts(raw) => raw.sig.whole
  BY DEF Accepts, Sender, Key, Stranger
<1>10. \A r \in node'.accepted : r.sig.whole
  BY <1>1, <1>9 DEF NodeInv
<1>11. IsFiniteSet(node'.late) /\ Cardinality(node'.late) + faults'.left <= MaxFaults
  BY <1>1
<1>12. NodeInv'
  BY <1>4, <1>5, <1>6, <1>7, <1>8, <1>10, <1>11 DEF NodeInv
<1>. QED
  BY <1>1, <1>2, <1>4, <1>12

\* What a step of the node or of the network leaves of the invariant to show.
LEMMA NodeKeeps ==
  ASSUME Inv, UNCHANGED client, Onward, node' \in NodeRec, NodeInv',
         node.accepted \subseteq node'.accepted, Mined \subseteq Mined',
         RpcInv', rpc' = NoRpc => rpc = NoRpc,
         Perfect' => acks + (IF Acked' THEN 1 ELSE 0) <= Cardinality(node'.accepted)
  PROVE  Inv'
<1>0. UNCHANGED <<chain, wallet, web3, tx, call, todo, wait, ret, sent, acks>>
  BY DEF client
<1>1. TypeInv'
  BY <1>0 DEF Inv, TypeInv, Onward
<1>2. CallInv'
  BY <1>0 DEF Inv, CallInv, Private
<1>3. FillInv'
  BY <1>0 DEF Inv, FillInv, Private, At
<1>4. HashInv'
  BY <1>0, PerfectStays DEF Inv, HashInv, At
<1>5. RetInv'
  BY <1>0, PerfectStays DEF Inv, RetInv
<1>6. AckInv'
  BY <1>0 DEF AckInv
<1>. QED
  BY <1>1, <1>2, <1>3, <1>4, <1>5, <1>6 DEF Inv

\* The node by itself: the request under way and the count of successes are
\* not touched when nothing that was accepted or mined is lost.
LEMMA NodeAloneKeeps ==
  ASSUME Inv, UNCHANGED <<client, rpc, faults>>, node' \in NodeRec, NodeInv',
         node.accepted \subseteq node'.accepted, Mined \subseteq Mined',
         Cardinality(node.accepted) <= Cardinality(node'.accepted)
  PROVE  Inv'
<1>0. UNCHANGED <<chain, wallet, tx, call, todo, sent, acks>> /\ UNCHANGED client
  BY DEF client
<1>1. Onward
  BY FaultOnward DEF Inv
<1>2. RpcInv'
  <2>1. \A op, req : ReqOK(op, req) => ReqOK(op, req)'
    BY <1>0 DEF ReqOK, GoodRaw
  <2>2. \A op, ans : AnsOK(op, ans) => AnsOK(op, ans)'
    BY <1>0 DEF AnsOK
  <2>. QED
    BY <2>1, <2>2, <1>0 DEF Inv, RpcInv
<1>3. Perfect' => acks + (IF Acked' THEN 1 ELSE 0) <= Cardinality(node'.accepted)
  <2>1. Acked' = Acked /\ Perfect' = Perfect
    BY <1>0 DEF Acked, At, Perfect
  <2>2. Cardinality(node.accepted) \in Nat /\ Cardinality(node'.accepted) \in Nat /\ acks \in Nat
    BY FS_CardinalityType DEF Inv, NodeInv, TypeInv
  <2>3. Perfect => acks + (IF Acked THEN 1 ELSE 0) <= Cardinality(node.accepted)
    BY DEF Inv, AckInv
  <2>. QED
    BY <2>1, <2>2, <2>3
<1>. QED
  BY <1>0, <1>1, <1>2, <1>3, NodeKeeps

LEMMA LateKeeps == ASSUME Inv, Node_Late PROVE Inv'
<1>1. PICK raw \in node.late : /\ node' = [Accept(raw) EXCEPT !.late = @ \ {raw}]
                               /\ UNCHANGED <<client, rpc, faults>>
  BY DEF Node_Late
<1>0. TypeInv /\ NodeInv /\ node \in NodeRec /\ faults.left \in Nat
  BY DEF Inv, TypeInv, FaultRec
<1>. DEFINE late == node.late \ {raw}
<1>2. /\ late \in SUBSET RawSet /\ (\A r \in late : GoodRaw(r)) /\ GoodRaw(raw)
      /\ IsFiniteSet(node.late)
  BY <1>0 DEF NodeInv, NodeRec
<1>3. /\ IsFiniteSet(late) /\ Cardinality(late) = Cardinality(node.late) - 1
      /\ Cardinality(node.late) \in Nat
  BY <1>1, <1>2, FS_RemoveElement, FS_CardinalityType
<1>4. Cardinality(late) + faults'.left <= MaxFaults
  BY <1>0, <1>1, <1>3, BoundAssumption DEF NodeInv
<1>5. node' = [Accept(raw) EXCEPT !.late = late]
  BY <1>0, <1>1 DEF Accept, NodeRec
<1>. HIDE DEF late
<1>6. UNCHANGED chain
  BY <1>1 DEF client
<1>7. /\ NodeInv' /\ node' \in NodeRec /\ Mined' = Mined
      /\ Accepts(raw) => /\ node'.accepted = node.accepted \cup {raw}
                         /\ Cardinality(node'.accepted) = Cardinality(node.accepted) + 1
      /\ ~Accepts(raw) => node'.accepted = node.accepted
  BY <1>0, <1>2, <1>3, <1>4, <1>5, <1>6, AcceptNode
<1>8. Cardinality(node.accepted) \in Nat
  BY <1>0, FS_CardinalityType DEF NodeInv
<1>9. node.accepted \subseteq node'.accepted /\ Cardinality(node.accepted) <= Cardinality(node'.accepted)
  BY <1>7, <1>8
<1>. QED
  BY <1>1, <1>7, <1>9, NodeAloneKeeps

LEMMA MineKeeps == ASSUME Inv, Node_Mine PROVE Inv'
<1>1. PICK raw \in node.pool, ok \in BOOLEAN :
        /\ chain \in Eip155Chains => Nonce(raw) = Len(node.ledger)
        /\ node' = [node EXCEPT !.pool = @ \ {raw}, !.ledger = Append(@, [raw |-> raw, ok |-> ok])]
        /\ UNCHANGED <<client, rpc, faults>>
  BY DEF Node_Mine
<1>0. TypeInv /\ NodeInv /\ node \in NodeRec /\ UNCHANGED chain
  BY <1>1 DEF Inv, TypeInv, client
<1>. DEFINE entry == [raw |-> raw, ok |-> ok]
<1>2. node.ledger \in Seq(EntrySet) /\ entry \in EntrySet /\ entry.raw = raw
  BY <1>0 DEF NodeRec, EntrySet
<1>. HIDE DEF entry
<1>3. /\ node' \in NodeRec
      /\ node'.ledger = Append(node.ledger, entry)
      /\ node'.pool = node.pool \ {raw}
      /\ UNCHANGED <<node.accepted, node.late>>
  <2>. DEFINE ledger == Append(node.ledger, entry)
  <2>1. node' = [node EXCEPT !.pool = @ \ {raw}, !.ledger = ledger]
    BY <1>1 DEF entry
  <2>2. ledger \in Seq(EntrySet)
    BY <1>2
  <2>. HIDE DEF ledger
  <2>3. /\ node' \in NodeRec
        /\ node'.ledger = ledger
        /\ node'.pool = node.pool \ {raw}
        /\ UNCHANGED <<node.accepted, node.late>>
    BY <1>0, <2>1, <2>2 DEF NodeRec
  <2>. QED
    BY <2>3 DEF ledger
<1>4. /\ Len(node'.ledger) = Len(node.ledger) + 1 /\ Len(node.ledger) \in Nat
      /\ DOMAIN node'.ledger = 1..(Len(node.ledger) + 1)
      /\ DOMAIN node.ledger = 1..Len(node.ledger)
      /\ \A i \in 1..Len(node.ledger) : node'.ledger[i] = node.ledger[i]
      /\ node'.ledger[Len(node.ledger) + 1] = entry
  BY <1>2, <1>3
<1>5. Mined' = Mined \cup {raw}
  <2>1. Mined' \subseteq Mined \cup {raw}
    BY <1>2, <1>4 DEF Mined
  <2>2. Mined \subseteq Mined'
    BY <1>4 DEF Mined
  <2>3. raw \in Mined'
    BY <1>2, <1>4 DEF Mined
  <2>. QED
    BY <2>1, <2>2, <2>3
<1>6. NodeInv'
  <2>1. node'.pool \subseteq node'.accepted /\ Mined' \subseteq node'.accepted
    BY <1>0, <1>1, <1>3, <1>5 DEF NodeInv
  <2>2. (\A r \in node.accepted \cup node.late : GoodRaw(r))'
    BY <1>0, <1>3 DEF NodeInv, GoodRaw
  <2>3. chain' \in Eip155Chains => node'.accepted \subseteq node'.pool \cup Mined'
    BY <1>0, <1>3, <1>5 DEF NodeInv
  <2>4. chain \in Eip155Chains => \A i \in 1..(Len(node.ledger) + 1) : Nonce(node'.ledger[i].raw) = i - 1
    <3>1. chain \in Eip155Chains => \A i \in 1..Len(node.ledger) : Nonce(node.ledger[i].raw) = i - 1
      BY <1>0 DEF NodeInv
    <3>. QED
      BY <3>1, <1>1, <1>2, <1>4
  <2>5. chain' \in Eip155Chains => (\A i \in 1..Len(node.ledger) : Nonce(node.ledger[i].raw) = i - 1)'
    BY <2>4, <1>0, <1>4 DEF Nonce
  <2>6. (/\ IsFiniteSet(node.accepted) /\ IsFiniteSet(node.late)
         /\ Cardinality(node.accepted) <= MaxTx
         /\ Cardinality(node.late) + faults.left <= MaxFaults)'
    BY <1>0, <1>1, <1>3 DEF NodeInv
  <2>7. \A r \in node'.accepted : r.sig.whole
    BY <1>0, <1>3 DEF NodeInv
  <2>. QED
    BY <2>1, <2>2, <2>3, <2>5, <2>6, <2>7 DEF NodeInv
<1>7. Cardinality(node.accepted) \in Nat
  BY <1>0, FS_CardinalityType DEF NodeInv
<1>8. node'.accepted = node.accepted
  BY <1>3
<1>. QED
  BY <1>1, <1>3, <1>5, <1>6, <1>7, <1>8, NodeAloneKeeps

LEMMA BlockKeeps == ASSUME Inv, Node_Block PROVE Inv'
<1>0. /\ TypeInv /\ NodeInv /\ node \in NodeRec /\ UNCHANGED chain
      /\ chain \notin Eip155Chains /\ UNCHANGED <<client, rpc, faults>>
  BY DEF Inv, TypeInv, client, Node_Block, Eip155Chains, LimitChains
<1>. DEFINE pool == {raw \in node.pool : FieldOf(chain, raw, "limit") > node.height + 1}
<1>1. node.height < MaxHeight /\ node' = [node EXCEPT !.height = @ + 1, !.pool = pool]
  BY DEF Node_Block
<1>2. pool \subseteq node.pool
  OBVIOUS
<1>. HIDE DEF pool
<1>3. node.height + 1 \in 0..MaxHeight
  BY <1>0, <1>1, BoundAssumption DEF NodeRec
<1>4. /\ node' \in NodeRec /\ node'.pool = pool
      /\ UNCHANGED <<node.accepted, node.late, node.ledger>>
  BY <1>0, <1>1, <1>2, <1>3 DEF NodeRec
<1>5. Mined' = Mined
  BY <1>4 DEF Mined
<1>6. (\A r \in node.accepted \cup node.late : GoodRaw(r))'
  BY <1>0, <1>4 DEF NodeInv, GoodRaw
<1>7. NodeInv'
  BY <1>0, <1>2, <1>4, <1>5, <1>6 DEF NodeInv
<1>8. Cardinality(node.accepted) \in Nat
  BY <1>0, FS_CardinalityType DEF NodeInv
<1>. QED
  BY <1>0, <1>4, <1>5, <1>7, <1>8, NodeAloneKeeps

----------------------------------------------------------------------------
(* The end of a request.                                                   *)

\* The node handles the request that was sent, whatever becomes of its answer.
LEMMA AfterNode ==
  ASSUME Inv, rpc.st = "sent", node' = After(rpc.req), UNCHANGED chain, Onward
  PROVE  /\ NodeInv' /\ node' \in NodeRec /\ Mined' = Mined
         /\ node.accepted \subseteq node'.accepted
         /\ Cardinality(node.accepted) \in Nat /\ Cardinality(node'.accepted) \in Nat
         /\ IF rpc.req.method = "send" /\ Accepts(rpc.req.raw)
            THEN /\ rpc.req.raw \in node'.accepted
                 /\ Cardinality(node'.accepted) = Cardinality(node.accepted) + 1
            ELSE node'.accepted = node.accepted
<1>0. /\ TypeInv /\ NodeInv /\ node \in NodeRec /\ Cardinality(node.accepted) \in Nat
      /\ todo # <<>> /\ ReqOK(Head(todo).op, rpc.req)
  BY FS_CardinalityType DEF Inv, TypeInv, RpcInv, NoRpc, NodeInv
<1>1. CASE rpc.req.method # "send"
  <2>1. node' = node
    BY <1>1 DEF After
  <2>2. NodeInv' /\ Mined' = Mined
    BY <2>1, <1>0, NodeSame DEF Mined
  <2>. QED
    BY <2>1, <2>2, <1>0, <1>1
<1>2. CASE rpc.req.method = "send"
  <2>1. GoodRaw(rpc.req.raw)
    <3>1. Head(todo).op = "send"
      BY <1>0, <1>2 DEF ReqOK, QuerySet, web3_getTransactionCount, web3_gasPrice,
           web3_cita_getBlockNumber, web3_getTransactionReceiptStatus, web3_fillTransaction
    <3>2. rpc.req = web3_sendRawTransaction(sent) /\ GoodRaw(sent)
      BY <3>1, <1>0 DEF ReqOK
    <3>. QED
      BY <3>2 DEF web3_sendRawTransaction
  <2>2. node' = [Accept(rpc.req.raw) EXCEPT !.late = node.late]
    BY <1>0, <1>2 DEF After, Accept, NodeRec
  <2>3. Cardinality(node.late) + faults'.left <= MaxFaults
    BY <1>0, NodeSame, FS_CardinalityType, BoundAssumption DEF Onward, NodeInv, TypeInv, FaultRec
  <2>4. node.late \in SUBSET RawSet /\ IsFiniteSet(node.late) /\ \A r \in node.late : GoodRaw(r)
    BY <1>0 DEF NodeInv, NodeRec
  <2>5. /\ NodeInv' /\ node' \in NodeRec /\ Mined' = Mined
        /\ Accepts(rpc.req.raw) => /\ node'.accepted = node.accepted \cup {rpc.req.raw}
                                   /\ Cardinality(node'.accepted) = Cardinality(node.accepted) + 1
        /\ ~Accepts(rpc.req.raw) => node'.accepted = node.accepted
    BY <1>0, <2>1, <2>2, <2>3, <2>4, AcceptNode
  <2>. QED
    BY <1>0, <1>2, <2>5
<1>. QED
  BY <1>1, <1>2

\* The answer the node gives is true: a hash is that of a transaction it has
\* just accepted, a receipt that of a mined one.
LEMMA HandledAnswer ==
  ASSUME Inv, Node_Handle
  PROVE  AnsOK(Head(todo).op, rpc.ans)'
<1>. DEFINE op  == Head(todo).op
            req == rpc.req
<1>0. /\ TypeInv /\ node \in NodeRec /\ todo # <<>> /\ ReqOK(op, req)
      /\ UNCHANGED <<chain, wallet, tx, todo, sent>>
      /\ rpc.st = "sent" /\ rpc' = [st |-> "answered", ans |-> NodeAnswer(req)]
      /\ node' = After(req) /\ UNCHANGED faults
  BY DEF Inv, TypeInv, RpcInv, NoRpc, Node_Handle, Answers, client
<1>1. rpc'.ans = NodeAnswer(req) /\ Onward
  BY <1>0, FaultOnward
<1>2. CASE op = "nonce"
  <2>1. NodeAnswer(req) = AnsString(Len(node.ledger))
    <3>1. req.method = "count"
      BY <1>0, <1>2 DEF ReqOK, web3_getTransactionCount
    <3>. QED
      BY <3>1 DEF NodeAnswer
  <2>2. Len(node.ledger) \in Nat
    BY <1>0 DEF NodeRec
  <2>. QED
    BY <1>0, <1>1, <1>2, <2>1, <2>2 DEF AnsOK, AnsString
<1>3. CASE op = "gasprice"
  <2>1. NodeAnswer(req) = AnsString(1)
    <3>1. req.method = "price"
      BY <1>0, <1>3 DEF ReqOK, web3_gasPrice
    <3>. QED
      BY <3>1 DEF NodeAnswer
  <2>. QED
    BY <1>0, <1>1, <1>3, <2>1 DEF AnsOK, AnsString
<1>4. CASE op = "block"
  <2>1. NodeAnswer(req) = AnsString(node.height)
    <3>1. req.method = "block"
      BY <1>0, <1>4 DEF ReqOK, web3_cita_getBlockNumber
    <3>. QED
      BY <3>1 DEF NodeAnswer
  <2>2. node.height \in Nat
    BY <1>0 DEF NodeRec
  <2>. QED
    BY <1>0, <1>1, <1>4, <2>1, <2>2 DEF AnsOK, AnsString
<1>5. CASE op = "query"
  <2>1. req.method \in {"balance", "call", "block"}
    BY <1>0, <1>5 DEF ReqOK, QuerySet
  <2>2. \E x : NodeAnswer(req) = AnsString(x)
    BY <2>1 DEF NodeAnswer
  <2>. QED
    BY <1>0, <1>1, <1>5, <2>2 DEF AnsOK, AnsString
<1>6. CASE op = "fill"
  <2>1. req.method = "fill" /\ req.data = tx.f["data"]
    BY <1>0, <1>6 DEF ReqOK, web3_fillTransaction
  <2>2. NodeAnswer(req) = AnsObject("tx", "input", Handle(tx.f["data"]))
    BY <2>1 DEF NodeAnswer
  <2>. QED
    BY <1>0, <1>1, <1>6, <2>2 DEF AnsOK, AnsObject
<1>7. CASE op = "receipt"
  <2>1. req.method = "receipt" /\ req.hash = tx.tx_hash
    BY <1>0, <1>7 DEF ReqOK, web3_getTransactionReceiptStatus
  <2>2. NodeAnswer(req) = ReceiptAnswer(tx.tx_hash)
    BY <2>1 DEF NodeAnswer
  <2>3. Mined' = Mined
    BY <1>0, <1>1, AfterNode
  <2>4. CASE tx.tx_hash = NoHash
    BY <2>2, <2>4, <1>0, <1>1, <1>7 DEF ReceiptAnswer, AnsOK, AnsError
  <2>5. CASE tx.tx_hash # NoHash /\ tx.tx_hash \notin Mined
    BY <2>2, <2>5, <1>0, <1>1, <1>7 DEF ReceiptAnswer, AnsOK, AnsNull
  <2>6. CASE tx.tx_hash # NoHash /\ tx.tx_hash \in Mined
    <3>1. ReceiptAnswer(tx.tx_hash).kind \in {"object", "nonstring"}
      BY <2>6 DEF ReceiptAnswer, AnsObject, AnsNonString
    <3>. QED
      BY <3>1, <2>2, <2>3, <2>6, <1>0, <1>1, <1>7 DEF AnsOK
  <2>. QED
    BY <2>4, <2>5, <2>6
<1>8. CASE op = "send"
  <2>1. req.method = "send" /\ req.raw = sent
    BY <1>0, <1>8 DEF ReqOK, web3_sendRawTransaction
  <2>2. CASE ~Accepts(sent)
    <3>1. NodeAnswer(req) = AnsError
      BY <2>1, <2>2 DEF NodeAnswer
    <3>. QED
      BY <3>1, <1>0, <1>1 DEF AnsOK, AnsError
  <2>3. CASE Accepts(sent)
    <3>1. NodeAnswer(req) = IF chain = "CITA" THEN AnsObject("hash", "", sent) ELSE AnsString(sent)
      BY <2>1, <2>3 DEF NodeAnswer
    <3>2. NodeAnswer(req).kind \in {"string", "object"} /\ NodeAnswer(req).val = sent
      <4>1. \A x : AnsString(x).kind = "string" /\ AnsString(x).val = x
        BY DEF AnsString
      <4>2. \A x : AnsObject("hash", "", x).kind = "object" /\ AnsObject("hash", "", x).val = x
        BY DEF AnsObject
      <4>. QED
        BY <3>1, <4>1, <4>2
    <3>3. sent \in node'.accepted
      BY <2>1, <2>3, <1>0, <1>1, AfterNode
    <3>. QED
      BY <3>2, <3>3, <1>0, <1>1, <1>8 DEF AnsOK
  <2>. QED
    BY <2>2, <2>3
<1>. QED
  BY <1>0, <1>2, <1>3, <1>4, <1>5, <1>6, <1>7, <1>8 DEF ReqOK

\* The request ends with an answer that may be given; what the node accepted on
\* the way is counted as a success only when the answer says so.
LEMMA EndKeeps ==
  ASSUME Inv, rpc.st = "sent", NEW ans, Answers(ans), Onward,
         NodeInv', node' \in NodeRec, Mined' = Mined, node.accepted \subseteq node'.accepted,
         Cardinality(node.accepted) \in Nat, Cardinality(node'.accepted) \in Nat,
         AnsOK(Head(todo).op, rpc.ans)',
         At("send") /\ ans.kind \in {"string", "object"} =>
           Cardinality(node'.accepted) = Cardinality(node.accepted) + 1,
         Cardinality(node.accepted) <= Cardinality(node'.accepted)
  PROVE  Inv'
<1>0. /\ UNCHANGED client /\ UNCHANGED <<call, todo, acks>>
      /\ rpc' = [st |-> "answered", ans |-> ans]
      /\ TypeInv /\ RpcInv /\ AckInv
  BY DEF Answers, client, Inv
<1>1. rpc'.st = "answered" /\ rpc' # NoRpc /\ rpc'.ans = ans
  BY <1>0 DEF NoRpc
<1>2. todo # <<>> /\ Head(todo).op # "set"
  BY <1>0 DEF RpcInv, NoRpc
<1>3. RpcInv'
  BY <1>0, <1>1, <1>2 DEF RpcInv
<1>4. Perfect' => acks + (IF Acked' THEN 1 ELSE 0) <= Cardinality(node'.accepted)
  <2>1. SUFFICES ASSUME Perfect' PROVE acks + (IF Acked' THEN 1 ELSE 0) <= Cardinality(node'.accepted)
    OBVIOUS
  <2>2. acks \in Nat /\ acks + (IF Acked THEN 1 ELSE 0) <= Cardinality(node.accepted)
    BY <2>1, <1>0, PerfectStays DEF AckInv, TypeInv
  <2>3. Acked' => Acked \/ (At("send") /\ ans.kind \in {"string", "object"})
    BY <1>0, <1>1 DEF Acked, At
  <2>. QED
    BY <2>2, <2>3
<1>. QED
  BY <1>0, <1>1, <1>3, <1>4, NodeKeeps

LEMMA NetworkKeeps ==
  ASSUME Inv, Node_Handle \/ Node_Refuse \/ Node_Garbage \/ Answer_Lost \/ Rpc_Timeout
  PROVE  Inv'
<1>0. /\ TypeInv /\ NodeInv /\ node \in NodeRec /\ rpc.st = "sent" /\ todo # <<>>
      /\ ReqOK(Head(todo).op, rpc.req) /\ UNCHANGED <<chain, todo>>
      /\ Cardinality(node.accepted) \in Nat
  BY FS_CardinalityType DEF Inv, TypeInv, NodeInv, RpcInv, NoRpc, Node_Handle, Node_Refuse,
     Node_Garbage, Answer_Lost, Rpc_Timeout, Answers, client
<1>1. CASE Node_Handle
  <2>1. Onward /\ node' = After(rpc.req) /\ Answers(NodeAnswer(rpc.req))
    BY <1>0, <1>1, FaultOnward DEF Node_Handle
  <2>2. At("send") /\ NodeAnswer(rpc.req).kind \in {"string", "object"} =>
          Cardinality(node'.accepted) = Cardinality(node.accepted) + 1
    <3>1. SUFFICES ASSUME At("send"), NodeAnswer(rpc.req).kind \in {"string", "object"}
                   PROVE  Accepts(rpc.req.raw) /\ rpc.req.method = "send"
      BY <2>1, <1>0, AfterNode
    <3>2. rpc.req.method = "send"
      BY <3>1, <1>0 DEF ReqOK, At, web3_sendRawTransaction
    <3>3. ~Accepts(rpc.req.raw) => NodeAnswer(rpc.req) = AnsError
      BY <3>2 DEF NodeAnswer
    <3>. QED
      BY <3>1, <3>2, <3>3 DEF AnsError
  <2>3. AnsOK(Head(todo).op, rpc.ans)'
    BY <1>1, HandledAnswer
  <2>. QED
    BY <2>1, <2>2, <2>3, <1>0, AfterNode, EndKeeps
<1>2. ASSUME NEW ans, Answers(ans), Onward, node' = After(rpc.req) \/ node' = node,
             ans.kind \notin {"string", "object"}, AnsOK(Head(todo).op, rpc.ans)'
      PROVE  Inv'
  <2>1. /\ NodeInv' /\ node' \in NodeRec /\ Mined' = Mined
        /\ node.accepted \subseteq node'.accepted
        /\ Cardinality(node'.accepted) \in Nat
        /\ Cardinality(node.accepted) <= Cardinality(node'.accepted)
    <3>1. CASE node' = After(rpc.req)
      BY <3>1, <1>0, <1>2, AfterNode
    <3>2. CASE node' = node
      BY <3>2, <1>0, <1>2, NodeSame DEF Mined
    <3>. QED
      BY <3>1, <3>2, <1>2
  <2>. QED
    BY <2>1, <1>0, <1>2, EndKeeps
<1>3. \A a : Answers(a) => rpc'.ans = a
  BY DEF Answers
<1>4. CASE Node_Refuse
  BY <1>0, <1>2, <1>3, <1>4, FaultOnward DEF Node_Refuse, AnsError, AnsOK
<1>5. CASE Node_Garbage
  BY <1>0, <1>2, <1>3, <1>5, FaultOnward DEF Node_Garbage, AnsGarbage, AnsOK
<1>6. CASE Answer_Lost
  BY <1>0, <1>2, <1>3, <1>6, FaultOnward DEF Answer_Lost, AnsNone, AnsOK
<1>7. CASE Rpc_Timeout
  <2>1. /\ Answers(AnsNone("RPC_FAIL")) /\ Onward /\ faults'.left = faults.left - 1
        /\ AnsOK(Head(todo).op, rpc.ans)'
    BY <1>0, <1>3, <1>7, FaultOnward DEF Rpc_Timeout, AnsNone, AnsOK
  <2>2. CASE UNCHANGED node
    BY <1>2, <2>1, <2>2 DEF AnsNone
  <2>3. CASE rpc.req.method = "send" /\ node' = [node EXCEPT !.late = @ \cup {rpc.req.raw}]
    <3>1. GoodRaw(rpc.req.raw)
      <4>1. Head(todo).op = "send"
        BY <1>0, <2>3 DEF ReqOK, QuerySet, web3_getTransactionCount, web3_gasPrice,
             web3_cita_getBlockNumber, web3_getTransactionReceiptStatus, web3_fillTransaction
      <4>. QED
        BY <4>1, <1>0 DEF ReqOK, web3_sendRawTransaction
    <3>2. /\ node' \in NodeRec /\ node'.late = node.late \cup {rpc.req.raw}
          /\ UNCHANGED <<node.pool, node.accepted, node.ledger>>
      BY <3>1, <2>3, <1>0 DEF NodeRec, GoodRaw
    <3>3. Mined' = Mined
      BY <3>2 DEF Mined
    <3>4. /\ IsFiniteSet(node'.late)
          /\ Cardinality(node'.late) <= Cardinality(node.late) + 1
          /\ Cardinality(node.late) \in Nat /\ Cardinality(node'.late) \in Nat
      <4>1. IsFiniteSet(node.late) /\ Cardinality(node.late) \in Nat
        BY <1>0, FS_CardinalityType DEF NodeInv
      <4>2. IsFiniteSet(node'.late)
        BY <4>1, <3>2, FS_AddElement
      <4>3. Cardinality(node'.late) \in {Cardinality(node.late), Cardinality(node.late) + 1}
        BY <4>1, <3>2, FS_AddElement
      <4>. QED
        BY <4>1, <4>2, <4>3
    <3>5. Cardinality(node'.late) + faults'.left <= MaxFaults
      BY <3>4, <2>1, <1>0, BoundAssumption DEF NodeInv, TypeInv, FaultRec, Onward
    <3>6. (\A r \in node.accepted \cup node.late : GoodRaw(r))'
      BY <3>1, <3>2, <1>0 DEF NodeInv, GoodRaw
    <3>7. chain' \in Eip155Chains => (\A i \in 1..Len(node.ledger) : Nonce(node.ledger[i].raw) = i - 1)'
      BY <3>2, <1>0 DEF NodeInv, Nonce
    <3>8. NodeInv'
      BY <3>2, <3>3, <3>4, <3>5, <3>6, <3>7, <1>0 DEF NodeInv
    <3>9. node'.accepted = node.accepted
      BY <3>2
    <3>. QED
      BY <3>2, <3>3, <3>8, <3>9, <2>1, <1>0, EndKeeps DEF AnsNone
  <2>. QED
    BY <2>2, <2>3, <1>7 DEF Rpc_Timeout
<1>. QED
  BY <1>1, <1>4, <1>5, <1>6, <1>7
=============================================================================
