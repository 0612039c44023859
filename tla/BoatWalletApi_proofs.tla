------------------------ MODULE BoatWalletApi_proofs ------------------------
(***************************************************************************)
(* The correctness of the wallets of the JSON-RPC protocols, for every set *)
(* of chain ids and inputs, every number of calls, transactions, blocks    *)
(* and faults, and every length of the receipt loop.  The functions of the *)
(* API keep the invariant of BoatTransaction_proofs; the properties follow *)
(* from it.                                                                *)
(***************************************************************************)
EXTENDS BoatWalletApi, BoatTransaction_proofs

----------------------------------------------------------------------------
(* Calling a function of the API.                                          *)

\* The steps of a call that sends.
Start(s, sync, private) ==
  /\ s \in Seq(StepSet)
  /\ SendList(s, sync, private)
  /\ s[1].op # "receipt"
  /\ private => s[1].op # "send"

\* The steps of any other call.
Other(s) ==
  /\ s \in Seq(StepSet) /\ s # <<>>
  /\ \A i \in 1..Len(s) : s[i].op \notin {"send", "fill"}

LEMMA IdleFacts ==
  ASSUME Inv, NEW c, Called(c)
  PROVE  /\ TypeInv /\ NodeInv /\ HashInv
         /\ call = "none" /\ todo = <<>> /\ rpc = NoRpc /\ ~Acked
         /\ Perfect => acks <= Cardinality(node.accepted)
         /\ acks \in Nat /\ Cardinality(node.accepted) \in Nat
<1>1. call = "none" /\ todo = <<>>
  BY DEF Called, Idle, Inv, CallInv
<1>2. rpc = NoRpc /\ ~Acked
  BY <1>1 DEF Inv, RpcInv, Acked, At
<1>3. acks \in Nat /\ Cardinality(node.accepted) \in Nat
  BY FS_CardinalityType DEF Inv, TypeInv, NodeInv
<1>. QED
  BY <1>1, <1>2, <1>3 DEF Inv, AckInv

\* A function that returns at once, or one that starts its steps: it keeps the
\* node, the hash and what was counted.
LEMMA CalledKeeps ==
  ASSUME Inv, NEW c, Called(c), UNCHANGED <<chain, wait, rpc, node, acks>>, Onward,
         wallet' \in WalletRec, web3' \in Web3Rec, tx' \in TxRec, sent' \in RawSet,
         todo' \in Seq(StepSet), CallInv', ret' = NoRet \/ UNCHANGED <<ret, tx, sent>>,
         \/ tx'.tx_hash = tx.tx_hash /\ sent' = sent
         \/ tx'.tx_hash = NoHash /\ sent' = NoRaw,
         call' \in Sending => Head(todo').op # "receipt",
         call' \in Sending /\ Private' => Head(todo').op # "send"
  PROVE  Inv'
<1>0. /\ TypeInv /\ NodeInv /\ HashInv
      /\ call = "none" /\ todo = <<>> /\ rpc = NoRpc /\ ~Acked
      /\ Perfect => acks <= Cardinality(node.accepted)
      /\ acks \in Nat /\ Cardinality(node.accepted) \in Nat
  BY IdleFacts
<1>1. TypeInv'
  BY <1>0 DEF TypeInv, Onward
<1>2. RpcInv'
  BY <1>0 DEF RpcInv
<1>3. FillInv'
  <2>1. SUFFICES ASSUME Private', At("send")' PROVE FALSE
    BY <2>1 DEF FillInv
  <2>2. todo' # <<>> /\ Head(todo').op = "send"
    BY <2>1 DEF At
  <2>3. Head(todo') = todo'[1] /\ 1 \in 1..Len(todo')
    BY <2>2
  <2>4. call' \in Sending
    BY <2>2, <2>3 DEF CallInv
  <2>. QED
    BY <2>1, <2>2, <2>4
<1>4. NodeInv'
  BY <1>0, NodeSame
<1>5. HashInv'
  BY <1>0 DEF HashInv, At
<1>6. RetInv'
  <2>1. CASE ret' = NoRet
    BY <2>1 DEF RetInv, NoRet, Sending
  <2>2. CASE UNCHANGED <<ret, tx, sent>>
    <3>1. Mined' = Mined /\ (Perfect' => Perfect)
      BY PerfectStays DEF Mined
    <3>. QED
      BY <2>2, <3>1 DEF Inv, RetInv
  <2>. QED
    BY <2>1, <2>2
<1>7. AckInv'
  <2>1. ~Acked'
    BY <1>0 DEF Acked, At, NoRpc
  <2>2. Perfect' => Perfect
    BY PerfectStays
  <2>. QED
    BY <2>1, <2>2, <1>0 DEF AckInv
<1>. QED
  BY <1>1, <1>2, <1>3, <1>4, <1>5, <1>6, <1>7 DEF Inv

LEMMA NoCall ==
  ASSUME Inv, NEW c, Called(c), UNCHANGED <<call, todo, chain>>, ret' = NoRet \/ UNCHANGED ret
  PROVE  CallInv' /\ call' = "none" /\ call' \notin Sending /\ todo' \in Seq(StepSet)
<1>1. call = "none" /\ todo = <<>>
  BY IdleFacts
<1>. QED
  BY <1>1 DEF CallInv, Sending

LEMMA Unharmed == ASSUME Inv, UNCHANGED faults PROVE Onward
BY FaultOnward DEF Inv

LEMMA WalletInitKeeps ==
  ASSUME Inv, NEW c, NEW ids \in SUBSET ChainIds, NEW eip155 \in SUBSET BOOLEAN, WalletInit(c, ids, eip155)
  PROVE  Inv'
<1>0. /\ Called(c) /\ TypeInv
      /\ UNCHANGED <<chain, tx, call, todo, wait, ret, rpc, node, sent, acks>>
  BY DEF WalletInit, Inv
<1>1. Onward
  BY <1>0, FaultOnward DEF WalletInit
<1>2. wallet' \in WalletRec /\ web3' \in Web3Rec
  <2>1. ASSUME NEW id \in ids, NEW e \in eip155,
               wallet' = [open |-> TRUE, key |-> Key, chain_id |-> id, eip155 |-> e]
        PROVE  wallet' \in WalletRec
    BY <2>1 DEF WalletRec
  <2>2. [json |-> 1, result |-> 0] \in Web3Rec
    BY DEF Web3Rec
  <2>. QED
    BY <2>1, <2>2, <1>0 DEF WalletInit, TypeInv
<1>3. CallInv' /\ call' = "none" /\ call' \notin Sending /\ todo' \in Seq(StepSet)
  BY <1>0, NoCall
<1>. QED
  BY <1>0, <1>1, <1>2, <1>3, CalledKeeps DEF TypeInv

LEMMA InitTypes ==
  /\ Closed \in WalletRec /\ [json |-> 0, result |-> 0] \in Web3Rec
  /\ NewTx \in TxRec /\ NewTx.tx_hash = NoHash /\ NoRaw \in RawSet
<1>1. Closed \in WalletRec
  BY InputAssumption DEF Closed, WalletRec
<1>2. [json |-> 0, result |-> 0] \in Web3Rec
  BY DEF Web3Rec
<1>3. NewTx \in TxRec /\ NewTx.tx_hash = NoHash
  BY DEF NewTx, TxRec, NoFields, Fields
<1>4. NoRaw \in RawSet
  BY DEF NoRaw, RawSet, Stranger
<1>. QED
  BY <1>1, <1>2, <1>3, <1>4

LEMMA WalletDeInitKeeps == ASSUME Inv, NEW c, WalletDeInit(c) PROVE Inv'
<1>0. /\ Called(c) /\ TypeInv
      /\ wallet' = Closed /\ web3' = [json |-> 0, result |-> 0] /\ tx' = NewTx
      /\ ret' = NoRet /\ sent' = NoRaw
      /\ UNCHANGED <<chain, call, todo, wait, rpc, node, faults, acks>>
  BY DEF WalletDeInit, Inv
<1>1. Onward
  BY <1>0, Unharmed
<1>2. CallInv' /\ call' = "none" /\ call' \notin Sending /\ todo' \in Seq(StepSet)
  BY <1>0, NoCall
<1>. QED
  BY <1>0, <1>1, <1>2, InitTypes, CalledKeeps

LEMMA WalletSetKeeps == ASSUME Inv, NEW c, NEW w \in WalletRec, WalletSet(c, w) PROVE Inv'
<1>0. /\ Called(c) /\ TypeInv /\ wallet' = w /\ ret' = NoRet
      /\ UNCHANGED <<chain, web3, tx, call, todo, wait, rpc, node, faults, sent, acks>>
  BY DEF WalletSet, Inv
<1>1. Onward
  BY <1>0, Unharmed
<1>2. CallInv' /\ call' = "none" /\ call' \notin Sending /\ todo' \in Seq(StepSet)
  BY <1>0, NoCall
<1>. QED
  BY <1>0, <1>1, <1>2, CalledKeeps DEF TypeInv

\* A function that changes the transaction, but for its hash, and returns.
LEMMA TxChangeKeeps ==
  ASSUME Inv, NEW c, NEW t \in TxRec, t.tx_hash = tx.tx_hash, TxChange(c, t)
  PROVE  Inv'
<1>0. /\ Called(c) /\ TypeInv /\ tx' = t /\ ret' = NoRet
      /\ UNCHANGED <<chain, wallet, web3, call, todo, wait, rpc, node, faults, sent, acks>>
  BY DEF TxChange, Inv
<1>1. Onward
  BY <1>0, Unharmed
<1>2. CallInv' /\ call' = "none" /\ call' \notin Sending /\ todo' \in Seq(StepSet)
  BY <1>0, NoCall
<1>. QED
  BY <1>0, <1>1, <1>2, CalledKeeps DEF TypeInv

LEMMA TxSetKeeps ==
  ASSUME Inv, NEW c, NEW f \in FieldNames, NEW x \in Nat, TxSet(c, f, x)
  PROVE  Inv'
<1>1. tx \in TxRec /\ tx.f \in Fields
  BY TypeFacts DEF Inv, TypeInv
<1>2. [tx.f EXCEPT ![f] = x] \in Fields
  BY <1>1 DEF Fields
<1>. DEFINE t == [tx EXCEPT !.f[f] = x]
<1>3. t \in TxRec /\ t.tx_hash = tx.tx_hash
  BY <1>1, <1>2 DEF TxRec
<1>4. TxChange(c, t)
  BY DEF TxSet
<1>. HIDE DEF t
<1>. QED
  BY <1>3, <1>4, TxChangeKeeps

LEMMA RefusedKeeps == ASSUME Inv, NEW c, NEW sync \in BOOLEAN, TxInitRefused(c, sync) PROVE Inv'
<1>. DEFINE t == [tx EXCEPT !.wallet_ptr = TRUE, !.is_sync = sync, !.f = NoFields]
<1>1. tx \in TxRec /\ NoFields \in Fields
  BY DEF Inv, TypeInv, NoFields, Fields
<1>2. t \in TxRec /\ t.tx_hash = tx.tx_hash
  BY <1>1 DEF TxRec
<1>3. TxChange(c, t)
  BY DEF TxInitRefused
<1>. HIDE DEF t
<1>. QED
  BY <1>2, <1>3, TxChangeKeeps

\* A call that sends nothing.
LEMMA OtherKeeps ==
  ASSUME Inv, NEW c, NEW op, NEW steps, Api(c, op, steps), Other(steps),
         op \notin Sending \cup {"none", "Receipt"},
         tx' \in TxRec, tx'.tx_hash = tx.tx_hash
  PROVE  Inv'
<1>0. /\ Called(c) /\ TypeInv /\ call' = op /\ todo' = steps /\ ret' = NoRet
      /\ UNCHANGED <<chain, wallet, web3, wait, rpc, node, faults, sent, acks>>
  BY DEF Api, Inv
<1>1. Onward
  BY <1>0, Unharmed
<1>2. CallInv' /\ todo' \in Seq(StepSet)
  BY <1>0 DEF CallInv, Other
<1>. QED
  BY <1>0, <1>1, <1>2, CalledKeeps DEF TypeInv

LEMMA ReceiptCallKeeps ==
  ASSUME Inv, NEW c, TxCall(c, "Receipt", <<Step("receipt")>>)
  PROVE  Inv'
<1>0. /\ Called(c) /\ TypeInv /\ call' = "Receipt" /\ todo' = <<Step("receipt")>> /\ ret' = NoRet
      /\ UNCHANGED <<chain, wallet, web3, wait, rpc, node, faults, sent, acks>> /\ UNCHANGED tx
  BY DEF TxCall, WalletCall, Api, Inv
<1>1. Onward
  BY <1>0, Unharmed
<1>2. Step("receipt") \in StepSet /\ Step("receipt").op = "receipt"
  BY PlainStep DEF PlainOps
<1>3. /\ todo' \in Seq(StepSet) /\ todo' # <<>>
      /\ \A i \in 1..Len(todo') : todo'[i].op = "receipt"
  BY <1>0, <1>2
<1>4. CallInv'
  BY <1>0, <1>3 DEF CallInv, Sending
<1>. QED
  BY <1>0, <1>1, <1>3, <1>4, CalledKeeps DEF TypeInv, Sending

\* A call that sends.
LEMMA SendingKeeps ==
  ASSUME Inv, NEW c, NEW op \in Sending, NEW steps, TxCall(c, op, steps), Start(steps, tx.is_sync, Private)
  PROVE  Inv'
<1>0. /\ Called(c) /\ TypeInv /\ call' = op /\ todo' = steps /\ ret' = NoRet
      /\ UNCHANGED <<chain, wallet, web3, wait, rpc, node, faults, sent, acks>> /\ UNCHANGED tx
  BY DEF TxCall, WalletCall, Api, Inv
<1>1. Onward
  BY <1>0, Unharmed
<1>2. todo' \in Seq(StepSet) /\ todo' # <<>> /\ Head(todo') = todo'[1]
  BY <1>0 DEF Start, SendList
<1>3. Private' = Private
  BY <1>0 DEF Private
<1>4. CallInv'
  BY <1>0, <1>2, <1>3 DEF CallInv, Sending, Start
<1>. QED
  BY <1>0, <1>1, <1>2, <1>3, <1>4, CalledKeeps DEF TypeInv, Start
----------------------------------------------------------------------------
(* The lists of steps.                                                     *)

LEMMA Group ==
  ASSUME NEW g \in GroupSet
  PROVE  SetStep(g) \in StepSet /\ SetStep(g).op = "set"
BY DEF SetStep, StepSet

LEMMA Query ==
  ASSUME NEW req \in QuerySet
  PROVE  Ask(req) \in StepSet /\ Ask(req).op = "query"
BY DEF Ask, StepSet

LEMMA OtherOne ==
  ASSUME NEW s \in StepSet, s.op \notin {"send", "fill"}
  PROVE  Other(<<s>>)
BY DEF Other

LEMMA OtherTwo ==
  ASSUME NEW s \in StepSet, NEW t \in StepSet, s.op \notin {"send", "fill"}, t.op \notin {"send", "fill"}
  PROVE  Other(<<s, t>>)
BY DEF Other

LEMMA OtherThree ==
  ASSUME NEW s \in StepSet, NEW t \in StepSet, NEW u \in StepSet,
         s.op \notin {"send", "fill"}, t.op \notin {"send", "fill"}, u.op \notin {"send", "fill"}
  PROVE  Other(<<s, t, u>>)
BY DEF Other

LEMMA OtherPlain ==
  ASSUME NEW op \in {"nonce", "gasprice", "block"}
  PROVE  /\ Step(op) \in StepSet /\ Step(op).op \notin {"send", "fill"}
         /\ Other(<<Step(op)>>)
<1>1. Step(op) \in StepSet /\ Step(op).op = op
  BY PlainStep DEF PlainOps
<1>. QED
  BY <1>1, OtherOne

LEMMA OtherGroup ==
  ASSUME NEW g \in GroupSet
  PROVE  /\ SetStep(g) \in StepSet /\ SetStep(g).op \notin {"send", "fill"}
         /\ Other(<<SetStep(g)>>)
<1>1. SetStep(g) \in StepSet /\ SetStep(g).op = "set"
  BY Group
<1>. QED
  BY <1>1, OtherOne

LEMMA ConcatFacts ==
  ASSUME NEW S, NEW s \in Seq(S), NEW t \in Seq(S)
  PROVE  /\ s \o t \in Seq(S) /\ Len(s \o t) = Len(s) + Len(t)
         /\ \A i \in 1..Len(s) : (s \o t)[i] = s[i]
         /\ \A i \in 1..Len(t) : (s \o t)[Len(s) + i] = t[i]
<1>1. s \o t \in Seq(S) /\ Len(s \o t) = Len(s) + Len(t)
  OBVIOUS
<1>2. \A i \in 1..Len(s) : (s \o t)[i] = s[i]
  OBVIOUS
<1>3. \A i \in 1..Len(t) : (s \o t)[Len(s) + i] = t[i]
  OBVIOUS
<1>. QED
  BY <1>1, <1>2, <1>3

\* TxInit with a gas price.
LEMMA PriceFirst ==
  ASSUME NEW auto \in BOOLEAN, NEW g \in GroupSet
  PROVE  Other(PriceSteps(auto) \o <<SetStep(g)>>)
<1>. DEFINE p == IF auto THEN Step("gasprice") ELSE SetStep([gasprice |-> 1])
            s == PriceSteps(auto)
            t == <<SetStep(g)>>
<1>1. [gasprice |-> 1] \in GroupSet
  BY DEF GroupSet
<1>2. p \in StepSet /\ p.op \notin {"send", "fill"} /\ s = <<p>>
  BY <1>1, OtherPlain, OtherGroup DEF PriceSteps
<1>. HIDE DEF p
<1>3. SetStep(g) \in StepSet /\ SetStep(g).op \notin {"send", "fill"}
  BY OtherGroup
<1>4. s \in Seq(StepSet) /\ Len(s) = 1 /\ s[1] = p
  BY <1>2
<1>5. t \in Seq(StepSet) /\ Len(t) = 1 /\ t[1] = SetStep(g)
  BY <1>3
<1>. HIDE DEF s, t
<1>. DEFINE q == s \o t
<1>6. /\ q \in Seq(StepSet) /\ Len(q) = Len(s) + Len(t)
      /\ \A i \in 1..Len(s) : q[i] = s[i]
      /\ \A i \in 1..Len(t) : q[Len(s) + i] = t[i]
  <2>1. s \in Seq(StepSet) /\ t \in Seq(StepSet)
    BY <1>4, <1>5
  <2>. QED
    BY <2>1, ConcatFacts
<1>. HIDE DEF q
<1>7. Len(q) = 2 /\ q[1] = p /\ q[2] = SetStep(g)
  BY <1>4, <1>5, <1>6
<1>8. \A i \in 1..Len(q) : q[i].op \notin {"send", "fill"}
  BY <1>2, <1>3, <1>7
<1>9. q # <<>>
  BY <1>6, <1>7
<1>. QED
  BY <1>6, <1>8, <1>9 DEF Other, q, s, t

LEMMA SendOps ==
  /\ Step("send") \in StepSet /\ Step("send").op = "send"
  /\ Step("receipt") \in StepSet /\ Step("receipt").op = "receipt"
  /\ Step("fill") \in StepSet /\ Step("fill").op = "fill"
  /\ Step("nonce") \in StepSet /\ Step("nonce").op = "nonce"
BY PlainStep DEF PlainOps

\* TxSend of a transaction that is not private.
LEMMA StartPlain ==
  ASSUME NEW sync \in BOOLEAN, NEW private, ~private
  PROVE  Start(IF sync THEN <<Step("send"), Step("receipt")>> ELSE <<Step("send")>>, sync, private)
<1>1. CASE sync
  BY <1>1, SendOps DEF Start, SendList
<1>2. CASE ~sync
  BY <1>2, SendOps DEF Start, SendList
<1>. QED
  BY <1>1, <1>2

LEMMA StartPrivate ==
  ASSUME NEW sync \in BOOLEAN, NEW private
  PROVE  Start(IF sync THEN <<Step("fill"), Step("send"), Step("receipt")>>
               ELSE <<Step("fill"), Step("send")>>, sync, private)
<1>1. CASE sync
  BY <1>1, SendOps DEF Start, SendList
<1>2. CASE ~sync
  BY <1>2, SendOps DEF Start, SendList
<1>. QED
  BY <1>1, <1>2

\* Transfer puts two steps before those of TxSend.
LEMMA StartTransfer ==
  ASSUME NEW sync \in BOOLEAN, NEW private, NEW send, Start(send, sync, private), NEW g \in GroupSet
  PROVE  Start(<<Step("nonce"), SetStep(g)>> \o send, sync, private)
<1>. DEFINE s == <<Step("nonce"), SetStep(g)>>
            t == s \o send
<1>1. s \in Seq(StepSet) /\ Len(s) = 2 /\ s[1].op = "nonce" /\ s[2].op = "set"
  BY SendOps, Group
<1>2. send \in Seq(StepSet) /\ Len(send) \in Nat /\ Len(send) >= 1
  BY DEF Start, SendList
<1>. HIDE DEF s
<1>0. /\ t \in Seq(StepSet) /\ Len(t) = Len(s) + Len(send)
      /\ \A i \in 1..Len(s) : t[i] = s[i]
      /\ \A i \in 1..Len(send) : t[Len(s) + i] = send[i]
  <2>1. s \in Seq(StepSet) /\ send \in Seq(StepSet)
    BY <1>1, <1>2
  <2>. QED
    BY <2>1, ConcatFacts
<1>. HIDE DEF t
<1>3. t \in Seq(StepSet) /\ Len(t) = Len(send) + 2
  BY <1>0, <1>1, <1>2
<1>4. t[1].op = "nonce" /\ t[2].op = "set"
  BY <1>0, <1>1, <1>2
<1>5. \A i \in 1..Len(send) : t[i + 2] = send[i]
  BY <1>0, <1>1, <1>2
<1>6. \A i \in 1..Len(t) : i = 1 \/ i = 2 \/ (i - 2 \in 1..Len(send) /\ t[i] = send[i - 2])
  <2>1. TAKE i \in 1..Len(t)
  <2>2. CASE i > 2
    <3>1. i - 2 \in 1..Len(send) /\ (i - 2) + 2 = i
      BY <1>2, <1>3, <2>2
    <3>. QED
      BY <3>1, <1>5
  <2>. QED
    BY <2>2, <1>2, <1>3
<1>7. \A i \in 1..Len(t) :
        /\ t[i].op = "send" <=> i = IF sync THEN Len(t) - 1 ELSE Len(t)
        /\ t[i].op = "receipt" <=> sync /\ i = Len(t)
  <2>1. TAKE i \in 1..Len(t)
  <2>2. CASE i = 1 \/ i = 2
    <3>1. sync => Len(send) > 1
      <4>1. \A n \in Nat : n >= 1 /\ n # 1 => n > 1
        OBVIOUS
      <4>2. sync => Len(send) # 1
        BY <1>2 DEF Start, SendList
      <4>. QED
        BY <4>1, <4>2, <1>2
    <3>2. t[i].op \notin {"send", "receipt"}
      BY <2>2, <1>4
    <3>3. i # (IF sync THEN Len(t) - 1 ELSE Len(t)) /\ ~(sync /\ i = Len(t))
      <4>1. CASE sync
        <5>1. Len(t) >= 4
          BY <4>1, <3>1, <1>2, <1>3
        <5>. QED
          BY <5>1, <4>1, <2>2
      <4>2. CASE ~sync
        <5>1. Len(t) >= 3
          BY <1>2, <1>3
        <5>. QED
          BY <5>1, <4>2, <2>2
      <4>. QED
        BY <4>1, <4>2
    <3>. QED
      BY <3>2, <3>3
  <2>3. CASE i - 2 \in 1..Len(send) /\ t[i] = send[i - 2]
    BY <2>3, <1>2, <1>3 DEF Start, SendList
  <2>. QED
    BY <2>2, <2>3, <1>6
<1>8. ASSUME private PROVE \A i \in 1..(Len(t) - 1) : t[i + 1].op = "send" => t[i].op = "fill"
  <2>1. SUFFICES ASSUME NEW i \in 1..(Len(t) - 1), t[i + 1].op = "send" PROVE t[i].op = "fill"
    OBVIOUS
  <2>2. i + 1 \in 1..Len(t) /\ i \in 1..Len(t) /\ i + 1 # 1
    BY <1>2, <1>3
  <2>3. i + 1 # 2
    BY <2>1, <1>4
  <2>4. (i + 1) - 2 = i - 1 /\ i - 1 \in 1..Len(send) /\ t[i + 1] = send[i - 1]
    BY <2>2, <2>3, <1>2, <1>3, <1>6
  <2>5. i - 1 # 1
    BY <1>8, <2>1, <2>4 DEF Start
  <2>6. i - 2 \in 1..(Len(send) - 1) /\ (i - 2) + 1 = i - 1 /\ t[i] = send[i - 2]
    BY <2>2, <2>4, <2>5, <1>2, <1>3, <1>6
  <2>. QED
    BY <1>8, <2>1, <2>4, <2>6 DEF Start, SendList
<1>9. t # <<>>
  BY <1>2, <1>3
<1>. QED
  BY <1>3, <1>4, <1>7, <1>8, <1>9 DEF Start, SendList, s, t

\* There is a nonce that was never used: at most MaxTx are accepted, and one
\* transaction may be on its way for every fault.  MaxTx + MaxFaults + 1 numbers
\* that differ are enough to find one among.
LEMMA NonceUnused ==
  ASSUME Inv, NEW num \in [1..(MaxTx + MaxFaults + 1) -> Nat],
         \A k, l \in 1..(MaxTx + MaxFaults + 1) : num[k] = num[l] => k = l
  PROVE  \E k \in 1..(MaxTx + MaxFaults + 1) : \A a \in node.accepted \cup node.late : Nonce(a) # num[k]
<1>. DEFINE used == node.accepted \cup node.late
            M    == MaxTx + MaxFaults
<1>0. TypeInv /\ NodeInv /\ M \in Nat /\ MaxTx \in Nat /\ MaxFaults \in Nat /\ faults.left \in Nat
  BY BoundAssumption DEF Inv, TypeInv, FaultRec
<1>1. IsFiniteSet(node.accepted) /\ IsFiniteSet(node.late)
  BY <1>0 DEF NodeInv
<1>2. /\ Cardinality(node.accepted) \in Nat /\ Cardinality(node.late) \in Nat
      /\ Cardinality(node.accepted \cap node.late) \in Nat
  BY <1>1, FS_CardinalityType, FS_Intersection
<1>3. IsFiniteSet(used) /\ Cardinality(used) <= M /\ Cardinality(used) \in Nat
  <2>1. /\ IsFiniteSet(used)
        /\ Cardinality(used) = Cardinality(node.accepted) + Cardinality(node.late)
                                 - Cardinality(node.accepted \cap node.late)
    BY <1>1, FS_Union
  <2>2. Cardinality(node.accepted) <= MaxTx /\ Cardinality(node.late) + faults.left <= MaxFaults
    BY <1>0 DEF NodeInv
  <2>3. Cardinality(used) \in Nat
    BY <2>1, FS_CardinalityType
  <2>. HIDE DEF used
  <2>. QED
    BY <2>1, <2>2, <2>3, <1>0, <1>2
<1>. HIDE DEF used
<1>4. SUFFICES ASSUME \A k \in 1..(M + 1) : \E a \in used : Nonce(a) = num[k]
               PROVE  FALSE
  BY DEF used
<1>. DEFINE f == [k \in 1..(M + 1) |-> CHOOSE a \in used : Nonce(a) = num[k]]
<1>5. f \in [1..(M + 1) -> used] /\ \A k \in 1..(M + 1) : Nonce(f[k]) = num[k]
  BY <1>4
<1>6. IsFiniteSet(1..(M + 1)) /\ Cardinality(1..(M + 1)) = M + 1
  <2>1. 1 \in Int /\ M + 1 \in Int /\ ~(1 > M + 1) /\ (M + 1) - 1 + 1 = M + 1
    BY <1>0
  <2>. HIDE DEF M
  <2>. QED
    BY <2>1, FS_Interval
<1>7. Cardinality(used) < Cardinality(1..(M + 1))
  BY <1>6, <1>0, <1>3
<1>. HIDE DEF f
<1>8. PICK x \in 1..(M + 1), y \in 1..(M + 1) : x # y /\ f[x] = f[y]
  <2>. DEFINE S == 1..(M + 1)
  <2>1. /\ IsFiniteSet(S) /\ IsFiniteSet(used) /\ f \in [S -> used]
        /\ Cardinality(used) < Cardinality(S)
    BY <1>3, <1>5, <1>6, <1>7
  <2>. HIDE DEF S
  <2>2. \E x, y \in S : x # y /\ f[x] = f[y]
    BY <2>1, FS_PigeonHole
  <2>. QED
    BY <2>2 DEF S
<1>9. num[x] = num[y]
  BY <1>5, <1>8
<1>10. x \in 1..(MaxTx + MaxFaults + 1) /\ y \in 1..(MaxTx + MaxFaults + 1)
  BY <1>8
<1>. QED
  BY <1>8, <1>9, <1>10

LEMMA FreshNonceExists == ASSUME Inv PROVE FreshNonce \in Nat
<1>. DEFINE M == MaxTx + MaxFaults + 1
            num == [k \in 1..M |-> k]
<1>1. M \in Nat
  BY BoundAssumption
<1>2. \E k \in 1..M : \A a \in node.accepted \cup node.late : Nonce(a) # num[k]
  <2>1. num \in [1..M -> Nat] /\ \A k, l \in 1..M : num[k] = num[l] => k = l
    BY <1>1
  <2>. HIDE DEF num
  <2>. QED
    BY <2>1, NonceUnused
<1>3. FreshNonce \in 1..M
  BY <1>2 DEF FreshNonce
<1>. QED
  BY <1>1, <1>3

LEMMA RandomNonceExists == ASSUME Inv PROVE RandomNonce \in Nat
<1>. DEFINE M == MaxTx + MaxFaults + 1
            num == [k \in 1..M |-> Byte * Byte * (k + 1) - 1]
            filled == {num[k] : k \in 1..M}
<1>1. M \in Nat
  BY BoundAssumption
<1>2. /\ num \in [1..M -> Nat]
      /\ \A k, l \in 1..M : num[k] = num[l] => k = l
  BY <1>1 DEF Byte
<1>0. filled = {Byte * Byte * (k + 1) - 1 : k \in 1..M}
  OBVIOUS
<1>. HIDE DEF num
<1>3. \E k \in 1..M : \A a \in node.accepted \cup node.late : Nonce(a) # num[k]
  BY <1>2, NonceUnused
<1>4. \E n \in filled : \A a \in node.accepted \cup node.late : Nonce(a) # n
  BY <1>3
<1>5. RandomNonce = CHOOSE n \in filled : \A a \in node.accepted \cup node.late : Nonce(a) # n
  BY <1>0 DEF RandomNonce
<1>6. RandomNonce \in filled
  BY <1>4, <1>5
<1>. QED
  BY <1>2, <1>6

----------------------------------------------------------------------------
(* The functions of each protocol.                                         *)

LEMMA Numbers ==
  /\ \A a \in Recipients : a \in Nat
  /\ \A d \in Payloads \cup {0} : d \in Nat
  /\ \A id \in ChainIds : id \in Nat
  /\ \A v \in Amounts \cup {0} : v \in Nat
  /\ \A n \in Explicit : n \in Nat
  /\ TxTypeData \in Nat
BY InputAssumption DEF Amounts, Explicit, TxTypeData

\* A function that asks one thing.
LEMMA QueryCallKeeps ==
  ASSUME Inv, NEW c, NEW op, NEW req \in QuerySet, WalletCall(c, op, <<Ask(req)>>),
         op \notin Sending \cup {"none", "Receipt"}
  PROVE  Inv'
<1>1. Other(<<Ask(req)>>)
  BY Query, OtherOne
<1>2. Api(c, op, <<Ask(req)>>) /\ UNCHANGED tx
  BY DEF WalletCall
<1>3. tx' \in TxRec /\ tx'.tx_hash = tx.tx_hash
  BY <1>2 DEF Inv, TypeInv
<1>. QED
  BY <1>1, <1>2, <1>3, OtherKeeps

LEMMA CallKeeps ==
  ASSUME Inv, NEW c, TxCall(c, "Call", <<Ask(web3_call(tx.f["recipient"]))>>)
  PROVE  Inv'
<1>1. tx.f["recipient"] \in Nat
  BY TypeFacts DEF Inv, Fields, FieldNames
<1>2. web3_call(tx.f["recipient"]) \in QuerySet
  BY <1>1 DEF web3_call, QuerySet
<1>. QED
  BY <1>2, QueryCallKeeps DEF TxCall, Sending

LEMMA BalanceKeeps ==
  ASSUME Inv, NEW c, WalletCall(c, "GetBalance", <<Ask(web3_getBalance(wallet.key))>>)
  PROVE  Inv'
<1>1. wallet.key = Key
  BY TypeFacts DEF Inv
<1>2. web3_getBalance(wallet.key) \in QuerySet
  BY <1>1 DEF web3_getBalance, QuerySet, Key
<1>. QED
  BY <1>2, QueryCallKeeps DEF Sending

\* A function that asks for the nonce or the gas price and keeps it.
LEMMA PlainCallKeeps ==
  ASSUME Inv, NEW c, NEW op \in {"TxSetNonce", "TxSetGasPrice"}, NEW s \in {"nonce", "gasprice"},
         TxCall(c, op, <<Step(s)>>)
  PROVE  Inv'
<1>1. Other(<<Step(s)>>)
  BY OtherPlain
<1>2. Api(c, op, <<Step(s)>>) /\ UNCHANGED tx
  BY DEF TxCall, WalletCall
<1>3. tx' \in TxRec /\ tx'.tx_hash = tx.tx_hash
  BY <1>2 DEF Inv, TypeInv
<1>. QED
  BY <1>1, <1>2, <1>3, OtherKeeps DEF Sending

LEMMA TxInitKeeps ==
  ASSUME Inv, NEW c, NEW sync \in BOOLEAN, NEW private \in BOOLEAN, NEW steps, Other(steps),
         TxInit(c, sync, private, steps)
  PROVE  Inv'
<1>1. tx \in TxRec
  BY DEF Inv, TypeInv
<1>2. NoFields \in Fields
  BY DEF NoFields, Fields
<1>3. tx' \in TxRec /\ tx'.tx_hash = tx.tx_hash
  BY <1>1, <1>2 DEF TxInit, TxRec
<1>. QED
  BY <1>3, OtherKeeps DEF TxInit, Sending

LEMMA NonceKeeps ==
  ASSUME Inv, NEW c, NonceAuto(c) \/ \E n \in Explicit : TxSet(c, "nonce", n)
  PROVE  Inv'
<1>1. CASE NonceAuto(c)
  BY <1>1, PlainCallKeeps DEF NonceAuto
<1>2. CASE \E n \in Explicit : TxSet(c, "nonce", n)
  BY <1>2, TxSetKeeps, Numbers DEF FieldNames
<1>. QED
  BY <1>1, <1>2

LEMMA PriceKeeps ==
  ASSUME Inv, NEW c,
         TxSet(c, "gasprice", 1) \/ TxCall(c, "TxSetGasPrice", <<Step("gasprice")>>)
  PROVE  Inv'
<1>1. CASE TxSet(c, "gasprice", 1)
  BY <1>1, TxSetKeeps DEF FieldNames
<1>2. CASE TxCall(c, "TxSetGasPrice", <<Step("gasprice")>>)
  BY <1>2, PlainCallKeeps
<1>. QED
  BY <1>1, <1>2

\* The functions that set a field to what they are given.
Setter(c) ==
  \/ TxSet(c, "gaslimit", 1) \/ TxSet(c, "gasprice", 1) \/ TxSet(c, "privatefor", 1)
  \/ \E a \in Recipients : TxSet(c, "recipient", a)
  \/ \E v \in Amounts \cup {0} : TxSet(c, "value", v)
  \/ \E d \in Payloads \cup {0} : TxSet(c, "data", d)
  \/ \E t \in 0..1 : TxSet(c, "txtype", t)

LEMMA SetterKeeps == ASSUME Inv, NEW c, Setter(c) PROVE Inv'
BY TxSetKeeps, Numbers DEF Setter, FieldNames

LEMMA ChainIdKeeps ==
  ASSUME Inv, NEW c, \/ WalletSet(c, wallet)
                     \/ \E id \in ChainIds : WalletSet(c, [wallet EXCEPT !.chain_id = id])
                     \/ \E e \in BOOLEAN : WalletSet(c, [wallet EXCEPT !.eip155 = e])
  PROVE  Inv'
<1>1. wallet \in WalletRec
  BY DEF Inv, TypeInv
<1>2. \A id \in ChainIds : [wallet EXCEPT !.chain_id = id] \in WalletRec
  BY <1>1 DEF WalletRec
<1>3. \A e \in BOOLEAN : [wallet EXCEPT !.eip155 = e] \in WalletRec
  BY <1>1 DEF WalletRec
<1>. QED
  BY <1>1, <1>2, <1>3, WalletSetKeeps

LEMMA InitKeeps ==
  ASSUME Inv, NEW c, WalletInit(c, ChainIds, BOOLEAN) \/ WalletDeInit(c)
  PROVE  Inv'
BY WalletInitKeeps, WalletDeInitKeeps

\* TxSend and Transfer of the protocols without private transactions.
LEMMA PlainSendKeeps ==
  ASSUME Inv, NEW c, c # "QUORUM", NEW send,
         send = IF tx.is_sync THEN <<Step("send"), Step("receipt")>> ELSE <<Step("send")>>,
         TxCall(c, "TxSend", send) \/ \E data \in Nat : Transfer(c, data, send)
  PROVE  Inv'
<1>1. tx.is_sync \in BOOLEAN
  BY DEF Inv, TypeInv, TxRec
<1>2. ~Private
  BY DEF TxCall, Transfer, WalletCall, Api, Called, Private
<1>3. Start(send, tx.is_sync, Private)
  BY <1>1, <1>2, StartPlain
<1>4. CASE TxCall(c, "TxSend", send)
  BY <1>3, <1>4, SendingKeeps DEF Sending
<1>5. ASSUME NEW data \in Nat, Transfer(c, data, send) PROVE Inv'
  <2>1. PICK v \in Amounts :
          TxCall(c, "Transfer", <<Step("nonce"), SetStep([value |-> v, data |-> data])>> \o send)
    BY <1>5 DEF Transfer
  <2>2. [value |-> v, data |-> data] \in GroupSet
    BY Numbers DEF GroupSet
  <2>3. Start(<<Step("nonce"), SetStep([value |-> v, data |-> data])>> \o send, tx.is_sync, Private)
    BY <1>1, <1>3, <2>2, StartTransfer
  <2>. QED
    BY <2>1, <2>3, SendingKeeps DEF Sending
<1>. QED
  BY <1>4, <1>5

LEMMA EthKeeps == ASSUME Inv, EthApi PROVE Inv'
<1>1. CASE BoatEthWalletInit \/ BoatEthWalletDeInit
  BY <1>1, InitKeeps DEF BoatEthWalletInit, BoatEthWalletDeInit
<1>2. CASE BoatEthTxInit
  <2>1. PICK sync \in BOOLEAN, auto \in BOOLEAN, to \in Recipients :
          TxInit("ETHEREUM", sync, FALSE,
                 PriceSteps(auto) \o <<SetStep([gaslimit |-> 1, recipient |-> to, value |-> 0])>>)
    BY <1>2 DEF BoatEthTxInit
  <2>2. [gaslimit |-> 1, recipient |-> to, value |-> 0] \in GroupSet
    BY Numbers DEF GroupSet
  <2>. QED
    BY <2>1, <2>2, PriceFirst, TxInitKeeps
<1>3. CASE BoatEthTxSetNonce
  BY <1>3, NonceKeeps DEF BoatEthTxSetNonce
<1>4. CASE BoatEthTxSetGasPrice
  BY <1>4, PriceKeeps DEF BoatEthTxSetGasPrice
<1>5. CASE BoatEthTxSetGasLimit \/ BoatEthTxSetRecipient \/ BoatEthTxSetValue
             \/ BoatEthTxSetData
  BY <1>5, SetterKeeps DEF Setter, BoatEthTxSetGasLimit, BoatEthTxSetRecipient, BoatEthTxSetValue, BoatEthTxSetData
<1>6. CASE BoatEthTxSend \/ BoatEthTransfer
  BY <1>6, PlainSendKeeps, Numbers DEF BoatEthTxSend, BoatEthTransfer, EthSend, BoatEthSendRawtxWithReceipt
<1>7. CASE BoatEthCallContractFunc
  BY <1>7, CallKeeps DEF BoatEthCallContractFunc
<1>8. CASE BoatEthGetTransactionReceipt
  BY <1>8, ReceiptCallKeeps DEF BoatEthGetTransactionReceipt
<1>9. CASE BoatEthWalletGetBalance
  BY <1>9, BalanceKeeps DEF BoatEthWalletGetBalance
<1>10. CASE BoatEthWalletChangeNodeUrl \/ BoatEthWalletChangeChainID
              \/ BoatEthWalletChangeEIP155Comp
  BY <1>10, ChainIdKeeps DEF BoatEthWalletChangeNodeUrl, BoatEthWalletChangeChainID,
     BoatEthWalletChangeEIP155Comp
<1>. QED
  BY <1>1, <1>2, <1>3, <1>4, <1>5, <1>6, <1>7, <1>8, <1>9, <1>10 DEF EthApi

LEMMA VenachainKeeps == ASSUME Inv, VenachainApi PROVE Inv'
<1>1. CASE BoatVenachainWalletInit \/ BoatVenachainWalletDeInit
  BY <1>1, InitKeeps DEF BoatVenachainWalletInit, BoatVenachainWalletDeInit
<1>2. CASE BoatVenachainTxInit
  <2>1. PICK sync \in BOOLEAN, auto \in BOOLEAN, to \in Recipients :
          TxInit("VENACHAIN", sync, FALSE,
                 PriceSteps(auto) \o <<SetStep([gaslimit |-> 1, recipient |-> to, value |-> 0])>>)
    BY <1>2 DEF BoatVenachainTxInit
  <2>2. [gaslimit |-> 1, recipient |-> to, value |-> 0] \in GroupSet
    BY Numbers DEF GroupSet
  <2>. QED
    BY <2>1, <2>2, PriceFirst, TxInitKeeps
<1>3. CASE BoatVenachainTxSetNonce
  BY <1>3, NonceKeeps DEF BoatVenachainTxSetNonce
<1>4. CASE BoatVenachainTxSetGasPrice
  BY <1>4, PriceKeeps DEF BoatVenachainTxSetGasPrice
<1>5. CASE BoatVenachainTxSetGasLimit \/ BoatVenachainTxSetRecipient \/ BoatVenachainTxSetValue
             \/ BoatVenachainTxSetData
  BY <1>5, SetterKeeps DEF Setter, BoatVenachainTxSetGasLimit, BoatVenachainTxSetRecipient, BoatVenachainTxSetValue, BoatVenachainTxSetData
<1>6. CASE BoatVenachainTxSend \/ BoatVenachainTransfer
  BY <1>6, PlainSendKeeps, Numbers DEF BoatVenachainTxSend, BoatVenachainTransfer, VenachainSend, BoatVenachainSendRawtxWithReceipt
<1>7. CASE BoatVenachainCallContractFunc
  BY <1>7, CallKeeps DEF BoatVenachainCallContractFunc
<1>8. CASE BoatVenachainGetTransactionReceipt
  BY <1>8, ReceiptCallKeeps DEF BoatVenachainGetTransactionReceipt
<1>9. CASE BoatVenachainWalletGetBalance
  BY <1>9, BalanceKeeps DEF BoatVenachainWalletGetBalance
<1>10. CASE BoatVenachainWalletChangeNodeUrl \/ BoatVenachainWalletChangeChainID
              \/ BoatVenachainWalletChangeEIP155Comp
  BY <1>10, ChainIdKeeps DEF BoatVenachainWalletChangeNodeUrl, BoatVenachainWalletChangeChainID,
     BoatVenachainWalletChangeEIP155Comp
<1>. QED
  BY <1>1, <1>2, <1>3, <1>4, <1>5, <1>6, <1>7, <1>8, <1>9, <1>10 DEF VenachainApi

LEMMA PlatONKeeps == ASSUME Inv, PlatONApi PROVE Inv'
<1>1. CASE BoatPlatONWalletInit \/ BoatPlatONWalletDeInit
  BY <1>1, InitKeeps DEF BoatPlatONWalletInit, BoatPlatONWalletDeInit
<1>2. CASE BoatPlatONTxInit
  <2>0. tx.is_sync \in BOOLEAN
    BY DEF Inv, TypeInv, TxRec
  <2>1. SUFFICES ASSUME ~TxInitRefused("PLATON", tx.is_sync) PROVE Inv'
    BY <2>0, RefusedKeeps
  <2>2. PICK sync \in BOOLEAN, auto \in BOOLEAN, to \in Recipients :
          TxInit("PLATON", sync, FALSE,
                 PriceSteps(auto) \o <<SetStep([gaslimit |-> 1, recipient |-> to, value |-> 0, recipientbech32 |-> to])>>)
    BY <1>2, <2>1 DEF BoatPlatONTxInit
  <2>3. [gaslimit |-> 1, recipient |-> to, value |-> 0, recipientbech32 |-> to] \in GroupSet
    BY Numbers DEF GroupSet
  <2>. QED
    BY <2>2, <2>3, PriceFirst, TxInitKeeps
<1>3. CASE BoatPlatONTxSetNonce
  BY <1>3, NonceKeeps DEF BoatPlatONTxSetNonce
<1>4. CASE BoatPlatONTxSetGasPrice
  BY <1>4, PriceKeeps DEF BoatPlatONTxSetGasPrice
<1>5. CASE BoatPlatONTxSetGasLimit \/ BoatPlatONTxSetRecipient \/ BoatPlatONTxSetValue
             \/ BoatPlatONTxSetData
  BY <1>5, SetterKeeps DEF Setter, BoatPlatONTxSetGasLimit, BoatPlatONTxSetRecipient, BoatPlatONTxSetValue, BoatPlatONTxSetData
<1>6. CASE BoatPlatONTxSend \/ BoatPlatONTransfer
  BY <1>6, PlainSendKeeps, Numbers DEF BoatPlatONTxSend, BoatPlatONTransfer, PlatONSend, BoatPlatONSendRawtxWithReceipt
<1>7. CASE BoatPlatONCallContractFunc
  <2>1. tx.f["recipientbech32"] \in Nat
    BY TypeFacts DEF Inv, Fields, FieldNames
  <2>2. platon_web3_call(tx.f["recipientbech32"]) \in QuerySet
    BY <2>1 DEF platon_web3_call, QuerySet
  <2>. QED
    BY <1>7, <2>2, QueryCallKeeps DEF BoatPlatONCallContractFunc, TxCall, Sending
<1>8. CASE BoatPlatONGetTransactionReceipt
  BY <1>8, ReceiptCallKeeps DEF BoatPlatONGetTransactionReceipt
<1>9. CASE BoatPlatONWalletGetBalance
  BY <1>9, BalanceKeeps DEF BoatPlatONWalletGetBalance
<1>. QED
  BY <1>1, <1>2, <1>3, <1>4, <1>5, <1>6, <1>7, <1>8, <1>9 DEF PlatONApi

LEMMA PlatoneKeeps == ASSUME Inv, PlatoneApi PROVE Inv'
<1>1. CASE BoatPlatoneWalletInit \/ BoatPlatoneWalletDeInit
  BY <1>1, InitKeeps DEF BoatPlatoneWalletInit, BoatPlatoneWalletDeInit
<1>2. CASE BoatPlatoneTxInit
  <2>1. PICK sync \in BOOLEAN, auto \in BOOLEAN, to \in Recipients :
          TxInit("PLATONE", sync, FALSE,
                 PriceSteps(auto) \o <<SetStep([gaslimit |-> 1, recipient |-> to, value |-> 0, txtype |-> 0])>>)
    BY <1>2 DEF BoatPlatoneTxInit
  <2>2. [gaslimit |-> 1, recipient |-> to, value |-> 0, txtype |-> 0] \in GroupSet
    BY Numbers DEF GroupSet
  <2>. QED
    BY <2>1, <2>2, PriceFirst, TxInitKeeps
<1>3. CASE BoatPlatoneTxSetNonce
  BY <1>3, NonceKeeps DEF BoatPlatoneTxSetNonce
<1>4. CASE BoatPlatoneTxSetGasPrice
  BY <1>4, PriceKeeps DEF BoatPlatoneTxSetGasPrice
<1>5. CASE BoatPlatoneTxSetGasLimit \/ BoatPlatoneTxSetRecipient \/ BoatPlatoneTxSetValue
             \/ BoatPlatoneTxSetData \/ BoatPlatoneTxSetTxtype
  BY <1>5, SetterKeeps DEF Setter, BoatPlatoneTxSetGasLimit, BoatPlatoneTxSetRecipient, BoatPlatoneTxSetValue, BoatPlatoneTxSetData, BoatPlatoneTxSetTxtype
<1>6. CASE BoatPlatoneTxSend \/ BoatPlatoneTransfer
  BY <1>6, PlainSendKeeps, Numbers DEF BoatPlatoneTxSend, BoatPlatoneTransfer, PlatoneSend, BoatPlatoneSendRawtxWithReceipt
<1>7. CASE BoatPlatoneCallContractFunc
  BY <1>7, CallKeeps DEF BoatPlatoneCallContractFunc
<1>8. CASE BoatPlatoneGetTransactionReceipt
  BY <1>8, ReceiptCallKeeps DEF BoatPlatoneGetTransactionReceipt
<1>9. CASE BoatPlatoneWalletGetBalance
  BY <1>9, BalanceKeeps DEF BoatPlatoneWalletGetBalance
<1>10. CASE BoatPlatoneWalletChangeNodeUrl \/ BoatPlatoneWalletChangeChainID
              \/ BoatPlatoneWalletChangeEIP155Comp
  BY <1>10, ChainIdKeeps DEF BoatPlatoneWalletChangeNodeUrl, BoatPlatoneWalletChangeChainID,
     BoatPlatoneWalletChangeEIP155Comp
<1>11. CASE BoatPlatoneGetNodesInfo
  <2>. DEFINE steps == web3_platone_call_getNodesManagerAddr
  <2>1. web3_call(0) \in QuerySet
    BY DEF web3_call, QuerySet
  <2>2. Other(steps)
    BY <2>1, Query, OtherTwo DEF web3_platone_call_getNodesManagerAddr
  <2>3. Api("PLATONE", "GetNodesInfo", steps) /\ UNCHANGED tx
    BY <1>11 DEF BoatPlatoneGetNodesInfo, TxCall, WalletCall
  <2>4. tx' \in TxRec /\ tx'.tx_hash = tx.tx_hash
    BY <2>3 DEF Inv, TypeInv
  <2>. QED
    BY <2>2, <2>3, <2>4, OtherKeeps DEF Sending
<1>. QED
  BY <1>1, <1>2, <1>3, <1>4, <1>5, <1>6, <1>7, <1>8, <1>9, <1>10, <1>11 DEF PlatoneApi

\* A private transaction is filled first, in TxSend and in Transfer, whether
\* its receipt is waited for or not.
LEMMA QuorumSendStart == ASSUME Inv, chain = "QUORUM" PROVE Start(QuorumSend, tx.is_sync, Private)
<1>1. tx.is_sync \in BOOLEAN /\ tx.is_private \in BOOLEAN
  BY DEF Inv, TypeInv, TxRec
<1>2. CASE tx.is_private
  <2>1. <<Step("fill"), Step("send")>> \o <<Step("receipt")>> =
          <<Step("fill"), Step("send"), Step("receipt")>>
    <3>. DEFINE s == <<Step("fill"), Step("send")>>
                r == <<Step("receipt")>>
                q == s \o r
                t == <<Step("fill"), Step("send"), Step("receipt")>>
    <3>1. s \in Seq(StepSet) /\ r \in Seq(StepSet) /\ t \in Seq(StepSet)
      BY SendOps
    <3>2. Len(s) = 2 /\ Len(r) = 1 /\ Len(t) = 3
      OBVIOUS
    <3>3. s[1] = t[1] /\ s[2] = t[2] /\ r[1] = t[3]
      OBVIOUS
    <3>. HIDE DEF s, r, t
    <3>4. /\ q \in Seq(StepSet) /\ Len(q) = Len(s) + Len(r)
          /\ \A i \in 1..Len(s) : q[i] = s[i]
          /\ \A i \in 1..Len(r) : q[Len(s) + i] = r[i]
      BY <3>1, ConcatFacts
    <3>. HIDE DEF q
    <3>5. Len(q) = 3 /\ q[1] = t[1] /\ q[2] = t[2] /\ q[3] = t[3]
      BY <3>2, <3>3, <3>4
    <3>6. \A i \in 1..Len(q) : q[i] = t[i]
      BY <3>5
    <3>7. q = t
      BY <3>1, <3>2, <3>4, <3>5, <3>6, SeqEqual
    <3>. QED
      BY <3>7 DEF q, s, r, t
  <2>2. QuorumSend = IF tx.is_sync THEN <<Step("fill"), Step("send"), Step("receipt")>>
                     ELSE <<Step("fill"), Step("send")>>
    BY <1>2, <2>1 DEF QuorumSend, BoatQuorumSendRawtxWithReceipt
  <2>. QED
    BY <1>1, <2>2, StartPrivate
<1>3. CASE ~tx.is_private
  <2>1. <<Step("send")>> \o <<Step("receipt")>> = <<Step("send"), Step("receipt")>>
    <3>. DEFINE s == <<Step("send")>>
                r == <<Step("receipt")>>
                q == s \o r
                t == <<Step("send"), Step("receipt")>>
    <3>1. s \in Seq(StepSet) /\ r \in Seq(StepSet) /\ t \in Seq(StepSet)
      BY SendOps
    <3>2. Len(s) = 1 /\ Len(r) = 1 /\ Len(t) = 2
      OBVIOUS
    <3>3. s[1] = t[1] /\ r[1] = t[2]
      OBVIOUS
    <3>. HIDE DEF s, r, t
    <3>4. /\ q \in Seq(StepSet) /\ Len(q) = Len(s) + Len(r)
          /\ \A i \in 1..Len(s) : q[i] = s[i]
          /\ \A i \in 1..Len(r) : q[Len(s) + i] = r[i]
      BY <3>1, ConcatFacts
    <3>. HIDE DEF q
    <3>5. Len(q) = 2 /\ q[1] = t[1] /\ q[2] = t[2]
      BY <3>2, <3>3, <3>4
    <3>6. \A i \in 1..Len(q) : q[i] = t[i]
      BY <3>5
    <3>7. q = t
      BY <3>1, <3>2, <3>4, <3>5, <3>6, SeqEqual
    <3>. QED
      BY <3>7 DEF q, s, r, t
  <2>2. QuorumSend = IF tx.is_sync THEN <<Step("send"), Step("receipt")>> ELSE <<Step("send")>>
    BY <1>3, <2>1 DEF QuorumSend, BoatQuorumSendRawtxWithReceipt
  <2>3. ~Private
    BY <1>3 DEF Private
  <2>. QED
    BY <1>1, <2>2, <2>3, StartPlain
<1>. QED
  BY <1>1, <1>2, <1>3

LEMMA QuorumKeeps == ASSUME Inv, QuorumApi PROVE Inv'
<1>1. CASE BoatQuorumWalletInit \/ BoatQuorumWalletDeInit
  BY <1>1, InitKeeps DEF BoatQuorumWalletInit, BoatQuorumWalletDeInit
<1>2. CASE BoatQuorumTxInit
  <2>1. PICK sync \in BOOLEAN, private \in BOOLEAN, to \in Recipients :
          TxInit("QUORUM", sync, private,
                 <<SetStep([gaslimit |-> 1, recipient |-> to,
                            privatefor |-> IF private THEN 1 ELSE 0, value |-> 0])>>)
    BY <1>2 DEF BoatQuorumTxInit
  <2>2. [gaslimit |-> 1, recipient |-> to, privatefor |-> IF private THEN 1 ELSE 0, value |-> 0] \in GroupSet
    BY Numbers DEF GroupSet
  <2>. QED
    BY <2>1, <2>2, OtherGroup, TxInitKeeps
<1>3. CASE BoatQuorumTxSetNonce
  BY <1>3, NonceKeeps DEF BoatQuorumTxSetNonce
<1>4. CASE BoatQuorumTxSetGasLimit \/ BoatQuorumTxSetRecipient \/ BoatQuorumTxSetValue
             \/ BoatQuorumTxSetData \/ BoatQuorumTxSetPrivateFor
  BY <1>4, SetterKeeps DEF Setter, BoatQuorumTxSetGasLimit, BoatQuorumTxSetRecipient, BoatQuorumTxSetValue,
     BoatQuorumTxSetData, BoatQuorumTxSetPrivateFor
<1>5. CASE BoatQuorumTxSend
  <2>1. TxCall("QUORUM", "TxSend", QuorumSend) /\ chain = "QUORUM"
    BY <1>5 DEF BoatQuorumTxSend, TxCall, WalletCall, Api, Called
  <2>. QED
    BY <2>1, QuorumSendStart, SendingKeeps DEF Sending
<1>6. CASE BoatQuorumTransfer
  <2>1. PICK v \in Amounts :
          TxCall("QUORUM", "Transfer", <<Step("nonce"), SetStep([value |-> v, data |-> 0])>> \o QuorumSend)
    BY <1>6 DEF BoatQuorumTransfer, Transfer
  <2>2. [value |-> v, data |-> 0] \in GroupSet
    BY Numbers DEF GroupSet
  <2>3. chain = "QUORUM" /\ tx.is_sync \in BOOLEAN
    BY <2>1 DEF TxCall, WalletCall, Api, Called, Inv, TypeInv, TxRec
  <2>4. Start(<<Step("nonce"), SetStep([value |-> v, data |-> 0])>> \o QuorumSend, tx.is_sync, Private)
    BY <2>2, <2>3, QuorumSendStart, StartTransfer
  <2>. QED
    BY <2>1, <2>4, SendingKeeps DEF Sending
<1>7. CASE BoatQuorumCallContractFunc
  BY <1>7, CallKeeps DEF BoatQuorumCallContractFunc
<1>8. CASE BoatQuorumGetTransactionReceipt
  BY <1>8, ReceiptCallKeeps DEF BoatQuorumGetTransactionReceipt
<1>9. CASE BoatQuorumWalletGetBalance
  BY <1>9, BalanceKeeps DEF BoatQuorumWalletGetBalance
<1>10. CASE BoatQuorumWalletSetChainId
  BY <1>10, ChainIdKeeps DEF BoatQuorumWalletSetChainId
<1>. QED
  BY <1>1, <1>2, <1>3, <1>4, <1>5, <1>6, <1>7, <1>8, <1>9, <1>10 DEF QuorumApi

LEMMA BlockNumberKeeps ==
  ASSUME Inv, NEW c, TxCall(c, "GetBlockNumber", <<Ask(web3_cita_getBlockNumber)>>)
  PROVE  Inv'
<1>1. web3_cita_getBlockNumber \in QuerySet
  BY DEF web3_cita_getBlockNumber, QuerySet
<1>. QED
  BY <1>1, QueryCallKeeps DEF TxCall, Sending

LEMMA OwnNonceKeeps ==
  ASSUME Inv, NEW c, \E n \in Explicit \cup {FreshNonce} : TxSet(c, "nonce", n)
  PROVE  Inv'
BY TxSetKeeps, Numbers, FreshNonceExists DEF FieldNames

LEMMA FiscobcosKeeps == ASSUME Inv, FiscobcosApi PROVE Inv'
<1>1. CASE BoatFiscobcosWalletInit \/ BoatFiscobcosWalletDeInit
  <2>1. {NODE_CHAIN_ID} \in SUBSET ChainIds /\ {FALSE} \in SUBSET BOOLEAN
    BY InputAssumption
  <2>. QED
    BY <1>1, <2>1, WalletInitKeeps, WalletDeInitKeeps DEF BoatFiscobcosWalletInit, BoatFiscobcosWalletDeInit
<1>2. CASE BoatFiscobcosTxInit
  <2>1. SUFFICES ASSUME \A sync \in BOOLEAN : ~TxInitRefused("FISCOBCOS", sync) PROVE Inv'
    BY RefusedKeeps
  <2>2. PICK sync \in BOOLEAN, to \in Recipients, id \in ChainIds :
          TxInit("FISCOBCOS", sync, FALSE,
                 <<SetStep([gasprice |-> 1, gaslimit |-> 1, recipient |-> to, chainid |-> id, groupid |-> 1]),
                   Step("block"), SetStep([value |-> 0])>>)
    BY <1>2, <2>1 DEF BoatFiscobcosTxInit
  <2>3. /\ [gasprice |-> 1, gaslimit |-> 1, recipient |-> to, chainid |-> id, groupid |-> 1] \in GroupSet
        /\ [value |-> 0] \in GroupSet
    BY Numbers DEF GroupSet
  <2>4. Other(<<SetStep([gasprice |-> 1, gaslimit |-> 1, recipient |-> to, chainid |-> id, groupid |-> 1]),
                Step("block"), SetStep([value |-> 0])>>)
    BY <2>3, OtherGroup, OtherPlain, OtherThree
  <2>. QED
    BY <2>2, <2>4, TxInitKeeps
<1>3. CASE BoatFiscobcosTxSetNonce
  BY <1>3, OwnNonceKeeps DEF BoatFiscobcosTxSetNonce
<1>4. CASE BoatFiscobcosTxSetGasPrice \/ BoatFiscobcosTxSetGasLimit \/ BoatFiscobcosTxSetRecipient
             \/ BoatFiscobcosTxSetValue \/ BoatFiscobcosTxSetData
  BY <1>4, SetterKeeps DEF Setter, BoatFiscobcosTxSetGasPrice, BoatFiscobcosTxSetGasLimit,
     BoatFiscobcosTxSetRecipient, BoatFiscobcosTxSetValue, BoatFiscobcosTxSetData
<1>5. CASE BoatFiscobcosTxSend
  BY <1>5, PlainSendKeeps DEF BoatFiscobcosTxSend, FiscobcosSend, BoatFiscobcosSendRawtxWithReceipt
<1>6. CASE BoatFiscobcosCallContractFunc
  BY <1>6, CallKeeps DEF BoatFiscobcosCallContractFunc, web3_fiscobcos_call, web3_call
<1>7. CASE BoatFiscobcosGetTransactionReceipt
  BY <1>7, ReceiptCallKeeps DEF BoatFiscobcosGetTransactionReceipt
<1>8. CASE BoatFiscobcosGetBlockNumber
  BY <1>8, BlockNumberKeeps DEF BoatFiscobcosGetBlockNumber, web3_fiscobcos_getBlockNumber, web3_cita_getBlockNumber
<1>. QED
  BY <1>1, <1>2, <1>3, <1>4, <1>5, <1>6, <1>7, <1>8 DEF FiscobcosApi

\* The bytes behind those that a nonce sets are kept.
LEMMA NonceBufType ==
  ASSUME NEW b \in Nat, NEW n \in Nat
  PROVE  NonceBuf(b, n) \in Nat /\ NonceLen(n) \in {1, 2, 16}
<1>1. CASE n < Byte
  BY <1>1 DEF NonceBuf, NonceLen, Byte
<1>2. CASE n >= Byte /\ n < Byte * Byte
  <2>1. NonceLen(n) = 2
    BY <1>2 DEF NonceLen, Byte
  <2>2. NonceBuf(b, n) = (n \div Byte) + Byte * (n % Byte) + Byte * Byte * (b \div (Byte * Byte))
    BY <2>1 DEF NonceBuf
  <2>. QED
    BY <2>1, <2>2 DEF Byte
<1>3. CASE n >= Byte * Byte
  <2>1. NonceLen(n) = 16
    BY <1>3 DEF NonceLen, Byte
  <2>2. NonceBuf(b, n) = n
    BY <2>1 DEF NonceBuf
  <2>. QED
    BY <2>1, <2>2
<1>. QED
  BY <1>1, <1>2, <1>3 DEF Byte

LEMMA CitaNonceType == ASSUME NEW f \in Fields, NEW n \in Nat PROVE CitaNonce(f, n) \in Fields
<1>1. f["noncebuf"] \in Nat /\ f["longest"] \in Nat
  BY DEF Fields, FieldNames
<1>. DEFINE b == NonceBuf(f["noncebuf"], n)
            l == IF NonceLen(n) > f["longest"] THEN NonceLen(n) ELSE f["longest"]
<1>2. b \in Nat /\ l \in Nat
  <2>1. b \in Nat /\ NonceLen(n) \in {1, 2, 16}
    BY <1>1, NonceBufType
  <2>. HIDE DEF b
  <2>. QED
    BY <1>1, <2>1
<1>3. CitaNonce(f, n) = [f EXCEPT !["nonce"] = n, !["noncebuf"] = b, !["longest"] = l]
  <2>1. /\ DOMAIN f = FieldNames /\ f \in [FieldNames -> Nat]
        /\ "nonce" \in FieldNames /\ "noncebuf" \in FieldNames /\ "longest" \in FieldNames
        /\ "nonce" # "noncebuf" /\ "nonce" # "longest" /\ "noncebuf" # "longest"
    BY DEF Fields, FieldNames
  <2>. QED
    BY <2>1, Zenon DEF CitaNonce
<1>. HIDE DEF b, l
<1>. QED
  BY <1>2, <1>3 DEF Fields

LEMMA CitaKeeps == ASSUME Inv, CitaApi PROVE Inv'
<1>1. CASE BoatCitaWalletInit \/ BoatCitaWalletDeInit
  <2>1. ChainIds \in SUBSET ChainIds /\ {FALSE} \in SUBSET BOOLEAN
    OBVIOUS
  <2>. QED
    BY <1>1, <2>1, WalletInitKeeps, WalletDeInitKeeps DEF BoatCitaWalletInit, BoatCitaWalletDeInit
<1>2. CASE BoatCitaTxInit
  <2>1. SUFFICES ASSUME \A sync \in BOOLEAN : ~TxInitRefused("CITA", sync) PROVE Inv'
    BY RefusedKeeps
  <2>2. PICK sync \in BOOLEAN, to \in Recipients :
          TxInit("CITA", sync, FALSE,
                 <<SetStep([recipient |-> to, gaslimit |-> 1]), Step("block"), SetStep([value |-> 0])>>)
    BY <1>2, <2>1 DEF BoatCitaTxInit
  <2>3. [recipient |-> to, gaslimit |-> 1] \in GroupSet /\ [value |-> 0] \in GroupSet
    BY Numbers DEF GroupSet
  <2>4. Other(<<SetStep([recipient |-> to, gaslimit |-> 1]), Step("block"), SetStep([value |-> 0])>>)
    BY <2>3, OtherGroup, OtherPlain, OtherThree
  <2>. QED
    BY <2>2, <2>4, TxInitKeeps
<1>3. CASE BoatCitaTxSetNonce
  <2>1. PICK n \in Explicit \cup {Byte, RandomNonce} : TxChange("CITA", [tx EXCEPT !.f = CitaNonce(@, n)])
    BY <1>3 DEF BoatCitaTxSetNonce
  <2>2. n \in Nat /\ tx \in TxRec /\ tx.f \in Fields
    BY Numbers, RandomNonceExists, TypeFacts DEF Byte, Inv, TypeInv
  <2>3. CitaNonce(tx.f, n) \in Fields
    BY <2>2, CitaNonceType
  <2>. DEFINE t == [tx EXCEPT !.f = CitaNonce(@, n)]
  <2>4. t \in TxRec /\ t.tx_hash = tx.tx_hash
    BY <2>2, <2>3 DEF TxRec
  <2>. HIDE DEF t
  <2>5. TxChange("CITA", t)
    BY <2>1 DEF t
  <2>. QED
    BY <2>4, <2>5, TxChangeKeeps
<1>4. CASE BoatCitaTxSetQuotaLimit \/ BoatCitaTxSetRecipient \/ BoatCitaTxSetValue \/ BoatCitaTxSetData
  BY <1>4, SetterKeeps DEF Setter, BoatCitaTxSetQuotaLimit, BoatCitaTxSetRecipient, BoatCitaTxSetValue,
     BoatCitaTxSetData
<1>5. CASE BoatCitaTxSend
  BY <1>5, PlainSendKeeps DEF BoatCitaTxSend, CitaSend, BoatCitaSendRawtxWithReceipt
<1>6. CASE BoatCitaCallContractFunc
  BY <1>6, CallKeeps DEF BoatCitaCallContractFunc, web3_cita_call, web3_call
<1>7. CASE BoatCitaGetTransactionReceipt
  BY <1>7, ReceiptCallKeeps DEF BoatCitaGetTransactionReceipt
<1>8. CASE BoatCitaGetBlockNumber
  BY <1>8, BlockNumberKeeps DEF BoatCitaGetBlockNumber
<1>. QED
  BY <1>1, <1>2, <1>3, <1>4, <1>5, <1>6, <1>7, <1>8 DEF CitaApi

----------------------------------------------------------------------------
(* The invariant holds.                                                    *)

LEMMA InitInv == ASSUME Init PROVE Inv
<1>0. /\ wallet = Closed /\ web3 = [json |-> 0, result |-> 0] /\ tx = NewTx
      /\ call = "none" /\ todo = <<>> /\ ret = NoRet /\ rpc = NoRpc
      /\ node = NoNode /\ sent = NoRaw /\ acks = 0 /\ tx.tx_hash = NoHash
  BY InitTypes DEF Init
<1>1. TypeInv
  <2>1. node \in NodeRec
    BY <1>0, BoundAssumption DEF NoNode, NodeRec
  <2>2. faults \in FaultRec
    BY BoundAssumption DEF Init, FaultRec
  <2>3. wait \in 1..WAIT_PENDING_TX_TIMEOUT
    BY WaitAssumption DEF Init
  <2>4. chain \in Chains /\ todo \in Seq(StepSet)
    BY DEF Init
  <2>. QED
    BY <1>0, <2>1, <2>2, <2>3, <2>4, InitTypes DEF TypeInv
<1>2. CallInv
  BY <1>0 DEF CallInv, Sending
<1>3. RpcInv /\ FillInv
  BY <1>0 DEF RpcInv, FillInv, At
<1>4. NodeInv
  <2>1. Mined = {} /\ node.accepted = {} /\ node.late = {} /\ node.pool = {} /\ Len(node.ledger) = 0
    BY <1>0 DEF NoNode, Mined
  <2>2. IsFiniteSet({}) /\ Cardinality({}) = 0
    BY FS_EmptySet
  <2>3. faults.left = MaxFaults
    BY DEF Init
  <2>. QED
    BY <2>1, <2>2, <2>3, BoundAssumption DEF NodeInv
<1>5. HashInv /\ RetInv
  BY <1>0 DEF HashInv, RetInv, Sending, NoRet
<1>6. AckInv
  <2>1. node.accepted = {} /\ ~Acked
    BY <1>0 DEF NoNode, Acked, Sending
  <2>. QED
    BY <2>1, <1>0, FS_EmptySet DEF AckInv
<1>. QED
  BY <1>1, <1>2, <1>3, <1>4, <1>5, <1>6 DEF Inv

\* A step that puts a transaction together and hands it to the node.
LEMMA SendsAreSendOf ==
  ASSUME Inv, Sends, ~CitaSendRawtx_NoPackBuffer
  PROVE  \E f, g, raw, hash : SendOf(f, g, raw, hash)
<1>1. TypeInv
  BY DEF Inv
<1>. QED
  BY <1>1, PlainSendOf, PlatoneSendOf, QuorumSendOf, FiscobcosSendOf, CitaSendOf DEF Sends

LEMMA StutterKeeps == ASSUME Inv, UNCHANGED vars PROVE Inv'
BY DEF vars, client, Inv, TypeInv, CallInv, RpcInv, FillInv, NodeInv, HashInv, RetInv, AckInv,
       Private, At, Perfect, Acked, ReqOK, AnsOK, GoodRaw, Mined, Nonce

LEMMA NextInv == ASSUME Inv, [Next]_vars PROVE Inv'
<1>1. CASE Application
  BY <1>1, EthKeeps, VenachainKeeps, PlatONKeeps, PlatoneKeeps, QuorumKeeps, FiscobcosKeeps, CitaKeeps
     DEF Application
<1>2. CASE Client
  <2>1. CASE Sends /\ ~CitaSendRawtx_NoPackBuffer
    BY <2>1, SendsAreSendOf, SendKeeps
  <2>. QED
    BY <1>2, <2>1, SetKeeps, NoPackBufferKeeps, RequestsKeep, AnswersKeep DEF Client, Requests, TakesAnswer
<1>3. CASE Network
  BY <1>3, NetworkKeeps DEF Network
<1>4. CASE Node
  BY <1>4, LateKeeps, MineKeeps, BlockKeeps DEF Node
<1>5. CASE UNCHANGED vars
  BY <1>5, StutterKeeps
<1>. QED
  BY <1>1, <1>2, <1>3, <1>4, <1>5 DEF Next

LEMMA WalletInv == Spec => []Inv
<1>1. Init => Inv
  BY InitInv
<1>2. Inv /\ [Next]_vars => Inv'
  BY NextInv
<1>. QED
  BY <1>1, <1>2, PTL DEF Spec

----------------------------------------------------------------------------
(* The theorems.                                                           *)

\* The wallet, the transaction, the running call and the node stay what they
\* are declared as: the JSON buffer within its two sizes, the time left in the
\* receipt loop never 0 or below, what is mined or pooled among what was taken.
THEOREM WalletTypeOK == Spec => []TypeOK
<1>1. Inv => TypeOK
  <2>1. SUFFICES ASSUME Inv PROVE TypeOK
    OBVIOUS
  <2>2. /\ chain \in AllChains /\ wallet \in WalletRec /\ web3 \in Web3Rec /\ tx \in TxRec
        /\ wait \in 1..WAIT_PENDING_TX_TIMEOUT /\ node \in NodeRec /\ faults \in FaultRec
    BY <2>1, TypeFacts DEF Inv, TypeInv
  <2>3. /\ DOMAIN tx = {"wallet_ptr", "is_sync", "is_private", "tx_hash", "f"}
        /\ tx.wallet_ptr \in BOOLEAN /\ tx.is_sync \in BOOLEAN /\ tx.is_private \in BOOLEAN
        /\ tx.f \in [FieldNames -> Nat]
    BY <2>2 DEF TxRec, Fields
  <2>4. call = "none" <=> todo = <<>>
    BY <2>1 DEF Inv, CallInv
  <2>5. rpc.st \in {"idle", "sent", "answered"}
    BY <2>1 DEF Inv, RpcInv, NoRpc
  <2>6. node.pool \subseteq node.accepted /\ Mined \subseteq node.accepted /\ Cardinality(node.accepted) <= MaxTx
    BY <2>1 DEF Inv, NodeInv
  <2>7. node.height \in 0..MaxHeight /\ faults.left \in 0..MaxFaults /\ faults.seen \subseteq FaultKinds
    BY <2>2 DEF NodeRec, FaultRec
  <2>. QED
    BY <2>2, <2>3, <2>4, <2>5, <2>6, <2>7 DEF TypeOK, WalletRec, Web3Rec
<1>. QED
  BY <1>1, WalletInv, PTL

\* A synchronous TxSend or Transfer, or a GetTransactionReceipt, reports success
\* only of a transaction in the ledger, and a send only of its own.
THEOREM WalletSuccessMeansMined == Spec => []SuccessMeansMined
<1>1. Inv => SuccessMeansMined
  BY DEF Inv, RetInv, SuccessMeansMined, Returned, Sending, Perfect
<1>. QED
  BY <1>1, WalletInv, PTL

\* TX_PENDING, which GetTransactionReceipt returns when its time is up, is only
\* said of a transaction the node has taken.
THEOREM WalletPendingMeansAccepted == Spec => []PendingMeansAccepted
<1>1. Inv => PendingMeansAccepted
  BY DEF Inv, RetInv, PendingMeansAccepted, Returned, Sending
<1>. QED
  BY <1>1, WalletInv, PTL

\* Between calls tx_hash is empty or the hash of the last transaction that
\* SendRawtx put together, except for CITA, which does not clear it.
THEOREM WalletHashIsOfLastSend == Spec => []HashIsOfLastSend
<1>1. Inv => HashIsOfLastSend
  BY DEF Inv, HashInv, HashIsOfLastSend
<1>. QED
  BY <1>1, WalletInv, PTL

\* Whatever SendRawtx signs is recovered to the wallet's address by the node,
\* under every chain id and EIP-155 setting, unless CitaSendRawtx copied a short
\* r or s; no transaction with such a signature is accepted.
THEOREM WalletSenderRecovers == Spec => []SenderRecovers
<1>1. Inv => SenderRecovers
  BY DEF Inv, HashInv, NodeInv, SenderRecovers, Raws, GoodRaw, Recovered
<1>. QED
  BY <1>1, WalletInv, PTL

\* As many transactions were accepted as calls of TxSend and Transfer
\* reported success, whatever was lost, late, refused or tried again.
THEOREM WalletEverySuccessIsATransaction == Spec => []EverySuccessIsATransaction
<1>1. Inv => EverySuccessIsATransaction
  <2>1. SUFFICES ASSUME Inv, Perfect PROVE acks <= Cardinality(node.accepted)
    BY DEF EverySuccessIsATransaction, Perfect
  <2>2. acks \in Nat /\ Cardinality(node.accepted) \in Nat
    BY <2>1, FS_CardinalityType DEF Inv, TypeInv, NodeInv
  <2>. QED
    BY <2>1, <2>2 DEF Inv, AckInv
<1>. QED
  BY <1>1, WalletInv, PTL

----------------------------------------------------------------------------
(* What a step puts into a raw transaction.                                *)

LEMMA ApiKeepsSent == ASSUME NEW c, NEW op, NEW s, Api(c, op, s) PROVE sent' = sent /\ chain' = chain
BY DEF Api
LEMMA TxSetKeepsSent == ASSUME NEW c, NEW f, NEW x, TxSet(c, f, x) PROVE sent' = sent /\ chain' = chain
BY DEF TxSet, TxChange
LEMMA TxChangeKeepsSent == ASSUME NEW c, NEW t, TxChange(c, t) PROVE sent' = sent /\ chain' = chain
BY DEF TxChange
LEMMA WalletSetKeepsSent == ASSUME NEW c, NEW w, WalletSet(c, w) PROVE sent' = sent /\ chain' = chain
BY DEF WalletSet
LEMMA WalletInitKeepsSent == ASSUME NEW c, NEW ids, NEW e, WalletInit(c, ids, e) PROVE sent' = sent /\ chain' = chain
BY DEF WalletInit
LEMMA WalletDeInitDropsSent == ASSUME NEW c, WalletDeInit(c) PROVE sent' = NoRaw /\ chain' = chain
BY DEF WalletDeInit

\* No function of the API puts a transaction together before its first step, or
\* changes the protocol of the wallet.
LEMMA ApplicationSendsNothing == ASSUME Application PROVE sent' \in {sent, NoRaw} /\ chain' = chain
<1>. USE ApiKeepsSent, TxSetKeepsSent, TxChangeKeepsSent, WalletSetKeepsSent, WalletInitKeepsSent,
         WalletDeInitDropsSent
     DEF TxInit, TxInitRefused, WalletCall, TxCall, NonceAuto, Transfer
<1>1. CASE EthApi
  BY <1>1 DEF EthApi, BoatEthWalletInit, BoatEthWalletDeInit, BoatEthTxInit, BoatEthTxSetNonce,
       BoatEthTxSetGasPrice, BoatEthTxSetGasLimit, BoatEthTxSetRecipient, BoatEthTxSetValue,
       BoatEthTxSetData, BoatEthTxSend, BoatEthTransfer, BoatEthCallContractFunc,
       BoatEthGetTransactionReceipt, BoatEthWalletGetBalance, BoatEthWalletChangeNodeUrl,
       BoatEthWalletChangeChainID, BoatEthWalletChangeEIP155Comp
<1>2. CASE VenachainApi
  BY <1>2 DEF VenachainApi, BoatVenachainWalletInit, BoatVenachainWalletDeInit, BoatVenachainTxInit,
       BoatVenachainTxSetNonce, BoatVenachainTxSetGasPrice, BoatVenachainTxSetGasLimit,
       BoatVenachainTxSetRecipient, BoatVenachainTxSetValue, BoatVenachainTxSetData,
       BoatVenachainTxSend, BoatVenachainTransfer, BoatVenachainCallContractFunc,
       BoatVenachainGetTransactionReceipt, BoatVenachainWalletGetBalance,
       BoatVenachainWalletChangeNodeUrl, BoatVenachainWalletChangeChainID,
       BoatVenachainWalletChangeEIP155Comp
<1>3. CASE PlatONApi
  BY <1>3 DEF PlatONApi, BoatPlatONWalletInit, BoatPlatONWalletDeInit, BoatPlatONTxInit,
       BoatPlatONTxSetNonce, BoatPlatONTxSetGasPrice, BoatPlatONTxSetGasLimit,
       BoatPlatONTxSetRecipient, BoatPlatONTxSetValue, BoatPlatONTxSetData, BoatPlatONTxSend,
       BoatPlatONTransfer, BoatPlatONCallContractFunc, BoatPlatONGetTransactionReceipt,
       BoatPlatONWalletGetBalance
<1>4. CASE PlatoneApi
  BY <1>4 DEF PlatoneApi, BoatPlatoneWalletInit, BoatPlatoneWalletDeInit, BoatPlatoneTxInit,
       BoatPlatoneTxSetNonce, BoatPlatoneTxSetGasPrice, BoatPlatoneTxSetGasLimit,
       BoatPlatoneTxSetRecipient, BoatPlatoneTxSetValue, BoatPlatoneTxSetData,
       BoatPlatoneTxSetTxtype, BoatPlatoneTxSend, BoatPlatoneTransfer, BoatPlatoneCallContractFunc,
       BoatPlatoneGetTransactionReceipt, BoatPlatoneWalletGetBalance, BoatPlatoneWalletChangeNodeUrl,
       BoatPlatoneWalletChangeChainID, BoatPlatoneWalletChangeEIP155Comp, BoatPlatoneGetNodesInfo
<1>5. CASE QuorumApi
  BY <1>5 DEF QuorumApi, BoatQuorumWalletInit, BoatQuorumWalletDeInit, BoatQuorumTxInit,
       BoatQuorumTxSetNonce, BoatQuorumTxSetGasLimit, BoatQuorumTxSetRecipient,
       BoatQuorumTxSetValue, BoatQuorumTxSetData, BoatQuorumTxSetPrivateFor, BoatQuorumTxSend,
       BoatQuorumTransfer, BoatQuorumCallContractFunc, BoatQuorumGetTransactionReceipt,
       BoatQuorumWalletGetBalance, BoatQuorumWalletSetChainId
<1>6. CASE FiscobcosApi
  BY <1>6 DEF FiscobcosApi, BoatFiscobcosWalletInit, BoatFiscobcosWalletDeInit, BoatFiscobcosTxInit,
       BoatFiscobcosTxSetNonce, BoatFiscobcosTxSetGasPrice, BoatFiscobcosTxSetGasLimit,
       BoatFiscobcosTxSetRecipient, BoatFiscobcosTxSetValue, BoatFiscobcosTxSetData,
       BoatFiscobcosTxSend, BoatFiscobcosCallContractFunc, BoatFiscobcosGetTransactionReceipt,
       BoatFiscobcosGetBlockNumber
<1>7. CASE CitaApi
  BY <1>7 DEF CitaApi, BoatCitaWalletInit, BoatCitaWalletDeInit, BoatCitaTxInit, BoatCitaTxSetNonce,
       BoatCitaTxSetQuotaLimit, BoatCitaTxSetRecipient, BoatCitaTxSetValue, BoatCitaTxSetData,
       BoatCitaTxSend, BoatCitaCallContractFunc, BoatCitaGetTransactionReceipt, BoatCitaGetBlockNumber
<1>. QED
  BY <1>1, <1>2, <1>3, <1>4, <1>5, <1>6, <1>7 DEF Application

\* A transaction that was put together holds the fields of this moment.
LEMMA SentFields ==
  ASSUME Inv, Next, sent' # sent, sent' # NoRaw
  PROVE  \E g \in Fields : /\ sent'.list = List(g, Layout(chain))
                           /\ AsSet(g)
                           /\ Private => g["data"] = Handle(tx.f["data"])
<1>1. Sends
  <2>1. ~Application
    BY ApplicationSendsNothing
  <2>2. CASE Client
    BY <2>2 DEF Client, Requests, TakesAnswer, Do_Set, Request, Request_Nonce, Request_GasPrice,
       Request_Block, Request_Receipt, Request_Query, QuorumSendFilltx, Answer, AnswerField,
       Answer_Nonce, Answer_GasPrice, Answer_Block, Answer_Fill, Answer_Send, Answer_Receipt, Answer_Query
  <2>3. ~Network
    BY DEF Network, Node_Handle, Node_Refuse, Node_Garbage, Answer_Lost, Rpc_Timeout, Answers, client
  <2>4. ~Node
    BY DEF Node, Node_Late, Node_Mine, Node_Block, client
  <2>. QED
    BY <2>1, <2>2, <2>3, <2>4 DEF Next
<1>2. CASE CitaSendRawtx_NoPackBuffer
  <2>1. TypeInv /\ chain = "CITA" /\ sent' = CitaSigned(wallet, CitaTx(wallet, tx.f), TRUE)
    BY <1>2 DEF Inv, CitaSendRawtx_NoPackBuffer
  <2>. QED
    BY <2>1, CitaRaw DEF Private
<1>3. CASE ~CitaSendRawtx_NoPackBuffer
  <2>1. PICK f, g, raw, hash : SendOf(f, g, raw, hash)
    BY <1>1, <1>3, SendsAreSendOf
  <2>2. At("send") /\ rpc = NoRpc /\ sent' = raw
    BY <2>1 DEF SendOf, SendRawtx
  <2>3. Private => web3.result = Handle(tx.f["data"])
    BY <2>2 DEF Inv, FillInv
  <2>. QED
    BY <2>1, <2>2, <2>3 DEF SendOf
<1>. QED
  BY <1>2, <1>3

----------------------------------------------------------------------------
(* The buffer of CITA's nonce.                                             *)

\* Where the bytes of the buffer come from: the nonce is at its start, and what
\* lies behind it is no longer than the longest nonce that was set.
NonceOK(f) ==
  LET b == f["noncebuf"]
      n == f["nonce"]
      l == f["longest"]
  IN  /\ NonceBuf(b, n) = b
      /\ l \in {0, 1, 2, 16}
      /\ l = 0 => b = 0 /\ n = 0
      /\ l = 1 => b < Byte
      /\ l = 2 => b < Byte * Byte
      /\ l > 0 => l >= NonceLen(n)

\* The node is never asked for CITA's nonce.
NoneAsked(s) == \A i \in 1..Len(s) : s[i].op # "nonce"

NonceInv == chain = "CITA" => NonceOK(tx.f) /\ NoneAsked(todo)

\* What a nonce leaves in the buffer.
LEMMA NonceBufFacts ==
  ASSUME NEW b \in Nat, NEW n \in Nat
  PROVE  LET c == NonceBuf(b, n)
         IN  /\ NonceBuf(c, n) = c
             /\ NonceLen(n) = 1 /\ b < Byte => c < Byte
             /\ NonceLen(n) \in {1, 2} /\ b < Byte * Byte => c < Byte * Byte
             /\ NonceLen(n) = 1 /\ b < Byte => c = NonceBuf(0, n)
             /\ NonceLen(n) = 2 /\ b < Byte * Byte => c = NonceBuf(0, n)
             /\ NonceLen(n) = 16 => c = NonceBuf(0, n)
<1>. DEFINE c == NonceBuf(b, n)
<1>1. CASE n < 3
  <2>1. NonceLen(n) = 1 /\ \A x : NonceBuf(x, n) = n + 3 * (x \div 3)
    BY <1>1 DEF NonceLen, NonceBuf, Byte
  <2>2. c = n + 3 * (b \div 3) /\ c \div 3 = b \div 3 /\ c \in Nat
    <3>. DEFINE q == b \div 3
    <3>1. q \in Nat
      OBVIOUS
    <3>2. c = n + 3 * q
      BY <2>1
    <3>. HIDE DEF q, c
    <3>3. c \in Nat /\ c \div 3 = q
      BY <1>1, <3>1, <3>2
    <3>. QED
      BY <3>2, <3>3 DEF q
  <2>3. b < 3 => b \div 3 = 0
    OBVIOUS
  <2>4. 0 \div 3 = 0
    OBVIOUS
  <2>5. b < 9 => b \div 3 <= 2
    OBVIOUS
  <2>. HIDE DEF c
  <2>6. NonceBuf(c, n) = c
    BY <2>1, <2>2
  <2>7. NonceBuf(0, n) = n
    BY <2>1, <2>4
  <2>8. b < 3 => c = n
    BY <2>2, <2>3
  <2>9. b < 9 => c < 9
    BY <1>1, <2>2, <2>5
  <2>. QED
    BY <1>1, <2>1, <2>6, <2>7, <2>8, <2>9 DEF Byte, c
<1>2. CASE n >= 3 /\ n < 9
  <2>. DEFINE m == (n \div 3) + 3 * (n % 3)
  <2>1. NonceLen(n) = 2 /\ \A x : NonceBuf(x, n) = m + 9 * (x \div 9)
    BY <1>2 DEF NonceLen, NonceBuf, Byte
  <2>2. m \in 0..8
    BY <1>2
  <2>. HIDE DEF m
  <2>3. c = m + 9 * (b \div 9) /\ c \div 9 = b \div 9 /\ c \in Nat
    BY <2>1, <2>2
  <2>4. b < 9 => b \div 9 = 0
    OBVIOUS
  <2>5. 0 \div 9 = 0
    OBVIOUS
  <2>. HIDE DEF c
  <2>6. NonceBuf(c, n) = c
    BY <2>1, <2>3
  <2>7. NonceBuf(0, n) = m
    BY <2>1, <2>2, <2>5
  <2>8. b < 9 => c = m
    BY <2>2, <2>3, <2>4
  <2>. QED
    BY <2>1, <2>2, <2>6, <2>7, <2>8 DEF Byte, c
<1>3. CASE n >= 9
  <2>1. NonceLen(n) = 16
    BY <1>3 DEF NonceLen, Byte
  <2>2. \A x : NonceBuf(x, n) = n
    BY <2>1 DEF NonceBuf
  <2>. QED
    BY <2>1, <2>2
<1>. QED
  BY <1>1, <1>2, <1>3

LEMMA NonceSet == ASSUME NEW f \in Fields, NonceOK(f), NEW n \in Nat PROVE NonceOK(CitaNonce(f, n))
<1>. DEFINE b == f["noncebuf"]
            c == NonceBuf(b, n)
            l == f["longest"]
            k == NonceLen(n)
            h == IF k > l THEN k ELSE l
<1>1. b \in Nat /\ l \in {0, 1, 2, 16} /\ k \in {1, 2, 16}
  BY NonceBufType DEF Fields, FieldNames, NonceOK
<1>2. /\ CitaNonce(f, n)["nonce"] = n
      /\ CitaNonce(f, n)["noncebuf"] = c
      /\ CitaNonce(f, n)["longest"] = h
  BY DEF CitaNonce, Fields, FieldNames
<1>3. /\ NonceBuf(c, n) = c
      /\ k = 1 /\ b < Byte => c < Byte
      /\ k \in {1, 2} /\ b < Byte * Byte => c < Byte * Byte
  BY <1>1, NonceBufFacts
<1>4. (l = 0 => b = 0) /\ (l = 1 => b < Byte) /\ (l = 2 => b < Byte * Byte)
  BY DEF NonceOK
<1>. HIDE DEF b, c, l, k
<1>5. h \in {1, 2, 16} /\ h >= k
  BY <1>1
<1>6. h = 1 => c < Byte
  BY <1>1, <1>3, <1>4 DEF Byte
<1>7. h = 2 => c < Byte * Byte
  BY <1>1, <1>3, <1>4 DEF Byte
<1>. HIDE DEF h
<1>. QED
  BY <1>2, <1>3, <1>5, <1>6, <1>7 DEF NonceOK, k

LEMMA ClearedNonce == NonceOK(NoFields)
<1>1. NonceLen(0) = 1 /\ NonceBuf(0, 0) = 0
  BY DEF NonceBuf, NonceLen, Byte
<1>2. NoFields["noncebuf"] = 0 /\ NoFields["nonce"] = 0 /\ NoFields["longest"] = 0
  BY DEF NoFields, FieldNames
<1>. QED
  BY <1>1, <1>2 DEF NonceOK

\* The nonce and its buffer are as they were.
SameNonce(f, g) == \A n \in {"nonce", "noncebuf", "longest"} : g[n] = f[n]

LEMMA NonceOKSame == ASSUME NEW f, NEW g, NonceOK(f), SameNonce(f, g) PROVE NonceOK(g)
BY DEF NonceOK, SameNonce

\* A wallet of CITA is only used with the functions of api_cita.c.
LEMMA ApiOfChain == ASSUME NEW c, NEW op, NEW s, Api(c, op, s) PROVE chain = c
BY DEF Api, Called
LEMMA TxChangeOfChain == ASSUME NEW c, NEW t, TxChange(c, t) PROVE chain = c
BY DEF TxChange, Called
LEMMA WalletOfChain ==
  ASSUME NEW c, (\E w : WalletSet(c, w)) \/ (\E ids, e : WalletInit(c, ids, e)) \/ WalletDeInit(c)
  PROVE  chain = c
BY DEF WalletSet, WalletInit, WalletDeInit, Called

LEMMA CitaOnly == ASSUME Application, chain = "CITA" PROVE CitaApi
<1>. USE ApiOfChain, TxChangeOfChain, WalletOfChain
     DEF TxInit, TxInitRefused, TxSet, WalletCall, TxCall, NonceAuto, Transfer
<1>1. ~EthApi
  BY DEF EthApi, BoatEthWalletInit, BoatEthWalletDeInit, BoatEthTxInit, BoatEthTxSetNonce,
       BoatEthTxSetGasPrice, BoatEthTxSetGasLimit, BoatEthTxSetRecipient, BoatEthTxSetValue,
       BoatEthTxSetData, BoatEthTxSend, BoatEthTransfer, BoatEthCallContractFunc,
       BoatEthGetTransactionReceipt, BoatEthWalletGetBalance, BoatEthWalletChangeNodeUrl,
       BoatEthWalletChangeChainID, BoatEthWalletChangeEIP155Comp
<1>2. ~VenachainApi
  BY DEF VenachainApi, BoatVenachainWalletInit, BoatVenachainWalletDeInit, BoatVenachainTxInit,
       BoatVenachainTxSetNonce, BoatVenachainTxSetGasPrice, BoatVenachainTxSetGasLimit,
       BoatVenachainTxSetRecipient, BoatVenachainTxSetValue, BoatVenachainTxSetData,
       BoatVenachainTxSend, BoatVenachainTransfer, BoatVenachainCallContractFunc,
       BoatVenachainGetTransactionReceipt, BoatVenachainWalletGetBalance,
       BoatVenachainWalletChangeNodeUrl, BoatVenachainWalletChangeChainID,
       BoatVenachainWalletChangeEIP155Comp
<1>3. ~PlatONApi
  BY DEF PlatONApi, BoatPlatONWalletInit, BoatPlatONWalletDeInit, BoatPlatONTxInit,
       BoatPlatONTxSetNonce, BoatPlatONTxSetGasPrice, BoatPlatONTxSetGasLimit,
       BoatPlatONTxSetRecipient, BoatPlatONTxSetValue, BoatPlatONTxSetData, BoatPlatONTxSend,
       BoatPlatONTransfer, BoatPlatONCallContractFunc, BoatPlatONGetTransactionReceipt,
       BoatPlatONWalletGetBalance
<1>4. ~PlatoneApi
  BY DEF PlatoneApi, BoatPlatoneWalletInit, BoatPlatoneWalletDeInit, BoatPlatoneTxInit,
       BoatPlatoneTxSetNonce, BoatPlatoneTxSetGasPrice, BoatPlatoneTxSetGasLimit,
       BoatPlatoneTxSetRecipient, BoatPlatoneTxSetValue, BoatPlatoneTxSetData,
       BoatPlatoneTxSetTxtype, BoatPlatoneTxSend, BoatPlatoneTransfer, BoatPlatoneCallContractFunc,
       BoatPlatoneGetTransactionReceipt, BoatPlatoneWalletGetBalance, BoatPlatoneWalletChangeNodeUrl,
       BoatPlatoneWalletChangeChainID, BoatPlatoneWalletChangeEIP155Comp, BoatPlatoneGetNodesInfo
<1>5. ~QuorumApi
  BY DEF QuorumApi, BoatQuorumWalletInit, BoatQuorumWalletDeInit, BoatQuorumTxInit,
       BoatQuorumTxSetNonce, BoatQuorumTxSetGasLimit, BoatQuorumTxSetRecipient,
       BoatQuorumTxSetValue, BoatQuorumTxSetData, BoatQuorumTxSetPrivateFor, BoatQuorumTxSend,
       BoatQuorumTransfer, BoatQuorumCallContractFunc, BoatQuorumGetTransactionReceipt,
       BoatQuorumWalletGetBalance, BoatQuorumWalletSetChainId
<1>6. ~FiscobcosApi
  BY DEF FiscobcosApi, BoatFiscobcosWalletInit, BoatFiscobcosWalletDeInit, BoatFiscobcosTxInit,
       BoatFiscobcosTxSetNonce, BoatFiscobcosTxSetGasPrice, BoatFiscobcosTxSetGasLimit,
       BoatFiscobcosTxSetRecipient, BoatFiscobcosTxSetValue, BoatFiscobcosTxSetData,
       BoatFiscobcosTxSend, BoatFiscobcosCallContractFunc, BoatFiscobcosGetTransactionReceipt,
       BoatFiscobcosGetBlockNumber
<1>. QED
  BY <1>1, <1>2, <1>3, <1>4, <1>5, <1>6 DEF Application

\* The protocol of a wallet does not change.
LEMMA NextKeepsChain == ASSUME [Next]_vars PROVE chain' = chain
<1>1. CASE Next
  <2>0. CASE Application
    BY <2>0, ApplicationSendsNothing
  <2>1. CASE Client
    <3>1. ASSUME NEW op, Answer(op) PROVE chain' = chain
      BY <3>1 DEF Answer
    <3>. QED
      BY <2>1, <3>1 DEF Client, Sends, Requests, TakesAnswer, Do_Set, Request, Request_Nonce, Request_GasPrice,
         Request_Block, Request_Receipt, Request_Query, QuorumSendFilltx, AnswerField, Answer_Nonce,
         Answer_GasPrice, Answer_Block, Answer_Fill, Answer_Send, Answer_Receipt, Answer_Query, SendRawtx,
         EthSendRawtx, PlatONSendRawtx, VenachainSendRawtx, PlatoneSendRawtx, FiscobcosSendRawtx,
         QuorumSendRawtx, CitaSendRawtx, CitaSendRawtx_NoPackBuffer
  <2>2. CASE Network \/ Node
    BY <2>2 DEF Network, Node_Handle, Node_Refuse, Node_Garbage, Answer_Lost, Rpc_Timeout, Answers,
       Node, Node_Late, Node_Mine, Node_Block, client
  <2>. QED
    BY <1>1, <2>0, <2>1, <2>2 DEF Next
<1>. QED
  BY <1>1 DEF vars, client

\* The names of the fields a node reads.
LEMMA LayoutNames == {Layout(chain)[i] : i \in DOMAIN Layout(chain)} \subseteq FieldNames
<1>1. CASE chain = "PLATONE"
  BY <1>1 DEF Layout, FieldNames
<1>2. CASE chain = "FISCOBCOS"
  BY <1>2 DEF Layout, FieldNames
<1>3. CASE chain = "CITA"
  BY <1>3 DEF Layout, FieldNames
<1>4. CASE chain \notin {"PLATONE", "FISCOBCOS", "CITA"}
  <2>1. Layout(chain) = <<"nonce", "gasprice", "gaslimit", "recipient", "value", "data">>
    BY <1>4 DEF Layout
  <2>. QED
    BY <2>1 DEF FieldNames
<1>. QED
  BY <1>1, <1>2, <1>3, <1>4

\* A nonce no shorter than those before it has only zeros behind it.
LEMMA BufferAsSet == ASSUME NEW x, tx.f \in Fields, chain = "CITA", NonceOK(tx.f), x = tx.f["noncebuf"]
                     PROVE  NonceAsSet(x)
<1>. DEFINE n == tx.f["nonce"]
            l == tx.f["longest"]
            k == NonceLen(n)
<1>1. x \in Nat /\ n \in Nat /\ k \in {1, 2, 16}
  BY NonceBufType DEF Fields, FieldNames
<1>2. /\ NonceBuf(x, n) = x
      /\ l \in {0, 1, 2, 16}
      /\ l = 0 => x = 0 /\ n = 0
      /\ l = 1 => x < Byte
      /\ l = 2 => x < Byte * Byte
      /\ l > 0 => l >= k
  BY DEF NonceOK
<1>3. /\ k = 1 /\ x < Byte => x = NonceBuf(0, n)
      /\ k = 2 /\ x < Byte * Byte => x = NonceBuf(0, n)
      /\ k = 16 => x = NonceBuf(0, n)
  BY <1>1, <1>2, NonceBufFacts
<1>4. NonceBuf(0, 0) = 0
  BY DEF NonceBuf, NonceLen, Byte
<1>. HIDE DEF n, l, k
<1>5. l <= k => x = NonceBuf(0, n)
  <2>1. CASE l = 0
    BY <1>2, <1>4, <2>1
  <2>2. CASE l > 0 /\ l <= k
    <3>1. l = k
      BY <1>1, <1>2, <2>2
    <3>. QED
      BY <1>1, <1>2, <1>3, <3>1
  <2>. QED
    BY <1>1, <1>2, <2>1, <2>2
<1>. QED
  BY <1>2, <1>5 DEF NonceAsSet, n, l, k

\* What the other steps leave of it.
LEMMA NoncePasses ==
  ASSUME Inv, NonceInv, chain' = chain, SameNonce(tx.f, tx'.f) \/ NonceOK(tx'.f),
         todo' \in {todo, <<>>} \/ (Len(todo) # 1 /\ todo # <<>> /\ todo' = Tail(todo))
  PROVE  NonceInv'
<1>1. SUFFICES ASSUME chain = "CITA" PROVE NonceOK(tx'.f) /\ NoneAsked(todo')
  BY DEF NonceInv
<1>2. NonceOK(tx'.f)
  BY <1>1, NonceOKSame DEF NonceInv
<1>3. NoneAsked(todo)
  BY <1>1 DEF NonceInv
<1>4. todo \in Seq(StepSet)
  BY DEF Inv, TypeInv
<1>5. CASE todo' = todo
  BY <1>2, <1>3, <1>5
<1>6. CASE todo' = <<>>
  BY <1>2, <1>6 DEF NoneAsked
<1>7. CASE Len(todo) # 1 /\ todo # <<>> /\ todo' = Tail(todo)
  <2>1. Len(todo) >= 2 /\ Len(todo) \in Nat
    <3>. DEFINE k == Len(todo)
    <3>1. k \in Nat /\ k # 0 /\ k # 1
      BY <1>4, <1>7
    <3>. HIDE DEF k
    <3>2. k >= 2
      BY <3>1
    <3>. QED
      BY <3>1, <3>2 DEF k
  <2>2. Len(Tail(todo)) = Len(todo) - 1 /\ \A i \in 1..Len(Tail(todo)) : Tail(todo)[i] = todo[i + 1]
    BY <1>4, <2>1, TailFacts
  <2>3. \A i \in 1..Len(Tail(todo)) : i + 1 \in 1..Len(todo)
    BY <2>1, <2>2
  <2>. QED
    BY <1>2, <1>3, <1>7, <2>2, <2>3 DEF NoneAsked
<1>. QED
  BY <1>5, <1>6, <1>7

\* A function that starts these steps.
LEMMA NonceStart ==
  ASSUME NoneAsked(todo'), chain' = chain, NonceOK(tx'.f) PROVE NonceInv'
BY DEF NonceInv

LEMMA WithNonce == ASSUME NEW f \in Fields, NEW g \in GroupSet PROVE SameNonce(f, With(f, g))
BY DEF SameNonce, With, GroupSet, Fields, FieldNames

LEMMA NoneIn ==
  /\ \A op \in {"send", "receipt", "block"} : NoneAsked(<<Step(op)>>)
  /\ \A req : NoneAsked(<<Ask(req)>>)
  /\ \A g : NoneAsked(<<SetStep(g)>>)
  /\ NoneAsked(<<Step("send"), Step("receipt")>>)
  /\ \A g, h : NoneAsked(<<SetStep(g), Step("block"), SetStep(h)>>)
BY DEF NoneAsked, Step, Ask, SetStep

LEMMA CitaApiNonce == ASSUME Inv, NonceInv, CitaApi PROVE NonceInv'
<1>1. tx \in TxRec /\ tx.f \in Fields /\ TypeInv
  BY TypeFacts DEF Inv, TypeInv
<1>2. chain = "CITA" => NonceOK(tx.f)
  BY DEF NonceInv
<1>3. CASE \E c, ids, e : WalletInit(c, ids, e)
  BY <1>3, NoncePasses DEF WalletInit, SameNonce
<1>4. CASE BoatCitaWalletDeInit
  BY <1>4, ClearedNonce, NoncePasses DEF BoatCitaWalletDeInit, WalletDeInit, NewTx
<1>5. CASE \E c, sync : TxInitRefused(c, sync)
  BY <1>1, <1>5, ClearedNonce, NoncePasses DEF TxInitRefused, TxChange, TxRec
<1>6. CASE \E sync, private, g, h : TxInit("CITA", sync, private, <<SetStep(g), Step("block"), SetStep(h)>>)
  BY <1>1, <1>6, ClearedNonce, NonceStart, NoneIn DEF TxInit, Api, TxRec
<1>7. CASE BoatCitaTxSetNonce
  <2>1. PICK n \in Explicit \cup {Byte, RandomNonce} : TxChange("CITA", [tx EXCEPT !.f = CitaNonce(@, n)])
    BY <1>7 DEF BoatCitaTxSetNonce
  <2>2. n \in Nat /\ NonceOK(tx.f)
    BY <1>2, <2>1, Numbers, RandomNonceExists, TxChangeOfChain DEF Byte
  <2>3. NonceOK(CitaNonce(tx.f, n))
    BY <1>1, <2>2, NonceSet
  <2>4. tx'.f = CitaNonce(tx.f, n) /\ chain' = chain /\ todo' = todo
    BY <1>1, <2>1 DEF TxChange, TxRec
  <2>. QED
    BY <2>3, <2>4, NoncePasses
<1>8. CASE \E c, x : \E n \in {"gaslimit", "recipient", "value", "data"} : TxSet(c, n, x)
  <2>1. PICK c, x, n : n \in {"gaslimit", "recipient", "value", "data"} /\ TxSet(c, n, x)
    BY <1>8
  <2>2. tx'.f = [tx.f EXCEPT ![n] = x] /\ chain' = chain /\ todo' = todo
    BY <1>1, <2>1 DEF TxSet, TxChange, TxRec
  <2>3. SameNonce(tx.f, tx'.f)
    BY <1>1, <2>1, <2>2 DEF SameNonce, Fields, FieldNames
  <2>. QED
    BY <2>2, <2>3, NoncePasses
<1>9. CASE \E op, s : NoneAsked(s) /\ TxCall("CITA", op, s)
  BY <1>2, <1>9, NonceStart DEF TxCall, WalletCall, Api, Called
<1>. QED
  BY <1>3, <1>4, <1>5, <1>6, <1>7, <1>8, <1>9, NoneIn
  DEF CitaApi, BoatCitaWalletInit, BoatCitaTxInit, BoatCitaTxSetQuotaLimit, BoatCitaTxSetRecipient,
      BoatCitaTxSetValue, BoatCitaTxSetData, BoatCitaTxSend, CitaSend, BoatCitaSendRawtxWithReceipt,
      BoatCitaCallContractFunc, BoatCitaGetTransactionReceipt, BoatCitaGetBlockNumber

LEMMA ClientNonce == ASSUME Inv, NonceInv, Client, chain = "CITA" PROVE NonceInv'
<1>1. tx \in TxRec /\ tx.f \in Fields /\ TypeInv /\ todo \in Seq(StepSet)
  BY TypeFacts DEF Inv, TypeInv
<1>2. ASSUME Advance, todo # <<>>, chain' = chain, SameNonce(tx.f, tx'.f) PROVE NonceInv'
  BY <1>2, NoncePasses DEF Advance, Return
<1>3. ASSUME NEW code, Return(code), chain' = chain, tx' = tx PROVE NonceInv'
  BY <1>3, NoncePasses DEF Return, SameNonce
<1>4. ASSUME NEW code, Fails(code), chain' = chain PROVE NonceInv'
  BY <1>3, <1>4 DEF Fails
<1>5. ASSUME NEW req, Post(req), chain' = chain, SameNonce(tx.f, tx'.f) PROVE NonceInv'
  BY <1>5, NoncePasses DEF Post
<1>6. CASE Do_Set
  <2>1. todo # <<>> /\ Head(todo).op = "set"
    BY <1>6 DEF Do_Set, At
  <2>2. Head(todo).g \in GroupSet
    BY <1>1, <2>1, HeadIsFirst, StepFacts
  <2>3. tx'.f = With(tx.f, Head(todo).g)
    BY <1>1, <1>6 DEF Do_Set, TxRec
  <2>4. SameNonce(tx.f, tx'.f)
    BY <1>1, <2>2, <2>3, WithNonce
  <2>. QED
    BY <1>2, <1>6, <2>1, <2>4 DEF Do_Set
<1>7. CASE Sends
  <2>1. CASE CitaSendRawtx_NoPackBuffer
    BY <1>2, <2>1 DEF CitaSendRawtx_NoPackBuffer, At, SameNonce
  <2>2. CASE CitaSendRawtx
    <3>1. PICK raw, req : SendRawtx("CITA", tx.f, raw, req, tx.tx_hash)
      BY <2>2 DEF CitaSendRawtx
    <3>2. tx'.f = tx.f /\ chain' = chain
      BY <1>1, <3>1 DEF SendRawtx, TxRec
    <3>3. SameNonce(tx.f, tx'.f)
      BY <3>2 DEF SameNonce
    <3>4. CASE Post(req)
      BY <1>5, <3>2, <3>3, <3>4
    <3>5. CASE \E code : Return(code)
      BY <3>2, <3>3, <3>5, NoncePasses DEF Return
    <3>. QED
      BY <3>1, <3>4, <3>5 DEF SendRawtx
  <2>. QED
    BY <1>7, <2>1, <2>2 DEF Sends, EthSendRawtx, PlatONSendRawtx, VenachainSendRawtx, PlatoneSendRawtx,
       FiscobcosSendRawtx, QuorumSendRawtx, SendRawtx
<1>8. CASE Requests
  <2>1. PICK op, req : Request(op, req)
    BY <1>8 DEF Requests, Request_Nonce, Request_GasPrice, Request_Block, Request_Receipt, Request_Query,
       QuorumSendFilltx
  <2>. QED
    BY <1>5, <2>1 DEF Request, SameNonce
<1>9. CASE TakesAnswer
  <2>1. ASSUME NEW op, Answer(op) PROVE todo # <<>> /\ chain' = chain /\ Head(todo).op = op
    BY <2>1 DEF Answer, At
  <2>2. ASSUME NEW op, NEW n \in {"gasprice", "limit"}, NEW off, NEW code, AnswerField(op, n, off, code)
        PROVE  NonceInv'
    <3>1. \/ Advance /\ \E x : tx' = [tx EXCEPT !.f[n] = x]
          \/ \E c : Fails(c)
      BY <2>2 DEF AnswerField
    <3>2. todo # <<>> /\ chain' = chain
      BY <2>1, <2>2 DEF AnswerField
    <3>3. ASSUME NEW x, tx' = [tx EXCEPT !.f[n] = x] PROVE SameNonce(tx.f, tx'.f)
      <4>1. tx'.f = [tx.f EXCEPT ![n] = x]
        BY <1>1, <3>3 DEF TxRec
      <4>. QED
        BY <1>1, <2>2, <4>1 DEF SameNonce, Fields, FieldNames
    <3>. QED
      BY <1>2, <1>4, <3>1, <3>2, <3>3
  <2>3. CASE Answer_GasPrice
    BY <2>2, <2>3 DEF Answer_GasPrice
  <2>4. CASE Answer_Block
    BY <2>2, <2>4 DEF Answer_Block
  <2>5. ~Answer_Nonce
    <3>1. SUFFICES ASSUME Answer_Nonce PROVE FALSE
      OBVIOUS
    <3>2. todo # <<>> /\ Head(todo).op = "nonce"
      BY <2>1, <3>1 DEF Answer_Nonce, AnswerField
    <3>3. 1 \in 1..Len(todo) /\ todo[1].op = "nonce"
      BY <1>1, <3>2, HeadIsFirst
    <3>. QED
      BY <3>3 DEF NonceInv, NoneAsked
  <2>6. CASE Answer_Fill
    BY <1>2, <1>4, <2>1, <2>6 DEF Answer_Fill, SameNonce
  <2>7. CASE Answer_Query
    BY <1>2, <1>4, <2>1, <2>7 DEF Answer_Query, SameNonce
  <2>8. CASE Answer_Send
    <3>1. \/ Advance /\ \E h : tx' = [tx EXCEPT !.tx_hash = h]
          \/ \E c : Fails(c)
      BY <2>8 DEF Answer_Send
    <3>2. \A h : tx' = [tx EXCEPT !.tx_hash = h] => SameNonce(tx.f, tx'.f)
      BY <1>1 DEF TxRec, SameNonce
    <3>. QED
      BY <1>2, <1>4, <2>1, <2>8, <3>1, <3>2 DEF Answer_Send
  <2>9. CASE Answer_Receipt
    <3>1. (\E r : Return(r)) \/ UNCHANGED todo
      BY <2>9 DEF Answer_Receipt
    <3>2. tx' = tx /\ chain' = chain
      BY <2>1, <2>9 DEF Answer_Receipt
    <3>. QED
      BY <1>3, <3>1, <3>2, NoncePasses DEF SameNonce
  <2>. QED
    BY <1>9, <2>3, <2>4, <2>5, <2>6, <2>7, <2>8, <2>9 DEF TakesAnswer
<1>. QED
  BY <1>6, <1>7, <1>8, <1>9 DEF Client

LEMMA NonceInvStep == ASSUME Inv, NonceInv, [Next]_vars PROVE NonceInv'
<1>1. chain' = chain
  BY NextKeepsChain
<1>2. SUFFICES ASSUME chain = "CITA" PROVE NonceInv'
  BY <1>1 DEF NonceInv
<1>3. CASE Application
  BY <1>2, <1>3, CitaOnly, CitaApiNonce
<1>4. CASE Client
  BY <1>2, <1>4, ClientNonce
<1>5. CASE Network \/ Node \/ UNCHANGED vars
  <2>1. UNCHANGED client
    BY <1>5 DEF Network, Node_Handle, Node_Refuse, Node_Garbage, Answer_Lost, Rpc_Timeout, Answers,
       Node, Node_Late, Node_Mine, Node_Block, vars
  <2>. QED
    BY <2>1, NoncePasses DEF client, SameNonce
<1>. QED
  BY <1>3, <1>4, <1>5 DEF Next

LEMMA WalletNonceInv == Spec => []NonceInv
<1>1. Init => NonceInv
  BY ClearedNonce DEF Init, NewTx, NonceInv, NoneAsked
<1>2. Inv /\ NonceInv /\ [Next]_vars => NonceInv'
  BY NonceInvStep
<1>. QED
  BY <1>1, <1>2, WalletInv, PTL DEF Spec

\* A transaction that is sent has the fields it was given: CITA's nonce is what
\* its buffer holds (NonceInv), its chain id the wallet's, and only the data of
\* a private Quorum transaction or of an earlier PlatONE Transfer may be others.
THEOREM WalletSentIsWhatWasSet == Spec => SentIsWhatWasSet
<1>. DEFINE A == sent' # sent /\ sent' # NoRaw =>
                   \A n \in {Layout(chain)[i] : i \in DOMAIN Layout(chain)} :
                     LET x == FieldOf(chain, sent', n)
                     IN  CASE n = "nonce" -> NonceAsSet(x)
                           [] n = "data"  -> DataReplaced \/ x = tx.f[n]
                           [] n = "chainid" /\ chain = "CITA" -> x = wallet.chain_id
                           [] OTHER -> x = tx.f[n]
<1>1. Inv /\ NonceInv /\ [Next]_vars => [A]_vars
  <2>1. SUFFICES ASSUME Inv, NonceInv, Next, sent' # sent, sent' # NoRaw,
                        NEW n \in {Layout(chain)[i] : i \in DOMAIN Layout(chain)}
                 PROVE  LET x == FieldOf(chain, sent', n)
                        IN  CASE n = "nonce" -> NonceAsSet(x)
                              [] n = "data"  -> DataReplaced \/ x = tx.f[n]
                              [] n = "chainid" /\ chain = "CITA" -> x = wallet.chain_id
                              [] OTHER -> x = tx.f[n]
    OBVIOUS
  <2>2. PICK g \in Fields : sent'.list = List(g, Layout(chain)) /\ AsSet(g)
    BY <2>1, SentFields
  <2>. DEFINE x == FieldOf(chain, sent', n)
  <2>3. x = g[n]
    BY <2>1, <2>2, FieldIsRead
  <2>. HIDE DEF x
  <2>4. n \in FieldNames /\ tx.f \in Fields
    BY <2>1, LayoutNames, TypeFacts DEF Inv
  <2>5. CASE n = "nonce"
    <3>1. CASE chain # "CITA"
      <4>1. x = tx.f["nonce"]
        BY <2>2, <2>3, <2>5, <3>1 DEF AsSet
      <4>2. NonceAsSet(x)
        BY <3>1, <4>1 DEF NonceAsSet
      <4>. QED
        BY <2>5, <4>2 DEF x
    <3>2. CASE chain = "CITA"
      <4>1. x = tx.f["noncebuf"] /\ NonceOK(tx.f)
        BY <2>1, <2>2, <2>3, <2>5, <3>2 DEF AsSet, NonceInv
      <4>2. NonceAsSet(x)
        BY <2>4, <3>2, <4>1, BufferAsSet
      <4>. QED
        BY <2>5, <4>2 DEF x
    <3>. QED
      BY <2>5, <3>1, <3>2 DEF x
  <2>6. CASE n = "data"
    BY <2>2, <2>3, <2>6 DEF AsSet, DataReplaced, Private, x
  <2>7. CASE n = "chainid"
    BY <2>2, <2>3, <2>7 DEF AsSet, x
  <2>8. CASE n \notin {"nonce", "data", "chainid"}
    BY <2>2, <2>3, <2>4, <2>8 DEF AsSet, x
  <2>. QED
    BY <2>5, <2>6, <2>7, <2>8
<1>. QED
  BY <1>1, WalletInv, WalletNonceInv, PTL DEF Spec, SentIsWhatWasSet

\* QuorumSendRawtx puts the handle of this payload into a private transaction:
\* the result buffer holds what QuorumSendFilltx was answered and nothing since.
THEOREM WalletPrivatePayloadStaysPrivate == Spec => PrivatePayloadStaysPrivate
<1>. DEFINE A == chain = "QUORUM" /\ tx.is_private /\ sent' # sent /\ sent' # NoRaw =>
                   FieldOf(chain, sent', "data") = Handle(tx.f["data"])
<1>1. Inv /\ [Next]_vars => [A]_vars
  <2>1. SUFFICES ASSUME Inv, Next, sent' # sent, sent' # NoRaw, chain = "QUORUM", tx.is_private
                 PROVE  FieldOf(chain, sent', "data") = Handle(tx.f["data"])
    OBVIOUS
  <2>2. PICK g \in Fields : sent'.list = List(g, Layout(chain)) /\ g["data"] = Handle(tx.f["data"])
    BY <2>1, SentFields DEF Private
  <2>3. "data" \in {Layout(chain)[i] : i \in DOMAIN Layout(chain)}
    <3>1. Layout(chain) = <<"nonce", "gasprice", "gaslimit", "recipient", "value", "data">>
      BY <2>1 DEF Layout
    <3>. QED
      BY <3>1
  <2>. QED
    BY <2>2, <2>3, FieldIsRead
<1>. QED
  BY <1>1, WalletInv, PTL DEF Spec, PrivatePayloadStaysPrivate
=============================================================================
