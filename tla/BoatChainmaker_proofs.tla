----------------------- MODULE BoatChainmaker_proofs -----------------------
(***************************************************************************)
(* The correctness of the wallets that talk gRPC over HTTP/2, for every    *)
(* node configuration, every length of the response array, every number of *)
(* calls, faults and rounds.                                               *)
(***************************************************************************)
EXTENDS BoatChainmaker, FiniteSetTheorems, SequenceTheorems, TLAPS

----------------------------------------------------------------------------
(* What the variables hold.                                                *)

FabricProtocols == {"HLFABRIC", "HWBCS"}

Codes    == {"SUCCESS", "ERROR", "CONNECT_FAIL", "HTTP2_INTERNAL", "HTTP2_RECEIVE_FAIL", "RLP_ENCODER_FAIL",
             "GEN_SIGN_FAIL"}
Messages == Answers \cup {"no result", "executed", "failed", "unreadable", "not found"}
BufRec   == [len : {"none", "short", "long"}, may : SUBSET (Messages \cup {NoAnswer}), freed : BOOLEAN]
Http2Rec == [ctx : {"none", "ok", "freed", "null"}, open : Nat, buf : BufRec]
RespRec  == [type : {"PROPOSAL", "TRANSACTION"}, nonce : Nat, i : Nat, j : Nat]
TxRec    == [init : BOOLEAN, args : BOOLEAN, nonce : Nat, response : Seq(RespRec),
             evaluateRes : Nat \cup {Overrun}, left : Nat]
RpcSet   == {NoRpc, [st |-> "sent"]}
              \cup [st : {"done"}, result : {"SUCCESS", "CONNECT_FAIL", "HTTP2_INTERNAL"}]
FaultRec == [left : Nat, seen : SUBSET FaultKinds]
CmRec    == [init : BOOLEAN, params : {"none", "app", "part", "txId"}, code : {"none", "SUCCESS", "ERROR", "bad"},
             id : Nat, sync : BOOLEAN]
BlockRec == [pool : SUBSET Nat, done : SUBSET [id : Nat, ok : BOOLEAN]]

LoopRec  == [fun : {"EVALUATE", "SUBMIT"}, type : {"PROPOSAL", "TRANSACTION"}, i : Nat, j : Nat, k : Nat,
             valid : Nat, result : Codes, st : {"pack", "ask"}]
RoundRec == {e \in [fun : {"INVOKE", "QUERY"}, type : {"INVOKE", "QUERY", "SYNC"}, st : {"pack", "ask"},
                    i : 0..(BOAT_RETRY_CNT - 1), result : Codes, resp : BOOLEAN] :
               e.type = "QUERY" => e.fun = "QUERY"}

TypeInv ==
  /\ chain \in Protocols
  /\ IF chain \in Versions THEN cfg = NoCfg ELSE cfg \in NodeCfgs
  /\ http2 \in Http2Rec
  /\ tx \in TxRec
  /\ exec = NoExec \/ (IF chain \in Versions THEN exec \in RoundRec ELSE exec \in LoopRec)
  /\ rpc \in RpcSet
  /\ faults \in FaultRec
  /\ cm \in CmRec
  /\ block \in BlockRec
  /\ chain \notin Versions => block = NoBlock

----------------------------------------------------------------------------
(* The loops over endorsers and orderers: what holds of configuration c,   *)
(* position e and transaction t.                                           *)

\* Where the innermost loop is.  A group that has what it needs is left, and
\* an Evaluate counts no endorsements.
Position(c, e) ==
  /\ e.i \in DOMAIN c.layouts /\ e.j \in DOMAIN c.layouts[e.i]
  /\ e.k \in 1..c.layouts[e.i][e.j].n
  /\ e.valid = 0 \/ e.valid < c.layouts[e.i][e.j].q
  /\ e.fun = "EVALUATE" => e.valid = 0
  /\ Reached(c, e.fun, e.i, e.j)

\* The endorsements of group j of layout i among the answers r.
From(r, i, j) == {x \in DOMAIN r : r[x].i = i /\ r[x].j = j}

Complete(c, r) ==
  \E i \in DOMAIN c.layouts : \A j \in DOMAIN c.layouts[i] : Cardinality(From(r, i, j)) >= c.layouts[i][j].q

\* The groups before this one are complete, this one has valid endorsements.
SoFar(c, e, r) ==
  /\ \A j \in DOMAIN c.layouts[e.i] : j < e.j => Cardinality(From(r, e.i, j)) >= c.layouts[e.i][j].q
  /\ Cardinality(From(r, e.i, e.j)) >= e.valid

\* The places of the response array that are spoken for once x answers of
\* group j of layout i are stored.
Taken(c, fun, i, j, x) ==
  {s \in Places(c, fun) : \/ s[1] < i
                          \/ s[1] = i /\ s[2] < j
                          \/ s[1] = i /\ s[2] = j /\ s[3] <= x}

TakenAt(c, e) == Taken(c, e.fun, e.i, e.j, IF e.fun = "EVALUATE" THEN e.k - 1 ELSE e.valid)

Own(t) == \A x \in DOMAIN t.response : t.response[x].nonce = t.nonce

\* Unless a failed Submit left answers behind, those in the array are of this
\* proposal and of complete groups.
Collected(c, e, t) ==
  /\ Own(t)
  /\ e.type = "PROPOSAL" /\ e.st = "pack" => t.response = <<>>
  /\ e.type = "PROPOSAL" => SoFar(c, e, t.response)
  /\ e.type = "TRANSACTION" => Complete(c, t.response)

\* The answers are those left behind and those that have a place.
Fits(c, e, t) ==
  Len(t.response) <= t.left + Cardinality(IF e.type = "PROPOSAL" THEN TakenAt(c, e) ELSE Places(c, "SUBMIT"))

Current(t) == t.evaluateRes \in {0, Overrun, t.nonce}

LoopOK(c, e, t) ==
  /\ e \in LoopRec
  /\ e.type = "PROPOSAL" => Position(c, e)
  /\ e.type = "TRANSACTION" => e.fun = "SUBMIT"
  /\ t \in TxRec /\ Current(t)
  /\ t.left = 0 => Collected(c, e, t)
  /\ Fits(c, e, t)

LoopInv ==
  /\ Current(tx)
  /\ exec = NoExec \/ chain \in Versions => Len(tx.response) <= tx.left
  /\ exec # NoExec /\ chain \notin Versions => LoopOK(cfg, exec, tx)

----------------------------------------------------------------------------
(* Requests, and what the nodes have.                                      *)

Sockets(n) == faults.seen = {} => n = IF rpc.st = "sent" THEN 1 ELSE 0

RpcInv ==
  /\ rpc # NoRpc => exec # NoExec /\ exec.st = "ask"
  /\ rpc.st = "sent" => http2.open >= 1
  /\ Sockets(http2.open)

Ordered == \E m \in Accepted : m.nonce = tx.nonce
Executed == [id |-> cm.id, ok |-> TRUE] \in block.done

\* An answer in the buffer is the only one, and its node gave it to this request.
BufInv ==
  /\ exec = NoExec \/ exec.st = "pack" => http2.buf = EmptyBuf
  /\ \A a \in http2.buf.may \ {NoAnswer} :
       /\ http2.buf.len = "long" /\ http2.buf.may \subseteq {a, NoAnswer}
       /\ a = "accepted" /\ chain \notin Versions => exec.type = "TRANSACTION" /\ Ordered
       /\ a = "executed" => chain \in Versions /\ Executed

SentInv == \A m \in node : m.left = 0 => Own(m) /\ Complete(cfg, m.response)

RetInv ==
  /\ exec # NoExec => ret = NoRet
  /\ chain = "HWBCS" /\ ret = [op |-> "SUBMIT", code |-> "SUCCESS"] => Ordered
  /\ chain = "CHAINMAKER_V2" /\ ret = [op |-> "INVOKE", code |-> "SUCCESS"] /\ cm.sync /\ cm.code = "SUCCESS" =>
       Executed

Inv == TypeInv /\ LoopInv /\ RpcInv /\ BufInv /\ SentInv /\ RetInv

----------------------------------------------------------------------------
(* Facts about the configuration and the response array.                   *)

LEMMA CfgFacts ==
  ASSUME NEW c \in NodeCfgs
  PROVE  /\ 1 \in DOMAIN c.layouts /\ Len(c.layouts) \in Nat /\ DOMAIN c.layouts = 1..Len(c.layouts)
         /\ c.orderers \in Nat
         /\ \A i \in DOMAIN c.layouts :
              /\ 1 \in DOMAIN c.layouts[i] /\ Len(c.layouts[i]) \in Nat
              /\ DOMAIN c.layouts[i] = 1..Len(c.layouts[i])
              /\ \A j \in DOMAIN c.layouts[i] :
                   /\ c.layouts[i][j].n \in Nat /\ c.layouts[i][j].q \in Nat /\ 1 <= c.layouts[i][j].n
<1>1. c.layouts \in Seq(Seq(Group)) /\ c.layouts # <<>> /\ c.orderers \in Nat
  BY NodeCfgAssumption
<1>2. 1 \in DOMAIN c.layouts /\ Len(c.layouts) \in Nat /\ DOMAIN c.layouts = 1..Len(c.layouts)
  BY <1>1
<1>3. ASSUME NEW i \in DOMAIN c.layouts
      PROVE  /\ 1 \in DOMAIN c.layouts[i] /\ Len(c.layouts[i]) \in Nat
             /\ DOMAIN c.layouts[i] = 1..Len(c.layouts[i])
             /\ \A j \in DOMAIN c.layouts[i] :
                  /\ c.layouts[i][j].n \in Nat /\ c.layouts[i][j].q \in Nat /\ 1 <= c.layouts[i][j].n
  <2>1. c.layouts[i] \in Seq(Group)
    BY <1>1, <1>3
  <2>2. c.layouts[i] # <<>>
    BY <1>3, NodeCfgAssumption
  <2>3. \A j \in DOMAIN c.layouts[i] : c.layouts[i][j] \in Group
    BY <2>1
  <2>. QED
    BY <2>1, <2>2, <2>3 DEF Group
<1>. QED
  BY <1>1, <1>2, <1>3

LEMMA PlaceFacts ==
  ASSUME NEW c \in NodeCfgs, NEW fun
  PROVE  /\ \A s \in Places(c, fun) : s[1] \in Nat /\ s[2] \in Nat /\ s[3] \in Nat
         /\ \A i \in DOMAIN c.layouts : \A j \in DOMAIN c.layouts[i] :
              Reached(c, fun, i, j) => \A x \in 1..Room(fun, c.layouts[i][j]) : <<i, j, x>> \in Places(c, fun)
<1>1. ASSUME NEW s \in Places(c, fun) PROVE s[1] \in Nat /\ s[2] \in Nat /\ s[3] \in Nat
  <2>0. PICK i \in DOMAIN c.layouts : \E j \in DOMAIN c.layouts[i] :
          \E x \in 1..Room(fun, c.layouts[i][j]) : s = <<i, j, x>>
    BY <1>1 DEF Places
  <2>1. PICK j \in DOMAIN c.layouts[i] : \E x \in 1..Room(fun, c.layouts[i][j]) : s = <<i, j, x>>
    BY <2>0
  <2>2. Room(fun, c.layouts[i][j]) \in Nat
    BY CfgFacts DEF Room
  <2>3. PICK x \in 1..Room(fun, c.layouts[i][j]) : s = <<i, j, x>>
    BY <2>1
  <2>4. i \in Nat /\ j \in Nat
    BY CfgFacts
  <2>5. x \in Nat
    BY <2>2, <2>3
  <2>. QED
    BY <2>3, <2>4, <2>5
<1>2. ASSUME NEW i \in DOMAIN c.layouts, NEW j \in DOMAIN c.layouts[i], Reached(c, fun, i, j),
             NEW x \in 1..Room(fun, c.layouts[i][j])
      PROVE  <<i, j, x>> \in Places(c, fun)
  BY <1>2 DEF Places
<1>. QED
  BY <1>1, <1>2

LEMMA FiniteImage == ASSUME NEW S, IsFiniteSet(S), NEW f PROVE IsFiniteSet({f[x] : x \in S})
<1>. DEFINE T == {f[x] : x \in S}
            g == [x \in S |-> f[x]]
<1>1. g \in Surjection(S, T)
  BY DEF Surjection
<1>. HIDE DEF g, T
<1>2. IsFiniteSet(T)
  BY <1>1, FS_Surjection
<1>. QED
  BY <1>2 DEF T

LEMMA FiniteUnion ==
  ASSUME NEW S, IsFiniteSet(S), NEW f, \A x \in S : IsFiniteSet(f[x])
  PROVE  IsFiniteSet(UNION {f[x] : x \in S})
<1>. DEFINE T == {f[x] : x \in S}
<1>1. IsFiniteSet(T)
  BY FiniteImage
<1>2. \A t \in T : IsFiniteSet(t)
  OBVIOUS
<1>. HIDE DEF T
<1>3. IsFiniteSet(UNION T)
  BY <1>1, <1>2, FS_UNION
<1>. QED
  BY <1>3 DEF T

LEMMA PlacesFinite == ASSUME NEW c \in NodeCfgs, NEW fun PROVE IsFiniteSet(Places(c, fun))
<1>. DEFINE Numbers(i, j) == IF Reached(c, fun, i, j) THEN 1..Room(fun, c.layouts[i][j]) ELSE {}
            Here(i, j)    == {<<i, j, x>> : x \in Numbers(i, j)}
            Layout(i)     == UNION {Here(i, j) : j \in DOMAIN c.layouts[i]}
<1>1. ASSUME NEW i \in DOMAIN c.layouts, NEW j \in DOMAIN c.layouts[i] PROVE IsFiniteSet(Here(i, j))
  <2>1. Room(fun, c.layouts[i][j]) \in Nat
    BY CfgFacts DEF Room
  <2>2. IsFiniteSet(Numbers(i, j))
    BY <2>1, FS_Interval, FS_EmptySet
  <2>. DEFINE f == [x \in Numbers(i, j) |-> <<i, j, x>>]
  <2>3. Here(i, j) = {f[x] : x \in Numbers(i, j)}
    OBVIOUS
  <2>. HIDE DEF f
  <2>. DEFINE S == Numbers(i, j)
  <2>4. IsFiniteSet(S)
    BY <2>2
  <2>. HIDE DEF S
  <2>5. IsFiniteSet({f[x] : x \in S})
    BY <2>4, FiniteImage
  <2>. QED
    BY <2>3, <2>5 DEF S
<1>. HIDE DEF Here
<1>2. ASSUME NEW i \in DOMAIN c.layouts PROVE IsFiniteSet(Layout(i))
  <2>. DEFINE f == [j \in DOMAIN c.layouts[i] |-> Here(i, j)]
  <2>1. IsFiniteSet(DOMAIN c.layouts[i])
    BY CfgFacts, FS_Interval
  <2>2. \A j \in DOMAIN c.layouts[i] : IsFiniteSet(f[j])
    BY <1>1
  <2>3. Layout(i) = UNION {f[j] : j \in DOMAIN c.layouts[i]}
    OBVIOUS
  <2>. HIDE DEF f
  <2>. DEFINE S == DOMAIN c.layouts[i]
  <2>4. IsFiniteSet(S) /\ \A j \in S : IsFiniteSet(f[j])
    BY <2>1, <2>2
  <2>. HIDE DEF S
  <2>5. IsFiniteSet(UNION {f[j] : j \in S})
    BY <2>4, FiniteUnion
  <2>. QED
    BY <2>3, <2>5 DEF S
<1>3. Places(c, fun) = UNION {Layout(i) : i \in DOMAIN c.layouts}
  BY DEF Places, Here
<1>. HIDE DEF Layout
<1>. DEFINE f == [i \in DOMAIN c.layouts |-> Layout(i)]
<1>4. IsFiniteSet(DOMAIN c.layouts)
  BY CfgFacts, FS_Interval
<1>5. \A i \in DOMAIN c.layouts : IsFiniteSet(f[i])
  BY <1>2
<1>6. Places(c, fun) = UNION {f[i] : i \in DOMAIN c.layouts}
  BY <1>3
<1>. HIDE DEF f
<1>. QED
  BY <1>4, <1>5, <1>6, FiniteUnion

LEMMA TakenFacts ==
  ASSUME NEW c \in NodeCfgs, NEW fun \in {"EVALUATE", "SUBMIT"}, NEW i \in Nat, NEW j \in Nat, NEW x \in Nat
  PROVE  /\ IsFiniteSet(Taken(c, fun, i, j, x)) /\ Cardinality(Taken(c, fun, i, j, x)) \in Nat
         /\ Cardinality(Places(c, fun)) \in Nat
         /\ Cardinality(Taken(c, fun, i, j, x)) <= Cardinality(Places(c, fun))
<1>1. IsFiniteSet(Places(c, fun))
  BY PlacesFinite
<1>2. Taken(c, fun, i, j, x) \subseteq Places(c, fun)
  BY DEF Taken
<1>. QED
  BY <1>1, <1>2, FS_Subset, FS_CardinalityType

\* No place is given back.
LEMMA TakenMonotone ==
  ASSUME NEW c \in NodeCfgs, NEW fun \in {"EVALUATE", "SUBMIT"},
         NEW i \in Nat, NEW j \in Nat, NEW x \in Nat, NEW ii \in Nat, NEW jj \in Nat, NEW xx \in Nat,
         i < ii \/ (i = ii /\ j < jj) \/ (i = ii /\ j = jj /\ x <= xx)
  PROVE  Cardinality(Taken(c, fun, i, j, x)) <= Cardinality(Taken(c, fun, ii, jj, xx))
<1>1. IsFiniteSet(Taken(c, fun, ii, jj, xx))
  BY TakenFacts
<1>2. Taken(c, fun, i, j, x) \subseteq Taken(c, fun, ii, jj, xx)
  BY PlaceFacts DEF Taken
<1>. QED
  BY <1>1, <1>2, FS_Subset

\* The next answer of a group has a place of its own.
LEMMA TakenGrows ==
  ASSUME NEW c \in NodeCfgs, NEW fun \in {"EVALUATE", "SUBMIT"},
         NEW i \in DOMAIN c.layouts, NEW j \in DOMAIN c.layouts[i], Reached(c, fun, i, j), NEW x \in Nat,
         x + 1 <= Room(fun, c.layouts[i][j])
  PROVE  Cardinality(Taken(c, fun, i, j, x)) + 1 <= Cardinality(Taken(c, fun, i, j, x + 1))
<1>. DEFINE T == Taken(c, fun, i, j, x)
            s == <<i, j, x + 1>>
<1>0. i \in Nat /\ j \in Nat /\ x + 1 \in Nat
  BY CfgFacts
<1>1. IsFiniteSet(T) /\ IsFiniteSet(Taken(c, fun, i, j, x + 1)) /\ Cardinality(T) \in Nat
  BY <1>0, TakenFacts
<1>2. s \in Places(c, fun)
  <2>1. Room(fun, c.layouts[i][j]) \in Nat
    BY CfgFacts DEF Room
  <2>2. x + 1 \in 1..Room(fun, c.layouts[i][j])
    BY <2>1
  <2>. QED
    BY <2>2, PlaceFacts
<1>3. s \notin T
  BY <1>0 DEF Taken
<1>4. T \cup {s} \subseteq Taken(c, fun, i, j, x + 1)
  BY <1>0, <1>2, PlaceFacts DEF Taken
<1>5. Cardinality(T \cup {s}) = Cardinality(T) + 1
  BY <1>1, <1>3, FS_AddElement
<1>6. Cardinality(T \cup {s}) <= Cardinality(Taken(c, fun, i, j, x + 1))
  BY <1>1, <1>4, FS_Subset
<1>. QED
  BY <1>5, <1>6

LEMMA FromFacts ==
  ASSUME NEW r \in Seq(RespRec), NEW i, NEW j
  PROVE  IsFiniteSet(From(r, i, j)) /\ Cardinality(From(r, i, j)) \in Nat
<1>1. IsFiniteSet(1..Len(r))
  BY FS_Interval
<1>2. From(r, i, j) \subseteq 1..Len(r)
  BY DEF From
<1>. QED
  BY <1>1, <1>2, FS_Subset, FS_CardinalityType

\* An answer more.
LEMMA FromAppend ==
  ASSUME NEW r \in Seq(RespRec), NEW a \in RespRec, NEW i, NEW j
  PROVE  /\ Cardinality(From(Append(r, a), i, j)) \in Nat
         /\ Cardinality(From(r, i, j)) <= Cardinality(From(Append(r, a), i, j))
         /\ a.i = i /\ a.j = j => Cardinality(From(r, i, j)) + 1 <= Cardinality(From(Append(r, a), i, j))
<1>. DEFINE s == Append(r, a)
<1>0. /\ s \in Seq(RespRec) /\ Len(r) \in Nat /\ DOMAIN r = 1..Len(r) /\ DOMAIN s = 1..(Len(r) + 1)
      /\ s[Len(r) + 1] = a /\ \A x \in 1..Len(r) : s[x] = r[x]
  OBVIOUS
<1>. HIDE DEF s
<1>1. IsFiniteSet(From(r, i, j)) /\ IsFiniteSet(From(s, i, j)) /\ Cardinality(From(r, i, j)) \in Nat
      /\ Cardinality(From(s, i, j)) \in Nat
  BY <1>0, FromFacts
<1>2. From(r, i, j) \subseteq From(s, i, j)
  BY <1>0 DEF From
<1>3. ASSUME a.i = i, a.j = j PROVE Cardinality(From(r, i, j)) + 1 <= Cardinality(From(s, i, j))
  <2>1. From(r, i, j) \cup {Len(r) + 1} \subseteq From(s, i, j)
    BY <1>0, <1>2, <1>3 DEF From
  <2>2. Len(r) + 1 \notin From(r, i, j)
    BY <1>0 DEF From
  <2>3. Cardinality(From(r, i, j) \cup {Len(r) + 1}) = Cardinality(From(r, i, j)) + 1
    BY <1>1, <2>2, FS_AddElement
  <2>4. Cardinality(From(r, i, j) \cup {Len(r) + 1}) <= Cardinality(From(s, i, j))
    BY <1>1, <2>1, FS_Subset
  <2>. QED
    BY <2>3, <2>4
<1>. QED
  BY <1>1, <1>2, <1>3, FS_Subset DEF s
----------------------------------------------------------------------------
(* TxExec goes on, or returns.                                             *)

\* What a step of TxExec that is not a request leaves alone.
Running ==
  /\ chain \notin Versions /\ exec # NoExec
  /\ rpc.st # "sent" /\ rpc' = NoRpc
  /\ UNCHANGED <<chain, cfg, node, cm, block>>
  /\ faults' \in FaultRec /\ faults.seen \subseteq faults'.seen

LEMMA FaultFacts ==
  ASSUME TypeInv, UNCHANGED faults \/ \E kind : Fault(kind)
  PROVE  faults' \in FaultRec /\ faults.seen \subseteq faults'.seen
<1>0. faults \in FaultRec
  BY DEF TypeInv
<1>1. ASSUME NEW kind, Fault(kind) PROVE faults' \in FaultRec /\ faults.seen \subseteq faults'.seen
  BY <1>0, <1>1 DEF Fault, MayFail, FaultRec
<1>. QED
  BY <1>0, <1>1

LEMMA EmptyBufType == EmptyBuf \in BufRec /\ EmptyBuf.may = {NoAnswer}
BY DEF EmptyBuf, BufRec

LEMMA BufType ==
  ASSUME NEW h \in Http2Rec, NEW b \in BufRec
  PROVE  /\ [h EXCEPT !.buf = b] \in Http2Rec
         /\ [h EXCEPT !.buf = b].buf = b /\ [h EXCEPT !.buf = b].open = h.open
BY DEF Http2Rec

\* What the loops do not touch stays right.
LEMMA RunningKeeps ==
  ASSUME Inv, Running, NEW b \in BufRec, http2' = [http2 EXCEPT !.buf = b]
  PROVE  RpcInv' /\ SentInv' /\ http2' \in Http2Rec
<1>0. http2 \in Http2Rec /\ RpcInv /\ SentInv
  BY DEF Inv, TypeInv
<1>1. http2' \in Http2Rec /\ http2'.open = http2.open
  BY <1>0, BufType
<1>2. rpc'.st = "idle"
  BY DEF Running, NoRpc
<1>3. faults'.seen = {} => http2'.open = 0
  BY <1>0, <1>1 DEF RpcInv, Sockets, Running
<1>4. RpcInv'
  BY <1>2, <1>3 DEF RpcInv, Sockets, Running
<1>5. SentInv'
  BY <1>0 DEF SentInv, Running
<1>. QED
  BY <1>1, <1>4, <1>5

LEMMA ReturnKeeps ==
  ASSUME Inv, Running, NEW code, NEW t \in TxRec, Current(t), Return(code, t),
         t.response = <<>> \/ (exec.fun = "SUBMIT" /\ code # "SUCCESS"),
         chain = "HWBCS" /\ exec.fun = "SUBMIT" /\ code = "SUCCESS" => t.nonce = tx.nonce /\ Ordered
  PROVE  Inv'
<1>1. /\ exec' = NoExec /\ ret' = [op |-> exec.fun, code |-> code]
      /\ tx' = [t EXCEPT !.left = IF exec.fun = "SUBMIT" /\ code # "SUCCESS" THEN Len(t.response) ELSE 0]
      /\ http2' = [http2 EXCEPT !.buf = EmptyBuf]
  BY DEF Return
<1>2. /\ tx' \in TxRec /\ tx'.nonce = t.nonce /\ tx'.evaluateRes = t.evaluateRes
      /\ Len(tx'.response) <= tx'.left
  <2>1. t.response \in Seq(RespRec) /\ Len(t.response) \in Nat
    BY DEF TxRec
  <2>. DEFINE n == IF exec.fun = "SUBMIT" /\ code # "SUCCESS" THEN Len(t.response) ELSE 0
  <2>2. n \in Nat
    BY <2>1
  <2>3. Len(t.response) <= n
    BY <2>1
  <2>4. tx' = [t EXCEPT !.left = n]
    BY <1>1
  <2>. HIDE DEF n
  <2>. QED
    BY <2>2, <2>3, <2>4 DEF TxRec
<1>3. RpcInv' /\ SentInv' /\ http2' \in Http2Rec
  BY <1>1, RunningKeeps, EmptyBufType
<1>4. http2'.buf = EmptyBuf
  BY <1>1, BufType, EmptyBufType DEF Inv, TypeInv
<1>5. TypeInv'
  BY <1>1, <1>2, <1>3 DEF Inv, TypeInv, Running, RpcSet
<1>6. LoopInv'
  BY <1>1, <1>2 DEF LoopInv, Current
<1>7. BufInv'
  BY <1>1, <1>4, EmptyBufType DEF BufInv
<1>8. RetInv'
  <2>1. chain \notin Versions /\ UNCHANGED <<chain, node>>
    BY DEF Running
  <2>2. chain' = "HWBCS" /\ ret' = [op |-> "SUBMIT", code |-> "SUCCESS"] => Ordered'
    <3>1. SUFFICES ASSUME chain' = "HWBCS", ret' = [op |-> "SUBMIT", code |-> "SUCCESS"] PROVE Ordered'
      OBVIOUS
    <3>2. exec.fun = "SUBMIT" /\ code = "SUCCESS"
      BY <3>1, <1>1
    <3>. QED
      BY <3>1, <3>2, <2>1, <1>2 DEF Ordered, Accepted
  <2>. QED
    BY <1>1, <2>1, <2>2 DEF RetInv, Versions
<1>. QED
  BY <1>3, <1>5, <1>6, <1>7, <1>8 DEF Inv

LEMMA ContinueKeeps ==
  ASSUME Inv, Running, NEW e, NEW t, NEW buf, Continue(e, buf, t),
         LoopOK(cfg, [e EXCEPT !.st = "ask"], t), [e EXCEPT !.st = "ask"] # NoExec,
         [e EXCEPT !.st = "ask"].st = "ask",
         \/ buf = EmptyBuf
         \/ /\ buf \in BufRec /\ buf.may = http2.buf.may /\ buf.len = http2.buf.len
            /\ t.nonce = tx.nonce /\ [e EXCEPT !.st = "ask"].type = exec.type
  PROVE  Inv'
<1>. DEFINE f == [e EXCEPT !.st = "ask"]
<1>1. exec' = f /\ tx' = t /\ http2' = [http2 EXCEPT !.buf = buf] /\ UNCHANGED ret
  BY DEF Continue
<1>. HIDE DEF f
<1>2. buf \in BufRec
  BY EmptyBufType
<1>3. RpcInv' /\ SentInv' /\ http2' \in Http2Rec
  BY <1>1, <1>2, RunningKeeps
<1>4. http2'.buf = buf
  BY <1>1, <1>2, BufType DEF Inv, TypeInv
<1>5. f \in LoopRec /\ t \in TxRec /\ Current(t) /\ f # NoExec /\ f.st = "ask"
  BY DEF LoopOK, f
<1>6. TypeInv'
  BY <1>1, <1>3, <1>5 DEF Inv, TypeInv, Running, RpcSet
<1>7. LoopInv'
  BY <1>1, <1>5 DEF LoopInv, Running, f
<1>8. BufInv'
  <2>1. CASE buf = EmptyBuf
    BY <2>1, <1>1, <1>4, <1>5, EmptyBufType DEF BufInv
  <2>2. CASE buf.may = http2.buf.may /\ buf.len = http2.buf.len /\ t.nonce = tx.nonce /\ f.type = exec.type
    <3>1. Ordered => Ordered'
      BY <2>2, <1>1 DEF Ordered, Accepted, Running
    <3>2. Executed => Executed'
      BY DEF Executed, Running
    <3>. QED
      BY <2>2, <1>1, <1>4, <1>5, <3>1, <3>2 DEF Inv, BufInv, Running
  <2>. QED
    BY <2>1, <2>2 DEF f
<1>9. RetInv'
  BY <1>1, <1>5 DEF Inv, RetInv, Running, NoRet
<1>. QED
  BY <1>3, <1>6, <1>7, <1>8, <1>9 DEF Inv

LEMMA FreedType ==
  ASSUME NEW t \in TxRec
  PROVE  /\ Freed(t) \in TxRec /\ Freed(t).response = <<>> /\ Freed(t).nonce = t.nonce
         /\ Freed(t).evaluateRes = t.evaluateRes /\ Freed(t).left = t.left
<1>1. <<>> \in Seq(RespRec)
  OBVIOUS
<1>. QED
  BY <1>1 DEF Freed, TxRec

LEMMA TransactionType ==
  /\ Transaction \in LoopRec /\ Transaction # NoExec /\ Transaction.fun = "SUBMIT"
  /\ Transaction.type = "TRANSACTION" /\ Transaction.st = "pack"
<1>1. Transaction = [fun |-> "SUBMIT", type |-> "TRANSACTION", i |-> 1, j |-> 1, k |-> 1, valid |-> 0,
                     result |-> "SUCCESS", st |-> "pack"]
  BY DEF Transaction, Proposal
<1>2. NoExec.fun = "none"
  BY DEF NoExec
<1>3. Transaction \in LoopRec
  BY <1>1 DEF LoopRec, Codes
<1>4. Transaction.fun = "SUBMIT" /\ Transaction.type = "TRANSACTION" /\ Transaction.st = "pack"
  BY <1>1
<1>. QED
  BY <1>2, <1>3, <1>4

\* TxExec ends; the first half of a Submit hands complete endorsements to the second.
LEMMA ExecReturnsKeeps ==
  ASSUME Inv, Running, NEW result, NEW t \in TxRec, Current(t), ExecReturns(result, t),
         exec.fun = "SUBMIT" /\ exec.type = "PROPOSAL" /\ result = "SUCCESS" =>
           /\ t.left = 0 => Own(t) /\ Complete(cfg, t.response)
           /\ Len(t.response) <= t.left + Cardinality(Places(cfg, "SUBMIT")),
         chain = "HWBCS" /\ exec.type # "PROPOSAL" /\ result = "SUCCESS" => t.nonce = tx.nonce /\ Ordered
  PROVE  Inv'
<1>1. CASE exec.fun = "SUBMIT" /\ exec.type = "PROPOSAL" /\ result = "SUCCESS"
  <2>1. exec' = Transaction /\ tx' = t /\ http2' = [http2 EXCEPT !.buf = EmptyBuf] /\ UNCHANGED ret
    BY <1>1 DEF ExecReturns
  <2>2. RpcInv' /\ SentInv' /\ http2' \in Http2Rec
    BY <2>1, RunningKeeps, EmptyBufType
  <2>3. http2'.buf = EmptyBuf
    BY <2>1, BufType, EmptyBufType DEF Inv, TypeInv
  <2>4. TypeInv'
    BY <2>1, <2>2, TransactionType DEF Inv, TypeInv, Running, RpcSet
  <2>5. LoopOK(cfg, Transaction, t)
    BY <1>1, TransactionType DEF LoopOK, Collected, Fits
  <2>6. LoopInv'
    BY <2>1, <2>5, TransactionType DEF LoopInv, Running
  <2>7. BufInv'
    BY <2>1, <2>3, EmptyBufType DEF BufInv
  <2>8. RetInv'
    BY <2>1, TransactionType DEF Inv, RetInv, Running, NoRet
  <2>. QED
    BY <2>2, <2>4, <2>6, <2>7, <2>8 DEF Inv
<1>2. CASE ~(exec.fun = "SUBMIT" /\ exec.type = "PROPOSAL" /\ result = "SUCCESS")
  <2>1. CASE exec.fun = "SUBMIT" /\ result # "SUCCESS"
    <3>1. Return(result, t)
      BY <1>2, <2>1 DEF ExecReturns
    <3>. QED
      BY <2>1, <3>1, ReturnKeeps
  <2>2. CASE ~(exec.fun = "SUBMIT" /\ result # "SUCCESS")
    <3>1. Return(result, Freed(t))
      BY <1>2, <2>2 DEF ExecReturns
    <3>2. Current(Freed(t))
      BY FreedType DEF Current
    <3>3. chain = "HWBCS" /\ exec.fun = "SUBMIT" /\ result = "SUCCESS" => Freed(t).nonce = tx.nonce /\ Ordered
      BY <1>2, FreedType
    <3>. QED
      BY <3>1, <3>2, <3>3, FreedType, ReturnKeeps
  <2>. QED
    BY <2>1, <2>2
<1>. QED
  BY <1>1, <1>2

----------------------------------------------------------------------------
(* The loops over layouts, groups and endorsers.                           *)

\* The loops are at e, with the answers of t, of which x are of this group.
InLoop(e, t, x) ==
  /\ exec.type = "PROPOSAL" /\ e \in LoopRec /\ e.type = "PROPOSAL" /\ e.fun = exec.fun
  /\ cfg \in NodeCfgs /\ e.i \in DOMAIN cfg.layouts /\ e.j \in DOMAIN cfg.layouts[e.i]
  /\ Reached(cfg, e.fun, e.i, e.j) /\ (e.fun = "EVALUATE" => e.valid = 0)
  /\ t \in TxRec /\ Current(t) /\ x \in Nat
  /\ t.left = 0 => Own(t) /\ SoFar(cfg, e, t.response)
  /\ Len(t.response) <= t.left + Cardinality(Taken(cfg, e.fun, e.i, e.j, x))

\* The response buffer is the one that was received, or empty.
GoesOn(buf, t) ==
  \/ buf = EmptyBuf
  \/ buf \in BufRec /\ buf.may = http2.buf.may /\ buf.len = http2.buf.len /\ t.nonce = tx.nonce

\* The first endorser of a group.
FirstOf(e, i, j) == [e EXCEPT !.i = i, !.j = j, !.k = 1, !.valid = 0, !.st = "ask"]

LEMMA PlaceNumbers ==
  ASSUME NEW c \in NodeCfgs, NEW i \in DOMAIN c.layouts, NEW j \in DOMAIN c.layouts[i]
  PROVE  i \in Nat /\ j \in Nat
<1>1. i \in 1..Len(c.layouts) /\ Len(c.layouts) \in Nat
  BY CfgFacts
<1>2. j \in 1..Len(c.layouts[i]) /\ Len(c.layouts[i]) \in Nat
  BY CfgFacts
<1>. QED
  BY <1>1, <1>2

LEMMA LoopNumbers ==
  ASSUME NEW e, NEW t, NEW x, InLoop(e, t, x)
  PROVE  /\ e.i \in Nat /\ e.j \in Nat /\ e.valid \in Nat /\ e.k \in Nat /\ e.fun \in {"EVALUATE", "SUBMIT"}
         /\ GroupOf(e).n \in Nat /\ GroupOf(e).q \in Nat
         /\ Cardinality(Taken(cfg, e.fun, e.i, e.j, x)) \in Nat
         /\ Len(t.response) \in Nat /\ t.response \in Seq(RespRec) /\ t.left \in Nat
<1>1. e.i \in Nat /\ e.j \in Nat /\ e.valid \in Nat /\ e.k \in Nat /\ e.fun \in {"EVALUATE", "SUBMIT"}
  BY DEF InLoop, LoopRec
<1>2. GroupOf(e).n \in Nat /\ GroupOf(e).q \in Nat
  BY CfgFacts DEF InLoop, GroupOf
<1>3. Cardinality(Taken(cfg, e.fun, e.i, e.j, x)) \in Nat
  BY <1>1, TakenFacts DEF InLoop
<1>4. t.response \in Seq(RespRec) /\ t.left \in Nat
  BY DEF InLoop, TxRec
<1>. QED
  BY <1>1, <1>2, <1>3, <1>4

LEMMA FirstKeeps ==
  ASSUME Inv, Running, NEW e, NEW t, NEW x, NEW buf, InLoop(e, t, x), GoesOn(buf, t),
         NEW i \in DOMAIN cfg.layouts, NEW j \in DOMAIN cfg.layouts[i],
         \/ i = e.i /\ j = e.j + 1 /\ e.valid >= GroupOf(e).q
         \/ i > e.i /\ j = 1,
         Reached(cfg, e.fun, i, j),
         NEW f, [f EXCEPT !.st = "ask"] = FirstOf(e, i, j), Continue(f, buf, t)
  PROVE  Inv'
<1>. DEFINE g == FirstOf(e, i, j)
<1>0. e \in LoopRec /\ cfg \in NodeCfgs /\ i \in Nat /\ j \in Nat
  <2>1. e \in LoopRec /\ cfg \in NodeCfgs
    BY DEF InLoop
  <2>. QED
    BY <2>1, PlaceNumbers
<1>1. /\ g \in LoopRec /\ g.type = "PROPOSAL" /\ g.fun = e.fun /\ g.st = "ask" /\ g # NoExec
      /\ g.i = i /\ g.j = j /\ g.k = 1 /\ g.valid = 0
  BY <1>0 DEF InLoop, LoopRec, FirstOf, NoExec
<1>. HIDE DEF g
<1>2. Position(cfg, g)
  BY <1>0, <1>1, CfgFacts DEF Position
<1>3. t.left = 0 => SoFar(cfg, g, t.response)
  <2>1. SUFFICES ASSUME t.left = 0 PROVE SoFar(cfg, g, t.response)
    OBVIOUS
  <2>2. SoFar(cfg, e, t.response) /\ t.response \in Seq(RespRec)
    BY <2>1, LoopNumbers DEF InLoop
  <2>3. Cardinality(From(t.response, i, j)) >= 0
    BY <2>2, FromFacts
  <2>4. ASSUME NEW y \in DOMAIN cfg.layouts[i], y < j
        PROVE  Cardinality(From(t.response, i, y)) >= cfg.layouts[i][y].q
    <3>1. y \in Nat /\ y # 0
      BY <1>0, <2>4, CfgFacts
    <3>2. i = e.i /\ j = e.j + 1 /\ e.valid >= GroupOf(e).q
      BY <2>4, <3>1
    <3>3. CASE y < e.j
      BY <2>2, <2>4, <3>2, <3>3 DEF SoFar
    <3>4. CASE ~(y < e.j)
      <4>1. y = e.j
        BY <2>4, <3>1, <3>2, <3>4, LoopNumbers
      <4>2. Cardinality(From(t.response, i, y)) \in Nat
        BY <2>2, FromFacts
      <4>3. Cardinality(From(t.response, e.i, e.j)) >= e.valid
        BY <2>2 DEF SoFar
      <4>4. e.valid \in Nat /\ cfg.layouts[i][y].q \in Nat /\ cfg.layouts[i][y].q <= e.valid
        BY <3>2, <4>1, LoopNumbers DEF GroupOf
      <4>5. Cardinality(From(t.response, i, y)) >= e.valid
        BY <3>2, <4>1, <4>3
      <4>. QED
        BY <4>2, <4>4, <4>5
    <3>. QED
      BY <3>3, <3>4
  <2>. QED
    BY <1>1, <2>3, <2>4 DEF SoFar
<1>4. Fits(cfg, g, t)
  <2>2. TakenAt(cfg, g) = Taken(cfg, e.fun, i, j, 0)
    BY <1>1 DEF TakenAt
  <2>3. Cardinality(Taken(cfg, e.fun, e.i, e.j, x)) <= Cardinality(Taken(cfg, e.fun, i, j, 0))
    <3>1. e.i < i \/ (e.i = i /\ e.j < j)
      BY <1>0, LoopNumbers
    <3>. QED
      BY <1>0, <3>1, LoopNumbers, TakenMonotone DEF InLoop
  <2>4. Cardinality(Taken(cfg, e.fun, i, j, 0)) \in Nat
    BY <1>0, LoopNumbers, TakenFacts
  <2>5. Len(t.response) <= t.left + Cardinality(Taken(cfg, e.fun, e.i, e.j, x))
    BY DEF InLoop
  <2>6. Len(t.response) \in Nat /\ t.left \in Nat /\ Cardinality(Taken(cfg, e.fun, e.i, e.j, x)) \in Nat
    BY LoopNumbers
  <2>7. Len(t.response) <= t.left + Cardinality(TakenAt(cfg, g))
    BY <2>2, <2>3, <2>4, <2>5, <2>6
  <2>. QED
    BY <1>1, <2>7 DEF Fits
<1>5. LoopOK(cfg, g, t)
  BY <1>1, <1>2, <1>3, <1>4 DEF LoopOK, Collected, InLoop
<1>6. g.type = exec.type
  BY <1>1 DEF InLoop
<1>. QED
  BY <1>1, <1>5, <1>6, ContinueKeeps DEF GoesOn, g

\* The last group of a layout has what it needs.
LEMMA LayoutComplete ==
  ASSUME NEW e, NEW t, NEW x, InLoop(e, t, x), t.left = 0, e.j = Len(cfg.layouts[e.i]), e.valid >= GroupOf(e).q
  PROVE  Complete(cfg, t.response)
<1>1. SoFar(cfg, e, t.response)
  BY DEF InLoop
<1>2. ASSUME NEW j \in DOMAIN cfg.layouts[e.i]
      PROVE  Cardinality(From(t.response, e.i, j)) >= cfg.layouts[e.i][j].q
  <2>1. CASE j < e.j
    BY <1>1, <1>2, <2>1 DEF SoFar
  <2>2. CASE ~(j < e.j)
    <3>1. j = e.j
      BY <1>2, <2>2, LoopNumbers, CfgFacts DEF InLoop
    <3>2. Cardinality(From(t.response, e.i, e.j)) \in Nat
      BY LoopNumbers, FromFacts
    <3>. QED
      BY <3>1, <3>2, <1>1, LoopNumbers DEF SoFar, GroupOf
  <2>. QED
    BY <2>1, <2>2
<1>. QED
  BY <1>2 DEF Complete, InLoop

LEMMA LayoutFits ==
  ASSUME NEW e, NEW t, NEW x, InLoop(e, t, x), e.fun = "SUBMIT"
  PROVE  Len(t.response) <= t.left + Cardinality(Places(cfg, "SUBMIT"))
<1>1. /\ cfg \in NodeCfgs /\ x \in Nat
      /\ Len(t.response) <= t.left + Cardinality(Taken(cfg, "SUBMIT", e.i, e.j, x))
  BY DEF InLoop
<1>2. /\ Cardinality(Taken(cfg, "SUBMIT", e.i, e.j, x)) <= Cardinality(Places(cfg, "SUBMIT"))
      /\ Cardinality(Places(cfg, "SUBMIT")) \in Nat
      /\ Cardinality(Taken(cfg, "SUBMIT", e.i, e.j, x)) \in Nat
  BY <1>1, LoopNumbers, TakenFacts
<1>. QED
  BY <1>1, <1>2, LoopNumbers

\* The group behind a group that has what it needs, and the layout behind one
\* whose last group needs nothing, are reached.
LEMMA ReachedNext ==
  ASSUME NEW e, NEW t, NEW x, InLoop(e, t, x), e.valid >= GroupOf(e).q
  PROVE  /\ Reached(cfg, e.fun, e.i, e.j + 1)
         /\ e.j = Len(cfg.layouts[e.i]) /\ e.valid = 0 => Reached(cfg, e.fun, e.i + 1, 1)
<1>0. /\ cfg \in NodeCfgs /\ e.i \in Nat /\ e.j \in Nat /\ GroupOf(e).q \in Nat
      /\ Reached(cfg, e.fun, e.i, e.j) /\ (e.fun = "EVALUATE" => e.valid = 0)
  BY LoopNumbers DEF InLoop
<1>1. e.valid = 0 => cfg.layouts[e.i][e.j].q = 0
  BY <1>0 DEF GroupOf
<1>2. ASSUME NEW ii \in DOMAIN cfg.layouts, NEW jj \in DOMAIN cfg.layouts[ii]
      PROVE  /\ ii \in Nat /\ jj \in Nat /\ 1 <= jj /\ jj <= Len(cfg.layouts[ii]) /\ Len(cfg.layouts[ii]) \in Nat
             /\ (IF e.fun = "EVALUATE" THEN ii < e.i \/ (ii = e.i /\ jj < e.j)
                 ELSE ii < e.i /\ jj = Len(cfg.layouts[ii])) => cfg.layouts[ii][jj].q = 0
  BY <1>0, <1>2, CfgFacts DEF Reached
<1>3. Reached(cfg, e.fun, e.i, e.j + 1)
  <2>1. SUFFICES ASSUME NEW ii \in DOMAIN cfg.layouts, NEW jj \in DOMAIN cfg.layouts[ii],
                        IF e.fun = "EVALUATE" THEN ii < e.i \/ (ii = e.i /\ jj < e.j + 1)
                        ELSE ii < e.i /\ jj = Len(cfg.layouts[ii])
                 PROVE  cfg.layouts[ii][jj].q = 0
    BY DEF Reached
  <2>2. CASE e.fun = "EVALUATE" /\ ii = e.i /\ jj = e.j
    BY <1>0, <1>1, <2>2
  <2>3. CASE ~(e.fun = "EVALUATE" /\ ii = e.i /\ jj = e.j)
    BY <1>0, <1>2, <2>1, <2>3
  <2>. QED
    BY <2>2, <2>3
<1>4. ASSUME e.j = Len(cfg.layouts[e.i]), e.valid = 0 PROVE Reached(cfg, e.fun, e.i + 1, 1)
  <2>1. SUFFICES ASSUME NEW ii \in DOMAIN cfg.layouts, NEW jj \in DOMAIN cfg.layouts[ii],
                        IF e.fun = "EVALUATE" THEN ii < e.i + 1 \/ (ii = e.i + 1 /\ jj < 1)
                        ELSE ii < e.i + 1 /\ jj = Len(cfg.layouts[ii])
                 PROVE  cfg.layouts[ii][jj].q = 0
    BY DEF Reached
  <2>2. CASE ii = e.i /\ jj = e.j
    BY <1>1, <1>4, <2>2
  <2>3. CASE ~(ii = e.i /\ jj = e.j)
    BY <1>0, <1>2, <1>4, <2>1, <2>3
  <2>. QED
    BY <2>2, <2>3
<1>. QED
  BY <1>3, <1>4

LEMMA NextGroupKeeps ==
  ASSUME Inv, Running, NEW e, NEW t, NEW x, NEW buf, InLoop(e, t, x), GoesOn(buf, t),
         e.valid >= GroupOf(e).q, e.valid = 0 \/ e.j # Len(cfg.layouts[e.i]), NextGroup(e, buf, t)
  PROVE  Inv'
<1>0. e \in LoopRec /\ cfg \in NodeCfgs /\ e.i \in DOMAIN cfg.layouts /\ e.j \in DOMAIN cfg.layouts[e.i]
  BY DEF InLoop
<1>1. CASE e.j < Len(cfg.layouts[e.i])
  <2>. DEFINE f == [e EXCEPT !.j = @ + 1, !.k = 1, !.valid = 0]
  <2>1. Continue(f, buf, t)
    BY <1>1 DEF NextGroup
  <2>2. [f EXCEPT !.st = "ask"] = FirstOf(e, e.i, e.j + 1)
    BY <1>0 DEF FirstOf, LoopRec
  <2>3. e.j + 1 \in DOMAIN cfg.layouts[e.i]
    BY <1>0, <1>1, CfgFacts
  <2>. HIDE DEF f
  <2>. QED
    BY <1>0, <2>1, <2>2, <2>3, ReachedNext, FirstKeeps
<1>2. CASE ~(e.j < Len(cfg.layouts[e.i])) /\ e.i < Len(cfg.layouts)
  <2>. DEFINE f == [e EXCEPT !.i = @ + 1, !.j = 1, !.k = 1, !.valid = 0]
  <2>1. Continue(f, buf, t)
    BY <1>2 DEF NextGroup
  <2>2. [f EXCEPT !.st = "ask"] = FirstOf(e, e.i + 1, 1)
    BY <1>0 DEF FirstOf, LoopRec
  <2>3. e.i + 1 \in DOMAIN cfg.layouts
    BY <1>0, <1>2, CfgFacts
  <2>4. 1 \in DOMAIN cfg.layouts[e.i + 1] /\ e.i + 1 > e.i
    BY <1>0, <2>3, CfgFacts, LoopNumbers
  <2>5. Reached(cfg, e.fun, e.i + 1, 1)
    <3>1. e.j = Len(cfg.layouts[e.i])
      BY <1>0, <1>2, CfgFacts
    <3>. QED
      BY <3>1, ReachedNext
  <2>. HIDE DEF f
  <2>. QED
    BY <2>1, <2>2, <2>3, <2>4, <2>5, FirstKeeps
<1>3. CASE ~(e.j < Len(cfg.layouts[e.i])) /\ ~(e.i < Len(cfg.layouts))
  <2>1. ExecReturns(e.result, t)
    BY <1>3 DEF NextGroup
  <2>2. e.j = Len(cfg.layouts[e.i])
    BY <1>0, <1>3, CfgFacts
  <2>. QED
    BY <2>1, <2>2, LayoutComplete, LayoutFits, ExecReturnsKeeps DEF InLoop
<1>. QED
  BY <1>1, <1>2, <1>3

\* A round that does not complete the group.
LEMMA NextEndorserKeeps ==
  ASSUME Inv, Running, NEW e, NEW t, NEW buf, GoesOn(buf, t), NextEndorser(e, buf, t),
         InLoop(e, t, IF e.fun = "EVALUATE" THEN e.k ELSE e.valid),
         e.k \in 1..GroupOf(e).n, e.valid = 0 \/ e.valid < GroupOf(e).q
  PROVE  Inv'
<1>. DEFINE x == IF e.fun = "EVALUATE" THEN e.k ELSE e.valid
<1>0. e \in LoopRec /\ InLoop(e, t, x)
  BY DEF InLoop
<1>. HIDE DEF x
<1>1. CASE e.k < GroupOf(e).n
  <2>. DEFINE f == [e EXCEPT !.k = @ + 1]
              g == [f EXCEPT !.st = "ask"]
  <2>1. Continue(f, buf, t)
    BY <1>1 DEF NextEndorser
  <2>2. /\ g \in LoopRec /\ g.type = "PROPOSAL" /\ g.fun = e.fun /\ g.st = "ask" /\ g # NoExec
        /\ g.i = e.i /\ g.j = e.j /\ g.k = e.k + 1 /\ g.valid = e.valid
    <3>0. e.type = "PROPOSAL"
      BY DEF InLoop
    <3>1. e.k + 1 \in Nat /\ e.fun # "none"
      BY <1>0, LoopNumbers
    <3>2. g = [e EXCEPT !.k = e.k + 1, !.st = "ask"]
      BY <1>0 DEF LoopRec
    <3>3. NoExec.fun = "none"
      BY DEF NoExec
    <3>. HIDE DEF f, g
    <3>. QED
      BY <1>0, <3>0, <3>1, <3>2, <3>3 DEF LoopRec
  <2>. HIDE DEF f, g
  <2>3. Position(cfg, g)
    <3>1. GroupOf(e).n \in Nat /\ e.k \in Nat /\ e.k + 1 \in 1..GroupOf(e).n
      BY <1>0, <1>1, LoopNumbers
    <3>. QED
      BY <1>0, <2>2, <3>1 DEF Position, InLoop, GroupOf
  <2>4. TakenAt(cfg, g) = Taken(cfg, e.fun, e.i, e.j, x)
    <3>1. e.k + 1 - 1 = e.k
      BY <1>0, LoopNumbers
    <3>. QED
      BY <2>2, <3>1 DEF TakenAt, x
  <2>5. LoopOK(cfg, g, t)
    <3>1. Fits(cfg, g, t)
      BY <1>0, <2>2, <2>4 DEF Fits, InLoop
    <3>. QED
      BY <1>0, <2>2, <2>3, <3>1 DEF LoopOK, Collected, InLoop, SoFar
  <2>6. g.type = exec.type
    BY <1>0, <2>2 DEF InLoop
  <2>. QED
    BY <2>1, <2>2, <2>5, <2>6, ContinueKeeps DEF GoesOn, g
<1>2. CASE ~(e.k < GroupOf(e).n) /\ e.valid < GroupOf(e).q
  <2>1. ExecReturns("ERROR", t)
    BY <1>2 DEF NextEndorser
  <2>. QED
    BY <1>0, <2>1, ExecReturnsKeeps DEF InLoop
<1>3. CASE ~(e.k < GroupOf(e).n) /\ ~(e.valid < GroupOf(e).q)
  <2>1. NextGroup(e, buf, t)
    BY <1>3 DEF NextEndorser
  <2>2. e.valid >= GroupOf(e).q /\ e.valid = 0
    BY <1>0, <1>3, LoopNumbers
  <2>. QED
    BY <1>0, <2>1, <2>2, NextGroupKeeps
<1>. QED
  BY <1>1, <1>2, <1>3

\* A round that counts.
LEMMA CountEndorserKeeps ==
  ASSUME Inv, Running, NEW e \in LoopRec, NEW t, CountEndorser(e, t), e.fun = "SUBMIT",
         InLoop([e EXCEPT !.valid = @ + 1], t, e.valid + 1), e.k \in 1..GroupOf(e).n
  PROVE  Inv'
<1>. DEFINE f == [e EXCEPT !.valid = @ + 1]
<1>0. f.fun = "SUBMIT" /\ f.k = e.k /\ f.valid = e.valid + 1 /\ GroupOf(f) = GroupOf(e)
  BY DEF LoopRec, GroupOf
<1>. HIDE DEF f
<1>1. InLoop(f, t, f.valid)
  BY <1>0 DEF f
<1>2. GoesOn(EmptyBuf, t)
  BY DEF GoesOn
<1>3. CASE f.valid < GroupOf(f).q
  <2>1. NextEndorser(f, EmptyBuf, t)
    BY <1>3 DEF CountEndorser, f
  <2>. QED
    BY <1>0, <1>1, <1>2, <1>3, <2>1, NextEndorserKeeps
<1>4. CASE ~(f.valid < GroupOf(f).q)
  <2>1. Counted(f, t)
    BY <1>4 DEF CountEndorser, f
  <2>2. f.valid >= GroupOf(f).q
    BY <1>1, <1>4, LoopNumbers
  <2>3. CASE f.j = Len(cfg.layouts[f.i])
    <3>1. ExecReturns("SUCCESS", t)
      BY <2>1, <2>3 DEF Counted
    <3>. QED
      BY <1>0, <1>1, <2>2, <2>3, <3>1, LayoutComplete, LayoutFits, ExecReturnsKeeps DEF InLoop
  <2>4. CASE f.j # Len(cfg.layouts[f.i])
    BY <1>1, <1>2, <2>1, <2>2, <2>4, NextGroupKeeps DEF Counted
  <2>. QED
    BY <2>3, <2>4
<1>. QED
  BY <1>3, <1>4
----------------------------------------------------------------------------
(* The answer of an endorser or an orderer.                                *)

\* Where TxExec is when it handles the end of a request.
AtAnswer(type) ==
  /\ Inv /\ Running /\ exec.type = type /\ exec.st = "ask" /\ rpc.st = "done"
  /\ cfg \in NodeCfgs /\ exec \in LoopRec /\ tx \in TxRec /\ LoopOK(cfg, exec, tx)

LEMMA AnswerFrame ==
  ASSUME Inv, NEW c \in FabricProtocols, NEW type, After(c, type), Handled,
         UNCHANGED faults \/ \E kind : Fault(kind), UNCHANGED <<cm, block>>
  PROVE  AtAnswer(type)
<1>0. TypeInv
  BY DEF Inv
<1>1. chain \notin Versions /\ exec # NoExec /\ exec.type = type /\ exec.st = "ask" /\ rpc.st = "done"
  BY DEF After, FabricProtocols, Versions
<1>2. rpc.st # "sent" /\ rpc' = NoRpc /\ UNCHANGED <<chain, cfg, node>>
  BY <1>1 DEF Handled
<1>3. faults' \in FaultRec /\ faults.seen \subseteq faults'.seen
  BY <1>0, FaultFacts
<1>4. cfg \in NodeCfgs /\ exec \in LoopRec /\ tx \in TxRec /\ LoopOK(cfg, exec, tx)
  BY <1>1 DEF Inv, TypeInv, LoopInv
<1>. QED
  BY <1>1, <1>2, <1>3, <1>4 DEF AtAnswer, Running

LEMMA WithFacts ==
  ASSUME exec \in LoopRec, NEW result \in Codes
  PROVE  /\ With(result) \in LoopRec /\ With(result).fun = exec.fun /\ With(result).type = exec.type
         /\ With(result).i = exec.i /\ With(result).j = exec.j /\ With(result).k = exec.k
         /\ With(result).valid = exec.valid /\ With(result).st = exec.st /\ With(result).result = result
BY DEF With, LoopRec

LEMMA LoopFacts ==
  ASSUME AtAnswer("PROPOSAL")
  PROVE  /\ Position(cfg, exec) /\ Current(tx)
         /\ exec.i \in Nat /\ exec.j \in Nat /\ exec.k \in Nat /\ exec.valid \in Nat
         /\ exec.fun \in {"EVALUATE", "SUBMIT"}
         /\ exec.i \in DOMAIN cfg.layouts /\ exec.j \in DOMAIN cfg.layouts[exec.i]
         /\ exec.k \in 1..GroupOf(exec).n /\ GroupOf(exec).n \in Nat /\ GroupOf(exec).q \in Nat
         /\ exec.valid = 0 \/ exec.valid < GroupOf(exec).q
         /\ exec.fun = "EVALUATE" => exec.valid = 0
         /\ Reached(cfg, exec.fun, exec.i, exec.j)
         /\ tx.response \in Seq(RespRec) /\ Len(tx.response) \in Nat /\ tx.nonce \in Nat /\ tx.left \in Nat
         /\ tx.left = 0 => Own(tx) /\ SoFar(cfg, exec, tx.response)
         /\ Len(tx.response) <= tx.left + Cardinality(TakenAt(cfg, exec))
<1>1. Position(cfg, exec) /\ Current(tx) /\ cfg \in NodeCfgs /\ exec \in LoopRec /\ tx \in TxRec
  BY DEF AtAnswer, LoopOK
<1>2. /\ exec.i \in Nat /\ exec.j \in Nat /\ exec.k \in Nat /\ exec.valid \in Nat
      /\ exec.fun \in {"EVALUATE", "SUBMIT"}
  BY <1>1 DEF LoopRec
<1>3. tx.response \in Seq(RespRec) /\ Len(tx.response) \in Nat /\ tx.nonce \in Nat /\ tx.left \in Nat
  BY <1>1 DEF TxRec
<1>4. GroupOf(exec).n \in Nat /\ GroupOf(exec).q \in Nat
  BY <1>1, CfgFacts DEF Position, GroupOf
<1>5. exec.type = "PROPOSAL" /\ (tx.left = 0 => Collected(cfg, exec, tx)) /\ Fits(cfg, exec, tx)
  BY DEF AtAnswer, LoopOK
<1>6. Len(tx.response) <= tx.left + Cardinality(TakenAt(cfg, exec))
  BY <1>5 DEF Fits
<1>7. tx.left = 0 => Own(tx) /\ SoFar(cfg, exec, tx.response)
  BY <1>5 DEF Collected
<1>. QED
  BY <1>1, <1>2, <1>3, <1>4, <1>6, <1>7 DEF Position, GroupOf

\* An endorser that is not stored.
LEMMA MissKeeps ==
  ASSUME AtAnswer("PROPOSAL"), NEW result \in Codes, NEW buf, GoesOn(buf, tx),
         NextEndorser(With(result), buf, tx)
  PROVE  Inv'
<1>. DEFINE e == With(result)
            x == IF e.fun = "EVALUATE" THEN e.k ELSE e.valid
            y == IF exec.fun = "EVALUATE" THEN exec.k - 1 ELSE exec.valid
<1>0. Inv /\ Running /\ cfg \in NodeCfgs /\ exec \in LoopRec /\ tx \in TxRec /\ exec.type = "PROPOSAL"
  BY DEF AtAnswer
<1>1. /\ e \in LoopRec /\ e.fun = exec.fun /\ e.type = exec.type /\ e.i = exec.i /\ e.j = exec.j
      /\ e.k = exec.k /\ e.valid = exec.valid
  BY <1>0, WithFacts
<1>. HIDE DEF e
<1>2. x \in Nat /\ y \in Nat /\ y <= x
  <2>1. exec.k \in Nat /\ exec.k >= 1 /\ exec.valid \in Nat
    BY LoopFacts
  <2>. QED
    BY <1>1, <2>1
<1>3. TakenAt(cfg, exec) = Taken(cfg, exec.fun, exec.i, exec.j, y)
  BY DEF TakenAt
<1>. HIDE DEF x, y
<1>4. Len(tx.response) <= tx.left + Cardinality(Taken(cfg, e.fun, e.i, e.j, x))
  <2>1. Cardinality(Taken(cfg, exec.fun, exec.i, exec.j, y)) <= Cardinality(Taken(cfg, exec.fun, exec.i, exec.j, x))
    BY <1>0, <1>2, LoopFacts, TakenMonotone
  <2>2. /\ Cardinality(Taken(cfg, exec.fun, exec.i, exec.j, y)) \in Nat
        /\ Cardinality(Taken(cfg, exec.fun, exec.i, exec.j, x)) \in Nat
    BY <1>0, <1>2, LoopFacts, TakenFacts
  <2>3. Len(tx.response) \in Nat /\ tx.left \in Nat
    BY LoopFacts
  <2>4. Len(tx.response) <= tx.left + Cardinality(Taken(cfg, exec.fun, exec.i, exec.j, y))
    BY <1>3, LoopFacts
  <2>. QED
    BY <1>1, <2>1, <2>2, <2>3, <2>4
<1>5. tx.left = 0 => Own(tx) /\ SoFar(cfg, e, tx.response)
  BY <1>1, LoopFacts DEF SoFar
<1>6. InLoop(e, tx, x)
  BY <1>0, <1>1, <1>2, <1>4, <1>5, LoopFacts DEF InLoop
<1>7. GroupOf(e) = GroupOf(exec)
  BY <1>1 DEF GroupOf
<1>8. e.k \in 1..GroupOf(e).n /\ (e.valid = 0 \/ e.valid < GroupOf(e).q)
  BY <1>1, <1>7, LoopFacts
<1>. QED
  BY <1>0, <1>6, <1>8, NextEndorserKeeps DEF e, x

\* Store adds an answer of this proposal.
LEMMA StoreFacts ==
  ASSUME exec \in LoopRec, tx \in TxRec, Current(tx), NEW type \in {"PROPOSAL", "TRANSACTION"}
  PROVE  LET a == [type |-> type, nonce |-> tx.nonce, i |-> exec.i, j |-> exec.j]
             t == Store(tx, type)
         IN  /\ a \in RespRec /\ t \in TxRec /\ Current(t)
             /\ t.response = Append(tx.response, a) /\ t.nonce = tx.nonce /\ t.left = tx.left
             /\ t.evaluateRes = IF Len(tx.response) >= ENDORSER_MAX_NUM THEN Overrun ELSE tx.evaluateRes
<1>. DEFINE a == [type |-> type, nonce |-> tx.nonce, i |-> exec.i, j |-> exec.j]
            t == Store(tx, type)
<1>1. a \in RespRec
  BY DEF RespRec, LoopRec, TxRec
<1>2. tx.response \in Seq(RespRec)
  BY DEF TxRec
<1>. HIDE DEF a
<1>3. Append(tx.response, a) \in Seq(RespRec)
  BY <1>1, <1>2
<1>4. t = [tx EXCEPT !.response = Append(tx.response, a),
                     !.evaluateRes = IF Len(tx.response) >= ENDORSER_MAX_NUM THEN Overrun ELSE tx.evaluateRes]
  BY DEF Store, a, TxRec
<1>5. tx.evaluateRes \in Nat \cup {Overrun}
  BY DEF TxRec
<1>. HIDE DEF t
<1>6. /\ t \in TxRec /\ t.response = Append(tx.response, a) /\ t.nonce = tx.nonce /\ t.left = tx.left
      /\ t.evaluateRes = IF Len(tx.response) >= ENDORSER_MAX_NUM THEN Overrun ELSE tx.evaluateRes
  BY <1>3, <1>4, <1>5 DEF TxRec
<1>7. Current(t)
  BY <1>6 DEF Current
<1>. QED
  BY <1>1, <1>6, <1>7 DEF a, t

LEMMA StoreLength ==
  ASSUME exec \in LoopRec, tx \in TxRec, Current(tx), NEW type \in {"PROPOSAL", "TRANSACTION"}
  PROVE  Len(Store(tx, type).response) = Len(tx.response) + 1
<1>1. PICK a \in RespRec : Store(tx, type).response = Append(tx.response, a)
  BY StoreFacts
<1>2. tx.response \in Seq(RespRec)
  BY DEF TxRec
<1>. QED
  BY <1>1, <1>2

\* What a stored answer adds to a group.
LEMMA StoreSoFar ==
  ASSUME AtAnswer("PROPOSAL"), tx.left = 0, NEW e, e.i = exec.i, e.j = exec.j,
         e.valid \in {exec.valid, exec.valid + 1}
  PROVE  LET t == Store(tx, "PROPOSAL")
         IN  Own(t) /\ SoFar(cfg, e, t.response)
<1>. DEFINE a == [type |-> "PROPOSAL", nonce |-> tx.nonce, i |-> exec.i, j |-> exec.j]
            t == Store(tx, "PROPOSAL")
            r == tx.response
<1>0. /\ a \in RespRec /\ t.response = Append(r, a) /\ t.nonce = tx.nonce
      /\ a.nonce = tx.nonce /\ a.i = exec.i /\ a.j = exec.j
  BY StoreFacts DEF AtAnswer, LoopOK
<1>1. r \in Seq(RespRec) /\ Own(tx) /\ SoFar(cfg, exec, r) /\ exec.valid \in Nat
  BY LoopFacts
<1>. HIDE DEF a, t, r
<1>2. Own(t)
  <2>1. \A y \in DOMAIN r : r[y].nonce = tx.nonce
    BY <1>1 DEF Own, r
  <2>2. \A y \in DOMAIN Append(r, a) : Append(r, a)[y] = a \/ (y \in DOMAIN r /\ Append(r, a)[y] = r[y])
    BY <1>0, <1>1
  <2>. QED
    BY <1>0, <2>1, <2>2 DEF Own
<1>3. ASSUME NEW j \in DOMAIN cfg.layouts[exec.i], j < exec.j
      PROVE  Cardinality(From(t.response, exec.i, j)) >= cfg.layouts[exec.i][j].q
  <2>1. Cardinality(From(r, exec.i, j)) >= cfg.layouts[exec.i][j].q
    BY <1>1, <1>3 DEF SoFar
  <2>2. /\ Cardinality(From(r, exec.i, j)) <= Cardinality(From(t.response, exec.i, j))
        /\ Cardinality(From(r, exec.i, j)) \in Nat /\ Cardinality(From(t.response, exec.i, j)) \in Nat
    BY <1>0, <1>1, FromAppend, FromFacts
  <2>3. cfg.layouts[exec.i][j].q \in Nat
    BY <1>3, LoopFacts, CfgFacts DEF AtAnswer
  <2>. QED
    BY <2>1, <2>2, <2>3
<1>4. Cardinality(From(t.response, exec.i, exec.j)) >= e.valid
  <2>1. Cardinality(From(r, exec.i, exec.j)) >= exec.valid
    BY <1>1 DEF SoFar
  <2>2. /\ Cardinality(From(r, exec.i, exec.j)) + 1 <= Cardinality(From(t.response, exec.i, exec.j))
        /\ Cardinality(From(r, exec.i, exec.j)) \in Nat /\ Cardinality(From(t.response, exec.i, exec.j)) \in Nat
    BY <1>0, <1>1, FromAppend, FromFacts
  <2>. QED
    BY <1>1, <2>1, <2>2
<1>. QED
  BY <1>2, <1>3, <1>4 DEF SoFar, t

\* A Submit stores and counts an endorsement.
LEMMA StoreCountKeeps ==
  ASSUME AtAnswer("PROPOSAL"), exec.fun = "SUBMIT", CountEndorser(With("SUCCESS"), Store(tx, "PROPOSAL"))
  PROVE  Inv'
<1>. DEFINE e == With("SUCCESS")
            t == Store(tx, "PROPOSAL")
            f == [e EXCEPT !.valid = @ + 1]
<1>0. Inv /\ Running /\ cfg \in NodeCfgs /\ exec \in LoopRec /\ tx \in TxRec /\ exec.type = "PROPOSAL" /\ Current(tx)
  BY DEF AtAnswer, LoopOK
<1>1. /\ e \in LoopRec /\ e.fun = exec.fun /\ e.type = exec.type /\ e.i = exec.i /\ e.j = exec.j
      /\ e.k = exec.k /\ e.valid = exec.valid
  BY <1>0, WithFacts DEF Codes
<1>2. t \in TxRec /\ Current(t) /\ t.left = tx.left
  BY <1>0, StoreFacts
<1>. HIDE DEF e, t
<1>3. e.valid + 1 \in Nat
  BY <1>1, LoopFacts
<1>4. /\ f \in LoopRec /\ f.fun = exec.fun /\ f.type = "PROPOSAL" /\ f.i = exec.i /\ f.j = exec.j
      /\ f.valid = exec.valid + 1
  BY <1>0, <1>1, <1>3 DEF LoopRec
<1>. HIDE DEF f
<1>5. tx.left = 0 => Own(t) /\ SoFar(cfg, f, t.response)
  BY <1>4, StoreSoFar DEF t
<1>8. Len(t.response) <= t.left + Cardinality(Taken(cfg, "SUBMIT", exec.i, exec.j, exec.valid + 1))
  <2>1. Len(t.response) = Len(tx.response) + 1
    BY <1>0, StoreLength DEF t
  <2>2. exec.valid + 1 <= Room("SUBMIT", cfg.layouts[exec.i][exec.j])
    BY LoopFacts DEF Room, GroupOf
  <2>3. /\ Cardinality(Taken(cfg, "SUBMIT", exec.i, exec.j, exec.valid)) + 1
             <= Cardinality(Taken(cfg, "SUBMIT", exec.i, exec.j, exec.valid + 1))
    BY <1>0, <2>2, LoopFacts, TakenGrows
  <2>4. Len(tx.response) <= tx.left + Cardinality(Taken(cfg, "SUBMIT", exec.i, exec.j, exec.valid))
    BY LoopFacts DEF TakenAt
  <2>5. /\ Cardinality(Taken(cfg, "SUBMIT", exec.i, exec.j, exec.valid)) \in Nat
        /\ Cardinality(Taken(cfg, "SUBMIT", exec.i, exec.j, exec.valid + 1)) \in Nat
    <3>1. exec.i \in Nat /\ exec.j \in Nat /\ exec.valid \in Nat /\ exec.valid + 1 \in Nat
      BY LoopFacts
    <3>. QED
      BY <1>0, <3>1, TakenFacts
  <2>6. Len(tx.response) \in Nat /\ tx.left \in Nat
    BY LoopFacts
  <2>. QED
    BY <1>2, <2>1, <2>3, <2>4, <2>5, <2>6
<1>6. InLoop(f, t, e.valid + 1)
  BY <1>0, <1>1, <1>2, <1>3, <1>4, <1>5, <1>8, LoopFacts DEF InLoop
<1>7. e.k \in 1..GroupOf(e).n
  BY <1>1, LoopFacts DEF GroupOf
<1>. QED
  BY <1>0, <1>1, <1>6, <1>7, CountEndorserKeeps DEF e, t, f

\* An Evaluate stores an answer it cannot use and goes on.
LEMMA StoreMissKeeps ==
  ASSUME AtAnswer("PROPOSAL"), exec.fun = "EVALUATE",
         NextEndorser(With("SUCCESS"), EmptyBuf, Store(tx, "PROPOSAL"))
  PROVE  Inv'
<1>. DEFINE e == With("SUCCESS")
            t == Store(tx, "PROPOSAL")
<1>0. Inv /\ Running /\ cfg \in NodeCfgs /\ exec \in LoopRec /\ tx \in TxRec /\ exec.type = "PROPOSAL" /\ Current(tx)
  BY DEF AtAnswer, LoopOK
<1>1. /\ e \in LoopRec /\ e.fun = exec.fun /\ e.type = exec.type /\ e.i = exec.i /\ e.j = exec.j
      /\ e.k = exec.k /\ e.valid = exec.valid
  BY <1>0, WithFacts DEF Codes
<1>2. t \in TxRec /\ Current(t) /\ t.left = tx.left
  BY <1>0, StoreFacts
<1>. HIDE DEF e, t
<1>3. exec.k \in Nat /\ exec.k - 1 \in Nat /\ exec.k - 1 + 1 = exec.k
  BY LoopFacts
<1>4. tx.left = 0 => Own(t) /\ SoFar(cfg, e, t.response)
  BY <1>1, StoreSoFar DEF t
<1>8. Len(t.response) <= t.left + Cardinality(Taken(cfg, "EVALUATE", exec.i, exec.j, exec.k))
  <2>1. Len(t.response) = Len(tx.response) + 1
    BY <1>0, StoreLength DEF t
  <2>2. exec.k - 1 + 1 <= Room("EVALUATE", cfg.layouts[exec.i][exec.j])
    BY LoopFacts DEF Room, GroupOf
  <2>3. Cardinality(Taken(cfg, "EVALUATE", exec.i, exec.j, exec.k - 1)) + 1
          <= Cardinality(Taken(cfg, "EVALUATE", exec.i, exec.j, exec.k - 1 + 1))
    BY <1>0, <1>3, <2>2, LoopFacts, TakenGrows
  <2>4. Len(tx.response) <= tx.left + Cardinality(Taken(cfg, "EVALUATE", exec.i, exec.j, exec.k - 1))
    BY LoopFacts DEF TakenAt
  <2>5. /\ Cardinality(Taken(cfg, "EVALUATE", exec.i, exec.j, exec.k - 1)) \in Nat
        /\ Cardinality(Taken(cfg, "EVALUATE", exec.i, exec.j, exec.k)) \in Nat
    BY <1>0, <1>3, LoopFacts, TakenFacts
  <2>6. Len(tx.response) \in Nat /\ tx.left \in Nat
    BY LoopFacts
  <2>. QED
    BY <1>2, <1>3, <2>1, <2>3, <2>4, <2>5, <2>6
<1>5. InLoop(e, t, e.k)
  <2>1. /\ exec.i \in DOMAIN cfg.layouts /\ exec.j \in DOMAIN cfg.layouts[exec.i]
        /\ Reached(cfg, exec.fun, exec.i, exec.j) /\ exec.valid = 0
    BY LoopFacts
  <2>2. t.left = 0 => Own(t) /\ SoFar(cfg, e, t.response)
    BY <1>2, <1>4
  <2>3. Len(t.response) <= t.left + Cardinality(Taken(cfg, e.fun, e.i, e.j, e.k))
    BY <1>1, <1>8
  <2>. QED
    BY <1>0, <1>1, <1>2, <1>3, <2>1, <2>2, <2>3 DEF InLoop
<1>6. e.k \in 1..GroupOf(e).n /\ (e.valid = 0 \/ e.valid < GroupOf(e).q)
  BY <1>1, LoopFacts DEF GroupOf
<1>7. GoesOn(EmptyBuf, t)
  BY DEF GoesOn
<1>. QED
  BY <1>0, <1>1, <1>5, <1>6, <1>7, NextEndorserKeeps DEF e, t

\* On to the next orderer, or out with the result.
LEMMA NextOrdererKeeps ==
  ASSUME AtAnswer("TRANSACTION"), NEW result \in Codes, NEW buf, GoesOn(buf, tx),
         NextOrderer(With(result), buf), chain = "HWBCS" => result # "SUCCESS"
  PROVE  Inv'
<1>. DEFINE e == With(result)
            f == [e EXCEPT !.k = @ + 1]
            g == [f EXCEPT !.st = "ask"]
<1>0. /\ Inv /\ Running /\ cfg \in NodeCfgs /\ exec \in LoopRec /\ tx \in TxRec /\ exec.type = "TRANSACTION"
      /\ Current(tx) /\ exec.fun = "SUBMIT" /\ (tx.left = 0 => Collected(cfg, exec, tx)) /\ Fits(cfg, exec, tx)
  BY DEF AtAnswer, LoopOK
<1>1. /\ e \in LoopRec /\ e.fun = exec.fun /\ e.type = exec.type /\ e.result = result
  BY <1>0, WithFacts
<1>2. CASE e.k < cfg.orderers
  <2>1. Continue(f, buf, tx)
    BY <1>2 DEF NextOrderer
  <2>. HIDE DEF e
  <2>2. e.k + 1 \in Nat /\ g = [e EXCEPT !.k = e.k + 1, !.st = "ask"]
    BY <1>1 DEF LoopRec
  <2>. HIDE DEF f, g
  <2>3. g \in LoopRec /\ g.fun = "SUBMIT" /\ g.type = "TRANSACTION" /\ g.st = "ask"
    BY <1>0, <1>1, <2>2 DEF LoopRec
  <2>4. g # NoExec
    BY <2>3 DEF NoExec
  <2>5. LoopOK(cfg, g, tx)
    BY <1>0, <2>3 DEF LoopOK, Collected, Fits
  <2>. QED
    BY <1>0, <2>1, <2>3, <2>4, <2>5, ContinueKeeps DEF GoesOn, g
<1>3. CASE ~(e.k < cfg.orderers)
  <2>1. ExecReturns(result, tx)
    BY <1>1, <1>3 DEF NextOrderer
  <2>. QED
    BY <1>0, <2>1, ExecReturnsKeeps
<1>. QED
  BY <1>2, <1>3

LEMMA BufGoesOn ==
  ASSUME TypeInv
  PROVE  /\ GoesOn(http2.buf, tx) /\ GoesOn([http2.buf EXCEPT !.freed = TRUE], tx) /\ GoesOn(EmptyBuf, tx)
         /\ http2.buf \in BufRec
<1>1. http2.buf \in BufRec
  BY DEF TypeInv, Http2Rec
<1>2. /\ [http2.buf EXCEPT !.freed = TRUE] \in BufRec
      /\ [http2.buf EXCEPT !.freed = TRUE].may = http2.buf.may
      /\ [http2.buf EXCEPT !.freed = TRUE].len = http2.buf.len
  BY <1>1 DEF BufRec
<1>. QED
  BY <1>1, <1>2 DEF GoesOn

LEMMA RpcResult ==
  ASSUME TypeInv, rpc.st = "done"
  PROVE  rpc.result \in {"SUCCESS", "CONNECT_FAIL", "HTTP2_INTERNAL"} /\ rpc.result \in Codes
BY DEF TypeInv, RpcSet, NoRpc, Codes

LEMMA HlfabricNoAnswerKeeps == ASSUME Inv, Fabric(Hlfabric_NoAnswer) PROVE Inv'
<1>1. AtAnswer("PROPOSAL")
  BY AnswerFrame DEF Fabric, Hlfabric_NoAnswer, FabricProtocols
<1>2. TypeInv /\ rpc.st = "done"
  BY <1>1 DEF Inv, AtAnswer
<1>3. CASE NextEndorser(With(rpc.result), http2.buf, tx)
  BY <1>1, <1>2, <1>3, RpcResult, BufGoesOn, MissKeeps
<1>4. CASE NextEndorser(With("ERROR"), http2.buf, tx)
  BY <1>1, <1>2, <1>4, BufGoesOn, MissKeeps DEF Codes
<1>. QED
  BY <1>3, <1>4 DEF Fabric, Hlfabric_NoAnswer

LEMMA HlfabricEndorserKeeps == ASSUME Inv, Fabric(Hlfabric_Endorser) PROVE Inv'
<1>0. PICK a \in http2.buf.may :
       \/ a \notin Endorsed /\ NextEndorser(With("SUCCESS"), EmptyBuf, tx) /\ UNCHANGED faults
       \/ a \in Endorsed /\ exec.fun = "SUBMIT" /\ CountEndorser(With("SUCCESS"), Store(tx, "PROPOSAL")) /\ UNCHANGED faults
       \/ a = "bad" /\ exec.fun = "EVALUATE" /\ NextEndorser(With("SUCCESS"), EmptyBuf, Store(tx, "PROPOSAL")) /\ UNCHANGED faults
       \/ a = "empty" /\ exec.fun = "EVALUATE" /\ ExecReturns("SUCCESS", Store(tx, "PROPOSAL")) /\ UNCHANGED faults
       \/ /\ a = "ok" /\ exec.fun = "EVALUATE"
          /\ \/ ExecReturns("SUCCESS", [Store(tx, "PROPOSAL") EXCEPT !.evaluateRes = tx.nonce]) /\ UNCHANGED faults
             \/ Fault("nomem") /\ ExecReturns("OUT_OF_MEMORY", Store(tx, "PROPOSAL"))
  BY DEF Fabric, Hlfabric_Endorser
<1>1. AtAnswer("PROPOSAL")
  BY <1>0, AnswerFrame DEF Fabric, Hlfabric_Endorser, FabricProtocols
<1>2. /\ TypeInv /\ Running /\ exec.type = "PROPOSAL" /\ exec \in LoopRec /\ tx \in TxRec /\ Current(tx)
      /\ tx.nonce \in Nat
  BY <1>1 DEF Inv, AtAnswer, LoopOK, TxRec
<1>3. CASE NextEndorser(With("SUCCESS"), EmptyBuf, tx)
  BY <1>1, <1>2, <1>3, BufGoesOn, MissKeeps DEF Codes
<1>4. CASE exec.fun = "SUBMIT" /\ CountEndorser(With("SUCCESS"), Store(tx, "PROPOSAL"))
  BY <1>1, <1>4, StoreCountKeeps
<1>5. CASE exec.fun = "EVALUATE" /\ NextEndorser(With("SUCCESS"), EmptyBuf, Store(tx, "PROPOSAL"))
  BY <1>1, <1>5, StoreMissKeeps
<1>6. Store(tx, "PROPOSAL") \in TxRec /\ Current(Store(tx, "PROPOSAL")) /\ Store(tx, "PROPOSAL").nonce = tx.nonce
  BY <1>2, StoreFacts
<1>7. ASSUME exec.fun = "EVALUATE", NEW code, ExecReturns(code, Store(tx, "PROPOSAL")) PROVE Inv'
  BY <1>2, <1>6, <1>7, ExecReturnsKeeps
<1>8. CASE exec.fun = "EVALUATE" /\ ExecReturns("SUCCESS", [Store(tx, "PROPOSAL") EXCEPT !.evaluateRes = tx.nonce])
  <2>. DEFINE t == [Store(tx, "PROPOSAL") EXCEPT !.evaluateRes = tx.nonce]
  <2>1. t \in TxRec /\ Current(t)
    BY <1>2, <1>6 DEF TxRec, Current
  <2>. HIDE DEF t
  <2>2. ExecReturns("SUCCESS", t)
    BY <1>8 DEF t
  <2>. QED
    BY <1>2, <1>8, <2>1, <2>2, ExecReturnsKeeps
<1>. QED
  BY <1>0, <1>3, <1>4, <1>5, <1>7, <1>8

LEMMA HlfabricOrdererKeeps == ASSUME Inv, Fabric(Hlfabric_Orderer) PROVE Inv'
<1>1. AtAnswer("TRANSACTION")
  BY AnswerFrame DEF Fabric, Hlfabric_Orderer, FabricProtocols
<1>2. /\ TypeInv /\ Running /\ rpc.st = "done" /\ exec.type = "TRANSACTION" /\ exec \in LoopRec
      /\ tx \in TxRec /\ Current(tx) /\ chain = "HLFABRIC"
  BY <1>1 DEF Inv, AtAnswer, LoopOK, Fabric, Hlfabric_Orderer, After
<1>3. ASSUME NEW result \in Codes, NEW buf, GoesOn(buf, tx), NextOrderer(With(result), buf) PROVE Inv'
  BY <1>1, <1>2, <1>3, NextOrdererKeeps
<1>4. CASE NextOrderer(With(rpc.result), http2.buf)
  BY <1>2, <1>3, <1>4, RpcResult, BufGoesOn
<1>5. CASE NextOrderer(With("SUCCESS"), http2.buf)
  BY <1>2, <1>3, <1>5, BufGoesOn DEF Codes
<1>6. CASE NextOrderer(With("SUCCESS"), [http2.buf EXCEPT !.freed = TRUE])
  BY <1>2, <1>3, <1>6, BufGoesOn DEF Codes
<1>7. CASE ExecReturns("SUCCESS", Store(tx, "TRANSACTION"))
  <2>1. Store(tx, "TRANSACTION") \in TxRec /\ Current(Store(tx, "TRANSACTION"))
    BY <1>2, StoreFacts
  <2>. QED
    BY <1>2, <1>7, <2>1, ExecReturnsKeeps
<1>. QED
  BY <1>4, <1>5, <1>6, <1>7 DEF Fabric, Hlfabric_Orderer

LEMMA HwbcsEndorserKeeps == ASSUME Inv, Fabric(Hwbcs_Endorser) PROVE Inv'
<1>1. AtAnswer("PROPOSAL")
  BY AnswerFrame DEF Fabric, Hwbcs_Endorser, FabricProtocols
<1>2. TypeInv /\ rpc.st = "done"
  BY <1>1 DEF Inv, AtAnswer
<1>3. CASE NextEndorser(With(rpc.result), http2.buf, tx)
  BY <1>1, <1>2, <1>3, RpcResult, BufGoesOn, MissKeeps
<1>4. CASE NextEndorser(With("SUCCESS"), EmptyBuf, tx)
  BY <1>1, <1>2, <1>4, BufGoesOn, MissKeeps DEF Codes
<1>. QED
  BY <1>3, <1>4 DEF Fabric, Hwbcs_Endorser

\* Only an acceptance makes a Submit succeed.
LEMMA HwbcsOrdererKeeps == ASSUME Inv, Fabric(Hwbcs_Orderer) PROVE Inv'
<1>1. AtAnswer("TRANSACTION")
  BY AnswerFrame DEF Fabric, Hwbcs_Orderer, FabricProtocols
<1>2. /\ TypeInv /\ Running /\ rpc.st = "done" /\ exec.type = "TRANSACTION" /\ exec \in LoopRec
      /\ tx \in TxRec /\ Current(tx) /\ chain = "HWBCS"
  BY <1>1 DEF Inv, AtAnswer, LoopOK, Fabric, Hwbcs_Orderer, After
<1>3. CASE rpc.result # "SUCCESS" /\ NextOrderer(With(rpc.result), http2.buf)
  BY <1>1, <1>2, <1>3, RpcResult, BufGoesOn, NextOrdererKeeps
<1>4. CASE NextOrderer(With("ERROR"), EmptyBuf)
  BY <1>1, <1>2, <1>4, BufGoesOn, NextOrdererKeeps DEF Codes
<1>5. CASE "accepted" \in http2.buf.may /\ ExecReturns("SUCCESS", tx)
  <2>1. Ordered
    BY <1>2, <1>5, NoAnswerAssumption DEF Inv, BufInv, Versions, Answers
  <2>. QED
    BY <1>2, <1>5, <2>1, ExecReturnsKeeps
<1>. QED
  BY <1>3, <1>4, <1>5 DEF Fabric, Hwbcs_Orderer
----------------------------------------------------------------------------
(* The application's calls.                                                *)

\* Nothing in the invariant is about alive and calls.
LEMMA SameKeeps ==
  ASSUME Inv, UNCHANGED <<chain, cfg, http2, tx, exec, rpc, ret, node, faults, cm, block>>
  PROVE  Inv'
<1>1. TypeInv'
  BY DEF Inv, TypeInv
<1>2. LoopInv'
  BY DEF Inv, LoopInv
<1>3. RpcInv'
  BY DEF Inv, RpcInv, Sockets
<1>4. BufInv'
  BY DEF Inv, BufInv, Ordered, Accepted, Executed
<1>5. SentInv'
  BY DEF Inv, SentInv
<1>6. RetInv'
  BY DEF Inv, RetInv, Ordered, Accepted, Executed
<1>. QED
  BY <1>1, <1>2, <1>3, <1>4, <1>5, <1>6 DEF Inv

\* Between two calls no request is under way and the buffer is empty.
LEMMA IdleFacts ==
  ASSUME Inv, exec = NoExec
  PROVE  /\ rpc = NoRpc /\ http2.buf = EmptyBuf /\ http2 \in Http2Rec /\ tx \in TxRec
         /\ Current(tx) /\ Len(tx.response) <= tx.left /\ cm \in CmRec
BY DEF Inv, TypeInv, LoopInv, RpcInv, BufInv

\* A call that asks no node.
LEMMA ConfiguredKeeps ==
  ASSUME Inv, exec = NoExec, exec' = NoExec, UNCHANGED <<chain, cfg, rpc, node, block>>,
         http2' \in Http2Rec, http2'.buf = EmptyBuf, http2'.open = http2.open,
         tx' \in TxRec, Current(tx'), Len(tx'.response) <= tx'.left,
         cm' \in CmRec, faults' \in FaultRec, faults.seen \subseteq faults'.seen,
         ret' = NoRet \/ ret'.code = "INVALID_ARGUMENT"
  PROVE  Inv'
<1>0. rpc = NoRpc /\ rpc.st # "sent"
  BY IdleFacts DEF NoRpc
<1>1. TypeInv'
  BY DEF Inv, TypeInv
<1>2. LoopInv'
  BY DEF LoopInv, Current
<1>3. RpcInv'
  BY <1>0 DEF Inv, RpcInv, Sockets
<1>4. BufInv'
  BY EmptyBufType DEF BufInv
<1>5. SentInv'
  BY DEF Inv, SentInv
<1>6. RetInv'
  BY DEF RetInv, NoRet
<1>. QED
  BY <1>1, <1>2, <1>3, <1>4, <1>5, <1>6 DEF Inv

LEMMA ConfiguredFrame ==
  ASSUME Inv, NEW c, Configured(c)
  PROVE  /\ exec = NoExec /\ exec' = NoExec /\ UNCHANGED <<chain, cfg, rpc, node>> /\ ret' = NoRet
         /\ rpc = NoRpc /\ http2.buf = EmptyBuf /\ http2 \in Http2Rec /\ tx \in TxRec
         /\ Current(tx) /\ Len(tx.response) <= tx.left /\ cm \in CmRec
<1>1. exec = NoExec
  BY DEF Configured, Called, Idle
<1>. QED
  BY <1>1, IdleFacts DEF Configured

LEMMA NewTxFacts ==
  ASSUME tx \in TxRec,
         NEW t \in {[NoTx EXCEPT !.nonce = tx.nonce], [NoTx EXCEPT !.init = TRUE, !.nonce = tx.nonce]}
  PROVE  t \in TxRec /\ Current(t) /\ Len(t.response) <= t.left
<1>. DEFINE r == <<>>
<1>1. tx.nonce \in Nat
  BY DEF TxRec
<1>2. PICK b \in BOOLEAN : t = [init |-> b, args |-> FALSE, nonce |-> tx.nonce, response |-> r,
                               evaluateRes |-> 0, left |-> 0]
  BY DEF NoTx
<1>3. r \in Seq(RespRec) /\ Len(r) = 0
  OBVIOUS
<1>. HIDE DEF r
<1>4. t \in TxRec /\ t.response = r /\ t.evaluateRes = 0 /\ t.left = 0
  BY <1>1, <1>2, <1>3 DEF TxRec
<1>. QED
  BY <1>3, <1>4 DEF Current

LEMMA Http2Facts ==
  ASSUME http2 \in Http2Rec, http2.buf = EmptyBuf,
         NEW h, \/ h = http2 \/ h = http2DeInit(http2)
                \/ h = [http2Init EXCEPT !.open = http2.open]
                \/ h = [http2Init_NoBuffer EXCEPT !.open = http2.open]
                \/ h = [http2 EXCEPT !.ctx = "null"]
  PROVE  h \in Http2Rec /\ h.buf = EmptyBuf /\ h.open = http2.open
<1>1. http2.open \in Nat /\ EmptyBuf \in BufRec
  BY EmptyBufType DEF Http2Rec
<1>2. CASE h = http2DeInit(http2)
  BY <1>1, <1>2 DEF http2DeInit, Http2Rec
<1>3. CASE h = [http2Init EXCEPT !.open = http2.open]
  BY <1>1, <1>3 DEF http2Init, Http2Rec
<1>4. CASE h = [http2Init_NoBuffer EXCEPT !.open = http2.open]
  BY <1>1, <1>4 DEF http2Init_NoBuffer, Http2Rec
<1>5. CASE h = [http2 EXCEPT !.ctx = "null"]
  BY <1>1, <1>5 DEF Http2Rec
<1>. QED
  BY <1>2, <1>3, <1>4, <1>5

LEMMA SameFaults ==
  ASSUME TypeInv, UNCHANGED faults
  PROVE  faults' \in FaultRec /\ faults.seen \subseteq faults'.seen
BY FaultFacts

LEMMA WalletInitKeeps == ASSUME Inv, NEW c, WalletInit(c), UNCHANGED <<cm, block>> PROVE Inv'
<1>1. Configured(c) /\ UNCHANGED tx
  BY DEF WalletInit
<1>2. faults' \in FaultRec /\ faults.seen \subseteq faults'.seen
  BY FaultFacts DEF WalletInit, Inv
<1>3. http2' \in Http2Rec /\ http2'.buf = EmptyBuf /\ http2'.open = http2.open
  BY <1>1, ConfiguredFrame, Http2Facts DEF WalletInit
<1>. QED
  BY <1>1, <1>2, <1>3, ConfiguredFrame, ConfiguredKeeps

LEMMA WalletDeInitKeeps ==
  ASSUME Inv, NEW c, WalletDeInit(c), cm' \in CmRec, UNCHANGED block PROVE Inv'
<1>1. Configured(c) /\ http2' = http2DeInit(http2) /\ tx' = [NoTx EXCEPT !.nonce = tx.nonce] /\ UNCHANGED faults
  BY DEF WalletDeInit
<1>2. faults' \in FaultRec /\ faults.seen \subseteq faults'.seen
  BY <1>1, SameFaults DEF Inv
<1>3. http2' \in Http2Rec /\ http2'.buf = EmptyBuf /\ http2'.open = http2.open
  BY <1>1, ConfiguredFrame, Http2Facts
<1>4. tx' \in TxRec /\ Current(tx') /\ Len(tx'.response) <= tx'.left
  BY <1>1, ConfiguredFrame, NewTxFacts
<1>. QED
  BY <1>1, <1>2, <1>3, <1>4, ConfiguredFrame, ConfiguredKeeps

LEMMA TxInitKeeps == ASSUME Inv, NEW c, TxInit(c), UNCHANGED <<cm, block>> PROVE Inv'
<1>1. Configured(c) /\ tx' = [NoTx EXCEPT !.init = TRUE, !.nonce = tx.nonce] /\ UNCHANGED <<http2, faults>>
  BY DEF TxInit
<1>2. faults' \in FaultRec /\ faults.seen \subseteq faults'.seen
  BY <1>1, SameFaults DEF Inv
<1>3. tx' \in TxRec /\ Current(tx') /\ Len(tx'.response) <= tx'.left
  BY <1>1, ConfiguredFrame, NewTxFacts
<1>. QED
  BY <1>1, <1>2, <1>3, ConfiguredFrame, ConfiguredKeeps

LEMMA TxDeInitKeeps == ASSUME Inv, NEW c, TxDeInit(c), UNCHANGED <<cm, block>> PROVE Inv'
<1>1. Configured(c) /\ http2' = http2DeInit(http2) /\ tx' = [NoTx EXCEPT !.nonce = tx.nonce] /\ UNCHANGED faults
  BY DEF TxDeInit
<1>2. faults' \in FaultRec /\ faults.seen \subseteq faults'.seen
  BY <1>1, SameFaults DEF Inv
<1>3. http2' \in Http2Rec /\ http2'.buf = EmptyBuf /\ http2'.open = http2.open
  BY <1>1, ConfiguredFrame, Http2Facts
<1>4. tx' \in TxRec /\ Current(tx') /\ Len(tx'.response) <= tx'.left
  BY <1>1, ConfiguredFrame, NewTxFacts
<1>. QED
  BY <1>1, <1>2, <1>3, <1>4, ConfiguredFrame, ConfiguredKeeps

LEMMA TxSetArgsKeeps == ASSUME Inv, NEW c, TxSetArgs(c), UNCHANGED <<cm, block>> PROVE Inv'
<1>1. Configured(c) /\ tx' = [tx EXCEPT !.args = TRUE] /\ UNCHANGED <<http2, faults>>
  BY DEF TxSetArgs
<1>2. faults' \in FaultRec /\ faults.seen \subseteq faults'.seen
  BY <1>1, SameFaults DEF Inv
<1>3. /\ tx' \in TxRec /\ tx'.nonce = tx.nonce /\ tx'.evaluateRes = tx.evaluateRes
      /\ tx'.response = tx.response /\ tx'.left = tx.left
  BY <1>1, ConfiguredFrame DEF TxRec
<1>4. Current(tx')
  BY <1>1, <1>3, ConfiguredFrame DEF Current
<1>. QED
  BY <1>1, <1>2, <1>3, <1>4, ConfiguredFrame, ConfiguredKeeps
LEMMA TxStartKeeps ==
  ASSUME Inv, NEW c \in FabricProtocols, NEW fun \in {"EVALUATE", "SUBMIT"}, TxStart(c, fun), UNCHANGED <<cm, block>>
  PROVE  Inv'
<1>0. /\ exec = NoExec /\ chain = c /\ UNCHANGED <<chain, cfg, http2, tx, rpc, node, faults>>
      /\ rpc = NoRpc /\ http2.buf = EmptyBuf /\ http2 \in Http2Rec /\ tx \in TxRec
      /\ Current(tx) /\ Len(tx.response) <= tx.left /\ cm \in CmRec
  BY IdleFacts DEF TxStart, Called, Idle
<1>1. CASE ~tx.args
  <2>1. exec' = NoExec /\ ret' = [op |-> fun, code |-> "INVALID_ARGUMENT"]
    BY <1>1 DEF TxStart
  <2>2. faults' \in FaultRec /\ faults.seen \subseteq faults'.seen
    BY <1>0, SameFaults DEF Inv
  <2>. QED
    BY <1>0, <2>1, <2>2, ConfiguredKeeps
<1>2. CASE tx.args
  <2>. DEFINE e == Proposal(fun)
  <2>1. exec' = e /\ ret' = NoRet
    BY <1>2 DEF TxStart
  <2>2. /\ e \in LoopRec /\ e.fun = fun /\ e.type = "PROPOSAL" /\ e.st = "pack" /\ e.i = 1 /\ e.j = 1 /\ e.k = 1
        /\ e.valid = 0 /\ e # NoExec
    BY DEF Proposal, LoopRec, Codes, NoExec
  <2>. HIDE DEF e
  <2>3. chain \notin Versions /\ cfg \in NodeCfgs
    BY <1>0 DEF Inv, TypeInv, Versions, FabricProtocols
  <2>4. Position(cfg, e)
    <3>1. Reached(cfg, e.fun, 1, 1)
      BY <2>3, CfgFacts DEF Reached
    <3>. QED
      BY <2>2, <2>3, <3>1, CfgFacts DEF Position
  <2>5. tx.left = 0 => Collected(cfg, e, tx)
    <3>1. SUFFICES ASSUME tx.left = 0 PROVE Collected(cfg, e, tx)
      OBVIOUS
    <3>2. tx.response = <<>> /\ tx.response \in Seq(RespRec)
      <4>1. tx.response \in Seq(RespRec) /\ Len(tx.response) \in Nat /\ Len(tx.response) <= 0
        BY <1>0, <3>1 DEF TxRec
      <4>. QED
        BY <4>1
    <3>3. Own(tx) /\ Len(tx.response) = 0
      BY <3>2 DEF Own
    <3>4. SoFar(cfg, e, tx.response)
      <4>0. tx.response \in Seq(RespRec)
        BY <3>2
      <4>1. Cardinality(From(tx.response, e.i, e.j)) >= 0
        BY <4>0, FromFacts
      <4>2. \A j \in DOMAIN cfg.layouts[e.i] : ~(j < e.j)
        BY <2>2, <2>3, CfgFacts
      <4>. QED
        BY <2>2, <4>1, <4>2 DEF SoFar
    <3>. QED
      BY <2>2, <3>2, <3>3, <3>4 DEF Collected
  <2>13. Fits(cfg, e, tx)
    <3>1. TakenAt(cfg, e) = Taken(cfg, fun, 1, 1, 0)
      BY <2>2 DEF TakenAt
    <3>2. Cardinality(TakenAt(cfg, e)) \in Nat
      BY <2>3, <3>1, TakenFacts
    <3>3. tx.left \in Nat /\ Len(tx.response) \in Nat
      BY <1>0 DEF TxRec
    <3>. QED
      BY <1>0, <2>2, <3>2, <3>3 DEF Fits
  <2>6. LoopOK(cfg, e, tx)
    BY <1>0, <2>2, <2>4, <2>5, <2>13 DEF LoopOK
  <2>7. TypeInv'
    BY <1>0, <2>1, <2>2, <2>3 DEF Inv, TypeInv
  <2>8. LoopInv'
    BY <1>0, <2>1, <2>2, <2>3, <2>6 DEF LoopInv
  <2>9. RpcInv'
    BY <1>0 DEF Inv, RpcInv, Sockets, NoRpc
  <2>10. BufInv'
    BY <1>0, EmptyBufType DEF BufInv
  <2>11. SentInv'
    BY <1>0 DEF Inv, SentInv
  <2>12. RetInv'
    BY <2>1 DEF RetInv, NoRet
  <2>. QED
    BY <2>7, <2>8, <2>9, <2>10, <2>11, <2>12 DEF Inv
<1>. QED
  BY <1>1, <1>2

----------------------------------------------------------------------------
(* Packing.                                                                *)

\* A proposal is packed with a new nonce when no answer is stored; the
\* endorsements a transaction is packed with are those of its nonce.
LEMMA HeaderFacts ==
  ASSUME Inv, chain \notin Versions, exec # NoExec, exec.st = "pack",
         NEW t, t = Header(tx), NEW e, e = [exec EXCEPT !.st = "ask"]
  PROVE  t \in TxRec /\ Current(t) /\ LoopOK(cfg, e, t) /\ e # NoExec /\ e.st = "ask"
<1>0. LoopOK(cfg, exec, tx)
  BY DEF Inv, LoopInv
<1>1. exec \in LoopRec /\ tx \in TxRec
  BY <1>0 DEF LoopOK
<1>2. /\ e \in LoopRec /\ e.st = "ask" /\ e.type = exec.type /\ e.fun = exec.fun /\ e.i = exec.i /\ e.j = exec.j
      /\ e.k = exec.k /\ e.valid = exec.valid
  BY <1>1 DEF LoopRec
<1>3. e # NoExec
  BY <1>2 DEF NoExec, LoopRec
<1>4. tx.nonce \in Nat /\ tx.nonce + 1 \in Nat
  BY <1>1 DEF TxRec
<1>5. /\ t \in TxRec /\ t.evaluateRes = 0 /\ t.left = tx.left /\ t.response = tx.response
      /\ exec.type # "PROPOSAL" => t.nonce = tx.nonce
  BY <1>1, <1>4 DEF Header, TxRec
<1>6. Current(t)
  BY <1>5 DEF Current
<1>7. exec.type = "PROPOSAL" => Position(cfg, e)
  BY <1>0, <1>2 DEF LoopOK, Position
<1>8. ASSUME tx.left = 0 PROVE Collected(cfg, e, t)
  <2>1. Collected(cfg, exec, tx)
    BY <1>0, <1>8 DEF LoopOK
  <2>2. Own(t)
    <3>1. CASE exec.type = "PROPOSAL"
      BY <1>5, <2>1, <3>1 DEF Collected, Own
    <3>2. CASE exec.type # "PROPOSAL"
      BY <1>5, <2>1, <3>2 DEF Collected, Own
    <3>. QED
      BY <3>1, <3>2
  <2>3. SoFar(cfg, exec, tx.response) => SoFar(cfg, e, t.response)
    BY <1>2, <1>5 DEF SoFar
  <2>. QED
    BY <1>2, <1>5, <2>1, <2>2, <2>3 DEF Collected
<1>9. LoopOK(cfg, e, t)
  <2>1. exec.type = "TRANSACTION" => exec.fun = "SUBMIT"
    BY <1>0 DEF LoopOK
  <2>2. TakenAt(cfg, e) = TakenAt(cfg, exec)
    BY <1>2 DEF TakenAt
  <2>3. Fits(cfg, e, t)
    BY <1>0, <1>2, <1>5, <2>2 DEF LoopOK, Fits
  <2>. QED
    BY <1>2, <1>5, <1>6, <1>7, <1>8, <2>1, <2>3 DEF LoopOK
<1>. QED
  BY <1>2, <1>3, <1>5, <1>6, <1>9

LEMMA PackKeeps ==
  ASSUME Inv, Fabric(hlfabricProposalTransactionPacked) \/ Fabric(hwbcsProposalTransactionPacked)
  PROVE  Inv'
<1>1. /\ chain \notin Versions /\ exec # NoExec /\ exec.st = "pack" /\ UNCHANGED <<cm, block>>
      /\ \/ Crash
         \/ /\ UNCHANGED <<chain, cfg, rpc, node, calls, alive>>
            /\ \/ Continue(exec, EmptyBuf, Header(tx)) /\ UNCHANGED faults
               \/ UNCHANGED faults /\ ExecReturns("PROTO_PACKET_FAIL", Header(tx))
               \/ Fault("pack") /\ ExecReturns("PROTO_PACKET_FAIL", Header(tx))
  BY DEF Fabric, hlfabricProposalTransactionPacked, hwbcsProposalTransactionPacked, Pack, Versions
<1>2. CASE Crash
  BY <1>1, <1>2, SameKeeps DEF Crash
<1>3. rpc = NoRpc /\ rpc.st # "sent"
  BY <1>1 DEF Inv, RpcInv, NoRpc
<1>4. CASE UNCHANGED <<chain, cfg, rpc, node>> /\ Continue(exec, EmptyBuf, Header(tx)) /\ UNCHANGED faults
  <2>1. Running
    BY <1>1, <1>3, <1>4, SameFaults DEF Running, Inv
  <2>2. LoopOK(cfg, [exec EXCEPT !.st = "ask"], Header(tx)) /\ [exec EXCEPT !.st = "ask"] # NoExec
        /\ [exec EXCEPT !.st = "ask"].st = "ask"
    BY <1>1, HeaderFacts
  <2>. QED
    BY <1>4, <2>1, <2>2, ContinueKeeps
<1>5. CASE /\ UNCHANGED <<chain, cfg, rpc, node>> /\ ExecReturns("PROTO_PACKET_FAIL", Header(tx))
           /\ UNCHANGED faults \/ Fault("pack")
  <2>1. Running
    BY <1>1, <1>3, <1>5, SameFaults, FaultFacts DEF Running, Inv
  <2>2. Header(tx) \in TxRec /\ Current(Header(tx))
    BY <1>1, HeaderFacts
  <2>. QED
    BY <1>5, <2>1, <2>2, ExecReturnsKeeps
<1>. QED
  BY <1>1, <1>2, <1>4, <1>5
----------------------------------------------------------------------------
(* Requests.                                                               *)

\* An answer is in the buffer.
HasAnswer(a) ==
  /\ http2.buf.len = "long" /\ http2.buf.may \subseteq {a, NoAnswer}
  /\ a = "accepted" /\ chain \notin Versions => exec.type = "TRANSACTION" /\ Ordered
  /\ a = "executed" => chain \in Versions /\ Executed

\* A request is sent, or ends.
LEMMA AskedKeeps ==
  ASSUME Inv, exec # NoExec, exec.st = "ask", UNCHANGED <<chain, cfg, tx, exec, ret, cm>>,
         rpc' \in RpcSet, http2' \in Http2Rec, faults' \in FaultRec,
         rpc'.st = "sent" => http2'.open >= 1,
         faults'.seen = {} => http2'.open = IF rpc'.st = "sent" THEN 1 ELSE 0,
         \A a \in http2'.buf.may \ {NoAnswer} : HasAnswer(a)',
         SentInv', block' \in BlockRec, chain \notin Versions => UNCHANGED block
  PROVE  Inv'
<1>1. TypeInv'
  BY DEF Inv, TypeInv
<1>2. LoopInv'
  BY DEF Inv, LoopInv
<1>3. RpcInv'
  BY DEF RpcInv, Sockets
<1>4. BufInv'
  BY DEF BufInv, HasAnswer
<1>5. RetInv'
  BY DEF Inv, RetInv, NoRet
<1>. QED
  BY <1>1, <1>2, <1>3, <1>4, <1>5 DEF Inv

LEMMA ConnectedFacts ==
  ASSUME http2 \in Http2Rec
  PROVE  Connected(http2) \in Http2Rec /\ Connected(http2).open = http2.open + 1 /\ Connected(http2).buf = http2.buf
BY DEF Connected, Http2Rec

LEMMA FaultSeen ==
  ASSUME TypeInv, NEW kind, Fault(kind)
  PROVE  faults' \in FaultRec /\ faults'.seen # {}
<1>1. faults' \in FaultRec
  BY FaultFacts
<1>2. kind \in faults'.seen
  BY DEF Fault
<1>. QED
  BY <1>1, <1>2

LEMMA SubmitRequestKeeps == ASSUME Inv, Fabric(http2SubmitRequest) PROVE Inv'
<1>0. /\ exec # NoExec /\ exec.st = "ask" /\ rpc = NoRpc /\ rpc.st # "sent"
      /\ UNCHANGED <<chain, cfg, tx, exec, ret, node, cm, block>>
  BY DEF Fabric, http2SubmitRequest, NoRpc
<1>1. http2 \in Http2Rec /\ TypeInv /\ http2.open \in Nat /\ block' \in BlockRec
  BY <1>0 DEF Inv, TypeInv, Http2Rec
<1>2. SentInv'
  BY <1>0 DEF Inv, SentInv
<1>3. ASSUME http2' = http2 \/ http2' = Connected(http2)
      PROVE  /\ http2' \in Http2Rec
             /\ \A a \in http2'.buf.may \ {NoAnswer} : HasAnswer(a)'
  <2>1. http2' \in Http2Rec /\ http2'.buf = http2.buf
    BY <1>1, <1>3, ConnectedFacts
  <2>2. \A a \in http2.buf.may \ {NoAnswer} : HasAnswer(a)
    BY DEF Inv, BufInv, HasAnswer
  <2>. QED
    BY <1>0, <2>1, <2>2 DEF HasAnswer, Ordered, Accepted, Executed
<1>4. CASE rpc' = [st |-> "sent"] /\ http2' = Connected(http2) /\ UNCHANGED faults
  <2>1. rpc' \in RpcSet /\ rpc'.st = "sent"
    BY <1>4 DEF RpcSet
  <2>2. http2'.open = http2.open + 1 /\ faults' \in FaultRec
    BY <1>1, <1>4, ConnectedFacts, SameFaults
  <2>3. faults.seen = {} => http2.open = 0
    BY <1>0 DEF Inv, RpcInv, Sockets
  <2>4. http2'.open >= 1 /\ (faults'.seen = {} => http2'.open = 1)
    BY <1>1, <1>4, <2>2, <2>3
  <2>. QED
    BY <1>0, <1>1, <1>2, <1>3, <1>4, <2>1, <2>2, <2>4, AskedKeeps
<1>5. ASSUME NEW kind, Fault(kind), NEW result \in {"CONNECT_FAIL", "HTTP2_INTERNAL"}, Ends(result),
             http2' = http2 \/ http2' = Connected(http2)
      PROVE  Inv'
  <2>1. rpc' \in RpcSet /\ rpc'.st = "done"
    BY <1>5 DEF RpcSet, Ends
  <2>2. faults' \in FaultRec /\ faults'.seen # {}
    BY <1>1, <1>5, FaultSeen
  <2>. QED
    BY <1>0, <1>1, <1>2, <1>3, <1>5, <2>1, <2>2, AskedKeeps
<1>. QED
  BY <1>4, <1>5 DEF Fabric, http2SubmitRequest

\* What a request leaves in the caller's buffer.
LEMMA ReceivedFacts ==
  ASSUME http2 \in Http2Rec, http2.open >= 1, NEW a \in Messages, NEW piece \in Pieces,
         NEW h \in Received(http2, piece, a)
  PROVE  /\ h \in Http2Rec
         /\ h.open = IF piece = "whole" THEN http2.open - 1 ELSE http2.open
         /\ \/ piece = "none" /\ h.buf = http2.buf
            \/ h.buf.may = {NoAnswer}
            \/ piece = "whole" /\ h.buf.len = "long" /\ h.buf.may \subseteq {a, NoAnswer}
<1>. DEFINE k == IF piece = "whole" THEN on_stream_close_callback(http2) ELSE http2
<1>1. PICK b \in on_data_chunk_recv_callback(http2.buf, piece, a) : h = [k EXCEPT !.buf = b]
  BY DEF Received
<1>2. k \in Http2Rec /\ k.open = IF piece = "whole" THEN http2.open - 1 ELSE http2.open
  <2>1. http2.open \in Nat /\ http2.open - 1 \in Nat
    BY DEF Http2Rec
  <2>. QED
    BY <2>1 DEF on_stream_close_callback, Http2Rec
<1>. HIDE DEF k
<1>3. /\ b \in BufRec
      /\ \/ piece = "none" /\ b = http2.buf
         \/ b.may = {NoAnswer}
         \/ piece = "whole" /\ b.len = "long" /\ b.may \subseteq {a, NoAnswer}
  <2>0. http2.buf \in BufRec
    BY DEF Http2Rec
  <2>1. CASE piece = "none"
    BY <1>1, <2>0, <2>1 DEF on_data_chunk_recv_callback
  <2>2. CASE piece = "short"
    <3>1. PICK l \in {"short", "long"} : b = [len |-> l, may |-> {NoAnswer}, freed |-> FALSE]
      BY <1>1, <2>2 DEF on_data_chunk_recv_callback
    <3>. QED
      BY <3>1 DEF BufRec
  <2>3. CASE piece = "part"
    <3>1. b = [len |-> "long", may |-> {NoAnswer}, freed |-> FALSE]
      BY <1>1, <2>3 DEF on_data_chunk_recv_callback
    <3>. QED
      BY <3>1 DEF BufRec
  <2>4. CASE piece = "whole"
    <3>1. PICK may \in {{a}, {a, NoAnswer}} : b = [len |-> "long", freed |-> FALSE, may |-> may]
      BY <1>1, <2>4 DEF on_data_chunk_recv_callback
    <3>2. may \subseteq Messages \cup {NoAnswer}
      BY <3>1
    <3>. QED
      BY <2>4, <3>1, <3>2 DEF BufRec
  <2>. QED
    BY <2>1, <2>2, <2>3, <2>4 DEF Pieces
<1>. QED
  BY <1>1, <1>2, <1>3, BufType

\* The orderer is sent what the transaction collected.
LEMMA NodeGetsKeeps ==
  ASSUME Inv, chain \notin Versions, exec # NoExec, UNCHANGED <<chain, cfg, tx>>, NEW a, NEW piece,
         NodeGets(a, piece) \/ UNCHANGED node
  PROVE  /\ SentInv' /\ (Ordered => Ordered')
         /\ NodeGets(a, piece) /\ exec.type = "TRANSACTION" /\ a = "accepted" => Ordered'
<1>. DEFINE m == [nonce |-> tx.nonce, response |-> tx.response, left |-> tx.left,
                  by |-> exec.k, answer |-> a, whole |-> piece = "whole"]
<1>0. LoopOK(cfg, exec, tx) /\ SentInv
  BY DEF Inv, LoopInv
<1>1. m.nonce = tx.nonce /\ m.response = tx.response /\ m.left = tx.left /\ m.answer = a
  OBVIOUS
<1>2. NodeGets(a, piece) /\ exec.type = "TRANSACTION" => node' = node \cup {m}
  BY DEF NodeGets
<1>3. NodeGets(a, piece) /\ exec.type # "TRANSACTION" => node' = node
  BY DEF NodeGets
<1>. HIDE DEF m
<1>4. NodeGets(a, piece) /\ exec.type = "TRANSACTION" /\ a = "accepted" => Ordered'
  BY <1>1, <1>2 DEF Ordered, Accepted
<1>5. CASE node' = node
  <2>1. SentInv' /\ (Ordered => Ordered')
    BY <1>0, <1>5 DEF SentInv, Ordered, Accepted
  <2>. QED
    BY <1>4, <2>1
<1>6. CASE exec.type = "TRANSACTION" /\ node' = node \cup {m}
  <2>1. m.left = 0 => Own(m) /\ Complete(cfg, m.response)
    BY <1>0, <1>1, <1>6 DEF LoopOK, Collected, Own
  <2>2. SentInv'
    BY <1>0, <1>6, <2>1 DEF SentInv
  <2>3. Ordered => Ordered'
    BY <1>6 DEF Ordered, Accepted
  <2>. QED
    BY <1>4, <2>2, <2>3
<1>. QED
  BY <1>2, <1>3, <1>5, <1>6

\* A request of Hyperledger Fabric or Huawei BCS ends.
LEMMA RequestKeeps ==
  ASSUME Inv, UNCHANGED <<cm, block>>, NEW a \in Answers, NEW piece \in Pieces,
         NEW result \in {"SUCCESS", "HTTP2_INTERNAL"}, Request(piece, a, result),
         NodeGets(a, piece) \/ (piece # "whole" /\ UNCHANGED node),
         faults' \in FaultRec, piece = "whole" => UNCHANGED faults, piece # "whole" => faults'.seen # {}
  PROVE  Inv'
<1>0. /\ rpc.st = "sent" /\ chain \in FabricProtocols /\ chain \notin Versions
      /\ UNCHANGED <<chain, cfg, tx, exec, ret>>
      /\ a \in NodeAnswers /\ http2' \in Received(http2, piece, a) /\ Ends(result)
  BY DEF Request, FabricProtocols, Versions
<1>1. rpc # NoRpc
  BY <1>0 DEF NoRpc
<1>2. /\ exec # NoExec /\ exec.st = "ask" /\ http2.open >= 1 /\ http2 \in Http2Rec /\ exec \in LoopRec
      /\ block' \in BlockRec
  BY <1>0, <1>1 DEF Inv, RpcInv, TypeInv
<1>3. a \in Messages
  BY DEF Messages
<1>4. /\ http2' \in Http2Rec
      /\ http2'.open = IF piece = "whole" THEN http2.open - 1 ELSE http2.open
      /\ \/ piece = "none" /\ http2'.buf = http2.buf
         \/ http2'.buf.may = {NoAnswer}
         \/ piece = "whole" /\ http2'.buf.len = "long" /\ http2'.buf.may \subseteq {a, NoAnswer}
  BY <1>0, <1>2, <1>3, ReceivedFacts
<1>5. rpc' \in RpcSet /\ rpc'.st = "done"
  BY <1>0 DEF Ends, RpcSet
<1>6. /\ SentInv' /\ (Ordered => Ordered')
      /\ NodeGets(a, piece) /\ exec.type = "TRANSACTION" /\ a = "accepted" => Ordered'
  BY <1>0, <1>2, NodeGetsKeeps
<1>7. ASSUME NEW b \in http2'.buf.may \ {NoAnswer} PROVE HasAnswer(b)'
  <2>1. CASE piece = "none" /\ http2'.buf = http2.buf
    <3>1. HasAnswer(b)
      BY <1>7, <2>1 DEF Inv, BufInv, HasAnswer
    <3>. QED
      BY <1>0, <1>6, <2>1, <3>1 DEF HasAnswer, Executed
  <2>2. CASE piece = "whole" /\ http2'.buf.len = "long" /\ http2'.buf.may \subseteq {a, NoAnswer}
    <3>1. b = a /\ a # "executed"
      BY <1>7, <2>2 DEF Answers, Endorsed
    <3>2. a = "accepted" => exec.type = "TRANSACTION"
      BY <1>0, <1>2 DEF NodeAnswers, Endorsed, LoopRec
    <3>. QED
      BY <1>0, <1>6, <2>2, <3>1, <3>2 DEF HasAnswer
  <2>. QED
    BY <1>4, <1>7, <2>1, <2>2
<1>8. faults'.seen = {} => http2'.open = 0
  BY <1>0, <1>4 DEF Inv, RpcInv, Sockets
<1>. QED
  BY <1>0, <1>2, <1>4, <1>5, <1>6, <1>7, <1>8, AskedKeeps

LEMMA RequestsKeep ==
  ASSUME Inv, Fabric(Request_Answered) \/ Fabric(Request_TimedOut) \/ Fabric(Request_Broken)
  PROVE  Inv'
<1>0. TypeInv
  BY DEF Inv
<1>1. CASE Fabric(Request_Answered)
  <2>1. PICK a \in Answers : Request("whole", a, "SUCCESS") /\ NodeGets(a, "whole") /\ UNCHANGED faults
    BY <1>1 DEF Fabric, Request_Answered
  <2>2. UNCHANGED <<cm, block>> /\ faults' \in FaultRec /\ "whole" \in Pieces
    BY <1>0, <1>1, <2>1, SameFaults DEF Fabric, Pieces
  <2>. QED
    BY <2>1, <2>2, RequestKeeps
<1>2. CASE Fabric(Request_TimedOut)
  <2>1. PICK a \in Answers, piece \in Pieces \ {"whole"} :
          Request(piece, a, "SUCCESS") /\ Fault("timeout") /\ (NodeGets(a, piece) \/ UNCHANGED node)
    BY <1>2 DEF Fabric, Request_TimedOut
  <2>2. UNCHANGED <<cm, block>> /\ faults' \in FaultRec /\ faults'.seen # {}
    BY <1>0, <1>2, <2>1, FaultSeen DEF Fabric
  <2>. QED
    BY <2>1, <2>2, RequestKeeps
<1>3. CASE Fabric(Request_Broken)
  <2>1. PICK a \in Answers, piece \in Pieces \ {"whole"} :
          Request(piece, a, "HTTP2_INTERNAL") /\ Fault("protocol") /\ NodeGets(a, piece)
    BY <1>3 DEF Fabric, Request_Broken
  <2>2. UNCHANGED <<cm, block>> /\ faults' \in FaultRec /\ faults'.seen # {}
    BY <1>0, <1>3, <2>1, FaultSeen DEF Fabric
  <2>. QED
    BY <2>1, <2>2, RequestKeeps
<1>. QED
  BY <1>1, <1>2, <1>3

\* Hyperledger Fabric and Huawei BCS: a step into memory that is not there.
LEMMA FabricCrashKeeps ==
  ASSUME Inv, \/ Fabric(Hlfabric_FreedTwice) \/ Fabric(Hwbcs_EndorserCrash) \/ Fabric(Hwbcs_OrdererCrash)
              \/ Fabric(Request_IntoFreed) \/ Fabric(TxInit_FreesOther) \/ Fabric(http2DeInit_FreedTwice)
  PROVE  Inv'
BY SameKeeps DEF Fabric, Hlfabric_FreedTwice, Hwbcs_EndorserCrash, Hwbcs_OrdererCrash, Request_IntoFreed,
  TxInit_FreesOther, http2DeInit_FreedTwice, Crash

----------------------------------------------------------------------------
(* ChainMaker.                                                             *)

\* The answer to the question for the transaction says "executed" only when it was.
LEMMA CmAnswersFacts ==
  ASSUME exec \in RoundRec, NEW a \in CmAnswers
  PROVE  a \in Messages /\ (a = "executed" => Executed)
<1>1. CASE exec.type = "INVOKE"
  BY <1>1 DEF CmAnswers, Messages, Answers
<1>2. CASE exec.type = "QUERY"
  BY <1>2 DEF CmAnswers, Messages, Answers, Endorsed
<1>3. CASE exec.type = "SYNC"
  BY <1>3 DEF CmAnswers, Messages, Executed
<1>. QED
  BY <1>1, <1>2, <1>3 DEF RoundRec

LEMMA CmRequestKeeps ==
  ASSUME Inv, NEW a \in CmAnswers, NEW piece \in Pieces,
         NEW result \in {"SUCCESS", "HTTP2_INTERNAL"}, CmRequest(piece, a, result),
         CmGets(a) \/ UNCHANGED block,
         faults' \in FaultRec, piece = "whole" => UNCHANGED faults, piece # "whole" => faults'.seen # {}
  PROVE  Inv'
<1>0. /\ rpc.st = "sent" /\ chain \in Versions /\ UNCHANGED <<chain, cfg, tx, exec, ret, node, cm>>
      /\ http2' \in Received(http2, piece, a) /\ Ends(result)
  BY DEF CmRequest
<1>1. rpc # NoRpc
  BY <1>0 DEF NoRpc
<1>2. exec # NoExec /\ exec.st = "ask" /\ http2.open >= 1 /\ http2 \in Http2Rec /\ exec \in RoundRec
  BY <1>0, <1>1 DEF Inv, RpcInv, TypeInv
<1>3. a \in Messages /\ (a = "executed" => Executed)
  BY <1>2, CmAnswersFacts
<1>4. /\ http2' \in Http2Rec
      /\ http2'.open = IF piece = "whole" THEN http2.open - 1 ELSE http2.open
      /\ \/ piece = "none" /\ http2'.buf = http2.buf
         \/ http2'.buf.may = {NoAnswer}
         \/ piece = "whole" /\ http2'.buf.len = "long" /\ http2'.buf.may \subseteq {a, NoAnswer}
  BY <1>0, <1>2, <1>3, ReceivedFacts
<1>5. rpc' \in RpcSet /\ rpc'.st = "done"
  BY <1>0 DEF Ends, RpcSet
<1>6. SentInv'
  BY <1>0 DEF Inv, SentInv
<1>7. (Executed => Executed') /\ block' \in BlockRec
  <2>1. block \in BlockRec /\ cm.id \in Nat
    BY DEF Inv, TypeInv, CmRec
  <2>2. block' \in BlockRec /\ block'.done = block.done
    BY <2>1 DEF CmGets, BlockRec
  <2>. QED
    BY <1>0, <2>2 DEF Executed
<1>8. ASSUME NEW b \in http2'.buf.may \ {NoAnswer} PROVE HasAnswer(b)'
  <2>1. CASE piece = "none" /\ http2'.buf = http2.buf
    <3>1. HasAnswer(b)
      BY <1>8, <2>1 DEF Inv, BufInv, HasAnswer
    <3>. QED
      BY <1>0, <1>7, <2>1, <3>1 DEF HasAnswer
  <2>2. CASE piece = "whole" /\ http2'.buf.len = "long" /\ http2'.buf.may \subseteq {a, NoAnswer}
    BY <1>0, <1>3, <1>7, <1>8, <2>2 DEF HasAnswer
  <2>. QED
    BY <1>4, <1>8, <2>1, <2>2
<1>9. faults'.seen = {} => http2'.open = 0
  BY <1>0, <1>4 DEF Inv, RpcInv, Sockets
<1>. QED
  BY <1>0, <1>2, <1>4, <1>5, <1>6, <1>7, <1>8, <1>9, AskedKeeps

LEMMA CmRequestsKeep ==
  ASSUME Inv, CmRequest_Answered \/ CmRequest_TimedOut \/ CmRequest_Broken
  PROVE  Inv'
<1>0. TypeInv
  BY DEF Inv
<1>1. CASE CmRequest_Answered
  <2>1. PICK a \in CmAnswers : CmRequest("whole", a, "SUCCESS") /\ CmGets(a) /\ UNCHANGED faults
    BY <1>1 DEF CmRequest_Answered
  <2>2. faults' \in FaultRec /\ "whole" \in Pieces
    BY <1>0, <2>1, SameFaults DEF Pieces
  <2>. QED
    BY <2>1, <2>2, CmRequestKeeps
<1>2. CASE CmRequest_TimedOut
  <2>1. PICK a \in CmAnswers, piece \in Pieces \ {"whole"} :
          CmRequest(piece, a, "SUCCESS") /\ Fault("timeout") /\ (CmGets(a) \/ UNCHANGED block)
    BY <1>2 DEF CmRequest_TimedOut
  <2>2. faults' \in FaultRec /\ faults'.seen # {}
    BY <1>0, <2>1, FaultSeen
  <2>. QED
    BY <2>1, <2>2, CmRequestKeeps
<1>3. CASE CmRequest_Broken
  <2>1. PICK a \in CmAnswers, piece \in Pieces \ {"whole"} :
          CmRequest(piece, a, "HTTP2_INTERNAL") /\ Fault("protocol") /\ CmGets(a)
    BY <1>3 DEF CmRequest_Broken
  <2>2. faults' \in FaultRec /\ faults'.seen # {}
    BY <1>0, <2>1, FaultSeen
  <2>. QED
    BY <2>1, <2>2, CmRequestKeeps
<1>. QED
  BY <1>1, <1>2, <1>3
CmCodes == {"none", "SUCCESS", "ERROR", "bad"}

\* What a step of a ChainMaker call that is not a request leaves alone.
CmRunning ==
  /\ chain \in Versions /\ exec \in RoundRec /\ exec # NoExec
  /\ rpc.st # "sent" /\ rpc' = NoRpc
  /\ UNCHANGED <<chain, cfg, tx, node, block>>
  /\ faults' \in FaultRec /\ faults.seen \subseteq faults'.seen
  /\ http2' \in Http2Rec /\ http2'.buf = EmptyBuf /\ http2'.open = http2.open

LEMMA CmStepKeeps ==
  ASSUME Inv, CmRunning, cm' \in CmRec,
         \/ exec' = NoExec /\ RetInv'
         \/ exec' \in RoundRec /\ exec' # NoExec /\ UNCHANGED ret
  PROVE  Inv'
<1>1. TypeInv'
  BY DEF Inv, TypeInv, CmRunning, RpcSet
<1>2. LoopInv'
  BY DEF Inv, LoopInv, CmRunning
<1>3. RpcInv'
  BY DEF Inv, RpcInv, Sockets, CmRunning, NoRpc
<1>4. BufInv'
  BY EmptyBufType DEF BufInv, CmRunning
<1>5. SentInv'
  BY DEF Inv, SentInv, CmRunning
<1>6. RetInv'
  BY DEF Inv, RetInv, NoRet, CmRunning
<1>. QED
  BY <1>1, <1>2, <1>3, <1>4, <1>5, <1>6 DEF Inv

LEMMA CmReturnKeeps ==
  ASSUME Inv, CmRunning, NEW result, NEW code \in CmCodes, CmReturn(result, code),
         chain = "CHAINMAKER_V2" /\ exec.fun = "INVOKE" /\ result = "SUCCESS" /\ cm.sync /\ code = "SUCCESS" => Executed
  PROVE  Inv'
<1>1. exec' = NoExec /\ ret' = [op |-> exec.fun, code |-> result] /\ cm' = [cm EXCEPT !.code = code]
  BY DEF CmReturn
<1>2. cm \in CmRec
  BY DEF Inv, TypeInv
<1>3. cm' \in CmRec /\ cm'.code = code /\ cm'.id = cm.id /\ cm'.sync = cm.sync
  BY <1>1, <1>2 DEF CmRec, CmCodes
<1>4. RetInv'
  <2>1. Executed => Executed'
    BY <1>3 DEF Executed, CmRunning
  <2>2. chain' = chain /\ chain # "HWBCS"
    BY DEF CmRunning, Versions
  <2>. QED
    BY <1>1, <1>3, <2>1, <2>2 DEF RetInv
<1>. QED
  BY <1>1, <1>3, <1>4, CmStepKeeps

\* Another round, or the end: a response of the last round that reports
\* success is one the caller has checked.
LEMMA NextRoundKeeps ==
  ASSUME Inv, CmRunning, NEW i \in Nat, NEW result \in Codes, NEW resp \in BOOLEAN, NEW code \in CmCodes,
         NextRound(i, result, resp, code),
         chain = "CHAINMAKER_V2" /\ result = "SUCCESS" /\ resp => code # "SUCCESS"
  PROVE  Inv'
<1>1. CASE i + 1 < BOAT_RETRY_CNT
  <2>1. /\ exec' = [exec EXCEPT !.st = "pack", !.i = i + 1, !.result = result, !.resp = resp]
        /\ cm' = [cm EXCEPT !.code = code] /\ UNCHANGED ret
    BY <1>1 DEF NextRound
  <2>2. i + 1 \in 0..(BOAT_RETRY_CNT - 1)
    BY <1>1, RetryAssumption
  <2>3. exec' \in RoundRec /\ exec'.st = "pack" /\ exec'.fun = exec.fun
    BY <2>1, <2>2 DEF CmRunning, RoundRec
  <2>4. exec' # NoExec
    BY <2>3 DEF CmRunning, RoundRec, NoExec
  <2>5. cm' \in CmRec
    BY <2>1 DEF Inv, TypeInv, CmRec, CmCodes
  <2>. QED
    BY <2>1, <2>3, <2>4, <2>5, CmStepKeeps
<1>2. CASE ~(i + 1 < BOAT_RETRY_CNT)
  <2>. DEFINE d == IF result = "SUCCESS" /\ resp THEN code ELSE "ERROR"
  <2>1. CmReturn(result, d)
    BY <1>2 DEF NextRound, SyncEnd
  <2>2. d \in CmCodes /\ (chain = "CHAINMAKER_V2" /\ result = "SUCCESS" => d # "SUCCESS")
    BY DEF CmCodes
  <2>. HIDE DEF d
  <2>. QED
    BY <2>1, <2>2, CmReturnKeeps
<1>. QED
  BY <1>1, <1>2

LEMMA CmPackedKeeps == ASSUME Inv, NEW c \in Versions, TransactionPacked(c) PROVE Inv'
<1>0. /\ chain \in Versions /\ exec # NoExec /\ exec.st = "pack" /\ UNCHANGED block
  BY DEF TransactionPacked
<1>1. CASE Crash /\ UNCHANGED cm
  BY <1>0, <1>1, SameKeeps DEF Crash
<1>2. CASE ~(Crash /\ UNCHANGED cm)
  <2>0. /\ UNCHANGED <<chain, cfg, http2, tx, rpc, node, calls, alive>>
        /\ \/ /\ exec' = [exec EXCEPT !.st = "ask"]
              /\ cm'   = [cm EXCEPT !.params = IF exec.type = "SYNC" THEN "txId" ELSE @]
              /\ UNCHANGED <<ret, faults>>
           \/ UNCHANGED faults /\ CmReturn("GEN_SIGN_FAIL", cm.code)
           \/ Fault("pack") /\ CmReturn("GEN_SIGN_FAIL", cm.code)
           \/ Fault("pack") /\ CmReturn("ERROR", cm.code)
           \/ Fault("pack") /\ NextRound(exec.i, "GEN_SIGN_FAIL", exec.resp, cm.code)
    BY <1>2 DEF TransactionPacked
  <2>1. /\ exec \in RoundRec /\ http2 \in Http2Rec /\ http2.buf = EmptyBuf /\ rpc = NoRpc /\ rpc.st # "sent"
        /\ cm \in CmRec
    BY <1>0 DEF Inv, TypeInv, BufInv, RpcInv, NoRpc
  <2>2. faults' \in FaultRec /\ faults.seen \subseteq faults'.seen
    BY <2>0, SameFaults, FaultFacts DEF Inv
  <2>3. CmRunning
    BY <1>0, <2>0, <2>1, <2>2 DEF CmRunning
  <2>4. cm.code \in CmCodes /\ exec.i \in Nat /\ exec.resp \in BOOLEAN
    BY <2>1, RetryAssumption DEF CmRec, CmCodes, RoundRec
  <2>5. CASE /\ exec' = [exec EXCEPT !.st = "ask"]
             /\ cm'   = [cm EXCEPT !.params = IF exec.type = "SYNC" THEN "txId" ELSE @]
             /\ UNCHANGED <<ret, faults>>
    <3>1. exec' \in RoundRec /\ exec'.fun = exec.fun
      BY <2>1, <2>5 DEF RoundRec
    <3>2. exec' # NoExec
      BY <2>1, <3>1 DEF RoundRec, NoExec
    <3>3. cm' \in CmRec
      BY <2>1, <2>5 DEF CmRec
    <3>. QED
      BY <2>3, <2>5, <3>1, <3>2, <3>3, CmStepKeeps
  <2>6. CASE CmReturn("GEN_SIGN_FAIL", cm.code) \/ CmReturn("ERROR", cm.code)
    BY <2>3, <2>4, <2>6, CmReturnKeeps
  <2>7. CASE NextRound(exec.i, "GEN_SIGN_FAIL", exec.resp, cm.code)
    BY <2>3, <2>4, <2>7, NextRoundKeeps DEF Codes
  <2>. QED
    BY <2>0, <2>5, <2>6, <2>7
<1>. QED
  BY <1>1, <1>2
\* The caller has a result and an answer; success comes with a message from the buffer.
LEMMA CmHandleFrame ==
  ASSUME Inv, NEW type, CmAfter(type), rpc' = NoRpc, http2' = [http2 EXCEPT !.buf = EmptyBuf],
         UNCHANGED <<chain, cfg, tx, node, faults, block>>
  PROVE  /\ CmRunning /\ cm \in CmRec /\ cm.code \in CmCodes /\ exec.i \in Nat /\ exec.type = type
         /\ exec.type = "QUERY" => exec.fun = "QUERY"
<1>0. chain \in Versions /\ exec # NoExec /\ exec.type = type /\ rpc.st = "done"
  BY DEF CmAfter
<1>1. exec \in RoundRec /\ http2 \in Http2Rec /\ cm \in CmRec
  BY <1>0 DEF Inv, TypeInv
<1>2. http2' \in Http2Rec /\ http2'.buf = EmptyBuf /\ http2'.open = http2.open
  BY <1>1, EmptyBufType, BufType
<1>3. faults' \in FaultRec /\ faults.seen \subseteq faults'.seen
  BY SameFaults DEF Inv
<1>4. CmRunning
  BY <1>0, <1>1, <1>2, <1>3 DEF CmRunning
<1>5. cm.code \in CmCodes /\ exec.i \in Nat /\ (exec.type = "QUERY" => exec.fun = "QUERY")
  BY <1>1, RetryAssumption DEF CmRec, CmCodes, RoundRec
<1>. QED
  BY <1>0, <1>1, <1>4, <1>5

LEMMA TxRequestFacts ==
  ASSUME Inv, NEW result \in Results, NEW a, TxRequest(result, a)
  PROVE  result \in Codes /\ (a = "executed" => Executed)
<1>1. result \in Codes
  BY DEF Results, Codes
<1>2. ASSUME a = "executed" PROVE Executed
  <2>1. a \in http2.buf.may /\ a # NoAnswer
    BY <1>2, NoAnswerAssumption DEF TxRequest
  <2>. QED
    BY <1>2, <2>1 DEF Inv, BufInv
<1>. QED
  BY <1>1, <1>2

LEMMA InvokeKeeps == ASSUME Inv, Chainmaker_Invoke PROVE Inv'
<1>0. /\ CmAfter("INVOKE") /\ rpc' = NoRpc /\ http2' = [http2 EXCEPT !.buf = EmptyBuf]
      /\ UNCHANGED <<chain, cfg, tx, node, faults, block>>
  BY DEF Chainmaker_Invoke, CmHandle
<1>1. PICK result \in Results, a \in http2.buf.may \cup {NoAnswer} : TxRequest(result, a) /\ Invoke_Answer(result, a)
  BY DEF Chainmaker_Invoke, CmHandle
<1>2. CmRunning /\ cm \in CmRec /\ cm.code \in CmCodes /\ exec.type = "INVOKE"
  BY <1>0, CmHandleFrame
<1>3. CASE result # "SUCCESS" /\ CmReturn(result, cm.code)
  BY <1>2, <1>3, CmReturnKeeps
<1>4. CASE CmReturn("ERROR", "bad")
  BY <1>2, <1>4, CmReturnKeeps DEF CmCodes
<1>5. CASE ~cm.sync /\ CmReturn("SUCCESS", "SUCCESS")
  BY <1>2, <1>5, CmReturnKeeps DEF CmCodes
<1>6. CASE /\ exec' = [exec EXCEPT !.type = "SYNC", !.st = "pack", !.resp = TRUE]
           /\ cm' = [cm EXCEPT !.code = "SUCCESS"] /\ UNCHANGED ret
  <2>1. exec' \in RoundRec /\ exec'.fun = exec.fun
    BY <1>2, <1>6 DEF RoundRec, CmRunning
  <2>2. exec' # NoExec
    BY <1>2, <2>1 DEF RoundRec, NoExec, CmRunning
  <2>3. cm' \in CmRec
    BY <1>2, <1>6 DEF CmRec
  <2>. QED
    BY <1>2, <1>6, <2>1, <2>2, <2>3, CmStepKeeps
<1>. QED
  BY <1>1, <1>3, <1>4, <1>5, <1>6 DEF Invoke_Answer

LEMMA SyncKeeps == ASSUME Inv, Chainmaker_Sync PROVE Inv'
<1>0. /\ CmAfter("SYNC") /\ rpc' = NoRpc /\ http2' = [http2 EXCEPT !.buf = EmptyBuf]
      /\ UNCHANGED <<chain, cfg, tx, node, faults, block>>
  BY DEF Chainmaker_Sync, CmHandle
<1>1. PICK result \in Results, a \in http2.buf.may \cup {NoAnswer} : TxRequest(result, a) /\ Sync_Answer(result, a)
  BY DEF Chainmaker_Sync, CmHandle
<1>2. CmRunning /\ cm.code \in CmCodes /\ exec.i \in Nat
  BY <1>0, CmHandleFrame
<1>3. result \in Codes /\ "SUCCESS" \in Codes /\ (a = "executed" => Executed)
  BY <1>1, TxRequestFacts DEF Codes
<1>4. CASE result # "SUCCESS" /\ NextRound(exec.i, result, FALSE, cm.code)
  BY <1>2, <1>3, <1>4, NextRoundKeeps
<1>5. CASE NextRound(exec.i, "SUCCESS", TRUE, "bad")
  BY <1>2, <1>3, <1>5, NextRoundKeeps DEF CmCodes
<1>6. CASE a = "executed" /\ SyncEnd("SUCCESS", TRUE, "SUCCESS")
  <2>1. CmReturn("SUCCESS", "SUCCESS")
    BY <1>6 DEF SyncEnd
  <2>. QED
    BY <1>2, <1>3, <1>6, <2>1, CmReturnKeeps DEF CmCodes
<1>7. CASE chain = "CHAINMAKER_V1" /\ NextRound(exec.i, "SUCCESS", TRUE, "SUCCESS")
  BY <1>2, <1>3, <1>7, NextRoundKeeps DEF CmCodes
<1>8. CASE NextRound(IF a = "failed" THEN BOAT_RETRY_CNT - 1 ELSE exec.i, "SUCCESS", FALSE, "SUCCESS")
  <2>. DEFINE i == IF a = "failed" THEN BOAT_RETRY_CNT - 1 ELSE exec.i
  <2>1. i \in Nat
    BY <1>2, RetryAssumption
  <2>2. NextRound(i, "SUCCESS", FALSE, "SUCCESS")
    BY <1>8
  <2>. HIDE DEF i
  <2>. QED
    BY <1>2, <1>3, <2>1, <2>2, NextRoundKeeps DEF CmCodes
<1>. QED
  BY <1>1, <1>4, <1>5, <1>6, <1>7, <1>8 DEF Sync_Answer

LEMMA QueryKeeps == ASSUME Inv, Chainmaker_Query PROVE Inv'
<1>0. /\ CmAfter("QUERY") /\ rpc' = NoRpc /\ http2' = [http2 EXCEPT !.buf = EmptyBuf]
      /\ UNCHANGED <<chain, cfg, tx, node, faults, block>>
  BY DEF Chainmaker_Query, CmHandle
<1>1. PICK result \in Results, a \in http2.buf.may \cup {NoAnswer} : TxRequest(result, a) /\ Query_Answer(result, a)
  BY DEF Chainmaker_Query, CmHandle
<1>2. CmRunning /\ cm.code \in CmCodes /\ exec.fun = "QUERY"
  BY <1>0, CmHandleFrame
<1>3. CASE CmReturn(result, cm.code)
  BY <1>2, <1>3, CmReturnKeeps
<1>4. CASE CmReturn("SUCCESS", IF a = "ok" THEN "SUCCESS" ELSE "bad")
  <2>. DEFINE d == IF a = "ok" THEN "SUCCESS" ELSE "bad"
  <2>1. d \in CmCodes /\ CmReturn("SUCCESS", d)
    BY <1>4 DEF CmCodes
  <2>. HIDE DEF d
  <2>. QED
    BY <1>2, <2>1, CmReturnKeeps
<1>. QED
  BY <1>1, <1>3, <1>4 DEF Query_Answer

LEMMA CmCrashKeeps ==
  ASSUME Inv, Chainmaker_FreedTwice \/ Chainmaker_QueryCrash \/ CmRequest_Crash
  PROVE  Inv'
BY SameKeeps DEF Chainmaker_FreedTwice, Chainmaker_QueryCrash, CmRequest_Crash, Crash

\* The calls of the application that ask no node, and the start of those that do.
LEMMA CmCallsKeep ==
  ASSUME Inv, \/ BoatChainmakerWalletInit \/ BoatChainmakerWalletDeInit \/ BoatChainmakerTxInit
              \/ BoatChainmakerAddTxParam
  PROVE  Inv'
<1>0. cm \in CmRec /\ TypeInv
  BY DEF Inv, TypeInv
<1>1. CASE BoatChainmakerWalletInit
  BY <1>1, WalletInitKeeps DEF BoatChainmakerWalletInit
<1>2. CASE BoatChainmakerWalletDeInit
  <2>1. PICK c \in Versions : WalletDeInit(c) /\ cm' = [cm EXCEPT !.init = FALSE] /\ UNCHANGED block
    BY <1>2 DEF BoatChainmakerWalletDeInit
  <2>2. cm' \in CmRec
    BY <1>0, <2>1 DEF CmRec
  <2>. QED
    BY <2>1, <2>2, WalletDeInitKeeps
<1>3. ASSUME NEW c \in Versions, Configured(c), cm' \in CmRec, UNCHANGED <<http2, tx, faults, block>> PROVE Inv'
  <2>1. faults' \in FaultRec /\ faults.seen \subseteq faults'.seen
    BY <1>0, <1>3, SameFaults
  <2>2. Current(tx')
    BY <1>3, ConfiguredFrame
  <2>. QED
    BY <1>3, <2>1, <2>2, ConfiguredFrame, ConfiguredKeeps
<1>4. CASE BoatChainmakerTxInit
  <2>1. cm' \in CmRec
    BY <1>0, <1>4 DEF BoatChainmakerTxInit, CmRec
  <2>. QED
    BY <1>3, <1>4, <2>1 DEF BoatChainmakerTxInit
<1>5. CASE BoatChainmakerAddTxParam
  <2>1. cm' \in CmRec
    BY <1>0, <1>5 DEF BoatChainmakerAddTxParam, CmRec
  <2>. QED
    BY <1>3, <1>5, <2>1 DEF BoatChainmakerAddTxParam
<1>. QED
  BY <1>1, <1>2, <1>4, <1>5

LEMMA CmStartKeeps ==
  ASSUME Inv, BoatChainmakerContractInvoke \/ BoatChainmakerContractQuery
  PROVE  Inv'
<1>1. PICK fun \in {"INVOKE", "QUERY"}, sync \in BOOLEAN : Start(fun, fun, sync)
  BY DEF BoatChainmakerContractInvoke, BoatChainmakerContractQuery
<1>2. /\ exec = NoExec /\ chain \in Versions /\ ret' = NoRet
      /\ exec' = [fun |-> fun, type |-> fun, st |-> "pack", i |-> 0, result |-> "SUCCESS", resp |-> FALSE]
      /\ cm' = [cm EXCEPT !.id = @ + 1, !.sync = sync]
      /\ UNCHANGED <<chain, cfg, http2, tx, rpc, node, faults, block>>
  BY <1>1 DEF Start, Called, Idle
<1>3. /\ rpc = NoRpc /\ http2.buf = EmptyBuf /\ Current(tx) /\ Len(tx.response) <= tx.left /\ cm \in CmRec
  BY <1>2, IdleFacts
<1>4. exec' \in RoundRec /\ exec'.fun = fun
  BY <1>2, RetryAssumption DEF RoundRec, Codes
<1>5. exec' # NoExec
  BY <1>4 DEF NoExec
<1>6. cm' \in CmRec
  <2>1. cm.id + 1 \in Nat
    BY <1>3 DEF CmRec
  <2>. QED
    BY <1>2, <1>3, <2>1 DEF CmRec
<1>7. TypeInv'
  BY <1>2, <1>4, <1>6 DEF Inv, TypeInv
<1>8. LoopInv'
  BY <1>2, <1>3 DEF LoopInv
<1>9. RpcInv'
  BY <1>2, <1>3 DEF Inv, RpcInv, Sockets, NoRpc
<1>10. BufInv'
  BY <1>2, <1>3, EmptyBufType DEF BufInv
<1>11. SentInv'
  BY <1>2 DEF Inv, SentInv
<1>12. RetInv'
  BY <1>2 DEF RetInv, NoRet
<1>. QED
  BY <1>7, <1>8, <1>9, <1>10, <1>11, <1>12 DEF Inv

\* The node executes an invocation; those of the past stay executed.
LEMMA ExecuteKeeps == ASSUME Inv, Node_Execute PROVE Inv'
<1>1. PICK id \in block.pool, ok \in BOOLEAN :
        /\ block' = [pool |-> block.pool \ {id}, done |-> block.done \cup {[id |-> id, ok |-> ok]}]
        /\ UNCHANGED <<fabric, cm>>
  BY DEF Node_Execute
<1>2. block \in BlockRec /\ block # NoBlock
  BY <1>1 DEF Inv, TypeInv, NoBlock
<1>3. chain \in Versions /\ block' \in BlockRec
  <2>1. [id |-> id, ok |-> ok] \in [id : Nat, ok : BOOLEAN]
    BY <1>1, <1>2 DEF BlockRec
  <2>2. block.pool \subseteq Nat /\ block.done \subseteq [id : Nat, ok : BOOLEAN]
    BY <1>2 DEF BlockRec
  <2>3. block' \in BlockRec
    BY <1>1, <2>1, <2>2 DEF BlockRec
  <2>. QED
    BY <1>2, <2>3 DEF Inv, TypeInv
<1>4. Executed => Executed'
  BY <1>1 DEF Executed
<1>5. UNCHANGED <<chain, cfg, http2, tx, exec, rpc, ret, node, faults, cm>>
  BY <1>1 DEF fabric
<1>6. TypeInv'
  BY <1>3, <1>5 DEF Inv, TypeInv
<1>7. LoopInv'
  BY <1>5 DEF Inv, LoopInv
<1>8. RpcInv'
  BY <1>5 DEF Inv, RpcInv, Sockets
<1>9. BufInv'
  BY <1>4, <1>5 DEF Inv, BufInv, Ordered, Accepted
<1>10. SentInv'
  BY <1>5 DEF Inv, SentInv
<1>11. RetInv'
  BY <1>4, <1>5 DEF Inv, RetInv, Ordered, Accepted
<1>. QED
  BY <1>6, <1>7, <1>8, <1>9, <1>10, <1>11 DEF Inv
----------------------------------------------------------------------------
(* The inductive invariant.                                                *)

LEMMA InitInv == Init => Inv
<1>. SUFFICES ASSUME Init PROVE Inv
  OBVIOUS
<1>1. http2 = [ctx |-> "none", open |-> 0, buf |-> EmptyBuf] /\ http2 \in Http2Rec
  <2>1. http2 = [ctx |-> "none", open |-> 0, buf |-> EmptyBuf]
    BY DEF Init, http2Init
  <2>. QED
    BY <2>1, EmptyBufType DEF Http2Rec
<1>2. tx \in TxRec /\ Current(tx) /\ Len(tx.response) <= tx.left
  <2>. DEFINE r == <<>>
  <2>1. tx = [init |-> FALSE, args |-> FALSE, nonce |-> 0, response |-> r, evaluateRes |-> 0, left |-> 0]
    BY DEF Init, NoTx
  <2>2. r \in Seq(RespRec) /\ Len(r) = 0
    OBVIOUS
  <2>. HIDE DEF r
  <2>3. tx \in TxRec /\ tx.response = r /\ tx.evaluateRes = 0 /\ tx.left = 0
    BY <2>1, <2>2 DEF TxRec
  <2>. QED
    BY <2>2, <2>3 DEF Current
<1>3. faults \in FaultRec
  BY BoundAssumption DEF Init, FaultRec
<1>4. cm \in CmRec /\ block \in BlockRec
  BY DEF Init, NoCm, NoBlock, CmRec, BlockRec
<1>5. TypeInv
  BY <1>1, <1>2, <1>3, <1>4 DEF Init, TypeInv, RpcSet
<1>6. LoopInv
  BY <1>2 DEF Init, LoopInv
<1>7. RpcInv
  BY <1>1 DEF Init, RpcInv, Sockets, NoRpc
<1>8. BufInv
  BY <1>1, EmptyBufType DEF Init, BufInv
<1>9. SentInv
  BY DEF Init, SentInv
<1>10. RetInv
  BY DEF Init, RetInv, NoRet
<1>. QED
  BY <1>5, <1>6, <1>7, <1>8, <1>9, <1>10 DEF Inv

LEMMA ApplicationKeeps == ASSUME Inv, Application PROVE Inv'
<1>1. CASE \E c \in FabricProtocols : Fabric(WalletInit(c))
  BY <1>1, WalletInitKeeps DEF Fabric
<1>2. CASE \E c \in FabricProtocols : Fabric(WalletDeInit(c))
  BY <1>2, WalletDeInitKeeps DEF Fabric, Inv, TypeInv
<1>3. CASE \E c \in FabricProtocols : Fabric(TxInit(c))
  BY <1>3, TxInitKeeps DEF Fabric
<1>4. CASE \E c \in FabricProtocols : Fabric(TxDeInit(c))
  BY <1>4, TxDeInitKeeps DEF Fabric
<1>5. CASE \E c \in FabricProtocols : Fabric(TxSetArgs(c))
  BY <1>5, TxSetArgsKeeps DEF Fabric
<1>6. CASE \E c \in FabricProtocols, fun \in {"EVALUATE", "SUBMIT"} : Fabric(TxStart(c, fun))
  BY <1>6, TxStartKeeps DEF Fabric
<1>7. CASE \/ BoatChainmakerWalletInit \/ BoatChainmakerWalletDeInit \/ BoatChainmakerTxInit
           \/ BoatChainmakerAddTxParam
  BY <1>7, CmCallsKeep
<1>8. CASE BoatChainmakerContractInvoke \/ BoatChainmakerContractQuery
  BY <1>8, CmStartKeeps
<1>9. CASE Fabric(TxInit_FreesOther) \/ Fabric(http2DeInit_FreedTwice)
  BY <1>9, FabricCrashKeeps
<1>. QED
  BY <1>1, <1>2, <1>3, <1>4, <1>5, <1>6, <1>7, <1>8, <1>9
  DEF Application, FabricProtocols, BoatHlfabricWalletInit, BoatHlfabricWalletDeInit, BoatHwbcsWalletInit,
      BoatHwbcsWalletDeInit, BoatHlfabricTxInit, BoatHlfabricTxDeInit, BoatHwbcsTxInit, BoatHwbcsTxDeInit,
      BoatHlfabricTxSetArgs, BoatHwbcsTxSetArgs, BoatHlfabricTxEvaluate, BoatHlfabricTxSubmit,
      BoatHwbcsTxEvaluate, BoatHwbcsTxSubmit

LEMMA ClientKeeps == ASSUME Inv, Client PROVE Inv'
<1>1. CASE chainmaker_v1_TransactionPacked \/ chainmaker_v2_TransactionPacked
  BY <1>1, CmPackedKeeps DEF chainmaker_v1_TransactionPacked, chainmaker_v2_TransactionPacked, Versions
<1>. QED
  BY <1>1, PackKeeps, SubmitRequestKeeps, HlfabricNoAnswerKeeps, HlfabricEndorserKeeps, HlfabricOrdererKeeps,
     FabricCrashKeeps, HwbcsEndorserKeeps, HwbcsOrdererKeeps, InvokeKeeps, SyncKeeps, QueryKeeps, CmCrashKeeps
  DEF Client

LEMMA NetworkKeeps == ASSUME Inv, Network PROVE Inv'
BY RequestsKeep, FabricCrashKeeps, CmRequestsKeep DEF Network

LEMMA NextInv == Inv /\ [Next]_vars => Inv'
<1>1. ASSUME Inv, UNCHANGED vars PROVE Inv'
  BY <1>1, SameKeeps DEF vars, fabric
<1>2. ASSUME Inv, Next PROVE Inv'
  BY <1>2, ApplicationKeeps, ClientKeeps, NetworkKeeps, ExecuteKeeps DEF Next
<1>. QED
  BY <1>1, <1>2

\* The inductive invariant holds throughout.
LEMMA ChainmakerInv == Spec => []Inv
BY InitInv, NextInv, PTL DEF Spec
----------------------------------------------------------------------------
(* What the steps do to the result of an Evaluate and to a request that is *)
(* answered.                                                               *)

\* The loops leave evaluateRes alone; only Store and Header write it.
LEMMA LoopsKeepResult ==
  ASSUME NEW t \in TxRec, NEW e, NEW buf, NEW result,
         \/ Continue(e, buf, t) \/ ExecReturns(result, t) \/ NextGroup(e, buf, t) \/ NextEndorser(e, buf, t)
         \/ CountEndorser(e, t)
  PROVE  tx'.evaluateRes = t.evaluateRes
<1>1. ASSUME NEW s \in TxRec, NEW code, Return(code, s) PROVE tx'.evaluateRes = s.evaluateRes
  BY <1>1 DEF Return, TxRec
<1>2. ASSUME NEW code, ExecReturns(code, t) PROVE tx'.evaluateRes = t.evaluateRes
  <2>1. CASE tx' = t
    BY <2>1
  <2>2. CASE Return(code, t)
    BY <1>1, <2>2
  <2>3. CASE Return(code, Freed(t))
    BY <1>1, <2>3, FreedType
  <2>. QED
    BY <1>2, <2>1, <2>2, <2>3 DEF ExecReturns
<1>3. ASSUME NEW f, NEW b, Continue(f, b, t) PROVE tx'.evaluateRes = t.evaluateRes
  BY <1>3 DEF Continue
<1>4. ASSUME NEW f, NEW b, NextGroup(f, b, t) PROVE tx'.evaluateRes = t.evaluateRes
  BY <1>2, <1>3, <1>4 DEF NextGroup
<1>5. ASSUME NEW f, NEW b, NextEndorser(f, b, t) PROVE tx'.evaluateRes = t.evaluateRes
  BY <1>2, <1>3, <1>4, <1>5 DEF NextEndorser
<1>6. ASSUME CountEndorser(e, t) PROVE tx'.evaluateRes = t.evaluateRes
  BY <1>2, <1>4, <1>5, <1>6 DEF CountEndorser, Counted
<1>. QED
  BY <1>2, <1>3, <1>4, <1>5, <1>6

\* What is stored needs more places than the array has.
TooMany == tx.left + Needs(cfg, exec.fun) > ENDORSER_MAX_NUM

\* An answer is stored behind the array only when it and those before it need
\* more places than there are.
LEMMA StoreFits ==
  ASSUME NEW type \in {"PROPOSAL", "TRANSACTION"}, AtAnswer(type), ~TooMany
  PROVE  Store(tx, type).evaluateRes = tx.evaluateRes
<1>0. /\ cfg \in NodeCfgs /\ exec \in LoopRec /\ tx \in TxRec /\ Current(tx) /\ exec.type = type
      /\ Fits(cfg, exec, tx) /\ (type = "TRANSACTION" => exec.fun = "SUBMIT")
  BY DEF AtAnswer, LoopOK
<1>1. Len(tx.response) \in Nat /\ ENDORSER_MAX_NUM \in Nat /\ tx.left \in Nat
  BY <1>0, BoundAssumption DEF TxRec
<1>2. Len(tx.response) < ENDORSER_MAX_NUM
  <2>1. CASE type = "TRANSACTION"
    <3>1. Len(tx.response) <= tx.left + Cardinality(Places(cfg, "SUBMIT")) /\ exec.fun = "SUBMIT"
      BY <1>0, <2>1 DEF Fits
    <3>2. Cardinality(Places(cfg, "SUBMIT")) \in Nat
      BY <1>0, TakenFacts
    <3>3. ~(tx.left + (Cardinality(Places(cfg, "SUBMIT")) + 1) > ENDORSER_MAX_NUM)
      BY <3>1 DEF TooMany, Needs
    <3>. QED
      BY <1>1, <3>1, <3>2, <3>3
  <2>2. CASE type = "PROPOSAL"
    <3>. DEFINE x == IF exec.fun = "EVALUATE" THEN exec.k - 1 ELSE exec.valid
    <3>0. AtAnswer("PROPOSAL")
      BY <2>2
    <3>1. x \in Nat /\ x + 1 \in Nat /\ x + 1 <= Room(exec.fun, cfg.layouts[exec.i][exec.j])
      <4>1. /\ exec.k \in Nat /\ exec.k >= 1 /\ exec.k <= cfg.layouts[exec.i][exec.j].n
            /\ exec.valid \in Nat
            /\ exec.valid = 0 \/ exec.valid < cfg.layouts[exec.i][exec.j].q
            /\ cfg.layouts[exec.i][exec.j].n \in Nat /\ cfg.layouts[exec.i][exec.j].q \in Nat
        BY <3>0, LoopFacts DEF GroupOf
      <4>2. CASE exec.fun = "EVALUATE"
        BY <4>1, <4>2 DEF Room
      <4>3. CASE exec.fun # "EVALUATE"
        BY <4>1, <4>3 DEF Room
      <4>. QED
        BY <4>2, <4>3
    <3>2. Len(tx.response) <= tx.left + Cardinality(Taken(cfg, exec.fun, exec.i, exec.j, x))
      BY <3>0, LoopFacts DEF TakenAt
    <3>. HIDE DEF x
    <3>3. exec.i \in Nat /\ exec.j \in Nat /\ exec.fun \in {"EVALUATE", "SUBMIT"}
          /\ exec.i \in DOMAIN cfg.layouts /\ exec.j \in DOMAIN cfg.layouts[exec.i]
      BY <3>0, LoopFacts
    <3>7. Reached(cfg, exec.fun, exec.i, exec.j)
      BY <3>0, LoopFacts
    <3>4. Cardinality(Taken(cfg, exec.fun, exec.i, exec.j, x)) + 1
            <= Cardinality(Taken(cfg, exec.fun, exec.i, exec.j, x + 1))
      BY <1>0, <3>1, <3>3, <3>7, TakenGrows
    <3>5. /\ Cardinality(Taken(cfg, exec.fun, exec.i, exec.j, x)) \in Nat
          /\ Cardinality(Taken(cfg, exec.fun, exec.i, exec.j, x + 1)) \in Nat
          /\ Cardinality(Places(cfg, exec.fun)) \in Nat
          /\ Cardinality(Taken(cfg, exec.fun, exec.i, exec.j, x + 1)) <= Cardinality(Places(cfg, exec.fun))
      BY <1>0, <3>1, <3>3, TakenFacts
    <3>6. tx.left + Cardinality(Places(cfg, exec.fun)) <= ENDORSER_MAX_NUM
      BY <1>1, <3>5 DEF TooMany, Needs
    <3>. QED
      BY <1>1, <3>2, <3>4, <3>5, <3>6
  <2>. QED
    BY <2>1, <2>2
<1>. QED
  BY <1>0, <1>1, <1>2, StoreFacts

\* The handlers overrun the array only with too many answers.
LEMMA HandlerFits ==
  ASSUME Inv, \/ Fabric(Hlfabric_NoAnswer) \/ Fabric(Hlfabric_Endorser) \/ Fabric(Hlfabric_Orderer)
              \/ Fabric(Hwbcs_Endorser) \/ Fabric(Hwbcs_Orderer),
         ~TooMany, tx.evaluateRes # Overrun
  PROVE  tx'.evaluateRes # Overrun
<1>0. tx \in TxRec /\ tx.nonce # Overrun
  BY DEF Inv, TypeInv, TxRec, Overrun
<1>1. ASSUME NEW t \in TxRec, t.evaluateRes # Overrun, NEW e, NEW buf, NEW result,
             \/ Continue(e, buf, t) \/ ExecReturns(result, t) \/ NextEndorser(e, buf, t) \/ CountEndorser(e, t)
      PROVE  tx'.evaluateRes # Overrun
  BY <1>1, LoopsKeepResult
<1>2. ASSUME NEW e, NEW buf, NextOrderer(e, buf) PROVE tx'.evaluateRes # Overrun
  BY <1>0, <1>1, <1>2 DEF NextOrderer
<1>3. CASE Fabric(Hlfabric_NoAnswer)
  BY <1>0, <1>1, <1>3 DEF Fabric, Hlfabric_NoAnswer
<1>4. CASE Fabric(Hlfabric_Endorser)
  <2>1. AtAnswer("PROPOSAL")
    BY <1>4, AnswerFrame DEF Fabric, Hlfabric_Endorser, FabricProtocols
  <2>. DEFINE t == Store(tx, "PROPOSAL")
              u == [t EXCEPT !.evaluateRes = tx.nonce]
  <2>2. t \in TxRec /\ t.evaluateRes # Overrun
    BY <2>1, StoreFits, StoreFacts DEF AtAnswer, LoopOK
  <2>3. \/ NextEndorser(With("SUCCESS"), EmptyBuf, tx) \/ CountEndorser(With("SUCCESS"), t)
        \/ NextEndorser(With("SUCCESS"), EmptyBuf, t) \/ ExecReturns("SUCCESS", t)
        \/ ExecReturns("SUCCESS", u) \/ ExecReturns("OUT_OF_MEMORY", t)
    BY <1>4 DEF Fabric, Hlfabric_Endorser
  <2>. HIDE DEF t
  <2>4. u \in TxRec /\ u.evaluateRes # Overrun
    BY <1>0, <2>2 DEF TxRec
  <2>. HIDE DEF u
  <2>. QED
    BY <1>0, <1>1, <2>2, <2>3, <2>4
<1>5. CASE Fabric(Hlfabric_Orderer)
  <2>1. AtAnswer("TRANSACTION")
    BY <1>5, AnswerFrame DEF Fabric, Hlfabric_Orderer, FabricProtocols
  <2>. DEFINE t == Store(tx, "TRANSACTION")
  <2>2. t \in TxRec /\ t.evaluateRes # Overrun
    BY <2>1, StoreFits, StoreFacts DEF AtAnswer, LoopOK
  <2>3. \/ ExecReturns("SUCCESS", t) \/ \E e, buf : NextOrderer(e, buf)
    BY <1>5 DEF Fabric, Hlfabric_Orderer
  <2>. HIDE DEF t
  <2>. QED
    BY <1>1, <1>2, <2>2, <2>3
<1>6. CASE Fabric(Hwbcs_Endorser)
  BY <1>0, <1>1, <1>6 DEF Fabric, Hwbcs_Endorser
<1>7. CASE Fabric(Hwbcs_Orderer)
  BY <1>0, <1>1, <1>2, <1>7 DEF Fabric, Hwbcs_Orderer
<1>. QED
  BY <1>3, <1>4, <1>5, <1>6, <1>7

\* The other steps write 0 or nothing.
LEMMA OthersFit ==
  ASSUME Inv, Application \/ Client \/ Network \/ Node_Execute,
         ~(\/ Fabric(Hlfabric_NoAnswer) \/ Fabric(Hlfabric_Endorser) \/ Fabric(Hlfabric_Orderer)
           \/ Fabric(Hwbcs_Endorser) \/ Fabric(Hwbcs_Orderer)),
         tx.evaluateRes # Overrun
  PROVE  tx'.evaluateRes # Overrun
<1>0. tx \in TxRec
  BY DEF Inv, TypeInv
<1>1. CASE UNCHANGED tx
  BY <1>1
<1>2. ASSUME NEW t \in {[NoTx EXCEPT !.nonce = tx.nonce], [NoTx EXCEPT !.init = TRUE, !.nonce = tx.nonce]}
      PROVE  t.evaluateRes # Overrun
  <2>1. t.evaluateRes = 0
    BY <1>2 DEF NoTx
  <2>. QED
    BY <2>1 DEF Overrun
<1>3. CASE tx' = [tx EXCEPT !.args = TRUE]
  BY <1>0, <1>3 DEF TxRec
<1>4. CASE Fabric(hlfabricProposalTransactionPacked) \/ Fabric(hwbcsProposalTransactionPacked)
  <2>1. /\ chain \notin Versions /\ exec # NoExec /\ exec.st = "pack"
        /\ \/ UNCHANGED tx
           \/ Continue(exec, EmptyBuf, Header(tx))
           \/ ExecReturns("PROTO_PACKET_FAIL", Header(tx))
    BY <1>4 DEF Fabric, hlfabricProposalTransactionPacked, hwbcsProposalTransactionPacked, Pack, Versions, Crash
  <2>2. Header(tx) \in TxRec
    BY <2>1, HeaderFacts
  <2>3. Header(tx).evaluateRes = 0
    BY <1>0 DEF Header, TxRec
  <2>4. CASE Continue(exec, EmptyBuf, Header(tx)) \/ ExecReturns("PROTO_PACKET_FAIL", Header(tx))
    <3>1. tx'.evaluateRes = 0
      BY <2>2, <2>3, <2>4, LoopsKeepResult
    <3>. QED
      BY <3>1 DEF Overrun
  <2>. QED
    BY <1>1, <2>1, <2>4
<1>5. CASE Application
  <2>1. \/ UNCHANGED tx \/ tx' = [tx EXCEPT !.args = TRUE]
        \/ tx' \in {[NoTx EXCEPT !.nonce = tx.nonce], [NoTx EXCEPT !.init = TRUE, !.nonce = tx.nonce]}
    BY <1>5 DEF Application, Fabric, BoatHlfabricWalletInit, BoatHlfabricWalletDeInit, BoatHwbcsWalletInit,
      BoatHwbcsWalletDeInit, BoatHlfabricTxInit, BoatHlfabricTxDeInit, BoatHwbcsTxInit, BoatHwbcsTxDeInit,
      BoatHlfabricTxSetArgs, BoatHwbcsTxSetArgs, BoatHlfabricTxEvaluate, BoatHlfabricTxSubmit,
      BoatHwbcsTxEvaluate, BoatHwbcsTxSubmit, WalletInit, WalletDeInit, TxInit, TxDeInit, TxSetArgs, TxStart,
      BoatChainmakerWalletInit, BoatChainmakerWalletDeInit, BoatChainmakerTxInit, BoatChainmakerAddTxParam,
      BoatChainmakerContractInvoke, BoatChainmakerContractQuery, Start,
      TxInit_FreesOther, http2DeInit_FreedTwice, Crash
  <2>. QED
    BY <1>1, <1>2, <1>3, <2>1
<1>6. CASE Client /\ ~(Fabric(hlfabricProposalTransactionPacked) \/ Fabric(hwbcsProposalTransactionPacked))
  <2>1. CASE \/ Fabric(http2SubmitRequest) \/ Fabric(Hlfabric_FreedTwice) \/ Fabric(Hwbcs_EndorserCrash)
             \/ Fabric(Hwbcs_OrdererCrash)
    BY <1>1, <2>1 DEF Fabric, http2SubmitRequest, Hlfabric_FreedTwice, Hwbcs_EndorserCrash, Hwbcs_OrdererCrash, Crash
  <2>2. CASE chainmaker_v1_TransactionPacked \/ chainmaker_v2_TransactionPacked
    BY <1>1, <2>2 DEF chainmaker_v1_TransactionPacked, chainmaker_v2_TransactionPacked, TransactionPacked, Crash
  <2>3. CASE Chainmaker_Invoke \/ Chainmaker_Sync \/ Chainmaker_Query
    BY <1>1, <2>3 DEF Chainmaker_Invoke, Chainmaker_Sync, Chainmaker_Query, CmHandle
  <2>4. CASE Chainmaker_FreedTwice \/ Chainmaker_QueryCrash \/ CmRequest_Crash
    BY <1>1, <2>4 DEF Chainmaker_FreedTwice, Chainmaker_QueryCrash, CmRequest_Crash, Crash
  <2>. QED
    BY <1>6, <2>1, <2>2, <2>3, <2>4 DEF Client
<1>7. CASE Network
  BY <1>1, <1>7 DEF Network, Fabric, Request_Answered, Request_TimedOut, Request_Broken, Request_IntoFreed, Request,
    CmRequest_Answered, CmRequest_TimedOut, CmRequest_Broken, CmRequest, Crash
<1>8. CASE Node_Execute
  BY <1>1, <1>8 DEF Node_Execute, fabric
<1>. QED
  BY <1>4, <1>5, <1>6, <1>7, <1>8
----------------------------------------------------------------------------
(* What is ordered, and what the application is told.                      *)

Untold(nonce) == \A m \in node : m.nonce = nonce => m.answer # "accepted"
Unsent(nonce) == \A m \in node : m.nonce # nonce

\* No orderer has accepted, and nothing in the buffer hides an acceptance to come.
Asking ==
  /\ Untold(tx.nonce)
  /\ \/ http2.buf = EmptyBuf
     \/ chain = "HWBCS" /\ rpc.st = "done" /\ rpc.result = "SUCCESS" /\ http2.buf.may = {"rejected"}

\* The acceptance is in the buffer, alone.
Told == rpc.st = "done" /\ rpc.result = "SUCCESS" /\ http2.buf.may = {"accepted"} /\ http2.buf.len = "long"

Failed(r) == r.op = "SUBMIT" /\ r.code \notin {"SUCCESS", "INVALID_ARGUMENT"}

Submitting == exec # NoExec /\ chain \notin Versions

\* Before orderers are asked none has the transaction; while they are, none has
\* accepted it or the acceptance is about to be handled; after a failure none has.
PhaseInv ==
  /\ Submitting /\ exec.type = "PROPOSAL" /\ exec.st = "ask" => Unsent(tx.nonce)
  /\ Submitting /\ exec.type = "TRANSACTION" /\ exec.st = "pack" => Unsent(tx.nonce)
  /\ Submitting /\ exec.type = "TRANSACTION" /\ exec.st = "ask" => Amiss(tx.nonce) \/ Asking \/ Told
  /\ exec = NoExec /\ Failed(ret) => Amiss(tx.nonce) \/ Untold(tx.nonce)

OnceInv ==
  \A m, n \in node :
    m.answer = "accepted" /\ n.answer = "accepted" /\ m.nonce = n.nonce => Amiss(m.nonce) \/ m.by = n.by

OrderInv ==
  /\ chain \in Versions => node = {}
  /\ \A m \in node : m.nonce \in Nat /\ m.nonce <= tx.nonce
  /\ PhaseInv /\ OnceInv

\* A step that sends nothing.
LEMMA OrderStep ==
  ASSUME OrderInv, UNCHANGED <<chain, node>>, tx.nonce \in Nat, tx'.nonce \in Nat, tx.nonce <= tx'.nonce, PhaseInv'
  PROVE  OrderInv'
<1>1. \A m \in node' : m.nonce \in Nat /\ m.nonce <= tx'.nonce
  BY DEF OrderInv
<1>2. OnceInv'
  BY DEF OrderInv, OnceInv, Amiss
<1>. QED
  BY <1>1, <1>2 DEF OrderInv

\* A call that asks no node, or the start of one that does.
LEMMA OrderCall ==
  ASSUME OrderInv, UNCHANGED <<chain, node>>, tx.nonce \in Nat, tx'.nonce = tx.nonce,
         ~Failed(ret'), exec' = NoExec \/ (exec'.type = "PROPOSAL" /\ exec'.st = "pack")
  PROVE  OrderInv'
<1>1. PhaseInv'
  BY DEF PhaseInv, Submitting
<1>. QED
  BY <1>1, OrderStep

\* The loops over endorsers: while they run nothing is sent to an orderer.
LEMMA EndorserOutcome ==
  ASSUME NEW t \in TxRec, NEW e \in LoopRec, e.type = "PROPOSAL", NEW buf, NEW result,
         exec \in LoopRec, exec.type = "PROPOSAL",
         \/ Continue(e, buf, t) \/ ExecReturns(result, t) \/ NextGroup(e, buf, t) \/ NextEndorser(e, buf, t)
         \/ CountEndorser(e, t)
  PROVE  /\ tx'.nonce = t.nonce
         /\ \/ exec' = NoExec
            \/ exec'.type = "PROPOSAL" /\ exec'.st = "ask"
            \/ exec'.type = "TRANSACTION" /\ exec'.st = "pack"
<1>. DEFINE Good == /\ tx'.nonce = t.nonce
                    /\ \/ exec' = NoExec
                       \/ exec'.type = "PROPOSAL" /\ exec'.st = "ask"
                       \/ exec'.type = "TRANSACTION" /\ exec'.st = "pack"
<1>1. ASSUME NEW s \in TxRec, s.nonce = t.nonce, NEW code, Return(code, s) PROVE Good
  BY <1>1 DEF Return, TxRec
<1>2. ASSUME NEW code, ExecReturns(code, t) PROVE Good
  <2>1. CASE Return(code, t)
    BY <1>1, <2>1
  <2>2. CASE Return(code, Freed(t))
    BY <1>1, <2>2, FreedType
  <2>3. CASE exec' = Transaction /\ tx' = t
    BY <2>3, TransactionType
  <2>. QED
    BY <1>2, <2>1, <2>2, <2>3 DEF ExecReturns
<1>3. ASSUME NEW f \in LoopRec, f.type = "PROPOSAL", NEW b, Continue(f, b, t) PROVE Good
  <2>1. exec' = [f EXCEPT !.st = "ask"] /\ tx' = t
    BY <1>3 DEF Continue
  <2>2. exec'.type = "PROPOSAL" /\ exec'.st = "ask"
    BY <1>3, <2>1 DEF LoopRec
  <2>. QED
    BY <2>1, <2>2
<1>4. ASSUME NEW f \in LoopRec, f.type = "PROPOSAL", NEW b, NextGroup(f, b, t) PROVE Good
  <2>. DEFINE g == [f EXCEPT !.j = @ + 1, !.k = 1, !.valid = 0]
              h == [f EXCEPT !.i = @ + 1, !.j = 1, !.k = 1, !.valid = 0]
  <2>0. f.i + 1 \in Nat /\ f.j + 1 \in Nat /\ 1 \in Nat /\ 0 \in Nat
    BY <1>4 DEF LoopRec
  <2>1. g \in LoopRec /\ g.type = "PROPOSAL"
    <3>1. g = [f EXCEPT !.j = f.j + 1, !.k = 1, !.valid = 0]
      BY <1>4 DEF LoopRec
    <3>. HIDE DEF g
    <3>. QED
      BY <1>4, <2>0, <3>1 DEF LoopRec
  <2>2. h \in LoopRec /\ h.type = "PROPOSAL"
    <3>1. h = [f EXCEPT !.i = f.i + 1, !.j = 1, !.k = 1, !.valid = 0]
      BY <1>4 DEF LoopRec
    <3>. HIDE DEF h
    <3>. QED
      BY <1>4, <2>0, <3>1 DEF LoopRec
  <2>3. Continue(g, b, t) \/ Continue(h, b, t) \/ ExecReturns(f.result, t)
    BY <1>4 DEF NextGroup
  <2>. HIDE DEF g, h, Good
  <2>. QED
    BY <1>2, <1>3, <2>1, <2>2, <2>3
<1>5. ASSUME NEW f \in LoopRec, f.type = "PROPOSAL", NEW b, NextEndorser(f, b, t) PROVE Good
  <2>. DEFINE g == [f EXCEPT !.k = @ + 1]
  <2>1. g \in LoopRec /\ g.type = "PROPOSAL"
    BY <1>5 DEF LoopRec
  <2>2. Continue(g, b, t) \/ ExecReturns("ERROR", t) \/ NextGroup(f, b, t)
    BY <1>5 DEF NextEndorser
  <2>. HIDE DEF g, Good
  <2>. QED
    BY <1>2, <1>3, <1>4, <1>5, <2>1, <2>2
<1>6. ASSUME CountEndorser(e, t) PROVE Good
  <2>. DEFINE f == [e EXCEPT !.valid = @ + 1]
  <2>1. f \in LoopRec /\ f.type = "PROPOSAL"
    BY DEF LoopRec
  <2>2. NextEndorser(f, EmptyBuf, t) \/ ExecReturns("SUCCESS", t) \/ NextGroup(f, EmptyBuf, t)
    BY <1>6 DEF CountEndorser, Counted
  <2>. HIDE DEF f, Good
  <2>. QED
    BY <1>2, <1>4, <1>5, <2>1, <2>2
<1>7. Good
  <2>. HIDE DEF Good
  <2>. QED
    BY <1>2, <1>3, <1>4, <1>5, <1>6
<1>. QED
  BY <1>7 DEF Good

LEMMA EndorserStep ==
  ASSUME Inv, OrderInv, chain \notin Versions, UNCHANGED <<chain, node>>, exec # NoExec, exec.type = "PROPOSAL",
         exec.st = "ask", NEW t \in TxRec, t.nonce = tx.nonce, NEW e \in LoopRec, e.type = "PROPOSAL", NEW buf, NEW result,
         \/ ExecReturns(result, t) \/ NextEndorser(e, buf, t) \/ CountEndorser(e, t)
  PROVE  OrderInv'
<1>1. exec \in LoopRec /\ tx.nonce \in Nat
  BY DEF Inv, TypeInv, TxRec
<1>2. /\ tx'.nonce = tx.nonce
      /\ \/ exec' = NoExec
         \/ exec'.type = "PROPOSAL" /\ exec'.st = "ask"
         \/ exec'.type = "TRANSACTION" /\ exec'.st = "pack"
  BY <1>1, EndorserOutcome
<1>3. Unsent(tx.nonce)
  BY DEF OrderInv, PhaseInv, Submitting
<1>4. Unsent(tx.nonce)' /\ Untold(tx.nonce)'
  BY <1>2, <1>3 DEF Unsent, Untold
<1>5. PhaseInv'
  BY <1>2, <1>4 DEF PhaseInv, Submitting
<1>. QED
  BY <1>1, <1>2, <1>5, OrderStep

\* On to the next orderer while none has accepted, or out with result.
LEMMA OrdererStep ==
  ASSUME Inv, OrderInv, chain \notin Versions, UNCHANGED <<chain, node>>, exec # NoExec, exec.type = "TRANSACTION",
         NEW result, NEW buf, Amiss(tx.nonce) \/ (Untold(tx.nonce) /\ buf = EmptyBuf), NextOrderer(With(result), buf)
  PROVE  OrderInv'
<1>1. exec \in LoopRec /\ tx.nonce \in Nat /\ tx \in TxRec /\ http2 \in Http2Rec
  BY DEF Inv, TypeInv, TxRec
<1>2. ASSUME tx'.nonce = tx.nonce
      PROVE  (Amiss(tx.nonce) => Amiss(tx.nonce)') /\ (Untold(tx.nonce) => Untold(tx.nonce)')
  BY <1>2 DEF Amiss, Untold
<1>4. CASE \E e : e = [exec EXCEPT !.result = result, !.k = @ + 1, !.st = "ask"] /\ exec' = e /\ tx' = tx
                  /\ http2' = [http2 EXCEPT !.buf = buf]
  <2>1. exec'.type = "TRANSACTION" /\ exec'.st = "ask" /\ exec' # NoExec
    <3>1. exec'.type = "TRANSACTION" /\ exec'.st = "ask" /\ exec'.fun = exec.fun
      BY <1>1, <1>4 DEF LoopRec
    <3>2. exec.fun # "none"
      BY <1>1 DEF LoopRec
    <3>. QED
      BY <3>1, <3>2 DEF NoExec
  <2>2. Amiss(tx.nonce)' \/ Asking'
    <3>1. http2'.buf = buf
      BY <1>1, <1>4 DEF Http2Rec
    <3>. QED
      BY <1>2, <1>4, <3>1 DEF Asking
  <2>3. PhaseInv'
    BY <2>1, <2>2 DEF PhaseInv
  <2>. QED
    BY <1>1, <1>4, <2>3, OrderStep
<1>5. ASSUME ExecReturns(result, tx) PROVE OrderInv'
  <2>1. exec' = NoExec /\ tx'.nonce = tx.nonce
    <3>1. ASSUME NEW s \in TxRec, s.nonce = tx.nonce, Return(result, s) PROVE exec' = NoExec /\ tx'.nonce = tx.nonce
      BY <3>1 DEF Return, TxRec
    <3>2. Return(result, tx) \/ Return(result, Freed(tx))
      BY <1>5 DEF ExecReturns
    <3>. QED
      BY <1>1, <3>1, <3>2, FreedType
  <2>2. Amiss(tx.nonce)' \/ Untold(tx.nonce)'
    BY <1>2, <2>1
  <2>3. PhaseInv'
    BY <2>1, <2>2 DEF PhaseInv, Submitting, NoExec
  <2>. QED
    BY <1>1, <2>1, <2>3, OrderStep
<1>6. CASE ~(exec.k < cfg.orderers)
  <2>1. With(result).k = exec.k /\ With(result).result = result
    BY <1>1 DEF With, LoopRec
  <2>. QED
    BY <1>5, <1>6, <2>1 DEF NextOrderer
<1>7. CASE exec.k < cfg.orderers
  <2>1. With(result).k = exec.k
    BY <1>1 DEF With, LoopRec
  <2>2. /\ exec' = [[With(result) EXCEPT !.k = @ + 1] EXCEPT !.st = "ask"]
        /\ tx' = tx /\ http2' = [http2 EXCEPT !.buf = buf]
    BY <1>7, <2>1 DEF NextOrderer, Continue
  <2>3. [[With(result) EXCEPT !.k = @ + 1] EXCEPT !.st = "ask"] = [exec EXCEPT !.result = result, !.k = @ + 1, !.st = "ask"]
    BY <1>1 DEF With, LoopRec
  <2>. QED
    BY <1>4, <2>2, <2>3
<1>. QED
  BY <1>6, <1>7

\* A Submit that reports success, or dies, tells no untruth.
LEMMA SuccessStep ==
  ASSUME Inv, OrderInv, UNCHANGED <<chain, node>>, exec.type = "TRANSACTION", NEW t \in TxRec, t.nonce = tx.nonce,
         ExecReturns("SUCCESS", t)
  PROVE  OrderInv'
<1>1. tx.nonce \in Nat
  BY DEF Inv, TypeInv, TxRec
<1>2. Return("SUCCESS", Freed(t))
  BY DEF ExecReturns
<1>3. exec' = NoExec /\ ret'.code = "SUCCESS" /\ tx'.nonce = tx.nonce
  BY <1>2, FreedType DEF Return, TxRec
<1>4. PhaseInv'
  BY <1>3 DEF PhaseInv, Submitting, Failed
<1>. QED
  BY <1>1, <1>3, <1>4, OrderStep

\* TxExec goes on after an endorser.
LEMMA EndorserOrder ==
  ASSUME Inv, OrderInv, Fabric(Hlfabric_NoAnswer) \/ Fabric(Hlfabric_Endorser) \/ Fabric(Hwbcs_Endorser)
  PROVE  OrderInv'
<1>1. /\ chain \notin Versions /\ UNCHANGED <<chain, node>> /\ exec # NoExec /\ exec.type = "PROPOSAL"
      /\ exec.st = "ask" /\ rpc.st = "done"
  BY DEF Fabric, Hlfabric_NoAnswer, Hlfabric_Endorser, Hwbcs_Endorser, After, Handled, Versions
<1>2. exec \in LoopRec /\ tx \in TxRec /\ Current(tx) /\ rpc.result \in Codes
  BY <1>1, RpcResult DEF Inv, TypeInv, LoopInv
<1>. DEFINE s == Store(tx, "PROPOSAL")
            u == [s EXCEPT !.evaluateRes = tx.nonce]
<1>3. s \in TxRec /\ s.nonce = tx.nonce
  BY <1>2, StoreFacts
<1>4. u \in TxRec /\ u.nonce = tx.nonce
  BY <1>2, <1>3 DEF TxRec
<1>5. \E t \in {tx, s, u}, code \in Codes : \E buf, result :
        \/ ExecReturns(result, t) \/ NextEndorser(With(code), buf, t) \/ CountEndorser(With(code), t)
  <2>1. "SUCCESS" \in Codes /\ "ERROR" \in Codes
    BY DEF Codes
  <2>2. CASE Fabric(Hlfabric_NoAnswer)
    BY <1>2, <2>1, <2>2 DEF Fabric, Hlfabric_NoAnswer
  <2>3. CASE Fabric(Hlfabric_Endorser)
    <3>1. \/ NextEndorser(With("SUCCESS"), EmptyBuf, tx) \/ CountEndorser(With("SUCCESS"), s)
          \/ NextEndorser(With("SUCCESS"), EmptyBuf, s) \/ ExecReturns("SUCCESS", s)
          \/ ExecReturns("SUCCESS", u) \/ ExecReturns("OUT_OF_MEMORY", s)
      BY <2>3 DEF Fabric, Hlfabric_Endorser
    <3>. HIDE DEF s, u
    <3>. QED
      BY <2>1, <3>1
  <2>4. CASE Fabric(Hwbcs_Endorser)
    BY <1>2, <2>1, <2>4 DEF Fabric, Hwbcs_Endorser
  <2>. QED
    BY <2>2, <2>3, <2>4
<1>6. PICK t \in {tx, s, u}, code \in Codes : \E buf, result :
        \/ ExecReturns(result, t) \/ NextEndorser(With(code), buf, t) \/ CountEndorser(With(code), t)
  BY <1>5
<1>7. PICK buf, result :
        \/ ExecReturns(result, t) \/ NextEndorser(With(code), buf, t) \/ CountEndorser(With(code), t)
  BY <1>6
<1>. HIDE DEF s, u
<1>8. t \in TxRec /\ t.nonce = tx.nonce
  BY <1>2, <1>3, <1>4
<1>9. With(code) \in LoopRec /\ With(code).type = "PROPOSAL"
  BY <1>1, <1>2, WithFacts
<1>. QED
  BY <1>1, <1>7, <1>8, <1>9, EndorserStep

\* TxExec goes on after an orderer: what is not an acceptance is none, unless
\* something got lost.
LEMMA OrdererOrder ==
  ASSUME Inv, OrderInv, Fabric(Hlfabric_Orderer) \/ Fabric(Hwbcs_Orderer)
  PROVE  OrderInv'
<1>1. /\ chain \in FabricProtocols /\ chain \notin Versions /\ UNCHANGED <<chain, node>> /\ exec # NoExec
      /\ exec.type = "TRANSACTION" /\ exec.st = "ask" /\ rpc.st = "done"
  BY DEF Fabric, Hlfabric_Orderer, Hwbcs_Orderer, After, Handled, Versions, FabricProtocols
<1>2. exec \in LoopRec /\ tx \in TxRec /\ Current(tx)
  BY <1>1 DEF Inv, TypeInv, LoopInv
<1>3. Amiss(tx.nonce) \/ Asking \/ Told
  BY <1>1 DEF OrderInv, PhaseInv, Submitting
<1>4. ASSUME NEW result, NEW buf, NextOrderer(With(result), buf), Amiss(tx.nonce) \/ (Untold(tx.nonce) /\ buf = EmptyBuf)
      PROVE  OrderInv'
  BY <1>1, <1>4, OrdererStep
<1>5. EmptyBuf.len = "none" /\ EmptyBuf.may = {NoAnswer} /\ NoAnswer # "accepted" /\ NoAnswer # "rejected"
  BY NoAnswerAssumption DEF EmptyBuf, Answers
<1>6. CASE Fabric(Hlfabric_Orderer)
  <2>1. chain = "HLFABRIC"
    BY <1>6 DEF Fabric, Hlfabric_Orderer, After
  <2>2. CASE rpc.result # "SUCCESS" /\ NextOrderer(With(rpc.result), http2.buf)
    BY <1>3, <1>4, <2>2 DEF Asking, Told
  <2>3. CASE ~Long /\ NextOrderer(With("SUCCESS"), http2.buf)
    BY <1>3, <1>4, <2>1, <2>3 DEF Asking, Told, Long
  <2>4. CASE /\ rpc.result = "SUCCESS" /\ Long
             /\ \E a \in http2.buf.may :
                  IF a = "accepted" THEN ExecReturns("SUCCESS", Store(tx, "TRANSACTION"))
                  ELSE NextOrderer(With("SUCCESS"), [http2.buf EXCEPT !.freed = TRUE])
    <3>1. CASE ExecReturns("SUCCESS", Store(tx, "TRANSACTION"))
      <4>1. Store(tx, "TRANSACTION") \in TxRec /\ Store(tx, "TRANSACTION").nonce = tx.nonce
        BY <1>2, StoreFacts
      <4>. QED
        BY <1>1, <3>1, <4>1, SuccessStep
    <3>2. CASE /\ \E a \in http2.buf.may : a # "accepted"
               /\ NextOrderer(With("SUCCESS"), [http2.buf EXCEPT !.freed = TRUE])
      <4>1. Amiss(tx.nonce)
        BY <1>3, <1>5, <2>1, <2>4, <3>2 DEF Asking, Told, Long
      <4>. QED
        BY <1>4, <3>2, <4>1
    <3>. QED
      BY <2>4, <3>1, <3>2
  <2>. QED
    BY <1>6, <2>2, <2>3, <2>4 DEF Fabric, Hlfabric_Orderer
<1>7. CASE Fabric(Hwbcs_Orderer)
  <2>1. CASE rpc.result # "SUCCESS" /\ NextOrderer(With(rpc.result), http2.buf)
    BY <1>3, <1>4, <2>1 DEF Asking, Told
  <2>2. CASE ExecReturns("SUCCESS", tx)
    BY <1>1, <1>2, <2>2, SuccessStep
  <2>3. CASE "rejected" \in http2.buf.may /\ NextOrderer(With("ERROR"), EmptyBuf)
    BY <1>3, <1>4, <2>3 DEF Asking, Told
  <2>. QED
    BY <1>7, <2>1, <2>2, <2>3 DEF Fabric, Hwbcs_Orderer
<1>. QED
  BY <1>6, <1>7

\* A proposal gets a number no orderer has seen, and a transaction has that of
\* its proposal, when they are packed.
LEMMA PackOrder ==
  ASSUME Inv, OrderInv, Fabric(hlfabricProposalTransactionPacked) \/ Fabric(hwbcsProposalTransactionPacked)
  PROVE  OrderInv'
<1>1. /\ chain \notin Versions /\ exec # NoExec /\ exec.st = "pack" /\ UNCHANGED <<chain, node>>
      /\ \/ UNCHANGED <<tx, exec, ret, http2, rpc>>
         \/ Continue(exec, EmptyBuf, Header(tx))
         \/ ExecReturns("PROTO_PACKET_FAIL", Header(tx))
  BY DEF Fabric, hlfabricProposalTransactionPacked, hwbcsProposalTransactionPacked, Pack, Versions, Crash
<1>2. exec \in LoopRec /\ tx \in TxRec /\ http2 \in Http2Rec /\ tx.nonce \in Nat /\ Header(tx) \in TxRec
  BY <1>1, HeaderFacts DEF Inv, TypeInv, TxRec
<1>3. CASE UNCHANGED <<tx, exec, ret, http2, rpc>>
  <2>1. PhaseInv'
    BY <1>1, <1>3 DEF OrderInv, PhaseInv, Submitting, Amiss, Asking, Told, Unsent, Untold
  <2>. QED
    BY <1>1, <1>2, <1>3, <2>1, OrderStep
<1>4. Header(tx).nonce \in Nat /\ tx.nonce <= Header(tx).nonce /\ Unsent(Header(tx).nonce)
  <2>1. CASE exec.type = "PROPOSAL"
    <3>1. Header(tx).nonce = tx.nonce + 1
      BY <1>2, <2>1 DEF Header, TxRec
    <3>2. \A m \in node : m.nonce \in Nat /\ m.nonce <= tx.nonce
      BY DEF OrderInv
    <3>. QED
      BY <1>2, <3>1, <3>2 DEF Unsent
  <2>2. CASE exec.type = "TRANSACTION"
    <3>1. Header(tx).nonce = tx.nonce
      BY <1>2, <2>2 DEF Header, TxRec
    <3>. QED
      BY <1>1, <1>2, <2>2, <3>1 DEF OrderInv, PhaseInv, Submitting
  <2>. QED
    BY <1>2, <2>1, <2>2 DEF LoopRec
<1>. DEFINE t == Header(tx)
<1>5. CASE Continue(exec, EmptyBuf, t)
  <2>1. tx' = t /\ exec' = [exec EXCEPT !.st = "ask"] /\ http2' = [http2 EXCEPT !.buf = EmptyBuf]
    BY <1>5 DEF Continue
  <2>. HIDE DEF t
  <2>2. Unsent(tx.nonce)' /\ Untold(tx.nonce)'
    BY <1>1, <1>4, <2>1 DEF Unsent, Untold, t
  <2>3. exec'.st = "ask" /\ http2'.buf = EmptyBuf /\ exec' # NoExec
    <3>1. exec'.st = "ask" /\ exec'.fun = exec.fun /\ exec.fun # "none"
      BY <1>2, <2>1 DEF LoopRec
    <3>2. http2'.buf = EmptyBuf
      BY <1>2, <2>1 DEF Http2Rec
    <3>. QED
      BY <3>1, <3>2 DEF NoExec
  <2>4. PhaseInv'
    BY <2>2, <2>3 DEF PhaseInv, Asking
  <2>. QED
    BY <1>1, <1>2, <1>4, <2>1, <2>4, OrderStep DEF t
<1>6. CASE ExecReturns("PROTO_PACKET_FAIL", t)
  <2>. HIDE DEF t
  <2>1. exec' = NoExec /\ tx'.nonce = t.nonce
    <3>1. ASSUME NEW s \in TxRec, s.nonce = t.nonce, Return("PROTO_PACKET_FAIL", s)
          PROVE  exec' = NoExec /\ tx'.nonce = t.nonce
      BY <3>1 DEF Return, TxRec
    <3>2. Return("PROTO_PACKET_FAIL", t) \/ Return("PROTO_PACKET_FAIL", Freed(t))
      BY <1>6 DEF ExecReturns
    <3>. QED
      BY <1>2, <3>1, <3>2, FreedType DEF t
  <2>2. Untold(tx.nonce)'
    BY <1>1, <1>4, <2>1 DEF Unsent, Untold, t
  <2>3. PhaseInv'
    BY <2>1, <2>2 DEF PhaseInv, Submitting
  <2>. QED
    BY <1>1, <1>2, <1>4, <2>1, <2>3, OrderStep DEF t
<1>. QED
  BY <1>1, <1>3, <1>5, <1>6

\* A request that ends: an orderer that accepts is the first one, and its answer
\* is in the buffer alone, unless something got lost.
LEMMA RequestOrder ==
  ASSUME Inv, OrderInv, NEW a \in Answers, NEW piece \in Pieces, NEW result, Request(piece, a, result),
         \/ NodeGets(a, piece)
         \/ piece = "none" /\ UNCHANGED node,
         piece = "whole" => result = "SUCCESS"
  PROVE  OrderInv'
<1>1. /\ chain \in FabricProtocols /\ chain \notin Versions /\ rpc.st = "sent" /\ UNCHANGED <<chain, tx, exec, ret>>
      /\ a \in NodeAnswers /\ http2' \in Received(http2, piece, a) /\ rpc' = [st |-> "done", result |-> result]
  BY DEF Request, Ends, FabricProtocols, Versions
<1>2. exec # NoExec /\ exec.st = "ask" /\ exec \in LoopRec /\ http2 \in Http2Rec /\ tx.nonce \in Nat
  BY <1>1 DEF Inv, RpcInv, TypeInv, NoRpc, TxRec
<1>3. CASE exec.type = "PROPOSAL"
  <2>1. UNCHANGED node
    BY <1>3 DEF NodeGets
  <2>2. PhaseInv'
    BY <1>1, <1>2, <1>3, <2>1 DEF OrderInv, PhaseInv, Submitting, Unsent
  <2>. QED
    BY <1>1, <1>2, <2>1, <2>2, OrderStep
<1>4. CASE exec.type = "TRANSACTION"
  <2>1. Amiss(tx.nonce) \/ (Untold(tx.nonce) /\ http2.buf = EmptyBuf)
    BY <1>1, <1>2, <1>4 DEF OrderInv, PhaseInv, Submitting, Asking, Told
  <2>2. CASE piece = "none" /\ UNCHANGED node
    <3>1. http2'.buf = http2.buf
      BY <1>1, <1>2, <2>2 DEF Received, on_data_chunk_recv_callback, Http2Rec
    <3>2. (Amiss(tx.nonce) => Amiss(tx.nonce)') /\ (Untold(tx.nonce) => Untold(tx.nonce)')
      BY <1>1, <2>2 DEF Amiss, Untold
    <3>3. PhaseInv'
      BY <1>1, <1>2, <1>4, <2>1, <3>1, <3>2 DEF PhaseInv, Submitting, Asking
    <3>. QED
      BY <1>1, <1>2, <2>2, <3>3, OrderStep
  <2>3. CASE NodeGets(a, piece)
    <3>. DEFINE m == [nonce |-> tx.nonce, response |-> tx.response, left |-> tx.left,
                      by |-> exec.k, answer |-> a, whole |-> piece = "whole"]
    <3>1. node' = node \cup {m}
      BY <1>4, <2>3 DEF NodeGets
    <3>2. m.nonce = tx.nonce /\ m.answer = a /\ m.whole = (piece = "whole")
      OBVIOUS
    <3>. HIDE DEF m
    <3>3. \A x \in node' : x.nonce \in Nat /\ x.nonce <= tx'.nonce
      BY <1>1, <1>2, <3>1, <3>2 DEF OrderInv
    <3>4. ASSUME NEW nonce, Amiss(nonce) PROVE Amiss(nonce)'
      BY <1>1, <3>1, <3>4 DEF Amiss
    <3>5. OnceInv'
      <4>1. SUFFICES ASSUME NEW x \in node', NEW y \in node', x.answer = "accepted", y.answer = "accepted",
                            x.nonce = y.nonce, ~Amiss(x.nonce)'
                     PROVE  x.by = y.by
        BY DEF OnceInv
      <4>2. ~Amiss(x.nonce)
        BY <3>4, <4>1
      <4>3. CASE x \in node /\ y \in node
        BY <4>1, <4>2, <4>3 DEF OrderInv, OnceInv
      <4>4. CASE x = m /\ y = m
        BY <4>4
      <4>5. CASE (x = m /\ y \in node) \/ (x \in node /\ y = m)
        BY <2>1, <3>2, <4>1, <4>2, <4>5 DEF Untold
      <4>. QED
        BY <3>1, <4>3, <4>4, <4>5
    <3>6. CASE piece # "whole" \/ (chain = "HLFABRIC" /\ a = "rejected")
      <4>1. Amiss(tx.nonce)'
        BY <1>1, <3>1, <3>2, <3>6 DEF Amiss
      <4>2. PhaseInv'
        BY <1>1, <1>2, <1>4, <4>1 DEF PhaseInv, Submitting
      <4>. QED
        BY <1>1, <3>3, <3>5, <4>2 DEF OrderInv
    <3>7. CASE piece = "whole" /\ ~(chain = "HLFABRIC" /\ a = "rejected")
      <4>1. a \in {"accepted", "rejected"} /\ rpc'.st = "done" /\ rpc'.result = "SUCCESS"
        BY <1>1, <1>4, <3>7 DEF NodeAnswers
      <4>2. Amiss(tx.nonce) => Amiss(tx.nonce)'
        BY <1>1, <3>1 DEF Amiss
      <4>3. http2.buf = EmptyBuf => http2'.buf.may = {a} /\ http2'.buf.len = "long"
        <5>1. SUFFICES ASSUME http2.buf = EmptyBuf PROVE http2'.buf.may = {a} /\ http2'.buf.len = "long"
          OBVIOUS
        <5>2. PICK b \in on_data_chunk_recv_callback(http2.buf, piece, a) :
                     http2' = [on_stream_close_callback(http2) EXCEPT !.buf = b]
          BY <1>1, <3>7 DEF Received
        <5>3. b.may = {a} /\ b.len = "long"
          BY <3>7, <5>1, <5>2 DEF on_data_chunk_recv_callback, EmptyBuf
        <5>4. http2'.buf = b
          BY <1>2, <5>2 DEF on_stream_close_callback, Http2Rec
        <5>. QED
          BY <5>3, <5>4
      <4>4. CASE a = "accepted"
        <5>1. Amiss(tx.nonce)' \/ Told'
          BY <2>1, <4>1, <4>2, <4>3, <4>4 DEF Told
        <5>2. PhaseInv'
          BY <1>1, <1>2, <1>4, <5>1 DEF PhaseInv, Submitting
        <5>. QED
          BY <1>1, <3>3, <3>5, <5>2 DEF OrderInv
      <4>5. CASE a = "rejected"
        <5>1. Untold(tx.nonce) => Untold(tx.nonce)'
          BY <1>1, <3>1, <3>2, <4>5 DEF Untold
        <5>2. chain' = "HWBCS"
          BY <1>1, <3>7, <4>5 DEF FabricProtocols
        <5>3. Amiss(tx.nonce)' \/ Asking'
          BY <2>1, <4>1, <4>2, <4>3, <4>5, <5>1, <5>2 DEF Asking
        <5>4. PhaseInv'
          BY <1>1, <1>2, <1>4, <5>3 DEF PhaseInv, Submitting
        <5>. QED
          BY <1>1, <3>3, <3>5, <5>4 DEF OrderInv
      <4>. QED
        BY <4>1, <4>4, <4>5
    <3>. QED
      BY <3>6, <3>7
  <2>. QED
    BY <2>2, <2>3
<1>. QED
  BY <1>2, <1>3, <1>4 DEF LoopRec

LEMMA RequestsOrder ==
  ASSUME Inv, OrderInv, Fabric(Request_Answered) \/ Fabric(Request_TimedOut) \/ Fabric(Request_Broken)
  PROVE  OrderInv'
<1>1. CASE Fabric(Request_Answered)
  <2>1. PICK a \in Answers : Request("whole", a, "SUCCESS") /\ NodeGets(a, "whole")
    BY <1>1 DEF Fabric, Request_Answered
  <2>. QED
    BY <2>1, RequestOrder DEF Pieces
<1>2. CASE Fabric(Request_TimedOut)
  <2>1. PICK a \in Answers, piece \in Pieces \ {"whole"} :
          Request(piece, a, "SUCCESS") /\ (NodeGets(a, piece) \/ (piece = "none" /\ UNCHANGED node))
    BY <1>2 DEF Fabric, Request_TimedOut
  <2>. QED
    BY <2>1, RequestOrder
<1>3. CASE Fabric(Request_Broken)
  <2>1. PICK a \in Answers, piece \in Pieces \ {"whole"} :
          Request(piece, a, "HTTP2_INTERNAL") /\ NodeGets(a, piece)
    BY <1>3 DEF Fabric, Request_Broken
  <2>. QED
    BY <2>1, RequestOrder
<1>. QED
  BY <1>1, <1>2, <1>3

\* A request that is sent, or not, asks with the buffer as it is.
LEMMA SubmitOrder == ASSUME Inv, OrderInv, Fabric(http2SubmitRequest) PROVE OrderInv'
<1>1. /\ rpc = NoRpc /\ rpc.st # "done" /\ UNCHANGED <<chain, node, tx, exec, ret>>
      /\ http2' = http2 \/ http2' = Connected(http2)
  BY DEF Fabric, http2SubmitRequest, NoRpc
<1>2. http2'.buf = http2.buf /\ tx.nonce \in Nat
  BY <1>1, ConnectedFacts DEF Inv, TypeInv, TxRec
<1>3. PhaseInv'
  BY <1>1, <1>2 DEF OrderInv, PhaseInv, Submitting, Amiss, Asking, Told, Unsent, Untold
<1>. QED
  BY <1>1, <1>2, <1>3, OrderStep

\* What changes nothing of a Submit.
LEMMA SameOrder ==
  ASSUME OrderInv, TypeInv, UNCHANGED <<chain, node, tx, exec, ret, http2, rpc>>
  PROVE  OrderInv'
<1>1. PhaseInv'
  BY DEF OrderInv, PhaseInv, Submitting, Amiss, Asking, Told, Unsent, Untold
<1>. QED
  BY <1>1, OrderStep DEF TypeInv, TxRec

\* ChainMaker has no orderers.
LEMMA CmOrder ==
  ASSUME OrderInv, TypeInv, chain \in Versions, UNCHANGED <<chain, node, tx>>
  PROVE  OrderInv'
<1>1. node = {} /\ node' = {} /\ chain' \in Versions
  BY DEF OrderInv
<1>. QED
  BY <1>1 DEF OrderInv, PhaseInv, OnceInv, Submitting, Untold

LEMMA ApplicationOrder == ASSUME Inv, OrderInv, Application PROVE OrderInv'
<1>1. tx \in TxRec /\ TypeInv /\ tx.nonce \in Nat
  BY DEF Inv, TypeInv, TxRec
<1>2. ASSUME NEW c, Configured(c), tx'.nonce = tx.nonce PROVE OrderInv'
  <2>1. exec' = NoExec /\ ret' = NoRet /\ UNCHANGED <<chain, node>>
    BY <1>2 DEF Configured, Called, Idle
  <2>2. ~Failed(ret')
    BY <2>1 DEF Failed, NoRet
  <2>. QED
    BY <1>1, <1>2, <2>1, <2>2, OrderCall
<1>3. ASSUME NEW t \in {tx, [NoTx EXCEPT !.nonce = tx.nonce], [NoTx EXCEPT !.init = TRUE, !.nonce = tx.nonce],
                        [tx EXCEPT !.args = TRUE]}, tx' = t
      PROVE  tx'.nonce = tx.nonce
  BY <1>1, <1>3 DEF NoTx, TxRec
<1>4. CASE \E c : Fabric(WalletInit(c)) \/ Fabric(WalletDeInit(c)) \/ Fabric(TxInit(c)) \/ Fabric(TxDeInit(c))
                  \/ Fabric(TxSetArgs(c))
  BY <1>2, <1>3, <1>4 DEF Fabric, WalletInit, WalletDeInit, TxInit, TxDeInit, TxSetArgs
<1>5. CASE \E c, fun : Fabric(TxStart(c, fun))
  <2>1. PICK c, fun : TxStart(c, fun)
    BY <1>5 DEF Fabric
  <2>2. UNCHANGED <<chain, node, tx>>
    BY <2>1 DEF TxStart
  <2>3. CASE exec' = Proposal(fun) /\ ret' = NoRet
    <3>1. ~Failed(ret') /\ exec'.type = "PROPOSAL" /\ exec'.st = "pack"
      BY <2>3 DEF Failed, NoRet, Proposal
    <3>. QED
      BY <1>1, <2>2, <3>1, OrderCall
  <2>4. CASE exec' = NoExec /\ ret' = [op |-> fun, code |-> "INVALID_ARGUMENT"]
    <3>1. ~Failed(ret')
      BY <2>4 DEF Failed
    <3>. QED
      BY <1>1, <2>2, <2>4, <3>1, OrderCall
  <2>. QED
    BY <2>1, <2>3, <2>4 DEF TxStart
<1>6. CASE \/ BoatChainmakerWalletInit \/ BoatChainmakerWalletDeInit \/ BoatChainmakerTxInit
           \/ BoatChainmakerAddTxParam
  BY <1>2, <1>3, <1>6 DEF BoatChainmakerWalletInit, BoatChainmakerWalletDeInit, BoatChainmakerTxInit,
    BoatChainmakerAddTxParam, WalletInit, WalletDeInit
<1>7. CASE BoatChainmakerContractInvoke \/ BoatChainmakerContractQuery
  <2>1. chain \in Versions /\ UNCHANGED <<chain, node, tx>>
    BY <1>7 DEF BoatChainmakerContractInvoke, BoatChainmakerContractQuery, Start, Called
  <2>. QED
    BY <1>1, <2>1, CmOrder
<1>8. CASE Fabric(TxInit_FreesOther) \/ Fabric(http2DeInit_FreedTwice)
  BY <1>1, <1>8, SameOrder DEF Fabric, TxInit_FreesOther, http2DeInit_FreedTwice, Crash
<1>. QED
  BY <1>4, <1>5, <1>6, <1>7, <1>8
  DEF Application, BoatHlfabricWalletInit, BoatHlfabricWalletDeInit, BoatHwbcsWalletInit,
      BoatHwbcsWalletDeInit, BoatHlfabricTxInit, BoatHlfabricTxDeInit, BoatHwbcsTxInit, BoatHwbcsTxDeInit,
      BoatHlfabricTxSetArgs, BoatHwbcsTxSetArgs, BoatHlfabricTxEvaluate, BoatHlfabricTxSubmit,
      BoatHwbcsTxEvaluate, BoatHwbcsTxSubmit

LEMMA NextOrder == Inv /\ OrderInv /\ [Next]_vars => OrderInv'
<1>. SUFFICES ASSUME Inv, OrderInv, [Next]_vars PROVE OrderInv'
  OBVIOUS
<1>0. TypeInv
  BY DEF Inv
<1>1. CASE UNCHANGED vars
  BY <1>0, <1>1, SameOrder DEF vars, fabric
<1>2. CASE \/ Fabric(Hlfabric_FreedTwice) \/ Fabric(Hwbcs_EndorserCrash) \/ Fabric(Hwbcs_OrdererCrash)
           \/ Fabric(Request_IntoFreed)
  BY <1>0, <1>2, SameOrder DEF Fabric, Hlfabric_FreedTwice, Hwbcs_EndorserCrash, Hwbcs_OrdererCrash,
    Request_IntoFreed, Crash
<1>3. CASE \/ chainmaker_v1_TransactionPacked \/ chainmaker_v2_TransactionPacked
           \/ Chainmaker_Invoke \/ Chainmaker_Sync \/ Chainmaker_Query
           \/ Chainmaker_FreedTwice \/ Chainmaker_QueryCrash \/ CmRequest_Crash
           \/ CmRequest_Answered \/ CmRequest_TimedOut \/ CmRequest_Broken
  <2>1. chain \in Versions /\ UNCHANGED <<chain, node, tx>>
    BY <1>3 DEF chainmaker_v1_TransactionPacked, chainmaker_v2_TransactionPacked, TransactionPacked,
      Chainmaker_Invoke, Chainmaker_Sync, Chainmaker_Query, CmHandle, CmAfter, Chainmaker_FreedTwice,
      Chainmaker_QueryCrash, CmRequest_Crash, CmRequest_Answered, CmRequest_TimedOut, CmRequest_Broken, CmRequest,
      Crash, Versions
  <2>. QED
    BY <1>0, <2>1, CmOrder
<1>4. CASE Node_Execute
  BY <1>0, <1>4, SameOrder DEF Node_Execute, fabric
<1>5. CASE Application
  BY <1>5, ApplicationOrder
<1>6. CASE Client
  BY <1>2, <1>3, <1>6, PackOrder, SubmitOrder, EndorserOrder, OrdererOrder DEF Client
<1>7. CASE Network
  BY <1>2, <1>3, <1>7, RequestsOrder DEF Network
<1>. QED
  BY <1>1, <1>4, <1>5, <1>6, <1>7 DEF Next

LEMMA InitOrder == Init => OrderInv
BY DEF Init, OrderInv, PhaseInv, OnceInv, Submitting, Failed, NoRet, Untold
----------------------------------------------------------------------------
(* The theorems.                                                           *)

\* Wallet, transaction, loops and rounds keep their types; in particular the
\* loops of BoatHlfabricTxExec and BoatHwbcsTxExec never ask a node that is not in
\* the configuration, and a synchronous ChainMaker invocation counts no more
\* rounds than BOAT_RETRY_CNT.
THEOREM ChainmakerTypeOK == Spec => []TypeOK
<1>1. Inv => TypeOK
  <2>. SUFFICES ASSUME Inv PROVE TypeOK
    OBVIOUS
  <2>1. /\ http2.ctx \in {"none", "ok", "freed", "null"} /\ http2.open \in Nat
        /\ http2.buf.len \in {"none", "short", "long"}
    BY DEF Inv, TypeInv, Http2Rec, BufRec
  <2>2. tx.nonce \in Nat /\ tx.evaluateRes \in Nat \cup {Overrun}
    BY DEF Inv, TypeInv, TxRec
  <2>3. cm.params \in {"none", "app", "part", "txId"}
    BY DEF Inv, TypeInv, CmRec
  <2>4. CASE exec = NoExec
    BY <2>1, <2>2, <2>3, <2>4 DEF TypeOK, NoExec
  <2>5. CASE exec # NoExec /\ chain \in Versions
    <3>1. exec \in RoundRec
      BY <2>5 DEF Inv, TypeInv
    <3>2. exec.fun \in {"INVOKE", "QUERY"} /\ exec.i < BOAT_RETRY_CNT
      BY <3>1, RetryAssumption DEF RoundRec
    <3>. QED
      BY <2>1, <2>2, <2>3, <3>2 DEF TypeOK
  <2>6. CASE exec # NoExec /\ chain \notin Versions
    <3>1. LoopOK(cfg, exec, tx) /\ exec \in LoopRec /\ cfg \in NodeCfgs
      BY <2>6 DEF Inv, TypeInv, LoopInv
    <3>2. exec.fun \in {"EVALUATE", "SUBMIT"} /\ exec.k \in Nat /\ exec.valid \in Nat
      BY <3>1 DEF LoopRec
    <3>3. ASSUME exec.type = "PROPOSAL" PROVE exec.k <= GroupOf(exec).n /\ exec.valid <= GroupOf(exec).q
      <4>1. Position(cfg, exec)
        BY <3>1, <3>3 DEF LoopOK
      <4>2. GroupOf(exec).n \in Nat /\ GroupOf(exec).q \in Nat
        BY <3>1, <4>1, CfgFacts DEF Position, GroupOf
      <4>. QED
        BY <3>2, <4>1, <4>2 DEF Position, GroupOf
    <3>. QED
      BY <2>1, <2>2, <2>3, <3>2, <3>3 DEF TypeOK
  <2>. QED
    BY <2>4, <2>5, <2>6
<1>. QED
  BY <1>1, ChainmakerInv, PTL

\* An orderer is sent endorsements of the transaction's own proposal, for every
\* configuration and every sequence of calls and failures, unless a Submit
\* failed before (BoatHlfabricTxEvaluate, BoatHlfabricTxSubmit).
THEOREM FabricEndorsementsAreOfThisProposal == Spec => []EndorsementsAreOfThisProposal
<1>1. Inv => EndorsementsAreOfThisProposal
  BY DEF Inv, SentInv, Own, EndorsementsAreOfThisProposal, Clean
<1>. QED
  BY <1>1, ChainmakerInv, PTL

\* What goes to an orderer carries the endorsements every group of one layout
\* is asked for, however many layouts, groups and endorsers there are
\* (the loops of BoatHlfabricTxExec and BoatHwbcsTxExec).
THEOREM FabricEveryGroupEndorsed == Spec => []EveryGroupEndorsed
<1>1. Inv => EveryGroupEndorsed
  BY DEF Inv, SentInv, Complete, From, EveryGroupEndorsed, Clean
<1>. QED
  BY <1>1, ChainmakerInv, PTL

\* evaluateRes is that of the last proposal, or none, after every call
\* (evaluateRes in BoatHlfabricTxExec).
THEOREM FabricEvaluateResultIsCurrent == Spec => []EvaluateResultIsCurrent
<1>1. Inv => EvaluateResultIsCurrent
  BY DEF Inv, LoopInv, Current, EvaluateResultIsCurrent
<1>. QED
  BY <1>1, ChainmakerInv, PTL

\* A Submit of Huawei BCS succeeds only when an orderer has accepted the
\* transaction, whatever became of the requests before (BoatHwbcsTxExec).
THEOREM HwbcsSubmitMeansOrdered == Spec => []HwbcsSuccessMeansOrdered
<1>1. Inv => HwbcsSuccessMeansOrdered
  BY DEF Inv, RetInv, Ordered, Accepted, HwbcsSuccessMeansOrdered
<1>. QED
  BY <1>1, ChainmakerInv, PTL

\* As long as nothing fails, every socket a call opened is closed when it
\* returns (on_stream_close_callback, BoatClose).
THEOREM FabricSocketsClosed == Spec => []SocketsClosed
<1>1. Inv => SocketsClosed
  <2>1. SUFFICES ASSUME Inv, exec = NoExec, faults.seen = {} PROVE http2.open = 0
    BY DEF SocketsClosed, Idle
  <2>2. rpc.st = "idle"
    BY <2>1, IdleFacts DEF NoRpc
  <2>. QED
    BY <2>1, <2>2 DEF Inv, RpcInv, Sockets
<1>. QED
  BY <1>1, ChainmakerInv, PTL

\* A synchronous invocation of ChainMaker V2 that reports success, with a
\* response that does, was executed, for every number of rounds and every
\* failure on the way (BoatChainmakerContractInvoke).
THEOREM ChainmakerSyncInvokeMeansExecuted == Spec => []SyncInvokeMeansExecuted
<1>1. Inv => SyncInvokeMeansExecuted
  BY DEF Inv, RetInv, Executed, SyncInvokeMeansExecuted
<1>. QED
  BY <1>1, ChainmakerInv, PTL

\* The response array, whose end TxExec does not check, is overrun only when the
\* answers failed Submits left and those this call can collect are more than its
\* places, for every node configuration and every length of the array: a group's
\* loop stores no more answers than it needs endorsements, or has endorsers, and
\* no call but a failed Submit leaves one (response[responseCount] in
\* BoatHlfabricTxExec).
THEOREM FabricResponsesFit == Spec => ResponsesFit
<1>1. Inv /\ [Next]_vars => [tx'.evaluateRes = Overrun /\ tx.evaluateRes # Overrun =>
                                tx.left + Needs(cfg, exec.fun) > ENDORSER_MAX_NUM]_vars
  <2>1. SUFFICES ASSUME Inv, Next, ~TooMany, tx.evaluateRes # Overrun PROVE tx'.evaluateRes # Overrun
    BY DEF TooMany
  <2>. QED
    BY <2>1, HandlerFits, OthersFit DEF Next
<1>. QED
  BY <1>1, ChainmakerInv, PTL DEF Spec, ResponsesFit

\* What is ordered is ordered once and the application is told, for every
\* configuration and every sequence of failures after which no orderer's answer
\* is missing: connections that cannot be made, requests that cannot be sent,
\* and orderers that reject before one accepts do not lead to a second one or
\* to an error (the loops over orderers of BoatHlfabricTxExec and BoatHwbcsTxExec).
THEOREM FabricOrderedIsTold == Spec => []OrderedIsTold
<1>1. Inv /\ OrderInv => OrderedIsTold
  <2>1. SUFFICES ASSUME OrderInv, NEW m \in Accepted, ~Amiss(m.nonce)
                 PROVE  /\ \A n \in Accepted : n.nonce = m.nonce => n.by = m.by
                        /\ Idle /\ ret.op = "SUBMIT" /\ ret.code # "INVALID_ARGUMENT" /\ m.nonce = tx.nonce =>
                             ret.code = "SUCCESS"
    BY DEF OrderedIsTold
  <2>2. \A n \in Accepted : n.nonce = m.nonce => n.by = m.by
    BY <2>1 DEF OrderInv, OnceInv, Accepted
  <2>3. Idle /\ m.nonce = tx.nonce => ~Failed(ret)
    BY <2>1 DEF OrderInv, PhaseInv, Untold, Accepted, Idle
  <2>. QED
    BY <2>2, <2>3 DEF Failed
<1>2. Spec => []OrderInv
  BY InitOrder, NextOrder, ChainmakerInv, PTL DEF Spec
<1>. QED
  BY <1>1, <1>2, ChainmakerInv, PTL
=============================================================================
