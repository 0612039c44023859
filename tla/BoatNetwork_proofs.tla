------------------------- MODULE BoatNetwork_proofs -------------------------
(***************************************************************************)
(* The network store, for every number of networks, every set of protocols *)
(* it is built with, all data lengths and every number of faults: its      *)
(* types, the soundness of its tables, what its calls promise, and, with   *)
(* one failed write, that it implements IndexDirectory.                    *)
(*                                                                         *)
(* CtxOK says what the locals of a call are at each write, faults or not;  *)
(* GoodState how the tables differ from those of a finished call at each   *)
(* of its writes, as long as nothing was misread and no one-time network   *)
(* was too long; ViewInv what a reader finds, compared with before the     *)
(* call.  TLC checks all three on the instance of network_faults.          *)
(***************************************************************************)
EXTENDS NetworkRefinement, NvramTable_proofs, FiniteSetTheorems

Table == TableOf(BOAT_MAX_NETWORK_NUM, NetworkRec)

CtxSet == [api : {"none", "create", "delete"}, index : NetworkIndex \cup {NoIndex},
           rec : NetworkRec \cup {NoRec}, num : NetworkIndex, pos : NetworkIndex]
RetSet == [op : {"none", "create", "delete", "boot", "crash"},
           index : NoIndex..(BOAT_MAX_NETWORK_NUM + 1), ok : BOOLEAN]
FaultSet == [left : 0..MaxFaults, seen : SUBSET FaultKinds]
StoreLabels  == {"nwProtocol", "nwIndex", "nwData", "nwNum"}
RemoveLabels == {"nwTail", "nwLast", "nwRecover"}
Labels == {"idle", "nwDel"} \cup StoreLabels \cup RemoveLabels

\* What the locals of the running call are, faults or not.
CtxOK ==
  /\ pc = "idle" => ctx = NoCtx
  /\ pc # "idle" => /\ ctx.index \in NetworkIndex
                    /\ ctx.rec \in NetworkRec
                    /\ ctx.rec.index = ctx.index
                    /\ ctx.rec.protocol \in built
                    /\ ctx.rec.fields = ctx.rec.protocol
                    /\ ctx.api = IF pc \in StoreLabels THEN "create" ELSE "delete"
  /\ pc \in {"nwIndex", "nwData", "nwNum"} => ctx.num < BOAT_MAX_NETWORK_NUM
  /\ pc \in RemoveLabels => ctx.index # 0

TypeInv == TypeOK /\ CtxOK

----------------------------------------------------------------------------
(* The tables at each point of a call.                                     *)

\* The first n records of t are there, and no two carry the same index.
Sound(t, n) ==
  /\ \A q \in 1..n : t.slot[q] \in NetworkRec
  /\ \A q, r \in 1..n : t.slot[q].index = t.slot[r].index => q = r

\* The data of each of them was written by the protocol the record names.
Owned(t, n) == \A q \in 1..n : t.slot[q].fields = t.slot[q].protocol

\* No record counted in t carries index i.
Absent(t, i) == \A q \in 1..Count(t) : t.slot[q].index # i

\* While a network is deleted from t: the number is lowered, the records are
\* all there.
Removing(t, r, num, pos) ==
  /\ t.num = num - 1
  /\ Sound(t, num) /\ Owned(t, num)
  /\ pos \in 1..num
  /\ t.slot[pos].index = r.index /\ t.slot[pos].protocol = r.protocol

\* The one-time network is overwritten where it lies, piece by piece.
Patched(m) == m = "RAM" /\ ctx.index = 0 /\ pc \in {"nwIndex", "nwData"}

TabGood ==
  /\ \A m \in BoatStoreType : /\ Sound(nw[m], Count(nw[m]))
                              /\ Patched(m) \/ Owned(nw[m], Count(nw[m]))
  /\ Count(nw["RAM"]) <= 1

CallInv ==
  /\ pc \in StoreLabels /\ ctx.index # 0 => Absent(nw["FLASH"], ctx.index)
  /\ pc \in StoreLabels \ {"nwProtocol"} =>
       ctx.num = IF ctx.index = 0 THEN 0 ELSE Count(nw["FLASH"])
  /\ pc = "nwNum" => nw[Mem(ctx.index)].slot[ctx.num + 1] = ctx.rec
  /\ pc \in RemoveLabels => Removing(nw["FLASH"], ctx.rec, ctx.num, ctx.pos)
  /\ pc = "nwLast" => ctx.pos = ctx.num

\* The flash table a reader would find had the running delete not begun.
Uncut == IF pc \in RemoveLabels THEN WriteNum(nw["FLASH"], ctx.num) ELSE nw["FLASH"]

\* What protocol p reads at index i of table t.
FromNvram(p, r) ==
  IF p \in {"HLFABRIC", "HWBCS", "CHAINMAKER", "CITA"} THEN FromProto(r) ELSE FromLv(r)
Seen(t, p, i) ==
  LET S == FoundNetwork(t, Count(t), p, i)
  IN  IF S = {} THEN NoRec ELSE FromNvram(p, t.slot[FirstOf(S)])

ViewInv ==
  /\ pre = [i \in Persistent |-> [p \in built |-> Seen(Uncut, p, i)]]
  /\ pc \in {"nwLast", "nwRecover"} => faults.left < MaxFaults

GoodState == TabGood /\ CallInv /\ ViewInv

\* No header was misread, and all one-time networks fitted.
Calm(seen) == seen \subseteq {"write", "internal", "crash"}

SoundInv == Calm(faults.seen) => GoodState
----------------------------------------------------------------------------
(* Type correctness.                                                       *)

LEMMA Maximum == BOAT_MAX_NETWORK_NUM \in Nat /\ BOAT_MAX_NETWORK_NUM >= 1
BY MaxAssumption

\* The types a step starts from.
LEMMA Types ==
  ASSUME TypeInv
  PROVE  /\ built \in Builds /\ built \subseteq AllProtocols
         /\ nw \in [BoatStoreType -> Table]
         /\ pc \in Labels /\ ctx \in CtxSet /\ ret \in RetSet /\ faults \in FaultSet
         /\ CtxOK
         /\ nw["RAM"] \in Table /\ nw["FLASH"] \in Table
<1>1. TypeOK /\ CtxOK
  BY DEF TypeInv
<1>2. nw \in [BoatStoreType -> Table] /\ built \in Builds
  BY <1>1 DEF TypeOK, Table
<1>3. pc \in Labels /\ ctx \in CtxSet /\ ret \in RetSet /\ faults \in FaultSet
  BY <1>1 DEF TypeOK, Labels, StoreLabels, RemoveLabels, CtxSet, RetSet, FaultSet
<1>4. built \subseteq AllProtocols
  BY <1>2, ProtocolAssumption
<1>5. nw["RAM"] \in Table /\ nw["FLASH"] \in Table
  BY <1>2 DEF BoatStoreType
<1>. QED
  BY <1>1, <1>2, <1>3, <1>4, <1>5

\* And the types it must end with.
LEMMA TypeInvNext ==
  ASSUME TypeInv, built' = built, nw' \in [BoatStoreType -> Table],
         pc' \in Labels, ctx' \in CtxSet, ret' \in RetSet, faults' \in FaultSet, CtxOK'
  PROVE  TypeInv'
<1>1. built' \in Builds
  BY Types
<1>. QED
  BY <1>1 DEF TypeInv, TypeOK, Table, Labels, StoreLabels, RemoveLabels, CtxSet, RetSet, FaultSet

\* A fault uses up one of the faults that are left, and is remembered.
LEMMA FaultEffect ==
  ASSUME faults \in FaultSet, NEW kind, Fault(kind)
  PROVE  /\ faults' \in FaultSet /\ faults.seen \subseteq faults'.seen /\ kind \in faults'.seen
         /\ faults'.left = faults.left - 1
BY FaultAssumption DEF Fault, FaultSet

\* In all its forms.
LEMMA FaultForms ==
  ASSUME faults \in FaultSet, NEW m,
         UNCHANGED faults \/ \E kind \in AllFaultKinds : Fault(kind) \/ FlashFault(m, kind)
  PROVE  faults' \in FaultSet /\ faults.seen \subseteq faults'.seen
BY FaultEffect DEF FlashFault

LEMMA MemType ==
  ASSUME NEW i
  PROVE  Mem(i) \in BoatStoreType /\ (Mem(i) = "RAM" <=> i = 0) /\ (Mem(i) = "FLASH" <=> i # 0)
BY DEF Mem, BoatStoreType

LEMMA NoCtxType == NoCtx \in CtxSet
BY Maximum DEF NoCtx, CtxSet, NetworkIndex

\* A state with no call under way satisfies CtxOK.
LEMMA IdleCtxOK ==
  ASSUME pc' = "idle", ctx' = NoCtx
  PROVE  ctx' \in CtxSet /\ pc' \in Labels /\ CtxOK'
BY NoCtxType DEF CtxOK, Labels, StoreLabels, RemoveLabels

\* A call that returns leaves the store idle with no locals.
LEMMA ReturnType ==
  ASSUME TypeInv, pc # "idle", NEW ok \in BOOLEAN, Return(ok),
         nw' \in [BoatStoreType -> Table], faults' \in FaultSet
  PROVE  TypeInv'
<1>1. ctx.api \in {"none", "create", "delete"} /\ ctx.index \in NetworkIndex
  BY Types DEF CtxOK, CtxSet
<1>2. ctx.index \in NoIndex..(BOAT_MAX_NETWORK_NUM + 1)
  BY <1>1, Maximum DEF NetworkIndex, NoIndex
<1>3. ret' \in RetSet
  BY <1>1, <1>2 DEF Return, RetSet
<1>. QED
  BY <1>3, IdleCtxOK, TypeInvNext DEF Return

LEMMA FailType ==
  ASSUME TypeInv, pc # "idle", StoreFails, faults' \in FaultSet
  PROVE  TypeInv'
BY ReturnType, Types DEF StoreFails

\* The step goes on to another write of the same call.
LEMMA GotoType ==
  ASSUME TypeInv, NEW label \in Labels, Goto(label), ctx' \in CtxSet, CtxOK',
         nw' \in [BoatStoreType -> Table], faults' \in FaultSet
  PROVE  TypeInv'
BY Types, TypeInvNext DEF Goto

\* A call that is refused changes nothing but what it returns.
LEMMA RefuseType ==
  ASSUME TypeInv, NEW op \in {"create", "delete"},
         NEW i \in NoIndex..(BOAT_MAX_NETWORK_NUM + 1), Refuse(op, i), faults' \in FaultSet
  PROVE  TypeInv'
<1>1. ret' \in RetSet
  BY DEF Refuse, RetSet
<1>2. UNCHANGED <<built, nw, pc, ctx>>
  BY DEF Refuse
<1>3. CtxOK'
  BY <1>2, Types DEF CtxOK
<1>. QED
  BY <1>1, <1>2, <1>3, Types, TypeInvNext

LEMMA PutTable ==
  ASSUME NEW T \in [BoatStoreType -> Table], NEW m \in BoatStoreType, NEW t \in Table
  PROVE  [T EXCEPT ![m] = t] \in [BoatStoreType -> Table]
OBVIOUS

\* Whichever of the ten files makes it, the data of a record is its own.
LEMMA DataType ==
  ASSUME NEW p \in AllProtocols, NEW i \in NetworkIndex, NEW len \in DataLens
  PROVE  LET r == NetworkData(p, i, len)
         IN  r \in NetworkRec /\ r.index = i /\ r.protocol = p /\ r.fields = p
<1>1. \A k \in Nat : LvLen(k) \in Nat
  BY DEF LvLen, UtilityGetTLV_LL_from_len
<1>2. len \in Nat
  BY DataAssumption
<1>3. LvData(len) \in Nat
  BY <1>1, <1>2 DEF LvData
<1>4. ASSUME NEW d \in Nat
      PROVE  LET r == Record(p, i, d)
             IN  r \in NetworkRec /\ r.index = i /\ r.protocol = p /\ r.fields = p
  <2>1. 4 + 1 + LvLen(d) \in Nat
    BY <1>1
  <2>. QED
    BY <2>1 DEF Record, NetworkRec
<1>5. \E d \in {len, LvData(len)} : NetworkData(p, i, len) = Record(p, i, d)
  BY DEF NetworkData, AllProtocols, BoATEth_Get_Network_Data, BoATPlatON_Get_Network_Data,
     BoATPlatone_Get_Network_Data, BoATQuorum_Get_Network_Data, BoATVenachain_Get_Network_Data,
     BoATFiscobcos_Get_Network_Data, BoATHlfabric_Get_Network_Data, BoATHwbcs_Get_Network_Data,
     BoATChainmaker_Get_Network_Data, BoATCita_Get_Network_Data
<1>. QED
  BY <1>2, <1>3, <1>4, <1>5

\* The locals of a create that begins.
LEMMA StartCreateType ==
  ASSUME TypeInv, NEW p \in built, NEW i \in NetworkIndex, NEW len \in DataLens,
         StartCreate(p, i, len)
  PROVE  /\ ctx' \in CtxSet /\ pc' \in Labels /\ CtxOK'
         /\ pc' = "nwProtocol" /\ ctx'.index = i /\ UNCHANGED <<built, nw, ret, pre>>
<1>. DEFINE r == NetworkData(p, i, len)
<1>1. r \in NetworkRec /\ r.index = i /\ r.protocol = p /\ r.fields = p
  BY DataType, Types
<1>2. ctx' = [api |-> "create", index |-> i, rec |-> r, num |-> 0, pos |-> 0]
  BY DEF StartCreate, NoCtx
<1>3. pc' = "nwProtocol" /\ UNCHANGED <<built, nw, ret, pre>>
  BY DEF StartCreate, Goto
<1>4. 0 \in NetworkIndex
  BY Maximum DEF NetworkIndex
<1>. HIDE DEF r
<1>5. ctx' \in CtxSet
  BY <1>1, <1>2, <1>4 DEF CtxSet
<1>6. CtxOK'
  BY <1>1, <1>2, <1>3 DEF CtxOK, StoreLabels, RemoveLabels
<1>. QED
  BY <1>2, <1>3, <1>5, <1>6 DEF Labels, StoreLabels

\* A table that is not full has an index left: its records carry fewer
\* different indices than there are.
LEMMA FreeIndex ==
  ASSUME NEW t, NEW n \in Nat, n < BOAT_MAX_NETWORK_NUM
  PROVE  /\ LeastFree(Used(t, n), BOAT_MAX_NETWORK_NUM) \in Persistent
         /\ LeastFree(Used(t, n), BOAT_MAX_NETWORK_NUM) \notin Used(t, n)
<1>. DEFINE U == Used(t, n)
            f == [q \in 1..n |-> t.slot[q].index]
<1>1. f \in Surjection(1..n, U)
  BY DEF Surjection, Used
<1>2. IsFiniteSet(1..n) /\ Cardinality(1..n) = n
  BY FS_Interval
<1>3. IsFiniteSet(U) /\ Cardinality(U) <= n
  BY <1>1, <1>2, FS_Surjection
<1>4. IsFiniteSet(Persistent) /\ Cardinality(Persistent) = BOAT_MAX_NETWORK_NUM
  BY FS_Interval, Maximum DEF Persistent
<1>5. Cardinality(U) \in Nat
  BY <1>3, FS_CardinalityType
<1>6. ~(1..BOAT_MAX_NETWORK_NUM \subseteq U)
  <2>. SUFFICES ASSUME Persistent \subseteq U PROVE FALSE
    BY DEF Persistent
  <2>1. Cardinality(Persistent) <= Cardinality(U)
    BY <1>3, FS_Subset
  <2>. QED
    BY <1>3, <1>4, <1>5, <2>1, Maximum
<1>. QED
  BY <1>6, LeastFreeIsFree, Maximum DEF Persistent

LEMMA CreateType ==
  ASSUME TypeInv, NEW p \in AllProtocols, NEW len \in DataLens, NEW m \in BoatStoreType,
         NetworkCreate(p, len, m)
  PROVE  TypeInv'
<1>. DEFINE t == nw["FLASH"]
<1>0. /\ NoIndex \in NoIndex..(BOAT_MAX_NETWORK_NUM + 1)
      /\ 0 \in NetworkIndex /\ 1 \in NetworkIndex /\ p \in built
  BY Maximum DEF NoIndex, NetworkIndex, NetworkCreate
<1>1. ASSUME NEW i \in NetworkIndex, StartCreate(p, i, len), faults' \in FaultSet
      PROVE  TypeInv'
  BY <1>0, <1>1, StartCreateType, Types, TypeInvNext
<1>2. ASSUME Refuse("create", NoIndex), faults' \in FaultSet PROVE TypeInv'
  BY <1>0, <1>2, RefuseType
<1>3. Fault("read") => faults' \in FaultSet
  BY FaultEffect, Types
<1>4. UNCHANGED faults => faults' \in FaultSet
  BY Types
<1>5. Count(t) \in Nat
  BY CountRange, Maximum, Types DEF Table
<1>6. Count(t) < BOAT_MAX_NETWORK_NUM =>
        LeastFree(Used(t, Count(t)), BOAT_MAX_NETWORK_NUM) \in NetworkIndex
  <2>. DEFINE i == LeastFree(Used(t, Count(t)), BOAT_MAX_NETWORK_NUM)
  <2>1. Count(t) < BOAT_MAX_NETWORK_NUM => i \in Persistent
    BY <1>5, FreeIndex
  <2>. HIDE DEF i
  <2>2. Count(t) < BOAT_MAX_NETWORK_NUM => i \in NetworkIndex
    BY <2>1, Maximum DEF Persistent, NetworkIndex
  <2>. QED
    BY <2>2 DEF i
<1>7. Count(t) < BOAT_MAX_NETWORK_NUM \/ Count(t) >= BOAT_MAX_NETWORK_NUM
  BY <1>5, Maximum
<1>. QED
  BY <1>0, <1>1, <1>2, <1>3, <1>4, <1>6, <1>7 DEF NetworkCreate, GetFreeNetworkIndex_From_Persistent

LEMMA DeleteType ==
  ASSUME TypeInv, NEW p \in AllProtocols, NEW i \in 0..(BOAT_MAX_NETWORK_NUM + 1),
         NetworkDelete(p, i)
  PROVE  TypeInv'
<1>1. faults' \in FaultSet /\ p \in built
  BY Types DEF NetworkDelete
<1>2. CASE i > BOAT_MAX_NETWORK_NUM
  <2>1. i \in NoIndex..(BOAT_MAX_NETWORK_NUM + 1)
    BY Maximum DEF NoIndex
  <2>. QED
    BY <1>1, <1>2, <2>1, RefuseType DEF NetworkDelete
<1>3. CASE ~(i > BOAT_MAX_NETWORK_NUM)
  <2>. DEFINE r == [protocol |-> p, index |-> i, fields |-> p, len |-> 0]
  <2>1. ctx' = [api |-> "delete", index |-> i, rec |-> r, num |-> 0, pos |-> 0]
    BY <1>3 DEF NetworkDelete, NoCtx
  <2>2. pc' = "nwDel" /\ UNCHANGED <<built, nw, ret>>
    BY <1>3 DEF NetworkDelete, Goto
  <2>3. i \in NetworkIndex /\ 0 \in NetworkIndex
    BY <1>3, Maximum DEF NetworkIndex
  <2>4. r \in NetworkRec /\ r.index = i /\ r.protocol = p /\ r.fields = p
    BY <2>3 DEF NetworkRec
  <2>. HIDE DEF r
  <2>5. ctx' \in CtxSet
    BY <2>1, <2>3, <2>4 DEF CtxSet
  <2>6. CtxOK'
    BY <1>1, <2>1, <2>2, <2>3, <2>4 DEF CtxOK, StoreLabels, RemoveLabels
  <2>. QED
    BY <1>1, <2>2, <2>5, <2>6, Types, TypeInvNext DEF Labels
<1>. QED
  BY <1>2, <1>3
\* The number a store works from, and the slot behind it.
LEMMA BaseRange ==
  ASSUME NEW t \in Table, NEW n \in {0, Count(t)}, NEW i, n < BOAT_MAX_NETWORK_NUM
  PROVE  LET base == IF Mem(i) = "RAM" THEN 0 ELSE n
         IN  /\ base \in NetworkIndex /\ base < BOAT_MAX_NETWORK_NUM
             /\ base + 1 \in 1..BOAT_MAX_NETWORK_NUM
<1>1. Count(t) \in 0..BOAT_MAX_NETWORK_NUM
  BY CountRange, Maximum DEF Table
<1>. QED
  BY <1>1, Maximum DEF NetworkIndex

\* A piece of a record is written: at most that slot changes.
LEMMA PatchEffect ==
  ASSUME NEW t \in Table, NEW q \in 1..BOAT_MAX_NETWORK_NUM, NEW r,
         t.slot[q] \in NetworkRec => r \in NetworkRec
  PROVE  LET w == PatchRec(t, q, r)
         IN  /\ w \in Table /\ w.num = t.num
             /\ \A k \in 1..BOAT_MAX_NETWORK_NUM : k # q => w.slot[k] = t.slot[k]
             /\ t.slot[q] # NoRec => w.slot[q] = r
<1>1. t \in [num : BadNum..BOAT_MAX_NETWORK_NUM,
             slot : [1..BOAT_MAX_NETWORK_NUM -> NetworkRec \cup {NoRec}]]
  BY DEF Table, TableOf
<1>2. CASE t.slot[q] = NoRec
  BY <1>2 DEF PatchRec
<1>3. CASE t.slot[q] # NoRec
  <2>1. t.slot[q] \in NetworkRec
    BY <1>1, <1>3
  <2>2. r \in NetworkRec
    BY <2>1
  <2>. DEFINE s == [t.slot EXCEPT ![q] = r]
  <2>3. /\ s \in [1..BOAT_MAX_NETWORK_NUM -> NetworkRec \cup {NoRec}] /\ s[q] = r
        /\ \A k \in 1..BOAT_MAX_NETWORK_NUM : k # q => s[k] = t.slot[k]
    BY <1>1, <2>2
  <2>. HIDE DEF s
  <2>4. PatchRec(t, q, r) = [t EXCEPT !.slot = s]
    BY <1>3 DEF PatchRec, s
  <2>5. [t EXCEPT !.slot = s].num = t.num /\ [t EXCEPT !.slot = s].slot = s
        /\ [t EXCEPT !.slot = s] \in Table
    BY <1>1, <2>3 DEF Table, TableOf
  <2>. QED
    BY <2>3, <2>4, <2>5
<1>. QED
  BY <1>2, <1>3

\* The two pieces that are written before the data.
LEMMA Pieces ==
  ASSUME NEW x, NEW r \in NetworkRec, x \in NetworkRec
  PROVE  /\ [x EXCEPT !.protocol = r.protocol] \in NetworkRec
         /\ [x EXCEPT !.index = r.index] \in NetworkRec
         /\ [x EXCEPT !.protocol = r.protocol].index = x.index
         /\ [x EXCEPT !.index = r.index].index = r.index
BY DEF NetworkRec

\* The locals stay as they are, but for the number.
LEMMA SameCtx ==
  ASSUME TypeInv, pc # "idle", built' = built,
         \/ ctx' = ctx
         \/ \E n \in NetworkIndex : ctx' = [ctx EXCEPT !.num = n]
         \/ \E n, q \in NetworkIndex : ctx' = [ctx EXCEPT !.num = n, !.pos = q],
         pc \in StoreLabels <=> pc' \in StoreLabels, pc' # "idle",
         pc' \in {"nwIndex", "nwData", "nwNum"} => ctx'.num < BOAT_MAX_NETWORK_NUM,
         pc' \in RemoveLabels => ctx.index # 0
  PROVE  /\ ctx' \in CtxSet /\ CtxOK'
         /\ ctx'.rec = ctx.rec /\ ctx'.index = ctx.index
<1>1. /\ ctx.index \in NetworkIndex /\ ctx.rec \in NetworkRec /\ ctx.rec.index = ctx.index
      /\ ctx.rec.protocol \in built /\ ctx.rec.fields = ctx.rec.protocol
      /\ ctx.api = IF pc \in StoreLabels THEN "create" ELSE "delete"
      /\ ctx \in CtxSet
  BY Types DEF CtxOK
<1>2. /\ ctx' \in CtxSet
      /\ ctx'.rec = ctx.rec /\ ctx'.index = ctx.index /\ ctx'.api = ctx.api
  BY <1>1 DEF CtxSet
<1>3. CtxOK'
  BY <1>1, <1>2 DEF CtxOK
<1>. QED
  BY <1>2, <1>3

LEMMA StoreProtocolType ==
  ASSUME TypeInv, Store_Protocol
  PROVE  TypeInv'
<1>. DEFINE m == Mem(ctx.index)
            t == nw[m]
<1>0. m \in BoatStoreType /\ t \in Table /\ pc = "nwProtocol" /\ ctx.rec \in NetworkRec
  BY Types, MemType DEF Store_Protocol, CtxOK
<1>1. ASSUME NEW n \in {0, Count(t)}, n < BOAT_MAX_NETWORK_NUM, faults' \in FaultSet,
             LET base == IF m = "RAM" THEN 0 ELSE n
                 r == [t.slot[base + 1] EXCEPT !.protocol = ctx.rec.protocol]
             IN  /\ nw' = [nw EXCEPT ![m] = PatchRec(t, base + 1, r)]
                 /\ ctx' = [ctx EXCEPT !.num = base],
             Goto("nwIndex")
      PROVE  TypeInv'
  <2>. DEFINE base == IF m = "RAM" THEN 0 ELSE n
              r == [t.slot[base + 1] EXCEPT !.protocol = ctx.rec.protocol]
  <2>1. base \in NetworkIndex /\ base < BOAT_MAX_NETWORK_NUM /\ base + 1 \in 1..BOAT_MAX_NETWORK_NUM
    BY <1>0, <1>1, BaseRange
  <2>2. t.slot[base + 1] \in NetworkRec => r \in NetworkRec
    BY <1>0, Pieces
  <2>3. nw' = [nw EXCEPT ![m] = PatchRec(t, base + 1, r)] /\ ctx' = [ctx EXCEPT !.num = base]
    BY <1>1
  <2>. HIDE DEF r, base
  <2>4. PatchRec(t, base + 1, r) \in Table
    BY <1>0, <2>1, <2>2, PatchEffect
  <2>5. nw' \in [BoatStoreType -> Table]
    BY <1>0, <2>3, <2>4, PutTable, Types
  <2>6. pc' = "nwIndex" /\ built' = built /\ ctx'.num = base
    BY <1>1, <2>3, Types DEF Goto, CtxSet
  <2>7. ctx' \in CtxSet /\ CtxOK'
    <3>1. pc \in StoreLabels /\ pc' \in StoreLabels /\ pc # "idle" /\ pc' # "idle" /\ pc' \notin RemoveLabels
      BY <1>0, <2>6 DEF StoreLabels, RemoveLabels
    <3>. QED
      BY <2>1, <2>3, <2>6, <3>1, SameCtx
  <2>. QED
    BY <1>1, <2>5, <2>7, GotoType DEF Labels, StoreLabels
<1>2. ASSUME StoreFails, faults' \in FaultSet PROVE TypeInv'
  BY <1>0, <1>2, FailType
<1>3. UNCHANGED faults \/ Fault("internal") \/ FlashFault(m, "write") \/ FlashFault(m, "read")
        => faults' \in FaultSet
  BY FaultForms, Types DEF AllFaultKinds
<1>. QED
  BY <1>1, <1>2, <1>3 DEF Store_Protocol

LEMMA StoreIndexType ==
  ASSUME TypeInv, Store_Index
  PROVE  TypeInv'
<1>. DEFINE m == Mem(ctx.index)
            t == nw[m]
            q == ctx.num + 1
            r == [t.slot[q] EXCEPT !.index = ctx.index]
<1>0. /\ m \in BoatStoreType /\ t \in Table /\ pc = "nwIndex" /\ ctx.rec \in NetworkRec
      /\ ctx.rec.index = ctx.index /\ ctx.num < BOAT_MAX_NETWORK_NUM /\ ctx.num \in NetworkIndex
  BY Types, MemType DEF Store_Index, CtxOK, CtxSet
<1>1. CASE /\ nw' = [nw EXCEPT ![m] = PatchRec(t, q, r)]
           /\ Goto("nwData")
           /\ UNCHANGED <<ctx, faults>>
  <2>1. q \in 1..BOAT_MAX_NETWORK_NUM
    BY <1>0, Maximum DEF NetworkIndex
  <2>2. t.slot[q] \in NetworkRec => r \in NetworkRec
    <3>1. ctx.index \in NetworkIndex
      BY <1>0, Types DEF CtxOK
    <3>. QED
      BY <3>1 DEF NetworkRec
  <2>. HIDE DEF r, q
  <2>3. PatchRec(t, q, r) \in Table
    BY <1>0, <2>1, <2>2, PatchEffect
  <2>4. nw' \in [BoatStoreType -> Table]
    BY <1>0, <1>1, <2>3, PutTable, Types
  <2>5. ctx' \in CtxSet /\ CtxOK'
    <3>1. /\ pc' = "nwData" /\ built' = built
          /\ pc \in StoreLabels /\ pc' \in StoreLabels /\ pc # "idle" /\ pc' # "idle" /\ pc' \notin RemoveLabels
      BY <1>0, <1>1 DEF StoreLabels, RemoveLabels, Goto
    <3>. QED
      BY <1>0, <1>1, <3>1, SameCtx
  <2>. QED
    BY <1>1, <2>4, <2>5, GotoType, Types DEF Labels, StoreLabels
<1>2. CASE FlashFault(m, "write") /\ StoreFails
  BY <1>0, <1>2, FailType, FaultForms, Types DEF AllFaultKinds
<1>. QED
  BY <1>1, <1>2 DEF Store_Index

LEMMA StoreDataType ==
  ASSUME TypeInv, Store_Data
  PROVE  TypeInv'
<1>. DEFINE m == Mem(ctx.index)
            q == ctx.num + 1
<1>0. /\ m \in BoatStoreType /\ nw[m] \in Table /\ pc = "nwData" /\ ctx.rec \in NetworkRec \cup {NoRec}
      /\ ctx.num < BOAT_MAX_NETWORK_NUM /\ ctx.num \in NetworkIndex
  BY Types, MemType DEF Store_Data, CtxOK, CtxSet
<1>1. CASE /\ nw' = [nw EXCEPT ![m] = WriteRec(nw[m], q, ctx.rec)]
           /\ Goto("nwNum")
           /\ UNCHANGED <<ctx, faults>>
  <2>1. q \in 1..BOAT_MAX_NETWORK_NUM
    BY <1>0, Maximum DEF NetworkIndex
  <2>. HIDE DEF q
  <2>2. WriteRec(nw[m], q, ctx.rec) \in Table
    BY <1>0, <2>1, WriteRecEffect, Maximum DEF Table
  <2>3. nw' \in [BoatStoreType -> Table]
    BY <1>0, <1>1, <2>2, PutTable, Types
  <2>4. ctx' \in CtxSet /\ CtxOK'
    <3>1. /\ pc' = "nwNum" /\ built' = built
          /\ pc \in StoreLabels /\ pc' \in StoreLabels /\ pc # "idle" /\ pc' # "idle" /\ pc' \notin RemoveLabels
      BY <1>0, <1>1 DEF StoreLabels, RemoveLabels, Goto
    <3>. QED
      BY <1>0, <1>1, <3>1, SameCtx
  <2>. QED
    BY <1>1, <2>3, <2>4, GotoType, Types DEF Labels, StoreLabels
<1>2. CASE (FlashFault(m, "write") \/ Fault("overflow")) /\ StoreFails
  BY <1>0, <1>2, FailType, FaultForms, Types DEF AllFaultKinds
<1>. QED
  BY <1>1, <1>2 DEF Store_Data

LEMMA StoreNumType ==
  ASSUME TypeInv, Store_Num
  PROVE  TypeInv'
<1>. DEFINE m == Mem(ctx.index)
<1>0. /\ m \in BoatStoreType /\ nw[m] \in Table /\ pc = "nwNum"
      /\ ctx.num < BOAT_MAX_NETWORK_NUM /\ ctx.num \in NetworkIndex
  BY Types, MemType DEF Store_Num, CtxOK, CtxSet
<1>1. CASE /\ nw' = [nw EXCEPT ![m] = WriteNum(nw[m], ctx.num + 1)]
           /\ UNCHANGED faults
           /\ Return(TRUE)
  <2>1. ctx.num + 1 \in BadNum..BOAT_MAX_NETWORK_NUM
    BY <1>0, Maximum DEF BadNum, NetworkIndex
  <2>2. WriteNum(nw[m], ctx.num + 1) \in Table
    BY <1>0, <2>1, WriteNumEffect, Maximum DEF Table
  <2>3. nw' \in [BoatStoreType -> Table]
    BY <1>0, <1>1, <2>2, PutTable, Types
  <2>. QED
    BY <1>0, <1>1, <2>3, ReturnType, Types
<1>2. CASE FlashFault(m, "write") /\ StoreFails
  BY <1>0, <1>2, FailType, FaultForms, Types DEF AllFaultKinds
<1>. QED
  BY <1>1, <1>2 DEF Store_Num

LEMMA OnetimeType ==
  ASSUME TypeInv, Delete_Onetime
  PROVE  TypeInv'
<1>1. pc # "idle" /\ faults' \in FaultSet /\ "RAM" \in BoatStoreType /\ BadNum \in BadNum..BOAT_MAX_NETWORK_NUM
  BY Types, Maximum DEF Delete_Onetime, BoatStoreType, BadNum
<1>2. [nw EXCEPT !["RAM"] = WriteNum(nw["RAM"], BadNum)] \in [BoatStoreType -> Table]
  BY <1>1, WriteNumEffect, Maximum, PutTable, Types DEF Table
<1>. QED
  BY <1>1, <1>2, ReturnType, FailType DEF Delete_Onetime

\* A search that finds a network of the protocol returns its slot.
LEMMA FoundRange ==
  ASSUME NEW t \in Table, NEW p, NEW i, FoundNetwork(t, Count(t), p, i) # {}
  PROVE  LET f == FirstOf(FoundNetwork(t, Count(t), p, i))
         IN  /\ f \in 1..Count(t) /\ t.slot[f].index = i /\ t.slot[f].protocol = p
             /\ f \in NetworkIndex
             /\ Count(t) \in 1..BOAT_MAX_NETWORK_NUM
             /\ Count(t) \in NetworkIndex /\ Count(t) - 1 \in BadNum..BOAT_MAX_NETWORK_NUM
<1>. DEFINE S == FoundNetwork(t, Count(t), p, i)
            f == FirstOf(S)
<1>1. Count(t) \in 0..BOAT_MAX_NETWORK_NUM
  BY CountRange, Maximum DEF Table
<1>2. S \subseteq 1..Count(t) /\ \A q \in S : t.slot[q].index = i /\ t.slot[q].protocol = p
  BY DEF FoundNetwork, Found
<1>3. S \subseteq Nat
  BY <1>1, <1>2
<1>4. f \in S
  BY <1>3, FirstOfIsLeast
<1>5. f \in 1..Count(t) /\ t.slot[f].index = i /\ t.slot[f].protocol = p
  BY <1>2, <1>4
<1>. HIDE DEF f
<1>6. /\ Count(t) \in 1..BOAT_MAX_NETWORK_NUM /\ f \in NetworkIndex
      /\ Count(t) \in NetworkIndex /\ Count(t) - 1 \in BadNum..BOAT_MAX_NETWORK_NUM
  BY <1>1, <1>5, Maximum DEF NetworkIndex, BadNum
<1>. QED
  BY <1>5, <1>6 DEF f

LEMMA DeleteNumType ==
  ASSUME TypeInv, Delete_Num
  PROVE  TypeInv'
<1>. DEFINE t == nw["FLASH"]
            S == FoundNetwork(t, Count(t), ctx.rec.protocol, ctx.index)
<1>0. pc = "nwDel" /\ ctx.index # 0 /\ t \in Table /\ "FLASH" \in BoatStoreType
  BY Types DEF Delete_Num, BoatStoreType
<1>1. CASE /\ S # {}
           /\ nw' = [nw EXCEPT !["FLASH"] = WriteNum(t, Count(t) - 1)]
           /\ ctx' = [ctx EXCEPT !.num = Count(t), !.pos = FirstOf(S)]
           /\ Goto("nwTail")
           /\ UNCHANGED faults
  <2>1. Count(t) \in NetworkIndex /\ FirstOf(S) \in NetworkIndex
        /\ Count(t) - 1 \in BadNum..BOAT_MAX_NETWORK_NUM
    BY <1>0, <1>1, FoundRange
  <2>. HIDE DEF S
  <2>2. WriteNum(t, Count(t) - 1) \in Table
    BY <1>0, <2>1, WriteNumEffect, Maximum DEF Table
  <2>3. nw' \in [BoatStoreType -> Table]
    BY <1>0, <1>1, <2>2, PutTable, Types
  <2>4. ctx' \in CtxSet /\ CtxOK'
    <3>1. /\ pc' = "nwTail" /\ built' = built
          /\ pc \notin StoreLabels /\ pc' \notin StoreLabels /\ pc # "idle" /\ pc' # "idle"
          /\ pc' \notin {"nwIndex", "nwData", "nwNum"}
      BY <1>0, <1>1 DEF StoreLabels, RemoveLabels, Goto
    <3>2. \E n, q \in NetworkIndex : ctx' = [ctx EXCEPT !.num = n, !.pos = q]
      BY <1>1, <2>1
    <3>. QED
      BY <1>0, <3>1, <3>2, SameCtx
  <2>. QED
    BY <1>1, <2>3, <2>4, GotoType, Types DEF Labels, RemoveLabels
<1>2. ASSUME StoreFails, UNCHANGED faults \/ Fault("read") \/ Fault("write") PROVE TypeInv'
  BY <1>0, <1>2, FailType, FaultForms, Types DEF AllFaultKinds
<1>. QED
  BY <1>1, <1>2 DEF Delete_Num

LEMMA RemoveType ==
  ASSUME TypeInv, Delete_Tail \/ Delete_RecoverLast \/ Delete_Recover
  PROVE  TypeInv'
<1>. DEFINE t == nw["FLASH"]
<1>0. /\ pc \in RemoveLabels /\ pc # "idle" /\ t \in Table /\ "FLASH" \in BoatStoreType
      /\ ctx.num \in NetworkIndex /\ ctx.pos \in NetworkIndex /\ ctx.index # 0
  BY Types DEF Delete_Tail, Delete_RecoverLast, Delete_Recover, RemoveLabels, BoatStoreType, CtxSet, CtxOK
<1>1. DropRec(t, ctx.pos, ctx.num) \in Table /\ DropRec(t, ctx.num, ctx.num) \in Table
  BY <1>0, DropRecEffect, Maximum DEF Table, NetworkIndex
<1>2. WriteNum(t, ctx.num) \in Table
  <2>1. ctx.num \in BadNum..BOAT_MAX_NETWORK_NUM
    BY <1>0, Maximum DEF NetworkIndex, BadNum
  <2>. QED
    BY <1>0, <2>1, WriteNumEffect, Maximum DEF Table
<1>3. ASSUME NEW w \in Table, nw' = [nw EXCEPT !["FLASH"] = w] PROVE nw' \in [BoatStoreType -> Table]
  BY <1>0, <1>3, PutTable, Types
<1>4. UNCHANGED faults \/ Fault("read") \/ Fault("write") \/ Fault("internal") => faults' \in FaultSet
  BY FaultForms, Types DEF AllFaultKinds
<1>5. CASE Fault("write") /\ UNCHANGED <<nw, ctx>> /\ Goto(IF ctx.pos = ctx.num THEN "nwLast" ELSE "nwRecover")
  <2>. DEFINE l == IF ctx.pos = ctx.num THEN "nwLast" ELSE "nwRecover"
  <2>1. /\ pc' \in {"nwLast", "nwRecover"} /\ built' = built
    BY <1>5 DEF Goto
  <2>2. /\ pc \notin StoreLabels /\ pc' \notin StoreLabels /\ pc' # "idle"
        /\ pc' \notin {"nwIndex", "nwData", "nwNum"}
    BY <1>0, <2>1 DEF StoreLabels, RemoveLabels
  <2>3. ctx' \in CtxSet /\ CtxOK'
    BY <1>0, <1>5, <2>1, <2>2, SameCtx
  <2>4. l \in Labels
    BY DEF Labels, RemoveLabels
  <2>. QED
    BY <1>4, <1>5, <2>3, <2>4, GotoType, Types
<1>6. ASSUME NEW ok \in BOOLEAN, Return(ok), faults' \in FaultSet, nw' \in [BoatStoreType -> Table]
      PROVE  TypeInv'
  BY <1>0, <1>6, ReturnType
<1>7. CASE Delete_Tail
  BY <1>0, <1>1, <1>3, <1>4, <1>5, <1>6, <1>7, FailType DEF Delete_Tail
<1>8. CASE Delete_RecoverLast
  BY <1>0, <1>1, <1>3, <1>4, <1>6, <1>8, FailType DEF Delete_RecoverLast
<1>9. CASE Delete_Recover
  BY <1>2, <1>3, <1>4, <1>6, <1>9, Types DEF Delete_Recover
<1>. QED
  BY <1>7, <1>8, <1>9

LEMMA RebootType ==
  ASSUME TypeInv, PowerCycle \/ Crash
  PROVE  TypeInv'
<1>1. /\ ctx.index \in NoIndex..(BOAT_MAX_NETWORK_NUM + 1)
      /\ NoIndex \in NoIndex..(BOAT_MAX_NETWORK_NUM + 1)
  <2>1. ctx.index \in NetworkIndex \cup {NoIndex}
    BY Types DEF CtxSet
  <2>. QED
    BY <2>1, Maximum DEF NetworkIndex, NoIndex
<1>2. /\ built' = built /\ pc' = "idle" /\ ctx' = NoCtx /\ ret' \in RetSet
      /\ nw' = [nw EXCEPT !["RAM"] = BlankTable(BOAT_MAX_NETWORK_NUM)]
  <2>1. PICK op \in {"boot", "crash"}, i \in NoIndex..(BOAT_MAX_NETWORK_NUM + 1) : Reboot(op, i)
    BY <1>1 DEF PowerCycle, Crash
  <2>2. ret' = [op |-> op, index |-> i, ok |-> TRUE]
    BY <2>1 DEF Reboot
  <2>3. ret' \in RetSet
    BY <2>2 DEF RetSet
  <2>. QED
    BY <2>1, <2>3 DEF Reboot
<1>3. nw' \in [BoatStoreType -> Table]
  <2>1. BlankTable(BOAT_MAX_NETWORK_NUM) \in Table /\ "RAM" \in BoatStoreType
    BY BlankIsTable, Maximum DEF Table, BoatStoreType
  <2>. QED
    BY <1>2, <2>1, PutTable, Types
<1>4. faults' \in FaultSet
  BY FaultEffect, Types DEF PowerCycle, Crash
<1>. QED
  BY <1>2, <1>3, <1>4, IdleCtxOK, TypeInvNext
----------------------------------------------------------------------------
(* The entry points of the ten files come down to the steps they share.    *)

Begins ==
  \/ \E p \in AllProtocols, len \in DataLens, m \in BoatStoreType : NetworkCreate(p, len, m)
  \/ \E p \in AllProtocols, i \in 0..(BOAT_MAX_NETWORK_NUM + 1) : NetworkDelete(p, i)

StoreStep == Store_Protocol \/ Store_Index \/ Store_Data \/ Store_Num

DeleteStep == Delete_Onetime \/ Delete_Num \/ Delete_Tail \/ Delete_RecoverLast \/ Delete_Recover

LEMMA NextCases ==
  ASSUME [Next]_vars
  PROVE  Begins \/ StoreStep \/ DeleteStep \/ PowerCycle \/ Crash \/ UNCHANGED vars
<1>1. ASSUME NEW len \in DataLens, NEW m \in BoatStoreType, Creates(len, m)
      PROVE  \E p \in AllProtocols : NetworkCreate(p, len, m)
  BY <1>1 DEF Creates, AllProtocols, BoATEthNetworkCreate, BoATPlatONNetworkCreate,
     BoATPlatoneNetworkCreate, BoatQuorumNetworkCreate, BoatVenachainNetworkCreate,
     BoATFiscobcosNetworkCreate, BoatHlfabricNetworkCreate, BoATHwbcsNetworkCreate,
     BoATChainmakerNetworkCreate, BoATCitaNetworkCreate
<1>2. ASSUME NEW i, Deletes(i)
      PROVE  \E p \in AllProtocols : NetworkDelete(p, i)
  BY <1>2 DEF Deletes, AllProtocols, BoATEthNetworkDelete, BoATPlatONNetworkDelete,
     BoATPlatoneNetworkDelete, BoATQuorumNetworkDelete, BoATVenachainNetworkDelete,
     BoATFiscobcosNetworkDelete, BoATHlfabricNetworkDelete, BoATHwbcsNetworkDelete,
     BoATChainmakerNetworkDelete, BoATCitaNetworkDelete
<1>3. Stores => StoreStep
  BY DEF Stores, StoreStep, Store, BoATEth_NetworkDataCtx_Store, BoATPlatON_NetworkDataCtx_Store,
     BoATPlatone_NetworkDataCtx_Store, BoATQuorum_NetworkDataCtx_Store,
     BoATVenachain_NetworkDataCtx_Store, BoATFiscobcos_NetworkDataCtx_Store,
     BoATHlfabric_NetworkDataCtx_Store, BoATHwbcs_NetworkDataCtx_Store,
     BoATChainmaker_NetworkDataCtx_Store, BoATCita_NetworkDataCtx_Store
<1>4. \A p : Delete(p) \/ Remove(p) => DeleteStep
  BY DEF Delete, Remove, DeleteStep
<1>5. Removes => DeleteStep
  BY <1>4 DEF Removes,
     BoATEthNetworkDelete_Count, BoATPlatONNetworkDelete_Count, BoATPlatoneNetworkDelete_Count,
     BoATQuorumNetworkDelete_Count, BoATVenachainNetworkDelete_Count,
     BoATFiscobcosNetworkDelete_Count, BoATHlfabricNetworkDelete_Count,
     BoATHwbcsNetworkDelete_Count, BoATChainmakerNetworkDelete_Count,
     BoATCitaNetworkDelete_Count, BoATEthNetworkDelete_Records,
     BoATPlatONNetworkDelete_Records, BoATPlatoneNetworkDelete_Records,
     BoATQuorumNetworkDelete_Records, BoATVenachainNetworkDelete_Records,
     BoATFiscobcosNetworkDelete_Records, BoATHlfabricNetworkDelete_Records,
     BoATHwbcsNetworkDelete_Records, BoATChainmakerNetworkDelete_Records,
     BoATCitaNetworkDelete_Records
<1>. QED
  BY <1>1, <1>2, <1>3, <1>5 DEF Next, Begins

LEMMA TypeInit == Init => TypeInv
<1>. SUFFICES ASSUME Init PROVE TypeInv
  OBVIOUS
<1>1. BlankTable(BOAT_MAX_NETWORK_NUM) \in Table
  BY BlankIsTable, Maximum DEF Table
<1>2. nw \in [BoatStoreType -> Table] /\ built \in Builds /\ pc \in Labels /\ ctx \in CtxSet
  BY <1>1, NoCtxType DEF Init, Labels
<1>3. ret \in RetSet /\ faults \in FaultSet
  BY Maximum, FaultAssumption DEF Init, RetSet, FaultSet, NoRet, NoIndex
<1>4. CtxOK
  BY DEF Init, CtxOK, StoreLabels, RemoveLabels
<1>. QED
  BY <1>2, <1>3, <1>4
     DEF TypeInv, TypeOK, Table, Labels, StoreLabels, RemoveLabels, CtxSet, RetSet, FaultSet

LEMMA TypeStep == TypeInv /\ [Next]_vars => TypeInv'
<1>. SUFFICES ASSUME TypeInv, [Next]_vars PROVE TypeInv'
  OBVIOUS
<1>1. CASE UNCHANGED vars
  BY <1>1 DEF vars, TypeInv, TypeOK, CtxOK
<1>2. CASE Begins
  BY <1>2, CreateType, DeleteType DEF Begins
<1>3. CASE StoreStep
  BY <1>3, StoreProtocolType, StoreIndexType, StoreDataType, StoreNumType DEF StoreStep
<1>4. CASE DeleteStep
  BY <1>4, OnetimeType, DeleteNumType, RemoveType DEF DeleteStep
<1>5. CASE PowerCycle \/ Crash
  BY <1>5, RebootType
<1>. QED
  BY <1>1, <1>2, <1>3, <1>4, <1>5, NextCases

\* No call of the network files, wherever it fails or is cut off, leaves a
\* number of networks beyond the table, a record that is none or an index out
\* of range; in particular a table that is not full has a free index.
THEOREM NetworkTypeOK == Spec => []TypeOK
<1>1. TypeInv => TypeOK
  BY DEF TypeInv
<1>. QED
  BY <1>1, TypeInit, TypeStep, PTL DEF Spec

----------------------------------------------------------------------------
(* What a reader finds in a sound table.                                   *)

\* Each file reads by the same search; the ten differ in the format of the
\* data only.
LEMMA GetIsSeen ==
  ASSUME NEW T, NEW p \in AllProtocols, NEW i
  PROVE  GetNetworkByIndex(T, p, i) = Seen(T[Mem(i)], p, i)
<1>. DEFINE t == T[Mem(i)]
            S == FoundNetwork(t, Count(t), p, i)
<1>1. CASE p \in {"ETHEREUM", "PLATON", "PLATONE"}
  BY <1>1 DEF GetNetworkByIndex, Seen, FromNvram, ByIndex, FromLv,
     BoATEth_GetNetworkByIndex, BoATPlatON_GetNetworkByIndex, BoATPlatone_GetNetworkByIndex,
     BoATEth_GetNetworkFromNvram, BoATPlatON_GetNetworkFromNvram, BoATPlatone_GetNetworkFromNvram
<1>2. CASE p \in {"QUORUM", "VENACHAIN", "FISCOBCOS"}
  BY <1>2 DEF GetNetworkByIndex, Seen, FromNvram, ByIndex, FromLv,
     BoATQuorum_GetNetworkByIndex, BoATVenachain_GetNetworkByIndex, BoATFiscobcos_GetNetworkByIndex,
     BoATQuorum_GetNetworkFromNvram, BoATVenachain_GetNetworkFromNvram, BoATFiscobcos_GetNetworkFromNvram
<1>3. CASE p \in {"HLFABRIC", "HWBCS", "CHAINMAKER", "CITA"}
  BY <1>3 DEF GetNetworkByIndex, Seen, FromNvram, ByIndex, FromProto,
     BoATHlfabric_GetNetworkByIndex, BoATHwbcs_GetNetworkByIndex,
     BoATChainmaker_GetNetworkByIndex, BoATCita_GetNetworkByIndex,
     BoATHlfabric_GetNetworkFromNvram, BoATHwbcs_GetNetworkFromNvram,
     BoATChainmaker_GetNetworkFromNvram, BoATCita_GetNetworkFromNvram
<1>. QED
  BY <1>1, <1>2, <1>3 DEF AllProtocols

LEMMA ViewsAreSeen ==
  ASSUME NEW T, built \subseteq AllProtocols
  PROVE  Views(T) = [i \in Persistent |-> [p \in built |-> Seen(T["FLASH"], p, i)]]
<1>1. \A i \in Persistent : Mem(i) = "FLASH"
  BY Maximum DEF Persistent, Mem
<1>2. \A i \in Persistent, p \in built : GetNetworkByIndex(T, p, i) = Seen(T["FLASH"], p, i)
  BY <1>1, GetIsSeen
<1>. QED
  BY <1>2 DEF Views

\* The one record of an index is what its protocol reads there, and no other
\* protocol reads anything.
LEMMA SeenRecord ==
  ASSUME NEW t, Count(t) \in Nat, Sound(t, Count(t)), Owned(t, Count(t)),
         NEW q \in 1..Count(t), NEW p
  PROVE  Seen(t, p, t.slot[q].index) = IF t.slot[q].protocol = p THEN t.slot[q] ELSE NoRec
<1>. DEFINE i == t.slot[q].index
            S == FoundNetwork(t, Count(t), p, i)
<1>1. S = IF t.slot[q].protocol = p THEN {q} ELSE {}
  BY DEF Sound, FoundNetwork, Found
<1>2. FirstOf({q}) = q
  BY DEF FirstOf
<1>3. FromNvram(p, t.slot[q]) = t.slot[q]
  BY DEF FromNvram, FromLv, FromProto, Owned
<1>. QED
  BY <1>1, <1>2, <1>3 DEF Seen

\* Nothing is read at an index no record carries.
LEMMA SeenAbsent ==
  ASSUME NEW t, NEW i, Absent(t, i), NEW p
  PROVE  Seen(t, p, i) = NoRec
BY DEF Seen, FoundNetwork, Found, Absent

\* What is read depends on the counted records alone.
LEMMA SeenSame ==
  ASSUME NEW t, NEW w, Count(w) = Count(t), Count(t) \in Nat,
         \A q \in 1..Count(t) : w.slot[q] = t.slot[q], NEW p, NEW i
  PROVE  Seen(w, p, i) = Seen(t, p, i)
<1>. DEFINE S == FoundNetwork(t, Count(t), p, i)
<1>1. FoundNetwork(w, Count(w), p, i) = S
  BY DEF FoundNetwork, Found
<1>2. S \subseteq 1..Count(t)
  BY DEF FoundNetwork, Found
<1>3. S # {} => FirstOf(S) \in S
  <2>1. S \subseteq Nat
    BY <1>2
  <2>. QED
    BY <2>1, FirstOfIsLeast
<1>. HIDE DEF S
<1>4. S # {} => w.slot[FirstOf(S)] = t.slot[FirstOf(S)]
  BY <1>2, <1>3
<1>. QED
  BY <1>1, <1>4 DEF Seen, S
\* Two sound tables with the same record of an index, or with none.
LEMMA SeenAlike ==
  ASSUME NEW t, Count(t) \in Nat, Sound(t, Count(t)), Owned(t, Count(t)),
         NEW w, Count(w) \in Nat, Sound(w, Count(w)), Owned(w, Count(w)),
         NEW p, NEW j,
         \A q \in 1..Count(t) : t.slot[q].index = j => \E k \in 1..Count(w) : w.slot[k] = t.slot[q],
         \A k \in 1..Count(w) : w.slot[k].index = j => \E q \in 1..Count(t) : w.slot[k] = t.slot[q]
  PROVE  Seen(w, p, j) = Seen(t, p, j)
<1>1. CASE Absent(t, j)
  <2>1. Absent(w, j)
    BY <1>1 DEF Absent
  <2>. QED
    BY <1>1, <2>1, SeenAbsent
<1>2. CASE ~Absent(t, j)
  <2>1. PICK q \in 1..Count(t) : t.slot[q].index = j
    BY <1>2 DEF Absent
  <2>2. PICK k \in 1..Count(w) : w.slot[k] = t.slot[q]
    BY <2>1
  <2>3. Seen(t, p, t.slot[q].index) = IF t.slot[q].protocol = p THEN t.slot[q] ELSE NoRec
    BY SeenRecord
  <2>4. Seen(w, p, w.slot[k].index) = IF w.slot[k].protocol = p THEN w.slot[k] ELSE NoRec
    BY SeenRecord
  <2>. QED
    BY <2>1, <2>2, <2>3, <2>4
<1>. QED
  BY <1>1, <1>2

----------------------------------------------------------------------------
(* What one write does to a sound table.                                   *)

LEMMA CountIsNat ==
  ASSUME NEW t \in Table
  PROVE  Count(t) \in Nat /\ Count(t) <= BOAT_MAX_NETWORK_NUM /\ Count(t) \in 0..BOAT_MAX_NETWORK_NUM
BY CountRange, Maximum DEF Table

\* A header is written.
LEMMA NumWritten ==
  ASSUME NEW t \in Table, NEW n \in 0..BOAT_MAX_NETWORK_NUM
  PROVE  LET w == WriteNum(t, n) IN Count(w) = n /\ w.num = n /\ w.slot = t.slot
BY DEF WriteNum, Count, BadNum

\* The record behind the last is counted in; in the RAM table, where the
\* record replaces the one that is there, nothing is counted before it.
LEMMA CountIn ==
  ASSUME NEW t \in Table, NEW n \in 0..(BOAT_MAX_NETWORK_NUM - 1), Sound(t, n), Owned(t, n),
         NEW r \in NetworkRec, r.fields = r.protocol, t.slot[n + 1] = r,
         \A q \in 1..n : t.slot[q].index # r.index
  PROVE  LET w == WriteNum(t, n + 1)
         IN  /\ Count(w) = n + 1 /\ Sound(w, n + 1) /\ Owned(w, n + 1)
             /\ \A p : Seen(w, p, r.index) = IF r.protocol = p THEN r ELSE NoRec
<1>. DEFINE w == WriteNum(t, n + 1)
<1>1. n \in Nat /\ n + 1 \in 0..BOAT_MAX_NETWORK_NUM /\ n + 1 \in 1..(n + 1)
  BY Maximum
<1>2. Count(w) = n + 1 /\ w.slot = t.slot
  BY <1>1, NumWritten
<1>. HIDE DEF w
<1>3. \A q \in 1..(n + 1) : q \in 1..n \/ q = n + 1
  BY <1>1
<1>4. Sound(w, n + 1)
  BY <1>2, <1>3 DEF Sound
<1>5. Owned(w, n + 1)
  BY <1>2, <1>3 DEF Owned
<1>6. Count(w) \in Nat /\ Sound(w, Count(w)) /\ Owned(w, Count(w)) /\ n + 1 \in 1..Count(w)
  BY <1>1, <1>2, <1>4, <1>5
<1>7. ASSUME NEW p PROVE Seen(w, p, r.index) = IF r.protocol = p THEN r ELSE NoRec
  <2>1. w.slot[n + 1] = r
    BY <1>2
  <2>2. Seen(w, p, w.slot[n + 1].index) = IF w.slot[n + 1].protocol = p THEN w.slot[n + 1] ELSE NoRec
    BY <1>6, SeenRecord
  <2>. QED
    BY <2>1, <2>2
<1>. QED
  BY <1>2, <1>4, <1>5, <1>7 DEF w

\* The other indices of the flash table read as before.
LEMMA CountInOthers ==
  ASSUME NEW t \in Table, Sound(t, Count(t)), Owned(t, Count(t)), Count(t) < BOAT_MAX_NETWORK_NUM,
         NEW w, Count(w) = Count(t) + 1, w.slot = t.slot, Sound(w, Count(w)), Owned(w, Count(w)),
         NEW j, t.slot[Count(t) + 1].index # j, NEW p
  PROVE  Seen(w, p, j) = Seen(t, p, j)
<1>1. Count(t) \in Nat /\ Count(w) \in Nat
  BY CountIsNat
<1>2. \A q \in 1..Count(t) : q \in 1..Count(w)
  BY <1>1
<1>3. \A k \in 1..Count(w) : w.slot[k].index = j => k \in 1..Count(t)
  <2>. SUFFICES ASSUME NEW k \in 1..Count(w), k \notin 1..Count(t) PROVE w.slot[k].index # j
    OBVIOUS
  <2>1. k = Count(t) + 1
    BY <1>1
  <2>. QED
    BY <2>1
<1>4. \A q \in 1..Count(t) : t.slot[q].index = j => \E k \in 1..Count(w) : w.slot[k] = t.slot[q]
  BY <1>2
<1>5. \A k \in 1..Count(w) : w.slot[k].index = j => \E q \in 1..Count(t) : w.slot[k] = t.slot[q]
  BY <1>3
<1>. QED
  BY <1>1, <1>4, <1>5, SeenAlike

\* A delete found its record and lowers the number; put back, the number
\* shows the table as it was.
LEMMA CountOut ==
  ASSUME NEW t \in Table, Sound(t, Count(t)), Owned(t, Count(t)), NEW r,
         FoundNetwork(t, Count(t), r.protocol, r.index) # {}
  PROVE  LET w == WriteNum(t, Count(t) - 1)
         IN  /\ Sound(w, Count(w)) /\ Owned(w, Count(w))
             /\ Removing(w, r, Count(t), FirstOf(FoundNetwork(t, Count(t), r.protocol, r.index)))
             /\ \A p, j : Seen(WriteNum(w, Count(t)), p, j) = Seen(t, p, j)
<1>. DEFINE n == Count(t)
            w == WriteNum(t, n - 1)
            u == WriteNum(w, n)
            f == FirstOf(FoundNetwork(t, n, r.protocol, r.index))
<1>1. /\ n \in 1..BOAT_MAX_NETWORK_NUM /\ f \in 1..n
      /\ t.slot[f].index = r.index /\ t.slot[f].protocol = r.protocol
  BY FoundRange
<1>2. Sound(t, n) /\ Owned(t, n) /\ Count(t) = n
  OBVIOUS
<1>. HIDE DEF n, f
<1>3. n \in Nat /\ n - 1 \in 0..BOAT_MAX_NETWORK_NUM /\ \A q \in 1..(n - 1) : q \in 1..n
  BY <1>1, Maximum
<1>4. w.num = n - 1 /\ w.slot = t.slot /\ Count(w) = n - 1
  BY <1>3, NumWritten
<1>5. u.num = n /\ u.slot = t.slot
  BY <1>4 DEF WriteNum
<1>6. Count(u) = n
  BY <1>1, <1>5 DEF Count, BadNum
<1>. HIDE DEF w, u
<1>7. Sound(w, n) /\ Sound(w, n - 1) /\ Owned(w, n) /\ Owned(w, n - 1)
  BY <1>2, <1>3, <1>4 DEF Sound, Owned
<1>8. Removing(w, r, n, f)
  BY <1>1, <1>4, <1>7 DEF Removing
<1>9. ASSUME NEW p, NEW j PROVE Seen(u, p, j) = Seen(t, p, j)
  <2>1. Count(u) = Count(t) /\ Count(t) \in Nat /\ \A q \in 1..Count(t) : u.slot[q] = t.slot[q]
    BY <1>2, <1>3, <1>5, <1>6
  <2>. QED
    BY <2>1, SeenSame
<1>. QED
  BY <1>4, <1>7, <1>8, <1>9 DEF n, w, u, f

\* The table before the number was lowered.
LEMMA UncutSound ==
  ASSUME NEW t \in Table, NEW r, NEW n \in NetworkIndex, NEW pos, Removing(t, r, n, pos)
  PROVE  LET u == WriteNum(t, n)
         IN  Count(u) = n /\ u.slot = t.slot /\ Sound(u, n) /\ Owned(u, n)
<1>1. Count(WriteNum(t, n)) = n /\ WriteNum(t, n).slot = t.slot
  BY NumWritten DEF NetworkIndex
<1>2. Sound(t, n) /\ Owned(t, n)
  BY DEF Removing
<1>. QED
  BY <1>1, <1>2 DEF Sound, Owned

\* The record goes, those behind it move up, and the others read as before.
LEMMA DropOut ==
  ASSUME NEW t \in Table, NEW r, NEW n \in NetworkIndex, NEW pos \in NetworkIndex,
         Removing(t, r, n, pos)
  PROVE  LET w == DropRec(t, pos, n)
         IN  /\ Sound(w, Count(w)) /\ Owned(w, Count(w)) /\ Absent(w, r.index)
             /\ \A p, j : j # r.index => Seen(w, p, j) = Seen(WriteNum(t, n), p, j)
<1>. DEFINE w == DropRec(t, pos, n)
            u == WriteNum(t, n)
            M == BOAT_MAX_NETWORK_NUM
<1>1. /\ n \in 0..M /\ pos \in 1..n /\ Sound(t, n) /\ Owned(t, n) /\ M \in Nat
      /\ t.num = n - 1 /\ t.slot[pos].index = r.index
  BY Maximum DEF Removing, NetworkIndex
<1>2. /\ w.num = t.num
      /\ \A q \in 1..M : q < pos /\ pos <= n => w.slot[q] = t.slot[q]
      /\ \A q \in 1..M : pos <= q /\ q < n => w.slot[q] = t.slot[q+1]
  <2>1. t \in TableOf(M, NetworkRec) /\ pos \in 0..M
    BY DEF Table, NetworkIndex
  <2>2. n \in 0..M /\ M \in Nat
    BY <1>1
  <2>. HIDE DEF M
  <2>3. /\ DropRec(t, pos, n).num = t.num
        /\ \A q \in 1..M : q < pos /\ pos <= n => DropRec(t, pos, n).slot[q] = t.slot[q]
        /\ \A q \in 1..M : pos <= q /\ q < n => DropRec(t, pos, n).slot[q] = t.slot[q+1]
    BY <2>1, <2>2, DropRecEffect
  <2>. QED
    BY <2>3
<1>3. Count(u) = n /\ u.slot = t.slot /\ Sound(u, n) /\ Owned(u, n)
  BY UncutSound
<1>. HIDE DEF w, u
<1>4. Count(w) = n - 1
  BY <1>1, <1>2 DEF Count, BadNum
<1>. DEFINE src(q) == IF q < pos THEN q ELSE q + 1
<1>5. \A q \in 1..(n - 1) : src(q) \in 1..n /\ src(q) # pos /\ w.slot[q] = t.slot[src(q)]
  BY <1>1, <1>2
<1>6. \A q, k \in 1..(n - 1) : src(q) = src(k) => q = k
  BY <1>1
<1>7. \A q \in 1..n : q # pos => \E k \in 1..(n - 1) : src(k) = q
  <2>. SUFFICES ASSUME NEW q \in 1..n, q # pos
                PROVE  \E k \in 1..(n - 1) : src(k) = q
    OBVIOUS
  <2>1. CASE q < pos
    <3>1. q \in 1..(n - 1) /\ src(q) = q
      BY <1>1, <2>1
    <3>. QED
      BY <3>1
  <2>2. CASE ~(q < pos)
    <3>1. q - 1 \in 1..(n - 1) /\ src(q - 1) = q
      BY <1>1, <2>2
    <3>. QED
      BY <3>1
  <2>. QED
    BY <2>1, <2>2
<1>. HIDE DEF src
<1>8. /\ \A q \in 1..n : t.slot[q] \in NetworkRec
      /\ \A q, k \in 1..n : t.slot[q].index = t.slot[k].index => q = k
      /\ \A q \in 1..n : t.slot[q].fields = t.slot[q].protocol
  BY <1>1 DEF Sound, Owned
<1>9. Sound(w, n - 1)
  BY <1>5, <1>6, <1>8 DEF Sound
<1>10. Owned(w, n - 1)
  BY <1>5, <1>8 DEF Owned
<1>11. \A q \in 1..(n - 1) : w.slot[q].index # r.index
  BY <1>1, <1>5, <1>8
<1>12. ASSUME NEW p, NEW j, j # r.index PROVE Seen(w, p, j) = Seen(u, p, j)
  <2>1. Count(u) \in Nat /\ Count(w) \in Nat
    BY <1>1, <1>3, <1>4
  <2>2. \A q \in 1..n : u.slot[q].index = j => \E k \in 1..(n - 1) : w.slot[k] = u.slot[q]
    <3>. SUFFICES ASSUME NEW q \in 1..n, t.slot[q].index = j
                  PROVE  \E k \in 1..(n - 1) : w.slot[k] = t.slot[q]
      BY <1>3
    <3>1. q # pos
      BY <1>1, <1>12
    <3>2. PICK k \in 1..(n - 1) : src(k) = q
      BY <1>7, <3>1
    <3>. QED
      BY <1>5, <3>2
  <2>3. \A k \in 1..(n - 1) : w.slot[k].index = j => \E q \in 1..n : w.slot[k] = u.slot[q]
    BY <1>3, <1>5
  <2>. QED
    BY <1>3, <1>4, <1>9, <1>10, <2>1, <2>2, <2>3, SeenAlike
<1>. QED
  BY <1>4, <1>9, <1>10, <1>11, <1>12 DEF Absent, w, u

\* A record or a piece of it is written behind the last one, or over the
\* one-time network: all that is counted stays there.
LEMMA StoreOver ==
  ASSUME NEW t \in Table, Sound(t, Count(t)), NEW num \in 0..(BOAT_MAX_NETWORK_NUM - 1),
         num = Count(t) \/ (num = 0 /\ Count(t) <= 1), NEW w, w.num = t.num,
         \A k \in 1..num : w.slot[k] = t.slot[k],
         t.slot[num + 1] \in NetworkRec => w.slot[num + 1] \in NetworkRec
  PROVE  /\ Count(w) = Count(t) /\ Sound(w, Count(w))
         /\ num = Count(t) => \A q \in 1..Count(t) : w.slot[q] = t.slot[q]
<1>1. Count(w) = Count(t) /\ Count(t) \in Nat
  BY CountIsNat DEF Count
<1>2. CASE num = Count(t)
  BY <1>1, <1>2 DEF Sound
<1>3. CASE num = 0 /\ Count(t) <= 1 /\ num # Count(t)
  <2>1. Count(t) = 1 /\ num + 1 = 1
    BY <1>1, <1>3
  <2>2. t.slot[1] \in NetworkRec
    BY <2>1 DEF Sound
  <2>3. w.slot[1] \in NetworkRec
    BY <2>1, <2>2
  <2>4. Sound(w, 1)
    BY <2>3 DEF Sound
  <2>. QED
    BY <1>1, <1>3, <2>1, <2>4
<1>. QED
  BY <1>2, <1>3
----------------------------------------------------------------------------
(* Every step keeps GoodState, as long as nothing is misread.              *)

LEMMA NoRead ==
  ASSUME faults \in FaultSet, Calm(faults'.seen)
  PROVE  ~Fault("read") /\ ~Fault("overflow") /\ \A m : ~FlashFault(m, "read")
BY FaultEffect DEF FlashFault, Calm

\* The facts a step starts from.
LEMMA GoodFacts ==
  ASSUME TypeInv, GoodState, NEW m \in BoatStoreType
  PROVE  /\ nw[m] \in Table /\ Sound(nw[m], Count(nw[m])) /\ Count(nw[m]) \in Nat
         /\ m = "FLASH" \/ pc \notin {"nwIndex", "nwData"} \/ ctx.index # 0 =>
              Owned(nw[m], Count(nw[m]))
         /\ m = "RAM" => Count(nw[m]) <= 1
<1>1. nw[m] \in Table
  BY Types
<1>. QED
  BY <1>1, CountIsNat DEF GoodState, TabGood, Patched

\* A step after which no call runs.
LEMMA IdleGood ==
  ASSUME TypeInv, pc' = "idle", built' = built, pre' = Views(nw'),
         \A m \in BoatStoreType : Sound(nw'[m], Count(nw'[m])) /\ Owned(nw'[m], Count(nw'[m])),
         Count(nw'["RAM"]) <= 1
  PROVE  GoodState'
<1>1. TabGood'
  BY DEF TabGood
<1>2. CallInv'
  BY DEF CallInv, StoreLabels, RemoveLabels
<1>3. Views(nw') = [i \in Persistent |-> [p \in built |-> Seen(nw'["FLASH"], p, i)]]
  BY ViewsAreSeen, Types
<1>4. Uncut' = nw'["FLASH"]
  BY DEF Uncut, RemoveLabels
<1>5. ViewInv'
  BY <1>3, <1>4 DEF ViewInv
<1>. QED
  BY <1>1, <1>2, <1>5 DEF GoodState

\* One table is written and the call returns.
LEMMA ReturnGood ==
  ASSUME TypeInv, GoodState, NEW ok, Return(ok), NEW m \in BoatStoreType, NEW w,
         nw' = [nw EXCEPT ![m] = w], Sound(w, Count(w)), Owned(w, Count(w)),
         m = "RAM" => Count(w) <= 1,
         m = "FLASH" => pc \notin {"nwIndex", "nwData"} \/ ctx.index # 0
  PROVE  GoodState'
<1>0. nw \in [BoatStoreType -> Table]
  BY Types
<1>1. ASSUME NEW k \in BoatStoreType
      PROVE  Sound(nw'[k], Count(nw'[k])) /\ Owned(nw'[k], Count(nw'[k]))
  <2>1. CASE k = m
    BY <1>0, <2>1
  <2>2. CASE k # m
    <3>1. nw'[k] = nw[k]
      BY <1>0, <2>2
    <3>2. Owned(nw[k], Count(nw[k])) /\ Sound(nw[k], Count(nw[k]))
      BY <2>2, GoodFacts DEF BoatStoreType
    <3>. QED
      BY <3>1, <3>2
  <2>. QED
    BY <2>1, <2>2
<1>2. Count(nw'["RAM"]) <= 1
  BY <1>0, GoodFacts DEF BoatStoreType
<1>. QED
  BY <1>1, <1>2, IdleGood DEF Return

\* A call gives up.
LEMMA FailGood ==
  ASSUME TypeInv, GoodState, StoreFails, pc \notin {"nwIndex", "nwData"} \/ ctx.index # 0
  PROVE  GoodState'
<1>1. nw' = [nw EXCEPT !["RAM"] = nw["RAM"]] /\ "RAM" \in BoatStoreType
  BY Types DEF StoreFails, BoatStoreType
<1>. QED
  BY <1>1, GoodFacts, ReturnGood DEF StoreFails

LEMMA RefuseGood ==
  ASSUME GoodState, pc = "idle", NEW op, NEW i, Refuse(op, i)
  PROVE  GoodState'
<1>1. UNCHANGED <<built, nw, pc, ctx, pre>>
  BY DEF Refuse
<1>2. TabGood' /\ CallInv'
  BY <1>1 DEF GoodState, TabGood, CallInv, Patched
<1>3. ViewInv'
  BY <1>1 DEF GoodState, ViewInv, Uncut
<1>. QED
  BY <1>2, <1>3 DEF GoodState

\* A call begins: nothing is written yet.
LEMMA BeginGood ==
  ASSUME GoodState, pc = "idle", UNCHANGED <<built, nw, pre>>, pc' \in {"nwProtocol", "nwDel"},
         pc' = "nwProtocol" /\ ctx'.index # 0 => Absent(nw["FLASH"], ctx'.index)
  PROVE  GoodState'
<1>1. TabGood'
  BY DEF GoodState, TabGood, Patched
<1>2. CallInv'
  BY DEF CallInv, StoreLabels, RemoveLabels
<1>3. ViewInv'
  BY DEF GoodState, ViewInv, Uncut, RemoveLabels
<1>. QED
  BY <1>1, <1>2, <1>3 DEF GoodState

LEMMA CreateGood ==
  ASSUME TypeInv, GoodState, NEW p \in AllProtocols, NEW len \in DataLens, NEW m \in BoatStoreType,
         NetworkCreate(p, len, m), Calm(faults'.seen)
  PROVE  GoodState'
<1>. DEFINE t == nw["FLASH"]
            i == LeastFree(Used(t, Count(t)), BOAT_MAX_NETWORK_NUM)
<1>0. pc = "idle" /\ p \in built /\ 0 \in NetworkIndex /\ ~Fault("read") /\ Count(t) \in Nat
  BY NoRead, Types, Maximum, CountIsNat DEF NetworkCreate, NetworkIndex
<1>1. CASE Refuse("create", NoIndex)
  BY <1>0, <1>1, RefuseGood
<1>2. CASE StartCreate(p, 0, len)
  BY <1>0, <1>2, StartCreateType, BeginGood
<1>3. CASE StartCreate(p, i, len) /\ ~(Count(t) >= BOAT_MAX_NETWORK_NUM)
  <2>1. i \in Persistent /\ i \notin Used(t, Count(t))
    BY <1>0, <1>3, FreeIndex, Maximum
  <2>2. Absent(t, i)
    BY <2>1 DEF Absent, Used
  <2>. HIDE DEF i
  <2>3. i \in NetworkIndex
    BY <2>1, Maximum DEF Persistent, NetworkIndex
  <2>4. ctx'.index = i /\ pc' = "nwProtocol" /\ UNCHANGED <<built, nw, pre>>
    BY <1>0, <1>3, <2>3, StartCreateType
  <2>. QED
    BY <1>0, <2>2, <2>4, BeginGood
<1>. QED
  BY <1>0, <1>1, <1>2, <1>3 DEF NetworkCreate, GetFreeNetworkIndex_From_Persistent

LEMMA DeleteGood ==
  ASSUME TypeInv, GoodState, NEW p, NEW i, NetworkDelete(p, i)
  PROVE  GoodState'
<1>0. pc = "idle"
  BY DEF NetworkDelete
<1>1. CASE Refuse("delete", i)
  BY <1>0, <1>1, RefuseGood
<1>2. CASE Goto("nwDel") /\ UNCHANGED nw
  BY <1>0, <1>2, BeginGood DEF Goto
<1>. QED
  BY <1>1, <1>2 DEF NetworkDelete

\* What is counted in the flash table stays, and so does the RAM table unless
\* the one-time network is written.
Kept ==
  /\ ctx'.index = ctx.index
  /\ Count(nw'["FLASH"]) = Count(nw["FLASH"])
  /\ \A q \in 1..Count(nw["FLASH"]) : nw'["FLASH"].slot[q] = nw["FLASH"].slot[q]
  /\ ctx.index # 0 => nw'["RAM"] = nw["RAM"]

\* A piece of a record was written, and the store goes on.
LEMMA GoOnStoring ==
  ASSUME TypeInv, GoodState, pc \in StoreLabels, pc' \in StoreLabels \ {"nwProtocol"},
         UNCHANGED <<built, pre>>, NEW w, nw' = [nw EXCEPT ![Mem(ctx.index)] = w],
         ctx'.index = ctx.index, ctx'.rec = ctx.rec,
         ctx'.num = IF ctx.index = 0 THEN 0 ELSE Count(nw["FLASH"]),
         Count(w) = Count(nw[Mem(ctx.index)]), Sound(w, Count(w)),
         ctx.index # 0 => \A q \in 1..Count(w) : w.slot[q] = nw["FLASH"].slot[q],
         pc' = "nwNum" => w.slot[ctx'.num + 1] = ctx.rec /\ (ctx.index = 0 => Owned(w, Count(w)))
  PROVE  GoodState' /\ Kept
<1>. DEFINE m == Mem(ctx.index)
            t == nw["FLASH"]
<1>0. /\ nw \in [BoatStoreType -> Table] /\ m \in BoatStoreType /\ "FLASH" \in BoatStoreType
      /\ "RAM" \in BoatStoreType /\ (m = "RAM" <=> ctx.index = 0) /\ (m = "FLASH" <=> ctx.index # 0)
  BY Types, MemType DEF BoatStoreType
<1>1. nw'[m] = w /\ \A k \in BoatStoreType : k # m => nw'[k] = nw[k]
  BY <1>0
<1>2. /\ Count(nw'["FLASH"]) = Count(t) /\ Count(t) \in Nat
      /\ \A q \in 1..Count(t) : nw'["FLASH"].slot[q] = t.slot[q]
  BY <1>0, <1>1, GoodFacts
<1>3. Owned(t, Count(t)) /\ (ctx.index # 0 => Absent(t, ctx.index))
  BY <1>0, GoodFacts DEF GoodState, CallInv
<1>4. TabGood'
  <2>1. ASSUME NEW k \in BoatStoreType PROVE Sound(nw'[k], Count(nw'[k]))
    BY <1>1, GoodFacts
  <2>2. Owned(nw'["FLASH"], Count(nw'["FLASH"]))
    BY <1>2, <1>3 DEF Owned
  <2>3. Patched("RAM")' \/ Owned(nw'["RAM"], Count(nw'["RAM"]))
    <3>1. CASE ctx.index = 0 /\ pc' = "nwNum"
      BY <1>0, <1>1, <3>1
    <3>2. CASE ctx.index = 0 /\ pc' # "nwNum"
      BY <3>2 DEF Patched, StoreLabels
    <3>3. CASE ctx.index # 0
      BY <1>0, <1>1, <3>3, GoodFacts
    <3>. QED
      BY <3>1, <3>2, <3>3
  <2>4. Count(nw'["RAM"]) <= 1
    <3>1. Count(nw["RAM"]) <= 1
      BY <1>0, GoodFacts
    <3>. QED
      BY <1>0, <1>1, <3>1
  <2>. QED
    BY <2>1, <2>2, <2>3, <2>4 DEF TabGood, BoatStoreType
<1>5. CallInv'
  <2>1. ctx'.index # 0 => Absent(nw'["FLASH"], ctx'.index)
    BY <1>2, <1>3 DEF Absent
  <2>2. pc' \notin RemoveLabels /\ pc' # "nwLast"
    BY DEF StoreLabels, RemoveLabels
  <2>. QED
    BY <1>1, <1>2, <2>1, <2>2 DEF CallInv
<1>6. ViewInv'
  <2>1. Uncut = t /\ Uncut' = nw'["FLASH"] /\ pc' \notin {"nwLast", "nwRecover"}
    BY DEF Uncut, StoreLabels, RemoveLabels
  <2>2. \A p, i : Seen(nw'["FLASH"], p, i) = Seen(t, p, i)
    BY <1>2, SeenSame
  <2>3. pre = [i \in Persistent |-> [p \in built |-> Seen(t, p, i)]]
    BY <2>1 DEF GoodState, ViewInv
  <2>4. pre' = [i \in Persistent |-> [p \in built' |-> Seen(nw'["FLASH"], p, i)]]
    BY <2>2, <2>3
  <2>. QED
    BY <2>1, <2>4 DEF ViewInv
<1>7. Kept
  BY <1>0, <1>1, <1>2 DEF Kept
<1>. QED
  BY <1>4, <1>5, <1>6, <1>7 DEF GoodState

\* Where a store writes, and what is there.
LEMMA StoreFacts ==
  ASSUME TypeInv, GoodState, pc \in StoreLabels \ {"nwProtocol"}
  PROVE  LET t == nw[Mem(ctx.index)]
         IN  /\ t \in Table /\ Sound(t, Count(t)) /\ Count(t) \in Nat
             /\ ctx.num \in 0..(BOAT_MAX_NETWORK_NUM - 1)
             /\ ctx.num + 1 \in 1..BOAT_MAX_NETWORK_NUM
             /\ ctx.num = IF ctx.index = 0 THEN 0 ELSE Count(nw["FLASH"])
             /\ ctx.num = Count(t) \/ (ctx.num = 0 /\ Count(t) <= 1)
             /\ ctx.index # 0 => ctx.num = Count(t) /\ Mem(ctx.index) = "FLASH"
             /\ ctx.rec \in NetworkRec /\ ctx.rec.index = ctx.index /\ ctx.index \in NetworkIndex
             /\ ctx.rec.fields = ctx.rec.protocol
<1>1. /\ pc # "idle" /\ pc \in {"nwIndex", "nwData", "nwNum"}
      /\ ctx.num \in NetworkIndex /\ ctx.num < BOAT_MAX_NETWORK_NUM
  BY Types DEF StoreLabels, CtxOK, CtxSet
<1>2. ctx.num \in 0..(BOAT_MAX_NETWORK_NUM - 1) /\ ctx.num + 1 \in 1..BOAT_MAX_NETWORK_NUM
  BY <1>1, Maximum DEF NetworkIndex
<1>3. ctx.num = IF ctx.index = 0 THEN 0 ELSE Count(nw["FLASH"])
  BY DEF GoodState, CallInv
<1>4. Mem(ctx.index) \in BoatStoreType /\ Mem(ctx.index) = IF ctx.index = 0 THEN "RAM" ELSE "FLASH"
  BY MemType DEF Mem
<1>. QED
  BY <1>1, <1>2, <1>3, <1>4, GoodFacts, Types DEF CtxOK

LEMMA StoreProtocolGood ==
  ASSUME TypeInv, GoodState, Store_Protocol, Calm(faults'.seen)
  PROVE  GoodState' /\ (pc' # "idle" => Kept)
<1>. DEFINE m == Mem(ctx.index)
            t == nw[m]
            num == IF ctx.index = 0 THEN 0 ELSE Count(nw["FLASH"])
            r == [t.slot[num + 1] EXCEPT !.protocol = ctx.rec.protocol]
            w == PatchRec(t, num + 1, r)
<1>0. /\ pc = "nwProtocol" /\ m \in BoatStoreType /\ m = IF ctx.index = 0 THEN "RAM" ELSE "FLASH"
      /\ ctx.rec \in NetworkRec /\ ctx \in CtxSet
  BY Types, MemType DEF Store_Protocol, CtxOK, Mem
<1>1. CASE StoreFails
  BY <1>0, <1>1, FailGood DEF StoreFails, Return
<1>2. CASE /\ Count(t) < BOAT_MAX_NETWORK_NUM
           /\ nw' = [nw EXCEPT ![m] = w]
           /\ ctx' = [ctx EXCEPT !.num = num]
           /\ Goto("nwIndex")
  <2>1. /\ t \in Table /\ Sound(t, Count(t)) /\ Count(t) \in Nat /\ (ctx.index = 0 => Count(t) <= 1)
    BY <1>0, GoodFacts
  <2>2. /\ num = Count(t) \/ (num = 0 /\ Count(t) <= 1)
        /\ ctx.index # 0 => num = Count(t)
    BY <1>0, <2>1
  <2>3. num \in 0..(BOAT_MAX_NETWORK_NUM - 1) /\ num + 1 \in 1..BOAT_MAX_NETWORK_NUM
    BY <1>2, <2>1, <2>2, Maximum
  <2>4. t.slot[num + 1] \in NetworkRec => r \in NetworkRec
    BY <1>0, Pieces
  <2>. HIDE DEF r, num
  <2>5. /\ w.num = t.num
        /\ \A k \in 1..BOAT_MAX_NETWORK_NUM : k # num + 1 => w.slot[k] = t.slot[k]
        /\ t.slot[num + 1] # NoRec => w.slot[num + 1] = r
    BY <2>1, <2>3, <2>4, PatchEffect
  <2>. HIDE DEF w
  <2>6. t.slot[num + 1] \in NetworkRec => w.slot[num + 1] \in NetworkRec
    BY <2>4, <2>5, RecAssumption
  <2>7. \A k \in 1..num : w.slot[k] = t.slot[k]
    BY <2>3, <2>5, Maximum
  <2>8. Count(w) = Count(t) /\ Sound(w, Count(w)) /\ (num = Count(t) => \A q \in 1..Count(t) : w.slot[q] = t.slot[q])
    BY <2>1, <2>2, <2>3, <2>5, <2>6, <2>7, StoreOver
  <2>9. ctx'.index = ctx.index /\ ctx'.rec = ctx.rec /\ ctx'.num = num
    BY <1>0, <1>2 DEF CtxSet
  <2>10. pc \in StoreLabels /\ pc' \in StoreLabels \ {"nwProtocol"} /\ pc' # "nwNum"
         /\ UNCHANGED <<built, pre>>
    BY <1>0, <1>2 DEF Goto, StoreLabels
  <2>11. ctx.index # 0 => \A q \in 1..Count(w) : w.slot[q] = nw["FLASH"].slot[q]
    BY <1>0, <2>2, <2>8
  <2>12. ctx'.num = IF ctx.index = 0 THEN 0 ELSE Count(nw["FLASH"])
    BY <2>9 DEF num
  <2>. QED
    BY <1>2, <2>8, <2>9, <2>10, <2>11, <2>12, GoOnStoring
<1>3. ASSUME NEW n \in {0, Count(t)}, n < BOAT_MAX_NETWORK_NUM,
             n = Count(t) \/ FlashFault(m, "read"),
             LET base == IF m = "RAM" THEN 0 ELSE n
                 x == [t.slot[base + 1] EXCEPT !.protocol = ctx.rec.protocol]
             IN  /\ nw' = [nw EXCEPT ![m] = PatchRec(t, base + 1, x)]
                 /\ ctx' = [ctx EXCEPT !.num = base],
             Goto("nwIndex")
      PROVE  GoodState' /\ (pc' # "idle" => Kept)
  <2>1. n = Count(t)
    BY <1>3, NoRead, Types
  <2>2. (IF m = "RAM" THEN 0 ELSE n) = num
    BY <1>0, <2>1
  <2>3. nw' = [nw EXCEPT ![m] = w] /\ ctx' = [ctx EXCEPT !.num = num]
    BY <1>3, <2>2
  <2>. HIDE DEF w, num, r
  <2>. QED
    BY <1>2, <1>3, <2>1, <2>3
<1>. HIDE DEF w, num, r
<1>. QED
  BY <1>1, <1>3 DEF Store_Protocol
LEMMA StoreIndexGood ==
  ASSUME TypeInv, GoodState, Store_Index
  PROVE  GoodState' /\ (pc' # "idle" => Kept)
<1>. DEFINE m == Mem(ctx.index)
            t == nw[m]
            num == ctx.num
            r == [t.slot[num + 1] EXCEPT !.index = ctx.index]
            w == PatchRec(t, num + 1, r)
<1>0. pc = "nwIndex" /\ pc \in StoreLabels \ {"nwProtocol"} /\ (m = "FLASH" => ctx.index # 0)
  BY MemType DEF Store_Index, StoreLabels
<1>1. CASE FlashFault(m, "write") /\ StoreFails
  BY <1>0, <1>1, FailGood DEF FlashFault, StoreFails, Return
<1>2. CASE nw' = [nw EXCEPT ![m] = w] /\ Goto("nwData") /\ UNCHANGED ctx
  <2>1. /\ t \in Table /\ Sound(t, Count(t)) /\ Count(t) \in Nat
        /\ num \in 0..(BOAT_MAX_NETWORK_NUM - 1) /\ num + 1 \in 1..BOAT_MAX_NETWORK_NUM
        /\ num = IF ctx.index = 0 THEN 0 ELSE Count(nw["FLASH"])
        /\ num = Count(t) \/ (num = 0 /\ Count(t) <= 1)
        /\ ctx.index # 0 => num = Count(t) /\ m = "FLASH"
        /\ ctx.index \in NetworkIndex
    BY <1>0, StoreFacts
  <2>2. t.slot[num + 1] \in NetworkRec => r \in NetworkRec
    BY <2>1 DEF NetworkRec
  <2>. HIDE DEF r, num
  <2>3. /\ w.num = t.num
        /\ \A k \in 1..BOAT_MAX_NETWORK_NUM : k # num + 1 => w.slot[k] = t.slot[k]
        /\ t.slot[num + 1] # NoRec => w.slot[num + 1] = r
    BY <2>1, <2>2, PatchEffect
  <2>. HIDE DEF w
  <2>4. t.slot[num + 1] \in NetworkRec => w.slot[num + 1] \in NetworkRec
    BY <2>2, <2>3, RecAssumption
  <2>5. \A k \in 1..num : w.slot[k] = t.slot[k]
    BY <2>1, <2>3, Maximum
  <2>6. /\ Count(w) = Count(t) /\ Sound(w, Count(w))
        /\ num = Count(t) => \A q \in 1..Count(t) : w.slot[q] = t.slot[q]
    BY <2>1, <2>3, <2>4, <2>5, StoreOver
  <2>7. ctx'.index = ctx.index /\ ctx'.rec = ctx.rec /\ ctx'.num = num
    BY <1>2 DEF num
  <2>8. pc \in StoreLabels /\ pc' \in StoreLabels \ {"nwProtocol"} /\ pc' # "nwNum"
        /\ UNCHANGED <<built, pre>>
    BY <1>0, <1>2 DEF Goto, StoreLabels
  <2>9. ctx.index # 0 => \A q \in 1..Count(w) : w.slot[q] = nw["FLASH"].slot[q]
    BY <2>1, <2>6
  <2>. QED
    BY <1>2, <2>1, <2>6, <2>7, <2>8, <2>9, GoOnStoring
<1>. QED
  BY <1>1, <1>2 DEF Store_Index

LEMMA StoreDataGood ==
  ASSUME TypeInv, GoodState, Store_Data, Calm(faults'.seen)
  PROVE  GoodState' /\ (pc' # "idle" => Kept)
<1>. DEFINE m == Mem(ctx.index)
            t == nw[m]
            num == ctx.num
            w == WriteRec(t, num + 1, ctx.rec)
<1>0. /\ pc = "nwData" /\ pc \in StoreLabels \ {"nwProtocol"} /\ (m = "FLASH" => ctx.index # 0)
      /\ ~Fault("overflow")
  BY MemType, NoRead, Types DEF Store_Data, StoreLabels
<1>1. CASE FlashFault(m, "write") /\ StoreFails
  BY <1>0, <1>1, FailGood DEF FlashFault, StoreFails, Return
<1>2. CASE nw' = [nw EXCEPT ![m] = w] /\ Goto("nwNum") /\ UNCHANGED ctx
  <2>1. /\ t \in Table /\ Sound(t, Count(t)) /\ Count(t) \in Nat
        /\ num \in 0..(BOAT_MAX_NETWORK_NUM - 1) /\ num + 1 \in 1..BOAT_MAX_NETWORK_NUM
        /\ num = IF ctx.index = 0 THEN 0 ELSE Count(nw["FLASH"])
        /\ num = Count(t) \/ (num = 0 /\ Count(t) <= 1)
        /\ ctx.index # 0 => num = Count(t) /\ m = "FLASH"
        /\ ctx.rec \in NetworkRec /\ ctx.rec.fields = ctx.rec.protocol
    BY <1>0, StoreFacts
  <2>. HIDE DEF num
  <2>2. /\ w.num = t.num /\ w.slot[num + 1] = ctx.rec
        /\ \A k \in 1..num : w.slot[k] = t.slot[k]
    <3>1. /\ num + 1 \in 1..BOAT_MAX_NETWORK_NUM /\ t \in TableOf(BOAT_MAX_NETWORK_NUM, NetworkRec)
          /\ ctx.rec \in NetworkRec \cup {NoRec} /\ (num + 1) - 1 = num /\ BOAT_MAX_NETWORK_NUM \in Nat
      BY <2>1, Maximum DEF Table
    <3>2. \A k \in 1..((num + 1) - 1) : w.slot[k] = t.slot[k]
      BY <3>1, WriteRecEffect
    <3>3. w.num = t.num /\ w.slot[num + 1] = ctx.rec
      BY <3>1, WriteRecEffect
    <3>. QED
      BY <3>1, <3>2, <3>3
  <2>. HIDE DEF w
  <2>3. /\ Count(w) = Count(t) /\ Sound(w, Count(w))
        /\ num = Count(t) => \A q \in 1..Count(t) : w.slot[q] = t.slot[q]
    BY <2>1, <2>2, StoreOver
  <2>4. ctx.index = 0 => Owned(w, Count(w))
    BY <2>1, <2>2, <2>3 DEF Owned
  <2>5. ctx'.index = ctx.index /\ ctx'.rec = ctx.rec /\ ctx'.num = num
    BY <1>2 DEF num
  <2>6. pc \in StoreLabels /\ pc' \in StoreLabels \ {"nwProtocol"} /\ UNCHANGED <<built, pre>>
    BY <1>0, <1>2 DEF Goto, StoreLabels
  <2>7. ctx.index # 0 => \A q \in 1..Count(w) : w.slot[q] = nw["FLASH"].slot[q]
    BY <2>1, <2>3
  <2>. QED
    BY <1>2, <2>1, <2>2, <2>3, <2>4, <2>5, <2>6, <2>7, GoOnStoring
<1>. QED
  BY <1>0, <1>1, <1>2 DEF Store_Data

\* The last write of a store: the new network is read by its protocol, and all
\* else as before.
LEMMA StoreNumWrites ==
  ASSUME TypeInv, GoodState, pc = "nwNum"
  PROVE  LET t == nw[Mem(ctx.index)]
             w == WriteNum(t, ctx.num + 1)
         IN  /\ Sound(w, Count(w)) /\ Owned(w, Count(w)) /\ (ctx.index = 0 => Count(w) <= 1)
             /\ \A p : Seen(w, p, ctx.index) = IF ctx.rec.protocol = p THEN ctx.rec ELSE NoRec
             /\ ctx.index # 0 => \A p, j : j # ctx.index => Seen(w, p, j) = Seen(nw["FLASH"], p, j)
<1>. DEFINE t == nw[Mem(ctx.index)]
            num == ctx.num
            w == WriteNum(t, num + 1)
<1>0. /\ t \in Table /\ Sound(t, Count(t)) /\ Count(t) \in Nat
      /\ num \in 0..(BOAT_MAX_NETWORK_NUM - 1)
      /\ num = IF ctx.index = 0 THEN 0 ELSE Count(nw["FLASH"])
      /\ ctx.index # 0 => num = Count(t) /\ Mem(ctx.index) = "FLASH"
      /\ ctx.rec \in NetworkRec /\ ctx.rec.index = ctx.index /\ ctx.rec.fields = ctx.rec.protocol
  BY StoreFacts DEF StoreLabels
<1>1. t.slot[num + 1] = ctx.rec /\ (ctx.index # 0 => Absent(nw["FLASH"], ctx.index))
  BY DEF GoodState, CallInv, StoreLabels
<1>2. Owned(t, Count(t))
  BY MemType, GoodFacts
<1>3. Sound(t, num) /\ Owned(t, num) /\ \A q \in 1..num : t.slot[q].index # ctx.rec.index
  <2>1. CASE ctx.index = 0
    BY <1>0, <2>1 DEF Sound, Owned
  <2>2. CASE ctx.index # 0
    BY <1>0, <1>1, <1>2, <2>2 DEF Absent
  <2>. QED
    BY <2>1, <2>2
<1>4. /\ Count(w) = num + 1 /\ Sound(w, num + 1) /\ Owned(w, num + 1)
      /\ \A p : Seen(w, p, ctx.rec.index) = IF ctx.rec.protocol = p THEN ctx.rec ELSE NoRec
  BY <1>0, <1>1, <1>3, CountIn
<1>5. w.slot = t.slot
  BY DEF WriteNum
<1>. HIDE DEF w, num
<1>6. Sound(w, Count(w)) /\ Owned(w, Count(w)) /\ (ctx.index = 0 => Count(w) <= 1)
  BY <1>0, <1>4
<1>7. ASSUME ctx.index # 0, NEW p, NEW j, j # ctx.index
      PROVE  Seen(w, p, j) = Seen(t, p, j)
  <2>1. /\ num = Count(t) /\ Count(w) = Count(t) + 1 /\ Count(t) < BOAT_MAX_NETWORK_NUM
        /\ t.slot[Count(t) + 1].index # j
    BY <1>0, <1>1, <1>4, <1>7, Maximum
  <2>. QED
    BY <1>0, <1>2, <1>5, <1>6, <2>1, CountInOthers
<1>. QED
  BY <1>0, <1>4, <1>6, <1>7 DEF w, num

LEMMA StoreNumGood ==
  ASSUME TypeInv, GoodState, Store_Num
  PROVE  GoodState'
<1>. DEFINE m == Mem(ctx.index)
            w == WriteNum(nw[m], ctx.num + 1)
<1>0. pc = "nwNum" /\ m \in BoatStoreType /\ (m = "RAM" <=> ctx.index = 0)
  BY MemType DEF Store_Num
<1>1. Sound(w, Count(w)) /\ Owned(w, Count(w)) /\ (ctx.index = 0 => Count(w) <= 1)
  BY <1>0, StoreNumWrites
<1>. HIDE DEF w
<1>2. CASE nw' = [nw EXCEPT ![m] = w] /\ Return(TRUE)
  BY <1>0, <1>1, <1>2, ReturnGood
<1>3. CASE StoreFails
  BY <1>0, <1>3, FailGood
<1>. QED
  BY <1>2, <1>3 DEF Store_Num, w

LEMMA OnetimeGood ==
  ASSUME TypeInv, GoodState, Delete_Onetime
  PROVE  GoodState'
<1>. DEFINE w == WriteNum(nw["RAM"], BadNum)
<1>1. Count(w) = 0
  BY DEF WriteNum, Count
<1>. HIDE DEF w
<1>2. Sound(w, Count(w)) /\ Owned(w, Count(w)) /\ Count(w) <= 1 /\ "RAM" \in BoatStoreType /\ pc = "nwDel"
  BY <1>1 DEF Sound, Owned, BoatStoreType, Delete_Onetime
<1>3. CASE nw' = [nw EXCEPT !["RAM"] = w] /\ Return(TRUE)
  BY <1>2, <1>3, ReturnGood
<1>4. CASE StoreFails
  BY <1>2, <1>4, FailGood
<1>. QED
  BY <1>3, <1>4 DEF Delete_Onetime, w

\* A delete is under way, and the flash table is w.
LEMMA GoOnRemoving ==
  ASSUME TypeInv, GoodState, pc \in {"nwDel", "nwTail"}, pc' \in RemoveLabels,
         UNCHANGED <<built, pre>>, NEW w, nw' = [nw EXCEPT !["FLASH"] = w],
         Sound(w, Count(w)), Owned(w, Count(w)),
         Removing(w, ctx'.rec, ctx'.num, ctx'.pos), pc' = "nwLast" => ctx'.pos = ctx'.num,
         \A p, i : Seen(WriteNum(w, ctx'.num), p, i) = Seen(Uncut, p, i),
         pc' \in {"nwLast", "nwRecover"} => faults'.left < MaxFaults
  PROVE  GoodState'
<1>0. /\ nw \in [BoatStoreType -> Table] /\ "FLASH" \in BoatStoreType /\ "RAM" \in BoatStoreType
  BY Types DEF BoatStoreType
<1>1. nw'["FLASH"] = w /\ nw'["RAM"] = nw["RAM"]
  BY <1>0
<1>2. TabGood'
  <2>1. /\ Sound(nw["RAM"], Count(nw["RAM"])) /\ Owned(nw["RAM"], Count(nw["RAM"]))
        /\ Count(nw["RAM"]) <= 1
    BY <1>0, GoodFacts
  <2>. QED
    BY <1>1, <2>1 DEF TabGood, BoatStoreType
<1>3. CallInv'
  BY <1>1 DEF CallInv, StoreLabels, RemoveLabels
<1>4. ViewInv'
  <2>1. Uncut' = WriteNum(w, ctx'.num)
    BY <1>1 DEF Uncut
  <2>2. pre = [i \in Persistent |-> [p \in built |-> Seen(Uncut, p, i)]]
    BY DEF GoodState, ViewInv
  <2>3. pre' = [i \in Persistent |-> [p \in built' |-> Seen(WriteNum(w, ctx'.num), p, i)]]
    BY <2>2
  <2>. QED
    BY <2>1, <2>3 DEF ViewInv
<1>. QED
  BY <1>2, <1>3, <1>4 DEF GoodState

LEMMA DeleteNumGood ==
  ASSUME TypeInv, GoodState, Delete_Num
  PROVE  GoodState'
<1>. DEFINE t == nw["FLASH"]
            S == FoundNetwork(t, Count(t), ctx.rec.protocol, ctx.index)
            n == Count(t)
            f == FirstOf(S)
            w == WriteNum(t, n - 1)
<1>0. pc = "nwDel" /\ "FLASH" \in BoatStoreType /\ ctx \in CtxSet /\ ctx.rec.index = ctx.index
  BY Types DEF Delete_Num, BoatStoreType, CtxOK
<1>1. CASE S # {} /\ nw' = [nw EXCEPT !["FLASH"] = w] /\ ctx' = [ctx EXCEPT !.num = n, !.pos = f]
           /\ Goto("nwTail")
  <2>1. t \in Table /\ Sound(t, Count(t)) /\ Owned(t, Count(t))
    BY <1>0, GoodFacts
  <2>2. /\ Sound(w, Count(w)) /\ Owned(w, Count(w)) /\ Removing(w, ctx.rec, n, f)
        /\ \A p, j : Seen(WriteNum(w, n), p, j) = Seen(t, p, j)
    BY <1>0, <1>1, <2>1, CountOut
  <2>. HIDE DEF w, n, f
  <2>3. ctx'.num = n /\ ctx'.pos = f /\ ctx'.rec = ctx.rec
    BY <1>0, <1>1 DEF CtxSet
  <2>4. pc' = "nwTail" /\ UNCHANGED <<built, pre>>
    BY <1>1 DEF Goto
  <2>5. Uncut = t
    BY <1>0 DEF Uncut, RemoveLabels
  <2>. QED
    BY <1>0, <1>1, <2>2, <2>3, <2>4, <2>5, GoOnRemoving DEF RemoveLabels
<1>2. CASE StoreFails
  BY <1>0, <1>2, FailGood
<1>. HIDE DEF w, n, f
<1>. QED
  BY <1>1, <1>2 DEF Delete_Num, w, n, f

\* What is known of the flash table while a network is removed, and what the
\* two ways to finish write.
LEMMA RemoveWrites ==
  ASSUME TypeInv, GoodState, pc \in RemoveLabels
  PROVE  LET t == nw["FLASH"]
             w == DropRec(t, ctx.pos, ctx.num)
             u == WriteNum(t, ctx.num)
         IN  /\ Removing(t, ctx.rec, ctx.num, ctx.pos)
             /\ Sound(w, Count(w)) /\ Owned(w, Count(w)) /\ Absent(w, ctx.index)
             /\ \A p, j : j # ctx.index => Seen(w, p, j) = Seen(u, p, j)
             /\ Sound(u, Count(u)) /\ Owned(u, Count(u)) /\ Uncut = u
             /\ pc = "nwLast" => ctx.pos = ctx.num
<1>1. /\ Removing(nw["FLASH"], ctx.rec, ctx.num, ctx.pos) /\ (pc = "nwLast" => ctx.pos = ctx.num)
      /\ Uncut = WriteNum(nw["FLASH"], ctx.num)
  BY DEF GoodState, CallInv, Uncut
<1>2. /\ nw["FLASH"] \in Table /\ ctx.num \in NetworkIndex /\ ctx.pos \in NetworkIndex
      /\ ctx.rec.index = ctx.index
  BY Types DEF CtxSet, CtxOK, RemoveLabels
<1>. QED
  BY <1>1, <1>2, DropOut, UncutSound

LEMMA TailGood ==
  ASSUME TypeInv, GoodState, Delete_Tail, Calm(faults'.seen)
  PROVE  GoodState'
<1>. DEFINE t == nw["FLASH"]
            w == DropRec(t, ctx.pos, ctx.num)
<1>0. pc = "nwTail" /\ pc \in RemoveLabels /\ "FLASH" \in BoatStoreType /\ faults \in FaultSet
  BY Types DEF Delete_Tail, RemoveLabels, BoatStoreType
<1>1. /\ Removing(t, ctx.rec, ctx.num, ctx.pos) /\ Uncut = WriteNum(t, ctx.num)
      /\ Sound(w, Count(w)) /\ Owned(w, Count(w))
  BY <1>0, RemoveWrites
<1>. HIDE DEF w
<1>2. CASE nw' = [nw EXCEPT !["FLASH"] = w] /\ Return(TRUE)
  BY <1>0, <1>1, <1>2, ReturnGood
<1>3. CASE /\ Fault("write") /\ UNCHANGED <<nw, ctx>>
           /\ Goto(IF ctx.pos = ctx.num THEN "nwLast" ELSE "nwRecover")
  <2>1. /\ pc' \in {"nwLast", "nwRecover"} /\ UNCHANGED <<built, pre>>
        /\ (pc' = "nwLast" => ctx.pos = ctx.num)
    BY <1>3 DEF Goto
  <2>2. faults'.left < MaxFaults
    <3>1. faults'.left = faults.left - 1 /\ faults.left \in 0..MaxFaults /\ MaxFaults \in Nat
      BY <1>0, <1>3, FaultEffect, FaultAssumption DEF FaultSet
    <3>. QED
      BY <3>1
  <2>3. nw' = [nw EXCEPT !["FLASH"] = t]
    BY <1>3, Types
  <2>4. Sound(t, Count(t)) /\ Owned(t, Count(t))
    BY <1>0, GoodFacts
  <2>. QED
    BY <1>0, <1>1, <1>3, <2>1, <2>2, <2>3, <2>4, GoOnRemoving DEF RemoveLabels
<1>4. CASE StoreFails
  BY <1>0, <1>4, FailGood
<1>. QED
  BY <1>2, <1>3, <1>4 DEF Delete_Tail, w

LEMMA RecoverGood ==
  ASSUME TypeInv, GoodState, Delete_RecoverLast \/ Delete_Recover
  PROVE  GoodState'
<1>. DEFINE t == nw["FLASH"]
            w == DropRec(t, ctx.pos, ctx.num)
            u == WriteNum(t, ctx.num)
<1>0. /\ pc \in {"nwLast", "nwRecover"} /\ pc \in RemoveLabels /\ "FLASH" \in BoatStoreType
  BY DEF Delete_RecoverLast, Delete_Recover, RemoveLabels, BoatStoreType
<1>1. /\ Sound(w, Count(w)) /\ Owned(w, Count(w)) /\ (pc = "nwLast" => ctx.pos = ctx.num)
      /\ Sound(u, Count(u)) /\ Owned(u, Count(u))
  BY <1>0, RemoveWrites
<1>2. CASE Delete_RecoverLast
  <2>1. (nw' = [nw EXCEPT !["FLASH"] = w] /\ Return(TRUE)) \/ StoreFails
    BY <1>1, <1>2 DEF Delete_RecoverLast
  <2>. HIDE DEF w
  <2>. QED
    BY <1>0, <1>1, <2>1, ReturnGood, FailGood
<1>3. CASE Delete_Recover
  <2>1. (nw' = [nw EXCEPT !["FLASH"] = u] /\ Return(FALSE)) \/ StoreFails
    BY <1>3 DEF Delete_Recover, StoreFails
  <2>. HIDE DEF u
  <2>. QED
    BY <1>0, <1>1, <2>1, ReturnGood, FailGood
<1>. QED
  BY <1>2, <1>3

LEMMA RebootGood ==
  ASSUME TypeInv, GoodState, PowerCycle \/ Crash
  PROVE  GoodState'
<1>. DEFINE b == BlankTable(BOAT_MAX_NETWORK_NUM)
<1>0. /\ nw \in [BoatStoreType -> Table] /\ "FLASH" \in BoatStoreType /\ "RAM" \in BoatStoreType
  BY Types DEF BoatStoreType
<1>1. Count(b) = 0
  BY BlankIsTable, Maximum
<1>. HIDE DEF b
<1>2. Sound(b, Count(b)) /\ Owned(b, Count(b)) /\ Count(b) <= 1
  BY <1>1 DEF Sound, Owned
<1>3. built' = built /\ pc' = "idle" /\ pre' = Views(nw') /\ nw' = [nw EXCEPT !["RAM"] = b]
  BY DEF PowerCycle, Crash, Reboot, b
<1>4. nw'["RAM"] = b /\ nw'["FLASH"] = nw["FLASH"]
  BY <1>0, <1>3
<1>5. Sound(nw["FLASH"], Count(nw["FLASH"])) /\ Owned(nw["FLASH"], Count(nw["FLASH"]))
  BY <1>0, GoodFacts
<1>. QED
  BY <1>2, <1>3, <1>4, <1>5, IdleGood DEF BoatStoreType

----------------------------------------------------------------------------

\* What went wrong is not forgotten.
LEMMA SeenGrows ==
  ASSUME TypeInv, [Next]_vars
  PROVE  faults.seen \subseteq faults'.seen
<1>0. faults \in FaultSet
  BY Types
<1>1. UNCHANGED faults => faults.seen \subseteq faults'.seen
  OBVIOUS
<1>2. \A kind : Fault(kind) => faults.seen \subseteq faults'.seen
  BY <1>0, FaultEffect
<1>3. \A m, kind : FlashFault(m, kind) => faults.seen \subseteq faults'.seen
  BY <1>2 DEF FlashFault
<1>4. CASE Begins
  BY <1>1, <1>2, <1>4 DEF Begins, NetworkCreate, NetworkDelete, GetFreeNetworkIndex_From_Persistent
<1>5. CASE StoreStep
  BY <1>1, <1>2, <1>3, <1>5 DEF StoreStep, Store_Protocol, Store_Index, Store_Data, Store_Num
<1>6. CASE DeleteStep
  BY <1>1, <1>2, <1>6
     DEF DeleteStep, Delete_Onetime, Delete_Num, Delete_Tail, Delete_RecoverLast, Delete_Recover
<1>7. CASE PowerCycle \/ Crash
  BY <1>1, <1>2, <1>7 DEF PowerCycle, Crash
<1>8. CASE UNCHANGED vars
  BY <1>8 DEF vars
<1>. QED
  BY <1>4, <1>5, <1>6, <1>7, <1>8, NextCases

LEMMA GoodStep ==
  ASSUME TypeInv, GoodState, [Next]_vars, Calm(faults'.seen)
  PROVE  GoodState'
<1>1. CASE UNCHANGED vars
  BY <1>1 DEF vars, GoodState, TabGood, Patched, CallInv, ViewInv, Uncut
<1>2. CASE Begins
  BY <1>2, CreateGood, DeleteGood DEF Begins
<1>3. CASE StoreStep
  BY <1>3, StoreProtocolGood, StoreIndexGood, StoreDataGood, StoreNumGood DEF StoreStep
<1>4. CASE DeleteStep
  BY <1>4, OnetimeGood, DeleteNumGood, TailGood, RecoverGood DEF DeleteStep
<1>5. CASE PowerCycle \/ Crash
  BY <1>5, RebootGood
<1>. QED
  BY <1>1, <1>2, <1>3, <1>4, <1>5, NextCases

LEMMA SoundInit == Init => SoundInv
<1>. SUFFICES ASSUME Init PROVE GoodState
  BY DEF SoundInv
<1>. DEFINE b == BlankTable(BOAT_MAX_NETWORK_NUM)
<1>1. Count(b) = 0
  BY BlankIsTable, Maximum
<1>. HIDE DEF b
<1>2. Sound(b, Count(b)) /\ Owned(b, Count(b)) /\ Count(b) <= 1 /\ \A p, i : Seen(b, p, i) = NoRec
  BY <1>1, SeenAbsent DEF Sound, Owned, Absent
<1>3. nw = [m \in BoatStoreType |-> b] /\ pc = "idle"
      /\ pre = [i \in Persistent |-> [p \in built |-> NoRec]]
  BY DEF Init, b
<1>4. nw["RAM"] = b /\ nw["FLASH"] = b
  BY <1>3 DEF BoatStoreType
<1>5. TabGood /\ CallInv
  BY <1>2, <1>3, <1>4 DEF TabGood, CallInv, BoatStoreType, StoreLabels, RemoveLabels
<1>6. Uncut = b
  BY <1>3, <1>4 DEF Uncut, RemoveLabels
<1>7. ViewInv
  BY <1>2, <1>3, <1>6 DEF ViewInv
<1>. QED
  BY <1>5, <1>7 DEF GoodState

LEMMA SoundStep == TypeInv /\ SoundInv /\ [Next]_vars => SoundInv'
<1>. SUFFICES ASSUME TypeInv, SoundInv, [Next]_vars, Calm(faults'.seen)
              PROVE  GoodState'
  BY DEF SoundInv
<1>1. Calm(faults.seen)
  BY SeenGrows DEF Calm
<1>. QED
  BY <1>1, GoodStep DEF SoundInv

\* The header of the table the ten protocols share never counts in a network
\* that is not there, no two networks have one index, and between calls each
\* was written by the protocol it names, in whichever order the protocols
\* create and delete and wherever writes and allocations fail or power is cut.
THEOREM NetworkTablesSound == Spec => []TablesSound
<1>1. ASSUME SoundInv PROVE TablesSound
  <2>. SUFFICES ASSUME Calm(faults.seen), NEW m \in BoatStoreType
                PROVE  /\ \A q \in 1..Count(nw[m]) : nw[m].slot[q] # NoRec
                       /\ \A q, r \in 1..Count(nw[m]) : nw[m].slot[q].index = nw[m].slot[r].index => q = r
                       /\ pc = "idle" => \A q \in 1..Count(nw[m]) : nw[m].slot[q].fields = nw[m].slot[q].protocol
    BY DEF TablesSound, Calm
  <2>1. Sound(nw[m], Count(nw[m])) /\ (pc = "idle" => Owned(nw[m], Count(nw[m])))
    BY <1>1 DEF SoundInv, GoodState, TabGood, Patched
  <2>. QED
    BY <2>1, RecAssumption DEF Sound, Owned
<1>. QED
  BY <1>1, TypeInit, TypeStep, SoundInit, SoundStep, PTL DEF Spec
----------------------------------------------------------------------------
(* What the calls promise.                                                 *)

\* How a call can end, as long as nothing is misread.
LEMMA Endings ==
  ASSUME TypeInv, GoodState, [Next]_vars, pc # "idle", pc' = "idle", Calm(faults'.seen)
  PROVE  \/ /\ pc = "nwNum" /\ Return(TRUE)
            /\ nw' = [nw EXCEPT ![Mem(ctx.index)] = WriteNum(nw[Mem(ctx.index)], ctx.num + 1)]
         \/ /\ pc \in RemoveLabels /\ Return(TRUE)
            /\ nw' = [nw EXCEPT !["FLASH"] = DropRec(nw["FLASH"], ctx.pos, ctx.num)]
         \/ /\ pc = "nwRecover" /\ Return(FALSE)
            /\ nw' = [nw EXCEPT !["FLASH"] = WriteNum(nw["FLASH"], ctx.num)]
         \/ pc \notin RemoveLabels /\ StoreFails
         \/ pc \in RemoveLabels /\ StoreFails /\ Fault("internal")
         \/ pc \in {"nwLast", "nwRecover"} /\ StoreFails /\ Fault("write")
         \/ /\ pc = "nwDel" /\ ctx.index = 0 /\ Return(TRUE)
            /\ nw' = [nw EXCEPT !["RAM"] = WriteNum(nw["RAM"], BadNum)]
         \/ Crash
<1>0. ~Fault("read")
  BY NoRead, Types
<1>1. \A l : Goto(l) => pc' = l
  BY DEF Goto
<1>2. CASE Begins \/ PowerCycle \/ UNCHANGED vars
  BY <1>2 DEF Begins, NetworkCreate, NetworkDelete, PowerCycle, vars
<1>3. CASE StoreStep
  <2>1. pc \in StoreLabels /\ pc \notin RemoveLabels
    BY <1>3 DEF StoreStep, Store_Protocol, Store_Index, Store_Data, Store_Num, StoreLabels, RemoveLabels
  <2>2. StoreFails \/ Store_Num
    BY <1>1, <1>3 DEF StoreStep, Store_Protocol, Store_Index, Store_Data
  <2>. QED
    BY <2>1, <2>2 DEF Store_Num
<1>4. CASE Delete_Onetime \/ Delete_Num
  <2>1. pc = "nwDel" /\ pc \notin RemoveLabels
    BY <1>4 DEF Delete_Onetime, Delete_Num, RemoveLabels
  <2>. QED
    BY <1>1, <1>4, <2>1 DEF Delete_Onetime, Delete_Num
<1>5. CASE Delete_Tail
  <2>1. pc = "nwTail" /\ pc \in RemoveLabels
    BY <1>5 DEF Delete_Tail, RemoveLabels
  <2>2. ~Goto(IF ctx.pos = ctx.num THEN "nwLast" ELSE "nwRecover")
    BY DEF Goto
  <2>. QED
    BY <1>0, <1>5, <2>1, <2>2 DEF Delete_Tail
<1>6. CASE Delete_RecoverLast
  <2>1. pc = "nwLast" /\ pc \in RemoveLabels
    BY <1>6 DEF Delete_RecoverLast, RemoveLabels
  <2>2. ctx.pos = ctx.num
    BY <2>1, RemoveWrites
  <2>. QED
    BY <1>6, <2>1, <2>2 DEF Delete_RecoverLast
<1>7. CASE Delete_Recover
  BY <1>7 DEF Delete_Recover, StoreFails
<1>. QED
  BY <1>2, <1>3, <1>4, <1>5, <1>6, <1>7, NextCases DEF DeleteStep

\* After at most one failed write, and nothing else, a call has not met a
\* second one.
LEMMA OneWrite ==
  ASSUME TypeInv, GoodState, Only({"write"})'
  PROVE  /\ ~Fault("internal") /\ ~Fault("crash")
         /\ pc \in {"nwLast", "nwRecover"} => ~Fault("write")
         /\ Calm(faults'.seen)
<1>0. faults \in FaultSet /\ MaxFaults \in Nat
  BY Types, FaultAssumption
<1>1. faults'.seen \subseteq {"write"} /\ faults'.left + 1 >= MaxFaults
  BY DEF Only
<1>2. \A kind : Fault(kind) => kind \in faults'.seen
  BY <1>0, FaultEffect
<1>3. ~Fault("internal") /\ ~Fault("crash")
  BY <1>1, <1>2
<1>4. ASSUME pc \in {"nwLast", "nwRecover"}, Fault("write") PROVE FALSE
  <2>1. faults.left < MaxFaults /\ faults.left \in 0..MaxFaults
    BY <1>0, <1>4 DEF GoodState, ViewInv, FaultSet
  <2>2. faults'.left = faults.left - 1
    BY <1>0, <1>4, FaultEffect
  <2>. QED
    BY <1>0, <1>1, <2>1, <2>2
<1>. QED
  BY <1>1, <1>3, <1>4 DEF Calm

\* What was read before the call began.
LEMMA BeforeCall ==
  ASSUME TypeInv, GoodState, NEW j \in Persistent
  PROVE  /\ pre[j] = [p \in built |-> Seen(Uncut, p, j)]
         /\ pc \notin RemoveLabels => Uncut = nw["FLASH"]
         /\ Views(nw')[j] = [p \in built |-> Seen(nw'["FLASH"], p, j)]
<1>1. pre = [i \in Persistent |-> [p \in built |-> Seen(Uncut, p, i)]]
  BY DEF GoodState, ViewInv
<1>2. Views(nw') = [i \in Persistent |-> [p \in built |-> Seen(nw'["FLASH"], p, i)]]
  BY ViewsAreSeen, Types
<1>. QED
  BY <1>1, <1>2 DEF Uncut

\* The flash table at the end of a call with at most one failed write reads as
\* before at all other indices.
LEMMA OthersSeen ==
  ASSUME TypeInv, GoodState, [Next]_vars, pc # "idle", pc' = "idle", Only({"write"})',
         NEW j \in Persistent, j # ctx.index, NEW p
  PROVE  Seen(nw'["FLASH"], p, j) = Seen(Uncut, p, j)
<1>0. /\ nw \in [BoatStoreType -> Table] /\ "FLASH" \in BoatStoreType /\ "RAM" \in BoatStoreType
      /\ ~Fault("internal") /\ ~Crash /\ Calm(faults'.seen)
      /\ (pc \in {"nwLast", "nwRecover"} => ~Fault("write"))
  BY OneWrite, Types DEF BoatStoreType, Crash
<1>1. CASE /\ pc = "nwNum"
           /\ nw' = [nw EXCEPT ![Mem(ctx.index)] = WriteNum(nw[Mem(ctx.index)], ctx.num + 1)]
  <2>0. Uncut = nw["FLASH"]
    BY <1>1 DEF Uncut, RemoveLabels
  <2>1. CASE ctx.index = 0
    <3>1. nw'["FLASH"] = nw["FLASH"]
      BY <1>0, <1>1, <2>1, MemType
    <3>. QED
      BY <2>0, <3>1
  <2>2. CASE ctx.index # 0
    <3>. DEFINE w == WriteNum(nw["FLASH"], ctx.num + 1)
    <3>1. Mem(ctx.index) = "FLASH"
      BY <2>2, MemType
    <3>2. Seen(w, p, j) = Seen(nw["FLASH"], p, j)
      BY <1>1, <2>2, <3>1, StoreNumWrites
    <3>. HIDE DEF w
    <3>3. nw'["FLASH"] = w
      BY <1>0, <1>1, <3>1 DEF w
    <3>. QED
      BY <2>0, <3>2, <3>3
  <2>. QED
    BY <2>1, <2>2
<1>2. CASE pc \in RemoveLabels /\ nw' = [nw EXCEPT !["FLASH"] = DropRec(nw["FLASH"], ctx.pos, ctx.num)]
  <2>. DEFINE w == DropRec(nw["FLASH"], ctx.pos, ctx.num)
  <2>1. Seen(w, p, j) = Seen(Uncut, p, j)
    BY <1>2, RemoveWrites
  <2>. HIDE DEF w
  <2>2. nw'["FLASH"] = w
    BY <1>0, <1>2 DEF w
  <2>. QED
    BY <2>1, <2>2
<1>3. CASE pc = "nwRecover" /\ nw' = [nw EXCEPT !["FLASH"] = WriteNum(nw["FLASH"], ctx.num)]
  <2>1. nw'["FLASH"] = WriteNum(nw["FLASH"], ctx.num)
    BY <1>0, <1>3
  <2>2. Uncut = WriteNum(nw["FLASH"], ctx.num)
    BY <1>3 DEF Uncut, RemoveLabels
  <2>. QED
    BY <2>1, <2>2
<1>4. CASE pc \notin RemoveLabels /\ (nw' = nw \/ nw' = [nw EXCEPT !["RAM"] = WriteNum(nw["RAM"], BadNum)])
  <2>1. nw'["FLASH"] = nw["FLASH"] /\ Uncut = nw["FLASH"]
    BY <1>0, <1>4 DEF Uncut
  <2>. QED
    BY <2>1
<1>5. "nwDel" \notin RemoveLabels
  BY DEF RemoveLabels
<1>. QED
  BY <1>0, <1>1, <1>2, <1>3, <1>4, <1>5, Endings DEF StoreFails

\* A create or delete that ends leaves what every protocol reads at all other
\* persistent indices as it was, even when one of its writes has failed.
THEOREM NetworkOthersUntouched == Spec => OthersUntouched
<1>1. ASSUME TypeInv, SoundInv, [Next]_vars
      PROVE  [pc # "idle" /\ pc' = "idle" /\ Only({"write"})' =>
                \A j \in Persistent \ {ctx.index} : Views(nw')[j] = pre[j]]_vars
  <2>. SUFFICES ASSUME pc # "idle", pc' = "idle", Only({"write"})', NEW j \in Persistent, j # ctx.index
                PROVE  Views(nw')[j] = pre[j]
    OBVIOUS
  <2>1. GoodState
    <3>1. Calm(faults.seen)
      BY <1>1, SeenGrows DEF Only, Calm
    <3>. QED
      BY <1>1, <3>1 DEF SoundInv
  <2>2. \A p : Seen(nw'["FLASH"], p, j) = Seen(Uncut, p, j)
    BY <1>1, <2>1, OthersSeen
  <2>3. /\ pre[j] = [p \in built |-> Seen(Uncut, p, j)]
        /\ Views(nw')[j] = [p \in built |-> Seen(nw'["FLASH"], p, j)]
    BY <1>1, <2>1, BeforeCall
  <2>. QED
    BY <2>2, <2>3
<1>. QED
  BY <1>1, TypeInit, TypeStep, SoundInit, SoundStep, PTL DEF Spec, OthersUntouched

\* A create that returns success has stored its network: its own protocol reads
\* it under the index that is returned, the others read nothing there, and
\* nothing was there before.
THEOREM NetworkCreateOkReadable == Spec => CreateOkReadable
<1>1. ASSUME TypeInv, SoundInv, [Next]_vars
      PROVE  [CallEnds("create", TRUE) /\ faults'.seen \subseteq {"write", "internal", "crash"} =>
                \A p \in built :
                  /\ GetNetworkByIndex(nw', p, ctx.index) =
                       IF p = ctx.rec.protocol THEN ctx.rec ELSE NoRec
                  /\ ctx.index \in Persistent => pre[ctx.index][p] = NoRec]_vars
  <2>. SUFFICES ASSUME CallEnds("create", TRUE), Calm(faults'.seen), NEW p \in built
                PROVE  /\ GetNetworkByIndex(nw', p, ctx.index) =
                            IF p = ctx.rec.protocol THEN ctx.rec ELSE NoRec
                       /\ ctx.index \in Persistent => pre[ctx.index][p] = NoRec
    BY DEF Calm
  <2>. DEFINE m == Mem(ctx.index)
              w == WriteNum(nw[m], ctx.num + 1)
  <2>1. GoodState
    <3>1. Calm(faults.seen)
      BY <1>1, SeenGrows DEF Calm
    <3>. QED
      BY <1>1, <3>1 DEF SoundInv
  <2>2. pc # "idle" /\ pc' = "idle" /\ ret'.op = "create" /\ ret'.ok = TRUE
    BY DEF CallEnds
  <2>3. pc \notin StoreLabels => ctx.api = "delete"
    BY <1>1, <2>2, Types DEF CtxOK
  <2>4. ~StoreFails /\ ~Crash /\ (Return(TRUE) => pc \in StoreLabels) /\ ~Return(FALSE)
    BY <2>2, <2>3 DEF StoreFails, Return, Crash, Reboot
  <2>5. pc = "nwNum" /\ nw' = [nw EXCEPT ![m] = w]
    <3>1. pc \in RemoveLabels \cup {"nwDel"} => pc \notin StoreLabels
      BY DEF StoreLabels, RemoveLabels
    <3>. HIDE DEF w, m
    <3>. QED
      BY <1>1, <2>1, <2>2, <2>4, <3>1, Endings DEF w, m
  <2>6. /\ Seen(w, p, ctx.index) = IF ctx.rec.protocol = p THEN ctx.rec ELSE NoRec
    BY <1>1, <2>1, <2>5, StoreNumWrites
  <2>7. nw \in [BoatStoreType -> Table] /\ m \in BoatStoreType /\ p \in AllProtocols
    BY <1>1, Types, MemType
  <2>8. GetNetworkByIndex(nw', p, ctx.index) = Seen(nw'[m], p, ctx.index)
    BY <2>7, GetIsSeen
  <2>9. nw'[m] = w
    BY <2>5, <2>7
  <2>10. ASSUME ctx.index \in Persistent PROVE pre[ctx.index][p] = NoRec
    <3>1. Absent(nw["FLASH"], ctx.index)
      <4>1. ctx.index # 0
        BY <2>10, Maximum DEF Persistent
      <4>. QED
        BY <2>1, <2>5, <4>1 DEF GoodState, CallInv, StoreLabels
    <3>2. Seen(nw["FLASH"], p, ctx.index) = NoRec
      BY <3>1, SeenAbsent
    <3>3. Uncut = nw["FLASH"]
      BY <2>5 DEF Uncut, RemoveLabels
    <3>4. pre[ctx.index] = [x \in built |-> Seen(Uncut, x, ctx.index)]
      BY <1>1, <2>1, <2>10, BeforeCall
    <3>. QED
      BY <3>2, <3>3, <3>4
  <2>. HIDE DEF w, m
  <2>. QED
    BY <2>6, <2>8, <2>9, <2>10
<1>. QED
  BY <1>1, TypeInit, TypeStep, SoundInit, SoundStep, PTL DEF Spec, CreateOkReadable

\* A delete that returns success has removed the network, and one that reports
\* a failure has kept it, when one of its writes fails: also when the header
\* that should bring the number back is written over the last record.
THEOREM NetworkDeleteTellsTruth == Spec => DeleteTellsTruth
<1>1. ASSUME TypeInv, SoundInv, [Next]_vars
      PROVE  [pc # "idle" /\ pc' = "idle" /\ ret'.op = "delete" /\ ctx.index \in Persistent
                /\ Only({"write"})' =>
                GetNetworkByIndex(nw', ctx.rec.protocol, ctx.index) =
                  IF ret'.ok THEN NoRec ELSE pre[ctx.index][ctx.rec.protocol]]_vars
  <2>. DEFINE p == ctx.rec.protocol
              i == ctx.index
              w == DropRec(nw["FLASH"], ctx.pos, ctx.num)
              u == WriteNum(nw["FLASH"], ctx.num)
  <2>. SUFFICES ASSUME pc # "idle", pc' = "idle", ret'.op = "delete", i \in Persistent, Only({"write"})'
                PROVE  GetNetworkByIndex(nw', p, i) = IF ret'.ok THEN NoRec ELSE pre[i][p]
    OBVIOUS
  <2>1. GoodState
    <3>1. Calm(faults.seen)
      BY <1>1, SeenGrows DEF Only, Calm
    <3>. QED
      BY <1>1, <3>1 DEF SoundInv
  <2>2. /\ ~Fault("internal") /\ ~Crash /\ Calm(faults'.seen)
        /\ (pc \in {"nwLast", "nwRecover"} => ~Fault("write"))
    BY <1>1, <2>1, OneWrite DEF Crash
  <2>3. /\ p \in built /\ p \in AllProtocols /\ i # 0 /\ Mem(i) = "FLASH"
        /\ ctx.api = IF pc \in StoreLabels THEN "create" ELSE "delete"
    BY <1>1, Types, Maximum DEF CtxOK, Persistent, Mem
  <2>4. \A ok : Return(ok) => pc \notin StoreLabels /\ ret'.ok = ok
    BY <2>3 DEF Return
  <2>5. GetNetworkByIndex(nw', p, i) = Seen(nw'["FLASH"], p, i)
    BY <2>3, GetIsSeen
  <2>6. pre[i][p] = Seen(Uncut, p, i) /\ (pc \notin RemoveLabels => Uncut = nw["FLASH"])
    BY <1>1, <2>1, <2>3, BeforeCall
  <2>7. nw \in [BoatStoreType -> Table] /\ "FLASH" \in BoatStoreType
    BY <1>1, Types DEF BoatStoreType
  <2>8. CASE pc \in RemoveLabels /\ Return(TRUE) /\ nw' = [nw EXCEPT !["FLASH"] = w]
    <3>1. Absent(w, i)
      BY <1>1, <2>1, <2>8, RemoveWrites
    <3>2. Seen(w, p, i) = NoRec
      BY <3>1, SeenAbsent
    <3>. HIDE DEF w
    <3>3. nw'["FLASH"] = w
      BY <2>7, <2>8
    <3>. QED
      BY <2>4, <2>5, <2>8, <3>2, <3>3
  <2>9. CASE pc = "nwRecover" /\ Return(FALSE) /\ nw' = [nw EXCEPT !["FLASH"] = u]
    <3>1. Uncut = u
      BY <2>9 DEF Uncut, RemoveLabels
    <3>. HIDE DEF u
    <3>2. nw'["FLASH"] = u
      BY <2>7, <2>9
    <3>. QED
      BY <2>4, <2>5, <2>6, <2>9, <3>1, <3>2
  <2>10. CASE pc \notin RemoveLabels /\ StoreFails
    <3>1. nw' = nw /\ Return(FALSE)
      BY <2>10 DEF StoreFails
    <3>. QED
      BY <2>4, <2>5, <2>6, <2>10, <3>1
  <2>11. ~(pc = "nwNum" /\ Return(TRUE))
    BY <2>4 DEF StoreLabels
  <2>. HIDE DEF w, u
  <2>12. \/ pc \in RemoveLabels /\ Return(TRUE) /\ nw' = [nw EXCEPT !["FLASH"] = w]
         \/ pc = "nwRecover" /\ Return(FALSE) /\ nw' = [nw EXCEPT !["FLASH"] = u]
         \/ pc \notin RemoveLabels /\ StoreFails
    BY <1>1, <2>1, <2>2, <2>3, <2>11, Endings DEF w, u
  <2>. QED
    BY <2>8, <2>9, <2>10, <2>12
<1>. QED
  BY <1>1, TypeInit, TypeStep, SoundInit, SoundStep, PTL DEF Spec, DeleteTellsTruth
----------------------------------------------------------------------------
(* The network store implements IndexDirectory.                            *)

\* The entry of index i in a table, whichever protocol it belongs to.
EntryOf(t, i) ==
  LET S == Found(t, Count(t), i)
  IN  IF S = {} THEN NoRec ELSE Seen(t, t.slot[FirstOf(S)].protocol, i)

LEMMA EntryAbsent ==
  ASSUME NEW t, NEW i, Absent(t, i)
  PROVE  EntryOf(t, i) = NoRec
BY DEF EntryOf, Found, Absent

LEMMA EntryRecord ==
  ASSUME NEW t, Count(t) \in Nat, Sound(t, Count(t)), Owned(t, Count(t)), NEW q \in 1..Count(t)
  PROVE  EntryOf(t, t.slot[q].index) = t.slot[q]
<1>. DEFINE i == t.slot[q].index
            S == Found(t, Count(t), i)
<1>1. S = {q}
  BY DEF Sound, Found
<1>2. FirstOf({q}) = q
  BY DEF FirstOf
<1>3. Seen(t, t.slot[q].protocol, i) = t.slot[q]
  BY SeenRecord
<1>. QED
  BY <1>1, <1>2, <1>3 DEF EntryOf

\* Tables that read alike have the same entry.
LEMMA EntryAlike ==
  ASSUME NEW t, Count(t) \in Nat, Sound(t, Count(t)), Owned(t, Count(t)),
         NEW w, Count(w) \in Nat, Sound(w, Count(w)), Owned(w, Count(w)),
         NEW j, \A p : Seen(w, p, j) = Seen(t, p, j)
  PROVE  EntryOf(w, j) = EntryOf(t, j)
<1>1. ASSUME NEW a, Count(a) \in Nat, Sound(a, Count(a)), Owned(a, Count(a)), ~Absent(a, j)
      PROVE  \E r \in NetworkRec : /\ EntryOf(a, j) = r /\ Seen(a, r.protocol, j) = r
                                   /\ \A p : Seen(a, p, j) \in {r, NoRec}
  <2>1. PICK q \in 1..Count(a) : a.slot[q].index = j
    BY <1>1 DEF Absent
  <2>2. a.slot[q] \in NetworkRec
    BY <1>1 DEF Sound
  <2>3. EntryOf(a, j) = a.slot[q]
    BY <1>1, <2>1, EntryRecord
  <2>4. \A p : Seen(a, p, j) = IF a.slot[q].protocol = p THEN a.slot[q] ELSE NoRec
    BY <1>1, <2>1, SeenRecord
  <2>. QED
    BY <2>2, <2>3, <2>4
<1>2. CASE Absent(t, j) /\ Absent(w, j)
  BY <1>2, EntryAbsent
<1>3. CASE Absent(t, j) /\ ~Absent(w, j)
  <2>1. PICK r \in NetworkRec : Seen(w, r.protocol, j) = r
    BY <1>1, <1>3
  <2>2. Seen(t, r.protocol, j) = NoRec
    BY <1>3, SeenAbsent
  <2>. QED
    BY <2>1, <2>2, RecAssumption
<1>4. CASE ~Absent(t, j) /\ Absent(w, j)
  <2>1. PICK r \in NetworkRec : Seen(t, r.protocol, j) = r
    BY <1>1, <1>4
  <2>2. Seen(w, r.protocol, j) = NoRec
    BY <1>4, SeenAbsent
  <2>. QED
    BY <2>1, <2>2, RecAssumption
<1>5. CASE ~Absent(t, j) /\ ~Absent(w, j)
  <2>1. PICK r \in NetworkRec : EntryOf(t, j) = r /\ Seen(t, r.protocol, j) = r
    BY <1>1, <1>5
  <2>2. PICK s \in NetworkRec : EntryOf(w, j) = s /\ \A p : Seen(w, p, j) \in {s, NoRec}
    BY <1>1, <1>5
  <2>3. Seen(w, r.protocol, j) = r
    BY <2>1
  <2>4. r \in {s, NoRec}
    BY <2>2, <2>3
  <2>. QED
    BY <2>1, <2>2, <2>4, RecAssumption
<1>. QED
  BY <1>2, <1>3, <1>4, <1>5

\* The table the mapping reads.
Shown == IF pc \in {"nwTail", "nwRecover"} THEN WriteNum(nw["FLASH"], ctx.num) ELSE nw["FLASH"]

\* The mapping, by the two tables.
MapOK ==
  /\ \A i \in Persistent : Entry(i) = EntryOf(Shown, i)
  /\ Entry(0) = IF Replacing(0) THEN NoRec ELSE EntryOf(nw["RAM"], 0)
  /\ Count(Shown) \in Nat /\ Sound(Shown, Count(Shown)) /\ Owned(Shown, Count(Shown))

LEMMA EntryIs == TypeInv /\ GoodState => MapOK
<1>. SUFFICES ASSUME TypeInv, GoodState PROVE MapOK
  OBVIOUS
<1>0. /\ nw \in [BoatStoreType -> Table] /\ "FLASH" \in BoatStoreType /\ "RAM" \in BoatStoreType
  BY Types DEF BoatStoreType
<1>1. Whole["FLASH"] = Shown /\ Whole["RAM"] = nw["RAM"]
  BY <1>0 DEF Whole, Shown
<1>2. /\ Count(Shown) \in Nat /\ Count(Shown) <= BOAT_MAX_NETWORK_NUM
      /\ Sound(Shown, Count(Shown)) /\ Owned(Shown, Count(Shown))
  <2>1. CASE pc \in {"nwTail", "nwRecover"}
    <3>1. pc \in RemoveLabels /\ Shown = WriteNum(nw["FLASH"], ctx.num)
      BY <2>1 DEF RemoveLabels, Shown
    <3>2. Sound(Shown, Count(Shown)) /\ Owned(Shown, Count(Shown))
      BY <3>1, RemoveWrites
    <3>3. Count(Shown) = ctx.num /\ ctx.num \in NetworkIndex
      <4>1. ctx.num \in 0..BOAT_MAX_NETWORK_NUM
        BY Types DEF CtxSet, NetworkIndex
      <4>. QED
        BY <3>1, <4>1, NumWritten, <1>0 DEF NetworkIndex
    <3>. QED
      BY <3>2, <3>3, Maximum DEF NetworkIndex
  <2>2. CASE pc \notin {"nwTail", "nwRecover"}
    BY <1>0, <2>2, GoodFacts, CountIsNat DEF Shown
  <2>. QED
    BY <2>1, <2>2
<1>3. ASSUME NEW t, NEW i, Count(t) \in Nat, Sound(t, Count(t)), Found(t, Count(t), i) # {},
             Whole[Mem(i)] = t
      PROVE  GetNetworkByIndex(Whole, t.slot[FirstOf(Found(t, Count(t), i))].protocol, i) = EntryOf(t, i)
  <2>. DEFINE f == FirstOf(Found(t, Count(t), i))
  <2>1. f \in 1..Count(t)
    BY <1>3, FoundFirst
  <2>. HIDE DEF f
  <2>2. t.slot[f] \in NetworkRec
    BY <1>3, <2>1 DEF Sound
  <2>3. t.slot[f].protocol \in AllProtocols
    BY <2>2 DEF NetworkRec
  <2>4. GetNetworkByIndex(Whole, t.slot[f].protocol, i) = Seen(t, t.slot[f].protocol, i)
    BY <1>3, <2>3, GetIsSeen
  <2>. QED
    BY <1>3, <2>4 DEF EntryOf, f
<1>4. ASSUME NEW i \in Persistent PROVE Entry(i) = EntryOf(Shown, i)
  <2>1. Mem(i) = "FLASH" /\ ~Replacing(i)
    BY Maximum DEF Persistent, Mem, Replacing
  <2>2. CASE Found(Shown, Count(Shown), i) = {}
    BY <1>1, <2>1, <2>2 DEF Entry, EntryOf
  <2>3. CASE Found(Shown, Count(Shown), i) # {}
    BY <1>1, <1>2, <1>3, <2>1, <2>3 DEF Entry
  <2>. QED
    BY <2>2, <2>3
<1>5. Entry(0) = IF Replacing(0) THEN NoRec ELSE EntryOf(nw["RAM"], 0)
  <2>. DEFINE t == nw["RAM"]
  <2>1. Mem(0) = "RAM" /\ Count(t) \in Nat /\ Sound(t, Count(t))
    BY <1>0, GoodFacts DEF Mem
  <2>2. CASE Found(t, Count(t), 0) = {}
    BY <1>1, <2>1, <2>2 DEF Entry, EntryOf
  <2>3. CASE Found(t, Count(t), 0) # {}
    BY <1>1, <1>3, <2>1, <2>3 DEF Entry
  <2>. QED
    BY <2>2, <2>3
<1>. QED
  BY <1>2, <1>4, <1>5 DEF MapOK
\* When the last record could not be blanked it is counted out all the same.
LEMMA LastOut ==
  ASSUME TypeInv, GoodState, pc = "nwLast"
  PROVE  /\ Absent(nw["FLASH"], ctx.index)
         /\ \A p, j : j # ctx.index => Seen(nw["FLASH"], p, j) = Seen(Uncut, p, j)
<1>. DEFINE t == nw["FLASH"]
            n == ctx.num
            u == WriteNum(t, n)
<1>0. /\ Removing(t, ctx.rec, n, ctx.pos) /\ ctx.pos = n /\ Uncut = u
      /\ n \in NetworkIndex /\ t \in Table /\ ctx.rec.index = ctx.index
  <2>1. pc \in RemoveLabels /\ pc # "idle"
    BY DEF RemoveLabels
  <2>. QED
    BY <2>1, RemoveWrites, Types DEF CtxSet, CtxOK
<1>1. Count(u) = n /\ u.slot = t.slot /\ Sound(u, n) /\ Owned(u, n)
  BY <1>0, UncutSound
<1>. HIDE DEF u, n, t
<1>2. /\ n \in 1..n /\ n \in Nat /\ t.num = n - 1 /\ t.slot[n].index = ctx.index
      /\ \A q, k \in 1..n : t.slot[q].index = t.slot[k].index => q = k
  BY <1>0, Maximum DEF Removing, Sound, NetworkIndex
<1>3. Count(t) = n - 1 /\ Count(t) \in Nat
  BY <1>2 DEF Count, BadNum
<1>4. \A q \in 1..(n - 1) : q \in 1..n /\ q # n
  BY <1>2
<1>5. \A q \in 1..n : q # n => q \in 1..(n - 1)
  BY <1>2
<1>6. Absent(t, ctx.index)
  BY <1>2, <1>3, <1>4 DEF Absent
<1>7. Sound(t, Count(t)) /\ Owned(t, Count(t))
  BY <1>1, <1>3, <1>4 DEF Sound, Owned
<1>8. ASSUME NEW p, NEW j, j # ctx.index PROVE Seen(t, p, j) = Seen(u, p, j)
  <2>1. \A q \in 1..Count(u) : u.slot[q].index = j => \E k \in 1..Count(t) : t.slot[k] = u.slot[q]
    BY <1>1, <1>2, <1>3, <1>5, <1>8
  <2>2. \A k \in 1..Count(t) : t.slot[k].index = j => \E q \in 1..Count(u) : t.slot[k] = u.slot[q]
    BY <1>1, <1>3, <1>4
  <2>. QED
    BY <1>1, <1>2, <1>3, <1>7, <2>1, <2>2, SeenAlike
<1>. QED
  BY <1>0, <1>6, <1>8 DEF t

\* The mapping shows what was there before the call, at all other indices and
\* up to the point at which the delete can no longer be undone.
ShownOK ==
  /\ pc # "nwLast" => Shown = Uncut
  /\ pc = "nwLast" => Absent(Shown, ctx.index)
  /\ \A p, j : j # ctx.index => Seen(Shown, p, j) = Seen(Uncut, p, j)

LEMMA ShownIs == TypeInv /\ GoodState => ShownOK
<1>. SUFFICES ASSUME TypeInv, GoodState PROVE ShownOK
  OBVIOUS
<1>1. CASE pc = "nwLast"
  <2>1. Shown = nw["FLASH"]
    BY <1>1 DEF Shown
  <2>. QED
    BY <1>1, <2>1, LastOut DEF ShownOK
<1>2. CASE pc # "nwLast"
  <2>1. Shown = Uncut
    BY <1>2 DEF Shown, Uncut, RemoveLabels
  <2>. QED
    BY <1>2, <2>1 DEF ShownOK
<1>. QED
  BY <1>1, <1>2

\* The step of a call that goes on.
LEMMA GoesOn ==
  ASSUME TypeInv, GoodState, [Next]_vars, pc # "idle", pc' # "idle", Calm(faults'.seen)
  PROVE  /\ ctx'.index = ctx.index
         /\ \A p, j : Seen(Uncut', p, j) = Seen(Uncut, p, j)
         /\ ctx.index # 0 => nw'["RAM"] = nw["RAM"]
         /\ ctx.index = 0 => pc' \in {"nwIndex", "nwData", "nwNum"} \/ UNCHANGED vars
<1>0. /\ nw \in [BoatStoreType -> Table] /\ "FLASH" \in BoatStoreType /\ "RAM" \in BoatStoreType
      /\ ctx \in CtxSet
  BY Types DEF BoatStoreType
<1>1. \A ok : ~Return(ok)
  BY DEF Return
<1>2. ~StoreFails
  BY <1>1 DEF StoreFails
<1>3. CASE Begins \/ PowerCycle \/ Crash
  BY <1>3 DEF Begins, NetworkCreate, NetworkDelete, PowerCycle, Crash, Reboot
<1>4. CASE UNCHANGED vars
  BY <1>4 DEF vars, Uncut
<1>5. CASE StoreStep
  <2>1. pc \in StoreLabels /\ pc \notin RemoveLabels
    BY <1>5 DEF StoreStep, Store_Protocol, Store_Index, Store_Data, Store_Num, StoreLabels, RemoveLabels
  <2>2. Store_Protocol \/ Store_Index \/ Store_Data
    BY <1>1, <1>2, <1>5 DEF StoreStep, Store_Num
  <2>3. Kept
    BY <2>2, StoreProtocolGood, StoreIndexGood, StoreDataGood
  <2>4. pc' \in {"nwIndex", "nwData", "nwNum"}
    BY <1>2, <2>2 DEF Store_Protocol, Store_Index, Store_Data, Goto
  <2>5. Uncut = nw["FLASH"] /\ Uncut' = nw'["FLASH"]
    BY <2>1, <2>4 DEF Uncut, RemoveLabels
  <2>6. Count(nw["FLASH"]) \in Nat
    BY <1>0, GoodFacts
  <2>7. ASSUME NEW p, NEW j PROVE Seen(Uncut', p, j) = Seen(Uncut, p, j)
    BY <2>3, <2>5, <2>6, SeenSame DEF Kept
  <2>. QED
    BY <2>3, <2>4, <2>7 DEF Kept
<1>6. CASE Delete_Num
  <2>. DEFINE t == nw["FLASH"]
              n == Count(t)
              S == FoundNetwork(t, n, ctx.rec.protocol, ctx.index)
              w == WriteNum(t, n - 1)
              f == FirstOf(S)
  <2>1. /\ S # {} /\ nw' = [nw EXCEPT !["FLASH"] = w] /\ ctx' = [ctx EXCEPT !.num = n, !.pos = f]
        /\ Goto("nwTail") /\ ctx.index # 0 /\ pc = "nwDel"
    BY <1>2, <1>6 DEF Delete_Num
  <2>2. t \in Table /\ Sound(t, Count(t)) /\ Owned(t, Count(t)) /\ ctx.rec.index = ctx.index
    BY <1>0, GoodFacts, <2>1, Types DEF CtxOK
  <2>3. \A p, j : Seen(WriteNum(w, n), p, j) = Seen(t, p, j)
    BY <2>1, <2>2, CountOut
  <2>. HIDE DEF w, n, f
  <2>4. nw'["FLASH"] = w /\ nw'["RAM"] = nw["RAM"] /\ ctx'.num = n /\ ctx'.index = ctx.index
    BY <1>0, <2>1 DEF CtxSet
  <2>5. Uncut = t /\ Uncut' = WriteNum(w, n)
    BY <2>1, <2>4 DEF Uncut, RemoveLabels, Goto
  <2>. QED
    BY <2>1, <2>3, <2>4, <2>5
<1>7. CASE Delete_Tail
  <2>1. /\ UNCHANGED <<nw, ctx>> /\ pc = "nwTail" /\ pc' \in RemoveLabels
    BY <1>1, <1>2, <1>7 DEF Delete_Tail, Goto, RemoveLabels
  <2>2. pc \in RemoveLabels /\ ctx.index # 0
    BY <2>1, Types DEF RemoveLabels, CtxOK
  <2>3. Uncut' = Uncut
    BY <2>1, <2>2 DEF Uncut
  <2>. QED
    BY <2>1, <2>2, <2>3
<1>8. ~Delete_Onetime /\ ~Delete_RecoverLast /\ ~Delete_Recover
  BY <1>1, <1>2 DEF Delete_Onetime, Delete_RecoverLast, Delete_Recover
<1>. QED
  BY <1>3, <1>4, <1>5, <1>6, <1>7, <1>8, NextCases DEF DeleteStep
\* One write may fail, and nothing else goes wrong.
OneFailedWrite == FaultKinds \subseteq {"write"} /\ MaxFaults <= 1

LEMMA OnlyWrites ==
  ASSUME OneFailedWrite, TypeInv, TypeInv'
  PROVE  Only({"write"})' /\ Calm(faults.seen) /\ Calm(faults'.seen)
<1>1. faults \in FaultSet /\ faults' \in FaultSet
  BY Types DEF TypeInv, TypeOK, FaultSet
<1>2. faults'.left \in 0..MaxFaults /\ MaxFaults \in Nat
  BY <1>1, FaultAssumption DEF FaultSet
<1>3. faults'.left + 1 >= MaxFaults
  BY <1>2 DEF OneFailedWrite
<1>4. faults.seen \subseteq {"write"} /\ faults'.seen \subseteq {"write"}
  BY <1>1 DEF OneFailedWrite, FaultSet
<1>. QED
  BY <1>3, <1>4 DEF Only, Calm

\* The facts the mapped step is read off.
MapStep == /\ OneFailedWrite /\ [Next]_vars
           /\ TypeInv /\ TypeInv' /\ GoodState /\ GoodState'
           /\ MapOK /\ MapOK' /\ ShownOK /\ ShownOK'

\* A call leaves all other persistent entries as they are.
LEMMA OthersKept ==
  ASSUME MapStep, pc # "idle", NEW j \in Persistent, j # ctx.index
  PROVE  Entry(j)' = Entry(j)
<1>0. Only({"write"})' /\ Calm(faults'.seen)
  BY OnlyWrites DEF MapStep
<1>1. ASSUME NEW p PROVE Seen(Shown', p, j) = Seen(Shown, p, j)
  <2>1. Seen(Shown, p, j) = Seen(Uncut, p, j)
    BY DEF MapStep, ShownOK
  <2>2. CASE pc' = "idle"
    <3>1. Shown' = nw'["FLASH"]
      BY <2>2 DEF Shown
    <3>2. Seen(nw'["FLASH"], p, j) = Seen(Uncut, p, j)
      BY <1>0, <2>2, OthersSeen DEF MapStep
    <3>. QED
      BY <2>1, <3>1, <3>2
  <2>3. CASE pc' # "idle"
    <3>1. ctx'.index = ctx.index /\ Seen(Uncut', p, j) = Seen(Uncut, p, j)
      BY <1>0, <2>3, GoesOn DEF MapStep
    <3>2. Seen(Shown', p, j) = Seen(Uncut', p, j)
      BY <3>1 DEF MapStep, ShownOK
    <3>. QED
      BY <2>1, <3>1, <3>2
  <2>. QED
    BY <2>2, <2>3
<1>2. /\ Count(Shown) \in Nat /\ Sound(Shown, Count(Shown)) /\ Owned(Shown, Count(Shown))
      /\ Entry(j) = EntryOf(Shown, j)
  BY DEF MapStep, MapOK
<1>3. /\ Count(Shown') \in Nat /\ Sound(Shown', Count(Shown')) /\ Owned(Shown', Count(Shown'))
      /\ Entry(j)' = EntryOf(Shown', j)
  BY DEF MapStep, MapOK
<1>. HIDE DEF MapStep
<1>4. EntryOf(Shown', j) = EntryOf(Shown, j)
  BY <1>1, <1>2, <1>3, EntryAlike
<1>. QED
  BY <1>2, <1>3, <1>4

\* What an entry becomes: it stays, goes, or, if it was empty, is filled.
Changes(old, new) == new \in {old, NoRec} \/ (old = NoRec /\ new \in StoredRec)

\* A table in which one record is all that is read at an index.
LEMMA EntryOne ==
  ASSUME NEW t, NEW i, NEW r, \A p : Seen(t, p, i) = IF r.protocol = p THEN r ELSE NoRec
  PROVE  EntryOf(t, i) \in {r, NoRec}
BY DEF EntryOf

\* The records calls store are those of StoredRec.
StoredInv == pc \in StoreLabels => ctx.rec \in StoredRec

\* The entry of the call itself, if it is a persistent one.
LEMMA PersistentWork ==
  ASSUME MapStep, StoredInv, pc # "idle", NEW i \in Persistent, ctx.index = i
  PROVE  Changes(Entry(i), Entry(i)') /\ nw'["RAM"] = nw["RAM"]
<1>. DEFINE w == DropRec(nw["FLASH"], ctx.pos, ctx.num)
            u == WriteNum(nw["FLASH"], ctx.num)
            v == WriteNum(nw["FLASH"], ctx.num + 1)
<1>. USE DEF MapStep
<1>0. /\ nw \in [BoatStoreType -> Table] /\ "FLASH" \in BoatStoreType /\ "RAM" \in BoatStoreType
      /\ Only({"write"})' /\ Calm(faults'.seen) /\ i # 0 /\ Mem(i) = "FLASH"
  BY OnlyWrites, Types, Maximum DEF BoatStoreType, Persistent, Mem
<1>1. Entry(i) = EntryOf(Shown, i) /\ Entry(i)' = EntryOf(Shown', i)
  <2>1. \A k \in Persistent : Entry(k) = EntryOf(Shown, k)
    BY DEF MapOK
  <2>2. \A k \in Persistent : Entry(k)' = EntryOf(Shown', k)
    BY DEF MapOK
  <2>. QED
    BY <2>1, <2>2
<1>2. CASE pc' # "idle"
  <2>1. /\ ctx'.index = i /\ nw'["RAM"] = nw["RAM"]
        /\ \A p : Seen(Uncut', p, i) = Seen(Uncut, p, i)
    BY <1>0, <1>2, GoesOn
  <2>2. CASE pc' = "nwLast"
    <3>1. Absent(Shown', i)
      BY <2>1, <2>2 DEF ShownOK
    <3>. QED
      BY <1>1, <2>1, <3>1, EntryAbsent DEF Changes
  <2>3. CASE pc' # "nwLast" /\ pc # "nwLast"
    <3>1. Shown' = Uncut' /\ Shown = Uncut
      BY <2>3 DEF ShownOK
    <3>2. /\ Count(Shown) \in Nat /\ Sound(Shown, Count(Shown)) /\ Owned(Shown, Count(Shown))
      BY DEF MapOK
    <3>3. /\ Count(Shown') \in Nat /\ Sound(Shown', Count(Shown')) /\ Owned(Shown', Count(Shown'))
      BY DEF MapOK
    <3>4. \A p : Seen(Shown', p, i) = Seen(Shown, p, i)
      BY <2>1, <3>1
    <3>5. EntryOf(Shown', i) = EntryOf(Shown, i)
      BY <3>2, <3>3, <3>4, EntryAlike
    <3>. QED
      BY <1>1, <2>1, <3>5 DEF Changes
  <2>4. CASE pc = "nwLast" /\ pc' # "nwLast"
    BY <1>2, <2>4, NextCases DEF Begins, StoreStep, DeleteStep, NetworkCreate, NetworkDelete,
       Store_Protocol, Store_Index, Store_Data, Store_Num, Delete_Onetime, Delete_Num,
       Delete_Tail, Delete_RecoverLast, Delete_Recover, StoreFails, Return, PowerCycle, Crash,
       Reboot, vars
  <2>. QED
    BY <2>2, <2>3, <2>4
<1>3. CASE pc' = "idle"
  <2>0. Shown' = nw'["FLASH"]
    BY <1>3 DEF Shown
  <2>1. CASE pc = "nwNum" /\ nw' = [nw EXCEPT !["FLASH"] = v]
    <3>1. \A p : Seen(v, p, i) = IF ctx.rec.protocol = p THEN ctx.rec ELSE NoRec
      BY <1>0, <2>1, StoreNumWrites
    <3>2. Absent(nw["FLASH"], i) /\ ctx.rec \in StoredRec
      BY <1>0, <2>1 DEF GoodState, CallInv, StoreLabels, StoredInv
    <3>3. Shown = nw["FLASH"]
      BY <2>1 DEF Shown
    <3>4. EntryOf(v, i) \in {ctx.rec, NoRec}
      BY <3>1, EntryOne
    <3>. HIDE DEF v
    <3>5. Shown' = v /\ nw'["RAM"] = nw["RAM"]
      BY <1>0, <2>0, <2>1
    <3>. QED
      BY <1>1, <3>2, <3>3, <3>4, <3>5, EntryAbsent DEF Changes
  <2>2. CASE pc \in RemoveLabels /\ nw' = [nw EXCEPT !["FLASH"] = w]
    <3>1. Absent(w, i)
      BY <2>2, RemoveWrites
    <3>. HIDE DEF w
    <3>2. Shown' = w /\ nw'["RAM"] = nw["RAM"]
      BY <1>0, <2>0, <2>2
    <3>. QED
      BY <1>1, <3>1, <3>2, EntryAbsent DEF Changes
  <2>3. CASE pc = "nwRecover" /\ nw' = [nw EXCEPT !["FLASH"] = u]
    <3>1. Shown = u
      BY <2>3 DEF Shown
    <3>. HIDE DEF u
    <3>2. Shown' = u /\ nw'["RAM"] = nw["RAM"]
      BY <1>0, <2>0, <2>3
    <3>. QED
      BY <1>1, <3>1, <3>2 DEF Changes
  <2>4. CASE pc \notin RemoveLabels /\ StoreFails
    <3>1. nw' = nw /\ Shown = nw["FLASH"]
      BY <2>4 DEF StoreFails, Shown, RemoveLabels
    <3>. QED
      BY <1>1, <2>0, <3>1 DEF Changes
  <2>5. /\ ~Fault("internal") /\ ~Crash
        /\ (pc \in {"nwLast", "nwRecover"} => ~Fault("write"))
    BY <1>0, OneWrite DEF Crash
  <2>. HIDE DEF w, u, v
  <2>6. \/ pc = "nwNum" /\ nw' = [nw EXCEPT !["FLASH"] = v]
        \/ pc \in RemoveLabels /\ nw' = [nw EXCEPT !["FLASH"] = w]
        \/ pc = "nwRecover" /\ nw' = [nw EXCEPT !["FLASH"] = u]
        \/ pc \notin RemoveLabels /\ StoreFails
    BY <1>0, <1>3, <2>5, Endings DEF w, u, v
  <2>. QED
    BY <2>1, <2>2, <2>3, <2>4, <2>6
<1>. QED
  BY <1>2, <1>3
\* The entry of the call itself, if it is the one-time one.
LEMMA OnetimeWork ==
  ASSUME MapStep, StoredInv, pc # "idle", ctx.index = 0
  PROVE  Changes(Entry(0), Entry(0)')
<1>. DEFINE t == nw["RAM"]
            v == WriteNum(t, ctx.num + 1)
            b == WriteNum(t, BadNum)
<1>. USE DEF MapStep
<1>0. /\ nw \in [BoatStoreType -> Table] /\ "FLASH" \in BoatStoreType /\ "RAM" \in BoatStoreType
      /\ Only({"write"})' /\ Calm(faults'.seen) /\ Mem(0) = "RAM" /\ pc \notin RemoveLabels
  BY OnlyWrites, Types DEF BoatStoreType, Mem, CtxOK
<1>1. /\ Entry(0) = IF Replacing(0) THEN NoRec ELSE EntryOf(t, 0)
      /\ Entry(0)' = IF Replacing(0)' THEN NoRec ELSE EntryOf(t', 0)
  BY DEF MapOK
<1>2. CASE UNCHANGED vars
  <2>1. (Replacing(0)' <=> Replacing(0)) /\ t' = t
    BY <1>2 DEF vars, Replacing
  <2>. QED
    BY <1>1, <2>1 DEF Changes
<1>3. CASE pc' # "idle" /\ ~UNCHANGED vars
  <2>1. ctx'.index = 0 /\ pc' \in {"nwIndex", "nwData", "nwNum"}
    BY <1>0, <1>3, GoesOn
  <2>2. Replacing(0)'
    BY <2>1 DEF Replacing
  <2>. QED
    BY <1>1, <2>2 DEF Changes
<1>4. CASE pc' = "idle"
  <2>0. ~Replacing(0)'
    BY <1>4 DEF Replacing
  <2>1. CASE pc = "nwNum" /\ nw' = [nw EXCEPT !["RAM"] = v]
    <3>1. \A p : Seen(v, p, 0) = IF ctx.rec.protocol = p THEN ctx.rec ELSE NoRec
      BY <1>0, <2>1, StoreNumWrites
    <3>2. ctx.rec \in StoredRec /\ Replacing(0)
      BY <2>1 DEF StoreLabels, StoredInv, Replacing
    <3>3. EntryOf(v, 0) \in {ctx.rec, NoRec}
      BY <3>1, EntryOne
    <3>. HIDE DEF v
    <3>4. t' = v
      BY <1>0, <2>1
    <3>. QED
      BY <1>1, <2>0, <3>2, <3>3, <3>4 DEF Changes
  <2>2. CASE nw' = [nw EXCEPT !["RAM"] = b]
    <3>1. Absent(b, 0)
      BY DEF Absent, Count, WriteNum
    <3>. HIDE DEF b
    <3>2. t' = b
      BY <1>0, <2>2
    <3>. QED
      BY <1>1, <3>1, <3>2, EntryAbsent DEF Changes
  <2>3. CASE StoreFails /\ pc \in {"nwProtocol", "nwDel"}
    <3>1. t' = t /\ ~Replacing(0)
      BY <2>3 DEF StoreFails, Replacing
    <3>. QED
      BY <1>1, <2>0, <3>1 DEF Changes
  <2>4. CASE StoreFails /\ pc \in {"nwIndex", "nwData", "nwNum"}
    <3>1. ~Fault("overflow") /\ \A k : ~FlashFault("RAM", k)
      BY DEF OneFailedWrite, Fault, FlashFault
    <3>2. ~Return(TRUE) /\ (\A l : Goto(l) => pc' = l)
      <4>1. ret'.ok = FALSE
        BY <2>4 DEF StoreFails, Return
      <4>2. Return(TRUE) => ret'.ok = TRUE
        BY DEF Return
      <4>. QED
        BY <4>1, <4>2 DEF Goto
    <3>3. ~Store_Index /\ ~Store_Data /\ ~Store_Num
      BY <1>0, <1>4, <3>1, <3>2 DEF Store_Index, Store_Data, Store_Num
    <3>. QED
      BY <1>4, <2>4, <3>3, NextCases DEF Begins, StoreStep, DeleteStep, NetworkCreate, NetworkDelete,
         Store_Protocol, Delete_Onetime, Delete_Num, Delete_Tail, Delete_RecoverLast,
         Delete_Recover, PowerCycle, Crash, Fault, OneFailedWrite, vars
  <2>5. pc \in {"nwDel"} \cup StoreLabels
    BY <1>0, Types DEF Labels
  <2>6. ~Crash /\ pc \notin {"nwLast", "nwRecover"}
    BY <1>0, OneWrite DEF Crash, RemoveLabels
  <2>. HIDE DEF v, b
  <2>7. \/ pc = "nwNum" /\ nw' = [nw EXCEPT !["RAM"] = v]
        \/ nw' = [nw EXCEPT !["RAM"] = b]
        \/ StoreFails
    BY <1>0, <1>4, <2>6, Endings DEF v, b
  <2>. QED
    BY <2>1, <2>2, <2>3, <2>4, <2>5, <2>7 DEF StoreLabels
<1>. QED
  BY <1>2, <1>3, <1>4

\* A call that begins, or is refused, has written nothing.
LEMMA BeginsQuietly ==
  ASSUME Begins
  PROVE  pc = "idle" /\ nw' = nw /\ pc' \in {"idle", "nwProtocol", "nwDel"}
BY DEF Begins, NetworkCreate, NetworkDelete, GetFreeNetworkIndex_From_Persistent, StartCreate,
   Refuse, Goto

\* Every step of the store is a step of the directory, or leaves it alone.
LEMMA DirectoryStep ==
  ASSUME MapStep, StoredInv
  PROVE  [Directory!Next]_<<[i \in NetworkIndex |-> Entry(i)], IF pc = "idle" THEN NoIndex ELSE ctx.index>>
<1>. DEFINE dir == [i \in NetworkIndex |-> Entry(i)]
            call == IF pc = "idle" THEN NoIndex ELSE ctx.index
<1>0. /\ NetworkIndex = 0..BOAT_MAX_NETWORK_NUM /\ 0 \in NetworkIndex /\ 0 \notin Persistent
      /\ \A i \in NetworkIndex : i = 0 \/ i \in Persistent
      /\ NoIndex \notin NetworkIndex
  BY Maximum DEF NetworkIndex, Persistent, NoIndex
<1>1. /\ Entry(0) = IF Replacing(0) THEN NoRec ELSE EntryOf(nw["RAM"], 0)
      /\ Entry(0)' = IF Replacing(0)' THEN NoRec ELSE EntryOf(nw'["RAM"], 0)
      /\ \A i \in Persistent : Entry(i) = EntryOf(Shown, i)
      /\ \A i \in Persistent : Entry(i)' = EntryOf(Shown', i)
  BY DEF MapStep, MapOK
<1>2. /\ pc # "idle" => ctx.index \in NetworkIndex
      /\ pc' # "idle" => ctx'.index \in NetworkIndex
  BY DEF MapStep, TypeInv, CtxOK
<1>3. /\ dir' = [i \in NetworkIndex |-> Entry(i)']
      /\ call' = IF pc' = "idle" THEN NoIndex ELSE ctx'.index
  OBVIOUS
<1>4. /\ DOMAIN dir' = NetworkIndex
      /\ \A i \in NetworkIndex : dir[i] = Entry(i) /\ dir'[i] = Entry(i)'
  OBVIOUS
<1>5. CASE pc = "idle"
  <2>0. call = NoIndex /\ ~Replacing(0) /\ Shown = nw["FLASH"]
    BY <1>5 DEF Replacing, Shown
  <2>1. CASE nw' = nw /\ pc' \in {"idle", "nwProtocol", "nwDel"}
    <3>1. ~Replacing(0)' /\ Shown' = Shown
      BY <2>0, <2>1 DEF Replacing, Shown
    <3>2. \A i \in NetworkIndex : Entry(i)' = Entry(i)
      BY <1>0, <1>1, <2>0, <2>1, <3>1
    <3>3. CASE pc' = "idle"
      BY <1>3, <2>0, <3>2, <3>3
    <3>4. CASE pc' # "idle"
      <4>1. Directory!Begin
        BY <1>0, <1>2, <1>4, <2>0, <3>2, <3>4 DEF Directory!Begin, Directory!OnlyIn, Directory!Indices
      <4>. QED
        BY <4>1 DEF Directory!Next
    <3>. QED
      BY <3>3, <3>4
  <2>2. CASE PowerCycle
    <3>. DEFINE b == BlankTable(BOAT_MAX_NETWORK_NUM)
    <3>1. Absent(b, 0)
      <4>1. Count(b) = 0
        BY BlankIsTable, Maximum
      <4>. QED
        BY <4>1 DEF Absent
    <3>2. pc' = "idle" /\ nw' = [nw EXCEPT !["RAM"] = b]
      BY <2>2 DEF PowerCycle, Reboot
    <3>. HIDE DEF b
    <3>3. nw'["RAM"] = b /\ nw'["FLASH"] = nw["FLASH"] /\ Shown' = nw'["FLASH"]
      BY <3>2, Types DEF MapStep, BoatStoreType, Shown
    <3>4. Entry(0)' = NoRec /\ \A i \in Persistent : Entry(i)' = Entry(i)
      BY <1>1, <2>0, <3>1, <3>3, EntryAbsent
    <3>5. Directory!Restart
      BY <1>0, <1>4, <2>0, <3>2, <3>4 DEF Directory!Restart, Directory!OnlyIn, Directory!Indices
    <3>. QED
      BY <3>5 DEF Directory!Next
  <2>3. Begins \/ PowerCycle \/ UNCHANGED vars
    BY <1>5, NextCases DEF MapStep, StoreStep, DeleteStep, Store_Protocol, Store_Index, Store_Data,
       Store_Num, Delete_Onetime, Delete_Num, Delete_Tail, Delete_RecoverLast, Delete_Recover, Crash
  <2>4. UNCHANGED vars => nw' = nw /\ pc' = "idle"
    BY <1>5 DEF vars
  <2>. QED
    BY <2>1, <2>2, <2>3, <2>4, BeginsQuietly
<1>6. CASE pc # "idle"
  <2>0. call = ctx.index /\ call \in NetworkIndex /\ call # NoIndex
    BY <1>0, <1>2, <1>6
  <2>1. call' \in {call, NoIndex}
    <3>1. CASE pc' = "idle"
      BY <3>1
    <3>2. CASE pc' # "idle"
      <4>1. ctx'.index = ctx.index
        BY <1>6, <3>2, GoesOn, OnlyWrites DEF MapStep
      <4>. QED
        BY <1>3, <2>0, <3>2, <4>1
    <3>. QED
      BY <3>1, <3>2
  <2>2. \A i \in Persistent : i # ctx.index => Entry(i)' = Entry(i)
    BY <1>6, OthersKept
  <2>3. PICK c \in NetworkIndex : c = ctx.index
    BY <2>0
  <2>4. Changes(Entry(c), Entry(c)') /\ (c # 0 => Entry(0)' = Entry(0))
    <3>1. CASE c = 0
      BY <1>6, <2>3, <3>1, OnetimeWork
    <3>2. CASE c # 0
      <4>1. Changes(Entry(c), Entry(c)') /\ nw'["RAM"] = nw["RAM"]
        BY <1>0, <1>6, <2>3, <3>2, PersistentWork
      <4>2. ~Replacing(0) /\ ~Replacing(0)'
        <5>1. pc' # "idle" => ctx'.index # 0
          BY <1>3, <2>0, <2>1, <2>3, <3>2, <1>2, <1>0
        <5>. QED
          BY <2>3, <3>2, <5>1 DEF Replacing
      <4>. QED
        BY <1>1, <4>1, <4>2
    <3>. QED
      BY <3>1, <3>2
  <2>5. \A i \in NetworkIndex : i # c => Entry(i)' = Entry(i)
    BY <1>0, <2>2, <2>3, <2>4
  <2>6. Directory!Work
    <3>1. Directory!OnlyIn({c})
      BY <1>0, <1>4, <2>5 DEF Directory!OnlyIn, Directory!Indices
    <3>2. dir'[c] \in {dir[c], NoRec} \/ (dir[c] = NoRec /\ dir'[c] \in StoredRec)
      BY <1>4, <2>4 DEF Changes
    <3>3. call = c
      BY <2>0, <2>3
    <3>. QED
      BY <2>0, <2>1, <3>1, <3>2, <3>3 DEF Directory!Work
  <2>. QED
    BY <2>6 DEF Directory!Next
<1>. QED
  BY <1>5, <1>6
LEMMA StoredStep == TypeInv /\ TypeInv' /\ StoredInv /\ [Next]_vars => StoredInv'
<1>. SUFFICES ASSUME TypeInv, TypeInv', StoredInv, [Next]_vars, pc' \in StoreLabels
              PROVE  ctx'.rec \in StoredRec
  BY DEF StoredInv
<1>0. /\ ctx \in CtxSet /\ built \in Builds /\ pc' # "idle" /\ ctx'.index \in NetworkIndex
  BY Types DEF TypeInv, CtxOK, StoreLabels
<1>1. /\ \A ok : ~Return(ok)
      /\ \A l : Goto(l) => l \in StoreLabels
  BY <1>0 DEF Return, Goto
<1>2. ~StoreFails
  BY <1>1 DEF StoreFails
<1>3. ASSUME NEW p \in built, NEW i, NEW len \in DataLens, StartCreate(p, i, len)
      PROVE  ctx'.rec \in StoredRec
  <2>1. ctx' = [api |-> "create", index |-> i, rec |-> NetworkData(p, i, len), num |-> 0, pos |-> 0]
    BY <1>3 DEF StartCreate, NoCtx
  <2>2. i \in NetworkIndex /\ ctx'.rec = NetworkData(p, i, len)
    BY <1>0, <2>1
  <2>3. p \in UNION Builds
    BY <1>0
  <2>. QED
    BY <2>2, <2>3 DEF StoredRec
<1>4. CASE UNCHANGED <<pc, ctx>>
  BY <1>4 DEF StoredInv
<1>5. CASE Begins
  <2>1. ASSUME NEW p \in AllProtocols, NEW len \in DataLens, NEW m \in BoatStoreType, NetworkCreate(p, len, m)
        PROVE  ctx'.rec \in StoredRec
    <3>1. CASE UNCHANGED <<pc, ctx>>
      BY <1>4, <3>1
    <3>2. p \in built /\ (UNCHANGED <<pc, ctx>> \/ \E i : StartCreate(p, i, len))
      BY <2>1 DEF NetworkCreate, GetFreeNetworkIndex_From_Persistent, Refuse
    <3>. QED
      BY <1>3, <3>1, <3>2
  <2>2. ASSUME NEW p, NEW i, NetworkDelete(p, i) PROVE ctx'.rec \in StoredRec
    <3>1. ~Goto("nwDel")
      BY <1>1 DEF StoreLabels
    <3>2. UNCHANGED <<pc, ctx>>
      BY <2>2, <3>1 DEF NetworkDelete, Refuse
    <3>. QED
      BY <1>4, <3>2
  <2>. QED
    BY <1>5, <2>1, <2>2 DEF Begins
<1>6. CASE StoreStep
  <2>1. pc \in StoreLabels
    BY <1>6 DEF StoreStep, Store_Protocol, Store_Index, Store_Data, Store_Num, StoreLabels
  <2>2. ctx'.rec = ctx.rec
    BY <1>0, <1>1, <1>2, <1>6 DEF StoreStep, Store_Protocol, Store_Index, Store_Data, Store_Num, CtxSet
  <2>. QED
    BY <2>1, <2>2 DEF StoredInv
<1>7. ~DeleteStep
  <2>1. ~Goto("nwTail") /\ ~Goto("nwLast") /\ ~Goto("nwRecover")
    BY <1>1 DEF StoreLabels
  <2>2. ~Goto(IF ctx.pos = ctx.num THEN "nwLast" ELSE "nwRecover")
    BY <2>1
  <2>. QED
    BY <1>1, <1>2, <2>1, <2>2
       DEF DeleteStep, Delete_Onetime, Delete_Num, Delete_Tail, Delete_RecoverLast, Delete_Recover
<1>8. ~PowerCycle /\ ~Crash
  BY <1>0 DEF PowerCycle, Crash, Reboot
<1>. QED
  BY <1>4, <1>5, <1>6, <1>7, <1>8, NextCases DEF vars

LEMMA DirectoryInit == Init => Directory!Init /\ StoredInv
<1>. SUFFICES ASSUME Init PROVE Directory!Init /\ StoredInv
  OBVIOUS
<1>. DEFINE b == BlankTable(BOAT_MAX_NETWORK_NUM)
<1>1. Count(b) = 0
  BY BlankIsTable, Maximum
<1>. HIDE DEF b
<1>2. pc = "idle" /\ nw = [m \in BoatStoreType |-> b]
  BY DEF Init, b
<1>3. Whole = nw /\ \A i : Mem(i) \in BoatStoreType /\ nw[Mem(i)] = b
  BY <1>2 DEF Whole, Mem, BoatStoreType
<1>4. \A i : Found(b, Count(b), i) = {}
  BY <1>1 DEF Found
<1>5. \A i : Entry(i) = NoRec
  BY <1>3, <1>4 DEF Entry
<1>. QED
  BY <1>2, <1>5 DEF Directory!Init, Directory!Indices, NetworkIndex, StoredInv, StoreLabels

\* Whatever protocols it is built with and however many networks it holds, the
\* store is one directory from indices to networks: a create fills an empty
\* entry in one step, a delete empties one in one step, a call touches no entry
\* but its own, and only the one-time entry is replaced or forgotten, as long as
\* at most one write fails and nothing else goes wrong.
THEOREM NetworkImplementsDirectory ==
  ASSUME FaultKinds \subseteq {"write"}, MaxFaults <= 1
  PROVE  Spec => ImplementsDirectory
<1>0. OneFailedWrite
  BY DEF OneFailedWrite
<1>1. TypeInv => (SoundInv => GoodState)
  <2>1. TypeInv => faults.seen \subseteq FaultKinds
    BY Types DEF FaultSet
  <2>. QED
    BY <1>0, <2>1 DEF SoundInv, Calm, OneFailedWrite
<1>2. TypeInv /\ TypeInv' /\ GoodState /\ GoodState' /\ MapOK /\ MapOK' /\ ShownOK /\ ShownOK' /\ StoredInv /\ [Next]_vars
        => [Directory!Next]_<<[i \in NetworkIndex |-> Entry(i)], IF pc = "idle" THEN NoIndex ELSE ctx.index>>
  BY <1>0, DirectoryStep DEF MapStep
<1>. QED
  BY <1>1, <1>2, TypeInit, TypeStep, SoundInit, SoundStep, EntryIs, ShownIs, StoredStep,
     DirectoryInit, PTL DEF Spec, ImplementsDirectory, Directory!Spec
----------------------------------------------------------------------------
(* The list of a protocol.                                                 *)

\* f holds the networks of protocol p among the first k records of t, for each
\* k up to n.
Lists(f, t, p, n) ==
  f = [k \in 0..n |-> IF k = 0 THEN <<>>
                      ELSE IF t.slot[k].protocol = p THEN Append(f[k-1], t.slot[k]) ELSE f[k-1]]

LEMMA ListsExist ==
  ASSUME NEW t, NEW p, NEW n \in Nat
  PROVE  \E f : Lists(f, t, p, n)
<1>. DEFINE S == {k \in Nat : \E f : Lists(f, t, p, k)}
<1>1. 0 \in S
  <2>. DEFINE f == [k \in 0..0 |-> <<>>]
  <2>1. f = [k \in 0..0 |-> IF k = 0 THEN <<>>
                            ELSE IF t.slot[k].protocol = p THEN Append(f[k-1], t.slot[k]) ELSE f[k-1]]
    OBVIOUS
  <2>. QED
    BY <2>1 DEF Lists
<1>2. ASSUME NEW k \in Nat, k \in S PROVE k + 1 \in S
  <2>1. PICK f : Lists(f, t, p, k)
    BY <1>2
  <2>. DEFINE last == IF t.slot[k+1].protocol = p THEN Append(f[k], t.slot[k+1]) ELSE f[k]
              g == [j \in 0..(k+1) |-> IF j = k + 1 THEN last ELSE f[j]]
  <2>2. \A j \in 0..k : f[j] = IF j = 0 THEN <<>>
                               ELSE IF t.slot[j].protocol = p THEN Append(f[j-1], t.slot[j]) ELSE f[j-1]
    BY <2>1 DEF Lists
  <2>3. ASSUME NEW j \in 0..(k+1)
        PROVE  g[j] = IF j = 0 THEN <<>>
                      ELSE IF t.slot[j].protocol = p THEN Append(g[j-1], t.slot[j]) ELSE g[j-1]
    <3>1. CASE j = k + 1
      <4>1. j # 0 /\ j - 1 = k /\ k \in 0..(k+1) /\ k # k + 1
        BY <3>1
      <4>. QED
        BY <3>1, <4>1
    <3>2. CASE j # k + 1 /\ j # 0
      <4>1. j \in 0..k /\ j - 1 \in 0..k /\ j - 1 \in 0..(k+1) /\ j - 1 # k + 1
        BY <3>2
      <4>. QED
        BY <2>2, <3>2, <4>1
    <3>3. CASE j # k + 1 /\ j = 0
      BY <2>2, <3>3
    <3>. QED
      BY <3>1, <3>2, <3>3
  <2>4. DOMAIN g = 0..(k+1) /\ g = [j \in DOMAIN g |-> g[j]]
    OBVIOUS
  <2>. HIDE DEF g
  <2>5. Lists(g, t, p, k + 1)
    BY <2>3, <2>4 DEF Lists
  <2>. QED
    BY <2>5
<1>. HIDE DEF S
<1>3. n \in S
  BY <1>1, <1>2, Induct
<1>. QED
  BY <1>3 DEF S

\* The networks of protocol p among the first n records of t.
Mine(t, p, n) == {t.slot[q] : q \in {k \in 1..n : t.slot[k].protocol = p}}

LEMMA MineGrows ==
  ASSUME NEW t, NEW p, NEW n \in Nat
  PROVE  Mine(t, p, n + 1) = IF t.slot[n+1].protocol = p THEN Mine(t, p, n) \cup {t.slot[n+1]}
                             ELSE Mine(t, p, n)
<1>. DEFINE m == n + 1
<1>1. m \in 1..m /\ \A k : k \in 1..m <=> (k \in 1..n \/ k = m)
  OBVIOUS
<1>. HIDE DEF m
<1>2. CASE t.slot[m].protocol = p
  <2>1. {k \in 1..m : t.slot[k].protocol = p} = {k \in 1..n : t.slot[k].protocol = p} \cup {m}
    BY <1>1, <1>2
  <2>. QED
    BY <1>2, <2>1 DEF Mine, m
<1>3. CASE t.slot[m].protocol # p
  <2>1. {k \in 1..m : t.slot[k].protocol = p} = {k \in 1..n : t.slot[k].protocol = p}
    BY <1>1, <1>3
  <2>. QED
    BY <1>3, <2>1 DEF Mine, m
<1>. QED
  BY <1>2, <1>3 DEF m

\* l lists each element of M once.
Enumerates(l, M) ==
  /\ l \in Seq(NetworkRec) /\ IsFiniteSet(M)
  /\ {l[j] : j \in 1..Len(l)} = M /\ Len(l) = Cardinality(M)

LEMMA EnumerateMore ==
  ASSUME NEW l, NEW M, Enumerates(l, M), NEW r \in NetworkRec, r \notin M
  PROVE  Enumerates(Append(l, r), M \cup {r})
<1>. DEFINE a == Append(l, r)
<1>0. l \in Seq(NetworkRec) /\ IsFiniteSet(M) /\ {l[j] : j \in 1..Len(l)} = M /\ Len(l) = Cardinality(M)
  BY DEF Enumerates
<1>1. /\ a \in Seq(NetworkRec) /\ Len(a) = Len(l) + 1 /\ Len(l) \in Nat
      /\ a[Len(l) + 1] = r /\ \A j \in 1..Len(l) : a[j] = l[j]
  BY <1>0
<1>2. IsFiniteSet(M \cup {r}) /\ Cardinality(M \cup {r}) = Cardinality(M) + 1
  BY <1>0, FS_AddElement
<1>. HIDE DEF a
<1>3. \A j : j \in 1..Len(a) <=> (j \in 1..Len(l) \/ j = Len(l) + 1)
  BY <1>1
<1>4. {a[j] : j \in 1..Len(a)} = M \cup {r}
  BY <1>0, <1>1, <1>3
<1>. QED
  BY <1>0, <1>1, <1>2, <1>4 DEF Enumerates, a

\* Two lists with no network in common, one behind the other.
LEMMA EnumerateBoth ==
  ASSUME NEW l, NEW M, Enumerates(l, M), NEW k, NEW N, Enumerates(k, N), M \cap N = {}
  PROVE  Enumerates(l \o k, M \cup N)
<1>. DEFINE c == l \o k
<1>0. /\ l \in Seq(NetworkRec) /\ IsFiniteSet(M) /\ {l[j] : j \in 1..Len(l)} = M /\ Len(l) = Cardinality(M)
      /\ k \in Seq(NetworkRec) /\ IsFiniteSet(N) /\ {k[j] : j \in 1..Len(k)} = N /\ Len(k) = Cardinality(N)
  BY DEF Enumerates
<1>1. /\ c \in Seq(NetworkRec) /\ Len(c) = Len(l) + Len(k) /\ Len(l) \in Nat /\ Len(k) \in Nat
      /\ \A j \in 1..(Len(l) + Len(k)) : c[j] = IF j <= Len(l) THEN l[j] ELSE k[j - Len(l)]
  BY <1>0
<1>2. IsFiniteSet(M \cup N) /\ Cardinality(M \cup N) = Cardinality(M) + Cardinality(N)
  <2>1. Cardinality({}) = 0
    BY FS_EmptySet
  <2>2. IsFiniteSet(M \cup N) /\ Cardinality(M \cup N) = Cardinality(M) + Cardinality(N) - Cardinality(M \cap N)
    BY <1>0, FS_Union
  <2>3. Cardinality(M \cap N) = 0
    BY <2>1
  <2>4. Cardinality(M) \in Nat /\ Cardinality(N) \in Nat
    BY <1>0, <1>1
  <2>. QED
    BY <2>2, <2>3, <2>4
<1>. HIDE DEF c
<1>3. \A j \in 1..Len(c) : c[j] \in M \cup N
  <2>. SUFFICES ASSUME NEW j \in 1..Len(c) PROVE c[j] \in M \cup N
    OBVIOUS
  <2>1. CASE j <= Len(l)
    <3>1. c[j] = l[j] /\ j \in 1..Len(l)
      BY <1>1, <2>1
    <3>. QED
      BY <1>0, <3>1
  <2>2. CASE ~(j <= Len(l))
    <3>1. c[j] = k[j - Len(l)] /\ j - Len(l) \in 1..Len(k)
      BY <1>1, <2>2
    <3>. QED
      BY <1>0, <3>1
  <2>. QED
    BY <2>1, <2>2
<1>4. \A x \in M : \E j \in 1..Len(c) : c[j] = x
  <2>. SUFFICES ASSUME NEW x \in M PROVE \E j \in 1..Len(c) : c[j] = x
    OBVIOUS
  <2>1. PICK j \in 1..Len(l) : l[j] = x
    BY <1>0
  <2>2. j \in 1..Len(c) /\ c[j] = l[j]
    BY <1>1
  <2>. QED
    BY <2>1, <2>2
<1>5. \A x \in N : \E j \in 1..Len(c) : c[j] = x
  <2>. SUFFICES ASSUME NEW x \in N PROVE \E j \in 1..Len(c) : c[j] = x
    OBVIOUS
  <2>1. PICK j \in 1..Len(k) : k[j] = x
    BY <1>0
  <2>. DEFINE i == Len(l) + j
  <2>2. i \in 1..Len(c) /\ ~(i <= Len(l)) /\ i - Len(l) = j
    BY <1>1
  <2>. HIDE DEF i
  <2>3. c[i] = k[j]
    BY <1>1, <2>2
  <2>. QED
    BY <2>1, <2>2, <2>3
<1>6. {c[j] : j \in 1..Len(c)} = M \cup N
  BY <1>3, <1>4, <1>5
<1>. QED
  BY <1>0, <1>1, <1>2, <1>6 DEF Enumerates, c

\* The list of a sound table holds each network of the protocol once.
LEMMA ListedIs ==
  ASSUME NEW t, Count(t) \in Nat, Sound(t, Count(t)), NEW p
  PROVE  Enumerates(Listed(t, p), Mine(t, p, Count(t)))
<1>. DEFINE n == Count(t)
            f == CHOOSE g : g = [k \in 0..n |-> IF k = 0 THEN <<>>
                     ELSE IF t.slot[k].protocol = p THEN Append(g[k-1], t.slot[k]) ELSE g[k-1]]
            S == {k \in Nat : k <= n => Enumerates(f[k], Mine(t, p, k))}
<1>1. \E g : g = [k \in 0..n |-> IF k = 0 THEN <<>>
                     ELSE IF t.slot[k].protocol = p THEN Append(g[k-1], t.slot[k]) ELSE g[k-1]]
  <2>1. \E g : Lists(g, t, p, n)
    BY ListsExist
  <2>. QED
    BY <2>1 DEF Lists
<1>2. f = [k \in 0..n |-> IF k = 0 THEN <<>>
                     ELSE IF t.slot[k].protocol = p THEN Append(f[k-1], t.slot[k]) ELSE f[k-1]]
  BY <1>1
<1>3. Listed(t, p) = f[n]
  BY DEF Listed
<1>4. n \in Nat /\ Sound(t, n)
  OBVIOUS
<1>. HIDE DEF f, n
<1>5. \A k \in 0..n : f[k] = IF k = 0 THEN <<>>
        ELSE IF t.slot[k].protocol = p THEN Append(f[k-1], t.slot[k]) ELSE f[k-1]
  BY <1>2
<1>6. 0 \in S
  <2>1. f[0] = <<>>
    BY <1>4, <1>5
  <2>2. Mine(t, p, 0) = {}
    BY DEF Mine
  <2>3. <<>> \in Seq(NetworkRec) /\ Len(<<>>) = 0 /\ 1..0 = {}
    OBVIOUS
  <2>4. Enumerates(<<>>, {})
    BY <2>3, FS_EmptySet DEF Enumerates
  <2>. QED
    BY <2>1, <2>2, <2>4
<1>7. ASSUME NEW k \in Nat, k \in S PROVE k + 1 \in S
  <2>. SUFFICES ASSUME k + 1 <= n PROVE Enumerates(f[k+1], Mine(t, p, k+1))
    OBVIOUS
  <2>. DEFINE m == k + 1
  <2>1. m \in 0..n /\ m # 0 /\ m - 1 = k /\ m \in 1..n /\ k <= n /\ k < m
    BY <1>4
  <2>2. Enumerates(f[k], Mine(t, p, k))
    BY <1>7, <2>1
  <2>3. Mine(t, p, m) = IF t.slot[m].protocol = p THEN Mine(t, p, k) \cup {t.slot[m]} ELSE Mine(t, p, k)
    BY MineGrows
  <2>4. t.slot[m] \in NetworkRec /\ t.slot[m] \notin Mine(t, p, k)
    <3>1. \A q \in 1..k : q \in 1..n /\ q # m
      BY <1>4, <2>1
    <3>2. \A q \in 1..k : t.slot[q] # t.slot[m]
      BY <1>4, <2>1, <3>1 DEF Sound
    <3>. QED
      BY <1>4, <2>1, <3>2 DEF Sound, Mine
  <2>. HIDE DEF m
  <2>5. f[m] = IF t.slot[m].protocol = p THEN Append(f[k], t.slot[m]) ELSE f[k]
    BY <1>5, <2>1
  <2>6. Enumerates(f[m], Mine(t, p, m))
    BY <2>2, <2>3, <2>4, <2>5, EnumerateMore
  <2>. QED
    BY <2>6 DEF m
<1>8. \A k \in Nat : k \in S
  <2>. HIDE DEF S
  <2>. QED
    BY <1>6, <1>7, Induct
<1>9. Enumerates(f[n], Mine(t, p, n))
  BY <1>4, <1>8
<1>. QED
  BY <1>3, <1>9 DEF n
----------------------------------------------------------------------------
(* Persistent networks are in flash and the one-time network is in RAM.    *)

\* No record of the flash table carries the index of the one-time network,
\* and the record of the RAM table carries no other, unless it is being
\* overwritten.  TLC checks HomeInv on the instance of network_faults.
HomeState ==
  /\ Absent(Uncut, 0)
  /\ Count(nw["RAM"]) > 0 /\ ~Patched("RAM") => nw["RAM"].slot[1].index = 0

HomeInv == Calm(faults.seen) => HomeState

\* Where nothing is read no record lies.
LEMMA AbsentWhenUnseen ==
  ASSUME NEW t, Count(t) \in Nat, Sound(t, Count(t)), Owned(t, Count(t)), NEW i,
         \A p : Seen(t, p, i) = NoRec
  PROVE  Absent(t, i)
<1>. SUFFICES ASSUME NEW q \in 1..Count(t), t.slot[q].index = i PROVE FALSE
  BY DEF Absent
<1>1. Seen(t, t.slot[q].protocol, i) = t.slot[q]
  BY SeenRecord
<1>2. t.slot[q] # NoRec
  BY RecAssumption DEF Sound
<1>. QED
  BY <1>1, <1>2

\* The two readings of the flash table during a call are sound.
LEMMA UncutIsSound ==
  TypeInv /\ GoodState =>
    Count(Uncut) \in Nat /\ Sound(Uncut, Count(Uncut)) /\ Owned(Uncut, Count(Uncut))
<1>. SUFFICES ASSUME TypeInv, GoodState
              PROVE  Count(Uncut) \in Nat /\ Sound(Uncut, Count(Uncut)) /\ Owned(Uncut, Count(Uncut))
  OBVIOUS
<1>1. CASE pc \notin RemoveLabels
  BY <1>1, GoodFacts DEF Uncut, BoatStoreType
<1>2. CASE pc \in RemoveLabels
  <2>1. /\ Sound(WriteNum(nw["FLASH"], ctx.num), Count(WriteNum(nw["FLASH"], ctx.num)))
        /\ Owned(WriteNum(nw["FLASH"], ctx.num), Count(WriteNum(nw["FLASH"], ctx.num)))
        /\ Uncut = WriteNum(nw["FLASH"], ctx.num)
    BY <1>2, RemoveWrites
  <2>2. nw["FLASH"] \in Table /\ ctx.num \in 0..BOAT_MAX_NETWORK_NUM
    BY Types DEF CtxSet, NetworkIndex
  <2>3. Count(Uncut) \in Nat
    BY <2>1, <2>2, NumWritten
  <2>. QED
    BY <2>1, <2>3
<1>. QED
  BY <1>1, <1>2

\* What the lowered number counts was counted before.
LEMMA AbsentCut ==
  ASSUME TypeInv, GoodState, Absent(Uncut, 0)
  PROVE  Absent(nw["FLASH"], 0)
<1>1. CASE pc \notin RemoveLabels
  BY <1>1 DEF Uncut
<1>2. CASE pc \in RemoveLabels
  <2>. DEFINE t == nw["FLASH"]
              u == WriteNum(t, ctx.num)
  <2>1. Removing(t, ctx.rec, ctx.num, ctx.pos) /\ Uncut = u
    BY <1>2, RemoveWrites
  <2>2. t \in Table /\ ctx.num \in 0..BOAT_MAX_NETWORK_NUM /\ ctx.num \in NetworkIndex
    BY Types DEF CtxSet, NetworkIndex
  <2>3. Count(u) = ctx.num /\ u.slot = t.slot
    BY <2>2, NumWritten
  <2>4. t.num = ctx.num - 1 /\ ctx.num >= 1
    BY <2>1, <2>2 DEF Removing
  <2>5. Count(t) = ctx.num - 1
    BY <2>2, <2>4 DEF Count, BadNum
  <2>. HIDE DEF u
  <2>6. \A q \in 1..Count(t) : q \in 1..Count(u)
    BY <2>2, <2>3, <2>5
  <2>. QED
    BY <2>1, <2>3, <2>6 DEF Absent
<1>. QED
  BY <1>1, <1>2

\* The one-time network that is being overwritten is written to the end, or
\* power is lost.
LEMMA PatchedGoesOn ==
  ASSUME TypeInv, [Next]_vars, Calm(faults'.seen), Patched("RAM"), pc' = "idle"
  PROVE  Crash
<1>0. ctx.index = 0 /\ pc \in {"nwIndex", "nwData"} /\ Mem(ctx.index) = "RAM" /\ ~Fault("overflow")
  BY NoRead, Types DEF Patched, Mem
<1>1. ~Goto("nwData") /\ ~Goto("nwNum")
  BY DEF Goto
<1>2. ~Store_Index /\ ~Store_Data
  BY <1>0, <1>1 DEF Store_Index, Store_Data, FlashFault
<1>3. ~StoreStep
  BY <1>0, <1>2 DEF StoreStep, Store_Protocol, Store_Num
<1>4. ~DeleteStep
  BY <1>0 DEF DeleteStep, Delete_Onetime, Delete_Num, Delete_Tail, Delete_RecoverLast, Delete_Recover
<1>5. ~Begins /\ ~PowerCycle /\ ~UNCHANGED vars
  BY <1>0, BeginsQuietly DEF PowerCycle, vars
<1>. QED
  BY <1>3, <1>4, <1>5, NextCases
\* The flash table as the call that ends leaves it.
LEMMA FlashHome ==
  ASSUME TypeInv, GoodState, GoodState', HomeState, [Next]_vars, Calm(faults'.seen),
         pc # "idle", pc' = "idle"
  PROVE  Absent(nw'["FLASH"], 0)
<1>. DEFINE t == nw["FLASH"]
<1>0. /\ nw \in [BoatStoreType -> Table] /\ "FLASH" \in BoatStoreType /\ "RAM" \in BoatStoreType
      /\ "FLASH" # "RAM"
  BY Types DEF BoatStoreType
<1>1. Absent(t, 0) /\ Absent(Uncut, 0)
  BY AbsentCut DEF HomeState
<1>2. ASSUME nw'["FLASH"] = t PROVE Absent(nw'["FLASH"], 0)
  BY <1>1, <1>2
<1>3. CASE StoreFails
  BY <1>2, <1>3 DEF StoreFails
<1>4. CASE Crash
  <2>1. nw'["FLASH"] = t
    BY <1>0, <1>4 DEF Crash, Reboot
  <2>. QED
    BY <1>2, <2>1
<1>5. CASE nw' = [nw EXCEPT !["RAM"] = WriteNum(nw["RAM"], BadNum)]
  <2>1. nw'["FLASH"] = t
    BY <1>0, <1>5
  <2>. QED
    BY <1>2, <2>1
<1>6. CASE /\ pc = "nwNum"
           /\ nw' = [nw EXCEPT ![Mem(ctx.index)] = WriteNum(nw[Mem(ctx.index)], ctx.num + 1)]
  <2>1. CASE ctx.index = 0
    <3>1. Mem(ctx.index) = "RAM"
      BY <2>1 DEF Mem
    <3>2. nw'["FLASH"] = t
      BY <1>0, <1>6, <3>1
    <3>. QED
      BY <1>2, <3>2
  <2>2. CASE ctx.index # 0
    <3>. DEFINE w == WriteNum(t, ctx.num + 1)
    <3>1. Mem(ctx.index) = "FLASH"
      BY <2>2 DEF Mem
    <3>2. nw'["FLASH"] = w
      BY <1>0, <1>6, <3>1
    <3>3. \A p : Seen(w, p, 0) = Seen(t, p, 0)
      BY <1>6, <2>2, <3>1, StoreNumWrites
    <3>. HIDE DEF w
    <3>4. \A p : Seen(w, p, 0) = NoRec
      BY <1>1, <3>3, SeenAbsent
    <3>5. Sound(w, Count(w)) /\ Owned(w, Count(w)) /\ Count(w) \in Nat
      <4>1. Sound(w, Count(w)) /\ Owned(w, Count(w))
        BY <1>6, <2>2, <3>1, StoreNumWrites DEF w
      <4>2. ctx.num + 1 \in 0..BOAT_MAX_NETWORK_NUM
        BY <1>6, Types, Maximum DEF CtxOK, CtxSet, NetworkIndex
      <4>3. Count(w) \in Nat
        BY <1>0, <4>2, NumWritten DEF w
      <4>. QED
        BY <4>1, <4>3
    <3>. QED
      BY <3>2, <3>4, <3>5, AbsentWhenUnseen
  <2>. QED
    BY <2>1, <2>2
<1>7. CASE /\ pc \in RemoveLabels
           /\ nw' = [nw EXCEPT !["FLASH"] = DropRec(t, ctx.pos, ctx.num)]
  <2>. DEFINE w == DropRec(t, ctx.pos, ctx.num)
  <2>1. nw'["FLASH"] = w /\ ctx.index # 0
    BY <1>0, <1>7, Types DEF CtxOK
  <2>2. /\ \A p : Seen(w, p, 0) = Seen(WriteNum(t, ctx.num), p, 0)
        /\ Uncut = WriteNum(t, ctx.num) /\ Sound(w, Count(w)) /\ Owned(w, Count(w))
        /\ w.num = t.num
    BY <1>7, <2>1, RemoveWrites DEF DropRec
  <2>3. Count(w) \in Nat
    BY <1>0, <2>2, CountIsNat DEF Count
  <2>. HIDE DEF w
  <2>4. \A p : Seen(w, p, 0) = NoRec
    BY <1>1, <2>2, SeenAbsent
  <2>. QED
    BY <2>1, <2>2, <2>3, <2>4, AbsentWhenUnseen
<1>8. CASE pc = "nwRecover" /\ nw' = [nw EXCEPT !["FLASH"] = WriteNum(t, ctx.num)]
  <2>1. nw'["FLASH"] = WriteNum(t, ctx.num)
    BY <1>0, <1>8
  <2>2. Uncut = WriteNum(t, ctx.num)
    BY <1>8 DEF Uncut, RemoveLabels
  <2>. QED
    BY <1>1, <2>1, <2>2
<1>. QED
  BY <1>3, <1>4, <1>5, <1>6, <1>7, <1>8, Endings

\* The RAM table as it is left.
LEMMA RamHome ==
  ASSUME TypeInv, GoodState, GoodState', HomeState, [Next]_vars, Calm(faults'.seen),
         pc # "idle", pc' = "idle", Count(nw'["RAM"]) > 0
  PROVE  nw'["RAM"].slot[1].index = 0
<1>0. /\ nw \in [BoatStoreType -> Table] /\ "FLASH" \in BoatStoreType /\ "RAM" \in BoatStoreType
      /\ "FLASH" # "RAM"
  BY Types DEF BoatStoreType
<1>1. ~Crash
  <2>1. ASSUME Crash PROVE Count(nw'["RAM"]) = 0
    <3>1. nw'["RAM"] = BlankTable(BOAT_MAX_NETWORK_NUM)
      BY <1>0, <2>1 DEF Crash, Reboot
    <3>2. Count(BlankTable(BOAT_MAX_NETWORK_NUM)) = 0
      BY BlankIsTable, Maximum
    <3>. QED
      BY <3>1, <3>2
  <2>. QED
    BY <2>1
<1>2. ~Patched("RAM")
  BY <1>1, PatchedGoesOn
<1>3. ASSUME nw'["RAM"] = nw["RAM"] PROVE nw'["RAM"].slot[1].index = 0
  BY <1>2, <1>3 DEF HomeState
<1>4. CASE StoreFails
  BY <1>3, <1>4 DEF StoreFails
<1>5. CASE \E w : nw' = [nw EXCEPT !["FLASH"] = w]
  <2>1. nw'["RAM"] = nw["RAM"]
    BY <1>0, <1>5
  <2>. QED
    BY <1>3, <2>1
<1>6. nw' # [nw EXCEPT !["RAM"] = WriteNum(nw["RAM"], BadNum)]
  <2>1. ASSUME nw' = [nw EXCEPT !["RAM"] = WriteNum(nw["RAM"], BadNum)] PROVE Count(nw'["RAM"]) = 0
    <3>1. nw'["RAM"] = WriteNum(nw["RAM"], BadNum)
      BY <1>0, <2>1
    <3>. QED
      BY <3>1 DEF WriteNum, Count
  <2>. QED
    BY <2>1
<1>7. CASE /\ pc = "nwNum"
           /\ nw' = [nw EXCEPT ![Mem(ctx.index)] = WriteNum(nw[Mem(ctx.index)], ctx.num + 1)]
  <2>1. CASE ctx.index # 0
    <3>1. Mem(ctx.index) = "FLASH"
      BY <2>1 DEF Mem
    <3>2. nw'["RAM"] = nw["RAM"]
      BY <1>0, <1>7, <3>1
    <3>. QED
      BY <1>3, <3>2
  <2>2. CASE ctx.index = 0
    <3>1. Mem(ctx.index) = "RAM"
      BY <2>2 DEF Mem
    <3>2. ctx.num = 0 /\ nw["RAM"].slot[ctx.num + 1] = ctx.rec
      BY <1>7, <2>2, <3>1 DEF GoodState, CallInv, StoreLabels
    <3>3. nw["RAM"].slot[1] = ctx.rec /\ ctx.rec.index = 0
      BY <1>7, <2>2, <3>2, Types DEF CtxOK
    <3>4. nw'["RAM"] = WriteNum(nw["RAM"], ctx.num + 1)
      BY <1>0, <1>7, <3>1
    <3>5. nw'["RAM"].slot = nw["RAM"].slot
      BY <3>4 DEF WriteNum
    <3>. QED
      BY <3>3, <3>5
  <2>. QED
    BY <2>1, <2>2
<1>. QED
  BY <1>1, <1>4, <1>5, <1>6, <1>7, Endings

LEMMA HomeStep == TypeInv /\ SoundInv /\ SoundInv' /\ HomeInv /\ [Next]_vars => HomeInv'
<1>. SUFFICES ASSUME TypeInv, SoundInv, SoundInv', HomeInv, [Next]_vars, Calm(faults'.seen)
              PROVE  HomeState'
  BY DEF HomeInv
<1>1. Calm(faults.seen)
  BY SeenGrows DEF Calm
<1>2. GoodState /\ GoodState' /\ HomeState
  BY <1>1 DEF SoundInv, HomeInv
<1>0. /\ nw \in [BoatStoreType -> Table] /\ "FLASH" \in BoatStoreType /\ "RAM" \in BoatStoreType
      /\ "FLASH" # "RAM"
  BY Types DEF BoatStoreType
<1>3. CASE pc = "idle"
  <2>1. Uncut = nw["FLASH"] /\ ~Patched("RAM")
    BY <1>3 DEF Uncut, RemoveLabels, Patched
  <2>2. ASSUME nw' = nw, pc' \in {"idle", "nwProtocol", "nwDel"} PROVE HomeState'
    <3>1. Uncut' = nw["FLASH"] /\ ~Patched("RAM")'
      BY <2>2 DEF Uncut, RemoveLabels, Patched
    <3>. QED
      BY <1>2, <2>1, <2>2, <3>1 DEF HomeState
  <2>3. CASE PowerCycle
    <3>1. nw'["RAM"] = BlankTable(BOAT_MAX_NETWORK_NUM) /\ nw'["FLASH"] = nw["FLASH"] /\ pc' = "idle"
      BY <1>0, <2>3 DEF PowerCycle, Reboot
    <3>2. Count(nw'["RAM"]) = 0
      BY <3>1, BlankIsTable, Maximum
    <3>3. Uncut' = nw["FLASH"]
      BY <3>1 DEF Uncut, RemoveLabels
    <3>4. Absent(Uncut', 0)
      BY <1>2, <2>1, <3>3 DEF HomeState
    <3>. QED
      BY <3>2, <3>4 DEF HomeState
  <2>4. Begins \/ PowerCycle \/ UNCHANGED vars
    BY <1>3, NextCases DEF StoreStep, DeleteStep, Store_Protocol, Store_Index, Store_Data,
       Store_Num, Delete_Onetime, Delete_Num, Delete_Tail, Delete_RecoverLast, Delete_Recover, Crash
  <2>5. UNCHANGED vars => nw' = nw /\ pc' = "idle"
    BY <1>3 DEF vars
  <2>. QED
    BY <2>2, <2>3, <2>4, <2>5, BeginsQuietly
<1>4. CASE pc # "idle" /\ pc' = "idle"
  <2>1. Uncut' = nw'["FLASH"]
    BY <1>4 DEF Uncut, RemoveLabels
  <2>2. Absent(nw'["FLASH"], 0)
    BY <1>2, <1>4, FlashHome
  <2>3. Count(nw'["RAM"]) > 0 => nw'["RAM"].slot[1].index = 0
    BY <1>2, <1>4, RamHome
  <2>. QED
    BY <2>1, <2>2, <2>3 DEF HomeState
<1>5. CASE pc # "idle" /\ pc' # "idle"
  <2>1. /\ ctx'.index = ctx.index
        /\ \A p : Seen(Uncut', p, 0) = Seen(Uncut, p, 0)
        /\ ctx.index # 0 => nw'["RAM"] = nw["RAM"]
        /\ ctx.index = 0 => pc' \in {"nwIndex", "nwData", "nwNum"} \/ UNCHANGED vars
    BY <1>2, <1>5, GoesOn
  <2>2. TypeInv'
    BY TypeStep
  <2>3. Absent(Uncut', 0)
    <3>1. \A p : Seen(Uncut', p, 0) = NoRec
      BY <1>2, <2>1, SeenAbsent DEF HomeState
    <3>2. (TypeInv /\ GoodState)' =>
            (Count(Uncut) \in Nat /\ Sound(Uncut, Count(Uncut)) /\ Owned(Uncut, Count(Uncut)))'
      BY UncutIsSound, PTL
    <3>3. Count(Uncut') \in Nat /\ Sound(Uncut', Count(Uncut')) /\ Owned(Uncut', Count(Uncut'))
      BY <1>2, <2>2, <3>2
    <3>. QED
      BY <3>1, <3>3, AbsentWhenUnseen
  <2>4. Count(nw'["RAM"]) > 0 /\ ~Patched("RAM")' => nw'["RAM"].slot[1].index = 0
    <3>1. CASE ctx.index # 0
      <4>1. ~Patched("RAM")
        BY <3>1 DEF Patched
      <4>. QED
        BY <1>2, <2>1, <3>1, <4>1 DEF HomeState
    <3>2. CASE UNCHANGED vars
      BY <1>2, <3>2 DEF HomeState, vars, Patched
    <3>3. CASE ctx.index = 0 /\ pc' \in {"nwIndex", "nwData"}
      BY <2>1, <3>3 DEF Patched
    <3>4. CASE ctx.index = 0 /\ pc' = "nwNum"
      <4>1. Mem(ctx'.index) = "RAM" /\ ctx'.index = 0
        BY <2>1, <3>4 DEF Mem
      <4>2. ctx'.num = 0 /\ nw'["RAM"].slot[ctx'.num + 1] = ctx'.rec
        BY <1>2, <3>4, <4>1 DEF GoodState, CallInv, StoreLabels
      <4>3. ctx'.rec.index = 0
        BY <2>2, <1>5, <4>1 DEF TypeInv, CtxOK
      <4>4. nw'["RAM"].slot[1] = ctx'.rec
        BY <4>2
      <4>. QED
        BY <4>3, <4>4
    <3>. QED
      BY <2>1, <3>1, <3>2, <3>3, <3>4
  <2>. QED
    BY <2>3, <2>4 DEF HomeState
<1>. QED
  BY <1>3, <1>4, <1>5

LEMMA HomeInit == Init => HomeInv
<1>. SUFFICES ASSUME Init PROVE HomeState
  BY DEF HomeInv
<1>. DEFINE b == BlankTable(BOAT_MAX_NETWORK_NUM)
<1>1. Count(b) = 0
  BY BlankIsTable, Maximum
<1>. HIDE DEF b
<1>2. nw["RAM"] = b /\ nw["FLASH"] = b /\ pc = "idle"
  BY DEF Init, BoatStoreType, b
<1>3. Uncut = b /\ Absent(b, 0)
  BY <1>1, <1>2 DEF Uncut, RemoveLabels, Absent
<1>. QED
  BY <1>1, <1>2, <1>3 DEF HomeState

\* The ten lists are built alike, in arrays of two lengths.
Places(p) == IF p \in {"CHAINMAKER", "CITA"} THEN BOAT_MAX_NETWORK_NUM ELSE BOAT_MAX_NETWORK_NUM + 1

LEMMA ListIsListed ==
  ASSUME NEW T, NEW p \in AllProtocols
  PROVE  LET all == Listed(T["FLASH"], p) \o Listed(T["RAM"], p)
         IN  /\ GetNetworkList(T, p).networks =
                  SubSeq(all, 1, IF Len(all) <= Places(p) THEN Len(all) ELSE Places(p))
             /\ GetNetworkList(T, p).behind = SubSeq(all, Places(p) + 1, Len(all))
<1>1. GetNetworkList(T, p) = NetworkList(T, p, Places(p))
  BY DEF GetNetworkList, AllProtocols, Places, BoATEth_GetNetworkList, BoATPlatON_GetNetworkList,
     BoATPlatone_GetNetworkList, BoATQuorum_GetNetworkList, BoATVenachain_GetNetworkList,
     BoATFiscobcos_GetNetworkList, BoATHlfabric_GetNetworkList, BoATHwbcs_GetNetworkList,
     BoATChainmaker_GetNetworkList, BoATCita_GetNetworkList
<1>. DEFINE all == Listed(T["FLASH"], p) \o Listed(T["RAM"], p)
            n   == Places(p)
            a   == SubSeq(all, 1, IF Len(all) <= n THEN Len(all) ELSE n)
            b   == SubSeq(all, n + 1, Len(all))
<1>2. NetworkList(T, p, n) = [num |-> Count(T["FLASH"]) + Count(T["RAM"]), networks |-> a, behind |-> b]
  BY DEF NetworkList
<1>. HIDE DEF a, b
<1>3. NetworkList(T, p, n).networks = a /\ NetworkList(T, p, n).behind = b
  BY <1>2
<1>. QED
  BY <1>1, <1>3 DEF a, b

\* A sequence cut after n elements.
LEMMA CutSequence ==
  ASSUME NEW S, NEW c \in Seq(S), NEW n \in Nat
  PROVE  LET a == SubSeq(c, 1, IF Len(c) <= n THEN Len(c) ELSE n)
             b == SubSeq(c, n + 1, Len(c))
         IN  /\ Len(a) + Len(b) = Len(c)
             /\ {a[j] : j \in DOMAIN a} \cup {b[j] : j \in DOMAIN b} = {c[j] : j \in 1..Len(c)}
             /\ Len(c) <= n => b = <<>>
             /\ Len(c) = n + 1 => b = <<c[Len(c)]>>
<1>. DEFINE k == IF Len(c) <= n THEN Len(c) ELSE n
            a == SubSeq(c, 1, k)
            b == SubSeq(c, n + 1, Len(c))
<1>1. Len(c) \in Nat /\ k \in Nat /\ k <= Len(c) /\ k <= n /\ (k < Len(c) => k = n)
  OBVIOUS
<1>. HIDE DEF k
<1>2. a \in Seq(S) /\ Len(a) = k /\ \A j \in 1..k : a[j] = c[j]
  BY <1>1
<1>3. b \in Seq(S) /\ Len(b) = Len(c) - k /\ \A j \in 1..(Len(c) - k) : b[j] = c[n + j]
  <2>1. CASE k = Len(c)
    BY <1>1, <2>1
  <2>2. CASE k < Len(c)
    BY <1>1, <2>2
  <2>. QED
    BY <1>1, <2>1, <2>2
<1>4. DOMAIN a = 1..k /\ DOMAIN b = 1..(Len(c) - k)
  BY <1>2, <1>3
<1>. HIDE DEF a, b
<1>5. \A j \in DOMAIN a : \E i \in 1..Len(c) : a[j] = c[i]
  BY <1>1, <1>2, <1>4
<1>6. \A j \in DOMAIN b : \E i \in 1..Len(c) : b[j] = c[i]
  <2>. SUFFICES ASSUME NEW j \in DOMAIN b PROVE n + j \in 1..Len(c) /\ b[j] = c[n + j]
    OBVIOUS
  <2>1. j \in 1..(Len(c) - k)
    BY <1>4
  <2>2. n + j \in 1..Len(c)
    BY <1>1, <2>1
  <2>. QED
    BY <1>3, <2>1, <2>2
<1>7. \A i \in 1..Len(c) : (\E j \in DOMAIN a : a[j] = c[i]) \/ \E j \in DOMAIN b : b[j] = c[i]
  <2>. SUFFICES ASSUME NEW i \in 1..Len(c)
                PROVE  (\E j \in DOMAIN a : a[j] = c[i]) \/ \E j \in DOMAIN b : b[j] = c[i]
    OBVIOUS
  <2>1. CASE i <= k
    <3>1. i \in DOMAIN a /\ a[i] = c[i]
      BY <1>1, <1>2, <1>4, <2>1
    <3>. QED
      BY <3>1
  <2>2. CASE ~(i <= k)
    <3>. DEFINE j == i - n
    <3>1. j \in DOMAIN b /\ n + j = i
      BY <1>1, <1>4, <2>2
    <3>. HIDE DEF j
    <3>2. b[j] = c[i]
      BY <1>3, <1>4, <3>1
    <3>. QED
      BY <3>1, <3>2
  <2>. QED
    BY <2>1, <2>2
<1>8. {a[j] : j \in DOMAIN a} \cup {b[j] : j \in DOMAIN b} = {c[j] : j \in 1..Len(c)}
  BY <1>5, <1>6, <1>7
<1>9. Len(c) <= n => b = <<>>
  BY <1>1, <1>3 DEF k
<1>10. Len(c) = n + 1 => b = <<c[Len(c)]>>
  <2>. SUFFICES ASSUME Len(c) = n + 1 PROVE b = <<c[Len(c)]>>
    OBVIOUS
  <2>1. Len(b) = 1 /\ b[1] = c[Len(c)]
    BY <1>1, <1>3 DEF k
  <2>. DEFINE y == c[Len(c)]
  <2>. HIDE DEF y
  <2>2. b = [i \in 1..1 |-> b[i]]
    <3>1. b = [i \in 1..Len(b) |-> b[i]]
      BY <1>3
    <3>. QED
      BY <2>1, <3>1
  <2>3. b = [i \in 1..1 |-> y]
    BY <2>1, <2>2 DEF y
  <2>4. <<y>> = [i \in 1..1 |-> y]
    OBVIOUS
  <2>. QED
    BY <2>3, <2>4 DEF y
<1>11. Len(a) + Len(b) = Len(c)
  BY <1>1, <1>2, <1>3
<1>. QED
  BY <1>8, <1>9, <1>10, <1>11 DEF a, b, k

\* A protocol has at most as many networks in flash as there are indices, and
\* when it has so many it has one at every index.
LEMMA MineAreFew ==
  ASSUME NEW t, NEW p, Count(t) \in Nat, Sound(t, Count(t)), Absent(t, 0), NEW F, F = Mine(t, p, Count(t))
  PROVE  /\ IsFiniteSet(F) /\ Cardinality(F) \in Nat /\ Cardinality(F) <= BOAT_MAX_NETWORK_NUM
         /\ Cardinality(F) = BOAT_MAX_NETWORK_NUM => \A i \in Persistent : \E x \in F : x.index = i
<1>. DEFINE f == [x \in F |-> x.index]
<1>1. \A x \in F : x.index \in Persistent
  <2>. SUFFICES ASSUME NEW x \in F PROVE x.index \in Persistent
    OBVIOUS
  <2>1. PICK q \in 1..Count(t) : x = t.slot[q]
    BY DEF Mine
  <2>2. x \in NetworkRec /\ x.index # 0
    BY <2>1 DEF Sound, Absent
  <2>3. x.index \in NetworkIndex
    BY <2>2 DEF NetworkRec
  <2>. QED
    BY <2>2, <2>3, Maximum DEF NetworkIndex, Persistent
<1>2. \A x, y \in F : x.index = y.index => x = y
  BY DEF Mine, Sound
<1>3. f \in Injection(F, Persistent)
  BY <1>1, <1>2 DEF Injection, IsInjective
<1>4. IsFiniteSet(Persistent) /\ Cardinality(Persistent) = BOAT_MAX_NETWORK_NUM
  <2>1. BOAT_MAX_NETWORK_NUM \in Nat \ {0} /\ BOAT_MAX_NETWORK_NUM \in Int /\ 1 \in Int
    BY Maximum
  <2>2. /\ IsFiniteSet(1..BOAT_MAX_NETWORK_NUM)
        /\ Cardinality(1..BOAT_MAX_NETWORK_NUM) =
             IF 1 > BOAT_MAX_NETWORK_NUM THEN 0 ELSE BOAT_MAX_NETWORK_NUM - 1 + 1
    BY <2>1, FS_Interval
  <2>. QED
    BY <2>1, <2>2 DEF Persistent
<1>. HIDE DEF f
<1>5. /\ IsFiniteSet(F) /\ Cardinality(F) <= BOAT_MAX_NETWORK_NUM
      /\ Cardinality(F) = BOAT_MAX_NETWORK_NUM => f \in Surjection(F, Persistent)
  BY <1>3, <1>4, FS_Injection
<1>6. Cardinality(F) \in Nat
  BY <1>5, FS_CardinalityType
<1>. QED
  BY <1>5, <1>6 DEF Surjection, f

\* What a protocol reads at all indices is what its records are.
LEMMA ReadsAreMine ==
  ASSUME TypeInv, GoodState, HomeState, pc = "idle", NEW p \in built
  PROVE  LET F == Mine(nw["FLASH"], p, Count(nw["FLASH"]))
             R == Mine(nw["RAM"], p, Count(nw["RAM"]))
         IN  /\ {GetNetworkByIndex(nw, p, i) : i \in NetworkIndex} \ {NoRec} = F \cup R
             /\ F \cap R = {}
<1>. DEFINE t == nw["FLASH"]
            u == nw["RAM"]
            F == Mine(t, p, Count(t))
            R == Mine(u, p, Count(u))
<1>0. /\ p \in AllProtocols /\ t \in Table /\ u \in Table
      /\ Count(t) \in Nat /\ Sound(t, Count(t)) /\ Owned(t, Count(t))
      /\ Count(u) \in Nat /\ Sound(u, Count(u)) /\ Owned(u, Count(u)) /\ Count(u) <= 1
  BY Types, GoodFacts DEF BoatStoreType
<1>1. Absent(t, 0) /\ (Count(u) > 0 => u.slot[1].index = 0)
  BY DEF HomeState, Uncut, RemoveLabels, Patched
<1>2. \A q \in 1..Count(u) : u.slot[q].index = 0
  <2>1. \A q \in 1..Count(u) : q = 1 /\ Count(u) > 0
    BY <1>0
  <2>. QED
    BY <1>1, <2>1
<1>3. \A q \in 1..Count(t) : t.slot[q].index \in NetworkIndex /\ t.slot[q].index # 0
  BY <1>0, <1>1 DEF Absent, Sound, NetworkRec
<1>. HIDE DEF t, u
<1>4. \A i \in NetworkIndex : GetNetworkByIndex(nw, p, i) = IF i = 0 THEN Seen(u, p, 0) ELSE Seen(t, p, i)
  BY <1>0, GetIsSeen DEF Mem, t, u
<1>5. 0 \in NetworkIndex
  BY Maximum DEF NetworkIndex
<1>6. \A x \in F : x # NoRec /\ \E i \in NetworkIndex : x = GetNetworkByIndex(nw, p, i)
  <2>. SUFFICES ASSUME NEW x \in F PROVE x # NoRec /\ \E i \in NetworkIndex : x = GetNetworkByIndex(nw, p, i)
    OBVIOUS
  <2>1. PICK q \in 1..Count(t) : t.slot[q].protocol = p /\ x = t.slot[q]
    BY DEF Mine
  <2>2. Seen(t, p, t.slot[q].index) = x
    BY <1>0, <2>1, SeenRecord
  <2>3. x # NoRec
    BY <1>0, <2>1, RecAssumption DEF Sound
  <2>. QED
    BY <1>3, <1>4, <2>2, <2>3
<1>7. \A x \in R : x # NoRec /\ \E i \in NetworkIndex : x = GetNetworkByIndex(nw, p, i)
  <2>. SUFFICES ASSUME NEW x \in R PROVE x # NoRec /\ \E i \in NetworkIndex : x = GetNetworkByIndex(nw, p, i)
    OBVIOUS
  <2>1. PICK q \in 1..Count(u) : u.slot[q].protocol = p /\ x = u.slot[q]
    BY DEF Mine
  <2>2. Seen(u, p, u.slot[q].index) = x
    BY <1>0, <2>1, SeenRecord
  <2>3. x # NoRec
    BY <1>0, <2>1, RecAssumption DEF Sound
  <2>. QED
    BY <1>2, <1>4, <1>5, <2>2, <2>3
<1>8. ASSUME NEW i \in NetworkIndex, NEW v, NEW n, n = Count(v), n \in Nat, Sound(v, n), Owned(v, n),
             Seen(v, p, i) # NoRec
      PROVE  Seen(v, p, i) \in Mine(v, p, n)
  <2>1. ~Absent(v, i)
    BY <1>8, SeenAbsent
  <2>2. PICK q \in 1..n : v.slot[q].index = i
    BY <1>8, <2>1 DEF Absent
  <2>3. Seen(v, p, i) = IF v.slot[q].protocol = p THEN v.slot[q] ELSE NoRec
    BY <1>8, <2>2, SeenRecord
  <2>. QED
    BY <1>8, <2>2, <2>3 DEF Mine
<1>9. ASSUME NEW i \in NetworkIndex, GetNetworkByIndex(nw, p, i) # NoRec
      PROVE  GetNetworkByIndex(nw, p, i) \in F \cup R
  <2>1. CASE i = 0
    <3>1. GetNetworkByIndex(nw, p, i) = Seen(u, p, i)
      BY <1>4, <2>1
    <3>. QED
      BY <1>0, <1>8, <1>9, <3>1
  <2>2. CASE i # 0
    <3>1. GetNetworkByIndex(nw, p, i) = Seen(t, p, i)
      BY <1>4, <2>2
    <3>. QED
      BY <1>0, <1>8, <1>9, <3>1
  <2>. QED
    BY <2>1, <2>2
<1>10. F \cap R = {}
  BY <1>2, <1>3 DEF Mine
<1>. HIDE DEF F, R
<1>11. {GetNetworkByIndex(nw, p, i) : i \in NetworkIndex} \ {NoRec} = F \cup R
  BY <1>6, <1>7, <1>9
<1>. QED
  BY <1>10, <1>11 DEF F, R, t, u

\* The list a protocol gets between two calls shows every network the protocol
\* reads by its index exactly once and nothing else, for every number of
\* networks and whichever protocols share the table, after any creates and
\* deletes, failed writes and allocations and losses of power; a network is
\* written behind the array by ChainMaker and CITA alone, and then it is the
\* one-time network and every persistent index has one of theirs.
THEOREM NetworkListShowsEveryNetwork == Spec => []ListShowsEveryNetwork
<1>1. TypeInv /\ SoundInv /\ HomeInv => ListShowsEveryNetwork
  <2>. SUFFICES ASSUME TypeInv, SoundInv, HomeInv, pc = "idle", Calm(faults.seen), NEW p \in built
                PROVE  LET list   == GetNetworkList(nw, p).networks
                           behind == GetNetworkList(nw, p).behind
                           mine   == {GetNetworkByIndex(nw, p, i) : i \in NetworkIndex} \ {NoRec}
                       IN  /\ Len(list) + Len(behind) = Cardinality(mine)
                           /\ {list[j] : j \in DOMAIN list} \cup {behind[j] : j \in DOMAIN behind} = mine
                           /\ behind # <<>> => /\ p \in {"CHAINMAKER", "CITA"}
                                               /\ behind = <<GetNetworkByIndex(nw, p, 0)>>
                                               /\ \A i \in Persistent : GetNetworkByIndex(nw, p, i) # NoRec
    BY DEF ListShowsEveryNetwork, Calm
  <2>. DEFINE t == nw["FLASH"]
              u == nw["RAM"]
              F == Mine(t, p, Count(t))
              R == Mine(u, p, Count(u))
              l == Listed(t, p)
              k == Listed(u, p)
              mine   == {GetNetworkByIndex(nw, p, i) : i \in NetworkIndex} \ {NoRec}
              list   == GetNetworkList(nw, p).networks
              behind == GetNetworkList(nw, p).behind
  <2>1. GoodState /\ HomeState /\ p \in AllProtocols
    BY Types DEF SoundInv, HomeInv
  <2>2. mine = F \cup R /\ F \cap R = {}
    BY <2>1, ReadsAreMine
  <2>3. /\ Count(t) \in Nat /\ Sound(t, Count(t)) /\ Owned(t, Count(t))
        /\ Count(u) \in Nat /\ Sound(u, Count(u)) /\ Owned(u, Count(u)) /\ Count(u) <= 1
    BY <2>1, GoodFacts DEF BoatStoreType
  <2>4. Absent(t, 0) /\ (Count(u) > 0 => u.slot[1].index = 0)
    BY <2>1 DEF HomeState, Uncut, RemoveLabels, Patched
  <2>5. Enumerates(l, F) /\ Enumerates(k, R)
    BY <2>3, ListedIs
  <2>6. \A i \in NetworkIndex : GetNetworkByIndex(nw, p, i) = IF i = 0 THEN Seen(u, p, 0) ELSE Seen(t, p, i)
    BY <2>1, <2>3, GetIsSeen DEF Mem
  <2>. DEFINE c == l \o k
              n == Places(p)
  <2>7. list = SubSeq(c, 1, IF Len(c) <= n THEN Len(c) ELSE n) /\ behind = SubSeq(c, n + 1, Len(c))
    BY <2>1, ListIsListed
  <2>8. /\ Cardinality(F) \in Nat /\ Cardinality(F) <= BOAT_MAX_NETWORK_NUM
        /\ Cardinality(F) = BOAT_MAX_NETWORK_NUM => \A i \in Persistent : \E x \in F : x.index = i
    BY <2>3, <2>4, MineAreFew
  <2>9. R # {} => R = {u.slot[1]} /\ 1 \in 1..Count(u) /\ u.slot[1].protocol = p
    <3>. SUFFICES ASSUME NEW x \in R PROVE R = {u.slot[1]} /\ 1 \in 1..Count(u) /\ u.slot[1].protocol = p
      OBVIOUS
    <3>1. \A q \in 1..Count(u) : q = 1
      BY <2>3
    <3>2. PICK q \in 1..Count(u) : u.slot[q].protocol = p
      BY DEF Mine
    <3>3. 1 \in 1..Count(u) /\ u.slot[1].protocol = p
      BY <3>1, <3>2
    <3>4. {i \in 1..Count(u) : u.slot[i].protocol = p} = {1}
      BY <3>1, <3>3
    <3>. QED
      BY <3>3, <3>4 DEF Mine
  <2>10. \A x \in F : x = Seen(t, p, x.index) /\ x # NoRec
    <3>. SUFFICES ASSUME NEW x \in F PROVE x = Seen(t, p, x.index) /\ x # NoRec
      OBVIOUS
    <3>1. PICK q \in 1..Count(t) : t.slot[q].protocol = p /\ x = t.slot[q]
      BY DEF Mine
    <3>. QED
      BY <2>3, <3>1, SeenRecord, RecAssumption DEF Sound
  <2>11. R # {} => R = {Seen(u, p, 0)}
    <3>. SUFFICES ASSUME R # {} PROVE R = {Seen(u, p, 0)}
      OBVIOUS
    <3>1. 1 \in 1..Count(u) /\ u.slot[1].protocol = p /\ u.slot[1].index = 0
      BY <2>3, <2>4, <2>9
    <3>2. Seen(u, p, u.slot[1].index) = u.slot[1]
      BY <2>3, <3>1, SeenRecord
    <3>. QED
      BY <2>9, <3>1, <3>2
  <2>12. /\ n \in Nat
         /\ \/ n = BOAT_MAX_NETWORK_NUM + 1
            \/ n = BOAT_MAX_NETWORK_NUM /\ p \in {"CHAINMAKER", "CITA"}
    BY Maximum DEF Places
  <2>. HIDE DEF F, R, l, k, t, u, n, mine, list, behind
  <2>13. /\ l \in Seq(NetworkRec) /\ Len(l) = Cardinality(F)
         /\ k \in Seq(NetworkRec) /\ Len(k) = Cardinality(R) /\ {k[j] : j \in 1..Len(k)} = R
    BY <2>5 DEF Enumerates
  <2>14. \/ Cardinality(R) = 0
         \/ Cardinality(R) = 1 /\ R = {Seen(u, p, 0)}
    <3>1. Cardinality({}) = 0 /\ \A x : Cardinality({x}) = 1
      BY FS_EmptySet, FS_Singleton
    <3>. QED
      BY <2>11, <3>1
  <2>15. Len(c) = Len(l) + Len(k) /\ Len(l) \in Nat /\ Len(k) \in 0..1
         /\ (Len(k) = 1 => c[Len(c)] = k[1])
    BY <2>13, <2>14
  <2>16. Enumerates(c, F \cup R)
    BY <2>2, <2>5, EnumerateBoth
  <2>. HIDE DEF c
  <2>17. c \in Seq(NetworkRec) /\ Len(c) = Cardinality(mine) /\ {c[j] : j \in 1..Len(c)} = mine
    BY <2>2, <2>16 DEF Enumerates
  <2>. DEFINE a == SubSeq(c, 1, IF Len(c) <= n THEN Len(c) ELSE n)
              b == SubSeq(c, n + 1, Len(c))
  <2>18. /\ Len(a) + Len(b) = Len(c)
         /\ {a[j] : j \in DOMAIN a} \cup {b[j] : j \in DOMAIN b} = {c[j] : j \in 1..Len(c)}
         /\ Len(c) <= n => b = <<>>
         /\ Len(c) = n + 1 => b = <<c[Len(c)]>>
    BY <2>12, <2>17, CutSequence
  <2>19. list = a /\ behind = b
    BY <2>7
  <2>. HIDE DEF a, b
  <2>20. /\ Len(list) + Len(behind) = Len(c)
         /\ {list[j] : j \in DOMAIN list} \cup {behind[j] : j \in DOMAIN behind} = {c[j] : j \in 1..Len(c)}
         /\ Len(c) <= n => behind = <<>>
         /\ Len(c) = n + 1 => behind = <<c[Len(c)]>>
    BY <2>18, <2>19
  <2>21. ASSUME behind # <<>>
         PROVE  /\ p \in {"CHAINMAKER", "CITA"}
                /\ behind = <<GetNetworkByIndex(nw, p, 0)>>
                /\ \A i \in Persistent : GetNetworkByIndex(nw, p, i) # NoRec
    <3>1. ~(Len(c) <= n)
      BY <2>20, <2>21
    <3>2. n = BOAT_MAX_NETWORK_NUM /\ p \in {"CHAINMAKER", "CITA"} /\ Len(l) = n /\ Len(k) = 1 /\ Len(c) = n + 1
      BY <3>1, <2>8, <2>12, <2>13, <2>15, Maximum
    <3>3. k[1] = Seen(u, p, 0)
      <4>1. R = {Seen(u, p, 0)}
        BY <3>2, <2>13, <2>14
      <4>2. 1 \in 1..Len(k)
        BY <3>2
      <4>3. k[1] \in R
        BY <4>2, <2>13
      <4>. QED
        BY <4>1, <4>3
    <3>4. 0 \in NetworkIndex /\ \A i \in Persistent : i \in NetworkIndex /\ i # 0
      BY Maximum DEF NetworkIndex, Persistent
    <3>5. behind = <<GetNetworkByIndex(nw, p, 0)>>
      BY <3>2, <3>3, <3>4, <2>6, <2>15, <2>20
    <3>6. \A i \in Persistent : \E x \in F : x.index = i
      BY <3>2, <2>8, <2>13
    <3>7. \A i \in Persistent : GetNetworkByIndex(nw, p, i) # NoRec
      BY <3>4, <3>6, <2>6, <2>10
    <3>. QED
      BY <3>2, <3>5, <3>7
  <2>. QED
    BY <2>17, <2>20, <2>21 DEF mine, list, behind
<1>. QED
  BY <1>1, TypeInit, TypeStep, SoundInit, SoundStep, HomeInit, HomeStep, PTL DEF Spec
=============================================================================
