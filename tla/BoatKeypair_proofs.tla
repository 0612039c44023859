------------------------- MODULE BoatKeypair_proofs -------------------------
(***************************************************************************)
(* Type correctness of the keypair store and soundness of its tables, for  *)
(* every number of keypairs, every set of keys and names and every number  *)
(* of faults.  TypeOK alone is not inductive: the count a store is about   *)
(* to write is one more than a local of the call, so CtxOK says what the   *)
(* locals are at each write.                                               *)
(***************************************************************************)
EXTENDS BoatKeypair, NvramTable_proofs

Table == TableOf(BOAT_MAX_KEYPAIR_NUM, KeypairRec)

\* What the locals of the running call are, faults or not.
CtxOK ==
  /\ pc # "idle" => ctx.index \in KeypairIndex
  /\ pc \in {"kpNum", "pkNum"} => ctx.num < BOAT_MAX_KEYPAIR_NUM
  /\ pc \in {"kpRec", "kpNum"} /\ ~ctx.restore => ctx.rec \in KeypairRec
  /\ pc \in {"pkRec", "pkNum"} => ctx.rec \in KeypairRec /\ ~ctx.restore
  /\ pc \in {"kpTail", "kpRecover", "pkDel", "pkTail", "pkRecover"} =>
       ctx.index # 0 /\ ~ctx.restore
  /\ ctx.restore => ctx.index # 0
  /\ pc = "idle" => ctx = NoCtx
  /\ pc = "kpDel" => ~ctx.restore

TypeInv == TypeOK /\ CtxOK

----------------------------------------------------------------------------
(* Type correctness.                                                       *)

CtxSet == [api : {"none", "create", "delete"}, index : KeypairIndex \cup {NoIndex},
           rec : KeypairRec \cup {NoRec}, num : KeypairIndex, pos : KeypairIndex,
           restore : BOOLEAN]
RetSet == [op : {"none", "create", "delete", "boot", "crash"},
           index : NoIndex..(BOAT_MAX_KEYPAIR_NUM + 1), ok : BOOLEAN]
FaultSet == [left : 0..MaxFaults, seen : SUBSET FaultKinds]
Labels == {"idle", "kpRec", "kpNum", "pkRec", "pkNum", "kpDel", "kpTail",
           "kpRecover", "pkDel", "pkTail", "pkRecover"}

\* TypeOK by its parts.
LEMMA TypeParts ==
  TypeOK <=> /\ kp \in [BoatStoreType -> Table]
             /\ pk \in [BoatStoreType -> Table]
             /\ pc \in Labels
             /\ ctx \in CtxSet
             /\ ret \in RetSet
             /\ faults \in FaultSet
BY DEF TypeOK, Table, Labels, CtxSet, RetSet, FaultSet

\* The length of a keypair record is a number.
LEMMA LenIsNat ==
  ASSUME NEW n \in Nat
  PROVE  BoATKeypair_Get_DataCtx_Len(n) \in Nat
<1>1. \A k \in Nat : LvLen(k) \in Nat
  BY DEF LvLen, UtilityGetTLV_LL_from_len
<1>. QED
  BY <1>1 DEF BoATKeypair_Get_DataCtx_Len

\* A fault uses up one of the faults that are left, and is remembered.
LEMMA FaultEffect ==
  ASSUME faults \in FaultSet, NEW kind, Fault(kind)
  PROVE  faults' \in FaultSet /\ faults.seen \subseteq faults'.seen /\ kind \in faults'.seen
BY FaultAssumption DEF Fault, FaultSet

\* A call that returns leaves the store idle with no locals.
LEMMA ReturnEffect ==
  ASSUME TypeInv, pc # "idle", NEW ok \in BOOLEAN, Return(ok)
  PROVE  pc' = "idle" /\ ctx' = NoCtx /\ ret' \in RetSet
<1>1. ctx.api \in {"none", "create", "delete"} /\ ctx.index \in KeypairIndex
  BY TypeParts DEF TypeInv, CtxOK, CtxSet
<1>2. ctx.index \in NoIndex..(BOAT_MAX_KEYPAIR_NUM + 1)
  BY <1>1, MaxAssumption DEF KeypairIndex, NoIndex
<1>. QED
  BY <1>1, <1>2 DEF Return, RetSet

LEMMA DeletedEffect ==
  ASSUME TypeInv, pc # "idle", NEW ok \in BOOLEAN, Deleted(ok)
  PROVE  pc' = "idle" /\ ctx' = NoCtx /\ ret' \in RetSet
BY ReturnEffect DEF Deleted

LEMMA NoCtxType == NoCtx \in CtxSet /\ NoCtx.restore = FALSE
BY MaxAssumption DEF NoCtx, CtxSet, KeypairIndex

\* A state with no call under way satisfies CtxOK.
LEMMA IdleCtxOK ==
  ASSUME pc' = "idle", ctx' = NoCtx
  PROVE  ctx' \in CtxSet /\ pc' \in Labels /\ CtxOK'
BY NoCtxType DEF CtxOK, Labels

\* Replacing one of the two tables.
LEMMA PutTable ==
  ASSUME NEW T \in [BoatStoreType -> Table], NEW m \in BoatStoreType, NEW t \in Table
  PROVE  [T EXCEPT ![m] = t] \in [BoatStoreType -> Table]
OBVIOUS

LEMMA TypeInvNext ==
  ASSUME kp' \in [BoatStoreType -> Table], pk' \in [BoatStoreType -> Table],
         pc' \in Labels, ctx' \in CtxSet, ret' \in RetSet, faults' \in FaultSet, CtxOK'
  PROVE  TypeInv'
BY DEF TypeInv, TypeOK, Table, Labels, CtxSet, RetSet, FaultSet

\* What a call that may fail does to the faults, in all its forms.
LEMMA FaultForms ==
  ASSUME faults \in FaultSet, NEW m, NEW t, NEW n,
         \/ UNCHANGED faults
         \/ \E kind \in AllFaultKinds : Fault(kind) \/ FlashFault(m, kind)
         \/ StoreHeader(m, t, n) \/ StoreFault(m, t) \/ TailFault
  PROVE  faults' \in FaultSet /\ faults.seen \subseteq faults'.seen
BY FaultEffect DEF FlashFault, StoreHeader, StoreFault, TailFault

\* The types a step starts from.
LEMMA Types ==
  ASSUME TypeInv
  PROVE  /\ kp \in [BoatStoreType -> Table] /\ pk \in [BoatStoreType -> Table]
         /\ pc \in Labels /\ ctx \in CtxSet /\ ret \in RetSet /\ faults \in FaultSet
         /\ CtxOK
         /\ kp["RAM"] \in Table /\ kp["FLASH"] \in Table
         /\ pk["RAM"] \in Table /\ pk["FLASH"] \in Table
<1>1. TypeOK /\ CtxOK
  BY DEF TypeInv
<1>2. kp \in [BoatStoreType -> Table] /\ pk \in [BoatStoreType -> Table]
  BY <1>1, TypeParts
<1>. QED
  BY <1>1, <1>2, TypeParts DEF BoatStoreType

LEMMA MemType ==
  ASSUME NEW i
  PROVE  Mem(i) \in BoatStoreType /\ (Mem(i) = "RAM" <=> i = 0)
BY DEF Mem, BoatStoreType

\* The locals of a call that begins.
LEMMA StartCreateType ==
  ASSUME TypeInv, NEW i \in KeypairIndex, NEW k \in Keys, NEW n \in NameLens,
         StartCreate(i, k, n)
  PROVE  /\ ctx' \in CtxSet /\ pc' \in Labels /\ CtxOK'
         /\ pc' = "kpRec" /\ ctx'.index = i /\ ctx'.rec \in KeypairRec /\ ctx'.rec.index = i
<1>. DEFINE r == [index |-> i, key |-> k, len |-> BoATKeypair_Get_DataCtx_Len(n)]
<1>1. r \in KeypairRec /\ r.index = i
  BY LenIsNat, NameAssumption DEF KeypairRec
<1>2. ctx' = [api |-> "create", index |-> i, rec |-> r, num |-> 0, pos |-> 0, restore |-> FALSE]
  BY DEF StartCreate, NoCtx
<1>3. pc' = "kpRec"
  BY DEF StartCreate, Goto
<1>4. 0 \in KeypairIndex
  BY MaxAssumption DEF KeypairIndex
<1>. HIDE DEF r
<1>5. ctx' \in CtxSet
  BY <1>1, <1>2, <1>4 DEF CtxSet
<1>6. CtxOK'
  BY <1>1, <1>2, <1>3 DEF CtxOK
<1>. QED
  BY <1>1, <1>2, <1>3, <1>5, <1>6 DEF Labels

LEMMA FreeIndexType ==
  ASSUME NEW n, NEW seen,
         BoATKeypair_GetFreeIndex_From_Persistent(n, seen) # NoIndex
  PROVE  /\ BoATKeypair_GetFreeIndex_From_Persistent(n, seen) \in Persistent \ seen
         /\ BoATKeypair_GetFreeIndex_From_Persistent(n, seen) \in KeypairIndex
<1>1. ~(Persistent \subseteq seen)
  BY DEF BoATKeypair_GetFreeIndex_From_Persistent
<1>2. LeastFree(seen, BOAT_MAX_KEYPAIR_NUM) \in Persistent \ seen
  BY <1>1, LeastFreeIsFree, MaxAssumption DEF Persistent
<1>. QED
  BY <1>2, MaxAssumption DEF BoATKeypair_GetFreeIndex_From_Persistent, Persistent, KeypairIndex

\* A call that is refused changes nothing but what it returns.
LEMMA RefuseType ==
  ASSUME TypeInv, NEW op \in {"create", "delete"},
         NEW i \in NoIndex..(BOAT_MAX_KEYPAIR_NUM + 1), Refuse(op, i), faults' \in FaultSet
  PROVE  TypeInv'
<1>1. ret' \in RetSet
  BY DEF Refuse, RetSet
<1>2. UNCHANGED <<kp, pk, pc, ctx>>
  BY DEF Refuse
<1>3. CtxOK'
  BY <1>2, Types DEF CtxOK
<1>. QED
  BY <1>1, <1>2, <1>3, Types, TypeInvNext

LEMMA CreateType ==
  ASSUME TypeInv, NEW k \in Keys, NEW n \in NameLens, NEW m \in BoatStoreType,
         BoatKeypairCreate(k, n, m)
  PROVE  TypeInv'
<1>0. NoIndex \in NoIndex..(BOAT_MAX_KEYPAIR_NUM + 1) /\ 0 \in KeypairIndex
  BY MaxAssumption DEF NoIndex, KeypairIndex
<1>1. CASE Fault("internal") /\ Refuse("create", NoIndex)
  BY <1>0, <1>1, FaultEffect, RefuseType, Types
<1>2. ASSUME NEW i \in KeypairIndex, StartCreate(i, k, n), faults' \in FaultSet
      PROVE  TypeInv'
  <2>1. UNCHANGED <<kp, pk, ret>>
    BY <1>2 DEF StartCreate, Goto
  <2>. QED
    BY <1>2, <2>1, StartCreateType, Types, TypeInvNext
<1>3. CASE m = "RAM" /\ UNCHANGED faults /\ StartCreate(0, k, n)
  BY <1>0, <1>2, <1>3, Types
<1>4. ASSUME NEW c \in KeypairIndex, NEW seen \in SUBSET KeypairIndex,
             BoATKeypair_GetKeypairList(c, seen),
             LET i == BoATKeypair_GetFreeIndex_From_Persistent(c, seen)
             IN  IF i = NoIndex THEN Refuse("create", NoIndex) ELSE StartCreate(i, k, n)
      PROVE  TypeInv'
  <2>1. faults' \in FaultSet
    BY <1>4, FaultEffect, Types DEF BoATKeypair_GetKeypairList
  <2>. QED
    BY <1>0, <1>2, <1>4, <2>1, FreeIndexType, RefuseType
<1>. QED
  BY <1>1, <1>3, <1>4 DEF BoatKeypairCreate

LEMMA DeleteType ==
  ASSUME TypeInv, NEW i \in 0..(BOAT_MAX_KEYPAIR_NUM + 1), BoATIotKeypairDelete(i)
  PROVE  TypeInv'
<1>1. faults' \in FaultSet
  BY Types DEF BoATIotKeypairDelete
<1>2. CASE i > BOAT_MAX_KEYPAIR_NUM
  <2>1. i \in NoIndex..(BOAT_MAX_KEYPAIR_NUM + 1)
    BY MaxAssumption DEF NoIndex
  <2>. QED
    BY <1>1, <1>2, <2>1, RefuseType DEF BoATIotKeypairDelete
<1>3. CASE ~(i > BOAT_MAX_KEYPAIR_NUM)
  <2>1. ctx' = [api |-> "delete", index |-> i, rec |-> NoRec, num |-> 0, pos |-> 0, restore |-> FALSE]
    BY <1>3 DEF BoATIotKeypairDelete, NoCtx
  <2>2. pc' = "kpDel" /\ UNCHANGED <<kp, pk, ret>>
    BY <1>3 DEF BoATIotKeypairDelete, Goto
  <2>3. i \in KeypairIndex /\ 0 \in KeypairIndex
    BY <1>3, MaxAssumption DEF KeypairIndex
  <2>4. ctx' \in CtxSet
    BY <2>1, <2>3 DEF CtxSet
  <2>5. CtxOK'
    BY <2>1, <2>2, <2>3 DEF CtxOK
  <2>. QED
    BY <1>1, <2>2, <2>4, <2>5, Types, TypeInvNext DEF Labels
<1>. QED
  BY <1>2, <1>3

\* A call that returns after it has put the tables in order.
LEMMA ReturnType ==
  ASSUME TypeInv, pc # "idle", NEW ok \in BOOLEAN, Return(ok) \/ Deleted(ok),
         kp' \in [BoatStoreType -> Table], pk' \in [BoatStoreType -> Table], faults' \in FaultSet
  PROVE  TypeInv'
BY ReturnEffect, DeletedEffect, IdleCtxOK, TypeInvNext

\* The step goes on to another write of the same call.
LEMMA GotoType ==
  ASSUME TypeInv, NEW label \in Labels, Goto(label), ctx' \in CtxSet, CtxOK',
         kp' \in [BoatStoreType -> Table], pk' \in [BoatStoreType -> Table], faults' \in FaultSet
  PROVE  TypeInv'
BY Types, TypeInvNext DEF Goto

\* The number a store works from, and the slot behind it.
LEMMA BaseRange ==
  ASSUME NEW t \in Table, NEW n \in {0, Count(t)}, NEW i, n < BOAT_MAX_KEYPAIR_NUM
  PROVE  LET base == IF Mem(i) = "RAM" THEN 0 ELSE n
         IN  /\ base \in KeypairIndex /\ base < BOAT_MAX_KEYPAIR_NUM
             /\ base + 1 \in 1..BOAT_MAX_KEYPAIR_NUM
<1>1. Count(t) \in 0..BOAT_MAX_KEYPAIR_NUM
  BY CountRange, MaxAssumption DEF Table
<1>. QED
  BY <1>1, MaxAssumption DEF KeypairIndex

LEMMA StoreRecordType ==
  ASSUME TypeInv, DataCtx_Store_Record
  PROVE  TypeInv'
<1>. DEFINE m == Mem(ctx.index)
            t == kp[m]
<1>0. /\ m \in BoatStoreType /\ t \in Table /\ pc = "kpRec" /\ pk' = pk
      /\ ctx \in CtxSet /\ ctx.rec \in KeypairRec \cup {NoRec}
  BY Types, MemType DEF DataCtx_Store_Record, CtxSet
<1>1. ASSUME NEW n \in {0, Count(t)}, StoreHeader(m, t, n), n < BOAT_MAX_KEYPAIR_NUM,
             kp' = [kp EXCEPT ![m] = WriteRec(t, (IF m = "RAM" THEN 0 ELSE n) + 1, ctx.rec)],
             ctx' = [ctx EXCEPT !.num = IF m = "RAM" THEN 0 ELSE n],
             Goto("kpNum")
      PROVE  TypeInv'
  <2>. DEFINE base == IF m = "RAM" THEN 0 ELSE n
  <2>1. base \in KeypairIndex /\ base < BOAT_MAX_KEYPAIR_NUM /\ base + 1 \in 1..BOAT_MAX_KEYPAIR_NUM
    BY <1>0, <1>1, BaseRange
  <2>2. WriteRec(t, base + 1, ctx.rec) \in Table
    BY <1>0, <2>1, WriteRecEffect, MaxAssumption DEF Table
  <2>3. kp' \in [BoatStoreType -> Table]
    BY <1>0, <1>1, <2>2, PutTable, Types
  <2>4. ctx' \in CtxSet
    BY <1>0, <1>1, <2>1 DEF CtxSet
  <2>5. ctx'.num = base /\ ctx'.rec = ctx.rec /\ ctx'.index = ctx.index /\ ctx'.restore = ctx.restore
    BY <1>0, <1>1 DEF CtxSet
  <2>6. pc' = "kpNum"
    BY <1>1 DEF Goto
  <2>7. CtxOK'
    BY <1>0, <2>1, <2>5, <2>6, Types DEF CtxOK
  <2>. QED
    BY <1>0, <1>1, <2>3, <2>4, <2>7, FaultForms, GotoType, Types DEF Labels
<1>2. CASE Return(FALSE) /\ kp' = kp /\ faults' \in FaultSet
  BY <1>0, <1>2, ReturnType, Types
<1>3. ASSUME NEW n \in {0, Count(t)}, StoreHeader(m, t, n) PROVE faults' \in FaultSet
  BY <1>3, FaultForms, Types
<1>4. StoreFault(m, t) => faults' \in FaultSet
  BY FaultForms, Types
<1>. QED
  BY <1>1, <1>2, <1>3, <1>4 DEF DataCtx_Store_Record

LEMMA StoreNumType ==
  ASSUME TypeInv, DataCtx_Store_Num
  PROVE  TypeInv'
<1>. DEFINE m == Mem(ctx.index)
<1>0. /\ m \in BoatStoreType /\ kp[m] \in Table /\ pc = "kpNum" /\ pk' = pk
      /\ ctx \in CtxSet /\ ctx.num \in KeypairIndex /\ ctx.num < BOAT_MAX_KEYPAIR_NUM
  BY Types, MemType DEF DataCtx_Store_Num, CtxSet, CtxOK
<1>1. CASE /\ kp' = [kp EXCEPT ![m] = WriteNum(kp[m], ctx.num + 1)]
           /\ UNCHANGED faults
           /\ IF ctx.restore THEN Return(FALSE) ELSE Goto("pkRec") /\ UNCHANGED ctx
  <2>1. ctx.num + 1 \in BadNum..BOAT_MAX_KEYPAIR_NUM
    BY <1>0, MaxAssumption DEF BadNum, KeypairIndex
  <2>2. WriteNum(kp[m], ctx.num + 1) \in Table
    BY <1>0, <2>1, WriteNumEffect, MaxAssumption DEF Table
  <2>3. kp' \in [BoatStoreType -> Table]
    BY <1>0, <1>1, <2>2, PutTable, Types
  <2>4. CASE ctx.restore
    BY <1>0, <1>1, <2>3, <2>4, ReturnType, Types
  <2>5. CASE ~ctx.restore
    <3>1. pc' = "pkRec" /\ ctx' = ctx
      BY <1>1, <2>5 DEF Goto
    <3>2. CtxOK'
      BY <1>0, <2>5, <3>1, Types DEF CtxOK
    <3>. QED
      BY <1>0, <1>1, <2>3, <2>5, <3>1, <3>2, GotoType, Types DEF Labels
  <2>. QED
    BY <2>4, <2>5
<1>2. CASE FlashFault(m, "write") /\ UNCHANGED kp /\ Return(FALSE)
  BY <1>0, <1>2, FaultForms, ReturnType, Types DEF AllFaultKinds
<1>. QED
  BY <1>1, <1>2 DEF DataCtx_Store_Num

\* A create that failed goes on to delete its keypair.
LEMMA RollbackType ==
  ASSUME TypeInv, pc \in {"pkRec", "pkNum"}, Rollback, faults' \in FaultSet
  PROVE  TypeInv'
<1>1. pc' = "kpDel" /\ ctx' = ctx
  BY DEF Rollback, Goto
<1>2. CtxOK'
  BY <1>1, Types DEF CtxOK
<1>. QED
  BY <1>1, <1>2, GotoType, Types DEF Rollback, Labels

LEMMA PrikeyRecType ==
  ASSUME NEW r \in KeypairRec
  PROVE  PrikeyRec(r) \in KeypairRec /\ PrikeyRec(r).index = r.index
BY DEF PrikeyRec, KeypairRec

LEMMA PrikeyRecordType ==
  ASSUME TypeInv, store_prikey_Record
  PROVE  TypeInv'
<1>. DEFINE m == Mem(ctx.index)
            t == pk[m]
            r == PrikeyRec(ctx.rec)
<1>0. /\ m \in BoatStoreType /\ t \in Table /\ pc = "pkRec" /\ ctx \in CtxSet /\ ctx.rec \in KeypairRec
  BY Types, MemType DEF store_prikey_Record, CtxOK
<1>1. ASSUME NEW n \in {0, Count(t)}, StoreHeader(m, t, n), n < BOAT_MAX_KEYPAIR_NUM,
             pk' = [pk EXCEPT ![m] = WriteRec(t, (IF m = "RAM" THEN 0 ELSE n) + 1, r)],
             ctx' = [ctx EXCEPT !.num = IF m = "RAM" THEN 0 ELSE n],
             kp' = kp, Goto("pkNum")
      PROVE  TypeInv'
  <2>. DEFINE base == IF m = "RAM" THEN 0 ELSE n
  <2>1. base \in KeypairIndex /\ base < BOAT_MAX_KEYPAIR_NUM /\ base + 1 \in 1..BOAT_MAX_KEYPAIR_NUM
    BY <1>0, <1>1, BaseRange
  <2>2. WriteRec(t, base + 1, r) \in Table
    BY <1>0, <2>1, PrikeyRecType, WriteRecEffect, MaxAssumption DEF Table
  <2>3. pk' \in [BoatStoreType -> Table]
    BY <1>0, <1>1, <2>2, PutTable, Types
  <2>4. ctx' \in CtxSet
    BY <1>0, <1>1, <2>1 DEF CtxSet
  <2>5. ctx'.num = base /\ ctx'.rec = ctx.rec /\ ctx'.index = ctx.index /\ ctx'.restore = ctx.restore
    BY <1>0, <1>1 DEF CtxSet
  <2>6. pc' = "pkNum"
    BY <1>1 DEF Goto
  <2>7. CtxOK'
    BY <1>0, <2>1, <2>5, <2>6, Types DEF CtxOK
  <2>. QED
    BY <1>0, <1>1, <2>3, <2>4, <2>7, FaultForms, GotoType, Types DEF Labels
<1>2. Rollback /\ faults' \in FaultSet => TypeInv'
  BY <1>0, RollbackType
<1>3. ASSUME NEW n \in {0, Count(t)}, StoreHeader(m, t, n) PROVE faults' \in FaultSet
  BY <1>3, FaultForms, Types
<1>4. StoreFault(m, t) => faults' \in FaultSet
  BY FaultForms, Types
<1>. QED
  BY <1>1, <1>2, <1>3, <1>4 DEF store_prikey_Record

LEMMA PrikeyNumType ==
  ASSUME TypeInv, store_prikey_Num
  PROVE  TypeInv'
<1>. DEFINE m == Mem(ctx.index)
<1>0. /\ m \in BoatStoreType /\ pk[m] \in Table /\ pc = "pkNum"
      /\ ctx.num \in KeypairIndex /\ ctx.num < BOAT_MAX_KEYPAIR_NUM
  BY Types, MemType DEF store_prikey_Num, CtxSet, CtxOK
<1>1. CASE /\ pk' = [pk EXCEPT ![m] = WriteNum(pk[m], ctx.num + 1)]
           /\ UNCHANGED <<kp, faults>>
           /\ Return(TRUE)
  <2>1. ctx.num + 1 \in BadNum..BOAT_MAX_KEYPAIR_NUM
    BY <1>0, MaxAssumption DEF BadNum, KeypairIndex
  <2>2. WriteNum(pk[m], ctx.num + 1) \in Table
    BY <1>0, <2>1, WriteNumEffect, MaxAssumption DEF Table
  <2>3. pk' \in [BoatStoreType -> Table]
    BY <1>0, <1>1, <2>2, PutTable, Types
  <2>. QED
    BY <1>0, <1>1, <2>3, ReturnType, Types
<1>2. CASE FlashFault(m, "write") /\ Rollback
  BY <1>0, <1>2, FaultForms, RollbackType, Types DEF AllFaultKinds
<1>. QED
  BY <1>1, <1>2 DEF store_prikey_Num

LEMMA OnetimeType ==
  ASSUME TypeInv, Delete_Onetime
  PROVE  TypeInv'
<1>0. pc = "kpDel" /\ pk' = pk /\ faults' = faults /\ "RAM" \in BoatStoreType
  BY DEF Delete_Onetime, BoatStoreType
<1>1. BadNum \in BadNum..BOAT_MAX_KEYPAIR_NUM
  BY MaxAssumption DEF BadNum
<1>2. WriteNum(kp["RAM"], BadNum) \in Table
  BY <1>1, Types, WriteNumEffect, MaxAssumption DEF Table
<1>3. [kp EXCEPT !["RAM"] = WriteNum(kp["RAM"], BadNum)] \in [BoatStoreType -> Table]
  BY <1>0, <1>2, PutTable, Types
<1>4. \E ok \in BOOLEAN : Deleted(ok)
  BY DEF Delete_Onetime
<1>. QED
  BY <1>0, <1>3, <1>4, ReturnType, Types DEF Delete_Onetime

\* The count a delete lowers, and what it finds below it.
LEMMA FoundRange ==
  ASSUME NEW t \in Table, NEW i, Found(t, Count(t), i) # {}
  PROVE  /\ Count(t) \in 1..BOAT_MAX_KEYPAIR_NUM /\ t.num = Count(t)
         /\ Count(t) \in KeypairIndex /\ Count(t) - 1 \in BadNum..BOAT_MAX_KEYPAIR_NUM
         /\ FirstOf(Found(t, Count(t), i)) \in 1..Count(t)
         /\ FirstOf(Found(t, Count(t), i)) \in KeypairIndex
         /\ t.slot[FirstOf(Found(t, Count(t), i))].index = i
         /\ t.slot[FirstOf(Found(t, Count(t), i))] \in KeypairRec \cup {NoRec}
<1>1. Count(t) \in 0..BOAT_MAX_KEYPAIR_NUM /\ Count(t) \in Nat
  BY CountRange, MaxAssumption DEF Table
<1>2. /\ FirstOf(Found(t, Count(t), i)) \in 1..Count(t)
      /\ t.slot[FirstOf(Found(t, Count(t), i))].index = i
      /\ Count(t) >= 1
  BY <1>1, FoundFirst, Zenon
<1>3. t.num = Count(t)
  BY <1>2 DEF Count
<1>4. FirstOf(Found(t, Count(t), i)) \in 1..BOAT_MAX_KEYPAIR_NUM
  BY <1>1, <1>2, MaxAssumption
<1>5. t.slot \in [1..BOAT_MAX_KEYPAIR_NUM -> KeypairRec \cup {NoRec}]
  BY DEF Table, TableOf
<1>. QED
  BY <1>1, <1>2, <1>3, <1>4, <1>5, MaxAssumption DEF KeypairIndex, BadNum

LEMMA DeleteNumType ==
  ASSUME TypeInv, Delete_Num
  PROVE  TypeInv'
<1>. DEFINE t == kp["FLASH"]
            S == Found(t, Count(t), ctx.index)
<1>0. /\ pc = "kpDel" /\ pk' = pk /\ ctx.index # 0 /\ "FLASH" \in BoatStoreType
      /\ t \in Table /\ ctx \in CtxSet
  BY Types DEF Delete_Num, BoatStoreType
<1>1. CASE /\ S # {}
           /\ kp' = [kp EXCEPT !["FLASH"] = WriteNum(t, Count(t) - 1)]
           /\ ctx' = [ctx EXCEPT !.num = Count(t), !.pos = FirstOf(S), !.rec = t.slot[FirstOf(S)]]
           /\ Goto("kpTail")
           /\ UNCHANGED faults
  <2>1. /\ Count(t) \in KeypairIndex /\ Count(t) - 1 \in BadNum..BOAT_MAX_KEYPAIR_NUM
        /\ FirstOf(S) \in KeypairIndex /\ t.slot[FirstOf(S)] \in KeypairRec \cup {NoRec}
    BY <1>0, <1>1, FoundRange
  <2>2. WriteNum(t, Count(t) - 1) \in Table
    BY <1>0, <2>1, WriteNumEffect, MaxAssumption DEF Table
  <2>3. kp' \in [BoatStoreType -> Table]
    BY <1>0, <1>1, <2>2, PutTable, Types
  <2>4. ctx' \in CtxSet /\ ctx'.index = ctx.index /\ ctx'.restore = ctx.restore
    BY <1>0, <1>1, <2>1 DEF CtxSet
  <2>5. pc' = "kpTail"
    BY <1>1 DEF Goto
  <2>6. CtxOK'
    BY <1>0, <2>4, <2>5, Types DEF CtxOK
  <2>. QED
    BY <1>0, <1>1, <2>3, <2>4, <2>6, GotoType, Types DEF Labels
<1>2. ASSUME kp' = kp, Deleted(FALSE), faults' \in FaultSet
      PROVE  TypeInv'
  BY <1>0, <1>2, ReturnType, Types
<1>3. ASSUME \/ UNCHANGED faults \/ Fault("read") \/ Fault("internal") \/ Fault("write")
      PROVE  faults' \in FaultSet
  BY <1>3, FaultEffect, Types
<1>. QED
  BY <1>1, <1>2, <1>3 DEF Delete_Num

LEMMA DeleteTailType ==
  ASSUME TypeInv, Delete_Tail
  PROVE  TypeInv'
<1>0. /\ pc = "kpTail" /\ pk' = pk /\ ctx' = ctx /\ "FLASH" \in BoatStoreType
      /\ ctx.num \in 0..BOAT_MAX_KEYPAIR_NUM /\ ctx.pos \in 0..BOAT_MAX_KEYPAIR_NUM
  BY Types DEF Delete_Tail, BoatStoreType, CtxSet, KeypairIndex
<1>1. DropRec(kp["FLASH"], ctx.pos, ctx.num) \in Table
  BY <1>0, DropRecEffect, Types, MaxAssumption DEF Table
<1>2. [kp EXCEPT !["FLASH"] = DropRec(kp["FLASH"], ctx.pos, ctx.num)] \in [BoatStoreType -> Table]
  BY <1>0, <1>1, PutTable, Types
<1>3. ASSUME Goto("pkDel") \/ Goto("kpRecover"), kp' \in [BoatStoreType -> Table], faults' \in FaultSet
      PROVE  TypeInv'
  <2>1. CtxOK'
    BY <1>0, <1>3, Types DEF CtxOK, Goto
  <2>. QED
    BY <1>0, <1>3, <2>1, GotoType, Types DEF Labels
<1>4. UNCHANGED faults \/ TailFault => faults' \in FaultSet
  BY FaultForms, Types
<1>. QED
  BY <1>2, <1>3, <1>4, Types DEF Delete_Tail

LEMMA DeleteRecoverType ==
  ASSUME TypeInv, Delete_Recover
  PROVE  TypeInv'
<1>0. pc = "kpRecover" /\ pk' = pk /\ Deleted(FALSE) /\ "FLASH" \in BoatStoreType
  BY DEF Delete_Recover, BoatStoreType
<1>1. ctx.num \in BadNum..BOAT_MAX_KEYPAIR_NUM
  BY Types, MaxAssumption DEF CtxSet, KeypairIndex, BadNum
<1>2. WriteNum(kp["FLASH"], ctx.num) \in Table
  BY <1>1, WriteNumEffect, Types, MaxAssumption DEF Table
<1>3. [kp EXCEPT !["FLASH"] = WriteNum(kp["FLASH"], ctx.num)] \in [BoatStoreType -> Table]
  BY <1>0, <1>2, PutTable, Types
<1>4. kp' \in [BoatStoreType -> Table] /\ faults' \in FaultSet
  BY <1>3, FaultEffect, Types DEF Delete_Recover
<1>. QED
  BY <1>0, <1>4, ReturnType, Types

\* A delete whose private key stays goes on to store its keypair again.
LEMMA RestoreType ==
  ASSUME TypeInv, pc \in {"pkDel", "pkRecover"}, Restore, faults' \in FaultSet
  PROVE  TypeInv'
<1>1. ctx' \in CtxSet /\ ctx'.restore /\ ctx'.index = ctx.index /\ ctx.index # 0
  BY Types DEF Restore, CtxSet, CtxOK
<1>2. pc' = "kpRec"
  BY DEF Restore, Goto
<1>3. CtxOK'
  BY <1>1, <1>2, Types DEF CtxOK
<1>. QED
  BY <1>1, <1>3, GotoType, Types DEF Restore, Labels

LEMMA PirkeyNumType ==
  ASSUME TypeInv, DeletePirkey_Num
  PROVE  TypeInv'
<1>. DEFINE t == pk["FLASH"]
            S == Found(t, Count(t), ctx.index)
<1>0. /\ pc = "pkDel" /\ ctx.index # 0 /\ "FLASH" \in BoatStoreType
      /\ t \in Table /\ ctx \in CtxSet
  BY Types DEF DeletePirkey_Num, BoatStoreType, CtxOK
<1>1. CASE t.num = 0 /\ UNCHANGED <<kp, pk, faults>> /\ Deleted(TRUE)
  BY <1>0, <1>1, ReturnType, Types
<1>2. CASE /\ S # {}
           /\ pk' = [pk EXCEPT !["FLASH"] = WriteNum(t, t.num - 1)]
           /\ ctx' = [ctx EXCEPT !.num = t.num, !.pos = FirstOf(S)]
           /\ Goto("pkTail")
           /\ UNCHANGED <<kp, faults>>
  <2>1. /\ t.num \in KeypairIndex /\ t.num - 1 \in BadNum..BOAT_MAX_KEYPAIR_NUM
        /\ FirstOf(S) \in KeypairIndex
    BY <1>0, <1>2, FoundRange
  <2>2. WriteNum(t, t.num - 1) \in Table
    BY <1>0, <2>1, WriteNumEffect, MaxAssumption DEF Table
  <2>3. pk' \in [BoatStoreType -> Table]
    BY <1>0, <1>2, <2>2, PutTable, Types
  <2>4. ctx' \in CtxSet /\ ctx'.index = ctx.index /\ ctx'.restore = ctx.restore
    BY <1>0, <1>2, <2>1 DEF CtxSet
  <2>5. pc' = "pkTail"
    BY <1>2 DEF Goto
  <2>6. CtxOK'
    BY <1>0, <2>4, <2>5, Types DEF CtxOK
  <2>. QED
    BY <1>2, <2>3, <2>4, <2>6, GotoType, Types DEF Labels
<1>3. ASSUME UNCHANGED faults \/ Fault("read") \/ Fault("write"), Restore
      PROVE  TypeInv'
  BY <1>0, <1>3, FaultEffect, RestoreType, Types
<1>. QED
  BY <1>1, <1>2, <1>3 DEF DeletePirkey_Num

LEMMA PirkeyTailType ==
  ASSUME TypeInv, DeletePirkey_Tail
  PROVE  TypeInv'
<1>0. /\ pc = "pkTail" /\ kp' = kp /\ "FLASH" \in BoatStoreType
      /\ ctx.num \in 0..BOAT_MAX_KEYPAIR_NUM /\ ctx.pos \in 0..BOAT_MAX_KEYPAIR_NUM
  BY Types DEF DeletePirkey_Tail, BoatStoreType, CtxSet, KeypairIndex
<1>1. DropRec(pk["FLASH"], ctx.pos, ctx.num) \in Table
  BY <1>0, DropRecEffect, Types, MaxAssumption DEF Table
<1>2. [pk EXCEPT !["FLASH"] = DropRec(pk["FLASH"], ctx.pos, ctx.num)] \in [BoatStoreType -> Table]
  BY <1>0, <1>1, PutTable, Types
<1>3. CASE /\ pk' = [pk EXCEPT !["FLASH"] = DropRec(pk["FLASH"], ctx.pos, ctx.num)]
           /\ UNCHANGED faults /\ Deleted(TRUE)
  BY <1>0, <1>2, <1>3, ReturnType, Types
<1>4. CASE TailFault /\ Goto("pkRecover") /\ UNCHANGED <<kp, pk, ctx>>
  <2>1. CtxOK'
    BY <1>0, <1>4, Types DEF CtxOK, Goto
  <2>. QED
    BY <1>4, <2>1, FaultForms, GotoType, Types DEF Labels
<1>. QED
  BY <1>3, <1>4 DEF DeletePirkey_Tail

LEMMA PirkeyRecoverType ==
  ASSUME TypeInv, DeletePirkey_Recover
  PROVE  TypeInv'
<1>0. pc = "pkRecover" /\ "FLASH" \in BoatStoreType
  BY DEF DeletePirkey_Recover, BoatStoreType
<1>1. ctx.num \in BadNum..BOAT_MAX_KEYPAIR_NUM
  BY Types, MaxAssumption DEF CtxSet, KeypairIndex, BadNum
<1>2. WriteNum(pk["FLASH"], ctx.num) \in Table
  BY <1>1, WriteNumEffect, Types, MaxAssumption DEF Table
<1>3. [pk EXCEPT !["FLASH"] = WriteNum(pk["FLASH"], ctx.num)] \in [BoatStoreType -> Table]
  BY <1>0, <1>2, PutTable, Types
<1>4. CASE /\ pk' = [pk EXCEPT !["FLASH"] = WriteNum(pk["FLASH"], ctx.num)]
           /\ UNCHANGED <<kp, faults>> /\ Deleted(TRUE)
  BY <1>0, <1>3, <1>4, ReturnType, Types
<1>5. CASE Fault("write") /\ Restore
  BY <1>0, <1>5, FaultEffect, RestoreType, Types
<1>. QED
  BY <1>4, <1>5 DEF DeletePirkey_Recover

LEMMA RebootType ==
  ASSUME TypeInv, PowerCycle \/ Crash
  PROVE  TypeInv'
<1>1. BlankTable(BOAT_MAX_KEYPAIR_NUM) \in Table /\ "RAM" \in BoatStoreType
  BY BlankIsTable, MaxAssumption DEF Table, BoatStoreType
<1>2. kp' \in [BoatStoreType -> Table] /\ pk' \in [BoatStoreType -> Table]
  <2>1. \E op, i : Reboot(op, i)
    BY DEF PowerCycle, Crash
  <2>. QED
    BY <1>1, <2>1, PutTable, Types DEF Reboot
<1>3. pc' = "idle" /\ ctx' = NoCtx /\ faults' \in FaultSet
  BY FaultEffect, Types DEF PowerCycle, Crash, Reboot
<1>4. NoIndex \in NoIndex..(BOAT_MAX_KEYPAIR_NUM + 1)
  BY MaxAssumption DEF NoIndex
<1>5. ctx.index \in NoIndex..(BOAT_MAX_KEYPAIR_NUM + 1)
  BY Types, MaxAssumption DEF CtxSet, KeypairIndex, NoIndex
<1>6. ret' \in RetSet
  <2>1. \E op \in {"boot", "crash"}, i \in NoIndex..(BOAT_MAX_KEYPAIR_NUM + 1) :
           ret' = [op |-> op, index |-> i, ok |-> TRUE]
    BY <1>4, <1>5 DEF PowerCycle, Crash, Reboot
  <2>. QED
    BY <2>1 DEF RetSet
<1>. QED
  BY <1>2, <1>3, <1>6, IdleCtxOK, TypeInvNext

LEMMA TypeInit == Init => TypeInv
<1>. SUFFICES ASSUME Init PROVE TypeInv
  OBVIOUS
<1>1. BlankTable(BOAT_MAX_KEYPAIR_NUM) \in Table
  BY BlankIsTable, MaxAssumption DEF Table
<1>2. kp \in [BoatStoreType -> Table] /\ pk \in [BoatStoreType -> Table]
  BY <1>1 DEF Init
<1>3. ret \in RetSet /\ faults \in FaultSet
  BY MaxAssumption, FaultAssumption DEF Init, NoRet, NoIndex, RetSet, FaultSet
<1>4. pc \in Labels /\ ctx \in CtxSet /\ CtxOK
  BY NoCtxType DEF Init, Labels, CtxOK
<1>. QED
  BY <1>2, <1>3, <1>4, TypeParts DEF TypeInv

LEMMA TypeStep == TypeInv /\ [Next]_vars => TypeInv'
<1>. SUFFICES ASSUME TypeInv, [Next]_vars PROVE TypeInv'
  OBVIOUS
<1>1. CASE UNCHANGED vars
  BY <1>1, TypeInvNext, Types DEF vars, CtxOK
<1>2. ASSUME NEW k \in Keys, NEW n \in NameLens, NEW m \in BoatStoreType, BoatKeypairCreate(k, n, m)
      PROVE  TypeInv'
  BY <1>2, CreateType
<1>3. ASSUME NEW i \in 0..(BOAT_MAX_KEYPAIR_NUM + 1), BoATIotKeypairDelete(i)
      PROVE  TypeInv'
  BY <1>3, DeleteType
<1>4. CASE DataCtx_Store_Record \/ DataCtx_Store_Num \/ store_prikey_Record \/ store_prikey_Num
  BY <1>4, StoreRecordType, StoreNumType, PrikeyRecordType, PrikeyNumType
<1>5. CASE Delete_Onetime \/ Delete_Num \/ Delete_Tail \/ Delete_Recover
  BY <1>5, OnetimeType, DeleteNumType, DeleteTailType, DeleteRecoverType
<1>6. CASE DeletePirkey_Num \/ DeletePirkey_Tail \/ DeletePirkey_Recover
  BY <1>6, PirkeyNumType, PirkeyTailType, PirkeyRecoverType
<1>7. CASE PowerCycle \/ Crash
  BY <1>7, RebootType
<1>. QED
  BY <1>1, <1>2, <1>3, <1>4, <1>5, <1>6, <1>7 DEF Next

\* Type correctness: whatever accesses to storage fail and wherever power is
\* cut, no call of boatkeypair.c and boat_keystore.c writes a header count
\* beyond BOAT_MAX_KEYPAIR_NUM, uses a slot or an index outside the tables,
\* or puts anything into them that is not a record.
THEOREM KeypairTypeOK == Spec => []TypeOK
<1>1. TypeInv => TypeOK
  BY DEF TypeInv
<1>. QED
  BY <1>1, TypeInit, TypeStep, PTL DEF Spec

----------------------------------------------------------------------------
(* Soundness of the tables.  TablesSound is not inductive: between the two *)
(* writes of a store the record beyond the last must be the one the header *)
(* will count in, and its index must be absent from the table; between the *)
(* writes of a delete the records up to the old number must still be       *)
(* there.  That is what CallInv adds, for each point a call can be at.     *)

\* The first n records of t are there, and no two carry the same index.
Sound(t, n) ==
  /\ \A p \in 1..n : t.slot[p] \in KeypairRec
  /\ \A p, q \in 1..n : t.slot[p].index = t.slot[q].index => p = q

\* Both tables of one kind; the RAM table never counts more than one record.
TabGood(T) ==
  /\ \A m \in BoatStoreType : Sound(T[m], Count(T[m]))
  /\ Count(T["RAM"]) <= 1

\* No record counted in t carries index i.
Absent(t, i) == \A p \in 1..Count(t) : t.slot[p].index # i

\* Between the two writes of a store into t, in a call on index i.
Appending(t, i, num) ==
  /\ num = IF i = 0 THEN 0 ELSE Count(t)
  /\ t.slot[num + 1] \in KeypairRec
  /\ t.slot[num + 1].index = i
  /\ i # 0 => Absent(t, i)

\* Between the writes of a delete of index i from t.
Removing(t, i, num, pos) ==
  /\ t.num = num - 1
  /\ Sound(t, num)
  /\ pos \in 1..num
  /\ t.slot[pos].index = i

CallInv ==
  /\ pc \notin {"idle", "kpDel"} => ctx.rec \in KeypairRec /\ ctx.rec.index = ctx.index
  /\ pc \in {"kpRec", "pkDel", "pkTail", "pkRecover"} /\ ctx.index # 0 =>
       Absent(kp["FLASH"], ctx.index)
  /\ pc = "kpNum" => Appending(kp[Mem(ctx.index)], ctx.index, ctx.num)
  /\ pc = "pkNum" => Appending(pk[Mem(ctx.index)], ctx.index, ctx.num)
  /\ pc \in {"kpTail", "kpRecover"} => Removing(kp["FLASH"], ctx.index, ctx.num, ctx.pos)
  /\ pc \in {"pkTail", "pkRecover"} => Removing(pk["FLASH"], ctx.index, ctx.num, ctx.pos)

GoodState == TabGood(kp) /\ TabGood(pk) /\ CallInv

SoundInv == "read" \notin faults.seen => GoodState

----------------------------------------------------------------------------
(* What one write does to a sound table.                                   *)

\* The record behind the last (of the RAM table: the only one) is written.
LEMMA AppendRecord ==
  ASSUME NEW t \in Table, Sound(t, Count(t)),
         NEW i \in KeypairIndex, NEW r \in KeypairRec, r.index = i,
         NEW base \in 0..(BOAT_MAX_KEYPAIR_NUM - 1),
         base = IF i = 0 THEN 0 ELSE Count(t), i = 0 => Count(t) <= 1,
         i # 0 => Absent(t, i)
  PROVE  LET w == WriteRec(t, base + 1, r)
         IN  Count(w) = Count(t) /\ Sound(w, Count(w)) /\ Appending(w, i, base)
<1>. DEFINE w == WriteRec(t, base + 1, r)
<1>0. BOAT_MAX_KEYPAIR_NUM \in Nat /\ r \in KeypairRec \cup {NoRec}
  BY MaxAssumption
<1>1. PICK p \in 1..BOAT_MAX_KEYPAIR_NUM : p = base + 1
  BY MaxAssumption
<1>2. /\ w.num = t.num /\ w.slot[p] = r
      /\ \A q \in 1..(p - 1) : w.slot[q] = t.slot[q]
  <2>1. DOMAIN t.slot = 1..BOAT_MAX_KEYPAIR_NUM /\ \A q \in 1..(p - 1) : q # p /\ q < p
    BY <1>0 DEF Table, TableOf
  <2>2. \A q \in 1..(p - 1) : q \in 1..BOAT_MAX_KEYPAIR_NUM
    BY <1>0
  <2>3. WriteRec(t, p, r).num = t.num
    BY DEF WriteRec
  <2>4. WriteRec(t, p, r).slot[p] = r
    BY <2>1 DEF WriteRec
  <2>5. \A q \in 1..(p - 1) : WriteRec(t, p, r).slot[q] = t.slot[q]
    BY <2>1, <2>2 DEF WriteRec
  <2>. QED
    BY <1>1, <2>3, <2>4, <2>5, Zenon
<1>. HIDE DEF w
<1>3. Count(w) = Count(t) /\ Count(t) \in Nat
  BY <1>2, CountRange, MaxAssumption DEF Count, Table
<1>4. w.slot[base + 1] = r /\ \A q \in 1..base : w.slot[q] = t.slot[q]
  BY <1>1, <1>2
<1>5. CASE i = 0
  <2>1. base = 0 /\ Count(t) \in {0, 1}
    BY <1>3, <1>5
  <2>2. Sound(w, Count(w))
    BY <1>3, <1>4, <2>1 DEF Sound
  <2>. QED
    BY <1>3, <1>4, <1>5, <2>1, <2>2 DEF Appending, w
<1>6. CASE i # 0
  <2>1. base = Count(t)
    BY <1>6
  <2>2. Sound(w, Count(w)) /\ Absent(w, i)
    BY <1>3, <1>4, <1>6, <2>1 DEF Sound, Absent
  <2>. QED
    BY <1>3, <1>4, <1>6, <2>1, <2>2 DEF Appending, w
<1>. QED
  BY <1>5, <1>6

\* The header counts it in.
LEMMA CountIn ==
  ASSUME NEW t \in Table, Sound(t, Count(t)), NEW i \in KeypairIndex,
         NEW num \in 0..(BOAT_MAX_KEYPAIR_NUM - 1), Appending(t, i, num)
  PROVE  LET w == WriteNum(t, num + 1)
         IN  Count(w) = num + 1 /\ Sound(w, Count(w)) /\ (i = 0 => Count(w) <= 1)
<1>. DEFINE w == WriteNum(t, num + 1)
<1>0. num + 1 \in BadNum..BOAT_MAX_KEYPAIR_NUM
  BY MaxAssumption DEF BadNum
<1>1. w.num = num + 1 /\ w.slot = t.slot
  BY <1>0, WriteNumEffect, MaxAssumption DEF Table
<1>. HIDE DEF w
<1>2. Count(w) = num + 1 /\ Count(t) \in Nat
  BY <1>1, CountRange, MaxAssumption DEF Count, BadNum, Table
<1>3. CASE i = 0
  BY <1>1, <1>2, <1>3 DEF Appending, Sound, w
<1>4. CASE i # 0
  <2>1. /\ num = Count(t) /\ t.slot[num + 1] \in KeypairRec /\ t.slot[num + 1].index = i
        /\ \A p \in 1..num : t.slot[p].index # i
    BY <1>4 DEF Appending, Absent
  <2>2. \A p \in 1..(num + 1) : p \in 1..num \/ p = num + 1
    OBVIOUS
  <2>3. Sound(t, num + 1)
    BY <2>1, <2>2 DEF Sound
  <2>. QED
    BY <1>1, <1>2, <1>4, <2>3 DEF Sound, w
<1>. QED
  BY <1>3, <1>4

\* A delete found its record and lowers the number.
LEMMA CountOut ==
  ASSUME NEW t \in Table, Sound(t, Count(t)), NEW i, Found(t, Count(t), i) # {}
  PROVE  LET w == WriteNum(t, Count(t) - 1)
         IN  /\ w.num = Count(t) - 1 /\ Sound(w, Count(w))
             /\ Removing(w, i, Count(t), FirstOf(Found(t, Count(t), i)))
             /\ t.slot[FirstOf(Found(t, Count(t), i))] \in KeypairRec
             /\ t.slot[FirstOf(Found(t, Count(t), i))].index = i
<1>. DEFINE n == Count(t)
            w == WriteNum(t, n - 1)
            f == FirstOf(Found(t, n, i))
<1>1. /\ n \in 1..BOAT_MAX_KEYPAIR_NUM /\ n - 1 \in BadNum..BOAT_MAX_KEYPAIR_NUM
      /\ f \in 1..n /\ t.slot[f].index = i
  BY FoundRange
<1>2. w.num = n - 1 /\ w.slot = t.slot
  BY <1>1, WriteNumEffect, MaxAssumption DEF Table
<1>3. \A p \in 1..(n - 1) : p \in 1..n
  BY <1>1
<1>4. Sound(t, n)
  OBVIOUS
<1>. HIDE DEF n, w, f
<1>5. Sound(w, n) /\ Sound(w, n - 1)
  BY <1>2, <1>3, <1>4 DEF Sound
<1>6. Count(w) = n - 1
  BY <1>1, <1>2 DEF Count, BadNum
<1>7. Removing(w, i, n, f)
  BY <1>1, <1>2, <1>5 DEF Removing
<1>8. t.slot[f] \in KeypairRec
  BY <1>1, <1>4 DEF Sound
<1>. QED
  BY <1>1, <1>2, <1>5, <1>6, <1>7, <1>8 DEF n, w, f

\* The record goes, and those behind it move up.
LEMMA DropOut ==
  ASSUME NEW t \in Table, NEW i, NEW n \in KeypairIndex, NEW p \in KeypairIndex,
         Removing(t, i, n, p)
  PROVE  LET w == DropRec(t, p, n) IN Sound(w, Count(w)) /\ Absent(w, i)
<1>. DEFINE w == DropRec(t, p, n)
<1>1. /\ n \in 0..BOAT_MAX_KEYPAIR_NUM /\ p \in 1..n /\ Sound(t, n)
      /\ t.num = n - 1 /\ t.slot[p].index = i
  BY DEF Removing, KeypairIndex
<1>2. /\ w.num = t.num
      /\ \A q \in 1..BOAT_MAX_KEYPAIR_NUM : q < p /\ p <= n => w.slot[q] = t.slot[q]
      /\ \A q \in 1..BOAT_MAX_KEYPAIR_NUM : p <= q /\ q < n => w.slot[q] = t.slot[q+1]
  <2>1. n \in 0..BOAT_MAX_KEYPAIR_NUM /\ p \in 0..BOAT_MAX_KEYPAIR_NUM
        /\ t \in TableOf(BOAT_MAX_KEYPAIR_NUM, KeypairRec) /\ BOAT_MAX_KEYPAIR_NUM \in Nat
    BY MaxAssumption DEF KeypairIndex, Table
  <2>. DEFINE M == BOAT_MAX_KEYPAIR_NUM
  <2>. HIDE DEF M
  <2>2. n \in 0..M /\ p \in 0..M /\ t \in TableOf(M, KeypairRec) /\ M \in Nat
    BY <2>1 DEF M
  <2>3. /\ DropRec(t, p, n).num = t.num
        /\ \A q \in 1..M : q < p /\ p <= n => DropRec(t, p, n).slot[q] = t.slot[q]
        /\ \A q \in 1..M : p <= q /\ q < n => DropRec(t, p, n).slot[q] = t.slot[q+1]
    BY <2>2, DropRecEffect
  <2>. QED
    BY <2>3 DEF M
<1>. HIDE DEF w
<1>3. Count(w) = n - 1
  BY <1>1, <1>2 DEF Count, BadNum
<1>. DEFINE src(q) == IF q < p THEN q ELSE q + 1
<1>4. \A q \in 1..(n - 1) : src(q) \in 1..n /\ src(q) # p /\ w.slot[q] = t.slot[src(q)]
  BY <1>1, <1>2, MaxAssumption
<1>5. \A q, r \in 1..(n - 1) : src(q) = src(r) => q = r
  BY <1>1
<1>. HIDE DEF src
<1>6. /\ \A q \in 1..n : t.slot[q] \in KeypairRec
      /\ \A q, r \in 1..n : t.slot[q].index = t.slot[r].index => q = r
  BY <1>1 DEF Sound
<1>7. Sound(w, n - 1)
  BY <1>4, <1>5, <1>6 DEF Sound
<1>8. \A q \in 1..(n - 1) : w.slot[q].index # i
  BY <1>1, <1>4, <1>6
<1>. QED
  BY <1>3, <1>7, <1>8 DEF Absent, w

\* The catch block of a delete puts the old number back.
LEMMA CountBack ==
  ASSUME NEW t \in Table, NEW i, NEW n \in KeypairIndex, NEW p, Removing(t, i, n, p)
  PROVE  LET w == WriteNum(t, n) IN Sound(w, Count(w))
<1>. DEFINE w == WriteNum(t, n)
<1>1. n \in BadNum..BOAT_MAX_KEYPAIR_NUM
  BY MaxAssumption DEF KeypairIndex, BadNum
<1>2. w.num = n /\ w.slot = t.slot
  BY <1>1, WriteNumEffect, MaxAssumption DEF Table
<1>. HIDE DEF w
<1>3. Count(w) = n
  BY <1>2 DEF Count, BadNum, KeypairIndex
<1>. QED
  BY <1>2, <1>3 DEF Removing, Sound, w

LEMMA PutGood ==
  ASSUME NEW T \in [BoatStoreType -> Table], TabGood(T), NEW m \in BoatStoreType, NEW t,
         Sound(t, Count(t)), m = "RAM" => Count(t) <= 1
  PROVE  TabGood([T EXCEPT ![m] = t])
BY DEF TabGood, BoatStoreType

\* A table that counts nothing is sound.
LEMMA EmptySound ==
  ASSUME NEW t, Count(t) = 0
  PROVE  Sound(t, Count(t)) /\ Count(t) <= 1
BY DEF Sound

----------------------------------------------------------------------------
(* Every action keeps the tables sound, as long as no header is misread.   *)

LEMMA NoReadFault ==
  ASSUME faults \in FaultSet, "read" \notin faults'.seen
  PROVE  /\ ~Fault("read") /\ \A m : ~FlashFault(m, "read")
         /\ \A m, t, n : StoreHeader(m, t, n) => n = Count(t)
BY FaultEffect DEF FlashFault, StoreHeader

\* Between calls CallInv asks for nothing.
LEMMA IdleGood ==
  ASSUME TabGood(kp'), TabGood(pk'), pc' = "idle"
  PROVE  GoodState'
BY DEF GoodState, CallInv

LEMMA EndGood ==
  ASSUME TabGood(kp'), TabGood(pk'), NEW ok, Return(ok) \/ Deleted(ok)
  PROVE  GoodState'
BY IdleGood DEF Return, Deleted

\* The facts a step starts from.
LEMMA GoodFacts ==
  ASSUME TypeInv, GoodState, NEW m \in BoatStoreType
  PROVE  /\ TabGood(kp) /\ TabGood(pk) /\ CallInv
         /\ kp[m] \in Table /\ Sound(kp[m], Count(kp[m])) /\ (m = "RAM" => Count(kp[m]) <= 1)
         /\ pk[m] \in Table /\ Sound(pk[m], Count(pk[m])) /\ (m = "RAM" => Count(pk[m]) <= 1)
<1>1. kp \in [BoatStoreType -> Table] /\ pk \in [BoatStoreType -> Table]
  BY Types
<1>. QED
  BY <1>1 DEF GoodState, TabGood

LEMMA StartCreateGood ==
  ASSUME TypeInv, GoodState, NEW i \in KeypairIndex, NEW k \in Keys, NEW n \in NameLens,
         StartCreate(i, k, n), i # 0 => Absent(kp["FLASH"], i)
  PROVE  GoodState'
<1>1. pc' = "kpRec" /\ ctx'.index = i /\ ctx'.rec \in KeypairRec /\ ctx'.rec.index = i
  BY StartCreateType
<1>2. kp' = kp /\ pk' = pk
  BY DEF StartCreate
<1>3. CallInv'
  BY <1>1, <1>2 DEF CallInv
<1>. QED
  BY <1>2, <1>3 DEF GoodState

LEMMA CreateGood ==
  ASSUME TypeInv, GoodState, NEW k \in Keys, NEW n \in NameLens, NEW m \in BoatStoreType,
         BoatKeypairCreate(k, n, m), "read" \notin faults'.seen
  PROVE  GoodState'
<1>1. ASSUME Refuse("create", NoIndex) PROVE GoodState'
  BY <1>1 DEF Refuse, GoodState, CallInv
<1>2. CASE m = "RAM" /\ UNCHANGED faults /\ StartCreate(0, k, n)
  BY <1>2, StartCreateGood, MaxAssumption DEF KeypairIndex
<1>3. ASSUME NEW c \in KeypairIndex, NEW seen \in SUBSET KeypairIndex,
             BoATKeypair_GetKeypairList(c, seen),
             BoATKeypair_GetFreeIndex_From_Persistent(c, seen) # NoIndex,
             StartCreate(BoATKeypair_GetFreeIndex_From_Persistent(c, seen), k, n)
      PROVE  GoodState'
  <2>. DEFINE i == BoATKeypair_GetFreeIndex_From_Persistent(c, seen)
              t == kp["FLASH"]
  <2>1. seen = Used(t, Count(t))
    BY <1>3, NoReadFault, Types DEF BoATKeypair_GetKeypairList
  <2>2. i \in KeypairIndex /\ i \notin seen
    BY <1>3, FreeIndexType
  <2>3. Absent(t, i)
    BY <2>1, <2>2 DEF Used, Absent
  <2>. QED
    BY <1>3, <2>2, <2>3, StartCreateGood
<1>. QED
  BY <1>1, <1>2, <1>3 DEF BoatKeypairCreate

LEMMA DeleteGood ==
  ASSUME GoodState, NEW i, BoATIotKeypairDelete(i)
  PROVE  GoodState'
<1>1. CASE Refuse("delete", i)
  BY <1>1 DEF Refuse, GoodState, CallInv
<1>2. CASE Goto("kpDel") /\ UNCHANGED <<kp, pk>>
  BY <1>2 DEF Goto, GoodState, CallInv
<1>. QED
  BY <1>1, <1>2 DEF BoATIotKeypairDelete

LEMMA StoreRecordGood ==
  ASSUME TypeInv, GoodState, DataCtx_Store_Record, "read" \notin faults'.seen
  PROVE  GoodState'
<1>. DEFINE m == Mem(ctx.index)
            t == kp[m]
<1>0. /\ m \in BoatStoreType /\ (m = "RAM" <=> ctx.index = 0) /\ pc = "kpRec" /\ pk' = pk
      /\ ctx \in CtxSet /\ ctx.index \in KeypairIndex
  BY Types, MemType DEF DataCtx_Store_Record, CtxOK
<1>1. /\ t \in Table /\ Sound(t, Count(t)) /\ (ctx.index = 0 => Count(t) <= 1)
      /\ ctx.rec \in KeypairRec /\ ctx.rec.index = ctx.index
      /\ (ctx.index # 0 => Absent(t, ctx.index)) /\ TabGood(kp) /\ TabGood(pk')
  BY <1>0, GoodFacts DEF CallInv, Mem
<1>2. ASSUME NEW n \in {0, Count(t)}, StoreHeader(m, t, n), n < BOAT_MAX_KEYPAIR_NUM,
             kp' = [kp EXCEPT ![m] = WriteRec(t, (IF m = "RAM" THEN 0 ELSE n) + 1, ctx.rec)],
             ctx' = [ctx EXCEPT !.num = IF m = "RAM" THEN 0 ELSE n],
             Goto("kpNum")
      PROVE  GoodState'
  <2>. DEFINE base == IF m = "RAM" THEN 0 ELSE n
              w == WriteRec(t, base + 1, ctx.rec)
  <2>1. n = Count(t)
    BY <1>2, NoReadFault, Types
  <2>2. base \in 0..(BOAT_MAX_KEYPAIR_NUM - 1) /\ base = IF ctx.index = 0 THEN 0 ELSE Count(t)
    BY <1>0, <1>1, <1>2, <2>1, BaseRange, MaxAssumption DEF KeypairIndex
  <2>3. Count(w) = Count(t) /\ Sound(w, Count(w)) /\ Appending(w, ctx.index, base)
    BY <1>0, <1>1, <2>2, AppendRecord
  <2>. HIDE DEF w
  <2>4. TabGood(kp')
    BY <1>0, <1>1, <1>2, <2>3, PutGood, Types DEF w
  <2>5. kp'[m] = w
    BY <1>0, <1>2, Types DEF w
  <2>6. ctx'.num = base /\ ctx'.index = ctx.index /\ ctx'.rec = ctx.rec
    BY <1>0, <1>2 DEF CtxSet
  <2>7. pc' = "kpNum"
    BY <1>2 DEF Goto
  <2>8. CallInv'
    BY <1>1, <2>3, <2>5, <2>6, <2>7 DEF CallInv
  <2>. QED
    BY <1>1, <2>4, <2>8 DEF GoodState
<1>3. ASSUME kp' = kp, Return(FALSE) PROVE GoodState'
  BY <1>1, <1>3, EndGood
<1>. QED
  BY <1>2, <1>3 DEF DataCtx_Store_Record

LEMMA StoreNumGood ==
  ASSUME TypeInv, GoodState, DataCtx_Store_Num
  PROVE  GoodState'
<1>. DEFINE m == Mem(ctx.index)
            t == kp[m]
            w == WriteNum(t, ctx.num + 1)
<1>0. /\ m \in BoatStoreType /\ (m = "RAM" <=> ctx.index = 0) /\ pc = "kpNum" /\ pk' = pk
      /\ ctx.index \in KeypairIndex /\ ctx.num \in 0..(BOAT_MAX_KEYPAIR_NUM - 1)
  BY Types, MemType, MaxAssumption DEF DataCtx_Store_Num, CtxOK, CtxSet, KeypairIndex
<1>1. /\ t \in Table /\ Sound(t, Count(t)) /\ Appending(t, ctx.index, ctx.num)
      /\ TabGood(kp) /\ TabGood(pk') /\ ctx.rec \in KeypairRec /\ ctx.rec.index = ctx.index
  BY <1>0, GoodFacts DEF CallInv
<1>2. CASE /\ kp' = [kp EXCEPT ![m] = w]
           /\ UNCHANGED faults
           /\ IF ctx.restore THEN Return(FALSE) ELSE Goto("pkRec") /\ UNCHANGED ctx
  <2>1. Sound(w, Count(w)) /\ (ctx.index = 0 => Count(w) <= 1)
    BY <1>0, <1>1, CountIn
  <2>2. TabGood(kp')
    BY <1>0, <1>1, <1>2, <2>1, PutGood, Types
  <2>3. CASE ctx.restore
    BY <1>1, <1>2, <2>2, <2>3, EndGood
  <2>4. CASE ~ctx.restore
    <3>1. CallInv'
      BY <1>1, <1>2, <2>4 DEF CallInv, Goto
    <3>. QED
      BY <1>1, <2>2, <3>1 DEF GoodState
  <2>. QED
    BY <2>3, <2>4
<1>3. CASE UNCHANGED kp /\ Return(FALSE)
  BY <1>1, <1>3, EndGood
<1>. QED
  BY <1>2, <1>3 DEF DataCtx_Store_Num

LEMMA RollbackGood ==
  ASSUME GoodState, Rollback
  PROVE  GoodState'
BY DEF Rollback, Goto, GoodState, CallInv

LEMMA PrikeyRecordGood ==
  ASSUME TypeInv, GoodState, store_prikey_Record, "read" \notin faults'.seen
  PROVE  GoodState'
<1>. DEFINE m == Mem(ctx.index)
            t == pk[m]
            r == PrikeyRec(ctx.rec)
<1>0. /\ m \in BoatStoreType /\ (m = "RAM" <=> ctx.index = 0) /\ pc = "pkRec"
      /\ ctx \in CtxSet /\ ctx.index \in KeypairIndex
  BY Types, MemType DEF store_prikey_Record, CtxOK
<1>1. /\ t \in Table /\ Sound(t, Count(t)) /\ (ctx.index = 0 => Count(t) <= 1)
      /\ ctx.rec \in KeypairRec /\ ctx.rec.index = ctx.index /\ TabGood(kp) /\ TabGood(pk)
  BY <1>0, GoodFacts DEF CallInv
<1>2. r \in KeypairRec /\ r.index = ctx.index
  BY <1>1, PrikeyRecType
<1>3. ASSUME NEW n \in {0, Count(t)}, StoreHeader(m, t, n), n < BOAT_MAX_KEYPAIR_NUM,
             Found(t, IF m = "RAM" THEN 0 ELSE n, ctx.index) = {},
             pk' = [pk EXCEPT ![m] = WriteRec(t, (IF m = "RAM" THEN 0 ELSE n) + 1, r)],
             ctx' = [ctx EXCEPT !.num = IF m = "RAM" THEN 0 ELSE n],
             kp' = kp, Goto("pkNum")
      PROVE  GoodState'
  <2>. DEFINE base == IF m = "RAM" THEN 0 ELSE n
              w == WriteRec(t, base + 1, r)
  <2>1. n = Count(t)
    BY <1>3, NoReadFault, Types
  <2>2. base \in 0..(BOAT_MAX_KEYPAIR_NUM - 1) /\ base = IF ctx.index = 0 THEN 0 ELSE Count(t)
    BY <1>0, <1>1, <1>3, <2>1, BaseRange, MaxAssumption DEF KeypairIndex
  <2>3. ctx.index # 0 => Absent(t, ctx.index)
    BY <1>0, <1>3, <2>1 DEF Found, Absent
  <2>4. Count(w) = Count(t) /\ Sound(w, Count(w)) /\ Appending(w, ctx.index, base)
    BY <1>0, <1>1, <1>2, <2>2, <2>3, AppendRecord
  <2>. HIDE DEF w
  <2>5. TabGood(pk')
    BY <1>0, <1>1, <1>3, <2>4, PutGood, Types DEF w
  <2>6. pk'[m] = w
    BY <1>0, <1>3, Types DEF w
  <2>7. ctx'.num = base /\ ctx'.index = ctx.index /\ ctx'.rec = ctx.rec
    BY <1>0, <1>3 DEF CtxSet
  <2>8. pc' = "pkNum"
    BY <1>3 DEF Goto
  <2>9. CallInv'
    BY <1>1, <2>4, <2>6, <2>7, <2>8 DEF CallInv
  <2>. QED
    BY <1>1, <1>3, <2>5, <2>9 DEF GoodState
<1>4. Rollback => GoodState'
  BY RollbackGood
<1>. QED
  BY <1>3, <1>4 DEF store_prikey_Record

LEMMA PrikeyNumGood ==
  ASSUME TypeInv, GoodState, store_prikey_Num
  PROVE  GoodState'
<1>. DEFINE m == Mem(ctx.index)
            t == pk[m]
            w == WriteNum(t, ctx.num + 1)
<1>0. /\ m \in BoatStoreType /\ (m = "RAM" <=> ctx.index = 0) /\ pc = "pkNum"
      /\ ctx.index \in KeypairIndex /\ ctx.num \in 0..(BOAT_MAX_KEYPAIR_NUM - 1)
  BY Types, MemType, MaxAssumption DEF store_prikey_Num, CtxOK, CtxSet, KeypairIndex
<1>1. /\ t \in Table /\ Sound(t, Count(t)) /\ Appending(t, ctx.index, ctx.num)
      /\ TabGood(kp) /\ TabGood(pk)
  BY <1>0, GoodFacts DEF CallInv
<1>2. CASE pk' = [pk EXCEPT ![m] = w] /\ UNCHANGED <<kp, faults>> /\ Return(TRUE)
  <2>1. Sound(w, Count(w)) /\ (ctx.index = 0 => Count(w) <= 1)
    BY <1>0, <1>1, CountIn
  <2>2. TabGood(pk')
    BY <1>0, <1>1, <1>2, <2>1, PutGood, Types
  <2>. QED
    BY <1>1, <1>2, <2>2, EndGood
<1>. QED
  BY <1>2, RollbackGood DEF store_prikey_Num

LEMMA OnetimeGood ==
  ASSUME TypeInv, GoodState, Delete_Onetime
  PROVE  GoodState'
<1>. DEFINE w == WriteNum(kp["RAM"], BadNum)
<1>1. TabGood(kp) /\ TabGood(pk') /\ "RAM" \in BoatStoreType
  BY DEF Delete_Onetime, GoodState, BoatStoreType
<1>2. Sound(w, Count(w)) /\ Count(w) <= 1
  BY EmptySound DEF WriteNum, Count
<1>3. TabGood([kp EXCEPT !["RAM"] = w])
  BY <1>1, <1>2, PutGood, Types
<1>. QED
  BY <1>1, <1>3, EndGood DEF Delete_Onetime

LEMMA DeleteNumGood ==
  ASSUME TypeInv, GoodState, Delete_Num
  PROVE  GoodState'
<1>. DEFINE t == kp["FLASH"]
            n == Count(t)
            f == FirstOf(Found(t, n, ctx.index))
            w == WriteNum(t, n - 1)
<1>0. "FLASH" \in BoatStoreType /\ pk' = pk /\ ctx \in CtxSet
  BY Types DEF Delete_Num, BoatStoreType
<1>1. t \in Table /\ Sound(t, n) /\ TabGood(kp) /\ TabGood(pk')
  BY <1>0, GoodFacts
<1>2. CASE /\ Found(t, n, ctx.index) # {}
           /\ kp' = [kp EXCEPT !["FLASH"] = w]
           /\ ctx' = [ctx EXCEPT !.num = n, !.pos = f, !.rec = t.slot[f]]
           /\ Goto("kpTail")
  <2>1. /\ Sound(w, Count(w)) /\ Removing(w, ctx.index, n, f)
        /\ t.slot[f] \in KeypairRec /\ t.slot[f].index = ctx.index
    BY <1>1, <1>2, CountOut
  <2>. HIDE DEF w, f, n
  <2>2. TabGood(kp')
    BY <1>0, <1>1, <1>2, <2>1, PutGood, Types
  <2>3. kp'["FLASH"] = w
    BY <1>0, <1>2, Types
  <2>4. /\ ctx'.num = n /\ ctx'.pos = f /\ ctx'.rec = t.slot[f] /\ ctx'.index = ctx.index
        /\ pc' = "kpTail"
    BY <1>0, <1>2 DEF CtxSet, Goto
  <2>5. CallInv'
    BY <2>1, <2>3, <2>4 DEF CallInv
  <2>. QED
    BY <1>1, <2>2, <2>5 DEF GoodState
<1>3. ASSUME kp' = kp, Deleted(FALSE) PROVE GoodState'
  BY <1>1, <1>3, EndGood
<1>. QED
  BY <1>2, <1>3 DEF Delete_Num

LEMMA DeleteTailGood ==
  ASSUME TypeInv, GoodState, Delete_Tail
  PROVE  GoodState'
<1>. DEFINE t == kp["FLASH"]
            w == DropRec(t, ctx.pos, ctx.num)
<1>0. /\ pc = "kpTail" /\ "FLASH" \in BoatStoreType /\ pk' = pk /\ ctx' = ctx
      /\ ctx.num \in KeypairIndex /\ ctx.pos \in KeypairIndex
  BY Types DEF Delete_Tail, BoatStoreType, CtxSet
<1>1. /\ t \in Table /\ TabGood(kp) /\ TabGood(pk')
      /\ Removing(t, ctx.index, ctx.num, ctx.pos)
      /\ ctx.rec \in KeypairRec /\ ctx.rec.index = ctx.index
  BY <1>0, GoodFacts DEF CallInv
<1>2. CASE kp' = [kp EXCEPT !["FLASH"] = w] /\ Goto("pkDel")
  <2>1. Sound(w, Count(w)) /\ Absent(w, ctx.index)
    BY <1>0, <1>1, DropOut
  <2>. HIDE DEF w
  <2>2. TabGood(kp') /\ kp'["FLASH"] = w
    BY <1>0, <1>1, <1>2, <2>1, PutGood, Types
  <2>3. CallInv'
    BY <1>0, <1>1, <1>2, <2>1, <2>2 DEF CallInv, Goto
  <2>. QED
    BY <1>1, <2>2, <2>3 DEF GoodState
<1>3. CASE UNCHANGED kp /\ Goto("kpRecover")
  <2>1. CallInv'
    BY <1>0, <1>1, <1>3 DEF CallInv, Goto
  <2>. QED
    BY <1>1, <1>3, <2>1 DEF GoodState
<1>. QED
  BY <1>2, <1>3 DEF Delete_Tail

LEMMA DeleteRecoverGood ==
  ASSUME TypeInv, GoodState, Delete_Recover
  PROVE  GoodState'
<1>. DEFINE w == WriteNum(kp["FLASH"], ctx.num)
<1>0. /\ pc = "kpRecover" /\ "FLASH" \in BoatStoreType /\ pk' = pk /\ Deleted(FALSE)
      /\ ctx.num \in KeypairIndex
  BY Types DEF Delete_Recover, BoatStoreType, CtxSet
<1>1. kp["FLASH"] \in Table /\ TabGood(kp) /\ TabGood(pk')
      /\ Removing(kp["FLASH"], ctx.index, ctx.num, ctx.pos)
  BY <1>0, GoodFacts DEF CallInv
<1>2. Sound(w, Count(w))
  BY <1>0, <1>1, CountBack
<1>3. TabGood([kp EXCEPT !["FLASH"] = w])
  BY <1>0, <1>1, <1>2, PutGood, Types
<1>. QED
  BY <1>0, <1>1, <1>3, EndGood DEF Delete_Recover

LEMMA RestoreGood ==
  ASSUME TypeInv, GoodState, pc \in {"pkDel", "pkRecover"}, Restore
  PROVE  GoodState'
<1>1. /\ ctx'.index = ctx.index /\ ctx'.rec = ctx.rec /\ pc' = "kpRec" /\ kp' = kp /\ pk' = pk
  BY Types DEF Restore, Goto, CtxSet
<1>2. CallInv'
  BY <1>1 DEF GoodState, CallInv
<1>. QED
  BY <1>1, <1>2 DEF GoodState

LEMMA PirkeyNumGood ==
  ASSUME TypeInv, GoodState, DeletePirkey_Num
  PROVE  GoodState'
<1>. DEFINE t == pk["FLASH"]
            n == Count(t)
            f == FirstOf(Found(t, n, ctx.index))
            w == WriteNum(t, n - 1)
<1>0. "FLASH" \in BoatStoreType /\ pc = "pkDel" /\ ctx \in CtxSet
  BY Types DEF DeletePirkey_Num, BoatStoreType
<1>1. /\ t \in Table /\ Sound(t, n) /\ TabGood(kp) /\ TabGood(pk)
      /\ ctx.rec \in KeypairRec /\ ctx.rec.index = ctx.index
      /\ (ctx.index # 0 => Absent(kp["FLASH"], ctx.index))
  BY <1>0, GoodFacts DEF CallInv
<1>2. CASE /\ Found(t, n, ctx.index) # {}
           /\ pk' = [pk EXCEPT !["FLASH"] = WriteNum(t, t.num - 1)]
           /\ ctx' = [ctx EXCEPT !.num = t.num, !.pos = f]
           /\ Goto("pkTail")
           /\ UNCHANGED <<kp, faults>>
  <2>0. t.num = n
    BY <1>1, <1>2, FoundRange
  <2>1. Sound(w, Count(w)) /\ Removing(w, ctx.index, n, f)
    BY <1>1, <1>2, CountOut
  <2>. HIDE DEF f, n
  <2>2. pk' = [pk EXCEPT !["FLASH"] = w]
    BY <1>2, <2>0
  <2>. HIDE DEF w
  <2>3. TabGood(pk') /\ pk'["FLASH"] = w
    BY <1>0, <1>1, <2>1, <2>2, PutGood, Types
  <2>4. /\ ctx'.num = n /\ ctx'.pos = f /\ ctx'.rec = ctx.rec /\ ctx'.index = ctx.index
        /\ pc' = "pkTail"
    BY <1>0, <1>2, <2>0 DEF CtxSet, Goto
  <2>5. CallInv'
    BY <1>1, <1>2, <2>1, <2>3, <2>4 DEF CallInv
  <2>. QED
    BY <1>1, <1>2, <2>3, <2>5 DEF GoodState
<1>3. ASSUME UNCHANGED <<kp, pk>>, Deleted(TRUE) PROVE GoodState'
  BY <1>1, <1>3, EndGood
<1>4. Restore => GoodState'
  BY <1>0, RestoreGood
<1>. QED
  BY <1>2, <1>3, <1>4 DEF DeletePirkey_Num

LEMMA PirkeyTailGood ==
  ASSUME TypeInv, GoodState, DeletePirkey_Tail
  PROVE  GoodState'
<1>. DEFINE t == pk["FLASH"]
            w == DropRec(t, ctx.pos, ctx.num)
<1>0. /\ pc = "pkTail" /\ "FLASH" \in BoatStoreType /\ kp' = kp
      /\ ctx.num \in KeypairIndex /\ ctx.pos \in KeypairIndex
  BY Types DEF DeletePirkey_Tail, BoatStoreType, CtxSet
<1>1. /\ t \in Table /\ TabGood(kp') /\ TabGood(pk)
      /\ Removing(t, ctx.index, ctx.num, ctx.pos)
  BY <1>0, GoodFacts DEF CallInv
<1>2. CASE pk' = [pk EXCEPT !["FLASH"] = w] /\ Deleted(TRUE)
  <2>1. Sound(w, Count(w))
    BY <1>0, <1>1, DropOut
  <2>2. TabGood(pk')
    BY <1>0, <1>1, <1>2, <2>1, PutGood, Types
  <2>. QED
    BY <1>1, <1>2, <2>2, EndGood
<1>3. CASE Goto("pkRecover") /\ UNCHANGED <<kp, pk, ctx>>
  BY <1>0, <1>3 DEF GoodState, CallInv, Goto
<1>. QED
  BY <1>2, <1>3 DEF DeletePirkey_Tail

LEMMA PirkeyRecoverGood ==
  ASSUME TypeInv, GoodState, DeletePirkey_Recover
  PROVE  GoodState'
<1>. DEFINE w == WriteNum(pk["FLASH"], ctx.num)
<1>0. /\ pc = "pkRecover" /\ "FLASH" \in BoatStoreType /\ ctx.num \in KeypairIndex
  BY Types DEF DeletePirkey_Recover, BoatStoreType, CtxSet
<1>1. /\ pk["FLASH"] \in Table /\ TabGood(kp) /\ TabGood(pk)
      /\ Removing(pk["FLASH"], ctx.index, ctx.num, ctx.pos)
  BY <1>0, GoodFacts DEF CallInv
<1>2. Sound(w, Count(w))
  BY <1>0, <1>1, CountBack
<1>3. TabGood([pk EXCEPT !["FLASH"] = w])
  BY <1>0, <1>1, <1>2, PutGood, Types
<1>. QED
  BY <1>0, <1>1, <1>3, EndGood, RestoreGood DEF DeletePirkey_Recover

LEMMA RebootGood ==
  ASSUME TypeInv, GoodState, PowerCycle \/ Crash
  PROVE  GoodState'
<1>. DEFINE b == BlankTable(BOAT_MAX_KEYPAIR_NUM)
<1>1. Sound(b, Count(b)) /\ Count(b) <= 1 /\ "RAM" \in BoatStoreType
  BY BlankIsTable, EmptySound, MaxAssumption DEF BoatStoreType
<1>. HIDE DEF b
<1>2. TabGood([kp EXCEPT !["RAM"] = b]) /\ TabGood([pk EXCEPT !["RAM"] = b])
  BY <1>1, GoodFacts, PutGood, Types
<1>3. \E op, i : Reboot(op, i)
  BY DEF PowerCycle, Crash
<1>. QED
  BY <1>2, <1>3, IdleGood DEF Reboot, b

----------------------------------------------------------------------------

\* What went wrong is not forgotten.
LEMMA SeenGrows ==
  ASSUME TypeInv, [Next]_vars
  PROVE  faults.seen \subseteq faults'.seen
<1>0. faults \in FaultSet
  BY Types
<1>1. UNCHANGED faults => faults.seen \subseteq faults'.seen
  OBVIOUS
<1>2. \A kind : Fault(kind) => faults.seen \subseteq faults'.seen
  BY <1>0, FaultEffect
<1>3. \A m, kind : FlashFault(m, kind) => faults.seen \subseteq faults'.seen
  BY <1>2 DEF FlashFault
<1>4. \A m, t, n : StoreHeader(m, t, n) \/ StoreFault(m, t) \/ TailFault =>
         faults.seen \subseteq faults'.seen
  BY <1>1, <1>2, <1>3 DEF StoreHeader, StoreFault, TailFault
<1>5. ASSUME NEW k, NEW n, NEW m, BoatKeypairCreate(k, n, m) PROVE faults.seen \subseteq faults'.seen
  BY <1>1, <1>2, <1>5 DEF BoatKeypairCreate, BoATKeypair_GetKeypairList
<1>6. ASSUME NEW i, BoATIotKeypairDelete(i) PROVE faults.seen \subseteq faults'.seen
  BY <1>1, <1>6 DEF BoATIotKeypairDelete
<1>7. CASE DataCtx_Store_Record \/ DataCtx_Store_Num \/ store_prikey_Record \/ store_prikey_Num
  BY <1>1, <1>3, <1>4, <1>7
     DEF DataCtx_Store_Record, DataCtx_Store_Num, store_prikey_Record, store_prikey_Num
<1>8. CASE Delete_Onetime \/ Delete_Num \/ Delete_Tail \/ Delete_Recover
  BY <1>1, <1>2, <1>4, <1>8 DEF Delete_Onetime, Delete_Num, Delete_Tail, Delete_Recover
<1>9. CASE DeletePirkey_Num \/ DeletePirkey_Tail \/ DeletePirkey_Recover
  BY <1>1, <1>2, <1>4, <1>9 DEF DeletePirkey_Num, DeletePirkey_Tail, DeletePirkey_Recover
<1>10. CASE PowerCycle \/ Crash
  BY <1>1, <1>2, <1>10 DEF PowerCycle, Crash
<1>11. CASE UNCHANGED vars
  BY <1>11 DEF vars
<1>. QED
  BY <1>5, <1>6, <1>7, <1>8, <1>9, <1>10, <1>11 DEF Next

LEMMA SoundInit == Init => SoundInv
<1>. SUFFICES ASSUME Init PROVE SoundInv
  OBVIOUS
<1>. DEFINE b == BlankTable(BOAT_MAX_KEYPAIR_NUM)
<1>1. Sound(b, Count(b)) /\ Count(b) <= 1
  BY BlankIsTable, EmptySound, MaxAssumption
<1>. HIDE DEF b
<1>2. kp = [m \in BoatStoreType |-> b] /\ pk = [m \in BoatStoreType |-> b] /\ pc = "idle"
  BY DEF Init, b
<1>3. TabGood(kp) /\ TabGood(pk)
  BY <1>1, <1>2 DEF TabGood, BoatStoreType
<1>. QED
  BY <1>2, <1>3 DEF SoundInv, GoodState, CallInv

LEMMA SoundStep == TypeInv /\ SoundInv /\ [Next]_vars => SoundInv'
<1>. SUFFICES ASSUME TypeInv, SoundInv, [Next]_vars, "read" \notin faults'.seen
              PROVE  GoodState'
  BY DEF SoundInv
<1>0. GoodState
  BY SeenGrows DEF SoundInv
<1>1. CASE UNCHANGED vars
  BY <1>0, <1>1 DEF vars, GoodState, CallInv
<1>2. ASSUME NEW k \in Keys, NEW n \in NameLens, NEW m \in BoatStoreType, BoatKeypairCreate(k, n, m)
      PROVE  GoodState'
  BY <1>0, <1>2, CreateGood
<1>3. ASSUME NEW i \in 0..(BOAT_MAX_KEYPAIR_NUM + 1), BoATIotKeypairDelete(i)
      PROVE  GoodState'
  BY <1>0, <1>3, DeleteGood
<1>4. CASE DataCtx_Store_Record \/ DataCtx_Store_Num \/ store_prikey_Record \/ store_prikey_Num
  BY <1>0, <1>4, StoreRecordGood, StoreNumGood, PrikeyRecordGood, PrikeyNumGood
<1>5. CASE Delete_Onetime \/ Delete_Num \/ Delete_Tail \/ Delete_Recover
  BY <1>0, <1>5, OnetimeGood, DeleteNumGood, DeleteTailGood, DeleteRecoverGood
<1>6. CASE DeletePirkey_Num \/ DeletePirkey_Tail \/ DeletePirkey_Recover
  BY <1>0, <1>6, PirkeyNumGood, PirkeyTailGood, PirkeyRecoverGood
<1>7. CASE PowerCycle \/ Crash
  BY <1>0, <1>7, RebootGood
<1>. QED
  BY <1>1, <1>2, <1>3, <1>4, <1>5, <1>6, <1>7 DEF Next

\* The headers of the keypair and private-key tables never count in a record
\* that is not there, and no table holds two counted records of one index, in
\* whichever order creates, deletes, their rollbacks and restores follow each
\* other and wherever writes and allocations fail or power is cut in them.
THEOREM KeypairTablesSound == Spec => []TablesSound
<1>1. ASSUME SoundInv PROVE TablesSound
  <2>. SUFFICES ASSUME "read" \notin faults.seen, NEW m \in BoatStoreType
                PROVE  \A t \in {kp[m], pk[m]} :
                         /\ \A p \in 1..Count(t) : t.slot[p] # NoRec
                         /\ \A p, q \in 1..Count(t) : t.slot[p].index = t.slot[q].index => p = q
    BY DEF TablesSound
  <2>1. Sound(kp[m], Count(kp[m])) /\ Sound(pk[m], Count(pk[m]))
    BY <1>1 DEF SoundInv, GoodState, TabGood
  <2>. QED
    BY <2>1, RecAssumption DEF Sound
<1>. QED
  BY <1>1, TypeInit, TypeStep, SoundInit, SoundStep, PTL DEF Spec
=============================================================================
