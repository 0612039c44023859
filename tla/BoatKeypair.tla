---------------------------- MODULE BoatKeypair ----------------------------
(***************************************************************************)
(* The keypair store of the SDK: sdk/keypair/boatkeypair.c with the soft   *)
(* keystore below it (vendor/keystore/soft/boat_keystore.c).  A keypair    *)
(* lives in two tables, the public part in one and the private key in      *)
(* another, each with its own header; index 0 is the one-time keypair,     *)
(* kept in RAM, 1..BOAT_MAX_KEYPAIR_NUM the persistent ones in flash.      *)
(*                                                                         *)
(* An API call is a sequence of storage writes with reads between them.    *)
(* Each action below is one write with the reads that lead to it, so a     *)
(* behaviour shows every state a failed access or a power cut can leave.   *)
(* Calls do not overlap: the SDK takes no lock and leaves that to its user.*)
(***************************************************************************)
EXTENDS Integers, Sequences, FiniteSets, NvramTable, TlvLength

CONSTANTS
  BOAT_MAX_KEYPAIR_NUM,
  Keys,         \* key material: a public key stands with its private key
  NoKey,        \* what a reader gets that finds no key
  NameLens,     \* lengths of the names keypairs are created with
  FaultKinds,   \* what may go wrong: see AllFaultKinds
  MaxFaults     \* bound: how often something goes wrong in a behaviour

VARIABLES
  kp,           \* keypair table by store type (BOAT_STORE_KEYPAIR)
  pk,           \* private-key table by store type (BOAT_STORE_PRIKEY)
  pc,           \* the write the running call does next, "idle" between calls
  ctx,          \* the locals of the running call
  ret,          \* the last call and what it returned
  faults,       \* what went wrong so far
  pre           \* ghost: what a reader of each index saw before the call

vars == <<kp, pk, pc, ctx, ret, faults, pre>>

\* "read" and "write": an access to flash fails and is reported; "internal":
\* key generation, encryption or an allocation fails; "crash": power is lost.
AllFaultKinds == {"read", "write", "internal", "crash"}

ASSUME MaxAssumption == BOAT_MAX_KEYPAIR_NUM \in Nat \ {0}
ASSUME NameAssumption == NameLens \subseteq Nat \ {0}
ASSUME KeyAssumption == NoKey \notin Keys
ASSUME FaultAssumption == FaultKinds \subseteq AllFaultKinds /\ MaxFaults \in Nat

BoatStoreType == {"RAM", "FLASH"}
KeypairIndex  == 0..BOAT_MAX_KEYPAIR_NUM
Persistent    == 1..BOAT_MAX_KEYPAIR_NUM
NoIndex       == -1

KeypairRec == [index : KeypairIndex, key : Keys, len : Nat]
ASSUME RecAssumption == NoRec \notin KeypairRec

\* The bytes each table has: BoATStoreSoftRotNvram refuses to write past them.
BOAT_STORAGE_KEYPAIR_MAXLEN == 4 + 3 + BOAT_MAX_KEYPAIR_NUM * (2 + 65 + 5 + 5 + 65)

\* Mutant: the index in front of each private key is not counted.
MutantPrikeyMaxlen == 4 + BOAT_MAX_KEYPAIR_NUM * 97

BOAT_STORAGE_PRIKEY_MAXLEN  == 4 + BOAT_MAX_KEYPAIR_NUM * (2 + 97)

\* LV of the index and LV of the encrypted private key.
PrikeyRec(r) == [r EXCEPT !.len = 2 + 97]

Mem(i) == IF i = 0 THEN "RAM" ELSE "FLASH"

NoCtx == [api |-> "none", index |-> NoIndex, rec |-> NoRec,
          num |-> 0, pos |-> 0, restore |-> FALSE]
NoRet == [op |-> "none", index |-> NoIndex, ok |-> TRUE]

----------------------------------------------------------------------------
(* What the readers return.                                                *)

\* The key index i has among the first n records.
KeyAt(t, n, i) ==
  LET S == Found(t, n, i)
  IN  IF S = {} THEN NoKey ELSE t.slot[FirstOf(S)].key

\* The public key of index i, in keypair tables T.
BoATKeypair_GetKeypairByIndex(T, i) == KeyAt(T[Mem(i)], Count(T[Mem(i)]), i)

\* The private key a signature with index i is made with.
BoAT_GetPirkeyByIndex(T, i) == KeyAt(T[Mem(i)], Count(T[Mem(i)]), i)

View(kps, pks, i) == [pub |-> BoATKeypair_GetKeypairByIndex(kps, i),
                      pri |-> BoAT_GetPirkeyByIndex(pks, i)]
Views(kps, pks) == [i \in Persistent |-> View(kps, pks, i)]

----------------------------------------------------------------------------
(* Faults, and the end of a call.                                          *)

Fault(kind) ==
  /\ kind \in FaultKinds
  /\ faults.left > 0
  /\ faults' = [left |-> faults.left - 1, seen |-> faults.seen \cup {kind}]

\* RAM_BOAT_DATA and RAM_BOAT_PRIKEY_DATA are memory: only flash accesses fail.
FlashFault(m, kind) == m = "FLASH" /\ Fault(kind)

Return(ok) ==
  /\ pc'  = "idle"
  /\ ctx' = NoCtx
  /\ ret' = [op |-> ctx.api, index |-> ctx.index, ok |-> ok]
  /\ pre' = Views(kp', pk')

\* A call that is refused before it has begun to write.
Refuse(op, i) ==
  /\ ret' = [op |-> op, index |-> i, ok |-> FALSE]
  /\ UNCHANGED <<kp, pk, pc, ctx, pre>>

Goto(label) == pc' = label /\ UNCHANGED <<ret, pre>>

----------------------------------------------------------------------------
(* BoatKeypairCreate.                                                      *)

\* The list holds n persistent keypairs, of which the indices in seen were
\* read: an unreadable header is an empty list, an unreadable record ends it.
BoATKeypair_GetKeypairList(n, seen) ==
  LET t == kp["FLASH"] IN
  \/ n = Count(t) /\ seen = Used(t, n) /\ UNCHANGED faults
  \/ n = 0 /\ seen = {} /\ Fault("read")
  \/ n = Count(t) /\ n > 0 /\ Fault("read") /\ \E s \in 0..n : seen = Used(t, s)

\* Mutant: one index too many is handed out.
MutantFreeIndex(n, seen) ==
  IF n > BOAT_MAX_KEYPAIR_NUM THEN NoIndex ELSE LeastFree(seen, BOAT_MAX_KEYPAIR_NUM + 1)

\* Mutant: the number of keypairs plus one is taken to be free.
MutantNextIndex(n, seen) == IF n = BOAT_MAX_KEYPAIR_NUM THEN NoIndex ELSE n + 1

BoATKeypair_GetFreeIndex_From_Persistent(n, seen) ==
  IF n = BOAT_MAX_KEYPAIR_NUM \/ Persistent \subseteq seen
  THEN NoIndex
  ELSE LeastFree(seen, BOAT_MAX_KEYPAIR_NUM)

StartCreate(i, k, nameLen) ==
  /\ ctx' = [NoCtx EXCEPT !.api = "create", !.index = i,
               !.rec = [index |-> i, key |-> k,
                        len |-> BoATKeypair_Get_DataCtx_Len(nameLen)]]
  /\ Goto("kpRec")
  /\ UNCHANGED <<kp, pk>>

BoatKeypairCreate(k, nameLen, storeType) ==
  /\ pc = "idle"
  /\ \/ Fault("internal") /\ Refuse("create", NoIndex)
     \/ storeType = "RAM" /\ UNCHANGED faults /\ StartCreate(0, k, nameLen)
     \/ /\ storeType = "FLASH"
        /\ \E n \in KeypairIndex, seen \in SUBSET KeypairIndex :
             /\ BoATKeypair_GetKeypairList(n, seen)
             /\ LET i == BoATKeypair_GetFreeIndex_From_Persistent(n, seen)
                IN  IF i = NoIndex THEN Refuse("create", NoIndex)
                                   ELSE StartCreate(i, k, nameLen)

\* The header as a store reads it: one that cannot be read counts as empty.
StoreHeader(m, t, n) ==
  \/ n = Count(t) /\ UNCHANGED faults
  \/ n = 0 /\ FlashFault(m, "read")

\* A store that fails before or in the write of the record.
StoreFault(m, t) ==
  \/ Fault("internal")
  \/ FlashFault(m, "write")
  \/ Count(t) > 0 /\ FlashFault(m, "read")

\* BoATKeypair_DataCtx_Store up to its first write, the record.  It stores the
\* new keypair of a create, or puts back the one a delete removed too early.
DataCtx_Store_Record ==
  LET m == Mem(ctx.index)
      t == kp[m]
  IN
  /\ pc = "kpRec"
  /\ UNCHANGED pk
  /\ \/ \E n \in {0, Count(t)} :
          LET base == IF m = "RAM" THEN 0 ELSE n
          IN  /\ StoreHeader(m, t, n)
              /\ IF n < BOAT_MAX_KEYPAIR_NUM
                    /\ AreaEnd(t, base) + ctx.rec.len <= BOAT_STORAGE_KEYPAIR_MAXLEN
                 THEN /\ kp' = [kp EXCEPT ![m] = WriteRec(t, base + 1, ctx.rec)]
                      /\ ctx' = [ctx EXCEPT !.num = base]
                      /\ Goto("kpNum")
                 ELSE UNCHANGED kp /\ Return(FALSE)
     \/ StoreFault(m, t) /\ UNCHANGED kp /\ Return(FALSE)

\* ... and its second write, the number of keypairs.
DataCtx_Store_Num ==
  LET m == Mem(ctx.index) IN
  /\ pc = "kpNum"
  /\ UNCHANGED pk
  /\ \/ /\ kp' = [kp EXCEPT ![m] = WriteNum(kp[m], ctx.num + 1)]
        /\ UNCHANGED faults
        /\ IF ctx.restore THEN Return(FALSE) ELSE Goto("pkRec") /\ UNCHANGED ctx
     \/ FlashFault(m, "write") /\ UNCHANGED kp /\ Return(FALSE)

\* Mutant: BoatKeypairCreate reports the failure and leaves the keypair.
MutantRollback == UNCHANGED <<kp, pk>> /\ Return(FALSE)

\* The private key could not be stored: BoatKeypairCreate deletes its keypair.
Rollback == Goto("kpDel") /\ UNCHANGED <<kp, pk, ctx>>

\* BoAT_Keystore_store_prikey up to its first write.
store_prikey_Record ==
  LET m == Mem(ctx.index)
      t == pk[m]
      r == PrikeyRec(ctx.rec)
  IN
  /\ pc = "pkRec"
  /\ \/ \E n \in {0, Count(t)} :
          LET base == IF m = "RAM" THEN 0 ELSE n
          IN  /\ StoreHeader(m, t, n)
              /\ IF /\ n < BOAT_MAX_KEYPAIR_NUM
                    /\ Found(t, base, ctx.index) = {}
                    /\ AreaEnd(t, base) + r.len <= BOAT_STORAGE_PRIKEY_MAXLEN
                 THEN /\ pk' = [pk EXCEPT ![m] = WriteRec(t, base + 1, r)]
                      /\ ctx' = [ctx EXCEPT !.num = base]
                      /\ UNCHANGED kp
                      /\ Goto("pkNum")
                 ELSE Rollback
     \/ StoreFault(m, t) /\ Rollback

\* Mutant: the number is written before it is incremented.
MutantPrikeyNum ==
  LET m == Mem(ctx.index) IN
  /\ pc = "pkNum"
  /\ \/ /\ pk' = [pk EXCEPT ![m] = WriteNum(pk[m], ctx.num)]
        /\ UNCHANGED <<kp, faults>>
        /\ Return(TRUE)
     \/ FlashFault(m, "write") /\ Rollback

store_prikey_Num ==
  LET m == Mem(ctx.index) IN
  /\ pc = "pkNum"
  /\ \/ /\ pk' = [pk EXCEPT ![m] = WriteNum(pk[m], ctx.num + 1)]
        /\ UNCHANGED <<kp, faults>>
        /\ Return(TRUE)
     \/ FlashFault(m, "write") /\ Rollback

----------------------------------------------------------------------------
(* BoATIotKeypairDelete, called by the user or to roll a create back.      *)

\* The outcome of the delete; a create that needed one fails in any case.
Deleted(ok) == Return(ok /\ ctx.api = "delete")

BoATIotKeypairDelete(i) ==
  /\ pc = "idle"
  /\ UNCHANGED faults
  /\ IF i > BOAT_MAX_KEYPAIR_NUM
     THEN Refuse("delete", i)
     ELSE /\ ctx' = [NoCtx EXCEPT !.api = "delete", !.index = i]
          /\ Goto("kpDel")
          /\ UNCHANGED <<kp, pk>>

\* The one-time keypair: its header is zeroed and nothing else is done.
Delete_Onetime ==
  /\ pc = "kpDel" /\ ctx.index = 0
  /\ UNCHANGED <<pk, faults>>
  /\ IF Count(kp["RAM"]) = 0
     THEN UNCHANGED kp /\ Deleted(FALSE)
     ELSE kp' = [kp EXCEPT !["RAM"] = WriteNum(kp["RAM"], BadNum)] /\ Deleted(TRUE)

\* A persistent keypair: find it, keep a copy, then lower the number of
\* keypairs before anything is moved.
Delete_Num ==
  LET t == kp["FLASH"]
      S == Found(t, Count(t), ctx.index)
  IN
  /\ pc = "kpDel" /\ ctx.index # 0
  /\ UNCHANGED pk
  /\ \/ /\ S # {}
        /\ kp' = [kp EXCEPT !["FLASH"] = WriteNum(t, Count(t) - 1)]
        /\ ctx' = [ctx EXCEPT !.num = Count(t), !.pos = FirstOf(S),
                              !.rec = t.slot[FirstOf(S)]]
        /\ Goto("kpTail")
        /\ UNCHANGED faults
     \/ S = {} /\ UNCHANGED <<kp, faults>> /\ Deleted(FALSE)
     \/ (Fault("read") \/ Fault("internal")) /\ UNCHANGED kp /\ Deleted(FALSE)
     \/ S # {} /\ Fault("write") /\ UNCHANGED kp /\ Deleted(FALSE)

\* Reading or copying the records behind the deleted one can fail as well.
TailFault ==
  \/ Fault("write")
  \/ ctx.pos < ctx.num /\ (Fault("read") \/ Fault("internal"))

\* Mutant: the private key is forgotten.
MutantTail ==
  /\ pc = "kpTail"
  /\ UNCHANGED pk
  /\ \/ /\ kp' = [kp EXCEPT !["FLASH"] = DropRec(kp["FLASH"], ctx.pos, ctx.num)]
        /\ Deleted(TRUE)
        /\ UNCHANGED faults
     \/ TailFault /\ UNCHANGED <<kp, ctx>> /\ Goto("kpRecover")

Delete_Tail ==
  /\ pc = "kpTail"
  /\ UNCHANGED <<pk, ctx>>
  /\ \/ /\ kp' = [kp EXCEPT !["FLASH"] = DropRec(kp["FLASH"], ctx.pos, ctx.num)]
        /\ Goto("pkDel")
        /\ UNCHANGED faults
     \/ TailFault /\ UNCHANGED kp /\ Goto("kpRecover")

\* Mutant: the number of keypairs is not put back.
MutantNoRecover == pc = "kpRecover" /\ UNCHANGED <<kp, pk, faults>> /\ Deleted(FALSE)

Delete_Recover ==
  /\ pc = "kpRecover"
  /\ UNCHANGED pk
  /\ \/ kp' = [kp EXCEPT !["FLASH"] = WriteNum(kp["FLASH"], ctx.num)] /\ UNCHANGED faults
     \/ UNCHANGED kp /\ Fault("write")
  /\ Deleted(FALSE)

\* Mutant: the keypair stays deleted.
MutantRestore == UNCHANGED <<kp, pk>> /\ Deleted(FALSE)

\* BoAT_DeletePirkeyByIndex failed: the keypair is stored again.
Restore == ctx' = [ctx EXCEPT !.restore = TRUE] /\ Goto("kpRec") /\ UNCHANGED <<kp, pk>>

\* BoAT_DeletePirkeyByIndex up to the lowered number of private keys; with a
\* valid header that says 0 there is nothing to delete and it succeeds.
DeletePirkey_Num ==
  LET t == pk["FLASH"]
      S == Found(t, Count(t), ctx.index)
  IN
  /\ pc = "pkDel"
  /\ \/ t.num = 0 /\ UNCHANGED <<kp, pk, faults>> /\ Deleted(TRUE)
     \/ /\ S # {}
        /\ pk' = [pk EXCEPT !["FLASH"] = WriteNum(t, t.num - 1)]
        /\ ctx' = [ctx EXCEPT !.num = t.num, !.pos = FirstOf(S)]
        /\ Goto("pkTail")
        /\ UNCHANGED <<kp, faults>>
     \/ t.num # 0 /\ S = {} /\ UNCHANGED faults /\ Restore
     \/ Fault("read") /\ Restore
     \/ S # {} /\ Fault("write") /\ Restore

DeletePirkey_Tail ==
  /\ pc = "pkTail"
  /\ \/ /\ pk' = [pk EXCEPT !["FLASH"] = DropRec(pk["FLASH"], ctx.pos, ctx.num)]
        /\ UNCHANGED <<kp, faults>>
        /\ Deleted(TRUE)
     \/ TailFault /\ Goto("pkRecover") /\ UNCHANGED <<kp, pk, ctx>>

\* The catch block puts the number back, and the function returns success.
DeletePirkey_Recover ==
  /\ pc = "pkRecover"
  /\ \/ /\ pk' = [pk EXCEPT !["FLASH"] = WriteNum(pk["FLASH"], ctx.num)]
        /\ UNCHANGED <<kp, faults>>
        /\ Deleted(TRUE)
     \/ Fault("write") /\ Restore

----------------------------------------------------------------------------
(* Power.                                                                  *)

\* The static RAM tables start out zeroed; flash keeps what it holds.
Reboot(op, i) ==
  /\ kp'  = [kp EXCEPT !["RAM"] = BlankTable(BOAT_MAX_KEYPAIR_NUM)]
  /\ pk'  = [pk EXCEPT !["RAM"] = BlankTable(BOAT_MAX_KEYPAIR_NUM)]
  /\ pc'  = "idle"
  /\ ctx' = NoCtx
  /\ ret' = [op |-> op, index |-> i, ok |-> TRUE]
  /\ pre' = Views(kp', pk')

PowerCycle == pc = "idle" /\ UNCHANGED faults /\ Reboot("boot", NoIndex)

Crash == pc # "idle" /\ Fault("crash") /\ Reboot("crash", ctx.index)

Init ==
  /\ kp  = [m \in BoatStoreType |-> BlankTable(BOAT_MAX_KEYPAIR_NUM)]
  /\ pk  = [m \in BoatStoreType |-> BlankTable(BOAT_MAX_KEYPAIR_NUM)]
  /\ pc  = "idle"
  /\ ctx = NoCtx
  /\ ret = NoRet
  /\ faults = [left |-> MaxFaults, seen |-> {}]
  /\ pre = [i \in Persistent |-> [pub |-> NoKey, pri |-> NoKey]]

Next ==
  \/ \E k \in Keys, n \in NameLens, m \in BoatStoreType : BoatKeypairCreate(k, n, m)
  \/ \E i \in 0..(BOAT_MAX_KEYPAIR_NUM + 1) : BoATIotKeypairDelete(i)
  \/ DataCtx_Store_Record \/ DataCtx_Store_Num
  \/ store_prikey_Record \/ store_prikey_Num
  \/ Delete_Onetime \/ Delete_Num \/ Delete_Tail \/ Delete_Recover
  \/ DeletePirkey_Num \/ DeletePirkey_Tail \/ DeletePirkey_Recover
  \/ PowerCycle \/ Crash

Spec == Init /\ [][Next]_vars

----------------------------------------------------------------------------
(* Properties.                                                             *)

TypeOK ==
  /\ kp \in [BoatStoreType -> TableOf(BOAT_MAX_KEYPAIR_NUM, KeypairRec)]
  /\ pk \in [BoatStoreType -> TableOf(BOAT_MAX_KEYPAIR_NUM, KeypairRec)]
  /\ pc \in {"idle", "kpRec", "kpNum", "pkRec", "pkNum", "kpDel", "kpTail",
             "kpRecover", "pkDel", "pkTail", "pkRecover"}
  /\ ctx \in [api : {"none", "create", "delete"}, index : KeypairIndex \cup {NoIndex},
              rec : KeypairRec \cup {NoRec}, num : KeypairIndex, pos : KeypairIndex,
              restore : BOOLEAN]
  /\ ret \in [op : {"none", "create", "delete", "boot", "crash"},
              index : NoIndex..(BOAT_MAX_KEYPAIR_NUM + 1), ok : BOOLEAN]
  /\ faults \in [left : 0..MaxFaults, seen : SUBSET FaultKinds]

\* The number of records is never larger than the records that are there, and
\* no two records of a table carry the same index: what every walk of the
\* tables (GetKeypairByIndex, Delete, store_prikey) relies on.  It holds after
\* power cuts and failed writes; a failed read of a header, taken for an empty
\* table, voids it.
TablesSound ==
  "read" \notin faults.seen =>
    \A m \in BoatStoreType : \A t \in {kp[m], pk[m]} :
      /\ \A p \in 1..Count(t) : t.slot[p] # NoRec
      /\ \A p, q \in 1..Count(t) : t.slot[p].index = t.slot[q].index => p = q

\* At most one thing went wrong so far, and it was of one of these kinds.
Only(kinds) == faults.seen \subseteq kinds /\ faults.left + 1 >= MaxFaults

\* Between calls, a persistent index that has both parts signs with the
\* private key of the public key it shows, whatever single fault occurred.
SignsForItself ==
  pc = "idle" /\ Only(AllFaultKinds) =>
    \A i \in Persistent :
      LET v == View(kp, pk, i) IN v.pub # NoKey /\ v.pri # NoKey => v.pub = v.pri

\* A create fails for no other reason than that every persistent index holds
\* a keypair that can be read and signed with (no fault, names within the area
\* the table reserves for them).
CreateFailsOnlyWhenFull ==
  pc = "idle" /\ ret.op = "create" /\ ~ret.ok /\ faults.seen = {} =>
    \A i \in Persistent :
      LET v == View(kp, pk, i) IN v.pub # NoKey /\ v.pri # NoKey

CallEnds(op, ok) == pc # "idle" /\ pc' = "idle" /\ ret'.op = op /\ ret'.ok = ok

\* A call on one index leaves what readers see of every other persistent index
\* as it was, even when one write, allocation or key generation in it fails.
OthersUntouched ==
  [][pc # "idle" /\ pc' = "idle" /\ Only({"write", "internal"})' =>
       \A j \in Persistent \ {ctx.index} : View(kp', pk', j) = pre[j]]_vars

\* The same of a power cut.
OthersSurviveCrash ==
  [][pc # "idle" /\ pc' = "idle" /\ Only({"crash"})' =>
       \A j \in Persistent \ {ctx.index} : View(kp', pk', j) = pre[j]]_vars

\* A create that returns an index gave out one no keypair had, and the keypair
\* can be read and signed with from then on.
CreateOkUsable ==
  [][CallEnds("create", TRUE) =>
       /\ View(kp', pk', ctx.index) = [pub |-> ctx.rec.key, pri |-> ctx.rec.key]
       /\ ctx.index \in Persistent => pre[ctx.index].pub = NoKey]_vars

\* A delete that reports failure leaves the keypair as it was.
FailedDeleteKeeps ==
  [][CallEnds("delete", FALSE) /\ Only({"read", "write", "internal"})' /\ ctx.index \in Persistent =>
       View(kp', pk', ctx.index) = pre[ctx.index]]_vars

\* A delete that reports success leaves neither part of a persistent keypair.
DeleteErases ==
  [][CallEnds("delete", TRUE) /\ Only({"crash"})' /\ ctx.index \in Persistent =>
       View(kp', pk', ctx.index) = [pub |-> NoKey, pri |-> NoKey]]_vars

\* A create that fails after a power cut leaves its index clean, so that the
\* next one succeeds: the rollback also removes the private key the cut left.
FailedCreateHeals ==
  [][CallEnds("create", FALSE) /\ Only({"crash"})' /\ ctx.index \in Persistent =>
       View(kp', pk', ctx.index) = [pub |-> NoKey, pri |-> NoKey]]_vars

\* The one-time keypair too can no longer sign once it is deleted.
OnetimeDeleteErases ==
  [][CallEnds("delete", TRUE) /\ ctx.index = 0 => BoAT_GetPirkeyByIndex(pk', 0) = NoKey]_vars
=============================================================================
