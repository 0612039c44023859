---------------------------- MODULE BoatNetwork ----------------------------
(***************************************************************************)
(* The network store of the SDK: the files sdk/network/<p>/network_<p>.c,  *)
(* one for each blockchain protocol, which all work on ONE table of        *)
(* network records (node address, chain id, certificates) in RAM for the   *)
(* one-time network (index 0) and one in flash for the persistent networks *)
(* 1..BOAT_MAX_NETWORK_NUM.  The files differ in the fields of a record    *)
(* and in the protocol they put on it; the code that stores, finds and     *)
(* deletes a record is the same text in each, so it is modelled once, with *)
(* the protocol as a parameter, and each file contributes its entry points.*)
(*                                                                         *)
(* As in BoatKeypair an action is one storage write with the reads that    *)
(* lead to it, and calls do not overlap.                                   *)
(***************************************************************************)
EXTENDS Integers, Sequences, FiniteSets, NvramTable, TlvLength

CONSTANTS
  BOAT_MAX_NETWORK_NUM,
  Builds,       \* sets of protocols the SDK may be built with: see AllProtocols
  DataLens,     \* lengths of the network data that is stored
  FaultKinds,   \* what may go wrong: see AllFaultKinds
  MaxFaults     \* bound: how often something goes wrong in a behaviour

VARIABLES
  built,        \* the protocols this SDK is built with
  nw,           \* network table by store type (BOAT_STORE_NETWORK)
  pc,           \* the write the running call does next, "idle" between calls
  ctx,          \* the locals of the running call
  ret,          \* the last call and what it returned
  faults,       \* what went wrong so far
  pre           \* ghost: what a reader of each index saw before the call

vars == <<built, nw, pc, ctx, ret, faults, pre>>

AllProtocols == {"ETHEREUM", "PLATON", "PLATONE", "QUORUM", "VENACHAIN",
                 "FISCOBCOS", "HLFABRIC", "HWBCS", "CHAINMAKER", "CITA"}

\* As in BoatKeypair; "overflow": network data too long for
\* RAM_BOAT_NETWORK_DATA, which the write of the data finds out.
AllFaultKinds == {"read", "write", "internal", "overflow", "crash"}

ASSUME MaxAssumption == BOAT_MAX_NETWORK_NUM \in Nat \ {0}
ASSUME ProtocolAssumption == \A B \in Builds : B # {} /\ B \subseteq AllProtocols
ASSUME DataAssumption == DataLens \subseteq Nat \ {0}
ASSUME FaultAssumption == FaultKinds \subseteq AllFaultKinds /\ MaxFaults \in Nat

BoatStoreType == {"RAM", "FLASH"}
NetworkIndex  == 0..BOAT_MAX_NETWORK_NUM
Persistent    == 1..BOAT_MAX_NETWORK_NUM
NoIndex       == -1

\* A record is its protocol, its index and its data; the data is told by the
\* protocol whose fields it holds and by its length.
NetworkRec == [protocol : AllProtocols, index : NetworkIndex, fields : AllProtocols, len : Nat]
ASSUME RecAssumption == NoRec \notin NetworkRec

Mem(i) == IF i = 0 THEN "RAM" ELSE "FLASH"

NoCtx == [api |-> "none", index |-> NoIndex, rec |-> NoRec, num |-> 0, pos |-> 0]
NoRet == [op |-> "none", index |-> NoIndex, ok |-> TRUE]

----------------------------------------------------------------------------
(* What the readers return.                                                *)

\* Mutant: the protocol of the record is not compared.
MutantFoundNetwork(t, n, p, i) == Found(t, n, i)

\* The slots, within the first n, of index i and protocol p.
FoundNetwork(t, n, p, i) == {q \in Found(t, n, i) : t.slot[q].protocol = p}

\* What is in the data of a record, read by the file of protocol p.  The LV
\* files take what lies there field by field, whichever file wrote it; the
\* others unpack a protobuf message, which data of another layout is not.
FromLv(r)    == r
FromProto(r) == IF r.fields = r.protocol THEN r ELSE NoRec

BoATEth_GetNetworkFromNvram(r)        == FromLv(r)
BoATPlatON_GetNetworkFromNvram(r)     == FromLv(r)
BoATPlatone_GetNetworkFromNvram(r)    == FromLv(r)
BoATQuorum_GetNetworkFromNvram(r)     == FromLv(r)
BoATVenachain_GetNetworkFromNvram(r)  == FromLv(r)
BoATFiscobcos_GetNetworkFromNvram(r)  == FromLv(r)
BoATHlfabric_GetNetworkFromNvram(r)   == FromProto(r)
BoATHwbcs_GetNetworkFromNvram(r)      == FromProto(r)
BoATChainmaker_GetNetworkFromNvram(r) == FromProto(r)
BoATCita_GetNetworkFromNvram(r)       == FromProto(r)

\* The record protocol p reads at index i.
ByIndex(T, p, i, FromNvram(_)) ==
  LET t == T[Mem(i)]
      S == FoundNetwork(t, Count(t), p, i)
  IN  IF S = {} THEN NoRec ELSE FromNvram(t.slot[FirstOf(S)])

BoATEth_GetNetworkByIndex(T, i)        == ByIndex(T, "ETHEREUM", i, BoATEth_GetNetworkFromNvram)
BoATPlatON_GetNetworkByIndex(T, i)     == ByIndex(T, "PLATON", i, BoATPlatON_GetNetworkFromNvram)
BoATPlatone_GetNetworkByIndex(T, i)    == ByIndex(T, "PLATONE", i, BoATPlatone_GetNetworkFromNvram)
BoATQuorum_GetNetworkByIndex(T, i)     == ByIndex(T, "QUORUM", i, BoATQuorum_GetNetworkFromNvram)
BoATVenachain_GetNetworkByIndex(T, i)  == ByIndex(T, "VENACHAIN", i, BoATVenachain_GetNetworkFromNvram)
BoATFiscobcos_GetNetworkByIndex(T, i)  == ByIndex(T, "FISCOBCOS", i, BoATFiscobcos_GetNetworkFromNvram)
BoATHlfabric_GetNetworkByIndex(T, i)   == ByIndex(T, "HLFABRIC", i, BoATHlfabric_GetNetworkFromNvram)
BoATHwbcs_GetNetworkByIndex(T, i)      == ByIndex(T, "HWBCS", i, BoATHwbcs_GetNetworkFromNvram)
BoATChainmaker_GetNetworkByIndex(T, i) == ByIndex(T, "CHAINMAKER", i, BoATChainmaker_GetNetworkFromNvram)
BoATCita_GetNetworkByIndex(T, i)       == ByIndex(T, "CITA", i, BoATCita_GetNetworkFromNvram)

GetNetworkByIndex(T, p, i) ==
  CASE p = "ETHEREUM"   -> BoATEth_GetNetworkByIndex(T, i)
    [] p = "PLATON"     -> BoATPlatON_GetNetworkByIndex(T, i)
    [] p = "PLATONE"    -> BoATPlatone_GetNetworkByIndex(T, i)
    [] p = "QUORUM"     -> BoATQuorum_GetNetworkByIndex(T, i)
    [] p = "VENACHAIN"  -> BoATVenachain_GetNetworkByIndex(T, i)
    [] p = "FISCOBCOS"  -> BoATFiscobcos_GetNetworkByIndex(T, i)
    [] p = "HLFABRIC"   -> BoATHlfabric_GetNetworkByIndex(T, i)
    [] p = "HWBCS"      -> BoATHwbcs_GetNetworkByIndex(T, i)
    [] p = "CHAINMAKER" -> BoATChainmaker_GetNetworkByIndex(T, i)
    [] p = "CITA"       -> BoATCita_GetNetworkByIndex(T, i)

\* The networks of protocol p among the records of t, in the order of the table.
Listed(t, p) ==
  LET list[n \in 0..Count(t)] ==
        IF n = 0 THEN <<>>
        ELSE IF t.slot[n].protocol = p THEN Append(list[n-1], t.slot[n]) ELSE list[n-1]
  IN  list[Count(t)]

\* Mutant: the one-time network is left out.
MutantNetworkList(T, p, places) == [num |-> Count(T["FLASH"]) + Count(T["RAM"]),
                                    networks |-> Listed(T["FLASH"], p), behind |-> <<>>]

\* The list of protocol p: its networks in flash, then in RAM, and as their
\* number the networks of all protocols.  The array has so many places; what
\* does not fit is written behind it all the same.
NetworkList(T, p, places) ==
  LET all == Listed(T["FLASH"], p) \o Listed(T["RAM"], p)
  IN  [num      |-> Count(T["FLASH"]) + Count(T["RAM"]),
       networks |-> SubSeq(all, 1, IF Len(all) <= places THEN Len(all) ELSE places),
       behind   |-> SubSeq(all, places + 1, Len(all))]

BoATEth_GetNetworkList(T)        == NetworkList(T, "ETHEREUM", BOAT_MAX_NETWORK_NUM + 1)
BoATPlatON_GetNetworkList(T)     == NetworkList(T, "PLATON", BOAT_MAX_NETWORK_NUM + 1)
BoATPlatone_GetNetworkList(T)    == NetworkList(T, "PLATONE", BOAT_MAX_NETWORK_NUM + 1)
BoATQuorum_GetNetworkList(T)     == NetworkList(T, "QUORUM", BOAT_MAX_NETWORK_NUM + 1)
BoATVenachain_GetNetworkList(T)  == NetworkList(T, "VENACHAIN", BOAT_MAX_NETWORK_NUM + 1)
BoATFiscobcos_GetNetworkList(T)  == NetworkList(T, "FISCOBCOS", BOAT_MAX_NETWORK_NUM + 1)
BoATHlfabric_GetNetworkList(T)   == NetworkList(T, "HLFABRIC", BOAT_MAX_NETWORK_NUM + 1)
BoATHwbcs_GetNetworkList(T)      == NetworkList(T, "HWBCS", BOAT_MAX_NETWORK_NUM + 1)
BoATChainmaker_GetNetworkList(T) == NetworkList(T, "CHAINMAKER", BOAT_MAX_NETWORK_NUM)
BoATCita_GetNetworkList(T)       == NetworkList(T, "CITA", BOAT_MAX_NETWORK_NUM)

GetNetworkList(T, p) ==
  CASE p = "ETHEREUM"   -> BoATEth_GetNetworkList(T)
    [] p = "PLATON"     -> BoATPlatON_GetNetworkList(T)
    [] p = "PLATONE"    -> BoATPlatone_GetNetworkList(T)
    [] p = "QUORUM"     -> BoATQuorum_GetNetworkList(T)
    [] p = "VENACHAIN"  -> BoATVenachain_GetNetworkList(T)
    [] p = "FISCOBCOS"  -> BoATFiscobcos_GetNetworkList(T)
    [] p = "HLFABRIC"   -> BoATHlfabric_GetNetworkList(T)
    [] p = "HWBCS"      -> BoATHwbcs_GetNetworkList(T)
    [] p = "CHAINMAKER" -> BoATChainmaker_GetNetworkList(T)
    [] p = "CITA"       -> BoATCita_GetNetworkList(T)

Views(T) == [i \in Persistent |-> [p \in built |-> GetNetworkByIndex(T, p, i)]]

----------------------------------------------------------------------------
(* Faults, and the end of a call.                                          *)

Fault(kind) ==
  /\ kind \in FaultKinds
  /\ faults.left > 0
  /\ faults' = [left |-> faults.left - 1, seen |-> faults.seen \cup {kind}]

FlashFault(m, kind) == m = "FLASH" /\ Fault(kind)

Return(ok) ==
  /\ UNCHANGED built
  /\ pc'  = "idle"
  /\ ctx' = NoCtx
  /\ ret' = [op |-> ctx.api, index |-> ctx.index, ok |-> ok]
  /\ pre' = Views(nw')

Refuse(op, i) ==
  /\ ret' = [op |-> op, index |-> i, ok |-> FALSE]
  /\ UNCHANGED <<built, nw, pc, ctx, pre>>

Goto(label) == pc' = label /\ UNCHANGED <<built, ret, pre>>

----------------------------------------------------------------------------
(* Creating a network.                                                     *)

\* A record of protocol p: protocol (a 4-byte enum), index, and the data,
\* which is LV of index, chain id, EIP-155 flag and the URL of len characters,
\* or LV of a protobuf message of len bytes.
Record(p, i, data) == [protocol |-> p, index |-> i, fields |-> p, len |-> 4 + 1 + LvLen(data)]
LvData(len)        == LvLen(1) + LvLen(4) + LvLen(1) + LvLen(len + 1)

BoATEth_Get_Network_Data(i, len)        == Record("ETHEREUM", i, LvData(len))
BoATPlatON_Get_Network_Data(i, len)     == Record("PLATON", i, LvData(len))
BoATPlatone_Get_Network_Data(i, len)    == Record("PLATONE", i, LvData(len))
BoATQuorum_Get_Network_Data(i, len)     == Record("QUORUM", i, LvData(len))
BoATVenachain_Get_Network_Data(i, len)  == Record("VENACHAIN", i, LvData(len))
BoATFiscobcos_Get_Network_Data(i, len)  == Record("FISCOBCOS", i, LvData(len))
BoATHlfabric_Get_Network_Data(i, len)   == Record("HLFABRIC", i, len)
BoATHwbcs_Get_Network_Data(i, len)      == Record("HWBCS", i, len)
BoATChainmaker_Get_Network_Data(i, len) == Record("CHAINMAKER", i, len)
BoATCita_Get_Network_Data(i, len)       == Record("CITA", i, len)

NetworkData(p, i, len) ==
  CASE p = "ETHEREUM"   -> BoATEth_Get_Network_Data(i, len)
    [] p = "PLATON"     -> BoATPlatON_Get_Network_Data(i, len)
    [] p = "PLATONE"    -> BoATPlatone_Get_Network_Data(i, len)
    [] p = "QUORUM"     -> BoATQuorum_Get_Network_Data(i, len)
    [] p = "VENACHAIN"  -> BoATVenachain_Get_Network_Data(i, len)
    [] p = "FISCOBCOS"  -> BoATFiscobcos_Get_Network_Data(i, len)
    [] p = "HLFABRIC"   -> BoATHlfabric_Get_Network_Data(i, len)
    [] p = "HWBCS"      -> BoATHwbcs_Get_Network_Data(i, len)
    [] p = "CHAINMAKER" -> BoATChainmaker_Get_Network_Data(i, len)
    [] p = "CITA"       -> BoATCita_Get_Network_Data(i, len)

StartCreate(p, i, len) ==
  /\ ctx' = [NoCtx EXCEPT !.api = "create", !.index = i, !.rec = NetworkData(p, i, len)]
  /\ Goto("nwProtocol")
  /\ UNCHANGED nw

\* Mutant: the next index is taken to be the number of networks plus one.
MutantFreeNetworkIndex(p, len) ==
  /\ UNCHANGED faults
  /\ IF Count(nw["FLASH"]) >= BOAT_MAX_NETWORK_NUM
     THEN Refuse("create", NoIndex)
     ELSE StartCreate(p, Count(nw["FLASH"]) + 1, len)

\* Mutant: one index too many is handed out.
MutantFreeTooMany(p, len) ==
  LET t == nw["FLASH"] IN
  /\ UNCHANGED faults
  /\ IF Count(t) > BOAT_MAX_NETWORK_NUM
     THEN Refuse("create", NoIndex)
     ELSE StartCreate(p, LeastFree(Used(t, Count(t)), BOAT_MAX_NETWORK_NUM + 1), len)

\* The indices all protocols use; a header that cannot be read is no network,
\* a record that cannot be read ends the search.
GetFreeNetworkIndex_From_Persistent(p, len) ==
  LET t == nw["FLASH"] IN
  \/ /\ UNCHANGED faults
     /\ IF Count(t) >= BOAT_MAX_NETWORK_NUM
        THEN Refuse("create", NoIndex)
        ELSE StartCreate(p, LeastFree(Used(t, Count(t)), BOAT_MAX_NETWORK_NUM), len)
  \/ Fault("read") /\ StartCreate(p, 1, len)
  \/ Count(t) > 0 /\ Fault("read") /\ Refuse("create", NoIndex)

NetworkCreate(p, len, storeType) ==
  /\ pc = "idle"
  /\ p \in built
  /\ \/ storeType = "RAM" /\ UNCHANGED faults /\ StartCreate(p, 0, len)
     \/ storeType = "FLASH" /\ GetFreeNetworkIndex_From_Persistent(p, len)

StoreFails == UNCHANGED nw /\ Return(FALSE)

\* NetworkDataCtx_Store: the record is written in three pieces.  The first
\* two change only the fields of a record that lies there already.
PatchRec(t, q, r) == IF t.slot[q] = NoRec THEN t ELSE [t EXCEPT !.slot = [t.slot EXCEPT ![q] = r]]

Store_Protocol ==
  LET m == Mem(ctx.index)
      t == nw[m]
  IN
  /\ pc = "nwProtocol"
  /\ \/ \E n \in {0, Count(t)} :
          LET base == IF m = "RAM" THEN 0 ELSE n
              r == [t.slot[base + 1] EXCEPT !.protocol = ctx.rec.protocol]
          IN  /\ \/ n = Count(t) /\ UNCHANGED faults
                 \/ n = 0 /\ FlashFault(m, "read")
              /\ IF n < BOAT_MAX_NETWORK_NUM
                 THEN /\ nw' = [nw EXCEPT ![m] = PatchRec(t, base + 1, r)]
                      /\ ctx' = [ctx EXCEPT !.num = base]
                      /\ Goto("nwIndex")
                 ELSE StoreFails
     \/ Fault("internal") /\ StoreFails
     \/ FlashFault(m, "write") /\ StoreFails
     \/ Count(t) > 0 /\ FlashFault(m, "read") /\ StoreFails

Store_Index ==
  LET m == Mem(ctx.index)
      q == ctx.num + 1
      r == [nw[m].slot[q] EXCEPT !.index = ctx.index]
  IN
  /\ pc = "nwIndex"
  /\ \/ /\ nw' = [nw EXCEPT ![m] = PatchRec(nw[m], q, r)]
        /\ Goto("nwData")
        /\ UNCHANGED <<ctx, faults>>
     \/ FlashFault(m, "write") /\ StoreFails

Store_Data ==
  LET m == Mem(ctx.index) IN
  /\ pc = "nwData"
  /\ \/ /\ nw' = [nw EXCEPT ![m] = WriteRec(nw[m], ctx.num + 1, ctx.rec)]
        /\ Goto("nwNum")
        /\ UNCHANGED <<ctx, faults>>
     \/ FlashFault(m, "write") /\ StoreFails
     \/ m = "RAM" /\ Fault("overflow") /\ StoreFails

Store_Num ==
  LET m == Mem(ctx.index) IN
  /\ pc = "nwNum"
  /\ \/ /\ nw' = [nw EXCEPT ![m] = WriteNum(nw[m], ctx.num + 1)]
        /\ UNCHANGED faults
        /\ Return(TRUE)
     \/ FlashFault(m, "write") /\ StoreFails

----------------------------------------------------------------------------
(* Deleting a network.                                                     *)

NetworkDelete(p, i) ==
  /\ pc = "idle"
  /\ p \in built
  /\ UNCHANGED faults
  /\ IF i > BOAT_MAX_NETWORK_NUM
     THEN Refuse("delete", i)
     ELSE /\ ctx' = [NoCtx EXCEPT !.api = "delete", !.index = i,
                       !.rec = [protocol |-> p, index |-> i, fields |-> p, len |-> 0]]
          /\ Goto("nwDel")
          /\ UNCHANGED nw

\* The one-time network, of whatever protocol it is.
Delete_Onetime ==
  /\ pc = "nwDel" /\ ctx.index = 0
  /\ UNCHANGED faults
  /\ IF Count(nw["RAM"]) = 0
     THEN StoreFails
     ELSE nw' = [nw EXCEPT !["RAM"] = WriteNum(nw["RAM"], BadNum)] /\ Return(TRUE)

Delete_Num ==
  LET t == nw["FLASH"]
      S == FoundNetwork(t, Count(t), ctx.rec.protocol, ctx.index)
  IN
  /\ pc = "nwDel" /\ ctx.index # 0
  /\ \/ /\ S # {}
        /\ nw' = [nw EXCEPT !["FLASH"] = WriteNum(t, Count(t) - 1)]
        /\ ctx' = [ctx EXCEPT !.num = Count(t), !.pos = FirstOf(S)]
        /\ Goto("nwTail")
        /\ UNCHANGED faults
     \/ S = {} /\ UNCHANGED faults /\ StoreFails
     \/ Fault("read") /\ StoreFails
     \/ S # {} /\ Fault("write") /\ StoreFails

\* When the records behind cannot be read or copied the call gives up, and
\* leaves the number of networks as it is by now.
Delete_Tail ==
  /\ pc = "nwTail"
  /\ \/ /\ nw' = [nw EXCEPT !["FLASH"] = DropRec(nw["FLASH"], ctx.pos, ctx.num)]
        /\ UNCHANGED faults
        /\ Return(TRUE)
     \/ /\ Fault("write")
        /\ Goto(IF ctx.pos = ctx.num THEN "nwLast" ELSE "nwRecover")
        /\ UNCHANGED <<nw, ctx>>
     \/ /\ ctx.pos < ctx.num
        /\ Fault("read") \/ Fault("internal")
        /\ StoreFails

\* Mutant: the failure of the first write is reported.
MutantRecoverLast ==
  /\ pc = "nwLast"
  /\ UNCHANGED faults
  /\ nw' = [nw EXCEPT !["FLASH"] = DropRec(nw["FLASH"], ctx.num, ctx.num)]
  /\ Return(FALSE)

\* The last record could not be blanked: the header that should bring the
\* number back is written over the record, and its outcome is returned.
Delete_RecoverLast ==
  /\ pc = "nwLast"
  /\ \/ /\ nw' = [nw EXCEPT !["FLASH"] = DropRec(nw["FLASH"], ctx.num, ctx.num)]
        /\ UNCHANGED faults
        /\ Return(TRUE)
     \/ Fault("write") /\ StoreFails

\* Mutant: the number of networks is not put back.
MutantNoRecover == pc = "nwRecover" /\ UNCHANGED faults /\ StoreFails

Delete_Recover ==
  /\ pc = "nwRecover"
  /\ \/ nw' = [nw EXCEPT !["FLASH"] = WriteNum(nw["FLASH"], ctx.num)] /\ UNCHANGED faults
     \/ UNCHANGED nw /\ Fault("write")
  /\ Return(FALSE)

----------------------------------------------------------------------------
(* Power.                                                                  *)

Reboot(op, i) ==
  /\ UNCHANGED built
  /\ nw'  = [nw EXCEPT !["RAM"] = BlankTable(BOAT_MAX_NETWORK_NUM)]
  /\ pc'  = "idle"
  /\ ctx' = NoCtx
  /\ ret' = [op |-> op, index |-> i, ok |-> TRUE]
  /\ pre' = Views(nw')

PowerCycle == pc = "idle" /\ UNCHANGED faults /\ Reboot("boot", NoIndex)

Crash == pc # "idle" /\ Fault("crash") /\ Reboot("crash", ctx.index)

Init ==
  /\ built \in Builds
  /\ nw  = [m \in BoatStoreType |-> BlankTable(BOAT_MAX_NETWORK_NUM)]
  /\ pc  = "idle"
  /\ ctx = NoCtx
  /\ ret = NoRet
  /\ faults = [left |-> MaxFaults, seen |-> {}]
  /\ pre = [i \in Persistent |-> [p \in built |-> NoRec]]

----------------------------------------------------------------------------
(* The entry points of each protocol's file.                               *)

\* The steps of the call that runs for protocol p.
Store(p)  == pc # "idle" /\ ctx.rec.protocol = p /\ (Store_Protocol \/ Store_Index \/ Store_Data \/ Store_Num)
Delete(p) == pc # "idle" /\ ctx.rec.protocol = p /\ (Delete_Onetime \/ Delete_Num)
Remove(p) == pc # "idle" /\ ctx.rec.protocol = p /\ (Delete_Tail \/ Delete_RecoverLast \/ Delete_Recover)

BoATEthNetworkCreate(len, m)                 == NetworkCreate("ETHEREUM", len, m)
BoATEth_NetworkDataCtx_Store                 == Store("ETHEREUM")
BoATEthNetworkDelete(i)                      == NetworkDelete("ETHEREUM", i)
BoATEthNetworkDelete_Count                   == Delete("ETHEREUM")
BoATEthNetworkDelete_Records                 == Remove("ETHEREUM")

BoATPlatONNetworkCreate(len, m)              == NetworkCreate("PLATON", len, m)
BoATPlatON_NetworkDataCtx_Store              == Store("PLATON")
BoATPlatONNetworkDelete(i)                   == NetworkDelete("PLATON", i)
BoATPlatONNetworkDelete_Count                == Delete("PLATON")
BoATPlatONNetworkDelete_Records              == Remove("PLATON")

BoATPlatoneNetworkCreate(len, m)             == NetworkCreate("PLATONE", len, m)
BoATPlatone_NetworkDataCtx_Store             == Store("PLATONE")
BoATPlatoneNetworkDelete(i)                  == NetworkDelete("PLATONE", i)
BoATPlatoneNetworkDelete_Count               == Delete("PLATONE")
BoATPlatoneNetworkDelete_Records             == Remove("PLATONE")

BoatQuorumNetworkCreate(len, m)              == NetworkCreate("QUORUM", len, m)
BoATQuorum_NetworkDataCtx_Store              == Store("QUORUM")
BoATQuorumNetworkDelete(i)                   == NetworkDelete("QUORUM", i)
BoATQuorumNetworkDelete_Count                == Delete("QUORUM")
BoATQuorumNetworkDelete_Records              == Remove("QUORUM")

BoatVenachainNetworkCreate(len, m)           == NetworkCreate("VENACHAIN", len, m)
BoATVenachain_NetworkDataCtx_Store           == Store("VENACHAIN")
BoATVenachainNetworkDelete(i)                == NetworkDelete("VENACHAIN", i)
BoATVenachainNetworkDelete_Count             == Delete("VENACHAIN")
BoATVenachainNetworkDelete_Records           == Remove("VENACHAIN")

BoATFiscobcosNetworkCreate(len, m)           == NetworkCreate("FISCOBCOS", len, m)
BoATFiscobcos_NetworkDataCtx_Store           == Store("FISCOBCOS")
BoATFiscobcosNetworkDelete(i)                == NetworkDelete("FISCOBCOS", i)
BoATFiscobcosNetworkDelete_Count             == Delete("FISCOBCOS")
BoATFiscobcosNetworkDelete_Records           == Remove("FISCOBCOS")

BoatHlfabricNetworkCreate(len, m)            == NetworkCreate("HLFABRIC", len, m)
BoATHlfabric_NetworkDataCtx_Store            == Store("HLFABRIC")
BoATHlfabricNetworkDelete(i)                 == NetworkDelete("HLFABRIC", i)
BoATHlfabricNetworkDelete_Count              == Delete("HLFABRIC")
BoATHlfabricNetworkDelete_Records            == Remove("HLFABRIC")

BoATHwbcsNetworkCreate(len, m)               == NetworkCreate("HWBCS", len, m)
BoATHwbcs_NetworkDataCtx_Store               == Store("HWBCS")
BoATHwbcsNetworkDelete(i)                    == NetworkDelete("HWBCS", i)
BoATHwbcsNetworkDelete_Count                 == Delete("HWBCS")
BoATHwbcsNetworkDelete_Records               == Remove("HWBCS")

BoATChainmakerNetworkCreate(len, m)          == NetworkCreate("CHAINMAKER", len, m)
BoATChainmaker_NetworkDataCtx_Store          == Store("CHAINMAKER")
BoATChainmakerNetworkDelete(i)               == NetworkDelete("CHAINMAKER", i)
BoATChainmakerNetworkDelete_Count            == Delete("CHAINMAKER")
BoATChainmakerNetworkDelete_Records          == Remove("CHAINMAKER")

BoATCitaNetworkCreate(len, m)                == NetworkCreate("CITA", len, m)
BoATCita_NetworkDataCtx_Store                == Store("CITA")
BoATCitaNetworkDelete(i)                     == NetworkDelete("CITA", i)
BoATCitaNetworkDelete_Count                  == Delete("CITA")
BoATCitaNetworkDelete_Records                == Remove("CITA")

Creates(len, m) ==
  \/ BoATEthNetworkCreate(len, m)              \/ BoATPlatONNetworkCreate(len, m)
  \/ BoATPlatoneNetworkCreate(len, m)          \/ BoatQuorumNetworkCreate(len, m)
  \/ BoatVenachainNetworkCreate(len, m)        \/ BoATFiscobcosNetworkCreate(len, m)
  \/ BoatHlfabricNetworkCreate(len, m)         \/ BoATHwbcsNetworkCreate(len, m)
  \/ BoATChainmakerNetworkCreate(len, m)       \/ BoATCitaNetworkCreate(len, m)

Deletes(i) ==
  \/ BoATEthNetworkDelete(i)                   \/ BoATPlatONNetworkDelete(i)
  \/ BoATPlatoneNetworkDelete(i)               \/ BoATQuorumNetworkDelete(i)
  \/ BoATVenachainNetworkDelete(i)             \/ BoATFiscobcosNetworkDelete(i)
  \/ BoATHlfabricNetworkDelete(i)              \/ BoATHwbcsNetworkDelete(i)
  \/ BoATChainmakerNetworkDelete(i)            \/ BoATCitaNetworkDelete(i)

Stores ==
  \/ BoATEth_NetworkDataCtx_Store              \/ BoATPlatON_NetworkDataCtx_Store
  \/ BoATPlatone_NetworkDataCtx_Store          \/ BoATQuorum_NetworkDataCtx_Store
  \/ BoATVenachain_NetworkDataCtx_Store        \/ BoATFiscobcos_NetworkDataCtx_Store
  \/ BoATHlfabric_NetworkDataCtx_Store         \/ BoATHwbcs_NetworkDataCtx_Store
  \/ BoATChainmaker_NetworkDataCtx_Store       \/ BoATCita_NetworkDataCtx_Store

Removes ==
  \/ BoATEthNetworkDelete_Count                \/ BoATPlatONNetworkDelete_Count
  \/ BoATPlatoneNetworkDelete_Count            \/ BoATQuorumNetworkDelete_Count
  \/ BoATVenachainNetworkDelete_Count          \/ BoATFiscobcosNetworkDelete_Count
  \/ BoATHlfabricNetworkDelete_Count           \/ BoATHwbcsNetworkDelete_Count
  \/ BoATChainmakerNetworkDelete_Count         \/ BoATCitaNetworkDelete_Count
  \/ BoATEthNetworkDelete_Records              \/ BoATPlatONNetworkDelete_Records
  \/ BoATPlatoneNetworkDelete_Records          \/ BoATQuorumNetworkDelete_Records
  \/ BoATVenachainNetworkDelete_Records        \/ BoATFiscobcosNetworkDelete_Records
  \/ BoATHlfabricNetworkDelete_Records         \/ BoATHwbcsNetworkDelete_Records
  \/ BoATChainmakerNetworkDelete_Records       \/ BoATCitaNetworkDelete_Records

Next ==
  \/ \E len \in DataLens, m \in BoatStoreType : Creates(len, m)
  \/ \E i \in 0..(BOAT_MAX_NETWORK_NUM + 1) : Deletes(i)
  \/ Stores \/ Removes
  \/ PowerCycle \/ Crash

Spec == Init /\ [][Next]_vars

----------------------------------------------------------------------------
(* Properties.                                                             *)

TypeOK ==
  /\ built \in Builds
  /\ nw \in [BoatStoreType -> TableOf(BOAT_MAX_NETWORK_NUM, NetworkRec)]
  /\ pc \in {"idle", "nwProtocol", "nwIndex", "nwData", "nwNum", "nwDel", "nwTail",
             "nwLast", "nwRecover"}
  /\ ctx \in [api : {"none", "create", "delete"}, index : NetworkIndex \cup {NoIndex},
              rec : NetworkRec \cup {NoRec}, num : NetworkIndex, pos : NetworkIndex]
  /\ ret \in [op : {"none", "create", "delete", "boot", "crash"},
              index : NoIndex..(BOAT_MAX_NETWORK_NUM + 1), ok : BOOLEAN]
  /\ faults \in [left : 0..MaxFaults, seen : SUBSET FaultKinds]

\* The number of networks is never larger than the records that are there, no
\* two records carry the same index, whatever their protocols, and outside a
\* call the data of each record was written by the protocol the record names.
\* A header that cannot be read, or one-time data that does not fit, voids it.
TablesSound ==
  faults.seen \subseteq {"write", "internal", "crash"} =>
    \A m \in BoatStoreType :
      /\ \A q \in 1..Count(nw[m]) : nw[m].slot[q] # NoRec
      /\ \A q, r \in 1..Count(nw[m]) : nw[m].slot[q].index = nw[m].slot[r].index => q = r
      /\ pc = "idle" => \A q \in 1..Count(nw[m]) : nw[m].slot[q].fields = nw[m].slot[q].protocol

\* Every network a protocol reads by its index is in the list the protocol
\* gets, once, and nothing else is (GetNetworkList, GetNetworkByIndex), after
\* any creates and deletes of the protocols that share the table.  The lists of
\* ChainMaker and CITA have no place for a one-time network: when all persistent
\* networks are theirs it is written behind the array, and in no other case,
\* and never by another protocol.
ListShowsEveryNetwork ==
  pc = "idle" /\ faults.seen \subseteq {"write", "internal", "crash"} =>
    \A p \in built :
      LET list   == GetNetworkList(nw, p).networks
          behind == GetNetworkList(nw, p).behind
          mine   == {GetNetworkByIndex(nw, p, i) : i \in NetworkIndex} \ {NoRec}
      IN  /\ Len(list) + Len(behind) = Cardinality(mine)
          /\ {list[j] : j \in DOMAIN list} \cup {behind[j] : j \in DOMAIN behind} = mine
          /\ behind # <<>> => /\ p \in {"CHAINMAKER", "CITA"}
                              /\ behind = <<GetNetworkByIndex(nw, p, 0)>>
                              /\ \A i \in Persistent : GetNetworkByIndex(nw, p, i) # NoRec

\* The number in the list of a protocol is the number of networks in it.
ListCountsItsNetworks ==
  pc = "idle" => \A p \in built :
    GetNetworkList(nw, p).num = Len(GetNetworkList(nw, p).networks)

Only(kinds) == faults.seen \subseteq kinds /\ faults.left + 1 >= MaxFaults

CallEnds(op, ok) == pc # "idle" /\ pc' = "idle" /\ ret'.op = op /\ ret'.ok = ok

\* A call on one index leaves what every protocol reads at the other
\* persistent indices as it was, even when one write in it fails.
OthersUntouched ==
  [][pc # "idle" /\ pc' = "idle" /\ Only({"write"})' =>
       \A j \in Persistent \ {ctx.index} : Views(nw')[j] = pre[j]]_vars

\* A network that was created is read by its own protocol and by no other, at
\* an index at which no protocol read anything before.
CreateOkReadable ==
  [][CallEnds("create", TRUE) /\ faults'.seen \subseteq {"write", "internal", "crash"} =>
       \A p \in built :
         /\ GetNetworkByIndex(nw', p, ctx.index) =
              IF p = ctx.rec.protocol THEN ctx.rec ELSE NoRec
         /\ ctx.index \in Persistent => pre[ctx.index][p] = NoRec]_vars

\* A delete that returns success has removed the network of its protocol and
\* index, one that reports a failure has kept it, when one write fails.
DeleteTellsTruth ==
  [][pc # "idle" /\ pc' = "idle" /\ ret'.op = "delete" /\ ctx.index \in Persistent
       /\ Only({"write"})' =>
       GetNetworkByIndex(nw', ctx.rec.protocol, ctx.index) =
         IF ret'.ok THEN NoRec ELSE pre[ctx.index][ctx.rec.protocol]]_vars
=============================================================================
