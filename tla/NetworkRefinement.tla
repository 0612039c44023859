------------------------- MODULE NetworkRefinement -------------------------
(***************************************************************************)
(* The network store implements IndexDirectory, with the record an index   *)
(* holds as its value.  A create takes effect with the header that counts  *)
(* the record in, a delete with the write that removes it.                 *)
(***************************************************************************)
EXTENDS BoatNetwork

\* The flash table before the running delete lowered its number.
Whole == IF pc \in {"nwTail", "nwRecover"}
         THEN [nw EXCEPT !["FLASH"] = WriteNum(nw["FLASH"], ctx.num)] ELSE nw

\* The one-time record is written over the one it replaces.
Replacing(i) == i = 0 /\ ctx.index = 0 /\ pc \in {"nwIndex", "nwData", "nwNum"}

Entry(i) ==
  LET t == Whole[Mem(i)]
      S == Found(t, Count(t), i)
  IN  IF Replacing(i) \/ S = {} THEN NoRec
      ELSE GetNetworkByIndex(Whole, t.slot[FirstOf(S)].protocol, i)

\* The records that calls store.
StoredRec == {NetworkData(p, i, l) : p \in UNION Builds, i \in NetworkIndex, l \in DataLens}

Directory == INSTANCE IndexDirectory
  WITH MaxIndex <- BOAT_MAX_NETWORK_NUM, Values <- StoredRec, None <- NoRec, Idle <- NoIndex,
       dir <- [i \in NetworkIndex |-> Entry(i)],
       call <- IF pc = "idle" THEN NoIndex ELSE ctx.index

\* Whatever protocols share the table, every step of the store is a step of
\* one directory or changes nothing in it, also when one write fails.
ImplementsDirectory == Directory!Spec
=============================================================================
