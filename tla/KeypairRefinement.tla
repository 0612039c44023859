------------------------- MODULE KeypairRefinement -------------------------
(***************************************************************************)
(* The keypair store implements IndexDirectory: a create takes effect      *)
(* with the header of the private-key table, a delete with its last write. *)
(* Until then the mapping shows the tables as they were, which is what a   *)
(* failed delete goes back to.                                             *)
(***************************************************************************)
EXTENDS BoatKeypair

\* The number of records before the running delete lowered it.
Num(t, i, labels) == IF i # 0 /\ pc \in labels THEN ctx.num ELSE Count(t)

\* The keypair a delete has removed and may still have to put back.
Removed(i) == i = ctx.index /\ (ctx.restore \/ pc \in {"pkDel", "pkTail", "pkRecover"})

Entry(i) ==
  LET kt  == kp[Mem(i)]
      pt  == pk[Mem(i)]
      pub == IF Removed(i) THEN ctx.rec.key
             ELSE KeyAt(kt, Num(kt, i, {"kpTail", "kpRecover"}), i)
      pri == KeyAt(pt, Num(pt, i, {"pkTail", "pkRecover"}), i)
  IN  IF pub = pri THEN pub ELSE NoKey

Directory == INSTANCE IndexDirectory
  WITH MaxIndex <- BOAT_MAX_KEYPAIR_NUM, Values <- Keys, None <- NoKey, Idle <- NoIndex,
       dir <- [i \in KeypairIndex |-> Entry(i)],
       call <- IF pc = "idle" THEN NoIndex ELSE ctx.index

\* Every step of the store is a step of the directory or changes nothing in
\* it: no call shows a half-made keypair, and a call that one failed write or
\* allocation makes fail has changed nothing.
ImplementsDirectory == Directory!Spec
=============================================================================
