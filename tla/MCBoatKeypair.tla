-------------------------- MODULE MCBoatKeypair --------------------------
(* The keypair store with BOAT_MAX_KEYPAIR_NUM of a few.                  *)
EXTENDS BoatKeypair

CONSTANTS k1, k2
=============================================================================
