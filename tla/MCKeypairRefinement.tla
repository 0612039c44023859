------------------------ MODULE MCKeypairRefinement ------------------------
(* The keypair store against its abstract specification.  The keys are      *)
(* only stored and compared, so they may be permuted.                       *)
EXTENDS KeypairRefinement, TLC

CONSTANTS k1, k2

KeySymmetry == Permutations({k1, k2})
=============================================================================
