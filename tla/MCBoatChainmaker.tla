-------------------------- MODULE MCBoatChainmaker --------------------------
(* The HTTP/2 wallets for TLC: two groups that need one and two endorsers;  *)
(* two layouts, of which the second is never tried, and would not fit; a      *)
(* group that needs none, alone and behind one that needs an endorser; as     *)
(* many endorsements as the array has places, with no room for the orderer's  *)
(* answer.                                                                    *)
EXTENDS BoatChainmaker

G(n, q) == [n |-> n, q |-> q]

MCNodeCfgs == {[layouts |-> << <<G(2, 1), G(2, 2)>> >>, orderers |-> 2],
               [layouts |-> << <<G(2, 2)>>, <<G(2, 2)>> >>, orderers |-> 1],
               [layouts |-> << <<G(1, 0)>> >>, orderers |-> 3],
               [layouts |-> << <<G(1, 1), G(2, 0)>>, <<G(1, 1)>> >>, orderers |-> 2],
               [layouts |-> << <<G(2, 2), G(2, 2)>> >>, orderers |-> 1]}
=============================================================================
