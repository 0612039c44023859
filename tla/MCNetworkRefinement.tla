----------------------- MODULE MCNetworkRefinement -----------------------
(* The network store against its abstract specification.                   *)
EXTENDS NetworkRefinement
==========================================================================
