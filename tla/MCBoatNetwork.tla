-------------------------- MODULE MCBoatNetwork --------------------------
(* The network store with BOAT_MAX_NETWORK_NUM of two; protocols are       *)
(* strings, which TLC takes from the configuration.                        *)
EXTENDS BoatNetwork
==========================================================================
