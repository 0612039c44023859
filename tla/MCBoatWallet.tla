---------------------------- MODULE MCBoatWallet ----------------------------
\* The JSON-RPC wallets for TLC.
EXTENDS BoatWalletApi
=============================================================================
