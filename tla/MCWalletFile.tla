---------------------------- MODULE MCWalletFile ----------------------------
(* Constants for model-checking WalletFile. *)
EXTENDS WalletFile

MCNames == {"a", "b"}
MCCases == {"history", "noSpace"}
=============================================================================
