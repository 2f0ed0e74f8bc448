---------------------------- MODULE MCContractTx ----------------------------
(***************************************************************************)
(* An instance of ContractTx for TLC: the wallet that is signed in, and    *)
(* another one that may be connected.                                      *)
(***************************************************************************)
EXTENDS ContractTx

CONSTANTS me, other
=============================================================================
