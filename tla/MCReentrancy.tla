---------------------------- MODULE MCReentrancy ----------------------------
(***************************************************************************)
(* An instance of EscrowReentrancy for TLC: three tenants with unequal     *)
(* stakes, so that shared claims split unevenly and a majority is not      *)
(* everybody; one of them and the recipient are contracts that call back   *)
(* while they are being paid.                                              *)
(***************************************************************************)
EXTENDS EscrowReentrancy

CONSTANTS t1, t2, t3, rec, h1

ThreeTenants ==
  {[creator |-> t1, recipient |-> rec, termsHash |-> h1,
    leaseStart |-> 0, leaseEnd |-> 1, fundingDeadline |-> 1,
    claimDeadline |-> 2, settlementDeadline |-> 3,
    tenantAddresses |-> <<t1, t2, t3>>, requiredAmounts |-> <<1, 1, 2>>]}
=============================================================================
