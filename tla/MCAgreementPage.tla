-------------------------- MODULE MCAgreementPage --------------------------
(***************************************************************************)
(* An instance of AgreementPage for TLC: two tenants, one with a           *)
(* contribution that it may pay in two parts, and a recipient.             *)
(***************************************************************************)
EXTENDS AgreementPage

CONSTANTS t1, t2, rec, h1

Collecting ==
  {[creator |-> t1, recipient |-> rec, termsHash |-> h1,
    leaseStart |-> 0, leaseEnd |-> 1, fundingDeadline |-> 1,
    claimDeadline |-> 2, settlementDeadline |-> 3,
    tenantAddresses |-> <<t1, t2>>, requiredAmounts |-> <<2, 1>>]}
=============================================================================
