---------------------------- MODULE MCSettlement ----------------------------
(***************************************************************************)
(* Settlement evaluated on every input of a bounded box, against a         *)
(* reference definition: the largest-remainder rule stated without a loop. *)
(***************************************************************************)
EXTENDS Settlement

CONSTANTS MaxTenants,    (* bound: sequences of 2 .. MaxTenants tenants    *)
          MaxRemaining   (* bound: what one tenant has left, in wei        *)

ASSUME BoundsAssumption == MaxTenants \in Nat /\ MaxRemaining \in Nat

VARIABLES
  remainings,   (* what each tenant has left                               *)
  claimed,      (* the approved shared claims                              *)
  paidBack      (* what each tenant gets, once it is computed              *)

settlementVars == <<remainings, claimed, paidBack>>

Inputs == UNION {[1 .. n -> 0 .. MaxRemaining] : n \in 2 .. MaxTenants}

SettlementInit ==
  /\ remainings \in Inputs
  /\ claimed \in 0 .. TotalRemaining(remainings)
  /\ paidBack = <<>>

Compute ==
  /\ paidBack = <<>>
  /\ paidBack' = Refunds(remainings, claimed)
  /\ UNCHANGED <<remainings, claimed>>

SettlementSpec == SettlementInit /\ [][Compute]_settlementVars

-----------------------------------------------------------------------------
(* The reference: a tenant is ahead of another in the queue for the left-  *)
(* over wei by its fraction, then by its place in the list, and the first  *)
(* Unallocated tenants of that queue get one wei each, and nobody two.     *)
Ahead(i) ==
  LET frac == Fraction(remainings, claimed)
  IN  {j \in DOMAIN remainings :
         frac[j] > frac[i] \/ (frac[j] = frac[i] /\ j < i)}

ReferenceAllocation ==
  LET base == BaseAllocation(remainings, claimed)
      left == claimed - SumFunction(base)
  IN  [i \in DOMAIN remainings |->
         base[i] + (IF Cardinality(Ahead(i)) < left THEN 1 ELSE 0)]

(* The loop with its two mutable arrays computes the largest-remainder     *)
(* rule: ties to the lowest index, no tenant granted twice.                *)
FollowsLargestRemainder ==
  paidBack # <<>> /\ claimed > 0 =>
    \A i \in DOMAIN remainings :
      remainings[i] - paidBack[i] = ReferenceAllocation[i]

(* The two defensive reverts of _computeSettlement are unreachable when    *)
(* the shared claims fit into what remains (the capacity argument of       *)
(* step F, which the code's comments state and do not test).               *)
NeverRevertsDefensively == Settles(remainings, claimed)

=============================================================================
