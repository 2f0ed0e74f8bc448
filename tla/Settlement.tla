----------------------------- MODULE Settlement -----------------------------
(***************************************************************************)
(* The settlement of a finished agreement: how the approved shared claims  *)
(* are split over the tenants, to the wei (_computeSettlement of           *)
(* SharedDepositEscrow.sol).  Pure: amounts in, amounts out.               *)
(*                                                                         *)
(* `remaining' is the sequence of what each tenant has left after its own  *)
(* individual deductions, in the stored tenant order; `sharedTotal' is the *)
(* sum of the approved shared claims.  The loops of the code are           *)
(* recursive functions here, never RECURSIVE operators, so that theorems   *)
(* can be proved about the modules that use them.                          *)
(***************************************************************************)
EXTENDS Integers, Sequences, FiniteSets, Functions

(* Steps A and B: what the tenants together can still pay.                 *)
TotalRemaining(remaining) == SumFunction(remaining)

(* Step C: the floor of every tenant's proportional share.                 *)
BaseAllocation(remaining, sharedTotal) ==
  [i \in DOMAIN remaining |->
     (sharedTotal * remaining[i]) \div TotalRemaining(remaining)]

(* Step D: the numerator of the fraction of a wei that the floor dropped.  *)
Fraction(remaining, sharedTotal) ==
  [i \in DOMAIN remaining |->
     (sharedTotal * remaining[i]) % TotalRemaining(remaining)]

(* Step E: the whole wei that all the floors together left over.           *)
Unallocated(remaining, sharedTotal) ==
  sharedTotal - SumFunction(BaseAllocation(remaining, sharedTotal))

(* Mutant of Eligible: stops one wei short of the cap.                     *)
EligibleOffByOne(alloc, remaining) ==
  {i \in DOMAIN remaining : alloc[i] + 1 < remaining[i]}

(* The tenants that can still take a wei: the others are capped.           *)
Eligible(alloc, remaining) == {i \in DOMAIN remaining : alloc[i] < remaining[i]}

(* Mutant of PreferredOver: `>=' where the code has a strict `>', so ties  *)
(* go to the highest index.                                                *)
PreferredOverLastTie(frac, i, j) ==
  frac[i] > frac[j] \/ (frac[i] = frac[j] /\ i >= j)

(* The order of the scan for the next wei: the highest fraction, and the   *)
(* lowest index among equals.                                              *)
PreferredOver(frac, i, j) ==
  frac[i] > frac[j] \/ (frac[i] = frac[j] /\ i <= j)

Best(alloc, frac, remaining) ==
  CHOOSE i \in Eligible(alloc, remaining) :
    \A j \in Eligible(alloc, remaining) : PreferredOver(frac, i, j)

(* One round of the distribution loop: one wei to the best tenant, whose   *)
(* fraction is cleared.                                                    *)
Grant(round, remaining) ==
  LET best == Best(round.alloc, round.frac, remaining)
  IN  [alloc |-> [round.alloc EXCEPT ![best] = @ + 1],
       frac  |-> [round.frac EXCEPT ![best] = 0]]

(* Step F: the state of the loop after each of its rounds.                 *)
Distribution(remaining, sharedTotal) ==
  LET after[w \in 0 .. Unallocated(remaining, sharedTotal)] ==
        IF w = 0
        THEN [alloc |-> BaseAllocation(remaining, sharedTotal),
              frac  |-> Fraction(remaining, sharedTotal)]
        ELSE Grant(after[w - 1], remaining)
  IN  after

(* The final allocation of the shared claims; with no shared claim the     *)
(* code skips the whole block.                                             *)
Allocation(remaining, sharedTotal) ==
  IF sharedTotal > 0
  THEN Distribution(remaining, sharedTotal)[Unallocated(remaining, sharedTotal)].alloc
  ELSE [i \in DOMAIN remaining |-> 0]

(* The two defensive checks do not revert: the shared claims fit into what *)
(* remains, and every round of the loop finds an eligible tenant.          *)
Settles(remaining, sharedTotal) ==
  /\ sharedTotal <= TotalRemaining(remaining)
  /\ sharedTotal > 0 =>
       \A w \in 1 .. Unallocated(remaining, sharedTotal) :
         Eligible(Distribution(remaining, sharedTotal)[w - 1].alloc, remaining) # {}

(* Step G.                                                                 *)
Refunds(remaining, sharedTotal) ==
  [i \in DOMAIN remaining |->
     remaining[i] - Allocation(remaining, sharedTotal)[i]]
=============================================================================
