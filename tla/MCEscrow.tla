------------------------------ MODULE MCEscrow ------------------------------
(***************************************************************************)
(* An instance of SharedDepositEscrow for TLC.                             *)
(***************************************************************************)
EXTENDS SharedDepositEscrow

CONSTANTS t1, t2, rec, h1

(* A call of createAgreement on the shortest timeline that keeps every     *)
(* window apart: funding closes at 1, claims at 2, voting at 3.            *)
Proposed(creator, recipient, list, amounts) ==
  [creator |-> creator, recipient |-> recipient, termsHash |-> h1,
   leaseStart |-> 0, leaseEnd |-> 1, fundingDeadline |-> 1,
   claimDeadline |-> 2, settlementDeadline |-> 3,
   tenantAddresses |-> list, requiredAmounts |-> amounts]

(* Calls of createAgreement around every one of its checks: lists that are *)
(* too short, name somebody twice, name address(0) or the recipient or not *)
(* the caller, amounts that are zero, too many, or too much in total.      *)
Rosters ==
  {<< <<t1, t2>>, <<1, 1>> >>, << <<t1, t2>>, <<2, 2>> >>, << <<t2, t1>>, <<1, 2>> >>,
   << <<t1, t1>>, <<1, 1>> >>, << <<t1, NoWallet>>, <<1, 1>> >>, << <<t1>>, <<1>> >>,
   << <<t1, t2>>, <<1, 0>> >>, << <<t1, t2>>, <<1>> >>, << <<t1, rec>>, <<1, 1>> >>,
   << <<t2, rec>>, <<1, 2>> >>, << <<t1, t2, rec>>, <<1, 1, 1>> >>}

AnyProposal ==
  {[Proposed(t1, recipient, roster[1], roster[2]) EXCEPT
      !.termsHash = hash, !.fundingDeadline = deadlines[1], !.leaseEnd = deadlines[2],
      !.claimDeadline = deadlines[3], !.settlementDeadline = deadlines[4]] :
     recipient \in {rec, t2, NoWallet}, roster \in Rosters, hash \in {h1, NoHash},
     deadlines \in {<<1, 1, 2, 3>>, <<0, 1, 2, 3>>, <<2, 1, 2, 3>>, <<1, 1, 1, 3>>,
                    <<1, 1, 2, 2>>, <<1, 2, 3, 4>>}}
=============================================================================
