------------------------ MODULE SharedDepositEscrow ------------------------
(***************************************************************************)
(* The escrow contract SharedDepositEscrow.sol: several tenants fund one   *)
(* rental deposit, the recipient claims deductions after the lease, the    *)
(* tenants vote on them, and the deposit is settled and withdrawn.         *)
(*                                                                         *)
(* One action per external function.  A transaction is atomic and one that *)
(* reverts changes nothing, so a revert is the action's guard being false. *)
(* Every amount is an unbounded integer here: where the code's checked     *)
(* uint128 arithmetic could revert or a cast could truncate is the subject *)
(* of AmountsFit, not of the guards.  Events and views change no state.    *)
(***************************************************************************)
EXTENDS Settlement

CONSTANTS
  Wallets,       (* the addresses that may call, other than address(0)     *)
  NoWallet,      (* address(0)                                             *)
  Refusing,      (* wallets whose code makes every incoming transfer fail  *)
  Hashes,        (* the non-zero terms hashes a caller may pass            *)
  NoHash,        (* bytes32(0)                                             *)
  MAX_UINT128,   (* type(uint128).max                                      *)
  MAX_CLAIMS,
  MIN_TENANTS,
  MAX_TENANTS,
  Proposals,     (* the calls of createAgreement that are considered       *)
  MaxAgreements, (* bound on the number of agreements ever created         *)
  MaxTime,       (* bound on block.timestamp                               *)
  MaxForced      (* bound on the wei forced in without a call of deposit   *)

VARIABLES
  nextAgreementId,
  agreements,        (* agreementId -> struct Agreement                    *)
  agreementTenants,  (* agreementId -> address[]                           *)
  tenants,           (* agreementId -> address -> struct Tenant            *)
  claims,            (* agreementId -> claimId -> struct Claim             *)
  votes,             (* agreementId -> claimId -> address -> 0, 1 or 2     *)
  now,               (* block.timestamp                                    *)
  balance,           (* the MON the contract's account holds               *)
  forced             (* how much of it came in by force                    *)

storage == <<nextAgreementId, agreements, agreementTenants, tenants, claims, votes>>
vars == <<nextAgreementId, agreements, agreementTenants, tenants, claims, votes,
          now, balance, forced>>

AgreementIds == 1 .. MaxAgreements
ClaimIds == 1 .. MAX_CLAIMS
Uint128 == 0 .. MAX_UINT128

AgreementStatus == {"NONE", "FUNDING", "ACTIVE", "FINALIZED", "CANCELLED"}
ClaimType == {"SHARED", "INDIVIDUAL"}
ClaimStatus == {"NONE", "PENDING", "APPROVED", "REJECTED", "WITHDRAWN"}

(* What createAgreement fixes for good, in the order of its parameters.    *)
Proposal ==
  [creator : Wallets, recipient : Wallets \cup {NoWallet},
   termsHash : Hashes \cup {NoHash}, leaseStart : Nat, leaseEnd : Nat,
   fundingDeadline : Nat, claimDeadline : Nat, settlementDeadline : Nat,
   tenantAddresses : Seq(Wallets \cup {NoWallet}), requiredAmounts : Seq(Uint128)]

ASSUME ConstantsAssumption ==
  /\ IsFiniteSet(Wallets) /\ NoWallet \notin Wallets /\ Refusing \subseteq Wallets
  /\ NoHash \notin Hashes
  /\ MAX_UINT128 \in Nat /\ MAX_CLAIMS \in Nat
  /\ MIN_TENANTS \in Nat \ {0} /\ MAX_TENANTS \in Nat
  /\ Proposals \subseteq Proposal
  /\ MaxAgreements \in Nat /\ MaxTime \in Nat /\ MaxForced \in Nat

Agreement ==
  [creator : Wallets \cup {NoWallet}, recipient : Wallets \cup {NoWallet},
   termsHash : Hashes \cup {NoHash}, leaseStart : Nat, leaseEnd : Nat,
   fundingDeadline : Nat, claimDeadline : Nat, settlementDeadline : Nat,
   tenantCount : Nat, requiredApprovals : Nat,
   claimCount : 0 .. MAX_CLAIMS, unresolvedClaimCount : Int,
   totalRequired : Int, totalFunded : Int, totalCancelledFundingWithdrawn : Int,
   totalOpenClaimAmount : Int, totalApprovedClaims : Int, sharedApprovedClaims : Int,
   recipientAccepted : BOOLEAN, recipientPayoutWithdrawn : BOOLEAN,
   status : AgreementStatus]

Tenant ==
  [requiredAmount : Int, fundedAmount : Int, openIndividualClaimAmount : Int,
   approvedIndividualClaims : Int, refundAmount : Int,
   cancelledFundingWithdrawnAmount : Int, index : Nat, exists : BOOLEAN,
   accepted : BOOLEAN, cancelledFundingWithdrawn : BOOLEAN, refundWithdrawn : BOOLEAN]

(* The reason and evidence hashes are only ever compared with zero.        *)
Claim ==
  [liableTenant : Wallets \cup {NoWallet}, amount : Int, yesVotes : Nat, noVotes : Nat,
   claimType : ClaimType, status : ClaimStatus]

BlankAgreement ==
  [creator |-> NoWallet, recipient |-> NoWallet, termsHash |-> NoHash,
   leaseStart |-> 0, leaseEnd |-> 0, fundingDeadline |-> 0, claimDeadline |-> 0,
   settlementDeadline |-> 0, tenantCount |-> 0, requiredApprovals |-> 0,
   claimCount |-> 0, unresolvedClaimCount |-> 0,
   totalRequired |-> 0, totalFunded |-> 0, totalCancelledFundingWithdrawn |-> 0,
   totalOpenClaimAmount |-> 0, totalApprovedClaims |-> 0, sharedApprovedClaims |-> 0,
   recipientAccepted |-> FALSE, recipientPayoutWithdrawn |-> FALSE, status |-> "NONE"]

BlankTenant ==
  [requiredAmount |-> 0, fundedAmount |-> 0, openIndividualClaimAmount |-> 0,
   approvedIndividualClaims |-> 0, refundAmount |-> 0,
   cancelledFundingWithdrawnAmount |-> 0, index |-> 0, exists |-> FALSE,
   accepted |-> FALSE, cancelledFundingWithdrawn |-> FALSE, refundWithdrawn |-> FALSE]

BlankClaim ==
  [liableTenant |-> NoWallet, amount |-> 0, yesVotes |-> 0, noVotes |-> 0,
   claimType |-> "SHARED", status |-> "NONE"]

Init ==
  /\ nextAgreementId = 1
  /\ agreements = [a \in AgreementIds |-> BlankAgreement]
  /\ agreementTenants = [a \in AgreementIds |-> <<>>]
  /\ tenants = [a \in AgreementIds |-> [w \in Wallets |-> BlankTenant]]
  /\ claims = [a \in AgreementIds |-> [c \in ClaimIds |-> BlankClaim]]
  /\ votes = [a \in AgreementIds |-> [c \in ClaimIds |-> [w \in Wallets |-> 0]]]
  /\ now = 0
  /\ balance = 0
  /\ forced = 0

-----------------------------------------------------------------------------
(* Agreement creation                                                      *)

TimelineValid(p) ==
  /\ p.fundingDeadline > now
  /\ p.leaseStart <= p.leaseEnd
  /\ p.fundingDeadline <= p.leaseEnd
  /\ p.claimDeadline > p.leaseEnd
  /\ p.settlementDeadline > p.claimDeadline

(* Mutant of RosterValid: a tenant may be listed twice.                    *)
RosterValidWithDuplicates(p) ==
  LET list == p.tenantAddresses
  IN  /\ Len(list) = Len(p.requiredAmounts)
      /\ Len(list) \in MIN_TENANTS .. MAX_TENANTS
      /\ \A i \in DOMAIN list : list[i] \notin {NoWallet, p.recipient}
      /\ p.creator \in Range(list)

(* Mutant of RosterValid: the recipient may be a tenant.                   *)
RosterValidWithRecipient(p) ==
  LET list == p.tenantAddresses
  IN  /\ Len(list) = Len(p.requiredAmounts)
      /\ Len(list) \in MIN_TENANTS .. MAX_TENANTS
      /\ \A i \in DOMAIN list : list[i] # NoWallet
      /\ IsInjective(list)
      /\ p.creator \in Range(list)

(* The tenant list: its length, no zero address, no recipient, nobody      *)
(* twice, and the caller among them.                                       *)
RosterValid(p) ==
  LET list == p.tenantAddresses
  IN  /\ Len(list) = Len(p.requiredAmounts)
      /\ Len(list) \in MIN_TENANTS .. MAX_TENANTS
      /\ \A i \in DOMAIN list : list[i] \notin {NoWallet, p.recipient}
      /\ IsInjective(list)
      /\ p.creator \in Range(list)

(* Mutant of AmountsValid: the total is not checked before the cast.       *)
AmountsValidUnchecked(p) ==
  \A i \in DOMAIN p.requiredAmounts : p.requiredAmounts[i] # 0

(* No empty contribution, and a total that the cast to uint128 keeps.      *)
AmountsValid(p) ==
  /\ \A i \in DOMAIN p.requiredAmounts : p.requiredAmounts[i] # 0
  /\ SumFunction(p.requiredAmounts) <= MAX_UINT128

(* The records _registerTenants writes.                                    *)
RegisteredTenants(p) ==
  [w \in Wallets |->
     IF w \in Range(p.tenantAddresses)
     THEN LET i == CHOOSE i \in DOMAIN p.tenantAddresses : p.tenantAddresses[i] = w
          IN  [BlankTenant EXCEPT !.requiredAmount = p.requiredAmounts[i],
                                  !.index = i - 1, !.exists = TRUE]
     ELSE BlankTenant]

RequiredApprovals(n) == n \div 2 + 1

NewAgreement(p) ==
  [BlankAgreement EXCEPT
     !.creator = p.creator, !.recipient = p.recipient, !.termsHash = p.termsHash,
     !.leaseStart = p.leaseStart, !.leaseEnd = p.leaseEnd,
     !.fundingDeadline = p.fundingDeadline, !.claimDeadline = p.claimDeadline,
     !.settlementDeadline = p.settlementDeadline,
     !.tenantCount = Len(p.tenantAddresses),
     !.requiredApprovals = RequiredApprovals(Len(p.tenantAddresses)),
     !.totalRequired = SumFunction(p.requiredAmounts),
     !.status = "FUNDING"]

(* The checks of createAgreement, in their order.                          *)
Creatable(p) ==
  /\ p.recipient # NoWallet
  /\ p.termsHash # NoHash
  /\ RosterValid(p)
  /\ TimelineValid(p)
  /\ AmountsValid(p)

CreateAgreement(p) ==
  LET a == nextAgreementId
  IN  /\ a \in AgreementIds
      /\ Creatable(p)
      /\ nextAgreementId' = a + 1
      /\ agreements' = [agreements EXCEPT ![a] = NewAgreement(p)]
      /\ agreementTenants' = [agreementTenants EXCEPT ![a] = p.tenantAddresses]
      /\ tenants' = [tenants EXCEPT ![a] = RegisteredTenants(p)]
      /\ UNCHANGED <<claims, votes, now, balance, forced>>

-----------------------------------------------------------------------------
(* Acceptance and funding                                                  *)

(* _allTenantsAcceptedAndFunded                                            *)
Ready(agreement, list, ts) ==
  /\ agreement.recipientAccepted
  /\ \A i \in DOMAIN list :
       /\ ts[list[i]].accepted
       /\ ts[list[i]].fundedAmount = ts[list[i]].requiredAmount

CheckAndActivate(agreement, list, ts) ==
  IF Ready(agreement, list, ts)
  THEN [agreement EXCEPT !.status = "ACTIVE"]
  ELSE agreement

FundingOpen(a) ==
  /\ agreements[a].status = "FUNDING"
  /\ now <= agreements[a].fundingDeadline

(* Each function's checks, and then what it does.                          *)
TenantMayAccept(a, sender, expectedTermsHash) ==
  /\ FundingOpen(a)
  /\ tenants[a][sender].exists
  /\ ~ tenants[a][sender].accepted
  /\ expectedTermsHash = agreements[a].termsHash

AcceptAsTenant(a, sender, expectedTermsHash) ==
  LET ts == [tenants[a] EXCEPT ![sender].accepted = TRUE]
  IN  /\ TenantMayAccept(a, sender, expectedTermsHash)
      /\ tenants' = [tenants EXCEPT ![a] = ts]
      /\ agreements' = [agreements EXCEPT ![a] =
                          CheckAndActivate(@, agreementTenants[a], ts)]
      /\ UNCHANGED <<nextAgreementId, agreementTenants, claims, votes,
                     now, balance, forced>>

RecipientMayAccept(a, sender, expectedTermsHash) ==
  /\ FundingOpen(a)
  /\ sender = agreements[a].recipient
  /\ ~ agreements[a].recipientAccepted
  /\ expectedTermsHash = agreements[a].termsHash

AcceptAsRecipient(a, sender, expectedTermsHash) ==
  /\ RecipientMayAccept(a, sender, expectedTermsHash)
  /\ agreements' = [agreements EXCEPT ![a] =
                      CheckAndActivate([@ EXCEPT !.recipientAccepted = TRUE],
                                       agreementTenants[a], tenants[a])]
  /\ UNCHANGED <<nextAgreementId, agreementTenants, tenants, claims, votes,
                 now, balance, forced>>

Remaining(tenant) == tenant.requiredAmount - tenant.fundedAmount

MayDeposit(a, sender, value) ==
  /\ FundingOpen(a)
  /\ tenants[a][sender].exists
  /\ tenants[a][sender].accepted
  /\ value # 0
  /\ value <= Remaining(tenants[a][sender])

Deposit(a, sender, value) ==
  LET ts == [tenants[a] EXCEPT ![sender].fundedAmount = @ + value]
  IN  /\ MayDeposit(a, sender, value)
      /\ tenants' = [tenants EXCEPT ![a] = ts]
      /\ agreements' = [agreements EXCEPT ![a] =
                          CheckAndActivate([agreements[a] EXCEPT !.totalFunded = @ + value],
                                           agreementTenants[a], ts)]
      /\ balance' = balance + value
      /\ UNCHANGED <<nextAgreementId, agreementTenants, claims, votes, now, forced>>

(* _sendMON: the one way out.  The transfer fails when the receiver's code *)
(* fails or the account holds too little, and the whole call reverts.      *)
MaySend(to, amount) == to \notin Refusing /\ amount <= balance

SendMON(to, amount) ==
  /\ MaySend(to, amount)
  /\ balance' = balance - amount

MayWithdrawFunding(a, sender, amount) ==
  /\ agreements[a].status = "FUNDING"
  /\ tenants[a][sender].exists
  /\ amount # 0
  /\ amount <= tenants[a][sender].fundedAmount

(* What each withdrawal records before it sends.                           *)
WithdrawFundingEffects(a, sender, amount) ==
  /\ MayWithdrawFunding(a, sender, amount)
  /\ tenants' = [tenants EXCEPT ![a][sender].fundedAmount = @ - amount]
  /\ agreements' = [agreements EXCEPT ![a].totalFunded = @ - amount]
  /\ UNCHANGED <<nextAgreementId, agreementTenants, claims, votes, now, forced>>

WithdrawFundingBeforeActivation(a, sender, amount) ==
  /\ WithdrawFundingEffects(a, sender, amount)
  /\ SendMON(sender, amount)

-----------------------------------------------------------------------------
(* Cancellation                                                            *)

(* Mutant of IsParticipant: only the recipient.                            *)
IsRecipientOnly(a, w) == w = agreements[a].recipient

IsParticipant(a, w) == tenants[a][w].exists \/ w = agreements[a].recipient

CancelExpiredFunding(a, sender) ==
  /\ agreements[a].status = "FUNDING"
  /\ now > agreements[a].fundingDeadline
  /\ IsParticipant(a, sender)
  /\ agreements' = [agreements EXCEPT ![a].status = "CANCELLED"]
  /\ UNCHANGED <<nextAgreementId, agreementTenants, tenants, claims, votes,
                 now, balance, forced>>

(* Mutant of WithdrawCancelledEffects: the flag is not set.                *)
WithdrawCancelledTwice(a, sender) ==
  LET amount == tenants[a][sender].fundedAmount
  IN  /\ agreements[a].status = "CANCELLED"
      /\ tenants[a][sender].exists
      /\ ~ tenants[a][sender].cancelledFundingWithdrawn
      /\ amount # 0
      /\ tenants' = [tenants EXCEPT
           ![a][sender].cancelledFundingWithdrawnAmount = amount]
      /\ agreements' = [agreements EXCEPT
           ![a].totalCancelledFundingWithdrawn = @ + amount]
      /\ UNCHANGED <<nextAgreementId, agreementTenants, claims, votes, now, forced>>

(* The funding history stays; only the flag makes the amount zero.         *)
WithdrawCancelledEffects(a, sender) ==
  LET amount == tenants[a][sender].fundedAmount
  IN  /\ agreements[a].status = "CANCELLED"
      /\ tenants[a][sender].exists
      /\ ~ tenants[a][sender].cancelledFundingWithdrawn
      /\ amount # 0
      /\ tenants' = [tenants EXCEPT
           ![a][sender].cancelledFundingWithdrawn = TRUE,
           ![a][sender].cancelledFundingWithdrawnAmount = amount]
      /\ agreements' = [agreements EXCEPT
           ![a].totalCancelledFundingWithdrawn = @ + amount]
      /\ UNCHANGED <<nextAgreementId, agreementTenants, claims, votes, now, forced>>

WithdrawCancelledFunding(a, sender) ==
  /\ WithdrawCancelledEffects(a, sender)
  /\ SendMON(sender, tenants[a][sender].fundedAmount)

-----------------------------------------------------------------------------
(* Claims and votes                                                        *)

(* The global reservation: open, approved and new within the deposit.      *)
FitsDeposit(agreement, amount) ==
  agreement.totalOpenClaimAmount + agreement.totalApprovedClaims + amount
    <= agreement.totalFunded

(* Mutant of FitsTenant: no per-tenant reservation.                        *)
FitsTenantAlways(tenant, amount) == TRUE

(* The liable tenant's reservation, against its own contribution.          *)
FitsTenant(tenant, amount) ==
  tenant.openIndividualClaimAmount + tenant.approvedIndividualClaims + amount
    <= tenant.fundedAmount

(* Mutant of HasClaimIdsLeft: one claim too many.                          *)
HasClaimIdsLeftOffByOne(agreement) == agreement.claimCount <= MAX_CLAIMS

HasClaimIdsLeft(agreement) == agreement.claimCount < MAX_CLAIMS

SubmitClaim(a, sender, claimType, liable, amount, reasonHash, evidenceHash) ==
  LET agreement == agreements[a]
      claimId == agreement.claimCount + 1
  IN  /\ agreement.status = "ACTIVE"
      /\ sender = agreement.recipient
      /\ agreement.leaseEnd <= now
      /\ now <= agreement.claimDeadline
      /\ HasClaimIdsLeft(agreement)
      /\ amount # 0
      /\ NoHash \notin {reasonHash, evidenceHash}
      /\ FitsDeposit(agreement, amount)
      /\ \/ /\ claimType = "SHARED"
            /\ liable = NoWallet
            /\ UNCHANGED tenants
         \/ /\ claimType = "INDIVIDUAL"
            /\ liable # NoWallet
            /\ tenants[a][liable].exists
            /\ FitsTenant(tenants[a][liable], amount)
            /\ tenants' = [tenants EXCEPT
                 ![a][liable].openIndividualClaimAmount = @ + amount]
      /\ agreements' = [agreements EXCEPT
           ![a].claimCount = claimId,
           ![a].unresolvedClaimCount = @ + 1,
           ![a].totalOpenClaimAmount = @ + amount]
      /\ claims' = [claims EXCEPT ![a][claimId] =
           [BlankClaim EXCEPT !.liableTenant = liable, !.amount = amount,
                              !.claimType = claimType, !.status = "PENDING"]]
      /\ UNCHANGED <<nextAgreementId, agreementTenants, votes, now, balance, forced>>

(* Mutant of Releases: a withdrawn or rejected claim keeps its tenant's    *)
(* reservation.                                                            *)
ReleasesNothing(ts, claim) == ts

(* _releaseOpenClaimReservation, the tenant's half.                        *)
Releases(ts, claim) ==
  IF claim.claimType = "INDIVIDUAL"
  THEN [ts EXCEPT ![claim.liableTenant].openIndividualClaimAmount = @ - claim.amount]
  ELSE ts

(* A claim leaves PENDING without approval: _rejectClaim, and the recipient's *)
(* own withdrawal.  `claim' is its record with the votes of this call.     *)
Dismiss(a, claimId, claim, status) ==
  /\ claims' = [claims EXCEPT ![a][claimId] = [claim EXCEPT !.status = status]]
  /\ agreements' = [agreements EXCEPT
       ![a].unresolvedClaimCount = @ - 1,
       ![a].totalOpenClaimAmount = @ - claim.amount]
  /\ tenants' = [tenants EXCEPT ![a] = Releases(@, claim)]

Approves(agreement, claim) ==
  [agreement EXCEPT
     !.unresolvedClaimCount = @ - 1,
     !.totalOpenClaimAmount = @ - claim.amount,
     !.totalApprovedClaims = @ + claim.amount,
     !.sharedApprovedClaims =
        IF claim.claimType = "SHARED" THEN @ + claim.amount ELSE @]

ApproveClaim(a, claimId, claim) ==
  /\ claims' = [claims EXCEPT ![a][claimId] = [claim EXCEPT !.status = "APPROVED"]]
  /\ agreements' = [agreements EXCEPT ![a] = Approves(@, claim)]
  /\ tenants' = IF claim.claimType = "INDIVIDUAL"
                THEN [tenants EXCEPT
                        ![a][claim.liableTenant].openIndividualClaimAmount = @ - claim.amount,
                        ![a][claim.liableTenant].approvedIndividualClaims = @ + claim.amount]
                ELSE tenants

WithdrawPendingClaim(a, sender, claimId) ==
  /\ agreements[a].status = "ACTIVE"
  /\ sender = agreements[a].recipient
  /\ claims[a][claimId].status = "PENDING"
  /\ Dismiss(a, claimId, claims[a][claimId], "WITHDRAWN")
  /\ UNCHANGED <<nextAgreementId, agreementTenants, votes, now, balance, forced>>

VotingOpen(a) ==
  /\ agreements[a].status = "ACTIVE"
  /\ now <= agreements[a].settlementDeadline

Approved(agreement, claim) == claim.yesVotes >= agreement.requiredApprovals

(* Mutant of Hopeless: one NO more than needed before a claim is rejected. *)
HopelessOneLate(agreement, claim) ==
  claim.noVotes > agreement.tenantCount - agreement.requiredApprovals + 1

(* Approval has become impossible.                                         *)
Hopeless(agreement, claim) ==
  claim.noVotes >= agreement.tenantCount - agreement.requiredApprovals + 1

(* Mutant of HasVoted: votes may be cast again.                            *)
HasVotedNever(a, claimId, sender) == FALSE

HasVoted(a, claimId, sender) == votes[a][claimId][sender] # 0

VoteClaim(a, sender, claimId, support) ==
  LET agreement == agreements[a]
      counted == IF support THEN [claims[a][claimId] EXCEPT !.yesVotes = @ + 1]
                            ELSE [claims[a][claimId] EXCEPT !.noVotes = @ + 1]
  IN  /\ VotingOpen(a)
      /\ tenants[a][sender].exists
      /\ claims[a][claimId].status = "PENDING"
      /\ ~ HasVoted(a, claimId, sender)
      /\ votes' = [votes EXCEPT ![a][claimId][sender] = IF support THEN 1 ELSE 2]
      /\ \/ /\ Approved(agreement, counted)
            /\ ApproveClaim(a, claimId, counted)
         \/ /\ ~ Approved(agreement, counted)
            /\ Hopeless(agreement, counted)
            /\ Dismiss(a, claimId, counted, "REJECTED")
         \/ /\ ~ Approved(agreement, counted)
            /\ ~ Hopeless(agreement, counted)
            /\ claims' = [claims EXCEPT ![a][claimId] = counted]
            /\ UNCHANGED <<agreements, tenants>>
      /\ UNCHANGED <<nextAgreementId, agreementTenants, now, balance, forced>>

FinalizePendingClaim(a, sender, claimId) ==
  /\ agreements[a].status = "ACTIVE"
  /\ now > agreements[a].settlementDeadline
  /\ IsParticipant(a, sender)
  /\ claims[a][claimId].status = "PENDING"
  /\ IF Approved(agreements[a], claims[a][claimId])
     THEN ApproveClaim(a, claimId, claims[a][claimId])
     ELSE Dismiss(a, claimId, claims[a][claimId], "REJECTED")
  /\ UNCHANGED <<nextAgreementId, agreementTenants, votes, now, balance, forced>>

-----------------------------------------------------------------------------
(* Finalization                                                            *)

(* What each tenant, in list order, has left after its own deductions.     *)
RemainingBalances(a) ==
  [i \in DOMAIN agreementTenants[a] |->
     LET t == tenants[a][agreementTenants[a][i]]
     IN  t.fundedAmount - t.approvedIndividualClaims]

(* Mutant of StoredRefunds: refunds ignore the shared claims.              *)
StoredRefundsUnshared(a) ==
  [w \in Wallets |->
     IF tenants[a][w].exists
     THEN [tenants[a][w] EXCEPT !.refundAmount =
             tenants[a][w].fundedAmount - tenants[a][w].approvedIndividualClaims]
     ELSE tenants[a][w]]

StoredRefunds(a) ==
  LET list == agreementTenants[a]
      refunds == Refunds(RemainingBalances(a), agreements[a].sharedApprovedClaims)
  IN  [w \in Wallets |->
         IF w \in Range(list)
         THEN [tenants[a][w] EXCEPT !.refundAmount =
                 refunds[CHOOSE i \in DOMAIN list : list[i] = w]]
         ELSE tenants[a][w]]

FinalizeAgreement(a) ==
  /\ agreements[a].status = "ACTIVE"
  /\ now > agreements[a].settlementDeadline
  /\ agreements[a].unresolvedClaimCount = 0
  /\ Settles(RemainingBalances(a), agreements[a].sharedApprovedClaims)
  /\ tenants' = [tenants EXCEPT ![a] = StoredRefunds(a)]
  /\ agreements' = [agreements EXCEPT ![a].status = "FINALIZED"]
  /\ UNCHANGED <<nextAgreementId, agreementTenants, claims, votes, now, balance, forced>>

WithdrawRefundEffects(a, sender) ==
  /\ agreements[a].status = "FINALIZED"
  /\ tenants[a][sender].exists
  /\ ~ tenants[a][sender].refundWithdrawn
  /\ tenants[a][sender].refundAmount # 0
  /\ tenants' = [tenants EXCEPT ![a][sender].refundWithdrawn = TRUE]
  /\ UNCHANGED <<nextAgreementId, agreements, agreementTenants, claims, votes, now, forced>>

WithdrawTenantRefund(a, sender) ==
  /\ WithdrawRefundEffects(a, sender)
  /\ SendMON(sender, tenants[a][sender].refundAmount)

WithdrawPayoutEffects(a, sender) ==
  /\ agreements[a].status = "FINALIZED"
  /\ sender = agreements[a].recipient
  /\ ~ agreements[a].recipientPayoutWithdrawn
  /\ agreements[a].totalApprovedClaims # 0
  /\ agreements' = [agreements EXCEPT ![a].recipientPayoutWithdrawn = TRUE]
  /\ UNCHANGED <<nextAgreementId, agreementTenants, tenants, claims, votes, now, forced>>

WithdrawRecipientPayout(a, sender) ==
  /\ WithdrawPayoutEffects(a, sender)
  /\ SendMON(sender, agreements[a].totalApprovedClaims)

-----------------------------------------------------------------------------
(* Time, forced money, and the whole system                                *)

Tick ==
  /\ now < MaxTime
  /\ now' = now + 1
  /\ UNCHANGED <<storage, balance, forced>>

(* MON arrives without a call: receive() and fallback() revert, but a      *)
(* destroyed contract's balance (test/ForceSend.sol) cannot be refused.    *)
ForceSend(amount) ==
  /\ amount > 0
  /\ forced + amount <= MaxForced
  /\ forced' = forced + amount
  /\ balance' = balance + amount
  /\ UNCHANGED <<storage, now>>

(* The functions that are open to re-entry: they never send.               *)
UnguardedCall(w) ==
  \/ \E p \in Proposals : p.creator = w /\ CreateAgreement(p)
  \/ \E a \in AgreementIds, h \in Hashes : AcceptAsTenant(a, w, h)
  \/ \E a \in AgreementIds, h \in Hashes : AcceptAsRecipient(a, w, h)
  \/ \E a \in AgreementIds, x \in Uint128 : Deposit(a, w, x)
  \/ \E a \in AgreementIds : CancelExpiredFunding(a, w)
  \/ \E a \in AgreementIds, type \in ClaimType, liable \in Wallets \cup {NoWallet},
        x \in Uint128, reason, evidence \in Hashes \cup {NoHash} :
       SubmitClaim(a, w, type, liable, x, reason, evidence)
  \/ \E a \in AgreementIds, c \in ClaimIds : WithdrawPendingClaim(a, w, c)
  \/ \E a \in AgreementIds, c \in ClaimIds, s \in BOOLEAN : VoteClaim(a, w, c, s)
  \/ \E a \in AgreementIds, c \in ClaimIds : FinalizePendingClaim(a, w, c)
  \/ \E a \in AgreementIds : FinalizeAgreement(a)

(* The nonReentrant functions.                                             *)
Withdrawal(w) ==
  \/ \E a \in AgreementIds, x \in Uint128 : WithdrawFundingBeforeActivation(a, w, x)
  \/ \E a \in AgreementIds : WithdrawCancelledFunding(a, w)
  \/ \E a \in AgreementIds : WithdrawTenantRefund(a, w)
  \/ \E a \in AgreementIds : WithdrawRecipientPayout(a, w)

Next ==
  \/ \E w \in Wallets : UnguardedCall(w) \/ Withdrawal(w)
  \/ Tick
  \/ \E amount \in 1 .. MaxForced : ForceSend(amount)

Spec == Init /\ [][Next]_vars

(* What a wallet that wants its money can always do on its own.  Nothing   *)
(* else needs to happen: no other wallet has to act, and the refusing ones *)
(* need never act at all.                                                  *)
Diligent(w) ==
  \E a \in AgreementIds :
    \/ CancelExpiredFunding(a, w)
    \/ \E c \in ClaimIds : FinalizePendingClaim(a, w, c)
    \/ FinalizeAgreement(a) /\ IsParticipant(a, w)
    \/ WithdrawCancelledFunding(a, w)
    \/ WithdrawTenantRefund(a, w)
    \/ WithdrawRecipientPayout(a, w)

Fairness ==
  /\ WF_vars(Tick)
  /\ \A w \in Wallets \ Refusing : WF_vars(Diligent(w))

FairSpec == Spec /\ Fairness

-----------------------------------------------------------------------------
(* Safety                                                                  *)

TypeOK ==
  /\ nextAgreementId \in 1 .. MaxAgreements + 1
  /\ agreements \in [AgreementIds -> Agreement]
  /\ agreementTenants \in [AgreementIds -> Seq(Wallets)]
  /\ tenants \in [AgreementIds -> [Wallets -> Tenant]]
  /\ claims \in [AgreementIds -> [ClaimIds -> Claim]]
  /\ votes \in [AgreementIds -> [ClaimIds -> [Wallets -> 0 .. 2]]]
  /\ now \in 0 .. MaxTime
  /\ balance \in Int
  /\ forced \in 0 .. MaxForced

(* No checked addition or subtraction of the code can revert and no cast   *)
(* can truncate: every stored amount and counter stays within its width    *)
(* (the comments at lines 416, 537, 769 say so case by case).              *)
AmountsFit ==
  \A a \in AgreementIds :
    /\ {agreements[a].totalRequired, agreements[a].totalFunded,
        agreements[a].totalCancelledFundingWithdrawn,
        agreements[a].totalOpenClaimAmount, agreements[a].totalApprovedClaims,
        agreements[a].sharedApprovedClaims} \subseteq Uint128
    /\ agreements[a].unresolvedClaimCount \in 0 .. agreements[a].claimCount
    /\ \A w \in Wallets :
         {tenants[a][w].fundedAmount, tenants[a][w].refundAmount,
          tenants[a][w].openIndividualClaimAmount,
          tenants[a][w].approvedIndividualClaims} \subseteq Uint128

(* What the contract still holds for a wallet under one agreement: its     *)
(* stake, and after finalization its refund and the recipient's payout.    *)
Owed(a, w) ==
  LET t == tenants[a][w]
      asTenant ==
        CASE agreements[a].status = "FINALIZED" ->
               IF t.refundWithdrawn THEN 0 ELSE t.refundAmount
          [] agreements[a].status = "CANCELLED" ->
               IF t.cancelledFundingWithdrawn THEN 0 ELSE t.fundedAmount
          [] OTHER -> t.fundedAmount
      asRecipient ==
        IF /\ agreements[a].status = "FINALIZED"
           /\ w = agreements[a].recipient
           /\ ~ agreements[a].recipientPayoutWithdrawn
        THEN agreements[a].totalApprovedClaims
        ELSE 0
  IN  asTenant + asRecipient

(* The contract holds, to the wei, what it owes over all agreements plus   *)
(* what was forced in: so every transfer it attempts is covered, and       *)
(* forced money changes nobody's entitlement.                              *)
Solvent ==
  balance =
    forced + SumFunction([a \in AgreementIds |->
                            SumFunction([w \in Wallets |-> Owed(a, w)])])

(* The agreement's funding totals are the sums of its tenants' records,    *)
(* through every deposit, early withdrawal and cancelled-funding payout.   *)
FundingBooks ==
  \A a \in AgreementIds :
    /\ agreements[a].totalRequired =
         SumFunction([w \in Wallets |-> tenants[a][w].requiredAmount])
    /\ agreements[a].totalFunded =
         SumFunction([w \in Wallets |-> tenants[a][w].fundedAmount])
    /\ agreements[a].totalCancelledFundingWithdrawn =
         SumFunction([w \in Wallets |-> tenants[a][w].cancelledFundingWithdrawnAmount])
    /\ \A w \in Wallets :
         /\ tenants[a][w].fundedAmount <= tenants[a][w].requiredAmount
         /\ tenants[a][w].cancelledFundingWithdrawnAmount =
              IF tenants[a][w].cancelledFundingWithdrawn
              THEN tenants[a][w].fundedAmount ELSE 0

(* The amounts of an agreement's claims with this type, liable wallet and  *)
(* status.                                                                 *)
ClaimTotal(a, Selects(_)) ==
  SumFunction([c \in ClaimIds |-> IF Selects(claims[a][c]) THEN claims[a][c].amount ELSE 0])

(* The running totals the claim logic keeps are, at every moment, the sums *)
(* of the claims themselves: each claim is reserved once, and released or  *)
(* converted once, in the one bucket it belongs to.                        *)
ClaimBooks ==
  \A a \in AgreementIds :
    /\ agreements[a].totalOpenClaimAmount =
         ClaimTotal(a, LAMBDA k : k.status = "PENDING")
    /\ agreements[a].totalApprovedClaims =
         ClaimTotal(a, LAMBDA k : k.status = "APPROVED")
    /\ agreements[a].sharedApprovedClaims =
         ClaimTotal(a, LAMBDA k : k.status = "APPROVED" /\ k.claimType = "SHARED")
    /\ agreements[a].unresolvedClaimCount =
         Cardinality({c \in ClaimIds : claims[a][c].status = "PENDING"})
    /\ agreements[a].claimCount =
         Cardinality({c \in ClaimIds : claims[a][c].status # "NONE"})
    /\ \A w \in Wallets :
         /\ tenants[a][w].openIndividualClaimAmount =
              ClaimTotal(a, LAMBDA k : k.status = "PENDING" /\ k.liableTenant = w)
         /\ tenants[a][w].approvedIndividualClaims =
              ClaimTotal(a, LAMBDA k : k.status = "APPROVED" /\ k.liableTenant = w)

(* Claims never reserve more than was deposited, in total or against the   *)
(* one tenant they name; so settlement cannot underflow, and the loops of  *)
(* settlement cannot hit their defensive reverts, whatever was voted.      *)
ClaimsCovered ==
  \A a \in AgreementIds :
    /\ agreements[a].totalOpenClaimAmount + agreements[a].totalApprovedClaims
         <= agreements[a].totalFunded
    /\ \A w \in Wallets :
         tenants[a][w].openIndividualClaimAmount + tenants[a][w].approvedIndividualClaims
           <= tenants[a][w].fundedAmount
    /\ agreements[a].status = "ACTIVE" =>
         Settles(RemainingBalances(a), agreements[a].sharedApprovedClaims)

(* An agreement is active exactly from the step that made it ready: no     *)
(* order of acceptances, deposits and withdrawals leaves a ready one       *)
(* waiting or activates one that is not, and nothing un-readies it later.  *)
ActiveIffReady ==
  \A a \in AgreementIds :
    LET everyoneIn ==
          /\ agreements[a].recipientAccepted
          /\ \A w \in Wallets :
               tenants[a][w].exists =>
                 /\ tenants[a][w].accepted
                 /\ tenants[a][w].fundedAmount = tenants[a][w].requiredAmount
    IN  /\ agreements[a].status \in {"ACTIVE", "FINALIZED"} => everyoneIn
        /\ agreements[a].status \in {"FUNDING", "CANCELLED"} => ~ everyoneIn

(* Who voted what on a claim.                                              *)
Voters(a, c, vote) == {w \in Wallets : votes[a][c][w] = vote}

(* The outcome of a claim is the outcome of its ballot, by a strict        *)
(* majority of all tenants: an approved one has that majority, a rejected  *)
(* one can no longer get it or ran out of time, and one still pending is   *)
(* genuinely undecided.  Only tenants vote and the counters are their      *)
(* votes.                                                                  *)
BallotDecides ==
  \A a \in AgreementIds, c \in ClaimIds :
    LET claim == claims[a][c]
        yes == Cardinality(Voters(a, c, 1))
        no == Cardinality(Voters(a, c, 2))
        n == Cardinality({w \in Wallets : tenants[a][w].exists})
    IN  /\ claim.yesVotes = yes /\ claim.noVotes = no
        /\ \A w \in Voters(a, c, 1) \cup Voters(a, c, 2) : tenants[a][w].exists
        /\ claim.status = "APPROVED" => 2 * yes > n
        /\ claim.status = "REJECTED" =>
             \/ 2 * (n - no) <= n
             \/ 2 * yes <= n /\ now > agreements[a].settlementDeadline
        /\ claim.status \in {"PENDING", "WITHDRAWN"} => 2 * yes <= n /\ 2 * (n - no) > n

(* After finalization the refunds and the approved claims are the deposit, *)
(* to the wei; each tenant paid its own individual claims, and its part of *)
(* the shared claims to within one wei of its proportional share of what   *)
(* the tenants had left.                                                   *)
SettlementExact ==
  \A a \in AgreementIds :
    agreements[a].status = "FINALIZED" =>
      LET left == [w \in Wallets |->
                     tenants[a][w].fundedAmount - tenants[a][w].approvedIndividualClaims]
          total == SumFunction(left)
          shared == agreements[a].sharedApprovedClaims
      IN  /\ SumFunction([w \in Wallets |-> tenants[a][w].refundAmount])
               + agreements[a].totalApprovedClaims = agreements[a].totalFunded
          /\ \A w \in Wallets :
               LET charged == left[w] - tenants[a][w].refundAmount
               IN  /\ charged \in 0 .. left[w]
                   /\ shared > 0 =>
                        /\ charged * total < shared * left[w] + total
                        /\ charged * total > shared * left[w] - total

-----------------------------------------------------------------------------
(* Action properties                                                       *)

(* Nothing decided is decided again: a claim's terms never change, a       *)
(* resolved claim keeps its status and its tally, a vote stays as it was   *)
(* cast, and the refunds and totals of a finalized agreement stay.         *)
DecisionsFinal ==
  [][\A a \in AgreementIds :
       /\ \A c \in ClaimIds :
            /\ claims[a][c].status # "NONE" =>
                 \A field \in {"liableTenant", "amount", "claimType"} :
                   claims'[a][c][field] = claims[a][c][field]
            /\ claims[a][c].status \notin {"NONE", "PENDING"} =>
                 claims'[a][c] = claims[a][c]
            /\ \A w \in Wallets :
                 votes[a][c][w] # 0 => votes'[a][c][w] = votes[a][c][w]
       /\ agreements[a].status = "FINALIZED" =>
            /\ agreements'[a].status = "FINALIZED"
            /\ agreements'[a].totalApprovedClaims = agreements[a].totalApprovedClaims
            /\ \A w \in Wallets :
                 tenants'[a][w].refundAmount = tenants[a][w].refundAmount]_vars

-----------------------------------------------------------------------------
(* Refinement: what the contract promises about money                      *)

VaultPhase(status) ==
  CASE status = "NONE" -> "unused"
    [] status = "FUNDING" -> "collecting"
    [] status = "ACTIVE" -> "locked"
    [] OTHER -> "released"

Vault == INSTANCE DepositVault WITH
  Agreements <- AgreementIds,
  Amounts <- Uint128,
  phase <- [a \in AgreementIds |-> VaultPhase(agreements[a].status)],
  payee <- [a \in AgreementIds |-> agreements[a].recipient],
  stake <- [a \in AgreementIds |-> [w \in Wallets |-> Owed(a, w)]],
  custody <- balance - forced

(* Every function is one of the vault's steps or moves no money at all:    *)
(* money leaves only to the wallet it was held for, not while the          *)
(* agreement is active, and finalization only shifts stakes from tenants   *)
(* to the recipient.                                                       *)
ImplementsVault == Vault!VaultSpec

-----------------------------------------------------------------------------
(* Liveness                                                                *)

(* Money is never stuck: once an agreement exists, every wallet that does  *)
(* not refuse its own money ends with nothing left in it, whoever else     *)
(* stays away, never votes or refuses transfers.                           *)
EveryoneIsPaid ==
  \A a \in AgreementIds :
    agreements[a].status # "NONE" ~>
      \A w \in Wallets \ Refusing : Owed(a, w) = 0
=============================================================================
