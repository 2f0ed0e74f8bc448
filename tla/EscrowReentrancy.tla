-------------------------- MODULE EscrowReentrancy --------------------------
(***************************************************************************)
(* The escrow with its transfers taken apart.  A transfer to a wallet that *)
(* is a contract runs that contract's code before the withdrawal returns:  *)
(* it may call any function of the escrow that has no nonReentrant guard,  *)
(* read any view in between, and finally succeed or fail; a failure        *)
(* reverts the withdrawal together with everything the callback did.       *)
(* Within a transaction no time passes and no other transaction runs.      *)
(***************************************************************************)
EXTENDS SharedDepositEscrow

CONSTANT Contracts   (* the wallets whose code runs when they are paid     *)

ASSUME ContractsAssumption == Contracts \subseteq Wallets

VARIABLE call        (* the withdrawal in progress, or NoCall              *)

allVars == <<vars, call>>

NoCall == [kind |-> "none"]

InCall == call # NoCall

Kinds == {"funding", "cancelled", "refund", "payout"}

(* What a withdrawal of this kind would send.                              *)
Amounts(kind, a, w) ==
  CASE kind = "funding" -> Uint128
    [] kind = "cancelled" -> {tenants[a][w].fundedAmount}
    [] kind = "refund" -> {tenants[a][w].refundAmount}
    [] OTHER -> {agreements[a].totalApprovedClaims}

Effects(kind, a, w, x) ==
  \/ kind = "funding" /\ WithdrawFundingEffects(a, w, x)
  \/ kind = "cancelled" /\ WithdrawCancelledEffects(a, w)
  \/ kind = "refund" /\ WithdrawRefundEffects(a, w)
  \/ kind = "payout" /\ WithdrawPayoutEffects(a, w)

(* The value leaves before the receiver's code runs.                       *)
Transfer(x) ==
  /\ x <= balance
  /\ balance' = balance - x

(* Mutant of Stage: interaction before effects, for the early withdrawal.  *)
StageInteractionFirst(stage, kind, a, w, x) ==
  \/ /\ stage = "call"
     /\ kind = "funding"
     /\ x # 0 /\ agreements[a].status = "FUNDING" /\ x <= tenants[a][w].fundedAmount
     /\ Transfer(x)
     /\ UNCHANGED <<storage, now, forced>>
  \/ /\ stage = "return"
     /\ tenants' = [tenants EXCEPT ![a][w].fundedAmount = @ - x]
     /\ agreements' = [agreements EXCEPT ![a].totalFunded = @ - x]
     /\ UNCHANGED <<nextAgreementId, agreementTenants, claims, votes, now, forced, balance>>

(* The two halves of a withdrawal: everything it records is recorded when  *)
(* the transfer starts, and nothing is left to do when it returns.         *)
Stage(stage, kind, a, w, x) ==
  \/ /\ stage = "call"
     /\ Effects(kind, a, w, x)
     /\ Transfer(x)
  \/ /\ stage = "return"
     /\ UNCHANGED vars

(* A contract withdraws: its code starts to run, the guard is taken.       *)
Enter(w) ==
  /\ ~ InCall
  /\ \E kind \in Kinds, a \in AgreementIds : \E x \in Amounts(kind, a, w) :
       /\ Stage("call", kind, a, w, x)
       /\ call' = [kind |-> kind, agreement |-> a, caller |-> w, amount |-> x,
                   saved |-> <<agreements, agreementTenants, tenants, claims, votes,
                               nextAgreementId, balance, forced>>]

(* The callback, by itself or through other contracts, calls the escrow    *)
(* back.  The guarded functions revert.                                    *)
CallBack(w) ==
  /\ InCall
  /\ UnguardedCall(w)
  /\ UNCHANGED call

Return ==
  /\ InCall
  /\ Stage("return", call.kind, call.agreement, call.caller, call.amount)
  /\ call' = NoCall

(* TransferFailed: the transaction never happened.                         *)
Revert ==
  /\ InCall
  /\ agreements' = call.saved[1]
  /\ agreementTenants' = call.saved[2]
  /\ tenants' = call.saved[3]
  /\ claims' = call.saved[4]
  /\ votes' = call.saved[5]
  /\ nextAgreementId' = call.saved[6]
  /\ balance' = call.saved[7]
  /\ forced' = call.saved[8]
  /\ UNCHANGED now
  /\ call' = NoCall

(* Transactions that run no foreign code.                                  *)
Plain ==
  /\ ~ InCall
  /\ \/ \E w \in Wallets : UnguardedCall(w)
     \/ \E w \in Wallets \ Contracts : Withdrawal(w)
     \/ Tick
  /\ UNCHANGED call

ReentrantInit == Init /\ call = NoCall

ReentrantNext ==
  \/ Plain
  \/ \E w \in Contracts : Enter(w) \/ CallBack(w)
  \/ \E amount \in 1 .. MaxForced : ForceSend(amount) /\ UNCHANGED call
  \/ Return
  \/ Revert

ReentrantSpec == ReentrantInit /\ [][ReentrantNext]_allVars

-----------------------------------------------------------------------------
(* An early withdrawal whose callback deposits the money again may make    *)
(* the agreement active before the withdrawal has returned: the money      *)
(* taken out is nobody's stake by then, so the escrow is solvent and the   *)
(* agreement funded, at every point a callback or a view can observe.      *)
SoundDuringCalls == Solvent /\ ActiveIffReady /\ FundingBooks /\ ClaimsCovered

=============================================================================
