--------------------------- MODULE AgreementPage ---------------------------
(***************************************************************************)
(* The page of one agreement, open in a participant's browser while the    *)
(* deposit is collected (pages/AgreementDetail.tsx,                        *)
(* components/AgreementActions.tsx, hooks/useAgreementRole.ts), over the   *)
(* contract it reads and calls.                                            *)
(*                                                                         *)
(* The page decides what it offers by what it has read: the agreement and  *)
(* the tenants' records in two queries that are repeated independently,    *)
(* the clock when one of them last changed, and the two wallets, the       *)
(* connected one and the one that is signed in.  Meanwhile everybody       *)
(* calls the contract, this user from other windows too.  A call from the  *)
(* page is a flight here: simulated, given to the wallet, mined, and       *)
(* verified by a read; how it is polled and locked is ContractTx.          *)
(***************************************************************************)
EXTENDS SharedDepositEscrow, SignedIn

CONSTANTS
  NoRead,       (* a query that has not been answered yet                  *)
  MaxFlights,   (* bound: calls of the page that are not finished          *)
  MaxSwitches   (* bound: changes of the connected or signed-in wallet     *)

ASSUME AgreementPageAssumption ==
  /\ Users \subseteq Wallets /\ Nobody \notin Wallets \cup {NoWallet}
  /\ NoRead \notin
       [recipient : Wallets, recipientAccepted : BOOLEAN, status : AgreementStatus, fundingDeadline : Nat]
  /\ MaxAgreements >= 1
  /\ MaxFlights \in Nat /\ MaxSwitches \in Nat

VARIABLES
  connected,      (* useAccount's address                                  *)
  agreementRead,  (* getAgreement as last read                             *)
  tenantRecords,  (* listed tenant -> getTenant as last read               *)
  nowSeconds,     (* the clock when the role was last computed             *)
  flights,        (* the page's calls that still hold their action's lock  *)
  switches        (* bound: changes of wallet so far                       *)

reads == <<agreementRead, tenantRecords>>
wallets == <<connected, authWallet>>
pageVars == <<connected, authWallet, agreementRead, tenantRecords, nowSeconds, flights, switches>>

(* The agreement of the page.                                              *)
agreementId == 1

-----------------------------------------------------------------------------
(* resolveAgreementRole                                                    *)

walletMatchesSession == connected # Nobody /\ connected = authWallet

isTenant == connected \in DOMAIN tenantRecords
isRecipient == connected # Nobody /\ connected = agreementRead.recipient
tenantRecord == tenantRecords[connected]
remaining == tenantRecord.requiredAmount - tenantRecord.fundedAmount

isFunding == agreementRead.status = "FUNDING"

(* Mutant of fundingDeadlinePassed: closes in the deadline's own second.   *)
fundingDeadlineReached == nowSeconds >= agreementRead.fundingDeadline

fundingDeadlinePassed == nowSeconds > agreementRead.fundingDeadline
fundingOpen == isFunding /\ ~ fundingDeadlinePassed

canAcceptAsTenant ==
  walletMatchesSession /\ isTenant /\ ~ tenantRecord.accepted /\ fundingOpen
canAcceptAsRecipient ==
  walletMatchesSession /\ isRecipient /\ ~ agreementRead.recipientAccepted /\ fundingOpen

canDeposit ==
  walletMatchesSession /\ isTenant /\ tenantRecord.accepted /\ remaining > 0 /\ fundingOpen

(* Also past the deadline, until the agreement is cancelled.               *)
canWithdrawFunding ==
  walletMatchesSession /\ isTenant /\ tenantRecord.fundedAmount > 0 /\ isFunding

-----------------------------------------------------------------------------
(* The cards                                                               *)

Kinds == {"acceptAsTenant", "acceptAsRecipient", "deposit", "withdrawFunding"}

Locked(kind) == \E f \in flights : f.kind = kind /\ f.wallet = connected

(* The cards are there while the agreement is read as FUNDING and the      *)
(* signed-in wallet is the connected one; a button is enabled by its role  *)
(* and its lock.  The network gate may be on or off at any time, and so    *)
(* restrains nothing here.                                                 *)
Offers(kind) ==
  /\ agreementRead # NoRead
  /\ walletMatchesSession /\ isFunding
  /\ CASE kind = "acceptAsTenant" -> canAcceptAsTenant
       [] kind = "acceptAsRecipient" -> canAcceptAsRecipient
       [] kind = "deposit" -> canDeposit
       [] kind = "withdrawFunding" -> canWithdrawFunding

(* The amounts that the form lets through.                                 *)
Amounts(kind) ==
  CASE kind = "deposit" -> 1 .. remaining
    [] kind = "withdrawFunding" -> 1 .. tenantRecord.fundedAmount
    [] OTHER -> {0}

-----------------------------------------------------------------------------
(* The page's calls                                                        *)

(* What the contract's checks let through.                                 *)
Admits(kind, w, amount) ==
  LET termsHash == agreements[agreementId].termsHash
  IN  \/ kind = "acceptAsTenant" /\ TenantMayAccept(agreementId, w, termsHash)
      \/ kind = "acceptAsRecipient" /\ RecipientMayAccept(agreementId, w, termsHash)
      \/ kind = "deposit" /\ MayDeposit(agreementId, w, amount)
      \/ kind = "withdrawFunding" /\ MayWithdrawFunding(agreementId, w, amount) /\ MaySend(w, amount)

Call(kind, w, amount) ==
  \/ kind = "acceptAsTenant" /\ AcceptAsTenant(agreementId, w, agreements[agreementId].termsHash)
  \/ kind = "acceptAsRecipient" /\ AcceptAsRecipient(agreementId, w, agreements[agreementId].termsHash)
  \/ kind = "deposit" /\ Deposit(agreementId, w, amount)
  \/ kind = "withdrawFunding" /\ WithdrawFundingBeforeActivation(agreementId, w, amount)

(* `before' is the funded amount that the card showed.  `quiet' is history *)
(* for VerifiedUnlessDisturbed: the card was right, and w's other calls    *)
(* have not been mined since.                                              *)
Flight(kind, w, amount, before, quiet) ==
  [kind |-> kind, wallet |-> w, sender |-> w, amount |-> amount, before |-> before,
   at |-> "simulating", quiet |-> quiet]

Disturbed(fs, w) == {IF f.wallet = w THEN [f EXCEPT !.quiet = FALSE] ELSE f : f \in fs}

(* A button is pressed, and the action is locked.                          *)
Click(kind) ==
  /\ Offers(kind) /\ ~ Locked(kind)
  /\ Cardinality(flights) < MaxFlights
  /\ \E amount \in Amounts(kind) :
       flights' = flights \cup
         {Flight(kind, connected, amount, IF isTenant THEN tenantRecord.fundedAmount ELSE 0,
                 isTenant => tenantRecord = tenants[agreementId][connected])}
  /\ UNCHANGED <<vars, wallets, reads, nowSeconds, switches>>

(* The simulation shows that the contract accepts the call, and the wallet *)
(* is asked: the one that is connected by now.                             *)
AskWallet(f) ==
  /\ f.at = "simulating"
  /\ Admits(f.kind, f.wallet, f.amount)
  /\ connected # Nobody
  /\ flights' = (flights \ {f}) \cup
       {[f EXCEPT !.at = "sent", !.sender = connected, !.quiet = @ /\ connected = f.wallet]}
  /\ UNCHANGED <<vars, wallets, reads, nowSeconds, switches>>

(* The simulation reverts, there is no wallet any more, the user rejects,  *)
(* or the transaction fails or is never mined: nothing happened.           *)
GiveUp(f) ==
  /\ f.at \in {"simulating", "sent"}
  /\ flights' = flights \ {f}
  /\ UNCHANGED <<vars, wallets, reads, nowSeconds, switches>>

Mine(f) ==
  /\ f.at = "sent"
  /\ Call(f.kind, f.sender, f.amount)
  /\ flights' = Disturbed(flights \ {f}, f.sender) \cup {[f EXCEPT !.at = "mined"]}
  /\ UNCHANGED <<wallets, reads, nowSeconds, switches>>

(* Mutant of Observed: a withdrawal is looked for as a deposit is.         *)
ObservedIncrease(f) ==
  LET record == tenants[agreementId][f.wallet]
  IN  CASE f.kind = "acceptAsTenant" -> record.accepted
        [] f.kind = "acceptAsRecipient" -> agreements[agreementId].recipientAccepted
        [] OTHER -> record.fundedAmount > f.before

(* The direct read after the receipt shows the expected change.            *)
Observed(f) ==
  LET record == tenants[agreementId][f.wallet]
  IN  CASE f.kind = "acceptAsTenant" -> record.accepted
        [] f.kind = "acceptAsRecipient" -> agreements[agreementId].recipientAccepted
        [] f.kind = "deposit" -> record.fundedAmount > f.before
        [] f.kind = "withdrawFunding" -> record.fundedAmount < f.before

-----------------------------------------------------------------------------
(* What the page reads                                                     *)

AgreementShown == [field \in {"recipient", "recipientAccepted", "status", "fundingDeadline"} |->
                     agreements[agreementId][field]]
RecordsShown == [w \in DOMAIN tenantRecords |-> tenants[agreementId][w]]

(* Mutant of Answered: the first answer of a query is kept.                *)
AnsweredOnce(agreement, records) ==
  /\ agreementRead' = IF agreementRead = NoRead THEN agreement ELSE agreementRead
  /\ tenantRecords' = records
  /\ nowSeconds' = IF <<agreement, records>> # reads THEN now ELSE nowSeconds

(* The role is computed anew, with the clock of then, only if something it *)
(* depends on has changed.                                                 *)
Answered(agreement, records) ==
  /\ agreementRead' = agreement /\ tenantRecords' = records
  /\ nowSeconds' = IF <<agreement, records>> # reads THEN now ELSE nowSeconds

ReadAgreement ==
  /\ Answered(AgreementShown, tenantRecords)
  /\ UNCHANGED <<vars, wallets, flights, switches>>

(* The list first; until they are read, its records are blank.             *)
ReadTenants ==
  /\ IF DOMAIN tenantRecords = {}
     THEN Answered(agreementRead, [w \in Range(agreementTenants[agreementId]) |-> BlankTenant])
     ELSE Answered(agreementRead, RecordsShown)
  /\ UNCHANGED <<vars, wallets, flights, switches>>

(* verify: the read, a refetch of both queries, and the outcome.  If the   *)
(* change is not seen the action stays locked until "Check again", which   *)
(* finds the receipt.                                                      *)
Verify(f) ==
  /\ f.at = "mined"
  /\ Answered(AgreementShown, RecordsShown)
  /\ flights' = (flights \ {f}) \cup (IF Observed(f) THEN {} ELSE {[f EXCEPT !.at = "unverified"]})
  /\ UNCHANGED <<vars, wallets, switches>>

CheckAgain(f) ==
  /\ f.at = "unverified"
  /\ flights' = flights \ {f}
  /\ UNCHANGED <<vars, wallets, reads, nowSeconds, switches>>

(* Another account is connected, or the session changes hands or ends.     *)
SwitchWallet ==
  /\ switches < MaxSwitches
  /\ switches' = switches + 1
  /\ \/ connected' \in (Users \cup {Nobody}) \ {connected} /\ UNCHANGED authWallet
     \/ authWallet' \in {connected, Nobody} \ {authWallet} /\ UNCHANGED connected
  /\ nowSeconds' = now
  /\ UNCHANGED <<vars, reads, flights>>

(* Everybody's calls from elsewhere until the funding has ended, and time. *)
CalledElsewhere ==
  /\ \/ \E w \in Wallets :
          /\ \/ \E kind \in Kinds, amount \in 0 .. MAX_UINT128 : Call(kind, w, amount)
             \/ CancelExpiredFunding(agreementId, w)
          /\ flights' = Disturbed(flights, w)
     \/ Tick /\ UNCHANGED flights
  /\ UNCHANGED <<wallets, reads, nowSeconds, switches>>

-----------------------------------------------------------------------------
(* The agreement has been created; the page is opened at any time.         *)
PageInit ==
  /\ now = 0 /\ balance = 0 /\ forced = 0
  /\ \E p \in Proposals :
       /\ Creatable(p)
       /\ agreements = [a \in AgreementIds |->
                          IF a = agreementId THEN NewAgreement(p) ELSE BlankAgreement]
       /\ agreementTenants = [a \in AgreementIds |->
                                IF a = agreementId THEN p.tenantAddresses ELSE << >>]
       /\ tenants = [a \in AgreementIds |->
                       IF a = agreementId THEN RegisteredTenants(p) ELSE [w \in Wallets |-> BlankTenant]]
  /\ nextAgreementId = agreementId + 1
  /\ claims = [a \in AgreementIds |-> [c \in ClaimIds |-> BlankClaim]]
  /\ votes = [a \in AgreementIds |-> [c \in ClaimIds |-> [w \in Wallets |-> 0]]]
  /\ connected \in Users /\ authWallet = connected
  /\ agreementRead = NoRead /\ tenantRecords = << >> /\ nowSeconds = 0
  /\ flights = {} /\ switches = 0

PageNext ==
  \/ \E kind \in Kinds : Click(kind)
  \/ \E f \in flights : AskWallet(f) \/ GiveUp(f) \/ Mine(f) \/ Verify(f) \/ CheckAgain(f)
  \/ ReadAgreement \/ ReadTenants \/ SwitchWallet \/ CalledElsewhere

(* The queries are repeated every fifteen seconds.                         *)
PageSpec ==
  /\ PageInit /\ [][PageNext]_<<vars, pageVars>>
  /\ WF_<<vars, pageVars>>(ReadAgreement) /\ WF_<<vars, pageVars>>(ReadTenants)

-----------------------------------------------------------------------------
(* Properties                                                              *)

(* What the page knows is what there is.                                   *)
UpToDate ==
  /\ agreementRead = AgreementShown
  /\ DOMAIN tenantRecords # {} /\ tenantRecords = RecordsShown
  /\ nowSeconds = now

(* An up-to-date page offers exactly what the contract accepts: no button  *)
(* leads to a revert, whatever its form lets through, unless the wallet    *)
(* itself refuses the money, and what the contract takes from the          *)
(* signed-in wallet while the deposit is collected the page lets it do.    *)
OfferedIffAccepted ==
  UpToDate =>
    /\ \A kind \in Kinds : Offers(kind) =>
         \A amount \in Amounts(kind) :
           Admits(kind, connected, amount) \/ (kind = "withdrawFunding" /\ connected \in Refusing)
    /\ walletMatchesSession =>
         \A kind \in Kinds, amount \in 0 .. MAX_UINT128 :
           Admits(kind, connected, amount) =>
             /\ Offers(kind)
             /\ kind \in {"deposit", "withdrawFunding"} => amount \in Amounts(kind)

(* A call that was mined is verified, unless the card it was made from was *)
(* out of date or another call of the wallet was mined since.              *)
VerifiedUnlessDisturbed ==
  \A f \in flights : f.at = "unverified" => ~ f.quiet

(* A page that stays open comes to show how the funding ended.             *)
PageCatchesUp ==
  agreements[agreementId].status # "FUNDING" ~>
    /\ agreementRead # NoRead /\ agreementRead.status = agreements[agreementId].status
    /\ \A kind \in Kinds : ~ Offers(kind)
=============================================================================
