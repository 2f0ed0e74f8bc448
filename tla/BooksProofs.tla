--------------------------- MODULE BooksProofs ----------------------------
(***************************************************************************)
(* The books and decisions of SharedDepositEscrow, for any wallets,        *)
(* proposals, amounts and number of agreements: an agreement is active     *)
(* exactly when everybody is in, the claim totals are the sums of the      *)
(* claims, no amount leaves its width, the ballots decide the claims, and  *)
(* the settlement is exact.  Hence every function is a step of             *)
(* DepositVault or moves no money, and no callback during a transfer finds *)
(* or leaves the books wrong.                                              *)
(*                                                                         *)
(* The first part says what a step does to one agreement.  Every function  *)
(* is one of a few kinds: it opens the agreement, moves its funding, moves *)
(* one of its claims, settles it, or leaves all of that alone.  The second *)
(* part looks at the kinds only; the third adds the payments.              *)
(***************************************************************************)
EXTENDS SolvencyProofs, EscrowReentrancy

-----------------------------------------------------------------------------
(* What a step leaves alone, by the part of the records it belongs to.     *)
KeepsTerms(g, h) ==
  /\ h.recipient = g.recipient /\ h.settlementDeadline = g.settlementDeadline
  /\ h.tenantCount = g.tenantCount /\ h.requiredApprovals = g.requiredApprovals
  /\ h.totalRequired = g.totalRequired
KeepsFunding(g, h) ==
  h.recipientAccepted = g.recipientAccepted /\ h.totalFunded = g.totalFunded
KeepsClaims(g, h) ==
  /\ h.claimCount = g.claimCount /\ h.unresolvedClaimCount = g.unresolvedClaimCount
  /\ h.totalOpenClaimAmount = g.totalOpenClaimAmount
  /\ h.totalApprovedClaims = g.totalApprovedClaims
  /\ h.sharedApprovedClaims = g.sharedApprovedClaims

(* The same for the rows of the tenants' table.                            *)
RowsKeepTerms(ts, us) ==
  \A w \in Wallets : us[w].exists = ts[w].exists /\ us[w].requiredAmount = ts[w].requiredAmount
RowsKeepFunding(ts, us) ==
  \A w \in Wallets : us[w].accepted = ts[w].accepted /\ us[w].fundedAmount = ts[w].fundedAmount
RowsKeepClaims(ts, us) ==
  \A w \in Wallets :
    /\ us[w].openIndividualClaimAmount = ts[w].openIndividualClaimAmount
    /\ us[w].approvedIndividualClaims = ts[w].approvedIndividualClaims
RowsKeepRefunds(ts, us) ==
  \A w \in Wallets : us[w].refundAmount = ts[w].refundAmount

-----------------------------------------------------------------------------
(* The kinds of steps, in terms of an agreement's records before and after *)

(* Everybody has accepted and paid: what activates an agreement.           *)
Complete(g, ts) ==
  /\ g.recipientAccepted
  /\ \A w \in Wallets :
       ts[w].exists => /\ ts[w].accepted
                       /\ ts[w].fundedAmount = ts[w].requiredAmount

(* Nothing but the withdrawal flags.                                       *)
Idle(g, h, ts, us) ==
  /\ h.status = g.status
  /\ KeepsTerms(g, h) /\ KeepsFunding(g, h) /\ KeepsClaims(g, h)
  /\ RowsKeepTerms(ts, us) /\ RowsKeepFunding(ts, us)
  /\ RowsKeepClaims(ts, us) /\ RowsKeepRefunds(ts, us)

(* Acceptance, deposit, early withdrawal, cancellation.                    *)
Collects(g, h, ts, us) ==
  /\ g.status = "FUNDING"
  /\ KeepsTerms(g, h) /\ KeepsClaims(g, h)
  /\ RowsKeepTerms(ts, us) /\ RowsKeepClaims(ts, us) /\ RowsKeepRefunds(ts, us)
  /\ \/ h.status = "FUNDING" /\ ~ Complete(h, us)
     \/ h.status = "ACTIVE" /\ Complete(h, us)
     \/ h.status = "CANCELLED" /\ KeepsFunding(g, h) /\ RowsKeepFunding(ts, us)

(* Finalization.                                                           *)
Settled(a, g, h, ts, us) ==
  /\ g.status = "ACTIVE" /\ h.status = "FINALIZED"
  /\ KeepsTerms(g, h) /\ KeepsFunding(g, h) /\ KeepsClaims(g, h)
  /\ RowsKeepTerms(ts, us) /\ RowsKeepFunding(ts, us) /\ RowsKeepClaims(ts, us)
  /\ us = StoredRefunds(a)

(* The record k of claim c and the votes xs after the vote of a call, if   *)
(* it has one.                                                             *)
Votes(ts, vs, xs, c, old, k) ==
  \E w \in Wallets, support \in BOOLEAN :
    /\ ts[w].exists /\ vs[c][w] = 0
    /\ xs = [vs EXCEPT ![c] = [vs[c] EXCEPT ![w] = IF support THEN 1 ELSE 2]]
    /\ k = IF support THEN [old EXCEPT !.yesVotes = old.yesVotes + 1]
                      ELSE [old EXCEPT !.noVotes = old.noVotes + 1]
Tallied(ts, vs, xs, c, old, k) ==
  (k = old /\ xs = vs) \/ Votes(ts, vs, xs, c, old, k)

(* A new claim.                                                            *)
Submitted(g, h, ts, us, ks, ls) ==
  \E k \in Claim :
    /\ g.claimCount + 1 \in ClaimIds
    /\ k.status = "PENDING" /\ k.amount \in Nat /\ k.yesVotes = 0 /\ k.noVotes = 0
    /\ h = ReservesTotal(g, k.amount)
    /\ ls = Lists(ks, g.claimCount + 1, k)
    /\ \/ k.claimType = "SHARED" /\ k.liableTenant = NoWallet /\ us = ts
       \/ /\ k.claimType = "INDIVIDUAL" /\ k.liableTenant \in Wallets
          /\ us = Reserves(ts, k.liableTenant, k.amount)

(* A vote that leaves claim c pending.                                     *)
Undecided(g, h, ts, us, ks, ls, vs, xs, c) ==
  \E k \in Claim :
    /\ Votes(ts, vs, xs, c, ks[c], k) /\ ~ Approved(g, k) /\ ~ Hopeless(g, k)
    /\ h = g /\ us = ts /\ ls = Lists(ks, c, k)

(* Claim c rejected or withdrawn.                                          *)
Dismissed(g, h, ts, us, ks, ls, vs, xs, c) ==
  \E k \in Claim, status \in {"REJECTED", "WITHDRAWN"} :
    /\ Tallied(ts, vs, xs, c, ks[c], k)
    /\ status = "REJECTED" =>
         ~ Approved(g, k) /\ (Hopeless(g, k) \/ (k = ks[c] /\ now > g.settlementDeadline))
    /\ status = "WITHDRAWN" => k = ks[c]
    /\ h = DismissesTotal(g, k) /\ us = Releases(ts, k)
    /\ ls = Lists(ks, c, Resolved(k, status))

(* Claim c approved.                                                       *)
Granted(g, h, ts, us, ks, ls, vs, xs, c) ==
  \E k \in Claim :
    /\ Tallied(ts, vs, xs, c, ks[c], k) /\ Approved(g, k)
    /\ h = Approves(g, k) /\ us = Deducts(ts, k)
    /\ ls = Lists(ks, c, Resolved(k, "APPROVED"))

(* A step on the claims of an active agreement.                            *)
MovesClaim(g, h, ts, us, ks, ls, vs, xs) ==
  /\ g.status = "ACTIVE"
  /\ \/ Submitted(g, h, ts, us, ks, ls) /\ xs = vs
     \/ \E c \in ClaimIds :
          /\ ks[c].status = "PENDING"
          /\ \/ Undecided(g, h, ts, us, ks, ls, vs, xs, c)
             \/ Dismissed(g, h, ts, us, ks, ls, vs, xs, c)
             \/ Granted(g, h, ts, us, ks, ls, vs, xs, c)

(* createAgreement.                                                        *)
Opens(a) ==
  \E p \in Proposals :
    /\ Unused(a) /\ RosterValid(p) /\ AmountsValid(p)
    /\ agreements'[a] = NewAgreement(p) /\ tenants'[a] = RegisteredTenants(p)
    /\ agreementTenants'[a] = p.tenantAddresses

(* The kind of this step, for agreement a.                                 *)
StepKind(a) ==
  LET g == agreements[a] h == agreements'[a] ts == tenants[a] us == tenants'[a]
  IN  \/ Opens(a) /\ claims'[a] = claims[a] /\ votes'[a] = votes[a]
      \/ /\ agreementTenants'[a] = agreementTenants[a]
         /\ \/ /\ Idle(g, h, ts, us) \/ Collects(g, h, ts, us) \/ Settled(a, g, h, ts, us)
               /\ claims'[a] = claims[a] /\ votes'[a] = votes[a]
            \/ MovesClaim(g, h, ts, us, claims[a], claims'[a], votes[a], votes'[a])

-----------------------------------------------------------------------------
(* A call rewrites the records of one agreement and no others.             *)

Rewrites(a, h, us, ls, xs) ==
  /\ agreements' = [agreements EXCEPT ![a] = h]
  /\ tenants' = [tenants EXCEPT ![a] = us]
  /\ claims' = [claims EXCEPT ![a] = ls]
  /\ votes' = [votes EXCEPT ![a] = xs]
  /\ UNCHANGED agreementTenants

CallKind(a, h, us, ls, xs) ==
  LET g == agreements[a] ts == tenants[a]
  IN  \/ /\ Idle(g, h, ts, us) \/ Collects(g, h, ts, us) \/ Settled(a, g, h, ts, us)
         /\ ls = claims[a] /\ xs = votes[a]
      \/ MovesClaim(g, h, ts, us, claims[a], ls, votes[a], xs)

(* Where nothing changes the step is idle.                                 *)
LEMMA RestIsIdle == ASSUME NEW g, NEW ts PROVE Idle(g, g, ts, ts)
BY DEF Idle, KeepsTerms, KeepsFunding, KeepsClaims, RowsKeepTerms, RowsKeepFunding,
       RowsKeepClaims, RowsKeepRefunds

(* So the kind of a call on one agreement gives the kind for all of them.  *)
LEMMA KindEverywhere ==
  ASSUME TypeOK, NEW a \in AgreementIds, NEW h, NEW us, NEW ls, NEW xs,
         Rewrites(a, h, us, ls, xs), CallKind(a, h, us, ls, xs), NEW b \in AgreementIds
  PROVE  StepKind(b)
<1>1. /\ DOMAIN agreements = AgreementIds /\ DOMAIN tenants = AgreementIds
      /\ DOMAIN claims = AgreementIds /\ DOMAIN votes = AgreementIds
  BY DEF TypeOK
<1>2. CASE b = a
  <2>1. /\ agreements'[a] = h /\ tenants'[a] = us /\ claims'[a] = ls /\ votes'[a] = xs
        /\ agreementTenants'[a] = agreementTenants[a]
    BY <1>1 DEF Rewrites
  <2>2. \/ /\ \/ Idle(agreements[a], agreements'[a], tenants[a], tenants'[a])
              \/ Collects(agreements[a], agreements'[a], tenants[a], tenants'[a])
              \/ Settled(a, agreements[a], agreements'[a], tenants[a], tenants'[a])
           /\ claims'[a] = claims[a] /\ votes'[a] = votes[a]
        \/ MovesClaim(agreements[a], agreements'[a], tenants[a], tenants'[a], claims[a],
                      claims'[a], votes[a], votes'[a])
    BY <2>1 DEF CallKind
  <2> QED BY <1>2, <2>1, <2>2 DEF StepKind
<1>3. CASE b # a
  <2>1. /\ agreements'[b] = agreements[b] /\ tenants'[b] = tenants[b]
        /\ claims'[b] = claims[b] /\ votes'[b] = votes[b]
        /\ agreementTenants'[b] = agreementTenants[b]
    BY <1>1, <1>3 DEF Rewrites
  <2>2. Idle(agreements[b], agreements'[b], tenants[b], tenants'[b])
    BY <2>1, RestIsIdle
  <2> QED BY <2>1, <2>2 DEF StepKind
<1> QED BY <1>2, <1>3

(* What a proof about one call starts from.                                *)
LEMMA RowsTyped ==
  ASSUME TypeOK, NEW a \in AgreementIds
  PROVE  /\ agreements[a] \in Agreement /\ tenants[a] \in [Wallets -> Tenant]
         /\ claims[a] \in [ClaimIds -> Claim]
         /\ votes[a] \in [ClaimIds -> [Wallets -> 0 .. 2]]
         /\ agreements = [agreements EXCEPT ![a] = agreements[a]]
         /\ tenants = [tenants EXCEPT ![a] = tenants[a]]
         /\ claims = [claims EXCEPT ![a] = claims[a]]
         /\ votes = [votes EXCEPT ![a] = votes[a]]
BY DEF TypeOK

-----------------------------------------------------------------------------
(* Acceptance and funding                                                  *)

(* The test the code makes over the tenant list is Complete.               *)
LEMMA ReadyIsComplete ==
  ASSUME NEW g, NEW list, NEW ts \in [Wallets -> Tenant], ListSound(list, ts),
         \A i \in DOMAIN list : list[i] \in Wallets
  PROVE  Ready(g, list, ts) <=> Complete(g, ts)
<1>1. ASSUME Ready(g, list, ts), NEW w \in Wallets, ts[w].exists
      PROVE  ts[w].accepted /\ ts[w].fundedAmount = ts[w].requiredAmount
  <2>1. PICK i \in DOMAIN list : list[i] = w
    BY <1>1 DEF ListSound
  <2> QED BY <1>1, <2>1 DEF Ready
<1>2. ASSUME Complete(g, ts), NEW i \in DOMAIN list
      PROVE  ts[list[i]].accepted /\ ts[list[i]].fundedAmount = ts[list[i]].requiredAmount
  BY <1>2 DEF Complete, ListSound
<1> QED BY <1>1, <1>2 DEF Ready, Complete

(* The records that the check for activation leaves.                       *)
LEMMA ActivationKind ==
  ASSUME NEW g \in Agreement, NEW r \in Agreement, NEW list, NEW ts \in [Wallets -> Tenant],
         NEW us \in [Wallets -> Tenant],
         g.status = "FUNDING", r.status = "FUNDING", KeepsTerms(g, r), KeepsClaims(g, r),
         RowsKeepTerms(ts, us), RowsKeepClaims(ts, us), RowsKeepRefunds(ts, us),
         ListSound(list, ts), \A i \in DOMAIN list : list[i] \in Wallets
  PROVE  Collects(g, CheckAndActivate(r, list, us), ts, us)
<1>1. ListSound(list, us)
  BY DEF ListSound, RowsKeepTerms
<1>2. Ready(r, list, us) <=> Complete(r, us)
  BY <1>1, ReadyIsComplete
<1>3. CASE ~ Ready(r, list, us)
  BY <1>2, <1>3 DEF CheckAndActivate, Collects
<1>4. CASE Ready(r, list, us)
  <2> DEFINE h == [r EXCEPT !.status = "ACTIVE"]
  <2>1. /\ h.status = "ACTIVE" /\ h.recipientAccepted = r.recipientAccepted
        /\ KeepsTerms(r, h) /\ KeepsClaims(r, h)
    BY DEF Agreement, KeepsTerms, KeepsClaims
  <2>2. CheckAndActivate(r, list, us) = h
    BY <1>4 DEF CheckAndActivate
  <2> HIDE DEF h
  <2>3. Complete(h, us) /\ KeepsTerms(g, h) /\ KeepsClaims(g, h)
    BY <1>2, <1>4, <2>1 DEF Complete, KeepsTerms, KeepsClaims
  <2> QED BY <2>1, <2>2, <2>3 DEF Collects
<1> QED BY <1>3, <1>4

(* The tenant list holds wallets.                                          *)
LEMMA ListedWallets ==
  ASSUME EscrowInv, NEW a \in AgreementIds
  PROVE  /\ ListSound(agreementTenants[a], tenants[a])
         /\ \A i \in DOMAIN agreementTenants[a] : agreementTenants[a][i] \in Wallets
<1>1. agreementTenants[a] \in Seq(Wallets)
  BY DEF EscrowInv, TypeOK
<1>2. ListSound(agreementTenants[a], tenants[a])
  BY AgreementSound DEF Sound
<1> QED BY <1>1, <1>2

(* acceptAsTenant.                                                         *)
LEMMA AcceptKind ==
  ASSUME EscrowInv, NEW a \in AgreementIds, NEW sender \in Wallets, NEW hash,
         AcceptAsTenant(a, sender, hash), NEW b \in AgreementIds
  PROVE  StepKind(b)
<1>1. PICK g, list, ts : /\ g = agreements[a] /\ list = agreementTenants[a] /\ ts = tenants[a]
  OBVIOUS
<1>2. TypeOK /\ g \in Agreement /\ ts \in [Wallets -> Tenant]
  BY <1>1, RowsTyped DEF EscrowInv
<1> DEFINE us == [ts EXCEPT ![sender].accepted = TRUE]
<1>3. /\ us \in [Wallets -> Tenant]
      /\ RowsKeepTerms(ts, us) /\ RowsKeepClaims(ts, us) /\ RowsKeepRefunds(ts, us)
  <2>1. ts[sender] \in Tenant /\ [ts[sender] EXCEPT !.accepted = TRUE] \in Tenant
    BY <1>2, TenantFlags
  <2> QED BY <1>2, <2>1 DEF Tenant, RowsKeepTerms, RowsKeepClaims, RowsKeepRefunds
<1>4. g.status = "FUNDING" /\ KeepsTerms(g, g) /\ KeepsClaims(g, g)
  BY <1>1 DEF AcceptAsTenant, TenantMayAccept, FundingOpen, KeepsTerms, KeepsClaims
<1> DEFINE h == CheckAndActivate(g, list, us)
<1>5. Rewrites(a, h, us, claims[a], votes[a])
  BY <1>1, <1>2, RowsTyped DEF AcceptAsTenant, Rewrites
<1> HIDE DEF us
<1>6. Collects(g, h, ts, us)
  BY <1>1, <1>2, <1>3, <1>4, ListedWallets, ActivationKind
<1> HIDE DEF h
<1> QED BY <1>1, <1>2, <1>5, <1>6, KindEverywhere DEF CallKind

(* acceptAsRecipient.                                                      *)
LEMMA AcceptRecipientKind ==
  ASSUME EscrowInv, NEW a \in AgreementIds, NEW sender \in Wallets, NEW hash,
         AcceptAsRecipient(a, sender, hash), NEW b \in AgreementIds
  PROVE  StepKind(b)
<1>1. PICK g, list, ts : /\ g = agreements[a] /\ list = agreementTenants[a] /\ ts = tenants[a]
  OBVIOUS
<1>2. TypeOK /\ g \in Agreement /\ ts \in [Wallets -> Tenant]
  BY <1>1, RowsTyped DEF EscrowInv
<1> DEFINE r == [g EXCEPT !.recipientAccepted = TRUE]
<1>3. /\ r \in Agreement /\ r.status = g.status /\ KeepsTerms(g, r) /\ KeepsClaims(g, r)
  BY <1>2 DEF Agreement, KeepsTerms, KeepsClaims
<1>4. /\ g.status = "FUNDING"
      /\ RowsKeepTerms(ts, ts) /\ RowsKeepClaims(ts, ts) /\ RowsKeepRefunds(ts, ts)
  BY <1>1 DEF AcceptAsRecipient, RecipientMayAccept, FundingOpen, RowsKeepTerms, RowsKeepClaims, RowsKeepRefunds
<1> DEFINE h == CheckAndActivate(r, list, ts)
<1>5. Rewrites(a, h, ts, claims[a], votes[a])
  <2>1. agreements' = [agreements EXCEPT ![a] = h]
    BY <1>1 DEF AcceptAsRecipient
  <2>2. UNCHANGED <<agreementTenants, tenants, claims, votes>>
    BY DEF AcceptAsRecipient
  <2> HIDE DEF h
  <2> QED BY <1>1, <1>2, <2>1, <2>2, RowsTyped DEF Rewrites
<1> HIDE DEF r
<1>6. Collects(g, h, ts, ts)
  BY <1>1, <1>2, <1>3, <1>4, ListedWallets, ActivationKind
<1> HIDE DEF h
<1> QED BY <1>1, <1>2, <1>5, <1>6, KindEverywhere DEF CallKind

(* What a tenant put in changes, and the total with it.                    *)
LEMMA FundingRows ==
  ASSUME NEW g \in Agreement, NEW ts \in [Wallets -> Tenant], NEW w \in Wallets, NEW x \in Int
  PROVE  LET r == FundsTotal(g, x) us == FundsTenant(ts, w, x)
         IN  /\ r \in Agreement /\ r.status = g.status /\ KeepsTerms(g, r) /\ KeepsClaims(g, r)
             /\ us \in [Wallets -> Tenant]
             /\ RowsKeepTerms(ts, us) /\ RowsKeepClaims(ts, us) /\ RowsKeepRefunds(ts, us)
             /\ us[w].fundedAmount = ts[w].fundedAmount + x
<1> DEFINE r == FundsTotal(g, x)
           us == FundsTenant(ts, w, x)
<1>1. r \in Agreement /\ r.status = g.status /\ KeepsTerms(g, r) /\ KeepsClaims(g, r)
  <2>1. g.totalFunded \in Int
    BY AgreementFields
  <2>0. g.totalFunded + x \in Int
    BY <2>1
  <2>2. \A y \in Int : LET q == [g EXCEPT !.totalFunded = y]
                     IN  q.status = g.status /\ KeepsTerms(g, q) /\ KeepsClaims(g, q)
    BY DEF Agreement, KeepsTerms, KeepsClaims
  <2> QED BY <2>0, <2>2, AgreementFields DEF FundsTotal
<1>2. ts[w] \in Tenant /\ ts[w].fundedAmount + x \in Int
  BY DEF Tenant
<1>3. \A y \in Int : LET t == [ts[w] EXCEPT !.fundedAmount = y]
                   IN  /\ t \in Tenant /\ t.fundedAmount = y
                       /\ t.exists = ts[w].exists /\ t.requiredAmount = ts[w].requiredAmount
                       /\ t.openIndividualClaimAmount = ts[w].openIndividualClaimAmount
                       /\ t.approvedIndividualClaims = ts[w].approvedIndividualClaims
                       /\ t.refundAmount = ts[w].refundAmount
  BY <1>2 DEF Tenant
<1>0. PICK y \in Int : y = ts[w].fundedAmount + x
  BY <1>2
<1>8. PICK t : t = [ts[w] EXCEPT !.fundedAmount = y]
  OBVIOUS
<1>4. /\ t \in Tenant /\ t.fundedAmount = y
      /\ t.exists = ts[w].exists /\ t.requiredAmount = ts[w].requiredAmount
      /\ t.openIndividualClaimAmount = ts[w].openIndividualClaimAmount
      /\ t.approvedIndividualClaims = ts[w].approvedIndividualClaims
      /\ t.refundAmount = ts[w].refundAmount
  BY <1>3, <1>8
<1>5. us = [ts EXCEPT ![w] = t]
  BY <1>0, <1>8 DEF FundsTenant
<1>6. us \in [Wallets -> Tenant] /\ us[w] = t /\ \A v \in Wallets \ {w} : us[v] = ts[v]
  BY <1>4, <1>5
<1> HIDE DEF us
<1>7. RowsKeepTerms(ts, us) /\ RowsKeepClaims(ts, us) /\ RowsKeepRefunds(ts, us)
  BY <1>4, <1>6 DEF RowsKeepTerms, RowsKeepClaims, RowsKeepRefunds
<1> QED BY <1>0, <1>1, <1>4, <1>6, <1>7 DEF us

(* deposit.                                                                *)
LEMMA DepositKind ==
  ASSUME EscrowInv, NEW a \in AgreementIds, NEW sender \in Wallets,
         NEW x \in Uint128, Deposit(a, sender, x), NEW b \in AgreementIds
  PROVE  StepKind(b)
<1>1. PICK g, list, ts : /\ g = agreements[a] /\ list = agreementTenants[a] /\ ts = tenants[a]
  OBVIOUS
<1>2. TypeOK /\ g \in Agreement /\ ts \in [Wallets -> Tenant] /\ x \in Int
  BY <1>1, RowsTyped, ConstantsAssumption DEF EscrowInv, Uint128
<1> DEFINE r == FundsTotal(g, x)
           us == FundsTenant(ts, sender, x)
<1>3. /\ r \in Agreement /\ r.status = g.status /\ KeepsTerms(g, r) /\ KeepsClaims(g, r)
      /\ us \in [Wallets -> Tenant]
      /\ RowsKeepTerms(ts, us) /\ RowsKeepClaims(ts, us) /\ RowsKeepRefunds(ts, us)
  BY <1>2, FundingRows
<1>4. g.status = "FUNDING"
  BY <1>1 DEF Deposit, MayDeposit, FundingOpen
<1> DEFINE h == CheckAndActivate(r, list, us)
<1>5. Rewrites(a, h, us, claims[a], votes[a])
  <2>1. r = [g EXCEPT !.totalFunded = g.totalFunded + x]
    BY DEF FundsTotal
  <2>2. us = [ts EXCEPT ![sender].fundedAmount = @ + x]
    BY DEF FundsTenant
  <2> HIDE DEF r, us
  <2>3. tenants' = [tenants EXCEPT ![a] = us]
    BY <1>1, <2>2 DEF Deposit
  <2>4. agreements' = [agreements EXCEPT ![a] = h]
    BY <1>1, <2>1, <2>2 DEF Deposit
  <2>5. UNCHANGED <<agreementTenants, claims, votes>>
    BY DEF Deposit
  <2> HIDE DEF h
  <2> QED BY <1>2, <2>3, <2>4, <2>5, RowsTyped DEF Rewrites
<1> HIDE DEF r, us
<1>6. Collects(g, h, ts, us)
  BY <1>1, <1>2, <1>3, <1>4, ListedWallets, ActivationKind
<1> HIDE DEF h
<1> QED BY <1>1, <1>2, <1>5, <1>6, KindEverywhere DEF CallKind

(* withdrawFundingBeforeActivation: who took money out is not all in.      *)
LEMMA WithdrawFundingKind ==
  ASSUME EscrowInv, NEW a \in AgreementIds, NEW sender \in Wallets,
         NEW x \in Uint128, PaysFunding(a, sender, x), NEW b \in AgreementIds
  PROVE  StepKind(b)
<1>1. PICK g, ts, d : g = agreements[a] /\ ts = tenants[a] /\ d = 0 - x
  OBVIOUS
<1>2. TypeOK /\ g \in Agreement /\ ts \in [Wallets -> Tenant] /\ x \in Nat /\ d \in Int
  BY <1>1, RowsTyped, ConstantsAssumption DEF EscrowInv, Uint128
<1> DEFINE h == FundsTotal(g, d)
           us == FundsTenant(ts, sender, d)
<1>3. /\ h \in Agreement /\ h.status = g.status /\ KeepsTerms(g, h) /\ KeepsClaims(g, h)
      /\ us \in [Wallets -> Tenant]
      /\ RowsKeepTerms(ts, us) /\ RowsKeepClaims(ts, us) /\ RowsKeepRefunds(ts, us)
      /\ us[sender].fundedAmount = ts[sender].fundedAmount + d
  BY <1>2, FundingRows
<1>4. g.status = "FUNDING" /\ ts[sender].exists /\ x # 0
  BY <1>1 DEF PaysFunding, WithdrawFundingEffects, MayWithdrawFunding
<1>5. Rewrites(a, h, us, claims[a], votes[a])
  <2>1. h = [g EXCEPT !.totalFunded = g.totalFunded - x]
    <3>1. g.totalFunded \in Int
      BY <1>2, AgreementFields
    <3>2. g.totalFunded + d = g.totalFunded - x
      BY <1>1, <1>2, <3>1
    <3> QED BY <3>2 DEF FundsTotal
  <2>2. us = [ts EXCEPT ![sender].fundedAmount = @ - x]
    <3>1. ts[sender].fundedAmount \in Int
      BY <1>2 DEF Tenant
    <3>2. ts[sender].fundedAmount + d = ts[sender].fundedAmount - x
      BY <1>1, <1>2, <3>1
    <3> QED BY <3>2 DEF FundsTenant
  <2> HIDE DEF h, us
  <2>3. tenants' = [tenants EXCEPT ![a] = us]
    BY <1>1, <2>2 DEF PaysFunding, WithdrawFundingEffects
  <2>4. agreements' = [agreements EXCEPT ![a] = h]
    BY <1>1, <2>1 DEF PaysFunding, WithdrawFundingEffects
  <2>5. UNCHANGED <<agreementTenants, claims, votes>>
    BY DEF PaysFunding, WithdrawFundingEffects
  <2> QED BY <1>2, <2>3, <2>4, <2>5, RowsTyped DEF Rewrites
<1> HIDE DEF h, us
<1>6. ~ Complete(h, us)
  <2>1. TenantSound(g.status, ts[sender])
    BY <1>1, AgreementSound DEF Sound
  <2>2. ts[sender].fundedAmount \in Int /\ ts[sender].requiredAmount \in Int
    BY <1>2 DEF Tenant
  <2>3. us[sender].fundedAmount # us[sender].requiredAmount
    BY <1>1, <1>2, <1>3, <1>4, <2>1, <2>2 DEF TenantSound, RowsKeepTerms
  <2>4. us[sender].exists
    BY <1>3, <1>4 DEF RowsKeepTerms
  <2> QED BY <2>3, <2>4 DEF Complete
<1>7. Collects(g, h, ts, us)
  BY <1>3, <1>4, <1>6 DEF Collects
<1> QED BY <1>1, <1>2, <1>5, <1>7, KindEverywhere DEF CallKind

(* cancelExpiredFunding.                                                   *)
LEMMA CancelKind ==
  ASSUME EscrowInv, NEW a \in AgreementIds, NEW sender \in Wallets,
         CancelExpiredFunding(a, sender), NEW b \in AgreementIds
  PROVE  StepKind(b)
<1>1. PICK g, ts : g = agreements[a] /\ ts = tenants[a]
  OBVIOUS
<1>2. TypeOK /\ g \in Agreement /\ ts \in [Wallets -> Tenant]
  BY <1>1, RowsTyped DEF EscrowInv
<1> DEFINE h == [g EXCEPT !.status = "CANCELLED"]
<1>3. /\ h.status = "CANCELLED"
      /\ KeepsTerms(g, h) /\ KeepsFunding(g, h) /\ KeepsClaims(g, h)
  BY <1>2 DEF Agreement, KeepsTerms, KeepsFunding, KeepsClaims
<1>4. /\ RowsKeepTerms(ts, ts) /\ RowsKeepFunding(ts, ts)
      /\ RowsKeepClaims(ts, ts) /\ RowsKeepRefunds(ts, ts)
  BY RestIsIdle DEF Idle
<1>5. Rewrites(a, h, ts, claims[a], votes[a]) /\ g.status = "FUNDING"
  <2>1. agreements' = [agreements EXCEPT ![a] = h] /\ g.status = "FUNDING"
    BY <1>1 DEF CancelExpiredFunding
  <2>2. UNCHANGED <<agreementTenants, tenants, claims, votes>>
    BY DEF CancelExpiredFunding
  <2> HIDE DEF h
  <2> QED BY <1>1, <1>2, <2>1, <2>2, RowsTyped DEF Rewrites
<1> HIDE DEF h
<1>6. Collects(g, h, ts, ts)
  BY <1>3, <1>4, <1>5 DEF Collects
<1> QED BY <1>1, <1>2, <1>5, <1>6, KindEverywhere DEF CallKind

-----------------------------------------------------------------------------
(* The withdrawals that only set a flag                                    *)

(* A tenant's record with its flags set.                                   *)
LEMMA FlaggedRows ==
  ASSUME NEW ts \in [Wallets -> Tenant], NEW w \in Wallets, NEW x \in Int
  PROVE  LET us == [ts EXCEPT ![w] = [ts[w] EXCEPT !.refundWithdrawn = TRUE]]
             vs == [ts EXCEPT ![w] = [ts[w] EXCEPT !.cancelledFundingWithdrawn = TRUE,
                                                   !.cancelledFundingWithdrawnAmount = x]]
         IN  /\ RowsKeepTerms(ts, us) /\ RowsKeepFunding(ts, us)
             /\ RowsKeepClaims(ts, us) /\ RowsKeepRefunds(ts, us)
             /\ RowsKeepTerms(ts, vs) /\ RowsKeepFunding(ts, vs)
             /\ RowsKeepClaims(ts, vs) /\ RowsKeepRefunds(ts, vs)
<1>1. ts[w] \in Tenant
  OBVIOUS
<1>2. PICK t : t = [ts[w] EXCEPT !.refundWithdrawn = TRUE]
  OBVIOUS
<1>3. PICK u : u = [ts[w] EXCEPT !.cancelledFundingWithdrawn = TRUE,
                                 !.cancelledFundingWithdrawnAmount = x]
  OBVIOUS
<1>4. \A v \in {t, u} :
        /\ v.exists = ts[w].exists /\ v.requiredAmount = ts[w].requiredAmount
        /\ v.accepted = ts[w].accepted /\ v.fundedAmount = ts[w].fundedAmount
        /\ v.openIndividualClaimAmount = ts[w].openIndividualClaimAmount
        /\ v.approvedIndividualClaims = ts[w].approvedIndividualClaims
        /\ v.refundAmount = ts[w].refundAmount
  BY <1>1, <1>2, <1>3 DEF Tenant
<1>5. ASSUME NEW v \in {t, u}, NEW us, us = [ts EXCEPT ![w] = v]
      PROVE  /\ RowsKeepTerms(ts, us) /\ RowsKeepFunding(ts, us)
             /\ RowsKeepClaims(ts, us) /\ RowsKeepRefunds(ts, us)
  <2>1. us[w] = v /\ \A y \in Wallets \ {w} : us[y] = ts[y]
    BY <1>5
  <2> QED BY <1>4, <2>1
          DEF RowsKeepTerms, RowsKeepFunding, RowsKeepClaims, RowsKeepRefunds
<1> QED BY <1>2, <1>3, <1>5

(* withdrawCancelledFunding.                                               *)
LEMMA WithdrawCancelledKind ==
  ASSUME EscrowInv, NEW a \in AgreementIds, NEW sender \in Wallets,
         PaysCancelled(a, sender), NEW b \in AgreementIds
  PROVE  StepKind(b)
<1>1. PICK g, ts, x : g = agreements[a] /\ ts = tenants[a] /\ x = ts[sender].fundedAmount
  OBVIOUS
<1>2. /\ TypeOK /\ g \in Agreement /\ ts \in [Wallets -> Tenant]
      /\ x \in Int /\ g.totalCancelledFundingWithdrawn + x \in Int
  <2>1. TypeOK /\ g \in Agreement /\ ts \in [Wallets -> Tenant]
    BY <1>1, RowsTyped DEF EscrowInv
  <2>2. x \in Int /\ g.totalCancelledFundingWithdrawn \in Int
    BY <1>1, <2>1, AgreementFields DEF Tenant
  <2> QED BY <2>1, <2>2
<1> DEFINE h == [g EXCEPT !.totalCancelledFundingWithdrawn = @ + x]
           us == [ts EXCEPT ![sender] = [ts[sender] EXCEPT
                                           !.cancelledFundingWithdrawn = TRUE,
                                           !.cancelledFundingWithdrawnAmount = x]]
<1>3. /\ h.status = g.status
      /\ KeepsTerms(g, h) /\ KeepsFunding(g, h) /\ KeepsClaims(g, h)
  BY <1>2 DEF Agreement, KeepsTerms, KeepsFunding, KeepsClaims
<1>4. /\ RowsKeepTerms(ts, us) /\ RowsKeepFunding(ts, us)
      /\ RowsKeepClaims(ts, us) /\ RowsKeepRefunds(ts, us)
  BY <1>2, FlaggedRows
<1>5. Rewrites(a, h, us, claims[a], votes[a])
  <2>1. agreements' = [agreements EXCEPT ![a] = h]
    BY <1>1 DEF PaysCancelled, WithdrawCancelledEffects
  <2>2. tenants' = [tenants EXCEPT ![a] = us]
    BY <1>1 DEF PaysCancelled, WithdrawCancelledEffects
  <2>3. UNCHANGED <<agreementTenants, claims, votes>>
    BY DEF PaysCancelled, WithdrawCancelledEffects
  <2> HIDE DEF h, us
  <2> QED BY <1>2, <2>1, <2>2, <2>3, RowsTyped DEF Rewrites
<1> HIDE DEF h, us
<1>6. Idle(g, h, ts, us)
  BY <1>3, <1>4 DEF Idle
<1> QED BY <1>1, <1>2, <1>5, <1>6, KindEverywhere DEF CallKind

(* withdrawTenantRefund.                                                   *)
LEMMA WithdrawRefundKind ==
  ASSUME EscrowInv, NEW a \in AgreementIds, NEW sender \in Wallets,
         PaysRefund(a, sender), NEW b \in AgreementIds
  PROVE  StepKind(b)
<1>1. PICK g, ts : g = agreements[a] /\ ts = tenants[a]
  OBVIOUS
<1>2. TypeOK /\ ts \in [Wallets -> Tenant]
  BY <1>1, RowsTyped DEF EscrowInv
<1> DEFINE us == [ts EXCEPT ![sender] = [ts[sender] EXCEPT !.refundWithdrawn = TRUE]]
<1>3. /\ RowsKeepTerms(ts, us) /\ RowsKeepFunding(ts, us)
      /\ RowsKeepClaims(ts, us) /\ RowsKeepRefunds(ts, us)
  <2>1. 0 \in Int
    OBVIOUS
  <2> QED BY <1>2, <2>1, FlaggedRows
<1>4. Rewrites(a, g, us, claims[a], votes[a])
  <2>1. tenants' = [tenants EXCEPT ![a] = us]
    BY <1>1 DEF PaysRefund, WithdrawRefundEffects
  <2>2. UNCHANGED <<agreements, agreementTenants, claims, votes>>
    BY DEF PaysRefund, WithdrawRefundEffects
  <2> HIDE DEF us
  <2> QED BY <1>1, <1>2, <2>1, <2>2, RowsTyped DEF Rewrites
<1> HIDE DEF us
<1>5. Idle(g, g, ts, us)
  BY <1>3, RestIsIdle DEF Idle
<1> QED BY <1>1, <1>2, <1>4, <1>5, KindEverywhere DEF CallKind

(* withdrawRecipientPayout.                                                *)
LEMMA WithdrawPayoutKind ==
  ASSUME EscrowInv, NEW a \in AgreementIds, NEW sender \in Wallets,
         PaysPayout(a, sender), NEW b \in AgreementIds
  PROVE  StepKind(b)
<1>1. PICK g, ts : g = agreements[a] /\ ts = tenants[a]
  OBVIOUS
<1>2. TypeOK /\ g \in Agreement
  BY <1>1, RowsTyped DEF EscrowInv
<1> DEFINE h == [g EXCEPT !.recipientPayoutWithdrawn = TRUE]
<1>3. /\ h.status = g.status
      /\ KeepsTerms(g, h) /\ KeepsFunding(g, h) /\ KeepsClaims(g, h)
  BY <1>2 DEF Agreement, KeepsTerms, KeepsFunding, KeepsClaims
<1>4. Rewrites(a, h, ts, claims[a], votes[a])
  <2>1. agreements' = [agreements EXCEPT ![a] = h]
    BY <1>1 DEF PaysPayout, WithdrawPayoutEffects
  <2>2. UNCHANGED <<tenants, agreementTenants, claims, votes>>
    BY DEF PaysPayout, WithdrawPayoutEffects
  <2> HIDE DEF h
  <2> QED BY <1>1, <1>2, <2>1, <2>2, RowsTyped DEF Rewrites
<1> HIDE DEF h
<1>5. Idle(g, h, ts, ts)
  BY <1>3, RestIsIdle DEF Idle
<1> QED BY <1>1, <1>2, <1>4, <1>5, KindEverywhere DEF CallKind

-----------------------------------------------------------------------------
(* Creation, claims and finalization                                       *)

(* createAgreement.                                                        *)
LEMMA CreateKind ==
  ASSUME EscrowInv, NEW p \in Proposals, CreateAgreement(p), NEW b \in AgreementIds
  PROVE  StepKind(b)
<1> DEFINE a == nextAgreementId
<1>1. /\ a \in AgreementIds /\ RosterValid(p) /\ AmountsValid(p)
      /\ agreements' = [agreements EXCEPT ![a] = NewAgreement(p)]
      /\ agreementTenants' = [agreementTenants EXCEPT ![a] = p.tenantAddresses]
      /\ tenants' = [tenants EXCEPT ![a] = RegisteredTenants(p)]
      /\ UNCHANGED <<claims, votes>>
  BY DEF CreateAgreement, Creatable
<1>2. /\ DOMAIN agreements = AgreementIds /\ DOMAIN agreementTenants = AgreementIds
      /\ DOMAIN tenants = AgreementIds
  BY DEF EscrowInv, TypeOK
<1>3. Unused(a)
  <2>1. a \in Int /\ a >= a
    BY <1>1 DEF AgreementIds
  <2> QED BY <1>1, <2>1 DEF EscrowInv
<1>4. CASE b = a
  <2>1. /\ agreements'[b] = NewAgreement(p) /\ tenants'[b] = RegisteredTenants(p)
        /\ agreementTenants'[b] = p.tenantAddresses
        /\ claims'[b] = claims[b] /\ votes'[b] = votes[b]
    BY <1>1, <1>2, <1>4
  <2> QED BY <1>1, <1>3, <1>4, <2>1 DEF StepKind, Opens
<1>5. CASE b # a
  <2>1. /\ agreements'[b] = agreements[b] /\ tenants'[b] = tenants[b]
        /\ claims'[b] = claims[b] /\ votes'[b] = votes[b]
        /\ agreementTenants'[b] = agreementTenants[b]
    BY <1>1, <1>2, <1>5
  <2>2. Idle(agreements[b], agreements'[b], tenants[b], tenants'[b])
    BY <2>1, RestIsIdle
  <2> QED BY <2>1, <2>2 DEF StepKind
<1> QED BY <1>4, <1>5

(* submitClaim.                                                            *)
LEMMA SubmitKind ==
  ASSUME EscrowInv, NEW a \in AgreementIds, NEW sender \in Wallets,
         NEW type \in ClaimType, NEW liable \in Wallets \cup {NoWallet}, NEW x \in Uint128,
         NEW reason, NEW evidence,
         SubmitClaim(a, sender, type, liable, x, reason, evidence), NEW b \in AgreementIds
  PROVE  StepKind(b)
<1>1. PICK g, ts, ks : g = agreements[a] /\ ts = tenants[a] /\ ks = claims[a]
  OBVIOUS
<1>2. /\ TypeOK /\ g \in Agreement /\ ts \in [Wallets -> Tenant] /\ x \in Nat
      /\ ks \in [ClaimIds -> Claim]
  BY <1>1, RowsTyped, ConstantsAssumption DEF EscrowInv, Uint128
<1> DEFINE c == g.claimCount + 1
           k == [BlankClaim EXCEPT !.liableTenant = liable, !.amount = x,
                                   !.claimType = type, !.status = "PENDING"]
<1>3. /\ k \in Claim /\ k.status = "PENDING" /\ k.amount = x /\ k.claimType = type
      /\ k.liableTenant = liable /\ k.yesVotes = 0 /\ k.noVotes = 0
  <2>1. x \in Int
    BY <1>2
  <2> QED BY <2>1 DEF BlankClaim, Claim, ClaimStatus, ClaimType
<1>4. g.status = "ACTIVE" /\ c \in ClaimIds
  <2>1. g.claimCount \in 0 .. MAX_CLAIMS /\ g.claimCount < MAX_CLAIMS /\ g.status = "ACTIVE"
    BY <1>1, <1>2 DEF SubmitClaim, HasClaimIdsLeft, Agreement
  <2> QED BY <2>1, ConstantsAssumption DEF ClaimIds
<1> DEFINE h == ReservesTotal(g, x)
           ls == Lists(ks, c, k)
<1>5. /\ agreements' = [agreements EXCEPT ![a] = h]
      /\ claims' = [claims EXCEPT ![a] = ls]
      /\ UNCHANGED <<agreementTenants, votes>>
  BY <1>1 DEF SubmitClaim, ReservesTotal, Lists
<1> HIDE DEF k, c
<1>6. CASE type = "SHARED" /\ liable = NoWallet /\ UNCHANGED tenants
  <2>1. Submitted(g, h, ts, ts, ks, ls)
    BY <1>2, <1>3, <1>4, <1>6 DEF Submitted, c
  <2> HIDE DEF h, ls
  <2>2. Rewrites(a, h, ts, ls, votes[a])
    BY <1>1, <1>2, <1>5, <1>6, RowsTyped DEF Rewrites
  <2>3. CallKind(a, h, ts, ls, votes[a])
    BY <1>1, <1>4, <2>1 DEF CallKind, MovesClaim
  <2> QED BY <1>2, <2>2, <2>3, KindEverywhere
<1>7. CASE /\ type = "INDIVIDUAL" /\ liable # NoWallet
           /\ tenants' = [tenants EXCEPT ![a][liable].openIndividualClaimAmount = @ + x]
  <2> DEFINE us == Reserves(ts, liable, x)
  <2>1. Submitted(g, h, ts, us, ks, ls)
    BY <1>2, <1>3, <1>4, <1>7 DEF Submitted, c
  <2>2. tenants' = [tenants EXCEPT ![a] = us]
    BY <1>1, <1>7 DEF Reserves
  <2> HIDE DEF h, ls, us
  <2>3. Rewrites(a, h, us, ls, votes[a])
    BY <1>1, <1>2, <1>5, <2>2, RowsTyped DEF Rewrites
  <2>4. CallKind(a, h, us, ls, votes[a])
    BY <1>1, <1>4, <2>1 DEF CallKind, MovesClaim
  <2> QED BY <1>2, <2>3, <2>4, KindEverywhere
<1> QED BY <1>6, <1>7 DEF SubmitClaim

(* A claim leaves PENDING unapproved, with the vote of this call or not.   *)
LEMMA DismissKind ==
  ASSUME EscrowInv, NEW a \in AgreementIds, NEW c \in ClaimIds, NEW k \in Claim,
         NEW status \in {"REJECTED", "WITHDRAWN"}, NEW xs,
         agreements[a].status = "ACTIVE", claims[a][c].status = "PENDING",
         Tallied(tenants[a], votes[a], xs, c, claims[a][c], k),
         status = "REJECTED" =>
           /\ ~ Approved(agreements[a], k)
           /\ \/ Hopeless(agreements[a], k)
              \/ k = claims[a][c] /\ now > agreements[a].settlementDeadline,
         status = "WITHDRAWN" => k = claims[a][c],
         Dismiss(a, c, k, status),
         UNCHANGED agreementTenants, votes' = [votes EXCEPT ![a] = xs],
         NEW b \in AgreementIds
  PROVE  StepKind(b)
<1>1. PICK g, ts, ks : g = agreements[a] /\ ts = tenants[a] /\ ks = claims[a]
  OBVIOUS
<1>2. TypeOK
  BY DEF EscrowInv
<1> DEFINE h == DismissesTotal(g, k)
           us == Releases(ts, k)
           ls == Lists(ks, c, Resolved(k, status))
<1>3. Dismissed(g, h, ts, us, ks, ls, votes[a], xs, c)
  BY <1>1 DEF Dismissed
<1>4. /\ agreements' = [agreements EXCEPT ![a] = h]
      /\ tenants' = [tenants EXCEPT ![a] = us]
      /\ claims' = [claims EXCEPT ![a] = ls]
  BY <1>1 DEF Dismiss, DismissesTotal, Lists, Resolved
<1> HIDE DEF h, us, ls
<1>5. Rewrites(a, h, us, ls, xs)
  BY <1>4 DEF Rewrites
<1>6. CallKind(a, h, us, ls, xs)
  BY <1>1, <1>3 DEF CallKind, MovesClaim
<1> QED BY <1>2, <1>5, <1>6, KindEverywhere

(* A claim is approved, with the vote of this call or not.                 *)
LEMMA ApproveKind ==
  ASSUME EscrowInv, NEW a \in AgreementIds, NEW c \in ClaimIds, NEW k \in Claim, NEW xs,
         agreements[a].status = "ACTIVE", claims[a][c].status = "PENDING",
         Tallied(tenants[a], votes[a], xs, c, claims[a][c], k),
         Approved(agreements[a], k), ApproveClaim(a, c, k),
         UNCHANGED agreementTenants, votes' = [votes EXCEPT ![a] = xs],
         NEW b \in AgreementIds
  PROVE  StepKind(b)
<1>1. PICK g, ts, ks : g = agreements[a] /\ ts = tenants[a] /\ ks = claims[a]
  OBVIOUS
<1>2. TypeOK
  BY DEF EscrowInv
<1> DEFINE h == Approves(g, k)
           us == Deducts(ts, k)
           ls == Lists(ks, c, Resolved(k, "APPROVED"))
<1>3. Granted(g, h, ts, us, ks, ls, votes[a], xs, c)
  BY <1>1 DEF Granted
<1>4. /\ agreements' = [agreements EXCEPT ![a] = h]
      /\ claims' = [claims EXCEPT ![a] = ls]
  BY <1>1 DEF ApproveClaim, Lists, Resolved
<1>5. tenants' = [tenants EXCEPT ![a] = us]
  <2>1. CASE k.claimType = "INDIVIDUAL"
    <3>1. PICK w : w = k.liableTenant
      OBVIOUS
    <3>2. tenants' = [tenants EXCEPT ![a][w].openIndividualClaimAmount = @ - k.amount,
                                     ![a][w].approvedIndividualClaims = @ + k.amount]
      BY <2>1, <3>1 DEF ApproveClaim
    <3>3. us = [ts EXCEPT ![w] =
                  [ts[w] EXCEPT
                     !.openIndividualClaimAmount = ts[w].openIndividualClaimAmount - k.amount,
                     !.approvedIndividualClaims = ts[w].approvedIndividualClaims + k.amount]]
      BY <2>1, <3>1 DEF Deducts
    <3> HIDE DEF us
    <3> QED BY <1>1, <3>2, <3>3
  <2>2. CASE k.claimType # "INDIVIDUAL"
    <3>1. tenants' = tenants /\ us = ts
      BY <2>2 DEF ApproveClaim, Deducts
    <3> HIDE DEF us
    <3> QED BY <1>1, <1>2, <3>1, RowsTyped
  <2> QED BY <2>1, <2>2
<1> HIDE DEF h, us, ls
<1>6. Rewrites(a, h, us, ls, xs)
  BY <1>4, <1>5 DEF Rewrites
<1>7. CallKind(a, h, us, ls, xs)
  BY <1>1, <1>3 DEF CallKind, MovesClaim
<1> QED BY <1>2, <1>6, <1>7, KindEverywhere

(* withdrawPendingClaim.                                                   *)
LEMMA WithdrawClaimKind ==
  ASSUME EscrowInv, NEW a \in AgreementIds, NEW sender \in Wallets,
         NEW c \in ClaimIds, WithdrawPendingClaim(a, sender, c), NEW b \in AgreementIds
  PROVE  StepKind(b)
<1>1. TypeOK /\ claims[a][c] \in Claim /\ votes = [votes EXCEPT ![a] = votes[a]]
  BY RowsTyped DEF EscrowInv
<1>2. Tallied(tenants[a], votes[a], votes[a], c, claims[a][c], claims[a][c])
  BY DEF Tallied
<1> QED BY <1>1, <1>2, DismissKind DEF WithdrawPendingClaim

(* finalizePendingClaim.                                                   *)
LEMMA FinalizeClaimKind ==
  ASSUME EscrowInv, NEW a \in AgreementIds, NEW sender \in Wallets,
         NEW c \in ClaimIds, FinalizePendingClaim(a, sender, c), NEW b \in AgreementIds
  PROVE  StepKind(b)
<1>1. TypeOK /\ claims[a][c] \in Claim /\ votes = [votes EXCEPT ![a] = votes[a]]
  BY RowsTyped DEF EscrowInv
<1>2. Tallied(tenants[a], votes[a], votes[a], c, claims[a][c], claims[a][c])
  BY DEF Tallied
<1> QED BY <1>1, <1>2, DismissKind, ApproveKind DEF FinalizePendingClaim

(* voteClaim.                                                              *)
LEMMA VoteKind ==
  ASSUME EscrowInv, NEW a \in AgreementIds, NEW sender \in Wallets,
         NEW c \in ClaimIds, NEW support \in BOOLEAN, VoteClaim(a, sender, c, support),
         NEW b \in AgreementIds
  PROVE  StepKind(b)
<1>1. PICK g, ts, ks, vs : /\ g = agreements[a] /\ ts = tenants[a]
                           /\ ks = claims[a] /\ vs = votes[a]
  OBVIOUS
<1>2. /\ TypeOK /\ g \in Agreement /\ ts \in [Wallets -> Tenant]
      /\ ks \in [ClaimIds -> Claim] /\ ks[c] \in Claim
  BY <1>1, RowsTyped DEF EscrowInv
<1> DEFINE k == IF support THEN [ks[c] EXCEPT !.yesVotes = @ + 1]
                           ELSE [ks[c] EXCEPT !.noVotes = @ + 1]
           xs == [vs EXCEPT ![c] = [vs[c] EXCEPT ![sender] = IF support THEN 1 ELSE 2]]
<1>3. k \in Claim
  BY <1>2, ClaimUpdates
<1>4. /\ g.status = "ACTIVE" /\ ks[c].status = "PENDING"
      /\ votes' = [votes EXCEPT ![a] = xs]
      /\ UNCHANGED agreementTenants
  BY <1>1 DEF VoteClaim, VotingOpen
<1>5. Votes(ts, vs, xs, c, ks[c], k)
  BY <1>1 DEF VoteClaim, HasVoted, Votes
<1>6. \/ Approved(g, k) /\ ApproveClaim(a, c, k)
      \/ ~ Approved(g, k) /\ Hopeless(g, k) /\ Dismiss(a, c, k, "REJECTED")
      \/ /\ ~ Approved(g, k) /\ ~ Hopeless(g, k)
         /\ claims' = [claims EXCEPT ![a][c] = k] /\ UNCHANGED <<agreements, tenants>>
  BY <1>1 DEF VoteClaim
<1> HIDE DEF k, xs
<1>7. Tallied(ts, vs, xs, c, ks[c], k)
  BY <1>5 DEF Tallied
<1>8. CASE Approved(g, k) /\ ApproveClaim(a, c, k)
  BY <1>1, <1>3, <1>4, <1>7, <1>8, ApproveKind
<1>9. CASE ~ Approved(g, k) /\ Hopeless(g, k) /\ Dismiss(a, c, k, "REJECTED")
  BY <1>1, <1>3, <1>4, <1>7, <1>9, DismissKind
<1>10. CASE /\ ~ Approved(g, k) /\ ~ Hopeless(g, k)
            /\ claims' = [claims EXCEPT ![a][c] = k] /\ UNCHANGED <<agreements, tenants>>
  <2> DEFINE ls == Lists(ks, c, k)
  <2>1. Undecided(g, g, ts, ts, ks, ls, vs, xs, c)
    BY <1>3, <1>5, <1>10 DEF Undecided
  <2>2. claims' = [claims EXCEPT ![a] = ls]
    BY <1>1, <1>10 DEF Lists
  <2> HIDE DEF ls
  <2>3. Rewrites(a, g, ts, ls, xs)
    BY <1>1, <1>2, <1>4, <1>10, <2>2, RowsTyped DEF Rewrites
  <2>4. CallKind(a, g, ts, ls, xs)
    BY <1>1, <1>4, <2>1 DEF CallKind, MovesClaim
  <2> QED BY <1>2, <2>3, <2>4, KindEverywhere
<1> QED BY <1>6, <1>8, <1>9, <1>10

(* finalizeAgreement.                                                      *)
LEMMA FinalizeKind ==
  ASSUME EscrowInv, NEW a \in AgreementIds, FinalizeAgreement(a), NEW b \in AgreementIds
  PROVE  StepKind(b)
<1>1. PICK g, ts, us : g = agreements[a] /\ ts = tenants[a] /\ us = StoredRefunds(a)
  OBVIOUS
<1>2. TypeOK /\ g \in Agreement /\ ts \in [Wallets -> Tenant]
  BY <1>1, RowsTyped DEF EscrowInv
<1> DEFINE h == [g EXCEPT !.status = "FINALIZED"]
<1>3. /\ h.status = "FINALIZED"
      /\ KeepsTerms(g, h) /\ KeepsFunding(g, h) /\ KeepsClaims(g, h)
  BY <1>2 DEF Agreement, KeepsTerms, KeepsFunding, KeepsClaims
<1>4. RowsKeepTerms(ts, us) /\ RowsKeepFunding(ts, us) /\ RowsKeepClaims(ts, us)
  <2>1. ASSUME NEW w \in Wallets
        PROVE  /\ us[w].exists = ts[w].exists /\ us[w].requiredAmount = ts[w].requiredAmount
               /\ us[w].accepted = ts[w].accepted /\ us[w].fundedAmount = ts[w].fundedAmount
               /\ us[w].openIndividualClaimAmount = ts[w].openIndividualClaimAmount
               /\ us[w].approvedIndividualClaims = ts[w].approvedIndividualClaims
    <3>1. us[w] = ts[w] \/ \E y : us[w] = [ts[w] EXCEPT !.refundAmount = y]
      BY <1>1 DEF StoredRefunds
    <3>2. CASE us[w] = ts[w]
      BY <3>2
    <3>3. ASSUME NEW y, us[w] = [ts[w] EXCEPT !.refundAmount = y]
          PROVE  /\ us[w].exists = ts[w].exists /\ us[w].requiredAmount = ts[w].requiredAmount
                 /\ us[w].accepted = ts[w].accepted /\ us[w].fundedAmount = ts[w].fundedAmount
                 /\ us[w].openIndividualClaimAmount = ts[w].openIndividualClaimAmount
                 /\ us[w].approvedIndividualClaims = ts[w].approvedIndividualClaims
      <4>1. ts[w] \in Tenant
        BY <1>2
      <4> QED BY <3>3, <4>1 DEF Tenant
    <3> QED BY <3>1, <3>2, <3>3
  <2> QED BY <2>1 DEF RowsKeepTerms, RowsKeepFunding, RowsKeepClaims
<1>5. Rewrites(a, h, us, claims[a], votes[a]) /\ g.status = "ACTIVE"
  <2>1. agreements' = [agreements EXCEPT ![a] = h] /\ g.status = "ACTIVE"
    BY <1>1 DEF FinalizeAgreement
  <2>2. tenants' = [tenants EXCEPT ![a] = us] /\ UNCHANGED <<agreementTenants, claims, votes>>
    BY <1>1 DEF FinalizeAgreement
  <2> HIDE DEF h
  <2> QED BY <1>1, <1>2, <2>1, <2>2, RowsTyped DEF Rewrites
<1> HIDE DEF h
<1>6. Settled(a, g, h, ts, us)
  BY <1>1, <1>3, <1>4, <1>5 DEF Settled
<1> QED BY <1>1, <1>2, <1>5, <1>6, KindEverywhere DEF CallKind

-----------------------------------------------------------------------------
(* Every step is of one of the kinds, for every agreement.                 *)
LEMMA EveryKind ==
  ASSUME EscrowInv, EscrowStep, NEW a \in AgreementIds
  PROVE  StepKind(a)
<1>1. ASSUME NEW w \in Wallets, UnguardedCall(w)
      PROVE  StepKind(a)
  BY <1>1, CreateKind, AcceptKind, AcceptRecipientKind, DepositKind, CancelKind, SubmitKind,
     WithdrawClaimKind, VoteKind, FinalizeClaimKind, FinalizeKind DEF UnguardedCall
<1>2. ASSUME NEW w \in Wallets, Pays(w)
      PROVE  StepKind(a)
  BY <1>2, WithdrawFundingKind, WithdrawCancelledKind, WithdrawRefundKind, WithdrawPayoutKind
     DEF Pays
<1>3. ASSUME UNCHANGED storage
      PROVE  StepKind(a)
  <2>1. /\ agreements'[a] = agreements[a] /\ tenants'[a] = tenants[a]
        /\ claims'[a] = claims[a] /\ votes'[a] = votes[a]
        /\ agreementTenants'[a] = agreementTenants[a]
    BY <1>3 DEF storage
  <2>2. Idle(agreements[a], agreements'[a], tenants[a], tenants'[a])
    BY <2>1, RestIsIdle
  <2> QED BY <2>1, <2>2 DEF StepKind
<1>4. Tick \/ (\E x \in 1 .. MaxForced : ForceSend(x)) \/ UNCHANGED vars => UNCHANGED storage
  BY DEF Tick, ForceSend, vars, storage
<1> QED BY <1>1, <1>2, <1>3, <1>4 DEF EscrowStep

(* No time passes within a transaction.                                    *)
LEMMA CallsTakeNoTime ==
  ASSUME NEW w \in Wallets, UnguardedCall(w) \/ Pays(w)
  PROVE  now' = now
<1>1. CASE UnguardedCall(w)
  <2>1. ASSUME NEW p \in Proposals, CreateAgreement(p)
        PROVE  now' = now
    BY <2>1 DEF CreateAgreement
  <2>2. ASSUME NEW a \in AgreementIds
        PROVE  /\ \A h \in Hashes : AcceptAsTenant(a, w, h) => now' = now
               /\ \A h \in Hashes : AcceptAsRecipient(a, w, h) => now' = now
               /\ \A x \in Uint128 : Deposit(a, w, x) => now' = now
               /\ CancelExpiredFunding(a, w) => now' = now
               /\ FinalizeAgreement(a) => now' = now
    BY DEF AcceptAsTenant, AcceptAsRecipient, Deposit, CancelExpiredFunding, FinalizeAgreement
  <2>3. ASSUME NEW a \in AgreementIds, NEW c \in ClaimIds
        PROVE  /\ WithdrawPendingClaim(a, w, c) => now' = now
               /\ \A support \in BOOLEAN : VoteClaim(a, w, c, support) => now' = now
               /\ FinalizePendingClaim(a, w, c) => now' = now
    BY DEF WithdrawPendingClaim, VoteClaim, FinalizePendingClaim
  <2>4. ASSUME NEW a \in AgreementIds, NEW type \in ClaimType,
               NEW liable \in Wallets \cup {NoWallet}, NEW x \in Uint128,
               NEW reason \in Hashes \cup {NoHash}, NEW evidence \in Hashes \cup {NoHash},
               SubmitClaim(a, w, type, liable, x, reason, evidence)
        PROVE  now' = now
    BY <2>4 DEF SubmitClaim
  <2> QED BY <1>1, <2>1, <2>2, <2>3, <2>4 DEF UnguardedCall
<1>2. CASE Pays(w)
  <2>1. ASSUME NEW a \in AgreementIds
        PROVE  /\ \A x \in Uint128 : PaysFunding(a, w, x) => now' = now
               /\ PaysCancelled(a, w) => now' = now
               /\ PaysRefund(a, w) => now' = now
               /\ PaysPayout(a, w) => now' = now
    BY DEF PaysFunding, PaysCancelled, PaysRefund, PaysPayout, WithdrawFundingEffects,
       WithdrawCancelledEffects, WithdrawRefundEffects, WithdrawPayoutEffects
  <2> QED BY <1>2, <2>1 DEF Pays
<1> QED BY <1>1, <1>2

(* The clock never runs backwards.                                         *)
LEMMA ClockRuns ==
  ASSUME TypeOK, EscrowStep
  PROVE  now \in Int /\ now' \in Int /\ now <= now'
<1>1. now \in Int
  BY ConstantsAssumption DEF TypeOK
<1>2. now' = now \/ now' = now + 1
  BY CallsTakeNoTime DEF EscrowStep, Tick, ForceSend, vars
<1> QED BY <1>1, <1>2

-----------------------------------------------------------------------------
(* The inductive invariant, by what it speaks about                        *)

(* An agreement is active exactly when everybody is in.                    *)
ReadySound(g, ts) ==
  /\ g.status \in {"ACTIVE", "FINALIZED"} => Complete(g, ts)
  /\ g.status \in {"FUNDING", "CANCELLED"} => ~ Complete(g, ts)

(* The tenants of an agreement, and what creation checked of them.         *)
Existing(ts) == {w \in Wallets : ts[w].exists}
RosterSound(g, ts) ==
  /\ g.totalRequired <= MAX_UINT128
  /\ g.status = "NONE" => Existing(ts) = {}
  /\ g.status # "NONE" =>
       /\ g.tenantCount = Cardinality(Existing(ts)) /\ g.tenantCount > 0
       /\ g.requiredApprovals = RequiredApprovals(g.tenantCount)
       /\ g.recipient \notin Existing(ts)

(* The claims of an agreement by status and kind, and their amounts.       *)
Pending(k) == k.status = "PENDING"
Accepted(k) == k.status = "APPROVED"
Shared(k) == Accepted(k) /\ k.claimType = "SHARED"
Amount(k, selected) == IF selected THEN k.amount ELSE 0

AcceptedAmounts(ks) == [c \in ClaimIds |-> Amount(ks[c], Accepted(ks[c]))]
SharedAmounts(ks) == [c \in ClaimIds |-> Amount(ks[c], Shared(ks[c]))]
OpenAgainst(ks, w) ==
  [c \in ClaimIds |-> Amount(ks[c], Pending(ks[c]) /\ ks[c].liableTenant = w)]
AcceptedAgainst(ks, w) ==
  [c \in ClaimIds |-> Amount(ks[c], Accepted(ks[c]) /\ ks[c].liableTenant = w)]

PendingIds(ks) == {c \in ClaimIds : ks[c].status = "PENDING"}
TakenIds(ks) == {c \in ClaimIds : ks[c].status # "NONE"}

(* The claim totals are sums and counts of the claims.                     *)
LedgerSound(g, ts, ks) ==
  /\ g.totalApprovedClaims = SumFunction(AcceptedAmounts(ks))
  /\ g.sharedApprovedClaims = SumFunction(SharedAmounts(ks))
  /\ g.unresolvedClaimCount = Cardinality(PendingIds(ks))
  /\ g.claimCount = Cardinality(TakenIds(ks))
  /\ \A w \in Wallets :
       /\ ts[w].openIndividualClaimAmount = SumFunction(OpenAgainst(ks, w))
       /\ ts[w].approvedIndividualClaims = SumFunction(AcceptedAgainst(ks, w))
  /\ \A c \in ClaimIds :
       ks[c].status # "NONE" =>
         /\ 0 <= ks[c].amount
         /\ ks[c].claimType = "SHARED" => ks[c].liableTenant \notin Wallets

(* A claim's votes for and against, and what they decide at a time.        *)
Cast(ballot, vote) == {w \in Wallets : ballot[w] = vote}
BallotSound(g, ts, k, ballot, time) ==
  LET yes == Cardinality(Cast(ballot, 1))
      no == Cardinality(Cast(ballot, 2))
      n == Cardinality(Existing(ts))
  IN  /\ k.yesVotes = yes /\ k.noVotes = no
      /\ \A w \in Wallets : ballot[w] # 0 => ts[w].exists
      /\ k.status = "NONE" => \A w \in Wallets : ballot[w] = 0
      /\ k.status = "APPROVED" => 2 * yes > n
      /\ k.status = "REJECTED" =>
           \/ 2 * (n - no) <= n
           \/ 2 * yes <= n /\ time > g.settlementDeadline
      /\ k.status \in {"PENDING", "WITHDRAWN"} => 2 * yes <= n /\ 2 * (n - no) > n

(* What the tenants had left for the shared claims, and their refunds.     *)
Left(ts) == [w \in Wallets |-> ts[w].fundedAmount - ts[w].approvedIndividualClaims]
Refunded(ts) == [w \in Wallets |-> ts[w].refundAmount]
Charged(ts, w) == Left(ts)[w] - ts[w].refundAmount
SettledSound(g, ts) ==
  /\ g.status # "FINALIZED" => \A w \in Wallets : ts[w].refundAmount = 0
  /\ g.status = "FINALIZED" =>
       /\ SumFunction(Refunded(ts)) + g.totalApprovedClaims = g.totalFunded
       /\ \A w \in Wallets :
            /\ Charged(ts, w) \in 0 .. Left(ts)[w]
            /\ g.sharedApprovedClaims > 0 =>
                 LET total == SumFunction(Left(ts))
                     exact == g.sharedApprovedClaims * Left(ts)[w]
                 IN  /\ Charged(ts, w) * total < exact + total
                     /\ Charged(ts, w) * total > exact - total

(* All of it, for the records of one agreement.                            *)
BooksSound(g, ts, ks, vs, time) ==
  /\ ReadySound(g, ts) /\ RosterSound(g, ts) /\ LedgerSound(g, ts, ks)
  /\ \A c \in ClaimIds : BallotSound(g, ts, ks[c], vs[c], time)
  /\ SettledSound(g, ts)

BooksInv ==
  /\ EscrowInv
  /\ \A a \in AgreementIds :
       BooksSound(agreements[a], tenants[a], claims[a], votes[a], now)

-----------------------------------------------------------------------------
(* What is left alone stays sound.                                         *)

LEMMA ReadyKept ==
  ASSUME NEW g, NEW h, NEW ts, NEW us, ReadySound(g, ts), KeepsFunding(g, h),
         RowsKeepTerms(ts, us), RowsKeepFunding(ts, us),
         \/ h.status = g.status
         \/ h.status = "CANCELLED" /\ g.status = "FUNDING"
         \/ h.status = "FINALIZED" /\ g.status = "ACTIVE"
  PROVE  ReadySound(h, us)
<1>1. Complete(h, us) <=> Complete(g, ts)
  BY DEF Complete, KeepsFunding, RowsKeepTerms, RowsKeepFunding
<1> QED BY <1>1 DEF ReadySound

LEMMA ExistingKept ==
  ASSUME NEW ts, NEW us, RowsKeepTerms(ts, us)
  PROVE  Existing(us) = Existing(ts)
BY DEF Existing, RowsKeepTerms

LEMMA RosterKept ==
  ASSUME NEW g, NEW h, NEW ts, NEW us, RosterSound(g, ts), KeepsTerms(g, h),
         RowsKeepTerms(ts, us), g.status = "NONE" <=> h.status = "NONE"
  PROVE  RosterSound(h, us)
BY ExistingKept DEF RosterSound, KeepsTerms

LEMMA LedgerKept ==
  ASSUME NEW g, NEW h, NEW ts, NEW us, NEW ks, LedgerSound(g, ts, ks), KeepsClaims(g, h),
         RowsKeepClaims(ts, us)
  PROVE  LedgerSound(h, us, ks)
BY DEF LedgerSound, KeepsClaims, RowsKeepClaims

LEMMA BallotKept ==
  ASSUME NEW g \in Agreement, NEW h, NEW ts, NEW us, NEW k, NEW ballot,
         NEW time \in Int, NEW later \in Int, time <= later,
         BallotSound(g, ts, k, ballot, time), KeepsTerms(g, h), RowsKeepTerms(ts, us)
  PROVE  BallotSound(h, us, k, ballot, later)
<1>1. Existing(us) = Existing(ts) /\ \A w \in Wallets : us[w].exists = ts[w].exists
  BY ExistingKept DEF RowsKeepTerms
<1>2. h.settlementDeadline = g.settlementDeadline /\ g.settlementDeadline \in Int
  BY DEF KeepsTerms, Agreement
<1> QED BY <1>1, <1>2 DEF BallotSound

LEMMA SettledKept ==
  ASSUME NEW g, NEW h, NEW ts, NEW us, SettledSound(g, ts), h.status = g.status,
         KeepsFunding(g, h), KeepsClaims(g, h),
         RowsKeepFunding(ts, us), RowsKeepClaims(ts, us), RowsKeepRefunds(ts, us)
  PROVE  SettledSound(h, us)
<1>1. Left(us) = Left(ts) /\ Refunded(us) = Refunded(ts)
  BY DEF Left, Refunded, RowsKeepFunding, RowsKeepClaims, RowsKeepRefunds
<1>2. \A w \in Wallets : Charged(us, w) = Charged(ts, w)
  BY <1>1 DEF Charged, RowsKeepRefunds
<1> QED BY <1>1, <1>2 DEF SettledSound, KeepsFunding, KeepsClaims, RowsKeepRefunds

LEMMA UnsettledKept ==
  ASSUME NEW g, NEW h, NEW ts, NEW us, SettledSound(g, ts), RowsKeepRefunds(ts, us),
         g.status # "FINALIZED", h.status # "FINALIZED"
  PROVE  SettledSound(h, us)
BY DEF SettledSound, RowsKeepRefunds

(* So are the books after an idle step, and after one that collects.       *)
LEMMA IdleBooks ==
  ASSUME NEW g \in Agreement, NEW h, NEW ts, NEW us, NEW ks, NEW vs,
         NEW time \in Int, NEW later \in Int, time <= later,
         BooksSound(g, ts, ks, vs, time), Idle(g, h, ts, us)
  PROVE  BooksSound(h, us, ks, vs, later)
<1>1. /\ h.status = g.status /\ KeepsTerms(g, h) /\ KeepsFunding(g, h) /\ KeepsClaims(g, h)
      /\ RowsKeepTerms(ts, us) /\ RowsKeepFunding(ts, us)
      /\ RowsKeepClaims(ts, us) /\ RowsKeepRefunds(ts, us)
  BY DEF Idle
<1>2. ReadySound(h, us) /\ RosterSound(h, us) /\ LedgerSound(h, us, ks) /\ SettledSound(h, us)
  BY <1>1, ReadyKept, RosterKept, LedgerKept, SettledKept DEF BooksSound
<1>3. \A c \in ClaimIds : BallotSound(h, us, ks[c], vs[c], later)
  BY <1>1, BallotKept DEF BooksSound
<1> QED BY <1>2, <1>3 DEF BooksSound

LEMMA CollectsBooks ==
  ASSUME NEW g \in Agreement, NEW h, NEW ts, NEW us, NEW ks, NEW vs,
         NEW time \in Int, NEW later \in Int, time <= later,
         BooksSound(g, ts, ks, vs, time), Collects(g, h, ts, us)
  PROVE  BooksSound(h, us, ks, vs, later)
<1>1. /\ g.status = "FUNDING" /\ h.status \in {"FUNDING", "ACTIVE", "CANCELLED"}
      /\ KeepsTerms(g, h) /\ KeepsClaims(g, h)
      /\ RowsKeepTerms(ts, us) /\ RowsKeepClaims(ts, us) /\ RowsKeepRefunds(ts, us)
  BY DEF Collects
<1>2. ReadySound(h, us)
  <2>1. CASE h.status = "CANCELLED"
    BY <1>1, <2>1, ReadyKept DEF Collects, BooksSound
  <2>2. CASE h.status # "CANCELLED"
    BY <2>2 DEF Collects, ReadySound
  <2> QED BY <2>1, <2>2
<1>3. RosterSound(h, us) /\ LedgerSound(h, us, ks) /\ SettledSound(h, us)
  BY <1>1, RosterKept, LedgerKept, UnsettledKept DEF BooksSound
<1>4. \A c \in ClaimIds : BallotSound(h, us, ks[c], vs[c], later)
  BY <1>1, BallotKept DEF BooksSound
<1> QED BY <1>2, <1>3, <1>4 DEF BooksSound

-----------------------------------------------------------------------------
(* A claim moves                                                           *)

One(b) == IF b THEN 1 ELSE 0

(* A set that changes at one element only.                                 *)
LEMMA CountMoves ==
  ASSUME NEW A, NEW B, NEW c, IsFiniteSet(A), \A x : x # c => (x \in B <=> x \in A)
  PROVE  /\ IsFiniteSet(B) /\ Cardinality(A) \in Nat /\ Cardinality(B) \in Nat
         /\ Cardinality(B) = Cardinality(A) + (One(c \in B) - One(c \in A))
<1> DEFINE R == A \ {c}
<1>1. /\ IsFiniteSet(R) /\ Cardinality(R) = Cardinality(A) - One(c \in A)
      /\ Cardinality(A) \in Nat
  BY FS_RemoveElement, FS_CardinalityType DEF One
<1>2. c \notin R
  OBVIOUS
<1>3. B = IF c \in B THEN R \cup {c} ELSE R
  OBVIOUS
<1> HIDE DEF R
<1>4. /\ IsFiniteSet(R \cup {c}) /\ Cardinality(R \cup {c}) = Cardinality(R) + 1
  BY <1>1, <1>2, FS_AddElement
<1>5. CASE c \in B
  <2>1. B = R \cup {c}
    BY <1>3, <1>5
  <2>2. IsFiniteSet(B) /\ Cardinality(B) = Cardinality(R) + 1
    BY <1>4, <2>1
  <2>3. Cardinality(B) \in Nat
    BY <2>2, FS_CardinalityType
  <2> QED BY <1>1, <1>5, <2>2, <2>3 DEF One
<1>6. CASE c \notin B
  <2>1. B = R
    BY <1>3, <1>6
  <2>2. Cardinality(B) \in Nat
    BY <1>1, <2>1, FS_CardinalityType
  <2> QED BY <1>1, <1>6, <2>1, <2>2 DEF One
<1> QED BY <1>5, <1>6

LEMMA ClaimColumns ==
  ASSUME NEW ks \in [ClaimIds -> Claim]
  PROVE  /\ IsFiniteSet(ClaimIds)
         /\ AcceptedAmounts(ks) \in [ClaimIds -> Int]
         /\ SharedAmounts(ks) \in [ClaimIds -> Int]
         /\ \A w : /\ OpenAgainst(ks, w) \in [ClaimIds -> Int]
                   /\ AcceptedAgainst(ks, w) \in [ClaimIds -> Int]
         /\ IsFiniteSet(PendingIds(ks)) /\ IsFiniteSet(TakenIds(ks))
<1>1. IsFiniteSet(ClaimIds)
  BY ConstantsAssumption, FS_Interval DEF ClaimIds
<1>2. PendingIds(ks) \subseteq ClaimIds /\ TakenIds(ks) \subseteq ClaimIds
  BY DEF PendingIds, TakenIds
<1>3. ASSUME NEW c \in ClaimIds, NEW b
      PROVE  Amount(ks[c], b) \in Int
  BY DEF Amount, Claim
<1>4. AcceptedAmounts(ks) \in [ClaimIds -> Int] /\ SharedAmounts(ks) \in [ClaimIds -> Int]
  BY <1>3 DEF AcceptedAmounts, SharedAmounts
<1>5. ASSUME NEW w
      PROVE  /\ OpenAgainst(ks, w) \in [ClaimIds -> Int]
             /\ AcceptedAgainst(ks, w) \in [ClaimIds -> Int]
  BY <1>3 DEF OpenAgainst, AcceptedAgainst
<1> QED BY <1>1, <1>2, <1>4, <1>5, FS_Subset

(* What a new record of one claim does to the sums and the counts.         *)
LEMMA AmountsMove ==
  ASSUME NEW ks \in [ClaimIds -> Claim], NEW c \in ClaimIds, NEW k \in Claim,
         NEW ls, ls = Lists(ks, c, k)
  PROVE  /\ SumFunction(AcceptedAmounts(ls)) = SumFunction(AcceptedAmounts(ks))
              + (Amount(k, Accepted(k)) - Amount(ks[c], Accepted(ks[c])))
         /\ SumFunction(SharedAmounts(ls)) = SumFunction(SharedAmounts(ks))
              + (Amount(k, Shared(k)) - Amount(ks[c], Shared(ks[c])))
         /\ \A w \in Wallets :
              /\ SumFunction(OpenAgainst(ls, w)) = SumFunction(OpenAgainst(ks, w))
                   + (Amount(k, Pending(k) /\ k.liableTenant = w)
                      - Amount(ks[c], Pending(ks[c]) /\ ks[c].liableTenant = w))
              /\ SumFunction(AcceptedAgainst(ls, w)) = SumFunction(AcceptedAgainst(ks, w))
                   + (Amount(k, Accepted(k) /\ k.liableTenant = w)
                      - Amount(ks[c], Accepted(ks[c]) /\ ks[c].liableTenant = w))
         /\ Cardinality(PendingIds(ls)) = Cardinality(PendingIds(ks))
              + (One(Pending(k)) - One(Pending(ks[c])))
         /\ Cardinality(TakenIds(ls)) = Cardinality(TakenIds(ks))
              + (One(k.status # "NONE") - One(ks[c].status # "NONE"))
<1>1. ls \in [ClaimIds -> Claim] /\ ls[c] = k /\ \A d \in ClaimIds \ {c} : ls[d] = ks[d]
  BY DEF Lists
<1>2. /\ AcceptedAmounts(ls)[c] = Amount(k, Accepted(k))
      /\ AcceptedAmounts(ks)[c] = Amount(ks[c], Accepted(ks[c]))
      /\ \A d \in ClaimIds \ {c} : AcceptedAmounts(ls)[d] = AcceptedAmounts(ks)[d]
  BY <1>1 DEF AcceptedAmounts
<1>3. /\ SharedAmounts(ls)[c] = Amount(k, Shared(k))
      /\ SharedAmounts(ks)[c] = Amount(ks[c], Shared(ks[c]))
      /\ \A d \in ClaimIds \ {c} : SharedAmounts(ls)[d] = SharedAmounts(ks)[d]
  BY <1>1 DEF SharedAmounts
<1>4. ASSUME NEW w \in Wallets
      PROVE  /\ OpenAgainst(ls, w)[c] = Amount(k, Pending(k) /\ k.liableTenant = w)
             /\ OpenAgainst(ks, w)[c] = Amount(ks[c], Pending(ks[c]) /\ ks[c].liableTenant = w)
             /\ \A d \in ClaimIds \ {c} : OpenAgainst(ls, w)[d] = OpenAgainst(ks, w)[d]
  BY <1>1 DEF OpenAgainst
<1>5. ASSUME NEW w \in Wallets
      PROVE  /\ AcceptedAgainst(ls, w)[c] = Amount(k, Accepted(k) /\ k.liableTenant = w)
             /\ AcceptedAgainst(ks, w)[c]
                  = Amount(ks[c], Accepted(ks[c]) /\ ks[c].liableTenant = w)
             /\ \A d \in ClaimIds \ {c} : AcceptedAgainst(ls, w)[d] = AcceptedAgainst(ks, w)[d]
  BY <1>1 DEF AcceptedAgainst
<1>6. /\ SumFunction(AcceptedAmounts(ls)) = SumFunction(AcceptedAmounts(ks))
           + (AcceptedAmounts(ls)[c] - AcceptedAmounts(ks)[c])
      /\ SumFunction(SharedAmounts(ls)) = SumFunction(SharedAmounts(ks))
           + (SharedAmounts(ls)[c] - SharedAmounts(ks)[c])
  BY <1>1, <1>2, <1>3, ClaimColumns, EntryReplaced
<1>7. ASSUME NEW w \in Wallets
      PROVE  /\ SumFunction(OpenAgainst(ls, w)) = SumFunction(OpenAgainst(ks, w))
                  + (OpenAgainst(ls, w)[c] - OpenAgainst(ks, w)[c])
             /\ SumFunction(AcceptedAgainst(ls, w)) = SumFunction(AcceptedAgainst(ks, w))
                  + (AcceptedAgainst(ls, w)[c] - AcceptedAgainst(ks, w)[c])
  <2>1. /\ IsFiniteSet(ClaimIds)
        /\ OpenAgainst(ks, w) \in [ClaimIds -> Int]
        /\ AcceptedAgainst(ks, w) \in [ClaimIds -> Int]
    BY ClaimColumns
  <2>2. OpenAgainst(ls, w) \in [ClaimIds -> Int] /\ AcceptedAgainst(ls, w) \in [ClaimIds -> Int]
    BY <1>1, ClaimColumns
  <2> QED BY <1>4, <1>5, <2>1, <2>2, EntryReplaced
<1>8. Cardinality(PendingIds(ls)) = Cardinality(PendingIds(ks))
        + (One(c \in PendingIds(ls)) - One(c \in PendingIds(ks)))
  <2>1. \A d : d # c => (d \in PendingIds(ls) <=> d \in PendingIds(ks))
    BY <1>1 DEF PendingIds
  <2> QED BY <2>1, ClaimColumns, CountMoves
<1>9. Cardinality(TakenIds(ls)) = Cardinality(TakenIds(ks))
        + (One(c \in TakenIds(ls)) - One(c \in TakenIds(ks)))
  <2>1. \A d : d # c => (d \in TakenIds(ls) <=> d \in TakenIds(ks))
    BY <1>1 DEF TakenIds
  <2> QED BY <2>1, ClaimColumns, CountMoves
<1>10. /\ One(c \in PendingIds(ls)) = One(Pending(k))
       /\ One(c \in PendingIds(ks)) = One(Pending(ks[c]))
       /\ One(c \in TakenIds(ls)) = One(k.status # "NONE")
       /\ One(c \in TakenIds(ks)) = One(ks[c].status # "NONE")
  <2>1. /\ c \in PendingIds(ls) <=> Pending(k)
        /\ c \in PendingIds(ks) <=> Pending(ks[c])
        /\ c \in TakenIds(ls) <=> k.status # "NONE"
        /\ c \in TakenIds(ks) <=> ks[c].status # "NONE"
    BY <1>1 DEF PendingIds, TakenIds, Pending
  <2> QED BY <2>1 DEF One
<1> QED BY <1>2, <1>3, <1>4, <1>5, <1>6, <1>7, <1>8, <1>9, <1>10

(* What a move of one claim, from the record old to the record new, must   *)
(* do to the totals and to the tenants' rows.                              *)
Against(k, w) == k.liableTenant = w
LedgerMoves(g, h, ts, us, old, new) ==
  /\ h.totalApprovedClaims = g.totalApprovedClaims
       + (Amount(new, Accepted(new)) - Amount(old, Accepted(old)))
  /\ h.sharedApprovedClaims = g.sharedApprovedClaims
       + (Amount(new, Shared(new)) - Amount(old, Shared(old)))
  /\ h.unresolvedClaimCount = g.unresolvedClaimCount + (One(Pending(new)) - One(Pending(old)))
  /\ h.claimCount = g.claimCount + (One(new.status # "NONE") - One(old.status # "NONE"))
  /\ \A w \in Wallets :
       /\ us[w].openIndividualClaimAmount = ts[w].openIndividualClaimAmount
            + (Amount(new, Pending(new) /\ Against(new, w))
               - Amount(old, Pending(old) /\ Against(old, w)))
       /\ us[w].approvedIndividualClaims = ts[w].approvedIndividualClaims
            + (Amount(new, Accepted(new) /\ Against(new, w))
               - Amount(old, Accepted(old) /\ Against(old, w)))

(* A claim's amount and whom it names.                                     *)
Billed(k) ==
  k.status # "NONE" =>
    0 <= k.amount /\ (k.claimType = "SHARED" => k.liableTenant \notin Wallets)

LEMMA LedgerStep ==
  ASSUME NEW g, NEW h, NEW ts, NEW us, NEW ks \in [ClaimIds -> Claim],
         NEW c \in ClaimIds, NEW k \in Claim, NEW ls, ls = Lists(ks, c, k),
         LedgerSound(g, ts, ks), LedgerMoves(g, h, ts, us, ks[c], k), Billed(k)
  PROVE  LedgerSound(h, us, ls)
<1>1. /\ h.totalApprovedClaims = SumFunction(AcceptedAmounts(ls))
      /\ h.sharedApprovedClaims = SumFunction(SharedAmounts(ls))
      /\ h.unresolvedClaimCount = Cardinality(PendingIds(ls))
      /\ h.claimCount = Cardinality(TakenIds(ls))
  BY AmountsMove DEF LedgerSound, LedgerMoves
<1>2. ASSUME NEW w \in Wallets
      PROVE  /\ us[w].openIndividualClaimAmount = SumFunction(OpenAgainst(ls, w))
             /\ us[w].approvedIndividualClaims = SumFunction(AcceptedAgainst(ls, w))
  BY AmountsMove DEF LedgerSound, LedgerMoves, Against
<1>3. ASSUME NEW d \in ClaimIds, ls[d].status # "NONE"
      PROVE  0 <= ls[d].amount /\ (ls[d].claimType = "SHARED" => ls[d].liableTenant \notin Wallets)
  <2>1. ls[d] = k \/ ls[d] = ks[d]
    BY DEF Lists
  <2>2. CASE ls[d] = k
    BY <1>3, <2>2 DEF Billed
  <2>3. CASE ls[d] = ks[d]
    BY <1>3, <2>3 DEF LedgerSound
  <2> QED BY <2>1, <2>2, <2>3
<1> QED BY <1>1, <1>2, <1>3 DEF LedgerSound

(* The rest of the records, which no claim moves.                          *)
Unmoved(g, h, ts, us) ==
  /\ h.status = g.status /\ KeepsTerms(g, h) /\ KeepsFunding(g, h)
  /\ RowsKeepTerms(ts, us) /\ RowsKeepFunding(ts, us) /\ RowsKeepRefunds(ts, us)

(* The fields that the three kinds of moves write.                         *)
LEMMA MoveFields ==
  ASSUME NEW g \in Agreement, NEW x \in Int
  PROVE  /\ LET h == ReservesTotal(g, x)
            IN  /\ h.status = g.status /\ KeepsTerms(g, h) /\ KeepsFunding(g, h)
                /\ h.totalApprovedClaims = g.totalApprovedClaims
                /\ h.sharedApprovedClaims = g.sharedApprovedClaims
                /\ h.unresolvedClaimCount = g.unresolvedClaimCount + 1
                /\ h.claimCount = g.claimCount + 1
         /\ \A k : LET h == DismissesTotal(g, k)
                   IN  /\ h.status = g.status /\ KeepsTerms(g, h) /\ KeepsFunding(g, h)
                       /\ h.totalApprovedClaims = g.totalApprovedClaims
                       /\ h.sharedApprovedClaims = g.sharedApprovedClaims
                       /\ h.unresolvedClaimCount = g.unresolvedClaimCount - 1
                       /\ h.claimCount = g.claimCount
         /\ \A k : LET h == Approves(g, k)
                   IN  /\ h.status = g.status /\ KeepsTerms(g, h) /\ KeepsFunding(g, h)
                       /\ h.totalApprovedClaims = g.totalApprovedClaims + k.amount
                       /\ h.sharedApprovedClaims = g.sharedApprovedClaims
                            + (IF k.claimType = "SHARED" THEN k.amount ELSE 0)
                       /\ h.unresolvedClaimCount = g.unresolvedClaimCount - 1
                       /\ h.claimCount = g.claimCount
<1>1. g.sharedApprovedClaims \in Int
  BY AgreementFields
<1>6. ASSUME NEW h, h = ReservesTotal(g, x)
      PROVE  /\ h.status = g.status /\ KeepsTerms(g, h) /\ KeepsFunding(g, h)
             /\ h.totalApprovedClaims = g.totalApprovedClaims
             /\ h.sharedApprovedClaims = g.sharedApprovedClaims
             /\ h.unresolvedClaimCount = g.unresolvedClaimCount + 1
             /\ h.claimCount = g.claimCount + 1
  <2>1. PICK u, v, y : /\ u = g.claimCount + 1 /\ v = g.unresolvedClaimCount + 1
                       /\ y = g.totalOpenClaimAmount + x
    OBVIOUS
  <2>2. h = [g EXCEPT !.claimCount = u, !.unresolvedClaimCount = v, !.totalOpenClaimAmount = y]
    BY <1>6, <2>1 DEF ReservesTotal
  <2>3. /\ h.status = g.status /\ KeepsTerms(g, h) /\ KeepsFunding(g, h)
        /\ h.totalApprovedClaims = g.totalApprovedClaims
        /\ h.sharedApprovedClaims = g.sharedApprovedClaims
        /\ h.unresolvedClaimCount = v /\ h.claimCount = u
    BY <2>2 DEF Agreement, KeepsTerms, KeepsFunding
  <2> QED BY <2>1, <2>3
<1>7. ASSUME NEW k, NEW h, h = DismissesTotal(g, k)
      PROVE  /\ h.status = g.status /\ KeepsTerms(g, h) /\ KeepsFunding(g, h)
             /\ h.totalApprovedClaims = g.totalApprovedClaims
             /\ h.sharedApprovedClaims = g.sharedApprovedClaims
             /\ h.unresolvedClaimCount = g.unresolvedClaimCount - 1
             /\ h.claimCount = g.claimCount
  <2>1. PICK v, y : /\ v = g.unresolvedClaimCount - 1
                    /\ y = g.totalOpenClaimAmount - k.amount
    OBVIOUS
  <2>2. h = [g EXCEPT !.unresolvedClaimCount = v, !.totalOpenClaimAmount = y]
    BY <1>7, <2>1 DEF DismissesTotal
  <2>3. /\ h.status = g.status /\ KeepsTerms(g, h) /\ KeepsFunding(g, h)
        /\ h.totalApprovedClaims = g.totalApprovedClaims
        /\ h.sharedApprovedClaims = g.sharedApprovedClaims
        /\ h.unresolvedClaimCount = v /\ h.claimCount = g.claimCount
    BY <2>2 DEF Agreement, KeepsTerms, KeepsFunding
  <2> QED BY <2>1, <2>3
<1>8. ASSUME NEW k, NEW h, h = Approves(g, k)
      PROVE  /\ h.status = g.status /\ KeepsTerms(g, h) /\ KeepsFunding(g, h)
             /\ h.totalApprovedClaims = g.totalApprovedClaims + k.amount
             /\ h.sharedApprovedClaims = g.sharedApprovedClaims
                  + (IF k.claimType = "SHARED" THEN k.amount ELSE 0)
             /\ h.unresolvedClaimCount = g.unresolvedClaimCount - 1
             /\ h.claimCount = g.claimCount
  <2>1. PICK v, y, z, s :
          /\ v = g.unresolvedClaimCount - 1 /\ y = g.totalOpenClaimAmount - k.amount
          /\ z = g.totalApprovedClaims + k.amount
          /\ s = IF k.claimType = "SHARED" THEN g.sharedApprovedClaims + k.amount
                                            ELSE g.sharedApprovedClaims
    OBVIOUS
  <2>2. h = [g EXCEPT !.unresolvedClaimCount = v, !.totalOpenClaimAmount = y,
                      !.totalApprovedClaims = z, !.sharedApprovedClaims = s]
    BY <1>8, <2>1 DEF Approves
  <2>3. /\ h.status = g.status /\ KeepsTerms(g, h) /\ KeepsFunding(g, h)
        /\ h.totalApprovedClaims = z /\ h.sharedApprovedClaims = s
        /\ h.unresolvedClaimCount = v /\ h.claimCount = g.claimCount
    BY <2>2 DEF Agreement, KeepsTerms, KeepsFunding
  <2>4. s = g.sharedApprovedClaims + (IF k.claimType = "SHARED" THEN k.amount ELSE 0)
    BY <1>1, <2>1
  <2> QED BY <2>1, <2>3, <2>4
<1> QED BY <1>6, <1>7, <1>8

(* And the tenants' rows.                                                  *)
RowsUnmoved(ts, us) ==
  RowsKeepTerms(ts, us) /\ RowsKeepFunding(ts, us) /\ RowsKeepRefunds(ts, us)

LEMMA OneRowMoves ==
  ASSUME NEW ts, NEW us, NEW w \in Wallets, SameStake(ts[w], us[w]),
         us[w].accepted = ts[w].accepted, \A v \in Wallets \ {w} : us[v] = ts[v]
  PROVE  RowsUnmoved(ts, us)
BY DEF RowsUnmoved, RowsKeepTerms, RowsKeepFunding, RowsKeepRefunds, SameStake

LEMMA SameRows ==
  ASSUME NEW ts
  PROVE  RowsUnmoved(ts, ts)
BY DEF RowsUnmoved, RowsKeepTerms, RowsKeepFunding, RowsKeepRefunds

LEMMA ReserveRows ==
  ASSUME NEW ts \in [Wallets -> Tenant], NEW w \in Wallets, NEW x \in Int, NEW us,
         us = Reserves(ts, w, x)
  PROVE  /\ RowsUnmoved(ts, us)
         /\ \A v \in Wallets :
              /\ us[v].openIndividualClaimAmount
                   = ts[v].openIndividualClaimAmount + (IF v = w THEN x ELSE 0)
              /\ us[v].approvedIndividualClaims = ts[v].approvedIndividualClaims
<1>1. PICK y, z : /\ y = ts[w].openIndividualClaimAmount + x
                  /\ z = ts[w].approvedIndividualClaims
  OBVIOUS
<1>2. PICK t : t = [ts[w] EXCEPT !.openIndividualClaimAmount = y]
  OBVIOUS
<1>3. /\ RowsUnmoved(ts, us)
      /\ us[w].openIndividualClaimAmount = y /\ us[w].approvedIndividualClaims = z
      /\ \A v \in Wallets \ {w} : us[v] = ts[v]
  <2>1. ts[w] \in Tenant
    OBVIOUS
  <2>2. /\ SameStake(ts[w], t) /\ t.accepted = ts[w].accepted
        /\ t.openIndividualClaimAmount = y /\ t.approvedIndividualClaims = z
    BY <1>1, <1>2, <2>1 DEF Tenant, SameStake
  <2>3. us = [ts EXCEPT ![w] = t]
    BY <1>1, <1>2 DEF Reserves
  <2>4. us[w] = t /\ \A v \in Wallets \ {w} : us[v] = ts[v]
    BY <2>3
  <2>5. RowsUnmoved(ts, us)
    <3>1. SameStake(ts[w], us[w]) /\ us[w].accepted = ts[w].accepted
      BY <2>2, <2>4
    <3> QED BY ONLY <2>4, <3>1, OneRowMoves
  <2> QED BY <2>2, <2>4, <2>5
<1>4. \A v \in Wallets : ts[v].openIndividualClaimAmount \in Int
  BY DEF Tenant
<1> QED BY <1>1, <1>3, <1>4

LEMMA ReleaseRows ==
  ASSUME NEW ts \in [Wallets -> Tenant], NEW k \in Claim,
         k.claimType = "INDIVIDUAL" => k.liableTenant \in Wallets,
         NEW us, us = Releases(ts, k)
  PROVE  /\ RowsUnmoved(ts, us)
         /\ \A v \in Wallets :
              /\ us[v].openIndividualClaimAmount = ts[v].openIndividualClaimAmount
                   - (IF k.claimType = "INDIVIDUAL" /\ v = k.liableTenant
                      THEN k.amount ELSE 0)
              /\ us[v].approvedIndividualClaims = ts[v].approvedIndividualClaims
<1>0. k.amount \in Int /\ \A v \in Wallets : ts[v].openIndividualClaimAmount \in Int
  BY DEF Tenant, Claim
<1>1. CASE k.claimType # "INDIVIDUAL"
  <2>1. us = ts
    BY <1>1 DEF Releases
  <2> QED BY <1>0, <1>1, <2>1, SameRows
<1>2. CASE k.claimType = "INDIVIDUAL"
  <2>1. PICK w \in Wallets, x \in Int : w = k.liableTenant /\ x = 0 - k.amount
    BY <1>0, <1>2
  <2>2. ts[w].openIndividualClaimAmount - k.amount = ts[w].openIndividualClaimAmount + x
    BY <1>0, <2>1
  <2>3. us = Reserves(ts, w, x)
    BY <1>2, <2>1, <2>2 DEF Releases, Reserves
  <2>4. /\ RowsUnmoved(ts, us)
        /\ \A v \in Wallets :
             /\ us[v].openIndividualClaimAmount
                  = ts[v].openIndividualClaimAmount + (IF v = w THEN x ELSE 0)
             /\ us[v].approvedIndividualClaims = ts[v].approvedIndividualClaims
    BY <2>3, ReserveRows
  <2>5. ASSUME NEW v \in Wallets
        PROVE  ts[v].openIndividualClaimAmount + (IF v = w THEN x ELSE 0)
                 = ts[v].openIndividualClaimAmount - (IF v = w THEN k.amount ELSE 0)
    BY <1>0, <2>1
  <2> QED BY <1>2, <2>1, <2>4, <2>5
<1> QED BY <1>1, <1>2

LEMMA DeductRows ==
  ASSUME NEW ts \in [Wallets -> Tenant], NEW k \in Claim,
         k.claimType = "INDIVIDUAL" => k.liableTenant \in Wallets,
         NEW us, us = Deducts(ts, k)
  PROVE  /\ RowsUnmoved(ts, us)
         /\ \A v \in Wallets :
              /\ us[v].openIndividualClaimAmount = ts[v].openIndividualClaimAmount
                   - (IF k.claimType = "INDIVIDUAL" /\ v = k.liableTenant
                      THEN k.amount ELSE 0)
              /\ us[v].approvedIndividualClaims = ts[v].approvedIndividualClaims
                   + (IF k.claimType = "INDIVIDUAL" /\ v = k.liableTenant
                      THEN k.amount ELSE 0)
<1>0. /\ k.amount \in Int
      /\ \A v \in Wallets : /\ ts[v].openIndividualClaimAmount \in Int
                            /\ ts[v].approvedIndividualClaims \in Int
  BY DEF Tenant, Claim
<1>1. CASE k.claimType # "INDIVIDUAL"
  <2>1. us = ts
    BY <1>1 DEF Deducts
  <2> QED BY <1>0, <1>1, <2>1, SameRows
<1>2. CASE k.claimType = "INDIVIDUAL"
  <2>0. PICK w \in Wallets : w = k.liableTenant
    BY <1>2
  <2>1. PICK y, z : /\ y = ts[w].openIndividualClaimAmount - k.amount
                    /\ z = ts[w].approvedIndividualClaims + k.amount
    OBVIOUS
  <2>2. PICK t : t = [ts[w] EXCEPT !.openIndividualClaimAmount = y,
                                   !.approvedIndividualClaims = z]
    OBVIOUS
  <2>3. /\ RowsUnmoved(ts, us)
        /\ us[w].openIndividualClaimAmount = y /\ us[w].approvedIndividualClaims = z
        /\ \A v \in Wallets \ {w} : us[v] = ts[v]
    <3>1. us = [ts EXCEPT ![w] = t]
      BY <1>2, <2>0, <2>1, <2>2 DEF Deducts
    <3>2. us[w] = t /\ \A v \in Wallets \ {w} : us[v] = ts[v]
      BY <3>1
    <3>3. ts[w] \in Tenant
      OBVIOUS
    <3>4. /\ SameStake(ts[w], t) /\ t.accepted = ts[w].accepted
          /\ t.openIndividualClaimAmount = y /\ t.approvedIndividualClaims = z
      BY <2>2, <3>3 DEF Tenant, SameStake
    <3>5. RowsUnmoved(ts, us)
      <4>1. SameStake(ts[w], us[w]) /\ us[w].accepted = ts[w].accepted
        BY <3>2, <3>4
      <4> QED BY ONLY <3>2, <4>1, OneRowMoves
    <3> QED BY <3>2, <3>4, <3>5
  <2> QED BY <1>0, <1>2, <2>0, <2>1, <2>3
<1> QED BY <1>1, <1>2

(* submitClaim.                                                            *)
LEMMA SubmittedMoves ==
  ASSUME NEW g \in Agreement, NEW h, NEW ts \in [Wallets -> Tenant], NEW us,
         NEW old \in Claim, old.status = "NONE",
         NEW k \in Claim, k.status = "PENDING", k.amount \in Nat,
         h = ReservesTotal(g, k.amount),
         \/ k.claimType = "SHARED" /\ k.liableTenant = NoWallet /\ us = ts
         \/ /\ k.claimType = "INDIVIDUAL" /\ k.liableTenant \in Wallets
            /\ us = Reserves(ts, k.liableTenant, k.amount)
  PROVE  Unmoved(g, h, ts, us) /\ LedgerMoves(g, h, ts, us, old, k) /\ Billed(k)
<1>1. /\ \A b : Amount(k, b) = IF b THEN k.amount ELSE 0
      /\ \A b : Amount(old, b) = IF b THEN old.amount ELSE 0
      /\ k.amount \in Int /\ old.amount \in Int
  BY DEF Amount, Claim
<1>2. /\ Pending(k) /\ ~ Accepted(k) /\ ~ Shared(k) /\ k.status # "NONE"
      /\ ~ Pending(old) /\ ~ Accepted(old) /\ ~ Shared(old) /\ ~ (old.status # "NONE")
  BY DEF Pending, Accepted, Shared
<1>3. /\ h.status = g.status /\ KeepsTerms(g, h) /\ KeepsFunding(g, h)
      /\ h.totalApprovedClaims = g.totalApprovedClaims
      /\ h.sharedApprovedClaims = g.sharedApprovedClaims
      /\ h.unresolvedClaimCount = g.unresolvedClaimCount + 1
      /\ h.claimCount = g.claimCount + 1
  BY <1>1, MoveFields
<1>4. /\ g.totalApprovedClaims \in Int /\ g.sharedApprovedClaims \in Int
      /\ g.unresolvedClaimCount \in Int /\ g.claimCount \in Int
  BY ConstantsAssumption DEF Agreement
<1>5. /\ RowsUnmoved(ts, us)
      /\ \A v \in Wallets :
           /\ us[v].openIndividualClaimAmount = ts[v].openIndividualClaimAmount
                + (IF Against(k, v) THEN k.amount ELSE 0)
           /\ us[v].approvedIndividualClaims = ts[v].approvedIndividualClaims
           /\ ts[v].openIndividualClaimAmount \in Int /\ ts[v].approvedIndividualClaims \in Int
  <2>1. \A v \in Wallets : ts[v].openIndividualClaimAmount \in Int
                           /\ ts[v].approvedIndividualClaims \in Int
    BY DEF Tenant
  <2>2. CASE k.claimType = "SHARED"
    <3>1. us = ts /\ \A v \in Wallets : ~ Against(k, v)
      BY <2>2, ConstantsAssumption DEF Against
    <3> QED BY <2>1, <3>1, SameRows
  <2>3. CASE k.claimType = "INDIVIDUAL"
    <3>1. PICK w \in Wallets : w = k.liableTenant
      BY <2>3
    <3>2. us = Reserves(ts, w, k.amount)
      BY <2>3, <3>1
    <3>3. \A v \in Wallets : Against(k, v) <=> v = w
      BY <3>1 DEF Against
    <3> QED BY <1>1, <2>1, <3>2, <3>3, ReserveRows
  <2> QED BY <2>2, <2>3
<1>6. /\ Amount(k, Accepted(k)) = 0 /\ Amount(old, Accepted(old)) = 0
      /\ Amount(k, Shared(k)) = 0 /\ Amount(old, Shared(old)) = 0
      /\ One(Pending(k)) = 1 /\ One(Pending(old)) = 0
      /\ One(k.status # "NONE") = 1 /\ One(old.status # "NONE") = 0
  BY <1>2 DEF One, Amount
<1>7. \A v \in Wallets :
        /\ Amount(k, Pending(k) /\ Against(k, v)) = IF Against(k, v) THEN k.amount ELSE 0
        /\ Amount(k, Accepted(k) /\ Against(k, v)) = 0
        /\ Amount(old, Pending(old) /\ Against(old, v)) = 0
        /\ Amount(old, Accepted(old) /\ Against(old, v)) = 0
  BY <1>2 DEF Amount
<1>8. LedgerMoves(g, h, ts, us, old, k)
  BY <1>1, <1>3, <1>4, <1>5, <1>6, <1>7 DEF LedgerMoves
<1>9. Unmoved(g, h, ts, us)
  BY <1>3, <1>5 DEF Unmoved, RowsUnmoved
<1>10. Billed(k)
  BY <1>1, ConstantsAssumption DEF Billed
<1> QED BY <1>8, <1>9, <1>10

(* A claim that leaves PENDING: a pending claim and its record with the    *)
(* votes of this call and the new status.                                  *)
Leaves(old, k, new, status) ==
  /\ old.status = "PENDING" /\ SameTerms(old, k) /\ new = Resolved(k, status)
  /\ 0 <= old.amount
  /\ old.claimType = "INDIVIDUAL" => old.liableTenant \in Wallets
  /\ old.claimType = "SHARED" => old.liableTenant \notin Wallets

LEMMA LeavingFields ==
  ASSUME NEW old \in Claim, NEW k \in Claim, NEW new, NEW status, Leaves(old, k, new, status)
  PROVE  /\ new.status = status /\ new.amount = old.amount
         /\ new.claimType = old.claimType /\ new.liableTenant = old.liableTenant
         /\ k.amount = old.amount /\ k.claimType = old.claimType
         /\ k.liableTenant = old.liableTenant
         /\ new.yesVotes = k.yesVotes /\ new.noVotes = k.noVotes
         /\ old.amount \in Int
         /\ \A w \in Wallets :
              (k.claimType = "INDIVIDUAL" /\ w = k.liableTenant) <=> Against(old, w)
<1>1. new = [k EXCEPT !.status = status]
  BY DEF Leaves, Resolved
<1>2. /\ new.status = status /\ new.amount = k.amount /\ new.claimType = k.claimType
      /\ new.liableTenant = k.liableTenant
      /\ new.yesVotes = k.yesVotes /\ new.noVotes = k.noVotes
  BY <1>1 DEF Claim
<1>3. old.claimType \in {"SHARED", "INDIVIDUAL"} /\ old.amount \in Int
  BY DEF Claim, ClaimType
<1> QED BY <1>2, <1>3 DEF Leaves, SameTerms, Against

(* withdrawPendingClaim and the rejections.                                *)
LEMMA DismissedMoves ==
  ASSUME NEW g \in Agreement, NEW h, NEW ts \in [Wallets -> Tenant], NEW us,
         NEW old \in Claim, NEW k \in Claim, NEW new,
         NEW status, status = "REJECTED" \/ status = "WITHDRAWN",
         Leaves(old, k, new, status), h = DismissesTotal(g, k), us = Releases(ts, k)
  PROVE  Unmoved(g, h, ts, us) /\ LedgerMoves(g, h, ts, us, old, new) /\ Billed(new)
<1>1. /\ new.status = status /\ new.amount = old.amount
      /\ new.claimType = old.claimType /\ new.liableTenant = old.liableTenant
      /\ k.amount = old.amount /\ old.amount \in Int /\ old.status = "PENDING"
      /\ \A w \in Wallets :
           (k.claimType = "INDIVIDUAL" /\ w = k.liableTenant) <=> Against(old, w)
  BY LeavingFields DEF Leaves
<1>2. /\ ~ Pending(new) /\ ~ Accepted(new) /\ ~ Shared(new) /\ new.status # "NONE"
      /\ Pending(old) /\ ~ Accepted(old) /\ ~ Shared(old) /\ old.status # "NONE"
  BY <1>1 DEF Pending, Accepted, Shared
<1>3. /\ h.status = g.status /\ KeepsTerms(g, h) /\ KeepsFunding(g, h)
      /\ h.totalApprovedClaims = g.totalApprovedClaims
      /\ h.sharedApprovedClaims = g.sharedApprovedClaims
      /\ h.unresolvedClaimCount = g.unresolvedClaimCount - 1
      /\ h.claimCount = g.claimCount
  BY MoveFields
<1>4. /\ g.totalApprovedClaims \in Int /\ g.sharedApprovedClaims \in Int
      /\ g.unresolvedClaimCount \in Int /\ g.claimCount \in Int
  BY ConstantsAssumption DEF Agreement
<1>5. /\ RowsUnmoved(ts, us)
      /\ \A v \in Wallets :
           /\ us[v].openIndividualClaimAmount = ts[v].openIndividualClaimAmount
                - (IF Against(old, v) THEN old.amount ELSE 0)
           /\ us[v].approvedIndividualClaims = ts[v].approvedIndividualClaims
           /\ ts[v].openIndividualClaimAmount \in Int /\ ts[v].approvedIndividualClaims \in Int
  <2>1. \A v \in Wallets : ts[v].openIndividualClaimAmount \in Int
                           /\ ts[v].approvedIndividualClaims \in Int
    BY DEF Tenant
  <2>2. k.claimType = "INDIVIDUAL" => k.liableTenant \in Wallets
    BY DEF Leaves, SameTerms
  <2> QED BY <1>1, <2>1, <2>2, ReleaseRows
<1>6. /\ Amount(new, Accepted(new)) = 0 /\ Amount(old, Accepted(old)) = 0
      /\ Amount(new, Shared(new)) = 0 /\ Amount(old, Shared(old)) = 0
      /\ One(Pending(new)) = 0 /\ One(Pending(old)) = 1
      /\ One(new.status # "NONE") = 1 /\ One(old.status # "NONE") = 1
  BY <1>2 DEF One, Amount
<1>7. \A v \in Wallets :
        /\ Amount(new, Pending(new) /\ Against(new, v)) = 0
        /\ Amount(new, Accepted(new) /\ Against(new, v)) = 0
        /\ Amount(old, Pending(old) /\ Against(old, v))
             = IF Against(old, v) THEN old.amount ELSE 0
        /\ Amount(old, Accepted(old) /\ Against(old, v)) = 0
  BY <1>2 DEF Amount
<1>8. LedgerMoves(g, h, ts, us, old, new)
  BY <1>1, <1>3, <1>4, <1>5, <1>6, <1>7 DEF LedgerMoves
<1>9. Unmoved(g, h, ts, us)
  BY <1>3, <1>5 DEF Unmoved, RowsUnmoved
<1>10. Billed(new)
  BY <1>1 DEF Billed, Leaves
<1> QED BY <1>8, <1>9, <1>10

(* The approvals.                                                          *)
LEMMA GrantedMoves ==
  ASSUME NEW g \in Agreement, NEW h, NEW ts \in [Wallets -> Tenant], NEW us,
         NEW old \in Claim, NEW k \in Claim, NEW new,
         Leaves(old, k, new, "APPROVED"), h = Approves(g, k), us = Deducts(ts, k)
  PROVE  Unmoved(g, h, ts, us) /\ LedgerMoves(g, h, ts, us, old, new) /\ Billed(new)
<1>1. /\ new.status = "APPROVED" /\ new.amount = old.amount
      /\ new.claimType = old.claimType /\ new.liableTenant = old.liableTenant
      /\ k.amount = old.amount /\ old.amount \in Int /\ old.status = "PENDING"
      /\ k.claimType = old.claimType
      /\ \A w \in Wallets :
           (k.claimType = "INDIVIDUAL" /\ w = k.liableTenant) <=> Against(old, w)
  BY LeavingFields DEF Leaves
<1>2. /\ ~ Pending(new) /\ Accepted(new) /\ new.status # "NONE"
      /\ Shared(new) <=> old.claimType = "SHARED"
      /\ Pending(old) /\ ~ Accepted(old) /\ ~ Shared(old) /\ old.status # "NONE"
  BY <1>1 DEF Pending, Accepted, Shared
<1>3. /\ h.status = g.status /\ KeepsTerms(g, h) /\ KeepsFunding(g, h)
      /\ h.totalApprovedClaims = g.totalApprovedClaims + old.amount
      /\ h.sharedApprovedClaims = g.sharedApprovedClaims
           + (IF old.claimType = "SHARED" THEN old.amount ELSE 0)
      /\ h.unresolvedClaimCount = g.unresolvedClaimCount - 1
      /\ h.claimCount = g.claimCount
  BY <1>1, MoveFields
<1>4. /\ g.totalApprovedClaims \in Int /\ g.sharedApprovedClaims \in Int
      /\ g.unresolvedClaimCount \in Int /\ g.claimCount \in Int
  BY ConstantsAssumption DEF Agreement
<1>5. /\ RowsUnmoved(ts, us)
      /\ \A v \in Wallets :
           /\ us[v].openIndividualClaimAmount = ts[v].openIndividualClaimAmount
                - (IF Against(old, v) THEN old.amount ELSE 0)
           /\ us[v].approvedIndividualClaims = ts[v].approvedIndividualClaims
                + (IF Against(old, v) THEN old.amount ELSE 0)
           /\ ts[v].openIndividualClaimAmount \in Int /\ ts[v].approvedIndividualClaims \in Int
  <2>1. \A v \in Wallets : ts[v].openIndividualClaimAmount \in Int
                           /\ ts[v].approvedIndividualClaims \in Int
    BY DEF Tenant
  <2>2. k.claimType = "INDIVIDUAL" => k.liableTenant \in Wallets
    BY DEF Leaves, SameTerms
  <2> QED BY <1>1, <2>1, <2>2, DeductRows
<1>6. /\ Amount(new, Accepted(new)) = old.amount /\ Amount(old, Accepted(old)) = 0
      /\ Amount(new, Shared(new)) = IF old.claimType = "SHARED" THEN old.amount ELSE 0
      /\ Amount(old, Shared(old)) = 0
      /\ One(Pending(new)) = 0 /\ One(Pending(old)) = 1
      /\ One(new.status # "NONE") = 1 /\ One(old.status # "NONE") = 1
  BY <1>1, <1>2 DEF One, Amount
<1>7. \A v \in Wallets :
        /\ Against(new, v) <=> Against(old, v)
        /\ Amount(new, Pending(new) /\ Against(new, v)) = 0
        /\ Amount(new, Accepted(new) /\ Against(new, v))
             = IF Against(old, v) THEN old.amount ELSE 0
        /\ Amount(old, Pending(old) /\ Against(old, v))
             = IF Against(old, v) THEN old.amount ELSE 0
        /\ Amount(old, Accepted(old) /\ Against(old, v)) = 0
  BY <1>1, <1>2 DEF Amount, Against
<1>8. LedgerMoves(g, h, ts, us, old, new)
  BY <1>1, <1>3, <1>4, <1>5, <1>6, <1>7 DEF LedgerMoves
<1>9. Unmoved(g, h, ts, us)
  BY <1>3, <1>5 DEF Unmoved, RowsUnmoved
<1>10. Billed(new)
  BY <1>1 DEF Billed, Leaves
<1> QED BY <1>8, <1>9, <1>10

-----------------------------------------------------------------------------
(* Votes                                                                   *)

(* The two thresholds of the code are the strict majority and its being    *)
(* out of reach.                                                           *)
LEMMA MajorityRule ==
  ASSUME NEW n \in Nat, NEW yes \in Nat, NEW no \in Nat
  PROVE  /\ yes >= RequiredApprovals(n) <=> 2 * yes > n
         /\ no >= n - RequiredApprovals(n) + 1 <=> 2 * (n - no) <= n
<1>1. PICK q \in Int : q = n \div 2
  OBVIOUS
<1>2. 2 * q <= n /\ n < 2 * q + 2
  BY <1>1
<1>3. RequiredApprovals(n) = q + 1
  BY <1>1 DEF RequiredApprovals
<1> QED BY <1>2, <1>3

(* A vote moves its counter by one, and the other not at all.              *)
LEMMA VoteMoves ==
  ASSUME NEW ballot \in [Wallets -> 0 .. 2], NEW w \in Wallets, ballot[w] = 0,
         NEW mark \in {1, 2}, NEW marked, marked[w] = mark,
         \A v \in Wallets \ {w} : marked[v] = ballot[v]
  PROVE  /\ Cardinality(Cast(ballot, 1)) \in Nat /\ Cardinality(Cast(ballot, 2)) \in Nat
         /\ Cardinality(Cast(marked, 1)) = Cardinality(Cast(ballot, 1)) + One(mark = 1)
         /\ Cardinality(Cast(marked, 2)) = Cardinality(Cast(ballot, 2)) + One(mark = 2)
<1>1. IsFiniteSet(Cast(ballot, 1)) /\ IsFiniteSet(Cast(ballot, 2))
  <2>1. Cast(ballot, 1) \subseteq Wallets /\ Cast(ballot, 2) \subseteq Wallets
    BY DEF Cast
  <2> QED BY <2>1, FS_Subset, ConstantsAssumption
<1>2. ASSUME NEW vote \in {1, 2}, IsFiniteSet(Cast(ballot, vote))
      PROVE  /\ Cardinality(Cast(ballot, vote)) \in Nat
             /\ Cardinality(Cast(marked, vote)) = Cardinality(Cast(ballot, vote))
                  + One(mark = vote)
  <2>1. \A v : v # w => (v \in Cast(marked, vote) <=> v \in Cast(ballot, vote))
    BY DEF Cast
  <2>2. /\ Cardinality(Cast(ballot, vote)) \in Nat
        /\ Cardinality(Cast(marked, vote)) = Cardinality(Cast(ballot, vote))
             + (One(w \in Cast(marked, vote)) - One(w \in Cast(ballot, vote)))
    BY <1>2, <2>1, CountMoves
  <2>3. (w \in Cast(marked, vote) <=> mark = vote) /\ w \notin Cast(ballot, vote)
    BY DEF Cast
  <2> QED BY <2>2, <2>3 DEF One
<1> QED BY <1>1, <1>2

(* The ballots of one agreement's claims.                                  *)
Ballots == [ClaimIds -> [Wallets -> 0 .. 2]]

(* A claim's record counts its ballot, on which only tenants are.          *)
Counts(ts, k, ballot) ==
  /\ k.yesVotes = Cardinality(Cast(ballot, 1)) /\ k.noVotes = Cardinality(Cast(ballot, 2))
  /\ \A w \in Wallets : ballot[w] # 0 => ts[w].exists

(* So it does after a call that may vote.                                  *)
LEMMA TallyCounted ==
  ASSUME NEW ts, NEW vs \in Ballots, NEW xs,
         NEW c \in ClaimIds, NEW old \in Claim, NEW k \in Claim,
         Counts(ts, old, vs[c]), Tallied(ts, vs, xs, c, old, k)
  PROVE  /\ SameTerms(old, k) /\ Counts(ts, k, xs[c])
         /\ \A d \in ClaimIds \ {c} : xs[d] = vs[d]
<1>1. CASE k = old /\ xs = vs
  BY <1>1 DEF SameTerms
<1>2. CASE Votes(ts, vs, xs, c, old, k)
  <2>1. PICK w \in Wallets, support \in BOOLEAN :
          /\ ts[w].exists /\ vs[c][w] = 0
          /\ xs = [vs EXCEPT ![c] = [vs[c] EXCEPT ![w] = IF support THEN 1 ELSE 2]]
          /\ k = IF support THEN [old EXCEPT !.yesVotes = old.yesVotes + 1]
                            ELSE [old EXCEPT !.noVotes = old.noVotes + 1]
    BY <1>2 DEF Votes
  <2>2. PICK mark \in {1, 2} : mark = IF support THEN 1 ELSE 2
    OBVIOUS
  <2>3. PICK marked : marked = [vs[c] EXCEPT ![w] = mark]
    OBVIOUS
  <2>4. xs = [vs EXCEPT ![c] = marked]
    BY <2>1, <2>2, <2>3
  <2>5. xs[c] = marked /\ \A d \in ClaimIds \ {c} : xs[d] = vs[d]
    BY <2>4 DEF Ballots
  <2>6. \A v \in Wallets : marked[v] # 0 => ts[v].exists
    <3>1. \A v \in Wallets : vs[c][v] # 0 => ts[v].exists
      BY DEF Counts
    <3>2. vs[c] \in [Wallets -> 0 .. 2]
      BY DEF Ballots
    <3> QED BY <2>1, <2>3, <3>1, <3>2
  <2>7. /\ Cardinality(Cast(marked, 1)) = old.yesVotes + One(mark = 1)
        /\ Cardinality(Cast(marked, 2)) = old.noVotes + One(mark = 2)
    <3>1. vs[c] \in [Wallets -> 0 .. 2]
      BY DEF Ballots
    <3>2. /\ old.yesVotes = Cardinality(Cast(vs[c], 1))
          /\ old.noVotes = Cardinality(Cast(vs[c], 2))
      BY DEF Counts
    <3>3. marked[w] = mark /\ \A v \in Wallets \ {w} : marked[v] = vs[c][v]
      BY <2>3, <3>1
    <3>4. /\ Cardinality(Cast(marked, 1)) = Cardinality(Cast(vs[c], 1)) + One(mark = 1)
          /\ Cardinality(Cast(marked, 2)) = Cardinality(Cast(vs[c], 2)) + One(mark = 2)
      BY <2>1, <3>1, <3>3, VoteMoves DEF One
    <3> QED BY <3>2, <3>4
  <2>8. old.yesVotes \in Nat /\ old.noVotes \in Nat
    BY DEF Claim
  <2>9. /\ SameTerms(old, k)
        /\ k.yesVotes = old.yesVotes + One(mark = 1) /\ k.noVotes = old.noVotes + One(mark = 2)
    <3>1. CASE support
      <4>1. PICK y : y = old.yesVotes + 1
        OBVIOUS
      <4>2. k = [old EXCEPT !.yesVotes = y]
        BY <2>1, <3>1, <4>1
      <4>3. SameTerms(old, k) /\ k.yesVotes = y /\ k.noVotes = old.noVotes
        BY <4>2 DEF Claim, SameTerms
      <4> QED BY <2>2, <2>8, <3>1, <4>1, <4>3 DEF One
    <3>2. CASE ~ support
      <4>1. PICK y : y = old.noVotes + 1
        OBVIOUS
      <4>2. k = [old EXCEPT !.noVotes = y]
        BY <2>1, <3>2, <4>1
      <4>3. SameTerms(old, k) /\ k.noVotes = y /\ k.yesVotes = old.yesVotes
        BY <4>2 DEF Claim, SameTerms
      <4> QED BY <2>2, <2>8, <3>2, <4>1, <4>3 DEF One
    <3> QED BY <3>1, <3>2
  <2> QED BY <2>5, <2>6, <2>7, <2>9 DEF Counts
<1> QED BY <1>1, <1>2 DEF Tallied

LEMMA BallotCounts ==
  ASSUME NEW g, NEW ts, NEW k, NEW ballot, NEW time, BallotSound(g, ts, k, ballot, time)
  PROVE  Counts(ts, k, ballot)
BY DEF BallotSound, Counts

(* What the outcome of the call makes of that.                             *)
Decided(g, k, new, time) ==
  /\ new.status = "APPROVED" => Approved(g, k)
  /\ new.status = "REJECTED" =>
       ~ Approved(g, k) /\ (Hopeless(g, k) \/ time > g.settlementDeadline)
  /\ new.status \in {"PENDING", "WITHDRAWN"} => ~ Approved(g, k) /\ ~ Hopeless(g, k)
  /\ new.status # "NONE"
  /\ new.yesVotes = k.yesVotes /\ new.noVotes = k.noVotes

LEMMA BallotStep ==
  ASSUME NEW g \in Agreement, NEW ts, RosterSound(g, ts), g.status # "NONE",
         NEW ballot, NEW k \in Claim, NEW new, NEW time \in Int, Decided(g, k, new, time),
         Counts(ts, k, ballot)
  PROVE  BallotSound(g, ts, new, ballot, time)
<1>1. PICK n, yes, no : /\ n = Cardinality(Existing(ts))
                        /\ yes = Cardinality(Cast(ballot, 1))
                        /\ no = Cardinality(Cast(ballot, 2))
  OBVIOUS
<1>2. /\ n = g.tenantCount /\ g.requiredApprovals = RequiredApprovals(n)
  BY <1>1 DEF RosterSound
<1>3. yes = k.yesVotes /\ no = k.noVotes /\ \A w \in Wallets : ballot[w] # 0 => ts[w].exists
  BY <1>1 DEF Counts
<1>4. n \in Nat /\ yes \in Nat /\ no \in Nat
  BY <1>2, <1>3 DEF Agreement, Claim
<1>5. (Approved(g, k) <=> 2 * yes > n) /\ (Hopeless(g, k) <=> 2 * (n - no) <= n)
  BY <1>2, <1>3, <1>4, MajorityRule DEF Approved, Hopeless
<1> QED BY <1>1, <1>3, <1>4, <1>5 DEF BallotSound, Decided

(* A claim still pending was not decided by the votes it has.              *)
LEMMA PendingUndecided ==
  ASSUME NEW g \in Agreement, NEW ts, RosterSound(g, ts), g.status # "NONE",
         NEW ballot, NEW k \in Claim, k.status = "PENDING", NEW time,
         BallotSound(g, ts, k, ballot, time)
  PROVE  ~ Approved(g, k) /\ ~ Hopeless(g, k)
<1>1. PICK n, yes, no : /\ n = Cardinality(Existing(ts))
                        /\ yes = Cardinality(Cast(ballot, 1))
                        /\ no = Cardinality(Cast(ballot, 2))
  OBVIOUS
<1>2. /\ n = g.tenantCount /\ g.requiredApprovals = RequiredApprovals(n)
      /\ yes = k.yesVotes /\ no = k.noVotes /\ 2 * yes <= n /\ 2 * (n - no) > n
  BY <1>1 DEF RosterSound, BallotSound
<1>3. n \in Nat /\ yes \in Nat /\ no \in Nat
  BY <1>1, <1>2 DEF Agreement, Claim
<1>4. (Approved(g, k) <=> 2 * yes > n) /\ (Hopeless(g, k) <=> 2 * (n - no) <= n)
  BY <1>1, <1>2, <1>3, MajorityRule DEF Approved, Hopeless
<1> QED BY <1>2, <1>3, <1>4

-----------------------------------------------------------------------------
(* The steps on claims                                                     *)

(* What they all have to show of the claim c they put as k.                *)
LEMMA MoveBooks ==
  ASSUME NEW g \in Agreement, NEW h, NEW ts, NEW us, NEW ks \in [ClaimIds -> Claim],
         NEW vs, NEW xs, NEW time \in Int, NEW later \in Int, time <= later,
         BooksSound(g, ts, ks, vs, time), g.status = "ACTIVE",
         NEW c \in ClaimIds, NEW k \in Claim, NEW ls, ls = Lists(ks, c, k),
         Unmoved(g, h, ts, us), LedgerMoves(g, h, ts, us, ks[c], k), Billed(k),
         BallotSound(g, ts, k, xs[c], time), \A d \in ClaimIds \ {c} : xs[d] = vs[d]
  PROVE  BooksSound(h, us, ls, xs, later)
<1>1. /\ h.status = g.status /\ KeepsTerms(g, h) /\ KeepsFunding(g, h)
      /\ RowsKeepTerms(ts, us) /\ RowsKeepFunding(ts, us) /\ RowsKeepRefunds(ts, us)
  BY DEF Unmoved
<1>2. ReadySound(h, us)
  BY <1>1, ReadyKept DEF BooksSound
<1>3. RosterSound(h, us)
  BY <1>1, RosterKept DEF BooksSound
<1>4. LedgerSound(h, us, ls)
  BY LedgerStep DEF BooksSound
<1>5. SettledSound(h, us)
  BY <1>1, UnsettledKept DEF BooksSound
<1>6. ASSUME NEW d \in ClaimIds
      PROVE  BallotSound(h, us, ls[d], xs[d], later)
  <2>1. CASE d = c
    <3>1. ls[d] = k
      BY <2>1 DEF Lists
    <3> QED BY <1>1, <2>1, <3>1, BallotKept
  <2>2. CASE d # c
    <3>1. ls[d] = ks[d] /\ xs[d] = vs[d]
      BY <2>2 DEF Lists
    <3>2. BallotSound(g, ts, ks[d], vs[d], time)
      BY DEF BooksSound
    <3> QED BY <1>1, <3>1, <3>2, BallotKept
  <2> QED BY <2>1, <2>2
<1> QED BY <1>2, <1>3, <1>4, <1>5, <1>6 DEF BooksSound

(* submitClaim.                                                            *)
LEMMA SubmittedBooks ==
  ASSUME NEW g \in Agreement, NEW h, NEW list, NEW ts \in [Wallets -> Tenant], NEW us,
         NEW ks \in [ClaimIds -> Claim], NEW ls, NEW vs \in Ballots,
         NEW time \in Int, NEW later \in Int, time <= later, Sound(g, list, ts, ks),
         BooksSound(g, ts, ks, vs, time), g.status = "ACTIVE", Submitted(g, h, ts, us, ks, ls)
  PROVE  BooksSound(h, us, ls, vs, later)
<1>1. PICK k \in Claim :
        /\ g.claimCount + 1 \in ClaimIds
        /\ k.status = "PENDING" /\ k.amount \in Nat /\ k.yesVotes = 0 /\ k.noVotes = 0
        /\ h = ReservesTotal(g, k.amount)
        /\ ls = Lists(ks, g.claimCount + 1, k)
        /\ \/ k.claimType = "SHARED" /\ k.liableTenant = NoWallet /\ us = ts
           \/ /\ k.claimType = "INDIVIDUAL" /\ k.liableTenant \in Wallets
              /\ us = Reserves(ts, k.liableTenant, k.amount)
  BY DEF Submitted
<1>2. PICK c \in ClaimIds : c = g.claimCount + 1
  BY <1>1
<1>3. ks[c].status = "NONE"
  <2>1. ClaimSound(g.claimCount, ts, ks[c], c)
    BY DEF Sound
  <2>2. c > g.claimCount
    BY <1>2, ConstantsAssumption DEF Agreement
  <2> QED BY <2>1, <2>2 DEF ClaimSound
<1>4. Unmoved(g, h, ts, us) /\ LedgerMoves(g, h, ts, us, ks[c], k) /\ Billed(k)
  <2>1. ks[c] \in Claim
    OBVIOUS
  <2> QED BY <1>1, <1>3, <2>1, SubmittedMoves
<1>5. BallotSound(g, ts, k, vs[c], time)
  <2>1. BallotSound(g, ts, ks[c], vs[c], time) /\ RosterSound(g, ts)
    BY DEF BooksSound
  <2>2. \A w \in Wallets : vs[c][w] = 0
    BY <1>3, <2>1 DEF BallotSound
  <2>3. Cast(vs[c], 1) = {} /\ Cast(vs[c], 2) = {}
    BY <2>2 DEF Cast
  <2>4. Cardinality(Cast(vs[c], 1)) = 0 /\ Cardinality(Cast(vs[c], 2)) = 0
    BY <2>3, FS_EmptySet
  <2>5. PICK n \in Int : n = Cardinality(Existing(ts)) /\ n > 0
    BY <2>1 DEF RosterSound, Agreement
  <2> QED BY <1>1, <2>2, <2>4, <2>5 DEF BallotSound
<1> QED BY <1>1, <1>2, <1>4, <1>5, MoveBooks

(* What a pending claim names, as its record is once it is counted.        *)
LEMMA PendingBilled ==
  ASSUME NEW g \in Agreement, NEW list, NEW ts, NEW ks \in [ClaimIds -> Claim],
         NEW c \in ClaimIds, ks[c].status = "PENDING",
         Sound(g, list, ts, ks), LedgerSound(g, ts, ks),
         NEW k, SameTerms(ks[c], k), NEW status
  PROVE  Leaves(ks[c], k, Resolved(k, status), status)
<1>1. ClaimSound(g.claimCount, ts, ks[c], c)
  BY DEF Sound
<1>2. ks[c].status # "NONE"
  OBVIOUS
<1>3. ks[c].claimType = "SHARED" => ks[c].liableTenant \notin Wallets
  BY <1>2 DEF LedgerSound
<1>4. /\ 0 <= ks[c].amount
      /\ ks[c].claimType = "INDIVIDUAL" => ks[c].liableTenant \in Wallets
  BY <1>1, <1>2 DEF ClaimSound
<1> QED BY <1>3, <1>4 DEF Leaves

(* A vote that decides nothing.                                            *)
LEMMA UndecidedBooks ==
  ASSUME NEW g \in Agreement, NEW h, NEW list, NEW ts \in [Wallets -> Tenant], NEW us,
         NEW ks \in [ClaimIds -> Claim], NEW ls, NEW vs \in Ballots,
         NEW xs, NEW c \in ClaimIds, ks[c].status = "PENDING",
         NEW later \in Int, now \in Int, now <= later, Sound(g, list, ts, ks),
         BooksSound(g, ts, ks, vs, now), g.status = "ACTIVE",
         Undecided(g, h, ts, us, ks, ls, vs, xs, c)
  PROVE  BooksSound(h, us, ls, xs, later)
<1>1. PICK k \in Claim :
        /\ Votes(ts, vs, xs, c, ks[c], k) /\ ~ Approved(g, k) /\ ~ Hopeless(g, k)
        /\ h = g /\ us = ts /\ ls = Lists(ks, c, k)
  BY DEF Undecided
<1>2. RosterSound(g, ts) /\ LedgerSound(g, ts, ks) /\ BallotSound(g, ts, ks[c], vs[c], now)
  BY DEF BooksSound
<1>3. PICK old \in Claim : old = ks[c]
  OBVIOUS
<1>4. /\ SameTerms(old, k) /\ Counts(ts, k, xs[c])
      /\ \A d \in ClaimIds \ {c} : xs[d] = vs[d]
  <2>1. Tallied(ts, vs, xs, c, old, k) /\ Counts(ts, old, vs[c])
    BY <1>1, <1>2, <1>3, BallotCounts DEF Tallied
  <2> QED BY <2>1, TallyCounted
<1>5. k.status = "PENDING" /\ old.status = "PENDING"
  BY <1>3, <1>4 DEF SameTerms
<1>6. BallotSound(g, ts, k, xs[c], now)
  <2>1. Decided(g, k, k, now)
    BY <1>1, <1>5 DEF Decided
  <2> QED BY <1>2, <1>4, <2>1, BallotStep
<1>7. Billed(k)
  <2>1. Leaves(ks[c], k, Resolved(k, "PENDING"), "PENDING")
    BY <1>2, <1>3, <1>4, PendingBilled
  <2> QED BY <2>1 DEF Billed, Leaves, SameTerms
<1>8. Unmoved(g, g, ts, ts)
  BY SameRows DEF RowsUnmoved, Unmoved, KeepsTerms, KeepsFunding
<1>9. LedgerMoves(g, g, ts, ts, old, k)
  <2>1. /\ k.amount = old.amount /\ k.status = old.status
        /\ k.claimType = old.claimType /\ k.liableTenant = old.liableTenant
    BY <1>4 DEF SameTerms
  <2>2. /\ Pending(k) <=> Pending(old)
        /\ Accepted(k) <=> Accepted(old)
        /\ Shared(k) <=> Shared(old)
        /\ \A w : Against(k, w) <=> Against(old, w)
    BY <2>1 DEF Pending, Accepted, Shared, Against
  <2>3. \A b : Amount(k, b) \in Int /\ Amount(k, b) = Amount(old, b)
    BY <2>1 DEF Amount, Claim
  <2>4. /\ g.totalApprovedClaims \in Int /\ g.sharedApprovedClaims \in Int
        /\ g.unresolvedClaimCount \in Int /\ g.claimCount \in Int
    BY ConstantsAssumption DEF Agreement
  <2>5. \A w \in Wallets : /\ ts[w].openIndividualClaimAmount \in Int
                           /\ ts[w].approvedIndividualClaims \in Int
    BY DEF Tenant
  <2>6. /\ Amount(k, Accepted(k)) - Amount(old, Accepted(old)) = 0
        /\ Amount(k, Shared(k)) - Amount(old, Shared(old)) = 0
        /\ One(Pending(k)) - One(Pending(old)) = 0
        /\ One(k.status # "NONE") - One(old.status # "NONE") = 0
    BY <2>1, <2>3, <1>5 DEF One, Pending, Accepted, Shared, Amount
  <2>7. \A w \in Wallets :
          /\ Amount(k, Pending(k) /\ Against(k, w))
               - Amount(old, Pending(old) /\ Against(old, w)) = 0
          /\ Amount(k, Accepted(k) /\ Against(k, w))
               - Amount(old, Accepted(old) /\ Against(old, w)) = 0
    <3>1. k.amount \in Int /\ k.amount = old.amount
      BY <2>1 DEF Claim
    <3> QED BY <2>2, <3>1 DEF Amount
  <2> QED BY <2>4, <2>5, <2>6, <2>7 DEF LedgerMoves
<1> QED BY <1>1, <1>3, <1>4, <1>6, <1>7, <1>8, <1>9, MoveBooks

(* A claim rejected or withdrawn.                                          *)
LEMMA DismissedBooks ==
  ASSUME NEW g \in Agreement, NEW h, NEW list, NEW ts \in [Wallets -> Tenant], NEW us,
         NEW ks \in [ClaimIds -> Claim], NEW ls, NEW vs \in Ballots,
         NEW xs, NEW c \in ClaimIds, ks[c].status = "PENDING",
         NEW later \in Int, now \in Int, now <= later, Sound(g, list, ts, ks),
         BooksSound(g, ts, ks, vs, now), g.status = "ACTIVE",
         Dismissed(g, h, ts, us, ks, ls, vs, xs, c)
  PROVE  BooksSound(h, us, ls, xs, later)
<1>1. PICK k \in Claim, status \in {"REJECTED", "WITHDRAWN"} :
        /\ Tallied(ts, vs, xs, c, ks[c], k)
        /\ status = "REJECTED" =>
             ~ Approved(g, k) /\ (Hopeless(g, k) \/ (k = ks[c] /\ now > g.settlementDeadline))
        /\ status = "WITHDRAWN" => k = ks[c]
        /\ h = DismissesTotal(g, k) /\ us = Releases(ts, k)
        /\ ls = Lists(ks, c, Resolved(k, status))
  BY DEF Dismissed
<1>2. RosterSound(g, ts) /\ LedgerSound(g, ts, ks) /\ BallotSound(g, ts, ks[c], vs[c], now)
  BY DEF BooksSound
<1>0. PICK old \in Claim : old = ks[c]
  OBVIOUS
<1>3. PICK new : new = Resolved(k, status)
  OBVIOUS
<1>4. /\ SameTerms(old, k) /\ Counts(ts, k, xs[c])
      /\ \A d \in ClaimIds \ {c} : xs[d] = vs[d]
  <2>1. Tallied(ts, vs, xs, c, old, k) /\ Counts(ts, old, vs[c])
    BY <1>0, <1>1, <1>2, <1>3, BallotCounts
  <2> QED BY <2>1, TallyCounted
<1>5. Leaves(old, k, new, status)
  BY <1>0, <1>2, <1>3, <1>4, PendingBilled
<1>6. /\ new.status = status /\ new.yesVotes = k.yesVotes /\ new.noVotes = k.noVotes
      /\ new \in Claim
  <2>1. new = [k EXCEPT !.status = status] /\ status \in ClaimStatus
    BY <1>0, <1>3 DEF Resolved, ClaimStatus
  <2> QED BY <1>5, <2>1, LeavingFields DEF Claim
<1>7. Unmoved(g, h, ts, us) /\ LedgerMoves(g, h, ts, us, old, new) /\ Billed(new)
  <2>1. h = DismissesTotal(g, k) /\ us = Releases(ts, k)
    BY <1>1
  <2> QED BY <1>5, <2>1, DismissedMoves
<1>8. BallotSound(g, ts, new, xs[c], now)
  <2>1. status = "WITHDRAWN" => ~ Approved(g, k) /\ ~ Hopeless(g, k)
    BY <1>1, <1>2, PendingUndecided
  <2>2. Decided(g, k, new, now)
    BY <1>1, <1>6, <2>1 DEF Decided
  <2> QED BY <1>2, <1>4, <2>2, BallotStep
<1> QED BY <1>0, <1>1, <1>3, <1>4, <1>6, <1>7, <1>8, MoveBooks

(* A claim approved.                                                       *)
LEMMA GrantedBooks ==
  ASSUME NEW g \in Agreement, NEW h, NEW list, NEW ts \in [Wallets -> Tenant], NEW us,
         NEW ks \in [ClaimIds -> Claim], NEW ls, NEW vs \in Ballots,
         NEW xs, NEW c \in ClaimIds, ks[c].status = "PENDING",
         NEW later \in Int, now \in Int, now <= later, Sound(g, list, ts, ks),
         BooksSound(g, ts, ks, vs, now), g.status = "ACTIVE",
         Granted(g, h, ts, us, ks, ls, vs, xs, c)
  PROVE  BooksSound(h, us, ls, xs, later)
<1>1. PICK k \in Claim :
        /\ Tallied(ts, vs, xs, c, ks[c], k) /\ Approved(g, k)
        /\ h = Approves(g, k) /\ us = Deducts(ts, k)
        /\ ls = Lists(ks, c, Resolved(k, "APPROVED"))
  BY DEF Granted
<1>2. RosterSound(g, ts) /\ LedgerSound(g, ts, ks) /\ BallotSound(g, ts, ks[c], vs[c], now)
  BY DEF BooksSound
<1>0. PICK old \in Claim : old = ks[c]
  OBVIOUS
<1>3. PICK new : new = Resolved(k, "APPROVED")
  OBVIOUS
<1>4. /\ SameTerms(old, k) /\ Counts(ts, k, xs[c])
      /\ \A d \in ClaimIds \ {c} : xs[d] = vs[d]
  <2>1. Tallied(ts, vs, xs, c, old, k) /\ Counts(ts, old, vs[c])
    BY <1>0, <1>1, <1>2, <1>3, BallotCounts
  <2> QED BY <2>1, TallyCounted
<1>5. Leaves(old, k, new, "APPROVED")
  BY <1>0, <1>2, <1>3, <1>4, PendingBilled
<1>6. /\ new.status = "APPROVED" /\ new.yesVotes = k.yesVotes /\ new.noVotes = k.noVotes
      /\ new \in Claim
  <2>1. new = [k EXCEPT !.status = "APPROVED"] /\ "APPROVED" \in ClaimStatus
    BY <1>0, <1>3 DEF Resolved, ClaimStatus
  <2> QED BY <1>5, <2>1, LeavingFields DEF Claim
<1>7. Unmoved(g, h, ts, us) /\ LedgerMoves(g, h, ts, us, old, new) /\ Billed(new)
  BY <1>1, <1>5, GrantedMoves
<1>8. BallotSound(g, ts, new, xs[c], now)
  <2>1. Decided(g, k, new, now)
    BY <1>1, <1>6 DEF Decided
  <2> QED BY <1>2, <1>4, <2>1, BallotStep
<1> QED BY <1>0, <1>1, <1>3, <1>4, <1>6, <1>7, <1>8, MoveBooks

LEMMA MovesBooks ==
  ASSUME NEW g \in Agreement, NEW h, NEW list, NEW ts \in [Wallets -> Tenant], NEW us,
         NEW ks \in [ClaimIds -> Claim], NEW ls, NEW vs \in Ballots,
         NEW xs, NEW later \in Int, now \in Int, now <= later, Sound(g, list, ts, ks),
         BooksSound(g, ts, ks, vs, now), MovesClaim(g, h, ts, us, ks, ls, vs, xs)
  PROVE  BooksSound(h, us, ls, xs, later)
<1>1. g.status = "ACTIVE"
  BY DEF MovesClaim
<1>2. CASE Submitted(g, h, ts, us, ks, ls) /\ xs = vs
  BY <1>1, <1>2, SubmittedBooks
<1>3. ASSUME NEW c \in ClaimIds, ks[c].status = "PENDING",
             \/ Undecided(g, h, ts, us, ks, ls, vs, xs, c)
             \/ Dismissed(g, h, ts, us, ks, ls, vs, xs, c)
             \/ Granted(g, h, ts, us, ks, ls, vs, xs, c)
      PROVE  BooksSound(h, us, ls, xs, later)
  <2>1. CASE Undecided(g, h, ts, us, ks, ls, vs, xs, c)
    BY <1>1, <1>3, <2>1, UndecidedBooks
  <2>2. CASE Dismissed(g, h, ts, us, ks, ls, vs, xs, c)
    BY <1>1, <1>3, <2>2, DismissedBooks
  <2>3. CASE Granted(g, h, ts, us, ks, ls, vs, xs, c)
    BY <1>1, <1>3, <2>3, GrantedBooks
  <2> QED BY <1>3, <2>1, <2>2, <2>3
<1> QED BY <1>2, <1>3 DEF MovesClaim

-----------------------------------------------------------------------------
(* Settlement                                                              *)

(* Sums of claim amounts are never negative.                               *)
LEMMA AmountsNotNegative ==
  ASSUME NEW g, NEW ts, NEW ks \in [ClaimIds -> Claim], LedgerSound(g, ts, ks)
  PROVE  /\ g.totalApprovedClaims \in Nat /\ g.sharedApprovedClaims \in Nat
         /\ \A w \in Wallets : /\ ts[w].openIndividualClaimAmount \in Nat
                               /\ ts[w].approvedIndividualClaims \in Nat
<1>1. IsFiniteSet(ClaimIds)
  BY ClaimColumns
<1>2. ASSUME NEW c \in ClaimIds, NEW selected, selected => ks[c].status # "NONE"
      PROVE  Amount(ks[c], selected) \in Nat
  <2>1. selected => ks[c].amount \in Nat
    BY <1>2 DEF LedgerSound, Claim
  <2> QED BY <2>1 DEF Amount
<1>3. ASSUME NEW f, f \in [ClaimIds -> Int], \A c \in ClaimIds : f[c] \in Nat
      PROVE  SumFunction(f) \in Nat
  <2>1. SumFunction(f) = SumFunctionOnSet(f, ClaimIds)
    BY <1>3, SumDomain
  <2>2. SumFunctionOnSet(f, ClaimIds) \in Nat
    BY <1>1, <1>3, SumNat
  <2> QED BY <2>1, <2>2
<1>4. SumFunction(AcceptedAmounts(ks)) \in Nat
  <2>1. \A c \in ClaimIds : AcceptedAmounts(ks)[c] \in Nat
    BY <1>2 DEF AcceptedAmounts, Accepted
  <2> QED BY <1>3, <2>1, ClaimColumns
<1>5. SumFunction(SharedAmounts(ks)) \in Nat
  <2>1. \A c \in ClaimIds : SharedAmounts(ks)[c] \in Nat
    BY <1>2 DEF SharedAmounts, Shared, Accepted
  <2> QED BY <1>3, <2>1, ClaimColumns
<1>6. ASSUME NEW w \in Wallets
      PROVE  SumFunction(OpenAgainst(ks, w)) \in Nat /\ SumFunction(AcceptedAgainst(ks, w)) \in Nat
  <2>1. \A c \in ClaimIds : OpenAgainst(ks, w)[c] \in Nat
    BY <1>2 DEF OpenAgainst, Pending
  <2>2. \A c \in ClaimIds : AcceptedAgainst(ks, w)[c] \in Nat
    BY <1>2 DEF AcceptedAgainst, Accepted
  <2>3. OpenAgainst(ks, w) \in [ClaimIds -> Int] /\ AcceptedAgainst(ks, w) \in [ClaimIds -> Int]
    BY ClaimColumns
  <2> QED BY <1>3, <2>1, <2>2, <2>3
<1> QED BY <1>4, <1>5, <1>6 DEF LedgerSound

(* So nobody's own claims exceed what it put in.                           *)
LEMMA LeftNotNegative ==
  ASSUME NEW g, NEW list, NEW ts \in [Wallets -> Tenant], NEW ks \in [ClaimIds -> Claim],
         Sound(g, list, ts, ks), LedgerSound(g, ts, ks)
  PROVE  /\ Left(ts) \in [Wallets -> Nat]
         /\ \A w \in Wallets :
              Left(ts)[w] = ts[w].fundedAmount - ts[w].approvedIndividualClaims
<1>1. ASSUME NEW w \in Wallets
      PROVE  ts[w].fundedAmount - ts[w].approvedIndividualClaims \in Nat
  <2>1. TenantSound(g.status, ts[w])
    BY DEF Sound
  <2>2. /\ ts[w].openIndividualClaimAmount \in Nat /\ ts[w].approvedIndividualClaims \in Nat
    BY AmountsNotNegative
  <2>3. ts[w].fundedAmount \in Int
    BY DEF Tenant
  <2> QED BY <2>1, <2>2, <2>3 DEF TenantSound
<1> QED BY <1>1 DEF Left

(* Settlement takes from each tenant its allocation of the shared claims.  *)
Unrefunded(ts) == \A w \in Wallets : ts[w].refundAmount = 0
ChargesAllocation(g, n, remaining, alloc, us) ==
  /\ SumFunction(Refunded(us)) + g.totalApprovedClaims = g.totalFunded
  /\ SumFunction(Left(us)) = TotalRemaining(remaining)
  /\ remaining \in [1 .. n -> Nat]
  /\ \A w \in Wallets :
       \/ Left(us)[w] = 0 /\ Charged(us, w) = 0
       \/ \E i \in 1 .. n : Left(us)[w] = remaining[i] /\ Charged(us, w) = alloc[i]

SettlesBy(g, n, list, ts, remaining, s, us) ==
  /\ n \in Nat /\ list \in [1 .. n -> Wallets] /\ remaining \in [1 .. n -> Int]
  /\ LeftWith(n, list, ts, remaining)
  /\ s \in Nat /\ s = g.sharedApprovedClaims /\ s <= TotalRemaining(remaining)
  /\ RowsKeepFunding(ts, us) /\ RowsKeepClaims(ts, us)
  /\ RefundsStored(n, list, ts, Refunds(remaining, s), us)

LEMMA SettlementCharges ==
  ASSUME NEW g \in Agreement, NEW n, NEW list,
         NEW ts \in [Wallets -> Tenant], NEW ks \in [ClaimIds -> Claim],
         Sound(g, list, ts, ks), LedgerSound(g, ts, ks), Unrefunded(ts),
         NEW remaining, NEW s, NEW us \in [Wallets -> Tenant],
         SettlesBy(g, n, list, ts, remaining, s, us)
  PROVE  ChargesAllocation(g, n, remaining, Allocation(remaining, s), us)
<1>0. /\ n \in Nat /\ list \in [1 .. n -> Wallets] /\ remaining \in [1 .. n -> Int]
      /\ LeftWith(n, list, ts, remaining)
      /\ s \in Nat /\ s = g.sharedApprovedClaims /\ s <= TotalRemaining(remaining)
      /\ RowsKeepFunding(ts, us) /\ RowsKeepClaims(ts, us)
      /\ RefundsStored(n, list, ts, Refunds(remaining, s), us)
  BY DEF SettlesBy
<1>1. PICK alloc, refunds : alloc = Allocation(remaining, s) /\ refunds = Refunds(remaining, s)
  OBVIOUS
<1>2. /\ alloc \in [1 .. n -> Int] /\ refunds \in [1 .. n -> Int]
      /\ SumFunction(refunds) = TotalRemaining(remaining) - s
  BY <1>0, <1>1, SettlementIsExact
<1>3. \A i \in 1 .. n : refunds[i] = remaining[i] - alloc[i]
  BY <1>0, <1>1 DEF Refunds
<1>4. Left(ts) \in [Wallets -> Nat] /\ Left(us) = Left(ts)
      /\ \A w \in Wallets : Left(ts)[w] = ts[w].fundedAmount - ts[w].approvedIndividualClaims
  <2>1. Left(us) = Left(ts)
    BY <1>0 DEF Left, RowsKeepFunding, RowsKeepClaims
  <2> QED BY <2>1, LeftNotNegative
<1>5. ASSUME NEW i \in 1 .. n
      PROVE  /\ Left(ts)[list[i]] = remaining[i] /\ remaining[i] \in Nat
             /\ us[list[i]].refundAmount = refunds[i]
  <2>1. PICK w \in Wallets : w = list[i]
    BY <1>0
  <2>2. Left(ts)[w] = remaining[i] /\ Left(ts)[w] \in Nat
    BY <1>0, <1>4, <2>1 DEF LeftWith
  <2>3. us[w] = [ts[w] EXCEPT !.refundAmount = refunds[i]]
    BY <1>0, <1>1, <2>1 DEF RefundsStored
  <2>4. ts[w] \in Tenant
    OBVIOUS
  <2>5. us[w].refundAmount = refunds[i]
    BY <2>3, <2>4 DEF Tenant
  <2> QED BY <2>1, <2>2, <2>5
<1>6. ListSound(list, ts) /\ OneToOne(list, 1 .. n)
  BY <1>0 DEF Sound, ListSound, OneToOne
<1>7. ASSUME NEW w \in Wallets, w \notin Listed(list, 1 .. n)
      PROVE  Left(ts)[w] = 0 /\ us[w].refundAmount = 0
  <2>1. ~ ts[w].exists
    BY <1>0, <1>6, <1>7 DEF ListSound, Listed
  <2>2. TenantSound(g.status, ts[w])
    BY DEF Sound
  <2>3. ts[w].fundedAmount \in Int /\ ts[w].requiredAmount \in Int
    BY DEF Tenant
  <2>4. ts[w].fundedAmount = 0 /\ ts[w].approvedIndividualClaims = 0
    BY <2>1, <2>2, <2>3 DEF TenantSound
  <2>5. us[w] = ts[w]
    BY <1>0, <1>7 DEF RefundsStored
  <2> QED BY <1>4, <2>4, <2>5 DEF Unrefunded
<1>8. SumFunction(Left(us)) = TotalRemaining(remaining)
  <2>1. HeldByListed(n, list, Left(ts), remaining)
    BY <1>0, <1>4, <1>5, <1>7 DEF HeldByListed
  <2> QED BY <1>0, <1>4, <1>6, <2>1, SumOverList DEF TotalRemaining
<1>9. SumFunction(Refunded(us)) = SumFunction(refunds)
  <2>1. Refunded(us) \in [Wallets -> Int] /\ \A w \in Wallets : Refunded(us)[w] = us[w].refundAmount
    BY DEF Refunded, Tenant
  <2>2. HeldByListed(n, list, Refunded(us), refunds)
    <3>1. \A i \in 1 .. n : Refunded(us)[list[i]] = refunds[i]
      BY <1>0, <1>5, <2>1
    <3>2. \A w \in Wallets \ Listed(list, 1 .. n) : Refunded(us)[w] = 0
      BY <1>7, <2>1
    <3> QED BY <1>2, <2>1, <3>1, <3>2 DEF HeldByListed
  <2> QED BY <1>0, <1>6, <2>2, SumOverList
<1>10. SumFunction(Refunded(us)) + g.totalApprovedClaims = g.totalFunded
  <2>1. SumFunction(Funded(ts)) = TotalRemaining(remaining) + SumFunction(Deducted(ts))
    BY <1>0, <1>6, WhatIsLeft DEF Sound, LeftWith
  <2>2. TotalsSound(g, ts)
    BY DEF Sound
  <2>3. SumFunction(Deducted(ts)) \in Int /\ TotalRemaining(remaining) \in Int
    BY <1>0, ColumnsTyped, SumOfSequence DEF TotalRemaining
  <2> QED BY <1>0, <1>2, <1>9, <2>1, <2>2, <2>3 DEF TotalsSound
<1>11. ASSUME NEW w \in Wallets
       PROVE  \/ Left(us)[w] = 0 /\ Charged(us, w) = 0
              \/ \E i \in 1 .. n : Left(us)[w] = remaining[i] /\ Charged(us, w) = alloc[i]
  <2>1. CASE w \notin Listed(list, 1 .. n)
    BY <1>4, <1>7, <2>1 DEF Charged
  <2>2. CASE w \in Listed(list, 1 .. n)
    <3>1. PICK i \in 1 .. n : list[i] = w
      BY <2>2 DEF Listed
    <3>2. Left(us)[w] = remaining[i] /\ us[w].refundAmount = remaining[i] - alloc[i]
      BY <1>3, <1>4, <1>5, <3>1
    <3>3. remaining[i] \in Int /\ alloc[i] \in Int
      BY <1>0, <1>2
    <3> QED BY <3>2, <3>3 DEF Charged
  <2> QED BY <2>1, <2>2
<1>12. remaining \in [1 .. n -> Nat]
  BY <1>0, <1>5
<1> QED BY <1>1, <1>8, <1>10, <1>11, <1>12 DEF ChargesAllocation

(* And that is exact, for one tenant and for all.                          *)
LEMMA ChargesExact ==
  ASSUME NEW n \in Nat, NEW remaining \in [1 .. n -> Nat], NEW s \in Nat,
         s <= TotalRemaining(remaining), NEW left, NEW charged,
         \/ left = 0 /\ charged = 0
         \/ \E i \in 1 .. n : left = remaining[i] /\ charged = Allocation(remaining, s)[i]
  PROVE  /\ charged \in 0 .. left
         /\ s > 0 => /\ charged * TotalRemaining(remaining)
                          < s * left + TotalRemaining(remaining)
                     /\ charged * TotalRemaining(remaining)
                          > s * left - TotalRemaining(remaining)
<1>1. TotalRemaining(remaining) \in Int /\ TotalRemaining(remaining) >= s
  BY SumOfSequence DEF TotalRemaining
<1>2. CASE left = 0 /\ charged = 0
  <2>1. PICK t \in Int : t = TotalRemaining(remaining)
    BY <1>1
  <2>2. charged * t = 0 /\ s * left = 0
    BY <1>2, <2>1
  <2> QED BY <1>1, <1>2, <2>1, <2>2
<1>3. ASSUME NEW i \in 1 .. n, left = remaining[i], charged = Allocation(remaining, s)[i]
      PROVE  /\ charged \in 0 .. left
             /\ s > 0 => /\ charged * TotalRemaining(remaining)
                              < s * left + TotalRemaining(remaining)
                         /\ charged * TotalRemaining(remaining)
                              > s * left - TotalRemaining(remaining)
  <2>1. remaining \in [1 .. n -> Int] /\ remaining[i] \in Nat
    OBVIOUS
  <2>2. /\ Allocation(remaining, s) \in [1 .. n -> Int]
        /\ Within(Allocation(remaining, s), remaining, n)
    BY <2>1, SettlementIsExact
  <2>3. charged \in 0 .. left
    BY <1>3, <2>1, <2>2 DEF Within
  <2> QED BY <1>3, <2>3, AllocationNearShare
<1> QED BY <1>2, <1>3

(* finalizeAgreement.                                                      *)
LEMMA SettledBooks ==
  ASSUME EscrowInv, NEW a \in AgreementIds, NEW g, g = agreements[a], NEW h,
         NEW ts, ts = tenants[a], NEW us \in [Wallets -> Tenant], NEW ks, ks = claims[a], NEW vs,
         NEW time \in Int, NEW later \in Int, time <= later,
         BooksSound(g, ts, ks, vs, time), Settled(a, g, h, ts, us)
  PROVE  BooksSound(h, us, ks, vs, later)
<1>1. /\ g.status = "ACTIVE" /\ h.status = "FINALIZED"
      /\ KeepsTerms(g, h) /\ KeepsFunding(g, h) /\ KeepsClaims(g, h)
      /\ RowsKeepTerms(ts, us) /\ RowsKeepFunding(ts, us) /\ RowsKeepClaims(ts, us)
      /\ us = StoredRefunds(a)
  BY DEF Settled
<1>2. PICK list, n, remaining : /\ list = agreementTenants[a] /\ n = Len(list)
                                /\ remaining = RemainingBalances(a)
  OBVIOUS
<1>3. /\ g \in Agreement /\ ts \in [Wallets -> Tenant] /\ ks \in [ClaimIds -> Claim]
      /\ Sound(g, list, ts, ks)
  BY <1>2, AgreementSound
<1>4. ReadySound(h, us) /\ RosterSound(h, us) /\ LedgerSound(h, us, ks)
  BY <1>1, ReadyKept, RosterKept, LedgerKept DEF BooksSound
<1>5. \A c \in ClaimIds : BallotSound(h, us, ks[c], vs[c], later)
  BY <1>1, <1>3, BallotKept DEF BooksSound
<1>6. PICK s : s = g.sharedApprovedClaims
  OBVIOUS
<1>7. s \in Nat /\ s <= TotalRemaining(remaining)
  BY <1>2, <1>6, SharedClaimsFit
<1>8. /\ n \in Nat /\ list \in [1 .. n -> Wallets] /\ remaining \in [1 .. n -> Int]
      /\ LeftWith(n, list, ts, remaining)
      /\ RefundsStored(n, list, ts, Refunds(remaining, s), us)
  BY <1>1, <1>2, <1>6, StoredRefundsAre
<1>9. LedgerSound(g, ts, ks) /\ Unrefunded(ts)
  BY <1>1 DEF BooksSound, SettledSound, Unrefunded
<1>10. /\ SumFunction(Refunded(us)) + g.totalApprovedClaims = g.totalFunded
       /\ SumFunction(Left(us)) = TotalRemaining(remaining)
       /\ remaining \in [1 .. n -> Nat]
       /\ \A w \in Wallets :
            \/ Left(us)[w] = 0 /\ Charged(us, w) = 0
            \/ \E i \in 1 .. n :
                 Left(us)[w] = remaining[i] /\ Charged(us, w) = Allocation(remaining, s)[i]
  <2>1. SettlesBy(g, n, list, ts, remaining, s, us)
    BY <1>1, <1>6, <1>7, <1>8 DEF SettlesBy
  <2>2. ChargesAllocation(g, n, remaining, Allocation(remaining, s), us)
    BY <1>3, <1>9, <2>1, SettlementCharges
  <2> QED BY <1>8, <2>2 DEF ChargesAllocation
<1>11. ASSUME NEW w \in Wallets
       PROVE  /\ Charged(us, w) \in 0 .. Left(us)[w]
              /\ s > 0 => /\ Charged(us, w) * SumFunction(Left(us))
                               < s * Left(us)[w] + SumFunction(Left(us))
                          /\ Charged(us, w) * SumFunction(Left(us))
                               > s * Left(us)[w] - SumFunction(Left(us))
  <2>1. PICK left, charged : left = Left(us)[w] /\ charged = Charged(us, w)
    OBVIOUS
  <2>2. \/ left = 0 /\ charged = 0
        \/ \E i \in 1 .. n : left = remaining[i] /\ charged = Allocation(remaining, s)[i]
    BY <1>10, <2>1
  <2>3. /\ charged \in 0 .. left
        /\ s > 0 => /\ charged * TotalRemaining(remaining)
                         < s * left + TotalRemaining(remaining)
                    /\ charged * TotalRemaining(remaining)
                         > s * left - TotalRemaining(remaining)
    BY <1>7, <1>8, <1>10, <2>2, ChargesExact
  <2> QED BY <1>10, <2>1, <2>3
<1>12. SettledSound(h, us)
  <2>1. /\ h.sharedApprovedClaims = s /\ h.totalApprovedClaims = g.totalApprovedClaims
        /\ h.totalFunded = g.totalFunded
    BY <1>1, <1>6 DEF KeepsClaims, KeepsFunding
  <2> QED BY <1>1, <1>10, <1>11, <2>1 DEF SettledSound
<1> QED BY <1>4, <1>5, <1>12 DEF BooksSound

-----------------------------------------------------------------------------
(* Creation                                                                *)

(* The tenants of a new agreement are the listed ones, each counted once.  *)
LEMMA RosterCounted ==
  ASSUME NEW n \in Nat, n > 0, NEW list, NEW ts, NEW S, S = Existing(ts),
         list \in [1 .. n -> Wallets], IsInjective(list),
         \A w \in Wallets : ts[w].exists <=> \E i \in 1 .. n : list[i] = w
  PROVE  Cardinality(S) = n
<1>1. IsFiniteSet(1 .. n) /\ Cardinality(1 .. n) = n
  BY FS_Interval
<1>2. list \in [1 .. n -> S]
  <2>1. \A i \in 1 .. n : list[i] \in S
    BY DEF Existing
  <2> QED BY <2>1
<1>3. \A w \in S : \E i \in 1 .. n : list[i] = w
  BY DEF Existing
<1>4. list \in Surjection(1 .. n, S) /\ list \in Injection(1 .. n, S)
  BY <1>2, <1>3 DEF Surjection, Injection
<1> QED BY <1>1, <1>4, FS_Surjection

(* createAgreement.                                                        *)
LEMMA OpenedBooks ==
  ASSUME EscrowInv, NEW a \in AgreementIds, NEW g, g = agreements[a], NEW ts, ts = tenants[a],
         NEW h, h = agreements'[a], NEW us, us = tenants'[a], NEW ks, ks = claims[a],
         NEW vs \in Ballots, NEW time, NEW later,
         BooksSound(g, ts, ks, vs, time), Opens(a)
  PROVE  BooksSound(h, us, ks, vs, later)
<1>1. PICK p \in Proposals :
        /\ Unused(a) /\ RosterValid(p) /\ AmountsValid(p)
        /\ h = NewAgreement(p) /\ us = RegisteredTenants(p)
  BY DEF Opens
<1>2. PICK n, list : n = Len(p.tenantAddresses) /\ list = p.tenantAddresses
  OBVIOUS
<1>3. p \in Proposal
  BY ConstantsAssumption
<1>4. /\ n \in Nat /\ n > 0 /\ list \in [1 .. n -> Wallets] /\ IsInjective(list)
      /\ \A i \in 1 .. n : list[i] # p.recipient
      /\ p.requiredAmounts \in [1 .. n -> Nat]
      /\ SumFunction(p.requiredAmounts) <= MAX_UINT128
  <2>1. list \in Seq(Wallets \cup {NoWallet}) /\ p.requiredAmounts \in Seq(Uint128)
    BY <1>2, <1>3 DEF Proposal
  <2>2. /\ Len(list) = Len(p.requiredAmounts) /\ n \in MIN_TENANTS .. MAX_TENANTS
        /\ \A i \in DOMAIN list : list[i] \notin {NoWallet, p.recipient}
        /\ IsInjective(list)
    BY <1>1, <1>2 DEF RosterValid
  <2>3. n \in Nat /\ n > 0 /\ DOMAIN list = 1 .. n
    BY <1>2, <2>1, <2>2, ConstantsAssumption
  <2>4. list \in [1 .. n -> Wallets]
    BY <1>2, <2>1, <2>2, <2>3
  <2>5. p.requiredAmounts \in [1 .. n -> Nat]
    BY <1>2, <2>1, <2>2, ConstantsAssumption DEF Uint128
  <2>6. SumFunction(p.requiredAmounts) <= MAX_UINT128
    BY <1>1 DEF AmountsValid
  <2> QED BY <2>2, <2>3, <2>4, <2>5, <2>6
<1>5. ASSUME NEW w \in Wallets
      PROVE  Untouched(us[w]) /\ (us[w].exists <=> \E i \in 1 .. n : list[i] = w)
  <2>1. /\ p.tenantAddresses \in [1 .. n -> Wallets] /\ p.requiredAmounts \in [1 .. n -> Nat]
        /\ IsInjective(p.tenantAddresses) /\ n \in Nat
    BY <1>2, <1>4
  <2>2. /\ Untouched(RegisteredTenants(p)[w])
        /\ RegisteredTenants(p)[w].exists <=> \E i \in 1 .. n : p.tenantAddresses[i] = w
    BY ONLY <2>1, RegisteredRow, w \in Wallets
  <2> QED BY <1>1, <1>2, <2>2
<1>6. /\ h.status = "FUNDING" /\ ~ h.recipientAccepted /\ h.recipient = p.recipient
      /\ h.tenantCount = n /\ h.requiredApprovals = RequiredApprovals(n)
      /\ h.totalRequired = SumFunction(p.requiredAmounts)
      /\ KeepsClaims(g, h)
  BY <1>1, <1>2 DEF NewAgreement, BlankAgreement, Unused, KeepsClaims
<1>7. ReadySound(h, us)
  BY <1>6 DEF ReadySound, Complete
<1>8. RosterSound(h, us)
  <2>1. Cardinality(Existing(us)) = n
    BY <1>4, <1>5, RosterCounted
  <2>2. h.recipient \notin Existing(us)
    BY <1>4, <1>5, <1>6 DEF Existing
  <2> QED BY <1>4, <1>6, <2>1, <2>2 DEF RosterSound
<1>9. \A w \in Wallets : ts[w] = BlankTenant
  BY <1>1 DEF Unused
<1>10. LedgerSound(h, us, ks)
  <2>1. RowsKeepClaims(ts, us)
    BY <1>5, <1>9 DEF RowsKeepClaims, Untouched, BlankTenant
  <2> QED BY <1>6, <2>1, LedgerKept DEF BooksSound
<1>11. ASSUME NEW c \in ClaimIds
       PROVE  BallotSound(h, us, ks[c], vs[c], later)
  <2>1. BallotSound(g, ts, ks[c], vs[c], time)
    BY DEF BooksSound
  <2>2. \A w \in Wallets : vs[c][w] = 0
    BY <1>9, <2>1 DEF BallotSound, BlankTenant
  <2>3. ks[c].status = "NONE"
    <3>1. ClaimSound(g.claimCount, ts, ks[c], c)
      BY AgreementSound DEF Sound
    <3>2. g.claimCount = 0
      BY <1>1 DEF Unused, BlankAgreement
    <3>3. c > 0
      BY ConstantsAssumption DEF ClaimIds
    <3> QED BY <3>1, <3>2, <3>3 DEF ClaimSound
  <2>4. /\ ks[c].yesVotes = Cardinality(Cast(vs[c], 1))
        /\ ks[c].noVotes = Cardinality(Cast(vs[c], 2))
    BY <2>1 DEF BallotSound
  <2> QED BY <2>2, <2>3, <2>4 DEF BallotSound
<1>12. SettledSound(h, us)
  <2>1. \A w \in Wallets : us[w].refundAmount = 0
    BY <1>5 DEF Untouched
  <2> QED BY <1>6, <2>1 DEF SettledSound
<1> QED BY <1>7, <1>8, <1>10, <1>11, <1>12 DEF BooksSound

(* Before anything is created there is nothing to be wrong.                *)
LEMMA InitBooks == Init => BooksInv
<1> SUFFICES ASSUME Init, NEW a \in AgreementIds
             PROVE  BooksSound(agreements[a], tenants[a], claims[a], votes[a], now)
  BY InitSound DEF BooksInv
<1>1. PICK g, ts, ks, vs : /\ g = agreements[a] /\ ts = tenants[a] /\ ks = claims[a]
                           /\ vs = votes[a]
  OBVIOUS
<1>2. /\ g = BlankAgreement /\ \A w \in Wallets : ts[w] = BlankTenant
      /\ \A c \in ClaimIds : ks[c] = BlankClaim /\ \A w \in Wallets : vs[c][w] = 0
      /\ ks \in [ClaimIds -> Claim]
  <2>1. TypeOK
    BY InitTyped
  <2> QED BY <1>1, <2>1 DEF Init, TypeOK
<1>3. ReadySound(g, ts) /\ SettledSound(g, ts)
  BY <1>2 DEF ReadySound, SettledSound, BlankAgreement, BlankTenant
<1>4. Existing(ts) = {}
  BY <1>2 DEF Existing, BlankTenant
<1>5. RosterSound(g, ts)
  BY <1>2, <1>4, ConstantsAssumption DEF RosterSound, BlankAgreement
<1>6. LedgerSound(g, ts, ks)
  <2>1. ASSUME NEW f, f \in [ClaimIds -> Int], \A c \in ClaimIds : f[c] = 0
        PROVE  SumFunction(f) = 0
    <3>1. IsFiniteSet(ClaimIds)
      BY <1>2, ClaimColumns
    <3> QED BY <2>1, <3>1, ZeroColumn
  <2>2. \A c \in ClaimIds : ks[c].amount = 0
    BY <1>2 DEF BlankClaim
  <2>3. SumFunction(AcceptedAmounts(ks)) = 0 /\ SumFunction(SharedAmounts(ks)) = 0
    <3>1. AcceptedAmounts(ks) \in [ClaimIds -> Int] /\ SharedAmounts(ks) \in [ClaimIds -> Int]
      BY <1>2, ClaimColumns
    <3>2. \A c \in ClaimIds : AcceptedAmounts(ks)[c] = 0 /\ SharedAmounts(ks)[c] = 0
      BY <2>2 DEF AcceptedAmounts, SharedAmounts, Amount
    <3> QED BY <2>1, <3>1, <3>2
  <2>4. ASSUME NEW w \in Wallets
        PROVE  SumFunction(OpenAgainst(ks, w)) = 0 /\ SumFunction(AcceptedAgainst(ks, w)) = 0
    <3>1. OpenAgainst(ks, w) \in [ClaimIds -> Int] /\ AcceptedAgainst(ks, w) \in [ClaimIds -> Int]
      BY <1>2, ClaimColumns
    <3>2. \A c \in ClaimIds : OpenAgainst(ks, w)[c] = 0 /\ AcceptedAgainst(ks, w)[c] = 0
      BY <2>2 DEF OpenAgainst, AcceptedAgainst, Amount
    <3> QED BY <2>1, <3>1, <3>2
  <2>5. PendingIds(ks) = {} /\ TakenIds(ks) = {}
    BY <1>2 DEF PendingIds, TakenIds, BlankClaim
  <2>6. Cardinality(PendingIds(ks)) = 0 /\ Cardinality(TakenIds(ks)) = 0
    BY <2>5, FS_EmptySet
  <2>7. \A c \in ClaimIds : ks[c].status = "NONE"
    BY <1>2 DEF BlankClaim
  <2> QED BY <1>2, <2>3, <2>4, <2>6, <2>7 DEF LedgerSound, BlankAgreement, BlankTenant
<1>7. ASSUME NEW c \in ClaimIds
      PROVE  BallotSound(g, ts, ks[c], vs[c], now)
  <2>1. Cast(vs[c], 1) = {} /\ Cast(vs[c], 2) = {}
    BY <1>2 DEF Cast
  <2>2. Cardinality(Cast(vs[c], 1)) = 0 /\ Cardinality(Cast(vs[c], 2)) = 0
    BY <2>1, FS_EmptySet
  <2> QED BY <1>2, <2>2 DEF BallotSound, BlankClaim
<1> QED BY <1>1, <1>3, <1>5, <1>6, <1>7 DEF BooksSound

(* Every step keeps the books.                                             *)
LEMMA StepBooks == BooksInv /\ EscrowStep => BooksInv'
<1> SUFFICES ASSUME BooksInv, EscrowStep PROVE BooksInv'
  OBVIOUS
<1>1. EscrowInv /\ EscrowInv'
  BY StepSound DEF BooksInv
<1>2. now \in Int /\ now' \in Int /\ now <= now'
  BY <1>1, ClockRuns DEF EscrowInv
<1>3. ASSUME NEW a \in AgreementIds
      PROVE  BooksSound(agreements'[a], tenants'[a], claims'[a], votes'[a], now')
  <2>1. PICK g, h, ts, us, ks, ls, vs, xs, list :
          /\ g = agreements[a] /\ h = agreements'[a] /\ ts = tenants[a] /\ us = tenants'[a]
          /\ ks = claims[a] /\ ls = claims'[a] /\ vs = votes[a] /\ xs = votes'[a]
          /\ list = agreementTenants[a]
    OBVIOUS
  <2>2. /\ g \in Agreement /\ ts \in [Wallets -> Tenant] /\ ks \in [ClaimIds -> Claim]
        /\ Sound(g, list, ts, ks)
    BY <1>1, <2>1, AgreementSound
  <2>3. vs \in Ballots /\ us \in [Wallets -> Tenant]
    BY <1>1, <2>1 DEF EscrowInv, TypeOK, Ballots
  <2>4. PICK later \in Int : later = now' /\ now <= later
    BY <1>2
  <2>5. BooksSound(g, ts, ks, vs, now)
    BY <2>1 DEF BooksInv
  <2>6. \/ Opens(a) /\ ls = ks /\ xs = vs
        \/ Idle(g, h, ts, us) /\ ls = ks /\ xs = vs
        \/ Collects(g, h, ts, us) /\ ls = ks /\ xs = vs
        \/ Settled(a, g, h, ts, us) /\ ls = ks /\ xs = vs
        \/ MovesClaim(g, h, ts, us, ks, ls, vs, xs)
    BY <1>1, <2>1, EveryKind DEF StepKind
  <2>7. BooksSound(h, us, ls, xs, later)
    <3>1. CASE Opens(a) /\ ls = ks /\ xs = vs
      BY <1>1, <2>1, <2>3, <2>5, <3>1, OpenedBooks
    <3>2. CASE Idle(g, h, ts, us) /\ ls = ks /\ xs = vs
      BY <1>2, <2>2, <2>4, <2>5, <3>2, IdleBooks
    <3>3. CASE Collects(g, h, ts, us) /\ ls = ks /\ xs = vs
      BY <1>2, <2>2, <2>4, <2>5, <3>3, CollectsBooks
    <3>4. CASE Settled(a, g, h, ts, us) /\ ls = ks /\ xs = vs
      BY <1>1, <1>2, <2>1, <2>3, <2>4, <2>5, <3>4, SettledBooks
    <3>5. CASE MovesClaim(g, h, ts, us, ks, ls, vs, xs)
      BY <1>2, <2>2, <2>3, <2>4, <2>5, <3>5, MovesBooks
    <3> QED BY <2>6, <3>1, <3>2, <3>3, <3>4, <3>5
  <2> QED BY <2>1, <2>4, <2>7
<1> QED BY <1>1, <1>3 DEF BooksInv

LEMMA BooksAlwaysSound == Spec => []BooksInv
BY InitBooks, StepBooks, NextIsStep, PTL DEF Spec

-----------------------------------------------------------------------------
(* What the books give                                                     *)

(* Ready and active are the same.                                          *)
LEMMA BooksGiveReady == BooksInv => ActiveIffReady
<1>1. ASSUME BooksInv, NEW a \in AgreementIds
      PROVE  ReadySound(agreements[a], tenants[a])
  BY <1>1 DEF BooksInv, BooksSound
<1> QED BY <1>1 DEF ActiveIffReady, ReadySound, Complete

LEMMA BooksGiveClaims == BooksInv => ClaimBooks
<1> SUFFICES ASSUME BooksInv PROVE ClaimBooks
  OBVIOUS
<1>1. ASSUME NEW a \in AgreementIds
      PROVE  /\ LedgerSound(agreements[a], tenants[a], claims[a])
             /\ agreements[a].totalOpenClaimAmount = SumFunction(Open(claims[a]))
  <2>1. Sound(agreements[a], agreementTenants[a], tenants[a], claims[a])
    BY AgreementSound DEF BooksInv
  <2> QED BY <2>1 DEF BooksInv, BooksSound, Sound
<1>2. ASSUME NEW a \in AgreementIds
      PROVE  /\ ClaimTotal(a, LAMBDA k : k.status = "PENDING") = SumFunction(Open(claims[a]))
             /\ ClaimTotal(a, LAMBDA k : k.status = "APPROVED")
                  = SumFunction(AcceptedAmounts(claims[a]))
             /\ ClaimTotal(a, LAMBDA k : k.status = "APPROVED" /\ k.claimType = "SHARED")
                  = SumFunction(SharedAmounts(claims[a]))
             /\ \A w \in Wallets :
                  /\ ClaimTotal(a, LAMBDA k : k.status = "PENDING" /\ k.liableTenant = w)
                       = SumFunction(OpenAgainst(claims[a], w))
                  /\ ClaimTotal(a, LAMBDA k : k.status = "APPROVED" /\ k.liableTenant = w)
                       = SumFunction(AcceptedAgainst(claims[a], w))
  BY DEF ClaimTotal, Open, Reserved, AcceptedAmounts, SharedAmounts, OpenAgainst,
         AcceptedAgainst, Amount, Pending, Accepted, Shared
<1> QED BY <1>1, <1>2 DEF ClaimBooks, LedgerSound, PendingIds, TakenIds

LEMMA BooksGiveBallots == BooksInv => BallotDecides
<1> SUFFICES ASSUME BooksInv PROVE BallotDecides
  OBVIOUS
<1>1. ASSUME NEW a \in AgreementIds, NEW c \in ClaimIds
      PROVE  BallotSound(agreements[a], tenants[a], claims[a][c], votes[a][c], now)
  BY DEF BooksInv, BooksSound
<1>2. \A a, c, vote : Voters(a, c, vote) = Cast(votes[a][c], vote)
  BY DEF Voters, Cast
<1>3. ASSUME NEW a \in AgreementIds, NEW c \in ClaimIds, NEW w \in Voters(a, c, 1) \cup Voters(a, c, 2)
      PROVE  tenants[a][w].exists
  BY <1>1 DEF Voters, BallotSound
<1> QED BY <1>1, <1>2, <1>3 DEF BallotDecides, BallotSound, Existing

LEMMA BooksGiveSettlement == BooksInv => SettlementExact
<1> SUFFICES ASSUME BooksInv PROVE SettlementExact
  OBVIOUS
<1>1. ASSUME NEW a \in AgreementIds
      PROVE  SettledSound(agreements[a], tenants[a])
  BY DEF BooksInv, BooksSound
<1> QED BY <1>1 DEF SettlementExact, SettledSound, Left, Refunded, Charged

(* The sums of the columns bound their entries and each other.             *)
LEMMA ColumnsFit ==
  ASSUME NEW g \in Agreement, NEW list, NEW ts \in [Wallets -> Tenant], NEW ks,
         Sound(g, list, ts, ks), g.totalRequired <= MAX_UINT128
  PROVE  /\ g.totalRequired \in Uint128 /\ g.totalFunded \in Uint128
         /\ g.totalCancelledFundingWithdrawn \in Uint128
         /\ \A w \in Wallets : ts[w].fundedAmount \in 0 .. g.totalFunded
<1>1. /\ TotalsSound(g, ts) /\ \A w \in Wallets : TenantSound(g.status, ts[w])
  BY DEF Sound
<1>2. PICK required, funded, returned :
        required = Required(ts) /\ funded = Funded(ts) /\ returned = Returned(ts)
  OBVIOUS
<1>3. /\ required \in [Wallets -> Int] /\ funded \in [Wallets -> Int]
      /\ returned \in [Wallets -> Int] /\ IsFiniteSet(Wallets)
  BY <1>2, ColumnsTyped, ConstantsAssumption
<1>4. ASSUME NEW w \in Wallets
      PROVE  /\ funded[w] = ts[w].fundedAmount /\ funded[w] \in Nat
             /\ funded[w] <= required[w]
             /\ returned[w] \in Nat /\ returned[w] <= funded[w]
  <2>1. /\ ts[w].fundedAmount \in Int /\ ts[w].requiredAmount \in Int
    BY DEF Tenant
  <2>2. /\ required[w] = ts[w].requiredAmount /\ funded[w] = ts[w].fundedAmount
        /\ returned[w] = ts[w].cancelledFundingWithdrawnAmount
    BY <1>2 DEF Required, Funded, Returned
  <2> QED BY <1>1, <2>1, <2>2 DEF TenantSound
<1>5. /\ g.totalRequired = SumFunctionOnSet(required, Wallets)
      /\ g.totalFunded = SumFunctionOnSet(funded, Wallets)
      /\ g.totalCancelledFundingWithdrawn = SumFunctionOnSet(returned, Wallets)
  BY <1>1, <1>2, <1>3, SumDomain DEF TotalsSound
<1>6. SumFunctionOnSet(funded, Wallets) \in Nat /\ SumFunctionOnSet(returned, Wallets) \in Nat
  BY <1>3, <1>4, SumNat
<1>7. SumFunctionOnSet(required, Wallets) \in Int
  BY <1>3, SumInt
<1>8. SumFunctionOnSet(funded, Wallets) <= SumFunctionOnSet(required, Wallets)
  BY <1>3, <1>4, SumMonotone
<1>9. SumFunctionOnSet(returned, Wallets) <= SumFunctionOnSet(funded, Wallets)
  BY <1>3, <1>4, SumMonotone
<1>10. \A w \in Wallets : funded[w] <= SumFunctionOnSet(funded, Wallets)
  BY <1>3, <1>4, SumMember
<1>11. \A w \in Wallets : ts[w].fundedAmount \in 0 .. g.totalFunded
  BY <1>4, <1>5, <1>6, <1>10
<1>12. MAX_UINT128 \in Nat
  BY ConstantsAssumption
<1> QED BY <1>5, <1>6, <1>7, <1>8, <1>9, <1>11, <1>12 DEF Uint128

(* What the claims add up to stays within the deposit.                     *)
LEMMA ClaimsFit ==
  ASSUME NEW g \in Agreement, NEW list, NEW ts \in [Wallets -> Tenant],
         NEW ks \in [ClaimIds -> Claim], Sound(g, list, ts, ks), LedgerSound(g, ts, ks)
  PROVE  /\ g.totalOpenClaimAmount \in 0 .. g.totalFunded
         /\ g.totalApprovedClaims \in 0 .. g.totalFunded
         /\ g.sharedApprovedClaims \in 0 .. g.totalFunded
         /\ g.unresolvedClaimCount \in 0 .. g.claimCount
<1>1. g.totalApprovedClaims \in Nat /\ g.sharedApprovedClaims \in Nat
  BY AmountsNotNegative
<1>2. /\ IsFiniteSet(ClaimIds) /\ IsFiniteSet(PendingIds(ks)) /\ IsFiniteSet(TakenIds(ks))
  BY ClaimColumns
<1>3. g.totalOpenClaimAmount \in Nat
  <2>1. ASSUME NEW c \in ClaimIds PROVE Open(ks)[c] \in Nat
    <3>1. ClaimSound(g.claimCount, ts, ks[c], c) /\ ks[c].amount \in Int
      BY ClaimUpdates DEF Sound
    <3> QED BY <3>1 DEF ClaimSound, Open, Reserved
  <2>2. Open(ks) \in [ClaimIds -> Int]
    BY <2>1 DEF Open
  <2>3. SumFunction(Open(ks)) = SumFunctionOnSet(Open(ks), ClaimIds)
    BY <2>2, SumDomain
  <2>4. SumFunctionOnSet(Open(ks), ClaimIds) \in Nat
    BY <1>2, <2>1, SumNat
  <2> QED BY <2>3, <2>4 DEF Sound
<1>4. SumFunction(Deducted(ts)) \in Nat
  <2>1. ASSUME NEW w \in Wallets PROVE Deducted(ts)[w] \in Nat
    BY AmountsNotNegative DEF Deducted
  <2>2. SumFunction(Deducted(ts)) = SumFunctionOnSet(Deducted(ts), Wallets)
    BY ColumnsTyped, SumDomain
  <2>3. IsFiniteSet(Wallets)
    BY ConstantsAssumption
  <2> QED BY <2>1, <2>2, <2>3, SumNat
<1>5. /\ g.totalOpenClaimAmount + g.totalApprovedClaims <= g.totalFunded
      /\ g.totalApprovedClaims = g.sharedApprovedClaims + SumFunction(Deducted(ts))
      /\ g.totalFunded \in Int
  BY AgreementFields DEF Sound, RecordSound, TotalsSound
<1>6. /\ g.unresolvedClaimCount = Cardinality(PendingIds(ks))
      /\ g.claimCount = Cardinality(TakenIds(ks))
      /\ Cardinality(PendingIds(ks)) <= Cardinality(TakenIds(ks))
  <2>1. PendingIds(ks) \subseteq TakenIds(ks)
    BY DEF PendingIds, TakenIds
  <2>2. Cardinality(PendingIds(ks)) <= Cardinality(TakenIds(ks))
    BY <1>2, <2>1, FS_Subset
  <2> QED BY <2>2 DEF LedgerSound
<1>7. Cardinality(PendingIds(ks)) \in Nat /\ Cardinality(TakenIds(ks)) \in Nat
  BY <1>2, FS_CardinalityType
<1> QED BY <1>1, <1>3, <1>4, <1>5, <1>6, <1>7

(* So every amount stays within its width.                                 *)
LEMMA BooksGiveFit == BooksInv => AmountsFit
<1> SUFFICES ASSUME BooksInv, NEW a \in AgreementIds
             PROVE  /\ {agreements[a].totalRequired, agreements[a].totalFunded,
                        agreements[a].totalCancelledFundingWithdrawn,
                        agreements[a].totalOpenClaimAmount, agreements[a].totalApprovedClaims,
                        agreements[a].sharedApprovedClaims} \subseteq Uint128
                    /\ agreements[a].unresolvedClaimCount \in 0 .. agreements[a].claimCount
                    /\ \A w \in Wallets :
                         {tenants[a][w].fundedAmount, tenants[a][w].refundAmount,
                          tenants[a][w].openIndividualClaimAmount,
                          tenants[a][w].approvedIndividualClaims} \subseteq Uint128
  BY DEF AmountsFit
<1>1. PICK g, list, ts, ks : /\ g = agreements[a] /\ list = agreementTenants[a]
                             /\ ts = tenants[a] /\ ks = claims[a]
  OBVIOUS
<1>2. /\ g \in Agreement /\ ts \in [Wallets -> Tenant] /\ ks \in [ClaimIds -> Claim]
      /\ Sound(g, list, ts, ks)
  BY <1>1, AgreementSound DEF BooksInv
<1>3. RosterSound(g, ts) /\ LedgerSound(g, ts, ks) /\ SettledSound(g, ts)
  BY <1>1 DEF BooksInv, BooksSound
<1>4. /\ g.totalRequired \in Uint128 /\ g.totalFunded \in Uint128
      /\ g.totalCancelledFundingWithdrawn \in Uint128
      /\ \A w \in Wallets : ts[w].fundedAmount \in 0 .. g.totalFunded
  BY <1>2, <1>3, ColumnsFit DEF RosterSound
<1>5. /\ g.totalOpenClaimAmount \in 0 .. g.totalFunded
      /\ g.totalApprovedClaims \in 0 .. g.totalFunded
      /\ g.sharedApprovedClaims \in 0 .. g.totalFunded
      /\ g.unresolvedClaimCount \in 0 .. g.claimCount
  BY <1>2, <1>3, ClaimsFit
<1>6. MAX_UINT128 \in Nat
  BY ConstantsAssumption
<1>7. \A x \in 0 .. g.totalFunded : x \in Uint128
  BY <1>4, <1>6 DEF Uint128
<1>8. ASSUME NEW w \in Wallets
      PROVE  /\ ts[w].refundAmount \in 0 .. g.totalFunded
             /\ ts[w].openIndividualClaimAmount \in 0 .. g.totalFunded
             /\ ts[w].approvedIndividualClaims \in 0 .. g.totalFunded
  <2>1. TenantSound(g.status, ts[w])
    BY <1>2 DEF Sound
  <2>2. /\ ts[w].openIndividualClaimAmount \in Nat /\ ts[w].approvedIndividualClaims \in Nat
    BY <1>2, <1>3, AmountsNotNegative
  <2>3. /\ ts[w].openIndividualClaimAmount + ts[w].approvedIndividualClaims <= ts[w].fundedAmount
        /\ ts[w].fundedAmount \in 0 .. g.totalFunded /\ g.totalFunded \in Int
        /\ ts[w].refundAmount \in Int
    BY <1>2, <1>4, <2>1 DEF TenantSound, Uint128, Tenant
  <2>4. ts[w].refundAmount \in 0 .. ts[w].fundedAmount
    <3>1. CASE g.status # "FINALIZED"
      BY <1>3, <2>3, <3>1 DEF SettledSound
    <3>2. CASE g.status = "FINALIZED"
      <4>1. Left(ts)[w] - ts[w].refundAmount \in 0 .. Left(ts)[w]
        BY <1>3, <3>2 DEF SettledSound, Charged
      <4>2. Left(ts)[w] = ts[w].fundedAmount - ts[w].approvedIndividualClaims
        BY DEF Left
      <4> QED BY <2>2, <2>3, <4>1, <4>2
    <3> QED BY <3>1, <3>2
  <2> QED BY <2>2, <2>3, <2>4
<1> QED BY <1>1, <1>4, <1>5, <1>7, <1>8

-----------------------------------------------------------------------------
(* The theorems                                                            *)

(* An agreement is active exactly from the step that made it ready.        *)
THEOREM ActiveOnceReady == Spec => []ActiveIffReady
BY BooksAlwaysSound, BooksGiveReady, PTL

(* No checked addition or subtraction of the code can revert and no cast   *)
(* can truncate, however many tenants, claims and agreements there are:    *)
(* the one check of the total at creation is enough.                       *)
THEOREM AmountsAlwaysFit == Spec => []AmountsFit
BY BooksAlwaysSound, BooksGiveFit, PTL

(* The running totals of the claim logic are the sums of the claims.       *)
THEOREM ClaimBooksHold == Spec => []ClaimBooks
BY BooksAlwaysSound, BooksGiveClaims, PTL

(* Every claim is decided by a strict majority of all its tenants, and     *)
(* not before its ballot is.                                               *)
THEOREM BallotsDecide == Spec => []BallotDecides
BY BooksAlwaysSound, BooksGiveBallots, PTL

(* A finalized agreement pays out its deposit to the wei, and charges      *)
(* everybody its share of the shared claims to within one wei.             *)
THEOREM SettlementStaysExact == Spec => []SettlementExact
BY BooksAlwaysSound, BooksGiveSettlement, PTL

-----------------------------------------------------------------------------
(* Decisions are final                                                     *)

(* What stays of a claim, from its record k to its record l.               *)
ClaimKept(k, l) ==
  /\ k.status # "NONE" => /\ l.liableTenant = k.liableTenant /\ l.amount = k.amount
                          /\ l.claimType = k.claimType
  /\ k.status \notin {"NONE", "PENDING"} => l = k

(* What stays of the claims and votes of an agreement.                     *)
DecisionsKept(ks, ls, vs, xs) ==
  \A c \in ClaimIds : /\ ClaimKept(ks[c], ls[c])
                      /\ \A w \in Wallets : vs[c][w] # 0 => xs[c][w] = vs[c][w]

(* A vote and a resolution change the tally and the status only.           *)
LEMMA TallyKeepsTerms ==
  ASSUME NEW ts, NEW old \in Claim, NEW vs \in Ballots, NEW xs, NEW c \in ClaimIds,
         NEW k, Tallied(ts, vs, xs, c, old, k)
  PROVE  /\ k.liableTenant = old.liableTenant /\ k.amount = old.amount
         /\ k.claimType = old.claimType
         /\ \A d \in ClaimIds, w \in Wallets : vs[d][w] # 0 => xs[d][w] = vs[d][w]
<1>1. CASE k = old /\ xs = vs
  BY <1>1
<1>2. CASE Votes(ts, vs, xs, c, old, k)
  <2>1. PICK w \in Wallets, support \in BOOLEAN :
          /\ vs[c][w] = 0
          /\ xs = [vs EXCEPT ![c] = [vs[c] EXCEPT ![w] = IF support THEN 1 ELSE 2]]
          /\ k = IF support THEN [old EXCEPT !.yesVotes = old.yesVotes + 1]
                            ELSE [old EXCEPT !.noVotes = old.noVotes + 1]
    BY <1>2 DEF Votes
  <2>2. /\ k.liableTenant = old.liableTenant /\ k.amount = old.amount
        /\ k.claimType = old.claimType
    BY <2>1 DEF Claim
  <2>3. ASSUME NEW d \in ClaimIds, NEW v \in Wallets, vs[d][v] # 0
        PROVE  xs[d][v] = vs[d][v]
    BY <2>1, <2>3 DEF Ballots
  <2> QED BY <2>2, <2>3
<1> QED BY <1>1, <1>2 DEF Tallied

(* A step on the claims rewrites one that was pending, or adds one.        *)
LEMMA MovesKeepDecisions ==
  ASSUME NEW g, NEW h, NEW list, NEW ts, NEW us, NEW ks \in [ClaimIds -> Claim], NEW ls,
         NEW vs \in Ballots, NEW xs, Sound(g, list, ts, ks), g.claimCount \in Int,
         MovesClaim(g, h, ts, us, ks, ls, vs, xs)
  PROVE  DecisionsKept(ks, ls, vs, xs)
<1>1. CASE Submitted(g, h, ts, us, ks, ls) /\ xs = vs
  <2>1. PICK c, k : c = g.claimCount + 1 /\ c \in ClaimIds /\ ls = Lists(ks, c, k)
    BY <1>1 DEF Submitted
  <2>2. ks[c].status = "NONE"
    BY <2>1 DEF Sound, ClaimSound
  <2>3. \A d \in ClaimIds : d # c => ls[d] = ks[d]
    BY <2>1 DEF Lists
  <2>4. ASSUME NEW d \in ClaimIds PROVE ClaimKept(ks[d], ls[d])
    BY <2>2, <2>3 DEF ClaimKept
  <2> QED BY <1>1, <2>4 DEF DecisionsKept
<1>2. ASSUME NEW c \in ClaimIds, ks[c].status = "PENDING",
             \/ Undecided(g, h, ts, us, ks, ls, vs, xs, c)
             \/ Dismissed(g, h, ts, us, ks, ls, vs, xs, c)
             \/ Granted(g, h, ts, us, ks, ls, vs, xs, c)
      PROVE  DecisionsKept(ks, ls, vs, xs)
  <2>1. PICK k, status :
          /\ k \in Claim /\ Tallied(ts, vs, xs, c, ks[c], k)
          /\ ls = Lists(ks, c, k) \/ ls = Lists(ks, c, Resolved(k, status))
    <3>1. CASE Undecided(g, h, ts, us, ks, ls, vs, xs, c)
      BY <3>1 DEF Undecided, Tallied
    <3>2. CASE Dismissed(g, h, ts, us, ks, ls, vs, xs, c)
      BY <3>2 DEF Dismissed
    <3>3. CASE Granted(g, h, ts, us, ks, ls, vs, xs, c)
      BY <3>3 DEF Granted
    <3> QED BY <1>2, <3>1, <3>2, <3>3
  <2>2. PICK l : /\ ls = Lists(ks, c, l)
                 /\ l.liableTenant = k.liableTenant /\ l.amount = k.amount
                 /\ l.claimType = k.claimType
    <3>1. /\ Resolved(k, status).liableTenant = k.liableTenant
          /\ Resolved(k, status).amount = k.amount
          /\ Resolved(k, status).claimType = k.claimType
      BY DEF Resolved, Claim
    <3>2. PICK r : r = Resolved(k, status)
      OBVIOUS
    <3> QED BY <2>1, <3>1, <3>2
  <2>3. ls[c] = l /\ \A d \in ClaimIds : d # c => ls[d] = ks[d]
    BY <2>2 DEF Lists
  <2>4. /\ k.liableTenant = ks[c].liableTenant /\ k.amount = ks[c].amount
        /\ k.claimType = ks[c].claimType
        /\ \A d \in ClaimIds, w \in Wallets : vs[d][w] # 0 => xs[d][w] = vs[d][w]
    <3>1. PICK old \in Claim : old = ks[c]
      OBVIOUS
    <3>2. Tallied(ts, vs, xs, c, old, k)
      BY <2>1, <3>1
    <3>3. /\ k.liableTenant = old.liableTenant /\ k.amount = old.amount
          /\ k.claimType = old.claimType
          /\ \A d \in ClaimIds, w \in Wallets : vs[d][w] # 0 => xs[d][w] = vs[d][w]
      BY ONLY <3>2, vs \in Ballots, c \in ClaimIds, old \in Claim, TallyKeepsTerms
    <3> QED BY <3>1, <3>3
  <2>5. ASSUME NEW d \in ClaimIds PROVE ClaimKept(ks[d], ls[d])
    BY <1>2, <2>2, <2>3, <2>4 DEF ClaimKept
  <2> QED BY <2>4, <2>5 DEF DecisionsKept
<1> QED BY <1>1, <1>2 DEF MovesClaim

(* Nothing decided is decided again: a claim's terms, a resolved claim, a  *)
(* vote that was cast, and the refunds and totals of a finalized agreement *)
(* stay as they are in every step there is.                                *)
THEOREM DecisionsStand == Spec => DecisionsFinal
<1>1. ASSUME EscrowInv, EscrowStep, NEW a \in AgreementIds
      PROVE  /\ DecisionsKept(claims[a], claims'[a], votes[a], votes'[a])
             /\ agreements[a].status = "FINALIZED" =>
                  Idle(agreements[a], agreements'[a], tenants[a], tenants'[a])
  <2>1. PICK g, h, ts, us, ks, ls, vs, xs, list :
          /\ g = agreements[a] /\ h = agreements'[a] /\ ts = tenants[a] /\ us = tenants'[a]
          /\ ks = claims[a] /\ ls = claims'[a] /\ vs = votes[a] /\ xs = votes'[a]
          /\ list = agreementTenants[a]
    OBVIOUS
  <2>2. /\ g \in Agreement /\ ks \in [ClaimIds -> Claim] /\ Sound(g, list, ts, ks)
    BY <1>1, <2>1, AgreementSound
  <2>3. vs \in Ballots /\ g.claimCount \in Int
    BY <1>1, <2>1, <2>2, ConstantsAssumption DEF EscrowInv, TypeOK, Ballots, Agreement
  <2>4. \/ Opens(a) /\ ls = ks /\ xs = vs
        \/ Idle(g, h, ts, us) /\ ls = ks /\ xs = vs
        \/ Collects(g, h, ts, us) /\ ls = ks /\ xs = vs
        \/ Settled(a, g, h, ts, us) /\ ls = ks /\ xs = vs
        \/ MovesClaim(g, h, ts, us, ks, ls, vs, xs)
    BY <1>1, <2>1, EveryKind DEF StepKind
  <2>5. Opens(a) => g.status = "NONE"
    BY <2>1 DEF Opens, Unused, BlankAgreement
  <2>6. g.status = "FINALIZED" => Idle(g, h, ts, us)
    BY <2>4, <2>5 DEF Collects, Settled, MovesClaim
  <2>7. DecisionsKept(ks, ls, vs, xs)
    <3>1. ls = ks /\ xs = vs => DecisionsKept(ks, ls, vs, xs)
      BY DEF DecisionsKept, ClaimKept
    <3>2. MovesClaim(g, h, ts, us, ks, ls, vs, xs) => DecisionsKept(ks, ls, vs, xs)
      BY <2>2, <2>3, MovesKeepDecisions
    <3> QED BY <2>4, <3>1, <3>2
  <2> QED BY <2>1, <2>6, <2>7
<1> DEFINE Kept(a) ==
      /\ \A c \in ClaimIds :
            /\ claims[a][c].status # "NONE" =>
                 \A field \in {"liableTenant", "amount", "claimType"} :
                   claims'[a][c][field] = claims[a][c][field]
            /\ claims[a][c].status \notin {"NONE", "PENDING"} =>
                 claims'[a][c] = claims[a][c]
            /\ \A w \in Wallets :
                 votes[a][c][w] # 0 => votes'[a][c][w] = votes[a][c][w]
      /\ agreements[a].status = "FINALIZED" =>
           /\ agreements'[a].status = "FINALIZED"
           /\ agreements'[a].totalApprovedClaims = agreements[a].totalApprovedClaims
           /\ \A w \in Wallets :
                tenants'[a][w].refundAmount = tenants[a][w].refundAmount
<1>2. EscrowInv /\ [Next]_vars => \A a \in AgreementIds : Kept(a)
  <2> SUFFICES ASSUME EscrowInv, EscrowStep, NEW a \in AgreementIds PROVE Kept(a)
    BY NextIsStep
  <2>1. DecisionsKept(claims[a], claims'[a], votes[a], votes'[a])
    BY <1>1
  <2>2. agreements[a].status = "FINALIZED" =>
          /\ agreements'[a].status = "FINALIZED"
          /\ agreements'[a].totalApprovedClaims = agreements[a].totalApprovedClaims
          /\ \A w \in Wallets : tenants'[a][w].refundAmount = tenants[a][w].refundAmount
    BY <1>1 DEF Idle, KeepsClaims, RowsKeepRefunds
  <2>3. ASSUME NEW k, NEW l, k.liableTenant = l.liableTenant, k.amount = l.amount,
               k.claimType = l.claimType
        PROVE  \A field \in {"liableTenant", "amount", "claimType"} : k[field] = l[field]
    BY <2>3
  <2>4. ASSUME NEW c \in ClaimIds
        PROVE  /\ claims[a][c].status # "NONE" =>
                    \A field \in {"liableTenant", "amount", "claimType"} :
                      claims'[a][c][field] = claims[a][c][field]
               /\ claims[a][c].status \notin {"NONE", "PENDING"} =>
                    claims'[a][c] = claims[a][c]
               /\ \A w \in Wallets :
                    votes[a][c][w] # 0 => votes'[a][c][w] = votes[a][c][w]
    <3>1. PICK k, l : k = claims[a][c] /\ l = claims'[a][c]
      OBVIOUS
    <3>2. ClaimKept(k, l)
      BY <2>1, <3>1 DEF DecisionsKept
    <3>3. k.status # "NONE" =>
            \A field \in {"liableTenant", "amount", "claimType"} : l[field] = k[field]
      BY <2>3, <3>2 DEF ClaimKept
    <3> QED BY <2>1, <3>1, <3>2, <3>3 DEF DecisionsKept, ClaimKept
  <2> QED BY <2>2, <2>4
<1> HIDE DEF Kept
<1>3. EscrowInv /\ [Next]_vars => [\A a \in AgreementIds : Kept(a)]_vars
  BY <1>2
<1>4. Spec => [][\A a \in AgreementIds : Kept(a)]_vars
  BY <1>3, EscrowAlwaysSound, PTL DEF Spec
<1> QED BY <1>4 DEF Kept, DecisionsFinal

-----------------------------------------------------------------------------
(* The vault's view of the escrow, as the refinement maps it               *)

Phases == [a \in AgreementIds |-> VaultPhase(agreements[a].status)]
Payees == [a \in AgreementIds |-> agreements[a].recipient]
Stakes == [a \in AgreementIds |-> [w \in Wallets |-> Owed(a, w)]]
Custody == balance - forced

LEMMA StakesAreDues ==
  Stakes = [a \in AgreementIds |-> Dues(agreements[a], tenants[a])]
<1>1. \A a \in AgreementIds : [w \in Wallets |-> Owed(a, w)] = Dues(agreements[a], tenants[a])
  BY OwedIsDue DEF Dues
<1> QED BY <1>1 DEF Stakes

(* A step that changes the records of one agreement only changes the       *)
(* vault's view of that one only.                                          *)
OnlyAt(a) ==
  \A b \in AgreementIds \ {a} : agreements'[b] = agreements[b] /\ tenants'[b] = tenants[b]

LEMMA ViewMoves ==
  ASSUME NEW a \in AgreementIds, OnlyAt(a),
         NEW h, h = agreements'[a], NEW us, us = tenants'[a]
  PROVE  /\ Phases' = [Phases EXCEPT ![a] = VaultPhase(h.status)]
         /\ Payees' = [Payees EXCEPT ![a] = h.recipient]
         /\ Stakes' = [Stakes EXCEPT ![a] = Dues(h, us)]
<1>1. Phases' = [Phases EXCEPT ![a] = VaultPhase(h.status)]
  BY DEF OnlyAt, Phases
<1>2. Payees' = [Payees EXCEPT ![a] = h.recipient]
  BY DEF OnlyAt, Payees
<1>3. Stakes' = [b \in AgreementIds |-> Dues(agreements'[b], tenants'[b])]
  <2>1. ASSUME NEW b \in AgreementIds, NEW w \in Wallets
        PROVE  Owed(b, w)' = Due(agreements'[b], tenants'[b][w], w)
    BY DEF Owed, Due
  <2> QED BY <2>1 DEF Stakes, Dues
<1>4. PICK now1, next1 :
        /\ now1 = [b \in AgreementIds |-> Dues(agreements[b], tenants[b])]
        /\ next1 = [b \in AgreementIds |-> Dues(agreements'[b], tenants'[b])]
  OBVIOUS
<1>5. next1 = [now1 EXCEPT ![a] = Dues(h, us)]
  BY <1>4 DEF OnlyAt
<1> QED BY <1>1, <1>2, <1>3, <1>4, <1>5, StakesAreDues

-----------------------------------------------------------------------------
(* The vault's steps, in terms of that view                                *)

(* A step of the vault, or none.                                           *)
VaultStep == Vault!VaultNext \/ UNCHANGED Vault!vaultVars

LEMMA ViewKept ==
  ASSUME UNCHANGED <<Phases, Payees, Stakes, Custody>>
  PROVE  VaultStep
BY DEF VaultStep, Vault!vaultVars, Phases, Payees, Stakes, Custody

LEMMA ViewOpens ==
  ASSUME NEW a \in AgreementIds, NEW w \in Wallets, Phases[a] = "unused",
         Phases' = [Phases EXCEPT ![a] = "collecting"],
         Payees' = [Payees EXCEPT ![a] = w], UNCHANGED <<Stakes, Custody>>
  PROVE  VaultStep
<1>1. Vault!Open(a, w)
  BY DEF Vault!Open, Phases, Payees, Stakes, Custody
<1> QED BY <1>1 DEF VaultStep, Vault!VaultNext

LEMMA ViewLocks ==
  ASSUME NEW a \in AgreementIds, Phases[a] = "collecting",
         \/ Phases' = [Phases EXCEPT ![a] = "locked"]
         \/ Phases' = [Phases EXCEPT ![a] = "released"],
         UNCHANGED <<Payees, Stakes, Custody>>
  PROVE  VaultStep
<1>1. Vault!Lock(a) \/ Vault!Release(a)
  BY DEF Vault!Lock, Vault!Release, Phases, Payees, Stakes, Custody
<1> QED BY <1>1 DEF VaultStep, Vault!VaultNext

LEMMA ViewPaysIn ==
  ASSUME NEW a \in AgreementIds, NEW w \in Wallets, NEW x \in Uint128, x > 0,
         NEW next \in {"collecting", "locked"}, Phases[a] = "collecting", w # Payees[a],
         Phases' = [Phases EXCEPT ![a] = next],
         Stakes' = [Stakes EXCEPT ![a] = [Stakes[a] EXCEPT ![w] = Stakes[a][w] + x]],
         Custody' = Custody + x, UNCHANGED Payees
  PROVE  VaultStep
<1>1. Vault!PayIn(a, w, x, next)
  BY DEF Vault!PayIn, Phases, Payees, Stakes, Custody
<1> QED BY <1>1 DEF VaultStep, Vault!VaultNext

LEMMA ViewPaysOut ==
  ASSUME NEW a \in AgreementIds, NEW w \in Wallets, NEW x \in Uint128, x > 0,
         Phases[a] \in {"collecting", "released"}, x <= Stakes[a][w],
         Phases[a] = "released" => x = Stakes[a][w],
         Stakes' = [Stakes EXCEPT ![a] = [Stakes[a] EXCEPT ![w] = Stakes[a][w] - x]],
         Custody' = Custody - x, UNCHANGED <<Phases, Payees>>
  PROVE  VaultStep
<1>1. Vault!PayOut(a, w, x)
  BY DEF Vault!PayOut, Phases, Payees, Stakes, Custody
<1> QED BY <1>1 DEF VaultStep, Vault!VaultNext

(* The vault sums as the escrow does.                                      *)
LEMMA VaultSums == ASSUME NEW f PROVE Vault!SumFunction(f) = SumFunction(f)
<1>1. ASSUME NEW S
      PROVE  Vault!SumFunctionOnSet(f, S) = SumFunctionOnSet(f, S)
  BY DEF Vault!SumFunctionOnSet, SumFunctionOnSet, Vault!FoldFunctionOnSet, FoldFunctionOnSet,
         Vault!MapThenFoldSet, MapThenFoldSet
<1> QED BY <1>1 DEF Vault!SumFunction, SumFunction

LEMMA ViewSettles ==
  ASSUME NEW a \in AgreementIds, Phases[a] = "locked",
         Phases' = [Phases EXCEPT ![a] = "released"],
         NEW settled \in [Wallets -> Uint128], SumFunction(settled) = SumFunction(Stakes[a]),
         \A w \in Wallets : w # Payees[a] => settled[w] <= Stakes[a][w],
         Stakes' = [Stakes EXCEPT ![a] = settled], UNCHANGED <<Payees, Custody>>
  PROVE  VaultStep
<1>1. /\ SumFunction(settled) = SumFunction(Stakes[a])
      /\ \A w \in Wallets : w # Payees[a] => settled[w] <= Stakes[a][w]
      /\ Stakes' = [Stakes EXCEPT ![a] = settled]
  OBVIOUS
<1>2. \E s \in [Wallets -> Uint128] :
        /\ SumFunction(s) = SumFunction(Stakes[a])
        /\ \A w \in Wallets : w # Payees[a] => s[w] <= Stakes[a][w]
        /\ Stakes' = [Stakes EXCEPT ![a] = s]
  BY <1>1
<1>3. Vault!Settle(a)
  BY <1>2, VaultSums DEF Vault!Settle, Phases, Payees, Stakes, Custody
<1> QED BY <1>3 DEF VaultStep, Vault!VaultNext

-----------------------------------------------------------------------------
(* Calls that move no money                                                *)

(* Before it is finalized or cancelled an agreement owes what was put in.  *)
Early(status) == status \in {"NONE", "FUNDING", "ACTIVE"}

LEMMA EarlyDues ==
  ASSUME NEW g, NEW ts \in [Wallets -> Tenant], Early(g.status)
  PROVE  Dues(g, ts) = Funded(ts)
<1>1. ASSUME NEW w \in Wallets
      PROVE  Due(g, ts[w], w) = ts[w].fundedAmount
  <2>1. ts[w].fundedAmount \in Int
    BY DEF Tenant
  <2> QED BY <2>1 DEF Due, Early
<1> QED BY <1>1 DEF Dues, Funded

(* A call that leaves every deposit in place.                              *)
Quiet(a) ==
  /\ OnlyAt(a) /\ UNCHANGED <<balance, forced>>
  /\ Early(agreements[a].status) /\ Early(agreements'[a].status)
  /\ \A w \in Wallets : tenants'[a][w].fundedAmount = tenants[a][w].fundedAmount

(* A record that is moved by its claims keeps its status and payee.        *)
LEMMA MovesKeepStatus ==
  ASSUME NEW g \in Agreement, NEW h, NEW ts, NEW us, NEW ks, NEW ls, NEW vs, NEW xs,
         MovesClaim(g, h, ts, us, ks, ls, vs, xs)
  PROVE  g.status = "ACTIVE" /\ h.status = g.status /\ h.recipient = g.recipient
<1>1. CASE Submitted(g, h, ts, us, ks, ls)
  <2>1. PICK x \in Nat : h = ReservesTotal(g, x)
    BY <1>1 DEF Submitted
  <2> QED BY <2>1, MoveFields DEF KeepsTerms, MovesClaim
<1>2. ASSUME NEW c \in ClaimIds, Undecided(g, h, ts, us, ks, ls, vs, xs, c)
      PROVE  h.status = g.status /\ h.recipient = g.recipient
  BY <1>2 DEF Undecided
<1>3. ASSUME NEW c \in ClaimIds, Dismissed(g, h, ts, us, ks, ls, vs, xs, c)
      PROVE  h.status = g.status /\ h.recipient = g.recipient
  <2>1. PICK k : h = DismissesTotal(g, k)
    BY <1>3 DEF Dismissed
  <2> QED BY <2>1, MoveFields, 0 \in Int DEF KeepsTerms
<1>4. ASSUME NEW c \in ClaimIds, Granted(g, h, ts, us, ks, ls, vs, xs, c)
      PROVE  h.status = g.status /\ h.recipient = g.recipient
  <2>1. PICK k : h = Approves(g, k)
    BY <1>4 DEF Granted
  <2> QED BY <2>1, MoveFields, 0 \in Int DEF KeepsTerms
<1> QED BY <1>1, <1>2, <1>3, <1>4 DEF MovesClaim

(* Such a call opens the agreement, locks it, or shows the vault nothing.  *)
LEMMA QuietStep ==
  ASSUME EscrowInv, EscrowStep, NEW a \in AgreementIds, Quiet(a)
  PROVE  VaultStep
<1>1. PICK g, h, ts, us, ks, ls, vs, xs :
        /\ g = agreements[a] /\ h = agreements'[a] /\ ts = tenants[a] /\ us = tenants'[a]
        /\ ks = claims[a] /\ ls = claims'[a] /\ vs = votes[a] /\ xs = votes'[a]
  OBVIOUS
<1>2. /\ EscrowInv' /\ g \in Agreement /\ h \in Agreement
      /\ ts \in [Wallets -> Tenant] /\ us \in [Wallets -> Tenant]
  BY <1>1, StepSound, AgreementSound DEF EscrowInv, TypeOK
<1>3. Dues(g, ts) = Funded(ts) /\ Dues(h, us) = Funded(us) /\ Funded(us) = Funded(ts)
  BY <1>1, <1>2, EarlyDues DEF Quiet, Funded
<1>4. /\ Phases' = [Phases EXCEPT ![a] = VaultPhase(h.status)]
      /\ Payees' = [Payees EXCEPT ![a] = h.recipient]
      /\ Stakes' = [Stakes EXCEPT ![a] = Dues(h, us)]
  BY <1>1, ViewMoves DEF Quiet
<1>5. /\ Phases[a] = VaultPhase(g.status) /\ Payees[a] = g.recipient
      /\ Stakes[a] = Dues(g, ts) /\ Phases = [Phases EXCEPT ![a] = Phases[a]]
      /\ Payees = [Payees EXCEPT ![a] = Payees[a]] /\ Stakes = [Stakes EXCEPT ![a] = Stakes[a]]
  <2>1. Stakes[a] = Dues(g, ts)
    BY <1>1, StakesAreDues
  <2> QED BY <1>1, <2>1 DEF Phases, Payees, Stakes
<1>6. UNCHANGED Custody
  BY DEF Quiet, Custody
<1>7. UNCHANGED Stakes
  BY <1>3, <1>4, <1>5
<1>8. /\ VaultPhase("NONE") = "unused" /\ VaultPhase("FUNDING") = "collecting"
      /\ VaultPhase("ACTIVE") = "locked"
  BY DEF VaultPhase
<1>9. \/ Opens(a) \/ Idle(g, h, ts, us) \/ Collects(g, h, ts, us)
      \/ Settled(a, g, h, ts, us) \/ MovesClaim(g, h, ts, us, ks, ls, vs, xs)
  BY <1>1, EveryKind DEF StepKind
<1>10. CASE Opens(a)
  <2>1. g.status = "NONE" /\ h.status = "FUNDING"
    BY <1>1, <1>10 DEF Opens, Unused, BlankAgreement, NewAgreement
  <2>2. h.recipient \in Wallets
    <3>1. RecordSound(h)
      BY <1>1, <1>2 DEF EscrowInv, Sound
    <3> QED BY <2>1, <3>1 DEF RecordSound
  <2> QED BY <1>4, <1>5, <1>6, <1>7, <1>8, <2>1, <2>2, ViewOpens
<1>11. CASE h.status = g.status /\ h.recipient = g.recipient
  BY <1>4, <1>5, <1>6, <1>7, <1>11, ViewKept
<1>12. CASE Collects(g, h, ts, us)
  <2>1. g.status = "FUNDING" /\ h.recipient = g.recipient /\ h.status \in {"FUNDING", "ACTIVE"}
    BY <1>1, <1>12 DEF Collects, KeepsTerms, Quiet, Early
  <2>2. CASE h.status = "ACTIVE"
    <3>1. UNCHANGED Payees /\ Phases' = [Phases EXCEPT ![a] = "locked"]
      BY <1>4, <1>5, <1>8, <2>1, <2>2
    <3> QED BY <1>5, <1>6, <1>7, <1>8, <2>1, <3>1, ViewLocks
  <2> QED BY <1>11, <2>1, <2>2
<1>13. ~ Settled(a, g, h, ts, us)
  BY <1>1 DEF Settled, Quiet, Early
<1>14. CASE Idle(g, h, ts, us)
  BY <1>11, <1>14 DEF Idle, KeepsTerms
<1>15. CASE MovesClaim(g, h, ts, us, ks, ls, vs, xs)
  BY <1>2, <1>11, <1>15, MovesKeepStatus
<1> QED BY <1>9, <1>10, <1>12, <1>13, <1>14, <1>15

(* createAgreement: nothing was put in yet.                                *)
LEMMA CreateQuiet ==
  ASSUME EscrowInv, NEW p \in Proposals, CreateAgreement(p)
  PROVE  Quiet(nextAgreementId)
<1>1. PICK a \in AgreementIds : a = nextAgreementId
  BY DEF CreateAgreement
<1>2. /\ agreements' = [agreements EXCEPT ![a] = NewAgreement(p)]
      /\ tenants' = [tenants EXCEPT ![a] = RegisteredTenants(p)]
      /\ UNCHANGED <<balance, forced>>
  BY <1>1 DEF CreateAgreement
<1>3. DOMAIN agreements = AgreementIds /\ DOMAIN tenants = AgreementIds
  BY DEF EscrowInv, TypeOK
<1>4. Unused(a)
  <2>1. a \in Int /\ a >= a
    BY DEF AgreementIds
  <2> QED BY <1>1, <2>1 DEF EscrowInv
<1>5. OnlyAt(a) /\ agreements'[a] = NewAgreement(p) /\ tenants'[a] = RegisteredTenants(p)
  BY <1>2, <1>3 DEF OnlyAt
<1>6. ASSUME NEW w \in Wallets
      PROVE  RegisteredTenants(p)[w].fundedAmount = 0
  <2>1. CASE w \notin Range(p.tenantAddresses)
    BY <2>1 DEF RegisteredTenants, BlankTenant
  <2>2. CASE w \in Range(p.tenantAddresses)
    <3> DEFINE i == CHOOSE i \in DOMAIN p.tenantAddresses : p.tenantAddresses[i] = w
    <3>1. RegisteredTenants(p)[w] = [BlankTenant EXCEPT !.requiredAmount = p.requiredAmounts[i],
                                                        !.index = i - 1, !.exists = TRUE]
      BY <2>2 DEF RegisteredTenants
    <3> HIDE DEF i
    <3>2. PICK y, j : y = p.requiredAmounts[i] /\ j = i - 1
      OBVIOUS
    <3>3. RegisteredTenants(p)[w] = [BlankTenant EXCEPT !.requiredAmount = y, !.index = j,
                                                        !.exists = TRUE]
      BY <3>1, <3>2
    <3> QED BY <3>3 DEF BlankTenant
  <2> QED BY <2>1, <2>2
<1>7. Early(agreements[a].status) /\ Early(agreements'[a].status)
  BY <1>4, <1>5 DEF Unused, NewAgreement, BlankAgreement, Early
<1>8. \A w \in Wallets : tenants[a][w].fundedAmount = 0
  BY <1>4 DEF Unused, BlankTenant
<1> QED BY <1>1, <1>2, <1>5, <1>6, <1>7, <1>8 DEF Quiet

(* The check for activation can only make a funding agreement active.      *)
LEMMA ActivationEarly ==
  ASSUME NEW r, NEW list, NEW ts, r \in Agreement, Early(r.status)
  PROVE  Early(CheckAndActivate(r, list, ts).status)
<1>1. [r EXCEPT !.status = "ACTIVE"].status = "ACTIVE"
  BY DEF Agreement
<1> QED BY <1>1 DEF CheckAndActivate, Early

(* acceptAsTenant and acceptAsRecipient.                                   *)
LEMMA AcceptQuiet ==
  ASSUME EscrowInv, NEW a \in AgreementIds, NEW sender \in Wallets, NEW hash,
         AcceptAsTenant(a, sender, hash) \/ AcceptAsRecipient(a, sender, hash)
  PROVE  Quiet(a)
<1>1. PICK g, list, ts : /\ g = agreements[a] /\ list = agreementTenants[a] /\ ts = tenants[a]
  OBVIOUS
<1>2. /\ g \in Agreement /\ ts \in [Wallets -> Tenant]
      /\ DOMAIN agreements = AgreementIds /\ DOMAIN tenants = AgreementIds
  BY <1>1, AgreementSound DEF EscrowInv, TypeOK
<1>3. g.status = "FUNDING" /\ Early(g.status)
  BY <1>1 DEF AcceptAsTenant, TenantMayAccept, AcceptAsRecipient, RecipientMayAccept, FundingOpen, Early
<1>4. CASE AcceptAsTenant(a, sender, hash)
  <2> DEFINE us == [ts EXCEPT ![sender].accepted = TRUE]
             h == CheckAndActivate(g, list, us)
  <2>1. /\ agreements' = [agreements EXCEPT ![a] = h] /\ tenants' = [tenants EXCEPT ![a] = us]
        /\ UNCHANGED <<balance, forced>>
    BY <1>1, <1>4 DEF AcceptAsTenant
  <2>2. \A w \in Wallets : us[w].fundedAmount = ts[w].fundedAmount
    BY <1>2 DEF Tenant
  <2>3. Early(h.status)
    BY <1>2, <1>3, ActivationEarly
  <2> HIDE DEF h, us
  <2>4. agreements'[a] = h /\ tenants'[a] = us /\ OnlyAt(a)
    BY <1>2, <2>1 DEF OnlyAt
  <2> QED BY <1>1, <1>3, <2>1, <2>2, <2>3, <2>4 DEF Quiet
<1>5. CASE AcceptAsRecipient(a, sender, hash)
  <2> DEFINE r == [g EXCEPT !.recipientAccepted = TRUE]
             h == CheckAndActivate(r, list, ts)
  <2>1. /\ agreements' = [agreements EXCEPT ![a] = h] /\ UNCHANGED tenants
        /\ UNCHANGED <<balance, forced>>
    BY <1>1, <1>5 DEF AcceptAsRecipient
  <2>2. r \in Agreement /\ Early(r.status)
    BY <1>2, <1>3 DEF Agreement
  <2>3. Early(h.status)
    BY <2>2, ActivationEarly
  <2> HIDE DEF h
  <2>4. agreements'[a] = h /\ tenants'[a] = ts /\ OnlyAt(a)
    BY <1>1, <1>2, <2>1 DEF OnlyAt
  <2> QED BY <1>1, <1>3, <2>1, <2>3, <2>4 DEF Quiet
<1> QED BY <1>4, <1>5

(* The four functions on claims, of an active agreement.                   *)
ClaimCall(a, w) ==
  \/ \E type \in ClaimType, liable \in Wallets \cup {NoWallet}, x \in Uint128,
        reason, evidence \in Hashes \cup {NoHash} :
       SubmitClaim(a, w, type, liable, x, reason, evidence)
  \/ \E c \in ClaimIds : WithdrawPendingClaim(a, w, c)
  \/ \E c \in ClaimIds, s \in BOOLEAN : VoteClaim(a, w, c, s)
  \/ \E c \in ClaimIds : FinalizePendingClaim(a, w, c)

(* What resolving a claim leaves alone.                                    *)
LEMMA ResolutionQuiet ==
  ASSUME TypeOK, NEW a \in AgreementIds, agreements[a].status = "ACTIVE",
         NEW c, NEW k, NEW status, Dismiss(a, c, k, status) \/ ApproveClaim(a, c, k),
         UNCHANGED <<balance, forced>>
  PROVE  Quiet(a)
<1>1. PICK g, ts : g = agreements[a] /\ ts = tenants[a]
  OBVIOUS
<1>2. /\ g \in Agreement /\ ts \in [Wallets -> Tenant]
      /\ DOMAIN agreements = AgreementIds /\ DOMAIN tenants = AgreementIds
      /\ Early(g.status)
  BY <1>1 DEF TypeOK, Early
<1>3. ASSUME NEW w, NEW x
      PROVE  \A v \in Wallets :
               [ts EXCEPT ![w].openIndividualClaimAmount = x][v].fundedAmount = ts[v].fundedAmount
  BY <1>2 DEF Tenant
<1>4. CASE Dismiss(a, c, k, status)
  <2> DEFINE h == DismissesTotal(g, k)
             us == Releases(ts, k)
  <2>1. agreements' = [agreements EXCEPT ![a] = h] /\ tenants' = [tenants EXCEPT ![a] = us]
    BY <1>1, <1>4 DEF Dismiss, DismissesTotal
  <2>2. h.status = g.status
    BY <1>2, MoveFields, 0 \in Int
  <2>3. \A w \in Wallets : us[w].fundedAmount = ts[w].fundedAmount
    BY <1>3 DEF Releases
  <2> HIDE DEF h, us
  <2>4. agreements'[a] = h /\ tenants'[a] = us /\ OnlyAt(a)
    BY <1>2, <2>1 DEF OnlyAt
  <2> QED BY <1>1, <1>2, <2>2, <2>3, <2>4 DEF Quiet
<1>5. CASE ApproveClaim(a, c, k)
  <2> DEFINE h == Approves(g, k)
  <2>1. agreements' = [agreements EXCEPT ![a] = h]
    BY <1>1, <1>5 DEF ApproveClaim
  <2>2. h.status = g.status
    BY <1>2, MoveFields, 0 \in Int
  <2> HIDE DEF h
  <2>3. PICK w, x, y : /\ w = k.liableTenant
                       /\ x = ts[w].openIndividualClaimAmount - k.amount
                       /\ y = ts[w].approvedIndividualClaims + k.amount
    OBVIOUS
  <2>4. PICK us : us = [ts EXCEPT ![w] = [ts[w] EXCEPT !.openIndividualClaimAmount = x,
                                                       !.approvedIndividualClaims = y]]
    OBVIOUS
  <2>5. tenants' = tenants \/ tenants' = [tenants EXCEPT ![a] = us]
    <3>1. \/ tenants' = tenants
          \/ tenants' = [tenants EXCEPT ![a][w].openIndividualClaimAmount = @ - k.amount,
                                        ![a][w].approvedIndividualClaims = @ + k.amount]
      BY <1>5, <2>3 DEF ApproveClaim
    <3>2. us = [ts EXCEPT ![w] =
                  [ts[w] EXCEPT
                     !.openIndividualClaimAmount = ts[w].openIndividualClaimAmount - k.amount,
                     !.approvedIndividualClaims = ts[w].approvedIndividualClaims + k.amount]]
      BY <2>3, <2>4
    <3>3. CASE tenants' = [tenants EXCEPT ![a][w].openIndividualClaimAmount = @ - k.amount,
                                          ![a][w].approvedIndividualClaims = @ + k.amount]
      BY <1>1, <3>2, <3>3
    <3> QED BY <3>1, <3>3
  <2>6. \A v \in Wallets : us[v].fundedAmount = ts[v].fundedAmount
    BY <1>2, <2>4 DEF Tenant
  <2>7. agreements'[a] = h /\ OnlyAt(a) /\ (tenants'[a] = ts \/ tenants'[a] = us)
    BY <1>1, <1>2, <2>1, <2>5 DEF OnlyAt
  <2> QED BY <1>1, <1>2, <2>2, <2>6, <2>7 DEF Quiet
<1> QED BY <1>4, <1>5

LEMMA ClaimQuiet ==
  ASSUME EscrowInv, NEW a \in AgreementIds, NEW w \in Wallets, ClaimCall(a, w)
  PROVE  Quiet(a)
<1>1. PICK g, ts : g = agreements[a] /\ ts = tenants[a]
  OBVIOUS
<1>2. /\ TypeOK /\ g \in Agreement /\ ts \in [Wallets -> Tenant]
      /\ DOMAIN agreements = AgreementIds /\ DOMAIN tenants = AgreementIds
  BY <1>1, AgreementSound DEF EscrowInv, TypeOK
<1>3. ASSUME NEW type, NEW liable, NEW x, NEW reason, NEW evidence,
             SubmitClaim(a, w, type, liable, x, reason, evidence)
      PROVE  Quiet(a)
  <2>1. g.status = "ACTIVE" /\ UNCHANGED <<balance, forced>>
    BY <1>1, <1>3 DEF SubmitClaim
  <2>2. PICK u, v, y : /\ u = g.claimCount + 1 /\ v = g.unresolvedClaimCount + 1
                       /\ y = g.totalOpenClaimAmount + x
    OBVIOUS
  <2>3. PICK h : h = [g EXCEPT !.claimCount = u, !.unresolvedClaimCount = v,
                               !.totalOpenClaimAmount = y]
    OBVIOUS
  <2>4. agreements' = [agreements EXCEPT ![a] = h]
    BY <1>1, <1>3, <2>2, <2>3 DEF SubmitClaim
  <2>5. h.status = g.status
    BY <1>2, <2>3 DEF Agreement
  <2>6. PICK z, us : /\ z = ts[liable].openIndividualClaimAmount + x
                     /\ us = [ts EXCEPT ![liable] =
                                [ts[liable] EXCEPT !.openIndividualClaimAmount = z]]
    OBVIOUS
  <2>7. tenants' = tenants \/ tenants' = [tenants EXCEPT ![a] = us]
    BY <1>1, <1>3, <2>6 DEF SubmitClaim
  <2>8. agreements'[a].status = g.status /\ OnlyAt(a)
    BY <1>2, <2>4, <2>5, <2>7 DEF OnlyAt
  <2>9. \A v2 \in Wallets : us[v2].fundedAmount = ts[v2].fundedAmount
    BY <1>2, <2>6 DEF Tenant
  <2>10. tenants'[a] = ts \/ tenants'[a] = us
    BY <1>1, <1>2, <2>7
  <2> QED BY <1>1, <2>1, <2>8, <2>9, <2>10 DEF Quiet, Early
<1>4. ASSUME NEW c, WithdrawPendingClaim(a, w, c)
      PROVE  Quiet(a)
  BY <1>2, <1>4, ResolutionQuiet DEF WithdrawPendingClaim
<1>5. ASSUME NEW c, FinalizePendingClaim(a, w, c)
      PROVE  Quiet(a)
  BY <1>2, <1>5, ResolutionQuiet DEF FinalizePendingClaim
<1>6. ASSUME NEW c, NEW support \in BOOLEAN, VoteClaim(a, w, c, support)
      PROVE  Quiet(a)
  <2>1. agreements[a].status = "ACTIVE" /\ UNCHANGED <<balance, forced>>
    BY <1>6 DEF VoteClaim, VotingOpen
  <2>2. \/ \E k : Dismiss(a, c, k, "REJECTED") \/ ApproveClaim(a, c, k)
        \/ UNCHANGED <<agreements, tenants>>
    BY <1>6 DEF VoteClaim
  <2>3. CASE UNCHANGED <<agreements, tenants>>
    BY <2>1, <2>3 DEF Quiet, OnlyAt, Early
  <2> QED BY <1>2, <2>1, <2>2, <2>3, ResolutionQuiet
<1> QED BY <1>3, <1>4, <1>5, <1>6 DEF ClaimCall

-----------------------------------------------------------------------------
(* Money in                                                                *)

(* The check for activation changes nothing but the status.                *)
LEMMA ActivationKeeps ==
  ASSUME NEW r \in Agreement, NEW list, NEW ts, NEW h, h = CheckAndActivate(r, list, ts)
  PROVE  h.recipient = r.recipient /\ h.status \in {r.status, "ACTIVE"}
<1>1. PICK q : q = [r EXCEPT !.status = "ACTIVE"]
  OBVIOUS
<1>2. q.status = "ACTIVE" /\ q.recipient = r.recipient
  BY <1>1 DEF Agreement
<1>3. h = r \/ h = q
  BY <1>1 DEF CheckAndActivate
<1> QED BY <1>2, <1>3

(* Custody follows the balance, when nothing is forced in.                 *)
LEMMA CustodyMoves ==
  ASSUME TypeOK, NEW d \in Int, UNCHANGED forced
  PROVE  /\ balance' = balance + d => Custody' = Custody + d
         /\ balance' = balance - d => Custody' = Custody - d
<1>1. balance \in Int /\ forced \in Int
  BY ConstantsAssumption DEF TypeOK
<1> QED BY <1>1 DEF Custody

(* deposit pays in.                                                        *)
LEMMA DepositStep ==
  ASSUME BooksInv, NEW a \in AgreementIds, NEW sender \in Wallets, NEW x \in Uint128,
         Deposit(a, sender, x)
  PROVE  VaultStep
<1>1. PICK g, list, ts : /\ g = agreements[a] /\ list = agreementTenants[a] /\ ts = tenants[a]
  OBVIOUS
<1>2. /\ TypeOK /\ g \in Agreement /\ ts \in [Wallets -> Tenant] /\ x \in Int /\ x > 0
      /\ DOMAIN agreements = AgreementIds /\ DOMAIN tenants = AgreementIds
  <2>1. x \in Nat /\ x # 0
    BY ConstantsAssumption DEF Deposit, MayDeposit, Uint128
  <2> QED BY <1>1, <2>1, RowsTyped DEF BooksInv, EscrowInv, TypeOK
<1>3. PICK r, us : r = FundsTotal(g, x) /\ us = FundsTenant(ts, sender, x)
  OBVIOUS
<1>4. /\ r \in Agreement /\ r.status = g.status /\ KeepsTerms(g, r)
      /\ us \in [Wallets -> Tenant]
  BY <1>2, <1>3, FundingRows
<1>5. PICK h : h = CheckAndActivate(r, list, us)
  OBVIOUS
<1>6. agreements' = [agreements EXCEPT ![a] = h] /\ tenants' = [tenants EXCEPT ![a] = us]
  <2>1. r = [g EXCEPT !.totalFunded = g.totalFunded + x]
    BY <1>3 DEF FundsTotal
  <2>2. us = [ts EXCEPT ![sender].fundedAmount = @ + x]
    BY <1>3 DEF FundsTenant
  <2> QED BY <1>1, <1>5, <2>1, <2>2 DEF Deposit
<1>7. OnlyAt(a) /\ h = agreements'[a] /\ us = tenants'[a]
  BY <1>2, <1>6 DEF OnlyAt
<1>8. /\ g.status = "FUNDING" /\ ts[sender].exists
      /\ h.recipient = g.recipient /\ h.status \in {"FUNDING", "ACTIVE"}
  <2>1. g.status = "FUNDING" /\ ts[sender].exists
    BY <1>1 DEF Deposit, MayDeposit, FundingOpen
  <2>2. h.recipient = r.recipient /\ h.status \in {r.status, "ACTIVE"}
    BY <1>4, <1>5, ActivationKeeps
  <2> QED BY <1>4, <2>1, <2>2 DEF KeepsTerms
<1>9. sender # Payees[a] /\ Payees[a] = g.recipient
  <2>1. RosterSound(g, ts)
    BY <1>1 DEF BooksInv, BooksSound
  <2> QED BY <1>1, <1>8, <2>1 DEF RosterSound, Existing, Payees
<1>10. Dues(g, ts) = Funded(ts) /\ Dues(h, us) = Funded(us)
  BY <1>2, <1>4, <1>8, EarlyDues DEF Early
<1>11. Funded(us) = [Funded(ts) EXCEPT ![sender] = Funded(ts)[sender] + x]
  <2>1. us[sender].fundedAmount = ts[sender].fundedAmount + x
    BY <1>2, <1>3, FundingRows
  <2>2. \A v \in Wallets \ {sender} : us[v] = ts[v]
    BY <1>2, <1>3 DEF FundsTenant
  <2> QED BY <2>1, <2>2 DEF Funded
<1>12. Stakes[a] = Funded(ts) /\ Phases[a] = "collecting"
  BY <1>1, <1>8, <1>10, StakesAreDues DEF Phases, VaultPhase
<1>13. /\ Phases' = [Phases EXCEPT ![a] = VaultPhase(h.status)]
       /\ Payees' = [Payees EXCEPT ![a] = h.recipient]
       /\ Stakes' = [Stakes EXCEPT ![a] = Dues(h, us)]
  BY <1>7, ViewMoves
<1>14. UNCHANGED Payees
  BY <1>8, <1>9, <1>13 DEF Payees
<1>15. Stakes' = [Stakes EXCEPT ![a] = [Stakes[a] EXCEPT ![sender] = Stakes[a][sender] + x]]
  BY <1>10, <1>11, <1>12, <1>13
<1>16. Custody' = Custody + x
  BY <1>2, CustodyMoves DEF Deposit
<1>17. CASE h.status = "FUNDING"
  <2>1. VaultPhase(h.status) = "collecting"
    BY <1>17 DEF VaultPhase
  <2> QED BY <1>2, <1>9, <1>12, <1>13, <1>14, <1>15, <1>16, <2>1, ViewPaysIn
<1>18. CASE h.status = "ACTIVE"
  <2>1. VaultPhase(h.status) = "locked"
    BY <1>18 DEF VaultPhase
  <2> QED BY <1>2, <1>9, <1>12, <1>13, <1>14, <1>15, <1>16, <2>1, ViewPaysIn
<1> QED BY <1>8, <1>17, <1>18

-----------------------------------------------------------------------------
(* Money out                                                               *)

(* What a payment of x to a wallet does to the records of an agreement.    *)
PaysWallet(g, h, ts, us, w, x) ==
  /\ h.status = g.status /\ h.recipient = g.recipient
  /\ g.status \in {"FUNDING", "CANCELLED", "FINALIZED"}
  /\ x <= Due(g, ts[w], w)
  /\ g.status # "FUNDING" => x = Due(g, ts[w], w)
  /\ Due(h, us[w], w) = Due(g, ts[w], w) - x
  /\ \A v \in Wallets \ {w} : Due(h, us[v], v) = Due(g, ts[v], v)

LEMMA PaymentStep ==
  ASSUME EscrowInv, NEW a \in AgreementIds, NEW w \in Wallets, NEW x \in Uint128, x # 0,
         OnlyAt(a), balance' = balance - x, UNCHANGED forced,
         PaysWallet(agreements[a], agreements'[a], tenants[a], tenants'[a], w, x)
  PROVE  VaultStep
<1>1. PICK g, h, ts, us : /\ g = agreements[a] /\ h = agreements'[a]
                          /\ ts = tenants[a] /\ us = tenants'[a]
  OBVIOUS
<1>2. TypeOK /\ x \in Int /\ x > 0
  BY ConstantsAssumption DEF EscrowInv, Uint128
<1>3. PaysWallet(g, h, ts, us, w, x)
  BY <1>1
<1>4. Dues(h, us) = [Dues(g, ts) EXCEPT ![w] = Dues(g, ts)[w] - x]
  BY <1>3 DEF PaysWallet, Dues
<1>5. /\ Phases' = [Phases EXCEPT ![a] = VaultPhase(h.status)]
      /\ Payees' = [Payees EXCEPT ![a] = h.recipient]
      /\ Stakes' = [Stakes EXCEPT ![a] = Dues(h, us)]
  BY <1>1, ViewMoves
<1>6. Stakes[a] = Dues(g, ts) /\ Stakes[a][w] = Due(g, ts[w], w)
  BY <1>1, StakesAreDues DEF Dues
<1>7. UNCHANGED <<Phases, Payees>>
  BY <1>1, <1>3, <1>5 DEF PaysWallet, Phases, Payees
<1>8. Stakes' = [Stakes EXCEPT ![a] = [Stakes[a] EXCEPT ![w] = Stakes[a][w] - x]]
  BY <1>4, <1>5, <1>6
<1>9. Custody' = Custody - x
  BY <1>2, CustodyMoves
<1>10. /\ Phases[a] \in {"collecting", "released"} /\ x <= Stakes[a][w]
       /\ Phases[a] = "released" => x = Stakes[a][w]
  BY <1>1, <1>3, <1>6 DEF PaysWallet, Phases, VaultPhase
<1> QED BY <1>2, <1>7, <1>8, <1>9, <1>10, ViewPaysOut

(* withdrawFundingBeforeActivation.                                        *)
LEMMA FundingPaid ==
  ASSUME EscrowInv, NEW a \in AgreementIds, NEW w \in Wallets, NEW x \in Uint128,
         PaysFunding(a, w, x)
  PROVE  VaultStep
<1>1. PICK g, ts, y, z : /\ g = agreements[a] /\ ts = tenants[a]
                         /\ y = g.totalFunded - x /\ z = ts[w].fundedAmount - x
  OBVIOUS
<1>2. /\ g \in Agreement /\ ts \in [Wallets -> Tenant] /\ ts[w].fundedAmount \in Int
      /\ DOMAIN agreements = AgreementIds /\ DOMAIN tenants = AgreementIds /\ x \in Int
  BY <1>1, AgreementSound, ConstantsAssumption DEF EscrowInv, TypeOK, Tenant, Uint128
<1>3. PICK h, t, us : /\ h = [g EXCEPT !.totalFunded = y]
                      /\ t = [ts[w] EXCEPT !.fundedAmount = z] /\ us = [ts EXCEPT ![w] = t]
  OBVIOUS
<1>4. /\ g.status = "FUNDING" /\ x # 0 /\ x <= ts[w].fundedAmount
      /\ balance' = balance - x /\ UNCHANGED forced
      /\ agreements' = [agreements EXCEPT ![a] = h] /\ tenants' = [tenants EXCEPT ![a] = us]
  BY <1>1, <1>3 DEF PaysFunding, WithdrawFundingEffects, MayWithdrawFunding
<1>5. h.status = "FUNDING" /\ h.recipient = g.recipient /\ t.fundedAmount = z
  BY <1>2, <1>3, <1>4 DEF Agreement, Tenant
<1>6. /\ agreements'[a] = h /\ tenants'[a] = us /\ OnlyAt(a)
      /\ us[w] = t /\ \A v \in Wallets \ {w} : us[v] = ts[v]
  BY <1>2, <1>3, <1>4 DEF OnlyAt
<1>7. /\ Due(g, ts[w], w) = ts[w].fundedAmount /\ Due(h, t, w) = z
      /\ \A v \in Wallets : Due(h, ts[v], v) = Due(g, ts[v], v)
  <2>1. z \in Int
    BY <1>1, <1>2
  <2> QED BY <1>2, <1>4, <1>5, <2>1 DEF Due
<1>8. PaysWallet(g, h, ts, us, w, x)
  BY <1>1, <1>4, <1>5, <1>6, <1>7 DEF PaysWallet
<1> QED BY <1>1, <1>4, <1>6, <1>8, PaymentStep

(* withdrawCancelledFunding.                                               *)
LEMMA CancelledPaid ==
  ASSUME BooksInv, NEW a \in AgreementIds, NEW w \in Wallets, PaysCancelled(a, w)
  PROVE  VaultStep
<1>1. PICK g, ts, x, y : /\ g = agreements[a] /\ ts = tenants[a] /\ x = ts[w].fundedAmount
                         /\ y = g.totalCancelledFundingWithdrawn + x
  OBVIOUS
<1>2. /\ EscrowInv /\ g \in Agreement /\ ts \in [Wallets -> Tenant] /\ x \in Int
      /\ DOMAIN agreements = AgreementIds /\ DOMAIN tenants = AgreementIds
  BY <1>1, AgreementSound DEF BooksInv, EscrowInv, TypeOK, Tenant
<1>3. PICK h, t, us : /\ h = [g EXCEPT !.totalCancelledFundingWithdrawn = y]
                      /\ t = [ts[w] EXCEPT !.cancelledFundingWithdrawn = TRUE,
                                           !.cancelledFundingWithdrawnAmount = x]
                      /\ us = [ts EXCEPT ![w] = t]
  OBVIOUS
<1>4. /\ g.status = "CANCELLED" /\ x # 0 /\ ~ ts[w].cancelledFundingWithdrawn
      /\ balance' = balance - x /\ UNCHANGED forced
  BY <1>1 DEF PaysCancelled, WithdrawCancelledEffects
<1>5. agreements' = [agreements EXCEPT ![a] = h] /\ tenants' = [tenants EXCEPT ![a] = us]
  BY <1>1, <1>3 DEF PaysCancelled, WithdrawCancelledEffects
<1>6. h.status = "CANCELLED" /\ h.recipient = g.recipient /\ t.cancelledFundingWithdrawn
  BY <1>2, <1>3, <1>4 DEF Agreement, Tenant
<1>7. /\ agreements'[a] = h /\ tenants'[a] = us /\ OnlyAt(a)
      /\ us[w] = t /\ \A v \in Wallets \ {w} : us[v] = ts[v]
  BY <1>2, <1>3, <1>5 DEF OnlyAt
<1>8. /\ Due(g, ts[w], w) = x /\ Due(h, t, w) = 0
      /\ \A v \in Wallets : Due(h, ts[v], v) = Due(g, ts[v], v)
  BY <1>1, <1>2, <1>4, <1>6 DEF Due
<1>9. PaysWallet(g, h, ts, us, w, x)
  BY <1>2, <1>4, <1>6, <1>7, <1>8 DEF PaysWallet
<1>10. x \in Uint128
  BY <1>1, BooksGiveFit DEF AmountsFit
<1> QED BY <1>1, <1>2, <1>4, <1>7, <1>9, <1>10, PaymentStep

(* withdrawTenantRefund: the recipient has no refund to lose by it.        *)
LEMMA RefundPaid ==
  ASSUME BooksInv, NEW a \in AgreementIds, NEW w \in Wallets, PaysRefund(a, w)
  PROVE  VaultStep
<1>1. PICK g, ts, x : /\ g = agreements[a] /\ ts = tenants[a] /\ x = ts[w].refundAmount
  OBVIOUS
<1>2. /\ EscrowInv /\ g \in Agreement /\ ts \in [Wallets -> Tenant] /\ x \in Int
      /\ DOMAIN agreements = AgreementIds /\ DOMAIN tenants = AgreementIds
  BY <1>1, AgreementSound DEF BooksInv, EscrowInv, TypeOK, Tenant
<1>3. PICK t, us : /\ t = [ts[w] EXCEPT !.refundWithdrawn = TRUE] /\ us = [ts EXCEPT ![w] = t]
  OBVIOUS
<1>4. /\ g.status = "FINALIZED" /\ x # 0 /\ ~ ts[w].refundWithdrawn /\ ts[w].exists
      /\ balance' = balance - x /\ UNCHANGED <<forced, agreements>>
  BY <1>1 DEF PaysRefund, WithdrawRefundEffects
<1>5. tenants' = [tenants EXCEPT ![a] = us]
  BY <1>1, <1>3 DEF PaysRefund, WithdrawRefundEffects
<1>6. t.refundWithdrawn
  BY <1>2, <1>3 DEF Tenant
<1>7. /\ agreements'[a] = g /\ tenants'[a] = us /\ OnlyAt(a)
      /\ us[w] = t /\ \A v \in Wallets \ {w} : us[v] = ts[v]
  BY <1>1, <1>2, <1>3, <1>4, <1>5 DEF OnlyAt
<1>8. w # g.recipient
  <2>1. RosterSound(g, ts)
    BY <1>1 DEF BooksInv, BooksSound
  <2> QED BY <1>4, <2>1 DEF RosterSound, Existing
<1>9. Due(g, ts[w], w) = x /\ Due(g, t, w) = 0
  BY <1>1, <1>2, <1>4, <1>6, <1>8 DEF Due
<1>10. PaysWallet(g, g, ts, us, w, x)
  BY <1>2, <1>4, <1>7, <1>9 DEF PaysWallet
<1>11. x \in Uint128
  BY <1>1, BooksGiveFit DEF AmountsFit
<1> QED BY <1>1, <1>2, <1>4, <1>7, <1>10, <1>11, PaymentStep

(* withdrawRecipientPayout: nor has the recipient a refund of its own.     *)
LEMMA PayoutPaid ==
  ASSUME BooksInv, NEW a \in AgreementIds, NEW w \in Wallets, PaysPayout(a, w)
  PROVE  VaultStep
<1>1. PICK g, ts, x : /\ g = agreements[a] /\ ts = tenants[a] /\ x = g.totalApprovedClaims
  OBVIOUS
<1>2. /\ EscrowInv /\ g \in Agreement /\ ts \in [Wallets -> Tenant] /\ x \in Int
      /\ DOMAIN agreements = AgreementIds /\ DOMAIN tenants = AgreementIds
  BY <1>1, AgreementSound DEF BooksInv, EscrowInv, TypeOK, Agreement
<1>3. PICK h : h = [g EXCEPT !.recipientPayoutWithdrawn = TRUE]
  OBVIOUS
<1>4. /\ g.status = "FINALIZED" /\ x # 0 /\ ~ g.recipientPayoutWithdrawn /\ w = g.recipient
      /\ balance' = balance - x /\ UNCHANGED <<forced, tenants>>
      /\ agreements' = [agreements EXCEPT ![a] = h]
  BY <1>1, <1>3 DEF PaysPayout, WithdrawPayoutEffects
<1>5. h.status = "FINALIZED" /\ h.recipient = g.recipient /\ h.recipientPayoutWithdrawn
  BY <1>2, <1>3, <1>4 DEF Agreement
<1>6. agreements'[a] = h /\ tenants'[a] = ts /\ OnlyAt(a)
  BY <1>1, <1>2, <1>4 DEF OnlyAt
<1>7. ts[w].refundAmount = 0
  <2>1. RosterSound(g, ts) /\ TenantSound(g.status, ts[w])
    BY <1>1, <1>2, AgreementSound DEF BooksInv, BooksSound, Sound
  <2> QED BY <1>4, <2>1 DEF RosterSound, Existing, TenantSound
<1>8. /\ Due(g, ts[w], w) = x /\ Due(h, ts[w], w) = 0
      /\ \A v \in Wallets \ {w} : Due(h, ts[v], v) = Due(g, ts[v], v)
  BY <1>1, <1>2, <1>4, <1>5, <1>7 DEF Due
<1>9. PaysWallet(g, h, ts, ts, w, x)
  BY <1>2, <1>4, <1>5, <1>8 DEF PaysWallet
<1>10. x \in Uint128
  BY <1>1, BooksGiveFit DEF AmountsFit
<1> QED BY <1>1, <1>2, <1>4, <1>6, <1>9, <1>10, PaymentStep

-----------------------------------------------------------------------------
(* The end of an agreement                                                 *)

(* cancelExpiredFunding: everybody may take its own stake back.            *)
LEMMA CancelStep ==
  ASSUME EscrowInv, NEW a \in AgreementIds, NEW w \in Wallets, CancelExpiredFunding(a, w)
  PROVE  VaultStep
<1>1. PICK g, h, ts : /\ g = agreements[a] /\ ts = tenants[a]
                      /\ h = [g EXCEPT !.status = "CANCELLED"]
  OBVIOUS
<1>2. /\ g \in Agreement /\ ts \in [Wallets -> Tenant] /\ Sound(g, agreementTenants[a], ts, claims[a])
      /\ DOMAIN agreements = AgreementIds /\ DOMAIN tenants = AgreementIds
  BY <1>1, AgreementSound DEF EscrowInv, TypeOK
<1>3. /\ g.status = "FUNDING" /\ UNCHANGED <<tenants, balance, forced>>
      /\ agreements' = [agreements EXCEPT ![a] = h]
  BY <1>1 DEF CancelExpiredFunding
<1>4. h.status = "CANCELLED" /\ h.recipient = g.recipient
  BY <1>1, <1>2 DEF Agreement
<1>5. agreements'[a] = h /\ tenants'[a] = ts /\ OnlyAt(a)
  BY <1>1, <1>2, <1>3 DEF OnlyAt
<1>6. Dues(h, ts) = Dues(g, ts)
  <2>1. ASSUME NEW w2 \in Wallets
        PROVE  Due(h, ts[w2], w2) = Due(g, ts[w2], w2)
    <3>1. TenantSound(g.status, ts[w2])
      BY <1>2 DEF Sound
    <3>2. ~ ts[w2].cancelledFundingWithdrawn
      BY <1>3, <3>1 DEF TenantSound
    <3> QED BY <1>3, <1>4, <3>2 DEF Due
  <2> QED BY <2>1 DEF Dues
<1>7. /\ Phases' = [Phases EXCEPT ![a] = VaultPhase(h.status)]
      /\ Payees' = [Payees EXCEPT ![a] = h.recipient]
      /\ Stakes' = [Stakes EXCEPT ![a] = Dues(h, ts)]
  BY <1>5, ViewMoves
<1>8. /\ Phases[a] = "collecting" /\ VaultPhase(h.status) = "released"
      /\ Payees[a] = g.recipient /\ Stakes[a] = Dues(g, ts)
  BY <1>1, <1>3, <1>4, StakesAreDues DEF Phases, Payees, VaultPhase
<1>9. Phases' = [Phases EXCEPT ![a] = "released"] /\ UNCHANGED <<Payees, Stakes, Custody>>
  <2>1. Payees = [Payees EXCEPT ![a] = Payees[a]] /\ Stakes = [Stakes EXCEPT ![a] = Stakes[a]]
    BY DEF Payees, Stakes
  <2>2. UNCHANGED Custody
    BY <1>3 DEF Custody
  <2> QED BY <1>4, <1>6, <1>7, <1>8, <2>1, <2>2
<1> QED BY <1>8, <1>9, ViewLocks

(* finalizeAgreement: it shifts stakes to the recipient, and only to it.   *)
LEMMA FinalizeStep ==
  ASSUME BooksInv, BooksInv', EscrowStep, NEW a \in AgreementIds, FinalizeAgreement(a)
  PROVE  VaultStep
<1>1. PICK g, list, ts, ks, h, us :
        /\ g = agreements[a] /\ list = agreementTenants[a] /\ ts = tenants[a]
        /\ ks = claims[a] /\ h = Finalized(g) /\ us = StoredRefunds(a)
  OBVIOUS
<1>2. /\ EscrowInv /\ EscrowInv' /\ TypeOK' /\ g \in Agreement /\ ts \in [Wallets -> Tenant]
      /\ Sound(g, list, ts, ks)
      /\ DOMAIN agreements = AgreementIds /\ DOMAIN tenants = AgreementIds
  BY <1>1, AgreementSound DEF BooksInv, EscrowInv, TypeOK
<1>3. /\ g.status = "ACTIVE" /\ UNCHANGED <<balance, forced, claims>>
      /\ agreements' = [agreements EXCEPT ![a] = h] /\ tenants' = [tenants EXCEPT ![a] = us]
  BY <1>1 DEF FinalizeAgreement, Finalized
<1>4. /\ h.status = "FINALIZED" /\ h.recipient = g.recipient
      /\ h.recipientPayoutWithdrawn = g.recipientPayoutWithdrawn
      /\ h.totalApprovedClaims = g.totalApprovedClaims
  BY <1>1, <1>2 DEF Agreement, Finalized
<1>5. agreements'[a] = h /\ tenants'[a] = us /\ OnlyAt(a)
  BY <1>2, <1>3 DEF OnlyAt
<1>6. h \in Agreement /\ us \in [Wallets -> Tenant]
  BY <1>2, <1>5 DEF TypeOK
<1>7. SumFunction(Dues(h, us)) = SumFunction(Dues(g, ts))
  <2>1. PICK n, remaining : n = Len(list) /\ remaining = RemainingBalances(a)
    OBVIOUS
  <2>2. /\ n \in Nat /\ list \in [1 .. n -> Wallets] /\ remaining \in [1 .. n -> Int]
        /\ LeftWith(n, list, ts, remaining)
        /\ RefundsStored(n, list, ts, Refunds(remaining, g.sharedApprovedClaims), us)
    BY <1>1, <1>2, <2>1, StoredRefundsAre
  <2>3. g.sharedApprovedClaims <= TotalRemaining(remaining)
    BY <1>1, <2>1 DEF FinalizeAgreement, Settles
  <2>4. /\ g \in Agreement /\ ts \in [Wallets -> Tenant] /\ Sound(g, list, ts, ks)
        /\ g.status = "ACTIVE" /\ us \in [Wallets -> Tenant]
    BY <1>2, <1>3, <1>6
  <2>5. SumFunction(Dues(Finalized(g), us)) = SumFunction(Dues(g, ts))
    BY ONLY <2>2, <2>3, <2>4, FinalizationSound
  <2> QED BY <1>1, <2>5
<1>8. Settled(a, g, h, ts, us)
  <2>1. \/ Opens(a) \/ Idle(g, h, ts, us) \/ Collects(g, h, ts, us)
        \/ Settled(a, g, h, ts, us)
        \/ MovesClaim(g, h, ts, us, ks, claims'[a], votes[a], votes'[a])
    BY <1>1, <1>2, <1>5, EveryKind DEF StepKind
  <2>2. ~ Opens(a)
    BY <1>1, <1>3 DEF Opens, Unused, BlankAgreement
  <2>3. ~ MovesClaim(g, h, ts, us, ks, claims'[a], votes[a], votes'[a])
    BY <1>2, <1>3, <1>4, MovesKeepStatus
  <2> QED BY <1>3, <1>4, <2>1, <2>2, <2>3 DEF Idle, Collects
<1>9. RosterSound(g, ts) /\ LedgerSound(g, ts, ks) /\ SettledSound(h, us)
  BY <1>1, <1>5 DEF BooksInv, BooksSound
<1>10. ASSUME NEW w \in Wallets
       PROVE  /\ us[w].refundAmount \in Nat /\ us[w].refundAmount <= ts[w].fundedAmount
              /\ ~ us[w].refundWithdrawn /\ (w = g.recipient => us[w].refundAmount = 0)
  <2>1. /\ us[w].fundedAmount = ts[w].fundedAmount /\ us[w].exists = ts[w].exists
        /\ us[w].approvedIndividualClaims = ts[w].approvedIndividualClaims
    BY <1>8 DEF Settled, RowsKeepFunding, RowsKeepTerms, RowsKeepClaims
  <2>2. us[w].refundAmount \in Nat /\ us[w].refundAmount <= ts[w].fundedAmount
    <3>1. Charged(us, w) \in 0 .. Left(us)[w]
      BY <1>4, <1>9 DEF SettledSound
    <3>2. ts[w].approvedIndividualClaims \in Nat
      <4>1. ks \in [ClaimIds -> Claim]
        BY <1>1, <1>2, AgreementSound
      <4> QED BY <1>9, <4>1, AmountsNotNegative
    <3>3. ts[w].fundedAmount \in Int /\ us[w].refundAmount \in Int
      BY <1>2, <1>6 DEF Tenant
    <3>4. Left(us)[w] = ts[w].fundedAmount - ts[w].approvedIndividualClaims
      BY <2>1 DEF Left
    <3>5. PICK r \in Int, f \in Int, d \in Nat :
            r = us[w].refundAmount /\ f = ts[w].fundedAmount /\ d = ts[w].approvedIndividualClaims
      BY <3>2, <3>3
    <3>6. (f - d) - r \in 0 .. (f - d)
      BY <3>1, <3>4, <3>5 DEF Charged
    <3>7. r >= 0 /\ r <= f
      BY <3>6
    <3> QED BY <3>5, <3>7
  <2>3. ~ us[w].refundWithdrawn
    <3>1. ~ ts[w].refundWithdrawn
      BY <1>2, <1>3 DEF Sound, TenantSound
    <3>2. us[w] = ts[w] \/ \E y : us[w] = [ts[w] EXCEPT !.refundAmount = y]
      BY <1>1 DEF StoredRefunds
    <3>3. ts[w] \in Tenant
      BY <1>2
    <3> QED BY <3>1, <3>2, <3>3 DEF Tenant
  <2>4. w = g.recipient => us[w].refundAmount = 0
    <3>1. w = g.recipient => ~ us[w].exists
      BY <1>3, <1>9, <2>1 DEF RosterSound, Existing
    <3>2. TenantSound(h.status, us[w])
      BY <1>2, <1>5 DEF EscrowInv, Sound
    <3> QED BY <3>1, <3>2 DEF TenantSound
  <2> QED BY <2>2, <2>3, <2>4
<1>11. ~ h.recipientPayoutWithdrawn /\ h.totalApprovedClaims \in Uint128
  <2>1. ~ g.recipientPayoutWithdrawn
    BY <1>2, <1>3 DEF Sound, RecordSound
  <2>2. g.totalApprovedClaims \in Uint128
    BY <1>1, BooksGiveFit DEF AmountsFit
  <2> QED BY <1>4, <2>1, <2>2
<1>12. ASSUME NEW w \in Wallets
       PROVE  /\ Due(h, us[w], w) \in Uint128
              /\ w # g.recipient => Due(h, us[w], w) <= Due(g, ts[w], w)
  <2>1. CASE w = g.recipient
    BY <1>4, <1>10, <1>11, <2>1, ConstantsAssumption DEF Due, Uint128
  <2>2. CASE w # g.recipient
    <3>1. Due(h, us[w], w) = us[w].refundAmount
      BY <1>4, <1>10, <2>2 DEF Due
    <3>2. ts[w].fundedAmount \in Uint128
      BY <1>1, BooksGiveFit DEF AmountsFit
    <3>3. Due(g, ts[w], w) = ts[w].fundedAmount
      BY <1>3, <3>2, ConstantsAssumption DEF Due, Uint128
    <3> QED BY <1>10, <3>1, <3>2, <3>3, ConstantsAssumption DEF Uint128
  <2> QED BY <2>1, <2>2
<1>13. PICK settled : settled = Dues(h, us)
  OBVIOUS
<1>14. /\ settled \in [Wallets -> Uint128]
       /\ \A w \in Wallets : w # g.recipient => settled[w] <= Dues(g, ts)[w]
  BY <1>12, <1>13 DEF Dues
<1>15. /\ Phases' = [Phases EXCEPT ![a] = VaultPhase(h.status)]
       /\ Payees' = [Payees EXCEPT ![a] = h.recipient]
       /\ Stakes' = [Stakes EXCEPT ![a] = settled]
  BY <1>5, <1>13, ViewMoves
<1>16. /\ Phases[a] = "locked" /\ VaultPhase(h.status) = "released"
       /\ Payees[a] = g.recipient /\ Stakes[a] = Dues(g, ts)
  BY <1>1, <1>3, <1>4, StakesAreDues DEF Phases, Payees, VaultPhase
<1>17. Phases' = [Phases EXCEPT ![a] = "released"] /\ UNCHANGED <<Payees, Custody>>
  BY <1>3, <1>4, <1>15, <1>16 DEF Payees, Custody
<1> QED BY <1>7, <1>13, <1>14, <1>15, <1>16, <1>17, ViewSettles

(* Time passes, money is forced in, nothing happens.                       *)
LEMMA IdleStep ==
  ASSUME TypeOK, Tick \/ (\E x \in 1 .. MaxForced : ForceSend(x)) \/ UNCHANGED vars
  PROVE  VaultStep
<1>1. UNCHANGED <<agreements, tenants>>
  BY DEF Tick, ForceSend, vars, storage
<1>2. balance \in Int /\ forced \in Int
  BY ConstantsAssumption DEF TypeOK
<1>3. UNCHANGED Custody
  <2>1. CASE Tick \/ UNCHANGED vars
    BY <2>1 DEF Tick, vars, Custody
  <2>2. ASSUME NEW x \in 1 .. MaxForced, ForceSend(x)
        PROVE  UNCHANGED Custody
    <3>1. x \in Int /\ balance' = balance + x /\ forced' = forced + x
      BY <2>2, ConstantsAssumption DEF ForceSend
    <3> QED BY <1>2, <3>1 DEF Custody
  <2> QED BY <2>1, <2>2
<1>4. UNCHANGED <<Phases, Payees, Stakes>>
  BY <1>1 DEF Phases, Payees, Stakes, Owed
<1> QED BY <1>3, <1>4, ViewKept

-----------------------------------------------------------------------------
(* The refinement                                                          *)

LEMMA VaultStarts == Init => Vault!VaultInit
<1> SUFFICES ASSUME Init PROVE Vault!VaultInit
  OBVIOUS
<1>1. \A a \in AgreementIds : agreements[a] = BlankAgreement
  BY DEF Init
<1>2. BlankAgreement.status = "NONE" /\ BlankAgreement.recipient = NoWallet
  BY DEF BlankAgreement
<1>3. ASSUME NEW a \in AgreementIds, NEW w \in Wallets
      PROVE  Owed(a, w) = 0
  <2>1. tenants[a][w].fundedAmount = 0 /\ agreements[a].status = "NONE"
    BY <1>1, <1>2 DEF Init, BlankTenant
  <2> QED BY <2>1, OwedIsDue DEF Due
<1>4. [a \in AgreementIds |-> VaultPhase(agreements[a].status)]
        = [a \in AgreementIds |-> "unused"]
  BY <1>1, <1>2 DEF VaultPhase
<1>5. [a \in AgreementIds |-> agreements[a].recipient] = [a \in AgreementIds |-> NoWallet]
  BY <1>1, <1>2
<1>6. [a \in AgreementIds |-> [w \in Wallets |-> Owed(a, w)]]
        = [a \in AgreementIds |-> [w \in Wallets |-> 0]]
  BY <1>3
<1>7. balance - forced = 0
  BY DEF Init
<1> QED BY <1>4, <1>5, <1>6, <1>7 DEF Vault!VaultInit

(* Every step is one of the vault's, or moves no money.                    *)
LEMMA EscrowStepsVault ==
  ASSUME BooksInv, BooksInv', EscrowStep
  PROVE  VaultStep
<1>1. EscrowInv /\ TypeOK
  BY DEF BooksInv, EscrowInv
<1>2. ASSUME NEW a \in AgreementIds, Quiet(a)
      PROVE  VaultStep
  BY <1>1, <1>2, QuietStep
<1>3. ASSUME NEW w \in Wallets, UnguardedCall(w)
      PROVE  VaultStep
  <2>1. ASSUME NEW p \in Proposals, CreateAgreement(p)
        PROVE  VaultStep
    <3>1. nextAgreementId \in AgreementIds
      BY <2>1 DEF CreateAgreement
    <3> QED BY <1>1, <1>2, <2>1, <3>1, CreateQuiet
  <2>2. ASSUME NEW a \in AgreementIds, NEW hash,
               AcceptAsTenant(a, w, hash) \/ AcceptAsRecipient(a, w, hash)
        PROVE  VaultStep
    BY <1>1, <1>2, <2>2, AcceptQuiet
  <2>3. ASSUME NEW a \in AgreementIds, NEW x \in Uint128, Deposit(a, w, x)
        PROVE  VaultStep
    BY <2>3, DepositStep
  <2>4. ASSUME NEW a \in AgreementIds, CancelExpiredFunding(a, w)
        PROVE  VaultStep
    BY <1>1, <2>4, CancelStep
  <2>5. ASSUME NEW a \in AgreementIds, ClaimCall(a, w)
        PROVE  VaultStep
    BY <1>1, <1>2, <2>5, ClaimQuiet
  <2>6. ASSUME NEW a \in AgreementIds, FinalizeAgreement(a)
        PROVE  VaultStep
    BY <2>6, FinalizeStep
  <2>7. \/ \E p \in Proposals : CreateAgreement(p)
        \/ \E a \in AgreementIds, h \in Hashes :
             AcceptAsTenant(a, w, h) \/ AcceptAsRecipient(a, w, h)
        \/ \E a \in AgreementIds, x \in Uint128 : Deposit(a, w, x)
        \/ \E a \in AgreementIds : CancelExpiredFunding(a, w)
        \/ \E a \in AgreementIds : ClaimCall(a, w)
        \/ \E a \in AgreementIds : FinalizeAgreement(a)
    BY <1>3 DEF UnguardedCall, ClaimCall
  <2> QED BY <2>1, <2>2, <2>3, <2>4, <2>5, <2>6, <2>7
<1>4. ASSUME NEW w \in Wallets, Pays(w)
      PROVE  VaultStep
  BY <1>1, <1>4, FundingPaid, CancelledPaid, RefundPaid, PayoutPaid DEF Pays
<1>5. Tick \/ (\E x \in 1 .. MaxForced : ForceSend(x)) \/ UNCHANGED vars => VaultStep
  BY <1>1, IdleStep
<1> QED BY <1>3, <1>4, <1>5 DEF EscrowStep

(* The contract implements DepositVault: money leaves only to the wallet   *)
(* it was held for, not while the agreement is active, and finalization    *)
(* only shifts stakes from tenants to the recipient, to the wei.           *)
THEOREM PaymentsFollowVault == Spec => ImplementsVault
<1>1. BooksInv /\ BooksInv' /\ [Next]_vars => [Vault!VaultNext]_Vault!vaultVars
  BY NextIsStep, EscrowStepsVault DEF VaultStep
<1> QED BY <1>1, VaultStarts, BooksAlwaysSound, PTL DEF Spec, ImplementsVault, Vault!VaultSpec

-----------------------------------------------------------------------------
(* Re-entrancy.  A failing transfer restores the records the withdrawal    *)
(* found, so those must have been as sound as the present ones.  The       *)
(* inductive invariant says it of both: of the records as they are, and    *)
(* of the saved ones while a withdrawal is in progress.                    *)

(* BooksInv of given records instead of the variables.                     *)
RecordsTyped(ags, lists, ts, ks, vs, next, held, extra) ==
  /\ next \in 1 .. MaxAgreements + 1
  /\ ags \in [AgreementIds -> Agreement]
  /\ lists \in [AgreementIds -> Seq(Wallets)]
  /\ ts \in [AgreementIds -> [Wallets -> Tenant]]
  /\ ks \in [AgreementIds -> [ClaimIds -> Claim]]
  /\ vs \in [AgreementIds -> [ClaimIds -> [Wallets -> 0 .. 2]]]
  /\ held \in Int
  /\ extra \in 0 .. MaxForced

Books(ags, lists, ts, ks, vs, next, held, extra, time) ==
  /\ RecordsTyped(ags, lists, ts, ks, vs, next, held, extra)
  /\ time \in 0 .. MaxTime
  /\ \A a \in AgreementIds :
       /\ Sound(ags[a], lists[a], ts[a], ks[a])
       /\ BooksSound(ags[a], ts[a], ks[a], vs[a], time)
       /\ a >= next => ags[a] = BlankAgreement /\ \A w \in Wallets : ts[a][w] = BlankTenant
  /\ held = extra + SumFunction([a \in AgreementIds |-> SumFunction(Dues(ags[a], ts[a]))])

SavedSound ==
  InCall => Books(call.saved[1], call.saved[2], call.saved[3], call.saved[4], call.saved[5],
                  call.saved[6], call.saved[7], call.saved[8], now)

ReentrantInv == BooksInv /\ SavedSound

LEMMA BooksByRecords ==
  BooksInv <=> Books(agreements, agreementTenants, tenants, claims, votes,
                     nextAgreementId, balance, forced, now)
<1>1. TypeOK <=> /\ RecordsTyped(agreements, agreementTenants, tenants, claims, votes,
                                 nextAgreementId, balance, forced)
                 /\ now \in 0 .. MaxTime
  BY DEF TypeOK, RecordsTyped
<1>2. (\A a \in AgreementIds : a >= nextAgreementId => Unused(a))
        <=> \A a \in AgreementIds :
              a >= nextAgreementId => /\ agreements[a] = BlankAgreement
                                      /\ \A w \in Wallets : tenants[a][w] = BlankTenant
  BY DEF Unused
<1> QED BY <1>1, <1>2, SolventByRecords DEF BooksInv, EscrowInv, Books

(* The same of the next state.                                             *)
LEMMA BooksByRecordsNext ==
  BooksInv' <=> Books(agreements', agreementTenants', tenants', claims', votes',
                      nextAgreementId', balance', forced', now')
<1>1. BooksInv' <=> Books(agreements, agreementTenants, tenants, claims, votes,
                          nextAgreementId, balance, forced, now)'
  BY BooksByRecords, PTL
<1> QED BY <1>1 DEF Books, RecordsTyped

(* The first half of a withdrawal does what a payment does.                *)
LEMMA CallPays ==
  ASSUME NEW kind \in Kinds, NEW a \in AgreementIds, NEW w \in Wallets,
         NEW x \in Amounts(kind, a, w), Stage("call", kind, a, w, x)
  PROVE  Pays(w)
<1>1. Effects(kind, a, w, x) /\ balance' = balance - x
  BY DEF Stage, Transfer
<1>2. CASE kind = "funding" /\ WithdrawFundingEffects(a, w, x)
  BY <1>1, <1>2 DEF Pays, PaysFunding, Amounts
<1>3. CASE kind = "cancelled" /\ WithdrawCancelledEffects(a, w)
  BY <1>1, <1>3 DEF Pays, PaysCancelled, Amounts
<1>4. CASE kind = "refund" /\ WithdrawRefundEffects(a, w)
  BY <1>1, <1>4 DEF Pays, PaysRefund, Amounts
<1>5. CASE kind = "payout" /\ WithdrawPayoutEffects(a, w)
  BY <1>1, <1>5 DEF Pays, PaysPayout, Amounts
<1> QED BY <1>1, <1>2, <1>3, <1>4, <1>5 DEF Effects

(* Within a transaction the saved records stay what they are.              *)
LEMMA SavedKept ==
  ASSUME SavedSound, UNCHANGED <<call, now>>
  PROVE  SavedSound'
BY DEF SavedSound, InCall

(* Every step outside and inside a transfer keeps both.                    *)
LEMMA ReentrantStep ==
  ASSUME ReentrantInv, [ReentrantNext]_allVars
  PROVE  ReentrantInv'
<1>1. BooksInv /\ SavedSound /\ Contracts \subseteq Wallets
  BY ContractsAssumption DEF ReentrantInv
<1>2. CASE Plain
  <2>1. EscrowStep
    <3>1. ASSUME NEW w \in Wallets, Withdrawal(w)
          PROVE  EscrowStep
      <4>1. [Next]_vars
        BY <3>1 DEF Next
      <4> QED BY <4>1, NextIsStep
    <3> QED BY <1>2, <3>1 DEF Plain, EscrowStep
  <2>2. ~ InCall'
    BY <1>2 DEF Plain, InCall
  <2> QED BY <1>1, <2>1, <2>2, StepBooks DEF ReentrantInv, SavedSound
<1>3. ASSUME NEW w \in Contracts, Enter(w)
      PROVE  ReentrantInv'
  <2>1. PICK kind \in Kinds, a \in AgreementIds : \E x \in Amounts(kind, a, w) :
               /\ Stage("call", kind, a, w, x)
               /\ call' = [kind |-> kind, agreement |-> a, caller |-> w, amount |-> x,
                           saved |-> <<agreements, agreementTenants, tenants, claims, votes,
                                       nextAgreementId, balance, forced>>]
    BY <1>3 DEF Enter
  <2>2. PICK x \in Amounts(kind, a, w) :
               /\ Stage("call", kind, a, w, x)
               /\ call' = [kind |-> kind, agreement |-> a, caller |-> w, amount |-> x,
                           saved |-> <<agreements, agreementTenants, tenants, claims, votes,
                                       nextAgreementId, balance, forced>>]
    BY <2>1
  <2>3. Pays(w) /\ w \in Wallets
    BY <1>1, <2>2, CallPays
  <2>4. BooksInv'
    BY <1>1, <2>3, StepBooks DEF EscrowStep
  <2>5. now' = now
    BY <2>3, CallsTakeNoTime
  <2>6. call'.saved = <<agreements, agreementTenants, tenants, claims, votes,
                        nextAgreementId, balance, forced>>
    BY <2>2
  <2>7. Books(agreements, agreementTenants, tenants, claims, votes,
              nextAgreementId, balance, forced, now)
    BY <1>1, BooksByRecords
  <2>8. SavedSound'
    BY <2>5, <2>6, <2>7 DEF SavedSound
  <2> QED BY <2>4, <2>8 DEF ReentrantInv
<1>4. ASSUME NEW w \in Contracts, CallBack(w)
      PROVE  ReentrantInv'
  <2>1. w \in Wallets /\ UnguardedCall(w) /\ call' = call
    BY <1>1, <1>4 DEF CallBack
  <2>2. BooksInv'
    BY <1>1, <2>1, StepBooks DEF EscrowStep
  <2>3. now' = now
    BY <2>1, CallsTakeNoTime
  <2> QED BY <1>1, <2>1, <2>2, <2>3, SavedKept DEF ReentrantInv
<1>5. ASSUME NEW amount \in 1 .. MaxForced, ForceSend(amount), call' = call
      PROVE  ReentrantInv'
  <2>1. BooksInv'
    BY <1>1, <1>5, StepBooks DEF EscrowStep
  <2>2. now' = now
    BY <1>5 DEF ForceSend
  <2> QED BY <1>1, <1>5, <2>1, <2>2, SavedKept DEF ReentrantInv
<1>6. CASE Return
  <2>1. EscrowStep /\ ~ InCall'
    <3>1. UNCHANGED vars
      BY <1>6 DEF Return, Stage
    <3> QED BY <1>6, <3>1 DEF Return, EscrowStep, InCall
  <2> QED BY <1>1, <2>1, StepBooks DEF ReentrantInv, SavedSound
<1>7. CASE Revert
  <2>1. Books(agreements', agreementTenants', tenants', claims', votes',
              nextAgreementId', balance', forced', now')
    BY <1>1, <1>7 DEF Revert, SavedSound
  <2>2. ~ InCall'
    BY <1>7 DEF Revert, InCall
  <2> QED BY <2>1, <2>2, BooksByRecordsNext DEF ReentrantInv, SavedSound
<1>8. CASE UNCHANGED allVars
  <2>1. UNCHANGED vars /\ UNCHANGED <<call, now>>
    BY <1>8 DEF allVars, vars
  <2>2. BooksInv'
    BY <1>1, <2>1, StepBooks DEF EscrowStep
  <2> QED BY <1>1, <2>1, <2>2, SavedKept DEF ReentrantInv
<1> QED BY <1>2, <1>3, <1>4, <1>5, <1>6, <1>7, <1>8 DEF ReentrantNext

LEMMA ReentrantAlwaysSound == ReentrantSpec => []ReentrantInv
<1>1. ReentrantInit => ReentrantInv
  BY InitBooks DEF ReentrantInit, ReentrantInv, SavedSound, InCall
<1> QED BY <1>1, ReentrantStep, PTL DEF ReentrantSpec

(* Solvency, activation, the funding totals and the cover of the claims    *)
(* hold at every point a callback can observe, and after it has failed.    *)
THEOREM CallbacksFindOrder == ReentrantSpec => []SoundDuringCalls
<1>1. ReentrantInv => SoundDuringCalls
  <2>1. BooksInv => EscrowInv
    BY DEF BooksInv
  <2>2. EscrowInv => Solvent
    BY DEF EscrowInv
  <2> QED BY <2>1, <2>2, BooksGiveReady, RecordsGiveFunding, RecordsGiveCover
          DEF ReentrantInv, SoundDuringCalls
<1> QED BY <1>1, ReentrantAlwaysSound, PTL

(* A callback that votes, or a reverted one, leaves every claim decided by *)
(* its ballot.                                                             *)
THEOREM CallbacksKeepBallots == ReentrantSpec => []BallotDecides
<1>1. ReentrantInv => BallotDecides
  BY BooksGiveBallots DEF ReentrantInv
<1> QED BY <1>1, ReentrantAlwaysSound, PTL

(* No callback bends a settlement.                                         *)
THEOREM CallbacksKeepSettlement == ReentrantSpec => []SettlementExact
<1>1. ReentrantInv => SettlementExact
  BY BooksGiveSettlement DEF ReentrantInv
<1> QED BY <1>1, ReentrantAlwaysSound, PTL
=============================================================================
