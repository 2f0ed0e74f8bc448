--------------------------- MODULE AgreementWizard ---------------------------
(***************************************************************************)
(* The wizard that makes a draft (frontend/src/pages/NewAgreement.tsx) and *)
(* the backend's acceptance of it (schemas/drafts.py, services/drafts.py,  *)
(* canonical/terms.py).  The same rules are written three times: in the    *)
(* wizard, in the backend, and in createAgreement of the contract, whose   *)
(* own guard judges the drafts here.  The wizard does not have them all.   *)
(*                                                                         *)
(* Each card of the wizard is checked when it is left, against the clock   *)
(* and the session of that moment, and nothing is checked again when the   *)
(* draft is sent.  Browser, backend and chain share one clock.  The box    *)
(* that has to be ticked is part of Submit.  Drafts are edited and deleted *)
(* on other pages (Drafts); here a stored one stays.                       *)
(***************************************************************************)
EXTENDS SharedDepositEscrow, SignedIn

CONSTANTS
  NoDate,         (* a date that is not chosen                             *)
  NoAmount,       (* an amount that monToWei throws on                     *)
  Blank,          (* a wallet that is not filled in                        *)
  Garbage,        (* one that is no address                                *)
  TypedWallets,   (* what is tried in the fields                           *)
  TypedAmounts,
  TypedBasics,
  TypedLabels,    (* whether a private label fits                          *)
  MAX_DECIMAL,    (* what the amounts' column, a DECIMAL(65), holds        *)
  MaxStored,      (* bound: drafts stored before the fields rest           *)
  NoBody, NoDraft

ASSUME WizardAssumption ==
  /\ Users \subseteq Wallets
  /\ {Blank, Garbage, Nobody} \cap (Wallets \cup {NoWallet}) = {}
  /\ TypedWallets \subseteq Wallets \cup {NoWallet, Blank, Garbage}
  /\ TypedAmounts \subseteq Nat \cup {NoAmount}
  /\ \A b \in TypedBasics :
       {b.leaseStart, b.leaseEnd, b.fundingDeadline, b.claimDeadline, b.settlementDeadline}
         \subseteq Int \cup {NoDate}
  /\ MIN_TENANTS = 2   (* the wizard asks for one tenant beside the creator *)
  /\ TypedLabels \subseteq BOOLEAN
  /\ Hashes # {}

VARIABLES
  step,       (* the card that is shown                                    *)
  form,       (* what the fields hold                                      *)
  checkedAs,  (* history: the session that the participants were checked   *)
              (* with                                                      *)
  sending,    (* the body of the request in flight                         *)
  draft,      (* the draft that the page has moved on to                   *)
  stored      (* the drafts that the backend has                           *)

wizardVars == <<step, form, checkedAs, sending, draft, stored>>

BlankTenantRow == [wallet |-> Blank, labelFits |-> TRUE, amount |-> NoAmount]

FreshForm ==
  [basics |-> [alias |-> "", addressFits |-> TRUE, leaseStart |-> NoDate, leaseEnd |-> NoDate,
               fundingDeadline |-> NoDate, claimDeadline |-> NoDate, settlementDeadline |-> NoDate],
   recipient |-> Blank, tenants |-> <<BlankTenantRow>>, creatorAmount |-> NoAmount]

Fresh(s, f, c) == s = 0 /\ f = FreshForm /\ c = Nobody

WizardInit == Fresh(step, form, checkedAs) /\ sending = NoBody /\ draft = NoDraft /\ stored = {}

-----------------------------------------------------------------------------
(* The cards.  While a draft is sent the page can still be edited, but     *)
(* nothing of that reaches the request, so it can as well come later.      *)
Shown == authWallet # Nobody /\ sending = NoBody /\ draft = NoDraft

Edits(card, f) ==
  /\ Shown /\ step = card
  /\ Cardinality(stored) < MaxStored
  /\ form' = f
  /\ UNCHANGED <<step, checkedAs, sending, draft, stored>>

EditBasics == \E b \in TypedBasics : Edits(0, [form EXCEPT !.basics = b])

EditWallet ==
  \E w \in TypedWallets :
    \/ Edits(1, [form EXCEPT !.recipient = w])
    \/ \E i \in DOMAIN form.tenants : Edits(1, [form EXCEPT !.tenants[i].wallet = w])

EditLabel ==
  \E fits \in TypedLabels, i \in DOMAIN form.tenants :
    Edits(1, [form EXCEPT !.tenants[i].labelFits = fits])

AddTenant ==
  /\ Len(form.tenants) < MAX_TENANTS - 1
  /\ Edits(1, [form EXCEPT !.tenants = Append(@, BlankTenantRow)])

RemoveLast ==
  /\ Len(form.tenants) > 1
  /\ Edits(1, [form EXCEPT !.tenants = SubSeq(@, 1, Len(@) - 1)])

EditAmount ==
  \E x \in TypedAmounts :
    \/ Edits(2, [form EXCEPT !.creatorAmount = x])
    \/ \E i \in DOMAIN form.tenants : Edits(2, [form EXCEPT !.tenants[i].amount = x])

-----------------------------------------------------------------------------
(* validateStep                                                            *)

isAddress(w) == w \in Wallets \cup {NoWallet}

tenantWallets == [i \in DOMAIN form.tenants |-> form.tenants[i].wallet]
tenantAmounts == [i \in DOMAIN form.tenants |-> form.tenants[i].amount]

BasicsValid ==
  LET b == form.basics
  IN  /\ b.alias # ""
      /\ NoDate \notin {b.leaseStart, b.leaseEnd, b.fundingDeadline, b.claimDeadline, b.settlementDeadline}
      /\ b.fundingDeadline > now
      /\ b.leaseStart <= b.leaseEnd
      /\ b.fundingDeadline <= b.leaseEnd
      /\ b.claimDeadline > b.leaseEnd
      /\ b.settlementDeadline > b.claimDeadline

(* The rows that are filled in; the others count for nothing here.         *)
filledIn == {i \in DOMAIN form.tenants : tenantWallets[i] # Blank}

(* Mutant of allTenantWallets: the creator is left out.                    *)
allTenantWalletsButMine == [i \in filledIn |-> tenantWallets[i]]

(* The creator comes first.                                                *)
allTenantWallets == [i \in {0} \cup filledIn |-> IF i = 0 THEN authWallet ELSE tenantWallets[i]]

ParticipantsValid ==
  /\ isAddress(form.recipient)
  /\ Cardinality(filledIn) \in 1 .. MAX_TENANTS - 1
  /\ \A i \in filledIn : isAddress(tenantWallets[i])
  /\ IsInjective(allTenantWallets)
  /\ form.recipient \notin Range(allTenantWallets)

ContributionsValid ==
  \A x \in Range(tenantAmounts) \cup {form.creatorAmount} : x # NoAmount /\ x # 0

validateStep(current) ==
  /\ current = 0 => BasicsValid
  /\ current = 1 => ParticipantsValid
  /\ current = 2 => ContributionsValid

Continue ==
  /\ Shown /\ step < 4
  /\ validateStep(step)
  /\ step' = step + 1
  /\ checkedAs' = IF step = 1 THEN authWallet ELSE checkedAs
  /\ UNCHANGED <<form, sending, draft, stored>>

Back ==
  /\ Shown /\ step > 0
  /\ step' = step - 1
  /\ UNCHANGED <<form, checkedAs, sending, draft, stored>>

-----------------------------------------------------------------------------
(* submit, and the backend                                                 *)

(* Every row goes in, filled in or not.  The creator is not part of it.    *)
Body ==
  [creator |-> Nobody, termsHash |-> CHOOSE h \in Hashes : TRUE,
   alias |-> form.basics.alias, addressFits |-> form.basics.addressFits,
   labelsFit |-> \A i \in DOMAIN form.tenants : form.tenants[i].labelFits,
   leaseStart |-> form.basics.leaseStart,
   leaseEnd |-> form.basics.leaseEnd, fundingDeadline |-> form.basics.fundingDeadline,
   claimDeadline |-> form.basics.claimDeadline, settlementDeadline |-> form.basics.settlementDeadline,
   recipient |-> form.recipient, tenantAddresses |-> <<authWallet>> \o tenantWallets,
   requiredAmounts |-> <<form.creatorAmount>> \o tenantAmounts]

Submit ==
  /\ Shown /\ step = 4
  /\ NoAmount \notin Range(Body.requiredAmounts)
  /\ sending' = Body
  /\ UNCHANGED <<step, form, checkedAs, draft, stored>>

(* DraftRequest.  The alias is at most as long as its input allows.        *)
WellFormed(b) ==
  /\ b.alias # "" /\ b.addressFits /\ b.labelsFit
  /\ isAddress(b.recipient)
  /\ \A date \in {b.leaseStart, b.leaseEnd, b.fundingDeadline, b.claimDeadline, b.settlementDeadline} :
       date >= 0
  /\ Len(b.tenantAddresses) \in MIN_TENANTS .. MAX_TENANTS
  /\ \A i \in DOMAIN b.tenantAddresses : isAddress(b.tenantAddresses[i])

(* Mutant of CanonicalTerms: the creator need not be a tenant.             *)
CanonicalTermsOfAnyone(creator, b) ==
  /\ 0 \notin Range(b.requiredAmounts)
  /\ IsInjective(b.tenantAddresses)
  /\ b.recipient \notin Range(b.tenantAddresses)

(* The closed schema and its _consistency.                                 *)
CanonicalTerms(creator, b) ==
  /\ 0 \notin Range(b.requiredAmounts)
  /\ IsInjective(b.tenantAddresses)
  /\ b.recipient \notin Range(b.tenantAddresses)
  /\ creator \in Range(b.tenantAddresses)

(* _build_canonical_terms: the dates, then the schema.                     *)
Consistent(creator, b) ==
  /\ b.fundingDeadline > now
  /\ b.leaseStart <= b.leaseEnd
  /\ b.fundingDeadline <= b.leaseEnd
  /\ b.claimDeadline > b.leaseEnd
  /\ b.settlementDeadline > b.claimDeadline
  /\ CanonicalTerms(creator, b)

DraftOf(creator, b) == [b EXCEPT !.creator = creator]

(* What the tables take: the amounts are within their column, and nobody   *)
(* has stored the same terms.  The private texts are no part of the terms; *)
(* those of the stored drafts fit, and tell none apart.                    *)
(* A deployment is configured, without which nothing is accepted at all.   *)
HashFree(creator, b) == DraftOf(creator, b) \notin stored

Accepted(creator, b) ==
  /\ WellFormed(b)
  /\ Consistent(creator, b)
  /\ \A x \in Range(b.requiredAmounts) : x <= MAX_DECIMAL
  /\ HashFree(creator, b)

(* create_draft, for the wallet whose session the browser's cookie is by   *)
(* now, and the page moves on to the draft, or the answer is lost and the  *)
(* form stays ...                                                          *)
Store(creator) ==
  /\ sending # NoBody
  /\ Accepted(creator, sending)
  /\ stored' = stored \cup {DraftOf(creator, sending)}
  /\ sending' = NoBody
  /\ \/ draft' = DraftOf(creator, sending) /\ Fresh(step', form', checkedAs')
     \/ UNCHANGED <<step, form, checkedAs, draft>>

(* ... or it is refused, or lost on the way.                               *)
Refuse ==
  /\ sending # NoBody
  /\ sending' = NoBody
  /\ UNCHANGED <<step, form, checkedAs, draft, stored>>

(* The wizard is opened anew.                                              *)
OpenWizard ==
  /\ sending = NoBody
  /\ draft' = NoDraft
  /\ Fresh(step', form', checkedAs')
  /\ UNCHANGED <<sending, stored>>

WizardStep ==
  \/ EditBasics \/ EditWallet \/ EditLabel \/ AddTenant \/ RemoveLast \/ EditAmount
  \/ Continue \/ Back \/ Submit \/ Refuse
  \/ \E creator \in Users : Store(creator)

-----------------------------------------------------------------------------
(* Properties                                                              *)

(* A draft the backend has stored can be created on chain by its creator   *)
(* as long as its funding deadline is ahead: "validates all contract rules *)
(* through the closed canonical schema" (services/drafts.py:61-63).  Two   *)
(* rules of the contract are checked nowhere before it: that nobody is the *)
(* zero address, and that the total fits.                                  *)
DraftIsCreatable ==
  \A d \in stored :
    /\ d.fundingDeadline > now
    /\ NoWallet \notin Range(d.tenantAddresses) \cup {d.recipient}
    /\ SumFunction(d.requiredAmounts) <= MAX_UINT128
    => Creatable(d)

(* What is shown for review would be accepted from the wallet it is shown  *)
(* to, however the cards were gone through and back: unless time has run   *)
(* out, somebody else has signed in since the participants were checked,   *)
(* or the form is one that only the backend refuses: a row without a       *)
(* wallet, a private text that is too long, a lease that starts before     *)
(* 1970, an amount beyond the column, terms that are stored already.       *)
ReviewedIsAccepted ==
  /\ step = 4 /\ authWallet # Nobody /\ authWallet = checkedAs
  /\ form.basics.fundingDeadline > now
  /\ Blank \notin Range(tenantWallets)
  /\ form.basics.addressFits /\ \A i \in DOMAIN form.tenants : form.tenants[i].labelFits
  /\ form.basics.leaseStart >= 0
  /\ \A x \in Range(tenantAmounts) \cup {form.creatorAmount} : x <= MAX_DECIMAL
  /\ DraftOf(authWallet, Body) \notin stored
  => Accepted(authWallet, Body)
=============================================================================
