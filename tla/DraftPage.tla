----------------------------- MODULE DraftPage -----------------------------
(***************************************************************************)
(* The page of a draft (frontend/src/pages/DraftDetail.tsx), open in its   *)
(* creator's browser, over the drafts of the backend and the chain: it     *)
(* reads the draft, has the call of createAgreement prepared, compares the *)
(* fingerprints, sends the call and has the transaction confirmed.         *)
(*                                                                         *)
(* What is read, what was prepared and what is sent are of different       *)
(* moments; the draft is edited and deleted meanwhile by other requests of *)
(* its creator.  A creation goes on when the page is left and is lost when *)
(* the browser reloads.  How its transaction is sent and polled is         *)
(* ContractTx; here it is sent, mined or given up.                         *)
(***************************************************************************)
EXTENDS Drafts

CONSTANTS
  Me,            (* the wallet that is signed in                           *)
  Signers,       (* what may be connected when the wallet is asked         *)
  NotPrepared,
  MaxCreations   (* bound: clicks on "Create agreement"                    *)

ASSUME DraftPageAssumption ==
  /\ Me \in Signers /\ Signers \subseteq Users
  /\ {"sent", "done", "failed"} \cap Workers = {}
  /\ MaxCreations \in Nat

VARIABLES
  prepared,    (* what prepare-onchain answered to the page that is open   *)
  creating     (* the creations that were sent, in order                   *)

pageVars == <<prepared, creating>>

DraftPageInit ==
  /\ DraftsInit
  /\ prepared = NotPrepared
  /\ creating = << >>

-----------------------------------------------------------------------------
(* The page                                                                *)

Owned(d) == Exists(d) /\ drafts[d].creator = Me

(* Mutant of Prepared: the tenants are taken from the terms.               *)
PreparedFromTerms(d) ==
  [draft |-> d, canonicalTerms |-> drafts[d].terms, termsHash |-> drafts[d].terms,
   recipient |-> drafts[d].recipient, roster |-> drafts[d].terms.roster]

(* prepare_onchain: the terms and their hash, and arguments that are taken *)
(* from the draft's columns and its tenant rows.                           *)
Prepared(d) ==
  [draft |-> d, canonicalTerms |-> drafts[d].terms, termsHash |-> drafts[d].terms,
   recipient |-> drafts[d].recipient, roster |-> drafts[d].roster]

(* The page is opened, perhaps, reads the draft, and has it prepared.      *)
Prepare(d) ==
  /\ prepared # NotPrepared => prepared.draft = d
  /\ Mutable(d, Me)
  /\ prepared' = Prepared(d)
  /\ UNCHANGED <<draftVars, creating>>

(* The page is left, or the draft read again is no longer a DRAFT: nothing *)
(* is offered any more.                                                    *)
Withdraw ==
  /\ prepared # NotPrepared
  /\ prepared' = NotPrepared
  /\ UNCHANGED <<draftVars, creating>>

(* The browser's own hash of the terms is the server's.                    *)
hashesMatch == prepared.canonicalTerms = prepared.termsHash

(* That the draft was last read as a DRAFT is part of what Withdraw ends;  *)
(* that a wallet is connected, to the right chain, restrains nothing here. *)
canCreate == prepared # NotPrepared /\ hashesMatch

-----------------------------------------------------------------------------
(* createOnchain                                                           *)

(* Sent transactions' hashes are taken.                                    *)
Sent == {creating[i].tx : i \in DOMAIN creating}

(* The call is clicked, simulated, and signed by whatever wallet is then   *)
(* connected.  No action key locks it: it may be clicked again at any      *)
(* time.                                                                   *)
CreateOnchain ==
  /\ canCreate
  /\ Len(creating) < MaxCreations
  /\ \E t \in Txs \ Sent, sender \in Signers :
       /\ mined[t] = NotMined
       /\ creating' = Append(creating, [arguments |-> prepared, sender |-> sender, tx |-> t, at |-> "sent"])
  /\ UNCHANGED <<draftVars, prepared>>

Goes(i, at) == creating' = [creating EXCEPT ![i].at = at]

(* createAgreement; it may be mined long after the page gave up on it.     *)
MineCreation(i) ==
  LET c == creating[i]
  IN  /\ Mine(c.tx, [creator |-> c.sender, recipient |-> c.arguments.recipient,
                     hash |-> c.arguments.termsHash, roster |-> c.arguments.roster])
      /\ UNCHANGED pageVars

(* verify: once the receipt is there, the backend is asked to confirm ...  *)
AskToConfirm(i, w) ==
  LET c == creating[i]
  IN  /\ c.at = "sent" /\ mined[c.tx] # NotMined
      /\ ReadConfirm(w, c.arguments.draft, Me, c.tx)
      /\ creating' = [creating EXCEPT ![i].at = w]
      /\ UNCHANGED <<draftTables, mined, prepared>>

(* ... and when it has, the user is taken to the agreement, from wherever  *)
(* they are by now.                                                        *)
ShowsAgreement(i) == Goes(i, "done") /\ prepared' = NotPrepared

Confirmed(i, w) ==
  /\ creating[i].at = w
  /\ WriteConfirm(w)
  /\ ShowsAgreement(i)

(* A draft that is confirmed already answers with its agreement, if it is  *)
(* asked about the transaction it was confirmed with.                      *)
AlreadyConfirmed(i) ==
  LET c == creating[i]
  IN  /\ c.at = "sent" /\ mined[c.tx] # NotMined
      /\ Owned(c.arguments.draft) /\ drafts[c.arguments.draft].status = "CONFIRMED"
      /\ drafts[c.arguments.draft].tx = c.tx
      /\ UNCHANGED draftVars
      /\ ShowsAgreement(i)

(* Mutant of ConfirmFails: an answer that is an error counts as one.       *)
ConfirmFailsUnnoticed(i, w) ==
  /\ creating[i].at = w
  /\ Abort(w)
  /\ Goes(i, "done")
  /\ UNCHANGED prepared

(* The confirmation is refused after all, or its answer is an error.       *)
ConfirmFails(i, w) ==
  /\ creating[i].at = w
  /\ Abort(w)
  /\ Goes(i, "failed")
  /\ UNCHANGED prepared

(* The transaction reverts or is not seen in time, the confirmation is     *)
(* refused, or its answer is lost.                                         *)
GiveUp(i) ==
  /\ creating[i].at \in {"sent"} \cup Workers
  /\ Goes(i, "failed")
  /\ UNCHANGED <<draftVars, prepared>>

(* The browser reloads: nothing takes a creation up again.                 *)
Reload ==
  /\ prepared' = NotPrepared
  /\ creating' = [i \in DOMAIN creating |->
       IF creating[i].at = "done" THEN creating[i] ELSE [creating[i] EXCEPT !.at = "failed"]]
  /\ UNCHANGED draftVars

-----------------------------------------------------------------------------
(* Requests that are not this page's, by its creator or anybody else.      *)
Elsewhere ==
  /\ \/ \E w \in Workers \ {creating[i].at : i \in DOMAIN creating} : DraftRequest(w)
     \/ \E t \in Txs \ Sent, creation \in Creations : Mine(t, creation)
  /\ UNCHANGED pageVars

DraftPageNext ==
  \/ \E d \in DraftIds : Prepare(d)
  \/ Withdraw \/ CreateOnchain \/ Reload
  \/ \E i \in DOMAIN creating :
       \/ MineCreation(i) \/ AlreadyConfirmed(i) \/ GiveUp(i)
       \/ \E w \in Workers : AskToConfirm(i, w) \/ Confirmed(i, w) \/ ConfirmFails(i, w)
  \/ Elsewhere

DraftPageSpec == DraftPageInit /\ [][DraftPageNext]_<<draftVars, pageVars>>

-----------------------------------------------------------------------------
(* Properties                                                              *)

(* What is signed is exactly what was agreed (DraftDetail.tsx:214-217).    *)
(* The fingerprints only tie the hash to the terms: that the recipient and *)
(* the tenants in the same call are those of the terms too rests on the    *)
(* draft being whole when it was prepared, so it holds of a draft that no  *)
(* two requests worked on at once.                                         *)
SignedIsAgreed ==
  \A i \in DOMAIN creating :
    LET c == creating[i]
    IN  c.arguments.draft \notin raced =>
          /\ c.arguments.recipient = c.arguments.termsHash.recipient
          /\ c.arguments.roster = c.arguments.termsHash.roster

(* What was prepared is what will be compared: a creation signed by the    *)
(* draft's creator is confirmed, however late, as long as the draft would  *)
(* be prepared the same way and no other one has taken its transaction.    *)
PreparedCanBeConfirmed ==
  \A i \in DOMAIN creating :
    LET c == creating[i]
        row == drafts[c.arguments.draft]
    IN  /\ mined[c.tx] # NotMined /\ c.sender = Me
        /\ Mutable(c.arguments.draft, Me) /\ Prepared(c.arguments.draft) = c.arguments
        => Matches(row, mined[c.tx])

(* A creation that is reported as done is the registered one: its draft is *)
(* confirmed with its transaction, and the terms that participants are     *)
(* shown are the ones that were sent.  So of two creations of one draft,   *)
(* which nothing prevents, one is never reported as done.                  *)
DoneIsRegistered ==
  \A i \in DOMAIN creating :
    LET c == creating[i]
    IN  c.at = "done" /\ c.arguments.draft \notin raced =>
          /\ drafts[c.arguments.draft].status = "CONFIRMED" /\ drafts[c.arguments.draft].tx = c.tx
          /\ metadata[c.tx] = c.arguments.termsHash
=============================================================================
