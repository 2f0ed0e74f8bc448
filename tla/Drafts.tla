------------------------------- MODULE Drafts -------------------------------
(***************************************************************************)
(* Agreement drafts of the backend (services/drafts.py, api/v1/drafts.py): *)
(* they are written, edited and deleted off chain until the transaction    *)
(* that created their agreement is confirmed against the chain.            *)
(*                                                                         *)
(* A request is one database transaction on its own snapshot (REPEATABLE   *)
(* READ, one session per request): its reads and the refusals based on     *)
(* them are its Read action, its writes its Write action, and any other    *)
(* request's Write may come in between.  What the program remembers of the *)
(* rows it read is kept in `request'.  Writing sees the rows as they are   *)
(* then; of a loaded row, only the columns whose value has changed are     *)
(* written, as the ORM does.  A request that is refused, fails or crashes  *)
(* before it commits is rolled back: Abort.                                *)
(***************************************************************************)
EXTENDS Integers, Sequences, FiniteSets, Functions

CONSTANTS
  Workers,     (* the requests that may be in progress at once             *)
  DraftIds,
  Users,       (* authenticated wallets that call                          *)
  Terms,       (* canonical terms; different terms have different hashes   *)
  Txs,         (* transaction hashes                                       *)
  Creations,   (* what createAgreement may be called with on chain         *)
  NoTx, NoTerms, NoUser

VARIABLES
  drafts,      (* agreement_drafts joined with its agreement_draft_tenants *)
  index,       (* agreement_index, by the transaction that created it      *)
  metadata,    (* agreement_metadata: the accepted terms, likewise         *)
  mined,       (* the chain: transaction -> the agreement it created       *)
  request,     (* worker -> the request it is executing                    *)
  raced        (* history: drafts that two requests worked on at once      *)

draftTables == <<drafts, index, metadata>>
draftVars == <<drafts, index, metadata, mined, request, raced>>

(* The contract numbers agreements; a transaction sent to it directly      *)
(* creates one, so the transaction stands for the agreement's number.      *)
(* Nothing on chain ties a terms hash to the other arguments of the call.  *)
Creation == [creator : Users, recipient : Users, hash : Terms, roster : Seq(Users \X Nat)]

ASSUME DraftsAssumption ==
  /\ IsFiniteSet(DraftIds) /\ IsFiniteSet(Workers)
  /\ Terms \subseteq [creator : Users, recipient : Users, roster : Seq(Users \X Nat)]
  /\ Creations \subseteq Creation
  /\ NoTx \notin Txs /\ NoTerms \notin Terms /\ NoUser \notin Users

NoRow == [creator |-> NoUser, recipient |-> NoUser, terms |-> NoTerms, roster |-> <<>>,
          tx |-> NoTx, status |-> "NONE"]

NotMined == [creator |-> NoUser]
NotIndexed == [creator |-> NoUser]

Idle == [kind |-> "idle"]

DraftsInit ==
  /\ drafts = [d \in DraftIds |-> NoRow]
  /\ index = [t \in Txs |-> NotIndexed]
  /\ metadata = [t \in Txs |-> NoTerms]
  /\ mined = [t \in Txs |-> NotMined]
  /\ request = [w \in Workers |-> Idle]
  /\ raced = {}

-----------------------------------------------------------------------------
(* Requests                                                                *)

Exists(d) == drafts[d].status \in {"DRAFT", "CONFIRMED"}

Busy(d) == \E w \in Workers : request[w] # Idle /\ request[w].draft = d

(* Worker w has read what it needs and goes on to write.                   *)
Reads(w, r) ==
  /\ request[w] = Idle
  /\ request' = [request EXCEPT ![w] = r]
  /\ raced' = IF Busy(r.draft) THEN raced \cup {r.draft} ELSE raced

Writes(w, kind) ==
  /\ request[w].kind = kind
  /\ request' = [request EXCEPT ![w] = Idle]
  /\ UNCHANGED raced

(* Mutant of Mutable: require_owned_draft, as for reading.                 *)
MutableIfOwned(d, user) == drafts[d].status # "NONE" /\ drafts[d].creator = user

(* require_mutable_draft, for the authenticated user.                      *)
Mutable(d, user) == drafts[d].status = "DRAFT" /\ drafts[d].creator = user

(* The unique constraint on terms_hash.                                    *)
HashFree(d, terms) == \A e \in DraftIds \ {d} : Exists(e) => drafts[e].terms # terms

-----------------------------------------------------------------------------
(* create_draft; uuids are never used twice.                               *)
CreateDraft(w, d, terms) ==
  /\ request[w] = Idle
  /\ drafts[d].status = "NONE"
  /\ HashFree(d, terms)
  /\ drafts' = [drafts EXCEPT ![d] =
       [creator |-> terms.creator, recipient |-> terms.recipient, terms |-> terms,
        roster |-> terms.roster, tx |-> NoTx, status |-> "DRAFT"]]
  /\ UNCHANGED <<index, metadata, mined, request, raced>>

(* update_draft loads the draft ...                                        *)
ReadUpdate(w, d, user, terms) ==
  /\ Mutable(d, user)
  /\ terms.creator = user
  /\ Reads(w, [kind |-> "update", draft |-> d, terms |-> terms, loaded |-> drafts[d]])
  /\ UNCHANGED <<draftTables, mined>>

(* Mutant of Replaced: the tenant rows are left as they are.               *)
ReplacedKeepingRoster(row, loaded, terms) ==
  [row EXCEPT !.recipient = IF terms.recipient # loaded.recipient THEN terms.recipient ELSE @,
              !.terms = IF terms # loaded.terms THEN terms ELSE @]

(* The row after replace_draft_contents: changed columns, all tenant rows. *)
Replaced(row, loaded, terms) ==
  [row EXCEPT !.recipient = IF terms.recipient # loaded.recipient THEN terms.recipient ELSE @,
              !.terms = IF terms # loaded.terms THEN terms ELSE @,
              !.roster = terms.roster]

(* ... and replaces its contents.  An update that finds no row to update   *)
(* is an error (and so rolled back).                                       *)
WriteUpdate(w) ==
  LET r == request[w]
  IN  /\ Writes(w, "update")
      /\ Exists(r.draft)
      /\ r.terms # r.loaded.terms => HashFree(r.draft, r.terms)
      /\ drafts' = [drafts EXCEPT ![r.draft] = Replaced(@, r.loaded, r.terms)]
      /\ UNCHANGED <<index, metadata, mined>>

ReadDelete(w, d, user) ==
  /\ Mutable(d, user)
  /\ Reads(w, [kind |-> "delete", draft |-> d])
  /\ UNCHANGED <<draftTables, mined>>

(* Deleting a row that is gone already is no error.                        *)
WriteDelete(w) ==
  /\ Writes(w, "delete")
  /\ drafts' = [drafts EXCEPT ![request[w].draft] = [NoRow EXCEPT !.status = "DELETED"]]
  /\ UNCHANGED <<index, metadata, mined>>

-----------------------------------------------------------------------------
(* Confirmation                                                            *)

(* Another draft is registered with this transaction.                      *)
Conflicting(d, t) == \E e \in DraftIds \ {d} : Exists(e) /\ drafts[e].tx = t

(* Mutant of Matches: the terms hash is not compared.                      *)
MatchesWithoutHash(draft, creation) ==
  /\ creation.creator = draft.creator
  /\ creation.recipient = draft.recipient
  /\ creation.roster = draft.roster

(* The AgreementCreated event and the contract's tenant records against    *)
(* the draft that was loaded.                                              *)
Matches(draft, creation) ==
  /\ creation.creator = draft.creator
  /\ creation.hash = draft.terms
  /\ creation.recipient = draft.recipient
  /\ creation.roster = draft.roster

(* Confirming a confirmed draft again changes nothing: it is answered or,  *)
(* for another transaction, refused.  The chain is only asked about what   *)
(* never changes once mined, so when it is asked makes no difference.      *)
ReadConfirm(w, d, user, t) ==
  /\ Mutable(d, user)
  /\ ~ Conflicting(d, t)
  /\ mined[t] # NotMined
  /\ Matches(drafts[d], mined[t])
  /\ Reads(w, [kind |-> "confirm", draft |-> d, tx |-> t, loaded |-> drafts[d],
               newIndex |-> index[t] = NotIndexed, newMetadata |-> metadata[t] = NoTerms])
  /\ UNCHANGED <<draftTables, mined>>

(* The primary keys of agreement_index and agreement_metadata.             *)
NoDuplicate(r) ==
  /\ r.newIndex => index[r.tx] = NotIndexed
  /\ r.newMetadata => metadata[r.tx] = NoTerms

WriteConfirm(w) ==
  LET r == request[w]
  IN  /\ Writes(w, "confirm")
      /\ Exists(r.draft)
      /\ NoDuplicate(r)
      /\ drafts' = [drafts EXCEPT ![r.draft].status = "CONFIRMED", ![r.draft].tx = r.tx]
      /\ index' = IF r.newIndex
                  THEN [index EXCEPT ![r.tx] =
                          [creator |-> r.loaded.creator, recipient |-> r.loaded.recipient,
                           hash |-> r.loaded.terms, tx |-> r.tx]]
                  ELSE index
      /\ metadata' = IF r.newMetadata
                     THEN [metadata EXCEPT ![r.tx] = r.loaded.terms]
                     ELSE metadata
      /\ UNCHANGED mined

-----------------------------------------------------------------------------
(* The environment: anybody creates an agreement with any terms hash.      *)
Mine(t, creation) ==
  /\ mined[t] = NotMined
  /\ mined' = [mined EXCEPT ![t] = creation]
  /\ UNCHANGED <<draftTables, request, raced>>

Abort(w) ==
  /\ request[w] # Idle
  /\ request' = [request EXCEPT ![w] = Idle]
  /\ UNCHANGED <<draftTables, mined, raced>>

DraftRequest(w) ==
  \/ \E d \in DraftIds, terms \in Terms : CreateDraft(w, d, terms)
  \/ \E d \in DraftIds, user \in Users, terms \in Terms : ReadUpdate(w, d, user, terms)
  \/ \E d \in DraftIds, user \in Users : ReadDelete(w, d, user)
  \/ \E d \in DraftIds, user \in Users, t \in Txs : ReadConfirm(w, d, user, t)
  \/ WriteUpdate(w)
  \/ WriteDelete(w)
  \/ WriteConfirm(w)
  \/ Abort(w)

DraftsNext ==
  \/ \E w \in Workers : DraftRequest(w)
  \/ \E t \in Txs, creation \in Creations : Mine(t, creation)

DraftsSpec == DraftsInit /\ [][DraftsNext]_draftVars

-----------------------------------------------------------------------------
(* Whatever is edited or deleted while a confirmation is under way, what   *)
(* it registers is the agreement on chain: the index row and the private   *)
(* metadata of an agreement carry its creator, its recipient and its terms *)
(* (the comparisons of confirm_onchain, and its header comment at 4-8).    *)
IndexIsTheChain ==
  \A t \in Txs :
    /\ index[t] # NotIndexed =>
         /\ mined[t] # NotMined
         /\ index[t].creator = mined[t].creator
         /\ index[t].recipient = mined[t].recipient
         /\ index[t].hash = mined[t].hash
    /\ metadata[t] # NoTerms => index[t] # NotIndexed /\ metadata[t] = mined[t].hash

(* A confirmed draft is immutable (services/drafts.py:153), unless another *)
(* request was under way when it was confirmed.                            *)
ConfirmedIsImmutable ==
  [][\A d \in DraftIds :
       drafts[d].status = "CONFIRMED" /\ drafts'[d] # drafts[d] => d \in raced]_draftVars
=============================================================================
