---------------------------- MODULE Transactions ----------------------------
(***************************************************************************)
(* Transaction records and the agreement cache of the backend              *)
(* (services/transactions.py, api/v1/transactions.py, cli/): a hash that   *)
(* a wallet returned is recorded, then verified against the chain pass by  *)
(* pass, and after a success the cached status of the agreement is         *)
(* refreshed from the contract.                                            *)
(*                                                                         *)
(* A request is one database transaction on its own snapshot: it loads     *)
(* rows when it begins, asks the chain one question at a time, and writes  *)
(* at its commit the columns that it has changed.  Other requests and the  *)
(* chain go on in between.  A request that fails or crashes before its     *)
(* commit leaves nothing behind: Abort.  The chain never takes a block     *)
(* back (the code does not handle it), and one node answers.               *)
(***************************************************************************)
EXTENDS Integers, FiniteSets

CONSTANTS
  Workers,       (* the requests that may be in progress at once           *)
  Txs,           (* transaction hashes                                     *)
  Agreements,
  Call,          (* what each transaction really says, and to create       *)
  Submissions,   (* what clients say of a hash they record                 *)
  NoAgreement,
  MaxPhase,      (* bound: how often an agreement's status may change      *)
  MaxRequests    (* bound: how many requests there are in all              *)

(* A createAgreement names no agreement: its receipt does (`creates').     *)
(* "foreign" stands for a call of anything but the verified contract.      *)
Functions == {"createAgreement", "deposit", "finalizeAgreement", "foreign"}

ASSUME TransactionsAssumption ==
  /\ MaxPhase \in Nat /\ MaxRequests \in Nat
  /\ NoAgreement \notin Agreements
  /\ \A t \in Txs :
       /\ {Call[t].agreement, Call[t].creates} \subseteq Agreements \cup {NoAgreement}
       /\ Call[t].function \in Functions
       /\ Call[t].creates # NoAgreement <=> Call[t].function = "createAgreement"
       /\ Call[t].creates # NoAgreement => Call[t].agreement = NoAgreement
  /\ \A s \in Submissions :
       /\ s.function \in Functions \ {"foreign"}
       /\ s.function # "createAgreement" => s.agreement # NoAgreement

VARIABLES
  rows,      (* contract_transactions, by hash (a unique column)            *)
  cache,     (* agreement_index: the cached status and last_synced_block   *)
  request,   (* worker -> the request it is executing                      *)
  net,       (* the chain: what became of each transaction                 *)
  phase,     (* the chain: agreement -> its status, numbered in the order  *)
             (* in which statuses follow each other, 0 before it exists    *)
  aged,      (* rows that are older than tx_not_found_seconds              *)
  raced,     (* history: hashes and agreements that two requests worked on *)
  begun      (* bound: the requests so far                                 *)

tables == <<rows, cache>>
history == <<raced, begun>>
chain == <<net, phase>>
transactionVars == <<rows, cache, request, net, phase, aged, raced, begun>>

Terminal == {"MINED_REVERTED", "VERIFIED", "STATE_MISMATCH"}

NoRow == [wallet |-> "", function |-> "", agreement |-> NoAgreement, status |-> "NONE"]

(* A row as record_submitted and register_known_transaction insert it.     *)
NewRow(wallet, function, agreement) ==
  [NoRow EXCEPT !.wallet = wallet, !.function = function, !.agreement = agreement,
                !.status = "SUBMITTED"]

NotIndexed == [phase |-> 0, block |-> 0]

NotSent == [state |-> "unknown", block |-> 0, phase |-> 0]

Idle == [stage |-> "idle"]

TransactionsInit ==
  /\ rows = [t \in Txs |-> NoRow]
  /\ cache = [a \in Agreements |-> NotIndexed]
  /\ request = [w \in Workers |-> Idle]
  /\ net = [t \in Txs |-> NotSent]
  /\ phase = [a \in Agreements |-> 0]
  /\ aged = {}
  /\ raced = {}
  /\ begun = 0

-----------------------------------------------------------------------------
(* Requests                                                                *)

(* The agreement that a transaction really is about.                       *)
About(t) == IF Call[t].creates # NoAgreement THEN Call[t].creates ELSE Call[t].agreement

Touches(r) == IF r.stage = "idle" THEN {} ELSE {r.tx, r.agreement}

(* A request begins; `raced' remembers what another one is working on too. *)
Begins(w, r) ==
  /\ request[w] = Idle
  /\ begun < MaxRequests
  /\ begun' = begun + 1
  /\ request' = [request EXCEPT ![w] = r]
  /\ raced' = raced \cup (Touches(r) \cap UNION {Touches(request[v]) : v \in Workers \ {w}})
  /\ UNCHANGED <<tables, chain, aged>>

(* A verification: the row as it was loaded, the row as it stands in the   *)
(* session, and the snapshot that the cache will be read from.             *)
Verification(t, loaded, row) ==
  [stage |-> "transaction", tx |-> t, agreement |-> About(t), loaded |-> loaded,
   row |-> row, old |-> t \in aged, snapshot |-> cache, fresh |-> cache]

(* The request goes on to `stage' with the row `row'.                      *)
Continues(w, from, row, stage) ==
  /\ request[w].stage = from
  /\ request' = [request EXCEPT ![w].row = row, ![w].stage = stage]
  /\ UNCHANGED <<tables, chain, aged, history>>

(* What a session writes: the columns whose value it has changed.          *)
Merged(current, loaded, new) ==
  [column \in DOMAIN new |-> IF new[column] # loaded[column] THEN new[column] ELSE current[column]]

-----------------------------------------------------------------------------
(* record_submitted for a hash that is not recorded, followed by           *)
(* verify_transaction in the same database transaction.                    *)
Record(w, t, submission) ==
  /\ rows[t] = NoRow
  /\ Begins(w, Verification(t, NoRow,
       NewRow(submission.wallet, submission.function, submission.agreement)))

(* register_known_transaction for a hash that is not recorded: the row is  *)
(* made from the transaction itself.                                       *)
RegisterKnown(w, t) ==
  /\ rows[t] = NoRow
  /\ net[t].state # "unknown"
  /\ Call[t].function # "foreign"
  /\ Begins(w, Verification(t, NoRow,
       NewRow(Call[t].sender, Call[t].function, Call[t].agreement)))

(* A terminal row is returned as it is.                                    *)
Verifiable(status) == status \notin Terminal \cup {"NONE"}

(* verify_transaction of a recorded hash: asked for by its owner, by a     *)
(* second recording, by an operator, or row by row for all unresolved ones *)
(* (those commit together, which changes nothing for each of them).        *)
Verify(w, t) ==
  /\ Verifiable(rows[t].status)
  /\ Begins(w, Verification(t, rows[t], rows[t]))

(* Mutant of FactsMatch: the sender is not compared.                       *)
FactsMatchOfAnyone(row, call) ==
  /\ row.function = call.function
  /\ row.agreement # NoAgreement => row.agreement = call.agreement

(* _validate_transaction_facts                                             *)
FactsMatch(row, call) ==
  /\ row.wallet = call.sender
  /\ row.function = call.function
  /\ row.agreement # NoAgreement => row.agreement = call.agreement

(* get_transaction_facts answers that the node does not know the hash, or  *)
(* fails, which is the same to its caller.                                 *)
TransactionUnknown(w) ==
  LET r == request[w]
  IN  Continues(w, "transaction",
        IF r.old THEN [r.row EXCEPT !.status = "NOT_FOUND"] ELSE r.row, "commit")

TransactionKnown(w) ==
  LET r == request[w]
  IN  /\ r.stage = "transaction"
      /\ net[r.tx].state # "unknown"
      /\ \/ /\ ~ FactsMatch(r.row, Call[r.tx])
            /\ Continues(w, "transaction", [r.row EXCEPT !.status = "STATE_MISMATCH"], "commit")
         \/ /\ FactsMatch(r.row, Call[r.tx])
            /\ net[r.tx].state = "pool"
            /\ Continues(w, "transaction", [r.row EXCEPT !.status = "BROADCAST_CONFIRMED"], "commit")
         \/ /\ FactsMatch(r.row, Call[r.tx])
            /\ net[r.tx].state \in {"success", "reverted"}
            /\ Continues(w, "transaction", r.row, "receipt")

(* get_receipt_facts finds no receipt, or fails.                           *)
ReceiptUnknown(w) ==
  Continues(w, "receipt", [request[w].row EXCEPT !.status = "PENDING"], "commit")

(* A success names the agreement of a createAgreement.                     *)
ReceiptKnown(w) ==
  LET r == request[w]
      succeeded == net[r.tx].state = "success"
      learned == IF r.row.agreement = NoAgreement THEN Call[r.tx].creates ELSE r.row.agreement
  IN  /\ r.stage = "receipt"
      /\ IF succeeded
         THEN Continues(w, "receipt", [r.row EXCEPT !.status = "MINED_SUCCESS",
                                                    !.agreement = learned], "refresh")
         ELSE Continues(w, "receipt", [r.row EXCEPT !.status = "MINED_REVERTED"], "commit")

Larger(i, j) == IF i > j THEN i ELSE j

(* Mutant of Refreshed: only a later block brings another status.          *)
RefreshedByBlock(entry, status, block) ==
  IF entry = NotIndexed \/ block <= entry.block THEN entry ELSE [phase |-> status, block |-> block]

(* refresh_agreement_cache: what is not indexed stays so.                  *)
Refreshed(entry, status, block) ==
  IF entry = NotIndexed THEN entry ELSE [phase |-> status, block |-> Larger(entry.block, block)]

(* Mutant of RefreshFails: verified although the cache was not refreshed.  *)
RefreshFailsVerified(w) ==
  Continues(w, "refresh", [request[w].row EXCEPT !.status = "VERIFIED"], "commit")

(* The direct read of the agreement fails: the row stays as it is.         *)
RefreshFails(w) == Continues(w, "refresh", request[w].row, "commit")

RefreshSucceeds(w) ==
  LET r == request[w]
      a == r.row.agreement
  IN  /\ r.stage = "refresh"
      /\ request' = [request EXCEPT
           ![w].row.status = "VERIFIED", ![w].stage = "commit",
           ![w].fresh[a] = Refreshed(r.snapshot[a], phase[a], net[r.tx].block)]
      /\ UNCHANGED <<tables, chain, aged, history>>

(* The commit; the insertion of a hash recorded meanwhile fails.           *)
CommitVerification(w) ==
  LET r == request[w]
  IN  /\ r.stage = "commit"
      /\ r.loaded = NoRow => rows[r.tx] = NoRow
      /\ rows' = [rows EXCEPT ![r.tx] = Merged(@, r.loaded, r.row)]
      /\ cache' = [a \in Agreements |-> Merged(cache[a], r.snapshot[a], r.fresh[a])]
      /\ request' = [request EXCEPT ![w] = Idle]
      /\ UNCHANGED <<chain, aged, history>>

-----------------------------------------------------------------------------
(* The requests that read an agreement from the contract and write it to   *)
(* the cache: refresh-cache, of an indexed agreement, and confirm_onchain, *)
(* which indexes one.                                                      *)
BeginRefresh(w, a) ==
  /\ cache[a] # NotIndexed
  /\ Begins(w, [stage |-> "write", agreement |-> a, tx |-> a, snapshot |-> cache,
                fresh |-> [cache EXCEPT ![a] = Refreshed(@, phase[a], 0)]])

BeginIndexing(w, t) ==
  LET a == Call[t].creates
  IN  /\ a # NoAgreement
      /\ net[t].state = "success"
      /\ cache[a] = NotIndexed
      /\ Begins(w, [stage |-> "write", agreement |-> a, tx |-> a, snapshot |-> cache,
                    fresh |-> [cache EXCEPT ![a] = [phase |-> phase[a], block |-> net[t].block]]])

CommitCache(w) ==
  LET r == request[w]
      a == r.agreement
  IN  /\ r.stage = "write"
      /\ r.snapshot[a] = NotIndexed => cache[a] = NotIndexed
      /\ cache' = [cache EXCEPT ![a] = Merged(@, r.snapshot[a], r.fresh[a])]
      /\ request' = [request EXCEPT ![w] = Idle]
      /\ UNCHANGED <<rows, chain, aged, history>>

Abort(w) ==
  /\ request[w] # Idle
  /\ request' = [request EXCEPT ![w] = Idle]
  /\ UNCHANGED <<tables, chain, aged, history>>

-----------------------------------------------------------------------------
(* The environment                                                         *)

Broadcast(t) ==
  /\ net[t].state = "unknown"
  /\ net' = [net EXCEPT ![t].state = "pool"]
  /\ UNCHANGED <<tables, request, phase, aged, history>>

(* The network forgets a transaction that was never mined.                 *)
Drop(t) ==
  /\ net[t].state = "pool"
  /\ net' = [net EXCEPT ![t].state = "unknown"]
  /\ UNCHANGED <<tables, request, phase, aged, history>>

Blocks == Cardinality({t \in Txs : net[t].block > 0})

MineReverted(t) ==
  /\ net[t].state = "pool"
  /\ net' = [net EXCEPT ![t] = [state |-> "reverted", block |-> Blocks + 1, phase |-> 0]]
  /\ UNCHANGED <<tables, request, phase, aged, history>>

(* A success creates the agreement or moves an existing one on, or not.    *)
MineSuccess(t, status) ==
  LET a == About(t)
  IN  /\ net[t].state = "pool"
      /\ a # NoAgreement
      /\ IF Call[t].creates # NoAgreement
         THEN phase[a] = 0 /\ status = 1
         ELSE phase[a] > 0 /\ status \in {phase[a], phase[a] + 1}
      /\ net' = [net EXCEPT ![t] = [state |-> "success", block |-> Blocks + 1, phase |-> status]]
      /\ phase' = [phase EXCEPT ![a] = status]
      /\ UNCHANGED <<tables, request, aged, history>>

Age(t) ==
  /\ rows[t] # NoRow
  /\ t \notin aged
  /\ aged' = aged \cup {t}
  /\ UNCHANGED <<tables, request, chain, history>>

TransactionRequest(w) ==
  \/ \E t \in Txs : \/ \E submission \in Submissions : Record(w, t, submission)
                    \/ RegisterKnown(w, t)
                    \/ Verify(w, t)
                    \/ BeginIndexing(w, t)
  \/ \E a \in Agreements : BeginRefresh(w, a)
  \/ TransactionUnknown(w) \/ TransactionKnown(w)
  \/ ReceiptUnknown(w) \/ ReceiptKnown(w)
  \/ RefreshFails(w) \/ RefreshSucceeds(w)
  \/ CommitVerification(w) \/ CommitCache(w)
  \/ Abort(w)

ChainStep(t) ==
  \/ Broadcast(t) \/ Drop(t) \/ MineReverted(t) \/ Age(t)
  \/ \E status \in 1..MaxPhase : MineSuccess(t, status)

TransactionsNext ==
  \/ \E w \in Workers : TransactionRequest(w)
  \/ \E t \in Txs : ChainStep(t)

TransactionsSpec == TransactionsInit /\ [][TransactionsNext]_transactionVars

-----------------------------------------------------------------------------
(* Nothing is a success or a failure that the chain does not say it is,    *)
(* whatever passes interleave and whoever recorded the hash: a success is  *)
(* a mined one of the very wallet, function and agreement of the record    *)
(* (header comment of the service, 8-16).                                  *)
OutcomesAreReal ==
  \A t \in Txs :
    /\ rows[t].status \in {"MINED_SUCCESS", "VERIFIED"} =>
         /\ net[t].state = "success"
         /\ rows[t].wallet = Call[t].sender
         /\ rows[t].function = Call[t].function
         /\ rows[t].agreement = About(t)
    /\ rows[t].status = "MINED_REVERTED" => net[t].state = "reverted"

(* The cache is never ahead of the contract, and as long as no two         *)
(* requests worked on an agreement at once, it is no older than the block  *)
(* it is labelled with and than any transaction of it that is VERIFIED:    *)
(* the effect of a verified transaction is visible.                        *)
CacheKeepsUp ==
  \A a \in Agreements :
    /\ cache[a].phase <= phase[a]
    /\ cache[a] # NotIndexed /\ a \notin raced =>
         \A t \in Txs :
           /\ About(t) = a
           /\ net[t].state = "success"
           /\ rows[t].status = "VERIFIED" \/ net[t].block <= cache[a].block
           => cache[a].phase >= net[t].phase

(* What the lifecycle says of STATE_MISMATCH (models/transactions.py:37):  *)
(* "onchain facts contradict the record".  The sender, the function or the *)
(* agreement of a mismatched record is not the transaction's.              *)
MismatchIsContradiction ==
  \A t \in Txs :
    rows[t].status = "STATE_MISMATCH" =>
      \/ rows[t].wallet # Call[t].sender
      \/ rows[t].function # Call[t].function
      \/ rows[t].agreement \notin {NoAgreement, About(t)}
=============================================================================
