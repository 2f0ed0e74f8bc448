----------------------------- MODULE ContractTx -----------------------------
(***************************************************************************)
(* How one tab of the frontend sends a contract call and follows it        *)
(* (hooks/useContractTx.ts, app/TxContext.tsx, components/TxRecovery.tsx,  *)
(* components/TransactionDrawer.tsx, lib/txRecovery.ts,                    *)
(* lib/txPersistence.ts).                                                  *)
(*                                                                         *)
(* Every call is an entry of a short list, kept in the session storage.    *)
(* Its status is moved by asynchronous functions: the send that made the   *)
(* entry, a recovery that resumes polling, and "Check again".  Each is a   *)
(* task here; an await is where the others, the user, the wallet, the      *)
(* chain and the backend go on.  An entry that is not final locks its      *)
(* action.  A reload of the page ends every task.                          *)
(***************************************************************************)
EXTENDS Naturals, Sequences, FiniteSets, SequencesExt

CONSTANTS
  Wallets, NoWallet,
  Session,      (* the wallet that is signed in with the backend           *)
  Actions,      (* agreement functions; with chain and wallet an actionKey *)
  NoAction,
  Txs, NoTx,    (* transaction hashes                                      *)
  Capacity,     (* entries that are kept: 12                               *)
  Shown,        (* entries that the drawer shows: 4                        *)
  MaxSends,     (* bound: the entry after which no call is clicked         *)
  MaxEntries,   (* bound: entries ever made                                *)
  MaxTasks,     (* bound: functions running when the user starts another   *)
  MaxUpsets     (* bound: reloads of the page and switches of the wallet   *)

ASSUME ContractTxAssumption ==
  /\ Session \in Wallets /\ NoWallet \notin Wallets
  /\ NoAction \notin Actions /\ NoTx \notin Txs /\ IsFiniteSet(Txs)
  /\ {Capacity, Shown} \subseteq Nat \ {0}
  /\ {MaxSends, MaxEntries, MaxTasks, MaxUpsets} \subseteq Nat

VARIABLES
  entries,   (* TxProvider's transactions, newest first                    *)
  tasks,     (* the asynchronous functions that are running                *)
  resumed,   (* TxRecovery's ref: ids whose polling has been resumed       *)
  restore,   (* TxRecovery's other ref, and the fetch while it runs        *)
  account,   (* the connected wallet                                       *)
  monad,     (* whether the wallet is on Monad Testnet                     *)
  made,      (* ids given out so far                                       *)
  upsets,    (* bound: reloads and switches so far                         *)
  net,       (* the chain: what has become of each hash                    *)
  raced      (* history: ids that were sent while another send of their    *)
             (* action was simulating, or that left a final status         *)

page == <<entries, tasks, resumed>>
session == <<account, monad>>
contractTxVars == <<entries, tasks, resumed, restore, account, monad, made, upsets, net, raced>>

-----------------------------------------------------------------------------
(* Entries                                                                 *)

Terminal == {"USER_REJECTED", "MINED_REVERTED", "VERIFIED", "REPLACED", "NOT_FOUND",
             "BROADCAST_FAILED_NOT_PROPAGATED"}

Open == {"WAITING_FOR_WALLET", "BROADCAST_REQUESTED", "PENDING_ONCHAIN", "NONCE_BLOCKED",
         "REFRESHING_CONTRACT_STATE", "WALLET_RPC_DIVERGED", "TIMEOUT_OR_RPC_ERROR"}

IsTerminal(e) == e.status \in Terminal

(* `monad' is whether the entry's chain is Monad Testnet.                  *)
NewEntry(id, action, wallet, onMonad, status) ==
  [id |-> id, action |-> action, wallet |-> wallet, monad |-> onMonad, status |-> status,
   tx |-> NoTx, hidden |-> FALSE]

Ids(es) == {es[i].id : i \in DOMAIN es}
Hashes(es) == {es[i].tx : i \in DOMAIN es} \ {NoTx}

(* track, for each of `new' in turn: the newest first, and only so many.   *)
Track(es, new) ==
  LET all == new \o es
  IN  SubSeq(all, 1, IF Len(all) < Capacity THEN Len(all) ELSE Capacity)

(* update: nothing if the entry is gone.                                   *)
Update(es, id, status, tx) ==
  [i \in DOMAIN es |->
     IF es[i].id = id THEN [es[i] EXCEPT !.status = status, !.tx = tx] ELSE es[i]]

(* filter: what is at these places, in the order of the list.              *)
Only(es, places) ==
  [k \in 1 .. Cardinality(places) |->
     es[CHOOSE i \in places : Cardinality({j \in places : j <= i}) = k]]

Without(es, id) == Only(es, {i \in DOMAIN es : es[i].id # id})

(* Mutant of Persistable: only what is known to be on chain is kept.       *)
PersistablePending(e) == e.tx # NoTx /\ e.status = "PENDING_ONCHAIN"

Persistable(e) == e.tx # NoTx /\ ~IsTerminal(e)

(* What loadPersisted finds: the storage follows the list at each change.  *)
Persisted(es) ==
  LET kept == Only(es, {i \in DOMAIN es : Persistable(es[i])})
  IN [i \in DOMAIN kept |-> [kept[i] EXCEPT !.hidden = FALSE]]

(* Mutant of IsActionLocked: a hidden entry does not lock.                 *)
IsActionLockedInDrawer(action) ==
  \E i \in DOMAIN entries :
    entries[i].action = action /\ ~IsTerminal(entries[i]) /\ ~entries[i].hidden

IsActionLocked(action) ==
  \E i \in DOMAIN entries : entries[i].action = action /\ ~IsTerminal(entries[i])

-----------------------------------------------------------------------------
(* Recovery                                                                *)

Resumable == {"BROADCAST", "PENDING_ONCHAIN", "REFRESHING_CONTRACT_STATE"}

IsStaleForSession(e, connected, onMonad) ==
  /\ e.status \in Resumable /\ e.tx # NoTx
  /\ \/ ~e.monad
     \/ ~onMonad
     \/ e.wallet # NoWallet /\ connected # NoWallet /\ e.wallet # connected

(* Mutant of ShouldResume: only what is pending on chain is taken up.      *)
ShouldResumePending(e, connected, onMonad) ==
  e.status = "PENDING_ONCHAIN" /\ e.tx # NoTx /\ ~IsStaleForSession(e, connected, onMonad)

ShouldResume(e, connected, onMonad) ==
  e.status \in Resumable /\ e.tx # NoTx /\ ~IsStaleForSession(e, connected, onMonad)

(* A running function: the send of an entry or a retry of its receipt, and *)
(* where it waits.                                                         *)
Task(id, kind, at, e) ==
  [id |-> id, kind |-> kind, at |-> at, tx |-> e.tx, action |-> e.action,
   wallet |-> e.wallet, monad |-> e.monad]

(* The effect of TxRecovery that follows every change of the list, the     *)
(* account or the chain: stale entries go, the others that should be       *)
(* polled and have not been resumed on this page are.  (The ids of entries *)
(* that are gone, which never come back, are forgotten.)                   *)
Reconcile(es, running, started, connected, onMonad) ==
  LET current == {i \in DOMAIN es : ~IsStaleForSession(es[i], connected, onMonad)}
      fresh == {i \in current : /\ ShouldResume(es[i], connected, onMonad)
                                /\ es[i].id \notin started}
      taken == [i \in DOMAIN es |->
                  IF i \in fresh THEN [es[i] EXCEPT !.status = "PENDING_ONCHAIN"] ELSE es[i]]
  IN /\ entries' = Only(taken, current)
     /\ tasks' = running \cup {Task(es[i].id, "retry", "polling", es[i]) : i \in fresh}
     /\ resumed' = (started \cap {es[i].id : i \in current}) \cup {es[i].id : i \in fresh}

(* Entries that leave a final status.                                      *)
Reopened(es) == {es[i].id : i \in {j \in DOMAIN es :
                   /\ ~IsTerminal(es[j])
                   /\ \E k \in DOMAIN entries : entries[k].id = es[j].id /\ IsTerminal(entries[k])}}

(* The list becomes `es' and the running functions `running'.              *)
Becomes(es, running) ==
  /\ Reconcile(es, running, resumed, account, monad)
  /\ raced' = (raced \cap (Ids(es) \cup {t.id : t \in running})) \cup Reopened(es)

(* Task t sets the status of its entry, and `next' is what is left of it.  *)
Reports(t, status, tx, next) ==
  Becomes(Update(entries, t.id, status, tx), (tasks \ {t}) \cup next)

-----------------------------------------------------------------------------
(* send                                                                    *)

(* An action is clicked, which its page allows only to the wallet that is  *)
(* signed in, and the lock is looked at before the simulation is awaited.  *)
Send(action) ==
  /\ account = Session
  /\ ~IsActionLocked(action)
  /\ made < MaxSends /\ Cardinality(tasks) < MaxTasks
  /\ made' = made + 1
  /\ LET others == {t \in tasks : t.action = action /\ t.at = "simulating"}
         e == NewEntry(made', action, account, monad, "PREPARING")
     IN /\ tasks' = tasks \cup {Task(made', "send", "simulating", e)}
        /\ raced' = IF others = {} THEN raced ELSE raced \cup {made'} \cup {t.id : t \in others}
  /\ UNCHANGED <<entries, resumed, restore, session, upsets, net>>

(* The call would revert: an entry without a key or a hash reports it.     *)
SimulationReverts(t) ==
  /\ t.at = "simulating"
  /\ Becomes(Track(entries, <<NewEntry(t.id, NoAction, NoWallet, t.monad, "MINED_REVERTED")>>), tasks \ {t})
  /\ UNCHANGED <<restore, session, made, upsets, net>>

(* The simulation succeeds, or fails without a revert: the wallet is asked *)
(* and from now on the action is locked.                                   *)
AskWallet(t) ==
  /\ t.at = "simulating"
  /\ Becomes(Track(entries, <<NewEntry(t.id, t.action, t.wallet, t.monad, "WAITING_FOR_WALLET")>>),
             (tasks \ {t}) \cup {[t EXCEPT !.at = "wallet"]})
  /\ UNCHANGED <<restore, session, made, upsets, net>>

(* The user rejects, or the wallet fails: not final, and without a hash.   *)
WalletRefuses(t) ==
  /\ t.at = "wallet"
  /\ \E status \in {"USER_REJECTED", "TIMEOUT_OR_RPC_ERROR"} : Reports(t, status, NoTx, {})
  /\ UNCHANGED <<restore, session, made, upsets, net>>

(* The wallet returns a hash, which is posted to the backend without       *)
(* waiting.  On another chain the transaction is not one of Monad Testnet. *)
WalletSigns(t) ==
  /\ t.at = "wallet"
  /\ \E x \in Txs :
       /\ net[x] = "unsent"
       /\ net' = [net EXCEPT ![x] = IF monad THEN "sent" ELSE "elsewhere"]
       /\ Reports(t, "BROADCAST_REQUESTED", x, {[t EXCEPT !.at = "propagating", !.tx = x]})
  /\ UNCHANGED <<restore, session, made, upsets>>

Mined == {"success", "reverted"}

(* A provider may not see a transaction that was sent, or fail to answer,  *)
(* which counts as not seeing it.                                          *)
AppSees(x) == {FALSE, net[x] \in {"sent"} \cup Mined}
WalletSees(x) == {FALSE, net[x] # "unsent"}

(* classifyPropagation; a window that has passed is a later `elapsed'.     *)
ClassifyPropagation(walletSeen, appSeen, elapsed) ==
  CASE appSeen -> "APP_CONFIRMED"
    [] ~appSeen /\ walletSeen ->
         IF elapsed = "extended" THEN "WALLET_RPC_DIVERGED" ELSE "APPLICATION_RPC_DELAYED"
    [] OTHER ->
         IF elapsed = "early" THEN "KEEP_POLLING" ELSE "BROADCAST_FAILED_NOT_PROPAGATED"

(* confirmPropagation until it decides.                                    *)
Propagates(t) ==
  /\ t.at = "propagating"
  /\ \E appSeen \in AppSees(t.tx), walletSeen \in WalletSees(t.tx), elapsed \in {"early", "window", "extended"} :
       LET decision == ClassifyPropagation(walletSeen, appSeen, elapsed)
       IN \/ /\ decision = "APP_CONFIRMED"
             /\ Reports(t, "PENDING_ONCHAIN", t.tx, {[t EXCEPT !.at = "polling"]})
          \/ /\ decision \in {"WALLET_RPC_DIVERGED", "BROADCAST_FAILED_NOT_PROPAGATED"}
             /\ Reports(t, decision, t.tx, {})
  /\ UNCHANGED <<restore, session, made, upsets, net>>

-----------------------------------------------------------------------------
(* Polling and classification                                              *)

(* Mutant of PollResults: a reverted receipt counts as mined.              *)
PollResultsIgnoringStatus(x) ==
  CASE net[x] \in Mined -> {"success", "pending", "not_found"}
    [] net[x] = "sent" -> {"nonce_blocked", "pending", "not_found"}
    [] OTHER -> {"not_found"}

(* Mutant of PollResults: the poll never gives up.                         *)
PollResultsWithoutDeadline(x) == IF net[x] \in Mined THEN {net[x]} ELSE {}

(* What a poll of x may come to.  inspectOnce asks for the receipt, then   *)
(* for the transaction, which may wait behind an earlier one; a node that  *)
(* does not answer has not found it.  An outcome or a blocked nonce ends   *)
(* the poll; at its deadline a transaction that was ever seen is pending,  *)
(* and one that was not is not found.                                      *)
PollResults(x) ==
  CASE net[x] \in Mined -> {net[x], "pending", "not_found"}
    [] net[x] = "sent" -> {"nonce_blocked", "pending", "not_found"}
    [] OTHER -> {"not_found"}

(* What applyClassification makes of a result that is not a success.       *)
StatusOf(result) ==
  CASE result = "reverted" -> "MINED_REVERTED"
    [] result = "nonce_blocked" -> "NONCE_BLOCKED"
    [] result = "not_found" -> "NOT_FOUND"
    [] result = "pending" -> "TIMEOUT_OR_RPC_ERROR"

(* pollClassify and applyClassification: after a success a send goes on to *)
(* read the contract; a retry was given nothing to read.                   *)
Poll(t) ==
  /\ t.at = "polling"
  /\ \E result \in PollResults(t.tx) :
       IF result # "success" THEN Reports(t, StatusOf(result), t.tx, {})
       ELSE IF t.kind = "retry" THEN Reports(t, "VERIFIED", t.tx, {})
       ELSE Reports(t, "REFRESHING_CONTRACT_STATE", t.tx, {[t EXCEPT !.at = "verifying"]})
  /\ UNCHANGED <<restore, session, made, upsets, net>>

(* The contract read after a success: it may come from a node that is      *)
(* behind, or fail.                                                        *)
Verify(t) ==
  /\ t.at = "verifying"
  /\ \/ /\ net[t.tx] = "success"
        /\ Reports(t, "VERIFIED", t.tx, {})
     \/ Reports(t, "TIMEOUT_OR_RPC_ERROR", t.tx, {})
  /\ UNCHANGED <<restore, session, made, upsets, net>>

-----------------------------------------------------------------------------
(* The drawer                                                              *)

Visible == Only(entries, {i \in DOMAIN entries : ~entries[i].hidden})
InDrawer == {Visible[i] : i \in {j \in DOMAIN Visible : j <= Shown}}

Resolving == {"BROADCAST_REQUESTED", "BROADCAST", "PENDING_ONCHAIN", "APPLICATION_RPC_DELAYED",
              "WALLET_RPC_DIVERGED", "REFRESHING_CONTRACT_STATE"}

OffersCheck(e) == e.tx # NoTx /\ e.status \in Resolving \cup {"TIMEOUT_OR_RPC_ERROR"}

(* "Check again": retryReceipt.  Bound: one retry of an entry at a time.   *)
CheckAgain(e) ==
  /\ e \in InDrawer
  /\ OffersCheck(e)
  /\ ~ \E t \in tasks : t.id = e.id /\ t.kind = "retry"
  /\ Cardinality(tasks) < MaxTasks
  /\ Becomes(Update(entries, e.id, "PENDING_ONCHAIN", e.tx),
             tasks \cup {Task(e.id, "retry", "polling", e)})
  /\ UNCHANGED <<restore, session, made, upsets, net>>

Hide(es, id) == [i \in DOMAIN es |-> IF es[i].id = id THEN [es[i] EXCEPT !.hidden = TRUE] ELSE es[i]]

Dismiss(e) ==
  /\ e \in InDrawer
  /\ Becomes(IF IsTerminal(e) THEN Without(entries, e.id) ELSE Hide(entries, e.id), tasks)
  /\ UNCHANGED <<restore, session, made, upsets, net>>

ClearFinished ==
  /\ Visible # << >>
  /\ Becomes(Only(entries, {i \in DOMAIN entries : ~IsTerminal(entries[i])}), tasks)
  /\ UNCHANGED <<restore, session, made, upsets, net>>

-----------------------------------------------------------------------------
(* The page, the wallet and the chain                                      *)

Upset ==
  /\ upsets < MaxUpsets
  /\ upsets' = upsets + 1

(* The page is loaded anew; the wallet reconnects or has to be connected.  *)
Reload ==
  /\ Upset
  /\ account' \in {account, NoWallet}
  /\ Reconcile(Persisted(entries), {}, {}, account', monad)
  /\ restore' = [at |-> "due", known |-> {}]
  /\ UNCHANGED <<monad, made, net, raced>>

(* useAccount and useChainId change; to connect a wallet is no upset.      *)
Switch ==
  /\ IF account = NoWallet THEN UNCHANGED upsets ELSE Upset
  /\ \/ account' \in (Wallets \cup {NoWallet}) \ {account} /\ UNCHANGED monad
     \/ monad' = ~monad /\ UNCHANGED account /\ upsets' # upsets
  /\ Reconcile(entries, tasks, resumed, account', monad')
  /\ UNCHANGED <<restore, made, net, raced>>

(* Once the page is signed in, the backend's rows are fetched; the hashes  *)
(* that are tracked now are the ones that will count as known.             *)
FetchUnresolved ==
  /\ restore.at = "due" /\ account = Session
  /\ restore' = [at |-> "fetching", known |-> Hashes(entries)]
  /\ UNCHANGED <<page, session, made, upsets, net, raced>>

(* mergeBackendTransactions: rows that are not resolved and not known are  *)
(* tracked, without an action.  A hash whose post was lost has no row, one *)
(* that was mined may be resolved, and a fetch that fails brings none.     *)
MergeBackend ==
  /\ restore.at = "fetching"
  /\ restore' = [at |-> "done", known |-> {}]
  /\ \E answer \in SUBSET {x \in Txs : net[x] # "unsent"} :
       LET rows == SetToSeq(answer \ restore.known)
           merged == [i \in DOMAIN rows |->
             [NewEntry(made + 1 + Len(rows) - i, NoAction, Session, TRUE, "PENDING_ONCHAIN")
                EXCEPT !.tx = rows[i]]]
       IN /\ made + Len(rows) <= MaxEntries
          /\ made' = made + Len(rows)
          /\ Becomes(Track(entries, merged), tasks)
  /\ UNCHANGED <<session, upsets, net>>

(* A transaction is mined at any time after it was sent, and stays mined.  *)
Mine(x) ==
  /\ net[x] = "sent"
  /\ \E outcome \in Mined : net' = [net EXCEPT ![x] = outcome]
  /\ UNCHANGED <<page, restore, session, made, upsets, raced>>

-----------------------------------------------------------------------------
ContractTxInit ==
  /\ entries = << >> /\ tasks = {} /\ resumed = {}
  /\ restore = [at |-> "done", known |-> {}]
  /\ account = Session /\ monad = TRUE
  /\ made = 0 /\ upsets = 0
  /\ net = [x \in Txs |-> "unsent"]
  /\ raced = {}

Steps(t) ==
  \/ SimulationReverts(t) \/ AskWallet(t) \/ WalletRefuses(t) \/ WalletSigns(t)
  \/ Propagates(t) \/ Poll(t) \/ Verify(t)

ContractTxNext ==
  \/ \E action \in Actions : Send(action)
  \/ \E t \in tasks : Steps(t)
  \/ \E e \in InDrawer : CheckAgain(e) \/ Dismiss(e)
  \/ ClearFinished \/ Reload \/ Switch \/ FetchUnresolved \/ MergeBackend
  \/ \E x \in Txs : Mine(x)

(* Timers fire and every look at a node ends, in an answer or a failure;   *)
(* nothing is assumed of the user, the wallet, the chain or the backend.   *)
TimersFire ==
  \A id \in 1..MaxEntries :
    WF_contractTxVars(\E t \in tasks : t.id = id /\ (Propagates(t) \/ Poll(t) \/ Verify(t)))

ContractTxSpec == ContractTxInit /\ [][ContractTxNext]_contractTxVars /\ TimersFire

-----------------------------------------------------------------------------
(* Properties                                                              *)

Following(e) == {t \in tasks : t.id = e.id /\ t.at \in {"propagating", "polling", "verifying"}}

(* An entry that says "mined", "verified" or "reverted" of a hash says     *)
(* what the chain says, whichever of the polls that ran over it wrote it   *)
(* last and however late.                                                  *)
OutcomesHonest ==
  \A i \in DOMAIN entries :
    /\ entries[i].status \in {"VERIFIED", "REFRESHING_CONTRACT_STATE"} => net[entries[i].tx] = "success"
    /\ entries[i].status = "MINED_REVERTED" /\ entries[i].tx # NoTx => net[entries[i].tx] = "reverted"

(* No entry sits there for ever: one that says that it is pending or being *)
(* refreshed belongs to the connected wallet and is being followed, also   *)
(* after reloads and restores; any other with a hash that still locks its  *)
(* action is followed or offers a check.  The exception is NONCE_BLOCKED,  *)
(* which nothing looks at again.                                           *)
NothingIsForgotten ==
  \A i \in DOMAIN entries :
    LET e == entries[i]
    IN e.tx # NoTx /\ ~IsTerminal(e) /\ e.status # "NONCE_BLOCKED" =>
         /\ ~IsStaleForSession(e, account, monad)
         /\ \/ Following(e) # {}
            \/ e.status \notin Resumable /\ OffersCheck(e)

(* Two calls of one action are only open at once if the second was clicked *)
(* while the first was still simulating, or an entry was finished by one   *)
(* poll and opened again by another.                                       *)
SingleFlightUnlessRaced ==
  \A i, j \in DOMAIN entries :
    /\ i # j /\ entries[i].action = entries[j].action /\ entries[i].action # NoAction
    /\ ~IsTerminal(entries[i]) /\ ~IsTerminal(entries[j])
    => {entries[i].id, entries[j].id} \cap raced # {}

(* An action is unlocked only by an answer (a final status), because its   *)
(* entry is stale for the new wallet or chain, because twelve newer ones   *)
(* push it out (the rows of the backend, or that of a send), or by a       *)
(* reload before it had a hash.  Dismissing and clearing never unlock, nor *)
(* does a reload of an entry with a hash.                                  *)
LocksEndByAnswer ==
  [][\A i \in DOMAIN entries :
       LET e == entries[i]
           after == {k \in DOMAIN entries' : entries'[k].id = e.id}
           newer == IF made' > made THEN made' - made ELSE Cardinality(Ids(entries') \ Ids(entries))
       IN e.action # NoAction /\ ~IsTerminal(e) =>
            \/ \E k \in after : entries'[k].action = e.action
            \/ IsStaleForSession([e EXCEPT !.status = "PENDING_ONCHAIN"], account', monad') /\ e.tx # NoTx
            \/ i + newer > Capacity
            \/ upsets' # upsets /\ e.tx = NoTx]_contractTxVars

(* A pending entry never sits for ever, restored or not.                   *)
PendingSettles ==
  \A id \in 1..MaxEntries :
    LET Pending == \E i \in DOMAIN entries : entries[i].id = id /\ entries[i].status \in Resumable
    IN Pending ~> ~Pending

(* VERIFIED requires a successful receipt and a contract read that shows   *)
(* the expected change (app/TxContext.tsx:6-7).                            *)
VerifiedAfterRead ==
  [][\A i \in DOMAIN entries' :
       LET e == entries'[i]
       IN e.status = "VERIFIED" /\ (\E k \in DOMAIN entries : entries[k].id = e.id /\ entries[k].status # "VERIFIED")
            => \E t \in tasks \ tasks' : t.id = e.id /\ t.at = "verifying"]_contractTxVars
=============================================================================
