----------------------------- MODULE CacheSync -----------------------------
(***************************************************************************)
(* The cache repair of an agreement's page (hooks/useAgreementCacheSync.ts *)
(* of the frontend) over the records and the cache of the backend.  The    *)
(* page reads the agreement from the contract again and again, the stored  *)
(* status once; when they disagree it asks the backend to refresh its      *)
(* cache, once for as long as it is open, and reads the stored status      *)
(* again.  The two readings are of different moments, and other requests   *)
(* and the chain go on meanwhile.                                          *)
(***************************************************************************)
EXTENDS Transactions

CONSTANT PageOf   (* the agreement that the page is of                     *)

ASSUME CacheSyncAssumption == PageOf \in Agreements

VARIABLES
  page,      (* what the page holds; a status of 0 is none                 *)
  repairer   (* the worker that executes its refresh-cache, or none: {}    *)

cacheSyncVars == <<transactionVars, page, repairer>>

Mounted == [onchain |-> 0, cached |-> 0, stage |-> "loading", repaired |-> FALSE]

CacheSyncInit == TransactionsInit /\ page = Mounted /\ repairer = {}

-----------------------------------------------------------------------------
(* getAgreement, read when the page opens and every 15 seconds.            *)
ReadContract ==
  /\ page.stage \in {"loading", "watching"}
  /\ page' = [page EXCEPT !.onchain = phase[PageOf]]
  /\ UNCHANGED <<transactionVars, repairer>>

(* The stored status arrives; of an agreement that is not indexed there is *)
(* none, and a query that fails is not repeated.                           *)
ReadStored ==
  /\ page.stage \in {"loading", "reloading"}
  /\ \E answer \in {cache[PageOf].phase, page.cached} :
       page' = [page EXCEPT
         !.cached = answer,
         !.stage = IF @ = "loading" THEN "watching" ELSE "repaired",
         !.repaired = @ /\ answer = cache[PageOf].phase]
  /\ UNCHANGED <<transactionVars, repairer>>

shouldRefreshCache(onchain, cached) == onchain # 0 /\ cached # 0 /\ onchain # cached

(* The effect asks for refresh-cache, which is worked on, or refused.      *)
AskToRefresh ==
  /\ page.stage = "watching"
  /\ shouldRefreshCache(page.onchain, page.cached)
  /\ \/ \E w \in Workers :
          /\ BeginRefresh(w, PageOf)
          /\ repairer' = {w}
          /\ page' = [page EXCEPT !.stage = "refreshing"]
     \/ /\ page' = [page EXCEPT !.stage = "reloading"]
        /\ UNCHANGED <<transactionVars, repairer>>

(* Its request ends, well or not, and the page reads the stored status.    *)
Refreshes(w, committed) ==
  /\ repairer = {w}
  /\ repairer' = {}
  /\ page' = [page EXCEPT !.stage = "reloading", !.repaired = committed]

(* The page is left or reloaded, and opened again: nothing is kept, and    *)
(* its request goes on without it.                                         *)
Remount ==
  /\ page # Mounted
  /\ page' = Mounted
  /\ repairer' = {}
  /\ UNCHANGED transactionVars

PageRests == UNCHANGED <<page, repairer>>

CacheSyncNext ==
  \/ \E w \in Workers :
       \/ w \notin repairer /\ TransactionRequest(w) /\ PageRests
       \/ CommitCache(w) /\ Refreshes(w, TRUE)
       \/ Abort(w) /\ Refreshes(w, FALSE)
  \/ \E t \in Txs : ChainStep(t) /\ PageRests
  \/ ReadContract \/ ReadStored \/ AskToRefresh \/ Remount

CacheSyncSpec == CacheSyncInit /\ [][CacheSyncNext]_cacheSyncVars

-----------------------------------------------------------------------------
(* A repair repairs: once the refresh that the page asked for is committed *)
(* and the stored status read again, it is no older than the status of the *)
(* contract that the page disagreed with it about - which was read before  *)
(* all that - unless another request worked on the agreement at once.      *)
RepairCatchesUp ==
  page.repaired /\ page.stage = "repaired" /\ PageOf \notin raced => page.cached >= page.onchain
=============================================================================
