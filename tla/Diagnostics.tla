---------------------------- MODULE Diagnostics ----------------------------
(***************************************************************************)
(* The network diagnostics (hooks/useWalletNetworkDiagnostics.ts, the      *)
(* evaluation in lib/diagnostics.ts, and the panel with its repair in      *)
(* components/NetworkDiagnosticsPanel.tsx).                                *)
(*                                                                         *)
(* A run belongs to the render it was made in: it reports on the wallets   *)
(* of that render, with what its three reads find when they get there.     *)
(* Runs overlap and the one that finishes last is shown.  A change of the  *)
(* account or the session starts a new run; one of the wallet's chain does *)
(* when wagmi tells of it, which the model leaves open.                    *)
(***************************************************************************)
EXTENDS Naturals, Sequences, SequencesExt, SignedIn

CONSTANTS
  MONAD, Chains,     (* the chains the wallet may be on                    *)
  Unread, NoAnswer,  (* a read that is not done, one that failed           *)
  NoReport,
  MaxRuns,           (* bound: runs at the same time                       *)
  MaxChanges         (* bound: changes of account, session and chain       *)

ASSUME DiagnosticsAssumption ==
  /\ MONAD \in Chains /\ {Unread, NoAnswer} \cap (Chains \cup Users \cup {Nobody}) = {}
  /\ MaxRuns \in Nat \ {0} /\ MaxChanges \in Nat

VARIABLES
  address,      (* the connected account                                   *)
  walletChain,
  runs,         (* the runs that are under way                             *)
  switching,    (* "Switch to Monad Testnet": the render it was clicked in *)
  data,         (* the report that is shown                                *)
  loading,
  changes,      (* bound: changes so far                                   *)
  unseen        (* history: the chain changed since and wagmi was silent   *)

diagnosticsVars == <<address, walletChain, runs, switching, data, loading, changes, unseen>>

(* `superseded' is no part of the code: a later render has begun its own.  *)
Render(connected, auth) == [connected |-> connected, auth |-> auth, superseded |-> FALSE]

NewRun(render, repair) ==
  [render |-> render, repair |-> repair, chain |-> Unread, account |-> Unread]

Nothing == [connected |-> Nobody, auth |-> Nobody, superseded |-> TRUE]

(* The page is opened, with whatever is connected.                         *)
Opened(connected, chain, list, shown, running, repair, n, silent) ==
  /\ connected \in Users \cup {Nobody}
  /\ chain \in Chains
  /\ list = IF connected = Nobody THEN << >> ELSE <<NewRun(Render(connected, authWallet), FALSE)>>
  /\ running = (connected # Nobody)
  /\ repair = Nothing /\ shown = NoReport /\ n = 0 /\ silent = FALSE

DiagnosticsInit == Opened(address, walletChain, runs, data, loading, switching, changes, unseen)

OpenDiagnostics == Opened(address', walletChain', runs', data', loading', switching', changes', unseen')

-----------------------------------------------------------------------------
(* run                                                                     *)

busy == switching # Nothing \/ \E i \in DOMAIN runs : runs[i].repair

(* It shows nothing at once when no wallet is connected.                   *)
Starts(list, shown, render, repair) ==
  IF render.connected = Nobody
  THEN /\ runs' = list
       /\ data' = NoReport
       /\ loading' = loading
  ELSE /\ Len(list) < MaxRuns
       /\ runs' = Append(list, NewRun(render, repair))
       /\ data' = shown
       /\ loading' = TRUE

Superseded(render) == [render EXCEPT !.superseded = TRUE]

(* The effect, after a render with other wallets or another chain.         *)
Effect(connected, auth) ==
  /\ Starts([i \in DOMAIN runs |-> [runs[i] EXCEPT !.render = Superseded(@)]],
            IF data = NoReport THEN data ELSE [data EXCEPT !.render = Superseded(@)],
            Render(connected, auth), FALSE)
  /\ switching' = IF switching = Nothing THEN Nothing ELSE Superseded(switching)
  /\ unseen' = FALSE

(* readInjected and readWalletClientAccount, each in its own time.  Of the *)
(* wallet's readings only the chain decides anything.                      *)
Reads(i, what, answers) ==
  /\ runs[i][what] = Unread
  /\ \E answer \in answers : runs' = [runs EXCEPT ![i][what] = answer]
  /\ UNCHANGED <<address, walletChain, switching, data, loading, changes, unseen>>

ReadInjected(i) == Reads(i, "chain", {walletChain, NoAnswer})
ReadAccount(i) == Reads(i, "account", (IF address = Nobody THEN {} ELSE {address}) \cup {NoAnswer})

(* evaluateHealth: `app' is whether readPublic got a block and the code.   *)
evaluateHealth(r, app) ==
  [render |-> r.render,
   networkReady |-> r.chain = MONAD /\ app,
   identityMatch |-> /\ r.render.connected = r.render.auth
                     /\ r.account \in {NoAnswer, r.render.connected}]

Finish(i) ==
  LET r == runs[i]
  IN  /\ Unread \notin {r.chain, r.account}
      /\ \E app \in BOOLEAN : data' = evaluateHealth(r, app)
      /\ runs' = RemoveAt(runs, i)
      /\ loading' = FALSE
      /\ UNCHANGED <<address, walletChain, switching, changes, unseen>>

(* The wallet's connector gives no provider: the run is over, and what it  *)
(* was to replace is still shown.                                          *)
Rejects(i) ==
  /\ runs[i].chain = Unread /\ runs[i].account = Unread
  /\ runs' = RemoveAt(runs, i)
  /\ loading' = FALSE
  /\ UNCHANGED <<address, walletChain, switching, data, changes, unseen>>

-----------------------------------------------------------------------------
(* The panel                                                               *)

Recheck ==
  /\ data # NoReport /\ ~ loading /\ ~ busy
  /\ Starts(runs, data, Render(address, authWallet), FALSE)
  /\ UNCHANGED <<address, walletChain, switching, changes, unseen>>

SwitchNetwork ==
  /\ data # NoReport /\ ~ busy
  /\ switching' = Render(address, authWallet)
  /\ UNCHANGED <<address, walletChain, runs, data, loading, changes, unseen>>

(* The chain was switched, or added, which need not switch to it: recheck, *)
(* of the render in which the button was clicked.                          *)
Switched ==
  /\ switching # Nothing
  /\ Starts(runs, data, switching, TRUE)
  /\ switching' = Nothing
  /\ UNCHANGED <<address, walletChain, changes, unseen>>

(* Neither was allowed.                                                    *)
SwitchFails ==
  /\ switching # Nothing
  /\ switching' = Nothing
  /\ UNCHANGED <<address, walletChain, runs, data, loading, changes, unseen>>

-----------------------------------------------------------------------------
(* The wallet and the session                                              *)

Changes == changes < MaxChanges /\ changes' = changes + 1

SwitchAccount ==
  /\ Changes
  /\ address' \in (Users \cup {Nobody}) \ {address}
  /\ Effect(address', authWallet)
  /\ UNCHANGED <<walletChain, authWallet>>

(* Mutant of SessionChanged: the session is no dependency of the effect.   *)
SessionChangedUnnoticed ==
  /\ Changes
  /\ UNCHANGED <<address, walletChain, runs, switching, data, loading, unseen>>

SessionChanged ==
  /\ Changes
  /\ Effect(address, authWallet')
  /\ UNCHANGED <<address, walletChain>>

SwitchChain ==
  /\ Changes
  /\ walletChain' \in Chains \ {walletChain}
  /\ \/ Effect(address, authWallet)
     \/ unseen' = TRUE /\ UNCHANGED <<runs, switching, data, loading>>
  /\ UNCHANGED <<address, authWallet>>

DiagnosticsStep ==
  \/ \E i \in DOMAIN runs : ReadInjected(i) \/ ReadAccount(i) \/ Finish(i) \/ Rejects(i)
  \/ Recheck \/ SwitchNetwork \/ Switched \/ SwitchFails

-----------------------------------------------------------------------------
(* Properties                                                              *)

(* A report that stays is about the wallet that is connected and the one   *)
(* that is signed in, and calls the network ready only if the wallet is on *)
(* it: unless it was overtaken, being of a run that a later render has     *)
(* superseded and that finished after it, or the wallet changed its chain  *)
(* without wagmi telling ("Re-run when the wallet, chain, or session       *)
(* changes", useWalletNetworkDiagnostics.ts:184).                          *)
ReportIsCurrent ==
  /\ runs = << >> /\ data # NoReport
  /\ ~ data.render.superseded
  => /\ data.render.connected = address /\ data.render.auth = authWallet
     /\ data.networkReady /\ ~ unseen => walletChain = MONAD
     /\ data.identityMatch => address = authWallet
=============================================================================
