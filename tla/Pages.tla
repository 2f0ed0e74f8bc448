------------------------------- MODULE Pages -------------------------------
(***************************************************************************)
(* Pages of the frontend that hold state of their own, one of which is     *)
(* open at a time (the routes of App.tsx): the wizard for a new agreement  *)
(* and the network page, over one session; only the wizard reads a clock.  *)
(* Leaving a page forgets its state.  The page of an agreement is          *)
(* AgreementPage, that of a draft DraftPage; the login is in Sessions.     *)
(* Bound: the network page is not looked at any more once time has passed  *)
(* or MaxStored drafts are stored, of which it knows nothing.              *)
(***************************************************************************)
EXTENDS AgreementWizard, Diagnostics

VARIABLE route

pagesVars == <<vars, authWallet, wizardVars, diagnosticsVars, route>>

(* No report is asked for.                                                 *)
Absent(connected, chain, list, shown, running, repair, n, silent) ==
  /\ connected = Nobody /\ chain = MONAD
  /\ list = << >> /\ shown = NoReport /\ running = FALSE /\ repair = Nothing
  /\ n = 0 /\ silent = FALSE

PagesInit ==
  /\ Init /\ SignedInInit /\ WizardInit
  /\ \/ route = "/agreements/new" /\ Absent(address, walletChain, runs, data, loading, switching, changes, unseen)
     \/ route = "/developer/network" /\ DiagnosticsInit

NothingElse == UNCHANGED <<vars, route>>

PagesNext ==
  \/ /\ route = "/agreements/new"
     /\ \/ WizardStep /\ UNCHANGED authWallet
        \/ SwitchSession /\ UNCHANGED wizardVars
     /\ UNCHANGED diagnosticsVars /\ NothingElse
  \/ /\ route = "/developer/network"
     /\ \/ DiagnosticsStep /\ UNCHANGED authWallet
        \/ SwitchAccount \/ SwitchChain
        \/ SwitchSession /\ SessionChanged
     /\ UNCHANGED wizardVars /\ NothingElse
  \/ /\ route = "/agreements/new" /\ OpenWizard
     /\ UNCHANGED <<vars, authWallet>>
     /\ \/ route' = route /\ UNCHANGED diagnosticsVars
        \/ /\ now = 0 /\ Cardinality(stored) < MaxStored
           /\ route' = "/developer/network" /\ OpenDiagnostics
  \/ /\ route = "/developer/network" /\ route' = "/agreements/new"
     /\ Absent(address', walletChain', runs', data', loading', switching', changes', unseen')
     /\ UNCHANGED <<vars, authWallet, wizardVars>>
  \/ /\ route = "/agreements/new" /\ Tick
     /\ UNCHANGED <<authWallet, wizardVars, diagnosticsVars, route>>

PagesSpec == PagesInit /\ [][PagesNext]_pagesVars
=============================================================================
