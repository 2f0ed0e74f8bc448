---------------------------- MODULE PagesProofs ----------------------------
(***************************************************************************)
(* What the pages of the frontend promise, for any wallets, amounts, dates *)
(* and sizes: the network page never leaves a report of other wallets up,  *)
(* what the wizard lets through to the review is what the backend accepts, *)
(* what the backend stores the contract creates, and the page of an        *)
(* agreement offers what the contract accepts and sees what its calls did. *)
(***************************************************************************)
EXTENDS Pages, AgreementPage, SolvencyProofs, SequenceTheorems

-----------------------------------------------------------------------------
(* The network page                                                        *)

SomeWallet == Users \cup {Nobody}

Renders == [connected : SomeWallet, auth : SomeWallet, superseded : BOOLEAN]

(* A render that is not superseded is of the wallets of now.               *)
Fresher(render) ==
  ~ render.superseded => render.connected = address /\ render.auth = authWallet

(* Unless wagmi was silent, a wallet that was found on the chain is on it. *)
StillOn(render, found) == ~ render.superseded /\ found /\ ~ unseen => walletChain = MONAD

Run ==
  [render : Renders, repair : BOOLEAN,
   chain : Chains \cup {Unread, NoAnswer}, account : Users \cup {Unread, NoAnswer}]

TrueRuns == {r \in Run : Fresher(r.render) /\ StillOn(r.render, r.chain = MONAD)}

Report == [render : Renders, networkReady : BOOLEAN, identityMatch : BOOLEAN]

TrueReports ==
  {d \in Report :
     /\ Fresher(d.render) /\ StillOn(d.render, d.networkReady)
     /\ d.identityMatch => d.render.connected = d.render.auth}

(* What the network page holds: runs, a report and a repair, of the        *)
(* wallets of now if no later render has superseded them.                  *)
DiagnosticsInv ==
  /\ address \in SomeWallet /\ authWallet \in SomeWallet /\ walletChain \in Chains
  /\ runs \in Seq(TrueRuns)
  /\ data \in TrueReports \cup {NoReport}
  /\ switching \in Renders /\ Fresher(switching)

LEMMA RemovedSeq ==
  ASSUME NEW S, NEW s \in Seq(S), NEW i \in DOMAIN s
  PROVE  RemoveAt(s, i) \in Seq(S)
<1>1. Len(s) \in Nat /\ DOMAIN s = 1 .. Len(s)
  OBVIOUS
<1>2. SubSeq(s, 1, i - 1) \in Seq(S)
  BY <1>1, SubSeqProperties
<1>3. SubSeq(s, i + 1, Len(s)) \in Seq(S)
  BY <1>1, SubSeqProperties
<1> QED BY <1>2, <1>3 DEF RemoveAt

LEMMA ShortSeqs ==
  ASSUME NEW S
  PROVE  << >> \in Seq(S) /\ \A r \in S : <<r>> \in Seq(S)
OBVIOUS

LEMMA SeqElements ==
  ASSUME NEW S, NEW s \in Seq(S)
  PROVE  Len(s) \in Nat /\ DOMAIN s = 1 .. Len(s) /\ \A i \in DOMAIN s : s[i] \in S
OBVIOUS

LEMMA RendersTyped ==
  /\ Nothing \in Renders /\ Nothing.superseded
  /\ \A c, a \in SomeWallet :
       /\ Render(c, a) \in Renders /\ ~ Render(c, a).superseded
       /\ Render(c, a).connected = c /\ Render(c, a).auth = a
  /\ \A r \in Renders :
       /\ Superseded(r) \in Renders /\ Superseded(r).superseded
       /\ Superseded(r).connected = r.connected /\ Superseded(r).auth = r.auth
BY DEF Renders, Nothing, Render, Superseded, SomeWallet

(* A run has read nothing yet.                                             *)
LEMMA NewRunTrue ==
  ASSUME NEW render \in Renders, Fresher(render), NEW repair \in BOOLEAN
  PROVE  NewRun(render, repair) \in TrueRuns
<1>1. Unread # MONAD
  BY DiagnosticsAssumption
<1> QED BY <1>1 DEF NewRun, TrueRuns, Run, StillOn

LEMMA NewRunTruePrime ==
  ASSUME NEW render \in Renders, Fresher(render)', NEW repair \in BOOLEAN
  PROVE  NewRun(render, repair) \in TrueRuns'
<1>1. Unread # MONAD
  BY DiagnosticsAssumption
<1> QED BY <1>1 DEF NewRun, TrueRuns, Run, StillOn

LEMMA StartsTrue ==
  ASSUME NEW list \in Seq(TrueRuns'), NEW shown \in TrueReports' \cup {NoReport},
         NEW render \in Renders, Fresher(render)', NEW repair \in BOOLEAN,
         Starts(list, shown, render, repair)
  PROVE  runs' \in Seq(TrueRuns') /\ data' \in TrueReports' \cup {NoReport}
<1>1. NewRun(render, repair) \in TrueRuns'
  BY NewRunTruePrime
<1>2. PICK S, r : S = TrueRuns' /\ r = NewRun(render, repair)
  OBVIOUS
<1>3. Append(list, r) \in Seq(S)
  BY <1>1, <1>2
<1> QED BY <1>2, <1>3 DEF Starts

(* What a superseded run or report says is not relied on.                  *)
LEMMA OldRunsTrue ==
  ASSUME NEW list \in Seq(Run)
  PROVE  [i \in DOMAIN list |-> [list[i] EXCEPT !.render = Superseded(@)]] \in Seq(TrueRuns')
<1>1. Len(list) \in Nat /\ DOMAIN list = 1 .. Len(list) /\ \A i \in DOMAIN list : list[i] \in Run
  OBVIOUS
<1>2. \A r \in Run : [r EXCEPT !.render = Superseded(@)] \in TrueRuns'
  <2> SUFFICES ASSUME NEW r \in Run PROVE [r EXCEPT !.render = Superseded(@)] \in TrueRuns'
    OBVIOUS
  <2>1. r.render \in Renders
    BY DEF Run
  <2>2. PICK o \in Renders : o = Superseded(r.render) /\ o.superseded
    BY <2>1, RendersTyped
  <2>3. [r EXCEPT !.render = o] \in Run /\ [r EXCEPT !.render = o].render = o
    BY DEF Run
  <2> QED BY <2>2, <2>3 DEF TrueRuns, Fresher, StillOn
<1>3. \A i \in 1 .. Len(list) : [list[i] EXCEPT !.render = Superseded(@)] \in TrueRuns'
  BY <1>1, <1>2
<1> QED BY <1>1, <1>3

LEMMA OldReportTrue ==
  ASSUME NEW d \in TrueReports
  PROVE  [d EXCEPT !.render = Superseded(@)] \in TrueReports'
<1>1. d \in Report /\ d.render \in Renders /\ (d.identityMatch => d.render.connected = d.render.auth)
  BY DEF TrueReports, Report
<1>2. PICK o \in Renders :
        /\ o = Superseded(d.render) /\ o.superseded
        /\ o.connected = d.render.connected /\ o.auth = d.render.auth
  BY <1>1, RendersTyped
<1>3. PICK e \in Report :
        /\ e = [d EXCEPT !.render = o]
        /\ e.render = o /\ e.networkReady = d.networkReady /\ e.identityMatch = d.identityMatch
  <2>1. [d EXCEPT !.render = o] \in Report
    BY <1>1 DEF Report
  <2> QED BY <1>1, <2>1 DEF Report
<1>4. e \in TrueReports'
  BY <1>1, <1>2, <1>3 DEF TrueReports, Fresher, StillOn
<1> QED BY <1>2, <1>3, <1>4

(* The effect begins anew for the wallets of the render it is run in.      *)
LEMMA EffectTrue ==
  ASSUME DiagnosticsInv, NEW c \in SomeWallet, NEW a \in SomeWallet,
         address' = c, authWallet' = a, Effect(c, a)
  PROVE  /\ runs' \in Seq(TrueRuns') /\ data' \in TrueReports' \cup {NoReport}
         /\ switching' \in Renders /\ Fresher(switching)'
<1>1. PICK list : list = [i \in DOMAIN runs |-> [runs[i] EXCEPT !.render = Superseded(@)]]
  OBVIOUS
<1>2. list \in Seq(TrueRuns')
  <2>1. runs \in Seq(Run)
    BY DEF DiagnosticsInv, TrueRuns
  <2> QED BY <1>1, <2>1, OldRunsTrue
<1>3. PICK shown :
        shown = IF data = NoReport THEN data ELSE [data EXCEPT !.render = Superseded(@)]
  OBVIOUS
<1>4. shown \in TrueReports' \cup {NoReport}
  BY <1>3, OldReportTrue DEF DiagnosticsInv
<1>5. PICK render \in Renders : render = Render(c, a) /\ Fresher(render)'
  BY RendersTyped DEF Fresher
<1>6. Starts(list, shown, render, FALSE)
  BY <1>1, <1>3, <1>5 DEF Effect
<1>7. runs' \in Seq(TrueRuns') /\ data' \in TrueReports' \cup {NoReport}
  <2>1. FALSE \in BOOLEAN
    OBVIOUS
  <2> QED BY <1>2, <1>4, <1>5, <1>6, <2>1, StartsTrue
<1>8. switching' \in Renders /\ switching'.superseded
  BY RendersTyped DEF Effect, DiagnosticsInv
<1> QED BY <1>7, <1>8 DEF Fresher


(* What a run reads is so at that moment.                                  *)
LEMMA ReadsTrue ==
  ASSUME DiagnosticsInv, NEW i \in DOMAIN runs, ReadInjected(i) \/ ReadAccount(i),
         UNCHANGED authWallet
  PROVE  DiagnosticsInv'
<1>1. /\ UNCHANGED <<address, walletChain, switching, data, unseen>>
      /\ DOMAIN runs = 1 .. Len(runs) /\ Len(runs) \in Nat
      /\ runs[i] \in TrueRuns
  BY DEF DiagnosticsInv, ReadInjected, ReadAccount, Reads
<1>2. TrueRuns' = TrueRuns /\ TrueReports' = TrueReports
  BY <1>1 DEF TrueRuns, TrueReports, Fresher, StillOn
<1>3. PICK r \in Run : r = runs[i] /\ Fresher(r.render) /\ StillOn(r.render, r.chain = MONAD)
  BY <1>1 DEF TrueRuns
<1>4. PICK s \in TrueRuns : runs' = [runs EXCEPT ![i] = s]
  <2>1. CASE ReadInjected(i)
    <3>1. PICK answer \in {walletChain, NoAnswer} : runs' = [runs EXCEPT ![i].chain = answer]
      BY <2>1 DEF ReadInjected, Reads
    <3>2. [r EXCEPT !.chain = answer] \in Run
      BY DEF Run, DiagnosticsInv
    <3>3. /\ [r EXCEPT !.chain = answer].chain = answer
          /\ [r EXCEPT !.chain = answer].render = r.render
      BY DEF Run
    <3>4. answer = MONAD => walletChain = MONAD
      BY DiagnosticsAssumption
    <3>5. [r EXCEPT !.chain = answer] \in TrueRuns
      BY <1>3, <3>2, <3>3, <3>4 DEF TrueRuns, StillOn
    <3> QED BY <1>3, <3>1, <3>5
  <2>2. CASE ReadAccount(i)
    <3>1. PICK answer \in SomeWallet \cup {NoAnswer} :
            answer # Nobody /\ runs' = [runs EXCEPT ![i].account = answer]
      BY <2>2, DiagnosticsAssumption DEF ReadAccount, Reads, DiagnosticsInv
    <3>2. [r EXCEPT !.account = answer] \in Run
      BY <3>1 DEF Run, SomeWallet
    <3>3. /\ [r EXCEPT !.account = answer].chain = r.chain
          /\ [r EXCEPT !.account = answer].render = r.render
      BY DEF Run
    <3>4. [r EXCEPT !.account = answer] \in TrueRuns
      BY <1>3, <3>2, <3>3 DEF TrueRuns
    <3> QED BY <1>3, <3>1, <3>4
  <2> QED BY <2>1, <2>2
<1>5. runs' \in Seq(TrueRuns)
  <2>1. runs \in Seq(TrueRuns)
    BY DEF DiagnosticsInv
  <2> QED BY <1>4, <2>1
<1> QED BY <1>1, <1>2, <1>5 DEF DiagnosticsInv, Fresher

(* The report of a run is true if the run is.                              *)
LEMMA RejectsTrue ==
  ASSUME DiagnosticsInv, NEW i \in DOMAIN runs, Rejects(i), UNCHANGED authWallet
  PROVE  DiagnosticsInv'
<1>1. UNCHANGED <<address, walletChain, switching, unseen, data>> /\ runs' = RemoveAt(runs, i)
  BY DEF Rejects
<1>2. TrueRuns' = TrueRuns /\ TrueReports' = TrueReports
  BY <1>1 DEF TrueRuns, TrueReports, Fresher, StillOn
<1>3. runs' \in Seq(TrueRuns)
  BY <1>1, RemovedSeq DEF DiagnosticsInv
<1> QED BY <1>1, <1>2, <1>3 DEF DiagnosticsInv, Fresher

LEMMA FinishTrue ==
  ASSUME DiagnosticsInv, NEW i \in DOMAIN runs, Finish(i), UNCHANGED authWallet
  PROVE  DiagnosticsInv'
<1>1. UNCHANGED <<address, walletChain, switching, unseen>> /\ runs' = RemoveAt(runs, i)
  BY DEF Finish
<1>2. TrueRuns' = TrueRuns /\ TrueReports' = TrueReports
  BY <1>1 DEF TrueRuns, TrueReports, Fresher, StillOn
<1>3. PICK r \in Run :
        r = runs[i] /\ Fresher(r.render) /\ StillOn(r.render, r.chain = MONAD)
  BY DEF DiagnosticsInv, TrueRuns
<1>4. PICK app \in BOOLEAN : data' = evaluateHealth(r, app)
  BY <1>3 DEF Finish
<1>5. data' \in TrueReports
  <2>1. r.render \in Renders
    BY DEF Run
  <2>2. data' \in Report /\ data'.render = r.render /\ (data'.networkReady => r.chain = MONAD)
    BY <1>4, <2>1 DEF evaluateHealth, Report
  <2>3. data'.identityMatch => r.render.connected = r.render.auth
    BY <1>4 DEF evaluateHealth
  <2> QED BY <1>3, <2>2, <2>3 DEF TrueReports, StillOn
<1>6. runs' \in Seq(TrueRuns)
  BY <1>1, RemovedSeq DEF DiagnosticsInv
<1> QED BY <1>1, <1>2, <1>5, <1>6 DEF DiagnosticsInv, Fresher

(* The panel: a repair belongs to the render it was clicked in.            *)
LEMMA PanelTrue ==
  ASSUME DiagnosticsInv, Recheck \/ SwitchNetwork \/ Switched \/ SwitchFails, UNCHANGED authWallet
  PROVE  DiagnosticsInv'
<1>1. UNCHANGED <<address, walletChain, unseen>>
  BY DEF Recheck, SwitchNetwork, Switched, SwitchFails
<1>2. TrueRuns' = TrueRuns /\ TrueReports' = TrueReports
  BY <1>1 DEF TrueRuns, TrueReports, Fresher, StillOn
<1>3. PICK render \in Renders : render = Render(address, authWallet) /\ Fresher(render)
  BY RendersTyped DEF Fresher, DiagnosticsInv
<1>4. PICK old \in Renders : old = switching /\ Fresher(old)
  BY DEF DiagnosticsInv, Fresher
<1>5. /\ runs \in Seq(TrueRuns') /\ data \in TrueReports' \cup {NoReport}
     /\ Fresher(old)' /\ Fresher(render)' /\ TRUE \in BOOLEAN /\ FALSE \in BOOLEAN
  <2>1. \A r \in Renders : Fresher(r) => Fresher(r)'
    BY <1>1 DEF Fresher
  <2> QED BY <1>2, <1>3, <1>4, <2>1 DEF DiagnosticsInv
<1>6. CASE Recheck
  <2>1. Starts(runs, data, render, FALSE) /\ UNCHANGED switching
    BY <1>3, <1>6 DEF Recheck
  <2>2. runs' \in Seq(TrueRuns') /\ data' \in TrueReports' \cup {NoReport}
    BY <1>5, <2>1, StartsTrue
  <2> QED BY <1>1, <2>1, <2>2 DEF DiagnosticsInv, Fresher
<1>7. CASE SwitchNetwork
  BY <1>1, <1>2, <1>3, <1>7 DEF SwitchNetwork, DiagnosticsInv, Fresher
<1>8. CASE Switched
  <2>1. Starts(runs, data, old, TRUE) /\ switching' = Nothing
    BY <1>4, <1>8 DEF Switched
  <2>2. runs' \in Seq(TrueRuns') /\ data' \in TrueReports' \cup {NoReport}
    BY <1>5, <2>1, StartsTrue
  <2> QED BY <1>1, <2>1, <2>2, RendersTyped DEF DiagnosticsInv, Fresher
<1>9. CASE SwitchFails
  BY <1>1, <1>2, <1>9, RendersTyped DEF SwitchFails, DiagnosticsInv, Fresher
<1> QED BY <1>6, <1>7, <1>8, <1>9

(* The wallet and the session.  When wagmi is silent about a new chain     *)
(* nothing is known of the chain any more.                                 *)
LEMMA WalletsTrue ==
  ASSUME DiagnosticsInv, SwitchAccount \/ SwitchChain \/ (SwitchSession /\ SessionChanged)
  PROVE  DiagnosticsInv'
<1>1. CASE SwitchAccount
  <2>1. PICK c \in SomeWallet : address' = c /\ Effect(c, authWallet)
    BY <1>1 DEF SwitchAccount, SomeWallet
  <2>2. UNCHANGED <<walletChain, authWallet>> /\ authWallet \in SomeWallet
    BY <1>1 DEF SwitchAccount, DiagnosticsInv
  <2> QED BY <2>1, <2>2, EffectTrue DEF DiagnosticsInv
<1>2. CASE SwitchSession /\ SessionChanged
  <2>1. PICK a \in SomeWallet : authWallet' = a /\ Effect(address, a)
    BY <1>2 DEF SwitchSession, SessionChanged, SomeWallet
  <2>2. UNCHANGED <<address, walletChain>> /\ address \in SomeWallet
    BY <1>2 DEF SessionChanged, DiagnosticsInv
  <2> QED BY <2>1, <2>2, EffectTrue DEF DiagnosticsInv
<1>3. CASE SwitchChain
  <2>1. walletChain' \in Chains /\ UNCHANGED <<address, authWallet>>
        /\ address \in SomeWallet /\ authWallet \in SomeWallet
    BY <1>3 DEF SwitchChain, DiagnosticsInv
  <2>2. CASE Effect(address, authWallet)
    BY <2>1, <2>2, EffectTrue DEF DiagnosticsInv
  <2>3. CASE unseen' = TRUE /\ UNCHANGED <<runs, switching, data, loading>>
    <3>1. TrueRuns \subseteq TrueRuns' /\ TrueReports \subseteq TrueReports'
      BY <2>1, <2>3 DEF TrueRuns, TrueReports, Fresher, StillOn
    <3>2. PICK S, R : S = TrueRuns' /\ R = TrueReports'
      OBVIOUS
    <3>3. runs \in Seq(S) /\ data \in R \cup {NoReport}
      BY <3>1, <3>2 DEF DiagnosticsInv
    <3> QED BY <2>1, <2>3, <3>2, <3>3 DEF DiagnosticsInv, Fresher
  <2> QED BY <1>3, <2>2, <2>3 DEF SwitchChain
<1> QED BY <1>1, <1>2, <1>3

(* The other page shows nothing of the network.                            *)
PagesInv ==
  /\ DiagnosticsInv
  /\ route = "/agreements/new" => runs = << >> /\ data = NoReport /\ switching = Nothing

LEMMA PagesInvInit == PagesInit => PagesInv
<1> SUFFICES ASSUME PagesInit PROVE PagesInv
  OBVIOUS
<1>1. authWallet \in SomeWallet
  BY DEF PagesInit, SignedInInit, SomeWallet
<1>2. CASE /\ route = "/agreements/new"
           /\ Absent(address, walletChain, runs, data, loading, switching, changes, unseen)
  BY <1>1, <1>2, RendersTyped, DiagnosticsAssumption
     DEF Absent, PagesInv, DiagnosticsInv, SomeWallet, Fresher
<1>3. CASE route = "/developer/network" /\ DiagnosticsInit
  <2>1. /\ address \in SomeWallet /\ walletChain \in Chains /\ data = NoReport /\ switching = Nothing
        /\ \/ runs = << >>
           \/ runs = <<NewRun(Render(address, authWallet), FALSE)>>
    BY <1>1, <1>3 DEF DiagnosticsInit, Opened, SomeWallet
  <2>2. PICK render \in Renders : render = Render(address, authWallet) /\ Fresher(render)
    BY <1>1, <2>1, RendersTyped DEF Fresher
  <2>3. NewRun(render, FALSE) \in TrueRuns
    <3>1. FALSE \in BOOLEAN
      OBVIOUS
    <3> QED BY <2>2, <3>1, NewRunTrue
  <2>4. runs \in Seq(TrueRuns)
    <3>1. PICK S, r : S = TrueRuns /\ r = NewRun(render, FALSE)
      OBVIOUS
    <3> QED BY <2>1, <2>2, <2>3, <3>1, ShortSeqs
  <2> QED BY <1>1, <1>3, <2>1, <2>4, RendersTyped DEF PagesInv, DiagnosticsInv, Fresher
<1> QED BY <1>2, <1>3 DEF PagesInit

LEMMA PagesInvStep == PagesInv /\ [PagesNext]_pagesVars => PagesInv'
<1> SUFFICES ASSUME PagesInv, [PagesNext]_pagesVars PROVE PagesInv'
  OBVIOUS
<1>1. DiagnosticsInv
  BY DEF PagesInv
<1>2. ASSUME UNCHANGED diagnosticsVars, authWallet' = authWallet PROVE DiagnosticsInv'
  <2>1. UNCHANGED <<address, walletChain, runs, switching, data, unseen, authWallet>>
    BY <1>2 DEF diagnosticsVars
  <2>2. TrueRuns' = TrueRuns /\ TrueReports' = TrueReports
    BY <2>1 DEF TrueRuns, TrueReports, Fresher, StillOn
  <2> QED BY <1>1, <2>1, <2>2 DEF DiagnosticsInv, Fresher
<1>3. ASSUME UNCHANGED route, UNCHANGED diagnosticsVars, authWallet' = authWallet PROVE PagesInv'
  BY <1>2, <1>3 DEF PagesInv, diagnosticsVars
<1>4. CASE UNCHANGED pagesVars
  BY <1>3, <1>4 DEF pagesVars
<1>5. CASE /\ route = "/agreements/new"
           /\ \/ WizardStep /\ UNCHANGED authWallet
              \/ SwitchSession /\ UNCHANGED wizardVars
           /\ UNCHANGED diagnosticsVars /\ NothingElse
  <2>1. /\ UNCHANGED <<address, walletChain, runs, switching, data, route>>
        /\ runs = << >> /\ data = NoReport /\ switching = Nothing
    BY <1>5 DEF PagesInv, diagnosticsVars, NothingElse
  <2>2. authWallet' \in SomeWallet
    BY <1>1, <1>5 DEF SwitchSession, SomeWallet, DiagnosticsInv
  <2> QED BY <1>1, <2>1, <2>2, RendersTyped DEF PagesInv, DiagnosticsInv, Fresher
<1>6. CASE /\ route = "/developer/network"
           /\ \/ DiagnosticsStep /\ UNCHANGED authWallet
              \/ SwitchAccount \/ SwitchChain
              \/ SwitchSession /\ SessionChanged
           /\ UNCHANGED wizardVars /\ NothingElse
  <2>1. DiagnosticsInv'
    BY <1>1, <1>6, ReadsTrue, FinishTrue, RejectsTrue, PanelTrue, WalletsTrue DEF DiagnosticsStep
  <2> QED BY <1>6, <2>1 DEF PagesInv, NothingElse
<1>7. CASE /\ route = "/agreements/new" /\ OpenWizard
           /\ UNCHANGED <<vars, authWallet>>
           /\ \/ route' = route /\ UNCHANGED diagnosticsVars
              \/ /\ Cardinality(stored) < MaxStored
                 /\ route' = "/developer/network" /\ OpenDiagnostics
  <2>1. CASE route' = route /\ UNCHANGED diagnosticsVars
    BY <1>3, <1>7, <2>1
  <2>2. CASE route' = "/developer/network" /\ OpenDiagnostics
    <3>1. authWallet \in SomeWallet /\ authWallet' = authWallet
      BY <1>1, <1>7 DEF DiagnosticsInv
    <3>2. /\ address' \in SomeWallet /\ walletChain' \in Chains
          /\ data' = NoReport /\ switching' = Nothing
          /\ \/ runs' = << >>
             \/ runs' = <<NewRun(Render(address', authWallet), FALSE)>>
      BY <2>2 DEF OpenDiagnostics, Opened, SomeWallet
    <3>3. PICK render \in Renders : render = Render(address', authWallet) /\ Fresher(render)'
      <4>1. PICK c \in SomeWallet : c = address'
        BY <3>2
      <4> QED BY <3>1, <4>1, RendersTyped DEF Fresher
    <3>4. NewRun(render, FALSE) \in TrueRuns'
      <4>1. FALSE \in BOOLEAN
        OBVIOUS
      <4> QED BY <3>3, <4>1, NewRunTruePrime
    <3>5. runs' \in Seq(TrueRuns')
      <4>1. PICK S, r : S = TrueRuns' /\ r = NewRun(render, FALSE)
        OBVIOUS
      <4> QED BY <3>2, <3>3, <3>4, <4>1, ShortSeqs
    <3> QED BY <2>2, <3>1, <3>2, <3>5, RendersTyped DEF PagesInv, DiagnosticsInv, Fresher
  <2> QED BY <1>7, <2>1, <2>2
<1>8. CASE /\ route = "/developer/network" /\ route' = "/agreements/new"
           /\ Absent(address', walletChain', runs', data', loading', switching', changes', unseen')
           /\ UNCHANGED <<vars, authWallet, wizardVars>>
  BY <1>1, <1>8, RendersTyped, DiagnosticsAssumption
     DEF Absent, PagesInv, DiagnosticsInv, SomeWallet, Fresher
<1>9. CASE /\ route = "/agreements/new" /\ Tick
           /\ UNCHANGED <<authWallet, wizardVars, diagnosticsVars, route>>
  BY <1>3, <1>9
<1> QED BY <1>4, <1>5, <1>6, <1>7, <1>8, <1>9 DEF PagesNext

(* "Re-run when the wallet, chain, or session changes": a report that      *)
(* stays up is of the wallets of now and not wrong about the chain, for    *)
(* any number of runs at a time and of changes meanwhile, also with checks *)
(* run by hand and a repair that is under way.                             *)
THEOREM ReportAlwaysCurrent == PagesSpec => []ReportIsCurrent
<1>1. PagesInv => ReportIsCurrent
  BY DEF PagesInv, DiagnosticsInv, TrueReports, Fresher, StillOn, ReportIsCurrent
<1>2. PagesInv /\ [PagesNext]_pagesVars => PagesInv'
  BY PagesInvStep
<1> QED BY <1>1, <1>2, PagesInvInit, PTL DEF PagesSpec

-----------------------------------------------------------------------------
(* The wizard                                                              *)

Row ==
  [wallet : TypedWallets \cup {Blank}, labelFits : TypedLabels \cup {TRUE},
   amount : TypedAmounts \cup {NoAmount}]

Form ==
  [basics : TypedBasics \cup {FreshForm.basics}, recipient : TypedWallets \cup {Blank},
   tenants : Seq(Row),
   creatorAmount : TypedAmounts \cup {NoAmount}]

(* The order of the dates, which the clock does not change.                *)
DatesInOrder(d) ==
  /\ d.leaseStart <= d.leaseEnd
  /\ d.fundingDeadline <= d.leaseEnd
  /\ d.claimDeadline > d.leaseEnd
  /\ d.settlementDeadline > d.claimDeadline

(* What BasicsValid says but for the clock.                                *)
BasicsInOrder(b) ==
  /\ b.alias # "" /\ DatesInOrder(b)
  /\ {b.leaseStart, b.leaseEnd, b.fundingDeadline, b.claimDeadline, b.settlementDeadline} \subseteq Int

(* ParticipantsValid for a creator that need not be signed in any more.    *)
ListedFor(creator) == [i \in {0} \cup filledIn |-> IF i = 0 THEN creator ELSE tenantWallets[i]]

ParticipantsValidFor(creator) ==
  /\ isAddress(form.recipient)
  /\ Cardinality(filledIn) \in 1 .. MAX_TENANTS - 1
  /\ \A i \in filledIn : isAddress(tenantWallets[i])
  /\ IsInjective(ListedFor(creator))
  /\ form.recipient \notin Range(ListedFor(creator))

(* What each card promised still holds on the cards behind it.             *)
CardsValid ==
  /\ form \in Form /\ step \in 0 .. 4
  /\ step >= 1 => BasicsInOrder(form.basics)
  /\ step >= 2 => ParticipantsValidFor(checkedAs)
  /\ step >= 3 => ContributionsValid

(* A record with the fields of a request.                                  *)
IsBody(b) ==
  /\ b = [creator |-> b.creator, termsHash |-> b.termsHash,
          alias |-> b.alias, addressFits |-> b.addressFits, labelsFit |-> b.labelsFit,
          leaseStart |-> b.leaseStart, leaseEnd |-> b.leaseEnd,
          fundingDeadline |-> b.fundingDeadline, claimDeadline |-> b.claimDeadline,
          settlementDeadline |-> b.settlementDeadline, recipient |-> b.recipient,
          tenantAddresses |-> b.tenantAddresses, requiredAmounts |-> b.requiredAmounts]
  /\ b.termsHash # NoHash
  /\ Len(b.tenantAddresses) = Len(b.requiredAmounts)

(* What the backend has checked of a draft, but for the clock.             *)
IsStored(d) ==
  /\ IsBody(d) /\ WellFormed(d) /\ DatesInOrder(d) /\ CanonicalTerms(d.creator, d)

WizardInv ==
  /\ authWallet \in SomeWallet
  /\ CardsValid
  /\ sending # NoBody => IsBody(sending)
  /\ \A d \in stored : IsStored(d)
  /\ now \in Nat

(* The creator's element before those of the others.                       *)
LEMMA FirstOfAll ==
  ASSUME NEW S, NEW x \in S, NEW s \in Seq(S)
  PROVE  LET c == <<x>> \o s
         IN  /\ c \in Seq(S) /\ Len(c) = Len(s) + 1 /\ Len(s) \in Nat
             /\ DOMAIN c = 1 .. Len(s) + 1 /\ DOMAIN s = 1 .. Len(s)
             /\ c[1] = x /\ \A i \in 1 .. Len(s) : c[i + 1] = s[i]
OBVIOUS

LEMMA FreshCards == Fresh(step, form, checkedAs) => CardsValid
<1> SUFFICES ASSUME Fresh(step, form, checkedAs) PROVE CardsValid
  OBVIOUS
<1>1. form.tenants \in Seq(Row)
  <2>1. BlankTenantRow \in Row
    BY DEF BlankTenantRow, Row
  <2>2. <<BlankTenantRow>> \in Seq(Row)
    BY <2>1, ShortSeqs
  <2> QED BY <2>2 DEF Fresh, FreshForm
<1>2. form \in Form
  BY <1>1 DEF Fresh, FreshForm, Form
<1> QED BY <1>2 DEF CardsValid, Fresh

LEMMA FreshCardsAgain == Fresh(step', form', checkedAs') => CardsValid'
<1>1. Fresh(step, form, checkedAs)' => CardsValid'
  BY FreshCards, PTL
<1> QED BY <1>1 DEF Fresh

(* The fields that a card's checks look at.                                *)
LEMMA TypedFields ==
  ASSUME form \in Form
  PROVE  /\ form.tenants \in Seq(Row)
         /\ Len(form.tenants) \in Nat /\ DOMAIN form.tenants = 1 .. Len(form.tenants)
         /\ tenantWallets \in Seq(TypedWallets \cup {Blank}) /\ Len(tenantWallets) = Len(form.tenants)
         /\ tenantAmounts \in Seq(TypedAmounts \cup {NoAmount}) /\ Len(tenantAmounts) = Len(form.tenants)
         /\ form.creatorAmount \in TypedAmounts \cup {NoAmount}
<1>1. form.tenants \in Seq(Row)
      /\ form.creatorAmount \in TypedAmounts \cup {NoAmount}
  BY DEF Form
<1>2. Len(form.tenants) \in Nat /\ DOMAIN form.tenants = 1 .. Len(form.tenants)
      /\ \A i \in DOMAIN form.tenants :
           /\ form.tenants[i].wallet \in TypedWallets \cup {Blank}
           /\ form.tenants[i].amount \in TypedAmounts \cup {NoAmount}
  <2>1. \A i \in DOMAIN form.tenants : form.tenants[i] \in Row
    BY <1>1, SeqElements
  <2>2. \A r \in Row : r.wallet \in TypedWallets \cup {Blank} /\ r.amount \in TypedAmounts \cup {NoAmount}
    BY DEF Row
  <2> QED BY <1>1, <2>1, <2>2
<1>3. tenantWallets \in [1 .. Len(form.tenants) -> TypedWallets \cup {Blank}]
      /\ tenantAmounts \in [1 .. Len(form.tenants) -> TypedAmounts \cup {NoAmount}]
  BY <1>2 DEF tenantWallets, tenantAmounts
<1>4. tenantWallets \in Seq(TypedWallets \cup {Blank}) /\ Len(tenantWallets) = Len(form.tenants)
  BY <1>2, <1>3
<1>5. tenantAmounts \in Seq(TypedAmounts \cup {NoAmount}) /\ Len(tenantAmounts) = Len(form.tenants)
  BY <1>2, <1>3
<1> QED BY <1>1, <1>2, <1>4, <1>5

(* Editing a card keeps what the cards before it have promised.            *)
LEMMA EditsValid ==
  ASSUME CardsValid, EditBasics \/ EditWallet \/ EditLabel \/ AddTenant \/ RemoveLast \/ EditAmount
  PROVE  CardsValid'
<1>1. form \in Form /\ step \in 0 .. 4
      /\ form.tenants \in Seq(Row)
      /\ Len(form.tenants) \in Nat /\ DOMAIN form.tenants = 1 .. Len(form.tenants)
  BY TypedFields DEF CardsValid
<1>2. \A i \in DOMAIN form.tenants : form.tenants[i] \in Row
  BY <1>1, SeqElements
<1>3. CASE EditBasics
  <2>1. PICK b \in TypedBasics : Edits(0, [form EXCEPT !.basics = b])
    BY <1>3 DEF EditBasics
  <2>2. step' = 0 /\ form' = [form EXCEPT !.basics = b]
    BY <2>1 DEF Edits
  <2>3. form' \in Form
    BY <1>1, <2>2 DEF Form
  <2> QED BY <2>2, <2>3 DEF CardsValid
<1>4. ASSUME EditWallet \/ EditLabel \/ AddTenant \/ RemoveLast
      PROVE  step = 1 /\ step' = step /\ form' \in Form /\ form'.basics = form.basics
  <2>1. ASSUME NEW rows \in Seq(Row), form' = [form EXCEPT !.tenants = rows]
        PROVE  form' \in Form /\ form'.basics = form.basics
    BY <1>1, <1>2, <2>1 DEF Form
  <2>2. CASE EditWallet
    <3>1. PICK w \in TypedWallets :
            \/ Edits(1, [form EXCEPT !.recipient = w])
            \/ \E i \in DOMAIN form.tenants : Edits(1, [form EXCEPT !.tenants[i].wallet = w])
      BY <2>2 DEF EditWallet
    <3>2. CASE Edits(1, [form EXCEPT !.recipient = w])
      BY <1>1, <3>2 DEF Edits, Form
    <3>3. CASE \E i \in DOMAIN form.tenants : Edits(1, [form EXCEPT !.tenants[i].wallet = w])
      <4>1. PICK i \in DOMAIN form.tenants :
              /\ step = 1 /\ step' = step
              /\ form' = [form EXCEPT !.tenants[i].wallet = w]
        BY <3>3 DEF Edits
      <4>2. PICK rows : rows = [form.tenants EXCEPT ![i].wallet = w]
        OBVIOUS
      <4>3. form' = [form EXCEPT !.tenants = rows]
        BY <1>1, <4>1, <4>2 DEF Form
      <4>4. form.tenants[i] \in Row
        BY <1>2
      <4>5. PICK r \in Row : r = form.tenants[i] /\ rows = [form.tenants EXCEPT ![i] = [r EXCEPT !.wallet = w]]
        BY <4>2, <4>4
      <4>6. [r EXCEPT !.wallet = w] \in Row
        BY DEF Row
      <4>7. rows \in Seq(Row)
        BY <1>1, <1>2, <4>5, <4>6
      <4> QED BY <2>1, <4>1, <4>3, <4>7
    <3> QED BY <3>1, <3>2, <3>3
  <2>3. CASE AddTenant
    <3>1. PICK rows : rows = Append(form.tenants, BlankTenantRow)
      OBVIOUS
    <3>2. BlankTenantRow \in Row
      BY DEF BlankTenantRow, Row
    <3>3. rows \in Seq(Row)
      BY <1>1, <1>2, <3>1, <3>2
    <3>4. step = 1 /\ step' = step /\ form' = [form EXCEPT !.tenants = rows]
      BY <2>3, <3>1 DEF AddTenant, Edits
    <3> QED BY <2>1, <3>3, <3>4
  <2>4. CASE RemoveLast
    <3>1. PICK rows : rows = SubSeq(form.tenants, 1, Len(form.tenants) - 1)
      OBVIOUS
    <3>2. rows \in Seq(Row)
      <4>1. \A i \in 1 .. Len(form.tenants) - 1 : i \in DOMAIN form.tenants
        BY <1>1
      <4>2. 1 \in Int /\ Len(form.tenants) - 1 \in Int /\ Len(form.tenants) - 1 <= Len(form.tenants)
        BY <1>1
      <4> QED BY <1>1, <1>2, <3>1, <4>1, <4>2, SubSeqProperties
    <3>3. step = 1 /\ step' = step /\ form' = [form EXCEPT !.tenants = rows]
      BY <2>4, <3>1 DEF RemoveLast, Edits
    <3> QED BY <2>1, <3>2, <3>3
  <2>5. CASE EditLabel
    <3>1. PICK fits \in TypedLabels, i \in DOMAIN form.tenants :
            Edits(1, [form EXCEPT !.tenants[i].labelFits = fits])
      BY <2>5 DEF EditLabel
    <3>2. PICK rows : rows = [form.tenants EXCEPT ![i].labelFits = fits]
      OBVIOUS
    <3>3. step = 1 /\ step' = step /\ form' = [form EXCEPT !.tenants = rows]
      BY <1>1, <3>1, <3>2 DEF Edits, Form
    <3>4. PICK r \in Row : r = form.tenants[i] /\ rows = [form.tenants EXCEPT ![i] = [r EXCEPT !.labelFits = fits]]
      BY <1>2, <3>2
    <3>5. [r EXCEPT !.labelFits = fits] \in Row
      BY DEF Row
    <3>6. rows \in Seq(Row)
      BY <1>1, <1>2, <3>4, <3>5
    <3> QED BY <2>1, <3>3, <3>6
  <2> QED BY <1>4, <2>2, <2>3, <2>4, <2>5
<1>5. CASE EditWallet \/ EditLabel \/ AddTenant \/ RemoveLast
  <2>1. PICK b : b = form.basics
    OBVIOUS
  <2>2. BasicsInOrder(b) /\ form'.basics = b /\ step' = 1 /\ form' \in Form
    BY <1>4, <1>5, <2>1 DEF CardsValid
  <2>3. BasicsInOrder(form.basics)'
    BY <2>2 DEF BasicsInOrder, DatesInOrder
  <2> QED BY <2>2, <2>3 DEF CardsValid
<1>6. CASE EditAmount
  <2>1. PICK x \in TypedAmounts :
          \/ Edits(2, [form EXCEPT !.creatorAmount = x])
          \/ \E i \in DOMAIN form.tenants : Edits(2, [form EXCEPT !.tenants[i].amount = x])
    BY <1>6 DEF EditAmount
  <2>2. /\ step = 2 /\ step' = step /\ checkedAs' = checkedAs
        /\ form' \in Form /\ form'.basics = form.basics /\ form'.recipient = form.recipient
        /\ DOMAIN form'.tenants = DOMAIN form.tenants
        /\ \A i \in DOMAIN form.tenants : form'.tenants[i].wallet = form.tenants[i].wallet
    <3>1. CASE Edits(2, [form EXCEPT !.creatorAmount = x])
      BY <1>1, <3>1 DEF Edits, Form
    <3>2. CASE \E i \in DOMAIN form.tenants : Edits(2, [form EXCEPT !.tenants[i].amount = x])
      <4>1. PICK i \in DOMAIN form.tenants :
              /\ step = 2 /\ step' = step /\ checkedAs' = checkedAs
              /\ form' = [form EXCEPT !.tenants[i].amount = x]
        BY <3>2 DEF Edits
      <4>2. PICK rows : rows = [form.tenants EXCEPT ![i].amount = x]
        OBVIOUS
      <4>3. form' = [form EXCEPT !.tenants = rows]
        BY <1>1, <4>1, <4>2 DEF Form
      <4>4. form.tenants[i] \in Row
        BY <1>2
      <4>5. PICK r \in Row : r = form.tenants[i] /\ rows = [form.tenants EXCEPT ![i] = [r EXCEPT !.amount = x]]
        BY <4>2, <4>4
      <4>6. PICK s \in Row : s = [r EXCEPT !.amount = x] /\ s.wallet = r.wallet
        <5>1. [r EXCEPT !.amount = x] \in Row /\ [r EXCEPT !.amount = x].wallet = r.wallet
          BY DEF Row
        <5> QED BY <5>1
      <4>7. rows \in Seq(Row) /\ DOMAIN rows = DOMAIN form.tenants
            /\ \A j \in DOMAIN form.tenants : rows[j].wallet = form.tenants[j].wallet
        BY <1>1, <1>2, <4>5, <4>6
      <4>8. form' \in Form /\ form'.basics = form.basics /\ form'.recipient = form.recipient
            /\ form'.tenants = rows
        BY <1>1, <1>2, <4>3, <4>7 DEF Form
      <4> QED BY <4>1, <4>7, <4>8
    <3> QED BY <2>1, <3>1, <3>2
  <2>3. tenantWallets' = tenantWallets
    BY <2>2 DEF tenantWallets
  <2>4. filledIn' = filledIn
    BY <2>2, <2>3 DEF filledIn
  <2>5. PICK me : me = checkedAs
    OBVIOUS
  <2>6. ParticipantsValidFor(me) /\ BasicsInOrder(form.basics)
    BY <2>2, <2>5 DEF CardsValid
  <2>7. ParticipantsValidFor(me)'
    BY <2>2, <2>3, <2>4, <2>6 DEF ParticipantsValidFor, ListedFor
  <2>8. checkedAs' = me
    BY <2>2, <2>5
  <2>9. ParticipantsValidFor(checkedAs)'
    BY <2>7, <2>8 DEF ParticipantsValidFor, ListedFor
  <2>10. PICK b : b = form.basics /\ form'.basics = b
    BY <2>2
  <2>11. BasicsInOrder(form.basics)'
    BY <2>6, <2>10 DEF BasicsInOrder, DatesInOrder
  <2> QED BY <2>2, <2>9, <2>11 DEF CardsValid
<1> QED BY <1>3, <1>5, <1>6

(* The session in which the participants are checked is that of then.      *)
LEMMA ContinueValid ==
  ASSUME CardsValid, Continue
  PROVE  CardsValid'
<1>1. /\ step \in 0 .. 3 /\ step' = step + 1 /\ form' = form /\ form \in Form
      /\ checkedAs' = IF step = 1 THEN authWallet ELSE checkedAs
  BY DEF Continue, CardsValid
<1>2. /\ step = 0 => BasicsValid
      /\ step = 1 => ParticipantsValid
      /\ step = 2 => ContributionsValid
  BY DEF Continue, validateStep
<1>3. UNCHANGED <<tenantWallets, tenantAmounts, filledIn>>
  BY <1>1 DEF tenantWallets, tenantAmounts, filledIn
<1>4. step' >= 1 => BasicsInOrder(form'.basics)
  <2>1. CASE step = 0
    <3>1. BasicsInOrder(form.basics)
      <4>1. PICK b : b = form.basics
        OBVIOUS
      <4>2. b \in TypedBasics \cup {FreshForm.basics}
        BY <1>1, <4>1 DEF Form
      <4>3. b \in TypedBasics
        <5>1. FreshForm.basics.alias = ""
          BY DEF FreshForm
        <5>2. b.alias # ""
          BY <1>2, <2>1, <4>1 DEF BasicsValid
        <5> QED BY <4>2, <5>1, <5>2
      <4> QED BY <1>2, <2>1, <4>1, <4>3, WizardAssumption DEF BasicsValid, BasicsInOrder, DatesInOrder
    <3> QED BY <1>1, <3>1
  <2>2. CASE step >= 1
    BY <1>1, <2>2 DEF CardsValid
  <2> QED BY <1>1, <2>1, <2>2
<1>5. step' >= 2 => ParticipantsValidFor(checkedAs)'
  <2> SUFFICES ASSUME step' >= 2 PROVE ParticipantsValidFor(checkedAs)'
    OBVIOUS
  <2>1. PICK me : me = checkedAs'
    OBVIOUS
  <2>2. ParticipantsValidFor(me)
    <3>1. CASE step = 1
      <4>1. me = authWallet /\ ParticipantsValid
        BY <1>1, <1>2, <2>1, <3>1
      <4>2. ListedFor(me) = allTenantWallets
        BY <4>1 DEF ListedFor, allTenantWallets
      <4> QED BY <4>1, <4>2 DEF ParticipantsValid, ParticipantsValidFor
    <3>2. CASE step >= 2
      BY <1>1, <2>1, <3>2 DEF CardsValid
    <3> QED BY <1>1, <3>1, <3>2
  <2> QED BY <1>1, <1>3, <2>1, <2>2 DEF ParticipantsValidFor, ListedFor
<1>6. step' >= 3 => ContributionsValid'
  BY <1>1, <1>2, <1>3 DEF CardsValid, ContributionsValid
<1> QED BY <1>1, <1>4, <1>5, <1>6 DEF CardsValid

LEMMA SameCards ==
  ASSUME CardsValid, UNCHANGED <<step, form, checkedAs>>
  PROVE  CardsValid'
<1>1. UNCHANGED <<tenantWallets, tenantAmounts, filledIn>>
  BY DEF tenantWallets, tenantAmounts, filledIn
<1>2. ParticipantsValidFor(checkedAs) => ParticipantsValidFor(checkedAs)'
  BY <1>1 DEF ParticipantsValidFor, ListedFor
<1>3. ContributionsValid => ContributionsValid'
  BY <1>1 DEF ContributionsValid
<1> QED BY <1>2, <1>3 DEF CardsValid, BasicsInOrder, DatesInOrder

LEMMA BackValid ==
  ASSUME CardsValid, Back
  PROVE  CardsValid'
<1>1. step \in 1 .. 4 /\ step' = step - 1 /\ UNCHANGED <<form, checkedAs>>
  BY DEF Back, CardsValid
<1>2. UNCHANGED <<tenantWallets, tenantAmounts, filledIn>>
  BY <1>1 DEF tenantWallets, tenantAmounts, filledIn
<1>3. ParticipantsValidFor(checkedAs) => ParticipantsValidFor(checkedAs)'
  BY <1>1, <1>2 DEF ParticipantsValidFor, ListedFor
<1>4. ContributionsValid => ContributionsValid'
  BY <1>1, <1>2 DEF ContributionsValid
<1>5. PICK b : b = form.basics /\ form'.basics = b
  BY <1>1
<1>6. BasicsInOrder(form.basics) => BasicsInOrder(form.basics)'
  BY <1>5 DEF BasicsInOrder, DatesInOrder
<1> QED BY <1>1, <1>3, <1>4, <1>6 DEF CardsValid

(* As many wallets as amounts are sent, and a hash.                        *)
LEMMA BodyIsBody ==
  ASSUME form \in Form, authWallet \in SomeWallet
  PROVE  IsBody(Body)
<1>1. PICK h \in Hashes : h = CHOOSE g \in Hashes : TRUE
  BY WizardAssumption
<1>2. h # NoHash
  BY ConstantsAssumption
<1>3. PICK list, amounts : list = <<authWallet>> \o tenantWallets /\ amounts = <<form.creatorAmount>> \o tenantAmounts
  OBVIOUS
<1>4. Len(list) = Len(amounts)
  <2>1. PICK S : S = SomeWallet \cup TypedWallets \cup {Blank}
    OBVIOUS
  <2>2. authWallet \in S /\ tenantWallets \in Seq(S)
    BY <2>1, TypedFields
  <2>3. Len(list) = Len(tenantWallets) + 1
    BY <1>3, <2>2, FirstOfAll
  <2>4. Len(amounts) = Len(tenantAmounts) + 1
    BY <1>3, TypedFields, FirstOfAll
  <2> QED BY <2>3, <2>4, TypedFields
<1>5. PICK b : b = Body
  OBVIOUS
<1>6. PICK fit : fit = \A i \in DOMAIN form.tenants : form.tenants[i].labelFits
  OBVIOUS
<1>7. b = [creator |-> Nobody, termsHash |-> h,
           alias |-> form.basics.alias, addressFits |-> form.basics.addressFits, labelsFit |-> fit,
           leaseStart |-> form.basics.leaseStart,
           leaseEnd |-> form.basics.leaseEnd, fundingDeadline |-> form.basics.fundingDeadline,
           claimDeadline |-> form.basics.claimDeadline, settlementDeadline |-> form.basics.settlementDeadline,
           recipient |-> form.recipient, tenantAddresses |-> list, requiredAmounts |-> amounts]
  BY <1>1, <1>3, <1>5, <1>6 DEF Body
<1>8. IsBody(b)
  BY <1>2, <1>4, <1>7 DEF IsBody
<1> QED BY <1>5, <1>8

(* What create_draft stores has passed its checks.                         *)
LEMMA StoreStored ==
  ASSUME NEW creator, IsBody(sending), Store(creator)
  PROVE  IsStored(DraftOf(creator, sending))
<1>1. PICK b : b = sending /\ IsBody(b) /\ Accepted(creator, b)
  BY DEF Store
<1>2. PICK d : d = DraftOf(creator, sending)
  OBVIOUS
<1>3. d = [b EXCEPT !.creator = creator]
  BY <1>1, <1>2 DEF DraftOf
<1>4. /\ d.creator = creator /\ d.termsHash = b.termsHash /\ d.alias = b.alias
      /\ d.leaseStart = b.leaseStart /\ d.leaseEnd = b.leaseEnd
      /\ d.fundingDeadline = b.fundingDeadline /\ d.claimDeadline = b.claimDeadline
      /\ d.settlementDeadline = b.settlementDeadline /\ d.recipient = b.recipient
      /\ d.tenantAddresses = b.tenantAddresses /\ d.requiredAmounts = b.requiredAmounts
      /\ d.addressFits = b.addressFits /\ d.labelsFit = b.labelsFit
      /\ d = [creator |-> creator, termsHash |-> b.termsHash,
              alias |-> b.alias, addressFits |-> b.addressFits, labelsFit |-> b.labelsFit,
              leaseStart |-> b.leaseStart, leaseEnd |-> b.leaseEnd,
              fundingDeadline |-> b.fundingDeadline, claimDeadline |-> b.claimDeadline,
              settlementDeadline |-> b.settlementDeadline, recipient |-> b.recipient,
              tenantAddresses |-> b.tenantAddresses, requiredAmounts |-> b.requiredAmounts]
  BY <1>1, <1>3 DEF IsBody
<1>5. IsBody(d)
  BY <1>1, <1>4 DEF IsBody
<1>6. WellFormed(d) /\ DatesInOrder(d) /\ CanonicalTerms(d.creator, d)
  BY <1>1, <1>4 DEF Accepted, Consistent, WellFormed, DatesInOrder, CanonicalTerms
<1> QED BY <1>2, <1>5, <1>6 DEF IsStored

LEMMA WizardStepKeeps ==
  ASSUME WizardInv, WizardStep, UNCHANGED <<authWallet, now>>
  PROVE  WizardInv'
<1>1. CardsValid /\ form \in Form /\ authWallet \in SomeWallet
  BY DEF WizardInv, CardsValid
<1>2. ASSUME UNCHANGED <<sending, stored>>, CardsValid' PROVE WizardInv'
  BY <1>2 DEF WizardInv
<1>3. CASE EditBasics \/ EditWallet \/ EditLabel \/ AddTenant \/ RemoveLast \/ EditAmount
  <2>1. UNCHANGED <<sending, stored>>
    BY <1>3 DEF EditBasics, EditWallet, EditLabel, AddTenant, RemoveLast, EditAmount, Edits
  <2> QED BY <1>1, <1>2, <1>3, <2>1, EditsValid
<1>4. CASE Continue
  BY <1>1, <1>2, <1>4, ContinueValid DEF Continue
<1>5. CASE Back
  BY <1>1, <1>2, <1>5, BackValid DEF Back
<1>6. CASE Submit
  <2>1. UNCHANGED <<step, form, checkedAs, stored>> /\ sending' = Body
    BY <1>6 DEF Submit
  <2>2. IsBody(sending')
    BY <1>1, <2>1, BodyIsBody
  <2> QED BY <1>1, <2>1, <2>2, SameCards DEF WizardInv
<1>7. CASE Refuse
  <2>1. UNCHANGED <<step, form, checkedAs, stored>> /\ sending' = NoBody
    BY <1>7 DEF Refuse
  <2> QED BY <1>1, <2>1, SameCards DEF WizardInv
<1>8. CASE \E creator \in Users : Store(creator)
  <2>1. PICK creator \in Users : Store(creator)
    BY <1>8
  <2>2. /\ sending # NoBody /\ sending' = NoBody
        /\ stored' = stored \cup {DraftOf(creator, sending)}
        /\ \/ Fresh(step', form', checkedAs')
           \/ UNCHANGED <<step, form, checkedAs>>
    BY <2>1 DEF Store
  <2>3. IsStored(DraftOf(creator, sending))
    BY <2>1, <2>2, StoreStored DEF WizardInv
  <2>4. CardsValid'
    BY <1>1, <2>2, FreshCardsAgain, SameCards
  <2> QED BY <2>2, <2>3, <2>4 DEF WizardInv
<1> QED BY <1>3, <1>4, <1>5, <1>6, <1>7, <1>8 DEF WizardStep

LEMMA WizardInvInit == PagesInit => WizardInv
<1> SUFFICES ASSUME PagesInit PROVE WizardInv
  OBVIOUS
<1>1. Fresh(step, form, checkedAs) /\ sending = NoBody /\ stored = {} /\ authWallet \in SomeWallet
      /\ now = 0
  BY DEF PagesInit, SignedInInit, WizardInit, SomeWallet, Init
<1> QED BY <1>1, FreshCards DEF WizardInv

LEMMA WizardInvStep == WizardInv /\ [PagesNext]_pagesVars => WizardInv'
<1> SUFFICES ASSUME WizardInv, [PagesNext]_pagesVars PROVE WizardInv'
  OBVIOUS
<1>1. ASSUME UNCHANGED wizardVars, authWallet' \in SomeWallet, now' \in Nat PROVE WizardInv'
  <2>1. UNCHANGED <<step, form, checkedAs, sending, stored>>
    BY <1>1 DEF wizardVars
  <2> QED BY <1>1, <2>1, SameCards DEF WizardInv
<1>2. authWallet \in SomeWallet /\ now \in Nat
  BY DEF WizardInv
<1>3. CASE UNCHANGED pagesVars
  BY <1>1, <1>2, <1>3 DEF pagesVars, vars
<1>4. CASE WizardStep /\ UNCHANGED authWallet /\ UNCHANGED vars
  BY <1>4, WizardStepKeeps DEF vars
<1>5. CASE SwitchSession /\ UNCHANGED wizardVars /\ UNCHANGED vars
  BY <1>1, <1>2, <1>5 DEF SwitchSession, SomeWallet, vars
<1>6. CASE UNCHANGED wizardVars /\ UNCHANGED authWallet /\ UNCHANGED vars
  BY <1>1, <1>2, <1>6 DEF vars
<1>7. CASE (SwitchAccount \/ SwitchChain) /\ UNCHANGED wizardVars /\ UNCHANGED vars
  BY <1>1, <1>2, <1>7 DEF SwitchAccount, SwitchChain, vars
<1>8. CASE Tick /\ UNCHANGED wizardVars /\ UNCHANGED authWallet
  BY <1>1, <1>2, <1>8 DEF Tick
<1>9. CASE OpenWizard /\ UNCHANGED <<vars, authWallet>>
  <2>1. /\ sending = NoBody /\ UNCHANGED <<sending, stored>>
        /\ Fresh(step', form', checkedAs') /\ authWallet' = authWallet /\ now' = now
    BY <1>9 DEF OpenWizard, vars
  <2>2. CardsValid'
    BY <2>1, FreshCardsAgain
  <2> QED BY <1>2, <2>1, <2>2 DEF WizardInv
<1>10. CASE PagesNext
  BY <1>4, <1>5, <1>6, <1>7, <1>8, <1>9, <1>10 DEF PagesNext, NothingElse
<1> QED BY <1>3, <1>10

LEMMA WizardInvAlways == PagesSpec => []WizardInv
BY WizardInvInit, WizardInvStep, PTL DEF PagesSpec

LEMMA PlacesCounted == ASSUME NEW n \in Nat PROVE Cardinality(1 .. n) = n
<1>1. 1 \in Int /\ n \in Int
  OBVIOUS
<1>2. Cardinality(1 .. n) = IF 1 > n THEN 0 ELSE n - 1 + 1
  BY <1>1, FS_Interval
<1>3. (IF 1 > n THEN 0 ELSE n - 1 + 1) = n
  OBVIOUS
<1> QED BY <1>2, <1>3

(* The wizard's checks, card by card, are together those of the backend:   *)
(* for any number of tenants, any wallets, dates and amounts, and any way  *)
(* through the cards.  What the wizard does not check is excepted: that    *)
(* the funding deadline passed since, that another session or a row        *)
(* without a wallet came about since the participants' card, a private     *)
(* text that is too long, a lease before 1970, an amount beyond the        *)
(* column, and terms that are stored already.                              *)
THEOREM ReviewedAlwaysAccepted == PagesSpec => []ReviewedIsAccepted
<1>1. WizardInv => ReviewedIsAccepted
  <2> SUFFICES ASSUME WizardInv,
                      step = 4, authWallet # Nobody, authWallet = checkedAs,
                      form.basics.fundingDeadline > now, Blank \notin Range(tenantWallets),
                      form.basics.addressFits,
                      \A i \in DOMAIN form.tenants : form.tenants[i].labelFits,
                      form.basics.leaseStart >= 0,
                      \A x \in Range(tenantAmounts) \cup {form.creatorAmount} : x <= MAX_DECIMAL,
                      DraftOf(authWallet, Body) \notin stored
               PROVE  Accepted(authWallet, Body)
    BY DEF ReviewedIsAccepted
  <2>1. /\ form \in Form /\ BasicsInOrder(form.basics)
        /\ ParticipantsValidFor(authWallet) /\ ContributionsValid
    BY DEF WizardInv, CardsValid
  <2>2. authWallet \in Users /\ authWallet \in Wallets
    BY WizardAssumption DEF WizardInv, SomeWallet
  <2> PICK n \in Nat : n = Len(form.tenants)
    BY <2>1, TypedFields
  <2>3. PICK ws, xs, S, T :
          /\ n = Len(form.tenants) /\ DOMAIN form.tenants = 1 .. n
          /\ ws = tenantWallets /\ ws \in Seq(S) /\ Len(ws) = n /\ authWallet \in S
          /\ xs = tenantAmounts /\ xs \in Seq(T) /\ Len(xs) = n /\ form.creatorAmount \in T
    <3>1. PICK S : S = SomeWallet \cup TypedWallets \cup {Blank}
      OBVIOUS
    <3>2. tenantWallets \in Seq(S) /\ authWallet \in S
      BY <2>1, <2>2, <3>1, TypedFields DEF SomeWallet
    <3> QED BY <2>1, <3>2, TypedFields
  <2>4. filledIn = 1 .. n /\ \A i \in 1 .. n : ws[i] # Blank
    BY <2>3 DEF filledIn, Range
  <2>5. n \in 1 .. MAX_TENANTS - 1
    <3>1. Cardinality(1 .. n) = n
      BY PlacesCounted
    <3> QED BY <2>1, <2>4, <3>1 DEF ParticipantsValidFor
  <2>6. PICK list, amounts :
          /\ list = <<authWallet>> \o ws /\ amounts = <<form.creatorAmount>> \o xs
    OBVIOUS
  <2>7. /\ Len(list) = n + 1 /\ DOMAIN list = 1 .. n + 1 /\ list[1] = authWallet
        /\ \A i \in 1 .. n : list[i + 1] = ws[i]
    BY <2>3, <2>6, FirstOfAll
  <2>8. /\ Len(amounts) = n + 1 /\ DOMAIN amounts = 1 .. n + 1 /\ amounts[1] = form.creatorAmount
        /\ \A i \in 1 .. n : amounts[i + 1] = xs[i]
    BY <2>3, <2>6, FirstOfAll
  <2>9. \A i \in 1 .. n + 1 : i = 1 \/ \E j \in 1 .. n : i = j + 1
    <3> SUFFICES ASSUME NEW i \in 1 .. n + 1, i # 1 PROVE \E j \in 1 .. n : i = j + 1
      OBVIOUS
    <3>1. i - 1 \in 1 .. n /\ i = (i - 1) + 1
      OBVIOUS
    <3> QED BY <3>1
  <2>10. PICK all : all = ListedFor(authWallet)
    OBVIOUS
  <2>11. /\ DOMAIN all = 0 .. n /\ all[0] = authWallet /\ \A i \in 1 .. n : all[i] = ws[i]
         /\ IsInjective(all) /\ form.recipient \notin Range(all)
    <3>1. {0} \cup filledIn = 0 .. n
      BY <2>4
    <3> QED BY <2>1, <2>3, <2>4, <2>10, <3>1 DEF ParticipantsValidFor, ListedFor
  <2>12. \A i \in 1 .. n + 1 : i - 1 \in 0 .. n /\ list[i] = all[i - 1]
    <3> SUFFICES ASSUME NEW i \in 1 .. n + 1 PROVE i - 1 \in 0 .. n /\ list[i] = all[i - 1]
      OBVIOUS
    <3>1. CASE i = 1
      BY <2>7, <2>11, <3>1
    <3>2. ASSUME NEW j \in 1 .. n, i = j + 1 PROVE i - 1 \in 0 .. n /\ list[i] = all[i - 1]
      BY <2>7, <2>11, <3>2
    <3> QED BY <2>9, <3>1, <3>2
  <2>13. IsInjective(list)
    <3> SUFFICES ASSUME NEW i \in 1 .. n + 1, NEW j \in 1 .. n + 1, list[i] = list[j] PROVE i = j
      BY <2>7 DEF IsInjective
    <3>1. all[i - 1] = all[j - 1] /\ i - 1 \in DOMAIN all /\ j - 1 \in DOMAIN all
      BY <2>11, <2>12
    <3>2. i - 1 = j - 1
      BY <2>11, <3>1 DEF IsInjective
    <3> QED BY <3>2
  <2>14. form.recipient \notin Range(list)
    <3>1. \A i \in 1 .. n + 1 : list[i] \in Range(all)
      BY <2>11, <2>12 DEF Range
    <3> QED BY <2>7, <2>11, <3>1 DEF Range
  <2>15. \A i \in 1 .. n + 1 : isAddress(list[i])
    <3>1. isAddress(authWallet)
      BY <2>2 DEF isAddress
    <3>2. \A i \in 1 .. n : isAddress(ws[i])
      BY <2>1, <2>3, <2>4 DEF ParticipantsValidFor
    <3> QED BY <2>7, <2>9, <3>1, <3>2
  <2>16. 0 \notin Range(amounts)
    <3>1. DOMAIN xs = 1 .. n /\ \A x \in Range(xs) \cup {form.creatorAmount} : x # 0
      BY <2>1, <2>3 DEF ContributionsValid
    <3>2. amounts[1] # 0 /\ \A i \in 1 .. n : amounts[i + 1] # 0
      BY <2>8, <3>1 DEF Range
    <3>3. \A i \in 1 .. n + 1 : amounts[i] # 0
      BY <2>9, <3>2
    <3> QED BY <2>8, <3>3 DEF Range
  <2>17. authWallet \in Range(list)
    <3>1. 1 \in DOMAIN list
      BY <2>7
    <3> QED BY <2>7, <3>1 DEF Range
  <2>18. n + 1 \in MIN_TENANTS .. MAX_TENANTS
    BY <2>5, WizardAssumption, ConstantsAssumption
  <2> PICK b : b = Body
    OBVIOUS
  <2>19. /\ b.alias = form.basics.alias /\ b.leaseStart = form.basics.leaseStart
         /\ b.leaseEnd = form.basics.leaseEnd /\ b.fundingDeadline = form.basics.fundingDeadline
         /\ b.claimDeadline = form.basics.claimDeadline
         /\ b.settlementDeadline = form.basics.settlementDeadline
         /\ b.recipient = form.recipient /\ b.tenantAddresses = list /\ b.requiredAmounts = amounts
    BY <2>3, <2>6 DEF Body
  <2>20. b.addressFits /\ b.labelsFit
    <3>1. PICK fits : fits = form.basics.addressFits /\ fits
      OBVIOUS
    <3>2. PICK fit : fit = (\A i \in DOMAIN form.tenants : form.tenants[i].labelFits) /\ fit
      OBVIOUS
    <3>3. b.addressFits = fits /\ b.labelsFit = fit
      BY <3>1, <3>2 DEF Body
    <3> QED BY <3>1, <3>2, <3>3
  <2>21. \A date \in {b.leaseStart, b.leaseEnd, b.fundingDeadline, b.claimDeadline, b.settlementDeadline} :
           date >= 0
    <3>1. now \in Nat /\ form.basics.leaseStart >= 0 /\ form.basics.fundingDeadline > now
      BY DEF WizardInv
    <3>2. PICK f, e, c, z \in Int :
            /\ f = form.basics.fundingDeadline /\ e = form.basics.leaseEnd
            /\ c = form.basics.claimDeadline /\ z = form.basics.settlementDeadline
            /\ f <= e /\ c > e /\ z > c
      BY <2>1 DEF BasicsInOrder, DatesInOrder
    <3>3. f >= 0 /\ e >= 0 /\ c >= 0 /\ z >= 0
      BY <3>1, <3>2
    <3> QED BY <2>19, <3>1, <3>2, <3>3
  <2>22. WellFormed(b)
    BY <2>1, <2>7, <2>15, <2>18, <2>19, <2>20, <2>21
       DEF WellFormed, ParticipantsValidFor, BasicsInOrder
  <2>23. Consistent(authWallet, b)
    <3>1. CanonicalTerms(authWallet, b)
      BY <2>13, <2>14, <2>16, <2>17, <2>19 DEF CanonicalTerms
    <3> QED BY <2>1, <2>19, <3>1 DEF Consistent, BasicsInOrder, DatesInOrder
  <2>24. \A x \in Range(b.requiredAmounts) : x <= MAX_DECIMAL
    <3>1. amounts[1] <= MAX_DECIMAL /\ \A i \in 1 .. n : amounts[i + 1] <= MAX_DECIMAL
      <4>1. DOMAIN xs = 1 .. n
        BY <2>3
      <4> QED BY <2>3, <2>8, <4>1 DEF Range
    <3>2. \A i \in 1 .. n + 1 : amounts[i] <= MAX_DECIMAL
      BY <2>9, <3>1
    <3> QED BY <2>8, <2>19, <3>2 DEF Range
  <2> QED BY <2>22, <2>23, <2>24 DEF Accepted, HashFree
<1> QED BY <1>1, WizardInvAlways, PTL

(* The backend's rules are those of createAgreement, but for the zero      *)
(* address and the bound on the total.                                     *)
THEOREM StoredAlwaysCreatable == PagesSpec => []DraftIsCreatable
<1>1. WizardInv => DraftIsCreatable
  <2> SUFFICES ASSUME NEW d \in stored, IsStored(d), d.fundingDeadline > now,
                      NoWallet \notin Range(d.tenantAddresses) \cup {d.recipient},
                      SumFunction(d.requiredAmounts) <= MAX_UINT128
               PROVE  Creatable(d)
    BY DEF WizardInv, DraftIsCreatable
  <2>1. /\ d.termsHash # NoHash /\ Len(d.tenantAddresses) = Len(d.requiredAmounts)
        /\ d.recipient # NoWallet
    BY DEF IsStored, IsBody
  <2>2. RosterValid(d)
    BY <2>1 DEF IsStored, WellFormed, CanonicalTerms, RosterValid, Range
  <2>3. TimelineValid(d)
    BY DEF IsStored, DatesInOrder, TimelineValid
  <2>4. AmountsValid(d)
    BY DEF IsStored, CanonicalTerms, AmountsValid, Range
  <2> QED BY <2>1, <2>2, <2>3, <2>4 DEF Creatable
<1> QED BY <1>1, WizardInvAlways, PTL

-----------------------------------------------------------------------------
(* The page of an agreement                                                *)

LEMMA AgreementIdsFinite == IsFiniteSet(AgreementIds)
<1>1. 1 \in Int /\ MaxAgreements \in Int
  BY ConstantsAssumption
<1> QED BY <1>1, FS_Interval DEF AgreementIds

Flights ==
  [kind : Kinds, wallet : Users, sender : Users, amount : Nat, before : Int,
   at : {"simulating", "sent", "mined", "unverified"}, quiet : BOOLEAN]

(* What is known of a call while it is quiet: until it is mined the amount *)
(* is what its card showed, it is sent by the wallet it was simulated for, *)
(* and after that its change is there to be seen.                          *)
Followed(f) ==
  f.quiet =>
    /\ f.at \in {"simulating", "sent"} /\ f.kind \in {"deposit", "withdrawFunding"} =>
         tenants[agreementId][f.wallet].fundedAmount = f.before
    /\ f.at = "sent" => f.sender = f.wallet
    /\ f.at = "mined" => Observed(f)
    /\ f.at # "unverified"

Watched == {f \in Flights : Followed(f)}

(* The records are of nobody or of the tenants of the list.                *)
RecordsListed ==
  /\ DOMAIN tenantRecords \in {{}, Range(agreementTenants[agreementId])}
  /\ \A w \in DOMAIN tenantRecords : tenantRecords[w] \in Tenant

(* The inductive invariant of the page: that of the contract, of which     *)
(* only the page's agreement exists, and what is known of the page.        *)
PageInv ==
  /\ EscrowInv /\ nextAgreementId = agreementId + 1
  /\ agreements[agreementId].termsHash \in Hashes
  /\ \A w \in Wallets : tenants[agreementId][w].requiredAmount \in Uint128
  /\ connected \in SomeWallet
  /\ RecordsListed
  /\ flights \subseteq Watched

(* What a call of w's leaves as it was: the terms, the other tenants'      *)
(* records, and an acceptance.                                             *)
Keeps(w) ==
  /\ UNCHANGED <<nextAgreementId, agreementTenants>>
  /\ agreements'[agreementId].termsHash = agreements[agreementId].termsHash
  /\ agreements[agreementId].recipientAccepted => agreements'[agreementId].recipientAccepted
  /\ \A v \in Wallets :
       /\ tenants'[agreementId][v].requiredAmount = tenants[agreementId][v].requiredAmount
       /\ v # w => tenants'[agreementId][v] = tenants[agreementId][v]

(* What the receipt of w's call stands for.                                *)
TakesEffect(kind, w) ==
  /\ kind = "acceptAsTenant" => tenants'[agreementId][w].accepted
  /\ kind = "acceptAsRecipient" => agreements'[agreementId].recipientAccepted
  /\ kind = "deposit" =>
       tenants'[agreementId][w].fundedAmount > tenants[agreementId][w].fundedAmount
  /\ kind = "withdrawFunding" =>
       tenants'[agreementId][w].fundedAmount < tenants[agreementId][w].fundedAmount

LEMMA PageAgreement ==
  ASSUME EscrowInv
  PROVE  /\ agreementId \in AgreementIds /\ agreements \in Records /\ tenants \in TenantBooks
         /\ agreements[agreementId] \in Agreement
         /\ tenants[agreementId] \in [Wallets -> Tenant]
         /\ agreementTenants[agreementId] \in Seq(Wallets)
         /\ Range(agreementTenants[agreementId]) \subseteq Wallets
         /\ Sound(agreements[agreementId], agreementTenants[agreementId],
                  tenants[agreementId], claims[agreementId])
<1>1. agreementId \in AgreementIds
  BY AgreementPageAssumption, ConstantsAssumption DEF agreementId, AgreementIds
<1>2. /\ agreements \in Records /\ tenants \in TenantBooks
      /\ agreements[agreementId] \in Agreement
      /\ tenants[agreementId] \in [Wallets -> Tenant]
      /\ agreementTenants[agreementId] \in Seq(Wallets)
  BY <1>1 DEF EscrowInv, TypeOK, Records, TenantBooks
<1>3. Range(agreementTenants[agreementId]) \subseteq Wallets
  BY <1>2, SeqElements DEF Range
<1> QED BY <1>1, <1>2, <1>3 DEF EscrowInv

(* Activation changes the status and nothing else.                         *)
LEMMA ActivationKeeps ==
  ASSUME NEW g \in Agreement, NEW list, NEW ts
  PROVE  /\ CheckAndActivate(g, list, ts).termsHash = g.termsHash
         /\ CheckAndActivate(g, list, ts).recipientAccepted = g.recipientAccepted
BY DEF CheckAndActivate, Agreement

(* The fields that a call sets, and those that it leaves.                  *)
LEMMA TenantTouched ==
  ASSUME NEW t \in Tenant
  PROVE  /\ [t EXCEPT !.accepted = TRUE] \in Tenant
         /\ [t EXCEPT !.accepted = TRUE].accepted
         /\ [t EXCEPT !.accepted = TRUE].requiredAmount = t.requiredAmount
         /\ \A y \in Int :
              /\ [t EXCEPT !.fundedAmount = y] \in Tenant
              /\ [t EXCEPT !.fundedAmount = y].fundedAmount = y
              /\ [t EXCEPT !.fundedAmount = y].requiredAmount = t.requiredAmount
BY DEF Tenant

LEMMA AgreementTouched ==
  ASSUME NEW g \in Agreement
  PROVE  /\ [g EXCEPT !.recipientAccepted = TRUE] \in Agreement
         /\ [g EXCEPT !.recipientAccepted = TRUE].recipientAccepted
         /\ [g EXCEPT !.recipientAccepted = TRUE].termsHash = g.termsHash
         /\ \A y \in Int :
              /\ [g EXCEPT !.totalFunded = y] \in Agreement
              /\ [g EXCEPT !.totalFunded = y].recipientAccepted = g.recipientAccepted
              /\ [g EXCEPT !.totalFunded = y].termsHash = g.termsHash
<1>1. /\ [g EXCEPT !.recipientAccepted = TRUE] \in Agreement
      /\ \A y \in Int : [g EXCEPT !.totalFunded = y] \in Agreement
  BY AgreementFields
<1>2. /\ [g EXCEPT !.recipientAccepted = TRUE].recipientAccepted
      /\ [g EXCEPT !.recipientAccepted = TRUE].termsHash = g.termsHash
  BY DEF Agreement
<1>3. ASSUME NEW y \in Int
      PROVE  /\ [g EXCEPT !.totalFunded = y].recipientAccepted = g.recipientAccepted
             /\ [g EXCEPT !.totalFunded = y].termsHash = g.termsHash
  BY DEF Agreement
<1> QED BY <1>1, <1>2, <1>3

(* One tenant's record is replaced in the page's agreement.                *)
LEMMA OneRecordKept ==
  ASSUME EscrowInv, NEW w \in Wallets, NEW t \in Tenant,
         t.requiredAmount = tenants[agreementId][w].requiredAmount,
         tenants' = [tenants EXCEPT ![agreementId] = [tenants[agreementId] EXCEPT ![w] = t]]
  PROVE  /\ tenants'[agreementId][w] = t
         /\ \A v \in Wallets :
              /\ tenants'[agreementId][v].requiredAmount = tenants[agreementId][v].requiredAmount
              /\ v # w => tenants'[agreementId][v] = tenants[agreementId][v]
<1>1. PICK us : us = [tenants[agreementId] EXCEPT ![w] = t]
  OBVIOUS
<1>2. tenants'[agreementId] = us
  BY <1>1, PageAgreement DEF TenantBooks
<1>3. us[w] = t /\ \A v \in Wallets : v # w => us[v] = tenants[agreementId][v]
  BY <1>1, PageAgreement
<1> QED BY <1>2, <1>3

(* What the page's agreement is after a step that sets it to h, and one    *)
(* tenant's record to u.                                                   *)
LEMMA KeptIfSet ==
  ASSUME EscrowInv, NEW w \in Wallets, NEW u \in Tenant, NEW h,
         u.requiredAmount = tenants[agreementId][w].requiredAmount,
         h.termsHash = agreements[agreementId].termsHash,
         agreements[agreementId].recipientAccepted => h.recipientAccepted,
         tenants' = [tenants EXCEPT ![agreementId] = [tenants[agreementId] EXCEPT ![w] = u]],
         agreements' = [agreements EXCEPT ![agreementId] = h],
         UNCHANGED <<nextAgreementId, agreementTenants>>
  PROVE  Keeps(w) /\ agreements'[agreementId] = h /\ tenants'[agreementId][w] = u
<1>1. agreements'[agreementId] = h
  BY PageAgreement DEF Records
<1>2. /\ tenants'[agreementId][w] = u
      /\ \A v \in Wallets :
           /\ tenants'[agreementId][v].requiredAmount = tenants[agreementId][v].requiredAmount
           /\ v # w => tenants'[agreementId][v] = tenants[agreementId][v]
  BY OneRecordKept
<1> QED BY <1>1, <1>2 DEF Keeps

LEMMA CallKeeps ==
  ASSUME PageInv, NEW kind, NEW w \in Wallets, NEW amount \in Nat, Call(kind, w, amount)
  PROVE  EscrowInv' /\ Keeps(w) /\ TakesEffect(kind, w)
<1>1. PICK g \in Agreement, t \in Tenant :
        /\ g = agreements[agreementId] /\ t = tenants[agreementId][w]
        /\ g.termsHash \in Hashes /\ t.requiredAmount \in Uint128
        /\ 0 <= t.fundedAmount /\ t.fundedAmount <= t.requiredAmount
  <2>1. tenants[agreementId][w] \in Tenant
    BY PageAgreement DEF PageInv
  <2> QED BY <2>1, PageAgreement DEF PageInv, Sound, TenantSound
<1>2. EscrowInv /\ agreementId \in AgreementIds /\ tenants[agreementId] \in [Wallets -> Tenant]
  BY PageAgreement DEF PageInv
<1>3. /\ \A x \in Uint128 : x \in Int
      /\ t.fundedAmount \in Int /\ t.requiredAmount \in Int /\ g.totalFunded \in Int
  <2>1. g.totalFunded \in Int
    BY AgreementFields
  <2>2. t.fundedAmount \in Int /\ t.requiredAmount \in Int
    BY DEF Tenant
  <2> QED BY <2>1, <2>2, ConstantsAssumption DEF Uint128
<1>4. CASE kind = "acceptAsTenant" /\ AcceptAsTenant(agreementId, w, g.termsHash)
  <2>1. EscrowInv'
    <3>1. UnguardedCall(w)
      BY <1>1, <1>2, <1>4 DEF UnguardedCall
    <3> QED BY <1>2, <3>1, StepSound DEF EscrowStep
  <2>2. PICK u, h :
          /\ u \in Tenant /\ u.accepted /\ u.requiredAmount = t.requiredAmount
          /\ h.termsHash = g.termsHash /\ h.recipientAccepted = g.recipientAccepted
          /\ tenants' = [tenants EXCEPT ![agreementId] = [tenants[agreementId] EXCEPT ![w] = u]]
          /\ agreements' = [agreements EXCEPT ![agreementId] = h]
    <3>1. PICK u : u = [t EXCEPT !.accepted = TRUE]
      OBVIOUS
    <3>2. PICK ts, h : /\ ts = [tenants[agreementId] EXCEPT ![w] = u]
                       /\ h = CheckAndActivate(g, agreementTenants[agreementId], ts)
      OBVIOUS
    <3>3. /\ tenants' = [tenants EXCEPT ![agreementId] = ts]
          /\ agreements' = [agreements EXCEPT ![agreementId] = h]
      BY <1>1, <1>4, <3>1, <3>2 DEF AcceptAsTenant
    <3>4. u \in Tenant /\ u.accepted /\ u.requiredAmount = t.requiredAmount
      BY <3>1, TenantTouched
    <3>5. h.termsHash = g.termsHash /\ h.recipientAccepted = g.recipientAccepted
      BY <3>2, ActivationKeeps
    <3> QED BY <3>2, <3>3, <3>4, <3>5
  <2>3. UNCHANGED <<nextAgreementId, agreementTenants>>
    BY <1>4 DEF AcceptAsTenant
  <2>4. Keeps(w) /\ tenants'[agreementId][w] = u
    BY <1>1, <1>2, <2>2, <2>3, KeptIfSet
  <2>5. TakesEffect(kind, w)
    BY <1>4, <2>2, <2>4 DEF TakesEffect
  <2> QED BY <2>1, <2>4, <2>5
<1>5. CASE kind = "acceptAsRecipient" /\ AcceptAsRecipient(agreementId, w, g.termsHash)
  <2>1. EscrowInv'
    <3>1. UnguardedCall(w)
      BY <1>1, <1>2, <1>5 DEF UnguardedCall
    <3> QED BY <1>2, <3>1, StepSound DEF EscrowStep
  <2>2. PICK h : /\ h.termsHash = g.termsHash /\ h.recipientAccepted
                 /\ agreements' = [agreements EXCEPT ![agreementId] = h]
    <3>1. PICK r : r = [g EXCEPT !.recipientAccepted = TRUE]
      OBVIOUS
    <3>2. PICK h : h = CheckAndActivate(r, agreementTenants[agreementId], tenants[agreementId])
      OBVIOUS
    <3>3. agreements' = [agreements EXCEPT ![agreementId] = h]
      BY <1>1, <1>5, <3>1, <3>2 DEF AcceptAsRecipient
    <3>4. r \in Agreement /\ r.recipientAccepted /\ r.termsHash = g.termsHash
      BY <3>1, AgreementTouched
    <3>5. h.termsHash = r.termsHash /\ h.recipientAccepted = r.recipientAccepted
      BY <3>2, <3>4, ActivationKeeps
    <3> QED BY <3>3, <3>4, <3>5
  <2>3. UNCHANGED <<nextAgreementId, agreementTenants, tenants>>
    BY <1>5 DEF AcceptAsRecipient
  <2>4. agreements'[agreementId] = h
    BY <1>2, <2>2, PageAgreement DEF Records
  <2>5. Keeps(w)
    BY <1>1, <2>2, <2>3, <2>4 DEF Keeps
  <2>6. TakesEffect(kind, w)
    BY <1>5, <2>2, <2>4 DEF TakesEffect
  <2> QED BY <2>1, <2>5, <2>6
<1>6. CASE kind = "deposit" /\ Deposit(agreementId, w, amount)
  <2>1. amount # 0 /\ amount <= t.requiredAmount - t.fundedAmount
    BY <1>1, <1>6 DEF Deposit, MayDeposit, Remaining
  <2>2. amount \in Uint128
    BY <1>1, <1>3, <2>1, ConstantsAssumption DEF Uint128
  <2>3. EscrowInv'
    <3>1. UnguardedCall(w)
      BY <1>2, <1>6, <2>2 DEF UnguardedCall
    <3> QED BY <1>2, <3>1, StepSound DEF EscrowStep
  <2>4. PICK y \in Int, x \in Int : /\ y = t.fundedAmount + amount /\ x = g.totalFunded + amount
                                    /\ y > t.fundedAmount
    BY <1>3, <2>1
  <2>5. PICK u, h :
          /\ u \in Tenant /\ u.fundedAmount = y /\ u.requiredAmount = t.requiredAmount
          /\ h.termsHash = g.termsHash /\ h.recipientAccepted = g.recipientAccepted
          /\ tenants' = [tenants EXCEPT ![agreementId] = [tenants[agreementId] EXCEPT ![w] = u]]
          /\ agreements' = [agreements EXCEPT ![agreementId] = h]
    <3>1. PICK u, r : u = [t EXCEPT !.fundedAmount = y] /\ r = [g EXCEPT !.totalFunded = x]
      OBVIOUS
    <3>2. PICK ts, h : /\ ts = [tenants[agreementId] EXCEPT ![w] = u]
                       /\ h = CheckAndActivate(r, agreementTenants[agreementId], ts)
      OBVIOUS
    <3>3. /\ tenants' = [tenants EXCEPT ![agreementId] = ts]
          /\ agreements' = [agreements EXCEPT ![agreementId] = h]
      BY <1>1, <1>6, <2>4, <3>1, <3>2 DEF Deposit
    <3>4. u \in Tenant /\ u.fundedAmount = y /\ u.requiredAmount = t.requiredAmount
      BY <3>1, TenantTouched
    <3>5. r \in Agreement /\ r.termsHash = g.termsHash /\ r.recipientAccepted = g.recipientAccepted
      BY <3>1, AgreementTouched
    <3>6. h.termsHash = r.termsHash /\ h.recipientAccepted = r.recipientAccepted
      BY <3>2, <3>5, ActivationKeeps
    <3> QED BY <3>2, <3>3, <3>4, <3>5, <3>6
  <2>6. UNCHANGED <<nextAgreementId, agreementTenants>>
    BY <1>6 DEF Deposit
  <2>7. Keeps(w) /\ tenants'[agreementId][w] = u
    BY <1>1, <1>2, <2>5, <2>6, KeptIfSet
  <2>8. TakesEffect(kind, w)
    BY <1>1, <1>6, <2>4, <2>5, <2>7 DEF TakesEffect
  <2> QED BY <2>3, <2>7, <2>8
<1>7. CASE kind = "withdrawFunding" /\ WithdrawFundingBeforeActivation(agreementId, w, amount)
  <2>1. amount # 0 /\ amount <= t.fundedAmount
    BY <1>1, <1>7 DEF WithdrawFundingBeforeActivation, WithdrawFundingEffects, MayWithdrawFunding
  <2>2. amount \in Uint128
    BY <1>1, <1>3, <2>1, ConstantsAssumption DEF Uint128
  <2>3. EscrowInv'
    <3>1. PaysFunding(agreementId, w, amount)
      BY <1>7 DEF WithdrawFundingBeforeActivation, SendMON, PaysFunding
    <3> QED BY <1>2, <2>2, <3>1, StepSound DEF EscrowStep, Pays
  <2>4. PICK y \in Int, x \in Int : /\ y = t.fundedAmount - amount /\ x = g.totalFunded - amount
                                    /\ y < t.fundedAmount
    BY <1>3, <2>1
  <2>5. PICK u, h : u = [t EXCEPT !.fundedAmount = y] /\ h = [g EXCEPT !.totalFunded = x]
    OBVIOUS
  <2>6. /\ tenants' = [tenants EXCEPT ![agreementId] = [tenants[agreementId] EXCEPT ![w] = u]]
        /\ agreements' = [agreements EXCEPT ![agreementId] = h]
        /\ UNCHANGED <<nextAgreementId, agreementTenants>>
    BY <1>1, <1>7, <2>4, <2>5 DEF WithdrawFundingBeforeActivation, WithdrawFundingEffects
  <2>7. u \in Tenant /\ u.fundedAmount = y /\ u.requiredAmount = t.requiredAmount
    BY <2>5, TenantTouched
  <2>8. h.termsHash = g.termsHash /\ h.recipientAccepted = g.recipientAccepted
    BY <2>5, AgreementTouched
  <2>9. Keeps(w) /\ tenants'[agreementId][w] = u
    BY <1>1, <1>2, <2>6, <2>7, <2>8, KeptIfSet
  <2>10. TakesEffect(kind, w)
    BY <1>1, <1>7, <2>4, <2>7, <2>9 DEF TakesEffect
  <2> QED BY <2>3, <2>9, <2>10
<1> QED BY <1>1, <1>4, <1>5, <1>6, <1>7 DEF Call

LEMMA CancelKeeps ==
  ASSUME PageInv, NEW w \in Wallets, CancelExpiredFunding(agreementId, w)
  PROVE  EscrowInv' /\ Keeps(w)
<1>1. EscrowInv /\ agreementId \in AgreementIds /\ agreements \in Records
  BY PageAgreement DEF PageInv
<1>2. EscrowInv'
  <2>1. UnguardedCall(w)
    BY <1>1 DEF UnguardedCall
  <2> QED BY <1>1, <2>1, StepSound DEF EscrowStep
<1>3. /\ agreements' = [agreements EXCEPT ![agreementId] = [agreements[agreementId] EXCEPT !.status = "CANCELLED"]]
      /\ UNCHANGED <<nextAgreementId, agreementTenants, tenants>>
  BY DEF CancelExpiredFunding
<1>4. /\ agreements'[agreementId].termsHash = agreements[agreementId].termsHash
      /\ agreements'[agreementId].recipientAccepted = agreements[agreementId].recipientAccepted
  BY <1>1, <1>3 DEF Records, Agreement
<1> QED BY <1>2, <1>3, <1>4 DEF Keeps

(* The calls of other wallets are watched as before, and those of w's own  *)
(* are not quiet any more.                                                 *)
LEMMA StillFollowed ==
  ASSUME NEW f \in Flights, Followed(f), NEW w \in Wallets, Keeps(w), f.wallet # w
  PROVE  Followed(f)'
<1>1. f.wallet \in Wallets
  BY AgreementPageAssumption DEF Flights
<1>2. /\ tenants'[agreementId][f.wallet] = tenants[agreementId][f.wallet]
      /\ agreements[agreementId].recipientAccepted => agreements'[agreementId].recipientAccepted
  BY <1>1 DEF Keeps
<1> QED BY <1>2 DEF Followed, Observed, Flights, Kinds

LEMMA DisturbedWatched ==
  ASSUME NEW fs, fs \subseteq Watched, NEW w \in Wallets, Keeps(w)
  PROVE  Disturbed(fs, w) \subseteq Watched'
<1> SUFFICES ASSUME NEW f \in fs
             PROVE  (IF f.wallet = w THEN [f EXCEPT !.quiet = FALSE] ELSE f) \in Watched'
  BY DEF Disturbed
<1>1. f \in Flights /\ Followed(f)
  BY DEF Watched
<1>2. CASE f.wallet = w
  <2>1. PICK e : e = [f EXCEPT !.quiet = FALSE]
    OBVIOUS
  <2>2. e \in Flights /\ ~ e.quiet
    BY <1>1, <2>1 DEF Flights
  <2>3. Followed(e)'
    BY <2>2 DEF Followed
  <2> QED BY <1>2, <2>1, <2>2, <2>3 DEF Watched
<1>3. CASE f.wallet # w
  BY <1>1, <1>3, StillFollowed DEF Watched
<1> QED BY <1>2, <1>3

(* As long as nobody calls, what is known of a call stays true.            *)
LEMMA NoCallWatched ==
  ASSUME UNCHANGED <<agreements, tenants>>
  PROVE  Watched' = Watched
BY DEF Watched, Followed, Observed

(* The fields of a call as it is made and as it goes on.                   *)
LEMMA FlightFields ==
  ASSUME NEW kind \in Kinds, NEW w \in Users, NEW amount \in Nat, NEW before \in Int,
         NEW quiet \in BOOLEAN
  PROVE  /\ Flight(kind, w, amount, before, quiet) \in Flights
         /\ Flight(kind, w, amount, before, quiet).kind = kind
         /\ Flight(kind, w, amount, before, quiet).wallet = w
         /\ Flight(kind, w, amount, before, quiet).before = before
         /\ Flight(kind, w, amount, before, quiet).at = "simulating"
         /\ Flight(kind, w, amount, before, quiet).quiet = quiet
BY DEF Flight, Flights

LEMMA OnFields ==
  ASSUME NEW f \in Flights, NEW at \in {"mined", "unverified"}
  PROVE  /\ [f EXCEPT !.at = at] \in Flights /\ [f EXCEPT !.at = at].at = at
         /\ [f EXCEPT !.at = at].kind = f.kind /\ [f EXCEPT !.at = at].wallet = f.wallet
         /\ [f EXCEPT !.at = at].before = f.before /\ [f EXCEPT !.at = at].quiet = f.quiet
BY DEF Flights

LEMMA WalletsAreUsers ==
  ASSUME connected \in SomeWallet, RecordsListed, EscrowInv
  PROVE  /\ connected # Nobody => connected \in Users
         /\ \A w \in DOMAIN tenantRecords : w \in Wallets /\ w # Nobody
         /\ isTenant => connected \in Users /\ tenantRecord \in Tenant
<1>1. \A w \in DOMAIN tenantRecords : w \in Wallets /\ w # Nobody
  BY PageAgreement, AgreementPageAssumption DEF RecordsListed
<1> QED BY <1>1 DEF SomeWallet, RecordsListed, isTenant, tenantRecord

(* A click follows what the card shows.                                    *)
LEMMA ClickWatched ==
  ASSUME PageInv, NEW kind \in Kinds, Click(kind)
  PROVE  flights' \subseteq Watched
<1> DEFINE quiet == isTenant => tenantRecord = tenants[agreementId][connected]
           before == IF isTenant THEN tenantRecord.fundedAmount ELSE 0
<1>1. connected # Nobody /\ connected \in Users /\ (isTenant => tenantRecord \in Tenant)
  BY WalletsAreUsers DEF PageInv, Click, Offers, walletMatchesSession
<1>2. kind \in {"deposit", "withdrawFunding"} => isTenant
  BY DEF Click, Offers, canDeposit, canWithdrawFunding
<1>3. PICK amount \in Amounts(kind) :
        flights' = flights \cup {Flight(kind, connected, amount, before, quiet)}
  BY DEF Click
<1>4. amount \in Nat
  <2>1. isTenant => tenantRecord.fundedAmount \in Int /\ tenantRecord.requiredAmount \in Int
    BY <1>1 DEF Tenant
  <2>2. isTenant => remaining \in Int
    BY <2>1 DEF remaining
  <2>3. CASE kind = "deposit"
    BY <1>2, <1>3, <2>2, <2>3 DEF Amounts
  <2>4. CASE kind = "withdrawFunding"
    BY <1>2, <1>3, <2>1, <2>4 DEF Amounts
  <2>5. CASE kind \in {"acceptAsTenant", "acceptAsRecipient"}
    BY <1>3, <2>5 DEF Amounts
  <2> QED BY <2>3, <2>4, <2>5 DEF Kinds
<1>5. before \in Int /\ quiet \in BOOLEAN
  BY <1>1 DEF Tenant
<1>6. kind \in {"deposit", "withdrawFunding"} /\ quiet =>
        tenants[agreementId][connected].fundedAmount = before
  BY <1>2
<1> HIDE DEF quiet, before
<1>7. PICK f : f = Flight(kind, connected, amount, before, quiet)
  OBVIOUS
<1>8. /\ f \in Flights /\ f.kind = kind /\ f.wallet = connected /\ f.before = before
      /\ f.at = "simulating" /\ f.quiet = quiet
  BY <1>1, <1>4, <1>5, <1>7, FlightFields
<1>9. Followed(f)
  BY <1>6, <1>8 DEF Followed
<1> QED BY <1>3, <1>7, <1>8, <1>9 DEF PageInv, Watched

(* The wallet is asked: a call that goes to another one is not quiet.      *)
LEMMA AskWatched ==
  ASSUME PageInv, NEW f \in flights, AskWallet(f)
  PROVE  flights' \subseteq Watched
<1>1. f \in Flights /\ Followed(f) /\ f.at = "simulating" /\ connected \in Users
  BY WalletsAreUsers DEF PageInv, Watched, AskWallet
<1>2. PICK q : q = (f.quiet /\ connected = f.wallet)
  OBVIOUS
<1>3. q \in BOOLEAN
  BY <1>2
<1>4. PICK w : w = connected /\ w \in Users
  BY <1>1
<1>5. PICK e : e = [f EXCEPT !.at = "sent", !.sender = w, !.quiet = q]
  OBVIOUS
<1>6. flights' = (flights \ {f}) \cup {e}
  BY <1>2, <1>4, <1>5 DEF AskWallet
<1>7. /\ e \in Flights /\ e.at = "sent" /\ e.sender = connected /\ e.quiet = q
      /\ e.kind = f.kind /\ e.wallet = f.wallet /\ e.before = f.before
  <2>1. /\ e \in Flights /\ e.at = "sent" /\ e.sender = w /\ e.quiet = q
        /\ e.kind = f.kind /\ e.wallet = f.wallet /\ e.before = f.before
    BY <1>1, <1>3, <1>4, <1>5 DEF Flights
  <2> QED BY <1>4, <2>1
<1>8. Followed(e)
  BY <1>1, <1>2, <1>7 DEF Followed
<1> QED BY <1>6, <1>7, <1>8 DEF PageInv, Watched

(* Once it is mined its own change is there, if it is quiet.               *)
LEMMA MineWatched ==
  ASSUME PageInv, NEW f \in flights, Mine(f)
  PROVE  EscrowInv' /\ Keeps(f.sender) /\ flights' \subseteq Watched'
<1>1. /\ f \in Flights /\ Followed(f) /\ f.at = "sent" /\ f.sender \in Wallets
      /\ f.wallet \in Wallets /\ f.amount \in Nat /\ f.kind \in Kinds
  BY AgreementPageAssumption DEF PageInv, Watched, Mine, Flights
<1>2. EscrowInv' /\ Keeps(f.sender) /\ TakesEffect(f.kind, f.sender)
  BY <1>1, CallKeeps DEF Mine
<1>3. Disturbed(flights \ {f}, f.sender) \subseteq Watched'
  BY <1>1, <1>2, DisturbedWatched DEF PageInv
<1>4. PICK e : e = [f EXCEPT !.at = "mined"]
  OBVIOUS
<1>5. /\ e \in Flights /\ e.at = "mined" /\ e.kind = f.kind /\ e.wallet = f.wallet
      /\ e.before = f.before /\ e.quiet = f.quiet
  BY <1>1, <1>4, OnFields
<1>6. Followed(e)'
  <2>1. SUFFICES ASSUME f.quiet PROVE Observed(e)'
    BY <1>5 DEF Followed
  <2>2. f.sender = f.wallet
    BY <1>1, <2>1 DEF Followed
  <2>3. f.kind \in {"deposit", "withdrawFunding"} =>
          tenants[agreementId][f.wallet].fundedAmount = f.before
    BY <1>1, <2>1 DEF Followed
  <2> QED BY <1>1, <1>2, <1>5, <2>2, <2>3 DEF TakesEffect, Observed, Kinds
<1>7. flights' = Disturbed(flights \ {f}, f.sender) \cup {e}
  BY <1>4 DEF Mine
<1> QED BY <1>2, <1>3, <1>5, <1>6, <1>7 DEF Watched

(* The look at the contract fails only for a call that is not quiet.       *)
LEMMA VerifyWatched ==
  ASSUME PageInv, NEW f \in flights, Verify(f)
  PROVE  flights' \subseteq Watched
<1>1. f \in Flights /\ Followed(f) /\ f.at = "mined"
  BY DEF PageInv, Watched, Verify
<1>2. CASE Observed(f)
  BY <1>2 DEF PageInv, Verify
<1>3. CASE ~ Observed(f)
  <2>1. PICK e : e = [f EXCEPT !.at = "unverified"]
    OBVIOUS
  <2>2. e \in Flights /\ e.quiet = f.quiet
    BY <1>1, <2>1, OnFields
  <2>3. ~ f.quiet
    BY <1>1, <1>3 DEF Followed
  <2>4. Followed(e)
    BY <2>2, <2>3 DEF Followed
  <2>5. flights' = (flights \ {f}) \cup {e}
    BY <1>3, <2>1 DEF Verify
  <2> QED BY <2>2, <2>4, <2>5 DEF PageInv, Watched
<1> QED BY <1>2, <1>3

-----------------------------------------------------------------------------
(* What the page reads is of the tenants of the list.                      *)
LEMMA RecordsAreListed ==
  ASSUME PageInv
  PROVE  LET blank == [w \in Range(agreementTenants[agreementId]) |-> BlankTenant]
         IN  /\ DOMAIN RecordsShown = DOMAIN tenantRecords
             /\ \A w \in DOMAIN RecordsShown : RecordsShown[w] \in Tenant
             /\ DOMAIN blank = Range(agreementTenants[agreementId])
             /\ \A w \in DOMAIN blank : blank[w] \in Tenant
<1>1. \A w \in DOMAIN tenantRecords : w \in Wallets
  BY WalletsAreUsers DEF PageInv
<1>2. \A w \in DOMAIN tenantRecords : tenants[agreementId][w] \in Tenant
  BY <1>1, PageAgreement DEF PageInv
<1> QED BY <1>2, BlanksTyped DEF RecordsShown

LEMMA AnswersListed ==
  ASSUME PageInv, UNCHANGED agreementTenants
  PROVE  /\ UNCHANGED tenantRecords => RecordsListed'
         /\ ReadTenants => RecordsListed'
         /\ \A f : Verify(f) => RecordsListed'
<1>1. UNCHANGED tenantRecords => RecordsListed'
  BY DEF PageInv, RecordsListed
<1>2. tenantRecords' = RecordsShown => RecordsListed'
  <2>1. DOMAIN RecordsShown = DOMAIN tenantRecords /\ \A w \in DOMAIN RecordsShown : RecordsShown[w] \in Tenant
    BY RecordsAreListed
  <2> HIDE DEF RecordsShown
  <2> QED BY <2>1 DEF PageInv, RecordsListed
<1>3. tenantRecords' = [w \in Range(agreementTenants[agreementId]) |-> BlankTenant] => RecordsListed'
  BY RecordsAreListed DEF RecordsListed
<1> QED BY <1>1, <1>2, <1>3 DEF ReadTenants, Verify, Answered

-----------------------------------------------------------------------------
(* The invariant of the page                                               *)

(* The page is opened on an agreement that has just been created.          *)
LEMMA PageInvInit == PageInit => PageInv
<1> SUFFICES ASSUME PageInit PROVE PageInv
  OBVIOUS
<1>1. PICK p \in Proposals :
        /\ Creatable(p)
        /\ agreements = [a \in AgreementIds |->
                           IF a = agreementId THEN NewAgreement(p) ELSE BlankAgreement]
        /\ agreementTenants = [a \in AgreementIds |->
                                 IF a = agreementId THEN p.tenantAddresses ELSE << >>]
        /\ tenants = [a \in AgreementIds |->
                        IF a = agreementId THEN RegisteredTenants(p)
                        ELSE [w \in Wallets |-> BlankTenant]]
  BY DEF PageInit
<1>2. /\ nextAgreementId = agreementId + 1 /\ agreementId \in AgreementIds
      /\ claims = [a \in AgreementIds |-> [c \in ClaimIds |-> BlankClaim]]
      /\ votes = [a \in AgreementIds |-> [c \in ClaimIds |-> [w \in Wallets |-> 0]]]
      /\ now = 0 /\ balance = 0 /\ forced = 0
      /\ connected \in Users /\ tenantRecords = << >> /\ flights = {}
  BY AgreementPageAssumption, ConstantsAssumption DEF PageInit, agreementId, AgreementIds
<1>3. p.recipient # NoWallet /\ p.termsHash # NoHash /\ RosterValid(p) /\ p \in Proposal
  BY <1>1, ConstantsAssumption DEF Creatable
<1>4. PICK h, list, us : h = NewAgreement(p) /\ list = p.tenantAddresses /\ us = RegisteredTenants(p)
  OBVIOUS
<1>5. /\ list \in Seq(Wallets) /\ h \in Agreement /\ us \in [Wallets -> Tenant]
      /\ \A w \in Wallets : us[w].requiredAmount \in Uint128
  BY <1>3, <1>4, NewRecordsTyped
<1>6. PICK blank : blank = [w \in Wallets |-> BlankTenant]
  OBVIOUS
<1>7. /\ blank \in [Wallets -> Tenant] /\ \A w \in Wallets : blank[w] = BlankTenant
      /\ BlankAgreement \in Agreement /\ BlankClaim \in Claim
  BY <1>6, BlanksTyped
<1>8. /\ agreements = [a \in AgreementIds |-> IF a = agreementId THEN h ELSE BlankAgreement]
      /\ agreementTenants = [a \in AgreementIds |-> IF a = agreementId THEN list ELSE << >>]
      /\ tenants = [a \in AgreementIds |-> IF a = agreementId THEN us ELSE blank]
  BY <1>1, <1>4, <1>6
<1>9. TypeOK
  <2>1. agreements \in [AgreementIds -> Agreement] /\ tenants \in [AgreementIds -> [Wallets -> Tenant]]
    BY <1>5, <1>7, <1>8
  <2>2. agreementTenants \in [AgreementIds -> Seq(Wallets)]
    <3>1. << >> \in Seq(Wallets)
      OBVIOUS
    <3> QED BY <1>5, <1>8, <3>1
  <2>3. /\ claims \in [AgreementIds -> [ClaimIds -> Claim]]
        /\ votes \in [AgreementIds -> [ClaimIds -> [Wallets -> 0 .. 2]]]
    BY <1>2, <1>7
  <2>4. /\ nextAgreementId \in 1 .. MaxAgreements + 1
        /\ now \in 0 .. MaxTime /\ balance \in Int /\ forced \in 0 .. MaxForced
    BY <1>2, ConstantsAssumption DEF AgreementIds, agreementId
  <2> QED BY <2>1, <2>2, <2>3, <2>4 DEF TypeOK
<1>10. ASSUME NEW a \in AgreementIds
       PROVE  /\ Sound(agreements[a], agreementTenants[a], tenants[a], claims[a])
              /\ SumFunction(Dues(agreements[a], tenants[a])) = 0
              /\ a # agreementId => Unused(a)
  <2>1. \A c \in ClaimIds : claims[a][c].status = "NONE"
    BY <1>2 DEF BlankClaim
  <2>2. CASE a = agreementId
    <3>1. agreements[a] = h /\ agreementTenants[a] = list /\ tenants[a] = us
      BY <1>8, <2>2
    <3>2. Sound(h, list, us, claims[a]) /\ SumFunction(Dues(h, us)) = 0
      BY <1>3, <1>4, <1>5, <2>1, CreationSound
    <3> QED BY <2>2, <3>1, <3>2
  <2>3. CASE a # agreementId
    <3>1. agreements[a] = BlankAgreement /\ agreementTenants[a] = << >> /\ tenants[a] = blank
      BY <1>8, <2>3
    <3>2. DOMAIN << >> = {}
      OBVIOUS
    <3>3. Sound(BlankAgreement, << >>, blank, claims[a]) /\ SumFunction(Dues(BlankAgreement, blank)) = 0
      BY <1>7, <2>1, <3>2, BlankSound
    <3> QED BY <1>7, <2>3, <3>1, <3>3 DEF Unused
  <2> QED BY <2>2, <2>3
<1>11. Solvent
  <2> DEFINE held == [a \in AgreementIds |-> SumFunction(Dues(agreements[a], tenants[a]))]
  <2>1. held \in [AgreementIds -> Int] /\ \A a \in AgreementIds : held[a] = 0
    BY <1>10
  <2>2. IsFiniteSet(AgreementIds)
    BY AgreementIdsFinite
  <2> HIDE DEF held
  <2>3. SumFunction(held) = 0
    BY <2>1, <2>2, ZeroColumn
  <2>4. balance = forced + SumFunction(held)
    BY <1>2, <2>3
  <2> QED BY <2>4, SolventByRecords DEF held
<1>12. EscrowInv
  <2>1. \A a \in AgreementIds : a >= nextAgreementId => a # agreementId
    BY <1>2 DEF AgreementIds, agreementId
  <2> QED BY <1>9, <1>10, <1>11, <2>1 DEF EscrowInv
<1>13. agreements[agreementId] = h /\ tenants[agreementId] = us
  BY <1>2, <1>8
<1>14. h.termsHash \in Hashes
  <2>1. p.termsHash \in Hashes
    BY <1>3 DEF Proposal
  <2>2. NewAgreement(p).termsHash = p.termsHash
    BY DEF NewAgreement, BlankAgreement
  <2> QED BY <1>4, <2>1, <2>2
<1>15. RecordsListed
  <2>1. DOMAIN tenantRecords = {}
    BY <1>2
  <2> QED BY <2>1 DEF RecordsListed
<1> QED BY <1>2, <1>5, <1>12, <1>13, <1>14, <1>15 DEF PageInv, SomeWallet

LEMMA PageInvStep == PageInv /\ [PageNext]_<<vars, pageVars>> => PageInv'
<1> SUFFICES ASSUME PageInv, [PageNext]_<<vars, pageVars>> PROVE PageInv'
  OBVIOUS
<1>1. ASSUME UNCHANGED vars, flights' \subseteq Watched, connected' \in SomeWallet, RecordsListed'
      PROVE  PageInv'
  <2>1. EscrowInv'
    BY <1>1, StepSound DEF PageInv, EscrowStep
  <2>2. UNCHANGED <<nextAgreementId, agreements, tenants>>
    BY <1>1 DEF vars
  <2>3. flights' \subseteq Watched'
    BY <1>1, <2>2, NoCallWatched
  <2> QED BY <1>1, <2>1, <2>2, <2>3 DEF PageInv
<1>2. ASSUME NEW w \in Wallets, Keeps(w), EscrowInv', flights' \subseteq Watched',
             UNCHANGED <<connected, tenantRecords>>
      PROVE  PageInv'
  <2>1. UNCHANGED <<nextAgreementId, agreementTenants>> /\ agreements'[agreementId].termsHash \in Hashes
        /\ \A v \in Wallets : tenants'[agreementId][v].requiredAmount \in Uint128
    BY <1>2 DEF PageInv, Keeps
  <2>2. RecordsListed'
    BY <1>2, <2>1, AnswersListed
  <2> QED BY <1>2, <2>1, <2>2 DEF PageInv
<1>3. ASSUME UNCHANGED <<vars, connected, tenantRecords>>, flights' \subseteq Watched
      PROVE  PageInv'
  <2>1. RecordsListed'
    BY <1>3, AnswersListed DEF vars
  <2> QED BY <1>1, <1>3, <2>1 DEF PageInv
<1>4. CASE UNCHANGED <<vars, pageVars>>
  BY <1>3, <1>4 DEF pageVars, PageInv
<1>5. ASSUME NEW kind \in Kinds, Click(kind)
      PROVE  PageInv'
  BY <1>3, <1>5, ClickWatched DEF Click, wallets, reads
<1>6. ASSUME NEW f \in flights, AskWallet(f)
      PROVE  PageInv'
  BY <1>3, <1>6, AskWatched DEF AskWallet, wallets, reads
<1>7. ASSUME NEW f \in flights, GiveUp(f) \/ CheckAgain(f)
      PROVE  PageInv'
  BY <1>3, <1>7 DEF PageInv, GiveUp, CheckAgain, wallets, reads
<1>8. ASSUME NEW f \in flights, Mine(f)
      PROVE  PageInv'
  <2>1. f.sender \in Wallets
    BY AgreementPageAssumption DEF PageInv, Watched, Flights
  <2>2. UNCHANGED <<connected, tenantRecords>>
    BY <1>8 DEF Mine, wallets, reads
  <2> QED BY <1>2, <1>8, <2>1, <2>2, MineWatched
<1>9. ASSUME NEW f \in flights, Verify(f)
      PROVE  PageInv'
  <2>1. UNCHANGED <<vars, connected>>
    BY <1>9 DEF Verify, wallets
  <2>2. RecordsListed'
    BY <1>9, <2>1, AnswersListed DEF vars
  <2> QED BY <1>1, <1>9, <2>1, <2>2, VerifyWatched DEF PageInv
<1>10. CASE ReadAgreement
  BY <1>3, <1>10 DEF ReadAgreement, Answered, wallets, PageInv
<1>11. CASE ReadTenants
  <2>1. UNCHANGED <<vars, connected, flights>>
    BY <1>11 DEF ReadTenants, wallets
  <2>2. RecordsListed'
    BY <1>11, <2>1, AnswersListed DEF vars
  <2> QED BY <1>1, <2>1, <2>2 DEF PageInv
<1>12. CASE SwitchWallet
  <2>1. UNCHANGED <<vars, tenantRecords, flights>> /\ connected' \in SomeWallet
    BY <1>12 DEF SwitchWallet, reads, SomeWallet, PageInv
  <2>2. RecordsListed'
    BY <2>1, AnswersListed DEF vars
  <2> QED BY <1>1, <2>1, <2>2 DEF PageInv
<1>13. CASE CalledElsewhere
  <2>1. UNCHANGED <<connected, tenantRecords>>
    BY <1>13 DEF CalledElsewhere, wallets, reads
  <2>2. ASSUME NEW w \in Wallets, EscrowInv', Keeps(w), flights' = Disturbed(flights, w)
        PROVE  PageInv'
    BY <1>2, <2>1, <2>2, DisturbedWatched DEF PageInv
  <2>3. ASSUME NEW w \in Wallets, NEW kind \in Kinds, NEW amount \in 0 .. MAX_UINT128,
               Call(kind, w, amount), flights' = Disturbed(flights, w)
        PROVE  PageInv'
    <3>1. amount \in Nat
      BY ConstantsAssumption
    <3> QED BY <2>2, <2>3, <3>1, CallKeeps
  <2>4. ASSUME NEW w \in Wallets, CancelExpiredFunding(agreementId, w), flights' = Disturbed(flights, w)
        PROVE  PageInv'
    BY <2>2, <2>4, CancelKeeps
  <2>5. ASSUME Tick, UNCHANGED flights
        PROVE  PageInv'
    <3>1. EscrowInv'
      BY <2>5, StepSound DEF PageInv, EscrowStep
    <3>2. UNCHANGED <<nextAgreementId, agreements, tenants, agreementTenants>>
      BY <2>5 DEF Tick, storage
    <3>3. flights' \subseteq Watched'
      BY <2>5, <3>2, NoCallWatched DEF PageInv
    <3>4. RecordsListed'
      BY <2>1, <3>2, AnswersListed
    <3> QED BY <2>1, <3>1, <3>2, <3>3, <3>4 DEF PageInv
  <2> QED BY <1>13, <2>3, <2>4, <2>5 DEF CalledElsewhere
<1> QED BY <1>4, <1>5, <1>6, <1>7, <1>8, <1>9, <1>10, <1>11, <1>12, <1>13 DEF PageNext

LEMMA PageInvAlways == PageSpec => []PageInv
<1>1. PageInit => PageInv
  BY PageInvInit
<1>2. PageInv /\ [PageNext]_<<vars, pageVars>> => PageInv'
  BY PageInvStep
<1> QED BY <1>1, <1>2, PTL DEF PageSpec

(* A call whose card was right, and whose wallet makes no other call until *)
(* it is verified, is found to have had its effect, whoever else calls and *)
(* however the wallets change: for any number of calls, wallets, tenants   *)
(* and amounts.                                                            *)
THEOREM QuietCallsVerified == PageSpec => []VerifiedUnlessDisturbed
<1>1. PageInv => VerifiedUnlessDisturbed
  BY DEF PageInv, Watched, Followed, VerifiedUnlessDisturbed
<1> QED BY <1>1, PageInvAlways, PTL

-----------------------------------------------------------------------------
(* What the page offers                                                    *)

(* While an agreement collects its deposit the account holds at least what *)
(* any one tenant has paid in.                                             *)
LEMMA StakeIsHeld ==
  ASSUME PageInv, agreements[agreementId].status = "FUNDING", NEW w \in Wallets
  PROVE  tenants[agreementId][w].fundedAmount <= balance
<1>1. /\ EscrowInv /\ agreementId \in AgreementIds
      /\ agreements[agreementId] \in Agreement /\ tenants[agreementId] \in [Wallets -> Tenant]
  BY PageAgreement DEF PageInv
<1>2. ASSUME NEW v \in Wallets
      PROVE  /\ Owed(agreementId, v) = tenants[agreementId][v].fundedAmount
             /\ Owed(agreementId, v) \in Nat
  <2>1. /\ tenants[agreementId][v].fundedAmount \in Int
        /\ 0 <= tenants[agreementId][v].fundedAmount
    BY <1>1, PageAgreement DEF Tenant, Sound, TenantSound
  <2>2. Owed(agreementId, v) = tenants[agreementId][v].fundedAmount + 0
    BY DEF Owed
  <2> QED BY <2>1, <2>2
<1>3. ASSUME NEW a \in AgreementIds, a # agreementId, NEW v \in Wallets
      PROVE  Owed(a, v) = 0
  <2>1. a >= nextAgreementId
    BY <1>3 DEF PageInv, AgreementIds, agreementId
  <2>2. agreements[a] = BlankAgreement /\ tenants[a][v] = BlankTenant
    BY <1>1, <2>1 DEF EscrowInv, Unused
  <2>3. Owed(a, v) = 0 + 0
    BY <2>2 DEF Owed, BlankAgreement, BlankTenant
  <2> QED BY <2>3
<1> DEFINE col(a) == [v \in Wallets |-> Owed(a, v)]
           rows == [a \in AgreementIds |-> SumFunction(col(a))]
<1>4. ASSUME NEW a \in AgreementIds
      PROVE  /\ SumFunction(col(a)) = SumFunctionOnSet(col(a), Wallets)
             /\ SumFunction(col(a)) \in Nat
             /\ \A v \in Wallets : col(a)[v] \in Nat
  <2>1. \A v \in Wallets : col(a)[v] \in Nat
    BY <1>2, <1>3
  <2>2. PICK f : f = col(a)
    OBVIOUS
  <2>3. f \in [Wallets -> Int] /\ \A v \in Wallets : f[v] \in Nat
    BY <2>1, <2>2
  <2> HIDE DEF col
  <2>4. SumFunction(f) = SumFunctionOnSet(f, Wallets)
    BY <2>3, SumDomain
  <2>5. SumFunctionOnSet(f, Wallets) \in Nat
    BY <2>3, SumNat, ConstantsAssumption
  <2> QED BY <2>1, <2>2, <2>4, <2>5
<1>5. col(agreementId)[w] <= SumFunction(col(agreementId))
  <2>1. PICK f : f = col(agreementId)
    OBVIOUS
  <2>2. /\ SumFunction(f) = SumFunctionOnSet(f, Wallets)
        /\ \A v \in Wallets : f[v] \in Nat
    BY <1>1, <1>4, <2>1
  <2> HIDE DEF col
  <2>3. f[w] <= SumFunctionOnSet(f, Wallets)
    BY <2>2, SumMember, ConstantsAssumption
  <2> QED BY <2>1, <2>2, <2>3
<1>6. rows[agreementId] <= SumFunction(rows) /\ SumFunction(rows) \in Nat
  <2>1. rows \in [AgreementIds -> Int] /\ \A a \in AgreementIds : rows[a] \in Nat
    BY <1>4
  <2>2. IsFiniteSet(AgreementIds)
    BY AgreementIdsFinite
  <2> HIDE DEF rows
  <2>3. SumFunction(rows) = SumFunctionOnSet(rows, AgreementIds)
    BY <2>1, SumDomain
  <2>4. rows[agreementId] <= SumFunctionOnSet(rows, AgreementIds)
    BY <1>1, <2>1, <2>2, SumMember
  <2>5. SumFunctionOnSet(rows, AgreementIds) \in Nat
    BY <2>1, <2>2, SumNat
  <2> QED BY <2>3, <2>4, <2>5
<1>7. balance = forced + SumFunction(rows)
  BY <1>1 DEF EscrowInv, Solvent
<1>8. forced \in Nat
  BY <1>1, ConstantsAssumption DEF EscrowInv, TypeOK
<1>9. /\ rows[agreementId] = SumFunction(col(agreementId))
      /\ col(agreementId)[w] = tenants[agreementId][w].fundedAmount
      /\ tenants[agreementId][w].fundedAmount \in Nat
      /\ SumFunction(col(agreementId)) \in Nat
  BY <1>1, <1>2, <1>4
<1> HIDE DEF col, rows
<1> QED BY <1>5, <1>6, <1>7, <1>8, <1>9

(* On a page that is up to date the role is that of the contract.          *)
LEMMA RoleIsRight ==
  ASSUME PageInv, UpToDate
  PROVE  /\ agreementRead.recipient = agreements[agreementId].recipient
         /\ agreementRead.recipientAccepted = agreements[agreementId].recipientAccepted
         /\ agreementRead.status = agreements[agreementId].status
         /\ agreementRead.fundingDeadline = agreements[agreementId].fundingDeadline
         /\ nowSeconds = now
         /\ connected \in Wallets =>
              (isTenant <=> tenants[agreementId][connected].exists)
         /\ isTenant => connected \in Wallets /\ tenantRecord = tenants[agreementId][connected]
<1>1. agreementRead = AgreementShown /\ nowSeconds = now
  BY DEF UpToDate
<1>2. /\ AgreementShown.recipient = agreements[agreementId].recipient
      /\ AgreementShown.recipientAccepted = agreements[agreementId].recipientAccepted
      /\ AgreementShown.status = agreements[agreementId].status
      /\ AgreementShown.fundingDeadline = agreements[agreementId].fundingDeadline
  BY DEF AgreementShown
<1>3. DOMAIN tenantRecords = Range(agreementTenants[agreementId])
  BY DEF PageInv, RecordsListed, UpToDate
<1>4. \A w \in Wallets : w \in DOMAIN tenantRecords <=> tenants[agreementId][w].exists
  <2>1. ListSound(agreementTenants[agreementId], tenants[agreementId])
    BY PageAgreement DEF PageInv, Sound
  <2> QED BY <1>3, <2>1 DEF ListSound, Range
<1>5. \A w \in DOMAIN tenantRecords : w \in Wallets /\ tenantRecords[w] = tenants[agreementId][w]
  <2>1. tenantRecords = RecordsShown
    BY DEF UpToDate
  <2>2. \A w \in DOMAIN tenantRecords : RecordsShown[w] = tenants[agreementId][w]
    BY DEF RecordsShown
  <2> QED BY <1>3, <2>1, <2>2, PageAgreement DEF PageInv
<1> QED BY <1>1, <1>2, <1>4, <1>5 DEF isTenant, tenantRecord

(* Both directions: what an up-to-date page offers the contract accepts,   *)
(* with every amount that the form lets through, and what it accepts from  *)
(* the signed-in wallet the page offers: for any tenants and amounts.      *)
THEOREM OffersWhatIsAccepted == PageSpec => []OfferedIffAccepted
<1>1. PageInv => OfferedIffAccepted
  <2> SUFFICES ASSUME PageInv, UpToDate
               PROVE  OfferedIffAccepted
    BY DEF OfferedIffAccepted
  <2> DEFINE g == agreements[agreementId]
             t == tenants[agreementId][connected]
  <2>1. /\ agreementRead.recipient = g.recipient
        /\ agreementRead.recipientAccepted = g.recipientAccepted
        /\ agreementRead.status = g.status
        /\ agreementRead.fundingDeadline = g.fundingDeadline
        /\ nowSeconds = now
        /\ isTenant => connected \in Wallets /\ tenantRecord = t /\ t.exists
        /\ connected \in Wallets /\ t.exists => isTenant
    BY RoleIsRight
  <2>2. now \in Int /\ g.fundingDeadline \in Nat
    BY PageAgreement, ConstantsAssumption DEF PageInv, EscrowInv, TypeOK, Agreement
  <2>3. fundingOpen <=> FundingOpen(agreementId)
    BY <2>1, <2>2 DEF fundingOpen, isFunding, fundingDeadlinePassed, FundingOpen
  <2>4. walletMatchesSession => connected # Nobody /\ connected \in Users /\ connected \in Wallets
    BY AgreementPageAssumption DEF walletMatchesSession, PageInv, SomeWallet
  <2>5. connected \in Wallets => t.fundedAmount \in Int /\ t.requiredAmount \in Int
    BY PageAgreement DEF PageInv, Tenant
  <2>6. g.status = "FUNDING" => agreementRead # NoRead
    <3>1. CASE g.status = "FUNDING"
      <4>1. g.recipient \in Wallets
        BY <3>1, PageAgreement DEF PageInv, Sound, RecordSound
      <4>2. AgreementShown \in [recipient : Wallets, recipientAccepted : BOOLEAN,
                                status : AgreementStatus, fundingDeadline : Nat]
        BY <4>1, PageAgreement DEF PageInv, AgreementShown, Agreement
      <4> QED BY <4>2, AgreementPageAssumption DEF UpToDate
    <3> QED BY <3>1
  <2>7. ASSUME NEW kind \in Kinds, Offers(kind), NEW amount \in Amounts(kind)
        PROVE  Admits(kind, connected, amount) \/ (kind = "withdrawFunding" /\ connected \in Refusing)
    <3>1. CASE kind = "acceptAsTenant"
      BY <2>1, <2>3, <2>7, <3>1 DEF Offers, canAcceptAsTenant, Admits, TenantMayAccept
    <3>2. CASE kind = "acceptAsRecipient"
      BY <2>1, <2>3, <2>7, <3>2 DEF Offers, canAcceptAsRecipient, isRecipient, Admits, RecipientMayAccept
    <3>3. CASE kind = "deposit"
      <4>1. isTenant /\ tenantRecord.accepted /\ fundingOpen
        BY <2>7, <3>3 DEF Offers, canDeposit
      <4>2. amount \in 1 .. (t.requiredAmount - t.fundedAmount)
        BY <2>1, <2>7, <3>3, <4>1 DEF Amounts, remaining
      <4>3. amount # 0 /\ amount <= t.requiredAmount - t.fundedAmount
        BY <2>1, <2>5, <4>1, <4>2
      <4>4. MayDeposit(agreementId, connected, amount)
        BY <2>1, <2>3, <4>1, <4>3 DEF MayDeposit, Remaining
      <4> QED BY <3>3, <4>4 DEF Admits
    <3>4. CASE kind = "withdrawFunding"
      <4>1. isTenant /\ isFunding
        BY <2>7, <3>4 DEF Offers, canWithdrawFunding
      <4>2. amount \in 1 .. t.fundedAmount
        BY <2>1, <2>7, <3>4, <4>1 DEF Amounts
      <4>3. g.status = "FUNDING" /\ connected \in Wallets
        BY <2>1, <4>1 DEF isFunding
      <4>4. t.fundedAmount <= balance
        BY <4>3, StakeIsHeld
      <4>5. balance \in Int
        BY DEF PageInv, EscrowInv, TypeOK
      <4>6. amount # 0 /\ amount <= t.fundedAmount /\ amount <= balance
        BY <2>5, <4>2, <4>3, <4>4, <4>5
      <4>7. MayWithdrawFunding(agreementId, connected, amount)
        BY <2>1, <4>1, <4>3, <4>6 DEF MayWithdrawFunding
      <4>8. connected \notin Refusing => MaySend(connected, amount)
        BY <4>6 DEF MaySend
      <4> QED BY <3>4, <4>7, <4>8 DEF Admits
    <3> QED BY <3>1, <3>2, <3>3, <3>4 DEF Kinds
  <2>8. ASSUME walletMatchesSession, NEW kind \in Kinds, NEW amount \in 0 .. MAX_UINT128,
               Admits(kind, connected, amount)
        PROVE  Offers(kind) /\ (kind \in {"deposit", "withdrawFunding"} => amount \in Amounts(kind))
    <3>1. amount \in Nat /\ connected \in Wallets /\ connected # Nobody
      BY <2>4, <2>8, ConstantsAssumption
    <3>2. CASE kind = "acceptAsTenant"
      <4>1. /\ fundingOpen /\ isTenant /\ ~ tenantRecord.accepted /\ g.status = "FUNDING"
        BY <2>1, <2>3, <2>8, <3>1, <3>2 DEF Admits, TenantMayAccept, FundingOpen
      <4> QED BY <2>1, <2>6, <2>8, <3>2, <4>1 DEF Offers, canAcceptAsTenant, isFunding
    <3>3. CASE kind = "acceptAsRecipient"
      <4>1. /\ fundingOpen /\ isRecipient /\ ~ agreementRead.recipientAccepted
            /\ g.status = "FUNDING"
        BY <2>1, <2>3, <2>8, <3>1, <3>3 DEF Admits, RecipientMayAccept, FundingOpen, isRecipient
      <4> QED BY <2>1, <2>6, <2>8, <3>3, <4>1 DEF Offers, canAcceptAsRecipient, isFunding
    <3>4. CASE kind = "deposit"
      <4>1. MayDeposit(agreementId, connected, amount)
        BY <2>8, <3>4 DEF Admits
      <4>2. /\ fundingOpen /\ isTenant /\ tenantRecord.accepted /\ g.status = "FUNDING"
            /\ amount # 0 /\ amount <= remaining /\ remaining \in Int
        BY <2>1, <2>3, <2>5, <3>1, <4>1 DEF MayDeposit, Remaining, remaining, FundingOpen
      <4>3. remaining > 0 /\ amount \in 1 .. remaining
        BY <3>1, <4>2
      <4>4. Offers(kind)
        BY <2>1, <2>6, <2>8, <3>4, <4>2, <4>3 DEF Offers, canDeposit, isFunding
      <4> QED BY <3>4, <4>3, <4>4 DEF Amounts
    <3>5. CASE kind = "withdrawFunding"
      <4>1. MayWithdrawFunding(agreementId, connected, amount)
        BY <2>8, <3>5 DEF Admits
      <4>2. /\ isTenant /\ g.status = "FUNDING" /\ tenantRecord.fundedAmount \in Int
            /\ amount # 0 /\ amount <= tenantRecord.fundedAmount
        BY <2>1, <2>5, <3>1, <4>1 DEF MayWithdrawFunding
      <4>3. tenantRecord.fundedAmount > 0 /\ amount \in 1 .. tenantRecord.fundedAmount
        BY <3>1, <4>2
      <4>4. Offers(kind)
        BY <2>1, <2>6, <2>8, <3>5, <4>2, <4>3 DEF Offers, canWithdrawFunding, isFunding
      <4> QED BY <3>5, <4>3, <4>4 DEF Amounts
    <3> QED BY <3>2, <3>3, <3>4, <3>5 DEF Kinds
  <2> QED BY <2>7, <2>8 DEF OfferedIffAccepted
<1> QED BY <1>1, PageInvAlways, PTL
=============================================================================
