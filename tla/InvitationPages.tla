-------------------------- MODULE InvitationPages --------------------------
(***************************************************************************)
(* The two pages that invitations are for: the panel of a draft's page     *)
(* that makes a link and shows it once (pages/DraftDetail.tsx), and the    *)
(* page that the link opens (pages/InvitationReview.tsx), in its creator's *)
(* browser and in tabs of another one, which may be signed in as anybody   *)
(* or nobody whenever it asks something.  Their requests are requests of   *)
(* Invitations, next to those of other clients: rotation and revocation    *)
(* have no page.                                                           *)
(*                                                                         *)
(* A tab knows what it was last told, at the moment of that answer and for *)
(* the session there was then; an answer is kept under the token alone and *)
(* shown again when the page is come back to.  An answer may be lost.      *)
(***************************************************************************)
EXTENDS Invitations

CONSTANTS
  Tabs, Panel, Others,   (* what a request may be asked by                 *)
  Nobody                 (* also: by a page that was left meanwhile        *)

ASSUME InvitationPagesAssumption ==
  /\ Nobody \notin Users \cup Tabs \cup {Panel, Others}
  /\ Others \notin Tabs \cup {Panel}
  /\ Panel \notin Tabs

VARIABLES
  asker,      (* worker -> whose request it is executing, or was           *)
  panel,      (* the creator's page                                        *)
  tabs,       (* the pages that a link opens                               *)
  links,      (* the links that were handed to somebody                    *)
  deleted     (* the draft was                                             *)

pageVars == <<asker, panel, tabs, links, deleted>>
invitationPagesVars == <<invitationVars, pageVars>>

(* The panel as it opens: to its creator, signed in, whose draft was read. *)
FreshPanel == [pending |-> FALSE, issued |-> 0]

NoLink == [token |-> 0, review |-> "unknown", asked |-> FALSE,
           claim |-> "idle", joinedAs |-> Nobody]

InvitationPagesInit ==
  /\ Init
  /\ asker = [w \in Workers |-> Others]
  /\ panel = FreshPanel
  /\ tabs = [t \in Tabs |-> NoLink]
  /\ links = {}
  /\ deleted = FALSE

-----------------------------------------------------------------------------
(* The server                                                              *)

(* Mutant of State: an invitation expires a tick early.                    *)
StateEarly(row) ==
  IF row.revoked THEN (IF row.supersededBy # 0 THEN "rotated" ELSE "revoked")
  ELSE IF row.used THEN "already_claimed"
  ELSE IF row.expiresAt <= now + 1 THEN "expired" ELSE "active"

(* invitation_state                                                        *)
State(row) ==
  IF row.revoked THEN (IF row.supersededBy # 0 THEN "rotated" ELSE "revoked")
  ELSE IF row.used THEN "already_claimed"
  ELSE IF row.expiresAt <= now THEN "expired" ELSE "active"

Sessions == Users \cup {Nobody}

(* review_invitation, for the session that asks.                           *)
Review(row, authWallet) ==
  IF State(row) # "active" THEN State(row)
  ELSE IF deleted THEN "invalid"
  ELSE IF authWallet = Nobody THEN "valid_disconnected"
  ELSE IF authWallet # row.slot.wallet THEN "wrong_wallet"
  ELSE "valid_wallet_matched"

(* The page is answered, or its answer is lost.  To a page an error is as  *)
(* if it had not asked, and it may ask again; other clients lose no link.  *)
Tells(w) ==
  LET committed == rows' # rows
  IN  /\ IF asker[w] = Panel
         THEN \E issued \in {panel.issued} \cup (DOMAIN rows' \ Ids) :
                panel' = [pending |-> FALSE, issued |-> issued]
         ELSE UNCHANGED panel
      /\ IF asker[w] \in Tabs
         THEN \E claim \in {"idle"} \cup (IF committed THEN {"success"} ELSE {}) :
                tabs' = [tabs EXCEPT ![asker[w]].claim = claim,
                                     ![asker[w]].joinedAs = IF claim = "idle" THEN Nobody ELSE @]
         ELSE UNCHANGED tabs
      /\ links' = IF asker[w] = Others THEN links \cup (DOMAIN rows' \ Ids) ELSE links
      /\ asker' = [asker EXCEPT ![w] = Others]

Finish(w) ==
  /\ WriteCreate(w) \/ WriteClaim(w) \/ WriteRotate(w) \/ WriteRevoke(w) \/ Abort(w)
  /\ Tells(w)
  /\ UNCHANGED deleted

OtherClient(w) ==
  /\ \/ \E slot \in Slots : ~ deleted /\ ReadCreate(w, Creator, slot)
     \/ \E i \in links : \E user \in Users : ReadClaim(w, user, i)
     \/ \E i \in Ids : ReadRotate(w, Creator, i) \/ ReadRevoke(w, Creator, i)
  /\ UNCHANGED pageVars

(* delete_draft, which leaves its invitations where they are.              *)
DeleteDraft ==
  /\ ~ deleted
  /\ deleted' = TRUE
  /\ UNCHANGED <<invitationVars, asker, panel, tabs, links>>

-----------------------------------------------------------------------------
(* The panel                                                               *)

(* A click on "Create invitation" that is not refused at once; the button  *)
(* is disabled while the request is pending.                               *)
CreateInvitation(w, slot) ==
  /\ ~ panel.pending
  /\ ~ deleted
  /\ ReadCreate(w, Creator, slot)
  /\ asker' = [asker EXCEPT ![w] = Panel]
  /\ panel' = [panel EXCEPT !.pending = TRUE]
  /\ UNCHANGED <<tabs, links, deleted>>

CopyLink ==
  /\ panel.issued \notin links \cup {0}
  /\ links' = links \cup {panel.issued}
  /\ UNCHANGED <<invitationVars, asker, panel, tabs, deleted>>

(* A request that `page' asked for is from now on as if `client' had.      *)
HandedOver(page, client) == [w \in Workers |-> IF asker[w] = page THEN client ELSE asker[w]]

(* The page is left or reloaded: an answer that is on its way is lost, and *)
(* so is a link that was shown and not copied.                             *)
LeavePanel ==
  /\ panel # FreshPanel
  /\ panel' = FreshPanel
  /\ asker' = HandedOver(Panel, Nobody)
  /\ UNCHANGED <<invitationVars, tabs, links, deleted>>

-----------------------------------------------------------------------------
(* A tab                                                                   *)

TabStep == UNCHANGED <<panel, links, deleted>>

(* The link is opened: a page load, which remembers nothing.               *)
OpenLink(t, i) ==
  /\ tabs' = [tabs EXCEPT ![t] = [NoLink EXCEPT !.token = i, !.asked = TRUE]]
  /\ asker' = HandedOver(t, Others)
  /\ UNCHANGED invitationVars /\ TabStep

(* The page is left for another one of the app - the login, the dashboard  *)
(* - and come back to: what is cached is shown, and asked for again.       *)
ComeBack(t) ==
  /\ tabs[t].token # 0
  /\ tabs' = [tabs EXCEPT ![t].asked = TRUE, ![t].claim = "idle", ![t].joinedAs = Nobody]
  /\ asker' = HandedOver(t, Others)
  /\ UNCHANGED invitationVars /\ TabStep

(* An unknown review is an error once it is no longer being asked for.     *)
ReviewArrives(t) ==
  /\ tabs[t].asked
  /\ \E session \in Sessions :
       \E review \in {Review(rows[tabs[t].token], session), "unknown"} :
         tabs' = [tabs EXCEPT ![t].review = review, ![t].asked = FALSE]
  /\ UNCHANGED <<invitationVars, asker>> /\ TabStep

(* A click on "Join", with the session that there is now, that is not      *)
(* refused at once.                                                        *)
Join(w, t, session) ==
  /\ tabs[t].review = "valid_wallet_matched"
  /\ tabs[t].claim = "idle"
  /\ ReadClaim(w, session, tabs[t].token)
  /\ asker' = [asker EXCEPT ![w] = t]
  /\ tabs' = [tabs EXCEPT ![t].claim = "pending", ![t].joinedAs = session]
  /\ TabStep

TERMINAL == {"invalid", "expired", "revoked", "rotated", "already_claimed"}

(* What is on the screen.                                                  *)
SaysDead(t) == tabs[t].review \in TERMINAL

SaysJoined(t) ==
  tabs[t].review = "valid_wallet_matched" /\ tabs[t].claim = "success"

InvitationPagesNext ==
  \/ \E w \in Workers :
       \/ Finish(w) \/ OtherClient(w)
       \/ \E slot \in Slots : CreateInvitation(w, slot)
       \/ \E t \in Tabs, session \in Sessions : Join(w, t, session)
  \/ DeleteDraft
  \/ CopyLink \/ LeavePanel
  \/ \E t \in Tabs :
       \/ \E i \in links : OpenLink(t, i)
       \/ ComeBack(t) \/ ReviewArrives(t)
  \/ Tick /\ UNCHANGED pageVars

InvitationPagesSpec == InvitationPagesInit /\ [][InvitationPagesNext]_invitationPagesVars

-----------------------------------------------------------------------------
(* A tab that says "Joined" is right: its own claim is the one that        *)
(* succeeded, and it was made in the session of the wallet that was        *)
(* invited - whoever was signed in when the page was last told that it may *)
(* offer to join, and whatever became of the invitation since then.        *)
JoinedIsTrue ==
  \A t \in Tabs : SaysJoined(t) =>
    /\ claimed[tabs[t].token] = 1
    /\ tabs[t].joinedAs = rows[tabs[t].token].slot.wallet

(* A tab that says that its link can no longer be used is right, however   *)
(* old its answer, and so is the advice that comes with it (TERMINAL): a   *)
(* link that was "replaced" has a newer one, one that was "revoked" has    *)
(* none, and one "already used" was claimed.                               *)
DeadLinksAreDead ==
  \A t \in Tabs : SaysDead(t) =>
    LET row == rows[tabs[t].token]
        says(status) == tabs[t].review = status
    IN  /\ IF says("invalid") THEN deleted ELSE ~ Active(row)
        /\ says("rotated") => row.supersededBy # 0
        /\ says("revoked") => row.supersededBy = 0
        /\ says("already_claimed") => claimed[tabs[t].token] = 1
=============================================================================
