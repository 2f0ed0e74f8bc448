---------------------------- MODULE Invitations ----------------------------
(***************************************************************************)
(* Invitations of the backend (services/invitations.py and                 *)
(* api/v1/invitations.py): links that let one wallet join a draft, created *)
(* per participant, claimed once, rotated, revoked, and expiring.          *)
(*                                                                         *)
(* As in Drafts, a request is a database transaction on a snapshot: what   *)
(* it reads and refuses is its Read action, the guarded UPDATE or INSERT   *)
(* with the commit is its Write action, and other requests write between.  *)
(* The guard of an UPDATE sees the row as it is then.  Refusals, failures  *)
(* and crashes before the commit leave nothing behind: Abort.              *)
(***************************************************************************)
EXTENDS Integers, Sequences, FiniteSets

CONSTANTS
  Workers,          (* the requests that may be in progress at once        *)
  Users,
  Creator,          (* the creator of the draft                            *)
  Slots,            (* [wallet, role]: the draft's participants            *)
  TTL,              (* INVITATION_TTL_SECONDS, in ticks                    *)
  MaxInvitations,   (* bound: no creation when there are so many rows      *)
  MaxRotated,       (* bound: no rotation of a row after this one          *)
  MaxTime           (* bound on the clock                                  *)

ASSUME InvitationsAssumption ==
  /\ Creator \in Users
  /\ Slots \subseteq [wallet : Users, role : {"TENANT", "RECIPIENT"}]
  /\ TTL \in Nat \ {0} /\ MaxInvitations \in Nat /\ MaxRotated \in Nat /\ MaxTime \in Nat

VARIABLES
  rows,      (* the table; an id and its token are the row's position      *)
  request,   (* worker -> the request it is executing                      *)
  now,
  claimed,   (* history: for every row, how often a claim succeeded        *)
  raced      (* history: the slots two creations worked on at once, or an  *)
             (* expired invitation of which was rotated                    *)

invitationVars == <<rows, request, now, claimed, raced>>

Idle == [kind |-> "idle"]

Ids == DOMAIN rows

Init ==
  /\ rows = <<>>
  /\ request = [w \in Workers |-> Idle]
  /\ now = 0
  /\ claimed = <<>>
  /\ raced = {}

(* `line' is no column: it numbers the creation that a row goes back to.   *)
NewRow(slot, line) ==
  [slot |-> slot, expiresAt |-> now + TTL, used |-> FALSE, revoked |-> FALSE,
   supersededBy |-> 0, line |-> line]

(* invitation_state = ACTIVE                                               *)
Active(row) == ~ row.revoked /\ ~ row.used /\ row.expiresAt > now

Reads(w, r) ==
  /\ request[w] = Idle
  /\ request' = [request EXCEPT ![w] = r]
  /\ UNCHANGED <<rows, now, claimed>>

Creating(slot) == \E w \in Workers : request[w] = [kind |-> "create", slot |-> slot]

Writes(w, kind) ==
  /\ request[w].kind = kind
  /\ request' = [request EXCEPT ![w] = Idle]
  /\ UNCHANGED now

-----------------------------------------------------------------------------
ActiveInvitations(slot) == {i \in Ids : rows[i].slot = slot /\ Active(rows[i])}

(* Mutant of NoneActive: an active invitation is no obstacle.              *)
NoneActiveUnchecked(slot) == TRUE

NoneActive(slot) == ActiveInvitations(slot) = {}

(* create_invitation: only the creator, only for a participant, and not    *)
(* while an active one exists (nor, by an error, while two do).            *)
ReadCreate(w, user, slot) ==
  /\ user = Creator
  /\ slot \in Slots
  /\ NoneActive(slot)
  /\ Len(rows) < MaxInvitations
  /\ Reads(w, [kind |-> "create", slot |-> slot])
  /\ raced' = IF Creating(slot) THEN raced \cup {slot} ELSE raced

WriteCreate(w) ==
  /\ Writes(w, "create")
  /\ Len(rows) < MaxInvitations
  /\ rows' = Append(rows, NewRow(request[w].slot, Len(rows) + 1))
  /\ claimed' = Append(claimed, 0)
  /\ UNCHANGED raced

(* claim_invitation, by a user that holds the token.                       *)
ReadClaim(w, user, i) ==
  /\ rows[i].slot.wallet = user
  /\ Active(rows[i])
  /\ Reads(w, [kind |-> "claim", id |-> i])
  /\ UNCHANGED raced

(* Mutant of Claimable: the state that was read is not looked at again.    *)
ClaimableAsRead(row) == TRUE

(* The WHERE clause of the claim.                                          *)
Claimable(row) == ~ row.used /\ ~ row.revoked /\ row.expiresAt > now

WriteClaim(w) ==
  LET i == request[w].id
  IN  /\ Writes(w, "claim")
      /\ Claimable(rows[i])
      /\ rows' = [rows EXCEPT ![i].used = TRUE]
      /\ claimed' = [claimed EXCEPT ![i] = @ + 1]
      /\ UNCHANGED raced

(* rotate_invitation reads the row for its creator alone: its state is     *)
(* left to the guard.                                                      *)
ReadRotate(w, user, i) ==
  /\ user = Creator
  /\ i <= MaxRotated
  /\ Reads(w, [kind |-> "rotate", id |-> i])
  /\ UNCHANGED raced

(* The WHERE clause of the rotation: nothing about expiry.                 *)
Rotatable(row) == ~ row.revoked /\ ~ row.used

WriteRotate(w) ==
  LET i == request[w].id
  IN  /\ Writes(w, "rotate")
      /\ Rotatable(rows[i])
      /\ rows' = Append([rows EXCEPT ![i].revoked = TRUE,
                                     ![i].supersededBy = Len(rows) + 1],
                        NewRow(rows[i].slot, rows[i].line))
      /\ claimed' = Append(claimed, 0)
      /\ raced' = IF Active(rows[i]) THEN raced ELSE raced \cup {rows[i].slot}

(* revoke_invitation; revoking a revoked one changes nothing.              *)
ReadRevoke(w, user, i) ==
  /\ user = Creator
  /\ ~ rows[i].revoked
  /\ Reads(w, [kind |-> "revoke", id |-> i])
  /\ UNCHANGED raced

WriteRevoke(w) ==
  LET i == request[w].id
  IN  /\ Writes(w, "revoke")
      /\ ~ rows[i].revoked
      /\ rows' = [rows EXCEPT ![i].revoked = TRUE]
      /\ UNCHANGED <<claimed, raced>>

Abort(w) ==
  /\ request[w] # Idle
  /\ request' = [request EXCEPT ![w] = Idle]
  /\ UNCHANGED <<rows, now, claimed, raced>>

Tick ==
  /\ now < MaxTime
  /\ now' = now + 1
  /\ UNCHANGED <<rows, request, claimed, raced>>

Next ==
  \/ \E w \in Workers :
       \/ \E user \in Users, slot \in Slots : ReadCreate(w, user, slot)
       \/ \E user \in Users, i \in Ids :
            ReadClaim(w, user, i) \/ ReadRotate(w, user, i) \/ ReadRevoke(w, user, i)
       \/ WriteCreate(w) \/ WriteClaim(w) \/ WriteRotate(w) \/ WriteRevoke(w)
       \/ Abort(w)
  \/ Tick

Spec == Init /\ [][Next]_invitationVars

-----------------------------------------------------------------------------
(* An invitation and its replacements, the rows of one line, are worth one *)
(* join: at most one of their tokens is usable, none once one was claimed, *)
(* and no claim succeeds twice.  So concurrent claims exclude each other   *)
(* (comment at 169-170), concurrent rotations have one winner and a used   *)
(* invitation is not rotated back to life (comment at 194-197), whichever  *)
(* of them read the row first.                                             *)
OneJoinPerLine ==
  \A i \in Ids :
    /\ claimed[i] <= 1
    /\ \A j \in Ids \ {i} :
         rows[i].line = rows[j].line =>
           ~ ((Active(rows[i]) \/ claimed[i] > 0) /\ (Active(rows[j]) \/ claimed[j] > 0))

(* Two usable tokens of one participant do not coexist, which is what the  *)
(* policy of create_invitation is for (126-127), as long as no two         *)
(* creations for that participant work at once, the second of which reads  *)
(* before the first has written, and no expired invitation is rotated:     *)
(* those are the two ways in which the code lets them.                     *)
UsableTokensDoNotCoexist ==
  \A slot \in Slots \ raced : Cardinality(ActiveInvitations(slot)) <= 1
=============================================================================
