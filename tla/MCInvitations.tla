--------------------------- MODULE MCInvitations ---------------------------
(***************************************************************************)
(* An instance of InvitationPages for TLC: a draft's creator, its one      *)
(* invited participant, and what either of them signs in as in two tabs.   *)
(***************************************************************************)
EXTENDS InvitationPages, TLC

CONSTANTS alice, rita

Recipient == {[wallet |-> rita, role |-> "RECIPIENT"]}

(* Requests, and tabs, are only told apart by what they do.                *)
Interchangeable == Permutations(Workers) \cup Permutations(Tabs)
=============================================================================
