------------------------------ MODULE SignedIn ------------------------------
(***************************************************************************)
(* What a page sees of the session (useAuth of app/AuthContext.tsx): the   *)
(* wallet that is signed in, if any.  It changes under a page at any       *)
(* moment: by a refresh, a sign-in or a sign-out in this tab, whose steps  *)
(* are those of Sessions.                                                  *)
(***************************************************************************)
CONSTANTS Users, Nobody

ASSUME SignedInAssumption == Nobody \notin Users

VARIABLE authWallet

SignedInInit == authWallet \in Users \cup {Nobody}

SwitchSession == authWallet' \in (Users \cup {Nobody}) \ {authWallet}
=============================================================================
