------------------------------ MODULE Sessions ------------------------------
(***************************************************************************)
(* Signing in and out: the tabs of one browser (app/AuthContext.tsx,       *)
(* lib/api.ts, pages/Login.tsx) and the backend they share                 *)
(* (auth/service.py, auth/dependencies.py, api/v1/auth.py).                *)
(*                                                                         *)
(* The session cookie belongs to the browser, the CSRF value to a tab's    *)
(* memory; every /auth/me makes a new value and the ones before it         *)
(* useless.  A request carries the cookie and the value of the moment it   *)
(* is sent, is handled later, and its answer sets or deletes the cookie    *)
(* later still; between these steps everybody else goes on.  A page that   *)
(* is left, or gives up waiting, does not take its requests back: the      *)
(* backend handles them whenever they reach it, and nobody sees the answer.*)
(***************************************************************************)
EXTENDS Naturals, Sequences, FiniteSets, Bags

CONSTANTS
  Wallets, NoWallet,
  Tabs,
  Slots,        (* bound: the places of one tab's calls that go on at once;*)
                (* a call takes the first that is free                     *)
  Repeated,     (* bound: nonces whose verification may be sent twice      *)
  MaxNonces,    (* bound: nonces ever issued                               *)
  MaxLoads,     (* bound: loads of a page in some tab                      *)
  MaxAbandoned, (* bound: requests under way that nobody waits for         *)
  MaxSwitches   (* bound: switches of the connected account                *)

ASSUME SessionsAssumption ==
  /\ NoWallet \notin Wallets
  /\ Slots \cup {MaxNonces, MaxLoads, MaxAbandoned, MaxSwitches} \subseteq Nat

VARIABLES
  nonces,     (* auth_nonces, in order of issue                            *)
  sessions,   (* auth_sessions, in order of creation; 0 is no session      *)
  profiles,   (* wallets with a row in wallet_profiles                     *)
  cookie,     (* the browser's session cookie                              *)
  connected,  (* the connected wallet                                      *)
  tab,        (* each tab's AuthContext state and CSRF value               *)
  calls,      (* each tab's refreshes, sign-ins and sign-outs              *)
  abandoned,  (* requests that nobody waits for any more: a bag            *)
  loads,      (* bound: loads and switches so far                          *)
  switches,
  crossed     (* history: tabs whose session or value has been touched     *)
              (* since their last /auth/me, by another tab or an abandoned *)
              (* request, or that had two calls under way at once          *)

backend == <<nonces, sessions, profiles>>
browser == <<cookie, connected, switches>>
sessionsVars == <<nonces, sessions, profiles, cookie, connected, switches, tab, calls, abandoned, loads,
                  crossed>>


(* A CSRF value is known by its session and its number.                    *)
NoToken == [session |-> 0, number |-> 0]
Token(s) == [session |-> s, number |-> sessions[s].csrf]

Closed == [status |-> "closed", wallet |-> NoWallet, csrf |-> NoToken]

NoCall == [kind |-> "none", at |-> "none", as |-> NoWallet, nonce |-> 0, cookie |-> 0,
           csrf |-> NoToken, answer |-> 0, known |-> FALSE, then |-> "stop"]

(* api: a request with the cookie and the value that there are now.        *)
Sends(t, kind, as) ==
  [NoCall EXCEPT !.kind = kind, !.at = "sent", !.as = as, !.cookie = cookie, !.csrf = tab[t].csrf]

SessionsInit ==
  /\ nonces = << >> /\ sessions = << >> /\ profiles = {}
  /\ cookie = 0 /\ connected \in Wallets /\ switches = 0
  /\ tab = [t \in Tabs |-> Closed]
  /\ calls = [t \in Tabs |-> [slot \in Slots |-> NoCall]]
  /\ abandoned = EmptyBag /\ loads = 0 /\ crossed = {}

-----------------------------------------------------------------------------
(* The backend                                                             *)

Live(s) == s # 0 /\ sessions[s].state = "live"

(* require_csrf: a live session's cookie, and its current value.           *)
CsrfValid(s, token) == Live(s) /\ token = Token(s)

(* The call in this place of the tab becomes this one.                     *)
Turns(t, slot, call) == calls' = [calls EXCEPT ![t][slot] = call]

(* None of the tab's other calls has to do with the cookie or the value.   *)
Alone(t, slot) ==
  \A other \in Slots \ {slot} : calls[t][other].kind \notin {"me", "confirm", "logout"}

(* A handler first reads what it goes by: whether the session is live      *)
(* (/auth/me), the CSRF value right (/auth/logout), the profile there      *)
(* (/auth/verify).  It commits later, whatever has been committed since.   *)
Reads(call) ==
  [call EXCEPT !.at = "read",
               !.known = CASE call.kind \in {"me", "confirm"} -> Live(call.cookie)
                           [] call.kind = "logout" -> CsrfValid(call.cookie, call.csrf)
                           [] call.kind = "verify" -> call.as \in profiles]

Handle(t, slot) ==
  LET call == calls[t][slot]
  IN  /\ call.at = "sent"
      /\ Turns(t, slot, Reads(call))
      /\ UNCHANGED <<backend, browser, tab, abandoned, loads, crossed>>

(* /auth/me: a fresh value for the session.                                *)
Rotates(call) ==
  IF call.known
  THEN sessions' = [sessions EXCEPT ![call.cookie].csrf = @ + 1]
  ELSE UNCHANGED sessions

(* The value is the tab's alone again, if the session is the browser's and *)
(* nobody has signed it out meanwhile.                                     *)
CommitMe(t, slot) ==
  LET call == calls[t][slot]
      s == call.cookie
      unaware == IF Alone(t, slot) /\ s = cookie /\ sessions[s].state # "revoked" THEN {t} ELSE {}
  IN  /\ call.kind \in {"me", "confirm"} /\ call.at = "read"
      /\ Rotates(call)
      /\ IF call.known
         THEN /\ Turns(t, slot, [call EXCEPT !.at = "answered", !.known = FALSE, !.answer = s,
                                   !.csrf = [session |-> s, number |-> sessions[s].csrf + 1]])
              /\ crossed' = Tabs \ unaware
         ELSE /\ Turns(t, slot, [call EXCEPT !.at = "answered", !.answer = 0])
              /\ UNCHANGED crossed
      /\ UNCHANGED <<nonces, profiles, browser, tab, abandoned, loads>>

(* Mutant of Consumable: the guard is left out of the UPDATE.              *)
ConsumableAgain(n) == nonces[n].state # "expired"

(* /auth/verify consumes the nonce with one guarded UPDATE, which looks at *)
(* what is committed by now, with the session and the first profile in the *)
(* same transaction: a profile that is there after all fails it.           *)
Consumable(n) == nonces[n].state = "open"

Verifies(call) == Consumable(call.nonce) /\ (call.known \/ call.as \notin profiles)

Buys(call) ==
  IF Verifies(call)
  THEN /\ nonces' = [nonces EXCEPT ![call.nonce].state = "used"]
       /\ sessions' = Append(sessions, [wallet |-> call.as, nonce |-> call.nonce,
                                        csrf |-> 1, state |-> "live"])
       /\ profiles' = profiles \cup {call.as}
  ELSE UNCHANGED backend

CommitVerify(t, slot) ==
  LET call == calls[t][slot]
  IN  /\ call.kind = "verify" /\ call.at = "read"
      /\ Buys(call)
      /\ Turns(t, slot, [call EXCEPT !.at = "answered", !.known = FALSE,
                                     !.answer = IF Verifies(call) THEN Len(sessions) + 1 ELSE 0])
      /\ UNCHANGED <<browser, tab, abandoned, loads, crossed>>

(* Mutant of Revokes: the cookie is deleted and the session lives on.      *)
RevokesNothing(call) == UNCHANGED sessions

(* /auth/logout: the session is revoked.                                   *)
Revokes(call) ==
  IF call.known
  THEN sessions' = [sessions EXCEPT ![call.cookie].state = "revoked"]
  ELSE UNCHANGED sessions

CommitLogout(t, slot) ==
  LET call == calls[t][slot]
  IN  /\ call.kind = "logout" /\ call.at = "read"
      /\ Revokes(call)
      /\ Turns(t, slot, [call EXCEPT !.at = "answered", !.known = FALSE,
                                     !.answer = IF call.known THEN 1 ELSE 0])
      /\ crossed' = IF call.known THEN crossed \cup (Tabs \ {t}) ELSE crossed
      /\ UNCHANGED <<nonces, profiles, browser, tab, abandoned, loads>>

(* A request that nobody waits for is handled like any other; what it does *)
(* to a session comes unseen to every tab.                                 *)
Drop(call) == abandoned' = abandoned (-) SetToBag({call})

AbandonedRead(call) ==
  /\ call.at = "sent"
  /\ abandoned' = (abandoned (-) SetToBag({call})) (+) SetToBag({Reads(call)})
  /\ UNCHANGED <<backend, browser, tab, calls, loads, crossed>>

AbandonedCommit(call) ==
  /\ call.at = "read"
  /\ \/ call.kind \in {"me", "confirm"} /\ Rotates(call) /\ UNCHANGED <<nonces, profiles>>
     \/ call.kind = "logout" /\ Revokes(call) /\ UNCHANGED <<nonces, profiles>>
     \/ call.kind = "verify" /\ Buys(call)
  /\ Drop(call)
  /\ crossed' = IF call.kind # "verify" /\ call.known THEN Tabs ELSE crossed
  /\ UNCHANGED <<browser, tab, calls, loads>>

(* Bound: one of them expires.                                             *)
Expire ==
  /\ \A n \in DOMAIN nonces : nonces[n].state # "expired"
  /\ \A s \in DOMAIN sessions : sessions[s].state # "expired"
  /\ \/ \E n \in DOMAIN nonces :
          /\ nonces[n].state = "open"
          /\ nonces' = [nonces EXCEPT ![n].state = "expired"]
          /\ UNCHANGED sessions
     \/ \E s \in DOMAIN sessions :
          /\ Live(s)
          /\ sessions' = [sessions EXCEPT ![s].state = "expired"]
          /\ UNCHANGED nonces
  /\ UNCHANGED <<profiles, browser, tab, calls, abandoned, loads, crossed>>

-----------------------------------------------------------------------------
(* A tab                                                                   *)

(* The tab's state and its calls become these.                             *)
Becomes(t, state, slot, call) ==
  /\ tab' = [tab EXCEPT ![t] = state]
  /\ Turns(t, slot, call)

(* The calls in these places are given up.  Each may still be on its way   *)
(* to the backend, or lost.                                                *)
InTransit(call) == call.at \in {"sent", "read"}

GivesUp(t, slots) ==
  \E left \in SUBSET {slot \in slots : InTransit(calls[t][slot])} :
    /\ abandoned' = abandoned (+) [call \in {calls[t][slot] : slot \in left} |->
                                    Cardinality({slot \in left : calls[t][slot] = call})]
    /\ left = {} \/ BagCardinality(abandoned') <= MaxAbandoned

(* What a call's answer makes of the cookie.                               *)
CookieAfter(call) ==
  IF call.at = "answered" /\ call.answer # 0 /\ call.kind \in {"verify", "logout"}
  THEN IF call.kind = "verify" THEN call.answer ELSE 0
  ELSE cookie

(* The page is loaded, again perhaps, and refreshes: twice in a            *)
(* development build, whose StrictMode runs each first effect twice.  What *)
(* the old page was waiting for it gives up; an answer that is there       *)
(* already may have set or deleted the cookie and not been looked at.      *)
Load(t) ==
  /\ loads < MaxLoads
  /\ loads' = loads + 1
  /\ GivesUp(t, Slots)
  /\ cookie' \in {cookie} \cup {CookieAfter(calls[t][slot]) : slot \in Slots}
  /\ tab' = [tab EXCEPT ![t] = [Closed EXCEPT !.status = "loading"]]
  /\ LET me == [NoCall EXCEPT !.kind = "me", !.at = "sent", !.cookie = cookie']
         others == IF cookie' = cookie THEN crossed \ {t} ELSE Tabs \ {t}
     IN  \E first, again \in Slots :
           /\ \A slot \in Slots : first <= slot
           /\ calls' = [calls EXCEPT ![t] =
                          [slot \in Slots |-> IF slot \in {first, again} THEN me ELSE NoCall]]
           /\ crossed' = IF first = again THEN others ELSE others \cup {t}
  /\ UNCHANGED <<backend, connected, switches>>

(* refresh: an answer, or a failure, after which the value stays.          *)
RefreshArrives(t, slot) ==
  LET call == calls[t][slot]
      s == call.answer
      anonymous == [tab[t] EXCEPT !.wallet = NoWallet, !.status = "anonymous"]
  IN  /\ call.kind = "me"
      /\ \/ /\ call.at = "answered" /\ s # 0
            /\ Becomes(t, [status |-> "authenticated", wallet |-> sessions[s].wallet, csrf |-> call.csrf],
                       slot, NoCall)
            /\ UNCHANGED abandoned
         \/ /\ call.at = "answered" /\ s = 0
            /\ Becomes(t, [anonymous EXCEPT !.csrf = NoToken], slot, NoCall)
            /\ UNCHANGED abandoned
         \/ Becomes(t, anonymous, slot, NoCall) /\ GivesUp(t, {slot})
      /\ UNCHANGED <<backend, browser, loads, crossed>>

(* A wallet that is not the session's is nobody, as far as pages go.       *)
EffectiveStatus(t) ==
  IF tab[t].status = "authenticated" /\ connected # tab[t].wallet THEN "anonymous" ELSE tab[t].status

AccountMismatch(t) ==
  tab[t].status = "authenticated" /\ connected \notin {NoWallet, tab[t].wallet}

(* The sign-in button waits for a sign-in to end, but for no refresh or    *)
(* sign-out, and the sign-out buttons wait for nothing.                    *)
Begins(t, slot) ==
  /\ tab[t].status \notin {"closed", "signing", "verifying"}
  /\ calls[t][slot] = NoCall
  /\ \A other \in Slots : other < slot => calls[t][other] # NoCall

(* signIn up to the wallet's prompt: the nonce is issued for the wallet    *)
(* that was connected at the click.                                        *)
Prompts(t, slot, as) ==
  /\ Len(nonces) < MaxNonces
  /\ nonces' = Append(nonces, [wallet |-> as, state |-> "open"])
  /\ Turns(t, slot, [NoCall EXCEPT !.kind = "sign", !.as = as, !.nonce = Len(nonces) + 1])

SignIn(t, slot) ==
  /\ Begins(t, slot) /\ connected # NoWallet /\ EffectiveStatus(t) # "authenticated"
  /\ Prompts(t, slot, connected)
  /\ tab' = [tab EXCEPT ![t].status = "signing"]
  /\ UNCHANGED <<sessions, profiles, browser, abandoned, loads, crossed>>

(* The wallet signs; the request may reach the backend twice, and only one *)
(* answer is looked at.                                                    *)
Sign(t, slot) ==
  LET call == calls[t][slot]
      verify == [call EXCEPT !.kind = "verify", !.at = "sent"]
  IN  /\ call.kind = "sign" /\ connected = call.as
      /\ tab' = [tab EXCEPT ![t].status = "verifying"]
      /\ Turns(t, slot, verify)
      /\ \/ UNCHANGED abandoned
         \/ call.nonce \in Repeated /\ abandoned' = abandoned (+) SetToBag({verify})
      /\ UNCHANGED <<backend, browser, loads, crossed>>

(* The user rejects, another account signs, or a request fails, handled or *)
(* not.                                                                    *)
SignInFails(t, slot) ==
  LET call == calls[t][slot]
  IN  /\ call.kind \in {"sign", "verify", "confirm"}
      /\ \E status \in (IF call.kind = "sign" THEN {"anonymous", "error"} ELSE {"error"}) :
           Becomes(t, [tab[t] EXCEPT !.status = status], slot, NoCall)
      /\ GivesUp(t, {slot})
      /\ UNCHANGED <<backend, browser, loads, crossed>>

(* The answer to verify sets the cookie, and /auth/me is to confirm it.    *)
VerifyArrives(t, slot) ==
  LET call == calls[t][slot]
  IN  /\ call.kind = "verify" /\ call.at = "answered" /\ call.answer # 0
      /\ cookie' = CookieAfter(call)
      /\ Turns(t, slot, [Sends(t, "confirm", call.as) EXCEPT
                            !.cookie = call.answer, !.csrf = NoToken])
      /\ crossed' = IF Alone(t, slot) THEN crossed \cup (Tabs \ {t}) ELSE Tabs
      /\ UNCHANGED <<backend, connected, switches, tab, abandoned, loads>>

(* Mutant of Confirmed: the value of the verification, which /auth/me has  *)
(* just replaced.                                                          *)
ConfirmedWithFirstValue(call) ==
  [status |-> "authenticated", wallet |-> call.as, csrf |-> [session |-> call.answer, number |-> 1]]

(* The wallet that was verified, and the value that /auth/me returned.     *)
Confirmed(call) ==
  [status |-> "authenticated", wallet |-> call.as, csrf |-> call.csrf]

ConfirmArrives(t, slot) ==
  LET call == calls[t][slot]
  IN  /\ call.kind = "confirm" /\ call.at = "answered"
      /\ Becomes(t, IF call.answer # 0 THEN Confirmed(call) ELSE [tab[t] EXCEPT !.status = "error"],
                 slot, NoCall)
      /\ UNCHANGED <<backend, browser, abandoned, loads, crossed>>

(* signOut, or signInAsConnected, which signs in when it has signed out.   *)
SignOut(t, slot) ==
  /\ Begins(t, slot)
  /\ \/ /\ EffectiveStatus(t) = "authenticated"
        /\ Turns(t, slot, Sends(t, "logout", NoWallet))
     \/ /\ AccountMismatch(t)
        /\ Turns(t, slot, [Sends(t, "logout", connected) EXCEPT !.then = "signIn"])
  /\ crossed' = IF \E other \in Slots \ {slot} : calls[t][other].kind \in {"me", "confirm"}
                THEN crossed \cup {t} ELSE crossed
  /\ UNCHANGED <<backend, browser, tab, abandoned, loads>>

(* An answer that the session is revoked deletes the cookie, whichever it  *)
(* is by now; a refusal or a failure is ignored.  The tab forgets anyway.  *)
LogoutArrives(t, slot) ==
  LET call == calls[t][slot]
      forgotten == [Closed EXCEPT !.status = "anonymous"]
      done == call.at = "answered" /\ call.answer = 1
  IN  /\ call.kind = "logout"
      /\ cookie' = CookieAfter(call)
      /\ crossed' = IF done THEN crossed \cup (Tabs \ {t}) ELSE crossed
      /\ GivesUp(t, {slot})
      /\ IF call.then = "signIn"
         THEN /\ Prompts(t, slot, call.as)
              /\ tab' = [tab EXCEPT ![t] = [forgotten EXCEPT !.status = "signing"]]
         ELSE Becomes(t, forgotten, slot, NoCall) /\ UNCHANGED nonces
      /\ UNCHANGED <<sessions, profiles, connected, switches, loads>>

(* The user connects another account, or none.                             *)
Switch ==
  /\ switches < MaxSwitches /\ switches' = switches + 1
  /\ connected' \in (Wallets \cup {NoWallet}) \ {connected}
  /\ UNCHANGED <<backend, cookie, tab, calls, abandoned, loads, crossed>>

-----------------------------------------------------------------------------
SessionsNext ==
  \/ \E t \in Tabs :
       \/ Load(t)
       \/ \E slot \in Slots :
            \/ Handle(t, slot)
            \/ CommitMe(t, slot) \/ RefreshArrives(t, slot)
            \/ CommitVerify(t, slot) \/ VerifyArrives(t, slot) \/ ConfirmArrives(t, slot)
            \/ CommitLogout(t, slot) \/ LogoutArrives(t, slot)
            \/ SignIn(t, slot) \/ Sign(t, slot) \/ SignInFails(t, slot) \/ SignOut(t, slot)
  \/ \E call \in BagToSet(abandoned) : AbandonedRead(call) \/ AbandonedCommit(call)
  \/ Expire \/ Switch

SessionsSpec == SessionsInit /\ [][SessionsNext]_sessionsVars

-----------------------------------------------------------------------------
(* Properties                                                              *)

(* A nonce buys one session, however often and however close together it   *)
(* is presented; consuming it and creating the session stand or fall       *)
(* together, and an expired one buys none.                                 *)
NonceBuysOneSession ==
  \A n \in DOMAIN nonces :
    LET bought == {s \in DOMAIN sessions : sessions[s].nonce = n}
    IN  /\ Cardinality(bought) = IF nonces[n].state = "used" THEN 1 ELSE 0
        /\ \A s \in bought : sessions[s].wallet = nonces[n].wallet /\ sessions[s].wallet \in profiles

(* A tab that says it is signed in can write: the browser's cookie is a    *)
(* session of that wallet and the tab holds its current CSRF value, unless *)
(* the session has expired, another tab or an abandoned request has come   *)
(* between since the tab's own last /auth/me, or two of the tab's own      *)
(* calls went on at once.                                                  *)
SignedInCanWrite ==
  \A t \in Tabs \ crossed :
    tab[t].status = "authenticated" /\ (\A slot \in Slots : calls[t][slot] = NoCall) =>
      /\ cookie # 0 /\ sessions[cookie].state # "revoked"
      /\ sessions[cookie].wallet = tab[t].wallet
      /\ tab[t].csrf = Token(cookie)

(* The session that a sign-out is sent with is dead when its answer        *)
(* arrives, also if another sign-out goes on next to it, unless somebody   *)
(* or something else came between as above.                                *)
SignOutRevokesUnlessCrossed ==
  [][\A t \in Tabs \ crossed, slot \in Slots :
       LET call == calls[t][slot]
       IN  call.kind = "logout" /\ call.at = "answered" /\ calls'[t][slot] # call =>
             ~ Live(call.cookie)]_sessionsVars
=============================================================================
