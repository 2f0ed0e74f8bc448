--------------------------- MODULE SessionsProofs ---------------------------
(***************************************************************************)
(* Proofs about signing in and out: however many tabs, calls, wallets and  *)
(* sessions there are, a nonce buys one session, a tab that says that it   *)
(* is signed in can write, and a sign-out ends its session, as long as     *)
(* nobody and nothing has come between.                                    *)
(***************************************************************************)
EXTENDS Sessions, SequenceTheorems, FiniteSetTheorems, TLAPS

-----------------------------------------------------------------------------
(* Types                                                                   *)

Nonces == [wallet : Wallets, state : {"open", "used", "expired"}]

BackendSessions ==
  [wallet : Wallets, nonce : Nat, csrf : Nat, state : {"live", "revoked", "expired"}]

Tokens == [session : Nat, number : Nat]

TabStates ==
  [wallet : Wallets \cup {NoWallet}, csrf : Tokens,
   status : {"closed", "loading", "anonymous", "signing", "verifying", "authenticated", "error"}]

Calls ==
  [kind : {"none", "me", "sign", "verify", "confirm", "logout"},
   at : {"none", "sent", "read", "answered"},
   as : Wallets \cup {NoWallet}, nonce : Nat, cookie : Nat, csrf : Tokens, answer : Nat,
   known : BOOLEAN, then : {"stop", "signIn"}]

BackendTyped ==
  nonces \in Seq(Nonces) /\ sessions \in Seq(BackendSessions) /\ profiles \subseteq Wallets

Typed ==
  /\ BackendTyped
  /\ cookie \in Nat /\ cookie <= Len(sessions)
  /\ connected \in Wallets \cup {NoWallet}
  /\ tab \in [Tabs -> TabStates]
  /\ calls \in [Tabs -> [Slots -> Calls]]
  /\ DOMAIN abandoned \subseteq Calls

-----------------------------------------------------------------------------
(* The backend                                                             *)

(* A used nonce has bought the one session that names it, for the wallet   *)
(* that it was issued to.                                                  *)
NoncesInv ==
  /\ \A s \in 1..Len(sessions) :
       /\ sessions[s].nonce \in 1..Len(nonces)
       /\ nonces[sessions[s].nonce].state = "used"
       /\ nonces[sessions[s].nonce].wallet = sessions[s].wallet
       /\ sessions[s].wallet \in profiles
  /\ \A r, s \in 1..Len(sessions) : sessions[r].nonce = sessions[s].nonce => r = s
  /\ \A n \in 1..Len(nonces) :
       nonces[n].state = "used" => \E s \in 1..Len(sessions) : sessions[s].nonce = n

-----------------------------------------------------------------------------
(* The calls                                                               *)

(* A call that presents a nonce presents one that was issued to its        *)
(* wallet, and the session that it is answered with is that wallet's.      *)
Presents(call) ==
  call.kind \in {"sign", "verify"} =>
    /\ call.nonce \in 1..Len(nonces) /\ call.as = nonces[call.nonce].wallet
    /\ call.kind = "verify" /\ call.at = "answered" /\ call.answer # 0 =>
         sessions[call.answer].wallet = call.as

(* A call about a session asks for it with a cookie that was set once, and *)
(* is answered about it.                                                   *)
Asks(call) ==
  /\ call.kind \in {"me", "confirm", "logout"} /\ call.at = "read" /\ call.known => call.cookie # 0
  /\ call.kind = "confirm" => call.cookie # 0 /\ sessions[call.cookie].wallet = call.as
  /\ call.kind \in {"me", "confirm"} => call.answer \in {0, call.cookie}
  /\ call.kind = "logout" => call.answer \in {0, 1}

CallSound(call) ==
  /\ call.kind = "none" => call = NoCall
  /\ call.kind = "sign" => call.at = "none"
  /\ call.cookie <= Len(sessions)
  /\ call.kind # "logout" => call.answer <= Len(sessions)
  /\ call.then = "signIn" => call.kind = "logout" /\ call.as \in Wallets
  /\ Presents(call) /\ Asks(call)

CallsInv ==
  /\ \A t \in Tabs, x \in Slots : CallSound(calls[t][x])
  /\ \A call \in DOMAIN abandoned : CallSound(call)

-----------------------------------------------------------------------------
(* The tabs                                                                *)

(* The calls that have to do with the cookie or the value.                 *)
Concerns == {"me", "confirm", "logout"}

(* Only sign-outs go on next to each other.                                *)
Apart(e) ==
  \A x, y \in Slots :
    x # y /\ e[x].kind \in Concerns /\ e[y].kind \in Concerns => e[x].kind = "logout"

(* The browser's cookie is this session, which nobody has signed out, and  *)
(* this is its CSRF value.                                                 *)
Holds(s, token) ==
  /\ s # 0 /\ cookie = s
  /\ sessions[s].state # "revoked"
  /\ token = Token(s)

(* What the tab is about to learn is true, and a sign-out carries the      *)
(* value with which it is done, as long as there is something to do.       *)
Knows(call) ==
  /\ call.kind \in {"me", "confirm"} /\ call.at = "answered" /\ call.answer # 0 =>
       Holds(call.answer, call.csrf)
  /\ call.kind = "logout" =>
       /\ call.at = "sent" => call.cookie # 0 /\ call.csrf = Token(call.cookie)
       /\ call.at = "read" /\ ~ call.known => ~ Live(call.cookie)
       /\ call.at = "answered" => ~ Live(call.cookie)

(* What a tab says of itself is true, when it waits for no /auth/me.       *)
Says(state, e) ==
  state.status = "authenticated" /\ (\A x \in Slots : e[x].kind \notin {"me", "confirm"}) =>
    /\ cookie # 0 /\ state.csrf = Token(cookie) /\ sessions[cookie].wallet = state.wallet
    /\ (\A x \in Slots : e[x].kind # "logout") => sessions[cookie].state # "revoked"

TabSound(t) ==
  Apart(calls[t]) /\ (\A x \in Slots : Knows(calls[t][x])) /\ Says(tab[t], calls[t])

TabsInv == \A t \in Tabs \ crossed : TabSound(t)

SessionsInv == Typed /\ NoncesInv /\ CallsInv /\ TabsInv

-----------------------------------------------------------------------------
(* Facts about the data                                                    *)

LEMMA LengthsTyped ==
  ASSUME BackendTyped
  PROVE  /\ Len(nonces) \in Nat /\ Len(sessions) \in Nat
         /\ DOMAIN nonces = 1..Len(nonces) /\ DOMAIN sessions = 1..Len(sessions)
         /\ \A n \in 1..Len(nonces) : nonces[n] \in Nonces
         /\ \A s \in 1..Len(sessions) : sessions[s] \in BackendSessions
<1> QED
  BY LenProperties, ElementOfSeq DEF BackendTyped

LEMMA CallFields ==
  ASSUME NEW c \in Calls
  PROVE  /\ c.as \in Wallets \cup {NoWallet} /\ c.nonce \in Nat /\ c.cookie \in Nat
         /\ c.csrf \in Tokens /\ c.answer \in Nat /\ c.known \in BOOLEAN
<1> QED
  BY DEF Calls

LEMMA TabStateFields ==
  ASSUME NEW s \in TabStates
  PROVE  s.wallet \in Wallets \cup {NoWallet} /\ s.csrf \in Tokens
<1> QED
  BY DEF TabStates

LEMMA NoCallTyped ==
  /\ NoToken \in Tokens /\ NoCall \in Calls
  /\ NoCall.kind = "none" /\ NoCall.at = "none" /\ NoCall.cookie = 0 /\ NoCall.answer = 0
  /\ NoCall.then = "stop"
<1>1. NoToken \in Tokens
  BY DEF NoToken, Tokens
<1> QED
  BY <1>1 DEF NoCall, Calls

LEMMA NoCallSound ==
  ASSUME BackendTyped
  PROVE  CallSound(NoCall) /\ Knows(NoCall)
<1> QED
  BY LengthsTyped, NoCallTyped DEF CallSound, Presents, Asks, Knows

LEMMA TurnedIs ==
  ASSUME Typed, NEW t \in Tabs, NEW slot \in Slots, NEW d \in Calls, Turns(t, slot, d)
  PROVE  /\ calls'[t][slot] = d
         /\ \A x \in Slots \ {slot} : calls'[t][x] = calls[t][x]
         /\ \A u \in Tabs \ {t} : calls'[u] = calls[u]
         /\ calls' \in [Tabs -> [Slots -> Calls]]
<1> QED
  BY DEF Typed, Turns

LEMMA TabTurned ==
  ASSUME Typed, NEW t \in Tabs, NEW s \in TabStates, tab' = [tab EXCEPT ![t] = s]
  PROVE  /\ tab'[t] = s /\ \A u \in Tabs \ {t} : tab'[u] = tab[u]
         /\ tab' \in [Tabs -> TabStates]
<1> QED
  BY DEF Typed

-----------------------------------------------------------------------------
(* What no step undoes                                                     *)

Grown ==
  /\ Len(nonces) <= Len(nonces') /\ Len(sessions) <= Len(sessions')
  /\ \A n \in 1..Len(nonces) : nonces'[n].wallet = nonces[n].wallet
  /\ \A s \in 1..Len(sessions) : sessions'[s].wallet = sessions[s].wallet

(* No value is replaced, and no session is brought back to life ...        *)
Steady ==
  \A s \in 1..Len(sessions) :
    /\ sessions'[s].csrf = sessions[s].csrf
    /\ sessions'[s].state = "live" => sessions[s].state = "live"

(* ... nor signed out, and the cookie stays: nobody comes between.         *)
Undisturbed ==
  /\ cookie' = cookie /\ Steady
  /\ \A s \in 1..Len(sessions) :
       sessions'[s].state = "revoked" => sessions[s].state = "revoked"

LEMMA BackendRests ==
  ASSUME Typed, NoncesInv, UNCHANGED backend
  PROVE  /\ Grown /\ BackendTyped' /\ NoncesInv' /\ Steady
         /\ cookie' = cookie => Undisturbed
<1>1. nonces' = nonces /\ sessions' = sessions /\ profiles' = profiles
  BY DEF backend
<1>2. Len(nonces) \in Nat /\ Len(sessions) \in Nat
  BY LengthsTyped DEF Typed
<1> QED
  BY <1>1, <1>2 DEF Grown, NoncesInv, Steady, Undisturbed, BackendTyped, Typed

(* What a call knows of nonces and sessions stays right.                   *)
LEMMA CallKept ==
  ASSUME BackendTyped, BackendTyped', Grown, NEW c \in Calls, CallSound(c)
  PROVE  CallSound(c)'
<1>1. /\ Len(nonces) \in Nat /\ Len(sessions) \in Nat
      /\ Len(nonces') \in Nat /\ Len(sessions') \in Nat
  BY LengthsTyped, LenProperties DEF BackendTyped
<1>2. c.cookie \in Nat /\ c.answer \in Nat /\ c.nonce \in Nat
  BY CallFields
<1>3. Len(nonces) <= Len(nonces') /\ Len(sessions) <= Len(sessions')
  BY DEF Grown
<1>4. c.cookie <= Len(sessions') /\ (c.kind # "logout" => c.answer <= Len(sessions'))
  BY <1>1, <1>2, <1>3 DEF CallSound
<1>5. \A s \in Nat : s # 0 /\ s <= Len(sessions) => sessions'[s].wallet = sessions[s].wallet
  BY <1>1 DEF Grown
<1>6. Presents(c)'
  <2>1. SUFFICES ASSUME c.kind \in {"sign", "verify"}
                 PROVE  Presents(c)'
    BY DEF Presents
  <2>2. c.nonce \in 1..Len(nonces) /\ c.as = nonces[c.nonce].wallet
    BY <2>1 DEF CallSound, Presents
  <2>3. c.nonce \in 1..Len(nonces') /\ nonces'[c.nonce].wallet = nonces[c.nonce].wallet
    BY <1>1, <1>3, <2>2 DEF Grown
  <2>4. c.answer <= Len(sessions)
    BY <2>1 DEF CallSound
  <2> QED
    BY <1>2, <1>5, <2>1, <2>2, <2>3, <2>4 DEF CallSound, Presents
<1>7. Asks(c)'
  BY <1>2, <1>5 DEF CallSound, Asks
<1> QED
  BY <1>4, <1>6, <1>7 DEF CallSound

(* What a tab knows stays right, as long as nobody comes between; and what *)
(* it knows of a sign-out also when others are signed out.                 *)
LEMMA KnowsKept ==
  ASSUME BackendTyped, NEW c \in Calls, CallSound(c), Knows(c), Steady,
         Undisturbed \/ c.kind \notin {"me", "confirm"}
  PROVE  Knows(c)'
<1>1. Len(sessions) \in Nat /\ c.cookie \in Nat /\ c.answer \in Nat
  BY LengthsTyped, CallFields
<1>2. ASSUME NEW s \in Nat, s # 0, s <= Len(sessions)
      PROVE  /\ sessions'[s].csrf = sessions[s].csrf
             /\ sessions'[s].state = "live" => sessions[s].state = "live"
             /\ Undisturbed => (sessions'[s].state = "revoked" => sessions[s].state = "revoked")
  <2>1. s \in 1..Len(sessions)
    BY <1>1, <1>2
  <2> QED
    BY <2>1 DEF Steady, Undisturbed
<1>3. c.cookie <= Len(sessions) /\ (c.kind # "logout" => c.answer <= Len(sessions))
  BY DEF CallSound
<1>4. ASSUME c.kind \in {"me", "confirm"}, c.at = "answered", c.answer # 0
      PROVE  Holds(c.answer, c.csrf)'
  <2>1. Holds(c.answer, c.csrf) /\ Undisturbed
    BY <1>4 DEF Knows
  <2> QED
    BY <1>1, <1>2, <1>3, <1>4, <2>1 DEF Holds, Token, Undisturbed
<1>5. ASSUME c.kind = "logout"
      PROVE  /\ c.at = "sent" => c.cookie # 0 /\ c.csrf = Token(c.cookie)'
             /\ c.at = "read" /\ ~ c.known => ~ Live(c.cookie)'
             /\ c.at = "answered" => ~ Live(c.cookie)'
  <2>1. Live(c.cookie)' => Live(c.cookie)
    BY <1>1, <1>2, <1>3 DEF Live
  <2>2. c.cookie # 0 => Token(c.cookie)' = Token(c.cookie)
    BY <1>1, <1>2, <1>3 DEF Token
  <2> QED
    BY <1>5, <2>1, <2>2 DEF Knows
<1> QED
  BY <1>4, <1>5 DEF Knows

(* So does what it says.                                                   *)
LEMMA SaysKept ==
  ASSUME Typed, Grown, Undisturbed, NEW state \in TabStates, NEW e, Says(state, e)
  PROVE  Says(state, e)'
<1>1. Len(sessions) \in Nat /\ cookie \in Nat /\ cookie <= Len(sessions) /\ cookie' = cookie
  BY LengthsTyped DEF Typed, Undisturbed
<1>2. cookie # 0 => cookie \in 1..Len(sessions)
  BY <1>1
<1> QED
  BY <1>1, <1>2 DEF Says, Token, Grown, Undisturbed, Steady

-----------------------------------------------------------------------------
(* Steps                                                                   *)

(* The other tabs stay as they are, and are crossed if they are disturbed. *)
OthersStay(t) ==
  \A u \in Tabs \ {t} :
    /\ calls'[u] = calls[u] /\ tab'[u] = tab[u]
    /\ u \notin crossed' => u \notin crossed /\ Undisturbed

(* Requests that nobody waits for come from somewhere.                     *)
AbandonedKept ==
  \A c \in DOMAIN abandoned' : c \in DOMAIN abandoned \/ (c \in Calls /\ CallSound(c)')

LEMMA TabKept ==
  ASSUME Typed, CallsInv, Grown, Undisturbed, NEW t \in Tabs, TabSound(t),
         tab'[t] = tab[t], calls'[t] = calls[t]
  PROVE  TabSound(t)'
<1>1. PICK e \in [Slots -> Calls] : e = calls[t]
  BY DEF Typed
<1>2. PICK s \in TabStates : s = tab[t]
  BY DEF Typed
<1>3. /\ Apart(e) /\ \A x \in Slots : Knows(e[x])
      /\ Says(s, e)
  BY <1>1, <1>2 DEF TabSound
<1>4. \A x \in Slots : CallSound(e[x])
  BY <1>1 DEF CallsInv
<1>5. ASSUME NEW x \in Slots
      PROVE  Knows(e[x])'
  <2>1. PICK c \in Calls : c = e[x]
    OBVIOUS
  <2>2. CallSound(c) /\ Knows(c) /\ BackendTyped /\ Steady
    BY <1>3, <1>4, <2>1 DEF Typed, Undisturbed
  <2>3. Knows(c)'
    BY <2>2, KnowsKept
  <2> QED
    BY <2>1, <2>3
<1>6. Says(s, e)'
  BY <1>3, SaysKept
<1> QED
  BY <1>1, <1>2, <1>3, <1>5, <1>6 DEF TabSound

LEMMA CallsKept ==
  ASSUME Typed, Typed', CallsInv, Grown, AbandonedKept, NEW changed \in SUBSET Tabs,
         \A u \in Tabs \ changed : calls'[u] = calls[u],
         \A u \in changed, x \in Slots : CallSound(calls[u][x])'
  PROVE  CallsInv'
<1>1. BackendTyped /\ BackendTyped'
  BY DEF Typed
<1>2. ASSUME NEW u \in Tabs, NEW x \in Slots
      PROVE  CallSound(calls[u][x])'
  <2>1. CASE u \in changed
    BY <2>1
  <2>2. CASE u \notin changed
    <3>1. PICK c \in Calls : c = calls[u][x]
      BY DEF Typed
    <3>2. CallSound(c) /\ calls'[u][x] = c
      BY <2>2, <3>1 DEF CallsInv
    <3>3. CallSound(c)'
      BY <1>1, <3>2, CallKept
    <3> QED
      BY <3>2, <3>3
  <2> QED
    BY <2>1, <2>2
<1>3. ASSUME NEW c \in DOMAIN abandoned'
      PROVE  CallSound(c)'
  <2>1. CASE c \in DOMAIN abandoned
    <3>1. c \in Calls /\ CallSound(c)
      BY <2>1 DEF Typed, CallsInv
    <3> QED
      BY <1>1, <3>1, CallKept
  <2> QED
    BY <2>1 DEF AbandonedKept
<1> QED
  BY <1>2, <1>3 DEF CallsInv

(* A step of one tab: it keeps what it knows right, and the others are     *)
(* either crossed or as they were.                                         *)
LEMMA StepKeeps ==
  ASSUME SessionsInv, Typed', NoncesInv', Grown, AbandonedKept, NEW t \in Tabs, OthersStay(t),
         \A x \in Slots : CallSound(calls[t][x])',
         t \notin crossed' => TabSound(t)'
  PROVE  SessionsInv'
<1>1. Typed /\ CallsInv /\ TabsInv
  BY DEF SessionsInv
<1>2. CallsInv'
  <2>1. {t} \in SUBSET Tabs
    OBVIOUS
  <2>2. \A u \in Tabs \ {t} : calls'[u] = calls[u]
    BY DEF OthersStay
  <2>3. \A u \in {t}, x \in Slots : CallSound(calls[u][x])'
    OBVIOUS
  <2> QED
    BY ONLY <1>1, <2>1, <2>2, <2>3, Typed', Grown, AbandonedKept, CallsKept
<1>3. ASSUME NEW u \in Tabs, u \notin crossed', u # t
      PROVE  TabSound(u)'
  <2>1. /\ u \notin crossed /\ Undisturbed
        /\ calls'[u] = calls[u] /\ tab'[u] = tab[u]
    BY <1>3 DEF OthersStay
  <2>2. TabSound(u)
    BY <1>1, <2>1 DEF TabsInv
  <2> QED
    BY <1>1, <2>1, <2>2, TabKept
<1>4. TabsInv'
  BY <1>3 DEF TabsInv
<1> QED
  BY <1>2, <1>4 DEF SessionsInv

(* A step of nobody's: it crosses every tab or disturbs none.              *)
LEMMA OutsideStep ==
  ASSUME SessionsInv, Typed', NoncesInv', Grown, AbandonedKept, UNCHANGED <<calls, tab>>,
         crossed' = Tabs \/ (crossed' = crossed /\ Undisturbed)
  PROVE  SessionsInv'
<1>1. Typed /\ CallsInv /\ TabsInv
  BY DEF SessionsInv
<1>2. CallsInv'
  <2>1. {} \in SUBSET Tabs /\ \A u \in Tabs \ {} : calls'[u] = calls[u]
    OBVIOUS
  <2>2. \A u \in {}, x \in Slots : CallSound(calls[u][x])'
    OBVIOUS
  <2> QED
    BY ONLY <1>1, <2>1, <2>2, Typed', Grown, AbandonedKept, CallsKept
<1>3. ASSUME NEW u \in Tabs, u \notin crossed'
      PROVE  TabSound(u)'
  <2>1. u \notin crossed /\ Undisturbed /\ calls'[u] = calls[u] /\ tab'[u] = tab[u]
    BY <1>3
  <2>2. TabSound(u)
    BY <1>1, <2>1 DEF TabsInv
  <2> QED
    BY <1>1, <2>1, <2>2, TabKept
<1> QED
  BY <1>2, <1>3 DEF TabsInv, SessionsInv

(* One call becomes this one, and no other concern is next to it.          *)
Fits(t, slot, d) ==
  \A x \in Slots \ {slot} :
    d.kind \in Concerns /\ calls[t][x].kind \in Concerns =>
      d.kind = "logout" /\ calls[t][x].kind = "logout"

(* A step in which one call of one tab changes, and what the tab says of   *)
(* itself with it.  Its other calls know what they knew, as long as nobody *)
(* comes between or they are no calls of /auth/me.                         *)
LEMMA CallStep ==
  ASSUME SessionsInv, Typed', NoncesInv', Grown, AbandonedKept,
         NEW t \in Tabs, NEW slot \in Slots, NEW d \in Calls, Turns(t, slot, d), CallSound(d)',
         \A u \in Tabs \ {t} : /\ tab'[u] = tab[u]
                               /\ u \notin crossed' => u \notin crossed /\ Undisturbed,
         t \notin crossed' =>
           /\ t \notin crossed /\ Fits(t, slot, d) /\ Knows(d)' /\ Says(tab[t], calls[t])'
           /\ Steady
           /\ \/ Undisturbed
              \/ \A x \in Slots \ {slot} : calls[t][x].kind \notin {"me", "confirm"}
  PROVE  SessionsInv'
<1>1. Typed /\ CallsInv /\ TabsInv /\ BackendTyped /\ BackendTyped'
  BY DEF SessionsInv, Typed
<1>2. /\ calls'[t][slot] = d
      /\ \A x \in Slots \ {slot} : calls'[t][x] = calls[t][x]
      /\ \A u \in Tabs \ {t} : calls'[u] = calls[u]
  BY <1>1, TurnedIs
<1>3. OthersStay(t)
  BY <1>2 DEF OthersStay
<1>4. ASSUME NEW x \in Slots
      PROVE  CallSound(calls[t][x])'
  <2>1. CASE x = slot
    BY <1>2, <2>1
  <2>2. CASE x # slot
    <3>1. PICK c \in Calls : c = calls[t][x]
      BY <1>1 DEF Typed
    <3>2. CallSound(c) /\ calls'[t][x] = c
      BY <1>1, <1>2, <2>2, <3>1 DEF CallsInv
    <3>3. CallSound(c)'
      BY <1>1, <3>2, CallKept
    <3> QED
      BY <3>2, <3>3
  <2> QED
    BY <2>1, <2>2
<1>5. ASSUME t \notin crossed'
      PROVE  TabSound(t)'
  <2>1. TabSound(t) /\ Fits(t, slot, d)
    BY <1>1, <1>5 DEF TabsInv
  <2>2. Apart(calls[t])'
    BY <1>2, <2>1 DEF TabSound, Apart, Fits
  <2>3. ASSUME NEW x \in Slots
        PROVE  Knows(calls[t][x])'
    <3>1. CASE x = slot
      BY <1>2, <1>5, <3>1
    <3>2. CASE x # slot
      <4>1. PICK c \in Calls : c = calls[t][x]
        BY <1>1 DEF Typed
      <4>2. CallSound(c) /\ Knows(c) /\ calls'[t][x] = c
        BY <1>1, <1>2, <2>1, <3>2, <4>1 DEF CallsInv, TabSound
      <4>3. Steady /\ (Undisturbed \/ c.kind \notin {"me", "confirm"})
        BY <1>5, <3>2, <4>1
      <4>4. Knows(c)'
        BY <1>1, <4>2, <4>3, KnowsKept
      <4> QED
        BY <4>2, <4>4
    <3> QED
      BY <3>1, <3>2
  <2> QED
    BY <1>5, <2>2, <2>3 DEF TabSound
<1> QED
  BY <1>3, <1>4, <1>5, StepKeeps

(* A step in which the backend and the cookie have no part.                *)
LEMMA QuietStep ==
  ASSUME SessionsInv, UNCHANGED <<backend, cookie, connected>>, AbandonedKept,
         NEW t \in Tabs, NEW slot \in Slots, NEW d \in Calls, Turns(t, slot, d), CallSound(d),
         NEW s \in TabStates, tab' = [tab EXCEPT ![t] = s], crossed \subseteq crossed',
         t \notin crossed' => Fits(t, slot, d) /\ Knows(d) /\ Says(s, calls'[t])
  PROVE  SessionsInv'
<1>1. Typed /\ NoncesInv
  BY DEF SessionsInv
<1>2. Grown /\ BackendTyped' /\ NoncesInv' /\ Steady /\ Undisturbed
  BY <1>1, BackendRests
<1>3. /\ tab'[t] = s /\ \A u \in Tabs \ {t} : tab'[u] = tab[u]
      /\ tab' \in [Tabs -> TabStates]
  BY <1>1, TabTurned
<1>4. calls' \in [Tabs -> [Slots -> Calls]]
  BY <1>1, TurnedIs
<1>5. nonces' = nonces /\ sessions' = sessions /\ cookie' = cookie
  BY DEF backend
<1>6. Typed'
  BY <1>1, <1>2, <1>3, <1>4, <1>5 DEF Typed, AbandonedKept
<1>7. CallSound(d)'
  BY <1>1, <1>2, CallKept DEF Typed
<1>8. t \notin crossed' => Knows(d)' /\ Says(tab[t], calls[t])'
  BY <1>3, <1>5 DEF Knows, Holds, Token, Live, Says
<1>9. \A u \in Tabs \ {t} : /\ tab'[u] = tab[u]
                            /\ u \notin crossed' => u \notin crossed /\ Undisturbed
  BY <1>2, <1>3
<1>10. t \notin crossed' =>
           /\ t \notin crossed /\ Fits(t, slot, d) /\ Knows(d)' /\ Says(tab[t], calls[t])'
           /\ Steady /\ Undisturbed
  BY <1>2, <1>8
<1> QED
  BY ONLY SessionsInv, <1>2, <1>6, <1>7, <1>9, <1>10, AbandonedKept, t \in Tabs, slot \in Slots,
          d \in Calls, Turns(t, slot, d), CallStep

(* What is known of a tab and one of its calls.                            *)
LEMMA TabKnown ==
  ASSUME SessionsInv, NEW t \in Tabs, NEW slot \in Slots
  PROVE  /\ Typed /\ BackendTyped /\ NoncesInv
         /\ calls[t][slot] \in Calls /\ tab[t] \in TabStates
         /\ CallSound(calls[t][slot])
         /\ t \notin crossed => /\ Knows(calls[t][slot]) /\ Says(tab[t], calls[t])
                                /\ Apart(calls[t])
<1>1. Typed /\ NoncesInv /\ CallsInv /\ TabsInv
  BY DEF SessionsInv
<1>2. calls[t][slot] \in Calls /\ tab[t] \in TabStates /\ BackendTyped
  BY <1>1 DEF Typed
<1> QED
  BY <1>1, <1>2 DEF CallsInv, TabsInv, TabSound

(* A call that is the same concern as before is next to the same ones.     *)
LEMMA FitsStill ==
  ASSUME NEW t, NEW slot \in Slots, Apart(calls[t]), NEW d,
         d.kind \in Concerns => d.kind = calls[t][slot].kind
  PROVE  Fits(t, slot, d)
<1> QED
  BY DEF Apart, Fits

(* What a tab says is as true as before, if it waits for the same things.  *)
LEMMA SaysStill ==
  ASSUME Typed, NEW t \in Tabs, NEW slot \in Slots, NEW d \in Calls, Turns(t, slot, d), NEW state,
         Says(state, calls[t]),
         \/ d.kind = calls[t][slot].kind
         \/ d.kind \notin Concerns /\ calls[t][slot].kind \notin Concerns
  PROVE  Says(state, calls'[t])
<1>1. calls'[t][slot] = d /\ \A x \in Slots \ {slot} : calls'[t][x] = calls[t][x]
  BY TurnedIs
<1> QED
  BY <1>1 DEF Says, Concerns

-----------------------------------------------------------------------------
(* Requests that nobody waits for                                          *)

LEMMA BagPlus ==
  ASSUME NEW b, NEW more
  PROVE  DOMAIN (b (+) more) = DOMAIN b \cup DOMAIN more
<1> QED
  BY DEF (+)

LEMMA BagMinus ==
  ASSUME NEW b, NEW less
  PROVE  DOMAIN (b (-) less) \subseteq DOMAIN b
<1> QED
  BY DEF (-)

LEMMA BagOfOne ==
  ASSUME NEW c
  PROVE  DOMAIN SetToBag({c}) = {c}
<1> QED
  BY DEF SetToBag

LEMMA NothingAbandoned ==
  ASSUME abandoned' = abandoned
  PROVE  AbandonedKept
<1> QED
  BY DEF AbandonedKept

LEMMA AbandonedFrom ==
  ASSUME BackendTyped, BackendTyped', Grown,
         \A c \in DOMAIN abandoned' : c \in DOMAIN abandoned \/ (c \in Calls /\ CallSound(c))
  PROVE  AbandonedKept
<1> QED
  BY CallKept DEF AbandonedKept

LEMMA GivenUp ==
  ASSUME SessionsInv, BackendTyped', Grown, NEW t \in Tabs, NEW slots \in SUBSET Slots,
         GivesUp(t, slots)
  PROVE  AbandonedKept
<1>1. PICK left \in SUBSET {slot \in slots : InTransit(calls[t][slot])} :
        abandoned' = abandoned (+) [call \in {calls[t][slot] : slot \in left} |->
                                      Cardinality({slot \in left : calls[t][slot] = call})]
  BY DEF GivesUp
<1>2. DOMAIN abandoned' = DOMAIN abandoned \cup {calls[t][slot] : slot \in left}
  BY <1>1, BagPlus
<1>3. \A slot \in left : calls[t][slot] \in Calls /\ CallSound(calls[t][slot])
  BY TabKnown
<1>4. BackendTyped
  BY DEF SessionsInv, Typed
<1> QED
  BY <1>2, <1>3, <1>4, AbandonedFrom

LEMMA Dropped ==
  ASSUME NEW c, Drop(c)
  PROVE  AbandonedKept
<1> QED
  BY BagMinus DEF Drop, AbandonedKept

-----------------------------------------------------------------------------
(* What a handler reads                                                    *)

LEMMA ReadIs ==
  ASSUME NEW c \in Calls, CallSound(c), c.at = "sent", NEW d, d = Reads(c)
  PROVE  /\ d \in Calls /\ CallSound(d)
         /\ d.kind = c.kind /\ d.at = "read"
         /\ Knows(c) => Knows(d)
<1>1. c.kind \in {"me", "confirm", "logout", "verify"}
  BY NoCallTyped DEF CallSound, Calls
<1>2. PICK known \in BOOLEAN :
        /\ d = [c EXCEPT !.at = "read", !.known = known]
        /\ c.kind \in {"me", "confirm"} => known = Live(c.cookie)
        /\ c.kind = "logout" => known = CsrfValid(c.cookie, c.csrf)
  <2>1. CASE c.kind \in {"me", "confirm"}
    BY <2>1 DEF Reads, Live
  <2>2. CASE c.kind = "logout"
    BY <2>2 DEF Reads, CsrfValid, Live
  <2>3. CASE c.kind = "verify"
    <3>1. c.as \in profiles => d = [c EXCEPT !.at = "read", !.known = TRUE]
      BY <2>3 DEF Reads
    <3>2. ASSUME c.as \notin profiles
          PROVE  d = [c EXCEPT !.at = "read", !.known = FALSE]
      <4>1. (c.as \in profiles) = FALSE
        BY <3>2
      <4>2. d = [c EXCEPT !.at = "read", !.known = (c.as \in profiles)]
        BY <2>3 DEF Reads
      <4> QED
        BY <4>1, <4>2, Zenon
    <3> QED
      BY <2>3, <3>1, <3>2
  <2> QED
    BY <1>1, <2>1, <2>2, <2>3
<1>3. /\ d \in Calls /\ d.kind = c.kind /\ d.at = "read" /\ d.as = c.as /\ d.nonce = c.nonce
      /\ d.cookie = c.cookie /\ d.csrf = c.csrf /\ d.answer = c.answer /\ d.then = c.then
      /\ d.known = known
  BY <1>2 DEF Calls
<1>4. CallSound(d)
  <2>1. Presents(d)
    BY <1>3 DEF CallSound, Presents
  <2>2. Asks(d)
    BY <1>2, <1>3 DEF CallSound, Asks, CsrfValid, Live
  <2> QED
    BY <1>1, <1>3, <2>1, <2>2 DEF CallSound
<1>5. Knows(c) => Knows(d)
  BY <1>2, <1>3 DEF Knows, CsrfValid
<1> QED
  BY <1>3, <1>4, <1>5

LEMMA HandleKeeps ==
  ASSUME SessionsInv, NEW t \in Tabs, NEW slot \in Slots, Handle(t, slot)
  PROVE  SessionsInv'
<1>1. PICK c \in Calls, s \in TabStates : c = calls[t][slot] /\ s = tab[t]
  BY TabKnown
<1>2. PICK d : d = Reads(c)
  OBVIOUS
<1>3. /\ c.at = "sent" /\ Turns(t, slot, d) /\ UNCHANGED <<backend, cookie, connected>>
      /\ tab' = tab /\ abandoned' = abandoned /\ crossed' = crossed
  BY <1>1, <1>2 DEF Handle, browser
<1>4. /\ Typed /\ CallSound(c)
      /\ t \notin crossed => Knows(c) /\ Says(s, calls[t]) /\ Apart(calls[t])
  BY <1>1, TabKnown
<1>5. d \in Calls /\ CallSound(d) /\ d.kind = c.kind /\ (Knows(c) => Knows(d))
  BY <1>2, <1>3, <1>4, ReadIs
<1>6. tab' = [tab EXCEPT ![t] = s]
  BY <1>1, <1>3, <1>4 DEF Typed
<1>7. t \notin crossed' => Fits(t, slot, d) /\ Knows(d) /\ Says(s, calls'[t])
  BY <1>1, <1>3, <1>4, <1>5, FitsStill, SaysStill
<1> QED
  BY <1>3, <1>5, <1>6, <1>7, NothingAbandoned, QuietStep

LEMMA AbandonedReadKeeps ==
  ASSUME SessionsInv, NEW c \in BagToSet(abandoned), AbandonedRead(c)
  PROVE  SessionsInv'
<1>1. /\ Typed /\ NoncesInv /\ c \in Calls /\ CallSound(c) /\ c \in DOMAIN abandoned
  BY DEF SessionsInv, CallsInv, Typed, BagToSet
<1>2. PICK d : d = Reads(c)
  OBVIOUS
<1>3. /\ c.at = "sent" /\ UNCHANGED <<backend, cookie, connected, calls, tab, crossed>>
      /\ abandoned' = (abandoned (-) SetToBag({c})) (+) SetToBag({d})
  BY <1>2 DEF AbandonedRead, browser
<1>4. d \in Calls /\ CallSound(d)
  BY <1>1, <1>2, <1>3, ReadIs
<1>5. DOMAIN abandoned' \subseteq DOMAIN abandoned \cup {d}
  <2>1. PICK b : b = abandoned (-) SetToBag({c}) /\ DOMAIN b \subseteq DOMAIN abandoned
    BY BagMinus
  <2>2. DOMAIN abandoned' = DOMAIN b \cup DOMAIN SetToBag({d})
    BY <1>3, <2>1, BagPlus
  <2> QED
    BY <2>1, <2>2, BagOfOne
<1>6. Grown /\ BackendTyped' /\ NoncesInv' /\ Undisturbed
  BY <1>1, <1>3, BackendRests
<1>7. AbandonedKept
  BY <1>1, <1>4, <1>5, <1>6, AbandonedFrom DEF Typed
<1>8. Typed'
  BY <1>1, <1>3, <1>4, <1>5, <1>6 DEF Typed, backend
<1> QED
  BY ONLY SessionsInv, <1>3, <1>6, <1>7, <1>8, OutsideStep

-----------------------------------------------------------------------------
(* What the backend commits                                                *)

(* Neither a new value nor a new state changes whom a session belongs to   *)
(* or what it was bought with.                                             *)
LEMMA SessionChanged ==
  ASSUME Typed, NoncesInv, NEW s \in 1..Len(sessions), NEW f \in BackendSessions,
         f.wallet = sessions[s].wallet, f.nonce = sessions[s].nonce,
         sessions' = [sessions EXCEPT ![s] = f], UNCHANGED <<nonces, profiles>>
  PROVE  /\ BackendTyped' /\ Len(sessions') = Len(sessions) /\ Grown /\ NoncesInv'
         /\ \A u \in 1..Len(sessions) : sessions'[u] = IF u = s THEN f ELSE sessions[u]
<1>1. BackendTyped /\ sessions \in Seq(BackendSessions)
  BY DEF Typed, BackendTyped
<1>2. /\ sessions' \in Seq(BackendSessions) /\ Len(sessions') = Len(sessions)
      /\ \A u \in 1..Len(sessions) : sessions'[u] = IF u = s THEN f ELSE sessions[u]
  BY <1>1, ExceptSeq
<1>3. /\ nonces' = nonces /\ profiles' = profiles
      /\ \A u \in 1..Len(sessions) :
           sessions'[u].wallet = sessions[u].wallet /\ sessions'[u].nonce = sessions[u].nonce
  BY <1>2
<1>4. Len(nonces) \in Nat /\ Len(sessions) \in Nat
  BY <1>1, LengthsTyped
<1>5. Grown
  BY <1>2, <1>3, <1>4 DEF Grown
<1>6. NoncesInv'
  <2>1. \A u \in 1..Len(sessions') :
          /\ sessions'[u].nonce \in 1..Len(nonces') /\ nonces'[sessions'[u].nonce].state = "used"
          /\ nonces'[sessions'[u].nonce].wallet = sessions'[u].wallet
          /\ sessions'[u].wallet \in profiles'
    BY <1>2, <1>3 DEF NoncesInv
  <2>2. \A r, u \in 1..Len(sessions') : sessions'[r].nonce = sessions'[u].nonce => r = u
    BY <1>2, <1>3 DEF NoncesInv
  <2>3. \A n \in 1..Len(nonces') :
          nonces'[n].state = "used" => \E u \in 1..Len(sessions') : sessions'[u].nonce = n
    BY <1>2, <1>3 DEF NoncesInv
  <2> QED
    BY <2>1, <2>2, <2>3 DEF NoncesInv
<1> QED
  BY <1>1, <1>2, <1>3, <1>5, <1>6 DEF BackendTyped

(* A cookie that the backend has found live is a session.                  *)
LEMMA KnownIsSession ==
  ASSUME Typed, NEW c \in Calls, CallSound(c), c.kind \in Concerns, c.at = "read", c.known
  PROVE  c.cookie \in 1..Len(sessions)
<1>1. c.cookie \in Nat /\ c.cookie # 0 /\ c.cookie <= Len(sessions) /\ Len(sessions) \in Nat
  BY CallFields, LengthsTyped DEF CallSound, Asks, Concerns, Typed
<1> QED
  BY <1>1

LEMMA Rotated ==
  ASSUME Typed, NoncesInv, NEW c \in Calls, CallSound(c), c.kind \in {"me", "confirm"},
         c.at = "read", Rotates(c), UNCHANGED <<nonces, profiles>>
  PROVE  /\ BackendTyped' /\ Grown /\ NoncesInv' /\ Len(sessions') = Len(sessions)
         /\ ~ c.known => sessions' = sessions
         /\ c.known => /\ sessions'[c.cookie].csrf = sessions[c.cookie].csrf + 1
                       /\ sessions'[c.cookie].state = sessions[c.cookie].state
<1>1. CASE c.known
  <2>1. PICK s \in 1..Len(sessions) : s = c.cookie
    BY <1>1, KnownIsSession DEF Concerns
  <2>2. PICK e \in BackendSessions : e = sessions[s]
    BY LengthsTyped DEF Typed
  <2>3. PICK f : f = [e EXCEPT !.csrf = e.csrf + 1]
    OBVIOUS
  <2>4. /\ f \in BackendSessions /\ f.wallet = e.wallet /\ f.nonce = e.nonce /\ f.state = e.state
        /\ f.csrf = e.csrf + 1
    BY <2>3 DEF BackendSessions
  <2>5. sessions' = [sessions EXCEPT ![s] = f]
    BY <1>1, <2>1, <2>2, <2>3 DEF Rotates
  <2>6. /\ BackendTyped' /\ Len(sessions') = Len(sessions) /\ Grown /\ NoncesInv'
        /\ \A u \in 1..Len(sessions) : sessions'[u] = IF u = s THEN f ELSE sessions[u]
    BY <2>2, <2>4, <2>5, SessionChanged
  <2>7. sessions'[s].csrf = sessions[s].csrf + 1 /\ sessions'[s].state = sessions[s].state
    BY <2>2, <2>4, <2>6
  <2> QED
    BY <1>1, <2>1, <2>6, <2>7
<1>2. CASE ~ c.known
  BY <1>2, BackendRests DEF Rotates, backend
<1> QED
  BY <1>1, <1>2

(* A session comes into a state that is not live.                          *)
LEMMA Ended ==
  ASSUME Typed, NoncesInv, NEW s \in 1..Len(sessions), NEW state \in {"revoked", "expired"},
         sessions' = [sessions EXCEPT ![s].state = state], UNCHANGED <<nonces, profiles>>
  PROVE  /\ BackendTyped' /\ Grown /\ NoncesInv' /\ Len(sessions') = Len(sessions) /\ Steady
         /\ sessions'[s].state = state
         /\ \A u \in 1..Len(sessions) : u # s => sessions'[u] = sessions[u]
<1>1. PICK e \in BackendSessions : e = sessions[s]
  BY LengthsTyped DEF Typed
<1>2. PICK f : f = [e EXCEPT !.state = state]
  OBVIOUS
<1>3. /\ f \in BackendSessions /\ f.wallet = e.wallet /\ f.nonce = e.nonce /\ f.csrf = e.csrf
      /\ f.state = state
  BY <1>2 DEF BackendSessions
<1>4. sessions' = [sessions EXCEPT ![s] = f]
  BY <1>1, <1>2
<1>5. /\ BackendTyped' /\ Len(sessions') = Len(sessions) /\ Grown /\ NoncesInv'
      /\ \A u \in 1..Len(sessions) : sessions'[u] = IF u = s THEN f ELSE sessions[u]
  BY <1>1, <1>3, <1>4, SessionChanged
<1>6. Steady
  BY <1>1, <1>3, <1>5 DEF Steady
<1> QED
  BY <1>3, <1>5, <1>6

LEMMA Revoked ==
  ASSUME Typed, NoncesInv, NEW c \in Calls, CallSound(c), c.kind = "logout", c.at = "read",
         Revokes(c), UNCHANGED <<nonces, profiles>>
  PROVE  /\ BackendTyped' /\ Grown /\ NoncesInv' /\ Len(sessions') = Len(sessions) /\ Steady
         /\ ~ c.known => sessions' = sessions
         /\ c.known => sessions'[c.cookie].state = "revoked"
<1>1. CASE c.known
  <2>1. PICK s \in 1..Len(sessions) : s = c.cookie
    BY <1>1, KnownIsSession DEF Concerns
  <2>2. PICK state \in {"revoked", "expired"} : state = "revoked"
    OBVIOUS
  <2>3. sessions' = [sessions EXCEPT ![s].state = state]
    BY <1>1, <2>1, <2>2 DEF Revokes
  <2> QED
    BY <1>1, <2>1, <2>2, <2>3, Ended
<1>2. CASE ~ c.known
  BY <1>2, BackendRests DEF Revokes, backend
<1> QED
  BY <1>1, <1>2

(* A verification: the nonce is used and has bought the new session, which *)
(* nobody holds yet.                                                       *)
LEMMA SessionBought ==
  ASSUME Typed, NoncesInv, NEW n \in 1..Len(nonces), Consumable(n), NEW as \in Wallets,
         as = nonces[n].wallet,
         nonces' = [nonces EXCEPT ![n].state = "used"],
         sessions' = Append(sessions, [wallet |-> as, nonce |-> n, csrf |-> 1, state |-> "live"]),
         profiles' = profiles \cup {as}
  PROVE  /\ BackendTyped' /\ Grown /\ NoncesInv' /\ Steady /\ (cookie' = cookie => Undisturbed)
         /\ Len(sessions') = Len(sessions) + 1 /\ sessions'[Len(sessions) + 1].wallet = as
<1>1. PICK N \in Nat, S \in Nat : N = Len(nonces) /\ S = Len(sessions)
  BY LengthsTyped DEF Typed
<1>2. PICK x : x = [wallet |-> as, nonce |-> n, csrf |-> 1, state |-> "live"]
  OBVIOUS
<1>3. n \in Nat /\ n \in 1..N
  BY <1>1
<1>4. x \in BackendSessions /\ x.wallet = as /\ x.nonce = n
  BY <1>2, <1>3 DEF BackendSessions
<1>5. nonces \in Seq(Nonces) /\ sessions \in Seq(BackendSessions)
  BY DEF Typed, BackendTyped
<1>6. /\ sessions' \in Seq(BackendSessions) /\ Len(sessions') = S + 1 /\ sessions'[S + 1] = x
      /\ \A i \in 1..S : sessions'[i] = sessions[i]
  BY <1>1, <1>2, <1>4, <1>5, AppendProperties
<1>7. PICK e \in Nonces : e = nonces[n]
  BY LengthsTyped DEF Typed
<1>8. PICK w \in Wallets, old \in {"open", "used", "expired"} : e = [wallet |-> w, state |-> old]
  BY DEF Nonces
<1>9. PICK f : f = [e EXCEPT !.state = "used"]
  OBVIOUS
<1>10. f = [wallet |-> w, state |-> "used"]
  BY ONLY <1>8, <1>9
<1>11. f \in Nonces /\ f.state = "used" /\ f.wallet = as
  <2>1. e.wallet = w
    BY ONLY <1>8
  <2> QED
    BY <1>7, <1>10, <2>1 DEF Nonces
<1>12. nonces' = [nonces EXCEPT ![n] = f]
  BY <1>5, <1>7, <1>9
<1>13. /\ nonces' \in Seq(Nonces) /\ Len(nonces') = N
       /\ \A i \in 1..N : nonces'[i] = IF i = n THEN f ELSE nonces[i]
  BY ONLY <1>1, <1>5, <1>11, <1>12, n \in 1..Len(nonces), ExceptSeq
<1>14. \A i \in 1..(S + 1) : i \in 1..S \/ i = S + 1
  OBVIOUS
<1>15. S + 1 \in 1..(S + 1) /\ 1..S \subseteq 1..(S + 1) /\ S <= S + 1 /\ S + 1 \notin 1..S
  OBVIOUS
<1>16. Grown
  BY <1>1, <1>6, <1>11, <1>13, <1>15 DEF Grown
<1>17. Steady /\ (cookie' = cookie => Undisturbed)
  BY <1>1, <1>6 DEF Steady, Undisturbed
<1>18. nonces[n].state = "open"
  BY DEF Consumable
<1>19. \A s \in 1..S :
         /\ sessions[s].nonce \in 1..N /\ nonces[sessions[s].nonce].state = "used"
         /\ nonces[sessions[s].nonce].wallet = sessions[s].wallet
         /\ sessions[s].wallet \in profiles
  BY <1>1 DEF NoncesInv
<1>20. \A s \in 1..S : sessions[s].nonce # n
  BY <1>18, <1>19
<1>21. \A s \in 1..(S + 1) :
         /\ sessions'[s].nonce \in 1..N /\ nonces'[sessions'[s].nonce].state = "used"
         /\ nonces'[sessions'[s].nonce].wallet = sessions'[s].wallet
         /\ sessions'[s].wallet \in profiles'
  <2>1. ASSUME NEW s \in 1..S
        PROVE  /\ sessions'[s].nonce \in 1..N /\ nonces'[sessions'[s].nonce].state = "used"
               /\ nonces'[sessions'[s].nonce].wallet = sessions'[s].wallet
               /\ sessions'[s].wallet \in profiles'
    BY <1>6, <1>13, <1>19, <1>20
  <2>2. /\ sessions'[S + 1].nonce \in 1..N /\ nonces'[sessions'[S + 1].nonce].state = "used"
        /\ nonces'[sessions'[S + 1].nonce].wallet = sessions'[S + 1].wallet
        /\ sessions'[S + 1].wallet \in profiles'
    BY <1>3, <1>4, <1>6, <1>11, <1>13
  <2> QED
    BY <1>14, <2>1, <2>2
<1>22. \A u, s \in 1..(S + 1) : sessions'[u].nonce = sessions'[s].nonce => u = s
  <2>1. \A u, s \in 1..S : sessions[u].nonce = sessions[s].nonce => u = s
    BY <1>1 DEF NoncesInv
  <2> QED
    BY <1>4, <1>6, <1>14, <1>20, <2>1
<1>23. \A i \in 1..N :
         nonces'[i].state = "used" => \E s \in 1..(S + 1) : sessions'[s].nonce = i
  <2>1. ASSUME NEW i \in 1..N, nonces'[i].state = "used", i # n
        PROVE  \E s \in 1..(S + 1) : sessions'[s].nonce = i
    <3>1. nonces[i].state = "used"
      BY <1>13, <2>1
    <3>2. PICK s \in 1..S : sessions[s].nonce = i
      BY <1>1, <3>1 DEF NoncesInv
    <3> QED
      BY <1>6, <1>15, <3>2
  <2>2. sessions'[S + 1].nonce = n
    BY <1>4, <1>6
  <2> QED
    BY <1>15, <2>1, <2>2
<1>24. NoncesInv'
  BY <1>6, <1>13, <1>21, <1>22, <1>23 DEF NoncesInv
<1>25. profiles' \subseteq Wallets
  BY DEF Typed, BackendTyped
<1> QED
  BY <1>1, <1>4, <1>6, <1>13, <1>16, <1>17, <1>24, <1>25 DEF BackendTyped

LEMMA Bought ==
  ASSUME Typed, NoncesInv, NEW c \in Calls, CallSound(c), c.kind = "verify", Buys(c),
         cookie' = cookie
  PROVE  /\ BackendTyped' /\ Grown /\ NoncesInv' /\ Undisturbed
         /\ Verifies(c) => /\ Len(sessions') = Len(sessions) + 1
                           /\ sessions'[Len(sessions) + 1].wallet = c.as
         /\ ~ Verifies(c) => sessions' = sessions
<1>1. CASE Verifies(c)
  <2>1. c.nonce \in 1..Len(nonces) /\ c.as = nonces[c.nonce].wallet
    BY DEF CallSound, Presents
  <2>2. PICK n \in 1..Len(nonces) : n = c.nonce
    BY <2>1
  <2>3. nonces[n] \in Nonces
    BY LengthsTyped DEF Typed
  <2>4. PICK as \in Wallets : as = c.as
    BY <2>1, <2>2, <2>3 DEF Nonces
  <2>5. /\ Consumable(n) /\ as = nonces[n].wallet
        /\ nonces' = [nonces EXCEPT ![n].state = "used"]
        /\ sessions' = Append(sessions, [wallet |-> as, nonce |-> n, csrf |-> 1, state |-> "live"])
        /\ profiles' = profiles \cup {as}
    BY <1>1, <2>1, <2>2, <2>4 DEF Buys, Verifies
  <2> QED
    BY <1>1, <2>4, <2>5, SessionBought
<1>2. CASE ~ Verifies(c)
  BY <1>2, BackendRests DEF Buys, backend
<1> QED
  BY <1>1, <1>2

-----------------------------------------------------------------------------
(* What comes of a tab's own requests                                      *)

(* A step after which one call is the tab's only concern: what it knows is *)
(* all there is to know.                                                   *)
LEMMA AloneStep ==
  ASSUME SessionsInv, Typed', NoncesInv', Grown, AbandonedKept,
         NEW t \in Tabs, NEW slot \in Slots, NEW d \in Calls, Turns(t, slot, d), CallSound(d)',
         \A u \in Tabs \ {t} : /\ tab'[u] = tab[u]
                               /\ u \notin crossed' => u \notin crossed /\ Undisturbed,
         t \notin crossed' => Alone(t, slot) /\ Knows(d)' /\ Says(tab[t], calls[t])'
  PROVE  SessionsInv'
<1>1. Typed /\ CallsInv /\ BackendTyped /\ BackendTyped'
  BY DEF SessionsInv, Typed
<1>2. /\ calls'[t][slot] = d
      /\ \A x \in Slots \ {slot} : calls'[t][x] = calls[t][x]
      /\ \A u \in Tabs \ {t} : calls'[u] = calls[u]
  BY <1>1, TurnedIs
<1>3. OthersStay(t)
  BY <1>2 DEF OthersStay
<1>4. ASSUME NEW x \in Slots, x # slot
      PROVE  CallSound(calls[t][x])'
  <2>1. PICK c \in Calls : c = calls[t][x]
    BY <1>1 DEF Typed
  <2>2. CallSound(c) /\ calls'[t][x] = c
    BY <1>1, <1>2, <1>4, <2>1 DEF CallsInv
  <2>3. CallSound(c)'
    BY <1>1, <2>2, CallKept
  <2> QED
    BY <2>2, <2>3
<1>5. \A x \in Slots : CallSound(calls[t][x])'
  BY <1>2, <1>4
<1>6. ASSUME t \notin crossed'
      PROVE  TabSound(t)'
  <2>1. \A x \in Slots \ {slot} : calls'[t][x].kind \notin Concerns
    BY <1>2, <1>6 DEF Alone, Concerns
  <2>2. Apart(calls[t])'
    BY <2>1 DEF Apart
  <2>3. \A x \in Slots \ {slot} : Knows(calls[t][x])'
    BY <2>1 DEF Knows, Concerns
  <2>4. Knows(calls[t][slot])'
    BY <1>2, <1>6
  <2> QED
    BY <1>6, <2>2, <2>3, <2>4 DEF TabSound
<1> QED
  BY <1>3, <1>5, <1>6, StepKeeps

LEMMA CommitMeKeeps ==
  ASSUME SessionsInv, NEW t \in Tabs, NEW slot \in Slots, CommitMe(t, slot)
  PROVE  SessionsInv'
<1>1. PICK c \in Calls, s \in TabStates : c = calls[t][slot] /\ s = tab[t]
  BY TabKnown
<1>2. /\ Typed /\ NoncesInv /\ BackendTyped /\ CallSound(c)
      /\ t \notin crossed => Knows(c) /\ Says(s, calls[t]) /\ Apart(calls[t])
  BY <1>1, TabKnown
<1>3. /\ c.kind \in {"me", "confirm"} /\ c.at = "read" /\ Rotates(c)
      /\ nonces' = nonces /\ profiles' = profiles /\ cookie' = cookie /\ connected' = connected
      /\ tab' = tab /\ abandoned' = abandoned
  BY <1>1 DEF CommitMe, browser
<1>4. AbandonedKept
  BY <1>3, NothingAbandoned
<1>5. /\ BackendTyped' /\ Grown /\ NoncesInv' /\ Len(sessions') = Len(sessions)
      /\ ~ c.known => sessions' = sessions
      /\ c.known => /\ sessions'[c.cookie].csrf = sessions[c.cookie].csrf + 1
                    /\ sessions'[c.cookie].state = sessions[c.cookie].state
  BY <1>2, <1>3, Rotated
<1>6. CASE c.known
  <2>1. PICK n \in 1..Len(sessions) : n = c.cookie
    BY <1>2, <1>3, <1>6, KnownIsSession DEF Concerns
  <2>2. PICK number \in Nat : number = sessions[n].csrf + 1
    BY <1>2, LengthsTyped DEF BackendSessions
  <2>3. n \in Nat /\ n # 0
    BY <1>2, LengthsTyped
  <2>4. PICK token \in Tokens : token = [session |-> n, number |-> number]
    BY <2>3 DEF Tokens
  <2>5. PICK d : d = [c EXCEPT !.at = "answered", !.known = FALSE, !.answer = n, !.csrf = token]
    OBVIOUS
  <2>6. /\ d \in Calls /\ d.kind = c.kind /\ d.at = "answered" /\ d.answer = n /\ d.cookie = n
        /\ d.csrf = token /\ d.as = c.as /\ d.then = c.then
    BY <2>1, <2>3, <2>5 DEF Calls
  <2>7. /\ Turns(t, slot, d)
        /\ \A u \in Tabs \ {t} : u \in crossed'
        /\ t \notin crossed' => Alone(t, slot) /\ n = cookie /\ sessions[n].state # "revoked"
    BY <1>1, <1>6, <2>1, <2>2, <2>4, <2>5 DEF CommitMe
  <2>8. CallSound(d)
    BY <1>2, <1>3, <2>1, <2>3, <2>6 DEF CallSound, Presents, Asks
  <2>9. CallSound(d)'
    BY <1>2, <1>5, <2>6, <2>8, CallKept
  <2>10. calls'[t][slot] = d /\ calls' \in [Tabs -> [Slots -> Calls]]
    BY <1>2, <2>6, <2>7, TurnedIs
  <2>11. Typed'
    BY <1>2, <1>3, <1>5, <2>10 DEF Typed
  <2>12. t \notin crossed' => Knows(d)' /\ Says(tab[t], calls[t])'
    <3>1. Says(tab[t], calls[t])'
      BY <1>3, <2>6, <2>10 DEF Says
    <3>2. n = cookie /\ sessions[n].state # "revoked" => Knows(d)'
      BY <1>3, <1>5, <1>6, <2>1, <2>2, <2>3, <2>4, <2>6 DEF Knows, Holds, Token
    <3> QED
      BY <2>7, <3>1, <3>2
  <2>13. \A u \in Tabs \ {t} : /\ tab'[u] = tab[u]
                               /\ u \notin crossed' => u \notin crossed /\ Undisturbed
    BY <1>3, <2>7
  <2> QED
    BY <1>4, <1>5, <2>6, <2>7, <2>9, <2>11, <2>12, <2>13, AloneStep
<1>7. CASE ~ c.known
  <2>1. PICK d : d = [c EXCEPT !.at = "answered", !.answer = 0]
    OBVIOUS
  <2>2. /\ d \in Calls /\ d.kind = c.kind /\ d.at = "answered" /\ d.answer = 0 /\ d.cookie = c.cookie
        /\ d.as = c.as /\ d.then = c.then
    BY <2>1 DEF Calls
  <2>3. Turns(t, slot, d) /\ crossed' = crossed
    BY <1>1, <1>7, <2>1 DEF CommitMe
  <2>4. CallSound(d) /\ Knows(d)
    BY <1>2, <1>3, <2>2 DEF CallSound, Presents, Asks, Knows
  <2>5. UNCHANGED <<backend, cookie, connected>>
    BY <1>3, <1>5, <1>7 DEF backend
  <2>6. tab' = [tab EXCEPT ![t] = s]
    BY <1>1, <1>2, <1>3 DEF Typed
  <2>7. t \notin crossed' => Fits(t, slot, d) /\ Knows(d) /\ Says(s, calls'[t])
    BY <1>1, <1>2, <2>2, <2>3, <2>4, FitsStill, SaysStill
  <2>8. crossed \subseteq crossed'
    BY <2>3
  <2> QED
    BY <1>4, <2>2, <2>3, <2>4, <2>5, <2>6, <2>7, <2>8, QuietStep
<1> QED
  BY <1>6, <1>7

LEMMA CommitVerifyKeeps ==
  ASSUME SessionsInv, NEW t \in Tabs, NEW slot \in Slots, CommitVerify(t, slot)
  PROVE  SessionsInv'
<1>1. PICK c \in Calls, s \in TabStates : c = calls[t][slot] /\ s = tab[t]
  BY TabKnown
<1>2. /\ Typed /\ NoncesInv /\ BackendTyped /\ CallSound(c)
      /\ t \notin crossed => Knows(c) /\ Says(s, calls[t]) /\ Apart(calls[t])
  BY <1>1, TabKnown
<1>3. /\ c.kind = "verify" /\ c.at = "read" /\ Buys(c)
      /\ cookie' = cookie /\ connected' = connected
      /\ tab' = tab /\ abandoned' = abandoned /\ crossed' = crossed
  BY <1>1 DEF CommitVerify, browser
<1>4. AbandonedKept
  BY <1>3, NothingAbandoned
<1>5. /\ BackendTyped' /\ Grown /\ NoncesInv' /\ Undisturbed
      /\ Verifies(c) => /\ Len(sessions') = Len(sessions) + 1
                        /\ sessions'[Len(sessions) + 1].wallet = c.as
  BY <1>2, <1>3, Bought
<1>6. PICK n \in Nat : n = IF Verifies(c) THEN Len(sessions) + 1 ELSE 0
  BY <1>2, LengthsTyped
<1>7. PICK d : d = [c EXCEPT !.at = "answered", !.known = FALSE, !.answer = n]
  OBVIOUS
<1>8. /\ d \in Calls /\ d.kind = c.kind /\ d.at = "answered" /\ d.answer = n /\ d.cookie = c.cookie
      /\ d.as = c.as /\ d.then = c.then /\ d.nonce = c.nonce
  BY <1>7 DEF Calls
<1>9. Turns(t, slot, d)
  BY <1>1, <1>6, <1>7 DEF CommitVerify
<1>10. CallSound(d)'
  <2>1. CallSound(c)'
    BY <1>2, <1>5, CallKept
  <2>2. n <= Len(sessions')
    BY <1>2, <1>5, <1>6, LengthsTyped DEF BackendTyped, Grown
  <2>3. n # 0 => sessions'[n].wallet = c.as
    BY <1>5, <1>6
  <2>4. Presents(d)'
    BY <1>3, <1>8, <2>1, <2>3 DEF CallSound, Presents
  <2> QED
    BY <1>3, <1>8, <2>1, <2>2, <2>4 DEF CallSound, Asks
<1>11. calls'[t][slot] = d /\ calls' \in [Tabs -> [Slots -> Calls]]
  BY <1>2, <1>8, <1>9, TurnedIs
<1>12. Typed'
  <2>1. Len(sessions) \in Nat /\ Len(sessions') \in Nat /\ Len(sessions) <= Len(sessions')
    BY <1>2, <1>5, LengthsTyped, LenProperties DEF BackendTyped, Grown
  <2>2. cookie' \in Nat /\ cookie' <= Len(sessions')
    BY <1>2, <1>3, <2>1 DEF Typed
  <2> QED
    BY <1>2, <1>3, <1>5, <1>11, <2>2 DEF Typed
<1>13. ASSUME t \notin crossed'
       PROVE  /\ t \notin crossed /\ Fits(t, slot, d) /\ Knows(d)' /\ Says(tab[t], calls[t])'
              /\ Steady /\ Undisturbed
  <2>1. Fits(t, slot, d) /\ Knows(d)'
    BY <1>2, <1>3, <1>8, <1>13 DEF Fits, Concerns, Knows
  <2>2. PICK e : e = calls'[t]
    OBVIOUS
  <2>3. Says(s, e)
    BY <1>1, <1>2, <1>3, <1>8, <1>9, <1>13, <2>2, SaysStill
  <2>4. Says(s, e)'
    BY <1>2, <1>5, <2>3, SaysKept
  <2>5. Says(tab[t], calls[t])'
    BY <1>1, <1>3, <2>2, <2>4
  <2> QED
    BY <1>3, <1>5, <1>13, <2>1, <2>5 DEF Undisturbed
<1>14. \A u \in Tabs \ {t} : /\ tab'[u] = tab[u]
                             /\ u \notin crossed' => u \notin crossed /\ Undisturbed
  BY <1>3, <1>5
<1> QED
  BY <1>4, <1>5, <1>8, <1>9, <1>10, <1>12, <1>13, <1>14, CallStep

LEMMA CommitLogoutKeeps ==
  ASSUME SessionsInv, NEW t \in Tabs, NEW slot \in Slots, CommitLogout(t, slot)
  PROVE  SessionsInv'
<1>1. PICK c \in Calls, s \in TabStates : c = calls[t][slot] /\ s = tab[t]
  BY TabKnown
<1>2. /\ Typed /\ NoncesInv /\ BackendTyped /\ CallSound(c)
      /\ t \notin crossed => Knows(c) /\ Says(s, calls[t]) /\ Apart(calls[t])
  BY <1>1, TabKnown
<1>3. /\ c.kind = "logout" /\ c.at = "read" /\ Revokes(c)
      /\ nonces' = nonces /\ profiles' = profiles /\ cookie' = cookie /\ connected' = connected
      /\ tab' = tab /\ abandoned' = abandoned
      /\ crossed' = IF c.known THEN crossed \cup (Tabs \ {t}) ELSE crossed
  BY <1>1 DEF CommitLogout, browser
<1>4. AbandonedKept
  BY <1>3, NothingAbandoned
<1>5. /\ BackendTyped' /\ Grown /\ NoncesInv' /\ Len(sessions') = Len(sessions) /\ Steady
      /\ ~ c.known => sessions' = sessions
      /\ c.known => sessions'[c.cookie].state = "revoked"
  BY <1>2, <1>3, Revoked
<1>6. PICK n \in Nat : n = IF c.known THEN 1 ELSE 0
  OBVIOUS
<1>7. PICK d : d = [c EXCEPT !.at = "answered", !.known = FALSE, !.answer = n]
  OBVIOUS
<1>8. /\ d \in Calls /\ d.kind = "logout" /\ d.at = "answered" /\ d.answer = n
      /\ d.cookie = c.cookie /\ d.as = c.as /\ d.then = c.then
  BY <1>3, <1>7 DEF Calls
<1>9. Turns(t, slot, d)
  BY <1>1, <1>6, <1>7 DEF CommitLogout
<1>10. CallSound(d)'
  <2>1. CallSound(d)
    BY <1>2, <1>3, <1>6, <1>8 DEF CallSound, Presents, Asks
  <2> QED
    BY <1>2, <1>5, <1>8, <2>1, CallKept
<1>11. /\ calls'[t][slot] = d /\ calls' \in [Tabs -> [Slots -> Calls]]
       /\ \A x \in Slots \ {slot} : calls'[t][x] = calls[t][x]
  BY <1>2, <1>8, <1>9, TurnedIs
<1>12. Typed'
  BY <1>2, <1>3, <1>5, <1>11 DEF Typed
<1>13. ASSUME t \notin crossed'
       PROVE  /\ t \notin crossed /\ Fits(t, slot, d) /\ Knows(d)' /\ Says(tab[t], calls[t])'
              /\ Steady /\ \A x \in Slots \ {slot} : calls[t][x].kind \notin {"me", "confirm"}
  <2>1. t \notin crossed
    BY <1>3, <1>13
  <2>2. /\ Fits(t, slot, d)
        /\ \A x \in Slots \ {slot} : calls[t][x].kind \notin {"me", "confirm"}
    BY <1>1, <1>2, <1>3, <1>8, <2>1, FitsStill DEF Apart, Concerns
  <2>3. Knows(d)'
    <3>1. CASE c.known
      BY <1>5, <1>8, <3>1 DEF Knows, Live
    <3>2. CASE ~ c.known
      BY <1>2, <1>3, <1>5, <1>8, <2>1, <3>2 DEF Knows, Live
    <3> QED
      BY <3>1, <3>2
  <2>4. Says(tab[t], calls[t])'
    <3>1. SUFFICES ASSUME s.status = "authenticated",
                          \A x \in Slots : calls'[t][x].kind \notin {"me", "confirm"}
                   PROVE  /\ cookie # 0 /\ s.csrf = Token(cookie)'
                          /\ sessions'[cookie].wallet = s.wallet
      BY <1>1, <1>3, <1>8, <1>11 DEF Says, Token
    <3>2. \A x \in Slots : calls[t][x].kind \notin {"me", "confirm"}
      BY <1>1, <1>3, <1>11, <3>1
    <3>3. cookie # 0 /\ s.csrf = Token(cookie) /\ sessions[cookie].wallet = s.wallet
      BY <1>2, <2>1, <3>1, <3>2 DEF Says
    <3>4. cookie \in 1..Len(sessions)
      BY <1>2, <3>3, LengthsTyped DEF Typed
    <3> QED
      BY <1>3, <1>5, <3>3, <3>4 DEF Token, Steady, Grown
  <2> QED
    BY <1>5, <2>1, <2>2, <2>3, <2>4
<1>14. \A u \in Tabs \ {t} : /\ tab'[u] = tab[u]
                             /\ u \notin crossed' => u \notin crossed /\ Undisturbed
  <2>1. CASE c.known
    BY <1>3, <2>1
  <2>2. CASE ~ c.known
    BY <1>3, <1>5, <2>2 DEF Undisturbed
  <2> QED
    BY <2>1, <2>2
<1> QED
  BY <1>4, <1>5, <1>8, <1>9, <1>10, <1>12, <1>13, <1>14, CallStep

LEMMA AbandonedCommitKeeps ==
  ASSUME SessionsInv, NEW c \in BagToSet(abandoned), AbandonedCommit(c)
  PROVE  SessionsInv'
<1>1. Typed /\ NoncesInv /\ c \in Calls /\ CallSound(c)
  BY DEF SessionsInv, CallsInv, Typed, BagToSet
<1>2. /\ c.at = "read" /\ Drop(c) /\ UNCHANGED <<calls, tab>>
      /\ cookie' = cookie /\ connected' = connected
      /\ crossed' = IF c.kind # "verify" /\ c.known THEN Tabs ELSE crossed
  BY DEF AbandonedCommit, browser
<1>3. AbandonedKept /\ DOMAIN abandoned' \subseteq Calls
  BY <1>1, <1>2, BagMinus, Dropped DEF Drop, Typed
<1>4. /\ BackendTyped' /\ Grown /\ NoncesInv' /\ cookie' <= Len(sessions')
      /\ crossed' = Tabs \/ (crossed' = crossed /\ Undisturbed)
  <2>1. CASE c.kind \in {"me", "confirm"} /\ Rotates(c) /\ UNCHANGED <<nonces, profiles>>
    <3>1. /\ BackendTyped' /\ Grown /\ NoncesInv' /\ Len(sessions') = Len(sessions)
          /\ ~ c.known => sessions' = sessions
      BY <1>1, <1>2, <2>1, Rotated
    <3> QED
      BY <1>1, <1>2, <2>1, <3>1 DEF Typed, Undisturbed, Steady
  <2>2. CASE c.kind = "logout" /\ Revokes(c) /\ UNCHANGED <<nonces, profiles>>
    <3>1. /\ BackendTyped' /\ Grown /\ NoncesInv' /\ Len(sessions') = Len(sessions)
          /\ ~ c.known => sessions' = sessions
      BY <1>1, <1>2, <2>2, Revoked
    <3> QED
      BY <1>1, <1>2, <2>2, <3>1 DEF Typed, Undisturbed, Steady
  <2>3. CASE c.kind = "verify" /\ Buys(c)
    <3>1. BackendTyped' /\ Grown /\ NoncesInv' /\ Undisturbed
      BY <1>1, <1>2, <2>3, Bought
    <3>2. Len(sessions) \in Nat /\ Len(sessions') \in Nat /\ Len(sessions) <= Len(sessions')
      BY <1>1, <3>1, LengthsTyped, LenProperties DEF Typed, BackendTyped, Grown
    <3> QED
      BY <1>1, <1>2, <2>3, <3>1, <3>2 DEF Typed
  <2> QED
    BY <2>1, <2>2, <2>3 DEF AbandonedCommit
<1>5. Typed'
  BY <1>1, <1>2, <1>3, <1>4 DEF Typed
<1> QED
  BY ONLY SessionsInv, <1>2, <1>3, <1>4, <1>5, OutsideStep

(* Something expires: nothing that a tab knows is about that.              *)
LEMMA ExpireKeeps ==
  ASSUME SessionsInv, Expire
  PROVE  SessionsInv'
<1>1. Typed /\ NoncesInv /\ BackendTyped
  BY DEF SessionsInv, Typed
<1>2. /\ UNCHANGED <<calls, tab>> /\ crossed' = crossed /\ abandoned' = abandoned
      /\ profiles' = profiles /\ cookie' = cookie /\ connected' = connected
  BY DEF Expire, browser
<1>3. CASE /\ \E n \in DOMAIN nonces : /\ nonces[n].state = "open"
                                       /\ nonces' = [nonces EXCEPT ![n].state = "expired"]
           /\ sessions' = sessions
  <2>1. PICK n \in 1..Len(nonces) : /\ nonces[n].state = "open"
                                    /\ nonces' = [nonces EXCEPT ![n].state = "expired"]
    BY <1>1, <1>3, LengthsTyped
  <2>2. PICK e \in Nonces : e = nonces[n]
    BY <1>1, LengthsTyped
  <2>3. PICK f : f = [e EXCEPT !.state = "expired"]
    OBVIOUS
  <2>4. f \in Nonces /\ f.state = "expired" /\ f.wallet = e.wallet
    BY <2>3 DEF Nonces
  <2>5. nonces' = [nonces EXCEPT ![n] = f] /\ nonces \in Seq(Nonces)
    BY <1>1, <2>1, <2>2, <2>3 DEF BackendTyped
  <2>6. /\ nonces' \in Seq(Nonces) /\ Len(nonces') = Len(nonces)
        /\ \A i \in 1..Len(nonces) : nonces'[i] = IF i = n THEN f ELSE nonces[i]
    BY <2>4, <2>5, ExceptSeq
  <2>7. \A i \in 1..Len(nonces) : /\ nonces'[i].wallet = nonces[i].wallet
                                  /\ (nonces'[i].state = "used") <=> (nonces[i].state = "used")
    BY <2>1, <2>2, <2>4, <2>6
  <2>8. Len(nonces) \in Nat /\ Len(sessions) \in Nat
    BY <1>1, LengthsTyped
  <2>9. Grown /\ Undisturbed
    BY <1>2, <1>3, <2>6, <2>7, <2>8 DEF Grown, Undisturbed, Steady
  <2>10. NoncesInv'
    BY <1>1, <1>2, <1>3, <2>6, <2>7 DEF NoncesInv
  <2>11. Typed'
    BY <1>1, <1>2, <1>3, <2>6 DEF Typed, BackendTyped
  <2> QED
    BY SessionsInv, <1>2, <2>9, <2>10, <2>11, NothingAbandoned, OutsideStep
<1>4. CASE /\ \E s \in DOMAIN sessions : /\ Live(s)
                                         /\ sessions' = [sessions EXCEPT ![s].state = "expired"]
           /\ nonces' = nonces
  <2>1. PICK s \in 1..Len(sessions) : sessions' = [sessions EXCEPT ![s].state = "expired"]
    BY <1>1, <1>4, LengthsTyped
  <2>2. PICK state \in {"revoked", "expired"} : state = "expired"
    OBVIOUS
  <2>3. /\ BackendTyped' /\ Grown /\ NoncesInv' /\ Len(sessions') = Len(sessions) /\ Steady
        /\ sessions'[s].state = state
        /\ \A u \in 1..Len(sessions) : u # s => sessions'[u] = sessions[u]
    BY <1>1, <1>2, <1>4, <2>1, <2>2, Ended
  <2>4. Undisturbed
    BY <1>2, <2>2, <2>3 DEF Undisturbed
  <2>5. Typed'
    BY <1>1, <1>2, <2>3 DEF Typed
  <2> QED
    BY SessionsInv, <1>2, <2>3, <2>4, <2>5, NothingAbandoned, OutsideStep
<1> QED
  BY <1>3, <1>4 DEF Expire

LEMMA SwitchKeeps ==
  ASSUME SessionsInv, Switch
  PROVE  SessionsInv'
<1>1. Typed /\ NoncesInv
  BY DEF SessionsInv
<1>2. /\ UNCHANGED <<backend, calls, tab, crossed>> /\ cookie' = cookie /\ abandoned' = abandoned
      /\ connected' \in Wallets \cup {NoWallet}
  BY DEF Switch
<1>3. Grown /\ BackendTyped' /\ NoncesInv' /\ Undisturbed
  BY <1>1, <1>2, BackendRests
<1>4. Typed'
  BY <1>1, <1>2, <1>3 DEF Typed, backend
<1> QED
  BY SessionsInv, <1>2, <1>3, <1>4, NothingAbandoned, OutsideStep

-----------------------------------------------------------------------------
(* What a tab does                                                         *)

LEMMA CookieAfterIs ==
  ASSUME Typed, NEW c \in Calls, CallSound(c)
  PROVE  CookieAfter(c) \in Nat /\ CookieAfter(c) <= Len(sessions)
<1>1. Len(sessions) \in Nat /\ cookie \in Nat /\ cookie <= Len(sessions) /\ c.answer \in Nat
  BY CallFields, LengthsTyped DEF Typed
<1>2. c.kind = "verify" => c.answer <= Len(sessions)
  BY DEF CallSound
<1> QED
  BY <1>1, <1>2 DEF CookieAfter

LEMMA LoadKeeps ==
  ASSUME SessionsInv, NEW t \in Tabs, Load(t)
  PROVE  SessionsInv'
<1>1. Typed /\ NoncesInv /\ BackendTyped
  BY DEF SessionsInv, Typed
<1>2. /\ UNCHANGED <<backend, connected>> /\ GivesUp(t, Slots)
      /\ cookie' \in {cookie} \cup {CookieAfter(calls[t][slot]) : slot \in Slots}
      /\ tab' = [tab EXCEPT ![t] = [Closed EXCEPT !.status = "loading"]]
  BY DEF Load
<1>3. PICK n \in Nat : n = cookie' /\ n <= Len(sessions)
  <2>1. \A slot \in Slots : /\ CookieAfter(calls[t][slot]) \in Nat
                            /\ CookieAfter(calls[t][slot]) <= Len(sessions)
    BY <1>1, TabKnown, CookieAfterIs
  <2> QED
    BY <1>1, <1>2, <2>1 DEF Typed
<1>4. PICK me : me = [NoCall EXCEPT !.kind = "me", !.at = "sent", !.cookie = n]
  OBVIOUS
<1>5. /\ me \in Calls /\ me.kind = "me" /\ me.at = "sent" /\ me.cookie = n /\ me.answer = 0
      /\ me.then = "stop"
  BY <1>4, NoCallTyped DEF NoCall, Calls
<1>6. PICK first \in Slots, again \in Slots :
        /\ calls' = [calls EXCEPT ![t] =
                       [slot \in Slots |-> IF slot \in {first, again} THEN me ELSE NoCall]]
        /\ crossed' = IF first = again
                      THEN (IF cookie' = cookie THEN crossed \ {t} ELSE Tabs \ {t})
                      ELSE (IF cookie' = cookie THEN crossed \ {t} ELSE Tabs \ {t}) \cup {t}
  BY <1>3, <1>4 DEF Load
<1>7. PICK e : e = [slot \in Slots |-> IF slot \in {first, again} THEN me ELSE NoCall]
  OBVIOUS
<1>8. e \in [Slots -> Calls]
  BY <1>5, <1>7, NoCallTyped
<1>9. /\ calls'[t] = e /\ calls' \in [Tabs -> [Slots -> Calls]]
      /\ \A u \in Tabs \ {t} : calls'[u] = calls[u]
  BY <1>1, <1>6, <1>7, <1>8 DEF Typed
<1>10. PICK s : s = [Closed EXCEPT !.status = "loading"]
  OBVIOUS
<1>11. s \in TabStates /\ s.status = "loading"
  BY <1>10, NoCallTyped DEF Closed, TabStates
<1>12. /\ tab'[t] = s /\ tab' \in [Tabs -> TabStates]
       /\ \A u \in Tabs \ {t} : tab'[u] = tab[u]
  BY <1>1, <1>2, <1>10, <1>11, TabTurned
<1>13. Grown /\ BackendTyped' /\ NoncesInv' /\ (cookie' = cookie => Undisturbed)
  BY <1>1, <1>2, BackendRests
<1>14. AbandonedKept
  <2>1. Slots \in SUBSET Slots
    OBVIOUS
  <2> QED
    BY <1>2, <1>13, <2>1, GivenUp
<1>15. Typed'
  BY <1>1, <1>2, <1>3, <1>9, <1>12, <1>13, <1>14 DEF Typed, AbandonedKept, backend
<1>16. \A x \in Slots : CallSound(calls[t][x])'
  <2>1. CallSound(me)'
    BY <1>2, <1>3, <1>5 DEF CallSound, Presents, Asks, backend
  <2>2. CallSound(NoCall)'
    BY <1>13, NoCallTyped, LengthsTyped, LenProperties DEF CallSound, Presents, Asks, BackendTyped
  <2> QED
    BY <1>7, <1>9, <2>1, <2>2
<1>17. OthersStay(t)
  BY <1>6, <1>9, <1>12, <1>13 DEF OthersStay
<1>18. ASSUME t \notin crossed'
       PROVE  TabSound(t)'
  <2>1. first = again
    BY <1>6, <1>18
  <2>2. Apart(e)
    BY <1>7, <2>1, NoCallTyped DEF Apart, Concerns
  <2>3. \A x \in Slots : Knows(e[x])'
    BY <1>5, <1>7, NoCallTyped DEF Knows
  <2>4. Says(s, e)'
    BY <1>11 DEF Says
  <2> QED
    BY <1>9, <1>12, <2>2, <2>3, <2>4 DEF TabSound, Apart
<1> QED
  BY <1>13, <1>14, <1>15, <1>16, <1>17, <1>18, StepKeeps

(* A call is over, and the tab does not say more than before.              *)
LEMMA OverStep ==
  ASSUME SessionsInv, UNCHANGED <<backend, cookie, connected>>, crossed' = crossed,
         AbandonedKept, NEW t \in Tabs, NEW slot \in Slots, NEW s \in TabStates,
         tab' = [tab EXCEPT ![t] = s], Turns(t, slot, NoCall),
         t \notin crossed => Says(s, calls'[t])
  PROVE  SessionsInv'
<1>1. Typed /\ BackendTyped
  BY DEF SessionsInv, Typed
<1>2. NoCall \in Calls /\ CallSound(NoCall) /\ Knows(NoCall) /\ NoCall.kind \notin Concerns
  BY <1>1, NoCallTyped, NoCallSound DEF Concerns
<1>3. t \notin crossed' => Fits(t, slot, NoCall) /\ Knows(NoCall) /\ Says(s, calls'[t])
  BY <1>2 DEF Fits
<1> QED
  BY <1>2, <1>3, QuietStep

LEMMA RefreshArrivesKeeps ==
  ASSUME SessionsInv, NEW t \in Tabs, NEW slot \in Slots, RefreshArrives(t, slot)
  PROVE  SessionsInv'
<1>1. PICK c \in Calls, old \in TabStates : c = calls[t][slot] /\ old = tab[t]
  BY TabKnown
<1>2. /\ Typed /\ NoncesInv /\ BackendTyped /\ CallSound(c)
      /\ t \notin crossed => Knows(c) /\ Apart(calls[t])
  BY <1>1, TabKnown
<1>3. /\ UNCHANGED <<backend, cookie, connected>> /\ crossed' = crossed /\ c.kind = "me"
  BY <1>1 DEF RefreshArrives, browser
<1>4. PICK a : a = [old EXCEPT !.wallet = NoWallet, !.status = "anonymous"]
  OBVIOUS
<1>5. a \in TabStates /\ a.status = "anonymous"
  BY <1>4 DEF TabStates
<1>6. CASE c.at = "answered" /\ c.answer # 0 /\ abandoned' = abandoned
           /\ Becomes(t, [status |-> "authenticated", wallet |-> sessions[c.answer].wallet,
                          csrf |-> c.csrf], slot, NoCall)
  <2>1. c.answer \in 1..Len(sessions)
    BY <1>2, <1>3, <1>6, CallFields, LengthsTyped DEF CallSound
  <2>2. PICK w \in Wallets : w = sessions[c.answer].wallet
    BY <1>2, <2>1, LengthsTyped DEF BackendSessions
  <2>3. PICK s : s = [status |-> "authenticated", wallet |-> w, csrf |-> c.csrf]
    OBVIOUS
  <2>4. /\ s \in TabStates /\ s.status = "authenticated" /\ s.wallet = w /\ s.csrf = c.csrf
    BY <2>3, CallFields DEF TabStates
  <2>5. tab' = [tab EXCEPT ![t] = s] /\ Turns(t, slot, NoCall)
    BY <1>6, <2>2, <2>3 DEF Becomes
  <2>6. t \notin crossed => Says(s, calls'[t])
    <3>1. t \notin crossed => Holds(c.answer, c.csrf)
      BY <1>2, <1>3, <1>6 DEF Knows
    <3> QED
      BY <2>2, <2>4, <3>1 DEF Says, Holds
  <2> QED
    BY <1>3, <1>6, <2>4, <2>5, <2>6, NothingAbandoned, OverStep
<1>7. CASE Becomes(t, [a EXCEPT !.csrf = NoToken], slot, NoCall) /\ abandoned' = abandoned
  <2>1. PICK s : s = [a EXCEPT !.csrf = NoToken]
    OBVIOUS
  <2>2. s \in TabStates /\ s.status = "anonymous"
    BY <1>5, <2>1, NoCallTyped DEF TabStates
  <2>3. Says(s, calls'[t])
    BY <2>2 DEF Says
  <2> QED
    BY <1>3, <1>7, <2>1, <2>2, <2>3, NothingAbandoned, OverStep DEF Becomes
<1>8. CASE Becomes(t, a, slot, NoCall) /\ GivesUp(t, {slot})
  <2>1. AbandonedKept
    BY <1>2, <1>3, <1>8, BackendRests, GivenUp
  <2>2. Says(a, calls'[t])
    BY <1>5 DEF Says
  <2> QED
    BY <1>3, <1>5, <1>8, <2>1, <2>2, OverStep DEF Becomes
<1> QED
  BY <1>1, <1>4, <1>6, <1>7, <1>8 DEF RefreshArrives

LEMMA SignInFailsKeeps ==
  ASSUME SessionsInv, NEW t \in Tabs, NEW slot \in Slots, SignInFails(t, slot)
  PROVE  SessionsInv'
<1>1. PICK old \in TabStates : old = tab[t]
  BY TabKnown
<1>2. PICK status \in {"anonymous", "error"} :
        Becomes(t, [old EXCEPT !.status = status], slot, NoCall)
  BY <1>1 DEF SignInFails
<1>3. /\ UNCHANGED <<backend, cookie, connected>> /\ crossed' = crossed /\ GivesUp(t, {slot})
      /\ Typed /\ NoncesInv
  BY DEF SignInFails, browser, SessionsInv
<1>4. PICK s : s = [old EXCEPT !.status = status]
  OBVIOUS
<1>5. s \in TabStates /\ s.status = status
  BY <1>4 DEF TabStates
<1>6. AbandonedKept
  BY <1>3, BackendRests, GivenUp
<1>7. Says(s, calls'[t])
  BY <1>5 DEF Says
<1> QED
  BY <1>2, <1>3, <1>4, <1>5, <1>6, <1>7, OverStep DEF Becomes

LEMMA ConfirmArrivesKeeps ==
  ASSUME SessionsInv, NEW t \in Tabs, NEW slot \in Slots, ConfirmArrives(t, slot)
  PROVE  SessionsInv'
<1>1. PICK c \in Calls, old \in TabStates : c = calls[t][slot] /\ old = tab[t]
  BY TabKnown
<1>2. /\ Typed /\ CallSound(c) /\ (t \notin crossed => Knows(c))
  BY <1>1, TabKnown
<1>3. /\ UNCHANGED <<backend, cookie, connected>> /\ crossed' = crossed /\ abandoned' = abandoned
      /\ c.kind = "confirm" /\ c.at = "answered"
      /\ Becomes(t, IF c.answer # 0 THEN Confirmed(c) ELSE [old EXCEPT !.status = "error"],
                 slot, NoCall)
  BY <1>1 DEF ConfirmArrives, browser
<1>4. PICK s : s = IF c.answer # 0 THEN Confirmed(c) ELSE [old EXCEPT !.status = "error"]
  OBVIOUS
<1>5. CASE c.answer # 0
  <2>1. /\ s \in TabStates /\ s.status = "authenticated" /\ s.wallet = c.as /\ s.csrf = c.csrf
    BY <1>4, <1>5, CallFields DEF Confirmed, TabStates
  <2>2. sessions[c.answer].wallet = c.as
    BY <1>2, <1>3, <1>5 DEF CallSound, Asks
  <2>3. t \notin crossed => Says(s, calls'[t])
    BY <1>2, <1>3, <1>5, <2>1, <2>2 DEF Knows, Holds, Says
  <2> QED
    BY <1>3, <1>4, <2>1, <2>3, NothingAbandoned, OverStep DEF Becomes
<1>6. CASE c.answer = 0
  <2>1. s \in TabStates /\ s.status = "error"
    BY <1>4, <1>6 DEF TabStates
  <2>2. Says(s, calls'[t])
    BY <2>1 DEF Says
  <2> QED
    BY <1>3, <1>4, <2>1, <2>2, NothingAbandoned, OverStep DEF Becomes
<1> QED
  BY <1>5, <1>6

LEMMA SignKeeps ==
  ASSUME SessionsInv, NEW t \in Tabs, NEW slot \in Slots, Sign(t, slot)
  PROVE  SessionsInv'
<1>1. PICK c \in Calls, old \in TabStates : c = calls[t][slot] /\ old = tab[t]
  BY TabKnown
<1>2. /\ Typed /\ NoncesInv /\ BackendTyped /\ CallSound(c)
      /\ t \notin crossed => Apart(calls[t])
  BY <1>1, TabKnown
<1>3. PICK d : d = [c EXCEPT !.kind = "verify", !.at = "sent"]
  OBVIOUS
<1>4. /\ c.kind = "sign" /\ tab' = [tab EXCEPT ![t].status = "verifying"] /\ Turns(t, slot, d)
      /\ abandoned' = abandoned \/ abandoned' = abandoned (+) SetToBag({d})
      /\ UNCHANGED <<backend, cookie, connected>> /\ crossed' = crossed
  BY <1>1, <1>3 DEF Sign, browser
<1>5. /\ d \in Calls /\ d.kind = "verify" /\ d.at = "sent" /\ d.as = c.as /\ d.nonce = c.nonce
      /\ d.cookie = c.cookie /\ d.answer = c.answer /\ d.then = c.then
  BY <1>3 DEF Calls
<1>6. CallSound(d) /\ Knows(d)
  BY <1>2, <1>4, <1>5 DEF CallSound, Presents, Asks, Knows
<1>7. PICK s : s = [old EXCEPT !.status = "verifying"]
  OBVIOUS
<1>8. s \in TabStates /\ s.status = "verifying"
  BY <1>7 DEF TabStates
<1>9. tab' = [tab EXCEPT ![t] = s]
  BY <1>1, <1>4, <1>7
<1>10. AbandonedKept
  <2>1. DOMAIN abandoned' \subseteq DOMAIN abandoned \cup {d}
    <3>1. DOMAIN (abandoned (+) SetToBag({d})) = DOMAIN abandoned \cup DOMAIN SetToBag({d})
      BY BagPlus
    <3> QED
      BY <1>4, <3>1, BagOfOne
  <2> QED
    BY <1>2, <1>4, <1>5, <1>6, <2>1, BackendRests, AbandonedFrom
<1>11. Fits(t, slot, d) /\ Says(s, calls'[t])
  BY <1>5, <1>8 DEF Fits, Concerns, Says
<1>12. crossed \subseteq crossed'
  BY <1>4
<1> QED
  BY <1>4, <1>5, <1>6, <1>8, <1>9, <1>10, <1>11, <1>12, QuietStep

LEMMA NonceIssued ==
  ASSUME Typed, NoncesInv, NEW as \in Wallets, UNCHANGED <<sessions, profiles>>,
         nonces' = Append(nonces, [wallet |-> as, state |-> "open"])
  PROVE  /\ BackendTyped' /\ Grown /\ NoncesInv' /\ Steady /\ (cookie' = cookie => Undisturbed)
         /\ Len(nonces') = Len(nonces) + 1 /\ nonces'[Len(nonces) + 1].wallet = as
<1>1. PICK n, N : n = [wallet |-> as, state |-> "open"] /\ N = Len(nonces)
  OBVIOUS
<1>2. n \in Nonces /\ n.wallet = as /\ n.state = "open"
  BY <1>1 DEF Nonces
<1>3. nonces \in Seq(Nonces) /\ nonces' = Append(nonces, n) /\ N \in Nat
  BY <1>1, LengthsTyped DEF Typed, BackendTyped
<1>4. /\ nonces' \in Seq(Nonces) /\ Len(nonces') = N + 1 /\ nonces'[N + 1] = n
      /\ \A i \in 1..N : nonces'[i] = nonces[i]
  BY <1>1, <1>2, <1>3, AppendProperties
<1>5. 1..N \subseteq 1..(N + 1) /\ Len(sessions) \in Nat
  BY <1>3, LengthsTyped DEF Typed
<1>6. Grown
  BY <1>1, <1>3, <1>4, <1>5 DEF Grown
<1>7. NoncesInv'
  <2>1. \A s \in 1..Len(sessions) :
          /\ sessions[s].nonce \in 1..N /\ nonces[sessions[s].nonce].state = "used"
          /\ nonces[sessions[s].nonce].wallet = sessions[s].wallet
          /\ sessions[s].wallet \in profiles
    BY <1>1 DEF NoncesInv
  <2>2. \A s \in 1..Len(sessions) :
          /\ sessions[s].nonce \in 1..(N + 1) /\ nonces'[sessions[s].nonce].state = "used"
          /\ nonces'[sessions[s].nonce].wallet = sessions[s].wallet
          /\ sessions[s].wallet \in profiles
    BY <1>4, <1>5, <2>1
  <2>3. \A i \in 1..(N + 1) :
          nonces'[i].state = "used" => i \in 1..N /\ nonces[i].state = "used"
    <3>1. \A i \in 1..(N + 1) : i \in 1..N \/ i = N + 1
      BY <1>3
    <3> QED
      BY <1>2, <1>4, <3>1
  <2>4. \A i \in 1..(N + 1) :
          nonces'[i].state = "used" => \E s \in 1..Len(sessions) : sessions[s].nonce = i
    BY <1>1, <2>3 DEF NoncesInv
  <2> QED
    BY <1>4, <2>2, <2>4 DEF NoncesInv
<1>8. Steady /\ (cookie' = cookie => Undisturbed)
  BY DEF Steady, Undisturbed
<1> QED
  BY <1>1, <1>2, <1>4, <1>6, <1>7, <1>8 DEF Typed, BackendTyped

(* The wallet's prompt opens: the call becomes one that presents the new   *)
(* nonce, whatever it was, and the tab says that it is signing.  The other *)
(* calls are as good as they were, if the cookie stays or they are no      *)
(* calls of /auth/me.                                                      *)
LEMMA PromptsKeep ==
  ASSUME SessionsInv, NEW t \in Tabs, NEW slot \in Slots, NEW as \in Wallets,
         Prompts(t, slot, as), UNCHANGED <<sessions, profiles, connected>>,
         cookie' \in {0, cookie}, NEW s \in TabStates, s.status = "signing",
         tab' = [tab EXCEPT ![t] = s], GivesUp(t, {slot}) \/ abandoned' = abandoned,
         t \notin crossed' => t \notin crossed,
         \A u \in Tabs \ {t} : u \notin crossed' => u \notin crossed /\ cookie' = cookie,
         t \notin crossed' =>
           cookie' = cookie
             \/ \A x \in Slots \ {slot} : calls[t][x].kind \notin {"me", "confirm"}
  PROVE  SessionsInv'
<1>1. Typed /\ NoncesInv /\ BackendTyped
  BY TabKnown
<1>2. nonces' = Append(nonces, [wallet |-> as, state |-> "open"])
  BY DEF Prompts
<1>3. /\ BackendTyped' /\ Grown /\ NoncesInv' /\ Steady /\ (cookie' = cookie => Undisturbed)
      /\ Len(nonces') = Len(nonces) + 1 /\ nonces'[Len(nonces) + 1].wallet = as
  BY <1>1, <1>2, NonceIssued
<1>4. PICK n \in Nat : n = Len(nonces) + 1
  BY <1>1, LengthsTyped
<1>5. PICK d : d = [NoCall EXCEPT !.kind = "sign", !.as = as, !.nonce = n]
  OBVIOUS
<1>6. Turns(t, slot, d)
  BY <1>4, <1>5 DEF Prompts
<1>7. /\ d \in Calls /\ d.kind = "sign" /\ d.at = "none" /\ d.as = as /\ d.nonce = n
      /\ d.cookie = 0 /\ d.answer = 0 /\ d.then = "stop"
  BY <1>5, NoCallTyped DEF NoCall, Calls
<1>8. CallSound(d)'
  <2>1. n \in 1..Len(nonces') /\ 0 <= Len(sessions')
    BY <1>1, <1>3, <1>4, LengthsTyped
  <2> QED
    BY <1>3, <1>4, <1>7, <2>1 DEF CallSound, Presents, Asks
<1>9. AbandonedKept
  BY <1>3, GivenUp, NothingAbandoned
<1>10. /\ tab'[t] = s /\ tab' \in [Tabs -> TabStates]
       /\ \A u \in Tabs \ {t} : tab'[u] = tab[u]
  BY <1>1, TabTurned
<1>11. calls' \in [Tabs -> [Slots -> Calls]]
  BY <1>1, <1>6, <1>7, TurnedIs
<1>12. Typed'
  <2>1. cookie' \in Nat /\ cookie' <= Len(sessions')
    BY <1>1, LengthsTyped DEF Typed
  <2> QED
    BY <1>1, <1>3, <1>9, <1>10, <1>11, <2>1 DEF Typed, AbandonedKept
<1>13. Fits(t, slot, d) /\ Knows(d)' /\ Says(tab[t], calls[t])'
  BY <1>7, <1>10 DEF Fits, Concerns, Knows, Says
<1>14. \A u \in Tabs \ {t} : /\ tab'[u] = tab[u]
                             /\ u \notin crossed' => u \notin crossed /\ Undisturbed
  BY <1>3, <1>10
<1>15. t \notin crossed' =>
           /\ t \notin crossed /\ Fits(t, slot, d) /\ Knows(d)' /\ Says(tab[t], calls[t])'
           /\ Steady
           /\ \/ Undisturbed
              \/ \A x \in Slots \ {slot} : calls[t][x].kind \notin {"me", "confirm"}
  BY <1>3, <1>13
<1> QED
  BY <1>3, <1>6, <1>7, <1>8, <1>9, <1>12, <1>14, <1>15, CallStep

LEMMA SignInKeeps ==
  ASSUME SessionsInv, NEW t \in Tabs, NEW slot \in Slots, SignIn(t, slot)
  PROVE  SessionsInv'
<1>1. PICK old \in TabStates : old = tab[t]
  BY TabKnown
<1>2. PICK s : s = [old EXCEPT !.status = "signing"]
  OBVIOUS
<1>3. s \in TabStates /\ s.status = "signing"
  BY <1>2 DEF TabStates
<1>4. /\ Prompts(t, slot, connected) /\ connected # NoWallet
      /\ UNCHANGED <<sessions, profiles, connected>>
      /\ cookie' = cookie /\ abandoned' = abandoned /\ crossed' = crossed
      /\ tab' = [tab EXCEPT ![t] = s]
  BY <1>1, <1>2 DEF SignIn, browser
<1>5. PICK as \in Wallets : as = connected
  BY <1>4 DEF SessionsInv, Typed
<1> QED
  BY <1>3, <1>4, <1>5, PromptsKeep

LEMMA VerifyArrivesKeeps ==
  ASSUME SessionsInv, NEW t \in Tabs, NEW slot \in Slots, VerifyArrives(t, slot)
  PROVE  SessionsInv'
<1>1. PICK c \in Calls, old \in TabStates : c = calls[t][slot] /\ old = tab[t]
  BY TabKnown
<1>2. Typed /\ NoncesInv /\ BackendTyped /\ CallSound(c)
  BY <1>1, TabKnown
<1>3. /\ c.kind = "verify" /\ c.at = "answered" /\ c.answer # 0 /\ cookie' = c.answer
      /\ UNCHANGED <<backend, connected, tab>> /\ abandoned' = abandoned
      /\ crossed' = IF Alone(t, slot) THEN crossed \cup (Tabs \ {t}) ELSE Tabs
      /\ Turns(t, slot, [Sends(t, "confirm", c.as) EXCEPT !.cookie = c.answer, !.csrf = NoToken])
  BY <1>1 DEF VerifyArrives, CookieAfter
<1>4. PICK n \in 1..Len(sessions) : n = c.answer
  BY <1>2, <1>3, CallFields, LengthsTyped DEF CallSound
<1>5. n \in Nat /\ n # 0 /\ n <= Len(sessions) /\ sessions[n].wallet = c.as
  BY <1>2, <1>3, <1>4, LengthsTyped DEF CallSound, Presents
<1>6. PICK d : d = [NoCall EXCEPT !.kind = "confirm", !.at = "sent", !.as = c.as,
                                  !.cookie = n, !.csrf = NoToken]
  OBVIOUS
<1>7. Turns(t, slot, d)
  BY <1>3, <1>4, <1>6 DEF Sends, NoCall
<1>8. /\ d \in Calls /\ d.kind = "confirm" /\ d.at = "sent" /\ d.as = c.as /\ d.cookie = n
      /\ d.answer = 0 /\ d.then = "stop"
  BY <1>5, <1>6, CallFields, NoCallTyped DEF NoCall, Calls
<1>9. Grown /\ BackendTyped' /\ NoncesInv'
  BY <1>2, <1>3, BackendRests
<1>10. CallSound(d)'
  <2>1. CallSound(d)
    BY <1>5, <1>8 DEF CallSound, Presents, Asks
  <2> QED
    BY <1>2, <1>8, <1>9, <2>1, CallKept
<1>11. calls'[t][slot] = d /\ calls' \in [Tabs -> [Slots -> Calls]]
  BY <1>2, <1>7, <1>8, TurnedIs
<1>12. Typed'
  BY <1>2, <1>3, <1>4, <1>5, <1>9, <1>11 DEF Typed, backend
<1>13. Knows(d)' /\ Says(tab[t], calls[t])'
  BY <1>8, <1>11 DEF Knows, Says
<1>14. /\ \A u \in Tabs \ {t} : /\ tab'[u] = tab[u]
                                /\ u \notin crossed' => u \notin crossed /\ Undisturbed
       /\ t \notin crossed' => Alone(t, slot) /\ Knows(d)' /\ Says(tab[t], calls[t])'
  BY <1>3, <1>13
<1>15. AbandonedKept
  BY <1>3, NothingAbandoned
<1> QED
  BY <1>7, <1>8, <1>9, <1>10, <1>12, <1>14, <1>15, AloneStep

LEMMA SignOutKeeps ==
  ASSUME SessionsInv, NEW t \in Tabs, NEW slot \in Slots, SignOut(t, slot)
  PROVE  SessionsInv'
<1>1. PICK old \in TabStates : old = tab[t]
  BY TabKnown
<1>2. /\ Typed /\ NoncesInv /\ BackendTyped
      /\ t \notin crossed => Says(old, calls[t]) /\ Apart(calls[t])
  BY <1>1, TabKnown
<1>3. PICK n \in Nat, token \in Tokens : n = cookie /\ token = old.csrf
  BY <1>2, TabStateFields DEF Typed
<1>4. PICK d : /\ Turns(t, slot, d)
               /\ \/ /\ EffectiveStatus(t) = "authenticated"
                     /\ d = Sends(t, "logout", NoWallet)
                  \/ /\ AccountMismatch(t)
                     /\ d = [Sends(t, "logout", connected) EXCEPT !.then = "signIn"]
  BY DEF SignOut
<1>5. old.status = "authenticated" /\ (AccountMismatch(t) => connected \in Wallets)
  BY <1>1, <1>2, <1>4 DEF EffectiveStatus, AccountMismatch, Typed
<1>6. NoCall \in Calls
  BY NoCallTyped
<1>7. /\ d \in Calls /\ d.kind = "logout" /\ d.at = "sent" /\ d.cookie = n
      /\ d.csrf = token /\ d.answer = 0 /\ (d.then = "signIn" => d.as \in Wallets)
  <2>1. CASE d = Sends(t, "logout", NoWallet)
    BY <1>1, <1>3, <1>6, <2>1 DEF Sends, NoCall, Calls
  <2>2. CASE /\ AccountMismatch(t)
             /\ d = [Sends(t, "logout", connected) EXCEPT !.then = "signIn"]
    BY <1>1, <1>3, <1>5, <1>6, <2>2 DEF Sends, NoCall, Calls
  <2> QED
    BY <1>4, <2>1, <2>2
<1>8. CallSound(d)
  BY <1>2, <1>3, <1>4, <1>7 DEF CallSound, Presents, Asks, Typed
<1>9. /\ UNCHANGED <<backend, cookie, connected>> /\ abandoned' = abandoned /\ tab' = tab
      /\ calls[t][slot] = NoCall
      /\ crossed' = IF \E other \in Slots \ {slot} : calls[t][other].kind \in {"me", "confirm"}
                    THEN crossed \cup {t} ELSE crossed
  BY DEF SignOut, Begins, browser
<1>10. /\ calls'[t][slot] = d
       /\ \A x \in Slots \ {slot} : calls'[t][x] = calls[t][x]
  BY <1>2, <1>4, <1>7, TurnedIs
<1>11. ASSUME t \notin crossed'
       PROVE  Fits(t, slot, d) /\ Knows(d) /\ Says(old, calls'[t])
  <2>1. /\ t \notin crossed
        /\ \A x \in Slots \ {slot} : calls[t][x].kind \notin {"me", "confirm"}
    BY <1>9, <1>11
  <2>2. \A x \in Slots : calls[t][x].kind \notin {"me", "confirm"}
    BY <1>9, <2>1, NoCallTyped
  <2>3. n # 0 /\ token = Token(n) /\ sessions[n].wallet = old.wallet
    BY <1>2, <1>3, <1>5, <2>1, <2>2 DEF Says
  <2>4. Fits(t, slot, d)
    BY <1>7, <2>1 DEF Fits, Concerns
  <2>5. Knows(d)
    BY <1>7, <2>3 DEF Knows
  <2>6. Says(old, calls'[t])
    BY <1>3, <1>7, <1>10, <2>3 DEF Says
  <2> QED
    BY <2>4, <2>5, <2>6
<1>12. tab' = [tab EXCEPT ![t] = old] /\ crossed \subseteq crossed'
  BY <1>1, <1>2, <1>9 DEF Typed
<1> QED
  BY <1>4, <1>7, <1>8, <1>9, <1>11, <1>12, NothingAbandoned, QuietStep

LEMMA LogoutArrivesKeeps ==
  ASSUME SessionsInv, NEW t \in Tabs, NEW slot \in Slots, LogoutArrives(t, slot)
  PROVE  SessionsInv'
<1>1. PICK c \in Calls : c = calls[t][slot]
  BY TabKnown
<1>2. /\ Typed /\ NoncesInv /\ BackendTyped /\ CallSound(c)
      /\ t \notin crossed => Apart(calls[t])
  BY <1>1, TabKnown
<1>3. /\ c.kind = "logout" /\ cookie' = CookieAfter(c) /\ GivesUp(t, {slot})
      /\ UNCHANGED <<sessions, profiles, connected>>
      /\ crossed' = IF c.at = "answered" /\ c.answer = 1 THEN crossed \cup (Tabs \ {t}) ELSE crossed
  BY <1>1 DEF LogoutArrives
<1>4. /\ cookie' \in {0, cookie}
      /\ cookie' # cookie => c.at = "answered" /\ c.answer # 0
  BY <1>3 DEF CookieAfter
<1>5. c.at = "answered" /\ c.answer # 0 => c.answer = 1
  BY <1>2, <1>3 DEF CallSound, Asks
<1>6. \A u \in Tabs \ {t} : u \notin crossed' => u \notin crossed /\ cookie' = cookie
  BY <1>3, <1>4, <1>5
<1>7. t \notin crossed' =>
        /\ t \notin crossed
        /\ \A x \in Slots \ {slot} : calls[t][x].kind \notin {"me", "confirm"}
  BY <1>1, <1>2, <1>3 DEF Apart, Concerns
<1>8. CASE c.then = "signIn"
  <2>1. PICK as \in Wallets : as = c.as
    BY <1>2, <1>8 DEF CallSound
  <2>2. PICK s : s = [[Closed EXCEPT !.status = "anonymous"] EXCEPT !.status = "signing"]
    OBVIOUS
  <2>3. s \in TabStates /\ s.status = "signing"
    BY <2>2, NoCallTyped DEF Closed, TabStates
  <2>4. Prompts(t, slot, as) /\ tab' = [tab EXCEPT ![t] = s]
    BY <1>1, <1>8, <2>1, <2>2 DEF LogoutArrives
  <2> QED
    BY <1>3, <1>4, <1>6, <1>7, <2>3, <2>4, PromptsKeep
<1>9. CASE c.then # "signIn"
  <2>1. PICK s : s = [Closed EXCEPT !.status = "anonymous"]
    OBVIOUS
  <2>2. s \in TabStates /\ s.status = "anonymous"
    BY <2>1, NoCallTyped DEF Closed, TabStates
  <2>3. tab' = [tab EXCEPT ![t] = s] /\ Turns(t, slot, NoCall) /\ nonces' = nonces
    BY <1>1, <1>9, <2>1 DEF LogoutArrives, Becomes
  <2>4. Grown /\ BackendTyped' /\ NoncesInv' /\ Steady /\ (cookie' = cookie => Undisturbed)
    BY <1>2, <1>3, <2>3, BackendRests DEF backend
  <2>5. AbandonedKept
    BY <1>3, <2>4, GivenUp
  <2>6. /\ tab'[t] = s /\ tab' \in [Tabs -> TabStates]
        /\ \A u \in Tabs \ {t} : tab'[u] = tab[u]
    BY <1>2, <2>2, <2>3, TabTurned
  <2>7. NoCall \in Calls /\ calls' \in [Tabs -> [Slots -> Calls]]
    BY <1>2, <2>3, NoCallTyped, TurnedIs
  <2>8. Typed'
    <3>1. cookie' \in Nat /\ cookie' <= Len(sessions')
      BY <1>2, <1>3, <1>4, LengthsTyped DEF Typed
    <3> QED
      BY <1>2, <1>3, <2>4, <2>5, <2>6, <2>7, <3>1 DEF Typed, AbandonedKept
  <2>9. CallSound(NoCall)'
    BY <2>4, NoCallTyped, LengthsTyped, LenProperties DEF CallSound, Presents, Asks, BackendTyped
  <2>10. Fits(t, slot, NoCall) /\ Knows(NoCall)' /\ Says(tab[t], calls[t])'
    BY <2>2, <2>6, NoCallTyped DEF Fits, Concerns, Knows, Says
  <2>11. \A u \in Tabs \ {t} : /\ tab'[u] = tab[u]
                               /\ u \notin crossed' => u \notin crossed /\ Undisturbed
    BY <1>6, <2>4, <2>6
  <2>12. t \notin crossed' =>
           /\ t \notin crossed /\ Fits(t, slot, NoCall) /\ Knows(NoCall)'
           /\ Says(tab[t], calls[t])' /\ Steady
           /\ \/ Undisturbed
              \/ \A x \in Slots \ {slot} : calls[t][x].kind \notin {"me", "confirm"}
    BY <1>7, <2>4, <2>10
  <2> QED
    BY <2>3, <2>4, <2>5, <2>7, <2>8, <2>9, <2>11, <2>12, CallStep
<1> QED
  BY <1>8, <1>9

-----------------------------------------------------------------------------
(* The invariant holds                                                     *)

LEMMA SessionsInvInit == SessionsInit => SessionsInv
<1> SUFFICES ASSUME SessionsInit PROVE SessionsInv
  OBVIOUS
<1>1. nonces = << >> /\ sessions = << >> /\ Len(nonces) = 0 /\ Len(sessions) = 0
  BY DEF SessionsInit
<1>2. BackendTyped
  BY <1>1 DEF SessionsInit, BackendTyped
<1>3. PICK e : e = [slot \in Slots |-> NoCall]
  OBVIOUS
<1>4. e \in [Slots -> Calls] /\ \A slot \in Slots : e[slot] = NoCall
  BY <1>3, NoCallTyped
<1>5. calls = [t \in Tabs |-> e] /\ tab = [t \in Tabs |-> Closed]
  BY <1>3 DEF SessionsInit
<1>6. Closed \in TabStates /\ Closed.status = "closed"
  BY NoCallTyped DEF Closed, TabStates
<1>7. DOMAIN abandoned = {}
  BY DEF SessionsInit, EmptyBag, SetToBag
<1>8. Typed
  <2>1. cookie \in Nat /\ cookie <= Len(sessions) /\ connected \in Wallets \cup {NoWallet}
    BY <1>1 DEF SessionsInit
  <2>2. calls \in [Tabs -> [Slots -> Calls]] /\ tab \in [Tabs -> TabStates]
    BY <1>4, <1>5, <1>6
  <2> QED
    BY <1>2, <1>7, <2>1, <2>2 DEF Typed
<1>9. NoncesInv
  <2>1. 1..Len(sessions) = {} /\ 1..Len(nonces) = {}
    BY <1>1
  <2> QED
    BY <2>1 DEF NoncesInv
<1>10. CallsInv
  BY <1>2, <1>4, <1>5, <1>7, NoCallSound DEF CallsInv
<1>11. TabsInv
  <2>1. Apart(e) /\ (\A slot \in Slots : Knows(e[slot]))
    BY <1>2, <1>4, NoCallSound, NoCallTyped DEF Apart, Concerns
  <2>2. Says(Closed, e)
    BY <1>6 DEF Says
  <2> QED
    BY <1>5, <2>1, <2>2 DEF TabsInv, TabSound
<1> QED
  BY <1>8, <1>9, <1>10, <1>11 DEF SessionsInv

LEMMA SessionsInvStep == SessionsInv /\ [SessionsNext]_sessionsVars => SessionsInv'
<1> SUFFICES ASSUME SessionsInv, [SessionsNext]_sessionsVars PROVE SessionsInv'
  OBVIOUS
<1>1. ASSUME NEW t \in Tabs, Load(t) PROVE SessionsInv'
  BY <1>1, LoadKeeps
<1>2. ASSUME NEW t \in Tabs, NEW slot \in Slots, Handle(t, slot) PROVE SessionsInv'
  BY <1>2, HandleKeeps
<1>3. ASSUME NEW t \in Tabs, NEW slot \in Slots, CommitMe(t, slot) PROVE SessionsInv'
  BY <1>3, CommitMeKeeps
<1>4. ASSUME NEW t \in Tabs, NEW slot \in Slots, RefreshArrives(t, slot) PROVE SessionsInv'
  BY <1>4, RefreshArrivesKeeps
<1>5. ASSUME NEW t \in Tabs, NEW slot \in Slots, CommitVerify(t, slot) PROVE SessionsInv'
  BY <1>5, CommitVerifyKeeps
<1>6. ASSUME NEW t \in Tabs, NEW slot \in Slots, VerifyArrives(t, slot) PROVE SessionsInv'
  BY <1>6, VerifyArrivesKeeps
<1>7. ASSUME NEW t \in Tabs, NEW slot \in Slots, ConfirmArrives(t, slot) PROVE SessionsInv'
  BY <1>7, ConfirmArrivesKeeps
<1>8. ASSUME NEW t \in Tabs, NEW slot \in Slots, CommitLogout(t, slot) PROVE SessionsInv'
  BY <1>8, CommitLogoutKeeps
<1>9. ASSUME NEW t \in Tabs, NEW slot \in Slots, LogoutArrives(t, slot) PROVE SessionsInv'
  BY <1>9, LogoutArrivesKeeps
<1>10. ASSUME NEW t \in Tabs, NEW slot \in Slots, SignIn(t, slot) PROVE SessionsInv'
  BY <1>10, SignInKeeps
<1>11. ASSUME NEW t \in Tabs, NEW slot \in Slots, Sign(t, slot) PROVE SessionsInv'
  BY <1>11, SignKeeps
<1>12. ASSUME NEW t \in Tabs, NEW slot \in Slots, SignInFails(t, slot) PROVE SessionsInv'
  BY <1>12, SignInFailsKeeps
<1>13. ASSUME NEW t \in Tabs, NEW slot \in Slots, SignOut(t, slot) PROVE SessionsInv'
  BY <1>13, SignOutKeeps
<1>14. ASSUME NEW call \in BagToSet(abandoned), AbandonedRead(call) \/ AbandonedCommit(call)
       PROVE  SessionsInv'
  BY <1>14, AbandonedReadKeeps, AbandonedCommitKeeps
<1>15. CASE Expire
  BY <1>15, ExpireKeeps
<1>16. CASE Switch
  BY <1>16, SwitchKeeps
<1>17. CASE UNCHANGED sessionsVars
  <2>1. /\ UNCHANGED <<backend, calls, tab>> /\ crossed' = crossed
        /\ cookie' = cookie /\ connected' = connected /\ abandoned' = abandoned
    BY <1>17 DEF sessionsVars, backend
  <2>2. Typed /\ NoncesInv
    BY DEF SessionsInv
  <2>3. Grown /\ BackendTyped' /\ NoncesInv' /\ Undisturbed
    BY <2>1, <2>2, BackendRests
  <2>4. AbandonedKept
    BY <2>1, <2>2, <2>3, NothingAbandoned
  <2>5. Typed'
    BY <2>1, <2>2, <2>3, <2>4 DEF Typed, AbandonedKept, backend
  <2> QED
    BY ONLY SessionsInv, <2>1, <2>3, <2>4, <2>5, OutsideStep
<1>18. CASE SessionsNext
  BY ONLY <1>1, <1>2, <1>3, <1>4, <1>5, <1>6, <1>7, <1>8, <1>9, <1>10, <1>11, <1>12, <1>13, <1>14,
          <1>15, <1>16, <1>18 DEF SessionsNext
<1> QED
  BY <1>17, <1>18

LEMMA SessionsInvHolds == SessionsSpec => []SessionsInv
<1> QED
  BY SessionsInvInit, SessionsInvStep, PTL DEF SessionsSpec

(* A nonce buys one session, for the wallet that it was issued to, however *)
(* often and however close together it is presented: the guarded UPDATE of *)
(* auth/service.py and its transaction see to that.                        *)
THEOREM OneSessionPerNonce == SessionsSpec => []NonceBuysOneSession
<1>1. SessionsInv => NonceBuysOneSession
  <2> SUFFICES ASSUME SessionsInv, NEW n \in DOMAIN nonces
               PROVE  LET bought == {s \in DOMAIN sessions : sessions[s].nonce = n}
                      IN  /\ Cardinality(bought) = IF nonces[n].state = "used" THEN 1 ELSE 0
                          /\ \A s \in bought : /\ sessions[s].wallet = nonces[n].wallet
                                               /\ sessions[s].wallet \in profiles
    BY DEF NonceBuysOneSession
  <2> DEFINE bought == {s \in DOMAIN sessions : sessions[s].nonce = n}
  <2>1. NoncesInv /\ DOMAIN sessions = 1..Len(sessions) /\ DOMAIN nonces = 1..Len(nonces)
    BY LengthsTyped DEF SessionsInv, Typed
  <2>2. \A s \in bought : /\ nonces[n].state = "used" /\ sessions[s].wallet = nonces[n].wallet
                          /\ sessions[s].wallet \in profiles
    BY <2>1 DEF NoncesInv
  <2>3. CASE nonces[n].state = "used"
    <3>1. PICK s \in 1..Len(sessions) : sessions[s].nonce = n
      BY <2>1, <2>3 DEF NoncesInv
    <3>2. \A u \in bought : u = s
      BY <2>1, <3>1 DEF NoncesInv
    <3>3. bought = {s}
      BY <2>1, <3>1, <3>2
    <3>4. Cardinality({s}) = 1
      BY FS_Singleton
    <3>5. Cardinality(bought) = 1
      BY <3>3, <3>4
    <3> QED
      BY <2>2, <2>3, <3>5
  <2>4. CASE nonces[n].state # "used"
    <3>1. bought = {}
      BY <2>2, <2>4
    <3>2. Cardinality({}) = 0
      BY FS_EmptySet
    <3>3. Cardinality(bought) = 0
      BY <3>1, <3>2
    <3> QED
      BY <2>2, <2>4, <3>3
  <2> QED
    BY <2>3, <2>4
<1> QED
  BY <1>1, SessionsInvHolds, PTL

(* A tab that says that it is signed in and waits for nothing holds the    *)
(* value with which the backend lets the browser's session write, expiry   *)
(* apart: what AuthContext.tsx shows is what require_csrf in               *)
(* auth/dependencies.py decides.  It does not say this of a tab whose      *)
(* session or value another tab, or a request that a page gave up waiting  *)
(* for, has touched since its own last /auth/me, nor of one that had two   *)
(* calls about them under way at once: their answers may be out of order.  *)
THEOREM SignedInTabsCanWrite == SessionsSpec => []SignedInCanWrite
<1>1. SessionsInv => SignedInCanWrite
  <2> SUFFICES ASSUME SessionsInv, NEW t \in Tabs \ crossed,
                      tab[t].status = "authenticated",
                      \A slot \in Slots : calls[t][slot] = NoCall
               PROVE  /\ cookie # 0 /\ sessions[cookie].state # "revoked"
                      /\ sessions[cookie].wallet = tab[t].wallet
                      /\ tab[t].csrf = Token(cookie)
    BY DEF SignedInCanWrite
  <2>1. Says(tab[t], calls[t])
    BY DEF SessionsInv, TabsInv, TabSound
  <2>2. \A slot \in Slots : calls[t][slot].kind \notin {"me", "confirm", "logout"}
    BY NoCallTyped
  <2> QED
    BY <2>1, <2>2 DEF Says
<1> QED
  BY <1>1, SessionsInvHolds, PTL

(* When a sign-out has been answered and is over, the session that it was  *)
(* sent with is dead: a refusal, which AuthContext.tsx ignores, only ever  *)
(* met a session that was over.  It does not say this of a tab with which  *)
(* another tab or an abandoned request has interfered, or two of its own   *)
(* calls with each other, as above: that sign-out may be refused and leave *)
(* the session alive.                                                      *)
THEOREM SignOutsRevoke == SessionsSpec => SignOutRevokesUnlessCrossed
<1>1. SessionsInv =>
        \A t \in Tabs \ crossed, slot \in Slots :
          calls[t][slot].kind = "logout" /\ calls[t][slot].at = "answered" =>
            ~ Live(calls[t][slot].cookie)
  BY DEF SessionsInv, TabsInv, TabSound, Knows
<1>2. SessionsInv =>
        [\A t \in Tabs \ crossed, slot \in Slots :
           LET call == calls[t][slot]
           IN  call.kind = "logout" /\ call.at = "answered" /\ calls'[t][slot] # call =>
                 ~ Live(call.cookie)]_sessionsVars
  BY <1>1
<1> QED
  BY <1>2, SessionsInvHolds, PTL DEF SignOutRevokesUnlessCrossed
=============================================================================
