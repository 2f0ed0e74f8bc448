-------------------------- MODULE ContractTxProofs --------------------------
(***************************************************************************)
(* Proofs about the calls of one tab: however sends, polls, retries,       *)
(* reloads and switches of the wallet interleave, an entry says what the   *)
(* chain says, is followed as long as it is pending, locks its action      *)
(* until it is answered, and is alone in that unless two sends raced.      *)
(***************************************************************************)
EXTENDS ContractTx, SequenceTheorems, FiniteSetTheorems, TLAPS

-----------------------------------------------------------------------------
(* Types                                                                   *)

Entry ==
  [id : Nat, action : Actions \cup {NoAction}, wallet : Wallets \cup {NoWallet},
   monad : BOOLEAN, status : Terminal \cup Open, tx : Txs \cup {NoTx}, hidden : BOOLEAN]

Unsigned == {"simulating", "wallet"}
Follows == {"propagating", "polling", "verifying"}

Running ==
  [id : Nat, kind : {"send", "retry"}, at : Unsigned \cup Follows, tx : Txs \cup {NoTx},
   action : Actions \cup {NoAction}, wallet : Wallets \cup {NoWallet}, monad : BOOLEAN]

Fates == {"unsent", "sent", "elsewhere"} \cup Mined

-----------------------------------------------------------------------------
(* The inductive invariant: each part is about a list of entries and a set *)
(* of running functions, so that it can be asked of the ones in between,   *)
(* before the list is reconciled.                                          *)

(* Every entry has an id of its own, of those that were given out, and     *)
(* asks for the wallet only until there is a hash.                         *)
Listed(es, n) ==
  /\ es \in Seq(Entry)
  /\ \A i \in DOMAIN es : es[i].id \in 1 .. n
  /\ \A i, j \in DOMAIN es : es[i].id = es[j].id => i = j
  /\ \A i \in DOMAIN es : es[i].status = "WAITING_FOR_WALLET" => es[i].tx = NoTx

(* A function knows the hash of its entry; until there is one it is a send *)
(* and the only function of that id.                                       *)
Manned(es, ts, n) ==
  /\ ts \subseteq Running
  /\ \A t \in ts : t.id \in 1 .. n
  /\ \A t \in ts : t.at \in Unsigned =>
       t.kind = "send" /\ t.tx = NoTx /\ \A u \in ts : u.id = t.id => u = t
  /\ \A t \in ts : t.at \in Follows => t.tx \in Txs
  /\ \A t \in ts : t.at = "simulating" => t.action \in Actions /\ t.id \notin Ids(es)
  /\ \A t \in ts : \A i \in DOMAIN es : es[i].id = t.id => es[i].tx = t.tx

(* What an entry says of its hash is what the chain says.                  *)
Honest(es, chain) ==
  \A i \in DOMAIN es :
    /\ es[i].status \in {"VERIFIED", "REFRESHING_CONTRACT_STATE"} =>
         es[i].tx \in Txs /\ chain[es[i].tx] = "success"
    /\ es[i].status = "MINED_REVERTED" /\ es[i].tx # NoTx => chain[es[i].tx] = "reverted"

(* What is pending is followed, if its polling has been resumed.           *)
Attended(es, ts, started) ==
  \A i \in DOMAIN es :
    es[i].status \in Resumable /\ es[i].tx # NoTx /\ es[i].id \in started =>
      \E t \in ts : t.id = es[i].id /\ t.at \in Follows

(* What is pending has been resumed.                                       *)
TakenUp(es, started) ==
  \A i \in DOMAIN es : es[i].status \in Resumable /\ es[i].tx # NoTx => es[i].id \in started

(* What is pending is of this wallet and chain.                            *)
Current(es, connected, onMonad) ==
  \A i \in DOMAIN es : ~ IsStaleForSession(es[i], connected, onMonad)

(* Two calls of one action, open or about to ask the wallet, have raced.   *)
Alone(es, ts, r) ==
  /\ \A i, j \in DOMAIN es :
       /\ i # j /\ es[i].action = es[j].action /\ es[i].action # NoAction
       /\ ~IsTerminal(es[i]) /\ ~IsTerminal(es[j])
       => {es[i].id, es[j].id} \cap r # {}
  /\ \A i \in DOMAIN es : \A t \in ts :
       t.at = "simulating" /\ t.action = es[i].action /\ ~IsTerminal(es[i])
       => {es[i].id, t.id} \cap r # {}
  /\ \A t, u \in ts :
       t.at = "simulating" /\ u.at = "simulating" /\ t.action = u.action /\ t # u
       => {t.id, u.id} \cap r # {}

TxInv ==
  /\ made \in Nat
  /\ account \in Wallets \cup {NoWallet} /\ monad \in BOOLEAN
  /\ net \in [Txs -> Fates]
  /\ resumed \subseteq 1 .. made
  /\ Listed(entries, made)
  /\ Manned(entries, tasks, made)
  /\ Honest(entries, net)
  /\ Attended(entries, tasks, resumed)
  /\ TakenUp(entries, resumed)
  /\ Current(entries, account, monad)
  /\ Alone(entries, tasks, raced)

-----------------------------------------------------------------------------
(* Lists                                                                   *)

(* A family of subsets of a finite set that contains a set as soon as it   *)
(* contains the smaller ones contains them all.                            *)
LEMMA SubsetInduction ==
  ASSUME NEW S, IsFiniteSet(S), NEW F,
         \A T \in SUBSET S : (\A U \in SUBSET T : U # T => U \in F) => T \in F
  PROVE  S \in F
<1>1. IsWellFoundedOn(StrictSubsetOrdering(S), SUBSET S)
  BY FS_StrictSubsetOrderingWellFounded, FS_FiniteSubsetsOfFinite
<1> DEFINE D == (SUBSET S) \ F
<1>2. SUFFICES ASSUME D # {} PROVE FALSE
  OBVIOUS
<1>3. D \subseteq SUBSET S
  OBVIOUS
<1>4. \E T \in D : \A U \in D : ~ (<<U, T>> \in StrictSubsetOrdering(S))
  <2> HIDE DEF D
  <2> QED BY <1>1, <1>2, <1>3, WFMin
<1>5. PICK T \in D : \A U \in D : ~ (<<U, T>> \in StrictSubsetOrdering(S))
  BY <1>4
<1>6. \A U \in SUBSET T : U # T => U \in F
  BY <1>5 DEF StrictSubsetOrdering
<1> QED BY <1>5, <1>6

(* Places in a list are finitely many.                                     *)
LEMMA Places ==
  ASSUME NEW n \in Nat, NEW S \in SUBSET (1 .. n)
  PROVE  IsFiniteSet(S) /\ Cardinality(S) \in Nat
<1>1. IsFiniteSet(1 .. n)
  <2>1. 1 \in Int /\ n \in Int
    OBVIOUS
  <2> QED BY <2>1, FS_Interval
<1>2. IsFiniteSet(S)
  BY <1>1, FS_Subset
<1> QED BY <1>2, FS_CardinalityType

(* A finite set of numbers has a greatest one.                             *)
LEMMA Greatest ==
  ASSUME NEW n \in Nat, NEW S \in SUBSET (1 .. n), S # {}
  PROVE  \E m \in S : \A i \in S : i <= m
<1> DEFINE F == {T \in SUBSET S : T # {} => \E m \in T : \A i \in T : i <= m}
<1>1. IsFiniteSet(S)
  BY Places
<1>2. ASSUME NEW T \in SUBSET S, \A U \in SUBSET T : U # T => U \in F
      PROVE  T \in F
  <2>1. SUFFICES ASSUME T # {} PROVE \E m \in T : \A i \in T : i <= m
    OBVIOUS
  <2>2. PICK x \in T : TRUE
    BY <2>1
  <2>3. T \ {x} \in F
    BY <1>2
  <2>4. CASE T \ {x} = {}
    BY <2>2, <2>4
  <2>5. CASE T \ {x} # {}
    <3>1. PICK m \in T \ {x} : \A i \in T \ {x} : i <= m
      BY <2>3, <2>5
    <3>2. x \in Nat /\ m \in Nat /\ \A i \in T : i \in Nat
      OBVIOUS
    <3>3. CASE x <= m
      BY <3>1, <3>3
    <3>4. CASE m < x
      BY <3>1, <3>2, <3>4
    <3> QED BY <3>2, <3>3, <3>4
  <2> QED BY <2>4, <2>5
<1> HIDE DEF F
<1>3. S \in F
  BY <1>1, <1>2, SubsetInduction
<1> QED BY <1>3 DEF F

(* The k-th element of a finite set of numbers.                            *)
Rank(P, i) == Cardinality({j \in P : j <= i})

LEMMA RankOf ==
  ASSUME NEW n \in Nat, NEW P \in SUBSET (1 .. n), NEW i \in P
  PROVE  Rank(P, i) \in 1 .. Cardinality(P)
<1> DEFINE L == {j \in P : j <= i}
<1>1. IsFiniteSet(P) /\ L \subseteq P /\ i \in L
  <2>1. i \in Nat
    OBVIOUS
  <2>2. L \subseteq P /\ i \in L
    BY <2>1
  <2> QED BY <2>2, Places
<1>2. IsFiniteSet(L) /\ Cardinality(L) <= Cardinality(P)
  BY <1>1, FS_Subset
<1>3. Cardinality(L) \in Nat /\ Cardinality(P) \in Nat /\ Cardinality(L) # 0
  <2> HIDE DEF L
  <2> QED BY <1>1, <1>2, FS_CardinalityType, FS_EmptySet
<1> QED BY <1>2, <1>3 DEF Rank

LEMMA RankInjective ==
  ASSUME NEW n \in Nat, NEW P \in SUBSET (1 .. n), NEW i \in P, NEW j \in P,
         Rank(P, i) = Rank(P, j)
  PROVE  i = j
<1>1. ASSUME NEW a \in P, NEW b \in P, a < b PROVE Rank(P, a) < Rank(P, b)
  <2> DEFINE A == {k \in P : k <= a}
             B == {k \in P : k <= b}
  <2>1. a \in Nat /\ b \in Nat
    OBVIOUS
  <2>2. A \subseteq B /\ b \in B /\ b \notin A
    <3>1. \A k \in P : k \in Nat /\ (k <= a => k <= b)
      BY <1>1, <2>1
    <3>2. ~ (b <= a) /\ b <= b
      BY <1>1, <2>1
    <3> QED BY <3>1, <3>2
  <2>3. IsFiniteSet(B)
    <3>1. B \in SUBSET (1 .. n)
      OBVIOUS
    <3> HIDE DEF B
    <3> QED BY <3>1, Places
  <2>4. Cardinality(A) < Cardinality(B)
    <3> HIDE DEF A, B
    <3>1. Cardinality(A) <= Cardinality(B) /\ IsFiniteSet(A)
      BY <2>2, <2>3, FS_Subset
    <3>2. Cardinality(A) # Cardinality(B)
      BY <2>2, <2>3, FS_Subset
    <3>3. Cardinality(A) \in Nat /\ Cardinality(B) \in Nat
      BY <2>3, <3>1, FS_CardinalityType
    <3> QED BY <3>1, <3>2, <3>3
  <2> QED BY <2>4 DEF Rank
<1>2. Rank(P, i) \in Nat /\ Rank(P, j) \in Nat /\ i \in Nat /\ j \in Nat
  <2>2. Cardinality(P) \in Nat
    BY Places
  <2>3. Rank(P, i) \in 1 .. Cardinality(P) /\ Rank(P, j) \in 1 .. Cardinality(P)
    BY RankOf
  <2> QED BY <2>2, <2>3
<1> QED BY <1>1, <1>2

LEMMA Ranked ==
  ASSUME NEW n \in Nat, NEW P \in SUBSET (1 .. n), NEW k \in 1 .. Cardinality(P)
  PROVE  \E i \in P : Rank(P, i) = k
<1> DEFINE F == {S \in SUBSET P : \A c \in 1 .. Cardinality(S) : \E i \in S : Rank(S, i) = c}
<1>1. IsFiniteSet(P)
  BY Places
<1>2. ASSUME NEW S \in SUBSET P, \A U \in SUBSET S : U # S => U \in F
      PROVE  S \in F
  <2>1. SUFFICES ASSUME NEW c \in 1 .. Cardinality(S) PROVE \E i \in S : Rank(S, i) = c
    OBVIOUS
  <2>2. S \in SUBSET (1 .. n) /\ IsFiniteSet(S) /\ Cardinality(S) \in Nat
    BY Places
  <2>3. S # {}
    <3>1. Cardinality(S) # 0
      BY <2>2
    <3> QED BY <3>1, FS_EmptySet
  <2>4. PICK m \in S : \A i \in S : i <= m
    BY <2>2, <2>3, Greatest
  <2>5. Rank(S, m) = Cardinality(S)
    <3>1. {j \in S : j <= m} = S
      BY <2>4
    <3> QED BY <3>1 DEF Rank
  <2>6. CASE c = Cardinality(S)
    BY <2>5, <2>6
  <2>7. CASE c # Cardinality(S)
    <3>1. S \ {m} \in F
      BY <1>2
    <3>2. Cardinality(S \ {m}) = Cardinality(S) - 1
      BY <2>2, FS_RemoveElement
    <3>3. c \in 1 .. Cardinality(S \ {m})
      BY <2>2, <2>7, <3>2
    <3>4. PICK i \in S \ {m} : Rank(S \ {m}, i) = c
      BY <3>1, <3>3
    <3>5. {j \in S \ {m} : j <= i} = {j \in S : j <= i}
      <4>1. i \in Nat /\ m \in Nat /\ i <= m /\ i # m
        BY <2>2, <2>4
      <4>2. ~ (m <= i)
        BY <4>1
      <4>3. \A j \in S : j <= i => j # m
        BY <4>2
      <4> QED BY <4>3
    <3>6. Rank(S, i) = c
      BY <3>4, <3>5 DEF Rank
    <3> QED BY <3>6
  <2> QED BY <2>6, <2>7
<1> HIDE DEF F
<1>3. P \in F
  BY <1>1, <1>2, SubsetInduction
<1> QED BY <1>3 DEF F

(* What was drawn is what is at the given places, each once.               *)
Drawn(got, es, P, pos) ==
  /\ pos \in [DOMAIN got -> P]
  /\ \A k \in DOMAIN got : got[k] = es[pos[k]]
  /\ \A j, k \in DOMAIN got : pos[j] = pos[k] => j = k
  /\ \A i \in P : \E k \in DOMAIN got : pos[k] = i

(* filter.                                                                 *)
LEMMA OnlyDraws ==
  ASSUME NEW E, NEW es \in Seq(E), NEW P \in SUBSET DOMAIN es
  PROVE  Only(es, P) \in Seq(E) /\ \E pos : Drawn(Only(es, P), es, P, pos)
<1>1. PICK n \in Nat : DOMAIN es = 1 .. n
  <2>1. Len(es) \in Nat /\ DOMAIN es = 1 .. Len(es)
    OBVIOUS
  <2> QED BY <2>1
<1>2. P \in SUBSET (1 .. n)
  BY <1>1
<1>3. PICK c \in Nat : c = Cardinality(P)
  BY <1>2, Places
<1>4. PICK pos : pos = [k \in 1 .. c |-> CHOOSE i \in P : Rank(P, i) = k]
  OBVIOUS
<1>5. PICK kept : kept = Only(es, P)
  OBVIOUS
<1>6. kept = [k \in 1 .. c |-> es[CHOOSE i \in P : Rank(P, i) = k]]
  BY <1>3, <1>5 DEF Only, Rank
<1>7. \A k \in 1 .. c : pos[k] \in P /\ Rank(P, pos[k]) = k
  <2>1. SUFFICES ASSUME NEW k \in 1 .. c PROVE pos[k] \in P /\ Rank(P, pos[k]) = k
    OBVIOUS
  <2>2. \E i \in P : Rank(P, i) = k
    BY <1>2, <1>3, Ranked
  <2>3. pos[k] = CHOOSE i \in P : Rank(P, i) = k
    BY <1>4
  <2> QED BY <2>2, <2>3
<1>8. DOMAIN kept = 1 .. c /\ pos \in [1 .. c -> P] /\ \A k \in 1 .. c : kept[k] = es[pos[k]]
  BY <1>4, <1>6, <1>7
<1>9. kept \in Seq(E)
  <2>1. \A k \in 1 .. c : kept[k] \in E
    BY <1>7, <1>8
  <2>2. kept \in [1 .. c -> E]
    BY <1>6, <1>8, <2>1
  <2> QED BY <2>2
<1>10. \A j, k \in 1 .. c : pos[j] = pos[k] => j = k
  BY <1>7
<1>11. ASSUME NEW i \in P PROVE \E k \in 1 .. c : pos[k] = i
  <2>1. Rank(P, i) \in 1 .. c
    BY <1>2, <1>3, RankOf
  <2>2. pos[Rank(P, i)] \in P /\ Rank(P, pos[Rank(P, i)]) = Rank(P, i)
    BY <1>7, <2>1
  <2>3. pos[Rank(P, i)] = i
    BY <1>2, <2>2, RankInjective
  <2> QED BY <2>1, <2>3
<1>12. Drawn(kept, es, P, pos)
  BY <1>8, <1>10, <1>11 DEF Drawn
<1> QED BY <1>5, <1>9, <1>12

(* track puts the new entries first and drops what is beyond the capacity. *)
LEMMA TrackPlaces ==
  ASSUME NEW E, NEW es \in Seq(E), NEW new \in Seq(E)
  PROVE  /\ Track(es, new) \in Seq(E)
         /\ \A k \in DOMAIN Track(es, new) :
              \/ k \in DOMAIN new /\ Track(es, new)[k] = new[k]
              \/ k - Len(new) \in DOMAIN es /\ Track(es, new)[k] = es[k - Len(new)]
                 /\ k \notin DOMAIN new
         /\ \A i \in DOMAIN es : i + Len(new) <= Capacity =>
              i + Len(new) \in DOMAIN Track(es, new) /\ Track(es, new)[i + Len(new)] = es[i]
         /\ \A k \in DOMAIN new : k <= Capacity =>
              k \in DOMAIN Track(es, new) /\ Track(es, new)[k] = new[k]
<1>1. Capacity \in Nat
  BY ContractTxAssumption
<1>2. PICK a \in Nat, b \in Nat : a = Len(new) /\ b = Len(es)
  <2>1. Len(new) \in Nat /\ Len(es) \in Nat
    OBVIOUS
  <2> QED BY <2>1
<1>3. PICK all \in Seq(E) : all = new \o es
  <2>1. new \o es \in Seq(E)
    BY ConcatProperties
  <2> QED BY <2>1
<1>4. DOMAIN new = 1 .. a /\ DOMAIN es = 1 .. b
  BY <1>2
<1>5. Len(all) = a + b /\ \A k \in 1 .. a + b : all[k] = IF k <= a THEN new[k] ELSE es[k - a]
  BY <1>2, <1>3
<1>6. PICK c \in Nat : c = IF a + b < Capacity THEN a + b ELSE Capacity
  BY <1>1
<1>7. PICK kept : kept = SubSeq(all, 1, c)
  OBVIOUS
<1>8. c <= Len(all) /\ c <= Capacity /\ (c = a + b \/ c = Capacity)
  <2>1. CASE a + b < Capacity
    BY <1>1, <1>5, <1>6, <2>1
  <2>2. CASE ~ (a + b < Capacity)
    BY <1>1, <1>5, <1>6, <2>2
  <2> QED BY <2>1, <2>2
<1>9. kept \in Seq(E) /\ Len(kept) = c /\ \A k \in 1 .. c : kept[k] = all[k]
  <2>1. 1 \in 1 .. Len(all) + 1 /\ c \in 0 .. Len(all) /\ Len(all) \in Nat
    BY <1>5, <1>8
  <2>2. 1 \in Int /\ c \in Int /\ (\A k \in 1 .. c : k \in DOMAIN all)
    BY <2>1
  <2>3. /\ Len(SubSeq(all, 1, c)) = IF 1 <= c THEN c - 1 + 1 ELSE 0
        /\ \A k \in 1 .. c - 1 + 1 : SubSeq(all, 1, c)[k] = all[1 + k - 1]
        /\ SubSeq(all, 1, c) \in Seq(E)
    BY <2>1, <2>2, SubSeqProperties
  <2> QED BY <1>7, <2>3
<1>10. DOMAIN kept = 1 .. c
  BY <1>9
<1>11. kept = Track(es, new)
  BY <1>3, <1>5, <1>6, <1>7 DEF Track
<1>12. ASSUME NEW k \in 1 .. c
       PROVE  \/ k \in 1 .. a /\ kept[k] = new[k]
              \/ k - a \in 1 .. b /\ kept[k] = es[k - a] /\ k \notin 1 .. a
  <2>1. k \in 1 .. a + b /\ kept[k] = all[k]
    BY <1>5, <1>8, <1>9
  <2>2. CASE k <= a
    BY <1>5, <2>1, <2>2
  <2>3. CASE ~ (k <= a)
    BY <1>5, <2>1, <2>3
  <2> QED BY <2>2, <2>3
<1>13. ASSUME NEW i \in 1 .. b, i + a <= Capacity
       PROVE  i + a \in 1 .. c /\ kept[i + a] = es[i]
  <2>1. i + a \in 1 .. a + b /\ i + a <= c /\ ~ (i + a <= a) /\ (i + a) - a = i
    BY <1>1, <1>5, <1>8, <1>13
  <2>2. all[i + a] = es[i]
    BY <1>5, <2>1
  <2> QED BY <1>9, <2>1, <2>2
<1>14. ASSUME NEW k \in 1 .. a, k <= Capacity
       PROVE  k \in 1 .. c /\ kept[k] = new[k]
  <2>1. k \in 1 .. a + b /\ k <= c
    BY <1>1, <1>5, <1>8, <1>14
  <2>2. all[k] = new[k]
    BY <1>5, <2>1
  <2> QED BY <1>9, <2>1, <2>2
<1> QED BY <1>2, <1>4, <1>9, <1>10, <1>11, <1>12, <1>13, <1>14

-----------------------------------------------------------------------------
(* Reconciling                                                             *)

(* The entry as it was, or pending anew.                                   *)
SameCall(now, was) ==
  \/ now = was
  \/ was.status \in Resumable /\ was.tx # NoTx /\ now = [was EXCEPT !.status = "PENDING_ONCHAIN"]

(* What the reconciliation of es with the account c on the chain m leaves: *)
(* the entries that are not stale, each where pos says, and those that     *)
(* have to be followed are, or had been resumed before.                    *)
Settled(es, ts, started, c, m, pos) ==
  /\ entries' \in Seq(Entry)
  /\ pos \in [DOMAIN entries' -> DOMAIN es]
  /\ \A j, k \in DOMAIN entries' : pos[j] = pos[k] => j = k
  /\ \A k \in DOMAIN entries' :
       ~ IsStaleForSession(es[pos[k]], c, m) /\ SameCall(entries'[k], es[pos[k]])
  /\ \A i \in DOMAIN es : ~ IsStaleForSession(es[i], c, m) => \E k \in DOMAIN entries' : pos[k] = i
  /\ ts \subseteq tasks'
  /\ \A t \in tasks' \ ts : \E k \in DOMAIN entries' :
       t = Task(es[pos[k]].id, "retry", "polling", es[pos[k]]) /\ es[pos[k]].tx # NoTx
  /\ resumed' \subseteq started \cup Ids(es)
  /\ \A k \in DOMAIN entries' :
       entries'[k].status \in Resumable /\ entries'[k].tx # NoTx =>
         /\ entries'[k].id \in resumed'
         /\ entries'[k].id \in started \/ \E t \in tasks' : t.id = entries'[k].id /\ t.at \in Follows

LEMMA EntryFields ==
  ASSUME NEW e \in Entry
  PROVE  /\ e.id \in Nat /\ e.action \in Actions \cup {NoAction}
         /\ e.wallet \in Wallets \cup {NoWallet} /\ e.monad \in BOOLEAN
         /\ e.status \in Terminal \cup Open /\ e.tx \in Txs \cup {NoTx} /\ e.hidden \in BOOLEAN
BY DEF Entry

(* An entry whose status or hash is set is an entry with the same call.    *)
LEMMA EntrySet ==
  ASSUME NEW e \in Entry, NEW status \in Terminal \cup Open, NEW tx \in Txs \cup {NoTx}
  PROVE  LET e2 == [e EXCEPT !.status = status, !.tx = tx]
         IN  /\ e2 \in Entry /\ e2.id = e.id /\ e2.action = e.action /\ e2.wallet = e.wallet
             /\ e2.monad = e.monad /\ e2.status = status /\ e2.tx = tx /\ e2.hidden = e.hidden
BY DEF Entry

LEMMA EntryStatus ==
  ASSUME NEW e \in Entry, NEW status \in Terminal \cup Open
  PROVE  LET e2 == [e EXCEPT !.status = status]
         IN  /\ e2 \in Entry /\ e2.id = e.id /\ e2.action = e.action /\ e2.wallet = e.wallet
             /\ e2.monad = e.monad /\ e2.status = status /\ e2.tx = e.tx /\ e2.hidden = e.hidden
BY DEF Entry

LEMMA Reconciled ==
  ASSUME NEW es \in Seq(Entry), NEW ts, NEW started, NEW c, NEW m, Reconcile(es, ts, started, c, m)
  PROVE  \E pos : Settled(es, ts, started, c, m, pos)
<1>1. PICK current : current = {i \in DOMAIN es : ~IsStaleForSession(es[i], c, m)}
  OBVIOUS
<1>2. PICK fresh : fresh = {i \in current : ShouldResume(es[i], c, m) /\ es[i].id \notin started}
  OBVIOUS
<1>3. PICK taken : taken = [i \in DOMAIN es |->
                              IF i \in fresh THEN [es[i] EXCEPT !.status = "PENDING_ONCHAIN"] ELSE es[i]]
  OBVIOUS
<1>4. /\ entries' = Only(taken, current)
      /\ tasks' = ts \cup {Task(es[i].id, "retry", "polling", es[i]) : i \in fresh}
      /\ resumed' = (started \cap {es[i].id : i \in current}) \cup {es[i].id : i \in fresh}
  BY <1>1, <1>2, <1>3 DEF Reconcile
<1>5. PICK n \in Nat : DOMAIN es = 1 .. n
  <2>1. Len(es) \in Nat /\ DOMAIN es = 1 .. Len(es)
    OBVIOUS
  <2> QED BY <2>1
<1>6. DOMAIN taken = 1 .. n /\ current \subseteq 1 .. n /\ fresh \subseteq current
  BY <1>1, <1>2, <1>3, <1>5
<1>7. \A i \in 1 .. n : es[i] \in Entry
  BY <1>5
<1>8. "PENDING_ONCHAIN" \in Terminal \cup Open
  BY DEF Open
<1>9. ASSUME NEW i \in fresh
      PROVE  /\ taken[i] \in Entry /\ taken[i].id = es[i].id /\ taken[i].tx = es[i].tx
             /\ es[i].status \in Resumable /\ es[i].tx # NoTx
             /\ taken[i] = [es[i] EXCEPT !.status = "PENDING_ONCHAIN"]
  <2>1. i \in 1 .. n /\ i \in DOMAIN es
    BY <1>5, <1>6
  <2>2. taken[i] = [es[i] EXCEPT !.status = "PENDING_ONCHAIN"]
    BY <1>3, <2>1
  <2>3. es[i].status \in Resumable /\ es[i].tx # NoTx
    BY <1>2 DEF ShouldResume
  <2>4. es[i] \in Entry
    BY <1>7, <2>1
  <2>5. PICK e \in Entry : e = es[i]
    BY <2>4
  <2>6. PICK e2 : e2 = [e EXCEPT !.status = "PENDING_ONCHAIN"]
    OBVIOUS
  <2>7. e2 \in Entry /\ e2.id = e.id /\ e2.tx = e.tx
    BY <1>8, <2>6, EntryStatus
  <2> QED BY <2>2, <2>3, <2>5, <2>6, <2>7
<1>10. ASSUME NEW i \in 1 .. n, i \notin fresh PROVE taken[i] = es[i]
  BY <1>3, <1>5, <1>10
<1>11. taken \in Seq(Entry)
  <2>1. \A i \in 1 .. n : taken[i] \in Entry
    BY <1>7, <1>9, <1>10
  <2>2. taken \in [1 .. n -> Entry]
    BY <1>3, <1>5, <2>1
  <2> QED BY <2>2
<1>12. PICK pos : entries' \in Seq(Entry) /\ Drawn(entries', taken, current, pos)
  BY <1>4, <1>6, <1>11, OnlyDraws
<1>13. pos \in [DOMAIN entries' -> DOMAIN es]
  BY <1>5, <1>6, <1>12 DEF Drawn
<1>14. ASSUME NEW k \in DOMAIN entries'
       PROVE  /\ pos[k] \in current /\ entries'[k] = taken[pos[k]]
              /\ ~ IsStaleForSession(es[pos[k]], c, m) /\ SameCall(entries'[k], es[pos[k]])
              /\ entries'[k].id = es[pos[k]].id /\ entries'[k].tx = es[pos[k]].tx
  <2>1. pos[k] \in current /\ entries'[k] = taken[pos[k]]
    BY <1>12 DEF Drawn
  <2>2. PICK i \in current : i = pos[k]
    BY <2>1
  <2>3. ~ IsStaleForSession(es[i], c, m) /\ i \in 1 .. n
    BY <1>1, <1>6
  <2>4. CASE i \in fresh
    BY <1>9, <2>1, <2>2, <2>3, <2>4 DEF SameCall
  <2>5. CASE i \notin fresh
    BY <1>10, <2>1, <2>2, <2>3, <2>5 DEF SameCall
  <2> QED BY <2>4, <2>5
<1>15. ASSUME NEW i \in DOMAIN es, ~ IsStaleForSession(es[i], c, m)
       PROVE  \E k \in DOMAIN entries' : pos[k] = i
  <2>1. i \in current
    BY <1>1, <1>15
  <2> QED BY <1>12, <2>1 DEF Drawn
<1>16. ASSUME NEW t \in tasks' \ ts
       PROVE  \E k \in DOMAIN entries' :
                t = Task(es[pos[k]].id, "retry", "polling", es[pos[k]]) /\ es[pos[k]].tx # NoTx
  <2>1. PICK i \in fresh : t = Task(es[i].id, "retry", "polling", es[i])
    BY <1>4
  <2>2. i \in current /\ es[i].tx # NoTx
    BY <1>6, <1>9
  <2>3. PICK k \in DOMAIN entries' : pos[k] = i
    BY <1>12, <2>2 DEF Drawn
  <2> QED BY <2>1, <2>2, <2>3
<1>17. resumed' \subseteq started \cup Ids(es)
  BY <1>4, <1>5, <1>6 DEF Ids
<1>18. ASSUME NEW k \in DOMAIN entries',
              entries'[k].status \in Resumable, entries'[k].tx # NoTx
       PROVE  /\ entries'[k].id \in resumed'
              /\ entries'[k].id \in started \/ \E t \in tasks' : t.id = entries'[k].id /\ t.at \in Follows
  <2>1. PICK i \in current : i = pos[k] /\ entries'[k] = taken[i] /\ entries'[k].id = es[i].id
    BY <1>14
  <2>2. CASE i \in fresh
    <3>1. Task(es[i].id, "retry", "polling", es[i]) \in tasks' /\ es[i].id \in resumed'
      BY <1>4, <2>2
    <3>2. /\ Task(es[i].id, "retry", "polling", es[i]).id = es[i].id
          /\ Task(es[i].id, "retry", "polling", es[i]).at \in Follows
      BY DEF Task, Follows
    <3> QED BY <2>1, <3>1, <3>2
  <2>3. CASE i \notin fresh
    <3>1. entries'[k] = es[i]
      BY <1>6, <1>10, <2>1, <2>3
    <3>2. ~ IsStaleForSession(es[i], c, m)
      BY <1>1
    <3>3. ShouldResume(es[i], c, m)
      BY <1>18, <3>1, <3>2 DEF ShouldResume
    <3>4. es[i].id \in started
      BY <1>2, <2>3, <3>3
    <3>5. es[i].id \in resumed'
      BY <1>4, <3>4
    <3> QED BY <2>1, <3>4, <3>5
  <2> QED BY <2>2, <2>3
<1>19. \A j, k \in DOMAIN entries' : pos[j] = pos[k] => j = k
  BY <1>12 DEF Drawn
<1>20. ts \subseteq tasks'
  BY <1>4
<1>21. Settled(es, ts, started, c, m, pos)
  BY <1>12, <1>13, <1>14, <1>15, <1>16, <1>17, <1>18, <1>19, <1>20 DEF Settled
<1> QED BY <1>21

LEMMA SameCallFields ==
  ASSUME NEW now, NEW was \in Entry, SameCall(now, was)
  PROVE  /\ now \in Entry /\ now.id = was.id /\ now.action = was.action /\ now.tx = was.tx
         /\ IsTerminal(now) = IsTerminal(was)
         /\ now.status \in Resumable => was.status \in Resumable
         /\ now = was \/ now.status = "PENDING_ONCHAIN"
<1>1. CASE now = was
  BY <1>1
<1>2. CASE now # was
  <2>1. was.status \in Resumable /\ now = [was EXCEPT !.status = "PENDING_ONCHAIN"]
    BY <1>2 DEF SameCall
  <2>2. "PENDING_ONCHAIN" \in Terminal \cup Open
    BY DEF Open
  <2>3. now \in Entry /\ now.id = was.id /\ now.action = was.action /\ now.tx = was.tx
        /\ now.status = "PENDING_ONCHAIN"
    BY <2>1, <2>2, EntryStatus
  <2>4. IsTerminal(now) = FALSE /\ IsTerminal(was) = FALSE
    BY <2>1, <2>3 DEF IsTerminal, Terminal, Resumable
  <2> QED BY <2>1, <2>3, <2>4
<1> QED BY <1>1, <1>2

LEMMA TaskFields ==
  ASSUME NEW e \in Entry, NEW kind \in {"send", "retry"}, NEW at \in Unsigned \cup Follows, NEW id \in Nat
  PROVE  /\ Task(id, kind, at, e) \in Running
         /\ Task(id, kind, at, e).id = id /\ Task(id, kind, at, e).at = at
         /\ Task(id, kind, at, e).kind = kind /\ Task(id, kind, at, e).tx = e.tx
         /\ Task(id, kind, at, e).action = e.action
BY DEF Entry, Task, Running

(* What holds of a list and the running functions still holds once they    *)
(* are reconciled, and now everything that is pending is followed.         *)
LEMMA Carried ==
  ASSUME NEW es, NEW ts, NEW started, NEW c, NEW m, NEW n \in Nat, NEW w, NEW r,
         Listed(es, n), Manned(es, ts, n), Honest(es, w), Attended(es, ts, started), Alone(es, ts, r),
         started \subseteq 1 .. n, Reconcile(es, ts, started, c, m)
  PROVE  /\ Listed(entries', n) /\ Manned(entries', tasks', n) /\ Honest(entries', w)
         /\ Attended(entries', tasks', resumed') /\ TakenUp(entries', resumed') /\ Current(entries', c, m)
         /\ Alone(entries', tasks', r) /\ resumed' \subseteq 1 .. n
<1>1. es \in Seq(Entry)
  BY DEF Listed
<1>2. PICK pos : Settled(es, ts, started, c, m, pos)
  BY <1>1, Reconciled
<1>3. PICK es2, ts2, st2 : es2 = entries' /\ ts2 = tasks' /\ st2 = resumed'
  OBVIOUS
<1>4. /\ pos \in [DOMAIN es2 -> DOMAIN es]
      /\ \A j, k \in DOMAIN es2 : pos[j] = pos[k] => j = k
      /\ \A k \in DOMAIN es2 : SameCall(es2[k], es[pos[k]])
      /\ ts \subseteq ts2
      /\ \A t \in ts2 \ ts : \E k \in DOMAIN es2 :
           t = Task(es[pos[k]].id, "retry", "polling", es[pos[k]]) /\ es[pos[k]].tx # NoTx
      /\ st2 \subseteq started \cup Ids(es)
      /\ \A k \in DOMAIN es2 :
           es2[k].status \in Resumable /\ es2[k].tx # NoTx =>
             /\ es2[k].id \in st2
             /\ es2[k].id \in started \/ \E t \in ts2 : t.id = es2[k].id /\ t.at \in Follows
  BY <1>2, <1>3 DEF Settled
<1>5. \A i \in DOMAIN es : es[i] \in Entry
  BY <1>1
<1>6. ASSUME NEW k \in DOMAIN es2
      PROVE  /\ pos[k] \in DOMAIN es /\ es2[k] \in Entry
             /\ es2[k].id = es[pos[k]].id /\ es2[k].action = es[pos[k]].action /\ es2[k].tx = es[pos[k]].tx
             /\ IsTerminal(es2[k]) = IsTerminal(es[pos[k]])
             /\ es2[k].status \in Resumable => es[pos[k]].status \in Resumable
             /\ es2[k] = es[pos[k]] \/ es2[k].status = "PENDING_ONCHAIN"
  <2>1. pos[k] \in DOMAIN es /\ SameCall(es2[k], es[pos[k]])
    BY <1>4
  <2> QED BY <1>5, <2>1, SameCallFields
<1>7. Listed(es2, n)
  <2>1. es2 \in Seq(Entry)
    BY <1>2, <1>3 DEF Settled
  <2>2. ASSUME NEW k \in DOMAIN es2
        PROVE  es2[k].id \in 1 .. n /\ (es2[k].status = "WAITING_FOR_WALLET" => es2[k].tx = NoTx)
    BY <1>6 DEF Listed
  <2>3. ASSUME NEW j \in DOMAIN es2, NEW k \in DOMAIN es2, es2[j].id = es2[k].id
        PROVE  j = k
    <3>1. es[pos[j]].id = es[pos[k]].id /\ pos[j] \in DOMAIN es /\ pos[k] \in DOMAIN es
      BY <1>6, <2>3
    <3>2. pos[j] = pos[k]
      BY <3>1 DEF Listed
    <3> QED BY <1>4, <3>2
  <2> QED BY <2>1, <2>2, <2>3 DEF Listed
<1>8. ASSUME NEW t \in ts2 \ ts
      PROVE  \E k \in DOMAIN es2 :
               /\ t \in Running /\ t.id = es2[k].id /\ t.tx = es2[k].tx /\ t.at = "polling"
               /\ t.tx \in Txs
  <2>1. PICK k \in DOMAIN es2 :
          t = Task(es[pos[k]].id, "retry", "polling", es[pos[k]]) /\ es[pos[k]].tx # NoTx
    BY <1>4
  <2>2. PICK e \in Entry : e = es[pos[k]] /\ e.id = es2[k].id /\ e.tx = es2[k].tx
    BY <1>5, <1>6
  <2>3. e.id \in Nat /\ e.tx \in Txs
    BY <2>1, <2>2, EntryFields
  <2>4. "polling" \in Unsigned \cup Follows
    BY DEF Follows
  <2>5. t = Task(e.id, "retry", "polling", e)
    BY <2>1, <2>2
  <2>6. t \in Running /\ t.id = e.id /\ t.at = "polling" /\ t.tx = e.tx
    BY <2>3, <2>4, <2>5, TaskFields
  <2> QED BY <2>2, <2>3, <2>6
<1>9. \A t \in ts2 : t.at \in Unsigned => t \in ts
  BY <1>8 DEF Unsigned
<1>10. Ids(es2) \subseteq Ids(es)
  BY <1>6 DEF Ids
<1>11. Manned(es2, ts2, n)
  <2>1. ts2 \subseteq Running /\ \A t \in ts2 : t.id \in 1 .. n
    <3>1. ASSUME NEW t \in ts2 PROVE t \in Running /\ t.id \in 1 .. n
      <4>1. CASE t \in ts
        BY <4>1 DEF Manned
      <4>2. CASE t \notin ts
        <5>1. PICK k \in DOMAIN es2 : t \in Running /\ t.id = es2[k].id
          BY <1>8, <4>2
        <5> QED BY <1>7, <5>1 DEF Listed
      <4> QED BY <4>1, <4>2
    <3> QED BY <3>1
  <2>2. ASSUME NEW t \in ts2, t.at \in Unsigned
        PROVE  t.kind = "send" /\ t.tx = NoTx /\ \A u \in ts2 : u.id = t.id => u = t
    <3>1. t \in ts /\ t.kind = "send" /\ t.tx = NoTx /\ \A u \in ts : u.id = t.id => u = t
      BY <1>9, <2>2 DEF Manned
    <3>2. ASSUME NEW u \in ts2 \ ts, u.id = t.id PROVE FALSE
      <4>1. PICK k \in DOMAIN es2 : u.id = es2[k].id /\ u.tx = es2[k].tx /\ u.tx \in Txs
        BY <1>8
      <4>2. es[pos[k]].id = t.id /\ pos[k] \in DOMAIN es /\ es[pos[k]].tx \in Txs
        BY <1>6, <3>2, <4>1
      <4>3. es[pos[k]].tx = t.tx
        BY <3>1, <4>2 DEF Manned
      <4> QED BY <3>1, <4>2, <4>3, ContractTxAssumption
    <3> QED BY <3>1, <3>2
  <2>3. ASSUME NEW t \in ts2, t.at \in Follows PROVE t.tx \in Txs
    BY <1>8, <2>3 DEF Manned
  <2>4. ASSUME NEW t \in ts2, t.at = "simulating"
        PROVE  t.action \in Actions /\ t.id \notin Ids(es2)
    BY <1>9, <1>10, <2>4 DEF Manned, Unsigned
  <2>5. ASSUME NEW t \in ts2, NEW k \in DOMAIN es2, es2[k].id = t.id
        PROVE  es2[k].tx = t.tx
    <3>1. CASE t \in ts
      BY <1>6, <2>5, <3>1 DEF Manned
    <3>2. CASE t \notin ts
      <4>1. PICK j \in DOMAIN es2 : t.id = es2[j].id /\ t.tx = es2[j].tx
        BY <1>8, <3>2
      <4>2. j = k
        BY <1>7, <2>5, <4>1 DEF Listed
      <4> QED BY <4>1, <4>2
    <3> QED BY <3>1, <3>2
  <2> QED BY <2>1, <2>2, <2>3, <2>4, <2>5 DEF Manned
<1>12. Honest(es2, w)
  <2>1. ASSUME NEW k \in DOMAIN es2
        PROVE  /\ es2[k].status \in {"VERIFIED", "REFRESHING_CONTRACT_STATE"} =>
                    es2[k].tx \in Txs /\ w[es2[k].tx] = "success"
               /\ es2[k].status = "MINED_REVERTED" /\ es2[k].tx # NoTx => w[es2[k].tx] = "reverted"
    <3>1. CASE es2[k] = es[pos[k]]
      BY <1>6, <3>1 DEF Honest
    <3>2. CASE es2[k].status = "PENDING_ONCHAIN"
      BY <3>2
    <3> QED BY <1>6, <3>1, <3>2
  <2> QED BY <2>1 DEF Honest
<1>13. ASSUME NEW k \in DOMAIN es2, es2[k].status \in Resumable, es2[k].tx # NoTx
       PROVE  es2[k].id \in st2 /\ \E t \in ts2 : t.id = es2[k].id /\ t.at \in Follows
  <2>1. /\ es2[k].id \in st2
        /\ es2[k].id \in started \/ \E t \in ts2 : t.id = es2[k].id /\ t.at \in Follows
    BY <1>4, <1>13
  <2>2. CASE es2[k].id \in started
    <3>1. /\ pos[k] \in DOMAIN es /\ es[pos[k]].status \in Resumable /\ es[pos[k]].tx # NoTx
          /\ es[pos[k]].id \in started /\ es[pos[k]].id = es2[k].id
      BY <1>6, <1>13, <2>2
    <3>2. PICK t \in ts : t.id = es[pos[k]].id /\ t.at \in Follows
      BY <3>1 DEF Attended
    <3> QED BY <1>4, <2>1, <3>1, <3>2
  <2> QED BY <2>1, <2>2
<1>14. Attended(es2, ts2, st2) /\ TakenUp(es2, st2)
  BY <1>13 DEF Attended, TakenUp
<1>15. Alone(es2, ts2, r)
  <2>1. ASSUME NEW i \in DOMAIN es2, NEW j \in DOMAIN es2,
               i # j, es2[i].action = es2[j].action, es2[i].action # NoAction,
               ~IsTerminal(es2[i]), ~IsTerminal(es2[j])
        PROVE  {es2[i].id, es2[j].id} \cap r # {}
    <3>1. pos[i] # pos[j]
      BY <1>4, <2>1
    <3>2. /\ pos[i] \in DOMAIN es /\ pos[j] \in DOMAIN es
          /\ es[pos[i]].action = es[pos[j]].action /\ es[pos[i]].action # NoAction
          /\ ~IsTerminal(es[pos[i]]) /\ ~IsTerminal(es[pos[j]])
      BY <1>6, <2>1
    <3>3. {es[pos[i]].id, es[pos[j]].id} \cap r # {}
      BY <3>1, <3>2 DEF Alone
    <3>4. es2[i].id = es[pos[i]].id /\ es2[j].id = es[pos[j]].id
      BY <1>6
    <3> QED BY <3>3, <3>4
  <2>2. ASSUME NEW i \in DOMAIN es2, NEW t \in ts2,
               t.at = "simulating", t.action = es2[i].action, ~IsTerminal(es2[i])
        PROVE  {es2[i].id, t.id} \cap r # {}
    <3>1. t \in ts
      BY <1>9, <2>2 DEF Unsigned
    <3>2. /\ pos[i] \in DOMAIN es /\ t.action = es[pos[i]].action /\ ~IsTerminal(es[pos[i]])
          /\ es2[i].id = es[pos[i]].id
      BY <1>6, <2>2
    <3>3. {es[pos[i]].id, t.id} \cap r # {}
      BY <2>2, <3>1, <3>2 DEF Alone
    <3> QED BY <3>2, <3>3
  <2>3. ASSUME NEW t \in ts2, NEW u \in ts2,
               t.at = "simulating", u.at = "simulating", t.action = u.action, t # u
        PROVE  {t.id, u.id} \cap r # {}
    <3>1. t \in ts /\ u \in ts
      BY <1>9, <2>3 DEF Unsigned
    <3> QED BY <2>3, <3>1 DEF Alone
  <2> QED BY <2>1, <2>2, <2>3 DEF Alone
<1>16. st2 \subseteq 1 .. n
  <2>1. Ids(es) \subseteq 1 .. n
    BY DEF Ids, Listed
  <2> QED BY <1>4, <2>1
<1>17. Current(es2, c, m)
  <2>1. SUFFICES ASSUME NEW k \in DOMAIN es2, IsStaleForSession(es2[k], c, m) PROVE FALSE
    BY DEF Current
  <2>2. /\ pos[k] \in DOMAIN es /\ SameCall(es2[k], es[pos[k]])
        /\ ~ IsStaleForSession(es[pos[k]], c, m)
    BY <1>2, <1>3, <1>4 DEF Settled
  <2>3. PICK was, now : was \in Entry /\ was = es[pos[k]] /\ now = es2[k]
    BY <1>5, <2>2
  <2>4. CASE now = was
    BY <2>1, <2>2, <2>3, <2>4
  <2>5. CASE was.status \in Resumable /\ was.tx # NoTx /\ now = [was EXCEPT !.status = "PENDING_ONCHAIN"]
    <3>1. now.tx = was.tx /\ now.monad = was.monad /\ now.wallet = was.wallet
      BY <2>5 DEF Entry
    <3> QED BY <2>1, <2>2, <2>3, <2>5, <3>1 DEF IsStaleForSession
  <2> QED BY <2>2, <2>3, <2>4, <2>5 DEF SameCall
<1> QED BY <1>3, <1>7, <1>11, <1>12, <1>14, <1>15, <1>16, <1>17

-----------------------------------------------------------------------------
(* Steps that change the list                                              *)

(* Every entry that has an action was there, or is that of a send that has *)
(* simulated, and no send starts to simulate.                              *)
Stems(es, running) ==
  /\ \A i \in DOMAIN es : es[i].action # NoAction =>
       \/ \E k \in DOMAIN entries : entries[k].id = es[i].id /\ entries[k].action = es[i].action
       \/ \E t \in tasks \ running :
            t.at = "simulating" /\ t.id = es[i].id /\ t.action = es[i].action
  /\ \A t \in running : t.at = "simulating" => t \in tasks /\ t.action \in Actions

LEMMA AloneKept ==
  ASSUME NEW es, NEW running, NEW n,
         Listed(es, n), Alone(entries, tasks, raced), Stems(es, running),
         raced' = (raced \cap (Ids(es) \cup {t.id : t \in running})) \cup Reopened(es)
  PROVE  Alone(es, running, raced')
<1>1. PICK r2 : r2 = raced'
  OBVIOUS
<1>2. \A id : id \in raced /\ id \in Ids(es) => id \in r2
  BY <1>1
<1>3. \A t \in running : t.id \in raced => t.id \in r2
  BY <1>1
<1>4. \A i \in DOMAIN es : es[i].id \in Ids(es)
  BY DEF Ids
(* Where an open entry comes from.                                         *)
<1>5. ASSUME NEW i \in DOMAIN es, es[i].action # NoAction, ~IsTerminal(es[i]), es[i].id \notin r2
      PROVE  \/ \E k \in DOMAIN entries :
                  /\ entries[k].id = es[i].id /\ entries[k].action = es[i].action
                  /\ ~IsTerminal(entries[k])
             \/ \E t \in tasks \ running :
                  t.at = "simulating" /\ t.id = es[i].id /\ t.action = es[i].action
  <2>1. ASSUME NEW k \in DOMAIN entries, entries[k].id = es[i].id, IsTerminal(entries[k])
        PROVE  FALSE
    <3>1. es[i].id \in Reopened(es)
      BY <1>5, <2>1 DEF Reopened
    <3> QED BY <1>1, <1>5, <3>1
  <2> QED BY <1>5, <2>1 DEF Stems
<1>6. ASSUME NEW i \in DOMAIN es, NEW j \in DOMAIN es,
             i # j, es[i].action = es[j].action, es[i].action # NoAction,
             ~IsTerminal(es[i]), ~IsTerminal(es[j])
      PROVE  {es[i].id, es[j].id} \cap r2 # {}
  <2>1. SUFFICES ASSUME es[i].id \notin r2, es[j].id \notin r2 PROVE FALSE
    OBVIOUS
  <2>2. es[i].id # es[j].id
    BY <1>6 DEF Listed
  <2>3. es[i].id \notin raced /\ es[j].id \notin raced
    BY <1>2, <1>4, <2>1
  <2>4. CASE \E k \in DOMAIN entries :
               /\ entries[k].id = es[i].id /\ entries[k].action = es[i].action
               /\ ~IsTerminal(entries[k])
    <3>1. PICK k \in DOMAIN entries :
               /\ entries[k].id = es[i].id /\ entries[k].action = es[i].action
               /\ ~IsTerminal(entries[k])
      BY <2>4
    <3>2. CASE \E l \in DOMAIN entries :
               /\ entries[l].id = es[j].id /\ entries[l].action = es[j].action
               /\ ~IsTerminal(entries[l])
      <4>1. PICK l \in DOMAIN entries :
               /\ entries[l].id = es[j].id /\ entries[l].action = es[j].action
               /\ ~IsTerminal(entries[l])
        BY <3>2
      <4>2. {entries[k].id, entries[l].id} \cap raced # {}
        BY <1>6, <2>2, <3>1, <4>1 DEF Alone
      <4> QED BY <2>3, <3>1, <4>1, <4>2
    <3>3. CASE \E t \in tasks \ running :
                 t.at = "simulating" /\ t.id = es[j].id /\ t.action = es[j].action
      <4>1. PICK t \in tasks : t.at = "simulating" /\ t.id = es[j].id /\ t.action = es[j].action
        BY <3>3
      <4>2. {entries[k].id, t.id} \cap raced # {}
        BY <1>6, <3>1, <4>1 DEF Alone
      <4> QED BY <2>3, <3>1, <4>1, <4>2
    <3>4. es[j].action # NoAction
      BY <1>6
    <3> QED BY <1>5, <1>6, <2>1, <3>2, <3>3, <3>4
  <2>5. CASE \E t \in tasks \ running :
               t.at = "simulating" /\ t.id = es[i].id /\ t.action = es[i].action
    <3>1. PICK t \in tasks : t.at = "simulating" /\ t.id = es[i].id /\ t.action = es[i].action
      BY <2>5
    <3>2. CASE \E l \in DOMAIN entries :
               /\ entries[l].id = es[j].id /\ entries[l].action = es[j].action
               /\ ~IsTerminal(entries[l])
      <4>1. PICK l \in DOMAIN entries :
               /\ entries[l].id = es[j].id /\ entries[l].action = es[j].action
               /\ ~IsTerminal(entries[l])
        BY <3>2
      <4>2. {entries[l].id, t.id} \cap raced # {}
        BY <1>6, <3>1, <4>1 DEF Alone
      <4> QED BY <2>3, <3>1, <4>1, <4>2
    <3>3. CASE \E u \in tasks \ running :
                 u.at = "simulating" /\ u.id = es[j].id /\ u.action = es[j].action
      <4>1. PICK u \in tasks : u.at = "simulating" /\ u.id = es[j].id /\ u.action = es[j].action
        BY <3>3
      <4>2. {t.id, u.id} \cap raced # {}
        BY <1>6, <2>2, <3>1, <4>1 DEF Alone
      <4> QED BY <2>3, <3>1, <4>1, <4>2
    <3>4. es[j].action # NoAction
      BY <1>6
    <3> QED BY <1>5, <1>6, <2>1, <3>2, <3>3, <3>4
  <2> QED BY <1>5, <1>6, <2>1, <2>4, <2>5
<1>7. ASSUME NEW i \in DOMAIN es, NEW t \in running,
             t.at = "simulating", t.action = es[i].action, ~IsTerminal(es[i])
      PROVE  {es[i].id, t.id} \cap r2 # {}
  <2>1. SUFFICES ASSUME es[i].id \notin r2, t.id \notin r2 PROVE FALSE
    OBVIOUS
  <2>2. t \in tasks /\ t.action \in Actions
    BY <1>7 DEF Stems
  <2>3. es[i].action # NoAction
    BY <1>7, <2>2, ContractTxAssumption
  <2>4. es[i].id \notin raced /\ t.id \notin raced
    BY <1>2, <1>3, <1>4, <2>1
  <2>5. CASE \E k \in DOMAIN entries :
               /\ entries[k].id = es[i].id /\ entries[k].action = es[i].action
               /\ ~IsTerminal(entries[k])
    <3>1. PICK k \in DOMAIN entries :
               /\ entries[k].id = es[i].id /\ entries[k].action = es[i].action
               /\ ~IsTerminal(entries[k])
      BY <2>5
    <3>2. {entries[k].id, t.id} \cap raced # {}
      BY <1>7, <2>2, <3>1 DEF Alone
    <3> QED BY <2>4, <3>1, <3>2
  <2>6. CASE \E u \in tasks \ running :
               u.at = "simulating" /\ u.id = es[i].id /\ u.action = es[i].action
    <3>1. PICK u \in tasks \ running : u.at = "simulating" /\ u.id = es[i].id /\ u.action = es[i].action
      BY <2>6
    <3>2. u # t
      BY <3>1
    <3>3. {t.id, u.id} \cap raced # {}
      BY <1>7, <2>2, <3>1, <3>2 DEF Alone
    <3> QED BY <2>4, <3>1, <3>3
  <2> QED BY <1>5, <1>7, <2>1, <2>3, <2>5, <2>6
<1>8. ASSUME NEW t \in running, NEW u \in running,
             t.at = "simulating", u.at = "simulating", t.action = u.action, t # u
      PROVE  {t.id, u.id} \cap r2 # {}
  <2>1. t \in tasks /\ u \in tasks
    BY <1>8 DEF Stems
  <2>2. {t.id, u.id} \cap raced # {}
    BY <1>8, <2>1 DEF Alone
  <2> QED BY <1>3, <2>2
<1> QED BY <1>1, <1>6, <1>7, <1>8 DEF Alone

(* A step that leaves the list es and the functions `running' keeps the    *)
(* invariant if they are sound, whatever the reconciliation makes of them. *)
LEMMA BecomesKeeps ==
  ASSUME TxInv, NEW es, NEW running, Becomes(es, running), UNCHANGED session,
         made' \in Nat, made <= made', net' \in [Txs -> Fates],
         Listed(es, made'), Manned(es, running, made'), Honest(es, net'),
         Attended(es, running, resumed), Stems(es, running)
  PROVE  TxInv'
<1> PICK n \in Nat : n = made'
  OBVIOUS
<1>1. PICK chain, r : n = made' /\ chain = net' /\ r = raced'
  OBVIOUS
<1>2. /\ Reconcile(es, running, resumed, account, monad)
      /\ raced' = (raced \cap (Ids(es) \cup {t.id : t \in running})) \cup Reopened(es)
  BY DEF Becomes
<1>3. Alone(es, running, r)
  BY <1>1, <1>2, AloneKept DEF TxInv
<1>4. resumed \subseteq 1 .. n
  BY <1>1 DEF TxInv
<1>5. /\ Listed(es, n) /\ Manned(es, running, n) /\ Honest(es, chain)
      /\ Attended(es, running, resumed)
  BY <1>1
<1>6. PICK st, c, m : st = resumed /\ c = account /\ m = monad
  OBVIOUS
<1>7. /\ Listed(entries', n) /\ Manned(entries', tasks', n) /\ Honest(entries', chain)
      /\ Attended(entries', tasks', resumed') /\ TakenUp(entries', resumed') /\ Current(entries', c, m)
      /\ Alone(entries', tasks', r) /\ resumed' \subseteq 1 .. n
  <2>1. Reconcile(es, running, st, c, m)
    BY <1>2, <1>6
  <2>2. st \subseteq 1 .. n /\ Attended(es, running, st)
    BY <1>4, <1>5, <1>6
  <2> QED BY <1>3, <1>5, <2>1, <2>2, Carried
<1>8. account' \in Wallets \cup {NoWallet} /\ monad' \in BOOLEAN
  BY DEF TxInv, session
<1>9. Listed(entries, made)' /\ Manned(entries, tasks, made)' /\ Honest(entries, net)'
      /\ Attended(entries, tasks, resumed)' /\ TakenUp(entries, resumed)' /\ Alone(entries, tasks, raced)'
  BY <1>1, <1>7 DEF Listed, Manned, Honest, Attended, TakenUp, Alone, Ids, IsTerminal
<1>10. Current(entries, account, monad)'
  <2>1. c = account' /\ m = monad' /\ Current(entries', c, m)
    BY <1>6, <1>7 DEF session
  <2> QED BY <2>1 DEF Current
<1> QED BY <1>1, <1>7, <1>8, <1>9, <1>10 DEF TxInv

(* A status is set: the functions of that id know its hash, if there is    *)
(* one, and follow it if it is pending; the others go on as they did.      *)
(* What it says of the hash is what the chain says.                        *)
Retells(es, ts, n, w, id, status, tx, running) ==
  /\ status \in (Terminal \cup Open) \ {"WAITING_FOR_WALLET"}
  /\ tx \in Txs \cup {NoTx}
  /\ running \subseteq Running
  /\ \A u \in running : u.id \in 1 .. n
  /\ \A u \in running : u.id # id => u \in ts
  /\ \A u \in ts : u.id # id => u \in running
  /\ \A u \in running : u.id = id =>
       u.at \in Follows /\ u.tx \in Txs /\ (id \in Ids(es) => u.tx = tx)
  /\ status \in Resumable /\ tx # NoTx => \E u \in running : u.id = id /\ u.at \in Follows
  /\ status \in {"VERIFIED", "REFRESHING_CONTRACT_STATE"} => tx \in Txs /\ w[tx] = "success"
  /\ status = "MINED_REVERTED" /\ tx # NoTx => w[tx] = "reverted"

LEMMA UpdateSound ==
  ASSUME NEW es, NEW ts, NEW n, Listed(es, n), Manned(es, ts, n), NEW w, Honest(es, w),
         NEW started, Attended(es, ts, started),
         NEW id, NEW status, NEW tx, NEW running, Retells(es, ts, n, w, id, status, tx, running)
  PROVE  /\ Listed(Update(es, id, status, tx), n) /\ Manned(Update(es, id, status, tx), running, n)
         /\ Honest(Update(es, id, status, tx), w) /\ Attended(Update(es, id, status, tx), running, started)
         /\ DOMAIN Update(es, id, status, tx) = DOMAIN es
         /\ \A i \in DOMAIN es : /\ Update(es, id, status, tx)[i].id = es[i].id
                                 /\ Update(es, id, status, tx)[i].action = es[i].action
<1> USE DEF Retells
<1>1. PICK es2 : es2 = Update(es, id, status, tx)
  OBVIOUS
<1>2. /\ es2 = [i \in DOMAIN es |->
           IF es[i].id = id THEN [es[i] EXCEPT !.status = status, !.tx = tx] ELSE es[i]]
  BY <1>1 DEF Update
<1>3. PICK c \in Nat : DOMAIN es = 1 .. c
  <2>1. Len(es) \in Nat /\ DOMAIN es = 1 .. Len(es)
    BY DEF Listed
  <2> QED BY <2>1
<1>4. DOMAIN es2 = 1 .. c /\ \A i \in 1 .. c : es[i] \in Entry
  <2>1. es \in Seq(Entry)
    BY DEF Listed
  <2>2. \A i \in DOMAIN es : es[i] \in Entry
    BY <2>1
  <2>3. DOMAIN es2 = DOMAIN es
    BY <1>2
  <2> QED BY <1>3, <2>2, <2>3
<1>5. ASSUME NEW i \in 1 .. c, es[i].id = id
      PROVE  /\ es2[i] \in Entry /\ es2[i].id = es[i].id /\ es2[i].action = es[i].action
             /\ es2[i].status = status /\ es2[i].tx = tx
  <2>1. PICK e \in Entry : e = es[i]
    BY <1>4
  <2>2. PICK e2 : e2 = [e EXCEPT !.status = status, !.tx = tx]
    OBVIOUS
  <2>3. es2[i] = e2
    BY <1>2, <1>3, <1>5, <2>1, <2>2
  <2>4. e2 \in Entry /\ e2.id = e.id /\ e2.action = e.action /\ e2.status = status /\ e2.tx = tx
    <3>1. PICK s \in Terminal \cup Open : s = status
      OBVIOUS
    <3>2. e2 = [e EXCEPT !.status = s, !.tx = tx]
      BY <2>2, <3>1
    <3>3. e2 \in Entry /\ e2.id = e.id /\ e2.action = e.action /\ e2.status = s /\ e2.tx = tx
      BY <3>2 DEF Entry
    <3> QED BY <3>1, <3>3
  <2> QED BY <2>1, <2>3, <2>4
<1>6. ASSUME NEW i \in 1 .. c, es[i].id # id PROVE es2[i] = es[i]
  BY <1>2, <1>3, <1>6
<1>7. ASSUME NEW i \in 1 .. c
      PROVE  es2[i] \in Entry /\ es2[i].id = es[i].id /\ es2[i].action = es[i].action
  BY <1>4, <1>5, <1>6
<1>8. Listed(es2, n)
  <2>1. es2 \in Seq(Entry)
    <3>1. es2 \in [1 .. c -> Entry]
      BY <1>2, <1>3, <1>7
    <3> QED BY <3>1
  <2>2. ASSUME NEW i \in 1 .. c, es2[i].status = "WAITING_FOR_WALLET" PROVE es2[i].tx = NoTx
    BY <1>3, <1>5, <1>6, <2>2 DEF Listed
  <2>3. \A i \in 1 .. c : es2[i].id \in 1 .. n
    BY <1>3, <1>7 DEF Listed
  <2>4. \A i, j \in 1 .. c : es2[i].id = es2[j].id => i = j
    BY <1>3, <1>7 DEF Listed
  <2> QED BY <1>4, <2>1, <2>2, <2>3, <2>4 DEF Listed
<1>9. Ids(es2) = Ids(es)
  BY <1>3, <1>4, <1>7 DEF Ids
<1>10. Manned(es2, running, n)
  <2>1. ASSUME NEW t \in running, t.at \in Unsigned
        PROVE  t.kind = "send" /\ t.tx = NoTx /\ \A u \in running : u.id = t.id => u = t
    <3>1. t.id # id
      BY <2>1 DEF Unsigned, Follows
    <3> QED BY <2>1, <3>1 DEF Manned
  <2>2. ASSUME NEW t \in running, t.at \in Follows PROVE t.tx \in Txs
    BY <2>2 DEF Manned
  <2>3. ASSUME NEW t \in running, t.at = "simulating"
        PROVE  t.action \in Actions /\ t.id \notin Ids(es2)
    <3>1. t.id # id
      BY <2>3 DEF Follows
    <3> QED BY <1>9, <2>3, <3>1 DEF Manned
  <2>4. ASSUME NEW t \in running, NEW i \in 1 .. c, es2[i].id = t.id PROVE es2[i].tx = t.tx
    <3>1. CASE t.id = id
      <4>1. es[i].id = id /\ id \in Ids(es)
        BY <1>3, <1>7, <2>4, <3>1 DEF Ids
      <4> QED BY <1>5, <3>1, <4>1
    <3>2. CASE t.id # id
      <4>1. t \in ts /\ es[i].id = t.id /\ es2[i] = es[i]
        BY <1>6, <1>7, <2>4, <3>2
      <4> QED BY <1>3, <4>1 DEF Manned
    <3> QED BY <3>1, <3>2
  <2> QED BY <1>4, <2>1, <2>2, <2>3, <2>4 DEF Manned
<1>11. Honest(es2, w)
  <2>1. ASSUME NEW i \in 1 .. c
        PROVE  /\ es2[i].status \in {"VERIFIED", "REFRESHING_CONTRACT_STATE"} =>
                    es2[i].tx \in Txs /\ w[es2[i].tx] = "success"
               /\ es2[i].status = "MINED_REVERTED" /\ es2[i].tx # NoTx => w[es2[i].tx] = "reverted"
    <3>1. CASE es[i].id = id
      BY <1>5, <3>1
    <3>2. CASE es[i].id # id
      BY <1>3, <1>6, <3>2 DEF Honest
    <3> QED BY <3>1, <3>2
  <2> QED BY <1>4, <2>1 DEF Honest
<1>12. Attended(es2, running, started)
  <2>1. ASSUME NEW i \in 1 .. c, es2[i].status \in Resumable, es2[i].tx # NoTx, es2[i].id \in started
        PROVE  \E t \in running : t.id = es2[i].id /\ t.at \in Follows
    <3>1. CASE es[i].id = id
      BY <1>5, <2>1, <3>1
    <3>2. CASE es[i].id # id
      <4>1. es2[i] = es[i]
        BY <1>6, <3>2
      <4>2. PICK t \in ts : t.id = es[i].id /\ t.at \in Follows
        BY <1>3, <2>1, <4>1 DEF Attended
      <4> QED BY <3>2, <4>1, <4>2
    <3> QED BY <3>1, <3>2
  <2> QED BY <1>4, <2>1 DEF Attended
<1> QED BY <1>1, <1>3, <1>4, <1>7, <1>8, <1>10, <1>11, <1>12

(* Entries that are tracked with ids of their own, while at most the sends *)
(* that simulated end and others that ask the wallet take their place.     *)
LEMMA TrackSound ==
  ASSUME NEW es, NEW ts, NEW n \in Nat, NEW n2 \in Nat, n <= n2,
         Listed(es, n), Manned(es, ts, n), NEW w, Honest(es, w),
         NEW started, Attended(es, ts, started),
         NEW new, Listed(new, n2), Honest(new, w), \A k \in DOMAIN new : new[k].id \notin Ids(es),
         NEW running, running \subseteq Running, Attended(new, running, started),
         \A u \in running : u.id \in 1 .. n2 /\
           \/ u \in ts
           \/ /\ u.at = "wallet" /\ u.kind = "send" /\ u.tx = NoTx /\ u.id \notin Ids(es)
              /\ \A v \in running : v.id = u.id => v = u,
         \A u \in ts : u \in running \/ u.at = "simulating",
         \A u \in running, k \in DOMAIN new : new[k].id = u.id => new[k].tx = u.tx /\ u.at # "simulating"
  PROVE  /\ Listed(Track(es, new), n2) /\ Manned(Track(es, new), running, n2)
         /\ Honest(Track(es, new), w) /\ Attended(Track(es, new), running, started)
         /\ \A k \in DOMAIN Track(es, new) :
              \/ k \in DOMAIN new /\ Track(es, new)[k] = new[k]
              \/ \E i \in DOMAIN es : Track(es, new)[k] = es[i]
<1>1. es \in Seq(Entry) /\ new \in Seq(Entry)
  BY DEF Listed
<1>2. PICK es2 : es2 = Track(es, new)
  OBVIOUS
<1>3. PICK a \in Nat : a = Len(new)
  <2>1. Len(new) \in Nat
    BY <1>1
  <2> QED BY <2>1
<1>4. PICK b \in Nat, c \in Nat : DOMAIN es = 1 .. b /\ DOMAIN es2 = 1 .. c
  <2>1. es2 \in Seq(Entry)
    BY <1>1, <1>2, TrackPlaces
  <2>2. Len(es) \in Nat /\ DOMAIN es = 1 .. Len(es) /\ Len(es2) \in Nat /\ DOMAIN es2 = 1 .. Len(es2)
    BY <1>1, <2>1
  <2> QED BY <2>2
<1>5. /\ es2 \in Seq(Entry)
      /\ \A k \in DOMAIN es2 :
           \/ k \in DOMAIN new /\ es2[k] = new[k]
           \/ k - a \in DOMAIN es /\ es2[k] = es[k - a] /\ k \notin DOMAIN new
  <2>1. /\ Track(es, new) \in Seq(Entry)
        /\ \A k \in DOMAIN Track(es, new) :
             \/ k \in DOMAIN new /\ Track(es, new)[k] = new[k]
             \/ k - Len(new) \in DOMAIN es /\ Track(es, new)[k] = es[k - Len(new)]
                /\ k \notin DOMAIN new
    BY <1>1, TrackPlaces
  <2> QED BY <1>2, <1>3, <2>1
<1>6. ASSUME NEW k \in DOMAIN es2
      PROVE  \/ k \in DOMAIN new /\ es2[k] = new[k] /\ es2[k].id \notin Ids(es)
             \/ k - a \in DOMAIN es /\ es2[k] = es[k - a] /\ es2[k].id \in Ids(es)
  BY <1>5 DEF Ids
<1>7. Listed(es2, n2)
  <2>1. ASSUME NEW k \in DOMAIN es2
        PROVE  es2[k].id \in 1 .. n2 /\ (es2[k].status = "WAITING_FOR_WALLET" => es2[k].tx = NoTx)
    <3>1. CASE k \in DOMAIN new /\ es2[k] = new[k]
      BY <3>1 DEF Listed
    <3>2. CASE k - a \in DOMAIN es /\ es2[k] = es[k - a]
      <4>1. es2[k].id \in 1 .. n /\ (es2[k].status = "WAITING_FOR_WALLET" => es2[k].tx = NoTx)
        BY <3>2 DEF Listed
      <4> QED BY <4>1
    <3> QED BY <1>6, <3>1, <3>2
  <2>2. ASSUME NEW j \in DOMAIN es2, NEW k \in DOMAIN es2, es2[j].id = es2[k].id PROVE j = k
    <3>1. CASE es2[k].id \in Ids(es)
      <4>1. j - a \in DOMAIN es /\ es2[j] = es[j - a] /\ k - a \in DOMAIN es /\ es2[k] = es[k - a]
        BY <1>6, <2>2, <3>1
      <4>2. j - a = k - a
        BY <2>2, <4>1 DEF Listed
      <4>3. j \in 1 .. c /\ k \in 1 .. c
        BY <1>4
      <4> QED BY <4>2, <4>3
    <3>2. CASE es2[k].id \notin Ids(es)
      <4>1. j \in DOMAIN new /\ es2[j] = new[j] /\ k \in DOMAIN new /\ es2[k] = new[k]
        BY <1>6, <2>2, <3>2
      <4> QED BY <2>2, <4>1 DEF Listed
    <3> QED BY <3>1, <3>2
  <2> QED BY <1>5, <2>1, <2>2 DEF Listed
<1>8. ASSUME NEW id \in Ids(es2) PROVE id \in Ids(es) \/ \E k \in DOMAIN new : id = new[k].id
  <2>1. PICK k \in DOMAIN es2 : id = es2[k].id
    BY DEF Ids
  <2> QED BY <1>6, <2>1
<1>9. Manned(es2, running, n2)
  <2>1. ASSUME NEW t \in running, t.at \in Unsigned
        PROVE  t.kind = "send" /\ t.tx = NoTx /\ \A u \in running : u.id = t.id => u = t
    <3>1. CASE t \in ts
      <4>1. t.kind = "send" /\ t.tx = NoTx /\ \A u \in ts : u.id = t.id => u = t
        BY <2>1, <3>1 DEF Manned
      <4>2. ASSUME NEW u \in running, u.id = t.id PROVE u = t
        BY <4>1, <4>2
      <4> QED BY <4>1, <4>2
    <3>2. CASE t \notin ts
      BY <3>2
    <3> QED BY <3>1, <3>2
  <2>2. ASSUME NEW t \in running, t.at \in Follows PROVE t \in ts /\ t.tx \in Txs
    <3>1. t.at # "wallet"
      BY <2>2 DEF Follows
    <3>2. t \in ts
      BY <3>1
    <3> QED BY <2>2, <3>2 DEF Manned
  <2>3. ASSUME NEW t \in running, t.at = "simulating" PROVE t.action \in Actions /\ t.id \notin Ids(es2)
    <3>1. t \in ts
      BY <2>3
    <3>2. t.action \in Actions /\ t.id \notin Ids(es)
      BY <2>3, <3>1 DEF Manned
    <3> QED BY <1>8, <2>3, <3>2
  <2>4. ASSUME NEW t \in running, NEW k \in DOMAIN es2, es2[k].id = t.id PROVE es2[k].tx = t.tx
    <3>1. CASE k \in DOMAIN new /\ es2[k] = new[k]
      BY <2>4, <3>1
    <3>2. CASE k - a \in DOMAIN es /\ es2[k] = es[k - a] /\ es2[k].id \in Ids(es)
      <4>1. t \in ts
        BY <2>4, <3>2
      <4> QED BY <2>4, <3>2, <4>1 DEF Manned
    <3> QED BY <1>6, <3>1, <3>2
  <2>5. \A t \in running : t.id \in 1 .. n2
    OBVIOUS
  <2> QED BY <2>1, <2>2, <2>3, <2>4, <2>5 DEF Manned
<1>10. Honest(es2, w)
  BY <1>6 DEF Honest
<1>11. Attended(es2, running, started)
  <2>1. ASSUME NEW k \in DOMAIN es2, es2[k].status \in Resumable, es2[k].tx # NoTx, es2[k].id \in started
        PROVE  \E t \in running : t.id = es2[k].id /\ t.at \in Follows
    <3>1. CASE k \in DOMAIN new /\ es2[k] = new[k]
      BY <2>1, <3>1 DEF Attended
    <3>2. CASE k - a \in DOMAIN es /\ es2[k] = es[k - a]
      <4>1. PICK t \in ts : t.id = es2[k].id /\ t.at \in Follows
        BY <2>1, <3>2 DEF Attended
      <4>2. t \in running
        BY <4>1 DEF Follows
      <4> QED BY <4>1, <4>2
    <3> QED BY <1>6, <3>1, <3>2
  <2> QED BY <2>1 DEF Attended
<1> QED BY <1>2, <1>6, <1>7, <1>9, <1>10, <1>11

(* A part of the list, or the list with other entries hidden.              *)
LEMMA SublistSound ==
  ASSUME NEW es, NEW ts, NEW n, Listed(es, n), Manned(es, ts, n), NEW w, Honest(es, w),
         NEW started, Attended(es, ts, started),
         NEW es2 \in Seq(Entry), NEW pos \in [DOMAIN es2 -> DOMAIN es],
         \A j, k \in DOMAIN es2 : pos[j] = pos[k] => j = k,
         \A k \in DOMAIN es2 :
           /\ es2[k].id = es[pos[k]].id /\ es2[k].action = es[pos[k]].action
           /\ es2[k].tx = es[pos[k]].tx /\ es2[k].status = es[pos[k]].status
  PROVE  /\ Listed(es2, n) /\ Manned(es2, ts, n) /\ Honest(es2, w) /\ Attended(es2, ts, started)
         /\ Ids(es2) \subseteq Ids(es)
<1>1. \A k \in DOMAIN es2 : pos[k] \in DOMAIN es
  OBVIOUS
<1>2. Listed(es2, n)
  BY <1>1 DEF Listed
<1>3. Ids(es2) \subseteq Ids(es)
  BY <1>1 DEF Ids
<1>4. Manned(es2, ts, n)
  BY <1>1, <1>3 DEF Manned
<1>5. Honest(es2, w)
  BY <1>1 DEF Honest
<1>6. Attended(es2, ts, started)
  BY <1>1 DEF Attended
<1> QED BY <1>2, <1>3, <1>4, <1>5, <1>6

(* What the chain has settled it does not take back.                       *)
LEMMA HonestLater ==
  ASSUME NEW es, NEW w, Honest(es, w), NEW x \in Txs, w[x] \notin Mined, NEW w2,
         \A y \in Txs : y # x => w2[y] = w[y], es \in Seq(Entry)
  PROVE  Honest(es, w2)
<1>1. \A i \in DOMAIN es : es[i].tx \in Txs \cup {NoTx}
  BY EntryFields
<1> QED BY <1>1 DEF Honest, Mined

-----------------------------------------------------------------------------
(* Every action keeps the invariant                                        *)

(* A function that goes on is that of the same call.                       *)
LEMMA TaskMoves ==
  ASSUME NEW t \in Running, NEW at \in Unsigned \cup Follows, NEW x \in Txs \cup {NoTx}
  PROVE  /\ LET u == [t EXCEPT !.at = at]
            IN  /\ u \in Running /\ u.id = t.id /\ u.at = at /\ u.tx = t.tx /\ u.kind = t.kind
                /\ u.action = t.action
         /\ LET u == [t EXCEPT !.at = at, !.tx = x]
            IN  u \in Running /\ u.id = t.id /\ u.at = at /\ u.tx = x /\ u.kind = t.kind
BY DEF Running

LEMMA NewEntryFields ==
  ASSUME NEW id \in Nat, NEW action \in Actions \cup {NoAction}, NEW wallet \in Wallets \cup {NoWallet},
         NEW onMonad \in BOOLEAN, NEW status \in Terminal \cup Open
  PROVE  LET e == NewEntry(id, action, wallet, onMonad, status)
         IN  e \in Entry /\ e.id = id /\ e.action = action /\ e.status = status /\ e.tx = NoTx
BY DEF Entry, NewEntry

(* A new send finds no open entry of its action, and if it finds another   *)
(* that simulates, the two have raced.                                     *)
LEMMA SendKeeps ==
  ASSUME TxInv, NEW action \in Actions, Send(action)
  PROVE  TxInv'
<1>1. PICK n \in Nat : n = made + 1 /\ made' = n /\ made <= n
  BY DEF Send, TxInv
<1>2. PICK e : e = NewEntry(n, action, account, monad, "PREPARING")
  OBVIOUS
<1>3. PICK t0 : t0 = Task(n, "send", "simulating", e)
  OBVIOUS
<1>4. account \in Wallets /\ monad \in BOOLEAN
  BY ContractTxAssumption DEF Send, TxInv
<1>5. t0 \in Running /\ t0.id = n /\ t0.kind = "send" /\ t0.at = "simulating" /\ t0.tx = NoTx
      /\ t0.action = action
  <2>1. e.action = action /\ e.tx = NoTx /\ e.wallet = account /\ e.monad = monad
    BY <1>2 DEF NewEntry
  <2> QED BY <1>3, <1>4, <2>1 DEF Task, Running, Unsigned
<1>6. PICK ts : ts = tasks \cup {t0} /\ tasks' = ts
  BY <1>1, <1>2, <1>3 DEF Send
<1>7. PICK r : r = raced'
  OBVIOUS
<1>8. /\ raced \subseteq r
      /\ \A t \in tasks : t.action = action /\ t.at = "simulating" => n \in r
  <2>1. raced' = IF {t \in tasks : t.action = action /\ t.at = "simulating"} = {} THEN raced
                 ELSE raced \cup {n} \cup {t.id : t \in {u \in tasks : u.action = action /\ u.at = "simulating"}}
    BY <1>1 DEF Send
  <2> QED BY <1>7, <2>1
<1>9. entries' = entries /\ resumed' = resumed /\ net' = net /\ account' = account /\ monad' = monad
  BY DEF Send, session
<1>10. \A i \in DOMAIN entries : entries[i].action = action => IsTerminal(entries[i])
  BY DEF Send, IsActionLocked
<1>11. \A i \in DOMAIN entries : entries[i].id # n /\ entries[i].id \in 1 .. n
  <2>1. \A i \in DOMAIN entries : entries[i].id \in 1 .. made
    BY DEF TxInv, Listed
  <2> QED BY <1>1, <2>1 DEF TxInv
<1>12. \A t \in tasks : t.id # n /\ t.id \in 1 .. n
  <2>1. \A t \in tasks : t.id \in 1 .. made
    BY DEF TxInv, Manned
  <2> QED BY <1>1, <2>1 DEF TxInv
<1>13. Listed(entries, n)
  BY <1>11 DEF TxInv, Listed
<1>14. Manned(entries, ts, n)
  <2>1. Manned(entries, tasks, made)
    BY DEF TxInv
  <2>2. n \notin Ids(entries)
    BY <1>11 DEF Ids
  <2>3. ts \subseteq Running /\ \A t \in ts : t.id \in 1 .. n
    <3>1. tasks \subseteq Running /\ n \in 1 .. n
      BY <1>1, <2>1 DEF Manned, TxInv
    <3> QED BY <1>5, <1>6, <1>12, <3>1
  <2>4. \A t \in ts : t.at \in Unsigned =>
          t.kind = "send" /\ t.tx = NoTx /\ \A u \in ts : u.id = t.id => u = t
    BY <1>5, <1>6, <1>12, <2>1 DEF Manned
  <2>5. \A t \in ts : t.at \in Follows => t.tx \in Txs
    BY <1>5, <1>6, <2>1 DEF Manned, Follows
  <2>6. \A t \in ts : t.at = "simulating" => t.action \in Actions /\ t.id \notin Ids(entries)
    BY <1>5, <1>6, <2>1, <2>2 DEF Manned
  <2>7. \A t \in ts : \A i \in DOMAIN entries : entries[i].id = t.id => entries[i].tx = t.tx
    BY <1>5, <1>6, <1>11, <2>1 DEF Manned
  <2> QED BY <2>3, <2>4, <2>5, <2>6, <2>7 DEF Manned
<1>15. Attended(entries, ts, resumed)
  BY <1>6 DEF TxInv, Attended
<1>16. Alone(entries, ts, r)
  <2>1. \A i, j \in DOMAIN entries :
          /\ i # j /\ entries[i].action = entries[j].action /\ entries[i].action # NoAction
          /\ ~IsTerminal(entries[i]) /\ ~IsTerminal(entries[j])
          => {entries[i].id, entries[j].id} \cap r # {}
    BY <1>8 DEF TxInv, Alone
  <2>2. ASSUME NEW i \in DOMAIN entries, NEW t \in ts,
               t.at = "simulating", t.action = entries[i].action, ~IsTerminal(entries[i])
        PROVE  {entries[i].id, t.id} \cap r # {}
    <3>1. t \in tasks
      BY <1>5, <1>6, <1>10, <2>2
    <3>2. {entries[i].id, t.id} \cap raced # {}
      BY <2>2, <3>1 DEF TxInv, Alone
    <3> QED BY <1>8, <3>2
  <2>3. ASSUME NEW t \in ts, NEW u \in ts,
               t.at = "simulating", u.at = "simulating", t.action = u.action, t # u
        PROVE  {t.id, u.id} \cap r # {}
    <3>1. CASE t \in tasks /\ u \in tasks
      <4>1. {t.id, u.id} \cap raced # {}
        BY <2>3, <3>1 DEF TxInv, Alone
      <4> QED BY <1>8, <4>1
    <3>2. CASE t = t0 /\ u \in tasks
      BY <1>5, <1>8, <2>3, <3>2
    <3>3. CASE u = t0 /\ t \in tasks
      BY <1>5, <1>8, <2>3, <3>3
    <3> QED BY <1>6, <2>3, <3>1, <3>2, <3>3
  <2> QED BY <2>1, <2>2, <2>3 DEF Alone
<1>17. resumed \subseteq 1 .. n
  BY <1>1 DEF TxInv
<1>18. Listed(entries, made)' /\ Manned(entries, tasks, made)' /\ Attended(entries, tasks, resumed)'
       /\ Alone(entries, tasks, raced)'
  BY <1>1, <1>6, <1>7, <1>9, <1>13, <1>14, <1>15, <1>16 DEF Listed, Manned, Attended, Alone, Ids, IsTerminal
<1>19. Honest(entries, net)' /\ TakenUp(entries, resumed)' /\ Current(entries, account, monad)'
  BY <1>9 DEF TxInv, Honest, TakenUp, Current, IsStaleForSession
<1> QED BY <1>1, <1>9, <1>17, <1>18, <1>19 DEF TxInv

(* The send of t simulated and its entry e is tracked, while the function  *)
(* ends or asks the wallet.                                                *)
LEMMA SimulatedKeeps ==
  ASSUME TxInv, NEW t \in tasks, t.at = "simulating",
         NEW e \in Entry, e.id = t.id, e.action \in {t.action, NoAction}, e.tx = NoTx,
         e.status \in {"MINED_REVERTED", "WAITING_FOR_WALLET"},
         NEW next, next = {} \/ next = {[t EXCEPT !.at = "wallet"]},
         Becomes(Track(entries, <<e>>), (tasks \ {t}) \cup next),
         UNCHANGED <<session, made, net>>
  PROVE  TxInv'
<1>1. PICK new, running, es2 :
        new = <<e>> /\ running = (tasks \ {t}) \cup next /\ es2 = Track(entries, new)
  OBVIOUS
<1>2. new \in Seq(Entry) /\ DOMAIN new = {1} /\ new[1] = e
  BY <1>1
<1>3. /\ Listed(entries, made) /\ Manned(entries, tasks, made) /\ Honest(entries, net)
      /\ Attended(entries, tasks, resumed) /\ made \in Nat /\ made <= made
  BY DEF TxInv
<1>4. t \in Running /\ t.id \in 1 .. made /\ t.kind = "send" /\ t.tx = NoTx
      /\ t.id \notin Ids(entries) /\ t.action \in Actions
      /\ \A u \in tasks : u.id = t.id => u = t
  BY <1>3 DEF Manned, Unsigned
<1>5. \A u \in next : u \in Running /\ u.id = t.id /\ u.at = "wallet" /\ u.kind = "send" /\ u.tx = NoTx
  <2>1. PICK u : u = [t EXCEPT !.at = "wallet"]
    OBVIOUS
  <2>2. u \in Running /\ u.id = t.id /\ u.at = "wallet" /\ u.tx = t.tx /\ u.kind = t.kind
    BY <1>4, <2>1 DEF Running, Unsigned
  <2>3. next = {} \/ next = {u}
    BY <2>1
  <2> QED BY <1>4, <2>2, <2>3
<1>6. \A u, v \in next : u = v
  OBVIOUS
<1>7. Listed(new, made)
  BY <1>2, <1>4 DEF Listed
<1>8. Honest(new, net)
  BY <1>2 DEF Honest
<1>9. \A k \in DOMAIN new : new[k].id \notin Ids(entries)
  BY <1>2, <1>4
<1>10. running \subseteq Running
  BY <1>1, <1>3, <1>5 DEF Manned
<1>11. Attended(new, running, resumed)
  BY <1>2 DEF Attended
<1>12. ASSUME NEW u \in running
       PROVE  /\ u.id \in 1 .. made
              /\ \/ u \in tasks
                 \/ /\ u.at = "wallet" /\ u.kind = "send" /\ u.tx = NoTx /\ u.id \notin Ids(entries)
                    /\ \A v \in running : v.id = u.id => v = u
  <2>1. CASE u \in tasks
    BY <1>3, <2>1 DEF Manned
  <2>2. CASE u \in next
    <3>1. \A v \in running : v.id = u.id => v \in next
      BY <1>1, <1>4, <1>5, <2>2
    <3> QED BY <1>4, <1>5, <1>6, <2>2, <3>1
  <2> QED BY <1>1, <2>1, <2>2
<1>13. \A u \in tasks : u \in running \/ u.at = "simulating"
  BY <1>1
<1>14. \A u \in running, k \in DOMAIN new : new[k].id = u.id => new[k].tx = u.tx /\ u.at # "simulating"
  BY <1>1, <1>2, <1>4, <1>5
<1>15. /\ Listed(es2, made) /\ Manned(es2, running, made) /\ Honest(es2, net)
       /\ Attended(es2, running, resumed)
       /\ \A k \in DOMAIN es2 : es2[k] = e \/ \E i \in DOMAIN entries : es2[k] = entries[i]
  <2>1. PICK n, started, w, es, ts :
          n \in Nat /\ n = made /\ started = resumed /\ w = net /\ es = entries /\ ts = tasks
    BY <1>3
  <2>2. /\ Listed(Track(es, new), n) /\ Manned(Track(es, new), running, n)
        /\ Honest(Track(es, new), w) /\ Attended(Track(es, new), running, started)
        /\ \A k \in DOMAIN Track(es, new) :
             \/ k \in DOMAIN new /\ Track(es, new)[k] = new[k]
             \/ \E i \in DOMAIN es : Track(es, new)[k] = es[i]
    BY <1>3, <1>7, <1>8, <1>9, <1>10, <1>11, <1>12, <1>13, <1>14, <2>1, TrackSound
  <2> QED BY <1>1, <1>2, <2>1, <2>2
<1>16. Stems(es2, running)
  <2>1. ASSUME NEW k \in DOMAIN es2, es2[k].action # NoAction
        PROVE  \/ \E i \in DOMAIN entries : entries[i].id = es2[k].id /\ entries[i].action = es2[k].action
               \/ \E u \in tasks \ running :
                    u.at = "simulating" /\ u.id = es2[k].id /\ u.action = es2[k].action
    <3>1. t \notin running
      BY <1>1, <1>5
    <3>2. CASE es2[k] = e
      BY <2>1, <3>1, <3>2
    <3> QED BY <1>15, <3>2
  <2>2. ASSUME NEW u \in running, u.at = "simulating" PROVE u \in tasks /\ u.action \in Actions
    <3>1. u \in tasks
      BY <1>1, <1>5, <2>2
    <3> QED BY <1>3, <2>2, <3>1 DEF Manned
  <2> QED BY <2>1, <2>2 DEF Stems
<1>17. made' = made /\ net' = net /\ net' \in [Txs -> Fates] /\ made' \in Nat /\ made <= made'
  BY <1>3 DEF TxInv
<1>18. Becomes(es2, running) /\ UNCHANGED session
  BY <1>1
<1> QED BY <1>15, <1>16, <1>17, <1>18, BecomesKeeps

LEMMA SimulationRevertsKeeps ==
  ASSUME TxInv, NEW t \in tasks, SimulationReverts(t)
  PROVE  TxInv'
<1>1. PICK e : e = NewEntry(t.id, NoAction, NoWallet, t.monad, "MINED_REVERTED")
  OBVIOUS
<1>2. t \in Running
  BY DEF TxInv, Manned
<1>3. e \in Entry /\ e.id = t.id /\ e.action = NoAction /\ e.tx = NoTx /\ e.status = "MINED_REVERTED"
  BY <1>1, <1>2 DEF Running, Entry, NewEntry, Terminal
<1>4. t.at = "simulating" /\ Becomes(Track(entries, <<e>>), (tasks \ {t}) \cup {})
      /\ UNCHANGED <<session, made, net>>
  <2>1. (tasks \ {t}) \cup {} = tasks \ {t}
    OBVIOUS
  <2> QED BY <1>1, <2>1 DEF SimulationReverts
<1> QED BY <1>3, <1>4, SimulatedKeeps

LEMMA AskWalletKeeps ==
  ASSUME TxInv, NEW t \in tasks, AskWallet(t)
  PROVE  TxInv'
<1>1. PICK e : e = NewEntry(t.id, t.action, t.wallet, t.monad, "WAITING_FOR_WALLET")
  OBVIOUS
<1>2. t \in Running
  BY DEF TxInv, Manned
<1>3. e \in Entry /\ e.id = t.id /\ e.action = t.action /\ e.tx = NoTx /\ e.status = "WAITING_FOR_WALLET"
  BY <1>1, <1>2 DEF Running, Entry, NewEntry, Open
<1>4. PICK next : next = {[t EXCEPT !.at = "wallet"]}
  OBVIOUS
<1>5. t.at = "simulating" /\ Becomes(Track(entries, <<e>>), (tasks \ {t}) \cup next)
      /\ UNCHANGED <<session, made, net>>
  BY <1>1, <1>4 DEF AskWallet
<1> QED BY <1>3, <1>4, <1>5, SimulatedKeeps

(* A function sets a status.                                               *)
LEMMA ReportKeeps ==
  ASSUME TxInv, NEW id, NEW status, NEW tx, NEW running,
         Retells(entries, tasks, made, net', id, status, tx, running),
         net' \in [Txs -> Fates], Honest(entries, net'),
         Becomes(Update(entries, id, status, tx), running), UNCHANGED <<session, made>>
  PROVE  TxInv'
<1>1. PICK es2 : es2 = Update(entries, id, status, tx)
  OBVIOUS
<1> PICK n \in Nat : n = made
  BY DEF TxInv
<1>2. PICK started, w, es, ts :
        n = made /\ started = resumed /\ w = net' /\ es = entries /\ ts = tasks
  BY DEF TxInv
<1>3. /\ Listed(es, n) /\ Manned(es, ts, n) /\ Honest(es, w) /\ Attended(es, ts, started)
  BY <1>2 DEF TxInv
<1>4. Retells(es, ts, n, w, id, status, tx, running)
  BY <1>2
<1>9. /\ Listed(Update(es, id, status, tx), n) /\ Manned(Update(es, id, status, tx), running, n)
      /\ Honest(Update(es, id, status, tx), w) /\ Attended(Update(es, id, status, tx), running, started)
      /\ DOMAIN Update(es, id, status, tx) = DOMAIN es
      /\ \A i \in DOMAIN es : /\ Update(es, id, status, tx)[i].id = es[i].id
                              /\ Update(es, id, status, tx)[i].action = es[i].action
  BY <1>3, <1>4, UpdateSound
<1>10. /\ Listed(es2, made') /\ Manned(es2, running, made') /\ Honest(es2, net')
       /\ Attended(es2, running, resumed)
       /\ \A i \in DOMAIN es2 :
            i \in DOMAIN entries /\ es2[i].id = entries[i].id /\ es2[i].action = entries[i].action
  BY <1>1, <1>2, <1>9
<1>11. Stems(es2, running)
  <2>1. \A u \in running : u.at = "simulating" => u \in ts
    BY <1>4 DEF Retells, Follows
  <2>2. \A u \in running : u.at = "simulating" => u \in tasks /\ u.action \in Actions
    BY <1>2, <1>3, <2>1 DEF Manned
  <2> QED BY <1>10, <2>2 DEF Stems
<1>12. made' \in Nat /\ made <= made' /\ Becomes(es2, running) /\ UNCHANGED session
  BY <1>1, <1>2
<1> QED BY <1>10, <1>11, <1>12, BecomesKeeps

(* Two functions of an id follow the same hash.                            *)
LEMMA SameHash ==
  ASSUME TxInv, NEW t \in tasks, t.at \in Follows, NEW u \in tasks, u.id = t.id
  PROVE  u.at \in Follows /\ u.tx \in Txs /\ (t.id \in Ids(entries) => u.tx = t.tx)
<1>1. Manned(entries, tasks, made)
  BY DEF TxInv
<1>2. u.at \in Follows
  <2>1. SUFFICES ASSUME u.at \in Unsigned PROVE FALSE
    BY <1>1 DEF Manned, Running
  <2>2. t = u
    BY <1>1, <2>1 DEF Manned
  <2> QED BY <2>1, <2>2 DEF Unsigned, Follows
<1>3. u.tx \in Txs
  BY <1>1, <1>2 DEF Manned
<1>4. t.id \in Ids(entries) => u.tx = t.tx
  BY <1>1 DEF Manned, Ids
<1> QED BY <1>2, <1>3, <1>4

(* A function that knows the hash reports of it.                           *)
LEMMA FollowerReports ==
  ASSUME TxInv, NEW t \in tasks, t.at \in Follows,
         NEW status \in (Terminal \cup Open) \ {"WAITING_FOR_WALLET"}, NEW at \in Follows,
         NEW next, \/ next = {} /\ status \notin Resumable
                   \/ next = {[t EXCEPT !.at = at]},
         status \in {"VERIFIED", "REFRESHING_CONTRACT_STATE"} => net[t.tx] = "success",
         status = "MINED_REVERTED" => net[t.tx] = "reverted",
         Reports(t, status, t.tx, next), UNCHANGED <<session, made, net>>
  PROVE  TxInv'
<1>1. t \in Running /\ t.id \in 1 .. made /\ t.id \in Nat /\ t.tx \in Txs
  BY DEF TxInv, Manned
<1>2. PICK id, tx, running : id = t.id /\ tx = t.tx /\ running = (tasks \ {t}) \cup next
  OBVIOUS
<1>3. \A u \in tasks \ {t} : u.id = id =>
        u.at \in Follows /\ u.tx \in Txs /\ (id \in Ids(entries) => u.tx = tx)
  BY <1>2, SameHash
<1>4. \A u \in next : u \in Running /\ u.id = id /\ u.at \in Follows /\ u.tx = tx
  <2>1. PICK u : u = [t EXCEPT !.at = at]
    OBVIOUS
  <2>2. u \in Running /\ u.id = t.id /\ u.at = at /\ u.tx = t.tx
    BY <1>1, <2>1 DEF Running
  <2> QED BY <1>1, <1>2, <2>1, <2>2
<1>5. tasks \subseteq Running /\ \A u \in tasks : u.id \in 1 .. made
  BY DEF TxInv, Manned
<1>6. Retells(entries, tasks, made, net', id, status, tx, running)
  <2>1. running \subseteq Running /\ \A u \in running : u.id \in 1 .. made
    BY <1>1, <1>2, <1>4, <1>5
  <2>2. (\A u \in running : u.id # id => u \in tasks) /\ (\A u \in tasks : u.id # id => u \in running)
    BY <1>2, <1>4
  <2>3. \A u \in running : u.id = id =>
          u.at \in Follows /\ u.tx \in Txs /\ (id \in Ids(entries) => u.tx = tx)
    BY <1>1, <1>2, <1>3, <1>4
  <2>4. status \in Resumable /\ tx # NoTx => \E u \in running : u.id = id /\ u.at \in Follows
    BY <1>2, <1>4
  <2>5. /\ status \in {"VERIFIED", "REFRESHING_CONTRACT_STATE"} => tx \in Txs /\ net'[tx] = "success"
        /\ status = "MINED_REVERTED" /\ tx # NoTx => net'[tx] = "reverted"
    BY <1>1, <1>2
  <2> QED BY <1>1, <1>2, <2>1, <2>2, <2>3, <2>4, <2>5 DEF Retells
<1>7. net' \in [Txs -> Fates] /\ Honest(entries, net')
  <2>1. net \in [Txs -> Fates] /\ Honest(entries, net)
    BY DEF TxInv
  <2> QED BY <2>1
<1>8. Becomes(Update(entries, id, status, tx), running) /\ UNCHANGED <<session, made>>
  BY <1>2 DEF Reports
<1> QED BY <1>6, <1>7, <1>8, ReportKeeps

LEMMA WalletRefusesKeeps ==
  ASSUME TxInv, NEW t \in tasks, WalletRefuses(t)
  PROVE  TxInv'
<1>1. PICK status \in {"USER_REJECTED", "TIMEOUT_OR_RPC_ERROR"} : Reports(t, status, NoTx, {})
  BY DEF WalletRefuses
<1>2. Manned(entries, tasks, made) /\ t.at = "wallet"
  BY DEF TxInv, WalletRefuses
<1>3. \A u \in tasks : u.id = t.id => u = t
  BY <1>2 DEF Manned, Unsigned
<1>4. PICK id, tx, running : id = t.id /\ tx = NoTx /\ running = tasks \ {t}
  OBVIOUS
<1>5. \A u \in running : u \in tasks /\ u.id # id
  BY <1>3, <1>4
<1>6. Retells(entries, tasks, made, net', id, status, tx, running)
  <2>1. running \subseteq Running /\ \A u \in running : u.id \in 1 .. made
    BY <1>2, <1>5 DEF Manned
  <2>2. (\A u \in running : u.id # id => u \in tasks) /\ (\A u \in tasks : u.id # id => u \in running)
    BY <1>4, <1>5
  <2>3. status \in (Terminal \cup Open) \ {"WAITING_FOR_WALLET"} /\ tx \in Txs \cup {NoTx}
        /\ status \notin {"VERIFIED", "REFRESHING_CONTRACT_STATE", "MINED_REVERTED"}
    BY <1>4 DEF Terminal, Open
  <2> QED BY <1>4, <1>5, <2>1, <2>2, <2>3 DEF Retells
<1>7. net' \in [Txs -> Fates] /\ Honest(entries, net') /\ UNCHANGED <<session, made>>
  <2>1. net \in [Txs -> Fates] /\ Honest(entries, net) /\ net' = net
    BY DEF TxInv, WalletRefuses
  <2>2. UNCHANGED <<session, made>>
    BY DEF WalletRefuses
  <2> QED BY <2>1, <2>2
<1>8. Becomes(Update(entries, id, status, tx), running)
  <2>1. (tasks \ {t}) \cup {} = running
    BY <1>4
  <2> QED BY <1>1, <1>4, <2>1 DEF Reports
<1> QED BY <1>6, <1>7, <1>8, ReportKeeps

LEMMA WalletSignsKeeps ==
  ASSUME TxInv, NEW t \in tasks, WalletSigns(t)
  PROVE  TxInv'
<1>1. PICK x \in Txs :
        /\ net[x] = "unsent"
        /\ net' = [net EXCEPT ![x] = IF monad THEN "sent" ELSE "elsewhere"]
        /\ Reports(t, "BROADCAST_REQUESTED", x, {[t EXCEPT !.at = "propagating", !.tx = x]})
  BY DEF WalletSigns
<1>2. Manned(entries, tasks, made) /\ t.at = "wallet"
  BY DEF TxInv, WalletSigns
<1>3. \A u \in tasks : u.id = t.id => u = t
  BY <1>2 DEF Manned, Unsigned
<1>4. t \in Running /\ t.id \in 1 .. made
  BY <1>2 DEF Manned
<1>5. PICK u2 : u2 = [t EXCEPT !.at = "propagating", !.tx = x]
  OBVIOUS
<1>6. u2 \in Running /\ u2.id = t.id /\ u2.at = "propagating" /\ u2.tx = x
  BY <1>4, <1>5 DEF Running, Follows
<1>7. PICK id, running, status : id = t.id /\ running = (tasks \ {t}) \cup {u2} /\ status = "BROADCAST_REQUESTED"
  OBVIOUS
<1>8. \A u \in running : u = u2 \/ (u \in tasks /\ u.id # id)
  BY <1>3, <1>7
<1>9. Retells(entries, tasks, made, net', id, status, x, running)
  <2>1. running \subseteq Running /\ \A u \in running : u.id \in 1 .. made
    <3>1. tasks \subseteq Running /\ \A u \in tasks : u.id \in 1 .. made
      BY <1>2 DEF Manned
    <3> QED BY <1>4, <1>6, <1>8, <3>1
  <2>2. (\A u \in running : u.id # id => u \in tasks) /\ (\A u \in tasks : u.id # id => u \in running)
    BY <1>6, <1>7, <1>8
  <2>3. status \in (Terminal \cup Open) \ {"WAITING_FOR_WALLET"} /\ x \in Txs \cup {NoTx}
        /\ status \notin {"VERIFIED", "REFRESHING_CONTRACT_STATE", "MINED_REVERTED"} \cup Resumable
    BY <1>7 DEF Terminal, Open, Resumable
  <2>4. \A u \in running : u.id = id => u.at \in Follows /\ u.tx \in Txs /\ u.tx = x
    BY <1>6, <1>8 DEF Follows
  <2> QED BY <2>1, <2>2, <2>3, <2>4 DEF Retells
<1>10. net' \in [Txs -> Fates] /\ Honest(entries, net') /\ UNCHANGED <<session, made>>
  <2>1. net \in [Txs -> Fates] /\ Honest(entries, net) /\ entries \in Seq(Entry)
    BY DEF TxInv, Listed
  <2>2. net' \in [Txs -> Fates]
    BY <1>1, <2>1 DEF Fates
  <2>3. PICK w, w2 : w = net /\ w2 = net'
    OBVIOUS
  <2>4. \A y \in Txs : y # x => w2[y] = w[y]
    BY <1>1, <2>1, <2>3
  <2>5. w[x] \notin Mined
    BY <1>1, <2>3 DEF Mined
  <2>6. Honest(entries, w2)
    BY <2>1, <2>3, <2>4, <2>5, HonestLater
  <2>7. UNCHANGED <<session, made>>
    BY DEF WalletSigns
  <2> QED BY <2>2, <2>3, <2>6, <2>7
<1>11. Becomes(Update(entries, id, status, x), running)
  BY <1>1, <1>5, <1>7 DEF Reports
<1> QED BY <1>9, <1>10, <1>11, ReportKeeps

LEMMA PropagatesKeeps ==
  ASSUME TxInv, NEW t \in tasks, Propagates(t)
  PROVE  TxInv'
<1>1. t.at \in Follows /\ UNCHANGED <<session, made, net>>
  BY DEF Propagates, Follows
<1>2. \/ Reports(t, "PENDING_ONCHAIN", t.tx, {[t EXCEPT !.at = "polling"]})
      \/ \E decision \in {"WALLET_RPC_DIVERGED", "BROADCAST_FAILED_NOT_PROPAGATED"} :
           Reports(t, decision, t.tx, {})
  BY DEF Propagates
<1>3. CASE Reports(t, "PENDING_ONCHAIN", t.tx, {[t EXCEPT !.at = "polling"]})
  <2>1. PICK status, at, next : status = "PENDING_ONCHAIN" /\ at = "polling" /\ next = {[t EXCEPT !.at = at]}
    OBVIOUS
  <2>2. status \in (Terminal \cup Open) \ {"WAITING_FOR_WALLET"} /\ at \in Follows
        /\ status \notin {"VERIFIED", "REFRESHING_CONTRACT_STATE", "MINED_REVERTED"}
    BY <2>1 DEF Open, Follows
  <2>3. Reports(t, status, t.tx, next)
    BY <1>3, <2>1
  <2> QED BY <1>1, <2>1, <2>2, <2>3, FollowerReports
<1>4. CASE \E decision \in {"WALLET_RPC_DIVERGED", "BROADCAST_FAILED_NOT_PROPAGATED"} :
             Reports(t, decision, t.tx, {})
  <2>1. PICK status, next : status \in {"WALLET_RPC_DIVERGED", "BROADCAST_FAILED_NOT_PROPAGATED"} /\ next = {}
                /\ Reports(t, status, t.tx, next)
    BY <1>4
  <2>2. status \in (Terminal \cup Open) \ {"WAITING_FOR_WALLET"} /\ "polling" \in Follows
        /\ status \notin {"VERIFIED", "REFRESHING_CONTRACT_STATE", "MINED_REVERTED"} \cup Resumable
    BY <2>1 DEF Open, Terminal, Follows, Resumable
  <2> QED BY <1>1, <2>1, <2>2, FollowerReports
<1> QED BY <1>2, <1>3, <1>4

LEMMA PollKeeps ==
  ASSUME TxInv, NEW t \in tasks, Poll(t)
  PROVE  TxInv'
<1>1. t.at \in Follows /\ UNCHANGED <<session, made, net>>
  BY DEF Poll, Follows
<1>2. PICK result \in PollResults(t.tx) :
        IF result # "success" THEN Reports(t, StatusOf(result), t.tx, {})
        ELSE IF t.kind = "retry" THEN Reports(t, "VERIFIED", t.tx, {})
        ELSE Reports(t, "REFRESHING_CONTRACT_STATE", t.tx, {[t EXCEPT !.at = "verifying"]})
  BY DEF Poll
<1>3. /\ result \in {"success", "reverted", "nonce_blocked", "pending", "not_found"}
      /\ result \in Mined => net[t.tx] = result
  BY <1>2 DEF PollResults, Mined
<1>4. PICK next : next = {}
  OBVIOUS
<1>5. CASE result # "success"
  <2>1. PICK status : status = StatusOf(result)
    OBVIOUS
  <2>2. /\ status \in {"MINED_REVERTED", "NONCE_BLOCKED", "NOT_FOUND", "TIMEOUT_OR_RPC_ERROR"}
        /\ status = "MINED_REVERTED" => result = "reverted"
    BY <1>3, <1>5, <2>1 DEF StatusOf
  <2>3. /\ status \in (Terminal \cup Open) \ {"WAITING_FOR_WALLET"} /\ "polling" \in Follows
        /\ status \notin {"VERIFIED", "REFRESHING_CONTRACT_STATE"} \cup Resumable
        /\ status = "MINED_REVERTED" => net[t.tx] = "reverted"
    BY <1>3, <2>2 DEF Open, Terminal, Follows, Resumable, Mined
  <2>4. Reports(t, status, t.tx, next)
    BY <1>2, <1>4, <1>5, <2>1
  <2> QED BY <1>1, <1>4, <2>3, <2>4, FollowerReports
<1>6. CASE result = "success" /\ t.kind = "retry"
  <2>1. PICK status : status = "VERIFIED"
    OBVIOUS
  <2>2. /\ status \in (Terminal \cup Open) \ {"WAITING_FOR_WALLET"} /\ "polling" \in Follows
        /\ status \notin Resumable /\ status # "MINED_REVERTED" /\ net[t.tx] = "success"
    BY <1>3, <1>6, <2>1 DEF Open, Terminal, Follows, Resumable, Mined
  <2>3. Reports(t, status, t.tx, next)
    BY <1>2, <1>4, <1>6, <2>1
  <2> QED BY <1>1, <1>4, <2>2, <2>3, FollowerReports
<1>7. CASE result = "success" /\ t.kind # "retry"
  <2>1. PICK status, at, go : status = "REFRESHING_CONTRACT_STATE" /\ at = "verifying" /\ go = {[t EXCEPT !.at = at]}
    OBVIOUS
  <2>2. /\ status \in (Terminal \cup Open) \ {"WAITING_FOR_WALLET"} /\ at \in Follows
        /\ status # "MINED_REVERTED" /\ net[t.tx] = "success"
    BY <1>3, <1>7, <2>1 DEF Open, Follows, Mined
  <2>3. Reports(t, status, t.tx, go)
    BY <1>2, <1>7, <2>1
  <2> QED BY <1>1, <2>1, <2>2, <2>3, FollowerReports
<1> QED BY <1>5, <1>6, <1>7

LEMMA VerifyKeeps ==
  ASSUME TxInv, NEW t \in tasks, Verify(t)
  PROVE  TxInv'
<1>1. t.at \in Follows /\ UNCHANGED <<session, made, net>>
  BY DEF Verify, Follows
<1>2. PICK status, next :
        /\ next = {} /\ Reports(t, status, t.tx, next)
        /\ \/ status = "VERIFIED" /\ net[t.tx] = "success"
           \/ status = "TIMEOUT_OR_RPC_ERROR"
  BY DEF Verify
<1>3. /\ status \in (Terminal \cup Open) \ {"WAITING_FOR_WALLET"} /\ "polling" \in Follows
      /\ status \notin Resumable /\ status # "MINED_REVERTED"
      /\ status \in {"VERIFIED", "REFRESHING_CONTRACT_STATE"} => net[t.tx] = "success"
  BY <1>2 DEF Open, Terminal, Follows, Resumable
<1> QED BY <1>1, <1>2, <1>3, FollowerReports

LEMMA MineKeeps ==
  ASSUME TxInv, NEW x \in Txs, Mine(x)
  PROVE  TxInv'
<1>1. PICK outcome \in Mined : net' = [net EXCEPT ![x] = outcome]
  BY DEF Mine
<1>2. net \in [Txs -> Fates] /\ Honest(entries, net) /\ entries \in Seq(Entry)
  BY DEF TxInv, Listed
<1>3. net' \in [Txs -> Fates]
  BY <1>1, <1>2 DEF Fates
<1>4. PICK w, w2 : w = net /\ w2 = net'
  OBVIOUS
<1>5. \A y \in Txs : y # x => w2[y] = w[y]
  BY <1>1, <1>2, <1>4
<1>6. w[x] \notin Mined
  BY <1>4 DEF Mined, Mine
<1>7. Honest(entries, w2)
  BY <1>2, <1>4, <1>5, <1>6, HonestLater
<1>8. entries' = entries /\ tasks' = tasks /\ resumed' = resumed /\ account' = account /\ monad' = monad
      /\ made' = made /\ raced' = raced
  BY DEF Mine, page, session
<1>9. Honest(entries, net)'
  BY <1>4, <1>7, <1>8 DEF Honest
<1>10. Listed(entries, made)' /\ Manned(entries, tasks, made)' /\ Attended(entries, tasks, resumed)'
       /\ Alone(entries, tasks, raced)' /\ TakenUp(entries, resumed)' /\ Current(entries, account, monad)'
  BY <1>8 DEF TxInv, Listed, Manned, Attended, Alone, TakenUp, Current, IsStaleForSession, Ids, IsTerminal
<1> QED BY <1>3, <1>8, <1>9, <1>10 DEF TxInv

LEMMA IdleKeeps ==
  ASSUME TxInv, FetchUnresolved \/ UNCHANGED contractTxVars
  PROVE  TxInv'
<1>1. entries' = entries /\ tasks' = tasks /\ resumed' = resumed /\ account' = account /\ monad' = monad
      /\ made' = made /\ raced' = raced /\ net' = net
  BY DEF FetchUnresolved, contractTxVars, page, session
<1>2. Listed(entries, made)' /\ Manned(entries, tasks, made)' /\ Attended(entries, tasks, resumed)'
      /\ Alone(entries, tasks, raced)' /\ TakenUp(entries, resumed)' /\ Current(entries, account, monad)' /\ Honest(entries, net)'
  BY <1>1 DEF TxInv, Listed, Manned, Attended, Alone, TakenUp, Current, IsStaleForSession, Honest, Ids, IsTerminal
<1> QED BY <1>1, <1>2 DEF TxInv

(* The drawer shows entries of the list.                                   *)
LEMMA DrawerShows ==
  ASSUME entries \in Seq(Entry), NEW e \in InDrawer
  PROVE  \E i \in DOMAIN entries : e = entries[i] /\ ~ e.hidden
<1>1. PICK P : P = {i \in DOMAIN entries : ~entries[i].hidden}
  OBVIOUS
<1>2. PICK j \in DOMAIN Visible : e = Visible[j]
  BY DEF InDrawer
<1>3. Visible = Only(entries, P)
  BY <1>1 DEF Visible
<1>4. P \in SUBSET DOMAIN entries
  BY <1>1
<1>5. PICK pos : Drawn(Only(entries, P), entries, P, pos)
  BY <1>4, OnlyDraws
<1>6. j \in DOMAIN Only(entries, P) /\ e = Only(entries, P)[j]
  BY <1>2, <1>3
<1>7. pos[j] \in P /\ Only(entries, P)[j] = entries[pos[j]]
  BY <1>5, <1>6 DEF Drawn
<1> QED BY <1>1, <1>6, <1>7

LEMMA CheckAgainKeeps ==
  ASSUME TxInv, NEW e \in InDrawer, CheckAgain(e)
  PROVE  TxInv'
<1>1. entries \in Seq(Entry) /\ Manned(entries, tasks, made) /\ Listed(entries, made)
  BY DEF TxInv, Listed
<1>2. PICK i \in DOMAIN entries : e = entries[i]
  BY <1>1, DrawerShows
<1>3. e \in Entry /\ e.id \in 1 .. made /\ e.id \in Nat /\ e.tx \in Txs
  <2>1. e \in Entry
    BY <1>1, <1>2
  <2>2. e.id \in 1 .. made
    BY <1>1, <1>2 DEF Listed
  <2>3. e.tx # NoTx
    BY DEF CheckAgain, OffersCheck
  <2> QED BY <2>1, <2>2, <2>3, EntryFields
<1>4. PICK u2 : u2 = Task(e.id, "retry", "polling", e)
  OBVIOUS
<1>5. u2 \in Running /\ u2.id = e.id /\ u2.at = "polling" /\ u2.tx = e.tx
  <2>1. "polling" \in Unsigned \cup Follows /\ "retry" \in {"send", "retry"}
    BY DEF Follows
  <2> QED BY <1>3, <1>4, <2>1, TaskFields
<1>6. PICK id, tx, running, status :
        id = e.id /\ tx = e.tx /\ running = tasks \cup {u2} /\ status = "PENDING_ONCHAIN"
  OBVIOUS
<1>7. ASSUME NEW u \in tasks, u.id = id
      PROVE  u.at \in Follows /\ u.tx \in Txs /\ u.tx = tx
  <2>1. u.tx = e.tx
    BY <1>1, <1>2, <1>6, <1>7 DEF Manned
  <2>2. u.tx # NoTx
    BY <1>3, <2>1, ContractTxAssumption
  <2>3. u.at \notin Unsigned /\ u \in Running
    BY <1>1, <2>2 DEF Manned
  <2> QED BY <1>3, <1>6, <2>1, <2>3 DEF Running
<1>8. Retells(entries, tasks, made, net', id, status, tx, running)
  <2>1. running \subseteq Running /\ \A u \in running : u.id \in 1 .. made
    <3>1. tasks \subseteq Running /\ \A u \in tasks : u.id \in 1 .. made
      BY <1>1 DEF Manned
    <3> QED BY <1>3, <1>5, <1>6, <3>1
  <2>2. (\A u \in running : u.id # id => u \in tasks) /\ (\A u \in tasks : u.id # id => u \in running)
    BY <1>5, <1>6
  <2>3. status \in (Terminal \cup Open) \ {"WAITING_FOR_WALLET"} /\ tx \in Txs \cup {NoTx}
        /\ status \notin {"VERIFIED", "REFRESHING_CONTRACT_STATE", "MINED_REVERTED"}
    BY <1>3, <1>6 DEF Open
  <2>4. \A u \in running : u.id = id => u.at \in Follows /\ u.tx \in Txs /\ u.tx = tx
    BY <1>3, <1>5, <1>6, <1>7 DEF Follows
  <2>5. \E u \in running : u.id = id /\ u.at \in Follows
    BY <1>5, <1>6 DEF Follows
  <2> QED BY <2>1, <2>2, <2>3, <2>4, <2>5 DEF Retells
<1>9. net' \in [Txs -> Fates] /\ Honest(entries, net') /\ UNCHANGED <<session, made>>
  <2>1. net \in [Txs -> Fates] /\ Honest(entries, net) /\ net' = net
    BY DEF TxInv, CheckAgain
  <2>2. UNCHANGED <<session, made>>
    BY DEF CheckAgain
  <2> QED BY <2>1, <2>2
<1>10. Becomes(Update(entries, id, status, tx), running)
  BY <1>4, <1>6 DEF CheckAgain
<1> QED BY <1>8, <1>9, <1>10, ReportKeeps

(* es2 is a part of the list es, of which some may be hidden or shown.     *)
PartOf(es2, es, pos) ==
  /\ es2 \in Seq(Entry)
  /\ pos \in [DOMAIN es2 -> DOMAIN es]
  /\ \A j, k \in DOMAIN es2 : pos[j] = pos[k] => j = k
  /\ \A k \in DOMAIN es2 :
       /\ es2[k].id = es[pos[k]].id /\ es2[k].action = es[pos[k]].action
       /\ es2[k].tx = es[pos[k]].tx /\ es2[k].status = es[pos[k]].status
       /\ es2[k].wallet = es[pos[k]].wallet /\ es2[k].monad = es[pos[k]].monad

LEMMA OnlyPart ==
  ASSUME NEW es \in Seq(Entry), NEW P \in SUBSET DOMAIN es
  PROVE  \E pos : PartOf(Only(es, P), es, pos) /\ \A i \in P : \E k \in DOMAIN Only(es, P) : pos[k] = i
<1>1. PICK es2 : es2 = Only(es, P)
  OBVIOUS
<1>2. PICK pos : es2 \in Seq(Entry) /\ Drawn(es2, es, P, pos)
  BY <1>1, OnlyDraws
<1>3. pos \in [DOMAIN es2 -> DOMAIN es]
  BY <1>2 DEF Drawn
<1>4. PartOf(es2, es, pos)
  BY <1>2, <1>3 DEF Drawn, PartOf
<1>5. \A i \in P : \E k \in DOMAIN es2 : pos[k] = i
  BY <1>2 DEF Drawn
<1> QED BY <1>1, <1>4, <1>5

LEMMA HidePart ==
  ASSUME NEW es \in Seq(Entry), NEW id
  PROVE  PartOf(Hide(es, id), es, [k \in DOMAIN es |-> k]) /\ DOMAIN Hide(es, id) = DOMAIN es
<1>1. PICK es2 : es2 = Hide(es, id)
  OBVIOUS
<1>2. PICK c \in Nat : DOMAIN es = 1 .. c
  <2>1. Len(es) \in Nat /\ DOMAIN es = 1 .. Len(es)
    OBVIOUS
  <2> QED BY <2>1
<1>3. es2 = [i \in 1 .. c |-> IF es[i].id = id THEN [es[i] EXCEPT !.hidden = TRUE] ELSE es[i]]
  BY <1>1, <1>2 DEF Hide
<1>4. ASSUME NEW k \in 1 .. c
      PROVE  /\ es2[k] \in Entry
             /\ es2[k].id = es[k].id /\ es2[k].action = es[k].action
             /\ es2[k].tx = es[k].tx /\ es2[k].status = es[k].status
             /\ es2[k].wallet = es[k].wallet /\ es2[k].monad = es[k].monad
  <2>1. PICK e \in Entry : e = es[k]
    BY <1>2
  <2>2. PICK e2 : e2 = [e EXCEPT !.hidden = TRUE]
    OBVIOUS
  <2>3. /\ e2 \in Entry /\ e2.id = e.id /\ e2.action = e.action /\ e2.tx = e.tx /\ e2.status = e.status
        /\ e2.wallet = e.wallet /\ e2.monad = e.monad
    BY <2>2 DEF Entry
  <2>4. es2[k] = e2 \/ es2[k] = e
    BY <1>3, <2>1, <2>2
  <2> QED BY <2>1, <2>3, <2>4
<1>5. es2 \in Seq(Entry) /\ DOMAIN es2 = 1 .. c
  <2>1. es2 \in [1 .. c -> Entry]
    BY <1>3, <1>4
  <2> QED BY <2>1
<1>6. PICK pos : pos = [k \in DOMAIN es |-> k]
  OBVIOUS
<1>7. pos \in [DOMAIN es2 -> DOMAIN es] /\ \A k \in 1 .. c : pos[k] = k
  BY <1>2, <1>5, <1>6
<1>8. PartOf(es2, es, pos)
  BY <1>4, <1>5, <1>7 DEF PartOf
<1> QED BY <1>1, <1>2, <1>5, <1>6, <1>8

(* A part of the list keeps what is known of the list.                     *)
LEMMA PartKeeps ==
  ASSUME TxInv, NEW es, NEW pos, PartOf(es, entries, pos), Becomes(es, tasks),
         UNCHANGED <<session, made, net>>
  PROVE  TxInv'
<1> PICK n \in Nat : n = made
  BY DEF TxInv
<1>1. PICK started, w, es1, ts :
        n = made /\ started = resumed /\ w = net /\ es1 = entries /\ ts = tasks
  BY DEF TxInv
<1>2. /\ Listed(es1, n) /\ Manned(es1, ts, n) /\ Honest(es1, w) /\ Attended(es1, ts, started)
  BY <1>1 DEF TxInv
<1>3. /\ es \in Seq(Entry) /\ pos \in [DOMAIN es -> DOMAIN es1]
      /\ \A j, k \in DOMAIN es : pos[j] = pos[k] => j = k
      /\ \A k \in DOMAIN es :
           /\ es[k].id = es1[pos[k]].id /\ es[k].action = es1[pos[k]].action
           /\ es[k].tx = es1[pos[k]].tx /\ es[k].status = es1[pos[k]].status
  BY <1>1 DEF PartOf
<1>4. Listed(es, n) /\ Manned(es, ts, n) /\ Honest(es, w) /\ Attended(es, ts, started)
  BY <1>2, <1>3, SublistSound
<1>5. Listed(es, made') /\ Manned(es, tasks, made') /\ Honest(es, net') /\ Attended(es, tasks, resumed)
  BY <1>1, <1>4
<1>6. Stems(es, tasks)
  <2>1. \A k \in DOMAIN es : pos[k] \in DOMAIN entries /\ es[k].id = entries[pos[k]].id
                             /\ es[k].action = entries[pos[k]].action
    BY <1>1, <1>3
  <2>2. \A u \in tasks : u.at = "simulating" => u.action \in Actions
    BY <1>1, <1>2 DEF Manned
  <2> QED BY <2>1, <2>2 DEF Stems
<1>7. made' \in Nat /\ made <= made' /\ net' \in [Txs -> Fates] /\ UNCHANGED session
  BY DEF TxInv
<1> QED BY <1>5, <1>6, <1>7, BecomesKeeps

LEMMA DismissKeeps ==
  ASSUME TxInv, NEW e \in InDrawer, Dismiss(e)
  PROVE  TxInv'
<1>1. entries \in Seq(Entry) /\ UNCHANGED <<session, made, net>>
  BY DEF TxInv, Listed, Dismiss
<1>2. CASE IsTerminal(e)
  <2>1. PICK P : P = {i \in DOMAIN entries : entries[i].id # e.id} /\ P \in SUBSET DOMAIN entries
    OBVIOUS
  <2>2. Becomes(Only(entries, P), tasks)
    BY <1>2, <2>1 DEF Dismiss, Without
  <2>3. \E pos : PartOf(Only(entries, P), entries, pos)
    BY <1>1, <2>1, OnlyPart
  <2> QED BY <1>1, <2>2, <2>3, PartKeeps
<1>3. CASE ~ IsTerminal(e)
  <2>1. Becomes(Hide(entries, e.id), tasks)
    BY <1>3 DEF Dismiss
  <2>2. \E pos : PartOf(Hide(entries, e.id), entries, pos)
    BY <1>1, HidePart
  <2> QED BY <1>1, <2>1, <2>2, PartKeeps
<1> QED BY <1>2, <1>3

LEMMA ClearFinishedKeeps ==
  ASSUME TxInv, ClearFinished
  PROVE  TxInv'
<1>1. entries \in Seq(Entry) /\ UNCHANGED <<session, made, net>>
  BY DEF TxInv, Listed, ClearFinished
<1>2. PICK P : P = {i \in DOMAIN entries : ~IsTerminal(entries[i])} /\ P \in SUBSET DOMAIN entries
  OBVIOUS
<1>3. Becomes(Only(entries, P), tasks)
  BY <1>2 DEF ClearFinished
<1>4. \E pos : PartOf(Only(entries, P), entries, pos)
  BY <1>1, <1>2, OnlyPart
<1> QED BY <1>1, <1>3, <1>4, PartKeeps

(* What is stored is part of the list, and all of it that is open and has  *)
(* a hash.                                                                 *)
LEMMA PersistedPart ==
  ASSUME NEW es \in Seq(Entry)
  PROVE  \E pos : /\ PartOf(Persisted(es), es, pos)
                  /\ \A i \in DOMAIN es :
                       Persistable(es[i]) => \E k \in DOMAIN Persisted(es) : pos[k] = i
<1>1. PICK P : P = {i \in DOMAIN es : Persistable(es[i])} /\ P \in SUBSET DOMAIN es
  OBVIOUS
<1>2. PICK kept : kept = Only(es, P)
  OBVIOUS
<1>3. PICK pos : PartOf(kept, es, pos) /\ \A i \in P : \E k \in DOMAIN kept : pos[k] = i
  <2>1. \E pos : PartOf(Only(es, P), es, pos) /\ \A i \in P : \E k \in DOMAIN Only(es, P) : pos[k] = i
    BY <1>1, OnlyPart
  <2> QED BY <1>2, <2>1
<1>4. PICK es2 : es2 = Persisted(es)
  OBVIOUS
<1>5. es2 = [i \in DOMAIN kept |-> [kept[i] EXCEPT !.hidden = FALSE]]
  BY <1>1, <1>2, <1>4 DEF Persisted
<1>6. PICK c \in Nat : DOMAIN kept = 1 .. c
  <2>1. kept \in Seq(Entry)
    BY <1>3 DEF PartOf
  <2>2. Len(kept) \in Nat /\ DOMAIN kept = 1 .. Len(kept)
    BY <2>1
  <2> QED BY <2>2
<1>7. ASSUME NEW k \in 1 .. c
      PROVE  /\ es2[k] \in Entry
             /\ es2[k].id = kept[k].id /\ es2[k].action = kept[k].action
             /\ es2[k].tx = kept[k].tx /\ es2[k].status = kept[k].status
             /\ es2[k].wallet = kept[k].wallet /\ es2[k].monad = kept[k].monad
  <2>1. PICK e \in Entry : e = kept[k]
    BY <1>3, <1>6 DEF PartOf
  <2>2. PICK e2 : e2 = [e EXCEPT !.hidden = FALSE]
    OBVIOUS
  <2>3. /\ e2 \in Entry /\ e2.id = e.id /\ e2.action = e.action /\ e2.tx = e.tx /\ e2.status = e.status
        /\ e2.wallet = e.wallet /\ e2.monad = e.monad
    BY <2>2 DEF Entry
  <2>4. es2[k] = e2
    BY <1>5, <1>6, <2>1, <2>2
  <2> QED BY <2>1, <2>3, <2>4
<1>8. es2 \in Seq(Entry) /\ DOMAIN es2 = 1 .. c
  <2>1. es2 \in [1 .. c -> Entry]
    BY <1>5, <1>6, <1>7
  <2> QED BY <2>1
<1>9. PartOf(es2, es, pos)
  <2>1. /\ pos \in [1 .. c -> DOMAIN es] /\ \A j, k \in 1 .. c : pos[j] = pos[k] => j = k
        /\ \A k \in 1 .. c :
             /\ kept[k].id = es[pos[k]].id /\ kept[k].action = es[pos[k]].action
             /\ kept[k].tx = es[pos[k]].tx /\ kept[k].status = es[pos[k]].status
             /\ kept[k].wallet = es[pos[k]].wallet /\ kept[k].monad = es[pos[k]].monad
    BY <1>3, <1>6 DEF PartOf
  <2>2. \A k \in 1 .. c :
             /\ es2[k].id = es[pos[k]].id /\ es2[k].action = es[pos[k]].action
             /\ es2[k].tx = es[pos[k]].tx /\ es2[k].status = es[pos[k]].status
             /\ es2[k].wallet = es[pos[k]].wallet /\ es2[k].monad = es[pos[k]].monad
    BY <1>7, <2>1
  <2> QED BY <1>8, <2>1, <2>2 DEF PartOf
<1>10. \A i \in DOMAIN es : Persistable(es[i]) => \E k \in DOMAIN es2 : pos[k] = i
  BY <1>1, <1>3, <1>6, <1>8
<1> QED BY <1>4, <1>9, <1>10

LEMMA SwitchKeeps ==
  ASSUME TxInv, Switch
  PROVE  TxInv'
<1> PICK n \in Nat : n = made
  BY DEF TxInv
<1>1. PICK st, c, m, es, ts, w, r :
        n = made /\ st = resumed /\ c = account' /\ m = monad' /\ es = entries /\ ts = tasks
        /\ w = net /\ r = raced
  BY DEF TxInv
<1>2. Reconcile(es, ts, st, c, m)
  BY <1>1 DEF Switch
<1>3. /\ Listed(es, n) /\ Manned(es, ts, n) /\ Honest(es, w) /\ Attended(es, ts, st) /\ Alone(es, ts, r)
      /\ st \subseteq 1 .. n
  BY <1>1 DEF TxInv
<1>4. /\ Listed(entries', n) /\ Manned(entries', tasks', n) /\ Honest(entries', w)
      /\ Attended(entries', tasks', resumed') /\ TakenUp(entries', resumed') /\ Current(entries', c, m)
      /\ Alone(entries', tasks', r) /\ resumed' \subseteq 1 .. n
  BY <1>2, <1>3, Carried
<1>5. made' = n /\ net' = w /\ raced' = r
  BY <1>1 DEF Switch
<1>6. account' \in Wallets \cup {NoWallet} /\ monad' \in BOOLEAN
  <2>1. account \in Wallets \cup {NoWallet} /\ monad \in BOOLEAN
    BY DEF TxInv
  <2>2. \/ account' \in (Wallets \cup {NoWallet}) \ {account} /\ monad' = monad
        \/ monad' = ~monad /\ account' = account
    BY DEF Switch
  <2>3. CASE account' \in (Wallets \cup {NoWallet}) \ {account} /\ monad' = monad
    BY <2>1, <2>3
  <2>4. CASE monad' = ~monad /\ account' = account
    BY <2>1, <2>4
  <2> QED BY <2>2, <2>3, <2>4
<1>7. Listed(entries, made)' /\ Manned(entries, tasks, made)' /\ Honest(entries, net)'
      /\ Attended(entries, tasks, resumed)' /\ TakenUp(entries, resumed)' /\ Current(entries, account, monad)' /\ Alone(entries, tasks, raced)'
  BY <1>1, <1>4, <1>5 DEF Listed, Manned, Honest, Attended, TakenUp, Current, IsStaleForSession, Alone, Ids, IsTerminal
<1>8. net' \in [Txs -> Fates] /\ made' \in Nat /\ resumed' \subseteq 1 .. made'
  BY <1>1, <1>4, <1>5 DEF TxInv
<1> QED BY <1>6, <1>7, <1>8 DEF TxInv

LEMMA ReloadKeeps ==
  ASSUME TxInv, Reload
  PROVE  TxInv'
<1> PICK n \in Nat : n = made
  BY DEF TxInv
<1>1. PICK c, m, es, w, r, none, es2 :
        n = made /\ c = account' /\ m = monad /\ es = entries /\ w = net /\ r = raced /\ none = {}
        /\ es2 = Persisted(entries)
  BY DEF TxInv
<1>2. Reconcile(es2, none, none, c, m)
  BY <1>1 DEF Reload
<1>3. Listed(es, n) /\ Honest(es, w) /\ Alone(es, tasks, r)
  BY <1>1 DEF TxInv
<1>4. es \in Seq(Entry)
  BY <1>3 DEF Listed
<1>5. Manned(es, none, n) /\ Attended(es, none, none)
  BY <1>1 DEF Manned, Attended
<1>6. PICK pos : PartOf(es2, es, pos)
  BY <1>1, <1>4, PersistedPart
<1>7. /\ es2 \in Seq(Entry) /\ pos \in [DOMAIN es2 -> DOMAIN es]
      /\ \A j, k \in DOMAIN es2 : pos[j] = pos[k] => j = k
      /\ \A k \in DOMAIN es2 :
           /\ es2[k].id = es[pos[k]].id /\ es2[k].action = es[pos[k]].action
           /\ es2[k].tx = es[pos[k]].tx /\ es2[k].status = es[pos[k]].status
  BY <1>6 DEF PartOf
<1>8. Listed(es2, n) /\ Manned(es2, none, n) /\ Honest(es2, w) /\ Attended(es2, none, none)
  BY <1>3, <1>5, <1>7, SublistSound
<1>9. Alone(es2, none, r)
  <2>1. ASSUME NEW i \in DOMAIN es2, NEW j \in DOMAIN es2,
               i # j, es2[i].action = es2[j].action, es2[i].action # NoAction,
               ~IsTerminal(es2[i]), ~IsTerminal(es2[j])
        PROVE  {es2[i].id, es2[j].id} \cap r # {}
    <3>1. pos[i] \in DOMAIN es /\ pos[j] \in DOMAIN es /\ pos[i] # pos[j]
      BY <1>7, <2>1
    <3>2. ~IsTerminal(es[pos[i]]) /\ ~IsTerminal(es[pos[j]])
          /\ es[pos[i]].action = es[pos[j]].action /\ es[pos[i]].action # NoAction
      BY <1>7, <2>1 DEF IsTerminal
    <3>3. {es[pos[i]].id, es[pos[j]].id} \cap r # {}
      BY <1>3, <3>1, <3>2 DEF Alone
    <3>4. es2[i].id = es[pos[i]].id /\ es2[j].id = es[pos[j]].id
      BY <1>7
    <3> QED BY <3>3, <3>4
  <2> QED BY <1>1, <2>1 DEF Alone
<1>10. none \subseteq 1 .. n
  BY <1>1
<1>11. /\ Listed(entries', n) /\ Manned(entries', tasks', n) /\ Honest(entries', w)
       /\ Attended(entries', tasks', resumed') /\ TakenUp(entries', resumed') /\ Current(entries', c, m)
       /\ Alone(entries', tasks', r) /\ resumed' \subseteq 1 .. n
  BY <1>2, <1>8, <1>9, <1>10, Carried
<1>12. made' = n /\ net' = w /\ raced' = r /\ monad' = monad
  BY <1>1 DEF Reload
<1>13. account' \in Wallets \cup {NoWallet} /\ monad' \in BOOLEAN
  BY <1>12 DEF TxInv, Reload
<1>14. Listed(entries, made)' /\ Manned(entries, tasks, made)' /\ Honest(entries, net)'
       /\ Attended(entries, tasks, resumed)' /\ TakenUp(entries, resumed)' /\ Current(entries, account, monad)' /\ Alone(entries, tasks, raced)'
  BY <1>1, <1>11, <1>12 DEF Listed, Manned, Honest, Attended, TakenUp, Current, IsStaleForSession, Alone, Ids, IsTerminal
<1>15. net' \in [Txs -> Fates] /\ made' \in Nat /\ resumed' \subseteq 1 .. made'
  BY <1>1, <1>11, <1>12 DEF TxInv
<1> QED BY <1>13, <1>14, <1>15 DEF TxInv

(* The rows of the backend are as many entries, with ids given out now.    *)
MergedRow(rows, n, i) ==
  [NewEntry(n + 1 + Len(rows) - i, NoAction, Session, TRUE, "PENDING_ONCHAIN") EXCEPT !.tx = rows[i]]

LEMMA MergedFields ==
  ASSUME NEW rows \in Seq(Txs), NEW n \in Nat, NEW i \in DOMAIN rows
  PROVE  /\ MergedRow(rows, n, i) \in Entry
         /\ MergedRow(rows, n, i).id = n + 1 + Len(rows) - i
         /\ MergedRow(rows, n, i).id \in n + 1 .. n + Len(rows)
         /\ MergedRow(rows, n, i).tx = rows[i]
         /\ MergedRow(rows, n, i).status = "PENDING_ONCHAIN"
         /\ MergedRow(rows, n, i).action = NoAction
<1>1. PICK len \in Nat : len = Len(rows) /\ DOMAIN rows = 1 .. len
  <2>1. Len(rows) \in Nat /\ DOMAIN rows = 1 .. Len(rows)
    OBVIOUS
  <2> QED BY <2>1
<1>2. i \in 1 .. len
  BY <1>1
<1>3. PICK id \in Nat : id = n + 1 + len - i /\ id \in n + 1 .. n + len
  BY <1>2
<1>4. rows[i] \in Txs
  OBVIOUS
<1>5. PICK x \in Txs : x = rows[i]
  BY <1>4
<1>6. PICK e : e = NewEntry(id, NoAction, Session, TRUE, "PENDING_ONCHAIN")
  OBVIOUS
<1>7. e \in Entry /\ e.id = id /\ e.status = "PENDING_ONCHAIN" /\ e.action = NoAction
  BY <1>6, ContractTxAssumption DEF NewEntry, Entry, Open
<1>8. PICK e2 : e2 = [e EXCEPT !.tx = x]
  OBVIOUS
<1>9. e2 \in Entry /\ e2.id = id /\ e2.tx = x /\ e2.status = "PENDING_ONCHAIN" /\ e2.action = NoAction
  BY <1>7, <1>8 DEF Entry
<1>10. MergedRow(rows, n, i) = e2
  BY <1>1, <1>3, <1>5, <1>6, <1>8 DEF MergedRow
<1> QED BY <1>1, <1>3, <1>5, <1>9, <1>10

LEMMA Rows ==
  ASSUME NEW S \in SUBSET Txs
  PROVE  SetToSeq(S) \in Seq(Txs)
<1>1. IsFiniteSet(S)
  BY ContractTxAssumption, FS_Subset
<1>2. Cardinality(S) \in Nat /\ ExistsBijection(1 .. Cardinality(S), S)
  BY <1>1, FS_CardinalityType
<1>3. PICK f \in [1 .. Cardinality(S) -> S] : \A a, b \in 1 .. Cardinality(S) : f[a] = f[b] => a = b
  BY <1>2 DEF ExistsBijection, Bijection, Injection, IsInjective
<1>4. IsInjective(f)
  BY <1>3 DEF IsInjective
<1>5. SetToSeq(S) \in [1 .. Cardinality(S) -> S]
  BY <1>3, <1>4 DEF SetToSeq
<1>6. SetToSeq(S) \in [1 .. Cardinality(S) -> Txs]
  BY <1>5
<1> QED BY <1>2, <1>6

LEMMA MergeBackendKeeps ==
  ASSUME TxInv, MergeBackend
  PROVE  TxInv'
<1>1. PICK answer \in SUBSET Txs :
        LET rows == SetToSeq(answer \ restore.known)
            merged == [i \in DOMAIN rows |->
              [NewEntry(made + 1 + Len(rows) - i, NoAction, Session, TRUE, "PENDING_ONCHAIN")
                 EXCEPT !.tx = rows[i]]]
        IN /\ made' = made + Len(rows)
           /\ Becomes(Track(entries, merged), tasks)
  BY DEF MergeBackend
<1>2. PICK rows \in Seq(Txs) : rows = SetToSeq(answer \ restore.known)
  BY Rows
<1>3. PICK n \in Nat, len \in Nat : n = made /\ len = Len(rows) /\ DOMAIN rows = 1 .. len
  <2>1. made \in Nat /\ Len(rows) \in Nat /\ DOMAIN rows = 1 .. Len(rows)
    BY DEF TxInv
  <2> QED BY <2>1
<1>4. PICK merged : merged = [i \in DOMAIN rows |-> MergedRow(rows, n, i)]
  OBVIOUS
<1>5. made' = n + len /\ Becomes(Track(entries, merged), tasks)
  BY <1>1, <1>2, <1>3, <1>4 DEF MergedRow
<1>6. ASSUME NEW i \in 1 .. len
      PROVE  /\ merged[i] \in Entry /\ merged[i].id = n + 1 + len - i /\ merged[i].id \in n + 1 .. n + len
             /\ merged[i].tx \in Txs /\ merged[i].status = "PENDING_ONCHAIN" /\ merged[i].action = NoAction
  <2>1. i \in DOMAIN rows /\ merged[i] = MergedRow(rows, n, i) /\ rows[i] \in Txs
    BY <1>3, <1>4
  <2>2. PICK e : e = MergedRow(rows, n, i)
    OBVIOUS
  <2>3. /\ MergedRow(rows, n, i) \in Entry
        /\ MergedRow(rows, n, i).id = n + 1 + Len(rows) - i
        /\ MergedRow(rows, n, i).id \in n + 1 .. n + Len(rows)
        /\ MergedRow(rows, n, i).tx = rows[i]
        /\ MergedRow(rows, n, i).status = "PENDING_ONCHAIN"
        /\ MergedRow(rows, n, i).action = NoAction
    BY <2>1, MergedFields
  <2>4. /\ e \in Entry /\ e.id = n + 1 + len - i /\ e.id \in n + 1 .. n + len
        /\ e.tx = rows[i] /\ e.status = "PENDING_ONCHAIN" /\ e.action = NoAction
    BY <1>3, <2>2, <2>3
  <2> QED BY <2>1, <2>2, <2>4
<1>7. PICK n2 \in Nat : n2 = n + len /\ n <= n2
  BY <1>3
<1>8. DOMAIN merged = 1 .. len /\ merged \in Seq(Entry)
  <2>1. merged \in [1 .. len -> Entry]
    BY <1>3, <1>4, <1>6
  <2> QED BY <2>1
<1>9. Listed(merged, n2)
  <2>1. \A i \in 1 .. len : merged[i].id \in 1 .. n2
    BY <1>6, <1>7
  <2>2. \A i, j \in 1 .. len : merged[i].id = merged[j].id => i = j
    BY <1>6
  <2> QED BY <1>6, <1>8, <2>1, <2>2 DEF Listed
<1>10. PICK started, w, es, ts : started = resumed /\ w = net /\ es = entries /\ ts = tasks
  OBVIOUS
<1>11. Listed(es, n) /\ Manned(es, ts, n) /\ Honest(es, w) /\ Attended(es, ts, started) /\ started \subseteq 1 .. n
  BY <1>3, <1>10 DEF TxInv
<1>12. \A k \in DOMAIN merged : merged[k].id \notin 1 .. n
  BY <1>6, <1>8
<1>13. \A k \in DOMAIN merged : merged[k].id \notin Ids(es)
  BY <1>11, <1>12 DEF Listed, Ids
<1>14. Honest(merged, w)
  BY <1>6, <1>8 DEF Honest
<1>15. Attended(merged, ts, started)
  BY <1>11, <1>12 DEF Attended
<1>16. \A u \in ts : u.id \in 1 .. n /\ u.id \in 1 .. n2
  BY <1>7, <1>11 DEF Manned
<1>17. \A u \in ts, k \in DOMAIN merged : merged[k].id = u.id => merged[k].tx = u.tx /\ u.at # "simulating"
  BY <1>12, <1>16
<1>18. ts \subseteq Running
  BY <1>11 DEF Manned
<1>19. /\ Listed(Track(es, merged), n2) /\ Manned(Track(es, merged), ts, n2)
       /\ Honest(Track(es, merged), w) /\ Attended(Track(es, merged), ts, started)
       /\ \A k \in DOMAIN Track(es, merged) :
            \/ k \in DOMAIN merged /\ Track(es, merged)[k] = merged[k]
            \/ \E i \in DOMAIN es : Track(es, merged)[k] = es[i]
  BY <1>7, <1>9, <1>11, <1>13, <1>14, <1>15, <1>16, <1>17, <1>18, TrackSound
<1>20. PICK es2 : es2 = Track(entries, merged)
  OBVIOUS
<1>21. net' = net /\ UNCHANGED session
  BY DEF MergeBackend
<1>22. Listed(es2, made') /\ Manned(es2, tasks, made') /\ Honest(es2, net') /\ Attended(es2, tasks, resumed)
       /\ Becomes(es2, tasks)
  BY <1>5, <1>7, <1>10, <1>19, <1>20, <1>21
<1>23. Stems(es2, tasks)
  <2>1. \A k \in DOMAIN es2 : es2[k].action = NoAction \/ \E i \in DOMAIN entries : es2[k] = entries[i]
    BY <1>6, <1>8, <1>10, <1>19, <1>20
  <2>2. \A u \in tasks : u.at = "simulating" => u.action \in Actions
    BY <1>10, <1>11 DEF Manned
  <2> QED BY <2>1, <2>2 DEF Stems
<1>24. made' \in Nat /\ made <= made' /\ net' \in [Txs -> Fates]
  BY <1>3, <1>5, <1>7, <1>21 DEF TxInv
<1> QED BY <1>21, <1>22, <1>23, <1>24, BecomesKeeps

-----------------------------------------------------------------------------
(* Theorems                                                                *)

LEMMA TxInvInit ==
  ASSUME ContractTxInit
  PROVE  TxInv
<1>1. entries = << >> /\ tasks = {} /\ resumed = {} /\ made = 0 /\ raced = {}
      /\ account = Session /\ monad = TRUE
  BY DEF ContractTxInit
<1>2. net \in [Txs -> Fates]
  BY DEF ContractTxInit, Fates
<1>3. DOMAIN entries = {} /\ entries \in Seq(Entry)
  BY <1>1
<1>4. /\ Listed(entries, made) /\ Manned(entries, tasks, made) /\ Honest(entries, net)
      /\ Attended(entries, tasks, resumed) /\ TakenUp(entries, resumed) /\ Current(entries, account, monad) /\ Alone(entries, tasks, raced)
  BY <1>1, <1>3 DEF Listed, Manned, Honest, Attended, TakenUp, Current, Alone
<1> QED BY <1>1, <1>2, <1>4, ContractTxAssumption DEF TxInv

LEMMA TxInvStep ==
  ASSUME TxInv, [ContractTxNext]_contractTxVars
  PROVE  TxInv'
<1>1. CASE \E action \in Actions : Send(action)
  BY <1>1, SendKeeps
<1>2. CASE \E t \in tasks : Steps(t)
  BY <1>2, SimulationRevertsKeeps, AskWalletKeeps, WalletRefusesKeeps, WalletSignsKeeps, PropagatesKeeps,
     PollKeeps, VerifyKeeps DEF Steps
<1>3. CASE \E e \in InDrawer : CheckAgain(e) \/ Dismiss(e)
  BY <1>3, CheckAgainKeeps, DismissKeeps
<1>4. CASE ClearFinished \/ Reload \/ Switch \/ MergeBackend
  BY <1>4, ClearFinishedKeeps, ReloadKeeps, SwitchKeeps, MergeBackendKeeps
<1>5. CASE \E x \in Txs : Mine(x)
  BY <1>5, MineKeeps
<1>6. CASE FetchUnresolved \/ UNCHANGED contractTxVars
  BY <1>6, IdleKeeps
<1> QED BY <1>1, <1>2, <1>3, <1>4, <1>5, <1>6 DEF ContractTxNext

(* However calls, polls, retries, reloads and switches interleave, the     *)
(* invariant holds: ids are given out once, a function knows the hash of   *)
(* its entry, what is pending is followed, what is said of a hash is true. *)
THEOREM ContractTxInductive == ContractTxSpec => []TxInv
<1>1. ContractTxInit => TxInv
  BY TxInvInit
<1>2. TxInv /\ [ContractTxNext]_contractTxVars => TxInv'
  BY TxInvStep
<1> QED BY <1>1, <1>2, PTL DEF ContractTxSpec

(* An entry that says "mined", "verified" or "reverted" of a hash says     *)
(* what the chain says, whichever of the functions of useContractTx and    *)
(* the recovery wrote it last and however late.                            *)
THEOREM OutcomesAlwaysHonest == ContractTxSpec => []OutcomesHonest
<1>1. TxInv => OutcomesHonest
  BY DEF TxInv, Honest, OutcomesHonest
<1> QED BY <1>1, ContractTxInductive, PTL

(* No entry with a hash that locks its action sits there for ever, after   *)
(* whatever reloads, restores and switches: one that says that it is       *)
(* pending is being followed, any other is followed or offers a check.     *)
THEOREM NothingIsEverForgotten == ContractTxSpec => []NothingIsForgotten
<1>1. ASSUME TxInv PROVE NothingIsForgotten
  <2>1. SUFFICES ASSUME NEW i \in DOMAIN entries, entries[i].tx # NoTx, ~IsTerminal(entries[i]),
                        entries[i].status # "NONCE_BLOCKED"
                 PROVE  /\ ~ IsStaleForSession(entries[i], account, monad)
                        /\ \/ Following(entries[i]) # {}
                           \/ entries[i].status \notin Resumable /\ OffersCheck(entries[i])
    BY DEF NothingIsForgotten
  <2> ~ IsStaleForSession(entries[i], account, monad)
    BY <1>1 DEF TxInv, Current
  <2>2. entries[i] \in Entry /\ (entries[i].status = "WAITING_FOR_WALLET" => entries[i].tx = NoTx)
    BY <1>1 DEF TxInv, Listed
  <2>3. entries[i].status \in Open \ {"NONCE_BLOCKED", "WAITING_FOR_WALLET"}
    BY <2>1, <2>2 DEF IsTerminal, Entry
  <2>4. CASE entries[i].status \in Resumable
    <3>1. entries[i].id \in resumed
      BY <1>1, <2>1, <2>4 DEF TxInv, TakenUp
    <3>2. \E t \in tasks : t.id = entries[i].id /\ t.at \in Follows
      BY <1>1, <2>1, <2>4, <3>1 DEF TxInv, Attended
    <3> QED BY <3>2 DEF Following, Follows
  <2>5. CASE entries[i].status \notin Resumable
    <3>1. entries[i].status \in {"BROADCAST_REQUESTED", "WALLET_RPC_DIVERGED", "TIMEOUT_OR_RPC_ERROR"}
      BY <2>3, <2>5 DEF Open, Resumable
    <3> QED BY <2>1, <2>5, <3>1 DEF OffersCheck, Resolving
  <2> QED BY <2>4, <2>5
<1> QED BY <1>1, ContractTxInductive, PTL

(* The lock of an action lets a second call of it through only while the   *)
(* first is still simulating: two calls of one action are open at once     *)
(* only after that, or after one was finished by a poll and opened again.  *)
THEOREM SingleFlight == ContractTxSpec => []SingleFlightUnlessRaced
<1>1. TxInv => SingleFlightUnlessRaced
  BY DEF TxInv, Alone, SingleFlightUnlessRaced
<1> QED BY <1>1, ContractTxInductive, PTL

-----------------------------------------------------------------------------
(* Locks                                                                   *)

(* The call of entry e is still in the list es, and if it is pending there *)
(* it has the hash it had.                                                 *)
Kept(e, es) ==
  \E j \in DOMAIN es :
    /\ es[j].id = e.id /\ es[j].action = e.action /\ es[j].wallet = e.wallet /\ es[j].monad = e.monad
    /\ es[j].status \in Resumable => es[j].tx = e.tx

(* The entry e still locks its action, or was stale.                       *)
Held(e) ==
  \/ \E k \in DOMAIN entries' : entries'[k].id = e.id /\ entries'[k].action = e.action
  \/ IsStaleForSession([e EXCEPT !.status = "PENDING_ONCHAIN"], account', monad') /\ e.tx # NoTx

(* Reconciling takes nothing from the list but what is stale.              *)
LEMMA ReconcileHolds ==
  ASSUME NEW e \in Entry, NEW es \in Seq(Entry), Kept(e, es), NEW ts, NEW st, NEW c, NEW m,
         Reconcile(es, ts, st, c, m), c = account', m = monad'
  PROVE  Held(e)
<1>1. PICK pos : Settled(es, ts, st, c, m, pos)
  BY Reconciled
<1>2. PICK j \in DOMAIN es :
        /\ es[j].id = e.id /\ es[j].action = e.action /\ es[j].wallet = e.wallet /\ es[j].monad = e.monad
        /\ es[j].status \in Resumable => es[j].tx = e.tx
  BY DEF Kept
<1>3. CASE IsStaleForSession(es[j], c, m)
  <2>1. es[j].status \in Resumable /\ es[j].tx # NoTx
    BY <1>3 DEF IsStaleForSession
  <2>2. \/ ~e.monad
        \/ ~m
        \/ e.wallet # NoWallet /\ c # NoWallet /\ e.wallet # c
    BY <1>2, <1>3 DEF IsStaleForSession
  <2>3. PICK e2 : e2 = [e EXCEPT !.status = "PENDING_ONCHAIN"]
    OBVIOUS
  <2>4. e2.status = "PENDING_ONCHAIN" /\ e2.tx = e.tx /\ e2.monad = e.monad /\ e2.wallet = e.wallet
    BY <2>3 DEF Entry
  <2>5. IsStaleForSession(e2, c, m) /\ e.tx # NoTx
    BY <1>2, <2>1, <2>2, <2>4 DEF IsStaleForSession, Resumable
  <2> QED BY <2>3, <2>5 DEF Held
<1>4. CASE ~ IsStaleForSession(es[j], c, m)
  <2>1. PICK k \in DOMAIN entries' : pos[k] = j
    BY <1>1, <1>4 DEF Settled
  <2>2. SameCall(entries'[k], es[j])
    BY <1>1, <2>1 DEF Settled
  <2>3. entries'[k].id = es[j].id /\ entries'[k].action = es[j].action
    BY <2>2, SameCallFields
  <2> QED BY <1>2, <2>1, <2>3 DEF Held
<1> QED BY <1>3, <1>4

LEMMA BecomesHolds ==
  ASSUME NEW e \in Entry, NEW es \in Seq(Entry), Kept(e, es), NEW running, Becomes(es, running),
         UNCHANGED session
  PROVE  Held(e)
<1>1. account = account' /\ monad = monad' /\ Reconcile(es, running, resumed, account, monad)
  BY DEF session, Becomes
<1>2. PICK c, m, st : c = account /\ m = monad /\ st = resumed
  OBVIOUS
<1>3. c = account' /\ m = monad' /\ Reconcile(es, running, st, c, m)
  BY <1>1, <1>2
<1> QED BY <1>3, ReconcileHolds

(* A status that is set, pending only with the hash of the entry.          *)
LEMMA UpdateHolds ==
  ASSUME TxInv, NEW i \in DOMAIN entries, NEW id, NEW status \in Terminal \cup Open, NEW tx \in Txs \cup {NoTx},
         entries[i].id = id /\ status \in Resumable => tx = entries[i].tx,
         NEW running, Becomes(Update(entries, id, status, tx), running), UNCHANGED session
  PROVE  Held(entries[i])
<1>1. PICK es, es2 : es = entries /\ es2 = Update(es, id, status, tx)
  OBVIOUS
<1>2. PICK c \in Nat : DOMAIN es = 1 .. c
  <2>1. es \in Seq(Entry)
    BY <1>1 DEF TxInv, Listed
  <2>2. Len(es) \in Nat /\ DOMAIN es = 1 .. Len(es)
    BY <2>1
  <2> QED BY <2>2
<1>3. \A k \in 1 .. c : es[k] \in Entry
  BY <1>1, <1>2 DEF TxInv, Listed
<1>4. es2 = [k \in 1 .. c |-> IF es[k].id = id THEN [es[k] EXCEPT !.status = status, !.tx = tx] ELSE es[k]]
  BY <1>1, <1>2 DEF Update
<1>5. ASSUME NEW k \in 1 .. c
      PROVE  /\ es2[k] \in Entry /\ es2[k].id = es[k].id /\ es2[k].action = es[k].action
             /\ es2[k].wallet = es[k].wallet /\ es2[k].monad = es[k].monad
             /\ es2[k] = es[k] \/ (es[k].id = id /\ es2[k].status = status /\ es2[k].tx = tx)
  <2>1. PICK e \in Entry : e = es[k]
    BY <1>3
  <2>2. PICK e2 : e2 = [e EXCEPT !.status = status, !.tx = tx]
    OBVIOUS
  <2>3. /\ e2 \in Entry /\ e2.id = e.id /\ e2.action = e.action /\ e2.wallet = e.wallet
        /\ e2.monad = e.monad /\ e2.status = status /\ e2.tx = tx
    BY <2>2 DEF Entry
  <2>4. es2[k] = e \/ (e.id = id /\ es2[k] = e2)
    BY <1>4, <2>1, <2>2
  <2> QED BY <2>1, <2>3, <2>4
<1>6. es2 \in Seq(Entry) /\ DOMAIN es2 = 1 .. c
  <2>1. es2 \in [1 .. c -> Entry]
    BY <1>4, <1>5
  <2> QED BY <2>1
<1>7. PICK e \in Entry : e = entries[i] /\ e = es[i] /\ i \in 1 .. c
  BY <1>1, <1>2, <1>3
<1>8. Kept(e, es2)
  <2>1. /\ es2[i].id = e.id /\ es2[i].action = e.action /\ es2[i].wallet = e.wallet /\ es2[i].monad = e.monad
        /\ es2[i] = e \/ (e.id = id /\ es2[i].status = status /\ es2[i].tx = tx)
    BY <1>5, <1>7
  <2>2. es2[i].status \in Resumable => es2[i].tx = e.tx
    BY <1>7, <2>1
  <2> QED BY <1>6, <1>7, <2>1, <2>2 DEF Kept
<1>9. Becomes(es2, running)
  BY <1>1
<1> QED BY <1>6, <1>7, <1>8, <1>9, BecomesHolds

(* A function of the entry's id reports the hash that the entry has.       *)
LEMMA ReportHolds ==
  ASSUME TxInv, NEW i \in DOMAIN entries, NEW t \in tasks, NEW status \in Terminal \cup Open,
         NEW tx \in Txs \cup {NoTx}, status \in Resumable => tx = t.tx,
         NEW next, Reports(t, status, tx, next), UNCHANGED session
  PROVE  Held(entries[i])
<1>1. entries[i].id = t.id => entries[i].tx = t.tx
  BY DEF TxInv, Manned
<1>2. PICK id, running : id = t.id /\ running = (tasks \ {t}) \cup next
  OBVIOUS
<1>3. Becomes(Update(entries, id, status, tx), running)
  BY <1>2 DEF Reports
<1>4. entries[i].id = id /\ status \in Resumable => tx = entries[i].tx
  BY <1>1, <1>2
<1> QED BY <1>3, <1>4, UpdateHolds

LEMMA StepsHold ==
  ASSUME TxInv, NEW i \in DOMAIN entries, NEW t \in tasks,
         WalletRefuses(t) \/ WalletSigns(t) \/ Propagates(t) \/ Poll(t) \/ Verify(t)
  PROVE  Held(entries[i])
<1>1. UNCHANGED session
  BY DEF WalletRefuses, WalletSigns, Propagates, Poll, Verify
<1>2. t.tx \in Txs \cup {NoTx}
  BY DEF TxInv, Manned, Running
<1>3. \E status, tx, next :
        /\ Reports(t, status, tx, next) /\ tx \in Txs \cup {NoTx}
        /\ status \in {"USER_REJECTED", "BROADCAST_REQUESTED"} \/ tx = t.tx \/ status = "TIMEOUT_OR_RPC_ERROR"
        /\ status \in Terminal \cup Open
  <2>1. CASE WalletRefuses(t)
    BY <2>1 DEF WalletRefuses, Terminal, Open
  <2>2. CASE WalletSigns(t)
    <3>1. PICK x \in Txs : Reports(t, "BROADCAST_REQUESTED", x, {[t EXCEPT !.at = "propagating", !.tx = x]})
      BY <2>2 DEF WalletSigns
    <3>2. PICK next : next = {[t EXCEPT !.at = "propagating", !.tx = x]}
      OBVIOUS
    <3>3. Reports(t, "BROADCAST_REQUESTED", x, next) /\ "BROADCAST_REQUESTED" \in Terminal \cup Open
      BY <3>1, <3>2 DEF Open
    <3> QED BY <3>3
  <2>3. CASE Propagates(t)
    <3>1. \/ Reports(t, "PENDING_ONCHAIN", t.tx, {[t EXCEPT !.at = "polling"]})
          \/ \E decision \in {"WALLET_RPC_DIVERGED", "BROADCAST_FAILED_NOT_PROPAGATED"} :
               Reports(t, decision, t.tx, {})
      BY <2>3 DEF Propagates
    <3> QED BY <1>2, <3>1 DEF Terminal, Open
  <2>4. CASE Poll(t)
    <3>1. PICK result \in PollResults(t.tx) :
            IF result # "success" THEN Reports(t, StatusOf(result), t.tx, {})
            ELSE IF t.kind = "retry" THEN Reports(t, "VERIFIED", t.tx, {})
            ELSE Reports(t, "REFRESHING_CONTRACT_STATE", t.tx, {[t EXCEPT !.at = "verifying"]})
      BY <2>4 DEF Poll
    <3>2. result \in {"success", "reverted", "nonce_blocked", "pending", "not_found"}
      BY <3>1 DEF PollResults, Mined
    <3>3. result # "success" => StatusOf(result) \in Terminal \cup Open
      BY <3>2 DEF StatusOf, Terminal, Open
    <3> QED BY <1>2, <3>1, <3>3 DEF Terminal, Open
  <2>5. CASE Verify(t)
    <3>1. Reports(t, "VERIFIED", t.tx, {}) \/ Reports(t, "TIMEOUT_OR_RPC_ERROR", t.tx, {})
      BY <2>5 DEF Verify
    <3> QED BY <1>2, <3>1 DEF Terminal, Open
  <2> QED BY <2>1, <2>2, <2>3, <2>4, <2>5
<1>4. PICK status, tx, next :
        /\ Reports(t, status, tx, next) /\ tx \in Txs \cup {NoTx}
        /\ status \in {"USER_REJECTED", "BROADCAST_REQUESTED"} \/ tx = t.tx \/ status = "TIMEOUT_OR_RPC_ERROR"
        /\ status \in Terminal \cup Open
  BY <1>3
<1>5. status \in Resumable => tx = t.tx
  BY <1>4 DEF Resumable
<1> QED BY <1>1, <1>4, <1>5, ReportHolds

LEMMA CheckAgainHolds ==
  ASSUME TxInv, NEW i \in DOMAIN entries, NEW e \in InDrawer, CheckAgain(e)
  PROVE  Held(entries[i])
<1>1. entries \in Seq(Entry)
  BY DEF TxInv, Listed
<1>2. PICK j \in DOMAIN entries : e = entries[j]
  BY <1>1, DrawerShows
<1>3. e.tx \in Txs \cup {NoTx}
  BY <1>1, <1>2, EntryFields
<1>4. entries[i].id = e.id => e.tx = entries[i].tx
  <2>1. entries[i].id = e.id => i = j
    BY <1>2 DEF TxInv, Listed
  <2> QED BY <1>2, <2>1
<1>5. PICK id, tx, status, running :
        id = e.id /\ tx = e.tx /\ status = "PENDING_ONCHAIN"
        /\ running = tasks \cup {Task(e.id, "retry", "polling", e)}
  OBVIOUS
<1>6. Becomes(Update(entries, id, status, tx), running) /\ UNCHANGED session
  BY <1>5 DEF CheckAgain
<1>7. status \in Terminal \cup Open /\ tx \in Txs \cup {NoTx}
      /\ (entries[i].id = id /\ status \in Resumable => tx = entries[i].tx)
  BY <1>3, <1>4, <1>5 DEF Open
<1> QED BY <1>6, <1>7, UpdateHolds

(* What is in a part of the list holds.                                    *)
LEMMA PartHas ==
  ASSUME NEW es, NEW es1, NEW pos, PartOf(es, es1, pos), NEW k \in DOMAIN es, NEW i, pos[k] = i
  PROVE  Kept(es1[i], es) /\ es \in Seq(Entry)
BY DEF PartOf, Kept

LEMMA PartHolds ==
  ASSUME TxInv, NEW i \in DOMAIN entries, NEW es, NEW pos, PartOf(es, entries, pos),
         \E k \in DOMAIN es : pos[k] = i, Becomes(es, tasks), UNCHANGED session
  PROVE  Held(entries[i])
<1>1. Kept(entries[i], es) /\ es \in Seq(Entry)
  BY PartHas
<1>2. entries[i] \in Entry
  BY DEF TxInv, Listed
<1> QED BY <1>1, <1>2, BecomesHolds

LEMMA DismissHolds ==
  ASSUME TxInv, NEW i \in DOMAIN entries, ~IsTerminal(entries[i]), NEW e \in InDrawer, Dismiss(e)
  PROVE  Held(entries[i])
<1>1. entries \in Seq(Entry) /\ UNCHANGED session
  BY DEF TxInv, Listed, Dismiss
<1>2. CASE IsTerminal(e)
  <2>1. PICK P : P = {k \in DOMAIN entries : entries[k].id # e.id} /\ P \in SUBSET DOMAIN entries
    OBVIOUS
  <2>2. Becomes(Only(entries, P), tasks)
    BY <1>2, <2>1 DEF Dismiss, Without
  <2>3. PICK j \in DOMAIN entries : e = entries[j]
    BY <1>1, DrawerShows
  <2>4. i \in P
    <3>1. i # j
      BY <1>2, <2>3
    <3>2. entries[i].id # entries[j].id
      BY <3>1 DEF TxInv, Listed
    <3> QED BY <2>1, <2>3, <3>2
  <2>5. PICK pos : PartOf(Only(entries, P), entries, pos)
                   /\ \A l \in P : \E k \in DOMAIN Only(entries, P) : pos[k] = l
    BY <1>1, <2>1, OnlyPart
  <2> QED BY <1>1, <2>2, <2>4, <2>5, PartHolds
<1>3. CASE ~ IsTerminal(e)
  <2>1. PICK es : es = Hide(entries, e.id)
    OBVIOUS
  <2>2. Becomes(es, tasks)
    BY <1>3, <2>1 DEF Dismiss
  <2>3. PICK pos : pos = [k \in DOMAIN entries |-> k]
    OBVIOUS
  <2>4. PartOf(es, entries, pos) /\ DOMAIN es = DOMAIN entries
    BY <1>1, <2>1, <2>3, HidePart
  <2>5. \E k \in DOMAIN es : pos[k] = i
    BY <2>3, <2>4
  <2> QED BY <1>1, <2>2, <2>4, <2>5, PartHolds
<1> QED BY <1>2, <1>3

LEMMA ClearFinishedHolds ==
  ASSUME TxInv, NEW i \in DOMAIN entries, ~IsTerminal(entries[i]), ClearFinished
  PROVE  Held(entries[i])
<1>1. entries \in Seq(Entry) /\ UNCHANGED session
  BY DEF TxInv, Listed, ClearFinished
<1>2. PICK P : P = {k \in DOMAIN entries : ~IsTerminal(entries[k])} /\ P \in SUBSET DOMAIN entries
  OBVIOUS
<1>3. Becomes(Only(entries, P), tasks)
  BY <1>2 DEF ClearFinished
<1>4. PICK pos : PartOf(Only(entries, P), entries, pos)
                 /\ \A l \in P : \E k \in DOMAIN Only(entries, P) : pos[k] = l
  BY <1>1, <1>2, OnlyPart
<1>5. i \in P
  BY <1>2
<1> QED BY <1>1, <1>3, <1>4, <1>5, PartHolds

LEMMA SwitchHolds ==
  ASSUME TxInv, NEW i \in DOMAIN entries, Switch
  PROVE  Held(entries[i])
<1>1. PICK e \in Entry, es \in Seq(Entry) : e = entries[i] /\ es = entries
  <2>1. entries \in Seq(Entry) /\ entries[i] \in Entry
    BY DEF TxInv, Listed
  <2> QED BY <2>1
<1>2. PICK ts, st, c, m : ts = tasks /\ st = resumed /\ c = account' /\ m = monad'
  OBVIOUS
<1>3. Reconcile(es, ts, st, c, m)
  BY <1>1, <1>2 DEF Switch
<1>4. Kept(e, es)
  BY <1>1 DEF Kept
<1> QED BY <1>1, <1>2, <1>3, <1>4, ReconcileHolds

(* A reload keeps what has a hash.                                         *)
LEMMA ReloadHolds ==
  ASSUME TxInv, NEW i \in DOMAIN entries, ~IsTerminal(entries[i]), entries[i].tx # NoTx, Reload
  PROVE  Held(entries[i])
<1>1. PICK e \in Entry, es1 \in Seq(Entry) : e = entries[i] /\ es1 = entries
  <2>1. entries \in Seq(Entry) /\ entries[i] \in Entry
    BY DEF TxInv, Listed
  <2> QED BY <2>1
<1>2. PICK none, es, c, m : none = {} /\ es = Persisted(es1) /\ c = account' /\ m = monad'
  OBVIOUS
<1>3. PICK pos : PartOf(Persisted(es1), es1, pos)
                 /\ \A k \in DOMAIN es1 : Persistable(es1[k]) => \E l \in DOMAIN Persisted(es1) : pos[l] = k
  BY PersistedPart
<1>4. Persistable(es1[i]) /\ i \in DOMAIN es1
  BY <1>1 DEF Persistable
<1>5. PICK l \in DOMAIN es : pos[l] = i
  BY <1>2, <1>3, <1>4
<1>6. PartOf(es, es1, pos)
  BY <1>2, <1>3
<1>7. Kept(es1[i], es) /\ es \in Seq(Entry)
  BY <1>5, <1>6, PartHas
<1>8. Reconcile(es, none, none, c, m)
  BY <1>1, <1>2 DEF Reload
<1> QED BY <1>1, <1>2, <1>7, <1>8, ReconcileHolds

(* What is tracked pushes out only what is as many places from the end.    *)
LEMMA TrackHolds ==
  ASSUME TxInv, NEW i \in DOMAIN entries, NEW new \in Seq(Entry), i + Len(new) <= Capacity,
         NEW running, Becomes(Track(entries, new), running), UNCHANGED session
  PROVE  Held(entries[i])
<1>1. PICK e \in Entry, es1 \in Seq(Entry) : e = entries[i] /\ es1 = entries
  <2>1. entries \in Seq(Entry) /\ entries[i] \in Entry
    BY DEF TxInv, Listed
  <2> QED BY <2>1
<1>2. Track(es1, new) \in Seq(Entry)
  BY TrackPlaces
<1>3. i + Len(new) \in DOMAIN Track(es1, new) /\ Track(es1, new)[i + Len(new)] = es1[i]
  BY <1>1, TrackPlaces
<1>4. PICK es, j : es = Track(es1, new) /\ j = i + Len(new)
  OBVIOUS
<1>5. j \in DOMAIN es /\ es[j] = e
  BY <1>1, <1>3, <1>4
<1>6. Kept(e, es)
  BY <1>5 DEF Kept
<1>7. Becomes(es, running) /\ es \in Seq(Entry)
  BY <1>1, <1>2, <1>4
<1> QED BY <1>1, <1>6, <1>7, BecomesHolds

(* The number of ids that are new in the list.                             *)
LEMMA NewIds ==
  ASSUME TxInv, TxInv'
  PROVE  /\ Cardinality(Ids(entries') \ Ids(entries)) \in Nat
         /\ Cardinality(Ids(entries') \ Ids(entries)) = 0 => Ids(entries') \ Ids(entries) = {}
<1>1. PICK n \in Nat : n = made'
  BY DEF TxInv
<1>2. Ids(entries') \subseteq 1 .. n
  BY <1>1 DEF TxInv, Listed, Ids
<1>3. PICK S \in SUBSET (1 .. n) : S = Ids(entries') \ Ids(entries)
  BY <1>2
<1>4. IsFiniteSet(S) /\ Cardinality(S) \in Nat
  BY Places
<1>5. Cardinality(S) = 0 => S = {}
  BY <1>4, FS_EmptySet
<1> QED BY <1>3, <1>4, <1>5

(* The entry of a send that simulated holds, or is pushed out by the new   *)
(* entry of another.                                                       *)
LEMMA SimulatedHolds ==
  ASSUME TxInv, TxInv', NEW i \in DOMAIN entries, NEW t \in tasks, t.at = "simulating",
         NEW e \in Entry, e.id = t.id, e.tx = NoTx,
         NEW running, Becomes(Track(entries, <<e>>), running), UNCHANGED session
  PROVE  Held(entries[i]) \/ i + Cardinality(Ids(entries') \ Ids(entries)) > Capacity
<1>1. PICK es1 \in Seq(Entry), new \in Seq(Entry) : es1 = entries /\ new = <<e>>
  <2>1. entries \in Seq(Entry)
    BY DEF TxInv, Listed
  <2>2. <<e>> \in Seq(Entry)
    OBVIOUS
  <2> QED BY <2>1, <2>2
<1>2. Len(new) = 1 /\ DOMAIN new = {1} /\ new[1] = e
  BY <1>1
<1>3. PICK cap \in Nat : cap = Capacity /\ 1 <= cap
  BY ContractTxAssumption
<1>4. i \in Nat
  <2>1. Len(es1) \in Nat /\ DOMAIN es1 = 1 .. Len(es1)
    OBVIOUS
  <2> QED BY <1>1, <2>1
<1>5. CASE i + 1 <= cap
  BY <1>1, <1>2, <1>3, <1>5, TrackHolds
<1>6. CASE ~ (i + 1 <= cap)
  <2>1. PICK es : es = Track(es1, new)
    OBVIOUS
  <2>2. Track(es1, new) \in Seq(Entry) /\ 1 \in DOMAIN Track(es1, new) /\ Track(es1, new)[1] = new[1]
    <3>1. /\ Track(es1, new) \in Seq(Entry)
          /\ \A k \in DOMAIN new : k <= Capacity =>
               k \in DOMAIN Track(es1, new) /\ Track(es1, new)[k] = new[k]
      BY TrackPlaces
    <3>2. 1 \in DOMAIN new /\ 1 <= Capacity
      BY <1>2, <1>3
    <3> QED BY <3>1, <3>2
  <2>3. es \in Seq(Entry) /\ Kept(e, es)
    BY <1>2, <2>1, <2>2 DEF Kept
  <2>4. Becomes(es, running)
    BY <1>1, <2>1
  <2>5. Held(e)
    BY <2>3, <2>4, BecomesHolds
  <2>6. t.id \in Ids(entries')
    BY <2>5 DEF Held, Ids
  <2>7. t.id \notin Ids(entries)
    BY DEF TxInv, Manned
  <2>8. PICK c \in Nat : c = Cardinality(Ids(entries') \ Ids(entries)) /\ c # 0
    BY <2>6, <2>7, NewIds
  <2>9. i + c > cap
    BY <1>4, <1>6, <2>8
  <2> QED BY <1>3, <2>8, <2>9
<1> QED BY <1>5, <1>6

LEMMA MergeHolds ==
  ASSUME TxInv, TxInv', NEW i \in DOMAIN entries, MergeBackend
  PROVE  \/ Held(entries[i])
         \/ i + (IF made' > made THEN made' - made ELSE Cardinality(Ids(entries') \ Ids(entries))) > Capacity
<1>1. PICK answer \in SUBSET Txs :
        LET rows == SetToSeq(answer \ restore.known)
            merged == [k \in DOMAIN rows |->
              [NewEntry(made + 1 + Len(rows) - k, NoAction, Session, TRUE, "PENDING_ONCHAIN")
                 EXCEPT !.tx = rows[k]]]
        IN /\ made' = made + Len(rows)
           /\ Becomes(Track(entries, merged), tasks)
  BY DEF MergeBackend
<1>2. PICK rows \in Seq(Txs) : rows = SetToSeq(answer \ restore.known)
  BY Rows
<1>3. PICK n \in Nat, len \in Nat : n = made /\ len = Len(rows) /\ DOMAIN rows = 1 .. len
  <2>1. made \in Nat /\ Len(rows) \in Nat /\ DOMAIN rows = 1 .. Len(rows)
    BY DEF TxInv
  <2> QED BY <2>1
<1>4. PICK merged : merged = [k \in DOMAIN rows |-> MergedRow(rows, n, k)]
  OBVIOUS
<1>5. made' = n + len /\ Becomes(Track(entries, merged), tasks)
  BY <1>1, <1>2, <1>3, <1>4 DEF MergedRow
<1>6. \A k \in 1 .. len : merged[k] \in Entry
  BY <1>3, <1>4, MergedFields
<1>7. merged \in Seq(Entry) /\ Len(merged) = len
  <2>1. merged \in [1 .. len -> Entry]
    BY <1>3, <1>4, <1>6
  <2> QED BY <2>1
<1>8. PICK cap \in Nat : cap = Capacity
  BY ContractTxAssumption
<1>9. i \in Nat
  <2>1. entries \in Seq(Entry)
    BY DEF TxInv, Listed
  <2>2. Len(entries) \in Nat /\ DOMAIN entries = 1 .. Len(entries)
    BY <2>1
  <2> QED BY <2>2
<1>10. UNCHANGED session
  BY DEF MergeBackend
<1>11. CASE i + len <= cap
  BY <1>5, <1>7, <1>8, <1>10, <1>11, TrackHolds
<1>12. CASE ~ (i + len <= cap)
  <2>1. PICK c \in Nat : c = Cardinality(Ids(entries') \ Ids(entries))
    BY NewIds
  <2>2. PICK newer : newer = IF made' > made THEN made' - made ELSE c
    OBVIOUS
  <2>3. len <= newer /\ newer \in Nat
    <3>1. CASE len = 0
      BY <1>3, <1>5, <2>1, <2>2, <3>1
    <3>2. CASE len # 0
      BY <1>3, <1>5, <2>1, <2>2, <3>2
    <3> QED BY <3>1, <3>2
  <2>4. i + newer > cap
    BY <1>9, <1>12, <2>3
  <2> QED BY <1>8, <2>1, <2>2, <2>4
<1> QED BY <1>11, <1>12

(* The number of reloads and switches is a number.                         *)
UpsetsCount == upsets \in Nat

(* No step but one of those that LocksEndByAnswer lists lets go of a lock. *)
LEMMA LocksStep ==
  ASSUME TxInv, TxInv', UpsetsCount, [ContractTxNext]_contractTxVars,
         NEW i \in DOMAIN entries, entries[i].action # NoAction, ~IsTerminal(entries[i])
  PROVE  \/ Held(entries[i])
         \/ i + (IF made' > made THEN made' - made ELSE Cardinality(Ids(entries') \ Ids(entries))) > Capacity
         \/ upsets' # upsets /\ entries[i].tx = NoTx
<1>1. CASE entries' = entries
  <2>1. entries'[i].id = entries[i].id /\ entries'[i].action = entries[i].action /\ i \in DOMAIN entries'
    BY <1>1
  <2> QED BY <2>1 DEF Held
<1>2. CASE \E action \in Actions : Send(action)
  BY <1>1, <1>2 DEF Send
<1>3. CASE (\E x \in Txs : Mine(x)) \/ FetchUnresolved \/ UNCHANGED contractTxVars
  BY <1>1, <1>3 DEF Mine, FetchUnresolved, contractTxVars, page
<1>4. ASSUME NEW t \in tasks, SimulationReverts(t) \/ AskWallet(t)
      PROVE  \/ Held(entries[i])
             \/ i + (IF made' > made THEN made' - made ELSE Cardinality(Ids(entries') \ Ids(entries))) > Capacity
  <2>1. t \in Running /\ made \in Nat
    BY DEF TxInv, Manned
  <2>2. t.at = "simulating" /\ UNCHANGED session /\ made' = made
    BY <1>4 DEF SimulationReverts, AskWallet
  <2>3. PICK e1, e2 :
          /\ e1 = NewEntry(t.id, NoAction, NoWallet, t.monad, "MINED_REVERTED")
          /\ e2 = NewEntry(t.id, t.action, t.wallet, t.monad, "WAITING_FOR_WALLET")
    OBVIOUS
  <2>4. \A e \in {e1, e2} : e \in Entry /\ e.id = t.id /\ e.tx = NoTx
    <3>1. /\ t.id \in Nat /\ t.action \in Actions \cup {NoAction}
          /\ t.wallet \in Wallets \cup {NoWallet} /\ t.monad \in BOOLEAN
      BY <2>1 DEF Running
    <3>2. e1 \in Entry /\ e1.id = t.id /\ e1.tx = NoTx
      BY <2>3, <3>1 DEF Entry, NewEntry, Terminal
    <3>3. e2 \in Entry /\ e2.id = t.id /\ e2.tx = NoTx
      BY <2>3, <3>1 DEF Entry, NewEntry, Open
    <3> QED BY <3>2, <3>3
  <2>5. \E e \in {e1, e2} : \E running : Becomes(Track(entries, <<e>>), running)
    BY <1>4, <2>3 DEF SimulationReverts, AskWallet
  <2>6. Held(entries[i]) \/ i + Cardinality(Ids(entries') \ Ids(entries)) > Capacity
    BY <2>2, <2>4, <2>5, SimulatedHolds
  <2>7. ~ (made' > made)
    BY <2>1, <2>2
  <2> QED BY <2>6, <2>7
<1>5. ASSUME NEW t \in tasks, WalletRefuses(t) \/ WalletSigns(t) \/ Propagates(t) \/ Poll(t) \/ Verify(t)
      PROVE  Held(entries[i])
  BY <1>5, StepsHold
<1>6. CASE \E t \in tasks : Steps(t)
  BY <1>4, <1>5, <1>6 DEF Steps
<1>7. CASE \E e \in InDrawer : CheckAgain(e) \/ Dismiss(e)
  BY <1>7, CheckAgainHolds, DismissHolds
<1>8. CASE ClearFinished
  BY <1>8, ClearFinishedHolds
<1>9. CASE Switch
  BY <1>9, SwitchHolds
<1>10. CASE MergeBackend
  BY <1>10, MergeHolds
<1>11. CASE Reload
  <2>1. upsets' # upsets
    BY <1>11 DEF Reload, Upset, UpsetsCount
  <2> QED BY <1>11, <2>1, ReloadHolds
<1> QED BY <1>2, <1>3, <1>6, <1>7, <1>8, <1>9, <1>10, <1>11 DEF ContractTxNext

LEMMA UpsetsCounted == ContractTxSpec => []UpsetsCount
<1>1. ContractTxInit => UpsetsCount
  BY DEF ContractTxInit, UpsetsCount
<1>2. ASSUME UpsetsCount, [ContractTxNext]_contractTxVars PROVE UpsetsCount'
  <2>1. upsets' = upsets \/ Upset
    <3>1. CASE \E action \in Actions : Send(action)
      BY <3>1 DEF Send
    <3>2. ASSUME NEW t \in tasks, Steps(t) PROVE upsets' = upsets
      BY <3>2 DEF Steps, SimulationReverts, AskWallet, WalletRefuses, WalletSigns, Propagates, Poll, Verify
    <3>3. CASE \E e \in InDrawer : CheckAgain(e) \/ Dismiss(e)
      BY <3>3 DEF CheckAgain, Dismiss
    <3>4. CASE ClearFinished
      BY <3>4 DEF ClearFinished
    <3>5. CASE Reload
      BY <3>5 DEF Reload
    <3>6. CASE Switch
      BY <3>6 DEF Switch
    <3>7. CASE FetchUnresolved \/ MergeBackend
      BY <3>7 DEF FetchUnresolved, MergeBackend
    <3>8. CASE \E x \in Txs : Mine(x)
      BY <3>8 DEF Mine
    <3>9. CASE UNCHANGED contractTxVars
      BY <3>9 DEF contractTxVars
    <3> QED BY <1>2, <3>1, <3>2, <3>3, <3>4, <3>5, <3>6, <3>7, <3>8, <3>9 DEF ContractTxNext
  <2> QED BY <1>2, <2>1 DEF Upset, UpsetsCount
<1> QED BY <1>1, <1>2, PTL DEF ContractTxSpec

(* An action is unlocked only by an answer, because its entry is stale for *)
(* the new wallet or chain, because newer entries push it out, or by a     *)
(* reload before it had a hash: neither dismissing, clearing, a retry nor  *)
(* a restored row lets a second call through earlier.                      *)
THEOREM LocksOnlyEndByAnswer == ContractTxSpec => LocksEndByAnswer
<1> DEFINE Lock(i) ==
      LET e == entries[i]
          after == {k \in DOMAIN entries' : entries'[k].id = e.id}
          newer == IF made' > made THEN made' - made ELSE Cardinality(Ids(entries') \ Ids(entries))
      IN e.action # NoAction /\ ~IsTerminal(e) =>
           \/ \E k \in after : entries'[k].action = e.action
           \/ IsStaleForSession([e EXCEPT !.status = "PENDING_ONCHAIN"], account', monad') /\ e.tx # NoTx
           \/ i + newer > Capacity
           \/ upsets' # upsets /\ e.tx = NoTx
<1>1. ASSUME TxInv, TxInv', UpsetsCount, [ContractTxNext]_contractTxVars
      PROVE  [\A i \in DOMAIN entries : Lock(i)]_contractTxVars
  <2>1. SUFFICES ASSUME NEW i \in DOMAIN entries, entries[i].action # NoAction, ~IsTerminal(entries[i])
                 PROVE  Lock(i)
    OBVIOUS
  <2>2. \/ Held(entries[i])
        \/ i + (IF made' > made THEN made' - made ELSE Cardinality(Ids(entries') \ Ids(entries))) > Capacity
        \/ upsets' # upsets /\ entries[i].tx = NoTx
    BY <1>1, <2>1, LocksStep
  <2>3. CASE Held(entries[i])
    BY <2>3 DEF Held
  <2> QED BY <2>2, <2>3
<1>2. TxInv /\ TxInv' /\ UpsetsCount /\ [ContractTxNext]_contractTxVars =>
        [\A i \in DOMAIN entries :
           LET e == entries[i]
               after == {k \in DOMAIN entries' : entries'[k].id = e.id}
               newer == IF made' > made THEN made' - made ELSE Cardinality(Ids(entries') \ Ids(entries))
           IN e.action # NoAction /\ ~IsTerminal(e) =>
                \/ \E k \in after : entries'[k].action = e.action
                \/ IsStaleForSession([e EXCEPT !.status = "PENDING_ONCHAIN"], account', monad') /\ e.tx # NoTx
                \/ i + newer > Capacity
                \/ upsets' # upsets /\ e.tx = NoTx]_contractTxVars
  BY <1>1
<1> QED BY <1>2, ContractTxInductive, UpsetsCounted, PTL DEF ContractTxSpec, LocksEndByAnswer
=============================================================================
