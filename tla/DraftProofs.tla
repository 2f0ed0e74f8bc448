---------------------------- MODULE DraftProofs ----------------------------
(***************************************************************************)
(* Proofs about drafts: however many requests edit, delete and confirm     *)
(* them at once, and however late the page of a draft comes back to what   *)
(* it had prepared, what is registered is the agreement on chain, and what *)
(* was signed, can be confirmed or is reported as done is what was agreed. *)
(***************************************************************************)
EXTENDS DraftPage, SequenceTheorems, TLAPS

-----------------------------------------------------------------------------
(* Types                                                                   *)

Rosters == Seq(Users \X Nat)

Row == [creator : Users \cup {NoUser}, recipient : Users \cup {NoUser},
        terms : Terms \cup {NoTerms}, roster : Rosters, tx : Txs \cup {NoTx},
        status : {"NONE", "DRAFT", "CONFIRMED", "DELETED"}]

IndexRow == [creator : Users, recipient : Users, hash : Terms, tx : Txs]

Updates == [kind : {"update"}, draft : DraftIds, terms : Terms, loaded : Row]
Deletions == [kind : {"delete"}, draft : DraftIds]
Confirmations == [kind : {"confirm"}, draft : DraftIds, tx : Txs, loaded : Row,
                  newIndex : BOOLEAN, newMetadata : BOOLEAN]
Requests == Updates \cup Deletions \cup Confirmations

Typed ==
  /\ drafts \in [DraftIds -> Row]
  /\ index \in [Txs -> IndexRow \cup {NotIndexed}]
  /\ metadata \in [Txs -> Terms \cup {NoTerms}]
  /\ mined \in [Txs -> Creation \cup {NotMined}]
  /\ request \in [Workers -> Requests \cup {Idle}]
  /\ raced \subseteq DraftIds

-----------------------------------------------------------------------------
(* The inductive invariant of the backend                                  *)

(* Recipient and tenants are those of the terms.                           *)
Whole(row) == row.recipient = row.terms.recipient /\ row.roster = row.terms.roster

(* A draft that exists was made of terms, and is whole unless two requests *)
(* worked on it at once; what it was confirmed with is registered.         *)
RowSound(d) ==
  /\ Exists(d) =>
       /\ drafts[d].creator \in Users /\ drafts[d].recipient \in Users
       /\ drafts[d].terms \in Terms
       /\ d \notin raced => Whole(drafts[d])
  /\ drafts[d].status = "CONFIRMED" => drafts[d].tx \in Txs
  /\ drafts[d].tx \in Txs => metadata[drafts[d].tx] # NoTerms

(* What is registered of a transaction is what the chain says of it.       *)
TxSound(t) ==
  /\ index[t] # NotIndexed =>
       /\ mined[t] # NotMined
       /\ index[t].creator = mined[t].creator
       /\ index[t].recipient = mined[t].recipient
       /\ index[t].hash = mined[t].hash
  /\ metadata[t] # NoTerms => index[t] # NotIndexed /\ metadata[t] = mined[t].hash

(* A request works on a draft that was a DRAFT when it was read, and still *)
(* is as it was read unless another request worked on it.  What a          *)
(* confirmation has compared with the chain is what it loaded, and what it *)
(* has found registered stays registered.                                  *)
RequestSound(r) ==
  /\ r.draft \notin raced =>
       /\ drafts[r.draft].status = "DRAFT"
       /\ r.kind \in {"update", "confirm"} => r.loaded = drafts[r.draft]
  /\ r.kind = "confirm" =>
       /\ mined[r.tx] # NotMined /\ Matches(r.loaded, mined[r.tx])
       /\ ~ r.newIndex => index[r.tx] # NotIndexed
       /\ ~ r.newMetadata => metadata[r.tx] # NoTerms

(* Outside the races a draft has one request under way.                    *)
Alone ==
  \A v, w \in Workers :
    /\ request[v] # Idle /\ request[w] # Idle
    /\ request[v].draft = request[w].draft /\ request[v].draft \notin raced
    => v = w

DraftsInv ==
  /\ Typed
  /\ \A d \in DraftIds : RowSound(d)
  /\ \A t \in Txs : TxSound(t)
  /\ \A w \in Workers : request[w] # Idle => RequestSound(request[w])
  /\ Alone

-----------------------------------------------------------------------------
(* The inductive invariant of the page                                     *)

Preparations ==
  [draft : DraftIds, canonicalTerms : Terms, termsHash : Terms, recipient : Users,
   roster : Rosters]

(* What was prepared was made of a draft that was whole.                   *)
PreparedSound(p) ==
  /\ p \in Preparations
  /\ p.draft \notin raced =>
       p.recipient = p.termsHash.recipient /\ p.roster = p.termsHash.roster

Sending == [arguments : Preparations, sender : Users, tx : Txs,
            at : {"sent", "done", "failed"} \cup Workers]

(* The agreement that a creation makes when it is mined.                   *)
CreationOf(c) ==
  [creator |-> c.sender, recipient |-> c.arguments.recipient,
   hash |-> c.arguments.termsHash, roster |-> c.arguments.roster]

(* Nobody else's call has the transaction of a creation; the request that  *)
(* it waits for is its own; and when it is done, it is registered.         *)
SendingSound(c) ==
  /\ PreparedSound(c.arguments)
  /\ mined[c.tx] \in {NotMined, CreationOf(c)}
  /\ c.at \in Workers =>
       LET r == request[c.at]
       IN  /\ r # Idle /\ r.kind = "confirm"
           /\ r.draft = c.arguments.draft /\ r.tx = c.tx
  /\ c.at = "done" =>
       /\ metadata[c.tx] = c.arguments.termsHash
       /\ c.arguments.draft \notin raced =>
            /\ drafts[c.arguments.draft].status = "CONFIRMED"
            /\ drafts[c.arguments.draft].tx = c.tx

PageInv ==
  /\ prepared # NotPrepared => PreparedSound(prepared)
  /\ creating \in Seq(Sending)
  /\ \A i \in DOMAIN creating : SendingSound(creating[i])
  /\ \A i, j \in DOMAIN creating : creating[i].tx = creating[j].tx => i = j

AllInv == DraftsInv /\ PageInv

-----------------------------------------------------------------------------
(* What rows and requests are                                              *)

LEMMA DraftTyped ==
  ASSUME Typed, NEW d \in DraftIds
  PROVE  /\ drafts[d] \in Row
         /\ drafts[d].creator \in Users \cup {NoUser} /\ drafts[d].recipient \in Users \cup {NoUser}
         /\ drafts[d].terms \in Terms \cup {NoTerms} /\ drafts[d].roster \in Rosters
         /\ drafts[d].tx \in Txs \cup {NoTx}
         /\ drafts[d].status \in {"NONE", "DRAFT", "CONFIRMED", "DELETED"}
BY DEF Typed, Row

LEMMA TermsTyped ==
  ASSUME NEW terms \in Terms
  PROVE  /\ terms.creator \in Users /\ terms.recipient \in Users /\ terms.roster \in Rosters
BY DraftsAssumption DEF Rosters

LEMMA CreationTyped ==
  ASSUME NEW c \in Creation
  PROVE  /\ c.creator \in Users /\ c.recipient \in Users /\ c.hash \in Terms
         /\ c.roster \in Rosters /\ c # NotMined
BY DraftsAssumption DEF Creation, NotMined, Rosters

LEMMA RequestTyped ==
  ASSUME Typed, NEW w \in Workers
  PROVE  /\ request[w] \in Requests \cup {Idle}
         /\ request[w] # Idle => request[w].draft \in DraftIds
         /\ request[w].kind = "update" => request[w] # Idle /\ request[w] \in Updates
         /\ request[w].kind = "delete" => request[w] # Idle /\ request[w] \in Deletions
         /\ request[w].kind = "confirm" => request[w] # Idle /\ request[w] \in Confirmations
<1>1. PICK r \in Requests \cup {Idle} : r = request[w]
  BY DEF Typed
<1>2. Idle.kind = "idle"
  BY DEF Idle
<1>3. CASE r = Idle
  BY <1>1, <1>2, <1>3
<1>4. CASE r \in Updates
  <2>1. r.kind = "update" /\ r.draft \in DraftIds
    BY <1>4 DEF Updates
  <2> QED BY <1>1, <1>2, <1>4, <2>1 DEF Requests
<1>5. CASE r \in Deletions
  <2>1. r.kind = "delete" /\ r.draft \in DraftIds
    BY <1>5 DEF Deletions
  <2> QED BY <1>1, <1>2, <1>5, <2>1 DEF Requests
<1>6. CASE r \in Confirmations
  <2>1. r.kind = "confirm" /\ r.draft \in DraftIds
    BY <1>6 DEF Confirmations
  <2> QED BY <1>1, <1>2, <1>6, <2>1 DEF Requests
<1> QED BY <1>3, <1>4, <1>5, <1>6 DEF Requests

LEMMA RequestIsOne ==
  ASSUME NEW r \in Requests
  PROVE  /\ r # Idle /\ r.draft \in DraftIds /\ r.kind \in {"update", "delete", "confirm"}
<1>1. Idle.kind = "idle"
  BY DEF Idle
<1>2. r.kind \in {"update", "delete", "confirm"} /\ r.draft \in DraftIds
  BY DEF Requests, Updates, Deletions, Confirmations
<1> QED BY <1>1, <1>2

(* A request begins or ends at one worker.                                 *)
LEMMA RequestSet ==
  ASSUME Typed, NEW w \in Workers, NEW r \in Requests \cup {Idle},
         request' = [request EXCEPT ![w] = r]
  PROVE  /\ request' \in [Workers -> Requests \cup {Idle}]
         /\ request'[w] = r /\ \A v \in Workers \ {w} : request'[v] = request[v]
BY DEF Typed

-----------------------------------------------------------------------------
(* Reading, and stopping                                                   *)

LEMMA ReadKeeps ==
  ASSUME DraftsInv, NEW w \in Workers, NEW r \in Requests, Reads(w, r),
         UNCHANGED <<draftTables, mined>>, RequestSound(r)
  PROVE  DraftsInv'
<1>1. Typed /\ UNCHANGED <<drafts, index, metadata, mined>>
  BY DEF DraftsInv, draftTables
<1>2. r # Idle /\ r.draft \in DraftIds
  BY RequestIsOne
<1>3. request[w] = Idle /\ request' = [request EXCEPT ![w] = r]
  BY DEF Reads
<1>4. /\ request' \in [Workers -> Requests \cup {Idle}]
      /\ request'[w] = r /\ \A v \in Workers \ {w} : request'[v] = request[v]
  BY <1>1, <1>3, RequestSet
<1>5. raced \subseteq raced' /\ raced' \subseteq DraftIds /\ (Busy(r.draft) => r.draft \in raced')
  BY <1>1, <1>2 DEF Reads, Typed
<1>6. Typed'
  BY <1>1, <1>4, <1>5 DEF Typed
<1>7. ASSUME NEW d \in DraftIds PROVE RowSound(d)'
  <2>1. RowSound(d)
    BY DEF DraftsInv
  <2> QED BY <1>1, <1>5, <2>1 DEF RowSound, Exists
<1>8. ASSUME NEW t \in Txs PROVE TxSound(t)'
  <2>1. TxSound(t)
    BY DEF DraftsInv
  <2> QED BY <1>1, <2>1 DEF TxSound
<1>9. ASSUME NEW v \in Workers, request'[v] # Idle PROVE RequestSound(request[v])'
  <2>1. RequestSound(request'[v])
    BY <1>3, <1>4, <1>9 DEF DraftsInv
  <2> QED BY <1>1, <1>5, <2>1 DEF RequestSound
<1>10. Alone'
  <2> SUFFICES ASSUME NEW u \in Workers, NEW v \in Workers,
                      request'[u] # Idle, request'[v] # Idle,
                      request'[u].draft = request'[v].draft, request'[u].draft \notin raced'
               PROVE  u = v
    BY DEF Alone
  <2>1. CASE u # w /\ v # w
    BY <1>4, <1>5, <2>1 DEF DraftsInv, Alone
  <2>2. CASE u = w /\ v # w
    <3>1. Busy(r.draft)
      BY <1>4, <2>2 DEF Busy
    <3> QED BY <1>4, <1>5, <2>2, <3>1
  <2>3. CASE u # w /\ v = w
    <3>1. Busy(r.draft)
      BY <1>4, <2>3 DEF Busy
    <3> QED BY <1>4, <1>5, <2>3, <3>1
  <2> QED BY <2>1, <2>2, <2>3
<1> QED BY <1>6, <1>7, <1>8, <1>9, <1>10 DEF DraftsInv

(* A request that stops leaves nothing.                                    *)
LEMMA AbortKeeps ==
  ASSUME DraftsInv, NEW w \in Workers, Abort(w)
  PROVE  DraftsInv'
<1>1. Typed /\ UNCHANGED <<drafts, index, metadata, mined, raced>>
  BY DEF DraftsInv, draftTables, Abort
<1>2. /\ request' \in [Workers -> Requests \cup {Idle}]
      /\ request'[w] = Idle /\ \A v \in Workers \ {w} : request'[v] = request[v]
  BY <1>1, RequestSet DEF Abort
<1>3. Typed'
  BY <1>1, <1>2 DEF Typed
<1>4. (\A d \in DraftIds : RowSound(d)')
  BY <1>1 DEF DraftsInv, RowSound, Exists
<1>5. (\A t \in Txs : TxSound(t)')
  BY <1>1 DEF DraftsInv, TxSound
<1>6. ASSUME NEW v \in Workers, request'[v] # Idle PROVE RequestSound(request[v])'
  <2>1. RequestSound(request'[v])
    BY <1>2, <1>6 DEF DraftsInv
  <2> QED BY <1>1, <2>1 DEF RequestSound
<1>7. Alone'
  BY <1>1, <1>2 DEF DraftsInv, Alone
<1> QED BY <1>3, <1>4, <1>5, <1>6, <1>7 DEF DraftsInv

(* Something is mined: nothing was said of it before.                      *)
LEMMA MineKeeps ==
  ASSUME DraftsInv, NEW t \in Txs, NEW c \in Creation, Mine(t, c)
  PROVE  DraftsInv'
<1>1. Typed /\ UNCHANGED <<drafts, index, metadata, request, raced>>
  BY DEF DraftsInv, draftTables, Mine
<1>2. /\ mined[t] = NotMined /\ mined' \in [Txs -> Creation \cup {NotMined}]
      /\ mined'[t] = c /\ \A x \in Txs \ {t} : mined'[x] = mined[x]
  BY <1>1 DEF Mine, Typed
<1>3. Typed'
  BY <1>1, <1>2 DEF Typed
<1>4. (\A d \in DraftIds : RowSound(d)')
  BY <1>1 DEF DraftsInv, RowSound, Exists
<1>5. ASSUME NEW x \in Txs PROVE TxSound(x)'
  <2>1. TxSound(x)
    BY DEF DraftsInv
  <2> QED BY <1>1, <1>2, <2>1 DEF TxSound
<1>6. ASSUME NEW v \in Workers, request[v] # Idle PROVE RequestSound(request[v])'
  <2>1. RequestSound(request[v])
    BY <1>6 DEF DraftsInv
  <2>2. request[v].kind = "confirm" => request[v].tx \in Txs
    BY <1>1, RequestTyped DEF Confirmations
  <2>3. request[v].kind = "confirm" => mined'[request[v].tx] = mined[request[v].tx]
    BY <1>2, <2>1, <2>2 DEF RequestSound
  <2> QED BY <1>1, <2>1, <2>3 DEF RequestSound
<1>7. Alone'
  BY <1>1 DEF DraftsInv, Alone
<1> QED BY <1>1, <1>3, <1>4, <1>5, <1>6, <1>7 DEF DraftsInv

-----------------------------------------------------------------------------
(* Writing                                                                 *)

(* One draft's row is replaced.                                            *)
LEMMA RowSet ==
  ASSUME Typed, NEW d \in DraftIds, NEW row \in Row, drafts' = [drafts EXCEPT ![d] = row]
  PROVE  /\ drafts' \in [DraftIds -> Row]
         /\ drafts'[d] = row /\ \A e \in DraftIds \ {d} : drafts'[e] = drafts[e]
BY DEF Typed

(* What is registered stays.                                               *)
Registered(t) ==
  /\ index[t] # NotIndexed => index'[t] # NotIndexed
  /\ metadata[t] # NoTerms => metadata'[t] = metadata[t]

(* A request that has its draft for itself writes it and ends; the other   *)
(* requests work on other drafts.                                          *)
LEMMA WriteKeeps ==
  ASSUME DraftsInv, NEW w \in Workers, NEW d \in DraftIds, NEW row \in Row,
         request[w] # Idle, request[w].draft = d,
         drafts' = [drafts EXCEPT ![d] = row],
         request' = [request EXCEPT ![w] = Idle], UNCHANGED <<mined, raced>>,
         index' \in [Txs -> IndexRow \cup {NotIndexed}],
         metadata' \in [Txs -> Terms \cup {NoTerms}],
         \A t \in Txs : TxSound(t)' /\ Registered(t), RowSound(d)'
  PROVE  DraftsInv'
<1>1. Typed
  BY DEF DraftsInv
<1>2. /\ request' \in [Workers -> Requests \cup {Idle}]
      /\ request'[w] = Idle /\ \A v \in Workers \ {w} : request'[v] = request[v]
  BY <1>1, RequestSet
<1>3. /\ drafts' \in [DraftIds -> Row]
      /\ drafts'[d] = row /\ \A e \in DraftIds \ {d} : drafts'[e] = drafts[e]
  BY <1>1, RowSet
<1>4. Typed'
  BY <1>1, <1>2, <1>3 DEF Typed
<1>5. ASSUME NEW e \in DraftIds \ {d} PROVE RowSound(e)'
  <2>1. RowSound(e) /\ drafts'[e] = drafts[e] /\ raced' = raced
    BY <1>3 DEF DraftsInv
  <2>2. drafts[e].tx \in Txs => metadata'[drafts[e].tx] # NoTerms
    BY <2>1 DEF RowSound, Registered
  <2> QED BY ONLY <2>1, <2>2 DEF RowSound, Exists
<1>6. ASSUME NEW v \in Workers, request'[v] # Idle PROVE RequestSound(request[v])'
  <2>1. v # w /\ request'[v] = request[v]
    BY <1>2, <1>6
  <2>2. PICK r : r = request[v]
    OBVIOUS
  <2>3. r # Idle /\ RequestSound(r) /\ (r.draft \notin raced => r.draft # d) /\ r.draft \in DraftIds
    BY <1>1, <1>6, <2>1, <2>2, RequestTyped DEF DraftsInv, Alone
  <2>4. r.draft \notin raced => drafts'[r.draft] = drafts[r.draft]
    BY <1>3, <2>3
  <2>5. r.kind = "confirm" => r.tx \in Txs
    BY <1>1, <2>2, RequestTyped DEF Confirmations
  <2>6. RequestSound(r)'
    BY <2>3, <2>4, <2>5 DEF RequestSound, Registered
  <2> QED BY <2>1, <2>2, <2>6
<1>7. Alone'
  BY <1>1, <1>2 DEF DraftsInv, Alone
<1> QED BY <1>4, <1>5, <1>6, <1>7 DEF DraftsInv

(* The row that an update leaves.                                          *)
Updated(row, old, loaded, terms) ==
  /\ row.creator = old.creator /\ row.tx = old.tx /\ row.status = old.status
  /\ row.recipient \in {terms.recipient, old.recipient}
  /\ row.terms \in {terms, old.terms} /\ row.roster = terms.roster
  /\ loaded = old => row.recipient = terms.recipient /\ row.terms = terms

LEMMA ReplacedIs ==
  ASSUME NEW old \in Row, NEW loaded \in Row, NEW terms \in Terms,
         NEW row, row = Replaced(old, loaded, terms)
  PROVE  row \in Row /\ Updated(row, old, loaded, terms)
<1>1. PICK creator, recipient, agreed, roster, tx, status :
        old = [creator |-> creator, recipient |-> recipient, terms |-> agreed,
               roster |-> roster, tx |-> tx, status |-> status]
  BY DEF Row
<1>2. PICK as, of, who :
        /\ as = IF terms.recipient # loaded.recipient THEN terms.recipient ELSE old.recipient
        /\ of = IF terms # loaded.terms THEN terms ELSE old.terms
        /\ who = terms.roster
  OBVIOUS
<1>3. row = [old EXCEPT !.recipient = as, !.terms = of, !.roster = who]
  BY <1>2 DEF Replaced
<1>4. row = [creator |-> creator, recipient |-> as, terms |-> of,
             roster |-> who, tx |-> tx, status |-> status]
  BY ONLY <1>1, <1>3
<1>5. /\ as \in {terms.recipient, old.recipient} /\ of \in {terms, old.terms}
      /\ loaded = old => as = terms.recipient /\ of = terms
  BY ONLY <1>2
<1>6. as \in Users \cup {NoUser} /\ of \in Terms \cup {NoTerms} /\ who \in Rosters
  BY <1>2, <1>5, TermsTyped DEF Row
<1> QED BY <1>1, <1>2, <1>4, <1>5, <1>6 DEF Row, Updated

LEMMA WriteUpdateKeeps ==
  ASSUME DraftsInv, NEW w \in Workers, WriteUpdate(w)
  PROVE  DraftsInv'
<1>1. Typed
  BY DEF DraftsInv
<1>2. PICK r \in Updates : r = request[w]
  BY <1>1, RequestTyped DEF WriteUpdate, Writes
<1>3. /\ request[w] # Idle /\ r.draft \in DraftIds /\ r.terms \in Terms /\ r.loaded \in Row
      /\ r.kind = "update" /\ RequestSound(r)
  BY <1>1, <1>2, RequestTyped DEF Updates, DraftsInv
<1>4. PICK d \in DraftIds, old \in Row, loaded \in Row, terms \in Terms :
        d = r.draft /\ old = drafts[r.draft] /\ loaded = r.loaded /\ terms = r.terms
  BY <1>1, <1>3, DraftTyped
<1>5. PICK row : row = Replaced(old, loaded, terms)
  OBVIOUS
<1>6. row \in Row /\ Updated(row, old, loaded, terms)
  BY ONLY old \in Row, loaded \in Row, terms \in Terms, <1>5, ReplacedIs
<1>7. /\ request' = [request EXCEPT ![w] = Idle] /\ UNCHANGED <<index, metadata, mined, raced>>
      /\ Exists(d) /\ drafts' = [drafts EXCEPT ![d] = row]
  BY <1>2, <1>4, <1>5 DEF WriteUpdate, Writes
<1>8. drafts'[d] = row
  BY <1>1, <1>6, <1>7, RowSet
<1>9. /\ old.creator \in Users /\ old.recipient \in Users /\ old.terms \in Terms
      /\ old.status = "CONFIRMED" => old.tx \in Txs
      /\ old.tx \in Txs => metadata[old.tx] # NoTerms
  BY <1>4, <1>7 DEF DraftsInv, RowSound
<1>10. terms.recipient \in Users
  BY TermsTyped
<1>11. d \notin raced => loaded = old
  BY <1>3, <1>4 DEF RequestSound
<1>12. RowSound(d)'
  BY <1>6, <1>7, <1>8, <1>9, <1>10, <1>11 DEF RowSound, Whole, Updated
<1>13. \A t \in Txs : TxSound(t)' /\ Registered(t)
  BY <1>7 DEF DraftsInv, TxSound, Registered
<1>14. index' \in [Txs -> IndexRow \cup {NotIndexed}] /\ metadata' \in [Txs -> Terms \cup {NoTerms}]
  BY <1>1, <1>7 DEF Typed
<1>15. request[w].draft = d
  BY <1>2, <1>4
<1>16. UNCHANGED <<mined, raced>>
  BY <1>7
<1>17. drafts' = [drafts EXCEPT ![d] = row] /\ request' = [request EXCEPT ![w] = Idle]
  BY <1>7
<1> QED
  BY ONLY DraftsInv, w \in Workers, d \in DraftIds, <1>3, <1>6, <1>12, <1>13, <1>14, <1>15, <1>16,
          <1>17, WriteKeeps

LEMMA DeletedIs ==
  ASSUME NEW row, row = [NoRow EXCEPT !.status = "DELETED"]
  PROVE  row \in Row /\ row.status = "DELETED" /\ row.tx = NoTx
<1>1. PICK nobody : nobody \in Rosters /\ nobody = << >>
  BY EmptySeq DEF Rosters
<1>2. PICK status : status = "DELETED"
  OBVIOUS
<1>3. row = [creator |-> NoUser, recipient |-> NoUser, terms |-> NoTerms, roster |-> nobody,
             tx |-> NoTx, status |-> status]
  BY <1>1, <1>2 DEF NoRow
<1>4. row \in Row
  BY ONLY <1>1, <1>2, <1>3 DEF Row
<1> QED BY <1>2, <1>3, <1>4

LEMMA WriteDeleteKeeps ==
  ASSUME DraftsInv, NEW w \in Workers, WriteDelete(w)
  PROVE  DraftsInv'
<1>1. Typed
  BY DEF DraftsInv
<1>2. PICK r \in Deletions : r = request[w]
  BY <1>1, RequestTyped DEF WriteDelete, Writes
<1>3. request[w] # Idle /\ r.draft \in DraftIds
  BY <1>1, <1>2, RequestTyped DEF Deletions
<1>4. PICK d \in DraftIds : d = r.draft
  BY <1>3
<1>12. PICK row : row = [NoRow EXCEPT !.status = "DELETED"]
  OBVIOUS
<1>5. row \in Row /\ row.status = "DELETED" /\ row.tx = NoTx
  BY <1>12, DeletedIs
<1>6. /\ request' = [request EXCEPT ![w] = Idle] /\ UNCHANGED <<index, metadata, mined, raced>>
      /\ drafts' = [drafts EXCEPT ![d] = row]
  BY <1>2, <1>4, <1>12 DEF WriteDelete, Writes
<1>7. drafts'[d] = row
  BY <1>1, <1>5, <1>6, RowSet
<1>8. RowSound(d)'
  BY <1>5, <1>7, DraftsAssumption DEF RowSound, Exists
<1>9. \A t \in Txs : TxSound(t)' /\ Registered(t)
  BY <1>6 DEF DraftsInv, TxSound, Registered
<1>10. index' \in [Txs -> IndexRow \cup {NotIndexed}] /\ metadata' \in [Txs -> Terms \cup {NoTerms}]
  BY <1>1, <1>6 DEF Typed
<1>11. request[w].draft = d /\ UNCHANGED <<mined, raced>>
  BY <1>2, <1>4, <1>6
<1> QED
  BY ONLY DraftsInv, w \in Workers, d \in DraftIds, <1>3, <1>5, <1>6, <1>8, <1>9, <1>10, <1>11,
          WriteKeeps

(* A new draft: nobody works on it yet.                                    *)
LEMMA CreateKeeps ==
  ASSUME DraftsInv, NEW w \in Workers, NEW d \in DraftIds, NEW terms \in Terms,
         CreateDraft(w, d, terms)
  PROVE  DraftsInv'
<1>1. Typed /\ UNCHANGED <<index, metadata, mined, request, raced>> /\ drafts[d].status = "NONE"
  BY DEF DraftsInv, CreateDraft
<1>2. PICK row : row = [creator |-> terms.creator, recipient |-> terms.recipient, terms |-> terms,
                        roster |-> terms.roster, tx |-> NoTx, status |-> "DRAFT"]
  OBVIOUS
<1>3. terms.creator \in Users /\ terms.recipient \in Users /\ terms.roster \in Rosters
  BY TermsTyped
<1>4. /\ row \in Row /\ row.creator \in Users /\ row.recipient \in Users /\ row.terms \in Terms
      /\ Whole(row) /\ row.tx = NoTx /\ row.status = "DRAFT"
  BY <1>2, <1>3 DEF Row, Whole
<1>5. /\ drafts' \in [DraftIds -> Row]
      /\ drafts'[d] = row /\ \A e \in DraftIds \ {d} : drafts'[e] = drafts[e]
  BY <1>1, <1>2, <1>4, RowSet DEF CreateDraft
<1>6. Typed'
  BY <1>1, <1>5 DEF Typed
<1>7. RowSound(d)'
  BY <1>4, <1>5, DraftsAssumption DEF RowSound
<1>8. ASSUME NEW e \in DraftIds \ {d} PROVE RowSound(e)'
  BY <1>1, <1>5 DEF DraftsInv, RowSound, Exists
<1>9. \A t \in Txs : TxSound(t)'
  BY <1>1 DEF DraftsInv, TxSound
<1>10. ASSUME NEW v \in Workers, request[v] # Idle PROVE RequestSound(request[v])'
  <2>1. PICK r : r = request[v]
    OBVIOUS
  <2>2. r # Idle /\ RequestSound(r) /\ r.draft \in DraftIds
    BY <1>1, <1>10, <2>1, RequestTyped DEF DraftsInv
  <2>3. r.draft \notin raced => drafts'[r.draft] = drafts[r.draft]
    BY <1>1, <1>5, <2>2 DEF RequestSound
  <2>4. RequestSound(r)'
    BY <1>1, <2>2, <2>3 DEF RequestSound
  <2> QED BY <1>1, <2>1, <2>4
<1>11. Alone'
  BY <1>1 DEF DraftsInv, Alone
<1> QED BY <1>1, <1>6, <1>7, <1>8, <1>9, <1>10, <1>11 DEF DraftsInv

(* The row that a confirmation leaves.                                     *)
ConfirmedRow(old, t) == [old EXCEPT !.status = "CONFIRMED", !.tx = t]

LEMMA ConfirmedIs ==
  ASSUME NEW old \in Row, NEW t \in Txs, NEW row, row = ConfirmedRow(old, t)
  PROVE  /\ row \in Row
         /\ row.creator = old.creator /\ row.recipient = old.recipient
         /\ row.terms = old.terms /\ row.roster = old.roster
         /\ row.status = "CONFIRMED" /\ row.tx = t
<1>1. PICK creator, recipient, agreed, roster, tx, status :
        old = [creator |-> creator, recipient |-> recipient, terms |-> agreed,
               roster |-> roster, tx |-> tx, status |-> status]
  BY DEF Row
<1>2. PICK confirmed : confirmed = "CONFIRMED"
  OBVIOUS
<1>3. row = [old EXCEPT !.status = confirmed, !.tx = t]
  BY <1>2 DEF ConfirmedRow
<1>4. row = [creator |-> creator, recipient |-> recipient, terms |-> agreed,
             roster |-> roster, tx |-> t, status |-> confirmed]
  BY ONLY <1>1, <1>3
<1>5. row \in Row
  BY <1>1, <1>2, <1>4 DEF Row
<1> QED BY <1>1, <1>2, <1>4, <1>5

LEMMA ConfirmedInPlace ==
  ASSUME Typed, NEW d \in DraftIds, NEW t,
         drafts' = [drafts EXCEPT ![d].status = "CONFIRMED", ![d].tx = t]
  PROVE  drafts' = [drafts EXCEPT ![d] = ConfirmedRow(drafts[d], t)]
<1>1. drafts \in [DraftIds -> Row]
  BY DEF Typed
<1> QED BY <1>1 DEF ConfirmedRow

LEMMA WriteConfirmKeeps ==
  ASSUME DraftsInv, NEW w \in Workers, WriteConfirm(w)
  PROVE  DraftsInv'
<1>1. Typed
  BY DEF DraftsInv
<1>2. PICK r \in Confirmations : r = request[w]
  BY <1>1, RequestTyped DEF WriteConfirm, Writes
<1>3. /\ request[w] # Idle /\ r.draft \in DraftIds /\ r.loaded \in Row
      /\ r.kind = "confirm" /\ RequestSound(r)
  BY <1>1, <1>2, RequestTyped DEF Confirmations, DraftsInv
<1>4. PICK d \in DraftIds, old \in Row, loaded \in Row, t \in Txs :
        d = r.draft /\ old = drafts[r.draft] /\ loaded = r.loaded /\ t = r.tx
  BY <1>1, <1>3, DraftTyped DEF Confirmations
<1>5. PICK row : row = ConfirmedRow(old, t)
  OBVIOUS
<1>6. /\ row \in Row
      /\ row.creator = old.creator /\ row.recipient = old.recipient
      /\ row.terms = old.terms /\ row.roster = old.roster
      /\ row.status = "CONFIRMED" /\ row.tx = t
  BY ONLY old \in Row, t \in Txs, <1>5, ConfirmedIs
<1>7. /\ request' = [request EXCEPT ![w] = Idle] /\ UNCHANGED <<mined, raced>> /\ Exists(d)
      /\ drafts' = [drafts EXCEPT ![d].status = "CONFIRMED", ![d].tx = t]
  BY <1>2, <1>4 DEF WriteConfirm, Writes
<1>8. drafts' = [drafts EXCEPT ![d] = row]
  BY <1>1, <1>4, <1>5, <1>7, ConfirmedInPlace
<1>9. drafts'[d] = row
  BY <1>1, <1>6, <1>8, RowSet
<1>10. PICK creation \in Creation : creation = mined[t] /\ mined[t] # NotMined
  BY <1>1, <1>3, <1>4 DEF RequestSound, Typed
<1>11. /\ creation.creator = loaded.creator /\ creation.recipient = loaded.recipient
       /\ creation.hash = loaded.terms
       /\ creation.creator \in Users /\ creation.recipient \in Users /\ creation.hash \in Terms
  BY <1>3, <1>4, <1>10, CreationTyped DEF RequestSound, Matches
<1>12. PICK entry : entry = [creator |-> loaded.creator, recipient |-> loaded.recipient,
                             hash |-> loaded.terms, tx |-> t]
  OBVIOUS
<1>13. /\ entry \in IndexRow /\ entry # NotIndexed
       /\ entry.creator = creation.creator /\ entry.recipient = creation.recipient
       /\ entry.hash = creation.hash
  <2>1. entry \in IndexRow /\ entry.creator \in Users
    BY <1>11, <1>12 DEF IndexRow
  <2>2. NotIndexed.creator = NoUser
    BY DEF NotIndexed
  <2> QED BY <1>11, <1>12, <2>1, <2>2, DraftsAssumption
<1>14. /\ index' = IF r.newIndex THEN [index EXCEPT ![t] = entry] ELSE index
       /\ metadata' = IF r.newMetadata THEN [metadata EXCEPT ![t] = loaded.terms] ELSE metadata
       /\ r.newIndex => index[t] = NotIndexed
       /\ r.newMetadata => metadata[t] = NoTerms
  BY <1>2, <1>4, <1>12 DEF WriteConfirm, NoDuplicate
<1>15. /\ index' \in [Txs -> IndexRow \cup {NotIndexed}]
       /\ metadata' \in [Txs -> Terms \cup {NoTerms}]
  BY <1>1, <1>11, <1>13, <1>14 DEF Typed
<1>16. /\ \A x \in Txs \ {t} : index'[x] = index[x] /\ metadata'[x] = metadata[x]
       /\ index'[t] = IF r.newIndex THEN entry ELSE index[t]
       /\ metadata'[t] = IF r.newMetadata THEN loaded.terms ELSE metadata[t]
  BY <1>1, <1>14 DEF Typed
<1>17. TxSound(t)
  BY DEF DraftsInv
<1>18. (~ r.newIndex => index[t] # NotIndexed) /\ (~ r.newMetadata => metadata[t] # NoTerms)
  BY <1>3, <1>4 DEF RequestSound
<1>19. index'[t] # NotIndexed /\ metadata'[t] # NoTerms
  BY <1>11, <1>13, <1>16, <1>18, DraftsAssumption
<1>20. ASSUME NEW x \in Txs PROVE TxSound(x)' /\ Registered(x)
  <2>1. CASE x = t
    BY <1>7, <1>10, <1>11, <1>13, <1>14, <1>16, <1>17, <1>19, <2>1 DEF TxSound, Registered
  <2>2. CASE x # t
    BY <1>7, <1>16, <2>2 DEF DraftsInv, TxSound, Registered
  <2> QED BY <2>1, <2>2
<1>21. RowSound(d)'
  <2>1. /\ old.creator \in Users /\ old.recipient \in Users /\ old.terms \in Terms
        /\ d \notin raced => Whole(old)
    BY <1>4, <1>7 DEF DraftsInv, RowSound
  <2> QED BY <1>6, <1>7, <1>9, <1>19, <2>1 DEF RowSound, Whole
<1>22. request[w].draft = d /\ UNCHANGED <<mined, raced>> /\ request' = [request EXCEPT ![w] = Idle]
  BY <1>2, <1>4, <1>7
<1>23. \A x \in Txs : TxSound(x)' /\ Registered(x)
  BY <1>20
<1> QED
  BY ONLY DraftsInv, w \in Workers, d \in DraftIds, <1>3, <1>6, <1>8, <1>15, <1>21, <1>22, <1>23,
          WriteKeeps

-----------------------------------------------------------------------------
(* What no step of the backend or the chain undoes: what was mined, what   *)
(* was registered, and, unless two requests worked on it at once, a        *)
(* confirmed draft.                                                        *)
Lasting ==
  /\ \A t \in Txs : /\ mined[t] # NotMined => mined'[t] = mined[t]
                    /\ metadata[t] # NoTerms => metadata'[t] = metadata[t]
  /\ raced \subseteq raced'
  /\ \A d \in DraftIds :
       drafts[d].status = "CONFIRMED" /\ drafts'[d] # drafts[d] => d \in raced

(* What a step of worker w leaves of the others' requests.                 *)
OthersWait(w) == \A v \in Workers \ {w} : request'[v] = request[v]

LEMMA RequestKeeps ==
  ASSUME DraftsInv, NEW w \in Workers, DraftRequest(w)
  PROVE  DraftsInv'
<1>1. Typed
  BY DEF DraftsInv
<1>2. ASSUME NEW d \in DraftIds, NEW terms \in Terms, CreateDraft(w, d, terms)
      PROVE  DraftsInv'
  BY <1>2, CreateKeeps
<1>3. ASSUME NEW d \in DraftIds, NEW user \in Users, NEW terms \in Terms,
             ReadUpdate(w, d, user, terms)
      PROVE  DraftsInv'
  <2>1. PICK r : r = [kind |-> "update", draft |-> d, terms |-> terms, loaded |-> drafts[d]]
    OBVIOUS
  <2>2. r \in Requests
    BY <1>1, <2>1, DraftTyped DEF Requests, Updates
  <2>3. Reads(w, r) /\ UNCHANGED <<draftTables, mined>> /\ drafts[d].status = "DRAFT"
    BY <1>3, <2>1 DEF ReadUpdate, Mutable
  <2>4. RequestSound(r)
    BY <2>1, <2>3 DEF RequestSound
  <2> QED BY ONLY DraftsInv, w \in Workers, <2>2, <2>3, <2>4, ReadKeeps
<1>4. ASSUME NEW d \in DraftIds, NEW user \in Users, ReadDelete(w, d, user)
      PROVE  DraftsInv'
  <2>1. PICK r : r = [kind |-> "delete", draft |-> d]
    OBVIOUS
  <2>2. r \in Requests
    BY <2>1 DEF Requests, Deletions
  <2>3. Reads(w, r) /\ UNCHANGED <<draftTables, mined>> /\ drafts[d].status = "DRAFT"
    BY <1>4, <2>1 DEF ReadDelete, Mutable
  <2>4. RequestSound(r)
    BY <2>1, <2>3 DEF RequestSound
  <2> QED BY ONLY DraftsInv, w \in Workers, <2>2, <2>3, <2>4, ReadKeeps
<1>5. ASSUME NEW d \in DraftIds, NEW user \in Users, NEW t \in Txs, ReadConfirm(w, d, user, t)
      PROVE  DraftsInv'
  <2>1. PICK first \in BOOLEAN, fresh \in BOOLEAN :
          first = (index[t] = NotIndexed) /\ fresh = (metadata[t] = NoTerms)
    OBVIOUS
  <2>2. PICK r : r = [kind |-> "confirm", draft |-> d, tx |-> t, loaded |-> drafts[d],
                      newIndex |-> first, newMetadata |-> fresh]
    OBVIOUS
  <2>3. r \in Requests
    BY <1>1, <2>2, DraftTyped DEF Requests, Confirmations
  <2>4. /\ Reads(w, r) /\ UNCHANGED <<draftTables, mined>> /\ drafts[d].status = "DRAFT"
        /\ mined[t] # NotMined /\ Matches(drafts[d], mined[t])
    BY <1>5, <2>1, <2>2 DEF ReadConfirm, Mutable
  <2>5. RequestSound(r)
    BY <2>1, <2>2, <2>4 DEF RequestSound
  <2> QED BY ONLY DraftsInv, w \in Workers, <2>3, <2>4, <2>5, ReadKeeps
<1> QED
  BY <1>2, <1>3, <1>4, <1>5, WriteUpdateKeeps, WriteDeleteKeeps, WriteConfirmKeeps, AbortKeeps
     DEF DraftRequest

LEMMA WriteLasts ==
  ASSUME DraftsInv, NEW w \in Workers, request[w] # Idle,
         \A e \in DraftIds \ {request[w].draft} : drafts'[e] = drafts[e],
         UNCHANGED <<mined, raced>>,
         \A t \in Txs : metadata[t] # NoTerms => metadata'[t] = metadata[t]
  PROVE  Lasting
<1>1. RequestSound(request[w])
  BY DEF DraftsInv
<1> QED BY <1>1 DEF Lasting, RequestSound

LEMMA RequestLasts ==
  ASSUME DraftsInv, NEW w \in Workers, DraftRequest(w)
  PROVE  Lasting /\ OthersWait(w) /\ UNCHANGED mined
<1>1. Typed
  BY DEF DraftsInv
<1>2. OthersWait(w) /\ UNCHANGED mined
  BY <1>1 DEF Typed, DraftRequest, CreateDraft, ReadUpdate, ReadDelete, ReadConfirm, WriteUpdate,
              WriteDelete, WriteConfirm, Abort, Reads, Writes, OthersWait
<1>3. CASE /\ request[w] = Idle
           /\ UNCHANGED metadata /\ raced \subseteq raced'
           /\ \A d \in DraftIds : drafts[d].status = "CONFIRMED" => drafts'[d] = drafts[d]
  BY <1>2, <1>3 DEF Lasting
<1>4. CASE \E d \in DraftIds, terms \in Terms : CreateDraft(w, d, terms)
  <2>1. PICK d \in DraftIds, terms \in Terms : CreateDraft(w, d, terms)
    BY <1>4
  <2>2. /\ request[w] = Idle /\ UNCHANGED <<metadata, raced>> /\ drafts[d].status = "NONE"
        /\ \A e \in DraftIds \ {d} : drafts'[e] = drafts[e]
    BY <1>1, <2>1 DEF CreateDraft, Typed
  <2> QED BY <1>3, <2>2
<1>5. CASE \/ \E d \in DraftIds, user \in Users, terms \in Terms : ReadUpdate(w, d, user, terms)
           \/ \E d \in DraftIds, user \in Users : ReadDelete(w, d, user)
           \/ \E d \in DraftIds, user \in Users, t \in Txs : ReadConfirm(w, d, user, t)
  <2>1. request[w] = Idle /\ UNCHANGED <<drafts, metadata>> /\ raced \subseteq raced'
    BY <1>5 DEF ReadUpdate, ReadDelete, ReadConfirm, Reads, draftTables
  <2> QED BY <1>3, <2>1
<1>6. CASE Abort(w)
  BY <1>2, <1>6 DEF Abort, draftTables, Lasting
<1>7. CASE WriteUpdate(w) \/ WriteDelete(w)
  <2>1. request[w].kind \in {"update", "delete"}
    BY <1>7 DEF WriteUpdate, WriteDelete, Writes
  <2>2. request[w] # Idle /\ request[w].draft \in DraftIds
    BY <1>1, <2>1, RequestTyped
  <2>3. /\ \A e \in DraftIds \ {request[w].draft} : drafts'[e] = drafts[e]
        /\ UNCHANGED <<metadata, raced>>
    BY <1>1, <1>7, <2>2 DEF WriteUpdate, WriteDelete, Writes, Typed
  <2> QED BY <1>2, <2>2, <2>3, WriteLasts
<1>8. CASE WriteConfirm(w)
  <2>1. PICK r \in Confirmations : r = request[w]
    BY <1>1, <1>8, RequestTyped DEF WriteConfirm, Writes
  <2>2. request[w] # Idle /\ r.draft \in DraftIds /\ r.tx \in Txs
    BY <1>1, <1>8, <2>1, RequestTyped DEF Confirmations, WriteConfirm, Writes
  <2>3. drafts' = [drafts EXCEPT ![r.draft].status = "CONFIRMED", ![r.draft].tx = r.tx]
    BY <1>8, <2>1 DEF WriteConfirm
  <2>4. drafts' = [drafts EXCEPT ![r.draft] = ConfirmedRow(drafts[r.draft], r.tx)]
    BY <1>1, <2>2, <2>3, ConfirmedInPlace
  <2>5. \A e \in DraftIds \ {r.draft} : drafts'[e] = drafts[e]
    BY <1>1, <2>4 DEF Typed
  <2>6. /\ UNCHANGED raced
        /\ \A t \in Txs : metadata[t] # NoTerms => metadata'[t] = metadata[t]
    <3>1. /\ metadata' = IF r.newMetadata THEN [metadata EXCEPT ![r.tx] = r.loaded.terms]
                                          ELSE metadata
          /\ r.newMetadata => metadata[r.tx] = NoTerms
          /\ UNCHANGED raced
      BY <1>8, <2>1 DEF WriteConfirm, NoDuplicate, Writes
    <3> QED BY <1>1, <3>1 DEF Typed
  <2> QED BY <1>2, <2>1, <2>2, <2>5, <2>6, WriteLasts
<1> QED BY <1>2, <1>4, <1>5, <1>6, <1>7, <1>8 DEF DraftRequest

LEMMA MineLasts ==
  ASSUME DraftsInv, NEW t \in Txs, NEW c, Mine(t, c)
  PROVE  Lasting /\ UNCHANGED request /\ mined'[t] = c /\ \A x \in Txs \ {t} : mined'[x] = mined[x]
<1>1. Typed
  BY DEF DraftsInv
<1>2. /\ mined[t] = NotMined /\ UNCHANGED <<drafts, metadata, raced, request>>
      /\ mined'[t] = c /\ \A x \in Txs \ {t} : mined'[x] = mined[x]
  BY <1>1 DEF Mine, draftTables, Typed
<1> QED BY <1>2 DEF Lasting

LEMMA NothingLasts ==
  ASSUME DraftsInv, UNCHANGED draftVars
  PROVE  /\ DraftsInv' /\ Lasting /\ UNCHANGED <<request, mined>>
<1>1. UNCHANGED <<drafts, index, metadata, mined, request, raced>>
  BY DEF draftVars
<1>2. \A d \in DraftIds : RowSound(d)' <=> RowSound(d)
  BY <1>1 DEF RowSound, Exists
<1>3. \A t \in Txs : TxSound(t)' <=> TxSound(t)
  BY <1>1 DEF TxSound
<1>4. \A r : RequestSound(r)' <=> RequestSound(r)
  BY <1>1 DEF RequestSound
<1>5. (Typed' <=> Typed) /\ (Alone' <=> Alone)
  BY <1>1 DEF Typed, Alone
<1>6. \A w \in Workers : request'[w] # Idle => RequestSound(request[w])'
  BY <1>1, <1>4 DEF DraftsInv
<1> QED BY <1>1, <1>2, <1>3, <1>5, <1>6 DEF DraftsInv, Lasting

-----------------------------------------------------------------------------
(* The page                                                                *)

LEMMA PreparedKept ==
  ASSUME Lasting, NEW p, PreparedSound(p)
  PROVE  PreparedSound(p)'
BY DEF Lasting, PreparedSound

LEMMA SendingFields ==
  ASSUME NEW c \in Sending
  PROVE  /\ c.arguments \in Preparations /\ c.sender \in Users /\ c.tx \in Txs
         /\ c.at \in {"sent", "done", "failed"} \cup Workers
         /\ c.arguments.draft \in DraftIds /\ c.arguments.termsHash \in Terms
         /\ CreationOf(c) \in Creation
<1>1. c.arguments \in Preparations /\ c.sender \in Users
  BY DEF Sending
<1>2. /\ c.arguments.recipient \in Users /\ c.arguments.termsHash \in Terms
      /\ c.arguments.roster \in Rosters
  BY <1>1 DEF Preparations
<1>3. CreationOf(c) \in Creation
  BY <1>1, <1>2 DEF CreationOf, Creation, Rosters
<1> QED BY <1>1, <1>3 DEF Sending, Preparations

(* What was true of a creation stays so while its own request is not       *)
(* touched and its transaction is mined by nobody else.                    *)
LEMMA SendingKept ==
  ASSUME DraftsInv, Lasting, NEW c \in Sending, SendingSound(c),
         mined'[c.tx] \in {mined[c.tx], CreationOf(c)},
         c.at \in Workers => request'[c.at] = request[c.at]
  PROVE  SendingSound(c)'
<1>1. PreparedSound(c.arguments)'
  BY PreparedKept DEF SendingSound
<1>2. /\ c.tx \in Txs /\ c.arguments.draft \in DraftIds /\ c.arguments.termsHash \in Terms
  BY SendingFields
<1>3. mined'[c.tx] \in {NotMined, CreationOf(c)}
  BY DEF SendingSound
<1>4. c.at = "done" => metadata[c.tx] # NoTerms /\ metadata'[c.tx] = c.arguments.termsHash
  BY <1>2, DraftsAssumption DEF SendingSound, Lasting
<1>5. c.at = "done" /\ c.arguments.draft \notin raced' =>
        drafts'[c.arguments.draft] = drafts[c.arguments.draft]
  BY <1>2 DEF SendingSound, Lasting
<1>6. raced \subseteq raced'
  BY DEF Lasting
<1> QED BY <1>1, <1>3, <1>4, <1>5, <1>6 DEF SendingSound

(* A creation, its arguments and who waits for it.                         *)
LEMMA SendingKnown ==
  ASSUME AllInv, NEW i \in DOMAIN creating
  PROVE  creating[i] \in Sending /\ SendingSound(creating[i])
<1>1. creating \in Seq(Sending)
  BY DEF AllInv, PageInv
<1>2. DOMAIN creating = 1 .. Len(creating)
  BY <1>1, LenProperties
<1>3. creating[i] \in Sending
  BY <1>1, <1>2, ElementOfSeq
<1> QED BY <1>3 DEF AllInv, PageInv

(* What a step leaves of a creation that it does not touch.                *)
Untouched(c) ==
  /\ mined'[c.tx] \in {mined[c.tx], CreationOf(c)}
  /\ c.at \in Workers => request'[c.at] = request[c.at]

LEMMA UntouchedKept ==
  ASSUME AllInv, Lasting, NEW c \in Sending, SendingSound(c), Untouched(c)
  PROVE  SendingSound(c)'
BY SendingKept DEF AllInv, Untouched

(* What the page has goes on to be sound.                                  *)
LEMMA PreparedStays ==
  ASSUME AllInv, Lasting, prepared' \in {prepared, NotPrepared}
  PROVE  prepared' # NotPrepared => PreparedSound(prepared)'
<1>1. ASSUME prepared' # NotPrepared PROVE PreparedSound(prepared)'
  <2>1. PICK p : p = prepared /\ prepared' = p /\ PreparedSound(p)
    BY <1>1 DEF AllInv, PageInv
  <2>2. PreparedSound(p)'
    BY <2>1, PreparedKept
  <2> QED BY <2>1, <2>2
<1> QED BY <1>1

(* The page is as sound as each of its creations.                          *)
LEMMA PageKept ==
  ASSUME AllInv, DraftsInv', Lasting, prepared' # NotPrepared => PreparedSound(prepared)',
         creating' \in Seq(Sending), DOMAIN creating' = DOMAIN creating,
         \A i \in DOMAIN creating :
           \E c \in Sending : creating'[i] = c /\ c.tx = creating[i].tx /\ SendingSound(c)'
  PROVE  AllInv'
<1>1. ASSUME NEW i \in DOMAIN creating PROVE SendingSound(creating[i])'
  <2>1. PICK c \in Sending : creating'[i] = c /\ SendingSound(c)'
    OBVIOUS
  <2> QED BY <2>1
<1>2. \A i, j \in DOMAIN creating : creating'[i].tx = creating'[j].tx => i = j
  BY DEF AllInv, PageInv
<1> QED BY <1>1, <1>2 DEF AllInv, PageInv

LEMMA AllUntouched ==
  ASSUME AllInv, DraftsInv', Lasting, prepared' # NotPrepared => PreparedSound(prepared)',
         creating' = creating, \A i \in DOMAIN creating : Untouched(creating[i])
  PROVE  AllInv'
<1>1. ASSUME NEW i \in DOMAIN creating
      PROVE  \E c \in Sending : creating'[i] = c /\ c.tx = creating[i].tx /\ SendingSound(c)'
  <2>1. PICK c \in Sending : c = creating[i] /\ SendingSound(c)
    BY SendingKnown
  <2>2. SendingSound(c)'
    BY <2>1, UntouchedKept
  <2> QED BY <2>1, <2>2
<1>2. creating' \in Seq(Sending) /\ DOMAIN creating' = DOMAIN creating
  BY DEF AllInv, PageInv
<1> QED BY <1>1, <1>2, PageKept

(* A creation that has come further.                                       *)
Ats == {"sent", "done", "failed"} \cup Workers

LEMMA MovedIs ==
  ASSUME NEW c \in Sending, NEW at \in Ats, NEW d, d = [c EXCEPT !.at = at]
  PROVE  d \in Sending /\ d.arguments = c.arguments /\ d.sender = c.sender /\ d.tx = c.tx /\ d.at = at
         /\ CreationOf(d) = CreationOf(c)
<1>1. d \in Sending /\ d.arguments = c.arguments /\ d.sender = c.sender /\ d.tx = c.tx /\ d.at = at
  BY DEF Sending, Ats
<1> QED BY <1>1 DEF CreationOf

LEMMA OneTurns ==
  ASSUME AllInv, DraftsInv', Lasting, prepared' \in {prepared, NotPrepared},
         NEW i \in DOMAIN creating, NEW at \in Ats, Goes(i, at),
         NEW d, d = [creating[i] EXCEPT !.at = at], SendingSound(d)',
         \A j \in DOMAIN creating \ {i} : Untouched(creating[j])
  PROVE  AllInv'
<1>1. creating \in Seq(Sending) /\ DOMAIN creating = 1 .. Len(creating)
  BY LenProperties DEF AllInv, PageInv
<1>2. PICK c \in Sending : c = creating[i]
  BY SendingKnown
<1>3. d \in Sending /\ d.tx = c.tx
  BY <1>2, MovedIs
<1>4. creating' = [creating EXCEPT ![i] = d]
  BY <1>1 DEF Goes
<1>5. /\ creating' \in Seq(Sending) /\ DOMAIN creating' = DOMAIN creating
      /\ creating'[i] = d /\ \A j \in DOMAIN creating \ {i} : creating'[j] = creating[j]
  BY <1>1, <1>3, <1>4, ExceptSeq, LenProperties
<1>6. ASSUME NEW j \in DOMAIN creating
      PROVE  \E e \in Sending : creating'[j] = e /\ e.tx = creating[j].tx /\ SendingSound(e)'
  <2>1. CASE j = i
    BY <1>2, <1>3, <1>5, <2>1
  <2>2. CASE j # i
    <3>1. PICK e \in Sending : e = creating[j] /\ SendingSound(e)
      BY SendingKnown
    <3>2. SendingSound(e)'
      BY <2>2, <3>1, UntouchedKept
    <3> QED BY <1>5, <2>2, <3>1, <3>2
  <2> QED BY <2>1, <2>2
<1> QED BY <1>5, <1>6, PreparedStays, PageKept

-----------------------------------------------------------------------------
(* The steps of the page                                                   *)

(* A step of the page alone.                                               *)
LEMMA NothingTouched ==
  ASSUME AllInv, UNCHANGED draftVars
  PROVE  DraftsInv' /\ Lasting /\ \A i \in DOMAIN creating : Untouched(creating[i])
BY NothingLasts DEF AllInv, Untouched

LEMMA PrepareKeeps ==
  ASSUME AllInv, NEW d \in DraftIds, Prepare(d)
  PROVE  AllInv'
<1>1. UNCHANGED draftVars /\ creating' = creating /\ raced' = raced
  BY DEF Prepare, draftVars
<1>2. Typed /\ RowSound(d) /\ Exists(d)
  BY DEF AllInv, DraftsInv, Prepare, Mutable, Exists
<1>3. PICK row \in Row : row = drafts[d]
  BY <1>2, DraftTyped
<1>4. PICK p : p = [draft |-> d, canonicalTerms |-> row.terms, termsHash |-> row.terms,
                    recipient |-> row.recipient, roster |-> row.roster]
  OBVIOUS
<1>5. /\ row.recipient \in Users /\ row.terms \in Terms /\ row.roster \in Rosters
      /\ d \notin raced => row.recipient = row.terms.recipient /\ row.roster = row.terms.roster
  BY <1>2, <1>3, DraftTyped DEF RowSound, Whole
<1>6. p \in Preparations
  BY <1>4, <1>5 DEF Preparations
<1>7. PreparedSound(p)'
  BY <1>1, <1>4, <1>5, <1>6 DEF PreparedSound
<1>8. prepared' = p
  BY <1>3, <1>4 DEF Prepare, Prepared
<1>9. PreparedSound(prepared)'
  BY <1>7, <1>8
<1> QED BY <1>1, <1>9, NothingTouched, AllUntouched

LEMMA WithdrawKeeps ==
  ASSUME AllInv, Withdraw
  PROVE  AllInv'
<1>1. UNCHANGED draftVars /\ creating' = creating /\ prepared' = NotPrepared
  BY DEF Withdraw
<1> QED BY <1>1, NothingTouched, AllUntouched

LEMMA CreateOnchainKeeps ==
  ASSUME AllInv, CreateOnchain
  PROVE  AllInv'
<1>1. PICK t \in Txs \ Sent, sender \in Signers :
        /\ mined[t] = NotMined
        /\ creating' = Append(creating, [arguments |-> prepared, sender |-> sender, tx |-> t,
                                         at |-> "sent"])
  BY DEF CreateOnchain
<1>2. PICK at \in Ats : at = "sent"
  BY DEF Ats
<1>3. PICK e : e = [arguments |-> prepared, sender |-> sender, tx |-> t, at |-> at]
  OBVIOUS
<1>4. UNCHANGED draftVars /\ prepared' = prepared /\ PreparedSound(prepared)
  BY DEF CreateOnchain, canCreate, AllInv, PageInv
<1>5. prepared \in Preparations /\ sender \in Users
  BY <1>4, DraftPageAssumption DEF PreparedSound
<1>6. e \in Sending /\ e.arguments = prepared /\ e.tx = t /\ e.at = "sent"
  BY <1>2, <1>3, <1>5 DEF Sending, Ats
<1>7. SendingSound(e)
  <2>1. e.at \notin Workers /\ e.at # "done"
    BY <1>6, DraftPageAssumption
  <2> QED BY <1>1, <1>4, <1>6, <2>1 DEF SendingSound
<1>8. DraftsInv' /\ Lasting /\ UNCHANGED <<request, mined>>
  BY <1>4, NothingLasts DEF AllInv
<1>9. SendingSound(e)'
  BY <1>6, <1>7, <1>8, SendingKept DEF AllInv
<1>10. creating \in Seq(Sending) /\ DOMAIN creating = 1 .. Len(creating) /\ Len(creating) \in Nat
  BY LenProperties DEF AllInv, PageInv
<1>11. creating' = Append(creating, e)
  BY <1>1, <1>2, <1>3
<1>12. /\ creating' \in Seq(Sending) /\ DOMAIN creating' = 1 .. Len(creating) + 1
       /\ creating'[Len(creating) + 1] = e
       /\ \A i \in 1 .. Len(creating) : creating'[i] = creating[i]
  BY <1>6, <1>10, <1>11, AppendProperties, LenProperties
<1>13. ASSUME NEW i \in DOMAIN creating' PROVE SendingSound(creating[i])'
  <2>1. CASE i = Len(creating) + 1
    BY <1>9, <1>12, <2>1
  <2>2. CASE i # Len(creating) + 1
    <3>1. i \in DOMAIN creating /\ creating'[i] = creating[i]
      BY <1>10, <1>12, <1>13, <2>2
    <3>2. PICK c \in Sending : c = creating[i] /\ SendingSound(c)
      BY <3>1, SendingKnown
    <3>3. SendingSound(c)'
      BY <1>8, <3>2, SendingKept DEF AllInv
    <3> QED BY <3>1, <3>2, <3>3
  <2> QED BY <2>1, <2>2
<1>14. ASSUME NEW i \in DOMAIN creating', NEW j \in DOMAIN creating',
              creating'[i].tx = creating'[j].tx
       PROVE  i = j
  <2>1. \A k \in DOMAIN creating : creating[k].tx # t
    BY <1>1 DEF Sent
  <2>2. \A k \in DOMAIN creating' : k = Len(creating) + 1 \/ k \in DOMAIN creating
    BY <1>10, <1>12
  <2> QED BY <1>6, <1>10, <1>12, <1>14, <2>1, <2>2 DEF AllInv, PageInv
<1>15. PreparedSound(prepared)'
  BY <1>4, <1>8, PreparedStays DEF CreateOnchain, canCreate
<1> QED BY <1>8, <1>12, <1>13, <1>14, <1>15 DEF AllInv, PageInv

LEMMA MineCreationKeeps ==
  ASSUME AllInv, NEW i \in DOMAIN creating, MineCreation(i)
  PROVE  AllInv'
<1>1. PICK c \in Sending : c = creating[i]
  BY SendingKnown
<1>2. Mine(c.tx, CreationOf(c)) /\ prepared' = prepared /\ creating' = creating
  BY <1>1 DEF MineCreation, CreationOf, pageVars
<1>3. c.tx \in Txs /\ CreationOf(c) \in Creation
  BY SendingFields
<1>4. DraftsInv' /\ Lasting /\ UNCHANGED request
  BY <1>2, <1>3, MineKeeps, MineLasts DEF AllInv
<1>5. mined'[c.tx] = CreationOf(c) /\ \A x \in Txs \ {c.tx} : mined'[x] = mined[x]
  BY <1>2, <1>3, MineLasts DEF AllInv
<1>6. ASSUME NEW j \in DOMAIN creating PROVE Untouched(creating[j])
  <2>1. creating[j].tx \in Txs
    BY SendingKnown, SendingFields
  <2>2. j # i => creating[j].tx # c.tx
    BY <1>1 DEF AllInv, PageInv
  <2> QED BY <1>1, <1>4, <1>5, <2>1, <2>2 DEF Untouched
<1> QED BY <1>2, <1>4, <1>6, PreparedStays, AllUntouched

(* A creation whose draft is confirmed with its transaction is registered  *)
(* as it was sent.                                                         *)
LEMMA RegisteredAsSent ==
  ASSUME DraftsInv, NEW c \in Sending, mined[c.tx] = CreationOf(c),
         drafts[c.arguments.draft].tx = c.tx
  PROVE  metadata[c.tx] = c.arguments.termsHash
<1>1. c.tx \in Txs /\ c.arguments.draft \in DraftIds
  BY SendingFields
<1>2. metadata[c.tx] # NoTerms
  BY <1>1 DEF DraftsInv, RowSound
<1> QED BY <1>1, <1>2 DEF DraftsInv, TxSound, CreationOf

LEMMA AlreadyConfirmedKeeps ==
  ASSUME AllInv, NEW i \in DOMAIN creating, AlreadyConfirmed(i)
  PROVE  AllInv'
<1>1. PICK c \in Sending : c = creating[i] /\ SendingSound(c)
  BY SendingKnown
<1>2. /\ UNCHANGED draftVars /\ Goes(i, "done") /\ prepared' = NotPrepared
      /\ mined[c.tx] # NotMined
      /\ drafts[c.arguments.draft].status = "CONFIRMED" /\ drafts[c.arguments.draft].tx = c.tx
  BY <1>1 DEF AlreadyConfirmed, ShowsAgreement
<1>3. DraftsInv' /\ Lasting /\ \A j \in DOMAIN creating : Untouched(creating[j])
  BY <1>2, NothingTouched
<1>4. PICK at \in Ats : at = "done"
  BY DEF Ats
<1>5. PICK d : d = [c EXCEPT !.at = at]
  OBVIOUS
<1>6. /\ d \in Sending /\ d.arguments = c.arguments /\ d.tx = c.tx /\ d.at = at
      /\ CreationOf(d) = CreationOf(c)
  BY ONLY c \in Sending, at \in Ats, <1>5, MovedIs
<1>7. metadata[c.tx] = c.arguments.termsHash
  BY <1>1, <1>2, RegisteredAsSent DEF AllInv, SendingSound
<1>8. d.at \notin Workers
  BY <1>4, <1>6, DraftPageAssumption
<1>9. SendingSound(d)
  BY <1>1, <1>2, <1>6, <1>7, <1>8 DEF SendingSound
<1>10. UNCHANGED <<request, mined>>
  BY <1>2, NothingLasts DEF AllInv
<1>11. SendingSound(d)'
  BY <1>3, <1>6, <1>9, <1>10, SendingKept DEF AllInv
<1> QED BY <1>1, <1>2, <1>3, <1>4, <1>5, <1>11, OneTurns

LEMMA GiveUpKeeps ==
  ASSUME AllInv, NEW i \in DOMAIN creating, GiveUp(i)
  PROVE  AllInv'
<1>1. PICK c \in Sending : c = creating[i] /\ SendingSound(c)
  BY SendingKnown
<1>2. UNCHANGED draftVars /\ Goes(i, "failed") /\ prepared' = prepared
  BY DEF GiveUp
<1>3. /\ DraftsInv' /\ Lasting /\ \A j \in DOMAIN creating : Untouched(creating[j])
      /\ UNCHANGED <<request, mined>>
  BY <1>2, NothingTouched, NothingLasts DEF AllInv
<1>4. PICK at \in Ats : at = "failed"
  BY DEF Ats
<1>5. PICK d : d = [c EXCEPT !.at = at]
  OBVIOUS
<1>6. /\ d \in Sending /\ d.arguments = c.arguments /\ d.tx = c.tx /\ d.at = at
      /\ CreationOf(d) = CreationOf(c)
  BY ONLY c \in Sending, at \in Ats, <1>5, MovedIs
<1>7. d.at \notin Workers /\ d.at # "done"
  BY <1>4, <1>6, DraftPageAssumption
<1>8. SendingSound(d)
  BY <1>1, <1>6, <1>7 DEF SendingSound
<1>9. SendingSound(d)'
  BY <1>3, <1>6, <1>8, SendingKept DEF AllInv
<1> QED BY <1>1, <1>2, <1>3, <1>4, <1>5, <1>9, OneTurns

(* A worker that is asked was idle, so no creation waits for it.           *)
LEMMA IdleForAll ==
  ASSUME AllInv, NEW w \in Workers, request[w] = Idle, NEW j \in DOMAIN creating
  PROVE  creating[j].at # w
BY SendingKnown DEF SendingSound

LEMMA AskToConfirmKeeps ==
  ASSUME AllInv, NEW i \in DOMAIN creating, NEW w \in Workers, AskToConfirm(i, w)
  PROVE  AllInv'
<1>1. PICK c \in Sending : c = creating[i] /\ SendingSound(c)
  BY SendingKnown
<1>2. c.tx \in Txs /\ c.arguments.draft \in DraftIds /\ Me \in Users
  BY SendingFields, DraftPageAssumption
<1>3. /\ ReadConfirm(w, c.arguments.draft, Me, c.tx) /\ Goes(i, w) /\ prepared' = prepared
  BY <1>1 DEF AskToConfirm, Goes
<1>4. DraftRequest(w)
  BY <1>2, <1>3 DEF DraftRequest
<1>5. DraftsInv' /\ Lasting /\ OthersWait(w) /\ UNCHANGED mined
  BY <1>4, RequestKeeps, RequestLasts DEF AllInv
<1>6. request[w] = Idle
  BY <1>3 DEF ReadConfirm, Reads
<1>7. ASSUME NEW j \in DOMAIN creating PROVE Untouched(creating[j])
  BY <1>5, <1>6, IdleForAll DEF Untouched, OthersWait
<1>8. PICK first \in BOOLEAN, fresh \in BOOLEAN :
        first = (index[c.tx] = NotIndexed) /\ fresh = (metadata[c.tx] = NoTerms)
  OBVIOUS
<1>9. PICK r : r = [kind |-> "confirm", draft |-> c.arguments.draft, tx |-> c.tx,
                    loaded |-> drafts[c.arguments.draft], newIndex |-> first,
                    newMetadata |-> fresh]
  OBVIOUS
<1>10. request' = [request EXCEPT ![w] = r]
  BY <1>3, <1>8, <1>9 DEF ReadConfirm, Reads
<1>11. request'[w] = r
  BY <1>10 DEF AllInv, DraftsInv, Typed
<1>12. /\ r # Idle /\ r.kind = "confirm" /\ r.draft = c.arguments.draft /\ r.tx = c.tx
  <2>1. Idle.kind = "idle"
    BY DEF Idle
  <2> QED BY <1>9, <2>1
<1>13. PICK at \in Ats : at = w
  BY DEF Ats
<1>14. PICK d : d = [c EXCEPT !.at = at]
  OBVIOUS
<1>15. /\ d \in Sending /\ d.arguments = c.arguments /\ d.tx = c.tx /\ d.at = at
       /\ CreationOf(d) = CreationOf(c)
  BY ONLY c \in Sending, at \in Ats, <1>14, MovedIs
<1>16. PreparedSound(c.arguments)' /\ mined'[c.tx] \in {NotMined, CreationOf(c)}
  BY <1>1, <1>5, PreparedKept DEF SendingSound
<1>17. d.at # "done"
  BY <1>13, <1>15, DraftPageAssumption
<1>18. SendingSound(d)'
  BY <1>11, <1>12, <1>13, <1>15, <1>16, <1>17 DEF SendingSound
<1> QED BY <1>1, <1>3, <1>5, <1>7, <1>13, <1>14, <1>18, OneTurns

(* Two creations do not wait for the same worker.                          *)
LEMMA OneWaits ==
  ASSUME AllInv, NEW i \in DOMAIN creating, NEW j \in DOMAIN creating,
         creating[i].at \in Workers, creating[j].at = creating[i].at
  PROVE  i = j
<1>1. creating[i].tx = creating[j].tx
  BY SendingKnown DEF SendingSound
<1> QED BY <1>1 DEF AllInv, PageInv

LEMMA ConfirmFailsKeeps ==
  ASSUME AllInv, NEW i \in DOMAIN creating, NEW w \in Workers, ConfirmFails(i, w)
  PROVE  AllInv'
<1>1. PICK c \in Sending : c = creating[i] /\ SendingSound(c)
  BY SendingKnown
<1>2. Abort(w) /\ Goes(i, "failed") /\ prepared' = prepared /\ creating[i].at = w
  BY DEF ConfirmFails
<1>3. DraftRequest(w)
  BY <1>2 DEF DraftRequest
<1>4. DraftsInv' /\ Lasting /\ OthersWait(w) /\ UNCHANGED mined
  BY <1>3, RequestKeeps, RequestLasts DEF AllInv
<1>5. ASSUME NEW j \in DOMAIN creating \ {i} PROVE Untouched(creating[j])
  BY <1>2, <1>4, OneWaits DEF Untouched, OthersWait
<1>6. PICK at \in Ats : at = "failed"
  BY DEF Ats
<1>7. PICK d : d = [c EXCEPT !.at = at]
  OBVIOUS
<1>8. /\ d \in Sending /\ d.arguments = c.arguments /\ d.tx = c.tx /\ d.at = at
      /\ CreationOf(d) = CreationOf(c)
  BY ONLY c \in Sending, at \in Ats, <1>7, MovedIs
<1>9. PreparedSound(c.arguments)' /\ mined'[c.tx] \in {NotMined, CreationOf(c)}
  BY <1>1, <1>4, PreparedKept DEF SendingSound
<1>10. d.at \notin Workers /\ d.at # "done"
  BY <1>6, <1>8, DraftPageAssumption
<1>11. SendingSound(d)'
  BY <1>8, <1>9, <1>10 DEF SendingSound
<1> QED BY <1>1, <1>2, <1>4, <1>5, <1>6, <1>7, <1>11, OneTurns

LEMMA ConfirmedKeeps ==
  ASSUME AllInv, NEW i \in DOMAIN creating, NEW w \in Workers, Confirmed(i, w)
  PROVE  AllInv'
<1>1. PICK c \in Sending : c = creating[i] /\ SendingSound(c)
  BY SendingKnown
<1>2. /\ WriteConfirm(w) /\ Goes(i, "done") /\ prepared' = NotPrepared
      /\ creating[i].at = w
  BY DEF Confirmed, ShowsAgreement
<1>3. DraftRequest(w)
  BY <1>2 DEF DraftRequest
<1>4. DraftsInv' /\ Lasting /\ OthersWait(w) /\ UNCHANGED mined
  BY <1>3, RequestKeeps, RequestLasts DEF AllInv
<1>5. ASSUME NEW j \in DOMAIN creating \ {i} PROVE Untouched(creating[j])
  BY <1>2, <1>4, OneWaits DEF Untouched, OthersWait
<1>6. PICK at \in Ats : at = "done"
  BY DEF Ats
<1>7. PICK d : d = [c EXCEPT !.at = at]
  OBVIOUS
<1>8. /\ d \in Sending /\ d.arguments = c.arguments /\ d.tx = c.tx /\ d.at = at
      /\ CreationOf(d) = CreationOf(c)
  BY ONLY c \in Sending, at \in Ats, <1>7, MovedIs
<1>9. PreparedSound(c.arguments)'
  BY <1>1, <1>4, PreparedKept DEF SendingSound
<1>10. Typed /\ c.tx \in Txs /\ c.arguments.draft \in DraftIds
  BY SendingFields DEF AllInv, DraftsInv
<1>11. PICK r : /\ r = request[w] /\ r # Idle /\ r.kind = "confirm"
                /\ r.draft = c.arguments.draft /\ r.tx = c.tx
  BY <1>1, <1>2 DEF SendingSound
<1>12. mined[c.tx] = CreationOf(c) /\ mined'[c.tx] = CreationOf(c)
  BY <1>1, <1>4, <1>11 DEF AllInv, DraftsInv, RequestSound, SendingSound
<1>13. /\ drafts'[c.arguments.draft].status = "CONFIRMED"
       /\ drafts'[c.arguments.draft].tx = c.tx
  <2>1. PICK t \in DraftIds, old \in Row, x \in Txs :
          t = c.arguments.draft /\ old = drafts[t] /\ x = c.tx
    BY <1>10, DraftTyped
  <2>2. drafts' = [drafts EXCEPT ![t].status = "CONFIRMED", ![t].tx = x]
    BY <1>2, <1>11, <2>1 DEF WriteConfirm
  <2>3. PICK row : row = ConfirmedRow(old, x)
    OBVIOUS
  <2>4. row \in Row /\ row.status = "CONFIRMED" /\ row.tx = x
    BY ONLY old \in Row, x \in Txs, <2>3, ConfirmedIs
  <2>5. drafts' = [drafts EXCEPT ![t] = row]
    BY <1>10, <2>1, <2>2, <2>3, ConfirmedInPlace
  <2> QED BY <1>10, <2>1, <2>4, <2>5, RowSet
<1>14. metadata'[c.tx] = c.arguments.termsHash
  <2>1. metadata'[c.tx] # NoTerms
    BY <1>4, <1>10, <1>13 DEF DraftsInv, RowSound
  <2> QED BY <1>4, <1>10, <1>12, <2>1 DEF DraftsInv, TxSound, CreationOf
<1>15. d.at \notin Workers
  BY <1>6, <1>8, DraftPageAssumption
<1>16. SendingSound(d)'
  BY <1>8, <1>9, <1>12, <1>13, <1>14, <1>15 DEF SendingSound
<1> QED BY <1>1, <1>2, <1>4, <1>5, <1>6, <1>7, <1>16, OneTurns

LEMMA ReloadKeeps ==
  ASSUME AllInv, Reload
  PROVE  AllInv'
<1>1. UNCHANGED draftVars /\ prepared' = NotPrepared
  BY DEF Reload
<1>2. DraftsInv' /\ Lasting /\ UNCHANGED <<request, mined>>
  BY <1>1, NothingLasts DEF AllInv
<1>3. creating \in Seq(Sending) /\ DOMAIN creating = 1 .. Len(creating) /\ Len(creating) \in Nat
  BY LenProperties DEF AllInv, PageInv
<1>4. PICK at \in Ats : at = "failed"
  BY DEF Ats
<1>5. creating' = [i \in 1 .. Len(creating) |->
                     IF creating[i].at = "done" THEN creating[i]
                                                ELSE [creating[i] EXCEPT !.at = at]]
  BY <1>3, <1>4 DEF Reload
<1>6. ASSUME NEW i \in DOMAIN creating
      PROVE  \E c \in Sending : creating'[i] = c /\ c.tx = creating[i].tx /\ SendingSound(c)'
  <2>1. PICK c \in Sending : c = creating[i] /\ SendingSound(c)
    BY SendingKnown
  <2>2. CASE c.at = "done"
    <3>1. c.at \notin Workers
      BY <2>2, DraftPageAssumption
    <3>2. SendingSound(c)'
      BY <1>2, <2>1, <3>1, SendingKept DEF AllInv
    <3>3. creating'[i] = c
      BY <1>3, <1>5, <2>1, <2>2
    <3> QED BY <2>1, <3>2, <3>3
  <2>3. CASE c.at # "done"
    <3>1. PICK d : d = [c EXCEPT !.at = at]
      OBVIOUS
    <3>2. /\ d \in Sending /\ d.arguments = c.arguments /\ d.tx = c.tx /\ d.at = at
          /\ CreationOf(d) = CreationOf(c)
      BY ONLY c \in Sending, at \in Ats, <3>1, MovedIs
    <3>3. d.at \notin Workers /\ d.at # "done"
      BY <1>4, <3>2, DraftPageAssumption
    <3>4. SendingSound(d)
      BY <2>1, <3>2, <3>3 DEF SendingSound
    <3>5. SendingSound(d)'
      BY <1>2, <3>2, <3>3, <3>4, SendingKept DEF AllInv
    <3>6. creating'[i] = d
      BY <1>3, <1>5, <2>1, <2>3, <3>1
    <3> QED BY <2>1, <3>2, <3>5, <3>6
  <2> QED BY <2>2, <2>3
<1>7. creating' \in Seq(Sending) /\ DOMAIN creating' = DOMAIN creating
  <2>1. creating' \in [1 .. Len(creating) -> Sending]
    <3>1. \A i \in 1 .. Len(creating) : creating'[i] \in Sending
      BY <1>3, <1>6
    <3> QED BY <1>5, <3>1
  <2> QED BY <1>3, <2>1, SeqDef
<1> QED BY <1>1, <1>2, <1>6, <1>7, PageKept

LEMMA ElsewhereKeeps ==
  ASSUME AllInv, Elsewhere
  PROVE  AllInv'
<1>1. prepared' = prepared /\ creating' = creating
  BY DEF Elsewhere, pageVars
<1>2. CASE \E w \in Workers \ {creating[i].at : i \in DOMAIN creating} : DraftRequest(w)
  <2>1. PICK w \in Workers \ {creating[i].at : i \in DOMAIN creating} : DraftRequest(w)
    BY <1>2
  <2>2. DraftsInv' /\ Lasting /\ OthersWait(w) /\ UNCHANGED mined
    BY <2>1, RequestKeeps, RequestLasts DEF AllInv
  <2>3. ASSUME NEW j \in DOMAIN creating PROVE Untouched(creating[j])
    BY <2>1, <2>2 DEF Untouched, OthersWait
  <2> QED BY <1>1, <2>2, <2>3, PreparedStays, AllUntouched
<1>3. CASE \E t \in Txs \ Sent, creation \in Creations : Mine(t, creation)
  <2>1. PICK t \in Txs \ Sent, creation \in Creations : Mine(t, creation)
    BY <1>3
  <2>2. creation \in Creation
    BY DraftsAssumption
  <2>3. DraftsInv' /\ Lasting /\ UNCHANGED request
    BY <2>1, <2>2, MineKeeps, MineLasts DEF AllInv
  <2>4. \A x \in Txs \ {t} : mined'[x] = mined[x]
    BY <2>1, MineLasts DEF AllInv
  <2>5. ASSUME NEW j \in DOMAIN creating PROVE Untouched(creating[j])
    <3>1. creating[j].tx \in Txs
      BY SendingKnown, SendingFields
    <3>2. creating[j].tx # t
      BY <2>1 DEF Sent
    <3> QED BY <2>3, <2>4, <3>1, <3>2 DEF Untouched
  <2> QED BY <1>1, <2>3, <2>5, PreparedStays, AllUntouched
<1> QED BY <1>2, <1>3 DEF Elsewhere

-----------------------------------------------------------------------------
(* The invariant holds                                                     *)

LEMMA DraftPageStarts == DraftPageInit => AllInv
<1> SUFFICES ASSUME DraftPageInit PROVE AllInv
  OBVIOUS
<1>1. /\ drafts = [d \in DraftIds |-> NoRow] /\ index = [t \in Txs |-> NotIndexed]
      /\ metadata = [t \in Txs |-> NoTerms] /\ mined = [t \in Txs |-> NotMined]
      /\ request = [w \in Workers |-> Idle] /\ raced = {}
      /\ prepared = NotPrepared /\ creating = << >>
  BY DEF DraftPageInit, DraftsInit
<1>2. PICK row : row = NoRow
  OBVIOUS
<1>3. row \in Row /\ row.status = "NONE" /\ row.tx = NoTx
  <2>1. PICK nobody : nobody \in Rosters /\ nobody = << >>
    BY EmptySeq DEF Rosters
  <2>2. PICK status : status = "NONE"
    OBVIOUS
  <2>3. row = [creator |-> NoUser, recipient |-> NoUser, terms |-> NoTerms, roster |-> nobody,
               tx |-> NoTx, status |-> status]
    BY <1>2, <2>1, <2>2 DEF NoRow
  <2>4. row \in Row
    BY ONLY <2>1, <2>2, <2>3 DEF Row
  <2> QED BY <2>2, <2>3, <2>4
<1>4. Typed
  BY <1>1, <1>2, <1>3 DEF Typed
<1>5. ASSUME NEW d \in DraftIds PROVE RowSound(d)
  BY <1>1, <1>2, <1>3, DraftsAssumption DEF RowSound, Exists
<1>6. ASSUME NEW t \in Txs PROVE TxSound(t)
  BY <1>1 DEF TxSound
<1>7. DraftsInv
  BY <1>1, <1>4, <1>5, <1>6 DEF DraftsInv, Alone
<1>8. creating \in Seq(Sending) /\ DOMAIN creating = {}
  BY <1>1, EmptySeq
<1> QED BY <1>1, <1>7, <1>8 DEF AllInv, PageInv

LEMMA DraftPageStep ==
  ASSUME AllInv, [DraftPageNext]_<<draftVars, pageVars>>
  PROVE  AllInv'
<1>1. CASE UNCHANGED <<draftVars, pageVars>>
  <2>1. UNCHANGED draftVars /\ prepared' = prepared /\ creating' = creating
    BY <1>1 DEF pageVars
  <2>2. Lasting
    BY <2>1, NothingTouched
  <2> QED BY <2>1, <2>2, NothingTouched, PreparedStays, AllUntouched
<1>2. CASE DraftPageNext
  BY <1>2, PrepareKeeps, WithdrawKeeps, CreateOnchainKeeps, ReloadKeeps, MineCreationKeeps,
     AlreadyConfirmedKeeps, GiveUpKeeps, AskToConfirmKeeps, ConfirmedKeeps, ConfirmFailsKeeps,
     ElsewhereKeeps DEF DraftPageNext
<1> QED BY <1>1, <1>2

LEMMA AlwaysAllInv == DraftPageSpec => []AllInv
BY DraftPageStarts, DraftPageStep, PTL DEF DraftPageSpec

(* Nor does any step of the page, or elsewhere, undo what lasts.           *)
LEMMA DraftPageLasts ==
  ASSUME AllInv, [DraftPageNext]_<<draftVars, pageVars>>
  PROVE  Lasting
<1>1. CASE UNCHANGED draftVars
  BY <1>1, NothingLasts DEF AllInv
<1>2. ASSUME NEW w \in Workers, DraftRequest(w) PROVE Lasting
  BY <1>2, RequestLasts DEF AllInv
<1>3. ASSUME NEW t \in Txs, NEW c, Mine(t, c) PROVE Lasting
  BY <1>3, MineLasts DEF AllInv
<1>4. CASE Elsewhere
  BY <1>2, <1>3, <1>4 DEF Elsewhere
<1>5. ASSUME NEW i \in DOMAIN creating, MineCreation(i) PROVE Lasting
  <2>1. creating[i].tx \in Txs
    BY SendingKnown, SendingFields
  <2> QED BY <1>3, <1>5, <2>1 DEF MineCreation
<1>6. ASSUME NEW i \in DOMAIN creating, NEW w \in Workers,
             AskToConfirm(i, w) \/ Confirmed(i, w) \/ ConfirmFails(i, w)
      PROVE  Lasting
  <2>1. creating[i].tx \in Txs /\ creating[i].arguments.draft \in DraftIds /\ Me \in Users
    BY SendingKnown, SendingFields, DraftPageAssumption
  <2>2. DraftRequest(w)
    BY <1>6, <2>1 DEF AskToConfirm, Confirmed, ConfirmFails, DraftRequest
  <2> QED BY <1>2, <2>2
<1>7. ASSUME \/ \E d \in DraftIds : Prepare(d)
             \/ Withdraw \/ CreateOnchain \/ Reload
             \/ \E i \in DOMAIN creating : AlreadyConfirmed(i) \/ GiveUp(i)
      PROVE  Lasting
  <2>1. UNCHANGED draftVars
    BY <1>7 DEF Prepare, Withdraw, CreateOnchain, Reload, AlreadyConfirmed, GiveUp
  <2> QED BY <1>1, <2>1
<1>8. CASE DraftPageNext
  BY <1>4, <1>5, <1>6, <1>7, <1>8 DEF DraftPageNext
<1> QED BY <1>1, <1>8

-----------------------------------------------------------------------------
(* Theorems                                                                *)

(* What a confirmation registers is the agreement on chain, whatever is    *)
(* edited, deleted or confirmed while it asks the chain: confirm_onchain   *)
(* writes what it has compared, not what the draft has become.             *)
THEOREM RegistersTheChain == DraftPageSpec => []IndexIsTheChain
<1>1. AllInv => IndexIsTheChain
  BY DEF AllInv, DraftsInv, TxSound, IndexIsTheChain
<1> QED BY <1>1, AlwaysAllInv, PTL

(* What the page has signed is what was agreed, of a draft that no two     *)
(* requests worked on at once: the recipient and the tenants in the call   *)
(* are those of the terms whose hash is in it.                             *)
THEOREM SignsWhatWasAgreed == DraftPageSpec => []SignedIsAgreed
<1>1. AllInv => SignedIsAgreed
  BY SendingKnown DEF SignedIsAgreed, SendingSound, PreparedSound
<1> QED BY <1>1, AlwaysAllInv, PTL

(* What was prepared is what will be compared: the backend accepts a       *)
(* creation of the draft's creator, however late it is mined, as long as   *)
(* the draft would be prepared the same way.                               *)
THEOREM ConfirmationIsPossible == DraftPageSpec => []PreparedCanBeConfirmed
<1>1. AllInv => PreparedCanBeConfirmed
  <2> SUFFICES ASSUME AllInv, NEW i \in DOMAIN creating,
                      mined[creating[i].tx] # NotMined, creating[i].sender = Me,
                      Mutable(creating[i].arguments.draft, Me),
                      Prepared(creating[i].arguments.draft) = creating[i].arguments
               PROVE  Matches(drafts[creating[i].arguments.draft], mined[creating[i].tx])
    BY DEF PreparedCanBeConfirmed
  <2>1. PICK c : c = creating[i] /\ SendingSound(c)
    BY SendingKnown
  <2>2. mined[c.tx] = CreationOf(c)
    BY <2>1 DEF SendingSound
  <2> QED BY <2>1, <2>2 DEF Matches, CreationOf, Prepared, Mutable
<1> QED BY <1>1, AlwaysAllInv, PTL

(* A creation that the page reports as done is the registered one: its     *)
(* draft is confirmed with its transaction, with the terms that were sent. *)
THEOREM DoneCreationsAreRegistered == DraftPageSpec => []DoneIsRegistered
<1>1. AllInv => DoneIsRegistered
  BY SendingKnown DEF DoneIsRegistered, SendingSound
<1> QED BY <1>1, AlwaysAllInv, PTL

(* A confirmed draft stays as it is (require_mutable_draft), unless two    *)
(* requests worked on it at once.                                          *)
THEOREM ConfirmedDraftsStand == DraftPageSpec => ConfirmedIsImmutable
<1>1. ASSUME AllInv, [DraftPageNext]_<<draftVars, pageVars>>
      PROVE  [\A d \in DraftIds :
                drafts[d].status = "CONFIRMED" /\ drafts'[d] # drafts[d] => d \in raced]_draftVars
  BY <1>1, DraftPageLasts DEF Lasting
<1> QED BY <1>1, AlwaysAllInv, PTL DEF DraftPageSpec, ConfirmedIsImmutable
=============================================================================
