-------------------------- MODULE InvitationProofs --------------------------
(***************************************************************************)
(* Proofs about invitations: whatever requests, of whatever number of      *)
(* workers, read and write in whatever order, and at whatever time, the    *)
(* rows that one creation goes back to are worth one join, and two usable  *)
(* tokens of one participant do not coexist but for the two races that     *)
(* UsableTokensDoNotCoexist names.                                         *)
(***************************************************************************)
EXTENDS InvitationPages, SequenceTheorems, FiniteSetTheorems, TLAPS

Row == [slot : Slots, expiresAt : Nat, used : BOOLEAN, revoked : BOOLEAN,
        supersededBy : Nat, line : Nat]

(* What a worker remembers, while the table has n rows.                    *)
Requests(n) ==
  {Idle} \cup [kind : {"create"}, slot : Slots]
         \cup [kind : {"claim", "rotate", "revoke"}, id : 1 .. n]

Typed ==
  /\ rows \in Seq(Row)
  /\ request \in [Workers -> Requests(Len(rows))]
  /\ now \in Nat
  /\ claimed \in Seq(Nat) /\ Len(claimed) = Len(rows)
  /\ raced \subseteq Slots

(* A row whose token is usable, expiry aside, or was used: a row that is   *)
(* revoked unused stays so.                                                *)
Counts(row) == ~ row.revoked \/ row.used

(* One row of a line counts, and it was claimed once at most.              *)
LinesInv ==
  \A i \in 1 .. Len(rows) :
    /\ rows[i].line <= Len(rows)
    /\ claimed[i] = IF rows[i].used THEN 1 ELSE 0
    /\ \A j \in 1 .. Len(rows) :
         rows[i].line = rows[j].line /\ Counts(rows[i]) /\ Counts(rows[j]) => i = j

(* Outside the races, one token of a slot is usable, and none while a      *)
(* creation for the slot is under way, of which there is one at most.      *)
SlotsInv ==
  /\ \A i, j \in 1 .. Len(rows) :
       /\ Active(rows[i]) /\ Active(rows[j])
       /\ rows[i].slot = rows[j].slot /\ rows[i].slot \notin raced
       => i = j
  /\ \A w \in Workers : request[w].kind = "create" /\ request[w].slot \notin raced =>
       /\ \A i \in 1 .. Len(rows) : rows[i].slot = request[w].slot => ~ Active(rows[i])
       /\ \A v \in Workers : request[v] = request[w] => v = w

InvitationInv == Typed /\ LinesInv /\ SlotsInv

-----------------------------------------------------------------------------
(* What a step may do to the table: nothing, replace a row, or append one. *)

LEMMA RowTyped ==
  ASSUME Typed, NEW i \in 1 .. Len(rows)
  PROVE  /\ rows[i] \in Row
         /\ rows[i].slot \in Slots /\ rows[i].expiresAt \in Nat /\ rows[i].used \in BOOLEAN
         /\ rows[i].revoked \in BOOLEAN /\ rows[i].supersededBy \in Nat /\ rows[i].line \in Nat
         /\ claimed[i] \in Nat
<1>1. rows \in Seq(Row) /\ claimed \in Seq(Nat) /\ i \in 1 .. Len(claimed)
  BY DEF Typed
<1>2. rows[i] \in Row /\ claimed[i] \in Nat
  BY <1>1, ElementOfSeq
<1> QED BY <1>2 DEF Row

LEMMA TableTyped == Typed => Len(rows) \in Nat /\ Ids = 1 .. Len(rows)
BY LenProperties DEF Typed, Ids

LEMMA RowReplaced ==
  ASSUME NEW S, NEW t \in Seq(S), NEW i \in 1 .. Len(t), NEW e \in S
  PROVE  /\ [t EXCEPT ![i] = e] \in Seq(S) /\ Len([t EXCEPT ![i] = e]) = Len(t)
         /\ [t EXCEPT ![i] = e][i] = e
         /\ \A j \in 1 .. Len(t) : j # i => [t EXCEPT ![i] = e][j] = t[j]
BY ExceptSeq

LEMMA RowAppended ==
  ASSUME NEW S, NEW t \in Seq(S), NEW e \in S
  PROVE  /\ Append(t, e) \in Seq(S) /\ Len(Append(t, e)) = Len(t) + 1
         /\ Append(t, e)[Len(t) + 1] = e
         /\ \A j \in 1 .. Len(t) : Append(t, e)[j] = t[j]
BY AppendProperties

(* A request of the smaller table is one of the larger.                    *)
LEMMA RequestsGrow ==
  ASSUME NEW n \in Nat, NEW m \in Nat, n <= m, NEW r \in Requests(n)
  PROVE  r \in Requests(m)
<1>1. CASE r \in [kind : {"claim", "rotate", "revoke"}, id : 1 .. n]
  <2>1. 1 .. n \subseteq 1 .. m
    OBVIOUS
  <2> QED BY <1>1, <2>1 DEF Requests
<1> QED BY <1>1 DEF Requests

(* A worker's request is done, or was begun.                               *)
LEMMA RequestReplaced ==
  ASSUME Typed, NEW n \in Nat, Len(rows) <= n, NEW w \in Workers, NEW r \in Requests(n)
  PROVE  /\ [request EXCEPT ![w] = r] \in [Workers -> Requests(n)]
         /\ [request EXCEPT ![w] = r][w] = r
         /\ \A v \in Workers \ {w} : [request EXCEPT ![w] = r][v] = request[v]
<1>1. \A v \in Workers : request[v] \in Requests(n)
  <2> TAKE v \in Workers
  <2>1. request[v] \in Requests(Len(rows))
    BY DEF Typed
  <2> QED BY <2>1, TableTyped, RequestsGrow
<1> QED BY <1>1 DEF Typed

LEMMA IdleIsRequest ==
  ASSUME NEW n
  PROVE  Idle \in Requests(n) /\ Idle.kind = "idle"
BY DEF Requests, Idle

(* A request that ends leaves the others, whose rows are still there.      *)
LEMMA RequestDone ==
  ASSUME Typed, NEW n \in Nat, Len(rows) <= n, NEW w \in Workers,
         request' = [request EXCEPT ![w] = Idle]
  PROVE  /\ request' \in [Workers -> Requests(n)]
         /\ request'[w] = Idle /\ request'[w].kind = "idle"
         /\ \A v \in Workers \ {w} : request'[v] = request[v]
<1>1. Idle \in Requests(n) /\ Idle.kind = "idle"
  BY IdleIsRequest
<1>2. /\ [request EXCEPT ![w] = Idle] \in [Workers -> Requests(n)]
      /\ [request EXCEPT ![w] = Idle][w] = Idle
      /\ \A v \in Workers \ {w} : [request EXCEPT ![w] = Idle][v] = request[v]
  BY <1>1, RequestReplaced
<1> QED BY <1>1, <1>2

(* What a request of each kind remembers.                                  *)
LEMMA RequestKinds ==
  ASSUME Typed, NEW w \in Workers
  PROVE  /\ request[w].kind = "create" =>
              request[w].slot \in Slots /\ request[w] = [kind |-> "create", slot |-> request[w].slot]
         /\ request[w].kind \in {"claim", "rotate", "revoke"} => request[w].id \in 1 .. Len(rows)
<1>1. request[w] \in Requests(Len(rows))
  BY DEF Typed
<1>2. CASE request[w] = Idle
  BY <1>2 DEF Idle
<1>3. CASE request[w] \in [kind : {"create"}, slot : Slots]
  BY <1>3
<1>4. CASE request[w] \in [kind : {"claim", "rotate", "revoke"}, id : 1 .. Len(rows)]
  BY <1>4
<1> QED BY <1>1, <1>2, <1>3, <1>4 DEF Requests

-----------------------------------------------------------------------------
(* Steps that make no token usable and begin no creation.                  *)

LEMMA QuietSlots ==
  ASSUME SlotsInv, Len(rows') = Len(rows), raced \subseteq raced',
         \A i \in 1 .. Len(rows) :
           rows'[i].slot = rows[i].slot /\ (Active(rows[i])' => Active(rows[i])),
         \A w \in Workers : request'[w] = request[w] \/ request'[w].kind # "create"
  PROVE  SlotsInv'
BY DEF SlotsInv

LEMMA QuietLines ==
  ASSUME LinesInv, UNCHANGED <<rows, claimed>>
  PROVE  LinesInv'
BY DEF LinesInv, Counts

(* A request that reads changes no table.                                  *)
LEMMA ReadsTyped ==
  ASSUME Typed, NEW w \in Workers, NEW r \in Requests(Len(rows)), Reads(w, r),
         raced' \subseteq Slots
  PROVE  /\ Typed' /\ request'[w] = r
         /\ \A v \in Workers \ {w} : request'[v] = request[v]
<1>1. Len(rows) \in Nat
  BY TableTyped
<1>2. /\ request' \in [Workers -> Requests(Len(rows))] /\ request'[w] = r
      /\ \A v \in Workers \ {w} : request'[v] = request[v]
  BY <1>1, RequestReplaced DEF Reads
<1>3. rows' = rows /\ claimed' = claimed /\ now' = now
  BY DEF Reads
<1> QED BY <1>2, <1>3 DEF Typed

LEMMA ReadQuietly ==
  ASSUME InvitationInv, NEW w \in Workers, NEW r \in Requests(Len(rows)), Reads(w, r),
         r.kind # "create", raced' = raced
  PROVE  InvitationInv'
<1>1. Typed' /\ request'[w] = r /\ \A v \in Workers \ {w} : request'[v] = request[v]
  BY ReadsTyped DEF InvitationInv, Typed
<1>2. rows' = rows /\ claimed' = claimed /\ now' = now
  BY DEF Reads
<1>3. LinesInv'
  BY <1>2, QuietLines DEF InvitationInv
<1>4. \A v \in Workers : request'[v] = request[v] \/ request'[v].kind # "create"
  BY <1>1
<1>5. \A i \in 1 .. Len(rows) : rows'[i].slot = rows[i].slot /\ (Active(rows[i])' => Active(rows[i]))
  BY <1>2 DEF Active
<1>6. SlotsInv'
  BY <1>2, <1>4, <1>5, QuietSlots DEF InvitationInv
<1> QED BY <1>1, <1>3, <1>6 DEF InvitationInv

(* A creation begins when no token is usable; when another one is under    *)
(* way, the race is remembered.                                            *)
LEMMA ReadCreateStep ==
  ASSUME InvitationInv, NEW w \in Workers, NEW user, NEW slot, ReadCreate(w, user, slot)
  PROVE  InvitationInv'
<1>1. PICK r : r = [kind |-> "create", slot |-> slot]
  OBVIOUS
<1>2. slot \in Slots /\ r \in Requests(Len(rows)) /\ r.kind = "create" /\ r.slot = slot
  BY <1>1 DEF ReadCreate, Requests
<1>3. Reads(w, r) /\ raced' = IF Creating(slot) THEN raced \cup {slot} ELSE raced
  BY <1>1 DEF ReadCreate
<1>4. Typed' /\ request'[w] = r /\ \A v \in Workers \ {w} : request'[v] = request[v]
  BY <1>2, <1>3, ReadsTyped DEF InvitationInv, Typed
<1>5. rows' = rows /\ claimed' = claimed /\ now' = now
  BY <1>3 DEF Reads
<1>6. LinesInv'
  BY <1>5, QuietLines DEF InvitationInv
<1>7. \A i \in 1 .. Len(rows) : rows[i].slot = slot => ~ Active(rows[i])
  BY TableTyped DEF ReadCreate, NoneActive, ActiveInvitations, InvitationInv
<1>8. slot \notin raced' => \A v \in Workers : request[v] # r
  BY <1>1, <1>3 DEF Creating
<1>9. \A i \in 1 .. Len(rows) : Active(rows[i])' <=> Active(rows[i])
  BY <1>5 DEF Active
<1>10. SlotsInv'
  <2>1. raced \subseteq raced'
    BY <1>3
  <2>2. ASSUME NEW i \in 1 .. Len(rows'), NEW j \in 1 .. Len(rows'), Active(rows[i])', Active(rows[j])',
               rows'[i].slot = rows'[j].slot, rows'[i].slot \notin raced'
        PROVE  i = j
    BY <1>5, <1>9, <2>1, <2>2 DEF InvitationInv, SlotsInv
  <2>3. ASSUME NEW v \in Workers, request'[v].kind = "create", request'[v].slot \notin raced'
        PROVE  /\ \A i \in 1 .. Len(rows') : rows'[i].slot = request'[v].slot => ~ Active(rows[i])'
               /\ \A u \in Workers : request'[u] = request'[v] => u = v
    <3>1. CASE v = w
      BY <1>2, <1>4, <1>5, <1>7, <1>8, <1>9, <2>3, <3>1
    <3>2. CASE v # w
      <4>1. request'[v] = request[v] /\ request[v].slot \notin raced
        BY <1>4, <2>1, <2>3, <3>2
      <4>2. /\ \A i \in 1 .. Len(rows) : rows[i].slot = request[v].slot => ~ Active(rows[i])
            /\ \A u \in Workers : request[u] = request[v] => u = v
        BY <2>3, <4>1 DEF InvitationInv, SlotsInv
      <4>3. r # request[v]
        BY <1>2, <1>8, <2>3, <4>1
      <4> QED BY <1>4, <1>5, <1>9, <4>1, <4>2, <4>3
    <3> QED BY <3>1, <3>2
  <2> QED BY <2>2, <2>3 DEF SlotsInv
<1> QED BY <1>4, <1>6, <1>10 DEF InvitationInv

(* A request ends without a word.                                          *)
LEMMA AbortStep ==
  ASSUME InvitationInv, NEW w \in Workers, Abort(w)
  PROVE  InvitationInv'
<1>1. /\ request' \in [Workers -> Requests(Len(rows))] /\ request'[w] = Idle
      /\ \A v \in Workers \ {w} : request'[v] = request[v]
  BY TableTyped, IdleIsRequest, RequestReplaced DEF Abort, InvitationInv
<1>2. rows' = rows /\ claimed' = claimed /\ now' = now /\ raced' = raced
  BY DEF Abort
<1>3. Typed'
  BY <1>1, <1>2 DEF InvitationInv, Typed
<1>4. LinesInv'
  BY <1>2, QuietLines DEF InvitationInv
<1>5. \A v \in Workers : request'[v] = request[v] \/ request'[v].kind # "create"
  BY <1>1, IdleIsRequest
<1>6. \A i \in 1 .. Len(rows) : rows'[i].slot = rows[i].slot /\ (Active(rows[i])' => Active(rows[i]))
  BY <1>2 DEF Active
<1>7. SlotsInv'
  BY <1>2, <1>5, <1>6, QuietSlots DEF InvitationInv
<1> QED BY <1>3, <1>4, <1>7 DEF InvitationInv

(* Time only takes tokens away.                                            *)
LEMMA TickStep ==
  ASSUME InvitationInv, Tick
  PROVE  InvitationInv'
<1>1. rows' = rows /\ claimed' = claimed /\ request' = request /\ raced' = raced /\ now' = now + 1
  BY DEF Tick
<1>2. Typed'
  BY <1>1 DEF InvitationInv, Typed
<1>3. LinesInv'
  BY <1>1, QuietLines DEF InvitationInv
<1>4. \A i \in 1 .. Len(rows) : rows'[i].slot = rows[i].slot /\ (Active(rows[i])' => Active(rows[i]))
  <2> TAKE i \in 1 .. Len(rows)
  <2>1. rows[i].expiresAt \in Nat /\ now \in Nat
    BY RowTyped DEF InvitationInv, Typed
  <2> QED BY <1>1, <2>1 DEF Active
<1>5. SlotsInv'
  BY <1>1, <1>4, QuietSlots DEF InvitationInv
<1> QED BY <1>2, <1>3, <1>5 DEF InvitationInv

-----------------------------------------------------------------------------
(* Writes                                                                  *)

(* Rows are never deleted, and this of them is for good: the slot, that a  *)
(* token is unusable, that it was revoked with or without a replacement,   *)
(* and that it was claimed.                                                *)
Persists ==
  /\ Len(rows) <= Len(rows')
  /\ \A i \in 1 .. Len(rows) :
       /\ rows'[i].slot = rows[i].slot
       /\ Active(rows[i])' => Active(rows[i])
       /\ rows[i].revoked => rows'[i].revoked /\ rows'[i].supersededBy = rows[i].supersededBy
       /\ rows[i].supersededBy # 0 => rows'[i].supersededBy # 0
       /\ claimed[i] = 1 => claimed'[i] = 1

LEMMA SameRowsPersist ==
  ASSUME Typed, UNCHANGED <<rows, claimed>>, now' = now \/ now' = now + 1
  PROVE  Persists
<1>1. Len(rows) \in Nat /\ now \in Nat /\ rows' = rows /\ claimed' = claimed
  BY TableTyped DEF Typed
<1>2. \A i \in 1 .. Len(rows) : rows[i].expiresAt \in Nat
  BY RowTyped
<1>3. \A i \in 1 .. Len(rows) : Active(rows[i])' => Active(rows[i])
  BY <1>1, <1>2 DEF Active
<1> QED BY <1>1, <1>3 DEF Persists

(* The row i becomes e: it is claimed or revoked.                          *)
Becomes(i, e) ==
  /\ rows' \in Seq(Row) /\ Len(rows') = Len(rows) /\ rows'[i] = e
  /\ \A j \in 1 .. Len(rows) : j # i => rows'[j] = rows[j]

(* Such a write frees nothing, makes no other row count, and is counted if *)
(* it is a claim.                                                          *)
LEMMA BecomesStep ==
  ASSUME InvitationInv, NEW w \in Workers, NEW i \in 1 .. Len(rows), NEW e \in Row, Becomes(i, e),
         request' = [request EXCEPT ![w] = Idle], now' = now, raced' = raced,
         e.slot = rows[i].slot, e.line = rows[i].line, e.supersededBy = rows[i].supersededBy,
         rows[i].revoked => e.revoked, claimed[i] = 1 => e.used,
         Active(e) => Active(rows[i]), Counts(e) => Counts(rows[i]),
         claimed' \in Seq(Nat), Len(claimed') = Len(claimed),
         claimed'[i] = IF e.used THEN 1 ELSE 0,
         \A j \in 1 .. Len(rows) : j # i => claimed'[j] = claimed[j]
  PROVE  InvitationInv' /\ Persists
<1>1. /\ request' \in [Workers -> Requests(Len(rows))] /\ request'[w] = Idle
      /\ \A v \in Workers \ {w} : request'[v] = request[v]
  <2>1. Typed /\ Len(rows) \in Nat /\ Len(rows) <= Len(rows)
    BY TableTyped DEF InvitationInv
  <2> QED BY <2>1, RequestDone
<1>2. Typed'
  BY <1>1 DEF InvitationInv, Typed, Becomes
<1>3. \A j \in 1 .. Len(rows) : /\ rows'[j].slot = rows[j].slot /\ rows'[j].line = rows[j].line
                                /\ Counts(rows'[j]) => Counts(rows[j])
                                /\ Active(rows[j])' => Active(rows[j])
  BY DEF Becomes, Active
<1>4. \A j \in 1 .. Len(rows) : claimed'[j] = IF rows'[j].used THEN 1 ELSE 0
  BY DEF InvitationInv, LinesInv, Becomes
<1>5. LinesInv'
  <2>1. Len(rows') = Len(rows)
    BY DEF Becomes
  <2>2. \A j \in 1 .. Len(rows) :
          /\ rows[j].line <= Len(rows)
          /\ \A k \in 1 .. Len(rows) :
               rows[j].line = rows[k].line /\ Counts(rows[j]) /\ Counts(rows[k]) => j = k
    BY DEF InvitationInv, LinesInv
  <2> QED BY <1>3, <1>4, <2>1, <2>2 DEF LinesInv, Counts
<1>6. SlotsInv'
  <2>1. \A v \in Workers : request'[v] = request[v] \/ request'[v].kind # "create"
    BY <1>1, IdleIsRequest
  <2>2. Len(rows') = Len(rows)
    BY DEF Becomes
  <2> QED BY <1>3, <2>1, <2>2, QuietSlots DEF InvitationInv
<1>7. Persists
  <2>1. Len(rows) \in Nat
    BY TableTyped DEF InvitationInv
  <2>2. Len(rows') = Len(rows) /\ rows'[i] = e /\ \A j \in 1 .. Len(rows) : j # i => rows'[j] = rows[j]
    BY DEF Becomes
  <2>3. ASSUME NEW j \in 1 .. Len(rows)
        PROVE  /\ rows[j].revoked => rows'[j].revoked /\ rows'[j].supersededBy = rows[j].supersededBy
               /\ rows[j].supersededBy # 0 => rows'[j].supersededBy # 0
               /\ claimed[j] = 1 => claimed'[j] = 1
    <3>1. CASE j = i
      BY <2>2, <3>1
    <3>2. CASE j # i
      BY <2>2, <3>2
    <3> QED BY <3>1, <3>2
  <2> QED BY <1>3, <2>1, <2>2, <2>3 DEF Persists
<1> QED BY <1>2, <1>5, <1>6, <1>7 DEF InvitationInv

LEMMA WriteClaimStep ==
  ASSUME InvitationInv, NEW w \in Workers, WriteClaim(w)
  PROVE  InvitationInv' /\ Persists
<1>1. PICK i \in 1 .. Len(rows) : i = request[w].id
  BY RequestKinds DEF WriteClaim, Writes, InvitationInv
<1>2. /\ Claimable(rows[i]) /\ raced' = raced /\ now' = now
      /\ request' = [request EXCEPT ![w] = Idle]
      /\ rows' = [rows EXCEPT ![i].used = TRUE]
      /\ claimed' = [claimed EXCEPT ![i] = claimed[i] + 1]
  BY <1>1 DEF WriteClaim, Writes
<1>3. PICK e : e = [rows[i] EXCEPT !.used = TRUE]
  OBVIOUS
<1>4. rows[i] \in Row
  BY RowTyped DEF InvitationInv
<1>5. /\ e \in Row /\ e.slot = rows[i].slot /\ e.line = rows[i].line
      /\ e.used /\ e.revoked = rows[i].revoked /\ e.supersededBy = rows[i].supersededBy
  BY <1>3, <1>4 DEF Row
<1>6. Becomes(i, e)
  <2>1. rows \in Seq(Row) /\ rows' = [rows EXCEPT ![i] = e]
    BY <1>2, <1>3 DEF InvitationInv, Typed
  <2> QED BY <1>5, <2>1, RowReplaced DEF Becomes
<1>7. claimed[i] = 0 /\ claimed \in Seq(Nat) /\ Len(claimed) = Len(rows)
  <2>1. ~ rows[i].used
    BY <1>2 DEF Claimable
  <2>2. claimed[i] = IF rows[i].used THEN 1 ELSE 0
    BY DEF InvitationInv, LinesInv
  <2> QED BY <2>1, <2>2 DEF InvitationInv, Typed
<1>8. /\ claimed' \in Seq(Nat) /\ Len(claimed') = Len(claimed) /\ claimed'[i] = 1
      /\ \A j \in 1 .. Len(rows) : j # i => claimed'[j] = claimed[j]
  <2>1. claimed' = [claimed EXCEPT ![i] = 1]
    BY <1>2, <1>7
  <2> QED BY <1>7, <2>1, RowReplaced
<1>9. ~ Active(e) /\ Counts(rows[i])
  BY <1>2, <1>5 DEF Active, Claimable, Counts
<1> QED BY <1>2, <1>5, <1>6, <1>8, <1>9, BecomesStep

LEMMA WriteRevokeStep ==
  ASSUME InvitationInv, NEW w \in Workers, WriteRevoke(w)
  PROVE  InvitationInv' /\ Persists
<1>1. PICK i \in 1 .. Len(rows) : i = request[w].id
  BY RequestKinds DEF WriteRevoke, Writes, InvitationInv
<1>2. /\ raced' = raced /\ now' = now /\ request' = [request EXCEPT ![w] = Idle]
      /\ rows' = [rows EXCEPT ![i].revoked = TRUE] /\ claimed' = claimed
  BY <1>1 DEF WriteRevoke, Writes
<1>3. PICK e : e = [rows[i] EXCEPT !.revoked = TRUE]
  OBVIOUS
<1>4. rows[i] \in Row
  BY RowTyped DEF InvitationInv
<1>5. /\ e \in Row /\ e.slot = rows[i].slot /\ e.line = rows[i].line
      /\ e.used = rows[i].used /\ e.revoked /\ e.supersededBy = rows[i].supersededBy
  BY <1>3, <1>4 DEF Row
<1>6. Becomes(i, e)
  <2>1. rows \in Seq(Row) /\ rows' = [rows EXCEPT ![i] = e]
    BY <1>2, <1>3 DEF InvitationInv, Typed
  <2> QED BY <1>5, <2>1, RowReplaced DEF Becomes
<1>7. /\ claimed \in Seq(Nat) /\ Len(claimed) = Len(rows)
      /\ claimed[i] = IF e.used THEN 1 ELSE 0
  BY <1>5 DEF InvitationInv, LinesInv, Typed
<1>9. claimed[i] = 1 => e.used
  BY <1>7
<1>8. ~ Active(e) /\ (Counts(e) => Counts(rows[i]))
  BY <1>5 DEF Active, Counts
<1> QED BY <1>2, <1>5, <1>6, <1>7, <1>8, <1>9, BecomesStep

(* A row that is inserted is of its time, active, and counts.              *)
LEMMA NewRowFields ==
  ASSUME Typed, NEW slot \in Slots, NEW line \in Nat
  PROVE  LET e == NewRow(slot, line)
         IN  /\ e \in Row /\ e.slot = slot /\ e.line = line
             /\ e.used = FALSE /\ e.revoked = FALSE
<1>1. now + TTL \in Nat
  BY InvitationsAssumption DEF Typed
<1> QED BY <1>1 DEF NewRow, Row

(* A creation adds a line with one row, and ends the only one of its slot. *)
LEMMA WriteCreateStep ==
  ASSUME InvitationInv, NEW w \in Workers, WriteCreate(w)
  PROVE  InvitationInv' /\ Persists
<1>1. PICK n \in Nat : n = Len(rows)
  BY TableTyped DEF InvitationInv
<1>2. PICK slot : slot = request[w].slot
  OBVIOUS
<1>3. /\ slot \in Slots /\ request[w].kind = "create" /\ request[w].slot = slot
      /\ request[w] = [kind |-> "create", slot |-> slot]
  BY <1>2, RequestKinds DEF WriteCreate, Writes, InvitationInv
<1>4. PICK e : e = NewRow(slot, n + 1)
  OBVIOUS
<1>5. /\ raced' = raced /\ now' = now /\ request' = [request EXCEPT ![w] = Idle]
      /\ rows' = Append(rows, e) /\ claimed' = Append(claimed, 0)
  BY <1>1, <1>2, <1>4 DEF WriteCreate, Writes
<1>6. /\ e \in Row /\ e.slot = slot /\ e.line = n + 1 /\ e.used = FALSE /\ e.revoked = FALSE
  <2>1. Typed /\ slot \in Slots /\ n + 1 \in Nat
    BY <1>3 DEF InvitationInv
  <2>2. PICK line \in Nat : line = n + 1
    BY <2>1
  <2>3. e = NewRow(slot, line)
    BY <1>4, <2>2
  <2>4. /\ NewRow(slot, line) \in Row
        /\ NewRow(slot, line).slot = slot /\ NewRow(slot, line).line = line
        /\ NewRow(slot, line).used = FALSE /\ NewRow(slot, line).revoked = FALSE
    BY ONLY <2>1, line \in Nat, NewRowFields
  <2> QED BY ONLY <2>2, <2>3, <2>4
<1>7. /\ rows \in Seq(Row) /\ claimed \in Seq(Nat) /\ Len(claimed) = n
      /\ now \in Nat /\ raced \subseteq Slots
  BY <1>1 DEF InvitationInv, Typed
<1>8. /\ rows' \in Seq(Row) /\ Len(rows') = n + 1 /\ rows'[n + 1] = e
      /\ \A i \in 1 .. n : rows'[i] = rows[i]
  BY <1>1, <1>5, <1>6, <1>7, RowAppended
<1>9. /\ claimed' \in Seq(Nat) /\ Len(claimed') = n + 1 /\ claimed'[n + 1] = 0
      /\ \A i \in 1 .. n : claimed'[i] = claimed[i]
  BY <1>5, <1>7, RowAppended
<1>10. /\ request' \in [Workers -> Requests(n + 1)] /\ request'[w] = Idle
       /\ \A v \in Workers \ {w} : request'[v] = request[v]
  <2>1. Typed /\ n + 1 \in Nat /\ Len(rows) <= n + 1
    BY <1>1 DEF InvitationInv
  <2> QED BY <1>5, <2>1, RequestDone
<1>11. Typed'
  BY <1>5, <1>7, <1>8, <1>9, <1>10 DEF Typed
<1>12. \A i \in 1 .. n + 1 : i = n + 1 \/ i \in 1 .. n
  OBVIOUS
<1>13. LinesInv'
  <2>1. \A i \in 1 .. n : /\ rows[i].line <= n /\ rows[i].line \in Nat
                          /\ claimed[i] = IF rows[i].used THEN 1 ELSE 0
    BY <1>1, RowTyped DEF InvitationInv, LinesInv
  <2>2. \A i, j \in 1 .. n :
          rows[i].line = rows[j].line /\ Counts(rows[i]) /\ Counts(rows[j]) => i = j
    BY <1>1 DEF InvitationInv, LinesInv
  <2>3. \A i \in 1 .. n + 1 : /\ rows'[i].line <= n + 1
                              /\ claimed'[i] = IF rows'[i].used THEN 1 ELSE 0
    <3>1. ASSUME NEW i \in 1 .. n
          PROVE  rows'[i].line <= n + 1 /\ claimed'[i] = IF rows'[i].used THEN 1 ELSE 0
      <4>1. rows'[i] = rows[i] /\ claimed'[i] = claimed[i]
        BY <1>8, <1>9
      <4>2. rows[i].line <= n /\ rows[i].line \in Nat
        BY <2>1
      <4> QED BY <2>1, <4>1, <4>2
    <3>2. rows'[n + 1].line <= n + 1 /\ claimed'[n + 1] = IF rows'[n + 1].used THEN 1 ELSE 0
      BY <1>6, <1>8, <1>9
    <3> QED BY <1>12, <3>1, <3>2
  <2>4. \A i, j \in 1 .. n + 1 :
          rows'[i].line = rows'[j].line /\ Counts(rows'[i]) /\ Counts(rows'[j]) => i = j
    BY <1>6, <1>8, <1>12, <2>1, <2>2
  <2> QED BY <1>8, <2>3, <2>4 DEF LinesInv, Counts
<1>14. \A i \in 1 .. n : (Active(rows[i])' <=> Active(rows[i])) /\ rows'[i].slot = rows[i].slot
  BY <1>5, <1>8 DEF Active
<1>15. slot \notin raced => /\ \A i \in 1 .. n : rows[i].slot = slot => ~ Active(rows[i])
                            /\ \A v \in Workers : request[v] = request[w] => v = w
  BY <1>1, <1>3 DEF InvitationInv, SlotsInv
<1>16. ASSUME NEW i \in 1 .. n + 1, NEW j \in 1 .. n + 1, Active(rows[i])', Active(rows[j])',
              rows'[i].slot = rows'[j].slot, rows'[i].slot \notin raced'
       PROVE  i = j
  <2>1. CASE i \in 1 .. n /\ j \in 1 .. n
    BY <1>1, <1>5, <1>14, <1>16, <2>1 DEF InvitationInv, SlotsInv
  <2>2. CASE i = n + 1 /\ j \in 1 .. n
    BY <1>5, <1>6, <1>8, <1>14, <1>15, <1>16, <2>2
  <2>3. CASE i \in 1 .. n /\ j = n + 1
    BY <1>5, <1>6, <1>8, <1>14, <1>15, <1>16, <2>3
  <2> QED BY <1>12, <2>1, <2>2, <2>3
<1>17. ASSUME NEW v \in Workers, request'[v].kind = "create", request'[v].slot \notin raced'
       PROVE  /\ \A i \in 1 .. n + 1 : rows'[i].slot = request'[v].slot => ~ Active(rows[i])'
              /\ \A u \in Workers : request'[u] = request'[v] => u = v
  <2>1. v # w /\ request'[v] = request[v] /\ request[v].kind = "create" /\ request[v].slot \notin raced
    BY <1>5, <1>10, <1>17, IdleIsRequest
  <2>2. /\ \A i \in 1 .. n : rows[i].slot = request[v].slot => ~ Active(rows[i])
        /\ \A u \in Workers : request[u] = request[v] => u = v
    BY <1>1, <2>1 DEF InvitationInv, SlotsInv
  <2>3. request[v].slot # slot
    <3>1. request[v] = [kind |-> "create", slot |-> request[v].slot]
      BY <2>1, RequestKinds DEF InvitationInv
    <3> QED BY <1>3, <1>15, <2>1, <3>1
  <2>4. ASSUME NEW u \in Workers, request'[u] = request'[v] PROVE u = v
    BY <1>10, <2>1, <2>2, <2>4, IdleIsRequest
  <2> QED BY <1>6, <1>8, <1>12, <1>14, <2>1, <2>2, <2>3, <2>4
<1>18. SlotsInv'
  BY <1>8, <1>16, <1>17 DEF SlotsInv
<1>19. Persists
  BY <1>1, <1>8, <1>9, <1>14 DEF Persists
<1> QED BY <1>11, <1>13, <1>18, <1>19 DEF InvitationInv

(* A rotation ends a row that counts and begins one of its line and slot;  *)
(* where that makes a second usable token, the race is remembered.         *)
LEMMA WriteRotateStep ==
  ASSUME InvitationInv, NEW w \in Workers, WriteRotate(w)
  PROVE  InvitationInv' /\ Persists
<1>1. PICK n \in Nat : n = Len(rows)
  BY TableTyped DEF InvitationInv
<1>2. PICK r \in 1 .. n : r = request[w].id
  BY <1>1, RequestKinds DEF WriteRotate, Writes, InvitationInv
<1>3. PICK old : old = [rows[r] EXCEPT !.revoked = TRUE, !.supersededBy = n + 1]
  OBVIOUS
<1>4. PICK e : e = NewRow(rows[r].slot, rows[r].line)
  OBVIOUS
<1>5. PICK mid : mid = [rows EXCEPT ![r] = old]
  OBVIOUS
<1>6. /\ ~ rows[r].revoked /\ ~ rows[r].used /\ now' = now
      /\ request' = [request EXCEPT ![w] = Idle]
      /\ rows' = Append(mid, e) /\ claimed' = Append(claimed, 0)
      /\ raced' = IF Active(rows[r]) THEN raced ELSE raced \cup {rows[r].slot}
  BY <1>1, <1>2, <1>3, <1>4, <1>5 DEF WriteRotate, Writes, Rotatable
<1>7. /\ rows[r] \in Row /\ rows[r].slot \in Slots /\ rows[r].line \in Nat
  BY <1>1, RowTyped DEF InvitationInv
<1>8. /\ old \in Row /\ old.slot = rows[r].slot /\ old.line = rows[r].line
      /\ old.revoked /\ old.used = FALSE /\ old.supersededBy # 0
  <2>1. /\ rows[r] = [slot |-> rows[r].slot, expiresAt |-> rows[r].expiresAt,
                      used |-> rows[r].used, revoked |-> rows[r].revoked,
                      supersededBy |-> rows[r].supersededBy, line |-> rows[r].line]
        /\ rows[r].slot \in Slots /\ rows[r].expiresAt \in Nat /\ rows[r].used \in BOOLEAN
        /\ rows[r].revoked \in BOOLEAN /\ rows[r].supersededBy \in Nat /\ rows[r].line \in Nat
    BY ONLY <1>7 DEF Row
  <2>2. rows[r].used = FALSE /\ n + 1 \in Nat
    BY <1>6, <2>1
  <2>3. old = [slot |-> rows[r].slot, expiresAt |-> rows[r].expiresAt,
               used |-> rows[r].used, revoked |-> TRUE,
               supersededBy |-> n + 1, line |-> rows[r].line]
    BY ONLY <1>3, <2>1
  <2> QED BY ONLY <2>1, <2>2, <2>3 DEF Row
<1>9. /\ e \in Row /\ e.slot = rows[r].slot /\ e.line = rows[r].line
      /\ e.used = FALSE /\ e.revoked = FALSE
  <2>1. PICK slot \in Slots, line \in Nat : slot = rows[r].slot /\ line = rows[r].line
    BY <1>7
  <2>2. e = NewRow(slot, line) /\ Typed
    BY <1>4, <2>1 DEF InvitationInv
  <2>3. /\ NewRow(slot, line) \in Row
        /\ NewRow(slot, line).slot = slot /\ NewRow(slot, line).line = line
        /\ NewRow(slot, line).used = FALSE /\ NewRow(slot, line).revoked = FALSE
    BY ONLY <2>2, slot \in Slots, line \in Nat, NewRowFields
  <2> QED BY ONLY <2>1, <2>2, <2>3
<1>10. /\ rows \in Seq(Row) /\ claimed \in Seq(Nat) /\ Len(claimed) = n /\ Len(rows) = n
       /\ now \in Nat /\ raced \subseteq Slots
  BY <1>1 DEF InvitationInv, Typed
<1>11. /\ mid \in Seq(Row) /\ Len(mid) = n /\ mid[r] = old
       /\ \A i \in 1 .. n : i # r => mid[i] = rows[i]
  BY <1>5, <1>8, <1>10, RowReplaced
<1>12. /\ rows' \in Seq(Row) /\ Len(rows') = n + 1 /\ rows'[n + 1] = e
       /\ \A i \in 1 .. n : rows'[i] = mid[i]
  <2>1. /\ Append(mid, e) \in Seq(Row) /\ Len(Append(mid, e)) = Len(mid) + 1
        /\ Append(mid, e)[Len(mid) + 1] = e
        /\ \A i \in 1 .. Len(mid) : Append(mid, e)[i] = mid[i]
    BY ONLY <1>9, <1>11, RowAppended
  <2> QED BY ONLY <1>6, <1>11, <2>1
<1>13. rows'[r] = old /\ \A i \in 1 .. n : i # r => rows'[i] = rows[i]
  BY <1>11, <1>12
<1>14. /\ claimed' \in Seq(Nat) /\ Len(claimed') = n + 1 /\ claimed'[n + 1] = 0
       /\ \A i \in 1 .. n : claimed'[i] = claimed[i]
  <2>1. 0 \in Nat
    OBVIOUS
  <2>2. /\ Append(claimed, 0) \in Seq(Nat) /\ Len(Append(claimed, 0)) = Len(claimed) + 1
        /\ Append(claimed, 0)[Len(claimed) + 1] = 0
        /\ \A i \in 1 .. Len(claimed) : Append(claimed, 0)[i] = claimed[i]
    BY ONLY <1>10, <2>1, RowAppended
  <2> QED BY ONLY <1>6, <1>10, <2>2
<1>15. /\ request' \in [Workers -> Requests(n + 1)] /\ request'[w] = Idle /\ request'[w].kind = "idle"
       /\ \A v \in Workers \ {w} : request'[v] = request[v]
  <2>1. Typed /\ n + 1 \in Nat /\ Len(rows) <= n + 1
    BY <1>1 DEF InvitationInv
  <2> QED BY <1>6, <2>1, RequestDone
<1>16. Typed'
  BY <1>6, <1>7, <1>10, <1>12, <1>14, <1>15 DEF Typed
<1>17. \A i \in 1 .. n + 1 : i = n + 1 \/ i \in 1 .. n
  OBVIOUS
<1>18. LinesInv'
  <2>1. \A i \in 1 .. n : /\ rows[i].line <= n /\ rows[i].line \in Nat
                          /\ claimed[i] = IF rows[i].used THEN 1 ELSE 0
    BY <1>1, RowTyped DEF InvitationInv, LinesInv
  <2>2. \A i, j \in 1 .. n :
          rows[i].line = rows[j].line /\ Counts(rows[i]) /\ Counts(rows[j]) => i = j
    BY <1>1 DEF InvitationInv, LinesInv
  <2>3. \A i \in 1 .. n : /\ rows'[i].line = rows[i].line
                          /\ rows'[i].used = rows[i].used
                          /\ Counts(rows'[i]) => Counts(rows[i]) /\ i # r
    <3> TAKE i \in 1 .. n
    <3>1. rows[r].used = FALSE
      BY <1>6, <1>7 DEF Row
    <3> QED BY <1>8, <1>13, <3>1 DEF Counts
  <2>4. \A i \in 1 .. n + 1 : /\ rows'[i].line <= n + 1
                              /\ claimed'[i] = IF rows'[i].used THEN 1 ELSE 0
    <3> TAKE i \in 1 .. n + 1
    <3>1. CASE i \in 1 .. n
      <4>1. rows'[i].line <= n /\ rows'[i].line \in Nat
        BY <2>1, <2>3, <3>1
      <4>2. claimed'[i] = IF rows'[i].used THEN 1 ELSE 0
        <5>1. claimed'[i] = claimed[i] /\ rows'[i].used = rows[i].used
          BY <1>14, <2>3, <3>1
        <5> QED BY <2>1, <3>1, <5>1
      <4>3. rows'[i].line <= n + 1
        BY ONLY n \in Nat, <4>1
      <4> QED BY ONLY <4>2, <4>3
    <3>2. CASE i = n + 1
      <4>1. rows[r].line <= n /\ rows[r].line \in Nat
        BY <2>1
      <4> QED BY <1>9, <1>12, <1>14, <3>2, <4>1
    <3> QED BY <1>17, <3>1, <3>2
  <2>5. Counts(rows[r])
    BY <1>6 DEF Counts
  <2>6. \A i \in 1 .. n : Counts(rows'[i]) => rows'[i].line # e.line
    BY <1>9, <2>2, <2>3, <2>5
  <2>7. \A i, j \in 1 .. n + 1 :
          rows'[i].line = rows'[j].line /\ Counts(rows'[i]) /\ Counts(rows'[j]) => i = j
    BY <1>12, <1>17, <2>2, <2>3, <2>6
  <2> QED BY <1>12, <2>4, <2>7 DEF LinesInv, Counts
<1>19. raced \subseteq raced' /\ (rows[r].slot \notin raced' => Active(rows[r]))
  BY <1>6
<1>20. ASSUME NEW i \in 1 .. n, Active(rows[i])'
       PROVE  i # r /\ Active(rows[i]) /\ rows'[i] = rows[i]
  BY <1>6, <1>8, <1>13, <1>20 DEF Active
<1>21. \A i, j \in 1 .. n :
         /\ Active(rows[i]) /\ Active(rows[j])
         /\ rows[i].slot = rows[j].slot /\ rows[i].slot \notin raced
         => i = j
  <2>1. SlotsInv
    BY DEF InvitationInv
  <2> QED BY ONLY <1>1, <2>1 DEF SlotsInv
<1>22. \A i \in 1 .. n : Active(rows[i])' /\ rows[r].slot \notin raced' => rows'[i].slot # rows[r].slot
  BY <1>19, <1>20, <1>21
<1>23. ASSUME NEW i \in 1 .. n + 1, NEW j \in 1 .. n + 1, Active(rows[i])', Active(rows[j])',
              rows'[i].slot = rows'[j].slot, rows'[i].slot \notin raced'
       PROVE  i = j
  <2>1. CASE i \in 1 .. n /\ j \in 1 .. n
    BY <1>19, <1>20, <1>21, <1>23, <2>1
  <2>2. CASE i = n + 1 /\ j \in 1 .. n
    BY <1>9, <1>12, <1>22, <1>23, <2>2
  <2>3. CASE i \in 1 .. n /\ j = n + 1
    BY <1>9, <1>12, <1>22, <1>23, <2>3
  <2> QED BY <1>17, <2>1, <2>2, <2>3
<1>24. ASSUME NEW v \in Workers, request'[v].kind = "create", request'[v].slot \notin raced'
       PROVE  /\ \A i \in 1 .. n + 1 : rows'[i].slot = request'[v].slot => ~ Active(rows[i])'
              /\ \A u \in Workers : request'[u] = request'[v] => u = v
  <2>1. v # w /\ request'[v] = request[v] /\ request[v].kind = "create" /\ request[v].slot \notin raced
    BY <1>15, <1>19, <1>24
  <2>2. /\ \A i \in 1 .. n : rows[i].slot = request[v].slot => ~ Active(rows[i])
        /\ \A u \in Workers : request[u] = request[v] => u = v
    BY <1>1, <2>1 DEF InvitationInv, SlotsInv
  <2>3. rows[r].slot # request[v].slot
    BY <1>19, <1>24, <2>1, <2>2
  <2>4. ASSUME NEW u \in Workers, request'[u] = request'[v] PROVE u = v
    BY <1>15, <2>1, <2>2, <2>4
  <2>5. \A i \in 1 .. n + 1 : rows'[i].slot = request'[v].slot => ~ Active(rows[i])'
    BY <1>9, <1>12, <1>17, <1>20, <2>1, <2>2, <2>3
  <2> QED BY <2>4, <2>5
<1>25. SlotsInv'
  BY <1>12, <1>23, <1>24 DEF SlotsInv
<1>26. Persists
  <2>1. ASSUME NEW i \in 1 .. n
        PROVE  /\ rows'[i].slot = rows[i].slot
               /\ rows[i].revoked => rows'[i].revoked /\ rows'[i].supersededBy = rows[i].supersededBy
               /\ rows[i].supersededBy # 0 => rows'[i].supersededBy # 0
    <3>1. CASE i = r
      BY <1>6, <1>8, <1>13, <3>1
    <3>2. CASE i # r
      BY <1>13, <3>2
    <3> QED BY <3>1, <3>2
  <2>2. \A i \in 1 .. n : Active(rows[i])' => Active(rows[i])
    BY <1>20
  <2> QED BY <1>10, <1>12, <1>14, <2>1, <2>2 DEF Persists
<1> QED BY <1>16, <1>18, <1>25, <1>26 DEF InvitationInv

-----------------------------------------------------------------------------
(* The invariant                                                           *)

LEMMA InvitationInit == Init => InvitationInv
<1> SUFFICES ASSUME Init PROVE InvitationInv
  OBVIOUS
<1>1. rows = <<>> /\ claimed = <<>> /\ now = 0 /\ raced = {} /\ request = [w \in Workers |-> Idle]
  BY DEF Init
<1>2. rows \in Seq(Row) /\ claimed \in Seq(Nat) /\ Len(rows) = 0 /\ Len(claimed) = 0
  BY <1>1, EmptySeq
<1>3. \A w \in Workers : request[w] \in Requests(Len(rows)) /\ request[w].kind = "idle"
  BY <1>1, IdleIsRequest
<1>4. Typed
  BY <1>1, <1>2, <1>3 DEF Typed
<1>5. 1 .. Len(rows) = {}
  BY <1>2
<1> QED BY <1>3, <1>4, <1>5 DEF InvitationInv, LinesInv, SlotsInv

LEMMA InvitationUnchanged ==
  ASSUME InvitationInv, UNCHANGED invitationVars
  PROVE  InvitationInv'
<1>1. rows' = rows /\ request' = request /\ now' = now /\ claimed' = claimed /\ raced' = raced
  BY DEF invitationVars
<1> QED BY <1>1 DEF InvitationInv, Typed, LinesInv, SlotsInv, Active, Counts

LEMMA InvitationStep ==
  ASSUME InvitationInv, [Next]_invitationVars
  PROVE  InvitationInv' /\ Persists
<1>0. ASSUME UNCHANGED <<rows, claimed>>, now' = now \/ now' = now + 1
      PROVE  Persists
  BY <1>0, SameRowsPersist DEF InvitationInv
<1>1. CASE UNCHANGED invitationVars
  BY <1>0, <1>1, InvitationUnchanged DEF invitationVars
<1>2. CASE Tick
  BY <1>0, <1>2, TickStep DEF Tick
<1>3. ASSUME NEW w \in Workers, NEW user \in Users, NEW slot \in Slots, ReadCreate(w, user, slot)
      PROVE  InvitationInv' /\ Persists
  BY <1>0, <1>3, ReadCreateStep DEF ReadCreate, Reads
<1>4. ASSUME NEW w \in Workers, NEW user \in Users, NEW i \in Ids,
             ReadClaim(w, user, i) \/ ReadRotate(w, user, i) \/ ReadRevoke(w, user, i)
      PROVE  InvitationInv' /\ Persists
  <2>1. PICK k \in {"claim", "rotate", "revoke"} : Reads(w, [kind |-> k, id |-> i]) /\ raced' = raced
    BY <1>4 DEF ReadClaim, ReadRotate, ReadRevoke
  <2>2. PICK r : r = [kind |-> k, id |-> i]
    OBVIOUS
  <2>3. i \in 1 .. Len(rows)
    BY TableTyped DEF InvitationInv
  <2>4. r \in Requests(Len(rows)) /\ r.kind # "create"
    BY <2>2, <2>3 DEF Requests
  <2>5. Persists
    BY <1>0, <2>1 DEF Reads
  <2> QED BY <2>1, <2>2, <2>4, <2>5, ReadQuietly
<1>5. ASSUME NEW w \in Workers,
             WriteCreate(w) \/ WriteClaim(w) \/ WriteRotate(w) \/ WriteRevoke(w) \/ Abort(w)
      PROVE  InvitationInv' /\ Persists
  <2>1. Abort(w) => Persists
    BY <1>0 DEF Abort
  <2> QED BY <1>5, <2>1, WriteCreateStep, WriteClaimStep, WriteRotateStep, WriteRevokeStep, AbortStep
<1> QED BY <1>1, <1>2, <1>3, <1>4, <1>5 DEF Next

-----------------------------------------------------------------------------
(* The pages                                                               *)

Reviews == {"unknown", "valid_disconnected", "wrong_wallet", "valid_wallet_matched",
            "invalid", "expired", "revoked", "rotated", "already_claimed"}

TabRecord == [token : Nat, review : Reviews, asked : BOOLEAN,
              claim : {"idle", "pending", "success"}, joinedAs : Users \cup {Nobody}]

(* What a tab was told of its link is still true, and so is that it        *)
(* joined.                                                                 *)
TruthTold(tab) ==
  LET row == rows[tab.token]
  IN  /\ tab.review = "invalid" => deleted
      /\ tab.review \in {"expired", "revoked", "rotated", "already_claimed"} => ~ Active(row)
      /\ tab.review = "rotated" => row.supersededBy # 0
      /\ tab.review = "revoked" => row.revoked /\ row.supersededBy = 0
      /\ tab.review = "already_claimed" => claimed[tab.token] = 1
      /\ tab.claim = "success" => claimed[tab.token] = 1 /\ tab.joinedAs = row.slot.wallet

SoundTab(tab) ==
  /\ tab \in TabRecord
  /\ tab = NoLink \/ (tab.token \in 1 .. Len(rows) /\ TruthTold(tab))

(* Worker w claims what the tab is waiting for.                            *)
ClaimsFor(w, tab) ==
  /\ tab.claim = "pending" /\ tab.token \in 1 .. Len(rows)
  /\ request[w] = [kind |-> "claim", id |-> tab.token]
  /\ tab.joinedAs = rows[tab.token].slot.wallet

PagesInv ==
  /\ asker \in [Workers -> Tabs \cup {Panel, Others, Nobody}]
  /\ links \subseteq 1 .. Len(rows)
  /\ panel.issued \in 0 .. Len(rows)
  /\ DOMAIN tabs = Tabs /\ tabs = [t \in Tabs |-> tabs[t]]
  /\ \A t \in Tabs : SoundTab(tabs[t])
  /\ \A w \in Workers : asker[w] \in Tabs =>
       /\ ClaimsFor(w, tabs[asker[w]])
       /\ \A v \in Workers : asker[v] = asker[w] => v = w

AllInv == InvitationInv /\ PagesInv

LEMMA TabFields ==
  ASSUME NEW b \in TabRecord
  PROVE  /\ b = [token |-> b.token, review |-> b.review, asked |-> b.asked,
                 claim |-> b.claim, joinedAs |-> b.joinedAs]
         /\ b.token \in Nat /\ b.review \in Reviews /\ b.asked \in BOOLEAN
         /\ b.claim \in {"idle", "pending", "success"} /\ b.joinedAs \in Users \cup {Nobody}
BY DEF TabRecord

LEMMA NoLinkSound ==
  /\ SoundTab(NoLink) /\ NoLink.token = 0 /\ NoLink.claim = "idle" /\ NoLink.review = "unknown"
  /\ NoLink.asked = FALSE
BY DEF SoundTab, NoLink, TabRecord, Reviews

(* What was true of a link stays true.                                     *)
LEMMA TabPersists ==
  ASSUME InvitationInv, Persists, deleted => deleted', NEW tab, SoundTab(tab)
  PROVE  SoundTab(tab)'
<1>1. CASE tab = NoLink
  BY <1>1 DEF SoundTab
<1>2. CASE tab # NoLink
  <2>1. PICK i : i = tab.token
    OBVIOUS
  <2>2. i \in 1 .. Len(rows) /\ TruthTold(tab) /\ tab \in TabRecord
    BY <1>2, <2>1 DEF SoundTab
  <2>3. i \in 1 .. Len(rows')
    BY <2>2 DEF Persists
  <2>4. /\ rows'[i].slot = rows[i].slot
        /\ Active(rows[i])' => Active(rows[i])
        /\ rows[i].revoked => rows'[i].revoked /\ rows'[i].supersededBy = rows[i].supersededBy
        /\ rows[i].supersededBy # 0 => rows'[i].supersededBy # 0
        /\ claimed[i] = 1 => claimed'[i] = 1
    BY <2>2 DEF Persists
  <2>5. TruthTold(tab)'
    BY <2>1, <2>2, <2>4 DEF TruthTold
  <2> QED BY <2>1, <2>2, <2>3, <2>5 DEF SoundTab
<1> QED BY <1>1, <1>2

(* What the server answers is true when it answers.                        *)
LEMMA ReviewIsTrue ==
  ASSUME InvitationInv, NEW i \in 1 .. Len(rows), NEW session,
         NEW review, review = Review(rows[i], session)
  PROVE  /\ review \in Reviews
         /\ review = "invalid" => deleted
         /\ review \in {"expired", "revoked", "rotated", "already_claimed"} => ~ Active(rows[i])
         /\ review = "rotated" => rows[i].supersededBy # 0
         /\ review = "revoked" => rows[i].revoked /\ rows[i].supersededBy = 0
         /\ review = "already_claimed" => claimed[i] = 1
<1>1. rows[i].expiresAt \in Nat /\ now \in Nat
  BY RowTyped DEF InvitationInv, Typed
<1>2. claimed[i] = IF rows[i].used THEN 1 ELSE 0
  BY DEF InvitationInv, LinesInv
<1>3. /\ State(rows[i]) \in {"rotated", "revoked", "already_claimed", "expired", "active"}
      /\ State(rows[i]) # "active" => ~ Active(rows[i])
      /\ State(rows[i]) = "rotated" => rows[i].supersededBy # 0
      /\ State(rows[i]) = "revoked" => rows[i].revoked /\ rows[i].supersededBy = 0
      /\ State(rows[i]) = "already_claimed" => rows[i].used
  BY <1>1 DEF State, Active
<1>4. CASE State(rows[i]) # "active"
  BY <1>2, <1>3, <1>4 DEF Review, Reviews
<1>5. CASE State(rows[i]) = "active"
  BY <1>5 DEF Review, Reviews
<1> QED BY <1>4, <1>5

SameClaim(a, b) == a.token = b.token /\ a.claim = b.claim /\ a.joinedAs = b.joinedAs

(* A step keeps PagesInv if each tab it changes is sound, and no request   *)
(* of a tab begins and none ends unnoticed.                                *)
LEMMA PagesKept ==
  ASSUME AllInv, Persists, deleted => deleted',
         asker' \in [Workers -> Tabs \cup {Panel, Others, Nobody}],
         links' \subseteq 1 .. Len(rows'), panel'.issued \in 0 .. Len(rows'),
         DOMAIN tabs' = Tabs, tabs' = [t \in Tabs |-> tabs'[t]],
         \A t \in Tabs : tabs'[t] = tabs[t] \/ SoundTab(tabs[t])',
         \A w \in Workers : asker'[w] \in Tabs =>
           /\ asker'[w] = asker[w] /\ request'[w] = request[w]
           /\ SameClaim(tabs'[asker[w]], tabs[asker[w]])
  PROVE  PagesInv'
<1>1. ASSUME NEW t \in Tabs PROVE SoundTab(tabs[t])'
  <2>1. PICK tab : tab = tabs[t]
    OBVIOUS
  <2>2. SoundTab(tab)
    BY <2>1 DEF AllInv, PagesInv
  <2>3. SoundTab(tab)'
    BY <2>2, TabPersists DEF AllInv
  <2>4. tabs'[t] = tabs[t] => SoundTab(tabs[t])'
    BY <2>1, <2>3 DEF SoundTab, TruthTold
  <2> QED BY <2>4
<1>2. ASSUME NEW w \in Workers, asker'[w] \in Tabs
      PROVE  /\ ClaimsFor(w, tabs[asker[w]])'
             /\ \A v \in Workers : asker'[v] = asker'[w] => v = w
  <2>1. /\ asker'[w] = asker[w] /\ request'[w] = request[w]
        /\ SameClaim(tabs'[asker[w]], tabs[asker[w]])
    BY <1>2
  <2>2. ClaimsFor(w, tabs[asker[w]]) /\ \A v \in Workers : asker[v] = asker[w] => v = w
    BY <1>2, <2>1 DEF AllInv, PagesInv
  <2>3. \A v \in Workers : asker'[v] = asker'[w] => v = w
    BY <1>2, <2>1, <2>2
  <2>4. PICK i \in 1 .. Len(rows) : i = tabs[asker[w]].token
    BY <2>2 DEF ClaimsFor
  <2>5. i \in 1 .. Len(rows') /\ rows'[i].slot = rows[i].slot
    BY DEF Persists
  <2>6. ClaimsFor(w, tabs[asker[w]])'
    BY <2>1, <2>2, <2>4, <2>5 DEF ClaimsFor, SameClaim
  <2> QED BY <2>3, <2>6
<1> QED BY <1>1, <1>2 DEF PagesInv

-----------------------------------------------------------------------------
(* Whatever the pages do, it is a step of the backend or none.             *)
LEMMA PagesStepIsStep ==
  ASSUME AllInv, [InvitationPagesNext]_invitationPagesVars
  PROVE  [Next]_invitationVars
<1>0. links \subseteq Ids /\ Creator \in Users /\ Ids = 1 .. Len(rows)
  BY TableTyped, InvitationsAssumption DEF AllInv, PagesInv, InvitationInv
<1>1. CASE UNCHANGED invitationPagesVars
  BY <1>1 DEF invitationPagesVars
<1>2. ASSUME NEW w \in Workers, Finish(w) PROVE Next
  BY <1>2 DEF Finish, Next
<1>3. ASSUME NEW w \in Workers, OtherClient(w) PROVE Next
  BY <1>0, <1>3 DEF OtherClient, Next
<1>4. ASSUME NEW w \in Workers, NEW slot \in Slots, CreateInvitation(w, slot) PROVE Next
  BY <1>0, <1>4 DEF CreateInvitation, Next
<1>5. ASSUME NEW w \in Workers, NEW t \in Tabs, NEW session \in Sessions, Join(w, t, session)
      PROVE  Next
  <2>1. PICK i : i = tabs[t].token
    OBVIOUS
  <2>2. ReadClaim(w, session, i) /\ tabs[t].review = "valid_wallet_matched"
    BY <1>5, <2>1 DEF Join
  <2>3. SoundTab(tabs[t])
    BY DEF AllInv, PagesInv
  <2>4. i \in Ids
    BY <1>0, <2>1, <2>2, <2>3, NoLinkSound DEF SoundTab
  <2>5. rows[i].slot \in Slots /\ session = rows[i].slot.wallet
    BY <1>0, <2>2, <2>4, RowTyped DEF ReadClaim, AllInv, InvitationInv
  <2>6. session \in Users
    BY <2>5, InvitationsAssumption
  <2> QED BY <2>2, <2>4, <2>6 DEF Next
<1>6. DeleteDraft \/ CopyLink \/ LeavePanel => UNCHANGED invitationVars
  BY DEF DeleteDraft, CopyLink, LeavePanel
<1>7. ASSUME NEW t \in Tabs, (\E i \in links : OpenLink(t, i)) \/ ComeBack(t) \/ ReviewArrives(t)
      PROVE  UNCHANGED invitationVars
  BY <1>7 DEF OpenLink, ComeBack, ReviewArrives
<1>8. Tick => Next
  BY DEF Next
<1> QED BY <1>1, <1>2, <1>3, <1>4, <1>5, <1>6, <1>7, <1>8 DEF InvitationPagesNext

-----------------------------------------------------------------------------
(* What each step does to the pages                                        *)

(* The invariants' facts that the steps below use.                         *)
LEMMA PagesTyped ==
  ASSUME AllInv
  PROVE  /\ asker \in [Workers -> Tabs \cup {Panel, Others, Nobody}]
         /\ links \subseteq 1 .. Len(rows) /\ panel.issued \in 0 .. Len(rows)
         /\ DOMAIN tabs = Tabs /\ tabs = [t \in Tabs |-> tabs[t]]
         /\ Len(rows) \in Nat
         /\ \A t \in Tabs : SoundTab(tabs[t]) /\ tabs[t] \in TabRecord
BY TableTyped DEF AllInv, PagesInv, InvitationInv, SoundTab

LEMMA LinksPersist ==
  ASSUME AllInv, Persists, InvitationInv'
  PROVE  /\ links \subseteq 1 .. Len(rows') /\ panel.issued \in 0 .. Len(rows')
         /\ Len(rows') \in Nat /\ Ids' = 1 .. Len(rows')
<1>1. Len(rows') \in Nat /\ Ids' = 1 .. Len(rows')
  <2>1. rows' \in Seq(Row)
    BY DEF InvitationInv, Typed
  <2> QED BY <2>1, LenProperties DEF Ids
<1>2. Len(rows) \in Nat /\ Len(rows) <= Len(rows')
  BY PagesTyped DEF Persists
<1>3. 1 .. Len(rows) \subseteq 1 .. Len(rows') /\ 0 .. Len(rows) \subseteq 0 .. Len(rows')
  BY <1>1, <1>2
<1> QED BY <1>1, <1>3, PagesTyped

(* A worker that is not idle for a tab claims for it.                      *)
LEMMA WorkerOfTab ==
  ASSUME AllInv, NEW w \in Workers, asker[w] \in Tabs
  PROVE  /\ request[w] # Idle /\ request[w].kind = "claim"
         /\ request[w].id = tabs[asker[w]].token /\ request[w].id \in 1 .. Len(rows)
         /\ tabs[asker[w]].claim = "pending"
         /\ tabs[asker[w]].joinedAs = rows[request[w].id].slot.wallet
         /\ \A v \in Workers : asker[v] = asker[w] => v = w
<1>1. ClaimsFor(w, tabs[asker[w]]) /\ \A v \in Workers : asker[v] = asker[w] => v = w
  BY DEF AllInv, PagesInv
<1> QED BY <1>1 DEF ClaimsFor, Idle

(* A step that leaves the tabs and those who ask for them alone.           *)
LEMMA TabsUntouched ==
  ASSUME AllInv, Persists, InvitationInv', deleted => deleted', UNCHANGED <<asker, tabs>>,
         links' \subseteq 1 .. Len(rows'), panel'.issued \in 0 .. Len(rows'),
         \A w \in Workers : request[w] # Idle => request'[w] = request[w]
  PROVE  PagesInv'
<1>1. asker' = asker /\ tabs' = tabs
  OBVIOUS
<1>2. \A w \in Workers : asker'[w] \in Tabs =>
        /\ asker'[w] = asker[w] /\ request'[w] = request[w]
        /\ SameClaim(tabs'[asker[w]], tabs[asker[w]])
  BY <1>1, WorkerOfTab DEF SameClaim
<1>3. /\ asker' \in [Workers -> Tabs \cup {Panel, Others, Nobody}]
      /\ DOMAIN tabs' = Tabs /\ tabs' = [t \in Tabs |-> tabs'[t]]
      /\ \A t \in Tabs : tabs'[t] = tabs[t] \/ SoundTab(tabs[t])'
  BY <1>1, PagesTyped
<1> QED BY <1>2, <1>3, PagesKept

(* A click on "Join" sends a claim that the server takes for one.          *)
LEMMA JoinStep ==
  ASSUME AllInv, InvitationInv', Persists, NEW w \in Workers, NEW t \in Tabs, NEW session \in Sessions,
         Join(w, t, session)
  PROVE  PagesInv'
<1>1. PICK b : b = tabs[t]
  OBVIOUS
<1>2. PICK i : i = b.token
  OBVIOUS
<1>3. PICK e : e = [b EXCEPT !.claim = "pending", !.joinedAs = session]
  OBVIOUS
<1>4. /\ b.review = "valid_wallet_matched" /\ b.claim = "idle"
      /\ rows[i].slot.wallet = session /\ request[w] = Idle
      /\ request' = [request EXCEPT ![w] = [kind |-> "claim", id |-> i]]
      /\ asker' = [asker EXCEPT ![w] = t]
      /\ tabs' = [tabs EXCEPT ![t] = e]
      /\ UNCHANGED <<panel, links, deleted>> /\ rows' = rows /\ claimed' = claimed
  BY <1>1, <1>2, <1>3 DEF Join, ReadClaim, Reads, TabStep
<1>5. SoundTab(b) /\ b \in TabRecord /\ DOMAIN tabs = Tabs /\ tabs = [u \in Tabs |-> tabs[u]]
  BY <1>1, PagesTyped
<1>6. i \in 1 .. Len(rows) /\ TruthTold(b)
  BY <1>2, <1>4, <1>5, NoLinkSound DEF SoundTab
<1>7. /\ e \in TabRecord /\ e.token = i /\ e.review = b.review /\ e.claim = "pending"
      /\ e.joinedAs = session
  <2>1. /\ b = [token |-> b.token, review |-> b.review, asked |-> b.asked,
                claim |-> b.claim, joinedAs |-> b.joinedAs]
        /\ b.token \in Nat /\ b.review \in Reviews /\ b.asked \in BOOLEAN
    BY <1>5, TabFields
  <2>2. e = [token |-> b.token, review |-> b.review, asked |-> b.asked,
             claim |-> "pending", joinedAs |-> session]
    BY ONLY <1>3, <2>1
  <2> QED BY ONLY <1>2, <2>1, <2>2, session \in Sessions DEF TabRecord, Sessions
<1>8. SoundTab(e)
  BY <1>2, <1>4, <1>6, <1>7 DEF SoundTab, TruthTold
<1>9. SoundTab(e)'
  BY <1>4, <1>8, TabPersists DEF AllInv
<1>10. tabs'[t] = e /\ (\A u \in Tabs \ {t} : tabs'[u] = tabs[u]) /\ DOMAIN tabs' = Tabs
       /\ tabs' = [u \in Tabs |-> tabs'[u]]
  BY ONLY <1>4, <1>5, t \in Tabs
<1>11. \A u \in Tabs : SoundTab(tabs[u])'
  <2> TAKE u \in Tabs
  <2>1. CASE u = t
    BY <1>9, <1>10, <2>1 DEF SoundTab, TruthTold
  <2>2. CASE u # t
    <3>1. PICK tab : tab = tabs[u]
      OBVIOUS
    <3>2. SoundTab(tab)'
      BY <1>4, <3>1, PagesTyped, TabPersists DEF AllInv
    <3> QED BY <1>10, <2>2, <3>1, <3>2 DEF SoundTab, TruthTold
  <2> QED BY <2>1, <2>2
<1>12. asker \in [Workers -> Tabs \cup {Panel, Others, Nobody}]
  BY PagesTyped
<1>13. /\ asker' \in [Workers -> Tabs \cup {Panel, Others, Nobody}]
       /\ asker'[w] = t /\ \A v \in Workers \ {w} : asker'[v] = asker[v]
  BY ONLY <1>4, <1>12, t \in Tabs, w \in Workers
<1>14. /\ request'[w] = [kind |-> "claim", id |-> i]
       /\ \A v \in Workers \ {w} : request'[v] = request[v]
  <2>1. request \in [Workers -> Requests(Len(rows))]
    BY DEF AllInv, InvitationInv, Typed
  <2> QED BY ONLY <1>4, <2>1, w \in Workers
<1>15. ASSUME NEW v \in Workers, asker'[v] \in Tabs
       PROVE  /\ ClaimsFor(v, tabs[asker[v]])'
              /\ \A u \in Workers : asker'[u] = asker'[v] => u = v
  <2>1. \A u \in Workers \ {w} : asker[u] # t
    BY <1>1, <1>4, WorkerOfTab
  <2>2. CASE v = w
    <3>1. \A u \in Workers : asker'[u] = asker'[v] => u = v
      BY <1>13, <2>1, <2>2
    <3>2. ClaimsFor(v, tabs[asker[v]])'
      BY <1>4, <1>6, <1>7, <1>10, <1>13, <1>14, <2>2 DEF ClaimsFor
    <3> QED BY <3>1, <3>2
  <2>3. CASE v # w
    <3>1. asker'[v] = asker[v] /\ asker[v] \in Tabs /\ asker[v] # t /\ request'[v] = request[v]
      BY <1>13, <1>14, <1>15, <2>1, <2>3
    <3>2. ClaimsFor(v, tabs[asker[v]]) /\ \A u \in Workers : asker[u] = asker[v] => u = v
      BY <3>1 DEF AllInv, PagesInv
    <3>3. tabs'[asker[v]] = tabs[asker[v]]
      BY <1>10, <3>1
    <3>4. ClaimsFor(v, tabs[asker[v]])'
      BY <1>4, <3>1, <3>2, <3>3 DEF ClaimsFor
    <3>5. \A u \in Workers : asker'[u] = asker'[v] => u = v
      BY <1>13, <3>1, <3>2
    <3> QED BY <3>4, <3>5
  <2> QED BY <2>2, <2>3
<1>16. links' \subseteq 1 .. Len(rows') /\ panel'.issued \in 0 .. Len(rows')
  BY <1>4, PagesTyped
<1> QED BY <1>10, <1>11, <1>13, <1>15, <1>16 DEF PagesInv

(* A tab shows another answer, or asks again, or is another page: a step   *)
(* of the tab t that keeps the table.                                      *)
LEMMA TabStepKept ==
  ASSUME AllInv, InvitationInv', UNCHANGED <<invitationVars, deleted, links, panel>>,
         NEW t \in Tabs, NEW e, SoundTab(e), tabs' = [tabs EXCEPT ![t] = e],
         asker' \in [Workers -> Tabs \cup {Panel, Others, Nobody}],
         \A w \in Workers : asker'[w] \in Tabs => asker'[w] = asker[w],
         SameClaim(e, tabs[t]) \/ \A w \in Workers : asker'[w] # t
  PROVE  PagesInv'
<1>1. /\ rows' = rows /\ request' = request /\ now' = now /\ claimed' = claimed
      /\ deleted' = deleted /\ links' = links /\ panel' = panel
  BY DEF invitationVars
<1>2. Persists
  BY <1>1, SameRowsPersist DEF AllInv, InvitationInv
<1>3. DOMAIN tabs = Tabs /\ tabs = [u \in Tabs |-> tabs[u]]
  BY PagesTyped
<1>4. tabs'[t] = e /\ (\A u \in Tabs \ {t} : tabs'[u] = tabs[u]) /\ DOMAIN tabs' = Tabs
      /\ tabs' = [u \in Tabs |-> tabs'[u]]
  BY ONLY <1>3, t \in Tabs, tabs' = [tabs EXCEPT ![t] = e]
<1>5. SoundTab(e)'
  BY <1>1, <1>2, TabPersists DEF AllInv
<1>6. \A u \in Tabs : tabs'[u] = tabs[u] \/ SoundTab(tabs[u])'
  <2> TAKE u \in Tabs
  <2>1. CASE u = t
    BY <1>4, <1>5, <2>1 DEF SoundTab, TruthTold
  <2>2. CASE u # t
    BY <1>4, <2>2
  <2> QED BY <2>1, <2>2
<1>7. \A w \in Workers : asker'[w] \in Tabs =>
        /\ asker'[w] = asker[w] /\ request'[w] = request[w]
        /\ SameClaim(tabs'[asker[w]], tabs[asker[w]])
  <2> SUFFICES ASSUME NEW w \in Workers, asker'[w] \in Tabs
               PROVE  SameClaim(tabs'[asker[w]], tabs[asker[w]])
    BY <1>1
  <2>1. CASE asker[w] = t
    BY <1>4, <2>1
  <2>2. CASE asker[w] # t
    BY <1>4, <2>2 DEF SameClaim
  <2> QED BY <2>1, <2>2
<1>8. links' \subseteq 1 .. Len(rows') /\ panel'.issued \in 0 .. Len(rows')
  BY <1>1, PagesTyped
<1> QED BY <1>1, <1>2, <1>4, <1>6, <1>7, <1>8, PagesKept

LEMMA OpenLinkStep ==
  ASSUME AllInv, InvitationInv', NEW t \in Tabs, NEW i \in links, OpenLink(t, i)
  PROVE  PagesInv'
<1>1. PICK e : e = [NoLink EXCEPT !.token = i, !.asked = TRUE]
  OBVIOUS
<1>2. /\ tabs' = [tabs EXCEPT ![t] = e] /\ asker' = HandedOver(t, Others)
      /\ UNCHANGED <<invitationVars, deleted, links, panel>>
  BY <1>1 DEF OpenLink, TabStep
<1>3. i \in 1 .. Len(rows) /\ Len(rows) \in Nat
  BY PagesTyped
<1>4. e = [token |-> i, review |-> "unknown", asked |-> TRUE, claim |-> "idle", joinedAs |-> Nobody]
  BY <1>1 DEF NoLink
<1>5. SoundTab(e)
  BY <1>3, <1>4 DEF SoundTab, TruthTold, TabRecord, Reviews
<1>6. asker \in [Workers -> Tabs \cup {Panel, Others, Nobody}]
  BY PagesTyped
<1>7. /\ asker' \in [Workers -> Tabs \cup {Panel, Others, Nobody}]
      /\ \A w \in Workers : asker'[w] \in Tabs => asker'[w] = asker[w] /\ asker'[w] # t
  BY <1>2, <1>6, InvitationPagesAssumption DEF HandedOver
<1> QED BY <1>2, <1>5, <1>7, TabStepKept

LEMMA ComeBackStep ==
  ASSUME AllInv, InvitationInv', NEW t \in Tabs, ComeBack(t)
  PROVE  PagesInv'
<1>1. PICK b : b = tabs[t]
  OBVIOUS
<1>2. PICK e : e = [b EXCEPT !.asked = TRUE, !.claim = "idle", !.joinedAs = Nobody]
  OBVIOUS
<1>3. /\ b.token # 0 /\ tabs' = [tabs EXCEPT ![t] = e] /\ asker' = HandedOver(t, Others)
      /\ UNCHANGED <<invitationVars, deleted, links, panel>>
  BY <1>1, <1>2 DEF ComeBack, TabStep
<1>4. SoundTab(b) /\ b \in TabRecord
  BY <1>1, PagesTyped
<1>5. b.token \in 1 .. Len(rows) /\ TruthTold(b)
  BY <1>3, <1>4, NoLinkSound DEF SoundTab
<1>6. /\ b = [token |-> b.token, review |-> b.review, asked |-> b.asked,
              claim |-> b.claim, joinedAs |-> b.joinedAs]
      /\ b.token \in Nat /\ b.review \in Reviews
  BY <1>4, TabFields
<1>7. e = [token |-> b.token, review |-> b.review, asked |-> TRUE,
           claim |-> "idle", joinedAs |-> Nobody]
  BY ONLY <1>2, <1>6
<1>8. SoundTab(e)
  BY <1>5, <1>6, <1>7 DEF SoundTab, TruthTold, TabRecord
<1>9. asker \in [Workers -> Tabs \cup {Panel, Others, Nobody}]
  BY PagesTyped
<1>10. /\ asker' \in [Workers -> Tabs \cup {Panel, Others, Nobody}]
       /\ \A w \in Workers : asker'[w] \in Tabs => asker'[w] = asker[w] /\ asker'[w] # t
  BY <1>3, <1>9, InvitationPagesAssumption DEF HandedOver
<1> QED BY <1>3, <1>8, <1>10, TabStepKept

LEMMA ReviewArrivesStep ==
  ASSUME AllInv, InvitationInv', NEW t \in Tabs, ReviewArrives(t)
  PROVE  PagesInv'
<1>1. PICK b : b = tabs[t]
  OBVIOUS
<1>2. PICK session \in Sessions :
        \E review \in {Review(rows[b.token], session), "unknown"} :
          tabs' = [tabs EXCEPT ![t].review = review, ![t].asked = FALSE]
  BY <1>1 DEF ReviewArrives
<1>3. PICK review \in {Review(rows[b.token], session), "unknown"} :
        tabs' = [tabs EXCEPT ![t].review = review, ![t].asked = FALSE]
  BY <1>2
<1>4. PICK e : e = [b EXCEPT !.review = review, !.asked = FALSE]
  OBVIOUS
<1>5. /\ b.asked /\ tabs' = [tabs EXCEPT ![t] = e] /\ asker' = asker
      /\ UNCHANGED <<invitationVars, deleted, links, panel>>
  BY <1>1, <1>3, <1>4 DEF ReviewArrives, TabStep
<1>6. SoundTab(b) /\ b \in TabRecord
  BY <1>1, PagesTyped
<1>7. b.token \in 1 .. Len(rows) /\ TruthTold(b)
  BY <1>5, <1>6, NoLinkSound DEF SoundTab
<1>8. /\ b = [token |-> b.token, review |-> b.review, asked |-> b.asked,
              claim |-> b.claim, joinedAs |-> b.joinedAs]
      /\ b.token \in Nat /\ b.claim \in {"idle", "pending", "success"} /\ b.joinedAs \in Users \cup {Nobody}
  BY <1>6, TabFields
<1>9. e = [token |-> b.token, review |-> review, asked |-> FALSE,
           claim |-> b.claim, joinedAs |-> b.joinedAs]
  BY ONLY <1>4, <1>8
<1>10. /\ review \in Reviews
       /\ review = "invalid" => deleted
       /\ review \in {"expired", "revoked", "rotated", "already_claimed"} => ~ Active(rows[b.token])
       /\ review = "rotated" => rows[b.token].supersededBy # 0
       /\ review = "revoked" => rows[b.token].revoked /\ rows[b.token].supersededBy = 0
       /\ review = "already_claimed" => claimed[b.token] = 1
  <2>1. CASE review = "unknown"
    BY <2>1 DEF Reviews
  <2>2. CASE review = Review(rows[b.token], session)
    BY <1>7, <2>2, ReviewIsTrue DEF AllInv
  <2> QED BY <2>1, <2>2
<1>11. TruthTold(e)
  BY <1>7, <1>9, <1>10 DEF TruthTold
<1>12. SoundTab(e) /\ SameClaim(e, tabs[t])
  BY <1>1, <1>7, <1>8, <1>9, <1>10, <1>11 DEF SoundTab, TabRecord, SameClaim
<1>13. /\ asker' \in [Workers -> Tabs \cup {Panel, Others, Nobody}]
       /\ \A w \in Workers : asker'[w] \in Tabs => asker'[w] = asker[w]
  BY <1>5, PagesTyped
<1> QED BY <1>5, <1>12, <1>13, TabStepKept

(* A claim that committed has claimed its row.                             *)
LEMMA ClaimCommitted ==
  ASSUME AllInv, NEW w \in Workers, request[w].kind = "claim", rows' # rows,
         WriteCreate(w) \/ WriteClaim(w) \/ WriteRotate(w) \/ WriteRevoke(w) \/ Abort(w)
  PROVE  claimed'[request[w].id] = 1
<1>1. WriteClaim(w)
  BY DEF WriteCreate, WriteRotate, WriteRevoke, Writes, Abort
<1>2. PICK i \in 1 .. Len(rows) : i = request[w].id
  BY RequestKinds DEF AllInv, InvitationInv
<1>3. claimed[i] = 0 /\ claimed \in Seq(Nat) /\ i \in 1 .. Len(claimed)
  <2>1. ~ rows[i].used
    BY <1>1, <1>2 DEF WriteClaim, Claimable
  <2>2. claimed[i] = IF rows[i].used THEN 1 ELSE 0
    BY DEF AllInv, InvitationInv, LinesInv
  <2> QED BY <2>1, <2>2 DEF AllInv, InvitationInv, Typed
<1>4. claimed' = [claimed EXCEPT ![i] = claimed[i] + 1]
  BY <1>1, <1>2 DEF WriteClaim
<1>5. claimed \in [1 .. Len(claimed) -> Nat]
  BY <1>3, LenProperties
<1>6. claimed'[i] = 0 + 1
  BY ONLY <1>3, <1>4, <1>5
<1> QED BY <1>2, <1>6

LEMMA WritersLeaveOthers ==
  ASSUME AllInv, NEW w \in Workers,
         WriteCreate(w) \/ WriteClaim(w) \/ WriteRotate(w) \/ WriteRevoke(w) \/ Abort(w)
  PROVE  \A v \in Workers \ {w} : request'[v] = request[v]
<1>1. request' = [request EXCEPT ![w] = Idle]
  BY DEF WriteCreate, WriteClaim, WriteRotate, WriteRevoke, Writes, Abort
<1>2. request \in [Workers -> Requests(Len(rows))]
  BY DEF AllInv, InvitationInv, Typed
<1> QED BY <1>1, <1>2

(* A request ends, and whoever asked for it hears of it or does not.       *)
LEMMA FinishStep ==
  ASSUME AllInv, InvitationInv', Persists, NEW w \in Workers, Finish(w)
  PROVE  PagesInv'
<1>1. /\ WriteCreate(w) \/ WriteClaim(w) \/ WriteRotate(w) \/ WriteRevoke(w) \/ Abort(w)
      /\ Tells(w) /\ deleted' = deleted /\ asker' = [asker EXCEPT ![w] = Others]
  BY DEF Finish, Tells
<1>2. asker \in [Workers -> Tabs \cup {Panel, Others, Nobody}] /\ Others \notin Tabs
  BY PagesTyped, InvitationPagesAssumption
<1>3. /\ asker' \in [Workers -> Tabs \cup {Panel, Others, Nobody}]
      /\ \A v \in Workers : asker'[v] \in Tabs => v # w /\ asker'[v] = asker[v]
  BY ONLY <1>1, <1>2, w \in Workers
<1>4. /\ links \subseteq 1 .. Len(rows') /\ panel.issued \in 0 .. Len(rows')
      /\ Len(rows') \in Nat /\ DOMAIN rows' = 1 .. Len(rows')
  BY LinksPersist DEF Ids
<1>5. links' \subseteq 1 .. Len(rows')
  BY <1>1, <1>4 DEF Tells
<1>6. panel'.issued \in 0 .. Len(rows')
  <2>1. CASE asker[w] = Panel
    <3>1. PICK issued \in {panel.issued} \cup (DOMAIN rows' \ Ids) :
            panel' = [pending |-> FALSE, issued |-> issued]
      BY <1>1, <2>1 DEF Tells
    <3> QED BY <1>4, <3>1
  <2>2. CASE asker[w] # Panel
    BY <1>1, <1>4, <2>2 DEF Tells
  <2> QED BY <2>1, <2>2
<1>7. \A v \in Workers \ {w} : request'[v] = request[v]
  BY <1>1, WritersLeaveOthers
<1>8. DOMAIN tabs = Tabs /\ tabs = [u \in Tabs |-> tabs[u]]
  BY PagesTyped
<1>9. CASE asker[w] \notin Tabs
  <2>1. tabs' = tabs
    BY <1>1, <1>9 DEF Tells
  <2>2. \A v \in Workers : asker'[v] \in Tabs =>
          /\ asker'[v] = asker[v] /\ request'[v] = request[v]
          /\ SameClaim(tabs'[asker[v]], tabs[asker[v]])
    BY <1>3, <1>7, <2>1 DEF SameClaim
  <2> QED BY <1>1, <1>3, <1>5, <1>6, <1>8, <2>1, <2>2, PagesKept
<1>10. CASE asker[w] \in Tabs
  <2>1. PICK t \in Tabs : t = asker[w]
    BY <1>10
  <2>2. PICK b : b = tabs[t]
    OBVIOUS
  <2>3. PICK claim \in {"idle"} \cup (IF rows' # rows THEN {"success"} ELSE {}) :
          tabs' = [tabs EXCEPT ![t].claim = claim,
                               ![t].joinedAs = IF claim = "idle" THEN Nobody ELSE @]
    BY <1>1, <2>1 DEF Tells
  <2>4. PICK e : e = [b EXCEPT !.claim = claim, !.joinedAs = IF claim = "idle" THEN Nobody ELSE b.joinedAs]
    OBVIOUS
  <2>5. tabs' = [tabs EXCEPT ![t] = e]
    BY <2>2, <2>3, <2>4
  <2>6. /\ request[w].kind = "claim" /\ request[w].id = b.token /\ b.token \in 1 .. Len(rows)
        /\ b.joinedAs = rows[b.token].slot.wallet
        /\ \A v \in Workers : asker[v] = t => v = w
    BY <2>1, <2>2, WorkerOfTab
  <2>7. claim \in {"idle", "success"} /\ (claim = "success" => claimed'[b.token] = 1)
    BY <1>1, <2>3, <2>6, ClaimCommitted
  <2>8. SoundTab(b) /\ b \in TabRecord
    BY <2>2, PagesTyped
  <2>9. SoundTab(b)' /\ b.token \in 1 .. Len(rows') /\ rows'[b.token].slot = rows[b.token].slot
    BY <1>1, <2>6, <2>8, TabPersists DEF AllInv, Persists
  <2>10. /\ b = [token |-> b.token, review |-> b.review, asked |-> b.asked,
                 claim |-> b.claim, joinedAs |-> b.joinedAs]
         /\ b.token \in Nat /\ b.review \in Reviews /\ b.asked \in BOOLEAN
         /\ b.joinedAs \in Users \cup {Nobody}
    BY <2>8, TabFields
  <2>11. PICK as \in Users \cup {Nobody} : as = IF claim = "idle" THEN Nobody ELSE b.joinedAs
    BY <2>10
  <2>12. e = [token |-> b.token, review |-> b.review, asked |-> b.asked, claim |-> claim, joinedAs |-> as]
    BY ONLY <2>4, <2>10, <2>11
  <2>13. e \in TabRecord
    BY ONLY <2>7, <2>10, <2>12 DEF TabRecord
  <2>14. TruthTold(b)'
    BY <2>6, <2>9, NoLinkSound DEF SoundTab
  <2>15. TruthTold(e)'
    <3>1. claim = "success" => as = rows[b.token].slot.wallet
      BY <2>6, <2>11
    <3> QED BY <2>7, <2>9, <2>12, <2>14, <3>1 DEF TruthTold
  <2>16. SoundTab(e)'
    BY <2>9, <2>12, <2>13, <2>15 DEF SoundTab
  <2>17. tabs'[t] = e /\ (\A u \in Tabs \ {t} : tabs'[u] = tabs[u]) /\ DOMAIN tabs' = Tabs
         /\ tabs' = [u \in Tabs |-> tabs'[u]]
    BY ONLY <1>8, <2>5, t \in Tabs
  <2>18. \A u \in Tabs : tabs'[u] = tabs[u] \/ SoundTab(tabs[u])'
    <3> TAKE u \in Tabs
    <3>1. CASE u = t
      BY <2>16, <2>17, <3>1 DEF SoundTab, TruthTold
    <3>2. CASE u # t
      BY <2>17, <3>2
    <3> QED BY <3>1, <3>2
  <2>19. \A v \in Workers : asker'[v] \in Tabs =>
           /\ asker'[v] = asker[v] /\ request'[v] = request[v]
           /\ SameClaim(tabs'[asker[v]], tabs[asker[v]])
    BY <1>3, <1>7, <2>6, <2>17 DEF SameClaim
  <2> QED BY <1>1, <1>3, <1>5, <1>6, <2>17, <2>18, <2>19, PagesKept
<1> QED BY <1>9, <1>10

(* Requests that no tab asked for.                                         *)
LEMMA OtherClientStep ==
  ASSUME AllInv, InvitationInv', Persists, NEW w \in Workers, OtherClient(w)
  PROVE  PagesInv'
<1>1. PICK r : Reads(w, r)
  BY DEF OtherClient, ReadCreate, ReadClaim, ReadRotate, ReadRevoke
<1>2. UNCHANGED <<asker, tabs>> /\ deleted' = deleted /\ links' = links /\ panel' = panel
  BY DEF OtherClient, pageVars
<1>3. request \in [Workers -> Requests(Len(rows))]
  BY DEF AllInv, InvitationInv, Typed
<1>4. \A v \in Workers : request[v] # Idle => request'[v] = request[v]
  BY <1>1, <1>3 DEF Reads
<1> QED BY <1>2, <1>4, LinksPersist, TabsUntouched

LEMMA CreateInvitationStep ==
  ASSUME AllInv, InvitationInv', Persists, NEW w \in Workers, NEW slot, CreateInvitation(w, slot)
  PROVE  PagesInv'
<1>1. /\ request[w] = Idle /\ deleted' = deleted /\ links' = links /\ tabs' = tabs
      /\ asker' = [asker EXCEPT ![w] = Panel] /\ panel' = [panel EXCEPT !.pending = TRUE]
      /\ request' = [request EXCEPT ![w] = [kind |-> "create", slot |-> slot]]
  BY DEF CreateInvitation, ReadCreate, Reads
<1>2. asker \in [Workers -> Tabs \cup {Panel, Others, Nobody}] /\ Panel \notin Tabs
  BY PagesTyped, InvitationPagesAssumption
<1>3. /\ asker' \in [Workers -> Tabs \cup {Panel, Others, Nobody}]
      /\ \A v \in Workers : asker'[v] \in Tabs => v # w /\ asker'[v] = asker[v]
  BY ONLY <1>1, <1>2, w \in Workers
<1>4. \A v \in Workers \ {w} : request'[v] = request[v]
  BY <1>1 DEF AllInv, InvitationInv, Typed
<1>5. \A v \in Workers : asker'[v] \in Tabs =>
        /\ asker'[v] = asker[v] /\ request'[v] = request[v]
        /\ SameClaim(tabs'[asker[v]], tabs[asker[v]])
  BY <1>1, <1>3, <1>4 DEF SameClaim
<1>6. links' \subseteq 1 .. Len(rows') /\ panel'.issued \in 0 .. Len(rows')
  BY <1>1, LinksPersist
<1>7. DOMAIN tabs' = Tabs /\ tabs' = [t \in Tabs |-> tabs'[t]]
  BY <1>1, PagesTyped
<1> QED BY <1>1, <1>3, <1>5, <1>6, <1>7, PagesKept

LEMMA LeavePanelStep ==
  ASSUME AllInv, InvitationInv', Persists, LeavePanel
  PROVE  PagesInv'
<1>1. /\ deleted' = deleted /\ links' = links /\ tabs' = tabs /\ request' = request
      /\ panel' = FreshPanel /\ asker' = HandedOver(Panel, Nobody)
  BY DEF LeavePanel, invitationVars
<1>2. asker \in [Workers -> Tabs \cup {Panel, Others, Nobody}]
  BY PagesTyped
<1>3. /\ asker' \in [Workers -> Tabs \cup {Panel, Others, Nobody}]
      /\ \A v \in Workers : asker'[v] \in Tabs => asker'[v] = asker[v]
  BY <1>1, <1>2, InvitationPagesAssumption DEF HandedOver
<1>4. \A v \in Workers : asker'[v] \in Tabs =>
        /\ asker'[v] = asker[v] /\ request'[v] = request[v]
        /\ SameClaim(tabs'[asker[v]], tabs[asker[v]])
  BY <1>1, <1>3 DEF SameClaim
<1>5. links' \subseteq 1 .. Len(rows') /\ panel'.issued \in 0 .. Len(rows')
  BY <1>1, LinksPersist DEF FreshPanel
<1>6. DOMAIN tabs' = Tabs /\ tabs' = [t \in Tabs |-> tabs'[t]]
  BY <1>1, PagesTyped
<1> QED BY <1>1, <1>3, <1>4, <1>5, <1>6, PagesKept

LEMMA QuietPageStep ==
  ASSUME AllInv, InvitationInv', Persists,
         DeleteDraft \/ CopyLink \/ (Tick /\ UNCHANGED pageVars) \/ UNCHANGED invitationPagesVars
  PROVE  PagesInv'
<1>1. UNCHANGED <<asker, tabs>> /\ (deleted => deleted') /\ request' = request /\ panel' = panel
  BY DEF DeleteDraft, CopyLink, Tick, pageVars, invitationPagesVars, invitationVars
<1>2. links' = links \/ (links' = links \cup {panel.issued} /\ panel.issued # 0)
  BY DEF DeleteDraft, CopyLink, Tick, pageVars, invitationPagesVars
<1>3. links \subseteq 1 .. Len(rows') /\ panel.issued \in 0 .. Len(rows') /\ Len(rows') \in Nat
  BY LinksPersist
<1>4. links' \subseteq 1 .. Len(rows') /\ panel'.issued \in 0 .. Len(rows')
  <2>0. PICK n \in Nat : n = Len(rows')
    BY <1>3
  <2>1. PICK issued \in 0 .. n : issued = panel.issued
    BY <1>3, <2>0
  <2>2. issued # 0 => issued \in 1 .. n
    OBVIOUS
  <2> QED BY <1>1, <1>2, <1>3, <2>0, <2>1, <2>2
<1> QED BY <1>1, <1>4, TabsUntouched

LEMMA AllInit == InvitationPagesInit => AllInv
<1> SUFFICES ASSUME InvitationPagesInit PROVE AllInv
  OBVIOUS
<1>1. InvitationInv
  BY InvitationInit DEF InvitationPagesInit
<1>2. /\ asker = [w \in Workers |-> Others] /\ panel = FreshPanel
      /\ tabs = [t \in Tabs |-> NoLink] /\ links = {} /\ Len(rows) \in Nat
  BY <1>1, TableTyped DEF InvitationPagesInit, InvitationInv
<1>3. \A w \in Workers : asker[w] \notin Tabs
  BY <1>2, InvitationPagesAssumption
<1>4. panel.issued \in 0 .. Len(rows)
  BY <1>2 DEF FreshPanel
<1>5. \A t \in Tabs : SoundTab(tabs[t])
  BY <1>2, NoLinkSound
<1> QED BY <1>1, <1>2, <1>3, <1>4, <1>5 DEF AllInv, PagesInv

LEMMA AllStep ==
  ASSUME AllInv, [InvitationPagesNext]_invitationPagesVars
  PROVE  AllInv'
<1>1. InvitationInv' /\ Persists
  <2>1. [Next]_invitationVars /\ InvitationInv
    BY PagesStepIsStep DEF AllInv
  <2> QED BY ONLY <2>1, InvitationStep
<1>2. UNCHANGED invitationPagesVars => PagesInv'
  BY <1>1, QuietPageStep
<1>3. ASSUME NEW w \in Workers, Finish(w) PROVE PagesInv'
  BY <1>1, <1>3, FinishStep
<1>4. ASSUME NEW w \in Workers, OtherClient(w) PROVE PagesInv'
  BY <1>1, <1>4, OtherClientStep
<1>5. ASSUME NEW w \in Workers, NEW slot \in Slots, CreateInvitation(w, slot) PROVE PagesInv'
  BY <1>1, <1>5, CreateInvitationStep
<1>6. ASSUME NEW w \in Workers, NEW t \in Tabs, NEW session \in Sessions, Join(w, t, session)
      PROVE  PagesInv'
  BY <1>1, <1>6, JoinStep
<1>7. DeleteDraft \/ CopyLink \/ (Tick /\ UNCHANGED pageVars) => PagesInv'
  BY <1>1, QuietPageStep
<1>8. LeavePanel => PagesInv'
  BY <1>1, LeavePanelStep
<1>9. ASSUME NEW t \in Tabs, NEW i \in links, OpenLink(t, i) PROVE PagesInv'
  BY <1>1, <1>9, OpenLinkStep
<1>10. ASSUME NEW t \in Tabs, ComeBack(t) \/ ReviewArrives(t) PROVE PagesInv'
  BY <1>1, <1>10, ComeBackStep, ReviewArrivesStep
<1>11. PagesInv'
  <2>1. ASSUME NEW w \in Workers,
               \/ Finish(w) \/ OtherClient(w)
               \/ \E slot \in Slots : CreateInvitation(w, slot)
               \/ \E t \in Tabs, session \in Sessions : Join(w, t, session)
        PROVE  PagesInv'
    BY ONLY <2>1, <1>3, <1>4, <1>5, <1>6, w \in Workers
  <2>2. ASSUME NEW t \in Tabs,
               \/ \E i \in links : OpenLink(t, i)
               \/ ComeBack(t) \/ ReviewArrives(t)
        PROVE  PagesInv'
    BY ONLY <2>2, <1>9, <1>10, t \in Tabs
  <2>3. CASE InvitationPagesNext
    BY ONLY <2>3, <1>7, <1>8, <2>1, <2>2 DEF InvitationPagesNext
  <2> QED BY <1>2, <2>3
<1> QED BY <1>1, <1>11 DEF AllInv

LEMMA AlwaysAllInv == InvitationPagesSpec => []AllInv
<1>1. InvitationPagesInit => AllInv
  BY AllInit
<1>2. AllInv /\ [InvitationPagesNext]_invitationPagesVars => AllInv'
  BY AllStep
<1> QED BY <1>1, <1>2, PTL DEF InvitationPagesSpec

-----------------------------------------------------------------------------
(* Theorems                                                                *)

(* A link and its replacements are worth one join, whatever requests of    *)
(* however many workers interleave: the guarded UPDATEs of                 *)
(* claim_invitation and rotate_invitation let one of them win.             *)
THEOREM LineIsOneJoin == InvitationPagesSpec => []OneJoinPerLine
<1>1. AllInv => OneJoinPerLine
  <2> SUFFICES ASSUME AllInv, NEW i \in Ids
               PROVE  /\ claimed[i] <= 1
                      /\ \A j \in Ids \ {i} : rows[i].line = rows[j].line =>
                           ~ ((Active(rows[i]) \/ claimed[i] > 0) /\ (Active(rows[j]) \/ claimed[j] > 0))
    BY DEF OneJoinPerLine
  <2>1. Ids = 1 .. Len(rows)
    BY TableTyped DEF AllInv, InvitationInv
  <2>2. \A j \in Ids : /\ claimed[j] = IF rows[j].used THEN 1 ELSE 0
                       /\ Active(rows[j]) \/ claimed[j] > 0 => Counts(rows[j])
    BY <2>1 DEF AllInv, InvitationInv, LinesInv, Active, Counts
  <2>3. \A j \in Ids : rows[i].line = rows[j].line /\ Counts(rows[i]) /\ Counts(rows[j]) => i = j
    BY <2>1 DEF AllInv, InvitationInv, LinesInv
  <2> QED BY <2>2, <2>3
<1> QED BY <1>1, AlwaysAllInv, PTL

(* Two usable tokens of one participant do not coexist, unless two         *)
(* creations raced or an expired token was rotated: the two ways that      *)
(* create_invitation's check leaves open are the only ones.                *)
THEOREM OneUsableToken == InvitationPagesSpec => []UsableTokensDoNotCoexist
<1>1. AllInv => UsableTokensDoNotCoexist
  <2> SUFFICES ASSUME AllInv, NEW slot \in Slots \ raced
               PROVE  Cardinality(ActiveInvitations(slot)) <= 1
    BY DEF UsableTokensDoNotCoexist
  <2>1. Ids = 1 .. Len(rows) /\ Len(rows) \in Nat
    BY TableTyped DEF AllInv, InvitationInv
  <2>2. PICK A : A = ActiveInvitations(slot)
    OBVIOUS
  <2>3. \A i, j \in A : i = j
    BY <2>1, <2>2 DEF ActiveInvitations, AllInv, InvitationInv, SlotsInv
  <2>4. CASE A = {}
    BY <2>2, <2>4, FS_EmptySet
  <2>5. CASE A # {}
    <3>1. PICK x : A = {x}
      BY <2>3, <2>5
    <3> QED BY <2>2, <3>1, FS_Singleton
  <2> QED BY <2>4, <2>5
<1> QED BY <1>1, AlwaysAllInv, PTL

(* A page that says "Joined" is right, whoever was signed in when it was   *)
(* last told anything: its own claim is the one that succeeded, and it was *)
(* made in the session of the invited wallet.                              *)
THEOREM JoinedPagesAreRight == InvitationPagesSpec => []JoinedIsTrue
<1>1. AllInv => JoinedIsTrue
  <2> SUFFICES ASSUME AllInv, NEW t \in Tabs, SaysJoined(t)
               PROVE  /\ claimed[tabs[t].token] = 1
                      /\ tabs[t].joinedAs = rows[tabs[t].token].slot.wallet
    BY DEF JoinedIsTrue
  <2>1. SoundTab(tabs[t])
    BY PagesTyped
  <2>2. TruthTold(tabs[t])
    BY <2>1, NoLinkSound DEF SoundTab, SaysJoined
  <2> QED BY <2>2 DEF TruthTold, SaysJoined
<1> QED BY <1>1, AlwaysAllInv, PTL

(* A page that says that its link is dead is right however old its answer, *)
(* and so is the advice that goes with it, because what is answered of a   *)
(* dead link never changes again.                                          *)
THEOREM DeadPagesAreRight == InvitationPagesSpec => []DeadLinksAreDead
<1>1. AllInv => DeadLinksAreDead
  <2> SUFFICES ASSUME AllInv, NEW t \in Tabs, SaysDead(t)
               PROVE  LET row == rows[tabs[t].token]
                          says(status) == tabs[t].review = status
                      IN  /\ IF says("invalid") THEN deleted ELSE ~ Active(row)
                          /\ says("rotated") => row.supersededBy # 0
                          /\ says("revoked") => row.supersededBy = 0
                          /\ says("already_claimed") => claimed[tabs[t].token] = 1
    BY DEF DeadLinksAreDead
  <2>1. SoundTab(tabs[t])
    BY PagesTyped
  <2>2. TruthTold(tabs[t])
    BY <2>1, NoLinkSound DEF SoundTab, SaysDead, TERMINAL
  <2> QED BY <2>2 DEF TruthTold, SaysDead, TERMINAL
<1> QED BY <1>1, AlwaysAllInv, PTL
=============================================================================
