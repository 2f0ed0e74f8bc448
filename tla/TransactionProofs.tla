------------------------- MODULE TransactionProofs -------------------------
(***************************************************************************)
(* Proofs about transaction records and the agreement cache: however many  *)
(* requests verify, index and refresh at once, on whatever snapshots, and  *)
(* whatever the node answers or does not answer, a recorded outcome is the *)
(* one on chain, and the cache is never ahead of the contract nor, but for *)
(* requests that worked on the same agreement at once, behind its label.   *)
(***************************************************************************)
EXTENDS CacheSync, FiniteSetTheorems, TLAPS

-----------------------------------------------------------------------------
(* Types                                                                   *)

Statuses == Terminal \cup {"NONE", "SUBMITTED", "NOT_FOUND", "BROADCAST_CONFIRMED", "PENDING",
                           "MINED_SUCCESS"}

Row == [wallet : {""} \cup {s.wallet : s \in Submissions} \cup {Call[t].sender : t \in Txs},
        function : Functions \cup {""},
        agreement : {NoAgreement} \cup Agreements \cup {s.agreement : s \in Submissions},
        status : Statuses]

Entry == [phase : Nat, block : Nat]

Entries == [Agreements -> Entry]

(* The stages of a verification; the requests that only write the cache    *)
(* are at one stage, "write".                                              *)
Stages == {"transaction", "receipt", "refresh", "commit"}

Verifications ==
  [stage : Stages, tx : Txs, agreement : {NoAgreement} \cup Agreements, loaded : Row, row : Row,
   old : BOOLEAN, snapshot : Entries, fresh : Entries]

CacheWrites ==
  [stage : {"write"}, agreement : Agreements, tx : Agreements, snapshot : Entries, fresh : Entries]

Mining == [state : {"unknown", "pool", "success", "reverted"}, block : Nat, phase : Nat]

Typed ==
  /\ rows \in [Txs -> Row]
  /\ cache \in Entries
  /\ request \in [Workers -> {Idle} \cup Verifications \cup CacheWrites]
  /\ net \in [Txs -> Mining]
  /\ phase \in [Agreements -> Nat]

-----------------------------------------------------------------------------
(* The chain                                                               *)

Mined == {t \in Txs : net[t].block > 0}

(* A transaction that was mined has a block, and there are as many blocks  *)
(* as such transactions; a success moved its agreement.                    *)
ChainInv ==
  /\ IsFiniteSet(Mined)
  /\ \A t \in Txs :
       /\ net[t].state \in {"success", "reverted"} <=> t \in Mined
       /\ net[t].block <= Cardinality(Mined)
       /\ net[t].state = "success" => About(t) \in Agreements /\ net[t].phase <= phase[About(t)]

-----------------------------------------------------------------------------
(* The records                                                             *)

(* Who names no agreement says createAgreement, or it is the transaction's *)
(* own input that names none.                                              *)
Stated(row, t) ==
  row.agreement = NoAgreement => row.function = "createAgreement" \/ Call[t].agreement = NoAgreement

(* The outcome that a record states is the one on chain.                   *)
Real(row, t) ==
  /\ row.status \in {"MINED_SUCCESS", "VERIFIED"} =>
       /\ net[t].state = "success"
       /\ row.wallet = Call[t].sender
       /\ row.function = Call[t].function
       /\ row.agreement = About(t)
  /\ row.status = "MINED_REVERTED" => net[t].state = "reverted"

(* What a record states of a transaction only changes by learning which    *)
(* agreement it created.                                                   *)
Same(row, before, t) ==
  /\ row.wallet = before.wallet /\ row.function = before.function
  /\ \/ row.agreement = before.agreement
     \/ before.agreement = NoAgreement /\ row.agreement = Call[t].creates

RowsInv ==
  \A t \in Txs : /\ rows[t].status = "NONE" => rows[t] = NoRow
                 /\ rows[t] # NoRow => Stated(rows[t], t) /\ Real(rows[t], t)

VerificationSound(r) ==
  r.stage \in Stages =>
    /\ r.agreement = About(r.tx)
    /\ Stated(r.row, r.tx) /\ Real(r.row, r.tx) /\ r.row.status # "NONE"
    /\ r.stage = "receipt" =>
         net[r.tx].state \in {"success", "reverted"} /\ FactsMatch(r.row, Call[r.tx])
    /\ r.stage = "refresh" => r.row.status = "MINED_SUCCESS"
    /\ \/ r.loaded = NoRow
       \/ rows[r.tx] # NoRow /\ Same(rows[r.tx], r.loaded, r.tx) /\ Same(r.row, r.loaded, r.tx)

-----------------------------------------------------------------------------
(* The cache                                                               *)

Behind(e, a) == e.phase <= phase[a]

(* An entry is no older than the block that it is labelled with.           *)
Labelled(e, a) ==
  /\ e.block <= Cardinality(Mined)
  /\ \A t \in Txs : About(t) = a /\ net[t].state = "success" /\ net[t].block <= e.block =>
                      net[t].phase <= e.phase

Covers(e, t) == e = NotIndexed \/ net[t].phase <= e.phase

(* The effects of verified transactions are visible in it.                 *)
Visible(e, a) == \A t \in Txs : About(t) = a /\ rows[t].status = "VERIFIED" => Covers(e, t)

CacheInv ==
  \A a \in Agreements :
    /\ Behind(cache[a], a)
    /\ a \notin raced => Labelled(cache[a], a) /\ Visible(cache[a], a)

(* What a request will write of the cache is right, and as long as nobody  *)
(* else worked on its agreement, that is what the cache will be.           *)
CacheSound(r) ==
  /\ \A a \in Agreements : /\ Behind(r.snapshot[a], a) /\ Behind(r.fresh[a], a)
                           /\ a # r.agreement => r.fresh[a] = r.snapshot[a]
  /\ r.agreement \in Agreements \ raced =>
       /\ r.snapshot[r.agreement] = cache[r.agreement]
       /\ r.snapshot[r.agreement].phase <= r.fresh[r.agreement].phase
       /\ Labelled(r.fresh[r.agreement], r.agreement)
       /\ Visible(r.fresh[r.agreement], r.agreement)
       /\ r.stage \in Stages /\ r.row.status = "VERIFIED" => Covers(r.fresh[r.agreement], r.tx)

RequestsInv ==
  \A w \in Workers : request[w] # Idle =>
    /\ VerificationSound(request[w]) /\ CacheSound(request[w])
    /\ \A v \in Workers :
         /\ request[v] # Idle /\ request[v].agreement = request[w].agreement
         /\ request[w].agreement \in Agreements \ raced
         => v = w

RecordsInv == Typed /\ ChainInv /\ RowsInv /\ CacheInv /\ RequestsInv

-----------------------------------------------------------------------------
Pages == [onchain : Nat, cached : Nat, repaired : BOOLEAN,
          stage : {"loading", "watching", "refreshing", "reloading", "repaired"}]

(* The page: what its repair has committed is no older than what it        *)
(* disagreed about, and stays so.                                          *)
RepairInv ==
  /\ page \in Pages
  /\ page.onchain <= phase[PageOf]
  /\ \A w \in repairer :
       /\ w \in Workers /\ page.stage = "refreshing"
       /\ request[w].stage = "write" /\ request[w].agreement = PageOf
       /\ page.onchain <= request[w].fresh[PageOf].phase
  /\ page.repaired /\ page.stage = "reloading" /\ PageOf \notin raced =>
       page.onchain <= cache[PageOf].phase
  /\ page.repaired /\ page.stage = "repaired" /\ PageOf \notin raced => page.onchain <= page.cached
  /\ page.repaired => page.stage \in {"reloading", "repaired"}

TransactionInv == RecordsInv /\ RepairInv

-----------------------------------------------------------------------------
(* The columns that are written                                            *)

LEMMA RowFields ==
  ASSUME NEW r \in Row
  PROVE  /\ r.wallet \in {""} \cup {s.wallet : s \in Submissions} \cup {Call[t].sender : t \in Txs}
         /\ r.function \in Functions \cup {""}
         /\ r.agreement \in {NoAgreement} \cup Agreements \cup {s.agreement : s \in Submissions}
         /\ r.status \in Statuses
<1> QED
  BY DEF Row

LEMMA RowMade ==
  ASSUME NEW r, r = [wallet |-> r.wallet, function |-> r.function, agreement |-> r.agreement,
                     status |-> r.status],
         r.wallet \in {""} \cup {s.wallet : s \in Submissions} \cup {Call[t].sender : t \in Txs},
         r.function \in Functions \cup {""},
         r.agreement \in {NoAgreement} \cup Agreements \cup {s.agreement : s \in Submissions},
         r.status \in Statuses
  PROVE  r \in Row
<1> QED
  BY DEF Row

(* A commit writes a row column by column, and leaves a row.               *)
LEMMA MergedRow ==
  ASSUME NEW current \in Row, NEW loaded \in Row, NEW new \in Row
  PROVE  LET m == Merged(current, loaded, new)
         IN  /\ m \in Row
             /\ m.wallet = IF new.wallet # loaded.wallet THEN new.wallet ELSE current.wallet
             /\ m.function = IF new.function # loaded.function THEN new.function
                             ELSE current.function
             /\ m.agreement = IF new.agreement # loaded.agreement THEN new.agreement
                              ELSE current.agreement
             /\ m.status = IF new.status # loaded.status THEN new.status ELSE current.status
<1>1. DOMAIN new = {"wallet", "function", "agreement", "status"}
  BY DEF Row
<1> DEFINE m == Merged(current, loaded, new)
<1>2. m = [wallet |-> IF new.wallet # loaded.wallet THEN new.wallet ELSE current.wallet,
           function |-> IF new.function # loaded.function THEN new.function
                        ELSE current.function,
           agreement |-> IF new.agreement # loaded.agreement THEN new.agreement
                         ELSE current.agreement,
           status |-> IF new.status # loaded.status THEN new.status ELSE current.status]
  BY <1>1 DEF Merged
<1>3. /\ m.wallet = IF new.wallet # loaded.wallet THEN new.wallet ELSE current.wallet
      /\ m.function = IF new.function # loaded.function THEN new.function ELSE current.function
      /\ m.agreement = IF new.agreement # loaded.agreement THEN new.agreement
                       ELSE current.agreement
      /\ m.status = IF new.status # loaded.status THEN new.status ELSE current.status
  BY ONLY <1>2
<1>4. m = [wallet |-> m.wallet, function |-> m.function, agreement |-> m.agreement,
           status |-> m.status]
  BY ONLY <1>2, <1>3
<1>5. m \in Row
  BY <1>3, <1>4, RowFields, RowMade
<1> QED
  BY <1>3, <1>5

(* The same of an entry of the cache.                                      *)
LEMMA MergedEntry ==
  ASSUME NEW current \in Entry, NEW loaded \in Entry, NEW new \in Entry
  PROVE  LET m == Merged(current, loaded, new)
         IN  /\ m \in Entry
             /\ m.phase = IF new.phase # loaded.phase THEN new.phase ELSE current.phase
             /\ m.block = IF new.block # loaded.block THEN new.block ELSE current.block
<1>1. DOMAIN new = {"phase", "block"}
  BY DEF Entry
<1> DEFINE m == Merged(current, loaded, new)
<1>2. m = [phase |-> IF new.phase # loaded.phase THEN new.phase ELSE current.phase,
           block |-> IF new.block # loaded.block THEN new.block ELSE current.block]
  BY <1>1 DEF Merged
<1> QED
  BY <1>2 DEF Entry

(* What is written over the value it was loaded from is the new value.     *)
LEMMA MergedOverLoaded ==
  ASSUME NEW loaded \in Entry, NEW new \in Entry
  PROVE  /\ Merged(loaded, loaded, new) = new
         /\ Merged(new, loaded, loaded) = new
<1>1. DOMAIN new = {"phase", "block"} /\ DOMAIN loaded = {"phase", "block"}
  BY DEF Entry
<1>2. new = [phase |-> new.phase, block |-> new.block]
  BY DEF Entry
<1>3. Merged(loaded, loaded, new) = [phase |-> new.phase, block |-> new.block]
  BY <1>1 DEF Merged
<1>4. Merged(new, loaded, loaded) = [phase |-> new.phase, block |-> new.block]
  BY <1>1 DEF Merged
<1> QED
  BY <1>2, <1>3, <1>4

LEMMA MergedRowOverLoaded ==
  ASSUME NEW loaded \in Row, NEW new \in Row
  PROVE  Merged(loaded, loaded, new) = new
<1>1. DOMAIN new = {"wallet", "function", "agreement", "status"}
  BY DEF Row
<1>2. new = [wallet |-> new.wallet, function |-> new.function, agreement |-> new.agreement,
             status |-> new.status]
  BY DEF Row
<1>3. Merged(loaded, loaded, new)
        = [wallet |-> new.wallet, function |-> new.function, agreement |-> new.agreement,
           status |-> new.status]
  BY <1>1 DEF Merged
<1> QED
  BY <1>2, <1>3

LEMMA NoRowIsRow == NoRow \in Row /\ NotIndexed \in Entry /\ NotSent \in Mining
<1> QED
  BY DEF NoRow, Row, Statuses, NotIndexed, Entry, NotSent, Mining

(* A statement that only changes by learning stays one under another such  *)
(* change.                                                                 *)
LEMMA SameTransitive ==
  ASSUME NEW a \in Row, NEW b \in Row, NEW c \in Row, NEW t \in Txs,
         Same(a, b, t), Same(b, c, t)
  PROVE  Same(a, c, t)
<1> QED
  BY DEF Same

-----------------------------------------------------------------------------
(* The requests                                                            *)

LEMMA AboutTyped ==
  ASSUME NEW t \in Txs
  PROVE  About(t) \in {NoAgreement} \cup Agreements
<1>1. {Call[t].agreement, Call[t].creates} \subseteq Agreements \cup {NoAgreement}
  BY TransactionsAssumption
<1> QED
  BY <1>1 DEF About

(* Which kind of request it is shows in its stage.                         *)
LEMMA KindsOfRequests ==
  ASSUME Typed, NEW w \in Workers
  PROVE  /\ request[w].stage = "idle" <=> request[w] = Idle
         /\ request[w].stage = "write" <=> request[w] \in CacheWrites
         /\ request[w].stage \in Stages <=> request[w] \in Verifications
         /\ request[w].stage \in Stages \cup {"idle", "write"}
<1>1. request[w] \in {Idle} \cup Verifications \cup CacheWrites
  BY DEF Typed
<1>2. CASE request[w] = Idle
  <2>1. request[w].stage = "idle"
    BY <1>2 DEF Idle
  <2>2. request[w] \notin CacheWrites /\ request[w] \notin Verifications
    BY <2>1 DEF CacheWrites, Verifications, Stages
  <2> QED
    BY <1>2, <2>1, <2>2 DEF Stages
<1>3. CASE request[w] \in Verifications
  <2>1. request[w].stage \in Stages
    BY <1>3 DEF Verifications
  <2>2. request[w] # Idle
    BY <2>1 DEF Idle, Stages
  <2>3. request[w] \notin CacheWrites
    BY <2>1 DEF CacheWrites, Stages
  <2> QED
    BY <1>3, <2>1, <2>2, <2>3 DEF Stages
<1>4. CASE request[w] \in CacheWrites
  <2>1. request[w].stage = "write"
    BY <1>4 DEF CacheWrites
  <2>2. request[w] # Idle
    BY <2>1 DEF Idle
  <2>3. request[w] \notin Verifications
    BY <2>1 DEF Verifications, Stages
  <2> QED
    BY <1>4, <2>1, <2>2, <2>3 DEF Stages
<1> QED
  BY <1>1, <1>2, <1>3, <1>4

LEMMA VerificationFields ==
  ASSUME NEW r \in Verifications
  PROVE  /\ r.stage \in Stages /\ r.tx \in Txs /\ r.agreement \in {NoAgreement} \cup Agreements
         /\ r.loaded \in Row /\ r.row \in Row /\ r.old \in BOOLEAN
         /\ r.snapshot \in Entries /\ r.fresh \in Entries
         /\ r = [stage |-> r.stage, tx |-> r.tx, agreement |-> r.agreement, loaded |-> r.loaded,
                 row |-> r.row, old |-> r.old, snapshot |-> r.snapshot, fresh |-> r.fresh]
<1> QED
  BY DEF Verifications

LEMMA VerificationMade ==
  ASSUME NEW stage \in Stages, NEW tx \in Txs, NEW agreement \in {NoAgreement} \cup Agreements,
         NEW loaded \in Row, NEW row \in Row, NEW old \in BOOLEAN,
         NEW snapshot \in Entries, NEW fresh \in Entries
  PROVE  [stage |-> stage, tx |-> tx, agreement |-> agreement, loaded |-> loaded, row |-> row,
          old |-> old, snapshot |-> snapshot, fresh |-> fresh] \in Verifications
<1> QED
  BY DEF Verifications

LEMMA CacheWriteFields ==
  ASSUME NEW r \in CacheWrites
  PROVE  /\ r.stage = "write" /\ r.tx \in Agreements /\ r.agreement \in Agreements
         /\ r.snapshot \in Entries /\ r.fresh \in Entries
<1> QED
  BY DEF CacheWrites

LEMMA RequestFields ==
  ASSUME Typed, NEW w \in Workers, request[w] # Idle
  PROVE  /\ request[w].stage \in Stages \cup {"write"}
         /\ request[w].agreement \in {NoAgreement} \cup Agreements
         /\ request[w].snapshot \in Entries /\ request[w].fresh \in Entries
<1>1. request[w] \in Verifications \cup CacheWrites
  BY DEF Typed
<1> QED
  BY <1>1, VerificationFields, CacheWriteFields

(* A request that goes on is the request it was, but for its stage and row.*)
LEMMA ContinuedRequest ==
  ASSUME Typed, NEW w \in Workers, request[w] \in Verifications,
         NEW from, NEW row \in Row, NEW stage \in Stages, Continues(w, from, row, stage)
  PROVE  /\ request'[w] \in Verifications
         /\ request'[w].stage = stage /\ request'[w].row = row
         /\ request'[w].tx = request[w].tx /\ request'[w].agreement = request[w].agreement
         /\ request'[w].loaded = request[w].loaded
         /\ request'[w].snapshot = request[w].snapshot /\ request'[w].fresh = request[w].fresh
         /\ \A v \in Workers \ {w} : request'[v] = request[v]
         /\ request' \in [Workers -> {Idle} \cup Verifications \cup CacheWrites]
<1>0. request \in [Workers -> {Idle} \cup Verifications \cup CacheWrites]
  BY DEF Typed
<1>e. request' = [request EXCEPT ![w].row = row, ![w].stage = stage]
  BY DEF Continues
<1> DEFINE r == request[w]
<1>1. r = [stage |-> r.stage, tx |-> r.tx, agreement |-> r.agreement, loaded |-> r.loaded,
           row |-> r.row, old |-> r.old, snapshot |-> r.snapshot, fresh |-> r.fresh]
  BY VerificationFields
<1>2. request'[w] = [[r EXCEPT !.row = row] EXCEPT !.stage = stage]
  BY <1>0, <1>e
<1>3. request'[w] = [stage |-> stage, tx |-> r.tx, agreement |-> r.agreement,
                     loaded |-> r.loaded, row |-> row, old |-> r.old, snapshot |-> r.snapshot,
                     fresh |-> r.fresh]
  BY ONLY <1>1, <1>2
<1>4. request'[w] \in Verifications
  BY <1>3, VerificationFields, VerificationMade
<1>5. \A v \in Workers \ {w} : request'[v] = request[v]
  BY <1>0, <1>e
<1>6. request' \in [Workers -> {Idle} \cup Verifications \cup CacheWrites]
  <2>1. DOMAIN request' = Workers /\ request' = [v \in Workers |-> request'[v]]
    BY <1>0, <1>e
  <2>2. \A v \in Workers : request'[v] \in {Idle} \cup Verifications \cup CacheWrites
    BY <1>0, <1>4, <1>5
  <2> QED
    BY <2>1, <2>2
<1> QED
  BY <1>3, <1>4, <1>5, <1>6

(* A request that has come to an end, or has just begun.                   *)
LEMMA ReplacedRequest ==
  ASSUME Typed, NEW w \in Workers, NEW r \in {Idle} \cup Verifications \cup CacheWrites,
         request' = [request EXCEPT ![w] = r]
  PROVE  /\ request'[w] = r
         /\ \A v \in Workers \ {w} : request'[v] = request[v]
         /\ request' \in [Workers -> {Idle} \cup Verifications \cup CacheWrites]
<1> QED
  BY DEF Typed

-----------------------------------------------------------------------------
(* What no step undoes                                                     *)

(* Statuses only go forward, and what is mined stays so; a success that is *)
(* new is in a new block.                                                  *)
Grows ==
  /\ \A a \in Agreements : phase[a] <= phase'[a]
  /\ Cardinality(Mined) <= Cardinality(Mined')
  /\ \A t \in Txs :
       /\ net[t].state \in {"success", "reverted"} => net'[t] = net[t]
       /\ net'[t].state = "success" =>
            net[t].state = "success" \/ net'[t].block > Cardinality(Mined)

RowsGrow == \A t \in Txs : rows[t] # NoRow => rows'[t] # NoRow /\ Same(rows'[t], rows[t], t)

Keeps == Grows /\ RowsGrow /\ raced \subseteq raced'

(* Nobody else writes about an agreement that is not worked on twice.      *)
Undisturbed(a) ==
  a \in Agreements \ raced' =>
    /\ cache'[a] = cache[a]
    /\ \A t \in Txs : About(t) = a /\ rows'[t].status = "VERIFIED" => rows[t].status = "VERIFIED"

LEMMA CardinalityTyped ==
  ASSUME ChainInv
  PROVE  Cardinality(Mined) \in Nat
<1> QED
  BY FS_CardinalityType DEF ChainInv

LEMMA SameItself ==
  ASSUME NEW row, NEW t
  PROVE  Same(row, row, t)
<1> QED
  BY DEF Same

LEMMA LabelKept ==
  ASSUME Typed, Typed', ChainInv, ChainInv', Grows, NEW e \in Entry, NEW a, Labelled(e, a)
  PROVE  Labelled(e, a)'
<1>1. Cardinality(Mined) \in Nat /\ Cardinality(Mined)' \in Nat
  <2>1. IsFiniteSet(Mined) /\ IsFiniteSet(Mined)'
    BY DEF ChainInv
  <2> QED
    BY <2>1, FS_CardinalityType
<1>2. e.block \in Nat
  BY DEF Entry
<1>3. e.block <= Cardinality(Mined) /\ Cardinality(Mined) <= Cardinality(Mined)'
  BY DEF Labelled, Grows
<1>4. ASSUME NEW t \in Txs, About(t) = a, net'[t].state = "success", net'[t].block <= e.block
      PROVE  net'[t].phase <= e.phase
  <2>1. net'[t].block \in Nat
    BY DEF Typed, Mining
  <2>2. net[t].state = "success"
    BY <1>1, <1>2, <1>3, <1>4, <2>1 DEF Grows
  <2>3. net'[t] = net[t]
    BY <2>2 DEF Grows
  <2> QED
    BY <1>4, <2>2, <2>3 DEF Labelled
<1>5. e.block <= Cardinality(Mined)'
  BY <1>1, <1>2, <1>3
<1> QED
  BY <1>4, <1>5 DEF Labelled, About

(* A verified row is about a success, and successes stay.                  *)
LEMMA VisibleKept ==
  ASSUME RowsInv, Grows, NEW e, NEW a, Visible(e, a),
         \A t \in Txs : About(t) = a /\ rows'[t].status = "VERIFIED" => rows[t].status = "VERIFIED"
  PROVE  Visible(e, a)'
<1>1. ASSUME NEW t \in Txs, About(t) = a, rows'[t].status = "VERIFIED"
      PROVE  e = NotIndexed \/ net'[t].phase <= e.phase
  <2>1. rows[t].status = "VERIFIED"
    BY <1>1
  <2>2. rows[t] # NoRow
    <3>1. NoRow.status = "NONE"
      BY DEF NoRow
    <3> QED
      BY <2>1, <3>1
  <2>3. net[t].state = "success"
    BY <2>1, <2>2 DEF RowsInv, Real
  <2>4. net'[t] = net[t]
    BY <2>3 DEF Grows
  <2> QED
    BY <1>1, <2>1, <2>4 DEF Visible, Covers
<1> QED
  BY <1>1 DEF Visible, Covers, About

LEMMA RealKept ==
  ASSUME Grows, NEW row, NEW t \in Txs, Real(row, t)
  PROVE  Real(row, t)'
<1> QED
  BY DEF Grows, Real, About

(* The work of a request stays right through the steps of the others.      *)
LEMMA RequestKept ==
  ASSUME RecordsInv, Typed', ChainInv', Keeps, NEW w \in Workers, request[w] # Idle,
         request'[w] = request[w], Undisturbed(request[w].agreement)
  PROVE  VerificationSound(request[w])' /\ CacheSound(request[w])'
<1> DEFINE r == request[w]
           a == request[w].agreement
<1>1. VerificationSound(r) /\ CacheSound(r) /\ Typed /\ ChainInv /\ RowsInv /\ Grows
  BY DEF RecordsInv, RequestsInv, Keeps
<1>2. VerificationSound(r)'
  <2>1. CASE r.stage \notin Stages
    BY <2>1 DEF VerificationSound
  <2>2. CASE r.stage \in Stages
    <3>1. r \in Verifications
      BY <1>1, <2>2, KindsOfRequests
    <3>2. r.tx \in Txs /\ r.row \in Row /\ r.loaded \in Row
      BY <3>1, VerificationFields
    <3> DEFINE t == r.tx
    <3>3. r.agreement = About(t) /\ Stated(r.row, t) /\ Real(r.row, t) /\ r.row.status # "NONE"
      BY <1>1, <2>2 DEF VerificationSound
    <3>4. Real(r.row, t)'
      <4>1. PICK row \in Row, tx \in Txs : row = r.row /\ tx = r.tx
        BY <3>2
      <4>2. Real(row, tx)
        BY <3>3, <4>1
      <4>3. Real(row, tx)'
        BY ONLY <1>1, <4>2, RealKept
      <4> QED
        BY <4>1, <4>3 DEF Real, About
    <3>5. r.stage = "receipt" =>
            net'[t].state \in {"success", "reverted"} /\ FactsMatch(r.row, Call[t])
      <4>1. r.stage = "receipt" =>
              net[t].state \in {"success", "reverted"} /\ FactsMatch(r.row, Call[t])
        BY <1>1, <2>2 DEF VerificationSound
      <4>2. net[t].state \in {"success", "reverted"} => net'[t] = net[t]
        BY <1>1, <3>2 DEF Grows
      <4> QED
        BY ONLY <4>1, <4>2
    <3>6. r.stage = "refresh" => r.row.status = "MINED_SUCCESS"
      BY <1>1, <2>2 DEF VerificationSound
    <3>7. CASE r.loaded = NoRow
      BY <2>2, <3>3, <3>4, <3>5, <3>6, <3>7 DEF VerificationSound, Stated, About
    <3>8. CASE rows[t] # NoRow /\ Same(rows[t], r.loaded, t) /\ Same(r.row, r.loaded, t)
      <4>1. rows'[t] # NoRow /\ Same(rows'[t], rows[t], t)
        BY <3>2, <3>8 DEF Keeps, RowsGrow
      <4>2. rows'[t] \in Row /\ rows[t] \in Row
        BY <3>2, <1>1 DEF Typed
      <4>3. Same(rows'[t], r.loaded, t)
        BY <3>2, <3>8, <4>1, <4>2, SameTransitive
      <4> QED
        BY <2>2, <3>3, <3>4, <3>5, <3>6, <3>8, <4>1, <4>3
           DEF VerificationSound, Stated, About, Same
    <3> QED
      BY <1>1, <2>2, <3>7, <3>8 DEF VerificationSound
  <2> QED
    BY <2>1, <2>2
<1>3. CacheSound(r)'
  <2>1. r.snapshot \in Entries /\ r.fresh \in Entries
    BY <1>1, RequestFields
  <2>2. \A b \in Agreements : /\ Behind(r.snapshot[b], b)' /\ Behind(r.fresh[b], b)'
                              /\ b # a => r.fresh[b] = r.snapshot[b]
    <3>1. SUFFICES ASSUME NEW b \in Agreements
                   PROVE  /\ r.snapshot[b].phase <= phase'[b] /\ r.fresh[b].phase <= phase'[b]
                          /\ b # a => r.fresh[b] = r.snapshot[b]
      BY DEF Behind
    <3>2. /\ r.snapshot[b].phase <= phase[b] /\ r.fresh[b].phase <= phase[b]
          /\ b # a => r.fresh[b] = r.snapshot[b]
      BY <1>1 DEF CacheSound, Behind
    <3>3. r.snapshot[b] \in Entry /\ r.fresh[b] \in Entry
      BY <2>1 DEF Entries
    <3>4. /\ r.snapshot[b].phase \in Nat /\ r.fresh[b].phase \in Nat
          /\ phase[b] \in Nat /\ phase'[b] \in Nat
      BY <1>1, <3>3 DEF Entry, Typed
    <3>5. phase[b] <= phase'[b]
      BY <1>1 DEF Grows
    <3>6. PICK i, j, k, l \in Nat : /\ i = r.snapshot[b].phase /\ j = r.fresh[b].phase
                                    /\ k = phase[b] /\ l = phase'[b]
      BY <3>4
    <3>7. i <= k /\ j <= k /\ k <= l
      BY <3>2, <3>5, <3>6
    <3>8. i <= l /\ j <= l
      BY ONLY <3>7, i \in Nat, j \in Nat, k \in Nat, l \in Nat
    <3> QED
      BY <3>2, <3>6, <3>8
  <2>3. ASSUME a \in Agreements \ raced'
        PROVE  /\ r.snapshot[a] = cache'[a]
               /\ r.snapshot[a].phase <= r.fresh[a].phase
               /\ Labelled(r.fresh[a], a)'
               /\ Visible(r.fresh[a], a)'
               /\ r.stage \in Stages /\ r.row.status = "VERIFIED" => Covers(r.fresh[a], r.tx)'
    <3>1. a \in Agreements \ raced
      BY <2>3 DEF Keeps
    <3>2. /\ r.snapshot[a] = cache[a]
          /\ r.snapshot[a].phase <= r.fresh[a].phase
          /\ Labelled(r.fresh[a], a)
          /\ Visible(r.fresh[a], a)
          /\ r.stage \in Stages /\ r.row.status = "VERIFIED" => Covers(r.fresh[a], r.tx)
      BY <1>1, <3>1 DEF CacheSound
    <3>3. /\ cache'[a] = cache[a]
          /\ \A t \in Txs : About(t) = a /\ rows'[t].status = "VERIFIED" =>
                              rows[t].status = "VERIFIED"
      BY <2>3 DEF Undisturbed
    <3>4. PICK e \in Entry, b \in Agreements : e = r.fresh[a] /\ b = a
      BY <2>1, <3>1 DEF Entries
    <3>5. Labelled(e, b) /\ Visible(e, b)
      BY <3>2, <3>4
    <3>6. Labelled(e, b)'
      BY ONLY <1>1, <3>5, ChainInv', Typed', LabelKept
    <3>7. \A t \in Txs : About(t) = b /\ rows'[t].status = "VERIFIED" =>
                              rows[t].status = "VERIFIED"
      BY <3>3, <3>4
    <3>8. Visible(e, b)'
      BY ONLY <1>1, <3>5, <3>7, VisibleKept
    <3>9. ASSUME r.stage \in Stages, r.row.status = "VERIFIED"
          PROVE  Covers(r.fresh[a], r.tx)'
      <4>1. r.tx \in Txs
        BY <1>1, <3>9, KindsOfRequests, VerificationFields
      <4>2. net[r.tx].state = "success"
        BY <1>1, <3>9 DEF VerificationSound, Real
      <4>3. net'[r.tx] = net[r.tx]
        BY <1>1, <4>1, <4>2 DEF Grows
      <4> QED
        BY <3>2, <3>9, <4>3 DEF Covers
    <3>10. Labelled(r.fresh[a], a)' /\ Visible(r.fresh[a], a)'
      BY <3>4, <3>6, <3>8 DEF Labelled, Visible, Covers, About
    <3> QED
      BY <3>2, <3>3, <3>9, <3>10
  <2> QED
    BY <2>2, <2>3 DEF CacheSound, Labelled, Visible, Covers, Behind, About
<1> QED
  BY <1>2, <1>3

(* The requests that are not of the step stay right, and no two share an   *)
(* agreement that has not been worked on twice.                            *)
LEMMA RequestsKept ==
  ASSUME RecordsInv, Typed', ChainInv', Keeps, NEW W \in SUBSET Workers,
         \A v \in Workers \ W :
           request'[v] = request[v] /\ (request[v] # Idle => Undisturbed(request[v].agreement)),
         \A w \in W : request'[w] # Idle =>
           /\ VerificationSound(request[w])' /\ CacheSound(request[w])'
           /\ \A v \in Workers : /\ v # w
                                 /\ request'[v] # Idle
                                 /\ request'[v].agreement = request'[w].agreement
                                 => request'[w].agreement \notin Agreements \ raced'
  PROVE  RequestsInv'
<1>1. ASSUME NEW w \in Workers, request'[w] # Idle
      PROVE  /\ VerificationSound(request[w])' /\ CacheSound(request[w])'
             /\ \A v \in Workers :
                  /\ request'[v] # Idle /\ request'[v].agreement = request'[w].agreement
                  /\ request'[w].agreement \in Agreements \ raced'
                  => v = w
  <2>1. CASE w \in W
    BY <1>1, <2>1
  <2>2. CASE w \notin W
    <3>1. request'[w] = request[w] /\ request[w] # Idle /\ Undisturbed(request[w].agreement)
      BY <1>1, <2>2
    <3>2. VerificationSound(request[w])' /\ CacheSound(request[w])'
      BY ONLY <3>1, w \in Workers, RecordsInv, Typed', ChainInv', Keeps, RequestKept
    <3>3. ASSUME NEW v \in Workers, request'[v] # Idle,
                 request'[v].agreement = request'[w].agreement,
                 request'[w].agreement \in Agreements \ raced'
          PROVE  v = w
      <4>1. CASE v \in W
        BY <1>1, <2>2, <3>3, <4>1
      <4>2. CASE v \notin W
        <5>1. request'[v] = request[v]
          BY <4>2
        <5>2. request[w].agreement \in Agreements \ raced
          BY <3>1, <3>3 DEF Keeps
        <5> QED
          BY <3>1, <3>3, <5>1, <5>2 DEF RecordsInv, RequestsInv
      <4> QED
        BY <4>1, <4>2
    <3> QED
      BY <3>2, <3>3
  <2> QED
    BY <2>1, <2>2
<1> QED
  BY <1>1 DEF RequestsInv

(* Where only requests are at work.                                        *)
LEMMA TablesRest ==
  ASSUME RecordsInv, UNCHANGED <<tables, chain>>, raced \subseteq raced'
  PROVE  /\ ChainInv' /\ RowsInv' /\ CacheInv' /\ Keeps
         /\ \A a : Undisturbed(a)
<1>1. rows' = rows /\ cache' = cache /\ net' = net /\ phase' = phase
  BY DEF tables, chain
<1>2. Typed /\ ChainInv /\ RowsInv /\ CacheInv
  BY DEF RecordsInv
<1>3. Mined' = Mined
  BY <1>1 DEF Mined
<1>4. ChainInv'
  BY <1>1, <1>2, <1>3 DEF ChainInv, About
<1>5. RowsInv'
  BY <1>1, <1>2 DEF RowsInv, Stated, Real, About
<1>6. CacheInv'
  BY <1>1, <1>2, <1>3 DEF CacheInv, Behind, Labelled, Visible, Covers, About
<1>7. Grows
  <2>1. Cardinality(Mined) \in Nat /\ Cardinality(Mined') = Cardinality(Mined)
    BY <1>2, <1>3, CardinalityTyped
  <2>2. \A a \in Agreements : phase[a] <= phase'[a]
    <3>1. \A a \in Agreements : phase[a] \in Nat
      BY <1>2 DEF Typed
    <3> QED
      BY <1>1, <3>1
  <2> QED
    BY <1>1, <2>1, <2>2 DEF Grows
<1>8. RowsGrow
  BY <1>1 DEF RowsGrow, Same
<1>9. \A a : Undisturbed(a)
  BY <1>1 DEF Undisturbed
<1> QED
  BY <1>4, <1>5, <1>6, <1>7, <1>8, <1>9 DEF Keeps

-----------------------------------------------------------------------------
(* The steps of requests                                                   *)

LEMMA NotIdle ==
  ASSUME NEW r \in Verifications \cup CacheWrites
  PROVE  r # Idle /\ r.stage # "idle"
<1>1. r.stage # "idle"
  <2>1. CASE r \in Verifications
    BY <2>1 DEF Verifications, Stages
  <2>2. CASE r \in CacheWrites
    BY <2>2 DEF CacheWrites
  <2> QED
    BY <2>1, <2>2
<1>2. Idle.stage = "idle"
  BY DEF Idle
<1> QED
  BY <1>1, <1>2

(* A request begins with the tables as they are; an agreement that another *)
(* one is working on is from then on raced.                                *)
LEMMA BeginsKeeps ==
  ASSUME RecordsInv, NEW w \in Workers, NEW r \in Verifications \cup CacheWrites,
         Begins(w, r), VerificationSound(r), CacheSound(r)
  PROVE  RecordsInv' /\ Keeps
<1>1. /\ request' = [request EXCEPT ![w] = r]
      /\ raced' = raced \cup (Touches(r) \cap UNION {Touches(request[v]) : v \in Workers \ {w}})
      /\ UNCHANGED <<tables, chain>>
  BY DEF Begins
<1>2. rows' = rows /\ cache' = cache /\ net' = net /\ phase' = phase
  BY <1>1 DEF tables, chain
<1>3. Typed /\ ChainInv /\ RowsInv /\ CacheInv /\ RequestsInv
  BY DEF RecordsInv
<1>4. /\ request'[w] = r /\ \A v \in Workers \ {w} : request'[v] = request[v]
      /\ request' \in [Workers -> {Idle} \cup Verifications \cup CacheWrites]
  BY ONLY <1>1, <1>3, r \in Verifications \cup CacheWrites, w \in Workers, ReplacedRequest
<1>5. Typed'
  BY <1>2, <1>3, <1>4 DEF Typed
<1>6. raced \subseteq raced'
  BY <1>1
<1>7. ChainInv' /\ RowsInv' /\ CacheInv' /\ Keeps /\ \A a : Undisturbed(a)
  BY <1>1, <1>6, TablesRest
<1>8. VerificationSound(request[w])'
  BY <1>2, <1>4 DEF VerificationSound, Stated, Real, Same, About, FactsMatch
<1>9. CacheSound(request[w])'
  <2>1. Mined' = Mined
    BY <1>2 DEF Mined
  <2> QED
    BY <1>2, <1>4, <1>6, <2>1 DEF CacheSound, Behind, Labelled, Visible, Covers, About
<1>10. ASSUME NEW v \in Workers, v # w, request'[v] # Idle,
              request'[v].agreement = request'[w].agreement
       PROVE  request'[w].agreement \notin Agreements \ raced'
  <2>1. request[v] # Idle /\ request[v].agreement = r.agreement
    BY <1>4, <1>10
  <2>2. request[v].stage # "idle"
    BY <1>3, <2>1, KindsOfRequests
  <2>3. r.agreement \in Touches(r)
    BY NotIdle DEF Touches
  <2>4. r.agreement \in Touches(request[v])
    BY <2>1, <2>2 DEF Touches
  <2>5. r.agreement \in raced'
    BY <1>1, <1>10, <2>3, <2>4
  <2> QED
    BY <1>4, <2>5
<1>11. RequestsInv'
  <2>1. {w} \in SUBSET Workers
    OBVIOUS
  <2>2. \A v \in Workers \ {w} :
          request'[v] = request[v] /\ (request[v] # Idle => Undisturbed(request[v].agreement))
    BY <1>4, <1>7
  <2>3. \A u \in {w} : request'[u] # Idle =>
           /\ VerificationSound(request[u])' /\ CacheSound(request[u])'
           /\ \A v \in Workers : /\ v # u
                                 /\ request'[v] # Idle
                                 /\ request'[v].agreement = request'[u].agreement
                                 => request'[u].agreement \notin Agreements \ raced'
    BY <1>8, <1>9, <1>10
  <2> QED
    BY ONLY <1>5, <1>7, <2>1, <2>2, <2>3, RecordsInv, RequestsKept
<1> QED
  BY <1>5, <1>7, <1>11 DEF RecordsInv

(* A request goes on: its work is right, and that of the others untouched. *)
LEMMA GoesOn ==
  ASSUME RecordsInv, NEW w \in Workers, request[w] # Idle,
         UNCHANGED <<tables, chain>>, raced' = raced,
         request' \in [Workers -> {Idle} \cup Verifications \cup CacheWrites],
         \A v \in Workers \ {w} : request'[v] = request[v],
         request'[w].agreement = request[w].agreement,
         VerificationSound(request[w])', CacheSound(request[w])'
  PROVE  RecordsInv' /\ Keeps
<1>1. Typed /\ RequestsInv
  BY DEF RecordsInv
<1>2. Typed'
  BY <1>1 DEF Typed, tables, chain
<1>3. raced \subseteq raced'
  OBVIOUS
<1>4. ChainInv' /\ RowsInv' /\ CacheInv' /\ Keeps /\ \A a : Undisturbed(a)
  BY ONLY RecordsInv, UNCHANGED <<tables, chain>>, <1>3, TablesRest
<1>5. ASSUME NEW v \in Workers, v # w, request'[v] # Idle,
             request'[v].agreement = request'[w].agreement
      PROVE  request'[w].agreement \notin Agreements \ raced'
  <2>1. request[v] # Idle /\ request[v].agreement = request[w].agreement
    BY <1>5
  <2> QED
    BY <1>1, <1>5, <2>1 DEF RequestsInv
<1>6. RequestsInv'
  <2>1. {w} \in SUBSET Workers
    OBVIOUS
  <2>2. \A v \in Workers \ {w} :
          request'[v] = request[v] /\ (request[v] # Idle => Undisturbed(request[v].agreement))
    BY <1>4
  <2>3. \A u \in {w} : request'[u] # Idle =>
           /\ VerificationSound(request[u])' /\ CacheSound(request[u])'
           /\ \A v \in Workers : /\ v # u
                                 /\ request'[v] # Idle
                                 /\ request'[v].agreement = request'[u].agreement
                                 => request'[u].agreement \notin Agreements \ raced'
    BY <1>5
  <2> QED
    BY ONLY <1>2, <1>4, <2>1, <2>2, <2>3, RecordsInv, RequestsKept
<1> QED
  BY <1>2, <1>4, <1>6 DEF RecordsInv

(* A verification goes on with a row that is still right and states the    *)
(* same.                                                                   *)
LEMMA ContinuesKeeps ==
  ASSUME RecordsInv, NEW w \in Workers, NEW from \in Stages, NEW row \in Row,
         NEW stage \in Stages, Continues(w, from, row, stage),
         Stated(row, request[w].tx), Real(row, request[w].tx), row.status # "NONE",
         Same(row, request[w].row, request[w].tx),
         row.status = "VERIFIED" => request[w].row.status = "VERIFIED",
         stage = "receipt" => /\ net[request[w].tx].state \in {"success", "reverted"}
                              /\ FactsMatch(row, Call[request[w].tx]),
         stage = "refresh" => row.status = "MINED_SUCCESS"
  PROVE  RecordsInv' /\ Keeps
<1>1. /\ request[w].stage \in Stages
      /\ request' = [request EXCEPT ![w].row = row, ![w].stage = stage]
      /\ UNCHANGED <<tables, chain>> /\ raced' = raced
  BY DEF Continues, history
<1>2. rows' = rows /\ cache' = cache /\ net' = net /\ phase' = phase
  BY <1>1 DEF tables, chain
<1>3. Typed /\ RequestsInv
  BY DEF RecordsInv
<1>4. request[w] \in Verifications /\ request[w] # Idle
  BY <1>1, <1>3, KindsOfRequests, NotIdle
<1>5. VerificationSound(request[w]) /\ CacheSound(request[w])
  BY <1>3, <1>4 DEF RequestsInv
<1>6. /\ request'[w].stage = stage /\ request'[w].row = row
      /\ request'[w].tx = request[w].tx /\ request'[w].agreement = request[w].agreement
      /\ request'[w].loaded = request[w].loaded
      /\ request'[w].snapshot = request[w].snapshot /\ request'[w].fresh = request[w].fresh
      /\ \A v \in Workers \ {w} : request'[v] = request[v]
      /\ request' \in [Workers -> {Idle} \cup Verifications \cup CacheWrites]
  BY ONLY <1>3, <1>4, w \in Workers, row \in Row, stage \in Stages,
          Continues(w, from, row, stage), ContinuedRequest
<1>7. VerificationSound(request[w])'
  <2> DEFINE t == request[w].tx
  <2>1. PICK loaded \in Row, before \in Row, tx \in Txs :
          loaded = request[w].loaded /\ before = request[w].row /\ tx = t
    BY <1>4, VerificationFields
  <2>2. \/ loaded = NoRow
        \/ rows[tx] # NoRow /\ Same(rows[tx], loaded, tx) /\ Same(row, loaded, tx)
    <3>1. CASE Same(before, loaded, tx)
      <4>1. Same(row, before, tx)
        BY <2>1
      <4>2. Same(row, loaded, tx)
        BY <3>1, <4>1, SameTransitive
      <4> QED
        BY <1>1, <1>5, <2>1, <4>2 DEF VerificationSound
    <3>2. CASE loaded = NoRow
      BY <3>2
    <3> QED
      BY <1>1, <1>5, <2>1, <3>1, <3>2 DEF VerificationSound
  <2>3. request[w].agreement = About(t)
    BY <1>1, <1>5 DEF VerificationSound
  <2> QED
    BY <1>2, <1>6, <2>1, <2>2, <2>3 DEF VerificationSound, Stated, Real, Same, About, FactsMatch
<1>8. CacheSound(request[w])'
  <2>1. Mined' = Mined
    BY <1>2 DEF Mined
  <2>2. row.status = "VERIFIED" => request[w].stage \in Stages /\ request[w].row.status = "VERIFIED"
    BY <1>1
  <2>3. PICK snapshot, fresh, tx, a :
          /\ snapshot = request[w].snapshot /\ fresh = request[w].fresh
          /\ tx = request[w].tx /\ a = request[w].agreement
    OBVIOUS
  <2>4. /\ request'[w].snapshot = snapshot /\ request'[w].fresh = fresh
        /\ request'[w].tx = tx /\ request'[w].agreement = a /\ request'[w].row = row
    BY ONLY <1>6, <2>3
  <2>5. \A b \in Agreements : /\ Behind(snapshot[b], b) /\ Behind(fresh[b], b)
                              /\ b # a => fresh[b] = snapshot[b]
    BY ONLY <1>5, <2>3 DEF CacheSound
  <2>6. a \in Agreements \ raced =>
          /\ snapshot[a] = cache[a] /\ snapshot[a].phase <= fresh[a].phase
          /\ Labelled(fresh[a], a) /\ Visible(fresh[a], a)
          /\ row.status = "VERIFIED" => Covers(fresh[a], tx)
    BY ONLY <1>5, <2>2, <2>3 DEF CacheSound
  <2> QED
    BY ONLY <1>1, <1>2, <2>1, <2>4, <2>5, <2>6
       DEF CacheSound, Behind, Labelled, Visible, Covers, About
<1> QED
  BY ONLY <1>1, <1>4, <1>6, <1>7, <1>8, RecordsInv, w \in Workers, GoesOn

LEMMA EntryTyped ==
  ASSUME Typed, NEW a \in Agreements
  PROVE  /\ cache[a] \in Entry /\ cache[a].phase \in Nat /\ cache[a].block \in Nat
         /\ phase[a] \in Nat
<1>1. cache[a] \in Entry /\ phase[a] \in Nat
  BY DEF Typed, Entries
<1> QED
  BY <1>1 DEF Entry

(* A verification begins with the row that it has loaded or made.          *)
LEMMA VerificationBegins ==
  ASSUME RecordsInv, NEW w \in Workers, NEW t \in Txs, NEW loaded \in Row, NEW row \in Row,
         Begins(w, Verification(t, loaded, row)),
         Stated(row, t), Real(row, t), row.status \notin {"NONE", "VERIFIED"},
         \/ loaded = NoRow
         \/ rows[t] # NoRow /\ Same(rows[t], loaded, t) /\ Same(row, loaded, t)
  PROVE  RecordsInv' /\ Keeps
<1>1. Typed /\ CacheInv
  BY DEF RecordsInv
<1>o. PICK old \in BOOLEAN : old = (t \in aged)
  <2>1. (t \in aged) = TRUE \/ (t \in aged) = FALSE
    OBVIOUS
  <2>2. TRUE \in BOOLEAN /\ FALSE \in BOOLEAN
    OBVIOUS
  <2> QED
    BY ONLY <2>1, <2>2, Zenon
<1>2. PICK snapshot \in Entries, a \in {NoAgreement} \cup Agreements :
        snapshot = cache /\ a = About(t)
  BY <1>1, AboutTyped DEF Typed
<1>3. PICK r : r = [stage |-> "transaction", tx |-> t, agreement |-> a, loaded |-> loaded,
                    row |-> row, old |-> old, snapshot |-> snapshot, fresh |-> snapshot]
  OBVIOUS
<1>4. r \in Verifications
  BY <1>3, VerificationMade DEF Stages
<1>5. Begins(w, r)
  <2>1. Verification(t, loaded, row) = r
    BY <1>o, <1>2, <1>3 DEF Verification
  <2> QED
    BY <2>1
<1>6. /\ r.stage = "transaction" /\ r.tx = t /\ r.agreement = a /\ r.loaded = loaded
      /\ r.row = row /\ r.snapshot = snapshot /\ r.fresh = snapshot
  BY ONLY <1>3
<1>7. VerificationSound(r)
  BY <1>2, <1>6 DEF VerificationSound
<1>8. CacheSound(r)
  <2>1. \A b \in Agreements : Behind(cache[b], b)
    BY <1>1 DEF CacheInv
  <2>2. a \in Agreements \ raced => Labelled(cache[a], a) /\ Visible(cache[a], a)
    BY <1>1 DEF CacheInv
  <2>3. a \in Agreements => cache[a].phase <= cache[a].phase
    BY <1>1, EntryTyped
  <2> QED
    BY <1>2, <1>6, <2>1, <2>2, <2>3 DEF CacheSound
<1> QED
  BY <1>4, <1>5, <1>7, <1>8, BeginsKeeps

LEMMA NewRowMade ==
  ASSUME NEW wallet, NEW function, NEW agreement
  PROVE  NewRow(wallet, function, agreement)
              = [wallet |-> wallet, function |-> function, agreement |-> agreement,
                 status |-> "SUBMITTED"]
<1>1. NoRow = [wallet |-> "", function |-> "", agreement |-> NoAgreement, status |-> "NONE"]
  BY DEF NoRow
<1>2. NewRow(wallet, function, agreement)
        = [[[[NoRow EXCEPT !.wallet = wallet] EXCEPT !.function = function]
             EXCEPT !.agreement = agreement] EXCEPT !.status = "SUBMITTED"]
  BY DEF NewRow
<1> QED
  BY ONLY <1>1, <1>2

LEMMA RecordKeeps ==
  ASSUME RecordsInv, NEW w \in Workers, NEW t \in Txs, NEW s \in Submissions, Record(w, t, s)
  PROVE  RecordsInv' /\ Keeps
<1>1. PICK row : row = NewRow(s.wallet, s.function, s.agreement)
  OBVIOUS
<1>2. row = [wallet |-> s.wallet, function |-> s.function, agreement |-> s.agreement,
             status |-> "SUBMITTED"]
  BY <1>1, NewRowMade
<1>3. /\ row.wallet = s.wallet /\ row.function = s.function /\ row.agreement = s.agreement
      /\ row.status = "SUBMITTED"
      /\ row = [wallet |-> row.wallet, function |-> row.function, agreement |-> row.agreement,
                status |-> row.status]
  BY ONLY <1>2
<1>4. s.function \in Functions /\ (s.function # "createAgreement" => s.agreement # NoAgreement)
  BY TransactionsAssumption
<1>5. row \in Row
  BY <1>3, <1>4, RowMade DEF Statuses
<1>6. Begins(w, Verification(t, NoRow, row))
  BY <1>1 DEF Record
<1>7. Stated(row, t) /\ Real(row, t)
  BY <1>3, <1>4 DEF Stated, Real
<1> QED
  BY <1>3, <1>5, <1>6, <1>7, NoRowIsRow, VerificationBegins

LEMMA RegisterKnownKeeps ==
  ASSUME RecordsInv, NEW w \in Workers, NEW t \in Txs, RegisterKnown(w, t)
  PROVE  RecordsInv' /\ Keeps
<1>1. PICK row : row = NewRow(Call[t].sender, Call[t].function, Call[t].agreement)
  OBVIOUS
<1>2. row = [wallet |-> Call[t].sender, function |-> Call[t].function,
             agreement |-> Call[t].agreement, status |-> "SUBMITTED"]
  BY <1>1, NewRowMade
<1>3. /\ row.wallet = Call[t].sender /\ row.function = Call[t].function
      /\ row.agreement = Call[t].agreement /\ row.status = "SUBMITTED"
      /\ row = [wallet |-> row.wallet, function |-> row.function, agreement |-> row.agreement,
                status |-> row.status]
  BY ONLY <1>2
<1>4. /\ Call[t].function \in Functions
      /\ {Call[t].agreement, Call[t].creates} \subseteq Agreements \cup {NoAgreement}
  BY TransactionsAssumption
<1>5. row \in Row
  BY <1>3, <1>4, RowMade DEF Statuses
<1>6. Begins(w, Verification(t, NoRow, row))
  BY <1>1 DEF RegisterKnown
<1>7. Stated(row, t) /\ Real(row, t)
  BY <1>3 DEF Stated, Real
<1> QED
  BY <1>3, <1>5, <1>6, <1>7, NoRowIsRow, VerificationBegins

LEMMA VerifyKeeps ==
  ASSUME RecordsInv, NEW w \in Workers, NEW t \in Txs, Verify(w, t)
  PROVE  RecordsInv' /\ Keeps
<1>1. Begins(w, Verification(t, rows[t], rows[t])) /\ Verifiable(rows[t].status)
  BY DEF Verify
<1>2. PICK row \in Row : row = rows[t]
  BY DEF RecordsInv, Typed
<1>3. row.status \notin {"NONE", "VERIFIED"}
  BY <1>1, <1>2 DEF Verifiable, Terminal
<1>4. rows[t] # NoRow
  <2>1. NoRow.status = "NONE"
    BY DEF NoRow
  <2> QED
    BY <1>2, <1>3, <2>1
<1>5. Stated(row, t) /\ Real(row, t)
  BY <1>2, <1>4 DEF RecordsInv, RowsInv
<1>6. Same(row, row, t)
  BY SameItself
<1>7. Begins(w, Verification(t, row, row))
  BY <1>1, <1>2
<1> QED
  BY <1>2, <1>3, <1>4, <1>5, <1>6, <1>7, VerificationBegins

(* What is read from the contract now is as new as anything mined.         *)
LEMMA ReadNow ==
  ASSUME Typed, ChainInv, RowsInv, NEW a \in Agreements, NEW e \in Entry,
         e.phase = phase[a], e.block <= Cardinality(Mined)
  PROVE  /\ Behind(e, a) /\ Labelled(e, a) /\ Visible(e, a)
         /\ \A t \in Txs : About(t) = a /\ net[t].state = "success" => Covers(e, t)
<1>1. Behind(e, a)
  BY EntryTyped DEF Behind
<1>2. ASSUME NEW t \in Txs, About(t) = a, net[t].state = "success"
      PROVE  net[t].phase <= e.phase
  BY <1>2 DEF ChainInv
<1>3. Labelled(e, a)
  BY <1>2 DEF Labelled
<1>4. ASSUME NEW t \in Txs, About(t) = a, rows[t].status = "VERIFIED"
      PROVE  Covers(e, t)
  <2>1. NoRow.status = "NONE"
    BY DEF NoRow
  <2>2. rows[t] # NoRow
    BY <1>4, <2>1
  <2>3. net[t].state = "success"
    BY <1>4, <2>2 DEF RowsInv, Real
  <2> QED
    BY <1>2, <1>4, <2>3 DEF Covers
<1> QED
  BY <1>1, <1>2, <1>3, <1>4 DEF Visible, Covers

LEMMA LargerTyped ==
  ASSUME NEW i \in Nat, NEW j \in Nat, NEW n \in Nat, i <= n, j <= n
  PROVE  Larger(i, j) \in Nat /\ Larger(i, j) <= n
<1> QED
  BY DEF Larger

(* A refresh leaves what is not indexed, and brings what it has read.      *)
LEMMA RefreshedIs ==
  ASSUME NEW entry, NEW status, NEW block
  PROVE  /\ entry = NotIndexed => Refreshed(entry, status, block) = NotIndexed
         /\ entry # NotIndexed =>
              /\ Refreshed(entry, status, block)
                   = [phase |-> status, block |-> Larger(entry.block, block)]
              /\ Refreshed(entry, status, block).phase = status
              /\ Refreshed(entry, status, block).block = Larger(entry.block, block)
<1>1. CASE entry = NotIndexed
  BY <1>1 DEF Refreshed
<1>2. CASE entry # NotIndexed
  <2>1. Refreshed(entry, status, block)
          = [phase |-> status, block |-> Larger(entry.block, block)]
    BY <1>2 DEF Refreshed
  <2> QED
    BY ONLY <1>2, <2>1
<1> QED
  BY <1>1, <1>2

(* A request that only writes the cache begins with what it has read.      *)
LEMMA CacheWriteBegins ==
  ASSUME RecordsInv, NEW w \in Workers, NEW a \in Agreements, NEW e \in Entry,
         Begins(w, [stage |-> "write", agreement |-> a, tx |-> a, snapshot |-> cache,
                    fresh |-> [cache EXCEPT ![a] = e]]),
         e.phase = phase[a], a \notin raced => e.block <= Cardinality(Mined)
  PROVE  RecordsInv' /\ Keeps
<1>1. Typed /\ CacheInv /\ ChainInv /\ RowsInv
  BY DEF RecordsInv
<1>2. PICK snapshot \in Entries, fresh \in Entries :
        /\ snapshot = cache /\ fresh = [cache EXCEPT ![a] = e]
        /\ fresh[a] = e /\ \A b \in Agreements : b # a => fresh[b] = snapshot[b]
  BY <1>1 DEF Typed, Entries
<1>3. PICK r : r = [stage |-> "write", agreement |-> a, tx |-> a, snapshot |-> snapshot,
                    fresh |-> fresh]
  OBVIOUS
<1>4. r \in CacheWrites
  BY <1>3 DEF CacheWrites
<1>5. Begins(w, r)
  BY <1>2, <1>3
<1>6. r.stage = "write" /\ r.agreement = a /\ r.snapshot = snapshot /\ r.fresh = fresh
  BY ONLY <1>3
<1>7. VerificationSound(r)
  BY <1>6 DEF VerificationSound, Stages
<1>8. CacheSound(r)
  <2>1. a \notin raced => Labelled(e, a) /\ Visible(e, a)
    BY <1>1, ReadNow
  <2>2. \A b \in Agreements : Behind(snapshot[b], b)
    BY <1>1, <1>2 DEF CacheInv
  <2>3. \A b \in Agreements : Behind(fresh[b], b)
    <3>1. Behind(e, a)
      BY <1>1, EntryTyped DEF Behind
    <3> QED
      BY <1>2, <2>2, <3>1
  <2>4. snapshot[a].phase <= e.phase
    BY <2>2 DEF Behind
  <2>5. r.stage \notin Stages
    BY <1>6 DEF Stages
  <2> QED
    BY <1>2, <1>6, <2>1, <2>2, <2>3, <2>4, <2>5 DEF CacheSound
<1> QED
  BY <1>4, <1>5, <1>7, <1>8, BeginsKeeps

LEMMA BeginRefreshKeeps ==
  ASSUME RecordsInv, NEW w \in Workers, NEW a \in Agreements, BeginRefresh(w, a)
  PROVE  RecordsInv' /\ Keeps
<1>1. cache[a] # NotIndexed
  BY DEF BeginRefresh
<1>2. Typed /\ ChainInv /\ CacheInv
  BY DEF RecordsInv
<1>3. PICK i \in Nat, j \in Nat : i = phase[a] /\ j = cache[a].block
  BY <1>2, EntryTyped
<1>4. PICK e : e = [phase |-> i, block |-> j]
  OBVIOUS
<1>5. e.phase = i /\ e.block = j /\ e \in Entry
  BY <1>4 DEF Entry
<1>6. Refreshed(cache[a], phase[a], 0) = e
  <2>1. Larger(cache[a].block, 0) = j
    BY <1>3 DEF Larger
  <2> QED
    BY <1>1, <1>3, <1>4, <2>1, RefreshedIs
<1>7. Begins(w, [stage |-> "write", agreement |-> a, tx |-> a, snapshot |-> cache,
                 fresh |-> [cache EXCEPT ![a] = e]])
  BY <1>6 DEF BeginRefresh
<1>8. a \notin raced => e.block <= Cardinality(Mined)
  BY <1>2, <1>3, <1>5 DEF CacheInv, Labelled
<1>9. e.phase = phase[a]
  BY <1>3, <1>5
<1> QED
  BY ONLY <1>5, <1>7, <1>8, <1>9, RecordsInv, w \in Workers, a \in Agreements, CacheWriteBegins

LEMMA BeginIndexingKeeps ==
  ASSUME RecordsInv, NEW w \in Workers, NEW t \in Txs, BeginIndexing(w, t)
  PROVE  RecordsInv' /\ Keeps
<1>1. Call[t].creates # NoAgreement
  BY DEF BeginIndexing
<1>2. PICK a \in Agreements : a = Call[t].creates
  BY <1>1, TransactionsAssumption
<1>3. Typed /\ ChainInv
  BY DEF RecordsInv
<1>4. PICK i \in Nat, j \in Nat : i = phase[a] /\ j = net[t].block
  BY <1>3 DEF Typed, Mining
<1>5. PICK e : e = [phase |-> i, block |-> j]
  OBVIOUS
<1>6. e.phase = i /\ e.block = j /\ e \in Entry
  BY <1>5 DEF Entry
<1>7. Begins(w, [stage |-> "write", agreement |-> a, tx |-> a, snapshot |-> cache,
                 fresh |-> [cache EXCEPT ![a] = e]])
  BY <1>2, <1>4, <1>5 DEF BeginIndexing
<1>8. e.block <= Cardinality(Mined)
  BY <1>3, <1>4, <1>6 DEF ChainInv
<1>9. e.phase = phase[a]
  BY <1>4, <1>6
<1> QED
  BY ONLY <1>6, <1>7, <1>8, <1>9, RecordsInv, w \in Workers, a \in Agreements, CacheWriteBegins

(* What is known of a verification that is under way.                      *)
LEMMA UnderWay ==
  ASSUME RecordsInv, NEW w \in Workers, request[w].stage \in Stages
  PROVE  /\ request[w] \in Verifications /\ request[w] # Idle
         /\ request[w].tx \in Txs /\ request[w].row \in Row /\ request[w].loaded \in Row
         /\ request[w].snapshot \in Entries /\ request[w].fresh \in Entries
         /\ VerificationSound(request[w]) /\ CacheSound(request[w])
         /\ request[w].agreement = About(request[w].tx)
         /\ Stated(request[w].row, request[w].tx) /\ Real(request[w].row, request[w].tx)
         /\ request[w].row.status # "NONE"
<1>1. Typed /\ RequestsInv
  BY DEF RecordsInv
<1>2. request[w] \in Verifications /\ request[w] # Idle
  BY <1>1, KindsOfRequests, NotIdle
<1>3. VerificationSound(request[w]) /\ CacheSound(request[w])
  BY <1>1, <1>2 DEF RequestsInv
<1> QED
  BY <1>2, <1>3, VerificationFields DEF VerificationSound

(* A row with another status.                                              *)
LEMMA Restated ==
  ASSUME NEW row \in Row, NEW status \in Statuses
  PROVE  LET r == [row EXCEPT !.status = status]
         IN  /\ r \in Row
             /\ r.status = status /\ r.wallet = row.wallet /\ r.function = row.function
             /\ r.agreement = row.agreement
             /\ \A t : Same(r, row, t) /\ (Stated(row, t) => Stated(r, t))
<1>1. row = [wallet |-> row.wallet, function |-> row.function, agreement |-> row.agreement,
             status |-> row.status]
  BY DEF Row
<1>2. PICK r : r = [row EXCEPT !.status = status]
  OBVIOUS
<1>3. r = [wallet |-> row.wallet, function |-> row.function, agreement |-> row.agreement,
           status |-> status]
  BY ONLY <1>1, <1>2
<1>4. /\ r.status = status /\ r.wallet = row.wallet /\ r.function = row.function
      /\ r.agreement = row.agreement
      /\ r = [wallet |-> r.wallet, function |-> r.function, agreement |-> r.agreement,
              status |-> r.status]
  BY ONLY <1>3
<1>5. r \in Row
  BY <1>4, RowFields, RowMade
<1>6. \A t : Same(r, row, t) /\ (Stated(row, t) => Stated(r, t))
  BY <1>4 DEF Same, Stated
<1> QED
  BY <1>2, <1>4, <1>5, <1>6

(* A verification goes on to its commit with a status that is no success,  *)
(* or with a revert that is one.                                           *)
LEMMA EndsWith ==
  ASSUME RecordsInv, NEW w \in Workers, NEW from \in Stages, NEW status \in Statuses,
         Continues(w, from, [request[w].row EXCEPT !.status = status], "commit"),
         status \notin {"NONE", "MINED_SUCCESS", "VERIFIED"},
         status = "MINED_REVERTED" => net[request[w].tx].state = "reverted"
  PROVE  RecordsInv' /\ Keeps
<1>1. request[w].stage \in Stages
  BY DEF Continues
<1>2. PICK before \in Row, t \in Txs : before = request[w].row /\ t = request[w].tx
  BY <1>1, UnderWay
<1>3. PICK row : row = [before EXCEPT !.status = status]
  OBVIOUS
<1>4. row \in Row /\ row.status = status /\ Same(row, before, t) /\ Stated(row, t)
  BY <1>1, <1>2, <1>3, Restated, UnderWay
<1>5. Real(row, t)
  BY <1>2, <1>4 DEF Real
<1>6. Continues(w, from, row, "commit")
  BY <1>2, <1>3
<1>7. "commit" \in Stages /\ "commit" # "receipt" /\ "commit" # "refresh"
  BY DEF Stages
<1> QED
  BY ONLY <1>2, <1>4, <1>5, <1>6, <1>7, RecordsInv, w \in Workers, from \in Stages,
          status \notin {"NONE", "MINED_SUCCESS", "VERIFIED"}, ContinuesKeeps

(* A verification goes on with its row as it is.                           *)
LEMMA GoesOnAsItIs ==
  ASSUME RecordsInv, NEW w \in Workers, NEW from \in Stages, NEW stage \in {"receipt", "commit"},
         Continues(w, from, request[w].row, stage),
         stage = "receipt" => /\ net[request[w].tx].state \in {"success", "reverted"}
                              /\ FactsMatch(request[w].row, Call[request[w].tx])
  PROVE  RecordsInv' /\ Keeps
<1>1. request[w].stage \in Stages
  BY DEF Continues
<1>2. PICK row \in Row, t \in Txs : row = request[w].row /\ t = request[w].tx
  BY <1>1, UnderWay
<1>3. Stated(row, t) /\ Real(row, t) /\ row.status # "NONE" /\ Same(row, row, t)
  BY <1>1, <1>2, UnderWay, SameItself
<1>4. Continues(w, from, row, stage)
  BY <1>2
<1>5. stage \in Stages /\ stage # "refresh"
  BY DEF Stages
<1>6. stage = "receipt" => net[t].state \in {"success", "reverted"} /\ FactsMatch(row, Call[t])
  BY <1>2
<1> QED
  BY ONLY <1>2, <1>3, <1>4, <1>5, <1>6, RecordsInv, w \in Workers, from \in Stages,
          ContinuesKeeps

LEMMA TransactionUnknownKeeps ==
  ASSUME RecordsInv, NEW w \in Workers, TransactionUnknown(w)
  PROVE  RecordsInv' /\ Keeps
<1>1. "transaction" \in Stages /\ "commit" \in {"receipt", "commit"} /\ "commit" # "receipt"
      /\ "NOT_FOUND" \in Statuses
  BY DEF Stages, Statuses
<1>2. CASE request[w].old
  <2>1. Continues(w, "transaction", [request[w].row EXCEPT !.status = "NOT_FOUND"], "commit")
    BY <1>2 DEF TransactionUnknown
  <2> QED
    BY <1>1, <2>1, EndsWith
<1>3. CASE ~ request[w].old
  <2>1. Continues(w, "transaction", request[w].row, "commit")
    BY <1>3 DEF TransactionUnknown
  <2> QED
    BY <1>1, <2>1, GoesOnAsItIs
<1> QED
  BY <1>2, <1>3

LEMMA TransactionKnownKeeps ==
  ASSUME RecordsInv, NEW w \in Workers, TransactionKnown(w)
  PROVE  RecordsInv' /\ Keeps
<1> DEFINE r == request[w]
<1>1. "transaction" \in Stages /\ "receipt" \in {"receipt", "commit"}
      /\ "STATE_MISMATCH" \in Statuses /\ "BROADCAST_CONFIRMED" \in Statuses
  BY DEF Stages, Statuses, Terminal
<1>2. CASE Continues(w, "transaction", [r.row EXCEPT !.status = "STATE_MISMATCH"], "commit")
  BY <1>1, <1>2, EndsWith
<1>3. CASE Continues(w, "transaction", [r.row EXCEPT !.status = "BROADCAST_CONFIRMED"], "commit")
  BY <1>1, <1>3, EndsWith
<1>4. CASE /\ FactsMatch(r.row, Call[r.tx])
           /\ net[r.tx].state \in {"success", "reverted"}
           /\ Continues(w, "transaction", r.row, "receipt")
  BY <1>1, <1>4, GoesOnAsItIs
<1> QED
  BY <1>2, <1>3, <1>4 DEF TransactionKnown

LEMMA ReceiptUnknownKeeps ==
  ASSUME RecordsInv, NEW w \in Workers, ReceiptUnknown(w)
  PROVE  RecordsInv' /\ Keeps
<1>1. "receipt" \in Stages /\ "PENDING" \in Statuses
  BY DEF Stages, Statuses
<1>2. Continues(w, "receipt", [request[w].row EXCEPT !.status = "PENDING"], "commit")
  BY DEF ReceiptUnknown
<1> QED
  BY <1>1, <1>2, EndsWith

LEMMA RefreshFailsKeeps ==
  ASSUME RecordsInv, NEW w \in Workers, RefreshFails(w)
  PROVE  RecordsInv' /\ Keeps
<1>1. "refresh" \in Stages /\ "commit" \in {"receipt", "commit"} /\ "commit" # "receipt"
  BY DEF Stages
<1> QED
  BY <1>1, GoesOnAsItIs DEF RefreshFails

(* What the transaction and its receipt say is what the row states: who    *)
(* names no agreement has created the one that the receipt names.          *)
LEMMA ReceiptKnownKeeps ==
  ASSUME RecordsInv, NEW w \in Workers, ReceiptKnown(w)
  PROVE  RecordsInv' /\ Keeps
<1> DEFINE r == request[w]
<1>1. r.stage = "receipt" /\ "receipt" \in Stages
  BY DEF ReceiptKnown, Stages
<1>2. PICK before \in Row, t \in Txs : before = r.row /\ t = r.tx
  BY <1>1, UnderWay
<1>3. net[t].state \in {"success", "reverted"} /\ FactsMatch(before, Call[t])
      /\ Stated(before, t)
  BY <1>1, <1>2, UnderWay DEF VerificationSound
<1>4. CASE net[t].state # "success"
  <2>1. Continues(w, "receipt", [r.row EXCEPT !.status = "MINED_REVERTED"], "commit")
    BY <1>2, <1>4 DEF ReceiptKnown
  <2>2. net[r.tx].state = "reverted" /\ "MINED_REVERTED" \in Statuses
    BY <1>2, <1>3, <1>4 DEF Statuses, Terminal
  <2> QED
    BY <1>1, <2>1, <2>2, EndsWith
<1>5. CASE net[t].state = "success"
  <2> DEFINE learned == IF before.agreement = NoAgreement THEN Call[t].creates
                        ELSE before.agreement
  <2>1. PICK agreement : agreement = learned
    OBVIOUS
  <2>2. PICK row : row = [[before EXCEPT !.status = "MINED_SUCCESS"]
                            EXCEPT !.agreement = agreement]
    OBVIOUS
  <2>3. Continues(w, "receipt", row, "refresh")
    BY <1>2, <1>5, <2>1, <2>2 DEF ReceiptKnown
  <2>4. before = [wallet |-> before.wallet, function |-> before.function,
                  agreement |-> before.agreement, status |-> before.status]
    BY DEF Row
  <2>5. row = [wallet |-> before.wallet, function |-> before.function,
               agreement |-> agreement, status |-> "MINED_SUCCESS"]
    BY ONLY <2>2, <2>4
  <2>6. /\ row.wallet = before.wallet /\ row.function = before.function
        /\ row.agreement = agreement /\ row.status = "MINED_SUCCESS"
        /\ row = [wallet |-> row.wallet, function |-> row.function,
                  agreement |-> row.agreement, status |-> row.status]
    BY ONLY <2>5
  <2>7. Call[t].creates \in Agreements \cup {NoAgreement}
    BY TransactionsAssumption
  <2>8. row \in Row
    <3>1. row.agreement \in {NoAgreement} \cup Agreements \cup {s.agreement : s \in Submissions}
      BY <2>1, <2>6, <2>7, RowFields
    <3>2. row.status \in Statuses
      BY <2>6 DEF Statuses
    <3> QED
      BY <2>6, <3>1, <3>2, RowFields, RowMade
  <2>9. Same(row, before, t)
    BY <2>1, <2>6 DEF Same
  <2>10. row.agreement = About(t)
    <3>1. /\ Call[t].creates # NoAgreement <=> Call[t].function = "createAgreement"
          /\ Call[t].creates # NoAgreement => Call[t].agreement = NoAgreement
      BY TransactionsAssumption
    <3>2. CASE before.agreement # NoAgreement
      <4>1. before.agreement = Call[t].agreement
        BY <1>3, <3>2 DEF FactsMatch
      <4> QED
        BY <2>1, <2>6, <3>1, <3>2, <4>1 DEF About
    <3>3. CASE before.agreement = NoAgreement
      <4>1. before.function = Call[t].function
        BY <1>3 DEF FactsMatch
      <4>2. Call[t].function = "createAgreement" \/ Call[t].agreement = NoAgreement
        BY <1>3, <3>3, <4>1 DEF Stated
      <4> QED
        BY <2>1, <2>6, <3>1, <3>3, <4>2 DEF About
    <3> QED
      BY <3>2, <3>3
  <2>11. Real(row, t)
    BY <1>3, <1>5, <2>6, <2>10 DEF Real, FactsMatch
  <2>12. Stated(row, t)
    BY <1>3, <2>1, <2>6 DEF Stated
  <2>13. "refresh" \in Stages /\ "refresh" # "receipt"
    BY DEF Stages
  <2> QED
    BY <1>1, <1>2, <2>3, <2>6, <2>8, <2>9, <2>11, <2>12, <2>13, ContinuesKeeps
<1> QED
  BY <1>4, <1>5

(* What a refresh has made of its request.                                 *)
LEMMA RefreshedRequest ==
  ASSUME RecordsInv, NEW w \in Workers, RefreshSucceeds(w)
  PROVE  LET r == request[w]
             a == request[w].row.agreement
             e == Refreshed(r.snapshot[a], phase[a], net[r.tx].block)
         IN  /\ a = r.agreement /\ a \in Agreements
             /\ net[r.tx].state = "success"
             /\ e \in Entry
             /\ request'[w].stage = "commit"
             /\ request'[w].row = [r.row EXCEPT !.status = "VERIFIED"]
             /\ request'[w].tx = r.tx /\ request'[w].agreement = r.agreement
             /\ request'[w].loaded = r.loaded
             /\ request'[w].snapshot = r.snapshot
             /\ request'[w].fresh = [r.fresh EXCEPT ![a] = e]
             /\ \A v \in Workers \ {w} : request'[v] = request[v]
             /\ request' \in [Workers -> {Idle} \cup Verifications \cup CacheWrites]
<1> DEFINE r == request[w]
           a == request[w].row.agreement
           e == Refreshed(r.snapshot[a], phase[a], net[r.tx].block)
<1>1. r.stage = "refresh" /\ r.stage \in Stages
  BY DEF RefreshSucceeds, Stages
<1>2. Typed /\ ChainInv
  BY DEF RecordsInv
<1>3. r \in Verifications /\ r.tx \in Txs /\ r.row \in Row /\ VerificationSound(r)
      /\ r.agreement = About(r.tx) /\ Real(r.row, r.tx)
      /\ r.snapshot \in Entries /\ r.fresh \in Entries
  BY <1>1, UnderWay
<1>4. r.row.status = "MINED_SUCCESS"
  BY <1>1, <1>3 DEF VerificationSound
<1>5. a = r.agreement /\ net[r.tx].state = "success"
  BY <1>3, <1>4 DEF Real
<1>6. a \in Agreements
  BY <1>2, <1>3, <1>5 DEF ChainInv
<1>7. e \in Entry
  <2>1. r.snapshot[a] \in Entry /\ phase[a] \in Nat /\ net[r.tx].block \in Nat
    BY <1>2, <1>3, <1>6 DEF Entries, Typed, Mining
  <2>2. PICK s \in Entry, i \in Nat, j \in Nat :
          s = r.snapshot[a] /\ i = phase[a] /\ j = net[r.tx].block
    BY <2>1
  <2>3. Larger(s.block, j) \in Nat
    BY DEF Larger, Entry
  <2>4. Refreshed(s, i, j) \in Entry
    BY <2>3, RefreshedIs DEF Entry
  <2> QED
    BY <2>2, <2>4
<1>8. PICK entry \in Entry, agreement \in Agreements : entry = e /\ agreement = a
  BY <1>6, <1>7
<1>9. request' = [request EXCEPT ![w].row.status = "VERIFIED", ![w].stage = "commit",
                                 ![w].fresh[agreement] = entry]
  BY <1>8 DEF RefreshSucceeds
<1>10. request \in [Workers -> {Idle} \cup Verifications \cup CacheWrites]
  BY <1>2 DEF Typed
<1>11. request'[w] = [r EXCEPT !.row.status = "VERIFIED", !.stage = "commit",
                               !.fresh[agreement] = entry]
  BY <1>9, <1>10
<1>12. PICK row : row = [r.row EXCEPT !.status = "VERIFIED"]
  OBVIOUS
<1>13. row \in Row
  BY <1>3, <1>12, Restated DEF Statuses, Terminal
<1>14. PICK fresh : fresh = [r.fresh EXCEPT ![agreement] = entry]
  OBVIOUS
<1>15. fresh \in Entries
  BY <1>3, <1>14 DEF Entries
<1>16. request'[w] = [[[r EXCEPT !.row = row] EXCEPT !.stage = "commit"] EXCEPT !.fresh = fresh]
  BY <1>11, <1>12, <1>14
<1>17. r = [stage |-> r.stage, tx |-> r.tx, agreement |-> r.agreement, loaded |-> r.loaded,
            row |-> r.row, old |-> r.old, snapshot |-> r.snapshot, fresh |-> r.fresh]
  BY <1>3, VerificationFields
<1>18. request'[w] = [stage |-> "commit", tx |-> r.tx, agreement |-> r.agreement,
                      loaded |-> r.loaded, row |-> row, old |-> r.old,
                      snapshot |-> r.snapshot, fresh |-> fresh]
  BY ONLY <1>16, <1>17
<1>19. request'[w] \in Verifications
  BY <1>3, <1>13, <1>15, <1>18, VerificationFields, VerificationMade DEF Stages
<1>20. \A v \in Workers \ {w} : request'[v] = request[v]
  BY <1>9, <1>10
<1>21. request' \in [Workers -> {Idle} \cup Verifications \cup CacheWrites]
  <2>1. DOMAIN request' = Workers /\ request' = [v \in Workers |-> request'[v]]
    BY <1>9, <1>10
  <2>2. \A v \in Workers : request'[v] \in {Idle} \cup Verifications \cup CacheWrites
    BY <1>10, <1>19, <1>20
  <2> QED
    BY <2>1, <2>2
<1>22. /\ request'[w].stage = "commit" /\ request'[w].row = row
       /\ request'[w].tx = r.tx /\ request'[w].agreement = r.agreement
       /\ request'[w].loaded = r.loaded
       /\ request'[w].snapshot = r.snapshot /\ request'[w].fresh = fresh
  BY ONLY <1>18
<1> QED
  BY <1>5, <1>6, <1>7, <1>8, <1>12, <1>14, <1>20, <1>21, <1>22

(* A verification reads the agreement after the block of its transaction,  *)
(* so that what it will write covers the transaction.                      *)
LEMMA RefreshSucceedsKeeps ==
  ASSUME RecordsInv, NEW w \in Workers, RefreshSucceeds(w)
  PROVE  RecordsInv' /\ Keeps
<1> DEFINE r == request[w]
<1>1. r.stage = "refresh" /\ r.stage \in Stages
      /\ UNCHANGED <<tables, chain>> /\ raced' = raced
  BY DEF RefreshSucceeds, Stages, history
<1>2. rows' = rows /\ cache' = cache /\ net' = net /\ phase' = phase
  BY <1>1 DEF tables, chain
<1>3. Typed /\ ChainInv /\ RowsInv /\ CacheInv
  BY DEF RecordsInv
<1>4. /\ r \in Verifications /\ r # Idle /\ r.snapshot \in Entries /\ r.fresh \in Entries
      /\ VerificationSound(r) /\ CacheSound(r)
  BY <1>1, UnderWay
<1>5. PICK a \in Agreements, t \in Txs, before \in Row, loaded \in Row :
        a = r.row.agreement /\ t = r.tx /\ before = r.row /\ loaded = r.loaded
  BY <1>1, RefreshedRequest, UnderWay
<1>6. PICK e \in Entry : e = Refreshed(r.snapshot[a], phase[a], net[t].block)
  BY <1>5, RefreshedRequest
<1>7. PICK row : row = [before EXCEPT !.status = "VERIFIED"]
  OBVIOUS
<1>8. /\ a = r.agreement /\ net[t].state = "success"
      /\ request'[w].stage = "commit" /\ request'[w].row = row
      /\ request'[w].tx = t /\ request'[w].agreement = a
      /\ request'[w].loaded = loaded
      /\ request'[w].snapshot = r.snapshot
      /\ request'[w].fresh = [r.fresh EXCEPT ![a] = e]
      /\ \A v \in Workers \ {w} : request'[v] = request[v]
      /\ request' \in [Workers -> {Idle} \cup Verifications \cup CacheWrites]
  BY <1>5, <1>6, <1>7, RefreshedRequest
<1>9. /\ row \in Row /\ row.status = "VERIFIED" /\ Same(row, before, t) /\ Stated(row, t)
      /\ row.wallet = before.wallet /\ row.function = before.function
      /\ row.agreement = before.agreement
  <2>1. Stated(before, t)
    BY <1>1, <1>5, UnderWay
  <2>2. "VERIFIED" \in Statuses
    BY DEF Statuses, Terminal
  <2> QED
    BY ONLY <1>7, <2>1, <2>2, before \in Row, Restated
<1>10. a = About(t) /\ Real(before, t) /\ before.status = "MINED_SUCCESS"
       /\ (\/ loaded = NoRow
           \/ rows[t] # NoRow /\ Same(rows[t], loaded, t) /\ Same(before, loaded, t))
  BY <1>1, <1>4, <1>5, <1>8 DEF VerificationSound
<1>11. VerificationSound(request[w])'
  <2>1. Real(row, t)
    BY <1>9, <1>10 DEF Real
  <2>2. loaded = NoRow \/ Same(row, loaded, t)
    BY <1>9, <1>10, SameTransitive
  <2>3. "commit" # "receipt" /\ "commit" # "refresh" /\ row.status # "NONE"
    BY <1>9
  <2> QED
    BY <1>2, <1>8, <1>9, <1>10, <2>1, <2>2, <2>3
       DEF VerificationSound, Stated, Real, Same, About
<1>12. CacheSound(request[w])'
  <2>1. PICK snapshot \in Entries, fresh \in Entries :
          snapshot = r.snapshot /\ fresh = [r.fresh EXCEPT ![a] = e]
    BY <1>4 DEF Entries
  <2>2. fresh[a] = e /\ \A b \in Agreements : b # a => fresh[b] = snapshot[b]
    BY <1>4, <1>8, <2>1 DEF CacheSound, Entries
  <2>3. \A b \in Agreements : Behind(snapshot[b], b)
    BY <1>4, <2>1 DEF CacheSound
  <2>4. snapshot[a] \in Entry /\ phase[a] \in Nat /\ net[t].block \in Nat
    BY <1>3, <2>1 DEF Entries, Typed, Mining
  <2>5. \/ snapshot[a] = NotIndexed /\ e = NotIndexed
        \/ e.phase = phase[a] /\ e.block = Larger(snapshot[a].block, net[t].block)
    BY <1>6, <2>1, RefreshedIs
  <2>6. Behind(e, a)
    <3>1. CASE e = NotIndexed
      <4>1. e.phase = 0
        BY <3>1 DEF NotIndexed
      <4> QED
        BY <2>4, <4>1 DEF Behind
    <3>2. CASE e.phase = phase[a]
      BY <2>4, <3>2 DEF Behind
    <3> QED
      BY <2>5, <3>1, <3>2
  <2>7. \A b \in Agreements : Behind(fresh[b], b)
    BY <2>2, <2>3, <2>6
  <2>8. ASSUME a \notin raced
        PROVE  /\ snapshot[a] = cache[a]
               /\ snapshot[a].phase <= e.phase
               /\ Labelled(e, a) /\ Visible(e, a) /\ Covers(e, t)
    <3>1. snapshot[a] = cache[a]
      BY <1>4, <1>8, <2>1, <2>8 DEF CacheSound
    <3>2. CASE snapshot[a] = NotIndexed /\ e = NotIndexed
      <4>1. snapshot[a].phase <= e.phase
        BY <3>2 DEF NotIndexed
      <4>2. Labelled(e, a)
        BY <1>3, <2>8, <3>1, <3>2 DEF CacheInv
      <4> QED
        BY <3>1, <3>2, <4>1, <4>2 DEF Visible, Covers
    <3>3. CASE e.phase = phase[a] /\ e.block = Larger(snapshot[a].block, net[t].block)
      <4>1. snapshot[a].phase <= e.phase
        BY <2>3, <3>3 DEF Behind
      <4>2. e.block <= Cardinality(Mined)
        <5>1. snapshot[a].block <= Cardinality(Mined)
          BY <1>3, <2>8, <3>1 DEF CacheInv, Labelled
        <5>2. net[t].block <= Cardinality(Mined)
          BY <1>3 DEF ChainInv
        <5>3. PICK i \in Nat, j \in Nat, n \in Nat :
                i = snapshot[a].block /\ j = net[t].block /\ n = Cardinality(Mined)
          BY <1>3, <2>4, CardinalityTyped DEF Entry
        <5>4. Larger(i, j) <= n
          BY <5>1, <5>2, <5>3, LargerTyped
        <5> QED
          BY <3>3, <5>3, <5>4
      <4> QED
        BY <1>3, <1>8, <1>10, <3>1, <3>3, <4>1, <4>2, ReadNow
    <3> QED
      BY <2>5, <3>2, <3>3
  <2>9. Mined' = Mined
    BY <1>2 DEF Mined
  <2>10. /\ request'[w].snapshot = snapshot /\ request'[w].fresh = fresh
         /\ request'[w].agreement = a /\ request'[w].tx = t
    BY <1>8, <2>1
  <2> QED
    BY <1>1, <1>2, <2>2, <2>3, <2>7, <2>8, <2>9, <2>10
       DEF CacheSound, Behind, Labelled, Visible, Covers, About
<1>13. request'[w].agreement = request[w].agreement
  BY <1>8
<1> QED
  BY ONLY <1>1, <1>4, <1>8, <1>11, <1>12, <1>13, RecordsInv, w \in Workers, GoesOn

-----------------------------------------------------------------------------
(* Commits                                                                 *)

(* The row that a verification leaves is right, whatever passes have been  *)
(* committed since it was loaded.                                          *)
LEMMA CommittedRow ==
  ASSUME Typed, RowsInv, NEW t \in Txs, NEW loaded \in Row, NEW row \in Row,
         Stated(row, t), Real(row, t), row.status # "NONE",
         loaded = NoRow => rows[t] = NoRow,
         \/ loaded = NoRow
         \/ rows[t] # NoRow /\ Same(rows[t], loaded, t) /\ Same(row, loaded, t)
  PROVE  LET m == Merged(rows[t], loaded, row)
         IN  /\ m \in Row /\ m.status # "NONE" /\ Stated(m, t) /\ Real(m, t)
             /\ rows[t] # NoRow => Same(m, rows[t], t)
             /\ m.status = "VERIFIED" => "VERIFIED" \in {rows[t].status, row.status}
<1>1. CASE loaded = NoRow
  <2>1. rows[t] = loaded
    BY <1>1
  <2>2. Merged(rows[t], loaded, row) = row
    BY <2>1, MergedRowOverLoaded
  <2> QED
    BY <1>1, <2>1, <2>2
<1>2. CASE rows[t] # NoRow /\ Same(rows[t], loaded, t) /\ Same(row, loaded, t)
  <2>1. PICK current \in Row : current = rows[t]
    BY DEF Typed
  <2>2. PICK m : m = Merged(current, loaded, row)
    OBVIOUS
  <2>3. /\ m \in Row
        /\ m.wallet = IF row.wallet # loaded.wallet THEN row.wallet ELSE current.wallet
        /\ m.function = IF row.function # loaded.function THEN row.function
                        ELSE current.function
        /\ m.agreement = IF row.agreement # loaded.agreement THEN row.agreement
                         ELSE current.agreement
        /\ m.status = IF row.status # loaded.status THEN row.status ELSE current.status
    BY <2>2, MergedRow
  <2>4. Stated(current, t) /\ Real(current, t) /\ current.status # "NONE"
    BY <1>2, <2>1 DEF RowsInv
  <2>5. /\ row.wallet = loaded.wallet /\ current.wallet = loaded.wallet
        /\ row.function = loaded.function /\ current.function = loaded.function
        /\ \/ row.agreement = loaded.agreement
           \/ loaded.agreement = NoAgreement /\ row.agreement = Call[t].creates
        /\ \/ current.agreement = loaded.agreement
           \/ loaded.agreement = NoAgreement /\ current.agreement = Call[t].creates
    BY <1>2, <2>1 DEF Same
  <2>6. /\ m.wallet = current.wallet /\ m.wallet = row.wallet
        /\ m.function = current.function /\ m.function = row.function
    BY <2>3, <2>5
  <2>7. /\ \/ m.agreement = current.agreement
           \/ current.agreement = NoAgreement /\ m.agreement = Call[t].creates
        /\ \/ m.agreement = row.agreement
           \/ row.agreement = NoAgreement /\ m.agreement = Call[t].creates
    BY ONLY <2>3, <2>5
  <2>8. m.status = row.status \/ m.status = current.status
    BY ONLY <2>3
  <2>9. Same(m, current, t)
    BY <2>6, <2>7 DEF Same
  <2>10. Stated(m, t)
    <3>1. m.agreement = NoAgreement => current.agreement = NoAgreement
      BY <2>3, <2>5
    <3> QED
      BY <2>4, <2>6, <3>1 DEF Stated
  <2>11. Real(m, t)
    <3>1. ASSUME NEW n \in {row, current}, m.status = n.status, Real(n, t),
                 m.wallet = n.wallet, m.function = n.function,
                 \/ m.agreement = n.agreement
                 \/ n.agreement = NoAgreement /\ m.agreement = Call[t].creates
          PROVE  Real(m, t)
      <4>1. n.agreement = NoAgreement /\ n.agreement = About(t) => Call[t].creates = NoAgreement
        BY DEF About
      <4> QED
        BY <3>1, <4>1 DEF Real
    <3> QED
      BY <2>4, <2>6, <2>7, <2>8, <3>1
  <2> QED
    BY <2>1, <2>2, <2>3, <2>4, <2>8, <2>9, <2>10, <2>11
<1> QED
  BY <1>1, <1>2

(* The entry that a request leaves is what it has read where nobody else   *)
(* worked on the agreement, is untouched where it is not its own, and is   *)
(* never ahead of the contract.                                            *)
LEMMA CommittedEntry ==
  ASSUME RecordsInv, NEW w \in Workers, request[w] # Idle, NEW a \in Agreements
  PROVE  LET m == Merged(cache[a], request[w].snapshot[a], request[w].fresh[a])
         IN  /\ m \in Entry
             /\ Behind(m, a)
             /\ a # request[w].agreement => m = cache[a]
             /\ a = request[w].agreement /\ a \notin raced =>
                  m = request[w].fresh[a] /\ cache[a].phase <= m.phase
<1>1. Typed /\ CacheInv /\ RequestsInv
  BY DEF RecordsInv
<1>2. CacheSound(request[w])
  BY <1>1 DEF RequestsInv
<1>3. PICK s \in Entry, f \in Entry, c \in Entry :
        s = request[w].snapshot[a] /\ f = request[w].fresh[a] /\ c = cache[a]
  BY <1>1, RequestFields, EntryTyped DEF Entries
<1>4. PICK m : m = Merged(c, s, f)
  OBVIOUS
<1>5. m \in Entry /\ m.phase = IF f.phase # s.phase THEN f.phase ELSE c.phase
  BY <1>4, MergedEntry
<1>6. Behind(m, a)
  <2>1. Behind(f, a) /\ Behind(c, a)
    BY <1>1, <1>2, <1>3 DEF CacheSound, CacheInv
  <2> QED
    BY <1>5, <2>1 DEF Behind
<1>7. a # request[w].agreement => m = c
  <2>1. a # request[w].agreement => f = s
    BY <1>2, <1>3 DEF CacheSound
  <2> QED
    BY <1>4, <2>1, MergedOverLoaded
<1>8. a = request[w].agreement /\ a \notin raced => m = f /\ c.phase <= m.phase
  <2>1. a = request[w].agreement /\ a \notin raced => s = c /\ s.phase <= f.phase
    BY <1>2, <1>3 DEF CacheSound
  <2> QED
    BY <1>4, <2>1, MergedOverLoaded
<1> QED
  BY <1>3, <1>4, <1>5, <1>6, <1>7, <1>8

(* A request comes to an end: what the others work with is untouched.      *)
LEMMA EndsKeeps ==
  ASSUME RecordsInv, Typed', ChainInv', RowsInv', CacheInv', Keeps,
         NEW w \in Workers, request[w] # Idle, request' = [request EXCEPT ![w] = Idle],
         raced' = raced,
         \A a \in Agreements : a # request[w].agreement => Undisturbed(a)
  PROVE  RecordsInv'
<1>1. Typed /\ RequestsInv
  BY DEF RecordsInv
<1>2. request'[w] = Idle /\ \A v \in Workers \ {w} : request'[v] = request[v]
  BY <1>1, ReplacedRequest
<1>3. ASSUME NEW v \in Workers \ {w}, request[v] # Idle
      PROVE  Undisturbed(request[v].agreement)
  <2>1. CASE request[v].agreement \in Agreements \ raced
    <3>1. request[w].agreement # request[v].agreement
      BY <1>1, <1>3, <2>1 DEF RequestsInv
    <3> QED
      BY <2>1, <3>1
  <2>2. CASE request[v].agreement \notin Agreements \ raced
    BY <2>2 DEF Undisturbed
  <2> QED
    BY <2>1, <2>2
<1>4. RequestsInv'
  <2>1. {w} \in SUBSET Workers
    OBVIOUS
  <2>2. \A v \in Workers \ {w} :
          request'[v] = request[v] /\ (request[v] # Idle => Undisturbed(request[v].agreement))
    BY <1>2, <1>3
  <2>3. \A u \in {w} : request'[u] # Idle =>
           /\ VerificationSound(request[u])' /\ CacheSound(request[u])'
           /\ \A v \in Workers : /\ v # u
                                 /\ request'[v] # Idle
                                 /\ request'[v].agreement = request'[u].agreement
                                 => request'[u].agreement \notin Agreements \ raced'
    BY <1>2
  <2> QED
    BY ONLY Typed', ChainInv', Keeps, <2>1, <2>2, <2>3, RecordsInv, RequestsKept
<1> QED
  BY <1>4 DEF RecordsInv

LEMMA ChainRests ==
  ASSUME Typed, ChainInv, UNCHANGED chain
  PROVE  ChainInv' /\ Grows
<1>1. net' = net /\ phase' = phase
  BY DEF chain
<1>2. Mined' = Mined
  BY <1>1 DEF Mined
<1>3. ChainInv'
  BY <1>1, <1>2 DEF ChainInv, About
<1>4. Cardinality(Mined) \in Nat /\ Cardinality(Mined') = Cardinality(Mined)
  BY <1>2, CardinalityTyped
<1>5. \A a \in Agreements : phase[a] <= phase'[a]
  BY <1>1, EntryTyped
<1> QED
  BY <1>1, <1>3, <1>4, <1>5 DEF Grows

LEMMA CommitVerificationKeeps ==
  ASSUME RecordsInv, NEW w \in Workers, CommitVerification(w)
  PROVE  /\ RecordsInv' /\ Keeps
         /\ \A a \in Agreements \ raced' : cache[a].phase <= cache'[a].phase
<1> DEFINE r == request[w]
<1>1. /\ r.stage = "commit" /\ r.stage \in Stages
      /\ r.loaded = NoRow => rows[r.tx] = NoRow
      /\ rows' = [rows EXCEPT ![r.tx] = Merged(rows[r.tx], r.loaded, r.row)]
      /\ cache' = [a \in Agreements |-> Merged(cache[a], r.snapshot[a], r.fresh[a])]
      /\ request' = [request EXCEPT ![w] = Idle]
      /\ UNCHANGED chain /\ raced' = raced
  BY DEF CommitVerification, Stages, history
<1>2. Typed /\ ChainInv /\ RowsInv /\ CacheInv /\ RequestsInv
  BY DEF RecordsInv
<1>3. /\ r # Idle /\ r.tx \in Txs /\ r.row \in Row /\ r.loaded \in Row
      /\ VerificationSound(r) /\ CacheSound(r)
      /\ r.agreement = About(r.tx)
      /\ Stated(r.row, r.tx) /\ Real(r.row, r.tx) /\ r.row.status # "NONE"
  BY <1>1, UnderWay
<1>4. PICK t \in Txs, loaded \in Row, row \in Row :
        t = r.tx /\ loaded = r.loaded /\ row = r.row
  BY <1>3
<1>5. \/ loaded = NoRow
      \/ rows[t] # NoRow /\ Same(rows[t], loaded, t) /\ Same(row, loaded, t)
  BY <1>1, <1>3, <1>4 DEF VerificationSound
<1>6. PICK m : m = Merged(rows[t], loaded, row)
  OBVIOUS
<1>7. /\ m \in Row /\ m.status # "NONE" /\ Stated(m, t) /\ Real(m, t)
      /\ rows[t] # NoRow => Same(m, rows[t], t)
      /\ m.status = "VERIFIED" => "VERIFIED" \in {rows[t].status, row.status}
  BY <1>1, <1>2, <1>3, <1>4, <1>5, <1>6, CommittedRow
<1>8. rows' = [rows EXCEPT ![t] = m]
  BY <1>1, <1>4, <1>6
<1>9. rows'[t] = m /\ \A u \in Txs : u # t => rows'[u] = rows[u]
  BY <1>2, <1>8 DEF Typed
<1>10. NoRow.status = "NONE"
  BY DEF NoRow
<1>11. Typed'
  <2>1. rows' \in [Txs -> Row]
    BY <1>2, <1>7, <1>8 DEF Typed
  <2>2. cache' \in Entries
    BY <1>1, <1>3, CommittedEntry DEF Entries
  <2>3. request' \in [Workers -> {Idle} \cup Verifications \cup CacheWrites]
    BY <1>1, <1>2, ReplacedRequest
  <2> QED
    BY <1>1, <1>2, <2>1, <2>2, <2>3 DEF Typed, chain
<1>12. ChainInv' /\ Grows
  BY <1>1, <1>2, ChainRests
<1>13. RowsInv'
  <2>1. SUFFICES ASSUME NEW u \in Txs
                 PROVE  /\ rows'[u].status = "NONE" => rows'[u] = NoRow
                        /\ rows'[u] # NoRow => Stated(rows[u], u)' /\ Real(rows[u], u)'
    BY DEF RowsInv
  <2>2. net' = net
    BY <1>1 DEF chain
  <2>3. CASE u = t
    BY <1>7, <1>9, <2>2, <2>3 DEF Stated, Real, About
  <2>4. CASE u # t
    BY <1>2, <1>9, <2>2, <2>4 DEF RowsInv, Stated, Real, About
  <2> QED
    BY <2>3, <2>4
<1>14. RowsGrow
  <2>1. \A u \in Txs : u # t => Same(rows'[u], rows[u], u)
    BY <1>9 DEF Same
  <2> QED
    BY <1>7, <1>9, <1>10, <2>1 DEF RowsGrow
<1>15. Keeps
  BY <1>1, <1>12, <1>14 DEF Keeps
<1>16. \A a \in Agreements :
         /\ cache'[a] \in Entry /\ Behind(cache'[a], a)
         /\ a # About(t) => cache'[a] = cache[a]
         /\ a = About(t) /\ a \notin raced =>
              cache'[a] = r.fresh[a] /\ cache[a].phase <= cache'[a].phase
  BY <1>1, <1>3, <1>4, CommittedEntry
<1>17. \A a \in Agreements : a # About(t) => Undisturbed(a)
  BY <1>9, <1>16 DEF Undisturbed
<1>18. CacheInv'
  <2>1. SUFFICES ASSUME NEW a \in Agreements
                 PROVE  /\ Behind(cache[a], a)'
                        /\ a \notin raced' => Labelled(cache[a], a)' /\ Visible(cache[a], a)'
    BY DEF CacheInv
  <2>2. net' = net /\ phase' = phase /\ Mined' = Mined
    BY <1>1 DEF chain, Mined
  <2>3. Behind(cache[a], a)'
    BY <1>16, <2>2 DEF Behind
  <2>4. ASSUME a \notin raced'
        PROVE  Labelled(cache[a], a)' /\ Visible(cache[a], a)'
    <3>1. CASE a # About(t)
      <4>1. Labelled(cache[a], a) /\ Visible(cache[a], a)
        BY <1>1, <1>2, <2>4 DEF CacheInv
      <4>2. \A u \in Txs : About(u) = a => rows'[u] = rows[u]
        BY <1>9, <3>1
      <4>3. cache'[a] = cache[a]
        BY <1>16, <3>1
      <4> QED
        BY <2>2, <4>1, <4>2, <4>3 DEF Labelled, Visible, Covers, About
    <3>2. CASE a = About(t)
      <4>1. /\ Labelled(r.fresh[a], a) /\ Visible(r.fresh[a], a)
            /\ row.status = "VERIFIED" => Covers(r.fresh[a], t)
        BY <1>1, <1>3, <1>4, <2>4, <3>2 DEF CacheSound
      <4>2. cache'[a] = r.fresh[a]
        BY <1>1, <1>16, <2>4, <3>2
      <4>3. ASSUME NEW u \in Txs, About(u) = a, rows'[u].status = "VERIFIED"
            PROVE  Covers(r.fresh[a], u)
        <5>1. CASE rows[u].status = "VERIFIED"
          BY <4>1, <4>3, <5>1 DEF Visible
        <5>2. CASE rows[u].status # "VERIFIED"
          <6>1. u = t /\ row.status = "VERIFIED"
            BY <1>7, <1>9, <4>3, <5>2
          <6> QED
            BY <4>1, <6>1
        <5> QED
          BY <5>1, <5>2
      <4> QED
        BY <2>2, <4>1, <4>2, <4>3 DEF Labelled, Visible, Covers, About
    <3> QED
      BY <3>1, <3>2
  <2> QED
    BY <2>3, <2>4
<1>19. \A a \in Agreements : a # request[w].agreement => Undisturbed(a)
  BY <1>3, <1>4, <1>17
<1>20. RecordsInv'
  BY ONLY RecordsInv, <1>1, <1>3, <1>11, <1>12, <1>13, <1>15, <1>18, <1>19, w \in Workers, EndsKeeps
<1>21. \A a \in Agreements \ raced' : cache[a].phase <= cache'[a].phase
  <2>1. \A a \in Agreements : cache[a].phase <= cache[a].phase
    BY <1>2, EntryTyped
  <2> QED
    BY <1>1, <1>16, <2>1
<1> QED
  BY <1>15, <1>20, <1>21

LEMMA CommitCacheKeeps ==
  ASSUME RecordsInv, NEW w \in Workers, CommitCache(w)
  PROVE  /\ RecordsInv' /\ Keeps
         /\ \A a \in Agreements \ raced' : cache[a].phase <= cache'[a].phase
         /\ request[w].agreement \in Agreements \ raced' =>
              cache'[request[w].agreement] = request[w].fresh[request[w].agreement]
<1> DEFINE r == request[w]
<1>1. /\ r.stage = "write"
      /\ cache' = [cache EXCEPT ![r.agreement] =
                     Merged(cache[r.agreement], r.snapshot[r.agreement], r.fresh[r.agreement])]
      /\ request' = [request EXCEPT ![w] = Idle]
      /\ rows' = rows /\ UNCHANGED chain /\ raced' = raced
  BY DEF CommitCache, history
<1>2. Typed /\ ChainInv /\ RowsInv /\ CacheInv /\ RequestsInv
  BY DEF RecordsInv
<1>3. r # Idle /\ r.agreement \in Agreements
  BY <1>1, <1>2, KindsOfRequests, NotIdle, CacheWriteFields
<1>4. CacheSound(r)
  BY <1>2, <1>3 DEF RequestsInv
<1>5. \A a \in Agreements :
        /\ cache'[a] \in Entry /\ Behind(cache'[a], a)
        /\ a # r.agreement => cache'[a] = cache[a]
        /\ a = r.agreement /\ a \notin raced =>
             cache'[a] = r.fresh[a] /\ cache[a].phase <= cache'[a].phase
  <2>1. \A a \in Agreements :
          cache'[a] = IF a = r.agreement THEN Merged(cache[a], r.snapshot[a], r.fresh[a])
                      ELSE cache[a]
    BY <1>1, <1>2, <1>3 DEF Typed, Entries
  <2>2. \A a \in Agreements : cache[a] \in Entry /\ Behind(cache[a], a)
    BY <1>2, EntryTyped DEF CacheInv
  <2> QED
    BY <1>3, <2>1, <2>2, CommittedEntry
<1>6. Typed'
  <2>1. DOMAIN cache' = Agreements /\ cache' = [a \in Agreements |-> cache'[a]]
    BY <1>1, <1>2 DEF Typed, Entries
  <2>2. cache' \in Entries
    BY <1>5, <2>1 DEF Entries
  <2>3. request' \in [Workers -> {Idle} \cup Verifications \cup CacheWrites]
    BY <1>1, <1>2, ReplacedRequest
  <2> QED
    BY <1>1, <1>2, <2>2, <2>3 DEF Typed, chain
<1>7. ChainInv' /\ Grows
  BY <1>1, <1>2, ChainRests
<1>8. net' = net /\ phase' = phase /\ Mined' = Mined
  BY <1>1 DEF chain, Mined
<1>9. RowsInv'
  BY <1>1, <1>2, <1>8 DEF RowsInv, Stated, Real, About
<1>10. Keeps
  BY <1>1, <1>7 DEF Keeps, RowsGrow, Same
<1>11. \A a \in Agreements : a # request[w].agreement => Undisturbed(a)
  BY <1>1, <1>5 DEF Undisturbed
<1>12. CacheInv'
  <2>1. SUFFICES ASSUME NEW a \in Agreements
                 PROVE  /\ Behind(cache[a], a)'
                        /\ a \notin raced' => Labelled(cache[a], a)' /\ Visible(cache[a], a)'
    BY DEF CacheInv
  <2>2. Behind(cache[a], a)'
    BY <1>5, <1>8 DEF Behind
  <2>3. ASSUME a \notin raced'
        PROVE  Labelled(cache'[a], a) /\ Visible(cache'[a], a)
    BY <1>1, <1>2, <1>3, <1>4, <1>5, <2>3 DEF CacheInv, CacheSound
  <2> QED
    BY <1>1, <1>8, <2>2, <2>3 DEF Labelled, Visible, Covers, About
<1>13. RecordsInv'
  BY ONLY RecordsInv, <1>1, <1>3, <1>6, <1>7, <1>9, <1>10, <1>11, <1>12, w \in Workers, EndsKeeps
<1>14. \A a \in Agreements \ raced' : cache[a].phase <= cache'[a].phase
  <2>1. \A a \in Agreements : cache[a].phase <= cache[a].phase
    BY <1>2, EntryTyped
  <2> QED
    BY <1>1, <1>5, <2>1
<1> QED
  BY <1>1, <1>5, <1>10, <1>13, <1>14

LEMMA AbortKeeps ==
  ASSUME RecordsInv, NEW w \in Workers, Abort(w)
  PROVE  RecordsInv' /\ Keeps
<1>1. /\ request[w] # Idle /\ request' = [request EXCEPT ![w] = Idle]
      /\ UNCHANGED <<tables, chain>> /\ raced' = raced
  BY DEF Abort, history
<1>2. raced \subseteq raced' /\ Typed
  BY <1>1 DEF RecordsInv
<1>3. ChainInv' /\ RowsInv' /\ CacheInv' /\ Keeps /\ \A a : Undisturbed(a)
  BY ONLY RecordsInv, <1>1, <1>2, TablesRest
<1>4. request' \in [Workers -> {Idle} \cup Verifications \cup CacheWrites]
  BY <1>1, <1>2, ReplacedRequest
<1>5. Typed'
  BY <1>1, <1>2, <1>4 DEF Typed, tables, chain
<1>6. \A a \in Agreements : a # request[w].agreement => Undisturbed(a)
  BY <1>3
<1> QED
  BY ONLY RecordsInv, <1>1, <1>3, <1>5, <1>6, w \in Workers, EndsKeeps

-----------------------------------------------------------------------------
(* The chain                                                               *)

(* A step of the chain: the records and the requests stay, and are still   *)
(* right about a chain that only grows.                                    *)
LEMMA ChainGrows ==
  ASSUME RecordsInv, ChainInv', Grows, UNCHANGED <<rows, cache, request, raced>>,
         net' \in [Txs -> Mining], phase' \in [Agreements -> Nat]
  PROVE  RecordsInv' /\ Keeps
<1>1. Typed /\ ChainInv /\ RowsInv /\ CacheInv
  BY DEF RecordsInv
<1>2. Typed'
  BY <1>1 DEF Typed
<1>3. Keeps
  BY DEF Keeps, RowsGrow, Same
<1>4. RowsInv'
  BY <1>1 DEF RowsInv, Stated, Real, About, Grows
<1>5. CacheInv'
  <2>1. SUFFICES ASSUME NEW a \in Agreements
                 PROVE  /\ Behind(cache[a], a)'
                        /\ a \notin raced' => Labelled(cache[a], a)' /\ Visible(cache[a], a)'
    BY DEF CacheInv
  <2>2. PICK e \in Entry : e = cache[a]
    BY <1>1, EntryTyped
  <2>3. Behind(cache[a], a)'
    <3>1. PICK i \in Nat, j \in Nat, k \in Nat : i = cache[a].phase /\ j = phase[a] /\ k = phase'[a]
      BY <1>1, EntryTyped
    <3>2. i <= j /\ j <= k
      BY <1>1, <3>1 DEF CacheInv, Behind, Grows
    <3>3. i <= k
      BY ONLY <3>2, i \in Nat, j \in Nat, k \in Nat
    <3> QED
      BY <3>1, <3>3 DEF Behind
  <2>4. ASSUME a \notin raced'
        PROVE  Labelled(cache[a], a)' /\ Visible(cache[a], a)'
    <3>1. Labelled(e, a) /\ Visible(e, a)
      BY <1>1, <2>2, <2>4 DEF CacheInv
    <3>2. Labelled(e, a)'
      BY ONLY <1>1, <1>2, <3>1, ChainInv', Grows, LabelKept
    <3>3. \A t \in Txs : About(t) = a /\ rows'[t].status = "VERIFIED" =>
                           rows[t].status = "VERIFIED"
      OBVIOUS
    <3>4. Visible(e, a)'
      BY ONLY <1>1, <3>1, <3>3, Grows, VisibleKept
    <3> QED
      BY <2>2, <3>2, <3>4 DEF Labelled, Visible, Covers, About
  <2> QED
    BY <2>3, <2>4
<1>6. RequestsInv'
  <2>1. {} \in SUBSET Workers
    OBVIOUS
  <2>2. \A v \in Workers \ {} :
          request'[v] = request[v] /\ (request[v] # Idle => Undisturbed(request[v].agreement))
    BY DEF Undisturbed
  <2>3. \A u \in {} : request'[u] # Idle =>
           /\ VerificationSound(request[u])' /\ CacheSound(request[u])'
           /\ \A v \in Workers : /\ v # u
                                 /\ request'[v] # Idle
                                 /\ request'[v].agreement = request'[u].agreement
                                 => request'[u].agreement \notin Agreements \ raced'
    OBVIOUS
  <2> QED
    BY ONLY ChainInv', <1>2, <1>3, <2>1, <2>2, <2>3, RecordsInv, RequestsKept
<1> QED
  BY <1>2, <1>3, <1>4, <1>5, <1>6 DEF RecordsInv

(* What is not mined stays so when it is broadcast or forgotten.           *)
LEMMA PoolKeeps ==
  ASSUME RecordsInv, NEW t \in Txs, Broadcast(t) \/ Drop(t)
  PROVE  RecordsInv' /\ Keeps
<1>1. PICK state \in {"pool", "unknown"} :
        /\ net[t].state \in {"pool", "unknown"}
        /\ net' = [net EXCEPT ![t].state = state]
        /\ phase' = phase /\ UNCHANGED <<rows, cache, request, raced>>
  BY DEF Broadcast, Drop, tables, history
<1>2. Typed /\ ChainInv
  BY DEF RecordsInv
<1>3. net' \in [Txs -> Mining] /\ \A u \in Txs : u # t => net'[u] = net[u]
  BY <1>1, <1>2 DEF Typed, Mining
<1>4. net'[t].state = state /\ net'[t].block = net[t].block /\ net'[t].phase = net[t].phase
  BY <1>1, <1>2 DEF Typed, Mining
<1>5. Mined' = Mined
  BY <1>3, <1>4 DEF Mined
<1>6. state \notin {"success", "reverted"} /\ net[t].state \notin {"success", "reverted"}
  BY <1>1
<1>7. ChainInv'
  <2>1. SUFFICES ASSUME NEW u \in Txs
                 PROVE  /\ net'[u].state \in {"success", "reverted"} <=> u \in Mined
                        /\ net'[u].block <= Cardinality(Mined)
                        /\ net'[u].state = "success" =>
                             About(u) \in Agreements /\ net'[u].phase <= phase[About(u)]
    BY <1>1, <1>2, <1>5 DEF ChainInv, About
  <2>2. CASE u = t
    BY <1>2, <1>4, <1>6, <2>2 DEF ChainInv
  <2>3. CASE u # t
    BY <1>2, <1>3, <2>3 DEF ChainInv
  <2> QED
    BY <2>2, <2>3
<1>8. Grows
  <2>1. \A a \in Agreements : phase[a] <= phase'[a]
    BY <1>1, <1>2, EntryTyped
  <2>2. Cardinality(Mined) <= Cardinality(Mined')
    BY <1>2, <1>5, CardinalityTyped
  <2>3. \A u \in Txs :
          /\ net[u].state \in {"success", "reverted"} => net'[u] = net[u]
          /\ net'[u].state = "success" => net[u].state = "success"
    BY <1>3, <1>4, <1>6
  <2> QED
    BY <2>1, <2>2, <2>3 DEF Grows
<1>9. phase' \in [Agreements -> Nat]
  BY <1>1, <1>2 DEF Typed
<1> QED
  BY <1>1, <1>3, <1>7, <1>8, <1>9, ChainGrows

(* A block is mined: the transaction is the last one.                      *)
LEMMA MinedKeeps ==
  ASSUME RecordsInv, NEW t \in Txs, NEW state \in {"success", "reverted"}, NEW status \in Nat,
         net[t].state = "pool",
         net' = [net EXCEPT ![t] = [state |-> state, block |-> Blocks + 1, phase |-> status]],
         phase' \in [Agreements -> Nat],
         \A a \in Agreements : phase[a] <= phase'[a],
         state = "success" => About(t) \in Agreements /\ status <= phase'[About(t)],
         UNCHANGED <<rows, cache, request, raced>>
  PROVE  RecordsInv' /\ Keeps
<1>1. Typed /\ ChainInv
  BY DEF RecordsInv
<1>2. PICK n \in Nat : n = Cardinality(Mined)
  BY <1>1, CardinalityTyped
<1>3. Blocks = n
  BY <1>2 DEF Blocks, Mined
<1>4. PICK entry : entry = [state |-> state, block |-> n + 1, phase |-> status]
  OBVIOUS
<1>5. /\ entry.state = state /\ entry.block = n + 1 /\ entry.phase = status
      /\ entry \in Mining
  BY <1>4 DEF Mining
<1>6. net' = [net EXCEPT ![t] = entry]
  BY <1>3, <1>4
<1>7. /\ net' \in [Txs -> Mining] /\ net'[t] = entry
      /\ \A u \in Txs : u # t => net'[u] = net[u]
  BY <1>1, <1>5, <1>6 DEF Typed
<1>8. t \notin Mined
  BY <1>1 DEF ChainInv
<1>9. Mined' = Mined \cup {t}
  BY <1>5, <1>7 DEF Mined
<1>10. IsFiniteSet(Mined') /\ Cardinality(Mined') = n + 1
  BY <1>1, <1>2, <1>8, <1>9, FS_AddElement DEF ChainInv
<1>11. ChainInv'
  <2>1. SUFFICES ASSUME NEW u \in Txs
                 PROVE  /\ net'[u].state \in {"success", "reverted"} <=> u \in Mined'
                        /\ net'[u].block <= n + 1
                        /\ net'[u].state = "success" =>
                             About(u) \in Agreements /\ net'[u].phase <= phase'[About(u)]
    BY <1>10 DEF ChainInv, About
  <2>2. CASE u = t
    BY <1>5, <1>7, <1>9, <2>2
  <2>3. CASE u # t
    <3>1. net'[u].state \in {"success", "reverted"} <=> u \in Mined'
      BY <1>1, <1>7, <1>9, <2>3 DEF ChainInv
    <3>2. net'[u].block <= n + 1
      <4>1. net[u].block <= n /\ net[u].block \in Nat
        BY <1>1, <1>2 DEF ChainInv, Typed, Mining
      <4> QED
        BY <1>7, <2>3, <4>1
    <3>3. ASSUME net'[u].state = "success"
          PROVE  About(u) \in Agreements /\ net'[u].phase <= phase'[About(u)]
      <4>1. About(u) \in Agreements /\ net[u].phase <= phase[About(u)]
        BY <1>1, <1>7, <2>3, <3>3 DEF ChainInv
      <4>2. PICK i \in Nat, j \in Nat, k \in Nat :
              i = net[u].phase /\ j = phase[About(u)] /\ k = phase'[About(u)]
        BY <1>1, <4>1 DEF Typed, Mining
      <4>3. i <= j /\ j <= k
        BY <4>1, <4>2
      <4>4. i <= k
        BY ONLY <4>3, i \in Nat, j \in Nat, k \in Nat
      <4> QED
        BY <1>7, <2>3, <4>1, <4>2, <4>4
    <3> QED
      BY <3>1, <3>2, <3>3
  <2> QED
    BY <2>2, <2>3
<1>12. Grows
  <2>1. Cardinality(Mined) <= Cardinality(Mined')
    BY <1>2, <1>10
  <2>2. ASSUME NEW u \in Txs
        PROVE  /\ net[u].state \in {"success", "reverted"} => net'[u] = net[u]
               /\ net'[u].state = "success" =>
                    net[u].state = "success" \/ net'[u].block > Cardinality(Mined)
    <3>1. CASE u = t
      <4>1. net'[u].block > Cardinality(Mined)
        BY <1>2, <1>5, <1>7, <3>1
      <4> QED
        BY <3>1, <4>1
    <3>2. CASE u # t
      BY <1>7, <3>2
    <3> QED
      BY <3>1, <3>2
  <2> QED
    BY <2>1, <2>2 DEF Grows
<1> QED
  BY ONLY RecordsInv, <1>7, <1>11, <1>12, phase' \in [Agreements -> Nat],
          UNCHANGED <<rows, cache, request, raced>>, ChainGrows

LEMMA MineKeeps ==
  ASSUME RecordsInv, NEW t \in Txs,
         MineReverted(t) \/ \E status \in 1..MaxPhase : MineSuccess(t, status)
  PROVE  RecordsInv' /\ Keeps
<1>1. Typed
  BY DEF RecordsInv
<1>2. CASE MineReverted(t)
  <2>1. /\ net[t].state = "pool"
        /\ net' = [net EXCEPT ![t] = [state |-> "reverted", block |-> Blocks + 1, phase |-> 0]]
        /\ phase' = phase /\ UNCHANGED <<rows, cache, request, raced>>
    BY <1>2 DEF MineReverted, tables, history
  <2>2. phase' \in [Agreements -> Nat] /\ \A a \in Agreements : phase[a] <= phase'[a]
    BY <1>1, <2>1, EntryTyped DEF Typed
  <2>3. PICK state \in {"success", "reverted"}, status \in Nat : state = "reverted" /\ status = 0
    OBVIOUS
  <2>4. net' = [net EXCEPT ![t] = [state |-> state, block |-> Blocks + 1, phase |-> status]]
    BY <2>1, <2>3
  <2> QED
    BY <2>1, <2>2, <2>3, <2>4, MinedKeeps
<1>3. CASE \E status \in 1..MaxPhase : MineSuccess(t, status)
  <2>1. PICK status \in 1..MaxPhase : MineSuccess(t, status)
    BY <1>3
  <2>2. status \in Nat
    OBVIOUS
  <2>3. About(t) \in Agreements
    BY <2>1, AboutTyped DEF MineSuccess
  <2>4. PICK a \in Agreements : a = About(t)
    BY <2>3
  <2>5. /\ net[t].state = "pool"
        /\ net' = [net EXCEPT ![t] = [state |-> "success", block |-> Blocks + 1, phase |-> status]]
        /\ phase' = [phase EXCEPT ![a] = status]
        /\ UNCHANGED <<rows, cache, request, raced>>
    BY <2>1, <2>4 DEF MineSuccess, tables, history
  <2>6. phase[a] <= status
    <3>1. \/ phase[a] = 0
          \/ status \in {phase[a], phase[a] + 1}
      BY <2>1, <2>4 DEF MineSuccess
    <3> QED
      BY <1>1, <2>2, <3>1, EntryTyped
  <2>7. phase' \in [Agreements -> Nat] /\ phase'[a] = status
    BY <1>1, <2>2, <2>5 DEF Typed
  <2>8. \A b \in Agreements : phase[b] <= phase'[b]
    <3>1. \A b \in Agreements : b # a => phase'[b] = phase[b]
      BY <1>1, <2>5 DEF Typed
    <3>2. \A b \in Agreements : phase[b] <= phase[b]
      BY <1>1, EntryTyped
    <3> QED
      BY <2>6, <2>7, <3>1, <3>2
  <2>9. About(t) \in Agreements /\ status <= phase'[About(t)]
    BY <2>2, <2>4, <2>7
  <2>10. PICK state \in {"success", "reverted"} : state = "success"
    OBVIOUS
  <2>11. net' = [net EXCEPT ![t] = [state |-> state, block |-> Blocks + 1, phase |-> status]]
    BY <2>5, <2>10
  <2> QED
    BY <2>2, <2>5, <2>7, <2>8, <2>9, <2>11, MinedKeeps
<1> QED
  BY <1>2, <1>3

LEMMA AgeKeeps ==
  ASSUME RecordsInv, NEW t \in Txs, Age(t)
  PROVE  RecordsInv' /\ Keeps
<1>1. UNCHANGED <<rows, cache, request, net, phase, raced>>
  BY DEF Age, tables, chain, history
<1>2. Typed /\ ChainInv
  BY DEF RecordsInv
<1>3. ChainInv' /\ Grows
  BY <1>1, <1>2, ChainRests DEF chain
<1>4. net' \in [Txs -> Mining] /\ phase' \in [Agreements -> Nat]
  BY <1>1, <1>2 DEF Typed
<1> QED
  BY <1>1, <1>3, <1>4, ChainGrows

-----------------------------------------------------------------------------
(* Every step                                                              *)

(* Of an agreement that is not worked on twice, the cache only goes on.    *)
Advances == \A a \in Agreements \ raced' : cache[a].phase <= cache'[a].phase

LEMMA CacheRests ==
  ASSUME Typed, cache' = cache
  PROVE  Advances
<1> QED
  BY EntryTyped DEF Advances

LEMMA RequestStep ==
  ASSUME RecordsInv, NEW w \in Workers, TransactionRequest(w)
  PROVE  RecordsInv' /\ Keeps /\ Advances
<1>1. Typed
  BY DEF RecordsInv
<1>2. ASSUME NEW t \in Txs,
             \/ \E submission \in Submissions : Record(w, t, submission)
             \/ RegisterKnown(w, t) \/ Verify(w, t) \/ BeginIndexing(w, t)
      PROVE  RecordsInv' /\ Keeps /\ Advances
  <2>1. cache' = cache
    BY <1>2 DEF Record, RegisterKnown, Verify, BeginIndexing, Begins, tables
  <2> QED
    BY <1>1, <1>2, <2>1, CacheRests, RecordKeeps, RegisterKnownKeeps, VerifyKeeps,
       BeginIndexingKeeps
<1>3. ASSUME NEW a \in Agreements, BeginRefresh(w, a)
      PROVE  RecordsInv' /\ Keeps /\ Advances
  <2>1. cache' = cache
    BY <1>3 DEF BeginRefresh, Begins, tables
  <2> QED
    BY <1>1, <1>3, <2>1, CacheRests, BeginRefreshKeeps
<1>4. CASE TransactionUnknown(w) \/ TransactionKnown(w) \/ ReceiptUnknown(w) \/ ReceiptKnown(w)
  <2>1. cache' = cache
    BY <1>4 DEF TransactionUnknown, TransactionKnown, ReceiptUnknown, ReceiptKnown, Continues, tables
  <2> QED
    BY <1>1, <1>4, <2>1, CacheRests, TransactionUnknownKeeps, TransactionKnownKeeps,
       ReceiptUnknownKeeps, ReceiptKnownKeeps
<1>5. CASE RefreshFails(w) \/ RefreshSucceeds(w) \/ Abort(w)
  <2>1. cache' = cache
    BY <1>5 DEF RefreshFails, RefreshSucceeds, Abort, Continues, tables
  <2> QED
    BY <1>1, <1>5, <2>1, CacheRests, RefreshFailsKeeps, RefreshSucceedsKeeps, AbortKeeps
<1>6. CASE CommitVerification(w) \/ CommitCache(w)
  BY <1>6, CommitVerificationKeeps, CommitCacheKeeps DEF Advances
<1> QED
  BY <1>2, <1>3, <1>4, <1>5, <1>6 DEF TransactionRequest

LEMMA ChainStepKeeps ==
  ASSUME RecordsInv, NEW t \in Txs, ChainStep(t)
  PROVE  RecordsInv' /\ Keeps /\ Advances /\ request' = request /\ cache' = cache
<1>1. Typed
  BY DEF RecordsInv
<1>2. CASE Broadcast(t) \/ Drop(t)
  <2>1. cache' = cache /\ request' = request
    BY <1>2 DEF Broadcast, Drop, tables
  <2> QED
    BY <1>1, <1>2, <2>1, CacheRests, PoolKeeps
<1>3. CASE MineReverted(t) \/ \E status \in 1..MaxPhase : MineSuccess(t, status)
  <2>1. cache' = cache /\ request' = request
    BY <1>3 DEF MineReverted, MineSuccess, tables
  <2> QED
    BY <1>1, <1>3, <2>1, CacheRests, MineKeeps
<1>4. CASE Age(t)
  <2>1. cache' = cache /\ request' = request
    BY <1>4 DEF Age, tables
  <2> QED
    BY <1>1, <1>4, <2>1, CacheRests, AgeKeeps
<1> QED
  BY <1>2, <1>3, <1>4 DEF ChainStep

LEMMA RecordsStutter ==
  ASSUME RecordsInv, UNCHANGED transactionVars
  PROVE  RecordsInv' /\ Keeps /\ Advances /\ request' = request /\ cache' = cache
<1>1. UNCHANGED <<rows, cache, request, net, phase, raced>>
  BY DEF transactionVars
<1>2. Typed /\ ChainInv
  BY DEF RecordsInv
<1>3. ChainInv' /\ Grows
  BY <1>1, <1>2, ChainRests DEF chain
<1>4. net' \in [Txs -> Mining] /\ phase' \in [Agreements -> Nat]
  BY <1>1, <1>2 DEF Typed
<1> QED
  BY <1>1, <1>2, <1>3, <1>4, ChainGrows, CacheRests

(* A request changes nothing of the others.                                *)
LEMMA OneRequest ==
  ASSUME Typed, NEW w \in Workers, TransactionRequest(w)
  PROVE  /\ \A v \in Workers \ {w} : request'[v] = request[v]
         /\ phase' = phase
<1>0. request \in [Workers -> {Idle} \cup Verifications \cup CacheWrites]
  BY DEF Typed
<1>1. ASSUME NEW r, Begins(w, r)
      PROVE  (\A v \in Workers \ {w} : request'[v] = request[v]) /\ phase' = phase
  BY <1>0, <1>1 DEF Begins, chain
<1>2. ASSUME NEW from, NEW row, NEW stage, Continues(w, from, row, stage)
      PROVE  (\A v \in Workers \ {w} : request'[v] = request[v]) /\ phase' = phase
  BY <1>0, <1>2 DEF Continues, chain
<1>3. ASSUME NEW t \in Txs,
             \/ \E submission \in Submissions : Record(w, t, submission)
             \/ RegisterKnown(w, t) \/ Verify(w, t) \/ BeginIndexing(w, t)
      PROVE  (\A v \in Workers \ {w} : request'[v] = request[v]) /\ phase' = phase
  BY <1>1, <1>3 DEF Record, RegisterKnown, Verify, BeginIndexing
<1>4. ASSUME NEW a \in Agreements, BeginRefresh(w, a)
      PROVE  (\A v \in Workers \ {w} : request'[v] = request[v]) /\ phase' = phase
  BY <1>1, <1>4 DEF BeginRefresh
<1>5. CASE TransactionUnknown(w) \/ TransactionKnown(w) \/ ReceiptUnknown(w) \/ ReceiptKnown(w)
           \/ RefreshFails(w)
  BY <1>2, <1>5 DEF TransactionUnknown, TransactionKnown, ReceiptUnknown, ReceiptKnown, RefreshFails
<1>6. CASE RefreshSucceeds(w)
  BY <1>0, <1>6 DEF RefreshSucceeds, chain
<1>7. CASE CommitVerification(w) \/ CommitCache(w) \/ Abort(w)
  BY <1>0, <1>7 DEF CommitVerification, CommitCache, Abort, chain
<1> QED
  BY <1>3, <1>4, <1>5, <1>6, <1>7 DEF TransactionRequest

-----------------------------------------------------------------------------
(* The beginning                                                           *)

LEMMA RecordsBegin ==
  ASSUME TransactionsInit
  PROVE  RecordsInv
<1>1. /\ \A t \in Txs : rows[t] = NoRow /\ net[t] = NotSent
      /\ \A a \in Agreements : cache[a] = NotIndexed /\ phase[a] = 0
      /\ \A w \in Workers : request[w] = Idle
  BY DEF TransactionsInit
<1>2. NotSent.state = "unknown" /\ NotSent.block = 0 /\ NoRow.status = "NONE"
      /\ NotIndexed.phase = 0 /\ NotIndexed.block = 0
  BY DEF NotSent, NoRow, NotIndexed
<1>3. Typed
  BY NoRowIsRow DEF TransactionsInit, Typed, Entries
<1>4. Mined = {}
  BY <1>1, <1>2 DEF Mined
<1>5. IsFiniteSet(Mined) /\ Cardinality(Mined) = 0
  BY <1>4, FS_EmptySet
<1>6. ChainInv
  BY <1>1, <1>2, <1>4, <1>5 DEF ChainInv
<1>7. RowsInv
  BY <1>1 DEF RowsInv
<1>8. CacheInv
  <2>1. \A a \in Agreements : Behind(cache[a], a)
    BY <1>1, <1>2 DEF Behind
  <2>2. \A a \in Agreements : Labelled(cache[a], a)
    BY <1>1, <1>2, <1>5 DEF Labelled
  <2>3. \A a \in Agreements : Visible(cache[a], a)
    BY <1>1 DEF Visible, Covers
  <2> QED
    BY <2>1, <2>2, <2>3 DEF CacheInv
<1>9. RequestsInv
  BY <1>1 DEF RequestsInv
<1> QED
  BY <1>3, <1>6, <1>7, <1>8, <1>9 DEF RecordsInv

-----------------------------------------------------------------------------
(* The page                                                                *)

LEMMA RepairBegins ==
  ASSUME CacheSyncInit
  PROVE  RepairInv
<1>1. page = Mounted /\ repairer = {} /\ phase[PageOf] = 0
  BY CacheSyncAssumption DEF CacheSyncInit, TransactionsInit
<1> QED
  BY <1>1 DEF RepairInv, Mounted, Pages

(* Where the page does nothing, its repair stays what it is, as long as    *)
(* the request that executes it is untouched.                              *)
LEMMA RepairKept ==
  ASSUME RecordsInv, RecordsInv', Keeps, Advances, RepairInv,
         page' = page, repairer' = repairer,
         \A w \in repairer : request'[w] = request[w]
  PROVE  RepairInv'
<1>1. PageOf \in Agreements /\ raced \subseteq raced' /\ Typed /\ Typed'
  BY CacheSyncAssumption DEF Keeps, RecordsInv
<1>2. page.onchain <= phase'[PageOf]
  <2>1. page.onchain \in Nat
    BY DEF RepairInv, Pages
  <2>2. PICK i \in Nat, j \in Nat, k \in Nat :
          i = page.onchain /\ j = phase[PageOf] /\ k = phase'[PageOf]
    BY <1>1, <2>1 DEF Typed
  <2>3. i <= j /\ j <= k
    BY <1>1, <2>2 DEF RepairInv, Keeps, Grows
  <2>4. i <= k
    BY ONLY <2>3, i \in Nat, j \in Nat, k \in Nat
  <2> QED
    BY <2>2, <2>4
<1>3. ASSUME page.repaired, page.stage = "reloading", PageOf \notin raced'
      PROVE  page.onchain <= cache'[PageOf].phase
  <2>1. page.onchain \in Nat
    BY DEF RepairInv, Pages
  <2>2. PICK i \in Nat, j \in Nat, k \in Nat :
          i = page.onchain /\ j = cache[PageOf].phase /\ k = cache'[PageOf].phase
    BY <1>1, <2>1 DEF Typed, Entries, Entry
  <2>3. i <= j /\ j <= k
    BY <1>1, <1>3, <2>2 DEF RepairInv, Advances
  <2>4. i <= k
    BY ONLY <2>3, i \in Nat, j \in Nat, k \in Nat
  <2> QED
    BY <2>2, <2>4
<1> QED
  BY <1>1, <1>2, <1>3 DEF RepairInv

LEMMA PageFields ==
  ASSUME NEW p \in Pages
  PROVE  /\ p.onchain \in Nat /\ p.cached \in Nat /\ p.repaired \in BOOLEAN
         /\ p.stage \in {"loading", "watching", "refreshing", "reloading", "repaired"}
         /\ p = [onchain |-> p.onchain, cached |-> p.cached, repaired |-> p.repaired,
                 stage |-> p.stage]
<1> QED
  BY DEF Pages

LEMMA ReadContractRepair ==
  ASSUME RecordsInv, RepairInv, ReadContract
  PROVE  RepairInv'
<1>1. /\ page.stage \in {"loading", "watching"}
      /\ page' = [page EXCEPT !.onchain = phase[PageOf]]
      /\ UNCHANGED <<rows, cache, request, net, phase, raced, repairer>>
  BY DEF ReadContract, transactionVars
<1>2. PICK i \in Nat : i = phase[PageOf]
  BY CacheSyncAssumption DEF RecordsInv, Typed
<1>3. page = [onchain |-> page.onchain, cached |-> page.cached, repaired |-> page.repaired,
              stage |-> page.stage] /\ page \in Pages
  BY PageFields DEF RepairInv
<1>4. page' = [page EXCEPT !.onchain = i]
  BY <1>1, <1>2
<1>5. page' = [onchain |-> i, cached |-> page.cached, repaired |-> page.repaired,
               stage |-> page.stage]
  BY ONLY <1>3, <1>4
<1>6. page'.onchain = i /\ page'.repaired = page.repaired /\ page'.stage = page.stage
  BY ONLY <1>5
<1>7. page' \in Pages
  BY <1>3, <1>5, PageFields DEF Pages
<1>8. ~ page.repaired /\ repairer = {}
  BY <1>1 DEF RepairInv
<1>9. page'.onchain <= phase'[PageOf]
  BY <1>1, <1>2, <1>6
<1> QED
  BY <1>1, <1>6, <1>7, <1>8, <1>9 DEF RepairInv

LEMMA ReadStoredRepair ==
  ASSUME RecordsInv, RepairInv, ReadStored
  PROVE  RepairInv'
<1>1. PICK answer \in {cache[PageOf].phase, page.cached} :
        page' = [page EXCEPT
          !.cached = answer,
          !.stage = IF page.stage = "loading" THEN "watching" ELSE "repaired",
          !.repaired = page.repaired /\ answer = cache[PageOf].phase]
  BY DEF ReadStored
<1>2. /\ page.stage \in {"loading", "reloading"}
      /\ UNCHANGED <<rows, cache, request, net, phase, raced, repairer>>
  BY DEF ReadStored, transactionVars
<1>3. page = [onchain |-> page.onchain, cached |-> page.cached, repaired |-> page.repaired,
              stage |-> page.stage] /\ page \in Pages
  BY PageFields DEF RepairInv
<1>4. PICK stage : stage = IF page.stage = "loading" THEN "watching" ELSE "repaired"
  OBVIOUS
<1>5. page' = [[[page EXCEPT !.cached = answer] EXCEPT !.stage = stage]
                 EXCEPT !.repaired = page.repaired /\ answer = cache[PageOf].phase]
  BY <1>1, <1>4
<1>6. page' = [onchain |-> page.onchain, cached |-> answer, stage |-> stage,
               repaired |-> page.repaired /\ answer = cache[PageOf].phase]
  BY ONLY <1>3, <1>5
<1>7. /\ page'.onchain = page.onchain /\ page'.cached = answer /\ page'.stage = stage
      /\ page'.repaired = (page.repaired /\ answer = cache[PageOf].phase)
  BY ONLY <1>6
<1>8. answer \in Nat
  BY <1>3, PageFields, EntryTyped, CacheSyncAssumption DEF RecordsInv
<1>9. page' \in Pages
  BY <1>3, <1>4, <1>6, <1>8, PageFields DEF Pages
<1>10. repairer = {}
  BY <1>2 DEF RepairInv
<1>11. page.repaired => page.stage = "reloading"
  BY <1>2 DEF RepairInv
<1>12. page'.repaired => /\ page.repaired /\ page'.stage = "repaired"
                         /\ page'.cached = cache[PageOf].phase
  BY <1>4, <1>7, <1>11
<1>13. page'.repaired /\ PageOf \notin raced => page'.onchain <= page'.cached
  BY <1>7, <1>11, <1>12 DEF RepairInv
<1> QED
  BY <1>2, <1>4, <1>7, <1>9, <1>10, <1>12, <1>13 DEF RepairInv

LEMMA AskToRefreshRepair ==
  ASSUME RecordsInv, RepairInv, AskToRefresh
  PROVE  RepairInv'
<1>1. page.stage = "watching" /\ page \in Pages /\ Typed
  BY DEF AskToRefresh, RepairInv, RecordsInv
<1>2. ~ page.repaired /\ repairer = {}
  BY <1>1 DEF RepairInv
<1>3. ASSUME NEW stage \in {"refreshing", "reloading"}, page' = [page EXCEPT !.stage = stage]
      PROVE  /\ page' \in Pages /\ page'.onchain = page.onchain /\ page'.stage = stage
             /\ page'.repaired = page.repaired
  <2>1. page = [onchain |-> page.onchain, cached |-> page.cached, repaired |-> page.repaired,
                stage |-> page.stage]
    BY <1>1, PageFields
  <2>2. page' = [onchain |-> page.onchain, cached |-> page.cached, repaired |-> page.repaired,
                 stage |-> stage]
    BY ONLY <1>3, <2>1
  <2>3. page' \in Pages
    BY <1>1, <2>2, PageFields DEF Pages
  <2> QED
    BY <2>2, <2>3
<1>4. CASE page' = [page EXCEPT !.stage = "reloading"] /\ UNCHANGED <<transactionVars, repairer>>
  <2>1. /\ page' \in Pages /\ page'.onchain = page.onchain /\ page'.stage = "reloading"
        /\ page'.repaired = page.repaired
    BY <1>3, <1>4
  <2>2. phase' = phase /\ repairer' = repairer
    BY <1>4 DEF transactionVars
  <2> QED
    BY <1>2, <2>1, <2>2 DEF RepairInv
<1>5. CASE \E w \in Workers : /\ BeginRefresh(w, PageOf)
                              /\ repairer' = {w}
                              /\ page' = [page EXCEPT !.stage = "refreshing"]
  <2>1. PICK w \in Workers : /\ BeginRefresh(w, PageOf)
                             /\ repairer' = {w}
                             /\ page' = [page EXCEPT !.stage = "refreshing"]
    BY <1>5
  <2>2. /\ page' \in Pages /\ page'.onchain = page.onchain /\ page'.stage = "refreshing"
        /\ page'.repaired = page.repaired
    BY <1>3, <2>1
  <2>3. phase' = phase
    BY <2>1 DEF BeginRefresh, Begins, chain
  <2>4. /\ cache[PageOf] # NotIndexed
        /\ request' = [request EXCEPT ![w] =
             [stage |-> "write", agreement |-> PageOf, tx |-> PageOf, snapshot |-> cache,
              fresh |-> [cache EXCEPT ![PageOf] =
                           Refreshed(cache[PageOf], phase[PageOf], 0)]]]
    BY <2>1 DEF BeginRefresh, Begins
  <2>5. PICK fresh : fresh = [cache EXCEPT ![PageOf] = Refreshed(cache[PageOf], phase[PageOf], 0)]
    OBVIOUS
  <2>6. request'[w] = [stage |-> "write", agreement |-> PageOf, tx |-> PageOf,
                       snapshot |-> cache, fresh |-> fresh]
    BY <1>1, <2>4, <2>5 DEF Typed
  <2>7. /\ request'[w].stage = "write" /\ request'[w].agreement = PageOf
        /\ request'[w].fresh = fresh
    BY ONLY <2>6
  <2>8. fresh[PageOf].phase = phase[PageOf]
    <3>1. fresh[PageOf] = Refreshed(cache[PageOf], phase[PageOf], 0)
      BY <1>1, <2>5, CacheSyncAssumption DEF Typed, Entries
    <3> QED
      BY <2>4, <3>1, RefreshedIs
  <2>9. page.onchain <= fresh[PageOf].phase
    BY <2>8 DEF RepairInv
  <2> QED
    BY <1>2, <2>1, <2>2, <2>3, <2>7, <2>9 DEF RepairInv
<1> QED
  BY <1>4, <1>5 DEF AskToRefresh

(* The request ends; what it has committed is what it had read.            *)
LEMMA RefreshesRepair ==
  ASSUME RecordsInv, RepairInv, NEW w \in Workers, NEW committed \in BOOLEAN,
         Refreshes(w, committed), phase' = phase, raced' = raced,
         committed /\ PageOf \notin raced' => cache'[PageOf] = request[w].fresh[PageOf]
  PROVE  RepairInv'
<1>1. /\ repairer = {w} /\ repairer' = {}
      /\ page' = [page EXCEPT !.stage = "reloading", !.repaired = committed]
  BY DEF Refreshes
<1>2. page = [onchain |-> page.onchain, cached |-> page.cached, repaired |-> page.repaired,
              stage |-> page.stage] /\ page \in Pages
  BY PageFields DEF RepairInv
<1>3. page' = [onchain |-> page.onchain, cached |-> page.cached, repaired |-> committed,
               stage |-> "reloading"]
  BY ONLY <1>1, <1>2
<1>4. /\ page'.onchain = page.onchain /\ page'.repaired = committed
      /\ page'.stage = "reloading"
  BY ONLY <1>3
<1>5. page' \in Pages
  BY <1>2, <1>3, PageFields DEF Pages
<1>6. page.onchain <= request[w].fresh[PageOf].phase /\ page.onchain <= phase[PageOf]
  BY <1>1 DEF RepairInv
<1> QED
  BY <1>1, <1>4, <1>5, <1>6 DEF RepairInv

LEMMA RemountRepair ==
  ASSUME RecordsInv, Remount
  PROVE  RepairInv'
<1>1. page' = Mounted /\ repairer' = {} /\ phase' = phase
  BY DEF Remount, transactionVars
<1>2. phase[PageOf] \in Nat /\ 0 <= phase[PageOf]
  BY CacheSyncAssumption, EntryTyped DEF RecordsInv
<1> QED
  BY <1>1, <1>2 DEF RepairInv, Mounted, Pages

-----------------------------------------------------------------------------
(* The theorems                                                            *)

LEMMA TransactionInvBegins == CacheSyncInit => TransactionInv
<1> QED
  BY RecordsBegin, RepairBegins DEF CacheSyncInit, TransactionInv

LEMMA TransactionInvKept ==
  ASSUME TransactionInv, [CacheSyncNext]_cacheSyncVars
  PROVE  TransactionInv'
<1>1. RecordsInv /\ RepairInv /\ Typed
  BY DEF TransactionInv, RecordsInv
<1>2. CASE UNCHANGED cacheSyncVars
  <2>1. UNCHANGED transactionVars /\ page' = page /\ repairer' = repairer
    BY <1>2 DEF cacheSyncVars
  <2>2. RecordsInv' /\ Keeps /\ Advances /\ request' = request
    BY <1>1, <2>1, RecordsStutter
  <2>3. \A v \in repairer : request'[v] = request[v]
    BY <2>2
  <2>4. RepairInv'
    BY ONLY <1>1, <2>1, <2>2, <2>3, RepairKept
  <2> QED
    BY <2>2, <2>4 DEF TransactionInv
<1>3. ASSUME NEW w \in Workers, w \notin repairer, TransactionRequest(w), PageRests
      PROVE  TransactionInv'
  <2>1. RecordsInv' /\ Keeps /\ Advances
    BY <1>1, <1>3, RequestStep
  <2>2. page' = page /\ repairer' = repairer
    BY <1>3 DEF PageRests
  <2>3. \A v \in repairer : request'[v] = request[v]
    <3>1. \A v \in Workers \ {w} : request'[v] = request[v]
      BY <1>1, <1>3, OneRequest
    <3>2. \A v \in repairer : v \in Workers
      BY <1>1 DEF RepairInv
    <3> QED
      BY <1>3, <3>1, <3>2
  <2>4. RepairInv'
    BY ONLY <1>1, <2>1, <2>2, <2>3, RepairKept
  <2> QED
    BY <2>1, <2>4 DEF TransactionInv
<1>4. ASSUME NEW w \in Workers, CommitCache(w), Refreshes(w, TRUE)
      PROVE  TransactionInv'
  <2>1. /\ RecordsInv'
        /\ request[w].agreement \in Agreements \ raced' =>
             cache'[request[w].agreement] = request[w].fresh[request[w].agreement]
    BY <1>1, <1>4, CommitCacheKeeps
  <2>2. request[w].agreement = PageOf
    BY <1>1, <1>4 DEF Refreshes, RepairInv
  <2>3. PageOf \notin raced' => cache'[PageOf] = request[w].fresh[PageOf]
    BY <2>1, <2>2, CacheSyncAssumption
  <2>4. phase' = phase /\ raced' = raced
    BY <1>4 DEF CommitCache, chain, history
  <2>5. PICK committed \in BOOLEAN : committed = TRUE
    OBVIOUS
  <2>6. Refreshes(w, committed)
    BY <1>4, <2>5
  <2>7. RepairInv'
    BY <1>1, <2>3, <2>4, <2>6, RefreshesRepair
  <2> QED
    BY <2>1, <2>7 DEF TransactionInv
<1>5. ASSUME NEW w \in Workers, Abort(w), Refreshes(w, FALSE)
      PROVE  TransactionInv'
  <2>1. RecordsInv'
    BY <1>1, <1>5, AbortKeeps
  <2>2. phase' = phase /\ raced' = raced
    BY <1>5 DEF Abort, chain, history
  <2>3. PICK committed \in BOOLEAN : committed = FALSE
    OBVIOUS
  <2>4. Refreshes(w, committed)
    BY <1>5, <2>3
  <2>5. RepairInv'
    BY <1>1, <2>2, <2>3, <2>4, RefreshesRepair
  <2> QED
    BY <2>1, <2>5 DEF TransactionInv
<1>6. ASSUME NEW t \in Txs, ChainStep(t), PageRests
      PROVE  TransactionInv'
  <2>1. RecordsInv' /\ Keeps /\ Advances /\ request' = request
    BY <1>1, <1>6, ChainStepKeeps
  <2>2. page' = page /\ repairer' = repairer
    BY <1>6 DEF PageRests
  <2>3. \A v \in repairer : request'[v] = request[v]
    BY <2>1
  <2>4. RepairInv'
    BY ONLY <1>1, <2>1, <2>2, <2>3, RepairKept
  <2> QED
    BY <2>1, <2>4 DEF TransactionInv
<1>7. CASE ReadContract \/ ReadStored \/ Remount
  <2>1. UNCHANGED transactionVars
    BY <1>7 DEF ReadContract, ReadStored, Remount
  <2>2. RecordsInv'
    BY <1>1, <2>1, RecordsStutter
  <2>3. RepairInv'
    BY <1>1, <1>7, ReadContractRepair, ReadStoredRepair, RemountRepair
  <2> QED
    BY <2>2, <2>3 DEF TransactionInv
<1>8. CASE AskToRefresh
  <2>1. UNCHANGED transactionVars \/ \E w \in Workers : BeginRefresh(w, PageOf)
    BY <1>8 DEF AskToRefresh
  <2>2. RecordsInv'
    BY <1>1, <2>1, RecordsStutter, BeginRefreshKeeps, CacheSyncAssumption
  <2>3. RepairInv'
    BY <1>1, <1>8, AskToRefreshRepair
  <2> QED
    BY <2>2, <2>3 DEF TransactionInv
<1>9. CASE CacheSyncNext
  BY ONLY <1>3, <1>4, <1>5, <1>6, <1>7, <1>8, <1>9 DEF CacheSyncNext
<1> QED
  BY <1>2, <1>9

LEMMA TransactionInvHolds == CacheSyncSpec => []TransactionInv
<1>1. TransactionInv /\ [CacheSyncNext]_cacheSyncVars => TransactionInv'
  BY TransactionInvKept
<1> QED
  BY TransactionInvBegins, <1>1, PTL DEF CacheSyncSpec

(* However many passes verify a hash at once, and whoever recorded it:     *)
(* what the backend calls a success or a revert is one on chain, and a     *)
(* success is of the wallet, the function and the agreement recorded       *)
(* (verify_transaction, services/transactions.py).                         *)
THEOREM RecordedOutcomesAreReal == CacheSyncSpec => []OutcomesAreReal
<1>1. TransactionInv => OutcomesAreReal
  <2>1. SUFFICES ASSUME RowsInv, NEW t \in Txs
                 PROVE  /\ rows[t].status \in {"MINED_SUCCESS", "VERIFIED"} =>
                             /\ net[t].state = "success"
                             /\ rows[t].wallet = Call[t].sender
                             /\ rows[t].function = Call[t].function
                             /\ rows[t].agreement = About(t)
                        /\ rows[t].status = "MINED_REVERTED" => net[t].state = "reverted"
    BY DEF TransactionInv, RecordsInv, OutcomesAreReal
  <2>2. NoRow.status = "NONE"
    BY DEF NoRow
  <2>3. CASE rows[t] = NoRow
    BY <2>2, <2>3
  <2>4. CASE rows[t] # NoRow
    BY <2>1, <2>4 DEF RowsInv, Real
  <2> QED
    BY <2>3, <2>4
<1> QED
  BY TransactionInvHolds, <1>1, PTL

(* The cached status of an agreement is never ahead of the contract, and,  *)
(* unless two requests worked on the agreement at once, it shows every     *)
(* verified transaction and every one up to the block it is labelled with  *)
(* (refresh_agreement_cache, services/transactions.py).                    *)
THEOREM CacheIsNeverAhead == CacheSyncSpec => []CacheKeepsUp
<1>1. TransactionInv => CacheKeepsUp
  <2>1. SUFFICES ASSUME CacheInv, NEW a \in Agreements
                 PROVE  /\ cache[a].phase <= phase[a]
                        /\ cache[a] # NotIndexed /\ a \notin raced =>
                             \A t \in Txs :
                               /\ About(t) = a
                               /\ net[t].state = "success"
                               /\ rows[t].status = "VERIFIED" \/ net[t].block <= cache[a].block
                               => net[t].phase <= cache[a].phase
    <3>1. ASSUME Typed, NEW a \in Agreements, NEW t \in Txs
          PROVE  net[t].phase <= cache[a].phase => cache[a].phase >= net[t].phase
      <4>1. cache[a].phase \in Nat /\ net[t].phase \in Nat
        BY <3>1, EntryTyped DEF Typed, Mining
      <4> QED
        BY <4>1
    <3> QED
      BY <2>1, <3>1 DEF TransactionInv, RecordsInv, CacheKeepsUp
  <2>2. cache[a].phase <= phase[a]
    BY <2>1 DEF CacheInv, Behind
  <2>3. ASSUME cache[a] # NotIndexed, a \notin raced, NEW t \in Txs, About(t) = a,
               net[t].state = "success",
               rows[t].status = "VERIFIED" \/ net[t].block <= cache[a].block
        PROVE  net[t].phase <= cache[a].phase
    BY <2>1, <2>3 DEF CacheInv, Labelled, Visible, Covers
  <2> QED
    BY <2>2, <2>3
<1> QED
  BY TransactionInvHolds, <1>1, PTL

(* A repair that a page asked for repairs: once it is committed and the    *)
(* stored status read again, that is no older than the status on chain     *)
(* that the page disagreed with it about, unless another request worked on *)
(* the agreement at once (useAgreementCacheSync.ts).                       *)
THEOREM ARepairRepairs == CacheSyncSpec => []RepairCatchesUp
<1>1. TransactionInv => RepairCatchesUp
  <2>1. SUFFICES ASSUME RepairInv, page.repaired, page.stage = "repaired", PageOf \notin raced
                 PROVE  page.cached >= page.onchain
    BY DEF TransactionInv, RepairCatchesUp
  <2>2. page.onchain \in Nat /\ page.cached \in Nat
    BY <2>1, PageFields DEF RepairInv
  <2>3. page.onchain <= page.cached
    BY <2>1 DEF RepairInv
  <2> QED
    BY <2>2, <2>3
<1> QED
  BY TransactionInvHolds, <1>1, PTL
=============================================================================
