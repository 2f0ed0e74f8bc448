SPECIFICATION DraftPageSpec
CONSTANTS
  alice = alice
  bob = bob
  rita = rita
  NoTx = NoTx
  NoTerms = NoTerms
  NoUser = NoUser
  Users = {alice, bob, rita}
  Workers = {w1, w2}
  DraftIds = {d1, d2}
  Txs = {x1, x2}
  Terms <- TwoTerms
  Creations <- SomeCreations
  Me = alice
  Signers = {alice}
  NotPrepared = NotPrepared
  MaxCreations = 1
SYMMETRY Interchangeable
INVARIANTS
  IndexIsTheChain
  SignedIsAgreed
  PreparedCanBeConfirmed
  DoneIsRegistered
PROPERTIES
  ConfirmedIsImmutable
\* Every draft may be deleted: the system really stops.
CHECK_DEADLOCK FALSE
