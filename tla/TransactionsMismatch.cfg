SPECIFICATION CacheSyncSpec
CONSTANTS
  x1 = x1
  x2 = x2
  a1 = a1
  alice = alice
  bob = bob
  NoAgreement = NoAgreement
  Workers = {w1}
  Txs = {x1}
  Agreements = {a1}
  Call <- CreateOnly
  Submissions <- TrueAndFalse
  PageOf = a1
  MaxPhase = 2
  MaxRequests = 3
INVARIANTS
  MismatchIsContradiction
\* Everything may have been recorded and verified: the system really stops.
CHECK_DEADLOCK FALSE
