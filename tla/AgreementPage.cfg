SPECIFICATION PageSpec
CONSTANTS
  t1 = t1
  t2 = t2
  rec = rec
  h1 = h1
  NoWallet = NoWallet
  NoHash = NoHash
  NoRead = NoRead
  Nobody = Nobody
  Hashes = {h1}
  MIN_TENANTS = 2
  MAX_TENANTS = 8
  Wallets = {t1, t2, rec}
  Users = {t1, rec}
  Refusing = {}
  MAX_UINT128 = 3
  MAX_CLAIMS = 1
  Proposals <- Collecting
  MaxAgreements = 1
  MaxTime = 2
  MaxForced = 0
  MaxFlights = 1
  MaxSwitches = 1
INVARIANTS
  OfferedIffAccepted
  VerifiedUnlessDisturbed
PROPERTIES
  PageCatchesUp
\* Reading unchanged data changes nothing: the page may have nothing to do.
CHECK_DEADLOCK FALSE
