SPECIFICATION ReentrantSpec
CONSTANTS
  t1 = t1
  t2 = t2
  t3 = t3
  rec = rec
  h1 = h1
  NoWallet = NoWallet
  NoHash = NoHash
  Hashes = {h1}
  MIN_TENANTS = 2
  MAX_TENANTS = 8
  Wallets = {t1, t2, t3, rec}
  Contracts = {t3, rec}
  Refusing = {}
  MAX_UINT128 = 4
  MAX_CLAIMS = 1
  Proposals <- ThreeTenants
  MaxAgreements = 1
  MaxTime = 4
  MaxForced = 1
INVARIANTS
  SoundDuringCalls
  BallotDecides
  SettlementExact
\* Finished agreements and the end of time: the system really stops.
CHECK_DEADLOCK FALSE
