SPECIFICATION FairSpec
CONSTANTS
  t1 = t1
  t2 = t2
  rec = rec
  h1 = h1
  NoWallet = NoWallet
  NoHash = NoHash
  Hashes = {h1}
  MIN_TENANTS = 2
  MAX_TENANTS = 8
  Wallets = {t1, t2, rec}
  Refusing = {t2}
  MAX_UINT128 = 3
  MAX_CLAIMS = 2
  Proposals <- AnyProposal
  MaxAgreements = 1
  MaxTime = 5
  MaxForced = 0
INVARIANTS
  TypeOK
  Solvent
  AmountsFit
  FundingBooks
  ClaimBooks
  ClaimsCovered
PROPERTIES
  DecisionsFinal
  ImplementsVault
  EveryoneIsPaid
\* Finished agreements and the end of time: the system really stops.
CHECK_DEADLOCK FALSE
