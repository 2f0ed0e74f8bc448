SPECIFICATION PagesSpec
CONSTANTS
  alice = alice
  bob = bob
  rita = rita
  h1 = h1
  NoWallet = NoWallet
  NoHash = NoHash
  Hashes = {h1}
  Wallets = {alice, bob, rita}
  Refusing = {}
  Users = {alice, bob}
  Nobody = Nobody
  MAX_UINT128 = 2
  MAX_CLAIMS = 0
  MIN_TENANTS = 2
  MAX_TENANTS = 3
  Proposals <- NoProposals
  MaxAgreements = 1
  MaxTime = 1
  MaxForced = 0
  NoDate = NoDate
  NoAmount = NoAmount
  Blank = Blank
  Garbage = Garbage
  TypedWallets = {alice, bob, rita, NoWallet, Garbage}
  TypedAmounts = {0, 1, 2, 4}
  TypedBasics <- SomeBasics
  TypedLabels = {TRUE, FALSE}
  MAX_DECIMAL = 3
  MaxStored = 1
  NoBody = NoBody
  NoDraft = NoDraft
  MONAD = MONAD
  Chains = {MONAD, Other}
  Unread = Unread
  NoAnswer = NoAnswer
  NoReport = NoReport
  MaxRuns = 2
  MaxChanges = 2
CONSTRAINT OneOddity
INVARIANTS
  DraftIsCreatable
  ReviewedIsAccepted
  
\* The bounds are reached and every page may have nothing to do.
CHECK_DEADLOCK FALSE
