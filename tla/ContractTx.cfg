SPECIFICATION ContractTxSpec
CONSTANTS
  me = me
  other = other
  Wallets = {me, other}
  NoWallet = NoWallet
  Session = me
  Actions = {deposit}
  NoAction = NoAction
  Txs = {x1}
  NoTx = NoTx
  Capacity = 2
  Shown = 2
  MaxSends = 2
  MaxEntries = 3
  MaxTasks = 2
  MaxUpsets = 1
INVARIANTS
  OutcomesHonest
  NothingIsForgotten
  SingleFlightUnlessRaced
PROPERTIES
  LocksEndByAnswer
  PendingSettles
\* Every entry may be final and every bound reached: the system really stops.
CHECK_DEADLOCK FALSE
