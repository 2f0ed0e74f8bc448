SPECIFICATION SessionsSpec
CONSTANTS
  w1 = w1
  w2 = w2
  tab1 = tab1
  tab2 = tab2
  Wallets = {w1, w2}
  NoWallet = NoWallet
  Tabs = {tab1, tab2}
  Slots = {1, 2}
  Repeated = {1}
  MaxNonces = 2
  MaxLoads = 2
  MaxAbandoned = 1
  MaxSwitches = 1
CONSTRAINT OverlapsEarly
SYMMETRY Interchangeable
INVARIANTS
  NonceBuysOneSession
  SignedInCanWrite
PROPERTIES
  SignOutRevokesUnlessCrossed
\* Every bound may be reached with nothing under way: the system really stops.
CHECK_DEADLOCK FALSE
