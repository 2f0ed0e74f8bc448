SPECIFICATION InvitationPagesSpec
CONSTANTS
  alice = alice
  rita = rita
  Nobody = Nobody
  Users = {alice, rita}
  Creator = alice
  Slots <- Recipient
  Workers = {w1, w2}
  Tabs = {t1}
  Panel = Panel
  Others = Others
  TTL = 1
  MaxInvitations = 2
  MaxRotated = 1
  MaxTime = 1
SYMMETRY Interchangeable
INVARIANTS
  OneJoinPerLine
  UsableTokensDoNotCoexist
  JoinedIsTrue
  DeadLinksAreDead
\* No room for another row and the end of time: the system really stops.
CHECK_DEADLOCK FALSE
