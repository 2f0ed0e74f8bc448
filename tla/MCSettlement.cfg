SPECIFICATION SettlementSpec
CONSTANTS
  MaxTenants = 4
  MaxRemaining = 4
INVARIANTS
  FollowsLargestRemainder
  NeverRevertsDefensively
\* One computation per input, then nothing is left to do.
CHECK_DEADLOCK FALSE
