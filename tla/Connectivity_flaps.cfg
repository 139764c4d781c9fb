SPECIFICATION FairSpec
CONSTANTS
  OfflineDelay = 5
  OnlineDelay = 1
  MaxPending = 3
  None = None
INVARIANTS TypeOK LeftoversHaveATimer OutageIsDecided
PROPERTY BarComesTrue
CHECK_DEADLOCK FALSE
