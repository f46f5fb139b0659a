SPECIFICATION LoopFairSpec
CONSTANTS
  NoTime = NoTime
  Symbols = {"SPY", "QQQ"}
  Contents = {"bar", "quote"}
  Feeds <- MCFeeds
  Policies <- MCPolicies
  MaxTime = 4
INVARIANTS HandledOnceInOrder HandledWithoutGap NothingLost
PROPERTIES EventuallyStops
CHECK_DEADLOCK FALSE
