SPECIFICATION Spec
CONSTANTS
  NoPortfolio = NoPortfolio
  Configs <- MCConfigs
  MaxOrders = 3
  MaxDecisions = 2
  MaxDeposits = 1
  MaxRestarts = 1
INVARIANTS AtMostOneUnmatchedOrder NoUnknownOrder
PROPERTIES StoppedForGood PlacedThroughTheGates
CHECK_DEADLOCK FALSE
