SPECIFICATION Spec
CONSTANTS
  Symbols = {"QQQ", "SPY"}
  Bars <- MCBars
  Rank <- MCRank
  Requests <- MCRequests
  FillPolicies = {"next_bar_open", "next_bar_close", "next_bar_typical_price"}
  StartingCash = 12000
  CommissionModel <- FixedCommission
  SlippageModel <- FixedSlippage
  MaxFillQuantity = 40
  TicksPerDay = 2
  MaxOrders = 2
  MaxTime = 3
INVARIANTS OpenOrdersAreOpen
CHECK_DEADLOCK FALSE
