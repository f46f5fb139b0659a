SPECIFICATION Spec
CONSTANTS
  Symbols = {"SPY", "QQQ"}
  Fills <- MCFills
  Prices <- MCPrices
  StartingCash = 600
  MaxFills = 3
INVARIANTS TypeOK CashLedgerExplainsCash TradeLedgerExplainsPositions BookedOnce
  ProfitExplainsEquity
CHECK_DEADLOCK FALSE
