SPECIFICATION Spec
CONSTANTS
  Orders = {order}
  NoOrder = NoOrder
  Quantities <- MCQuantities
  MaxShares = 2
  Adapters = {alpaca}
  AsyncCancel = TRUE
  Older = {0}
  MaxTime = 5
  MaxRestarts = 1
INVARIANTS NeverOvercounts
CHECK_DEADLOCK FALSE
