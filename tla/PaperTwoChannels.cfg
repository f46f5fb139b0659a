SPECIFICATION Spec
CONSTANTS
  Orders = {order}
  NoOrder = NoOrder
  NoPoll = NoPoll
  Quantities <- MCQuantities
  MaxShares = 2
  AsyncCancel = FALSE
  Older = {0}
  MaxTime = 4
  Vendors = {"alpaca"}
  Channels = {"both"}
  BookingFails = FALSE
  MaxRestarts = 0
INVARIANTS NeverOverbooks
CHECK_DEADLOCK FALSE
