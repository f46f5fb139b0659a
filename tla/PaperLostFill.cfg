SPECIFICATION Spec
CONSTANTS
  Orders = {order}
  NoOrder = NoOrder
  NoPoll = NoPoll
  Quantities <- MCQuantities
  MaxShares = 2
  AsyncCancel = FALSE
  Older = {0}
  MaxTime = 4
  Vendors = {"alpaca"}
  Channels = {"stream"}
  BookingFails = TRUE
  MaxRestarts = 0
INVARIANTS CheckpointedIsBooked
CHECK_DEADLOCK FALSE
