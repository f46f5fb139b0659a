SPECIFICATION FairSpec
CONSTANTS
  Orders = {order}
  NoOrder = NoOrder
  NoPoll = NoPoll
  Quantities <- MCQuantities
  MaxShares = 2
  AsyncCancel = FALSE
  Older = {0, 100, 500}
  MaxTime = 3
  Vendors = {"alpaca", "ibkr"}
  Channels = {"poll", "stream"}
  BookingFails = FALSE
  MaxRestarts = 1
INVARIANTS NeverOvercounts CheckpointedIsBooked
PROPERTIES ImplementsBooking QuietPollCatchesUp EventuallyBooked
CHECK_DEADLOCK FALSE
