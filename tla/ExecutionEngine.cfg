SPECIFICATION FairSpec
CONSTANTS
  Orders = {order}
  NoOrder = NoOrder
  Quantities <- MCQuantities
  MaxShares = 2
  Adapters = {alpaca}
  AsyncCancel = FALSE
  Older = {0, 100}
  MaxTime = 3
  MaxRestarts = 1
INVARIANTS NeverOvercounts FilledMeansFilled FreshSnapshotIsTracked SharesInv
PROPERTIES ImplementsBooking LifecycleNeverRegresses EventuallyAgrees
CHECK_DEADLOCK FALSE
