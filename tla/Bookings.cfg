\* Two request threads; any call may fail.
SPECIFICATION Spec
CONSTANTS
  l1 = l1
  store = store
  b1 = b1
  Lots = {l1}
  Options = {store}
  Bookings = {b1, b2, b3, b4}
  LotOf <- MCLotOf
  OptionOf <- MCOptionOf
  Qty <- MCQty
  Capacity <- MCCapacity
  Workers = {w1, w2}
  MayFail = TRUE
  None = None
INVARIANTS
  BookingsConsistent
  CapacityKept
PROPERTIES
  RefusalsHold
