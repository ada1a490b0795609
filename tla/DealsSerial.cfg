\* One worker: requests, sweeps included, one after the other.
SPECIFICATION Spec
CONSTANTS
  l1 = l1
  o1 = o1
  Lots = {l1}
  Offers = {o1, o2}
  Payments = {p1, p2}
  LotOf <- MCLotOf
  OfferOf <- MCOfferOf
  Workers = {w1}
  Cron = {}
  Workload <- Operations
  Failing = {}
  SWEEP_LIMIT = 2
  None = None
INVARIANTS
  LotFitsItsDeals
PROPERTIES
  ImplementsMarket
  ClosedLotStaysClosed
