\* One request thread, whose calls may fail, and the scheduler thread, whose calls do not.
SPECIFICATION FairSpec
CONSTANTS
  l1 = l1
  o1 = o1
  Lots = {l1}
  Offers = {o1, o2}
  Payments = {p1}
  LotOf <- MCLotOf
  OfferOf <- MCOfferOf
  Workers = {w1, c1}
  Cron = {c1}
  Workload <- Operations
  Failing = {w1}
  SWEEP_LIMIT = 1
  None = None
PROPERTIES
  StaleOffersExpire
