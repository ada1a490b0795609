\* Two overlapping handlers, any call may fail; every payment is for one offer.
SPECIFICATION LateSpec
CONSTANTS
  l1 = l1
  o1 = o1
  Lots = {l1}
  Offers = {o1}
  Payments = {p1, p2}
  LotOf <- MCLotOf
  OfferOf <- MCOfferOf
  Workers = {w1, w2}
  Cron = {}
  Workload <- Operations
  Failing = {w1, w2}
  SWEEP_LIMIT = 1
  None = None
INVARIANTS
  TypeOK
  OneOpenPaymentPerOffer
  SettlementHasGround
PROPERTIES
  OnlyLateWritesTakeBack
  FreshOfferNotExpired
