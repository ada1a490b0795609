\* Two request threads; any call may fail.
SPECIFICATION Spec
CONSTANTS
  Harvests = {h1, h2}
  Pools = {q1, q2}
  Weight <- MCWeight
  MaxIds = 2
  MaxOffers = 1
  Workers = {w1, w2}
  MayFail = TRUE
  None = None
SYMMETRY MCSymmetry
INVARIANTS
  PoolsConsistent
  SoldOnce
  MatchedIsPooled
