\* Two offers, a payment and a grievance each; two request threads; any call may fail.
SPECIFICATION Spec
CONSTANTS
  o1 = o1
  o2 = o2
  p1 = p1
  p2 = p2
  p3 = p3
  g1 = g1
  g2 = g2
  Offers = {o1, o2}
  Payments = {p1, p3}
  Grievances = {g1}
  OfferOf <- MCOfferOf
  Seed = "medium"
  Workers = {w1, w2}
  MayFail = TRUE
INVARIANTS
  GradesConsistent
  GradeFollowsRecord
