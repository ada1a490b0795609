------------------------------ MODULE Matching ------------------------------
(***************************************************************************)
(* Which buyer suits a lot, and which lots suit a buyer.  Scores are in    *)
(* twentieths of a point, which keeps 35 * (1 - dist / 100) whole without  *)
(* its rounding to a tenth.                                                *)
(*                                                                         *)
(*   buyer: verified, commodity (or Unstated), district, distance to the   *)
(*          farmer in km (or Unstated), max_price, demand (or Unstated),   *)
(*          reliability, and the grades that the text of its quality       *)
(*          requirements contains                                          *)
(*   lot:   commodity, district (of its market, or Unstated),              *)
(*          asking_price (or Unstated), quantity, grade, status            *)
(***************************************************************************)
EXTENDS Integers, FiniteSets, FiniteSetsExt

CONSTANTS
  LOTS_LIMIT,  \* lots buyer_supply reads, whichever they are
  SHOWN,       \* lots of its ranking that buyer_supply answers with
  FAR,         \* the distance a buyer without one is ranked by
  Unstated

ASSUME MatchingAssumption ==
  /\ LOTS_LIMIT \in Nat /\ SHOWN \in Nat
  /\ FAR \in Nat
  /\ Unstated \notin Int

Points(condition, n) == IF condition THEN 20 * n ELSE 0

\* A buyer without a commodity takes any.
Wants(buyer, lot) == buyer.commodity \in {Unstated, lot.commodity}

PriceFit(bid, ask) ==
  IF Unstated \in {bid, ask} THEN 0 ELSE IF bid >= ask THEN 20 * 20 ELSE -(20 * 15)

VolumeFit(buyer, lot) == buyer.demand # Unstated /\ buyer.demand >= lot.quantity

\* What counts beside where the two are.
Terms(buyer, lot) ==
  PriceFit(buyer.max_price, lot.asking_price)
  + Points(VolumeFit(buyer, lot), 15) + Points(lot.grade \in buyer.grades, 10)

Closeness(d) ==
  IF d = Unstated THEN 0 ELSE IF d <= 100 THEN 7 * (100 - d) ELSE -(20 * 15)

Reliability(r) == Points(r = "high", 10) - Points(r = "low", 15)

\* score_buyer; who is not verified or wants another crop is no candidate.
Candidate(buyer, lot) == buyer.verified /\ Wants(buyer, lot)

Score(lot, district, buyer) ==
  Points(buyer.district = district, 25) + Closeness(buyer.distance) + Points(TRUE, 15)
  + Terms(buyer, lot) + Reliability(buyer.reliability)

\* x["distance_km"] or 10**9: a distance of 0 is none.
TieKey(d) == IF d \in {Unstated, 0} THEN FAR ELSE d

\* Slip: who is no worse comes first.
Before_NotStrict(lot, district, a, b) == Score(lot, district, a) >= Score(lot, district, b)

Before(lot, district, a, b) ==
  LET sa == Score(lot, district, a)
      sb == Score(lot, district, b)
  IN sa > sb \/ (sa = sb /\ TieKey(a.distance) < TieKey(b.distance))

\* The buyers rank_buyers may list first.
BestBuyers(lot, district, buyers) ==
  LET cs == {b \in buyers : Candidate(b, lot)}
  IN {b \in cs : \A c \in cs : ~Before(lot, district, c, b)}

\* score_lot_for_buyer, of a lot on offer that the buyer wants.
Fits(buyer, lot) == lot.status \in {"open", "offered"} /\ Wants(buyer, lot)

LotScore(buyer, lot) ==
  Points(buyer.district # Unstated /\ buyer.district = lot.district, 25) + Terms(buyer, lot)

\* The first SHOWN of the ranking of some lots; which of equal ones, the order they were
\* read in decides.
FirstShown(buyer, fitting) ==
  {shown \in kSubset(Min({SHOWN, Cardinality(fitting)}), fitting) :
     \A l \in fitting \ shown, k \in shown : LotScore(buyer, l) <= LotScore(buyer, k)}

\* What buyer_supply may answer: the limit comes before the filter, the cut after it.
SupplyAnswers(buyer, lots) ==
  UNION {FirstShown(buyer, {l \in read : Fits(buyer, l)}) :
           read \in kSubset(Min({LOTS_LIMIT, Cardinality(lots)}), lots)}

-----------------------------------------------------------------------------
Alike(a, b, fields) == \A f \in DOMAIN a \ fields : a[f] = b[f]

\* A buyer of the farmer's district within 25 km comes before one of another district
\* beyond 100 km who differs from him in nothing but the bid, whatever the two bid
\* (matching_engine.py: "locality dominates").
LocalityBeatsBid(lot, district, near, far) ==
  (/\ Alike(near, far, {"district", "distance", "max_price"})
   /\ near.district = district /\ near.distance # Unstated /\ near.distance <= 25
   /\ far.district # district /\ far.distance # Unstated /\ far.distance > 100)
    => Before(lot, district, near, far)

\* Of two buyers who differ in the distance only the nearer one comes first, beyond
\* the distance that scores as well as within it, as long as it is not 0.
NearerComesFirst(lot, district, a, b) ==
  (/\ Alike(a, b, {"distance"}) /\ Unstated \notin {a.distance, b.distance}
   /\ 0 < a.distance /\ a.distance < b.distance)
    => Before(lot, district, a, b)

\* A verified buyer is among the candidates for every lot on offer that his supply shows,
\* and it shows every lot he is a candidate for unless it is full of others that score
\* no less: as long as there are no more lots than it reads.
TwoSidesAgree(buyers, lots) ==
  Cardinality(lots) <= LOTS_LIMIT =>
    \A b \in {c \in buyers : c.verified} : \A shown \in SupplyAnswers(b, lots) :
      LET suited == {l \in lots : l.status \in {"open", "offered"} /\ Candidate(b, l)}
      IN /\ shown \subseteq suited
         /\ \A l \in suited \ shown :
              /\ Cardinality(shown) = SHOWN
              /\ \A k \in shown : LotScore(b, l) <= LotScore(b, k)
=============================================================================
