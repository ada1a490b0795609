----------------------------- MODULE SaleWindow -----------------------------
(***************************************************************************)
(* Sell, hold or wait: compute_sale_window, and the next logistics step of *)
(* lot_advice.  Unlike Series it reads the price rows as they come, newest *)
(* date first, and takes the first one for today's price: rows of one date *)
(* come in any order.  Percentages are compared in whole numbers.          *)
(***************************************************************************)
EXTENDS Integers, FiniteSets, SequencesExt, FiniteSetsExt

CONSTANTS
  HIGH_ARRIVAL_QTL, HIGH_DISTRICT_ARRIVAL_QTL, LOW_ARRIVAL_QTL,
  NEARBY_STORAGE_KM,
  STORAGE_LIMIT,   \* godowns the query returns, whichever they are
  FORECAST_LIMIT,  \* forecast rows it returns, earliest date first
  Unknown          \* a null quantity, distance or price

ASSUME SaleWindowAssumption ==
  /\ STORAGE_LIMIT \in Nat /\ FORECAST_LIMIT \in Nat \ {0}
  /\ LOW_ARRIVAL_QTL \in Nat /\ HIGH_ARRIVAL_QTL \in Nat
  /\ Unknown \notin Int

-----------------------------------------------------------------------------
(***************************************************************************)
(* What is read                                                            *)
(***************************************************************************)
Youngest(rows) == {r \in rows : \A q \in rows : r.age <= q.age}

\* The first row of each market (latest_by_market); prices[0] is one of them.
FirstRows(rows) ==
  LET ms == {r.market : r \in rows}
  IN {f \in [ms -> rows] :
        \A m \in ms : f[m] \in Youngest({r \in rows : r.market = m})}

Readings(rows) ==
  UNION {{[latest |-> f[m], first |-> f] :
            m \in {k \in DOMAIN f : f[k] \in Youngest(rows)}} : f \in FirstRows(rows)}

\* The predictions day1 and last_fc rest on, of rows with an offset from today.
FirstAndLast(fcs) ==
  LET k == Min({FORECAST_LIMIT, Cardinality(fcs)})
      before(r) == Cardinality({q \in fcs : q.offset < r.offset})
      upto(r) == Cardinality({q \in fcs : q.offset <= r.offset})
  IN IF fcs = {} THEN {<<Unknown, Unknown>>}
     ELSE {<<pq[1].predicted, pq[2].predicted>> : pq \in
             {r \in fcs \X fcs : /\ before(r[1]) = 0
                                 /\ before(r[2]) < k /\ k <= upto(r[2])
                                 /\ r[1] = r[2] <=> k = 1}}

\* Within 40 km, or in the district when it is farther or was not located.
Near(g) ==
  g.same_district \/ (g.distance # Unknown /\ g.distance <= NEARBY_STORAGE_KM)

\* The limit is applied before the distance is looked at.
StorageAnswers(godowns) ==
  {\E g \in read : Near(g) :
     read \in kSubset(Min({STORAGE_LIMIT, Cardinality(godowns)}), godowns)}

-----------------------------------------------------------------------------
(***************************************************************************)
(* What is made of it                                                      *)
(***************************************************************************)
Known(rows) == {r \in rows : r.qty # Unknown}

\* Twice the median of the quantities that are known.
Median2(rows) ==
  LET s == SetToSortSeq(Known(rows), LAMBDA a, b : a.qty < b.qty)
  IN s[(Len(s) + 1) \div 2].qty + s[Len(s) \div 2 + 1].qty

\* Of the district: the sum of the markets' first rows.
DistrictArrivals(first) ==
  LET known == {m \in DOMAIN first : first[m].qty # Unknown}
  IN IF known = {} THEN Unknown
     ELSE SumFunction([m \in known |-> first[m].qty])

Sampled(qty, rows) == qty # Unknown /\ Cardinality(Known(rows)) >= 3

\* _supply_pressure, of the latest row's quantity, all rows and the district's sum.
High(qty, rows, total) ==
  \/ qty # Unknown /\ qty > HIGH_ARRIVAL_QTL
  \/ total # Unknown /\ total > HIGH_DISTRICT_ARRIVAL_QTL
  \/ Sampled(qty, rows) /\ Median2(rows) > 0 /\ 20 * qty > 13 * Median2(rows)

Low(qty, rows) ==
  \/ Sampled(qty, rows) /\ 10 * qty < 3 * Median2(rows)
  \/ qty # Unknown /\ qty < LOW_ARRIVAL_QTL

SupplyPressure(qty, rows, total) ==
  IF High(qty, rows, total) THEN "high"
  ELSE IF Low(qty, rows) THEN "low"
  ELSE IF qty = Unknown THEN "unknown" ELSE "normal"

Trend(day1, last) ==
  IF day1 = Unknown \/ last = Unknown THEN "none"
  ELSE IF 100 * last > 103 * day1 THEN "up"
  ELSE IF 100 * last < 97 * day1 THEN "down" ELSE "flat"

ForecastUp(day1, last, latest) ==
  day1 # Unknown /\ 100 * day1 >= 105 * latest /\ Trend(day1, last) # "down"

ForecastDown(day1, last, latest) ==
  day1 # Unknown /\ (100 * day1 <= 97 * latest \/ Trend(day1, last) = "down")

\* Slip: a glut with a godown nearby is held whatever the forecast says.
ReasonCode_HoldGlut(glut, storage, up, down) ==
  IF glut THEN (IF storage THEN "hold" ELSE "sell_no_storage")
  ELSE IF storage /\ up THEN "hold"
  ELSE IF down THEN "sell_forecast" ELSE IF up THEN "sell_no_storage" ELSE "wait"

\* The cascade: supply and storage first, the forecast breaks ties.
ReasonCode(glut, storage, up, down) ==
  IF glut /\ ~storage THEN "sell_no_storage"
  ELSE IF storage /\ up THEN "hold"
  ELSE IF glut THEN "sell_arrivals"
  ELSE IF down THEN "sell_forecast"
  ELSE IF up THEN "sell_no_storage" ELSE "wait"

Action(code) ==
  IF code = "hold" THEN "HOLD" ELSE IF code = "wait" THEN "WAIT" ELSE "SELL_NOW"

\* What compute_sale_window may read off these rows and these ok forecasts from today
\* on; no view without a recent price.
Views(rows, fcs) ==
  LET of(rd, fl) ==
        [latest |-> rd.latest.price,
         supply |-> SupplyPressure(rd.latest.qty, rows, DistrictArrivals(rd.first)),
         up |-> ForecastUp(fl[1], fl[2], rd.latest.price),
         down |-> ForecastDown(fl[1], fl[2], rd.latest.price)]
  IN {of(rd, fl) : rd \in Readings(rows), fl \in FirstAndLast(fcs)}

\* What it says on a view, with storage nearby or without.
Code(view, storage) == ReasonCode(view.supply = "high", storage, view.up, view.down)

\* logistics_next_step: what to book, or what was booked for this action.
NextStep(action, booked) ==
  CASE action = "HOLD" -> IF "storage" \in booked THEN "hold_stored" ELSE "book_storage"
    [] action = "SELL_NOW" ->
         IF "transport" \in booked THEN "confirm_offer" ELSE "book_transport"
    [] OTHER -> "none"
=============================================================================
