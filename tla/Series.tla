------------------------------- MODULE Series -------------------------------
(***************************************************************************)
(* From rows of public.prices to one price a day: the series that the      *)
(* forecasts, the alerts and the SMS replies are computed from.  Rows of   *)
(* one commodity; a row carries its age in days (0 is today), its source,  *)
(* whether its variety is 'General', its modal price and its arrivals.     *)
(*                                                                         *)
(* Rows of one day that differ only in grade or in an unpreferred variety  *)
(* are told apart by the order the database returns them in, which no      *)
(* query fixes: every operator here answers with the SET of its possible   *)
(* results.                                                                *)
(***************************************************************************)
EXTENDS Integers, FiniteSets, SequencesExt

CONSTANTS
  Sources,       \* the values of prices.source
  PrecedenceOf,  \* SOURCE_PRECEDENCE, 99 for a source it does not list
  Markets,       \* the active markets of the farmer's district
  Scale          \* a common multiple of 1..Cardinality(Markets)

ASSUME SeriesAssumption ==
  /\ PrecedenceOf \in [Sources -> Nat]
  /\ Scale \in Nat \ {0}
  /\ \A k \in 1 .. Cardinality(Markets) : Scale % k = 0

OnDay(rows, age) == {r \in rows : r.age = age}
InMarket(rows, m) == {r \in rows : r.market = m}
AgesOf(rows) == {r.age : r \in rows}

\* The rows of the best-ranked source.
Winning(rows) ==
  {r \in rows : \A q \in rows : PrecedenceOf[r.source] <= PrecedenceOf[q.source]}

\* Within the winning source variety 'General' is preferred, else its first row.
Chosen(rows) ==
  LET general == {r \in Winning(rows) : r.general}
  IN IF general # {} THEN general ELSE Winning(rows)

DayPrices(rows) == {r.price : r \in Chosen(rows)}

\* The i-th of some days, oldest first: i - 1 are older.
DayAt(ages, i) == CHOOSE a \in ages : Cardinality({b \in ages : b > a}) = i - 1

\* pricesOn[age] is what a day may come to.
SeriesOver(ages, pricesOn) ==
  {s \in [1 .. Cardinality(ages) -> UNION {pricesOn[a] : a \in ages}] :
     \A i \in DOMAIN s : s[i] \in pricesOn[DayAt(ages, i)]}

DailySeries(rows) ==
  SeriesOver(AgesOf(rows), [a \in AgesOf(rows) |-> DayPrices(OnDay(rows, a))])

\* Slip: markets without a price that day count as well.
DayMeans_AllMarkets(rows) ==
  LET ms == {r.market : r \in rows}
      picks == {f \in [ms -> {r.price : r \in rows}] :
                  \A m \in ms : f[m] \in DayPrices(InMarket(rows, m))}
  IN {SumFunction(f) * (Scale \div Cardinality(Markets)) : f \in picks}

\* The mean of the markets that have the day, in units of 1 / Scale.
DayMeans(rows) ==
  LET ms == {r.market : r \in rows}
      picks == {f \in [ms -> {r.price : r \in rows}] :
                  \A m \in ms : f[m] \in DayPrices(InMarket(rows, m))}
  IN {SumFunction(f) * (Scale \div Cardinality(ms)) : f \in picks}

DistrictSeries(rows) ==
  SeriesOver(AgesOf(rows), [a \in AgesOf(rows) |-> DayMeans(OnDay(rows, a))])

Scaled(series) == {[i \in DOMAIN s |-> s[i] * Scale] : s \in series}
InDistrict(rows) == {r \in rows : r.market \in Markets}

\* What a farmer is told: the market he is near (nearest_market answers within 50 km)
\* or the district's mean; scaled alike.
ScopeSeries(rows, scope) ==
  IF scope \in Markets THEN Scaled(DailySeries(InMarket(rows, scope)))
  ELSE DistrictSeries(InDistrict(rows))

\* What an alert is decided on: its market, its own or the one the farmer is near, or the
\* district.  The query does not select market_id, so that all rows of the district pass
\* for one market's and a day comes to one row of the best source in it, whichever
\* market that is.
AlertSeries(rows, scope) ==
  Scaled(DailySeries(IF scope \in Markets THEN InMarket(rows, scope) ELSE InDistrict(rows)))

\* gte: prev < t <= latest; lte: prev > t >= latest.
Crosses(condition, t, prev, latest) ==
  IF condition = "gte" THEN prev < t /\ t <= latest ELSE prev > t /\ t >= latest

\* _check_crossing on one series: its last two observations, however far apart.
IsCrossing(condition, threshold, s) ==
  Len(s) >= 2 /\ Crosses(condition, threshold * Scale, s[Len(s) - 1], s[Len(s)])

\* latest_price_for_user: the last observation of a possible series.
LatestPrices(rows, scope) == {Last(s) : s \in ScopeSeries(rows, scope) \ {<<>>}}
=============================================================================
