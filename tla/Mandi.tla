-------------------------------- MODULE Mandi --------------------------------
(***************************************************************************)
(* Prices, forecasts and advice of one commodity, day by day: rows of      *)
(* public.prices come in, the forecast job rewrites public.forecasts, the  *)
(* mark_stale job sweeps them, and a farmer who asks gets what SaleWindow  *)
(* makes of the tables, whatever godowns are listed at that moment.        *)
(*                                                                         *)
(* Dates are relative to today: a price row has an age, negative when it   *)
(* is dated ahead, which nothing refuses; a forecast row has an offset;    *)
(* NextDay moves both.  A pair's history is read by one call and its rows  *)
(* are written by one, and nothing else writes them but the sweep, so a    *)
(* pair is one step; a pair that fails is a step not taken.                *)
(***************************************************************************)
EXTENDS Series, ForecastModel, SaleWindow

CONSTANTS
  HISTORY_DAYS,  \* of the forecasting engine
  RECENT_DAYS,   \* of alerts, replies and advice
  MAX_AHEAD,     \* bound: no price is dated further ahead than that many days
  Quotes,        \* what a source may report: [market, source, general, price, qty, age]
  FailSets,      \* the sets of pairs whose forecast may fail in one run
  Godowns,       \* logistics_options of kind storage
  Band,          \* the commodity's sanity band
  None           \* no row for that day

ASSUME MandiAssumption ==
  /\ HISTORY_DAYS \in Nat /\ RECENT_DAYS \in Nat /\ RECENT_DAYS <= HISTORY_DAYS
  /\ MAX_AHEAD \in Nat
  /\ Band # NoBand /\ {Band.min, Band.max} \subseteq Int /\ ProperBand(Band)
  /\ Quotes \subseteq [market : Markets, source : Sources, general : BOOLEAN,
                       price : Nat \ {0}, qty : Nat \cup {Unknown},
                       age : -MAX_AHEAD .. HISTORY_DAYS]
  /\ IsFiniteSet(Godowns)

VARIABLES
  prices,     \* rows of the last HISTORY_DAYS days
  forecasts   \* per market and offset; .made is the age of generated_at in days

vars == <<prices, forecasts>>

Offsets == 0 .. (HORIZON_DAYS + MAX_AHEAD)
Recent == {r \in prices : r.age <= RECENT_DAYS}

Init ==
  /\ prices = {}
  /\ forecasts = [m \in Markets |-> [o \in Offsets |-> None]]

-----------------------------------------------------------------------------
SameKey(r, q) ==
  r.age = q.age /\ r.market = q.market /\ r.source = q.source /\ r.general = q.general

\* The upsert of a row, whatever day it is dated.
Publish(q) ==
  /\ prices' = {r \in prices : ~SameKey(r, q)} \cup {q}
  /\ UNCHANGED forecasts

IsOk(row) == row # None /\ row.status = "ok"
Older(row) == IF row = None THEN None ELSE [row EXCEPT !.made = @ + 1]

\* The next day: forecast rows of the past and prices out of reach are not read again.
NextDay ==
  /\ prices' = {[r EXCEPT !.age = @ + 1] : r \in {q \in prices : q.age < HISTORY_DAYS}}
  /\ forecasts' = [m \in Markets |-> [o \in Offsets |->
       IF o + 1 \in Offsets THEN Older(forecasts[m][o + 1]) ELSE None]]

Ok(r) == [status |-> "ok", made |-> 0,
          predicted |-> r.predicted, lower |-> r.lower, upper |-> r.upper]

Insufficient == [status |-> "insufficient_data", made |-> 0]

\* The rows written, the first on the day after the anchor: one that says so when the
\* days are too few, else the whole horizon.
WrittenFrom(anchor, s, old) ==
  LET thin == Tier(Len(s)) = "none"
      new == IF thin THEN <<>> ELSE Predictions(s, Band)
  IN [o \in Offsets |->
        IF o - anchor \notin 1 .. (IF thin THEN 1 ELSE HORIZON_DAYS) THEN old[o]
        ELSE IF thin THEN Insufficient ELSE Ok(new[o - anchor])]

\* Slip: generated_at is left to its default, which an update does not set.
Rewritten_KeepsStamp(s, age, old) ==
  LET new == WrittenFrom(IF age < 0 THEN -age ELSE 0, s, old)
  IN [o \in Offsets |-> IF None \in {old[o], new[o]} THEN new[o]
                        ELSE [new[o] EXCEPT !.made = old[o].made]]

\* Slip: rows that are there already are not written again.
Rewritten_KeepsOld(s, age, old) ==
  LET new == WrittenFrom(IF age < 0 THEN -age ELSE 0, s, old)
  IN [o \in Offsets |-> IF old[o] = None THEN new[o] ELSE old[o]]

\* The upsert of _make_forecast_rows: the horizon starts tomorrow, or after the last
\* observation if that is dated ahead.  age: of that observation.
Rewritten(s, age, old) == WrittenFrom(IF age < 0 THEN -age ELSE 0, s, old)

\* ForecastEngine.run: a pair without history writes nothing, and one whose calls
\* fail is skipped.
Forecast(failed) ==
  \E ss \in [Markets -> UNION {DailySeries(InMarket(prices, m)) : m \in Markets}] :
    /\ \A m \in Markets : ss[m] \in DailySeries(InMarket(prices, m))
    /\ forecasts' = [m \in Markets |->
         IF m \in failed \/ ss[m] = <<>> THEN forecasts[m]
         ELSE Rewritten(ss[m], Min(AgesOf(InMarket(prices, m))), forecasts[m])]
    /\ UNCHANGED prices

\* More than 24 hours old: every row made before yesterday, and yesterday's if the
\* hour of its run is past.
Stale(row, day_old) ==
  IsOk(row) /\ (row.made > 1 \/ (row.made = 1 /\ day_old))

MarkStale ==
  /\ \E day_old \in BOOLEAN :
       forecasts' = [m \in Markets |-> [o \in Offsets |->
         IF Stale(forecasts[m][o], day_old)
           THEN [forecasts[m][o] EXCEPT !.status = "stale"] ELSE forecasts[m][o]]]
  /\ UNCHANGED prices

Next ==
  \/ \E q \in Quotes : Publish(q)
  \/ NextDay
  \/ \E failed \in FailSets : Forecast(failed)
  \/ MarkStale

Spec == Init /\ [][Next]_vars

-----------------------------------------------------------------------------
\* What a query for ok rows from today on finds; a scope is one market or all.
InScope(scope) == IF scope \in Markets THEN {scope} ELSE Markets
OkRows(scope) ==
  UNION {{[market |-> m, offset |-> o, predicted |-> forecasts[m][o].predicted] :
            o \in {i \in Offsets : IsOk(forecasts[m][i])}} : m \in InScope(scope)}

\* What the advice for a market, or for all of them, may rest on now.
ViewsOf(scope) == Views({r \in Recent : r.market \in InScope(scope)}, OkRows(scope))

Scopes == Markets \cup {"all"}
AnyAdvice(P(_, _, _)) ==
  \A scope \in Scopes : \A v \in ViewsOf(scope) :
    \A gs \in SUBSET Godowns : \A storage \in StorageAnswers(gs) : P(v, storage, gs)

-----------------------------------------------------------------------------
\* The tables keep their shape (public.prices, public.forecasts).
TypeOK ==
  /\ \A r \in prices :
       r.market \in Markets /\ r.source \in Sources /\ r.age \in -MAX_AHEAD .. HISTORY_DAYS
  /\ DOMAIN forecasts = Markets
  /\ \A m \in Markets :
       /\ DOMAIN forecasts[m] = Offsets
       /\ \A o \in Offsets : forecasts[m][o] # None =>
            /\ forecasts[m][o].status \in {"ok", "insufficient_data", "stale"}
            /\ forecasts[m][o].made \in Nat

\* Whatever the series and wherever it was clamped, a stored prediction lies within
\* its bounds and those within the sanity band (_make_forecast_rows).
BoundsHold ==
  \A m \in Markets, o \in Offsets :
    LET row == forecasts[m][o]
    IN row # None /\ row.status # "insufficient_data" => Encloses(row) /\ InBand(row, Band)

\* From tomorrow on the row of a nearer day is never older than that of a later day,
\* however runs, failed pairs, thin series and days without prices alternate, unless a
\* price of that market is dated on the nearer day or later (the horizon's anchor in
\* _make_forecast_rows).
NearerIsNewer ==
  \A m \in Markets : \A i, j \in Offsets \ {0} :
    i < j /\ forecasts[m][i] # None /\ forecasts[m][j] # None =>
      \/ forecasts[m][i].made <= forecasts[m][j].made
      \/ \E r \in InMarket(prices, m) : r.age <= -i

\* A forecast becomes visible only by being made now, for a day to come; a sweep
\* leaves none in sight that is older than yesterday and hides none of today's
\* (mark_stale_forecasts beside the forecast job's upserts).
FreshOrHidden ==
  [][/\ ~NextDay => \A m \in Markets, o \in Offsets :
          IsOk(forecasts'[m][o]) /\ forecasts'[m][o] # forecasts[m][o]
            => o > 0 /\ forecasts'[m][o].made = 0
     /\ MarkStale => \A m \in Markets, o \in Offsets : IsOk(forecasts[m][o]) =>
          /\ IsOk(forecasts'[m][o]) => forecasts[m][o].made <= 1
          /\ forecasts[m][o].made = 0 => IsOk(forecasts'[m][o])]_vars

\* The line fitted to a market's series is the least-squares line: its residuals sum
\* to zero, also when weighted by the day (LinearRegressionModel).
FitIsLeastSquares ==
  \A m \in Markets : \A s \in DailySeries(InMarket(prices, m)) :
    LET w == LastOf(s, OLS_FIT_WINDOW)
        r == Residuals(w)
    IN SumOf(r) = 0 /\ SumOf([i \in DOMAIN r |-> i * r[i]]) = 0

\* A day that a better source reported reads the same whatever a lesser source adds
\* to it, before or after (build_daily_series, rule 2).
LowerSourceIsSilent ==
  \A r \in prices, s \in Sources, q \in Quotes :
    LET own == InMarket(prices, r.market)
    IN (\E b \in OnDay(own, r.age) : PrecedenceOf[b.source] < PrecedenceOf[s]) =>
         DailySeries(own \cup {[r EXCEPT !.source = s, !.price = q.price,
                                         !.general = q.general]}) = DailySeries(own)

\* One more godown on the list never turns a HOLD or WAIT into SELL_NOW, as long as
\* the query returns them all (compute_sale_window's cascade and storage limit).
ListingNeverForcesSale ==
  AnyAdvice(LAMBDA v, storage, gs : \A g \in Godowns :
    Action(Code(v, storage)) # "SELL_NOW" /\ Cardinality(gs \cup {g}) <= STORAGE_LIMIT
      => \A more \in StorageAnswers(gs \cup {g}) : Action(Code(v, more)) # "SELL_NOW")

\* A farmer is told to book storage only with a godown within reach to book, and is
\* told that there is none only if there is none, as long as the query returns all.
StorageToldIsThere ==
  AnyAdvice(LAMBDA v, storage, gs :
    /\ \A booked \in SUBSET {"storage", "transport"} :
         NextStep(Action(Code(v, storage)), booked) = "book_storage" => \E g \in gs : Near(g)
    /\ Code(v, storage) = "sell_no_storage" /\ Cardinality(gs) <= STORAGE_LIMIT
         => \A g \in gs : ~Near(g))

\* A forecast never counts as rising and as falling at once, whatever rows of
\* whichever runs and markets it is read from (forecast_up, forecast_down).
RiseExcludesFall == \A scope \in Scopes : \A v \in ViewsOf(scope) : ~(v.up /\ v.down)

\* A glut is held only with storage and a recovery in sight, and never waited out
\* (sale_window.py, the module's comment).
GlutHeldOnlyToRecover ==
  AnyAdvice(LAMBDA v, storage, gs : v.supply = "high" =>
    LET action == Action(Code(v, storage))
    IN action = "SELL_NOW" \/ (action = "HOLD" /\ v.up /\ storage))

\* What stands in public.forecasts is sound, and so is what it was made of.
ForecastsAreSound == TypeOK /\ BoundsHold /\ FitIsLeastSquares /\ LowerSourceIsSilent

\* No advice contradicts the tables, the list of godowns, or itself.
AdviceIsSound ==
  ListingNeverForcesSale /\ StorageToldIsThere /\ RiseExcludesFall /\ GlutHeldOnlyToRecover
=============================================================================
