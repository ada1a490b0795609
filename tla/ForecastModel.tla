--------------------------- MODULE ForecastModel ---------------------------
(***************************************************************************)
(* The forecasting engine's arithmetic: moving average, least squares over *)
(* day indices, their blend, and the rows built from them.  Prices are     *)
(* whole paise, so rounding to two decimals is rounding to an integer.     *)
(* Levels and fitted values are exact fractions; a standard deviation is   *)
(* kept as its square, and the width of an interval is cut to whole paise. *)
(***************************************************************************)
EXTENDS Integers, Sequences, Functions

CONSTANTS
  MIN_OBSERVATIONS,          \* fewer days than this: no prediction
  BLEND_THRESHOLD,           \* from here on moving average and regression are blended
  HIGH_CONFIDENCE_THRESHOLD,
  MA_WINDOW,                 \* days the moving average looks back
  OLS_FIT_WINDOW,            \* days the regression is fitted to
  HORIZON_DAYS,              \* days predicted ahead
  NoBand                     \* a commodity without sanity_min or sanity_max

ASSUME ForecastAssumption ==
  /\ MIN_OBSERVATIONS \in Nat \ {0} /\ BLEND_THRESHOLD \in Nat
  /\ HIGH_CONFIDENCE_THRESHOLD \in Nat
  /\ MIN_OBSERVATIONS <= BLEND_THRESHOLD
  /\ BLEND_THRESHOLD <= HIGH_CONFIDENCE_THRESHOLD
  /\ MA_WINDOW \in Nat \ {0} /\ OLS_FIT_WINDOW \in Nat \ {0} /\ HORIZON_DAYS \in Nat

AtLeast(a, b) == IF a < b THEN b ELSE a
AtMost(a, b) == IF a > b THEN b ELSE a
Nearest(num, den) == (2 * num + den) \div (2 * den)
ISqrt(v) == CHOOSE r \in 0 .. v : r * r <= v /\ v < (r + 1) * (r + 1)

LastOf(s, k) == SubSeq(s, AtLeast(1, Len(s) - k + 1), Len(s))
SumOf(s) == SumFunction(s)

\* Len(s)^2 times the population variance of s.
Spread(s) == Len(s) * SumOf([i \in DOMAIN s |-> s[i] * s[i]]) - SumOf(s) * SumOf(s)

\* CONFIDENCE_Z = 49/25 standard deviations, of numbers that are s[i] / den.
Margin(s, den) == ISqrt((2401 * Spread(s)) \div (625 * (Len(s) * den) * (Len(s) * den)))

-----------------------------------------------------------------------------
(***************************************************************************)
(* Least squares on x = 0 .. n-1                                           *)
(***************************************************************************)
Xs(s) == [i \in DOMAIN s |-> i - 1]
Denom(s) == Spread(Xs(s))

\* n * sum(xy) - sum(x) * sum(y): Denom(s) times the slope.
SlopeNum(s) ==
  Len(s) * SumOf([i \in DOMAIN s |-> (i - 1) * s[i]]) - SumOf(Xs(s)) * SumOf(s)

\* intercept + slope * x is FitNum / FitDen; a single point is fitted by itself.
FitNum(s, x) ==
  SumOf(s) * AtLeast(1, Denom(s)) + SlopeNum(s) * (Len(s) * x - SumOf(Xs(s)))
FitDen(s) == Len(s) * AtLeast(1, Denom(s))

Residuals(s) == [i \in DOMAIN s |-> FitDen(s) * s[i] - FitNum(s, i - 1)]

-----------------------------------------------------------------------------
(***************************************************************************)
(* Predictions                                                             *)
(***************************************************************************)
Tier(n) ==
  CASE n < MIN_OBSERVATIONS -> "none"
    [] n >= MIN_OBSERVATIONS /\ n < BLEND_THRESHOLD -> "moving_avg"
    [] OTHER -> "blend"

\* The centre predicted for day h and the day-1 margin, both models' larger one.
MovingAverage(s) ==
  LET w == LastOf(s, MA_WINDOW)
  IN [centre |-> [h \in 1 .. HORIZON_DAYS |-> Nearest(SumOf(w), Len(w))],
      margin |-> Margin(w, 1)]

Blend(s) ==
  LET w == LastOf(s, MA_WINDOW)
      v == LastOf(s, OLS_FIT_WINDOW)
  IN [centre |-> [h \in 1 .. HORIZON_DAYS |->
        Nearest(2 * SumOf(w) * FitDen(v) + 3 * FitNum(v, Len(v) + h - 1) * Len(w),
                5 * Len(w) * FitDen(v))],
      margin |-> AtLeast(Margin(w, 1), Margin(Residuals(v), FitDen(v)))]

\* _clamp: a reversed band is skipped.
Clamp(value, band) ==
  IF band = NoBand \/ band.min > band.max THEN value
  ELSE AtLeast(AtMost(band.max, value), band.min)

\* Slip: only the prediction is clamped, its bounds are left where they were.
Row_BoundsNotClamped(p, width, band) ==
  [predicted |-> Clamp(p, band),
   lower |-> AtLeast(p - width, 0), upper |-> p + width]

\* One row of _make_forecast_rows: with a band the prediction is pulled into it, and so
\* are the bounds that are drawn around the clamped prediction.  A bound that the band
\* has pushed past the prediction is moved to it; the lower one is floored at zero.
Row(p, width, band) ==
  LET predicted == Clamp(p, band)
      lower == AtLeast(predicted - width, 0)
  IN IF band = NoBand
       THEN [predicted |-> p, lower |-> lower, upper |-> p + width]
       ELSE [predicted |-> predicted,
             lower |-> AtLeast(AtMost(Clamp(lower, band), predicted), 0),
             upper |-> AtLeast(Clamp(predicted + width, band), predicted)]

\* The predictions of a series with enough days: the margin grows with sqrt(h).
Predictions(s, band) ==
  LET m == IF Tier(Len(s)) = "blend" THEN Blend(s) ELSE MovingAverage(s)
  IN [h \in 1 .. HORIZON_DAYS |-> Row(m.centre[h], ISqrt(m.margin * m.margin * h), band)]

-----------------------------------------------------------------------------
\* A row a farmer may see: the bounds enclose the prediction and none is negative,
\* whatever was clamped (_make_forecast_rows).
Encloses(r) == 0 <= r.lower /\ r.lower <= r.predicted /\ r.predicted <= r.upper

InBand(r, band) == band.min <= r.lower /\ r.upper <= band.max

ProperBand(band) == 0 <= band.min /\ band.min <= band.max
=============================================================================
