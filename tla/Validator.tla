----------------------------- MODULE Validator ------------------------------
(***************************************************************************)
(* What the ingestion makes of one raw price record before it is stored.   *)
(* Raw prices are whole numbers, Missing, or Infinite (a float that is not *)
(* finite); accepted ones are in tenths of a rupee per quintal.            *)
(***************************************************************************)
EXTENDS Integers

CONSTANTS
  Missing,
  Infinite,
  Aliases,    \* spellings of the crop in commodity_alias
  MarketMap,  \* normalized names and codes of the district's markets
  Band        \* sanity_min and sanity_max of the crop, or Missing

ASSUME ValidatorAssumption ==
  /\ Missing \notin Int /\ Infinite \notin Int /\ Missing # Infinite
  /\ Band # Missing => Band.min \in Int /\ Band.max \in Int

\* UNIT_CONVERSIONS, in tenths: a unit that is not here is never guessed.
Tenths == [quintal |-> 10, kg |-> 1000, ton |-> 1]

IsPrice(p) == p # Missing /\ p # Infinite /\ p > 0
InQuintals(p, unit) == IF p = Missing THEN Missing ELSE p * Tenths[unit]

InSanityBand(raw) ==
  Band = Missing \/ LET p == InQuintals(raw.modal, raw.unit)
                    IN Band.min <= p /\ p <= Band.max

\* Slip: min and max are not compared with the modal price.
Ordered_Ignored(raw) ==
  /\ raw.min # Missing => IsPrice(raw.min)
  /\ raw.max # Missing => IsPrice(raw.max)

Ordered(raw) ==
  /\ raw.min # Missing => IsPrice(raw.min) /\ raw.min <= raw.modal
  /\ raw.max # Missing => IsPrice(raw.max) /\ raw.modal <= raw.max

\* validate_and_normalize gives no reason to reject the record, and its market is known.
Accepted(raw) ==
  /\ raw.commodity \in Aliases
  /\ raw.unit \in DOMAIN Tenths
  /\ IsPrice(raw.modal)
  /\ Ordered(raw)
  /\ InSanityBand(raw)
  /\ raw.market \in MarketMap

\* The row that is stored for it: all spellings are one commodity.
Normalized(raw, source) ==
  [source |-> source, market |-> raw.market, variety |-> raw.variety,
   min |-> InQuintals(raw.min, raw.unit), max |-> InQuintals(raw.max, raw.unit),
   modal |-> InQuintals(raw.modal, raw.unit)]

\* What the database may rely on: the prices are positive, ordered and within the band.
Proper(row) ==
  /\ row.modal > 0
  /\ row.min # Missing => 0 < row.min /\ row.min <= row.modal
  /\ row.max # Missing => row.modal <= row.max
  /\ Band # Missing => Band.min <= row.modal /\ row.modal <= Band.max
=============================================================================
