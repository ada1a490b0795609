------------------------------- MODULE Replies -------------------------------
(***************************************************************************)
(* What goes out by SMS because of a price: the replies to a farmer's      *)
(* messages, within the cap per sender that one process keeps in memory,   *)
(* and the alert that the same farmer has set, checked run after run       *)
(* against the last two days of prices.  One sender, one crop, one alert.  *)
(*                                                                         *)
(* _process_inbound awaits nothing, so a message is one step.  The claim   *)
(* and the log of an alert's SMS are the Alerts module's; here a check     *)
(* that finds the alert due and crossed sends.                             *)
(***************************************************************************)
EXTENDS Series, Matching

CONSTANTS
  OUTBOUND_MAX,     \* _OUTBOUND_MAX
  OUTBOUND_WINDOW,  \* _OUTBOUND_WINDOW_SEC, in ticks
  DAY,              \* 24 hours, in ticks: also the alert's cooldown
  REPLY_DAYS,       \* days of prices that a reply and an alert look back on
  Reports,          \* what may be reported for today: [market, source, general, price]
  Condition, Threshold,  \* of the alert
  Profiles,         \* [registered, near]: near is a market, or Unstated
  AlertMarkets,     \* what alerts.market_id may be: a market, or Unstated
  Lots, Buyers      \* the farmer's lots, and public.buyers

ASSUME RepliesAssumption ==
  /\ OUTBOUND_MAX \in Nat \ {0}
  /\ OUTBOUND_WINDOW \in Nat \ {0} /\ DAY \in Nat /\ OUTBOUND_WINDOW < DAY
  /\ REPLY_DAYS \in Nat
  /\ Reports \subseteq [market : Markets, source : Sources, general : BOOLEAN, price : Nat]
  /\ Profiles \subseteq [registered : BOOLEAN, near : Markets \cup {Unstated}]
  /\ AlertMarkets \subseteq Markets \cup {Unstated} /\ Unstated \notin Markets
  /\ IsFiniteSet(Lots) /\ IsFiniteSet(Buyers)
  /\ \A l \in Lots : l.asking_price \in Nat \cup {Unstated} /\ l.quantity \in Nat
  /\ \A b \in Buyers :
       /\ DOMAIN b = {"verified", "commodity", "district", "distance", "max_price", "demand",
                      "reliability", "grades"}
       /\ {b.distance, b.max_price, b.demand} \subseteq Nat \cup {Unstated}
  /\ Condition \in {"gte", "lte"} /\ Threshold \in Nat

VARIABLES
  quoted,    \* public.prices: rows of the last REPLY_DAYS days
  hour,      \* ticks since midnight
  profile,   \* of the sender
  pinned,    \* alerts.market_id, which no request changes
  outbound,  \* _OUTBOUND[sender], as ages in ticks, oldest first
  texts,     \* history: ages of the SMSs this process sent within the window
  since,     \* ticks since alerts.last_notified_at, DAY + 1 when longer ago or never
  told       \* history: an SMS went out since the latest observations changed

replyVars == <<quoted, hour, profile, pinned, outbound, texts, since, told>>

\* _check_crossing: the market is the alert's own, else the one near the farmer.
AlertScope(p) == IF pinned # Unstated THEN pinned ELSE p.near

SeriesOf(rows, p) == AlertSeries(rows, AlertScope(p))

\* The observations an alert is decided on, as far as there are any.
LastTwo(rows, p) ==
  {SubSeq(s, IF Len(s) < 2 THEN 1 ELSE Len(s) - 1, Len(s)) : s \in SeriesOf(rows, p)}

Crossed ==
  profile.registered /\
    \E s \in SeriesOf(quoted, profile) : IsCrossing(Condition, Threshold, s)

ReplyInit ==
  /\ quoted = {}
  /\ hour = 0
  /\ profile \in Profiles
  /\ pinned \in AlertMarkets
  /\ outbound = <<>> /\ texts = <<>>
  /\ since = DAY + 1
  /\ told = FALSE

-----------------------------------------------------------------------------

\* The ingestion writes today's row of a market, or writes it anew.
Report(q) ==
  /\ quoted' = {r \in quoted : r.age > 0 \/ r.market # q.market \/ r.source # q.source}
       \cup {[market |-> q.market, source |-> q.source, general |-> q.general,
              price |-> q.price, age |-> 0]}
  /\ told' = (told /\ LastTwo(quoted', profile) = LastTwo(quoted, profile))
  /\ UNCHANGED <<hour, profile, pinned, outbound, texts, since>>

\* The farmer registers, or moves (update_me and its lookup by phone).
SetProfile(p) ==
  /\ p # profile
  /\ profile' = p
  /\ told' = (told /\ AlertScope(p) = AlertScope(profile))
  /\ UNCHANGED <<quoted, hour, pinned, outbound, texts, since>>

Aged(ages, cap) == [i \in DOMAIN ages |-> IF ages[i] < cap THEN ages[i] + 1 ELSE cap]
Lapsed(ages) == {i \in DOMAIN ages : ages[i] >= OUTBOUND_WINDOW}

\* The comprehension that keeps those within the window: stamps are appended as time
\* passes, so that those out of it are the first ones.
InWindow(ages) == SubSeq(ages, Cardinality(Lapsed(ages)) + 1, Len(ages))

Tick ==
  /\ hour' = (hour + 1) % DAY
  /\ quoted' = IF hour' > 0 THEN quoted
       ELSE {[r EXCEPT !.age = @ + 1] : r \in {q \in quoted : q.age < REPLY_DAYS}}
  /\ outbound' = Aged(outbound, OUTBOUND_WINDOW)
  /\ texts' = InWindow(Aged(texts, OUTBOUND_WINDOW))
  /\ since' = IF since > DAY THEN since ELSE since + 1
  /\ told' = (told /\ LastTwo(quoted', profile) = LastTwo(quoted, profile))
  /\ UNCHANGED <<profile, pinned>>

\* The cap is in memory: another process starts from nothing.
Restart ==
  /\ outbound' = <<>> /\ texts' = <<>>
  /\ UNCHANGED <<quoted, hour, profile, pinned, since, told>>

-----------------------------------------------------------------------------
(***************************************************************************)
(* Inbound messages: "crop" names one, "other" does not.                   *)
(***************************************************************************)
Trimmed == InWindow(outbound)
Allowed == Len(Trimmed) < OUTBOUND_MAX

PriceKnown == LatestPrices(quoted, profile.near) # {}
Deserves(text) == profile.registered \/ (text = "crop" /\ PriceKnown)

\* The status _process_inbound answers with.
Answer(text) ==
  IF Deserves(text) /\ ~Allowed THEN "rate_limited"
  ELSE IF text = "crop" THEN (IF PriceKnown THEN "replied" ELSE "no_data")
  ELSE IF profile.registered THEN "help_sent" ELSE "ignored"

\* Slip: a refused message is stamped as well.
Inbound_CountsRefused(text) ==
  /\ Deserves(text)
  /\ outbound' = Append(Trimmed, 0)
  /\ texts' = IF Allowed THEN Append(texts, 0) ELSE texts
  /\ UNCHANGED <<quoted, hour, profile, pinned, since, told>>

\* _allow_outbound stamps and the gateway is called; that it fails changes nothing.
Inbound(text) ==
  /\ Deserves(text)
  /\ outbound' = IF Allowed THEN Append(Trimmed, 0) ELSE Trimmed
  /\ texts' = IF Allowed THEN Append(texts, 0) ELSE texts
  /\ UNCHANGED <<quoted, hour, profile, pinned, since, told>>

\* Slip: the cooldown is not looked at.
CheckAlert_NoCooldown ==
  /\ Crossed
  /\ since' = 0
  /\ told' = TRUE
  /\ UNCHANGED <<quoted, hour, profile, pinned, outbound, texts>>

\* A run that finds the alert out of its cooldown and crossed sends.
CheckAlert ==
  /\ since > DAY
  /\ Crossed
  /\ since' = 0
  /\ told' = TRUE
  /\ UNCHANGED <<quoted, hour, profile, pinned, outbound, texts>>

ReplyNext ==
  \/ \E q \in Reports : Report(q)
  \/ \E p \in Profiles : SetProfile(p)
  \/ \E text \in {"crop", "other"} : Inbound(text)
  \/ Tick \/ Restart \/ CheckAlert

ReplySpec == ReplyInit /\ [][ReplyNext]_replyVars

-----------------------------------------------------------------------------
\* The largest of the lots still on offer, or of all when none is; a reply names one
\* of the buyers ranked first for it.
OnOffer == {l \in Lots : l.status \in {"open", "offered"}}
LotsAsked == IF OnOffer = {} THEN Lots ELSE OnOffer
Largest == {l \in LotsAsked : \A k \in LotsAsked : k.quantity <= l.quantity}

\* Prices, the cap's stamps and the cooldown keep their shape.
ReplyTypeOK ==
  /\ \A r \in quoted : r.market \in Markets /\ r.age \in 0 .. REPLY_DAYS
  /\ hour \in 0 .. DAY - 1
  /\ profile \in Profiles /\ pinned \in AlertMarkets
  /\ \A i \in DOMAIN outbound : outbound[i] \in 0 .. OUTBOUND_WINDOW
  /\ since \in 0 .. DAY + 1

\* No process sends a number more replies within an hour than the cap, and refuses
\* one only if it has sent that many (_allow_outbound).
CapExact ==
  /\ Len(texts) <= OUTBOUND_MAX
  /\ \A text \in {"crop", "other"} :
       Answer(text) = "rate_limited" <=> (Deserves(text) /\ Len(texts) = OUTBOUND_MAX)

\* The cap is exact, and prices and stamps keep their shape.
CapKept == ReplyTypeOK /\ CapExact

\* A second SMS for the same two observations is sent only about prices that are no
\* longer today's: the cooldown outlasts their day, as long as no price is dated ahead
\* (_check_crossing's comment says that there is none: "not while it stays breached").
RefiresOnlyOnOldNews ==
  [][CheckAlert /\ told => \A r \in quoted : r.age = 0 =>
       AlertScope(profile) \in Markets /\ r.market # AlertScope(profile)]_replyVars

\* An alert without a market of its own is decided on the price that a reply would state,
\* if one market is near or only one reports each day; and there is one exactly if there
\* is the other.  One with a market of its own is decided on what a farmer near that one
\* would be told (notifications/prices.py: "the same market-resolution logic as
\* alert_checker._check_crossing").
AlertSeesToldPrice ==
  LET seen == {Last(s) : s \in SeriesOf(quoted, profile) \ {<<>>}}
      stated == LatestPrices(quoted, profile.near)
      lone == \A r, q \in quoted : r.age = q.age => r.market = q.market
  IN /\ pinned = Unstated =>
          /\ seen = {} <=> stated = {}
          /\ profile.near \in Markets \/ lone => seen = stated
     /\ pinned # Unstated => seen = LatestPrices(quoted, pinned)

EveryRanking ==
  \A l \in Lots, a, b \in Buyers :
    LocalityBeatsBid(l, "home", a, b) /\ NearerComesFirst(l, "home", a, b)
EveryMatch == \A ls \in SUBSET Lots : TwoSidesAgree(Buyers, ls)
EveryBest ==
  \A bs \in SUBSET Buyers, l \in Largest :
    (BestBuyers(l, "home", bs) = {}) <=> (\A b \in bs : ~Candidate(b, l))

\* Among all buyers and lots there are: matching_engine.py's "locality dominates",
\* and of two alike the nearer one first.
RankingHolds == profile.registered => EveryRanking

\* Both directions of the match agree on who suits whom, among as many lots as one
\* answer reads; what the buyer is not shown scores no better than all he is shown
\* (score_buyer, buyer_supply).
MatchIsMutual == profile.registered => EveryMatch

\* The reply names a buyer exactly if some verified one wants the crop of the lot it
\* is about: no ranking leaves every candidate behind another (rank_buyers).
BestIsNamed == profile.registered => EveryBest

\* What matching tells a registered farmer keeps all three.
MatchingHolds == RankingHolds /\ MatchIsMutual /\ BestIsNamed
=============================================================================
