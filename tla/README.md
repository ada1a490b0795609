# Krishi Bazaar — a TLA+ model of the trading and notification backend

Krishi Bazaar is a FastAPI service over a Supabase (PostgREST) database. Farmers
list lots, make digital offers to verified buyers, record payments, book
storage and transport, and subscribe to price alerts; scheduled jobs ingest
mandi prices, forecast them, send the alerts and expire stale offers.

Three facts of the code shape every module here:

* **One call, one statement.** Each `supabase.table(..).execute()` or `.rpc()` is
  an HTTP request and one atomic statement. No transaction spans two of them, so
  a handler that reads, decides and writes is three steps and anything may run
  in between. Updates are keyed by id (and owner), rarely by the status read.
* **Threads and jobs.** Route handlers are plain `def`s and run in the threadpool;
  APScheduler jobs, a start-up catch-up task and admin triggers run beside them.
  There is one uvicorn worker, but the job table is written for several processes.
* **Any call may fail** (`APIError`, a timeout, a restart): the handler stops where
  it is and what it has written stays.

## Inventory

| Part | State it keeps | Operations | What is hard |
|---|---|---|---|
| Trade core (`routers/lots.py`, `offers.py`, `payments.py`, `services/marketplace.py`) | `lots.status`, `offers.status`, `payments.status` | create / withdraw / grade / aggregate lot; create / update offer; hourly sweep of stale offers; create payment, mark it paid, failed, disputed | check-then-act over several calls; unguarded updates; compensation in `mark_paid`; the sweep's stale list, cut to 500 rows in no order |
| Logistics (`routers/logistics.py`) | `logistics_bookings`, `logistics_options.capacity_qtl` | book, confirm, cancel, complete | capacity is a sum checked in the API before the insert |
| Buyer reliability (`services/marketplace.py`, `routers/admin.py`, `grievances.py`) | `buyers.payment_reliability`, `grievances.status` | rescore after payment and grievance changes | a score computed from reads that are stale when it is written |
| Pooling (`aggregate_lots`) | member lots, pooled lot | read members, insert the pool, mark members one by one | members that change after they were read, or are accepted after they were pooled; partial failure; a lot named twice |
| Job lock (`006_job_locks.sql`, `services/jobs.py`) | `job_locks` | claim (steal when expired), release by holder | a holder slower than its TTL; all scheduler runs share one holder name |
| Alert dispatch (`notifications/alert_checker.py`, `routers/alerts.py`) | `alerts.active`, `last_notified_at`, `notified_count`, `notification_log` | pick due alerts, claim one by conditional update, send, roll the claim back on failure | overlapping runs, a failed send, edits by the farmer meanwhile, a crash between claim and send |
| Ingestion runner and validator (`ingestion/runner.py`, `validator.py`) | `prices`, `ingestion_log` | per adapter: find the aliases, fetch each, validate, upsert in chunks, log a status | failures isolated per key, chunk and adapter, and a status that has to tell of all of them; the catch-up relies on it |
| Source adapters (`data_gov_in.py`, `agmarknet.py`) | none | pages with retries and spellings; a scraper, market by market | a source that is down looks like one without data |
| Job schedule and catch-up (`services/jobs.py`, `app/main.py`, `forecasting/runner.py`) | scheduler, catch-up task, `job_locks`, the last success in `ingestion_log` | interval triggers, start-up catch-up, the admin's trigger | two timers, a task and a lock that refuses without repeating; restarts leave rows behind |
| Forecasting (`forecasting/*`, `005_forecast_stale_fn.sql`) | `forecasts` | build a daily series, pick a tier, fit, blend, clamp, upsert; mark stale after 24 h | tier boundaries, the horizon's anchor, rows that several runs leave side by side |
| Sale window (`notifications/sale_window.py`, `lot_advice`) | none (reads) | supply pressure, trend, a cascade of reasons, the next booking | rows of several runs and markets in one answer; limits applied before conditions |
| Matching (`services/matching_engine.py`, `routers/buyers.py`) | none | score and rank the buyers of a lot, the lots of a buyer | ties, unknown and zero distances, two directions with filters of their own |
| Price queries, crossing detection (`notifications/prices.py`, `alert_checker.py`) | none | latest price for a user; has an alert's price crossed | two implementations of "the price", read by different queries |
| SMS in/out (`routers/sms.py`, `inbound_verifier.py`, `sms_gateway.py`) | rate window, nonce cache | verify, parse, reply | sliding window; replay protection |
| Auth, profiles, rate limit, dashboards, markets, i18n | – | – | token checks, read-only joins, formatting |

How the parts interact: the trade core rescores the buyer after every payment
change (Reliability) and decides which lots can be booked (Logistics) or pooled;
the schedule runs every job (ingestion, forecast, alert dispatch) under a job lock;
ingestion writes the `prices` that forecasting, alerts, replies and the sale window
read, and the log that the catch-up reads; alerts and inbound SMSs share the SMS
gateway. All of it meets in the tables, never in memory, except for the outbound SMS
window and the nonce cache.

Each hazard of the code, at its line, is in `PROJECT.json` with the properties that
would catch it going wrong.

What makes each part correct: trade — one open payment per offer, no sale and no
settlement without its ground, statuses that fit each other; lock and schedule — no two
executions at once, and prices and forecasts that come in time all the same; ingestion —
only proper rows, and a log that is true; forecasting — rows that lie within their
bounds, from the newest run that made one, hidden when old; advice, matching, replies —
answers that do not contradict the tables or each other; alerts — a cooldown kept, and
an exact count; bookings, pooling, reliability — capacity, weight and grades that add up.

## Modules

| Module | Models | How state and actions correspond |
|---|---|---|
| `Deals` | lots, offers, payments, the hourly sweep, call by call | `lot`, `offer`, `payment` are the status columns; `pc`, `tgt`, `val`, `todo` are a thread's place in its handler and the locals it carries between calls. An action is one database call with the Python up to the next one. A handler refused before its first write changes nothing, so its first read is just not enabled. |
| `Market` | what the trade API promises a client whose requests do not overlap: each request one atomic change of lot and offer (or payment) | no calls, no threads: the abstract specification |
| `DealsSerial` | the refinement mapping from `Deals` to `Market` | a request counts as done at the step after which nothing stops it; the writes it still owes are filled in by `LotDone`, `OfferDone` |
| `LateWrites` | what overlapping handlers of `Deals` take back of each other | `missed`, a history of the rows that another handler has changed between a handler's read and its write |
| `JobLock` | `claim_job_lock`, `release_job_lock` and the executions under one job key | the row is `holder` and `left`, time left until `expires_at`; `lease` is time left of what an execution asked for; `Tick`, `Die`, `ClaimUnanswered` are the environment |
| `Alerts` | `AlertChecker.run`, several runs at a time, beside the alert routes | the row's columns; per run the stamp taken at its start, the alerts due, the one in hand and what was selected of them; `sent`, `logged`, `lost`, `late` are history |
| `Bookings` | `create_booking`, `update_booking`, call by call | `status` of bookings, `closed` lots, a thread's next call; capacity is the same sum over active bookings |
| `Reliability` | `recompute_buyer_reliability` in its four calls, beside the handlers that change its evidence | one buyer, since rescoring one never touches another |
| `Pooling` | `aggregate_lots`: one read, the insert, one update per member | lot status and weight; each request about an offer is one step here (`Deals` has it call by call), `offers` the statuses that a lot's offers have; `parts`, the harvests a lot stands for, `dealt`, `revived` and `repeated` are history |
| `Validator` | `PriceValidator`: what of a record is accepted, and the row made of it | operators; units, zero and missing bounds, the sanity band; `Proper` is what readers of `prices` take for granted |
| `Ingestion` | `IngestionRunner.run` with both adapters, call by call, run after run | `at`, `todo`, `keys`, `batch`, `offset` are the loops of `run`; `fetch` the locals of `fetch_prices`; `tally` the counts and `fetch_errors`; `log` the rows of this run in `ingestion_log`; `facts` is history |
| `Schedule` | two triggers, the catch-up and the admin's forecast of one process, going down and up | `clock` counts from the start, `due` are triggers reached; each key's row is kept as `JobLock` keeps it (`IngestionLock`, `ForecastLock` are instances of it); `age` and `excused` are history |
| `Series` | `build_daily_series`, the alert's series, the latest price | operators over sets of price rows; where a query leaves the order open, the set of all answers |
| `ForecastModel` | tier, moving average, regression, blend, band and bounds of one prediction | operators in whole numbers of a `Scale`, regression as exact fractions |
| `SaleWindow` | `compute_sale_window` and the next logistics step | operators; `Views` are all readings the queries allow |
| `Mandi` | days of prices, forecast runs, sweeps; and what is advised at any moment | `prices`, `forecasts` with dates relative to today, prices up to `MAX_AHEAD` days ahead; `EXTENDS` the three above |
| `Matching` | `rank_buyers`, `score_buyer`, `buyer_supply` with its ranking of lots | operators; scores in twentieths of a point; `SupplyAnswers`, whatever the limit and the cut let through |
| `Replies` | `_process_inbound`, the outbound cap, `_check_crossing` over days | `outbound` is the sender's list in memory, `since` the alert's cooldown, `pinned` the market of its own that it may have, `texts` and `told` are history; `EXTENDS` `Series` and `Matching` |

`MC<module>` gives the constants values for TLC, `<module>Proofs` holds theorems;
`ScheduleProofs` has those of `JobLock` as well, `MandiProofs` those of `Replies` and
`Matching`, since proofs of one need the lemmas of the other. Modules that meet there have names of
their own (`LockSpec`, `ReplySpec` and so on), so that each theorem is about the definition it
names. `MCReplies` also checks that `InWindow`, which drops as many stamps from the front as are out
of the window, is the filter of `_allow_outbound`.

Definitions named `X_Something` under a comment beginning "Slip:" are deliberate
one-line mistakes in the definition `X` beside them; `Next` uses none. Put in the
place of `X` each makes a named property fail, which shows that the property looks at
that code; `PROJECT.json` pairs them.

A property may join several parts: in every module but `Deals`, `JobLock` and `Alerts` the
type invariant is the first conjunct of one of the invariants, so that one run and
one counterexample tell of them together; each part has its own name and comment.

What the trading modules leave out: payloads, wording, prices and moisture; requests that
are refused before they write; authentication; deletion of rows other than alerts (the
code deletes no other row modelled here). Ids are used once.

How modules are composed: `Schedule` refines `JobLock` twice, so what is proved of its leases
holds of both jobs; `Ingestion` is what a run of the first does, one at a time as
the lock lets it, and the success it logs is what `Schedule` reads; `Mandi` and `Replies`
rest on the rows it stores and on one `Series`; `Replies` decides the crossing that `Alerts`
leaves to its environment, and `Alerts` has the claim that `Replies` takes for a step.

## Runs

Every run passes. With two TLC workers each takes from a second to about three minutes.

| Run | Question | Instance |
|---|---|---|
| `deals_overlap` | What do the trade tables keep however two handlers overlap and calls fail? At most one open payment per offer; no payment without an acceptance in the past, no sold lot without a paid payment; no fresh offer expired by itself; and a closed lot, a decided offer or a settled payment is taken back only by a write of a handler that read the row before another one changed it (`OnlyLateWritesTakeBack`). | `MCLateWrites`: 1 lot, 1 offer, 2 payments, 2 threads that also sweep; 1,421,291 states |
| `deals_serial` | Without overlap, is the trade API `Market`? And closed lots stay closed, an offered lot has a pending offer and a paid one is off the market (`LotFitsItsDeals`). | 1 lot, 2 offers, 2 payments of one offer, 1 thread that also sweeps; 241,426 states |
| `deals_live` | Does the sweep get to every stale offer while clients keep writing, unless more offers are pending than its select returns? | 1 request thread with failing calls, the scheduler thread, 2 offers, a select of 1; 348,327 states |
| `lock` | If jobs end within their TTL: no double execution, and a row whose owner died does not block the job for ever. | 2 scheduler runs and an admin trigger, TTLs 3, 1, 2, deaths and lost answers; 430 states |
| `schedule` | Are prices and forecasts made in time, unless a failure has prevented it; are both locks used as `JobLock` says; does a process that stays up fetch again and again? | interval 4, offset 1, TTLs 2 and 1, restarts at any time; 257,702 states |
| `ingestion` | With sources that fail, lie about totals and send rows of every kind, chunks refused or applied without an answer, crashes: only proper rows are stored, the log is true, every adapter is heard, every run ends. | 2 adapters, 2 aliases of one crop, chunks of 2, totals up to 2; 116,012 states |
| `mandi` | Over days of prices, some dated ahead, failing forecast runs and sweeps: what may a forecast row, and the advice made of it, say? | 2 markets, horizon 2, 3 quotes, 2 godowns; 96,466 states |
| `replies` | Over days of prices, moves, messages, restarts and alert checks: is the cap exact, is an alert decided on the price a reply states, or on that of its own market, does matching keep its order, and do its two directions agree? | 2 markets, 5 lots, 7 buyers, cap 2; 144,720 states |
| `alerts` | However two runs overlap, fail and roll back, and whatever the farmer edits: the cooldown, the exact count, no cooldown without cause, at most one SMS after switching off. | 1 alert, 2 runs, cooldown 2 ticks, 6 ticks of time; 1,480,626 states |
| `bookings` | Without overlap, capacity is kept, completed is final, and nothing is booked for a closed lot; with overlap, overbooking is bounded. | 4 bookings of 3, 2, 2, 2 on a store of 5, 2 threads, failures; 545,156 states |
| `reliability` | A grade written by an undisturbed rescoring is that of the record; without trouble the grade follows the record between requests. | 2 offers, 2 payments, 1 grievance, 2 threads, failures; 161,431 states |
| `pooling` | Without trouble a harvest is sold through one lot, revived offers left out; a pool is never too light, and without trouble too heavy only when a lot was named twice; whatever happens, no lot disappears. | 2 harvests, 2 pools (pools of pools), lots named twice, offers in any order, 2 threads, failures; 1,870,773 states |

Some properties are stated "as long as no requests overlap" with a history variable
(`overlap`, `trouble`) rather than with a one-thread instance, so that one run has both
the calm behaviours and the rough ones. `excused` of `Schedule` is of that kind: it names
the job that a failed call, a late timer or a dead run's row has cost its turn.

### Bounds and why they are enough

* Two threads: every race found in this code is between one reader-writer and one
  other writer; each handler touches a single lot, offer, payment or option. The
  proofs cover any number where they reach.
* One lot in `Deals`: no statement of the trade core touches two lots, and only
  `SettlementHasGround` relates a lot to several payments. Two offers are needed for
  `_reopen_lot_if_idle` ("another one is still pending"), two payments of one offer
  for the partial unique index. `SWEEP_LIMIT`, 500 in the code, is 1 in `deals_live`, so
  that of two pending offers a select leaves one out, and 2 in `deals_serial`.
* `Bookings`: two bookings fill the store and four exceed it by more than the largest,
  so the bound of `OverbookingBounded` can be missed.
* `Alerts`: with a cooldown of 2, runs of at most 2 and 6 ticks an alert can fire,
  cool down and fire again while an old run is still under way. `MaxTime` bounds
  `Tick`, `MaxRun` the length of a run: the proof needs `MaxRun <= Cooldown`, and a
  run that takes 24 hours is out of the question.
* `Pooling`: two harvests of weight one are interchangeable, so the run uses symmetry; two
  pools make a pool of a pool. `MaxIds` bounds `lot_ids`, which may name a lot twice.
  `MaxOffers` bounds the pairs of a lot and a status that an offer on it has: with one, a lot's
  offer can be made, decided, revived and accepted before and after the lot is pooled.
* `JobLock` needs no bound: times are what is left and stop at -1.
* `Schedule`: an interval has room for the offset, a lease and a tick in between; the
  admin's lease is longer than the tick's, as 45 minutes are than 15. Ages and the clock
  go no further than three intervals, since no condition looks further. `ScheduleProofs`
  has every interval, offset and TTL.
* `Ingestion`: two aliases of one crop are needed for a chunk that names a row twice
  (`002_seed.sql:71`), two pages and a total above what comes for a page that is missing,
  two chunks for one that fails beside one that does not. `MAX_TOTAL` bounds what
  data.gov.in announces. Prices in `MCIngestion` are on both sides of each boundary.
* `Mandi`: tiers at 2 and 3 observations of 3 days at most, so all three are reached; a
  horizon of 2 leaves rows of two runs side by side, and a price dated a day ahead (`MAX_AHEAD`)
  moves the horizon on; prices 20 and 26 within a band of
  18 to 30 make the line leave it. A storage limit of 1 with two godowns lets the query
  miss the near one, the one case that `ListingNeverForcesSale` and `StorageToldIsThere` except.
* `Replies`: a cap of 2 in a window of 2 ticks, days of 3 ticks: the window goes over
  midnight, the cooldown ends on the next day. `MCBuyers` has ties, unknown and zero
  distances, a rejected and an indifferent buyer; every subset of lots is asked about, with
  more lots than are read (`LOTS_LIMIT`) and more that fit than are shown (`SHOWN`). The alert
  has a market of its own in half the behaviours (`AlertMarkets`).

### Fairness

* `deals_live`: weak fairness of each thread's next call (the pool and the scheduler
  run threads that are ready) and of the hourly sweep's start on the scheduler's
  thread. No fairness of requests: a client need never call. The scheduler's calls do not
  fail in this run (`Failing`): a database that always fails expires nothing. A client's may.
* `lock`: weak fairness of time and of the release of a job that runs (jobs end);
  strong fairness of `Claim`: the scheduler fires again and again and not every answer
  of the database is lost. Weak fairness would not do, since a claim whose answer is
  lost disables the next one until the row expires.
* `schedule`: weak fairness of time, of the trigger's handling, of the catch-up's steps and
  of the end of work (jobs end within their lease, the module's assumption); strong
  fairness of a trigger's run that gets the lock: a trigger may misfire or its claim fail,
  but not for ever. None of starting and crashing: `FetchesForEver` is about a process
  that stays up.
* `ingestion`: weak fairness of the run's next step. A call to a source ends, for it has a
  timeout; what it answers is not constrained, so the run has to end whatever comes. A
  crash may end it too.

## Where the code and its words differ

TLC refutes the following. None is in a configuration, since every run passes; to see a
counterexample, name the property there, under the instance or without the condition that
is mentioned. The first five contradict a line of the repository.

* A payment of an offer that was rejected after the payment was recorded can be marked
  paid: `payments.py:107` never looks at the offer, `docs/API.md:117` lists a 409 for it.
  `PaidOfferIsAccepted` of `Deals` in `DealsSerial.cfg`.
* A job that outlives its TTL deletes its successor's row: `jobs.py:36` releases by key and
  holder, and all scheduler runs have one holder name; `006_job_locks.sql:15` has the locks
  "prevent double-execution across processes or restarts". `LeaseExclusive` of `JobLock` with
  `MayOverrun = TRUE`.
* An SMS whose alert is deleted while it is under way is never logged and ends the run: the
  insert at `alert_checker.py:233` is refused by the foreign key, though `001_schema.sql:374`
  calls the table the "log of every SMS notification dispatched". `EverySmsLogged` of `Alerts`.
* Two bookings that overlap overbook an option: `logistics.py:81`, against
  `009_logistics_bookings.sql:5` ("enforced in the API"). `CapacityEnforced` of `Bookings`.
* An alert is "edge-only" (`alert_checker.py:318`) as far as the last two observations go,
  whenever those were: without new prices it fires once a day for the same two.
  `RefiresOnlyOnOldNews` of `Replies` says how far this goes.

Found while the code was read for a module, and provided for in the modules:

* Trade, with overlapping requests: a payment can leave a settled status (`payments.py:145`
  overwrites what was paid after it was read); an offer accepted after the sweep's select is
  expired (`marketplace.py:87` updates by id); `create_offer` marks a lot offered that was
  closed since it was read (`offers.py:48`); an accept beside a reopening of the lot leaves an
  accepted offer on an open lot. `ClosedLotStaysClosed` and `ImplementsMarket` with two threads;
  `OnlyLateWritesTakeBack`, which holds, says that nothing else does such a thing. An accept
  whose second call fails (`offers.py:107`) leaves an accepted offer on an open lot, too.
* The sweep selects 500 pending offers in no order and looks at their age afterwards
  (`marketplace.py:77`): with more of them pending a stale one may be missed every time.
  `StaleOffersExpire` without `\/ Crowded` in `DealsLive.cfg`.
* Bookings: `logistics.py:144` updates by id and owner, so with overlap a completed booking
  can change (`CompletedIsFinal` without its condition); a cancelled booking can be taken up
  for a lot that is gone, as `update_booking` does not look at the lot (`logistics.py:139`)
  where `create_booking` does (`logistics.py:37`). The latter takes no overlap.
* Reliability, with overlap: the older reading may be written last (`marketplace.py:158`).
  Without evidence the grade stays that of the evidence there was; "callers keep the seeded
  value" (`marketplace.py:98`) holds only until the first rescoring.
* Pooling, with overlap: a member on which an offer is accepted after it was read goes into the
  pool (`lots.py:90`), and a lot can be both promised and pooled. It takes neither overlap nor
  failure if the offer was decided before and is made pending again: `update_offer` does not
  look at the lot (`offers.py:93` to `107`), so the offer can be accepted after the lot has been
  pooled. `SoldOnce` without `l \notin revived`.
* Pooling: an accepted offer can be rejected, and its lot stays matched with nothing to show for
  it, since only an offered lot is reopened (`marketplace.py:64`). `MatchedIsPooled` therefore
  leaves out lots on which an offer was ever accepted.
* Pooling: a lot named twice in `lot_ids` is weighed twice (`lots.py:57`), and so are the pools
  made of that one. `PoolWeighsItsParts` states it: heavier exactly then, without overlap and
  failure.
* Ingestion: a bad row does cost others their place: two aliases of one crop
  (`002_seed.sql:71`) give one chunk the same row twice, which the database refuses as a
  whole (`runner.py:161` says otherwise). A page of data.gov.in that fails after the first
  ends the fetch as if it were the last (`data_gov_in.py:142`), and the log says success.
  agmarknet without any data is logged failed.
* Schedule: the first scheduled ingestion comes a whole interval after the start
  (`jobs.py:171`); a start shortly after a success skips the catch-up, so prices may get
  nearly two intervals and a lease old (`FetchedInTime` has the bound); a catch-up soon after
  a crash is refused by the dead run's row; the catch-up's forecast may be refused by the one
  five minutes after the start, which runs on the old prices; a run without any adapter
  counts as one.
* Forecasts: a price dated ahead, which no validator refuses, moves the horizon on
  (`engine.py:259`); the rows up to that date stay those of an older run, nearer than the new
  ones. `NearerIsNewer` without its second disjunct.
* Forecasts: without a band a prediction may be negative. The first of the forecast rows
  that advice rests on may be today's, of yesterday's run. `get_forecasts` with `days=7`
  shows six days of a fresh run, and the summary's "latest" (`forecasts.py:65`) is the row
  written last.
* Advice: a near godown may be missed behind twenty others, as the limit comes before the
  distance (`sale_window.py:180`).
* Matching: a distance of 0 counts as none among ties (`matching_engine.py:129`). A buyer's
  supply shows twenty lots (`matching_engine.py:187`), so that a lot whose ranking names him may
  be missing from it; and it reads 200 before it filters (`buyers.py:51`).
* Alerts and replies: the alert's query omits `market_id` (`alert_checker.py:277`), so its
  district "mean" is one row of the best source where `notifications/prices.py:29` promises
  the same logic; with several markets reporting and none near the two differ. An alert with a
  market of its own (`alert_checker.py:258`) is decided on that one, whichever market a reply
  tells its farmer of. The advice in a reply rests on the first row of any market, the price
  beside it on the series. A crossing is missed when two days' prices arrive between two checks.

Seen in passing: `create_booking` inserts `option_name` and `rate_per_qtl`
(`logistics.py:95`), columns no migration gives `logistics_bookings`; a disputed payment may
be marked failed, which raises the buyer's score.

## Proofs

TLAPS proves the theorems for every value of the constants that satisfies the module's
`ASSUME`; TLC evaluates those assumptions on the instances.

* `DealsProofs`: `TypeCorrect`. `UniqueOpenPayment`: the invariant is inductive given
  the types, because the statements that can make a payment open, the insert and the
  updates to paid or back, are each subject to the index (that is where the code's
  check-then-insert leans on the database). `SettlementGrounded`: `SettlementHasGround`
  alone is not inductive; `GroundInv` adds what a handler knows between its calls (one
  about to insert a payment has seen its offer accepted, one about to sell the lot has
  marked its payment paid). `FreshOfferStands`: only an offer that was stale when the sweep
  read it is in the sweep's list, and offers do not grow young (`AgedInv`). `OnlyLateWrites`,
  of `LateWrites`: as long as no other handler has changed the row a handler has read, what it
  read is still so when it writes, and then none of the forbidden changes is the one it makes.
  These hold with any number of threads and failing calls.

  The others need one request at a time: with two threads TLC refutes all of them.
  `OneAtATime` says there is one worker; `ClosedLotsStayClosed`
  then holds with failing calls too, since what a handler has read is still so when it writes
  (`KnowInv`: for each place in a handler, what it knows of its offer, lot and payment).
  `LotsFitTheirDeals` and `DealsImplementMarket` also assume that calls do not fail: a handler
  that stops between two writes leaves a lot that does not fit, and `Market` has no half
  requests. For these, `LotFitsOrFollows`: a lot that does not fit is the one the handler is
  about to put right. The refinement reads the mapping off the one worker (`SeenIsDone`:
  its CHOOSEs have one answer); then a first step is the request of `Market` or changes nothing
  (`MarketBegin`), and a later call is that request, or a write already counted
  (`MarketContinue`).
* `AlertsProofs`: `TypeCorrect`; `CooldownIsKept` by the invariant `IInv`: while a run has an
  alert in hand the row carries that run's stamp, which is too recent for every other run; what
  another run has selected is either still true or leads to a claim that fails, before and after
  a rollback (`SeenInv`), and the row never forgets the last SMS (`SentInv`).
  `CooldownAlwaysHasCause` adds `CauseInv`, on the stamp a rollback would put back.
  `SwitchedOffIsQuiet`: once one SMS has gone out since the farmer switched off, none is under
  way (`QuietInv`); at most one run could have had the alert in hand. `CounterIsExact`:
  `notified_count` is the number of SMSs sent, of those a dead run leaves unknown, and of the
  one in hand. `CountInv` treats the counter like the stamp: what a run has selected is still
  true, or its claim will fail. The counts are cardinalities of histories, which stay finite.
* `BookingsProofs`: `CapacityIsKept` without overlap, `BookingsStayConsistent` (types, and the
  bound on overbooking with overlap), `RefusalsStand`; any number of threads. The status column
  says too little to be inductive, as a booking that has passed the check is not written yet.
  `ClaimInv` therefore bounds what is active together with what is about to be: without overlap
  by the capacity, with it by the capacity and one booking more for each other thread, as each
  has checked with at most the others' bookings unseen. `FoundInv` has what a thread has read of
  the booking it is going to write.
* `ReliabilityProofs`: `TypeCorrect`, `GradesStayConsistent`, `GradeFollows`. Neither grade
  property is inductive: `ReadingInv` says of a rescoring nobody has disturbed that the
  payments and grievances it has counted are those on record, so the grade it is about to
  write is theirs, and `SoloInv` that without trouble every rescoring is undisturbed and the
  grade follows from the record whenever none is under way.
* `PoolingProofs`: `MatchedLotsArePooled`, whatever overlaps and fails: a member still to be
  marked is contained in a pool that is there (`Handling`), and lots that are there stay
  (`Lasting`). Of `PoolsStayConsistent` two parts hold with trouble, too: `Heavy` adds up
  over what a request has read, whatever lots that names (`MembersTotal`). The exact weight, and
  `HarvestsAreSoldOnce`, need a time without trouble: `SoldInv` says that of two lots
  that promise a harvest in common one is the pool under way and the other a member it has
  still to mark (`Apart`), which has no offer to be accepted (`OffersFit`); so the open members
  a request reads are disjoint, and its pool weighs what is in them (`Weighed`, by `TotalWeighs`).
* `ScheduleProofs`: `LocksAreKept`, the refinement of `JobLock` for both keys. Each step is
  first shown to do one of these to a row (`RowStep`): nothing, a claim, an unanswered
  claim, an end with or without release, time passing, or being deserted. All but the last
  are `JobLock` steps as they stand; a crash ends every worker at once, and is one `Die`
  only because at most one works under a row (`LocksInv`, `OneWorkerPerJob`). `WorkIsInTime`:
  neither bound is inductive. `TimeInv` adds what the bounds rest on: the age of a running
  job and what is left of its lease make its TTL; a trigger dealt with without an excuse
  leaves an age no greater than the time since that trigger (`FetchedInv`), and for forecasts
  that and the admin's lease (`ForecastInv`), since whoever refuses the trigger owns the row;
  a catch-up that is not fetching stands at clock 0, and a logged success began no longer ago
  than it was logged plus a lease (`SuccessInv`).
  Of `JobLock` itself: `LockIsTyped`; `LeaseIsExclusive`: under `SafeUse` (distinct names, or
  no job overruns) two leases in time never overlap. `LeaseInv` says that the owner of
  an unexpired lease owns the row with the same time left; so nobody can steal it, and
  by `SafeUse` nobody else deletes it. With `MayOverrun` TLC refutes it: `SafeUse` is
  needed, and the code does not secure it. `NoDoubleExecutionInTime` is the half the
  code does secure: no overrun, one shared name.
* `IngestionProofs`: `RunIsKept`, that `IInv` is inductive, and from it `OnlyProperIsStored`,
  `TheLogIsTrue` and `NoSourceBlocksOthers`, for any adapters, aliases, answers, retries and
  chunk size. A log row speaks of the whole turn of an adapter, so the invariant has to account
  for the turn at every call: `Turn` (what is to come is a tail of the runner's list, and an
  adapter comes once), `Books` (what was seen is rejected or in the batch; a source that was
  down has left its error), `Chunks` (as many rows of the batch are in the table as were
  counted, and without an error all so far, each as it came or as a later row of the batch with
  its key replaced it), `Fresh` (nothing is carried from one adapter to the next). `LogKept`
  says that a row once logged stays true: later adapters write rows of their own source only.
  `Heard`: whoever had his turn has a row, whatever happened in it; so a run that comes to
  rest, unless a crash or the metadata ended it, has a row of every adapter. That a batch holds
  only accepted, proper rows (`GoodRows`, `OnlyProperRows`) follows from the validator's checks.
* `MandiProofs`: `NearerDaysAreNewer` and `ForecastsAreFreshOrHidden`, for any markets, horizon
  and prices, dated ahead or not. How old a row is does not depend on what it says: the
  predictions stay unexpanded, and `DatedRows` (a row has an age, prices are rows of the
  schema) is all the invariant needed beside `NearerIsNewer` itself; a run leaves alone a pair's
  rows up to its anchor, and whatever it renews after that is nearer than what it leaves
  (`WrittenRows`); an anchor ahead of today is the date of a price (`RewrittenFromAnchor`). Of the
  advice, `StorageIsThere`, `ListingIsHarmless` and `GlutIsNotWaitedOut` hold in every state
  whatever the tables contain; they rest on the cascade, and the first two on what a query
  within its limit returns (`AllOfTheList`). `RowIsSound` and `UpIsNotDown` are about the
  operators that make a row and a trend, for any numbers. `StoredForecastsAreSound` and
  `EveryAdviceIsSound` put these together with what the numbers are: `TablesSound` says that the
  prices in the table are rows of the schema and that every forecast row is sound or says that
  its days are too few. That it is inductive rests on the arithmetic of both models
  (`PredictionsAreRows`): a variance is not negative and its root is whole (`SpreadIsNatural`,
  `RootIsNatural`), the spread of a window's days is positive, so the fit divides by no zero
  (`SpreadOver`), and what it divides by goes into the scale (`FitIsWhole`). `FitIsLeastSquares`
  is the pair of normal equations (`ResidualsCancel`, `FitLeavesNothing`).
* `MandiProofs`, of `Replies` and `Matching`: `CapIsKept`, `MatchingIsSound`,
  `AlertsSeeToldPrices`, `NoRefireToday`, for any cap, window, day, prices, lots and buyers. The
  invariant `RepliesInv` has four parts. `StampsAndTexts`: the stamps fall from the oldest on,
  and those within the window are the messages sent in it, which the code's list does not show,
  as it keeps stamps out of the window until the next message; so a tick may come before or
  after they are dropped (`DroppedBeforeOrAfter`). `ToldOfCrossing` and `ToldToday` carry
  `NoRefireToday`, which is not inductive: an SMS tells of a crossing, and if there is a price
  of today, it was sent since midnight. Were the first price of a day to leave the last two
  observations as they were, both would be that price (`OneMoreDay`, `NoNews`), and from a price
  to itself nothing crosses. `AlertSeesToldPrice` needs `RowsAndClock` only: the i-th day of a
  set of days is well defined (`EveryPlaceIsTaken`, `PlacesAreDays`), a day with rows has a
  price and a mean, and with one market the mean is the price (`DaysHaveMeans`). `MatchingHolds`
  holds in every state: scores are sums of which bid, district and distance have the largest
  share (`RankingKeepsOrder`), and an order without rounds has a first on every finite set
  (`SomeoneComesFirst`).

Sums. Capacity, weight and their bounds are sums over finite sets, defined by a recursive
function in the community modules. That this function exists, is unique, takes the elements
in any order and adds up over disjoint sets are inductions (`SumExists` to `SumUnion`). No
prover here instantiates a theorem with an operator for a parameter, so they are stated
about a set: if the elements, or subsets, for which a fact holds form a set `C`, the complement
of `C` has no least element, and is empty by `WFMin` (`SubsetInduction`, `StepInduction`). The
sums of `Bookings` run over one fixed weight, those of `Pooling` over two, those of `Mandi` over
the days of a window and the markets of a day; each module has its own.

What is assumed of the constants. Bookings, harvests, payments, grievances, workers, godowns,
lots and buyers are finitely many. `Quotes` and `Reports` are typed rows with prices that the
validator lets through (above 0 in `Quotes`), the band is in order (`chk_sanity_band`,
`001_schema.sql:85`). What a source sends is typed as `RawPriceRecord` is
(`ingestion/base.py:23`), with any values; the runner's adapters are distinct, and each has an
alias, as `002_seed.sql` gives them (for one without, `runner.py:112` logs a failure and goes
on). Quantities, bids and distances are numbers or missing, as the columns are. The window of
the cap is shorter than a day, as `_OUTBOUND_WINDOW_SEC` is.

Only model-checked: liveness (`StaleOffersExpire`, `LockNotStuck`, `FetchesForEver`, `RunEnds`),
which this prover does not reach. Every other property of a run is stated by a theorem.

## Plan

Done, in this order: `Deals`, `Market`, `DealsSerial`, `LateWrites`, `JobLock`, `Alerts`, `Bookings`,
`Reliability`, `Pooling`; then `Series`, `ForecastModel`, `SaleWindow`, `Mandi`; `Matching`,
`Replies`; `Validator`, `Ingestion`; `Schedule`; with the proofs above.

Next theorems: that one run of `Ingestion` is a fetch of `Schedule`, step by step, and the claim
of `Alerts` the one step `CheckAlert` of `Replies`; both are argued above and not proved.

Modules that could follow: the verification of inbound messages (time stamp and nonce cache,
shared by threads), and the cut of `rank_buyers` to its first ten.

## Not modelled

| Part | Why |
|---|---|
| Inbound verification of SMSs | signature, time stamp and nonce are checked before `_process_inbound`, which takes them as given |
| SMS gateway | HTTP of one provider; its outcome (sent, failed) enters the modules that call it. Whether a timed-out request was delivered is known to the provider alone |
| Price limit of 30 rows, comparison with nearby markets (`sale_window.py`) | the first cuts a history longer than any decision looks at unless many markets report; the second adds a sentence |
| A scraper that outlives the 45 minutes of its lease | `JobLock` has what happens then (`MayOverrun`); `Schedule` assumes it does not |
| Prices dated in the future, for alerts and replies | no validator refuses them: `Mandi` has them, up to `MAX_AHEAD` days; `Replies` has prices of today and before |
| Markets outside the farmer's district, for alerts and replies | near and own markets are among those of the district; one elsewhere adds a market whose prices no other reading sees |
| Authentication, dependencies, configuration, rate limit | stateless checks before a handler; the rate limiter is a library |
| Profiles, buyers, markets, commodities, dashboards, intelligence, read-only price and forecast routes | reads and joins, or a single row written by its owner |
| Schema, policies, seeds | constraints that matter (the partial unique index, foreign keys, CHECK lists) are in the modules; the policies are bypassed by the service role |
| Scripts, demo, templates, tests | not part of the running service |
