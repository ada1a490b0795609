------------------------------ MODULE Ingestion ------------------------------
(***************************************************************************)
(* One IngestionRunner.run after another, as the job lock lets them: the   *)
(* metadata, then adapter by adapter the fetch of every alias of the       *)
(* source, the validation, the chunked upsert and the row in               *)
(* ingestion_log.  Every call to a source or the database is a step that   *)
(* may fail, and the process may die between any two.                      *)
(*                                                                         *)
(* The sources answer what they like, within Items; the day, the grade and *)
(* the arrival quantity play no part and are left out.                     *)
(***************************************************************************)
EXTENDS Validator, Sequences, SequencesExt

CONSTANTS
  Adapters,     \* in the order of the runner: "data_gov_in", then "agmarknet"
  KeysOf,       \* the source_keys of each adapter
  Spellings,    \* of the district that data.gov.in is asked for
  TRIES,        \* of one call to data.gov.in
  PAGE_SIZE,
  UPSERT_CHUNK,
  MAX_TOTAL,    \* bound: the largest total data.gov.in announces
  Items,        \* items of the answers, per fetch key
  Scrapes       \* answers the scraper may give for all markets together

\* A record as a source gives it; not readable: without a date, or with no number.
RawPrice == Int \cup {Missing, Infinite}
RawRecord ==
  [readable : BOOLEAN, commodity : STRING, market : STRING, variety : STRING,
   unit : STRING, min : RawPrice, modal : RawPrice, max : RawPrice]

ASSUME IngestionAssumption ==
  /\ Adapters \in Seq({"data_gov_in", "agmarknet"}) /\ IsInjective(Adapters)
  /\ \A s \in Range(Adapters) : KeysOf[s] \in Seq(Range(KeysOf[s])) /\ KeysOf[s] # <<>>
  /\ {Spellings, TRIES, PAGE_SIZE, UPSERT_CHUNK} \subseteq Nat \ {0} /\ MAX_TOTAL \in Nat
  /\ \A key \in UNION {Range(KeysOf[s]) : s \in {"data_gov_in"} \cap Range(Adapters)} :
       Items[key] \subseteq RawRecord
  /\ Scrapes \subseteq Seq(RawRecord)

VARIABLES
  prices,  \* rows of public.prices
  log,     \* by source, what _log_run was called with in this run
  at,      \* where the run stands
  todo,    \* adapters still to come, the current one first
  keys,    \* fetch keys of the adapter still to come, the current one first
  fetch,   \* the fetch_prices under way
  tally,   \* seen, rejected, written, and errors: fetch_errors is not empty
  batch,   \* all_valid_for_adapter
  offset,  \* of the next chunk
  facts    \* history, of the adapter: a key was not answered (down), a chunk was applied

vars == <<prices, log, at, todo, keys, fetch, tally, batch, offset, facts>>
data == <<prices, log>>
adapterVars == <<todo, tally, batch, offset, facts>>

Sources == Range(Adapters)
Adapter == Head(todo)
NoFetch == [spelling |-> 1, tries |-> 0, got |-> <<>>, total |-> 0]
NoTally == [seen |-> 0, rejected |-> 0, written |-> 0, errors |-> FALSE]
NoFacts == [down |-> FALSE, wrote |-> FALSE]
NoLog == <<>>

Blank ==
  /\ keys' = <<>> /\ fetch' = NoFetch
  /\ tally' = NoTally /\ batch' = <<>> /\ offset' = 0 /\ facts' = NoFacts

Init ==
  /\ prices = {} /\ log = NoLog
  /\ at = "idle" /\ todo = <<>> /\ keys = <<>>
  /\ fetch = NoFetch /\ tally = NoTally /\ batch = <<>> /\ offset = 0 /\ facts = NoFacts

-----------------------------------------------------------------------------
\* kept: the insert got through.
LogRow(status) ==
  [status |-> status, seen |-> tally.seen, rejected |-> tally.rejected,
   written |-> tally.written, batch |-> batch, facts |-> facts, kept |-> TRUE]

\* _log_run, which swallows the failure of its insert.
LogRun(source, row) ==
  \E kept \in BOOLEAN :
    log' = [s \in DOMAIN log \cup {source} |->
              IF s = source THEN [row EXCEPT !.kept = kept] ELSE log[s]]

Start ==
  /\ at = "idle"
  /\ at' = "metadata" /\ todo' = Adapters /\ log' = NoLog
  /\ Blank
  /\ UNCHANGED prices

Metadata ==
  /\ at = "metadata"
  /\ \/ /\ at' = "next"
        /\ UNCHANGED log
     \/ /\ at' = "idle"
        /\ LogRun("system", LogRow("failed"))
  /\ UNCHANGED <<prices, keys, fetch, adapterVars>>

\* The next adapter, with the aliases found for it, or the end of the run.
NextAdapter ==
  /\ at = "next"
  /\ IF todo = <<>> THEN at' = "idle" /\ UNCHANGED <<log, todo>> /\ Blank
     ELSE \/ /\ at' = "fetch" /\ UNCHANGED <<log, todo>>
             /\ keys' = KeysOf[Adapter]
             /\ UNCHANGED <<fetch, tally, batch, offset, facts>>
          \/ /\ LogRun(Adapter, LogRow("failed"))
             /\ todo' = Tail(todo)
             /\ UNCHANGED at /\ Blank
  /\ UNCHANGED prices

-----------------------------------------------------------------------------
\* Items that an adapter cannot read are dropped without a trace: no date, no number,
\* no positive modal price.  data.gov.in's zero bounds count as none.
Readable(item) == item.readable /\ item.modal # Missing /\ (item.modal = Infinite \/ item.modal > 0)
SafePrice(p) == IF p \in Int /\ p <= 0 THEN Missing ELSE p
Parsed(item) ==
  IF Adapter = "data_gov_in"
    THEN [item EXCEPT !.min = SafePrice(@), !.max = SafePrice(@)] ELSE item

\* The members of s at the positions in I, in their order.
Picked(s, I) ==
  [k \in 1 .. Cardinality(I) |->
     s[CHOOSE i \in I : Cardinality({j \in I : j < i}) = k - 1]]

Records(items) ==
  LET readable == Picked(items, {i \in DOMAIN items : Readable(items[i])})
  IN [i \in DOMAIN readable |-> Parsed(readable[i])]

ToNextKey ==
  /\ keys' = Tail(keys)
  /\ fetch' = NoFetch
  /\ at' = IF Tail(keys) = <<>> THEN "store" ELSE "fetch"

\* fetch_prices returns these items and the runner validates their records.
Take(items) ==
  LET records == Records(items)
      good == Picked(records, {i \in DOMAIN records : Accepted(records[i])})
  IN /\ tally' = [tally EXCEPT !.seen = @ + Len(records),
                               !.rejected = @ + (Len(records) - Len(good))]
     /\ batch' = batch \o [i \in DOMAIN good |-> Normalized(good[i], Adapter)]
     /\ ToNextKey

\* A SourceFetchError: the runner notes it and goes on with the next key.
KeyFails(down) ==
  /\ tally' = [tally EXCEPT !.errors = TRUE]
  /\ facts' = [facts EXCEPT !.down = @ \/ down]
  /\ ToNextKey
  /\ UNCHANGED batch

\* Slip: the exception ends the run.
AdapterFails_Returns ==
  /\ LogRun(Adapter, [LogRow("failed") EXCEPT !.facts.down = TRUE])
  /\ at' = "idle" /\ todo' = <<>>
  /\ Blank

\* Any other exception ends the adapter; what its earlier keys brought is dropped.
AdapterFails ==
  /\ LogRun(Adapter, [LogRow("failed") EXCEPT !.facts.down = TRUE])
  /\ at' = "next" /\ todo' = Tail(todo)
  /\ Blank

\* Pages of at most PAGE_SIZE items, with the total that comes along.
Pages(key) == UNION {[1 .. n -> Items[key]] : n \in 0 .. PAGE_SIZE}

\* Slip: the attempts are not counted.
Retry_Forever ==
  /\ fetch' = [fetch EXCEPT !.tries = (@ + 1) % TRIES]
  /\ UNCHANGED <<log, at, keys, adapterVars>>

Retry ==
  /\ fetch.tries + 1 < TRIES
  /\ fetch' = [fetch EXCEPT !.tries = @ + 1]
  /\ UNCHANGED <<log, at, keys, adapterVars>>

CallFailed(failure) == failure = "refused" \/ fetch.tries + 1 = TRIES

OtherSpelling ==
  /\ fetch' = [fetch EXCEPT !.spelling = @ + 1, !.tries = 0]
  /\ UNCHANGED <<log, at, keys, adapterVars>>

\* The answer to the first call, for the spelling that is its turn.
FirstPage ==
  /\ at = "fetch" /\ Adapter = "data_gov_in"
  /\ \/ Retry                                       \* transient: no answer, 429, 5xx
     \/ \E failure \in {"transient", "refused"} :
          /\ CallFailed(failure)
          /\ KeyFails(TRUE) /\ UNCHANGED <<log, todo, offset>>
     \/ AdapterFails                                \* not JSON, or no number as total
     \/ IF fetch.spelling < Spellings THEN OtherSpelling
        ELSE KeyFails(TRUE) /\ UNCHANGED <<log, todo, offset>>      \* no "records"
     \/ \E page \in Pages(Head(keys)), total \in 0 .. MAX_TOTAL :
          IF page = <<>> /\ fetch.spelling < Spellings THEN OtherSpelling
          ELSE /\ fetch' = [fetch EXCEPT !.got = page, !.total = total, !.tries = 0]
               /\ at' = "page"
               /\ UNCHANGED <<log, keys, adapterVars>>
  /\ UNCHANGED prices

\* An announced page that comes empty or fails for good ends the fetch with what
\* there is, as if it were all.
NextPage ==
  /\ at = "page"
  /\ IF Len(fetch.got) >= fetch.total
       THEN Take(fetch.got) /\ UNCHANGED <<log, todo, offset, facts>>
     ELSE \/ Retry
          \/ Take(fetch.got) /\ UNCHANGED <<log, todo, offset, facts>>
          \/ \E page \in Pages(Head(keys)) \ {<<>>} :
               /\ fetch' = [fetch EXCEPT !.got = @ \o page, !.tries = 0]
               /\ UNCHANGED <<log, at, keys, adapterVars>>
  /\ UNCHANGED prices

\* The scraper, market by market; one that fails is skipped, and no record at all is
\* an error even if every market answered.
Scrape ==
  /\ at = "fetch" /\ Adapter = "agmarknet"
  /\ \E items \in Scrapes, down \in BOOLEAN :
       IF Records(items) = <<>> THEN KeyFails(down) ELSE Take(items) /\ UNCHANGED facts
  /\ UNCHANGED <<prices, log, todo, offset>>

-----------------------------------------------------------------------------
SameKey(r, q) == r.source = q.source /\ r.market = q.market /\ r.variety = q.variety

Chunk == SubSeq(batch, offset + 1, Min({offset + UPSERT_CHUNK, Len(batch)}))
\* One statement cannot touch a row twice: the database refuses such a chunk.
Duplicated == \E i, j \in DOMAIN Chunk : i < j /\ SameKey(Chunk[i], Chunk[j])

Upserted == {r \in prices : \A q \in Range(Chunk) : ~SameKey(r, q)} \cup Range(Chunk)

ChunkFails == tally' = [tally EXCEPT !.errors = TRUE]

\* Slip: the failure of a chunk is logged but not kept.
StoreFailed_Silent == UNCHANGED <<tally, prices, facts>>

\* A chunk that is refused or fails, or that is applied though its answer is lost.
StoreFailed ==
  /\ ChunkFails
  /\ \/ UNCHANGED <<prices, facts>>
     \/ ~Duplicated /\ prices' = Upserted /\ facts' = [facts EXCEPT !.wrote = TRUE]

Stored ==
  /\ ~Duplicated
  /\ prices' = Upserted
  /\ tally' = [tally EXCEPT !.written = @ + Len(Chunk)]
  /\ facts' = [facts EXCEPT !.wrote = TRUE]

Store ==
  /\ at = "store" /\ offset < Len(batch)
  /\ Stored \/ StoreFailed
  /\ offset' = offset + UPSERT_CHUNK
  /\ UNCHANGED <<log, at, todo, keys, fetch, batch>>

Status ==
  IF tally.errors /\ tally.seen = 0 THEN "failed"
  ELSE IF tally.rejected = 0 /\ ~tally.errors THEN "success" ELSE "partial"

Report ==
  /\ at = "store" /\ offset >= Len(batch)
  /\ LogRun(Adapter, LogRow(Status))
  /\ at' = "next" /\ todo' = Tail(todo)
  /\ Blank
  /\ UNCHANGED prices

\* The process goes down, and the run with it.
Die ==
  /\ at # "idle"
  /\ at' = "idle" /\ todo' = <<>>
  /\ Blank
  /\ UNCHANGED data

Step == Metadata \/ NextAdapter \/ FirstPage \/ NextPage \/ Scrape \/ Store \/ Report
Next == Start \/ Step \/ Die

\* A run that has begun goes on.
Spec == Init /\ [][Next]_vars /\ WF_vars(Step)

-----------------------------------------------------------------------------
Logged(s) == s \in DOMAIN log

\* The run's state keeps its shape, and a status is one the log's CHECK allows.
TypeOK ==
  /\ at \in {"idle", "metadata", "next", "fetch", "page", "store"}
  /\ IsSuffix(todo, Adapters)
  /\ DOMAIN log \subseteq Sources \cup {"system"}
  /\ \A s \in DOMAIN log : log[s].status \in {"success", "partial", "failed"}
  /\ fetch.tries \in 0 .. TRIES - 1 /\ fetch.spelling \in 1 .. Spellings
  /\ Range(keys) \subseteq UNION {Range(KeysOf[s]) : s \in Sources}

\* What is stored is proper, whatever the sources sent (PriceValidator).
OnlyProperRows == \A r \in prices : Proper(r)

\* A success says that every record the adapter returned is in the table, as it came
\* last (IngestionRunner.run; the start-up catch-up trusts the status).
SuccessIsStored ==
  \A s \in Sources : Logged(s) /\ log[s].status = "success" =>
    /\ log[s].seen = log[s].written
    /\ \A i \in DOMAIN log[s].batch : LET r == log[s].batch[i] IN
         r \in prices \/ \E j \in i + 1 .. Len(log[s].batch) : SameKey(log[s].batch[j], r)

\* The log never claims more than was stored, and a failed adapter left the table as
\* it was (the counts and the status of ingestion_log).
LogClaimsNoMore ==
  \A s \in Sources : Logged(s) =>
    LET row == log[s]
        there == {i \in DOMAIN row.batch :
                    \E r \in prices : SameKey(r, row.batch[i])}
    IN /\ row.written + row.rejected <= row.seen
       /\ row.written <= Cardinality(there)
       /\ row.status = "failed" => row.written = 0 /\ ~row.facts.wrote

\* A source that is down is not mistaken for one without data: success only if every
\* key was answered, and the scraper succeeds, or succeeds in part, only with records
\* (base.py: "'source down' from 'source returned no data'").
DownIsNotEmpty ==
  \A s \in Sources : Logged(s) =>
    /\ log[s].status = "success" => ~log[s].facts.down
    /\ log[s].status = "success" /\ s = "agmarknet" => log[s].seen > 0
    /\ log[s].status = "partial" => log[s].seen > 0

\* The run keeps its shape and what it stores is proper.
RunStoresProper == TypeOK /\ OnlyProperRows

\* What ingestion_log says of an adapter's run is so, in all three respects.
LogIsTrue == SuccessIsStored /\ LogClaimsNoMore /\ DownIsNotEmpty

\* A run that is not cut short by a crash or the metadata has come to a report for
\* every adapter, whatever the others met (base.py: "one source being down never
\* blocks the others").
EveryAdapterHeard ==
  [][Step /\ at' = "idle" =>
       "system" \in DOMAIN log' \/ Sources \subseteq DOMAIN log']_vars

\* A run comes to its end, whatever totals and pages the sources make up.
RunEnds == (at # "idle") ~> (at = "idle")
=============================================================================
