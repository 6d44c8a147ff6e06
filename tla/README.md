# Verification of the market data service

TLA+ models of `market-data-service` (Go), the configurations that check them with TLC, and
proofs about them checked by TLAPS. Paths are relative to `src/market-data-service/` unless they
begin with `src/`. `PROJECT.json` says for every definition which lines it models.

## 1. The system

The service answers price requests over HTTP from a cache, a database, or one of several upstream
sources, stores what it fetches, and refreshes what has been asked for in the background.

| Part | State | Operations |
|---|---|---|
| Price retrieval, `Service.Historical` (`internal/marketdata/provider.go`) | none of its own between calls; per call the query, the place in the priority list, the result being built | one call: validate, cache, database, provider loop, mark, store, cache, answer |
| Circuit breaker and metrics (same file, 491-537) | `failures`, `status`, `metrics`, under `Service.mu` | `providerAvailable`, `recordFailure`, `recordSuccess`, `increment`; `Providers` and `Metrics` read them |
| Symbol catalog (same file, 275-456) | `symbols` under `Service.mu`, over a built-in list | `AddSymbol`, `ListSymbols`, `SearchSymbols` |
| Cache (`internal/cache`) | entries by key with an expiry, in memory or in Redis | `Get`, `Set` |
| Storage (`internal/storage/postgres.go`) | `price_bars`, `watched_symbols`, a pool of connections | `GetPrices`, `UpsertPrices`, `MarkWatched`, `ListWatched` |
| Feed (`internal/feed/feed.go`, `RefreshWatched`) | one goroutine with a ticker | a pass over the watched rows per tick |
| Rate limiter (`internal/httpapi/server.go`, 403-441) | a counter and a window per remote address | `allow` |
| HTTP handlers and middleware (`internal/httpapi/server.go`) | atomic counters | parse, call the service, map errors to status codes |
| Upstream adapters (`internal/providers`) | none | `Historical` of stooq, yfinance, openbb |
| yfinance script (`scripts/yfinance_fetch.py`) | none | one run per call of that adapter |
| Configuration, logging, redaction, API description | none | read once, or pure output |

How they interact. A price request passes the rate limiter and calls `Service.Historical` on its own
goroutine, once per symbol for a batch. `Historical` reads the cache, then the database, then goes
through the providers in priority order; each is asked for only if the breaker admits it. Bars that
come back are cut to the range, the symbol is marked as watched, the bars are upserted, the cache is
filled and the breaker told. The feed's goroutine calls the same function for every watched row with
`Refresh` set, which skips both lookups. `AddSymbol` marks a row for the feed as well. Handlers, feed
and restarts share the database; handlers and feed share the cache and the breaker. The bootstrap in
`cmd/` is not part of the repository's tree; that the service gets a store, a cache and a feed at
start is taken from how the packages are used.

What is hard about it:
- **Concurrency.** `Service.mu` protects single reads and updates, never a whole call. Breaker checks,
  provider calls, statements and cache writes of different goroutines interleave at will.
- **Partial failure.** Marking, storing and caching are separate, each may fail alone, failures of the
  first two are only logged; a cancelled context fails everything that comes after it.
- **Restarts.** The breaker, the catalog, the in-memory cache and the buckets are lost; rows and
  Redis entries are not, and neither is a client's place in what it is reading.
- **Connections.** A pool has a fixed number of them, and one statement is asked for while another
  connection is held.
- **Time.** Cooldown, cache expiry, windows of the limiter, the deadline of a feed pass.
- **Staleness.** Each layer answers without asking the next whether it knows better.

What makes each part correct:
- retrieval: an answer fits its query whichever layer it is from; what is said to be persisted is; an
  answer has a bar; every call ends; what is stored is refreshed;
- breaker: no call gets through an open circuit; counters stay consistent;
- catalog: an added symbol is watched; a client that walks the pages misses nothing and sees nothing twice;
- feed: every watched row is refreshed again and again; the goroutine ends when told;
- limiter: at most the limit per window, and nobody is refused for less;
- handlers: every request gets one answer, which says of each symbol what the service said, and the
  counters of `/metrics` agree with the answers;
- adapters and storage together: a range means the same days whoever serves it; what is stored reads
  back; what the database serves comes to be current.

## 2. The modules

| Module | What it is |
|---|---|
| `Historical` | `Service.Historical` with cache, storage and breaker: many goroutines, time, faults, cancellation, restart |
| `PriceService` | abstract specification: what a caller of the price service may rely on |
| `HistoricalPromise` | the mapping under which `Historical` implements `PriceService` |
| `HistoricalProofs` | theorems about `Historical`: types, breaker, answers, durability, watching |
| `PromiseProofs` | theorems about `Historical` and `PriceService`: it keeps the promise |
| `RateLimiter`, `RateLimiterProofs` | the limiter, and theorems about it |
| `PriceApi`, `PriceApiProofs` | the price endpoints: composes `RateLimiter` and `PriceService`; theorems about the whole |
| `PriceBars`, `BarsProofs` | one series of bars through adapters, `filterPrices`, the rows of `price_bars` and back; theorems about it |
| `Selection`, `SelectionProofs` | what a filter leaves of a slice, stated by counting positions; lemmas about it |
| `Feed`, `FeedProofs` | the refresher's goroutine and `RefreshWatched`, and a theorem about them |
| `Symbols`, `SymbolsProofs` | `AddSymbol`, `ListSymbols` and `SearchSymbols`; theorems about additions, walks through the pages and searches |
| `MCHistorical`, `MCRateLimiter`, `MCPriceApi`, `MCPriceBars`, `MCFeed`, `MCSymbols` | instances for TLC |

### Historical

A worker is a goroutine inside `Historical`; `pc` says where it stands. The step from one value of
`pc` to the next is a piece of the code that no other goroutine can see half done: a critical
section, one SQL statement, one cache access, one provider call begun or ended.

`Begin` is entry and validation. `CacheHit`/`CacheMiss` are `cache.Get`; `StoreHit`/`StoreMiss`
`GetPrices`; `UnknownProvider`, `SkipProvider`, `Admit`, `Exhausted` the head of the loop over the
priority list; `ProviderData`/`ProviderError` the provider's return together with `filterPrices` and
the two length checks; `RecordFailure` the bottom of the loop; `MarkWatched`, `UpsertPrices`,
`TouchWatched`, `CacheSet`, `RecordSuccess` the way of a success; `Respond` the handler's answer. Around
them are `Tick` (the clock), `Publish` (a new day's bar comes out upstream), `Cancel` (a handler's client goes
away, or the deadline of the feed's pass comes), `WatchSymbol` (`AddSymbol`'s row) and `Crash` (kill and restart).

A statement needs one of the pool's `MaxConns` connections. Most take it and give it back within their step;
`UpsertPrices` still holds its batch's (the deferred `br.Close`, `postgres.go:139`) when it asks for a second
one (`postgres.go:145`), so a worker at `touch` is in `Holding`, and a statement waits (`Acquires`) until there is
a `FreeConnection` or its context is done.

Abstractions. A bar is the provider it came from, on a day; prices are left out. A result is a
function from days to providers. A (symbol, interval) pair is one value, as every key in the code has
both. A range is a set of days. Whether a query is valid, or too wide for yfinance, is a field of it.
A provider name as the caller spelled it (`Names`) and the registered provider (`Registry`) are kept
apart, since the database compares the one and the registry looks up the other. A failing statement
had no effect, or took effect and lost its answer; the upsert's batch is one implicit transaction, taken as
committed once its inserts have succeeded: an error that only the commit shows is in the result of `br.Close`, which
the code drops, and is not modelled. `Key` tells any two queries apart that differ in more than `Refresh`: the code
joins the fields with `|`, which no symbol, interval, provider name or date is taken to contain.
Redis may lose an entry or keep an old one, silently. Data quality and the `Stale` flag are left out.

### PriceService

Calls in progress, their answers, and the bars kept. A call is answered once: with an error, and of the
kind its query deserves (rejected on the spot, an unknown provider, a failure), or with at least one
bar, each of which fits the query. Bars said to be persisted are among those kept; kept bars are never
lost; only a call in progress keeps bars, and only bars its priority list could have brought.
`KeepsPromise` says that `Historical` does this, with `kept` the rows of `price_bars`.

### PriceApi

A request goes through `Receive` (the middleware counts it, `allow` reads the clock), `CountIt` and `TooMany`
(the limiter), `Parse` (the checks that answer 400), `CallService`, and `TakeResult` for a single request or
`TakeEntry` for one symbol of a batch after the other, then `Send`. Between its steps other requests and
the turn of a minute come in. The limiter is `RateLimiter`, extended; the service is `PriceService`, so that
any behaviour `Historical` may show is there without its interior. The six codes of a bad request are one;
a 400 for an unknown provider is told from a 502. A symbol is a value, one of them the blank one, which
a batch passes on and the service rejects. A request may carry an unknown provider, or a priority list of one
unknown name; the latter is answered from stored bars where there are some (`Wanted`), but nothing is fetched for it
(`Fetchable`). To raise the counter of refused requests and to send the 429 are one step (`TooMany`), so the
equalities of `MetricsBalance` hold at that grain. Each endpoint's differences are kept: only the historical
one tells an unknown provider, `latest` cuts the answer to its last bar, a batch counts no errors.

### PriceBars

Here a bar has a value, so that an old version of it can be told from a new one. `offer` is what the sources
have; `Update` lets the next bar of a provider come out or revises one. `Stooq`, `YFinance` and `OpenBB` say which of
these bars an adapter returns for a range, and how it dates them; `Fetched` cuts them with `filterPrices`.
`table` and `latest` are `price_bars`: a row per provider and time, and per time the order of `updated_at`.
`UpsertPrices` is what one `INSERT ... ON CONFLICT` after the other comes to in one transaction: of the bars with one time the
last stays. `GetPrices` is the query. `Providers` are the registered adapters; a name that is none is `Historical`'s business.
Filters are `Selected` (module `Selection`): the elements at the positions that pass, in their order. Between `Fetch` and `Store`
other workers may fetch and store. A handler asks when the database has no bar of its range or fails; the
feed asks for the watched queries in turn. The breaker, the cache and the mark are left to `Historical`, the
deadline of a pass to `Feed`.

### RateLimiter

`Arrive` reads the clock (`server.go:431`), `Count` is the critical section, and between them the minute
may change. `late` counts requests that counted into a window their address had already left.

### Feed

`pc` is the goroutine's place: in the `select`, before `ListWatched`, in a refresh, or gone. `order` is
`watched_symbols` by `last_requested_at`, newest first. A refresh is seen from outside: it finds bars
and moves its row to the front, or it does not. `left` is the time until the pass's deadline.
That a refresh ends within `FetchTime` is assumed; a wait for a connection is not counted in it.

### Symbols

`AddSymbol` is four actions: arrival, the row (`Mark`, `MarkFails`), the map (`Insert`). `ListSymbols` is one: the
lock is held while the listing is merged, and the rest is computed from that copy. `SearchSymbols` is a
function of the state in the same way: all answers a search may get, by the order the map yields. `Listings` is every
order the sort may produce from a map that yields its entries in any order. The walk from page to page
is a client's and goes on at its offset when the service restarts; `added`, `replaced` and `gone` are what has
become of the catalog since it began. `Crash` takes away the entries that were only added (`Vanishing`) and
brings back those built in that another had hidden (`Reverting`).

## 3. The runs

| Run | Checks | Instance |
|---|---|---|
| `Breaker` | `NoCallWhileOpen`, `CountersAgree` | 2 workers, 2 providers, no storage; 3 calls, 5 ticks, cooldown 2 |
| `Data` | `AnswersFit`, `ServedNotEmpty` | handler and feed, memory cache, 2 connections, 2 series, 2 days (one published late), 3 calls, 1 client that leaves, 1 crash |
| `Faults` | `TypeOK`, `PersistedIsDurable`, `WatchedUnlessFailed`, `KeepsPromise`, `Answered` | handler and feed, Redis, 2 connections, 2 calls, 1 failing statement, 1 client that leaves, 1 crash |
| `Api` | `RefusalJustified`, `LimitPerLateRequest`, `ResponseSound`, `MetricsBalance`, `RequestAnswered` | 2 handlers, 1 connection, limit 1, 2 minutes, 3 requests out of 6 kinds, one of them a batch of 3 names |
| `Bars` | `InclusiveRange`, `StoredReadsBack`, `Converges` | a handler and the feed, 3 adapters, 2 days, 4 queries, 2 watched rows, 3 updates upstream, 1 failing call or statement |
| `Feed` | `TypeOK`, `EveryRowTried`, `FeedStops` | 3 rows, an interval of 4 with refreshes of at most 1, 1 failing statement, 1 crash |
| `Symbols` | `AddedIsWatched`, `WalkMissesNothing`, `WalkRepeatsNothing`, `SearchFindsListed` | 4 symbols, 2 built in, 2 additions, 24 queries, 1 failing statement, 1 crash |
| `RangeComplete` | violated, see below | 1 worker, no fault |
| `Pool` | violated | 2 handlers, 2 connections, no fault, nobody leaves |
| `PerClient` | violated | one client, two connections |
| `Starved` | violated | 2 rows, an interval with time for one |
| `Intraday` | violated | two hourly bars of one day, no fault |

Why the bounds suffice. `Breaker`: the circuit opens at the third failure, which one call can reach with
a list that names a provider twice plus one more call; two calls overlap while it opens, cools down
and is tried again within five ticks. `Data` and `Faults`: what one call leaves behind is read by a second
one and, in `Data`, by a third, with the feed writing between (its default list has one provider, the
other comes in by name; falling back along a list is in `Breaker` and `Faults`); a second fault adds no new place to fail, since
every statement can be the one that fails. Two connections are as many as there are workers: handler and feed can
stand in each other's way, and a deadline or a client that leaves resolves it; the deadlines of the feed's pass are not
counted against `MaxCancels`. `Api`: a request can be one window late (with a third minute the run
takes longer than is practical; `LimitHolds` covers any number), and with a limit
of one the second of two is refused; the batch has a good symbol between two blank ones, so an error
comes before and after a success and one name has two entries. `Bars`: with two days a range can begin
or end between them; a handler's fetch and one of the feed's overlap, with a revision between the
two, and a third update can come after both; the second watched row and the fault let another
provider's row become the newest. `Feed`: three rows make a first, a middle and a last
one. `Symbols`: four entries with ties in the name, pages of one, two and three; pages that begin, end
and lie beyond the listing's end all occur, and a restart in the middle of a walk takes entries away or brings back others. Counters in the guards (`MaxTime`, `MaxRequests`, `MaxFaults`,
`MaxCancels`, `MaxCrashes`, `MaxMinute`, `MaxAdds`, `MaxUpdates`) are the only bounds.

Deadlock is checked in every run but `Pool`, whose handlers come to stand still for ever; `Quiescent` and `Over` are the
states where a system may rest.
Symmetry is used for handlers in `Breaker` and `Symbols`, where only safety is checked.

Fairness. `Historical`: weak fairness of each worker's steps, since goroutines are scheduled, provider calls
have timeouts and statements return once they have a connection (weak fairness is enough for that: the pool serves those
who wait in their order, and the calls are bounded); calls need not begin, time need not pass. The context
of the feed's pass has a deadline (`feed.go:32`), so weak fairness of `Cancel(Feed)`; a handler's context is
the request's and has none, so a client may stay for ever. `Answered` therefore says that every call ends where
not all connections can be held by handlers, as in `Faults`, with one handler and two connections; without the feed's
deadline it fails there too. Where they can, it does not hold: that is the run `Pool`. `Feed`: weak fairness of
the goroutine's own steps and of the clock, and strong fairness of `Stop`, since Go's `select` chooses at
random among ready channels and so cannot pass over one for ever. `PriceApi`: weak fairness of each
handler's steps, the service's answer among them, which `Answered` justifies under the same condition; so
`RequestAnswered` speaks of a service whose connections are not all held by handlers. Requests need not come and
the minute need not turn. `PriceBars`: weak fairness of `Refresh` and of each call under way; `EveryRowTried`
is what says that the feed comes to its next row, where a pass has the time. No fairness is asked of requests,
shutdown or failures.

Where the code and its documents differ:
- `RangeComplete`: the database answers for a range of which it holds a part (`provider.go:202`), although
  `README.md:13` promises inclusive ranges.
- `Pool`: handlers that hold all connections, each for its batch, wait for one another for ever (`postgres.go:145`); a
  handler's context has no deadline, whatever `README.md:21` and `docs/microservice-standard.md:18` say of timeouts.
- `PerClient`: the limit is per connection, as `RemoteAddr` has the port (`README.md:243` says per client).
- `Starved`: the rows refreshed last are listed first, so a pass too short for all of them starves the
  others for ever (`README.md:157`).
- `Intraday`: the yfinance script dates an hourly bar by its day (`scripts/yfinance_fetch.py:37`), so the bars of
  a day overwrite each other in `price_bars`: the first answer has all of them and says they are persisted,
  later ones have one bar per day (`README.md:14` offers hourly intervals).

Four more, seen in reading, have no run of their own:
- a failing `MarkWatched` is only logged (`provider.go:239`), so a series can be stored and served without being watched
  (`StoredIsWatched`), although `test/integration/README.md:9` says requested symbols are tracked. `WatchedUnlessFailed`, in
  `Faults`, is what is left: cancelled contexts, deadlines and crashes between mark and upsert do not bring it about;
- a request's own priority list is ignored once the database has a bar, although `README.md:111` offers to override the
  priority: `GetPrices` looks at the forced provider only;
- `latest` answers 502 for an unknown provider where `historical` answers 400;
- a search puts a bare entry of the searched text first, which hides the name, exchange and currency of a symbol
  searched for exactly (`SearchFindsListed` leaves that entry out).

Two other hazards have no property because no document says what should be: a
client that leaves during a provider call is counted as that provider's failure, and a batch's
empty ranges open a provider's circuit. The counters stay consistent through both (`CountersAgree`).

## 4. The proofs

All of them hold for every value of the constants that meets the modules' assumptions: any number of
goroutines, providers, series, days, queries, rows and symbols, and any value of the bounds. The assumptions
say what kind of value each constant is and
- that every provider is registered under its own name, and the feed's queries carry neither a priority
  list nor a range (`HistoricalAssumption`);
- that `None`, which stands for a missing value, is no provider, row, query or answer, and no value of a row;
- that there are finitely many bars and built-in symbols: the one because a call holds a slice of bars whose last
  one `latest` takes, the other because `symbolCatalog` is a slice literal;
- that a request which is not a batch names one symbol.

Two theorems say less than the property they are about: `InclusiveHolds` and `ReadsBackHolds` speak of daily
bars (`Slots = 1`); the run `Intraday` shows that hourly ones do not read back.

`HistoricalProofs`:
- `TypeCorrect`: `TypeOK` is inductive. One lemma per action with more than one conjunct to show, then
  `NextType`. Holding the provider of each result to a registered one is what needs care: the
  database is asked with the caller's spelling.
- `BreakerHolds` (`NoCallWhileOpen`): with `Timely` (no call was admitted in the future). A call is
  admitted while the circuit is closed; a circuit opens only by a failure, which sets `lastFail` to
  now; so whoever was admitted before the circuit opened was admitted no later than `lastFail`. A
  success in between closes it.
- `InStepHolds`: `InStep`, the link between `pc`, `prov`, `idx` and `ans`, which the next two need: without it a
  worker could reach `persist` with an answer from nowhere.
- `AnswersFitHolds`: inductive together with `TypeOK`, `InStep` and `NewestStored`. `AnswerFrom` lists
  where a worker's new answer can be from, `CacheFrom` where a cache entry can be; each source fits.
  The lemma `KeyKeeps` is the heart: two queries with the same key want the same days and provider.
- `PersistedHolds`: rows only grow (`DatabaseNext`), so what was durable stays so; `touch` follows only a
  committed batch (`InStepOf`).
- `WatchedHolds` (`WatchedUnlessFailed`): while no statement has failed on its own, whatever is stored is watched. That alone
  is not inductive, since the bars are stored a step after the mark: `MarkedFirst` says that a call past its mark has
  its row, or has a cancelled context, which lets no later statement of the call through either.
- `CountersHold` (`CountersAgree`): for each provider, the calls counted cover those that failed and those still in
  flight, and a streak of failures is part of the failures counted. That the calls in flight are finitely many is
  itself inductive, so any number of goroutines is allowed; `FlightCounts` says what a call that begins
  or ends does to their number.

`PromiseProofs`: that `Historical` implements `PriceService`.
- `ServedHolds` (`ServedNotEmpty`), with `EndsHolds`: `Ends` says what the answer at hand is at each `pc`, `Filled` that a cache
  entry has bars.
- `SoundHolds`: `Sound` says that the answer of a finished call is one `PriceService` allows to its query. It follows from
  `TypeOK`, `InStep`, `Ends`, `AnswersFit` and `PersistedIsDurable`: no induction of its own.
- `PromiseKept`: the initial states map to an initial state of `PriceService`. A step of `Historical` begins a call,
  stores bars, answers, lets a call go (the answer is taken, or the process dies), or changes nothing that `PriceService` sees; there is a
  lemma for each kind. The upsert is the only step that changes `kept`, whether its answer is lost or not.

`PriceApiProofs`: `Receive`, `CountIt` and the rest are steps of three modules at once.
- `ApiLimits`: the limiter inside `PriceApi` is `RateLimiter`, so its theorems hold under the endpoints as well.
- `ResponseHolds` (`ResponseSound`): `HandlersOK` says for every stage of a request what its entries say so far of the symbols
  it has done. An entry stays sound because `PriceService` never gives up bars that it keeps; `HasLast` is what `latest` needs.
- `MetricsHold` (`MetricsBalance`): requests received are those answered plus those under way, and provider errors
  counted are those answered plus those about to be. `CountsOK` keeps the two sets finite and adds up.

`RateLimiterProofs`: `LimitPerLateRequest` is not inductive, as it says nothing about the bucket. `WithinAllowance`
does: what has been let through in a window is bounded by the late requests so far, plus what
the bucket has counted if it is in that window, plus a full limit if it has left it. A late request
resets the bucket and pays for it by raising `late`. `RefusalJustified` follows with `CountedAdmitted`: what a
bucket has counted has been let through, up to the limit.

`FeedProofs`: `FeedTypes`. `TypeOK` says, besides the types, that `order` has no row twice; it is inductive with `QueueOK`, a refresh is under way exactly as long as rows are left. `RemovedOnce` is about `RemoveFirst`: to put a
row in front and take it out where it was leaves every row there once.

`SelectionProofs`: filters are stated without recursion, so that no proof about them is an induction over data. The rank of a
number in a set is how many members are no greater; the k-th member is the one of rank k, and there is one by the
pigeonhole principle (`NthOf`). Numbers in ascending order are the members of their set as they are counted (`Ascending`);
to select of a selection is to select once (`SelectedTwice`).

`BarsProofs`:
- `InclusiveHolds` (`InclusiveRange`): each adapter takes all the days of the range and perhaps more, and `filterPrices` cuts days to
  days (`CutDays`), so what is left is the same for each.
- `ReadsBackHolds` (`StoredReadsBack`): `BarsInv` says that a worker about to store has bars one a day, in order and in its range, of a
  registered provider. Then every bar is the last one of its time, so the rows have its value (`StoredValues`), and the query's
  answer at these times is the bars themselves (`StoreReadsBack`).

`SymbolsProofs`:
- `AddedHolds` (`AddedIsWatched`): `Ready` says of each call past `MarkWatched` that its row is there.
- `MissesNothing`, `RepeatsNothing`: the order the map yields its entries in must not show, so the proof never speaks of a
  listing's indices but of a symbol's place, the number of symbols ahead of it (`ListingOf`: every listing has each
  symbol at its place). Of the symbols noted at the start, the client has seen those whose place is before its
  offset (`SeenSoFar`). An addition moves a symbol to a later place or not at all (`AddedPlaces`), a replacement moves none in a
  whole listing by symbol (`ReplacedPlaces`), so what has not been seen stays ahead. The last page ends the listing, and no
  place is beyond. A restart that takes away added entries moves those behind them to earlier places (`RemovedPlaces`):
  an entry may come to stand before the offset unseen, which is why `WalkMissesNothing` asks for `gone = {}`, but none that
  was seen comes to stand after it, so nothing is seen twice unless something is added (`SeenOnce`). `CrashOK` is the
  step; a built-in entry that comes back is a replacement like any other.
- `SearchHolds` (`SearchFindsListed`): needs only that the catalog is finite and has one entry for each symbol.

Only model-checked is what needs fairness, which is out of the prover's reach: `Answered`, `EveryRowTried`, `FeedStops`,
`RequestAnswered`, `Converges`.

## 5. Not modelled

- The HTTP endpoints of symbols, readiness, providers, configuration, version, metrics and documents: they
  call one function of the service, or none, and hold no state. Request ids, security headers and recovery.
- `Service.Providers` as an action: it changes nothing. That it reads `status` without the lock is a data race
  which Go may answer by ending the process; `Crash` has that at every step.
- The adapters' transport, and the parsing of single fields. Stooq leaves out a record it cannot read, the
  yfinance script fails as a whole on a value that is no number; either is a bar less or a call that fails.
- Data quality and the `Stale` flag, which a cache entry keeps as they were when it was filled: the age of a
  bar in hours is not in the models.
- The table of `NormalizeInterval`, configuration, logging, redaction, `Connect`, `Ping`.
- An error of the batch's commit (`br.Close`), and fields that contain the key's separator: see section 2.
- The time a call takes, the wait for a connection included: that three providers may outlast `WRITE_TIMEOUT` (`internal/config/config.go:47`) shows
  only as a caller that is gone.

## 6. Plan

Done: retrieval with breaker, cache and storage; its abstract specification; limiter; feed; catalog with
search; the price endpoints over limiter and service; bars through adapters and rows.

Proved: every safety invariant and action property of the passing runs, as section 4 states it, and that `Historical`
implements `PriceService`.

Next, to prove more:
1. Action properties that the inductive invariants already carry: a stored row stays, a catalog entry leaves only with the process.
2. Where a series is stored unwatched after a failing statement: that it was at least asked for.
3. For intraday bars, which rows do read back: the last bar of each day.
