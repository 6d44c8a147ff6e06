------------------------------ MODULE Historical ------------------------------
(***************************************************************************)
(* Service.Historical, the call every price endpoint and the feed end up   *)
(* in: cache, then database, then the providers in priority order behind a *)
(* circuit breaker, then persistence and the cache again.  Workers are the *)
(* goroutines that run it at the same time; between two steps of one       *)
(* worker any other worker, the clock, a cancelled context or a crash of   *)
(* the process may intervene.                                              *)
(***************************************************************************)
EXTENDS Integers, Sequences, FiniteSets

CONSTANTS
  Workers,          \* goroutines inside Historical: HTTP handlers and the feed
  Providers,        \* Provider.Name() of the registered providers
  Names,            \* provider names a query may carry, whatever their spelling
  None,             \* the empty provider name, and "no provider" in a bar
  Registry,         \* Registry.Get: name -> provider, None when unknown
  Guarded,          \* providers with a range limit ("yfinance")
  Series,           \* (symbol, interval) pairs: every key in the code holds both
  Daily,            \* the series of interval "1d"
  Days,             \* dates of price bars
  DefaultPriority,  \* s.priority
  Queries,          \* the queries callers issue
  Published0,       \* days the upstream sources offer from the start
  Feed,             \* the worker that is the feed's goroutine, None without one
  HasStore,         \* s.store # nil
  HasCache,         \* s.cache # nil
  MaxConns,         \* connections the pool of the database may have
  Redis,            \* the cache is Redis: outlives a crash, may fail silently
  Cooldown,         \* time.Minute, in clock ticks
  TTL,              \* CACHE_TTL, in clock ticks
  MaxTime,          \* bound: the clock stops here
  MaxRequests,      \* bound: calls of Historical per behaviour
  MaxFaults,        \* bound: database statements that fail on their own
  MaxCancels,       \* bound: clients that go away before their answer
  MaxCrashes        \* bound: process crashes

QueryType == [series : Series, provider : Names \cup {None}, priority : Seq(Names),
              range : SUBSET Days, valid : BOOLEAN, wide : BOOLEAN, refresh : BOOLEAN]

ASSUME HistoricalAssumption ==
  /\ Providers \subseteq Names
  /\ None \notin Names
  /\ Registry \in [Names -> Providers \cup {None}]
  /\ \A p \in Providers : Registry[p] = p
  /\ Guarded \subseteq Providers
  /\ Daily \subseteq Series
  /\ Days \subseteq Int
  /\ Published0 \subseteq Days
  /\ DefaultPriority \in Seq(Names)
  /\ Queries \subseteq QueryType /\ Queries # {}
  /\ Feed \in Workers \cup {None}
  /\ \A q \in Queries : q.refresh => q.priority = <<>> /\ q.range = Days
  /\ {HasStore, HasCache, Redis} \subseteq BOOLEAN
  /\ MaxConns \in Nat \ {0}
  /\ Cooldown \in Nat \ {0}
  /\ TTL \in Nat \ {0}
  /\ {MaxTime, MaxRequests, MaxFaults, MaxCancels, MaxCrashes} \subseteq Nat

VARIABLES
  pc,         \* where each worker stands in Historical
  qry,        \* its query
  idx,        \* its position in the priority list
  prov,       \* the provider it is calling, None outside a call
  since,      \* history: when that call was admitted by the breaker
  ans,        \* the HistoricalResult it is building
  cancelled,  \* its context is done
  failures,   \* s.failures
  lastFail,   \* s.status[p].LastFailureAt, 0 for the zero time (the clock starts at 1)
  requested,  \* s.metrics.ProviderRequests
  failed,     \* s.metrics.ProviderFailures
  hits,       \* s.metrics.CacheHits
  cache,      \* the cache's entries by key
  expiry,     \* their expiresAt
  rows,       \* price_bars: the providers with a row, by series and day
  newest,     \* the one with the latest updated_at
  watched,    \* watched_symbols, as (series, provider name) pairs
  published,  \* days the upstream sources offer
  now,        \* the clock
  begun, faults, cancels, crashes   \* counters of the bounds

request  == <<qry, cancelled>>
attempt  == <<prov, since>>
breaker  == <<failures, lastFail>>
metrics  == <<requested, failed, hits>>
caching  == <<cache, expiry>>
database == <<rows, newest, watched>>
bounds   == <<begun, faults, cancels, crashes>>
worker   == <<pc, request, idx, attempt, ans>>
shared   == <<breaker, metrics, caching, database>>
outside  == <<published, now, bounds>>
elsewhere == <<published, now, begun, cancels, crashes>>   \* all of that but faults
vars     == <<worker, shared, outside>>
------------------------------------------------------------------------------
(* Results.  A result's bars map each day to the provider that supplied the *)
(* bar, None where there is none.                                           *)

NoBars == [d \in Days |-> None]
HasBars(b) == \E d \in Days : b[d] # None

\* filterPrices: keep the bars between From and To, both included.
filterPrices(b, range) == [d \in Days |-> IF d \in range THEN b[d] ELSE None]

Result == [bars : [Days -> Providers \cup {None}], provider : Providers \cup {None},
           source : {"none", "cache", "database", "provider", "rejected", "unknown", "failed"},
           persisted : BOOLEAN]
NoResult == [bars |-> NoBars, provider |-> None, source |-> "none", persisted |-> FALSE]
Error(kind) == [NoResult EXCEPT !.source = kind]

\* cache.Key: everything the query carries but Refresh.  The code joins the fields with "|",
\* which no symbol, interval, provider name or date of the model contains.
KeyWithoutRange(q) == [q EXCEPT !.refresh = FALSE, !.range = Days]   \* mutant
Key(q) == [q EXCEPT !.refresh = FALSE]
Keys == {Key(q) : q \in Queries}

\* The priority list of a call: a forced provider, else the query's, else s.priority.
PriorityOf(q) == IF q.provider # None THEN <<q.provider>>
                 ELSE IF q.priority # <<>> THEN q.priority ELSE DefaultPriority

\* providerAvailable: three failures in a row and the last under a minute ago.
Open(p) == failures[p] >= 3 /\ now - lastFail[p] < Cooldown

\* validateProviderLimits: an intraday range of more than 60 days.
OverLimit(p, q) == p \in Guarded /\ q.wide

\* GetPrices: per day in range the most recently updated row, or the forced
\* provider's row, compared with the provider name as the caller spelled it.
\* mutant: the provider is compared without its case and reported as the caller spelled it
GetPricesAnyCase(q) ==
  [d \in Days |-> IF d \notin q.range THEN None
                  ELSE IF q.provider = None THEN newest[q.series][d]
                  ELSE IF Registry[q.provider] \in rows[q.series][d] THEN q.provider ELSE None]

GetPrices(q) ==
  [d \in Days |-> IF d \notin q.range THEN None
                  ELSE IF q.provider = None THEN newest[q.series][d]
                  ELSE IF q.provider \in rows[q.series][d] THEN q.provider ELSE None]

\* scanPriceRows leaves the provider of the last row in the result.
IsLast(b, d) == b[d] # None /\ \A e \in Days : b[e] # None => e <= d
------------------------------------------------------------------------------
(* Steps of a worker. *)

Goto(w, step) == pc' = [pc EXCEPT ![w] = step]

\* return result, err: the call of worker w ends with r.
Return(w, r) == Goto(w, "done") /\ ans' = [ans EXCEPT ![w] = r]

AnyQuery == CHOOSE q \in Queries : TRUE

Init ==
  /\ pc = [w \in Workers |-> "idle"] /\ qry = [w \in Workers |-> AnyQuery]
  /\ cancelled = [w \in Workers |-> FALSE] /\ idx = [w \in Workers |-> 1]
  /\ prov = [w \in Workers |-> None] /\ since = [w \in Workers |-> 0]
  /\ ans = [w \in Workers |-> NoResult]
  /\ failures = [p \in Providers |-> 0] /\ lastFail = [p \in Providers |-> 0]
  /\ requested = [p \in Providers |-> 0] /\ failed = [p \in Providers |-> 0]
  /\ hits = 0
  /\ cache = [k \in Keys |-> NoResult] /\ expiry = [k \in Keys |-> 0]
  /\ rows = [s \in Series |-> [d \in Days |-> {}]]
  /\ newest = [s \in Series |-> [d \in Days |-> None]]
  /\ watched = {}
  /\ published = Published0
  /\ now = 1
  /\ begun = 0 /\ faults = 0 /\ cancels = 0 /\ crashes = 0

\* Entry and validation.  Only the feed sets Refresh, and only on watched rows.
Begin(w) == \E q \in Queries :
  /\ pc[w] = "idle"
  /\ begun < MaxRequests
  /\ q.refresh = (w = Feed)
  /\ q.refresh => HasStore /\ <<q.series, q.provider>> \in watched
  /\ begun' = begun + 1
  /\ qry' = [qry EXCEPT ![w] = q]
  /\ IF q.valid /\ PriorityOf(q) # <<>>
     THEN Goto(w, "lookup") /\ UNCHANGED ans
     ELSE Return(w, Error("rejected"))
  /\ UNCHANGED <<cancelled, idx, attempt, shared, published, now, faults, cancels, crashes>>

\* Memory.Get: an entry counts until the clock has passed its expiresAt.
Cached(q) == HasCache /\ ~q.refresh /\ cache[Key(q)] # NoResult /\ now <= expiry[Key(q)]

CacheHit(w) ==
  /\ pc[w] = "lookup"
  /\ Cached(qry[w])
  /\ hits' = hits + 1
  /\ Return(w, [cache[Key(qry[w])] EXCEPT !.source = "cache"])
  /\ UNCHANGED <<request, idx, attempt, breaker, requested, failed, caching, database, outside>>

CacheMiss(w) ==
  /\ pc[w] = "lookup"
  /\ Redis \/ ~Cached(qry[w])
  /\ Goto(w, "read")
  /\ UNCHANGED <<request, idx, attempt, ans, shared, outside>>

\* UpsertPrices still holds the connection of its batch when it asks the pool for another one;
\* any other statement takes a connection and gives it back within its step.
Holding == {w \in Workers : pc[w] = "touch"}
FreeConnection == Cardinality(Holding) < MaxConns

\* Acquire of worker w waits for a free connection, and gives up when its context is done.
Acquires(w) == cancelled[w] \/ FreeConnection

\* A statement of worker w fails: its context is done, or the database fails it.
StatementFails(w) == IF cancelled[w] THEN UNCHANGED faults
                     ELSE faults < MaxFaults /\ faults' = faults + 1

StoreHit(w) ==
  LET b == GetPrices(qry[w]) IN
  /\ pc[w] = "read"
  /\ HasStore /\ ~qry[w].refresh /\ ~cancelled[w] /\ FreeConnection
  /\ \E d \in Days :
       /\ IsLast(b, d)
       /\ ans' = [ans EXCEPT ![w] = [bars |-> b, provider |-> b[d], source |-> "database",
                                     persisted |-> TRUE]]
  /\ Goto(w, IF HasCache THEN "fill" ELSE "done")
  /\ UNCHANGED <<request, idx, attempt, shared, outside>>

StoreMiss(w) ==
  /\ pc[w] = "read"
  /\ HasStore /\ ~qry[w].refresh => Acquires(w)
  /\ IF HasStore /\ ~qry[w].refresh /\ (cancelled[w] \/ HasBars(GetPrices(qry[w])))
     THEN StatementFails(w) ELSE UNCHANGED faults
  /\ Goto(w, "choose")
  /\ UNCHANGED <<request, idx, attempt, ans, shared, elsewhere>>

\* The loop over the priority list: the name at idx, or the end of the list.
Name(w) == PriorityOf(qry[w])[idx[w]]
Choosing(w) == pc[w] = "choose" /\ idx[w] <= Len(PriorityOf(qry[w]))
SkipNameInPlace(w) == Goto(w, "choose") /\ UNCHANGED <<idx, ans>>   \* mutant: no advance
SkipName(w) == Goto(w, "choose") /\ idx' = [idx EXCEPT ![w] = @ + 1] /\ UNCHANGED ans

Exhausted(w) ==
  /\ pc[w] = "choose"
  /\ idx[w] > Len(PriorityOf(qry[w]))
  /\ Return(w, Error("failed"))
  /\ UNCHANGED <<request, idx, attempt, shared, outside>>

UnknownProvider(w) ==
  /\ Choosing(w)
  /\ Registry[Name(w)] = None
  /\ IF Len(PriorityOf(qry[w])) = 1
     THEN Return(w, Error("unknown")) /\ UNCHANGED idx
     ELSE SkipName(w)
  /\ UNCHANGED <<request, attempt, shared, outside>>

RefusedByLimit(p, q) == OverLimit(p, q)   \* mutant: providerAvailable is not asked
Refused(p, q) == Open(p) \/ OverLimit(p, q)

SkipProvider(w) ==
  /\ Choosing(w)
  /\ Registry[Name(w)] # None /\ Refused(Registry[Name(w)], qry[w])
  /\ SkipName(w)
  /\ UNCHANGED <<request, attempt, shared, outside>>

Admit(w) == LET p == Registry[Name(w)] IN
  /\ Choosing(w)
  /\ p # None /\ ~Refused(p, qry[w])
  /\ requested' = [requested EXCEPT ![p] = @ + 1]
  /\ prov' = [prov EXCEPT ![w] = p]
  /\ since' = [since EXCEPT ![w] = now]
  /\ Goto(w, "call")
  /\ UNCHANGED <<request, idx, ans, breaker, failed, hits, caching, database, outside>>

\* What follows a provider's bars: marking and storing, then the cache, then the breaker.
AfterStore == IF HasCache THEN "save" ELSE "succeed"
AfterFetchUnmarked == IF HasStore THEN "persist" ELSE AfterStore   \* mutant: no MarkWatched
AfterFetch == IF HasStore THEN "mark" ELSE AfterStore

\* The bars left by filterPrices make an answer only if there are any.
DeliversUnchecked(b) == TRUE   \* mutant: no second length check
Delivers(b) == HasBars(b)

\* The provider answers with its published days; an empty result is ErrNoData.
ProviderData(w) ==
  LET b == filterPrices([d \in Days |-> IF d \in published THEN prov[w] ELSE None],
                        qry[w].range) IN
  /\ pc[w] = "call"
  /\ ~cancelled[w]
  /\ IF Delivers(b)
     THEN /\ ans' = [ans EXCEPT ![w] = [bars |-> b, provider |-> prov[w],
                                        source |-> "provider", persisted |-> FALSE]]
          /\ Goto(w, AfterFetch)
     ELSE Goto(w, "fail") /\ UNCHANGED ans
  /\ UNCHANGED <<request, idx, attempt, shared, outside>>

\* Any error of the provider: refused interval, bad status, its timeout, a context done.
ProviderError(w) ==
  /\ pc[w] = "call"
  /\ Goto(w, "fail")
  /\ UNCHANGED <<request, idx, attempt, ans, shared, outside>>

RecordFailure(w) == LET p == prov[w] IN
  /\ pc[w] = "fail"
  /\ failures' = [failures EXCEPT ![p] = @ + 1]
  /\ failed' = [failed EXCEPT ![p] = @ + 1]
  /\ lastFail' = [lastFail EXCEPT ![p] = now]
  /\ prov' = [prov EXCEPT ![w] = None]
  /\ SkipName(w)
  /\ UNCHANGED <<request, since, requested, hits, caching, database, outside>>

\* A failing statement had no effect when the context was done beforehand, and may have
\* taken effect when the answer was lost.
MarkWatched(w) ==
  LET marked == watched \cup {<<qry[w].series, qry[w].provider>>} IN
  /\ pc[w] = "mark"
  /\ Acquires(w)
  /\ \/ ~cancelled[w] /\ watched' = marked /\ UNCHANGED faults
     \/ StatementFails(w) /\ watched' \in {watched, IF cancelled[w] THEN watched ELSE marked}
  /\ Goto(w, "persist")
  /\ UNCHANGED <<request, idx, attempt, ans, breaker, metrics, caching, rows, newest, elsewhere>>

UpsertReplacing(w) == LET s == qry[w].series  b == ans[w].bars IN   \* mutant: one row a day
  /\ rows' = [rows EXCEPT ![s] = [d \in Days |-> IF b[d] = None THEN @[d] ELSE {b[d]}]]
  /\ newest' = [newest EXCEPT ![s] = [d \in Days |-> IF b[d] = None THEN @[d] ELSE b[d]]]

\* The batch of inserts is one implicit transaction: all of its rows or none.  It is taken as
\* committed once all of its inserts have succeeded; br.Close drops the error of the commit.
Upsert(w) == LET s == qry[w].series  b == ans[w].bars IN
  /\ rows' = [rows EXCEPT ![s] =
                [d \in Days |-> IF b[d] = None THEN @[d] ELSE @[d] \cup {b[d]}]]
  /\ newest' = [newest EXCEPT ![s] = [d \in Days |-> IF b[d] = None THEN @[d] ELSE b[d]]]

\* mutant: the error of the batch is dropped and persisted set all the same
UpsertPricesUnchecked(w) ==
  /\ pc[w] = "persist"
  /\ Acquires(w)
  /\ \/ ~cancelled[w] /\ Upsert(w) /\ UNCHANGED faults
     \/ StatementFails(w) /\ UNCHANGED <<rows, newest>>
  /\ Goto(w, "touch")
  /\ UNCHANGED <<request, idx, attempt, ans, breaker, metrics, caching, watched, elsewhere>>

UpsertPrices(w) ==
  /\ pc[w] = "persist"
  /\ Acquires(w)
  /\ \/ ~cancelled[w] /\ Upsert(w) /\ Goto(w, "touch") /\ UNCHANGED faults
     \/ /\ StatementFails(w)
        /\ Goto(w, AfterStore)
        /\ \/ UNCHANGED <<rows, newest>>
           \/ ~cancelled[w] /\ Upsert(w)
  /\ UNCHANGED <<request, idx, attempt, ans, breaker, metrics, caching, watched, elsewhere>>

\* UpsertPrices ends with the update of last_refreshed_at, which nothing reads, on a second
\* connection; the batch's own is given back by the deferred br.Close.
TouchWatched(w) ==
  /\ pc[w] = "touch"
  /\ Acquires(w)
  /\ \/ /\ ~cancelled[w]
        /\ ans' = [ans EXCEPT ![w] = [@ EXCEPT !.persisted = TRUE]]
        /\ UNCHANGED faults
     \/ StatementFails(w) /\ UNCHANGED ans
  /\ Goto(w, AfterStore)
  /\ UNCHANGED <<request, idx, attempt, shared, elsewhere>>

\* Cache.Set after a database read ("fill") or a provider's answer ("save").  Redis may
\* drop the entry without a word.
CacheSet(w) == LET k == Key(qry[w]) IN
  /\ pc[w] \in {"fill", "save"}
  /\ \/ cache' = [cache EXCEPT ![k] = ans[w]] /\ expiry' = [expiry EXCEPT ![k] = now + TTL]
     \/ Redis /\ UNCHANGED caching
  /\ Goto(w, IF pc[w] = "fill" THEN "done" ELSE "succeed")
  /\ UNCHANGED <<request, idx, attempt, ans, breaker, metrics, database, outside>>

\* mutant: the streak is deleted, the time of the last failure stays
RecordSuccessKeepingTime(w) == LET p == prov[w] IN
  /\ pc[w] = "succeed"
  /\ failures' = [failures EXCEPT ![p] = 0]
  /\ prov' = [prov EXCEPT ![w] = None]
  /\ Goto(w, "done")
  /\ UNCHANGED <<request, idx, since, ans, lastFail, metrics, caching, database, outside>>

RecordSuccess(w) == LET p == prov[w] IN
  /\ pc[w] = "succeed"
  /\ failures' = [failures EXCEPT ![p] = 0]
  /\ lastFail' = [lastFail EXCEPT ![p] = 0]
  /\ prov' = [prov EXCEPT ![w] = None]
  /\ Goto(w, "done")
  /\ UNCHANGED <<request, idx, since, ans, metrics, caching, database, outside>>

\* The caller has the result or the error; its goroutine is free again.
Respond(w) ==
  /\ pc[w] = "done"
  /\ Goto(w, "idle")
  /\ qry' = [qry EXCEPT ![w] = AnyQuery]
  /\ idx' = [idx EXCEPT ![w] = 1]
  /\ since' = [since EXCEPT ![w] = 0]
  /\ ans' = [ans EXCEPT ![w] = NoResult]
  /\ cancelled' = [cancelled EXCEPT ![w] = FALSE]
  /\ UNCHANGED <<prov, shared, outside>>
------------------------------------------------------------------------------
(* The surroundings. *)

Tick ==
  /\ now < MaxTime
  /\ now' = now + 1
  /\ UNCHANGED <<worker, shared, published, bounds>>

\* The upstream sources come out with the next day's bar.
Publish == \E d \in Days \ published :
  /\ \A e \in Days \ published : d <= e
  /\ published' = published \cup {d}
  /\ UNCHANGED <<worker, shared, now, bounds>>

\* The client goes away; the context of the feed's pass ends with its deadline (feed.go:32).
Cancel(w) ==
  /\ pc[w] \notin {"idle", "done"}
  /\ ~cancelled[w]
  /\ w # Feed => cancels < MaxCancels
  /\ cancelled' = [cancelled EXCEPT ![w] = TRUE]
  /\ cancels' = IF w = Feed THEN cancels ELSE cancels + 1
  /\ UNCHANGED <<pc, qry, idx, attempt, ans, shared, published, now, begun, faults, crashes>>

\* Service.AddSymbol marks its symbol watched at interval "1d" without a provider.
WatchSymbol == \E s \in Daily :
  /\ HasStore /\ FreeConnection
  /\ <<s, None>> \notin watched
  /\ watched' = watched \cup {<<s, None>>}
  /\ UNCHANGED <<worker, breaker, metrics, caching, rows, newest, outside>>

\* The process dies and starts again: the database and Redis survive it.
Crash ==
  /\ crashes < MaxCrashes
  /\ crashes' = crashes + 1
  /\ pc' = [w \in Workers |-> "idle"] /\ qry' = [w \in Workers |-> AnyQuery]
  /\ cancelled' = [w \in Workers |-> FALSE] /\ idx' = [w \in Workers |-> 1]
  /\ prov' = [w \in Workers |-> None] /\ since' = [w \in Workers |-> 0]
  /\ ans' = [w \in Workers |-> NoResult]
  /\ failures' = [p \in Providers |-> 0] /\ lastFail' = [p \in Providers |-> 0]
  /\ requested' = [p \in Providers |-> 0] /\ failed' = [p \in Providers |-> 0]
  /\ hits' = 0
  /\ cache' = IF Redis THEN cache ELSE [k \in Keys |-> NoResult]
  /\ expiry' = IF Redis THEN expiry ELSE [k \in Keys |-> 0]
  /\ UNCHANGED <<database, published, now, begun, faults, cancels>>

\* Every call of the bound has been answered.
Quiescent ==
  /\ begun = MaxRequests
  /\ \A w \in Workers : pc[w] = "idle"
  /\ UNCHANGED vars

Step(w) ==
  \/ CacheHit(w) \/ CacheMiss(w) \/ StoreHit(w) \/ StoreMiss(w)
  \/ Exhausted(w) \/ UnknownProvider(w) \/ SkipProvider(w) \/ Admit(w)
  \/ ProviderData(w) \/ ProviderError(w) \/ RecordFailure(w)
  \/ MarkWatched(w) \/ UpsertPrices(w) \/ TouchWatched(w)
  \/ CacheSet(w) \/ RecordSuccess(w) \/ Respond(w)

Surroundings == Tick \/ Publish \/ WatchSymbol \/ Crash \/ Quiescent

Next == Surroundings \/ \E w \in Workers : Begin(w) \/ Step(w) \/ Cancel(w)

Spec == Init /\ [][Next]_vars

\* A goroutine that is inside Historical keeps running: a provider call ends by its own
\* timeout, and database and cache statements return once they have a connection.  The
\* deadline of a feed's pass comes; that of a handler's context does not, as it has none.
FairSpec ==
  /\ Spec
  /\ \A w \in Workers : WF_vars(Step(w))
  /\ \A w \in Workers \cap {Feed} : WF_vars(Cancel(w))
------------------------------------------------------------------------------
(* What must hold. *)

Places == {"idle", "lookup", "read", "fill", "choose", "call", "fail", "mark", "persist", "touch",
           "save", "succeed", "done"}
WorkerType ==
  /\ pc \in [Workers -> Places]
  /\ qry \in [Workers -> Queries] /\ cancelled \in [Workers -> BOOLEAN]
  /\ idx \in [Workers -> Nat \ {0}]
  /\ prov \in [Workers -> Providers \cup {None}] /\ since \in [Workers -> Nat]
  /\ ans \in [Workers -> Result]
BreakerType == failures \in [Providers -> Nat] /\ lastFail \in [Providers -> Nat]
MetricsType == requested \in [Providers -> Nat] /\ failed \in [Providers -> Nat] /\ hits \in Nat
CachingType == cache \in [Keys -> Result] /\ expiry \in [Keys -> Nat]
DatabaseType ==
  /\ rows \in [Series -> [Days -> SUBSET Providers]]
  /\ newest \in [Series -> [Days -> Providers \cup {None}]]
  /\ watched \in SUBSET (Series \X (Names \cup {None}))
OutsideType ==
  /\ published \in SUBSET Days
  /\ now \in Nat \ {0}
  /\ begun \in Nat /\ faults \in Nat /\ cancels \in Nat /\ crashes \in Nat

\* Every variable holds values of its kind: in particular a result's bars are of registered
\* providers under their registered names, whatever the spelling of the query.
TypeOK == WorkerType /\ BreakerType /\ MetricsType /\ CachingType /\ DatabaseType /\ OutsideType

\* While a provider's circuit is open, the only calls of it still in flight are those
\* admitted before its last failure: no goroutine slips through between the check of
\* providerAvailable and the failures other goroutines record.
NoCallWhileOpen ==
  \A p \in Providers : Open(p) =>
    \A w \in Workers : prov[w] = p => since[w] <= lastFail[p]

\* The counters agree with each other and with the calls in flight: a streak of failures
\* is part of the failures counted, every counted failure and every call in flight is a
\* counted request, and a provider's last failure is set exactly while a streak is on.
CountersAgree ==
  \A p \in Providers :
    /\ failures[p] <= failed[p]
    /\ failed[p] + Cardinality({w \in Workers : prov[w] = p}) <= requested[p]
    /\ failures[p] = 0 <=> lastFail[p] = 0

\* Bars that answer query q: of its days only, and of the forced provider only.
Fits(b, q) ==
  \A d \in Days : b[d] # None =>
    d \in q.range /\ (q.provider # None => b[d] = Registry[q.provider])

\* Whatever layer it comes from, an answer holds only days inside the inclusive range and,
\* with a forced provider, only that provider's bars; so does every cache entry, whoever
\* wrote it, for every query that would be served from it.
AnswersFit ==
  /\ \A w \in Workers : Fits(ans[w].bars, qry[w])
  /\ \A q \in Queries : Fits(cache[Key(q)].bars, q)

\* A call that ends without an error has at least one bar, also after filterPrices has cut
\* the provider's: Service.Latest has a last bar to return.
ServedNotEmpty ==
  \A w \in Workers :
    pc[w] = "done" /\ ans[w].source \in {"cache", "database", "provider"} => HasBars(ans[w].bars)

Durable(s, b) == \A d \in Days : b[d] # None => b[d] \in rows[s][d]

\* A result marked persisted is in the database bar by bar, also when it is served from
\* the cache later, and after crashes, faults and cancelled contexts.
PersistedIsDurable ==
  /\ \A w \in Workers : ans[w].persisted => Durable(qry[w].series, ans[w].bars)
  /\ \A k \in Keys : cache[k].persisted => Durable(k.series, cache[k].bars)

\* test/integration/README.md:9, "Requested symbols tracked in `watched_symbols`": a series with
\* bars in the database is watched, so that the feed refreshes it.  A failing MarkWatched is
\* only logged and breaks it.
StoredIsWatched ==
  \A s \in Series : (\E d \in Days : rows[s][d] # {}) => \E n \in Names \cup {None} : <<s, n>> \in watched

\* It holds until a statement fails on its own, through cancelled contexts, deadlines and
\* crashes between marking and storing: a context that fails the mark fails the batch as well.
WatchedUnlessFailed == faults = 0 => StoredIsWatched

\* What the steps of a worker rely on: no answer before there is one, and a provider that
\* is being called is the one its place in the priority list names.
Unanswered == {"idle", "lookup", "read", "choose", "call", "fail"}
Calling == {"call", "fail", "mark", "persist", "touch", "save", "succeed"}
InStepOf(w) ==
  /\ pc[w] \in Unanswered => ans[w] = NoResult
  /\ pc[w] \in Calling <=> prov[w] # None
  /\ prov[w] # None => idx[w] \in DOMAIN PriorityOf(qry[w]) /\ prov[w] = Registry[Name(w)]
  /\ pc[w] = "touch" => Durable(qry[w].series, ans[w].bars)
InStep == \A w \in Workers : InStepOf(w)

\* The row GetPrices prefers for a day is one of the day's rows.
NewestStored ==
  \A s \in Series : \A d \in Days : newest[s][d] # None => newest[s][d] \in rows[s][d]

\* No call was admitted in the future.
Timely == \A w \in Workers : since[w] <= now

\* Every call of Historical ends, whatever the providers, the store and other callers do, as
\* long as not all connections can be held by handlers whose clients wait (HandlersEnd).
Answered == \A w \in Workers : pc[w] # "idle" ~> pc[w] = "idle"

\* README.md:21, "Uses [...] HTTP timeouts": a handler inside Historical comes to an end, also
\* when its client is patient.
HandlersEnd == \A w \in Workers \ {Feed} : pc[w] # "idle" ~> pc[w] = "idle"

\* README.md:13, "Supports date ranges with inclusive from and to query parameters": an
\* answer holds every day of its range that was out before the service started.
RangeComplete ==
  \A w \in Workers :
    pc[w] = "done" /\ ans[w].source \in {"cache", "database", "provider"} =>
      \A d \in qry[w].range \cap Published0 : ans[w].bars[d] # None
==============================================================================
