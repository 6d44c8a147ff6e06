--------------------------- MODULE HistoricalProofs ---------------------------
(***************************************************************************)
(* Proofs about Historical, for all values of its constants: any number of *)
(* workers, providers, series, days and queries, and any bounds.           *)
(***************************************************************************)
EXTENDS Historical, FiniteSetTheorems, TLAPS

(* Facts about the data. *)

\* The query of an idle worker is a query.
LEMMA AnyQueryType == AnyQuery \in Queries
BY HistoricalAssumption DEF AnyQuery

\* The priority list of a call is a sequence of names.
LEMMA PriorityType == ASSUME NEW q \in Queries PROVE PriorityOf(q) \in Seq(Names)
BY HistoricalAssumption DEF PriorityOf, QueryType

\* A query's key is one of the cache's keys.
LEMMA KeyType == ASSUME NEW q \in Queries PROVE Key(q) \in Keys
BY DEF Keys

\* A key agrees with its query on everything an answer depends on.
LEMMA KeyKeeps ==
  ASSUME NEW q \in Queries
  PROVE  Key(q).series = q.series /\ Key(q).range = q.range /\ Key(q).provider = q.provider
BY HistoricalAssumption DEF Key, QueryType

\* The result a worker starts with is a result.
LEMMA NoResultType == NoResult \in Result
BY DEF NoResult, NoBars, Result

\* An error is a result.
LEMMA ErrorType ==
  ASSUME NEW kind \in {"rejected", "unknown", "failed"} PROVE Error(kind) \in Result
BY NoResultType DEF Error, NoResult, NoBars, Result

\* A result served from the cache is a result.
LEMMA CachedType == ASSUME NEW r \in Result PROVE [r EXCEPT !.source = "cache"] \in Result
BY DEF Result

\* A result marked persisted is a result.
LEMMA PersistedType == ASSUME NEW r \in Result PROVE [r EXCEPT !.persisted = TRUE] \in Result
BY DEF Result

\* The name a worker considers is a name.
LEMMA NameType == ASSUME TypeOK, NEW w \in Workers, Choosing(w) PROVE Name(w) \in Names
<1>1. PriorityOf(qry[w]) \in Seq(Names) /\ idx[w] \in 1..Len(PriorityOf(qry[w]))
  BY PriorityType DEF TypeOK, WorkerType, Choosing
<1> QED BY <1>1 DEF Name

\* GetPrices answers each day with a registered provider or with no bar.
LEMMA GetPricesType ==
  ASSUME TypeOK, NEW q \in Queries PROVE GetPrices(q) \in [Days -> Providers \cup {None}]
BY HistoricalAssumption DEF TypeOK, DatabaseType, GetPrices, QueryType
------------------------------------------------------------------------------
(* Type correctness.  First the steps that need more than their own definition. *)

\* The initial values are of their kinds.
LEMMA InitType == Init => TypeOK
BY HistoricalAssumption, AnyQueryType, NoResultType
   DEF Init, TypeOK, WorkerType, BreakerType, MetricsType, CachingType, DatabaseType, OutsideType,
       Keys, Places

\* Begin keeps the types of the workers' variables.
LEMMA BeginWorker ==
  ASSUME TypeOK, NEW w \in Workers, Begin(w) PROVE WorkerType'
<1>1. PICK q \in Queries : Begin(w)!(q)
  BY DEF Begin
<1>2. CASE q.valid /\ PriorityOf(q) # <<>>
  BY <1>1, <1>2 DEF TypeOK, WorkerType, Places, attempt, Goto
<1>3. CASE ~(q.valid /\ PriorityOf(q) # <<>>)
  <2>1. Error("rejected") \in Result
    BY ErrorType
  <2> QED BY <1>1, <1>3, <2>1 DEF TypeOK, WorkerType, Places, attempt, Goto, Return
<1> QED BY <1>2, <1>3

\* A database read builds a result.
LEMMA StoreHitWorker ==
  ASSUME TypeOK, NEW w \in Workers, StoreHit(w) PROVE WorkerType'
<1> DEFINE b == GetPrices(qry[w])
<1>1. PICK d \in Days :
        ans' = [ans EXCEPT ![w] = [bars |-> b, provider |-> b[d], source |-> "database",
                                   persisted |-> TRUE]]
  BY DEF StoreHit
<1>2. b \in [Days -> Providers \cup {None}]
  BY GetPricesType DEF TypeOK, WorkerType
<1>3. ans' \in [Workers -> Result]
  BY <1>1, <1>2 DEF TypeOK, WorkerType, Result
<1> QED BY <1>3 DEF StoreHit, TypeOK, WorkerType, Places, Goto, request, attempt

\* Admit keeps the types of what it writes.
LEMMA AdmitType ==
  ASSUME TypeOK, NEW w \in Workers, Admit(w)
  PROVE  WorkerType' /\ BreakerType' /\ MetricsType'
<1>1. Registry[Name(w)] \in Providers
  BY HistoricalAssumption, NameType DEF Admit
<1>2. WorkerType'
  BY <1>1 DEF Admit, Goto, TypeOK, WorkerType, Places, OutsideType, request
<1>3. BreakerType' /\ MetricsType'
  BY <1>1 DEF Admit, TypeOK, BreakerType, MetricsType, breaker
<1> QED BY <1>2, <1>3

\* A provider's answer builds a result.
LEMMA ProviderDataWorker ==
  ASSUME TypeOK, NEW w \in Workers, ProviderData(w) PROVE WorkerType'
<1> DEFINE b == filterPrices([d \in Days |-> IF d \in published THEN prov[w] ELSE None],
                             qry[w].range)
<1>1. b \in [Days -> Providers \cup {None}]
  BY DEF TypeOK, WorkerType, filterPrices
<1>2. prov[w] \in Providers \cup {None}
  BY DEF TypeOK, WorkerType
<1>3. \/ UNCHANGED ans
      \/ ans' = [ans EXCEPT ![w] = [bars |-> b, provider |-> prov[w], source |-> "provider",
                                    persisted |-> FALSE]]
  BY DEF ProviderData
<1>4. ans' \in [Workers -> Result]
  <2> HIDE DEF b
  <2>1. [bars |-> b, provider |-> prov[w], source |-> "provider", persisted |-> FALSE] \in Result
    BY <1>1, <1>2 DEF Result
  <2>2. ans \in [Workers -> Result]
    BY DEF TypeOK, WorkerType
  <2> QED BY <1>3, <2>1, <2>2
<1>5. pc' \in [Workers -> Places]
  BY DEF ProviderData, Goto, TypeOK, WorkerType, Places, AfterFetch, AfterStore
<1> QED BY <1>4, <1>5 DEF ProviderData, TypeOK, WorkerType, request, attempt

\* RecordFailure keeps the types of the breaker and of the metrics.
LEMMA RecordFailureType ==
  ASSUME TypeOK, NEW w \in Workers, RecordFailure(w) PROVE BreakerType' /\ MetricsType'
<1>1. ASSUME NEW f \in [Providers -> Nat]
      PROVE  [f EXCEPT ![prov[w]] = @ + 1] \in [Providers -> Nat]
  <2>1. CASE prov[w] \in Providers BY <2>1
  <2>2. CASE prov[w] \notin Providers BY <2>2
  <2> QED BY <2>1, <2>2
<1>2. failures' \in [Providers -> Nat] /\ failed' \in [Providers -> Nat]
  BY <1>1 DEF RecordFailure, TypeOK, BreakerType, MetricsType
<1>3. lastFail' \in [Providers -> Nat]
  BY DEF RecordFailure, TypeOK, BreakerType, OutsideType
<1> QED BY <1>2, <1>3 DEF RecordFailure, TypeOK, BreakerType, MetricsType

\* MarkWatched adds a pair of a series and a name, or nothing.
LEMMA MarkWatchedDatabase ==
  ASSUME TypeOK, NEW w \in Workers, MarkWatched(w) PROVE DatabaseType'
<1>1. <<qry[w].series, qry[w].provider>> \in Series \X (Names \cup {None})
  BY HistoricalAssumption DEF TypeOK, WorkerType, QueryType
<1>2. watched' \in SUBSET (Series \X (Names \cup {None}))
  BY <1>1 DEF MarkWatched, TypeOK, DatabaseType
<1> QED BY <1>2 DEF MarkWatched, TypeOK, DatabaseType

\* What an upsert writes, in terms of functions.
LEMMA UpsertWrites ==
  ASSUME TypeOK, NEW w \in Workers, Upsert(w)
  PROVE  /\ rows' \in [Series -> [Days -> SUBSET Providers]]
         /\ newest' \in [Series -> [Days -> Providers \cup {None}]]
         /\ \A s \in Series, d \in Days :
              LET b == ans[w].bars[d] IN
              IF s = qry[w].series /\ b # None
              THEN rows'[s][d] = rows[s][d] \cup {b} /\ newest'[s][d] = b
              ELSE rows'[s][d] = rows[s][d] /\ newest'[s][d] = newest[s][d]
<1> DEFINE s == qry[w].series
           b == ans[w].bars
<1>1. s \in Series /\ b \in [Days -> Providers \cup {None}]
  BY HistoricalAssumption DEF TypeOK, WorkerType, QueryType, Result
<1>2. /\ rows' = [rows EXCEPT ![s] =
           [d \in Days |-> IF b[d] = None THEN rows[s][d] ELSE rows[s][d] \cup {b[d]}]]
      /\ newest' = [newest EXCEPT ![s] = [d \in Days |-> IF b[d] = None THEN newest[s][d] ELSE b[d]]]
  BY DEF Upsert
<1> HIDE DEF s, b
<1>3. rows' \in [Series -> [Days -> SUBSET Providers]]
  BY <1>1, <1>2 DEF TypeOK, DatabaseType
<1>4. newest' \in [Series -> [Days -> Providers \cup {None}]]
  BY <1>1, <1>2 DEF TypeOK, DatabaseType
<1>5. ASSUME NEW t \in Series, NEW d \in Days
      PROVE  IF t = s /\ b[d] # None
             THEN rows'[t][d] = rows[t][d] \cup {b[d]} /\ newest'[t][d] = b[d]
             ELSE rows'[t][d] = rows[t][d] /\ newest'[t][d] = newest[t][d]
  BY <1>1, <1>2 DEF TypeOK, DatabaseType
<1> QED BY <1>3, <1>4, <1>5 DEF s, b

\* UpsertPrices keeps the types of the database.
LEMMA UpsertPricesDatabase ==
  ASSUME TypeOK, NEW w \in Workers, UpsertPrices(w) PROVE DatabaseType'
<1>1. CASE Upsert(w)
  BY <1>1, UpsertWrites DEF UpsertPrices, TypeOK, DatabaseType
<1>2. CASE UNCHANGED <<rows, newest>>
  BY <1>2 DEF UpsertPrices, TypeOK, DatabaseType
<1> QED BY <1>1, <1>2 DEF UpsertPrices

\* TouchWatched keeps the types of the workers' variables.
LEMMA TouchWatchedWorker ==
  ASSUME TypeOK, NEW w \in Workers, TouchWatched(w) PROVE WorkerType'
<1>1. ans' \in [Workers -> Result]
  BY PersistedType DEF TouchWatched, TypeOK, WorkerType
<1>2. pc' \in [Workers -> Places]
  BY DEF TouchWatched, Goto, TypeOK, WorkerType, Places, AfterStore
<1> QED BY <1>1, <1>2 DEF TouchWatched, TypeOK, WorkerType, request, attempt

\* A cache entry is a result, and its expiry a time.
LEMMA CacheSetCaching ==
  ASSUME TypeOK, NEW w \in Workers, CacheSet(w) PROVE CachingType'
<1>1. ans[w] \in Result /\ now + TTL \in Nat
  BY HistoricalAssumption DEF TypeOK, WorkerType, OutsideType
<1> QED BY <1>1 DEF CacheSet, TypeOK, CachingType, caching

\* Every step of a worker keeps the types of all the variables.
LEMMA WorkerStepType ==
  ASSUME TypeOK, NEW w \in Workers, Begin(w) \/ Step(w) \/ Cancel(w)
  PROVE  TypeOK'
<1>1. CASE Begin(w)
  <2>1. WorkerType'
    BY <1>1, BeginWorker
  <2>2. BreakerType' /\ MetricsType'
    BY <1>1 DEF TypeOK, BreakerType, MetricsType, Begin, shared, breaker, metrics
  <2>3. CachingType'
    BY <1>1 DEF TypeOK, CachingType, Begin, shared, caching
  <2>4. DatabaseType'
    BY <1>1 DEF TypeOK, DatabaseType, Begin, shared, database
  <2>5. OutsideType'
    BY <1>1 DEF TypeOK, OutsideType, Begin, StatementFails, outside, elsewhere, bounds
  <2> QED BY <2>1, <2>2, <2>3, <2>4, <2>5 DEF TypeOK
<1>2. CASE CacheHit(w)
  <2>1. WorkerType'
    BY <1>2, KeyType, CachedType DEF TypeOK, WorkerType, CachingType, Places, CacheHit, Goto, Return, request, attempt
  <2>2. BreakerType' /\ MetricsType'
    BY <1>2 DEF TypeOK, BreakerType, MetricsType, CacheHit, shared, breaker, metrics
  <2>3. CachingType'
    BY <1>2 DEF TypeOK, CachingType, CacheHit, shared, caching
  <2>4. DatabaseType'
    BY <1>2 DEF TypeOK, DatabaseType, CacheHit, shared, database
  <2>5. OutsideType'
    BY <1>2 DEF TypeOK, OutsideType, CacheHit, StatementFails, outside, elsewhere, bounds
  <2> QED BY <2>1, <2>2, <2>3, <2>4, <2>5 DEF TypeOK
<1>3. CASE CacheMiss(w)
  <2>1. WorkerType'
    BY <1>3 DEF TypeOK, WorkerType, Places, CacheMiss, Goto, request, attempt
  <2>2. BreakerType' /\ MetricsType'
    BY <1>3 DEF TypeOK, BreakerType, MetricsType, CacheMiss, shared, breaker, metrics
  <2>3. CachingType'
    BY <1>3 DEF TypeOK, CachingType, CacheMiss, shared, caching
  <2>4. DatabaseType'
    BY <1>3 DEF TypeOK, DatabaseType, CacheMiss, shared, database
  <2>5. OutsideType'
    BY <1>3 DEF TypeOK, OutsideType, CacheMiss, StatementFails, outside, elsewhere, bounds
  <2> QED BY <2>1, <2>2, <2>3, <2>4, <2>5 DEF TypeOK
<1>4. CASE StoreHit(w)
  <2>1. WorkerType'
    BY <1>4, StoreHitWorker
  <2>2. BreakerType' /\ MetricsType'
    BY <1>4 DEF TypeOK, BreakerType, MetricsType, StoreHit, shared, breaker, metrics
  <2>3. CachingType'
    BY <1>4 DEF TypeOK, CachingType, StoreHit, shared, caching
  <2>4. DatabaseType'
    BY <1>4 DEF TypeOK, DatabaseType, StoreHit, shared, database
  <2>5. OutsideType'
    BY <1>4 DEF TypeOK, OutsideType, StoreHit, StatementFails, outside, elsewhere, bounds
  <2> QED BY <2>1, <2>2, <2>3, <2>4, <2>5 DEF TypeOK
<1>5. CASE StoreMiss(w)
  <2>1. WorkerType'
    BY <1>5 DEF TypeOK, WorkerType, Places, StoreMiss, Goto, request, attempt
  <2>2. BreakerType' /\ MetricsType'
    BY <1>5 DEF TypeOK, BreakerType, MetricsType, StoreMiss, shared, breaker, metrics
  <2>3. CachingType'
    BY <1>5 DEF TypeOK, CachingType, StoreMiss, shared, caching
  <2>4. DatabaseType'
    BY <1>5 DEF TypeOK, DatabaseType, StoreMiss, shared, database
  <2>5. OutsideType'
    BY <1>5 DEF TypeOK, OutsideType, StoreMiss, StatementFails, outside, elsewhere, bounds
  <2> QED BY <2>1, <2>2, <2>3, <2>4, <2>5 DEF TypeOK
<1>6. CASE Exhausted(w)
  <2>1. WorkerType'
    BY <1>6, ErrorType DEF TypeOK, WorkerType, Places, Exhausted, Goto, Return, request, attempt
  <2>2. BreakerType' /\ MetricsType'
    BY <1>6 DEF TypeOK, BreakerType, MetricsType, Exhausted, shared, breaker, metrics
  <2>3. CachingType'
    BY <1>6 DEF TypeOK, CachingType, Exhausted, shared, caching
  <2>4. DatabaseType'
    BY <1>6 DEF TypeOK, DatabaseType, Exhausted, shared, database
  <2>5. OutsideType'
    BY <1>6 DEF TypeOK, OutsideType, Exhausted, StatementFails, outside, elsewhere, bounds
  <2> QED BY <2>1, <2>2, <2>3, <2>4, <2>5 DEF TypeOK
<1>7. CASE UnknownProvider(w)
  <2>1. WorkerType'
    BY <1>7, ErrorType DEF TypeOK, WorkerType, Places, SkipName, UnknownProvider, Goto, Return, request, attempt
  <2>2. BreakerType' /\ MetricsType'
    BY <1>7 DEF TypeOK, BreakerType, MetricsType, UnknownProvider, shared, breaker, metrics
  <2>3. CachingType'
    BY <1>7 DEF TypeOK, CachingType, UnknownProvider, shared, caching
  <2>4. DatabaseType'
    BY <1>7 DEF TypeOK, DatabaseType, UnknownProvider, shared, database
  <2>5. OutsideType'
    BY <1>7 DEF TypeOK, OutsideType, UnknownProvider, StatementFails, outside, elsewhere, bounds
  <2> QED BY <2>1, <2>2, <2>3, <2>4, <2>5 DEF TypeOK
<1>8. CASE SkipProvider(w)
  <2>1. WorkerType'
    BY <1>8 DEF TypeOK, WorkerType, Places, SkipName, SkipProvider, Goto, request, attempt
  <2>2. BreakerType' /\ MetricsType'
    BY <1>8 DEF TypeOK, BreakerType, MetricsType, SkipProvider, shared, breaker, metrics
  <2>3. CachingType'
    BY <1>8 DEF TypeOK, CachingType, SkipProvider, shared, caching
  <2>4. DatabaseType'
    BY <1>8 DEF TypeOK, DatabaseType, SkipProvider, shared, database
  <2>5. OutsideType'
    BY <1>8 DEF TypeOK, OutsideType, SkipProvider, StatementFails, outside, elsewhere, bounds
  <2> QED BY <2>1, <2>2, <2>3, <2>4, <2>5 DEF TypeOK
<1>9. CASE Admit(w)
  <2>1. WorkerType'
    BY <1>9, AdmitType
  <2>2. BreakerType' /\ MetricsType'
    BY <1>9, AdmitType
  <2>3. CachingType'
    BY <1>9 DEF TypeOK, CachingType, Admit, shared, caching
  <2>4. DatabaseType'
    BY <1>9 DEF TypeOK, DatabaseType, Admit, shared, database
  <2>5. OutsideType'
    BY <1>9 DEF TypeOK, OutsideType, Admit, StatementFails, outside, elsewhere, bounds
  <2> QED BY <2>1, <2>2, <2>3, <2>4, <2>5 DEF TypeOK
<1>10. CASE ProviderData(w)
  <2>1. WorkerType'
    BY <1>10, ProviderDataWorker
  <2>2. BreakerType' /\ MetricsType'
    BY <1>10 DEF TypeOK, BreakerType, MetricsType, ProviderData, shared, breaker, metrics
  <2>3. CachingType'
    BY <1>10 DEF TypeOK, CachingType, ProviderData, shared, caching
  <2>4. DatabaseType'
    BY <1>10 DEF TypeOK, DatabaseType, ProviderData, shared, database
  <2>5. OutsideType'
    BY <1>10 DEF TypeOK, OutsideType, ProviderData, StatementFails, outside, elsewhere, bounds
  <2> QED BY <2>1, <2>2, <2>3, <2>4, <2>5 DEF TypeOK
<1>11. CASE ProviderError(w)
  <2>1. WorkerType'
    BY <1>11 DEF TypeOK, WorkerType, Places, ProviderError, Goto, request, attempt
  <2>2. BreakerType' /\ MetricsType'
    BY <1>11 DEF TypeOK, BreakerType, MetricsType, ProviderError, shared, breaker, metrics
  <2>3. CachingType'
    BY <1>11 DEF TypeOK, CachingType, ProviderError, shared, caching
  <2>4. DatabaseType'
    BY <1>11 DEF TypeOK, DatabaseType, ProviderError, shared, database
  <2>5. OutsideType'
    BY <1>11 DEF TypeOK, OutsideType, ProviderError, StatementFails, outside, elsewhere, bounds
  <2> QED BY <2>1, <2>2, <2>3, <2>4, <2>5 DEF TypeOK
<1>12. CASE RecordFailure(w)
  <2>1. WorkerType'
    BY <1>12 DEF TypeOK, WorkerType, Places, SkipName, RecordFailure, Goto, request, attempt
  <2>2. BreakerType' /\ MetricsType'
    BY <1>12, RecordFailureType
  <2>3. CachingType'
    BY <1>12 DEF TypeOK, CachingType, RecordFailure, shared, caching
  <2>4. DatabaseType'
    BY <1>12 DEF TypeOK, DatabaseType, RecordFailure, shared, database
  <2>5. OutsideType'
    BY <1>12 DEF TypeOK, OutsideType, RecordFailure, StatementFails, outside, elsewhere, bounds
  <2> QED BY <2>1, <2>2, <2>3, <2>4, <2>5 DEF TypeOK
<1>13. CASE MarkWatched(w)
  <2>1. WorkerType'
    BY <1>13 DEF TypeOK, WorkerType, Places, MarkWatched, Goto, request, attempt
  <2>2. BreakerType' /\ MetricsType'
    BY <1>13 DEF TypeOK, BreakerType, MetricsType, MarkWatched, shared, breaker, metrics
  <2>3. CachingType'
    BY <1>13 DEF TypeOK, CachingType, MarkWatched, shared, caching
  <2>4. DatabaseType'
    BY <1>13, MarkWatchedDatabase
  <2>5. OutsideType'
    BY <1>13 DEF TypeOK, OutsideType, MarkWatched, StatementFails, outside, elsewhere, bounds
  <2> QED BY <2>1, <2>2, <2>3, <2>4, <2>5 DEF TypeOK
<1>14. CASE UpsertPrices(w)
  <2>1. WorkerType'
    BY <1>14 DEF TypeOK, WorkerType, Places, AfterStore, UpsertPrices, Goto, request, attempt
  <2>2. BreakerType' /\ MetricsType'
    BY <1>14 DEF TypeOK, BreakerType, MetricsType, UpsertPrices, shared, breaker, metrics
  <2>3. CachingType'
    BY <1>14 DEF TypeOK, CachingType, UpsertPrices, shared, caching
  <2>4. DatabaseType'
    BY <1>14, UpsertPricesDatabase
  <2>5. OutsideType'
    BY <1>14 DEF TypeOK, OutsideType, UpsertPrices, StatementFails, outside, elsewhere, bounds
  <2> QED BY <2>1, <2>2, <2>3, <2>4, <2>5 DEF TypeOK
<1>15. CASE TouchWatched(w)
  <2>1. WorkerType'
    BY <1>15, TouchWatchedWorker
  <2>2. BreakerType' /\ MetricsType'
    BY <1>15 DEF TypeOK, BreakerType, MetricsType, TouchWatched, shared, breaker, metrics
  <2>3. CachingType'
    BY <1>15 DEF TypeOK, CachingType, TouchWatched, shared, caching
  <2>4. DatabaseType'
    BY <1>15 DEF TypeOK, DatabaseType, TouchWatched, shared, database
  <2>5. OutsideType'
    BY <1>15 DEF TypeOK, OutsideType, TouchWatched, StatementFails, outside, elsewhere, bounds
  <2> QED BY <2>1, <2>2, <2>3, <2>4, <2>5 DEF TypeOK
<1>16. CASE CacheSet(w)
  <2>1. WorkerType'
    BY <1>16 DEF TypeOK, WorkerType, Places, CacheSet, Goto, request, attempt
  <2>2. BreakerType' /\ MetricsType'
    BY <1>16 DEF TypeOK, BreakerType, MetricsType, CacheSet, shared, breaker, metrics
  <2>3. CachingType'
    BY <1>16, CacheSetCaching
  <2>4. DatabaseType'
    BY <1>16 DEF TypeOK, DatabaseType, CacheSet, shared, database
  <2>5. OutsideType'
    BY <1>16 DEF TypeOK, OutsideType, CacheSet, StatementFails, outside, elsewhere, bounds
  <2> QED BY <2>1, <2>2, <2>3, <2>4, <2>5 DEF TypeOK
<1>17. CASE RecordSuccess(w)
  <2>1. WorkerType'
    BY <1>17 DEF TypeOK, WorkerType, Places, RecordSuccess, Goto, request, attempt
  <2>2. BreakerType' /\ MetricsType'
    BY <1>17 DEF TypeOK, BreakerType, MetricsType, RecordSuccess, shared, breaker, metrics
  <2>3. CachingType'
    BY <1>17 DEF TypeOK, CachingType, RecordSuccess, shared, caching
  <2>4. DatabaseType'
    BY <1>17 DEF TypeOK, DatabaseType, RecordSuccess, shared, database
  <2>5. OutsideType'
    BY <1>17 DEF TypeOK, OutsideType, RecordSuccess, StatementFails, outside, elsewhere, bounds
  <2> QED BY <2>1, <2>2, <2>3, <2>4, <2>5 DEF TypeOK
<1>18. CASE Respond(w)
  <2>1. WorkerType'
    BY <1>18, AnyQueryType, NoResultType DEF TypeOK, WorkerType, Places, Respond, Goto, request, attempt
  <2>2. BreakerType' /\ MetricsType'
    BY <1>18 DEF TypeOK, BreakerType, MetricsType, Respond, shared, breaker, metrics
  <2>3. CachingType'
    BY <1>18 DEF TypeOK, CachingType, Respond, shared, caching
  <2>4. DatabaseType'
    BY <1>18 DEF TypeOK, DatabaseType, Respond, shared, database
  <2>5. OutsideType'
    BY <1>18 DEF TypeOK, OutsideType, Respond, StatementFails, outside, elsewhere, bounds
  <2> QED BY <2>1, <2>2, <2>3, <2>4, <2>5 DEF TypeOK
<1>19. CASE Cancel(w)
  <2>1. WorkerType'
    BY <1>19 DEF TypeOK, WorkerType, Places, Cancel, Goto, request, attempt
  <2>2. BreakerType' /\ MetricsType'
    BY <1>19 DEF TypeOK, BreakerType, MetricsType, Cancel, shared, breaker, metrics
  <2>3. CachingType'
    BY <1>19 DEF TypeOK, CachingType, Cancel, shared, caching
  <2>4. DatabaseType'
    BY <1>19 DEF TypeOK, DatabaseType, Cancel, shared, database
  <2>5. OutsideType'
    BY <1>19 DEF TypeOK, OutsideType, Cancel, StatementFails, outside, elsewhere, bounds
  <2> QED BY <2>1, <2>2, <2>3, <2>4, <2>5 DEF TypeOK
<1> QED BY <1>1, <1>2, <1>3, <1>4, <1>5, <1>6, <1>7, <1>8, <1>9, <1>10, <1>11, <1>12, <1>13, <1>14, <1>15, <1>16, <1>17, <1>18, <1>19 DEF Step

\* Steps of the surroundings keep every type.
LEMMA SurroundingsType ==
  ASSUME TypeOK, Surroundings PROVE TypeOK'
<1> USE DEF TypeOK, WorkerType, BreakerType, MetricsType, CachingType, DatabaseType, OutsideType
<1>1. CASE Tick
  BY <1>1 DEF Tick, worker, shared, request, attempt, breaker, metrics, caching, database, bounds
<1>2. CASE Publish
  BY <1>2 DEF Publish, worker, shared, request, attempt, breaker, metrics, caching, database, bounds
<1>3. CASE WatchSymbol
  BY <1>3, HistoricalAssumption
     DEF WatchSymbol, worker, outside, request, attempt, breaker, metrics, caching, bounds
<1>4. CASE Crash
  BY <1>4, AnyQueryType, NoResultType DEF Crash, Keys, Places, database
<1>5. CASE Quiescent
  BY <1>5 DEF Quiescent, vars, worker, shared, outside, request, attempt, breaker, metrics,
              caching, database, bounds
<1> QED BY <1>1, <1>2, <1>3, <1>4, <1>5 DEF Surroundings

\* TypeOK is inductive by itself.
LEMMA NextType == TypeOK /\ [Next]_vars => TypeOK'
<1> SUFFICES ASSUME TypeOK, [Next]_vars PROVE TypeOK'
  OBVIOUS
<1>1. CASE Next
  BY <1>1, WorkerStepType, SurroundingsType DEF Next
<1>2. CASE UNCHANGED vars
  BY <1>2 DEF TypeOK, WorkerType, BreakerType, MetricsType, CachingType, DatabaseType, OutsideType,
              vars, worker, shared, outside, request, attempt, breaker, metrics, caching, database,
              bounds
<1> QED BY <1>1, <1>2

\* Every variable always holds values of its kind.
THEOREM TypeCorrect == Spec => []TypeOK
BY InitType, NextType, PTL DEF Spec
------------------------------------------------------------------------------
(* The circuit breaker. *)

\* The steps that touch neither the breaker nor the calls in flight nor the clock.
Aside(w) ==
  \/ Begin(w) \/ CacheHit(w) \/ CacheMiss(w) \/ StoreHit(w) \/ StoreMiss(w) \/ Exhausted(w)
  \/ UnknownProvider(w) \/ SkipProvider(w) \/ ProviderData(w) \/ ProviderError(w) \/ MarkWatched(w)
  \/ UpsertPrices(w) \/ TouchWatched(w) \/ CacheSet(w) \/ Cancel(w)

\* A step that does not concern the breaker leaves it, the calls in flight and the clock alone.
LEMMA AsideUnchanged ==
  ASSUME NEW w \in Workers, Aside(w)
  PROVE  UNCHANGED <<failures, lastFail, prov, since, now>>
BY DEF Aside, Begin, CacheHit, CacheMiss, StoreHit, StoreMiss, Exhausted, UnknownProvider,
  SkipProvider, ProviderData, ProviderError, MarkWatched, UpsertPrices, TouchWatched, CacheSet,
  Cancel, shared, outside, elsewhere, attempt, breaker

BreakerInv == Timely /\ NoCallWhileOpen

\* The breaker invariant depends on those variables only.
LEMMA BreakerUnchanged ==
  BreakerInv /\ UNCHANGED <<failures, lastFail, prov, since, now>> => BreakerInv'
BY DEF BreakerInv, Timely, NoCallWhileOpen, Open

\* The invariant is kept: a call is admitted only while the circuit is not open; a failure
\* is recorded at a time no admission lies after; the clock only closes the window; and a
\* success empties the streak.
LEMMA BreakerNext == TypeOK /\ BreakerInv /\ [Next]_vars => BreakerInv'
<1> SUFFICES ASSUME TypeOK, BreakerInv, [Next]_vars PROVE BreakerInv'
  OBVIOUS
<1> USE DEF BreakerInv, Timely, NoCallWhileOpen, Open
<1>t. /\ failures \in [Providers -> Nat] /\ lastFail \in [Providers -> Nat] /\ now \in Nat
      /\ since \in [Workers -> Nat] /\ prov \in [Workers -> Providers \cup {None}]
  BY DEF TypeOK, BreakerType, OutsideType, WorkerType
<1>1. ASSUME NEW w \in Workers, Admit(w) PROVE BreakerInv'
  <2>1. UNCHANGED <<failures, lastFail, now>>
    BY <1>1 DEF Admit, breaker, outside
  <2>2. PICK p : /\ p = Registry[Name(w)] /\ ~Open(p)
                 /\ prov' = [prov EXCEPT ![w] = p] /\ since' = [since EXCEPT ![w] = now]
    BY <1>1 DEF Admit, Refused
  <2> QED BY <1>t, <2>1, <2>2
<1>2. ASSUME NEW w \in Workers, RecordFailure(w) PROVE BreakerInv'
  <2>1. /\ failures' = [failures EXCEPT ![prov[w]] = @ + 1]
        /\ lastFail' = [lastFail EXCEPT ![prov[w]] = now]
        /\ prov' = [prov EXCEPT ![w] = None] /\ UNCHANGED <<since, now>>
    BY <1>2 DEF RecordFailure, outside
  <2>2. ASSUME NEW p \in Providers, NEW v \in Workers, Open(p)', prov'[v] = p
        PROVE  since'[v] <= lastFail'[p]
    <3>1. CASE p = prov[w]
      BY <1>t, <2>1, <3>1
    <3>2. CASE p # prov[w]
      <4>1. failures'[p] = failures[p] /\ lastFail'[p] = lastFail[p]
        BY <1>t, <2>1, <3>2
      <4>2. v # w
        BY <1>t, <2>1, <2>2, HistoricalAssumption
      <4> QED BY <1>t, <2>1, <2>2, <4>1, <4>2
    <3> QED BY <3>1, <3>2
  <2>3. Timely'
    BY <2>1
  <2> QED BY <2>2, <2>3
<1>3. ASSUME NEW w \in Workers, RecordSuccess(w) PROVE BreakerInv'
  <2>1. /\ failures' = [failures EXCEPT ![prov[w]] = 0]
        /\ lastFail' = [lastFail EXCEPT ![prov[w]] = 0]
        /\ prov' = [prov EXCEPT ![w] = None] /\ UNCHANGED <<since, now>>
    BY <1>3 DEF RecordSuccess, outside
  <2>2. ASSUME NEW p \in Providers, NEW v \in Workers, Open(p)', prov'[v] = p
        PROVE  since'[v] <= lastFail'[p]
    <3>1. p # prov[w]
      BY <1>t, <2>1, <2>2
    <3>2. failures'[p] = failures[p] /\ lastFail'[p] = lastFail[p]
      BY <1>t, <2>1, <3>1
    <3>3. v # w
      BY <1>t, <2>1, <2>2, HistoricalAssumption
    <3> QED BY <1>t, <2>1, <2>2, <3>2, <3>3
  <2>3. Timely'
    BY <2>1
  <2> QED BY <2>2, <2>3
<1>4. ASSUME NEW w \in Workers, Respond(w) PROVE BreakerInv'
  BY <1>t, <1>4 DEF Respond, shared, breaker, outside
<1>5. CASE Tick
  BY <1>t, <1>5, HistoricalAssumption DEF Tick, worker, attempt, shared, breaker
<1>6. CASE Crash
  BY <1>t, <1>6, HistoricalAssumption DEF Crash
<1>7. ASSUME NEW w \in Workers, Aside(w) PROVE BreakerInv'
  BY <1>7, AsideUnchanged, BreakerUnchanged
<1>8. CASE Publish \/ WatchSymbol \/ Quiescent \/ UNCHANGED vars
  <2>1. UNCHANGED <<failures, lastFail, prov, since, now>>
    BY <1>8 DEF Publish, WatchSymbol, Quiescent, vars, worker, shared, outside, attempt, breaker
  <2> QED BY <2>1, BreakerUnchanged
<1> QED BY <1>1, <1>2, <1>3, <1>4, <1>5, <1>6, <1>7, <1>8
        DEF Next, Surroundings, Step, Aside

\* A provider whose circuit is open has no call in flight that began after its last failure,
\* for any number of goroutines and whatever they do between providerAvailable and the call.
THEOREM BreakerHolds == Spec => []NoCallWhileOpen
<1>1. Init => BreakerInv
  BY HistoricalAssumption DEF Init, BreakerInv, Timely, NoCallWhileOpen
<1>2. BreakerInv => NoCallWhileOpen
  BY DEF BreakerInv
<1> QED BY <1>1, <1>2, BreakerNext, TypeCorrect, PTL DEF Spec
------------------------------------------------------------------------------
(* What a worker relies on. *)

\* A step of one worker leaves the state of every other one alone.
LEMMA OthersUntouched ==
  ASSUME TypeOK, NEW w \in Workers, NEW v \in Workers \ {w}, Begin(w) \/ Step(w) \/ Cancel(w)
  PROVE  /\ pc'[v] = pc[v] /\ qry'[v] = qry[v] /\ idx'[v] = idx[v]
         /\ prov'[v] = prov[v] /\ ans'[v] = ans[v] /\ cancelled'[v] = cancelled[v]
<1> USE DEF TypeOK, WorkerType, Goto, Return, SkipName, request, attempt
<1>1. CASE Begin(w) BY <1>1 DEF Begin
<1>2. CASE CacheHit(w) BY <1>2 DEF CacheHit
<1>3. CASE CacheMiss(w) BY <1>3 DEF CacheMiss
<1>4. CASE StoreHit(w) BY <1>4 DEF StoreHit
<1>5. CASE StoreMiss(w) BY <1>5 DEF StoreMiss
<1>6. CASE Exhausted(w) BY <1>6 DEF Exhausted
<1>7. CASE UnknownProvider(w) BY <1>7 DEF UnknownProvider
<1>8. CASE SkipProvider(w) BY <1>8 DEF SkipProvider
<1>9. CASE Admit(w) BY <1>9 DEF Admit
<1>10. CASE ProviderData(w) BY <1>10 DEF ProviderData
<1>11. CASE ProviderError(w) BY <1>11 DEF ProviderError
<1>12. CASE RecordFailure(w) BY <1>12 DEF RecordFailure
<1>13. CASE MarkWatched(w) BY <1>13 DEF MarkWatched
<1>14. CASE UpsertPrices(w) BY <1>14 DEF UpsertPrices
<1>15. CASE TouchWatched(w) BY <1>15 DEF TouchWatched
<1>16. CASE CacheSet(w) BY <1>16 DEF CacheSet
<1>17. CASE RecordSuccess(w) BY <1>17 DEF RecordSuccess
<1>18. CASE Respond(w) BY <1>18 DEF Respond
<1>19. CASE Cancel(w) BY <1>19 DEF Cancel
<1> QED BY <1>1, <1>2, <1>3, <1>4, <1>5, <1>6, <1>7, <1>8, <1>9, <1>10, <1>11, <1>12, <1>13, <1>14, <1>15, <1>16, <1>17, <1>18, <1>19 DEF Step

\* Stored bars are never lost, and the preferred row of a day is always one of them.
LEMMA DatabaseNext ==
  ASSUME TypeOK, [Next]_vars
  PROVE  /\ \A s \in Series, d \in Days : rows[s][d] \subseteq rows'[s][d]
         /\ NewestStored => NewestStored'
<1>1. ASSUME NEW w \in Workers, Upsert(w)
      PROVE  /\ \A s \in Series, d \in Days : rows[s][d] \subseteq rows'[s][d]
             /\ NewestStored => NewestStored'
  <2>1. \A s \in Series, d \in Days :
          LET b == ans[w].bars[d] IN
          IF s = qry[w].series /\ b # None
          THEN rows'[s][d] = rows[s][d] \cup {b} /\ newest'[s][d] = b
          ELSE rows'[s][d] = rows[s][d] /\ newest'[s][d] = newest[s][d]
    BY <1>1, UpsertWrites
  <2> QED BY <2>1 DEF NewestStored
<1>2. ASSUME UNCHANGED <<rows, newest>>
      PROVE  /\ \A s \in Series, d \in Days : rows[s][d] \subseteq rows'[s][d]
             /\ NewestStored => NewestStored'
  BY <1>2 DEF NewestStored
<1>3. (\E w \in Workers : Upsert(w)) \/ UNCHANGED <<rows, newest>>
  <2>1. ASSUME NEW w \in Workers, Begin(w) PROVE Upsert(w) \/ UNCHANGED <<rows, newest>>
    BY <2>1 DEF Begin, shared, database
  <2>2. ASSUME NEW w \in Workers, CacheHit(w) PROVE Upsert(w) \/ UNCHANGED <<rows, newest>>
    BY <2>2 DEF CacheHit, shared, database
  <2>3. ASSUME NEW w \in Workers, CacheMiss(w) PROVE Upsert(w) \/ UNCHANGED <<rows, newest>>
    BY <2>3 DEF CacheMiss, shared, database
  <2>4. ASSUME NEW w \in Workers, StoreHit(w) PROVE Upsert(w) \/ UNCHANGED <<rows, newest>>
    BY <2>4 DEF StoreHit, shared, database
  <2>5. ASSUME NEW w \in Workers, StoreMiss(w) PROVE Upsert(w) \/ UNCHANGED <<rows, newest>>
    BY <2>5 DEF StoreMiss, shared, database
  <2>6. ASSUME NEW w \in Workers, Exhausted(w) PROVE Upsert(w) \/ UNCHANGED <<rows, newest>>
    BY <2>6 DEF Exhausted, shared, database
  <2>7. ASSUME NEW w \in Workers, UnknownProvider(w) PROVE Upsert(w) \/ UNCHANGED <<rows, newest>>
    BY <2>7 DEF UnknownProvider, shared, database
  <2>8. ASSUME NEW w \in Workers, SkipProvider(w) PROVE Upsert(w) \/ UNCHANGED <<rows, newest>>
    BY <2>8 DEF SkipProvider, shared, database
  <2>9. ASSUME NEW w \in Workers, Admit(w) PROVE Upsert(w) \/ UNCHANGED <<rows, newest>>
    BY <2>9 DEF Admit, shared, database
  <2>10. ASSUME NEW w \in Workers, ProviderData(w) PROVE Upsert(w) \/ UNCHANGED <<rows, newest>>
    BY <2>10 DEF ProviderData, shared, database
  <2>11. ASSUME NEW w \in Workers, ProviderError(w) PROVE Upsert(w) \/ UNCHANGED <<rows, newest>>
    BY <2>11 DEF ProviderError, shared, database
  <2>12. ASSUME NEW w \in Workers, RecordFailure(w) PROVE Upsert(w) \/ UNCHANGED <<rows, newest>>
    BY <2>12 DEF RecordFailure, shared, database
  <2>13. ASSUME NEW w \in Workers, MarkWatched(w) PROVE Upsert(w) \/ UNCHANGED <<rows, newest>>
    BY <2>13 DEF MarkWatched, shared, database
  <2>14. ASSUME NEW w \in Workers, UpsertPrices(w) PROVE Upsert(w) \/ UNCHANGED <<rows, newest>>
    BY <2>14 DEF UpsertPrices, shared, database
  <2>15. ASSUME NEW w \in Workers, TouchWatched(w) PROVE Upsert(w) \/ UNCHANGED <<rows, newest>>
    BY <2>15 DEF TouchWatched, shared, database
  <2>16. ASSUME NEW w \in Workers, CacheSet(w) PROVE Upsert(w) \/ UNCHANGED <<rows, newest>>
    BY <2>16 DEF CacheSet, shared, database
  <2>17. ASSUME NEW w \in Workers, RecordSuccess(w) PROVE Upsert(w) \/ UNCHANGED <<rows, newest>>
    BY <2>17 DEF RecordSuccess, shared, database
  <2>18. ASSUME NEW w \in Workers, Respond(w) PROVE Upsert(w) \/ UNCHANGED <<rows, newest>>
    BY <2>18 DEF Respond, shared, database
  <2>19. ASSUME NEW w \in Workers, Cancel(w) PROVE Upsert(w) \/ UNCHANGED <<rows, newest>>
    BY <2>19 DEF Cancel, shared, database
  <2>20. CASE Surroundings \/ UNCHANGED vars
    BY <2>20 DEF Surroundings, Tick, Publish, WatchSymbol, Crash, Quiescent, vars, shared, database
  <2> QED BY <2>1, <2>2, <2>3, <2>4, <2>5, <2>6, <2>7, <2>8, <2>9, <2>10, <2>11, <2>12, <2>13, <2>14, <2>15, <2>16, <2>17, <2>18, <2>19, <2>20 DEF Next, Step
<1> QED BY <1>1, <1>2, <1>3

\* The empty provider name is not that of a provider.
LEMMA NoneIsNoProvider == None \notin Providers
BY HistoricalAssumption

\* What a worker relies on holds after its own steps.
LEMMA InStepOwn ==
  ASSUME TypeOK, InStep, NEW w \in Workers, Begin(w) \/ Step(w) \/ Cancel(w)
  PROVE  InStepOf(w)'
<1> USE DEF TypeOK, WorkerType, Places, InStepOf, Unanswered, Calling, Goto, Return, Name,
            request, attempt
<1>0. InStepOf(w)
  BY DEF InStep
<1>1. CASE Begin(w)
  BY <1>0, <1>1 DEF Begin
<1>2. CASE CacheHit(w)
  BY <1>0, <1>2 DEF CacheHit
<1>3. CASE CacheMiss(w)
  BY <1>0, <1>3 DEF CacheMiss
<1>4. CASE StoreHit(w)
  BY <1>0, <1>4 DEF StoreHit
<1>5. CASE StoreMiss(w)
  BY <1>0, <1>5 DEF StoreMiss
<1>6. CASE Exhausted(w)
  BY <1>0, <1>6 DEF Exhausted
<1>7. CASE UnknownProvider(w)
  <2>1. pc[w] = "choose" /\ prov' = prov /\ pc'[w] \in {"choose", "done"}
        /\ (pc'[w] = "choose" => ans' = ans)
    BY <1>7 DEF UnknownProvider, Choosing, SkipName
  <2> QED BY <1>0, <2>1
<1>8. CASE SkipProvider(w)
  <2>1. pc[w] = "choose" /\ prov' = prov /\ pc'[w] \in {"choose", "done"}
        /\ (pc'[w] = "choose" => ans' = ans)
    BY <1>8 DEF SkipProvider, Choosing, SkipName
  <2> QED BY <1>0, <2>1
<1>9. CASE Admit(w)
  <2>1. idx[w] \in DOMAIN PriorityOf(qry[w])
    BY <1>9, PriorityType DEF Admit, Choosing
  <2>2. Registry[Name(w)] # None
    BY <1>9 DEF Admit
  <2>3. PriorityOf(qry[w])' = PriorityOf(qry[w]) /\ Name(w)' = Name(w)
    BY <1>9 DEF Admit
  <2>4. pc'[w] = "call" /\ ans'[w] = ans[w] /\ pc[w] = "choose" /\ prov'[w] = Registry[Name(w)]
        /\ idx'[w] = idx[w] /\ qry' = qry
    BY <1>9 DEF Admit, Choosing
  <2> QED BY <1>0, <2>1, <2>2, <2>3, <2>4
<1>10. CASE ProviderData(w)
  BY <1>0, <1>10 DEF ProviderData, AfterFetch, AfterStore
<1>11. CASE ProviderError(w)
  BY <1>0, <1>11 DEF ProviderError
<1>12. CASE RecordFailure(w)
  BY <1>0, <1>12 DEF RecordFailure, SkipName
<1>13. CASE MarkWatched(w)
  BY <1>0, <1>13 DEF MarkWatched
<1>14. CASE UpsertPrices(w)
  <2>1. ASSUME Upsert(w) PROVE Durable(qry[w].series, ans[w].bars)'
    <3>1. qry[w].series \in Series
      BY HistoricalAssumption DEF QueryType
    <3>2. \A d \in Days : ans[w].bars[d] # None => ans[w].bars[d] \in rows'[qry[w].series][d]
      BY <2>1, <3>1, UpsertWrites
    <3> QED BY <1>14, <3>2 DEF UpsertPrices, Durable
  <2> QED BY <1>0, <1>14, <2>1 DEF UpsertPrices, AfterStore
<1>15. CASE TouchWatched(w)
  BY <1>0, <1>15 DEF TouchWatched, AfterStore
<1>16. CASE CacheSet(w)
  BY <1>0, <1>16 DEF CacheSet
<1>17. CASE RecordSuccess(w)
  BY <1>0, <1>17 DEF RecordSuccess
<1>18. CASE Respond(w)
  BY <1>0, <1>18 DEF Respond
<1>19. CASE Cancel(w)
  <2>1. UNCHANGED <<pc, qry, idx, prov, ans, rows>>
    BY <1>19 DEF Cancel, shared, database
  <2> QED BY <1>0, <2>1 DEF Durable
<1> QED BY <1>1, <1>2, <1>3, <1>4, <1>5, <1>6, <1>7, <1>8, <1>9, <1>10, <1>11, <1>12, <1>13, <1>14, <1>15, <1>16, <1>17, <1>18, <1>19 DEF Step

\* InStep is inductive, given the types.
LEMMA InStepNext == TypeOK /\ InStep /\ [Next]_vars => InStep'
<1> SUFFICES ASSUME TypeOK, InStep, [Next]_vars PROVE InStep'
  OBVIOUS
<1>1. ASSUME NEW w \in Workers, Begin(w) \/ Step(w) \/ Cancel(w) PROVE InStep'
  <2>1. ASSUME NEW v \in Workers \ {w} PROVE InStepOf(v)'
    <3>1. /\ pc'[v] = pc[v] /\ qry'[v] = qry[v] /\ idx'[v] = idx[v]
          /\ prov'[v] = prov[v] /\ ans'[v] = ans[v]
      BY <1>1, OthersUntouched
    <3>2. qry[v].series \in Series
      BY HistoricalAssumption DEF TypeOK, WorkerType, QueryType
    <3>3. Durable(qry[v].series, ans[v].bars) => Durable(qry[v].series, ans[v].bars)'
      BY <3>1, <3>2, DatabaseNext DEF Durable
    <3> QED BY <3>1, <3>3 DEF InStep, InStepOf, Name
  <2>2. InStepOf(w)'
    BY <1>1, InStepOwn
  <2> QED BY <2>1, <2>2 DEF InStep
<1>2. CASE Tick \/ Publish \/ WatchSymbol \/ Quiescent \/ UNCHANGED vars
  <2>1. UNCHANGED <<pc, qry, idx, prov, ans, rows>>
    BY <1>2 DEF Tick, Publish, WatchSymbol, Quiescent, vars, worker, shared, request, attempt, database
  <2> QED BY <2>1 DEF InStep, InStepOf, Name, Durable
<1>3. CASE Crash
  BY <1>3 DEF Crash, InStep, InStepOf, Unanswered, Calling
<1> QED BY <1>1, <1>2, <1>3 DEF Next, Surroundings

\* No goroutine has an answer before one is there, and each calls the provider that its place
\* in the priority list names: what the code after the loop body takes for granted.
THEOREM InStepHolds == Spec => []InStep
<1>1. Init => InStep
  BY DEF Init, InStep, InStepOf, Unanswered, Calling
<1> QED BY <1>1, InStepNext, TypeCorrect, PTL DEF Spec

\* The row that GetPrices prefers for a day is always one of the rows of that day, whatever
\* statements fail and whichever upserts overlap.
THEOREM NewestStoredHolds == Spec => []NewestStored
<1>1. Init => NewestStored
  BY DEF Init, NewestStored
<1>2. TypeOK /\ NewestStored /\ [Next]_vars => NewestStored'
  BY DatabaseNext
<1> QED BY <1>1, <1>2, TypeCorrect, PTL DEF Spec
------------------------------------------------------------------------------
(* The answers. *)

Empty == {NoResult, Error("rejected"), Error("unknown"), Error("failed")}

\* Errors and the empty result fit every query, and are not marked persisted.
LEMMA EmptyFits ==
  ASSUME NEW q, NEW r, r \in Empty
  PROVE  Fits(r.bars, q) /\ r.persisted = FALSE
BY DEF Empty, Fits, Error, NoResult, NoBars

\* What the database returns for a query fits it and is in the database.
LEMMA StoredFits ==
  ASSUME TypeOK, NewestStored, NEW q \in Queries
  PROVE  Fits(GetPrices(q), q) /\ Durable(q.series, GetPrices(q))
<1>1. q.series \in Series
  BY HistoricalAssumption DEF QueryType
<1>2. ASSUME NEW d \in Days, GetPrices(q)[d] # None
      PROVE  /\ d \in q.range
             /\ q.provider # None => GetPrices(q)[d] = Registry[q.provider]
             /\ GetPrices(q)[d] \in rows[q.series][d]
  <2>1. CASE q.provider = None
    BY <1>1, <1>2, <2>1 DEF GetPrices, NewestStored
  <2>2. CASE q.provider # None
    <3>1. q.provider \in rows[q.series][d] /\ GetPrices(q)[d] = q.provider /\ d \in q.range
      BY <1>2, <2>2 DEF GetPrices
    <3>2. Registry[q.provider] = q.provider
      BY <1>1, <3>1, HistoricalAssumption DEF TypeOK, DatabaseType
    <3> QED BY <3>1, <3>2
  <2> QED BY <2>1, <2>2
<1> QED BY <1>2 DEF Fits, Durable

\* What a provider's bars become fits the query that is asking it.
LEMMA FetchedFits ==
  ASSUME TypeOK, InStep, NEW w \in Workers, pc[w] = "call"
  PROVE  Fits(filterPrices([d \in Days |-> IF d \in published THEN prov[w] ELSE None],
                           qry[w].range), qry[w])
<1> DEFINE q == qry[w]
<1>1. prov[w] = Registry[Name(w)] /\ idx[w] \in DOMAIN PriorityOf(q)
  BY DEF InStep, InStepOf, Calling
<1>2. q.provider # None => prov[w] = Registry[q.provider]
  BY <1>1 DEF PriorityOf, Name
<1> QED BY <1>2 DEF Fits, filterPrices

\* The bars of one worker's answer after a step: those of an empty result, of the cache, of
\* the database, of the provider, or the ones it had.
LEMMA AnswerFrom ==
  ASSUME TypeOK, InStep, NEW w \in Workers, Begin(w) \/ Step(w) \/ Cancel(w)
  PROVE  \/ ans'[w] \in Empty
         \/ /\ qry'[w] = qry[w] /\ Cached(qry[w])
            /\ ans'[w].bars = cache[Key(qry[w])].bars
            /\ ans'[w].persisted = cache[Key(qry[w])].persisted
         \/ qry'[w] = qry[w] /\ ans'[w].bars = GetPrices(qry[w])
         \/ /\ qry'[w] = qry[w] /\ pc[w] = "call" /\ ans'[w].persisted = FALSE
            /\ ans'[w].bars = filterPrices([d \in Days |-> IF d \in published THEN prov[w] ELSE None],
                                           qry[w].range)
         \/ /\ qry'[w] = qry[w] /\ ans'[w].bars = ans[w].bars
            /\ ans'[w].persisted => ans[w].persisted \/ pc[w] = "touch"
<1> USE DEF TypeOK, WorkerType, Goto, Return, SkipName, request, attempt, Empty
<1>0. /\ qry[w] \in Queries /\ cache[Key(qry[w])] \in Result /\ ans[w] \in Result
      /\ pc[w] = "idle" => ans[w] = NoResult
  BY KeyType DEF CachingType, InStep, InStepOf, Unanswered
<1>1. CASE Begin(w)
  BY <1>0, <1>1 DEF Begin
<1>2. CASE CacheHit(w)
  BY <1>0, <1>2 DEF CacheHit, Result
<1>3. CASE CacheMiss(w)
  BY <1>0, <1>3 DEF CacheMiss
<1>4. CASE StoreHit(w)
  BY <1>0, <1>4 DEF StoreHit
<1>5. CASE StoreMiss(w)
  BY <1>0, <1>5 DEF StoreMiss
<1>6. CASE Exhausted(w)
  BY <1>0, <1>6 DEF Exhausted
<1>7. CASE UnknownProvider(w)
  BY <1>0, <1>7 DEF UnknownProvider
<1>8. CASE SkipProvider(w)
  BY <1>0, <1>8 DEF SkipProvider
<1>9. CASE Admit(w)
  BY <1>0, <1>9 DEF Admit
<1>10. CASE ProviderData(w)
  BY <1>0, <1>10 DEF ProviderData
<1>11. CASE ProviderError(w)
  BY <1>0, <1>11 DEF ProviderError
<1>12. CASE RecordFailure(w)
  BY <1>0, <1>12 DEF RecordFailure
<1>13. CASE MarkWatched(w)
  BY <1>0, <1>13 DEF MarkWatched
<1>14. CASE UpsertPrices(w)
  BY <1>0, <1>14 DEF UpsertPrices
<1>15. CASE TouchWatched(w)
  BY <1>0, <1>15 DEF TouchWatched, Result
<1>16. CASE CacheSet(w)
  BY <1>0, <1>16 DEF CacheSet
<1>17. CASE RecordSuccess(w)
  BY <1>0, <1>17 DEF RecordSuccess
<1>18. CASE Respond(w)
  BY <1>0, <1>18 DEF Respond
<1>19. CASE Cancel(w)
  BY <1>0, <1>19 DEF Cancel
<1> QED BY <1>1, <1>2, <1>3, <1>4, <1>5, <1>6, <1>7, <1>8, <1>9, <1>10, <1>11, <1>12, <1>13, <1>14, <1>15, <1>16, <1>17, <1>18, <1>19 DEF Step

\* A step changes a cache entry only to the answer of a worker that is at Cache.Set, or empties it.
LEMMA CacheFrom ==
  ASSUME TypeOK, [Next]_vars, NEW k \in Keys
  PROVE  \/ cache'[k] = cache[k] \/ cache'[k] = NoResult
         \/ \E w \in Workers :
              k = Key(qry[w]) /\ cache'[k] = ans[w] /\ pc[w] \in {"fill", "save"}
<1>1. ASSUME NEW w \in Workers, CacheSet(w)
      PROVE  \/ cache'[k] = cache[k]
             \/ k = Key(qry[w]) /\ cache'[k] = ans[w] /\ pc[w] \in {"fill", "save"}
  BY <1>1 DEF CacheSet, TypeOK, CachingType, caching
<1>2. CASE Crash
  BY <1>2 DEF Crash
<1>3. ASSUME NEW w \in Workers, (Begin(w) \/ Step(w) \/ Cancel(w)) /\ ~CacheSet(w)
      PROVE  UNCHANGED cache
  BY <1>3 DEF Step, Begin, CacheHit, CacheMiss, StoreHit, StoreMiss, Exhausted, UnknownProvider, SkipProvider, Admit, ProviderData, ProviderError, RecordFailure, MarkWatched, UpsertPrices, TouchWatched, RecordSuccess, Respond, Cancel, shared, caching
<1>4. CASE Tick \/ Publish \/ WatchSymbol \/ Quiescent \/ UNCHANGED vars
  BY <1>4 DEF Tick, Publish, WatchSymbol, Quiescent, vars, shared, caching
<1> QED BY <1>1, <1>2, <1>3, <1>4 DEF Next, Surroundings

\* Steps in which no worker moves: answers, queries and the database stay, but for a crash.
LEMMA NoWorkerMoves ==
  ASSUME Tick \/ Publish \/ WatchSymbol \/ Quiescent \/ UNCHANGED vars
  PROVE  UNCHANGED <<qry, ans, cache, rows>>
BY DEF Tick, Publish, WatchSymbol, Quiescent, vars, worker, shared, request, caching, database

\* AnswersFit is kept by every step that finds the types, InStep and NewestStored in place.
LEMMA AnswersFitNext ==
  ASSUME TypeOK, InStep, NewestStored, AnswersFit, [Next]_vars
  PROVE  AnswersFit'
<1>1. ASSUME NEW q \in Queries PROVE Fits(cache[Key(q)].bars, q)'
  <2>1. CASE cache'[Key(q)] = cache[Key(q)]
    BY <2>1 DEF AnswersFit, Fits
  <2>2. CASE cache'[Key(q)] = NoResult
    BY <2>2, EmptyFits DEF Empty, Fits
  <2>3. ASSUME NEW w \in Workers, Key(q) = Key(qry[w]), cache'[Key(q)] = ans[w]
        PROVE  Fits(cache[Key(q)].bars, q)'
    <3>1. qry[w] \in Queries /\ Fits(ans[w].bars, qry[w])
      BY DEF TypeOK, WorkerType, AnswersFit
    <3>2. q.range = qry[w].range /\ q.provider = qry[w].provider
      BY <2>3, <3>1, KeyKeeps
    <3> QED BY <2>3, <3>1, <3>2 DEF Fits
  <2> QED BY <2>1, <2>2, <2>3, KeyType, CacheFrom
<1>2. ASSUME NEW w \in Workers, Begin(w) \/ Step(w) \/ Cancel(w), NEW v \in Workers
      PROVE  Fits(ans[v].bars, qry[v])'
  <2>1. CASE v # w
    <3>1. qry'[v] = qry[v] /\ ans'[v] = ans[v]
      BY <1>2, <2>1, OthersUntouched
    <3> QED BY <3>1 DEF AnswersFit, Fits
  <2>2. CASE v = w
    <3>1. qry[w] \in Queries
      BY DEF TypeOK, WorkerType
    <3>2. CASE ans'[w] \in Empty
      BY <2>2, <3>2, EmptyFits DEF Fits
    <3>3. CASE qry'[w] = qry[w] /\ Fits(ans'[w].bars, qry[w])
      BY <2>2, <3>3 DEF Fits
    <3>4. Fits(cache[Key(qry[w])].bars, qry[w]) /\ Fits(ans[w].bars, qry[w])
          /\ Fits(GetPrices(qry[w]), qry[w])
      BY <3>1, StoredFits DEF AnswersFit
    <3> QED BY <1>2, <3>2, <3>3, <3>4, AnswerFrom, FetchedFits
  <2> QED BY <2>1, <2>2
<1>3. CASE Tick \/ Publish \/ WatchSymbol \/ Quiescent \/ UNCHANGED vars
  BY <1>1, <1>3, NoWorkerMoves DEF AnswersFit, Fits
<1>4. CASE Crash
  BY <1>1, <1>4, EmptyFits DEF Crash, AnswersFit, Fits, Empty
<1> QED BY <1>1, <1>2, <1>3, <1>4 DEF Next, Surroundings, AnswersFit

\* Every answer and every cache entry fits the queries it is given for: inside the range and
\* of the forced provider, through cache, database and provider alike.
THEOREM AnswersFitHolds == Spec => []AnswersFit
<1>1. Init => AnswersFit
  BY EmptyFits DEF Init, AnswersFit, Keys, Empty
<1>2. TypeOK /\ InStep /\ NewestStored /\ AnswersFit /\ [Next]_vars => AnswersFit'
  BY AnswersFitNext
<1> QED BY <1>1, <1>2, TypeCorrect, InStepHolds, NewestStoredHolds, PTL DEF Spec

\* PersistedIsDurable is kept likewise: rows are never deleted, so what was durable stays so.
LEMMA PersistedNext ==
  ASSUME TypeOK, InStep, NewestStored, PersistedIsDurable, [Next]_vars
  PROVE  PersistedIsDurable'
<1>1. ASSUME NEW s \in Series, NEW b, Durable(s, b) PROVE \A d \in Days : b[d] # None => b[d] \in rows'[s][d]
  BY <1>1, DatabaseNext DEF Durable
<1>2. ASSUME NEW w \in Workers PROVE qry[w] \in Queries /\ qry[w].series \in Series
  BY HistoricalAssumption DEF TypeOK, WorkerType, QueryType
<1>3. ASSUME NEW k \in Keys, cache'[k].persisted
      PROVE  Durable(k.series, cache[k].bars)'
  <2>1. k.series \in Series
    BY HistoricalAssumption, KeyKeeps DEF Keys, QueryType
  <2>2. CASE cache'[k] = cache[k]
    BY <1>1, <1>3, <2>1, <2>2 DEF PersistedIsDurable, Durable
  <2>3. cache'[k] # NoResult
    BY <1>3, EmptyFits DEF Empty
  <2>4. ASSUME NEW w \in Workers, k = Key(qry[w]), cache'[k] = ans[w]
        PROVE  Durable(k.series, cache[k].bars)'
    <3>1. Durable(qry[w].series, ans[w].bars) /\ k.series = qry[w].series
      BY <1>2, <1>3, <2>4, KeyKeeps DEF PersistedIsDurable
    <3> QED BY <1>1, <2>1, <2>4, <3>1 DEF Durable
  <2> QED BY <2>2, <2>3, <2>4, CacheFrom
<1>4. ASSUME NEW w \in Workers, Begin(w) \/ Step(w) \/ Cancel(w), NEW v \in Workers,
             ans'[v].persisted
      PROVE  Durable(qry[v].series, ans[v].bars)'
  <2>1. CASE v # w
    <3>1. qry'[v] = qry[v] /\ ans'[v] = ans[v]
      BY <1>4, <2>1, OthersUntouched
    <3> QED BY <1>1, <1>2, <1>4, <3>1 DEF PersistedIsDurable, Durable
  <2>2. CASE v = w
    <3> DEFINE s == qry[w].series
    <3>1. ans'[w] \notin Empty
      BY <1>4, <2>2, EmptyFits
    <3>2. CASE qry'[w] = qry[w] /\ Durable(s, ans'[w].bars)
      BY <1>1, <1>2, <2>2, <3>2 DEF Durable
    <3>3. Durable(s, GetPrices(qry[w]))
      BY <1>2, StoredFits
    <3>4. cache[Key(qry[w])].persisted => Durable(s, cache[Key(qry[w])].bars)
      BY <1>2, KeyType, KeyKeeps DEF PersistedIsDurable
    <3>5. ans[w].persisted \/ pc[w] = "touch" => Durable(s, ans[w].bars)
      BY DEF PersistedIsDurable, InStep, InStepOf
    <3> QED BY <1>4, <2>2, <3>1, <3>2, <3>3, <3>4, <3>5, AnswerFrom
  <2> QED BY <2>1, <2>2
<1>5. ASSUME Tick \/ Publish \/ WatchSymbol \/ Quiescent \/ UNCHANGED vars
      PROVE  PersistedIsDurable'
  BY <1>3, <1>5, NoWorkerMoves DEF PersistedIsDurable, Durable
<1>6. CASE Crash
  BY <1>3, <1>6, EmptyFits DEF Crash, PersistedIsDurable, Empty
<1> QED BY <1>3, <1>4, <1>5, <1>6 DEF Next, Surroundings, PersistedIsDurable

\* Persisted is never said of a result whose bars are not all in the database: not by the
\* answer that is being built, not by the cache, and not after a crash, with any number of
\* failing statements and cancelled contexts.
THEOREM PersistedHolds == Spec => []PersistedIsDurable
<1>1. Init => PersistedIsDurable
  BY EmptyFits DEF Init, PersistedIsDurable, Keys, Empty
<1>2. TypeOK /\ InStep /\ NewestStored /\ PersistedIsDurable /\ [Next]_vars => PersistedIsDurable'
  BY PersistedNext
<1> QED BY <1>1, <1>2, TypeCorrect, InStepHolds, NewestStoredHolds, PTL DEF Spec
------------------------------------------------------------------------------
(* Stored series are watched. *)

\* While no statement has failed on its own: whoever is about to store, and is not cancelled,
\* has marked its series, and every stored series is marked.
MarkedFirst ==
  faults = 0 =>
    /\ \A w \in Workers :
         pc[w] = "persist" /\ ~cancelled[w] => <<qry[w].series, qry[w].provider>> \in watched
    /\ StoredIsWatched

\* What a worker's step does to watched_symbols and price_bars: marks stay, rows change only by
\* the batch of a worker that is not cancelled, and one that goes on to store has marked.
LEMMA StoringStep ==
  ASSUME TypeOK, NEW w \in Workers, Begin(w) \/ Step(w) \/ Cancel(w)
  PROVE  /\ watched \subseteq watched' /\ faults <= faults'
         /\ \/ UNCHANGED rows
            \/ pc[w] = "persist" /\ ~cancelled[w] /\ Upsert(w)
         /\ pc'[w] = "persist" /\ ~cancelled'[w] /\ faults' = 0 =>
              \/ <<qry'[w].series, qry'[w].provider>> \in watched'
              \/ pc[w] = "persist" /\ ~cancelled[w] /\ qry'[w] = qry[w]
<1> USE DEF TypeOK, WorkerType, OutsideType, Goto, Return, StatementFails, request, attempt, shared, database,
            outside, elsewhere, bounds
<1>1. CASE Begin(w) BY <1>1 DEF Begin
<1>2. CASE CacheHit(w) BY <1>2 DEF CacheHit
<1>3. CASE CacheMiss(w) BY <1>3 DEF CacheMiss
<1>4. CASE StoreHit(w) BY <1>4 DEF StoreHit
<1>5. CASE StoreMiss(w) BY <1>5 DEF StoreMiss
<1>6. CASE Exhausted(w) BY <1>6 DEF Exhausted
<1>7. CASE UnknownProvider(w) BY <1>7 DEF UnknownProvider, Choosing, SkipName
<1>8. CASE SkipProvider(w) BY <1>8 DEF SkipProvider, Choosing, SkipName
<1>9. CASE Admit(w) BY <1>9 DEF Admit, Choosing
<1>10. CASE ProviderData(w) BY <1>10 DEF ProviderData, AfterFetch, AfterStore
<1>11. CASE ProviderError(w) BY <1>11 DEF ProviderError
<1>12. CASE RecordFailure(w) BY <1>12 DEF RecordFailure, SkipName
<1>13. CASE MarkWatched(w) BY <1>13 DEF MarkWatched
<1>14. CASE UpsertPrices(w) BY <1>14 DEF UpsertPrices, AfterStore
<1>15. CASE TouchWatched(w) BY <1>15 DEF TouchWatched, AfterStore
<1>16. CASE CacheSet(w) BY <1>16 DEF CacheSet
<1>17. CASE RecordSuccess(w) BY <1>17 DEF RecordSuccess
<1>18. CASE Respond(w) BY <1>18 DEF Respond
<1>19. CASE Cancel(w) BY <1>19 DEF Cancel
<1> QED BY <1>1, <1>2, <1>3, <1>4, <1>5, <1>6, <1>7, <1>8, <1>9, <1>10, <1>11, <1>12, <1>13, <1>14, <1>15, <1>16, <1>17, <1>18, <1>19 DEF Step

\* MarkedFirst is inductive, given the types.
LEMMA MarkedNext == TypeOK /\ MarkedFirst /\ [Next]_vars => MarkedFirst'
<1> SUFFICES ASSUME TypeOK, MarkedFirst, [Next]_vars, faults' = 0
             PROVE  /\ \A w \in Workers : pc'[w] = "persist" /\ ~cancelled'[w] =>
                         <<qry'[w].series, qry'[w].provider>> \in watched'
                    /\ StoredIsWatched'
  BY DEF MarkedFirst
<1>1. ASSUME NEW w \in Workers, Begin(w) \/ Step(w) \/ Cancel(w)
      PROVE  /\ \A v \in Workers : pc'[v] = "persist" /\ ~cancelled'[v] =>
                  <<qry'[v].series, qry'[v].provider>> \in watched'
             /\ StoredIsWatched'
  <2>1. faults = 0 /\ watched \subseteq watched'
    <3>1. watched \subseteq watched' /\ faults <= faults'
      BY <1>1, StoringStep
    <3>2. faults \in Nat
      BY DEF TypeOK, OutsideType
    <3> QED BY <3>1, <3>2
  <2>2. ASSUME NEW v \in Workers \ {w}, pc'[v] = "persist", ~cancelled'[v]
        PROVE  <<qry'[v].series, qry'[v].provider>> \in watched'
    <3>1. pc'[v] = pc[v] /\ cancelled'[v] = cancelled[v] /\ qry'[v] = qry[v]
      BY <1>1, OthersUntouched
    <3> QED BY <2>1, <2>2, <3>1 DEF MarkedFirst
  <2>3. ASSUME pc'[w] = "persist", ~cancelled'[w]
        PROVE  <<qry'[w].series, qry'[w].provider>> \in watched'
    BY <1>1, <2>1, <2>3, StoringStep DEF MarkedFirst
  <2>4. StoredIsWatched'
    <3>1. CASE UNCHANGED rows
      BY <2>1, <3>1 DEF MarkedFirst, StoredIsWatched
    <3>2. CASE pc[w] = "persist" /\ ~cancelled[w] /\ Upsert(w)
      <4>1. <<qry[w].series, qry[w].provider>> \in watched' /\ qry[w].provider \in Names \cup {None}
        BY <2>1, <3>2, HistoricalAssumption DEF MarkedFirst, TypeOK, WorkerType, QueryType
      <4>2. ASSUME NEW s \in Series, s # qry[w].series, NEW d \in Days PROVE rows'[s][d] = rows[s][d]
        BY <3>2, <4>2, UpsertWrites
      <4> QED BY <2>1, <4>1, <4>2 DEF MarkedFirst, StoredIsWatched
    <3> QED BY <1>1, <3>1, <3>2, StoringStep
  <2> QED BY <2>2, <2>3, <2>4
<1>2. CASE Tick \/ Publish \/ WatchSymbol \/ Quiescent \/ UNCHANGED vars
  <2>1. UNCHANGED <<pc, qry, cancelled, rows, faults>> /\ watched \subseteq watched'
    BY <1>2 DEF Tick, Publish, WatchSymbol, Quiescent, vars, worker, shared, request, database, outside, bounds
  <2> QED BY <2>1 DEF MarkedFirst, StoredIsWatched
<1>3. CASE Crash
  BY <1>3 DEF Crash, database, MarkedFirst, StoredIsWatched
<1> QED BY <1>1, <1>2, <1>3 DEF Next, Surroundings

\* As long as no database statement has failed on its own, a series with bars in the database
\* is watched, so that the feed refreshes it: MarkWatched comes first, and a context that is
\* done by then fails the batch as well.
THEOREM WatchedHolds == Spec => []WatchedUnlessFailed
<1>1. Init => MarkedFirst
  BY DEF Init, MarkedFirst, StoredIsWatched
<1>2. MarkedFirst => WatchedUnlessFailed
  BY DEF MarkedFirst, WatchedUnlessFailed
<1> QED BY <1>1, <1>2, MarkedNext, TypeCorrect, PTL DEF Spec
------------------------------------------------------------------------------
(* The counters. *)

InFlight(p) == {w \in Workers : prov[w] = p}

\* CountersAgree, and the calls in flight are finitely many, which needs no bound on the workers.
CountersOf(p) ==
  /\ IsFiniteSet(InFlight(p))
  /\ failures[p] <= failed[p]
  /\ failed[p] + Cardinality(InFlight(p)) <= requested[p]
  /\ failures[p] = 0 <=> lastFail[p] = 0
Counters == \A p \in Providers : CountersOf(p)

\* A worker that takes up or ends a call makes one call more or less in flight of its
\* provider, and none of any other.
LEMMA FlightCounts ==
  ASSUME TypeOK, NEW w \in Workers, NEW p \in Providers, IsFiniteSet(InFlight(p)),
         NEW x \in Providers \cup {None}, prov' = [prov EXCEPT ![w] = x]
  PROVE  /\ IsFiniteSet(InFlight(p)') /\ Cardinality(InFlight(p)) \in Nat
         /\ prov[w] = None =>
              Cardinality(InFlight(p)') = IF x = p THEN Cardinality(InFlight(p)) + 1
                                          ELSE Cardinality(InFlight(p))
         /\ x = None =>
              Cardinality(InFlight(p)') = IF prov[w] = p THEN Cardinality(InFlight(p)) - 1
                                          ELSE Cardinality(InFlight(p))
<1>1. prov \in [Workers -> Providers \cup {None}]
  BY DEF TypeOK, WorkerType
<1>2. InFlight(p)' = IF x = p THEN InFlight(p) \cup {w} ELSE InFlight(p) \ {w}
  BY <1>1 DEF InFlight
<1>3. w \in InFlight(p) <=> prov[w] = p
  BY DEF InFlight
<1>4. Cardinality(InFlight(p)) \in Nat
  BY FS_CardinalityType
<1> QED BY <1>2, <1>3, <1>4, NoneIsNoProvider, FS_AddElement, FS_RemoveElement

\* Steps aside from the breaker leave its counters alone too.
LEMMA AsideCounts ==
  ASSUME NEW w \in Workers, Aside(w) PROVE UNCHANGED <<failures, lastFail, requested, failed, prov>>
BY AsideUnchanged DEF Aside, Begin, CacheHit, CacheMiss, StoreHit, StoreMiss, Exhausted, UnknownProvider,
  SkipProvider, ProviderData, ProviderError, MarkWatched, UpsertPrices, TouchWatched, CacheSet,
  Cancel, shared, metrics

\* Counters is inductive, given the types and InStep: a counted request is first a call in
\* flight, then a success or a counted failure, and every failure has a time that is not zero.
LEMMA CountersNext == TypeOK /\ InStep /\ Counters /\ [Next]_vars => Counters'
<1> SUFFICES ASSUME TypeOK, InStep, Counters, [Next]_vars, NEW p \in Providers PROVE CountersOf(p)'
  BY DEF Counters
<1>t. /\ failures \in [Providers -> Nat] /\ lastFail \in [Providers -> Nat] /\ now \in Nat \ {0}
      /\ requested \in [Providers -> Nat] /\ failed \in [Providers -> Nat]
      /\ prov \in [Workers -> Providers \cup {None}] /\ CountersOf(p)
  BY DEF TypeOK, BreakerType, MetricsType, OutsideType, WorkerType, Counters
<1>1. ASSUME NEW w \in Workers, Admit(w) PROVE CountersOf(p)'
  <2>1. prov[w] = None
    BY <1>1 DEF Admit, Choosing, InStep, InStepOf, Calling
  <2>2. PICK x \in Providers :
          /\ prov' = [prov EXCEPT ![w] = x] /\ requested' = [requested EXCEPT ![x] = @ + 1]
          /\ UNCHANGED <<failures, lastFail, failed>>
    <3>1. Registry[Name(w)] \in Providers
      BY <1>1, NameType, HistoricalAssumption DEF Admit
    <3> QED BY <1>1, <3>1 DEF Admit, breaker
  <2>3. /\ IsFiniteSet(InFlight(p)') /\ Cardinality(InFlight(p)) \in Nat
        /\ Cardinality(InFlight(p)') = IF x = p THEN Cardinality(InFlight(p)) + 1
                                       ELSE Cardinality(InFlight(p))
    BY <1>t, <2>1, <2>2, FlightCounts DEF CountersOf
  <2>4. requested'[p] = IF x = p THEN requested[p] + 1 ELSE requested[p]
    BY <1>t, <2>2
  <2> QED BY <1>t, <2>2, <2>3, <2>4 DEF CountersOf
<1>2. ASSUME NEW w \in Workers, RecordFailure(w) PROVE CountersOf(p)'
  <2>1. prov[w] \in Providers
    BY <1>2, <1>t DEF RecordFailure, InStep, InStepOf, Calling
  <2>2. /\ prov' = [prov EXCEPT ![w] = None] /\ UNCHANGED requested
        /\ failures' = [failures EXCEPT ![prov[w]] = @ + 1]
        /\ failed' = [failed EXCEPT ![prov[w]] = @ + 1]
        /\ lastFail' = [lastFail EXCEPT ![prov[w]] = now]
    BY <1>2 DEF RecordFailure
  <2>3. /\ IsFiniteSet(InFlight(p)') /\ Cardinality(InFlight(p)) \in Nat
        /\ Cardinality(InFlight(p)') = IF prov[w] = p THEN Cardinality(InFlight(p)) - 1
                                       ELSE Cardinality(InFlight(p))
    BY <1>t, <2>2, FlightCounts DEF CountersOf
  <2>4. CASE prov[w] = p
    BY <1>t, <2>2, <2>3, <2>4 DEF CountersOf
  <2>5. CASE prov[w] # p
    <3>1. failures'[p] = failures[p] /\ failed'[p] = failed[p] /\ lastFail'[p] = lastFail[p]
      BY <1>t, <2>1, <2>2, <2>5
    <3> QED BY <1>t, <2>2, <2>3, <2>5, <3>1 DEF CountersOf
  <2> QED BY <2>4, <2>5
<1>3. ASSUME NEW w \in Workers, RecordSuccess(w) PROVE CountersOf(p)'
  <2>1. prov[w] \in Providers
    BY <1>3, <1>t DEF RecordSuccess, InStep, InStepOf, Calling
  <2>2. /\ prov' = [prov EXCEPT ![w] = None] /\ UNCHANGED <<requested, failed>>
        /\ failures' = [failures EXCEPT ![prov[w]] = 0]
        /\ lastFail' = [lastFail EXCEPT ![prov[w]] = 0]
    BY <1>3 DEF RecordSuccess, metrics
  <2>3. /\ IsFiniteSet(InFlight(p)') /\ Cardinality(InFlight(p)) \in Nat
        /\ Cardinality(InFlight(p)') = IF prov[w] = p THEN Cardinality(InFlight(p)) - 1
                                       ELSE Cardinality(InFlight(p))
    BY <1>t, <2>2, FlightCounts DEF CountersOf
  <2>4. CASE prov[w] = p
    BY <1>t, <2>2, <2>3, <2>4 DEF CountersOf
  <2>5. CASE prov[w] # p
    <3>1. failures'[p] = failures[p] /\ lastFail'[p] = lastFail[p]
      BY <1>t, <2>1, <2>2, <2>5
    <3> QED BY <1>t, <2>2, <2>3, <2>5, <3>1 DEF CountersOf
  <2> QED BY <2>4, <2>5
<1>4. ASSUME UNCHANGED <<failures, lastFail, requested, failed, prov>> PROVE CountersOf(p)'
  BY <1>t, <1>4 DEF CountersOf, InFlight
<1>5. ASSUME NEW w \in Workers, Respond(w) PROVE CountersOf(p)'
  BY <1>4, <1>5 DEF Respond, shared, breaker, metrics
<1>6. CASE Tick \/ Publish \/ WatchSymbol \/ Quiescent \/ UNCHANGED vars
  BY <1>4, <1>6 DEF Tick, Publish, WatchSymbol, Quiescent, vars, worker, attempt, shared, breaker, metrics
<1>7. CASE Crash
  <2>1. InFlight(p)' = {}
    BY <1>7, NoneIsNoProvider DEF Crash, InFlight
  <2>2. failures'[p] = 0 /\ lastFail'[p] = 0 /\ requested'[p] = 0 /\ failed'[p] = 0
    BY <1>7 DEF Crash
  <2> QED BY <2>1, <2>2, FS_EmptySet DEF CountersOf
<1>8. ASSUME NEW w \in Workers, Aside(w) PROVE CountersOf(p)'
  BY <1>4, <1>8, AsideCounts
<1> QED BY <1>1, <1>2, <1>3, <1>5, <1>6, <1>7, <1>8 DEF Next, Surroundings, Step, Aside

\* A streak is part of the failures counted, every counted failure and every call in flight is
\* a counted request, and a provider's last failure is set exactly while a streak is on.
THEOREM CountersHold == Spec => []CountersAgree
<1>1. ASSUME Init PROVE Counters
  <2>1. ASSUME NEW p \in Providers PROVE InFlight(p) = {}
    BY <1>1, NoneIsNoProvider DEF Init, InFlight
  <2>2. ASSUME NEW p \in Providers
        PROVE  failures[p] = 0 /\ lastFail[p] = 0 /\ requested[p] = 0 /\ failed[p] = 0
    BY <1>1 DEF Init
  <2> QED BY <2>1, <2>2, FS_EmptySet DEF Counters, CountersOf
<1>2. Counters => CountersAgree
  BY DEF Counters, CountersOf, CountersAgree, InFlight
<1> QED BY <1>1, <1>2, CountersNext, TypeCorrect, InStepHolds, PTL DEF Spec
==============================================================================
