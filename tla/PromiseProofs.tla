----------------------------- MODULE PromiseProofs -----------------------------
(***************************************************************************)
(* Proof that Historical keeps the promise of PriceService, for all values *)
(* of the constants: how a call ends first, then the refinement.           *)
(***************************************************************************)
EXTENDS HistoricalPromise, HistoricalProofs

Served == {"cache", "database", "provider"}
Delivered == {"fill", "mark", "persist", "touch", "save", "succeed"}

\* What a worker relies on for the end of its call: an error is of the kind its query
\* deserves, the provider it asked is the only one in its answer, and an answer that is not
\* an error has a bar.
EndsOf(w) ==
  /\ pc[w] = "idle" => idx[w] = 1
  /\ pc[w] \notin {"idle", "done"} => ErrorOf(qry[w]) # "rejected"
  /\ idx[w] > 1 => ErrorOf(qry[w]) = "failed"
  /\ prov[w] # None => \A d \in Days : ans[w].bars[d] \in {None, prov[w]}
  /\ pc[w] \in Delivered => ans[w].source \in Served /\ HasBars(ans[w].bars)
  /\ pc[w] = "done" => \/ ans[w].source \in Served /\ HasBars(ans[w].bars)
                       \/ ans[w] = Error(ErrorOf(qry[w]))
Ends == \A w \in Workers : EndsOf(w)

\* No cache entry is without bars.
Filled == \A k \in Keys : cache[k] # NoResult => HasBars(cache[k].bars)

\* The bars of the last row of a database read are there.
LEMMA LastHasBars == ASSUME NEW b, NEW d \in Days, IsLast(b, d) PROVE HasBars(b)
BY DEF IsLast, HasBars

\* The end of a call is as its worker relies on after the worker's own steps.
LEMMA EndsOwn ==
  ASSUME TypeOK, InStep, Ends, Filled, NEW w \in Workers, Begin(w) \/ Step(w) \/ Cancel(w)
  PROVE  EndsOf(w)'
<1> USE DEF TypeOK, WorkerType, Places, EndsOf, Delivered, Served, Goto, Return, request, attempt
<1>0. EndsOf(w) /\ InStepOf(w)
  BY DEF Ends, InStep
<1>a. ASSUME UNCHANGED qry PROVE ErrorOf(qry[w])' = ErrorOf(qry[w]) /\ PriorityOf(qry[w])' = PriorityOf(qry[w])
  BY <1>a
<1> HIDE DEF ErrorOf
<1>1. CASE Begin(w)
  <2>1. PICK q \in Queries : Begin(w)!(q)
    BY <1>1 DEF Begin
  <2>2. CASE q.valid /\ PriorityOf(q) # <<>>
    BY <1>0, <2>1, <2>2 DEF InStepOf, Unanswered, Calling, ErrorOf
  <2>3. CASE ~(q.valid /\ PriorityOf(q) # <<>>)
    BY <1>0, <2>1, <2>3 DEF InStepOf, Calling, ErrorOf
  <2> QED BY <2>2, <2>3
<1>2. CASE CacheHit(w)
  <2>1. Key(qry[w]) \in Keys /\ cache[Key(qry[w])] \in Result
    BY KeyType DEF CachingType
  <2>2. HasBars(cache[Key(qry[w])].bars)
    BY <1>2, <2>1 DEF CacheHit, Cached, Filled
  <2>3. ans'[w].bars = cache[Key(qry[w])].bars /\ ans'[w].source = "cache"
    BY <1>2, <2>1 DEF CacheHit, Result
  <2>4. pc'[w] = "done" /\ prov'[w] = None /\ UNCHANGED <<qry, idx>>
    BY <1>0, <1>2 DEF CacheHit, InStepOf, Calling
  <2> QED BY <1>0, <1>a, <2>2, <2>3, <2>4 DEF HasBars
<1>3. CASE CacheMiss(w)
  BY <1>0, <1>3 DEF CacheMiss
<1>4. CASE StoreHit(w)
  <2>1. ans'[w].source = "database" /\ HasBars(ans'[w].bars)
    BY <1>4, LastHasBars DEF StoreHit
  <2>2. pc'[w] \in {"fill", "done"} /\ prov'[w] = None /\ UNCHANGED <<qry, idx>> /\ pc[w] = "read"
    BY <1>0, <1>4 DEF StoreHit, InStepOf, Calling
  <2> QED BY <1>0, <1>a, <2>1, <2>2 DEF HasBars
<1>5. CASE StoreMiss(w)
  BY <1>0, <1>5 DEF StoreMiss
<1>6. CASE Exhausted(w)
  <2>1. PriorityOf(qry[w]) \in Seq(Names) /\ PriorityOf(qry[w]) # <<>>
    BY <1>0, <1>6, PriorityType DEF Exhausted, ErrorOf
  <2>2. ErrorOf(qry[w]) = "failed"
    BY <1>0, <1>6, <2>1 DEF Exhausted
  <2>3. ans'[w] = Error("failed") /\ pc'[w] = "done" /\ prov'[w] = None /\ UNCHANGED <<qry, idx>>
    BY <1>0, <1>6 DEF Exhausted, InStepOf, Calling
  <2> QED BY <1>0, <1>a, <2>2, <2>3
<1>7. CASE UnknownProvider(w)
  <2>1. PriorityOf(qry[w]) \in Seq(Names) /\ pc[w] = "choose" /\ ErrorOf(qry[w]) # "rejected"
        /\ idx[w] \in 1..Len(PriorityOf(qry[w])) /\ Registry[PriorityOf(qry[w])[idx[w]]] = None
    BY <1>0, <1>7, PriorityType DEF UnknownProvider, Choosing, Name
  <2>2. prov'[w] = None /\ UNCHANGED qry
    BY <1>0, <1>7, <2>1 DEF UnknownProvider, InStepOf, Calling
  <2>3. CASE Len(PriorityOf(qry[w])) = 1
    <3>1. idx[w] = 1 /\ ErrorOf(qry[w]) = "unknown"
      BY <2>1, <2>3 DEF ErrorOf
    <3>2. ans'[w] = Error("unknown") /\ pc'[w] = "done" /\ idx' = idx
      BY <1>7, <2>3 DEF UnknownProvider
    <3> QED BY <1>a, <2>2, <3>1, <3>2
  <2>4. CASE Len(PriorityOf(qry[w])) # 1
    <3>1. ErrorOf(qry[w]) = "failed"
      BY <2>1, <2>4 DEF ErrorOf
    <3>2. pc'[w] = "choose"
      BY <1>7, <2>4 DEF UnknownProvider, SkipName
    <3> QED BY <1>a, <2>2, <3>1, <3>2
  <2> QED BY <2>3, <2>4
<1>8. CASE SkipProvider(w)
  <2>1. PriorityOf(qry[w]) \in Seq(Names) /\ pc[w] = "choose" /\ ErrorOf(qry[w]) # "rejected"
        /\ idx[w] \in 1..Len(PriorityOf(qry[w])) /\ Registry[PriorityOf(qry[w])[idx[w]]] # None
    BY <1>0, <1>8, PriorityType DEF SkipProvider, Choosing, Name
  <2>2. prov'[w] = None /\ UNCHANGED qry /\ pc'[w] = "choose"
    BY <1>0, <1>8, <2>1 DEF SkipProvider, SkipName, InStepOf, Calling
  <2>3. ErrorOf(qry[w]) = "failed"
    BY <2>1 DEF ErrorOf
  <2> QED BY <1>a, <2>1, <2>2, <2>3
<1>9. CASE Admit(w)
  <2>1. pc[w] = "choose" /\ pc'[w] = "call" /\ UNCHANGED <<qry, idx, ans>>
    BY <1>9 DEF Admit, Choosing
  <2>2. \A d \in Days : ans[w].bars[d] = None
    BY <1>0, <2>1 DEF InStepOf, Unanswered, NoResult, NoBars
  <2> QED BY <1>0, <1>a, <2>1, <2>2
<1>10. CASE ProviderData(w)
  <2> DEFINE b == filterPrices([d \in Days |-> IF d \in published THEN prov[w] ELSE None],
                               qry[w].range)
  <2>1. pc[w] = "call" /\ UNCHANGED <<qry, idx, prov>>
    BY <1>10 DEF ProviderData
  <2>2. CASE Delivers(b)
    <3>1. \A d \in Days : b[d] \in {None, prov[w]}
      BY DEF filterPrices
    <3>2. HasBars(b)
      BY <2>2 DEF Delivers
    <3>3. ans'[w].bars = b /\ ans'[w].source = "provider"
          /\ pc'[w] \in {"mark", "save", "succeed"}
      BY <1>10, <2>2 DEF ProviderData, AfterFetch, AfterStore
    <3> HIDE DEF b
    <3> QED BY <1>0, <1>a, <2>1, <3>1, <3>2, <3>3 DEF HasBars
  <2>3. CASE ~Delivers(b)
    <3>1. pc'[w] = "fail" /\ ans' = ans
      BY <1>10, <2>3 DEF ProviderData
    <3> QED BY <1>0, <1>a, <2>1, <3>1
  <2> QED BY <2>2, <2>3
<1>11. CASE ProviderError(w)
  BY <1>0, <1>11 DEF ProviderError
<1>12. CASE RecordFailure(w)
  <2>1. pc[w] = "fail" /\ pc'[w] = "choose" /\ prov'[w] = None /\ UNCHANGED <<qry, ans>>
    BY <1>12 DEF RecordFailure, SkipName
  <2>2. prov[w] # None /\ idx[w] \in DOMAIN PriorityOf(qry[w]) /\ prov[w] = Registry[Name(w)]
    BY <1>0, <2>1 DEF InStepOf, Calling
  <2>3. PriorityOf(qry[w]) \in Seq(Names)
    BY PriorityType
  <2>4. ErrorOf(qry[w]) = "failed"
    BY <1>0, <2>1, <2>2, <2>3 DEF ErrorOf, Name
  <2> QED BY <1>a, <2>1, <2>4
<1>13. CASE MarkWatched(w)
  BY <1>0, <1>13 DEF MarkWatched
<1>14. CASE UpsertPrices(w)
  BY <1>0, <1>14 DEF UpsertPrices, AfterStore
<1>15. CASE TouchWatched(w)
  <2>1. pc[w] = "touch" /\ pc'[w] \in {"save", "succeed"} /\ UNCHANGED <<qry, idx, prov>>
    BY <1>15 DEF TouchWatched, AfterStore
  <2>2. ans'[w].bars = ans[w].bars /\ ans'[w].source = ans[w].source
    BY <1>15 DEF TouchWatched, Result
  <2> QED BY <1>0, <1>a, <2>1, <2>2 DEF HasBars
<1>16. CASE CacheSet(w)
  BY <1>0, <1>16 DEF CacheSet, HasBars
<1>17. CASE RecordSuccess(w)
  BY <1>0, <1>17 DEF RecordSuccess, HasBars
<1>18. CASE Respond(w)
  BY <1>0, <1>18 DEF Respond, InStepOf, Calling
<1>19. CASE Cancel(w)
  BY <1>0, <1>19 DEF Cancel, HasBars
<1> QED BY <1>1, <1>2, <1>3, <1>4, <1>5, <1>6, <1>7, <1>8, <1>9, <1>10, <1>11, <1>12, <1>13, <1>14, <1>15, <1>16, <1>17, <1>18, <1>19 DEF Step

\* Ends is inductive, given the types, InStep and that no cache entry is empty.
LEMMA EndsNext ==
  ASSUME TypeOK, InStep, Ends, Filled, [Next]_vars PROVE Ends'
<1>1. ASSUME NEW w \in Workers, Begin(w) \/ Step(w) \/ Cancel(w) PROVE Ends'
  <2>1. ASSUME NEW v \in Workers \ {w} PROVE EndsOf(v)'
    <3>1. /\ pc'[v] = pc[v] /\ qry'[v] = qry[v] /\ idx'[v] = idx[v]
          /\ prov'[v] = prov[v] /\ ans'[v] = ans[v]
      BY <1>1, OthersUntouched
    <3> QED BY <3>1 DEF Ends, EndsOf, HasBars
  <2> QED BY <1>1, <2>1, EndsOwn DEF Ends
<1>2. CASE Tick \/ Publish \/ WatchSymbol \/ Quiescent \/ UNCHANGED vars
  <2>1. UNCHANGED <<pc, qry, idx, prov, ans>>
    BY <1>2 DEF Tick, Publish, WatchSymbol, Quiescent, vars, worker, request, attempt
  <2> QED BY <2>1 DEF Ends, EndsOf, HasBars
<1>3. CASE Crash
  BY <1>3 DEF Crash, Ends, EndsOf, Delivered
<1> QED BY <1>1, <1>2, <1>3 DEF Next, Surroundings

\* A cache entry has bars because the answer it was made from had.
LEMMA FilledNext ==
  ASSUME TypeOK, Ends, Filled, [Next]_vars PROVE Filled'
<1> SUFFICES ASSUME NEW k \in Keys, cache'[k] # NoResult PROVE HasBars(cache'[k].bars)
  BY DEF Filled, HasBars
<1>1. CASE cache'[k] = cache[k]
  BY <1>1 DEF Filled
<1>2. ASSUME NEW w \in Workers, cache'[k] = ans[w], pc[w] \in {"fill", "save"}
      PROVE  HasBars(cache'[k].bars)
  BY <1>2 DEF Ends, EndsOf, Delivered
<1> QED BY <1>1, <1>2, CacheFrom

\* The end of every call, and every cache entry, is as the workers rely on.
THEOREM EndsHolds == Spec => [](Ends /\ Filled)
<1>1. Init => Ends /\ Filled
  BY NoneIsNoProvider DEF Init, Ends, EndsOf, Filled, Delivered, Keys
<1>2. TypeOK /\ InStep /\ (Ends /\ Filled) /\ [Next]_vars => (Ends /\ Filled)'
  BY EndsNext, FilledNext
<1> QED BY <1>1, <1>2, TypeCorrect, InStepHolds, PTL DEF Spec

\* A call that ends without an error has a bar: filterPrices may empty a provider's answer,
\* the row GetPrices reads last is one, and what is cached was an answer before.
THEOREM ServedHolds == Spec => []ServedNotEmpty
<1>1. ASSUME Ends PROVE ServedNotEmpty
  <2>1. ASSUME NEW w \in Workers PROVE Error(ErrorOf(qry[w])).source = ErrorOf(qry[w])
    BY DEF Error, NoResult
  <2>2. ASSUME NEW w \in Workers PROVE ErrorOf(qry[w]) \in {"rejected", "unknown", "failed"}
    BY DEF ErrorOf
  <2> QED BY <1>1, <2>1, <2>2 DEF Ends, EndsOf, ServedNotEmpty
<1> QED BY <1>1, EndsHolds, PTL
------------------------------------------------------------------------------
(* The refinement. *)

\* Of a call that has ended, the answer is one that PriceService allows.
Sound ==
  \A w \in Workers : pc[w] = "done" =>
    AnswerOf(w) \in Answer /\ AnswerOf(w) \in {Promise!Refusal(qry[w])} \cup Promise!Success(qry[w])

\* An error is told without bars.
LEMMA ErrorTold ==
  ASSUME NEW w \in Workers, ans[w] = Error(ErrorOf(qry[w]))
  PROVE  AnswerOf(w) = Promise!Refusal(qry[w]) /\ AnswerOf(w) \in Answer
<1>1. ErrorOf(qry[w]) \in {"rejected", "unknown", "failed"}
  BY DEF ErrorOf
<1>2. /\ ans[w].source = ErrorOf(qry[w]) /\ ans[w].persisted = FALSE
      /\ \A d \in Days : ans[w].bars[d] = None
  BY DEF Error, NoResult, NoBars
<1>3. {b \in Bars : b[1] = qry[w].series /\ b[3] = ans[w].bars[b[2]]} = {}
  BY <1>2, NoneIsNoProvider DEF Bars
<1> QED BY <1>1, <1>2, <1>3 DEF AnswerOf, Promise!Refusal, Answer

\* An answer that is not an error has bars, of the query's days and provider, and they are
\* kept when it says so.
LEMMA BarsTold ==
  ASSUME TypeOK, AnswersFit, PersistedIsDurable, NEW w \in Workers,
         ans[w].source \in Served, HasBars(ans[w].bars)
  PROVE  AnswerOf(w) \in Promise!Success(qry[w]) /\ AnswerOf(w) \in Answer
<1> DEFINE q == qry[w]
           B == {b \in Bars : b[1] = q.series /\ b[3] = ans[w].bars[b[2]]}
<1>1. q.series \in Series /\ ans[w].bars \in [Days -> Providers \cup {None}] /\ ans[w].persisted \in BOOLEAN
  BY HistoricalAssumption DEF TypeOK, WorkerType, QueryType, Result
<1>2. AnswerOf(w) = [error |-> "none", bars |-> B, persisted |-> ans[w].persisted]
  BY DEF AnswerOf, Served
<1>3. B # {}
  <2>1. PICK d \in Days : ans[w].bars[d] # None
    BY DEF HasBars
  <2>2. <<q.series, d, ans[w].bars[d]>> \in B
    BY <1>1, <2>1 DEF Bars
  <2> QED BY <2>2
<1>4. ASSUME NEW b \in B
      PROVE  b \in Wanted(q) /\ (ans[w].persisted => b \in kept)
  <2>1. b \in Bars /\ b[1] = q.series /\ b[2] \in Days /\ b[3] \in Providers /\ b[3] = ans[w].bars[b[2]]
    BY DEF Bars
  <2>2. ans[w].bars[b[2]] # None
    BY <2>1, NoneIsNoProvider
  <2>3. b[2] \in q.range /\ (q.provider # None => b[3] = Registry[q.provider])
    BY <2>1, <2>2 DEF AnswersFit, Fits
  <2>4. ans[w].persisted => b[3] \in rows[b[1]][b[2]]
    BY <2>1, <2>2 DEF PersistedIsDurable, Durable
  <2> QED BY <2>1, <2>3, <2>4 DEF Wanted, OfQuery, kept
<1>5. B \in SUBSET Bars
  OBVIOUS
<1> HIDE DEF B
<1>6. AnswerOf(w) \in Answer
  BY <1>1, <1>2, <1>5 DEF Answer
<1>7. B \in (SUBSET Wanted(q)) \ {{}} /\ (ans[w].persisted => B \subseteq kept)
  BY <1>3, <1>4
<1>8. AnswerOf(w) \in Promise!Success(q)
  BY <1>1, <1>2, <1>7 DEF Promise!Success
<1> QED BY <1>6, <1>8

\* So every answer told is one that PriceService allows.
LEMMA ToldSound == TypeOK /\ AnswersFit /\ PersistedIsDurable /\ Ends => Sound
<1> SUFFICES ASSUME TypeOK, AnswersFit, PersistedIsDurable, Ends, NEW w \in Workers, pc[w] = "done"
             PROVE  AnswerOf(w) \in Answer
                    /\ AnswerOf(w) \in {Promise!Refusal(qry[w])} \cup Promise!Success(qry[w])
  BY DEF Sound
<1> QED BY ErrorTold, BarsTold DEF Ends, EndsOf

\* Every call that Historical ends has an answer that PriceService allows.
THEOREM SoundHolds == Spec => []Sound
BY ToldSound, TypeCorrect, AnswersFitHolds, PersistedHolds, EndsHolds, PTL

\* A step of one worker changes the call and the answer of no other client.
LEMMA OnlyOwnCall ==
  ASSUME TypeOK, NEW w \in Workers, Begin(w) \/ Step(w) \/ Cancel(w)
  PROVE  /\ asked' = [asked EXCEPT ![w] = IF pc'[w] = "idle" THEN None ELSE qry'[w]]
         /\ told' = [told EXCEPT ![w] = IF pc'[w] = "done" THEN AnswerOf(w)' ELSE None]
<1>1. ASSUME NEW v \in Workers \ {w}
      PROVE  asked'[v] = asked[v] /\ told'[v] = told[v]
  <2>1. pc'[v] = pc[v] /\ qry'[v] = qry[v] /\ ans'[v] = ans[v]
    BY OthersUntouched
  <2> QED BY <2>1 DEF asked, told, AnswerOf
<1>2. asked'[w] = (IF pc'[w] = "idle" THEN None ELSE qry'[w])
      /\ told'[w] = (IF pc'[w] = "done" THEN AnswerOf(w)' ELSE None)
  BY DEF asked, told
<1>3. asked = [v \in Workers |-> asked[v]] /\ asked' = [v \in Workers |-> asked'[v]]
      /\ told = [v \in Workers |-> told[v]] /\ told' = [v \in Workers |-> told'[v]]
  BY DEF asked, told
<1> QED BY <1>1, <1>2, <1>3

\* While a worker is under way, its call is in progress.
LEMMA UnderWay ==
  ASSUME TypeOK, NEW w \in Workers, pc[w] \notin {"idle", "done"}
  PROVE  Promise!InProgress(w) /\ asked[w] = qry[w]
BY PromiseAssumption DEF TypeOK, WorkerType, Promise!InProgress, asked, told

\* What the steps of a worker are to its caller: a call begins, goes on, ends or is left.
LEMMA StepKinds ==
  ASSUME TypeOK, InStep, NEW w \in Workers, Begin(w) \/ Step(w) \/ Cancel(w)
  PROVE  \/ Begin(w)
         \/ /\ pc[w] \notin {"idle", "done"} /\ pc'[w] # "idle" /\ UNCHANGED <<qry, rows>>
         \/ /\ pc[w] = "persist" /\ pc'[w] \notin {"idle", "done"} /\ UNCHANGED <<qry, ans>>
            /\ Upsert(w)
         \/ Respond(w)
<1> USE DEF TypeOK, WorkerType, Goto, Return, SkipName, request, attempt, shared, database
<1>1. CASE CacheHit(w) BY <1>1 DEF CacheHit
<1>2. CASE CacheMiss(w) BY <1>2 DEF CacheMiss
<1>3. CASE StoreHit(w) BY <1>3 DEF StoreHit
<1>4. CASE StoreMiss(w) BY <1>4 DEF StoreMiss
<1>5. CASE Exhausted(w) BY <1>5 DEF Exhausted
<1>6. CASE UnknownProvider(w) BY <1>6 DEF UnknownProvider, Choosing
<1>7. CASE SkipProvider(w) BY <1>7 DEF SkipProvider, Choosing
<1>8. CASE Admit(w) BY <1>8 DEF Admit, Choosing
<1>9. CASE ProviderData(w) BY <1>9 DEF ProviderData, AfterFetch, AfterStore
<1>10. CASE ProviderError(w) BY <1>10 DEF ProviderError
<1>11. CASE RecordFailure(w) BY <1>11 DEF RecordFailure
<1>12. CASE MarkWatched(w) BY <1>12 DEF MarkWatched
<1>13. CASE UpsertPrices(w) BY <1>13 DEF UpsertPrices, AfterStore
<1>14. CASE TouchWatched(w) BY <1>14 DEF TouchWatched, AfterStore
<1>15. CASE CacheSet(w) BY <1>15 DEF CacheSet
<1>16. CASE RecordSuccess(w) BY <1>16 DEF RecordSuccess
<1>17. CASE Cancel(w) BY <1>17 DEF Cancel
<1> QED BY <1>1, <1>2, <1>3, <1>4, <1>5, <1>6, <1>7, <1>8, <1>9, <1>10, <1>11, <1>12, <1>13, <1>14, <1>15, <1>16, <1>17 DEF Step

\* Begin is Ask: an invalid query is rejected on the spot, any other call is in progress.
LEMMA BeginAsks ==
  ASSUME TypeOK, InStep, Ends, NEW w \in Workers, Begin(w), Sound'
  PROVE  Promise!Ask(w)
<1>1. PICK q \in Queries : Begin(w)!(q)
  BY DEF Begin
<1>2. pc[w] = "idle" /\ qry' = [qry EXCEPT ![w] = q] /\ UNCHANGED rows
  BY <1>1 DEF shared, database
<1>3. qry'[w] = q /\ asked[w] = None /\ told[w] = None
  BY <1>2 DEF TypeOK, WorkerType, asked, told
<1>4. ErrorOf(q) = "rejected" <=> ~(q.valid /\ PriorityOf(q) # <<>>)
  BY DEF ErrorOf
<1>5. kept' = kept
  BY <1>2 DEF kept
<1>6. CASE q.valid /\ PriorityOf(q) # <<>>
  <2>1. pc'[w] = "lookup"
    BY <1>1, <1>6 DEF Goto, TypeOK, WorkerType
  <2>2. told' = told
    BY <1>3, <2>1, OnlyOwnCall DEF told
  <2>3. asked' = [asked EXCEPT ![w] = q]
    BY <1>3, <2>1, OnlyOwnCall
  <2> QED BY <1>3, <1>4, <1>5, <1>6, <2>2, <2>3 DEF Promise!Ask
<1>7. CASE ~(q.valid /\ PriorityOf(q) # <<>>)
  <2>1. pc'[w] = "done" /\ ans'[w] = Error("rejected")
    BY <1>1, <1>7 DEF Return, Goto, TypeOK, WorkerType
  <2>2. AnswerOf(w)' = Promise!Refusal(q)
    <3>1. ans'[w].source = "rejected" /\ ans'[w].persisted = FALSE
          /\ \A d \in Days : ans'[w].bars[d] = None
      BY <2>1 DEF Error, NoResult, NoBars
    <3>2. {b \in Bars : b[1] = qry'[w].series /\ b[3] = ans'[w].bars[b[2]]} = {}
      BY <3>1, NoneIsNoProvider DEF Bars
    <3> QED BY <1>4, <1>7, <3>1, <3>2 DEF AnswerOf, Promise!Refusal
  <2>3. asked' = [asked EXCEPT ![w] = q] /\ told' = [told EXCEPT ![w] = Promise!Refusal(q)]
    BY <1>3, <2>1, <2>2, OnlyOwnCall
  <2> QED BY <1>3, <1>4, <1>5, <1>7, <2>3 DEF Promise!Ask
<1> QED BY <1>6, <1>7

\* A step in which a call goes on changes nothing of what PriceService speaks of; one in
\* which it ends is Tell.
LEMMA GoesOnOrEnds ==
  ASSUME TypeOK, NEW w \in Workers, Begin(w) \/ Step(w) \/ Cancel(w), Sound',
         pc[w] \notin {"idle", "done"}, pc'[w] # "idle", UNCHANGED <<qry, rows>>
  PROVE  Promise!Tell(w) \/ UNCHANGED Promise!vars
<1>1. kept' = kept
  BY DEF kept
<1>2. asked[w] = qry[w] /\ told[w] = None /\ Promise!InProgress(w)
  BY UnderWay DEF told
<1>3. asked' = asked
  BY <1>2, OnlyOwnCall DEF asked
<1>4. CASE pc'[w] # "done"
  <2>1. told' = told
    BY <1>2, <1>4, OnlyOwnCall DEF told
  <2> QED BY <1>1, <1>3, <2>1 DEF Promise!vars
<1>5. CASE pc'[w] = "done"
  <2>1. AnswerOf(w)' \in {Promise!Refusal(qry[w])} \cup Promise!Success(qry[w])
    BY <1>1, <1>5 DEF Sound, Promise!Refusal, Promise!Success
  <2>2. told' = [told EXCEPT ![w] = AnswerOf(w)']
    BY <1>5, OnlyOwnCall
  <2> QED BY <1>1, <1>2, <1>3, <2>1, <2>2 DEF Promise!Tell
<1> QED BY <1>4, <1>5

\* A batch of inserts that takes effect is Keep: what it adds is the worker's answer, whose
\* bars are of a provider on the priority list.
LEMMA UpsertKeeps ==
  ASSUME TypeOK, InStep, Ends, AnswersFit, NEW w \in Workers, Begin(w) \/ Step(w) \/ Cancel(w),
         pc[w] = "persist", pc'[w] \notin {"idle", "done"}, UNCHANGED <<qry, ans>>, Upsert(w)
  PROVE  Promise!Keep(w)
<1> DEFINE q == qry[w]
           B == {b \in Bars : b[1] = q.series /\ b[3] = ans[w].bars[b[2]]}
<1>1. asked[w] = q /\ told[w] = None /\ Promise!InProgress(w)
  BY UnderWay DEF told
<1>2. asked' = asked /\ told' = told
  BY <1>1, OnlyOwnCall DEF asked, told
<1>3. prov[w] # None /\ idx[w] \in DOMAIN PriorityOf(q) /\ prov[w] = Registry[PriorityOf(q)[idx[w]]]
  BY DEF InStep, InStepOf, Calling, Name
<1>4. ASSUME NEW b \in B PROVE b \in Fetchable(q)
  <2>1. b \in Bars /\ b[1] = q.series /\ b[2] \in Days /\ b[3] \in Providers /\ b[3] = ans[w].bars[b[2]]
    BY DEF Bars
  <2>2. b[3] = prov[w] /\ b[2] \in q.range
    BY <1>3, <2>1, NoneIsNoProvider DEF Ends, EndsOf, AnswersFit, Fits
  <2> QED BY <1>3, <2>1, <2>2 DEF Fetchable, OfQuery
<1>5. kept' = kept \cup B
  <2>1. ASSUME NEW b \in Bars PROVE b[3] \in rows'[b[1]][b[2]] <=> b[3] \in rows[b[1]][b[2]] \/ b \in B
    <3>1. b[1] \in Series /\ b[2] \in Days /\ b[3] \in Providers
      BY DEF Bars
    <3> QED BY <3>1, UpsertWrites, NoneIsNoProvider
  <2> QED BY <2>1 DEF kept
<1> HIDE DEF B
<1> QED BY <1>1, <1>2, <1>4, <1>5 DEF Promise!Keep

\* Respond is Leave.
LEMMA RespondLeaves ==
  ASSUME TypeOK, Sound, NEW w \in Workers, Respond(w)
  PROVE  Promise!Leave(w)
<1>1. pc[w] = "done" /\ pc'[w] = "idle" /\ UNCHANGED rows
  BY DEF Respond, Goto, TypeOK, WorkerType, shared, database
<1>2. told[w] # None
  BY <1>1, PromiseAssumption DEF told, Sound
<1>3. Step(w)
  BY DEF Step
<1>4. asked' = [asked EXCEPT ![w] = None] /\ told' = [told EXCEPT ![w] = None] /\ kept' = kept
  BY <1>1, <1>3, OnlyOwnCall DEF kept
<1> QED BY <1>2, <1>4 DEF Promise!Leave

\* Every step of Historical is one of PriceService, or none.
LEMMA StepKeepsPromise ==
  TypeOK /\ InStep /\ Ends /\ AnswersFit /\ Sound /\ Sound' /\ [Next]_vars
    => [Promise!Next]_(Promise!vars)
<1> SUFFICES ASSUME TypeOK, InStep, Ends, AnswersFit, Sound, Sound', [Next]_vars
             PROVE  Promise!Next \/ UNCHANGED Promise!vars
  OBVIOUS
<1>1. ASSUME NEW w \in Workers, Begin(w) \/ Step(w) \/ Cancel(w)
      PROVE  Promise!Next \/ UNCHANGED Promise!vars
  <2>1. CASE Begin(w)
    BY <2>1, BeginAsks DEF Promise!Next
  <2>2. CASE /\ pc[w] \notin {"idle", "done"} /\ pc'[w] # "idle" /\ UNCHANGED <<qry, rows>>
    BY <1>1, <2>2, GoesOnOrEnds DEF Promise!Next
  <2>3. CASE /\ pc[w] = "persist" /\ pc'[w] \notin {"idle", "done"} /\ UNCHANGED <<qry, ans>>
             /\ Upsert(w)
    BY <1>1, <2>3, UpsertKeeps DEF Promise!Next
  <2>4. CASE Respond(w)
    BY <2>4, RespondLeaves DEF Promise!Next
  <2> QED BY <1>1, <2>1, <2>2, <2>3, <2>4, StepKinds
<1>2. CASE Tick \/ Publish \/ WatchSymbol \/ Quiescent \/ UNCHANGED vars
  <2>1. UNCHANGED <<pc, qry, ans, rows>>
    BY <1>2 DEF Tick, Publish, WatchSymbol, Quiescent, vars, worker, shared, request, database
  <2> QED BY <2>1 DEF Promise!vars, asked, told, kept, AnswerOf
<1>3. CASE Crash
  BY <1>3 DEF Crash, database, asked, told, kept, Promise!Next, Promise!Restart
<1> QED BY <1>1, <1>2, <1>3 DEF Next, Surroundings

\* Historical implements PriceService: whatever goroutines interleave, statements fail,
\* contexts end and processes crash, a caller is told one sound answer, an error only of the
\* kind its query deserves, nothing is said to be persisted that is not, and no bar is lost.
THEOREM PromiseKept == Spec => KeepsPromise
<1>1. Init => Promise!Init
  BY DEF Init, Promise!Init, asked, told, kept, Bars
<1> QED BY <1>1, StepKeepsPromise, TypeCorrect, InStepHolds, EndsHolds, AnswersFitHolds, SoundHolds, PTL
        DEF Spec, KeepsPromise, Promise!Spec
==============================================================================
