------------------------------ MODULE PriceBars -------------------------------
(***************************************************************************)
(* One series of price bars on its way: what the upstream sources offer,   *)
(* what the adapters make of it, filterPrices, the rows of price_bars, and *)
(* what the database answers from them.  Upstream, bars come out and are   *)
(* revised; handlers fetch what the database does not have, the feed       *)
(* fetches the watched queries in turn, and a fetch may store after a      *)
(* newer one.                                                              *)
(***************************************************************************)
EXTENDS Integers, Sequences, SequencesExt, Selection

CONSTANTS
  Workers,      \* goroutines inside Service.Historical
  Feed,         \* one of them: the feed's
  Providers,    \* s.providers, the registered adapters
  Priority,     \* s.priority, a sequence of them
  LastDay,      \* days are 1..LastDay
  Slots,        \* bars of a day: 1 for a daily interval, more for an intraday one
  Queries,      \* what handlers ask
  WatchList,    \* the queries of watched_symbols, in the order of a pass
  None,         \* no provider, no row
  MaxUpdates,   \* bound: bars that come out or are revised
  MaxFaults     \* bound: provider calls and statements that fail

Days == 1..LastDay
Points == 1..(LastDay * Slots)   \* the bars of the series in their order
DayOf(x) == (x - 1) \div Slots + 1
Adapters == {"stooq", "yfinance", "openbb"}

\* 0 is the zero time: no bound.
QueryType == [provider : Providers \cup {None}, from : 0..LastDay, to : 0..LastDay]

ASSUME PriceBarsAssumption ==
  /\ Feed \in Workers
  /\ Providers \subseteq Adapters /\ Priority \in Seq(Providers)
  /\ LastDay \in Nat /\ Slots \in Nat \ {0}
  /\ Queries \subseteq QueryType
  /\ WatchList \in Seq(QueryType) /\ WatchList # <<>>
  /\ None \notin Adapters \cup (Int \X Int)
  /\ {MaxUpdates, MaxFaults} \subseteq Nat

VARIABLES
  offer,    \* per provider and point the version of the bar, 0 before it comes out
  table,    \* price_bars: the row of a provider and time
  latest,   \* per time the providers with a row, by updated_at, newest first
  pc,       \* where each worker stands
  qry,      \* its query
  left,     \* the providers it has not tried
  got,      \* the bars it is about to store, and the provider they are from
  turn,     \* the feed's place in the watch list
  updates, faults   \* counters of the bounds

database == <<table, latest>>
call     == <<pc, qry, left, got>>
vars     == <<offer, database, call, turn, updates, faults>>

\* A bar has a time, and stands for its prices by its point and version.
Bar(ts, x, version) == [ts |-> ts, value |-> <<x, version>>]
NoFetch == [by |-> None, bars |-> <<>>]
------------------------------------------------------------------------------
(* The adapters. *)

\* The bars provider p offers of some days, in order, each dated by its day.
OfDays(p, days) ==
  Selected([x \in Points |-> Bar(DayOf(x), x, offer[p][x])],
           {x \in Points : offer[p][x] > 0 /\ DayOf(x) \in days})

\* Stooq.Historical takes the whole file; it has no intraday intervals.
Stooq == IF Slots = 1 THEN OfDays("stooq", Days) ELSE <<>>

\* yfinance_fetch.py: "end" is exclusive upstream and one day is added to make up for it; a bar
\* is dated by its day, whatever its time.
EndAsAsked(to) == to        \* mutant: the end of the range is passed on as it is
EndExclusive(to) == to + 1
YFinance(q) ==
  OfDays("yfinance", {d \in Days : (q.from # 0 => d >= q.from)
                                   /\ (q.to # 0 => d < EndExclusive(q.to))})

\* OpenBB.Historical asks for start_date to end_date and skips bars that have a time of day.
OpenBB(q) ==
  IF Slots = 1
  THEN OfDays("openbb", {d \in Days : (q.from # 0 => d >= q.from) /\ (q.to # 0 => d <= q.to)})
  ELSE <<>>

Historical(p, q) ==
  IF p = "stooq" THEN Stooq ELSE IF p = "yfinance" THEN YFinance(q) ELSE OpenBB(q)

InRange(q, d) == (q.from # 0 => d >= q.from) /\ (q.to # 0 => d <= q.to)

filterPrices(q, bars) == Selected(bars, {i \in DOMAIN bars : InRange(q, bars[i].ts)})

\* What a call of provider p brings for query q.
Fetched(p, q) == filterPrices(q, Historical(p, q))
------------------------------------------------------------------------------
(* The database. *)

\* ON CONFLICT DO UPDATE: the values of an existing row become those of the excluded one.
DoNothing(row, excluded) == IF row = None THEN excluded ELSE row   \* mutant: DO NOTHING
OnConflict(row, excluded) == excluded

\* updated_at = now() makes the row the newest of its time.
KeepPlace(rows, p) ==   \* mutant: updated_at is not set on conflict
  IF Contains(rows, p) THEN rows ELSE <<p>> \o rows
Touch(rows, p) == <<p>> \o RemoveFirst(rows, p)

\* One INSERT after the other, in one transaction: of the bars with one time the last stays.
UpsertPrices(p, bars) ==
  LET times == {b.ts : b \in ToSet(bars)}
      LastAt(d) == bars[Max({i \in DOMAIN bars : bars[i].ts = d})].value IN
  /\ table' = [table EXCEPT ![p] =
                 [d \in Days |-> IF d \in times THEN OnConflict(@[d], LastAt(d)) ELSE @[d]]]
  /\ latest' = [d \in Days |-> IF d \in times THEN Touch(latest[d], p) ELSE latest[d]]

\* The row GetPrices takes of time d: the forced provider's, or the one updated last.
Preferred(q, d) ==
  IF q.provider # None THEN IF table[q.provider][d] = None THEN None ELSE q.provider
  ELSE IF latest[d] = <<>> THEN None ELSE latest[d][1]

GetPrices(q) ==
  Selected([d \in Days |-> [ts |-> d, value |-> table[Preferred(q, d)][d]]],
           {d \in Days : InRange(q, d) /\ Preferred(q, d) # None})
------------------------------------------------------------------------------
Init ==
  /\ offer = [p \in Providers |-> [x \in Points |-> IF DayOf(x) = 1 THEN 1 ELSE 0]]
  /\ table = [p \in Providers |-> [d \in Days |-> None]]
  /\ latest = [d \in Days |-> <<>>]
  /\ pc = [w \in Workers |-> "idle"]
  /\ qry = [w \in Workers |-> WatchList[1]]
  /\ left = [w \in Workers |-> <<>>]
  /\ got = [w \in Workers |-> NoFetch]
  /\ turn = 1
  /\ updates = 0 /\ faults = 0

\* A provider's call or a statement fails.
Fails == faults < MaxFaults /\ faults' = faults + 1

\* Upstream, the next bar of a provider comes out, or one that is out is revised.
Update(p) == \E x \in Points :
  /\ updates < MaxUpdates /\ updates' = updates + 1
  /\ \A y \in Points : DayOf(y) < DayOf(x) => offer[p][y] > 0
  /\ offer' = [offer EXCEPT ![p][x] = @ + 1]
  /\ UNCHANGED <<database, call, turn, faults>>

PriorityOf(q) == IF q.provider = None THEN Priority ELSE <<q.provider>>

Try(w, q) ==
  /\ pc[w] = "idle"
  /\ pc' = [pc EXCEPT ![w] = "call"]
  /\ qry' = [qry EXCEPT ![w] = q]
  /\ left' = [left EXCEPT ![w] = PriorityOf(q)]
  /\ UNCHANGED got

\* A handler's query that the database has no bar for, or fails to answer.
Ask(w) == \E q \in Queries :
  /\ w # Feed
  /\ Try(w, q)
  /\ IF GetPrices(q) = <<>> THEN UNCHANGED faults ELSE Fails
  /\ UNCHANGED <<offer, database, turn, updates>>

\* RefreshWatched: the next query of the watch list; the database is not asked.
Refresh ==
  /\ Try(Feed, WatchList[turn])
  /\ turn' = (turn % Len(WatchList)) + 1
  /\ UNCHANGED <<offer, database, updates, faults>>

Rest(w) ==
  /\ pc' = [pc EXCEPT ![w] = "idle"]
  /\ qry' = [qry EXCEPT ![w] = WatchList[1]]
  /\ left' = [left EXCEPT ![w] = <<>>]
  /\ got' = [got EXCEPT ![w] = NoFetch]

\* The provider next in line brings bars of the range.
Fetch(w) ==
  LET p == Head(left[w])  bars == Fetched(p, qry[w]) IN
  /\ pc[w] = "call" /\ left[w] # <<>>
  /\ bars # <<>>
  /\ got' = [got EXCEPT ![w] = [by |-> p, bars |-> bars]]
  /\ pc' = [pc EXCEPT ![w] = "store"]
  /\ UNCHANGED <<qry, left, offer, database, turn, updates, faults>>

\* It brings none, or fails: the next one is tried.
Pass(w) ==
  /\ pc[w] = "call" /\ left[w] # <<>>
  /\ IF Fetched(Head(left[w]), qry[w]) = <<>> THEN UNCHANGED faults ELSE Fails
  /\ left' = [left EXCEPT ![w] = Tail(@)]
  /\ UNCHANGED <<pc, qry, got, offer, database, turn, updates>>

GiveUp(w) ==
  /\ pc[w] = "call" /\ left[w] = <<>>
  /\ Rest(w)
  /\ UNCHANGED <<offer, database, turn, updates, faults>>

Store(w) ==
  /\ pc[w] = "store"
  /\ UpsertPrices(got[w].by, got[w].bars)
  /\ Rest(w)
  /\ UNCHANGED <<offer, turn, updates, faults>>

\* The transaction fails, or the process dies: the bars are lost, a later fetch brings them.
Lose(w) ==
  /\ pc[w] = "store"
  /\ Fails
  /\ Rest(w)
  /\ UNCHANGED <<offer, database, turn, updates>>

Next ==
  \/ Refresh
  \/ \E p \in Providers : Update(p)
  \/ \E w \in Workers : Ask(w) \/ Fetch(w) \/ Pass(w) \/ GiveUp(w) \/ Store(w) \/ Lose(w)

Spec == Init /\ [][Next]_vars

\* The feed comes to its next row (Feed!EveryRowTried, where a pass has the time), and a call
\* in progress goes on.
FairSpec ==
  /\ Spec
  /\ WF_vars(Refresh)
  /\ \A w \in Workers : WF_vars(Fetch(w) \/ Pass(w) \/ GiveUp(w) \/ Store(w) \/ Lose(w))
------------------------------------------------------------------------------
(* What must hold. *)

\* What query q asks of provider p: the bars of the days from "from" to "to", both included.
Asked(p, q) == OfDays(p, (IF q.from = 0 THEN 1 ELSE q.from)..(IF q.to = 0 THEN LastDay ELSE q.to))

\* README.md:13, inclusive from and to: whichever provider answers, and however it takes a
\* range, what is left after filterPrices are its bars of the range, the last day included.
InclusiveRange == \A q \in Queries : \A p \in Providers : Fetched(p, q) = Asked(p, q)

\* What a call has stored is what the database answers its query with at the times of its
\* bars, asked for the provider they are from: the WHERE clause lets through what filterPrices
\* did, a revised bar has replaced the older one, no bar has replaced another of the same
\* call, and the order is the same.
At(bars, times) == Selected(bars, {i \in DOMAIN bars : bars[i].ts \in times})
StoredReadsBack ==
  [][\A w \in Workers : Store(w) =>
       \E q \in {[qry[w] EXCEPT !.provider = got[w].by]} : \E bars \in {got[w].bars} :
         At(GetPrices(q), {b.ts : b \in ToSet(bars)})' = bars]_vars

\* Once the sources stop changing, the database comes to answer a watched query with what they
\* offer, for good: a forced one with all its provider's bars, one without a provider with
\* current bars for every day the first provider has, even if an older fetch stored last.
Current(q) ==
  IF q.provider # None THEN GetPrices(q) = Asked(q.provider, q)
  ELSE \A b \in ToSet(Asked(Priority[1], q)) :
         \E p \in Providers : Preferred(q, b.ts) = p /\ table[p][b.ts] \in
           {c.value : c \in ToSet(Asked(p, q))}
Converges == \A i \in DOMAIN WatchList : <>[]Current(WatchList[i])
==============================================================================
