------------------------------ MODULE BarsProofs ------------------------------
(***************************************************************************)
(* A range means the same days whoever serves it, and what is stored reads *)
(* back, for daily bars of any number of days, any offer of the sources    *)
(* and any interleaving of fetches and stores.                             *)
(***************************************************************************)
EXTENDS PriceBars, SelectionProofs, SequenceTheorems

\* There are finitely many bars and days, and a bar is of one of the days.
LEMMA PointsFinite ==
  /\ Points \subseteq Int /\ IsFiniteSet(Points)
  /\ Days \subseteq Int /\ IsFiniteSet(Days)
<1>1. LastDay \in Nat /\ Slots \in Nat /\ LastDay * Slots \in Int
  BY PriceBarsAssumption
<1> QED BY <1>1, FS_Interval DEF Points, Days

\* The day of a daily bar is its position.
LEMMA DailyDay == ASSUME Slots = 1 PROVE \A x \in Points : DayOf(x) = x /\ x \in Days
BY PriceBarsAssumption DEF DayOf, Points, Days

\* filterPrices cuts days to days.
LEMMA CutDays ==
  ASSUME NEW p, NEW D, NEW q
  PROVE  filterPrices(q, OfDays(p, D)) = OfDays(p, {d \in D : InRange(q, d)})
<1> DEFINE s == [x \in Points |-> Bar(DayOf(x), x, offer[p][x])]
           I == {x \in Points : offer[p][x] > 0 /\ DayOf(x) \in D}
           J == {x \in Points : offer[p][x] > 0 /\ DayOf(x) \in {d \in D : InRange(q, d)}}
           bars == Selected(s, I)
           K == {k \in 1..Cardinality(I) : Nth(I, k) \in J}
<1>1. IsFiniteSet(I) /\ I \subseteq Int /\ I \subseteq Points /\ J \subseteq I
  BY PointsFinite, FS_Subset
<1>2. \A x \in I : x \in J <=> InRange(q, DayOf(x))
  OBVIOUS
<1>3. \A x \in Points : s[x].ts = DayOf(x)
  BY DEF Bar
<1> HIDE DEF s, I, J
<1>4. DOMAIN bars = 1..Cardinality(I) /\ \A i \in DOMAIN bars : bars[i] = s[Nth(I, i)]
  BY DEF Selected
<1>5. \A i \in 1..Cardinality(I) : Nth(I, i) \in I
  BY <1>1, NthOf
<1>6. {i \in DOMAIN bars : InRange(q, bars[i].ts)} = K
  <2>1. ASSUME NEW i \in 1..Cardinality(I) PROVE InRange(q, bars[i].ts) <=> Nth(I, i) \in J
    BY <1>1, <1>2, <1>3, <1>4, <1>5
  <2> QED BY <1>4, <2>1
<1>7. Selected(bars, K) = Selected(s, J)
  <2>1. PlacesOf(I, J, K)
    BY <1>1 DEF PlacesOf
  <2> HIDE DEF K
  <2> QED BY <2>1, SelectedTwice
<1>8. OfDays(p, D) = bars /\ OfDays(p, {d \in D : InRange(q, d)}) = Selected(s, J)
  BY DEF OfDays, s, I, J
<1> HIDE DEF bars, K
<1> QED BY <1>6, <1>7, <1>8 DEF filterPrices

\* What a provider offers of two sets of days is the same if they agree on the days there are.
LEMMA SameDays ==
  ASSUME Slots = 1, NEW p, NEW D, NEW E, \A d \in Days : d \in D <=> d \in E
  PROVE  OfDays(p, D) = OfDays(p, E)
<1>1. {x \in Points : offer[p][x] > 0 /\ DayOf(x) \in D} =
        {x \in Points : offer[p][x] > 0 /\ DayOf(x) \in E}
  BY DailyDay
<1> QED BY <1>1 DEF OfDays

\* The days of a query's range.
RangeOf(q) == (IF q.from = 0 THEN 1 ELSE q.from)..(IF q.to = 0 THEN LastDay ELSE q.to)
LEMMA RangeDays == ASSUME NEW q \in QueryType PROVE \A d \in Days : d \in RangeOf(q) <=> InRange(q, d)
<1>1. q.from \in 0..LastDay /\ q.to \in 0..LastDay /\ LastDay \in Nat
  BY PriceBarsAssumption DEF QueryType
<1> QED BY <1>1 DEF RangeOf, InRange, Days

\* Whichever way an adapter takes a range, after filterPrices its bars are those of the range.
LEMMA RangeIsRange ==
  ASSUME Slots = 1, NEW q \in QueryType, NEW p \in Providers
  PROVE  Fetched(p, q) = Asked(p, q)
<1>1. /\ q.from \in 0..LastDay /\ q.to \in 0..LastDay /\ LastDay \in Nat
      /\ p \in {"stooq", "yfinance", "openbb"}
  BY PriceBarsAssumption DEF QueryType, Adapters
<1>2. \A d \in Days : d \in RangeOf(q) <=> InRange(q, d)
  BY RangeDays
<1>3. ASSUME NEW D, Historical(p, q) = OfDays(p, D), \A d \in Days : InRange(q, d) => d \in D
      PROVE  Fetched(p, q) = OfDays(p, RangeOf(q))
  <2>1. Fetched(p, q) = OfDays(p, {d \in D : InRange(q, d)})
    BY <1>3, CutDays DEF Fetched
  <2>2. \A d \in Days : d \in {e \in D : InRange(q, e)} <=> d \in RangeOf(q)
    BY <1>2, <1>3
  <2> QED BY <2>1, <2>2, SameDays
<1>4. CASE p = "stooq"
  <2>1. Historical(p, q) = OfDays(p, Days)
    BY <1>4 DEF Historical, Stooq
  <2> QED BY <1>3, <2>1 DEF Asked, RangeOf
<1>5. CASE p = "yfinance"
  <2> DEFINE D == {d \in Days : (q.from # 0 => d >= q.from)
                                /\ (q.to # 0 => d < EndExclusive(q.to))}
  <2>1. Historical(p, q) = OfDays(p, D)
    BY <1>5 DEF Historical, YFinance
  <2>2. \A d \in Days : InRange(q, d) => d \in D
    BY <1>1 DEF InRange, EndExclusive, Days
  <2> HIDE DEF D
  <2> QED BY <1>3, <2>1, <2>2 DEF Asked, RangeOf
<1>6. CASE p = "openbb"
  <2> DEFINE D == {d \in Days : (q.from # 0 => d >= q.from) /\ (q.to # 0 => d <= q.to)}
  <2>1. Historical(p, q) = OfDays(p, D)
    BY <1>6 DEF Historical, OpenBB
  <2>2. \A d \in Days : InRange(q, d) => d \in D
    BY DEF InRange
  <2> HIDE DEF D
  <2> QED BY <1>3, <2>1, <2>2 DEF Asked, RangeOf
<1> QED BY <1>1, <1>4, <1>5, <1>6

\* README.md:13, inclusive from and to, of daily bars: no adapter loses or adds a day of a range,
\* whatever its bounds and whatever the source has.
THEOREM InclusiveHolds == Slots = 1 => (Spec => []InclusiveRange)
<1> SUFFICES ASSUME Slots = 1 PROVE Spec => []InclusiveRange
  OBVIOUS
<1>1. InclusiveRange
  BY RangeIsRange, PriceBarsAssumption DEF InclusiveRange
<1> QED BY <1>1, PTL
------------------------------------------------------------------------------
(* What is stored reads back. *)

\* A bar as it is stored: its day, and the point and version it stands for.
BarType == [ts : Days, value : Points \X Nat]

\* A worker about to store has bars of a registered provider, one a day in the order of days,
\* all of them in its range.
ReadyOf(w) ==
  pc[w] = "store" =>
    /\ got[w].by \in Providers
    /\ \A i, j \in 1..Len(got[w].bars) : i < j => got[w].bars[i].ts < got[w].bars[j].ts
    /\ \A i \in 1..Len(got[w].bars) : InRange(qry[w], got[w].bars[i].ts)

\* The types, and what a worker about to store has.
BarsInv ==
  /\ offer \in [Providers -> [Points -> Nat]]
  /\ table \in [Providers -> [Days -> (Points \X Nat) \cup {None}]]
  /\ pc \in [Workers -> {"idle", "call", "store"}]
  /\ qry \in [Workers -> QueryType] /\ left \in [Workers -> Seq(Providers)]
  /\ got \in [Workers -> [by : Providers \cup {None}, bars : Seq(BarType)]]
  /\ turn \in 1..Len(WatchList)
  /\ \A w \in Workers : ReadyOf(w)

\* The bars a provider brings are one a day, in the order of days and in the range.
LEMMA FetchedBars ==
  ASSUME Slots = 1, BarsInv, NEW q \in QueryType, NEW p \in Providers, NEW bars, bars = Fetched(p, q)
  PROVE  /\ bars \in Seq(BarType)
         /\ \A i, j \in 1..Len(bars) : i < j => bars[i].ts < bars[j].ts
         /\ \A i \in 1..Len(bars) : InRange(q, bars[i].ts)
<1> DEFINE s == [x \in Points |-> Bar(DayOf(x), x, offer[p][x])]
           J == {x \in Points : offer[p][x] > 0 /\ DayOf(x) \in RangeOf(q)}
           n == Cardinality(J)
<1>1. bars = Selected(s, J)
  BY RangeIsRange DEF Asked, OfDays, RangeOf
<1>2. IsFiniteSet(J) /\ J \subseteq Int /\ J \subseteq Points /\ n \in Nat
  <2>1. J \subseteq Points
    OBVIOUS
  <2> HIDE DEF J
  <2> QED BY <2>1, PointsFinite, FS_Subset, FS_CardinalityType
<1>3. ASSUME NEW x \in J PROVE s[x] \in BarType /\ s[x].ts = x /\ InRange(q, x)
  <2>1. x \in Points /\ x \in Days /\ DayOf(x) = x /\ offer[p][x] \in Nat
    BY DailyDay DEF BarsInv
  <2>2. InRange(q, x)
    BY <2>1, RangeDays
  <2> QED BY <2>1, <2>2 DEF Bar, BarType
<1> HIDE DEF s, J
<1>4. ASSUME NEW k \in 1..n PROVE Nth(J, k) \in J /\ bars[k] = s[Nth(J, k)]
  BY <1>1, <1>2, NthOf DEF Selected
<1>5. bars \in [1..n -> BarType]
  BY <1>1, <1>3, <1>4 DEF Selected
<1>6. bars \in Seq(BarType) /\ Len(bars) = n
  <2> HIDE DEF n
  <2> QED BY <1>2, <1>5, SeqDef
<1>7. ASSUME NEW i \in 1..n, NEW j \in 1..n, i < j PROVE bars[i].ts < bars[j].ts
  <2>1. Nth(J, i) < Nth(J, j)
    BY <1>2, <1>7, NthOrder
  <2> QED BY <1>3, <1>4, <2>1
<1> QED BY <1>3, <1>4, <1>6, <1>7

\* What a store leaves in the rows of its provider: of each of its bars, the value.
LEMMA StoredValues ==
  ASSUME BarsInv, NEW w \in Workers, Store(w), NEW p, p = got[w].by, NEW B, B = got[w].bars
  PROVE  /\ p \in Providers /\ B \in Seq(BarType)
         /\ \A i, j \in 1..Len(B) : i < j => B[i].ts < B[j].ts
         /\ \A i \in 1..Len(B) : InRange(qry[w], B[i].ts)
         /\ \A k \in 1..Len(B) : table'[p][B[k].ts] = B[k].value
<1>1. /\ p \in Providers /\ B \in Seq(BarType)
      /\ \A i, j \in 1..Len(B) : i < j => B[i].ts < B[j].ts
      /\ \A i \in 1..Len(B) : InRange(qry[w], B[i].ts)
  BY DEF BarsInv, ReadyOf, Store
<1>2. Len(B) \in Nat /\ DOMAIN B = 1..Len(B) /\ \A k \in 1..Len(B) : B[k] \in BarType
  BY <1>1, LenProperties, ElementOfSeq
<1>3. ASSUME NEW k \in 1..Len(B) PROVE table'[p][B[k].ts] = B[k].value
  <2> DEFINE times == {b.ts : b \in ToSet(B)}
             LastAt(d) == B[Max({i \in DOMAIN B : B[i].ts = d})].value
  <2>1. B[k].ts \in times /\ B[k].ts \in Days
    BY <1>2 DEF ToSet, BarType
  <2>2. {i \in DOMAIN B : B[i].ts = B[k].ts} = {k}
    <3> SUFFICES ASSUME NEW i \in 1..Len(B), B[i].ts = B[k].ts PROVE i = k
      BY <1>2
    <3>1. i \in Int /\ k \in Int
      OBVIOUS
    <3>2. B[k].ts \in Int
      <4>1. Days \subseteq Int
        BY PointsFinite
      <4> QED BY <2>1, <4>1
    <3>3. ~(i < k) /\ ~(k < i)
      BY <1>1, <3>2
    <3> QED BY <3>1, <3>3
  <2>3. Max({k}) = k
    BY DEF Max
  <2>4. LastAt(B[k].ts) = B[k].value
    BY <2>2, <2>3
  <2>5. table' = [table EXCEPT ![p] =
        [d \in Days |-> IF d \in times THEN OnConflict(@[d], LastAt(d)) ELSE @[d]]]
    BY DEF Store, UpsertPrices
  <2> HIDE DEF times, LastAt
  <2>6. table'[p] =
        [d \in Days |-> IF d \in times THEN OnConflict(table[p][d], LastAt(d)) ELSE table[p][d]]
    BY <1>1, <2>5 DEF BarsInv
  <2> QED BY <2>1, <2>4, <2>6 DEF OnConflict
<1> QED BY <1>1, <1>3

\* After a store the database answers the worker's query, asked for the provider it had the
\* bars from, with exactly these bars at their times.
LEMMA StoreReadsBack ==
  ASSUME Slots = 1, BarsInv, NEW w \in Workers, Store(w), NEW B, B = got[w].bars,
         NEW q, q = [qry[w] EXCEPT !.provider = got[w].by]
  PROVE  At(GetPrices(q), {b.ts : b \in ToSet(B)})' = B
<1>1. PICK p : p = got[w].by
  OBVIOUS
<1>2. PICK t : t = table'
  OBVIOUS
<1>3. /\ p \in Providers /\ B \in Seq(BarType)
      /\ \A i, j \in 1..Len(B) : i < j => B[i].ts < B[j].ts
      /\ \A i \in 1..Len(B) : InRange(qry[w], B[i].ts)
      /\ \A k \in 1..Len(B) : t[p][B[k].ts] = B[k].value
  BY <1>1, <1>2, StoredValues
<1>4. /\ Len(B) \in Nat /\ B \in [1..Len(B) -> BarType] /\ DOMAIN B = 1..Len(B)
      /\ \A k \in 1..Len(B) : B[k].ts \in Days /\ B[k].ts \in Int /\ B[k].value # None
  <2>1. Len(B) \in Nat /\ B \in [1..Len(B) -> BarType] /\ DOMAIN B = 1..Len(B)
    BY <1>3, LenProperties
  <2>2. Days \subseteq Int /\ None \notin Points \X Nat
    BY PointsFinite, PriceBarsAssumption
  <2>3. ASSUME NEW k \in 1..Len(B) PROVE B[k].ts \in Days /\ B[k].value \in Points \X Nat
    BY <2>1 DEF BarType
  <2>4. ASSUME NEW k \in 1..Len(B) PROVE B[k].ts \in Int /\ B[k].value # None
    BY <2>2, <2>3
  <2> QED BY <2>1, <2>3, <2>4
<1>5. q.provider = p /\ p # None /\ \A d : InRange(q, d) <=> InRange(qry[w], d)
  <2>1. qry[w] \in QueryType
    BY DEF BarsInv
  <2> QED BY <1>1, <1>3, <2>1, PriceBarsAssumption DEF QueryType, InRange
<1> DEFINE T == {b.ts : b \in ToSet(B)}
           Row(d) == IF t[p][d] = None THEN None ELSE p
           g == [d \in Days |-> [ts |-> d, value |-> t[Row(d)][d]]]
           I == {d \in Days : InRange(q, d) /\ Row(d) # None}
           e == [k \in 1..Len(B) |-> B[k].ts]
<1>6. GetPrices(q)' = Selected(g, I)
  BY <1>2, <1>5 DEF GetPrices, Preferred
<1>7. Ascends(Len(B), e, T)
  <2>1. \A k \in 1..Len(B) : e[k] \in T
    BY <1>4 DEF ToSet
  <2>2. \A x \in T : \E k \in 1..Len(B) : e[k] = x
    BY <1>4 DEF ToSet
  <2> HIDE DEF T
  <2> QED BY <1>3, <1>4, <2>1, <2>2 DEF Ascends
<1>8. \A x \in T : x \in Days /\ InRange(q, x) /\ Row(x) # None
  <2>1. ASSUME NEW k \in 1..Len(B) PROVE B[k].ts \in Days /\ InRange(q, B[k].ts) /\ Row(B[k].ts) = p
    BY <1>3, <1>4, <1>5
  <2> QED BY <1>4, <1>5, <2>1 DEF ToSet
<1>9. \A k \in 1..Len(B) : g[B[k].ts] = B[k]
  BY <1>3, <1>4, <1>5 DEF BarType
<1>10. T \subseteq I /\ I \subseteq Days /\ \A d \in I : g[d].ts = d
  BY <1>8
<1> HIDE DEF T, g, I, e
<1>11. IsFiniteSet(I) /\ I \subseteq Int
  BY <1>10, PointsFinite, FS_Subset
<1>12. PICK C : C = Selected(g, I)
  OBVIOUS
<1> DEFINE K == {i \in DOMAIN C : C[i].ts \in T}
<1>13. PlacesOf(I, T, K)
  <2>1. DOMAIN C = 1..Cardinality(I)
    BY <1>12 DEF Selected
  <2>2. ASSUME NEW k \in 1..Cardinality(I) PROVE C[k].ts = Nth(I, k)
    <3>1. Nth(I, k) \in I
      BY <1>11, NthOf
    <3> QED BY <1>10, <1>12, <3>1 DEF Selected
  <2> QED BY <1>10, <1>11, <2>1, <2>2 DEF PlacesOf
<1>14. Selected(C, K) = Selected(g, T)
  <2> HIDE DEF K
  <2> QED BY <1>12, <1>13, SelectedTwice
<1>15. Selected(g, T) = B
  <2>1. Cardinality(T) = Len(B) /\ \A k \in 1..Len(B) : Nth(T, k) = e[k]
    BY <1>7, Ascending
  <2>2. \A k \in 1..Len(B) : g[Nth(T, k)] = B[k]
    BY <1>9, <2>1 DEF e
  <2> QED BY <1>4, <2>1, <2>2 DEF Selected
<1>16. At(GetPrices(q), T)' = Selected(C, K)
  BY <1>6, <1>12 DEF At
<1> QED BY <1>14, <1>15, <1>16 DEF T
------------------------------------------------------------------------------
(* Every step keeps the invariant. *)

\* A query of the watch list, or of a handler, is a query, and a priority list has providers.
LEMMA QueriesOK ==
  /\ \A i \in 1..Len(WatchList) : WatchList[i] \in QueryType
  /\ Len(WatchList) \in Nat \ {0} /\ Queries \subseteq QueryType
  /\ \A q \in QueryType : PriorityOf(q) \in Seq(Providers)
<1>1. WatchList \in Seq(QueryType) /\ WatchList # <<>> /\ Queries \subseteq QueryType
      /\ Priority \in Seq(Providers)
  BY PriceBarsAssumption
<1>2. Len(WatchList) \in Nat \ {0} /\ \A i \in 1..Len(WatchList) : WatchList[i] \in QueryType
  BY <1>1, LenProperties, EmptySeq, ElementOfSeq
<1>3. ASSUME NEW q \in QueryType PROVE PriorityOf(q) \in Seq(Providers)
  <2>1. q.provider # None => <<q.provider>> \in Seq(Providers)
    BY DEF QueryType
  <2> QED BY <1>1, <2>1 DEF PriorityOf
<1> QED BY <1>1, <1>2, <1>3

\* No bars are a sequence of bars.
LEMMA NoFetchType == NoFetch \in [by : Providers \cup {None}, bars : Seq(BarType)]
BY DEF NoFetch

\* At the start every source has its first day out and nothing is stored.
LEMMA BarsInit == Init => BarsInv
<1> SUFFICES ASSUME Init PROVE BarsInv
  OBVIOUS
<1>1. 1 \in 1..Len(WatchList) /\ WatchList[1] \in QueryType
  BY QueriesOK
<1>2. <<>> \in Seq(Providers)
  OBVIOUS
<1> QED BY <1>1, <1>2, NoFetchType DEF Init, BarsInv, ReadyOf

\* A worker that is not about to store needs nothing, and the others are not disturbed.
LEMMA OwnStep ==
  ASSUME BarsInv, NEW w \in Workers,
         \A v \in Workers \ {w} : pc'[v] = pc[v] /\ qry'[v] = qry[v] /\ got'[v] = got[v],
         ReadyOf(w)'
  PROVE  \A v \in Workers : ReadyOf(v)'
BY DEF BarsInv, ReadyOf

\* A call begins.
LEMMA TryOK ==
  ASSUME BarsInv, NEW w \in Workers, NEW q \in QueryType, Try(w, q)
  PROVE  /\ pc' \in [Workers -> {"idle", "call", "store"}]
         /\ qry' \in [Workers -> QueryType] /\ left' \in [Workers -> Seq(Providers)]
         /\ got' = got /\ \A v \in Workers : ReadyOf(v)'
<1>1. PriorityOf(q) \in Seq(Providers)
  BY QueriesOK
<1>2. ReadyOf(w)'
  BY DEF Try, ReadyOf, BarsInv
<1>3. \A v \in Workers \ {w} : pc'[v] = pc[v] /\ qry'[v] = qry[v] /\ got'[v] = got[v]
  BY DEF Try, BarsInv
<1> QED BY <1>1, <1>2, <1>3, OwnStep DEF Try, BarsInv

\* A call ends.
LEMMA RestOK ==
  ASSUME BarsInv, NEW w \in Workers, Rest(w)
  PROVE  /\ pc' \in [Workers -> {"idle", "call", "store"}]
         /\ qry' \in [Workers -> QueryType] /\ left' \in [Workers -> Seq(Providers)]
         /\ got' \in [Workers -> [by : Providers \cup {None}, bars : Seq(BarType)]]
         /\ \A v \in Workers : ReadyOf(v)'
<1>1. WatchList[1] \in QueryType /\ <<>> \in Seq(Providers)
  BY QueriesOK
<1>2. ReadyOf(w)'
  BY DEF Rest, ReadyOf, BarsInv
<1>3. \A v \in Workers \ {w} : pc'[v] = pc[v] /\ qry'[v] = qry[v] /\ got'[v] = got[v]
  BY DEF Rest, BarsInv
<1> QED BY <1>1, <1>2, <1>3, OwnStep, NoFetchType DEF Rest, BarsInv

\* The rows after a store are rows.
LEMMA RowsOK ==
  ASSUME BarsInv, NEW w \in Workers, Store(w)
  PROVE  table' \in [Providers -> [Days -> (Points \X Nat) \cup {None}]]
<1>1. PICK p, B : p = got[w].by /\ B = got[w].bars
  OBVIOUS
<1>2. p \in Providers /\ B \in Seq(BarType) /\ \A i, j \in 1..Len(B) : i < j => B[i].ts < B[j].ts
  BY <1>1, StoredValues
<1>3. Len(B) \in Nat /\ DOMAIN B = 1..Len(B) /\ \A k \in 1..Len(B) : B[k] \in BarType
  BY <1>2, LenProperties, ElementOfSeq
<1> DEFINE times == {b.ts : b \in ToSet(B)}
           LastAt(d) == B[Max({i \in DOMAIN B : B[i].ts = d})].value
<1>4. table' = [table EXCEPT ![p] =
        [d \in Days |-> IF d \in times THEN OnConflict(@[d], LastAt(d)) ELSE @[d]]]
  BY <1>1 DEF Store, UpsertPrices
<1>5. ASSUME NEW d \in times PROVE LastAt(d) \in Points \X Nat
  <2>1. PICK k \in 1..Len(B) : B[k].ts = d
    BY <1>3 DEF ToSet
  <2>2. table'[p][B[k].ts] = B[k].value
    BY <1>1, StoredValues
  <2>3. d \in Days /\ B[k].value \in Points \X Nat
    BY <1>3, <2>1 DEF BarType
  <2> HIDE DEF times, LastAt
  <2>4. table'[p][d] = LastAt(d)
    BY <1>2, <1>4, <1>5, <2>3 DEF BarsInv, OnConflict
  <2> QED BY <2>1, <2>2, <2>3, <2>4
<1> HIDE DEF times, LastAt
<1> QED BY <1>2, <1>4, <1>5 DEF BarsInv, OnConflict

\* Every step keeps the invariant.
LEMMA BarsNext == Slots = 1 /\ BarsInv /\ [Next]_vars => BarsInv'
<1> SUFFICES ASSUME Slots = 1, BarsInv, [Next]_vars PROVE BarsInv'
  OBVIOUS
<1>1. CASE UNCHANGED vars
  BY <1>1 DEF vars, database, call, BarsInv, ReadyOf
<1>2. CASE Refresh
  <2>1. turn \in 1..Len(WatchList) /\ WatchList[turn] \in QueryType
    BY QueriesOK DEF BarsInv
  <2>2. Feed \in Workers /\ Try(Feed, WatchList[turn])
    BY <1>2, PriceBarsAssumption DEF Refresh
  <2>3. turn' \in 1..Len(WatchList)
    <3>1. turn' = (turn % Len(WatchList)) + 1 /\ Len(WatchList) \in Nat \ {0} /\ turn \in Nat
      BY <1>2, <2>1, QueriesOK DEF Refresh
    <3> QED BY <3>1
  <2> QED BY <1>2, <2>1, <2>2, <2>3, TryOK DEF Refresh, BarsInv, database
<1>3. ASSUME NEW p \in Providers, Update(p) PROVE BarsInv'
  <2>1. PICK x \in Points : offer' = [offer EXCEPT ![p][x] = @ + 1]
    BY <1>3 DEF Update
  <2>2. offer' \in [Providers -> [Points -> Nat]]
    BY <2>1 DEF BarsInv
  <2>3. UNCHANGED <<table, pc, qry, left, got, turn>>
    BY <1>3 DEF Update, database, call
  <2> QED BY <2>2, <2>3 DEF BarsInv, ReadyOf
<1>4. ASSUME NEW w \in Workers, Ask(w) PROVE BarsInv'
  <2>1. PICK q \in Queries : Try(w, q)
    BY <1>4 DEF Ask
  <2>2. q \in QueryType /\ UNCHANGED <<offer, table, turn>>
    BY <1>4, QueriesOK DEF Ask, database
  <2> QED BY <2>1, <2>2, TryOK DEF BarsInv
<1>5. ASSUME NEW w \in Workers, Fetch(w) PROVE BarsInv'
  <2>1. PICK p, bars : p = Head(left[w]) /\ bars = Fetched(p, qry[w])
    OBVIOUS
  <2>2. /\ got' = [got EXCEPT ![w] = [by |-> p, bars |-> bars]]
        /\ pc' = [pc EXCEPT ![w] = "store"]
        /\ UNCHANGED <<qry, left, offer, table, turn>>
    BY <1>5, <2>1 DEF Fetch, database
  <2>3. p \in Providers /\ qry[w] \in QueryType
    <3>1. left[w] \in Seq(Providers) /\ left[w] # <<>>
      BY <1>5 DEF Fetch, BarsInv
    <3> QED BY <2>1, <3>1, HeadTailProperties DEF BarsInv
  <2>4. /\ bars \in Seq(BarType)
        /\ \A i, j \in 1..Len(bars) : i < j => bars[i].ts < bars[j].ts
        /\ \A i \in 1..Len(bars) : InRange(qry[w], bars[i].ts)
    BY <2>1, <2>3, FetchedBars
  <2>5. got'[w] = [by |-> p, bars |-> bars]
    BY <2>2 DEF BarsInv
  <2>6. ReadyOf(w)'
    BY <2>2, <2>3, <2>4, <2>5 DEF ReadyOf, InRange
  <2>7. \A v \in Workers \ {w} : pc'[v] = pc[v] /\ qry'[v] = qry[v] /\ got'[v] = got[v]
    BY <2>2 DEF BarsInv
  <2>8. \A v \in Workers : ReadyOf(v)'
    BY <2>6, <2>7, OwnStep
  <2> QED BY <2>2, <2>3, <2>4, <2>8 DEF BarsInv
<1>6. ASSUME NEW w \in Workers, Pass(w) PROVE BarsInv'
  <2>1. left[w] \in Seq(Providers) /\ left[w] # <<>>
    BY <1>6 DEF Pass, BarsInv
  <2>2. Tail(left[w]) \in Seq(Providers)
    BY <2>1, HeadTailProperties
  <2>3. left' = [left EXCEPT ![w] = Tail(@)] /\ UNCHANGED <<pc, qry, got, offer, table, turn>>
    BY <1>6 DEF Pass, database
  <2> QED BY <2>2, <2>3 DEF BarsInv, ReadyOf
<1>7. ASSUME NEW w \in Workers, GiveUp(w) \/ Lose(w) PROVE BarsInv'
  <2>1. Rest(w) /\ UNCHANGED <<offer, table, turn>>
    BY <1>7 DEF GiveUp, Lose, database
  <2> QED BY <2>1, RestOK DEF BarsInv
<1>8. ASSUME NEW w \in Workers, Store(w) PROVE BarsInv'
  <2>1. Rest(w) /\ UNCHANGED <<offer, turn>>
    BY <1>8 DEF Store
  <2> QED BY <1>8, <2>1, RestOK, RowsOK DEF BarsInv
<1> QED BY <1>1, <1>2, <1>3, <1>4, <1>5, <1>6, <1>7, <1>8 DEF Next

\* Of daily bars, what a call has stored is what the database answers its query with, as long
\* as nothing else is stored: whatever was there before, however many bars there are, and in
\* whatever order fetches and stores come.
THEOREM ReadsBackHolds == Slots = 1 => (Spec => StoredReadsBack)
<1> SUFFICES ASSUME Slots = 1 PROVE Spec => StoredReadsBack
  OBVIOUS
<1> DEFINE ReadsBack ==
      \A w \in Workers : Store(w) =>
        \E q \in {[qry[w] EXCEPT !.provider = got[w].by]} : \E bars \in {got[w].bars} :
          At(GetPrices(q), {b.ts : b \in ToSet(bars)})' = bars
<1>1. BarsInv => ReadsBack
  BY StoreReadsBack
<1>2. BarsInv /\ [Next]_vars => BarsInv'
  BY BarsNext
<1> HIDE DEF ReadsBack
<1>3. Spec => [][ReadsBack]_vars
  BY <1>1, <1>2, BarsInit, PTL DEF Spec
<1> QED BY <1>3 DEF StoredReadsBack, ReadsBack
==============================================================================
