---------------------------- MODULE SymbolsProofs -----------------------------
(***************************************************************************)
(* What holds of the symbol catalog, and of a client that walks through    *)
(* its pages or searches it, for any symbols, any number of AddSymbol      *)
(* calls, faults and restarts, and pages of any length.                    *)
(*                                                                         *)
(* AddedIsWatched alone is not inductive: a call may stand between marking *)
(* and inserting.  Ready says of every such call that its symbol is        *)
(* watched already; rows are never taken away, so it stays true.           *)
(*                                                                         *)
(* The place of a symbol in a listing is the number of symbols ahead of    *)
(* it; it does not depend on the listing.  A walk has seen what it noted   *)
(* of the places before its offset: an addition only moves symbols away    *)
(* from the offset or further behind it, and a replacement, as long as the *)
(* listing is by symbol and whole, moves none.  A restart may take entries *)
(* away, which moves others ahead of the offset: these may be missed, but  *)
(* what has been seen is then not seen again.                              *)
(***************************************************************************)
EXTENDS Symbols, SelectionProofs, SequenceTheorems

Shape ==
  /\ symbols \in [Tickers -> Names \cup {Absent}]
  /\ pc \in [Adders -> {"idle", "mark", "insert"}]
  /\ adding \in [Adders -> Entry \cup {<<>>}]

\* A call past its guard has an entry, and past MarkWatched a row.
Ready ==
  \A a \in Adders :
    /\ pc[a] # "idle" => adding[a] \in Entry
    /\ pc[a] = "insert" /\ HasStore => adding[a].symbol \in watched

Inv == Shape /\ Ready /\ AddedIsWatched

\* A step keeps what is inserted watched: MarkWatched before the insert, for every call at once.
LEMMA StepKeepsInv == Inv /\ [Next]_vars => Inv'
<1> SUFFICES ASSUME Inv, [Next]_vars PROVE Inv'
  OBVIOUS
<1> USE SymbolsAssumption DEF Inv, Shape, Ready, AddedIsWatched, Entry
<1>1. ASSUME NEW a \in Adders, AddSymbol(a) PROVE Inv'
  BY <1>1 DEF AddSymbol
<1>2. ASSUME NEW a \in Adders, Mark(a) PROVE Inv'
  BY <1>2 DEF Mark
<1>3. ASSUME NEW a \in Adders, MarkFails(a) PROVE Inv'
  <2>1. watched \subseteq watched'
    BY <1>3 DEF MarkFails
  <2> QED
    BY <1>3, <2>1 DEF MarkFails
<1>4. ASSUME NEW a \in Adders, Insert(a) PROVE Inv'
  <2>1. adding[a] \in Entry /\ (HasStore => adding[a].symbol \in watched)
    BY <1>4 DEF Insert
  <2>2. symbols' = [symbols EXCEPT ![adding[a].symbol] = adding[a].name]
    BY <1>4 DEF Insert
  <2>3. Shape'
    BY <1>4, <2>1, <2>2 DEF Insert
  <2>4. Ready'
    BY <1>4 DEF Insert
  <2>5. AddedIsWatched'
    <3> SUFFICES ASSUME HasStore, NEW t \in Tickers, symbols'[t] # Absent
                 PROVE  t \in watched'
      OBVIOUS
    <3>1. CASE t = adding[a].symbol
      BY <1>4, <2>1, <3>1 DEF Insert
    <3>2. CASE t # adding[a].symbol
      BY <1>4, <2>2, <3>2 DEF Insert
    <3> QED
      BY <3>1, <3>2
  <2> QED
    BY <2>3, <2>4, <2>5
<1>5. CASE Crash
  BY <1>5 DEF Crash
<1>6. CASE StartWalk
  BY <1>6 DEF StartWalk
<1>7. CASE ListSymbols
  BY <1>7 DEF ListSymbols
<1>8. CASE EndWalk
  BY <1>8 DEF EndWalk
<1>9. CASE UNCHANGED vars
  BY <1>9 DEF vars, bounds
<1> QED
  BY <1>1, <1>2, <1>3, <1>4, <1>5, <1>6, <1>7, <1>8, <1>9 DEF Next

\* Every symbol in Service.symbols has its row in watched_symbols, always: AddSymbol marks
\* before it inserts, returns when marking fails, and a restart only empties the map.
THEOREM AddedHolds == Spec => []AddedIsWatched
<1>1. Init => Inv
  BY SymbolsAssumption DEF Init, Inv, Shape, Ready, AddedIsWatched
<1>2. Inv => AddedIsWatched
  BY DEF Inv
<1> QED
  BY <1>1, <1>2, StepKeepsInv, PTL DEF Spec
------------------------------------------------------------------------------
(* A walk through the pages. *)

EntryOf(t) == [symbol |-> t, name |-> Known(t)]

\* The symbols a listing for q has, and those of them ahead of symbol t.
There(q) == {t \in Tickers : Known(t) # Absent /\ EntryOf(t) \in q.filter}
Ahead(q, t) == {u \in There(q) : Before(q, EntryOf(u), EntryOf(t))}
Place(q, t) == Cardinality(Ahead(q, t))

\* The catalog is finite.
FiniteCatalog == IsFiniteSet({t \in Tickers : Known(t) # Absent})
------------------------------------------------------------------------------
(* A listing. *)

\* An entry says something, and it is a number as symbols are.
LEMMA KnownType ==
  ASSUME Shape, NEW t \in Tickers
  PROVE  /\ Known(t) \in Names \cup {Absent} /\ Known(t) \in Nat /\ t \in Nat
         /\ Known(t) # Absent => EntryOf(t) \in Entry
<1>1. t \in Nat /\ Known(t) \in Names \cup {Absent} /\ Names \subseteq Nat /\ Absent \in Nat
  BY SymbolsAssumption DEF Shape, Known, Absent
<1> QED BY <1>1 DEF EntryOf, Entry

\* The comparison of sortSymbols decides between any two symbols.
LEMMA Compared ==
  ASSUME Shape, NEW q \in Queries, NEW t \in Tickers, NEW u \in Tickers
  PROVE  /\ ~Before(q, EntryOf(t), EntryOf(t))
         /\ t # u => Before(q, EntryOf(t), EntryOf(u)) \/ Before(q, EntryOf(u), EntryOf(t))
<1>1. Known(t) \in Nat /\ t \in Nat /\ Known(u) \in Nat /\ u \in Nat
  BY KnownType
<1> QED BY <1>1 DEF Before, SortValue, EntryOf

\* A listing has the symbols that are there, each at its place.
LEMMA ListingOf ==
  ASSUME Shape, FiniteCatalog, NEW q \in Queries, NEW s \in Listings(q)
  PROVE  /\ s \in Seq(Entry)
         /\ \A i \in 1..Len(s) : s[i].symbol \in There(q) /\ Place(q, s[i].symbol) = i - 1
         /\ \A t \in There(q) : \E i \in 1..Len(s) : s[i].symbol = t
<1> DEFINE L == AllSymbols \cap q.filter
           n == Cardinality(L)
<1>1. L = {EntryOf(t) : t \in There(q)}
  BY DEF AllSymbols, EntryOf, There
<1>2. IsFiniteSet(There(q))
  <2>1. There(q) \subseteq {t \in Tickers : Known(t) # Absent}
    BY DEF There
  <2> QED BY <2>1, FS_Subset DEF FiniteCatalog
<1>3. IsFiniteSet(L) /\ n \in Nat
  <2> DEFINE f == [t \in There(q) |-> EntryOf(t)]
  <2>1. f \in Surjection(There(q), L)
    BY <1>1 DEF Surjection
  <2> HIDE DEF L, f
  <2> QED BY <1>2, <2>1, FS_Surjection, FS_CardinalityType
<1>4. /\ s \in [1..n -> L] /\ (\A i, j \in 1..n : i # j => s[i] # s[j])
      /\ \A i, j \in DOMAIN s : i < j => ~Before(q, s[j], s[i])
  BY DEF Listings, SetToSeqs
<1>5. \A e \in L : \E i \in 1..n : s[i] = e
  <2>1. s \in Injection(1..n, L)
    BY <1>4 DEF Injection, IsInjective
  <2>2. Cardinality(1..n) = n
    BY <1>3, FS_Interval
  <2> HIDE DEF L
  <2>3. s \in Surjection(1..n, L)
    BY <1>3, <2>1, <2>2, FS_Injection
  <2> QED BY <2>3 DEF Surjection
<1>6. L \subseteq Entry
  BY <1>1, KnownType DEF There
<1>7. s \in Seq(Entry) /\ Len(s) = n
  <2>1. s \in [1..n -> Entry]
    BY <1>4, <1>6
  <2> HIDE DEF n, L
  <2> QED BY <1>3, <2>1, SeqDef
<1> HIDE DEF n
<1>8. ASSUME NEW i \in 1..n
      PROVE  s[i].symbol \in There(q) /\ s[i] = EntryOf(s[i].symbol)
  BY <1>1, <1>4 DEF EntryOf
<1> HIDE DEF L
<1>9. \A i, j \in 1..n : i # j => s[i].symbol # s[j].symbol
  <2> SUFFICES ASSUME NEW i \in 1..n, NEW j \in 1..n, s[i].symbol = s[j].symbol PROVE i = j
    OBVIOUS
  <2>1. s[i] = s[j]
    BY <1>8
  <2> QED BY <1>4, <2>1
<1>10. ASSUME NEW i \in 1..n PROVE Place(q, s[i].symbol) = i - 1
  <2> DEFINE A == Ahead(q, s[i].symbol)
             g == [j \in 1..(i - 1) |-> s[j].symbol]
  <2>1. i - 1 \in Nat /\ (1..(i - 1)) \subseteq 1..n /\ DOMAIN s = 1..n
    BY <1>3, <1>4
  <2>2. ASSUME NEW j \in 1..(i - 1) PROVE g[j] \in A
    <3>1. j \in 1..n /\ j < i
      BY <1>3, <2>1
    <3>2. ~Before(q, s[i], s[j]) /\ s[i].symbol # s[j].symbol
      BY <1>4, <1>9, <2>1, <3>1
    <3>3. s[i].symbol \in Tickers /\ s[j].symbol \in Tickers
      BY <1>8, <3>1 DEF There
    <3>4. Before(q, s[j], s[i])
      BY <1>8, <3>1, <3>2, <3>3, Compared
    <3> QED BY <1>8, <3>1, <3>4 DEF Ahead
  <2>3. ASSUME NEW u \in A PROVE \E j \in 1..(i - 1) : g[j] = u
    <3>1. u \in There(q) /\ Before(q, EntryOf(u), s[i]) /\ u \in Tickers
      BY <1>8 DEF Ahead, There
    <3>2. PICK j \in 1..n : s[j] = EntryOf(u)
      BY <1>1, <1>5, <3>1
    <3>3. j # i
      BY <3>1, <3>2, Compared
    <3>4. ~(i < j)
      BY <1>4, <2>1, <3>1, <3>2
    <3>5. j \in 1..(i - 1) /\ s[j].symbol = u
      BY <1>3, <3>2, <3>3, <3>4 DEF EntryOf
    <3> QED BY <3>5
  <2>4. g \in Surjection(1..(i - 1), A) /\ g \in Injection(1..(i - 1), A)
    <3> HIDE DEF A
    <3>1. g \in [1..(i - 1) -> A]
      BY <2>2
    <3>2. \A j, k \in 1..(i - 1) : g[j] = g[k] => j = k
      BY <1>9, <2>1
    <3> HIDE DEF g
    <3> QED BY <2>3, <3>1, <3>2 DEF Surjection, Injection, IsInjective
  <2>5. IsFiniteSet(1..(i - 1)) /\ Cardinality(1..(i - 1)) = i - 1
    BY <2>1, FS_Interval
  <2> HIDE DEF A, g
  <2>6. Cardinality(A) = i - 1
    BY <2>4, <2>5, FS_Surjection
  <2> QED BY <2>6 DEF A, Place
<1>11. ASSUME NEW t \in There(q) PROVE \E i \in 1..n : s[i].symbol = t
  <2>1. PICK i \in 1..n : s[i] = EntryOf(t)
    BY <1>1, <1>5
  <2> QED BY <2>1 DEF EntryOf
<1> QED BY <1>7, <1>8, <1>10, <1>11

\* A page is the entries of a listing from the offset on, at most as many as the limit.
LEMMA PageOf ==
  ASSUME NEW S, NEW s \in Seq(S), NEW offset \in Nat, NEW limit \in Nat
  PROVE  LET p == Page(s, offset, limit) IN
         /\ p \in Seq(S)
         /\ \A i \in 1..Len(p) :
              offset + i \in 1..Len(s) /\ i <= limit /\ p[i] = s[offset + i]
         /\ \A i \in 1..Len(s) :
              offset < i /\ i <= offset + limit => i - offset \in 1..Len(p)
<1> DEFINE total == Len(s)
           start == IF offset > total THEN total ELSE offset
           end == IF start + limit > total THEN total ELSE start + limit
           p == SubSeq(s, start + 1, end)
<1>1. total \in Nat /\ start \in Nat /\ end \in Nat /\ start <= end /\ end <= total
  OBVIOUS
<1>2. \A i \in (start + 1)..end : s[i] \in S
  <2>1. \A i \in 1..total : s[i] \in S
    OBVIOUS
  <2> HIDE DEF total, start, end
  <2> QED BY <1>1, <2>1
<1>3. /\ p \in Seq(S) /\ Len(p) = end - start
      /\ \A i \in 1..(end - start) : p[i] = s[start + i]
  <2> HIDE DEF total, start, end
  <2>1. /\ SubSeq(s, start + 1, end) \in Seq(S)
        /\ Len(SubSeq(s, start + 1, end)) = IF start + 1 <= end THEN end - (start + 1) + 1 ELSE 0
        /\ \A i \in 1..(end - (start + 1) + 1) : SubSeq(s, start + 1, end)[i] = s[(start + 1) + i - 1]
    BY <1>1, <1>2, SubSeqProperties
  <2> HIDE DEF p
  <2> QED BY <1>1, <2>1 DEF p
<1>4. Page(s, offset, limit) = p
  BY DEF Page
<1> HIDE DEF p
<1>5. \A i \in 1..Len(p) : offset + i \in 1..Len(s) /\ i <= limit /\ p[i] = s[offset + i]
  <2> TAKE i \in 1..Len(p)
  <2>1. start < end
    BY <1>1, <1>3
  <2>2. start = offset /\ i \in 1..(end - start) /\ offset + i <= total /\ i <= limit
    BY <1>1, <1>3, <2>1
  <2> QED BY <1>1, <1>3, <2>2
<1>6. \A i \in 1..Len(s) : offset < i /\ i <= offset + limit => i - offset \in 1..Len(p)
  BY <1>1, <1>3
<1> QED BY <1>3, <1>4, <1>5, <1>6
------------------------------------------------------------------------------
(* A walk. *)

\* The symbols the walk's query lists now, and the place of each symbol among them.
Listed == There(walk.query)
At == [t \in Tickers |-> Place(walk.query, t)]

\* A walk's record, as long as a client walks.
WalkType ==
  walk.on =>
    walk \in [on : {TRUE}, query : Queries, offset : Nat, seen : Seq(Tickers), done : BOOLEAN,
              noted : SUBSET Tickers, added : SUBSET Tickers, replaced : SUBSET Tickers,
              gone : SUBSET Tickers]

\* Unless a restart took something away, what was there when the walk began is there, and
\* passes its filter if nothing was replaced.
NotedThere ==
  walk.on /\ walk.gone = {} => \A t \in walk.noted :
    Known(t) # Absent /\ (walk.replaced = {} => EntryOf(t) \in walk.query.filter)

\* Likewise, what was noted and has its place before the offset has been seen.
SeenSoFar ==
  walk.on /\ Steady /\ walk.gone = {} => \A t \in Listed :
    t \in walk.noted /\ At[t] < walk.offset => t \in ToSet(walk.seen)

\* With nothing added what has been seen was seen once, and is behind the offset or not there.
SeenOnce ==
  walk.on /\ Steady /\ walk.added = {} =>
    /\ IsInjective(walk.seen)
    /\ \A i \in DOMAIN walk.seen : walk.seen[i] \in Listed => At[walk.seen[i]] < walk.offset

WalkInv == WalkType /\ NotedThere /\ SeenSoFar /\ SeenOnce /\ WalkMissesNothing

\* The place of a listed symbol is a number.
LEMMA PlaceType ==
  ASSUME FiniteCatalog, NEW q, NEW t
  PROVE  IsFiniteSet(Ahead(q, t)) /\ Place(q, t) \in Nat
<1>1. Ahead(q, t) \subseteq {u \in Tickers : Known(u) # Absent}
  BY DEF Ahead, There
<1>2. IsFiniteSet(Ahead(q, t))
  BY <1>1, FS_Subset DEF FiniteCatalog
<1> QED BY <1>2, FS_CardinalityType DEF Place

\* As long as no entry changes, no place does.
LEMMA SamePlaces ==
  ASSUME walk'.query = walk.query, \A u \in Tickers : Known(u)' = Known(u)
  PROVE  Listed' = Listed /\ At' = At
<1>1. There(walk.query)' = There(walk.query)
  BY DEF There, EntryOf
<1>2. \A t \in Tickers : Ahead(walk.query, t)' = Ahead(walk.query, t)
  BY <1>1 DEF Ahead, There, EntryOf
<1> QED BY <1>1, <1>2 DEF Listed, At, Place

\* A step that leaves entries and walk alone keeps what holds of the walk.
LEMMA SameWalk ==
  ASSUME WalkInv, walk' = walk, \A u \in Tickers : Known(u)' = Known(u) PROVE WalkInv'
<1>1. Listed' = Listed /\ At' = At
  BY SamePlaces
<1>2. WalkType' /\ SeenSoFar' /\ SeenOnce' /\ WalkMissesNothing'
  BY <1>1 DEF WalkInv, WalkType, SeenSoFar, SeenOnce, WalkMissesNothing, Steady
<1>3. NotedThere'
  BY DEF WalkInv, WalkType, NotedThere, EntryOf
<1> QED BY <1>2, <1>3 DEF WalkInv

\* A symbol that is added moves no other to an earlier place.
LEMMA AddedPlaces ==
  ASSUME FiniteCatalog', NEW t \in Tickers, Known(t) = Absent, walk'.query = walk.query,
         FiniteCatalog, \A u \in Tickers \ {t} : Known(u)' = Known(u)
  PROVE  /\ t \notin Listed /\ Listed' \subseteq Listed \cup {t}
         /\ \A u \in Listed : At[u] \in Nat /\ At'[u] \in Nat /\ At[u] <= At'[u]
<1>1. t \notin Listed /\ Listed' \subseteq Listed \cup {t}
  BY DEF Listed, There, EntryOf
<1>2. ASSUME NEW u \in Listed PROVE At[u] \in Nat /\ At'[u] \in Nat /\ At[u] <= At'[u]
  <2>1. u \in Tickers /\ u # t
    BY <1>1 DEF Listed, There
  <2>2. Ahead(walk.query, u) \subseteq Ahead(walk.query, u)'
    BY <2>1 DEF Ahead, There, EntryOf
  <2>3. IsFiniteSet(Ahead(walk.query, u)')
    <3>1. Ahead(walk.query, u)' \subseteq {v \in Tickers : Known(v) # Absent}'
      BY DEF Ahead, There
    <3> QED BY <3>1, FS_Subset DEF FiniteCatalog
  <2>4. At[u] = Cardinality(Ahead(walk.query, u)) /\ At'[u] = Cardinality(Ahead(walk.query, u)')
    BY <2>1 DEF At, Place
  <2>5. IsFiniteSet(Ahead(walk.query, u)) /\ Cardinality(Ahead(walk.query, u)) <= Cardinality(Ahead(walk.query, u)')
    BY <2>2, <2>3, FS_Subset
  <2> QED BY <2>3, <2>4, <2>5, FS_CardinalityType
<1> QED BY <1>1, <1>2

\* An entry that is replaced keeps its place in a whole listing by symbol.
LEMMA ReplacedPlaces ==
  ASSUME Shape, Shape', walk'.query = walk.query, walk.query.sort = "symbol", walk.query.filter = Entry,
         \A u \in Tickers : Known(u)' = Absent <=> Known(u) = Absent
  PROVE  Listed' = Listed /\ At' = At
<1>1. \A u \in Tickers : Known(u) # Absent => EntryOf(u) \in Entry
  BY KnownType
<1>2. \A u \in Tickers : Known(u)' # Absent => EntryOf(u)' \in Entry
  BY SymbolsAssumption DEF Shape, Known, EntryOf, Entry
<1>3. There(walk.query) = {u \in Tickers : Known(u) # Absent}
  BY <1>1 DEF There
<1>4. There(walk.query)' = {u \in Tickers : Known(u)' # Absent}
  BY <1>2 DEF There
<1>5. There(walk.query)' = There(walk.query)
  BY <1>3, <1>4
<1>6. \A t, u \in Tickers : Before(walk.query, EntryOf(u), EntryOf(t))' = Before(walk.query, EntryOf(u), EntryOf(t))
  BY DEF Before, SortValue, EntryOf
<1>7. \A t \in Tickers : Ahead(walk.query, t)' = Ahead(walk.query, t)
  BY <1>5, <1>6 DEF Ahead, There
<1> QED BY <1>5, <1>7 DEF Listed, At, Place

\* Where entries are only taken away, or become others in a whole listing by symbol, no symbol
\* that is left moves to a later place.
LEMMA RemovedPlaces ==
  ASSUME Shape, Shape', FiniteCatalog, FiniteCatalog', walk'.query = walk.query,
         \A u \in Tickers : Known(u)' # Absent => Known(u) # Absent,
         \/ \A u \in Tickers : Known(u)' # Absent => Known(u)' = Known(u)
         \/ walk.query.sort = "symbol" /\ walk.query.filter = Entry
  PROVE  /\ Listed' \subseteq Listed
         /\ \A u \in Listed' : At[u] \in Nat /\ At'[u] \in Nat /\ At'[u] <= At[u]
<1>1. \A u \in Tickers : Known(u) # Absent => EntryOf(u) \in Entry
  BY KnownType
<1>2. Listed' \subseteq Listed /\ Listed' \subseteq Tickers
  BY <1>1 DEF Listed, There, EntryOf
<1>3. ASSUME NEW t \in Listed', NEW u \in Listed'
      PROVE  Before(walk.query, EntryOf(u), EntryOf(t))' => Before(walk.query, EntryOf(u), EntryOf(t))
  <2>1. t \in Tickers /\ u \in Tickers /\ Known(t)' # Absent /\ Known(u)' # Absent
    BY DEF Listed, There
  <2>2. CASE Known(t)' = Known(t) /\ Known(u)' = Known(u)
    BY <2>2 DEF Before, SortValue, EntryOf
  <2>3. CASE walk.query.sort = "symbol"
    BY <2>3 DEF Before, SortValue, EntryOf
  <2> QED BY <2>1, <2>2, <2>3
<1>4. ASSUME NEW u \in Listed' PROVE At[u] \in Nat /\ At'[u] \in Nat /\ At'[u] <= At[u]
  <2>1. u \in Tickers
    BY <1>2
  <2>2. Ahead(walk.query, u)' \subseteq Ahead(walk.query, u)
    BY <1>2, <1>3 DEF Ahead, Listed
  <2>3. IsFiniteSet(Ahead(walk.query, u))
    BY PlaceType
  <2>4. At[u] = Cardinality(Ahead(walk.query, u)) /\ At'[u] = Cardinality(Ahead(walk.query, u)')
    BY <2>1 DEF At, Place
  <2>5. /\ IsFiniteSet(Ahead(walk.query, u)')
        /\ Cardinality(Ahead(walk.query, u)') <= Cardinality(Ahead(walk.query, u))
    BY <2>2, <2>3, FS_Subset
  <2> QED BY <2>3, <2>4, <2>5, FS_CardinalityType
<1> QED BY <1>2, <1>4
------------------------------------------------------------------------------
(* The steps. *)

\* A walk begins before the first place.
LEMMA StartWalkOK ==
  ASSUME Shape, FiniteCatalog, WalkInv, StartWalk PROVE WalkInv'
<1>1. PICK q \in Queries :
        walk' = [on |-> TRUE, query |-> q, offset |-> 0, seen |-> <<>>, done |-> FALSE,
                 noted |-> {e.symbol : e \in AllSymbols \cap q.filter}, added |-> {}, replaced |-> {},
                 gone |-> {}]
  BY DEF StartWalk
<1> DEFINE N == {e.symbol : e \in AllSymbols \cap q.filter}
<1>2. \A t \in N : t \in Tickers /\ Known(t) # Absent /\ EntryOf(t) \in q.filter
  BY DEF AllSymbols, EntryOf
<1> HIDE DEF N
<1>3. /\ walk'.query = q /\ walk'.offset = 0 /\ walk'.seen = <<>> /\ walk'.done = FALSE
      /\ walk'.noted = N /\ walk'.added = {} /\ walk'.replaced = {} /\ walk'.on = TRUE
  BY <1>1 DEF N
<1>4. WalkType'
  <2>1. N \in SUBSET Tickers /\ <<>> \in Seq(Tickers)
    BY <1>2
  <2> QED BY <1>1, <2>1 DEF WalkType, N
<1>5. \A t \in Tickers : Known(t)' = Known(t) /\ EntryOf(t)' = EntryOf(t)
  BY DEF StartWalk, Known, EntryOf
<1>6. NotedThere'
  BY <1>2, <1>3, <1>5 DEF NotedThere
<1>7. SeenSoFar'
  <2> SUFFICES ASSUME NEW t \in Listed' PROVE ~(At'[t] < walk'.offset)
    BY DEF SeenSoFar
  <2>1. Listed' \subseteq Tickers
    BY DEF Listed, There
  <2>2. FiniteCatalog'
    BY <1>5 DEF FiniteCatalog
  <2>3. At'[t] \in Nat
    <3>1. At'[t] = Place(walk.query, t)'
      BY <2>1 DEF At
    <3>2. Ahead(walk.query, t)' \subseteq {u \in Tickers : Known(u) # Absent}'
      BY DEF Ahead, There
    <3>3. IsFiniteSet(Ahead(walk.query, t)')
      BY <2>2, <3>2, FS_Subset DEF FiniteCatalog
    <3> QED BY <3>1, <3>3, FS_CardinalityType DEF Place
  <2> QED BY <1>3, <2>3
<1>8. SeenOnce'
  BY <1>3 DEF SeenOnce, IsInjective
<1>9. WalkMissesNothing'
  BY <1>3 DEF WalkMissesNothing
<1> QED BY <1>4, <1>6, <1>7, <1>8, <1>9 DEF WalkInv

\* Two sequences of symbols, one after the other.
LEMMA Joined ==
  ASSUME NEW a \in Seq(Tickers), NEW b \in Seq(Tickers)
  PROVE  /\ a \o b \in Seq(Tickers) /\ Len(a \o b) = Len(a) + Len(b) /\ Len(a) \in Nat /\ Len(b) \in Nat
         /\ \A i \in 1..(Len(a) + Len(b)) : (a \o b)[i] = IF i <= Len(a) THEN a[i] ELSE b[i - Len(a)]
         /\ ToSet(a \o b) = ToSet(a) \cup ToSet(b)
<1>1. /\ a \o b \in Seq(Tickers) /\ Len(a \o b) = Len(a) + Len(b)
      /\ \A i \in 1..(Len(a) + Len(b)) : (a \o b)[i] = IF i <= Len(a) THEN a[i] ELSE b[i - Len(a)]
  BY ConcatProperties
<1>2. /\ DOMAIN a = 1..Len(a) /\ DOMAIN b = 1..Len(b) /\ DOMAIN (a \o b) = 1..(Len(a) + Len(b))
      /\ Len(a) \in Nat /\ Len(b) \in Nat
  BY <1>1, LenProperties
<1>3. ASSUME NEW t \in ToSet(a) PROVE t \in ToSet(a \o b)
  <2>1. PICK i \in 1..Len(a) : a[i] = t
    BY <1>2 DEF ToSet
  <2>2. i \in 1..(Len(a) + Len(b)) /\ (a \o b)[i] = t
    BY <1>1, <1>2, <2>1
  <2> QED BY <1>2, <2>2 DEF ToSet
<1>4. ASSUME NEW t \in ToSet(b) PROVE t \in ToSet(a \o b)
  <2>1. PICK i \in 1..Len(b) : b[i] = t
    BY <1>2 DEF ToSet
  <2>2. PICK k \in 1..(Len(a) + Len(b)) : k = Len(a) + i
    BY <1>2
  <2>3. ~(k <= Len(a)) /\ k - Len(a) = i
    BY <1>2, <2>2
  <2>4. (a \o b)[k] = t
    BY <1>1, <2>1, <2>3
  <2> QED BY <1>2, <2>4 DEF ToSet
<1>5. ASSUME NEW t \in ToSet(a \o b) PROVE t \in ToSet(a) \cup ToSet(b)
  <2>1. PICK i \in 1..(Len(a) + Len(b)) : (a \o b)[i] = t
    BY <1>2 DEF ToSet
  <2>2. CASE i <= Len(a)
    BY <1>1, <1>2, <2>1, <2>2 DEF ToSet
  <2>3. CASE ~(i <= Len(a))
    <3>1. i - Len(a) \in 1..Len(b)
      BY <1>2, <2>3
    <3> QED BY <1>1, <1>2, <2>1, <2>3, <3>1 DEF ToSet
  <2> QED BY <2>2, <2>3
<1> QED BY <1>1, <1>2, <1>3, <1>4, <1>5

\* A page shows the places from the offset to the offset after it.
LEMMA ListSymbolsOK ==
  ASSUME Shape, FiniteCatalog, WalkInv, ListSymbols PROVE WalkInv'
<1>1. walk.on /\ WalkType /\ NotedThere /\ SeenSoFar /\ SeenOnce
  BY DEF ListSymbols, WalkInv
<1>2. /\ walk.query \in Queries /\ walk.offset \in Nat /\ walk.seen \in Seq(Tickers)
      /\ walk.noted \in SUBSET Tickers
  BY <1>1 DEF WalkType
<1>3. PICK listing \in Listings(walk.query) :
        walk' = [walk EXCEPT
                   !.seen = @ \o [i \in DOMAIN Page(listing, walk.offset, Limit(walk.query)) |->
                                    Page(listing, walk.offset, Limit(walk.query))[i].symbol],
                   !.offset = @ + Limit(walk.query),
                   !.done = walk.offset + Limit(walk.query) >= Len(listing)]
  BY DEF ListSymbols
<1> DEFINE limit == Limit(walk.query)
           page == Page(listing, walk.offset, limit)
           shown == [i \in DOMAIN page |-> page[i].symbol]
<1>4. limit \in Nat
  <2>1. walk.query.limit \in Int /\ DefaultLimit \in Nat /\ MaxLimit \in Nat
    BY <1>2, SymbolsAssumption DEF QueryType
  <2> QED BY <2>1 DEF Limit
<1>5. /\ walk'.query = walk.query /\ walk'.seen = walk.seen \o shown /\ walk'.offset = walk.offset + limit
      /\ walk'.done = (walk.offset + limit >= Len(listing)) /\ walk'.on = walk.on
      /\ walk'.noted = walk.noted /\ walk'.added = walk.added /\ walk'.replaced = walk.replaced
      /\ walk'.gone = walk.gone
  BY <1>1, <1>3 DEF WalkType
<1>6. \A t \in Tickers : Known(t)' = Known(t) /\ EntryOf(t)' = EntryOf(t)
  BY DEF ListSymbols, Known, EntryOf
<1>7. Listed' = Listed /\ At' = At
  BY <1>5, <1>6, SamePlaces
<1>8. /\ listing \in Seq(Entry)
      /\ \A i \in 1..Len(listing) :
           listing[i].symbol \in Listed /\ listing[i].symbol \in Tickers /\ At[listing[i].symbol] = i - 1
      /\ \A t \in Listed : \E i \in 1..Len(listing) : listing[i].symbol = t
  BY <1>2, ListingOf DEF Listed, At, There
<1> HIDE DEF limit
<1>9. /\ page \in Seq(Entry)
      /\ \A i \in 1..Len(page) :
           walk.offset + i \in 1..Len(listing) /\ i <= limit /\ page[i] = listing[walk.offset + i]
      /\ \A i \in 1..Len(listing) :
           walk.offset < i /\ i <= walk.offset + limit => i - walk.offset \in 1..Len(page)
  BY <1>2, <1>4, <1>8, PageOf
<1> HIDE DEF page
<1>10. shown \in Seq(Tickers) /\ Len(shown) = Len(page) /\ \A i \in 1..Len(page) : shown[i] = page[i].symbol
  <2>1. DOMAIN page = 1..Len(page) /\ Len(page) \in Nat
    BY <1>9
  <2>2. shown \in [1..Len(page) -> Tickers]
    <3>1. \A i \in 1..Len(page) : page[i] \in Entry
      BY <1>9
    <3>2. \A i \in 1..Len(page) : page[i].symbol \in Tickers
      BY <3>1 DEF Entry
    <3> QED BY <2>1, <3>2
  <2> HIDE DEF shown
  <2>3. shown \in Seq(Tickers) /\ Len(shown) = Len(page)
    BY <2>1, <2>2, SeqDef
  <2> QED BY <2>1, <2>3 DEF shown
<1>11. \A i \in 1..Len(shown) :
         /\ shown[i] \in Listed /\ walk.offset + i \in 1..Len(listing) /\ i <= limit
         /\ At[shown[i]] = walk.offset + i - 1
  <2> TAKE i \in 1..Len(shown)
  <2>1. /\ i \in 1..Len(page) /\ walk.offset + i \in 1..Len(listing) /\ i <= limit
        /\ page[i] = listing[walk.offset + i]
    BY <1>9, <1>10
  <2>2. shown[i] = listing[walk.offset + i].symbol
    BY <1>10, <2>1
  <2>3. PICK k \in 1..Len(listing) : k = walk.offset + i
    BY <2>1
  <2> HIDE DEF shown
  <2>4. shown[i] \in Listed /\ At[shown[i]] = k - 1
    BY <1>8, <2>2, <2>3
  <2>5. At[shown[i]] = walk.offset + i - 1
    BY <1>2, <2>3, <2>4
  <2> QED BY <2>1, <2>4, <2>5
<1>12. \A t \in Listed : walk.offset <= At[t] /\ At[t] < walk.offset + limit =>
         \E i \in 1..Len(shown) : shown[i] = t
  <2> SUFFICES ASSUME NEW t \in Listed, walk.offset <= At[t], At[t] < walk.offset + limit
               PROVE  \E i \in 1..Len(shown) : shown[i] = t
    OBVIOUS
  <2>1. PICK i \in 1..Len(listing) : listing[i].symbol = t
    BY <1>8
  <2>2. At[t] = i - 1 /\ walk.offset < i /\ i <= walk.offset + limit
    BY <1>2, <1>4, <1>8, <2>1
  <2>3. i - walk.offset \in 1..Len(page) /\ walk.offset + (i - walk.offset) = i
    BY <1>2, <1>9, <2>2
  <2> QED BY <1>9, <1>10, <2>1, <2>3
<1> HIDE DEF shown
<1>13. /\ walk.seen \o shown \in Seq(Tickers)
       /\ Len(walk.seen \o shown) = Len(walk.seen) + Len(shown)
       /\ Len(walk.seen) \in Nat /\ Len(shown) \in Nat
       /\ \A i \in 1..(Len(walk.seen) + Len(shown)) :
            (walk.seen \o shown)[i] = IF i <= Len(walk.seen) THEN walk.seen[i] ELSE shown[i - Len(walk.seen)]
       /\ ToSet(walk.seen \o shown) = ToSet(walk.seen) \cup ToSet(shown)
  BY <1>2, <1>10, Joined
<1>14. ToSet(walk'.seen) = ToSet(walk.seen) \cup ToSet(shown)
  BY <1>5, <1>13
<1>15. WalkType'
  <2>1. walk'.offset \in Nat /\ walk'.seen \in Seq(Tickers) /\ walk'.done \in BOOLEAN
    BY <1>2, <1>4, <1>5, <1>13
  <2>2. walk' \in [on : {TRUE}, query : Queries, offset : Nat, seen : Seq(Tickers), done : BOOLEAN,
                   noted : SUBSET Tickers, added : SUBSET Tickers, replaced : SUBSET Tickers,
                   gone : SUBSET Tickers]
    BY <1>1, <1>3, <2>1 DEF WalkType
  <2> QED BY <2>2 DEF WalkType
<1>16. NotedThere'
  BY <1>1, <1>2, <1>5, <1>6 DEF NotedThere
<1>17. Steady' = Steady
  BY <1>5 DEF Steady
<1>18. \A t \in Listed : Steady /\ walk.gone = {} /\ t \in walk.noted /\ At[t] < walk.offset + limit =>
         t \in ToSet(walk'.seen)
  <2> SUFFICES ASSUME NEW t \in Listed, Steady, walk.gone = {}, t \in walk.noted, At[t] < walk.offset + limit
               PROVE  t \in ToSet(walk.seen) \cup ToSet(shown)
    BY <1>14
  <2>1. At[t] \in Nat
    BY PlaceType DEF At, Listed, There
  <2>2. CASE At[t] < walk.offset
    BY <1>1, <2>2 DEF SeenSoFar
  <2>3. CASE walk.offset <= At[t]
    <3>1. PICK i \in 1..Len(shown) : shown[i] = t
      BY <1>12, <2>3
    <3> QED BY <1>10, <3>1 DEF ToSet
  <2> QED BY <1>2, <2>1, <2>2, <2>3
<1>19. SeenSoFar'
  BY <1>5, <1>7, <1>17, <1>18 DEF SeenSoFar
<1>20. SeenOnce'
  <2> SUFFICES ASSUME Steady, walk.added = {}
               PROVE  /\ IsInjective(walk'.seen)
                      /\ \A i \in DOMAIN walk'.seen : walk'.seen[i] \in Listed => At[walk'.seen[i]] < walk'.offset
    BY <1>5, <1>7, <1>17 DEF SeenOnce
  <2> DEFINE z == walk.seen \o shown
             m == Len(walk.seen)
  <2>1. DOMAIN walk.seen = 1..m /\ DOMAIN z = 1..(m + Len(shown))
    BY <1>2, <1>13, LenProperties
  <2>2. \A i \in 1..m : z[i] = walk.seen[i] /\ (z[i] \in Listed => At[z[i]] < walk.offset)
    BY <1>1, <1>13, <2>1 DEF SeenOnce
  <2>3. \A i \in 1..(m + Len(shown)) : ~(i <= m) =>
          z[i] = shown[i - m] /\ z[i] \in Listed /\ At[z[i]] = walk.offset + (i - m) - 1 /\ i - m <= limit
    <3> TAKE i \in 1..(m + Len(shown))
    <3> HAVE ~(i <= m)
    <3>1. i - m \in 1..Len(shown) /\ z[i] = shown[i - m]
      BY <1>13
    <3> QED BY <1>11, <3>1
  <2>4. \A i, j \in 1..m : walk.seen[i] = walk.seen[j] => i = j
    BY <1>1, <2>1 DEF SeenOnce, IsInjective
  <2> HIDE DEF z
  <2>5. \A i \in 1..(m + Len(shown)) : z[i] \in Listed => At[z[i]] < walk.offset + limit
    <3> TAKE i \in 1..(m + Len(shown))
    <3> HAVE z[i] \in Listed
    <3>1. At[z[i]] \in Nat
      BY PlaceType DEF At, Listed, There
    <3>2. CASE i <= m
      BY <1>2, <1>4, <1>13, <2>2, <3>1, <3>2
    <3>3. CASE ~(i <= m)
      BY <1>2, <1>4, <1>13, <2>3, <3>1, <3>3
    <3> QED BY <3>2, <3>3
  <2>6. ASSUME NEW i \in 1..(m + Len(shown)), NEW j \in 1..(m + Len(shown)), z[i] = z[j] PROVE i = j
    <3>1. CASE i <= m /\ j <= m
      BY <1>13, <2>2, <2>4, <2>6, <3>1
    <3>2. CASE i <= m /\ ~(j <= m)
      <4>1. At[z[i]] < walk.offset /\ At[z[j]] = walk.offset + (j - m) - 1
        BY <1>13, <2>2, <2>3, <2>6, <3>2
      <4>2. ~(walk.offset + (j - m) - 1 < walk.offset)
        BY <1>2, <1>13, <3>2
      <4> QED BY <2>6, <4>1, <4>2
    <3>3. CASE ~(i <= m) /\ j <= m
      <4>1. At[z[j]] < walk.offset /\ At[z[i]] = walk.offset + (i - m) - 1
        BY <1>13, <2>2, <2>3, <2>6, <3>3
      <4>2. ~(walk.offset + (i - m) - 1 < walk.offset)
        BY <1>2, <1>13, <3>3
      <4> QED BY <2>6, <4>1, <4>2
    <3>4. CASE ~(i <= m) /\ ~(j <= m)
      <4>1. At[z[i]] = walk.offset + (i - m) - 1 /\ At[z[j]] = walk.offset + (j - m) - 1
        BY <2>3, <3>4
      <4>2. walk.offset + (i - m) - 1 = walk.offset + (j - m) - 1
        BY <2>6, <4>1
      <4> QED BY <1>2, <1>13, <4>2
    <3> QED BY <3>1, <3>2, <3>3, <3>4
  <2>7. walk'.seen = z /\ walk'.offset = walk.offset + limit
    BY <1>5 DEF z
  <2>8. IsInjective(z)
    BY <2>1, <2>6 DEF IsInjective
  <2>9. \A i \in DOMAIN z : z[i] \in Listed => At[z[i]] < walk.offset + limit
    BY <2>1, <2>5
  <2> QED BY <2>7, <2>8, <2>9
<1>21. WalkMissesNothing'
  <2> SUFFICES ASSUME walk.offset + limit >= Len(listing), Steady, walk.gone = {}, NEW t \in walk.noted
               PROVE  t \in ToSet(walk'.seen)
    BY <1>5, <1>17 DEF WalkMissesNothing
  <2>1. t \in Listed
    <3>1. t \in Tickers /\ Known(t) # Absent
      BY <1>1, <1>2 DEF NotedThere
    <3>2. EntryOf(t) \in walk.query.filter
      BY <1>1, <3>1, KnownType DEF NotedThere, Steady
    <3> QED BY <3>1, <3>2 DEF Listed, There
  <2>2. PICK i \in 1..Len(listing) : listing[i].symbol = t
    BY <1>8, <2>1
  <2>3. At[t] = i - 1 /\ Len(listing) \in Nat
    BY <1>8, <2>2
  <2>4. At[t] < walk.offset + limit
    BY <1>2, <1>4, <2>3
  <2> QED BY <1>18, <2>1, <2>4
<1> QED BY <1>15, <1>16, <1>19, <1>20, <1>21 DEF WalkInv

\* An entry that is put into the map is new, or the same as before, or replaces another.
LEMMA InsertOK ==
  ASSUME Inv, Inv', FiniteCatalog, FiniteCatalog', WalkInv, NEW a \in Adders, Insert(a)
  PROVE  WalkInv'
<1>0. PICK t \in Tickers, n \in Names : t = adding[a].symbol /\ n = adding[a].name
  BY DEF Inv, Ready, Insert, Entry
<1>1. t \in Tickers /\ n \in Names /\ n # Absent
  BY SymbolsAssumption
<1>2. symbols' = [symbols EXCEPT ![t] = n] /\ walk' = Observe(t, n)
  BY <1>0 DEF Insert
<1>3. Known(t)' = n /\ \A u \in Tickers \ {t} : Known(u)' = Known(u)
  BY <1>1, <1>2 DEF Known, Inv, Shape
<1>4. CASE walk' = walk /\ Known(t) = n
  <2>1. \A u \in Tickers : Known(u)' = Known(u)
    BY <1>3, <1>4
  <2> QED BY <1>4, <2>1, SameWalk
<1>5. CASE ~walk.on
  <2>1. walk' = walk
    BY <1>2, <1>5 DEF Observe
  <2> QED BY <1>5, <2>1 DEF WalkInv, WalkType, NotedThere, SeenSoFar, SeenOnce, WalkMissesNothing
<1>6. CASE walk.on /\ Known(t) # n /\ Known(t) = Absent
  <2>1. walk' = [walk EXCEPT !.added = @ \cup {t}]
    BY <1>2, <1>6 DEF Observe
  <2>2. WalkType /\ NotedThere /\ SeenSoFar /\ WalkMissesNothing
    BY DEF WalkInv
  <2>3. /\ walk'.query = walk.query /\ walk'.seen = walk.seen /\ walk'.offset = walk.offset
        /\ walk'.done = walk.done /\ walk'.noted = walk.noted /\ walk'.replaced = walk.replaced
        /\ walk'.gone = walk.gone /\ walk'.added # {} /\ walk'.on = walk.on /\ walk.noted \in SUBSET Tickers /\ walk.offset \in Nat
    BY <1>6, <2>1, <2>2 DEF WalkType
  <2>4. WalkType'
    BY <1>1, <1>6, <2>1, <2>2 DEF WalkType
  <2>5. walk.gone = {} => t \notin walk.noted
    BY <1>6, <2>2 DEF NotedThere
  <2>6. \A u \in Tickers \ {t} : EntryOf(u)' = EntryOf(u)
    BY <1>3 DEF EntryOf
  <2>7. NotedThere'
    BY <1>3, <2>2, <2>3, <2>5, <2>6 DEF NotedThere
  <2>8. Steady' = Steady
    BY <2>3 DEF Steady
  <2>9. /\ Listed' \subseteq Listed \cup {t}
        /\ \A u \in Listed : At[u] \in Nat /\ At'[u] \in Nat /\ At[u] <= At'[u]
    BY <1>1, <1>3, <1>6, <2>3, AddedPlaces
  <2>10. SeenSoFar'
    <3> SUFFICES ASSUME Steady, walk.gone = {}, NEW u \in Listed', u \in walk.noted, At'[u] < walk.offset
                 PROVE  u \in ToSet(walk.seen)
      BY <2>3, <2>8 DEF SeenSoFar
    <3>1. u \in Listed
      BY <2>5, <2>9
    <3>2. At[u] < walk.offset
      BY <2>3, <2>9, <3>1
    <3> QED BY <1>6, <2>2, <3>1, <3>2 DEF SeenSoFar
  <2>11. SeenOnce'
    BY <2>3 DEF SeenOnce
  <2>12. WalkMissesNothing'
    BY <2>2, <2>3, <2>8 DEF WalkMissesNothing
  <2> QED BY <2>4, <2>7, <2>10, <2>11, <2>12 DEF WalkInv
<1>7. CASE walk.on /\ Known(t) # n /\ Known(t) # Absent
  <2>1. walk' = [walk EXCEPT !.replaced = @ \cup {t}]
    BY <1>2, <1>7 DEF Observe
  <2>2. WalkType /\ NotedThere /\ SeenSoFar /\ SeenOnce /\ WalkMissesNothing
    BY DEF WalkInv
  <2>3. /\ walk'.query = walk.query /\ walk'.seen = walk.seen /\ walk'.offset = walk.offset
        /\ walk'.done = walk.done /\ walk'.noted = walk.noted /\ walk'.added = walk.added
        /\ walk'.gone = walk.gone /\ walk'.replaced # {} /\ walk'.on = walk.on /\ walk.noted \in SUBSET Tickers
    BY <1>7, <2>1, <2>2 DEF WalkType
  <2>4. WalkType'
    BY <1>1, <1>7, <2>1, <2>2 DEF WalkType
  <2>5. NotedThere'
    BY <1>1, <1>3, <2>2, <2>3 DEF NotedThere
  <2>6. Steady' => Steady /\ walk.query.sort = "symbol" /\ walk.query.filter = Entry
    BY <2>3 DEF Steady
  <2>7. Steady' => Listed' = Listed /\ At' = At
    <3>1. \A u \in Tickers : Known(u)' = Absent <=> Known(u) = Absent
      BY <1>1, <1>3, <1>7
    <3> QED BY <2>3, <2>6, <3>1, ReplacedPlaces DEF Inv
  <2>8. SeenSoFar' /\ SeenOnce' /\ WalkMissesNothing'
    BY <1>7, <2>2, <2>3, <2>6, <2>7 DEF SeenSoFar, SeenOnce, WalkMissesNothing
  <2> QED BY <2>4, <2>5, <2>8 DEF WalkInv
<1>8. walk.on /\ Known(t) = n => walk' = walk
  BY <1>2 DEF Observe
<1> QED BY <1>4, <1>5, <1>6, <1>7, <1>8

\* A restart takes entries away and brings built-in ones back; what is left of what was seen
\* stays behind the offset.
LEMMA CrashOK ==
  ASSUME Inv, Inv', FiniteCatalog, FiniteCatalog', WalkInv, Crash PROVE WalkInv'
<1>1. CASE ~walk.on
  <2>1. walk' = walk
    BY <1>1 DEF Crash
  <2> QED BY <1>1, <2>1 DEF WalkInv, WalkType, NotedThere, SeenSoFar, SeenOnce, WalkMissesNothing
<1>2. CASE walk.on
  <2>1. WalkType /\ NotedThere /\ SeenSoFar /\ SeenOnce /\ WalkMissesNothing
    BY DEF WalkInv
  <2>2. walk' = [walk EXCEPT !.gone = @ \cup Vanishing, !.replaced = @ \cup Reverting]
    BY <1>2 DEF Crash
  <2>3. /\ walk'.query = walk.query /\ walk'.seen = walk.seen /\ walk'.offset = walk.offset
        /\ walk'.done = walk.done /\ walk'.noted = walk.noted /\ walk'.added = walk.added
        /\ walk'.on = walk.on /\ walk.noted \in SUBSET Tickers
        /\ walk'.gone = walk.gone \cup Vanishing /\ walk'.replaced = walk.replaced \cup Reverting
    BY <1>2, <2>1, <2>2 DEF WalkType
  <2>4. WalkType'
    <3>1. Vanishing \in SUBSET Tickers /\ Reverting \in SUBSET Tickers
      BY DEF Vanishing, Reverting
    <3> QED BY <1>2, <2>1, <2>2, <3>1 DEF WalkType
  <2>5. \A u \in Tickers : Known(u)' = Builtin[u]
    BY DEF Crash, Known
  <2>6. ASSUME NEW u \in Tickers
        PROVE  /\ Known(u)' # Absent => Known(u) # Absent
               /\ u \notin Vanishing => (Known(u)' = Absent <=> Known(u) = Absent)
               /\ u \notin Reverting /\ Known(u)' # Absent => Known(u)' = Known(u)
    BY <2>5 DEF Known, Vanishing, Reverting
  <2>7. Steady' => Steady
    BY <2>3 DEF Steady
  <2>8. NotedThere'
    <3> SUFFICES ASSUME walk'.gone = {}, NEW t \in walk.noted
                 PROVE  Known(t)' # Absent /\ (walk'.replaced = {} => EntryOf(t)' \in walk.query.filter)
      BY <2>3 DEF NotedThere
    <3>1. t \in Tickers /\ t \notin Vanishing /\ walk.gone = {}
      BY <2>3
    <3>2. Known(t) # Absent /\ (walk.replaced = {} => EntryOf(t) \in walk.query.filter)
      BY <1>2, <2>1, <3>1 DEF NotedThere
    <3>3. Known(t)' # Absent
      BY <2>6, <3>1, <3>2
    <3>4. ASSUME walk'.replaced = {} PROVE EntryOf(t)' = EntryOf(t) /\ walk.replaced = {}
      <4>1. walk.replaced = {} /\ t \notin Reverting
        BY <2>3, <3>4
      <4>2. Known(t)' = Known(t)
        BY <2>6, <3>1, <3>3, <4>1
      <4> QED BY <4>1, <4>2 DEF EntryOf
    <3> QED BY <3>2, <3>3, <3>4
  <2>9. SeenSoFar'
    <3> SUFFICES ASSUME Steady', walk'.gone = {}, NEW t \in Listed', t \in walk.noted,
                        At'[t] < walk.offset
                 PROVE  t \in ToSet(walk.seen)
      BY <2>3 DEF SeenSoFar
    <3>1. walk.gone = {} /\ Steady /\ \A u \in Tickers : Known(u)' = Absent <=> Known(u) = Absent
      BY <2>3, <2>6, <2>7
    <3>2. CASE walk'.replaced = {}
      <4>1. \A u \in Tickers : Known(u)' = Known(u)
        BY <2>3, <2>6, <3>1, <3>2
      <4>2. Listed' = Listed /\ At' = At
        BY <2>3, <4>1, SamePlaces
      <4> QED BY <1>2, <2>1, <3>1, <4>2 DEF SeenSoFar
    <3>3. CASE walk.query.sort = "symbol" /\ walk.query.filter = Entry
      <4>1. Listed' = Listed /\ At' = At
        BY <2>3, <3>1, <3>3, ReplacedPlaces DEF Inv
      <4> QED BY <1>2, <2>1, <3>1, <4>1 DEF SeenSoFar
    <3> QED BY <2>3, <3>2, <3>3 DEF Steady
  <2>10. SeenOnce'
    <3> SUFFICES ASSUME Steady', walk.added = {}
                 PROVE  /\ IsInjective(walk.seen)
                        /\ \A i \in DOMAIN walk.seen :
                             walk.seen[i] \in Listed' => At'[walk.seen[i]] < walk.offset
      BY <2>3 DEF SeenOnce
    <3>1. /\ IsInjective(walk.seen)
          /\ \A i \in DOMAIN walk.seen : walk.seen[i] \in Listed => At[walk.seen[i]] < walk.offset
      BY <1>2, <2>1, <2>7 DEF SeenOnce
    <3>2. \/ \A u \in Tickers : Known(u)' # Absent => Known(u)' = Known(u)
          \/ walk.query.sort = "symbol" /\ walk.query.filter = Entry
      BY <2>3, <2>6 DEF Steady
    <3>3. /\ Listed' \subseteq Listed
          /\ \A u \in Listed' : At[u] \in Nat /\ At'[u] \in Nat /\ At'[u] <= At[u]
      BY <2>3, <2>6, <3>2, RemovedPlaces DEF Inv
    <3>4. walk.offset \in Nat
      BY <1>2, <2>1 DEF WalkType
    <3>5. ASSUME NEW i \in DOMAIN walk.seen, walk.seen[i] \in Listed'
          PROVE  At'[walk.seen[i]] < walk.offset
      <4>1. At[walk.seen[i]] < walk.offset
        BY <3>1, <3>3, <3>5
      <4> QED BY <3>3, <3>4, <3>5, <4>1
    <3> QED BY <3>1, <3>5
  <2>11. WalkMissesNothing'
    <3>1. walk'.gone = {} => walk.gone = {}
      BY <2>3
    <3> QED BY <1>2, <2>1, <2>3, <2>7, <3>1 DEF WalkMissesNothing
  <2> QED BY <2>4, <2>8, <2>9, <2>10, <2>11 DEF WalkInv
<1> QED BY <1>1, <1>2

\* The catalog starts with the built-in one and grows by one symbol at a time.
LEMMA CatalogStaysFinite == Inv /\ FiniteCatalog /\ [Next]_vars => FiniteCatalog'
<1> SUFFICES ASSUME Inv, FiniteCatalog, [Next]_vars PROVE FiniteCatalog'
  OBVIOUS
<1> DEFINE K == {t \in Tickers : Known(t) # Absent}
<1>1. CASE symbols' = symbols
  <2>1. K' = K
    BY <1>1 DEF Known
  <2> HIDE DEF K
  <2> QED BY <2>1 DEF FiniteCatalog, K
<1>2. ASSUME NEW a \in Adders, Insert(a) PROVE FiniteCatalog'
  <2>1. K' \subseteq K \cup {adding[a].symbol}
    BY <1>2 DEF Insert, Known, Inv, Shape
  <2>2. IsFiniteSet(K \cup {adding[a].symbol})
    BY FS_AddElement DEF FiniteCatalog
  <2>3. IsFiniteSet(K')
    <3> HIDE DEF K
    <3> QED BY <2>1, <2>2, FS_Subset
  <2> QED BY <2>3 DEF FiniteCatalog
<1>3. CASE Crash
  <2>1. K' = {t \in Tickers : Builtin[t] # Absent}
    BY <1>3 DEF Crash, Known
  <2>2. IsFiniteSet(K')
    BY <2>1, SymbolsAssumption
  <2> QED BY <2>2 DEF FiniteCatalog
<1>4. CASE \/ \E a \in Adders : AddSymbol(a) \/ Mark(a) \/ MarkFails(a)
           \/ StartWalk \/ ListSymbols \/ EndWalk \/ UNCHANGED vars
  BY <1>1, <1>4 DEF AddSymbol, Mark, MarkFails, StartWalk, ListSymbols, EndWalk, vars
<1> QED BY <1>2, <1>3, <1>4 DEF Next

\* Every step keeps what holds of the walk.
LEMMA WalkNext ==
  Inv /\ FiniteCatalog /\ WalkInv /\ [Next]_vars /\ Inv' /\ FiniteCatalog' => WalkInv'
<1> SUFFICES ASSUME Inv, FiniteCatalog, WalkInv, [Next]_vars, Inv', FiniteCatalog' PROVE WalkInv'
  OBVIOUS
<1>1. CASE symbols' = symbols /\ walk' = walk
  <2>1. \A u \in Tickers : Known(u)' = Known(u)
    BY <1>1 DEF Known
  <2> QED BY <1>1, <2>1, SameWalk
<1>2. CASE EndWalk
  <2>1. walk' = NoWalk
    BY <1>2 DEF EndWalk
  <2>2. walk'.on = FALSE
    BY <2>1 DEF NoWalk
  <2> QED BY <2>2 DEF WalkInv, WalkType, NotedThere, SeenSoFar, SeenOnce, WalkMissesNothing
<1>3. CASE (\E a \in Adders : AddSymbol(a) \/ Mark(a) \/ MarkFails(a)) \/ UNCHANGED vars
  BY <1>1, <1>3 DEF AddSymbol, Mark, MarkFails, vars
<1>4. CASE StartWalk \/ ListSymbols
  BY <1>4, StartWalkOK, ListSymbolsOK DEF Inv
<1>5. ASSUME NEW a \in Adders, Insert(a) PROVE WalkInv'
  BY <1>5, InsertOK
<1>6. CASE Crash
  BY <1>6, CrashOK
<1> QED BY <1>2, <1>3, <1>4, <1>5, <1>6 DEF Next

\* The invariant holds at the start, where nobody walks.
LEMMA WalkInit == Init => Inv /\ FiniteCatalog /\ WalkInv
<1> SUFFICES ASSUME Init PROVE Inv /\ FiniteCatalog /\ WalkInv
  OBVIOUS
<1>1. Inv
  BY SymbolsAssumption DEF Init, Inv, Shape, Ready, AddedIsWatched
<1>2. FiniteCatalog
  <2>1. {t \in Tickers : Known(t) # Absent} = {t \in Tickers : Builtin[t] # Absent}
    BY DEF Init, Known
  <2> QED BY <2>1, SymbolsAssumption DEF FiniteCatalog
<1>3. WalkInv
  BY DEF Init, NoWalk, WalkInv, WalkType, NotedThere, SeenSoFar, SeenOnce, WalkMissesNothing
<1> QED BY <1>1, <1>2, <1>3

\* What holds of a walk always holds.
LEMMA WalkHolds == Spec => [](Inv /\ FiniteCatalog /\ WalkInv)
<1>1. Inv /\ FiniteCatalog /\ WalkInv /\ [Next]_vars => (Inv /\ FiniteCatalog /\ WalkInv)'
  BY StepKeepsInv, CatalogStaysFinite, WalkNext
<1> QED BY <1>1, WalkInit, PTL DEF Spec

\* A client that takes page after page sees every entry there was when it began, whatever is
\* added meanwhile, in a catalog of any size, with pages of any length and across any restarts
\* that take no entry away: what moves, moves away from the offset, and the comparison of
\* sortSymbols leaves nothing to the map's order.
THEOREM MissesNothing == Spec => []WalkMissesNothing
<1>1. WalkInv => WalkMissesNothing
  BY DEF WalkInv
<1> QED BY <1>1, WalkHolds, PTL

\* It sees none twice as long as nothing is added or becomes another meanwhile, across any
\* restarts: what they take away moves the rest ahead of the offset, never behind it.
THEOREM RepeatsNothing == Spec => []WalkRepeatsNothing
<1>1. WalkInv => WalkRepeatsNothing
  BY DEF WalkInv, SeenOnce, WalkRepeatsNothing
<1> QED BY <1>1, WalkHolds, PTL
------------------------------------------------------------------------------
(* Searches. *)

\* An order of the matches has each of them once.
LEMMA EachMatchOnce ==
  ASSUME NEW L, IsFiniteSet(L), NEW s \in SetToSeqs(L)
  PROVE  /\ Cardinality(L) \in Nat /\ s \in [1..Cardinality(L) -> L]
         /\ \A i, j \in 1..Cardinality(L) : s[i] = s[j] => i = j
         /\ \A e \in L : \E i \in 1..Cardinality(L) : s[i] = e
<1> DEFINE n == Cardinality(L)
<1>1. n \in Nat
  BY FS_CardinalityType
<1>2. s \in [1..n -> L] /\ \A i, j \in 1..n : s[i] = s[j] => i = j
  BY DEF SetToSeqs
<1>3. s \in Injection(1..n, L) /\ Cardinality(1..n) = n
  <2>1. s \in Injection(1..n, L)
    BY <1>2 DEF Injection, IsInjective
  <2>2. Cardinality(1..n) = n
    BY <1>1, FS_Interval
  <2> QED BY <2>1, <2>2
<1>4. s \in Surjection(1..n, L)
  BY <1>3, FS_Injection
<1> QED BY <1>1, <1>2, <1>4 DEF Surjection

\* An answer to a search for t has the text's own entry first, any other match once, and no
\* symbol twice.
LEMMA SearchFinds ==
  ASSUME FiniteCatalog, NEW t \in Tickers, NEW f, NEW results \in SearchSymbols(t, f)
  PROVE  /\ IsInjective([i \in DOMAIN results |-> results[i].symbol])
         /\ {e \in ToSet(results) : e.symbol # t} = {e \in AllSymbols \cap f : e.symbol # t}
         /\ results[1].symbol = t
<1> DEFINE found == AllSymbols \cap (f \cup {e \in Entry : e.symbol = t})
           bare == [symbol |-> t, name |-> Absent]
           n == Cardinality(found)
<1>1. PICK s \in SetToSeqs(found) : results = dedupeSymbols(<<bare>> \o s)
  BY DEF SearchSymbols
<1>2. \A d, e \in AllSymbols : d.symbol = e.symbol => d = e
  BY DEF AllSymbols
<1>3. IsFiniteSet(found)
  <2> DEFINE T == {u \in Tickers : Known(u) # Absent}
             g == [u \in T |-> [symbol |-> u, name |-> Known(u)]]
  <2>1. g \in Surjection(T, AllSymbols)
    BY DEF AllSymbols, Surjection
  <2>2. found \subseteq AllSymbols
    OBVIOUS
  <2> HIDE DEF found, g
  <2>3. IsFiniteSet(AllSymbols)
    BY <2>1, FS_Surjection DEF FiniteCatalog
  <2> QED BY <2>2, <2>3, FS_Subset
<1>4. \A e \in found : e \in AllSymbols /\ (e.symbol # t => e \in f)
  OBVIOUS
<1>5. \A e \in AllSymbols \cap f : e \in found
  OBVIOUS
<1>6. bare.symbol = t
  OBVIOUS
<1> HIDE DEF found, bare
<1>7. /\ n \in Nat /\ s \in [1..n -> found]
      /\ \A i, j \in 1..n : s[i] = s[j] => i = j
      /\ \A e \in found : \E i \in 1..n : s[i] = e
  BY <1>1, <1>3, EachMatchOnce
<1> HIDE DEF n
<1>8. PICK r : r = <<bare>> \o s
  OBVIOUS
<1>9. /\ DOMAIN r = 1..(n + 1) /\ r[1] = bare
      /\ \A i \in 1..(n + 1) : i # 1 => i - 1 \in 1..n /\ r[i] = s[i - 1]
  <2>1. s \in Seq(found) /\ Len(s) = n
    BY <1>7, SeqDef
  <2>2. Len(<<bare>>) = 1 /\ <<bare>>[1] = bare
    OBVIOUS
  <2>3. /\ Len(r) = 1 + n /\ DOMAIN r = 1..(1 + n)
        /\ \A i \in 1..(1 + n) : r[i] = IF i <= 1 THEN <<bare>>[i] ELSE s[i - 1]
    BY <1>8, <2>1, <2>2
  <2> QED BY <1>7, <2>2, <2>3
<1> DEFINE I == {i \in DOMAIN r : \A j \in 1..(i - 1) : r[j].symbol # r[i].symbol}
<1>10. results = Selected(r, I)
  BY <1>1, <1>8 DEF dedupeSymbols
<1>11. /\ I \subseteq 1..(n + 1)
       /\ \A i \in I : \A j \in I : j < i => r[j].symbol # r[i].symbol
  <2>1. I \subseteq 1..(n + 1)
    BY <1>9
  <2>2. ASSUME NEW i \in 1..(n + 1), NEW j \in 1..(n + 1), j < i PROVE j \in 1..(i - 1)
    BY <1>7, <2>2
  <2>3. ASSUME NEW i \in I, NEW j \in I, j < i PROVE r[j].symbol # r[i].symbol
    <3>1. j \in 1..(i - 1)
      BY <2>1, <2>2, <2>3
    <3> QED BY <3>1
  <2> QED BY <2>1, <2>3
<1>12. 1 \in I
  BY <1>7, <1>9
<1>13. \A i \in 1..(n + 1) : r[i].symbol # t => i \in I
  <2> SUFFICES ASSUME NEW i \in 1..(n + 1), r[i].symbol # t, NEW j \in 1..(i - 1),
                      r[j].symbol = r[i].symbol
               PROVE  FALSE
    BY <1>9
  <2>1. j \in 1..(n + 1) /\ j # i /\ i # 1 /\ j # 1
    BY <1>6, <1>7, <1>9
  <2>2. i - 1 \in 1..n /\ j - 1 \in 1..n /\ r[i] = s[i - 1] /\ r[j] = s[j - 1]
    BY <1>9, <2>1
  <2>3. s[i - 1] = s[j - 1]
    BY <1>2, <1>4, <1>7, <2>2
  <2>4. i - 1 = j - 1
    BY <1>7, <2>2, <2>3
  <2> QED BY <2>1, <2>4
<1> HIDE DEF I
<1>14. IsFiniteSet(I) /\ I \subseteq Int
  <2>1. IsFiniteSet(1..(n + 1)) /\ 1..(n + 1) \subseteq Int
    BY <1>7, FS_Interval
  <2>2. I \subseteq 1..(n + 1)
    BY <1>11
  <2>3. IsFiniteSet(I)
    BY <2>1, <2>2, FS_Subset
  <2> QED BY <2>1, <2>2, <2>3
<1>15. DOMAIN results = 1..Cardinality(I)
  BY <1>10 DEF Selected
<1>16. ASSUME NEW k \in 1..Cardinality(I)
       PROVE  Nth(I, k) \in I /\ Rank(I, Nth(I, k)) = k /\ results[k] = r[Nth(I, k)]
  BY <1>10, <1>14, NthOf DEF Selected
<1>17. ASSUME NEW i \in I
       PROVE  Rank(I, i) \in 1..Cardinality(I) /\ results[Rank(I, i)] = r[i]
  BY <1>14, <1>16, RankType, NthRank
<1>18. IsInjective([k \in DOMAIN results |-> results[k].symbol])
  <2>1. ASSUME NEW a \in 1..Cardinality(I), NEW b \in 1..Cardinality(I),
               results[a].symbol = results[b].symbol
        PROVE  a = b
    <3>1. Nth(I, a) \in Int /\ Nth(I, b) \in Int
      BY <1>14, <1>16
    <3>2. ~(Nth(I, a) < Nth(I, b)) /\ ~(Nth(I, b) < Nth(I, a))
      BY <1>11, <1>16, <2>1
    <3>3. Nth(I, a) = Nth(I, b)
      BY <3>1, <3>2
    <3> QED BY <1>16, <3>3
  <2> QED BY <1>15, <2>1 DEF IsInjective
<1>19. results[1].symbol = t
  <2>1. {y \in I : y <= 1} = {1}
    <3>1. \A y \in 1..(n + 1) : y <= 1 <=> y = 1
      BY <1>7
    <3> QED BY <1>11, <1>12, <3>1
  <2>2. Rank(I, 1) = 1
    BY <2>1, FS_Singleton DEF Rank
  <2> QED BY <1>6, <1>9, <1>12, <1>17, <2>2
<1>20. {e \in ToSet(results) : e.symbol # t} = {e \in AllSymbols \cap f : e.symbol # t}
  <2>1. ASSUME NEW k \in 1..Cardinality(I), results[k].symbol # t
        PROVE  results[k] \in AllSymbols \cap f
    <3>1. PICK i \in I : results[k] = r[i]
      BY <1>16
    <3>2. i \in 1..(n + 1) /\ i # 1
      BY <1>6, <1>9, <1>11, <2>1, <3>1
    <3>3. results[k] \in found
      BY <1>7, <1>9, <3>1, <3>2
    <3> QED BY <1>4, <2>1, <3>3
  <2>2. ASSUME NEW e \in AllSymbols \cap f, e.symbol # t
        PROVE  \E k \in 1..Cardinality(I) : results[k] = e
    <3>1. PICK j \in 1..n : s[j] = e
      BY <1>5, <1>7
    <3>2. j + 1 \in 1..(n + 1) /\ r[j + 1] = e
      <4>1. j + 1 \in 1..(n + 1) /\ j + 1 # 1 /\ (j + 1) - 1 = j
        BY <1>7
      <4> QED BY <1>9, <3>1, <4>1
    <3> QED BY <1>13, <1>17, <2>2, <3>2
  <2> QED BY <1>15, <2>1, <2>2 DEF ToSet
<1> QED BY <1>18, <1>19, <1>20

\* A search finds, besides the text itself, exactly what the listing has, each symbol once and
\* as the listing has it, in whatever order the map yields the matches.
THEOREM SearchHolds == Spec => []SearchFindsListed
<1>1. FiniteCatalog => SearchFindsListed
  BY SearchFinds DEF SearchFindsListed
<1> QED BY <1>1, WalkHolds, PTL
==============================================================================
