------------------------------- MODULE Symbols --------------------------------
(***************************************************************************)
(* The symbol catalog of Service: AddSymbol, which marks a symbol as       *)
(* watched in the database and then puts it into the map under the lock,   *)
(* and ListSymbols, which merges that map over the built-in catalog,       *)
(* filters, sorts and cuts out a page.  A client walks through the pages   *)
(* while others add symbols.                                               *)
(*                                                                         *)
(* Symbols and names are numbers, ordered as the strings they stand for.   *)
(* Everything of an entry but its symbol (name, exchange, currency,        *)
(* provider) is one value, its name; a filter is the set of the entries    *)
(* that pass it.                                                           *)
(***************************************************************************)
EXTENDS Integers, Sequences, SequencesExt, Selection

CONSTANTS
  Adders,        \* goroutines that serve POST /v1/symbols
  Tickers,       \* symbols
  Names,         \* what an entry may say besides its symbol
  Builtin,       \* symbolCatalog: the name of each ticker, or Absent
  HasStore,      \* POSTGRES_DSN is set
  Queries,       \* what clients list by: sort, order, filter, limit
  DefaultLimit,  \* 50
  MaxLimit,      \* 200
  MaxAdds,       \* bound: calls of AddSymbol
  MaxFaults,     \* bound: database statements that fail
  MaxCrashes     \* bound: process crashes

Absent == 0
Entry == [symbol : Tickers, name : Names]
QueryType == [sort : {"symbol", "name"}, order : {"asc", "desc"},
              filter : SUBSET Entry, limit : Int]

ASSUME SymbolsAssumption ==
  /\ Tickers \subseteq Nat
  /\ Names \subseteq Nat \ {Absent}
  /\ Builtin \in [Tickers -> Names \cup {Absent}]
  /\ IsFiniteSet({t \in Tickers : Builtin[t] # Absent})
  /\ HasStore \in BOOLEAN
  /\ Queries \subseteq QueryType
  /\ {DefaultLimit, MaxLimit} \subseteq Nat \ {0}
  /\ {MaxAdds, MaxFaults, MaxCrashes} \subseteq Nat

VARIABLES
  symbols,   \* Service.symbols: the name of each symbol added, or Absent
  watched,   \* the symbols of watched_symbols with interval 1d
  pc,        \* where each AddSymbol stands
  adding,    \* the entry each AddSymbol is about
  walk,      \* a client on its way through the pages
  adds, faults, crashes   \* counters of the bounds

bounds == <<adds, faults, crashes>>
vars   == <<symbols, watched, pc, adding, walk, bounds>>

NoWalk == [on |-> FALSE]

Init ==
  /\ symbols = [t \in Tickers |-> Absent]
  /\ watched = {}
  /\ pc = [a \in Adders |-> "idle"]
  /\ adding = [a \in Adders |-> <<>>]
  /\ walk = NoWalk
  /\ adds = 0 /\ faults = 0 /\ crashes = 0

-------------------------------------------------------------------------------
\* allSymbols: the symbols added at run time hide those built in.
Known(t) == IF symbols[t] # Absent THEN symbols[t] ELSE Builtin[t]
AllSymbols ==
  {[symbol |-> t, name |-> Known(t)] : t \in {u \in Tickers : Known(u) # Absent}}

SortValue(e, field) == IF field = "name" THEN e.name ELSE e.symbol

BeforeUntied(q, e, f) ==   \* mutant: equal values stay as the map yields them
  LET left == SortValue(e, q.sort)  right == SortValue(f, q.sort)
  IN IF q.order = "desc" THEN left > right ELSE left < right
\* The comparison of sortSymbols: by the field, symbols with equal values by symbol.
Before(q, e, f) ==
  LET tied  == SortValue(e, q.sort) = SortValue(f, q.sort)
      left  == IF tied THEN e.symbol ELSE SortValue(e, q.sort)
      right == IF tied THEN f.symbol ELSE SortValue(f, q.sort)
  IN IF q.order = "desc" THEN left > right ELSE left < right

\* What sorting can make of the filtered entries, which range over a map yields in any order.
Listings(q) ==
  {s \in SetToSeqs(AllSymbols \cap q.filter) :
     \A i, j \in DOMAIN s : i < j => ~Before(q, s[j], s[i])}

Limit(q) ==
  IF q.limit <= 0 THEN DefaultLimit ELSE IF q.limit > MaxLimit THEN MaxLimit ELSE q.limit

PageInclusive(listing, offset, limit) ==   \* mutant: the last index belongs to the page
  LET total == Len(listing)
      end   == offset + limit + 1
  IN SubSeq(listing, offset + 1, IF end > total THEN total ELSE end)
\* filtered[start:end], both cut to the length of the listing.
Page(listing, offset, limit) ==
  LET total == Len(listing)
      start == IF offset > total THEN total ELSE offset
      end   == IF start + limit > total THEN total ELSE start + limit
  IN SubSeq(listing, start + 1, end)

\* dedupeSymbols: of the entries with the same symbol the first is kept.
NoDedupe(results) == results   \* mutant: entries are only put together
dedupeSymbols(results) ==
  Selected(results, {i \in DOMAIN results :
                       \A j \in 1..(i - 1) : results[j].symbol # results[i].symbol})

\* SearchSymbols for the symbol t, which the entries of matches contain besides those of t
\* itself: a bare entry of t comes first, then the matches in the order the map yields them.
SearchSymbols(t, matches) ==
  LET found == AllSymbols \cap (matches \cup {e \in Entry : e.symbol = t}) IN
  {dedupeSymbols(<<[symbol |-> t, name |-> Absent]>> \o s) : s \in SetToSeqs(found)}

-------------------------------------------------------------------------------
\* AddSymbol of an entry with a symbol; without a store there is nothing to mark.
AddSymbol(a) ==
  /\ pc[a] = "idle"
  /\ adds < MaxAdds
  /\ adds' = adds + 1
  /\ \E e \in Entry : adding' = [adding EXCEPT ![a] = e]
  /\ pc' = [pc EXCEPT ![a] = IF HasStore THEN "mark" ELSE "insert"]
  /\ UNCHANGED <<symbols, watched, walk, faults, crashes>>

\* MarkWatched succeeds.
Mark(a) ==
  /\ pc[a] = "mark"
  /\ watched' = watched \cup {adding[a].symbol}
  /\ pc' = [pc EXCEPT ![a] = "insert"]
  /\ UNCHANGED <<symbols, adding, walk, bounds>>

MarkFailsUnseen(a) ==   \* mutant: the error is only logged
  /\ pc[a] = "mark"
  /\ faults < MaxFaults /\ faults' = faults + 1
  /\ pc' = [pc EXCEPT ![a] = "insert"]
  /\ UNCHANGED <<symbols, watched, adding, walk, adds, crashes>>
\* MarkWatched reports an error, its statement committed or not: AddSymbol returns it.
MarkFails(a) ==
  /\ pc[a] = "mark"
  /\ faults < MaxFaults /\ faults' = faults + 1
  /\ watched' \in {watched, watched \cup {adding[a].symbol}}
  /\ pc' = [pc EXCEPT ![a] = "idle"]
  /\ adding' = [adding EXCEPT ![a] = <<>>]
  /\ UNCHANGED <<symbols, walk, adds, crashes>>

\* What an insertion does to a walk under way: an entry is new, or another than it was.
Observe(t, n) ==
  IF ~walk.on \/ Known(t) = n THEN walk
  ELSE IF Known(t) = Absent THEN [walk EXCEPT !.added = @ \cup {t}]
  ELSE [walk EXCEPT !.replaced = @ \cup {t}]

\* The entry is put into the map under the lock, over one of the same symbol.
Insert(a) ==
  /\ pc[a] = "insert"
  /\ LET e == adding[a] IN
       /\ symbols' = [symbols EXCEPT ![e.symbol] = e.name]
       /\ walk' = Observe(e.symbol, e.name)
  /\ pc' = [pc EXCEPT ![a] = "idle"]
  /\ adding' = [adding EXCEPT ![a] = <<>>]
  /\ UNCHANGED <<watched, bounds>>

\* What a restart does to the entries: those only added are gone, those that hid another
\* built-in entry are as they were built in.
Vanishing == {t \in Tickers : symbols[t] # Absent /\ Builtin[t] = Absent}
Reverting == {t \in Tickers : symbols[t] # Absent /\ Builtin[t] \notin {Absent, symbols[t]}}

\* The process is killed and started again: the map is empty, the rows are still there.  A
\* client outside goes on with its walk at the offset it has reached.
Crash ==
  /\ crashes < MaxCrashes /\ crashes' = crashes + 1
  /\ symbols' = [t \in Tickers |-> Absent]
  /\ pc' = [a \in Adders |-> "idle"]
  /\ adding' = [a \in Adders |-> <<>>]
  /\ walk' = IF walk.on
             THEN [walk EXCEPT !.gone = @ \cup Vanishing, !.replaced = @ \cup Reverting]
             ELSE walk
  /\ UNCHANGED <<watched, adds, faults>>

\* A client begins to list; it remembers what there was to see.
StartWalk ==
  /\ walk = NoWalk
  /\ \E q \in Queries :
       walk' = [on |-> TRUE, query |-> q, offset |-> 0, seen |-> <<>>, done |-> FALSE,
                noted |-> {e.symbol : e \in AllSymbols \cap q.filter},
                added |-> {}, replaced |-> {}, gone |-> {}]
  /\ UNCHANGED <<symbols, watched, pc, adding, bounds>>

\* ListSymbols: one page; the client goes on while the total says there is more.
ListSymbols ==
  /\ walk.on
  /\ ~walk.done
  /\ \E listing \in Listings(walk.query) :
       LET limit == Limit(walk.query)
           page  == Page(listing, walk.offset, limit) IN
         walk' = [walk EXCEPT !.seen = @ \o [i \in DOMAIN page |-> page[i].symbol],
                              !.offset = @ + limit,
                              !.done = walk.offset + limit >= Len(listing)]
  /\ UNCHANGED <<symbols, watched, pc, adding, bounds>>

EndWalk ==
  /\ walk.on
  /\ walk.done
  /\ walk' = NoWalk
  /\ UNCHANGED <<symbols, watched, pc, adding, bounds>>

Next ==
  \/ \E a \in Adders : AddSymbol(a) \/ Mark(a) \/ MarkFails(a) \/ Insert(a)
  \/ Crash
  \/ StartWalk
  \/ ListSymbols
  \/ EndWalk

Spec == Init /\ [][Next]_vars

-------------------------------------------------------------------------------
\* README.md, "Add a symbol": with a database every symbol added at run time is watched, in
\* whatever order overlapping AddSymbol calls, failing statements and restarts come
\* (Service.AddSymbol marks before it inserts).
AddedIsWatched == HasStore => \A t \in Tickers : symbols[t] # Absent => t \in watched

\* Positions in the listing change only by entries that come or go: nothing an entry says but
\* its symbol counts, or none has become another since the walk began, by an addition over it
\* or because a restart brought the built-in one back.
Steady == walk.replaced = {} \/ (walk.query.sort = "symbol" /\ walk.query.filter = Entry)

\* A client that takes page after page of ListSymbols sees every entry that was there when it
\* began, whatever is added meanwhile, as long as no entry becomes one that sorts or filters
\* otherwise and no restart takes an added one away, which would move those behind it ahead
\* of the offset; a restart that takes nothing away does no harm.  Map iteration order must
\* not show.
WalkMissesNothing ==
  walk.on /\ walk.done /\ Steady /\ walk.gone = {} =>
    walk.noted \subseteq ToSet(walk.seen)

\* It sees none twice as long as nothing is added and no entry becomes another meanwhile, also
\* across a restart that takes entries away: whatever moves then moves ahead of the offset.
WalkRepeatsNothing ==
  walk.on /\ Steady /\ walk.added = {} => IsInjective(walk.seen)

\* openapi.yaml:153, an added symbol "appears in symbol listing and search responses": a search
\* finds, besides the text itself, exactly the symbols the listing has under the same filter,
\* each once and as the listing has it; only the text's own entry is bare.
SearchFindsListed ==
  \A t \in Tickers : \A f \in {q.filter : q \in Queries} : \A results \in SearchSymbols(t, f) :
    /\ IsInjective([i \in DOMAIN results |-> results[i].symbol])
    /\ {e \in ToSet(results) : e.symbol # t} = {e \in AllSymbols \cap f : e.symbol # t}
    /\ results[1].symbol = t
===============================================================================
