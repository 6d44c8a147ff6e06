----------------------------- MODULE MCHistorical -----------------------------
(* Instances of Historical for TLC. *)
EXTENDS HistoricalPromise, TLC

CONSTANTS h1, h2, feed, stooq, yfinance, YFINANCE, other, none, aapl, ibm

MCNames == {stooq, yfinance, YFINANCE, other}
MCRegistry == (stooq :> stooq) @@ (yfinance :> yfinance) @@ (YFINANCE :> yfinance) @@ (other :> none)

\* A query for all days without a provider or a priority list of its own.
Plain(s) == [series |-> s, provider |-> none, priority |-> <<>>, range |-> Days,
             valid |-> TRUE, wide |-> FALSE, refresh |-> FALSE]
Forced(s, n) == [Plain(s) EXCEPT !.provider = n]
Listed(s, l) == [Plain(s) EXCEPT !.priority = l]
Ranged(s, r) == [Plain(s) EXCEPT !.range = r]
Refresh(s, n) == [Forced(s, n) EXCEPT !.refresh = TRUE]

OneDay == {1}
TwoDays == {1, 2}
StooqFirst == <<stooq, yfinance>>
StooqOnly == <<stooq>>

\* Calls that exercise the breaker: the default list, a list naming one provider twice and
\* an unknown one, a forced provider, a wide intraday range, an empty range as a batch may
\* carry it, an unknown provider alone, and an invalid interval.
BreakerQueries ==
  {Plain(aapl), Listed(aapl, <<stooq, other, stooq>>), Forced(aapl, stooq),
   [Plain(aapl) EXCEPT !.wide = TRUE], Ranged(aapl, {}), Forced(aapl, other), [Plain(aapl) EXCEPT !.valid = FALSE]}

\* Calls that exercise cache and database: all days and one day, a forced provider, a
\* second series, and the feed's refresh.
DataQueries == {Plain(aapl), Ranged(aapl, {2}), Forced(aapl, yfinance), Plain(ibm), Refresh(aapl, none)}

\* Calls around a failing database: all days and one day, a forced provider in another
\* spelling, an unknown one, an invalid interval, and the feed's refreshes of what was marked.
FaultQueries ==
  {Plain(aapl), Ranged(aapl, {1}), Forced(aapl, YFINANCE), Forced(aapl, other),
   [Plain(aapl) EXCEPT !.valid = FALSE],
   Refresh(aapl, none), Refresh(aapl, YFINANCE)}

\* Calls that read what another call stored: all days after one day.
ReadBackQueries == {Plain(aapl), Ranged(aapl, {1})}

Symmetry == Permutations({h1, h2})

==============================================================================
