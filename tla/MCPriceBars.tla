----------------------------- MODULE MCPriceBars ------------------------------
(* Instances of PriceBars for TLC. *)
EXTENDS PriceBars

CONSTANTS h1, feed, none

Query(p, from, to) == [provider |-> p, from |-> from, to |-> to]

StooqFirst == <<"stooq", "yfinance", "openbb">>
YFinanceFirst == <<"yfinance", "stooq">>

\* Everything and each day alone, without a provider; up to the first day of one provider.
MCQueries ==
  {Query(none, 0, 0), Query(none, 2, 2), Query(none, 1, 1), Query("yfinance", 0, 1)}

Everything == {Query(none, 0, 0)}
WatchedAsSuch == <<Query(none, 0, 0)>>

\* The series is watched as such, and for the provider someone forced.
Watched == <<Query(none, 0, 0), Query("yfinance", 0, 0)>>
==============================================================================
