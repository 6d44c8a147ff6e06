------------------------------ MODULE MCPriceApi ------------------------------
(* An instance of PriceApi for TLC. *)
EXTENDS PriceApi

CONSTANTS h1, h2, a1, aapl, blank, none

\* Two days of one symbol.
MCBars == {<<aapl, 1>>, <<aapl, 2>>}

Call(kind, symbols) == [kind |-> kind, symbols |-> symbols, unknown |-> "none", ok |-> TRUE]

\* Single requests: good ones, one of an unknown provider, one with an unknown name alone on
\* its priority list, one with an invalid range.  A batch that names the blank symbol twice,
\* first and last.
MCCalls ==
  {Call("historical", <<aapl>>), Call("latest", <<aapl>>),
   [Call("historical", <<aapl>>) EXCEPT !.unknown = "provider"],
   [Call("historical", <<aapl>>) EXCEPT !.unknown = "list"],
   [Call("latest", <<aapl>>) EXCEPT !.ok = FALSE],
   Call("batch", <<blank, aapl, blank>>)}
==============================================================================
