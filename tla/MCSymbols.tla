------------------------------ MODULE MCSymbols -------------------------------
(* An instance of Symbols for TLC. *)
EXTENDS Symbols, TLC

CONSTANTS a1, a2

Symmetry == Permutations(Adders)

\* 20 comes with the catalog, as does 40; 10 and 30 may be added.
Catalog == [t \in Tickers |-> IF t \in {20, 40} THEN 1 ELSE Absent]

Listed(field, order, names, limit) ==
  [sort |-> field, order |-> order, limit |-> limit,
   filter |-> {e \in Entry : e.name \in names}]

\* Both fields and orders; everything or one name; the limit left out, one, and too large.
EveryQuery ==
  {Listed(field, order, names, limit) :
     field \in {"symbol", "name"}, order \in {"asc", "desc"},
     names \in {Names, {1}}, limit \in {0, 1, 9}}
===============================================================================
