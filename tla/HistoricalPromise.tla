-------------------------- MODULE HistoricalPromise --------------------------
(***************************************************************************)
(* Historical implements PriceService: a worker's call is its client's, an *)
(* answer counts once Historical returns, and the bars kept are the rows   *)
(* of price_bars.                                                          *)
(***************************************************************************)
EXTENDS Historical

\* A bar is a series, a day and the provider it is from.
Bars == Series \X Days \X Providers

OfQuery(q) == {b \in Bars : b[1] = q.series /\ b[2] \in q.range}

Wanted(q) == {b \in OfQuery(q) : q.provider # None => b[3] = Registry[q.provider]}

Fetchable(q) ==
  {b \in OfQuery(q) : \E i \in DOMAIN PriorityOf(q) : b[3] = Registry[PriorityOf(q)[i]]}

\* An unknown provider is an error of its own only where the list names no other.
ErrorOf(q) ==
  IF ~q.valid \/ PriorityOf(q) = <<>> THEN "rejected"
  ELSE IF Len(PriorityOf(q)) = 1 /\ Registry[PriorityOf(q)[1]] = None THEN "unknown"
  ELSE "failed"

asked == [w \in Workers |-> IF pc[w] = "idle" THEN None ELSE qry[w]]

\* The answer as its caller sees it: an error, or the bars.
AnswerOf(w) ==
  [error |-> IF ans[w].source \in {"rejected", "unknown", "failed"} THEN ans[w].source ELSE "none",
   bars |-> {b \in Bars : b[1] = qry[w].series /\ b[3] = ans[w].bars[b[2]]},
   persisted |-> ans[w].persisted]

Answer == [error : {"none", "rejected", "unknown", "failed"}, bars : SUBSET Bars, persisted : BOOLEAN]

\* The sentinel is neither a call nor an answer.
ASSUME PromiseAssumption == None \notin Queries /\ None \notin Answer

told == [w \in Workers |-> IF pc[w] = "done" THEN AnswerOf(w) ELSE None]

kept == {b \in Bars : b[3] \in rows[b[1]][b[2]]}

Promise == INSTANCE PriceService WITH
  Clients <- Workers, Requests <- Queries, Nothing <- None

\* Historical keeps the promise of PriceService: one sound answer per call, errors only of
\* the kind the query deserves, nothing said to be persisted that is not, no stored bar lost
\* and none stored that was not asked for.
KeepsPromise == Promise!Spec
==============================================================================
