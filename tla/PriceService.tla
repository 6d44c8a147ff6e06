----------------------------- MODULE PriceService -----------------------------
(***************************************************************************)
(* What callers of the price service may rely on, whatever happens inside  *)
(* it: a call is answered once, with an error its query deserves or with   *)
(* bars that fit the query; bars said to be persisted are kept; kept bars  *)
(* are never lost; and nothing is kept that no call in progress could have *)
(* fetched.  Historical implements it (HistoricalPromise), PriceApi builds *)
(* on it.                                                                  *)
(***************************************************************************)
CONSTANTS
  Clients,       \* who calls, one call at a time each
  Requests,      \* the queries
  Wanted(_),     \* Wanted(q): the bars that fit query q
  Fetchable(_),  \* Fetchable(q): the bars a call with query q may fetch
  ErrorOf(_),    \* ErrorOf(q): how a call with query q ends that ends in an error
  Nothing        \* no call, no answer

VARIABLES
  asked,   \* each client's call in progress
  told,    \* its answer, Nothing until it is there
  kept     \* the bars kept

vars == <<asked, told, kept>>

Init ==
  /\ asked = [c \in Clients |-> Nothing]
  /\ told = [c \in Clients |-> Nothing]
  /\ kept = {}

\* An error is an answer without bars.
Refusal(q) == [error |-> ErrorOf(q), bars |-> {}, persisted |-> FALSE]

\* A good answer has at least one bar, all of them wanted, and kept when they are said to be.
Success(q) ==
  {a \in [error : {"none"}, bars : (SUBSET Wanted(q)) \ {{}}, persisted : BOOLEAN] :
     a.persisted => a.bars \subseteq kept}

\* A call begins; an invalid query is rejected on the spot.
Ask(c) == \E q \in Requests :
  /\ asked[c] = Nothing
  /\ asked' = [asked EXCEPT ![c] = q]
  /\ told' = IF ErrorOf(q) = "rejected" THEN [told EXCEPT ![c] = Refusal(q)] ELSE told
  /\ UNCHANGED kept

InProgress(c) == asked[c] # Nothing /\ told[c] = Nothing

\* A call in progress has fetched bars, and they are kept.
Keep(c) ==
  /\ InProgress(c)
  /\ \E B \in SUBSET Fetchable(asked[c]) : kept' = kept \cup B
  /\ UNCHANGED <<asked, told>>

Tell(c) ==
  /\ InProgress(c)
  /\ \E a \in {Refusal(asked[c])} \cup Success(asked[c]) : told' = [told EXCEPT ![c] = a]
  /\ UNCHANGED <<asked, kept>>

Leave(c) ==
  /\ told[c] # Nothing
  /\ asked' = [asked EXCEPT ![c] = Nothing]
  /\ told' = [told EXCEPT ![c] = Nothing]
  /\ UNCHANGED kept

\* The process starts again: calls in progress are lost, what is kept is not.
Restart ==
  /\ asked' = [c \in Clients |-> Nothing]
  /\ told' = [c \in Clients |-> Nothing]
  /\ UNCHANGED kept

Next == Restart \/ \E c \in Clients : Ask(c) \/ Keep(c) \/ Tell(c) \/ Leave(c)

Spec == Init /\ [][Next]_vars
==============================================================================
