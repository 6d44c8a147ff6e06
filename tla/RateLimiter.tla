----------------------------- MODULE RateLimiter -----------------------------
(***************************************************************************)
(* Server.allow and rateLimiter.allow: a counter per remote address in     *)
(* fixed windows of one minute.  A handler reads the window it belongs to  *)
(* before it takes the lock, so it may count into a window that another    *)
(* handler of the same address has already left.                           *)
(***************************************************************************)
EXTENDS Integers

CONSTANTS
  Handlers,     \* goroutines serving price requests
  Addresses,    \* r.RemoteAddr: IP address and port of a connection
  Limit,        \* RATE_LIMIT_PER_MINUTE; 0: no limiter
  MaxMinute,    \* bound: the clock stops in this minute
  MaxRequests   \* bound: requests per behaviour

ASSUME RateLimiterAssumption ==
  /\ Limit \in Nat
  /\ MaxMinute \in Nat \ {0}
  /\ MaxRequests \in Nat

VARIABLES
  pc,        \* where each handler stands in allow
  addr,      \* its r.RemoteAddr
  window,    \* the minute it read before locking
  items,     \* r.items; a bucket of window 0 is an absent one
  limited,   \* s.metrics.RateLimited
  minute,    \* the clock
  begun,     \* requests so far
  admitted,  \* history: requests let through by address and window
  late       \* history: requests by address that counted into a window already left

handler == <<pc, addr, window>>
limiter == <<items, limited>>
history == <<admitted, late>>
vars    == <<handler, limiter, minute, begun, history>>

Minutes == 1..MaxMinute
Bucket == [window : Nat, count : Nat]

\* The bucket a request of address a and window m is counted in: a new one unless the
\* stored one is of the same window.
BucketKept(a, m) == [items[a] EXCEPT !.window = m]   \* mutant: the count is carried over
BucketFor(a, m) == IF items[a].window = m THEN items[a] ELSE [window |-> m, count |-> 0]

\* A request is let through as long as the count, itself included, is within the limit.
WithinExcluded(count) == count - 1 <= Limit   \* mutant: compared before counting
Within(count) == count <= Limit

Init ==
  /\ pc = [h \in Handlers |-> "idle"]
  /\ addr \in [Handlers -> Addresses]
  /\ window = [h \in Handlers |-> 1]
  /\ items = [a \in Addresses |-> [window |-> 0, count |-> 0]]
  /\ limited = 0
  /\ minute = 1
  /\ begun = 0
  /\ admitted = [a \in Addresses |-> [m \in Minutes |-> 0]]
  /\ late = [a \in Addresses |-> 0]

\* A request arrives, and rateLimiter.allow reads the clock; without a limiter it is served.
Arrive(h) == \E a \in Addresses :
  /\ pc[h] = "idle"
  /\ begun < MaxRequests
  /\ begun' = begun + 1
  /\ addr' = [addr EXCEPT ![h] = a]
  /\ window' = [window EXCEPT ![h] = minute]
  /\ pc' = [pc EXCEPT ![h] = IF Limit = 0 THEN "served" ELSE "stamped"]
  /\ UNCHANGED <<limiter, minute, history>>

\* The critical section of rateLimiter.allow.
Count(h) ==
  LET a == addr[h]  m == window[h]  n == BucketFor(a, m).count + 1 IN
  /\ pc[h] = "stamped"
  /\ items' = [items EXCEPT ![a] = [window |-> m, count |-> n]]
  /\ late' = [late EXCEPT ![a] = IF m < items[a].window THEN @ + 1 ELSE @]
  /\ IF Within(n)
     THEN /\ pc' = [pc EXCEPT ![h] = "served"]
          /\ admitted' = [admitted EXCEPT ![a][m] = @ + 1]
     ELSE pc' = [pc EXCEPT ![h] = "refused"] /\ UNCHANGED admitted
  /\ UNCHANGED <<addr, window, limited, minute, begun>>

\* Server.allow: the metric and the answer 429.
Refuse(h) ==
  /\ pc[h] = "refused"
  /\ limited' = limited + 1
  /\ pc' = [pc EXCEPT ![h] = "idle"]
  /\ UNCHANGED <<addr, window, items, minute, begun, history>>

\* The handler goes on to the service and answers.
Serve(h) ==
  /\ pc[h] = "served"
  /\ pc' = [pc EXCEPT ![h] = "idle"]
  /\ UNCHANGED <<addr, window, limiter, minute, begun, history>>

MinutePasses ==
  /\ minute < MaxMinute
  /\ minute' = minute + 1
  /\ UNCHANGED <<handler, limiter, begun, history>>

Quiescent ==
  /\ begun = MaxRequests
  /\ \A h \in Handlers : pc[h] = "idle"
  /\ UNCHANGED vars

Next == MinutePasses \/ Quiescent \/ \E h \in Handlers : Arrive(h) \/ Count(h) \/ Refuse(h) \/ Serve(h)

Spec == Init /\ [][Next]_vars
------------------------------------------------------------------------------
(* What must hold. *)

\* Every variable holds values of its kind, and no window lies ahead of the clock.
TypeOK ==
  /\ pc \in [Handlers -> {"idle", "stamped", "served", "refused"}]
  /\ addr \in [Handlers -> Addresses]
  /\ window \in [Handlers -> Minutes] /\ \A h \in Handlers : window[h] <= minute
  /\ items \in [Addresses -> Bucket] /\ \A a \in Addresses : items[a].window <= minute
  /\ limited \in Nat
  /\ minute \in Minutes
  /\ begun \in Nat
  /\ admitted \in [Addresses -> [Minutes -> Nat]]
  /\ late \in [Addresses -> Nat]

\* A request is refused only if Limit requests of its address were let through in its window:
\* late requests may give a client more than its share, never less.
RefusalJustified ==
  \A h \in Handlers : pc[h] = "refused" => admitted[addr[h]][window[h]] >= Limit

\* An address gets at most Limit requests through in a window, and at most Limit more for each
\* of its requests that counted late: reading the clock outside the lock costs no more.
LimitPerLateRequest ==
  \A a \in Addresses : \A m \in Minutes : admitted[a][m] <= Limit * (1 + late[a])

\* What LimitPerLateRequest rests on: how much of an address's allowance for window m may be
\* used up, before the bucket has reached the window, in it, and after it.
Allowance(a, m) ==
  IF items[a].window < m THEN Limit * late[a]
  ELSE IF items[a].window > m THEN Limit * late[a] + Limit
  ELSE Limit * late[a] + (IF Within(items[a].count) THEN items[a].count ELSE Limit)
WithinAllowance == \A a \in Addresses : \A m \in Minutes : admitted[a][m] <= Allowance(a, m)

\* What RefusalJustified rests on: the requests a bucket has counted were let through, up to
\* the limit.
CountedAdmitted ==
  \A a \in Addresses : items[a].window # 0 =>
    LET n == items[a].count IN
    admitted[a][items[a].window] >= (IF Within(n) THEN n ELSE Limit)
==============================================================================
