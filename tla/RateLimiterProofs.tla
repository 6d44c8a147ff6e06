-------------------------- MODULE RateLimiterProofs --------------------------
(***************************************************************************)
(* What holds of RateLimiter for any number of handlers, addresses, minutes *)
(* and requests and any limit.                                             *)
(***************************************************************************)
EXTENDS RateLimiter, TLAPS

\* The initial values are of their kinds.
LEMMA InitType == Init => TypeOK
BY RateLimiterAssumption DEF Init, TypeOK, Minutes, Bucket

\* The count of a bucket that a request is counted in is a natural number.
LEMMA BucketForType ==
  ASSUME TypeOK, NEW a \in Addresses, NEW m \in Minutes
  PROVE  BucketFor(a, m).count \in Nat
BY DEF TypeOK, BucketFor, Bucket

\* Count keeps every type.
LEMMA CountType ==
  ASSUME TypeOK, NEW h \in Handlers, Count(h)
  PROVE  TypeOK'
<1> DEFINE a == addr[h]
           m == window[h]
           n == BucketFor(a, m).count + 1
<1>1. a \in Addresses /\ m \in Minutes /\ m \in Nat /\ m <= minute
  BY RateLimiterAssumption DEF TypeOK, Minutes
<1>2. n \in Nat
  BY <1>1, BucketForType
<1> HIDE DEF n
<1>3. items' = [items EXCEPT ![a] = [window |-> m, count |-> n]]
  BY DEF Count, n
<1>4. items' \in [Addresses -> Bucket] /\ \A b \in Addresses : items'[b].window <= minute
  BY <1>1, <1>2, <1>3 DEF TypeOK, Bucket
<1>5. late' \in [Addresses -> Nat]
  BY <1>1 DEF Count, TypeOK, Bucket
<1>6. admitted' \in [Addresses -> [Minutes -> Nat]]
  <2>1. CASE admitted' = admitted
    BY <2>1 DEF TypeOK
  <2>2. CASE admitted' = [admitted EXCEPT ![a][m] = @ + 1]
    BY <1>1, <2>2 DEF TypeOK
  <2> QED BY <2>1, <2>2 DEF Count
<1>7. pc' \in [Handlers -> {"idle", "stamped", "served", "refused"}]
  BY DEF Count, TypeOK
<1> HIDE DEF a, m
<1> QED BY <1>4, <1>5, <1>6, <1>7 DEF Count, TypeOK

\* TypeOK is inductive by itself.
LEMMA NextType == TypeOK /\ [Next]_vars => TypeOK'
<1> SUFFICES ASSUME TypeOK, [Next]_vars PROVE TypeOK'
  OBVIOUS
<1>1. ASSUME NEW h \in Handlers, Arrive(h) PROVE TypeOK'
  <2>1. minute \in Minutes /\ minute \in Nat /\ MaxMinute \in Nat
    BY RateLimiterAssumption DEF TypeOK, Minutes
  <2>2. /\ addr' \in [Handlers -> Addresses] /\ begun' \in Nat
        /\ pc' \in [Handlers -> {"idle", "stamped", "served", "refused"}]
    BY <1>1 DEF Arrive, TypeOK
  <2>3. window' \in [Handlers -> Minutes] /\ \A g \in Handlers : window'[g] <= minute
    BY <1>1, <2>1 DEF Arrive, TypeOK
  <2> QED BY <1>1, <2>2, <2>3 DEF Arrive, TypeOK, limiter, history
<1>2. ASSUME NEW h \in Handlers, Refuse(h) PROVE TypeOK'
  BY <1>2 DEF Refuse, TypeOK, history
<1>3. ASSUME NEW h \in Handlers, Serve(h) PROVE TypeOK'
  BY <1>3 DEF Serve, TypeOK, limiter, history
<1>4. CASE MinutePasses
  BY <1>4, RateLimiterAssumption DEF MinutePasses, TypeOK, handler, limiter, history, Minutes, Bucket
<1>5. CASE UNCHANGED vars
  BY <1>5 DEF TypeOK, vars, handler, limiter, history
<1> QED BY <1>1, <1>2, <1>3, <1>4, <1>5, CountType DEF Next, Quiescent

\* Every variable always holds values of its kind, and no window lies ahead of the clock.
THEOREM TypeCorrect == Spec => []TypeOK
BY InitType, NextType, PTL DEF Spec
------------------------------------------------------------------------------
(* The limit. *)

\* The steps that count no request: nobody is newly refused.
Aside ==
  /\ UNCHANGED <<items, history>>
  /\ \A h \in Handlers : pc'[h] = "refused" =>
       pc[h] = "refused" /\ addr'[h] = addr[h] /\ window'[h] = window[h]

\* Every step counts a request or leaves the buckets and the history alone.
LEMMA CountOrAside ==
  ASSUME TypeOK, [Next]_vars PROVE Aside \/ \E h \in Handlers : Count(h)
<1>1. ASSUME NEW h \in Handlers, Arrive(h) PROVE Aside
  BY <1>1 DEF Arrive, TypeOK, limiter, history, Aside
<1>2. ASSUME NEW h \in Handlers, Refuse(h) \/ Serve(h) PROVE Aside
  BY <1>2 DEF Refuse, Serve, TypeOK, limiter, history, Aside
<1>3. CASE MinutePasses \/ UNCHANGED vars
  BY <1>3 DEF MinutePasses, vars, handler, limiter, history, Aside
<1> QED BY <1>1, <1>2, <1>3 DEF Next, Quiescent

\* What one counted request does to the number let through.
LEMMA CountAdmits ==
  ASSUME TypeOK, NEW h \in Handlers, Count(h),
         NEW a \in Addresses, NEW m \in Minutes
  PROVE  LET n == BucketFor(addr[h], window[h]).count + 1 IN
         admitted'[a][m] = IF a = addr[h] /\ m = window[h] /\ Within(n)
                           THEN admitted[a][m] + 1 ELSE admitted[a][m]
<1> DEFINE d == addr[h]
           w == window[h]
           n == BucketFor(d, w).count + 1
<1>1. d \in Addresses /\ w \in Minutes
  BY DEF TypeOK
<1>2. CASE Within(n)
  <2>1. admitted' = [admitted EXCEPT ![d][w] = @ + 1]
    BY <1>2 DEF Count
  <2> HIDE DEF n, d, w
  <2>2. admitted'[a][m] = IF a = d /\ m = w THEN admitted[a][m] + 1 ELSE admitted[a][m]
    BY <1>1, <2>1 DEF TypeOK
  <2> QED BY <1>2, <2>2 DEF n, d, w
<1>3. CASE ~Within(n)
  <2>1. admitted' = admitted
    BY <1>3 DEF Count
  <2> QED BY <1>3, <2>1
<1> QED BY <1>2, <1>3

\* The allowance is kept: a request within the limit uses one of the bucket it counts in, a
\* late one pays for the window it reopens.
LEMMA AllowanceNext == TypeOK /\ WithinAllowance /\ [Next]_vars => WithinAllowance'
<1> SUFFICES ASSUME TypeOK, WithinAllowance, [Next]_vars PROVE WithinAllowance'
  OBVIOUS
<1>1. CASE Aside
  BY <1>1 DEF Aside, history, WithinAllowance, Allowance, Within
<1>2. ASSUME NEW h \in Handlers, Count(h),
             NEW a \in Addresses, NEW m \in Minutes
      PROVE  admitted'[a][m] <= Allowance(a, m)'
  <2> DEFINE w == window[h]
             n == BucketFor(addr[h], w).count + 1
             o == items[a].window
             c == items[a].count
             k == Limit * late[a]
  <2>1. /\ addr[h] \in Addresses /\ w \in Minutes /\ w \in Nat /\ m \in Nat
        /\ o \in Nat /\ c \in Nat /\ late[a] \in Nat /\ Limit \in Nat
        /\ admitted[a][m] \in Nat
    BY RateLimiterAssumption DEF TypeOK, Minutes, Bucket
  <2>2. k \in Nat /\ Limit * (late[a] + 1) = k + Limit
    <3>1. \A x, y \in Nat : x * y \in Nat /\ x * (y + 1) = x * y + x
      OBVIOUS
    <3> QED BY <2>1, <3>1
  <2>3. admitted[a][m] <= (IF o < m THEN k ELSE IF o > m THEN k + Limit
                           ELSE k + (IF c <= Limit THEN c ELSE Limit))
    BY DEF WithinAllowance, Allowance, Within
  <2>4. CASE a # addr[h]
    <3>1. items'[a] = items[a] /\ late'[a] = late[a]
      BY <1>2, <2>4 DEF Count, TypeOK
    <3>2. admitted'[a][m] = admitted[a][m]
      BY <1>2, <2>4, CountAdmits
    <3> QED BY <3>1, <3>2 DEF WithinAllowance, Allowance, Within
  <2>5. CASE a = addr[h]
    <3>1. items'[a].window = w /\ items'[a].count = n
      BY <1>2, <2>5 DEF Count, TypeOK
    <3>2. late'[a] = IF w < o THEN late[a] + 1 ELSE late[a]
      BY <1>2, <2>5 DEF Count, TypeOK
    <3>3. n = IF o = w THEN c + 1 ELSE 1
      BY <2>1, <2>5 DEF BucketFor
    <3>4. admitted'[a][m] = IF m = w /\ n <= Limit THEN admitted[a][m] + 1 ELSE admitted[a][m]
      BY <1>2, <2>5, CountAdmits DEF Within
    <3>5. Limit * late'[a] = IF w < o THEN k + Limit ELSE k
      BY <2>2, <3>2
    <3> HIDE DEF w, n, o, c, k
    <3>6. Allowance(a, m)' = IF w < m THEN Limit * late'[a]
                             ELSE IF w > m THEN Limit * late'[a] + Limit
                             ELSE Limit * late'[a] + (IF n <= Limit THEN n ELSE Limit)
      BY <3>1 DEF Allowance, Within
    <3>7. n \in Nat
      BY <2>1, <3>3
    <3> DEFINE l == Limit * late'[a]
    <3>8. l = IF w < o THEN k + Limit ELSE k
      BY <3>5
    <3>9. Allowance(a, m)' = IF w < m THEN l ELSE IF w > m THEN l + Limit
                             ELSE l + (IF n <= Limit THEN n ELSE Limit)
      BY <3>6
    <3> HIDE DEF l
    <3>10. CASE w < o
      BY <2>1, <2>2, <2>3, <3>3, <3>4, <3>7, <3>8, <3>9, <3>10
    <3>11. CASE w = o
      BY <2>1, <2>2, <2>3, <3>3, <3>4, <3>7, <3>8, <3>9, <3>11
    <3>12. CASE w > o
      BY <2>1, <2>2, <2>3, <3>3, <3>4, <3>7, <3>8, <3>9, <3>12
    <3> QED BY <2>1, <3>10, <3>11, <3>12
  <2> QED BY <2>4, <2>5
<1> QED BY <1>1, <1>2, CountOrAside DEF WithinAllowance

\* An address gets at most Limit requests through in a window and at most Limit more for each
\* late request: the documented limit is exact whenever requests are counted in clock order.
THEOREM LimitHolds == Spec => []LimitPerLateRequest
<1>1. Init => WithinAllowance
  BY RateLimiterAssumption DEF Init, WithinAllowance, Allowance, Minutes
<1>2. TypeOK /\ WithinAllowance => LimitPerLateRequest
  <2> SUFFICES ASSUME TypeOK, WithinAllowance, NEW a \in Addresses, NEW m \in Minutes
               PROVE  admitted[a][m] <= Limit * (1 + late[a])
    BY DEF LimitPerLateRequest
  <2> DEFINE k == Limit * late[a]
  <2>1. k \in Nat /\ Limit \in Nat /\ Limit * (1 + late[a]) = k + Limit
    <3>1. \A x, y \in Nat : x * y \in Nat /\ x * (1 + y) = x * y + x
      OBVIOUS
    <3> QED BY <3>1, RateLimiterAssumption DEF TypeOK
  <2>2. admitted[a][m] \in Nat /\ m \in Nat /\ items[a].window \in Nat /\ items[a].count \in Nat
    BY RateLimiterAssumption DEF TypeOK, Minutes, Bucket
  <2>3. admitted[a][m] <= Allowance(a, m)
    BY DEF WithinAllowance
  <2> QED BY <2>1, <2>2, <2>3 DEF Allowance, Within
<1> QED BY <1>1, <1>2, AllowanceNext, TypeCorrect, PTL DEF Spec
------------------------------------------------------------------------------
(* The refusals. *)

RefusalInv == CountedAdmitted /\ RefusalJustified

\* A bucket counts only requests let through until it is full, and a request is refused only
\* by a full bucket.
LEMMA RefusalNext == TypeOK /\ RefusalInv /\ [Next]_vars => RefusalInv'
<1> SUFFICES ASSUME TypeOK, RefusalInv, [Next]_vars PROVE RefusalInv'
  OBVIOUS
<1>1. CASE Aside
  <2>1. CountedAdmitted'
    BY <1>1 DEF Aside, history, RefusalInv, CountedAdmitted, Within
  <2>2. RefusalJustified'
    BY <1>1 DEF Aside, history, RefusalInv, RefusalJustified
  <2> QED BY <2>1, <2>2 DEF RefusalInv
<1>2. ASSUME NEW h \in Handlers, Count(h) PROVE RefusalInv'
  <2> DEFINE d == addr[h]
             w == window[h]
             n == BucketFor(d, w).count + 1
  <2>1. d \in Addresses /\ w \in Minutes /\ w \in Nat /\ w # 0 /\ Limit \in Nat
    BY RateLimiterAssumption DEF TypeOK, Minutes
  <2>2. /\ items' = [items EXCEPT ![d] = [window |-> w, count |-> n]]
        /\ n \in Nat
    BY <1>2, <2>1, BucketForType DEF Count
  <2>3. \A a \in Addresses : \A m \in Minutes :
          /\ admitted[a][m] \in Nat /\ admitted'[a][m] \in Nat
          /\ admitted'[a][m] >= admitted[a][m]
    BY <1>2, CountAdmits DEF TypeOK
  <2>4. admitted'[d][w] = IF n <= Limit THEN admitted[d][w] + 1 ELSE admitted[d][w]
    BY <1>2, <2>1, CountAdmits DEF Within
  <2>5. admitted'[d][w] >= (IF n <= Limit THEN n ELSE Limit)
    <3>1. CASE items[d].window = w
      <4>1. n = items[d].count + 1 /\ items[d].count \in Nat
        BY <2>1, <3>1 DEF BucketFor, TypeOK, Bucket
      <4>2. admitted[d][w] >= (IF items[d].count <= Limit THEN items[d].count ELSE Limit)
        BY <2>1, <3>1 DEF RefusalInv, CountedAdmitted, Within
      <4> HIDE DEF n
      <4> QED BY <2>1, <2>3, <2>4, <4>1, <4>2
    <3>2. CASE items[d].window # w
      <4>1. n = 1
        BY <3>2 DEF BucketFor
      <4> HIDE DEF n
      <4> QED BY <2>1, <2>3, <2>4, <4>1
    <3> QED BY <3>1, <3>2
  <2>6. CountedAdmitted'
    <3> SUFFICES ASSUME NEW a \in Addresses, items'[a].window # 0
                 PROVE  admitted'[a][items'[a].window] >=
                          (IF items'[a].count <= Limit THEN items'[a].count ELSE Limit)
      BY DEF CountedAdmitted, Within
    <3>1. CASE a = d
      <4>1. items'[a].window = w /\ items'[a].count = n
        BY <2>1, <2>2, <3>1 DEF TypeOK
      <4> HIDE DEF n
      <4> QED BY <2>5, <3>1, <4>1
    <3>2. CASE a # d
      <4>1. items'[a] = items[a]
        BY <2>1, <2>2, <3>2 DEF TypeOK
      <4>2. items[a].window \in Minutes /\ items[a].count \in Nat
        BY <4>1, RateLimiterAssumption DEF TypeOK, Bucket, Minutes
      <4>3. admitted[a][items[a].window] >=
              (IF items[a].count <= Limit THEN items[a].count ELSE Limit)
        BY <4>1 DEF RefusalInv, CountedAdmitted, Within
      <4> QED BY <2>1, <2>3, <4>1, <4>2, <4>3
    <3> QED BY <3>1, <3>2
  <2>7. RefusalJustified'
    <3> SUFFICES ASSUME NEW g \in Handlers, pc'[g] = "refused"
                 PROVE  admitted'[addr[g]][window[g]] >= Limit
      BY <1>2 DEF RefusalJustified, Count
    <3>1. addr[g] \in Addresses /\ window[g] \in Minutes
      BY DEF TypeOK
    <3>2. CASE pc[g] = "refused"
      <4>1. admitted[addr[g]][window[g]] >= Limit
        BY <3>2 DEF RefusalInv, RefusalJustified
      <4> QED BY <2>1, <2>3, <3>1, <4>1
    <3>3. CASE pc[g] # "refused"
      <4>1. g = h /\ ~(n <= Limit)
        BY <1>2, <3>3 DEF Count, TypeOK, Within
      <4> HIDE DEF n
      <4> QED BY <2>5, <4>1
    <3> QED BY <3>2, <3>3
  <2> QED BY <2>6, <2>7 DEF RefusalInv
<1> QED BY <1>1, <1>2, CountOrAside

\* A request is refused only after Limit requests of its address were let through in its
\* window, however requests and minutes interleave.
THEOREM RefusalHolds == Spec => []RefusalJustified
<1>1. Init => RefusalInv
  BY DEF Init, RefusalInv, CountedAdmitted, RefusalJustified
<1>2. RefusalInv => RefusalJustified
  BY DEF RefusalInv
<1> QED BY <1>1, <1>2, RefusalNext, TypeCorrect, PTL DEF Spec
==============================================================================
