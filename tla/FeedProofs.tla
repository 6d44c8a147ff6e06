------------------------------ MODULE FeedProofs ------------------------------
(***************************************************************************)
(* What holds of Feed for any rows, interval and timeouts: the types of    *)
(* its variables, and with them that a row marked over and over is listed  *)
(* once.                                                                   *)
(***************************************************************************)
EXTENDS Feed, FiniteSetTheorems, SequenceTheorems, TLAPS

(* Marking a row. *)

\* A set of positions that is not empty has a smallest one.
LEMMA HasSmallest ==
  ASSUME NEW n \in Nat, NEW I \in SUBSET (1..n), I # {}
  PROVE  Min(I) \in I
<1> DEFINE Below(i) == {j \in I : j < i}
           N == {Below(i) : i \in I}
<1>1. IsFiniteSet(I)
  <2>1. IsFiniteSet(1..n)
    BY FS_Interval
  <2> QED BY <2>1, FS_Subset
<1>2. N \subseteq FiniteSubsetsOf(I) /\ N # {}
  <2>1. N \subseteq SUBSET I /\ N # {}
    OBVIOUS
  <2> HIDE DEF N
  <2> QED BY <1>1, <2>1, FS_FiniteSubsetsOfFinite
<1>3. PICK m \in N : \A k \in N : ~(<<k, m>> \in StrictSubsetOrdering(I))
  <2> HIDE DEF N
  <2> QED BY <1>1, <1>2, WFMin, FS_StrictSubsetOrderingWellFounded
<1>4. PICK i \in I : m = Below(i)
  OBVIOUS
<1>5. ASSUME NEW j \in I, j < i PROVE FALSE
  <2>1. ASSUME NEW l \in Below(j) PROVE l \in Below(i)
    <3>1. l \in I /\ l < j /\ {l, j, i} \subseteq Int
      OBVIOUS
    <3>2. l < i
      BY <1>5, <3>1
    <3> QED BY <3>1, <3>2
  <2>2. j \in Below(i) /\ j \notin Below(j)
    BY <1>5
  <2>3. <<Below(j), Below(i)>> \in StrictSubsetOrdering(I)
    <3>1. Below(j) \in SUBSET I /\ Below(i) \in SUBSET I /\ Below(j) # Below(i)
      BY <2>2
    <3> HIDE DEF Below
    <3> QED BY <2>1, <3>1 DEF StrictSubsetOrdering
  <2> QED BY <1>3, <1>4, <2>3
<1>6. \A j \in I : i <= j
  BY <1>5
<1> QED BY <1>6 DEF Min

\* Sequence s lists no element twice.
Once(s) == \A i, j \in DOMAIN s : s[i] = s[j] => i = j

\* Without one of its elements a sequence that lists none twice lists the others, once each.
LEMMA RemovedOnce ==
  ASSUME NEW S, NEW s \in Seq(S), NEW r, Once(s)
  PROVE  /\ RemoveFirst(s, r) \in Seq(S) /\ Once(RemoveFirst(s, r))
         /\ \A i \in DOMAIN RemoveFirst(s, r) : RemoveFirst(s, r)[i] # r
<1>1. CASE \E i \in 1..Len(s) : s[i] = r
  <2> DEFINE I == {i \in 1..Len(s) : s[i] = r}
             k == Min(I)
             t == RemoveFirst(s, r)
  <2>1. k \in 1..Len(s) /\ s[k] = r
    <3>1. I \in SUBSET (1..Len(s)) /\ I # {} /\ Len(s) \in Nat
      BY <1>1
    <3>2. k \in I
      <4> HIDE DEF I
      <4> QED BY <3>1, HasSmallest
    <3> HIDE DEF k
    <3> QED BY <3>2
  <2>2. t = SubSeq(s, 1, k - 1) \o SubSeq(s, k + 1, Len(s))
    <3>1. SelectInSeq(s, LAMBDA v : v = r) = k
      BY <1>1 DEF SelectInSeq
    <3> HIDE DEF k
    <3> QED BY <1>1, <3>1 DEF RemoveFirst, RemoveAt
  <2> HIDE DEF k, t
  <2>3. /\ t \in Seq(S) /\ Len(t) = Len(s) - 1
        /\ \A i \in 1..Len(t) : t[i] = s[IF i < k THEN i ELSE i + 1]
    <3> DEFINE a == SubSeq(s, 1, k - 1)
               b == SubSeq(s, k + 1, Len(s))
    <3>1. Len(s) \in Nat /\ k \in Int /\ 1 <= k /\ k <= Len(s)
      BY <2>1
    <3>2. /\ a \in Seq(S) /\ Len(a) = k - 1
          /\ \A i \in 1..(k - 1) : a[i] = s[i]
      <4>1. \A i \in 1..(k - 1) : s[i] \in S
        BY <3>1
      <4>2. /\ a \in Seq(S) /\ Len(a) = IF 1 <= k - 1 THEN (k - 1) - 1 + 1 ELSE 0
            /\ \A i \in 1..((k - 1) - 1 + 1) : a[i] = s[1 + i - 1]
        BY <3>1, <4>1, SubSeqProperties
      <4> HIDE DEF a
      <4> QED BY <3>1, <4>2
    <3>3. /\ b \in Seq(S) /\ Len(b) = Len(s) - k
          /\ \A i \in 1..(Len(s) - k) : b[i] = s[k + i]
      <4>1. \A i \in (k + 1)..Len(s) : s[i] \in S
        BY <3>1
      <4>2. /\ b \in Seq(S) /\ Len(b) = IF k + 1 <= Len(s) THEN Len(s) - (k + 1) + 1 ELSE 0
            /\ \A i \in 1..(Len(s) - (k + 1) + 1) : b[i] = s[(k + 1) + i - 1]
        BY <3>1, <4>1, SubSeqProperties
      <4> HIDE DEF b
      <4> QED BY <3>1, <4>2
    <3> HIDE DEF a, b
    <3>4. /\ a \o b \in Seq(S) /\ Len(a \o b) = Len(a) + Len(b)
          /\ \A i \in 1..(Len(a) + Len(b)) : (a \o b)[i] = IF i <= Len(a) THEN a[i] ELSE b[i - Len(a)]
      BY <3>2, <3>3, ConcatProperties
    <3>5. t = a \o b
      BY <2>2 DEF a, b
    <3>6. Len(t) = Len(s) - 1
      BY <3>1, <3>2, <3>3, <3>4, <3>5
    <3>7. ASSUME NEW i \in 1..Len(t) PROVE t[i] = s[IF i < k THEN i ELSE i + 1]
      <4>1. CASE i < k
        <5>1. i \in 1..(k - 1) /\ i <= Len(a) /\ i \in 1..(Len(a) + Len(b))
          BY <3>1, <3>2, <3>3, <3>6, <4>1
        <5> QED BY <3>2, <3>4, <3>5, <4>1, <5>1
      <4>2. CASE ~(i < k)
        <5>1. /\ i - (k - 1) \in 1..(Len(s) - k) /\ ~(i <= Len(a)) /\ i \in 1..(Len(a) + Len(b))
              /\ k + (i - (k - 1)) = i + 1 /\ i - Len(a) = i - (k - 1)
          BY <3>1, <3>2, <3>3, <3>6, <4>2
        <5>2. t[i] = b[i - (k - 1)]
          BY <3>4, <3>5, <5>1
        <5> QED BY <3>3, <4>2, <5>1, <5>2
      <4> QED BY <4>1, <4>2
    <3> QED BY <3>4, <3>5, <3>6, <3>7
  <2>4. \A i \in 1..Len(t) : (IF i < k THEN i ELSE i + 1) \in 1..Len(s) /\ (IF i < k THEN i ELSE i + 1) # k
    BY <2>1, <2>3
  <2>5. ASSUME NEW i \in 1..Len(t), NEW j \in 1..Len(t), t[i] = t[j] PROVE i = j
    <3>1. (IF i < k THEN i ELSE i + 1) = (IF j < k THEN j ELSE j + 1)
      BY <2>3, <2>4, <2>5 DEF Once
    <3> QED BY <2>1, <3>1
  <2>6. \A i \in 1..Len(t) : t[i] # r
    BY <2>1, <2>3, <2>4 DEF Once
  <2> QED BY <2>3, <2>5, <2>6 DEF Once, t
<1>2. CASE ~(\E i \in 1..Len(s) : s[i] = r)
  <2>1. RemoveFirst(s, r) = s
    BY <1>2 DEF RemoveFirst
  <2> QED BY <1>2, <2>1
<1> QED BY <1>1, <1>2

\* MarkWatched keeps watched_symbols a list of rows, each listed once.
LEMMA RequestedOnce ==
  ASSUME order \in Seq(Rows), Once(order), NEW r \in Rows
  PROVE  Requested(r) \in Seq(Rows) /\ Once(Requested(r))
<1> DEFINE t == RemoveFirst(order, r)
<1>1. t \in Seq(Rows) /\ Once(t) /\ \A i \in DOMAIN t : t[i] # r
  BY RemovedOnce
<1>2. Requested(r) = <<r>> \o t
  BY DEF Requested
<1> HIDE DEF t
<1>3. /\ <<r>> \o t \in Seq(Rows) /\ Len(<<r>> \o t) = 1 + Len(t)
      /\ \A i \in 1..(1 + Len(t)) : (<<r>> \o t)[i] = IF i <= 1 THEN r ELSE t[i - 1]
  <2>1. <<r>> \in Seq(Rows) /\ Len(<<r>>) = 1 /\ <<r>>[1] = r
    OBVIOUS
  <2>2. /\ <<r>> \o t \in Seq(Rows) /\ Len(<<r>> \o t) = 1 + Len(t)
        /\ \A i \in 1..(1 + Len(t)) : (<<r>> \o t)[i] = IF i <= 1 THEN <<r>>[i] ELSE t[i - 1]
    BY <1>1, <2>1, ConcatProperties
  <2>3. \A i \in 1..(1 + Len(t)) : i <= 1 => i = 1
    OBVIOUS
  <2> QED BY <2>1, <2>2, <2>3
<1>4. Len(t) \in Nat /\ DOMAIN t = 1..Len(t) /\ DOMAIN (<<r>> \o t) = 1..(1 + Len(t))
  BY <1>1, <1>3, LenProperties
<1>5. ASSUME NEW i \in 1..(1 + Len(t)), NEW j \in 1..(1 + Len(t)), (<<r>> \o t)[i] = (<<r>> \o t)[j]
      PROVE  i = j
  <2>1. CASE i <= 1 /\ j <= 1
    BY <1>4, <2>1
  <2>2. CASE i <= 1 /\ ~(j <= 1)
    <3>1. j - 1 \in 1..Len(t)
      BY <1>4, <2>2
    <3> QED BY <1>1, <1>3, <1>4, <1>5, <2>2, <3>1
  <2>3. CASE ~(i <= 1) /\ j <= 1
    <3>1. i - 1 \in 1..Len(t)
      BY <1>4, <2>3
    <3> QED BY <1>1, <1>3, <1>4, <1>5, <2>3, <3>1
  <2>4. CASE ~(i <= 1) /\ ~(j <= 1)
    <3>1. i - 1 \in 1..Len(t) /\ j - 1 \in 1..Len(t)
      BY <1>4, <2>4
    <3>2. t[i - 1] = t[j - 1]
      BY <1>3, <1>5, <2>4
    <3>3. i - 1 = j - 1
      BY <1>1, <1>4, <3>1, <3>2 DEF Once
    <3> QED BY <1>4, <3>3
  <2> QED BY <2>1, <2>2, <2>3, <2>4
<1> QED BY <1>2, <1>3, <1>4, <1>5 DEF Once
------------------------------------------------------------------------------
(* The types. *)

\* The goroutine has queries left exactly while it refreshes the first of them.
QueueOK == pc = "call" <=> todo # <<>>

\* What is left of a pass after a row.
LEMMA TailOK ==
  ASSUME TypeOK, pc = "call", QueueOK
  PROVE  Head(todo) \in Rows /\ Tail(todo) \in Seq(Rows)
BY HeadTailProperties DEF TypeOK, QueueOK

\* Zero is a phase, a time left, a time spent and a count.
LEMMA ZeroOK ==
  /\ 0 \in 0..Interval - 1 /\ 0 \in 0..Interval /\ Interval \in 0..Interval
  /\ 0 \in 0..FetchTime /\ 0 \in 0..MaxFaults /\ 0 \in 0..MaxCrashes
<1>1. Interval \in Nat /\ Interval # 0 /\ FetchTime \in Nat /\ MaxFaults \in Nat /\ MaxCrashes \in Nat
  BY FeedAssumption
<1> QED BY <1>1

\* The process starts with nothing watched and nothing to do.
LEMMA FeedInit == Init => TypeOK /\ QueueOK
<1> SUFFICES ASSUME Init PROVE TypeOK /\ QueueOK
  OBVIOUS
<1>1. order \in Seq(Rows) /\ todo \in Seq(Rows) /\ \A i, j \in DOMAIN order : order[i] = order[j] => i = j
  BY DEF Init
<1> QED BY <1>1, ZeroOK DEF Init, TypeOK, QueueOK

\* No step breaks the types or leaves the goroutine without the query it works on.
LEMMA FeedNext == TypeOK /\ QueueOK /\ [Next]_vars => TypeOK' /\ QueueOK'
<1> SUFFICES ASSUME TypeOK, QueueOK, [Next]_vars PROVE TypeOK' /\ QueueOK'
  OBVIOUS
<1> USE FeedAssumption DEF QueueOK, ticker, pass, bounds
<1>1. CASE Wake
  BY <1>1, ZeroOK DEF Wake, TypeOK
<1>2. CASE List
  <2>1. todo' \in Seq(Rows) /\ faults' \in 0..MaxFaults
    <3>1. order \in Seq(Rows) /\ todo \in Seq(Rows) /\ faults \in 0..MaxFaults
      BY DEF TypeOK
    <3>2. todo' \in {order, todo} /\ (faults' = faults \/ (faults < MaxFaults /\ faults' = faults + 1))
      BY <1>2 DEF List, StatementFails
    <3>3. todo' \in Seq(Rows)
      BY <3>1, <3>2
    <3> QED BY <3>1, <3>2, <3>3
  <2>2. /\ pc' = (IF todo' = <<>> THEN "select" ELSE "call") /\ spent' = 0
        /\ UNCHANGED <<order, pending, phase, left, tried, done, crashes>>
    BY <1>2 DEF List
  <2> QED BY <2>1, <2>2, ZeroOK DEF TypeOK
<1>3. CASE Refreshed
  <2>1. Head(todo) \in Rows /\ Tail(todo) \in Seq(Rows)
    BY <1>3, TailOK DEF Refreshed
  <2>2. order' \in Seq(Rows) /\ Once(order')
    BY <1>3, <2>1, RequestedOnce DEF Refreshed, TypeOK, Once
  <2>3. faults' \in 0..MaxFaults
    BY <1>3 DEF Refreshed, StatementFails, TypeOK
  <2>4. /\ todo' = Tail(todo) /\ pc' = (IF todo' = <<>> THEN "select" ELSE "call") /\ spent' = 0
        /\ tried' = Head(todo) /\ UNCHANGED <<pending, phase, left, done, crashes>>
    BY <1>3 DEF Refreshed, Continue
  <2> QED BY <2>1, <2>2, <2>3, <2>4, ZeroOK DEF TypeOK, Once
<1>4. CASE NotRefreshed
  <2>1. Head(todo) \in Rows /\ Tail(todo) \in Seq(Rows)
    BY <1>4, TailOK DEF NotRefreshed
  <2>2. /\ todo' = Tail(todo) /\ pc' = (IF todo' = <<>> THEN "select" ELSE "call") /\ spent' = 0
        /\ tried' \in {tried, Head(todo)}
        /\ UNCHANGED <<order, pending, phase, left, done, faults, crashes>>
    BY <1>4 DEF NotRefreshed, Continue
  <2> QED BY <2>1, <2>2, ZeroOK DEF TypeOK
<1>5. CASE Stop
  BY <1>5 DEF Stop, TypeOK
<1>6. CASE Clock
  <2>1. phase' \in 0..Interval - 1 /\ pending' \in BOOLEAN
    <3>1. phase \in 0..Interval - 1 /\ pending \in BOOLEAN
      BY DEF TypeOK
    <3>2. phase' = (phase + 1) % Interval /\ pending' = (pending \/ phase' = 0)
      BY <1>6 DEF Clock
    <3>3. (phase + 1) % Interval \in 0..Interval - 1
      BY <3>1
    <3> QED BY <3>1, <3>2, <3>3
  <2>2. left' \in 0..Interval /\ spent' \in 0..FetchTime
    BY <1>6 DEF Clock, Dead, TypeOK
  <2>3. UNCHANGED <<pc, order, todo, tried, done, faults, crashes>>
    BY <1>6 DEF Clock
  <2> QED BY <2>1, <2>2, <2>3 DEF TypeOK
<1>7. CASE Watch
  <2>1. PICK r \in Rows : order' = Requested(r)
    BY <1>7 DEF Watch
  <2>2. order' \in Seq(Rows) /\ Once(order')
    BY <2>1, RequestedOnce DEF TypeOK, Once
  <2>3. UNCHANGED <<pc, pending, phase, todo, left, spent, tried, done, faults, crashes>>
    BY <1>7 DEF Watch
  <2> QED BY <2>2, <2>3 DEF TypeOK, Once
<1>8. CASE Shutdown
  BY <1>8 DEF Shutdown, TypeOK
<1>9. CASE Crash
  <2>1. crashes' \in 0..MaxCrashes
    BY <1>9 DEF Crash, TypeOK
  <2>2. /\ pc' = "select" /\ todo' = <<>> /\ left' = 0 /\ spent' = 0 /\ tried' = None
        /\ pending' = FALSE /\ phase' = 0 /\ done' = FALSE /\ UNCHANGED <<order, faults>>
    BY <1>9 DEF Crash
  <2>3. todo' \in Seq(Rows)
    BY <2>2
  <2> QED BY <2>1, <2>2, <2>3, ZeroOK DEF TypeOK
<1>10. CASE UNCHANGED vars
  BY <1>10 DEF vars, TypeOK
<1> QED BY <1>1, <1>2, <1>3, <1>4, <1>5, <1>6, <1>7, <1>8, <1>9, <1>10 DEF Next, Run, Over

\* Every variable holds values of its kind, and a row is listed once however often requests,
\* additions and refreshes mark it, also while a pass is under way.
THEOREM FeedTypes == Spec => []TypeOK
<1>1. TypeOK /\ QueueOK /\ [Next]_vars => (TypeOK /\ QueueOK)'
  BY FeedNext
<1> QED BY FeedInit, <1>1, PTL DEF Spec
==============================================================================
