---------------------------- MODULE PriceApiProofs ----------------------------
(***************************************************************************)
(* What holds of PriceApi for any number of handlers, any requests, batches *)
(* of any length and any bars: the limiter inside it, its answers and its  *)
(* counters.                                                               *)
(***************************************************************************)
EXTENDS PriceApi, RateLimiterProofs, FiniteSetTheorems, SequenceTheorems

(* The limiter inside the handlers. *)

\* A step of the endpoints is a step of the rate limiter, or none.
LEMMA StepLimits == ApiNext => [Next]_vars
BY DEF ApiNext, ClockTurns, AtRest, Receive, ServiceKeeps, Handle, CountIt, TooMany, Parse, CallService,
       ServiceTells, TakeEntry, TakeResult, Send, Next

\* The endpoints run the rate limiter, so that all that is proved of it holds in them.
THEOREM ApiLimits == ApiSpec => Spec
<1>1. ApiInit => Init
  BY DEF ApiInit
<1>2. [ApiNext]_apiVars => [Next]_vars
  BY StepLimits DEF apiVars
<1> QED BY <1>1, <1>2, PTL DEF ApiSpec, Spec
------------------------------------------------------------------------------
(* Facts about requests and answers. *)

\* The request of a handler without one is a request.
LEMMA AnyCallType == AnyCall \in Calls
BY PriceApiAssumption DEF AnyCall

\* A finite set of bars has a last one: the bar with the smallest set of bars after it.
LEMMA HasLast ==
  ASSUME NEW B, IsFiniteSet(B), B # {}, \A b \in B : b[2] \in Int
  PROVE  \E b \in B : \A c \in B : c[2] <= b[2]
<1> DEFINE After(b) == {c \in B : c[2] > b[2]}
           N == {After(b) : b \in B}
<1>1. N \subseteq FiniteSubsetsOf(B) /\ N # {}
  <2>1. N \subseteq SUBSET B /\ N # {}
    OBVIOUS
  <2> HIDE DEF N
  <2> QED BY <2>1, FS_FiniteSubsetsOfFinite
<1>2. PICK n \in N : \A m \in N : ~(<<m, n>> \in StrictSubsetOrdering(B))
  <2> HIDE DEF N
  <2> QED BY <1>1, WFMin, FS_StrictSubsetOrderingWellFounded
<1>3. PICK b \in B : n = After(b)
  OBVIOUS
<1>4. ASSUME NEW c \in B, c[2] > b[2] PROVE FALSE
  <2>1. After(c) \subseteq After(b)
    BY <1>4
  <2>2. c \in After(b) /\ c \notin After(c)
    BY <1>4
  <2>3. <<After(c), After(b)>> \in StrictSubsetOrdering(B)
    <3>1. After(c) \in SUBSET B /\ After(b) \in SUBSET B /\ After(c) # After(b)
      BY <2>2
    <3> HIDE DEF After
    <3> QED BY <2>1, <3>1 DEF StrictSubsetOrdering
  <2> QED BY <1>2, <1>3, <2>3
<1> QED BY <1>4

\* Service.Latest finds its bar in any answer that has bars.
LEMMA LastOfType ==
  ASSUME NEW B \in SUBSET Bars, B # {} PROVE LastOf(B) \in B
<1>1. IsFiniteSet(B) /\ \A b \in B : b[2] \in Int
  BY PriceApiAssumption, FS_Subset
<1> QED BY <1>1, HasLast DEF LastOf
------------------------------------------------------------------------------
(* The answers. *)

\* Answer a of the service is one to query q: wanted bars, kept if it says so, or the error q deserves.
Fitting(q, a) ==
  IF a.error = "none"
  THEN a.bars # {} /\ a.bars \subseteq Wanted(q) /\ (a.persisted => a.bars \subseteq kept)
  ELSE a.error = ErrorOf(q)

\* Symbol s of request r of handler h has a sound entry if it is one of the first n, none otherwise.
Done(h, n) ==
  \A s \in Symbols :
    IF \E i \in 1..n : req[h].symbols[i] = s
    THEN SoundEntry(req[h], s, entries[h][s])
    ELSE entries[h][s] = None

\* How many symbols of its request a handler has the answers of.
Asked(h) == Len(req[h].symbols) - Len(todo[h])

\* What a handler relies on: it has a body only while it serves; of a valid request it has
\* asked a first part and holds sound entries for that part; the service is busy with the
\* next symbol; and an answer fits what was asked.
HandlerOK(h) ==
  /\ stage[h] # "new" => pc[h] = "served"
  /\ stage[h] = "new" => entries[h] = NoEntries
  /\ stage[h] = "calling" =>
       /\ Valid(req[h])
       /\ Len(todo[h]) \in 1..Len(req[h].symbols)
       /\ \A i \in 1..Len(todo[h]) : todo[h][i] = req[h].symbols[Asked(h) + i]
       /\ Done(h, Asked(h))
  /\ stage[h] = "reply" /\ code[h] = "OK" => Done(h, Len(req[h].symbols))
  /\ asked[h] # None =>
       stage[h] = "calling" /\ asked[h] = [symbol |-> todo[h][1], unknown |-> req[h].unknown]
  /\ told[h] # None => asked[h] # None /\ Fitting(asked[h], told[h])
HandlersOK == \A h \in Handlers : HandlerOK(h)

\* Every variable of the endpoints and of the service holds values of its kind.
ApiTypeOK ==
  /\ stage \in [Handlers -> {"new", "calling", "reply"}] /\ code \in [Handlers -> Codes]
  /\ req \in [Handlers -> Calls] /\ todo \in [Handlers -> Seq(Symbols)]
  /\ entries \in [Handlers -> [Symbols -> Answer \cup {None}]]
  /\ asked \in [Handlers -> Query \cup {None}] /\ told \in [Handlers -> Answer \cup {None}]
  /\ kept \in SUBSET Bars

\* Entries stay sound while bars are added.
LEMMA DoneStays ==
  ASSUME NEW h \in Handlers, NEW n, Done(h, n), kept \subseteq kept',
         req'[h] = req[h], entries'[h] = entries[h]
  PROVE  Done(h, n)'
BY DEF Done, SoundEntry

\* A handler that does not move is not disturbed by what others do.
Still(h) ==
  /\ stage'[h] = stage[h] /\ req'[h] = req[h] /\ todo'[h] = todo[h] /\ entries'[h] = entries[h]
  /\ code'[h] = code[h] /\ asked'[h] = asked[h] /\ told'[h] = told[h]
LEMMA StillOK ==
  ASSUME NEW h \in Handlers, HandlerOK(h), Still(h), kept \subseteq kept',
         stage[h] # "new" => pc'[h] = "served"
  PROVE  HandlerOK(h)'
<1>1. Asked(h)' = Asked(h)
  BY DEF Still, Asked
<1>2. \A n : Done(h, n) => Done(h, n)'
  BY DoneStays DEF Still
<1>3. told[h] # None => Fitting(asked[h], told[h])'
  BY DEF HandlerOK, Still, Fitting
<1> QED BY <1>1, <1>2, <1>3 DEF HandlerOK, Still, Valid


\* What is left to show of a handler's own step is that the handler itself is fine after it.
LEMMA OthersOK ==
  ASSUME HandlersOK, NEW h \in Handlers, kept \subseteq kept',
         \A g \in Handlers \ {h} : Still(g) /\ pc'[g] = pc[g],
         HandlerOK(h)'
  PROVE  HandlersOK'
<1>1. ASSUME NEW g \in Handlers \ {h} PROVE HandlerOK(g)'
  <2>1. stage[g] # "new" => pc'[g] = "served"
    BY DEF HandlersOK, HandlerOK
  <2> QED BY <2>1, StillOK DEF HandlersOK
<1> QED BY <1>1 DEF HandlersOK

ApiInv == TypeOK /\ ApiTypeOK /\ HandlersOK

\* A request that arrives finds its handler free.
LEMMA ReceiveOK ==
  ASSUME ApiInv, NEW h \in Handlers, Receive(h) PROVE ApiTypeOK' /\ HandlersOK'
<1> USE DEF ApiInv, ApiTypeOK, answer, service
<1>1. HandlerOK(h) /\ pc[h] = "idle" /\ stage[h] = "new"
  BY DEF HandlersOK, HandlerOK, Receive, Arrive
<1>2. PICK r \in Calls : req' = [req EXCEPT ![h] = r]
  BY DEF Receive
<1>3. UNCHANGED <<stage, todo, entries, code, asked, told, kept>>
  BY DEF Receive
<1>4. \A g \in Handlers \ {h} : Still(g) /\ pc'[g] = pc[g]
  BY <1>2, <1>3 DEF Receive, Arrive, Still, TypeOK
<1>5. HandlerOK(h)'
  BY <1>1, <1>3 DEF HandlerOK, NoEntries
<1>6. ApiTypeOK'
  BY <1>2, <1>3
<1> QED BY <1>3, <1>4, <1>5, <1>6, OthersOK

\* Neither the limiter nor the bars kept for other calls disturb a handler.
LEMMA CountItOK ==
  ASSUME ApiInv, NEW h \in Handlers, CountIt(h) PROVE ApiTypeOK' /\ HandlersOK'
<1> USE DEF ApiInv, ApiTypeOK, request, answer, service
<1>1. HandlerOK(h) /\ pc[h] = "stamped"
  BY DEF HandlersOK, CountIt, Count
<1>2. UNCHANGED <<stage, req, todo, entries, code, asked, told, kept>>
  BY DEF CountIt
<1>3. \A g \in Handlers \ {h} : Still(g) /\ pc'[g] = pc[g]
  BY <1>2 DEF CountIt, Count, Still, TypeOK
<1>4. HandlerOK(h)'
  BY <1>1, <1>2 DEF HandlerOK
<1> QED BY <1>2, <1>3, <1>4, OthersOK

\* A request that is refused leaves nothing behind.
LEMMA TooManyOK ==
  ASSUME ApiInv, NEW h \in Handlers, TooMany(h) PROVE ApiTypeOK' /\ HandlersOK'
<1> USE DEF ApiInv, ApiTypeOK, answer, service
<1>1. HandlerOK(h) /\ pc[h] = "refused" /\ stage[h] = "new"
  BY DEF HandlersOK, HandlerOK, TooMany, Refuse
<1>2. req' = [req EXCEPT ![h] = AnyCall] /\ UNCHANGED <<stage, todo, entries, code, asked, told, kept>>
  BY DEF TooMany
<1>3. \A g \in Handlers \ {h} : Still(g) /\ pc'[g] = pc[g]
  BY <1>2 DEF TooMany, Refuse, Still, TypeOK
<1>4. HandlerOK(h)'
  BY <1>1, <1>2 DEF HandlerOK, NoEntries
<1>5. ApiTypeOK'
  BY <1>2, AnyCallType
<1> QED BY <1>2, <1>3, <1>4, <1>5, OthersOK

\* A valid request has all its symbols to ask.
LEMMA ParseOK ==
  ASSUME ApiInv, NEW h \in Handlers, Parse(h) PROVE ApiTypeOK' /\ HandlersOK'
<1> USE DEF ApiInv, ApiTypeOK, service
<1>1. HandlerOK(h) /\ pc[h] = "served" /\ stage[h] = "new" /\ asked[h] = None /\ told[h] = None
      /\ entries[h] = NoEntries
  BY DEF HandlersOK, HandlerOK, Parse
<1>2. UNCHANGED <<req, entries, asked, told, kept, pc>>
  BY DEF Parse, vars, handler
<1>3. req[h] \in Calls /\ req[h].symbols \in Seq(Symbols)
  BY PriceApiAssumption DEF CallType
<1>4. CASE Valid(req[h])
  <2>1. stage' = [stage EXCEPT ![h] = "calling"] /\ todo' = [todo EXCEPT ![h] = req[h].symbols]
        /\ code' = code
    BY <1>4 DEF Parse
  <2>2. Len(req[h].symbols) \in Nat \ {0}
    BY <1>3, <1>4, EmptySeq DEF Valid
  <2>3. Asked(h)' = 0
    BY <1>2, <1>3, <2>1, <2>2 DEF Asked
  <2>4. Done(h, 0)'
    BY <1>1, <1>2 DEF Done, NoEntries
  <2>5. HandlerOK(h)'
    <3>1. todo'[h] = req[h].symbols /\ stage'[h] = "calling" /\ req'[h] = req[h]
      BY <1>2, <2>1
    <3>2. Valid(req[h])'
      BY <1>2, <1>4 DEF Valid
    <3>3. \A i \in 1..Len(todo'[h]) : todo'[h][i] = req'[h].symbols[Asked(h)' + i]
      BY <1>2, <2>2, <2>3, <3>1
    <3> QED BY <1>1, <1>2, <2>2, <2>3, <2>4, <3>1, <3>2, <3>3 DEF HandlerOK
  <2>6. \A g \in Handlers \ {h} : Still(g) /\ pc'[g] = pc[g]
    BY <1>2, <2>1 DEF Still
  <2>7. ApiTypeOK'
    BY <1>2, <1>3, <2>1
  <2> QED BY <1>2, <2>5, <2>6, <2>7, OthersOK
<1>5. CASE ~Valid(req[h])
  <2>1. stage' = [stage EXCEPT ![h] = "reply"] /\ code' = [code EXCEPT ![h] = "INVALID_REQUEST"]
        /\ todo' = todo
    BY <1>5 DEF Parse, AnswerWith
  <2>2. HandlerOK(h)'
    BY <1>1, <1>2, <2>1 DEF HandlerOK
  <2>3. \A g \in Handlers \ {h} : Still(g) /\ pc'[g] = pc[g]
    BY <1>2, <2>1 DEF Still
  <2>4. ApiTypeOK'
    BY <1>2, <2>1 DEF Codes
  <2> QED BY <1>2, <2>2, <2>3, <2>4, OthersOK
<1> QED BY <1>4, <1>5

\* The error of a query is an error.
LEMMA ErrorOfType == ASSUME NEW q PROVE ErrorOf(q) \in {"rejected", "unknown", "failed"}
BY DEF ErrorOf

\* A refusal is an answer that fits its query.
LEMMA RefusalFits ==
  ASSUME NEW q PROVE Service!Refusal(q) \in Answer /\ Service!Refusal(q).error = ErrorOf(q)
BY ErrorOfType DEF Service!Refusal, Answer

\* So is a success, as long as it is about bars kept.
LEMMA SuccessFits ==
  ASSUME NEW q, NEW a \in Service!Success(q)
  PROVE  /\ a \in Answer /\ a.error = "none" /\ a.bars # {} /\ a.bars \subseteq Wanted(q)
         /\ a.persisted => a.bars \subseteq kept
<1>1. Wanted(q) \subseteq Bars
  BY DEF Wanted
<1> QED BY <1>1 DEF Service!Success, Answer

\* The service is called for the first symbol that is left.
LEMMA CallServiceOK ==
  ASSUME ApiInv, NEW h \in Handlers, CallService(h) PROVE ApiTypeOK' /\ HandlersOK'
<1> USE DEF ApiInv, ApiTypeOK, request, answer
<1>1. HandlerOK(h) /\ stage[h] = "calling"
  BY DEF HandlersOK, CallService
<1>2. UNCHANGED <<stage, req, todo, entries, code, kept, pc>>
  BY DEF CallService, Service!Ask, vars, handler
<1> DEFINE q == [symbol |-> Head(todo[h]), unknown |-> req[h].unknown]
<1>3. PICK r \in Query :
        /\ asked[h] = None /\ asked' = [asked EXCEPT ![h] = r]
        /\ told' = IF ErrorOf(r) = "rejected" THEN [told EXCEPT ![h] = Service!Refusal(r)] ELSE told
  BY DEF CallService, Service!Ask
<1>4. r = q
  BY <1>3 DEF CallService
<1>5. todo[h] \in Seq(Symbols) /\ todo[h] # <<>> /\ Head(todo[h]) = todo[h][1]
  BY <1>1 DEF HandlerOK
<1>6. told[h] = None
  BY <1>1, <1>3 DEF HandlerOK
<1>7. ApiTypeOK'
  BY <1>2, <1>3, RefusalFits
<1>8. told'[h] # None => told'[h].error = ErrorOf(r) /\ ErrorOf(r) # "none"
  <2>1. CASE ErrorOf(r) = "rejected"
    <3>1. told'[h] = Service!Refusal(r)
      BY <1>3, <2>1
    <3> QED BY <2>1, <3>1, RefusalFits
  <2>2. CASE ErrorOf(r) # "rejected"
    BY <1>3, <1>6, <2>2
  <2> QED BY <2>1, <2>2
<1>9. Done(h, Asked(h))'
  <2>1. Asked(h)' = Asked(h)
    BY <1>2 DEF Asked
  <2>2. Done(h, Asked(h))
    BY <1>1 DEF HandlerOK
  <2> QED BY <1>2, <2>1, <2>2 DEF Done, SoundEntry
<1>10. HandlerOK(h)'
  <2>1. asked'[h] = r
    BY <1>3
  <2>2. Asked(h)' = Asked(h) /\ Valid(req[h])'  = Valid(req[h])
    BY <1>2 DEF Asked
  <2>3. told'[h] # None => Fitting(asked[h], told[h])'
    BY <1>8, <2>1 DEF Fitting
  <2>4. r = [symbol |-> todo[h][1], unknown |-> req[h].unknown]
    BY <1>4, <1>5
  <2>5. asked'[h] # None /\ (told'[h] # None => Fitting(asked[h], told[h])')
    BY <2>1, <2>3, PriceApiAssumption
  <2> HIDE DEF q
  <2> QED BY <1>1, <1>2, <1>9, <2>1, <2>2, <2>4, <2>5 DEF HandlerOK
<1>11. \A g \in Handlers \ {h} : Still(g) /\ pc'[g] = pc[g]
  BY <1>2, <1>3 DEF Still
<1> QED BY <1>2, <1>7, <1>10, <1>11, OthersOK

\* The service answers what it was asked.
LEMMA ServiceTellsOK ==
  ASSUME ApiInv, NEW h \in Handlers, ServiceTells(h) PROVE ApiTypeOK' /\ HandlersOK'
<1> USE DEF ApiInv, ApiTypeOK, request, answer
<1>1. HandlerOK(h)
  BY DEF HandlersOK
<1>2. UNCHANGED <<stage, req, todo, entries, code, asked, kept, pc>>
  BY DEF ServiceTells, Service!Tell, vars, handler
<1>3. PICK a \in {Service!Refusal(asked[h])} \cup Service!Success(asked[h]) :
        told' = [told EXCEPT ![h] = a]
  BY DEF ServiceTells, Service!Tell
<1>4. asked[h] # None
  BY DEF ServiceTells, Service!Tell, Service!InProgress
<1>5. a \in Answer /\ Fitting(asked[h], a)
  <2>1. CASE a = Service!Refusal(asked[h])
    <3>1. a \in Answer /\ a.error = ErrorOf(asked[h])
      BY <2>1, RefusalFits
    <3>2. ErrorOf(asked[h]) # "none"
      BY ErrorOfType
    <3> QED BY <3>1, <3>2 DEF Fitting
  <2>2. CASE a \in Service!Success(asked[h])
    <3> DEFINE q == asked[h]
    <3>1. /\ a \in Answer /\ a.error = "none" /\ a.bars # {} /\ a.bars \subseteq Wanted(q)
          /\ a.persisted => a.bars \subseteq kept
      BY <2>2, SuccessFits
    <3> QED BY <3>1 DEF Fitting
  <2> QED BY <2>1, <2>2
<1>6. ApiTypeOK'
  BY <1>2, <1>3, <1>5
<1>7. HandlerOK(h)'
  <2>1. told'[h] = a /\ asked'[h] = asked[h]
    BY <1>2, <1>3
  <2>2. Fitting(asked[h], told[h])'
    BY <1>2, <1>5, <2>1 DEF Fitting
  <2>3. Asked(h)' = Asked(h) /\ Valid(req[h])' = Valid(req[h])
    BY <1>2 DEF Asked
  <2>4. \A n : Done(h, n) => Done(h, n)'
    BY <1>2 DEF Done, SoundEntry
  <2> QED BY <1>1, <1>2, <1>4, <2>1, <2>2, <2>3, <2>4 DEF HandlerOK
<1>8. \A g \in Handlers \ {h} : Still(g) /\ pc'[g] = pc[g]
  BY <1>2, <1>3 DEF Still
<1> QED BY <1>2, <1>6, <1>7, <1>8, OthersOK

\* Bars that are kept leave every answer what it is.
LEMMA ServiceKeepsOK ==
  ASSUME ApiInv, NEW h \in Handlers, ServiceKeeps(h) PROVE ApiTypeOK' /\ HandlersOK'
<1> USE DEF ApiInv, ApiTypeOK, request, answer
<1>1. UNCHANGED <<stage, req, todo, entries, code, asked, told, pc>>
  BY DEF ServiceKeeps, Service!Keep, vars, handler
<1>2. kept' \in SUBSET Bars /\ kept \subseteq kept'
  <2>1. PICK B \in SUBSET Fetchable(asked[h]) : kept' = kept \cup B
    BY DEF ServiceKeeps, Service!Keep
  <2>2. Fetchable(asked[h]) \subseteq Bars
    BY DEF Fetchable, Wanted
  <2> QED BY <2>1, <2>2
<1>3. ASSUME NEW g \in Handlers PROVE HandlerOK(g)'
  <2>1. Still(g) /\ (stage[g] # "new" => pc'[g] = "served")
    BY <1>1 DEF Still, HandlersOK, HandlerOK
  <2> QED BY <1>2, <2>1, StillOK DEF HandlersOK
<1> QED BY <1>1, <1>2, <1>3 DEF HandlersOK

\* With a sound entry for its next symbol a handler has one symbol more done.
LEMMA OneMore ==
  ASSUME NEW h \in Handlers, NEW n \in Nat, NEW s0 \in Symbols, NEW e,
         Done(h, n), req[h].symbols[n + 1] = s0, SoundEntry(req[h], s0, e),
         entries[h] \in [Symbols -> Answer \cup {None}],
         entries'[h] = [entries[h] EXCEPT ![s0] = e], req' = req, kept' = kept
  PROVE  Done(h, n + 1)'
<1>1. ASSUME NEW s \in Symbols, NEW i \in 1..(n + 1), req[h].symbols[i] = s
      PROVE  SoundEntry(req[h], s, entries[h][s])'
  <2>1. CASE s = s0
    <3>1. entries'[h][s] = e
      BY <2>1
    <3> QED BY <2>1, <3>1 DEF SoundEntry
  <2>2. CASE s # s0
    <3>1. i \in 1..n
      BY <1>1, <2>2
    <3>2. SoundEntry(req[h], s, entries[h][s])
      BY <1>1, <3>1 DEF Done
    <3>3. entries'[h][s] = entries[h][s]
      BY <2>2
    <3> QED BY <3>2, <3>3 DEF SoundEntry
  <2> QED BY <2>1, <2>2
<1>2. ASSUME NEW s \in Symbols, ~(\E i \in 1..(n + 1) : req[h].symbols[i] = s)
      PROVE  entries'[h][s] = None
  <2>1. s # s0
    BY <1>2
  <2>2. ~(\E i \in 1..n : req[h].symbols[i] = s)
    BY <1>2
  <2>3. entries[h][s] = None
    BY <2>2 DEF Done
  <2> QED BY <2>1, <2>3
<1> QED BY <1>1, <1>2 DEF Done

\* What a handler knows when the service has answered it.
LEMMA AnsweredFits ==
  ASSUME ApiInv, NEW h \in Handlers, told[h] # None
  PROVE  /\ stage[h] = "calling" /\ told[h] \in Answer /\ Valid(req[h]) /\ Done(h, Asked(h))
         /\ req[h] \in Calls /\ req[h].symbols \in Seq(Symbols)
         /\ todo[h] \in Seq(Symbols) /\ todo[h] # <<>> /\ Asked(h) \in Nat
         /\ Len(req[h].symbols) = Asked(h) + Len(todo[h])
         /\ Head(todo[h]) \in Symbols /\ req[h].symbols[Asked(h) + 1] = Head(todo[h])
         /\ Fitting([symbol |-> Head(todo[h]), unknown |-> req[h].unknown], told[h])
<1>1. HandlerOK(h)
  BY DEF ApiInv, HandlersOK
<1>2. /\ stage[h] = "calling" /\ told[h] \in Answer /\ Valid(req[h]) /\ Done(h, Asked(h))
      /\ asked[h] = [symbol |-> todo[h][1], unknown |-> req[h].unknown] /\ Fitting(asked[h], told[h])
  BY <1>1 DEF HandlerOK, ApiInv, ApiTypeOK
<1>3. req[h] \in Calls /\ todo[h] \in Seq(Symbols) /\ req[h].symbols \in Seq(Symbols)
  BY PriceApiAssumption DEF ApiInv, ApiTypeOK, CallType
<1>4. Len(todo[h]) \in 1..Len(req[h].symbols) /\ Len(req[h].symbols) \in Nat
  BY <1>1, <1>2, <1>3 DEF HandlerOK
<1>5. todo[h] # <<>> /\ Head(todo[h]) = todo[h][1] /\ Head(todo[h]) \in Symbols
  BY <1>3, <1>4
<1>6. Asked(h) \in Nat /\ Len(req[h].symbols) = Asked(h) + Len(todo[h])
  BY <1>4 DEF Asked
<1>7. req[h].symbols[Asked(h) + 1] = Head(todo[h])
  BY <1>1, <1>2, <1>4, <1>5 DEF HandlerOK
<1> QED BY <1>2, <1>3, <1>5, <1>6, <1>7

\* A batch records what the service said of its symbol, an error as well, and goes on.
LEMMA TakeEntryOK ==
  ASSUME ApiInv, NEW h \in Handlers, TakeEntry(h) PROVE ApiTypeOK' /\ HandlersOK'
<1> USE DEF ApiInv, ApiTypeOK
<1> DEFINE s0 == Head(todo[h])
           q == [symbol |-> s0, unknown |-> req[h].unknown]
<1>0. PICK n \in Nat : n = Asked(h)
  BY AnsweredFits DEF TakeEntry, Service!Leave
<1>1. HandlerOK(h) /\ told[h] # None /\ req[h].kind = "batch"
  BY DEF HandlersOK, TakeEntry, Service!Leave
<1>2. req' = req /\ kept' = kept /\ pc' = pc
  BY DEF TakeEntry, Service!Leave, vars, handler
<1>3. /\ asked' = [asked EXCEPT ![h] = None] /\ told' = [told EXCEPT ![h] = None]
      /\ entries' = [entries EXCEPT ![h][s0] = told[h]]
      /\ todo' = [todo EXCEPT ![h] = Tail(todo[h])]
      /\ IF Tail(todo[h]) = <<>>
         THEN stage' = [stage EXCEPT ![h] = "reply"] /\ code' = [code EXCEPT ![h] = "OK"]
         ELSE stage' = stage /\ code' = code
  BY DEF TakeEntry, Service!Leave, Left, AnswerWith
<1>4. /\ stage[h] = "calling" /\ told[h] \in Answer /\ Valid(req[h]) /\ Done(h, n)
      /\ req[h].symbols \in Seq(Symbols) /\ todo[h] \in Seq(Symbols) /\ todo[h] # <<>> /\ n \in Nat
      /\ Len(req[h].symbols) = n + Len(todo[h])
      /\ s0 \in Symbols /\ req[h].symbols[n + 1] = s0 /\ Fitting(q, told[h])
  BY <1>0, <1>1, AnsweredFits
<1>5. SoundEntry(req[h], s0, told[h])
  BY <1>1, <1>4 DEF SoundEntry, Fitting
<1>6. entries[h] \in [Symbols -> Answer \cup {None}] /\ entries'[h] = [entries[h] EXCEPT ![s0] = told[h]]
  BY <1>3
<1>7. Done(h, n + 1)'
  <2> HIDE DEF s0, q
  <2> QED BY <1>2, <1>4, <1>5, <1>6, OneMore
<1>8. /\ Tail(todo[h]) \in Seq(Symbols) /\ Len(Tail(todo[h])) = Len(todo[h]) - 1
      /\ \A i \in 1..Len(Tail(todo[h])) : Tail(todo[h])[i] = todo[h][i + 1]
  BY <1>4, HeadTailProperties
<1>9. Len(todo[h]) \in Nat \ {0} /\ (Tail(todo[h]) = <<>> <=> Len(todo[h]) = 1)
  <2>1. Len(todo[h]) \in Nat \ {0}
    BY <1>4, EmptySeq, LenProperties
  <2>2. Tail(todo[h]) = <<>> <=> Len(Tail(todo[h])) = 0
    BY <1>8, EmptySeq
  <2> QED BY <1>8, <2>1, <2>2
<1>10. todo'[h] = Tail(todo[h]) /\ Asked(h)' = n + 1 /\ asked'[h] = None /\ told'[h] = None
  <2>1. todo'[h] = Tail(todo[h]) /\ asked'[h] = None /\ told'[h] = None
    BY <1>3
  <2>2. Asked(h)' = Len(req[h].symbols) - Len(Tail(todo[h]))
    BY <1>2, <2>1 DEF Asked
  <2> QED BY <1>4, <1>8, <1>9, <2>1, <2>2
<1>11. HandlerOK(h)'
  <2>1. CASE Tail(todo[h]) = <<>>
    <3>1. stage'[h] = "reply" /\ Len(req'[h].symbols) = n + 1
      BY <1>2, <1>3, <1>4, <1>9, <2>1
    <3> QED BY <1>1, <1>2, <1>4, <1>7, <1>10, <3>1 DEF HandlerOK
  <2>2. CASE Tail(todo[h]) # <<>>
    <3>1. stage'[h] = "calling"
      BY <1>3, <1>4, <2>2
    <3>2. Valid(req[h])' /\ Done(h, Asked(h))'
      BY <1>2, <1>4, <1>7, <1>10 DEF Valid
    <3>3. Len(todo'[h]) \in 1..Len(req'[h].symbols)
      BY <1>2, <1>4, <1>8, <1>9, <1>10, <2>2
    <3>4. \A i \in 1..Len(todo'[h]) : todo'[h][i] = req'[h].symbols[Asked(h)' + i]
      <4>1. TAKE i \in 1..Len(todo'[h])
      <4>2. i + 1 \in 1..Len(todo[h]) /\ todo'[h][i] = todo[h][i + 1]
        BY <1>8, <1>9, <1>10
      <4>3. todo[h][i + 1] = req[h].symbols[n + (i + 1)]
        BY <1>0, <1>1, <1>4, <4>2 DEF HandlerOK
      <4>4. n + (i + 1) = Asked(h)' + i
        BY <1>4, <1>10
      <4> QED BY <1>2, <4>2, <4>3, <4>4
    <3>5. pc'[h] = "served"
      BY <1>1, <1>2, <1>4 DEF HandlerOK
    <3> QED BY <1>10, <3>1, <3>2, <3>3, <3>4, <3>5 DEF HandlerOK
  <2> QED BY <2>1, <2>2
<1>12. \A g \in Handlers \ {h} : Still(g) /\ pc'[g] = pc[g]
  BY <1>2, <1>3 DEF Still
<1>13. ApiTypeOK'
  <2>1. stage' \in [Handlers -> {"new", "calling", "reply"}] /\ code' \in [Handlers -> Codes]
    BY <1>3 DEF Codes
  <2>2. todo' \in [Handlers -> Seq(Symbols)] /\ req' \in [Handlers -> Calls] /\ kept' \in SUBSET Bars
    BY <1>2, <1>3, <1>8
  <2>3. entries' \in [Handlers -> [Symbols -> Answer \cup {None}]]
    BY <1>3, <1>4
  <2>4. asked' \in [Handlers -> Query \cup {None}] /\ told' \in [Handlers -> Answer \cup {None}]
    BY <1>3
  <2> QED BY <2>1, <2>2, <2>3, <2>4
<1> QED BY <1>2, <1>11, <1>12, <1>13, OthersOK

\* What a single request answers with is sound when the service's answer is.
LEMMA BodyFits ==
  ASSUME NEW r \in Calls, NEW a \in Answer, NEW q, Fitting(q, a), a.error = "none"
  PROVE  /\ Body(r, a) \in Answer /\ Body(r, a).error = "none" /\ Body(r, a).bars # {}
         /\ Body(r, a).bars \subseteq Wanted(q)
         /\ Body(r, a).persisted => Body(r, a).bars \subseteq kept
<1>1. a.bars \in SUBSET Bars /\ a.bars # {} /\ a.bars \subseteq Wanted(q) /\ (a.persisted => a.bars \subseteq kept)
  BY DEF Fitting, Answer
<1>2. LastOf(a.bars) \in a.bars
  BY <1>1, LastOfType
<1>3. CASE r.kind = "latest"
  <2>1. Body(r, a) = [a EXCEPT !.bars = {LastOf(a.bars)}]
    BY <1>3 DEF Body
  <2>2. /\ Body(r, a).bars = {LastOf(a.bars)} /\ Body(r, a).error = "none"
        /\ Body(r, a).persisted = a.persisted /\ Body(r, a) \in Answer
    <3>1. {LastOf(a.bars)} \in SUBSET Bars
      BY <1>1, <1>2
    <3> QED BY <2>1, <3>1 DEF Answer
  <2> QED BY <1>1, <1>2, <2>2
<1>4. CASE r.kind # "latest"
  BY <1>1, <1>4 DEF Body
<1> QED BY <1>3, <1>4

\* A single request answers with what the service said, or with a code that is not OK.
LEMMA TakeResultOK ==
  ASSUME ApiInv, NEW h \in Handlers, TakeResult(h) PROVE ApiTypeOK' /\ HandlersOK'
<1> USE DEF ApiInv, ApiTypeOK
<1> DEFINE s0 == Head(todo[h])
           q == [symbol |-> s0, unknown |-> req[h].unknown]
           e == Body(req[h], told[h])
<1>0. PICK n \in Nat : n = Asked(h)
  BY AnsweredFits DEF TakeResult, Service!Leave
<1>1. HandlerOK(h) /\ told[h] # None /\ req[h].kind # "batch"
  BY DEF HandlersOK, TakeResult, Service!Leave
<1>2. req' = req /\ kept' = kept /\ pc' = pc
  BY DEF TakeResult, Service!Leave, vars, handler
<1>3. /\ asked' = [asked EXCEPT ![h] = None] /\ told' = [told EXCEPT ![h] = None]
      /\ todo' = [todo EXCEPT ![h] = <<>>] /\ stage' = [stage EXCEPT ![h] = "reply"]
      /\ IF told[h].error = "none"
         THEN entries' = [entries EXCEPT ![h][s0] = e] /\ code' = [code EXCEPT ![h] = "OK"]
         ELSE entries' = entries /\ code' = [code EXCEPT ![h] = ErrorCode(req[h], told[h])]
  BY DEF TakeResult, Service!Leave, AnswerWith
<1>4. /\ stage[h] = "calling" /\ told[h] \in Answer /\ Valid(req[h]) /\ Done(h, n)
      /\ req[h] \in Calls /\ req[h].symbols \in Seq(Symbols) /\ todo[h] \in Seq(Symbols) /\ todo[h] # <<>>
      /\ n \in Nat /\ Len(req[h].symbols) = n + Len(todo[h])
      /\ s0 \in Symbols /\ req[h].symbols[n + 1] = s0 /\ Fitting(q, told[h])
  BY <1>0, <1>1, AnsweredFits
<1>5. n = 0 /\ Len(req[h].symbols) = 1
  <2>1. Len(req[h].symbols) = 1
    BY <1>1, <1>4, PriceApiAssumption
  <2>2. Len(todo[h]) \in Nat \ {0}
    BY <1>4, EmptySeq, LenProperties
  <2>3. 1 = n + Len(todo[h])
    BY <1>4, <2>1
  <2> HIDE DEF ApiInv, ApiTypeOK
  <2> QED BY <1>0, <2>1, <2>2, <2>3
<1>6. ErrorCode(req[h], told[h]) \in {"UNKNOWN_PROVIDER", "PROVIDER_FAILURE"}
  BY DEF ErrorCode
<1>7. asked'[h] = None /\ told'[h] = None /\ stage'[h] = "reply" /\ pc'[h] = "served"
  BY <1>1, <1>2, <1>3, <1>4 DEF HandlerOK
<1>8. CASE told[h].error = "none"
  <2>1. e \in Answer /\ SoundEntry(req[h], s0, e)
    <3>1. /\ e \in Answer /\ e.error = "none" /\ e.bars # {} /\ e.bars \subseteq Wanted(q)
          /\ e.persisted => e.bars \subseteq kept
      <4> HIDE DEF q
      <4> QED BY <1>4, <1>8, BodyFits
    <3>2. e # None
      BY <3>1, PriceApiAssumption
    <3> HIDE DEF e
    <3> QED BY <3>1, <3>2 DEF SoundEntry
  <2>2. entries[h] \in [Symbols -> Answer \cup {None}] /\ entries'[h] = [entries[h] EXCEPT ![s0] = e]
    BY <1>3, <1>8
  <2>3. Done(h, n + 1)'
    <3> HIDE DEF s0, q, e
    <3> QED BY <1>2, <1>4, <2>1, <2>2, OneMore
  <2>4. Done(h, Len(req[h].symbols))'
    BY <1>2, <1>5, <2>3
  <2>5. HandlerOK(h)'
    BY <1>7, <2>4 DEF HandlerOK
  <2>6. \A g \in Handlers \ {h} : Still(g) /\ pc'[g] = pc[g]
    <3> HIDE DEF e, s0
    <3> QED BY <1>2, <1>3, <1>8 DEF Still
  <2>7. ApiTypeOK'
    <3>1. entries' \in [Handlers -> [Symbols -> Answer \cup {None}]]
      <4>1. entries' = [entries EXCEPT ![h][s0] = e]
        BY <1>3, <1>8
      <4> HIDE DEF e, s0
      <4> QED BY <1>4, <2>1, <4>1
    <3>2. <<>> \in Seq(Symbols)
      OBVIOUS
    <3>3. code' \in [Handlers -> Codes]
      BY <1>3, <1>8 DEF Codes
    <3> QED BY <1>2, <1>3, <3>1, <3>2, <3>3
  <2> QED BY <1>2, <2>5, <2>6, <2>7, OthersOK
<1>9. CASE told[h].error # "none"
  <2>1. entries' = entries /\ code' = [code EXCEPT ![h] = ErrorCode(req[h], told[h])]
    BY <1>3, <1>9
  <2>2. code'[h] # "OK"
    BY <1>6, <2>1
  <2>3. HandlerOK(h)'
    BY <1>7, <2>2 DEF HandlerOK
  <2>4. \A g \in Handlers \ {h} : Still(g) /\ pc'[g] = pc[g]
    BY <1>2, <1>3, <2>1 DEF Still
  <2>5. ApiTypeOK'
    <3>1. code' \in [Handlers -> Codes]
      BY <1>6, <2>1 DEF Codes
    <3>2. <<>> \in Seq(Symbols)
      OBVIOUS
    <3> QED BY <1>2, <1>3, <2>1, <3>1, <3>2
  <2> QED BY <1>2, <2>3, <2>4, <2>5, OthersOK
<1> QED BY <1>8, <1>9

\* An answer that is sent leaves nothing behind.
LEMMA SendOK ==
  ASSUME ApiInv, NEW h \in Handlers, Send(h) PROVE ApiTypeOK' /\ HandlersOK'
<1> USE DEF ApiInv, ApiTypeOK, service
<1>1. HandlerOK(h) /\ stage[h] = "reply"
  BY DEF HandlersOK, Send
<1>2. /\ stage' = [stage EXCEPT ![h] = "new"] /\ entries' = [entries EXCEPT ![h] = NoEntries]
      /\ code' = [code EXCEPT ![h] = "OK"] /\ req' = [req EXCEPT ![h] = AnyCall]
      /\ UNCHANGED <<todo, asked, told, kept>>
  BY DEF Send
<1>3. \A g \in Handlers \ {h} : Still(g) /\ pc'[g] = pc[g]
  BY <1>2 DEF Send, Serve, Still, TypeOK
<1>4. HandlerOK(h)'
  BY <1>1, <1>2 DEF HandlerOK
<1>5. ApiTypeOK'
  BY <1>2, AnyCallType DEF NoEntries, Codes
<1> QED BY <1>2, <1>3, <1>4, <1>5, OthersOK

\* The invariant holds at the start.
LEMMA ApiInitOK == ApiInit => ApiTypeOK /\ HandlersOK
<1> SUFFICES ASSUME ApiInit PROVE ApiTypeOK /\ HandlersOK
  OBVIOUS
<1>1. ApiTypeOK
  BY AnyCallType DEF ApiInit, ApiTypeOK, NoEntries, Codes, Service!Init
<1>2. HandlersOK
  BY DEF ApiInit, HandlersOK, HandlerOK, Service!Init
<1> QED BY <1>1, <1>2

\* Every step keeps it.
LEMMA ApiNextOK == ApiInv /\ [ApiNext]_apiVars => ApiTypeOK' /\ HandlersOK'
<1> SUFFICES ASSUME ApiInv, [ApiNext]_apiVars PROVE ApiTypeOK' /\ HandlersOK'
  OBVIOUS
<1>1. CASE UNCHANGED <<pc, request, answer, service>>
  BY <1>1 DEF request, answer, service, ApiInv, ApiTypeOK, HandlersOK, HandlerOK, Valid, Asked, Done,
              SoundEntry, Fitting
<1>2. CASE UNCHANGED apiVars
  BY <1>1, <1>2 DEF apiVars, vars, handler
<1>3. CASE ClockTurns \/ AtRest
  BY <1>1, <1>3 DEF ClockTurns, AtRest, MinutePasses, apiVars, vars, handler
<1>4. ASSUME NEW h \in Handlers, Receive(h) \/ ServiceKeeps(h) \/ Handle(h)
      PROVE  ApiTypeOK' /\ HandlersOK'
  BY <1>4, ReceiveOK, ServiceKeepsOK, CountItOK, TooManyOK, ParseOK, CallServiceOK, ServiceTellsOK,
     TakeEntryOK, TakeResultOK, SendOK DEF Handle
<1> QED BY <1>2, <1>3, <1>4 DEF ApiNext

\* Good answers are sound for any number of handlers and batches of any length.
THEOREM ResponseHolds == ApiSpec => []ResponseSound
<1>1. ApiSpec => []TypeOK
  BY ApiLimits, TypeCorrect, PTL
<1>2. ApiInit => ApiTypeOK /\ HandlersOK
  BY ApiInitOK
<1>3. TypeOK /\ (ApiTypeOK /\ HandlersOK) /\ [ApiNext]_apiVars => (ApiTypeOK /\ HandlersOK)'
  BY ApiNextOK DEF ApiInv
<1>4. ApiTypeOK /\ HandlersOK => ResponseSound
  <2>1. ASSUME ApiTypeOK, HandlersOK, NEW h \in Handlers, stage[h] = "reply", code[h] = "OK",
               NEW s \in Symbols
        PROVE  IF \E i \in DOMAIN req[h].symbols : req[h].symbols[i] = s
               THEN SoundEntry(req[h], s, entries[h][s])
               ELSE entries[h][s] = None
    <3>1. req[h].symbols \in Seq(Symbols)
      BY <2>1, PriceApiAssumption DEF ApiTypeOK, CallType
    <3>2. DOMAIN req[h].symbols = 1..Len(req[h].symbols)
      BY <3>1
    <3>3. Done(h, Len(req[h].symbols))
      BY <2>1 DEF HandlersOK, HandlerOK
    <3> QED BY <3>2, <3>3 DEF Done
  <2> QED BY <2>1 DEF ResponseSound
<1> QED BY <1>1, <1>2, <1>3, <1>4, PTL DEF ApiSpec
------------------------------------------------------------------------------
(* The counters of /metrics. *)

\* The requests under way, and those about to be answered with an error of the service.
UnderWay == {h \in Handlers : pc[h] # "idle"}
Failing == {h \in Handlers : stage[h] = "reply" /\ code[h] \in Failures}

\* Answers sent, and among them errors of the service.
AllSent == sent["OK"] + sent["RATE_LIMIT_EXCEEDED"] + sent["INVALID_REQUEST"]
           + sent["UNKNOWN_PROVIDER"] + sent["PROVIDER_FAILURE"]
FailuresSent == sent["UNKNOWN_PROVIDER"] + sent["PROVIDER_FAILURE"]

\* The counters are right, and only the limiter answers 429.
CountsOK ==
  /\ sent \in [Codes -> Nat] /\ requests \in Nat /\ providerErrors \in Nat
  /\ IsFiniteSet(UnderWay) /\ IsFiniteSet(Failing)
  /\ \A h \in Handlers : code[h] # "RATE_LIMIT_EXCEEDED"
  /\ requests = Cardinality(UnderWay) + AllSent
  /\ limited = sent["RATE_LIMIT_EXCEEDED"]
  /\ providerErrors = Cardinality(Failing) + FailuresSent

\* What sending one answer does to the counts of answers.
LEMMA OneMoreSent ==
  ASSUME sent \in [Codes -> Nat], NEW c \in Codes, sent' = [sent EXCEPT ![c] = @ + 1]
  PROVE  /\ sent' \in [Codes -> Nat] /\ AllSent \in Nat /\ FailuresSent \in Nat
         /\ AllSent' = AllSent + 1
         /\ FailuresSent' = FailuresSent + (IF c \in Failures THEN 1 ELSE 0)
         /\ sent'["RATE_LIMIT_EXCEEDED"] =
              sent["RATE_LIMIT_EXCEEDED"] + (IF c = "RATE_LIMIT_EXCEEDED" THEN 1 ELSE 0)
BY DEF AllSent, FailuresSent, Codes, Failures

\* The sums are numbers.
LEMMA SentType ==
  ASSUME CountsOK
  PROVE  /\ AllSent \in Nat /\ FailuresSent \in Nat
         /\ Cardinality(UnderWay) \in Nat /\ Cardinality(Failing) \in Nat
<1>1. AllSent \in Nat /\ FailuresSent \in Nat
  BY DEF CountsOK, AllSent, FailuresSent, Codes
<1> QED BY <1>1, FS_CardinalityType DEF CountsOK

\* A request that arrives is counted and is under way.
LEMMA ReceiveCounts ==
  ASSUME ApiInv, CountsOK, NEW h \in Handlers, Receive(h) PROVE CountsOK'
<1> USE DEF ApiInv, ApiTypeOK
<1>1. /\ pc[h] = "idle" /\ pc'[h] # "idle" /\ (\A g \in Handlers \ {h} : pc'[g] = pc[g])
      /\ requests' = requests + 1 /\ UNCHANGED <<stage, code, providerErrors, sent, limited>>
  BY DEF Receive, Arrive, TypeOK, answer, limiter
<1>2. UnderWay' = UnderWay \cup {h} /\ h \notin UnderWay /\ Failing' = Failing
  BY <1>1 DEF UnderWay, Failing
<1>3. IsFiniteSet(UnderWay') /\ Cardinality(UnderWay') = Cardinality(UnderWay) + 1
  BY <1>2, FS_AddElement DEF CountsOK
<1>4. AllSent' = AllSent /\ FailuresSent' = FailuresSent
  BY <1>1 DEF AllSent, FailuresSent
<1>5. requests' = Cardinality(UnderWay') + AllSent' /\ requests' \in Nat
  BY <1>1, <1>3, <1>4, SentType DEF CountsOK
<1> QED BY <1>1, <1>2, <1>3, <1>4, <1>5 DEF CountsOK

\* A handler that stops leaves the requests under way.
LEMMA OneLess ==
  ASSUME CountsOK, NEW h \in Handlers, pc[h] # "idle", pc'[h] = "idle",
         \A g \in Handlers \ {h} : pc'[g] = pc[g]
  PROVE  IsFiniteSet(UnderWay') /\ Cardinality(UnderWay') = Cardinality(UnderWay) - 1
<1>1. UnderWay' = UnderWay \ {h} /\ h \in UnderWay
  BY DEF UnderWay
<1> QED BY <1>1, FS_RemoveElement DEF CountsOK

\* A refusal is counted as limited and sent.
LEMMA TooManyCounts ==
  ASSUME ApiInv, CountsOK, NEW h \in Handlers, TooMany(h) PROVE CountsOK'
<1> USE DEF ApiInv, ApiTypeOK
<1>1. /\ pc[h] = "refused" /\ pc'[h] = "idle" /\ (\A g \in Handlers \ {h} : pc'[g] = pc[g])
      /\ UNCHANGED <<stage, code, requests, providerErrors>> /\ limited' = limited + 1
      /\ sent' = [sent EXCEPT !["RATE_LIMIT_EXCEEDED"] = @ + 1]
  BY DEF TooMany, Refuse, TypeOK, answer, metrics
<1>2. Failing' = Failing
  BY <1>1 DEF Failing
<1>3. IsFiniteSet(UnderWay') /\ Cardinality(UnderWay') = Cardinality(UnderWay) - 1
  BY <1>1, OneLess
<1>4. /\ sent' \in [Codes -> Nat] /\ AllSent' = AllSent + 1 /\ FailuresSent' = FailuresSent
      /\ sent'["RATE_LIMIT_EXCEEDED"] = sent["RATE_LIMIT_EXCEEDED"] + 1
  <2>1. "RATE_LIMIT_EXCEEDED" \in Codes \ Failures
    BY DEF Codes, Failures
  <2>2. FailuresSent + 0 = FailuresSent
    BY SentType
  <2> QED BY <1>1, <2>1, <2>2, OneMoreSent DEF CountsOK
<1>5. requests' = Cardinality(UnderWay') + AllSent' /\ limited' = sent'["RATE_LIMIT_EXCEEDED"]
  BY <1>1, <1>3, <1>4, SentType DEF CountsOK
<1> QED BY <1>1, <1>2, <1>3, <1>4, <1>5 DEF CountsOK

\* An answer that is sent is counted by its code, and its handler stops.
LEMMA SendCounts ==
  ASSUME ApiInv, CountsOK, NEW h \in Handlers, Send(h) PROVE CountsOK'
<1> USE DEF ApiInv, ApiTypeOK
<1>1. /\ pc[h] = "served" /\ pc'[h] = "idle" /\ (\A g \in Handlers \ {h} : pc'[g] = pc[g])
      /\ stage[h] = "reply" /\ stage' = [stage EXCEPT ![h] = "new"]
      /\ code' = [code EXCEPT ![h] = "OK"] /\ UNCHANGED <<limited, requests, providerErrors>>
      /\ sent' = [sent EXCEPT ![code[h]] = @ + 1]
  BY DEF Send, Serve, TypeOK, metrics, limiter
<1>2. IsFiniteSet(UnderWay') /\ Cardinality(UnderWay') = Cardinality(UnderWay) - 1
  BY <1>1, OneLess
<1>3. code[h] \in Codes /\ code[h] # "RATE_LIMIT_EXCEEDED"
  BY DEF CountsOK
<1>4. /\ sent' \in [Codes -> Nat] /\ AllSent' = AllSent + 1
      /\ FailuresSent' = FailuresSent + (IF code[h] \in Failures THEN 1 ELSE 0)
      /\ sent'["RATE_LIMIT_EXCEEDED"] = sent["RATE_LIMIT_EXCEEDED"] + 0
  BY <1>1, <1>3, OneMoreSent DEF CountsOK
<1>5. Failing' = Failing \ {h} /\ (h \in Failing <=> code[h] \in Failures)
  BY <1>1 DEF Failing
<1>6. /\ IsFiniteSet(Failing')
      /\ Cardinality(Failing') = Cardinality(Failing) - (IF code[h] \in Failures THEN 1 ELSE 0)
  <2>1. CASE code[h] \in Failures
    BY <1>5, <2>1, FS_RemoveElement DEF CountsOK
  <2>2. CASE code[h] \notin Failures
    <3>1. Failing' = Failing
      BY <1>5, <2>2
    <3> QED BY <2>2, <3>1, SentType DEF CountsOK
  <2> QED BY <2>1, <2>2
<1>7. requests' = Cardinality(UnderWay') + AllSent' /\ limited' = sent'["RATE_LIMIT_EXCEEDED"]
  <2>1. requests' = Cardinality(UnderWay') + AllSent'
    BY <1>1, <1>2, <1>4, SentType DEF CountsOK
  <2>2. sent["RATE_LIMIT_EXCEEDED"] \in Nat
    BY DEF CountsOK, Codes
  <2> QED BY <1>1, <1>4, <2>1, <2>2 DEF CountsOK
<1>8. providerErrors' = Cardinality(Failing') + FailuresSent'
  BY <1>1, <1>4, <1>6, SentType DEF CountsOK
<1>9. \A g \in Handlers : code'[g] # "RATE_LIMIT_EXCEEDED"
  BY <1>1 DEF CountsOK
<1> QED BY <1>1, <1>2, <1>4, <1>6, <1>7, <1>8, <1>9 DEF CountsOK

\* The counts do not care for a step in which no request comes or goes and none fails.
LEMMA SameCounts ==
  ASSUME CountsOK, UNCHANGED <<requests, providerErrors, sent, limited>>,
         \A h \in Handlers : (pc'[h] # "idle") = (pc[h] # "idle"), Failing' = Failing,
         \A h \in Handlers : code'[h] # "RATE_LIMIT_EXCEEDED"
  PROVE  CountsOK'
<1>1. UnderWay' = UnderWay
  BY DEF UnderWay
<1>2. AllSent' = AllSent /\ FailuresSent' = FailuresSent
  BY DEF AllSent, FailuresSent
<1> QED BY <1>1, <1>2 DEF CountsOK

\* A single request that the service failed is counted as a provider error; a good answer is not.
LEMMA TakeResultCounts ==
  ASSUME ApiInv, CountsOK, NEW h \in Handlers, TakeResult(h) PROVE CountsOK'
<1> USE DEF ApiInv, ApiTypeOK
<1>1. /\ stage[h] = "calling" /\ stage' = [stage EXCEPT ![h] = "reply"]
      /\ UNCHANGED <<pc, limited, requests, sent>>
  BY AnsweredFits DEF TakeResult, Service!Leave, AnswerWith, vars, handler, limiter
<1>2. CASE told[h].error = "none"
  <2>1. code' = [code EXCEPT ![h] = "OK"] /\ providerErrors' = providerErrors
    BY <1>2 DEF TakeResult, AnswerWith
  <2>2. Failing' = Failing
    BY <1>1, <2>1 DEF Failing, Failures
  <2>3. \A g \in Handlers : code'[g] # "RATE_LIMIT_EXCEEDED"
    BY <2>1 DEF CountsOK
  <2> QED BY <1>1, <2>1, <2>2, <2>3, SameCounts
<1>3. CASE told[h].error # "none"
  <2> DEFINE c == ErrorCode(req[h], told[h])
  <2>1. code' = [code EXCEPT ![h] = c] /\ providerErrors' = providerErrors + 1
    BY <1>3 DEF TakeResult, AnswerWith, Counted
  <2>2. c \in Failures /\ c # "RATE_LIMIT_EXCEEDED"
    BY DEF ErrorCode, Failures
  <2> HIDE DEF c
  <2>3. Failing' = Failing \cup {h} /\ h \notin Failing
    BY <1>1, <2>1, <2>2 DEF Failing
  <2>4. IsFiniteSet(Failing') /\ Cardinality(Failing') = Cardinality(Failing) + 1
    BY <2>3, FS_AddElement DEF CountsOK
  <2>5. UnderWay' = UnderWay /\ AllSent' = AllSent /\ FailuresSent' = FailuresSent
    BY <1>1 DEF UnderWay, AllSent, FailuresSent
  <2>6. providerErrors' = Cardinality(Failing') + FailuresSent' /\ providerErrors' \in Nat
    BY <2>1, <2>4, <2>5, SentType DEF CountsOK
  <2>7. \A g \in Handlers : code'[g] # "RATE_LIMIT_EXCEEDED"
    BY <2>1, <2>2 DEF CountsOK
  <2> QED BY <1>1, <2>4, <2>5, <2>6, <2>7 DEF CountsOK
<1> QED BY <1>2, <1>3

\* The other steps of a handler count nothing: a batch fails as a whole for no symbol.
LEMMA OtherStepsCount ==
  ASSUME ApiInv, CountsOK, NEW h \in Handlers,
         CountIt(h) \/ Parse(h) \/ CallService(h) \/ ServiceKeeps(h) \/ ServiceTells(h) \/ TakeEntry(h)
  PROVE  CountsOK'
<1> USE DEF ApiInv, ApiTypeOK
<1>1. UNCHANGED <<requests, providerErrors, sent, limited>>
  BY DEF CountIt, Count, Parse, CallService, ServiceKeeps, ServiceTells, TakeEntry, vars, limiter, metrics
<1>2. \A g \in Handlers : (pc'[g] # "idle") = (pc[g] # "idle")
  BY DEF CountIt, Count, TypeOK, Parse, CallService, ServiceKeeps, ServiceTells, TakeEntry, vars, handler
<1>3. Failing' = Failing /\ \A g \in Handlers : code'[g] # "RATE_LIMIT_EXCEEDED"
  <2>1. CASE stage' = stage /\ code' = code
    BY <2>1 DEF Failing, CountsOK
  <2>2. CASE Parse(h)
    <3>1. stage[h] = "new" /\ (\A g \in Handlers \ {h} : stage'[g] = stage[g] /\ code'[g] = code[g])
      BY <2>2 DEF Parse, AnswerWith
    <3>2. \/ stage'[h] = "calling" /\ code' = code
          \/ stage'[h] = "reply" /\ code'[h] = "INVALID_REQUEST"
      BY <2>2 DEF Parse, AnswerWith
    <3>3. Failing' = Failing
      BY <3>1, <3>2 DEF Failing, Failures
    <3> QED BY <3>1, <3>2, <3>3 DEF CountsOK
  <2>3. CASE TakeEntry(h)
    <3>1. stage[h] = "calling"
      BY <2>3, AnsweredFits DEF TakeEntry, Service!Leave
    <3>2. \/ stage' = stage /\ code' = code
          \/ stage' = [stage EXCEPT ![h] = "reply"] /\ code' = [code EXCEPT ![h] = "OK"]
      BY <2>3 DEF TakeEntry, AnswerWith
    <3>3. Failing' = Failing
      BY <3>1, <3>2 DEF Failing, Failures
    <3> QED BY <3>2, <3>3 DEF CountsOK
  <2>4. CASE CountIt(h) \/ CallService(h) \/ ServiceKeeps(h) \/ ServiceTells(h)
    BY <2>1, <2>4 DEF CountIt, CallService, ServiceKeeps, ServiceTells, answer
  <2> QED BY <2>2, <2>3, <2>4
<1> QED BY <1>1, <1>2, <1>3, SameCounts

\* The counts are right at the start.
LEMMA ApiInitCounts == ApiInit => CountsOK
<1> SUFFICES ASSUME ApiInit PROVE CountsOK
  OBVIOUS
<1>1. UnderWay = {} /\ Failing = {}
  BY DEF ApiInit, Init, UnderWay, Failing
<1>2. sent = [c \in Codes |-> 0] /\ sent \in [Codes -> Nat] /\ AllSent = 0 /\ FailuresSent = 0
  BY DEF ApiInit, Codes, AllSent, FailuresSent
<1>3. limited = 0 /\ requests = 0 /\ providerErrors = 0 /\ sent["RATE_LIMIT_EXCEEDED"] = 0
      /\ \A h \in Handlers : code[h] # "RATE_LIMIT_EXCEEDED"
  BY <1>2 DEF ApiInit, Init, Codes
<1> QED BY <1>1, <1>2, <1>3, FS_EmptySet DEF CountsOK

\* No step miscounts.
LEMMA ApiNextCounts == ApiInv /\ CountsOK /\ [ApiNext]_apiVars => CountsOK'
<1> SUFFICES ASSUME ApiInv, CountsOK, [ApiNext]_apiVars PROVE CountsOK'
  OBVIOUS
<1>1. CASE UNCHANGED <<pc, limited, stage, code, requests, providerErrors, sent>>
  <2>1. Failing' = Failing /\ \A g \in Handlers : code'[g] # "RATE_LIMIT_EXCEEDED"
    BY <1>1 DEF Failing, CountsOK
  <2> QED BY <1>1, <2>1, SameCounts
<1>2. CASE UNCHANGED apiVars
  BY <1>1, <1>2 DEF apiVars, vars, handler, limiter, answer, metrics
<1>3. CASE ClockTurns \/ AtRest
  BY <1>1, <1>3 DEF ClockTurns, AtRest, MinutePasses, apiVars, vars, handler, limiter, answer, metrics
<1>4. ASSUME NEW h \in Handlers, Receive(h) \/ ServiceKeeps(h) \/ Handle(h) PROVE CountsOK'
  BY <1>4, ReceiveCounts, TooManyCounts, SendCounts, TakeResultCounts, OtherStepsCount DEF Handle
<1> QED BY <1>2, <1>3, <1>4 DEF ApiNext

\* The counters of /metrics agree with the answers for any number of handlers and requests.
THEOREM MetricsHold == ApiSpec => []MetricsBalance
<1>1. ApiSpec => []TypeOK
  BY ApiLimits, TypeCorrect, PTL
<1> DEFINE I == ApiTypeOK /\ HandlersOK /\ CountsOK
<1>2. ApiInit => I
  BY ApiInitOK, ApiInitCounts
<1>3. TypeOK /\ I /\ [ApiNext]_apiVars => I'
  BY ApiNextOK, ApiNextCounts DEF ApiInv
<1>4. I => MetricsBalance
  <2>1. SUFFICES ASSUME CountsOK PROVE MetricsBalance
    OBVIOUS
  <2>2. AllSent \in Nat /\ sent \in [Codes -> Nat] /\ Cardinality(UnderWay) \in Nat
    BY <2>1, SentType DEF CountsOK
  <2>3. requests = Cardinality(UnderWay) + sent["OK"] + sent["RATE_LIMIT_EXCEEDED"]
                   + sent["INVALID_REQUEST"] + sent["UNKNOWN_PROVIDER"] + sent["PROVIDER_FAILURE"]
    BY <2>1, <2>2 DEF CountsOK, AllSent, Codes
  <2>4. providerErrors = Cardinality(Failing) + sent["UNKNOWN_PROVIDER"] + sent["PROVIDER_FAILURE"]
    BY <2>1, <2>2, SentType DEF CountsOK, FailuresSent, Codes
  <2> QED BY <2>1, <2>3, <2>4 DEF CountsOK, MetricsBalance, UnderWay, Failing
<1> HIDE DEF I
<1> QED BY <1>1, <1>2, <1>3, <1>4, PTL DEF ApiSpec
==============================================================================
