------------------------------- MODULE PriceApi -------------------------------
(***************************************************************************)
(* The price endpoints: historical, latest and batch.  A request counts,   *)
(* passes the rate limiter once, is parsed, and calls the price service    *)
(* for its symbol, or for one symbol of a batch after the other; then its  *)
(* answer is sent.  The service is PriceService, which Historical          *)
(* implements; between any two steps other requests may run.               *)
(***************************************************************************)
EXTENDS RateLimiter, Sequences, FiniteSets

CONSTANTS
  Symbols,   \* symbols a request may name
  Blank,     \* one of them: the empty one
  Bars,      \* the bars there are, as (symbol, day) pairs
  Calls,     \* the requests clients make
  None       \* no call, no answer, no entry

\* What is unknown of the provider names a request carries: none, its provider, or the only
\* one on its priority list.
Unknown == {"none", "provider", "list"}
CallType == [kind : {"historical", "latest", "batch"}, symbols : Seq(Symbols),
             unknown : Unknown,
             ok : BOOLEAN]      \* its body, dates, range and interval parse

\* What the service is asked, one symbol of a request, and what it says.
Query == [symbol : Symbols, unknown : Unknown]
Answer == [error : {"none", "rejected", "unknown", "failed"}, bars : SUBSET Bars, persisted : BOOLEAN]

ASSUME PriceApiAssumption ==
  /\ Blank \in Symbols
  /\ IsFiniteSet(Bars) /\ Bars \subseteq (Symbols \ {Blank}) \X Int
  /\ None \notin Query /\ None \notin Answer
  /\ Calls \subseteq CallType /\ Calls # {}
  /\ \A r \in Calls : r.kind # "batch" => Len(r.symbols) = 1

VARIABLES
  stage,     \* where each handler stands after allow
  req,       \* its request
  todo,      \* the symbols it has not called the service for
  entries,   \* the body of its answer: what the service said by symbol
  code,      \* the code of its answer
  requests, providerErrors,   \* s.metrics.Requests, s.metrics.ProviderErrors
  sent,      \* history: answers sent by code
  asked, told, kept           \* the price service's

request == <<req, todo>>
answer  == <<stage, entries, code>>
metrics == <<requests, providerErrors>>
service == <<asked, told, kept>>
apiVars == <<vars, request, answer, metrics, sent, service>>

\* The bars the service may answer a query with, those it may fetch for it, and the error it
\* ends with otherwise.  Stored bars answer a query whatever its priority list says.
Wanted(q) == {b \in Bars : q.unknown # "provider" /\ b[1] = q.symbol}
Fetchable(q) == {b \in Wanted(q) : q.unknown = "none"}
ErrorOf(q) ==
  IF q.symbol = Blank THEN "rejected" ELSE IF q.unknown = "none" THEN "failed" ELSE "unknown"

Service == INSTANCE PriceService WITH
  Clients <- Handlers, Requests <- Query, Nothing <- None

Codes == {"OK", "RATE_LIMIT_EXCEEDED", "INVALID_REQUEST", "UNKNOWN_PROVIDER", "PROVIDER_FAILURE"}
AnyCall == CHOOSE r \in Calls : TRUE
NoEntries == [s \in Symbols |-> None]

ApiInit ==
  /\ Init
  /\ stage = [h \in Handlers |-> "new"]
  /\ req = [h \in Handlers |-> AnyCall]
  /\ todo = [h \in Handlers |-> <<>>]
  /\ entries = [h \in Handlers |-> NoEntries]
  /\ code = [h \in Handlers |-> "OK"]
  /\ requests = 0 /\ providerErrors = 0
  /\ sent = [c \in Codes |-> 0]
  /\ Service!Init
------------------------------------------------------------------------------
\* loggingMiddleware counts the request; its handler begins with allow.
Receive(h) ==
  /\ Arrive(h)
  /\ \E r \in Calls : req' = [req EXCEPT ![h] = r]
  /\ requests' = requests + 1
  /\ UNCHANGED <<todo, answer, providerErrors, sent, service>>

CountIt(h) == Count(h) /\ UNCHANGED <<request, answer, metrics, sent, service>>

\* The counter of refused requests is raised and the 429 sent, taken as one step.
TooMany(h) ==
  /\ Refuse(h)
  /\ sent' = [sent EXCEPT !["RATE_LIMIT_EXCEEDED"] = @ + 1]
  /\ req' = [req EXCEPT ![h] = AnyCall]
  /\ UNCHANGED <<todo, answer, metrics, service>>

\* A blank symbol is refused of a single request; a batch may not be empty.
Valid(r) == r.ok /\ r.symbols # <<>> /\ (r.kind # "batch" => r.symbols[1] # Blank)

AnswerWith(h, c) == stage' = [stage EXCEPT ![h] = "reply"] /\ code' = [code EXCEPT ![h] = c]

Parse(h) ==
  /\ pc[h] = "served" /\ stage[h] = "new"
  /\ IF Valid(req[h])
     THEN /\ stage' = [stage EXCEPT ![h] = "calling"]
          /\ todo' = [todo EXCEPT ![h] = req[h].symbols]
          /\ UNCHANGED code
     ELSE AnswerWith(h, "INVALID_REQUEST") /\ UNCHANGED todo
  /\ UNCHANGED <<vars, req, entries, metrics, sent, service>>

CallService(h) ==
  /\ stage[h] = "calling"
  /\ Service!Ask(h)
  /\ asked'[h] = [symbol |-> Head(todo[h]), unknown |-> req[h].unknown]
  /\ UNCHANGED <<vars, request, answer, metrics, sent>>

ServiceKeeps(h) == Service!Keep(h) /\ UNCHANGED <<vars, request, answer, metrics, sent>>
ServiceTells(h) == Service!Tell(h) /\ UNCHANGED <<vars, request, answer, metrics, sent>>

\* The symbols left of a batch after an answer; with none left its answer is ready.
LeftUnlessFailed(h) == IF told[h].error = "none" THEN Tail(todo[h]) ELSE <<>>      \* mutant
LeftOrSame(h) == IF told[h].error = "none" THEN Tail(todo[h]) ELSE todo[h]   \* mutant: a retry
Left(h) == Tail(todo[h])

\* An error is the entry of its symbol, and the batch goes on; a symbol named twice has the
\* entry of its last call.
TakeEntry(h) ==
  /\ req[h].kind = "batch"
  /\ Service!Leave(h)
  /\ entries' = [entries EXCEPT ![h][Head(todo[h])] = told[h]]
  /\ todo' = [todo EXCEPT ![h] = Left(h)]
  /\ IF Left(h) = <<>> THEN AnswerWith(h, "OK") ELSE UNCHANGED <<stage, code>>
  /\ UNCHANGED <<vars, req, metrics, sent>>

\* Service.Latest: the last bar of the answer.
LastOf(B) == CHOOSE b \in B : \A c \in B : c[2] <= b[2]
Body(r, a) == IF r.kind = "latest" THEN [a EXCEPT !.bars = {LastOf(@)}] ELSE a

\* Only the historical endpoint tells an unknown provider from one that failed.
ErrorCode(r, a) ==
  IF r.kind = "historical" /\ a.error = "unknown" THEN "UNKNOWN_PROVIDER" ELSE "PROVIDER_FAILURE"

\* Every error of a single request counts as a provider error, whatever its kind.
CountedIfFailed(a) == IF a.error = "failed" THEN 1 ELSE 0   \* mutant
Counted(a) == 1

TakeResult(h) ==
  /\ req[h].kind # "batch"
  /\ Service!Leave(h)
  /\ IF told[h].error = "none"
     THEN /\ AnswerWith(h, "OK")
          /\ entries' = [entries EXCEPT ![h][Head(todo[h])] = Body(req[h], told[h])]
          /\ UNCHANGED providerErrors
     ELSE /\ AnswerWith(h, ErrorCode(req[h], told[h]))
          /\ providerErrors' = providerErrors + Counted(told[h])
          /\ UNCHANGED entries
  /\ todo' = [todo EXCEPT ![h] = <<>>]
  /\ UNCHANGED <<vars, req, requests, sent>>

Send(h) ==
  /\ Serve(h)
  /\ stage[h] = "reply"
  /\ sent' = [sent EXCEPT ![code[h]] = @ + 1]
  /\ stage' = [stage EXCEPT ![h] = "new"]
  /\ entries' = [entries EXCEPT ![h] = NoEntries]
  /\ code' = [code EXCEPT ![h] = "OK"]
  /\ req' = [req EXCEPT ![h] = AnyCall]
  /\ UNCHANGED <<todo, metrics, service>>

ClockTurns ==
  /\ MinutePasses
  /\ UNCHANGED <<request, answer, metrics, sent, service>>

AtRest == Quiescent /\ UNCHANGED apiVars

Handle(h) ==
  \/ CountIt(h) \/ TooMany(h) \/ Parse(h) \/ CallService(h) \/ ServiceTells(h)
  \/ TakeEntry(h) \/ TakeResult(h) \/ Send(h)

ApiNext ==
  \/ ClockTurns \/ AtRest
  \/ \E h \in Handlers : Receive(h) \/ ServiceKeeps(h) \/ Handle(h)

\* A goroutine that serves a request keeps running, and the service answers every call, as
\* Historical does (Historical!Answered) unless patient clients hold every connection.
ApiSpec ==
  ApiInit /\ [][ApiNext]_apiVars /\ \A h \in Handlers : WF_apiVars(Handle(h))
------------------------------------------------------------------------------
(* What must hold. *)

\* The entry of symbol s in an answer to request r is what the service may say of s: an error
\* its query deserves, which only a batch may hold, or wanted bars, kept if they are said to
\* be, also by the time the last symbol of the batch is done.
SoundEntry(r, s, e) ==
  LET q == [symbol |-> s, unknown |-> r.unknown] IN
  /\ e # None
  /\ IF e.error = "none"
     THEN /\ e.bars # {} /\ e.bars \subseteq Wanted(q)
          /\ e.persisted => e.bars \subseteq kept
     ELSE r.kind = "batch" /\ e.error = ErrorOf(q)

\* A good answer has a sound entry for each symbol of its request and for no other, whatever
\* became of the other symbols of a batch and of requests served at the same time.
ResponseSound ==
  \A h \in Handlers : stage[h] = "reply" /\ code[h] = "OK" =>
    \A s \in Symbols :
      IF \E i \in DOMAIN req[h].symbols : req[h].symbols[i] = s
      THEN SoundEntry(req[h], s, entries[h][s])
      ELSE entries[h][s] = None

\* The counters of /metrics agree with what clients see: every request counted is answered or
\* under way, every 429 is counted as rate limited, and every single request that the service
\* failed, and no batch, is counted as a provider error.
Failures == {"UNKNOWN_PROVIDER", "PROVIDER_FAILURE"}
MetricsBalance ==
  LET underWay == {h \in Handlers : pc[h] # "idle"}
      failing  == {h \in Handlers : stage[h] = "reply" /\ code[h] \in Failures} IN
  /\ requests = Cardinality(underWay) + sent["OK"] + sent["RATE_LIMIT_EXCEEDED"]
                + sent["INVALID_REQUEST"] + sent["UNKNOWN_PROVIDER"] + sent["PROVIDER_FAILURE"]
  /\ limited = sent["RATE_LIMIT_EXCEEDED"]
  /\ providerErrors = Cardinality(failing) + sent["UNKNOWN_PROVIDER"] + sent["PROVIDER_FAILURE"]

\* Every request is answered, a batch with failing symbols as well, as long as the price
\* service answers its calls.
RequestAnswered == \A h \in Handlers : pc[h] # "idle" ~> pc[h] = "idle"
==============================================================================
