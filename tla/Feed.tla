--------------------------------- MODULE Feed ---------------------------------
(***************************************************************************)
(* The feed: Refresher.Start, a goroutine that waits for its ticker or for *)
(* the end of the process, and Service.RefreshWatched, which calls         *)
(* Historical for each watched row, the one requested last first, under a  *)
(* context that ends one interval after the tick was taken.                *)
(*                                                                         *)
(* Historical is seen from outside: a refresh that finds bars marks its    *)
(* row as requested (Service.Historical, MarkWatched), one that fails does *)
(* not.  Time passes only while the goroutine waits for its channels or    *)
(* for a provider.                                                         *)
(***************************************************************************)
EXTENDS Integers, Sequences, SequencesExt

CONSTANTS
  Rows,        \* rows watched_symbols may have
  None,        \* no row
  Interval,    \* FEED_INTERVAL, in units of time
  FetchTime,   \* the longest one refresh takes, by the timeouts of its providers; a wait
               \* for a connection of the pool is not counted
  MaxFaults,   \* bound: database statements that fail
  MaxCrashes   \* bound: process crashes

ASSUME FeedAssumption ==
  /\ None \notin Rows
  /\ Interval \in Nat \ {0}
  /\ FetchTime \in Nat
  /\ {MaxFaults, MaxCrashes} \subseteq Nat

VARIABLES
  pc,       \* where the goroutine stands
  order,    \* watched_symbols, last_requested_at descending
  todo,     \* the queries RefreshWatched has left, the current one first
  pending,  \* a tick is waiting in ticker.C
  phase,    \* time since the ticker last fired
  left,     \* time left until the deadline of refreshCtx
  spent,    \* time the current refresh has taken
  done,     \* ctx is cancelled
  tried,    \* history: the row this pass refreshed last within its deadline
  faults, crashes   \* counters of the bounds

ticker  == <<pending, phase>>
pass    == <<todo, left, spent, tried>>
bounds  == <<faults, crashes>>
vars    == <<pc, order, ticker, pass, done, bounds>>

Init ==
  /\ pc = "select"
  /\ order = <<>>
  /\ pending = FALSE /\ phase = 0
  /\ todo = <<>> /\ left = 0 /\ spent = 0 /\ tried = None
  /\ done = FALSE
  /\ faults = 0 /\ crashes = 0

\* refreshCtx is over: its deadline has passed or its parent is cancelled.
Dead == done \/ left = 0

RequestedTwice(r) == <<r>> \o order   \* mutant: no conflict on the primary key
\* MarkWatched: the row is inserted, or its last_requested_at set to now().
Requested(r) == <<r>> \o RemoveFirst(order, r)

StatementFails == faults < MaxFaults /\ faults' = faults + 1

\* case <-ticker.C: a pass begins, with a deadline of its own.
Wake ==
  /\ pc = "select"
  /\ pending
  /\ pending' = FALSE
  /\ left' = Interval
  /\ tried' = None
  /\ pc' = "list"
  /\ UNCHANGED <<order, phase, todo, spent, done, bounds>>

\* case <-ctx.Done(): the goroutine ends.
StopBreaking ==   \* mutant: break leaves the select, not the loop
  /\ pc = "select"
  /\ done
  /\ UNCHANGED vars
Stop ==
  /\ pc = "select"
  /\ done
  /\ pc' = "stopped"
  /\ UNCHANGED <<order, ticker, pass, done, bounds>>

\* RefreshWatched goes through what ListWatched returned; an error ends the pass.
List ==
  /\ pc = "list"
  /\ \/ ~Dead /\ todo' = order /\ UNCHANGED faults
     \/ ~Dead /\ StatementFails /\ UNCHANGED todo
     \/ Dead /\ UNCHANGED <<todo, faults>>
  /\ pc' = IF todo' = <<>> THEN "select" ELSE "call"
  /\ spent' = 0
  /\ UNCHANGED <<order, ticker, left, tried, done, crashes>>

\* After a refresh, failed or not, comes the next row.
ContinueUnlessFailed(ok) ==   \* mutant: the first failure ends the pass
  /\ todo' = IF ok THEN Tail(todo) ELSE <<>>
  /\ pc' = IF todo' = <<>> THEN "select" ELSE "call"
  /\ spent' = 0
Continue(ok) ==
  /\ todo' = Tail(todo)
  /\ pc' = IF todo' = <<>> THEN "select" ELSE "call"
  /\ spent' = 0

\* Historical finds bars and marks the row; a failing MarkWatched is only logged.
Refreshed ==
  /\ pc = "call"
  /\ ~Dead
  /\ \/ order' = Requested(Head(todo)) /\ UNCHANGED faults
     \/ UNCHANGED order /\ StatementFails
  /\ tried' = Head(todo)
  /\ Continue(TRUE)
  /\ UNCHANGED <<ticker, left, done, crashes>>

\* All providers fail, within the deadline or because it has passed.
NotRefreshed ==
  /\ pc = "call"
  /\ tried' = IF Dead THEN tried ELSE Head(todo)
  /\ Continue(FALSE)
  /\ UNCHANGED <<order, ticker, left, done, bounds>>

\* Time passes; the ticker drops a tick when one is waiting.
Clock ==
  /\ pc = "select" \/ (pc = "call" /\ spent < FetchTime /\ ~Dead)
  /\ phase' = (phase + 1) % Interval
  /\ pending' = (pending \/ phase' = 0)
  /\ IF pc = "call" THEN left' = left - 1 /\ spent' = spent + 1 ELSE UNCHANGED <<left, spent>>
  /\ UNCHANGED <<pc, order, todo, tried, done, bounds>>

\* AddSymbol, or a first request that goes to a provider, marks a row.
Watch == \E r \in Rows :
  /\ order' = Requested(r)
  /\ UNCHANGED <<pc, ticker, pass, done, bounds>>

\* The process is told to stop.
Shutdown ==
  /\ ~done
  /\ done' = TRUE
  /\ UNCHANGED <<pc, order, ticker, pass, bounds>>

\* The process dies and starts again, and its ticker with it.
Crash ==
  /\ crashes < MaxCrashes
  /\ crashes' = crashes + 1
  /\ pc' = "select"
  /\ todo' = <<>> /\ left' = 0 /\ spent' = 0 /\ tried' = None
  /\ pending' = FALSE /\ phase' = 0
  /\ done' = FALSE
  /\ UNCHANGED <<order, faults>>

Over == pc = "stopped" /\ UNCHANGED vars

Run == Wake \/ List \/ Refreshed \/ NotRefreshed

Next == Run \/ Stop \/ Clock \/ Watch \/ Shutdown \/ Crash \/ Over

Spec == Init /\ [][Next]_vars

\* The goroutine runs when it can, time passes, and a select that finds both channels ready
\* again and again picks each of them again and again.
FairSpec == Spec /\ WF_vars(Run) /\ WF_vars(Clock) /\ SF_vars(Stop)
------------------------------------------------------------------------------
(* What must hold. *)

Watched == {order[i] : i \in DOMAIN order}

\* Every variable holds values of its kind, and no row is listed twice.
TypeOK ==
  /\ pc \in {"select", "list", "call", "stopped"}
  /\ order \in Seq(Rows) /\ todo \in Seq(Rows)
  /\ \A i, j \in DOMAIN order : order[i] = order[j] => i = j
  /\ pending \in BOOLEAN /\ phase \in 0..Interval - 1
  /\ left \in 0..Interval /\ spent \in 0..FetchTime
  /\ done \in BOOLEAN
  /\ tried \in Rows \cup {None}
  /\ faults \in 0..MaxFaults /\ crashes \in 0..MaxCrashes

\* README.md:157, "added symbols are also marked as watched ... so the feed refresh job
\* updates their price data": the feed comes to every watched row again and again, within
\* the deadline of a pass, until the process is told to stop.
EveryRowTried == \A r \in Rows : r \in Watched ~> tried = r \/ done

\* The goroutine ends after the process was told to stop, if the process does not die first.
FeedStops == done ~> pc = "stopped" \/ ~done
==============================================================================
