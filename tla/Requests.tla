------------------------------ MODULE Requests ------------------------------
(***************************************************************************)
(* One server process and the HTTP requests it holds: how many it believes *)
(* to be in flight, the timeout that answers for a slow handler, the       *)
(* sliding-window limits, and the shutdown that drains what is left.       *)
(* What a handler does is the other modules' subject: here it runs, may run *)
(* on after its request was answered or its client left, and ends.          *)
(***************************************************************************)
EXTENDS Integers, Sequences, FiniteSets

CONSTANTS Request,   \* requests that may arrive
          Nil,
          Limiter,   \* the limits, each with its own log of accepted requests
          LimitOf,   \* how many requests a limit accepts in a window
          Window,    \* the length of a window
          Asked,     \* the limits each request is put to, in their order
          MaxTime    \* bound on the clock

ASSUME RequestAssumption ==
  /\ Window \in Nat \ {0} /\ MaxTime \in Nat
  /\ LimitOf \in [Limiter -> Nat \ {0}]
  /\ Asked \in [Request -> Seq(Limiter)]

VARIABLES phase,     \* "serving", "draining", "closing" or "exited"
          timedOut,  \* the drain was ended by its deadline
          exitCode,
          inFlight,  \* the counter of lifecycle.ts
          answer,    \* "none", "waiting" or "sent", of each request
          emitted,   \* which of "finish" and "close" its response has emitted
          settled,   \* the requests whose release has run
          handler,   \* "none", "arrived", "running" or "done"
          owed,      \* history: the responses open when the shutdown began and since
          now,       \* when a limit was last asked
          log,       \* the accepted requests each limit remembers, by time
          accepted   \* history: every time each limit accepted a request at

lifecycle == <<phase, timedOut, exitCode, owed>>
limits == <<now, log, accepted>>
sockets == <<inFlight, answer, emitted, settled>>
requestsVars == <<lifecycle, limits, sockets, handler>>

RequestsInit ==
  /\ phase = "serving" /\ timedOut = FALSE /\ exitCode = Nil /\ owed = {}
  /\ inFlight = 0 /\ settled = {}
  /\ answer = [q \in Request |-> "none"] /\ emitted = [q \in Request |-> {}]
  /\ handler = [q \in Request |-> "none"]
  /\ now = 0 /\ log = [l \in Limiter |-> <<>>] /\ accepted = log

Asking == {q \in Request : answer[q] # "none"}

(* No answer has begun, and the client is there. *)
Waiting == {q \in Request : answer[q] = "waiting" /\ emitted[q] = {}}

(* Neither sent in full nor given up. *)
Open == {q \in Asking : emitted[q] = {}}

(* A request comes in: on a new connection while the server listens, and   *)
(* on one that was kept alive until the process exits.                     *)
Arrive(q) ==
  /\ q \notin Asking
  /\ phase = "serving" \/ (phase # "exited" /\ Asking # {})
  /\ answer' = [answer EXCEPT ![q] = "waiting"]
  /\ handler' = [handler EXCEPT ![q] = "arrived"]
  /\ inFlight' = inFlight + 1
  /\ UNCHANGED <<lifecycle, limits, emitted, settled>>

(* decInFlight. *)
Decremented(n) == IF n = 0 THEN 0 ELSE n - 1

(* Faulty variant: both "finish" and "close" count. *)
ReleaseTwice(q) == inFlight' = Decremented(inFlight) /\ settled' = settled \cup {q}

(* release, on either event. *)
Release(q) ==
  /\ inFlight' = IF q \in settled THEN inFlight ELSE Decremented(inFlight)
  /\ settled' = settled \cup {q}

(* The response emits "finish" when all of its answer has been handed on,  *)
(* a download's long after its first byte, and "close" when the connection *)
(* goes, with an answer or without: in any order, or only one of them.     *)
Emits(q, event) ==
  /\ q \in Asking /\ phase # "exited" /\ event \notin emitted[q]
  /\ event = "finish" => answer[q] = "sent"
  /\ emitted' = [emitted EXCEPT ![q] = @ \cup {event}]
  /\ Release(q)
  /\ owed' = owed \ {q}
  /\ UNCHANGED <<phase, timedOut, exitCode, limits, answer, handler>>

(* res.json.  After the timeout's answer it throws, and to a client that   *)
(* left it goes nowhere.                                                   *)
Respond(q) == /\ answer' = [answer EXCEPT ![q] = "sent"]
              /\ UNCHANGED <<inFlight, emitted, settled>>

Ends(q) == Respond(q) /\ handler' = [handler EXCEPT ![q] = "done"]

(* Whatever a route does, it ends with an answer. *)
Finish(q) == /\ handler[q] = "running" /\ phase # "exited"
             /\ Ends(q)
             /\ UNCHANGED <<lifecycle, limits>>

(* The timer fires before the handler answered; either event clears it. *)
Timeout(q) ==
  /\ q \in Waiting /\ phase # "exited"
  /\ Respond(q)
  /\ UNCHANGED <<lifecycle, limits, handler>>

(***************************************************************************)
(* The limits.                                                             *)
(***************************************************************************)
(* Faulty variant: a request leaves the window a moment early. *)
InWindowShort(l, t) == {i \in DOMAIN log[l] : log[l][i] + Window > t + 1}

(* The accepted requests still inside the window that ends at t. *)
InWindow(l, t) == {i \in DOMAIN log[l] : log[l][i] + Window > t}

(* They are the last of the log, whose times never decrease. *)
Active(l, t) ==
  SubSeq(log[l], Len(log[l]) - Cardinality(InWindow(l, t)) + 1, Len(log[l]))

Full(l, t) == Cardinality(InWindow(l, t)) >= LimitOf[l]

(* Limits are asked in order at time t: those before the one that refuses   *)
(* count the request all the same, and the one that refuses only drops what *)
(* has left its window.  Time matters to the limits alone, so it passes here.*)
Consume(asked, t) ==
  LET refusing == {i \in DOMAIN asked : Full(asked[i], t)}
      counts(l) == \E i \in DOMAIN asked : asked[i] = l /\ \A j \in refusing : i < j
      drops(l) == \E i \in DOMAIN asked : asked[i] = l /\ \A j \in refusing : i <= j
  IN /\ now' = t
     /\ log' = [l \in Limiter |-> IF counts(l) THEN Append(Active(l, t), t)
                                  ELSE IF drops(l) THEN Active(l, t) ELSE log[l]]
     /\ accepted' = [l \in Limiter |-> IF counts(l) THEN Append(accepted[l], t)
                                       ELSE accepted[l]]

(* The limits of the request's route; a 429 ends it. *)
Admit(q) ==
  /\ handler[q] = "arrived" /\ phase # "exited"
  /\ \E t \in now..MaxTime :
       /\ Consume(Asked[q], t)
       /\ IF \E i \in DOMAIN Asked[q] : Full(Asked[q][i], t)
          THEN Ends(q)
          ELSE handler' = [handler EXCEPT ![q] = "running"] /\ UNCHANGED sockets
  /\ UNCHANGED lifecycle

(* The store cannot be asked: the request passes uncounted. *)
FailOpen(q) ==
  /\ handler[q] = "arrived" /\ phase # "exited"
  /\ handler' = [handler EXCEPT ![q] = "running"]
  /\ UNCHANGED <<lifecycle, limits, sockets>>

(***************************************************************************)
(* Shutdown.                                                               *)
(***************************************************************************)
BeginShutdown ==
  /\ phase = "serving"
  /\ phase' = "draining" /\ owed' = Open
  /\ UNCHANGED <<timedOut, exitCode, limits, sockets, handler>>

Drained ==
  /\ phase = "draining" /\ inFlight = 0
  /\ phase' = "closing"
  /\ UNCHANGED <<timedOut, exitCode, owed, limits, sockets, handler>>

(* Faulty variant: the deadline is never set. *)
DeadlineNever == Drained

Deadline ==
  /\ phase = "draining"
  /\ phase' = "closing" /\ timedOut' = TRUE
  /\ UNCHANGED <<exitCode, owed, limits, sockets, handler>>

(* Faulty variant: only an error while closing is reported. *)
ExitForgiving(closed) ==
  /\ phase = "closing"
  /\ phase' = "exited"
  /\ exitCode' = IF closed THEN 0 ELSE 1
  /\ UNCHANGED <<timedOut, owed, limits, sockets, handler>>

(* The stores are closed, or one of them throws, and the process exits. *)
Exit(closed) ==
  /\ phase = "closing"
  /\ phase' = "exited"
  /\ exitCode' = IF closed /\ ~(timedOut /\ inFlight > 0) THEN 0 ELSE 1
  /\ UNCHANGED <<timedOut, owed, limits, sockets, handler>>

RequestsNext ==
  \/ \E q \in Request : \/ Arrive(q) \/ Admit(q) \/ FailOpen(q) \/ Finish(q) \/ Timeout(q)
                        \/ \E event \in {"finish", "close"} : Emits(q, event)
  \/ BeginShutdown \/ Drained \/ Deadline
  \/ \E closed \in BOOLEAN : Exit(closed)

(* The timer of the deadline fires and the closing of the pool, itself      *)
(* bounded, ends.  No handler and no client is promised to.                 *)
ShutdownFairness == WF_requestsVars(Deadline) /\ WF_requestsVars(\E closed \in BOOLEAN : Exit(closed))

RequestsSpec == RequestsInit /\ [][RequestsNext]_requestsVars /\ ShutdownFairness

(***************************************************************************)
(* What must hold.                                                         *)
(***************************************************************************)
(* lifecycle.ts, inFlight.ts: the counter is the number of responses that   *)
(* are neither sent in full nor given up, in whatever order, and how many   *)
(* of, "finish" and "close" come for the requests that overlap.            *)
CountIsExact == inFlight = Cardinality(Open)

(* stores.ts, MemorySlidingWindowStore: no window of that length, wherever   *)
(* it starts, sees more requests accepted than the limit.                    *)
WindowRespected ==
  \A l \in Limiter : \A i \in DOMAIN accepted[l] :
    i + LimitOf[l] \in DOMAIN accepted[l]
      => accepted[l][i + LimitOf[l]] >= accepted[l][i] + Window

(* index.ts, gracefulShutdown: a process that exits with 0 has sent its     *)
(* answer in full to everyone who had asked before the shutdown began and   *)
(* did not hang up.                                                         *)
ExitZeroMeansServed == phase = "exited" /\ exitCode = 0 => owed = {}

(* index.ts, gracefulShutdown: it ends, even when a request never does.      *)
ShutdownEnds == phase = "draining" ~> phase = "exited"
=============================================================================
