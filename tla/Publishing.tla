----------------------------- MODULE Publishing -----------------------------
(***************************************************************************)
(* POST /resources: publishing with an Idempotency-Key.  The key's record  *)
(* lives in the process; the row, and the file of a file resource, outlive *)
(* it.  Requests are retried by their clients, run at the same time, are   *)
(* answered for by the timeout, and lose their process.                    *)
(***************************************************************************)
EXTENDS Naturals

CONSTANTS Request,    \* the requests that may be made
          Nil,
          PubOf,      \* the publisher whose API key each request carries
          KeyOf,      \* its Idempotency-Key, or Nil
          KindOf,     \* "file" or "link"
          MaxExpiries, MaxRestarts \* bounds on the keys that expire, the restarts

(* Faulty variant: the key is not scoped by its publisher. *)
ScopedByKey(q) == KeyOf[q]

(* idempotencyCacheKey. *)
Scoped(q) == <<PubOf[q], KeyOf[q]>>
Keyed(q) == KeyOf[q] # Nil
ScopedKeys == {Scoped(q) : q \in {r \in Request : Keyed(r)}}

ASSUME PublishAssumption ==
  /\ {Nil, "idle", "waiting", "gone", "timeout", "refused"} \cap Request = {}
  /\ Nil \notin [owner : Request, done : BOOLEAN]
  /\ \A q \in Request : KindOf[q] \in {"file", "link"}
  /\ MaxExpiries \in Nat /\ MaxRestarts \in Nat

VARIABLES client,   \* "idle", "waiting", "gone", "timeout", "refused", or the
                    \* request whose row the client was told it created
          pc,       \* where each request's handler is
          store,    \* the record of each scoped key, or Nil
          rows,     \* the requests whose row was inserted
          files,    \* the requests whose file is stored and named by its row
          excused,  \* history: requests whose key was let go of
          expiries, restarts

publishingVars == <<client, pc, store, rows, files, excused, expiries, restarts>>
tables == <<rows, files>>
bounds == <<expiries, restarts>>

(* A record names its holder, and whether that publish has a result. *)
Marker(q) == [owner |-> q, done |-> FALSE]
Result(q) == [owner |-> q, done |-> TRUE]

PublishingInit ==
  /\ client = [q \in Request |-> "idle"] /\ pc = [q \in Request |-> "idle"]
  /\ store = [k \in ScopedKeys |-> Nil]
  /\ rows = {} /\ files = {} /\ excused = {}
  /\ expiries = 0 /\ restarts = 0

Go(q, where) == pc' = [pc EXCEPT ![q] = where]
Write(q, record) ==
  store' = IF Keyed(q) THEN [store EXCEPT ![Scoped(q)] = record] ELSE store
Held(q) == Keyed(q) /\ store[Scoped(q)] # Nil

(* res.json, which throws after the timeout's answer; to a client that left *)
(* it goes nowhere.                                                         *)
Writable(q) == client[q] \in {"waiting", "gone"}
Respond(q, answer) ==
  client' = IF client[q] = "waiting" THEN [client EXCEPT ![q] = answer] ELSE client

(* A request passes its publisher's API key and the limits. *)
Arrive(q) ==
  /\ pc[q] = "idle"
  /\ Go(q, "arrived") /\ client' = [client EXCEPT ![q] = "waiting"]
  /\ UNCHANGED <<store, tables, excused, bounds>>

(* The server answers for a handler that is slow, or the client hangs up:   *)
(* the handler runs on.                                                     *)
Abandon(q) ==
  /\ client[q] = "waiting"
  /\ \E how \in {"timeout", "gone"} : client' = [client EXCEPT ![q] = how]
  /\ UNCHANGED <<pc, store, tables, excused, bounds>>

(* The upload is too large, of a type that is not allowed or not its own,  *)
(* the signature is refused, or a field: a key just taken is given back.    *)
Refuse(q) ==
  /\ pc[q] = "arrived"
  /\ Go(q, "done") /\ Respond(q, "refused")
  /\ UNCHANGED <<store, tables, excused, bounds>>

(* A key already held answers at once: 409 while its publish runs, its      *)
(* result after.                                                            *)
Repeat(q) ==
  /\ pc[q] = "arrived" /\ Held(q)
  /\ LET held == store[Scoped(q)]
     IN Respond(q, IF held.done THEN held.owner ELSE "refused")
  /\ Go(q, "done")
  /\ UNCHANGED <<store, tables, excused, bounds>>

(* Faulty variant: a key whose publish is still running is taken again. *)
TakeAnyway(q) ==
  /\ pc[q] = "arrived" /\ ~(Held(q) /\ store[Scoped(q)].done)
  /\ Write(q, Marker(q)) /\ Go(q, "insert")
  /\ UNCHANGED <<client, tables, excused, bounds>>

Take(q) ==
  /\ pc[q] = "arrived" /\ ~Held(q)
  /\ Write(q, Marker(q)) /\ Go(q, "insert")
  /\ UNCHANGED <<client, tables, excused, bounds>>

(* History: q, and whoever holds its key, are no longer remembered. *)
Forget(q) ==
  excused' = excused \cup {q} \cup (IF Held(q) THEN {store[Scoped(q)].owner} ELSE {})

(* Faulty variant: a failure leaves the marker behind. *)
CaughtHolding(q) ==
  Go(q, "done") /\ Respond(q, "refused") /\ UNCHANGED store /\ Forget(q)

(* The catch: the key is let go of, whoever holds it by now. *)
Caught(q) == Go(q, "done") /\ Respond(q, "refused") /\ Write(q, Nil) /\ Forget(q)

Fail(q) == /\ pc[q] \in {"insert", "upload", "update"}
           /\ Caught(q)
           /\ UNCHANGED <<tables, bounds>>

Insert(q) ==
  /\ pc[q] = "insert"
  /\ rows' = rows \cup {q}
  /\ Go(q, IF KindOf[q] = "link" THEN "answer" ELSE "upload")
  /\ UNCHANGED <<client, store, files, excused, bounds>>

(* uploadFile; then the thumbnail of an image, whose failure is ignored. *)
Upload(q) ==
  /\ pc[q] = "upload"
  /\ Go(q, "update")
  /\ UNCHANGED <<client, store, tables, excused, bounds>>

(* The update that names the stored files in the row. *)
Update(q) ==
  /\ pc[q] = "update"
  /\ files' = files \cup {q} /\ Go(q, "answer")
  /\ UNCHANGED <<client, store, rows, excused, bounds>>

(* sendResult: the result is remembered, then sent; where the timeout has   *)
(* answered, the sending throws, and the catch lets the key go.             *)
Answer(q) ==
  /\ pc[q] = "answer"
  /\ IF Writable(q)
     THEN /\ Go(q, "done") /\ Respond(q, q) /\ Write(q, Result(q))
          /\ excused' = IF Held(q) THEN excused \cup ({store[Scoped(q)].owner} \ {q})
                                   ELSE excused
     ELSE Caught(q)
  /\ UNCHANGED <<tables, bounds>>

(* A record outlives its TTL, even under a handler that hangs. *)
Expire(k) ==
  /\ expiries < MaxExpiries /\ store[k] # Nil
  /\ expiries' = expiries + 1
  /\ excused' = excused \cup {store[k].owner}
  /\ store' = [store EXCEPT ![k] = Nil]
  /\ UNCHANGED <<client, pc, tables, restarts>>

(* The process ends, and its handlers and records with it. *)
Restart ==
  /\ restarts < MaxRestarts
  /\ restarts' = restarts + 1
  /\ client' = [q \in Request |-> IF client[q] = "waiting" THEN "gone" ELSE client[q]]
  /\ pc' = [q \in Request |-> IF pc[q] = "idle" THEN "idle" ELSE "done"]
  /\ store' = [k \in ScopedKeys |-> Nil]
  /\ excused' = excused \cup {q \in Request : pc[q] # "idle"}
  /\ UNCHANGED <<tables, expiries>>

PublishingNext ==
  \/ \E q \in Request :
       \/ Arrive(q) \/ Abandon(q) \/ Refuse(q) \/ Repeat(q) \/ Take(q)
       \/ Insert(q) \/ Upload(q) \/ Update(q) \/ Answer(q) \/ Fail(q)
  \/ \E k \in ScopedKeys : Expire(k)
  \/ Restart

PublishingSpec == PublishingInit /\ [][PublishingNext]_publishingVars

(***************************************************************************)
(* What must hold.                                                         *)
(***************************************************************************)
Running == {"insert", "upload", "update", "answer"}

(* The shape of the state. *)
PublishingTypeOK ==
  /\ client \in [Request -> Request \cup {"idle", "waiting", "gone", "timeout", "refused"}]
  /\ pc \in [Request -> {"idle", "arrived", "done"} \cup Running]
  /\ store \in [ScopedKeys -> [owner : Request, done : BOOLEAN] \cup {Nil}]
  /\ rows \subseteq Request /\ files \subseteq Request /\ excused \subseteq Request
  /\ expiries \in Nat /\ restarts \in Nat

SamePublish(p, q) == KeyOf[p] # Nil /\ PubOf[p] = PubOf[q] /\ KeyOf[p] = KeyOf[q]

(* routes/resources.ts, POST /resources: however its requests overlap and   *)
(* retry, a key has one row, unless its record was lost: to a failure, to   *)
(* an answer the timeout had given, to the TTL or to a restart.             *)
OneRowPerHeldKey ==
  \A p, q \in rows : SamePublish(p, q) /\ p # q => p \in excused \/ q \in excused

(* routes/resources.ts and idempotency.ts: a client told "created" is told   *)
(* of a row of its own publisher and its own key, complete with its file.    *)
RepliesAreYours ==
  \A q \in Request : client[q] \in Request =>
    LET made == client[q]
    IN /\ made \in rows
       /\ made = q \/ SamePublish(made, q)
       /\ KindOf[made] = "file" => made \in files

(* routes/resources.ts: a client is told that its publish is in progress     *)
(* only while a handler runs that will let go of the key.                    *)
MarkerHasRunner ==
  \A k \in DOMAIN store :
    store[k] # Nil => store[k].done \/ pc[store[k].owner] \in Running
=============================================================================
