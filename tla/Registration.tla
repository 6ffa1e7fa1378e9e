---------------------------- MODULE Registration -----------------------------
(***************************************************************************)
(* How a verified resource gets on chain: the handler of POST              *)
(* /resources/:id/register (server/src/routes/resources.ts), the           *)
(* submission helper it calls (services/registryClient.ts), the            *)
(* retry-pending worker (workers/retryPendingWorker.ts), the database row  *)
(* they both write, and the ledger that includes, fails or drops their     *)
(* transactions while they wait.  The ledger runs VaultRegistry.           *)
(*                                                                         *)
(* An action is the code between two awaits.  Handlers of several requests *)
(* interleave, and so do worker ticks: setInterval does not wait for the   *)
(* tick before.  Any await may throw.  The contract is open to everybody:  *)
(* any account may register any id without asking the server, and a        *)
(* publisher may post any transaction as the registration of a row.        *)
(***************************************************************************)
EXTENDS Integers, Sequences, FiniteSets

CONSTANTS
  Ids,             \* the resource rows, all verified
  Accounts,
  Wallet,          \* the walletAddress of each row
  Platform,        \* the account of REGISTRY_SECRET_KEY
  Requests,        \* POST handlers that can run at a time
  Ticks,           \* worker ticks that can run at a time
  Script,          \* the backfill script of module Backfill, as a sender
  MaxRetry,        \* MAX_RETRY_ATTEMPTS, 3
  Terms,           \* the price, metadata and tags of a registration
  NoValue          \* no id, no sender, an absent storage entry; as the id of
                   \* a transaction: one that registers none of the rows

ASSUME RegistrationAssumption ==
  /\ Wallet \in [Ids -> Accounts]
  /\ Platform \in Accounts
  /\ MaxRetry \in Nat
  /\ IsFiniteSet(Ids)
  /\ NoValue \notin Ids \cup Requests \cup Ticks \cup {Script}
  /\ Requests \cap Ticks = {}
  /\ Script \notin Requests \cup Ticks

VARIABLES
  status,          \* onchain_status of each row
  old,             \* the row was created more than five minutes ago
  reqs, ticks,     \* the control state of the handlers and the ticks
  retryCounts,     \* the worker's Map, 0 for an absent key
  txs,             \* the transactions sent and not yet final
  outcome,         \* what the ledger made of a sender's transaction
  up,              \* the server runs
  misled,          \* history: see Misleads
  resources, index, count, events, signers   \* the ledger

chain == <<resources, index, count, events, signers>>
vars == <<status, old, reqs, ticks, retryCounts, txs, outcome, up, misled, chain>>

(* The counter's width is not at issue here, nor the length of the log: an *)
(* id is registered at most once.                                          *)
Chain == INSTANCE VaultRegistry WITH
  Prices <- {Terms}, ValidPrices <- {Terms}, Metadata <- {Terms},
  ValidMetadata <- {Terms}, Tags <- {Terms}, ValidTags <- {Terms},
  U32Max <- Cardinality(Ids), PageCap <- 20, MaxEvents <- Cardinality(Ids)

ASSUME LedgerAssumption == NoValue \notin Chain!Resource

Senders == Requests \cup Ticks \cup {Script}

IdleRequest == [pc |-> "idle", id |-> NoValue, flow |-> "signed"]
IdleTick == [pc |-> "idle", id |-> NoValue, todo |-> {}]

Init ==
  /\ status = [id \in Ids |-> "none"]
  /\ old = [id \in Ids |-> FALSE]
  /\ reqs = [q \in Requests |-> IdleRequest]
  /\ ticks = [t \in Ticks |-> IdleTick]
  /\ retryCounts = [id \in Ids |-> 0]
  /\ txs = {}
  /\ outcome = [s \in Senders |-> "unknown"]
  /\ up = TRUE
  /\ misled = {}
  /\ Chain!Init

----------------------------------------------------------------------------
(* The ledger (external).  A transaction carries the authorization of its  *)
(* creator.  It is included later, or never; who sent it may have stopped  *)
(* waiting, and then nobody hears of it.                                   *)

Tx(id, creator, from) == [id |-> id, creator |-> creator, from |-> from]

(* Whoever waits for tx is told the result and no more. *)
Tell(tx, result) ==
  /\ outcome' = [s \in Senders |-> IF s = tx.from THEN result ELSE outcome[s]]
  /\ txs' = txs \ {tx}
  /\ UNCHANGED <<status, old, reqs, ticks, retryCounts, up>>

Misleads(id) == misled' = misled \cup {id}

(* It succeeds: it registers its id, or it had nothing to do with any row. *)
(* A handler that posted it for another row takes that row as registered.  *)
Apply(tx) ==
  /\ IF tx.id = NoValue
     THEN UNCHANGED chain
     ELSE Chain!Register(tx.creator, tx.creator, tx.id, Terms, Terms, Terms)
  /\ IF tx.from \in Requests /\ tx.id # reqs[tx.from].id
     THEN Misleads(reqs[tx.from].id)
     ELSE UNCHANGED misled
  /\ Tell(tx, "success")

(* These take the row as registered whatever has become of the transaction. *)
IgnoresResult(s) ==
  \/ s \in Ticks \cup {Script}
  \/ s \in Requests /\ reqs[s].flow = "legacy"

(* It fails: its id is taken, or its footprint names an index slot another *)
(* registration took first, an entry is archived, a fee does not do.       *)
Fail(tx) ==
  /\ IF IgnoresResult(tx.from) /\ ~Chain!Exists(tx.id)
     THEN Misleads(tx.id)
     ELSE UNCHANGED misled
  /\ Tell(tx, "failed")
  /\ UNCHANGED chain

Drop(tx) ==
  /\ txs' = txs \ {tx}
  /\ UNCHANGED <<status, old, reqs, ticks, retryCounts, outcome, up, misled, chain>>

(* An account other than the platform registers an id by itself. *)
ThirdParty(creator, id) ==
  /\ creator # Platform
  /\ Chain!Register(creator, creator, id, Terms, Terms, Terms)
  /\ UNCHANGED <<status, old, reqs, ticks, retryCounts, txs, outcome, up, misled>>

(* Sender s stops waiting: its transaction, if any, goes on without it. *)
Orphaned(s) == {IF tx.from = s THEN [tx EXCEPT !.from = NoValue] ELSE tx : tx \in txs}

Forget(s) == outcome' = [outcome EXCEPT ![s] = "unknown"]

----------------------------------------------------------------------------
(* POST /resources/:id/register. *)

(* Faulty variant: the status check lets a registered row through.         *)
PostRegisterAnyway(q, id, flow) ==
  /\ up
  /\ reqs[q].pc = "idle"
  /\ status[id] # "pending"
  /\ reqs' = [reqs EXCEPT ![q] = [pc |-> "checked", id |-> id, flow |-> flow]]
  /\ UNCHANGED <<status, old, ticks, retryCounts, txs, outcome, up, misled, chain>>

(* Read the row; a registered or pending row is answered 409.  flow is     *)
(* "signed" when the body carries a signedXdr.                             *)
PostRegister(q, id, flow) ==
  /\ up
  /\ reqs[q].pc = "idle"
  /\ status[id] \in {"none", "failed"}
  /\ reqs' = [reqs EXCEPT ![q] = [pc |-> "checked", id |-> id, flow |-> flow]]
  /\ UNCHANGED <<status, old, ticks, retryCounts, txs, outcome, up, misled, chain>>

MarkPending(q) ==
  /\ reqs[q].pc = "checked"
  /\ status' = [status EXCEPT ![reqs[q].id] = "pending"]
  /\ reqs' = [reqs EXCEPT ![q].pc = "submit"]
  /\ UNCHANGED <<old, ticks, retryCounts, txs, outcome, up, misled, chain>>

(* What a client can sign for row id: the registration of this row by its  *)
(* wallet, of any row in the name of any account whose key a client has,   *)
(* or something else.                                                      *)
Signable(id) ==
  {<<id, Wallet[id]>>, <<NoValue, Wallet[id]>>} \cup (Ids \X (Accounts \ {Platform}))

(* The signed flow posts the transaction of the body, which nothing holds  *)
(* against the row.  The legacy flow registers the row and signs with the  *)
(* platform key, which the SDK refuses for another creator.                *)
Submit(q) ==
  LET id == reqs[q].id IN
  /\ reqs[q].pc = "submit"
  /\ \/ /\ reqs[q].flow = "signed"
        /\ \E posted \in Signable(id) : txs' = txs \cup {Tx(posted[1], posted[2], q)}
     \/ /\ reqs[q].flow = "legacy"
        /\ Wallet[id] = Platform
        /\ txs' = txs \cup {Tx(id, Platform, q)}
  /\ reqs' = [reqs EXCEPT ![q].pc = "polling"]
  /\ UNCHANGED <<status, old, ticks, retryCounts, outcome, up, misled, chain>>

(* submitSignedTx sees SUCCESS or FAILED; signAndSend of the legacy flow   *)
(* returns when the transaction is final, whatever its result.             *)
Poll(q) ==
  /\ reqs[q].pc = "polling"
  /\ outcome[q] # "unknown"
  /\ reqs' = [reqs EXCEPT ![q].pc =
       IF outcome[q] = "success" \/ reqs[q].flow = "legacy" THEN "won" ELSE "lost"]
  /\ Forget(q)
  /\ UNCHANGED <<status, old, ticks, retryCounts, txs, up, misled, chain>>

(* submitSignedTx reports a failure: the send is refused or the polling    *)
(* runs out.                                                               *)
SubmissionFails(q) ==
  /\ reqs[q].pc \in {"submit", "polling"}
  /\ reqs[q].flow = "signed"
  /\ reqs' = [reqs EXCEPT ![q].pc = "lost"]
  /\ txs' = Orphaned(q)
  /\ Forget(q)
  /\ UNCHANGED <<status, old, ticks, retryCounts, up, misled, chain>>

(* Any call of the try block throws into the catch block.  So does the     *)
(* reply, when the timeout middleware has answered 503 meanwhile.          *)
RequestFails(q) ==
  /\ reqs[q].pc \in {"submit", "polling", "won", "lost", "reply"}
  /\ reqs' = [reqs EXCEPT ![q].pc = "failing"]
  /\ txs' = Orphaned(q)
  /\ Forget(q)
  /\ UNCHANGED <<status, old, ticks, retryCounts, up, misled, chain>>

(* Write what the submission came to. *)
FinishRequest(q) ==
  /\ reqs[q].pc \in {"won", "lost"}
  /\ status' = [status EXCEPT ![reqs[q].id] =
       IF reqs[q].pc = "won" THEN "registered" ELSE "failed"]
  /\ reqs' = [reqs EXCEPT ![q].pc = "reply"]
  /\ UNCHANGED <<old, ticks, retryCounts, txs, outcome, up, misled, chain>>

Reply(q) ==
  /\ reqs[q].pc = "reply"
  /\ reqs' = [reqs EXCEPT ![q] = IdleRequest]
  /\ UNCHANGED <<status, old, ticks, retryCounts, txs, outcome, up, misled, chain>>

(* The catch block marks the row failed. *)
GiveUp(q) ==
  /\ reqs[q].pc = "failing"
  /\ status' = [status EXCEPT ![reqs[q].id] = "failed"]
  /\ reqs' = [reqs EXCEPT ![q] = IdleRequest]
  /\ UNCHANGED <<old, ticks, retryCounts, txs, outcome, up, misled, chain>>

(* The database refuses a write that no catch block guards. *)
RequestThrows(q) ==
  /\ reqs[q].pc \in {"checked", "failing"}
  /\ reqs' = [reqs EXCEPT ![q] = IdleRequest]
  /\ UNCHANGED <<status, old, ticks, retryCounts, txs, outcome, up, misled, chain>>

HandlerStep(q) ==
  \/ MarkPending(q)
  \/ Submit(q)
  \/ Poll(q)
  \/ SubmissionFails(q)
  \/ RequestFails(q)
  \/ FinishRequest(q)
  \/ Reply(q)
  \/ GiveUp(q)
  \/ RequestThrows(q)

----------------------------------------------------------------------------
(* The retry-pending worker. *)

Stuck == {id \in Ids : status[id] = "pending" /\ old[id]}

(* Take the next stuck row of the snapshot, or end the tick. *)
Advance(t, todo) ==
  IF todo = {}
  THEN ticks' = [ticks EXCEPT ![t] = IdleTick]
  ELSE \E id \in todo :
         ticks' = [ticks EXCEPT ![t] = [pc |-> "lookup", id |-> id, todo |-> todo \ {id}]]

At(t, pc) == ticks[t].pc = pc
Goto(t, pc) == ticks' = [ticks EXCEPT ![t].pc = pc]

(* Faulty variant: rows are taken up as soon as they are pending. *)
TickAtOnce(t) ==
  /\ up
  /\ At(t, "idle")
  /\ \E id \in Ids : status[id] = "pending"
  /\ Advance(t, {id \in Ids : status[id] = "pending"})
  /\ UNCHANGED <<status, old, reqs, retryCounts, txs, outcome, up, misled, chain>>

(* The query for stuck rows; nothing happens when there is none, or when   *)
(* the query throws.                                                       *)
Tick(t) ==
  /\ up
  /\ At(t, "idle")
  /\ Stuck # {}
  /\ Advance(t, Stuck)
  /\ UNCHANGED <<status, old, reqs, retryCounts, txs, outcome, up, misled, chain>>

(* Faulty variant: the attempt is not counted. *)
LookupUncounted(t) ==
  /\ At(t, "lookup")
  /\ Goto(t, IF Chain!Exists(ticks[t].id) THEN "won" ELSE "register")
  /\ UNCHANGED <<status, old, reqs, retryCounts, txs, outcome, up, misled, chain>>

(* resourceExists, then the count of the attempt this will be.  A count    *)
(* past the budget is kept at MaxRetry + 1: the code tells none apart.     *)
Lookup(t) ==
  LET id == ticks[t].id
      attempts == IF retryCounts[id] > MaxRetry THEN MaxRetry + 1 ELSE retryCounts[id] + 1
  IN
  /\ At(t, "lookup")
  /\ \/ /\ Chain!Exists(id)
        /\ Goto(t, "won")
        /\ UNCHANGED retryCounts
     \/ /\ ~Chain!Exists(id)
        /\ retryCounts' = [retryCounts EXCEPT ![id] = attempts]
        /\ Goto(t, IF attempts > MaxRetry THEN "exhausted" ELSE "register")
  /\ UNCHANGED <<status, old, reqs, txs, outcome, up, misled, chain>>

(* Register in the platform's name.  The SDK simulates first, and throws   *)
(* when the simulation does.                                               *)
Retry(t) ==
  LET id == ticks[t].id IN
  /\ At(t, "register")
  /\ ~Chain!Exists(id)
  /\ txs' = txs \cup {Tx(id, Platform, t)}
  /\ Goto(t, "await")
  /\ UNCHANGED <<status, old, reqs, retryCounts, outcome, up, misled, chain>>

(* signAndSend returns once the transaction is final; its result is not    *)
(* looked at.                                                              *)
Await(t) ==
  /\ At(t, "await")
  /\ outcome[t] # "unknown"
  /\ Goto(t, "won")
  /\ Forget(t)
  /\ UNCHANGED <<status, old, reqs, retryCounts, txs, up, misled, chain>>

(* Write status s, forget the count, go on to the next row. *)
Settle(t, s) ==
  LET id == ticks[t].id IN
  /\ status' = [status EXCEPT ![id] = s]
  /\ retryCounts' = [retryCounts EXCEPT ![id] = 0]
  /\ Advance(t, ticks[t].todo)
  /\ UNCHANGED <<old, reqs, txs, outcome, up, misled, chain>>

FinishWon(t) == At(t, "won") /\ Settle(t, "registered")

FinishExhausted(t) == At(t, "exhausted") /\ Settle(t, "failed")

(* The catch block of retryResource: an absent count reads as 1. *)
OutOfRetries(id) == (IF retryCounts[id] = 0 THEN 1 ELSE retryCounts[id]) > MaxRetry

CatchExhausted(t) ==
  /\ At(t, "catch")
  /\ OutOfRetries(ticks[t].id)
  /\ Settle(t, "failed")

CatchOn(t) ==
  /\ At(t, "catch")
  /\ ~OutOfRetries(ticks[t].id)
  /\ Advance(t, ticks[t].todo)
  /\ UNCHANGED <<status, old, reqs, retryCounts, txs, outcome, up, misled, chain>>

(* A call of retryResource throws into its catch block. *)
TickFails(t) ==
  /\ ticks[t].pc \in {"lookup", "register", "await", "won", "exhausted"}
  /\ Goto(t, "catch")
  /\ txs' = Orphaned(t)
  /\ Forget(t)
  /\ UNCHANGED <<status, old, reqs, retryCounts, up, misled, chain>>

(* The write in the catch block throws: the tick is over, with its rows.   *)
TickThrows(t) ==
  /\ At(t, "catch")
  /\ OutOfRetries(ticks[t].id)
  /\ ticks' = [ticks EXCEPT ![t] = IdleTick]
  /\ UNCHANGED <<status, old, reqs, retryCounts, txs, outcome, up, misled, chain>>

TickStep(t) ==
  \/ Tick(t)
  \/ Lookup(t)
  \/ Retry(t)
  \/ Await(t)
  \/ FinishWon(t)
  \/ FinishExhausted(t)
  \/ CatchExhausted(t)
  \/ CatchOn(t)
  \/ TickFails(t)
  \/ TickThrows(t)

----------------------------------------------------------------------------
(* Five minutes pass since the row was created. *)
Age(id) ==
  /\ ~old[id]
  /\ old' = [old EXCEPT ![id] = TRUE]
  /\ UNCHANGED <<status, reqs, ticks, retryCounts, txs, outcome, up, misled, chain>>

(* The server stops at any point.  Handlers, ticks and the worker's Map    *)
(* are gone; the rows, the transactions and the script, a process of its   *)
(* own, are not.                                                           *)
Stop ==
  /\ up
  /\ up' = FALSE
  /\ reqs' = [q \in Requests |-> IdleRequest]
  /\ ticks' = [t \in Ticks |-> IdleTick]
  /\ retryCounts' = [id \in Ids |-> 0]
  /\ txs' = {IF tx.from = Script THEN tx ELSE [tx EXCEPT !.from = NoValue] : tx \in txs}
  /\ outcome' = [s \in Senders |-> IF s = Script THEN outcome[s] ELSE "unknown"]
  /\ UNCHANGED <<status, old, misled, chain>>

Boot ==
  /\ ~up
  /\ up' = TRUE
  /\ UNCHANGED <<status, old, reqs, ticks, retryCounts, txs, outcome, misled, chain>>

Next ==
  \/ \E q \in Requests, id \in Ids, flow \in {"signed", "legacy"} : PostRegister(q, id, flow)
  \/ \E q \in Requests : HandlerStep(q)
  \/ \E t \in Ticks : TickStep(t)
  \/ \E tx \in txs : Apply(tx) \/ Fail(tx) \/ Drop(tx)
  \/ \E creator \in Accounts, id \in Ids : ThirdParty(creator, id)
  \/ \E id \in Ids : Age(id)
  \/ Stop
  \/ Boot

Spec == Init /\ [][Next]_vars

(* Time passes; the server, stopped however often, stays up in the end,    *)
(* and setInterval keeps starting ticks; every await of the worker returns *)
(* or throws; and the RPC and the database are not down for good: a call   *)
(* made again and again for one row returns at last.                       *)
For(t, id) == ticks[t].id = id

Fairness ==
  /\ <>[]up
  /\ \A id \in Ids : WF_vars(Age(id))
  /\ \A t \in Ticks : WF_vars(TickStep(t))
  /\ \A t \in Ticks, id \in Ids :
       /\ SF_vars(For(t, id) /\ Lookup(t))
       /\ SF_vars(For(t, id) /\ FinishWon(t))
       /\ SF_vars(For(t, id) /\ (FinishExhausted(t) \/ CatchExhausted(t)))

FairSpec == Spec /\ Fairness

----------------------------------------------------------------------------
(* Properties. *)

Status == {"none", "pending", "registered", "failed"}
TxType == [id : Ids \cup {NoValue}, creator : Accounts, from : Senders \cup {NoValue}]

RequestType ==
  [pc : {"checked", "submit", "polling", "won", "lost", "reply", "failing"},
   id : Ids,
   flow : {"signed", "legacy"}] \cup {IdleRequest}

TickType ==
  [pc : {"lookup", "register", "await", "won", "exhausted", "catch"}, id : Ids,
   todo : SUBSET Ids] \cup {IdleTick}

(* Every row, handler, tick and count is well typed. *)
TypeOK ==
  /\ status \in [Ids -> Status]
  /\ old \in [Ids -> BOOLEAN]
  /\ reqs \in [Requests -> RequestType]
  /\ ticks \in [Ticks -> TickType]
  /\ retryCounts \in [Ids -> 0 .. MaxRetry + 1]
  /\ txs \in SUBSET TxType
  /\ outcome \in [Senders -> {"unknown", "success", "failed"}]
  /\ up \in BOOLEAN
  /\ misled \in SUBSET Ids

(* A row the API reports as registered is on chain, unless whoever wrote   *)
(* so was told of a transaction that is not the row's own, or ignored that *)
(* the ledger refused it: neither a timeout, a restart, a tick that races  *)
(* a handler nor a transaction that lands late makes the catalogue claim a *)
(* registration there is not.                                              *)
RegisteredIsOnChain ==
  \A id \in Ids : status[id] = "registered" => Chain!Exists(id) \/ id \in misled

(* The registrations the ledger has recorded in the platform's name. *)
PlatformRegistrations ==
  {events[i].data : i \in {j \in 1 .. Len(events) :
     events[j].symbol = "register" /\ signers[j] = Platform}}

(* The server takes a row for itself, as its creator and hence its payee   *)
(* on chain, only when the row is the platform's own or its publisher has  *)
(* asked for a registration and five minutes have passed: the retry of a   *)
(* stuck row never overtakes the wallet of the publisher.                  *)
PlatformTakesOnlyStuckRows ==
  \A id \in PlatformRegistrations :
    status[id] # "none" /\ (Wallet[id] = Platform \/ old[id])

Busy(id) ==
  \/ \E q \in Requests : reqs[q].id = id
  \/ \E t \in Ticks : ticks[t].id = id \/ id \in ticks[t].todo

Settled(id) == status[id] = "registered" /\ ~Busy(id)

(* Once a row is registered and nobody is working on it, it stays so: no   *)
(* later request, tick or transaction that is still under way changes it.  *)
SettledForGood == [][\A id \in Ids : Settled(id) => Settled(id)']_vars

(* The worker leaves no row pending: it is registered, or given up for its *)
(* publisher to try again, through crashes and failing calls.              *)
PendingSettles == \A id \in Ids : status[id] = "pending" ~> status[id] # "pending"

=============================================================================
