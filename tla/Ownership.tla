------------------------------- MODULE Ownership ------------------------------
(***************************************************************************)
(* What a publisher changes about a registered resource, beside the event  *)
(* listener that follows the contract: POST price and POST ownership       *)
(* (routes/resources.ts) submit a transaction, poll for it and write the   *)
(* row from the body of the request; DELETE (resourceService.ts) writes    *)
(* the row and then asks the contract in the platform's name; POST         *)
(* verify-content (routes/verify.ts) lists the row or takes it down        *)
(* without asking the contract.  The reconciliation script                 *)
(* (scripts/reconcile.ts) compares rows and contract while all of them run.*)
(***************************************************************************)
EXTENDS EventSync

CONSTANTS
  Tasks,           \* bound: POST and DELETE requests
  Platform         \* the account of REGISTRY_SECRET_KEY

ASSUME OwnershipAssumption == Platform \in Accounts

VARIABLES
  tasks,           \* the control state of the requests
  marked,          \* the rows whose onchain_status is registered
  audit,           \* the run of reconcile.ts
  stray            \* history: the columns of a row whose value is not from the contract

ownerVars == <<vars, tasks, marked, audit, stray>>

Columns == {"price", "wallet", "listed"}

(* A row as it is inserted agrees with the entry the client registers for  *)
(* it in all but the listing.                                              *)
First(id, column) ==
  CASE column = "price" -> StartPrice
    [] column = "wallet" -> Owner[id]
    [] OTHER -> TRUE

OnChain(id, column) ==
  CASE column = "price" -> resources[id].price
    [] column = "wallet" -> resources[id].creator
    [] OTHER -> resources[id].listed

NoTask == [pc |-> "idle", tx |-> "none"]
Done == [pc |-> "done", tx |-> "none"]
NoAudit == [pc |-> "idle"]

OwnerInit ==
  /\ Init
  /\ tasks = [t \in Tasks |-> NoTask]
  /\ marked = {}
  /\ audit = NoAudit
  /\ stray = Ids \X {"listed"}

(* A change of the contract or the database under a running or finished    *)
(* audit spoils it: its verdict, which only reading leads to, then says    *)
(* nothing about the present, and it is as good as never begun.            *)
Disturb ==
  audit' = IF UNCHANGED <<contract, rows, marked>> THEN audit ELSE NoAudit

----------------------------------------------------------------------------
(* POST /resources/:id/price and /resources/:id/ownership *)

Values(column) == IF column = "price" THEN Prices ELSE Accounts

(* The owner check compares publishers, who never change, and the network  *)
(* takes the transaction.  Nothing compares what it does with the body:    *)
(* the clients of the repository send the same in both.                    *)
PostChange(t) ==
  /\ tasks[t] = NoTask
  /\ \E id \in Ids, column \in {"price", "wallet"} :
       \E value, signed \in Values(column) :
         tasks' = [tasks EXCEPT ![t] =
           [pc |-> "polling", tx |-> "pending", id |-> id, column |-> column,
            value |-> value, signed |-> signed, event |-> 0]]
  /\ UNCHANGED <<vars, marked, stray>>
  /\ Disturb

(* What a transaction does to the contract, when the right account signed. *)
Executes(task) ==
  CASE task.column = "price" ->
         \E signer \in Accounts : Chain!SetPrice(signer, task.id, task.signed)
    [] task.column = "wallet" ->
         \E signer \in Accounts : Chain!TransferOwnership(signer, task.id, task.signed)
    [] OTHER -> Chain!SetListed(Platform, task.id, FALSE)

(* A ledger executes a transaction. *)
Land(t) ==
  /\ tasks[t].tx = "pending"
  /\ Executes(tasks[t])
  /\ ledgerOf' = Append(ledgerOf, height)
  /\ tasks' = [tasks EXCEPT ![t] =
       IF @.pc = "done" THEN Done ELSE [@ EXCEPT !.tx = "success", !.event = Len(events')]]
  /\ UNCHANGED <<height, rows, cursor, polls, failures, history, marked, stray>>
  /\ Disturb

(* The contract refuses it, or the network drops it. *)
Fail(t) ==
  /\ tasks[t].tx = "pending"
  /\ tasks' = [tasks EXCEPT ![t] = IF @.pc = "done" THEN Done ELSE [@ EXCEPT !.tx = "failed"]]
  /\ UNCHANGED <<vars, marked, audit, stray>>

Topic(column) ==
  CASE column = "price" -> "setprice" [] column = "wallet" -> "transfer" [] OTHER -> "setlisted"

(* The listener has already applied a later change of this column. *)
Overtaken(task) ==
  \E i \in handled : /\ i > task.event
                     /\ events[i].topic = task.id
                     /\ events[i].symbol = Topic(task.column)

(* The row with the column a task is about rewritten. *)
Written(row, task) ==
  IF task.column = "price" THEN [row EXCEPT !.price = task.value]
                           ELSE [row EXCEPT !.wallet = task.value]

(* Faulty variant: the row is written without waiting for the ledger. *)
ConfirmUnseen(t) ==
  /\ tasks[t].pc = "polling"
  /\ rows' = [rows EXCEPT ![tasks[t].id] = Written(@, tasks[t])]
  /\ tasks' = [tasks EXCEPT ![t] = Done]
  /\ UNCHANGED <<contract, ledgerOf, height, cursor, polls, failures, history, marked, stray>>
  /\ Disturb

(* A poll answers SUCCESS: the column takes the value of the body.  It is  *)
(* not the contract's when nobody signed it, or when it comes late.        *)
Confirm(t) ==
  LET task == tasks[t]
      written == <<task.id, task.column>>
  IN
  /\ task.pc = "polling" /\ task.tx = "success"
  /\ rows' = [rows EXCEPT ![task.id] = Written(@, task)]
  /\ stray' = IF Overtaken(task) \/ task.value # task.signed
                THEN stray \cup {written} ELSE stray \ {written}
  /\ tasks' = [tasks EXCEPT ![t] = Done]
  /\ UNCHANGED <<contract, ledgerOf, height, cursor, polls, failures, history, marked>>
  /\ Disturb

(* 502, ten polls in vain (504), or a call that throws: the row stays, and *)
(* the transaction may still land.                                         *)
GiveUp(t) ==
  /\ tasks[t].pc = "polling"
  /\ tasks' = [tasks EXCEPT ![t] = IF @.tx = "pending" THEN [@ EXCEPT !.pc = "done"] ELSE Done]
  /\ UNCHANGED <<vars, marked, audit, stray>>

(* DELETE /resources/:id: the row first; a registered one is then delisted *)
(* on chain under the platform's signature, with any outcome.              *)
Delete(t) ==
  /\ tasks[t] = NoTask
  /\ \E id \in Ids :
       /\ rows' = [rows EXCEPT ![id].listed = FALSE]
       /\ stray' = stray \cup {<<id, "listed">>}
       /\ tasks' = [tasks EXCEPT ![t] =
            IF id \in marked
              THEN [pc |-> "done", tx |-> "pending", id |-> id, column |-> "listed"]
              ELSE Done]
  /\ UNCHANGED <<contract, ledgerOf, height, cursor, polls, failures, history, marked>>
  /\ Disturb

(* POST /verify-content: the row is listed by the verdict on what was sent *)
(* with its id, and the contract is not asked.                             *)
Judge(id) ==
  /\ \E original \in BOOLEAN : rows' = [rows EXCEPT ![id].listed = original]
  /\ stray' = stray \cup {<<id, "listed">>}
  /\ UNCHANGED <<contract, ledgerOf, height, cursor, polls, failures, history, tasks, marked>>
  /\ Disturb

(* The registration protocol, the worker or the backfill records the row   *)
(* as registered, which Registration shows may be without an entry.        *)
MarkRegistered(id) ==
  /\ id \notin marked
  /\ marked' = marked \cup {id}
  /\ UNCHANGED <<vars, tasks, stray>>
  /\ Disturb

----------------------------------------------------------------------------
(* reconcile.ts *)

StartAudit ==
  /\ audit.pc = "idle"
  /\ audit' = [pc |-> "rows", counted |-> FALSE, issues |-> {},
               found |-> [id \in marked |-> rows[id]], left |-> marked]
  /\ UNCHANGED <<vars, tasks, marked, stray>>

(* Faulty variant: the owner is not compared. *)
IssuesNoOwner(id) ==
  CASE ~Chain!Exists(id) -> {"missingOnChain"}
    [] audit.found[id].price # resources[id].price -> {"mismatches"}
    [] OTHER -> {}

(* What a registered row of the query is compared with. *)
Issues(id) ==
  IF ~Chain!Exists(id) THEN {"missingOnChain"}
  ELSE {kind \in {"mismatches", "ownerMismatches"} :
          IF kind = "mismatches" THEN audit.found[id].price # resources[id].price
                                 ELSE audit.found[id].wallet # resources[id].creator}

CheckRow ==
  /\ audit.pc = "rows"
  /\ \E id \in audit.left :
       audit' = [audit EXCEPT !.left = @ \ {id}, !.issues = @ \cup Issues(id)]
  /\ UNCHANGED <<vars, tasks, marked, stray>>

(* The number of entries, when the contract answers. *)
CountEntries ==
  /\ audit.pc = "rows" /\ audit.left = {}
  /\ \/ audit' = [audit EXCEPT !.pc = "listed", !.counted = TRUE, !.issues =
                    IF count > Cardinality(DOMAIN audit.found) THEN @ \cup {"missingInDb"} ELSE @]
     \/ audit' = [audit EXCEPT !.pc = "listed"]
  /\ UNCHANGED <<vars, tasks, marked, stray>>

CheckListing ==
  /\ audit.pc = "listed"
  /\ audit' = [audit EXCEPT !.pc = "done", !.issues =
                 IF \E id \in Ids \ marked : rows[id].listed THEN @ \cup {"listingDrift"} ELSE @]
  /\ UNCHANGED <<vars, tasks, marked, stray>>

Audit == StartAudit \/ CheckRow \/ CountEntries \/ CheckListing

----------------------------------------------------------------------------
(* An event gives the column it is about the contract's value. *)
Listen(k) ==
  LET e == events[Current(k)] IN
  /\ Handle(k)
  /\ stray' = {c \in stray : ~(c[1] = e.topic /\ Topic(c[2]) = e.symbol)}

(* An entry can be registered with another creator or price than the row.  *)
(* The register event, whose topic is no row, does not tell.               *)
Differs(id, column) ==
  /\ ~Chain!Exists(id) /\ Chain!Exists(id)'
  /\ OnChain(id, column)' # First(id, column)

Transact ==
  /\ Invoke
  /\ stray' = stray \cup {c \in Ids \X Columns : Differs(c[1], c[2])}

Others(k) == FirstPoll(k) \/ Poll(k) \/ Save(k) \/ HandlerFails(k) \/ Stop(k)

Listener ==
  /\ \/ Transact
     \/ CloseLedger /\ UNCHANGED stray
     \/ \E k \in Polls : Listen(k) \/ (Others(k) /\ UNCHANGED stray)
  /\ UNCHANGED <<tasks, marked>>
  /\ Disturb

OwnerNext ==
  \/ Listener
  \/ \E t \in Tasks :
       PostChange(t) \/ Land(t) \/ Fail(t) \/ Confirm(t) \/ GiveUp(t) \/ Delete(t)
  \/ \E id \in Ids : Judge(id) \/ MarkRegistered(id)
  \/ Audit

OwnerSpec == OwnerInit /\ [][OwnerNext]_ownerVars

----------------------------------------------------------------------------
(* Properties. *)

(* Once the listener has caught up, has lost nothing and no two polls have *)
(* overlapped, a row holds the contract's price, owner and listing,        *)
(* whatever requests gave up on transactions that landed later and in      *)
(* whatever order answers and events came.  The exceptions are the columns *)
(* whose last writer did not have the value from the contract: the listing *)
(* of a row until the first event about it, and after a verdict or a       *)
(* DELETE; what a request wrote that was not signed, or wrote after the    *)
(* listener had applied a later change; and the owner and price of an      *)
(* entry that was not registered as the row stood.  Each ends with the     *)
(* next event about the column.                                            *)
AgreesAfterChanges ==
  CaughtUp /\ Lost = {} /\ failed = {} /\ ~overlapped =>
    \A id \in Ids, column \in Columns :
      Chain!Exists(id) /\ <<id, column>> \notin stray =>
        rows[id][column] = OnChain(id, column)

AllClear == audit.pc = "done" /\ audit.issues = {}

(* A clean reconciliation means what docs/reconciliation.md says it means, *)
(* while nothing has changed since it began: the registered rows have      *)
(* their entry at their price and owner, every listed row is one of them,  *)
(* and, when the count could be read, no entry is missing a registered row.*)
(* It says nothing of the listing of registered rows, which is not read.   *)
AllClearMeansAgreement ==
  AllClear =>
    /\ \A id \in marked : /\ Chain!Exists(id)
                          /\ rows[id].price = resources[id].price
                          /\ rows[id].wallet = resources[id].creator
    /\ \A id \in Ids : rows[id].listed => id \in marked
    /\ audit.counted => \A id \in Ids : Chain!Exists(id) => id \in marked
=============================================================================
