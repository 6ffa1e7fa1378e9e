------------------------------ MODULE EventSync -------------------------------
(***************************************************************************)
(* The registry event listener (workers/eventListener.ts): polls started   *)
(* every thirty seconds read a page of contract events from a cursor kept  *)
(* in a file, apply them one by one to the resource rows, and move the     *)
(* cursor.  A poll may outlive the interval, so polls overlap.  The events *)
(* are those of VaultRegistry, in the shape the listener's SorobanEvent    *)
(* interface declares.  Ledgers close one after the other; the RPC serves  *)
(* events of closed ledgers, of the last Retention of them.                *)
(***************************************************************************)
EXTENDS Integers, Sequences, FiniteSets

CONSTANTS
  Ids, Accounts, Prices,
  Owner,           \* the wallet of each row before any transfer
  StartPrice,      \* the price of each row before any change
  Content,         \* metadata and tags, which the listener ignores
  MaxEvents,       \* bound: events of the contract
  MaxLedger,       \* bound: ledgers that close
  Retention,       \* closed ledgers the RPC keeps
  PageLimit,       \* EVENT_PAGE_LIMIT, 100
  Polls,           \* polls that can run at a time
  MaxFailures,     \* bound: handlers and polls that fail
  NoValue

ASSUME EventSyncAssumption ==
  /\ Owner \in [Ids -> Accounts] /\ StartPrice \in Prices
  /\ MaxEvents \in Nat /\ MaxLedger \in Nat /\ MaxFailures \in Nat
  /\ PageLimit \in Nat \ {0} /\ Retention \in Nat \ {0}
  /\ IsFiniteSet(Ids)
  /\ Ids \cap Accounts = {}

VARIABLES
  resources, index, count, events, signers,   \* the contract
  ledgerOf,        \* the ledger of each event
  height,          \* the ledger being filled
  rows,            \* price, walletAddress and listed of each resource row
  cursor,          \* last-processed-ledger.json, 0 when there is none
  polls,           \* the control state of the polls
  failures,        \* how many failures there have been
  handled,         \* history: the events whose handler has finished
  failed,          \* history: the events whose handler has failed
  cutOff,          \* history: the events a full page left out
  overlapped       \* history: two polls have run at the same time

contract == <<resources, index, count, events, signers>>
history == <<handled, failed, cutOff, overlapped>>
vars == <<contract, ledgerOf, height, rows, cursor, polls, failures, history>>

Chain == INSTANCE VaultRegistry WITH
  ValidPrices <- Prices, Metadata <- {Content}, ValidMetadata <- {Content},
  Tags <- {Content}, ValidTags <- {Content}, U32Max <- Cardinality(Ids), PageCap <- 20

ASSUME LedgerAssumption == NoValue \notin Chain!Resource

(* A poll works off the events from at to last, the last of its page. *)
Idle == [at |-> 0, last |-> 0]

(* The server and the contract are installed at any ledger. *)
Init ==
  /\ Chain!Init
  /\ ledgerOf = <<>>
  /\ height \in 1 .. MaxLedger
  /\ rows = [id \in Ids |-> [price |-> StartPrice, wallet |-> Owner[id], listed |-> FALSE]]
  /\ cursor = 0
  /\ polls = [k \in Polls |-> Idle]
  /\ failures = 0
  /\ handled = {} /\ failed = {} /\ cutOff = {} /\ overlapped = FALSE

(* Somebody invokes the contract.  A row is registered by the wallet it    *)
(* names, by the platform (the worker, the backfill) or by anybody else,   *)
(* at any price.                                                           *)
Invoke ==
  /\ \E auth \in Accounts, id \in Ids :
       \/ \E p \in Prices : Chain!Register(auth, auth, id, p, Content, Content)
       \/ \E p \in Prices : Chain!SetPrice(auth, id, p)
       \/ \E new \in Accounts : Chain!TransferOwnership(auth, id, new)
       \/ \E listed \in BOOLEAN : Chain!SetListed(auth, id, listed)
  /\ ledgerOf' = Append(ledgerOf, height)
  /\ UNCHANGED <<height, rows, cursor, polls, failures, history>>

CloseLedger ==
  /\ height < MaxLedger
  /\ height' = height + 1
  /\ UNCHANGED <<contract, ledgerOf, rows, cursor, polls, failures, history>>

----------------------------------------------------------------------------
(* pollEvents *)

(* What getEvents can serve from the cursor on.  Events are in the order   *)
(* of their ledgers, so it is an interval, and a page begins with it.      *)
Available == {i \in 1 .. Len(events) : cursor <= ledgerOf[i] /\ ledgerOf[i] < height}

IsPage(first, last) ==
  /\ {first, last} \subseteq Available
  /\ \A i \in Available : first <= i
  /\ last < first + PageLimit
  /\ last + 1 \in Available => last + 1 = first + PageLimit

(* The first poll ever only creates the file. *)
FirstPoll(k) ==
  /\ polls[k] = Idle
  /\ cursor = 0
  /\ cursor' = 1
  /\ UNCHANGED <<contract, ledgerOf, height, rows, polls, failures, history>>

(* The oldest ledger the RPC still has.  A startLedger before it is        *)
(* rejected.                                                               *)
Oldest == IF height > Retention THEN height - Retention ELSE 1

(* loadLastLedger and getEvents.  A call that is rejected is logged and    *)
(* changes nothing, and neither does an empty page: the cursor stays.      *)
Poll(k) ==
  /\ polls[k] = Idle
  /\ cursor # 0
  /\ Oldest <= cursor
  /\ \E first, last \in Available :
       /\ IsPage(first, last)
       /\ polls' = [polls EXCEPT ![k] = [at |-> first, last |-> last]]
  /\ overlapped' = (overlapped \/ \E j \in Polls : polls[j] # Idle)
  /\ UNCHANGED <<contract, ledgerOf, height, rows, cursor, failures, handled, failed, cutOff>>

Current(k) == polls[k].at

(* A page is worked off event by event; then the cursor is saved. *)
Handling(k) == polls[k].at \in 1 .. polls[k].last
Saving(k) == polls[k].at > polls[k].last

Step(k) == polls' = [polls EXCEPT ![k].at = @ + 1]

(* What an event does to the row its second topic names, if there is one;  *)
(* updmeta and settags do nothing.  The register handler would mark the    *)
(* row as registered, but the topic of register is the creator.            *)
Updated(row, e) ==
  CASE e.symbol = "setprice" -> [row EXCEPT !.price = e.data]
    [] e.symbol = "transfer" -> [row EXCEPT !.wallet = e.data]
    [] e.symbol = "setlisted" -> [row EXCEPT !.listed = e.data]
    [] OTHER -> row

Handle(k) ==
  LET e == events[Current(k)] IN
  /\ Handling(k)
  /\ rows' = IF e.topic \in Ids THEN [rows EXCEPT ![e.topic] = Updated(@, e)] ELSE rows
  /\ handled' = handled \cup {Current(k)}
  /\ Step(k)
  /\ UNCHANGED <<contract, ledgerOf, height, cursor, failures, failed, cutOff, overlapped>>

(* The update throws; the loop logs it and goes on with the next event.    *)
HandlerFails(k) ==
  /\ Handling(k)
  /\ failures < MaxFailures
  /\ failures' = failures + 1
  /\ failed' = failed \cup {Current(k)}
  /\ Step(k)
  /\ UNCHANGED <<contract, ledgerOf, height, rows, cursor, handled, cutOff, overlapped>>

LastLedger(k) == ledgerOf[polls[k].last]

(* Faulty variant: the cursor moves past a ledger nobody has read. *)
SavePast(k) ==
  /\ Saving(k)
  /\ cursor' = LastLedger(k) + 2
  /\ cutOff' = cutOff \cup {i \in 1 .. Len(events) :
       ledgerOf[i] = LastLedger(k) /\ i > polls[k].last}
  /\ polls' = [polls EXCEPT ![k] = Idle]
  /\ UNCHANGED <<contract, ledgerOf, height, rows, failures, handled, failed, overlapped>>

(* Faulty variant: the cursor stays on the last ledger read. *)
SaveSame(k) ==
  /\ Saving(k)
  /\ cursor' = LastLedger(k)
  /\ polls' = [polls EXCEPT ![k] = Idle]
  /\ UNCHANGED <<contract, ledgerOf, height, rows, failures, history>>

(* saveLastLedger(maxLedger + 1): the rest of that ledger, if the page was *)
(* full before its end, is behind the cursor.                              *)
Save(k) ==
  /\ Saving(k)
  /\ cursor' = LastLedger(k) + 1
  /\ cutOff' = cutOff \cup {i \in 1 .. Len(events) :
       ledgerOf[i] = LastLedger(k) /\ i > polls[k].last}
  /\ polls' = [polls EXCEPT ![k] = Idle]
  /\ UNCHANGED <<contract, ledgerOf, height, rows, failures, handled, failed, overlapped>>

(* The file cannot be written, or the server stops: the poll is over and   *)
(* the cursor stays.                                                       *)
Stop(k) ==
  /\ polls[k] # Idle
  /\ failures < MaxFailures
  /\ failures' = failures + 1
  /\ polls' = [polls EXCEPT ![k] = Idle]
  /\ UNCHANGED <<contract, ledgerOf, height, rows, cursor, history>>

PollStep(k) ==
  \/ FirstPoll(k)
  \/ Poll(k)
  \/ Handle(k)
  \/ Save(k)

Next ==
  \/ Invoke
  \/ CloseLedger
  \/ \E k \in Polls : PollStep(k) \/ HandlerFails(k) \/ Stop(k)

Spec == Init /\ [][Next]_vars

(* setInterval keeps starting polls, updates and writes return or throw,   *)
(* and ledgers keep closing.                                               *)
FairSpec == Spec /\ WF_vars(CloseLedger) /\ \A k \in Polls : WF_vars(PollStep(k))

----------------------------------------------------------------------------
(* Properties. *)

Row == [price : Prices, wallet : Accounts, listed : BOOLEAN]

(* Rows hold values of the right kind: an event never lands in another     *)
(* column.  The cursor is a ledger that has been reached, or the first.    *)
TypeOK ==
  /\ rows \in [Ids -> Row]
  /\ cursor \in 0 .. height
  /\ Len(ledgerOf) = Len(events)
  /\ \A i, j \in 1 .. Len(ledgerOf) : i < j => ledgerOf[i] <= ledgerOf[j]
  /\ \A k \in Polls : polls[k] # Idle =>
       /\ polls[k].at \in 1 .. polls[k].last + 1
       /\ polls[k].last \in 1 .. Len(events) /\ ledgerOf[polls[k].last] < height

Behind == {i \in 1 .. Len(events) : ledgerOf[i] < cursor}

(* The cursor passes an event only when it was handled, when its handler   *)
(* failed, or when the page was full in the middle of its ledger.          *)
NothingElsePassedOver == Behind \subseteq handled \cup failed \cup cutOff

Lost == Behind \ handled

Quiet == \A k \in Polls : polls[k] = Idle

CaughtUp == Quiet /\ Behind = 1 .. Len(events)

(* The ledger the cursor stands on is gone: it starts at 1, and it only    *)
(* moves when there are events, so a network with a past or a contract     *)
(* that was quiet for long leaves it behind.  Every poll fails from then   *)
(* on.                                                                     *)
Stranded == cursor # 0 /\ cursor < Oldest

(* Every event of a closed ledger is read in the end, unless the cursor    *)
(* is stranded: nothing else stops the listener for good, neither polls    *)
(* that overlap, fail or set the cursor back nor full pages.               *)
EventuallyPassed ==
  \A i \in 1 .. MaxEvents :
    (i <= Len(events) /\ ledgerOf[i] < height) ~> (i \in Behind \/ Stranded)
=============================================================================
