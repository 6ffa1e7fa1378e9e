----------------------------- MODULE ServerProofs -----------------------------
(***************************************************************************)
(* Proofs about the server, in two parts.                                  *)
(*                                                                         *)
(* The rows it keeps beside the contract: the event listener, the routes   *)
(* that change price, owner and listing, and the reconciliation, for any   *)
(* number of rows, events, requests, polls, failures and restarts and any  *)
(* page limit.  Nothing is passed over that was not handled, failed or cut *)
(* off; once the listener has caught up the rows agree with the contract;  *)
(* a clean reconciliation is right.                                        *)
(*                                                                         *)
(* The process and the requests it holds, for any number of requests, any  *)
(* limits and any length of time: the counter that the shutdown waits for  *)
(* is the number of clients that wait for an answer, an exit with 0 leaves *)
(* none of those behind that had asked before, and no window sees more     *)
(* requests accepted than its limit.                                       *)
(***************************************************************************)
EXTENDS Ownership, Requests, FiniteSetTheorems, SequenceTheorems, TLAPS

----------------------------------------------------------------------------
(* The registry and its log, seen from the server. *)

(* The contract and its log take one step: event e, about id, in the       *)
(* ledger being filled.                                                    *)
Logged(id, e) ==
  /\ e \in Chain!EventType
  /\ events' = Append(events, e)
  /\ ledgerOf' = Append(ledgerOf, height)
  /\ resources' \in [Ids -> Chain!Resource \cup {NoValue}]
  /\ resources'[id] \in Chain!Resource
  /\ \A k \in Ids \ {id} : resources'[k] = resources[k]

Registers(id, e) ==
  /\ Logged(id, e)
  /\ e.symbol = "register" /\ e.topic \in Accounts
  /\ resources[id] = NoValue
  /\ resources'[id].listed = TRUE
  /\ count' = count + 1

Changes(id, e) ==
  /\ Logged(id, e)
  /\ e.symbol \in {"setprice", "transfer", "setlisted"} /\ e.topic = id
  /\ resources[id] \in Chain!Resource
  /\ resources'[id].price = IF e.symbol = "setprice" THEN e.data ELSE resources[id].price
  /\ resources'[id].creator = IF e.symbol = "transfer" THEN e.data ELSE resources[id].creator
  /\ resources'[id].listed = IF e.symbol = "setlisted" THEN e.data ELSE resources[id].listed
  /\ count' = count

ChainSteps == \E id \in Ids, e \in Chain!EventType : Registers(id, e) \/ Changes(id, e)

LogInv ==
  /\ resources \in [Ids -> Chain!Resource \cup {NoValue}]
  /\ events \in Seq(Chain!EventType)
  /\ ledgerOf \in Seq(Nat) /\ Len(ledgerOf) = Len(events)
  /\ height \in Nat \ {0}
  /\ \A i \in 1 .. Len(events) : 1 <= ledgerOf[i] /\ ledgerOf[i] <= height
  /\ \A i, j \in 1 .. Len(events) : i < j => ledgerOf[i] <= ledgerOf[j]
  /\ cursor \in 0 .. height

LEMMA PriceStep ==
  ASSUME LogInv, NEW auth, NEW id \in Ids, NEW p \in Prices,
         Chain!SetPrice(auth, id, p), ledgerOf' = Append(ledgerOf, height)
  PROVE  Changes(id, Chain!Event("setprice", id, p))
<1> DEFINE e == Chain!Event("setprice", id, p)
<1>1. resources[id] \in Chain!Resource
  BY DEF LogInv, Chain!SetPrice, Chain!OwnedBy, Chain!Exists
<1>2. e \in Chain!EventType
  BY DEF Chain!Event, Chain!EventType
<1>3. [resources[id] EXCEPT !.price = p] \in Chain!Resource
  BY <1>1 DEF Chain!Resource
<1>4. Logged(id, e)
  BY <1>1, <1>2, <1>3 DEF Logged, LogInv, Chain!SetPrice, Chain!Emit
<1>5. QED
  BY <1>1, <1>4 DEF Changes, LogInv, Chain!SetPrice, Chain!Emit, Chain!Keep, Chain!Event,
    Chain!Resource

LEMMA TransferStep ==
  ASSUME LogInv, NEW auth, NEW id \in Ids, NEW new \in Accounts,
         Chain!TransferOwnership(auth, id, new), ledgerOf' = Append(ledgerOf, height)
  PROVE  Changes(id, Chain!Event("transfer", id, new))
<1> DEFINE e == Chain!Event("transfer", id, new)
<1>1. resources[id] \in Chain!Resource
  BY DEF LogInv, Chain!TransferOwnership, Chain!OwnedBy, Chain!Exists
<1>2. e \in Chain!EventType
  BY DEF Chain!Event, Chain!EventType
<1>3. [resources[id] EXCEPT !.creator = new] \in Chain!Resource
  BY <1>1 DEF Chain!Resource
<1>4. Logged(id, e)
  BY <1>1, <1>2, <1>3 DEF Logged, LogInv, Chain!TransferOwnership, Chain!Emit
<1>5. QED
  BY <1>1, <1>4 DEF Changes, LogInv, Chain!TransferOwnership, Chain!Emit, Chain!Keep,
    Chain!Event, Chain!Resource

LEMMA ListingStep ==
  ASSUME LogInv, NEW auth, NEW id \in Ids, NEW listed \in BOOLEAN,
         Chain!SetListed(auth, id, listed), ledgerOf' = Append(ledgerOf, height)
  PROVE  Changes(id, Chain!Event("setlisted", id, listed))
<1> DEFINE e == Chain!Event("setlisted", id, listed)
<1>1. resources[id] \in Chain!Resource
  BY DEF LogInv, Chain!SetListed, Chain!OwnedBy, Chain!Exists
<1>2. e \in Chain!EventType
  BY DEF Chain!Event, Chain!EventType
<1>3. [resources[id] EXCEPT !.listed = listed] \in Chain!Resource
  BY <1>1 DEF Chain!Resource
<1>4. Logged(id, e)
  BY <1>1, <1>2, <1>3 DEF Logged, LogInv, Chain!SetListed, Chain!Emit
<1>5. QED
  BY <1>1, <1>4 DEF Changes, LogInv, Chain!SetListed, Chain!Emit, Chain!Keep,
    Chain!Event, Chain!Resource

LEMMA RegisterStep ==
  ASSUME LogInv, NEW auth \in Accounts, NEW id \in Ids, NEW p \in Prices,
         Chain!Register(auth, auth, id, p, Content, Content), ledgerOf' = Append(ledgerOf, height)
  PROVE  Registers(id, Chain!Event("register", auth, id))
<1> DEFINE e == Chain!Event("register", auth, id)
           r == [creator |-> auth, price |-> p, metadata |-> Content,
                 listed |-> TRUE, tags |-> Content]
<1>1. e \in Chain!EventType /\ r \in Chain!Resource
  BY EventSyncAssumption DEF Chain!Event, Chain!EventType, Chain!Resource
<1>2. resources[id] = NoValue /\ resources' = [resources EXCEPT ![id] = r]
  BY DEF Chain!Register, Chain!MayRegister, Chain!Exists
<1>3. Logged(id, e)
  BY <1>1, <1>2 DEF Logged, LogInv, Chain!Register, Chain!Emit
<1>4. resources'[id] = r /\ count' = count + 1
  BY <1>2 DEF LogInv, Chain!Register
<1>5. e.symbol = "register" /\ e.topic \in Accounts
  BY DEF Chain!Event
<1>6. QED
  BY <1>2, <1>3, <1>4, <1>5 DEF Registers

LEMMA InvokeSteps ==
  ASSUME LogInv, Invoke
  PROVE  ChainSteps
<1>1. PICK auth \in Accounts, id \in Ids :
       \/ \E p \in Prices : Chain!Register(auth, auth, id, p, Content, Content)
       \/ \E p \in Prices : Chain!SetPrice(auth, id, p)
       \/ \E new \in Accounts : Chain!TransferOwnership(auth, id, new)
       \/ \E listed \in BOOLEAN : Chain!SetListed(auth, id, listed)
  BY DEF Invoke
<1>2. ledgerOf' = Append(ledgerOf, height)
  BY DEF Invoke
<1>3. \E e : Registers(id, e) \/ Changes(id, e)
  BY <1>1, <1>2, RegisterStep, PriceStep, TransferStep, ListingStep
<1>4. QED
  BY <1>3 DEF ChainSteps, Registers, Changes, Logged

LEMMA LedgerOrder ==
  ASSUME LogInv, NEW i \in 1 .. Len(events), NEW j \in 1 .. Len(events), i <= j
  PROVE  /\ ledgerOf[i] \in Nat /\ ledgerOf[j] \in Nat /\ height \in Nat /\ cursor \in Nat
         /\ 1 <= ledgerOf[i] /\ ledgerOf[i] <= ledgerOf[j] /\ ledgerOf[j] <= height
<1>1. ledgerOf[i] \in Nat /\ ledgerOf[j] \in Nat /\ height \in Nat /\ cursor \in Nat
  BY DEF LogInv
<1>2. i = j \/ i < j
  OBVIOUS
<1>3. QED
  BY <1>1, <1>2 DEF LogInv

(* The log after one more event. *)
LEMMA LogGrows ==
  ASSUME LogInv, ChainSteps
  PROVE  /\ Len(events) \in Nat /\ Len(events') = Len(events) + 1
         /\ Len(ledgerOf') = Len(ledgerOf) + 1
         /\ \A i \in 1 .. Len(events) : events'[i] = events[i] /\ ledgerOf'[i] = ledgerOf[i]
         /\ ledgerOf'[Len(events) + 1] = height
         /\ events' \in Seq(Chain!EventType) /\ ledgerOf' \in Seq(Nat)
         /\ resources' \in [Ids -> Chain!Resource \cup {NoValue}]
<1>1. PICK e \in Chain!EventType :
        /\ events' = Append(events, e) /\ ledgerOf' = Append(ledgerOf, height)
        /\ resources' \in [Ids -> Chain!Resource \cup {NoValue}]
  BY DEF ChainSteps, Registers, Changes, Logged
<1>2. QED
  BY <1>1 DEF LogInv

----------------------------------------------------------------------------
(* The cursor.  What a poll has passed was handled, failed or was cut off. *)

Passed == handled \cup failed \cup cutOff

PollOK(k) ==
  polls[k] # Idle =>
    /\ polls[k].last \in 1 .. Len(events)
    /\ polls[k].at \in 1 .. polls[k].last + 1
    /\ ledgerOf[polls[k].last] < height
    /\ \A i \in 1 .. polls[k].last : i < polls[k].at => i \in Passed

SyncInv ==
  /\ LogInv
  /\ polls \in [Polls -> [at : Nat, last : Nat]]
  /\ \A k \in Polls : PollOK(k)
  /\ NothingElsePassedOver

LEMMA SyncInit == Init => SyncInv
  BY EventSyncAssumption DEF Init, SyncInv, LogInv, PollOK, NothingElsePassedOver, Behind,
    Chain!Init, Idle

LEMMA LogInvGrows ==
  ASSUME LogInv, ChainSteps, UNCHANGED <<height, cursor>>
  PROVE  LogInv' /\ Behind' = Behind
<1>1. LogInv'
  <2>1. /\ Len(events) \in Nat /\ Len(events') = Len(events) + 1
        /\ \A i \in 1 .. Len(events) : ledgerOf'[i] = ledgerOf[i]
        /\ ledgerOf'[Len(events) + 1] = height
        /\ height \in Nat \ {0}
    BY LogGrows DEF LogInv
  <2>2. ASSUME NEW i \in 1 .. Len(events')
        PROVE  1 <= ledgerOf'[i] /\ ledgerOf'[i] <= height
    <3>1. i \in 1 .. Len(events) \/ i = Len(events) + 1
      BY <2>1
    <3>2. QED
      BY <2>1, <3>1, LedgerOrder
  <2>3. ASSUME NEW i \in 1 .. Len(events'), NEW j \in 1 .. Len(events'), i < j
        PROVE  ledgerOf'[i] <= ledgerOf'[j]
    <3>1. i \in 1 .. Len(events) /\ (j \in 1 .. Len(events) \/ j = Len(events) + 1)
      BY <2>1, <2>3
    <3>2. QED
      BY <2>1, <2>3, <3>1, LedgerOrder
  <2>4. QED
    BY <2>2, <2>3, LogGrows DEF LogInv
<1>2. \A i : i \in Behind' <=> i \in Behind
  BY LogGrows DEF LogInv, Behind
<1>3. QED
  BY <1>1, <1>2

LEMMA ChainKeepsSync ==
  ASSUME SyncInv, ChainSteps, UNCHANGED <<height, cursor, polls, history>>
  PROVE  SyncInv'
<1>1. LogInv' /\ Behind' = Behind
  BY LogInvGrows DEF SyncInv
<1>2. /\ Len(events) \in Nat /\ Len(events') = Len(events) + 1
      /\ \A i \in 1 .. Len(events) : ledgerOf'[i] = ledgerOf[i]
  BY LogGrows DEF SyncInv
<1>3. ASSUME NEW k \in Polls PROVE PollOK(k)'
  BY <1>2 DEF SyncInv, PollOK, history, Passed
<1>4. QED
  BY <1>1, <1>3 DEF SyncInv, NothingElsePassedOver, history

LEMMA RestKeepsSync ==
  ASSUME SyncInv, UNCHANGED <<contract, ledgerOf, height, cursor, polls, history>>
  PROVE  SyncInv'
  BY DEF SyncInv, LogInv, PollOK, Passed, NothingElsePassedOver, Behind, contract, history

LEMMA CloseKeepsSync ==
  ASSUME SyncInv, CloseLedger
  PROVE  SyncInv'
<1>1. LogInv' /\ Behind' = Behind
  BY DEF SyncInv, LogInv, CloseLedger, contract, Behind
<1>2. ASSUME NEW k \in Polls PROVE PollOK(k)'
  BY DEF SyncInv, LogInv, PollOK, history, Passed, CloseLedger, contract
<1>3. QED
  BY <1>1, <1>2 DEF SyncInv, NothingElsePassedOver, history, CloseLedger

LEMMA FirstPollKeepsSync ==
  ASSUME SyncInv, NEW k \in Polls, FirstPoll(k)
  PROVE  SyncInv' /\ Behind = {} /\ Behind' = {}
<1>1. LogInv' /\ Behind = {} /\ Behind' = {}
  BY DEF SyncInv, LogInv, FirstPoll, contract, Behind
<1>2. ASSUME NEW j \in Polls PROVE PollOK(j)'
  BY DEF SyncInv, PollOK, history, Passed, FirstPoll, contract
<1>3. QED
  BY <1>1, <1>2 DEF SyncInv, NothingElsePassedOver, history, FirstPoll

LEMMA PollStarts ==
  ASSUME SyncInv, NEW k \in Polls, NEW first \in Available, NEW last \in Available,
         IsPage(first, last)
  PROVE  /\ first \in 1 .. last /\ last \in 1 .. Len(events)
         /\ ledgerOf[last] < height
         /\ \A i \in 1 .. last : i < first <=> i \in Behind
<1>1. first \in 1 .. last /\ last \in 1 .. Len(events) /\ ledgerOf[last] < height
  BY DEF IsPage, Available, SyncInv, LogInv
<1>2. first \in Available /\ last \in Available /\ LogInv
  BY DEF SyncInv
<1>3. \A i \in Available : first <= i
  BY DEF IsPage
<1>4. ASSUME NEW i \in 1 .. last PROVE i < first <=> i \in Behind
  <2>1. i \in 1 .. Len(events) /\ first \in 1 .. Len(events)
    BY <1>1
  <2>2. CASE i < first
    <3>1. ledgerOf[i] <= ledgerOf[first]
      BY <1>2, <2>1, <2>2, LedgerOrder
    <3>2. i \notin Available
      BY <1>1, <1>3, <2>2
    <3>3. ledgerOf[i] \in Nat /\ ledgerOf[first] \in Nat /\ height \in Nat /\ cursor \in Nat
      BY <1>2, <2>1, LedgerOrder
    <3>4. QED
      BY <1>2, <2>1, <2>2, <3>1, <3>2, <3>3 DEF Available, Behind
  <2>3. CASE ~(i < first)
    <3>1. ledgerOf[first] <= ledgerOf[i]
      BY <1>1, <1>2, <2>1, <2>3, LedgerOrder
    <3>2. ledgerOf[i] \in Nat /\ ledgerOf[first] \in Nat /\ cursor \in Nat
      BY <1>2, <2>1, LedgerOrder
    <3>3. QED
      BY <1>2, <2>1, <2>3, <3>1, <3>2 DEF Available, Behind
  <2>4. QED
    BY <2>2, <2>3
<1>5. QED
  BY <1>1, <1>4

LEMMA PollKeepsSync ==
  ASSUME SyncInv, NEW k \in Polls, Poll(k)
  PROVE  SyncInv'
<1>1. PICK first, last \in Available :
        IsPage(first, last) /\ polls' = [polls EXCEPT ![k] = [at |-> first, last |-> last]]
  BY DEF Poll
<1>2. LogInv' /\ Behind' = Behind /\ Passed' = Passed
  BY DEF SyncInv, LogInv, Poll, contract, Behind, Passed
<1>3. /\ first \in 1 .. last /\ last \in 1 .. Len(events)
      /\ ledgerOf[last] < height
      /\ \A i \in 1 .. last : i < first <=> i \in Behind
  BY <1>1, PollStarts
<1>4. ASSUME NEW j \in Polls PROVE PollOK(j)'
  <2>1. CASE j = k
    BY <1>1, <1>2, <1>3, <2>1 DEF SyncInv, PollOK, Poll, contract, NothingElsePassedOver, Passed
  <2>2. CASE j # k
    BY <1>1, <1>2, <2>2 DEF SyncInv, PollOK, Poll, contract
  <2>3. QED
    BY <2>1, <2>2
<1>5. polls' \in [Polls -> [at : Nat, last : Nat]]
  BY <1>1, <1>3 DEF SyncInv
<1>6. QED
  BY <1>2, <1>4, <1>5 DEF SyncInv, NothingElsePassedOver, Passed

(* Handle and HandlerFails: the event the poll is at has been dealt with. *)
LEMMA StepKeepsSync ==
  ASSUME SyncInv, NEW k \in Polls, Handling(k), Step(k),
         UNCHANGED <<contract, ledgerOf, height, cursor>>,
         Passed' = Passed \cup {Current(k)}
  PROVE  SyncInv'
<1>1. LogInv' /\ Behind' = Behind
  BY DEF SyncInv, LogInv, contract, Behind
<1>2. polls[k] # Idle /\ polls[k] \in [at : Nat, last : Nat]
  BY DEF Handling, Idle, SyncInv
<1>3. polls' \in [Polls -> [at : Nat, last : Nat]]
  BY <1>2 DEF Step, SyncInv
<1>4. ASSUME NEW j \in Polls PROVE PollOK(j)'
  <2>1. CASE j = k
    BY <1>2, <2>1 DEF SyncInv, PollOK, Step, Handling, Current, contract
  <2>2. CASE j # k
    BY <2>2 DEF SyncInv, PollOK, Step, contract
  <2>3. QED
    BY <2>1, <2>2
<1>5. QED
  BY <1>1, <1>3, <1>4 DEF SyncInv, NothingElsePassedOver, Passed

(* What is behind the cursor a poll saves: its page and what came before,  *)
(* and the rest of the last ledger.                                        *)
LEMMA SaveMoves ==
  ASSUME SyncInv, NEW k \in Polls, Save(k)
  PROVE  /\ polls[k] # Idle /\ polls[k].last \in 1 .. Len(events)
         /\ polls[k].at = polls[k].last + 1
         /\ cursor' = ledgerOf[polls[k].last] + 1 /\ cursor' \in 0 .. height
         /\ \A i \in 1 .. Len(events) : i <= polls[k].last => i \in Behind'
         /\ \A i \in Behind' : i > polls[k].last =>
              i \in cutOff' /\ ledgerOf[i] = ledgerOf[polls[k].last]
         /\ \A i \in cutOff' : i \in cutOff \/ (i \in Behind' /\ i > polls[k].last)
<1>1. polls[k] # Idle /\ polls[k] \in [at : Nat, last : Nat]
  BY DEF Save, Saving, Idle, SyncInv
<1>2. /\ polls[k].last \in 1 .. Len(events) /\ polls[k].at = polls[k].last + 1
      /\ ledgerOf[polls[k].last] < height
  BY <1>1 DEF SyncInv, PollOK, Save, Saving
<1>3. ledgerOf[polls[k].last] \in Nat
  BY <1>2 DEF SyncInv, LogInv
<1>4. cursor' = ledgerOf[polls[k].last] + 1 /\ cursor' \in 0 .. height
  BY <1>2, <1>3 DEF Save, LastLedger, SyncInv, LogInv
<1>5. \A i : i \in Behind' <=> i \in 1 .. Len(events) /\ ledgerOf[i] <= ledgerOf[polls[k].last]
  <2>1. events' = events /\ ledgerOf' = ledgerOf
    BY DEF Save, contract
  <2>2. \A i \in 1 .. Len(events) : ledgerOf[i] \in Nat
    BY DEF SyncInv, LogInv
  <2>3. QED
    BY <1>3, <1>4, <2>1, <2>2 DEF Behind
<1>6. cutOff' = cutOff \cup {i \in 1 .. Len(events) :
                 ledgerOf[i] = ledgerOf[polls[k].last] /\ i > polls[k].last}
  BY DEF Save, LastLedger
<1>7. LogInv
  BY DEF SyncInv
<1>8. ASSUME NEW i \in 1 .. Len(events), i <= polls[k].last PROVE i \in Behind'
  BY <1>2, <1>5, <1>7, <1>8, LedgerOrder
<1>9. ASSUME NEW i \in 1 .. Len(events), i \in Behind', i > polls[k].last
      PROVE  ledgerOf[i] = ledgerOf[polls[k].last]
  <2>1. ledgerOf[polls[k].last] <= ledgerOf[i] /\ ledgerOf[i] \in Nat
    BY <1>2, <1>7, <1>9, LedgerOrder
  <2>2. QED
    BY <1>3, <1>5, <1>9, <2>1
<1>10. \A i \in Behind' : i > polls[k].last => i \in cutOff' /\ ledgerOf[i] = ledgerOf[polls[k].last]
  BY <1>5, <1>6, <1>9
<1>11. \A i \in cutOff' : i \in cutOff \/ (i \in Behind' /\ i > polls[k].last)
  BY <1>3, <1>5, <1>6
<1>12. QED
  BY <1>1, <1>2, <1>4, <1>8, <1>10, <1>11

LEMMA SaveKeepsSync ==
  ASSUME SyncInv, NEW k \in Polls, Save(k)
  PROVE  SyncInv'
<1>1. LogInv'
  BY SaveMoves DEF SyncInv, LogInv, Save, contract
<1>2. Passed \subseteq Passed'
  BY DEF Save, Passed
<1>3. NothingElsePassedOver'
  <2>1. ASSUME NEW i \in Behind' PROVE i \in Passed'
    <3>1. i \in 1 .. Len(events)
      BY DEF Behind, Save, contract
    <3>2. CASE i > polls[k].last
      BY <3>2, SaveMoves DEF Passed
    <3>3. CASE i <= polls[k].last
      BY <1>2, <3>1, <3>3, SaveMoves DEF SyncInv, PollOK
    <3>4. QED
      BY <3>1, <3>2, <3>3, SaveMoves
  <2>2. QED
    BY <2>1 DEF NothingElsePassedOver, Passed
<1>4. ASSUME NEW j \in Polls PROVE PollOK(j)'
  BY <1>2 DEF SyncInv, PollOK, Save, contract
<1>5. polls' \in [Polls -> [at : Nat, last : Nat]]
  BY DEF SyncInv, Save, Idle
<1>6. QED
  BY <1>1, <1>3, <1>4, <1>5 DEF SyncInv

LEMMA StopKeepsSync ==
  ASSUME SyncInv, NEW k \in Polls, Stop(k)
  PROVE  SyncInv'
<1>1. LogInv' /\ NothingElsePassedOver'
  BY DEF SyncInv, LogInv, Stop, contract, history, NothingElsePassedOver, Behind
<1>2. ASSUME NEW j \in Polls PROVE PollOK(j)'
  BY DEF SyncInv, PollOK, Stop, contract, history, Passed
<1>3. polls' \in [Polls -> [at : Nat, last : Nat]]
  BY DEF SyncInv, Stop, Idle
<1>4. QED
  BY <1>1, <1>2, <1>3 DEF SyncInv

LEMMA ListenerKeepsSync ==
  ASSUME SyncInv, Next
  PROVE  SyncInv'
<1>1. CASE Invoke
  BY <1>1, InvokeSteps, ChainKeepsSync DEF Invoke, SyncInv
<1>2. CASE CloseLedger
  BY <1>2, CloseKeepsSync
<1>3. ASSUME NEW k \in Polls, PollStep(k) \/ HandlerFails(k) \/ Stop(k)
      PROVE  SyncInv'
  <2>1. CASE FirstPoll(k)
    BY <2>1, FirstPollKeepsSync
  <2>2. CASE Poll(k)
    BY <2>2, PollKeepsSync
  <2>3. CASE Handle(k)
    BY <2>3, StepKeepsSync DEF Handle, Passed
  <2>4. CASE Save(k)
    BY <2>4, SaveKeepsSync
  <2>5. CASE HandlerFails(k)
    BY <2>5, StepKeepsSync DEF HandlerFails, Passed
  <2>6. CASE Stop(k)
    BY <2>6, StopKeepsSync
  <2>7. QED
    BY <1>3, <2>1, <2>2, <2>3, <2>4, <2>5, <2>6 DEF PollStep
<1>4. QED
  BY <1>1, <1>2, <1>3 DEF Next

----------------------------------------------------------------------------
(* The requests.  One whose transaction is in the ledger knows the event   *)
(* that says so.                                                           *)

Says(i, id, column) == events[i].topic = id /\ events[i].symbol = Topic(column)

Rewriting ==
  [pc : {"polling", "done"}, tx : {"pending", "success", "failed"}, id : Ids,
   column : {"price", "wallet"}, value : Prices \cup Accounts,
   signed : Prices \cup Accounts, event : Nat]

Delisting == [pc : {"done"}, tx : {"pending"}, id : Ids, column : {"listed"}]

TaskType == Rewriting \cup Delisting \cup {NoTask, Done}

TaskOK(task) ==
  /\ task \in Rewriting => task.value \in Values(task.column) /\ task.signed \in Values(task.column)
  /\ task.tx = "success" =>
       /\ task.event \in 1 .. Len(events)
       /\ Says(task.event, task.id, task.column)
       /\ events[task.event].data = task.signed

TasksInv ==
  /\ tasks \in [Tasks -> TaskType]
  /\ \A t \in Tasks : TaskOK(tasks[t])

LEMMA TasksInit == OwnerInit => TasksInv
  BY DEF OwnerInit, TasksInv, TaskType, TaskOK, NoTask, Rewriting

LEMMA LandSteps ==
  ASSUME LogInv, TasksInv, NEW t \in Tasks, Land(t)
  PROVE  /\ tasks[t] \in Rewriting \cup Delisting
         /\ \E e \in Chain!EventType :
              /\ Changes(tasks[t].id, e)
              /\ e.topic = tasks[t].id /\ e.symbol = Topic(tasks[t].column)
              /\ tasks[t] \in Rewriting => e.data = tasks[t].signed
<1> DEFINE task == tasks[t]
           id == task.id
<1>1. task \in Rewriting \cup Delisting
  BY DEF Land, TasksInv, TaskType, NoTask, Done
<1>2. id \in Ids /\ ledgerOf' = Append(ledgerOf, height) /\ Executes(task)
  BY <1>1 DEF Land, Rewriting, Delisting
<1>3. CASE task \in Rewriting /\ task.column = "price"
  <2>1. PICK signer \in Accounts : Chain!SetPrice(signer, id, task.signed)
    BY <1>2, <1>3 DEF Executes
  <2>2. task.signed \in Prices
    BY <1>3 DEF TasksInv, TaskOK, Values
  <2>3. Changes(id, Chain!Event("setprice", id, task.signed))
    BY <1>2, <2>1, <2>2, PriceStep
  <2>4. QED
    BY <1>1, <1>3, <2>3 DEF Changes, Logged, Chain!Event, Topic
<1>4. CASE task \in Rewriting /\ task.column = "wallet"
  <2>1. PICK signer \in Accounts : Chain!TransferOwnership(signer, id, task.signed)
    BY <1>2, <1>4 DEF Executes
  <2>2. task.signed \in Accounts
    BY <1>4 DEF TasksInv, TaskOK, Values
  <2>3. Changes(id, Chain!Event("transfer", id, task.signed))
    BY <1>2, <2>1, <2>2, TransferStep
  <2>4. QED
    BY <1>1, <1>4, <2>3 DEF Changes, Logged, Chain!Event, Topic
<1>5. CASE task \in Delisting
  <2>1. task.column = "listed" /\ task \notin Rewriting
    BY <1>5 DEF Delisting, Rewriting
  <2>2. Chain!SetListed(Platform, id, FALSE)
    BY <1>2, <2>1 DEF Executes
  <2>3. Changes(id, Chain!Event("setlisted", id, FALSE))
    BY <1>2, <2>2, ListingStep
  <2>4. QED
    BY <1>1, <2>1, <2>3 DEF Changes, Logged, Chain!Event, Topic
<1>6. QED
  BY <1>1, <1>3, <1>4, <1>5 DEF Rewriting

(* What a step of the server does to the log and the listener: a step of   *)
(* the listener, a transaction, or nothing.                                *)
Transacts == ChainSteps /\ UNCHANGED <<height, rows, cursor, polls, history>>

LEMMA LandTransacts ==
  ASSUME LogInv, TasksInv, NEW t \in Tasks, Land(t)
  PROVE  Transacts
<1>1. PICK e \in Chain!EventType : Changes(tasks[t].id, e)
  BY LandSteps
<1>2. tasks[t].id \in Ids
  BY LandSteps DEF Rewriting, Delisting
<1>3. QED
  BY <1>1, <1>2 DEF ChainSteps, Transacts, Land

LEMMA InvokeTransacts ==
  ASSUME LogInv, Invoke
  PROVE  Transacts
  BY InvokeSteps DEF Transacts, Invoke

(* The listener beside the requests is the listener. *)
LEMMA ListenerIsNext == Listener => Next
  BY DEF Listener, Transact, Listen, Others, Next, PollStep

LEMMA ListenerLog ==
  ASSUME LogInv, Next
  PROVE  Transacts \/ UNCHANGED <<contract, ledgerOf>>
  BY InvokeTransacts DEF Next, CloseLedger, PollStep, FirstPoll, Poll, Handle, Save,
    HandlerFails, Stop

LEMMA OwnerLog ==
  ASSUME LogInv, TasksInv, [OwnerNext]_ownerVars
  PROVE  Transacts \/ UNCHANGED <<contract, ledgerOf>>
<1>1. CASE Listener
  BY <1>1, ListenerIsNext, ListenerLog
<1>2. CASE \E t \in Tasks : Land(t)
  BY <1>2, LandTransacts
<1>3. QED
  BY <1>1, <1>2 DEF OwnerNext, PostChange, Fail, Confirm, GiveUp, Delete, Judge, MarkRegistered,
    Audit, StartAudit, CheckRow, CountEntries, CheckListing, vars, ownerVars

LEMMA OldEventsStay ==
  ASSUME LogInv, Transacts \/ UNCHANGED <<contract, ledgerOf>>
  PROVE  /\ Len(events) \in Nat /\ Len(events') \in Nat
         /\ Len(events) <= Len(events')
         /\ \A i \in 1 .. Len(events) : events'[i] = events[i]
<1>1. CASE Transacts
  BY <1>1, LogGrows DEF Transacts
<1>2. CASE UNCHANGED <<contract, ledgerOf>>
  BY <1>2 DEF LogInv, contract
<1>3. QED
  BY <1>1, <1>2

LEMMA TasksKept ==
  ASSUME LogInv, TasksInv, [OwnerNext]_ownerVars
  PROVE  TasksInv'
<1>1. /\ Len(events) \in Nat /\ Len(events') \in Nat /\ Len(events) <= Len(events')
      /\ \A i \in 1 .. Len(events) : events'[i] = events[i]
  BY OwnerLog, OldEventsStay
<1>2. ASSUME NEW task, TaskOK(task) PROVE TaskOK(task)'
  BY <1>1, <1>2 DEF TaskOK, Says
<1> DEFINE Goes(t, new) ==
      tasks' = [tasks EXCEPT ![t] = new] /\ new \in TaskType /\ TaskOK(new)'
<1>3. ASSUME NEW t \in Tasks, NEW new, Goes(t, new) PROVE TasksInv'
  <2>1. tasks' \in [Tasks -> TaskType]
    BY <1>3 DEF TasksInv
  <2>2. ASSUME NEW s \in Tasks PROVE TaskOK(tasks[s])'
    BY <1>2, <1>3 DEF TasksInv, TaskOK, Says
  <2>3. QED
    BY <2>1, <2>2 DEF TasksInv
<1>4. TaskOK(NoTask)' /\ TaskOK(Done)' /\ {NoTask, Done} \subseteq TaskType
  BY DEF TaskOK, NoTask, Done, TaskType, Rewriting
<1>5. ASSUME tasks' = tasks PROVE TasksInv'
  BY <1>2, <1>5 DEF TasksInv
<1>6. ASSUME NEW t \in Tasks, PostChange(t) PROVE TasksInv'
  <2>1. PICK id \in Ids, column \in {"price", "wallet"} :
          \E value, signed \in Values(column) :
            tasks' = [tasks EXCEPT ![t] =
              [pc |-> "polling", tx |-> "pending", id |-> id, column |-> column,
               value |-> value, signed |-> signed, event |-> 0]]
    BY <1>6 DEF PostChange
  <2>2. PICK value \in Values(column), signed \in Values(column) :
            tasks' = [tasks EXCEPT ![t] =
              [pc |-> "polling", tx |-> "pending", id |-> id, column |-> column,
               value |-> value, signed |-> signed, event |-> 0]]
    BY <2>1
  <2> DEFINE new == [pc |-> "polling", tx |-> "pending", id |-> id, column |-> column,
                     value |-> value, signed |-> signed, event |-> 0]
  <2>3. new \in Rewriting
    BY DEF Rewriting, Values
  <2>4. TaskOK(new)'
    BY DEF TaskOK
  <2>5. QED
    BY <1>3, <2>2, <2>3, <2>4 DEF TaskType
<1>7. ASSUME NEW t \in Tasks, Land(t) PROVE TasksInv'
  <2> DEFINE task == tasks[t]
  <2>1. PICK e \in Chain!EventType :
          /\ Changes(task.id, e)
          /\ e.topic = task.id /\ e.symbol = Topic(task.column)
          /\ task \in Rewriting => e.data = task.signed
    BY <1>7, LandSteps
  <2>2. task \in Rewriting \cup Delisting
    BY <1>7, LandSteps
  <2>3. CASE task.pc = "done"
    BY <1>3, <1>4, <1>7, <2>3 DEF Land, TaskType
  <2>4. CASE task.pc # "done"
    <3> PICK new : new = [task EXCEPT !.tx = "success", !.event = Len(events')]
      OBVIOUS
    <3>1. task \in Rewriting
      BY <2>2, <2>4 DEF Delisting
    <3>2. new \in Rewriting
      BY <1>1, <3>1 DEF Rewriting
    <3>3. tasks' = [tasks EXCEPT ![t] = new]
      BY <1>7, <2>4 DEF Land
    <3>4. Len(events') = Len(events) + 1 /\ events'[Len(events')] = e
      BY <2>1 DEF Changes, Logged, LogInv
    <3>5. /\ new.event = Len(events') /\ new.id = task.id /\ new.column = task.column
          /\ new.signed = task.signed /\ new.value = task.value
      BY <3>1 DEF Rewriting
    <3>6. task.value \in Values(task.column) /\ task.signed \in Values(task.column)
      BY <3>1 DEF TasksInv, TaskOK
    <3>7. TaskOK(new)'
      BY <1>1, <2>1, <3>1, <3>4, <3>5, <3>6 DEF TaskOK, Says
    <3>8. QED
      BY <1>3, <3>2, <3>3, <3>7 DEF TaskType
  <2>5. QED
    BY <2>3, <2>4
<1>8. ASSUME NEW t \in Tasks, Fail(t) PROVE TasksInv'
  <2> DEFINE task == tasks[t]
  <2> PICK new : new = [task EXCEPT !.tx = "failed"]
    OBVIOUS
  <2>1. task \in Rewriting \cup Delisting
    BY <1>8 DEF Fail, TasksInv, TaskType, NoTask, Done
  <2>2. CASE task.pc = "done"
    BY <1>3, <1>4, <1>8, <2>2 DEF Fail, TaskType
  <2>3. CASE task.pc # "done"
    <3>1. task \in Rewriting
      BY <2>1, <2>3 DEF Delisting
    <3>2. new \in Rewriting /\ new.tx = "failed"
      BY <3>1 DEF Rewriting
    <3>3. TaskOK(new)'
      BY <3>1, <3>2 DEF TaskOK, TasksInv, Rewriting
    <3>4. QED
      BY <1>3, <1>8, <2>3, <3>2, <3>3 DEF TaskType, Fail
  <2>4. QED
    BY <2>2, <2>3
<1>9. ASSUME NEW t \in Tasks, Confirm(t) PROVE TasksInv'
  BY <1>3, <1>4, <1>9 DEF Confirm, TaskType
<1>10. ASSUME NEW t \in Tasks, GiveUp(t) PROVE TasksInv'
  <2> DEFINE task == tasks[t]
  <2> PICK new : new = [task EXCEPT !.pc = "done"]
    OBVIOUS
  <2>1. task \in Rewriting
    BY <1>10 DEF GiveUp, TasksInv, TaskType, NoTask, Done, Delisting
  <2>2. CASE task.tx = "pending"
    <3>1. new \in Rewriting /\ new.tx = "pending"
      BY <2>1, <2>2 DEF Rewriting
    <3>2. TaskOK(new)'
      BY <2>1, <3>1 DEF TaskOK, TasksInv, Rewriting
    <3>3. QED
      BY <1>3, <1>10, <2>2, <3>1, <3>2 DEF TaskType, GiveUp
  <2>3. CASE task.tx # "pending"
    BY <1>3, <1>4, <1>10, <2>3 DEF GiveUp, TaskType
  <2>4. QED
    BY <2>2, <2>3
<1>11. ASSUME NEW t \in Tasks, Delete(t) PROVE TasksInv'
  <2>1. PICK id \in Ids :
          tasks' = [tasks EXCEPT ![t] =
            IF id \in marked
              THEN [pc |-> "done", tx |-> "pending", id |-> id, column |-> "listed"]
              ELSE Done]
    BY <1>11 DEF Delete
  <2> DEFINE new == [pc |-> "done", tx |-> "pending", id |-> id, column |-> "listed"]
  <2>2. new \in Delisting /\ new \notin Rewriting /\ new.tx # "success"
    BY DEF Delisting, Rewriting
  <2>3. TaskOK(new)'
    BY <2>2 DEF TaskOK
  <2>4. QED
    BY <1>3, <1>4, <2>1, <2>2, <2>3 DEF TaskType
<1>12. ASSUME NEW id \in Ids, MarkRegistered(id) \/ Judge(id) PROVE TasksInv'
  BY <1>5, <1>12 DEF MarkRegistered, Judge, contract
<1>13. CASE Audit
  BY <1>5, <1>13 DEF Audit, StartAudit, CheckRow, CountEntries, CheckListing
<1>14. CASE Listener
  BY <1>5, <1>14 DEF Listener
<1>15. CASE UNCHANGED ownerVars
  BY <1>5, <1>15 DEF ownerVars
<1>16. QED
  BY <1>6, <1>7, <1>8, <1>9, <1>10, <1>11, <1>12, <1>13, <1>14, <1>15 DEF OwnerNext

LEMMA OwnerKeepsSync ==
  ASSUME SyncInv, TasksInv, [OwnerNext]_ownerVars
  PROVE  SyncInv'
<1>1. CASE Listener
  BY <1>1, ListenerIsNext, ListenerKeepsSync
<1>2. CASE \E t \in Tasks : Land(t)
  BY <1>2, LandTransacts, ChainKeepsSync DEF SyncInv, Transacts
<1>3. CASE UNCHANGED <<contract, ledgerOf, height, cursor, polls, history>>
  BY <1>3, RestKeepsSync
<1>4. QED
  BY <1>1, <1>2, <1>3 DEF OwnerNext, PostChange, Fail, Confirm, GiveUp, Delete, Judge,
    MarkRegistered, Audit, StartAudit, CheckRow, CountEntries, CheckListing, vars, ownerVars

(* The cursor passes an event only when it was handled, when its handler   *)
(* failed, or when a full page ended inside its ledger: for any number of  *)
(* overlapping polls, page limit, failures and restarts (pollEvents and    *)
(* saveLastLedger in eventListener.ts).                                    *)
THEOREM NothingPassedOver == Spec => []NothingElsePassedOver
<1>1. SyncInv /\ [Next]_vars => SyncInv'
  BY ListenerKeepsSync, RestKeepsSync DEF vars
<1>2. SyncInv => NothingElsePassedOver
  BY DEF SyncInv
<1>3. QED
  BY SyncInit, <1>1, <1>2, PTL DEF Spec

LEMMA OwnerSyncInductive == OwnerSpec => [](SyncInv /\ TasksInv)
<1>1. OwnerInit => SyncInv /\ TasksInv
  BY SyncInit, TasksInit DEF OwnerInit
<1>2. SyncInv /\ TasksInv /\ [OwnerNext]_ownerVars => SyncInv' /\ TasksInv'
  BY OwnerKeepsSync, TasksKept DEF SyncInv
<1>3. QED
  BY <1>1, <1>2, PTL DEF OwnerSpec

(* The same beside the routes that change rows and chain, and the audit.   *)
THEOREM NothingPassedOverBeside == OwnerSpec => []NothingElsePassedOver
<1>1. SyncInv => NothingElsePassedOver
  BY DEF SyncInv
<1>2. QED
  BY OwnerSyncInductive, <1>1, PTL

----------------------------------------------------------------------------
(* While polls do not overlap, what a full page has cut off is never       *)
(* handled later: every event handled so far lies within a page's length   *)
(* of the first one the cursor has not passed.                             *)

Ahead == (1 .. Len(events)) \ Behind

OnePoll(k) ==
  polls[k] # Idle =>
    /\ \A j \in Polls : polls[j] # Idle => j = k
    /\ \A i \in 1 .. polls[k].last : i >= polls[k].at => i \notin Behind
    /\ polls[k].last \notin Behind
    /\ \A f \in Ahead : polls[k].last < f + PageLimit
    /\ \A i \in 1 .. Len(events) :
         i > polls[k].last /\ ledgerOf[i] = ledgerOf[polls[k].last]
           => \E f \in Ahead : i >= f + PageLimit

CutInv ==
  ~overlapped =>
    /\ \A k \in Polls : OnePoll(k)
    /\ cutOff \subseteq Behind \ handled
    /\ handled \subseteq 1 .. Len(events)
    /\ \A i \in handled, f \in Ahead : i < f + PageLimit

LEMMA CutInit == Init => CutInv
  BY DEF Init, CutInv, OnePoll

LEMMA TransactKeepsCut ==
  ASSUME SyncInv, CutInv, Transacts
  PROVE  CutInv'
<1>1. /\ Len(events) \in Nat /\ Len(events') = Len(events) + 1
      /\ \A i \in 1 .. Len(events) : ledgerOf'[i] = ledgerOf[i]
      /\ ledgerOf'[Len(events) + 1] = height
  BY LogGrows DEF SyncInv, Transacts
<1>2. Behind' = Behind /\ Behind \subseteq 1 .. Len(events)
  BY LogInvGrows DEF SyncInv, Transacts, Behind
<1>3. \A f : f \in Ahead' <=> f \in Ahead \/ f = Len(events) + 1
  BY <1>1, <1>2 DEF Ahead
<1>4. /\ cutOff' = cutOff /\ handled' = handled /\ polls' = polls /\ overlapped' = overlapped
      /\ height' = height
  BY DEF Transacts, history
<1>5. SUFFICES ASSUME ~overlapped PROVE CutInv'
  BY <1>4 DEF CutInv
<1>6. ASSUME NEW k \in Polls PROVE OnePoll(k)'
  <2>1. SUFFICES ASSUME polls[k] # Idle PROVE OnePoll(k)'
    BY <1>4 DEF OnePoll
  <2>2. OnePoll(k) /\ polls[k].last \in 1 .. Len(events) /\ ledgerOf[polls[k].last] < height
    BY <1>5, <2>1 DEF CutInv, SyncInv, PollOK
  <2>3. ASSUME NEW f \in Ahead' PROVE polls[k].last < f + PageLimit
    BY <1>1, <1>3, <2>1, <2>2, EventSyncAssumption DEF OnePoll
  <2>4. ASSUME NEW i \in 1 .. Len(events'), i > polls[k].last,
               ledgerOf'[i] = ledgerOf'[polls[k].last]
        PROVE  \E f \in Ahead' : i >= f + PageLimit
    <3>1. ledgerOf'[polls[k].last] = ledgerOf[polls[k].last] /\ height \in Nat
      BY <1>1, <2>2 DEF SyncInv, LogInv
    <3>2. ledgerOf[polls[k].last] \in Nat
      BY <2>2 DEF SyncInv, LogInv
    <3>3. i \in 1 .. Len(events) /\ ledgerOf[i] = ledgerOf[polls[k].last]
      BY <1>1, <2>2, <2>4, <3>1, <3>2
    <3>4. \E f \in Ahead : i >= f + PageLimit
      BY <2>1, <2>2, <2>4, <3>3 DEF OnePoll
    <3>5. QED
      BY <1>3, <3>4
  <2>5. QED
    BY <1>2, <1>4, <2>1, <2>2, <2>3, <2>4 DEF OnePoll
<1>7. \A i \in handled, f \in Ahead' : i < f + PageLimit
  BY <1>1, <1>3, <1>5, EventSyncAssumption DEF CutInv
<1>8. handled \subseteq 1 .. Len(events')
  BY <1>1, <1>5 DEF CutInv
<1>9. QED
  BY <1>2, <1>4, <1>5, <1>6, <1>7, <1>8 DEF CutInv

(* Steps that leave the polls, the log and what is behind as they were.    *)
LEMMA SameKeepsCut ==
  ASSUME CutInv, UNCHANGED <<events, ledgerOf, polls, handled, cutOff, overlapped>>,
         Behind' = Behind
  PROVE  CutInv'
<1>1. Ahead' = Ahead
  BY DEF Ahead
<1>2. \A k \in Polls : OnePoll(k) => OnePoll(k)'
  BY <1>1 DEF OnePoll
<1>3. QED
  BY <1>1, <1>2 DEF CutInv

LEMMA PollKeepsCut ==
  ASSUME SyncInv, CutInv, NEW k \in Polls, Poll(k)
  PROVE  CutInv'
<1>1. PICK first, last \in Available :
        IsPage(first, last) /\ polls' = [polls EXCEPT ![k] = [at |-> first, last |-> last]]
  BY DEF Poll
<1>2. /\ first \in 1 .. last /\ last \in 1 .. Len(events) /\ ledgerOf[last] < height
      /\ \A i \in 1 .. last : i < first <=> i \in Behind
  BY <1>1, PollStarts
<1>3. UNCHANGED <<events, ledgerOf, handled, cutOff>> /\ Behind' = Behind /\ Ahead' = Ahead
  BY DEF Poll, contract, Behind, Ahead
<1>4. SUFFICES ASSUME ~overlapped' PROVE CutInv'
  BY DEF CutInv
<1>5. ~overlapped /\ \A j \in Polls : polls[j] = Idle
  BY <1>4 DEF Poll
<1>6. first \in Ahead /\ Len(events) \in Nat /\ LogInv
  BY <1>2 DEF Ahead, SyncInv, LogInv
<1>7. ASSUME NEW f \in Ahead PROVE last < f + PageLimit
  <2>1. first <= f /\ f \in Nat
    BY <1>2, <1>6 DEF Ahead
  <2>2. last < first + PageLimit
    BY <1>1 DEF IsPage
  <2>3. QED
    BY <1>2, <2>1, <2>2, EventSyncAssumption
<1>8. ASSUME NEW i \in 1 .. Len(events), i > last, ledgerOf[i] = ledgerOf[last]
      PROVE  i >= first + PageLimit
  <2>1. last + 1 \in 1 .. Len(events) /\ last + 1 <= i /\ last <= last + 1
    BY <1>2, <1>6, <1>8
  <2>2. ledgerOf[last] <= ledgerOf[last + 1]
    BY <1>2, <1>6, <2>1, LedgerOrder
  <2>3. /\ ledgerOf[last + 1] <= ledgerOf[i]
        /\ ledgerOf[last] \in Nat /\ ledgerOf[last + 1] \in Nat
    BY <1>2, <1>6, <2>1, LedgerOrder
  <2>4. ledgerOf[last + 1] = ledgerOf[last]
    BY <1>8, <2>2, <2>3
  <2>5. last + 1 \in Available
    BY <1>1, <2>1, <2>4 DEF Available
  <2>6. QED
    BY <1>1, <2>1, <2>5 DEF IsPage
<1>9. ASSUME NEW j \in Polls PROVE OnePoll(j)'
  <2>1. CASE j = k
    <3>1. polls'[k] = [at |-> first, last |-> last] /\ \A m \in Polls : m # k => polls'[m] = Idle
      BY <1>1, <1>5 DEF SyncInv
    <3>2. \A i \in 1 .. last : i >= first => i \notin Behind
      BY <1>2
    <3>3. last \notin Behind
      BY <1>2
    <3>4. QED
      BY <1>3, <1>6, <1>7, <1>8, <2>1, <3>1, <3>2, <3>3 DEF OnePoll
  <2>2. CASE j # k
    BY <1>1, <1>5, <2>2 DEF OnePoll, SyncInv
  <2>3. QED
    BY <2>1, <2>2
<1>10. QED
  BY <1>3, <1>5, <1>9 DEF CutInv

LEMMA StepKeepsCut ==
  ASSUME SyncInv, CutInv, NEW k \in Polls, Handling(k), Step(k),
         UNCHANGED <<contract, ledgerOf, height, cursor, cutOff, overlapped>>,
         handled' \subseteq handled \cup {Current(k)}
  PROVE  CutInv'
<1>1. polls[k] # Idle /\ polls[k] \in [at : Nat, last : Nat]
  BY DEF Handling, Idle, SyncInv
<1>2. UNCHANGED <<events, ledgerOf>> /\ Behind' = Behind /\ Ahead' = Ahead
  BY DEF contract, Behind, Ahead
<1>3. SUFFICES ASSUME ~overlapped PROVE CutInv'
  BY DEF CutInv
<1>4. OnePoll(k) /\ polls[k].last \in 1 .. Len(events) /\ Current(k) \in 1 .. polls[k].last
  BY <1>1, <1>3 DEF CutInv, SyncInv, PollOK, Handling, Current
<1>5. Current(k) \notin Behind /\ \A f \in Ahead : Current(k) < f + PageLimit
  BY <1>1, <1>4, EventSyncAssumption DEF OnePoll, Current, Ahead
<1>6. polls'[k] = [polls[k] EXCEPT !.at = @ + 1] /\ \A j \in Polls : j # k => polls'[j] = polls[j]
  BY DEF Step, SyncInv
<1>7. ASSUME NEW j \in Polls PROVE OnePoll(j)'
  <2>1. CASE j = k
    <3>1. polls'[k].last = polls[k].last /\ polls'[k].at = polls[k].at + 1
      BY <1>1, <1>6
    <3>2. \A m \in Polls : polls'[m] # Idle => m = k
      BY <1>1, <1>4, <1>6 DEF OnePoll
    <3>3. \A i \in 1 .. polls[k].last : i >= polls[k].at + 1 => i >= polls[k].at
      BY <1>1
    <3>4. QED
      BY <1>1, <1>2, <1>4, <2>1, <3>1, <3>2, <3>3 DEF OnePoll
  <2>2. CASE j # k
    BY <1>1, <1>4, <1>6, <2>2 DEF OnePoll
  <2>3. QED
    BY <2>1, <2>2
<1>8. cutOff \subseteq Behind \ handled' /\ handled' \subseteq 1 .. Len(events)
  BY <1>3, <1>4, <1>5 DEF CutInv
<1>9. \A i \in handled', f \in Ahead : i < f + PageLimit
  BY <1>3, <1>5 DEF CutInv
<1>10. QED
  BY <1>2, <1>7, <1>8, <1>9 DEF CutInv

LEMMA SaveKeepsCut ==
  ASSUME SyncInv, CutInv, NEW k \in Polls, Save(k)
  PROVE  CutInv' /\ (~overlapped => Behind \subseteq Behind')
<1>1. UNCHANGED <<events, ledgerOf, handled, overlapped>>
  BY DEF Save, contract
<1>2. SUFFICES ASSUME ~overlapped PROVE CutInv' /\ Behind \subseteq Behind'
  BY <1>1 DEF CutInv
<1>3. polls[k] # Idle /\ polls[k].last \in 1 .. Len(events)
  BY SaveMoves
<1>4. OnePoll(k)
  BY <1>2 DEF CutInv
<1>5. Behind \subseteq Behind'
  <2>1. cursor' = ledgerOf[polls[k].last] + 1
    BY SaveMoves
  <2>2. ledgerOf[polls[k].last] >= cursor
    BY <1>3, <1>4 DEF OnePoll, Behind, SyncInv, LogInv
  <2>3. QED
    BY <1>1, <1>3, <2>1, <2>2 DEF Behind, SyncInv, LogInv
<1>6. \A j \in Polls : polls'[j] = Idle
  BY <1>3, <1>4 DEF OnePoll, Save, SyncInv
<1>7. ASSUME NEW i \in cutOff' PROVE i \in Behind' \ handled
  <2>1. CASE i \in cutOff
    BY <1>2, <1>5, <2>1 DEF CutInv
  <2>2. CASE i \in Behind' /\ i > polls[k].last
    <3>1. ledgerOf[i] = ledgerOf[polls[k].last] /\ i \in 1 .. Len(events)
      BY <1>1, <2>2, SaveMoves DEF Behind
    <3>2. PICK f \in Ahead : i >= f + PageLimit
      BY <1>3, <1>4, <2>2, <3>1 DEF OnePoll
    <3>3. i \in handled => i < f + PageLimit
      BY <1>2 DEF CutInv
    <3>4. QED
      BY <2>2, <3>1, <3>2, <3>3, EventSyncAssumption DEF Ahead
  <2>3. QED
    BY <2>1, <2>2, SaveMoves
<1>8. Ahead' \subseteq Ahead
  BY <1>1, <1>5 DEF Ahead
<1>9. QED
  BY <1>1, <1>2, <1>5, <1>6, <1>7, <1>8 DEF CutInv, OnePoll

LEMMA StopKeepsCut ==
  ASSUME SyncInv, CutInv, NEW k \in Polls, Stop(k)
  PROVE  CutInv'
<1>1. UNCHANGED <<events, ledgerOf, handled, cutOff, overlapped>> /\ Behind' = Behind
  BY DEF Stop, contract, history, Behind
<1>2. Ahead' = Ahead
  BY <1>1 DEF Ahead
<1>3. \A j \in Polls : polls'[j] = IF j = k THEN Idle ELSE polls[j]
  BY DEF Stop, SyncInv
<1>4. \A j \in Polls : OnePoll(j) => OnePoll(j)'
  BY <1>1, <1>2, <1>3 DEF OnePoll
<1>5. QED
  BY <1>1, <1>2, <1>4 DEF CutInv

LEMMA ListenerKeepsCut ==
  ASSUME SyncInv, CutInv, Next
  PROVE  CutInv'
<1>1. CASE Invoke
  BY <1>1, InvokeTransacts, TransactKeepsCut DEF SyncInv
<1>2. CASE CloseLedger
  BY <1>2, SameKeepsCut DEF CloseLedger, contract, history, Behind
<1>3. ASSUME NEW k \in Polls, PollStep(k) \/ HandlerFails(k) \/ Stop(k)
      PROVE  CutInv'
  <2>1. CASE FirstPoll(k)
    BY <2>1, FirstPollKeepsSync, SameKeepsCut DEF FirstPoll, contract, history
  <2>2. CASE Poll(k)
    BY <2>2, PollKeepsCut
  <2>3. CASE Handle(k)
    BY <2>3, StepKeepsCut DEF Handle
  <2>4. CASE Save(k)
    BY <2>4, SaveKeepsCut
  <2>5. CASE HandlerFails(k)
    BY <2>5, StepKeepsCut DEF HandlerFails
  <2>6. CASE Stop(k)
    BY <2>6, StopKeepsCut
  <2>7. QED
    BY <1>3, <2>1, <2>2, <2>3, <2>4, <2>5, <2>6 DEF PollStep
<1>4. QED
  BY <1>1, <1>2, <1>3 DEF Next

LEMMA OwnerKeepsCut ==
  ASSUME SyncInv, TasksInv, CutInv, [OwnerNext]_ownerVars
  PROVE  CutInv'
<1>1. CASE Listener
  BY <1>1, ListenerIsNext, ListenerKeepsCut
<1>2. CASE \E t \in Tasks : Land(t)
  BY <1>2, LandTransacts, TransactKeepsCut DEF SyncInv
<1>3. CASE UNCHANGED <<contract, ledgerOf, height, cursor, polls, history>>
  BY <1>3, SameKeepsCut DEF contract, history, Behind
<1>4. QED
  BY <1>1, <1>2, <1>3 DEF OwnerNext, PostChange, Fail, Confirm, GiveUp, Delete, Judge,
    MarkRegistered, Audit, StartAudit, CheckRow, CountEntries, CheckListing, vars, ownerVars

----------------------------------------------------------------------------
(* What the log says of a column of a row: the first value, or the data of *)
(* an event about it.                                                      *)

InRow(id, column) ==
  IF column = "price" THEN rows[id].price
  ELSE IF column = "wallet" THEN rows[id].wallet ELSE rows[id].listed

Said(j, id, column) == IF j = 0 THEN First(id, column) ELSE events[j].data

Among(j, id, column) == j = 0 \/ (j \in 1 .. Len(events) /\ Says(j, id, column))

(* The contract holds what the last event about a column says; before any, *)
(* what the row began with, unless the entry was registered otherwise.     *)
HoldsLast(id, column) ==
  \E j \in 0 .. Len(events) :
    /\ Among(j, id, column)
    /\ OnChain(id, column) = Said(j, id, column) \/ (j = 0 /\ <<id, column>> \in stray)
    /\ \A i \in 1 .. Len(events) : Says(i, id, column) => i <= j

ChainInv ==
  \A id \in Ids :
    /\ ~Chain!Exists(id) => \A i \in 1 .. Len(events) : events[i].topic # id
    /\ Chain!Exists(id) => \A column \in Columns : HoldsLast(id, column)

(* A column stops being stray only when there is an event about it.        *)
StrayKept ==
  \A id \in Ids, column \in Columns :
    <<id, column>> \in stray =>
      <<id, column>> \in stray' \/ \E i \in 1 .. Len(events) : Says(i, id, column)

Marks == \A id \in Ids, column \in Columns : Differs(id, column) => <<id, column>> \in stray'

LEMMA ChainInit == Init => ChainInv
  BY DEF Init, ChainInv, Chain!Init, Chain!Exists

(* What an old event says does not change as the log grows. *)
LEMMA SaidStays ==
  ASSUME NEW id, NEW column, NEW j \in Int, Among(j, id, column),
         Len(events) \in Nat, Len(events') \in Nat, Len(events) <= Len(events'),
         \A i \in 1 .. Len(events) : events'[i] = events[i]
  PROVE  /\ Among(j, id, column)' /\ Said(j, id, column)' = Said(j, id, column)
         /\ j \in 0 .. Len(events')
         /\ \A i \in 1 .. Len(events) : Says(i, id, column)' <=> Says(i, id, column)
<1>1. ASSUME NEW i \in 1 .. Len(events) PROVE Says(i, id, column)' <=> Says(i, id, column)
  <2>1. events'[i] = events[i]
    OBVIOUS
  <2>2. QED
    BY <2>1 DEF Says, Topic
<1>2. CASE j = 0
  BY <1>1, <1>2 DEF Among, Said, First
<1>3. CASE j # 0
  <2>1. j \in 1 .. Len(events) /\ Says(j, id, column)
    BY <1>3 DEF Among
  <2>2. QED
    BY <1>1, <1>3, <2>1 DEF Among, Said
<1>4. QED
  BY <1>2, <1>3

LEMMA ColumnChanges ==
  ASSUME LogInv, NEW id0 \in Ids, NEW e \in Chain!EventType, Changes(id0, e),
         NEW id \in Ids, NEW column \in Columns, Chain!Exists(id)
  PROVE  OnChain(id, column)' =
           IF e.topic = id /\ e.symbol = Topic(column) THEN e.data ELSE OnChain(id, column)
<1>1. CASE id = id0
  BY <1>1 DEF Changes, OnChain, Topic, Columns
<1>2. CASE id # id0
  BY <1>2 DEF Changes, Logged, OnChain
<1>3. QED
  BY <1>1, <1>2

LEMMA ChainKept ==
  ASSUME LogInv, ChainInv, ChainSteps, StrayKept, Marks
  PROVE  ChainInv'
<1> PICK n : n = Len(events)
  OBVIOUS
<1>1. PICK id0 \in Ids, e \in Chain!EventType : Registers(id0, e) \/ Changes(id0, e)
  BY DEF ChainSteps
<1>2. /\ n \in Nat /\ Len(events') = n + 1 /\ events'[n + 1] = e
      /\ \A i \in 1 .. n : events'[i] = events[i]
  <2>1. events' = Append(events, e) /\ events \in Seq(Chain!EventType)
    BY <1>1 DEF Registers, Changes, Logged, LogInv
  <2>2. QED
    BY <2>1
<1>3. \A id \in Ids : id # id0 => resources'[id] = resources[id]
  BY <1>1 DEF Registers, Changes, Logged
<1>4. Chain!Exists(id0)'
  BY <1>1, LedgerAssumption DEF Registers, Changes, Logged, Chain!Exists
<1>5. ASSUME NEW id \in Ids, ~Chain!Exists(id)', NEW i \in 1 .. n + 1
      PROVE  events'[i].topic # id
  <2>1. id # id0 /\ ~Chain!Exists(id)
    BY <1>3, <1>4, <1>5 DEF Chain!Exists
  <2>2. e.topic # id
    BY <1>1, <2>1, EventSyncAssumption DEF Registers, Changes
  <2>3. QED
    BY <1>2, <2>1, <2>2 DEF ChainInv
<1>6. ASSUME NEW id \in Ids, Chain!Exists(id), NEW column \in Columns
      PROVE  HoldsLast(id, column)'
  <2>1. PICK j \in 0 .. n :
          /\ Among(j, id, column)
          /\ OnChain(id, column) = Said(j, id, column) \/ (j = 0 /\ <<id, column>> \in stray)
          /\ \A i \in 1 .. n : Says(i, id, column) => i <= j
    BY <1>6 DEF ChainInv, HoldsLast
  <2>2. OnChain(id, column)' =
           IF e.topic = id /\ e.symbol = Topic(column) THEN e.data ELSE OnChain(id, column)
    <3>1. CASE Changes(id0, e)
      BY <1>6, <3>1, ColumnChanges
    <3>2. CASE Registers(id0, e)
      <4>1. id # id0 /\ e.topic # id
        BY <1>6, <3>2, EventSyncAssumption DEF Registers, Chain!Exists
      <4>2. QED
        BY <1>3, <4>1 DEF OnChain
    <3>3. QED
      BY <1>1, <3>1, <3>2
  <2>3. CASE e.topic = id /\ e.symbol = Topic(column)
    <3>1. Among(n + 1, id, column)' /\ Said(n + 1, id, column)' = e.data
      BY <1>2, <2>3 DEF Among, Said, Says, Topic
    <3>2. OnChain(id, column)' = Said(n + 1, id, column)'
      BY <2>2, <2>3, <3>1
    <3>3. n + 1 \in 0 .. Len(events') /\ \A i \in 1 .. Len(events') : i <= n + 1
      BY <1>2
    <3>4. QED
      BY <3>1, <3>2, <3>3 DEF HoldsLast
  <2>4. CASE ~(e.topic = id /\ e.symbol = Topic(column))
    <3>1. Among(j, id, column)' /\ Said(j, id, column)' = Said(j, id, column)
      BY <1>2, <2>1, SaidStays
    <3>2. \A i \in 1 .. n + 1 : Says(i, id, column)' => i <= j
      BY <1>2, <2>1, <2>4 DEF Says, Topic
    <3>3. j = 0 /\ <<id, column>> \in stray => <<id, column>> \in stray'
      BY <2>1 DEF StrayKept
    <3>4. QED
      BY <1>2, <2>1, <2>2, <2>4, <3>1, <3>2, <3>3 DEF HoldsLast
  <2>5. QED
    BY <2>3, <2>4
<1>7. ASSUME NEW id \in Ids, ~Chain!Exists(id), Chain!Exists(id)', NEW column \in Columns
      PROVE  HoldsLast(id, column)'
  <2>1. id = id0 /\ Registers(id0, e)
    BY <1>1, <1>3, <1>7, LedgerAssumption DEF Chain!Exists, Changes
  <2>2. e.topic # id
    BY <2>1, EventSyncAssumption DEF Registers
  <2>3. \A i \in 1 .. n + 1 : ~Says(i, id, column)'
    BY <1>2, <1>7, <2>2 DEF Says, ChainInv
  <2>4. OnChain(id, column)' = Said(0, id, column)' \/ <<id, column>> \in stray'
    BY <1>7 DEF Marks, Differs, Said, First
  <2>5. Among(0, id, column)' /\ 0 \in 0 .. Len(events')
    BY <1>2 DEF Among
  <2>6. QED
    BY <1>2, <2>3, <2>4, <2>5 DEF HoldsLast
<1>8. QED
  BY <1>2, <1>5, <1>6, <1>7 DEF ChainInv

LEMMA ChainStays ==
  ASSUME ChainInv, StrayKept, UNCHANGED <<contract, ledgerOf>>
  PROVE  ChainInv'
<1>1. resources' = resources /\ events' = events
  BY DEF contract
<1>2. ASSUME NEW id \in Ids, NEW column \in Columns, HoldsLast(id, column)
      PROVE  HoldsLast(id, column)'
  <2>1. \A j \in 0 .. Len(events) :
          (Among(j, id, column) => Among(j, id, column)') /\ Said(j, id, column)' = Said(j, id, column)
    BY <1>1 DEF Among, Said, Says, First
  <2>2. OnChain(id, column)' = OnChain(id, column)
    BY <1>1 DEF OnChain
  <2>3. \A i : Says(i, id, column)' <=> Says(i, id, column)
    BY <1>1 DEF Says
  <2>4. PICK j \in 0 .. Len(events) :
          /\ Among(j, id, column)
          /\ OnChain(id, column) = Said(j, id, column) \/ (j = 0 /\ <<id, column>> \in stray)
          /\ \A i \in 1 .. Len(events) : Says(i, id, column) => i <= j
    BY <1>2 DEF HoldsLast
  <2>5. j = 0 /\ <<id, column>> \in stray => <<id, column>> \in stray'
    BY <2>4 DEF StrayKept
  <2>6. QED
    BY <1>1, <2>1, <2>2, <2>3, <2>4, <2>5 DEF HoldsLast
<1>3. \A id \in Ids : Chain!Exists(id)' <=> Chain!Exists(id)
  BY <1>1 DEF Chain!Exists
<1>4. QED
  BY <1>1, <1>2, <1>3 DEF ChainInv

(* A registered resource stays registered. *)
LEMMA ExistsStays ==
  ASSUME LogInv, Transacts \/ UNCHANGED <<contract, ledgerOf>>, NEW id \in Ids, Chain!Exists(id)
  PROVE  Chain!Exists(id)'
  BY LedgerAssumption DEF Transacts, ChainSteps, Registers, Changes, Logged, Chain!Exists, contract

----------------------------------------------------------------------------
(* While no event was lost on the way, each column of a row holds what an  *)
(* event no earlier than the last one read about it says.                  *)

RowsOK == rows \in [Ids -> Row]

Calm == ~overlapped /\ failed = {} /\ cutOff = {}

Read(i) == i \in Behind \/ (\E k \in Polls : polls[k] # Idle /\ i < polls[k].at)

Follows(id, column) ==
  \E j \in 0 .. Len(events) :
    /\ Among(j, id, column) /\ InRow(id, column) = Said(j, id, column)
    /\ \A i \in 1 .. Len(events) : Read(i) /\ Says(i, id, column) => i <= j

RowFollows(id) ==
  \A column \in Columns : <<id, column>> \notin stray => Follows(id, column)

AgreeInv == RowsOK /\ (Calm => \A id \in Ids : RowFollows(id))

LEMMA AgreeInit == OwnerInit => AgreeInv
<1> SUFFICES ASSUME OwnerInit PROVE AgreeInv
  OBVIOUS
<1>1. RowsOK /\ events = <<>>
  BY EventSyncAssumption DEF OwnerInit, Init, RowsOK, Row, Chain!Init
<1>2. ASSUME NEW id \in Ids, NEW column \in Columns, <<id, column>> \notin stray
      PROVE  Follows(id, column)
  <2>0. column # "listed"
    BY <1>2 DEF OwnerInit
  <2>1. Among(0, id, column) /\ InRow(id, column) = Said(0, id, column)
    BY <1>1, <2>0 DEF OwnerInit, Init, Among, Said, InRow, First, Columns
  <2>2. Len(events) = 0
    BY <1>1
  <2>3. QED
    BY <2>1, <2>2 DEF Follows
<1>3. QED
  BY <1>1, <1>2 DEF AgreeInv, RowFollows

(* Steps under which rows stay and nothing new has been read. *)
LEMMA UnreadKeepsAgree ==
  ASSUME AgreeInv, rows' = rows, Calm' => Calm,
         Len(events) \in Nat, Len(events') \in Nat, Len(events) <= Len(events'),
         \A i \in 1 .. Len(events) : events'[i] = events[i],
         Calm' => \A i \in 1 .. Len(events') : Read(i)' => i \in 1 .. Len(events) /\ Read(i),
         stray \subseteq stray'
  PROVE  AgreeInv'
<1>1. RowsOK'
  BY DEF AgreeInv, RowsOK
<1>2. ASSUME Calm', NEW id, NEW column, Follows(id, column) PROVE Follows(id, column)'
  <2>1. PICK j \in 0 .. Len(events) :
          /\ Among(j, id, column) /\ InRow(id, column) = Said(j, id, column)
          /\ \A i \in 1 .. Len(events) : Read(i) /\ Says(i, id, column) => i <= j
    BY <1>2 DEF Follows
  <2>2. /\ Among(j, id, column)' /\ Said(j, id, column)' = Said(j, id, column)
        /\ j \in 0 .. Len(events')
        /\ \A i \in 1 .. Len(events) : Says(i, id, column)' <=> Says(i, id, column)
    BY <2>1, SaidStays
  <2>3. InRow(id, column)' = InRow(id, column)
    BY DEF InRow
  <2>4. \A i \in 1 .. Len(events') : Read(i)' /\ Says(i, id, column)' => i <= j
    BY <1>2, <2>1, <2>2
  <2>5. QED
    BY <2>1, <2>2, <2>3, <2>4 DEF Follows
<1>3. ASSUME Calm', NEW id \in Ids PROVE RowFollows(id)'
  <2>1. RowFollows(id)
    BY <1>3 DEF AgreeInv
  <2>2. \A column \in Columns : Follows(id, column) => Follows(id, column)'
    BY <1>2, <1>3
  <2>3. QED
    BY <2>1, <2>2 DEF RowFollows
<1>4. QED
  BY <1>1, <1>3 DEF AgreeInv

LEMMA TransactKeepsAgree ==
  ASSUME SyncInv, AgreeInv, Transacts, stray \subseteq stray'
  PROVE  AgreeInv'
<1>1. /\ Len(events) \in Nat /\ Len(events') = Len(events) + 1
      /\ \A i \in 1 .. Len(events) : events'[i] = events[i]
  BY LogGrows DEF SyncInv, Transacts
<1>2. Behind' = Behind /\ Behind \subseteq 1 .. Len(events)
  BY LogInvGrows DEF SyncInv, Transacts, Behind
<1>3. rows' = rows /\ polls' = polls /\ (Calm' => Calm)
  BY DEF Transacts, history, Calm
<1>4. ASSUME NEW i \in 1 .. Len(events'), Read(i)' PROVE i \in 1 .. Len(events) /\ Read(i)
  <2>1. Read(i)
    BY <1>2, <1>3, <1>4 DEF Read
  <2>2. CASE i \in Behind
    BY <1>2, <2>1, <2>2
  <2>3. CASE i \notin Behind
    <3>1. PICK k \in Polls : polls[k] # Idle /\ i < polls[k].at
      BY <2>1, <2>3 DEF Read
    <3>2. polls[k].last \in 1 .. Len(events) /\ polls[k].at \in 1 .. polls[k].last + 1
      BY <3>1 DEF SyncInv, PollOK
    <3>3. QED
      BY <1>1, <2>1, <3>1, <3>2
  <2>4. QED
    BY <2>2, <2>3
<1>5. Len(events') \in Nat /\ Len(events) <= Len(events')
  BY <1>1
<1>6. QED
  BY <1>1, <1>3, <1>4, <1>5, UnreadKeepsAgree

(* The same when the log stays as it is. *)
LEMMA QuietKeepsAgree ==
  ASSUME SyncInv, AgreeInv, UNCHANGED <<events, rows>>, stray \subseteq stray', Calm' => Calm,
         Calm' => \A i \in 1 .. Len(events) : Read(i)' => Read(i)
  PROVE  AgreeInv'
<1>1. Len(events) \in Nat
  BY DEF SyncInv, LogInv
<1>2. QED
  BY <1>1, UnreadKeepsAgree

LEMMA PollKeepsAgree ==
  ASSUME SyncInv, AgreeInv, stray \subseteq stray', NEW k \in Polls, Poll(k)
  PROVE  AgreeInv'
<1>1. PICK first, last \in Available :
        IsPage(first, last) /\ polls' = [polls EXCEPT ![k] = [at |-> first, last |-> last]]
  BY DEF Poll
<1>2. /\ first \in 1 .. last
      /\ \A i \in 1 .. last : i < first => i \in Behind
  BY <1>1, PollStarts
<1>3. Behind' = Behind /\ UNCHANGED <<events, rows>> /\ (Calm' => Calm)
  BY DEF Poll, contract, Behind, Calm
<1>4. ASSUME Calm', NEW i \in 1 .. Len(events), Read(i)' PROVE Read(i)
  <2>1. \A j \in Polls : polls[j] = Idle
    BY <1>4 DEF Poll, Calm
  <2>2. i \in Behind \/ i < first
    BY <1>1, <1>3, <1>4, <2>1 DEF Read, SyncInv
  <2>3. QED
    BY <1>2, <2>2 DEF Read
<1>5. QED
  BY <1>3, <1>4, QuietKeepsAgree

LEMMA SaveKeepsAgree ==
  ASSUME SyncInv, CutInv, AgreeInv, stray \subseteq stray', NEW k \in Polls, Save(k)
  PROVE  AgreeInv'
<1>1. UNCHANGED <<events, rows>> /\ (Calm' => Calm)
  BY DEF Save, contract, Calm
<1>2. /\ polls[k] # Idle /\ polls[k].last \in 1 .. Len(events)
      /\ polls[k].at = polls[k].last + 1
      /\ \A i \in Behind' : i > polls[k].last => i \in cutOff'
  BY SaveMoves
<1>3. ASSUME Calm', NEW i \in 1 .. Len(events), Read(i)' PROVE Read(i)
  <2>1. \A j \in Polls : polls'[j] = Idle
    <3>1. OnePoll(k)
      BY <1>1, <1>3 DEF CutInv, Calm
    <3>2. QED
      BY <1>2, <3>1 DEF OnePoll, Save, SyncInv
  <2>2. i \in Behind' /\ i \notin cutOff'
    BY <1>3, <2>1 DEF Read, Calm
  <2>3. i < polls[k].at
    BY <1>2, <2>2
  <2>4. QED
    BY <1>2, <2>3 DEF Read
<1>4. QED
  BY <1>1, <1>3, QuietKeepsAgree

LEMMA StopKeepsAgree ==
  ASSUME SyncInv, AgreeInv, stray \subseteq stray', NEW k \in Polls, Stop(k)
  PROVE  AgreeInv'
<1>1. UNCHANGED <<events, rows>> /\ (Calm' => Calm) /\ Behind' = Behind
  BY DEF Stop, contract, history, Calm, Behind
<1>2. \A j \in Polls : polls'[j] = Idle \/ polls'[j] = polls[j]
  BY DEF Stop, SyncInv
<1>3. \A i : Read(i)' => Read(i)
  BY <1>1, <1>2 DEF Read
<1>4. QED
  BY <1>1, <1>3, QuietKeepsAgree

LEMMA ListenKeepsAgree ==
  ASSUME SyncInv, CutInv, AgreeInv, NEW k \in Polls, Listen(k)
  PROVE  AgreeInv'
<1> PICK at : at = Current(k)
  OBVIOUS
<1> DEFINE e == events[at]
<1>0. Handle(k)
  BY DEF Listen
<1>1. polls[k] # Idle /\ polls[k] \in [at : Nat, last : Nat]
  BY <1>0 DEF Handle, Handling, Idle, SyncInv
<1>2. polls[k].last \in 1 .. Len(events) /\ at \in 1 .. polls[k].last /\ at \in 1 .. Len(events)
  BY <1>0, <1>1 DEF SyncInv, PollOK, Handle, Handling, Current, LogInv
<1>3. UNCHANGED <<events, ledgerOf>> /\ Behind' = Behind /\ Calm' = Calm
  BY <1>0 DEF Handle, contract, Behind, Calm
<1>4. e \in Chain!EventType
  BY <1>2 DEF SyncInv, LogInv
<1>5. \A id \in Ids : /\ rows[id] \in Row
                      /\ rows'[id] = IF e.topic = id THEN Updated(rows[id], e) ELSE rows[id]
  BY <1>0 DEF Handle, AgreeInv, RowsOK
<1>6. ASSUME NEW id \in Ids, e.topic = id
      PROVE  Updated(rows[id], e) \in Row
  BY <1>4, <1>5, <1>6 DEF Updated, Row, Chain!EventType
<1>7. RowsOK'
  <2>1. rows' = IF e.topic \in Ids THEN [rows EXCEPT ![e.topic] = Updated(@, e)] ELSE rows
    BY <1>0 DEF Handle
  <2>2. QED
    BY <1>6, <2>1 DEF AgreeInv, RowsOK
<1>8. ASSUME Calm, NEW i \in 1 .. Len(events), Read(i)' PROVE i = at \/ (Read(i) /\ i < at)
  <2>1. OnePoll(k) /\ LogInv
    BY <1>8 DEF Calm, CutInv, SyncInv
  <2>2. polls'[k] = [polls[k] EXCEPT !.at = @ + 1] /\ \A j \in Polls : j # k => polls'[j] = polls[j]
    BY <1>0 DEF Handle, Step, SyncInv
  <2>3. CASE i \in Behind
    <3>1. ~(i \in at .. polls[k].last)
      BY <1>1, <1>2, <2>1, <2>3 DEF OnePoll, Current
    <3>2. ~(i > polls[k].last)
      <4>1. SUFFICES ASSUME i > polls[k].last PROVE FALSE
        OBVIOUS
      <4>2. ledgerOf[polls[k].last] <= ledgerOf[i] /\ polls[k].last \notin Behind
        BY <1>1, <1>2, <2>1, <4>1, LedgerOrder DEF OnePoll
      <4>3. /\ ledgerOf[polls[k].last] \in Nat /\ ledgerOf[i] \in Nat /\ cursor \in Nat
        BY <1>2, <2>1, LedgerOrder
      <4>4. QED
        BY <1>2, <2>3, <4>2, <4>3 DEF Behind
    <3>3. QED
      BY <1>2, <2>3, <3>1, <3>2 DEF Read
  <2>4. CASE i \notin Behind
    <3>1. PICK j \in Polls : polls'[j] # Idle /\ i < polls'[j].at
      BY <1>3, <1>8, <2>4 DEF Read
    <3>2. j = k
      BY <1>1, <2>1, <2>2, <3>1 DEF OnePoll
    <3>3. i < at + 1
      BY <1>1, <2>2, <3>1, <3>2 DEF Current
    <3>4. QED
      BY <1>1, <1>2, <3>3 DEF Read, Current
  <2>5. QED
    BY <2>3, <2>4
<1>9. ASSUME Calm, NEW id \in Ids, NEW column \in Columns, Says(at, id, column)
      PROVE  Follows(id, column)'
  <2>1. InRow(id, column)' = e.data
    BY <1>5, <1>9 DEF InRow, Says, Updated, Topic, Columns, Row
  <2>2. Among(at, id, column)' /\ Said(at, id, column)' = e.data
    BY <1>2, <1>3, <1>9 DEF Among, Said, Says, Topic
  <2>3. at \in 0 .. Len(events') /\ \A i \in 1 .. Len(events') : Read(i)' => i <= at
    BY <1>2, <1>3, <1>8, <1>9
  <2>4. QED
    BY <2>1, <2>2, <2>3 DEF Follows
<1>10. ASSUME NEW id \in Ids, NEW column \in Columns, ~Says(at, id, column)
       PROVE  InRow(id, column)' = InRow(id, column)
  BY <1>5, <1>10 DEF InRow, Says, Updated, Topic, Columns, Row
<1>11. ASSUME Calm, NEW id \in Ids, NEW column \in Columns, Follows(id, column)
       PROVE  Follows(id, column)'
  <2>1. CASE Says(at, id, column)
    BY <1>9, <1>11, <2>1
  <2>2. CASE ~Says(at, id, column)
    <3>1. PICK j \in 0 .. Len(events) :
          /\ Among(j, id, column) /\ InRow(id, column) = Said(j, id, column)
          /\ \A i \in 1 .. Len(events) : Read(i) /\ Says(i, id, column) => i <= j
      BY <1>11 DEF Follows
    <3>2. Len(events) \in Nat
      BY DEF SyncInv, LogInv
    <3>3. /\ Among(j, id, column)' /\ Said(j, id, column)' = Said(j, id, column)
          /\ j \in 0 .. Len(events')
          /\ \A i \in 1 .. Len(events) : Says(i, id, column)' <=> Says(i, id, column)
      BY <1>3, <3>1, <3>2, SaidStays
    <3>4. \A i \in 1 .. Len(events') : Read(i)' /\ Says(i, id, column)' => i <= j
      BY <1>3, <1>8, <1>11, <2>2, <3>1, <3>3
    <3>5. QED
      BY <1>10, <2>2, <3>1, <3>3, <3>4 DEF Follows
  <2>3. QED
    BY <2>1, <2>2
<1>12. ASSUME Calm, NEW id \in Ids, NEW column \in Columns, <<id, column>> \notin stray'
       PROVE  Follows(id, column)'
  <2>1. CASE Says(at, id, column)
    BY <1>9, <1>12, <2>1
  <2>2. CASE ~Says(at, id, column)
    <3>1. <<id, column>> \notin stray
      BY <1>12, <2>2 DEF Listen, Says
    <3>2. Follows(id, column)
      BY <1>12, <3>1 DEF AgreeInv, RowFollows
    <3>3. QED
      BY <1>11, <1>12, <3>2
  <2>3. QED
    BY <2>1, <2>2
<1>13. QED
  BY <1>3, <1>7, <1>12 DEF AgreeInv, RowFollows

LEMMA ListenerKeepsAgree ==
  ASSUME SyncInv, CutInv, AgreeInv, Listener
  PROVE  AgreeInv'
<1>1. CASE Transact
  BY <1>1, InvokeTransacts, TransactKeepsAgree DEF SyncInv, Transact
<1>2. CASE CloseLedger /\ UNCHANGED stray
  BY <1>2, QuietKeepsAgree DEF CloseLedger, contract, history, Behind, Read, Calm
<1>3. ASSUME NEW k \in Polls, Listen(k)
      PROVE  AgreeInv'
  BY <1>3, ListenKeepsAgree
<1>4. ASSUME NEW k \in Polls, Others(k), UNCHANGED stray
      PROVE  AgreeInv'
  <2>1. CASE FirstPoll(k)
    <3>1. Behind' = Behind
      BY <2>1, FirstPollKeepsSync
    <3>2. QED
      BY <1>4, <2>1, <3>1, QuietKeepsAgree DEF FirstPoll, contract, history, Read, Calm
  <2>2. CASE Poll(k)
    BY <1>4, <2>2, PollKeepsAgree
  <2>3. CASE Save(k)
    BY <1>4, <2>3, SaveKeepsAgree
  <2>4. CASE HandlerFails(k)
    BY <2>4 DEF HandlerFails, AgreeInv, RowsOK, Calm
  <2>5. CASE Stop(k)
    BY <1>4, <2>5, StopKeepsAgree
  <2>6. QED
    BY <1>4, <2>1, <2>2, <2>3, <2>4, <2>5 DEF Others
<1>5. QED
  BY <1>1, <1>2, <1>3, <1>4 DEF Listener

(* Without a failure, a full page or an overlap, what was read was handled. *)
LEMMA ReadIsHandled ==
  ASSUME SyncInv, Calm, NEW i \in 1 .. Len(events), Read(i)
  PROVE  i \in handled
<1>1. Passed = handled
  BY DEF Passed, Calm
<1>2. CASE i \in Behind
  BY <1>1, <1>2 DEF SyncInv, NothingElsePassedOver, Passed
<1>3. CASE i \notin Behind
  <2>1. PICK k \in Polls : polls[k] # Idle /\ i < polls[k].at
    BY <1>3 DEF Read
  <2>2. polls[k] \in [at : Nat, last : Nat] /\ PollOK(k)
    BY DEF SyncInv
  <2>3. QED
    BY <1>1, <2>1, <2>2 DEF PollOK
<1>4. QED
  BY <1>2, <1>3

(* A request or an audit writes at most some columns of some rows; the     *)
(* others keep following the log.                                          *)
LEMMA OtherColumnsFollow ==
  ASSUME UNCHANGED <<contract, ledgerOf, height, cursor, polls, history>>, 
         NEW id, NEW column, InRow(id, column)' = InRow(id, column), Follows(id, column)
  PROVE  Follows(id, column)'
<1>1. UNCHANGED <<events, ledgerOf, cursor, polls>>
  BY DEF contract
<1>2. PICK j \in 0 .. Len(events) :
          /\ Among(j, id, column) /\ InRow(id, column) = Said(j, id, column)
          /\ \A i \in 1 .. Len(events) : Read(i) /\ Says(i, id, column) => i <= j
  BY DEF Follows
<1>3. Among(j, id, column)' /\ Said(j, id, column)' = Said(j, id, column)
  BY <1>1, <1>2 DEF Among, Said, First, Says, Topic
<1>4. ASSUME NEW i \in 1 .. Len(events), Read(i)', Says(i, id, column)' PROVE i <= j
  <2>1. Says(i, id, column)
    BY <1>1, <1>4 DEF Says, Topic
  <2>2. Read(i)
    BY <1>1, <1>4 DEF Read, Behind
  <2>3. QED
    BY <1>2, <2>1, <2>2
<1>5. QED
  BY <1>1, <1>2, <1>3, <1>4 DEF Follows

LEMMA ConfirmKeepsAgree ==
  ASSUME SyncInv, TasksInv, AgreeInv, NEW t \in Tasks, Confirm(t)
  PROVE  AgreeInv'
<1> PICK task : task = tasks[t]
  OBVIOUS
<1> PICK e : e = events[task.event]
  OBVIOUS
<1>1. task \in Rewriting /\ task.tx = "success" /\ TaskOK(task)
  BY DEF Confirm, TasksInv, TaskType, NoTask, Done, Delisting
<1>2. task.id \in Ids /\ task.column \in {"price", "wallet"} /\ task.value \in Values(task.column)
  BY <1>1 DEF Rewriting, TaskOK
<1>3. /\ task.event \in 1 .. Len(events)
      /\ Says(task.event, task.id, task.column) /\ e.data = task.signed
  BY <1>1 DEF TaskOK
<1>4. /\ UNCHANGED <<contract, ledgerOf, height, cursor, polls, history>>
      /\ UNCHANGED events /\ Calm' = Calm
  BY DEF Confirm, contract, history, Calm
<1>5. rows' = [rows EXCEPT ![task.id] = Written(@, task)]
  BY DEF Confirm
<1>6. \A id \in Ids : rows[id] \in Row
  BY DEF AgreeInv, RowsOK
<1>7. Written(rows[task.id], task) \in Row
  BY <1>2, <1>6 DEF Written, Row, Values
<1>8. RowsOK'
  BY <1>2, <1>5, <1>7 DEF AgreeInv, RowsOK
<1>9. ASSUME NEW id \in Ids, NEW column \in Columns, id # task.id \/ column # task.column
      PROVE  InRow(id, column)' = InRow(id, column)
  <2>1. CASE id # task.id
    BY <1>5, <2>1 DEF InRow, AgreeInv, RowsOK
  <2>2. CASE id = task.id
    <3>1. rows'[id] = Written(rows[id], task) /\ rows[id] \in Row
      BY <1>5, <1>6, <2>2 DEF AgreeInv, RowsOK
    <3>2. QED
      BY <1>2, <1>9, <2>2, <3>1 DEF InRow, Written, Columns, Row
  <2>3. QED
    BY <2>1, <2>2
<1>10. InRow(task.id, task.column)' = task.value
  <2>1. rows'[task.id] = Written(rows[task.id], task) /\ rows[task.id] \in Row
    BY <1>2, <1>5, <1>6 DEF AgreeInv, RowsOK
  <2>2. QED
    BY <1>2, <2>1 DEF InRow, Written, Row
<1>11. ASSUME Calm, <<task.id, task.column>> \notin stray'
       PROVE  Follows(task.id, task.column)'
  <2>1. task.value = task.signed /\ ~Overtaken(task)
    BY <1>11 DEF Confirm
  <2>2. Among(task.event, task.id, task.column)' /\ Said(task.event, task.id, task.column)' = e.data
    BY <1>3, <1>4 DEF Among, Said, Says, Topic
  <2>3. ASSUME NEW i \in 1 .. Len(events), Read(i)', Says(i, task.id, task.column)'
        PROVE  i <= task.event
    <3>1. Read(i) /\ Says(i, task.id, task.column)
      BY <1>4, <2>3 DEF Read, Behind, Says, Topic
    <3>2. i \in handled
      BY <1>11, <3>1, ReadIsHandled
    <3>3. events[i].topic = task.id /\ events[i].symbol = Topic(task.column)
      BY <1>2, <3>1 DEF Says, Topic
    <3>4. QED
      BY <1>3, <2>1, <3>2, <3>3 DEF Overtaken
  <2>4. InRow(task.id, task.column)' = Said(task.event, task.id, task.column)'
    BY <1>3, <1>10, <2>1, <2>2
  <2>5. task.event \in 0 .. Len(events')
    BY <1>3, <1>4
  <2>6. QED
    BY <1>4, <2>2, <2>3, <2>4, <2>5 DEF Follows
<1>12. ASSUME Calm, NEW id \in Ids, NEW column \in Columns, <<id, column>> \notin stray'
       PROVE  Follows(id, column)'
  <2>1. CASE id = task.id /\ column = task.column
    BY <1>11, <1>12, <2>1
  <2>2. CASE id # task.id \/ column # task.column
    <3>1. <<id, column>> \notin stray
      BY <1>12, <2>2 DEF Confirm
    <3>2. Follows(id, column)
      BY <1>12, <3>1 DEF AgreeInv, RowFollows
    <3>3. QED
      BY <1>4, <1>9, <1>12, <2>2, <3>2, OtherColumnsFollow
  <2>3. QED
    BY <2>1, <2>2
<1>13. QED
  BY <1>4, <1>8, <1>12 DEF AgreeInv, RowFollows

(* A DELETE or a verdict writes the listing of a row, which is then not    *)
(* the contract's.                                                         *)
LEMMA RelistKeepsAgree ==
  ASSUME AgreeInv, NEW id0 \in Ids, NEW listed \in BOOLEAN,
         rows' = [rows EXCEPT ![id0].listed = listed], stray' = stray \cup {<<id0, "listed">>},
         UNCHANGED <<contract, ledgerOf, height, cursor, polls, history>>
  PROVE  AgreeInv'
<1>1. Calm' = Calm
  BY DEF history, Calm
<1>2. \A id \in Ids : rows[id] \in Row
  BY DEF AgreeInv, RowsOK
<1>3. \A id \in Ids : rows'[id] = IF id = id0 THEN [rows[id] EXCEPT !.listed = listed] ELSE rows[id]
  BY DEF AgreeInv, RowsOK
<1>4. RowsOK'
  <2>1. [rows[id0] EXCEPT !.listed = listed] \in Row
    BY <1>2 DEF Row
  <2>2. QED
    BY <2>1 DEF AgreeInv, RowsOK
<1>5. ASSUME NEW id \in Ids, NEW column \in Columns, id # id0 \/ column # "listed"
      PROVE  InRow(id, column)' = InRow(id, column)
  BY <1>2, <1>3, <1>5 DEF InRow, Columns, Row
<1>6. ASSUME Calm, NEW id \in Ids, NEW column \in Columns, <<id, column>> \notin stray'
      PROVE  Follows(id, column)'
  <2>1. (id # id0 \/ column # "listed") /\ Follows(id, column)
    BY <1>6 DEF AgreeInv, RowFollows
  <2>2. QED
    BY <1>5, <1>6, <2>1, OtherColumnsFollow
<1>7. QED
  BY <1>1, <1>4, <1>6 DEF AgreeInv, RowFollows

LEMMA OwnerKeepsAgree ==
  ASSUME SyncInv, TasksInv, CutInv, AgreeInv, [OwnerNext]_ownerVars
  PROVE  AgreeInv'
<1>1. CASE Listener
  BY <1>1, ListenerKeepsAgree
<1>2. CASE \E t \in Tasks : Land(t)
  BY <1>2, LandTransacts, TransactKeepsAgree DEF SyncInv, Land
<1>3. CASE \E t \in Tasks : Confirm(t)
  BY <1>3, ConfirmKeepsAgree
<1>4. CASE \E t \in Tasks : Delete(t)
  BY <1>4, RelistKeepsAgree DEF Delete
<1>5. CASE \E id \in Ids : Judge(id)
  BY <1>5, RelistKeepsAgree DEF Judge
<1>6. ASSUME UNCHANGED vars, UNCHANGED stray PROVE AgreeInv'
  BY <1>6, QuietKeepsAgree DEF vars, contract, history, Calm, Read, Behind
<1>7. QED
  BY <1>1, <1>2, <1>3, <1>4, <1>5, <1>6 DEF OwnerNext, PostChange, Fail, GiveUp, MarkRegistered,
    Audit, StartAudit, CheckRow, CountEntries, CheckListing, ownerVars

(* A column is no longer stray once an event about it was applied, or its  *)
(* request confirmed; and an entry that is registered otherwise makes it   *)
(* so.                                                                     *)
LEMMA StrayChanges ==
  ASSUME SyncInv, TasksInv, [OwnerNext]_ownerVars
  PROVE  StrayKept /\ Marks
<1>1. ASSUME NEW t \in Tasks, Confirm(t) PROVE StrayKept
  <2> PICK task : task = tasks[t]
    OBVIOUS
  <2>1. task \in Rewriting /\ task.tx = "success" /\ TaskOK(task)
    BY <1>1 DEF Confirm, TasksInv, TaskType, NoTask, Done, Delisting
  <2>2. task.event \in 1 .. Len(events) /\ Says(task.event, task.id, task.column)
    BY <2>1 DEF TaskOK
  <2>3. ASSUME NEW id \in Ids, NEW column \in Columns, <<id, column>> \in stray,
               <<id, column>> \notin stray'
        PROVE  id = task.id /\ column = task.column
    BY <1>1, <2>3 DEF Confirm
  <2>4. QED
    BY <2>2, <2>3 DEF StrayKept
<1>2. ASSUME NEW k \in Polls, Listen(k) PROVE StrayKept
  <2>1. polls[k] # Idle /\ polls[k] \in [at : Nat, last : Nat] /\ Len(events) \in Nat
    BY <1>2 DEF Listen, Handle, Handling, Idle, SyncInv, LogInv
  <2>2. Current(k) \in 1 .. Len(events)
    BY <1>2, <2>1 DEF SyncInv, PollOK, Listen, Handle, Handling, Current
  <2>3. ASSUME NEW id \in Ids, NEW column \in Columns, <<id, column>> \in stray,
               <<id, column>> \notin stray'
        PROVE  Says(Current(k), id, column)
    BY <1>2, <2>3 DEF Listen, Says
  <2>4. QED
    BY <2>2, <2>3 DEF StrayKept
<1>3. StrayKept
  BY <1>1, <1>2 DEF OwnerNext, Listener, Transact, PostChange, Land, Fail, GiveUp, Delete, Judge,
    MarkRegistered, Audit, StartAudit, CheckRow, CountEntries, CheckListing, ownerVars, StrayKept
<1>4. CASE Transact
  <2>1. ASSUME NEW id \in Ids, NEW column \in Columns, Differs(id, column)
        PROVE  <<id, column>> \in stray'
    <3>1. PICK c : c = <<id, column>>
      OBVIOUS
    <3>2. c \in Ids \X Columns /\ c[1] = id /\ c[2] = column
      BY <3>1
    <3>3. /\ Chain!Exists(c[1]) <=> Chain!Exists(id)
          /\ Chain!Exists(c[1])' <=> Chain!Exists(id)'
          /\ OnChain(c[1], c[2])' = OnChain(id, column)'
          /\ First(c[1], c[2]) = First(id, column)
      BY <3>2 DEF Chain!Exists, OnChain, First
    <3>4. Differs(c[1], c[2])
      BY <2>1, <3>3 DEF Differs
    <3>5. QED
      BY <1>4, <3>1, <3>2, <3>4 DEF Transact
  <2>2. QED
    BY <1>3, <2>1 DEF Marks
<1>5. ASSUME NEW t \in Tasks, Land(t) PROVE Marks
  <2>1. PICK e \in Chain!EventType : Changes(tasks[t].id, e) /\ tasks[t].id \in Ids
    BY <1>5, LandSteps DEF SyncInv, Rewriting, Delisting
  <2>2. \A id \in Ids : Chain!Exists(id)' => Chain!Exists(id)
    BY <2>1, LedgerAssumption DEF Changes, Logged, Chain!Exists
  <2>3. QED
    BY <2>2 DEF Marks, Differs
<1>6. CASE UNCHANGED contract
  <2>1. \A id \in Ids : Chain!Exists(id)' <=> Chain!Exists(id)
    BY <1>6 DEF Chain!Exists, contract
  <2>2. QED
    BY <1>3, <2>1 DEF Marks, Differs
<1>7. Transact \/ (\E t \in Tasks : Land(t)) \/ UNCHANGED contract
  BY DEF OwnerNext, Listener, CloseLedger, Listen, Handle, Others, FirstPoll, Poll, Save,
    HandlerFails, Stop, PostChange, Fail, Confirm, GiveUp, Delete, Judge, MarkRegistered, Audit,
    StartAudit, CheckRow, CountEntries, CheckListing, vars, ownerVars
<1>8. QED
  BY <1>3, <1>4, <1>5, <1>6, <1>7

AgreementInv == SyncInv /\ TasksInv /\ CutInv /\ ChainInv /\ AgreeInv

LEMMA AgreementInductive == OwnerSpec => []AgreementInv
<1>1. OwnerInit => AgreementInv
  BY SyncInit, TasksInit, CutInit, ChainInit, AgreeInit DEF OwnerInit, AgreementInv
<1>2. ASSUME AgreementInv, [OwnerNext]_ownerVars PROVE AgreementInv'
  <2>1. SyncInv' /\ TasksInv' /\ CutInv' /\ AgreeInv'
    BY <1>2, OwnerKeepsSync, TasksKept, OwnerKeepsCut, OwnerKeepsAgree DEF AgreementInv, SyncInv
  <2>2. ChainInv'
    BY <1>2, OwnerLog, StrayChanges, ChainKept, ChainStays DEF AgreementInv, SyncInv, Transacts
  <2>3. QED
    BY <2>1, <2>2 DEF AgreementInv
<1>3. QED
  BY <1>1, <1>2, PTL DEF OwnerSpec

(* What the last event about a column says is in the row as it is on chain *)
(* once every event has been read.                                         *)
LEMMA FollowsIsAgreement ==
  ASSUME LogInv, NEW id \in Ids, NEW column \in Columns, HoldsLast(id, column),
         <<id, column>> \notin stray, Follows(id, column), \A i \in 1 .. Len(events) : Read(i)
  PROVE  InRow(id, column) = OnChain(id, column)
<1>1. PICK j \in 0 .. Len(events) :
    /\ Among(j, id, column) /\ OnChain(id, column) = Said(j, id, column)
    /\ \A i \in 1 .. Len(events) : Says(i, id, column) => i <= j
  BY DEF HoldsLast
<1>2. PICK m \in 0 .. Len(events) :
    /\ Among(m, id, column) /\ InRow(id, column) = Said(m, id, column)
    /\ \A i \in 1 .. Len(events) : Says(i, id, column) => i <= m
  BY DEF Follows
<1>3. j <= m /\ m <= j
  BY <1>1, <1>2 DEF Among
<1>4. QED
  BY <1>1, <1>2, <1>3

(* Once the listener has caught up and nothing was lost, each column of a  *)
(* row whose last value came from the contract holds what the contract     *)
(* holds, for any number of requests, verdicts, transactions that land     *)
(* after they were given up, restarts of the listener and page limits      *)
(* (routes/resources.ts, routes/verify.ts, resourceService.ts,             *)
(* eventListener.ts).                                                      *)
THEOREM AgreesInTheEnd == OwnerSpec => []AgreesAfterChanges
<1>1. ASSUME AgreementInv PROVE AgreesAfterChanges
  <2>1. SUFFICES ASSUME CaughtUp, Lost = {}, failed = {}, ~overlapped,
                        NEW id \in Ids, NEW column \in Columns, Chain!Exists(id),
                        <<id, column>> \notin stray
                 PROVE  rows[id][column] = OnChain(id, column)
    BY DEF AgreesAfterChanges
  <2>2. Calm
    BY <1>1, <2>1 DEF AgreementInv, CutInv, Calm, Lost
  <2>3. \A i \in 1 .. Len(events) : Read(i)
    BY <2>1 DEF CaughtUp, Read
  <2>4. Follows(id, column)
    BY <1>1, <2>1, <2>2 DEF AgreementInv, AgreeInv, RowFollows
  <2>5. HoldsLast(id, column)
    BY <1>1, <2>1 DEF AgreementInv, ChainInv
  <2>6. InRow(id, column) = OnChain(id, column)
    BY <1>1, <2>1, <2>3, <2>4, <2>5, FollowsIsAgreement DEF AgreementInv, SyncInv
  <2>7. QED
    BY <2>6 DEF InRow, Columns
<1>2. QED
  BY <1>1, AgreementInductive, PTL

----------------------------------------------------------------------------
(* The reconciliation.  Until something changes under it, what an audit    *)
(* has found so far is what there is.                                      *)

Kinds == {"missingOnChain", "mismatches", "ownerMismatches", "missingInDb", "listingDrift"}

Phases == {"rows", "listed", "done"}

Running ==
  [pc : Phases, counted : BOOLEAN, issues : SUBSET Kinds, found : [marked -> Row],
   left : SUBSET marked]

Matches(id) ==
  /\ Chain!Exists(id)
  /\ rows[id].price = resources[id].price
  /\ rows[id].wallet = resources[id].creator

AuditOK ==
  /\ \A id \in marked : audit.found[id] = rows[id]
  /\ audit.pc # "rows" => audit.left = {}
  /\ audit.issues = {} =>
       /\ \A id \in marked \ audit.left : Matches(id)
       /\ audit.counted => count <= Cardinality(marked)
       /\ audit.pc = "done" => \A id \in Ids : rows[id].listed => id \in marked

AuditInv ==
  \/ audit = NoAudit
  \/ audit \in Running /\ AuditOK

(* The counter counts the registered resources. *)
BookInv ==
  /\ marked \subseteq Ids
  /\ count = Cardinality(Chain!Registered)

LEMMA BookInit == OwnerInit => BookInv /\ AuditInv
<1> SUFFICES ASSUME OwnerInit PROVE BookInv /\ AuditInv
  OBVIOUS
<1>1. Chain!Registered = {} /\ marked = {} /\ count = 0
  BY DEF OwnerInit, Init, Chain!Init, Chain!Registered, Chain!Exists
<1>2. QED
  BY <1>1, FS_EmptySet DEF BookInv, AuditInv, OwnerInit

LEMMA RegisteredIsFinite ==
  /\ IsFiniteSet(Chain!Registered) /\ Cardinality(Chain!Registered) \in Nat
<1>1. Chain!Registered \subseteq Ids
  BY DEF Chain!Registered
<1>2. IsFiniteSet(Ids)
  BY EventSyncAssumption
<1>3. IsFiniteSet(Chain!Registered)
  BY <1>1, <1>2, FS_Subset
<1>4. QED
  BY <1>3, FS_CardinalityType

LEMMA CountKept ==
  ASSUME LogInv, count = Cardinality(Chain!Registered), ChainSteps
  PROVE  count' = Cardinality(Chain!Registered')
<1>1. PICK id \in Ids, e \in Chain!EventType : Registers(id, e) \/ Changes(id, e)
  BY DEF ChainSteps
<1>2. Logged(id, e)
  BY <1>1 DEF Registers, Changes
<1>3. Chain!Exists(id)' /\ \A k \in Ids : k # id => (Chain!Exists(k)' <=> Chain!Exists(k))
  BY <1>2, LedgerAssumption DEF Logged, Chain!Exists
<1>4. \A k : k \in Chain!Registered' <=> k \in Chain!Registered \/ k = id
  BY <1>3 DEF Chain!Registered
<1>5. CASE Registers(id, e)
  <2>1. id \notin Chain!Registered /\ count' = count + 1
    BY <1>5 DEF Registers, Chain!Registered, Chain!Exists
  <2>2. Chain!Registered' = Chain!Registered \cup {id}
    BY <1>4
  <2>3. Cardinality(Chain!Registered \cup {id}) = Cardinality(Chain!Registered) + 1
    BY <2>1, RegisteredIsFinite, FS_AddElement
  <2>4. QED
    BY <2>1, <2>2, <2>3
<1>6. CASE Changes(id, e)
  <2>1. id \in Chain!Registered /\ count' = count
    BY <1>6, LedgerAssumption DEF Changes, Chain!Registered, Chain!Exists
  <2>2. \A k : k \in Chain!Registered' <=> k \in Chain!Registered
    BY <1>4, <2>1
  <2>3. Chain!Registered' = Chain!Registered
    BY <2>2
  <2>4. QED
    BY <2>1, <2>3
<1>7. QED
  BY <1>1, <1>5, <1>6

LEMMA BookKept ==
  ASSUME LogInv, TasksInv, BookInv, [OwnerNext]_ownerVars
  PROVE  BookInv'
<1>1. Transacts \/ UNCHANGED <<contract, ledgerOf>>
  BY OwnerLog
<1>2. count' = Cardinality(Chain!Registered')
  <2>1. CASE Transacts
    BY <2>1, CountKept DEF Transacts, BookInv
  <2>2. CASE UNCHANGED <<contract, ledgerOf>>
    BY <2>2 DEF BookInv, contract, Chain!Registered, Chain!Exists
  <2>3. QED
    BY <1>1, <2>1, <2>2
<1>3. marked' = marked \/ \E id \in Ids : marked' = marked \cup {id}
  BY DEF OwnerNext, Listener, PostChange, Land, Fail, Confirm, GiveUp, Delete, Judge, MarkRegistered,
    Audit, StartAudit, CheckRow, CountEntries, CheckListing, ownerVars
<1>4. QED
  BY <1>2, <1>3 DEF BookInv

LEMMA SameKeepsAudit ==
  ASSUME AuditInv, UNCHANGED <<contract, rows, marked, audit>>
  PROVE  AuditInv'
  BY DEF AuditInv, AuditOK, Running, Matches, contract, Chain!Exists

LEMMA DisturbKeepsAudit ==
  ASSUME AuditInv, Disturb
  PROVE  AuditInv'
<1>1. CASE UNCHANGED <<contract, rows, marked>>
  BY <1>1, SameKeepsAudit DEF Disturb
<1>2. CASE ~(UNCHANGED <<contract, rows, marked>>)
  BY <1>2 DEF Disturb, AuditInv
<1>3. QED
  BY <1>1, <1>2

LEMMA AuditStepKeepsAudit ==
  ASSUME RowsOK, BookInv, AuditInv, Audit
  PROVE  AuditInv'
<1>1. UNCHANGED <<contract, rows, marked>>
  BY DEF Audit, StartAudit, CheckRow, CountEntries, CheckListing, vars
<1>2. Running' = Running /\ \A id : Matches(id)' <=> Matches(id)
  BY <1>1 DEF Running, Matches, contract, Chain!Exists
<1>3. marked \subseteq Ids
  BY DEF BookInv
<1>4. CASE StartAudit
  <2>1. audit' = [pc |-> "rows", counted |-> FALSE, issues |-> {},
                  found |-> [id \in marked |-> rows[id]], left |-> marked]
    BY <1>4 DEF StartAudit
  <2>2. audit' \in Running
    BY <1>3, <2>1 DEF Running, RowsOK, Phases
  <2>3. AuditOK'
    BY <1>1, <2>1 DEF AuditOK
  <2>4. QED
    BY <1>2, <2>2, <2>3 DEF AuditInv
<1>5. CASE CheckRow
  <2>1. audit \in Running /\ AuditOK /\ audit.pc = "rows"
    BY <1>5 DEF AuditInv, CheckRow, NoAudit
  <2>2. PICK id \in audit.left :
          audit' = [audit EXCEPT !.left = @ \ {id}, !.issues = @ \cup Issues(id)]
    BY <1>5 DEF CheckRow
  <2>3. Issues(id) \subseteq Kinds
    BY DEF Issues, Kinds
  <2>4. audit' \in Running
    BY <2>1, <2>2, <2>3 DEF Running
  <2>5. /\ audit'.left = audit.left \ {id} /\ audit'.issues = audit.issues \cup Issues(id)
        /\ audit'.pc = "rows" /\ audit'.counted = audit.counted /\ audit'.found = audit.found
    BY <2>1, <2>2 DEF Running
  <2>6. Issues(id) = {} => Matches(id)
    <3>1. audit.found[id] = rows[id]
      BY <2>1 DEF AuditOK, Running
    <3>2. QED
      BY <3>1 DEF Issues, Matches
  <2>7. ASSUME audit'.issues = {} PROVE \A i \in marked \ audit'.left : Matches(i)
    BY <2>1, <2>5, <2>6, <2>7 DEF AuditOK
  <2>8. AuditOK'
    BY <1>1, <1>2, <2>1, <2>5, <2>7 DEF AuditOK, contract
  <2>9. QED
    BY <1>2, <2>4, <2>8 DEF AuditInv
<1>6. CASE CountEntries
  <2>1. audit \in Running /\ AuditOK /\ audit.left = {}
    BY <1>6 DEF AuditInv, CountEntries, NoAudit
  <2>2. Cardinality(marked) \in Nat /\ count \in Nat
    <3>1. IsFiniteSet(marked)
      BY EventSyncAssumption, FS_Subset DEF BookInv
    <3>2. QED
      BY <3>1, FS_CardinalityType, RegisteredIsFinite DEF BookInv
  <2>3. DOMAIN audit.found = marked
    BY <2>1 DEF Running
  <2>4. CASE audit' = [audit EXCEPT !.pc = "listed", !.counted = TRUE, !.issues =
                    IF count > Cardinality(DOMAIN audit.found) THEN @ \cup {"missingInDb"} ELSE @]
    <3>1. audit' \in Running
      BY <2>1, <2>4 DEF Running, Kinds, Phases
    <3>2. /\ audit'.left = {} /\ audit'.pc = "listed" /\ audit'.found = audit.found
          /\ audit'.issues = {} => audit.issues = {} /\ count <= Cardinality(marked)
      BY <2>1, <2>2, <2>3, <2>4 DEF Running
    <3>3. AuditOK'
      BY <1>1, <1>2, <2>1, <3>2 DEF AuditOK, contract
    <3>4. QED
      BY <1>2, <3>1, <3>3 DEF AuditInv
  <2>5. CASE audit' = [audit EXCEPT !.pc = "listed"]
    <3>1. audit' \in Running
      BY <2>1, <2>5 DEF Running, Phases
    <3>2. /\ audit'.left = {} /\ audit'.pc = "listed" /\ audit'.found = audit.found
          /\ audit'.issues = audit.issues /\ audit'.counted = audit.counted
      BY <2>1, <2>5 DEF Running
    <3>3. AuditOK'
      BY <1>1, <1>2, <2>1, <3>2 DEF AuditOK, contract
    <3>4. QED
      BY <1>2, <3>1, <3>3 DEF AuditInv
  <2>6. QED
    BY <1>6, <2>4, <2>5 DEF CountEntries
<1>7. CASE CheckListing
  <2>1. audit \in Running /\ AuditOK /\ audit.pc = "listed"
    BY <1>7 DEF AuditInv, CheckListing, NoAudit
  <2>2. audit' = [audit EXCEPT !.pc = "done", !.issues =
           IF \E id \in Ids \ marked : rows[id].listed THEN @ \cup {"listingDrift"} ELSE @]
    BY <1>7 DEF CheckListing
  <2>3. audit' \in Running
    BY <2>1, <2>2 DEF Running, Kinds, Phases
  <2>4. /\ audit'.left = {} /\ audit'.pc = "done" /\ audit'.found = audit.found
        /\ audit'.counted = audit.counted
        /\ audit'.issues = {} =>
             audit.issues = {} /\ \A id \in Ids : rows[id].listed => id \in marked
    BY <2>1, <2>2 DEF Running, AuditOK
  <2>5. AuditOK'
    BY <1>1, <1>2, <2>1, <2>4 DEF AuditOK, contract
  <2>6. QED
    BY <1>2, <2>3, <2>5 DEF AuditInv
<1>8. QED
  BY <1>4, <1>5, <1>6, <1>7 DEF Audit

LEMMA AuditKept ==
  ASSUME RowsOK, BookInv, AuditInv, [OwnerNext]_ownerVars
  PROVE  AuditInv'
<1>1. CASE Audit
  BY <1>1, AuditStepKeepsAudit
<1>2. CASE Disturb
  BY <1>2, DisturbKeepsAudit
<1>3. CASE UNCHANGED <<vars, marked, audit>>
  BY <1>3, SameKeepsAudit DEF vars
<1>4. QED
  BY <1>1, <1>2, <1>3 DEF OwnerNext, Listener, PostChange, Land, Fail, Confirm, GiveUp, Delete, Judge,
    MarkRegistered, ownerVars

(* A clean reconciliation means agreement of rows and registry while       *)
(* nothing has changed under it, for any number of rows (reconcile.ts).    *)
THEOREM AllClearIsRight == OwnerSpec => []AllClearMeansAgreement
<1>1. OwnerInit => BookInv /\ AuditInv
  BY BookInit
<1>2. AgreementInv /\ BookInv /\ AuditInv /\ [OwnerNext]_ownerVars => BookInv' /\ AuditInv'
  BY BookKept, AuditKept DEF AgreementInv, SyncInv, AgreeInv
<1>3. ASSUME BookInv, AuditInv PROVE AllClearMeansAgreement
  <2>1. SUFFICES ASSUME AllClear
        PROVE /\ \A id \in marked : Matches(id)
              /\ \A id \in Ids : rows[id].listed => id \in marked
              /\ audit.counted => \A id \in Ids : Chain!Exists(id) => id \in marked
    BY DEF AllClearMeansAgreement, Matches
  <2>2. AuditOK /\ audit.pc = "done" /\ audit.issues = {}
    BY <1>3, <2>1 DEF AllClear, AuditInv, NoAudit
  <2>3. ASSUME audit.counted PROVE marked = Chain!Registered
    <3>0. marked \subseteq Chain!Registered
      BY <1>3, <2>2 DEF AuditOK, BookInv, Matches, Chain!Registered
    <3>1. count <= Cardinality(marked)
      BY <2>2, <2>3 DEF AuditOK
    <3>2. IsFiniteSet(marked) /\ Cardinality(marked) <= Cardinality(Chain!Registered)
      BY <3>0, RegisteredIsFinite, FS_Subset
    <3>3. Cardinality(marked) \in Nat
      BY <3>2, FS_CardinalityType
    <3>4. Cardinality(marked) = Cardinality(Chain!Registered)
      BY <1>3, <3>1, <3>2, <3>3, RegisteredIsFinite DEF BookInv
    <3>5. QED
      BY <3>0, <3>4, RegisteredIsFinite, FS_Subset
  <2>4. QED
    BY <2>2, <2>3 DEF AuditOK, Chain!Registered
<1>4. QED
  BY <1>1, <1>2, <1>3, AgreementInductive, PTL DEF OwnerSpec

----------------------------------------------------------------------------
(* Rows, requests and polls change the contract only through its entry     *)
(* points: the server's view of the chain is the registry's specification. *)

LEMMA InvokeUsesTheContract == Invoke => Chain!Next
<1> SUFFICES ASSUME Invoke PROVE Chain!Next
  OBVIOUS
<1>1. PICK auth \in Accounts, id \in Ids :
       \/ \E p \in Prices : Chain!Register(auth, auth, id, p, Content, Content)
       \/ \E p \in Prices : Chain!SetPrice(auth, id, p)
       \/ \E new \in Accounts : Chain!TransferOwnership(auth, id, new)
       \/ \E listed \in BOOLEAN : Chain!SetListed(auth, id, listed)
  BY DEF Invoke
<1>2. QED
  BY <1>1 DEF Chain!Next

LEMMA LandUsesTheContract ==
  ASSUME TasksInv, NEW t \in Tasks, Land(t)
  PROVE  Chain!Next
<1> PICK task : task = tasks[t]
  OBVIOUS
<1>1. task \in Rewriting \cup Delisting /\ Executes(task)
  BY DEF Land, TasksInv, TaskType, NoTask, Done
<1>2. task.id \in Ids /\ Platform \in Accounts
  BY <1>1, OwnershipAssumption DEF Rewriting, Delisting
<1>3. CASE task \in Rewriting /\ task.column = "price"
  <2>1. task.signed \in Prices
    BY <1>3 DEF TasksInv, TaskOK, Values
  <2>2. QED
    BY <1>1, <1>2, <1>3, <2>1 DEF Executes, Chain!Next
<1>4. CASE task \in Rewriting /\ task.column = "wallet"
  <2>1. task.signed \in Accounts
    BY <1>4 DEF TasksInv, TaskOK, Values
  <2>2. QED
    BY <1>1, <1>2, <1>4, <2>1 DEF Executes, Chain!Next
<1>5. CASE task \in Delisting
  BY <1>1, <1>2, <1>5 DEF Executes, Chain!Next, Delisting
<1>6. QED
  BY <1>1, <1>3, <1>4, <1>5 DEF Rewriting

(* The registry seen through the listener and the routes is the contract:  *)
(* every step is one of its entry points or leaves it alone.               *)
THEOREM OwnersUseTheContract == OwnerSpec => Chain!Spec
<1>1. OwnerInit => Chain!Init
  BY DEF OwnerInit, Init
<1>2. ASSUME TasksInv, [OwnerNext]_ownerVars PROVE [Chain!Next]_(Chain!vars)
  <2>1. CASE Listener
    BY <2>1, ListenerIsNext, InvokeUsesTheContract DEF Next, CloseLedger, PollStep, FirstPoll, Poll,
      Handle, Save, HandlerFails, Stop, contract, Chain!vars
  <2>2. CASE \E t \in Tasks : Land(t)
    BY <1>2, <2>2, LandUsesTheContract
  <2>3. CASE UNCHANGED contract
    BY <2>3 DEF contract, Chain!vars
  <2>4. QED
    BY <1>2, <2>1, <2>2, <2>3 DEF OwnerNext, PostChange, Fail, Confirm, GiveUp, Delete, Judge,
      MarkRegistered, Audit, StartAudit, CheckRow, CountEntries, CheckListing, vars, ownerVars
<1>3. QED
  BY <1>1, <1>2, OwnerSyncInductive, PTL DEF OwnerSpec, Chain!Spec

----------------------------------------------------------------------------
(* The requests of a process. *)

(* The counter.  A response has been released once it has emitted anything, *)
(* and only finitely many are open.                                         *)
CountInv ==
  /\ answer \in [Request -> {"none", "waiting", "sent"}]
  /\ emitted \in [Request -> SUBSET {"finish", "close"}]
  /\ \A q \in Request : /\ q \in settled <=> emitted[q] # {}
                        /\ answer[q] = "none" => emitted[q] = {}
  /\ IsFiniteSet(Open) /\ inFlight = Cardinality(Open)

(* What the shutdown still owes is open; and a drain that its deadline did *)
(* not end owes nothing.                                                   *)
DrainInv ==
  /\ owed \subseteq Open
  /\ phase = "closing" /\ ~timedOut => owed = {}
  /\ phase = "exited" /\ exitCode = 0 => owed = {}

RequestInv == CountInv /\ DrainInv

----------------------------------------------------------------------------
(* A response more, one less, and an answer to one. *)
LEMMA OneMore ==
  ASSUME CountInv, NEW q \in Request, Arrive(q)
  PROVE  CountInv' /\ Open' = Open \cup {q}
<1>1. /\ q \notin Asking /\ answer' = [answer EXCEPT ![q] = "waiting"]
      /\ inFlight' = inFlight + 1 /\ emitted' = emitted /\ settled' = settled
  BY DEF Arrive
<1>2. answer[q] = "none" /\ emitted[q] = {}
  BY <1>1 DEF CountInv, Asking
<1>3. answer' \in [Request -> {"none", "waiting", "sent"}]
  BY <1>1 DEF CountInv
<1>4. Open' = Open \cup {q} /\ q \notin Open
  BY <1>1, <1>2 DEF CountInv, Open, Asking
<1>5. IsFiniteSet(Open \cup {q}) /\ Cardinality(Open \cup {q}) = Cardinality(Open) + 1
  BY <1>4, FS_AddElement DEF CountInv
<1>6. \A p \in Request : answer'[p] = "none" => answer[p] = "none"
  BY <1>1 DEF CountInv
<1>7. QED
  BY <1>1, <1>3, <1>4, <1>5, <1>6 DEF CountInv

(* The first event of a response counts, and no later one does. *)
LEMMA OneLess ==
  ASSUME CountInv, NEW q \in Request, NEW event \in {"finish", "close"}, Emits(q, event)
  PROVE  CountInv' /\ Open' = Open \ {q}
<1>1. /\ q \in Asking /\ emitted' = [emitted EXCEPT ![q] = @ \cup {event}]
      /\ answer' = answer /\ settled' = settled \cup {q}
      /\ inFlight' = IF q \in settled THEN inFlight ELSE Decremented(inFlight)
  BY DEF Emits, Release
<1>2. emitted' \in [Request -> SUBSET {"finish", "close"}]
  BY <1>1 DEF CountInv
<1>3. \A p \in Request : emitted'[p] = IF p = q THEN emitted[p] \cup {event} ELSE emitted[p]
  BY <1>1 DEF CountInv
<1>4. Open' = Open \ {q}
  BY <1>1, <1>3 DEF Open, Asking
<1>5. \A p \in Request : /\ p \in settled' <=> emitted'[p] # {}
                         /\ answer'[p] = "none" => emitted'[p] = {}
  BY <1>1, <1>3 DEF CountInv, Asking
<1>6. IsFiniteSet(Open \ {q}) /\ inFlight' = Cardinality(Open \ {q})
  <2>1. CASE q \in settled
    <3>1. q \notin Open
      BY <2>1 DEF CountInv, Open
    <3>2. Open \ {q} = Open
      BY <3>1
    <3>3. QED
      BY <1>1, <2>1, <3>2 DEF CountInv
  <2>2. CASE q \notin settled
    <3>1. q \in Open
      BY <1>1, <2>2 DEF CountInv, Open
    <3>2. /\ IsFiniteSet(Open \ {q}) /\ Cardinality(Open \ {q}) = Cardinality(Open) - 1
          /\ Cardinality(Open) \in Nat /\ Cardinality(Open) # 0
      BY <3>1, FS_RemoveElement, FS_CardinalityType, FS_EmptySet DEF CountInv
    <3>3. QED
      BY <1>1, <2>2, <3>2 DEF Decremented, CountInv
  <2>3. QED
    BY <2>1, <2>2
<1>7. QED
  BY <1>1, <1>2, <1>4, <1>5, <1>6 DEF CountInv

LEMMA AnswerPreserves ==
  ASSUME RequestInv, NEW q \in Asking, Respond(q), UNCHANGED lifecycle
  PROVE  RequestInv'
<1>1. answer' = [answer EXCEPT ![q] = "sent"] /\ UNCHANGED <<inFlight, emitted, settled>>
  BY DEF Respond
<1>2. answer' \in [Request -> {"none", "waiting", "sent"}]
  BY <1>1 DEF RequestInv, CountInv
<1>3. q \in Request /\ \A p \in Request : answer'[p] = "none" <=> answer[p] = "none"
  BY <1>1 DEF RequestInv, CountInv, Asking
<1>4. Open' = Open
  BY <1>1, <1>3 DEF Open, Asking
<1>5. QED
  BY <1>1, <1>2, <1>3, <1>4 DEF RequestInv, CountInv, DrainInv, lifecycle

LEMMA NobodyLeaves ==
  ASSUME RequestInv, UNCHANGED <<lifecycle, sockets>>
  PROVE  RequestInv'
BY DEF RequestInv, CountInv, DrainInv, Open, Asking, lifecycle, sockets

(* A handler that has begun belongs to a request that came in. *)
HandlerInv ==
  /\ handler \in [Request -> {"none", "arrived", "running", "done"}]
  /\ \A q \in Request : handler[q] # "none" => answer[q] # "none"

LEMMA EndsPreserves ==
  ASSUME RequestInv, HandlerInv, NEW q \in Request, handler[q] # "none",
         Ends(q), UNCHANGED lifecycle
  PROVE  RequestInv'
BY AnswerPreserves DEF Ends, HandlerInv, Asking

----------------------------------------------------------------------------
LEMMA RequestInit == RequestsInit => RequestInv /\ HandlerInv
<1>1. SUFFICES ASSUME RequestsInit PROVE RequestInv /\ HandlerInv
  OBVIOUS
<1>2. Open = {}
  BY <1>1 DEF RequestsInit, Open, Asking
<1>3. QED
  BY <1>1, <1>2, FS_EmptySet DEF RequestsInit, RequestInv, CountInv, DrainInv, HandlerInv

LEMMA HandlerStep ==
  ASSUME RequestInv, HandlerInv, [RequestsNext]_requestsVars
  PROVE  HandlerInv'
<1>1. ASSUME NEW q \in Request, Arrive(q) PROVE HandlerInv'
  BY <1>1 DEF Arrive, HandlerInv, RequestInv, CountInv
<1>2. ASSUME NEW q \in Request, Admit(q) PROVE HandlerInv'
  BY <1>2 DEF Admit, Ends, Respond, sockets, HandlerInv, RequestInv, CountInv
<1>3. ASSUME NEW q \in Request, FailOpen(q) PROVE HandlerInv'
  BY <1>3 DEF FailOpen, sockets, HandlerInv, RequestInv, CountInv
<1>4. ASSUME NEW q \in Request, Finish(q) PROVE HandlerInv'
  BY <1>4 DEF Finish, Ends, Respond, HandlerInv, RequestInv, CountInv
<1>5. ASSUME NEW q \in Request, Timeout(q) PROVE HandlerInv'
  BY <1>5 DEF Timeout, Respond, HandlerInv, RequestInv, CountInv
<1>6. ASSUME NEW q \in Request, NEW event \in {"finish", "close"}, Emits(q, event)
      PROVE  HandlerInv'
  BY <1>6 DEF Emits, HandlerInv
<1>7. CASE BeginShutdown \/ Drained \/ Deadline \/ \E closed \in BOOLEAN : Exit(closed)
  BY <1>7 DEF BeginShutdown, Drained, Deadline, Exit, sockets, HandlerInv
<1>8. CASE UNCHANGED requestsVars
  BY <1>8 DEF requestsVars, sockets, HandlerInv
<1>9. QED
  BY <1>1, <1>2, <1>3, <1>4, <1>5, <1>6, <1>7, <1>8 DEF RequestsNext

LEMMA RequestStep ==
  ASSUME RequestInv, HandlerInv, [RequestsNext]_requestsVars
  PROVE  RequestInv'
<1>1. ASSUME NEW q \in Request, Arrive(q) PROVE RequestInv'
  <2>1. CountInv' /\ Open' = Open \cup {q}
    BY <1>1, OneMore DEF RequestInv
  <2>2. UNCHANGED lifecycle
    BY <1>1 DEF Arrive
  <2>3. DrainInv'
    BY <2>1, <2>2 DEF RequestInv, DrainInv, lifecycle
  <2>4. QED
    BY <2>1, <2>3 DEF RequestInv
<1>2. ASSUME NEW q \in Request, Admit(q) PROVE RequestInv'
  <2>1. CASE Ends(q)
    BY <1>2, <2>1, EndsPreserves DEF Admit
  <2>2. CASE UNCHANGED sockets
    BY <1>2, <2>2, NobodyLeaves DEF Admit
  <2>3. QED
    BY <1>2, <2>1, <2>2 DEF Admit
<1>3. ASSUME NEW q \in Request, FailOpen(q) PROVE RequestInv'
  BY <1>3, NobodyLeaves DEF FailOpen
<1>4. ASSUME NEW q \in Request, Finish(q) PROVE RequestInv'
  BY <1>4, EndsPreserves DEF Finish
<1>5. ASSUME NEW q \in Request, Timeout(q) PROVE RequestInv'
  BY <1>5, AnswerPreserves DEF Timeout, Waiting, Asking
<1>6. ASSUME NEW q \in Request, NEW event \in {"finish", "close"}, Emits(q, event)
      PROVE  RequestInv'
  <2>1. CountInv' /\ Open' = Open \ {q}
    BY <1>6, OneLess DEF RequestInv
  <2>2. owed' = owed \ {q} /\ UNCHANGED <<phase, timedOut, exitCode>>
    BY <1>6 DEF Emits
  <2>3. DrainInv'
    BY <2>1, <2>2 DEF RequestInv, DrainInv
  <2>4. QED
    BY <2>1, <2>3 DEF RequestInv
<1>7. CASE BeginShutdown
  BY <1>7 DEF BeginShutdown, RequestInv, CountInv, DrainInv, Open, Asking, sockets
<1>8. CASE Drained
  (* nothing is open when the counter is zero *)
  <2>1. owed = {}
    BY <1>8, FS_EmptySet DEF Drained, RequestInv, CountInv, DrainInv
  <2>2. QED
    BY <1>8, <2>1 DEF Drained, RequestInv, CountInv, DrainInv, Open, Asking, sockets
<1>9. CASE Deadline
  BY <1>9 DEF Deadline, RequestInv, CountInv, DrainInv, Open, Asking, sockets
<1>10. ASSUME NEW closed \in BOOLEAN, Exit(closed) PROVE RequestInv'
  <2>1. exitCode' = 0 => owed = {}
    <3>1. SUFFICES ASSUME exitCode' = 0 PROVE owed = {}
      OBVIOUS
    <3>2. ~timedOut \/ ~(inFlight > 0)
      BY <1>10, <3>1 DEF Exit
    <3>3. CASE ~timedOut
      BY <1>10, <3>3 DEF Exit, RequestInv, DrainInv
    <3>4. CASE ~(inFlight > 0)
      BY <3>4, FS_EmptySet, FS_CardinalityType DEF RequestInv, CountInv, DrainInv
    <3>5. QED
      BY <3>2, <3>3, <3>4
  <2>2. QED
    BY <1>10, <2>1 DEF Exit, RequestInv, CountInv, DrainInv, Open, Asking, sockets
<1>11. CASE UNCHANGED requestsVars
  BY <1>11, NobodyLeaves DEF requestsVars
<1>12. QED
  BY <1>1, <1>2, <1>3, <1>4, <1>5, <1>6, <1>7, <1>8, <1>9, <1>10, <1>11 DEF RequestsNext

LEMMA RequestSafety == RequestInv => CountIsExact /\ ExitZeroMeansServed
BY DEF RequestInv, CountInv, DrainInv, CountIsExact, ExitZeroMeansServed

(* The counter of lifecycle.ts is exact for any number of requests, however *)
(* "finish" and "close" of their responses come: it is the flag of          *)
(* inFlight.ts that keeps the second of the two from counting again.        *)
THEOREM CountExact == RequestsSpec => []CountIsExact
BY RequestInit, RequestStep, HandlerStep, RequestSafety, PTL DEF RequestsSpec

(* gracefulShutdown exits with 0 only when every response that was open as *)
(* it began has been sent in full or given up by its client, whoever       *)
(* arrived on the way.                                                     *)
THEOREM CleanExitServed == RequestsSpec => []ExitZeroMeansServed
BY RequestInit, RequestStep, HandlerStep, RequestSafety, PTL DEF RequestsSpec
----------------------------------------------------------------------------
(* The limits.  What a limit remembers is the end of what it has accepted, *)
(* in the order of time, and what it has dropped has left every window.    *)

Remembers(kept, all, time) ==
  /\ kept \in Seq(Nat) /\ all \in Seq(Nat) /\ Len(kept) <= Len(all)
  /\ \A i \in 1 .. Len(kept) : kept[i] = all[Len(all) - Len(kept) + i]
  /\ \A i \in 1 .. Len(all) - Len(kept) : all[i] + Window <= time
  /\ \A i, j \in 1 .. Len(all) : i <= j => all[i] <= all[j]
  /\ \A i \in 1 .. Len(all) : all[i] <= time

Spaced(all, most) ==
  \A i \in DOMAIN all : i + most \in DOMAIN all => all[i + most] >= all[i] + Window

LimitInv ==
  /\ now \in Nat
  /\ log = [l \in Limiter |-> log[l]] /\ accepted = [l \in Limiter |-> accepted[l]]
  /\ \A l \in Limiter : Remembers(log[l], accepted[l], now) /\ Spaced(accepted[l], LimitOf[l])

(* The position in a sequence of length m of what is at i in the last n. *)
LEMMA Position ==
  ASSUME NEW m \in Nat, NEW n \in Nat, n <= m, NEW i \in 1 .. n
  PROVE  m - n + i \in 1 .. m
  OBVIOUS

LEMMA Shift ==
  ASSUME NEW m \in Nat, NEW n \in Nat, NEW a \in Nat, NEW i \in Int
  PROVE  m - n + (n - a + i) = m - a + i
  OBVIOUS

(* What stands c or more before the end stands before the last a < c.       *)
LEMMA Before ==
  ASSUME NEW m \in Nat, NEW a \in Nat, NEW c \in Nat, a < c, NEW i \in 1 .. m, i + c = m + 1
  PROVE  i \in 1 .. m - a
  OBVIOUS

LEMMA LimitInit == RequestsInit => LimitInv
<1> SUFFICES ASSUME RequestsInit PROVE LimitInv
  OBVIOUS
<1>1. now = 0 /\ log = [l \in Limiter |-> <<>>] /\ accepted = log
  BY DEF RequestsInit
<1>2. Remembers(<<>>, <<>>, 0) /\ \A most : Spaced(<<>>, most)
  BY DEF Remembers, Spaced
<1>3. QED
  BY <1>1, <1>2 DEF LimitInv

(* The requests inside the window are the last of the log. *)
LEMMA ActiveIsSuffix ==
  ASSUME LimitInv, NEW l \in Limiter, NEW t \in Nat, now <= t
  PROVE  /\ Cardinality(InWindow(l, t)) \in 0 .. Len(log[l])
         /\ \A i \in 1 .. Len(log[l]) - Cardinality(InWindow(l, t)) : log[l][i] + Window <= t
<1> PICK n : n = Len(log[l])
  OBVIOUS
<1> DEFINE S == InWindow(l, t)
<1>1. log[l] \in Seq(Nat) /\ Window \in Nat
  BY RequestAssumption DEF LimitInv, Remembers
<1>2. n \in Nat /\ DOMAIN log[l] = 1 .. n /\ \A j \in 1 .. n : log[l][j] \in Nat
  BY <1>1
<1>3. S \subseteq 1 .. n
  BY <1>2 DEF InWindow
<1>4. IsFiniteSet(1 .. n) /\ Cardinality(1 .. n) = n
  BY <1>2, FS_Interval
<1>5. IsFiniteSet(S) /\ Cardinality(S) <= n
  BY <1>3, <1>4, FS_Subset
<1>6. Cardinality(S) \in Nat
  BY <1>5, FS_CardinalityType
<1>7. \A i, j \in 1 .. n : i <= j => log[l][i] <= log[l][j]
  <2> PICK m : m = Len(accepted[l])
    OBVIOUS
  <2>0. accepted[l] \in Seq(Nat) /\ n <= m
    BY DEF LimitInv, Remembers
  <2>1. m \in Nat /\ n <= m
    BY <2>0
  <2>2. ASSUME NEW i \in 1 .. n, NEW j \in 1 .. n, i <= j PROVE log[l][i] <= log[l][j]
    <3>1. m - n + i \in 1 .. m /\ m - n + j \in 1 .. m /\ m - n + i <= m - n + j
      <4>1. n \in Nat /\ m \in Nat /\ n <= m
        BY <1>2, <2>1
      <4>2. m - n + i <= m - n + j
        BY <2>2, <4>1
      <4>3. QED
        BY <4>1, <4>2, Position
    <3>2. /\ log[l][i] = accepted[l][m - n + i] /\ log[l][j] = accepted[l][m - n + j]
          /\ accepted[l][m - n + i] <= accepted[l][m - n + j]
      BY <3>1 DEF LimitInv, Remembers
    <3>3. QED
      BY <3>2
  <2>3. QED
    BY <2>2
<1>8. ASSUME NEW i \in 1 .. n - Cardinality(S), ~(log[l][i] + Window <= t)
      PROVE  FALSE
  <2>1. i \in 1 .. n /\ i <= n - Cardinality(S)
    BY <1>2, <1>6
  <2>2. ASSUME NEW j \in i .. n PROVE j \in S
    <3>1. j \in 1 .. n /\ i <= j
      BY <1>2, <2>1
    <3>2. log[l][i] <= log[l][j] /\ log[l][i] \in Nat /\ log[l][j] \in Nat
      BY <1>2, <1>7, <2>1, <3>1
    <3>3. log[l][j] + Window > t
      BY <1>1, <1>8, <3>2
    <3>4. QED
      BY <1>2, <3>1, <3>3 DEF InWindow
  <2>3. Cardinality(i .. n) = n - i + 1
    BY <1>2, <2>1, FS_Interval
  <2>4. i .. n \subseteq S
    BY <2>2
  <2>5. Cardinality(i .. n) <= Cardinality(S)
    BY <1>5, <2>4, FS_Subset
  <2>6. QED
    BY <1>2, <1>6, <2>1, <2>3, <2>5
<1>9. QED
  BY <1>2, <1>5, <1>6, <1>8

LEMMA ActiveShape ==
  ASSUME LimitInv, NEW l \in Limiter, NEW t \in Nat, now <= t
  PROVE  LET a == Cardinality(InWindow(l, t))
             n == Len(log[l])
         IN /\ Active(l, t) \in Seq(Nat) /\ Len(Active(l, t)) = a
            /\ \A i \in 1 .. a : Active(l, t)[i] = log[l][n - a + i]
<1> PICK n : n = Len(log[l])
  OBVIOUS
<1> PICK a : a = Cardinality(InWindow(l, t))
  OBVIOUS
<1>1. a \in 0 .. n
  BY ActiveIsSuffix
<1>2. log[l] \in Seq(Nat) /\ n \in Nat
  BY DEF LimitInv, Remembers
<1>3. Active(l, t) = SubSeq(log[l], n - a + 1, n)
  BY DEF Active
<1>4. n - a + 1 \in Int /\ n \in Int /\ n - (n - a + 1) + 1 = a
      /\ (n - a + 1 <= n => 0 < a) /\ (~(n - a + 1 <= n) => a = 0)
  BY <1>1, <1>2
<1>5. \A i \in n - a + 1 .. n : log[l][i] \in Nat
  BY <1>1, <1>2
<1> PICK first : first = n - a + 1
  OBVIOUS
<1>6. /\ SubSeq(log[l], first, n) \in Seq(Nat)
      /\ Len(SubSeq(log[l], first, n)) = IF first <= n THEN n - first + 1 ELSE 0
      /\ \A i \in 1 .. n - first + 1 : SubSeq(log[l], first, n)[i] = log[l][first + i - 1]
  <2>1. first \in Int /\ n \in Int /\ \A i \in first .. n : log[l][i] \in Nat
    BY <1>4, <1>5
  <2>2. QED
    BY ONLY <2>1, SubSeqProperties
<1>7. n - first + 1 = a /\ (IF first <= n THEN n - first + 1 ELSE 0) = a
  BY <1>1, <1>2
<1>8. \A i \in 1 .. a : first + i - 1 = n - a + i
  BY <1>1, <1>2
<1>9. Active(l, t) = SubSeq(log[l], first, n)
  BY <1>3
<1>10. /\ Active(l, t) \in Seq(Nat) /\ Len(Active(l, t)) = a
       /\ \A i \in 1 .. a : Active(l, t)[i] = log[l][n - a + i]
  BY ONLY <1>6, <1>7, <1>8, <1>9
<1>11. QED
  BY <1>10

(* After time t the log of a limit is what was still inside the window. *)
LEMMA Dropped ==
  ASSUME LimitInv, NEW l \in Limiter, NEW t \in Nat, now <= t
  PROVE  Remembers(Active(l, t), accepted[l], t)
<1> PICK m : m = Len(accepted[l])
  OBVIOUS
<1> PICK n : n = Len(log[l])
  OBVIOUS
<1> PICK a : a = Cardinality(InWindow(l, t))
  OBVIOUS
<1> PICK active : active = Active(l, t)
  OBVIOUS
<1>1. /\ n <= m /\ \A i \in 1 .. n : log[l][i] = accepted[l][m - n + i]
      /\ \A i \in 1 .. m - n : accepted[l][i] + Window <= now
      /\ \A i, j \in 1 .. m : i <= j => accepted[l][i] <= accepted[l][j]
      /\ \A i \in 1 .. m : accepted[l][i] <= now
      /\ accepted[l] \in Seq(Nat) /\ log[l] \in Seq(Nat) /\ now \in Nat
  BY DEF LimitInv, Remembers
<1>2. n \in Nat /\ m \in Nat /\ n <= m /\ Window \in Nat /\ now \in Nat
  BY <1>1, RequestAssumption
<1>3. \A i \in 1 .. n - a : log[l][i] + Window <= t
  BY ActiveIsSuffix
<1>4. a \in 0 .. n
  BY ActiveIsSuffix
<1>5. active \in Seq(Nat) /\ Len(active) = a /\ \A i \in 1 .. a : active[i] = log[l][n - a + i]
  BY ActiveShape
<1>6. \A i \in 1 .. m : accepted[l][i] \in Nat
  BY <1>1
<1>7. ASSUME NEW i \in 1 .. a PROVE active[i] = accepted[l][m - a + i]
  <2>1. n - a + i \in 1 .. n
    BY <1>4, <1>2, Position
  <2>2. m - n + (n - a + i) = m - a + i
    <3>1. m \in Nat /\ n \in Nat /\ i \in Int
      BY <1>2
    <3>2. a \in Nat
      BY <1>2, <1>4
    <3>3. QED
      BY ONLY <3>1, <3>2, Shift
  <2>3. QED
    BY <1>1, <1>5, <2>1, <2>2
<1>8. ASSUME NEW i \in 1 .. m - a PROVE accepted[l][i] + Window <= t
  <2>1. CASE i <= m - n
    <3>1. i \in 1 .. m - n /\ i \in 1 .. m
      BY <1>4, <1>2, <2>1
    <3>2. accepted[l][i] + Window <= now /\ accepted[l][i] \in Nat
      BY <1>1, <1>6, <3>1
    <3>3. QED
      BY <1>2, <3>2
  <2>2. CASE ~(i <= m - n)
    <3>1. PICK d \in 1 .. n - a : d \in 1 .. n /\ m - n + d = i
      <4>1. m \in Nat /\ n \in Nat /\ n <= m
        BY <1>2
      <4>2. a \in Nat /\ a <= n
        BY <1>2, <1>4
      <4>3. i \in Int /\ i <= m - a
        BY <4>1, <4>2
      <4>4. i - (m - n) \in 1 .. n - a /\ i - (m - n) \in 1 .. n /\ m - n + (i - (m - n)) = i
        BY ONLY <2>2, <4>1, <4>2, <4>3
      <4>5. QED
        BY ONLY <4>4
    <3>2. log[l][d] = accepted[l][i]
      BY <1>1, <3>1
    <3>3. QED
      BY <1>3, <3>1, <3>2
  <2>3. QED
    BY <2>1, <2>2
<1>9. ASSUME NEW i \in 1 .. m PROVE accepted[l][i] <= t
  <2>1. accepted[l][i] <= now /\ accepted[l][i] \in Nat
    BY <1>1, <1>6
  <2>2. QED
    BY <1>2, <2>1
<1>10. a <= m
  BY <1>4, <1>2
<1>11. QED
  BY <1>1, <1>5, <1>7, <1>8, <1>9, <1>10 DEF Remembers

(* One more accepted request is remembered. *)
LEMMA Appended ==
  ASSUME NEW kept, NEW all, NEW t \in Nat, Remembers(kept, all, t)
  PROVE  Remembers(Append(kept, t), Append(all, t), t)
<1> PICK m : m = Len(all)
  OBVIOUS
<1> PICK n : n = Len(kept)
  OBVIOUS
<1> PICK more : more = Append(all, t)
  OBVIOUS
<1> PICK longer : longer = Append(kept, t)
  OBVIOUS
<1>1. /\ kept \in Seq(Nat) /\ all \in Seq(Nat) /\ n <= m /\ n \in Nat /\ m \in Nat
      /\ \A i \in 1 .. n : kept[i] = all[m - n + i]
      /\ \A i \in 1 .. m - n : all[i] + Window <= t
      /\ \A i, j \in 1 .. m : i <= j => all[i] <= all[j]
      /\ \A i \in 1 .. m : all[i] <= t
  BY DEF Remembers
<1>2. /\ more \in Seq(Nat) /\ Len(more) = m + 1 /\ more[m + 1] = t
      /\ \A i \in 1 .. m : more[i] = all[i]
  BY <1>1
<1>3. /\ longer \in Seq(Nat) /\ Len(longer) = n + 1 /\ longer[n + 1] = t
      /\ \A i \in 1 .. n : longer[i] = kept[i]
  BY <1>1
<1>4. n \in Nat /\ m \in Nat /\ n <= m
  BY <1>1
<1>5. ASSUME NEW i \in 1 .. n + 1 PROVE longer[i] = more[(m + 1) - (n + 1) + i]
  <2>1. CASE i = n + 1
    <3>1. (m + 1) - (n + 1) + i = m + 1
      BY <1>4, <2>1
    <3>2. QED
      BY <1>2, <1>3, <2>1, <3>1
  <2>2. CASE i # n + 1
    <3>1. i \in 1 .. n /\ (m + 1) - (n + 1) + i = m - n + i /\ m - n + i \in 1 .. m
      BY <1>4, <2>2
    <3>2. QED
      BY <1>1, <1>2, <1>3, <3>1
  <2>3. QED
    BY <2>1, <2>2
<1>6. ASSUME NEW i \in 1 .. (m + 1) - (n + 1) PROVE more[i] + Window <= t
  <2>1. i \in 1 .. m - n /\ i \in 1 .. m
    BY <1>4
  <2>2. QED
    BY <1>1, <1>2, <2>1
<1>7. ASSUME NEW i \in 1 .. m + 1 PROVE more[i] <= t
  <2>1. i \in 1 .. m \/ i = m + 1
    BY <1>4
  <2>2. QED
    BY <1>1, <1>2, <2>1
<1>8. ASSUME NEW i \in 1 .. m + 1, NEW j \in 1 .. m + 1, i <= j PROVE more[i] <= more[j]
  <2>1. CASE j = m + 1
    BY <1>2, <1>7, <2>1
  <2>2. CASE j # m + 1
    <3>1. i \in 1 .. m /\ j \in 1 .. m
      BY <1>4, <1>8, <2>2
    <3>2. QED
      BY <1>1, <1>2, <1>8, <3>1
  <2>3. QED
    BY <2>1, <2>2
<1>9. n + 1 <= m + 1
  BY <1>4
<1>10. QED
  BY <1>2, <1>3, <1>5, <1>6, <1>7, <1>8, <1>9 DEF Remembers

(* At a time at which the window is not full, the requests a limit may     *)
(* accept in it before cannot all be inside it.                            *)
LEMMA StaysSpaced ==
  ASSUME LimitInv, NEW l \in Limiter, NEW t \in Nat, now <= t, ~Full(l, t)
  PROVE  Spaced(Append(accepted[l], t), LimitOf[l])
<1> PICK m : m = Len(accepted[l])
  OBVIOUS
<1> PICK a : a = Cardinality(InWindow(l, t))
  OBVIOUS
<1> PICK c : c = LimitOf[l]
  OBVIOUS
<1> PICK more : more = Append(accepted[l], t)
  OBVIOUS
<1>1. accepted[l] \in Seq(Nat) /\ m \in Nat /\ DOMAIN accepted[l] = 1 .. m
  BY DEF LimitInv, Remembers
<1>2. /\ DOMAIN more = 1 .. m + 1 /\ more[m + 1] = t
      /\ \A i \in 1 .. m : more[i] = accepted[l][i]
  BY <1>1
<1>3. c \in Nat \ {0} /\ Window \in Nat
  BY RequestAssumption
<1>4. a \in Nat
  <2>1. a \in 0 .. Len(log[l])
    BY ActiveIsSuffix
  <2>2. QED
    BY <2>1
<1>5. a < c
  BY <1>3, <1>4 DEF Full
<1>6. \A i \in 1 .. m - a : accepted[l][i] + Window <= t
  <2>1. Remembers(Active(l, t), accepted[l], t) /\ Len(Active(l, t)) = a
    BY Dropped, ActiveShape
  <2>2. QED
    BY <2>1 DEF Remembers
<1>7. ASSUME NEW i \in 1 .. m + 1, i + c \in 1 .. m + 1
      PROVE  more[i + c] >= more[i] + Window
  <2>1. i \in 1 .. m
    BY <1>1, <1>3, <1>7
  <2>2. accepted[l][i] \in Nat
    BY <1>1, <2>1
  <2>3. CASE i + c = m + 1
    <3>1. i \in 1 .. m - a
      <4>1. m \in Nat /\ c \in Nat
        BY <1>1, <1>3
      <4>2. QED
        BY ONLY <1>4, <1>5, <2>1, <2>3, <4>1, Before
    <3>2. accepted[l][i] + Window <= t
      BY <1>6, <3>1
    <3>3. more[i] = accepted[l][i] /\ more[i + c] = t
      BY <1>2, <2>1, <2>3
    <3>4. QED
      BY <1>3, <2>2, <3>2, <3>3
  <2>4. CASE i + c # m + 1
    <3>1. i + c \in 1 .. m
      <4>1. m \in Nat /\ c \in Nat
        BY <1>1, <1>3
      <4>2. QED
        BY <1>7, <2>1, <2>4, <4>1
    <3>2. accepted[l][i + c] >= accepted[l][i] + Window
      BY <1>1, <2>1, <3>1 DEF LimitInv, Spaced
    <3>3. QED
      BY <1>2, <2>1, <3>1, <3>2
  <2>5. QED
    BY <2>3, <2>4
<1>8. QED
  BY <1>2, <1>7 DEF Spaced

(* A log that is not asked ages. *)
LEMMA Ages ==
  ASSUME NEW kept, NEW all, NEW time \in Nat, NEW t \in Nat, time <= t,
         Remembers(kept, all, time)
  PROVE  Remembers(kept, all, t)
<1>1. all \in Seq(Nat) /\ kept \in Seq(Nat) /\ Window \in Nat /\ Len(kept) <= Len(all)
  BY RequestAssumption DEF Remembers
<1>2. \A i \in 1 .. Len(all) : all[i] \in Nat
  BY <1>1
<1>3. ASSUME NEW i \in 1 .. Len(all) PROVE all[i] <= t
  <2>1. all[i] <= time /\ all[i] \in Nat
    BY <1>2 DEF Remembers
  <2>2. QED
    BY <2>1
<1>4. ASSUME NEW i \in 1 .. Len(all) - Len(kept) PROVE all[i] + Window <= t
  <2>1. i \in 1 .. Len(all)
    BY <1>1
  <2>2. all[i] + Window <= time /\ all[i] \in Nat
    BY <1>2, <2>1 DEF Remembers
  <2>3. QED
    BY <1>1, <2>2
<1>5. QED
  BY <1>3, <1>4 DEF Remembers

LEMMA ConsumeKeepsLimits ==
  ASSUME LimitInv, NEW asked \in Seq(Limiter), NEW t \in Nat, now <= t, Consume(asked, t)
  PROVE  LimitInv'
<1> DEFINE refusing == {i \in DOMAIN asked : Full(asked[i], t)}
           counts(l) == \E i \in DOMAIN asked : asked[i] = l /\ \A j \in refusing : i < j
           drops(l) == \E i \in DOMAIN asked : asked[i] = l /\ \A j \in refusing : i <= j
<1>1. /\ now' = t
      /\ log' = [l \in Limiter |-> IF counts(l) THEN Append(Active(l, t), t)
                                   ELSE IF drops(l) THEN Active(l, t) ELSE log[l]]
      /\ accepted' = [l \in Limiter |-> IF counts(l) THEN Append(accepted[l], t)
                                        ELSE accepted[l]]
  BY DEF Consume
<1>2. ASSUME NEW l \in Limiter
      PROVE  Remembers(log'[l], accepted'[l], t) /\ Spaced(accepted'[l], LimitOf[l])
  <2>1. Remembers(Active(l, t), accepted[l], t)
    BY Dropped
  <2>2. CASE counts(l)
    <3>1. log'[l] = Append(Active(l, t), t) /\ accepted'[l] = Append(accepted[l], t)
      BY <1>1, <2>2
    <3>2. ~Full(l, t)
      <4>1. PICK i \in DOMAIN asked : asked[i] = l /\ \A j \in refusing : i < j
        BY <2>2
      <4>2. i \in Int
        OBVIOUS
      <4>3. SUFFICES ASSUME Full(l, t) PROVE FALSE
        OBVIOUS
      <4>4. i \in refusing
        BY <4>1, <4>3
      <4>5. i < i
        BY <4>1, <4>4
      <4>6. QED
        BY <4>2, <4>5
    <3>3. QED
      BY <2>1, <3>1, <3>2, Appended, StaysSpaced
  <2>3. CASE ~counts(l)
    <3>1. accepted'[l] = accepted[l] /\ (log'[l] = Active(l, t) \/ log'[l] = log[l])
      BY <1>1, <2>3
    <3>2. Remembers(log[l], accepted[l], t)
      BY Ages DEF LimitInv
    <3>3. QED
      BY <2>1, <3>1, <3>2 DEF LimitInv
  <2>4. QED
    BY <2>2, <2>3
<1>3. log' = [l \in Limiter |-> log'[l]] /\ accepted' = [l \in Limiter |-> accepted'[l]]
  BY <1>1
<1>4. QED
  BY <1>1, <1>2, <1>3 DEF LimitInv

(* No window of the length of a limit's sees more requests accepted than   *)
(* the limit, for any limits, routes, windows and arrival times            *)
(* (MemorySlidingWindowStore in stores.ts).                                *)
THEOREM WindowsRespected == RequestsSpec => []WindowRespected
<1>1. LimitInv /\ [RequestsNext]_requestsVars => LimitInv'
  <2>1. SUFFICES ASSUME LimitInv, [RequestsNext]_requestsVars PROVE LimitInv'
    OBVIOUS
  <2>2. ASSUME NEW q \in Request, Admit(q) PROVE LimitInv'
    <3>1. PICK t \in now .. MaxTime : Consume(Asked[q], t)
      BY <2>2 DEF Admit
    <3>2. now \in Nat
      BY <2>1 DEF LimitInv
    <3>3. t \in Nat /\ now <= t /\ Asked[q] \in Seq(Limiter)
      BY <3>2, RequestAssumption
    <3>4. QED
      BY <2>1, <3>1, <3>3, ConsumeKeepsLimits
  <2>3. CASE UNCHANGED limits
    BY <2>1, <2>3 DEF limits, LimitInv
  <2>4. QED
    BY <2>1, <2>2, <2>3 DEF RequestsNext, Arrive, FailOpen, Finish, Timeout, Emits,
      BeginShutdown, Drained, Deadline, Exit, requestsVars
<1>2. LimitInv => WindowRespected
  BY DEF LimitInv, Spaced, WindowRespected
<1>3. QED
  BY LimitInit, <1>1, <1>2, PTL DEF RequestsSpec
=============================================================================
