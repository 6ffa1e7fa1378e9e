-------------------------- MODULE RegistrationProofs --------------------------
(***************************************************************************)
(* Proofs about the registration of resources, for any number of rows,     *)
(* concurrent requests, overlapping worker ticks and restarts, without and *)
(* with the backfill script beside the server.                             *)
(***************************************************************************)
EXTENDS Backfill, TLAPS

OnChain(id) == resources[id] # NoValue

(* On chain, or somebody was told otherwise.                               *)
Known(id) == OnChain(id) \/ id \in misled

RegisterEvent == [symbol : {"register"}, topic : Accounts, data : Ids]

(* The ledger: its entries and events are typed, and each event is signed. *)
LedgerInv ==
  /\ resources \in [Ids -> Chain!Resource \cup {NoValue}]
  /\ events \in Seq(RegisterEvent)
  /\ signers \in Seq(Accounts)
  /\ Len(events) = Len(signers)

(* A transaction under way is awaited by whoever it is from; who ignores   *)
(* its result sent the registration of the row in the platform's name.     *)
TxInv ==
  \A tx \in txs :
    /\ tx.from \in Requests =>
         /\ reqs[tx.from].pc = "polling" /\ outcome[tx.from] = "unknown"
         /\ reqs[tx.from].flow = "legacy" => tx.id = reqs[tx.from].id
    /\ tx.from \in Ticks =>
         /\ ticks[tx.from].pc = "await" /\ outcome[tx.from] = "unknown"
         /\ tx.id = ticks[tx.from].id
    /\ tx.from = Script => tx.id \in Ids
    /\ \A other \in txs : other.from = tx.from /\ tx.from \in Requests \cup Ticks => other = tx

(* What a handler, or a tick, takes for a registration is one, or it was   *)
(* misled.                                                                 *)
Believes(q) == outcome[q] = "success" \/ (outcome[q] = "failed" /\ reqs[q].flow = "legacy")

RequestInv ==
  \A q \in Requests :
    /\ reqs[q].pc = "won" => Known(reqs[q].id)
    /\ outcome[q] # "unknown" => reqs[q].pc = "polling"
    /\ Believes(q) => Known(reqs[q].id)

TickInv ==
  \A t \in Ticks :
    /\ ticks[t].pc = "won" => Known(ticks[t].id)
    /\ outcome[t] # "unknown" => ticks[t].pc = "await" /\ Known(ticks[t].id)

RowInv == \A id \in Ids : status[id] = "registered" => Known(id)

(* This part holds beside the script as well. *)
CoreInv == TypeOK /\ LedgerInv /\ TxInv /\ RequestInv /\ TickInv /\ RowInv

(* What the platform may take: its own rows, and the stuck ones.           *)
Asked(id) == status[id] # "none" /\ (Wallet[id] = Platform \/ old[id])

(* What is on chain in the platform's name, or on its way there, was asked *)
(* for, but for the rows of S.                                             *)
AskedBut(S) ==
  /\ \A tx \in txs :
       tx.creator = Platform /\ tx.id \in Ids => Asked(tx.id) \/ tx.id \in S
  /\ \A q \in Requests :
       reqs[q].pc \notin {"idle", "checked"} => status[reqs[q].id] # "none"
  /\ \A t \in Ticks :
       /\ ticks[t].pc # "idle" => old[ticks[t].id] /\ status[ticks[t].id] # "none"
       /\ \A id \in ticks[t].todo : old[id] /\ status[id] # "none"
  /\ \A id \in PlatformRegistrations : Asked(id) \/ id \in S

----------------------------------------------------------------------------
(* Each step of a handler keeps the invariant. *)

LEMMA PostRegisterKeeps ==
  ASSUME CoreInv, NEW q \in Requests, NEW id \in Ids, NEW flow \in {"signed", "legacy"},
         PostRegister(q, id, flow)
  PROVE  CoreInv'
<1> USE RegistrationAssumption DEF PostRegister
<1>1. TypeOK'
  BY DEF CoreInv, TypeOK, RequestType, TickType, TxType, Status, OnChain, Known, chain, Senders, IdleRequest, IdleTick
<1>2. LedgerInv'
  BY DEF CoreInv, LedgerInv, TypeOK, RequestType, TickType, TxType, OnChain, Known, chain, Senders, IdleRequest, IdleTick
<1>3. TxInv'
  BY DEF CoreInv, TxInv, TypeOK, RequestType, TickType, TxType, OnChain, Known, chain, Senders, IdleRequest, IdleTick
<1>4. RequestInv'
  BY DEF CoreInv, RequestInv, Believes, TypeOK, RequestType, TickType, TxType, OnChain, Known, chain, Senders, IdleRequest, IdleTick
<1>5. TickInv'
  BY DEF CoreInv, TickInv, TypeOK, RequestType, TickType, TxType, OnChain, Known, chain, Senders, IdleRequest, IdleTick
<1>6. RowInv'
  BY DEF CoreInv, RowInv, TypeOK, RequestType, TickType, TxType, OnChain, Known, chain, Senders, IdleRequest, IdleTick
<1>7. QED
  BY <1>1, <1>2, <1>3, <1>4, <1>5, <1>6 DEF CoreInv

LEMMA MarkPendingKeeps ==
  ASSUME CoreInv, NEW q \in Requests, MarkPending(q)
  PROVE  CoreInv'
<1> USE RegistrationAssumption DEF MarkPending
<1>1. TypeOK'
  BY DEF CoreInv, TypeOK, RequestType, TickType, TxType, Status, OnChain, Known, chain, Senders, IdleRequest, IdleTick
<1>2. LedgerInv'
  BY DEF CoreInv, LedgerInv, TypeOK, RequestType, TickType, TxType, OnChain, Known, chain, Senders, IdleRequest, IdleTick
<1>3. TxInv'
  BY DEF CoreInv, TxInv, TypeOK, RequestType, TickType, TxType, OnChain, Known, chain, Senders, IdleRequest, IdleTick
<1>4. RequestInv'
  BY DEF CoreInv, RequestInv, Believes, TypeOK, RequestType, TickType, TxType, OnChain, Known, chain, Senders, IdleRequest, IdleTick
<1>5. TickInv'
  BY DEF CoreInv, TickInv, TypeOK, RequestType, TickType, TxType, OnChain, Known, chain, Senders, IdleRequest, IdleTick
<1>6. RowInv'
  BY DEF CoreInv, RowInv, TypeOK, RequestType, TickType, TxType, OnChain, Known, chain, Senders, IdleRequest, IdleTick
<1>7. QED
  BY <1>1, <1>2, <1>3, <1>4, <1>5, <1>6 DEF CoreInv

LEMMA SubmitKeeps ==
  ASSUME CoreInv, NEW q \in Requests, Submit(q)
  PROVE  CoreInv'
<1> USE RegistrationAssumption DEF Submit, Signable
<1>1. TypeOK'
  BY DEF CoreInv, TypeOK, RequestType, TickType, TxType, Status, OnChain, Known, chain, Senders, IdleRequest, IdleTick, Tx
<1>2. LedgerInv'
  BY DEF CoreInv, LedgerInv, TypeOK, RequestType, TickType, TxType, OnChain, Known, chain, Senders, IdleRequest, IdleTick, Tx
<1>3. TxInv'
  <2>1. PICK id \in Ids : id = reqs[q].id
    BY DEF CoreInv, TypeOK, RequestType, IdleRequest
  <2>3. reqs' = [reqs EXCEPT ![q].pc = "polling"] /\ reqs[q] \in RequestType
    BY DEF CoreInv, TypeOK
  <2>4. reqs'[q].pc = "polling" /\ reqs'[q].id = id /\ reqs'[q].flow = reqs[q].flow
        /\ \A r \in Requests : r # q => reqs'[r] = reqs[r]
    BY <2>1, <2>3 DEF CoreInv, TypeOK, RequestType, IdleRequest
  <2>5. outcome[q] = "unknown"
    BY DEF CoreInv, RequestInv
  <2>6. \A tx \in txs : tx.from # q
    BY DEF CoreInv, TxInv
  <2>7. \A tx \in txs' : tx \in txs \/ (tx.from = q /\ (reqs[q].flow = "legacy" => tx.id = id))
    BY <2>1 DEF Tx, CoreInv, TypeOK, RequestType, IdleRequest
  <2>8. q \notin Ticks
    OBVIOUS
  <2>9. QED
    BY <2>4, <2>5, <2>6, <2>7, <2>8 DEF CoreInv, TxInv, Tx
<1>4. RequestInv'
  BY DEF CoreInv, RequestInv, Believes, TypeOK, RequestType, TickType, TxType, OnChain, Known, chain, Senders, IdleRequest, IdleTick, Tx
<1>5. TickInv'
  BY DEF CoreInv, TickInv, TypeOK, RequestType, TickType, TxType, OnChain, Known, chain, Senders, IdleRequest, IdleTick, Tx
<1>6. RowInv'
  BY DEF CoreInv, RowInv, TypeOK, RequestType, TickType, TxType, OnChain, Known, chain, Senders, IdleRequest, IdleTick, Tx
<1>7. QED
  BY <1>1, <1>2, <1>3, <1>4, <1>5, <1>6 DEF CoreInv

LEMMA PollKeeps ==
  ASSUME CoreInv, NEW q \in Requests, Poll(q)
  PROVE  CoreInv'
<1> USE RegistrationAssumption DEF Poll
<1>1. TypeOK'
  BY DEF CoreInv, TypeOK, RequestType, TickType, TxType, Status, OnChain, Known, chain, Senders, IdleRequest, IdleTick, Forget
<1>2. LedgerInv'
  BY DEF CoreInv, LedgerInv, TypeOK, RequestType, TickType, TxType, OnChain, Known, chain, Senders, IdleRequest, IdleTick, Forget
<1>3. TxInv'
  BY DEF CoreInv, TxInv, TypeOK, RequestType, TickType, TxType, OnChain, Known, chain, Senders, IdleRequest, IdleTick, Forget
<1>4. RequestInv'
  BY DEF CoreInv, RequestInv, Believes, TypeOK, RequestType, TickType, TxType, OnChain, Known, chain, Senders, IdleRequest, IdleTick, Forget
<1>5. TickInv'
  BY DEF CoreInv, TickInv, TypeOK, RequestType, TickType, TxType, OnChain, Known, chain, Senders, IdleRequest, IdleTick, Forget
<1>6. RowInv'
  BY DEF CoreInv, RowInv, TypeOK, RequestType, TickType, TxType, OnChain, Known, chain, Senders, IdleRequest, IdleTick, Forget
<1>7. QED
  BY <1>1, <1>2, <1>3, <1>4, <1>5, <1>6 DEF CoreInv

LEMMA SubmissionFailsKeeps ==
  ASSUME CoreInv, NEW q \in Requests, SubmissionFails(q)
  PROVE  CoreInv'
<1> USE RegistrationAssumption DEF SubmissionFails
<1>1. TypeOK'
  BY DEF CoreInv, TypeOK, RequestType, TickType, TxType, Status, OnChain, Known, chain, Senders, IdleRequest, IdleTick, Orphaned, Forget
<1>2. LedgerInv'
  BY DEF CoreInv, LedgerInv, TypeOK, RequestType, TickType, TxType, OnChain, Known, chain, Senders, IdleRequest, IdleTick, Orphaned, Forget
<1>3. TxInv'
  BY DEF CoreInv, TxInv, TypeOK, RequestType, TickType, TxType, OnChain, Known, chain, Senders, IdleRequest, IdleTick, Orphaned, Forget
<1>4. RequestInv'
  BY DEF CoreInv, RequestInv, Believes, TypeOK, RequestType, TickType, TxType, OnChain, Known, chain, Senders, IdleRequest, IdleTick, Orphaned, Forget
<1>5. TickInv'
  BY DEF CoreInv, TickInv, TypeOK, RequestType, TickType, TxType, OnChain, Known, chain, Senders, IdleRequest, IdleTick, Orphaned, Forget
<1>6. RowInv'
  BY DEF CoreInv, RowInv, TypeOK, RequestType, TickType, TxType, OnChain, Known, chain, Senders, IdleRequest, IdleTick, Orphaned, Forget
<1>7. QED
  BY <1>1, <1>2, <1>3, <1>4, <1>5, <1>6 DEF CoreInv

LEMMA RequestFailsKeeps ==
  ASSUME CoreInv, NEW q \in Requests, RequestFails(q)
  PROVE  CoreInv'
<1> USE RegistrationAssumption DEF RequestFails
<1>1. TypeOK'
  BY DEF CoreInv, TypeOK, RequestType, TickType, TxType, Status, OnChain, Known, chain, Senders, IdleRequest, IdleTick, Orphaned, Forget
<1>2. LedgerInv'
  BY DEF CoreInv, LedgerInv, TypeOK, RequestType, TickType, TxType, OnChain, Known, chain, Senders, IdleRequest, IdleTick, Orphaned, Forget
<1>3. TxInv'
  BY DEF CoreInv, TxInv, TypeOK, RequestType, TickType, TxType, OnChain, Known, chain, Senders, IdleRequest, IdleTick, Orphaned, Forget
<1>4. RequestInv'
  BY DEF CoreInv, RequestInv, Believes, TypeOK, RequestType, TickType, TxType, OnChain, Known, chain, Senders, IdleRequest, IdleTick, Orphaned, Forget
<1>5. TickInv'
  BY DEF CoreInv, TickInv, TypeOK, RequestType, TickType, TxType, OnChain, Known, chain, Senders, IdleRequest, IdleTick, Orphaned, Forget
<1>6. RowInv'
  BY DEF CoreInv, RowInv, TypeOK, RequestType, TickType, TxType, OnChain, Known, chain, Senders, IdleRequest, IdleTick, Orphaned, Forget
<1>7. QED
  BY <1>1, <1>2, <1>3, <1>4, <1>5, <1>6 DEF CoreInv

LEMMA FinishRequestKeeps ==
  ASSUME CoreInv, NEW q \in Requests, FinishRequest(q)
  PROVE  CoreInv'
<1> USE RegistrationAssumption DEF FinishRequest
<1>1. TypeOK'
  BY DEF CoreInv, TypeOK, RequestType, TickType, TxType, Status, OnChain, Known, chain, Senders, IdleRequest, IdleTick
<1>2. LedgerInv'
  BY DEF CoreInv, LedgerInv, TypeOK, RequestType, TickType, TxType, OnChain, Known, chain, Senders, IdleRequest, IdleTick
<1>3. TxInv'
  BY DEF CoreInv, TxInv, TypeOK, RequestType, TickType, TxType, OnChain, Known, chain, Senders, IdleRequest, IdleTick
<1>4. RequestInv'
  BY DEF CoreInv, RequestInv, Believes, TypeOK, RequestType, TickType, TxType, OnChain, Known, chain, Senders, IdleRequest, IdleTick
<1>5. TickInv'
  BY DEF CoreInv, TickInv, TypeOK, RequestType, TickType, TxType, OnChain, Known, chain, Senders, IdleRequest, IdleTick
<1>6. RowInv'
  <2>1. PICK k \in Ids : k = reqs[q].id
    BY DEF CoreInv, TypeOK, RequestType, IdleRequest
  <2>2. status'[k] \in {"registered", "failed"} /\ (status'[k] = "registered" => Known(k))
    BY <2>1 DEF CoreInv, RequestInv, Believes, TypeOK
  <2>3. \A id \in Ids : id # k => status'[id] = status[id]
    BY <2>1 DEF CoreInv, TypeOK
  <2>4. QED
    BY <2>2, <2>3 DEF CoreInv, RowInv, Known, OnChain, chain
<1>7. QED
  BY <1>1, <1>2, <1>3, <1>4, <1>5, <1>6 DEF CoreInv

LEMMA ReplyKeeps ==
  ASSUME CoreInv, NEW q \in Requests, Reply(q)
  PROVE  CoreInv'
<1> USE RegistrationAssumption DEF Reply
<1>1. TypeOK'
  BY DEF CoreInv, TypeOK, RequestType, TickType, TxType, Status, OnChain, Known, chain, Senders, IdleRequest, IdleTick
<1>2. LedgerInv'
  BY DEF CoreInv, LedgerInv, TypeOK, RequestType, TickType, TxType, OnChain, Known, chain, Senders, IdleRequest, IdleTick
<1>3. TxInv'
  BY DEF CoreInv, TxInv, TypeOK, RequestType, TickType, TxType, OnChain, Known, chain, Senders, IdleRequest, IdleTick
<1>4. RequestInv'
  BY DEF CoreInv, RequestInv, Believes, TypeOK, RequestType, TickType, TxType, OnChain, Known, chain, Senders, IdleRequest, IdleTick
<1>5. TickInv'
  BY DEF CoreInv, TickInv, TypeOK, RequestType, TickType, TxType, OnChain, Known, chain, Senders, IdleRequest, IdleTick
<1>6. RowInv'
  BY DEF CoreInv, RowInv, TypeOK, RequestType, TickType, TxType, OnChain, Known, chain, Senders, IdleRequest, IdleTick
<1>7. QED
  BY <1>1, <1>2, <1>3, <1>4, <1>5, <1>6 DEF CoreInv

LEMMA GiveUpKeeps ==
  ASSUME CoreInv, NEW q \in Requests, GiveUp(q)
  PROVE  CoreInv'
<1> USE RegistrationAssumption DEF GiveUp
<1>1. TypeOK'
  BY DEF CoreInv, TypeOK, RequestType, TickType, TxType, Status, OnChain, Known, chain, Senders, IdleRequest, IdleTick
<1>2. LedgerInv'
  BY DEF CoreInv, LedgerInv, TypeOK, RequestType, TickType, TxType, OnChain, Known, chain, Senders, IdleRequest, IdleTick
<1>3. TxInv'
  BY DEF CoreInv, TxInv, TypeOK, RequestType, TickType, TxType, OnChain, Known, chain, Senders, IdleRequest, IdleTick
<1>4. RequestInv'
  BY DEF CoreInv, RequestInv, Believes, TypeOK, RequestType, TickType, TxType, OnChain, Known, chain, Senders, IdleRequest, IdleTick
<1>5. TickInv'
  BY DEF CoreInv, TickInv, TypeOK, RequestType, TickType, TxType, OnChain, Known, chain, Senders, IdleRequest, IdleTick
<1>6. RowInv'
  <2>1. PICK k \in Ids : k = reqs[q].id
    BY DEF CoreInv, TypeOK, RequestType, IdleRequest
  <2>2. status'[k] = "failed"
    BY <2>1 DEF CoreInv, RequestInv, Believes, TypeOK
  <2>3. \A id \in Ids : id # k => status'[id] = status[id]
    BY <2>1 DEF CoreInv, TypeOK
  <2>4. QED
    BY <2>2, <2>3 DEF CoreInv, RowInv, Known, OnChain, chain
<1>7. QED
  BY <1>1, <1>2, <1>3, <1>4, <1>5, <1>6 DEF CoreInv

LEMMA RequestThrowsKeeps ==
  ASSUME CoreInv, NEW q \in Requests, RequestThrows(q)
  PROVE  CoreInv'
<1> USE RegistrationAssumption DEF RequestThrows
<1>1. TypeOK'
  BY DEF CoreInv, TypeOK, RequestType, TickType, TxType, Status, OnChain, Known, chain, Senders, IdleRequest, IdleTick
<1>2. LedgerInv'
  BY DEF CoreInv, LedgerInv, TypeOK, RequestType, TickType, TxType, OnChain, Known, chain, Senders, IdleRequest, IdleTick
<1>3. TxInv'
  BY DEF CoreInv, TxInv, TypeOK, RequestType, TickType, TxType, OnChain, Known, chain, Senders, IdleRequest, IdleTick
<1>4. RequestInv'
  BY DEF CoreInv, RequestInv, Believes, TypeOK, RequestType, TickType, TxType, OnChain, Known, chain, Senders, IdleRequest, IdleTick
<1>5. TickInv'
  BY DEF CoreInv, TickInv, TypeOK, RequestType, TickType, TxType, OnChain, Known, chain, Senders, IdleRequest, IdleTick
<1>6. RowInv'
  BY DEF CoreInv, RowInv, TypeOK, RequestType, TickType, TxType, OnChain, Known, chain, Senders, IdleRequest, IdleTick
<1>7. QED
  BY <1>1, <1>2, <1>3, <1>4, <1>5, <1>6 DEF CoreInv

----------------------------------------------------------------------------
(* Each step of a tick keeps the invariant. *)

LEMMA TickKeeps ==
  ASSUME CoreInv, NEW t \in Ticks, Tick(t)
  PROVE  CoreInv'
<1> USE RegistrationAssumption DEF Tick
<1>1. TypeOK'
  BY DEF CoreInv, TypeOK, RequestType, TickType, TxType, Status, OnChain, Known, chain, Senders, IdleRequest, IdleTick, At, Advance, Stuck
<1>2. LedgerInv'
  BY DEF CoreInv, LedgerInv, TypeOK, RequestType, TickType, TxType, OnChain, Known, chain, Senders, IdleRequest, IdleTick, At, Advance, Stuck
<1>3. TxInv'
  BY DEF CoreInv, TxInv, TypeOK, RequestType, TickType, TxType, OnChain, Known, chain, Senders, IdleRequest, IdleTick, At, Advance, Stuck
<1>4. RequestInv'
  BY DEF CoreInv, RequestInv, Believes, TypeOK, RequestType, TickType, TxType, OnChain, Known, chain, Senders, IdleRequest, IdleTick, At, Advance, Stuck
<1>5. TickInv'
  BY DEF CoreInv, TickInv, TypeOK, RequestType, TickType, TxType, OnChain, Known, chain, Senders, IdleRequest, IdleTick, At, Advance, Stuck
<1>6. RowInv'
  BY DEF CoreInv, RowInv, TypeOK, RequestType, TickType, TxType, OnChain, Known, chain, Senders, IdleRequest, IdleTick, At, Advance, Stuck
<1>7. QED
  BY <1>1, <1>2, <1>3, <1>4, <1>5, <1>6 DEF CoreInv

LEMMA LookupKeeps ==
  ASSUME CoreInv, NEW t \in Ticks, Lookup(t)
  PROVE  CoreInv'
<1> USE RegistrationAssumption DEF Lookup
<1>1. TypeOK'
  BY DEF CoreInv, TypeOK, RequestType, TickType, TxType, Status, OnChain, Known, chain, Senders, IdleRequest, IdleTick, At, Goto, Chain!Exists
<1>2. LedgerInv'
  BY DEF CoreInv, LedgerInv, TypeOK, RequestType, TickType, TxType, OnChain, Known, chain, Senders, IdleRequest, IdleTick, At, Goto, Chain!Exists
<1>3. TxInv'
  BY DEF CoreInv, TxInv, TypeOK, RequestType, TickType, TxType, OnChain, Known, chain, Senders, IdleRequest, IdleTick, At, Goto, Chain!Exists
<1>4. RequestInv'
  BY DEF CoreInv, RequestInv, Believes, TypeOK, RequestType, TickType, TxType, OnChain, Known, chain, Senders, IdleRequest, IdleTick, At, Goto, Chain!Exists
<1>5. TickInv'
  BY DEF CoreInv, TickInv, TypeOK, RequestType, TickType, TxType, OnChain, Known, chain, Senders, IdleRequest, IdleTick, At, Goto, Chain!Exists
<1>6. RowInv'
  BY DEF CoreInv, RowInv, TypeOK, RequestType, TickType, TxType, OnChain, Known, chain, Senders, IdleRequest, IdleTick, At, Goto, Chain!Exists
<1>7. QED
  BY <1>1, <1>2, <1>3, <1>4, <1>5, <1>6 DEF CoreInv

LEMMA RetryKeeps ==
  ASSUME CoreInv, NEW t \in Ticks, Retry(t)
  PROVE  CoreInv'
<1> USE RegistrationAssumption DEF Retry
<1>1. TypeOK'
  BY DEF CoreInv, TypeOK, RequestType, TickType, TxType, Status, OnChain, Known, chain, Senders, IdleRequest, IdleTick, At, Goto, Tx, Chain!Exists
<1>2. LedgerInv'
  BY DEF CoreInv, LedgerInv, TypeOK, RequestType, TickType, TxType, OnChain, Known, chain, Senders, IdleRequest, IdleTick, At, Goto, Tx, Chain!Exists
<1>3. TxInv'
  <2>1. PICK id \in Ids : id = ticks[t].id
    BY DEF CoreInv, TypeOK, TickType, IdleTick, At
  <2>3. ticks' = [ticks EXCEPT ![t].pc = "await"] /\ ticks[t] \in TickType
    BY DEF CoreInv, TypeOK, Goto
  <2>4. ticks'[t].pc = "await" /\ ticks'[t].id = id
        /\ \A r \in Ticks : r # t => ticks'[r] = ticks[r]
    BY <2>1, <2>3 DEF CoreInv, TypeOK, TickType, IdleTick
  <2>5. outcome[t] = "unknown"
    BY DEF CoreInv, TickInv, At
  <2>6. \A tx \in txs : tx.from # t
    BY DEF CoreInv, TxInv, At
  <2>7. \A tx \in txs' : tx \in txs \/ tx = Tx(id, Platform, t)
    BY <2>1
  <2>8. t \notin Requests
    OBVIOUS
  <2>9. QED
    BY <2>4, <2>5, <2>6, <2>7, <2>8 DEF CoreInv, TxInv, Tx
<1>4. RequestInv'
  BY DEF CoreInv, RequestInv, Believes, TypeOK, RequestType, TickType, TxType, OnChain, Known, chain, Senders, IdleRequest, IdleTick, At, Goto, Tx, Chain!Exists
<1>5. TickInv'
  BY DEF CoreInv, TickInv, TypeOK, RequestType, TickType, TxType, OnChain, Known, chain, Senders, IdleRequest, IdleTick, At, Goto, Tx, Chain!Exists
<1>6. RowInv'
  BY DEF CoreInv, RowInv, TypeOK, RequestType, TickType, TxType, OnChain, Known, chain, Senders, IdleRequest, IdleTick, At, Goto, Tx, Chain!Exists
<1>7. QED
  BY <1>1, <1>2, <1>3, <1>4, <1>5, <1>6 DEF CoreInv

LEMMA AwaitKeeps ==
  ASSUME CoreInv, NEW t \in Ticks, Await(t)
  PROVE  CoreInv'
<1> USE RegistrationAssumption DEF Await
<1>1. TypeOK'
  BY DEF CoreInv, TypeOK, RequestType, TickType, TxType, Status, OnChain, Known, chain, Senders, IdleRequest, IdleTick, At, Goto, Forget
<1>2. LedgerInv'
  BY DEF CoreInv, LedgerInv, TypeOK, RequestType, TickType, TxType, OnChain, Known, chain, Senders, IdleRequest, IdleTick, At, Goto, Forget
<1>3. TxInv'
  BY DEF CoreInv, TxInv, TypeOK, RequestType, TickType, TxType, OnChain, Known, chain, Senders, IdleRequest, IdleTick, At, Goto, Forget
<1>4. RequestInv'
  BY DEF CoreInv, RequestInv, Believes, TypeOK, RequestType, TickType, TxType, OnChain, Known, chain, Senders, IdleRequest, IdleTick, At, Goto, Forget
<1>5. TickInv'
  BY DEF CoreInv, TickInv, TypeOK, RequestType, TickType, TxType, OnChain, Known, chain, Senders, IdleRequest, IdleTick, At, Goto, Forget
<1>6. RowInv'
  BY DEF CoreInv, RowInv, TypeOK, RequestType, TickType, TxType, OnChain, Known, chain, Senders, IdleRequest, IdleTick, At, Goto, Forget
<1>7. QED
  BY <1>1, <1>2, <1>3, <1>4, <1>5, <1>6 DEF CoreInv

LEMMA FinishWonKeeps ==
  ASSUME CoreInv, NEW t \in Ticks, FinishWon(t)
  PROVE  CoreInv'
<1> USE RegistrationAssumption DEF FinishWon
<1>1. TypeOK'
  BY DEF CoreInv, TypeOK, RequestType, TickType, TxType, Status, OnChain, Known, chain, Senders, IdleRequest, IdleTick, At, Settle, Advance
<1>2. LedgerInv'
  BY DEF CoreInv, LedgerInv, TypeOK, RequestType, TickType, TxType, OnChain, Known, chain, Senders, IdleRequest, IdleTick, At, Settle, Advance
<1>3. TxInv'
  BY DEF CoreInv, TxInv, TypeOK, RequestType, TickType, TxType, OnChain, Known, chain, Senders, IdleRequest, IdleTick, At, Settle, Advance
<1>4. RequestInv'
  BY DEF CoreInv, RequestInv, Believes, TypeOK, RequestType, TickType, TxType, OnChain, Known, chain, Senders, IdleRequest, IdleTick, At, Settle, Advance
<1>5. TickInv'
  BY DEF CoreInv, TickInv, TypeOK, RequestType, TickType, TxType, OnChain, Known, chain, Senders, IdleRequest, IdleTick, At, Settle, Advance
<1>6. RowInv'
  <2>1. PICK k \in Ids : k = ticks[t].id
    BY DEF CoreInv, TypeOK, TickType, IdleTick, At
  <2>2. status'[k] = "registered" /\ Known(k)
    BY <2>1 DEF CoreInv, TickInv, TypeOK, At, Settle
  <2>3. \A id \in Ids : id # k => status'[id] = status[id]
    BY <2>1 DEF CoreInv, TypeOK, Settle
  <2>4. QED
    BY <2>2, <2>3 DEF CoreInv, RowInv, Known, OnChain, chain, Settle
<1>7. QED
  BY <1>1, <1>2, <1>3, <1>4, <1>5, <1>6 DEF CoreInv

LEMMA FinishExhaustedKeeps ==
  ASSUME CoreInv, NEW t \in Ticks, FinishExhausted(t)
  PROVE  CoreInv'
<1> USE RegistrationAssumption DEF FinishExhausted
<1>1. TypeOK'
  BY DEF CoreInv, TypeOK, RequestType, TickType, TxType, Status, OnChain, Known, chain, Senders, IdleRequest, IdleTick, At, Settle, Advance
<1>2. LedgerInv'
  BY DEF CoreInv, LedgerInv, TypeOK, RequestType, TickType, TxType, OnChain, Known, chain, Senders, IdleRequest, IdleTick, At, Settle, Advance
<1>3. TxInv'
  BY DEF CoreInv, TxInv, TypeOK, RequestType, TickType, TxType, OnChain, Known, chain, Senders, IdleRequest, IdleTick, At, Settle, Advance
<1>4. RequestInv'
  BY DEF CoreInv, RequestInv, Believes, TypeOK, RequestType, TickType, TxType, OnChain, Known, chain, Senders, IdleRequest, IdleTick, At, Settle, Advance
<1>5. TickInv'
  BY DEF CoreInv, TickInv, TypeOK, RequestType, TickType, TxType, OnChain, Known, chain, Senders, IdleRequest, IdleTick, At, Settle, Advance
<1>6. RowInv'
  BY DEF CoreInv, RowInv, TypeOK, RequestType, TickType, TxType, OnChain, Known, chain, Senders, IdleRequest, IdleTick, At, Settle, Advance
<1>7. QED
  BY <1>1, <1>2, <1>3, <1>4, <1>5, <1>6 DEF CoreInv

LEMMA CatchExhaustedKeeps ==
  ASSUME CoreInv, NEW t \in Ticks, CatchExhausted(t)
  PROVE  CoreInv'
<1> USE RegistrationAssumption DEF CatchExhausted
<1>1. TypeOK'
  BY DEF CoreInv, TypeOK, RequestType, TickType, TxType, Status, OnChain, Known, chain, Senders, IdleRequest, IdleTick, At, Settle, Advance
<1>2. LedgerInv'
  BY DEF CoreInv, LedgerInv, TypeOK, RequestType, TickType, TxType, OnChain, Known, chain, Senders, IdleRequest, IdleTick, At, Settle, Advance
<1>3. TxInv'
  BY DEF CoreInv, TxInv, TypeOK, RequestType, TickType, TxType, OnChain, Known, chain, Senders, IdleRequest, IdleTick, At, Settle, Advance
<1>4. RequestInv'
  BY DEF CoreInv, RequestInv, Believes, TypeOK, RequestType, TickType, TxType, OnChain, Known, chain, Senders, IdleRequest, IdleTick, At, Settle, Advance
<1>5. TickInv'
  BY DEF CoreInv, TickInv, TypeOK, RequestType, TickType, TxType, OnChain, Known, chain, Senders, IdleRequest, IdleTick, At, Settle, Advance
<1>6. RowInv'
  BY DEF CoreInv, RowInv, TypeOK, RequestType, TickType, TxType, OnChain, Known, chain, Senders, IdleRequest, IdleTick, At, Settle, Advance
<1>7. QED
  BY <1>1, <1>2, <1>3, <1>4, <1>5, <1>6 DEF CoreInv

LEMMA CatchOnKeeps ==
  ASSUME CoreInv, NEW t \in Ticks, CatchOn(t)
  PROVE  CoreInv'
<1> USE RegistrationAssumption DEF CatchOn
<1>1. TypeOK'
  BY DEF CoreInv, TypeOK, RequestType, TickType, TxType, Status, OnChain, Known, chain, Senders, IdleRequest, IdleTick, At, Advance
<1>2. LedgerInv'
  BY DEF CoreInv, LedgerInv, TypeOK, RequestType, TickType, TxType, OnChain, Known, chain, Senders, IdleRequest, IdleTick, At, Advance
<1>3. TxInv'
  BY DEF CoreInv, TxInv, TypeOK, RequestType, TickType, TxType, OnChain, Known, chain, Senders, IdleRequest, IdleTick, At, Advance
<1>4. RequestInv'
  BY DEF CoreInv, RequestInv, Believes, TypeOK, RequestType, TickType, TxType, OnChain, Known, chain, Senders, IdleRequest, IdleTick, At, Advance
<1>5. TickInv'
  BY DEF CoreInv, TickInv, TypeOK, RequestType, TickType, TxType, OnChain, Known, chain, Senders, IdleRequest, IdleTick, At, Advance
<1>6. RowInv'
  BY DEF CoreInv, RowInv, TypeOK, RequestType, TickType, TxType, OnChain, Known, chain, Senders, IdleRequest, IdleTick, At, Advance
<1>7. QED
  BY <1>1, <1>2, <1>3, <1>4, <1>5, <1>6 DEF CoreInv

LEMMA TickFailsKeeps ==
  ASSUME CoreInv, NEW t \in Ticks, TickFails(t)
  PROVE  CoreInv'
<1> USE RegistrationAssumption DEF TickFails
<1>1. TypeOK'
  BY DEF CoreInv, TypeOK, RequestType, TickType, TxType, Status, OnChain, Known, chain, Senders, IdleRequest, IdleTick, At, Goto, Orphaned, Forget
<1>2. LedgerInv'
  BY DEF CoreInv, LedgerInv, TypeOK, RequestType, TickType, TxType, OnChain, Known, chain, Senders, IdleRequest, IdleTick, At, Goto, Orphaned, Forget
<1>3. TxInv'
  BY DEF CoreInv, TxInv, TypeOK, RequestType, TickType, TxType, OnChain, Known, chain, Senders, IdleRequest, IdleTick, At, Goto, Orphaned, Forget
<1>4. RequestInv'
  BY DEF CoreInv, RequestInv, Believes, TypeOK, RequestType, TickType, TxType, OnChain, Known, chain, Senders, IdleRequest, IdleTick, At, Goto, Orphaned, Forget
<1>5. TickInv'
  BY DEF CoreInv, TickInv, TypeOK, RequestType, TickType, TxType, OnChain, Known, chain, Senders, IdleRequest, IdleTick, At, Goto, Orphaned, Forget
<1>6. RowInv'
  BY DEF CoreInv, RowInv, TypeOK, RequestType, TickType, TxType, OnChain, Known, chain, Senders, IdleRequest, IdleTick, At, Goto, Orphaned, Forget
<1>7. QED
  BY <1>1, <1>2, <1>3, <1>4, <1>5, <1>6 DEF CoreInv

LEMMA TickThrowsKeeps ==
  ASSUME CoreInv, NEW t \in Ticks, TickThrows(t)
  PROVE  CoreInv'
<1> USE RegistrationAssumption DEF TickThrows
<1>1. TypeOK'
  BY DEF CoreInv, TypeOK, RequestType, TickType, TxType, Status, OnChain, Known, chain, Senders, IdleRequest, IdleTick, At
<1>2. LedgerInv'
  BY DEF CoreInv, LedgerInv, TypeOK, RequestType, TickType, TxType, OnChain, Known, chain, Senders, IdleRequest, IdleTick, At
<1>3. TxInv'
  BY DEF CoreInv, TxInv, TypeOK, RequestType, TickType, TxType, OnChain, Known, chain, Senders, IdleRequest, IdleTick, At
<1>4. RequestInv'
  BY DEF CoreInv, RequestInv, Believes, TypeOK, RequestType, TickType, TxType, OnChain, Known, chain, Senders, IdleRequest, IdleTick, At
<1>5. TickInv'
  BY DEF CoreInv, TickInv, TypeOK, RequestType, TickType, TxType, OnChain, Known, chain, Senders, IdleRequest, IdleTick, At
<1>6. RowInv'
  BY DEF CoreInv, RowInv, TypeOK, RequestType, TickType, TxType, OnChain, Known, chain, Senders, IdleRequest, IdleTick, At
<1>7. QED
  BY <1>1, <1>2, <1>3, <1>4, <1>5, <1>6 DEF CoreInv

----------------------------------------------------------------------------
(* So do time, restarts and dropped transactions. *)

LEMMA DropKeeps ==
  ASSUME CoreInv, NEW tx \in txs, Drop(tx)
  PROVE  CoreInv'
<1> USE RegistrationAssumption DEF Drop
<1>1. TypeOK'
  BY DEF CoreInv, TypeOK, RequestType, TickType, TxType, Status, OnChain, Known, chain, Senders, IdleRequest, IdleTick
<1>2. LedgerInv'
  BY DEF CoreInv, LedgerInv, TypeOK, RequestType, TickType, TxType, OnChain, Known, chain, Senders, IdleRequest, IdleTick
<1>3. TxInv'
  BY DEF CoreInv, TxInv, TypeOK, RequestType, TickType, TxType, OnChain, Known, chain, Senders, IdleRequest, IdleTick
<1>4. RequestInv'
  BY DEF CoreInv, RequestInv, Believes, TypeOK, RequestType, TickType, TxType, OnChain, Known, chain, Senders, IdleRequest, IdleTick
<1>5. TickInv'
  BY DEF CoreInv, TickInv, TypeOK, RequestType, TickType, TxType, OnChain, Known, chain, Senders, IdleRequest, IdleTick
<1>6. RowInv'
  BY DEF CoreInv, RowInv, TypeOK, RequestType, TickType, TxType, OnChain, Known, chain, Senders, IdleRequest, IdleTick
<1>7. QED
  BY <1>1, <1>2, <1>3, <1>4, <1>5, <1>6 DEF CoreInv

LEMMA AgeKeeps ==
  ASSUME CoreInv, NEW id \in Ids, Age(id)
  PROVE  CoreInv'
<1> USE RegistrationAssumption DEF Age
<1>1. TypeOK'
  BY DEF CoreInv, TypeOK, RequestType, TickType, TxType, Status, OnChain, Known, chain, Senders, IdleRequest, IdleTick
<1>2. LedgerInv'
  BY DEF CoreInv, LedgerInv, TypeOK, RequestType, TickType, TxType, OnChain, Known, chain, Senders, IdleRequest, IdleTick
<1>3. TxInv'
  BY DEF CoreInv, TxInv, TypeOK, RequestType, TickType, TxType, OnChain, Known, chain, Senders, IdleRequest, IdleTick
<1>4. RequestInv'
  BY DEF CoreInv, RequestInv, Believes, TypeOK, RequestType, TickType, TxType, OnChain, Known, chain, Senders, IdleRequest, IdleTick
<1>5. TickInv'
  BY DEF CoreInv, TickInv, TypeOK, RequestType, TickType, TxType, OnChain, Known, chain, Senders, IdleRequest, IdleTick
<1>6. RowInv'
  BY DEF CoreInv, RowInv, TypeOK, RequestType, TickType, TxType, OnChain, Known, chain, Senders, IdleRequest, IdleTick
<1>7. QED
  BY <1>1, <1>2, <1>3, <1>4, <1>5, <1>6 DEF CoreInv

LEMMA StopKeeps ==
  ASSUME CoreInv, Stop
  PROVE  CoreInv'
<1> USE RegistrationAssumption DEF Stop
<1>1. TypeOK'
  <2>1. txs' \in SUBSET TxType
    BY DEF CoreInv, TypeOK, TxType, Senders
  <2>2. outcome' \in [Senders -> {"unknown", "success", "failed"}]
    BY DEF CoreInv, TypeOK, Senders
  <2>3. reqs' \in [Requests -> RequestType]
    BY DEF RequestType
  <2>4. ticks' \in [Ticks -> TickType]
    BY DEF TickType
  <2>5. retryCounts' \in [Ids -> 0 .. MaxRetry + 1]
    OBVIOUS
  <2>6. QED
    BY <2>1, <2>2, <2>3, <2>4, <2>5 DEF CoreInv, TypeOK
<1>2. LedgerInv'
  BY DEF CoreInv, LedgerInv, TypeOK, RequestType, TickType, TxType, OnChain, Known, chain, Senders, IdleRequest, IdleTick
<1>3. TxInv'
  BY DEF CoreInv, TxInv, TypeOK, RequestType, TickType, TxType, OnChain, Known, chain, Senders, IdleRequest, IdleTick
<1>4. RequestInv'
  BY DEF CoreInv, RequestInv, Believes, TypeOK, RequestType, TickType, TxType, OnChain, Known, chain, Senders, IdleRequest, IdleTick
<1>5. TickInv'
  BY DEF CoreInv, TickInv, TypeOK, RequestType, TickType, TxType, OnChain, Known, chain, Senders, IdleRequest, IdleTick
<1>6. RowInv'
  BY DEF CoreInv, RowInv, TypeOK, RequestType, TickType, TxType, OnChain, Known, chain, Senders, IdleRequest, IdleTick
<1>7. QED
  BY <1>1, <1>2, <1>3, <1>4, <1>5, <1>6 DEF CoreInv

LEMMA BootKeeps ==
  ASSUME CoreInv, Boot
  PROVE  CoreInv'
<1> USE RegistrationAssumption DEF Boot
<1>1. TypeOK'
  BY DEF CoreInv, TypeOK, RequestType, TickType, TxType, Status, OnChain, Known, chain, Senders, IdleRequest, IdleTick
<1>2. LedgerInv'
  BY DEF CoreInv, LedgerInv, TypeOK, RequestType, TickType, TxType, OnChain, Known, chain, Senders, IdleRequest, IdleTick
<1>3. TxInv'
  BY DEF CoreInv, TxInv, TypeOK, RequestType, TickType, TxType, OnChain, Known, chain, Senders, IdleRequest, IdleTick
<1>4. RequestInv'
  BY DEF CoreInv, RequestInv, Believes, TypeOK, RequestType, TickType, TxType, OnChain, Known, chain, Senders, IdleRequest, IdleTick
<1>5. TickInv'
  BY DEF CoreInv, TickInv, TypeOK, RequestType, TickType, TxType, OnChain, Known, chain, Senders, IdleRequest, IdleTick
<1>6. RowInv'
  BY DEF CoreInv, RowInv, TypeOK, RequestType, TickType, TxType, OnChain, Known, chain, Senders, IdleRequest, IdleTick
<1>7. QED
  BY <1>1, <1>2, <1>3, <1>4, <1>5, <1>6 DEF CoreInv

----------------------------------------------------------------------------
(* The ledger takes a registration. *)

(* Its id is on chain afterwards, every other id is as it was, and it is   *)
(* recorded in the creator's name.                                         *)
LEMMA RegisterLedger ==
  ASSUME CoreInv, NEW creator \in Accounts, NEW id \in Ids,
         Chain!Register(creator, creator, id, Terms, Terms, Terms)
  PROVE  /\ LedgerInv'
         /\ OnChain(id)'
         /\ \A k \in Ids : OnChain(k) => OnChain(k)'
         /\ \A k \in PlatformRegistrations' :
              k \in PlatformRegistrations \/ (k = id /\ creator = Platform)
<1> DEFINE new == [creator |-> creator, price |-> Terms, metadata |-> Terms,
                   listed |-> TRUE, tags |-> Terms]
           event == Chain!Event("register", creator, id)
<1>1. /\ resources' = [resources EXCEPT ![id] = new]
      /\ events' = Append(events, event)
      /\ signers' = Append(signers, creator)
  BY DEF Chain!Register, Chain!Emit
<1>2. new \in Chain!Resource /\ NoValue \notin Chain!Resource
  BY LedgerAssumption DEF Chain!Resource
<1>3. resources' \in [Ids -> Chain!Resource \cup {NoValue}]
  BY <1>1, <1>2 DEF CoreInv, LedgerInv
<1>4. event \in RegisterEvent /\ event.symbol = "register" /\ event.data = id
  BY DEF Chain!Event, RegisterEvent
<1> HIDE DEF event
<1>5. events \in Seq(RegisterEvent) /\ signers \in Seq(Accounts) /\ Len(events) = Len(signers)
  BY DEF CoreInv, LedgerInv
<1>6. /\ events' \in Seq(RegisterEvent) /\ signers' \in Seq(Accounts)
      /\ Len(events') = Len(events) + 1 /\ Len(signers') = Len(signers) + 1
  BY <1>1, <1>4, <1>5
<1>7. LedgerInv'
  BY <1>3, <1>5, <1>6 DEF LedgerInv
<1>8. OnChain(id)' /\ \A k \in Ids : OnChain(k) => OnChain(k)'
  BY <1>1, <1>2 DEF CoreInv, LedgerInv, OnChain
<1>9. ASSUME NEW k \in PlatformRegistrations'
      PROVE  k \in PlatformRegistrations \/ (k = id /\ creator = Platform)
  <2>1. PICK i \in 1 .. Len(events') :
          k = events'[i].data /\ events'[i].symbol = "register" /\ signers'[i] = Platform
    BY <1>9 DEF PlatformRegistrations
  <2>2. CASE i = Len(events) + 1
    <3>1. events'[i] = event /\ signers'[i] = creator
      BY <1>1, <1>5, <2>2
    <3>2. QED
      BY <1>4, <2>1, <3>1
  <2>3. CASE i \in 1 .. Len(events)
    <3>1. events'[i] = events[i] /\ signers'[i] = signers[i]
      BY <1>1, <1>5, <2>3
    <3>2. QED
      BY <2>1, <2>3, <3>1 DEF PlatformRegistrations
  <2>4. QED
    BY <1>5, <1>6, <2>1, <2>2, <2>3
<1>10. QED
  BY <1>7, <1>8, <1>9

(* The same for any inclusion: a success of a transaction that registers a *)
(* row, or one that leaves the ledger as it is.                            *)
LEMMA IncludedLedger ==
  ASSUME CoreInv, NEW tx \in txs, Apply(tx) \/ Fail(tx)
  PROVE  /\ LedgerInv'
         /\ \A k \in Ids : Known(k) => Known(k)'
         /\ \A k \in PlatformRegistrations' :
              k \in PlatformRegistrations \/ (k = tx.id /\ tx.creator = Platform /\ tx.id \in Ids)
<1>1. tx.id \in Ids \cup {NoValue} /\ tx.creator \in Accounts
  BY DEF CoreInv, TypeOK, TxType
<1>2. misled \subseteq misled'
  BY DEF Apply, Fail, Misleads
<1>3. CASE UNCHANGED chain
  BY <1>2, <1>3 DEF CoreInv, LedgerInv, Known, OnChain, chain, PlatformRegistrations
<1>4. CASE tx.id \in Ids /\ Chain!Register(tx.creator, tx.creator, tx.id, Terms, Terms, Terms)
  BY <1>1, <1>2, <1>4, RegisterLedger DEF Known
<1>5. QED
  BY <1>1, <1>3, <1>4 DEF Apply, Fail

(* Whoever is told of it, and believes it, is right or misled.             *)
LEMMA ToldRight ==
  ASSUME CoreInv, NEW tx \in txs, Apply(tx) \/ Fail(tx)
  PROVE  /\ tx.from \in Requests =>
              Known(reqs[tx.from].id)' \/ (outcome'[tx.from] = "failed" /\ reqs[tx.from].flow = "signed")
         /\ tx.from \in Ticks => Known(ticks[tx.from].id)'
         /\ tx.from = Script /\ tx.id \in Ids => Known(tx.id)'
<1> USE RegistrationAssumption
<1>1. tx.id \in Ids \cup {NoValue} /\ tx.creator \in Accounts /\ tx.from \in Senders \cup {NoValue}
  BY DEF CoreInv, TypeOK, TxType
<1>2. ASSUME NEW q \in Requests, q = tx.from PROVE reqs[q].id \in Ids /\ reqs[q].flow \in {"signed", "legacy"}
  BY <1>2 DEF CoreInv, TypeOK, TxInv, RequestType, IdleRequest
<1>3. ASSUME NEW t \in Ticks, t = tx.from PROVE ticks[t].id \in Ids /\ tx.id = ticks[t].id
  BY <1>3 DEF CoreInv, TypeOK, TxInv, TickType, IdleTick
<1>4. CASE Apply(tx)
  <2>1. tx.id \in Ids => Known(tx.id)'
    <3>1. SUFFICES ASSUME tx.id \in Ids PROVE OnChain(tx.id)'
      BY DEF Known
    <3>2. Chain!Register(tx.creator, tx.creator, tx.id, Terms, Terms, Terms)
      BY <1>4, <3>1 DEF Apply
    <3>3. QED
      BY <1>1, <3>1, <3>2, RegisterLedger
  <2>2. ASSUME tx.from \in Requests PROVE Known(reqs[tx.from].id)'
    <3>1. CASE tx.id = reqs[tx.from].id
      <4>1. UNCHANGED reqs
        BY <1>4 DEF Apply, Tell
      <4>2. reqs[tx.from].id \in Ids
        BY <1>2, <2>2
      <4>3. QED
        BY <2>1, <3>1, <4>1, <4>2 DEF Known, OnChain
    <3>2. CASE tx.id # reqs[tx.from].id
      <4>1. reqs[tx.from].id \in misled' /\ UNCHANGED reqs
        BY <1>4, <2>2, <3>2 DEF Apply, Misleads, Tell
      <4>2. QED
        BY <4>1 DEF Known
    <3>3. QED
      BY <3>1, <3>2
  <2>3. QED
    BY <1>3, <1>4, <2>1, <2>2 DEF Apply, Tell
<1>5. CASE Fail(tx)
  <2>1. IgnoresResult(tx.from) /\ tx.id \in Ids => Known(tx.id)'
    BY <1>5 DEF Fail, Misleads, Known, OnChain, Chain!Exists, chain
  <2>2. UNCHANGED <<reqs, ticks>> /\ (tx.from \in Senders => outcome'[tx.from] = "failed")
    BY <1>5 DEF Fail, Tell
  <2>3. ASSUME tx.from \in Requests, reqs[tx.from].flow = "legacy" PROVE Known(reqs[tx.from].id)'
    <3>1. tx.id = reqs[tx.from].id /\ IgnoresResult(tx.from)
      BY <2>3 DEF CoreInv, TxInv, IgnoresResult
    <3>2. QED
      BY <1>2, <2>1, <2>2, <2>3, <3>1
  <2>4. tx.from \in Requests => outcome'[tx.from] = "failed"
    BY <2>2 DEF Senders
  <2>5. QED
    BY <1>2, <1>3, <2>1, <2>2, <2>3, <2>4 DEF IgnoresResult
<1>6. QED
  BY <1>4, <1>5

LEMMA IncludedKeeps ==
  ASSUME CoreInv, NEW tx \in txs, Apply(tx) \/ Fail(tx)
  PROVE  CoreInv'
<1> USE RegistrationAssumption
<1>1. /\ txs' = txs \ {tx}
      /\ UNCHANGED <<status, old, reqs, ticks, retryCounts, up>>
      /\ \E result \in {"success", "failed"} :
           outcome' = [s \in Senders |-> IF s = tx.from THEN result ELSE outcome[s]]
  BY DEF Apply, Fail, Tell
<1>2. \A s \in Senders : s # tx.from => outcome'[s] = outcome[s]
  BY <1>1
<1>3. \A k \in Ids : Known(k) => Known(k)'
  BY IncludedLedger
<1>4. TypeOK'
  <2>1. outcome' \in [Senders -> {"unknown", "success", "failed"}]
    BY <1>1 DEF CoreInv, TypeOK
  <2>2. misled' \in SUBSET Ids
    <3>1. ASSUME tx.from \in Requests PROVE reqs[tx.from].id \in Ids
      BY <3>1 DEF CoreInv, TypeOK, TxInv, RequestType, IdleRequest
    <3>2. ASSUME tx.from \in Ticks PROVE tx.id \in Ids
      BY <3>2 DEF CoreInv, TypeOK, TxInv, TickType, IdleTick
    <3>3. ASSUME tx.from \in Requests, reqs[tx.from].flow = "legacy" PROVE tx.id \in Ids
      BY <3>1, <3>3 DEF CoreInv, TxInv
    <3>4. tx.from = Script => tx.id \in Ids
      BY DEF CoreInv, TxInv
    <3>5. CASE Apply(tx)
      BY <3>1, <3>5 DEF CoreInv, TypeOK, Apply, Misleads
    <3>6. CASE Fail(tx)
      BY <3>2, <3>3, <3>4, <3>6 DEF CoreInv, TypeOK, Fail, Misleads, IgnoresResult
    <3>7. QED
      BY <3>5, <3>6
  <2>3. QED
    BY <1>1, <2>1, <2>2 DEF CoreInv, TypeOK
<1>5. LedgerInv'
  BY IncludedLedger
<1>6. tx.from \in Requests \cup Ticks => \A u \in txs' : u.from # tx.from
  BY <1>1 DEF CoreInv, TxInv, TypeOK, TxType, Senders
<1>7. TxInv'
  BY <1>1, <1>2, <1>6 DEF CoreInv, TxInv, Senders
<1>8. RequestInv'
  <2>1. SUFFICES ASSUME NEW q \in Requests
                 PROVE  /\ reqs[q].pc = "won" => Known(reqs[q].id)'
                        /\ outcome'[q] # "unknown" => reqs[q].pc = "polling"
                        /\ Believes(q)' => Known(reqs[q].id)'
    BY <1>1 DEF RequestInv, Known, OnChain
  <2>2. reqs[q].pc # "idle" => reqs[q].id \in Ids
    BY DEF CoreInv, TypeOK, RequestType, IdleRequest
  <2>3. CASE tx.from = q
    <3>1. reqs[q].pc = "polling"
      BY <2>3 DEF CoreInv, TxInv
    <3>2. Believes(q)' => Known(reqs[q].id)'
      BY <1>1, <2>3, ToldRight DEF Believes
    <3>3. QED
      BY <3>1, <3>2
  <2>4. CASE tx.from # q
    <3>1. outcome'[q] = outcome[q] /\ (Believes(q)' <=> Believes(q))
      BY <1>1, <1>2, <2>4 DEF Senders, Believes
    <3>2. Believes(q) => outcome[q] # "unknown"
      BY DEF Believes
    <3>3. QED
      BY <1>1, <1>3, <2>2, <3>1, <3>2 DEF CoreInv, RequestInv
  <2>5. QED
    BY <2>3, <2>4
<1>9. TickInv'
  <2>1. SUFFICES ASSUME NEW t \in Ticks
                 PROVE  /\ ticks[t].pc = "won" => Known(ticks[t].id)'
                        /\ outcome'[t] # "unknown" => ticks[t].pc = "await" /\ Known(ticks[t].id)'
    BY <1>1 DEF TickInv, Known, OnChain
  <2>2. ticks[t].pc # "idle" => ticks[t].id \in Ids
    BY DEF CoreInv, TypeOK, TickType, IdleTick
  <2>3. CASE tx.from = t
    BY <1>1, <2>3, ToldRight DEF CoreInv, TxInv
  <2>4. CASE tx.from # t
    BY <1>1, <1>2, <1>3, <2>2, <2>4 DEF CoreInv, TickInv, Senders
  <2>5. QED
    BY <2>3, <2>4
<1>10. RowInv'
  BY <1>1, <1>3 DEF CoreInv, RowInv
<1>11. QED
  BY <1>4, <1>5, <1>7, <1>8, <1>9, <1>10 DEF CoreInv

(* A third party's registration puts one more id on chain, and that is all. *)
LEMMA ThirdPartyKeeps ==
  ASSUME CoreInv, NEW creator \in Accounts, NEW id \in Ids, ThirdParty(creator, id)
  PROVE  /\ CoreInv'
         /\ \A k \in Ids : Known(k) => Known(k)'
         /\ PlatformRegistrations' \subseteq PlatformRegistrations
<1>1. /\ UNCHANGED <<status, old, reqs, ticks, retryCounts, txs, outcome, up, misled>>
      /\ Chain!Register(creator, creator, id, Terms, Terms, Terms)
      /\ creator # Platform
  BY DEF ThirdParty
<1>2. LedgerInv' /\ \A k \in Ids : Known(k) => Known(k)'
  BY <1>1, RegisterLedger DEF Known
<1>3. TypeOK' /\ TxInv'
  BY <1>1 DEF CoreInv, TypeOK, TxInv
<1>4. \A q \in Requests : reqs[q].pc # "idle" => reqs[q].id \in Ids
  BY DEF CoreInv, TypeOK, RequestType, IdleRequest
<1>5. \A t \in Ticks : ticks[t].pc # "idle" => ticks[t].id \in Ids
  BY DEF CoreInv, TypeOK, TickType, IdleTick
<1>6. RequestInv'
  <2>1. SUFFICES ASSUME NEW q \in Requests
                 PROVE  /\ reqs[q].pc = "won" => Known(reqs[q].id)'
                        /\ outcome[q] # "unknown" => reqs[q].pc = "polling"
                        /\ Believes(q) => Known(reqs[q].id)'
    BY <1>1 DEF RequestInv, Known, OnChain, Believes
  <2>2. Believes(q) => outcome[q] # "unknown"
    BY DEF Believes
  <2>3. QED
    BY <1>1, <1>2, <1>4, <2>2 DEF CoreInv, RequestInv, Known, OnChain
<1>7. TickInv'
  <2>1. SUFFICES ASSUME NEW t \in Ticks
                 PROVE  /\ ticks[t].pc = "won" => Known(ticks[t].id)'
                        /\ outcome[t] # "unknown" => ticks[t].pc = "await" /\ Known(ticks[t].id)'
    BY <1>1 DEF TickInv, Known, OnChain
  <2>2. QED
    BY <1>1, <1>2, <1>5 DEF CoreInv, TickInv, Known, OnChain
<1>8. RowInv'
  BY <1>1, <1>2 DEF CoreInv, RowInv
<1>9. PlatformRegistrations' \subseteq PlatformRegistrations
  BY <1>1, RegisterLedger
<1>10. QED
  BY <1>2, <1>3, <1>6, <1>7, <1>8, <1>9 DEF CoreInv

(* Nothing but an inclusion or a third party writes to the ledger.         *)
LEMMA OnlyThese ==
  ASSUME [Next]_vars
  PROVE  \/ UNCHANGED <<chain, misled>>
         \/ \E tx \in txs : Apply(tx) \/ Fail(tx)
         \/ \E creator \in Accounts, id \in Ids : ThirdParty(creator, id)
<1>1. ASSUME Next, ~(\E tx \in txs : Apply(tx) \/ Fail(tx)),
             ~(\E creator \in Accounts, id \in Ids : ThirdParty(creator, id))
      PROVE UNCHANGED <<chain, misled>>
  BY <1>1 DEF Next, PostRegister, HandlerStep, MarkPending, Submit, Poll, SubmissionFails,
    RequestFails, FinishRequest, Reply, GiveUp, RequestThrows, TickStep, Tick, Lookup,
    Retry, Await, FinishWon, FinishExhausted, CatchExhausted, CatchOn, TickFails,
    TickThrows, Settle, Drop, Age, Stop, Boot
<1>2. UNCHANGED vars => UNCHANGED <<chain, misled>>
  BY DEF vars
<1>3. QED
  BY <1>1, <1>2

----------------------------------------------------------------------------
(* What was asked for: no step of the server takes a row back to "none",   *)
(* every submission follows the write of "pending", and only the worker    *)
(* signs for rows that are not the platform's.                             *)
LEMMA AskedKept ==
  ASSUME NEW S, CoreInv, AskedBut(S), [Next]_vars
  PROVE  AskedBut(S)'
<1> USE RegistrationAssumption
<1>1. ASSUME UNCHANGED chain PROVE PlatformRegistrations' = PlatformRegistrations
  BY <1>1 DEF chain, PlatformRegistrations
<1>2. ASSUME NEW q \in Requests, NEW id \in Ids, NEW flow \in {"signed", "legacy"},
             PostRegister(q, id, flow)
      PROVE  AskedBut(S)'
  BY <1>1, <1>2 DEF PostRegister, AskedBut, Asked, CoreInv, TypeOK, RequestType, TickType, TxType, Status, IdleRequest,
    IdleTick
<1>3. ASSUME NEW q \in Requests, MarkPending(q)
      PROVE  AskedBut(S)'
  BY <1>1, <1>3 DEF MarkPending, AskedBut, Asked, CoreInv, TypeOK, RequestType, TickType, TxType, Status, IdleRequest,
    IdleTick
<1>4. ASSUME NEW q \in Requests, Submit(q)
      PROVE  AskedBut(S)'
  BY <1>1, <1>4 DEF Submit, Signable, Tx, AskedBut, Asked, CoreInv, TypeOK, RequestType, TickType, TxType, Status, IdleRequest,
    IdleTick
<1>5. ASSUME NEW q \in Requests, Poll(q)
      PROVE  AskedBut(S)'
  BY <1>1, <1>5 DEF Poll, AskedBut, Asked, CoreInv, TypeOK, RequestType, TickType, TxType, Status, IdleRequest,
    IdleTick
<1>6. ASSUME NEW q \in Requests, SubmissionFails(q)
      PROVE  AskedBut(S)'
  BY <1>1, <1>6 DEF SubmissionFails, Orphaned, AskedBut, Asked, CoreInv, TypeOK, RequestType, TickType, TxType, Status, IdleRequest,
    IdleTick
<1>7. ASSUME NEW q \in Requests, RequestFails(q)
      PROVE  AskedBut(S)'
  BY <1>1, <1>7 DEF RequestFails, Orphaned, AskedBut, Asked, CoreInv, TypeOK, RequestType, TickType, TxType, Status, IdleRequest,
    IdleTick
<1>8. ASSUME NEW q \in Requests, FinishRequest(q)
      PROVE  AskedBut(S)'
  BY <1>1, <1>8 DEF FinishRequest, AskedBut, Asked, CoreInv, TypeOK, RequestType, TickType, TxType, Status, IdleRequest,
    IdleTick
<1>9. ASSUME NEW q \in Requests, Reply(q)
      PROVE  AskedBut(S)'
  BY <1>1, <1>9 DEF Reply, AskedBut, Asked, CoreInv, TypeOK, RequestType, TickType, TxType, Status, IdleRequest,
    IdleTick
<1>10. ASSUME NEW q \in Requests, GiveUp(q)
      PROVE  AskedBut(S)'
  BY <1>1, <1>10 DEF GiveUp, AskedBut, Asked, CoreInv, TypeOK, RequestType, TickType, TxType, Status, IdleRequest,
    IdleTick
<1>11. ASSUME NEW q \in Requests, RequestThrows(q)
      PROVE  AskedBut(S)'
  BY <1>1, <1>11 DEF RequestThrows, AskedBut, Asked, CoreInv, TypeOK, RequestType, TickType, TxType, Status, IdleRequest,
    IdleTick
<1>12. ASSUME NEW t \in Ticks, Tick(t)
      PROVE  AskedBut(S)'
  BY <1>1, <1>12 DEF Tick, At, Advance, Stuck, AskedBut, Asked, CoreInv, TypeOK, RequestType, TickType, TxType, Status, IdleRequest,
    IdleTick
<1>13. ASSUME NEW t \in Ticks, Lookup(t)
      PROVE  AskedBut(S)'
  BY <1>1, <1>13 DEF Lookup, At, Goto, AskedBut, Asked, CoreInv, TypeOK, RequestType, TickType, TxType, Status, IdleRequest,
    IdleTick
<1>14. ASSUME NEW t \in Ticks, Retry(t)
      PROVE  AskedBut(S)'
  BY <1>1, <1>14 DEF Retry, At, Goto, Tx, AskedBut, Asked, CoreInv, TypeOK, RequestType, TickType, TxType, Status, IdleRequest,
    IdleTick
<1>15. ASSUME NEW t \in Ticks, Await(t)
      PROVE  AskedBut(S)'
  BY <1>1, <1>15 DEF Await, At, Goto, AskedBut, Asked, CoreInv, TypeOK, RequestType, TickType, TxType, Status, IdleRequest,
    IdleTick
<1>16. ASSUME NEW t \in Ticks, FinishWon(t)
      PROVE  AskedBut(S)'
  BY <1>1, <1>16 DEF FinishWon, At, Settle, Advance, AskedBut, Asked, CoreInv, TypeOK, RequestType, TickType, TxType, Status, IdleRequest,
    IdleTick
<1>17. ASSUME NEW t \in Ticks, FinishExhausted(t)
      PROVE  AskedBut(S)'
  BY <1>1, <1>17 DEF FinishExhausted, At, Settle, Advance, AskedBut, Asked, CoreInv, TypeOK, RequestType, TickType, TxType, Status, IdleRequest,
    IdleTick
<1>18. ASSUME NEW t \in Ticks, CatchExhausted(t)
      PROVE  AskedBut(S)'
  BY <1>1, <1>18 DEF CatchExhausted, At, Settle, Advance, AskedBut, Asked, CoreInv, TypeOK, RequestType, TickType, TxType, Status, IdleRequest,
    IdleTick
<1>19. ASSUME NEW t \in Ticks, CatchOn(t)
      PROVE  AskedBut(S)'
  BY <1>1, <1>19 DEF CatchOn, At, Advance, AskedBut, Asked, CoreInv, TypeOK, RequestType, TickType, TxType, Status, IdleRequest,
    IdleTick
<1>20. ASSUME NEW t \in Ticks, TickFails(t)
      PROVE  AskedBut(S)'
  BY <1>1, <1>20 DEF TickFails, Goto, Orphaned, AskedBut, Asked, CoreInv, TypeOK, RequestType, TickType, TxType, Status, IdleRequest,
    IdleTick
<1>21. ASSUME NEW t \in Ticks, TickThrows(t)
      PROVE  AskedBut(S)'
  BY <1>1, <1>21 DEF TickThrows, At, AskedBut, Asked, CoreInv, TypeOK, RequestType, TickType, TxType, Status, IdleRequest,
    IdleTick
<1>22. ASSUME NEW tx \in txs, Drop(tx)
      PROVE  AskedBut(S)'
  BY <1>1, <1>22 DEF Drop, AskedBut, Asked, CoreInv, TypeOK, RequestType, TickType, TxType, Status, IdleRequest,
    IdleTick
<1>23. ASSUME NEW id \in Ids, Age(id)
      PROVE  AskedBut(S)'
  BY <1>1, <1>23 DEF Age, AskedBut, Asked, CoreInv, TypeOK, RequestType, TickType, TxType, Status, IdleRequest,
    IdleTick
<1>24. ASSUME Stop
      PROVE  AskedBut(S)'
  <2>1. UNCHANGED <<status, old, chain>> /\ reqs' = [q \in Requests |-> IdleRequest]
        /\ ticks' = [t \in Ticks |-> IdleTick]
    BY <1>24 DEF Stop
  <2>2. \A tx \in txs' : \E u \in txs : u.id = tx.id /\ u.creator = tx.creator
    BY <1>24 DEF Stop, CoreInv, TypeOK, TxType
  <2>3. QED
    BY <1>1, <2>1, <2>2 DEF AskedBut, Asked, IdleRequest, IdleTick
<1>29. ASSUME Boot PROVE AskedBut(S)'
  BY <1>1, <1>29 DEF Boot, AskedBut, Asked
<1>25. ASSUME NEW tx \in txs, Apply(tx) \/ Fail(tx) PROVE AskedBut(S)'
  <2>1. /\ txs' = txs \ {tx}
        /\ UNCHANGED <<status, old, reqs, ticks>>
    BY <1>25 DEF Apply, Fail, Tell
  <2>2. \A k \in PlatformRegistrations' :
          k \in PlatformRegistrations \/ (k = tx.id /\ tx.creator = Platform /\ tx.id \in Ids)
    BY <1>25, IncludedLedger
  <2>3. ASSUME NEW k \in PlatformRegistrations' PROVE Asked(k) \/ k \in S
    <3>1. CASE k \in PlatformRegistrations
      BY <3>1 DEF AskedBut
    <3>2. CASE k = tx.id /\ tx.creator = Platform /\ tx.id \in Ids
      BY <3>2 DEF AskedBut
    <3>3. QED
      BY <2>2, <3>1, <3>2, <1>25, IncludedLedger
  <2>4. QED
    BY <2>1, <2>3 DEF AskedBut, Asked
<1>26. ASSUME NEW creator \in Accounts, NEW id \in Ids, ThirdParty(creator, id) PROVE AskedBut(S)'
  <2>1. UNCHANGED <<status, old, reqs, ticks, txs>>
    BY <1>26 DEF ThirdParty
  <2>2. QED
    BY <1>26, <2>1, ThirdPartyKeeps DEF AskedBut, Asked
<1>27. CASE UNCHANGED vars
  BY <1>1, <1>27 DEF vars, AskedBut, Asked
<1>28. QED
  BY <1>2, <1>3, <1>4, <1>5, <1>6, <1>7, <1>8, <1>9, <1>10, <1>11, <1>12, <1>13, <1>14, <1>15, <1>16, <1>17, <1>18, <1>19, <1>20, <1>21, <1>22, <1>23, <1>24, <1>25, <1>26, <1>27, <1>29
    DEF Next, HandlerStep, TickStep
----------------------------------------------------------------------------
(* The results. *)

LEMMA CoreInit == Init => CoreInv
<1> USE RegistrationAssumption
<1>1. ASSUME Init PROVE TypeOK /\ TxInv /\ RequestInv /\ TickInv
  BY <1>1 DEF Init, TypeOK, TxInv, RequestInv, Believes, TickInv, RequestType, TickType, TxType,
    Status, IdleRequest, IdleTick, Senders
<1>2. ASSUME Init PROVE LedgerInv /\ RowInv
  BY <1>2 DEF Init, Chain!Init, LedgerInv, RowInv
<1>3. QED
  BY <1>1, <1>2 DEF CoreInv

LEMMA CoreKept ==
  ASSUME CoreInv, [Next]_vars
  PROVE  CoreInv'
<1>1. ASSUME NEW q \in Requests, HandlerStep(q) PROVE CoreInv'
  BY <1>1, MarkPendingKeeps, SubmitKeeps, PollKeeps, SubmissionFailsKeeps,
    RequestFailsKeeps, FinishRequestKeeps, ReplyKeeps, GiveUpKeeps, RequestThrowsKeeps
    DEF HandlerStep
<1>2. ASSUME NEW t \in Ticks, TickStep(t) PROVE CoreInv'
  BY <1>2, TickKeeps, LookupKeeps, RetryKeeps, AwaitKeeps, FinishWonKeeps,
    FinishExhaustedKeeps, CatchExhaustedKeeps, CatchOnKeeps, TickFailsKeeps,
    TickThrowsKeeps DEF TickStep
<1>3. CASE UNCHANGED vars
  BY <1>3 DEF vars, chain, CoreInv, TypeOK, LedgerInv, TxInv, RequestInv, Believes, TickInv,
    RowInv, Known, OnChain
<1>4. QED
  BY <1>1, <1>2, <1>3, PostRegisterKeeps, IncludedKeeps, ThirdPartyKeeps, DropKeeps, AgeKeeps,
    StopKeeps, BootKeeps DEF Next

LEMMA AskedInit == Init => AskedBut({})
  BY DEF Init, Chain!Init, AskedBut, PlatformRegistrations, IdleRequest, IdleTick

LEMMA Inductive == Spec => [](CoreInv /\ AskedBut({}))
<1>1. ASSUME CoreInv /\ AskedBut({}), [Next]_vars PROVE (CoreInv /\ AskedBut({}))'
  BY <1>1, CoreKept, AskedKept
<1>2. QED
  BY <1>1, AskedInit, CoreInit, PTL DEF Spec

(* Type correctness of the rows, handlers, ticks and counts.               *)
THEOREM TypeCorrect == Spec => []TypeOK
<1>1. CoreInv => TypeOK
  BY DEF CoreInv
<1>2. QED
  BY <1>1, Inductive, PTL

(* A row reported as registered is on chain, whatever raced, timed out or  *)
(* restarted, but for a wrong transaction or an ignored refusal.           *)
THEOREM RegisteredOnChain == Spec => []RegisteredIsOnChain
<1>1. CoreInv => RegisteredIsOnChain
  BY DEF CoreInv, RowInv, RegisteredIsOnChain, Chain!Exists, Known, OnChain
<1>2. QED
  BY <1>1, Inductive, PTL

(* The server becomes the creator of another publisher's row only after    *)
(* that publisher asked for a registration and the cutoff has passed.      *)
THEOREM PlatformTakesStuckRows == Spec => []PlatformTakesOnlyStuckRows
<1>1. AskedBut({}) => PlatformTakesOnlyStuckRows
  BY DEF AskedBut, Asked, PlatformTakesOnlyStuckRows
<1>2. QED
  BY <1>1, Inductive, PTL

----------------------------------------------------------------------------
(* A registered row nobody works on is out of reach of every action: the   *)
(* POST handler and the worker's query take up other rows only.            *)
LEMMA SettledStays ==
  ASSUME TypeOK, [Next]_vars, NEW id \in Ids, Settled(id)
  PROVE  Settled(id)'
<1> USE RegistrationAssumption
<1>1. ASSUME NEW q \in Requests, NEW k \in Ids, NEW flow \in {"signed", "legacy"},
              PostRegister(q, k, flow) PROVE Settled(id)'
  BY <1>1 DEF PostRegister, Settled, Busy, IdleRequest, IdleTick, TypeOK, RequestType, TickType
<1>2. ASSUME NEW q \in Requests, MarkPending(q) PROVE Settled(id)'
  BY <1>2 DEF MarkPending, Settled, Busy, IdleRequest, IdleTick, TypeOK, RequestType, TickType
<1>3. ASSUME NEW q \in Requests, Submit(q) PROVE Settled(id)'
  BY <1>3 DEF Submit, Settled, Busy, IdleRequest, IdleTick, TypeOK, RequestType, TickType
<1>4. ASSUME NEW q \in Requests, Poll(q) PROVE Settled(id)'
  BY <1>4 DEF Poll, Settled, Busy, IdleRequest, IdleTick, TypeOK, RequestType, TickType
<1>5. ASSUME NEW q \in Requests, RequestFails(q) PROVE Settled(id)'
  BY <1>5 DEF RequestFails, Settled, Busy, IdleRequest, IdleTick, TypeOK, RequestType, TickType
<1>6. ASSUME NEW q \in Requests, FinishRequest(q) PROVE Settled(id)'
  BY <1>6 DEF FinishRequest, Settled, Busy, IdleRequest, IdleTick, TypeOK, RequestType, TickType
<1>7. ASSUME NEW q \in Requests, RequestThrows(q) PROVE Settled(id)'
  BY <1>7 DEF RequestThrows, Settled, Busy, IdleRequest, IdleTick, TypeOK, RequestType, TickType
<1>8. ASSUME NEW t \in Ticks, Tick(t) PROVE Settled(id)'
  BY <1>8 DEF Tick, Settled, Busy, IdleRequest, IdleTick, TypeOK, RequestType, TickType, At, Advance, Stuck
<1>9. ASSUME NEW t \in Ticks, Lookup(t) PROVE Settled(id)'
  BY <1>9 DEF Lookup, Settled, Busy, IdleRequest, IdleTick, TypeOK, RequestType, TickType, At, Goto
<1>10. ASSUME NEW t \in Ticks, Retry(t) PROVE Settled(id)'
  BY <1>10 DEF Retry, Settled, Busy, IdleRequest, IdleTick, TypeOK, RequestType, TickType, At, Goto
<1>11. ASSUME NEW t \in Ticks, Await(t) PROVE Settled(id)'
  BY <1>11 DEF Await, Settled, Busy, IdleRequest, IdleTick, TypeOK, RequestType, TickType, At, Goto
<1>12. ASSUME NEW t \in Ticks, FinishWon(t) PROVE Settled(id)'
  BY <1>12 DEF FinishWon, Settled, Busy, IdleRequest, IdleTick, TypeOK, RequestType, TickType, At, Settle, Advance
<1>13. ASSUME NEW t \in Ticks, FinishExhausted(t) PROVE Settled(id)'
  BY <1>13 DEF FinishExhausted, Settled, Busy, IdleRequest, IdleTick, TypeOK, RequestType, TickType, At, Settle, Advance
<1>14. ASSUME NEW t \in Ticks, CatchExhausted(t) PROVE Settled(id)'
  BY <1>14 DEF CatchExhausted, Settled, Busy, IdleRequest, IdleTick, TypeOK, RequestType, TickType, At, Settle, Advance
<1>15. ASSUME NEW t \in Ticks, CatchOn(t) PROVE Settled(id)'
  BY <1>15 DEF CatchOn, Settled, Busy, IdleRequest, IdleTick, TypeOK, RequestType, TickType, At, Advance
<1>16. ASSUME NEW t \in Ticks, TickFails(t) PROVE Settled(id)'
  BY <1>16 DEF TickFails, Settled, Busy, IdleRequest, IdleTick, TypeOK, RequestType, TickType, At, Goto
<1>17. ASSUME NEW t \in Ticks, TickThrows(t) PROVE Settled(id)'
  BY <1>17 DEF TickThrows, Settled, Busy, IdleRequest, IdleTick, TypeOK, RequestType, TickType, At
<1>18. ASSUME NEW tx \in txs, Apply(tx) \/ Fail(tx) PROVE Settled(id)'
  BY <1>18 DEF Apply, Fail, Tell, Settled, Busy, IdleRequest, IdleTick, TypeOK, RequestType, TickType
<1>19. ASSUME NEW tx \in txs, Drop(tx) PROVE Settled(id)'
  BY <1>19 DEF Drop, Settled, Busy, IdleRequest, IdleTick, TypeOK, RequestType, TickType
<1>20. ASSUME NEW k \in Ids, Age(k) PROVE Settled(id)'
  BY <1>20 DEF Age, Settled, Busy, IdleRequest, IdleTick, TypeOK, RequestType, TickType
<1>28. ASSUME Boot PROVE Settled(id)'
  BY <1>28 DEF Boot, Settled, Busy
<1>21. ASSUME Stop PROVE Settled(id)'
  BY <1>21 DEF Stop, Settled, Busy, IdleRequest, IdleTick, TypeOK, RequestType, TickType
<1>22. CASE UNCHANGED vars
  BY <1>22 DEF vars, Settled, Busy
<1>23. ASSUME NEW q \in Requests, SubmissionFails(q) PROVE Settled(id)'
  BY <1>23 DEF SubmissionFails, Settled, Busy, IdleRequest, IdleTick, TypeOK, RequestType, TickType
<1>24. ASSUME NEW q \in Requests, Reply(q) PROVE Settled(id)'
  BY <1>24 DEF Reply, Settled, Busy, IdleRequest, IdleTick, TypeOK, RequestType, TickType
<1>25. ASSUME NEW q \in Requests, GiveUp(q) PROVE Settled(id)'
  BY <1>25 DEF GiveUp, Settled, Busy, IdleRequest, IdleTick, TypeOK, RequestType, TickType
<1>26. ASSUME NEW creator \in Accounts, NEW k \in Ids, ThirdParty(creator, k) PROVE Settled(id)'
  BY <1>26 DEF ThirdParty, Settled, Busy
<1>27. QED
  BY <1>1, <1>2, <1>3, <1>4, <1>5, <1>6, <1>7, <1>8, <1>9, <1>10, <1>11, <1>12, <1>13, <1>14, <1>15, <1>16, <1>17, <1>18, <1>19, <1>20, <1>21, <1>22, <1>23, <1>24, <1>25, <1>26, <1>28
    DEF Next, HandlerStep,
    TickStep

(* Once registered and left alone, a row is registered for good.           *)
THEOREM SettledIsForGood == Spec => SettledForGood
<1>1. ASSUME TypeOK, [Next]_vars
      PROVE  [\A id \in Ids : Settled(id) => Settled(id)']_vars
  BY <1>1, SettledStays
<1>2. QED
  BY <1>1, TypeCorrect, PTL DEF Spec, SettledForGood

LEMMA StepOfTheContract ==
  ASSUME TypeOK, [Next]_vars
  PROVE  [Chain!Next]_(Chain!vars)
<1>1. ASSUME NEW tx \in txs, Apply(tx) \/ Fail(tx) PROVE Chain!Next \/ UNCHANGED chain
  <2>1. tx.id \in Ids \cup {NoValue} /\ tx.creator \in Accounts
    BY <1>1 DEF TypeOK, TxType
  <2>2. QED
    BY <1>1, <2>1 DEF Apply, Fail, Chain!Next
<1>2. ASSUME NEW creator \in Accounts, NEW id \in Ids, ThirdParty(creator, id) PROVE Chain!Next
  BY <1>2 DEF ThirdParty, Chain!Next
<1>3. QED
  BY <1>1, <1>2, OnlyThese DEF Chain!vars, chain

(* The whole server is a user of the contract: seen from the ledger, each  *)
(* of its steps is an entry point of the contract or nothing at all.  What *)
(* VaultRegistryProofs shows of the contract holds of the registry that    *)
(* the server fills.                                                       *)
THEOREM UsesTheContract == Spec => Chain!Spec
<1>1. Init => Chain!Init
  BY DEF Init
<1>2. QED
  BY <1>1, StepOfTheContract, TypeCorrect, PTL DEF Spec, Chain!Spec

----------------------------------------------------------------------------
(* The backfill script beside the server. *)

(* What the script takes for a registration is one, or it was misled.      *)
ScriptInv ==
  /\ script \in [pc : {"idle", "next", "register", "await", "won", "catch", "done"},
                 todo : SUBSET Ids, id : Ids \cup {NoValue}]
  /\ script.pc \in {"register", "await", "won", "catch"} => script.id \in Ids
  /\ script.pc = "won" => Known(script.id)
  /\ outcome[Script] # "unknown" => script.pc = "await" /\ Known(script.id)
  /\ \A tx \in txs : tx.from = Script =>
       script.pc = "await" /\ tx = Tx(script.id, Platform, Script) /\ outcome[Script] = "unknown"

LEMMA KnownStays ==
  ASSUME CoreInv, [Next]_vars, NEW id \in Ids, Known(id)
  PROVE  Known(id)'
<1>1. CASE UNCHANGED <<chain, misled>>
  BY <1>1 DEF chain, Known, OnChain
<1>2. QED
  BY <1>1, OnlyThese, IncludedLedger, ThirdPartyKeeps

(* The server's steps, but for an inclusion, leave the script's            *)
(* transaction alone.                                                      *)
LEMMA ScriptUndisturbed ==
  ASSUME CoreInv, [Next]_vars, ~(\E tx \in txs : Apply(tx) \/ Fail(tx))
  PROVE  /\ outcome'[Script] = outcome[Script]
         /\ \A tx \in txs' : tx.from = Script => tx \in txs
<1> USE RegistrationAssumption
<1>1. outcome \in [Senders -> {"unknown", "success", "failed"}] /\ Script \in Senders
  BY DEF CoreInv, TypeOK, Senders
<1>2. ASSUME NEW q \in Requests, HandlerStep(q)
      PROVE  outcome'[Script] = outcome[Script] /\ \A tx \in txs' : tx.from = Script => tx \in txs
  <2>1. CASE SubmissionFails(q) \/ RequestFails(q)
    BY <1>1, <2>1 DEF SubmissionFails, RequestFails, Orphaned, Forget, CoreInv, TypeOK, TxType
  <2>2. CASE Submit(q)
    BY <1>1, <2>2 DEF Submit, Tx
  <2>3. CASE Poll(q)
    BY <1>1, <2>3 DEF Poll, Forget
  <2>4. QED
    BY <1>2, <2>1, <2>2, <2>3 DEF HandlerStep, MarkPending, FinishRequest, Reply, GiveUp,
      RequestThrows
<1>3. ASSUME NEW t \in Ticks, TickStep(t)
      PROVE  outcome'[Script] = outcome[Script] /\ \A tx \in txs' : tx.from = Script => tx \in txs
  <2>1. CASE TickFails(t)
    BY <1>1, <2>1 DEF TickFails, Orphaned, Forget, CoreInv, TypeOK, TxType
  <2>2. CASE Retry(t)
    BY <1>1, <2>2 DEF Retry, Tx
  <2>3. CASE Await(t)
    BY <1>1, <2>3 DEF Await, Forget
  <2>4. QED
    BY <1>3, <2>1, <2>2, <2>3 DEF TickStep, Tick, Lookup, FinishWon, FinishExhausted,
      CatchExhausted, CatchOn, TickThrows, Settle
<1>4. ASSUME Stop
      PROVE  outcome'[Script] = outcome[Script] /\ \A tx \in txs' : tx.from = Script => tx \in txs
  BY <1>1, <1>4 DEF Stop, CoreInv, TypeOK, TxType
<1>5. ASSUME NEW tx \in txs, Drop(tx)
      PROVE  outcome'[Script] = outcome[Script] /\ \A u \in txs' : u.from = Script => u \in txs
  BY <1>5 DEF Drop
<1>6. QED
  BY <1>2, <1>3, <1>4, <1>5 DEF Next, PostRegister, Age, Boot, ThirdParty, vars

LEMMA ServerKeepsScript ==
  ASSUME CoreInv, ScriptInv, [Next]_vars, UNCHANGED script
  PROVE  ScriptInv'
<1> USE RegistrationAssumption
<1>1. script.pc \in {"await", "won"} /\ Known(script.id) => Known(script.id)'
  BY KnownStays DEF ScriptInv
<1>2. CASE ~(\E tx \in txs : Apply(tx) \/ Fail(tx))
  BY <1>1, <1>2, ScriptUndisturbed DEF ScriptInv, Known, OnChain
<1>3. ASSUME NEW tx \in txs, Apply(tx) \/ Fail(tx) PROVE ScriptInv'
  <2>1. txs' = txs \ {tx} /\ (Script # tx.from => outcome'[Script] = outcome[Script])
    BY <1>3 DEF Apply, Fail, Tell, Senders
  <2>2. CASE tx.from = Script
    <3>1. script.pc = "await" /\ tx.id = script.id /\ tx.id \in Ids
      BY <2>2 DEF ScriptInv, Tx
    <3>2. Known(script.id)'
      BY <1>3, <2>2, <3>1, ToldRight DEF Known, OnChain
    <3>3. \A u \in txs' : u.from # Script
      <4>1. ASSUME NEW u \in txs, u.from = Script PROVE u = tx
        BY <2>2, <4>1 DEF ScriptInv
      <4>2. QED
        BY <2>1, <4>1
    <3>4. QED
      BY <3>1, <3>2, <3>3 DEF ScriptInv
  <2>3. CASE tx.from # Script
    BY <1>1, <2>1, <2>3 DEF ScriptInv, Known, OnChain
  <2>4. QED
    BY <2>2, <2>3
<1>4. QED
  BY <1>2, <1>3

LEMMA ScriptKeeps ==
  ASSUME CoreInv, ScriptInv, ScriptStep
  PROVE  CoreInv' /\ ScriptInv'
<1> USE RegistrationAssumption
<1>1. ASSUME UNCHANGED vars PROVE CoreInv'
  BY <1>1 DEF vars, chain, CoreInv, TypeOK, LedgerInv, TxInv, RequestInv, Believes, TickInv,
    RowInv, Known, OnChain
<1>2. CASE Start \/ TakeRow
  <2>1. UNCHANGED vars
    BY <1>2 DEF Start, TakeRow
  <2>2. ScriptInv'
    <3>1. UNCHANGED <<txs, outcome>> /\ ScriptInv
      BY <2>1 DEF vars
    <3>2. script'.pc \in {"next", "register"} /\ (script'.pc = "register" => script'.id \in Ids)
          /\ script' \in [pc : {"idle", "next", "register", "await", "won", "catch", "done"},
                         todo : SUBSET Ids, id : Ids \cup {NoValue}]
          /\ script.pc \in {"idle", "next"}
      <4>1. CASE Start
        BY <4>1 DEF Start, ScriptInv
      <4>2. CASE TakeRow
        BY <4>2 DEF TakeRow, ScriptInv
      <4>3. QED
        BY <1>2, <4>1, <4>2
    <3>3. QED
      BY <3>1, <3>2 DEF ScriptInv
  <2>3. QED
    BY <1>1, <2>1, <2>2
<1>3. CASE Submitted
  <2>1. /\ txs' = txs \cup {Tx(script.id, Platform, Script)}
        /\ UNCHANGED <<status, old, reqs, ticks, retryCounts, outcome, up, misled, chain>>
        /\ script.id \in Ids
    BY <1>3 DEF Submitted, ScriptInv
  <2>2. TypeOK' /\ TxInv'
    BY <2>1 DEF CoreInv, TypeOK, TxType, TxInv, Tx, Senders
  <2>3. LedgerInv' /\ RequestInv' /\ TickInv' /\ RowInv'
    BY <2>1 DEF CoreInv, LedgerInv, RequestInv, Believes, TickInv, RowInv, Known, OnChain, chain
  <2>4. ScriptInv'
    BY <1>3 DEF Submitted, ScriptGoto, ScriptInv
  <2>5. QED
    BY <2>2, <2>3, <2>4 DEF CoreInv
<1>4. ASSUME UNCHANGED <<status, old, reqs, ticks, retryCounts, up, misled, chain>>,
             Forget(Script),
             \A tx \in txs' : tx \in txs \/ (tx.from = NoValue /\ tx \in TxType)
      PROVE  CoreInv'
  <2>1. Script \in Senders /\ outcome'[Script] = "unknown"
        /\ \A s \in Senders : s # Script => outcome'[s] = outcome[s]
    BY <1>4 DEF Forget, Senders, CoreInv, TypeOK
  <2>2. TypeOK'
    BY <1>4 DEF CoreInv, TypeOK, Forget
  <2>3. TxInv'
    BY <1>4, <2>1 DEF CoreInv, TxInv, Senders
  <2>4. LedgerInv' /\ RowInv'
    BY <1>4 DEF CoreInv, LedgerInv, RowInv, Known, OnChain, chain
  <2>5. RequestInv' /\ TickInv'
    BY <1>4, <2>1 DEF CoreInv, RequestInv, Believes, TickInv, Known, OnChain, chain, Senders
  <2>6. QED
    BY <2>2, <2>3, <2>4, <2>5 DEF CoreInv
<1>5. CASE Final
  <2>1. CoreInv'
    BY <1>4, <1>5 DEF Final
  <2>2. ScriptInv'
    <3>1. Script \in Senders /\ outcome'[Script] = "unknown"
      BY <1>5 DEF Final, Forget, Senders, CoreInv, TypeOK
    <3>2. QED
      BY <1>5, <3>1 DEF Final, ScriptGoto, ScriptInv, Known, OnChain, chain
  <2>3. QED
    BY <2>1, <2>2
<1>6. ASSUME NEW pc \in {"catch", "done"}, ScriptLeaves(pc), pc = "catch" => script.id \in Ids
      PROVE  CoreInv' /\ ScriptInv'
  <2>1. \A tx \in txs' : (tx \in txs /\ tx.from # Script) \/ (tx.from = NoValue /\ tx \in TxType)
    BY <1>6 DEF ScriptLeaves, Orphaned, CoreInv, TypeOK, TxType
  <2>2. CoreInv'
    BY <1>4, <1>6, <2>1 DEF ScriptLeaves
  <2>3. ScriptInv'
    <3>1. Script \in Senders /\ outcome'[Script] = "unknown"
      BY <1>6 DEF ScriptLeaves, Forget, Senders, CoreInv, TypeOK
    <3>2. QED
      BY <1>6, <2>1, <3>1 DEF ScriptLeaves, ScriptGoto, ScriptInv
  <2>4. QED
    BY <2>2, <2>3
<1>7. ASSUME NEW s \in {"registered", "failed"}, ScriptWrites(s), script.id \in Ids,
             s = "registered" => Known(script.id), script.pc \in {"won", "catch"}
      PROVE  CoreInv' /\ ScriptInv'
  <2>1. /\ status' = [status EXCEPT ![script.id] = s]
        /\ UNCHANGED <<old, reqs, ticks, retryCounts, txs, outcome, up, misled, chain>>
    BY <1>7 DEF ScriptWrites
  <2>2. TypeOK' /\ LedgerInv' /\ TxInv' /\ RequestInv' /\ TickInv' /\ RowInv'
    BY <1>7, <2>1 DEF CoreInv, TypeOK, Status, LedgerInv, TxInv, RequestInv, Believes, TickInv,
      RowInv, Known, OnChain, chain
  <2>3. ScriptInv'
    BY <1>7, <2>1 DEF ScriptWrites, ScriptInv
  <2>4. QED
    BY <2>2, <2>3 DEF CoreInv
<1>8. CASE WriteRegistered
  BY <1>7, <1>8 DEF WriteRegistered, ScriptInv
<1>9. CASE WriteFailed
  BY <1>7, <1>9 DEF WriteFailed, ScriptInv
<1>10. CASE Throws
  BY <1>6, <1>10 DEF Throws, ScriptInv
<1>11. CASE Quit
  BY <1>6, <1>11 DEF Quit
<1>12. QED
  BY <1>2, <1>3, <1>5, <1>8, <1>9, <1>10, <1>11 DEF ScriptStep

LEMMA RegistrationIsTyped ==
  ASSUME LedgerInv, NEW id \in PlatformRegistrations
  PROVE  id \in Ids
<1>1. PICK i \in 1 .. Len(events) : id = events[i].data
  BY DEF PlatformRegistrations
<1>2. events[i] \in RegisterEvent
  BY <1>1 DEF LedgerInv
<1>3. QED
  BY <1>1, <1>2 DEF RegisterEvent

(* The script excuses itself for what it takes up.                         *)
LEMMA ScriptKeepsAsked ==
  ASSUME CoreInv, ScriptInv, AskedBut(scripted), ScriptStep
  PROVE  AskedBut(scripted)'
<1>1. PlatformRegistrations' = PlatformRegistrations
  <2>1. UNCHANGED chain
    BY DEF ScriptStep, Start, TakeRow, Submitted, Final, WriteRegistered, Throws, WriteFailed,
      Quit, ScriptWrites, ScriptLeaves, vars
  <2>2. QED
    BY <2>1 DEF chain, PlatformRegistrations
<1>2. CASE Start \/ TakeRow \/ Final
  <2>1. UNCHANGED <<status, old, reqs, ticks, txs, scripted>>
    BY <1>2 DEF Start, TakeRow, Final, vars
  <2>2. QED
    BY <1>1, <2>1 DEF AskedBut, Asked
<1>3. CASE Submitted
  <2>1. /\ UNCHANGED <<status, old, reqs, ticks>>
        /\ txs' = txs \cup {Tx(script.id, Platform, Script)}
        /\ scripted' = scripted \cup {script.id}
    BY <1>3 DEF Submitted
  <2>2. QED
    BY <1>1, <2>1 DEF AskedBut, Asked, Tx
<1>4. CASE WriteRegistered \/ WriteFailed
  <2>1. /\ UNCHANGED <<old, reqs, ticks, txs, scripted>>
        /\ \A id \in Ids : status[id] # "none" => status'[id] # "none"
        /\ script.id \in Ids
    BY <1>4 DEF WriteRegistered, WriteFailed, ScriptWrites, ScriptInv, CoreInv, TypeOK
  <2>2. \A q \in Requests : reqs[q].pc # "idle" => reqs[q].id \in Ids
    BY DEF CoreInv, TypeOK, RequestType, IdleRequest
  <2>3. \A t \in Ticks : (ticks[t].pc # "idle" => ticks[t].id \in Ids) /\ ticks[t].todo \subseteq Ids
    BY DEF CoreInv, TypeOK, TickType, IdleTick
  <2>4. \A id \in PlatformRegistrations : id \in Ids
    BY RegistrationIsTyped DEF CoreInv
  <2>5. QED
    BY <1>1, <2>1, <2>2, <2>3, <2>4 DEF AskedBut, Asked
<1>5. CASE Throws \/ Quit
  <2>1. UNCHANGED <<status, old, reqs, ticks, scripted>> /\ txs' = Orphaned(Script)
    BY <1>5 DEF Throws, Quit, ScriptLeaves
  <2>2. \A tx \in txs' : \E u \in txs : u.id = tx.id /\ u.creator = tx.creator
    BY <2>1 DEF Orphaned, CoreInv, TypeOK, TxType
  <2>3. QED
    BY <1>1, <2>1, <2>2 DEF AskedBut, Asked
<1>6. QED
  BY <1>2, <1>3, <1>4, <1>5 DEF ScriptStep

LEMMA BackfillInductive == BackfillSpec => [](CoreInv /\ ScriptInv /\ AskedBut(scripted))
<1>1. ASSUME Init, ScriptInit PROVE CoreInv /\ ScriptInv /\ AskedBut(scripted)
  <2>1. ScriptInv
    BY <1>1, RegistrationAssumption DEF Init, ScriptInit, ScriptInv, Senders
  <2>2. QED
    BY <1>1, <2>1, CoreInit, AskedInit DEF ScriptInit
<1>2. ASSUME CoreInv, ScriptInv, AskedBut(scripted), [BackfillNext]_backfillVars
      PROVE  CoreInv' /\ ScriptInv' /\ AskedBut(scripted)'
  <2>1. ASSUME [Next]_vars, UNCHANGED <<script, scripted>>
        PROVE  CoreInv' /\ ScriptInv' /\ AskedBut(scripted)'
    <3>1. PICK S : S = scripted
      OBVIOUS
    <3>2. AskedBut(S) => AskedBut(S)'
      BY <1>2, <2>1, AskedKept
    <3>3. QED
      BY <1>2, <2>1, <3>1, <3>2, CoreKept, ServerKeepsScript DEF AskedBut
  <2>2. QED
    BY <1>2, <2>1, ScriptKeeps, ScriptKeepsAsked DEF BackfillNext, backfillVars
<1>3. QED
  BY <1>1, <1>2, PTL DEF BackfillSpec

(* Nor does the script make the catalogue claim a registration there is    *)
(* not: it registers in the platform's name what handlers and ticks are    *)
(* busy with, and each of them may write what it heard at any time later.  *)
THEOREM RegisteredOnChainBesideScript == BackfillSpec => []RegisteredIsOnChain
<1>1. CoreInv => RegisteredIsOnChain
  BY DEF CoreInv, RowInv, RegisteredIsOnChain, Chain!Exists, Known, OnChain
<1>2. QED
  BY <1>1, BackfillInductive, PTL

(* What the platform took without being asked, or before the cutoff, is    *)
(* what the script sent.                                                   *)
THEOREM OnlyTheScriptTakesMore == BackfillSpec => []OnlyScriptTakesMore
<1>1. AskedBut(scripted) => OnlyScriptTakesMore
  BY DEF AskedBut, Asked, OnlyScriptTakesMore
<1>2. QED
  BY <1>1, BackfillInductive, PTL

(* The script and the server together are still a user of the contract.    *)
THEOREM ScriptUsesTheContract == BackfillSpec => Chain!Spec
<1>1. ASSUME CoreInv, [BackfillNext]_backfillVars PROVE [Chain!Next]_(Chain!vars)
  <2>1. ASSUME [Next]_vars PROVE [Chain!Next]_(Chain!vars)
    BY <1>1, <2>1, StepOfTheContract DEF CoreInv
  <2>2. ASSUME ScriptStep PROVE UNCHANGED chain
    BY <2>2 DEF ScriptStep, Start, TakeRow, Submitted, Final, WriteRegistered, Throws,
      WriteFailed, Quit, ScriptWrites, ScriptLeaves, vars
  <2>3. QED
    BY <1>1, <2>1, <2>2 DEF BackfillNext, backfillVars, Chain!vars, chain
<1>2. Init => Chain!Init
  BY DEF Init
<1>3. QED
  BY <1>1, <1>2, BackfillInductive, PTL DEF BackfillSpec, Chain!Spec

=============================================================================
