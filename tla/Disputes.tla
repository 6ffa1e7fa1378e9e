------------------------------- MODULE Disputes -------------------------------
(***************************************************************************)
(* Disputes and refunds: services/disputeService.ts (fileDispute,          *)
(* ruleDispute), services/refundService.ts and the transfer from the       *)
(* refund-pool wallet in services/registryClient.ts (submitUsdcTransfer).  *)
(* Filings and rulings are request handlers that interleave at every       *)
(* await.  The ledger is external: the pool account's sequence number      *)
(* lets one of several transfers built on the same number in, and a        *)
(* transfer whose sender stopped polling may still be included.            *)
(***************************************************************************)
EXTENDS Integers

CONSTANTS
  Pairs,           \* a resource and a buyer
  Rows,            \* ids of dispute rows; as many disputes can be filed
  Amounts,         \* the amounts buyers claim
  Cap,             \* REFUND_MAX_AMOUNT, 0 when it is not set
  HasRefundWallet, \* REFUND_WALLET_SECRET is set
  Filers, Rulers,  \* handlers of POST /disputes and of POST /disputes/:id/rule
  MaxDeaths,       \* bound: rulings cut short
  NoValue          \* no row, no pair, no refund transaction, no sender

ASSUME DisputesAssumption ==
  /\ Amounts \subseteq Nat \ {0}
  /\ Cap \in Nat
  /\ HasRefundWallet \in BOOLEAN
  /\ MaxDeaths \in Nat
  /\ NoValue \notin Pairs \cup Rows \cup Rulers \cup Nat
  /\ NoValue \notin [pair : Pairs, amount : Nat, status : {"pending", "upheld", "denied"},
                     refundTx : Nat \cup {NoValue}]

VARIABLES
  payments,        \* pairs with a payments row
  disputes,        \* the dispute rows, NoValue where none is filed yet
  filers, rulers,  \* the control state of the handlers
  transfers,       \* the refund transfers sent and not yet final
  outcome,         \* what the ledger made of a ruler's transfer
  poolSeq,         \* the sequence number of the refund-pool account
  landed,          \* the transfers the ledger executed
  deaths,          \* how many rulings were cut short
  disturbed, raced \* history: see Disturb and Insert

vars == <<payments, disputes, filers, rulers, transfers, outcome, poolSeq, landed,
          deaths, disturbed, raced>>
ledger == <<transfers, outcome, poolSeq, landed>>

IdleFiler == [pc |-> "idle", pair |-> NoValue]
IdleRuler == [pc |-> "idle", row |-> NoValue, seq |-> 0, tx |-> NoValue]

Init ==
  /\ payments = {}
  /\ disputes = [d \in Rows |-> NoValue]
  /\ filers = [f \in Filers |-> IdleFiler]
  /\ rulers = [r \in Rulers |-> IdleRuler]
  /\ transfers = {}
  /\ outcome = [r \in Rulers |-> "unknown"]
  /\ poolSeq = 0
  /\ landed = {}
  /\ deaths = 0
  /\ disturbed = {}
  /\ raced = {}

Filed == {d \in Rows : disputes[d] # NoValue}
Open(d) == d \in Filed /\ disputes[d].status = "pending"

(* capRefundAmount *)
Capped(amount) == IF Cap = 0 \/ amount <= Cap THEN amount ELSE Cap

(* Delivery of a resource records the buyer's payment (external). *)
Pay(p) ==
  /\ payments' = payments \cup {p}
  /\ UNCHANGED <<disputes, filers, rulers, ledger, deaths, disturbed, raced>>

----------------------------------------------------------------------------
(* POST /disputes: fileDispute. *)

FindPayment(f, p) ==
  /\ filers[f].pc = "idle"
  /\ p \in payments
  /\ filers' = [filers EXCEPT ![f] = [pc |-> "paid", pair |-> p]]
  /\ UNCHANGED <<payments, disputes, rulers, ledger, deaths, disturbed, raced>>

(* Faulty variant: open disputes are not looked for. *)
SelectNothing(f) ==
  /\ filers[f].pc = "paid"
  /\ filers' = [filers EXCEPT ![f].pc = "clear"]
  /\ UNCHANGED <<payments, disputes, rulers, ledger, deaths, disturbed, raced>>

(* hasOpenDispute over the rows of the pair; the filing is refused if so. *)
SelectExisting(f) ==
  /\ filers[f].pc = "paid"
  /\ filers' = [filers EXCEPT ![f] =
       IF \E d \in Filed : Open(d) /\ disputes[d].pair = filers[f].pair
       THEN IdleFiler
       ELSE [@ EXCEPT !.pc = "clear"]]
  /\ UNCHANGED <<payments, disputes, rulers, ledger, deaths, disturbed, raced>>

(* The insert.  The history notes a filing of the same pair that has       *)
(* already looked and not yet inserted.                                    *)
Insert(f, d, amount) ==
  LET p == filers[f].pair IN
  /\ filers[f].pc = "clear"
  /\ d \notin Filed
  /\ disputes' = [disputes EXCEPT ![d] =
       [pair |-> p, amount |-> amount, status |-> "pending", refundTx |-> NoValue]]
  /\ raced' = raced \cup
       {filers[g].pair : g \in {h \in Filers \ {f} : filers[h] = filers[f]}}
  /\ filers' = [filers EXCEPT ![f] = IdleFiler]
  /\ UNCHANGED <<payments, rulers, ledger, deaths, disturbed>>

----------------------------------------------------------------------------
(* POST /disputes/:id/rule: ruleDispute. *)

Go(r, pc) == rulers' = [rulers EXCEPT ![r].pc = pc]
Ruling(d) == \E r \in Rulers : rulers[r].row = d

(* Faulty variant: a resolved dispute may be ruled on again. *)
ReadAnyRow(r, d, decision) ==
  /\ rulers[r].pc = "idle"
  /\ d \in Filed
  /\ rulers' = [rulers EXCEPT ![r] = [IdleRuler EXCEPT !.row = d, !.pc =
       IF decision = "denied" THEN "deny" ELSE IF HasRefundWallet THEN "load" ELSE "uphold"]]
  /\ disturbed' = IF Ruling(d) THEN disturbed \cup {d} ELSE disturbed
  /\ UNCHANGED <<payments, disputes, filers, ledger, deaths, raced>>

(* Read the row and check the transition: only a pending dispute is ruled  *)
(* on.  The history notes a ruling that begins while another is at work.   *)
Read(r, d, decision) ==
  /\ rulers[r].pc = "idle"
  /\ Open(d)
  /\ rulers' = [rulers EXCEPT ![r] = [IdleRuler EXCEPT !.row = d, !.pc =
       IF decision = "denied" THEN "deny" ELSE IF HasRefundWallet THEN "load" ELSE "uphold"]]
  /\ disturbed' = IF Ruling(d) THEN disturbed \cup {d} ELSE disturbed
  /\ UNCHANGED <<payments, disputes, filers, ledger, deaths, raced>>

(* server.getAccount: the pool account's sequence number. *)
Load(r) ==
  /\ rulers[r].pc = "load"
  /\ rulers' = [rulers EXCEPT ![r].pc = "send", ![r].seq = poolSeq]
  /\ UNCHANGED <<payments, disputes, filers, ledger, deaths, disturbed, raced>>

Send(r) ==
  LET d == rulers[r].row IN
  /\ rulers[r].pc = "send"
  /\ transfers' = transfers \cup
       {[row |-> d, amount |-> Capped(disputes[d].amount), seq |-> rulers[r].seq, from |-> r]}
  /\ Go(r, "polling")
  /\ UNCHANGED <<payments, disputes, filers, outcome, poolSeq, landed, deaths, disturbed, raced>>

(* Faulty variant: the hash of a failed transfer counts as a refund. *)
PollFinal(r) ==
  /\ rulers[r].pc = "polling"
  /\ outcome[r] # "unknown"
  /\ rulers' = [rulers EXCEPT ![r].pc = "uphold", ![r].tx = rulers[r].seq]
  /\ outcome' = [outcome EXCEPT ![r] = "unknown"]
  /\ UNCHANGED <<payments, disputes, filers, transfers, poolSeq, landed, deaths, disturbed, raced>>

(* A transfer is named by the sequence number it uses up. *)
Poll(r) ==
  /\ rulers[r].pc = "polling"
  /\ outcome[r] # "unknown"
  /\ rulers' = [rulers EXCEPT ![r].pc = "uphold",
       ![r].tx = IF outcome[r] = "success" THEN rulers[r].seq ELSE NoValue]
  /\ outcome' = [outcome EXCEPT ![r] = "unknown"]
  /\ UNCHANGED <<payments, disputes, filers, transfers, poolSeq, landed, deaths, disturbed, raced>>

(* The transfer cannot be built, is refused, or is polled for in vain: the *)
(* refund counts as not executed, and the dispute is upheld all the same.  *)
GiveUp(r) ==
  /\ rulers[r].pc \in {"load", "send", "polling"}
  /\ Go(r, "uphold")
  /\ transfers' = {IF x.from = r THEN [x EXCEPT !.from = NoValue] ELSE x : x \in transfers}
  /\ outcome' = [outcome EXCEPT ![r] = "unknown"]
  /\ UNCHANGED <<payments, disputes, filers, poolSeq, landed, deaths, disturbed, raced>>

(* The final update, whatever the row holds by now. *)
Resolve(r) ==
  LET d == rulers[r].row IN
  /\ \/ /\ rulers[r].pc = "deny"
        /\ disputes' = [disputes EXCEPT ![d].status = "denied"]
     \/ /\ rulers[r].pc = "uphold"
        /\ disputes' = [disputes EXCEPT ![d].status = "upheld", ![d].refundTx = rulers[r].tx]
  /\ rulers' = [rulers EXCEPT ![r] = IdleRuler]
  /\ UNCHANGED <<payments, filers, ledger, deaths, disturbed, raced>>

(* The server stops, or the final update throws: the row stays pending,    *)
(* and a transfer that was sent goes on.                                   *)
CutShort(r) ==
  /\ rulers[r].pc # "idle"
  /\ deaths < MaxDeaths
  /\ deaths' = deaths + 1
  /\ rulers' = [rulers EXCEPT ![r] = IdleRuler]
  /\ transfers' = {IF x.from = r THEN [x EXCEPT !.from = NoValue] ELSE x : x \in transfers}
  /\ outcome' = [outcome EXCEPT ![r] = "unknown"]
  /\ disturbed' = disturbed \cup {rulers[r].row}
  /\ UNCHANGED <<payments, disputes, filers, poolSeq, landed, raced>>

----------------------------------------------------------------------------
(* The ledger (external): a transfer uses up its sequence number, and      *)
(* moves the amount if the pool holds it; or it expires.                   *)

Include(x, success) ==
  /\ x.seq = poolSeq
  /\ poolSeq' = poolSeq + 1
  /\ landed' = IF success THEN landed \cup {[row |-> x.row, amount |-> x.amount, seq |-> x.seq]}
                          ELSE landed
  /\ outcome' = [r \in Rulers |->
       IF r = x.from THEN (IF success THEN "success" ELSE "failed") ELSE outcome[r]]
  /\ transfers' = transfers \ {x}
  /\ UNCHANGED <<payments, disputes, filers, rulers, deaths, disturbed, raced>>

Expire(x) ==
  /\ transfers' = transfers \ {x}
  /\ UNCHANGED <<payments, disputes, filers, rulers, outcome, poolSeq, landed, deaths,
                 disturbed, raced>>

Next ==
  \/ \E p \in Pairs : Pay(p)
  \/ \E f \in Filers, p \in Pairs : FindPayment(f, p)
  \/ \E f \in Filers : SelectExisting(f)
  \/ \E f \in Filers, d \in Rows, amount \in Amounts : Insert(f, d, amount)
  \/ \E r \in Rulers, d \in Rows, decision \in {"upheld", "denied"} : Read(r, d, decision)
  \/ \E r \in Rulers :
       Load(r) \/ Send(r) \/ Poll(r) \/ GiveUp(r) \/ Resolve(r) \/ CutShort(r)
  \/ \E x \in transfers : Expire(x) \/ \E success \in BOOLEAN : Include(x, success)

Spec == Init /\ [][Next]_vars

----------------------------------------------------------------------------
(* Properties. *)

Dispute ==
  [pair : Pairs, amount : Amounts, status : {"pending", "upheld", "denied"},
   refundTx : Nat \cup {NoValue}]

(* Every row, handler and transfer is well typed, and no sequence number   *)
(* is used twice.                                                          *)
TypeOK ==
  /\ payments \subseteq Pairs
  /\ \A d \in Filed : disputes[d] \in Dispute
  /\ \A f \in Filers : filers[f].pc # "idle" => filers[f].pair \in payments
  /\ \A r \in Rulers : rulers[r].pc # "idle" => rulers[r].row \in Filed
  /\ \A x \in transfers : x.from \in Rulers => rulers[x.from].pc = "polling"
  /\ \A x, y \in landed : x.seq = y.seq => x = y

Refunds(d) == {x \in landed : x.row = d}

(* A refund transaction on record was executed, for this dispute and the   *)
(* capped amount: the audit trail never claims a refund that did not move. *)
RefundTxIsReal ==
  \A d \in Filed : disputes[d].refundTx # NoValue =>
    [row |-> d, amount |-> Capped(disputes[d].amount), seq |-> disputes[d].refundTx] \in landed

(* disputeService.ts: ruling is idempotent against repeated calls.  It is, *)
(* through timeouts and late transfers, as long as no two rulings of the   *)
(* dispute overlap and none is cut short; nor is anything then paid on a   *)
(* denied dispute, or on an open one that nobody is ruling on.             *)
RefundedOnceInTurn ==
  \A d \in Filed \ disturbed :
    /\ \A x, y \in Refunds(d) : x = y /\ x.amount = Capped(disputes[d].amount)
    /\ disputes[d].status = "denied" \/ (Open(d) /\ ~Ruling(d)) => Refunds(d) = {}

(* A pair has two open disputes only if one of them was filed while the    *)
(* other had looked and not yet inserted.                                  *)
OneOpenDisputePerPair ==
  \A d, e \in Filed :
    Open(d) /\ Open(e) /\ disputes[d].pair = disputes[e].pair /\ d # e
    => disputes[d].pair \in raced

(* disputeService.ts, ruleDispute: "idempotent against repeated ruling     *)
(* calls": whoever rules, and however often, the buyer is paid once.       *)
RefundedOnce == \A d \in Filed : \A x, y \in Refunds(d) : x = y
=============================================================================
