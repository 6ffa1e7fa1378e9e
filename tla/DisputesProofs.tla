---------------------------- MODULE DisputesProofs ----------------------------
(***************************************************************************)
(* Proofs about disputes, for any number of pairs, filings and rulings at  *)
(* a time, any amounts and cap, and any number of rulings cut short: what  *)
(* a recorded refund is worth, who is paid twice, and which pairs have two *)
(* open disputes.                                                          *)
(***************************************************************************)
EXTENDS Disputes, TLAPS

Filer == [pc : {"idle", "paid", "clear"}, pair : Pairs \cup {NoValue}]
Ruler ==
  [pc : {"idle", "deny", "load", "send", "polling", "uphold"}, row : Rows \cup {NoValue},
   seq : Nat, tx : Nat \cup {NoValue}]
Transfer == [row : Rows, amount : Nat, seq : Nat, from : Rulers \cup {NoValue}]
Landed == [row : Rows, amount : Nat, seq : Nat]

DataType ==
  /\ payments \subseteq Pairs
  /\ disputes \in [Rows -> Dispute \cup {NoValue}]
  /\ filers \in [Filers -> Filer]
  /\ rulers \in [Rulers -> Ruler]
  /\ transfers \subseteq Transfer
  /\ outcome \in [Rulers -> {"unknown", "success", "failed"}]
  /\ poolSeq \in Nat
  /\ landed \subseteq Landed

FilerInv ==
  \A f \in Filers : filers[f].pc # "idle" => filers[f].pair \in payments

(* Who has looked and found nothing open is right, or has been overtaken.  *)
PairInv ==
  /\ OneOpenDisputePerPair
  /\ \A f \in Filers, d \in Filed :
       filers[f].pc = "clear" /\ Open(d) /\ disputes[d].pair = filers[f].pair
       => filers[f].pair \in raced

(* A transfer that somebody awaits is the one this ruling sent.            *)
TransferInv ==
  \A x \in transfers :
    /\ x.row \in Filed /\ x.amount = Capped(disputes[x.row].amount)
    /\ x.from \in Rulers =>
         LET r == rulers[x.from] IN
         r.pc = "polling" /\ r.row = x.row /\ r.seq = x.seq /\ outcome[x.from] = "unknown"

LandedInv ==
  /\ \A x \in landed :
       x.row \in Filed /\ x.amount = Capped(disputes[x.row].amount) /\ x.seq < poolSeq
  /\ \A x, y \in landed : x.seq = y.seq => x = y

Receipt(d, seq) == [row |-> d, amount |-> Capped(disputes[d].amount), seq |-> seq]

(* What is known of a ruling by its control state.                         *)
RulerInv ==
  \A r \in Rulers :
    /\ IF rulers[r].pc = "idle" THEN rulers[r].row = NoValue ELSE rulers[r].row \in Filed
    /\ rulers[r].pc # "uphold" => rulers[r].tx = NoValue
    /\ rulers[r].pc # "polling" => outcome[r] = "unknown"
    /\ rulers[r].pc = "polling" /\ outcome[r] = "success" =>
         Receipt(rulers[r].row, rulers[r].seq) \in landed
    /\ rulers[r].pc = "uphold" /\ rulers[r].tx # NoValue =>
         Receipt(rulers[r].row, rulers[r].tx) \in landed

(* Nothing is sent for a dispute before its ruling sends it, and never for *)
(* one that is denied.                                                     *)
Unpaid(d) ==
  \/ disputes[d].status = "denied" \/ (Open(d) /\ ~Ruling(d))
  \/ \E r \in Rulers : rulers[r].row = d /\ rulers[r].pc \in {"deny", "load", "send"}

(* A dispute that is ruled on in turn has one ruling and one transfer.     *)
InTurn(d) ==
  /\ \A r, s \in Rulers : rulers[r].row = d /\ rulers[s].row = d => r = s
  /\ ~Open(d) => ~Ruling(d)
  /\ \A x, y \in transfers : x.row = d /\ y.row = d => x = y
  /\ \A x, y \in landed : x.row = d /\ y.row = d => x = y
  /\ \A x \in transfers, y \in landed : x.row # d \/ y.row # d
  /\ Unpaid(d) => (\A x \in transfers : x.row # d) /\ \A x \in landed : x.row # d

IInv ==
  /\ DataType /\ FilerInv /\ PairInv /\ TransferInv /\ LandedInv /\ RulerInv
  /\ RefundTxIsReal
  /\ \A d \in Filed \ disturbed : InTurn(d)

----------------------------------------------------------------------------
LEMMA DisputeRows == \A x \in Dispute : x # NoValue /\ Capped(x.amount) \in Nat
<1>1. Dispute \subseteq [pair : Pairs, amount : Nat, status : {"pending", "upheld", "denied"},
                         refundTx : Nat \cup {NoValue}]
  BY DisputesAssumption DEF Dispute
<1>2. QED
  BY <1>1, DisputesAssumption DEF Capped

LEMMA FiledRows == ASSUME DataType PROVE \A d \in Filed : d \in Rows /\ disputes[d] \in Dispute
BY DEF DataType, Filed

LEMMA InitIInv == Init => IInv
<1>1. SUFFICES ASSUME Init PROVE IInv
  OBVIOUS
<1>2. Filed = {}
  BY <1>1 DEF Init, Filed
<1>3. DataType
  BY <1>1 DEF Init, DataType, IdleFiler, IdleRuler, Filer, Ruler
<1>4. QED
  BY <1>1, <1>2, <1>3 DEF Init, IInv, FilerInv, PairInv, OneOpenDisputePerPair, TransferInv,
     LandedInv, RulerInv, RefundTxIsReal, IdleFiler, IdleRuler

----------------------------------------------------------------------------
(* What no step but a filing changes of the disputes, a ruling changes of  *)
(* its own only.                                                           *)

LEMMA FrontPreserves ==
  ASSUME IInv,
         \/ \E p \in Pairs : Pay(p)
         \/ \E f \in Filers, p \in Pairs : FindPayment(f, p)
         \/ \E f \in Filers : SelectExisting(f)
  PROVE  IInv'
<1>1. UNCHANGED <<disputes, rulers, ledger, disturbed, raced>>
  BY DEF Pay, FindPayment, SelectExisting
<1>2. DataType' /\ FilerInv'
  BY DEF IInv, DataType, FilerInv, Filer, Pay, FindPayment, SelectExisting, IdleFiler, ledger
<1>3. PairInv'
  BY DEF IInv, DataType, PairInv, OneOpenDisputePerPair, Filer, Pay, FindPayment, SelectExisting,
     IdleFiler, Open, Filed
<1>4. /\ TransferInv' /\ LandedInv' /\ RulerInv' /\ RefundTxIsReal'
      /\ \A d \in Filed' \ disturbed' : InTurn(d)'
  BY <1>1 DEF IInv, TransferInv, LandedInv, RulerInv, RefundTxIsReal, Receipt, InTurn, Unpaid, Open,
     Filed, Ruling, ledger
<1>5. QED
  BY <1>2, <1>3, <1>4 DEF IInv

LEMMA InsertPreserves ==
  ASSUME IInv, NEW f \in Filers, NEW d \in Rows, NEW amount \in Amounts, Insert(f, d, amount)
  PROVE  IInv'
<1> DEFINE p == filers[f].pair
           new == [pair |-> p, amount |-> amount, status |-> "pending", refundTx |-> NoValue]
<1>1. p \in Pairs /\ filers \in [Filers -> Filer] /\ d \notin Filed
  BY DEF IInv, DataType, FilerInv, Insert
<1>2. new \in Dispute /\ new # NoValue
  BY <1>1, DisputeRows DEF Dispute
<1>3. /\ Filed' = Filed \cup {d} /\ disputes'[d] = new
      /\ \A e \in Rows \ {d} : disputes'[e] = disputes[e]
  BY <1>2 DEF IInv, DataType, Insert, Filed
<1>4. DataType' /\ FilerInv'
  BY <1>2 DEF IInv, DataType, FilerInv, Filer, IdleFiler, Insert, ledger
<1>5. PairInv'
  <2>1. ASSUME NEW g \in Filers \ {f}, filers[g].pc = "clear", filers[g].pair = p PROVE p \in raced'
    <3>1. filers[g] = filers[f]
      BY <1>1, <2>1 DEF Insert, Filer
    <3>2. QED
      BY <3>1 DEF Insert
  <2>2. \A e \in Filed : Open(e) /\ disputes[e].pair = p => p \in raced
    BY DEF IInv, PairInv, Insert
  <2>3. raced \subseteq raced' /\ filers'[f].pc = "idle" /\ \A g \in Filers \ {f} : filers'[g] = filers[g]
    BY <1>1 DEF Insert, IdleFiler
  <2>4. \A e \in Filed : e # d /\ (Open(e)' <=> Open(e)) /\ disputes'[e] = disputes[e]
    BY <1>1, <1>3 DEF Open, Filed
  <2>5. OneOpenDisputePerPair'
    BY <1>2, <1>3, <2>2, <2>3, <2>4 DEF IInv, PairInv, OneOpenDisputePerPair
  <2>6. ASSUME NEW g \in Filers, NEW e \in Filed', filers'[g].pc = "clear", Open(e)',
               disputes'[e].pair = filers'[g].pair
        PROVE  filers'[g].pair \in raced'
    <3>1. g # f /\ filers'[g] = filers[g]
      BY <2>3, <2>6
    <3>2. CASE e = d
      BY <1>3, <2>1, <2>6, <3>1, <3>2
    <3>3. CASE e \in Filed
      BY <2>3, <2>4, <2>6, <3>1, <3>3 DEF IInv, PairInv
    <3>4. QED
      BY <1>3, <3>2, <3>3
  <2>7. QED
    BY <2>5, <2>6 DEF PairInv
<1>6. \A e \in Filed : e \in Filed' /\ disputes'[e] = disputes[e] /\ (Open(e)' <=> Open(e))
  BY <1>1, <1>3 DEF Open, Filed
<1>7. UNCHANGED <<rulers, transfers, outcome, poolSeq, landed, disturbed>>
  BY DEF Insert, ledger
<1>8. TransferInv' /\ LandedInv' /\ RulerInv'
  BY <1>6, <1>7 DEF IInv, TransferInv, LandedInv, RulerInv, Receipt
<1>9. RefundTxIsReal'
  BY <1>3, <1>6, <1>7 DEF IInv, RefundTxIsReal
<1>10. ASSUME NEW e \in Filed' \ disturbed' PROVE InTurn(e)'
  <2>1. CASE e = d
    <3>1. \A r \in Rulers : rulers[r].row # d
      BY <1>1, DisputesAssumption DEF IInv, RulerInv
    <3>2. (\A x \in transfers : x.row # d) /\ \A x \in landed : x.row # d
      BY <1>1 DEF IInv, TransferInv, LandedInv
    <3>3. QED
      BY <1>7, <2>1, <3>1, <3>2 DEF InTurn, Ruling
  <2>2. CASE e \in Filed
    <3>1. InTurn(e)
      BY <1>7, <1>10, <2>2 DEF IInv
    <3>2. QED
      BY <1>6, <1>7, <2>2, <3>1 DEF InTurn, Unpaid, Ruling
  <2>3. QED
    BY <1>3, <2>1, <2>2
<1>11. QED
  BY <1>4, <1>5, <1>8, <1>9, <1>10 DEF IInv

----------------------------------------------------------------------------
(* Rulings. *)

LEMMA RulingKept ==
  ASSUME IInv, UNCHANGED <<payments, disputes, filers, raced>>
  PROVE  FilerInv' /\ PairInv' /\ Filed' = Filed /\ \A d \in Filed : Open(d)' <=> Open(d)
BY DEF IInv, FilerInv, PairInv, OneOpenDisputePerPair, Open, Filed

LEMMA ReadPreserves ==
  ASSUME IInv, NEW r \in Rulers, NEW d \in Rows, NEW decision \in {"upheld", "denied"},
         Read(r, d, decision)
  PROVE  IInv'
<1> USE DisputesAssumption
<1> DEFINE pc == IF decision = "denied" THEN "deny" ELSE IF HasRefundWallet THEN "load" ELSE "uphold"
<1>1. /\ rulers \in [Rulers -> Ruler] /\ rulers[r].row = NoValue /\ d \in Filed /\ Open(d)
      /\ outcome[r] = "unknown"
  BY DEF IInv, DataType, RulerInv, Read, Open
<1>2. /\ rulers'[r] = [pc |-> pc, row |-> d, seq |-> 0, tx |-> NoValue]
      /\ \A s \in Rulers \ {r} : rulers'[s] = rulers[s]
      /\ rulers' \in [Rulers -> Ruler]
      /\ pc \in {"deny", "load", "uphold"}
  BY <1>1 DEF Read, IdleRuler, Ruler
<1>3. /\ UNCHANGED <<payments, disputes, filers, transfers, outcome, poolSeq, landed, raced>>
      /\ disturbed' = IF Ruling(d) THEN disturbed \cup {d} ELSE disturbed
  BY DEF Read, ledger
<1>4. FilerInv' /\ PairInv' /\ Filed' = Filed /\ \A e \in Filed : Open(e)' <=> Open(e)
  BY <1>3, RulingKept
<1>5. DataType' /\ LandedInv' /\ RefundTxIsReal'
  BY <1>2, <1>3, <1>4 DEF IInv, DataType, LandedInv, RefundTxIsReal
<1>6. TransferInv'
  BY <1>2, <1>3, <1>4 DEF IInv, TransferInv, Read
<1>7. RulerInv'
  BY <1>1, <1>2, <1>3, <1>4 DEF IInv, RulerInv, Receipt
<1>8. ASSUME NEW e \in Filed' \ disturbed' PROVE InTurn(e)'
  <2>1. e \in Filed \ disturbed /\ InTurn(e) /\ e # NoValue
    BY <1>3, <1>4, <1>8 DEF IInv, Filed
  <2>2. CASE e = d
    <3>1. \A s \in Rulers : rulers[s].row # d
      BY <1>3, <1>8, <2>2 DEF Ruling
    <3>2. (\A x \in transfers : x.row # d) /\ \A x \in landed : x.row # d
      BY <1>1, <2>1, <2>2, <3>1 DEF InTurn, Unpaid, Ruling
    <3>3. QED
      BY <1>1, <1>2, <1>3, <1>4, <2>2, <3>1, <3>2 DEF InTurn
  <2>3. CASE e # d
    <3>1. Unpaid(e)' => Unpaid(e)
      BY <1>1, <1>2, <1>3, <1>4, <2>1, <2>3 DEF Unpaid, Ruling
    <3>2. Ruling(e)' => Ruling(e)
      BY <1>1, <1>2, <2>1, <2>3 DEF Ruling
    <3>3. QED
      BY <1>1, <1>2, <1>3, <1>4, <2>1, <2>3, <3>1, <3>2 DEF InTurn
  <2>4. QED
    BY <2>2, <2>3
<1>9. QED
  BY <1>4, <1>5, <1>6, <1>7, <1>8 DEF IInv

LEMMA LoadPreserves ==
  ASSUME IInv, NEW r \in Rulers, Load(r)
  PROVE  IInv'
<1>1. /\ rulers \in [Rulers -> Ruler] /\ poolSeq \in Nat
      /\ rulers[r].pc = "load" /\ rulers[r].tx = NoValue
  BY DEF IInv, DataType, RulerInv, Load
<1>2. /\ rulers' \in [Rulers -> Ruler] /\ \A s \in Rulers \ {r} : rulers'[s] = rulers[s]
      /\ rulers'[r] = [rulers[r] EXCEPT !.pc = "send", !.seq = poolSeq]
  <2> DEFINE ruler == [rulers[r] EXCEPT !.pc = "send", !.seq = poolSeq]
  <2>1. ruler \in Ruler
    BY <1>1 DEF Ruler
  <2>2. rulers' = [rulers EXCEPT ![r] = ruler]
    BY <1>1 DEF Load
  <2>3. QED
    BY <1>1, <2>1, <2>2
<1>3. /\ rulers'[r].pc = "send" /\ rulers'[r].row = rulers[r].row /\ rulers'[r].tx = NoValue
  BY <1>1, <1>2 DEF Ruler
<1>4. UNCHANGED <<payments, disputes, filers, transfers, outcome, poolSeq, landed, disturbed, raced>>
  BY DEF Load, ledger
<1>5. FilerInv' /\ PairInv' /\ Filed' = Filed /\ \A e \in Filed : Open(e)' <=> Open(e)
  BY <1>4, RulingKept
<1>6. DataType' /\ LandedInv' /\ RefundTxIsReal'
  BY <1>2, <1>4, <1>5 DEF IInv, DataType, LandedInv, RefundTxIsReal
<1>7. TransferInv'
  BY <1>1, <1>2, <1>4, <1>5 DEF IInv, TransferInv
<1>8. RulerInv'
  BY <1>1, <1>2, <1>3, <1>4, <1>5 DEF IInv, RulerInv, Receipt
<1>9. ASSUME NEW e \in Filed' \ disturbed' PROVE InTurn(e)'
  <2>1. InTurn(e) /\ (Open(e)' <=> Open(e))
    BY <1>4, <1>5, <1>9 DEF IInv
  <2>2. (Ruling(e)' <=> Ruling(e)) /\ (Unpaid(e)' => Unpaid(e))
    BY <1>1, <1>2, <1>3, <1>4, <2>1 DEF Ruling, Unpaid
  <2>3. QED
    BY <1>2, <1>3, <1>4, <2>1, <2>2 DEF InTurn
<1>10. QED
  BY <1>5, <1>6, <1>7, <1>8, <1>9 DEF IInv

LEMMA SendPreserves ==
  ASSUME IInv, NEW r \in Rulers, Send(r)
  PROVE  IInv'
<1> DEFINE d == rulers[r].row
           x == [row |-> d, amount |-> Capped(disputes[d].amount), seq |-> rulers[r].seq, from |-> r]
<1>1. /\ rulers \in [Rulers -> Ruler] /\ rulers[r].pc = "send" /\ d \in Filed
      /\ rulers[r].tx = NoValue /\ outcome[r] = "unknown"
  BY DEF IInv, DataType, RulerInv, Send
<1>2. /\ rulers' \in [Rulers -> Ruler] /\ \A s \in Rulers \ {r} : rulers'[s] = rulers[s]
      /\ rulers'[r] = [rulers[r] EXCEPT !.pc = "polling"]
  BY <1>1 DEF Send, Go, Ruler
<1>3. /\ rulers'[r].pc = "polling" /\ rulers'[r].row = d /\ rulers'[r].seq = rulers[r].seq
      /\ rulers'[r].tx = NoValue
  BY <1>1, <1>2 DEF Ruler
<1>4. /\ UNCHANGED <<payments, disputes, filers, outcome, poolSeq, landed, disturbed, raced>>
      /\ transfers' = transfers \cup {x}
  BY DEF Send
<1>5. FilerInv' /\ PairInv' /\ Filed' = Filed /\ \A e \in Filed : Open(e)' <=> Open(e)
  BY <1>4, RulingKept
<1>6. DataType'
  <2>1. x \in Transfer
    BY <1>1, FiledRows, DisputeRows DEF IInv, Transfer, Ruler
  <2>2. QED
    BY <1>2, <1>4, <2>1 DEF IInv, DataType
<1>7. LandedInv' /\ RefundTxIsReal'
  BY <1>4, <1>5 DEF IInv, LandedInv, RefundTxIsReal
<1>8. TransferInv'
  <2>1. ASSUME NEW y \in transfers, y.from \in Rulers PROVE y.from # r
    BY <1>1, <2>1 DEF IInv, TransferInv
  <2>2. /\ x.row = d /\ x.from = r /\ x.amount = Capped(disputes[d].amount)
        /\ x.seq = rulers[r].seq
    OBVIOUS
  <2>3. ASSUME NEW y \in transfers'
        PROVE  /\ y.row \in Filed /\ y.amount = Capped(disputes[y.row].amount)
               /\ y.from \in Rulers =>
                    LET s == rulers'[y.from] IN
                    s.pc = "polling" /\ s.row = y.row /\ s.seq = y.seq /\ outcome[y.from] = "unknown"
    <3>1. CASE y = x
      BY <1>1, <1>3, <2>2, <3>1
    <3>2. CASE y \in transfers
      BY <1>2, <2>1, <3>2 DEF IInv, TransferInv
    <3>3. QED
      BY <1>4, <3>1, <3>2
  <2>4. QED
    BY <1>4, <1>5, <2>3 DEF TransferInv
<1>9. RulerInv'
  BY <1>1, <1>2, <1>3, <1>4, <1>5 DEF IInv, RulerInv, Receipt
<1>10. ASSUME NEW e \in Filed' \ disturbed' PROVE InTurn(e)'
  <2>1. InTurn(e) /\ (Open(e)' <=> Open(e)) /\ (Ruling(e)' <=> Ruling(e))
    BY <1>2, <1>3, <1>4, <1>5, <1>10 DEF IInv, Ruling
  <2>2. CASE e = d
    <3>1. /\ \A s \in Rulers : rulers[s].row = d => s = r
          /\ (\A y \in transfers : y.row # d) /\ \A y \in landed : y.row # d
      BY <1>1, <2>1, <2>2 DEF InTurn, Unpaid
    <3>2. Ruling(e) /\ Open(e) /\ disputes[e].status # "denied"
      BY <1>1, <2>1, <2>2 DEF InTurn, Ruling, Open
    <3>3. ~Unpaid(e)'
      BY <1>2, <1>3, <1>4, <2>1, <2>2, <3>1, <3>2 DEF Unpaid
    <3>4. \A s, t \in Rulers : rulers'[s].row = d /\ rulers'[t].row = d => s = t
      BY <1>2, <3>1
    <3>5. QED
      BY <1>4, <2>1, <2>2, <3>1, <3>2, <3>3, <3>4 DEF InTurn
  <2>3. CASE e # d
    <3>1. Unpaid(e)' => Unpaid(e)
      BY <1>2, <1>3, <1>4, <2>1, <2>3 DEF Unpaid
    <3>2. \A y \in transfers' : y.row = e => y \in transfers
      BY <1>4, <2>3
    <3>3. \A s \in Rulers : rulers'[s].row = rulers[s].row
      BY <1>2, <1>3
    <3>4. QED
      BY <1>4, <2>1, <3>1, <3>2, <3>3 DEF InTurn
  <2>4. QED
    BY <2>2, <2>3
<1>11. QED
  BY <1>5, <1>6, <1>7, <1>8, <1>9, <1>10 DEF IInv

LEMMA PollPreserves ==
  ASSUME IInv, NEW r \in Rulers, Poll(r)
  PROVE  IInv'
<1> DEFINE tx == IF outcome[r] = "success" THEN rulers[r].seq ELSE NoValue
<1>1. /\ rulers \in [Rulers -> Ruler] /\ rulers[r].pc = "polling" /\ rulers[r].row \in Filed
      /\ outcome \in [Rulers -> {"unknown", "success", "failed"}]
  BY DEF IInv, DataType, RulerInv, Poll
<1>2. /\ rulers' \in [Rulers -> Ruler] /\ \A s \in Rulers \ {r} : rulers'[s] = rulers[s]
      /\ rulers'[r] = [rulers[r] EXCEPT !.pc = "uphold", !.tx = tx]
  <2> DEFINE ruler == [rulers[r] EXCEPT !.pc = "uphold", !.tx = tx]
  <2>1. ruler \in Ruler
    BY <1>1 DEF Ruler
  <2>2. rulers' = [rulers EXCEPT ![r] = ruler]
    BY <1>1 DEF Poll
  <2>3. QED
    BY <1>1, <2>1, <2>2
<1>3. /\ rulers'[r].pc = "uphold" /\ rulers'[r].row = rulers[r].row /\ rulers'[r].tx = tx
  BY <1>1, <1>2 DEF Ruler
<1>4. /\ UNCHANGED <<payments, disputes, filers, transfers, poolSeq, landed, disturbed, raced>>
      /\ outcome' = [outcome EXCEPT ![r] = "unknown"]
  BY DEF Poll
<1>5. FilerInv' /\ PairInv' /\ Filed' = Filed /\ \A e \in Filed : Open(e)' <=> Open(e)
  BY <1>4, RulingKept
<1>6. DataType' /\ LandedInv' /\ RefundTxIsReal'
  BY <1>2, <1>4, <1>5 DEF IInv, DataType, LandedInv, RefundTxIsReal
<1>7. TransferInv'
  <2>1. ASSUME NEW y \in transfers, y.from \in Rulers PROVE y.from # r
    BY <2>1 DEF IInv, TransferInv, Poll
  <2>2. QED
    BY <1>1, <1>2, <1>4, <1>5, <2>1 DEF IInv, TransferInv
<1>8. RulerInv'
  <2>1. \A e, seq : Receipt(e, seq)' = Receipt(e, seq)
    BY <1>4 DEF Receipt
  <2>2. /\ \A s \in Rulers \ {r} : rulers'[s] = rulers[s] /\ outcome'[s] = outcome[s]
        /\ outcome'[r] = "unknown"
    BY <1>1, <1>2, <1>4
  <2>3. tx # NoValue => Receipt(rulers[r].row, tx) \in landed
    BY <1>1 DEF IInv, RulerInv
  <2>4. QED
    BY <1>1, <1>3, <1>4, <1>5, <2>1, <2>2, <2>3 DEF IInv, RulerInv
<1>9. ASSUME NEW e \in Filed' \ disturbed' PROVE InTurn(e)'
  <2>1. InTurn(e) /\ (Open(e)' <=> Open(e))
    BY <1>4, <1>5, <1>9 DEF IInv
  <2>2. (Ruling(e)' <=> Ruling(e)) /\ (Unpaid(e)' => Unpaid(e))
    BY <1>1, <1>2, <1>3, <1>4, <2>1 DEF Ruling, Unpaid
  <2>3. QED
    BY <1>2, <1>3, <1>4, <2>1, <2>2 DEF InTurn
<1>10. QED
  BY <1>5, <1>6, <1>7, <1>8, <1>9 DEF IInv

(* A transfer that nobody awaits any more goes on.                         *)
LEMMA Disowned ==
  ASSUME IInv, NEW r \in Rulers,
         transfers' = {IF x.from = r THEN [x EXCEPT !.from = NoValue] ELSE x : x \in transfers}
  PROVE  /\ \A x \in transfers' :
              x.from # r /\ \E y \in transfers :
                /\ x.row = y.row /\ x.amount = y.amount /\ x.seq = y.seq
                /\ x.from \in Rulers => x = y
                /\ x = IF y.from = r THEN [y EXCEPT !.from = NoValue] ELSE y
         /\ transfers' \subseteq Transfer
<1> USE DisputesAssumption
<1>1. ASSUME NEW y \in transfers
      PROVE  LET x == IF y.from = r THEN [y EXCEPT !.from = NoValue] ELSE y IN
             /\ x.row = y.row /\ x.amount = y.amount /\ x.seq = y.seq /\ x.from # r
             /\ x.from \in Rulers => x = y
             /\ x \in Transfer
  BY <1>1 DEF IInv, DataType, Transfer
<1>2. QED
  BY <1>1

LEMMA DisownedTransfers ==
  ASSUME IInv, NEW r \in Rulers, UNCHANGED <<disputes, landed>>,
         outcome' = [outcome EXCEPT ![r] = "unknown"],
         \A s \in Rulers \ {r} : rulers'[s] = rulers[s],
         transfers' = {IF x.from = r THEN [x EXCEPT !.from = NoValue] ELSE x : x \in transfers}
  PROVE  /\ TransferInv' /\ transfers' \subseteq Transfer
         /\ \A d : (\A x \in transfers : x.row # d) => \A x \in transfers' : x.row # d
         /\ \A d : (\A x, y \in transfers : x.row = d /\ y.row = d => x = y)
                   => \A x, y \in transfers' : x.row = d /\ y.row = d => x = y
<1>1. \A x \in transfers' :
        x.from # r /\ \E y \in transfers :
          /\ x.row = y.row /\ x.amount = y.amount /\ x.seq = y.seq
          /\ x.from \in Rulers => x = y
          /\ x = IF y.from = r THEN [y EXCEPT !.from = NoValue] ELSE y
  BY Disowned
<1>2. TransferInv'
  <2>1. \A s \in Rulers \ {r} : rulers'[s] = rulers[s] /\ outcome'[s] = outcome[s]
    BY DEF IInv, DataType
  <2>2. QED
    BY <1>1, <2>1 DEF IInv, TransferInv, Filed
<1>3. QED
  BY <1>1, <1>2, Disowned

LEMMA GiveUpPreserves ==
  ASSUME IInv, NEW r \in Rulers, GiveUp(r)
  PROVE  IInv'
<1>1. /\ rulers \in [Rulers -> Ruler] /\ rulers[r].pc \in {"load", "send", "polling"}
      /\ rulers[r].tx = NoValue /\ rulers[r].row \in Filed
      /\ outcome \in [Rulers -> {"unknown", "success", "failed"}]
  BY DEF IInv, DataType, RulerInv, GiveUp
<1>2. /\ rulers' \in [Rulers -> Ruler] /\ \A s \in Rulers \ {r} : rulers'[s] = rulers[s]
      /\ rulers'[r] = [rulers[r] EXCEPT !.pc = "uphold"]
  BY <1>1 DEF GiveUp, Go, Ruler
<1>3. /\ rulers'[r].pc = "uphold" /\ rulers'[r].row = rulers[r].row /\ rulers'[r].tx = NoValue
  BY <1>1, <1>2 DEF Ruler
<1>4. /\ UNCHANGED <<payments, disputes, filers, poolSeq, landed, disturbed, raced>>
      /\ outcome' = [outcome EXCEPT ![r] = "unknown"]
      /\ transfers' = {IF x.from = r THEN [x EXCEPT !.from = NoValue] ELSE x : x \in transfers}
  BY DEF GiveUp
<1>5. FilerInv' /\ PairInv' /\ Filed' = Filed /\ \A e \in Filed : Open(e)' <=> Open(e)
  BY <1>4, RulingKept
<1>6. TransferInv' /\ transfers' \subseteq Transfer
  BY <1>2, <1>4, DisownedTransfers
<1>7. DataType' /\ LandedInv' /\ RefundTxIsReal'
  BY <1>2, <1>4, <1>5, <1>6 DEF IInv, DataType, LandedInv, RefundTxIsReal
<1>8. RulerInv'
  <2>1. \A e, seq : Receipt(e, seq)' = Receipt(e, seq)
    BY <1>4 DEF Receipt
  <2>2. /\ \A s \in Rulers \ {r} : rulers'[s] = rulers[s] /\ outcome'[s] = outcome[s]
        /\ outcome'[r] = "unknown"
    BY <1>1, <1>2, <1>4
  <2>3. QED
    BY <1>1, <1>3, <1>4, <1>5, <2>1, <2>2 DEF IInv, RulerInv
<1>9. ASSUME NEW e \in Filed' \ disturbed' PROVE InTurn(e)'
  <2>1. InTurn(e) /\ (Open(e)' <=> Open(e))
    BY <1>4, <1>5, <1>9 DEF IInv
  <2>2. /\ \A s \in Rulers : rulers'[s].row = rulers[s].row
        /\ \A s \in Rulers : rulers'[s].pc \in {"deny", "load", "send"} => rulers'[s].pc = rulers[s].pc
    BY <1>2, <1>3
  <2>3. (Ruling(e)' <=> Ruling(e)) /\ (Unpaid(e)' => Unpaid(e))
    BY <1>4, <2>1, <2>2 DEF Ruling, Unpaid
  <2>4. \A x \in transfers' : \E y \in transfers : x.row = y.row
    BY <1>4, Disowned
  <2>5. \A x, y \in transfers' : x.row = e /\ y.row = e => x = y
    BY <1>2, <1>4, <2>1, DisownedTransfers DEF InTurn
  <2>6. QED
    BY <1>4, <2>1, <2>2, <2>3, <2>4, <2>5 DEF InTurn
<1>10. QED
  BY <1>5, <1>6, <1>7, <1>8, <1>9 DEF IInv

LEMMA CutShortPreserves ==
  ASSUME IInv, NEW r \in Rulers, CutShort(r)
  PROVE  IInv'
<1>1. /\ rulers \in [Rulers -> Ruler] /\ rulers[r].row \in Filed
      /\ outcome \in [Rulers -> {"unknown", "success", "failed"}]
  BY DEF IInv, DataType, RulerInv, CutShort
<1>2. /\ rulers' \in [Rulers -> Ruler] /\ \A s \in Rulers \ {r} : rulers'[s] = rulers[s]
      /\ rulers'[r].pc = "idle" /\ rulers'[r].row = NoValue /\ rulers'[r].tx = NoValue
  BY <1>1 DEF CutShort, IdleRuler, Ruler
<1>3. /\ UNCHANGED <<payments, disputes, filers, poolSeq, landed, raced>>
      /\ disturbed' = disturbed \cup {rulers[r].row}
      /\ outcome' = [outcome EXCEPT ![r] = "unknown"]
      /\ transfers' = {IF x.from = r THEN [x EXCEPT !.from = NoValue] ELSE x : x \in transfers}
  BY DEF CutShort
<1>4. FilerInv' /\ PairInv' /\ Filed' = Filed /\ \A e \in Filed : Open(e)' <=> Open(e)
  BY <1>3, RulingKept
<1>5. TransferInv' /\ transfers' \subseteq Transfer
  BY <1>2, <1>3, DisownedTransfers
<1>6. DataType' /\ LandedInv' /\ RefundTxIsReal'
  BY <1>2, <1>3, <1>4, <1>5 DEF IInv, DataType, LandedInv, RefundTxIsReal
<1>7. RulerInv'
  BY <1>1, <1>2, <1>3, <1>4 DEF IInv, RulerInv, Receipt
<1>8. ASSUME NEW e \in Filed' \ disturbed' PROVE InTurn(e)'
  <2>1. InTurn(e) /\ (Open(e)' <=> Open(e)) /\ rulers[r].row # e /\ e # NoValue
    BY <1>3, <1>4, <1>8, DisputesAssumption DEF IInv, Filed
  <2>2. \A s \in Rulers : (rulers'[s].row = e <=> rulers[s].row = e)
                          /\ (rulers'[s].row = e => rulers'[s].pc = rulers[s].pc)
    BY <1>2, <2>1
  <2>3. (Ruling(e)' <=> Ruling(e)) /\ (Unpaid(e)' => Unpaid(e))
    BY <1>3, <2>1, <2>2 DEF Ruling, Unpaid
  <2>4. \A x \in transfers' : \E y \in transfers : x.row = y.row
    BY <1>3, Disowned
  <2>5. \A x, y \in transfers' : x.row = e /\ y.row = e => x = y
    BY <1>2, <1>3, <2>1, DisownedTransfers DEF InTurn
  <2>6. QED
    BY <1>3, <2>1, <2>2, <2>3, <2>4, <2>5 DEF InTurn
<1>9. QED
  BY <1>4, <1>5, <1>6, <1>7, <1>8 DEF IInv

(* A ruling resolves its dispute with the refund that was executed for it. *)
LEMMA ResolvePreserves ==
  ASSUME IInv, NEW r \in Rulers, Resolve(r)
  PROVE  IInv'
<1> DEFINE status == IF rulers[r].pc = "deny" THEN "denied" ELSE "upheld"
           tx == IF rulers[r].pc = "deny" THEN disputes[rulers[r].row].refundTx ELSE rulers[r].tx
<1>1. PICK d : d = rulers[r].row
  OBVIOUS
<1>2. /\ rulers \in [Rulers -> Ruler] /\ d \in Filed /\ disputes[d] \in Dispute
      /\ rulers[r].pc \in {"deny", "uphold"} /\ outcome[r] = "unknown"
  BY <1>1, FiledRows DEF IInv, DataType, RulerInv, Resolve
<1>3. /\ rulers' \in [Rulers -> Ruler] /\ \A s \in Rulers \ {r} : rulers'[s] = rulers[s]
      /\ rulers'[r].pc = "idle" /\ rulers'[r].row = NoValue /\ rulers'[r].tx = NoValue
  BY <1>2 DEF Resolve, IdleRuler, Ruler
<1>4. UNCHANGED <<payments, filers, transfers, outcome, poolSeq, landed, disturbed, raced>>
  BY DEF Resolve, ledger
<1>5. disputes' = [disputes EXCEPT ![d] = [disputes[d] EXCEPT !.status = status, !.refundTx = tx]]
  <2>1. CASE rulers[r].pc = "deny"
    <3>1. disputes' = [disputes EXCEPT ![d].status = "denied"]
      BY <1>1, <2>1 DEF Resolve
    <3>2. [disputes[d] EXCEPT !.status = "denied"]
          = [disputes[d] EXCEPT !.status = status, !.refundTx = tx]
      BY <1>1, <1>2, <2>1 DEF Dispute
    <3>3. QED
      BY <3>1, <3>2
  <2>2. CASE rulers[r].pc = "uphold"
    BY <1>1, <2>2 DEF Resolve
  <2>3. QED
    BY <1>2, <2>1, <2>2
<1>6. [disputes[d] EXCEPT !.status = status, !.refundTx = tx] \in Dispute
  BY <1>1, <1>2 DEF IInv, DataType, Ruler, Dispute
<1>7. /\ disputes'[d].status = status /\ disputes'[d].refundTx = tx
      /\ disputes'[d].pair = disputes[d].pair /\ disputes'[d].amount = disputes[d].amount
      /\ disputes'[d] \in Dispute
      /\ \A e \in Rows \ {d} : disputes'[e] = disputes[e]
      /\ disputes' \in [Rows -> Dispute \cup {NoValue}]
  BY <1>2, <1>5, <1>6, FiledRows DEF IInv, DataType, Dispute
<1>8. /\ Filed' = Filed /\ \A e \in Filed : disputes'[e].pair = disputes[e].pair
                                            /\ disputes'[e].amount = disputes[e].amount
      /\ ~Open(d)' /\ \A e \in Filed \ {d} : Open(e)' <=> Open(e)
  BY <1>2, <1>7, DisputeRows DEF Filed, Open
<1>9. DataType' /\ FilerInv' /\ PairInv' /\ TransferInv' /\ LandedInv'
  <2>1. DataType' /\ FilerInv'
    BY <1>3, <1>4, <1>7 DEF IInv, DataType, FilerInv
  <2>2. PairInv'
    BY <1>4, <1>8 DEF IInv, PairInv, OneOpenDisputePerPair
  <2>3. \A x \in transfers : x.from \in Rulers => x.from # r
    BY <1>2 DEF IInv, TransferInv
  <2>4. TransferInv' /\ LandedInv'
    BY <1>3, <1>4, <1>8, <2>3 DEF IInv, TransferInv, LandedInv
  <2>5. QED
    BY <2>1, <2>2, <2>4
<1>10. \A seq : \A e \in Filed : Receipt(e, seq)' = Receipt(e, seq)
  BY <1>8 DEF Receipt
<1>11. RulerInv'
  BY <1>2, <1>3, <1>4, <1>8, <1>10 DEF IInv, RulerInv
<1>12. RefundTxIsReal'
  <2>1. tx # NoValue => Receipt(d, tx) \in landed
    BY <1>1, <1>2 DEF IInv, RulerInv, RefundTxIsReal, Receipt
  <2>2. ASSUME NEW e \in Filed, disputes'[e].refundTx # NoValue
        PROVE  Receipt(e, disputes'[e].refundTx) \in landed
    <3>1. CASE e = d
      BY <1>7, <2>1, <2>2, <3>1
    <3>2. CASE e # d
      <4>1. disputes'[e] = disputes[e]
        BY <1>7, <3>2 DEF Filed
      <4>2. QED
        BY <2>2, <4>1 DEF IInv, RefundTxIsReal, Receipt
    <3>3. QED
      BY <3>1, <3>2
  <2>3. \A seq : \A e \in Filed :
          [row |-> e, amount |-> Capped(disputes'[e].amount), seq |-> seq] = Receipt(e, seq)
    BY <1>8 DEF Receipt
  <2>4. QED
    BY <1>4, <1>8, <2>2, <2>3 DEF RefundTxIsReal
<1>13. ASSUME NEW e \in Filed' \ disturbed' PROVE InTurn(e)'
  <2>1. InTurn(e) /\ e # NoValue /\ e \in Filed
    BY <1>4, <1>8, <1>13, DisputesAssumption DEF IInv, Filed
  <2>2. CASE e = d
    <3>1. \A s \in Rulers : rulers'[s].row # d
      BY <1>1, <1>3, <2>1, <2>2 DEF InTurn
    <3>2. status = "denied" => (\A x \in transfers : x.row # d) /\ \A x \in landed : x.row # d
      BY <1>1, <1>2, <2>1, <2>2 DEF InTurn, Unpaid
    <3>3. QED
      BY <1>4, <1>7, <1>8, <2>1, <2>2, <3>1, <3>2 DEF InTurn, Unpaid, Ruling
  <2>3. CASE e # d
    <3>1. \A s \in Rulers : (rulers'[s].row = e <=> rulers[s].row = e)
                            /\ (rulers'[s].row = e => rulers'[s].pc = rulers[s].pc)
      BY <1>1, <1>3, <2>1, <2>3
    <3>2. disputes'[e] = disputes[e] /\ (Open(e)' <=> Open(e))
      BY <1>7, <1>8, <2>1, <2>3 DEF Filed
    <3>3. (Ruling(e)' <=> Ruling(e)) /\ (Unpaid(e)' => Unpaid(e))
      BY <3>1, <3>2 DEF Ruling, Unpaid
    <3>4. QED
      BY <1>4, <2>1, <3>1, <3>2, <3>3 DEF InTurn
  <2>4. QED
    BY <2>2, <2>3
<1>14. QED
  BY <1>9, <1>11, <1>12, <1>13 DEF IInv

----------------------------------------------------------------------------
(* The ledger. *)

LEMMA IncludePreserves ==
  ASSUME IInv, NEW x \in transfers, NEW success \in BOOLEAN, Include(x, success)
  PROVE  IInv'
<1> DEFINE receipt == [row |-> x.row, amount |-> x.amount, seq |-> x.seq]
<1>1. /\ UNCHANGED <<payments, disputes, filers, rulers, disturbed, raced>>
      /\ poolSeq \in Nat /\ poolSeq' = poolSeq + 1 /\ x.seq = poolSeq
      /\ transfers' = transfers \ {x}
      /\ landed' = IF success THEN landed \cup {receipt} ELSE landed
      /\ outcome' = [r \in Rulers |->
           IF r = x.from THEN (IF success THEN "success" ELSE "failed") ELSE outcome[r]]
  BY DEF Include, IInv, DataType
<1>2. /\ x \in Transfer /\ receipt \in Landed /\ x.row \in Filed
      /\ x.amount = Capped(disputes[x.row].amount)
      /\ receipt.row = x.row /\ receipt.seq = poolSeq
  BY <1>1 DEF IInv, DataType, TransferInv, Transfer, Landed
<1>3. FilerInv' /\ PairInv' /\ Filed' = Filed /\ \A e \in Filed : Open(e)' <=> Open(e)
  BY <1>1, RulingKept
<1>4. DataType'
  BY <1>1, <1>2 DEF IInv, DataType
<1>5. TransferInv'
  <2>1. ASSUME NEW y \in transfers, y.from \in Rulers, y.from = x.from PROVE y = x
    <3>1. y \in Transfer /\ y.row = x.row /\ y.seq = x.seq /\ y.amount = x.amount
      BY <2>1 DEF IInv, DataType, TransferInv
    <3>2. QED
      BY <1>2, <2>1, <3>1 DEF Transfer
  <2>2. QED
    BY <1>1, <1>3, <2>1 DEF IInv, TransferInv
<1>6. LandedInv'
  <2>1. \A y \in landed : y \in Landed /\ y.seq < poolSeq
    BY DEF IInv, DataType, LandedInv
  <2>2. \A y \in landed' : y.seq < poolSeq + 1
    BY <1>1, <1>2, <2>1 DEF Landed
  <2>3. \A y, z \in landed' : y.seq = z.seq => y = z
    BY <1>1, <1>2, <2>1 DEF IInv, LandedInv, Landed
  <2>4. QED
    BY <1>1, <1>2, <1>3, <2>2, <2>3 DEF IInv, LandedInv
<1>7. RulerInv'
  <2>1. \A e, seq : Receipt(e, seq)' = Receipt(e, seq)
    BY <1>1 DEF Receipt
  <2>2. x.from \in Rulers =>
          /\ rulers[x.from].pc = "polling"
          /\ receipt = Receipt(rulers[x.from].row, rulers[x.from].seq)
    BY <1>2 DEF IInv, TransferInv, Receipt
  <2>3. landed \subseteq landed'
    BY <1>1
  <2>4. ASSUME NEW r \in Rulers, rulers[r].pc = "polling", outcome'[r] = "success"
        PROVE  Receipt(rulers[r].row, rulers[r].seq) \in landed'
    <3>1. CASE r = x.from
      BY <1>1, <2>2, <2>4, <3>1
    <3>2. CASE r # x.from
      BY <1>1, <2>3, <2>4, <3>2 DEF IInv, RulerInv
    <3>3. QED
      BY <3>1, <3>2
  <2>5. \A r \in Rulers : rulers[r].pc # "polling" => outcome'[r] = "unknown"
    BY <1>1, <2>2 DEF IInv, RulerInv
  <2>6. QED
    BY <1>1, <1>3, <2>1, <2>3, <2>4, <2>5 DEF IInv, RulerInv
<1>8. RefundTxIsReal'
  BY <1>1, <1>3 DEF IInv, RefundTxIsReal
<1>9. ASSUME NEW e \in Filed' \ disturbed' PROVE InTurn(e)'
  <2>1. InTurn(e) /\ (Open(e)' <=> Open(e)) /\ (Ruling(e)' <=> Ruling(e)) /\ (Unpaid(e)' <=> Unpaid(e))
    BY <1>1, <1>3, <1>9 DEF IInv, Ruling, Unpaid
  <2>2. CASE x.row = e
    <3>1. /\ \A y \in landed : y.row # e
          /\ \A y \in transfers' : y.row # e
          /\ ~Unpaid(e)
      BY <1>1, <2>1, <2>2 DEF InTurn
    <3>2. QED
      BY <1>1, <1>2, <2>1, <2>2, <3>1 DEF InTurn
  <2>3. CASE x.row # e
    BY <1>1, <1>2, <2>1, <2>3 DEF InTurn
  <2>4. QED
    BY <2>2, <2>3
<1>10. QED
  BY <1>3, <1>4, <1>5, <1>6, <1>7, <1>8, <1>9 DEF IInv

LEMMA ExpirePreserves ==
  ASSUME IInv, NEW x \in transfers, Expire(x)
  PROVE  IInv'
<1>1. /\ UNCHANGED <<payments, disputes, filers, rulers, outcome, poolSeq, landed, disturbed, raced>>
      /\ transfers' \subseteq transfers
  BY DEF Expire
<1>2. FilerInv' /\ PairInv' /\ Filed' = Filed /\ \A e \in Filed : Open(e)' <=> Open(e)
  BY <1>1, RulingKept
<1>3. DataType' /\ TransferInv' /\ LandedInv' /\ RulerInv' /\ RefundTxIsReal'
  BY <1>1, <1>2 DEF IInv, DataType, TransferInv, LandedInv, RulerInv, RefundTxIsReal, Receipt
<1>4. \A e \in Filed' \ disturbed' : InTurn(e)'
  BY <1>1, <1>2 DEF IInv, InTurn, Ruling, Unpaid
<1>5. QED
  BY <1>2, <1>3, <1>4 DEF IInv

----------------------------------------------------------------------------
LEMMA StepIInv == IInv /\ [Next]_vars => IInv'
<1>1. SUFFICES ASSUME IInv, [Next]_vars PROVE IInv'
  OBVIOUS
<1>2. CASE \/ \E p \in Pairs : Pay(p)
           \/ \E f \in Filers, p \in Pairs : FindPayment(f, p)
           \/ \E f \in Filers : SelectExisting(f)
  BY <1>1, <1>2, FrontPreserves
<1>3. ASSUME NEW f \in Filers, NEW d \in Rows, NEW amount \in Amounts, Insert(f, d, amount)
      PROVE  IInv'
  BY <1>1, <1>3, InsertPreserves
<1>4. ASSUME NEW r \in Rulers, NEW d \in Rows, NEW decision \in {"upheld", "denied"},
             Read(r, d, decision)
      PROVE  IInv'
  BY <1>1, <1>4, ReadPreserves
<1>5. ASSUME NEW r \in Rulers,
             Load(r) \/ Send(r) \/ Poll(r) \/ GiveUp(r) \/ Resolve(r) \/ CutShort(r)
      PROVE  IInv'
  BY <1>1, <1>5, LoadPreserves, SendPreserves, PollPreserves, GiveUpPreserves, ResolvePreserves,
     CutShortPreserves
<1>6. ASSUME NEW x \in transfers, Expire(x) \/ \E success \in BOOLEAN : Include(x, success)
      PROVE  IInv'
  BY <1>1, <1>6, IncludePreserves, ExpirePreserves
<1>7. CASE UNCHANGED vars
  <2>1. UNCHANGED <<payments, disputes, filers, raced>>
    BY <1>7 DEF vars
  <2>2. FilerInv' /\ PairInv' /\ Filed' = Filed /\ \A e \in Filed : Open(e)' <=> Open(e)
    BY <1>1, <2>1, RulingKept
  <2>3. /\ DataType' /\ TransferInv' /\ LandedInv' /\ RulerInv' /\ RefundTxIsReal'
        /\ \A e \in Filed' \ disturbed' : InTurn(e)'
    BY <1>1, <1>7, <2>2 DEF IInv, DataType, TransferInv, LandedInv, RulerInv, RefundTxIsReal, Receipt,
       InTurn, Ruling, Unpaid, vars
  <2>4. QED
    BY <2>2, <2>3 DEF IInv
<1>8. QED
  BY <1>1, <1>2, <1>3, <1>4, <1>5, <1>6, <1>7 DEF Next

LEMMA SafetyOfIInv == IInv => TypeOK /\ RefundTxIsReal /\ RefundedOnceInTurn /\ OneOpenDisputePerPair
<1>1. SUFFICES ASSUME IInv PROVE TypeOK /\ RefundedOnceInTurn
  BY DEF IInv, PairInv
<1>2. TypeOK
  BY <1>1, FiledRows DEF IInv, DataType, FilerInv, RulerInv, TransferInv, LandedInv, TypeOK
<1>3. RefundedOnceInTurn
  BY <1>1 DEF IInv, LandedInv, InTurn, Unpaid, Refunds, RefundedOnceInTurn
<1>4. QED
  BY <1>2, <1>3

(* Rows, handlers and transfers stay well typed, and the pool account's    *)
(* sequence numbers are used once each.                                    *)
THEOREM TypeCorrect == Spec => []TypeOK
BY InitIInv, StepIInv, SafetyOfIInv, PTL DEF Spec

(* ruleDispute and executeRefund: a refund on record moved, for this       *)
(* dispute and the capped amount, whatever timed out or landed late.       *)
THEOREM RecordedRefundsAreReal == Spec => []RefundTxIsReal
BY InitIInv, StepIInv, SafetyOfIInv, PTL DEF Spec

(* A dispute whose rulings do not overlap and are not cut short is paid    *)
(* once at most, and not at all when it is denied.                         *)
THEOREM RefundedOnceUndisturbed == Spec => []RefundedOnceInTurn
BY InitIInv, StepIInv, SafetyOfIInv, PTL DEF Spec

(* fileDispute: only filings that overlap leave a pair two open disputes.  *)
THEOREM OneOpenUnlessRaced == Spec => []OneOpenDisputePerPair
BY InitIInv, StepIInv, SafetyOfIInv, PTL DEF Spec
=============================================================================
