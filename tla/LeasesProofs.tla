----------------------------- MODULE LeasesProofs -----------------------------
(***************************************************************************)
(* Proofs about leases, for any number of holders, leases, tiers, prices   *)
(* and requests, windows of any length and requests of any duration: what  *)
(* a lease gives, when it ends, and who is asked to pay again.             *)
(***************************************************************************)
EXTENDS Leases, TLAPS

Sale == [price : Charges, tier : Tiers, at : Nat, moved : BOOLEAN]

HistoryType ==
  /\ moved \subseteq Buyers
  /\ sold \in [Leases -> Sale \cup {NoValue}]
  /\ ended \in [Leases -> Nat \cup {NoValue}]
  /\ swept \in [Holders -> Nat \cup {NoValue}]
  /\ \A h \in Holders : swept[h] # NoValue => swept[h] <= now

(* A lease, what it was sold for, and when it was revoked.                 *)
WindowOK(l) ==
  LET end == sold[l].at + Length[sold[l].tier] IN
  /\ end <= leases[l].expiresAt /\ leases[l].expiresAt <= end + Duration
  /\ sold[l].moved \/ leases[l].amount = sold[l].price
RevokedOK(l) ==
  LET sweep == swept[leases[l].holder] IN
  /\ leases[l].revokedAt = NoValue => ended[l] = NoValue
  /\ leases[l].revokedAt = NoValue /\ sweep # NoValue => sold[l].at + Duration >= sweep

LeaseInv ==
  /\ known \subseteq Sold
  /\ \A l \in Sold :
       /\ sold[l] \in Sale /\ WindowOK(l) /\ RevokedOK(l)
       /\ l \in known => payments[l] = sold[l].price
  /\ \A l \in Leases \ Sold : ended[l] = NoValue

(* A purchase carries the tier and the quote it began with, the window and *)
(* the amount it has minted, and the lease it has made.                    *)
BuyerOK(b) ==
  LET q == buyers[b]
      end == q.paidAt + Length[q.tier]
  IN
  q.pc # "idle" =>
    /\ q.holder \in Holders /\ q.tier \in Tiers /\ q.quote \in Charges
    /\ q.since <= now /\ now <= q.since + Duration
    /\ q.pc \in {"quoted", "paid"} => b \in moved \/ Charge(row.price, q.tier) = q.quote
    /\ q.pc \in {"paid", "minted"} => q.since <= q.paidAt /\ q.paidAt <= now
    /\ q.pc = "minted" =>
         /\ q.amount \in Charges
         /\ b \in moved \/ q.amount = q.quote
         /\ end <= q.expiresAt /\ q.expiresAt <= end + Duration
    /\ q.pc \in {"leased", "booked"} => q.lease \in Sold /\ sold[q.lease].price = q.quote
    /\ q.pc = "booked" => payments[q.lease] = q.quote

(* A read judged its lease by a clock that is not ahead.                   *)
ReaderOK(r) ==
  LET q == readers[r]
      l == q.lease
  IN
  q.pc # "idle" =>
    /\ l \in Sold /\ q.since <= now
    /\ q.pc = "granted" =>
         q.since < leases[l].expiresAt /\ (ended[l] # NoValue => q.since <= ended[l])
    /\ q.pc = "charged" =>
         q.failed \/ leases[l].revokedAt # NoValue \/ leases[l].expiresAt <= now

IInv ==
  /\ TypeOK /\ HistoryType /\ LeaseInv
  /\ \A b \in Buyers : BuyerOK(b)
  /\ \A r \in Readers : ReaderOK(r)
  /\ \A v \in Revokers : revokers[v].pc = "update" => revokers[v].holder \in Holders

----------------------------------------------------------------------------
LEMMA ChargesAreNat ==
  /\ Charges \subseteq Nat
  /\ \A p \in Prices, t \in Tiers : Charge(p, t) \in Charges
BY LeasesAssumption DEF Charges, Charge

LEMMA LeasesAreNotNoValue == \A lease \in LeaseType : lease # NoValue
<1>1. LeaseType \subseteq [holder : Holders, amount : Nat, expiresAt : Nat,
                           revokedAt : Nat \cup {NoValue}]
  BY ChargesAreNat DEF LeaseType
<1>2. QED
  BY <1>1, LeasesAssumption

LEMMA InitIInv == Init => IInv
<1> USE LeasesAssumption
<1>1. SUFFICES ASSUME Init PROVE IInv
  OBVIOUS
<1>2. Sold = {}
  BY <1>1 DEF Init, Sold
<1>3. TypeOK
  <2>1. IdleBuyer \in BuyerType /\ IdleReader \in ReaderType
    BY DEF IdleBuyer, BuyerType, IdleReader, ReaderType
  <2>2. row \in [price : Prices, listed : BOOLEAN]
    BY <1>1 DEF Init
  <2>3. QED
    BY <1>1, <2>1, <2>2 DEF Init, TypeOK, IdleRevoker
<1>4. HistoryType /\ LeaseInv
  BY <1>1, <1>2 DEF Init, HistoryType, LeaseInv
<1>5. QED
  BY <1>1, <1>3, <1>4 DEF Init, IInv, BuyerOK, ReaderOK, IdleBuyer, IdleReader, IdleRevoker

----------------------------------------------------------------------------
(* The world. *)

LEMMA TickPreserves ==
  ASSUME IInv, Tick
  PROVE  IInv'
<1> USE LeasesAssumption
<1>1. TypeOK'
  BY DEF IInv, TypeOK, Tick, rows, history
<1>2. HistoryType' /\ LeaseInv'
  BY DEF IInv, TypeOK, HistoryType, LeaseInv, WindowOK, RevokedOK, Sold, Tick, rows, history
<1>3. \A b \in Buyers : BuyerOK(b)'
  BY DEF IInv, TypeOK, BuyerType, BuyerOK, InTime, Sold, Tick, rows, history
<1>4. \A r \in Readers : ReaderOK(r)'
  <2>1. SUFFICES ASSUME NEW r \in Readers PROVE ReaderOK(r)'
    OBVIOUS
  <2>2. readers[r].since \in Nat /\ (readers[r].pc # "idle" => leases[readers[r].lease] \in LeaseType)
    BY DEF IInv, TypeOK, ReaderType, ReaderOK, Sold
  <2>3. QED
    BY <2>2 DEF IInv, TypeOK, LeaseType, ReaderOK, Sold, Tick, rows, history
<1>5. QED
  BY <1>1, <1>2, <1>3, <1>4 DEF IInv, Tick

LEMMA SetRowPreserves ==
  ASSUME IInv, NEW p \in Prices, NEW listed \in BOOLEAN, SetRow(p, listed)
  PROVE  IInv'
<1> USE LeasesAssumption
<1>1. TypeOK' /\ HistoryType'
  BY DEF IInv, TypeOK, HistoryType, SetRow, rows
<1>2. LeaseInv'
  BY DEF IInv, LeaseInv, WindowOK, RevokedOK, Sold, SetRow, rows
<1>3. \A b \in Buyers : BuyerOK(b)'
  BY DEF IInv, TypeOK, BuyerOK, Sold, SetRow, rows
<1>4. \A r \in Readers : ReaderOK(r)'
  BY DEF IInv, ReaderOK, Sold, SetRow, rows
<1>5. QED
  BY <1>1, <1>2, <1>3, <1>4 DEF IInv, SetRow

----------------------------------------------------------------------------
(* A step of one purchase that writes no row. *)
LEMMA OneBuyer ==
  ASSUME IInv, UNCHANGED <<world, rows, sold, ended, swept, readers, revokers>>,
         NEW b \in Buyers, NEW q \in BuyerType, buyers' = [buyers EXCEPT ![b] = q],
         moved' \in {moved, moved \ {b}}, BuyerOK(b)'
  PROVE  IInv'
<1>1. buyers' \in [Buyers -> BuyerType] /\ \A c \in Buyers \ {b} : buyers'[c] = buyers[c]
  BY DEF IInv, TypeOK
<1>2. TypeOK' /\ HistoryType'
  BY <1>1 DEF IInv, TypeOK, HistoryType, world, rows
<1>3. LeaseInv' /\ \A r \in Readers : ReaderOK(r)'
  BY DEF IInv, LeaseInv, WindowOK, RevokedOK, ReaderOK, Sold, world, rows
<1>4. \A c \in Buyers : BuyerOK(c)'
  BY <1>1 DEF IInv, BuyerOK, Sold, world, rows
<1>5. QED
  BY <1>2, <1>3, <1>4 DEF IInv

LEMMA BuyerPreserves ==
  ASSUME IInv, NEW b \in Buyers,
         \/ \E h \in Holders, t \in Tiers : Quote(b, h, t)
         \/ Accept(b) \/ Mint(b) \/ PurchaseFails(b)
  PROVE  IInv'
<1> USE LeasesAssumption
<1>1. /\ buyers[b] \in BuyerType /\ buyers \in [Buyers -> BuyerType]
      /\ now \in Nat /\ row.price \in Prices /\ BuyerOK(b)
  BY DEF IInv, TypeOK
<1>2. CASE \E h \in Holders, t \in Tiers : Quote(b, h, t)
  <2>1. PICK h \in Holders, t \in Tiers : Quote(b, h, t)
    BY <1>2
  <2> DEFINE q == [IdleBuyer EXCEPT !.pc = "quoted", !.holder = h, !.tier = t,
                                    !.quote = Charge(row.price, t), !.since = now]
  <2>2. q \in BuyerType
    BY <1>1, ChargesAreNat DEF IdleBuyer, BuyerType
  <2>3. buyers'[b] = q /\ row' = row /\ now' = now
    BY <1>1, <2>1 DEF Quote, world
  <2>4. /\ q.pc = "quoted" /\ q.holder = h /\ q.tier = t /\ q.since = now
        /\ q.quote = Charge(row.price, t) /\ q.quote \in Charges
    BY <1>1, ChargesAreNat DEF IdleBuyer
  <2>5. BuyerOK(b)'
    BY <1>1, <2>3, <2>4 DEF BuyerOK
  <2>6. QED
    BY <2>1, <2>2, <2>5, OneBuyer DEF Quote
<1>3. CASE Accept(b)
  <2>1. [buyers[b] EXCEPT !.pc = "paid", !.paidAt = now] \in BuyerType
    BY <1>1 DEF BuyerType
  <2>2. BuyerOK(b)'
    BY <1>1, <1>3 DEF Accept, BuyerOK, BuyerType, world, rows, history, Sold
  <2>3. QED
    BY <1>1, <1>3, <2>1, <2>2, OneBuyer DEF Accept, history
<1>4. CASE Mint(b)
  <2>1. buyers[b].tier \in Tiers /\ Length[buyers[b].tier] \in Nat
    BY <1>1, <1>4 DEF Mint, BuyerOK
  <2>2. [buyers[b] EXCEPT !.pc = "minted", !.amount = Charge(row.price, buyers[b].tier),
                          !.expiresAt = now + Length[buyers[b].tier]] \in BuyerType
    <3>1. Charge(row.price, buyers[b].tier) \in Charges
      BY <1>1, <2>1, ChargesAreNat
    <3>2. now + Length[buyers[b].tier] \in Nat
      BY <1>1, <2>1
    <3>3. QED
      BY <1>1, <3>1, <3>2 DEF BuyerType
  <2>3. BuyerOK(b)'
    BY <1>1, <1>4, <2>1, ChargesAreNat DEF Mint, BuyerOK, BuyerType, world, rows, history, Sold
  <2>4. QED
    BY <1>1, <1>4, <2>2, <2>3, OneBuyer DEF Mint, history
<1>5. CASE PurchaseFails(b)
  <2>1. IdleBuyer \in BuyerType
    BY DEF IdleBuyer, BuyerType
  <2>2. BuyerOK(b)'
    BY <1>1, <1>5 DEF PurchaseFails, BuyerOK, IdleBuyer
  <2>3. QED
    BY <1>5, <2>1, <2>2, OneBuyer DEF PurchaseFails, history
<1>6. QED
  BY <1>2, <1>3, <1>4, <1>5

(* A lease is inserted where there is none, so nobody has read it yet.     *)
LEMMA InsertLeasePreserves ==
  ASSUME IInv, NEW b \in Buyers, NEW l \in Leases, InsertLease(b, l)
  PROVE  IInv'
<1> USE LeasesAssumption
<1> DEFINE q == buyers[b]
           lease == [holder |-> q.holder, amount |-> q.amount, expiresAt |-> q.expiresAt,
                     revokedAt |-> NoValue]
           sale == [price |-> q.quote, tier |-> q.tier, at |-> q.paidAt, moved |-> b \in moved]
<1>1. /\ q \in BuyerType /\ buyers \in [Buyers -> BuyerType] /\ now \in Nat
      /\ BuyerOK(b) /\ q.pc = "minted" /\ l \notin Sold
  BY DEF IInv, TypeOK, InsertLease
<1>2. lease \in LeaseType /\ lease # NoValue /\ sale \in Sale
  BY <1>1, LeasesAreNotNoValue DEF BuyerOK, BuyerType, LeaseType, Sale
<1>3. /\ leases' = [leases EXCEPT ![l] = lease] /\ sold' = [sold EXCEPT ![l] = sale]
      /\ buyers' = [buyers EXCEPT ![b].pc = "leased", ![b].lease = l]
  BY DEF InsertLease
<1>4. /\ Sold' = Sold \cup {l} /\ leases'[l] = lease
      /\ \A k \in Leases \ {l} : leases'[k] = leases[k]
  BY <1>2, <1>3 DEF IInv, TypeOK, Sold
<1>5. sold'[l] = sale /\ \A k \in Leases \ {l} : sold'[k] = sold[k]
  BY <1>3 DEF IInv, HistoryType
<1>6. /\ buyers' \in [Buyers -> BuyerType] /\ \A c \in Buyers \ {b} : buyers'[c] = buyers[c]
      /\ buyers'[b] = [q EXCEPT !.pc = "leased", !.lease = l]
  BY <1>1, <1>3 DEF BuyerType
<1>7. TypeOK' /\ HistoryType'
  BY <1>2, <1>3, <1>6 DEF IInv, TypeOK, HistoryType, InsertLease, world
<1>8. LeaseInv'
  <2>1. WindowOK(l)'
    <3>1. /\ leases'[l].expiresAt = q.expiresAt /\ leases'[l].amount = q.amount
          /\ sold'[l].at = q.paidAt /\ sold'[l].tier = q.tier
          /\ sold'[l].price = q.quote /\ sold'[l].moved = (b \in moved)
      BY <1>4, <1>5
    <3>2. QED
      BY <1>1, <3>1 DEF WindowOK, BuyerOK
  <2>2. RevokedOK(l)'
    <3>1. /\ leases'[l].revokedAt = NoValue /\ leases'[l].holder = q.holder
          /\ sold'[l].at = q.paidAt
      BY <1>4, <1>5
    <3>2. ended'[l] = NoValue /\ swept' = swept
      BY <1>1 DEF IInv, LeaseInv, InsertLease
    <3>3. /\ q.holder \in Holders /\ q.since \in Nat /\ q.paidAt \in Nat
          /\ q.since <= q.paidAt /\ now <= q.since + Duration
      BY <1>1 DEF BuyerOK, BuyerType
    <3>4. ASSUME swept[q.holder] # NoValue PROVE q.paidAt + Duration >= swept[q.holder]
      <4>1. swept[q.holder] \in Nat /\ swept[q.holder] <= now
        BY <3>3, <3>4 DEF IInv, HistoryType
      <4>2. QED
        BY <1>1, <3>3, <4>1
    <3>5. QED
      BY <3>1, <3>2, <3>4 DEF RevokedOK
  <2>3. \A k \in Sold : WindowOK(k)' /\ RevokedOK(k)'
    BY <1>1, <1>4, <1>5 DEF IInv, LeaseInv, WindowOK, RevokedOK, InsertLease, Sold
  <2>4. \A k \in Sold' : sold'[k] \in Sale /\ (k \in known => payments[k] = sold'[k].price)
    BY <1>1, <1>2, <1>4, <1>5 DEF IInv, LeaseInv, Sold
  <2>5. QED
    BY <1>4, <2>1, <2>2, <2>3, <2>4 DEF IInv, LeaseInv, InsertLease
<1>9. \A c \in Buyers : BuyerOK(c)'
  <2>1. BuyerOK(b)'
    BY <1>1, <1>2, <1>4, <1>5, <1>6 DEF BuyerOK, BuyerType, InsertLease, world
  <2>2. ASSUME NEW c \in Buyers \ {b} PROVE BuyerOK(c)'
    <3>1. buyers'[c] = buyers[c] /\ BuyerOK(c)
      BY <1>6 DEF IInv
    <3>2. \A k \in Sold : k \in Sold' /\ sold'[k] = sold[k]
      BY <1>1, <1>4, <1>5 DEF Sold
    <3>3. QED
      BY <3>1, <3>2 DEF BuyerOK, InsertLease, world
  <2>3. QED
    BY <2>1, <2>2
<1>10. \A r \in Readers : ReaderOK(r)'
  BY <1>1, <1>4 DEF IInv, ReaderOK, InsertLease, world, Sold
<1>11. QED
  BY <1>7, <1>8, <1>9, <1>10 DEF IInv, InsertLease

LEMMA InsertPaymentPreserves ==
  ASSUME IInv, NEW b \in Buyers, InsertPayment(b)
  PROVE  IInv'
<1> DEFINE q == buyers[b]
<1>1. /\ q \in BuyerType /\ buyers \in [Buyers -> BuyerType]
      /\ q.lease \in Sold /\ sold[q.lease].price = q.quote /\ q.quote \in Charges
  BY DEF IInv, TypeOK, BuyerOK, InsertPayment
<1>2. /\ payments' = [payments EXCEPT ![q.lease] = q.quote]
      /\ buyers' = [buyers EXCEPT ![b].pc = "booked"]
      /\ payments \in [Leases -> Charges \cup {NoValue}]
  BY DEF InsertPayment, IInv, TypeOK
<1>3. /\ \A k \in Sold : payments'[k] = IF k = q.lease THEN sold[k].price ELSE payments[k]
      /\ Sold' = Sold
  BY <1>1, <1>2 DEF Sold, InsertPayment
<1>4. TypeOK' /\ HistoryType'
  <2>1. payments' \in [Leases -> Charges \cup {NoValue}]
    BY <1>1, <1>2
  <2>2. buyers' \in [Buyers -> BuyerType]
    <3>1. [q EXCEPT !.pc = "booked"] \in BuyerType
      BY <1>1 DEF BuyerType
    <3>2. QED
      BY <1>1, <1>2, <3>1
  <2>3. QED
    BY <2>1, <2>2 DEF IInv, TypeOK, HistoryType, InsertPayment, world, history
<1>5. LeaseInv'
  BY <1>3 DEF IInv, LeaseInv, WindowOK, RevokedOK, InsertPayment, history
<1>6. \A c \in Buyers : BuyerOK(c)'
  <2>1. SUFFICES ASSUME NEW c \in Buyers PROVE BuyerOK(c)'
    OBVIOUS
  <2>2. BuyerOK(c) /\ (c # b => buyers'[c] = buyers[c])
    BY <1>1, <1>2 DEF IInv
  <2>3. buyers'[b] = [q EXCEPT !.pc = "booked"]
    BY <1>1, <1>2
  <2>4. CASE c = b
    BY <1>1, <1>3, <2>2, <2>3, <2>4 DEF BuyerOK, BuyerType, InsertPayment, world, history
  <2>5. CASE c # b
    BY <1>3, <2>2, <2>5 DEF BuyerOK, InsertPayment, world, history
  <2>6. QED
    BY <2>4, <2>5
<1>7. \A r \in Readers : ReaderOK(r)'
  BY <1>3 DEF IInv, ReaderOK, InsertPayment, world, history
<1>8. QED
  BY <1>4, <1>5, <1>6, <1>7 DEF IInv, InsertPayment

LEMMA ReplyPreserves ==
  ASSUME IInv, NEW b \in Buyers, Reply(b)
  PROVE  IInv'
<1> DEFINE l == buyers[b].lease
<1>1. /\ l \in Sold /\ payments[l] = sold[l].price
      /\ IdleBuyer \in BuyerType /\ buyers \in [Buyers -> BuyerType]
  BY DEF IInv, TypeOK, BuyerOK, Reply, IdleBuyer, BuyerType
<1>2. TypeOK' /\ HistoryType'
  BY <1>1 DEF IInv, TypeOK, HistoryType, Reply, world, history, Sold
<1>3. LeaseInv'
  BY <1>1 DEF IInv, LeaseInv, WindowOK, RevokedOK, Reply, Sold, history
<1>4. \A c \in Buyers : BuyerOK(c)'
  BY <1>1 DEF IInv, BuyerOK, IdleBuyer, Reply, Sold, world, history
<1>5. \A r \in Readers : ReaderOK(r)'
  BY DEF IInv, ReaderOK, Reply, Sold, world, history
<1>6. QED
  BY <1>2, <1>3, <1>4, <1>5 DEF IInv, Reply

----------------------------------------------------------------------------
(* Reads. *)

LEMMA OneReader ==
  ASSUME IInv, UNCHANGED <<world, rows, history, buyers, revokers>>,
         NEW r \in Readers, NEW q \in ReaderType, readers' = [readers EXCEPT ![r] = q],
         ReaderOK(r)'
  PROVE  IInv'
<1>1. readers' \in [Readers -> ReaderType] /\ \A s \in Readers \ {r} : readers'[s] = readers[s]
  BY DEF IInv, TypeOK
<1>2. TypeOK' /\ HistoryType'
  BY <1>1 DEF IInv, TypeOK, HistoryType, world, rows, history
<1>3. LeaseInv' /\ \A b \in Buyers : BuyerOK(b)'
  BY DEF IInv, LeaseInv, WindowOK, RevokedOK, BuyerOK, Sold, world, rows, history
<1>4. \A s \in Readers : ReaderOK(s)'
  BY <1>1 DEF IInv, ReaderOK, Sold, world, rows, history
<1>5. QED
  BY <1>2, <1>3, <1>4 DEF IInv

(* A lease is active, and was never revoked, when it is granted; its time  *)
(* was up, or it is revoked, when the reader is asked to pay.              *)
LEMMA ReaderPreserves ==
  ASSUME IInv, NEW r \in Readers, ReaderStep(r)
  PROVE  IInv'
<1> USE LeasesAssumption
<1> DEFINE q == readers[r]
<1>1. q \in ReaderType /\ readers \in [Readers -> ReaderType] /\ ReaderOK(r) /\ now \in Nat
  BY DEF IInv, TypeOK
<1>2. ASSUME NEW l \in Leases, Present(r, l) PROVE IInv'
  <2>1. [IdleReader EXCEPT !.pc = "looking", !.lease = l, !.since = now] \in ReaderType
    BY <1>1 DEF IdleReader, ReaderType
  <2>2. ReaderOK(r)'
    BY <1>1, <1>2 DEF Present, ReaderOK, IdleReader, Sold, IInv, LeaseInv, world, rows
  <2>3. QED
    BY <1>2, <2>1, <2>2, OneReader DEF Present
<1>3. CASE Lookup(r)
  <2> DEFINE l == q.lease
             answer == IF Active(leases[l], q.since) THEN "granted" ELSE "charged"
  <2>1. [q EXCEPT !.pc = answer] \in ReaderType
    BY <1>1 DEF ReaderType
  <2>2. l \in Sold /\ q.since <= now /\ leases[l] \in LeaseType /\ RevokedOK(l)
    BY <1>1, <1>3 DEF Lookup, ReaderOK, IInv, TypeOK, LeaseInv, Sold
  <2>3. Active(leases[l], q.since) => q.since < leases[l].expiresAt /\ ended[l] = NoValue
    BY <2>2 DEF Active, RevokedOK
  <2>4. ~Active(leases[l], q.since) =>
          leases[l].revokedAt # NoValue \/ leases[l].expiresAt <= now
    BY <1>1, <2>2 DEF Active, LeaseType, ReaderType
  <2>5. readers'[r] = [q EXCEPT !.pc = answer]
    BY <1>1, <1>3 DEF Lookup
  <2>6. ReaderOK(r)'
    BY <1>1, <1>3, <2>2, <2>3, <2>4, <2>5 DEF Lookup, ReaderOK, ReaderType, Sold, world, rows, history
  <2>7. QED
    BY <1>1, <1>3, <2>1, <2>6, OneReader DEF Lookup
<1>4. CASE LookupFails(r)
  <2>1. [q EXCEPT !.pc = "charged", !.failed = TRUE] \in ReaderType
    BY <1>1 DEF ReaderType
  <2>2. ReaderOK(r)'
    BY <1>1, <1>4 DEF LookupFails, ReaderOK, ReaderType, Sold, world, rows, history
  <2>3. QED
    BY <1>1, <1>4, <2>1, <2>2, OneReader DEF LookupFails
<1>5. CASE EndRead(r)
  <2>1. IdleReader \in ReaderType
    BY DEF IdleReader, ReaderType
  <2>2. ReaderOK(r)'
    BY <1>1, <1>5 DEF EndRead, ReaderOK, IdleReader
  <2>3. QED
    BY <1>5, <2>1, <2>2, OneReader DEF EndRead
<1>6. QED
  BY <1>2, <1>3, <1>4, <1>5 DEF ReaderStep

----------------------------------------------------------------------------
(* Revocations. *)

LEMMA RevokerPreserves ==
  ASSUME IInv, NEW v \in Revokers, \/ \E h \in Holders : AskRevoke(v, h)
                                   \/ RevokeFails(v)
  PROVE  IInv'
<1>1. TypeOK' /\ \A w \in Revokers : revokers'[w].pc = "update" => revokers'[w].holder \in Holders
  BY LeasesAssumption DEF IInv, TypeOK, AskRevoke, RevokeFails, IdleRevoker, world, rows
<1>2. HistoryType' /\ LeaseInv'
  BY DEF IInv, HistoryType, LeaseInv, WindowOK, RevokedOK, Sold, AskRevoke, RevokeFails, world,
     rows, history
<1>3. (\A b \in Buyers : BuyerOK(b)') /\ \A r \in Readers : ReaderOK(r)'
  BY DEF IInv, BuyerOK, ReaderOK, Sold, AskRevoke, RevokeFails, world, rows, history
<1>4. QED
  BY <1>1, <1>2, <1>3 DEF IInv

(* All leases of the holder are revoked now, if they were not before.      *)
LEMMA RevokePreserves ==
  ASSUME IInv, NEW v \in Revokers, Revoke(v)
  PROVE  IInv'
<1> USE LeasesAssumption
<1> DEFINE h == revokers[v].holder
           at == revokers[v].since
           hit == {l \in Sold : leases[l].holder = h}
<1>1. h \in Holders /\ at \in Nat /\ now \in Nat
  BY DEF IInv, TypeOK, Revoke, Sweep
<1>2. /\ leases' = [l \in Leases |-> IF l \in hit THEN Stamped(l, at) ELSE leases[l]]
      /\ ended' = [l \in Leases |-> IF l \in hit /\ ended[l] = NoValue THEN now ELSE ended[l]]
      /\ swept' = [swept EXCEPT ![h] = now]
      /\ revokers' = [revokers EXCEPT ![v] = IdleRevoker]
      /\ UNCHANGED <<world, payments, known, moved, sold, buyers, readers>>
  BY DEF Revoke, Sweep
<1>3. \A l \in Sold :
        /\ leases[l] \in LeaseType /\ leases'[l] \in LeaseType /\ leases'[l] # NoValue
        /\ leases'[l].holder = leases[l].holder /\ leases'[l].amount = leases[l].amount
        /\ leases'[l].expiresAt = leases[l].expiresAt
        /\ leases'[l].revokedAt = IF l \in hit THEN at ELSE leases[l].revokedAt
  <2>1. SUFFICES ASSUME NEW l \in Sold
                 PROVE  /\ leases[l] \in LeaseType /\ leases'[l] \in LeaseType
                        /\ leases'[l].holder = leases[l].holder
                        /\ leases'[l].amount = leases[l].amount
                        /\ leases'[l].expiresAt = leases[l].expiresAt
                        /\ leases'[l].revokedAt = IF l \in hit THEN at ELSE leases[l].revokedAt
    BY LeasesAreNotNoValue
  <2>2. leases[l] \in LeaseType /\ l \in Leases
    BY DEF IInv, TypeOK, Sold
  <2>3. Stamped(l, at) = [leases[l] EXCEPT !.revokedAt = at]
    BY DEF Stamped
  <2>4. leases'[l] = IF l \in hit THEN Stamped(l, at) ELSE leases[l]
    BY <1>2, <2>2
  <2>5. QED
    BY <1>1, <2>2, <2>3, <2>4 DEF LeaseType
<1>4. Sold' = Sold /\ \A l \in Leases \ Sold : leases'[l] = NoValue
  BY <1>2, <1>3 DEF Sold
<1>5. TypeOK'
  <2>1. leases' \in [Leases -> LeaseType \cup {NoValue}]
    BY <1>2, <1>3, <1>4
  <2>2. QED
    BY <1>2, <2>1 DEF IInv, TypeOK, IdleRevoker, world
<1>6. HistoryType'
  BY <1>1, <1>2 DEF IInv, TypeOK, HistoryType, world
<1>7. LeaseInv'
  <2>1. \A l \in Sold : WindowOK(l)'
    BY <1>2, <1>3 DEF IInv, LeaseInv, WindowOK
  <2>2. \A l \in Sold : RevokedOK(l)'
    <3>1. SUFFICES ASSUME NEW l \in Sold PROVE RevokedOK(l)'
      OBVIOUS
    <3>2. leases[l].holder \in Holders /\ l \in Leases
      BY <1>3 DEF LeaseType, Sold
    <3>3. CASE l \in hit
      BY <1>1, <1>3, <3>3 DEF RevokedOK
    <3>4. CASE l \notin hit
      BY <1>2, <1>3, <3>2, <3>4 DEF RevokedOK, IInv, LeaseInv, HistoryType
    <3>5. QED
      BY <3>3, <3>4
  <2>3. QED
    BY <1>2, <1>4, <2>1, <2>2 DEF IInv, LeaseInv
<1>8. \A b \in Buyers : BuyerOK(b)'
  BY <1>2, <1>4 DEF IInv, BuyerOK, world
<1>9. \A r \in Readers : ReaderOK(r)'
  <2>1. SUFFICES ASSUME NEW r \in Readers, readers[r].pc # "idle" PROVE ReaderOK(r)'
    BY <1>2 DEF ReaderOK
  <2> DEFINE l == readers[r].lease
  <2>2. ReaderOK(r) /\ l \in Sold /\ l \in Leases /\ readers[r].since <= now
    BY <2>1 DEF IInv, ReaderOK, Sold
  <2>3. ended'[l] = IF l \in hit /\ ended[l] = NoValue THEN now ELSE ended[l]
    BY <1>2, <2>2
  <2>4. leases[l].revokedAt # NoValue => leases'[l].revokedAt # NoValue
    BY <1>1, <1>3, <2>2
  <2>5. QED
    BY <1>2, <1>3, <1>4, <2>2, <2>3, <2>4 DEF ReaderOK, world
<1>10. QED
  BY <1>2, <1>5, <1>6, <1>7, <1>8, <1>9 DEF IInv, TypeOK, IdleRevoker

----------------------------------------------------------------------------
LEMMA StepIInv == IInv /\ [Next]_vars => IInv'
<1>1. SUFFICES ASSUME IInv, [Next]_vars PROVE IInv'
  OBVIOUS
<1>2. ASSUME NEW b \in Buyers, BuyerStep(b) PROVE IInv'
  BY <1>1, <1>2, BuyerPreserves, InsertLeasePreserves, InsertPaymentPreserves, ReplyPreserves
     DEF BuyerStep
<1>3. ASSUME NEW r \in Readers, ReaderStep(r) PROVE IInv'
  BY <1>1, <1>3, ReaderPreserves
<1>4. ASSUME NEW v \in Revokers, RevokerStep(v) PROVE IInv'
  BY <1>1, <1>4, RevokerPreserves, RevokePreserves DEF RevokerStep
<1>5. ASSUME NEW p \in Prices, NEW listed \in BOOLEAN, SetRow(p, listed) PROVE IInv'
  BY <1>1, <1>5, SetRowPreserves
<1>6. CASE Tick
  BY <1>1, <1>6, TickPreserves
<1>7. CASE UNCHANGED vars
  <2>1. TypeOK' /\ HistoryType' /\ LeaseInv'
    BY <1>1, <1>7 DEF IInv, TypeOK, HistoryType, LeaseInv, WindowOK, RevokedOK, Sold, vars, world,
       rows, history
  <2>2. QED
    BY <1>1, <1>7, <2>1 DEF IInv, BuyerOK, ReaderOK, Sold, vars, world, rows, history
<1>8. QED
  BY <1>1, <1>2, <1>3, <1>4, <1>5, <1>6, <1>7 DEF Next

LEMMA SafetyOfIInv == IInv => AccessEnds /\ ChargedOnlyWhenInactive /\ LeasedAsPaid
<1>1. SUFFICES ASSUME IInv PROVE AccessEnds /\ ChargedOnlyWhenInactive /\ LeasedAsPaid
  OBVIOUS
<1>2. AccessEnds
  BY <1>1 DEF IInv, ReaderOK, LeaseInv, RevokedOK, AccessEnds
<1>3. ChargedOnlyWhenInactive
  BY <1>1 DEF IInv, ReaderOK, ChargedOnlyWhenInactive
<1>4. LeasedAsPaid
  BY <1>1 DEF IInv, LeaseInv, WindowOK, LeasedAsPaid
<1>5. QED
  BY <1>2, <1>3, <1>4

(* Rows, requests and revocations stay well typed.                         *)
THEOREM TypeCorrect == Spec => []TypeOK
<1>1. IInv => TypeOK
  BY DEF IInv
<1>2. QED
  BY <1>1, InitIInv, StepIInv, PTL DEF Spec

(* isActive and revokeLease: no read that begins after a lease's end is    *)
(* granted, and no lease survives a revocation but one being bought.       *)
THEOREM AccessHasAnEnd == Spec => []AccessEnds
BY InitIInv, StepIInv, SafetyOfIInv, PTL DEF Spec

(* The lease short-circuit of the paywall: the holder of a live lease pays *)
(* again only when its lookup failed.                                      *)
THEOREM NoSecondCharge == Spec => []ChargedOnlyWhenInactive
BY InitIInv, StepIInv, SafetyOfIInv, PTL DEF Spec

(* createLease and the payments row: window, amount and payment are those  *)
(* of the sale.                                                            *)
THEOREM SoldAsPaid == Spec => []LeasedAsPaid
BY InitIInv, StepIInv, SafetyOfIInv, PTL DEF Spec
=============================================================================
