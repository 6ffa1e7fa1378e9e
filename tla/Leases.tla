-------------------------------- MODULE Leases ---------------------------------
(***************************************************************************)
(* Time-limited access to one resource: POST /resources/:id/leases with    *)
(* its paywall (server/src/routes/leases.ts), the lease rows               *)
(* (services/leaseService.ts), the lease branch of dynamicPaywall          *)
(* (middleware/dynamicPaywall.ts) and revocation by the creator.           *)
(*                                                                         *)
(* An action is the code between two awaits; purchases, reads and          *)
(* revocations interleave.  A token is as good as the lease it was made    *)
(* for, so a lease stands for both.  A read that is not granted goes on as *)
(* in module Paywall; the x402 library is external, as there.              *)
(***************************************************************************)
EXTENDS Integers, FiniteSets

CONSTANTS
  Holders,
  Leases,          \* lease rows, and their tokens
  Tiers,           \* the duration tiers
  Length,          \* TIER_SECONDS: the window of each, in clock ticks
  Multiplier,      \* DEFAULT_TIER_MULTIPLIERS
  Prices,          \* prices the resource row can hold
  Buyers, Readers, Revokers,   \* requests that can run at a time
  Duration,        \* bound: the clock ticks a request takes
  MaxTime,         \* bound: the last tick
  MaxChanges,      \* bound: writes to the resource row
  NoValue

ASSUME LeasesAssumption ==
  /\ Length \in [Tiers -> Nat \ {0}] /\ Multiplier \in [Tiers -> Nat]
  /\ Prices \subseteq Nat
  /\ Duration \in Nat /\ MaxTime \in Nat /\ MaxChanges \in Nat
  /\ NoValue \notin Nat \cup Holders \cup Leases \cup Tiers
  /\ NoValue \notin [holder : Holders, amount : Nat, expiresAt : Nat,
                     revokedAt : Nat \cup {NoValue}]

VARIABLES
  now,             \* the clock
  row,             \* price and listed of the resource row
  changes,         \* how many writes there have been
  leases,          \* the lease rows, NoValue where there is none yet
  payments,        \* the payments row of each purchase: its amount
  known,           \* the leases whose token was handed out
  buyers, readers, revokers,   \* the control state of the requests
  moved,           \* history: purchases during which the price changed
  sold,            \* history: what each lease was sold for, as what, and when
  ended,           \* history: when each lease was first revoked
  swept            \* history: when each holder was last revoked

world == <<now, row, changes>>
rows == <<leases, payments, known>>
history == <<moved, sold, ended, swept>>
vars == <<world, rows, history, buyers, readers, revokers>>

IdleBuyer ==
  [pc |-> "idle", holder |-> NoValue, tier |-> NoValue, quote |-> 0, since |-> 0,
   paidAt |-> 0, amount |-> 0, expiresAt |-> 0, lease |-> NoValue]
IdleReader == [pc |-> "idle", lease |-> NoValue, since |-> 0, failed |-> FALSE]
IdleRevoker == [pc |-> "idle", holder |-> NoValue, since |-> 0]

Init ==
  /\ now = 0
  /\ row \in [price : Prices, listed : {TRUE}]
  /\ changes = 0
  /\ leases = [l \in Leases |-> NoValue]
  /\ payments = [l \in Leases |-> NoValue]
  /\ known = {}
  /\ buyers = [b \in Buyers |-> IdleBuyer]
  /\ readers = [r \in Readers |-> IdleReader]
  /\ revokers = [v \in Revokers |-> IdleRevoker]
  /\ moved = {}
  /\ sold = [l \in Leases |-> NoValue]
  /\ ended = [l \in Leases |-> NoValue]
  /\ swept = [h \in Holders |-> NoValue]

Sold == {l \in Leases : leases[l] # NoValue}

----------------------------------------------------------------------------
(* The world around the requests. *)

(* The price routes, the event listener and delisting write the row. *)
SetRow(p, listed) ==
  /\ changes < MaxChanges
  /\ row # [price |-> p, listed |-> listed]
  /\ p = row.price \/ listed = row.listed
  /\ row' = [price |-> p, listed |-> listed]
  /\ changes' = changes + 1
  /\ moved' = IF p = row.price THEN moved
              ELSE moved \cup {b \in Buyers : buyers[b].pc \in {"quoted", "paid"}}
  /\ UNCHANGED <<now, rows, sold, ended, swept, buyers, readers, revokers>>

InTime(request) == request.pc # "idle" => now < request.since + Duration

(* Requests end within Duration ticks. *)
Tick ==
  /\ now < MaxTime
  /\ \A b \in Buyers : InTime(buyers[b])
  /\ \A r \in Readers : InTime(readers[r])
  /\ \A v \in Revokers : InTime(revokers[v])
  /\ now' = now + 1
  /\ UNCHANGED <<row, changes, rows, history, buyers, readers, revokers>>

----------------------------------------------------------------------------
(* POST /resources/:id/leases *)

(* computeLeasePrice *)
Charge(price, tier) == price * Multiplier[tier]

(* leasePaywall reads the row and asks for the price of the tier. *)
Quote(b, h, t) ==
  /\ buyers[b].pc = "idle"
  /\ row.listed
  /\ buyers' = [buyers EXCEPT ![b] =
       [IdleBuyer EXCEPT !.pc = "quoted", !.holder = h, !.tier = t,
                         !.quote = Charge(row.price, t), !.since = now]]
  /\ moved' = moved \ {b}
  /\ UNCHANGED <<world, rows, sold, ended, swept, readers, revokers>>

(* The x402 middleware accepts the payment and runs the handler. *)
Accept(b) ==
  /\ buyers[b].pc = "quoted"
  /\ buyers' = [buyers EXCEPT ![b].pc = "paid", ![b].paidAt = now]
  /\ UNCHANGED <<world, rows, history, readers, revokers>>

(* Faulty variant: the window counts from the beginning of the request.    *)
MintFromStart(b) ==
  /\ buyers[b].pc = "paid"
  /\ buyers' = [buyers EXCEPT ![b].pc = "minted",
                              ![b].amount = Charge(row.price, buyers[b].tier),
                              ![b].expiresAt = buyers[b].since + Length[buyers[b].tier]]
  /\ UNCHANGED <<world, rows, history, readers, revokers>>

(* createLease reads the row again, prices the lease by it and fixes the   *)
(* window.                                                                 *)
Mint(b) ==
  /\ buyers[b].pc = "paid"
  /\ buyers' = [buyers EXCEPT ![b].pc = "minted",
                              ![b].amount = Charge(row.price, buyers[b].tier),
                              ![b].expiresAt = now + Length[buyers[b].tier]]
  /\ UNCHANGED <<world, rows, history, readers, revokers>>

InsertLease(b, l) ==
  LET q == buyers[b] IN
  /\ q.pc = "minted"
  /\ l \notin Sold
  /\ leases' = [leases EXCEPT ![l] =
       [holder |-> q.holder, amount |-> q.amount, expiresAt |-> q.expiresAt,
        revokedAt |-> NoValue]]
  /\ sold' = [sold EXCEPT ![l] =
       [price |-> q.quote, tier |-> q.tier, at |-> q.paidAt, moved |-> b \in moved]]
  /\ buyers' = [buyers EXCEPT ![b].pc = "leased", ![b].lease = l]
  /\ UNCHANGED <<world, payments, known, moved, ended, swept, readers, revokers>>

(* The payments row carries the price asked for. *)
InsertPayment(b) ==
  /\ buyers[b].pc = "leased"
  /\ payments' = [payments EXCEPT ![buyers[b].lease] = buyers[b].quote]
  /\ buyers' = [buyers EXCEPT ![b].pc = "booked"]
  /\ UNCHANGED <<world, leases, known, history, readers, revokers>>

(* The only time the token is shown. *)
Reply(b) ==
  /\ buyers[b].pc = "booked"
  /\ known' = known \cup {buyers[b].lease}
  /\ buyers' = [buyers EXCEPT ![b] = IdleBuyer]
  /\ UNCHANGED <<world, leases, payments, history, readers, revokers>>

(* No payment (402), no holder address (400), a call that throws, or a     *)
(* reply cut off by the timeout: what is written stays written.            *)
PurchaseFails(b) ==
  /\ buyers[b].pc # "idle"
  /\ buyers' = [buyers EXCEPT ![b] = IdleBuyer]
  /\ UNCHANGED <<world, rows, history, readers, revokers>>

BuyerStep(b) ==
  \/ \E h \in Holders, t \in Tiers : Quote(b, h, t)
  \/ Accept(b)
  \/ Mint(b)
  \/ \E l \in Leases : InsertLease(b, l)
  \/ InsertPayment(b)
  \/ Reply(b)
  \/ PurchaseFails(b)

----------------------------------------------------------------------------
(* GET /resources/:id with a lease. *)

(* The row is read, and the clock, for findActiveLeaseByToken; a resource  *)
(* that is not listed is answered 404, lease or no lease.                  *)
Present(r, l) ==
  /\ readers[r].pc = "idle"
  /\ l \in known
  /\ row.listed
  /\ readers' = [readers EXCEPT ![r] =
       [IdleReader EXCEPT !.pc = "looking", !.lease = l, !.since = now]]
  /\ UNCHANGED <<world, rows, history, buyers, revokers>>

(* Faulty variants: the last instant counts, or the last tick does not. *)
ActiveThrough(lease, at) == lease.revokedAt = NoValue /\ at <= lease.expiresAt
ActiveShort(lease, at) == lease.revokedAt = NoValue /\ at + 1 < lease.expiresAt

(* isActive *)
Active(lease, at) == lease.revokedAt = NoValue /\ at < lease.expiresAt

(* The lease row as it is now, judged by the clock as it was. *)
Lookup(r) ==
  /\ readers[r].pc = "looking"
  /\ readers' = [readers EXCEPT ![r].pc =
       IF Active(leases[readers[r].lease], readers[r].since) THEN "granted" ELSE "charged"]
  /\ UNCHANGED <<world, rows, history, buyers, revokers>>

(* The lookup throws: on to the paid flow. *)
LookupFails(r) ==
  /\ readers[r].pc = "looking"
  /\ readers' = [readers EXCEPT ![r].pc = "charged", ![r].failed = TRUE]
  /\ UNCHANGED <<world, rows, history, buyers, revokers>>

(* The delivery, with its payments row (which no reader of leases or of    *)
(* this model looks at), its failure, or the paid flow.                    *)
EndRead(r) ==
  /\ readers[r].pc \in {"granted", "charged"}
  /\ readers' = [readers EXCEPT ![r] = IdleReader]
  /\ UNCHANGED <<world, rows, history, buyers, revokers>>

ReaderStep(r) ==
  \/ \E l \in Leases : Present(r, l)
  \/ Lookup(r)
  \/ LookupFails(r)
  \/ EndRead(r)

----------------------------------------------------------------------------
(* POST /resources/:id/leases/:holder/revoke *)

(* The creator's request is checked and the clock is read. *)
AskRevoke(v, h) ==
  /\ revokers[v].pc = "idle"
  /\ revokers' = [revokers EXCEPT ![v] = [pc |-> "update", holder |-> h, since |-> now]]
  /\ UNCHANGED <<world, rows, history, buyers, readers>>

Stamped(l, at) == [leases[l] EXCEPT !.revokedAt = at]

(* Revoke the holder's leases in S. *)
Sweep(v, S) ==
  LET h == revokers[v].holder
      hit == {l \in S : leases[l].holder = h}
  IN
  /\ revokers[v].pc = "update"
  /\ leases' = [l \in Leases |-> IF l \in hit THEN Stamped(l, revokers[v].since) ELSE leases[l]]
  /\ ended' = [l \in Leases |-> IF l \in hit /\ ended[l] = NoValue THEN now ELSE ended[l]]
  /\ swept' = [swept EXCEPT ![h] = now]
  /\ revokers' = [revokers EXCEPT ![v] = IdleRevoker]
  /\ UNCHANGED <<world, payments, known, moved, sold, buyers, readers>>

(* One UPDATE of all leases of the holder, those already revoked as well. *)
Revoke(v) == Sweep(v, Sold)

RevokeFails(v) ==
  /\ revokers[v].pc = "update"
  /\ revokers' = [revokers EXCEPT ![v] = IdleRevoker]
  /\ UNCHANGED <<world, rows, history, buyers, readers>>

RevokerStep(v) ==
  \/ \E h \in Holders : AskRevoke(v, h)
  \/ Revoke(v)
  \/ RevokeFails(v)

Next ==
  \/ \E b \in Buyers : BuyerStep(b)
  \/ \E r \in Readers : ReaderStep(r)
  \/ \E v \in Revokers : RevokerStep(v)
  \/ \E p \in Prices, listed \in BOOLEAN : SetRow(p, listed)
  \/ Tick

Spec == Init /\ [][Next]_vars

----------------------------------------------------------------------------
(* Properties. *)

Charges == {Charge(p, t) : p \in Prices, t \in Tiers}

LeaseType ==
  [holder : Holders, amount : Charges, expiresAt : Nat, revokedAt : Nat \cup {NoValue}]

BuyerType ==
  [pc : {"idle", "quoted", "paid", "minted", "leased", "booked"},
   holder : Holders \cup {NoValue}, tier : Tiers \cup {NoValue}, quote : Charges \cup {0},
   since : Nat, paidAt : Nat, amount : Charges \cup {0}, expiresAt : Nat,
   lease : Leases \cup {NoValue}]

ReaderType ==
  [pc : {"idle", "looking", "granted", "charged"}, lease : Leases \cup {NoValue},
   since : Nat, failed : BOOLEAN]

(* Rows and requests are well typed: an amount is always the charge of     *)
(* some price and tier.                                                    *)
TypeOK ==
  /\ now \in 0 .. MaxTime
  /\ row \in [price : Prices, listed : BOOLEAN]
  /\ changes \in 0 .. MaxChanges
  /\ leases \in [Leases -> LeaseType \cup {NoValue}]
  /\ payments \in [Leases -> Charges \cup {NoValue}]
  /\ known \subseteq Leases
  /\ buyers \in [Buyers -> BuyerType]
  /\ readers \in [Readers -> ReaderType]
  /\ revokers \in [Revokers -> [pc : {"idle", "update"}, holder : Holders \cup {NoValue},
                                since : Nat]]

(* A read that begins after its lease has expired or was revoked is never  *)
(* granted, and so what is granted late is over within one request; and of *)
(* a holder's leases only a purchase under way survives a revocation.      *)
AccessEnds ==
  /\ \A r \in Readers : readers[r].pc = "granted" =>
       LET l == readers[r].lease IN
       /\ readers[r].since < leases[l].expiresAt
       /\ ended[l] # NoValue => readers[r].since <= ended[l]
  /\ \A l \in Sold :
       LET sweep == swept[leases[l].holder] IN
       leases[l].revokedAt = NoValue /\ sweep # NoValue => sold[l].at + Duration >= sweep

(* Who has a lease that is neither expired nor revoked is asked to pay     *)
(* again only when the lookup of the lease failed.                         *)
ChargedOnlyWhenInactive ==
  \A r \in Readers : readers[r].pc = "charged" =>
    LET l == readers[r].lease IN
    readers[r].failed \/ leases[l].revokedAt # NoValue \/ leases[l].expiresAt <= now

(* A lease is what was paid for: the window, counted from the payment and  *)
(* give or take the time of the request; the amount, which schema.ts calls *)
(* the "USDC amount paid for the window", unless the price moved between   *)
(* the two reads of the purchase; and, before its token is handed out, a   *)
(* payments row of that amount, whichever step of a purchase fails.        *)
LeasedAsPaid ==
  \A l \in Sold :
    LET end == sold[l].at + Length[sold[l].tier] IN
    /\ end <= leases[l].expiresAt /\ leases[l].expiresAt <= end + Duration
    /\ sold[l].moved \/ leases[l].amount = sold[l].price
    /\ l \in known => payments[l] = sold[l].price
=============================================================================
