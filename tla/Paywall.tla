------------------------------- MODULE Paywall --------------------------------
(***************************************************************************)
(* What a buyer is asked to pay for one resource, and whom: the middleware *)
(* dynamicPaywall (server/src/middleware/dynamicPaywall.ts), the cache of  *)
(* on-chain prices it asks (lib/stellarRegistry.ts), its cache of x402     *)
(* payment middlewares, and the delivery handler GET /resources/:id that   *)
(* records the payment (routes/resources.ts).  Nothing here reads the      *)
(* payments table, so a row of it is kept by the request that wrote it.    *)
(*                                                                         *)
(* An action is the code between two awaits; several requests interleave.  *)
(* The row and the chain's record change under them: other handlers, the   *)
(* event listener and the owner write them.  The x402 library is external: *)
(* it accepts a payment of the price and to the account it was built with. *)
(* Both caches are per resource, so one resource is enough.  Requests that *)
(* present a lease are modelled in module Leases.                      *)
(***************************************************************************)
EXTENDS Integers, FiniteSets

CONSTANTS
  Prices, Wallets,
  Buyers,          \* requests that can run at a time
  Ttl,             \* DEFAULT_TTL_MS: how long a fetched price is fresh
  Grace,           \* DEFAULT_STALE_GRACE_MS: how long it may stand in
  MwTtl,           \* CACHE_TTL_MS: how long a payment middleware is kept
  Duration,        \* bound: the clock ticks a request takes
  MaxTime,         \* bound: the last tick
  MaxChanges,      \* bound: writes to the row or the chain's record
  NoValue

ASSUME PaywallAssumption ==
  /\ Ttl \in Nat \ {0} /\ Grace \in Nat /\ MwTtl \in Nat /\ Duration \in Nat
  /\ MaxTime \in Nat /\ MaxChanges \in Nat
  /\ NoValue \notin Prices \cup Wallets

VARIABLES
  now,             \* the clock
  chain,           \* the price the registry holds, NoValue if unregistered
  row,             \* the resource row
  priceCache,      \* the on-chain price cache
  mwCache,         \* the middleware cache, by price
  reqs,            \* the control state of the requests
  changes,         \* how many writes there have been
  priceHeld,       \* history: when the registry last held each price
  walletHeld,      \* history: when the row last held each wallet
  lastChange       \* history: when the row or the record last changed

caches == <<priceCache, mwCache>>
history == <<priceHeld, walletHeld, lastChange>>
world == <<now, chain, row, changes, history>>
vars == <<world, caches, reqs>>

Row == [price : Prices, wallet : Wallets, listed : BOOLEAN, registered : BOOLEAN]

Idle ==
  [pc |-> "idle", row |-> NoValue, since |-> 0, entry |-> NoValue, price |-> NoValue,
   payTo |-> NoValue, receipt |-> NoValue]

Never == -(Ttl + Grace + MwTtl + Duration + 1)

(* A row that is up to date, unless the resource is not on chain at all.   *)
Init ==
  /\ now = 0
  /\ chain \in Prices \cup {NoValue}
  /\ row \in {r \in Row : r.registered <=> chain = r.price}
  /\ priceCache = NoValue
  /\ mwCache = [p \in Prices |-> NoValue]
  /\ reqs = [b \in Buyers |-> Idle]
  /\ changes = 0
  /\ priceHeld = [p \in Prices |-> IF p = chain THEN 0 ELSE Never]
  /\ walletHeld = [w \in Wallets |-> IF w = row.wallet THEN 0 ELSE Never]
  /\ lastChange = Never

----------------------------------------------------------------------------
(* The world around the requests. *)

(* What the other writers of the row make of it: POST price and ownership, *)
(* the event listener, registration and delisting write a column each.     *)
Rewritten ==
  {[row EXCEPT !.price = p] : p \in Prices}
    \cup {[row EXCEPT !.wallet = w] : w \in Wallets}
    \cup {[row EXCEPT !.listed = l] : l \in BOOLEAN}
    \cup {[row EXCEPT !.registered = r] : r \in BOOLEAN}

SyncRow(r) ==
  /\ changes < MaxChanges
  /\ r # row
  /\ row' = r
  /\ changes' = changes + 1
  /\ walletHeld' = [walletHeld EXCEPT ![r.wallet] = now]
  /\ lastChange' = now
  /\ UNCHANGED <<now, chain, priceHeld, caches, reqs>>

(* register or set_price is included. *)
SetPrice(p) ==
  /\ changes < MaxChanges
  /\ p # chain
  /\ chain' = p
  /\ changes' = changes + 1
  /\ priceHeld' = [priceHeld EXCEPT ![p] = now]
  /\ lastChange' = now
  /\ UNCHANGED <<now, row, walletHeld, caches, reqs>>

(* Requests end within Duration ticks. *)
Tick ==
  /\ now < MaxTime
  /\ \A b \in Buyers : reqs[b].pc # "idle" => now < reqs[b].since + Duration
  /\ now' = now + 1
  /\ priceHeld' = [p \in Prices |-> IF p = chain THEN now + 1 ELSE priceHeld[p]]
  /\ walletHeld' = [walletHeld EXCEPT ![row.wallet] = now + 1]
  /\ UNCHANGED <<chain, row, changes, lastChange, caches, reqs>>

----------------------------------------------------------------------------
(* dynamicPaywall *)

(* Read the row; one that is not listed is answered 404. *)
Request(b) ==
  /\ reqs[b].pc = "idle"
  /\ row.listed
  /\ reqs' = [reqs EXCEPT ![b] = [Idle EXCEPT !.pc = "read", !.row = row, !.since = now]]
  /\ UNCHANGED <<world, caches>>

(* What is left of a request that ends here. *)
Ended(b) == reqs' = [reqs EXCEPT ![b] = Idle]

(* Past the check, the final price is the row's unless it is registered.   *)
Agreed(r) ==
  [r EXCEPT !.pc = IF r.row.registered THEN "agreed" ELSE "final",
            !.entry = NoValue, !.price = r.row.price]

(* Faulty variant: the row's price is not compared with the chain's. *)
CompareNothing(b, price) == reqs' = [reqs EXCEPT ![b] = Agreed(reqs[b])]

(* The price mismatch check: a disagreement is answered 409. *)
Compare(b, price) ==
  reqs' = [reqs EXCEPT ![b] =
    IF reqs[b].row.price = price
    THEN Agreed(reqs[b])
    ELSE [reqs[b] EXCEPT !.pc = "refused", !.entry = NoValue, !.price = NoValue]]

Younger(entry, age) == entry # NoValue /\ now - entry.fetchedAt < age

(* getOnChainPrice: a fresh entry answers. *)
Hit(b) ==
  /\ reqs[b].pc = "read"
  /\ Younger(priceCache, Ttl)
  /\ Compare(b, priceCache.price)
  /\ UNCHANGED <<world, caches>>

(* Otherwise the record is fetched; the entry looked up is remembered. *)
Miss(b) ==
  /\ reqs[b].pc = "read"
  /\ ~Younger(priceCache, Ttl)
  /\ reqs' = [reqs EXCEPT ![b].pc = "fetching", ![b].entry = priceCache]
  /\ UNCHANGED <<world, caches>>

(* The RPC reads the contract. *)
Fetch(b) ==
  /\ reqs[b].pc = "fetching"
  /\ chain # NoValue
  /\ reqs' = [reqs EXCEPT ![b].pc = "fetched", ![b].entry = NoValue,
                             ![b].price = chain]
  /\ UNCHANGED <<world, caches>>

(* Its answer is stored, whatever has been stored meanwhile. *)
Store(b) ==
  /\ reqs[b].pc = "fetched"
  /\ priceCache' = [price |-> reqs[b].price, fetchedAt |-> now]
  /\ Compare(b, reqs[b].price)
  /\ UNCHANGED <<world, mwCache>>

(* Faulty variant: an entry of any age stands in for a failed fetch. *)
FetchFailsForever(b) ==
  /\ reqs[b].pc = "fetching"
  /\ IF reqs[b].entry # NoValue THEN Compare(b, reqs[b].entry.price) ELSE Ended(b)
  /\ UNCHANGED <<world, caches>>

(* The fetch fails: the entry stands in within its grace, else 503. *)
FetchFails(b) ==
  /\ reqs[b].pc = "fetching"
  /\ IF Younger(reqs[b].entry, Ttl + Grace) THEN Compare(b, reqs[b].entry.price) ELSE Ended(b)
  /\ UNCHANGED <<world, caches>>

(* There is no record: 503. *)
NotFound(b) ==
  /\ reqs[b].pc = "fetching"
  /\ chain = NoValue
  /\ Ended(b)
  /\ UNCHANGED <<world, caches>>

(* A registered resource is priced once more by a live read, which falls   *)
(* back to the row's price when it fails or finds nothing.                 *)
LiveRead(b) ==
  /\ reqs[b].pc = "agreed"
  /\ \E price \in {chain, reqs[b].row.price} \ {NoValue} :
       reqs' = [reqs EXCEPT ![b].pc = "final", ![b].price = price]
  /\ UNCHANGED <<world, caches>>

(* Faulty variant: a middleware once built is kept. *)
QuoteKept(b) ==
  LET r == reqs[b]
      kept == mwCache[r.price]
      mw == IF kept # NoValue THEN kept ELSE [wallet |-> r.row.wallet, expiresAt |-> now + MwTtl]
  IN
  /\ r.pc = "final"
  /\ mwCache' = [mwCache EXCEPT ![r.price] = mw]
  /\ reqs' = [reqs EXCEPT ![b].pc = "quoted", ![b].payTo = mw.wallet]
  /\ UNCHANGED <<world, priceCache>>

(* Take the middleware kept for this price, or build and keep one that     *)
(* pays the wallet of the row as this request read it.                     *)
Quote(b) ==
  LET r == reqs[b]
      kept == mwCache[r.price]
      mw == IF kept # NoValue /\ kept.expiresAt > now
            THEN kept ELSE [wallet |-> r.row.wallet, expiresAt |-> now + MwTtl]
  IN
  /\ r.pc = "final"
  /\ mwCache' = [mwCache EXCEPT ![r.price] = mw]
  /\ reqs' = [reqs EXCEPT ![b].pc = "quoted", ![b].payTo = mw.wallet]
  /\ UNCHANGED <<world, priceCache>>

(* The reply: 402 without a payment that fits, 409, or the resource. *)
Answer(b) ==
  /\ reqs[b].pc \in {"quoted", "refused", "delivered"}
  /\ Ended(b)
  /\ UNCHANGED <<world, caches>>

(* The middleware accepts a payment and runs the handler. *)
Accept(b) ==
  /\ reqs[b].pc = "quoted"
  /\ reqs' = [reqs EXCEPT ![b].pc = "paid"]
  /\ UNCHANGED <<world, caches>>

(* GET /resources/:id: the payments row, and the resource with a receipt.  *)
(* The row says what the request read, not what the middleware charged.    *)
Deliver(b) ==
  /\ reqs[b].pc = "paid"
  /\ reqs' = [reqs EXCEPT ![b].pc = "delivered",
       ![b].receipt = [amount |-> reqs[b].row.price, recipient |-> reqs[b].row.wallet]]
  /\ UNCHANGED <<world, caches>>

(* The insert throws: the buyer has paid and gets nothing. *)
DeliveryFails(b) ==
  /\ reqs[b].pc = "paid"
  /\ Ended(b)
  /\ UNCHANGED <<world, caches>>

RequestStep(b) ==
  \/ Request(b)
  \/ Hit(b)
  \/ Miss(b)
  \/ Fetch(b)
  \/ Store(b)
  \/ FetchFails(b)
  \/ NotFound(b)
  \/ LiveRead(b)
  \/ Quote(b)
  \/ Answer(b)
  \/ Accept(b)
  \/ Deliver(b)
  \/ DeliveryFails(b)

Next ==
  \/ \E b \in Buyers : RequestStep(b)
  \/ \E r \in Rewritten : SyncRow(r)
  \/ \E p \in Prices : SetPrice(p)
  \/ Tick

Spec == Init /\ [][Next]_vars

----------------------------------------------------------------------------
(* Properties. *)

Entry == [price : Prices, fetchedAt : Nat]
Middleware == [wallet : Wallets, expiresAt : Nat]
Receipt == [amount : Prices, recipient : Wallets]

RequestType ==
  [pc : {"idle", "read", "refused", "fetching", "fetched", "agreed", "final", "quoted",
         "paid", "delivered"},
   row : Row \cup {NoValue}, since : Nat, entry : Entry \cup {NoValue},
   price : Prices \cup {NoValue}, payTo : Wallets \cup {NoValue},
   receipt : Receipt \cup {NoValue}]

(* Requests, caches and records are well typed, and nothing in a cache     *)
(* dates from the future.                                                  *)
TypeOK ==
  /\ now \in 0 .. MaxTime
  /\ chain \in Prices \cup {NoValue}
  /\ row \in Row
  /\ changes \in 0 .. MaxChanges
  /\ priceCache \in Entry \cup {NoValue}
  /\ mwCache \in [Prices -> Middleware \cup {NoValue}]
  /\ reqs \in [Buyers -> RequestType]
  /\ priceCache # NoValue => priceCache.fetchedAt <= now
  /\ \A p \in Prices : mwCache[p] # NoValue => mwCache[p].expiresAt <= now + MwTtl

Quoted == {b \in Buyers : reqs[b].pc = "quoted"}

(* No buyer is asked for a price the registry has not held within the      *)
(* freshness of the cache and its grace before the request, give or take   *)
(* the time a fetch takes: the stale-on-error fallback is bounded, however *)
(* fetches, failures and changes of price interleave.                      *)
ChargedPriceIsRecent ==
  \A b \in Quoted : priceHeld[reqs[b].price] > reqs[b].since - (Ttl + Grace + Duration)

(* After a change of owner the former one is paid for no longer than the   *)
(* middleware cache keeps, give or take the time of the request that       *)
(* filled it.                                                              *)
PaidToRecentWallet ==
  \A b \in Quoted : walletHeld[reqs[b].payTo] >= reqs[b].since - (MwTtl + Duration)

Calm(b, age) == lastChange < reqs[b].since - age

(* Unless price or owner changed shortly before, the receipt and the       *)
(* payments row say what was charged and who was paid, and a mismatch is   *)
(* reported only where row and registry disagree: no cached price shuts a  *)
(* resource off for longer than its freshness and grace.                   *)
ReceiptsTrueWhenCalm ==
  \A b \in Buyers :
    /\ reqs[b].pc = "delivered" =>
         /\ Calm(b, Ttl + Grace + Duration) => reqs[b].receipt.amount = reqs[b].price
         /\ Calm(b, MwTtl + Duration) => reqs[b].receipt.recipient = reqs[b].payTo
    /\ reqs[b].pc = "refused" /\ Calm(b, Ttl + Grace + Duration) => row.price # chain

=============================================================================
