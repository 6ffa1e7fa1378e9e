---------------------------- MODULE PaywallProofs -----------------------------
(***************************************************************************)
(* Proofs about the paywall, for any number of concurrent requests, any    *)
(* lifetimes of the caches and any prices and wallets: what a buyer is     *)
(* asked for, and whom it pays, is never older than the caches allow.      *)
(***************************************************************************)
EXTENDS Paywall, TLAPS

(* The histories tell when something last held, so never more than now. *)
HistoryInv ==
  /\ priceHeld \in [Prices -> Int] /\ walletHeld \in [Wallets -> Int]
  /\ \A p \in Prices : priceHeld[p] <= now /\ (p = chain => priceHeld[p] = now)
  /\ \A w \in Wallets : walletHeld[w] <= now /\ (w = row.wallet => walletHeld[w] = now)

(* A cached price was held when its fetch began, a cached wallet when the  *)
(* request that cached it began.                                           *)
CacheInv ==
  /\ priceCache # NoValue =>
       priceHeld[priceCache.price] >= priceCache.fetchedAt - Duration
  /\ \A p \in Prices : mwCache[p] # NoValue =>
       walletHeld[mwCache[p].wallet] >= mwCache[p].expiresAt - (MwTtl + Duration)

Past == {"agreed", "final", "quoted", "paid", "delivered"}
Priced == {"quoted", "paid", "delivered"}

(* What a request has read, fetched, agreed on and quoted is as old as its *)
(* state says.                                                             *)
RequestOK(r) ==
  r.pc # "idle" =>
    /\ r.row \in Row
    /\ r.since <= now /\ now <= r.since + Duration
    /\ walletHeld[r.row.wallet] >= r.since
    /\ r.pc = "fetching" /\ r.entry # NoValue =>
         priceHeld[r.entry.price] >= r.entry.fetchedAt - Duration
    /\ r.pc = "fetched" => r.price \in Prices /\ priceHeld[r.price] >= r.since
    /\ r.pc = "agreed" => r.price = r.row.price
    /\ r.pc \in Past =>
         /\ r.price \in Prices
         /\ priceHeld[r.price] > r.since - (Ttl + Grace + Duration)
    /\ r.pc \in Priced =>
         /\ r.payTo \in Wallets
         /\ walletHeld[r.payTo] >= r.since - (MwTtl + Duration)

RequestInv == \A b \in Buyers : RequestOK(reqs[b])

IInv == TypeOK /\ HistoryInv /\ CacheInv /\ RequestInv

----------------------------------------------------------------------------
(* A step of one request that leaves the world alone leaves the other      *)
(* requests as they are, and the caches' bounds depend on the world only.  *)
LEMMA OneRequest ==
  ASSUME IInv, UNCHANGED world, NEW b \in Buyers, NEW r \in RequestType, RequestOK(r),
         reqs' = [reqs EXCEPT ![b] = r]
  PROVE  /\ reqs' \in [Buyers -> RequestType]
         /\ HistoryInv'
         /\ RequestInv'
<1>1. reqs' \in [Buyers -> RequestType] /\ \A c \in Buyers : reqs'[c] = IF c = b THEN r ELSE reqs[c]
  BY DEF IInv, TypeOK
<1>2. HistoryInv'
  BY DEF IInv, HistoryInv, world, history
<1>3. RequestInv'
  BY <1>1 DEF IInv, RequestInv, RequestOK, world, history
<1>4. QED
  BY <1>1, <1>2, <1>3

(* The same when the caches stay, too. *)
LEMMA OneRequestOnly ==
  ASSUME IInv, UNCHANGED <<world, caches>>, NEW b \in Buyers, NEW r \in RequestType,
         RequestOK(r), reqs' = [reqs EXCEPT ![b] = r]
  PROVE  IInv'
<1>1. reqs' \in [Buyers -> RequestType] /\ HistoryInv' /\ RequestInv'
  BY OneRequest DEF world, caches
<1>2. TypeOK' /\ CacheInv'
  BY <1>1 DEF IInv, TypeOK, CacheInv, world, caches, history
<1>3. QED
  BY <1>1, <1>2 DEF IInv

(* What a request becomes when it passes the mismatch check.               *)
LEMMA AgreedOK ==
  ASSUME IInv, NEW b \in Buyers, reqs[b].pc # "idle",
         priceHeld[reqs[b].row.price] > reqs[b].since - (Ttl + Grace + Duration)
  PROVE  Agreed(reqs[b]) \in RequestType /\ RequestOK(Agreed(reqs[b]))
<1> DEFINE r == reqs[b]
           s == Agreed(r)
<1>1. r \in RequestType /\ RequestOK(r) /\ r.row \in Row
  BY DEF IInv, TypeOK, RequestInv, RequestOK
<1>2. /\ s.pc \in {"agreed", "final"} /\ s.row = r.row /\ s.since = r.since
      /\ s.price = r.row.price /\ r.row.price \in Prices /\ s.entry = NoValue
      /\ s.payTo = r.payTo /\ s.receipt = r.receipt /\ s \in RequestType
  BY <1>1 DEF Agreed, RequestType, Row
<1>3. RequestOK(s)
  BY <1>1, <1>2 DEF RequestOK, Past, Priced
<1>4. QED
  BY <1>2, <1>3

(* Compare, called with a price the registry has held recently, leaves a   *)
(* request in order.                                                       *)
LEMMA CompareOK ==
  ASSUME IInv, NEW b \in Buyers, reqs[b].pc # "idle", NEW price \in Prices,
         priceHeld[price] > reqs[b].since - (Ttl + Grace + Duration), Compare(b, price)
  PROVE  \E r \in RequestType : RequestOK(r) /\ reqs' = [reqs EXCEPT ![b] = r]
<1>1. CASE reqs[b].row.price = price
  BY <1>1, AgreedOK DEF Compare
<1>2. CASE reqs[b].row.price # price
  <2> DEFINE s == [reqs[b] EXCEPT !.pc = "refused", !.entry = NoValue, !.price = NoValue]
  <2>1. reqs[b] \in RequestType /\ RequestOK(reqs[b])
    BY DEF IInv, TypeOK, RequestInv
  <2>2. s \in RequestType /\ s.pc = "refused" /\ s.row = reqs[b].row /\ s.since = reqs[b].since
    BY <2>1 DEF RequestType
  <2>3. RequestOK(s)
    BY <2>1, <2>2 DEF RequestOK, Past, Priced
  <2>4. reqs' = [reqs EXCEPT ![b] = s]
    BY <1>2 DEF Compare
  <2>5. QED
    BY <2>2, <2>3, <2>4
<1>3. QED
  BY <1>1, <1>2

LEMMA IdleOK == Idle \in RequestType /\ RequestOK(Idle)
  BY DEF Idle, RequestType, RequestOK

----------------------------------------------------------------------------
(* Each step of a request keeps the invariant. *)

LEMMA RequestKeeps ==
  ASSUME IInv, NEW b \in Buyers, Request(b)
  PROVE  IInv'
<1> USE PaywallAssumption
<1> DEFINE r == [Idle EXCEPT !.pc = "read", !.row = row, !.since = now]
<1>1. r \in RequestType /\ r.pc = "read" /\ r.row = row /\ r.since = now
  <2>1. row \in Row /\ now \in Nat
    BY DEF IInv, TypeOK
  <2>2. QED
    BY <2>1, IdleOK DEF RequestType
<1>2. RequestOK(r)
  BY <1>1 DEF IInv, TypeOK, HistoryInv, RequestOK, Row, Past, Priced
<1>3. QED
  BY <1>1, <1>2, OneRequestOnly DEF Request

LEMMA HitKeeps ==
  ASSUME IInv, NEW b \in Buyers, Hit(b)
  PROVE  IInv'
<1> USE PaywallAssumption
<1>1. priceCache \in Entry /\ now - priceCache.fetchedAt < Ttl /\ reqs[b].pc # "idle"
  BY DEF IInv, TypeOK, Hit, Younger
<1>2. priceCache.price \in Prices /\ priceCache.fetchedAt \in Nat
      /\ priceHeld[priceCache.price] \in Int /\ now \in Nat
  BY <1>1 DEF IInv, TypeOK, HistoryInv, Entry
<1>3. priceHeld[priceCache.price] >= priceCache.fetchedAt - Duration
  BY DEF IInv, CacheInv, Hit, Younger
<1>4. reqs[b].since \in Nat /\ reqs[b].since <= now
  BY <1>1 DEF IInv, TypeOK, RequestType, RequestInv, RequestOK
<1>5. priceHeld[priceCache.price] > reqs[b].since - (Ttl + Grace + Duration)
  BY <1>1, <1>2, <1>3, <1>4
<1>6. QED
  BY <1>1, <1>2, <1>5, CompareOK, OneRequestOnly DEF Hit

LEMMA MissKeeps ==
  ASSUME IInv, NEW b \in Buyers, Miss(b)
  PROVE  IInv'
<1> USE PaywallAssumption
<1> DEFINE r == [reqs[b] EXCEPT !.pc = "fetching", !.entry = priceCache]
<1>1. reqs[b] \in RequestType /\ RequestOK(reqs[b]) /\ reqs[b].pc # "idle"
  BY DEF IInv, TypeOK, RequestInv, Miss
<1>2. r \in RequestType /\ r.pc = "fetching" /\ r.row = reqs[b].row /\ r.since = reqs[b].since
      /\ r.entry = priceCache
  BY <1>1 DEF IInv, TypeOK, RequestType
<1>3. RequestOK(r)
  BY <1>1, <1>2 DEF IInv, CacheInv, RequestOK, Past, Priced
<1>4. reqs' = [reqs EXCEPT ![b] = r]
  BY DEF IInv, TypeOK, Miss
<1>5. QED
  BY <1>2, <1>3, <1>4, OneRequestOnly DEF Miss

LEMMA FetchKeeps ==
  ASSUME IInv, NEW b \in Buyers, Fetch(b)
  PROVE  IInv'
<1> USE PaywallAssumption
<1> DEFINE r == [reqs[b] EXCEPT !.pc = "fetched", !.entry = NoValue, !.price = chain]
<1>1. reqs[b] \in RequestType /\ RequestOK(reqs[b]) /\ reqs[b].pc # "idle" /\ chain \in Prices
  BY DEF IInv, TypeOK, RequestInv, Fetch
<1>2. r \in RequestType /\ r.pc = "fetched" /\ r.row = reqs[b].row /\ r.since = reqs[b].since
      /\ r.price = chain
  BY <1>1 DEF RequestType
<1>3. RequestOK(r)
  BY <1>1, <1>2 DEF IInv, HistoryInv, RequestOK, Past, Priced
<1>4. reqs' = [reqs EXCEPT ![b] = r]
  BY DEF IInv, TypeOK, Fetch
<1>5. QED
  BY <1>2, <1>3, <1>4, OneRequestOnly DEF Fetch

LEMMA StoreKeeps ==
  ASSUME IInv, NEW b \in Buyers, Store(b)
  PROVE  IInv'
<1> USE PaywallAssumption
<1>1. /\ reqs[b].price \in Prices /\ priceHeld[reqs[b].price] >= reqs[b].since
      /\ reqs[b].since \in Nat /\ now \in Nat /\ now <= reqs[b].since + Duration
      /\ priceHeld[reqs[b].price] \in Int
  BY DEF IInv, TypeOK, RequestType, HistoryInv, RequestInv, RequestOK, Store
<1>2. priceHeld[reqs[b].price] > reqs[b].since - (Ttl + Grace + Duration)
  BY <1>1
<1>3. PICK r \in RequestType : RequestOK(r) /\ reqs' = [reqs EXCEPT ![b] = r]
  BY <1>1, <1>2, CompareOK DEF Store
<1>4. reqs' \in [Buyers -> RequestType] /\ HistoryInv' /\ RequestInv'
  BY <1>3, OneRequest DEF Store
<1>5. TypeOK'
  BY <1>1, <1>4 DEF IInv, TypeOK, Store, world, history, Entry
<1>6. priceHeld[reqs[b].price] >= now - Duration
  BY <1>1
<1>7. CacheInv'
  BY <1>1, <1>6 DEF IInv, CacheInv, Store, world, history
<1>8. QED
  BY <1>4, <1>5, <1>7 DEF IInv

LEMMA FetchFailsKeeps ==
  ASSUME IInv, NEW b \in Buyers, FetchFails(b)
  PROVE  IInv'
<1> USE PaywallAssumption
<1>1. CASE Younger(reqs[b].entry, Ttl + Grace)
  <2> DEFINE e == reqs[b].entry
  <2>1. e \in Entry /\ now - e.fetchedAt < Ttl + Grace /\ reqs[b].pc # "idle"
    BY <1>1 DEF IInv, TypeOK, RequestType, FetchFails, Younger
  <2>2. e.price \in Prices /\ e.fetchedAt \in Nat /\ priceHeld[e.price] \in Int /\ now \in Nat
    BY <2>1 DEF IInv, TypeOK, HistoryInv, Entry
  <2>3. /\ priceHeld[e.price] >= e.fetchedAt - Duration
        /\ reqs[b].since \in Nat /\ reqs[b].since <= now
    BY <1>1 DEF IInv, TypeOK, RequestType, RequestInv, RequestOK, FetchFails, Younger
  <2>4. priceHeld[e.price] > reqs[b].since - (Ttl + Grace + Duration)
    BY <2>1, <2>2, <2>3
  <2>5. QED
    BY <1>1, <2>1, <2>2, <2>4, CompareOK, OneRequestOnly DEF FetchFails
<1>2. CASE ~Younger(reqs[b].entry, Ttl + Grace)
  BY <1>2, IdleOK, OneRequestOnly DEF FetchFails, Ended
<1>3. QED
  BY <1>1, <1>2

LEMMA EndedKeeps ==
  ASSUME IInv, NEW b \in Buyers, NotFound(b) \/ Answer(b) \/ DeliveryFails(b)
  PROVE  IInv'
BY IdleOK, OneRequestOnly DEF NotFound, Answer, DeliveryFails, Ended

LEMMA LiveReadKeeps ==
  ASSUME IInv, NEW b \in Buyers, LiveRead(b)
  PROVE  IInv'
<1> USE PaywallAssumption
<1>1. PICK price \in {chain, reqs[b].row.price} \ {NoValue} :
        reqs' = [reqs EXCEPT ![b].pc = "final", ![b].price = price]
  BY DEF LiveRead
<1> DEFINE r == [reqs[b] EXCEPT !.pc = "final", !.price = price]
<1>2. /\ reqs[b] \in RequestType /\ RequestOK(reqs[b]) /\ reqs[b].pc = "agreed"
      /\ reqs[b].price = reqs[b].row.price
  BY DEF IInv, TypeOK, RequestInv, RequestOK, LiveRead
<1>3. price \in Prices
  BY <1>1, <1>2 DEF IInv, TypeOK, RequestOK, Row
<1>4. r \in RequestType /\ r.pc = "final" /\ r.row = reqs[b].row /\ r.since = reqs[b].since
      /\ r.price = price
  BY <1>2, <1>3 DEF RequestType
<1>5. reqs[b].since \in Nat /\ now \in Nat /\ reqs[b].since <= now
  BY <1>2 DEF IInv, TypeOK, RequestType, RequestOK
<1>6. priceHeld[price] > reqs[b].since - (Ttl + Grace + Duration)
  <2>1. CASE price = chain
    BY <1>3, <1>5, <2>1 DEF IInv, HistoryInv
  <2>2. CASE price = reqs[b].row.price
    BY <1>2, <2>2 DEF RequestOK, Past
  <2>3. QED
    BY <1>1, <2>1, <2>2
<1>7. RequestOK(r)
  BY <1>2, <1>3, <1>4, <1>6 DEF RequestOK, Past, Priced
<1>8. reqs' = [reqs EXCEPT ![b] = r]
  BY <1>1 DEF IInv, TypeOK
<1>9. QED
  BY <1>4, <1>7, <1>8, OneRequestOnly DEF LiveRead

LEMMA QuoteKeeps ==
  ASSUME IInv, NEW b \in Buyers, Quote(b)
  PROVE  IInv'
<1> USE PaywallAssumption
<1> DEFINE r == reqs[b]
           kept == mwCache[r.price]
           built == [wallet |-> r.row.wallet, expiresAt |-> now + MwTtl]
           mw == IF kept # NoValue /\ kept.expiresAt > now THEN kept ELSE built
           s == [r EXCEPT !.pc = "quoted", !.payTo = mw.wallet]
<1>1. /\ r \in RequestType /\ RequestOK(r) /\ r.pc = "final" /\ r.row \in Row
      /\ r.price \in Prices /\ r.since \in Nat /\ now \in Nat
      /\ r.since <= now /\ now <= r.since + Duration
  BY DEF IInv, TypeOK, RequestInv, RequestOK, RequestType, Quote, Past
<1>2. r.row.wallet \in Wallets /\ walletHeld[r.row.wallet] >= r.since
      /\ walletHeld[r.row.wallet] \in Int
  BY <1>1 DEF IInv, HistoryInv, RequestOK, Row
<1>3. built \in Middleware
  BY <1>1, <1>2 DEF Middleware
<1>4. mw \in Middleware /\ mw.expiresAt <= now + MwTtl
      /\ mw.expiresAt >= now /\ walletHeld[mw.wallet] >= mw.expiresAt - (MwTtl + Duration)
  <2>1. CASE kept # NoValue /\ kept.expiresAt > now
    <3>1. kept \in Middleware /\ mw = kept
      BY <1>1, <2>1 DEF IInv, TypeOK
    <3>2. kept.expiresAt <= now + MwTtl
          /\ walletHeld[kept.wallet] >= kept.expiresAt - (MwTtl + Duration)
      BY <1>1, <2>1 DEF IInv, TypeOK, CacheInv
    <3>3. kept.expiresAt \in Nat
      BY <3>1 DEF Middleware
    <3>4. QED
      BY <1>1, <2>1, <3>1, <3>2, <3>3
  <2>2. CASE ~(kept # NoValue /\ kept.expiresAt > now)
    <3>1. mw = built /\ mw.wallet = r.row.wallet /\ mw.expiresAt = now + MwTtl
      BY <2>2
    <3>2. walletHeld[r.row.wallet] >= now + MwTtl - (MwTtl + Duration)
      BY <1>1, <1>2
    <3>3. QED
      BY <1>1, <1>3, <3>1, <3>2
  <2>3. QED
    BY <2>1, <2>2
<1>5. /\ s \in RequestType /\ s.pc = "quoted" /\ s.row = r.row /\ s.since = r.since
      /\ s.price = r.price /\ s.payTo = mw.wallet
  BY <1>1, <1>4 DEF RequestType, Middleware
<1>6. mw.wallet \in Wallets /\ walletHeld[mw.wallet] \in Int /\ mw.expiresAt \in Nat
  BY <1>4 DEF IInv, HistoryInv, Middleware
<1>7. walletHeld[mw.wallet] >= r.since - (MwTtl + Duration)
  BY <1>1, <1>4, <1>6
<1>8. RequestOK(s)
  BY <1>1, <1>5, <1>6, <1>7 DEF RequestOK, Past, Priced
<1>9. reqs' = [reqs EXCEPT ![b] = s] /\ mwCache' = [mwCache EXCEPT ![r.price] = mw]
      /\ UNCHANGED world /\ priceCache' = priceCache
  BY <1>1 DEF IInv, TypeOK, Quote
<1>10. reqs' \in [Buyers -> RequestType] /\ HistoryInv' /\ RequestInv'
  BY <1>5, <1>8, <1>9, OneRequest
<1>11. mwCache' \in [Prices -> Middleware \cup {NoValue}]
       /\ \A p \in Prices : mwCache'[p] = IF p = r.price THEN mw ELSE mwCache[p]
  BY <1>1, <1>4, <1>9 DEF IInv, TypeOK
<1>12. TypeOK'
  BY <1>4, <1>9, <1>10, <1>11 DEF IInv, TypeOK, world, history
<1>13. CacheInv'
  BY <1>4, <1>9, <1>11 DEF IInv, CacheInv, world, history
<1>14. QED
  BY <1>10, <1>12, <1>13 DEF IInv

LEMMA AcceptKeeps ==
  ASSUME IInv, NEW b \in Buyers, Accept(b)
  PROVE  IInv'
<1> DEFINE r == [reqs[b] EXCEPT !.pc = "paid"]
<1>1. reqs[b] \in RequestType /\ RequestOK(reqs[b]) /\ reqs[b].pc = "quoted"
  BY DEF IInv, TypeOK, RequestInv, Accept
<1>2. /\ r \in RequestType /\ r.pc = "paid" /\ r.row = reqs[b].row /\ r.since = reqs[b].since
      /\ r.price = reqs[b].price /\ r.payTo = reqs[b].payTo
  BY <1>1 DEF RequestType
<1>3. RequestOK(r)
  BY <1>1, <1>2 DEF RequestOK, Past, Priced
<1>4. QED
  BY <1>2, <1>3, OneRequestOnly DEF Accept

LEMMA DeliverKeeps ==
  ASSUME IInv, NEW b \in Buyers, Deliver(b)
  PROVE  IInv'
<1> DEFINE receipt == [amount |-> reqs[b].row.price, recipient |-> reqs[b].row.wallet]
           r == [reqs[b] EXCEPT !.pc = "delivered", !.receipt = receipt]
<1>1. /\ reqs[b] \in RequestType /\ RequestOK(reqs[b]) /\ reqs[b].pc = "paid"
      /\ reqs[b].row \in Row
  BY DEF IInv, TypeOK, RequestInv, RequestOK, Deliver
<1>2. receipt \in Receipt
  BY <1>1 DEF Receipt, Row
<1>3. /\ r \in RequestType /\ r.pc = "delivered" /\ r.row = reqs[b].row
      /\ r.since = reqs[b].since /\ r.price = reqs[b].price /\ r.payTo = reqs[b].payTo
  BY <1>1, <1>2 DEF RequestType
<1>4. RequestOK(r)
  BY <1>1, <1>3 DEF RequestOK, Past, Priced
<1>5. reqs' = [reqs EXCEPT ![b] = r]
  BY DEF IInv, TypeOK, Deliver
<1>6. QED
  BY <1>3, <1>4, <1>5, OneRequestOnly DEF Deliver

----------------------------------------------------------------------------
(* What happens around the requests only makes the histories later.        *)
LEMMA LaterKeeps ==
  ASSUME IInv, UNCHANGED <<caches, reqs>>, TypeOK', HistoryInv',
         \A p \in Prices : priceHeld'[p] >= priceHeld[p],
         \A w \in Wallets : walletHeld'[w] >= walletHeld[w],
         now <= now',
         \A b \in Buyers : reqs[b].pc # "idle" => now' <= reqs[b].since + Duration
  PROVE  IInv'
<1> USE PaywallAssumption
<1>1. now \in Nat /\ now' \in Nat
  BY DEF IInv, TypeOK
<1>2. \A p \in Prices : priceHeld[p] \in Int /\ priceHeld'[p] \in Int
  BY DEF IInv, HistoryInv
<1>3. \A w \in Wallets : walletHeld[w] \in Int /\ walletHeld'[w] \in Int
  BY DEF IInv, HistoryInv
<1>4. CacheInv'
  <2>1. ASSUME priceCache # NoValue
        PROVE  priceHeld'[priceCache.price] >= priceCache.fetchedAt - Duration
    <3>1. priceCache.price \in Prices /\ priceCache.fetchedAt \in Nat
      BY <2>1 DEF IInv, TypeOK, Entry
    <3>2. QED
      BY <1>2, <2>1, <3>1 DEF IInv, CacheInv
  <2>2. ASSUME NEW p \in Prices, mwCache[p] # NoValue
        PROVE  walletHeld'[mwCache[p].wallet] >= mwCache[p].expiresAt - (MwTtl + Duration)
    <3>1. mwCache[p].wallet \in Wallets /\ mwCache[p].expiresAt \in Nat
      BY <2>2 DEF IInv, TypeOK, Middleware
    <3>2. QED
      BY <1>3, <2>2, <3>1 DEF IInv, CacheInv
  <2>3. QED
    BY <2>1, <2>2 DEF CacheInv, caches
<1>5. RequestInv'
  <2>1. SUFFICES ASSUME NEW b \in Buyers, reqs[b].pc # "idle"
                 PROVE  RequestOK(reqs[b])'
    BY DEF RequestInv, RequestOK
  <2> DEFINE r == reqs[b]
  <2>2. r \in RequestType /\ RequestOK(r) /\ r.row \in Row /\ r.since \in Nat
    BY <2>1 DEF IInv, TypeOK, RequestInv, RequestOK, RequestType
  <2>3. r.since <= now' /\ now' <= r.since + Duration
    BY <1>1, <2>1, <2>2 DEF RequestOK
  <2>4. walletHeld'[r.row.wallet] >= r.since
    BY <1>3, <2>1, <2>2 DEF RequestOK, Row
  <2>5. r.pc = "fetching" /\ r.entry # NoValue =>
          priceHeld'[r.entry.price] >= r.entry.fetchedAt - Duration
    <3>1. r.entry # NoValue => r.entry.price \in Prices /\ r.entry.fetchedAt \in Nat
      BY <2>2 DEF RequestType, Entry
    <3>2. QED
      BY <1>2, <2>1, <2>2, <3>1 DEF RequestOK
  <2>6. r.pc = "fetched" => r.price \in Prices /\ priceHeld'[r.price] >= r.since
    BY <1>2, <2>1, <2>2 DEF RequestOK
  <2>7. r.pc \in Past => /\ r.price \in Prices
                         /\ priceHeld'[r.price] > r.since - (Ttl + Grace + Duration)
    BY <1>2, <2>1, <2>2 DEF RequestOK
  <2>8. r.pc \in Priced => /\ r.payTo \in Wallets
                           /\ walletHeld'[r.payTo] >= r.since - (MwTtl + Duration)
    BY <1>3, <2>1, <2>2 DEF RequestOK
  <2>9. r.pc = "agreed" => r.price = r.row.price
    BY <2>1, <2>2 DEF RequestOK
  <2>10. reqs' = reqs
    OBVIOUS
  <2>11. QED
    BY <2>2, <2>3, <2>4, <2>5, <2>6, <2>7, <2>8, <2>9, <2>10 DEF RequestOK
<1>6. QED
  BY <1>4, <1>5 DEF IInv

LEMMA SyncRowKeeps ==
  ASSUME IInv, NEW r \in Rewritten, SyncRow(r)
  PROVE  IInv'
<1> USE PaywallAssumption
<1>1. r \in Row /\ row' = r /\ r.wallet \in Wallets
  BY DEF IInv, TypeOK, Rewritten, Row, SyncRow
<1>2. TypeOK'
  BY <1>1 DEF IInv, TypeOK, SyncRow, caches
<1>3. HistoryInv' /\ \A w \in Wallets : walletHeld'[w] >= walletHeld[w]
  BY <1>1 DEF IInv, TypeOK, HistoryInv, SyncRow
<1>4. \A b \in Buyers : reqs[b].pc # "idle" => now <= reqs[b].since + Duration
  BY DEF IInv, RequestInv, RequestOK
<1>5. \A p \in Prices : priceHeld'[p] >= priceHeld[p]
  BY DEF IInv, HistoryInv, SyncRow
<1>6. now' = now /\ now <= now'
  BY DEF IInv, TypeOK, SyncRow
<1>7. QED
  BY <1>2, <1>3, <1>4, <1>5, <1>6, LaterKeeps DEF SyncRow

LEMMA SetPriceKeeps ==
  ASSUME IInv, NEW price \in Prices, SetPrice(price)
  PROVE  IInv'
<1> USE PaywallAssumption
<1>1. TypeOK'
  BY DEF IInv, TypeOK, SetPrice, caches
<1>2. HistoryInv' /\ \A p \in Prices : priceHeld'[p] >= priceHeld[p]
  BY DEF IInv, TypeOK, HistoryInv, SetPrice
<1>3. \A b \in Buyers : reqs[b].pc # "idle" => now <= reqs[b].since + Duration
  BY DEF IInv, RequestInv, RequestOK
<1>4. \A w \in Wallets : walletHeld'[w] >= walletHeld[w]
  BY DEF IInv, HistoryInv, SetPrice
<1>5. now' = now /\ now <= now'
  BY DEF IInv, TypeOK, SetPrice
<1>6. QED
  BY <1>1, <1>2, <1>3, <1>4, <1>5, LaterKeeps DEF SetPrice

LEMMA TickKeeps ==
  ASSUME IInv, Tick
  PROVE  IInv'
<1> USE PaywallAssumption
<1>1. now \in Nat /\ now' = now + 1 /\ now' \in 0 .. MaxTime
  BY DEF IInv, TypeOK, Tick
<1>2. TypeOK'
  <2>1. priceCache # NoValue => priceCache.fetchedAt <= now'
    BY <1>1 DEF IInv, TypeOK, Entry
  <2>2. \A p \in Prices : mwCache[p] # NoValue => mwCache[p].expiresAt <= now' + MwTtl
    BY <1>1 DEF IInv, TypeOK, Middleware
  <2>3. QED
    BY <1>1, <2>1, <2>2 DEF IInv, TypeOK, Tick, caches
<1>3. \A p \in Prices : priceHeld'[p] = IF p = chain THEN now' ELSE priceHeld[p]
  BY <1>1 DEF Tick
<1>4. row.wallet \in Wallets
      /\ \A w \in Wallets : walletHeld'[w] = IF w = row.wallet THEN now' ELSE walletHeld[w]
  BY <1>1 DEF IInv, TypeOK, HistoryInv, Row, Tick
<1>5. HistoryInv'
  <2>1. priceHeld' \in [Prices -> Int] /\ walletHeld' \in [Wallets -> Int]
    <3>1. priceHeld' = [p \in Prices |-> IF p = chain THEN now + 1 ELSE priceHeld[p]]
      BY DEF Tick
    <3>2. walletHeld' = [walletHeld EXCEPT ![row.wallet] = now + 1]
      BY DEF Tick
    <3>3. now + 1 \in Int /\ priceHeld \in [Prices -> Int] /\ walletHeld \in [Wallets -> Int]
      BY <1>1 DEF IInv, HistoryInv
    <3>4. priceHeld' \in [Prices -> Int]
      BY <3>1, <3>3
    <3>5. walletHeld' \in [Wallets -> Int]
      BY <3>2, <3>3
    <3>6. QED
      BY <3>4, <3>5
  <2>2. QED
    BY <1>1, <1>3, <1>4, <2>1 DEF IInv, HistoryInv, Tick
<1>6. \A p \in Prices : priceHeld'[p] >= priceHeld[p]
  BY <1>1, <1>3 DEF IInv, HistoryInv
<1>7. \A w \in Wallets : walletHeld'[w] >= walletHeld[w]
  BY <1>1, <1>4 DEF IInv, HistoryInv
<1>8. \A b \in Buyers : reqs[b].pc # "idle" => now' <= reqs[b].since + Duration
  BY <1>1 DEF IInv, TypeOK, RequestType, Tick
<1>9. QED
  BY <1>1, <1>2, <1>5, <1>6, <1>7, <1>8, LaterKeeps DEF Tick

----------------------------------------------------------------------------
(* The results. *)

LEMMA Inductive == Spec => []IInv
<1> USE PaywallAssumption
<1>1. ASSUME Init PROVE IInv
  <2>1. row \in Row /\ row.wallet \in Wallets /\ Never \in Int /\ Never <= 0
    BY <1>1 DEF Init, Row, Never
  <2>2. \A b \in Buyers : reqs[b] = Idle
    BY <1>1 DEF Init
  <2>3. TypeOK
    BY <1>1, <2>1, IdleOK DEF Init, TypeOK
  <2>4. HistoryInv
    BY <1>1, <2>1 DEF Init, HistoryInv
  <2>5. CacheInv /\ RequestInv
    BY <1>1, <2>2, IdleOK DEF Init, CacheInv, RequestInv
  <2>6. QED
    BY <2>3, <2>4, <2>5 DEF IInv
<1>2. ASSUME IInv, [Next]_vars PROVE IInv'
  <2>1. ASSUME NEW b \in Buyers, RequestStep(b) PROVE IInv'
    BY <1>2, <2>1, RequestKeeps, HitKeeps, MissKeeps, FetchKeeps, StoreKeeps,
      FetchFailsKeeps, EndedKeeps, LiveReadKeeps, QuoteKeeps, AcceptKeeps, DeliverKeeps
      DEF RequestStep
  <2>2. CASE UNCHANGED vars
    <3>1. UNCHANGED <<now, chain, row, changes, priceHeld, walletHeld, priceCache, mwCache, reqs>>
      BY <2>2 DEF vars, world, caches, history
    <3>2. QED
      BY <1>2, <3>1 DEF IInv, TypeOK, HistoryInv, CacheInv, RequestInv, RequestOK
  <2>3. QED
    BY <1>2, <2>1, <2>2, SyncRowKeeps, SetPriceKeeps, TickKeeps DEF Next
<1>3. QED
  BY <1>1, <1>2, PTL DEF Spec

(* Requests, caches and the row are well typed, and no cache entry is from *)
(* the future.                                                             *)
THEOREM TypeCorrect == Spec => []TypeOK
<1>1. IInv => TypeOK
  BY DEF IInv
<1>2. QED
  BY <1>1, Inductive, PTL

(* What a buyer is asked to pay is a price the registry held within the    *)
(* cache's freshness and grace and the time of one fetch.                  *)
THEOREM ChargedIsRecent == Spec => []ChargedPriceIsRecent
<1>1. IInv => ChargedPriceIsRecent
  BY DEF IInv, RequestInv, RequestOK, Past, ChargedPriceIsRecent, Quoted
<1>2. QED
  BY <1>1, Inductive, PTL

(* Whom a buyer is asked to pay owned the row within the lifetime of a     *)
(* cached middleware and the time of one request.                          *)
THEOREM PaidToRecent == Spec => []PaidToRecentWallet
<1>1. IInv => PaidToRecentWallet
  BY DEF IInv, RequestInv, RequestOK, Priced, PaidToRecentWallet, Quoted
<1>2. QED
  BY <1>1, Inductive, PTL

----------------------------------------------------------------------------
(* Receipts.  What was read, fetched or cached after the last change is    *)
(* what row and registry still hold.                                       *)

CalmOK(r) ==
  r.pc # "idle" =>
    /\ lastChange < r.since => r.row = row
    /\ r.pc = "fetching" /\ r.entry # NoValue =>
         (lastChange < r.entry.fetchedAt - Duration => r.entry.price = chain)
    /\ r.pc = "fetched" => (lastChange < r.since => r.price = chain)
    /\ lastChange < r.since - (Ttl + Grace + Duration) =>
         /\ r.pc = "agreed" => r.row.price = chain
         /\ r.pc \in Past => r.price = r.row.price
         /\ r.pc = "refused" => r.row.price # chain
    /\ lastChange < r.since - (MwTtl + Duration) =>
         (r.pc \in Priced => r.payTo = r.row.wallet)
    /\ r.pc = "delivered" =>
         r.receipt = [amount |-> r.row.price, recipient |-> r.row.wallet]

CalmInv ==
  /\ lastChange \in Int /\ lastChange <= now
  /\ priceCache # NoValue =>
       (lastChange < priceCache.fetchedAt - Duration => priceCache.price = chain)
  /\ \A p \in Prices : mwCache[p] # NoValue =>
       (lastChange < mwCache[p].expiresAt - (MwTtl + Duration) => mwCache[p].wallet = row.wallet)
  /\ \A b \in Buyers : CalmOK(reqs[b])

LEMMA OneCalmRequest ==
  ASSUME IInv, CalmInv, UNCHANGED <<world, caches>>, NEW b \in Buyers, NEW r, CalmOK(r),
         reqs' = [reqs EXCEPT ![b] = r]
  PROVE  CalmInv'
<1>1. \A c \in Buyers : reqs'[c] = IF c = b THEN r ELSE reqs[c]
  BY DEF IInv, TypeOK
<1>2. UNCHANGED <<now, chain, row, lastChange, priceCache, mwCache>>
  BY DEF world, history, caches
<1>3. QED
  BY <1>1, <1>2 DEF CalmInv, CalmOK

(* A price that was the registry's unless that changed since the fetch     *)
(* before the request is compared with the row's.                          *)
LEMMA CompareCalm ==
  ASSUME IInv, CalmInv, NEW b \in Buyers, reqs[b].pc # "idle", NEW price \in Prices,
         lastChange < reqs[b].since - (Ttl + Grace + Duration) => price = chain,
         Compare(b, price)
  PROVE  \E r : CalmOK(r) /\ reqs' = [reqs EXCEPT ![b] = r]
<1> USE PaywallAssumption
<1>1. reqs[b] \in RequestType /\ CalmOK(reqs[b]) /\ reqs[b].row \in Row /\ reqs[b].since \in Nat
  BY DEF IInv, TypeOK, RequestType, RequestInv, RequestOK, CalmInv
<1>2. lastChange \in Int
  BY DEF CalmInv
<1>3. CASE reqs[b].row.price = price
  <2> DEFINE s == Agreed(reqs[b])
  <2>1. /\ s.pc \in {"agreed", "final"} /\ s.row = reqs[b].row /\ s.since = reqs[b].since
        /\ s.price = reqs[b].row.price
    BY <1>1 DEF Agreed, RequestType
  <2>2. CalmOK(s)
    BY <1>1, <1>2, <1>3, <2>1 DEF CalmOK, Past, Priced
  <2>3. QED
    BY <1>3, <2>2 DEF Compare
<1>4. CASE reqs[b].row.price # price
  <2> DEFINE s == [reqs[b] EXCEPT !.pc = "refused", !.entry = NoValue, !.price = NoValue]
  <2>1. s.pc = "refused" /\ s.row = reqs[b].row /\ s.since = reqs[b].since
    BY <1>1 DEF RequestType
  <2>2. CalmOK(s)
    BY <1>1, <1>2, <1>4, <2>1 DEF CalmOK, Past, Priced
  <2>3. QED
    BY <1>4, <2>2 DEF Compare
<1>5. QED
  BY <1>3, <1>4

LEMMA RequestCalm ==
  ASSUME IInv, CalmInv, NEW b \in Buyers, Request(b)
  PROVE  CalmInv'
<1> DEFINE r == [Idle EXCEPT !.pc = "read", !.row = row, !.since = now]
<1>1. r.pc = "read" /\ r.row = row
  BY DEF Idle
<1>2. CalmOK(r)
  BY <1>1 DEF CalmOK, Past, Priced
<1>3. QED
  BY <1>2, OneCalmRequest DEF Request

LEMMA HitCalm ==
  ASSUME IInv, CalmInv, NEW b \in Buyers, Hit(b)
  PROVE  CalmInv'
<1> USE PaywallAssumption
<1>1. priceCache \in Entry /\ now - priceCache.fetchedAt < Ttl /\ reqs[b].pc # "idle"
  BY DEF IInv, TypeOK, Hit, Younger
<1>2. /\ priceCache.price \in Prices /\ priceCache.fetchedAt \in Nat /\ now \in Nat
      /\ reqs[b].since \in Nat /\ reqs[b].since <= now /\ lastChange \in Int
  BY <1>1 DEF IInv, TypeOK, Entry, RequestType, RequestInv, RequestOK, CalmInv
<1>3. lastChange < reqs[b].since - (Ttl + Grace + Duration)
        => lastChange < priceCache.fetchedAt - Duration
  BY <1>1, <1>2
<1>4. lastChange < reqs[b].since - (Ttl + Grace + Duration) => priceCache.price = chain
  BY <1>1, <1>3 DEF CalmInv, Hit, Younger
<1>5. QED
  BY <1>1, <1>2, <1>4, CompareCalm, OneCalmRequest DEF Hit

LEMMA MissCalm ==
  ASSUME IInv, CalmInv, NEW b \in Buyers, Miss(b)
  PROVE  CalmInv'
<1> DEFINE r == [reqs[b] EXCEPT !.pc = "fetching", !.entry = priceCache]
<1>1. reqs[b] \in RequestType /\ CalmOK(reqs[b]) /\ reqs[b].pc = "read"
  BY DEF IInv, TypeOK, CalmInv, Miss
<1>2. /\ r.pc = "fetching" /\ r.row = reqs[b].row /\ r.since = reqs[b].since
      /\ r.entry = priceCache
  BY <1>1 DEF RequestType
<1>3. CalmOK(r)
  BY <1>1, <1>2 DEF CalmInv, CalmOK, Past, Priced
<1>4. reqs' = [reqs EXCEPT ![b] = r]
  BY DEF IInv, TypeOK, Miss
<1>5. QED
  BY <1>3, <1>4, OneCalmRequest DEF Miss

LEMMA FetchCalm ==
  ASSUME IInv, CalmInv, NEW b \in Buyers, Fetch(b)
  PROVE  CalmInv'
<1> DEFINE r == [reqs[b] EXCEPT !.pc = "fetched", !.entry = NoValue, !.price = chain]
<1>1. reqs[b] \in RequestType /\ CalmOK(reqs[b]) /\ reqs[b].pc = "fetching"
  BY DEF IInv, TypeOK, CalmInv, Fetch
<1>2. /\ r.pc = "fetched" /\ r.row = reqs[b].row /\ r.since = reqs[b].since
      /\ r.price = chain
  BY <1>1 DEF RequestType
<1>3. CalmOK(r)
  BY <1>1, <1>2 DEF CalmOK, Past, Priced
<1>4. reqs' = [reqs EXCEPT ![b] = r]
  BY DEF IInv, TypeOK, Fetch
<1>5. QED
  BY <1>3, <1>4, OneCalmRequest DEF Fetch

LEMMA StoreCalm ==
  ASSUME IInv, CalmInv, NEW b \in Buyers, Store(b)
  PROVE  CalmInv'
<1> USE PaywallAssumption
<1>1. /\ reqs[b].price \in Prices /\ reqs[b].since \in Nat /\ now \in Nat
      /\ now <= reqs[b].since + Duration /\ lastChange \in Int
      /\ (lastChange < reqs[b].since => reqs[b].price = chain)
  <2>1. reqs[b] \in RequestType /\ RequestOK(reqs[b]) /\ reqs[b].pc = "fetched"
    BY DEF IInv, TypeOK, RequestInv, Store
  <2>2. now \in Nat /\ lastChange \in Int /\ CalmOK(reqs[b])
    BY DEF IInv, TypeOK, CalmInv
  <2>3. QED
    BY <2>1, <2>2 DEF RequestType, RequestOK, CalmOK
<1>2. lastChange < reqs[b].since - (Ttl + Grace + Duration) => reqs[b].price = chain
  BY <1>1
<1>3. PICK r : CalmOK(r) /\ reqs' = [reqs EXCEPT ![b] = r]
  BY <1>1, <1>2, CompareCalm DEF Store
<1>4. \A c \in Buyers : reqs'[c] = IF c = b THEN r ELSE reqs[c]
  BY <1>3 DEF IInv, TypeOK
<1>5. /\ UNCHANGED <<now, chain, row, lastChange, mwCache>>
      /\ priceCache' = [price |-> reqs[b].price, fetchedAt |-> now]
  BY DEF Store, world, history
<1>6. lastChange < now - Duration => reqs[b].price = chain
  BY <1>1
<1>7. QED
  BY <1>3, <1>4, <1>5, <1>6 DEF CalmInv, CalmOK

LEMMA FetchFailsCalm ==
  ASSUME IInv, CalmInv, NEW b \in Buyers, FetchFails(b)
  PROVE  CalmInv'
<1> USE PaywallAssumption
<1>1. CASE Younger(reqs[b].entry, Ttl + Grace)
  <2> DEFINE e == reqs[b].entry
  <2>1. e \in Entry /\ now - e.fetchedAt < Ttl + Grace /\ reqs[b].pc # "idle"
    BY <1>1 DEF IInv, TypeOK, RequestType, FetchFails, Younger
  <2>2. /\ e.price \in Prices /\ e.fetchedAt \in Nat /\ now \in Nat
        /\ reqs[b].since \in Nat /\ reqs[b].since <= now /\ lastChange \in Int
    BY <2>1 DEF IInv, TypeOK, Entry, RequestType, RequestInv, RequestOK, CalmInv
  <2>3. lastChange < reqs[b].since - (Ttl + Grace + Duration)
          => lastChange < e.fetchedAt - Duration
    BY <2>1, <2>2
  <2>4. lastChange < reqs[b].since - (Ttl + Grace + Duration) => e.price = chain
    BY <1>1, <2>3 DEF CalmInv, CalmOK, FetchFails, Younger
  <2>5. QED
    BY <1>1, <2>1, <2>2, <2>4, CompareCalm, OneCalmRequest DEF FetchFails
<1>2. CASE ~Younger(reqs[b].entry, Ttl + Grace)
  <2>1. CalmOK(Idle)
    BY DEF Idle, CalmOK
  <2>2. QED
    BY <1>2, <2>1, OneCalmRequest DEF FetchFails, Ended
<1>3. QED
  BY <1>1, <1>2

LEMMA EndedCalm ==
  ASSUME IInv, CalmInv, NEW b \in Buyers, NotFound(b) \/ Answer(b) \/ DeliveryFails(b)
  PROVE  CalmInv'
<1>1. CalmOK(Idle)
  BY DEF Idle, CalmOK
<1>2. QED
  BY <1>1, OneCalmRequest DEF NotFound, Answer, DeliveryFails, Ended

LEMMA LiveReadCalm ==
  ASSUME IInv, CalmInv, NEW b \in Buyers, LiveRead(b)
  PROVE  CalmInv'
<1>1. PICK price \in {chain, reqs[b].row.price} \ {NoValue} :
        reqs' = [reqs EXCEPT ![b].pc = "final", ![b].price = price]
  BY DEF LiveRead
<1> DEFINE r == [reqs[b] EXCEPT !.pc = "final", !.price = price]
<1>2. reqs[b] \in RequestType /\ CalmOK(reqs[b]) /\ reqs[b].pc = "agreed"
  BY DEF IInv, TypeOK, CalmInv, LiveRead
<1>3. r.pc = "final" /\ r.row = reqs[b].row /\ r.since = reqs[b].since /\ r.price = price
  BY <1>2 DEF RequestType
<1>4. CalmOK(r)
  BY <1>1, <1>2, <1>3 DEF CalmOK, Past, Priced
<1>5. reqs' = [reqs EXCEPT ![b] = r]
  BY <1>1 DEF IInv, TypeOK
<1>6. QED
  BY <1>4, <1>5, OneCalmRequest DEF LiveRead

LEMMA QuoteCalm ==
  ASSUME IInv, CalmInv, NEW b \in Buyers, Quote(b)
  PROVE  CalmInv'
<1> USE PaywallAssumption
<1> DEFINE r == reqs[b]
           kept == mwCache[r.price]
           built == [wallet |-> r.row.wallet, expiresAt |-> now + MwTtl]
           mw == IF kept # NoValue /\ kept.expiresAt > now THEN kept ELSE built
           s == [r EXCEPT !.pc = "quoted", !.payTo = mw.wallet]
<1>1. /\ r \in RequestType /\ CalmOK(r) /\ r.pc = "final" /\ r.price \in Prices
      /\ r.since \in Nat /\ now \in Nat /\ r.since <= now /\ now <= r.since + Duration
      /\ lastChange \in Int
  BY DEF IInv, TypeOK, RequestInv, RequestOK, RequestType, Quote, Past, CalmInv
<1>2. lastChange < r.since => r.row = row
  BY <1>1 DEF CalmOK
<1>3. /\ mw.expiresAt \in Nat /\ mw.expiresAt >= now
      /\ lastChange < mw.expiresAt - (MwTtl + Duration) => mw.wallet = row.wallet
  <2>1. CASE kept # NoValue /\ kept.expiresAt > now
    BY <1>1, <2>1 DEF IInv, TypeOK, Middleware, CalmInv
  <2>2. CASE ~(kept # NoValue /\ kept.expiresAt > now)
    <3>1. mw.wallet = r.row.wallet /\ mw.expiresAt = now + MwTtl
      BY <2>2
    <3>2. lastChange < now + MwTtl - (MwTtl + Duration) => lastChange < r.since
      BY <1>1
    <3>3. QED
      BY <1>1, <1>2, <3>1, <3>2
  <2>3. QED
    BY <2>1, <2>2
<1>4. /\ s.pc = "quoted" /\ s.row = r.row /\ s.since = r.since /\ s.price = r.price
      /\ s.payTo = mw.wallet
  BY <1>1 DEF RequestType
<1>5. lastChange < r.since - (MwTtl + Duration) => mw.wallet = r.row.wallet
  <2>1. lastChange < r.since - (MwTtl + Duration)
          => lastChange < mw.expiresAt - (MwTtl + Duration) /\ lastChange < r.since
    BY <1>1, <1>3
  <2>2. QED
    BY <1>2, <1>3, <2>1
<1>6. CalmOK(s)
  BY <1>1, <1>4, <1>5 DEF CalmOK, Past, Priced
<1>7. /\ reqs' = [reqs EXCEPT ![b] = s] /\ mwCache' = [mwCache EXCEPT ![r.price] = mw]
      /\ UNCHANGED <<now, chain, row, lastChange, priceCache>>
  BY <1>1 DEF IInv, TypeOK, Quote, world, history
<1>8. /\ \A c \in Buyers : reqs'[c] = IF c = b THEN s ELSE reqs[c]
      /\ \A p \in Prices : mwCache'[p] = IF p = r.price THEN mw ELSE mwCache[p]
  BY <1>7 DEF IInv, TypeOK
<1>9. ASSUME NEW c \in Buyers PROVE CalmOK(reqs[c])'
  <2>1. CASE c = b
    <3>1. reqs'[c] = s
      BY <1>8, <2>1
    <3>2. QED
      BY <1>6, <1>7, <3>1 DEF CalmOK
  <2>2. CASE c # b
    <3>1. reqs'[c] = reqs[c] /\ CalmOK(reqs[c])
      BY <1>8, <2>2 DEF CalmInv
    <3>2. QED
      BY <1>7, <3>1 DEF CalmOK
  <2>3. QED
    BY <2>1, <2>2
<1> HIDE DEF s
<1>10. ASSUME NEW p \in Prices, mwCache'[p] # NoValue
       PROVE  lastChange < mwCache'[p].expiresAt - (MwTtl + Duration) => mwCache'[p].wallet = row.wallet
  <2>1. CASE p = r.price
    BY <1>3, <1>8, <2>1
  <2>2. CASE p # r.price
    BY <1>8, <1>10, <2>2 DEF CalmInv
  <2>3. QED
    BY <2>1, <2>2
<1>11. QED
  BY <1>7, <1>9, <1>10 DEF CalmInv

LEMMA AcceptCalm ==
  ASSUME IInv, CalmInv, NEW b \in Buyers, Accept(b)
  PROVE  CalmInv'
<1> DEFINE r == [reqs[b] EXCEPT !.pc = "paid"]
<1>1. reqs[b] \in RequestType /\ CalmOK(reqs[b]) /\ reqs[b].pc = "quoted"
  BY DEF IInv, TypeOK, CalmInv, Accept
<1>2. /\ r.pc = "paid" /\ r.row = reqs[b].row /\ r.since = reqs[b].since
      /\ r.price = reqs[b].price /\ r.payTo = reqs[b].payTo
  BY <1>1 DEF RequestType
<1>3. CalmOK(r)
  BY <1>1, <1>2 DEF CalmOK, Past, Priced
<1>4. QED
  BY <1>3, OneCalmRequest DEF Accept

LEMMA DeliverCalm ==
  ASSUME IInv, CalmInv, NEW b \in Buyers, Deliver(b)
  PROVE  CalmInv'
<1> DEFINE receipt == [amount |-> reqs[b].row.price, recipient |-> reqs[b].row.wallet]
           r == [reqs[b] EXCEPT !.pc = "delivered", !.receipt = receipt]
<1>1. reqs[b] \in RequestType /\ CalmOK(reqs[b]) /\ reqs[b].pc = "paid"
  BY DEF IInv, TypeOK, CalmInv, Deliver
<1>2. /\ r.pc = "delivered" /\ r.row = reqs[b].row /\ r.since = reqs[b].since
      /\ r.price = reqs[b].price /\ r.payTo = reqs[b].payTo /\ r.receipt = receipt
  BY <1>1 DEF RequestType
<1>3. CalmOK(r)
  BY <1>1, <1>2 DEF CalmOK, Past, Priced
<1>4. reqs' = [reqs EXCEPT ![b] = r]
  BY DEF IInv, TypeOK, Deliver
<1>5. QED
  BY <1>3, <1>4, OneCalmRequest DEF Deliver

(* After a change nothing has been calm for any time at all.               *)
LEMMA ChangeCalm ==
  ASSUME IInv, CalmInv, UNCHANGED <<now, caches, reqs>>, lastChange' = now,
         \A b \in Buyers : /\ CalmOK(reqs[b])
                           /\ reqs[b].pc # "idle" => reqs[b].since <= now
  PROVE  CalmInv'
<1> USE PaywallAssumption
<1>1. now \in Nat /\ UNCHANGED <<priceCache, mwCache>>
  BY DEF IInv, TypeOK, caches
<1>2. priceCache # NoValue => priceCache.fetchedAt \in Nat /\ priceCache.fetchedAt <= now
  BY DEF IInv, TypeOK, Entry
<1>3. \A p \in Prices : mwCache[p] # NoValue =>
        mwCache[p].expiresAt \in Nat /\ mwCache[p].expiresAt <= now + MwTtl
  BY DEF IInv, TypeOK, Middleware
<1>4. ASSUME NEW b \in Buyers, reqs[b].pc # "idle" PROVE CalmOK(reqs[b])'
  <2>1. reqs[b].since \in Nat /\ reqs[b].since <= now
    BY <1>4 DEF IInv, TypeOK, RequestType
  <2>2. ASSUME reqs[b].pc = "fetching", reqs[b].entry # NoValue
        PROVE  ~(now < reqs[b].entry.fetchedAt - Duration)
    <3> DEFINE e == reqs[b].entry
    <3>1. e.fetchedAt \in Nat /\ e.price \in Prices
      BY <2>2 DEF IInv, TypeOK, RequestType, Entry
    <3>2. priceHeld[e.price] \in Int /\ priceHeld[e.price] <= now
      BY <3>1 DEF IInv, HistoryInv
    <3>3. priceHeld[e.price] >= e.fetchedAt - Duration
      BY <2>2 DEF IInv, RequestInv, RequestOK
    <3>4. QED
      BY <1>1, <3>1, <3>2, <3>3
  <2>3. QED
    BY <1>1, <1>4, <2>1, <2>2 DEF CalmOK
<1>5. QED
  BY <1>1, <1>2, <1>3, <1>4 DEF CalmInv, CalmOK

LEMMA CalmInductive == Spec => []CalmInv
<1> USE PaywallAssumption
<1>1. ASSUME Init PROVE CalmInv
  <2>1. Never \in Int /\ Never <= 0
    BY DEF Never
  <2>2. QED
    BY <1>1, <2>1 DEF Init, CalmInv, CalmOK, Idle
<1>2. ASSUME IInv, CalmInv, [Next]_vars PROVE CalmInv'
  <2>1. ASSUME NEW b \in Buyers, RequestStep(b) PROVE CalmInv'
    BY <1>2, <2>1, RequestCalm, HitCalm, MissCalm, FetchCalm, StoreCalm, FetchFailsCalm,
      EndedCalm, LiveReadCalm, QuoteCalm, AcceptCalm, DeliverCalm DEF RequestStep
  <2>2. ASSUME UNCHANGED <<now, caches, reqs>>, lastChange' = now PROVE CalmInv'
    <3>1. \A b \in Buyers : /\ CalmOK(reqs[b])
                            /\ reqs[b].pc # "idle" => reqs[b].since <= now
      BY <1>2 DEF IInv, RequestInv, RequestOK, CalmInv
    <3>2. QED
      BY <1>2, <2>2, <3>1, ChangeCalm
  <2>3. CASE Tick
    BY <1>2, <2>3 DEF Tick, caches, IInv, TypeOK, CalmInv, CalmOK
  <2>4. CASE UNCHANGED vars
    BY <1>2, <2>4 DEF vars, world, caches, history, CalmInv, CalmOK
  <2>5. QED
    BY <1>2, <2>1, <2>2, <2>3, <2>4 DEF Next, SyncRow, SetPrice
<1>3. QED
  BY <1>1, <1>2, Inductive, PTL DEF Spec

(* Unless price or owner changed shortly before, the receipt says what was *)
(* charged and who was paid, and a mismatch is reported only where row and *)
(* registry disagree.                                                      *)
THEOREM ReceiptsTrue == Spec => []ReceiptsTrueWhenCalm
<1> USE PaywallAssumption
<1>1. ASSUME IInv, CalmInv PROVE ReceiptsTrueWhenCalm
  <2>1. SUFFICES ASSUME NEW b \in Buyers
                 PROVE  /\ reqs[b].pc = "delivered" =>
                             /\ Calm(b, Ttl + Grace + Duration)
                                  => reqs[b].receipt.amount = reqs[b].price
                             /\ Calm(b, MwTtl + Duration)
                                  => reqs[b].receipt.recipient = reqs[b].payTo
                        /\ reqs[b].pc = "refused" /\ Calm(b, Ttl + Grace + Duration)
                             => row.price # chain
    BY DEF ReceiptsTrueWhenCalm
  <2>2. CalmOK(reqs[b]) /\ reqs[b].since \in Nat /\ lastChange \in Int
    BY <1>1 DEF IInv, TypeOK, RequestType, CalmInv
  <2>3. reqs[b].pc = "refused" /\ Calm(b, Ttl + Grace + Duration)
          => lastChange < reqs[b].since
    BY <2>2 DEF Calm
  <2>4. QED
    BY <2>2, <2>3 DEF CalmOK, Calm, Past, Priced
<1>2. QED
  BY <1>1, Inductive, CalmInductive, PTL

=============================================================================
