# MIND-BOX in TLA+

MIND-BOX sells access to resources (links and files). A Soroban contract, the *vault registry*,
records who owns each resource and what it costs; an Express server keeps the catalogue in
Postgres, sells single reads and time-limited leases over x402 (HTTP 402 answered by a signed USDC
payment), registers resources on chain, follows the contract's events and refunds buyers from a
pool; an MCP server and a web client call its HTTP API. This directory models the parts of that
system whose correctness depends on order, timing and failure, checks them with TLC, and proves
the main invariants with TLAPS.

`PROJECT.json` lists the components, the runs, the lines of code behind every definition (`map`),
the hazards of the code with the properties that address them, the disagreements found between
code and documents (`findings`) and the theorems.

To check a run: `tlc -config MCPaywall.cfg MCPaywall`. To check the proofs: `tlapm PaywallProofs.tla`.

## 1. The system

| Part | Keeps | Operations | Hard because |
| --- | --- | --- | --- |
| **vault-registry contract** (`contract/contracts/vault-registry/src/lib.rs`) | resource entries, the `Index(i)`/`Count` enumeration, events, the rent of its entries | register, set_price, update_metadata, set_tags, transfer_ownership, set_listed/delist, list/get/exists | the enumeration and the event log must stay in step with the entries over any sequence of calls; entries expire between calls |
| **on-chain registration** (`routes/resources.ts` POST register, `services/registryClient.ts`, `workers/retryPendingWorker.ts`, `middleware/timeout.ts`, `scripts/backfill-registry.ts`) | `onchain_status` and age of each row, the worker's retry counts, transactions in flight | submit a creator's signed transaction, poll it, retry stuck rows, give up, backfill | check and write are separate statements; polling times out before the ledger decides; what is posted is not compared with the row and what `signAndSend` returns is not read; worker ticks overlap; restarts lose counts and callers; the script and other accounts register beside all of them |
| **paid delivery** (`middleware/dynamicPaywall.ts`, `lib/stellarRegistry.ts`, `routes/resources.ts` GET /resources/:id) | the on-chain price cache, the payment middleware cache, payments rows | compare row and registry price, quote, deliver with a receipt | four reads of price and owner at different times, two caches, a fallback to stale entries |
| **disputes and refunds** (`services/disputeService.ts`, `services/refundService.ts`, `submitUsdcTransfer`) | dispute rows, the pool account's sequence number | file, rule, pay a refund | read-check-pay-write without lock; transfers that time out may still land |
| **registry event listener** (`workers/eventListener.ts`) | the cursor file, price/wallet/listed of the rows | poll a page of events, apply, save the cursor | overlapping polls, pages that cut a ledger in two, failures that are logged and skipped, an RPC that forgets old ledgers |
| **price and ownership routes, delisting** (`routes/resources.ts`), **reconciliation** (`scripts/reconcile.ts`) | the row, after the chain | submit, poll ten times, then write; delist row and chain; compare rows and chain | 504 while the transaction may still land; route, verdict and listener write the same columns |
| **leases** (`routes/leases.ts`, `services/leaseService.ts`) | lease rows | buy, present, list, revoke | price read twice; revocation racing a purchase |
| **publishing** (`routes/resources.ts` POST, `services/resourceService.ts`, `lib/idempotency.ts`) | rows, files, idempotency records in memory | publish, retry | the record lives in the process, row and file outlive it; the timeout answers for a handler that runs on |
| **catalogue and verification** (`services/resourceService.ts`, `lib/ttlCache.ts`, `routes/verify.ts`) | listing of the rows, two caches, verdicts | search, page, verify, delist | caches filled after they were invalidated; a verdict or a contract event that arrives after a delisting; rows whose upload failed |
| **publishers, payments, reports** (`services/publisherService.ts`, `routes/publishers.ts`, `routes/payments.ts`) | publishers, payments rows | register, sell, leaderboard, analytics | reports read three tables one after the other with no transaction |
| **lifecycle, timeout, rate limiting** (`index.ts`, `lib/lifecycle.ts`, `middleware`, `lib/rateLimit`) | in-flight count, windows | shutdown; count and refuse | a drain that must end; a response that finishes and closes; a limiter that fails open |
| **MCP server** (`mcp/src/index.ts`) | an agent's wallet and key in memory and in a file all its processes share | setup_wallet, register, publish, register_onchain, reset, buy | tool calls run concurrently and await between steps while the credentials change |
| **web client** (`web/src`) | filters, cached pages, wallet session, one dialog, overrides | browse, connect, buy, edit price, transfer, register, publish | only awaits interleave: late answers, and callbacks kept from an earlier render, meet a page that has moved on |

How they interact. Every writer of a resource row is a statement of its own with no transaction
around it: the handlers, the retry worker, the backfill script and the event listener share
`price`, `wallet_address`, `listed` and `onchain_status`. The contract is reached through RPC: reads
are simulations, writes are transactions that are sent, polled for, and included or dropped by the
ledger independently of the caller. The paywall reads the row and, through a cache, the contract. A
delivery writes the payments row on which a dispute may be filed and which the reports add up. The
event listener is the only path by which a transaction that nobody waited for reaches the row. The
contract is open: anybody may register any id, and a publisher may post any signed transaction.
Clients hold nothing the server relies on, but they retry, and they keep what they were told.

What makes each part correct is stated as the properties of its module; section 3 lists them.

## 2. Modules

| Module | Models | Over |
| --- | --- | --- |
| `VaultRegistry` | the contract: one action per entry point | - |
| `VaultStorage` | the contract with `extend_ttl`, expiry and restoration of entries | EXTENDS `VaultRegistry` |
| `Registration` | POST register, submission helper, retry worker, restarts, the ledger | `Chain == INSTANCE VaultRegistry` |
| `Backfill` | the backfill script beside all of that | EXTENDS `Registration` |
| `Paywall` | the paywall, both caches, delivery | - |
| `Disputes` | filing, ruling, the refund transfer, the pool account | - |
| `Leases` | buying, presenting and revoking a lease | - |
| `EventSync` | the event listener over a contract that is being used | `Chain == INSTANCE VaultRegistry` |
| `Ownership` | price and ownership routes, DELETE, verdicts, reconciliation, beside the listener | EXTENDS `EventSync` |
| `Publishing` | POST /resources with its idempotency records | - |
| `Catalog` | the list caches, searches, uploads, verdicts, set_listed events, delistings | - |
| `Sales` | publishers, payments rows and the reports of earnings | - |
| `Requests` | in-flight count, timeout, rate limits, graceful shutdown | - |
| `Agent` | the MCP servers of one user and their shared state file | - |
| `Browser` | catalogue, wallet session and purchase dialog of the web client | - |
| `Dashboard` | the publisher's dialogs of the web client | - |
| `VaultRegistryProofs` | theorems of `VaultRegistry` and `VaultStorage` | EXTENDS both |
| `RegistrationProofs` | theorems of `Registration` and `Backfill` | EXTENDS both |
| `PaywallProofs`, `DisputesProofs`, `LeasesProofs` | theorems of the module of the name | EXTEND it |
| `ServerProofs` | theorems of `EventSync`, `Ownership` and `Requests` | EXTENDS `Ownership`, `Requests` |
| `ResourcesProofs` | theorems of `Publishing`, `Catalog` and `Sales` | EXTENDS them |
| `ClientsProofs` | theorems of `Agent`, `Browser` and `Dashboard` | EXTENDS them |
| `MC...` | instances for TLC; `MCResources` holds Publishing, Catalog and Sales, `MCClients` Agent, Browser and Dashboard, each part explored alone | EXTEND the modules above |

An action is the code between two awaits, so everything Node.js can interleave is interleaved: a
handler is a record with a `pc`, and any number of handlers, ticks and polls (the sets `Requests`,
`Ticks`, `Filers`, `Rulers`, `Polls`, `Buyers`, `Tasks`, `Calls`, `Fetches`, `Ops`) run at a time.
`setInterval` does not wait for the previous run of its callback, hence more than one tick and more
than one poll. Operators commented "Faulty variant" are not used by the specifications: each is a
plausible slip in the definition that follows it, and `PROJECT.json` (`mutants`) says which property
must notice it.

**VaultRegistry.** `resources`, `index`, `count` are the storage keys `Resource(id)`, `Index(i)`,
`Count`; `events` is the log in ledger order and `signers` (history) the authorization each call
carried. An entry point that returns an error, traps or lacks an authorization rolls back and is a
stutter. The validations of price, metadata and tags are the constant subsets `ValidPrices`,
`ValidMetadata`, `ValidTags`; their byte-level definition is not modelled. `count` is a u32 whose
increment traps (`overflow-checks`), hence `count < U32Max` in `MayRegister`. `List` is `list()`
with its cap.

**VaultStorage.** Days instead of ledgers. `Extend` is `extend_ttl(LIFETIME_THRESHOLD,
BUMP_AMOUNT)`: it changes nothing unless less than the threshold is left. Only `register` extends
the instance and an `Index` entry; the mutators extend the entry they save. Expiry and restoration
follow the network's rules (external).

**Registration.** `PostRegister` is the status check (409 otherwise), `MarkPending` the update
before the submission, `Submit`/`Poll`/`SubmissionFails` are `submitSignedTx` or the legacy
`signAndSend`, `FinishRequest` the final update, `Reply` the answer, `RequestFails` a throw into
the catch block - including the throw of the reply itself when the timeout middleware has already
answered 503 - and `GiveUp` the catch block's update to `failed`. `RequestThrows` is a database
failure nobody catches. `Tick` is the query for rows pending for five minutes (`old`), `Lookup`
`resourceExists` and the retry count, `Retry` the registration in the platform's name, `Await` the
return of `signAndSend` whose result is not read, `Settle` the update that ends a row's turn,
`TickFails`/`CatchOn`/`CatchExhausted`/`TickThrows` the catch block. `Stop` may happen anywhere,
any number of times: handlers, ticks and retry counts are gone, rows and transactions are not; the
script and the ledger go on until `Boot` and after. A
transaction in `txs` is included (`Apply`, which runs the contract's `Register`), fails (`Fail`, for
any reason: a taken id, a stale footprint, an archived entry, a fee) or is dropped (`Drop`); `outcome`
is what its sender is told, and one whose sender gave up stays with no sender (`Orphaned`). A signed
request posts any member of `Signable`: the row's own registration, that of any row by any account
whose key a client holds, or something else, because nothing compares `signedXdr` with the row.
`ThirdParty` is a registration that no server was asked for. `misled` is a history of the two ways
the code writes `registered` without knowing: a success that was another row's, and a refusal whose
result is not read. The legacy flow is allowed for rows whose wallet is the platform's; the installed
SDK may refuse more than that, so the model over-approximates it.

**Backfill.** `Start` is the one query of `main`, `TakeRow` the loop, `Submitted` the submission of
`register` in the platform's name (a simulation that throws for a taken id, nothing asks the registry
first), `Final` the return of `signAndSend` once its transaction is final (`outcome[Script]`), whose
result is not looked at, `WriteRegistered` and `WriteFailed` the two updates, `Throws` any await that
throws, `Quit` a throw in the catch block or the operator's Ctrl-C; after either nobody waits for what
was sent (`ScriptLeaves`). The dry run only prints. `scripted` is a history.

**Paywall.** One resource, because both caches are keyed per resource. `Request` reads the row;
`Hit`, `Miss`, `Fetch`, `Store`, `FetchFails`, `NotFound` are `getOnChainPrice` with its freshness
`Ttl` and grace period `Grace`; `Compare` is the mismatch check (409); `LiveRead` is the second
read that prices a registered resource, with its fallback to the row; `Quote` takes or builds the
payment middleware, cached for `MwTtl` under the *price*, paying the wallet of the row this request
read; `Accept` is the x402 library; `Deliver` writes the payments row and the receipt from the row
the request read. `SyncRow` and `SetPrice` are all other writers of the row and of the record. The
histories `priceHeld`, `walletHeld` and `lastChange` say when a value was last true. Prices are
compared in the normalised form both sides use, so normalisation itself does not appear. Whether
x402 settles before or after the handler is the library's business and no property depends on it.

**Disputes.** `FindPayment`, `SelectExisting`, `Insert` are the three statements of `fileDispute`;
`Read`, `Load`, `Send`, `Poll`, `GiveUp`, `Resolve` those of `ruleDispute` and `executeRefund`. A
transfer is named by the sequence number it uses; the ledger includes at most one per number
(`Include`), and may do so after its sender gave up polling. `CutShort` is a restart or a failing
final update. `disturbed` and `raced` are histories: rulings that overlapped or were cut short, and
filings that overlapped.

**Leases.** One resource; a lease stands for its token, of which the server keeps only a hash. A
purchase is `Quote` (`leasePaywall` reads the row), `Accept` (x402, external), `Mint` (`createLease`
reads the row a second time, prices the lease by it and fixes the window), `InsertLease`,
`InsertPayment` (which books the first price) and `Reply`, the only time the token is shown;
`PurchaseFails` is a throw or an abandoned purchase at any point, which undoes nothing. A read is
`Present` (the row is checked and the clock read), `Lookup` (the lease row, judged by that clock),
or `LookupFails`, after which the paid flow of module `Paywall` begins. `AskRevoke` reads the clock,
`Revoke` is the single UPDATE over all leases of the holder, those already revoked included. The
payments row of a delivery granted by a lease is left out: nothing here reads it. `sold`, `ended`,
`swept` and `moved` are histories.

**EventSync.** `Invoke` is anybody calling the contract, registrations in any name and at any price
included; `CloseLedger` is time. The server and the contract may be installed at any ledger. A poll
reads what RPC serves of closed ledgers from the cursor on, at most `PageLimit` events; the RPC rejects
a cursor older than the last `Retention` ledgers (`Oldest`), and the listener then changes nothing. A
page is applied event by event
(`Handle`, `HandlerFails`), then saves `last ledger + 1` (`Save`) or stops before that (`Stop`). The
very first poll only writes the cursor file, with ledger 1. Events have the shape the listener's
`SorobanEvent` interface declares; the listener takes the id from the second topic, which for
`register` is the creator, so that event never finds a row.

**Ownership.** `PostChange` is POST price or POST ownership up to the submission: the body's value and
the signed one are two inputs, because nothing compares them. `Land`/`Fail` is the ledger, at any
time, also after `GiveUp` (502, ten polls in vain, a throw). `Confirm` writes the column from the
body. `Delete` writes the row and, for a registered one, sends `set_listed(FALSE)` under the
platform's signature, whatever becomes of it. `Judge` is POST verify-content, which writes `listed`
without the chain, `Transact` any call of the contract, also a registration by the platform or at
another price than the row's. `MarkRegistered` is any of the writers of `Registration`, with an entry
or without. `stray` is a history: the columns of a row whose last writer did not have the value from
the contract, and the columns of an entry that was registered otherwise than the row stands; an event
about the column (`Listen`) ends it. `StartAudit`, `CheckRow`, `CountEntries`, `CheckListing` are the
reads of `reconcile()`, spread over time; a change under a running or finished audit makes it say
nothing (`Disturb`).

**Publishing.** One request per HTTP call; a retry is another request with the same key. `Take`,
`Repeat`, `Insert`, `Upload`, `Update`, `Answer` and `Fail` are the steps of the handler and of its
catch block, `Refuse` everything that is refused before the row is inserted, `Abandon` the timeout
middleware or a client that hangs up while the handler runs on, `Expire` the TTL of the record,
`Restart` the loss of handlers and records. `excused` is a history: the requests whose key was let go.

**Catalog.** A listing is the set of its resources: sorting, paging and filtering only narrow it.
`catalog` is the entry of `readCache`, `pages` the `pageCache` with its eviction. `Ask`/`Land` is a
read of the database that is in flight while rows change; `Compute` fills a page from the cached
catalogue. `Store`, `Published`, `UploadFails` are what follows the insert of a file's row: until the
update the row has no path, and for good when the upload fails. `Judge`, `Rule`, `Unruled` are the two
writes of a verification, `SetListedEvent` the listener's write, `Delist`, `Invalidate`, `DeleteFile`
the steps of a delisting (its on-chain half is in `Ownership`), which deletes the path the row had when
it was updated. A row is never deleted and its listing changes only through these. `past`, `gone`,
`byChain`, `overruled` are histories.

**Sales.** `RegisterPublisher`, `PublishResource`, `TransferResource`, `Order`/`Sell` (a purchase reads
the row first and inserts its payments row last) are the writers; `BeginReport`, `ReadResources`,
`AnswerReport` the three reads of the leaderboard and of a publisher's analytics. `Earned` is the
join both compute. What is reported is the set of payments behind a sum, so that a payment counted
twice or for two publishers shows; `told` is the history of what each publisher has been told of.

**Requests.** `Arrive` is `inFlightMiddleware`, `Admit` a row of limiters (`Consume`), `FailOpen` a
store that cannot be asked, `Finish` and `Timeout` the ways a response is answered. `Emits` is an event
of the response, "finish" when all of it has been handed on and "close" when the connection goes, in any
order or only one of them, with its listener `release` (`settled` is the flag of `inFlight.ts`); the
handler may run on after the timeout's answer and after either event. `BeginShutdown`, `Drained`,
`Deadline`, `Exit` are `gracefulShutdown`. Time matters to the limits alone, so it advances in `Admit`.
A request on a kept-alive connection may still arrive while the server drains.

**Agent.** Each process has `memory`, all share `file`; `Save` writes the process's view over
whatever is there, or fails. A tool call is a record in `calls` between its awaits: `RegisterStart`/
`RegisterReturns`, `PublishStart`/`Create`/`PayVerification`/`RegisterOnServer`, `SignStart`/
`SubmitSigned`; the wallet and the key it began with are in the record where the code keeps them in
a local, and read from `memory` where the code reads them again. `SetupWallet`, `Reset`, `Restart`
may fall between any two. `outrun` and `gone` are histories.

**Browser.** `ChangeFilters`, `Retry`, `FetchReturns`, `FetchFails` are `useAsync` under `useCatalog`
with the offline copies of `catalogCache`; `PublishStarts` and `OnPublished` the publish dialog, which
calls the `retry` of the filters it was submitted under (`waiting`; `late` is a history); `Restore`,
`Connect`, `ConnectReturns`, `Disconnect`, `SwitchAccount` the wallet hook and Freighter (external);
`OpenDialog` ... `NotDelivered` the purchase dialog with `useBuyResource` and `x402Buy`: `purchases` are
the calls of `buy` under way, `inFlight` the ref, `dialog` what is drawn, and a click may come between
the two; `PreviewBeneath` the dialog that the keyboard can open over it; `Load` a page load, which only
the storages outlive.

**Dashboard.** App shows one dialog; `ops` are the runs of prepare, sign and submit that nobody
cancels when their dialog is closed (`Close`), replaced (`OpenForm`, `OpenRegister`, `OpenOther`) or
pointed at another resource (`Repoint`). `Serve` is the server; `Confirmed...` the callbacks that
patch the catalogue. `OpenPublish` ... `PublishFails` is the publish dialog. `config` is the server's
`REQUIRE_REQUEST_SIGNATURE` and whether `VITE_API_URL` is absolute: a signed request throws when it
is not, and publishing is not signed. `mistaken`, `unheard`, `begun` and the three counters of
publishing are histories.

## 3. The runs

| Run | Config | Distinct states | Asks |
| --- | --- | --- | --- |
| vault_storage | `MCVaultStorage.cfg` | 236 k | enumeration, events, pages and rent over every sequence of calls |
| registration | `MCRegistration.cfg` | 1.0 M | two racing requests that post anything, two overlapping ticks, others who register, restarts, late, failed and dropped transactions |
| backfill | `MCBackfill.cfg` | 0.14 M | the script beside a request and a tick: what `registered` means, and that no row stays pending |
| disputes | `MCDisputes.cfg` | 1.4 M | refunds: real, once, for upheld disputes only |
| disputes_repeat | `MCDisputesRepeat.cfg` | counterexample | section 4 |
| event_sync | `MCEventSync.cfg` | 0.13 M | which events are lost, that the cursor passes everything |
| ownership | `MCOwnership.cfg` | 3.1 M | route, verdict, listener and contract on one row; what a clean audit means |
| paywall | `MCPaywall.cfg` | 3.3 M | how stale a price, a payee and a receipt can be |
| leases | `MCLeases.cfg` | 3.2 M | when access ends, who is charged again, what a lease row says of its sale |
| requests | `MCRequests.cfg` | 0.66 M | the in-flight count, the limits, what exit code 0 means, that shutdown ends |
| resources | `MCResources.cfg` | 1.2 M | idempotent publishing; the caches and listings; the reports of earnings |
| clients | `MCClients.cfg` | 1.3 M | credentials of an agent; what a web page shows, whom it pays, what it says was done |

The bounds, and why they show what they should:

- *vault_storage*: two accounts, three ids and `U32Max = 2`, so the counter reaches its limit with
  an id left to refuse; four events, enough for register-transfer-transfer-change by old and new
  owner; a page cap of 1 so that every listing is paged; three days with a threshold of one, so
  entries expire, are restored with the minimum lifetime and are written again.
- *registration*: one row of a publisher, two requests, two ticks, one retry. Rows interact through a
  tick's list of rows to do and through a posted transaction that is another row's, for which a
  transaction about no row stands. Restarts are not bounded. The proofs cover any number of rows,
  requests, ticks and retries.
- *backfill*: one row, one request, one tick, one retry, one run of the script, restarts without a
  bound: one of each writer of `onchain_status`. The row is the platform's own, which enables the legacy flow, and no
  other account registers; in *registration* it is a publisher's.
- *disputes*: one pair with two disputes, two filers, two rulers, one ruling cut short; the amount 3
  exceeds the cap 2. Two rulers suffice for every overlap of check and write, and two transfers on
  one sequence number for the conflict.
- *event_sync*: one resource, three events, four ledgers of which the RPC keeps the last two (so the
  cursor can be left behind from the start, in a quiet period or by failures), pages of two (so a page
  can end inside a ledger), two polls, one failure of a handler or of a poll.
- *ownership*: one resource, one price, two owners of which one is the platform, three events (so a
  registration, a change through a route and a later change by somebody else fit), three ledgers, one
  poll at a time, one request, any number of verdicts, no failures: losses and overlaps are the subject
  of *event_sync*, and the property excludes them.
- *paywall*: two prices, two owners, two requests, all lifetimes one tick, four ticks and two
  changes. A request may last one tick (`Duration`), so a cache entry can be filled by a request
  that began before a change, expire, be used in its grace period and be replaced, all within the
  run; the theorems remove the bounds.
- *leases*: a purchase, a read and a revocation at a time, two leases of one holder, a window of one
  tick and requests of at most one, two ticks, one write to the row. Two leases let one be revoked
  while the other is being bought; the three instants 0, 1 and 2 let a lease expire, and a revocation
  fall, before, within and after a read. One lease over four ticks was checked as well.
- *requests*: three requests from one address by two wallets, limits of two and one in a window of
  two, three instants: either limit can be the one that refuses, a window can pass, and a request can
  arrive while others drain.
- *resources*: publishing has three requests of one publisher under one key, a fourth of another
  publisher under the same key, one record that expires and one restart. The catalogue has one
  resource, one set_listed event, one shared page and one search with room for one page, entries that
  live two ticks, reads that take at most one; it is explored twice: with the upload and two
  verifications, without searches and time, and once published with one verification, two reads in
  flight and time. Sales has two publishers,
  accounts and resources, one purchase, two reports: a report can straddle a publication, a transfer
  and a sale, and two reports can overlap; the theorems remove the bounds.
- *clients*: two MCP processes of one user, two wallets, two keys, two calls, one resource, one reset,
  one restart; two filters and three fetches (an aborted one, a current one, a retry), two connects, two
  addresses, two purchases under way, two page loads (one in the part of the catalogue); two resources
  of a publisher, two dialog requests at a time and three in all, two openings of the publish dialog
  with three failures.

CHECK_DEADLOCK is off wherever the bounds (events, changes, time) end a behaviour, or the program
stops. Symmetry is used for safety properties only, over sets whose elements no definition
tells apart. The parts of *resources* and *clients* share no variable; each behaviour moves one part.

**What the passing runs show.**

*vault_storage*: slots below `count` enumerate exactly the registered ids (`IndexIsEnumeration`); the
event log determines existence, owner, listing, and price and tags once changed
(`EventsReproduceState`); pages follow registration order for any `start` and `limit`
(`PagesFollowRegistrationOrder`); a written entry lives for the threshold (`ManagedEntryLives`).

*registration*: the server makes the platform the creator of a publisher's row on chain only when that
publisher has asked for a registration and the row is older than the cutoff
(`PlatformTakesOnlyStuckRows`); a registered row nobody is working on stays registered whatever lands
later (`SettledForGood`).

*backfill*: a row that says `registered` is on chain, although timeouts are reported as failures and the
script asks nobody, except where the code takes it on trust: a posted transaction that was not the
row's, or a `signAndSend` whose transaction failed while the id was free (`RegisteredIsOnChain`). No
race, restart or late landing adds a third way. No row stays pending (`PendingSettles`), although the
script may stop anywhere.

*disputes*: a recorded refund transaction was executed, for this dispute and the capped amount
(`RefundTxIsReal`); a dispute is paid for at most once, with the capped amount, and not at all when
denied or untouched, unless two rulings overlapped or one was cut short (`RefundedOnceInTurn`); two
open disputes of one pair need two overlapping filings (`OneOpenDisputePerPair`).

*event_sync*: the cursor passes an event only if it was handled, its handler failed, or a full page
ended inside its ledger (`NothingElsePassedOver`): those are the three ways the code loses one. Every
event of a closed ledger is passed in the end, unless the cursor has fallen behind what the RPC keeps,
from where it never moves again (`EventuallyPassed`).

*ownership*: once the listener has caught up, lost nothing and did not overlap, the row holds the
contract's price, owner and listing, whatever requests gave up on transactions that landed later. The
exceptions, column by column, are values that did not come from the contract: the listing until its
first event and after a verdict or a DELETE, a route's write after the listener had applied a later
change, a body that differs from what was signed, and an entry registered in another name or at another
price than the row's (the worker's and the backfill's among them). Each lasts until the next event about
the column (`AgreesAfterChanges`).
A reconciliation that reports nothing, with nothing changed since it began, means that every
registered row has its entry at its price and owner, that every listed row is registered and, when
the count could be read, that no entry lacks a registered row (`AllClearMeansAgreement`).

*paywall*: the price asked was held by the registry no longer ago than freshness, grace and one
request (`ChargedPriceIsRecent`); the payee owned the row no longer ago than the middleware cache
keeps and one request (`PaidToRecentWallet`); unless something changed shortly
before, receipts say what was charged and who was paid, and a 409 is given only while row and registry
disagree (`ReceiptsTrueWhenCalm`).

*leases*: a read that begins after its lease expired or was revoked is not granted, and of a holder's
leases only a purchase under way survives a revocation (`AccessEnds`); the holder of a live lease is
charged only when the lookup failed (`ChargedOnlyWhenInactive`); the window is the one paid for, give
or take one request, the row's amount is what was paid unless the price moved between the two reads of
the purchase (the comment in `schema.ts` is true only up to that race), and no failure leaves a token
in a buyer's hands without its payments row (`LeasedAsPaid`).

*requests*: the counter is the number of responses neither sent in full nor given up, whichever of
"finish" and "close" they emit, and in whatever order (`CountIsExact`); no window, wherever it starts,
admits more than its limit, requests refused by a later limit included (`WindowRespected`); a process
that exits with 0 has sent its answer in full to everyone who had asked before the shutdown began and
did not hang up (`ExitZeroMeansServed`); the shutdown ends even when a request never does
(`ShutdownEnds`).

*resources*: a key has one row unless its record was lost to a failure, an answer the timeout had
given, the TTL or a restart (`OneRowPerHeldKey`); a client told "created" is told of a row of its own
publisher and key, complete with its file (`RepliesAreYours`); "in progress" is said only while a
handler runs that will let go of the key (`MarkerHasRunner`). A page is a listing of at most two TTLs
and one query ago, although only delistings invalidate (`PagesAreRecent`); after a delisting only
reads in flight at its invalidation bring the resource back (`DelistedLeavesAnswers`); a listed row
carries a verdict of its own that found it original, unless a set_listed event listed it since; and the
file its publish stored is there, unless a verdict or an event listed it again during or after its
delisting (`ListedIsSound`). A publisher is told no less than by an earlier
report, and all together no more than was paid, whatever moves between the reads (`EarningsAddUp`).

*clients*: the key beside a wallet is that of the publisher the wallet is paid as, unless the wallet
was replaced or another was named (`PairedCredentials`); credentials a reset removed, no other process
holding them, never come back (`ResetIsForGood`); the wallet that pays to verify a resource is the one
its sales pay (`PaidByItsCreator`). Rows on screen are those of the filters on screen, except those of
a retry that was under way, or owed to a publish that waited, when the filters changed
(`RowsMatchFilters`); a session is connected because the
user asked, except that a connect under way undoes a disconnect, and pays from the address a page load
restores (`ConnectedByChoice`); no purchase begins while another is under way, clicks before the
dialog is drawn again included, unless the dialog was replaced or the page loaded
(`OnePaymentAtATime`). What the page says has changed was
changed, and what the server changed is said, will be, or was reported as an error, unless a busy
dialog was pointed elsewhere (`PageSaysWhatWasDone`); an opening of the publish dialog makes one row
and one more for each answer that said it failed (`OneRowPerOpening`).

Exceptions in a property ("unless ...") are histories of what the code does not exclude: each names a
race that is really there, and the property says that there is no other.

## 4. Where code and documents disagree

One disagreement has a run whose single property states the document and which TLC violates:

- `disputes_repeat` - `ruleDispute` says it is idempotent against repeated rulings; two that overlap,
  or one repeated after the first was cut short, pay twice.

Others, met while modelling and visible in the definitions, have no run of their own:

- `contract/README.md` promises the id as second topic of every event; `register` carries the creator.
  The listener filters by that topic and so ignores every registration (`Updated`).
- The documented transitions of `onchain_status` are not the only ones: two requests that both passed
  the check, or a request and a tick, take a row from `failed` to `registered` or back.
- `docs/creator-signed-registration-flow.md` says the server cannot sign for the creator; the retry
  worker and the backfill script register a stuck row in the platform's name, and the contract then
  has the platform as owner (`Tx(id, Platform, ...)`).
- The paywall says it refuses on disagreement rather than charge the wrong amount; it compares the row
  with a cached price and then charges a second, live one (`LiveRead`).
- `docs/delist-strategy-decision.md` has reconciliation detect drift between the listing on chain and
  in the database; `reconcile.ts` never reads the entry's `listed` (`CheckListing`). Delisting on chain
  is signed with the platform's key, so it succeeds only for entries the platform owns (`Executes`).
- POST price and POST ownership write what the body says, which nothing compares with what was signed
  (`PostChange`). POST register writes `registered` when the transaction of `signedXdr` succeeds,
  whatever that transaction was (`Signable`); the legacy flow, the worker and the backfill write it when
  `signAndSend` returns, whatever the result (`Await`, `Final`). Such a row may have no entry, or an
  entry of somebody else (`misled`).
- The backfill script registers every listed row that is not registered, fresh ones included, in the
  platform's name (`OnlyScriptTakesMore`): row and contract then name different owners, and no event
  says so (`Differs`).
- The listener begins at ledger 1 and keeps its cursor while there are no events. A network older than
  the RPC's retention, or a quiet contract, leaves the cursor behind what `getEvents` accepts, and every
  poll fails from then on (`Stranded`).
- Listing is said to be independent of the chain (`verify.ts`), and yet a set_listed event lists a row
  whose verdict was negative or is still missing (`SetListedEvent`). A file's row whose upload failed
  can be verified, listed and sold without a file (`UploadFails`).
- `mindbox_setup_wallet` called twice replaces the first wallet, whose secret is then nowhere.
- In the web client: overrides are never cleared by a refetch, and the dashboard's list is not fetched
  again after a dialog is confirmed; publishing sends neither signature nor Idempotency-Key, so a lost
  answer leaves a row behind and a server that requires signatures refuses it; `signedPublisherFetch`
  parses a URL that is relative when `VITE_API_URL` is empty, and throws; a dialog of the same kind
  that the keyboard points at another resource keeps its state and its prepared transaction, so that
  Try again in the purchase dialog pays for the other resource; a publish answered after the filters
  changed fetches the rows of the old filters anew, and shows them (`OnPublished`).

## 5. Liveness and fairness

`PendingSettles` (Registration, checked with the script of Backfill beside it): no row stays pending.
Assumed: time passes (`WF` on `Age`); the server, stopped however often, is up for good in the end
(`<>[]up`: a server that stops before every fifth minute retries nothing); each tick that can move moves (`WF` on `TickStep`: `setInterval`
keeps starting ticks, and every await returns or throws); and, per row, a call that is made again and
again succeeds at last (`SF` on `Lookup`, on `FinishWon`, and on the updates to `failed`). The strong
fairness says that the RPC and the database are not down for good; without it every attempt may throw
and the row stays pending for ever. Nothing is assumed of the ledger, of the publisher, of the script or
of the number of successful submissions: a retry that never lands exhausts its budget and the row
becomes `failed`.

`EventuallyPassed` (EventSync): every event of a closed ledger is behind the cursor in the end,
or the cursor is `Stranded`: older than the oldest ledger the RPC keeps, which the code does not
recover from. Assumed: ledgers keep closing and each poll that can move moves (`setInterval`); failures
are bounded by `MaxFailures`; an RPC that accepts the cursor serves the events from it to the last
closed ledger, page by page. The last is external: a server that scans only part of its retention in a
call answers an empty page before a gap, and strands the cursor earlier. `MaxLedger` ends time in the
model, so a behaviour whose polls are all rejected ends with the cursor stranded, as it would go on.

`ShutdownEnds` (Requests): a shutdown that began ends in an exit. Assumed: the timer of the deadline
fires (`WF` on `Deadline`) and the closing of the stores returns or throws (`WF` on `Exit`). No handler
and no client is promised to do anything. A Redis connection that never settles would break the second
assumption; closing it is not bounded in the code.

The other modules have no liveness properties: a request that waits on the network for ever is cut
off by the timeout middleware, and nothing else promises progress.

## 6. What is proved

TLAPS proves every safety property and every action property of the passing runs for all values of
the constants; the only assumptions are the named ASSUMEs of the modules (types of the constants,
distinctness of the null value from what it stands in for, and finiteness of the set of rows in
Registration and Ownership), which TLC evaluates in the runs.

- `VaultRegistryProofs`: `TypeCorrect`, `IndexCorrect`, `EventsReproduce`, `CustodyCorrect`,
  `RegisteredOnceHolds`, for every number of accounts and ids, every counter width and logs of every
  length. `IndexIsEnumeration` and `EventsReproduceState` are inductive given `TypeOK`. All mutators
  go through one lemma, `MutationShape` (one entry changes, on its owner's authorization, and the
  new event says how). Custody needs `EventsReproduceState`: the entry's owner is the one the log
  names, so the contract's `require_auth` of the entry is an authorization by the log. Single
  registration needs it too: an id the log speaks of exists, and so cannot be registered again.
  `PagesCorrect`: a page follows registration order, for any page size and cap. A position is the
  rank of an element in a finite set of numbers; `OrderInv` says that slot `i` holds the id of the
  register event of rank `i + 1`, and a lemma that in a finite set every rank up to its size is
  taken once. `RentKeepsRegistry`: `StorageSpec => Spec`, so that all of this holds of the contract
  that pays rent. `ManagedLives`: the rent's promise, on `RentInv` (no write is dated in the future).
- `RegistrationProofs`: `TypeCorrect`, `RegisteredOnChain`, `PlatformTakesStuckRows`,
  `SettledIsForGood`, and `UsesTheContract`: every behaviour of the server is, seen from the ledger,
  a behaviour of `VaultRegistry`, so the contract's theorems hold of the registry it fills. The
  inductive invariant `CoreInv` adds to the types what `RegisteredIsOnChain` rests on: `TxInv` (a
  transaction in flight is awaited by exactly the handler or tick it is attributed to, and who ignores
  its result sent the row's own registration), `RequestInv` and `TickInv` ("won" and any outcome that
  is taken for a success imply that the id exists or that the row is in `misled`), `RowInv`, and
  `LedgerInv`. That every outcome is told to the right one is the heart of it: a late answer must not
  reach a handler that has gone on to another row. `PlatformTakesStuckRows` needs besides that what the
  platform has under way was asked for, which holds because the worker takes only rows of its query
  and neither status nor age goes back to where it was. Each action has a lemma; `SettledForGood` follows
  because a settled row is in nobody's hands and only a row that is not registered can be taken up.
  `RegisteredOnChainBesideScript`, `OnlyTheScriptTakesMore` and `ScriptUsesTheContract` say the same of
  `BackfillSpec`: `ScriptInv` is what the script knows at each point and that only its own transaction
  is awaited by it, and the server's steps keep both.
- `PaywallProofs`: `TypeCorrect`, `ChargedIsRecent`, `PaidToRecent`, for any number of requests, any
  lifetimes, prices, wallets and lengths of time. `HistoryInv` ties the histories to the clock,
  `CacheInv` bounds the age of what a cache holds by the request that stored it, and `RequestInv`
  carries the bound through the control points; the arithmetic adds one request's `Duration` for
  what was read before it was stored. `ReceiptsTrue` (receipts and mismatches around no change) needs
  more than ages: `CalmInv` says that what a cache or a request holds is the present value unless a
  change fell within the time it may be old.
- `DisputesProofs`: `TypeCorrect`, `RecordedRefundsAreReal`, `RefundedOnceUndisturbed`,
  `OneOpenUnlessRaced`, for any number of pairs, filers, rulers, amounts and any cap. The properties
  alone are not inductive: that a ruling may pay needs to know that no transfer of the dispute is
  pending or landed. `TransferInv` ties a transfer that is awaited to the one ruling that sent it,
  `LandedInv` bounds the sequence numbers of what landed by the pool's, `RulerInv` says what each
  control point of a ruling knows (a success that was polled has landed), `InTurn` that an undisturbed
  dispute has at most one transfer, in flight or landed, and none while its ruling has not sent one,
  `PairInv` that who looked and found nothing open is right or has been overtaken.
- `LeasesProofs`: `TypeCorrect`, `AccessHasAnEnd`, `NoSecondCharge`, `SoldAsPaid`, for any number of
  buyers, readers, revokers and leases, any prices, tiers and request length. `WindowOK` ties the
  expiry to the payment, `RevokedOK` the stamp of a row to the revocations of its holder (a lease that
  survives one was being bought), `BuyerOK` and `ReaderOK` carry both through the control points; the
  arithmetic adds one request's `Duration`.
- `ServerProofs`, the listener: `NothingPassedOver`, for any number of polls that overlap, fail and
  stop, and `NothingPassedOverBeside` with the routes and the script. `LogInv` keeps the log in the
  order of its ledgers with the cursor within them; `PollOK` says that everything a poll has gone by
  has been handled, failed, cut off or is already behind the cursor, which is what saving relies on.
  The routes: `AgreesInTheEnd`. Agreement at rest rests on agreement in motion: `ChainInv` (a column
  of the entry is what the last event about it says, or what the row began with, or else `stray`),
  `AgreeInv` (a column of the row that is not `stray` is what an event says that is not earlier than
  the last one read), `TasksInv` (a landed change knows its
  event, which says what was signed) and `CutInv` (without overlap, what a full page has cut off is
  not handled later). `AllClearIsRight`: `AuditInv` says what an undisturbed audit has compared so
  far, `BookInv` that the counter counts the registered resources, so that equal counts leave no
  entry without a row. `OwnersUseTheContract`: `OwnerSpec => Chain!Spec`, the refinement of the
  contract.
- `ServerProofs`, the process: `CountExact`, `CleanExitServed`, for any number of requests at a time.
  `CountInv` says that a response has been released exactly when it has emitted an event, so that its
  second event finds the flag set, and counts a finite set that grows and shrinks by one; `HandlerInv`
  that only a request that came in is answered; `DrainInv` that a drain the deadline did not end has
  outlasted all whose responses were open when it began. `WindowsRespected`, for any limits
  and windows: `LimitInv` says that a limit remembers the last of what it has accepted, in order,
  and that what it forgot has left every window; those inside the window are then the last so many
  of the log (`Active`), so a request that is admitted is further than a window from the one that
  many places before it.
- `ResourcesProofs`, publishing: `MarkerRuns`, `RepliesYours`, `OneRow`, for any number of requests,
  publishers, keys, restarts and expiries. `StoreInv` (a record is kept under its owner's key, and its
  publish is running or has made its row with its file) and `HolderInv` (whoever made a row, or is about
  to, holds its key or is excused) are inductive with `PcInv` and `ToldInv`; one row per key follows
  because two requests cannot hold one key. The catalogue: `ListedSound`, `PagesRecent`,
  `DelistedLeaves`, for any resources, keys, reads, capacities and lifetimes. `RecentInv` gives every
  read in flight, the cached catalogue and every page the age at which its listing must still be in the
  history: a page made from the cached catalogue adds one lifetime to what that had left; `GoneInv` says
  that only what is marked stale lists what is gone; `RowsInv` ties a listed row to its verdict or its
  event, and a file that was stored to its delisting. The lemmas about `Put` say what a step of the page
  cache leaves in it: old pages and the new one. Reports: `EarningsAlwaysAddUp`, for any number of
  publishers, purchases and reports. What a publisher is owed (`Owed`) only grows, `ToldIsOwed` bounds
  every report by it, and `ReportInv` says that the resources a report has read include those of all
  payments told of before it began.
- `ClientsProofs`, the MCP servers: `CredentialsPaired`, `ResetForGood`, `CreatorPays`, for any number
  of processes, wallets, keys, resources and calls. `Sound` states the properties of one view of the
  credentials, so that they carry from memory to file and back; `CallOK` says what a call under way
  holds in its hands (a key that was registered, and by whom), which is what an answer writes back. The
  web client: `RowsMatch`, `ChosenConnection`, `OnePayment`, for any number of fetches, connects,
  purchases and loads. `FetchInv` says that an effect that was not aborted is of the filters on screen,
  and a retry, under way or owed to a publish, of those or of `late`; `WalletInv` that a connect under
  way and a stored address were the user's wish, `BuyInv` that the ref is set exactly while the dialog
  pays, that one purchase is under way then and none else, and that none is left unseen. The publisher's
  dialogs: `PageSays`, `OneRowEach`, for any number of resources, operations and openings. `ShownInv`
  says that a form on screen has at most one operation, for the resource it shows or both are
  `mistaken`; `DoneInv` that a change the page has not told of belongs to an operation that is done and
  not over; `PublishInv` counts rows, requests under way and the submission that is still allowed
  against openings and failures.

The inductive invariants of all these modules were model-checked as invariants before they were
proved. The parts of `MCResources` and `MCClients`, and `Requests`, `EventSync` and `Ownership`, are
proved of their own specifications, whose actions the runs explore.

Only model-checked: liveness - `PendingSettles`, `EventuallyPassed`, `ShutdownEnds` (fairness and
ENABLED are outside the prover's fragment). Where a definition could have been by recursion over data,
about which the installed provers cannot do induction, the models use what can be reasoned about: the
rank of an element for the order of a page, a window as the end of a log, a set of payments for a sum.
What the sums themselves come to is not modelled. No module contains a RECURSIVE operator.

## 7. What is not modelled, and why

- The byte-level validation and encoding of metadata, tags, prices and XDR; formatting, logging,
  metrics and tracing; internationalisation; the generated OpenAPI document; key hashing, nonces and
  signature verification (cryptography without a state machine).
- The x402 library, its facilitator, the Stellar SDK, RPC and consensus, Freighter, the verifying
  model, object storage: external, modelled by what the code relies on (a transaction is included at
  most once, late or never; an account's sequence numbers are used once; a simulation reads the current
  state; an upload succeeds or throws).
- The connection to Redis behind the shared rate limits: the script it runs does what `Consume` does,
  but a connection that never settles is outside the model (section 5).
- Read-only routes and tools: the registry proxy, lists and details, readiness probes, the preview and
  its cache, the read-only MCP tools; the lease sweeper, which only counts.
- Scripts that are run by hand on a fresh installation (seed, setup, end-to-end test), and the generated
  registry client package, whose calls are the actions of `VaultRegistry`.
- In the web client: a second tab sharing the storages, the preview dialog's contents, and the search of
  the purchases dashboard, where answers of two searches may arrive out of order.
- What an owner may rely on for the instance and the index entries of a contract nobody registers with:
  their expiry is in `VaultStorage`, no document says what is promised.
- Whether a payment settles when the handler fails after it was accepted: the failure is in `Paywall`,
  the answer is the x402 library's.

## 8. What is left

In this order:

1. An abstract specification of a refund (asked, decided, paid at most once) and of a registration
   (absent, wanted, present) that `Disputes` and `Registration` implement.
2. An abstract cache (an answer is a past value of the data, no older than a bound) that `Catalog` and
   `Paywall` both implement.
3. The payments row of a delivery granted by a lease, and disputes filed on one, as a composition of
   `Leases` with `Disputes`.
4. The web client's purchases page, whose searches may be answered out of order, and a second tab.
