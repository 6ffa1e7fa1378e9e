-------------------------------- MODULE Browser -------------------------------
(***************************************************************************)
(* A session of the web client (src/web): the catalogue with its filters,  *)
(* retries and offline copies (useAsync, useCatalog, catalogCache), the    *)
(* connection to the Freighter wallet (useWalletConnection) and the        *)
(* purchase dialog (BuyModal, useBuyResource, x402Buy).  React applies the *)
(* state set by a click, or by one callback, before the next event; only   *)
(* awaits interleave.  What a callback that waits refers to is what was on *)
(* screen when it began.                                                   *)
(***************************************************************************)
EXTENDS Integers, FiniteSets

CONSTANTS
  Filters,         \* filters of the catalogue
  Fetches,         \* bound: catalogue fetches under way
  MaxConnects,     \* bound: connect calls under way
  Addresses,       \* accounts of the Freighter wallet
  Payments,        \* bound: purchases under way
  MaxLoads,        \* bound: page loads after the first
  Nobody

ASSUME BrowserAssumption ==
  /\ MaxConnects \in Nat /\ MaxLoads \in Nat
  /\ Nobody \notin Addresses

VARIABLES
  filters,         \* App's filters
  fetches,         \* the runs of useAsync
  catalog,         \* status and data of useAsync, stale of useCatalog
  copies,          \* the filters whose last answer sessionStorage holds
  waiting,         \* the filters whose retry an unanswered publish will call
  late,            \* history: the filters that may still be asked for after a change
  wallet,          \* status and address of useWalletConnection
  stored,          \* mindbox-wallet-address in localStorage
  account,         \* the account Freighter is on
  connects,        \* how many connect calls are under way
  dialog,          \* BuyModal: closed, or the status of useBuyResource
  inFlight,        \* the ref of the mounted useBuyResource
  purchases,       \* the purchases under way, unless their dialog was replaced
  loads,           \* history: page loads
  wanted           \* history: the last thing the user asked of the wallet

retryVars == <<waiting, late>>
catalogVars == <<filters, fetches, catalog, copies, retryVars>>
walletVars == <<wallet, stored, account, connects, wanted>>
buyVars == <<dialog, inFlight, purchases>>
browserVars == <<catalogVars, walletVars, buyVars, loads>>

NoFetch == [kind |-> "none"]
Fetch(kind, f) == [kind |-> kind, filters |-> f, aborted |-> FALSE]

(* What a page shows before anything has come back. *)
Fresh(f) == [status |-> "loading", rows |-> Nobody, stale |-> FALSE]
Restored == IF stored = Nobody THEN "disconnected" ELSE "restoring"

BrowserInit ==
  /\ filters \in Filters
  /\ \E k \in Fetches :
       fetches = [j \in Fetches |-> IF j = k THEN Fetch("effect", filters) ELSE NoFetch]
  /\ catalog = Fresh(filters)
  /\ copies = {} /\ waiting = {} /\ late = {}
  /\ stored = Nobody /\ wallet = [status |-> "disconnected", address |-> Nobody]
  /\ account \in Addresses
  /\ connects = 0
  /\ dialog = "closed" /\ inFlight = FALSE /\ purchases = [p \in Payments |-> "none"]
  /\ loads = 0
  /\ wanted = "nothing"

----------------------------------------------------------------------------
(* The catalogue. *)

Free(k) == fetches[k] = NoFetch

(* The effect of useAsync: the run of the old filters is aborted; a retry  *)
(* of theirs is not, nor is one that a publish has yet to call.            *)
ChangeFilters(k) ==
  /\ Free(k)
  /\ \E f \in Filters \ {filters} :
       /\ filters' = f
       /\ fetches' = [j \in Fetches |->
            IF j = k THEN Fetch("effect", f)
            ELSE IF fetches[j].kind = "effect" THEN [fetches[j] EXCEPT !.aborted = TRUE]
            ELSE fetches[j]]
  /\ late' = waiting \cup {fetches[j].filters : j \in {i \in Fetches : fetches[i].kind = "retry"}}
  /\ catalog' = [catalog EXCEPT !.status = "loading"]
  /\ UNCHANGED <<copies, waiting, walletVars, buyVars, loads>>

(* retry, as it was memoised for some filters, whatever is on screen now. *)
RetryOf(k, f) ==
  /\ Free(k)
  /\ fetches' = [fetches EXCEPT ![k] = Fetch("retry", f)]
  /\ catalog' = [catalog EXCEPT !.status = "loading"]

(* The button of the error banner. *)
Retry(k) ==
  /\ RetryOf(k, filters)
  /\ UNCHANGED <<filters, copies, retryVars, walletVars, buyVars, loads>>

(* The publish dialog is submitted, and keeps the onPublished it has now;  *)
(* it may be closed, opened and submitted again.                           *)
PublishStarts ==
  /\ waiting' = waiting \cup {filters}
  /\ UNCHANGED <<filters, fetches, catalog, copies, late, walletVars, buyVars, loads>>

(* The resource has been published; another may be waiting all the same.  *)
OnPublished(k) ==
  /\ \E f \in waiting : RetryOf(k, f) /\ waiting' \in {waiting, waiting \ {f}}
  /\ UNCHANGED <<filters, copies, late, walletVars, buyVars, loads>>

(* Faulty variant: an aborted run delivers its rows all the same. *)
ShownUnchecked(fetch, stale) ==
  catalog' = [status |-> "success", rows |-> fetch.filters, stale |-> stale]

(* The fetcher sets the banner of useCatalog; only then does useAsync look *)
(* whether the run has been aborted.                                       *)
Shown(fetch, stale) ==
  catalog' = IF fetch.aborted THEN [catalog EXCEPT !.stale = stale]
             ELSE [status |-> "success", rows |-> fetch.filters, stale |-> stale]

FetchReturns(k) ==
  /\ ~Free(k)
  /\ copies' = copies \cup {fetches[k].filters}
  /\ Shown(fetches[k], FALSE)
  /\ fetches' = [fetches EXCEPT ![k] = NoFetch]
  /\ UNCHANGED <<filters, retryVars, walletVars, buyVars, loads>>

(* The network fails: the copy of the last answer, or an error. *)
FetchFails(k) ==
  /\ ~Free(k)
  /\ IF fetches[k].filters \in copies THEN Shown(fetches[k], TRUE)
     ELSE catalog' = IF fetches[k].aborted THEN catalog ELSE [catalog EXCEPT !.status = "error"]
  /\ fetches' = [fetches EXCEPT ![k] = NoFetch]
  /\ UNCHANGED <<filters, copies, retryVars, walletVars, buyVars, loads>>

----------------------------------------------------------------------------
(* The wallet. *)

(* Freighter confirms the stored address, or the session is dropped. *)
Restore ==
  /\ wallet.status = "restoring"
  /\ \/ /\ account = stored
        /\ wallet' = [status |-> "connected", address |-> stored]
        /\ UNCHANGED stored
     \/ /\ wallet' = [wallet EXCEPT !.status = "disconnected"]
        /\ stored' = Nobody
  /\ UNCHANGED <<catalogVars, account, connects, wanted, buyVars, loads>>

(* The button is there unless the wallet is connected or being restored. *)
Connect ==
  /\ wallet.status \in {"disconnected", "error"}
  /\ connects < MaxConnects
  /\ connects' = connects + 1
  /\ wanted' = "connect"
  /\ UNCHANGED <<catalogVars, wallet, stored, account, buyVars, loads>>

(* What Freighter answers is taken whatever has happened meanwhile. *)
ConnectReturns ==
  /\ connects > 0
  /\ connects' = connects - 1
  /\ \/ /\ wallet' = [status |-> "connected", address |-> account]
        /\ stored' = account
     \/ /\ wallet' = [wallet EXCEPT !.status = "error"]
        /\ UNCHANGED stored
  /\ UNCHANGED <<catalogVars, account, wanted, buyVars, loads>>

(* A disconnect that a connect still under way will undo. *)
Undone == IF connects = 0 THEN "disconnect" ELSE "both"

(* Faulty variant: the address stays in localStorage. *)
DisconnectStored ==
  /\ wallet.status = "connected"
  /\ wallet' = [status |-> "disconnected", address |-> Nobody]
  /\ wanted' = Undone
  /\ UNCHANGED <<catalogVars, stored, account, connects, buyVars, loads>>

Disconnect ==
  /\ wallet.status = "connected"
  /\ wallet' = [status |-> "disconnected", address |-> Nobody]
  /\ stored' = Nobody
  /\ wanted' = Undone
  /\ UNCHANGED <<catalogVars, account, connects, buyVars, loads>>

(* The user picks another account in the extension. *)
SwitchAccount ==
  /\ account' \in Addresses \ {account}
  /\ UNCHANGED <<catalogVars, wallet, stored, connects, wanted, buyVars, loads>>

----------------------------------------------------------------------------
(* The purchase dialog. *)

(* A new dialog, with a hook of its own. *)
OpenDialog ==
  /\ dialog = "closed"
  /\ dialog' = "idle" /\ inFlight' = FALSE
  /\ UNCHANGED <<catalogVars, walletVars, purchases, loads>>

(* A purchase under way when its dialog is closed goes on unseen. *)
Closed ==
  /\ dialog' = "closed" /\ inFlight' = FALSE
  /\ purchases' = [p \in Payments |-> IF purchases[p] = "shown" THEN "unseen" ELSE purchases[p]]
  /\ UNCHANGED <<catalogVars, walletVars, loads>>

(* Faulty variant: the dialog can be closed while the payment is made. *)
CloseAnyway == dialog # "closed" /\ Closed

(* Not during a payment, with the button, the backdrop or Escape: handleClose *)
(* and the key's listener reset the hook.                                    *)
CloseDialog == dialog \notin {"closed", "paying"} /\ Closed

(* Pay and Try again.  They go when the dialog is drawn as paying: a click  *)
(* that comes before finds the ref set.  The Buy button of another resource *)
(* renames the dialog and leaves its state.                                 *)
BuyOffered == dialog \notin {"closed", "success"} /\ wallet.status = "connected"

Buy(p) ==
  /\ BuyOffered /\ ~inFlight
  /\ purchases[p] = "none"
  /\ inFlight' = TRUE /\ dialog' = "paying"
  /\ purchases' = [purchases EXCEPT ![p] = "shown"]
  /\ UNCHANGED <<catalogVars, walletVars, loads>>

(* What a purchase ends with shows in the dialog that began it, if it is   *)
(* there still.                                                            *)
Ended(p, status) ==
  /\ purchases[p] # "none"
  /\ purchases' = [purchases EXCEPT ![p] = "none"]
  /\ IF purchases[p] = "shown" THEN dialog' = status /\ inFlight' = FALSE
     ELSE UNCHANGED <<dialog, inFlight>>
  /\ UNCHANGED <<catalogVars, walletVars, loads>>

(* purchaseResource has the content, *)
Delivered(p) == Ended(p, "success")

(* or something throws: the wallet is on another network or does not sign, *)
(* the answer is lost, cannot be read or says that it failed, after the    *)
(* payment was settled or before.                                          *)
NotDelivered(p) == Ended(p, "error")

(* The dialog goes with the page, or with what replaces it, and no one     *)
(* waits for its purchase any more.                                        *)
Abandon ==
  /\ dialog' = "closed" /\ inFlight' = FALSE
  /\ purchases' = [p \in Payments |-> IF purchases[p] = "shown" THEN "none" ELSE purchases[p]]

(* Nothing holds the focus in the dialog: the keyboard reaches a Preview   *)
(* button of the page beneath, whose dialog takes its place.               *)
PreviewBeneath ==
  /\ dialog # "closed"
  /\ Abandon
  /\ UNCHANGED <<catalogVars, walletVars, loads>>

(* A page load: only the storages outlive it. *)
Load ==
  /\ loads < MaxLoads
  /\ loads' = loads + 1
  /\ filters' \in Filters
  /\ \E k \in Fetches :
       fetches' = [j \in Fetches |->
         IF j = k THEN Fetch("effect", filters') ELSE NoFetch]
  /\ catalog' = Fresh(filters')
  /\ wallet' = [status |-> Restored, address |-> Nobody]
  /\ connects' = 0
  /\ waiting' = {} /\ late' = {}
  /\ Abandon
  /\ UNCHANGED <<copies, stored, account, wanted>>

CatalogNext ==
  \/ \E k \in Fetches : \/ ChangeFilters(k) \/ Retry(k) \/ OnPublished(k)
                        \/ FetchReturns(k) \/ FetchFails(k)
  \/ PublishStarts

SessionNext ==
  \/ Restore \/ Connect \/ ConnectReturns \/ Disconnect \/ SwitchAccount
  \/ OpenDialog \/ CloseDialog \/ PreviewBeneath
  \/ \E p \in Payments : Buy(p) \/ Delivered(p) \/ NotDelivered(p)

BrowserNext == CatalogNext \/ SessionNext \/ Load

BrowserSpec == BrowserInit /\ [][BrowserNext]_browserVars

----------------------------------------------------------------------------
(* Properties. *)

(* useAsync, PublishModal: rows shown as a result are those of the filters *)
(* on screen, or of filters for which, when they were last changed, a      *)
(* retry was under way or a publish waited that would call one.            *)
RowsMatchFilters ==
  catalog.status = "success" => catalog.rows \in {filters} \cup late

(* A session is connected because the user asked for it and has not taken  *)
(* it back since, through page loads and whatever Freighter answers late;  *)
(* except that a connect under way undoes a disconnect.  What a connected  *)
(* session would pay from is what a page load restores.                    *)
ConnectedByChoice ==
  wallet.status = "connected" =>
    /\ wanted \in {"connect", "both"}
    /\ wallet.address = stored

(* BuyModal, useBuyResource: whatever is clicked, closed and opened again, *)
(* no purchase begins while another is under way, and none is offered that *)
(* would, unless the dialog was replaced or the page loaded meanwhile.     *)
OnePaymentAtATime ==
  /\ \A p, q \in Payments : purchases[p] # "none" /\ purchases[q] # "none" => p = q
  /\ dialog # "paying" => \A p \in Payments : purchases[p] = "none"
=============================================================================
