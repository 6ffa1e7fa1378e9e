------------------------------ MODULE Dashboard ------------------------------
(***************************************************************************)
(* The publisher's side of the web client: the dashboard's list and the    *)
(* dialogs that edit a price, transfer a resource, register it on chain    *)
(* (prepared by the server, signed by Freighter, submitted to the server)  *)
(* or publish one.  App shows one dialog at a time; nothing holds the      *)
(* focus in it, so the keyboard reaches the buttons beneath, and a button  *)
(* of the same kind points the open dialog at another resource.            *)
(***************************************************************************)
EXTENDS Naturals, FiniteSets

CONSTANTS
  Owned,           \* the publisher's resources
  Ops,             \* bound: requests of the dialogs under way
  MaxOps,          \* bound: dialogs' requests in all
  MaxOpenings,     \* bound: openings of the publish dialog
  MaxFailures,     \* bound: publishes that are answered with an error
  NoOne

ASSUME DashboardAssumption ==
  /\ MaxOps \in Nat /\ MaxOpenings \in Nat /\ MaxFailures \in Nat
  /\ NoOne \notin Owned

VARIABLES
  config,          \* REQUIRE_REQUEST_SIGNATURE; is VITE_API_URL absolute
  made,            \* the columns of each row the server has written for the page
  tab,             \* App's tab
  listing,         \* the rows of the dashboard: what they say is registered
  modal,           \* activeModal, and the state of its component
  ops,             \* the runs of editPrice, transferOwnership, prepare and sign
  begun,           \* history: how many of them there have been
  overrides,       \* App's overrides: the columns of each resource
  mistaken,        \* history: a busy dialog was pointed away from, or at, them
  unheard,         \* history: columns written while the page was told otherwise
  publish,         \* the step of PublishModal
  pubs,            \* its requests under way: of the open dialog, and of closed ones
  rowsMade, openings, failures   \* history of publishing

dialogVars == <<config, made, tab, listing, modal, ops, begun, overrides, mistaken, unheard>>
publishVars == <<publish, pubs, rowsMade, openings, failures>>
dashboardVars == <<dialogVars, publishVars>>

(* editPrice, transferOwnership and register, by the column they change. *)
Kinds == {"price", "owner", "onchain"}

NoDialog == [kind |-> "none"]
NoOp == [step |-> "none"]
Loading == [status |-> "loading", registered |-> {}]

Opened(kind, r) ==
  [kind |-> kind, r |-> r, xdr |-> NoOne,
   status |-> IF kind = "onchain" THEN "preparing" ELSE "idle"]

DashboardInit ==
  /\ config \in [signatures : BOOLEAN, absolute : BOOLEAN]
  /\ made = [r \in Owned |-> {}]
  /\ tab = "catalog" /\ listing = Loading
  /\ modal = NoDialog /\ ops = [o \in Ops |-> NoOp] /\ begun = 0
  /\ overrides = [r \in Owned |-> {}]
  /\ mistaken = {} /\ unheard = [r \in Owned |-> {}]
  /\ publish = "closed" /\ pubs = [open |-> 0, closed |-> 0]
  /\ rowsMade = 0 /\ openings = 0 /\ failures = 0

----------------------------------------------------------------------------
(* The tabs and the list, which is fetched when the dashboard is shown and *)
(* neither patched nor fetched again when a dialog is confirmed.           *)

ShowTab(t) ==
  /\ tab # t
  /\ tab' = t
  /\ listing' = Loading
  /\ UNCHANGED <<config, made, modal, ops, begun, overrides, mistaken, unheard, publishVars>>

ListReturns ==
  /\ tab = "dashboard" /\ listing.status = "loading"
  /\ \/ listing' = [status |-> "success",
                    registered |-> {r \in Owned : "onchain" \in made[r]}]
     \/ listing' = [Loading EXCEPT !.status = "error"]
  /\ UNCHANGED <<config, made, tab, modal, ops, begun, overrides, mistaken, unheard, publishVars>>

RetryList ==
  /\ tab = "dashboard" /\ listing.status = "error"
  /\ listing' = Loading
  /\ UNCHANGED <<config, made, tab, modal, ops, begun, overrides, mistaken, unheard, publishVars>>

(* needsRegistration, of the row as it was listed. *)
NeedsRegistration(r) == r \notin listing.registered

----------------------------------------------------------------------------
(* Opening and closing. *)

Op(kind, r) == [kind |-> kind, for |-> r, tx |-> r, step |-> "prepare", of |-> "shown"]

FreeOp(o) == ops[o] = NoOp /\ begun < MaxOps

(* The runs of the dialog that goes, which nobody awaits any more. *)
Parted(how) ==
  [o \in Ops |-> IF ops[o] # NoOp /\ ops[o].of = "shown"
                   THEN [ops[o] EXCEPT !.of = how] ELSE ops[o]]

(* A button of a row, with the mouse or, over an open dialog, keyboard:*)
(* a dialog of another kind is unmounted, one of the same kind goes on     *)
(* with its state and the other resource.                                  *)
Offered(kind, r) ==
  /\ tab = "dashboard" /\ listing.status = "success"
  /\ kind = "onchain" => NeedsRegistration(r)

Repoint(kind, r) ==
  /\ Offered(kind, r)
  /\ modal.kind = kind /\ modal.r # r
  /\ modal' = [modal EXCEPT !.r = r]
  /\ mistaken' = IF modal.xdr # NoOne \/ \E o \in Ops : ops[o] # NoOp /\ ops[o].of = "shown"
                 THEN mistaken \cup {modal.r, r} ELSE mistaken
  /\ UNCHANGED <<config, made, tab, listing, ops, begun, overrides, unheard, publishVars>>

OpenForm(kind, r) ==
  /\ kind # "onchain" /\ Offered(kind, r)
  /\ modal.kind # kind
  /\ modal' = Opened(kind, r)
  /\ ops' = Parted("replaced")
  /\ UNCHANGED <<config, made, tab, listing, begun, overrides, mistaken, unheard, publishVars>>

(* The register dialog prepares its transaction as it is mounted. *)
OpenRegister(r, o) ==
  /\ Offered("onchain", r)
  /\ modal.kind # "onchain" /\ FreeOp(o)
  /\ modal' = Opened("onchain", r)
  /\ ops' = [Parted("replaced") EXCEPT ![o] = Op("onchain", r)]
  /\ begun' = begun + 1
  /\ UNCHANGED <<config, made, tab, listing, overrides, mistaken, unheard, publishVars>>

(* Preview and Buy, on the catalogue's tab. *)
OpenOther ==
  /\ tab = "catalog" /\ modal.kind # "other"
  /\ modal' = [Opened("other", NoOne) EXCEPT !.status = "idle"]
  /\ ops' = Parted("replaced")
  /\ UNCHANGED <<config, made, tab, listing, begun, overrides, mistaken, unheard, publishVars>>

(* Not while the dialog waits for the server or the wallet; except that    *)
(* the register dialog may be closed while it prepares.                    *)
Cancellable == modal.status # "busy"

(* Faulty variant: Cancel is not disabled. *)
CancelAnyway ==
  /\ modal # NoDialog
  /\ modal' = NoDialog
  /\ ops' = Parted("closed")
  /\ UNCHANGED <<config, made, tab, listing, begun, overrides, mistaken, unheard, publishVars>>

Close ==
  /\ modal # NoDialog /\ Cancellable
  /\ modal' = NoDialog
  /\ ops' = Parted("closed")
  /\ UNCHANGED <<config, made, tab, listing, begun, overrides, mistaken, unheard, publishVars>>

----------------------------------------------------------------------------
(* Prepare, sign, submit. *)

(* The submit button of a form; Try again of the register dialog. *)
Start(o) ==
  /\ modal.kind \in Kinds /\ FreeOp(o)
  /\ IF modal.kind = "onchain"
       THEN modal.status = "failed" /\ modal' = [modal EXCEPT !.status = "preparing"]
       ELSE modal.status \in {"idle", "error"} /\ modal' = [modal EXCEPT !.status = "busy"]
  /\ ops' = [ops EXCEPT ![o] = Op(modal.kind, modal.r)]
  /\ begun' = begun + 1
  /\ UNCHANGED <<config, made, tab, listing, overrides, mistaken, unheard, publishVars>>

(* Sign & Submit: what was prepared, in the name of what is shown. *)
SignPrepared(o) ==
  /\ modal.kind = "onchain" /\ modal.status = "ready" /\ FreeOp(o)
  /\ modal' = [modal EXCEPT !.status = "busy"]
  /\ ops' = [ops EXCEPT ![o] = [Op("onchain", modal.r) EXCEPT !.tx = modal.xdr, !.step = "sign"]]
  /\ begun' = begun + 1
  /\ UNCHANGED <<config, made, tab, listing, overrides, mistaken, unheard, publishVars>>

Over(o) == ops' = [ops EXCEPT ![o] = NoOp]

(* signedPublisherFetch parses its URL, which must be absolute; a mutation *)
(* it sends is signed, which the server may require.                       *)
Sendable(signed) == ~signed \/ config.absolute
Admitted(signed) == signed \/ ~config.signatures

(* The server builds the transaction: to register a row that is not, to    *)
(* change the price or the owner of any, for a request that is signed.     *)
BuildsRegister(r) == "onchain" \notin made[r]
BuildsForm == Sendable(TRUE)
Builds(op) == IF op.kind = "onchain" THEN BuildsRegister(op.for) ELSE BuildsForm

(* A prepared transaction: a form goes on to the wallet; the register      *)
(* dialog waits for its button.                                            *)
PreparedForm(o) ==
  /\ ops[o] # NoOp /\ ops[o].step = "prepare" /\ ops[o].kind # "onchain"
  /\ Builds(ops[o])
  /\ ops' = [ops EXCEPT ![o].step = "sign"]
  /\ UNCHANGED <<config, made, tab, listing, modal, begun, overrides, mistaken, unheard, publishVars>>

PreparedRegister(o) ==
  /\ ops[o] # NoOp /\ ops[o].step = "prepare" /\ ops[o].kind = "onchain"
  /\ Builds(ops[o])
  /\ Over(o)
  /\ modal' = IF ops[o].of = "shown"
               THEN [modal EXCEPT !.status = "ready", !.xdr = ops[o].for] ELSE modal
  /\ UNCHANGED <<config, made, tab, listing, begun, overrides, mistaken, unheard, publishVars>>

(* checkNetwork: a form gives up when the wallet is on another network. *)
WrongNetwork(o) ==
  /\ ops[o] # NoOp /\ ops[o].step = "prepare" /\ ops[o].kind # "onchain"
  /\ Builds(ops[o])
  /\ Over(o)
  /\ modal' = IF ops[o].of = "shown" THEN [modal EXCEPT !.status = "idle"] ELSE modal
  /\ UNCHANGED <<config, made, tab, listing, begun, overrides, mistaken, unheard, publishVars>>

Signed(o) ==
  /\ ops[o] # NoOp /\ ops[o].step = "sign" /\ Sendable(TRUE)
  /\ ops' = [ops EXCEPT ![o].step = "submit"]
  /\ UNCHANGED <<config, made, tab, listing, modal, begun, overrides, mistaken, unheard, publishVars>>

(* The server submits the transaction, waits for it and writes the row it  *)
(* was asked about.                                                        *)
Serve(o) ==
  /\ ops[o] # NoOp /\ ops[o].step = "submit"
  /\ made' = [made EXCEPT ![ops[o].for] = @ \cup {ops[o].kind}]
  /\ ops' = [ops EXCEPT ![o].step = "done"]
  /\ UNCHANGED <<config, tab, listing, modal, begun, overrides, mistaken, unheard, publishVars>>

(* What is thrown on the way: no wallet, a rejection, a refusal, an answer *)
(* that says nothing of what the server did or went on to do.              *)
Fails(o) ==
  /\ ops[o] # NoOp
  /\ Over(o)
  /\ unheard' = IF ops[o].step = "done"
                THEN [unheard EXCEPT ![ops[o].for] = @ \cup {ops[o].kind}] ELSE unheard
  /\ modal' = IF ops[o].of # "shown" THEN modal
               ELSE [modal EXCEPT !.status = IF ops[o].kind = "onchain" THEN "failed" ELSE "error"]
  /\ UNCHANGED <<config, made, tab, listing, begun, overrides, mistaken, publishVars>>

(* applyOverride patches the catalogue; whatever dialog is open is closed. *)
Confirm(o, r) ==
  /\ overrides' = [overrides EXCEPT ![r] = @ \cup {ops[o].kind}]
  /\ modal' = NoDialog
  /\ ops' = [Parted("replaced") EXCEPT ![o] = NoOp]

(* The register dialog confirms for the resource it was asked to register, *)
(* shown or not.                                                           *)
ConfirmedRegister(o) ==
  /\ ops[o] # NoOp /\ ops[o].step = "done" /\ ops[o].kind = "onchain"
  /\ Confirm(o, ops[o].for)
  /\ UNCHANGED <<config, made, tab, listing, begun, mistaken, unheard, publishVars>>

(* A form confirms as it is drawn, for the resource it shows by then; *)
ConfirmedForm(o) ==
  /\ ops[o] # NoOp /\ ops[o].step = "done" /\ ops[o].kind # "onchain"
  /\ ops[o].of = "shown"
  /\ Confirm(o, modal.r)
  /\ UNCHANGED <<config, made, tab, listing, begun, mistaken, unheard, publishVars>>

(* one that is gone is not drawn any more. *)
ConfirmedUnseen(o) ==
  /\ ops[o] # NoOp /\ ops[o].step = "done" /\ ops[o].kind # "onchain"
  /\ ops[o].of # "shown"
  /\ unheard' = IF ops[o].of = "replaced"
                THEN [unheard EXCEPT ![ops[o].for] = @ \cup {ops[o].kind}] ELSE unheard
  /\ Over(o)
  /\ UNCHANGED <<config, made, tab, listing, modal, begun, overrides, mistaken, publishVars>>

----------------------------------------------------------------------------
(* Publishing, whose dialog can be closed at any time and which sends no   *)
(* Idempotency-Key: an answer that is lost leaves a row behind.            *)

OpenPublish ==
  /\ publish = "closed" /\ openings < MaxOpenings
  /\ publish' = "form"
  /\ openings' = openings + 1
  /\ UNCHANGED <<dialogVars, pubs, rowsMade, failures>>

ClosePublish ==
  /\ publish # "closed"
  /\ publish' = "closed"
  /\ pubs' = [open |-> 0, closed |-> pubs.open + pubs.closed]
  /\ UNCHANGED <<dialogVars, rowsMade, openings, failures>>

(* Faulty variant: the button is not disabled while a request is under way.*)
PublishTwice ==
  /\ publish \in {"form", "error", "submitting"} /\ pubs.open < 2
  /\ failures + pubs.open + pubs.closed < MaxFailures
  /\ publish' = "submitting"
  /\ pubs' = [pubs EXCEPT !.open = @ + 1]
  /\ UNCHANGED <<dialogVars, rowsMade, openings, failures>>

SubmitPublish ==
  /\ publish \in {"form", "error"}
  /\ failures + pubs.open + pubs.closed < MaxFailures
  /\ publish' = "submitting"
  /\ pubs' = [pubs EXCEPT !.open = @ + 1]
  /\ UNCHANGED <<dialogVars, rowsMade, openings, failures>>

(* The server makes the row unless it refuses; the catalogue is fetched    *)
(* again, the dashboard is not.                                            *)
Published(whose) ==
  /\ pubs[whose] > 0 /\ Admitted(FALSE)
  /\ rowsMade' = rowsMade + 1
  /\ pubs' = [pubs EXCEPT ![whose] = @ - 1]
  /\ publish' = IF whose = "open" THEN "success" ELSE publish
  /\ UNCHANGED <<dialogVars, openings, failures>>

PublishFails(whose) ==
  /\ pubs[whose] > 0
  /\ rowsMade' \in {rowsMade} \cup (IF Admitted(FALSE) THEN {rowsMade + 1} ELSE {})
  /\ failures' = failures + 1
  /\ pubs' = [pubs EXCEPT ![whose] = @ - 1]
  /\ publish' = IF whose = "open" THEN "error" ELSE publish
  /\ UNCHANGED <<dialogVars, openings>>

DialogNext ==
  \/ \E t \in {"catalog", "dashboard"} : ShowTab(t)
  \/ ListReturns \/ RetryList \/ OpenOther \/ Close
  \/ \E r \in Owned, kind \in Kinds : Repoint(kind, r) \/ OpenForm(kind, r)
  \/ \E r \in Owned, o \in Ops : OpenRegister(r, o)
  \/ \E o \in Ops :
       \/ Start(o) \/ PreparedForm(o) \/ PreparedRegister(o) \/ WrongNetwork(o)
       \/ SignPrepared(o) \/ Signed(o) \/ Serve(o) \/ Fails(o)
       \/ ConfirmedRegister(o) \/ ConfirmedForm(o) \/ ConfirmedUnseen(o)

PublishNext ==
  \/ OpenPublish \/ ClosePublish \/ SubmitPublish
  \/ \E whose \in {"open", "closed"} : Published(whose) \/ PublishFails(whose)

DashboardNext == DialogNext \/ PublishNext

DashboardSpec == DashboardInit /\ [][DashboardNext]_dashboardVars

----------------------------------------------------------------------------
(* Properties. *)

(* What the page says has changed was changed by the server, and what the  *)
(* server changed for the page is said, will be, or was reported as an     *)
(* error: dialogs that are closed, replaced or overtaken by another's      *)
(* confirmation lose nothing else, unless a busy dialog was pointed at     *)
(* another resource.                                                       *)
PageSaysWhatWasDone ==
  \A r \in Owned \ mistaken :
    /\ overrides[r] \subseteq made[r]
    /\ \A column \in made[r] \ (overrides[r] \cup unheard[r]) :
         \E o \in Ops : ops[o] # NoOp /\ ops[o].for = r /\ ops[o].kind = column

(* An opening of the publish dialog makes one row, and one more for each   *)
(* answer that said it had failed.                                         *)
OneRowPerOpening == rowsMade <= openings + failures
=============================================================================
