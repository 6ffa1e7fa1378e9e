---------------------------- MODULE VaultRegistry ----------------------------
(***************************************************************************)
(* The Soroban contract contract/contracts/vault-registry/src/lib.rs: who  *)
(* owns each resource, what it costs, and the enumeration clients page     *)
(* through.  One action per entry point that succeeds.  An entry point     *)
(* that returns an Error, traps, or lacks a required authorization rolls   *)
(* the whole invocation back, so it is a stuttering step here; the guards  *)
(* below are exactly the conditions under which it commits.                *)
(*                                                                         *)
(* Data is abstract: prices, metadata pointers and tag vectors are opaque  *)
(* values, and the subsets Valid... are those that pass the contract's     *)
(* validation (price > 0, at most 512 bytes, at most 8 tags of 1..32       *)
(* bytes).  Storage rent is added by module VaultStorage.                  *)
(***************************************************************************)
EXTENDS Integers, Sequences, FiniteSets

CONSTANTS
  Accounts,        \* Stellar addresses that can authorize an invocation
  Ids,             \* resource ids
  Prices, ValidPrices,
  Metadata, ValidMetadata,
  Tags, ValidTags,
  U32Max,          \* the largest u32, 2^32 - 1 in the deployed contract
  PageCap,         \* the cap on the page size of list, 20
  MaxEvents,       \* bound: how many events a behaviour emits
  NoValue          \* an absent storage entry, and the unit payload ()

(* What a recorded resource holds; its id is the storage key. *)
Resource ==
  [creator : Accounts, price : Prices, metadata : Metadata,
   listed : BOOLEAN, tags : Tags]

ASSUME RegistryAssumption ==
  /\ ValidPrices \subseteq Prices
  /\ ValidMetadata \subseteq Metadata
  /\ ValidTags \subseteq Tags
  /\ U32Max \in Nat
  /\ PageCap \in Nat \ {0}
  /\ MaxEvents \in Nat
  /\ NoValue \notin Resource
  /\ NoValue \notin Ids

VARIABLES
  resources,       \* DataKey::Resource(id): the resource, or NoValue
  index,           \* DataKey::Index(i): the id registered i-th, or NoValue
  count,           \* DataKey::Count, a u32
  events,          \* the contract events emitted so far, in ledger order
  signers          \* history: the account that authorized each event

vars == <<resources, index, count, events, signers>>

Exists(id) == resources[id] # NoValue

Slots == 0 .. U32Max - 1

Registered == {id \in Ids : Exists(id)}

(* An event: its symbol, the second topic, and the payload. *)
Event(symbol, topic, data) == [symbol |-> symbol, topic |-> topic, data |-> data]

Emit(auth, event) ==
  /\ Len(events) < MaxEvents
  /\ events' = Append(events, event)
  /\ signers' = Append(signers, auth)

Init ==
  /\ resources = [id \in Ids |-> NoValue]
  /\ index = [i \in Slots |-> NoValue]
  /\ count = 0
  /\ events = <<>>
  /\ signers = <<>>

----------------------------------------------------------------------------
(* Entry points.  auth is the account whose authorization the invocation   *)
(* carries: require_auth succeeds for it and for nobody else.              *)

(* Faulty variant: the AlreadyRegistered test is missing. *)
MayRegisterAgain(auth, creator, id, price, meta, tags) ==
  /\ auth = creator
  /\ price \in ValidPrices /\ meta \in ValidMetadata /\ tags \in ValidTags
  /\ count < U32Max

MayRegister(auth, creator, id, price, meta, tags) ==
  /\ auth = creator
  /\ price \in ValidPrices
  /\ meta \in ValidMetadata
  /\ tags \in ValidTags
  /\ ~Exists(id)
  /\ count < U32Max           \* count + 1 traps otherwise (overflow-checks)

(* The new entry, the next index slot, the counter and the event.  The     *)
(* event's second topic is the creator, and its payload the id.            *)
Register(auth, creator, id, price, meta, tags) ==
  /\ MayRegister(auth, creator, id, price, meta, tags)
  /\ resources' = [resources EXCEPT ![id] =
       [creator |-> creator, price |-> price, metadata |-> meta,
        listed |-> TRUE, tags |-> tags]]
  /\ index' = [index EXCEPT ![count] = id]
  /\ count' = count + 1
  /\ Emit(auth, Event("register", creator, id))

(* load, then require_auth of the recorded creator. *)
OwnedBy(auth, id) == Exists(id) /\ auth = resources[id].creator

(* The mutators never touch the enumeration. *)
Keep == UNCHANGED <<index, count>>

SetPrice(auth, id, price) ==
  /\ price \in ValidPrices
  /\ OwnedBy(auth, id)
  /\ resources' = [resources EXCEPT ![id].price = price]
  /\ Emit(auth, Event("setprice", id, price))
  /\ Keep

UpdateMetadata(auth, id, meta) ==
  /\ OwnedBy(auth, id)
  /\ meta \in ValidMetadata
  /\ resources' = [resources EXCEPT ![id].metadata = meta]
  /\ Emit(auth, Event("updmeta", id, NoValue))
  /\ Keep

SetTags(auth, id, tags) ==
  /\ tags \in ValidTags
  /\ OwnedBy(auth, id)
  /\ resources' = [resources EXCEPT ![id].tags = tags]
  /\ Emit(auth, Event("settags", id, tags))
  /\ Keep

TransferOwnership(auth, id, new) ==
  /\ OwnedBy(auth, id)
  /\ resources' = [resources EXCEPT ![id].creator = new]
  /\ Emit(auth, Event("transfer", id, new))
  /\ Keep

(* Faulty variant: the listing changes with no event. *)
SetListedSilently(auth, id, listed) ==
  /\ OwnedBy(auth, id)
  /\ resources' = [resources EXCEPT ![id].listed = listed]
  /\ UNCHANGED <<events, signers>>
  /\ Keep

(* set_listed, and delist, which is set_listed with false. *)
SetListed(auth, id, listed) ==
  /\ OwnedBy(auth, id)
  /\ resources' = [resources EXCEPT ![id].listed = listed]
  /\ Emit(auth, Event("setlisted", id, listed))
  /\ Keep

----------------------------------------------------------------------------
(* list(start, limit): walk the index from start, pass over slots that     *)
(* resolve to nothing, stop at the capped page size.                       *)

Smaller(a, b) == IF a <= b THEN a ELSE b

(* How many elements of S are met on the way up to i. *)
Rank(i, S) == Cardinality({j \in S : j <= i})

Resolved(start) == {i \in Slots : start <= i /\ i < count /\ index[i] \in Registered}

Page(start, size) ==
  LET slots == Resolved(start) IN
  [k \in 1 .. Smaller(Cardinality(slots), size) |->
     index[CHOOSE i \in slots : Rank(i, slots) = k]]

(* Faulty variant: one resource too many on a full page. *)
ListPastCap(start, limit) == Page(start, Smaller(limit, PageCap) + 1)

List(start, limit) == Page(start, Smaller(limit, PageCap))

----------------------------------------------------------------------------
Next ==
  \E auth \in Accounts, id \in Ids :
    \/ \E c \in Accounts, p \in Prices, m \in Metadata, t \in Tags :
         Register(auth, c, id, p, m, t)
    \/ \E p \in Prices : SetPrice(auth, id, p)
    \/ \E m \in Metadata : UpdateMetadata(auth, id, m)
    \/ \E t \in Tags : SetTags(auth, id, t)
    \/ \E new \in Accounts : TransferOwnership(auth, id, new)
    \/ \E listed \in BOOLEAN : SetListed(auth, id, listed)

Spec == Init /\ [][Next]_vars

----------------------------------------------------------------------------
(* Properties.                                                             *)

EventType ==
  [symbol : {"register"}, topic : Accounts, data : Ids]
    \cup [symbol : {"setprice"}, topic : Ids, data : Prices]
    \cup [symbol : {"updmeta"}, topic : Ids, data : {NoValue}]
    \cup [symbol : {"settags"}, topic : Ids, data : Tags]
    \cup [symbol : {"transfer"}, topic : Ids, data : Accounts]
    \cup [symbol : {"setlisted"}, topic : Ids, data : BOOLEAN]

(* Storage is well typed and the counter stays inside u32: the invariant   *)
(* that Register's arithmetic (lib.rs, count + 1) relies on.               *)
TypeOK ==
  /\ resources \in [Ids -> Resource \cup {NoValue}]
  /\ index \in [Slots -> Ids \cup {NoValue}]
  /\ count \in 0 .. U32Max
  /\ events \in Seq(EventType)
  /\ signers \in Seq(Accounts)
  /\ Len(signers) = Len(events)

(* The Count and Index(i) entries enumerate the registered resources: the  *)
(* slots below count are filled, each registered id fills exactly one of   *)
(* them and no slot names an id that is not registered.  list() walks this *)
(* enumeration and never revisits it, so a hole or a duplicate is final.   *)
IndexIsEnumeration ==
  /\ \A i \in Slots : i < count <=> index[i] # NoValue
  /\ \A i \in Slots : index[i] # NoValue => Exists(index[i])
  /\ \A i, j \in Slots : index[i] # NoValue /\ index[i] = index[j] => i = j
  /\ \A id \in Ids : Exists(id) => \E i \in Slots : index[i] = id

(* The id an event is about.  register puts the creator in the topic.      *)
Subject(e) == IF e.symbol = "register" THEN e.data ELSE e.topic

About(e, id, symbols) == e.symbol \in symbols /\ Subject(e) = id

(* Event i is the last of the first n that has one of these symbols and is *)
(* about id.                                                               *)
Latest(i, n, id, symbols) ==
  /\ i \in 1 .. n
  /\ About(events[i], id, symbols)
  /\ \A j \in i + 1 .. n : ~About(events[j], id, symbols)

OwnerEvents == {"register", "transfer"}
ListingEvents == {"register", "setlisted"}

(* The owner, and the listing, that an event announces. *)
OwnerIn(e) == IF e.symbol = "register" THEN e.topic ELSE e.data
ListedIn(e) == IF e.symbol = "register" THEN TRUE ELSE e.data

(* The log says of id what the contract holds of it. *)
Reproduced(id) ==
  LET n == Len(events) IN
  IF Exists(id)
  THEN /\ \E i \in 1 .. n : /\ Latest(i, n, id, OwnerEvents)
                            /\ OwnerIn(events[i]) = resources[id].creator
       /\ \E i \in 1 .. n : /\ Latest(i, n, id, ListingEvents)
                            /\ ListedIn(events[i]) = resources[id].listed
       /\ \A i \in 1 .. n : Latest(i, n, id, {"setprice"})
            => events[i].data = resources[id].price
       /\ \A i \in 1 .. n : Latest(i, n, id, {"settags"})
            => events[i].data = resources[id].tags
  ELSE \A i \in 1 .. n : Subject(events[i]) # id

(* An indexer that reads every event knows what the contract holds: which  *)
(* ids exist, who owns each, whether it is listed, and its price and tags  *)
(* once they have been changed.  Over any sequence of calls, no entry      *)
(* point changes the entry without saying so, or says what it did not do.  *)
EventsReproduceState == \A id \in Ids : Reproduced(id)

(* Chain of custody: every registration was authorized by the creator it   *)
(* records, and every later change by the account that the events before   *)
(* it make the owner.  A transferred resource obeys the new owner only.    *)
EveryChangeAuthorized ==
  \A n \in 1 .. Len(events) :
    IF events[n].symbol = "register"
    THEN signers[n] = events[n].topic
    ELSE \E i \in 1 .. n - 1 :
           /\ Latest(i, n - 1, Subject(events[n]), OwnerEvents)
           /\ signers[n] = OwnerIn(events[i])

(* An id is registered at most once in the life of the contract. *)
RegisteredOnce ==
  \A i, j \in 1 .. Len(events) :
    /\ events[i].symbol = "register" /\ events[j].symbol = "register"
    /\ Subject(events[i]) = Subject(events[j])
    => i = j

Registrations == {n \in 1 .. Len(events) : events[n].symbol = "register"}

(* Whatever the page size asked for, the page at start is the next run of  *)
(* the ids in the order their register events were emitted, so a client    *)
(* that steps by the capped page size sees each resource exactly once.     *)
PagesFollowRegistrationOrder ==
  \A start \in 0 .. count, limit \in 0 .. PageCap + 1 :
    LET page == List(start, limit) IN
    /\ Len(page) = Smaller(count - start, Smaller(limit, PageCap))
    /\ \A k \in 1 .. Len(page) : \E n \in Registrations :
         Rank(n, Registrations) = start + k /\ events[n].data = page[k]

=============================================================================
