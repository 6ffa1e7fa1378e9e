---------------------------- MODULE VaultStorage -----------------------------
(***************************************************************************)
(* The vault registry together with the rent of its ledger entries: the    *)
(* bump_persistent and bump_instance calls of lib.rs and the archival they *)
(* guard against.  Time is counted in days of DAY_IN_LEDGERS ledgers.  An  *)
(* invocation that touches an archived entry fails; anyone may pay to      *)
(* restore the entry (the ledger's own rules, external to the code).       *)
(***************************************************************************)
EXTENDS VaultRegistry

CONSTANTS
  BumpAmount,          \* BUMP_AMOUNT: 30 days
  LifetimeThreshold,   \* LIFETIME_THRESHOLD: BUMP_AMOUNT less one day
  MinTtl,              \* the network's lifetime of a fresh or restored entry
  MaxDay               \* bound: the last day of a behaviour

ASSUME StorageAssumption ==
  /\ BumpAmount \in Nat /\ LifetimeThreshold \in Nat /\ MinTtl \in Nat /\ MaxDay \in Nat
  /\ LifetimeThreshold <= BumpAmount

VARIABLES
  now,         \* the current day
  resourceTtl, \* the last day each Resource(id) entry is live
  indexTtl,    \* the last day each Index(i) entry is live
  instanceTtl, \* the last day the contract instance (and Count) is live
  written      \* history: the day of the last write to each resource

storage == <<now, resourceTtl, indexTtl, instanceTtl, written>>

Live(ttl) == now <= ttl

(* Faulty variant: an entry is extended only once it has expired. *)
ExtendExpired(ttl) == IF now > ttl THEN now + BumpAmount ELSE ttl

(* extend_ttl(key, LIFETIME_THRESHOLD, BUMP_AMOUNT) *)
Extend(ttl) == IF ttl - now < LifetimeThreshold THEN now + BumpAmount ELSE ttl

StorageInit ==
  /\ Init
  /\ now = 0
  /\ resourceTtl = [id \in Ids |-> 0]
  /\ indexTtl = [i \in Slots |-> 0]
  /\ instanceTtl = MinTtl
  /\ written = [id \in Ids |-> 0]

(* register creates two persistent entries and extends both, and is the    *)
(* only entry point that extends the instance.                             *)
RegisterAndBump(auth, c, id, p, m, t) ==
  /\ Live(instanceTtl)
  /\ Register(auth, c, id, p, m, t)
  /\ resourceTtl' = [resourceTtl EXCEPT ![id] = Extend(now + MinTtl)]
  /\ indexTtl' = [indexTtl EXCEPT ![count] = Extend(now + MinTtl)]
  /\ instanceTtl' = Extend(instanceTtl)
  /\ written' = [written EXCEPT ![id] = now]
  /\ now' = now

(* save: write the entry back and extend it, and nothing else. *)
Save(id) ==
  /\ Live(instanceTtl) /\ Live(resourceTtl[id])
  /\ resourceTtl' = [resourceTtl EXCEPT ![id] = Extend(@)]
  /\ written' = [written EXCEPT ![id] = now]
  /\ UNCHANGED <<now, indexTtl, instanceTtl>>

Mutate(auth, id) ==
  \/ \E p \in Prices : SetPrice(auth, id, p)
  \/ \E m \in Metadata : UpdateMetadata(auth, id, m)
  \/ \E t \in Tags : SetTags(auth, id, t)
  \/ \E new \in Accounts : TransferOwnership(auth, id, new)
  \/ \E listed \in BOOLEAN : SetListed(auth, id, listed)

NextDay ==
  /\ now < MaxDay
  /\ now' = now + 1
  /\ UNCHANGED <<resourceTtl, indexTtl, instanceTtl, written, vars>>

RestoreResource(id) ==
  /\ Exists(id) /\ ~Live(resourceTtl[id])
  /\ resourceTtl' = [resourceTtl EXCEPT ![id] = now + MinTtl]
  /\ UNCHANGED <<now, indexTtl, instanceTtl, written, vars>>

RestoreIndex(i) ==
  /\ index[i] # NoValue /\ ~Live(indexTtl[i])
  /\ indexTtl' = [indexTtl EXCEPT ![i] = now + MinTtl]
  /\ UNCHANGED <<now, resourceTtl, instanceTtl, written, vars>>

RestoreInstance ==
  /\ ~Live(instanceTtl)
  /\ instanceTtl' = now + MinTtl
  /\ UNCHANGED <<now, resourceTtl, indexTtl, written, vars>>

StorageNext ==
  \/ \E auth \in Accounts, id \in Ids :
       \/ \E c \in Accounts, p \in Prices, m \in Metadata, t \in Tags :
            RegisterAndBump(auth, c, id, p, m, t)
       \/ Mutate(auth, id) /\ Save(id)
  \/ \E id \in Ids : RestoreResource(id)
  \/ \E i \in Slots : RestoreIndex(i)
  \/ RestoreInstance
  \/ NextDay

StorageSpec == StorageInit /\ [][StorageNext]_<<vars, storage>>

(* What lib.rs promises of its rent: an entry is still live for the whole  *)
(* lifetime threshold after its last write, through any sequence of        *)
(* writes, expiries and restorations, so an actively managed entry is      *)
(* never archived.                                                         *)
ManagedEntryLives ==
  \A id \in Registered : resourceTtl[id] >= written[id] + LifetimeThreshold
=============================================================================
