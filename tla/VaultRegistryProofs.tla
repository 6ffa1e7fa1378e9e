------------------------- MODULE VaultRegistryProofs -------------------------
(***************************************************************************)
(* Proofs about the vault registry contract and the rent of its entries,   *)
(* for every set of accounts and ids, every width of the counter, every    *)
(* length of the event log and every setting of the rent.                  *)
(***************************************************************************)
EXTENDS VaultStorage, FiniteSetTheorems, TLAPS

(* The log grew by event e, authorized by a. *)
Logged(a, e) ==
  /\ a \in Accounts /\ e \in EventType
  /\ events' = Append(events, e)
  /\ signers' = Append(signers, a)

----------------------------------------------------------------------------
(* What one more event does to the log. *)

LEMMA LogGrows ==
  ASSUME TypeOK, NEW a, NEW e, Logged(a, e)
  PROVE  /\ events' \in Seq(EventType) /\ signers' \in Seq(Accounts)
         /\ Len(events) \in Nat
         /\ Len(events') = Len(events) + 1
         /\ Len(signers') = Len(events')
         /\ \A i \in 1 .. Len(events) : events'[i] = events[i] /\ signers'[i] = signers[i]
         /\ events'[Len(events) + 1] = e /\ signers'[Len(events) + 1] = a
  BY DEF TypeOK, Logged

(* A mutation changes one existing entry in place, on its owner's          *)
(* authorization, and logs it; the entry's fields move as the event says.  *)
LEMMA MutationShape ==
  ASSUME TypeOK, NEW auth \in Accounts, NEW id \in Ids, Mutate(auth, id)
  PROVE  /\ Exists(id) /\ auth = resources[id].creator
         /\ resources'[id] \in Resource /\ Exists(id)'
         /\ \A k \in Ids : k # id => resources'[k] = resources[k]
         /\ \A k \in Ids : Exists(k)' <=> Exists(k)
         /\ \E e \in EventType :
              /\ Logged(auth, e)
              /\ e.symbol # "register" /\ e.topic = id
              /\ resources'[id].creator =
                   IF e.symbol = "transfer" THEN e.data ELSE resources[id].creator
              /\ resources'[id].listed =
                   IF e.symbol = "setlisted" THEN e.data ELSE resources[id].listed
              /\ resources'[id].price =
                   IF e.symbol = "setprice" THEN e.data ELSE resources[id].price
              /\ resources'[id].tags =
                   IF e.symbol = "settags" THEN e.data ELSE resources[id].tags
<1> USE RegistryAssumption
<1>1. Exists(id) /\ auth = resources[id].creator
  BY DEF Mutate, SetPrice, UpdateMetadata, SetTags, TransferOwnership, SetListed,
    OwnedBy
<1>2. resources[id] \in Resource
  BY <1>1 DEF Exists, TypeOK
<1>3. \E r \in Resource, e \in EventType :
        /\ resources' = [resources EXCEPT ![id] = r]
        /\ Logged(auth, e)
        /\ e.symbol # "register" /\ e.topic = id
        /\ r.creator = IF e.symbol = "transfer" THEN e.data ELSE resources[id].creator
        /\ r.listed = IF e.symbol = "setlisted" THEN e.data ELSE resources[id].listed
        /\ r.price = IF e.symbol = "setprice" THEN e.data ELSE resources[id].price
        /\ r.tags = IF e.symbol = "settags" THEN e.data ELSE resources[id].tags
  <2> DEFINE old == resources[id]
             Fields(r, e) ==
               /\ resources' = [resources EXCEPT ![id] = r]
               /\ Logged(auth, e)
               /\ e.symbol # "register" /\ e.topic = id
               /\ r.creator = IF e.symbol = "transfer" THEN e.data ELSE old.creator
               /\ r.listed = IF e.symbol = "setlisted" THEN e.data ELSE old.listed
               /\ r.price = IF e.symbol = "setprice" THEN e.data ELSE old.price
               /\ r.tags = IF e.symbol = "settags" THEN e.data ELSE old.tags
  <2>1. ASSUME NEW p \in Prices, SetPrice(auth, id, p)
        PROVE  \E r \in Resource, e \in EventType : Fields(r, e)
    <3>1. /\ [old EXCEPT !.price = p] \in Resource
           /\ Event("setprice", id, p) \in EventType
      BY <1>2, RegistryAssumption DEF Resource, Event, EventType
    <3>2. Fields([old EXCEPT !.price = p], Event("setprice", id, p))
      BY <1>2, <2>1 DEF SetPrice, Emit, Event, EventType, Logged, Resource
    <3>3. QED
      BY <3>1, <3>2
  <2>2. ASSUME NEW m \in Metadata, UpdateMetadata(auth, id, m)
        PROVE  \E r \in Resource, e \in EventType : Fields(r, e)
    <3>1. /\ [old EXCEPT !.metadata = m] \in Resource
           /\ Event("updmeta", id, NoValue) \in EventType
      BY <1>2, RegistryAssumption DEF Resource, Event, EventType
    <3>2. Fields([old EXCEPT !.metadata = m], Event("updmeta", id, NoValue))
      BY <1>2, <2>2 DEF UpdateMetadata, Emit, Event, EventType, Logged, Resource
    <3>3. QED
      BY <3>1, <3>2
  <2>3. ASSUME NEW t \in Tags, SetTags(auth, id, t)
        PROVE  \E r \in Resource, e \in EventType : Fields(r, e)
    <3>1. /\ [old EXCEPT !.tags = t] \in Resource
           /\ Event("settags", id, t) \in EventType
      BY <1>2, RegistryAssumption DEF Resource, Event, EventType
    <3>2. Fields([old EXCEPT !.tags = t], Event("settags", id, t))
      BY <1>2, <2>3 DEF SetTags, Emit, Event, EventType, Logged, Resource
    <3>3. QED
      BY <3>1, <3>2
  <2>4. ASSUME NEW new \in Accounts, TransferOwnership(auth, id, new)
        PROVE  \E r \in Resource, e \in EventType : Fields(r, e)
    <3>1. /\ [old EXCEPT !.creator = new] \in Resource
           /\ Event("transfer", id, new) \in EventType
      BY <1>2, RegistryAssumption DEF Resource, Event, EventType
    <3>2. Fields([old EXCEPT !.creator = new], Event("transfer", id, new))
      BY <1>2, <2>4 DEF TransferOwnership, Emit, Event, EventType, Logged, Resource
    <3>3. QED
      BY <3>1, <3>2
  <2>5. ASSUME NEW listed \in BOOLEAN, SetListed(auth, id, listed)
        PROVE  \E r \in Resource, e \in EventType : Fields(r, e)
    <3>1. /\ [old EXCEPT !.listed = listed] \in Resource
           /\ Event("setlisted", id, listed) \in EventType
      BY <1>2, RegistryAssumption DEF Resource, Event, EventType
    <3>2. Fields([old EXCEPT !.listed = listed], Event("setlisted", id, listed))
      BY <1>2, <2>5 DEF SetListed, Emit, Event, EventType, Logged, Resource
    <3>3. QED
      BY <3>1, <3>2
  <2>6. QED
    BY <2>1, <2>2, <2>3, <2>4, <2>5 DEF Mutate
<1>4. PICK r \in Resource, e \in EventType :
        /\ resources' = [resources EXCEPT ![id] = r]
        /\ Logged(auth, e)
        /\ e.symbol # "register" /\ e.topic = id
        /\ r.creator = IF e.symbol = "transfer" THEN e.data ELSE resources[id].creator
        /\ r.listed = IF e.symbol = "setlisted" THEN e.data ELSE resources[id].listed
        /\ r.price = IF e.symbol = "setprice" THEN e.data ELSE resources[id].price
        /\ r.tags = IF e.symbol = "settags" THEN e.data ELSE resources[id].tags
  BY <1>3
<1>5. resources'[id] = r /\ \A k \in Ids : k # id => resources'[k] = resources[k]
  BY <1>4 DEF TypeOK
<1>6. \A k \in Ids : Exists(k)' <=> Exists(k)
  BY <1>1, <1>5 DEF Exists
<1>7. QED
  BY <1>1, <1>4, <1>5, <1>6

(* Type correctness: Spec keeps every storage entry, the counter and the   *)
(* log inside their types.                                                 *)
THEOREM TypeCorrect == Spec => []TypeOK
<1> USE RegistryAssumption
<1>1. Init => TypeOK
  BY DEF Init, TypeOK, Slots
<1>2. ASSUME TypeOK, [Next]_vars PROVE TypeOK'
  <2>1. ASSUME NEW auth \in Accounts, NEW id \in Ids, NEW c \in Accounts,
               NEW p \in Prices, NEW m \in Metadata, NEW t \in Tags,
               Register(auth, c, id, p, m, t)
        PROVE  TypeOK'
    <3> DEFINE e == Event("register", c, id)
    <3>1. Logged(auth, e)
      BY <2>1 DEF Register, Emit, Logged, Event, EventType
    <3>2. resources' \in [Ids -> Resource \cup {NoValue}]
      BY <1>2, <2>1 DEF TypeOK, Register, Resource
    <3>3. index' \in [Slots -> Ids \cup {NoValue}] /\ count' \in 0 .. U32Max
      BY <1>2, <2>1 DEF TypeOK, Register, MayRegister, Slots
    <3>4. QED
      BY <1>2, <3>1, <3>2, <3>3, LogGrows DEF TypeOK
  <2>2. ASSUME NEW auth \in Accounts, NEW id \in Ids, Mutate(auth, id)
        PROVE  TypeOK'
    <3>1. PICK e : Logged(auth, e)
      BY <2>2 DEF Mutate, SetPrice, UpdateMetadata, SetTags, TransferOwnership,
        SetListed, Emit, Event, EventType, Logged
    <3>2. resources' \in [Ids -> Resource \cup {NoValue}]
      <4>1. resources[id] \in Resource
        BY <1>2, <2>2 DEF Mutate, SetPrice, UpdateMetadata, SetTags,
          TransferOwnership, SetListed, OwnedBy, Exists, TypeOK
      <4>2. QED
        BY <1>2, <2>2, <4>1 DEF TypeOK, Mutate, SetPrice, UpdateMetadata, SetTags,
          TransferOwnership, SetListed, Resource
    <3>3. index' = index /\ count' = count
      BY <2>2 DEF Mutate, SetPrice, UpdateMetadata, SetTags, TransferOwnership,
        SetListed, Keep
    <3>4. QED
      BY <1>2, <3>1, <3>2, <3>3, LogGrows DEF TypeOK
  <2>3. CASE UNCHANGED vars
    BY <1>2, <2>3 DEF TypeOK, vars
  <2>4. QED
    BY <1>2, <2>1, <2>2, <2>3 DEF Next, Mutate
<1>3. QED
  BY <1>1, <1>2, PTL DEF Spec

----------------------------------------------------------------------------
(* How "the latest event about id" moves when the log grows.               *)

LEMMA LatestNew ==
  ASSUME TypeOK, NEW a, NEW e, Logged(a, e), NEW id, NEW S, About(e, id, S),
         NEW n \in Nat, n = Len(events)
  PROVE  /\ Latest(n + 1, n + 1, id, S)'
         /\ \A i \in 1 .. n : ~Latest(i, n + 1, id, S)'
<1>1. events'[n + 1] = e
  BY LogGrows
<1>2. About(events[n + 1], id, S)'
  BY <1>1 DEF About, Subject
<1>3. QED
  BY <1>2 DEF Latest

LEMMA LatestKept ==
  ASSUME TypeOK, NEW a, NEW e, Logged(a, e), NEW id, NEW S, ~About(e, id, S),
         NEW n \in Nat, n = Len(events), NEW i \in 1 .. n + 1
  PROVE  Latest(i, n + 1, id, S)' <=> i \in 1 .. n /\ Latest(i, n, id, S)
<1>1. ~About(events[n + 1], id, S)'
  BY LogGrows DEF About, Subject
<1>2. \A j \in 1 .. n : About(events[j], id, S)' <=> About(events[j], id, S)
  BY LogGrows DEF About, Subject
<1>3. QED
  BY <1>1, <1>2 DEF Latest

LEMMA LatestPrefix ==
  ASSUME TypeOK, NEW a, NEW e, Logged(a, e), NEW id, NEW S,
         NEW n \in Nat, n <= Len(events), NEW i \in 1 .. n
  PROVE  Latest(i, n, id, S)' <=> Latest(i, n, id, S)
<1>1. \A j \in 1 .. n : About(events[j], id, S)' <=> About(events[j], id, S)
  BY LogGrows DEF About, Subject
<1>2. QED
  BY <1>1 DEF Latest

----------------------------------------------------------------------------
(* The enumeration. *)

(* list() walks an enumeration of exactly the registered ids: every        *)
(* behaviour of the contract keeps Count and the Index entries in step     *)
(* with the resources.                                                     *)
THEOREM IndexCorrect == Spec => []IndexIsEnumeration
<1> USE RegistryAssumption
<1>1. Init => IndexIsEnumeration
  BY DEF Init, IndexIsEnumeration, Slots, Exists
<1>2. ASSUME TypeOK, IndexIsEnumeration, [Next]_vars PROVE IndexIsEnumeration'
  <2>1. ASSUME NEW auth \in Accounts, NEW id \in Ids, NEW c \in Accounts,
               NEW p \in Prices, NEW m \in Metadata, NEW t \in Tags,
               Register(auth, c, id, p, m, t)
        PROVE  IndexIsEnumeration'
    <3>1. count \in Slots /\ index[count] = NoValue
      BY <1>2, <2>1 DEF TypeOK, IndexIsEnumeration, Register, MayRegister, Slots
    <3>2. \A i \in Slots : index'[i] = IF i = count THEN id ELSE index[i]
      BY <1>2, <2>1, <3>1 DEF TypeOK, Register
    <3>3. \A k \in Ids : Exists(k)' <=> (k = id \/ Exists(k))
      <4>1. resources'[id] # NoValue
        <5> DEFINE r == [creator |-> c, price |-> p, metadata |-> m,
                         listed |-> TRUE, tags |-> t]
        <5>1. r \in Resource
          BY DEF Resource
        <5>2. resources'[id] = r
          BY <1>2, <2>1 DEF TypeOK, Register
        <5>3. QED
          BY <5>1, <5>2
      <4>2. \A k \in Ids : k # id => resources'[k] = resources[k]
        BY <1>2, <2>1 DEF TypeOK, Register
      <4>3. QED
        BY <4>1, <4>2 DEF Exists
    <3>4. ~Exists(id) /\ id # NoValue /\ count' = count + 1
      BY <2>1 DEF Register, MayRegister
    <3>5. (\A i \in Slots : i < count <=> index[i] # NoValue)'
      BY <1>2, <3>1, <3>2, <3>4 DEF IndexIsEnumeration, Slots, TypeOK
    <3>6. (\A i \in Slots : index[i] # NoValue => Exists(index[i]))'
      BY <1>2, <3>1, <3>2, <3>3, <3>4 DEF IndexIsEnumeration, TypeOK
    <3>7. (\A i, j \in Slots : index[i] # NoValue /\ index[i] = index[j] => i = j)'
      BY <1>2, <3>1, <3>2, <3>4 DEF IndexIsEnumeration
    <3>8. (\A k \in Ids : Exists(k) => \E i \in Slots : index[i] = k)'
      BY <1>2, <3>1, <3>2, <3>3 DEF IndexIsEnumeration
    <3>9. QED
      BY <3>5, <3>6, <3>7, <3>8 DEF IndexIsEnumeration
  <2>2. ASSUME NEW auth \in Accounts, NEW id \in Ids, Mutate(auth, id)
        PROVE  IndexIsEnumeration'
    <3>1. index' = index /\ count' = count
      BY <2>2 DEF Mutate, SetPrice, UpdateMetadata, SetTags, TransferOwnership,
        SetListed, Keep
    <3>2. \A k \in Ids : Exists(k)' <=> Exists(k)
      BY <1>2, <2>2, MutationShape
    <3>3. \A i \in Slots : index[i] # NoValue => index[i] \in Ids
      BY <1>2 DEF TypeOK
    <3>4. QED
      BY <1>2, <3>1, <3>2, <3>3 DEF IndexIsEnumeration
  <2>3. CASE UNCHANGED vars
    BY <1>2, <2>3 DEF IndexIsEnumeration, vars, Exists
  <2>4. QED
    BY <1>2, <2>1, <2>2, <2>3 DEF Next, Mutate
<1>3. QED
  BY <1>1, <1>2, TypeCorrect, PTL DEF Spec

----------------------------------------------------------------------------
(* The event log.  An action that changes entry k changes it as its event  *)
(* says; an event about another id leaves what the log says of k alone.    *)

LEMMA OthersReproduced ==
  ASSUME TypeOK, NEW a, NEW e, Logged(a, e), NEW k \in Ids, Subject(e) # k,
         resources'[k] = resources[k], Reproduced(k),
         NEW n \in Nat, n = Len(events)
  PROVE  Reproduced(k)'
<1>1. Len(events') = n + 1 /\ events'[n + 1] = e
      /\ \A i \in 1 .. n : events'[i] = events[i]
  BY LogGrows
<1>2. Exists(k)' <=> Exists(k)
  BY DEF Exists
<1>3. CASE ~Exists(k)
  <2>1. \A i \in 1 .. n : Subject(events[i]) # k
    BY <1>3 DEF Reproduced
  <2>2. \A i \in 1 .. n + 1 : Subject(events'[i]) # k
    BY <1>1, <2>1 DEF Subject
  <2>3. QED
    BY <1>1, <1>2, <1>3, <2>2 DEF Reproduced, Subject
<1>4. CASE Exists(k)
  <2>1. \A S : ~About(e, k, S)
    BY DEF About
  <2>2. \A i \in 1 .. n + 1 :
          Latest(i, n + 1, k, OwnerEvents)' <=> i \in 1 .. n /\ Latest(i, n, k, OwnerEvents)
    BY <2>1, LatestKept
  <2>3. \A i \in 1 .. n + 1 :
          Latest(i, n + 1, k, ListingEvents)' <=> i \in 1 .. n /\ Latest(i, n, k, ListingEvents)
    BY <2>1, LatestKept
  <2>4. \A i \in 1 .. n + 1 :
          Latest(i, n + 1, k, {"setprice"})' <=> i \in 1 .. n /\ Latest(i, n, k, {"setprice"})
    BY <2>1, LatestKept
  <2>5. \A i \in 1 .. n + 1 :
          Latest(i, n + 1, k, {"settags"})' <=> i \in 1 .. n /\ Latest(i, n, k, {"settags"})
    BY <2>1, LatestKept
  <2>6. (\E i \in 1 .. n + 1 : /\ Latest(i, n + 1, k, OwnerEvents)
                               /\ OwnerIn(events[i]) = resources[k].creator)'
    <3>1. PICK i \in 1 .. n : /\ Latest(i, n, k, OwnerEvents)
                              /\ OwnerIn(events[i]) = resources[k].creator
      BY <1>4 DEF Reproduced
    <3>2. Latest(i, n + 1, k, OwnerEvents)' /\ OwnerIn(events'[i]) = resources'[k].creator
      BY <1>1, <2>2, <3>1
    <3>3. QED
      BY <3>2 DEF OwnerIn
  <2>7. (\E i \in 1 .. n + 1 : /\ Latest(i, n + 1, k, ListingEvents)
                               /\ ListedIn(events[i]) = resources[k].listed)'
    <3>1. PICK i \in 1 .. n : /\ Latest(i, n, k, ListingEvents)
                              /\ ListedIn(events[i]) = resources[k].listed
      BY <1>4 DEF Reproduced
    <3>2. Latest(i, n + 1, k, ListingEvents)' /\ ListedIn(events'[i]) = resources'[k].listed
      BY <1>1, <2>3, <3>1
    <3>3. (ListedIn(events[i]) = resources[k].listed)' /\ i \in 1 .. n + 1
      BY <3>2
    <3>4. QED
      BY <3>2, <3>3
  <2>8. \A i \in 1 .. n + 1 : Latest(i, n + 1, k, {"setprice"})'
                                => events'[i].data = resources'[k].price
    BY <1>1, <2>4, <1>4 DEF Reproduced
  <2>9. \A i \in 1 .. n + 1 : Latest(i, n + 1, k, {"settags"})'
                                => events'[i].data = resources'[k].tags
    BY <1>1, <2>5, <1>4 DEF Reproduced
  <2>10. QED
    BY <1>1, <1>2, <1>4, <2>6, <2>7, <2>8, <2>9 DEF Reproduced
<1>5. QED
  BY <1>3, <1>4

(* The event of a mutation is the latest word on the field it changes, and *)
(* leaves the latest word on every other field where it was.               *)
LEMMA MutationReproduced ==
  ASSUME TypeOK, NEW auth \in Accounts, NEW k \in Ids, Mutate(auth, k),
         Reproduced(k), NEW n \in Nat, n = Len(events)
  PROVE  Reproduced(k)'
<1>1. Exists(k) /\ Exists(k)'
  BY MutationShape
<1>2. PICK e : /\ Logged(auth, e)
               /\ e.symbol # "register" /\ e.topic = k
               /\ resources'[k].creator =
                    IF e.symbol = "transfer" THEN e.data ELSE resources[k].creator
               /\ resources'[k].listed =
                    IF e.symbol = "setlisted" THEN e.data ELSE resources[k].listed
               /\ resources'[k].price =
                    IF e.symbol = "setprice" THEN e.data ELSE resources[k].price
               /\ resources'[k].tags =
                    IF e.symbol = "settags" THEN e.data ELSE resources[k].tags
  BY MutationShape
<1>3. Len(events') = n + 1 /\ events'[n + 1] = e
      /\ \A i \in 1 .. n : events'[i] = events[i]
  BY <1>2, LogGrows
<1>4. \A S : About(e, k, S) <=> e.symbol \in S
  BY <1>2 DEF About, Subject
<1>5. \A S : e.symbol \notin S =>
        \A i \in 1 .. n + 1 : Latest(i, n + 1, k, S)' <=> i \in 1 .. n /\ Latest(i, n, k, S)
  <2>1. SUFFICES ASSUME NEW S, e.symbol \notin S, NEW i \in 1 .. n + 1
                 PROVE  Latest(i, n + 1, k, S)' <=> i \in 1 .. n /\ Latest(i, n, k, S)
    OBVIOUS
  <2>2. ~About(e, k, S)
    BY <1>4, <2>1
  <2>3. QED
    BY <1>2, <2>2, LatestKept
<1>6. \A S : e.symbol \in S =>
        /\ Latest(n + 1, n + 1, k, S)'
        /\ \A i \in 1 .. n : ~Latest(i, n + 1, k, S)'
  <2>1. SUFFICES ASSUME NEW S, e.symbol \in S
                 PROVE  /\ Latest(n + 1, n + 1, k, S)'
                        /\ \A i \in 1 .. n : ~Latest(i, n + 1, k, S)'
    OBVIOUS
  <2>2. About(e, k, S)
    BY <1>4, <2>1
  <2>3. QED
    BY <1>2, <2>2, LatestNew
<1>7. (\E i \in 1 .. n + 1 : /\ Latest(i, n + 1, k, OwnerEvents)
                             /\ OwnerIn(events[i]) = resources[k].creator)'
  <2>1. CASE e.symbol = "transfer"
    <3>1. Latest(n + 1, n + 1, k, OwnerEvents)'
      BY <1>6, <2>1 DEF OwnerEvents
    <3>2. OwnerIn(events'[n + 1]) = resources'[k].creator
      BY <1>2, <1>3, <2>1 DEF OwnerIn
    <3>3. QED
      BY <3>1, <3>2
  <2>2. CASE e.symbol # "transfer"
    <3>1. PICK i \in 1 .. n : /\ Latest(i, n, k, OwnerEvents)
                              /\ OwnerIn(events[i]) = resources[k].creator
      BY <1>1 DEF Reproduced
    <3>2. e.symbol \notin OwnerEvents
      BY <1>2, <2>2 DEF OwnerEvents
    <3>3. Latest(i, n + 1, k, OwnerEvents)' /\ OwnerIn(events'[i]) = resources'[k].creator
      BY <1>2, <1>3, <1>5, <2>2, <3>1, <3>2
    <3>4. QED
      BY <3>3
  <2>3. QED
    BY <2>1, <2>2
<1>8. (\E i \in 1 .. n + 1 : /\ Latest(i, n + 1, k, ListingEvents)
                             /\ ListedIn(events[i]) = resources[k].listed)'
  <2>1. CASE e.symbol = "setlisted"
    <3>1. Latest(n + 1, n + 1, k, ListingEvents)'
      BY <1>6, <2>1 DEF ListingEvents
    <3>2. ListedIn(events'[n + 1]) = e.data
      BY <1>3, <2>1 DEF ListedIn
    <3>3. QED
      BY <1>2, <2>1, <3>1, <3>2
  <2>2. CASE e.symbol # "setlisted"
    <3>1. PICK i \in 1 .. n : /\ Latest(i, n, k, ListingEvents)
                              /\ ListedIn(events[i]) = resources[k].listed
      BY <1>1 DEF Reproduced
    <3>2. e.symbol \notin ListingEvents
      BY <1>2, <2>2 DEF ListingEvents
    <3>3. Latest(i, n + 1, k, ListingEvents)' /\ ListedIn(events'[i]) = resources'[k].listed
      BY <1>2, <1>3, <1>5, <2>2, <3>1, <3>2
    <3>4. QED
      BY <3>3
  <2>3. QED
    BY <2>1, <2>2
<1>9. \A i \in 1 .. n + 1 : Latest(i, n + 1, k, {"setprice"})'
                              => events'[i].data = resources'[k].price
  <2>1. CASE e.symbol = "setprice"
    <3>1. e.symbol \in {"setprice"}
      BY <2>1
    <3>2. \A i \in 1 .. n : ~Latest(i, n + 1, k, {"setprice"})'
      BY <1>6, <3>1
    <3>3. QED
      BY <1>2, <1>3, <2>1, <3>2
  <2>2. CASE e.symbol # "setprice"
    <3>1. e.symbol \notin {"setprice"}
      BY <2>2
    <3>2. \A i \in 1 .. n + 1 :
            Latest(i, n + 1, k, {"setprice"})' => i \in 1 .. n /\ Latest(i, n, k, {"setprice"})
      BY <1>5, <3>1
    <3>3. QED
      BY <1>1, <1>2, <1>3, <2>2, <3>2 DEF Reproduced
  <2>3. QED
    BY <2>1, <2>2
<1>10. \A i \in 1 .. n + 1 : Latest(i, n + 1, k, {"settags"})'
                               => events'[i].data = resources'[k].tags
  <2>1. CASE e.symbol = "settags"
    <3>1. e.symbol \in {"settags"}
      BY <2>1
    <3>2. \A i \in 1 .. n : ~Latest(i, n + 1, k, {"settags"})'
      BY <1>6, <3>1
    <3>3. QED
      BY <1>2, <1>3, <2>1, <3>2
  <2>2. CASE e.symbol # "settags"
    <3>1. e.symbol \notin {"settags"}
      BY <2>2
    <3>2. \A i \in 1 .. n + 1 :
            Latest(i, n + 1, k, {"settags"})' => i \in 1 .. n /\ Latest(i, n, k, {"settags"})
      BY <1>5, <3>1
    <3>3. QED
      BY <1>1, <1>2, <1>3, <2>2, <3>2 DEF Reproduced
  <2>3. QED
    BY <2>1, <2>2
<1>11. QED
  BY <1>1, <1>3, <1>7, <1>8, <1>9, <1>10 DEF Reproduced

(* A registration is the first event about its id, and its latest word on  *)
(* owner and listing.                                                      *)
LEMMA RegisterReproduced ==
  ASSUME TypeOK, NEW auth \in Accounts, NEW k \in Ids, NEW c \in Accounts,
         NEW p \in Prices, NEW m \in Metadata, NEW t \in Tags,
         Register(auth, c, k, p, m, t), Reproduced(k), NEW n \in Nat, n = Len(events)
  PROVE  Reproduced(k)'
<1> USE RegistryAssumption
<1> DEFINE e == Event("register", c, k)
<1>1. Logged(auth, e) /\ ~Exists(k)
  BY DEF Register, MayRegister, Emit, Logged, Event, EventType
<1>2. resources'[k].creator = c /\ resources'[k].listed = TRUE /\ Exists(k)'
  <2>1. resources'[k] = [creator |-> c, price |-> p, metadata |-> m,
                         listed |-> TRUE, tags |-> t]
    BY DEF TypeOK, Register
  <2>2. resources'[k] \in Resource
    BY <2>1 DEF Resource
  <2>3. Exists(k)'
    BY <2>2 DEF Exists
  <2>4. QED
    BY <2>1, <2>3
<1>3. Len(events') = n + 1 /\ events'[n + 1] = e
      /\ \A i \in 1 .. n : events'[i] = events[i]
  BY <1>1, LogGrows
<1>4. \A i \in 1 .. n : Subject(events[i]) # k
  BY <1>1 DEF Reproduced
<1>5. \A i \in 1 .. n + 1 : /\ ~Latest(i, n + 1, k, {"setprice"})'
                            /\ ~Latest(i, n + 1, k, {"settags"})'
  BY <1>3, <1>4 DEF Latest, About, Subject, Event
<1>6. About(e, k, OwnerEvents) /\ About(e, k, ListingEvents)
  BY DEF About, Subject, Event, OwnerEvents, ListingEvents
<1>7. Latest(n + 1, n + 1, k, OwnerEvents)' /\ Latest(n + 1, n + 1, k, ListingEvents)'
  BY <1>1, <1>6, LatestNew
<1>8. OwnerIn(events'[n + 1]) = c /\ ListedIn(events'[n + 1]) = TRUE
  BY <1>3 DEF OwnerIn, ListedIn, Event
<1>9. (\E i \in 1 .. n + 1 : /\ Latest(i, n + 1, k, OwnerEvents)
                             /\ OwnerIn(events[i]) = resources[k].creator)'
  BY <1>2, <1>7, <1>8
<1>10. (\E i \in 1 .. n + 1 : /\ Latest(i, n + 1, k, ListingEvents)
                              /\ ListedIn(events[i]) = resources[k].listed)'
  <2>1. (ListedIn(events[n + 1]) = resources[k].listed)'
    BY <1>2, <1>8, Zenon
  <2>2. n + 1 \in 1 .. n + 1
    OBVIOUS
  <2>3. QED
    BY <1>7, <2>1, <2>2
<1>11. QED
  BY <1>2, <1>3, <1>5, <1>9, <1>10 DEF Reproduced

(* An indexer that reads the whole log holds the contract's ids, owners,   *)
(* listings, and the prices and tags changed since registration.           *)
THEOREM EventsReproduce == Spec => []EventsReproduceState
<1>1. Init => EventsReproduceState
  BY DEF Init, EventsReproduceState, Reproduced, Exists
<1>2. ASSUME TypeOK, EventsReproduceState, [Next]_vars PROVE EventsReproduceState'
  <2>1. PICK n \in Nat : n = Len(events)
    BY <1>2 DEF TypeOK
  <2>2. ASSUME NEW auth \in Accounts, NEW id \in Ids, NEW c \in Accounts,
               NEW p \in Prices, NEW m \in Metadata, NEW t \in Tags,
               Register(auth, c, id, p, m, t)
        PROVE  EventsReproduceState'
    <3>1. Reproduced(id)'
      BY <1>2, <2>1, <2>2, RegisterReproduced DEF EventsReproduceState
    <3>2. ASSUME NEW k \in Ids, k # id PROVE Reproduced(k)'
      <4>1. Logged(auth, Event("register", c, id)) /\ Subject(Event("register", c, id)) # k
        BY <2>2, <3>2 DEF Register, Emit, Logged, Event, EventType, Subject
      <4>2. resources'[k] = resources[k]
        BY <1>2, <2>2, <3>2 DEF TypeOK, Register
      <4>3. QED
        BY <1>2, <2>1, <4>1, <4>2, OthersReproduced DEF EventsReproduceState
    <3>3. QED
      BY <3>1, <3>2 DEF EventsReproduceState
  <2>3. ASSUME NEW auth \in Accounts, NEW id \in Ids, Mutate(auth, id)
        PROVE  EventsReproduceState'
    <3>1. Reproduced(id)'
      BY <1>2, <2>1, <2>3, MutationReproduced DEF EventsReproduceState
    <3>2. ASSUME NEW k \in Ids, k # id PROVE Reproduced(k)'
      <4>1. PICK e : Logged(auth, e) /\ e.symbol # "register" /\ e.topic = id
        BY <1>2, <2>3, MutationShape
      <4>2. Subject(e) # k
        BY <3>2, <4>1 DEF Subject
      <4>3. resources'[k] = resources[k]
        BY <1>2, <2>3, <3>2, MutationShape
      <4>4. QED
        BY <1>2, <2>1, <4>1, <4>2, <4>3, OthersReproduced DEF EventsReproduceState
    <3>3. QED
      BY <3>1, <3>2 DEF EventsReproduceState
  <2>4. CASE UNCHANGED vars
    <3>1. resources' = resources /\ events' = events
      BY <2>4 DEF vars
    <3>2. \A i, m, id, symbols : Latest(i, m, id, symbols)' <=> Latest(i, m, id, symbols)
      BY <3>1 DEF Latest, About
    <3>3. ASSUME NEW id \in Ids, Reproduced(id) PROVE Reproduced(id)'
      BY <3>1, <3>2, <3>3 DEF Reproduced, Exists
    <3>4. QED
      BY <1>2, <3>3 DEF EventsReproduceState
  <2>5. QED
    BY <1>2, <2>2, <2>3, <2>4 DEF Next, Mutate
<1>3. QED
  BY <1>1, <1>2, TypeCorrect, PTL DEF Spec

----------------------------------------------------------------------------
(* What the log says of authority. *)

LEMMA StepLogs ==
  ASSUME TypeOK, [Next]_vars
  PROVE  \/ UNCHANGED vars
         \/ \E auth \in Accounts, c \in Accounts, id \in Ids :
              /\ Logged(auth, Event("register", c, id)) /\ auth = c /\ ~Exists(id)
         \/ \E auth \in Accounts, id \in Ids, e \in EventType :
              /\ Logged(auth, e) /\ e.symbol # "register" /\ e.topic = id
              /\ Exists(id) /\ auth = resources[id].creator
<1>1. ASSUME NEW auth \in Accounts, NEW id \in Ids, NEW c \in Accounts,
             NEW p \in Prices, NEW m \in Metadata, NEW t \in Tags,
             Register(auth, c, id, p, m, t)
      PROVE  Logged(auth, Event("register", c, id)) /\ auth = c /\ ~Exists(id)
  BY <1>1 DEF Register, MayRegister, Emit, Logged, Event, EventType
<1>2. ASSUME NEW auth \in Accounts, NEW id \in Ids, Mutate(auth, id)
      PROVE  \E e \in EventType :
               /\ Logged(auth, e) /\ e.symbol # "register" /\ e.topic = id
               /\ Exists(id) /\ auth = resources[id].creator
  BY <1>2, MutationShape
<1>3. QED
  BY <1>1, <1>2 DEF Next, Mutate

(* The event after the first n is authorized by the owner they establish,  *)
(* and the events before it keep their authority.                          *)
THEOREM CustodyCorrect == Spec => []EveryChangeAuthorized
<1>1. Init => EveryChangeAuthorized
  BY DEF Init, EveryChangeAuthorized
<1>2. ASSUME TypeOK, EventsReproduceState, EveryChangeAuthorized, [Next]_vars
      PROVE  EveryChangeAuthorized'
  <2>1. PICK n \in Nat : n = Len(events)
    BY <1>2 DEF TypeOK
  <2> DEFINE Authorized(k) ==
               IF events[k].symbol = "register"
               THEN signers[k] = events[k].topic
               ELSE \E i \in 1 .. k - 1 :
                      /\ Latest(i, k - 1, Subject(events[k]), OwnerEvents)
                      /\ signers[k] = OwnerIn(events[i])
  <2>2. ASSUME NEW a, NEW e, Logged(a, e), Authorized(n + 1)'
        PROVE  EveryChangeAuthorized'
    <3>1. Len(events') = n + 1
          /\ \A k \in 1 .. n : events'[k] = events[k] /\ signers'[k] = signers[k]
      BY <1>2, <2>1, <2>2, LogGrows
    <3>2. ASSUME NEW k \in 1 .. n PROVE Authorized(k)'
      <4>1. CASE events[k].symbol = "register"
        BY <1>2, <2>1, <3>1, <4>1 DEF EveryChangeAuthorized
      <4>2. CASE events[k].symbol # "register"
        <5>1. PICK i \in 1 .. k - 1 :
                /\ Latest(i, k - 1, Subject(events[k]), OwnerEvents)
                /\ signers[k] = OwnerIn(events[i])
          BY <1>2, <2>1, <4>2 DEF EveryChangeAuthorized
        <5>2. PICK s : s = Subject(events[k])
          OBVIOUS
        <5>3. Latest(i, k - 1, s, OwnerEvents)'
          BY <1>2, <2>1, <2>2, <5>1, <5>2, LatestPrefix
        <5>4. Subject(events'[k]) = s /\ signers'[k] = OwnerIn(events'[i])
          BY <2>1, <3>1, <5>1, <5>2
        <5>5. events'[k].symbol # "register"
          BY <3>1, <4>2
        <5>6. Latest(i, k - 1, Subject(events[k]), OwnerEvents)'
          BY <5>3, <5>4 DEF Latest, About
        <5>7. QED
          BY <5>4, <5>5, <5>6
      <4>3. QED
        BY <4>1, <4>2
    <3>3. QED
      BY <2>2, <3>1, <3>2 DEF EveryChangeAuthorized
  <2>3. CASE \E auth \in Accounts, c \in Accounts, id \in Ids :
               /\ Logged(auth, Event("register", c, id)) /\ auth = c /\ ~Exists(id)
    <3>1. PICK auth \in Accounts, c \in Accounts, id \in Ids :
            /\ Logged(auth, Event("register", c, id)) /\ auth = c
      BY <2>3
    <3>2. events'[n + 1] = Event("register", c, id) /\ signers'[n + 1] = auth
      BY <1>2, <2>1, <3>1, LogGrows
    <3>3. Authorized(n + 1)'
      BY <3>1, <3>2 DEF Event
    <3>4. QED
      BY <2>2, <3>1, <3>3
  <2>4. CASE \E auth \in Accounts, id \in Ids, e \in EventType :
               /\ Logged(auth, e) /\ e.symbol # "register" /\ e.topic = id
               /\ Exists(id) /\ auth = resources[id].creator
    <3>1. PICK auth \in Accounts, id \in Ids, e \in EventType :
            /\ Logged(auth, e) /\ e.symbol # "register" /\ e.topic = id
            /\ Exists(id) /\ auth = resources[id].creator
      BY <2>4
    <3>2. /\ events'[n + 1] = e /\ signers'[n + 1] = auth
          /\ \A k \in 1 .. n : events'[k] = events[k]
      BY <1>2, <2>1, <3>1, LogGrows
    <3>3. PICK i \in 1 .. n : /\ Latest(i, n, id, OwnerEvents)
                              /\ OwnerIn(events[i]) = resources[id].creator
      BY <1>2, <2>1, <3>1 DEF EventsReproduceState, Reproduced
    <3>4. Latest(i, n, id, OwnerEvents)'
      BY <1>2, <2>1, <3>1, <3>3, LatestPrefix
    <3>5. Subject(events'[n + 1]) = id
      BY <3>1, <3>2 DEF Subject
    <3>6. Latest(i, n, Subject(events[n + 1]), OwnerEvents)'
      BY <3>4, <3>5 DEF Latest, About
    <3>7. signers'[n + 1] = OwnerIn(events'[i])
      BY <3>1, <3>2, <3>3
    <3>8. events'[n + 1].symbol # "register" /\ (n + 1) - 1 = n
      BY <3>1, <3>2
    <3>9. Authorized(n + 1)'
      BY <3>6, <3>7, <3>8
    <3>10. QED
      BY <2>2, <3>1, <3>9
  <2>5. CASE UNCHANGED vars
    BY <1>2, <2>5 DEF vars, EveryChangeAuthorized, Latest, About
  <2>6. QED
    BY <1>2, <2>3, <2>4, <2>5, StepLogs
<1>3. QED
  BY <1>1, <1>2, TypeCorrect, EventsReproduce, PTL DEF Spec

(* No id is ever registered a second time, not even after any sequence of  *)
(* transfers and delistings.                                               *)
THEOREM RegisteredOnceHolds == Spec => []RegisteredOnce
<1>1. Init => RegisteredOnce
  BY DEF Init, RegisteredOnce
<1>2. ASSUME TypeOK, EventsReproduceState, RegisteredOnce, [Next]_vars
      PROVE  RegisteredOnce'
  <2>1. PICK n \in Nat : n = Len(events)
    BY <1>2 DEF TypeOK
  <2>2. ASSUME NEW a, NEW e, Logged(a, e),
               e.symbol = "register" => \A i \in 1 .. n : Subject(events[i]) # Subject(e)
        PROVE  RegisteredOnce'
    <3>1. /\ Len(events') = n + 1 /\ events'[n + 1] = e
          /\ \A k \in 1 .. n : events'[k] = events[k]
      BY <1>2, <2>1, <2>2, LogGrows
    <3>2. SUFFICES ASSUME NEW i \in 1 .. n + 1, NEW j \in 1 .. n + 1,
                          events'[i].symbol = "register", events'[j].symbol = "register",
                          Subject(events'[i]) = Subject(events'[j])
                   PROVE  i = j
      BY <3>1 DEF RegisteredOnce, Subject
    <3>3. CASE i \in 1 .. n /\ j \in 1 .. n
      BY <1>2, <2>1, <3>1, <3>2, <3>3 DEF RegisteredOnce
    <3>4. CASE i = n + 1 \/ j = n + 1
      BY <2>2, <3>1, <3>2, <3>4
    <3>5. QED
      BY <3>3, <3>4
  <2>3. CASE \E auth \in Accounts, c \in Accounts, id \in Ids :
               /\ Logged(auth, Event("register", c, id)) /\ auth = c /\ ~Exists(id)
    <3>1. PICK auth \in Accounts, c \in Accounts, id \in Ids :
            Logged(auth, Event("register", c, id)) /\ ~Exists(id)
      BY <2>3
    <3>2. \A i \in 1 .. n : Subject(events[i]) # id
      BY <1>2, <2>1, <3>1 DEF EventsReproduceState, Reproduced
    <3>3. Subject(Event("register", c, id)) = id
      BY DEF Subject, Event
    <3>4. QED
      BY <2>2, <3>1, <3>2, <3>3
  <2>4. CASE \E auth \in Accounts, id \in Ids, e \in EventType :
               /\ Logged(auth, e) /\ e.symbol # "register" /\ e.topic = id
               /\ Exists(id) /\ auth = resources[id].creator
    BY <2>2, <2>4
  <2>5. CASE UNCHANGED vars
    BY <1>2, <2>5 DEF vars, RegisteredOnce
  <2>6. QED
    BY <1>2, <2>3, <2>4, <2>5, StepLogs
<1>3. QED
  BY <1>1, <1>2, TypeCorrect, EventsReproduce, PTL DEF Spec

----------------------------------------------------------------------------
(* Paging. *)

(* Slot i holds the id of the register event that i others come before.    *)
OrderInv ==
  /\ Cardinality(Registrations) = count
  /\ \A i \in Slots : i < count =>
       \E n \in Registrations : Rank(n, Registrations) = i + 1 /\ events[n].data = index[i]

LEMMA RegistrationsFinite ==
  ASSUME TypeOK
  PROVE  IsFiniteSet(Registrations) /\ Registrations \subseteq 1 .. Len(events)
<1>1. Len(events) \in Nat
  BY DEF TypeOK
<1>2. Registrations \in SUBSET (1 .. Len(events)) /\ IsFiniteSet(1 .. Len(events))
  BY <1>1, FS_Interval DEF Registrations
<1>3. QED
  BY <1>2, FS_Subset

(* Another event at the end changes no rank but its own.                   *)
LEMMA RankKept ==
  ASSUME TypeOK, NEW n \in Registrations
  PROVE  Rank(n, Registrations \cup {Len(events) + 1}) = Rank(n, Registrations)
<1>1. Len(events) \in Nat /\ n \in 1 .. Len(events)
  BY DEF TypeOK, Registrations
<1>2. {j \in Registrations \cup {Len(events) + 1} : j <= n} = {j \in Registrations : j <= n}
  BY <1>1
<1>3. QED
  BY <1>2 DEF Rank

(* The slots of an interval that are all filled resolve in their order.    *)
LEMMA IntervalRank ==
  ASSUME NEW a \in Nat, NEW b \in Nat, NEW i \in a .. b
  PROVE  Rank(i, a .. b) = i - a + 1
<1>1. {j \in a .. b : j <= i} = a .. i
  OBVIOUS
<1>2. Cardinality(a .. i) = i - a + 1
  BY FS_Interval
<1>3. QED
  BY <1>1, <1>2 DEF Rank

LEMMA PageIsInterval ==
  ASSUME TypeOK, IndexIsEnumeration, NEW start \in 0 .. count, NEW size \in Nat
  PROVE  LET length == Smaller(count - start, size) IN
         /\ length \in Nat
         /\ Page(start, size) = [k \in 1 .. length |-> index[start + k - 1]]
<1> USE RegistryAssumption
<1> DEFINE length == Smaller(count - start, size)
<1>1. count \in Nat /\ start \in Nat /\ count <= U32Max /\ start <= count
  BY DEF TypeOK
<1>2. Resolved(start) = start .. count - 1
  BY <1>1 DEF Resolved, IndexIsEnumeration, TypeOK, Slots, Registered
<1>3. Cardinality(start .. count - 1) = count - start
  <2>1. start \in Int /\ count - 1 \in Int
    BY <1>1
  <2>2. Cardinality(start .. count - 1) =
          IF start > count - 1 THEN 0 ELSE (count - 1) - start + 1
    BY <2>1, FS_Interval, Zenon
  <2>3. QED
    BY <1>1, <2>2
<1>4. length \in Nat /\ length <= count - start
  BY <1>1 DEF Smaller
<1>5. ASSUME NEW k \in 1 .. length
      PROVE  (CHOOSE i \in start .. count - 1 : Rank(i, start .. count - 1) = k)
               = start + k - 1
  <2>1. \A i \in start .. count - 1 : Rank(i, start .. count - 1) = i - start + 1
    <3>1. CASE count = 0
      BY <1>1, <3>1
    <3>2. CASE count # 0
      BY <1>1, <3>2, IntervalRank
    <3>3. QED
      BY <3>1, <3>2
  <2>2. start + k - 1 \in start .. count - 1
    BY <1>1, <1>4
  <2>3. \A i \in start .. count - 1 :
          Rank(i, start .. count - 1) = k <=> i = start + k - 1
    BY <1>1, <1>4, <2>1
  <2>4. QED
    BY <2>2, <2>3
<1>6. Page(start, size) = [k \in 1 .. length |-> index[start + k - 1]]
  <2>1. Page(start, size) =
          [k \in 1 .. length |->
             index[CHOOSE i \in start .. count - 1 : Rank(i, start .. count - 1) = k]]
    BY <1>2, <1>3 DEF Page
  <2>2. QED
    BY <1>5, <2>1
<1>7. QED
  BY <1>4, <1>6

(* A client that steps through list() by the capped page size meets every  *)
(* resource once, in the order of registration, whatever page size it asks *)
(* for.                                                                    *)
THEOREM PagesCorrect == Spec => []PagesFollowRegistrationOrder
<1> USE RegistryAssumption
<1>1. Init => OrderInv
  <2> SUFFICES ASSUME Init PROVE OrderInv
    OBVIOUS
  <2>1. Registrations = {}
    BY DEF Init, Registrations
  <2>2. QED
    BY <2>1, FS_EmptySet DEF Init, OrderInv, Slots
<1>2. ASSUME TypeOK, IndexIsEnumeration, OrderInv, [Next]_vars PROVE OrderInv'
  <2>1. PICK n \in Nat : n = Len(events)
    BY <1>2 DEF TypeOK
  <2>2. IsFiniteSet(Registrations) /\ Registrations \subseteq 1 .. n
    BY <1>2, <2>1, RegistrationsFinite
  <2>3. ASSUME NEW auth \in Accounts, NEW id \in Ids, NEW c \in Accounts,
               NEW p \in Prices, NEW m \in Metadata, NEW t \in Tags,
               Register(auth, c, id, p, m, t)
        PROVE  OrderInv'
    <3>1. Logged(auth, Event("register", c, id))
      BY <2>3 DEF Register, Emit, Logged, Event, EventType
    <3>2. /\ Len(events') = n + 1 /\ events'[n + 1] = Event("register", c, id)
          /\ \A j \in 1 .. n : events'[j] = events[j]
      BY <1>2, <2>1, <3>1, LogGrows
    <3>3. Registrations' = Registrations \cup {n + 1}
      BY <2>1, <3>2 DEF Registrations, Event
    <3>4. Cardinality(Registrations') = count + 1
      <4>1. n + 1 \notin Registrations
        BY <2>2
      <4>2. Cardinality(Registrations \cup {n + 1}) = Cardinality(Registrations) + 1
        BY <2>2, <4>1, FS_AddElement
      <4>3. QED
        BY <1>2, <3>3, <4>2 DEF OrderInv
    <3>5. count \in Slots /\ count' = count + 1 /\ index' = [index EXCEPT ![count] = id]
      BY <1>2, <2>3 DEF Register, MayRegister, TypeOK, Slots
    <3>6. Rank(n + 1, Registrations') = count + 1
      <4>1. {j \in Registrations \cup {n + 1} : j <= n + 1} = Registrations \cup {n + 1}
        <5>1. \A j \in Registrations \cup {n + 1} : j <= n + 1
          BY <2>2
        <5>2. QED
          BY <5>1, Zenon
      <4>2. Rank(n + 1, Registrations \cup {n + 1}) = Cardinality(Registrations \cup {n + 1})
        BY <4>1 DEF Rank
      <4>3. QED
        BY <3>3, <3>4, <4>2
    <3>7. ASSUME NEW i \in Slots, i < count'
          PROVE  \E k \in Registrations' :
                   Rank(k, Registrations') = i + 1 /\ events'[k].data = index'[i]
      <4>1. CASE i = count
        <5>1. n + 1 \in Registrations' /\ events'[n + 1].data = index'[i]
          BY <1>2, <3>2, <3>3, <3>5, <4>1 DEF Event, TypeOK
        <5>2. QED
          BY <3>6, <4>1, <5>1
      <4>2. CASE i # count
        <5>1. i < count
          BY <1>2, <3>5, <3>7, <4>2 DEF TypeOK, Slots
        <5>2. PICK k \in Registrations :
                Rank(k, Registrations) = i + 1 /\ events[k].data = index[i]
          BY <1>2, <5>1 DEF OrderInv
        <5>3. Rank(k, Registrations') = i + 1
          BY <1>2, <2>1, <3>3, <5>2, RankKept
        <5>4. k \in Registrations' /\ events'[k].data = index'[i]
          BY <1>2, <2>2, <3>2, <3>3, <3>5, <4>2, <5>2 DEF TypeOK
        <5>5. QED
          BY <5>3, <5>4
      <4>3. QED
        BY <4>1, <4>2
    <3>8. QED
      BY <3>4, <3>5, <3>7 DEF OrderInv, Rank
  <2>4. ASSUME NEW auth \in Accounts, NEW id \in Ids, Mutate(auth, id)
        PROVE  OrderInv'
    <3>1. PICK e : Logged(auth, e) /\ e.symbol # "register"
      BY <1>2, <2>4, MutationShape
    <3>2. /\ Len(events') = n + 1 /\ events'[n + 1] = e
          /\ \A j \in 1 .. n : events'[j] = events[j]
      BY <1>2, <2>1, <3>1, LogGrows
    <3>3. Registrations' = Registrations
      BY <2>1, <3>1, <3>2 DEF Registrations
    <3>4. index' = index /\ count' = count
      BY <2>4 DEF Mutate, SetPrice, UpdateMetadata, SetTags, TransferOwnership,
        SetListed, Keep
    <3>5. \A k \in Registrations : events'[k] = events[k]
      BY <2>2, <3>2
    <3>6. QED
      BY <1>2, <3>3, <3>4, <3>5 DEF OrderInv, Rank
  <2>5. CASE UNCHANGED vars
    BY <1>2, <2>5 DEF vars, OrderInv, Registrations, Rank
  <2>6. QED
    BY <1>2, <2>3, <2>4, <2>5 DEF Next, Mutate
<1>3. ASSUME TypeOK, IndexIsEnumeration, OrderInv PROVE PagesFollowRegistrationOrder
  <2> SUFFICES ASSUME NEW start \in 0 .. count, NEW limit \in 0 .. PageCap + 1
               PROVE  LET page == List(start, limit) IN
                        /\ Len(page) = Smaller(count - start, Smaller(limit, PageCap))
                        /\ \A k \in 1 .. Len(page) : \E n \in Registrations :
                             Rank(n, Registrations) = start + k /\ events[n].data = page[k]
    BY DEF PagesFollowRegistrationOrder
  <2> DEFINE length == Smaller(count - start, Smaller(limit, PageCap))
             page == List(start, limit)
  <2>1. Smaller(limit, PageCap) \in Nat
    BY DEF Smaller
  <2>2. length \in Nat /\ page = [k \in 1 .. length |-> index[start + k - 1]]
    BY <1>3, <2>1, PageIsInterval DEF List
  <2>3. Len(page) = length
    BY <2>2
  <2>4. count \in 0 .. U32Max /\ length <= count - start
    BY <1>3, <2>1 DEF Smaller, TypeOK
  <2>5. ASSUME NEW k \in 1 .. length
        PROVE  \E n \in Registrations :
                 Rank(n, Registrations) = start + k /\ events[n].data = page[k]
    <3>1. start + k - 1 \in Slots /\ start + k - 1 < count
      BY <2>2, <2>4 DEF Slots
    <3>2. PICK n \in Registrations : /\ Rank(n, Registrations) = (start + k - 1) + 1
                                     /\ events[n].data = index[start + k - 1]
      BY <1>3, <3>1 DEF OrderInv
    <3>3. (start + k - 1) + 1 = start + k /\ page[k] = index[start + k - 1]
      BY <2>2
    <3>4. QED
      BY <3>2, <3>3
  <2>6. QED
    BY <2>3, <2>5
<1>4. QED
  BY <1>1, <1>2, <1>3, TypeCorrect, IndexCorrect, PTL DEF Spec

----------------------------------------------------------------------------
(* The rent. *)

(* Paying rent changes no answer of the contract: under its ledger's       *)
(* archival rules the contract takes only the steps of the registry, so    *)
(* every theorem above holds of the two together.                          *)
THEOREM RentKeepsRegistry == StorageSpec => Spec
<1>1. StorageInit => Init
  BY DEF StorageInit
<1>2. ASSUME [StorageNext]_<<vars, storage>> PROVE [Next]_vars
  <2>1. ASSUME NEW auth \in Accounts, NEW id \in Ids, NEW c \in Accounts,
               NEW p \in Prices, NEW m \in Metadata, NEW t \in Tags,
               RegisterAndBump(auth, c, id, p, m, t)
        PROVE  Next
    BY <2>1 DEF RegisterAndBump, Next
  <2>2. ASSUME NEW auth \in Accounts, NEW id \in Ids, Mutate(auth, id) PROVE Next
    BY <2>2 DEF Mutate, Next
  <2>3. ASSUME NEW id \in Ids, RestoreResource(id) PROVE UNCHANGED vars
    BY <2>3 DEF RestoreResource
  <2>4. ASSUME NEW i \in Slots, RestoreIndex(i) PROVE UNCHANGED vars
    BY <2>4 DEF RestoreIndex
  <2>5. CASE RestoreInstance
    BY <2>5 DEF RestoreInstance
  <2>6. CASE NextDay
    BY <2>6 DEF NextDay
  <2>7. CASE UNCHANGED <<vars, storage>>
    BY <2>7
  <2>8. QED
    BY <1>2, <2>1, <2>2, <2>3, <2>4, <2>5, <2>6, <2>7 DEF StorageNext
<1>3. QED
  BY <1>1, <1>2, PTL DEF StorageSpec, Spec

(* The days are numbers, no write is dated in the future, and a registered *)
(* entry has its threshold of life left after its last write.              *)
RentInv ==
  /\ now \in Nat
  /\ resourceTtl \in [Ids -> Int]
  /\ written \in [Ids -> Nat]
  /\ \A id \in Ids : written[id] <= now
  /\ ManagedEntryLives

LEMMA ExtendBuysLife ==
  ASSUME now \in Nat, NEW ttl \in Int
  PROVE  Extend(ttl) \in Int /\ Extend(ttl) >= now + LifetimeThreshold
  BY StorageAssumption DEF Extend

(* The rent's promise: no sequence of writes, expiries, restorations and   *)
(* idle days leaves a registered entry with less than the lifetime         *)
(* threshold after its last write.                                         *)
THEOREM ManagedLives == StorageSpec => []ManagedEntryLives
<1> USE StorageAssumption
<1>1. StorageInit => RentInv
  BY DEF StorageInit, Init, RentInv, ManagedEntryLives, Registered, Exists
<1>2. ASSUME TypeOK, RentInv, [StorageNext]_<<vars, storage>> PROVE RentInv'
  <2>1. ASSUME NEW auth \in Accounts, NEW id \in Ids, NEW c \in Accounts,
               NEW p \in Prices, NEW m \in Metadata, NEW t \in Tags,
               RegisterAndBump(auth, c, id, p, m, t)
        PROVE  RentInv'
    <3>1. now + MinTtl \in Int
      BY <1>2 DEF RentInv
    <3>2. /\ Extend(now + MinTtl) \in Int
          /\ Extend(now + MinTtl) >= now + LifetimeThreshold
      BY <1>2, <3>1, ExtendBuysLife DEF RentInv
    <3>3. \A k \in Ids : k # id => resources'[k] = resources[k]
      BY <1>2, <2>1 DEF RegisterAndBump, Register, TypeOK
    <3>4. /\ now' = now
          /\ resourceTtl' = [resourceTtl EXCEPT ![id] = Extend(now + MinTtl)]
          /\ written' = [written EXCEPT ![id] = now]
      BY <2>1 DEF RegisterAndBump
    <3>5. QED
      BY <1>2, <3>2, <3>3, <3>4 DEF RentInv, ManagedEntryLives, Registered, Exists
  <2>2. ASSUME NEW auth \in Accounts, NEW id \in Ids, Mutate(auth, id), Save(id)
        PROVE  RentInv'
    <3>1. /\ Extend(resourceTtl[id]) \in Int
          /\ Extend(resourceTtl[id]) >= now + LifetimeThreshold
      BY <1>2, ExtendBuysLife DEF RentInv
    <3>2. \A k \in Ids : Exists(k)' <=> Exists(k)
      BY <1>2, <2>2, MutationShape
    <3>3. QED
      BY <1>2, <2>2, <3>1, <3>2 DEF Save, RentInv, ManagedEntryLives, Registered
  <2>3. ASSUME NEW id \in Ids, RestoreResource(id) PROVE RentInv'
    BY <1>2, <2>3 DEF RestoreResource, Live, RentInv, ManagedEntryLives, Registered,
      Exists, vars
  <2>4. ASSUME NEW i \in Slots, RestoreIndex(i) PROVE RentInv'
    BY <1>2, <2>4 DEF RestoreIndex, RentInv, ManagedEntryLives, Registered, Exists, vars
  <2>5. CASE RestoreInstance
    BY <1>2, <2>5 DEF RestoreInstance, RentInv, ManagedEntryLives, Registered, Exists, vars
  <2>6. CASE NextDay
    BY <1>2, <2>6 DEF NextDay, RentInv, ManagedEntryLives, Registered, Exists, vars
  <2>7. CASE UNCHANGED <<vars, storage>>
    BY <1>2, <2>7 DEF storage, RentInv, ManagedEntryLives, Registered, Exists, vars
  <2>8. QED
    BY <1>2, <2>1, <2>2, <2>3, <2>4, <2>5, <2>6, <2>7 DEF StorageNext
<1>3. RentInv => ManagedEntryLives
  BY DEF RentInv
<1>4. QED
  BY <1>1, <1>2, <1>3, TypeCorrect, RentKeepsRegistry, PTL DEF StorageSpec
=============================================================================
