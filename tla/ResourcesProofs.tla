--------------------------- MODULE ResourcesProofs ---------------------------
(***************************************************************************)
(* Proofs about a resource's life: its publishing with an Idempotency-Key,  *)
(* the catalogue that lists it and the caches in front of it, and the       *)
(* earnings its publisher is told of; for any number of requests, keys,     *)
(* resources, reads, accounts and payments.                                 *)
(***************************************************************************)
EXTENDS Publishing, Catalog, Sales, SequenceTheorems, TLAPS

----------------------------------------------------------------------------
(* Publishing. *)

(* A record is kept under the key of its owner; its publish still runs, or *)
(* has made its row, with its file.                                        *)
Complete(q) == q \in rows /\ (KindOf[q] = "file" => q \in files)

StoreInv ==
  \A k \in ScopedKeys : store[k] # Nil =>
    LET q == store[k].owner IN
    /\ Keyed(q) /\ Scoped(q) = k
    /\ IF store[k].done THEN Complete(q) ELSE pc[q] \in Running

(* What the steps of a publish have done before it. *)
PcInv ==
  \A q \in Request :
    /\ q \in rows => pc[q] # "idle"
    /\ pc[q] \in {"upload", "update"} => q \in rows
    /\ pc[q] = "answer" => Complete(q)

(* What a client was told was created. *)
ToldInv ==
  \A q \in Request : client[q] \in Request =>
    Complete(client[q]) /\ (client[q] = q \/ SamePublish(client[q], q))

(* Whoever has made a row, or is about to, holds its key or is excused.    *)
Holds(q) == store[Scoped(q)] # Nil /\ store[Scoped(q)].owner = q
HolderInv ==
  \A q \in Request : Keyed(q) /\ (q \in rows \/ pc[q] \in Running) => q \in excused \/ Holds(q)

IInv == PublishingTypeOK /\ StoreInv /\ PcInv /\ ToldInv /\ HolderInv

(* No record is taken for the absence of one.                              *)
LEMMA RecordsAreNotNil ==
  ASSUME NEW q \in Request, NEW done \in BOOLEAN
  PROVE  LET record == [owner |-> q, done |-> done] IN
         record # Nil /\ record \in [owner : Request, done : BOOLEAN]
<1>1. [owner |-> q, done |-> done] \in [owner : Request, done : BOOLEAN]
  OBVIOUS
<1>2. Nil \notin [owner : Request, done : BOOLEAN]
  BY PublishAssumption
<1>3. QED
  BY <1>1, <1>2

LEMMA Keys == ASSUME NEW q \in Request, Keyed(q) PROVE Scoped(q) \in ScopedKeys
BY DEF ScopedKeys

----------------------------------------------------------------------------
LEMMA InitIInv == PublishingInit => IInv
BY PublishAssumption DEF PublishingInit, IInv, PublishingTypeOK, StoreInv, PcInv, ToldInv,
   HolderInv, Complete, Running

LEMMA ArrivePreserves ==
  ASSUME IInv, NEW q \in Request, Arrive(q) \/ Abandon(q) \/ Refuse(q)
  PROVE  IInv'
<1> USE PublishAssumption
<1>1. PublishingTypeOK'
  BY DEF IInv, PublishingTypeOK, Arrive, Abandon, Refuse, Go, Respond, Running, tables, bounds
<1>2. StoreInv'
  BY DEF IInv, PublishingTypeOK, StoreInv, Complete, Arrive, Abandon, Refuse, Go, Running,
     tables, Keyed, Scoped
<1>3. PcInv'
  BY DEF IInv, PublishingTypeOK, PcInv, Complete, Arrive, Abandon, Refuse, Go, tables
<1>4. ToldInv'
  BY DEF IInv, PublishingTypeOK, ToldInv, Complete, SamePublish, Arrive, Abandon, Refuse, Respond,
     tables
<1>5. HolderInv'
  BY DEF IInv, PublishingTypeOK, HolderInv, Holds, Keyed, Scoped, Arrive, Abandon, Refuse, Go,
     Running, tables
<1>6. QED
  BY <1>1, <1>2, <1>3, <1>4, <1>5 DEF IInv

LEMMA RepeatPreserves ==
  ASSUME IInv, NEW q \in Request, Repeat(q)
  PROVE  IInv'
<1> USE PublishAssumption
<1> DEFINE held == store[Scoped(q)]
<1>1. /\ Keyed(q) /\ Scoped(q) \in ScopedKeys /\ held # Nil
      /\ held \in [owner : Request, done : BOOLEAN]
      /\ held.done => Complete(held.owner) /\ SamePublish(held.owner, q)
  BY Keys DEF Repeat, Held, IInv, PublishingTypeOK, StoreInv, SamePublish, Scoped, Keyed
<1>2. PublishingTypeOK'
  BY <1>1 DEF IInv, PublishingTypeOK, Repeat, Go, Respond, Running, tables, bounds
<1>3. StoreInv'
  BY DEF IInv, PublishingTypeOK, StoreInv, Complete, Repeat, Go, Running, tables, Keyed, Scoped
<1>4. PcInv'
  BY DEF IInv, PublishingTypeOK, PcInv, Complete, Repeat, Go, tables
<1>5. ToldInv'
  BY <1>1 DEF IInv, PublishingTypeOK, ToldInv, Complete, SamePublish, Repeat, Respond, tables
<1>6. HolderInv'
  BY DEF IInv, PublishingTypeOK, HolderInv, Holds, Keyed, Scoped, Repeat, Go, Running, tables
<1>7. QED
  BY <1>2, <1>3, <1>4, <1>5, <1>6 DEF IInv

(* A key is taken only when nobody holds it, so all who made a row under   *)
(* it before are excused.                                                  *)
LEMMA TakePreserves ==
  ASSUME IInv, NEW q \in Request, Take(q)
  PROVE  IInv'
<1> USE PublishAssumption
<1>1. /\ Marker(q) # Nil /\ Marker(q) \in [owner : Request, done : BOOLEAN]
      /\ Marker(q).owner = q /\ ~Marker(q).done
  BY RecordsAreNotNil DEF Marker
<1>2. /\ Keyed(q) => store' = [store EXCEPT ![Scoped(q)] = Marker(q)]
      /\ ~Keyed(q) => store' = store
  BY DEF Take, Write
<1>3. Keyed(q) => Scoped(q) \in ScopedKeys
  BY Keys
<1>4. PublishingTypeOK'
  BY <1>1, <1>2, <1>3 DEF IInv, PublishingTypeOK, Take, Go, Running, tables, bounds
<1>5. StoreInv'
  BY <1>1, <1>2, <1>3 DEF IInv, PublishingTypeOK, StoreInv, Complete, Take, Go, Running, tables,
     Keyed, Scoped
<1>6. PcInv' /\ ToldInv'
  BY DEF IInv, PublishingTypeOK, PcInv, ToldInv, Complete, SamePublish, Take, Go, tables
<1>7. HolderInv'
  <2>1. SUFFICES ASSUME NEW p \in Request, Keyed(p), p \in rows' \/ pc'[p] \in Running
                 PROVE  p \in excused' \/ (store'[Scoped(p)] # Nil /\ store'[Scoped(p)].owner = p)
    BY DEF HolderInv, Holds, Keyed, Scoped
  <2>2. CASE p = q
    BY <1>1, <1>2, <1>3, <2>1, <2>2 DEF IInv, PublishingTypeOK
  <2>3. CASE p # q
    <3>1. p \in excused \/ Holds(p)
      BY <2>1, <2>3 DEF Take, Go, tables, IInv, PublishingTypeOK, HolderInv
    <3>2. Holds(p) => store'[Scoped(p)] = store[Scoped(p)]
      BY <1>2, <1>3, <2>1, Keys DEF Take, Holds, Held, IInv, PublishingTypeOK
    <3>3. QED
      BY <3>1, <3>2 DEF Holds, Take
  <2>4. QED
    BY <2>2, <2>3
<1>8. QED
  BY <1>4, <1>5, <1>6, <1>7 DEF IInv

LEMMA RunPreserves ==
  ASSUME IInv, NEW q \in Request, Insert(q) \/ Upload(q) \/ Update(q)
  PROVE  IInv'
<1> USE PublishAssumption
<1>1. PublishingTypeOK'
  BY DEF IInv, PublishingTypeOK, Insert, Upload, Update, Go, Running, tables, bounds
<1>2. StoreInv'
  BY DEF IInv, PublishingTypeOK, StoreInv, Complete, Insert, Upload, Update, Go, Running,
     tables, Keyed, Scoped
<1>3. PcInv'
  BY DEF IInv, PublishingTypeOK, PcInv, Complete, Insert, Upload, Update, Go, tables
<1>4. ToldInv'
  BY DEF IInv, PublishingTypeOK, ToldInv, Complete, SamePublish, Insert, Upload, Update, tables
<1>5. HolderInv'
  BY DEF IInv, PublishingTypeOK, HolderInv, Holds, Keyed, Scoped, Insert, Upload, Update, Go,
     Running, tables
<1>6. QED
  BY <1>1, <1>2, <1>3, <1>4, <1>5 DEF IInv

(* A handler ends and its key is let go of, or given to it.                *)
LEMMA EndPreserves ==
  ASSUME IInv, NEW q \in Request, pc[q] \in Running, Go(q, "done"), UNCHANGED <<tables, bounds>>,
         NEW record,
         \/ record = Nil /\ Forget(q)
         \/ /\ record = Result(q) /\ Complete(q)
            /\ excused' = IF Held(q) THEN excused \cup ({store[Scoped(q)].owner} \ {q})
                                     ELSE excused,
         Write(q, record),
         client' \in [Request -> Request \cup {"idle", "waiting", "gone", "timeout", "refused"}],
         \A p \in Request : client'[p] \in Request => client'[p] = client[p]
                                                     \/ (p = q /\ client'[p] = q /\ Complete(q))
  PROVE  IInv'
<1> USE PublishAssumption
<1>1. /\ record # Nil => /\ record \in [owner : Request, done : BOOLEAN]
                         /\ record.owner = q /\ record.done /\ Complete(q)
      /\ record = Nil => Forget(q)
  <2>1. CASE record = Nil /\ Forget(q)
    BY <2>1
  <2>2. CASE record = Result(q) /\ Complete(q)
    <3>1. Result(q) # Nil /\ Result(q) \in [owner : Request, done : BOOLEAN]
      BY RecordsAreNotNil DEF Result
    <3>2. Result(q).owner = q /\ Result(q).done
      BY DEF Result
    <3>3. QED
      BY <2>2, <3>1, <3>2
  <2>3. QED
    BY <2>1, <2>2
<1>2. /\ Keyed(q) => store' = [store EXCEPT ![Scoped(q)] = record]
      /\ ~Keyed(q) => store' = store
  BY DEF Write
<1>3. Keyed(q) => Scoped(q) \in ScopedKeys
  BY Keys
<1>4. Held(q) => store[Scoped(q)].owner \in Request
  BY <1>3 DEF Held, IInv, PublishingTypeOK
<1>5. /\ excused \subseteq excused' /\ excused' \subseteq Request
      /\ Held(q) => store[Scoped(q)].owner \in excused' \/ store[Scoped(q)].owner = q
      /\ record = Nil => q \in excused'
  BY <1>1, <1>4 DEF Forget, IInv, PublishingTypeOK
<1>6. PublishingTypeOK'
  <2>1. store' \in [ScopedKeys -> [owner : Request, done : BOOLEAN] \cup {Nil}]
    BY <1>1, <1>2, <1>3 DEF IInv, PublishingTypeOK
  <2>2. QED
    BY <1>5, <2>1 DEF IInv, PublishingTypeOK, Go, Running, tables, bounds
<1>7. StoreInv'
  BY <1>1, <1>2, <1>3 DEF IInv, PublishingTypeOK, StoreInv, Complete, Go, tables, Keyed, Scoped
<1>8. PcInv'
  BY DEF IInv, PublishingTypeOK, PcInv, Complete, Go, tables
<1>9. ToldInv'
  BY DEF IInv, PublishingTypeOK, ToldInv, Complete, SamePublish, tables
<1>10. HolderInv'
  <2>1. SUFFICES ASSUME NEW p \in Request, Keyed(p), p \in rows' \/ pc'[p] \in Running
                 PROVE  p \in excused' \/ (store'[Scoped(p)] # Nil /\ store'[Scoped(p)].owner = p)
    BY DEF HolderInv, Holds, Keyed, Scoped
  <2>2. CASE p = q
    BY <1>1, <1>2, <1>3, <1>5, <2>1, <2>2 DEF IInv, PublishingTypeOK
  <2>3. CASE p # q
    <3>1. p \in excused \/ Holds(p)
      BY <2>1, <2>3 DEF Go, tables, IInv, PublishingTypeOK, HolderInv
    <3>2. Holds(p) /\ Keyed(q) /\ Scoped(p) = Scoped(q) => p \in excused'
      BY <1>5, <2>3 DEF Holds, Held
    <3>3. Keyed(q) /\ Scoped(p) # Scoped(q) => store'[Scoped(p)] = store[Scoped(p)]
      BY <1>2, <1>3, <2>1, Keys DEF IInv, PublishingTypeOK
    <3>4. QED
      BY <1>2, <1>5, <3>1, <3>2, <3>3 DEF Holds
  <2>4. QED
    BY <2>2, <2>3
<1>11. QED
  BY <1>6, <1>7, <1>8, <1>9, <1>10 DEF IInv

LEMMA CaughtPreserves ==
  ASSUME IInv, NEW q \in Request, pc[q] \in Running, Caught(q), UNCHANGED <<tables, bounds>>
  PROVE  IInv'
<1>1. /\ client' \in [Request -> Request \cup {"idle", "waiting", "gone", "timeout", "refused"}]
      /\ \A p \in Request : client'[p] \in Request => client'[p] = client[p]
  BY PublishAssumption DEF Caught, Respond, IInv, PublishingTypeOK
<1>2. QED
  BY <1>1, EndPreserves DEF Caught

LEMMA AnswerPreserves ==
  ASSUME IInv, NEW q \in Request, Answer(q)
  PROVE  IInv'
<1>1. pc[q] \in Running /\ Complete(q) /\ UNCHANGED <<tables, bounds>>
  BY DEF Answer, Running, IInv, PcInv
<1>2. CASE ~Writable(q)
  BY <1>1, <1>2, CaughtPreserves DEF Answer
<1>3. CASE Writable(q)
  <2>1. /\ client' \in [Request -> Request \cup {"idle", "waiting", "gone", "timeout", "refused"}]
        /\ \A p \in Request : client'[p] \in Request => client'[p] = client[p]
                                                       \/ (p = q /\ client'[p] = q)
    BY <1>3 DEF Answer, Respond, IInv, PublishingTypeOK
  <2>2. QED
    BY <1>1, <1>3, <2>1, EndPreserves DEF Answer
<1>4. QED
  BY <1>2, <1>3

LEMMA ExpirePreserves ==
  ASSUME IInv, NEW k \in ScopedKeys, Expire(k)
  PROVE  IInv'
<1>1. store[k] \in [owner : Request, done : BOOLEAN]
  BY DEF Expire, IInv, PublishingTypeOK
<1>2. PublishingTypeOK'
  BY <1>1, PublishAssumption DEF Expire, IInv, PublishingTypeOK, tables
<1>3. StoreInv' /\ PcInv' /\ ToldInv'
  BY DEF Expire, IInv, PublishingTypeOK, StoreInv, PcInv, ToldInv, Complete, SamePublish, tables,
     Keyed, Scoped
<1>4. HolderInv'
  BY <1>1 DEF Expire, IInv, PublishingTypeOK, HolderInv, Holds, tables, Keyed, Scoped
<1>5. QED
  BY <1>2, <1>3, <1>4 DEF IInv

LEMMA RestartPreserves ==
  ASSUME IInv, Restart
  PROVE  IInv'
<1> USE PublishAssumption
<1>1. PublishingTypeOK'
  BY DEF Restart, IInv, PublishingTypeOK, tables
<1>2. StoreInv'
  BY DEF Restart, StoreInv
<1>3. PcInv' /\ ToldInv'
  BY DEF Restart, IInv, PublishingTypeOK, PcInv, ToldInv, Complete, SamePublish, tables
<1>4. HolderInv'
  BY DEF Restart, IInv, PublishingTypeOK, PcInv, HolderInv, Running, Keyed, tables
<1>5. QED
  BY <1>1, <1>2, <1>3, <1>4 DEF IInv

LEMMA StepIInv == IInv /\ [PublishingNext]_publishingVars => IInv'
<1>1. SUFFICES ASSUME IInv, [PublishingNext]_publishingVars PROVE IInv'
  OBVIOUS
<1>2. ASSUME NEW q \in Request, Arrive(q) \/ Abandon(q) \/ Refuse(q) PROVE IInv'
  BY <1>1, <1>2, ArrivePreserves
<1>3. ASSUME NEW q \in Request, Repeat(q) PROVE IInv'
  BY <1>1, <1>3, RepeatPreserves
<1>4. ASSUME NEW q \in Request, Take(q) PROVE IInv'
  BY <1>1, <1>4, TakePreserves
<1>5. ASSUME NEW q \in Request, Insert(q) \/ Upload(q) \/ Update(q) PROVE IInv'
  BY <1>1, <1>5, RunPreserves
<1>6. ASSUME NEW q \in Request, Answer(q) PROVE IInv'
  BY <1>1, <1>6, AnswerPreserves
<1>7. ASSUME NEW q \in Request, Fail(q) PROVE IInv'
  BY <1>1, <1>7, CaughtPreserves DEF Fail, Running
<1>8. ASSUME NEW k \in ScopedKeys, Expire(k) PROVE IInv'
  BY <1>1, <1>8, ExpirePreserves
<1>9. CASE Restart
  BY <1>1, <1>9, RestartPreserves
<1>10. CASE UNCHANGED publishingVars
  BY <1>1, <1>10 DEF publishingVars, tables, bounds, IInv, PublishingTypeOK, StoreInv, PcInv,
     ToldInv, HolderInv, Holds, Complete, SamePublish, Keyed, Scoped
<1>11. QED
  BY <1>1, <1>2, <1>3, <1>4, <1>5, <1>6, <1>7, <1>8, <1>9, <1>10 DEF PublishingNext

LEMMA SafetyOfIInv == IInv => MarkerHasRunner /\ RepliesAreYours /\ OneRowPerHeldKey
<1>1. SUFFICES ASSUME IInv PROVE MarkerHasRunner /\ RepliesAreYours /\ OneRowPerHeldKey
  OBVIOUS
<1>2. MarkerHasRunner
  BY <1>1 DEF IInv, PublishingTypeOK, StoreInv, MarkerHasRunner
<1>3. RepliesAreYours
  BY <1>1 DEF IInv, ToldInv, RepliesAreYours, Complete
<1>4. OneRowPerHeldKey
  <2>1. SUFFICES ASSUME NEW p \in rows, NEW q \in rows, SamePublish(p, q),
                        p \notin excused, q \notin excused
                 PROVE  p = q
    BY DEF OneRowPerHeldKey
  <2>2. Keyed(p) /\ Keyed(q) /\ Scoped(p) = Scoped(q)
    BY <2>1 DEF SamePublish, Keyed, Scoped
  <2>3. Holds(p) /\ Holds(q)
    BY <1>1, <2>1, <2>2 DEF IInv, PublishingTypeOK, HolderInv
  <2>4. QED
    BY <2>2, <2>3 DEF Holds
<1>5. QED
  BY <1>2, <1>3, <1>4

(* A marker that answers "in progress" is held by a handler that will let  *)
(* go of it, after any failures, expiries and restarts.                    *)
THEOREM MarkerRuns == PublishingSpec => []MarkerHasRunner
BY InitIInv, StepIInv, SafetyOfIInv, PTL DEF PublishingSpec

(* A client is told of a complete row of its own publisher and key.        *)
THEOREM RepliesYours == PublishingSpec => []RepliesAreYours
BY InitIInv, StepIInv, SafetyOfIInv, PTL DEF PublishingSpec

(* A key makes one row, unless its record was lost on the way.             *)
THEOREM OneRow == PublishingSpec => []OneRowPerHeldKey
BY InitIInv, StepIInv, SafetyOfIInv, PTL DEF PublishingSpec

----------------------------------------------------------------------------
(* The catalogue and its caches.  What a read, the cached catalogue and a   *)
(* page show was listed so many ticks ago: a read takes QueryTime, and each *)
(* cache adds its TTL.                                                      *)

Stored == [listing : SUBSET Resource, stale : BOOLEAN, left : 0 .. TTL]
PageEntry == [key : Key, listing : SUBSET Resource, stale : BOOLEAN, left : 0 .. TTL]
Asked == [key : Key, listing : SUBSET Resource, stale : BOOLEAN, age : 0 .. QueryTime]

CachesOK ==
  /\ catalog # Nothing => catalog \in Stored
  /\ pages \in Seq(PageEntry)
  /\ query = [q \in Query |-> query[q]]
  /\ \A q \in Query : query[q] # Nothing => query[q] \in Asked

PastOK == past \in Seq(SUBSET SUBSET Resource) /\ Len(past) \in 1 .. Remembered

(* In this tick or in one of the n - 1 before it. *)
Seen(listing, n) == \E i \in 1 .. Len(past) : i <= n /\ listing \in past[i]

RecentInv ==
  /\ Listed \in past[1]
  /\ \A q \in Query : query[q] # Nothing => Seen(query[q].listing, query[q].age + 1)
  /\ Fresh(catalog) => Seen(catalog.listing, QueryTime + 1 + TTL - catalog.left)
  /\ \A p \in Range(pages) : p.left > 0 => Seen(p.listing, QueryTime + 2 * TTL - p.left)

(* What is gone is listed nowhere that was not known to be stale. *)
GoneInv ==
  /\ Listed \cap gone = {}
  /\ \A q \in Query : query[q] # Nothing /\ ~query[q].stale => query[q].listing \cap gone = {}
  /\ Fresh(catalog) /\ ~catalog.stale => catalog.listing \cap gone = {}
  /\ \A p \in Range(pages) : p.left > 0 /\ ~p.stale => p.listing \cap gone = {}

RowsOK ==
  /\ row \in [Resource -> [listed : BOOLEAN, status : {"pending", "verified", "rejected"},
                           by : Verification \cup {Nothing}]]
  /\ verdict \in [Verification -> [resource : Resource, original : BOOLEAN] \cup {Nothing}]
  /\ judging \subseteq Verification /\ file \subseteq Resource
  /\ upload \in [Resource -> {"uploading", "stored", "published", "failed"}]
  /\ delisting \in [Resource -> [step : {"no", "updated", "invalidated", "deleted"},
                                 path : BOOLEAN]]

(* A row's verdict is one that was made, and stays as it was made; a file  *)
(* that was stored goes after its row was unlisted, and only a verdict or  *)
(* an event lists a row again.                                             *)
RowsInv ==
  /\ \A v \in judging : verdict[v] # Nothing
  /\ \A r \in Listed \ byChain :
       /\ row[r].status = "verified" /\ row[r].by # Nothing
       /\ verdict[row[r].by] # Nothing
       /\ verdict[row[r].by].resource = r /\ verdict[row[r].by].original
  /\ \A r \in Resource : HasPath(r) /\ delisting[r].step # "deleted" => r \in file
  /\ \A r \in Listed : delisting[r].step # "no" => r \in overruled

CatalogInv == CachesOK /\ PastOK /\ RecentInv /\ GoneInv /\ RowsOK /\ RowsInv

LEMMA CatalogNumbers ==
  /\ MaxKeys \in Nat /\ MaxKeys >= 1 /\ TTL \in Nat /\ TTL >= 1 /\ QueryTime \in Nat
  /\ Remembered = 2 * TTL - 1 + QueryTime /\ Remembered \in Nat /\ Remembered >= 1
BY CatalogAssumption DEF Remembered

LEMMA RangeElement ==
  ASSUME NEW S, NEW s \in Seq(S)
  PROVE  Range(s) \subseteq S /\ \A i \in 1 .. Len(s) : s[i] \in Range(s)
BY DEF Range

LEMMA WithinRange ==
  ASSUME NEW S, NEW s \in Seq(S), NEW R, Range(s) \subseteq R
  PROVE  s \in Seq(R)
<1>1. \A i \in 1 .. Len(s) : s[i] \in R
  BY RangeElement
<1>2. QED
  BY <1>1

(* A part of a sequence has only elements of it.                           *)
LEMMA PartOf ==
  ASSUME NEW S, NEW s \in Seq(S), NEW m \in Int, NEW n \in Int, m >= 1, n <= Len(s)
  PROVE  SubSeq(s, m, n) \in Seq(S) /\ Range(SubSeq(s, m, n)) \subseteq Range(s)
<1>1. \A i \in m .. n : i \in 1 .. Len(s) /\ s[i] \in S /\ s[i] \in Range(s)
  BY RangeElement
<1>2. SubSeq(s, m, n) \in Seq(S)
  BY <1>1, SubSeqProperties
<1>3. SubSeq(s, m, n) \in Seq(Range(s))
  BY <1>1, SubSeqProperties
<1>4. QED
  BY <1>2, <1>3, RangeElement

LEMMA JoinedOf ==
  ASSUME NEW S, NEW s \in Seq(S), NEW t \in Seq(S), NEW R, Range(s) \subseteq R, Range(t) \subseteq R
  PROVE  s \o t \in Seq(S) /\ Range(s \o t) \subseteq R
<1>1. s \o t \in Seq(S)
  OBVIOUS
<1>2. s \in Seq(R) /\ t \in Seq(R)
  BY WithinRange
<1>3. s \o t \in Seq(R)
  BY <1>2
<1>4. QED
  BY <1>1, <1>3, RangeElement

LEMMA WithoutIsPart ==
  ASSUME CachesOK, NEW key
  PROVE  Without(key) \in Seq(PageEntry) /\ Range(Without(key)) \subseteq Range(pages)
<1>1. pages \in Seq(PageEntry)
  BY DEF CachesOK
<1>2. CASE PlaceOf(key) = {}
  BY <1>1, <1>2 DEF Without
<1>3. CASE PlaceOf(key) # {}
  <2>1. PICK i : i = CHOOSE j \in PlaceOf(key) : TRUE
    OBVIOUS
  <2>2. i \in 1 .. Len(pages)
    BY <1>1, <1>3, <2>1 DEF PlaceOf
  <2>3. i - 1 \in Int /\ i + 1 \in Int /\ i + 1 >= 1 /\ i - 1 <= Len(pages) /\ Len(pages) \in Int
    BY <1>1, <2>2
  <2>4. /\ SubSeq(pages, 1, i - 1) \in Seq(PageEntry)
        /\ Range(SubSeq(pages, 1, i - 1)) \subseteq Range(pages)
    BY <1>1, <2>3, PartOf
  <2>5. /\ SubSeq(pages, i + 1, Len(pages)) \in Seq(PageEntry)
        /\ Range(SubSeq(pages, i + 1, Len(pages))) \subseteq Range(pages)
    BY <1>1, <2>3, PartOf
  <2>6. Without(key) = SubSeq(pages, 1, i - 1) \o SubSeq(pages, i + 1, Len(pages))
    BY <1>3, <2>1 DEF Without, RemoveAt
  <2>7. PICK s : s = SubSeq(pages, 1, i - 1)
    OBVIOUS
  <2>8. PICK t : t = SubSeq(pages, i + 1, Len(pages))
    OBVIOUS
  <2>9. s \o t \in Seq(PageEntry) /\ Range(s \o t) \subseteq Range(pages)
    <3>1. /\ s \in Seq(PageEntry) /\ Range(s) \subseteq Range(pages)
          /\ t \in Seq(PageEntry) /\ Range(t) \subseteq Range(pages)
      BY ONLY <2>4, <2>5, <2>7, <2>8
    <3>2. QED
      BY ONLY <3>1, JoinedOf
  <2>10. Without(key) = s \o t
    BY ONLY <2>6, <2>7, <2>8
  <2>11. QED
    BY ONLY <2>9, <2>10
<1>4. QED
  BY <1>2, <1>3

(* What a set leaves in the page cache is the new page, and old ones.      *)
NewPage(key, e) == [key |-> key, listing |-> e.listing, stale |-> e.stale, left |-> TTL]

LEMMA PutShape ==
  ASSUME CachesOK, NEW key \in Key, NEW e \in Stored, Put(key, e)
  PROVE  /\ pages' \in Seq(PageEntry)
         /\ Range(pages') \subseteq Range(pages) \cup {NewPage(key, e)}
<1> PICK p : p = NewPage(key, e)
  OBVIOUS
<1> PICK R : R = Range(pages) \cup {p}
  OBVIOUS
<1>1. pages \in Seq(PageEntry) /\ Range(pages) \subseteq R
  BY DEF CachesOK
<1>2. p \in PageEntry
  BY CatalogNumbers DEF NewPage, PageEntry, Stored
<1>3. CASE Live(key)
  <2>1. pages' = [i \in DOMAIN pages |-> IF i \in PlaceOf(key) THEN p ELSE pages[i]]
    BY <1>3 DEF Put, NewPage
  <2>2. DOMAIN pages = 1 .. Len(pages) /\ Len(pages) \in Nat
    BY <1>1
  <2>3. \A i \in 1 .. Len(pages) : pages[i] \in PageEntry /\ pages[i] \in R
    BY <1>1, RangeElement
  <2>4. pages' \in [1 .. Len(pages) -> PageEntry] /\ pages' \in [1 .. Len(pages) -> R]
    BY <1>2, <2>1, <2>2, <2>3
  <2>5. pages' \in Seq(PageEntry) /\ pages' \in Seq(R)
    BY <2>2, <2>4
  <2>6. QED
    BY <2>5, RangeElement
<1>4. CASE ~Live(key)
  <2> PICK kept : kept = Without(key)
    OBVIOUS
  <2> PICK fits : fits = IF Len(kept) >= MaxKeys THEN Tail(kept) ELSE kept
    OBVIOUS
  <2>1. kept \in Seq(PageEntry) /\ Range(kept) \subseteq R
    BY <1>1, WithoutIsPart
  <2>2. fits \in Seq(PageEntry) /\ Range(fits) \subseteq R
    <3>1. CASE Len(kept) >= MaxKeys
      <4>1. Tail(kept) = SubSeq(kept, 2, Len(kept))
        BY <2>1, TailIsSubSeq
      <4>2. Len(kept) \in Int /\ 2 \in Int /\ 2 >= 1 /\ Len(kept) <= Len(kept)
        BY <2>1
      <4>3. QED
        BY <2>1, <3>1, <4>1, <4>2, PartOf
    <3>2. QED
      BY <2>1, <3>1
  <2>3. pages' = Append(fits, p)
    BY <1>4 DEF Put, NewPage
  <2>4. pages' \in Seq(PageEntry)
    BY <1>2, <2>2, <2>3
  <2>5. fits \in Seq(R)
    BY <2>2, WithinRange
  <2>6. p \in R
    OBVIOUS
  <2>7. pages' \in Seq(R)
    BY <2>3, <2>5, <2>6
  <2>8. QED
    BY <2>4, <2>7, RangeElement
<1>5. QED
  BY <1>3, <1>4

LEMMA CatalogInitInv == CatalogInit => CatalogInv
<1> SUFFICES ASSUME CatalogInit PROVE CatalogInv
  OBVIOUS
<1>1. CachesOK
  BY DEF CatalogInit, CachesOK
<1>2. past = <<{{}}>> /\ PastOK
  BY CatalogNumbers DEF CatalogInit, PastOK
<1>3. Listed = {} /\ Range(pages) = {}
  BY DEF CatalogInit, Listed, Range
<1>4. RecentInv /\ GoneInv
  BY <1>2, <1>3 DEF CatalogInit, RecentInv, GoneInv, Fresh
<1>5. RowsOK /\ RowsInv
  BY <1>3 DEF CatalogInit, RowsOK, RowsInv, HasPath
<1>6. QED
  BY <1>1, <1>2, <1>4, <1>5 DEF CatalogInv

----------------------------------------------------------------------------
(* The rows. *)

LEMMA RowsStep ==
  ASSUME RowsOK, RowsInv, [CatalogNext]_catalogVars
  PROVE  RowsOK' /\ RowsInv'
<1>1. CASE UNCHANGED <<row, verdict, judging, upload, delisting, file, listers>>
  BY <1>1 DEF listers, RowsOK, RowsInv, Listed, HasPath
<1>2. ASSUME NEW v \in Verification, Judge(v) PROVE RowsOK' /\ RowsInv'
  <2>1. PICK r \in Resource, original \in BOOLEAN :
          verdict' = [verdict EXCEPT ![v] = [resource |-> r, original |-> original]]
    BY <1>2 DEF Judge
  <2>2. [resource |-> r, original |-> original] \in [resource : Resource, original : BOOLEAN]
    OBVIOUS
  <2>3. [resource |-> r, original |-> original] # Nothing
    BY <2>2, CatalogAssumption
  <2>4. verdict' \in [Verification -> [resource : Resource, original : BOOLEAN] \cup {Nothing}]
    BY <2>1, <2>2 DEF RowsOK
  <2>5. verdict[v] = Nothing /\ verdict'[v] # Nothing
        /\ \A w \in Verification \ {v} : verdict'[w] = verdict[w]
    BY <1>2, <2>1, <2>3 DEF Judge, RowsOK
  <2>6. RowsOK' /\ Listed' = Listed /\ (\A r1 : HasPath(r1)' = HasPath(r1)) /\ UNCHANGED listers
    BY <1>2, <2>4 DEF Judge, RowsOK, Listed, HasPath
  <2>7. RowsInv'
    BY <1>2, <2>5, <2>6 DEF Judge, RowsOK, RowsInv, Listed, HasPath, listers
  <2>8. QED
    BY <2>6, <2>7
<1>3. ASSUME NEW v \in Verification, Rule(v) PROVE RowsOK' /\ RowsInv'
  <2> PICK r : r = verdict[v].resource
    OBVIOUS
  <2>1. v \in judging /\ verdict[v] # Nothing
    BY <1>3 DEF Rule, RowsInv
  <2>2. r \in Resource /\ verdict[v].original \in BOOLEAN
    BY <2>1 DEF RowsOK
  <2>3. row' = [row EXCEPT ![r] =
          [listed |-> verdict[v].original,
           status |-> IF verdict[v].original THEN "verified" ELSE "rejected", by |-> v]]
    BY <1>3 DEF Rule
  <2>4. RowsOK'
    BY <1>3, <2>2, <2>3 DEF Rule, RowsOK
  <2>5. /\ \A s \in Resource \ {r} : row'[s] = row[s]
        /\ row'[r].listed = verdict[v].original /\ row'[r].by = v
        /\ verdict[v].original => row'[r].status = "verified"
    BY <2>2, <2>3 DEF RowsOK
  <2>6. v # Nothing
    BY CatalogAssumption
  <2>7. UNCHANGED <<verdict, upload, delisting, file>> /\ judging' \subseteq judging
        /\ overruled \subseteq overruled' /\ byChain' = byChain \ {r}
        /\ (verdict[v].original /\ delisting[r].step # "no" => r \in overruled')
    BY <1>3 DEF Rule, ListedAs
  <2>8. \A s \in Listed' : s \in Listed \ {r} \/ (s = r /\ verdict[v].original)
    BY <2>5 DEF Listed
  <2>9. ASSUME NEW s \in Listed'
        PROVE  /\ s \notin byChain' =>
                    /\ row'[s].status = "verified" /\ row'[s].by # Nothing
                    /\ verdict[row'[s].by] # Nothing
                    /\ verdict[row'[s].by].resource = s /\ verdict[row'[s].by].original
               /\ delisting[s].step # "no" => s \in overruled'
    <3>1. CASE s = r
      BY <2>1, <2>5, <2>6, <2>7, <2>8, <2>9, <3>1
    <3>2. CASE s # r
      <4>1. s \in Listed /\ row'[s] = row[s] /\ (s \notin byChain' => s \notin byChain)
        BY <2>5, <2>7, <2>8, <2>9, <3>2 DEF Listed
      <4>2. QED
        BY <2>7, <4>1 DEF RowsInv
    <3>3. QED
      BY <3>1, <3>2
  <2>10. RowsInv'
    BY <2>7, <2>9 DEF RowsInv, HasPath
  <2>11. QED
    BY <2>4, <2>10
<1>4. ASSUME NEW v \in Verification, Unruled(v) PROVE RowsOK' /\ RowsInv'
  BY <1>4 DEF Unruled, RowsOK, RowsInv, Listed, HasPath, listers
<1>5. ASSUME NEW r \in Resource, Delist(r) PROVE RowsOK' /\ RowsInv'
  <2>1. /\ row' = [row EXCEPT ![r].listed = FALSE]
        /\ delisting' = [delisting EXCEPT ![r] = [step |-> "updated", path |-> HasPath(r)]]
        /\ delisting[r].step = "no"
        /\ UNCHANGED <<verdict, judging, upload, file, listers>>
    BY <1>5 DEF Delist
  <2>2. HasPath(r) \in BOOLEAN /\ \A s : HasPath(s)' = HasPath(s)
    BY <2>1 DEF HasPath
  <2>3. RowsOK'
    BY <2>1, <2>2 DEF RowsOK
  <2>4. \A s \in Listed' : s \in Listed /\ s # r /\ row'[s] = row[s] /\ delisting'[s] = delisting[s]
    BY <2>1 DEF Listed, RowsOK
  <2>5. \A s \in Resource : delisting'[s].step # "deleted" => delisting[s].step # "deleted"
    BY <2>1 DEF RowsOK
  <2>6. RowsInv'
    BY <2>1, <2>2, <2>4, <2>5 DEF RowsInv, listers
  <2>7. QED
    BY <2>3, <2>6
<1>6. ASSUME NEW r \in Resource, Invalidate(r) \/ DeleteFile(r) PROVE RowsOK' /\ RowsInv'
  <2>1. /\ UNCHANGED <<row, verdict, judging, upload, listers>> /\ Listed' = Listed
        /\ \A s : HasPath(s)' = HasPath(s)
    BY <1>6 DEF Invalidate, DeleteFile, Listed, HasPath
  <2>2. RowsOK'
    BY <1>6, <2>1 DEF Invalidate, DeleteFile, RowsOK
  <2>3. \A s \in Resource : delisting'[s].step # "no" <=> delisting[s].step # "no"
    BY <1>6 DEF Invalidate, DeleteFile, RowsOK
  <2>4. \A s \in Resource : delisting'[s].step # "deleted" =>
          delisting[s].step # "deleted" /\ (s \in file => s \in file')
    <3>1. CASE Invalidate(r)
      BY <3>1 DEF Invalidate, RowsOK
    <3>2. CASE DeleteFile(r)
      <4>1. /\ delisting' = [delisting EXCEPT ![r].step = "deleted"]
            /\ file' \in {file, file \ {r}} /\ delisting[r].step = "invalidated"
        BY <3>2 DEF DeleteFile
      <4>2. delisting'[r].step = "deleted" /\ \A s \in Resource \ {r} : delisting'[s] = delisting[s]
        BY <4>1 DEF RowsOK
      <4>3. QED
        BY <4>1, <4>2
    <3>3. QED
      BY <1>6, <3>1, <3>2
  <2>5. Listed \subseteq Resource
    BY DEF Listed
  <2>6. RowsInv'
    BY <2>1, <2>3, <2>4, <2>5 DEF RowsInv, listers
  <2>7. QED
    BY <2>2, <2>6
<1>7. ASSUME NEW r \in Resource, Store(r) \/ Published(r) \/ UploadFails(r)
      PROVE  RowsOK' /\ RowsInv'
  <2>1. UNCHANGED <<row, verdict, judging, delisting, listers>> /\ Listed' = Listed
    BY <1>7 DEF Store, Published, UploadFails, Listed
  <2>2. RowsOK'
    BY <1>7, <2>1 DEF Store, Published, UploadFails, RowsOK
  <2>3. \A s \in Resource : HasPath(s)' => s \in file' \/ (HasPath(s) /\ file \subseteq file')
    BY <1>7 DEF Store, Published, UploadFails, HasPath, RowsOK
  <2>4. RowsInv'
    BY <2>1, <2>3 DEF RowsInv, listers
  <2>5. QED
    BY <2>2, <2>4
<1>8. ASSUME NEW r \in Resource, NEW listed \in BOOLEAN, SetListedEvent(r, listed)
      PROVE  RowsOK' /\ RowsInv'
  <2>1. /\ row' = [row EXCEPT ![r].listed = listed]
        /\ UNCHANGED <<verdict, judging, upload, delisting, file>>
        /\ overruled \subseteq overruled' /\ byChain \subseteq byChain'
        /\ listed => (r \in byChain' /\ (delisting[r].step # "no" => r \in overruled'))
    BY <1>8 DEF SetListedEvent, ListedAs
  <2>2. RowsOK' /\ \A s : HasPath(s)' = HasPath(s)
    BY <2>1 DEF RowsOK, HasPath
  <2>3. \A s \in Listed' : (s \in Listed /\ row'[s] = row[s]) \/ (s = r /\ listed)
    BY <2>1 DEF Listed, RowsOK
  <2>4. RowsInv'
    BY <2>1, <2>2, <2>3 DEF RowsInv
  <2>5. QED
    BY <2>2, <2>4
<1>9. QED
  BY <1>1, <1>2, <1>3, <1>4, <1>5, <1>6, <1>7, <1>8
     DEF CatalogNext, Compute, Ask, Land, Tick, catalogVars, rowVars

(* What is listed is what a verdict or an event of the contract decided     *)
(* last, and only these list again what its publisher delists: until then   *)
(* the file that was stored stays (routes/verify.ts, eventListener.ts,      *)
(* createFileResource and delistResource of resourceService.ts).            *)
THEOREM ListedSound == CatalogSpec => []ListedIsSound
<1>1. RowsOK /\ RowsInv => ListedIsSound
  <2>1. SUFFICES ASSUME RowsOK, RowsInv PROVE ListedIsSound
    OBVIOUS
  <2>2. ASSUME NEW r \in Listed, r \notin overruled, HasPath(r) PROVE r \in file
    <3>1. r \in Resource /\ delisting[r].step = "no"
      BY <2>1, <2>2 DEF RowsInv, Listed
    <3>2. QED
      BY <2>1, <2>2, <3>1 DEF RowsInv
  <2>3. QED
    BY <2>1, <2>2 DEF RowsInv, ListedIsSound
<1>2. CatalogInit => RowsOK /\ RowsInv
  BY CatalogInitInv DEF CatalogInv
<1>3. QED
  BY <1>1, <1>2, RowsStep, PTL DEF CatalogSpec

----------------------------------------------------------------------------
(* The caches. *)

LEMMA ReadsStep ==
  ASSUME CatalogInv,
         \/ \E key \in Key : Compute(key) \/ \E q \in Query : Ask(q, key)
         \/ \E q \in Query : Land(q)
  PROVE  CachesOK' /\ PastOK' /\ RecentInv' /\ GoneInv'
<1>1. CachesOK /\ PastOK /\ RecentInv /\ GoneInv
  BY DEF CatalogInv
<1>2. UNCHANGED <<row, past, gone>> /\ Listed' = Listed
  BY DEF Compute, Ask, Land, rowVars, Listed
<1>3. PastOK'
  BY <1>1, <1>2 DEF PastOK
<1>4. /\ \A listing, n : Seen(listing, n)' <=> Seen(listing, n)
      /\ \A listing : \A n, m \in Int : Seen(listing, n) /\ n <= m => Seen(listing, m)
  BY <1>2 DEF Seen
<1>5. ASSUME NEW key \in Key, NEW q \in Query, Ask(q, key)
      PROVE  CachesOK' /\ RecentInv' /\ GoneInv'
  <2> PICK asked : asked = [key |-> key, listing |-> Listed, stale |-> FALSE, age |-> 0]
    OBVIOUS
  <2>1. UNCHANGED <<catalog, pages>> /\ query' = [query EXCEPT ![q] = asked]
    BY <1>5 DEF Ask
  <2>2. asked \in Asked
    BY CatalogNumbers DEF Asked, Listed
  <2>3. query'[q] = asked /\ \A p \in Query \ {q} : query'[p] = query[p]
    BY <1>1, <2>1 DEF CachesOK
  <2>4. CachesOK'
    BY <1>1, <2>1, <2>2, <2>3 DEF CachesOK
  <2>5. Seen(asked.listing, asked.age + 1)
    BY <1>1 DEF Seen, RecentInv, PastOK
  <2>6. RecentInv'
    BY <1>1, <1>2, <1>4, <2>1, <2>3, <2>5 DEF RecentInv, Fresh, Seen
  <2>7. GoneInv'
    BY <1>1, <1>2, <2>1, <2>3 DEF GoneInv, Fresh
  <2>8. QED
    BY <2>4, <2>6, <2>7
<1>6. ASSUME NEW key \in Key, Compute(key)
      PROVE  CachesOK' /\ RecentInv' /\ GoneInv'
  <2>1. UNCHANGED <<catalog, query>> /\ Fresh(catalog) /\ Put(key, catalog)
    BY <1>6 DEF Compute
  <2>2. catalog \in Stored /\ catalog.left \in 1 .. TTL
    BY <1>1, <2>1, CatalogNumbers DEF CachesOK, Fresh, Stored
  <2>3. /\ pages' \in Seq(PageEntry)
        /\ Range(pages') \subseteq Range(pages) \cup {NewPage(key, catalog)}
    BY <1>1, <2>1, <2>2, PutShape
  <2>4. CachesOK'
    BY <1>1, <2>1, <2>3 DEF CachesOK
  <2>5. Seen(catalog.listing, QueryTime + 2 * TTL - TTL)
    <3>1. Seen(catalog.listing, QueryTime + 1 + TTL - catalog.left)
      BY <1>1, <2>1 DEF RecentInv
    <3>2. /\ QueryTime + 1 + TTL - catalog.left \in Int /\ QueryTime + 2 * TTL - TTL \in Int
          /\ QueryTime + 1 + TTL - catalog.left <= QueryTime + 2 * TTL - TTL
      BY <2>2, CatalogNumbers
    <3>3. QED
      BY <1>4, <3>1, <3>2
  <2>6. RecentInv'
    BY <1>1, <1>2, <1>4, <2>1, <2>3, <2>5 DEF RecentInv, Fresh, NewPage, Seen
  <2>7. GoneInv'
    BY <1>1, <1>2, <2>1, <2>3 DEF GoneInv, Fresh, NewPage
  <2>8. QED
    BY <2>4, <2>6, <2>7
<1>7. ASSUME NEW q \in Query, Land(q)
      PROVE  CachesOK' /\ RecentInv' /\ GoneInv'
  <2> PICK key : key = query[q].key
    OBVIOUS
  <2> PICK e : e = Entry(query[q].listing, query[q].stale)
    OBVIOUS
  <2>1. /\ query[q] # Nothing /\ Put(key, e) /\ catalog' \in {e, catalog}
        /\ query' = [query EXCEPT ![q] = Nothing]
    BY <1>7 DEF Land
  <2>2. query[q] \in Asked
    BY <1>1, <2>1 DEF CachesOK
  <2>3. key \in Key /\ e \in Stored /\ e.listing = query[q].listing /\ e.stale = query[q].stale
        /\ e.left = TTL /\ query[q].age \in 0 .. QueryTime
    BY <2>2, CatalogNumbers DEF Asked, Entry, Stored
  <2>4. /\ pages' \in Seq(PageEntry)
        /\ Range(pages') \subseteq Range(pages) \cup {NewPage(key, e)}
    BY <1>1, <2>1, <2>3, PutShape
  <2>5. query'[q] = Nothing /\ \A p \in Query \ {q} : query'[p] = query[p]
    BY <1>1, <2>1 DEF CachesOK
  <2>6. CachesOK'
    BY <1>1, <2>1, <2>3, <2>4, <2>5 DEF CachesOK
  <2>7. Seen(e.listing, QueryTime + 1 + TTL - TTL) /\ Seen(e.listing, QueryTime + 2 * TTL - TTL)
    <3>1. Seen(e.listing, query[q].age + 1)
      BY <1>1, <2>1, <2>3 DEF RecentInv
    <3>2. /\ query[q].age + 1 \in Int /\ QueryTime + 1 + TTL - TTL \in Int
          /\ QueryTime + 2 * TTL - TTL \in Int
          /\ query[q].age + 1 <= QueryTime + 1 + TTL - TTL
          /\ query[q].age + 1 <= QueryTime + 2 * TTL - TTL
      BY <2>3, CatalogNumbers
    <3>3. QED
      BY <1>4, <3>1, <3>2
  <2>8. RecentInv'
    <3>1. Fresh(catalog') => Seen(catalog'.listing, QueryTime + 1 + TTL - catalog'.left)
      BY <1>1, <2>1, <2>3, <2>7 DEF RecentInv
    <3>2. \A p \in Range(pages') : p.left > 0 => Seen(p.listing, QueryTime + 2 * TTL - p.left)
      BY <1>1, <2>3, <2>4, <2>7 DEF RecentInv, NewPage
    <3>3. \A p \in Query : query'[p] # Nothing => Seen(query'[p].listing, query'[p].age + 1)
      BY <1>1, <2>5 DEF RecentInv
    <3>4. QED
      BY <1>1, <1>2, <3>1, <3>2, <3>3 DEF RecentInv, Seen, Fresh
  <2>9. GoneInv'
    <3>1. ~e.stale => e.listing \cap gone = {}
      BY <1>1, <2>1, <2>3 DEF GoneInv
    <3>2. QED
      BY <1>1, <1>2, <2>1, <2>4, <2>5, <3>1 DEF GoneInv, Fresh, NewPage
  <2>10. QED
    BY <2>6, <2>8, <2>9
<1>8. QED
  BY <1>3, <1>5, <1>6, <1>7

(* A change of rows adds a listing to those of this tick.                  *)
LEMMA RelistedStep ==
  ASSUME CatalogInv, UNCHANGED caches, Remember, gone' \subseteq gone, Listed' \cap gone' = {}
  PROVE  CachesOK' /\ PastOK' /\ RecentInv' /\ GoneInv'
<1>1. CachesOK /\ PastOK /\ RecentInv /\ GoneInv
  BY DEF CatalogInv
<1>2. past \in Seq(SUBSET SUBSET Resource) /\ Len(past) \in 1 .. Remembered /\ 1 \in 1 .. Len(past)
  BY <1>1, CatalogNumbers DEF PastOK
<1>3. past' = [past EXCEPT ![1] = past[1] \cup {Listed'}]
  BY DEF Remember, Listing
<1>4. past[1] \cup {Listed'} \in SUBSET SUBSET Resource
  BY <1>2 DEF Listed
<1>5. past' \in Seq(SUBSET SUBSET Resource) /\ Len(past') = Len(past)
  BY <1>2, <1>3, <1>4
<1>6. \A i \in 1 .. Len(past) : past[i] \subseteq past'[i]
  BY <1>2, <1>3
<1>7. Listed' \in past'[1]
  BY <1>2, <1>3
<1>8. PastOK'
  BY <1>2, <1>5 DEF PastOK
<1>9. \A listing, n : Seen(listing, n) => Seen(listing, n)'
  BY <1>5, <1>6 DEF Seen
<1>10. CachesOK' /\ GoneInv'
  BY <1>1 DEF CachesOK, GoneInv, Fresh, caches
<1>11. RecentInv'
  BY <1>1, <1>7, <1>9 DEF RecentInv, Fresh, caches
<1>12. QED
  BY <1>8, <1>10, <1>11

(* Every listing that may still be asked for moves one tick back.          *)
LEMMA PastShifts ==
  ASSUME PastOK, past' = <<{Listed}>> \o (IF Len(past) < Remembered THEN past ELSE Front(past))
  PROVE  /\ PastOK' /\ past'[1] = {Listed}
         /\ \A listing : \A n \in Int : n < Remembered /\ Seen(listing, n) => Seen(listing, n + 1)'
<1> PICK kept : kept = IF Len(past) < Remembered THEN past ELSE Front(past)
  OBVIOUS
<1> PICK m : m = Len(past)
  OBVIOUS
<1> PICK most : most = Remembered
  OBVIOUS
<1>1. past \in Seq(SUBSET SUBSET Resource) /\ m \in Nat /\ 1 <= m /\ m <= most /\ most \in Nat
  BY CatalogNumbers DEF PastOK
<1>2. /\ kept \in Seq(SUBSET SUBSET Resource)
      /\ Len(kept) = IF m < most THEN m ELSE m - 1
      /\ \A i \in 1 .. Len(kept) : kept[i] = past[i]
  <2>1. CASE m < most
    BY <1>1, <2>1
  <2>2. CASE ~(m < most)
    <3>1. kept = SubSeq(past, 1, m - 1)
      BY <2>2 DEF Front
    <3>2. 1 \in Int /\ m - 1 \in Int /\ \A i \in 1 .. m - 1 : past[i] \in SUBSET SUBSET Resource
      BY <1>1
    <3>3. /\ SubSeq(past, 1, m - 1) \in Seq(SUBSET SUBSET Resource)
          /\ Len(SubSeq(past, 1, m - 1)) = IF 1 <= m - 1 THEN (m - 1) - 1 + 1 ELSE 0
          /\ \A i \in 1 .. (m - 1) - 1 + 1 : SubSeq(past, 1, m - 1)[i] = past[1 + i - 1]
      BY ONLY <3>2, SubSeqProperties
    <3>4. (IF 1 <= m - 1 THEN (m - 1) - 1 + 1 ELSE 0) = m - 1 /\ (m - 1) - 1 + 1 = m - 1
          /\ \A i \in 1 .. m - 1 : 1 + i - 1 = i
      BY <1>1
    <3>5. QED
      BY <2>2, <3>1, <3>3, <3>4
  <2>3. QED
    BY <2>1, <2>2
<1> PICK n1 : n1 = Len(kept)
  OBVIOUS
<1>3. <<{Listed}>> \in Seq(SUBSET SUBSET Resource) /\ Len(<<{Listed}>>) = 1 /\ <<{Listed}>>[1] = {Listed}
  BY DEF Listed
<1>4. /\ past' \in Seq(SUBSET SUBSET Resource) /\ Len(past') = 1 + n1
      /\ \A i \in 1 .. 1 + n1 : past'[i] = IF i <= 1 THEN <<{Listed}>>[i] ELSE kept[i - 1]
  BY <1>2, <1>3, ConcatProperties
<1>5. n1 \in Nat /\ n1 = IF m < most THEN m ELSE m - 1
  BY <1>1, <1>2
<1>6. past'[1] = {Listed}
  BY <1>3, <1>4, <1>5
<1>7. PastOK'
  <2>1. 1 + n1 \in 1 .. most
    BY <1>1, <1>5
  <2>2. Remembered' = Remembered
    BY DEF Remembered
  <2>3. QED
    BY <1>4, <2>1, <2>2 DEF PastOK
<1>8. ASSUME NEW listing, NEW n \in Int, n < most, Seen(listing, n) PROVE Seen(listing, n + 1)'
  <2>1. PICK i \in 1 .. m : i <= n /\ listing \in past[i]
    BY <1>8 DEF Seen
  <2>2. i \in 1 .. n1 /\ i + 1 \in 1 .. 1 + n1 /\ ~(i + 1 <= 1) /\ (i + 1) - 1 = i /\ i + 1 <= n + 1
    BY <1>1, <1>5, <1>8, <2>1
  <2>3. past'[i + 1] = past[i]
    BY <1>2, <1>4, <2>2
  <2>4. QED
    BY <1>4, <2>1, <2>2, <2>3 DEF Seen
<1>9. QED
  BY <1>6, <1>7, <1>8

LEMMA TickStep ==
  ASSUME CatalogInv, Tick
  PROVE  CachesOK' /\ PastOK' /\ RecentInv' /\ GoneInv'
<1>1. CachesOK /\ PastOK /\ RecentInv /\ GoneInv
  BY DEF CatalogInv
<1>2. UNCHANGED <<row, gone>> /\ Listed' = Listed
  BY DEF Tick, rowVars, Listed
<1>3. /\ PastOK' /\ past'[1] = {Listed}
      /\ \A listing : \A n \in Int : n < Remembered /\ Seen(listing, n) => Seen(listing, n + 1)'
  BY <1>1, PastShifts DEF Tick
<1>4. TTL \in Nat /\ TTL >= 1 /\ QueryTime \in Nat /\ Remembered = 2 * TTL - 1 + QueryTime
  BY CatalogNumbers
<1>5. ASSUME catalog' # Nothing
      PROVE  /\ Fresh(catalog) /\ catalog \in Stored /\ catalog.left \in 1 .. TTL
             /\ catalog' \in Stored /\ catalog'.listing = catalog.listing
             /\ catalog'.stale = catalog.stale /\ catalog'.left = catalog.left - 1
  <2>1. Fresh(catalog) /\ catalog' = [catalog EXCEPT !.left = @ - 1]
    BY <1>5 DEF Tick
  <2>2. catalog \in Stored /\ catalog.left \in 1 .. TTL
    BY <1>1, <1>4, <2>1 DEF CachesOK, Fresh, Stored
  <2>3. catalog.left - 1 \in 0 .. TTL
    BY <1>4, <2>2
  <2>4. QED
    BY <2>1, <2>2, <2>3 DEF Stored
<1>6. ASSUME NEW q \in Query, query'[q] # Nothing
      PROVE  /\ query[q] # Nothing /\ query[q] \in Asked /\ query[q].age \in 0 .. QueryTime - 1
             /\ query'[q] \in Asked /\ query'[q].listing = query[q].listing
             /\ query'[q].stale = query[q].stale /\ query'[q].age = query[q].age + 1
  <2>1. query[q] # Nothing /\ query'[q] = [query[q] EXCEPT !.age = @ + 1] /\ query[q].age < QueryTime
    BY <1>6 DEF Tick
  <2>2. query[q] \in Asked /\ query[q].age \in 0 .. QueryTime - 1
    BY <1>1, <1>4, <2>1 DEF CachesOK, Asked
  <2>3. query[q].age + 1 \in 0 .. QueryTime
    BY <1>4, <2>2
  <2>4. QED
    BY <2>1, <2>2, <2>3 DEF Asked
<1>7. /\ pages' \in Seq(PageEntry)
      /\ \A p \in Range(pages') : p.left > 0 =>
           \E o \in Range(pages) : /\ o.listing = p.listing /\ o.stale = p.stale
                                   /\ o.left \in 2 .. TTL /\ p.left = o.left - 1
  <2> DEFINE Older(o) == [o EXCEPT !.left = IF @ > 0 THEN @ - 1 ELSE 0]
  <2>1. pages \in Seq(PageEntry) /\ pages' = [i \in DOMAIN pages |-> Older(pages[i])]
    BY <1>1 DEF Tick, CachesOK
  <2>2. DOMAIN pages = 1 .. Len(pages) /\ Len(pages) \in Nat
        /\ \A i \in 1 .. Len(pages) : pages[i] \in PageEntry
    BY <2>1
  <2>3. ASSUME NEW o \in PageEntry
        PROVE  /\ Older(o) \in PageEntry /\ Older(o).listing = o.listing /\ Older(o).stale = o.stale
               /\ Older(o).left > 0 => o.left \in 2 .. TTL /\ Older(o).left = o.left - 1
    <3>1. o.left \in 0 .. TTL /\ Older(o).left = IF o.left > 0 THEN o.left - 1 ELSE 0
      BY DEF PageEntry
    <3>2. Older(o).left \in 0 .. TTL
      BY <1>4, <3>1
    <3>3. Older(o) \in PageEntry /\ Older(o).listing = o.listing /\ Older(o).stale = o.stale
      BY <3>1, <3>2 DEF PageEntry
    <3>4. Older(o).left > 0 => o.left \in 2 .. TTL /\ Older(o).left = o.left - 1
      BY <1>4, <3>1
    <3>5. QED
      BY <3>3, <3>4
  <2>4. pages' \in [1 .. Len(pages) -> PageEntry]
    BY <2>1, <2>2, <2>3
  <2>5. pages' \in Seq(PageEntry)
    BY <2>2, <2>4
  <2>6. ASSUME NEW p \in Range(pages'), p.left > 0
        PROVE  \E o \in Range(pages) : /\ o.listing = p.listing /\ o.stale = p.stale
                                       /\ o.left \in 2 .. TTL /\ p.left = o.left - 1
    <3>1. PICK i \in DOMAIN pages : p = Older(pages[i])
      BY <2>1, <2>6 DEF Range
    <3>2. pages[i] \in Range(pages) /\ pages[i] \in PageEntry
      BY <2>2, <3>1 DEF Range
    <3>3. QED
      BY <2>3, <2>6, <3>1, <3>2
  <2>7. QED
    BY <2>5, <2>6
<1>8. CachesOK'
  <2>1. query' = [q \in Query |-> query'[q]]
    BY DEF Tick
  <2>2. QED
    BY <1>5, <1>6, <1>7, <2>1 DEF CachesOK, Stored, PageEntry, Asked
<1>9. GoneInv'
  BY <1>1, <1>2, <1>5, <1>6, <1>7 DEF GoneInv, Fresh
<1>10. ASSUME NEW q \in Query, query'[q] # Nothing
       PROVE  Seen(query[q].listing, query[q].age + 1)'
  <2> PICK listing : listing = query[q].listing
    OBVIOUS
  <2> PICK n : n = query[q].age + 1
    OBVIOUS
  <2>1. Seen(listing, n) /\ query[q].age \in 0 .. QueryTime - 1
    BY <1>1, <1>6, <1>10 DEF RecentInv
  <2>2. n \in Int /\ n < Remembered
    BY <1>4, <2>1
  <2>3. Seen(listing, n + 1)'
    BY <1>3, <2>1, <2>2
  <2>4. query'[q].listing = listing /\ query'[q].age + 1 = n + 1
    BY <1>6, <1>10
  <2>5. QED
    BY <2>3, <2>4 DEF Seen
<1>11. ASSUME catalog' # Nothing, catalog'.left > 0
       PROVE  Seen(catalog.listing, QueryTime + 1 + TTL - catalog.left)'
  <2> PICK listing : listing = catalog.listing
    OBVIOUS
  <2> PICK n : n = QueryTime + 1 + TTL - catalog.left
    OBVIOUS
  <2>1. Seen(listing, n) /\ catalog.left \in 2 .. TTL
    BY <1>1, <1>4, <1>5, <1>11 DEF RecentInv
  <2>2. n \in Int /\ n < Remembered /\ QueryTime + 1 + TTL - (catalog.left - 1) = n + 1
    BY <1>4, <2>1
  <2>3. Seen(listing, n + 1)'
    BY <1>3, <2>1, <2>2
  <2>4. catalog'.listing = listing /\ QueryTime + 1 + TTL - catalog'.left = n + 1
    BY <1>5, <1>11, <2>2
  <2>5. QED
    BY <2>3, <2>4 DEF Seen
<1>12. ASSUME NEW p \in Range(pages'), p.left > 0
       PROVE  \E i \in 1 .. Len(past') : i <= QueryTime + 2 * TTL - p.left /\ p.listing \in past'[i]
  <2>1. PICK o \in Range(pages) : /\ o.listing = p.listing /\ o.left \in 2 .. TTL
                                  /\ p.left = o.left - 1
    BY <1>7, <1>12
  <2> PICK listing : listing = o.listing
    OBVIOUS
  <2> PICK n : n = QueryTime + 2 * TTL - o.left
    OBVIOUS
  <2>2. Seen(listing, n)
    BY <1>1, <1>4, <2>1 DEF RecentInv
  <2>3. n \in Int /\ n < Remembered /\ QueryTime + 2 * TTL - p.left = n + 1
    BY <1>4, <2>1
  <2>4. Seen(listing, n + 1)'
    BY <1>3, <2>2, <2>3
  <2>5. QED
    BY <2>1, <2>3, <2>4 DEF Seen
<1>13. RecentInv'
  <2>1. Listed' \in past'[1]
    BY <1>2, <1>3
  <2>2. \A q \in Query : query'[q] # Nothing => Seen(query[q].listing, query[q].age + 1)'
    BY <1>10
  <2>3. Fresh(catalog') => Seen(catalog.listing, QueryTime + 1 + TTL - catalog.left)'
    BY <1>11 DEF Fresh
  <2>4. \A p \in Range(pages') : p.left > 0 =>
          \E i \in 1 .. Len(past') : i <= QueryTime + 2 * TTL - p.left /\ p.listing \in past'[i]
    BY <1>12
  <2>5. QED
    BY <2>1, <2>2, <2>3, <2>4 DEF RecentInv, Seen, Fresh
<1>14. QED
  BY <1>3, <1>8, <1>9, <1>13

(* An invalidation leaves the reads in flight, all of them stale.          *)
LEMMA InvalidatedStep ==
  ASSUME CatalogInv, InvalidateReads, UNCHANGED <<row, past>>, Listed \cap gone' = {}
  PROVE  CachesOK' /\ PastOK' /\ RecentInv' /\ GoneInv'
<1>1. CachesOK /\ PastOK /\ RecentInv
  BY DEF CatalogInv
<1>2. /\ catalog' = Nothing /\ pages' = <<>>
      /\ query' = [q \in Query |-> IF query[q] = Nothing THEN Nothing
                                   ELSE [query[q] EXCEPT !.stale = TRUE]]
      /\ Listed' = Listed
  BY DEF InvalidateReads, Listed
<1>3. ASSUME NEW q \in Query, query'[q] # Nothing
      PROVE  /\ query[q] # Nothing /\ query'[q] \in Asked /\ query'[q].stale
             /\ query'[q].listing = query[q].listing /\ query'[q].age = query[q].age
  <2>1. query[q] # Nothing /\ query'[q] = [query[q] EXCEPT !.stale = TRUE]
    BY <1>2, <1>3
  <2>2. query[q] \in Asked
    BY <1>1, <2>1 DEF CachesOK
  <2>3. QED
    BY <2>1, <2>2 DEF Asked
<1>4. Range(pages') = {}
  BY <1>2 DEF Range
<1>5. CachesOK'
  <2>1. query' = [q \in Query |-> query'[q]] /\ pages' \in Seq(PageEntry) /\ catalog' = Nothing
    BY <1>2
  <2>2. QED
    BY <1>3, <2>1 DEF CachesOK, Asked, PageEntry
<1>6. PastOK' /\ RecentInv'
  BY <1>1, <1>2, <1>3, <1>4 DEF PastOK, RecentInv, Fresh, Seen
<1>7. GoneInv'
  BY <1>2, <1>3, <1>4 DEF GoneInv, Fresh
<1>8. QED
  BY <1>5, <1>6, <1>7

LEMMA CatalogStep == CatalogInv /\ [CatalogNext]_catalogVars => CatalogInv'
<1>1. SUFFICES ASSUME CatalogInv, [CatalogNext]_catalogVars PROVE CatalogInv'
  OBVIOUS
<1>2. RowsOK' /\ RowsInv'
  BY <1>1, RowsStep DEF CatalogInv
<1>3. CachesOK /\ PastOK /\ RecentInv /\ GoneInv
  BY <1>1 DEF CatalogInv
<1>4. ASSUME UNCHANGED <<row, caches, past, gone>>
      PROVE  CachesOK' /\ PastOK' /\ RecentInv' /\ GoneInv'
  BY <1>3, <1>4 DEF caches, CachesOK, PastOK, RecentInv, GoneInv, Seen, Listed, Fresh
<1>5. CASE \E key \in Key : Compute(key) \/ \E q \in Query : Ask(q, key)
  BY <1>1, <1>2, <1>5, ReadsStep DEF CatalogInv
<1>6. CASE \E q \in Query : Land(q)
  BY <1>1, <1>2, <1>6, ReadsStep DEF CatalogInv
<1>7. CASE Tick
  BY <1>1, <1>2, <1>7, TickStep DEF CatalogInv
<1>8. ASSUME NEW v \in Verification, Judge(v) \/ Unruled(v) PROVE CatalogInv'
  BY <1>2, <1>4, <1>8 DEF Judge, Unruled, CatalogInv
<1>9. ASSUME NEW r \in Resource, DeleteFile(r) PROVE CatalogInv'
  BY <1>2, <1>4, <1>9 DEF DeleteFile, CatalogInv
<1>10. ASSUME NEW v \in Verification, Rule(v) PROVE CatalogInv'
  <2> PICK r : r = verdict[v].resource
    OBVIOUS
  <2>1. r \in Resource /\ verdict[v].original \in BOOLEAN
    BY <1>1, <1>10 DEF CatalogInv, RowsOK, RowsInv, Rule
  <2>2. /\ UNCHANGED caches /\ Remember
        /\ gone' = (IF verdict[v].original THEN gone \ {r} ELSE gone)
        /\ row' = [row EXCEPT ![r] =
             [listed |-> verdict[v].original,
              status |-> IF verdict[v].original THEN "verified" ELSE "rejected", by |-> v]]
    BY <1>10 DEF Rule, ListedAs
  <2>3. \A s \in Listed' : s \in Listed \ {r} \/ (s = r /\ verdict[v].original)
    BY <1>1, <2>1, <2>2 DEF CatalogInv, RowsOK, Listed
  <2>4. gone' \subseteq gone /\ Listed' \cap gone' = {}
    BY <1>3, <2>2, <2>3 DEF GoneInv
  <2>5. QED
    BY <1>1, <1>2, <2>2, <2>4, RelistedStep DEF CatalogInv
<1>11. ASSUME NEW r \in Resource, Delist(r) PROVE CatalogInv'
  <2>1. /\ UNCHANGED caches /\ Remember /\ gone' = gone
        /\ row' = [row EXCEPT ![r].listed = FALSE]
    BY <1>11 DEF Delist
  <2>2. Listed' \subseteq Listed
    BY <1>1, <2>1 DEF CatalogInv, RowsOK, Listed
  <2>3. Listed' \cap gone' = {}
    BY <1>3, <2>1, <2>2 DEF GoneInv
  <2>4. QED
    BY <1>1, <1>2, <2>1, <2>3, RelistedStep DEF CatalogInv
<1>12. ASSUME NEW r \in Resource, Invalidate(r) PROVE CatalogInv'
  <2>1. r \notin Listed \/ row[r].listed
    BY DEF Listed
  <2>2. InvalidateReads /\ UNCHANGED <<row, past>> /\ Listed \cap gone' = {}
    BY <1>3, <1>12, <2>1 DEF Invalidate, GoneInv
  <2>3. QED
    BY <1>1, <1>2, <2>2, InvalidatedStep DEF CatalogInv
<1>13. ASSUME NEW r \in Resource, Published(r) PROVE CatalogInv'
  <2>1. InvalidateReads /\ UNCHANGED <<row, past>> /\ Listed \cap gone' = {}
    BY <1>3, <1>13 DEF Published, GoneInv
  <2>2. QED
    BY <1>1, <1>2, <2>1, InvalidatedStep DEF CatalogInv
<1>14. ASSUME NEW r \in Resource, Store(r) \/ UploadFails(r) PROVE CatalogInv'
  BY <1>2, <1>4, <1>14 DEF Store, UploadFails, CatalogInv
<1>15. ASSUME NEW r \in Resource, NEW listed \in BOOLEAN, SetListedEvent(r, listed)
       PROVE  CatalogInv'
  <2>1. /\ UNCHANGED caches /\ Remember
        /\ gone' = (IF listed THEN gone \ {r} ELSE gone)
        /\ row' = [row EXCEPT ![r].listed = listed]
    BY <1>15 DEF SetListedEvent, ListedAs
  <2>2. \A s \in Listed' : s \in Listed \ {r} \/ (s = r /\ listed)
    BY <1>1, <2>1 DEF CatalogInv, RowsOK, Listed
  <2>3. gone' \subseteq gone /\ Listed' \cap gone' = {}
    BY <1>3, <2>1, <2>2 DEF GoneInv
  <2>4. QED
    BY <1>1, <1>2, <2>1, <2>3, RelistedStep DEF CatalogInv
<1>16. CASE UNCHANGED catalogVars
  BY <1>2, <1>4, <1>16 DEF catalogVars, rowVars, CatalogInv
<1>17. QED
  BY <1>1, <1>5, <1>6, <1>7, <1>8, <1>9, <1>10, <1>11, <1>12, <1>13, <1>14, <1>15, <1>16
     DEF CatalogNext

(* What a page is answered with was the listing at most two TTLs and a read *)
(* ago, for any TTLs, cache sizes and reads in flight (ttlCache.ts and      *)
(* resourceService.ts).                                                     *)
THEOREM PagesRecent == CatalogSpec => []PagesAreRecent
<1>1. CatalogInv => PagesAreRecent
  <2>1. SUFFICES ASSUME CatalogInv, NEW i \in DOMAIN pages, pages[i].left > 0
                 PROVE  WasListed(pages[i].listing)
    BY DEF PagesAreRecent
  <2>2. pages[i] \in Range(pages)
    BY DEF Range
  <2>3. PICK j \in 1 .. Len(past) : pages[i].listing \in past[j]
    BY <2>1, <2>2 DEF CatalogInv, RecentInv, Seen
  <2>4. DOMAIN past = 1 .. Len(past)
    BY <2>1 DEF CatalogInv, PastOK
  <2>5. QED
    BY <2>3, <2>4 DEF WasListed
<1>2. QED
  BY <1>1, CatalogInitInv, CatalogStep, PTL DEF CatalogSpec

(* Once a delisting has invalidated the caches, only reads in flight then  *)
(* answer with the resource (invalidateReads in resourceService.ts).       *)
THEOREM DelistedLeaves == CatalogSpec => []DelistedLeavesAnswers
<1>1. CatalogInv => DelistedLeavesAnswers
  BY DEF CatalogInv, GoneInv, DelistedLeavesAnswers, Range
<1>2. QED
  BY <1>1, CatalogInitInv, CatalogStep, PTL DEF CatalogSpec

----------------------------------------------------------------------------
(* Reports of earnings.  What a publisher was told of is owed to it: was   *)
(* paid to its account, for a resource it published.                       *)

Owed(p) == {s \in paid : publisherOf[sale[s].of] = p /\ sale[s].to = walletOf[p]}

SalesTypeOK ==
  /\ walletOf \in [Publishers -> Accounts \cup {Unknown}]
  /\ publisherOf \in [Sellable -> Publishers \cup {Unknown}]
  /\ paidTo \in [Sellable -> Accounts \cup {Unknown}]
  /\ sale \in [Purchases -> [of : Sellable, to : Accounts] \cup {Unknown}]
  /\ paid \subseteq {s \in Purchases : sale[s] # Unknown}
  /\ report = [q \in Reports |-> report[q]] /\ told = [p \in Publishers |-> told[p]]

(* Who has published or sold something is enrolled. *)
OnSaleInv ==
  /\ \A r \in OnSale : publisherOf[r] \in Enrolled /\ paidTo[r] \in Accounts
  /\ \A s \in Purchases : sale[s] # Unknown => sale[s].of \in OnSale

ToldIsOwed == \A p \in Publishers : told[p] \subseteq Owed(p)

(* What a report has read is not undone while it goes on. *)
ReportInv ==
  \A q \in Reports :
    LET its == report[q] IN
    \/ its = NoReport
    \/ /\ its.read \in {"publishers", "resources", "payments"}
       /\ its.of \subseteq Enrolled
       /\ \A p \in its.of : its.atLeast[p] \subseteq Owed(p)
       /\ its.read = "resources" => \A p \in its.of :
            /\ its.theirs[p] \subseteq {r \in OnSale : publisherOf[r] = p}
            /\ \A s \in its.atLeast[p] : sale[s].of \in its.theirs[p]
       /\ its.read = "payments" => \A p \in its.of :
            its.atLeast[p] \subseteq its.earned[p] /\ its.earned[p] \subseteq Owed(p)

SalesInv == SalesTypeOK /\ OnSaleInv /\ ToldIsOwed /\ ReportInv

LEMMA SalesInitInv == SalesInit => SalesInv
BY SalesAssumption DEF SalesInit, SalesInv, SalesTypeOK, OnSaleInv, ToldIsOwed, ReportInv, OnSale,
   Owed

(* What an enrolled publisher published and is owed stays so, as long as   *)
(* accounts, publishers and payments do; nobody else is owed anything.     *)
LEMMA OwedGrows ==
  ASSUME SalesTypeOK, OnSaleInv, paid \subseteq paid', \A s \in paid : sale'[s] = sale[s],
         \A r \in OnSale : publisherOf'[r] = publisherOf[r],
         \A p \in Enrolled : walletOf'[p] = walletOf[p]
  PROVE  /\ \A p \in Publishers : Owed(p) \subseteq Owed(p)'
         /\ OnSale \subseteq OnSale' /\ Enrolled \subseteq Enrolled'
<1>1. ASSUME NEW p \in Publishers, NEW s \in Owed(p) PROVE s \in Owed(p)'
  <2>1. /\ s \in paid /\ s \in Purchases /\ sale[s] # Unknown
        /\ publisherOf[sale[s].of] = p /\ sale[s].to = walletOf[p]
    BY <1>1 DEF Owed, SalesTypeOK
  <2>2. sale[s].of \in OnSale /\ p \in Enrolled
    BY <2>1 DEF OnSaleInv
  <2>3. s \in paid' /\ sale'[s] = sale[s] /\ publisherOf'[sale[s].of] = p /\ walletOf'[p] = walletOf[p]
    BY <2>1, <2>2
  <2>4. QED
    BY <2>1, <2>3 DEF Owed
<1>2. QED
  BY <1>1 DEF OnSale, Enrolled

(* A step that ends or changes no report.                                  *)
LEMMA ReportsStay ==
  ASSUME SalesInv, UNCHANGED told, \A s \in paid : sale'[s] = sale[s], paid \subseteq paid',
         \A r \in OnSale : publisherOf'[r] = publisherOf[r],
         \A p \in Enrolled : walletOf'[p] = walletOf[p],
         \A q \in Reports : report'[q] = report[q] \/ report'[q] = NoReport
  PROVE  ToldIsOwed' /\ ReportInv'
<1>1. /\ \A p \in Publishers : Owed(p) \subseteq Owed(p)'
      /\ OnSale \subseteq OnSale' /\ Enrolled \subseteq Enrolled' /\ Enrolled \subseteq Publishers
  BY OwedGrows DEF SalesInv, Enrolled
<1>2. ToldIsOwed'
  BY <1>1 DEF SalesInv, ToldIsOwed
<1>3. ASSUME NEW q \in Reports, report'[q] = report[q], report[q] # NoReport
      PROVE  LET its == report[q] IN
             /\ its.read \in {"publishers", "resources", "payments"}
             /\ its.of \subseteq Enrolled'
             /\ \A p \in its.of : its.atLeast[p] \subseteq Owed(p)'
             /\ its.read = "resources" => \A p \in its.of :
                  /\ its.theirs[p] \subseteq {r \in OnSale' : publisherOf'[r] = p}
                  /\ \A s \in its.atLeast[p] : sale'[s].of \in its.theirs[p]
             /\ its.read = "payments" => \A p \in its.of :
                  its.atLeast[p] \subseteq its.earned[p] /\ its.earned[p] \subseteq Owed(p)'
  <2> PICK its : its = report[q]
    OBVIOUS
  <2>1. /\ its.read \in {"publishers", "resources", "payments"}
        /\ its.of \subseteq Enrolled
        /\ \A p \in its.of : its.atLeast[p] \subseteq Owed(p)
        /\ its.read = "resources" => \A p \in its.of :
             /\ its.theirs[p] \subseteq {r \in OnSale : publisherOf[r] = p}
             /\ \A s \in its.atLeast[p] : sale[s].of \in its.theirs[p]
        /\ its.read = "payments" => \A p \in its.of :
             its.atLeast[p] \subseteq its.earned[p] /\ its.earned[p] \subseteq Owed(p)
    BY <1>3 DEF SalesInv, ReportInv
  <2>2. \A p \in its.of : p \in Publishers /\ \A s \in its.atLeast[p] : s \in paid
    BY <1>1, <2>1 DEF Owed
  <2>3. /\ its.of \subseteq Enrolled' /\ \A p \in its.of : Owed(p) \subseteq Owed(p)'
    BY <1>1, <2>1, <2>2
  <2>4. its.read = "resources" => \A p \in its.of :
          /\ its.theirs[p] \subseteq {r \in OnSale' : publisherOf'[r] = p}
          /\ \A s \in its.atLeast[p] : sale'[s].of \in its.theirs[p]
    BY <1>1, <2>1, <2>2
  <2>5. QED
    BY <2>1, <2>3, <2>4
<1>4. ReportInv'
  BY <1>3 DEF ReportInv
<1>5. QED
  BY <1>2, <1>4

(* What is read of the tables is what they hold.                           *)
LEMMA TablesStep ==
  ASSUME SalesInv,
         \/ \E p \in Publishers : RegisterPublisher(p) \/ \E r \in Sellable : PublishResource(p, r)
         \/ \E r \in Sellable, a \in Accounts : TransferResource(r, a)
         \/ \E s \in Purchases : Sell(s) \/ \E r \in Sellable : Order(s, r)
  PROVE  SalesInv'
<1>1. SalesTypeOK /\ OnSaleInv
  BY DEF SalesInv
<1>2. UNCHANGED <<report, told>>
  BY DEF RegisterPublisher, PublishResource, TransferResource, Sell, Order
<1>3. /\ \A s \in paid : sale'[s] = sale[s]
      /\ paid \subseteq paid'
      /\ \A r \in OnSale : publisherOf'[r] = publisherOf[r]
      /\ \A p \in Enrolled : walletOf'[p] = walletOf[p]
  BY <1>1 DEF SalesTypeOK, Enrolled, OnSale, RegisterPublisher, PublishResource, TransferResource,
     Sell, Order
<1>4. ToldIsOwed' /\ ReportInv'
  BY <1>2, <1>3, ReportsStay
<1>5. SalesTypeOK' /\ OnSaleInv'
  <2>1. ASSUME NEW p \in Publishers, RegisterPublisher(p) PROVE SalesTypeOK' /\ OnSaleInv'
    BY <1>1, <2>1 DEF RegisterPublisher, SalesTypeOK, OnSaleInv, OnSale, Enrolled
  <2>2. ASSUME NEW p \in Publishers, NEW r \in Sellable, PublishResource(p, r)
        PROVE  SalesTypeOK' /\ OnSaleInv'
    BY <1>1, <2>2, SalesAssumption DEF PublishResource, SalesTypeOK, OnSaleInv, OnSale, Enrolled
  <2>3. ASSUME NEW r \in Sellable, NEW a \in Accounts, TransferResource(r, a)
        PROVE  SalesTypeOK' /\ OnSaleInv'
    BY <1>1, <2>3 DEF TransferResource, SalesTypeOK, OnSaleInv, OnSale, Enrolled
  <2>4. ASSUME NEW s \in Purchases, Sell(s) PROVE SalesTypeOK' /\ OnSaleInv'
    BY <1>1, <2>4 DEF Sell, SalesTypeOK, OnSaleInv, OnSale, Enrolled
  <2>5. ASSUME NEW s \in Purchases, NEW r \in Sellable, Order(s, r) PROVE SalesTypeOK' /\ OnSaleInv'
    <3>1. [of |-> r, to |-> paidTo[r]] \in [of : Sellable, to : Accounts]
          /\ [of |-> r, to |-> paidTo[r]] # Unknown
      BY <1>1, <2>5, SalesAssumption DEF Order, OnSaleInv
    <3>2. QED
      BY <1>1, <2>5, <3>1 DEF Order, SalesTypeOK, OnSaleInv, OnSale, Enrolled
  <2>6. QED
    BY <2>1, <2>2, <2>3, <2>4, <2>5
<1>6. QED
  BY <1>4, <1>5 DEF SalesInv

LEMMA ReportStep ==
  ASSUME SalesInv, NEW q \in Reports,
         BeginReport(q) \/ ReadResources(q) \/ AnswerReport(q) \/ EndReport(q)
  PROVE  SalesInv'
<1>1. SalesTypeOK /\ OnSaleInv /\ ToldIsOwed /\ ReportInv
  BY DEF SalesInv
<1>2. UNCHANGED <<walletOf, publisherOf, paidTo, sale, paid>>
  BY DEF BeginReport, ReadResources, AnswerReport, EndReport
<1>3. SalesTypeOK' /\ OnSaleInv'
  BY <1>1, <1>2 DEF SalesTypeOK, OnSaleInv, OnSale, Enrolled, BeginReport, ReadResources,
     AnswerReport, EndReport
<1>4. \A p : Owed(p)' = Owed(p)
  BY <1>2 DEF Owed
<1>5. Enrolled' = Enrolled /\ OnSale' = OnSale
  BY <1>2 DEF Enrolled, OnSale
<1>6. CASE EndReport(q)
  <2>1. UNCHANGED told /\ \A c \in Reports : report'[c] = report[c] \/ report'[c] = NoReport
    BY <1>1, <1>6 DEF EndReport, SalesTypeOK
  <2>2. ToldIsOwed' /\ ReportInv'
    BY <1>2, <2>1, ReportsStay
  <2>3. QED
    BY <1>3, <2>2 DEF SalesInv
<1>7. ASSUME ~EndReport(q) PROVE \A c \in Reports \ {q} : report'[c] = report[c]
  BY <1>1, <1>7 DEF SalesTypeOK, BeginReport, ReadResources, AnswerReport
<1> DEFINE Right(its) ==
      /\ its.read \in {"publishers", "resources", "payments"}
      /\ its.of \subseteq Enrolled
      /\ \A p \in its.of : its.atLeast[p] \subseteq Owed(p)
      /\ its.read = "resources" => \A p \in its.of :
           /\ its.theirs[p] \subseteq {r \in OnSale : publisherOf[r] = p}
           /\ \A s \in its.atLeast[p] : sale[s].of \in its.theirs[p]
      /\ its.read = "payments" => \A p \in its.of :
           its.atLeast[p] \subseteq its.earned[p] /\ its.earned[p] \subseteq Owed(p)
<1>8. ASSUME ~EndReport(q), NEW its, report'[q] = its, Right(its) PROVE ReportInv'
  BY <1>1, <1>2, <1>4, <1>5, <1>7, <1>8 DEF ReportInv
<1>9. CASE BeginReport(q)
  <2>1. ~EndReport(q)
    BY <1>9 DEF BeginReport, EndReport, NoReport
  <2>2. PICK of \in {Enrolled} \cup {{p} : p \in Enrolled} :
          report' = [report EXCEPT ![q] = [read |-> "publishers", of |-> of, atLeast |-> told]]
    BY <1>9 DEF BeginReport
  <2>3. Right([read |-> "publishers", of |-> of, atLeast |-> told])
    BY <1>1, <2>2 DEF ToldIsOwed, Enrolled
  <2>4. report'[q] = [read |-> "publishers", of |-> of, atLeast |-> told]
    BY <1>1, <2>2 DEF SalesTypeOK
  <2>5. ReportInv'
    BY <1>8, <2>1, <2>3, <2>4
  <2>6. ToldIsOwed'
    BY <1>1, <1>4, <1>9 DEF ToldIsOwed, BeginReport
  <2>7. QED
    BY <1>3, <2>5, <2>6 DEF SalesInv
<1>10. CASE ReadResources(q)
  <2>1. ~EndReport(q) /\ report[q] # NoReport
    BY <1>10 DEF ReadResources, EndReport, NoReport
  <2>2. Right(report[q])
    BY <1>1, <2>1 DEF ReportInv
  <2> DEFINE its == [read |-> "resources", of |-> report[q].of, atLeast |-> report[q].atLeast,
                     theirs |-> [p \in report[q].of |-> {r \in OnSale : publisherOf[r] = p}]]
  <2>3. report'[q] = its
    BY <1>1, <1>10 DEF ReadResources, SalesTypeOK
  <2>4. ASSUME NEW p \in report[q].of, NEW s \in report[q].atLeast[p]
        PROVE  sale[s].of \in OnSale /\ publisherOf[sale[s].of] = p
    BY <1>1, <2>2 DEF Owed, SalesTypeOK, OnSaleInv
  <2>5. Right(its)
    BY <2>2, <2>4
  <2> HIDE DEF Right, its
  <2>6. ReportInv'
    BY <1>8, <2>1, <2>3, <2>5
  <2>7. ToldIsOwed'
    BY <1>1, <1>4, <1>10 DEF ToldIsOwed, ReadResources
  <2>8. QED
    BY <1>3, <2>6, <2>7 DEF SalesInv
<1>11. CASE AnswerReport(q)
  <2>1. ~EndReport(q) /\ report[q] # NoReport /\ report[q].read = "resources"
    BY <1>11 DEF AnswerReport, EndReport, NoReport
  <2>2. Right(report[q])
    BY <1>1, <2>1 DEF ReportInv
  <2> DEFINE earned == [p \in report[q].of |-> Earned(p, report[q].theirs[p])]
             its == [read |-> "payments", of |-> report[q].of, atLeast |-> report[q].atLeast,
                     earned |-> earned]
  <2>3. report'[q] = its
    BY <1>1, <1>11 DEF AnswerReport, SalesTypeOK
  <2>4. ASSUME NEW p \in report[q].of
        PROVE  report[q].atLeast[p] \subseteq earned[p] /\ earned[p] \subseteq Owed(p)
    <3>1. /\ report[q].atLeast[p] \subseteq Owed(p)
          /\ report[q].theirs[p] \subseteq {r \in OnSale : publisherOf[r] = p}
          /\ \A s \in report[q].atLeast[p] : sale[s].of \in report[q].theirs[p]
      BY <2>1, <2>2
    <3>2. earned[p] = Earned(p, report[q].theirs[p])
      OBVIOUS
    <3>3. QED
      BY <3>1, <3>2 DEF Earned, Owed
  <2>5. Right(its)
    BY <2>2, <2>4
  <2> HIDE DEF Right, its
  <2>6. ReportInv'
    BY <1>8, <2>1, <2>3, <2>5
  <2>7. ToldIsOwed'
    <3>1. \A p \in Publishers : told'[p] = IF p \in report[q].of THEN told[p] \cup earned[p]
                                           ELSE told[p]
      BY <1>11 DEF AnswerReport
    <3>2. QED
      BY <1>1, <1>4, <2>4, <3>1 DEF ToldIsOwed
  <2>8. QED
    BY <1>3, <2>6, <2>7 DEF SalesInv
<1>12. QED
  BY <1>6, <1>9, <1>10, <1>11

LEMMA SalesStep == SalesInv /\ [SalesNext]_salesVars => SalesInv'
<1>1. SUFFICES ASSUME SalesInv, [SalesNext]_salesVars PROVE SalesInv'
  OBVIOUS
<1>2. CASE UNCHANGED salesVars
  BY <1>1, <1>2 DEF salesVars, SalesInv, SalesTypeOK, OnSaleInv, ToldIsOwed, ReportInv, Owed,
     OnSale, Enrolled
<1>3. CASE SalesNext
  BY <1>1, <1>3, TablesStep, ReportStep DEF SalesNext
<1>4. QED
  BY <1>1, <1>2, <1>3

(* The leaderboard and the analytics add up, for any number of publishers,  *)
(* resources, purchases and reports that overlap (routes/publishers.ts).    *)
THEOREM EarningsAlwaysAddUp == SalesSpec => []EarningsAddUp
<1>1. SalesInv => EarningsAddUp
  <2>1. SUFFICES ASSUME SalesInv, NEW q \in Reports, report[q].read = "payments"
        PROVE  /\ \A p \in report[q].of : /\ report[q].atLeast[p] \subseteq report[q].earned[p]
                                          /\ report[q].earned[p] \subseteq paid
               /\ \A p, o \in report[q].of :
                    p # o => report[q].earned[p] \cap report[q].earned[o] = {}
    BY DEF EarningsAddUp
  <2>2. \A p \in report[q].of : report[q].atLeast[p] \subseteq report[q].earned[p]
                                /\ report[q].earned[p] \subseteq Owed(p)
    BY <2>1 DEF SalesInv, ReportInv, NoReport
  <2>3. QED
    BY <2>2 DEF Owed
<1>2. QED
  BY <1>1, SalesInitInv, SalesStep, PTL DEF SalesSpec
=============================================================================
