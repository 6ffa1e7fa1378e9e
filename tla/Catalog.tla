------------------------------- MODULE Catalog -------------------------------
(***************************************************************************)
(* The public catalogue: the listed rows, the two caches in front of them, *)
(* and what changes which resources are listed: verdicts of the paid       *)
(* verification, delistings by publishers, and the set_listed events of    *)
(* the contract.  A row is there before its file.  A read that misses is   *)
(* in flight between the database and the caches while rows change and     *)
(* caches are invalidated.  Time is counted down: every entry knows how    *)
(* many ticks it has left.                                                 *)
(***************************************************************************)
EXTENDS Naturals, Sequences, SequencesExt, FiniteSets

CONSTANTS Resource,  \* resources of type file, whose row is in the database
          Verification, \* paid verifications that may be asked for
          Query,     \* reads of the database that may be in flight at once
          SharedKey, \* filters answered from the cached catalogue: pages, counts
          SearchKey, \* full-text searches, answered by the database
          MaxKeys,   \* CATALOG_CACHE_MAX_KEYS
          TTL,       \* CATALOG_CACHE_TTL_MS in ticks
          QueryTime, \* bound: the ticks a read of the database takes
          MaxEvents, \* bound on the set_listed events that reach the listener
          Nothing

Key == SharedKey \cup SearchKey

ASSUME CatalogAssumption ==
  /\ MaxKeys \in Nat \ {0} /\ TTL \in Nat \ {0} /\ QueryTime \in Nat
  /\ MaxEvents \in Nat
  /\ Nothing \notin Verification \cup [resource : Resource, original : BOOLEAN]

VARIABLES row,      \* listed, verificationStatus and verificationId of each row
          verdict,  \* the verifications table
          judging,  \* the verifications whose verdict is not in the row yet
          upload,   \* of each publish: "uploading", "stored", "published", "failed"
          delisting,\* how far the publisher's delisting is, and if it read a path
          events,   \* how many set_listed events were applied
          file,     \* the resources whose file is in storage
          catalog,  \* the entry of CATALOG_KEY in readCache, or Nil
          pages,    \* pageCache, oldest key first
          query,    \* the read in flight of each slot, or Nil
          past,     \* history: the listings of this tick and of the last ones
          gone,     \* history: delisted, invalidated, and not listed since
          byChain,  \* history: an event has listed it since its last verdict
          overruled \* history: listed by a verdict or an event since its delisting

rowVars == <<row, verdict, judging, upload, delisting, events, file>>
caches == <<catalog, pages, query>>
listers == <<byChain, overruled>>
catalogVars == <<rowVars, caches, past, gone, listers>>

Listed == {r \in Resource : row[r].listed}
Listing == Listed'

(* Some rows were published before, the files of others are on their way. *)
CatalogInit ==
  /\ row = [r \in Resource |-> [listed |-> FALSE, status |-> "pending", by |-> Nothing]]
  /\ verdict = [v \in Verification |-> Nothing] /\ judging = {}
  /\ upload \in [Resource -> {"uploading", "published"}]
  /\ file = {r \in Resource : upload[r] = "published"}
  /\ events = 0
  /\ delisting = [r \in Resource |-> [step |-> "no", path |-> FALSE]]
  /\ catalog = Nothing /\ pages = <<>> /\ query = [q \in Query |-> Nothing]
  /\ past = <<{{}}>> /\ gone = {} /\ byChain = {} /\ overruled = {}

(* How many ticks back the history goes: as far as a page may. *)
Remembered == 2 * TTL - 1 + QueryTime

(* The listings of this tick grow by what a change of rows leads to. *)
Remember == past' = [past EXCEPT ![1] = @ \cup {Listing}]

(***************************************************************************)
(* ttlCache.ts.                                                            *)
(***************************************************************************)
PlaceOf(key) == {i \in DOMAIN pages : pages[i].key = key}
Without(key) ==
  IF PlaceOf(key) = {} THEN pages ELSE RemoveAt(pages, CHOOSE i \in PlaceOf(key) : TRUE)
Live(key) == \E i \in PlaceOf(key) : pages[i].left > 0

Entry(listing, stale) == [listing |-> listing, stale |-> stale, left |-> TTL]

(* set, after a get that missed: the get has dropped an expired entry; a    *)
(* key set by someone else meanwhile keeps its place, a new one pushes the  *)
(* oldest out when the cache is full.                                       *)
Put(key, e) ==
  LET p == [key |-> key, listing |-> e.listing, stale |-> e.stale, left |-> TTL]
      kept == IF Live(key) THEN pages ELSE Without(key)
      fits == IF Len(kept) >= MaxKeys THEN Tail(kept) ELSE kept
  IN pages' = IF Live(key)
              THEN [i \in DOMAIN pages |-> IF i \in PlaceOf(key) THEN p ELSE pages[i]]
              ELSE Append(fits, p)

(* Faulty variant: an expired entry is still an answer. *)
FreshForever(e) == e # Nothing

(* get, for the one entry of readCache. *)
Fresh(e) == e # Nothing /\ e.left > 0

(***************************************************************************)
(* Reads: listCatalog and countCatalog, each for one key.                  *)
(***************************************************************************)
(* A page that missed is computed from the cached catalogue. *)
Compute(key) ==
  /\ key \in SharedKey /\ ~Live(key) /\ Fresh(catalog)
  /\ Put(key, catalog)
  /\ UNCHANGED <<rowVars, catalog, query, past, gone, listers>>

(* Both missed, or the key is a search: the database is asked. *)
Ask(q, key) ==
  /\ query[q] = Nothing /\ ~Live(key)
  /\ key \in SearchKey \/ ~Fresh(catalog)
  /\ query' = [query EXCEPT ![q] = [key |-> key, listing |-> Listed, stale |-> FALSE,
                                    age |-> 0]]
  /\ UNCHANGED <<rowVars, catalog, pages, past, gone, listers>>

(* Its rows arrive and are stored, whatever happened meanwhile. *)
Land(q) ==
  /\ query[q] # Nothing
  /\ LET e == Entry(query[q].listing, query[q].stale)
     IN /\ Put(query[q].key, e)
        /\ catalog' = IF query[q].key \in SharedKey THEN e ELSE catalog
  /\ query' = [query EXCEPT ![q] = Nothing]
  /\ UNCHANGED <<rowVars, past, gone, listers>>

(* Faulty variant: the computed pages survive an invalidation. *)
InvalidateCatalog ==
  /\ catalog' = Nothing /\ UNCHANGED pages
  /\ query' = [q \in Query |-> IF query[q] = Nothing THEN Nothing ELSE [query[q] EXCEPT !.stale = TRUE]]

(* invalidateReads.  History: what is in flight now will be stale. *)
InvalidateReads ==
  /\ catalog' = Nothing /\ pages' = <<>>
  /\ query' = [q \in Query |-> IF query[q] = Nothing THEN Nothing ELSE [query[q] EXCEPT !.stale = TRUE]]

(* Time passes; a read of the database does not take longer than QueryTime. *)
Tick ==
  /\ \A q \in Query : query[q] # Nothing => query[q].age < QueryTime
  /\ catalog' = IF Fresh(catalog) THEN [catalog EXCEPT !.left = @ - 1] ELSE Nothing
  /\ pages' = [i \in DOMAIN pages |->
                 [pages[i] EXCEPT !.left = IF @ > 0 THEN @ - 1 ELSE 0]]
  /\ query' = [q \in Query |-> IF query[q] = Nothing THEN Nothing ELSE [query[q] EXCEPT !.age = @ + 1]]
  /\ past' = <<{Listed}>> \o (IF Len(past) < Remembered THEN past ELSE Front(past))
  /\ UNCHANGED <<rowVars, gone, listers>>

(***************************************************************************)
(* Publishing a file, after its row was inserted: createFileResource.      *)
(***************************************************************************)
(* The storage path is in the row. *)
HasPath(r) == upload[r] \in {"stored", "published"}

(* uploadFile, and the update of the row with its path. *)
Store(r) ==
  /\ upload[r] = "uploading"
  /\ upload' = [upload EXCEPT ![r] = "stored"] /\ file' = file \cup {r}
  /\ UNCHANGED <<row, verdict, judging, delisting, events, caches, past, gone, listers>>

Published(r) ==
  /\ upload[r] = "stored"
  /\ upload' = [upload EXCEPT ![r] = "published"]
  /\ InvalidateReads
  /\ UNCHANGED <<row, verdict, judging, delisting, events, file, past, gone, listers>>

(* One of the two throws, or the process stops: the row stays without a path. *)
UploadFails(r) ==
  /\ upload[r] = "uploading"
  /\ upload' = [upload EXCEPT ![r] = "failed"]
  /\ UNCHANGED <<row, verdict, judging, delisting, events, file, caches, past, gone, listers>>

(***************************************************************************)
(* Verification: POST /verify-content with a resourceId.                   *)
(***************************************************************************)
(* checkOriginality answers, and the verdict is inserted. *)
Judge(v) ==
  /\ verdict[v] = Nothing
  /\ \E r \in Resource, original \in BOOLEAN :
       verdict' = [verdict EXCEPT ![v] = [resource |-> r, original |-> original]]
  /\ judging' = judging \cup {v}
  /\ UNCHANGED <<row, upload, delisting, events, file, caches, past, gone, listers>>

(* History: what a verdict or an event that lists a resource undoes. *)
ListedAs(r, listed) ==
  /\ gone' = IF listed THEN gone \ {r} ELSE gone
  /\ overruled' = IF listed /\ delisting[r].step # "no" THEN overruled \cup {r} ELSE overruled
  /\ Remember

(* The verdict goes into the row, whatever has become of it; no cache is    *)
(* invalidated.                                                             *)
Rule(v) ==
  LET r == verdict[v].resource IN
  /\ v \in judging
  /\ row' = [row EXCEPT ![r] =
       [listed |-> verdict[v].original,
        status |-> IF verdict[v].original THEN "verified" ELSE "rejected", by |-> v]]
  /\ judging' = judging \ {v}
  /\ ListedAs(r, verdict[v].original)
  /\ byChain' = byChain \ {r}
  /\ UNCHANGED <<verdict, upload, delisting, events, file, caches>>

(* The reply fails, or the process stops, between the two writes. *)
Unruled(v) == /\ v \in judging /\ judging' = judging \ {v}
              /\ UNCHANGED <<row, verdict, upload, delisting, events, file, caches, past, gone, listers>>

(***************************************************************************)
(* handleSetListedEvent: what any entry's creator sets on chain, whatever  *)
(* the row's verdict, upload or delisting; no cache is invalidated.        *)
(***************************************************************************)
SetListedEvent(r, listed) ==
  /\ events < MaxEvents /\ events' = events + 1
  /\ row' = [row EXCEPT ![r].listed = listed]
  /\ ListedAs(r, listed)
  /\ byChain' = IF listed THEN byChain \cup {r} ELSE byChain
  /\ UNCHANGED <<verdict, judging, upload, delisting, file, caches>>

(***************************************************************************)
(* Delisting: DELETE /resources/:id by the row's publisher.                *)
(***************************************************************************)
(* Faulty variant: the files go first, and the row is unlisted after them. *)
DelistFilesFirst(r) ==
  /\ delisting[r].step = "no"
  /\ \/ file' = file \ {r} /\ UNCHANGED <<row, delisting>>
     \/ /\ r \notin file /\ UNCHANGED file
        /\ row' = [row EXCEPT ![r].listed = FALSE]
        /\ delisting' = [delisting EXCEPT ![r] = [step |-> "updated", path |-> FALSE]]
  /\ Remember
  /\ UNCHANGED <<verdict, judging, upload, events, caches, gone, listers>>

(* The update returns the row, with the path it has by now. *)
Delist(r) ==
  /\ delisting[r].step = "no"
  /\ row' = [row EXCEPT ![r].listed = FALSE]
  /\ delisting' = [delisting EXCEPT ![r] = [step |-> "updated", path |-> HasPath(r)]]
  /\ Remember
  /\ UNCHANGED <<verdict, judging, upload, events, file, caches, gone, listers>>

Invalidate(r) ==
  /\ delisting[r].step = "updated"
  /\ InvalidateReads
  /\ delisting' = [delisting EXCEPT ![r].step = "invalidated"]
  /\ gone' = IF row[r].listed THEN gone ELSE gone \cup {r}
  /\ UNCHANGED <<row, verdict, judging, upload, events, file, past, listers>>

(* deleteFile, of the path that was read. *)
DeleteFile(r) ==
  /\ delisting[r].step = "invalidated"
  /\ file' = IF delisting[r].path THEN file \ {r} ELSE file
  /\ delisting' = [delisting EXCEPT ![r].step = "deleted"]
  /\ UNCHANGED <<row, verdict, judging, upload, events, caches, past, gone, listers>>

CatalogNext ==
  \/ \E key \in Key : Compute(key) \/ \E q \in Query : Ask(q, key)
  \/ \E q \in Query : Land(q)
  \/ \E v \in Verification : Judge(v) \/ Rule(v) \/ Unruled(v)
  \/ \E r \in Resource : \/ Store(r) \/ Published(r) \/ UploadFails(r)
                         \/ Delist(r) \/ Invalidate(r) \/ DeleteFile(r)
                         \/ \E listed \in BOOLEAN : SetListedEvent(r, listed)
  \/ Tick

CatalogSpec == CatalogInit /\ [][CatalogNext]_catalogVars

(***************************************************************************)
(* What must hold.                                                         *)
(***************************************************************************)
WasListed(listing) == \E i \in DOMAIN past : listing \in past[i]

(* resourceService.ts: "keeping newly published/delisted items fresh within *)
(* seconds": what a page can be answered with was the listing at most two   *)
(* TTLs and a query ago, though neither verdicts nor events invalidate.     *)
PagesAreRecent ==
  \A i \in DOMAIN pages :
    pages[i].left > 0 => WasListed(pages[i].listing)

(* invalidateReads: once a delisting has invalidated the caches, only reads *)
(* that were in flight then can bring the resource back into an answer.     *)
DelistedLeavesAnswers ==
  /\ \A i \in DOMAIN pages :
       pages[i].left > 0 /\ ~pages[i].stale => pages[i].listing \cap gone = {}
  /\ Fresh(catalog) /\ ~catalog.stale => catalog.listing \cap gone = {}

(* verify.ts, resourceService.ts, eventListener.ts: whatever overlaps, a     *)
(* listed row carries a verdict of its own that finds it original, unless an *)
(* event of the contract listed it since; and the file its publish stored is *)
(* there for the buyers, unless a verdict or an event has listed it again    *)
(* since its delisting began.                                                *)
ListedIsSound ==
  /\ \A r \in Listed \ byChain :
       /\ row[r].status = "verified" /\ row[r].by # Nothing
       /\ verdict[row[r].by].resource = r /\ verdict[row[r].by].original
  /\ \A r \in Listed \ overruled : HasPath(r) => r \in file
=============================================================================
