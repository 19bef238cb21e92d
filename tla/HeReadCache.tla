----------------------------- MODULE HeReadCache -----------------------------
(***************************************************************************)
(* The store of libsql-store.ts over the engine: set, update, import, get  *)
(* with the read cache, and transaction().                                 *)
(*                                                                         *)
(* The store keeps what extract_json returned for a path with the revision *)
(* its root row had then, and returns it again while the row still has     *)
(* that revision.  A write below a path leaves the path's revision alone,  *)
(* so every write also drops the entries of the path and its ancestors.    *)
(* That protects the entries of this store against the writes of this      *)
(* store.  What it does not protect against is recorded in misled: entries *)
(* filled inside a transaction that was rolled back, and entries above a   *)
(* path that another writer of the table wrote.                            *)
(*                                                                         *)
(* The calls of one store are synchronous and do not overlap, but another  *)
(* writer's may fall between the two SELECTs of a get.  Projections are    *)
(* applied to a copy of what is cached and left out, as are nested         *)
(* transactions.                                                           *)
(***************************************************************************)
EXTENDS HeEngine, FiniteSets

CONSTANTS CacheSize, \* readCacheSize, 0 turns the cache off
          Others     \* other writers of the same table

ASSUME CacheAssumption == CacheSize \in Nat

VARIABLES cache,  \* readCache: for each key its entry, and the keys inserted before
          before, \* inside transaction(): the tables as they were at BEGIN
          filled, \* keys that get stored since BEGIN
          misled, \* keys whose entry the cache's invalidation does not cover
          reading \* a get that missed, between its two SELECTs: key and revision

cacheVars == <<cache, before, filled, misled, reading>>
tables    == <<containers, primitives, hashes>>

NoTransaction == <<>>
Idle          == <<>>
InTransaction == before # NoTransaction

-----------------------------------------------------------------------------
(***************************************************************************)
(* The Map of entries                                                      *)
(***************************************************************************)
Drop(c, S) == [k \in DOMAIN c \ S |->
                  [rev |-> c[k].rev, json |-> c[k].json, older |-> c[k].older \ S]]
Oldest(c)  == {k \in DOMAIN c : c[k].older = {}}

\* A hit: there is an entry and its revision is that of the row.
Hit(p) == /\ p \in DOMAIN cache
          /\ Exists(p)
          /\ cache[p].rev = containers[p].rev

\* The eviction that waits until the limit is passed (a fault).
EvictedLate(c) == IF Cardinality(DOMAIN c) > CacheSize THEN Drop(c, Oldest(c)) ELSE c

\* cacheSet: at the limit the oldest entry goes, even if it is the one to be
\* replaced; an entry that is replaced keeps its place.
Evicted(c) == IF Cardinality(DOMAIN c) >= CacheSize THEN Drop(c, Oldest(c)) ELSE c

CacheSet(c, p, revision, text) ==
    LET kept  == Evicted(c)
        place == IF p \in DOMAIN kept THEN kept[p].older ELSE DOMAIN kept
    IN  IF CacheSize = 0 THEN c
        ELSE Override([k \in {p} |-> [rev |-> revision, json |-> text, older |-> place]], kept)

\* Invalidation of the path alone (a fault).
InvalidatedAlone(p) == {p}

\* invalidateCacheKeys: the path and all that lead to it.
Invalidated(p) == Ancestors(p) \cup {p, Root}

Invalidate(p) ==
    /\ cache' = Drop(cache, Invalidated(p))
    /\ filled' = filled \ Invalidated(p)
    /\ misled' = misled \ Invalidated(p)

-----------------------------------------------------------------------------
(***************************************************************************)
(* The store's methods                                                     *)
(***************************************************************************)
CacheInit == Init /\ cache = Nothing /\ before = NoTransaction /\ filled = {} /\ misled = {}
             /\ reading = Idle

\* No get is between its SELECTs, and none starts.
Alone == reading = Idle /\ UNCHANGED reading

\* get: a hit changes nothing; a miss keeps the revision it looked up, then
\* reads the document, if it is still there, and stores both.
GetHit(p) == Alone /\ Hit(p) /\ UNCHANGED <<vars, cache, before, filled, misled>>

GetRevision(p) ==
    /\ reading = Idle
    /\ Exists(p)
    /\ ~Hit(p)
    /\ reading' = [key |-> p, rev |-> containers[p].rev]
    /\ UNCHANGED <<vars, cache, before, filled, misled>>

GetDocument(p) ==
    LET stored == CacheSet(cache, p, reading.rev, Extract(p))
    IN /\ reading # Idle
       /\ reading.key = p
       /\ reading' = Idle
       /\ cache' = stored
       /\ filled' = IF InTransaction THEN (filled \cup {p}) \cap DOMAIN stored ELSE {}
       /\ misled' = (misled \ {p}) \cap DOMAIN stored
       /\ UNCHANGED <<vars, before>>

\* set with a value: the entries stay when the engine answers with the revision
\* that the row had before.
StoreSet(p, t, limit) ==
    /\ Alone
    /\ SetJson(p, t, limit)
    /\ IF DedupHit(p, t, limit) THEN UNCHANGED <<cache, filled, misled>> ELSE Invalidate(p)
    /\ UNCHANGED before

\* set and update with null.
StoreRemove(p) == Alone /\ RemoveJson(p) /\ Invalidate(p) /\ UNCHANGED before

\* update; a wildcard pattern stands for the path before the wildcard, and
\* where there is no document the entries go all the same.
StoreUpdate(p, u) ==
    /\ Alone
    /\ \/ UpdateLeaf(p, u)
       \/ UpdateFull(p, u)
       \/ UpdateWildcard(p, u)
       \/ ~Exists(p) /\ Called("wildcard", p, u) /\ UNCHANGED <<tables, clock>>
    /\ Invalidate(p)
    /\ UNCHANGED before

\* import of CSV; an import of JSON is a set.
StoreImport(p, t, limit) ==
    Alone /\ ImportCsv(p, t, limit) /\ Invalidate(p) /\ UNCHANGED before

\* transaction(): the callback's calls, then COMMIT, or ROLLBACK if it throws.
Begin ==
    /\ Alone
    /\ ~InTransaction
    /\ before' = [containers |-> containers, primitives |-> primitives, hashes |-> hashes]
    /\ UNCHANGED <<vars, cache, filled, misled>>

Commit ==
    /\ Alone
    /\ InTransaction
    /\ before' = NoTransaction
    /\ filled' = {}
    /\ UNCHANGED <<vars, cache, misled>>

Rollback ==
    /\ Alone
    /\ InTransaction
    /\ containers' = before.containers
    /\ primitives' = before.primitives
    /\ hashes' = before.hashes
    /\ before' = NoTransaction
    /\ filled' = {}
    /\ misled' = misled \cup filled
    /\ UNCHANGED <<clock, call, cache>>

\* Another writer of the table, which does not know this store's entries.  It has
\* all the calls of the engine; a set that the dedup skips is no step of it.
OtherWrite(p) ==
    /\ ~InTransaction
    /\ \/ RemoveJson(p)
       \/ \E t \in Texts, limit \in Limits : \/ ~DedupHit(p, t, limit) /\ SetJson(p, t, limit)
                                            \/ ImportCsv(p, t, limit)
       \/ \E u \in Updates : UpdateLeaf(p, u) \/ UpdateFull(p, u) \/ UpdateWildcard(p, u)
    /\ misled' = misled \cup (Ancestors(p) \cap DOMAIN cache)
    /\ UNCHANGED <<cache, before, filled, reading>>

CacheNext ==
    \/ \E p \in DocPaths :
          \/ GetHit(p) \/ GetRevision(p) \/ GetDocument(p) \/ StoreRemove(p)
          \/ \E t \in Texts, limit \in Limits : StoreSet(p, t, limit) \/ StoreImport(p, t, limit)
          \/ \E u \in Updates : StoreUpdate(p, u)
          \/ \E w \in Others : OtherWrite(p)
    \/ Begin \/ Commit \/ Rollback

CacheSpec == CacheInit /\ [][CacheNext]_<<vars, cacheVars>>

-----------------------------------------------------------------------------
(***************************************************************************)
(* Properties                                                              *)
(***************************************************************************)

\* Never more entries than the limit, in one order; the ghosts speak of entries.
CacheTypeOK ==
    /\ Cardinality(DOMAIN cache) <= CacheSize
    /\ \A k, l \in DOMAIN cache : k # l => (k \in cache[l].older <=> l \notin cache[k].older)
    /\ \A k \in DOMAIN cache : cache[k].older \subseteq DOMAIN cache \ {k}
    /\ \A k \in DOMAIN cache : \A l \in cache[k].older : cache[l].older \subseteq cache[k].older
    /\ filled \subseteq DOMAIN cache
    /\ misled \subseteq DOMAIN cache

\* The readers' contract: a get that hits returns what extract_json would
\* return now, inside a transaction and outside, unless the entry was filled in
\* a transaction rolled back since or another writer wrote below it
\* (libsql-store.ts:200-207, 402-417).
HitsTellTheTruth ==
    \A p \in DocPaths : (Hit(p) /\ p \notin misled) => cache[p].json = Extract(p)

\* What libsql-store.ts:200-207 says: every write gives the root row a new
\* revision, so the comparison of revisions invalidates the cache by itself.
CacheCoherent == \A p \in DocPaths : Hit(p) => cache[p].json = Extract(p)
=============================================================================
