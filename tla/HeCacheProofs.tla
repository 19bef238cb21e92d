---------------------------- MODULE HeCacheProofs ----------------------------
(***************************************************************************)
(* The readers' contract of the store: a get that hits returns what a read *)
(* of the tables would, but for the entries counted as misled, for any     *)
(* keys, values, paths, texts, limits and size of the cache.               *)
(*                                                                         *)
(* A hit compares revisions.  That is enough because a row that was        *)
(* rewritten has a revision that no entry can have (it was not drawn when  *)
(* the entry was filled), a row that was not still tells the same text     *)
(* unless the call named a path below it (SameRevisionSameText), and then  *)
(* the entry was dropped.  ROLLBACK brings old tables back, so the same    *)
(* must be known of the tables as they were at BEGIN.                      *)
(***************************************************************************)
EXTENDS HeReadCache, HeEngineProofs, FiniteSetTheorems

\* The entry e of p tells what the tables c and r hold, if its revision counts.
Tells(c, r, e, p) == (p \in DOMAIN c /\ c[p].rev = e.rev) => e.json = TextOf(c, r, p)

\* What EInv says of the tables, of any tables.
TablesOK(c, r, h, n) ==
    /\ ContainersOK(c) /\ PrimitivesOK(r)
    /\ ParentsIn(DOMAIN c, c)
    /\ ParentsIn(DOMAIN r, c)
    /\ DOMAIN h \subseteq Path
    /\ \A q \in DOMAIN h : IsText(h[q].text) /\ h[q].limit \in Nat /\ h[q].rev \in Nat
    /\ n \in 0..MaxWrites
    /\ \A q \in DOMAIN c : c[q].rev <= n

LEMMA EInvIsTablesOK ==
    /\ EInv <=> TablesOK(containers, primitives, hashes, clock)
    /\ EInv' <=> TablesOK(containers', primitives', hashes', clock')
BY IInvChar DEF EInv, RevsDrawn, TablesOK, IInv, TypeOK, AncestorClosed, ContainersOK, PrimitivesOK, ParentsIn

EntriesDrawn == \A p \in DOMAIN cache : p \in Path /\ cache[p].rev \in Nat /\ cache[p].rev <= clock
EntriesTell  == \A p \in DOMAIN cache \ misled : Tells(containers, primitives, cache[p], p)
ReadingDrawn == reading # Idle => /\ reading.key \in Path
                                  /\ reading.rev \in Nat /\ reading.rev <= clock
BeforeTells  == InTransaction =>
                   /\ TablesOK(before.containers, before.primitives, before.hashes, clock)
                   /\ \A p \in DOMAIN cache \ (misled \cup filled) :
                         Tells(before.containers, before.primitives, cache[p], p)
OffIsEmpty   == CacheSize = 0 => DOMAIN cache = {}

CInv == EInv /\ EntriesDrawn /\ EntriesTell /\ ReadingDrawn /\ BeforeTells /\ OffIsEmpty

-----------------------------------------------------------------------------
(* Operators of the cache *)

LEMMA DropChar ==
    ASSUME NEW c, NEW S
    PROVE  /\ DOMAIN Drop(c, S) = DOMAIN c \ S
           /\ \A k \in DOMAIN c \ S : Drop(c, S)[k].rev = c[k].rev /\ Drop(c, S)[k].json = c[k].json
BY DEF Drop

\* What is stored is the new entry, and whatever else is there was there before.
LEMMA CacheSetChar ==
    ASSUME NEW c, NEW p, NEW rev, NEW text, NEW d, d = CacheSet(c, p, rev, text)
    PROVE  /\ CacheSize = 0 => d = c
           /\ CacheSize # 0 => p \in DOMAIN d /\ d[p].rev = rev /\ d[p].json = text
           /\ \A k \in DOMAIN d : k # p => /\ k \in DOMAIN c
                                           /\ d[k].rev = c[k].rev /\ d[k].json = c[k].json
<1>0. \A S : /\ DOMAIN Drop(c, S) \subseteq DOMAIN c
             /\ \A k \in DOMAIN Drop(c, S) : Drop(c, S)[k].rev = c[k].rev /\ Drop(c, S)[k].json = c[k].json
  <2> SUFFICES ASSUME NEW S
               PROVE  /\ DOMAIN Drop(c, S) \subseteq DOMAIN c
                      /\ \A k \in DOMAIN Drop(c, S) : /\ Drop(c, S)[k].rev = c[k].rev
                                                     /\ Drop(c, S)[k].json = c[k].json
    OBVIOUS
  <2> QED
    BY DEF Drop
<1> DEFINE kept  == Evicted(c)
           place == IF p \in DOMAIN kept THEN kept[p].older ELSE DOMAIN kept
           new   == [k \in {p} |-> [rev |-> rev, json |-> text, older |-> place]]
<1>1. \A k \in DOMAIN kept : k \in DOMAIN c /\ kept[k].rev = c[k].rev /\ kept[k].json = c[k].json
  <2>1. kept = c \/ \E S : kept = Drop(c, S)
    BY DEF Evicted
  <2> HIDE DEF kept
  <2> QED
    BY <2>1, <1>0
<1>2. d = IF CacheSize = 0 THEN c ELSE Override(new, kept)
  BY DEF CacheSet
<1>3. DOMAIN new = {p} /\ new[p].rev = rev /\ new[p].json = text
  OBVIOUS
<1> HIDE DEF kept, new
<1>4. CASE CacheSize = 0
  <2>1. d = c
    BY <1>2, <1>4
  <2> QED
    BY <2>1, <1>4
<1>5. CASE CacheSize # 0
  <2>1. /\ DOMAIN Override(new, kept) = DOMAIN new \cup DOMAIN kept
        /\ \A q \in DOMAIN new : Override(new, kept)[q] = new[q]
        /\ \A q \in DOMAIN kept : q \notin DOMAIN new => Override(new, kept)[q] = kept[q]
    BY OverrideChar
  <2>2. d = Override(new, kept)
    BY <1>2, <1>5
  <2> QED
    BY <2>1, <2>2, <1>1, <1>3, <1>5
<1> QED
  BY <1>4, <1>5

-----------------------------------------------------------------------------
(* A write keeps what an entry tells, unless it names a path below the entry *)

LEMMA EditKeepsTelling ==
    ASSUME EInv, IInv', NEW p \in Path, Edit(p), NEW q \in Path, ~IsStrictPrefix(q, p),
           NEW e, e.rev \in Nat, e.rev <= clock, Tells(containers, primitives, e, q)
    PROVE  Tells(containers', primitives', e, q)
<1> SUFFICES ASSUME q \in DOMAIN containers', containers'[q].rev = e.rev
             PROVE  e.json = TextOf(containers', primitives', q)
  BY DEF Tells
<1>1. clock \in Nat
  BY DEF EInv, IInv, TypeOK
<1>2. ~New(q)
  BY <1>1 DEF New
<1>3. q \in DOMAIN containers /\ containers'[q] = containers[q]
  BY <1>2 DEF Edit, Dated, Retained
<1>4. e.json = TextOf(containers, primitives, q)
  BY <1>3 DEF Tells
<1>5. Exists(q) /\ Exists(q)'
  BY <1>3 DEF Exists
<1>6. Extract(q)' = Extract(q)
  BY <1>2, <1>5, SameRevisionSameText
<1> QED
  BY <1>4, <1>6, ExtractIsTextOf

\* What the engine's calls do, seen from the store.
Calls(p) == \/ UNCHANGED <<containers, primitives, clock>>
            \/ Edit(p) /\ clock' \in {clock, clock + 1}

LEMMA CallIsEdit ==
    ASSUME EInv, Next
    PROVE  call'.path \in Path /\ EInv' /\ Calls(call'.path)
<1>1. IInv /\ EInv' /\ IInv'
  BY EInvNext DEF EInv
<1>2. call'.path \in Path
  BY <1>1, NextEdits, EngineAssumption
<1> QED
  BY <1>1, <1>2, NextEdits DEF Calls

\* The writers, from Path and clock alone.
LEMMA CallKeepsTelling ==
    ASSUME EInv, EInv', NEW p \in Path, Calls(p), NEW q \in Path, ~IsStrictPrefix(q, p),
           NEW e, e.rev \in Nat, e.rev <= clock, Tells(containers, primitives, e, q)
    PROVE  /\ Tells(containers', primitives', e, q)
           /\ clock \in Nat /\ clock' \in Nat /\ clock <= clock' /\ e.rev <= clock'
<1>1. clock \in Nat /\ clock' \in Nat /\ IInv'
  BY DEF EInv, IInv, TypeOK
<1>2. clock <= clock' /\ e.rev <= clock'
  BY <1>1 DEF Calls
<1>3. CASE UNCHANGED <<containers, primitives, clock>>
  BY <1>1, <1>2, <1>3 DEF Tells
<1>4. CASE Edit(p)
  BY <1>1, <1>2, <1>4, EditKeepsTelling
<1> QED
  BY <1>3, <1>4 DEF Calls

-----------------------------------------------------------------------------
(* The steps *)

LEMMA CInvInit == CacheInit => CInv
<1> SUFFICES ASSUME CacheInit PROVE CInv
  OBVIOUS
<1>1. EInv
  BY EInvInit DEF CacheInit
<1>2. DOMAIN cache = {}
  BY DEF CacheInit, Nothing
<1>3. ~InTransaction /\ reading = Idle
  BY DEF CacheInit, InTransaction
<1> QED
  BY <1>1, <1>2, <1>3 DEF CInv, EntriesDrawn, EntriesTell, ReadingDrawn, BeforeTells, OffIsEmpty

\* A write of this store drops the entries that lead to its path.
LEMMA WriteKeeps ==
    ASSUME CInv, NEW p \in Path, EInv', Calls(p), Alone, UNCHANGED before,
           \/ Invalidate(p)
           \/ UNCHANGED <<containers, primitives, clock, cache, filled, misled>>
    PROVE  CInv'
<1>1. /\ \A q \in DOMAIN cache : q \in Path /\ cache[q].rev \in Nat /\ cache[q].rev <= clock
      /\ \A q \in DOMAIN cache \ misled : Tells(containers, primitives, cache[q], q)
      /\ InTransaction =>
            /\ TablesOK(before.containers, before.primitives, before.hashes, clock)
            /\ \A q \in DOMAIN cache \ (misled \cup filled) :
                  Tells(before.containers, before.primitives, cache[q], q)
      /\ CacheSize = 0 => DOMAIN cache = {}
  BY DEF CInv, EntriesDrawn, EntriesTell, BeforeTells, OffIsEmpty
<1>2. /\ clock \in Nat /\ clock' \in Nat /\ clock <= clock' /\ EInv
      /\ clock' \in 0..MaxWrites
  BY DEF CInv, EInv, IInv, TypeOK, Calls
<1>3. /\ \A q \in DOMAIN cache' : /\ q \in DOMAIN cache
                                  /\ cache'[q].rev = cache[q].rev /\ cache'[q].json = cache[q].json
      /\ \A q \in DOMAIN cache' : q \in misled => q \in misled'
      /\ \A q \in DOMAIN cache' : q \in filled => q \in filled'
  <2>1. CASE Invalidate(p)
    <3>1. /\ DOMAIN Drop(cache, Invalidated(p)) = DOMAIN cache \ Invalidated(p)
          /\ \A k \in DOMAIN cache \ Invalidated(p) :
                /\ Drop(cache, Invalidated(p))[k].rev = cache[k].rev
                /\ Drop(cache, Invalidated(p))[k].json = cache[k].json
      BY DropChar
    <3> QED
      BY <2>1, <3>1 DEF Invalidate
  <2>2. CASE UNCHANGED <<containers, primitives, clock, cache, filled, misled>>
    BY <2>2
  <2> QED
    BY <2>1, <2>2
<1>4. ASSUME NEW q \in DOMAIN cache'
      PROVE  ~IsStrictPrefix(q, p) \/ UNCHANGED <<containers, primitives, clock>>
  <2>1. CASE Invalidate(p)
    <3>1. q \in Path /\ q \notin Ancestors(p)
      <4>1. DOMAIN Drop(cache, Invalidated(p)) = DOMAIN cache \ Invalidated(p)
        BY DropChar
      <4> QED
        BY <4>1, <2>1, <1>1 DEF Invalidate, Invalidated
    <3> QED
      BY <3>1, AncestorChar DEF IsStrictPrefix
  <2> QED
    BY <2>1
<1>5. ASSUME NEW q \in DOMAIN cache' \ misled' PROVE Tells(containers', primitives', cache'[q], q)
  <2>1. /\ q \in Path /\ cache[q].rev \in Nat /\ cache[q].rev <= clock
        /\ Tells(containers, primitives, cache[q], q)
    BY <1>1, <1>3
  <2>2. Tells(containers', primitives', cache[q], q)
    <3>1. CASE UNCHANGED <<containers, primitives, clock>>
      BY <2>1, <3>1 DEF Tells
    <3>2. CASE ~IsStrictPrefix(q, p)
      BY <2>1, <3>2, <1>2, CallKeepsTelling
    <3> QED
      BY <1>4, <3>1, <3>2
  <2> QED
    BY <2>2, <1>3 DEF Tells
<1>6. EntriesDrawn'
  BY <1>1, <1>2, <1>3 DEF EntriesDrawn
<1>7. EntriesTell'
  BY <1>5 DEF EntriesTell
<1>8. ReadingDrawn'
  BY DEF Alone, ReadingDrawn
<1>9. BeforeTells'
  <2> SUFFICES ASSUME InTransaction
               PROVE  /\ TablesOK(before.containers, before.primitives, before.hashes, clock')
                      /\ \A q \in DOMAIN cache' \ (misled' \cup filled') :
                            Tells(before.containers, before.primitives, cache'[q], q)
    BY DEF BeforeTells, InTransaction
  <2>1. TablesOK(before.containers, before.primitives, before.hashes, clock')
    <3>1. TablesOK(before.containers, before.primitives, before.hashes, clock)
      BY <1>1
    <3>2. \A q \in DOMAIN before.containers : before.containers[q].rev \in Nat
      BY <3>1 DEF TablesOK, ContainersOK, ContainerRow
    <3> QED
      BY <3>1, <3>2, <1>2 DEF TablesOK
  <2>2. ASSUME NEW q \in DOMAIN cache' \ (misled' \cup filled')
        PROVE  Tells(before.containers, before.primitives, cache'[q], q)
    BY <1>1, <1>3 DEF Tells
  <2> QED
    BY <2>1, <2>2
<1>10. OffIsEmpty'
  BY <1>1, <1>3 DEF OffIsEmpty
<1> QED
  BY <1>6, <1>7, <1>8, <1>9, <1>10 DEF CInv

\* A call of the engine within one of the store's is a step of Next at that path.
LEMMA StoreCall ==
    ASSUME CInv, NEW p \in DocPaths, Next, call'.path = p
    PROVE  p \in Path /\ EInv' /\ Calls(p)
BY CallIsEdit DEF CInv

LEMMA StoreSetKeeps ==
    ASSUME CInv, NEW p \in DocPaths, NEW t \in Texts, NEW limit \in Limits, StoreSet(p, t, limit)
    PROVE  CInv'
<1>1. SetJson(p, t, limit) /\ Alone /\ UNCHANGED before
  BY DEF StoreSet
<1>2. Next /\ call'.path = p
  BY <1>1 DEF Next, SetJson, Called
<1>3. \/ Invalidate(p)
      \/ UNCHANGED <<containers, primitives, clock, cache, filled, misled>>
  BY <1>1 DEF StoreSet, SetJson
<1> QED
  BY <1>1, <1>2, <1>3, StoreCall, WriteKeeps

LEMMA StoreRemoveKeeps ==
    ASSUME CInv, NEW p \in DocPaths, StoreRemove(p)
    PROVE  CInv'
<1>1. RemoveJson(p) /\ Alone /\ UNCHANGED before /\ Invalidate(p)
  BY DEF StoreRemove
<1>2. Next /\ call'.path = p
  BY <1>1 DEF Next, RemoveJson, Called
<1> QED
  BY <1>1, <1>2, StoreCall, WriteKeeps

LEMMA StoreUpdateKeeps ==
    ASSUME CInv, NEW p \in DocPaths, NEW u \in Updates, StoreUpdate(p, u)
    PROVE  CInv'
<1>1. Alone /\ UNCHANGED before /\ Invalidate(p)
  BY DEF StoreUpdate
<1>2. CASE UpdateLeaf(p, u) \/ UpdateFull(p, u) \/ UpdateWildcard(p, u)
  <2>1. Next
    BY <1>2 DEF Next
  <2>2. call'.path = p
    BY <1>2 DEF UpdateLeaf, UpdateFull, UpdateWildcard, Called
  <2> QED
    BY <1>1, <2>1, <2>2, StoreCall, WriteKeeps
<1>3. CASE UNCHANGED <<tables, clock>>
  <2>1. UNCHANGED <<containers, primitives, hashes, clock>>
    BY <1>3 DEF tables
  <2>2. EInv' /\ Calls(p) /\ p \in Path
    BY <2>1, EInvIsTablesOK, EngineAssumption DEF CInv, Calls
  <2> QED
    BY <1>1, <2>2, WriteKeeps
<1> QED
  BY <1>2, <1>3 DEF StoreUpdate

LEMMA StoreImportKeeps ==
    ASSUME CInv, NEW p \in DocPaths, NEW t \in Texts, NEW limit \in Limits, StoreImport(p, t, limit)
    PROVE  CInv'
<1>1. ImportCsv(p, t, limit) /\ Alone /\ UNCHANGED before /\ Invalidate(p)
  BY DEF StoreImport
<1>2. Next /\ call'.path = p
  BY <1>1 DEF Next, ImportCsv, Called
<1> QED
  BY <1>1, <1>2, StoreCall, WriteKeeps

\* What a get learns is the revision of a row that is there.
LEMMA GetRevisionKeeps ==
    ASSUME CInv, NEW p \in DocPaths, GetRevision(p)
    PROVE  CInv'
<1>1. UNCHANGED <<containers, primitives, hashes, clock, cache, before, filled, misled>>
  BY DEF GetRevision, vars
<1>2. p \in Path /\ p \in DOMAIN containers
  BY EngineAssumption DEF GetRevision, Exists
<1>3. containers[p].rev \in Nat /\ containers[p].rev <= clock
  BY <1>2 DEF CInv, EInv, RevsDrawn, IInv, TypeOK, ContainerRow
<1>4. reading' = [key |-> p, rev |-> containers[p].rev]
  BY DEF GetRevision
<1>5. ReadingDrawn'
  BY <1>1, <1>2, <1>3, <1>4 DEF ReadingDrawn
<1>6. EInv'
  BY <1>1, EInvIsTablesOK DEF CInv
<1> QED
  BY <1>1, <1>5, <1>6 DEF CInv, EntriesDrawn, EntriesTell, BeforeTells, InTransaction, OffIsEmpty

\* The entry that is stored tells what the tables hold now.
LEMMA GetDocumentKeeps ==
    ASSUME CInv, NEW p \in DocPaths, GetDocument(p)
    PROVE  CInv'
<1>1. /\ UNCHANGED <<containers, primitives, hashes, clock, before>>
      /\ reading # Idle /\ reading.key = p /\ reading' = Idle
      /\ cache' = CacheSet(cache, p, reading.rev, Extract(p))
      /\ filled' = IF InTransaction THEN (filled \cup {p}) \cap DOMAIN cache' ELSE {}
      /\ misled' = (misled \ {p}) \cap DOMAIN cache'
  BY DEF GetDocument, vars
<1>2. p \in Path /\ reading.rev \in Nat /\ reading.rev <= clock
  BY <1>1 DEF CInv, ReadingDrawn
<1>3. /\ CacheSize = 0 => cache' = cache /\ DOMAIN cache = {}
      /\ CacheSize # 0 => /\ p \in DOMAIN cache'
                          /\ cache'[p].rev = reading.rev /\ cache'[p].json = Extract(p)
      /\ \A k \in DOMAIN cache' : k # p => /\ k \in DOMAIN cache
                                           /\ cache'[k].rev = cache[k].rev
                                           /\ cache'[k].json = cache[k].json
  <2>1. PICK rev, text : rev = reading.rev /\ text = Extract(p)
    OBVIOUS
  <2>2. cache' = CacheSet(cache, p, rev, text)
    BY <1>1, <2>1
  <2>3. /\ CacheSize = 0 => cache' = cache
        /\ CacheSize # 0 => p \in DOMAIN cache' /\ cache'[p].rev = rev /\ cache'[p].json = text
        /\ \A k \in DOMAIN cache' : k # p => /\ k \in DOMAIN cache
                                             /\ cache'[k].rev = cache[k].rev
                                             /\ cache'[k].json = cache[k].json
    BY <2>2, CacheSetChar
  <2> QED
    BY <2>1, <2>3 DEF CInv, OffIsEmpty
<1>4. EInv'
  BY <1>1, EInvIsTablesOK DEF CInv
<1>5. EntriesDrawn'
  BY <1>1, <1>2, <1>3 DEF CInv, EntriesDrawn
<1>6. EntriesTell'
  <2> SUFFICES ASSUME NEW q \in DOMAIN cache' \ misled'
               PROVE  Tells(containers, primitives, cache'[q], q)
    BY <1>1 DEF EntriesTell, Tells
  <2>1. CASE q = p
    BY <2>1, <1>3, ExtractIsTextOf DEF Tells
  <2>2. CASE q # p
    BY <2>2, <1>1, <1>3 DEF CInv, EntriesTell, Tells
  <2> QED
    BY <2>1, <2>2
<1>7. ReadingDrawn'
  BY <1>1 DEF ReadingDrawn
<1>8. BeforeTells'
  <2> SUFFICES ASSUME InTransaction
               PROVE  /\ TablesOK(before.containers, before.primitives, before.hashes, clock)
                      /\ \A q \in DOMAIN cache' \ (misled' \cup filled') :
                            Tells(before.containers, before.primitives, cache'[q], q)
    BY <1>1 DEF BeforeTells, InTransaction, Tells
  <2>1. /\ TablesOK(before.containers, before.primitives, before.hashes, clock)
        /\ \A q \in DOMAIN cache \ (misled \cup filled) :
              Tells(before.containers, before.primitives, cache[q], q)
    BY DEF CInv, BeforeTells
  <2>2. ASSUME NEW q \in DOMAIN cache' \ (misled' \cup filled')
        PROVE  /\ q \in DOMAIN cache \ (misled \cup filled)
               /\ cache'[q].rev = cache[q].rev /\ cache'[q].json = cache[q].json
    BY <1>1, <1>3
  <2> QED
    BY <2>1, <2>2 DEF Tells
<1>9. OffIsEmpty'
  BY <1>3 DEF OffIsEmpty
<1> QED
  BY <1>4, <1>5, <1>6, <1>7, <1>8, <1>9 DEF CInv

LEMMA BeginKeeps == ASSUME CInv, Begin PROVE CInv'
<1>1. /\ UNCHANGED <<containers, primitives, hashes, clock, cache, filled, misled, reading>>
      /\ before' = [containers |-> containers, primitives |-> primitives, hashes |-> hashes]
  BY DEF Begin, Alone, vars
<1>2. /\ before'.containers = containers /\ before'.primitives = primitives
      /\ before'.hashes = hashes
  BY <1>1
<1>3. EInv'
  BY <1>1, EInvIsTablesOK DEF CInv
<1>4. TablesOK(containers, primitives, hashes, clock)
  BY EInvIsTablesOK DEF CInv
<1>5. BeforeTells'
  <2> SUFFICES ASSUME TRUE
               PROVE  /\ TablesOK(before'.containers, before'.primitives, before'.hashes, clock)
                      /\ \A q \in DOMAIN cache \ (misled \cup filled) :
                            Tells(before'.containers, before'.primitives, cache[q], q)
    BY <1>1 DEF BeforeTells, Tells
  <2> QED
    BY <1>2, <1>4 DEF CInv, EntriesTell
<1> QED
  BY <1>1, <1>3, <1>5 DEF CInv, EntriesDrawn, EntriesTell, ReadingDrawn, OffIsEmpty

LEMMA CommitKeeps == ASSUME CInv, Commit PROVE CInv'
<1>1. /\ UNCHANGED <<containers, primitives, hashes, clock, cache, misled, reading>>
      /\ before' = NoTransaction
  BY DEF Commit, Alone, vars
<1>2. EInv'
  BY <1>1, EInvIsTablesOK DEF CInv
<1> QED
  BY <1>1, <1>2
  DEF CInv, EntriesDrawn, EntriesTell, ReadingDrawn, BeforeTells, InTransaction, OffIsEmpty

\* What stood at BEGIN stands again, and only entries filled since can be wrong.
LEMMA RollbackKeeps == ASSUME CInv, Rollback PROVE CInv'
<1>1. /\ InTransaction
      /\ UNCHANGED <<clock, cache, reading>>
      /\ containers' = before.containers /\ primitives' = before.primitives
      /\ hashes' = before.hashes
      /\ before' = NoTransaction
      /\ misled' = misled \cup filled
  BY DEF Rollback, Alone
<1>2. /\ TablesOK(containers', primitives', hashes', clock')
      /\ \A q \in DOMAIN cache \ (misled \cup filled) : Tells(containers', primitives', cache[q], q)
  BY <1>1 DEF CInv, BeforeTells
<1>3. EInv'
  BY <1>2, EInvIsTablesOK
<1>4. EntriesTell'
  BY <1>1, <1>2 DEF EntriesTell
<1> QED
  BY <1>1, <1>3, <1>4
  DEF CInv, EntriesDrawn, ReadingDrawn, BeforeTells, InTransaction, OffIsEmpty

\* Another writer drops nothing: the entries above its path are misled from now on.
LEMMA OtherWriteKeeps ==
    ASSUME CInv, NEW p \in DocPaths, OtherWrite(p)
    PROVE  CInv'
<1>1. /\ ~InTransaction
      /\ misled' = misled \cup (Ancestors(p) \cap DOMAIN cache)
      /\ UNCHANGED <<cache, before, filled, reading>>
      /\ \/ RemoveJson(p)
         \/ \E t \in Texts, limit \in Limits : SetJson(p, t, limit) \/ ImportCsv(p, t, limit)
         \/ \E u \in Updates : UpdateLeaf(p, u) \/ UpdateFull(p, u) \/ UpdateWildcard(p, u)
  BY DEF OtherWrite
<1>2. Next /\ call'.path = p
  <2>1. CASE RemoveJson(p)
    BY <2>1 DEF Next, RemoveJson, Called
  <2>2. CASE \E t \in Texts, limit \in Limits : SetJson(p, t, limit) \/ ImportCsv(p, t, limit)
    <3>1. PICK t \in Texts, limit \in Limits : SetJson(p, t, limit) \/ ImportCsv(p, t, limit)
      BY <2>2
    <3>2. Next
      BY <3>1 DEF Next
    <3>3. call'.path = p
      BY <3>1 DEF SetJson, ImportCsv, Called
    <3> QED
      BY <3>2, <3>3
  <2>3. CASE \E u \in Updates : UpdateLeaf(p, u) \/ UpdateFull(p, u) \/ UpdateWildcard(p, u)
    <3>1. PICK u \in Updates : UpdateLeaf(p, u) \/ UpdateFull(p, u) \/ UpdateWildcard(p, u)
      BY <2>3
    <3>2. Next
      BY <3>1 DEF Next
    <3>3. call'.path = p
      BY <3>1 DEF UpdateLeaf, UpdateFull, UpdateWildcard, Called
    <3> QED
      BY <3>2, <3>3
  <2> QED
    BY <1>1, <2>1, <2>2, <2>3
<1>3. p \in Path /\ EInv' /\ Calls(p) /\ EInv
  BY <1>2, StoreCall DEF CInv
<1>4. clock \in Nat /\ clock' \in Nat /\ clock <= clock'
  BY <1>3 DEF EInv, IInv, TypeOK, Calls
<1>5. EntriesTell'
  <2> SUFFICES ASSUME NEW q \in DOMAIN cache \ misled'
               PROVE  Tells(containers', primitives', cache[q], q)
    BY <1>1 DEF EntriesTell
  <2>1. /\ q \in Path /\ cache[q].rev \in Nat /\ cache[q].rev <= clock
        /\ Tells(containers, primitives, cache[q], q)
    BY <1>1 DEF CInv, EntriesDrawn, EntriesTell
  <2>2. ~IsStrictPrefix(q, p)
    BY <1>1, <1>3, <2>1, AncestorChar DEF IsStrictPrefix
  <2> QED
    BY <1>3, <2>1, <2>2, CallKeepsTelling
<1>6. EntriesDrawn'
  BY <1>1, <1>4 DEF CInv, EntriesDrawn
<1>7. ReadingDrawn'
  BY <1>1, <1>4 DEF CInv, ReadingDrawn
<1> QED
  BY <1>1, <1>3, <1>5, <1>6, <1>7 DEF CInv, BeforeTells, InTransaction, OffIsEmpty

LEMMA CInvNext == CInv /\ [CacheNext]_<<vars, cacheVars>> => CInv'
<1> SUFFICES ASSUME CInv, [CacheNext]_<<vars, cacheVars>> PROVE CInv'
  OBVIOUS
<1>1. ASSUME UNCHANGED <<containers, primitives, hashes, clock, cache, before, filled, misled, reading>>
      PROVE  CInv'
  <2>1. EInv'
    BY <1>1, EInvIsTablesOK DEF CInv
  <2> QED
    BY <1>1, <2>1
    DEF CInv, EntriesDrawn, EntriesTell, ReadingDrawn, BeforeTells, InTransaction, OffIsEmpty
<1>2. CASE UNCHANGED <<vars, cacheVars>>
  BY <1>1, <1>2 DEF vars, cacheVars
<1>3. CASE \E p \in DocPaths : GetHit(p)
  BY <1>1, <1>3 DEF GetHit, Alone, vars
<1>4. CASE \E p \in DocPaths : GetRevision(p) \/ GetDocument(p)
  BY <1>4, GetRevisionKeeps, GetDocumentKeeps
<1>5. CASE \E p \in DocPaths :
              \/ StoreRemove(p)
              \/ \E t \in Texts, limit \in Limits : StoreSet(p, t, limit) \/ StoreImport(p, t, limit)
              \/ \E u \in Updates : StoreUpdate(p, u)
  BY <1>5, StoreSetKeeps, StoreRemoveKeeps, StoreUpdateKeeps, StoreImportKeeps
<1>6. CASE \E p \in DocPaths : OtherWrite(p)
  BY <1>6, OtherWriteKeeps
<1>7. CASE Begin \/ Commit \/ Rollback
  BY <1>7, BeginKeeps, CommitKeeps, RollbackKeeps
<1> QED
  BY <1>2, <1>3, <1>4, <1>5, <1>6, <1>7 DEF CacheNext

\* For any keys, values, paths, texts, limits and size of the cache: a get that hits
\* returns what extract_json would return now, unless the entry was filled in a
\* transaction that was rolled back or another writer wrote below it.
THEOREM HitsAreTrue == CacheSpec => []HitsTellTheTruth
<1>1. CInv => HitsTellTheTruth
  <2> SUFFICES ASSUME CInv, NEW p \in DocPaths, Hit(p), p \notin misled
               PROVE  cache[p].json = Extract(p)
    BY DEF HitsTellTheTruth
  <2>1. Tells(containers, primitives, cache[p], p)
    BY DEF CInv, EntriesTell, Hit
  <2> QED
    BY <2>1, ExtractIsTextOf DEF Tells, Hit, Exists
<1> QED
  BY <1>1, CInvInit, CInvNext, PTL DEF CacheSpec

-----------------------------------------------------------------------------
(***************************************************************************)
(* The limit of the cache.  The entries stand in the order they were       *)
(* inserted in, which has to be known to be one order: in a cycle there    *)
(* would be no oldest entry, and an eviction would evict nothing.          *)
(***************************************************************************)

\* The keys of a cache stand in one order, each with all that were inserted before it.
Ordered(c) ==
    /\ IsFiniteSet(DOMAIN c)
    /\ \A k, l \in DOMAIN c : k # l => (k \in c[l].older <=> l \notin c[k].older)
    /\ \A k \in DOMAIN c : c[k].older \subseteq DOMAIN c \ {k}
    /\ \A k \in DOMAIN c : \A l \in c[k].older : c[l].older \subseteq c[k].older

OInv == /\ Ordered(cache)
        /\ Cardinality(DOMAIN cache) <= CacheSize
        /\ filled \subseteq DOMAIN cache
        /\ misled \subseteq DOMAIN cache

\* An order of finitely many keys has an oldest one, so that an eviction evicts.
LEMMA OldestExists ==
    ASSUME NEW c, Ordered(c), DOMAIN c # {}
    PROVE  Oldest(c) # {}
<1> DEFINE D == DOMAIN c
           T == {c[k].older : k \in D}
           R == StrictSubsetOrdering(D)
<1>1. IsFiniteSet(D)
  BY DEF Ordered
<1>2. FiniteSubsetsOf(D) = SUBSET D
  <2> HIDE DEF D
  <2> QED
    BY <1>1, FS_FiniteSubsetsOfFinite
<1>3. IsWellFoundedOn(R, SUBSET D)
  <2> HIDE DEF D
  <2> QED
    BY <1>2, FS_StrictSubsetOrderingWellFounded
<1>4. T \subseteq SUBSET D /\ T # {}
  BY DEF Ordered
<1>5. \E x \in T : \A y \in T : <<y, x>> \notin R
  <2> HIDE DEF T, R, D
  <2> QED
    BY <1>3, <1>4, WFMin
<1>6. PICK k \in D : \A l \in D : <<c[l].older, c[k].older>> \notin R
  BY <1>5
<1>7. ASSUME NEW l \in c[k].older PROVE FALSE
  <2>1. l \in D /\ c[l].older \subseteq c[k].older /\ l \notin c[l].older
    BY <1>7 DEF Ordered
  <2>2. c[l].older \in SUBSET D /\ c[k].older \in SUBSET D /\ c[l].older # c[k].older
    BY <1>4, <2>1, <1>7
  <2>3. <<c[l].older, c[k].older>> \in R
    BY <2>1, <2>2 DEF StrictSubsetOrdering
  <2> QED
    BY <1>6, <2>1, <2>3
<1> QED
  BY <1>7 DEF Oldest

\* Dropping keys keeps the order of the others.
LEMMA DropOrdered ==
    ASSUME NEW c, Ordered(c), NEW S
    PROVE  /\ Ordered(Drop(c, S))
           /\ DOMAIN Drop(c, S) = DOMAIN c \ S
           /\ Cardinality(DOMAIN Drop(c, S)) <= Cardinality(DOMAIN c)
<1>1. PICK d : d = Drop(c, S)
  OBVIOUS
<1>2. DOMAIN d = DOMAIN c \ S /\ \A k \in DOMAIN d : d[k].older = c[k].older \ S
  BY <1>1 DEF Drop
<1>3. IsFiniteSet(DOMAIN d) /\ Cardinality(DOMAIN d) <= Cardinality(DOMAIN c)
  BY <1>2, FS_Subset DEF Ordered
<1>4. \A k, l \in DOMAIN d : k # l => (k \in d[l].older <=> l \notin d[k].older)
  BY <1>2 DEF Ordered
<1>5. \A k \in DOMAIN d : d[k].older \subseteq DOMAIN d \ {k}
  BY <1>2 DEF Ordered
<1>6. \A k \in DOMAIN d : \A l \in d[k].older : d[l].older \subseteq d[k].older
  BY <1>2, <1>5 DEF Ordered
<1> QED
  BY <1>1, <1>2, <1>3, <1>4, <1>5, <1>6 DEF Ordered

\* The eviction makes room for one more entry.
LEMMA EvictedHasRoom ==
    ASSUME NEW c, Ordered(c), Cardinality(DOMAIN c) <= CacheSize, CacheSize # 0
    PROVE  /\ Ordered(Evicted(c))
           /\ DOMAIN Evicted(c) \subseteq DOMAIN c
           /\ Cardinality(DOMAIN Evicted(c)) + 1 <= CacheSize
<1>1. CacheSize \in Nat /\ IsFiniteSet(DOMAIN c) /\ Cardinality(DOMAIN c) \in Nat
  BY CacheAssumption, FS_CardinalityType DEF Ordered
<1>2. CASE Cardinality(DOMAIN c) < CacheSize
  BY <1>1, <1>2 DEF Evicted
<1>3. CASE Cardinality(DOMAIN c) = CacheSize
  <2>1. Evicted(c) = Drop(c, Oldest(c))
    BY <1>1, <1>3 DEF Evicted
  <2>2. DOMAIN c # {}
    BY <1>1, <1>3, FS_EmptySet
  <2>3. PICK k \in DOMAIN c : k \in Oldest(c)
    BY <2>2, OldestExists DEF Oldest
  <2>4. PICK S : S = Oldest(c)
    OBVIOUS
  <2>5. /\ Ordered(Drop(c, S))
        /\ DOMAIN Drop(c, S) = DOMAIN c \ S
    BY DropOrdered
  <2>6. IsFiniteSet(DOMAIN c \ {k}) /\ Cardinality(DOMAIN c \ {k}) = Cardinality(DOMAIN c) - 1
    BY <1>1, FS_RemoveElement
  <2>7. DOMAIN c \ S \in SUBSET (DOMAIN c \ {k})
    BY <2>3, <2>4
  <2>8. IsFiniteSet(DOMAIN c \ S) /\ Cardinality(DOMAIN c \ S) <= Cardinality(DOMAIN c) - 1
    BY <2>6, <2>7, FS_Subset
  <2>9. Cardinality(DOMAIN c \ S) \in Nat
    BY <2>8, FS_CardinalityType
  <2> QED
    BY <1>1, <1>3, <2>1, <2>4, <2>5, <2>8, <2>9
<1> QED
  BY <1>1, <1>2, <1>3

\* A stored entry is the youngest, or keeps the place of the one it replaces.
LEMMA CacheSetOrdered ==
    ASSUME NEW c, Ordered(c), Cardinality(DOMAIN c) <= CacheSize,
           NEW p, NEW rev, NEW text
    PROVE  /\ Ordered(CacheSet(c, p, rev, text))
           /\ Cardinality(DOMAIN CacheSet(c, p, rev, text)) <= CacheSize
<1>1. CASE CacheSize = 0
  BY <1>1 DEF CacheSet
<1>2. CASE CacheSize # 0
  <2>1. PICK kept : kept = Evicted(c)
    OBVIOUS
  <2>2. /\ Ordered(kept)
        /\ Cardinality(DOMAIN kept) + 1 <= CacheSize
    BY <1>2, <2>1, EvictedHasRoom
  <2>3. PICK place : place = IF p \in DOMAIN kept THEN kept[p].older ELSE DOMAIN kept
    OBVIOUS
  <2>4. PICK d : d = CacheSet(c, p, rev, text)
    OBVIOUS
  <2>5. d = Override([k \in {p} |-> [rev |-> rev, json |-> text, older |-> place]], kept)
    BY <1>2, <2>1, <2>3, <2>4 DEF CacheSet
  <2>6. /\ DOMAIN d = DOMAIN kept \cup {p}
        /\ d[p].older = place
        /\ \A k \in DOMAIN kept : k # p => d[k] = kept[k]
    BY <2>5 DEF Override
  <2>7. IsFiniteSet(DOMAIN d) /\ Cardinality(DOMAIN d) <= CacheSize
    <3>1. IsFiniteSet(DOMAIN kept) /\ Cardinality(DOMAIN kept) \in Nat /\ CacheSize \in Nat
      BY <2>2, FS_CardinalityType, CacheAssumption DEF Ordered
    <3>2. PICK D : D = DOMAIN kept
      OBVIOUS
    <3>3. /\ IsFiniteSet(D \cup {p})
          /\ Cardinality(D \cup {p}) = IF p \in D THEN Cardinality(D) ELSE Cardinality(D) + 1
      BY <3>1, <3>2, FS_AddElement
    <3> QED
      BY <2>2, <2>6, <3>1, <3>2, <3>3
  <2>8. CASE p \in DOMAIN kept
    <3>1. place = kept[p].older /\ DOMAIN d = DOMAIN kept
          /\ \A k \in DOMAIN kept : d[k].older = kept[k].older
      BY <2>3, <2>6, <2>8
    <3>2. Ordered(d)
      BY <2>2, <2>7, <3>1 DEF Ordered
    <3> QED
      BY <2>4, <2>7, <3>2
  <2>9. CASE p \notin DOMAIN kept
    <3>1. /\ place = DOMAIN kept /\ d[p].older = DOMAIN kept
          /\ \A k \in DOMAIN kept : d[k].older = kept[k].older /\ k # p
      BY <2>3, <2>6, <2>9
    <3>2. \A k \in DOMAIN kept : kept[k].older \subseteq DOMAIN kept \ {k}
      BY <2>2 DEF Ordered
    <3>3. \A k, l \in DOMAIN d : k # l => (k \in d[l].older <=> l \notin d[k].older)
      <4>1. \A k, l \in DOMAIN kept : k # l => (k \in d[l].older <=> l \notin d[k].older)
        BY <2>2, <3>1 DEF Ordered
      <4>2. \A k \in DOMAIN kept : k \in d[p].older /\ p \notin d[k].older
        BY <3>1, <3>2, <2>9
      <4> QED
        BY <2>6, <4>1, <4>2
    <3>4. \A k \in DOMAIN d : d[k].older \subseteq DOMAIN d \ {k}
      BY <2>6, <2>9, <3>1, <3>2
    <3>5. \A k \in DOMAIN d : \A l \in d[k].older : d[l].older \subseteq d[k].older
      <4>1. ASSUME NEW k \in DOMAIN kept, NEW l \in d[k].older
            PROVE  d[l].older \subseteq d[k].older
        BY <2>2, <3>1, <3>2 DEF Ordered
      <4>2. ASSUME NEW l \in d[p].older
            PROVE  d[l].older \subseteq d[p].older
        BY <3>1, <3>2
      <4> QED
        BY <2>6, <4>1, <4>2
    <3> QED
      BY <2>4, <2>7, <3>3, <3>4, <3>5 DEF Ordered
  <2> QED
    BY <2>8, <2>9
<1> QED
  BY <1>1, <1>2

LEMMA InvalidateOrdered ==
    ASSUME OInv, NEW p, Invalidate(p)
    PROVE  OInv'
<1>1. PICK S : S = Invalidated(p)
  OBVIOUS
<1>2. cache' = Drop(cache, S) /\ filled' = filled \ S /\ misled' = misled \ S
  BY <1>1 DEF Invalidate
<1>3. /\ Ordered(Drop(cache, S))
      /\ DOMAIN Drop(cache, S) = DOMAIN cache \ S
      /\ Cardinality(DOMAIN Drop(cache, S)) <= Cardinality(DOMAIN cache)
  BY DropOrdered DEF OInv
<1>4. /\ Ordered(cache') /\ DOMAIN cache' = DOMAIN cache \ S
      /\ Cardinality(DOMAIN cache') <= Cardinality(DOMAIN cache)
  BY <1>2, <1>3
<1>5. Cardinality(DOMAIN cache) \in Nat /\ Cardinality(DOMAIN cache') \in Nat /\ CacheSize \in Nat
  BY <1>4, CacheAssumption, FS_CardinalityType DEF Ordered, OInv
<1> QED
  BY <1>2, <1>4, <1>5 DEF OInv

LEMMA GetDocumentOrdered ==
    ASSUME OInv, NEW p, GetDocument(p)
    PROVE  OInv'
<1>1. PICK rev, text : rev = reading.rev /\ text = Extract(p)
  OBVIOUS
<1>2. /\ cache' = CacheSet(cache, p, rev, text)
      /\ filled' = IF InTransaction THEN (filled \cup {p}) \cap DOMAIN cache' ELSE {}
      /\ misled' = (misled \ {p}) \cap DOMAIN cache'
  BY <1>1 DEF GetDocument
<1>3. Ordered(cache') /\ Cardinality(DOMAIN cache') <= CacheSize
  BY <1>2, CacheSetOrdered DEF OInv
<1>4. filled' \subseteq DOMAIN cache' /\ misled' \subseteq DOMAIN cache'
  BY <1>2
<1> QED
  BY <1>3, <1>4 DEF OInv

LEMMA OInvNext == OInv /\ [CacheNext]_<<vars, cacheVars>> => OInv'
<1> SUFFICES ASSUME OInv, [CacheNext]_<<vars, cacheVars>> PROVE OInv'
  OBVIOUS
<1>1. ASSUME UNCHANGED cache, filled' \in {filled, {}},
             misled' \in {misled, misled \cup filled}
      PROVE  OInv'
  BY <1>1 DEF OInv
<1>2. CASE UNCHANGED <<vars, cacheVars>>
  BY <1>1, <1>2 DEF cacheVars
<1>3. CASE \E p \in DocPaths : GetHit(p) \/ GetRevision(p)
  BY <1>1, <1>3 DEF GetHit, GetRevision
<1>4. CASE \E p \in DocPaths : GetDocument(p)
  BY <1>4, GetDocumentOrdered
<1>5. CASE \E p \in DocPaths :
              \/ StoreRemove(p)
              \/ \E t \in Texts, limit \in Limits : StoreSet(p, t, limit) \/ StoreImport(p, t, limit)
              \/ \E u \in Updates : StoreUpdate(p, u)
  <2>1. \/ \E p \in DocPaths : Invalidate(p)
        \/ UNCHANGED <<cache, filled, misled>>
    BY <1>5 DEF StoreRemove, StoreSet, StoreImport, StoreUpdate
  <2> QED
    BY <1>1, <2>1, InvalidateOrdered
<1>6. CASE \E p \in DocPaths : OtherWrite(p)
  <2>1. PICK p \in DocPaths : OtherWrite(p)
    BY <1>6
  <2>2. UNCHANGED <<cache, filled>> /\ misled' = misled \cup (Ancestors(p) \cap DOMAIN cache)
    BY <2>1 DEF OtherWrite
  <2> QED
    BY <2>2 DEF OInv
<1>7. CASE Begin \/ Commit \/ Rollback
  BY <1>1, <1>7 DEF Begin, Commit, Rollback
<1> QED
  BY <1>2, <1>3, <1>4, <1>5, <1>6, <1>7 DEF CacheNext

\* For any size of the cache and any keys: it never holds more entries than its
\* limit, not even while one replaces another, their order of insertion stays one
\* order, so that there is an oldest to evict, and what is known of misled entries
\* is known of entries that are there (cacheSet of libsql-store.ts).
THEOREM CacheStaysBounded == CacheSpec => []CacheTypeOK
<1>1. CacheInit => OInv
  <2> SUFFICES ASSUME cache = Nothing, filled = {}, misled = {} PROVE OInv
    BY DEF CacheInit
  <2>1. DOMAIN cache = {}
    BY DEF Nothing
  <2>2. IsFiniteSet(DOMAIN cache) /\ Cardinality(DOMAIN cache) = 0
    BY <2>1, FS_EmptySet
  <2> QED
    BY <2>1, <2>2, CacheAssumption DEF OInv, Ordered
<1>2. OInv => CacheTypeOK
  BY DEF OInv, Ordered, CacheTypeOK
<1> QED
  BY <1>1, <1>2, OInvNext, PTL DEF CacheSpec
=============================================================================
