# A specification of f-base's hierarchical engine

f-base stores JSON documents in SQLite. A C extension flattens a document into
rows, one per node, merges updates into the rows and rebuilds the JSON; a
TypeScript store calls it and caches what it read. This directory holds a TLA+
model of that system, the TLC configurations that check it on small instances,
and proofs checked by TLAPS.

Paths below are relative to the repository: C files are in
`hierarchical_engine/src/`, TypeScript files in `src/`.

## The system

| Component | State | Operations | Talks to |
|---|---|---|---|
| services (`he_services.c`) | none of its own | `set_json`, `update_json`, `extract_json`, `export_csv`, `import_csv` | mapper, repo, CSV |
| mapper (`he_mapper.c`) | none | flatten a value into rows, deep merge | repo |
| repo (`he_repo.c`) | the tables `{t}_nodes` and `{t}_doc_hashes` | insert, range delete, exact delete, ensure the path to a document, revision number, hash get, set, clear, BEGIN, COMMIT | SQLite |
| statement cache (`he_stmt_cache.c`) | 15 prepared statements per table, up to 16 tables, for the life of one run of the outer SELECT | get, create, destroy | SQLite auxdata |
| query engine (`he_query.c`) | none | `query_json`: filters, wildcards, order, skip, take, projection | the scans of the repo |
| CSV (`he_csv.c`) | none | parse, sort, rows to tree | services |
| utilities (`he_utils.c`) | none | paths, wildcards, inline test, SHA-256, UUID, projection | all |
| SQL functions (`he_extension.c`) | none | argument handling, `register_table` | services |
| store (`libsql-store.ts`) | the read cache | `set`, `get`, `update`, `query`, `searchByPath`, `import`, `export`, `transaction` | SQL functions |
| engine (`libsql-engine.ts`) | the open database | `start`, `checkpoint`, `stop` | libSQL |

A row whose path ends in `/` is a container; its `text_value` is a JSON object
with the entries that were small enough to be inlined. Any other row is a
primitive. A set deletes the range of rows below its path, creates the
containers that lead to it, inserts the root row and the flattened value, and
records a hash of the text with the revision of the root row. The next set of
the same text is skipped while the root row has that revision. An update whose
entries are all primitives goes to the rows directly (the leaf path); any other
reads the document, merges and writes it back (the full path). The store keeps
the JSON that a get returned under the revision of the root row.

What is hard to get right, and what the model is about:

* three mechanisms decide from the revision of one row whether a whole document
  is what it was: the dedup, the read cache and the joined hash lookup. Writes
  below the document do not touch that row;
* a value has two places to be stored in (inlined in its container, or in a row
  of its own), and four writers (flatten, leaf update, full update, import) that
  must agree on which one it is;
* a write is a sequence of statements whose results nobody looks at, inside a
  transaction whose BEGIN nobody looks at, in a database that several
  processes may open;
* a transaction of the store may roll the tables back, but not the cache;
* a query has three evaluators, chosen by the shape of its pattern and by
  whether it has an order, and they must agree;
* rows become a document by a stack that is popped as they go by, which is right
  only for rows in the order of bytes with all their containers; filters and
  imports to another path touch both;
* a projection decides per key from the first of several paths, and guesses
  from the keys of an object whether it is a document or a collection.

`PROJECT.json` lists every hazard with its line and the properties aimed at it.

## The modules

| Module | What it models |
|---|---|
| `HeDoc` | JSON texts, flattening and deep merge as operators (`he_mapper.c`, the inline test of `he_utils.c`) |
| `HeTree` | abstract: what the engine promises, a database that is one JSON value |
| `HeEngine` | the two tables and the calls on them, each call one action; implements `HeTree` |
| `HeReadCache` | the store over `HeEngine`: the cache and `transaction()` |
| `HeRows` | the rows of one document without inner structure, shared by the next two |
| `HeAtomic` | abstract: what clients that write one document at the same time are promised |
| `HeWriteTx` | the write calls taken apart into statements, run by several connections on one document; implements `HeAtomic` |
| `HeQuery` | `query_json`: three evaluators over the tables of `HeEngine`, filters, order, pages |
| `HeTransfer` | rows out and in: `export_csv`, `searchByPath`, `import_csv` with a filter, the stack that makes a document of rows |
| `HeCsv` | the text of a CSV, printed and read |
| `HeProjection` | `project_json`: fields included and excluded |
| `MCHeEngine`, `MCHeReadCache`, `MCHeWriteTx`, `MCHeQuery` | the instances for TLC; `MCHeQuery` is that of `HeQuery`, `HeTransfer`, `HeCsv` and `HeProjection` |
| `HeEngineProofs`, `HeTreeProofs`, `HeCacheProofs`, `HeQueryProofs`, `HeTransferProofs`, `HeEvaluatorProofs`, `HeProjectionProofs`, `HeWriteTxProofs` | theorems and their proofs |

`HeEngine` is the middle: `HeReadCache`, `HeQuery`, `HeTransfer` and `HeProjection`
extend it, so that what they say is said of the states that the writing calls
leave.

### HeDoc and HeEngine

A path is a sequence of keys. A text, which is a parsed JSON value, is a
function from the relative paths of its nodes to a scalar, null or the marker of
an object. Arrays are stored as objects with fresh keys
(`he_mapper_flatten_array_as_object`), so a text stands for them too.

| State | In the code |
|---|---|
| `containers[p].inline`, `.rev`, `.nr` | the row of path `p/`: `text_value`, `revision`, `revision_nr` |
| `primitives[p].val`, `.rev`, `.nr` | the row of path `p` |
| `hashes[p]` | the row of `{t}_doc_hashes`; instead of the SHA-256 the text and the limit that were hashed |
| `clock` | the source of fresh UUIDs |
| `call` | a ghost: the last call, for the action properties |

| Action | In the code |
|---|---|
| `SetJson` | `he_set_json` with a value, the dedup included |
| `RemoveJson` | `he_set_json` and `he_update_json` with null |
| `UpdateLeaf`, `UpdateFull`, `UpdateWildcard` | the three paths of `he_update_json` |
| `ImportCsv` | `he_import_csv` of the rows that `he_export_csv` gives for a text |
| `Extract` (an operator) | `he_extract_json` |

Named abstractions:

* a text stands for one of its spellings, so that a set of the same value
  spelled otherwise, which the code writes again, is a dedup here;
* timestamps, the types of scalars and escaping are left out: no property tells
  them apart;
* `Extract` keeps one value where the code prints a key twice (a row and a
  container or an inlined entry of one name): the last one printed, which is
  what its reader keeps. `UpdateFull` and `UpdateWildcard` are not taken on such
  a document (`Unambiguous`), because there the order of keys in the merge
  matters;
* `UpdateLeaf` is not taken for the path `/`, where the code composes `//key`;
* paths are sequences of keys and the range of a delete is the set of the paths
  below one, so that the bytes of its bounds (`he_repo.c:134`) are not modelled;
* keys contain no slash, are not empty and fit the buffers of the code;
* an import brings rows that an export gave, without a row filter; `HeTransfer`
  has the filter.

The definitions were compared with the code by running random sequences of
calls against a build of the extension: the rows, their revision numbers and
the extracted JSON agreed.

### HeTree

`tree` is the JSON value that the whole database stands for, and a call grafts a
text at its path. The refinement mapping takes `Extract(Root)` for it. The
module is written as a promise, so its exceptions are the interesting part:

* a set may be skipped at a path of `spoilt`, where something was written below
  since a text was recorded (mapped to the paths whose hash counts and lies), or
  where its text is there already, and then what was hidden stays hidden;
* a removal deletes containers only: it leaves a scalar in place, and uncovers
  the value over which an object came to stand (`hidden`, mapped to containers
  that stand over a primitive row or an inlined entry of the same name);
* a leaf update and an import may lose childless entries of the document's root,
  the ones that were inlined there.

Nothing else is allowed: no entry of a sibling moves, no old value comes back
and no write is skipped elsewhere.

### HeReadCache

`cache` is the `Map`: for each key the revision, the JSON and, for the order of
insertion, the keys inserted `older` than it; the oldest is the one with none. `reading` stands between the two SELECTs of a get that missed; another
writer may come there. `before` holds the tables at BEGIN for the rollback.
`filled` and `misled` are ghosts that say exactly when an entry may lie: it was
filled in a transaction that was rolled back since, or another writer wrote
below its path. The other writer (`OtherWrite`) has all the calls of the engine:
sets, removals, updates by each of the three ways, and imports. Projections work
on a copy of the cached JSON and are left out; so are `cacheObjects`, nested
transactions and writes by others during a transaction of this store.

### HeWriteTx

Each connection has a program counter (`pc`), its call (`job`), and what it
holds a snapshot of (`pin`). `db` is what readers see, `work` what the writer
sees. The actions are the statements in the order of the code: lookup and
start, BEGIN, delete, clear of the hash, ensure, root row, one row after the
other, hash, COMMIT, return; and `Crash`, after which SQLite rolls back.

SQLite is external and modelled from how the code uses it: one writer; a commit
leaves the snapshots of other connections out of date; BEGIN IMMEDIATE and
statements on their own are refused while another connection writes, after
`busy_timeout` or, if the connection is itself reading, at once; and they are
refused when the connection's snapshot is out of date. A connection reads
while one of its SELECTs has given a row and is not reset: the code leaves the
lookup of the hash (`he_repo.c:265`) and the check of the path
(`he_repo.c:167`, `198`) so. These statements are finalized when the outer
SELECT ends, because SQLite drops the auxdata that owns them then: a pin ends
with its call. Refusal is a choice the model always has while another
connection writes, since nothing in the code bounds how long that takes.

Abstractions: one document, entries without inner structure; the containers
above exist; calls run outside `transaction()`; a set that the dedup skips
takes no step.

### HeAtomic

A call is invoked, takes effect in one step, once, and returns; a client that
dies leaves its call done or not begun. `doc` is mapped to `db.rows`, `call[c]`
to `Asks(c)`, which reads the program counter (a call has its effect at its
COMMIT; an update with null, which has no transaction, at its DELETE), and
`broken` to `exposed`. Three things are weaker than the names of the calls say,
and the abstract module says so: a full update fixes what it will write when it
is invoked, and is a set of a text that may be out of date; an update with null
may be ignored, because its statements are refused without anybody looking; and
nothing is promised once a BEGIN was refused.

### HeQuery, HeTransfer, HeCsv and HeProjection

A query only reads, so the module adds no variable: its properties are
invariants over the tables that the calls of `HeEngine` leave behind.

| Operator | In `he_query.c` |
|---|---|
| `Execute` | the dispatch of `he_query_execute` |
| `Direct` | rebuild the document, take its children in the order of their keys |
| `Stream` (`RowsBelow`, `Scan`, `Scanned`, `Close`) | `do_query_single_tail_stream`: one scan of the rows below, a child closed when the next begins, an early exit |
| `General` (`RowsThatMatch`, `WildcardMatches`, `CapturePlaces`) | `do_query_wildcard`: the rows that match, each extracted by itself |
| `EvaluateFilter`, `EvaluateVarFilter` | the filters on fields and on captured segments |
| `Evaluated` (`Passing`, `Sorted`, `Page`) | filter, sort, skip and take, as `Direct` and `General` end |
| `After`, `Inserted` | `compare_entries`, the insertion step of the sort |
| `RowBefore` | the order of `PRIMARY KEY path`: bytes, so that `k-/` stands before `k/` |

Abstractions: of a string only equality and order are kept, `like` and `strstr`
are relations; scalars and arrays as documents, JSON nulls in rows
and limits of buffers are left out; the sort is the insertion step, which the
code takes for up to eight entries.

The other three modules add no variable either.

| Operator | In the code |
|---|---|
| `ExportRows`, `SearchByPath`, `PathMatchesGlob` | the scan of `he_export_csv`; `searchByPath` and `pathMatchesGlob` of the store |
| `Stacked` (`Pushed`, `Parent`, `Popped`, `Put`) | the loop that `extract_json` and `he_csv_rows_to_tree` share |
| `Kept` (`ParseProjection`, `MatchesAny`), `RowsToTree`, `NewPath`, `Imported`, `ReadBack` | `he_import_csv`: filter, sort, tree to hash, the new paths, the inserts, and a read after them |
| `Columns`, `Escape`, `Printed`; `Lines`, `Fields`, `Parsed` | `he_csv.c`: printing, and the two splitters |
| `ParseProjection`, `Kind`, `Descend`, `Field`, `Reached`, `Project` | `he_projection_parse`, the path tests and `he_project_value` |

`HeTransfer` takes a row for its path, its slash and the text it spells, and
leaves out the limits of 2048 open containers, 255 bytes of a key or a pattern and
64 segments of a pattern. It extends `HeProjection` too, because an import reads its
filter as a projection: two lists, of which what comes after the first
`MaxProjKeys` (32 in the code) is dropped. The search has no such limit. `HeCsv` takes a text for
a sequence of characters of which four are special, and gives keys and values any texts
(`Spellings`), so that what JSON would escape is tried too. `HeProjection` assumes that
keys hold no dot and paths have less than 255 bytes.

Transcriptions of these modules were compared with a build of the extension on
random documents: some 35,000 queries, 20,000 projections and 13,000 filtered
imports agreed.

## The runs

| Run | Expect | What it shows |
|---|---|---|
| `engine` | pass | the properties of `HeEngine`, below, and that it implements `HeTree` |
| `dedup_stale` | violation | a set of `/a`, then a set of `/a/b`: the hash of `/a` still counts, and the first set again would be skipped |
| `leaf_inline` | violation | a leaf update drops the entries inlined in the root row |
| `import_inline` | violation | an import drops the entries inlined in the exported root row |
| `read_cache` | pass | a hit tells the truth unless its entry is `misled` |
| `cache_rollback` | violation | a rollback leaves a cached document that was never committed |
| `write_tx` | pass | what two connections can rely on as long as no BEGIN is refused, and that the calls implement `HeAtomic`; the lock is always released |
| `bare_writes` | violation | after a refused BEGIN rows of two writes stand together |
| `lost_update` | violation | a full update writes back what it read before another commit |
| `refused_at_once` | violation | a BEGIN is refused without waiting |
| `query` | pass | the evaluators agree, pages tile, orders order, wildcards mean their instances; exports, filtered imports and CSV texts carry what they should; projections show what they should |
| `stream_parity` | violation | `/p/*` without order omits a child inlined in the row of `p` |

Each violation contradicts a sentence of the repository that `PROJECT.json`
quotes under `findings`.

What holds, in `engine`:

* `AncestorClosed`: no row without the containers that lead to it;
* `WritesReadBack`: what a set or full update flattened is what extract rebuilds;
* `LeafUpdateMerges`: the leaf path, which never reads the document, does what
  reading, merging and writing back would do, if the root row holds no inlined
  entry. `leaf_inline` shows that the condition is needed;
* `OnlyAddressedPathsChange`: siblings of the addressed path keep everything;
* `RevisionTracksContent`: a document only changes with a new revision of its
  root row, unless the call named a path strictly below it;
* `DedupFailsOnlyFromBelow`: a hash that counts tells the truth but in two
  cases, a call from strictly below, or an import with inlined root entries;
  nothing else, in particular no removal and re-creation of a parent, brings
  an old hash back to count. `dedup_stale` and `import_inline` are the two cases;
* `CallsEditOneTree`: the engine implements `HeTree`. The other properties each
  look at one writer or one mechanism; this one says that all of them together,
  in any order, edit one JSON value but for the exceptions above.

In `write_tx`: a reader sees all the rows of a call or none
(`WholeUnlessExposed`), a hash that counts is that of what is stored
(`HashUnlessExposed`), an update keeps the entries it does not name unless it
was overtaken between its read and its BEGIN (`UpdateKeepsOthers`), and the
write lock never stays taken (`LockIsReleased`). `CallsImplementAtomic`: the
statements implement the calls of `HeAtomic`.

In `query`, on every document that the writing calls leave:

* `StreamIsDirect`: the scan with its early exit gives what rebuilding the
  document and then filtering and cutting gives, if every child has a row of
  its own and no two keys are in another order as rows. `stream_parity` shows
  that the first condition is needed. The root is left out, since `/*` is not
  scanned but answered like any other pattern;
* `GeneralIsStream`: so does the extraction of each matching path, if no child
  is a primitive (the general evaluation passes those over);
* `PagesTile`: successive pages give every result once, for each way of
  answering;
* `OrderedWhenComparable`: a result is sorted by its keys in turn, and ties
  keep the order without keys. It asks that the values compare: with missing
  values the comparator is not transitive and there is no order to state;
* `LevelsAddUp`, `BoundVariables`: a pattern means its instances, level by
  level, and a filter on a variable or on `{key}` binds its own segment;
* `ScanSpellsExtract`: the stack gives what `Extract` of `HeEngine` says, in
  whatever state the tables are: a key that begins another (`k-` between the rows
  of `k/`), keys that are claimed twice;
* `ImportReadsAsHashed`: an import inserts the rows at new paths after it hashed
  their tree at the old ones, and both make the same document, if a container
  comes first that leads to all the rows; rows may come in any order and may
  have lost the containers between;
* `FilteredImportRestores`: if they have not, each row kept is found at its place
  and nothing of the others;
* `SearchShowsWhatImportKeeps`: under any filter an import keeps what the search
  shows under the patterns that the import understands (`Understood`). So the two
  matchers, one in C and one in TypeScript, agree on these, and what else they do is
  said as well: an import drops what comes after the first `MaxProjKeys` patterns, takes
  a variable for a star, finds nothing by a pattern with `**` or by `/`, and takes no row
  at all if it has includes of which it understands none;
* `CsvCarriesRows`: no text of a key or value makes a row swallow or split another;
* `ExcludeWins`, `NamedFieldsExactly`: what is excluded is never shown, at any depth
  and past whatever passes for a collection, and where all named fields exist
  exactly they are shown. Both are about any lists, but about the paths of them that the
  code heeds (`Decisive`): those that find room, without one that comes after a path it
  begins. That the others change nothing is part of `NamedFieldsExactly`.

### Divergences seen without a run of their own

What some properties of `query` except or describe is not what the repository
says: the code, built and called, does this. Each is a hazard in `PROJECT.json`.

* Of the paths about one key the first decides, so that exclude `["a.b", "a"]`
  shows all of `a` but `b` (`he_utils.c:842`), although
  `projection.libsql.test.ts:9` says that exclude always wins; the 33rd path
  of a list is dropped (`he_utils.c:945`). `Decisive` leaves both out, and
  `NamedFieldsExactly` says that they count for nothing.
* Include `["a.z"]` of a document whose `a` has no `z` shows the scalars of `a`: it
  passes for a collection (`he_utils.c:858`).
* `**` is an ordinary segment to the filter of `import_csv` (`he_utils.c:293`),
  although `libsql-store.ts:82`, `519-526` and `projection.libsql.test.ts:13-14` promise
  otherwise: exclude `["/users/**"]` keeps all, include `["/users/**"]` keeps nothing.
  `SearchShowsWhatImportKeeps` says so (`Understood`).
* Include `['/users/*']`, the example of `libsql-store.ts:519`, does not keep the
  root row; the first child becomes the base of the new paths and the
  containers beside it are lost (`he_services.c:832`).
* `set(path, null)` leaves the primitive row of the path (`he_services.c:121`),
  although `libsql-store.ts:258` says that null removes.

### Bounds

* `engine`: two keys; three document paths, one below and one beside another,
  so that every relation of two paths occurs; four texts (all inlined, part
  inlined, nested, an empty object inside), three updates (leaf, leaf with null, nested with null), the
  limits 0 and 1. `MaxWrites = 3` bounds the calls that draw a revision;
  removals are not bounded. The stories of the findings take two or three
  writes. About 82,000 states.
* `read_cache`: three paths, room for two entries, so that eviction, hits and
  misses of several keys occur; two writes, as a cached document lies after one
  write below it. The checked run has 658,000 states.
* `write_tx`: two connections, two entries, two values, three calls, so that
  one call may run between and after the steps of another. About 610,000
  states. Deadlock is not checked there: a client need not call again.

* `query`: three keys, one of which is another and then a byte below the
  slash; two document paths, so that patterns have two levels; three texts with
  numbers, strings, nested, empty and inlined children; two writing calls,
  which leave the documents that updates change; seven queries, which filter,
  order by one and by two keys, skip and take; six filters: none, one with a
  variable and `/` that takes containers away from under rows, one with include and
  exclude that meet and a fourth pattern for which `MaxProjKeys = 3` leaves no room, one
  that keeps a row below a container it drops, two with `**`, in an exclude and as the
  only include; five projections, among them lists in each order, one that is longer
  than `MaxProjKeys` and ones that meet a collection; two spellings, which put every
  special character at the end of a path, inside one and into values, and spell
  one value by nothing. 933 states, each of which evaluates some hundred
  queries, imports and projections.

### Fairness

Only `LockIsReleased` needs fairness: weak fairness of the steps of each
connection (`FairSpec`). A call is synchronous C code without a wait but
SQLite's, which is bounded by `busy_timeout`, so a begun call goes on. Nothing
is assumed of the start of calls, nor of crashes.

## The proofs

Of the engine TLAPS proves, for any keys, values, texts, paths and limits, under
the assumptions of `HeDoc` and `HeEngine` (markers are not scalars, sizes are
naturals, clients pass finite texts whose root is an object):

* `EngineTypeCorrect`: `Spec => []TypeOK`;
* `EngineNoOrphans`: `Spec => []AncestorClosed`;
* `EditsStayBelow`: `Spec => OnlyAddressedPathsChange`;
* `RevisionsTellEdits`: `Spec => RevisionTracksContent`;
* `WritesAreReadBack`: `Spec => WritesReadBack`;
* `DedupSpoiltOnlyFromBelow`: `Spec => DedupFailsOnlyFromBelow`;
* `LeavesAreMerged`: `Spec => LeafUpdateMerges`;
* `EngineEditsOneTree`: `Spec => CallsEditOneTree`, the refinement of `HeTree`.

The first two rest on the invariant `IInv == TypeOK /\ AncestorClosed`. Neither half is inductive
alone: that a removal or a rewrite leaves no orphan needs that row paths are
sequences of keys, and that a full update records a text needs that the rows
it read form a tree. The argument runs over the operators: a delete takes a
set of paths that is closed downwards (`RestrictChar`, `OutsideChar`); ensuring
adds all ancestors (`EnsureChar`); the rows of a text are closed below its path
because every ancestor of a dedicated node is itself a dedicated object
(`FlattenClosed`, `TextRowsClosed`); an insert of a closed set below an ensured
path leaves the table closed (`InsertTextClosed`); what extract rebuilds from a
closed table is a text (`ExtractIsText`), and a merge of texts is a text
(`MergeIsText`). `IInvNext` has one step per action.

The next two (also in `HeEngineProofs`) speak of extract, which reads three places for one
node: a container row, a primitive row and an inlined entry. `SameAt` says that a
step leaves all three, and `TextSame` that tables which are the same below a path
spell the same text there. `Edit(p)` is what every call at `p` keeps: `Frame`, no
row apart from `p` is touched but that empty containers may appear on the way to
it; `Dated`, each container is as it was or has the revision of this call; `Below`, a
container at or below `p` that has not that revision stands over what it stood
over. One lemma per writer shows `Edit(p)` (`WriteTextEdit`, `ImportEdit`,
`RemoveEdit`, `LeafEdit`), `NextEdits` puts them together, and both theorems follow
from it alone. For the revisions the invariant is `EInv`, which adds `RevsDrawn`: no
row has a revision that was not drawn yet. Without it a row written now could get
the revision an older row has already, and the change would not show.

The two after these (`HeTreeProofs`) need that extract is the inverse of flatten:
tables that hold the rows of a text below `p` and nothing else there (`Holds`) are
read as that text without its nulls (`HeldIsRead`). What a set or an update
deletes and inserts gives such tables (`WrittenIsHeld`), and so does an import
unless the place of the root row hid inlined entries (`ImportReadsBack`).
`DedupSpoiltOnlyFromBelow` then distinguishes whether the call recorded the hash of
`p`: if so, what was recorded is what is read (or the import is the case the property
names); if not, and the hash counts after the call, the root row has a revision drawn
before it (`HashesDrawn`, the second conjunct of `RInv`), so it was not written by
the call, the hash counted before as well, and by `SameRevisionSameText` the
document is the same. Revisions, deletes, flattening and hashes of every call meet in
this one theorem.

`LeavesAreMerged` (`HeTreeProofs` too) compares two descriptions of the same text node by
node: `LeafRows` says which rows there are after the leaf path, `MergeOfLeaves` what
the merge of a text with leaves holds; `LeafMerges` goes through the nodes that an
entry of the update replaces, erases or leaves alone. The merge forgets nulls, extract
does not, so it also has to be known that no row and no inlined entry is a null: `NInv`
adds `NoNulls` to `IInv`, which every writer keeps.

`EngineEditsOneTree`, at the end of `HeTreeProofs`, puts all of this together: each call, whatever
rows it deletes, replaces or leaves, is one step of `HeTree`. Tables are seen as a
tree by their nodes (`TreeNodes`), so that extracting `p` is taking the tree at `p`
(`AtIsText`), and a step at `p` that keeps to `Frame` is a text grafted there
(`StepGrafts`). Three ghosts of the mapping have to move with it: `hidden` by what
stands over what after the step (`StepHides`), `spoilt` by `SameRevisionSameText` for
every path but `p` (`OthersSpoilt`). Then there is one lemma per call. A text that is held is
a text written (`HeldIsWritten`); an import is the write of a smaller text, and that
less of a text flattens to less of its rows is `LessFlattens`; a removal has three
outcomes by what the container stood over (`RemoveEditsTree`); the leaf path has to lose
nothing but childless root entries (`LeafEditsTree`). The invariant is `TInv`, `RInv`
with `NoNulls` and that no scalar stands at `/`, where the tree would not show it. The
proof also corrected the abstract module: a set whose text is there already is skipped
without being a write of the same text, because a write ends what is hidden below.

Of the store TLAPS proves, for any size of the cache, under the assumptions of
`HeEngine` and `CacheSize \in Nat`:

* `HitsAreTrue`: `CacheSpec => []HitsTellTheTruth`;
* `CacheStaysBounded`: `CacheSpec => []CacheTypeOK`.

A hit compares revisions and nothing else. `CInv` says why that is enough: the revision
of every entry was drawn (`EntriesDrawn`), so no later write can draw it again; and an
entry outside `misled` whose revision is that of the row tells what the row and what is
below it spell (`EntriesTell`). A call of the engine keeps this for entries that do not
lead to its path, because by `Edit` a row that keeps its revision keeps its text
(`EditKeepsTelling`), and the others are dropped (`WriteKeeps`). A get that missed holds
a revision from before a possible write of another, which is still a drawn one
(`ReadingDrawn`). ROLLBACK brings back tables the entries have not been compared with
since BEGIN, so `BeforeTells` keeps the same of those for the entries not `filled`
since. The step is one lemma per method of the store, over `NextEdits` of the engine.

The limit holds because an insert into a full cache first finds an oldest entry to
drop. That there is one is not in the code: it follows from `OInv`, in which the `older`
sets of the entries are a strict order of a finite `Map`. A set of entries with the
fewest older ones has no older one itself (`OldestExists`: strict inclusion of finite
sets is well-founded). Dropping, evicting and inserting keep the order
(`DropOrdered`, `EvictedHasRoom`, `CacheSetOrdered`).

Of the queries TLAPS proves, for any tables that calls leave, filters, orders and pages,
under the assumptions of `HeEngine` and `HeQuery` (`QueryAssumption`: wildcards are no keys,
skip and take are naturals, an order is a list of paths with a direction, numbers and
strings have a rank each, as keys have, no two of which `strcmp` takes for equal;
`OrderAssumption`: bytes order the keys strictly whatever ends them):

* `FiltersBindVariables`: `Spec => []BoundVariables`;
* `PagesFitTogether`: `Spec => []PagesTile`;
* `ScanIsDirect`: `Spec => []StreamIsDirect`;
* `PatternsAgree`: `Spec => []GeneralIsStream`;
* `OrdersSort`: `Spec => []OrderedWhenComparable`;
* `LevelsAgree`: `Spec => []LevelsAddUp`.

The first compares the rows that two patterns leave (`SameRowsSameAnswer`). The second has
three ways to go. `Direct` and `General` take a part of one list, of which one must know
that it is a list: the tables are finite (`FInv`, kept by every call because JSON
texts are finite), so the rows have a number; filtering and inserting give sequences
(`PassingIsList`, `InsertedIsList`, `SortedIsList`). `Stream` never has that list, it stops
when the page is full. `Follows` relates its states to those of the scan without skip and
take: as long as fewer than skip and take children have passed, both have the same child open and
the page holds what the other holds past skip; from then on the page is done, and what it
holds stays the same part of a longer list (`CloseFollows`, `CloseLeavesPage`,
`ScannedFollows`). Recursive functions are reasoned about by the least place where a
claim fails (`LeastNat`, `RecursionExists`, `RecursionStays`), since the prover cannot use the
induction theorems of the library.

Of transfers TLAPS proves, for any tables that calls leave, any filters and any texts of
keys and values, under the assumptions of `HeQuery`, `HeTransfer` (`**` is no key, variable
or star, and filters are two sequences of patterns), `HeProjection` (`MaxProjKeys` is a
natural) and `HeCsv` (`CsvAssumption`: texts are sequences of characters, among them the
four special ones and those the format prints itself; the header has no quote and no
newline):

* `SearchAgreesWithImport`: `Spec => []SearchShowsWhatImportKeeps`;
* `ScanReadsDocument`: `Spec => []ScanSpellsExtract`;
* `ImportsAreHashedAsRead`: `Spec => []ImportReadsAsHashed`;
* `FilteredImportsRestore`: `Spec => []FilteredImportRestores`;
* `CsvIsRead`: `Spec => []CsvCarriesRows`.

The first compares two ways to match. The import goes along the pattern segment by segment,
the search keeps the set of lengths that the rest may have; for a pattern without `**`
both are equality at each place, where a variable of the one is a star of the other
(`PatternUnderstood`). In a pattern with `**` the import asks for a key of that name, and there
is none. So what a list says to the import is what its understood patterns say to the search
(`ListUnderstood`), after the cut of the parser (`CutList`), which may leave an include that
understands nothing but is there.

The second is about a loop over rows in the order of bytes, and first needs that this
is an order: `RowBefore` is strict and total, so a finite set of rows has one
list (`RowsListed` in `HeQueryProofs`), and what is below a container stands together in
it (`BelowIsContiguous`), although keys that begin others come between in other
orders. The invariant of the loop is `StackOK`: the stack holds just the containers so far
that lead to the current row. By `AncestorClosed` the parent of the next row is one of
them, the nearest (`ParentOnStack`). What the tree has got then is said without a stack: a
node is told by the last row that says something of it (`SaidLast`, `TreeOK`), and at the
end the tree is that of all the rows (`StackedTells`). Where two rows claim one key the
container comes last, because a slash ends it, which is the one that `Extract` takes
(`ExportIsScan`).

The other two follow rows to another path. A filter leaves rows in their order
(`ThoseListed`), and rows that are moved together keep it (`MovedOrder`), although
`RowBefore` looks at every segment. No row arrives in the place of another
(`PlacesApart`), so the import inserts just the rows moved, under an empty root
(`ImportedIs`); and as two lists in order of the same rows are one (`ListedOnce`),
the scan of what was imported is the list that was hashed, moved. The two
stacks over them go on side by side: their entries lead to the same rows and are put
at the same place of the tree (`Shadow`, `Twin`, `TwinGoesOn`), whether or not the containers
on the way are there. So what is read is the tree that was hashed (`ReadBackIs`), and turning
the rows round, which the run does to the order of the CSV, changes no set (`TurnedImportable`).
If the containers on the way were kept, that tree is told by the rows (`StackedTells`), and in an
unambiguous document what a row says of a node is what is read of it, as
nothing else claims that node (`ClaimedOnce`, `SaidIsRead`). The entries only the row
of the document says are those it has inlined (`SaidByWhom`), which are lost.

The last of them is about characters. Texts, lines and fields are recursive functions of
a place in a text, and what such a function has come to at a place depends on the places before
it only (`GoesOn`), so that each claim is refuted at the least place where it fails.
`Turns` counts quotes: over each text that is printed the count comes back to outside,
and no newline stands outside on the way (`EscapeTurns`, `RowTurns`), because the escape doubles
every quote and puts in quotes whatever holds a newline. So the line splitter ends a
line where a row ends and nowhere else (`PrintedLines`). The field splitter is followed
character by character (`DoubledRead`, `EscapeRead`, `RowRead`): inside quotes every quote of the
text comes with a second one, and the one that closes is followed by a comma or by the end of the
line, which is why it is not taken for the first of two. A line loses returns at its
end, but none ends in one: a field with a return ends in a quote (`RowKept`). So
the rows printed are the rows read (`PrintedParses`), and the rows of any document are of
that shape (`ColumnsAreTexts`).

The last four theorems of queries are in `HeEvaluatorProofs`, which builds on the order of
rows that the transfers needed. The evaluators have nothing in common but the
rows, so each is led back to `Evaluated` of one list: `Kids` of `Tops`, the documents
that the rows one level below `p` begin, in the order of the rows.

* The scan (`StreamIsEvaluated`). What is below one child stands together
  (`ReadInTime`: all of it is read before the next child begins), so the open child
  holds what the rows so far say of it (`Built`, kept by `ChildBegins` and
  `ChildGrows`), and is whole when it is closed (`ChildIsWhole`). That it is whole is
  not by adding rows up, but because each of its nodes is said by a row of it
  (`SaidIsWhole`, `WholeIsSaid`). `OpenAt` is the invariant of the scan: the child of
  the last top is open, and of those before it the ones that pass were given out. It
  is stated without skip and take; with them, `PagesFitTogether` says what is cut.
* The general evaluation (`GeneralIsEvaluated`). The rows that match `/p/$v` are just
  the tops (`MatchesAreTops`).
* The document (`DirectIsEvaluated`). Its children are those of the tops, each spelled
  by itself (`ChildIsTop`), and where keys and rows are in one order the list of
  the keys is that of the tops (`TopsInKeyOrder`, `KeysOfTops`).

`OrdersSort` shows first that there is something to sort by: on children that compare,
`compare_entries` compares lists of ranks, the place last, from the left
(`AfterIsBeyond`). That is a strict and total order (`BeyondOrders`), which it
is not if values are missing. Then the entry to insert has one place, past those that
come before it (`InsertAscends`), and the list stays in order and keeps all its entries
(`SortedAscends`). This is the insertion sort that `he_qsort` ends with, and all it does
up to eight entries; its partition step is not modelled.

`LevelsAgree` adds the lists of the instances up, top by top (`LevelGrows`): what is found
so far and what the next top adds are two lists in order, and each row of the first
is before each of the second (`BelowInOrder`), so that together they are the one list
of all (`ListsJoin`).

Of projections TLAPS proves, for any documents that calls leave and any lists of paths,
under the assumptions of `HeEngine` and `HeProjection` (what clients send are sequences of
paths, and there is some limit to their length):

* `ExcludedStaysHidden`: `Spec => []ExcludeWins`;
* `NamedFieldsAreShown`: `Spec => []NamedFieldsExactly`.

How a node is reached is a recursion along its path, so the first thing to show is that it
has a solution (`ReachedIs`, by the least depth without one). Then one goes down from the
root, that is, up from the first node where the claim fails (`NoDescent`). A node on the
way to an excluded one is not a collection, because it has the next key of the path, and hands
on what is left of it. `Heeded` are the paths of a list that do not come after one they begin:
what is heeded at a node is heeded below it as well (`ExcludeDescends`), so the excluded
node finds itself first in the list (`ExcludedHidden`). A list that is given is cut first, and
the heeded paths of the cut are the decisive ones of the list (`CutHeeds`, `ParsedHeeds`). Where
all fields that are heeded are there and no included one begins another, a node is shown if it
is wanted, and then the paths heeded at it are just what the given ones say below it
(`Rightly`, kept by `RightlyNext`): what the first path about a key says is what the heeded
ones say (`KindChar`, `DescendChar`, `NamedKind`), and a list that has become empty has said
all of the value, never nothing.

Of the statement-level writes TLAPS proves, for any connections, entries,
values, texts, updates and number of calls, under the assumptions of `HeWriteTx`
(null is not a value, and so on):

* `WriteTxTypeCorrect`: `Spec => []TypeOK`;
* `ReadersSeeWhole`: `Spec => []WholeUnlessExposed`;
* `HashIsOfWhatIsStored`: `Spec => []HashUnlessExposed`;
* `UpdatesKeepOthers`: `Spec => UpdateKeepsOthers`.

The types need to know which calls may stand at which statement (`Placed`):
an update with null ends without a COMMIT, and only because it never opens a
transaction is the lock not left behind. Wholeness is about `db`, but the steps
that could break it happen in `work`, many steps before the COMMIT. The
invariant `WInv` therefore says how far the writer has come (`Progress`): between
the root row and the last row, each entry either already is what the root row
promises or is still to be written so (`Kept`, `Pending`). The hash needs
`FreshRevisions`: no table holds the revision of a call that has yet to record
its own, or the new root row could match an old hash. All of this holds only
while no BEGIN was refused, since only then does a call past its BEGIN own the
lock. `GoodMoved` says what a step of one connection leaves to show, and there
is one lemma per action. TLC checked `WInv` on the instance of `MCHeWriteTx`
before it was proved.

`UpdatesKeepOthers` holds with refused BEGINs too, so `WInv` is of no use to it. It has
an invariant of its own, `KInv`, that only speaks of the connection which holds the
lock, or is about to take it: what a full update merged still agrees, outside the
entries it names, with what is stored, or the connection was overtaken (`ReadOf`); the
copy holds nothing the call does not mean to leave (`CopyOf`); and the rows still to
write are the ones missing (`LeftOf`).

On top of it TLAPS proves the refinement:

* `CallsAreOneStep`: `Spec => CallsImplementAtomic`.

`WInv` says what the writer's copy promises, but not that it is what its call was
asked for. `AInv` adds that: `Heading` says what the copy holds at each statement
on the way to the effect of the call, and `Named` that a set wants its argument.
Each statement then is a stutter but for three: the COMMIT of the writer is
`TakeEffect`, so is the DELETE of an update with null (or its refusal `Ignore`), and
a refused BEGIN is `Refuse`. `AskingMoved` reduces a step to the connection that
takes it.

Model-checked only: `LockIsReleased`, as liveness is beyond the prover. Every other
property of a passing run is a theorem.

## What is not modelled, and the plan

Left, in order of what it would tell:

1. The partition step of the sort, for more than eight entries.
2. The aliasing of cached objects (`cacheObjects`) and nested transactions.

Left out for good:

* the statement registry and its 16 places: it lives in the auxiliary data of one
  call site whose table name is constant, so that the places are not used up;
* the limits of `extract_json` (2048 open containers, 255 bytes a key): a document
  that reaches them is beyond TLC, and with other limits it is another program;
* the leaf update of `/`, which composes `//key`, a path that no other call names;
* escapes of JSON strings and number formats (text processing), SHA-256 and UUIDs
  (taken as injective and fresh);
* the SQL functions, which count arguments and pass results; the demo, the
  benchmark, and the vendored SQLite and yyjson.
