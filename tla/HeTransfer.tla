----------------------------- MODULE HeTransfer -----------------------------
(***************************************************************************)
(* Rows that leave and enter the database: export_csv, searchByPath,       *)
(* import_csv with a filter, and the stack that makes a document of rows   *)
(* (extract_json and he_csv_rows_to_tree, which have it in common).        *)
(*                                                                         *)
(* A row is the path it names, whether a slash ends it, and the text it    *)
(* spells alone.  HeEngine describes reading and an import without filter  *)
(* by their results; here are the steps, over the states of HeEngine.      *)
(*                                                                         *)
(* Abstractions: documents nest less than 2048 deep, keys have less than   *)
(* 255 bytes, as patterns have, and patterns at most 64 segments; where a  *)
(* filter lets a scalar row come first, its bytes begin no other row.      *)
(* HeCsv has the printing of a row, HeProjection the parsing of a filter.  *)
(***************************************************************************)
EXTENDS HeQuery, HeProjection

CONSTANTS Filters, \* records of include and exclude, sequences of patterns
          Deep     \* the segment "**"

ASSUME TransferAssumption ==
    /\ Deep \notin Keys \cup Vars \cup {Star}
    /\ \A f \in Filters : \A patterns \in {f.include, f.exclude} :
          /\ patterns \in Seq(Range(patterns))
          /\ \A pattern \in Range(patterns) : pattern \in Seq(Range(pattern))

-----------------------------------------------------------------------------
(***************************************************************************)
(* Rows out                                                                *)
(***************************************************************************)
Printable(r) == [path |-> r.path, slash |-> r.slash, text |-> RowText(r)]

\* The scan of ["p/", "p0"): the container and all below it, in the order of bytes.
ExportRows(p) ==
    LET rows == RowsInOrder({r \in RowsAt({x \in DOMAIN containers \cup DOMAIN primitives :
                                              IsPrefix(p, x)}) : r.path = p => r.slash})
    IN [i \in 1..Len(rows) |-> Printable(rows[i])]

\* pathMatchesGlob: "*" is one segment and "**" any number.  matched[j]: how many
\* segments the path can have before those that the pattern without its first j
\* matches.
PathMatchesGlob(x, pattern) ==
    LET matched[j \in 0..Len(pattern)] ==
            IF j = Len(pattern) THEN {Len(x)}
            ELSE IF pattern[j + 1] = Deep THEN {i \in 0..Len(x) : \E l \in i..Len(x) : l \in matched[j + 1]}
            ELSE {i \in 0..Len(x)-1 : pattern[j + 1] \in {Star, x[i + 1]} /\ i + 1 \in matched[j + 1]}
    IN 0 \in matched[0]

\* The rows that are in S, in their order.
Those(rows, S) ==
    LET those[i \in 0..Len(rows)] ==
            IF i = 0 THEN <<>>
            ELSE IF rows[i] \in S THEN Append(those[i - 1], rows[i]) ELSE those[i - 1]
    IN those[Len(rows)]

\* searchByPath, which filters the rows of the scan by itself, by sets of patterns,
\* all of which it looks at.
SearchByPath(p, include, exclude) ==
    LET rows == ExportRows(p) IN
    Those(rows, {r \in Range(rows) :
        /\ ~\E pattern \in exclude : PathMatchesGlob(r.path, pattern)
        /\ include = {} \/ \E pattern \in include : PathMatchesGlob(r.path, pattern)})

-----------------------------------------------------------------------------
(***************************************************************************)
(* Rows in                                                                 *)
(***************************************************************************)
\* No path matches the pattern "/".
MatchesAny(r, patterns) ==
    \E pattern \in Range(patterns) \ {Root} : WildcardMatches(r.path, pattern)

\* A filter under which an include saves what is excluded (a fault).
KeptIncluding(rows, f) ==
    LET filter == ParseProjection(f)
    IN Those(rows, {r \in Range(rows) : \/ filter.include = <<>> /\ ~MatchesAny(r, filter.exclude)
                                        \/ MatchesAny(r, filter.include)})

\* The filter of import_csv, which he_projection_parse reads and cuts.
Kept(rows, f) ==
    LET filter == ParseProjection(f)
    IN Those(rows, {r \in Range(rows) : /\ filter.include = <<>> \/ MatchesAny(r, filter.include)
                                        /\ ~MatchesAny(r, filter.exclude)})

\* The stack: rows in order, each put under the container on the stack that
\* leads to it, by its last key.  What is added to a scalar is lost, and what
\* is added under a key that stands replaces it.
Put(tree, at, k, text) ==
    LET x == Append(at, k) IN
    IF at \notin DOMAIN tree \/ tree[at] # Obj THEN tree
    ELSE Override([y \in {x \o z : z \in DOMAIN text} |-> text[Rel(x, y)]],
                  RestrictDomain(tree, LAMBDA y : ~IsPrefix(x, y)))

\* A stack that takes the last container for the parent (a fault).
ParentLast(stack, r) == stack[Len(stack)].at

\* The parent: the container nearest the top that leads to the row, or the root.
Parent(stack, r) ==
    LET leading == {i \in 1..Len(stack) : IsPrefix(stack[i].path, r.path)} IN
    IF leading = {} THEN Root ELSE stack[Max(leading)].at

Popped(stack, r) == SubSeq(stack, 1, Max({0} \cup {i \in 1..Len(stack) : IsPrefix(stack[i].path, r.path)}))

Pushed(s, r) ==
    LET at   == Parent(s.stack, r)
        left == Popped(s.stack, r)
    IN [tree  |-> Put(s.tree, at, Last(r.path), r.text),
        stack |-> IF r.slash THEN Append(left, [path |-> r.path, at |-> Append(at, Last(r.path))])
                  ELSE left]

\* The loop of extract_json and of he_csv_rows_to_tree, over rows in order.  The
\* first row is the root, whatever it is.
Stacked(rows) ==
    LET stacked[i \in 1..Len(rows)] ==
            IF i = 1 THEN [tree |-> rows[1].text, stack |-> <<[path |-> rows[1].path, at |-> Root]>>]
            ELSE Pushed(stacked[i - 1], rows[i])
    IN stacked[Len(rows)].tree

\* A tree of the rows as they come (a fault).
TreeUnsorted(rows) == Stacked(rows)

\* he_csv_rows_to_tree, which sorts the rows first; the tree is what is hashed.
RowsToTree(rows) == Stacked(RowsInOrder(Range(rows)))

\* A new path that is made of the last key for every row (a fault).
NewPathFlat(r, base, q) == IF r = base THEN q ELSE Append(q, Last(r.path))

\* The path under q of a row of the CSV.  The base is the path of the first row,
\* and what it leads to keeps the rest.  Of any other row only what follows the
\* last slash is kept, which of a container is nothing.
NewPath(r, base, q) ==
    CASE r = base -> q
      [] r # base /\ base.slash /\ IsPrefix(base.path, r.path) /\ (r.path = base.path => r.slash) ->
             q \o Rel(base.path, r.path)
      [] OTHER -> IF r.slash THEN q ELSE Append(q, Last(r.path))

EmptyRow(q) == [path |-> q, slash |-> TRUE, text |-> [x \in {Root} |-> Obj]]

\* The rows S when the row new arrives, which takes the place of one at its path;
\* what arrives at q is left out.
Arrived(S, new, q) ==
    IF new.path = q THEN S
    ELSE {s \in S : <<s.path, s.slash>> # <<new.path, new.slash>>} \cup {new}

\* The rows at and below q after an import of the rows: an empty root, then each
\* row, in the order that he_csv_rows_to_tree left them in.
Imported(rows, q) ==
    LET sorted == RowsInOrder(Range(rows))
        imported[i \in 0..Len(sorted)] ==
            IF i = 0 THEN {EmptyRow(q)}
            ELSE LET r == sorted[i] IN
                 Arrived(imported[i - 1], [r EXCEPT !.path = NewPath(r, rows[1], q)], q)
    IN imported[Len(sorted)]

\* What extract_json gives of q then.
ReadBack(rows, q) == Stacked(RowsInOrder(Imported(rows, q)))

-----------------------------------------------------------------------------
(***************************************************************************)
(* Properties                                                              *)
(***************************************************************************)
\* The first row is a container and leads to all the rows.
Headed(rows) ==
    /\ rows # <<>>
    /\ rows[1].slash
    /\ \A r \in Range(rows) : IsPrefix(rows[1].path, r.path)

\* No row is kept without the containers that lead to it from the first.
Closed(rows) ==
    \A r \in Range(rows) : \A x \in Ancestors(r.path) :
        IsPrefix(rows[1].path, x) => \E s \in Range(rows) : s.path = x /\ s.slash

\* The text without the entries that the row of the document has inlined.
WithoutRootEntries(p, t) ==
    RestrictDomain(t, LAMBDA x : ~(/\ Len(x) = 1 /\ InlineAt(p, x)
                                   /\ p \o x \notin DOMAIN containers \cup DOMAIN primitives))

\* The stack that is popped as the rows go by finds every row its parent, in
\* whatever state the calls leave the table, keys claimed by two rows and keys
\* that begin others included: reading gives what HeEngine says it gives.
ScanSpellsExtract ==
    \A p \in DocPaths : Exists(p) => Stacked(ExportRows(p)) = Extract(p)

\* As long as a container comes first that leads to all the rows kept, what is
\* read after an import is what was hashed, but for the entries inlined in
\* that row, in whatever order the others come: moving the rows to another
\* path and reading them there makes the same of rows that lost their
\* containers as the tree that is hashed before the write
\* (he_services.c:826-870 against 891-913).
ImportReadsAsHashed ==
    \A p, q \in DocPaths, f \in Filters :
        LET kept == Kept(ExportRows(p), f)
            rows == <<kept[1]>> \o Reverse(Tail(kept))
        IN (Exists(p) /\ Headed(kept))
               => ReadBack(rows, q) = RowsToTree([rows EXCEPT ![1] = EmptyRow(kept[1].path)])

\* A filter that also keeps every container on the way restores just the rows it
\* keeps, each at its place, and nothing of the others.
FilteredImportRestores ==
    \A p, q \in DocPaths, f \in Filters :
        LET rows == Kept(ExportRows(p), f)
            top  == rows[1].path
            Covered(x) == \E r \in Range(rows) :
                             /\ IsPrefix(r.path, top \o x)
                             /\ Rel(r.path, top \o x) \in DOMAIN r.text
        IN (Exists(p) /\ Unambiguous(p) /\ Headed(rows) /\ Closed(rows))
               => ReadBack(rows, q) = WithoutRootEntries(top, RestrictDomain(Extract(top), Covered))

\* What import_csv makes of a list of patterns, as searchByPath would write it: only
\* the first find room, "*" stands for a variable, and "/" and a pattern with
\* "**", which is a segment like any other to it, match no row.
Understood(patterns) ==
    {[l \in DOMAIN pattern |-> IF pattern[l] \in Vars THEN Star ELSE pattern[l]] :
        pattern \in {patterns[i] : i \in {i \in DOMAIN patterns :
            i <= MaxProjKeys /\ patterns[i] # Root /\ Deep \notin Range(patterns[i])}}}

\* Under any filter, import_csv takes what searchByPath shows under the patterns
\* that import_csv understands, and nothing if it understands none of those to
\* include.  So the two matchers agree, which libsql-store.ts:82 says of them, where
\* all is understood, and this says what else they do: "**" in a filter of an
\* import takes no row, whatever libsql-store.ts:519-526 shows.
SearchShowsWhatImportKeeps ==
    \A p \in DocPaths, f \in Filters :
        LET include == Understood(f.include)
            lost    == f.include # <<>> /\ MaxProjKeys > 0 /\ include = {}
        IN Kept(ExportRows(p), f) =
               IF lost THEN <<>> ELSE SearchByPath(p, include, Understood(f.exclude))
=============================================================================
