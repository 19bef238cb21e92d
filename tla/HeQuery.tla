------------------------------ MODULE HeQuery ------------------------------
(***************************************************************************)
(* query_json (he_query.c): filters, order and pages over the children of  *)
(* a container, or over the documents that a pattern matches.              *)
(*                                                                         *)
(* There are three evaluators.  Direct rebuilds the document and takes its *)
(* children.  Stream answers "/p/*" without order from one scan of the     *)
(* rows below p, closing a child when the next one begins, and stops when  *)
(* it has enough.  General answers any other pattern from the rows whose   *)
(* path matches it.  They must agree on what they are all asked for.       *)
(*                                                                         *)
(* A query only reads: the states are those of HeEngine.                   *)
(*                                                                         *)
(* Abstractions: of a string only equality and order are kept; like and    *)
(* strstr are the relations Like and Within.  The text of a number is no  *)
(* stored string.  Root values are objects; JSON nulls are not stored.     *)
(* Projections, which only change what is printed of a child (and make     *)
(* "/p/*" take the direct way, as an order does), are left out.  At most   *)
(* eight entries are sorted, which the code does by insertion.  Where a    *)
(* key stands twice in a document its last value counts, as in Extract.    *)
(***************************************************************************)
EXTENDS HeEngine, Integers

CONSTANTS Num,       \* the numbers and booleans among Values, and what they count as
          Numbers,   \* those that are numbers
          StrOrder,  \* rank of the strings among Values (strcmp)
          Like,      \* pairs of a string and a pattern that matches it
          Within,    \* pairs of a string and one that is part of it
          KeyOrder,  \* rank of the keys (strcmp)
          Splits,    \* pairs of keys, the second the first and then a byte below "/"
          Star,      \* the segment "*"
          Vars,      \* segments "$name"
          Queries    \* what clients ask: records of filters, order, skip, take

ASSUME QueryAssumption ==
    /\ Star \notin Keys \cup Vars
    /\ Keys \cap Vars = {}
    /\ "{key}" \notin Vars
    /\ Numbers \subseteq DOMAIN Num
    /\ DOMAIN Num \cup DOMAIN StrOrder \subseteq Values
    /\ DOMAIN Num \cap DOMAIN StrOrder = {}
    /\ Num \in [DOMAIN Num -> Int] /\ StrOrder \in [DOMAIN StrOrder -> Int]
    /\ KeyOrder \in [Keys -> Int] /\ \A k, l \in Keys : KeyOrder[k] = KeyOrder[l] => k = l
    /\ \A q \in Queries : /\ q.skip \in Nat /\ q.take \in Nat
                         /\ q.order \in Seq([key : Path, ascending : BOOLEAN])
                         /\ q = [filters |-> q.filters, order |-> q.order, skip |-> q.skip, take |-> q.take]

-----------------------------------------------------------------------------
(***************************************************************************)
(* Order of rows (PRIMARY KEY path)                                        *)
(***************************************************************************)
RowsAt(S)  == {[path |-> x, slash |-> TRUE] : x \in S \cap DOMAIN containers}
                \cup {[path |-> x, slash |-> FALSE] : x \in S \cap DOMAIN primitives}

\* Order of the segments k and l, each followed by a slash or the end of the path.
SegmentBefore(k, kSlash, l, lSlash) ==
    CASE <<k, l>> \in Splits -> ~kSlash
      [] <<l, k>> \in Splits -> lSlash
      [] OTHER               -> KeyOrder[k] < KeyOrder[l]

\* However they end, segments are in the order of their bytes.
ASSUME OrderAssumption ==
    /\ \A k, l \in Keys, i, j \in BOOLEAN :
          k # l => (SegmentBefore(k, i, l, j) <=> ~SegmentBefore(l, j, k, i))
    /\ \A k, l, m \in Keys, h, i, j \in BOOLEAN :
          SegmentBefore(k, h, l, i) /\ SegmentBefore(l, i, m, j) /\ k # l /\ l # m /\ k # m
             => SegmentBefore(k, h, m, j)

\* The paths x and y are the same up to their segment n, where they part.
PartAt(x, y, n) ==
    n \in DOMAIN x \cap DOMAIN y /\ x[n] # y[n] /\ \A i \in 1..n-1 : x[i] = y[i]

RowBefore(r, s) ==
    LET Slash(row, n) == n < Len(row.path) \/ row.slash IN
    \/ IsStrictPrefix(r.path, s.path)
    \/ r.path = s.path /\ ~r.slash /\ s.slash
    \/ \E n \in DOMAIN r.path : /\ PartAt(r.path, s.path, n)
                              /\ SegmentBefore(r.path[n], Slash(r, n), s.path[n], Slash(s, n))

\* The elements of S in the order Before.
InOrder(S, Before(_, _)) ==
    [i \in 1..Cardinality(S) |-> CHOOSE x \in S : Cardinality({y \in S : Before(y, x)}) = i - 1]

\* The rows of S as a scan gives them.
RowsInOrder(S) == InOrder(S, RowBefore)

-----------------------------------------------------------------------------
(***************************************************************************)
(* Filters                                                                 *)
(***************************************************************************)
NumberPasses(v, f) ==
    CASE f.op = "<"  -> Num[v] < Num[f.compare]
      [] f.op = "<=" -> Num[v] <= Num[f.compare]
      [] f.op = "==" -> Num[v] = Num[f.compare]
      [] f.op = "!=" -> Num[v] # Num[f.compare]
      [] f.op = ">=" -> Num[v] >= Num[f.compare]
      [] f.op = ">"  -> Num[v] > Num[f.compare]
      [] OTHER       -> f.op = "exists"

StringPasses(v, f) ==
    CASE f.op = "=="      -> v = f.compare
      [] f.op = "!="      -> v # f.compare
      [] f.op = "like"    -> <<v, f.compare>> \in Like
      [] f.op = "matches" -> <<v, f.compare>> \in Within
      [] f.op = "in"      -> \E w \in f.compare : w = v
      [] OTHER            -> f.op = "exists"

\* evaluate_filter and evaluate_filter_mut of the child t: a missing value passes
\* !exists alone and an object passes nothing.  A number compares with a number
\* only; "between" and "in" of numbers stand where no number arrives.
EvaluateFilter(t, f) ==
    IF f.key \notin DOMAIN t THEN f.op = "!exists"
    ELSE CASE t[f.key] = Obj -> FALSE
           [] t[f.key] \notin DOMAIN Num -> StringPasses(t[f.key], f)
           [] f.compare \in Numbers -> NumberPasses(t[f.key], f)
           [] OTHER -> f.op = "exists"

\* A filter on "$name" or "{key}" is one on a segment of the path, but for
\* General alone; the others look for a field of that name.
OnSegment(f) == f.key \in {<<v>> : v \in Vars} \cup {<<"{key}">>}

Passes(t, filters) == \A f \in filters : EvaluateFilter(t, f)

\* evaluate_var_filter of the segment k.
EvaluateVarFilter(k, f) ==
    CASE f.op = "=="   -> k = f.compare
      [] f.op = "!="   -> k # f.compare
      [] f.op = "like" -> <<k, f.compare>> \in Within
      [] OTHER         -> FALSE

-----------------------------------------------------------------------------
(***************************************************************************)
(* Order and pages.  An entry is a child and its place before the sort.    *)
(***************************************************************************)
\* How far compare_entries follows the key: until one of the two lacks it.
Reach(t, u, key) ==
    CHOOSE n \in 0..Len(key) :
        /\ n = Len(key) \/ \E s \in {t, u} : SubSeq(key, 1, n) \notin DOMAIN s
        /\ \A m \in 0..n-1 : \A s \in {t, u} : SubSeq(key, 1, m) \in DOMAIN s

ValueIn(t, x) == IF x \in DOMAIN t THEN t[x] ELSE Obj

\* Numbers before all else; strings among themselves; anything else is equal.
CompareValues(v, w) ==
    CASE v \in Numbers /\ w \in Numbers   -> Num[v] - Num[w]
      [] v \in Numbers /\ w \notin Numbers -> -1
      [] v \notin Numbers /\ w \in Numbers -> 1
      [] {v, w} \subseteq DOMAIN StrOrder  -> StrOrder[v] - StrOrder[w]
      [] OTHER                             -> 0

CompareBy(e, f, o) ==
    LET x == SubSeq(o.key, 1, Reach(e.val, f.val, o.key))
        d == CompareValues(ValueIn(e.val, x), ValueIn(f.val, x))
    IN IF o.ascending THEN d ELSE -d

\* A comparison that takes an equal entry to come after (a fault).
AfterUntied(e, f, order) ==
    \E i \in 1..Len(order) :
        /\ CompareBy(e, f, order[i]) >= 0
        /\ \A j \in 1..i-1 : CompareBy(e, f, order[j]) = 0

\* compare_entries(e, f) > 0: the first key that tells them apart, else the place.
After(e, f, order) ==
    \/ \E i \in 1..Len(order) : /\ CompareBy(e, f, order[i]) > 0
                                /\ \A j \in 1..i-1 : CompareBy(e, f, order[j]) = 0
    \/ /\ \A i \in 1..Len(order) : CompareBy(e, f, order[i]) = 0
       /\ e.index > f.index

\* he_qsort: the next entry moves left past the entries that come after it.
Inserted(sorted, e, order) ==
    LET place == CHOOSE i \in 1..Len(sorted) + 1 :
                    /\ \A j \in i..Len(sorted) : After(sorted[j], e, order)
                    /\ i > 1 => ~After(sorted[i - 1], e, order)
    IN InsertAt(sorted, place, e)

Sorted(entries, order) ==
    LET sorted[i \in 0..Len(entries)] ==
            IF i = 0 THEN <<>> ELSE Inserted(sorted[i - 1], entries[i], order)
    IN IF order = <<>> THEN entries ELSE sorted[Len(entries)]

\* A take of 0 takes all.
Page(s, q) == SubSeq(s, q.skip + 1, IF q.take = 0 THEN Len(s) ELSE Min({q.skip + q.take, Len(s)}))

\* The children that pass, with their place.
Passing(children, filters) ==
    LET passing[i \in 0..Len(children)] ==
            IF i = 0 THEN <<>>
            ELSE IF ~Passes(children[i], filters) THEN passing[i - 1]
            ELSE Append(passing[i - 1], [val |-> children[i], index |-> i])
    IN passing[Len(children)]

\* Filter, sort and page the children.
Evaluated(children, filters, q) ==
    LET paged == Page(Sorted(Passing(children, filters), q.order), q) IN
    [i \in 1..Len(paged) |-> paged[i].val]

-----------------------------------------------------------------------------
(***************************************************************************)
(* The evaluators                                                          *)
(***************************************************************************)
Child(t, k) == [x \in {Rel(<<k>>, y) : y \in {y \in DOMAIN t : IsPrefix(<<k>>, y)}} |-> t[<<k>> \o x]]

KeyBefore(k, l) == KeyOrder[k] < KeyOrder[l]

KeysInOrder(S) == InOrder(S, KeyBefore)

\* The children of the extracted document in the order of their keys.
Direct(p, q) ==
    IF ~Exists(p) THEN <<>>
    ELSE LET t    == Extract(p)
             keys == KeysInOrder({Last(x) : x \in ChildPaths(t, Root)})
         IN Evaluated([i \in 1..Len(keys) |-> Child(t, keys[i])], q.filters, q)

\* What a row spells alone.
RowText(r) ==
    IF ~r.slash THEN [x \in {Root} |-> primitives[r.path].val]
    ELSE LET entries == containers[r.path].inline IN
         [x \in {Root} \cup {<<k>> : k \in DOMAIN entries} |->
             IF x = Root THEN Obj ELSE entries[Last(x)]]

\* A skip that counts what the filters reject (a fault).
CloseSkippingAll(scan, q) ==
    IF scan.child = Nothing THEN scan
    ELSE IF scan.skipped < q.skip THEN [scan EXCEPT !.child = Nothing, !.skipped = @ + 1]
    ELSE IF ~Passes(scan.child, q.filters) THEN [scan EXCEPT !.child = Nothing]
    ELSE [scan EXCEPT !.child = Nothing, !.out = Append(@, scan.child),
                      !.done = Len(scan.out) + 1 = q.take]

\* The open child is complete: it is skipped, dropped or given out.
Close(scan, q) ==
    IF scan.child = Nothing THEN scan
    ELSE IF ~Passes(scan.child, q.filters) THEN [scan EXCEPT !.child = Nothing]
    ELSE IF scan.skipped < q.skip THEN [scan EXCEPT !.child = Nothing, !.skipped = @ + 1]
    ELSE [scan EXCEPT !.child = Nothing, !.out = Append(@, scan.child),
                      !.done = Len(scan.out) + 1 = q.take]

\* One row below p: it begins a child, or is put into the open one.
Scanned(scan, p, r, q) ==
    LET x == Rel(p, r.path)
        y == Rel(<<Head(x)>>, x)
        t == RowText(r)
    IN IF scan.done THEN scan
       ELSE IF Len(x) = 1
       THEN LET closed == Close(scan, q) IN
            IF closed.done THEN closed ELSE [closed EXCEPT !.child = t]
       ELSE [scan EXCEPT !.child =
                Override([z \in {y \o w : w \in DOMAIN t} |-> t[Rel(y, z)]], @)]

RowsBelow(p) ==
    RowsInOrder(RowsAt({x \in DOMAIN containers \cup DOMAIN primitives : IsStrictPrefix(p, x)}))

Begun == [child |-> Nothing, out |-> <<>>, skipped |-> 0, done |-> FALSE]

\* The rows, which are those below p, one after the other.
Scan(p, rows, q) ==
    LET scan[i \in 0..Len(rows)] == IF i = 0 THEN Begun ELSE Scanned(scan[i - 1], p, rows[i], q)
    IN scan[Len(rows)]

\* A scan whose last child nobody closes (a fault).
StreamUnfinished(p, q) == Scan(p, RowsBelow(p), q).out

\* The row of p itself is read and its entries are not.
Stream(p, q) ==
    LET ended == Scan(p, RowsBelow(p), q) IN
    IF ended.done THEN ended.out ELSE Close(ended, q).out

\* A parser that knows variables alone (a fault).
IsVariable(k) == k \in Vars

IsWildcard(k) == k = Star \/ k \in Vars

WildcardPlaces(pattern) == {i \in 1..Len(pattern) : IsWildcard(pattern[i])}

\* Any path with the pattern as its beginning matches (a fault).
MatchesBeginning(p, pattern) ==
    /\ Len(p) >= Len(pattern)
    /\ \A i \in 1..Len(pattern) : IsWildcard(pattern[i]) \/ p[i] = pattern[i]

\* wildcard_matches; the fixed prefix bounds the scan to paths that agree with it.
WildcardMatches(p, pattern) ==
    /\ Len(p) = Len(pattern)
    /\ \A i \in 1..Len(pattern) : IsWildcard(pattern[i]) \/ p[i] = pattern[i]

\* "{key}" is the first wildcard (a fault).
CapturePlacesFirst(pattern, f) ==
    {i \in WildcardPlaces(pattern) : /\ f.key = <<"{key}">> \/ f.key = <<pattern[i]>>
                                     /\ \A j \in 1..i-1 : ~IsWildcard(pattern[j])}

\* Where the pattern has the variable of the filter; "{key}" is the last wildcard.
CapturePlaces(pattern, f) ==
    LET places == WildcardPlaces(pattern) IN
    IF f.key = <<"{key}">> THEN {i \in places : \A j \in places : j <= i}
    ELSE {i \in places : pattern[i] = f.key[1] /\ \A j \in 1..i-1 : pattern[j] # pattern[i]}

\* The rows that match and whose segments pass the filters on them.
RowsThatMatch(pattern, onSegment) ==
    {r \in RowsAt({x \in DOMAIN containers \cup DOMAIN primitives : WildcardMatches(x, pattern)}) :
        \A f \in onSegment : \E i \in CapturePlaces(pattern, f) : EvaluateVarFilter(r.path[i], f)}

\* Of a primitive extract_json gives null, and its path is passed over; a path
\* that has both kinds of row is taken twice.
General(pattern, q) ==
    LET onSegment == {f \in q.filters : OnSegment(f)}
        rows      == RowsInOrder({r \in RowsThatMatch(pattern, onSegment) : Exists(r.path)})
    IN Evaluated([i \in 1..Len(rows) |-> Extract(rows[i].path)], q.filters \ onSegment, q)

\* wildcard_is_single_tail: "/p/*", p not being the root.
IsSingleTail(pattern) ==
    /\ Len(pattern) > 1
    /\ Last(pattern) = Star
    /\ WildcardPlaces(pattern) = {Len(pattern)}

\* he_query_execute; the store makes an empty result of a NULL.
Execute(pattern, q) ==
    IF WildcardPlaces(pattern) = {} THEN Direct(pattern, q)
    ELSE IF ~IsSingleTail(pattern) THEN General(pattern, q)
    ELSE IF q.order = <<>> THEN Stream(Front(pattern), q)
    ELSE Direct(Front(pattern), q)

-----------------------------------------------------------------------------
(***************************************************************************)
(* Properties                                                              *)
(***************************************************************************)
All == [filters |-> {}, order |-> <<>>, skip |-> 0, take |-> 0]

Readable(p) == Exists(p) /\ Unambiguous(p)

\* The keys of the children of p in the order of their rows, if all have rows.
OrdersAgree(p) ==
    \A k, l \in {Last(x) : x \in ChildPaths(Extract(p), Root)} : <<k, l>> \notin Splits

\* "/p/*", answered row by row with an early exit, gives what "/p" gives, which
\* rebuilds the document, filters and cuts the page: if p is not the root, whose
\* "/*" is not scanned, every child has a row of its own and no key is the
\* beginning of another that a byte below "/" follows (he_query.c:1049-1270
\* against 1328-1484).
StreamIsDirect ==
    \A p \in DocPaths, q \in Queries :
        (/\ p # Root /\ Readable(p) /\ containers[p].inline = Nothing
         /\ OrdersAgree(p) /\ q.order = <<>>)
            => Execute(Append(p, Star), q) = Execute(p, q)

\* What streaming-query.libsql.test.ts:11-12 says: the two ways have parity.
StreamParity ==
    \A p \in DocPaths, q \in Queries :
        (Readable(p) /\ q.order = <<>>) => Execute(Append(p, Star), q) = Execute(p, q)

\* "/p/$v", answered from the rows that match, each extracted by itself, gives
\* what the scan of "/p/*" gives, order of bytes and entries inlined in the
\* children included, if all the children with rows are objects.
GeneralIsStream ==
    \A p \in DocPaths, v \in Vars, q \in Queries :
        (/\ Readable(p)
         /\ \A x \in DOMAIN primitives : ~(IsStrictPrefix(p, x) /\ Len(x) = Len(p) + 1)
         /\ q.order = <<>> /\ ~\E f \in q.filters : OnSegment(f))
            => Execute(Append(p, v), q) = Execute(Append(p, Star), q)

\* Successive pages give every result once, in one order, whichever way a page
\* is answered and wherever the scan stops.
PagesTile ==
    \A p \in DocPaths, last \in {Star} \cup Vars, q \in Queries, size \in 1..2, i \in 0..2 :
        LET pattern == Append(p, last)
            all     == Execute(pattern, [q EXCEPT !.skip = 0, !.take = 0])
        IN Execute(pattern, [q EXCEPT !.skip = i * size, !.take = size])
               = SubSeq(all, i * size + 1, Min({(i + 1) * size, Len(all)}))

\* All the children have numbers at x, or all have strings.
Comparable(t, x) ==
    LET values == {ValueIn(t, y \o x) : y \in ChildPaths(t, Root)} IN
    values \subseteq Numbers \/ values \subseteq DOMAIN StrOrder

\* The result is sorted by the keys in turn, and ties stand as in plain.
SortedBy(result, plain, order) ==
    LET Rank(v)      == IF v \in Numbers THEN Num[v] ELSE StrOrder[v]
        At(i, n)     == Rank(result[i][order[n].key])
        Differ(i, j) == {n \in 1..Len(order) : At(i, n) # At(j, n)}
        Up(i, j, n)  == IF order[n].ascending THEN At(i, n) < At(j, n) ELSE At(i, n) > At(j, n)
    IN \A i, j \in 1..Len(result) : i < j =>
           IF Differ(i, j) # {} THEN Up(i, j, Min(Differ(i, j)))
           ELSE \E k, l \in 1..Len(plain) : k < l /\ plain[k] = result[i] /\ plain[l] = result[j]

\* An order by comparable values is one: the result is sorted by the keys in
\* turn and children that all keys leave equal stand in the order of "/p", so
\* that pages of different queries fit together.
OrderedWhenComparable ==
    \A p \in DocPaths, q \in Queries :
        (/\ Readable(p)
         /\ \A i \in 1..Len(q.order) : Comparable(Extract(p), q.order[i].key))
            => SortedBy(Execute(p, [q EXCEPT !.skip = 0, !.take = 0]),
                        Execute(p, [q EXCEPT !.order = <<>>, !.skip = 0, !.take = 0]), q.order)

\* A pattern with two wildcards gives the results of its instances, one after
\* the other in the order of the rows: range scan, matching and order of paths
\* fit together across levels, also where a key is the beginning of another.
LevelsAddUp ==
    LET tops == RowsInOrder({r \in RowsAt({<<k>> : k \in Keys}) : r.slash})
        With(v) == LET with[i \in 0..Len(tops)] ==
                           IF i = 0 THEN <<>> ELSE with[i - 1] \o Execute(Append(tops[i].path, v), All)
                   IN with[Len(tops)]
    IN \A v \in Vars : Execute(<<Star, v>>, All) = With(v)

\* A filter that binds a variable is the pattern with the segment in its place,
\* and "{key}" binds the last wildcard.
BoundVariables ==
    \A k \in Keys, v, w \in Vars :
        v # w =>
          /\ Execute(<<v, w>>, [All EXCEPT !.filters = {[key |-> <<v>>, op |-> "==", compare |-> k]}])
                = Execute(<<k, w>>, All)
          /\ Execute(<<v, w>>, [All EXCEPT !.filters = {[key |-> <<"{key}">>, op |-> "==", compare |-> k]}])
                = Execute(<<v, k>>, All)
=============================================================================
