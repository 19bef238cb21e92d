---------------------------- MODULE HeQueryProofs ----------------------------
(***************************************************************************)
(* What query_json answers, for every table and every query: a filter that *)
(* binds a variable is the pattern with the segment in its place, and the  *)
(* pages of a query fit together whichever evaluator answers them.         *)
(*                                                                         *)
(* A query only reads, so the theorems are invariants of HeEngine.  The    *)
(* second needs that the tables stay finite: only a finite set of rows has *)
(* a number of rows, and only then is the list of its rows one with a      *)
(* length.                                                                 *)
(***************************************************************************)
EXTENDS HeQuery, HeEngineProofs, FiniteSetTheorems

-----------------------------------------------------------------------------
(***************************************************************************)
(* Filters that bind variables                                             *)
(***************************************************************************)

\* A path of two segments that agrees with k where the pattern has a key.
LEMMA PairMatches ==
    ASSUME NEW k, NEW l, NEW x
    PROVE  WildcardMatches(x, <<k, l>>) <=> /\ Len(x) = 2
                                            /\ (IsWildcard(k) \/ x[1] = k)
                                            /\ (IsWildcard(l) \/ x[2] = l)
BY DEF WildcardMatches

\* No key is a wildcard, and a variable is one that is not the star.
LEMMA SegmentsAreNotKeys ==
    /\ \A k \in Keys : ~IsWildcard(k)
    /\ \A v \in Vars : IsWildcard(v) /\ v # Star
BY QueryAssumption DEF IsWildcard

\* The pattern of k and l with the filter f on a segment leaves the rows of k2 and l2.
LeavesSame(k, l, f, place, k2, l2) ==
    \A x : (WildcardMatches(x, <<k, l>>) /\ EvaluateVarFilter(x[place], f))
               <=> WildcardMatches(x, <<k2, l2>>)

\* Two patterns with wildcards are answered alike if the rows they leave are the same.
LEMMA SameRowsSameAnswer ==
    ASSUME NEW k, NEW l, NEW f, NEW place, OnSegment(f), CapturePlaces(<<k, l>>, f) = {place},
           NEW k2, NEW l2, l # Star, l2 # Star,
           IsWildcard(k) \/ IsWildcard(l), IsWildcard(k2) \/ IsWildcard(l2),
           LeavesSame(k, l, f, place, k2, l2)
    PROVE  Execute(<<k, l>>, [All EXCEPT !.filters = {f}]) = Execute(<<k2, l2>>, All)
<1> DEFINE q == [All EXCEPT !.filters = {f}]
<1>1. q.filters = {f} /\ q.order = All.order /\ q.skip = All.skip /\ q.take = All.take
  BY DEF All
<1>2. All.filters = {}
  BY DEF All
<1> HIDE DEF q
<1>3. Execute(<<k, l>>, q) = General(<<k, l>>, q)
  <2>1. WildcardPlaces(<<k, l>>) # {}
    BY DEF WildcardPlaces
  <2>2. ~IsSingleTail(<<k, l>>)
    BY DEF IsSingleTail, Last
  <2> QED
    BY <2>1, <2>2 DEF Execute
<1>4. Execute(<<k2, l2>>, All) = General(<<k2, l2>>, All)
  <2>1. WildcardPlaces(<<k2, l2>>) # {}
    BY DEF WildcardPlaces
  <2>2. ~IsSingleTail(<<k2, l2>>)
    BY DEF IsSingleTail, Last
  <2> QED
    BY <2>1, <2>2 DEF Execute
<1>5. RowsThatMatch(<<k, l>>, {f}) = RowsThatMatch(<<k2, l2>>, {})
  <2>1. PICK D, S1, S2 : /\ D = DOMAIN containers \cup DOMAIN primitives
                         /\ S1 = {x \in D : WildcardMatches(x, <<k, l>>)}
                         /\ S2 = {x \in D : WildcardMatches(x, <<k2, l2>>)}
    OBVIOUS
  <2>2. \A x : x \in S2 <=> x \in S1 /\ EvaluateVarFilter(x[place], f)
    BY <2>1 DEF LeavesSame
  <2>3. \A r : r \in RowsThatMatch(<<k, l>>, {f}) <=> r \in RowsAt(S1) /\ EvaluateVarFilter(r.path[place], f)
    BY <2>1 DEF RowsThatMatch
  <2>4. \A r : r \in RowsThatMatch(<<k2, l2>>, {}) <=> r \in RowsAt(S2)
    BY <2>1 DEF RowsThatMatch
  <2>5. \A S, r : r \in RowsAt(S) <=>
                  \/ \E x \in S \cap DOMAIN containers : r = [path |-> x, slash |-> TRUE]
                  \/ \E x \in S \cap DOMAIN primitives : r = [path |-> x, slash |-> FALSE]
    BY DEF RowsAt
  <2>6. \A r : r \in RowsAt(S1) /\ EvaluateVarFilter(r.path[place], f) <=> r \in RowsAt(S2)
    <3> SUFFICES ASSUME NEW r
                 PROVE  (r \in RowsAt(S1) /\ EvaluateVarFilter(r.path[place], f)) <=> r \in RowsAt(S2)
      OBVIOUS
    <3>1. PICK c, d : c = DOMAIN containers /\ d = DOMAIN primitives
      OBVIOUS
    <3>2. \A S : r \in RowsAt(S) <=> /\ r.path \in S
                                     /\ \/ r.path \in c /\ r = [path |-> r.path, slash |-> TRUE]
                                        \/ r.path \in d /\ r = [path |-> r.path, slash |-> FALSE]
      BY <2>5, <3>1
    <3> QED
      BY <2>2, <3>2
  <2>7. \A r : r \in RowsThatMatch(<<k, l>>, {f}) <=> r \in RowsThatMatch(<<k2, l2>>, {})
    BY <2>3, <2>4, <2>6
  <2> QED
    BY <2>7 DEF RowsThatMatch
<1>6. PICK M, rows : M = RowsThatMatch(<<k2, l2>>, {}) /\ rows = RowsInOrder({r \in M : Exists(r.path)})
  OBVIOUS
<1>7. General(<<k, l>>, q) = Evaluated([i \in 1..Len(rows) |-> Extract(rows[i].path)], {}, q)
  <2>1. PICK onS : onS = {g \in q.filters : OnSegment(g)}
    OBVIOUS
  <2>2. onS = {f}
    BY <1>1, <2>1
  <2>3. rows = RowsInOrder({r \in RowsThatMatch(<<k, l>>, onS) : Exists(r.path)})
    BY <1>5, <1>6, <2>2
  <2>4. General(<<k, l>>, q) = Evaluated([i \in 1..Len(rows) |-> Extract(rows[i].path)], q.filters \ onS, q)
    BY <2>1, <2>3 DEF General
  <2>5. q.filters \ onS = {}
    BY <1>1, <2>2
  <2> QED
    BY <2>4, <2>5
<1>8. General(<<k2, l2>>, All) = Evaluated([i \in 1..Len(rows) |-> Extract(rows[i].path)], {}, All)
  <2>1. PICK onS : onS = {g \in All.filters : OnSegment(g)}
    OBVIOUS
  <2>2. onS = {}
    BY <1>2, <2>1
  <2>3. rows = RowsInOrder({r \in RowsThatMatch(<<k2, l2>>, onS) : Exists(r.path)})
    BY <1>6, <2>2
  <2>4. General(<<k2, l2>>, All) = Evaluated([i \in 1..Len(rows) |-> Extract(rows[i].path)], All.filters \ onS, All)
    BY <2>1, <2>3 DEF General
  <2>5. All.filters \ onS = {}
    BY <1>2
  <2> QED
    BY <2>4, <2>5
<1>9. \A c : Evaluated(c, {}, q) = Evaluated(c, {}, All)
  BY <1>1 DEF Evaluated, Page
<1> QED
  BY <1>3, <1>4, <1>7, <1>8, <1>9 DEF q

\* For any keys and variables, whatever rows the table holds: a filter that binds
\* a variable of a pattern of two is the pattern with the segment in its place,
\* and "{key}" binds the last one (evaluate_var_filter of do_query_wildcard).
THEOREM FiltersBindVariables == Spec => []BoundVariables
<1>1. ASSUME NEW k \in Keys, NEW v \in Vars, NEW w \in Vars, v # w
      PROVE  Execute(<<v, w>>, [All EXCEPT !.filters = {[key |-> <<v>>, op |-> "==", compare |-> k]}])
                 = Execute(<<k, w>>, All)
  <2>1. PICK f : f = [key |-> <<v>>, op |-> "==", compare |-> k]
    OBVIOUS
  <2>2. OnSegment(f)
    BY <2>1 DEF OnSegment
  <2>3. CapturePlaces(<<v, w>>, f) = {1}
    <3>1. f.key # <<"{key}">> /\ f.key[1] = v
      BY <1>1, <2>1, QueryAssumption
    <3>2. WildcardPlaces(<<v, w>>) = 1..2
      BY SegmentsAreNotKeys DEF WildcardPlaces
    <3>3. CapturePlaces(<<v, w>>, f) =
              {i \in 1..2 : <<v, w>>[i] = v /\ \A j \in 1..i-1 : <<v, w>>[j] # <<v, w>>[i]}
      BY <3>1, <3>2 DEF CapturePlaces
    <3>4. \A i \in 1..2 : <<v, w>>[i] = v <=> i = 1
      BY <1>1
    <3> QED
      BY <3>3, <3>4
  <2>4. \A x : EvaluateVarFilter(x[1], f) <=> x[1] = k
    BY <2>1 DEF EvaluateVarFilter
  <2>5. LeavesSame(v, w, f, 1, k, w)
    BY <2>4, PairMatches, SegmentsAreNotKeys DEF LeavesSame
  <2>6. w # Star /\ IsWildcard(w)
    BY SegmentsAreNotKeys
  <2> QED
    BY <2>1, <2>2, <2>3, <2>5, <2>6, SameRowsSameAnswer
<1>2. ASSUME NEW k \in Keys, NEW v \in Vars, NEW w \in Vars, v # w
      PROVE  Execute(<<v, w>>, [All EXCEPT !.filters = {[key |-> <<"{key}">>, op |-> "==", compare |-> k]}])
                 = Execute(<<v, k>>, All)
  <2>1. PICK f : f = [key |-> <<"{key}">>, op |-> "==", compare |-> k]
    OBVIOUS
  <2>2. OnSegment(f)
    BY <2>1 DEF OnSegment
  <2>3. CapturePlaces(<<v, w>>, f) = {2}
    <3>1. WildcardPlaces(<<v, w>>) = 1..2
      BY SegmentsAreNotKeys DEF WildcardPlaces
    <3>2. CapturePlaces(<<v, w>>, f) = {i \in 1..2 : \A j \in 1..2 : j <= i}
      BY <2>1, <3>1 DEF CapturePlaces
    <3> QED
      BY <3>2
  <2>4. \A x : EvaluateVarFilter(x[2], f) <=> x[2] = k
    BY <2>1 DEF EvaluateVarFilter
  <2>5. LeavesSame(v, w, f, 2, v, k)
    BY <2>4, PairMatches, SegmentsAreNotKeys DEF LeavesSame
  <2>6. w # Star /\ k # Star /\ IsWildcard(v)
    BY SegmentsAreNotKeys, QueryAssumption
  <2>7. IsWildcard(v) \/ IsWildcard(w)
    BY <2>6
  <2>8. IsWildcard(v) \/ IsWildcard(k)
    BY <2>6
  <2>9. Execute(<<v, w>>, [All EXCEPT !.filters = {f}]) = Execute(<<v, k>>, All)
    BY <2>2, <2>3, <2>5, <2>6, <2>7, <2>8, SameRowsSameAnswer
  <2> QED
    BY <2>1, <2>9
<1>3. BoundVariables
  BY <1>1, <1>2 DEF BoundVariables
<1> QED
  BY <1>3, PTL

-----------------------------------------------------------------------------
(***************************************************************************)
(* The tables stay finite                                                  *)
(***************************************************************************)

\* Finitely many rows of finitely many entries each.
FiniteRows(c) == IsFiniteSet(DOMAIN c) /\ \A q \in DOMAIN c : IsFiniteSet(DOMAIN c[q].inline)

\* The inductive invariant of the engine, and that the tables are finite.
FInv == IInv /\ FiniteRows(containers) /\ IsFiniteSet(DOMAIN primitives)

\* What a function gives of a finite set is finite.
LEMMA FiniteImage ==
    ASSUME NEW S, IsFiniteSet(S), NEW f, f = [x \in S |-> f[x]]
    PROVE  IsFiniteSet({f[x] : x \in S})
<1>1. PICK T : T = {f[x] : x \in S}
  OBVIOUS
<1>2. f \in [S -> T]
  BY <1>1
<1>3. f \in Surjection(S, T)
  BY <1>1, <1>2 DEF Surjection
<1>4. IsFiniteSet(T)
  BY <1>3, FS_Surjection
<1> QED
  BY <1>1, <1>4

\* So are the paths of a finite set below p and relative to p.
LEMMA FiniteShift ==
    ASSUME NEW S, IsFiniteSet(S), NEW p
    PROVE  IsFiniteSet({p \o x : x \in S}) /\ IsFiniteSet({Rel(p, x) : x \in S})
<1>1. PICK f, g : f = [x \in S |-> p \o x] /\ g = [x \in S |-> Rel(p, x)]
  OBVIOUS
<1>2. f = [x \in S |-> f[x]] /\ g = [x \in S |-> g[x]]
  BY <1>1
<1>3. IsFiniteSet({f[x] : x \in S}) 
  BY <1>2, FiniteImage
<1>4. IsFiniteSet({g[x] : x \in S})
  BY <1>2, FiniteImage
<1>5. {f[x] : x \in S} = {p \o x : x \in S} /\ {g[x] : x \in S} = {Rel(p, x) : x \in S}
  BY <1>1
<1> QED
  BY <1>3, <1>4, <1>5

\* A path has finitely many ancestors.
LEMMA FiniteAncestors ==
    ASSUME NEW p \in Path
    PROVE  IsFiniteSet(Ancestors(p) \cup {Root})
<1>1. PICK n, S, f : /\ n = Len(p) /\ S = 0..n /\ f = [l \in S |-> SubSeq(p, 1, l)]
  OBVIOUS
<1>2. n \in Nat
  BY <1>1 DEF Path
<1>3. IsFiniteSet(S)
  BY <1>1, <1>2, FS_Interval
<1>4. f = [x \in S |-> f[x]]
  BY <1>1
<1>5. IsFiniteSet({f[x] : x \in S})
  BY <1>3, <1>4, FiniteImage
<1>6. {f[x] : x \in S} = Prefixes(p)
  BY <1>1 DEF Prefixes
<1>7. IsFiniteSet(Ancestors(p))
  BY <1>5, <1>6, FS_Subset DEF Ancestors
<1> QED
  BY <1>7, FS_AddElement

\* A finite text inlines finitely many entries in a row.
LEMMA FiniteInline ==
    ASSUME NEW t, DOMAIN t \subseteq Path, IsFiniteSet(DOMAIN t), NEW x \in Path, NEW limit
    PROVE  IsFiniteSet(DOMAIN InlineEntries(t, x, limit))
<1>1. PICK S, f : S = DOMAIN t /\ f = [y \in S |-> y[Len(x) + 1]]
  OBVIOUS
<1>2. f = [y \in S |-> f[y]]
  BY <1>1
<1>3. IsFiniteSet({f[y] : y \in S})
  BY <1>1, <1>2, FiniteImage
<1>4. ASSUME NEW k \in DOMAIN InlineEntries(t, x, limit) PROVE k \in {f[y] : y \in S}
  <2>1. k \in Keys /\ Append(x, k) \in S
    BY <1>1, <1>4 DEF InlineEntries, InlinePaths
  <2>2. Append(x, k)[Len(x) + 1] = k
    BY <2>1 DEF Path
  <2> QED
    BY <1>1, <2>1, <2>2
<1> QED
  BY <1>3, <1>4, FS_Subset

\* Rows written over rows are as many as both at most.
LEMMA FiniteOverride ==
    ASSUME NEW a, NEW b
    PROVE  /\ FiniteRows(a) /\ FiniteRows(b) => FiniteRows(Override(a, b))
           /\ IsFiniteSet(DOMAIN a) /\ IsFiniteSet(DOMAIN b) => IsFiniteSet(DOMAIN Override(a, b))
<1>1. DOMAIN Override(a, b) = DOMAIN a \cup DOMAIN b
  BY DEF Override
<1>2. ASSUME IsFiniteSet(DOMAIN a), IsFiniteSet(DOMAIN b) PROVE IsFiniteSet(DOMAIN Override(a, b))
  BY <1>1, <1>2, FS_Union
<1>3. ASSUME FiniteRows(a), FiniteRows(b), NEW q \in DOMAIN Override(a, b)
      PROVE  IsFiniteSet(DOMAIN Override(a, b)[q].inline)
  BY <1>3 DEF Override, FiniteRows
<1> QED
  BY <1>2, <1>3 DEF FiniteRows

\* Rows that are left of finite ones are finite.
LEMMA FiniteRestrict ==
    ASSUME NEW a, NEW S, S \subseteq DOMAIN a
    PROVE  /\ FiniteRows(a) => FiniteRows(Restrict(a, S))
           /\ IsFiniteSet(DOMAIN a) => IsFiniteSet(DOMAIN Restrict(a, S))
<1>1. DOMAIN Restrict(a, S) = S /\ \A q \in S : Restrict(a, S)[q] = a[q]
  BY DEF Restrict
<1>2. ASSUME IsFiniteSet(DOMAIN a) PROVE IsFiniteSet(DOMAIN Restrict(a, S))
  BY <1>1, <1>2, FS_Subset
<1> QED
  BY <1>1, <1>2 DEF FiniteRows

\* Rows without entries are finite if their paths are.
LEMMA FreshFinite ==
    ASSUME NEW S, IsFiniteSet(S), NEW rev, NEW nr
    PROVE  FiniteRows([q \in S |-> [inline |-> Nothing, rev |-> rev, nr |-> nr]])
BY FS_EmptySet DEF FiniteRows, Nothing

\* A finite text is written as finitely many rows.
LEMMA FiniteText ==
    ASSUME NEW p \in Path, NEW t, IsText(t), IsFiniteSet(DOMAIN t), NEW limit, NEW rev, NEW nr
    PROVE  /\ FiniteRows(ContainerRows(p, t, limit, rev, nr))
           /\ IsFiniteSet(DOMAIN PrimitiveRows(p, t, limit, rev, nr))
<1>1. IsFiniteSet(ContainerPaths(t, limit)) /\ IsFiniteSet(PrimitivePaths(t, limit))
  <2>1. ContainerPaths(t, limit) \in SUBSET DOMAIN t /\ PrimitivePaths(t, limit) \in SUBSET DOMAIN t
    BY DEF ContainerPaths, PrimitivePaths, DedicatedPaths, IsText
  <2> QED
    BY <2>1, FS_Subset
<1>2. /\ IsFiniteSet(DOMAIN ContainerRows(p, t, limit, rev, nr))
      /\ IsFiniteSet(DOMAIN PrimitiveRows(p, t, limit, rev, nr))
  BY <1>1, FiniteShift DEF ContainerRows, PrimitiveRows
<1>3. ASSUME NEW q \in DOMAIN ContainerRows(p, t, limit, rev, nr)
      PROVE  IsFiniteSet(DOMAIN ContainerRows(p, t, limit, rev, nr)[q].inline)
  <2>1. PICK x \in ContainerPaths(t, limit) : q = p \o x
    BY <1>3 DEF ContainerRows
  <2>2. x \in Path
    BY <2>1 DEF ContainerPaths, DedicatedPaths, IsText
  <2>3. Rel(p, q) = x
    BY <2>1, <2>2, ConcatChar
  <2>4. ContainerRows(p, t, limit, rev, nr)[q].inline = InlineEntries(t, x, limit)
    BY <1>3, <2>3 DEF ContainerRows
  <2> QED
    BY <2>2, <2>4, FiniteInline DEF IsText
<1> QED
  BY <1>2, <1>3 DEF FiniteRows

\* set_json and the whole-document update leave the tables finite.
LEMMA WriteTextFinite ==
    ASSUME FInv, NEW p \in Path, NEW t, IsText(t), IsFiniteSet(DOMAIN t), NEW limit, WriteText(p, t, limit)
    PROVE  FiniteRows(containers') /\ IsFiniteSet(DOMAIN primitives')
<1>1. PICK rev, old, fresh, nr :
        /\ rev = clock + 1
        /\ old = Restrict(containers, Outside(p))
        /\ fresh = [q \in Ancestors(p) \cup {Root} |-> [inline |-> Nothing, rev |-> rev, nr |-> 1]]
        /\ nr = RevisionNr(Override(old, fresh), p) + 1
  OBVIOUS
<1>2. /\ containers' = Override(ContainerRows(p, t, limit, rev, nr), Override(old, fresh))
      /\ primitives' = Override(PrimitiveRows(p, t, limit, rev, nr), Restrict(primitives, OutsideStrictly(p)))
  BY <1>1 DEF WriteText, EnsureIntermediate
<1>3. FiniteRows(fresh)
  <2>1. PICK S : S = Ancestors(p) \cup {Root}
    OBVIOUS
  <2>2. IsFiniteSet(S)
    BY <2>1, FiniteAncestors
  <2>3. FiniteRows([q \in S |-> [inline |-> Nothing, rev |-> rev, nr |-> 1]])
    BY <2>2, FreshFinite
  <2> QED
    BY <1>1, <2>1, <2>3
<1>4. FiniteRows(old) /\ IsFiniteSet(DOMAIN Restrict(primitives, OutsideStrictly(p)))
  BY <1>1, FiniteRestrict DEF FInv, Outside, OutsideStrictly
<1>5. FiniteRows(Override(old, fresh))
  BY <1>3, <1>4, FiniteOverride
<1>6. FiniteRows(ContainerRows(p, t, limit, rev, nr)) /\ IsFiniteSet(DOMAIN PrimitiveRows(p, t, limit, rev, nr))
  BY FiniteText
<1> QED
  BY <1>2, <1>4, <1>5, <1>6, FiniteOverride

\* ensure_intermediate_nodes adds finitely many rows.
LEMMA FreshPathFinite ==
    ASSUME NEW p \in Path, NEW c, FiniteRows(c), NEW rev
    PROVE  FiniteRows(EnsureIntermediate(c, p, rev))
<1>1. PICK S : S = Ancestors(p) \cup {Root}
  OBVIOUS
<1>2. PICK fresh : fresh = [q \in S |-> [inline |-> Nothing, rev |-> rev, nr |-> 1]]
  OBVIOUS
<1>3. FiniteRows(fresh)
  <2>1. IsFiniteSet(S)
    BY <1>1, FiniteAncestors
  <2>2. FiniteRows([q \in S |-> [inline |-> Nothing, rev |-> rev, nr |-> 1]])
    BY <2>1, FreshFinite
  <2> QED
    BY <1>2, <2>2
<1>4. FiniteRows(Override(c, fresh))
  BY <1>3, FiniteOverride
<1> QED
  BY <1>1, <1>2, <1>4 DEF EnsureIntermediate

\* The row of one path is one row.
LEMMA RootRowFinite ==
    ASSUME NEW p, NEW rev, NEW nr
    PROVE  FiniteRows(RootRow(p, rev, nr))
<1>1. PICK S : S = {p}
  OBVIOUS
<1>2. IsFiniteSet(S)
  BY <1>1, FS_Singleton
<1>3. FiniteRows([q \in S |-> [inline |-> Nothing, rev |-> rev, nr |-> nr]])
  BY <1>2, FreshFinite
<1> QED
  BY <1>1, <1>3 DEF RootRow

\* So does import_csv.
LEMMA ImportFinite ==
    ASSUME FInv, NEW p \in Path, NEW t, IsText(t), IsFiniteSet(DOMAIN t), NEW limit, ImportCsv(p, t, limit)
    PROVE  FiniteRows(containers') /\ IsFiniteSet(DOMAIN primitives')
<1>1. PICK rev, old, ensured, nr :
        /\ rev = clock + 1
        /\ old = Restrict(containers, Outside(p))
        /\ ensured = EnsureIntermediate(old, p, rev)
        /\ nr = RevisionNr(ensured, p) + 1
  OBVIOUS
<1>2. /\ containers' = Override(RootRow(p, rev, nr), Override(ContainerRows(p, t, limit, rev, nr), ensured))
      /\ primitives' = Override(PrimitiveRows(p, t, limit, rev, nr), Restrict(primitives, OutsideStrictly(p)))
  BY <1>1 DEF ImportCsv
<1>3. FiniteRows(old) /\ IsFiniteSet(DOMAIN Restrict(primitives, OutsideStrictly(p)))
  BY <1>1, FiniteRestrict DEF FInv, Outside, OutsideStrictly
<1>4. FiniteRows(ensured)
  BY <1>1, <1>3, FreshPathFinite
<1>5. FiniteRows(ContainerRows(p, t, limit, rev, nr)) /\ IsFiniteSet(DOMAIN PrimitiveRows(p, t, limit, rev, nr))
  BY FiniteText
<1>6. FiniteRows(RootRow(p, rev, nr))
  BY RootRowFinite
<1>7. FiniteRows(Override(ContainerRows(p, t, limit, rev, nr), ensured))
  BY <1>4, <1>5, FiniteOverride
<1>8. FiniteRows(containers')
  BY <1>2, <1>6, <1>7, FiniteOverride
<1>9. IsFiniteSet(DOMAIN primitives')
  BY <1>2, <1>3, <1>5, FiniteOverride
<1> QED
  BY <1>8, <1>9

\* So does the leaf update.
LEMMA LeafFinite ==
    ASSUME FInv, NEW p \in Path, NEW u, IsFiniteSet(DOMAIN u), UpdateLeaf(p, u)
    PROVE  FiniteRows(containers') /\ IsFiniteSet(DOMAIN primitives')
<1>1. PICK rev, ensured, nr, rooted :
        /\ rev = clock + 1
        /\ ensured = EnsureIntermediate(containers, p, rev)
        /\ nr = RevisionNr(ensured, p) + 1
        /\ rooted = Override(RootRow(p, rev, nr), ensured)
  OBVIOUS
<1>2. PICK S, written :
        /\ S = {x \in DOMAIN u \ {Root} : u[x] # Null}
        /\ written = [q \in {p \o x : x \in S} |-> [val |-> u[Rel(p, q)], rev |-> rev, nr |-> nr]]
  OBVIOUS
<1>3. PICK C, P :
        /\ C = {q \in DOMAIN rooted : \A x \in Erased(rooted, p, u) : ~IsPrefix(p \o x, q)}
        /\ P = {q \in DOMAIN primitives : \A x \in Erased(rooted, p, u) : ~IsPrefix(p \o x, q)}
  OBVIOUS
<1>4. /\ containers' = Restrict(rooted, C)
      /\ primitives' = Override(written, Restrict(primitives, P))
  BY <1>1, <1>2, <1>3 DEF UpdateLeaf
<1>5. FiniteRows(ensured)
  BY <1>1, FreshPathFinite DEF FInv
<1>6. FiniteRows(RootRow(p, rev, nr))
  BY RootRowFinite
<1>7. FiniteRows(rooted)
  BY <1>1, <1>5, <1>6, FiniteOverride
<1>8. C \subseteq DOMAIN rooted /\ P \subseteq DOMAIN primitives
  BY <1>3
<1>9. IsFiniteSet(S)
  BY <1>2, FS_Subset
<1>10. IsFiniteSet(DOMAIN written)
  BY <1>2, <1>9, FiniteShift
<1>11. IsFiniteSet(DOMAIN Restrict(primitives, P))
  BY <1>8, FiniteRestrict DEF FInv
<1>12. FiniteRows(containers')
  BY <1>4, <1>7, <1>8, FiniteRestrict
<1>13. IsFiniteSet(DOMAIN primitives')
  BY <1>4, <1>10, <1>11, FiniteOverride
<1> QED
  BY <1>12, <1>13

\* A document that is read is finite.
LEMMA FiniteExtract ==
    ASSUME FInv, NEW p
    PROVE  IsFiniteSet(DOMAIN Extract(p))
<1>1. PICK A, B : /\ A = {q \in DOMAIN containers : IsPrefix(p, q)}
                  /\ B = {q \in DOMAIN primitives : IsStrictPrefix(p, q)}
  OBVIOUS
<1>2. IsFiniteSet(A) /\ IsFiniteSet(B)
  BY <1>1, FS_Subset DEF FInv, FiniteRows
<1>3. PICK entries : entries = [q \in A |-> {Append(Rel(p, q), k) : k \in DOMAIN containers[q].inline}]
  OBVIOUS
<1>4. ASSUME NEW q \in A PROVE IsFiniteSet(entries[q])
  <2>1. PICK S, f : S = DOMAIN containers[q].inline /\ f = [k \in S |-> Append(Rel(p, q), k)]
    OBVIOUS
  <2>2. IsFiniteSet(S) /\ f = [k \in S |-> f[k]]
    BY <1>1, <2>1 DEF FInv, FiniteRows
  <2>3. IsFiniteSet({f[k] : k \in S})
    BY <2>2, FiniteImage
  <2>4. entries[q] = {f[k] : k \in S}
    BY <1>3, <2>1
  <2> QED
    BY <2>3, <2>4
<1>5. IsFiniteSet(UNION {entries[q] : q \in A})
  <2>1. PICK F : F = {entries[q] : q \in A}
    OBVIOUS
  <2>2. entries = [q \in A |-> entries[q]]
    BY <1>3
  <2>3. IsFiniteSet(F) /\ \A T \in F : IsFiniteSet(T)
    BY <1>2, <1>4, <2>1, <2>2, FiniteImage
  <2>4. IsFiniteSet(UNION F)
    BY <2>3, FS_UNION
  <2> QED
    BY <2>1, <2>4
<1>6. IsFiniteSet({Rel(p, q) : q \in A}) /\ IsFiniteSet({Rel(p, q) : q \in B})
  BY <1>2, FiniteShift
<1>7. PICK X, Y, Z : X = {Rel(p, q) : q \in A} /\ Y = {Rel(p, q) : q \in B} /\ Z = UNION {entries[q] : q \in A}
  OBVIOUS
<1>8. IsFiniteSet((X \cup Y) \cup Z)
  <2>1. IsFiniteSet(X \cup Y)
    BY <1>6, <1>7, FS_Union
  <2>2. IsFiniteSet(Z)
    BY <1>5, <1>7
  <2> QED
    BY <2>1, <2>2, FS_Union
<1>9. Z = UNION {{Append(Rel(p, q), k) : k \in DOMAIN containers[q].inline} : q \in A}
  BY <1>3, <1>7
<1>10. ExtractPaths(p) = (X \cup Y) \cup Z
  BY <1>1, <1>7, <1>9 DEF ExtractPaths
<1> QED
  BY <1>8, <1>10 DEF Extract

\* A document merged with an update is finite if both are, and so is the update of each child.
LEMMA FiniteMerge ==
    ASSUME NEW c, NEW u, IsFiniteSet(DOMAIN c), IsFiniteSet(DOMAIN u)
    PROVE  IsFiniteSet(DOMAIN Merge(c, u)) /\ IsFiniteSet(DOMAIN EachChild(c, u))
<1>1. IsFiniteSet(DOMAIN c \cup DOMAIN u)
  BY FS_Union
<1>2. DOMAIN Merge(c, u) \in SUBSET (DOMAIN c \cup DOMAIN u)
  BY DEF Merge, Override, Restrict
<1>3. IsFiniteSet(DOMAIN Merge(c, u))
  BY <1>1, <1>2, FS_Subset
<1>4. PICK A, B, S, f : /\ A = ChildPaths(c, Root) /\ B = DOMAIN u
                        /\ S = A \X B /\ f = [yz \in S |-> yz[1] \o yz[2]]
  OBVIOUS
<1>5. IsFiniteSet(S)
  <2>1. IsFiniteSet(A) /\ IsFiniteSet(B)
    BY <1>4, FS_Subset DEF ChildPaths
  <2> QED
    BY <1>4, <2>1, FS_Product
<1>6. f = [yz \in S |-> f[yz]]
  BY <1>4
<1>7. IsFiniteSet({f[yz] : yz \in S})
  BY <1>5, <1>6, FiniteImage
<1>8. ASSUME NEW y \in A, NEW z \in B PROVE y \o z \in {f[yz] : yz \in S}
  <2>1. <<y, z>> \in S /\ f[<<y, z>>] = y \o z
    BY <1>4
  <2> QED
    BY <2>1
<1>9. PICK T : T = {f[yz] : yz \in S}
  OBVIOUS
<1>10. IsFiniteSet(T \cup {Root})
  BY <1>7, <1>9, FS_AddElement
<1>11. DOMAIN EachChild(c, u) \subseteq T \cup {Root}
  <2>1. DOMAIN EachChild(c, u) = {Root} \cup {y \o z : y \in A, z \in B}
    BY <1>4 DEF EachChild
  <2>2. ASSUME NEW x, x \in {y \o z : y \in A, z \in B} PROVE x \in T
    <3>1. PICK y \in A, z \in B : x = y \o z
      BY <2>2
    <3> QED
      BY <3>1, <1>8, <1>9
  <2> QED
    BY <2>1, <2>2
<1> QED
  BY <1>3, <1>10, <1>11, FS_Subset

\* Every call leaves the tables finite.
LEMMA FInvNext == FInv /\ [Next]_vars => FInv'
<1> SUFFICES ASSUME FInv, [Next]_vars PROVE FInv'
  OBVIOUS
<1>1. IInv'
  BY IInvNext DEF FInv
<1>2. ASSUME UNCHANGED <<containers, primitives>>
      PROVE  FiniteRows(containers') /\ IsFiniteSet(DOMAIN primitives')
  BY <1>2 DEF FInv
<1>3. CASE UNCHANGED vars
  BY <1>1, <1>2, <1>3 DEF vars, FInv
<1>4. ASSUME NEW p \in DocPaths, NEW t \in Texts, NEW limit \in Limits, SetJson(p, t, limit) \/ ImportCsv(p, t, limit)
      PROVE  FiniteRows(containers') /\ IsFiniteSet(DOMAIN primitives')
  <2>1. p \in Path /\ IsText(t) /\ IsFiniteSet(DOMAIN t)
    BY EngineAssumption
  <2>2. CASE ImportCsv(p, t, limit)
    BY <2>1, <2>2, ImportFinite
  <2>3. CASE WriteText(p, t, limit)
    BY <2>1, <2>3, WriteTextFinite
  <2>4. CASE UNCHANGED <<containers, primitives>>
    BY <1>2, <2>4
  <2> QED
    BY <1>4, <2>2, <2>3, <2>4 DEF SetJson
<1>5. ASSUME NEW p \in DocPaths, RemoveJson(p)
      PROVE  FiniteRows(containers') /\ IsFiniteSet(DOMAIN primitives')
  BY <1>5, FiniteRestrict DEF RemoveJson, Outside, OutsideStrictly, FInv
<1>6. ASSUME NEW p \in DocPaths, NEW u \in Updates, UpdateLeaf(p, u)
      PROVE  FiniteRows(containers') /\ IsFiniteSet(DOMAIN primitives')
  BY <1>6, LeafFinite, EngineAssumption
<1>7. ASSUME NEW p \in DocPaths, NEW u \in Updates, UpdateFull(p, u)
      PROVE  FiniteRows(containers') /\ IsFiniteSet(DOMAIN primitives')
  <2>1. p \in Path /\ IsText(u) /\ IsFiniteSet(DOMAIN u) /\ u[Root] = Obj
    BY EngineAssumption
  <2>2. PICK m : m = IF Exists(p) THEN Merge(Extract(p), u) ELSE u
    OBVIOUS
  <2>3. IsText(m)
    BY <2>1, <2>2, ExtractIsText, MergeIsText DEF FInv
  <2>4. IsFiniteSet(DOMAIN m)
    BY <2>1, <2>2, FiniteExtract, FiniteMerge
  <2>5. WriteText(p, m, DefaultLimit)
    BY <1>7, <2>2 DEF UpdateFull
  <2> QED
    BY <2>1, <2>3, <2>4, <2>5, WriteTextFinite
<1>8. ASSUME NEW p \in DocPaths, NEW u \in Updates, UpdateWildcard(p, u)
      PROVE  FiniteRows(containers') /\ IsFiniteSet(DOMAIN primitives')
  <2>1. p \in Path /\ IsText(u) /\ IsFiniteSet(DOMAIN u) /\ u[Root] = Obj
    BY EngineAssumption
  <2>2. PICK e, m : e = Extract(p) /\ m = Merge(e, EachChild(e, u))
    OBVIOUS
  <2>3. Exists(p) /\ WriteText(p, m, DefaultLimit)
    BY <1>8, <2>2 DEF UpdateWildcard
  <2>4. IsText(e) /\ e[Root] = Obj
    BY <2>1, <2>2, <2>3, ExtractIsText DEF FInv
  <2>5. IsText(EachChild(e, u)) /\ EachChild(e, u)[Root] = Obj
    BY <2>1, <2>4, EachChildIsText
  <2>6. IsText(m)
    BY <2>2, <2>4, <2>5, MergeIsText
  <2>7. IsFiniteSet(DOMAIN e)
    BY <2>2, FiniteExtract
  <2>8. IsFiniteSet(DOMAIN EachChild(e, u))
    BY <2>1, <2>7, FiniteMerge
  <2>9. IsFiniteSet(DOMAIN m)
    BY <2>2, <2>7, <2>8, FiniteMerge
  <2> QED
    BY <2>1, <2>3, <2>6, <2>9, WriteTextFinite
<1> QED
  BY <1>1, <1>3, <1>4, <1>5, <1>6, <1>7, <1>8 DEF Next, FInv

\* However clients write, there are finitely many rows, and inlined entries.
LEMMA TablesStayFinite == Spec => []FInv
<1>1. Init => FInv
  BY IInvInit, FS_EmptySet DEF Init, FInv, FiniteRows, Nothing
<1> QED
  BY <1>1, FInvNext, PTL DEF Spec

-----------------------------------------------------------------------------
(***************************************************************************)
(* Recursion along 1..n                                                    *)
(***************************************************************************)

\* A run of the steps g from a.
IsRun(f, n, S, a, g) == f \in [0..n -> S] /\ f[0] = a /\ \A i \in 1..n : f[i] = g[i][f[i - 1]]

\* A recursion along 1..n that stays in S has a value at every place.
LEMMA RecursionExists ==
    ASSUME NEW n \in Nat, NEW S, NEW a \in S, NEW g \in [1..n -> [S -> S]]
    PROVE  \E f : IsRun(f, n, S, a, g)
<1> DEFINE Upto(m) == \E f : IsRun(f, m, S, a, g)
           Bad == {m \in 0..n : ~Upto(m)}
<1> SUFFICES ASSUME Bad # {} PROVE FALSE
  <2>1. n \in 0..n
    OBVIOUS
  <2> QED
    BY <2>1
<1>1. PICK m \in Bad : \A l \in Bad : m <= l
  <2>1. Bad \subseteq Nat
    OBVIOUS
  <2> HIDE DEF Bad
  <2> QED
    BY <2>1, LeastNat
<1>2. m # 0
  <2>1. Upto(0)
    <3>1. PICK f : f = [i \in 0..0 |-> a]
      OBVIOUS
    <3>2. f \in [0..0 -> S] /\ f[0] = a /\ 1..0 = {}
      BY <3>1
    <3> QED
      BY <3>2 DEF IsRun
  <2> QED
    BY <1>1, <2>1
<1>3. m \in 1..n /\ m - 1 \in 0..n /\ ~(m <= m - 1)
  BY <1>1, <1>2
<1>4. Upto(m - 1)
  BY <1>1, <1>3
<1>5. PICK f \in [0..(m - 1) -> S] : f[0] = a /\ \A i \in 1..(m - 1) : f[i] = g[i][f[i - 1]]
  BY <1>4 DEF IsRun
<1>6. PICK h : h = [i \in 0..m |-> IF i = m THEN g[m][f[m - 1]] ELSE f[i]]
  OBVIOUS
<1>7. f[m - 1] \in S /\ g[m][f[m - 1]] \in S
  BY <1>3, <1>5
<1>8. h \in [0..m -> S] /\ h[0] = a
  BY <1>2, <1>3, <1>5, <1>6, <1>7
<1>9. ASSUME NEW i \in 1..m PROVE h[i] = g[i][h[i - 1]]
  <2>1. i - 1 \in 0..m /\ i - 1 # m /\ h[i - 1] = f[i - 1]
    BY <1>3, <1>6
  <2>2. CASE i = m
    BY <1>6, <2>1, <2>2
  <2>3. CASE i # m
    <3>1. i \in 1..(m - 1) /\ h[i] = f[i]
      BY <1>3, <1>6, <2>3
    <3> QED
      BY <1>5, <2>1, <3>1
  <2> QED
    BY <2>2, <2>3
<1>10. Upto(m)
  BY <1>8, <1>9 DEF IsRun
<1> QED
  BY <1>1, <1>10

\* Induction along 0..n in a set.
LEMMA RecursionStays ==
    ASSUME NEW n \in Nat, NEW S, NEW h, h[0] \in S,
           \A i \in 1..n : h[i - 1] \in S => h[i] \in S
    PROVE  \A i \in 0..n : h[i] \in S
<1> DEFINE Bad == {i \in 0..n : h[i] \notin S}
<1> SUFFICES ASSUME Bad # {} PROVE FALSE
  OBVIOUS
<1>1. PICK i \in Bad : \A j \in Bad : i <= j
  <2>1. Bad \subseteq Nat
    OBVIOUS
  <2> HIDE DEF Bad
  <2> QED
    BY <2>1, LeastNat
<1>2. i \in 1..n /\ i - 1 \in 0..n /\ ~(i <= i - 1)
  BY <1>1
<1>3. h[i - 1] \in S
  BY <1>1, <1>2
<1> QED
  BY <1>1, <1>2, <1>3

\* The less of two numbers.
LEMMA MinOfTwo ==
    ASSUME NEW a \in Int, NEW b \in Int
    PROVE  Min({a, b}) = IF a <= b THEN a ELSE b
<1>1. \E x \in {a, b} : \A y \in {a, b} : x <= y
  OBVIOUS
<1> QED
  BY <1>1 DEF Min

\* A part that ends before it begins is empty.
LEMMA EmptyPart ==
    ASSUME NEW s, NEW i \in Int, NEW j \in Int, i > j
    PROVE  SubSeq(s, i, j) = <<>>
<1>1. SubSeq(s, i, j) = [k \in 1..(1 + j - i) |-> s[i + k - 1]]
  OBVIOUS
<1>2. \A k : k \notin 1..(1 + j - i)
  OBVIOUS
<1> QED
  BY <1>1, <1>2

\* A page of a list is a part of it.
LEMMA PageIsPart ==
    ASSUME NEW s, Len(s) \in Nat, NEW q, q.skip \in Nat, q.take \in Nat
    PROVE  /\ (q.skip = 0 /\ q.take = 0 => Page(s, q) = SubSeq(s, 1, Len(s)))
           /\ (q.take # 0 => Page(s, q) = SubSeq(s, q.skip + 1, Min({q.skip + q.take, Len(s)})))
<1>1. ASSUME q.skip = 0, q.take = 0 PROVE Page(s, q) = SubSeq(s, 1, Len(s))
  BY <1>1 DEF Page
<1> QED
  BY <1>1 DEF Page

\* The values of a page are a part of the values of all entries.
LEMMA EvaluatedPages ==
    ASSUME NEW children, NEW filters, NEW q, q.skip \in Nat, q.take \in Nat, q.take # 0,
           NEW all, all.skip = 0, all.take = 0, all.order = q.order,
           Len(Sorted(Passing(children, filters), q.order)) \in Nat
    PROVE  LET result == Evaluated(children, filters, all) IN
           Evaluated(children, filters, q) = SubSeq(result, q.skip + 1, Min({q.skip + q.take, Len(result)}))
<1>1. PICK s : s = Sorted(Passing(children, filters), q.order)
  OBVIOUS
<1>2. PICK n \in Nat, k \in Nat, z \in Nat : n = Len(s) /\ k = q.skip /\ z = q.take /\ z # 0
  BY <1>1
<1>3. PICK m : m = Min({k + z, n})
  OBVIOUS
<1>4. m \in Nat /\ m <= n
  BY <1>2, <1>3, MinOfTwo
<1>5. Page(s, all) = SubSeq(s, 1, n) /\ Page(s, q) = SubSeq(s, k + 1, m)
  <2>1. all.skip \in Nat /\ all.take \in Nat /\ Len(s) \in Nat
    BY <1>2
  <2>2. Page(s, all) = SubSeq(s, 1, Len(s))
    BY <2>1, PageIsPart
  <2>3. Page(s, q) = SubSeq(s, q.skip + 1, Min({q.skip + q.take, Len(s)}))
    BY <2>1, PageIsPart
  <2> QED
    BY <1>2, <1>3, <2>2, <2>3
<1>6. PICK result, part : result = Evaluated(children, filters, all) /\ part = Evaluated(children, filters, q)
  OBVIOUS
<1>7. result = [i \in 1..n |-> s[i].val]
  <2>1. PICK paged : paged = SubSeq(s, 1, n)
    OBVIOUS
  <2>2. paged = [i \in 1..n |-> s[i]] /\ Len(paged) = n
    BY <2>1
  <2>3. result = [i \in 1..Len(paged) |-> paged[i].val]
    BY <1>1, <1>5, <1>6, <2>1 DEF Evaluated
  <2> QED
    BY <2>2, <2>3
<1>8. Len(result) = n
  BY <1>7
<1>9. PICK len : len = IF m < k + 1 THEN 0 ELSE m - k
  OBVIOUS
<1>10. len \in Nat /\ 1..(1 + m - (k + 1)) = 1..len
  BY <1>4, <1>9
<1>11. part = [i \in 1..len |-> s[k + i].val]
  <2>1. PICK paged : paged = SubSeq(s, k + 1, m)
    OBVIOUS
  <2>2. paged = [i \in 1..len |-> s[k + i]]
    <3>1. paged = [i \in 1..(1 + m - (k + 1)) |-> s[(k + 1) + i - 1]]
      BY <2>1, <1>4
    <3>2. paged = [i \in 1..len |-> s[(k + 1) + i - 1]]
      BY <3>1, <1>10
    <3>3. \A i \in 1..len : (k + 1) + i - 1 = k + i
      BY <1>10
    <3> QED
      BY <3>2, <3>3
  <2>3. Len(paged) = len
    BY <2>2, <1>10
  <2>4. part = [i \in 1..Len(paged) |-> paged[i].val]
    BY <1>1, <1>5, <1>6, <2>1 DEF Evaluated
  <2> QED
    BY <2>2, <2>3, <2>4
<1>12. SubSeq(result, k + 1, m) = [i \in 1..len |-> s[k + i].val]
  <2>1. SubSeq(result, k + 1, m) = [i \in 1..(1 + m - (k + 1)) |-> result[(k + 1) + i - 1]]
    BY <1>4
  <2>2. SubSeq(result, k + 1, m) = [i \in 1..len |-> result[(k + 1) + i - 1]]
    BY <2>1, <1>10
  <2>3. \A i \in 1..len : (k + 1) + i - 1 = k + i /\ k + i \in 1..n
    BY <1>4, <1>9, <1>10
  <2>4. \A i \in 1..len : result[(k + 1) + i - 1] = s[k + i].val
    BY <2>3, <1>7
  <2> QED
    BY <2>2, <2>4
<1> QED
  BY <1>2, <1>3, <1>6, <1>8, <1>11, <1>12

-----------------------------------------------------------------------------
(***************************************************************************)
(* Filtered and sorted children are lists                                  *)
(***************************************************************************)

\* The entries of a list of n children.
EntriesOf(children, n) == {[val |-> children[i], index |-> i] : i \in 1..n}

\* The children that pass are a list of entries.
LEMMA PassingIsList ==
    ASSUME NEW children, Len(children) \in Nat, NEW filters
    PROVE  Passing(children, filters) \in Seq(EntriesOf(children, Len(children)))
<1>0. PICK n \in Nat : n = Len(children)
  OBVIOUS
<1>1. PICK E : E = EntriesOf(children, n)
  OBVIOUS
<1> DEFINE Step(i, s) == IF ~Passes(children[i], filters) THEN s
                         ELSE Append(s, [val |-> children[i], index |-> i])
           Good(f) == f = [i \in 0..n |-> IF i = 0 THEN <<>>
                                          ELSE IF ~Passes(children[i], filters) THEN f[i - 1]
                                          ELSE Append(f[i - 1], [val |-> children[i], index |-> i])]
<1>2. ASSUME NEW i \in 1..n, NEW s \in Seq(E) PROVE Step(i, s) \in Seq(E)
  <2>1. PICK e : e = [val |-> children[i], index |-> i]
    OBVIOUS
  <2>2. e \in E
    BY <1>1, <2>1 DEF EntriesOf
  <2> QED
    BY <2>1, <2>2
<1>3. PICK g \in [1..n -> [Seq(E) -> Seq(E)]] : \A i \in 1..n, s \in Seq(E) : g[i][s] = Step(i, s)
  <2>1. PICK g : g = [i \in 1..n |-> [s \in Seq(E) |-> Step(i, s)]]
    OBVIOUS
  <2> HIDE DEF Step
  <2> QED
    BY <1>2, <2>1
<1>4. PICK f \in [0..n -> Seq(E)] : f[0] = <<>> /\ \A i \in 1..n : f[i] = g[i][f[i - 1]]
  <2>1. PICK S, a : S = Seq(E) /\ a = <<>>
    OBVIOUS
  <2>2. a \in S /\ g \in [1..n -> [S -> S]]
    BY <2>1
  <2>3. PICK f : IsRun(f, n, S, a, g)
    <3> HIDE DEF Step, Good
    <3>1. n \in Nat
      OBVIOUS
    <3> QED
      BY <2>2, <3>1, RecursionExists
  <2> QED
    BY <2>1, <2>3 DEF IsRun
<1>5. Good(f)
  <2>1. ASSUME NEW i \in 1..n PROVE f[i] = Step(i, f[i - 1])
    <3>1. i - 1 \in 0..n
      OBVIOUS
    <3> HIDE DEF Step
    <3> QED
      BY <1>3, <1>4, <3>1
  <2>2. \A i \in 0..n : i = 0 \/ i \in 1..n
    OBVIOUS
  <2> QED
    BY <1>4, <2>1, <2>2
<1>6. ASSUME NEW h, Good(h) PROVE h[n] \in Seq(E)
  <2>1. h[0] = <<>> /\ n \in 0..n
    BY <1>6
  <2>2. ASSUME NEW i \in 1..n, h[i - 1] \in Seq(E) PROVE h[i] \in Seq(E)
    <3>1. h[i] = Step(i, h[i - 1])
      <4>1. i \in 0..n /\ i # 0
        OBVIOUS
      <4> QED
        BY <1>6, <4>1
    <3> HIDE DEF Step, Good
    <3> QED
      BY <1>2, <2>2, <3>1
  <2>3. h[0] \in Seq(E)
    BY <2>1
  <2> HIDE DEF Good
  <2>4. \A i \in 0..n : h[i] \in Seq(E)
    BY <2>2, <2>3, RecursionStays
  <2> QED
    BY <2>1, <2>4
<1>7. Passing(children, filters) = (CHOOSE f1 : Good(f1))[n]
  BY <1>0 DEF Passing
<1> HIDE DEF Good
<1>8. PICK h : h = CHOOSE f1 : Good(f1)
  OBVIOUS
<1>9. Good(h)
  BY <1>5, <1>8
<1>10. h[n] \in Seq(E)
  BY <1>6, <1>9
<1> QED
  BY <1>0, <1>1, <1>7, <1>8, <1>10

\* he_qsort moves the next entry to a place in the list.
LEMMA InsertedIsList ==
    ASSUME NEW E, NEW sorted \in Seq(E), NEW e \in E, NEW order
    PROVE  Inserted(sorted, e, order) \in Seq(E)
<1>1. PICK n \in Nat : n = Len(sorted)
  OBVIOUS
<1> DEFINE Place(i) == /\ \A j \in i..n : After(sorted[j], e, order)
                       /\ i > 1 => ~After(sorted[i - 1], e, order)
           B == {i \in 1..n + 1 : \A j \in i..n : After(sorted[j], e, order)}
<1>2. PICK i \in B : \A j \in B : i <= j
  <2>1. B \subseteq Nat /\ n + 1 \in B
    OBVIOUS
  <2> HIDE DEF B
  <2> QED
    BY <2>1, LeastNat
<1>3. Place(i)
  <2>1. ASSUME i > 1 PROVE ~After(sorted[i - 1], e, order)
    <3>1. i - 1 \in 1..n + 1 /\ ~(i <= i - 1)
      BY <1>2, <2>1
    <3>2. i - 1 \notin B
      BY <1>2, <3>1
    <3>3. PICK j \in (i - 1)..n : ~After(sorted[j], e, order)
      BY <3>1, <3>2
    <3>4. j \notin i..n
      BY <1>2, <3>3
    <3>5. j = i - 1
      BY <1>2, <3>3, <3>4
    <3> QED
      BY <3>3, <3>5
  <2> QED
    BY <1>2, <2>1
<1>4. PICK place : place = CHOOSE k \in 1..n + 1 : Place(k)
  OBVIOUS
<1>5. place \in 1..n + 1
  <2>1. i \in 1..n + 1
    BY <1>2
  <2> HIDE DEF Place
  <2> QED
    BY <1>3, <1>4, <2>1
<1>6. Inserted(sorted, e, order) = InsertAt(sorted, place, e)
  BY <1>1, <1>4 DEF Inserted
<1>7. InsertAt(sorted, place, e) = SubSeq(sorted, 1, place - 1) \o <<e>> \o SubSeq(sorted, place, n)
  BY <1>1 DEF InsertAt
<1>8. SubSeq(sorted, 1, place - 1) \in Seq(E) /\ SubSeq(sorted, place, n) \in Seq(E)
  <2>1. \A k \in 1..place - 1 : k \in 1..n
    BY <1>5
  <2>2. \A k \in place..n : k \in 1..n
    BY <1>5
  <2> QED
    BY <1>1, <1>5, <2>1, <2>2
<1>9. <<e>> \in Seq(E)
  OBVIOUS
<1> QED
  BY <1>6, <1>7, <1>8, <1>9

\* The sorted entries are a list of the same entries.
LEMMA SortedIsList ==
    ASSUME NEW E, NEW entries \in Seq(E), NEW order
    PROVE  Sorted(entries, order) \in Seq(E)
<1>0. PICK n \in Nat : n = Len(entries)
  OBVIOUS
<1> DEFINE Good(f) == f = [i \in 0..n |-> IF i = 0 THEN <<>> ELSE Inserted(f[i - 1], entries[i], order)]
<1>1. PICK S, a : S = Seq(E) /\ a = <<>>
  OBVIOUS
<1>2. ASSUME NEW i \in 1..n, NEW s \in S PROVE Inserted(s, entries[i], order) \in S
  <2>1. entries[i] \in E
    BY <1>0
  <2> QED
    BY <1>1, <2>1, InsertedIsList
<1>3. PICK g : g = [i \in 1..n |-> [s \in S |-> Inserted(s, entries[i], order)]]
  OBVIOUS
<1>4. g \in [1..n -> [S -> S]]
  BY <1>2, <1>3
<1>5. a \in S
  BY <1>1
<1>6. PICK f : IsRun(f, n, S, a, g)
  <2> HIDE DEF Good
  <2> QED
    BY <1>4, <1>5, RecursionExists
<1>7. Good(f)
  <2>1. f \in [0..n -> S] /\ f[0] = <<>> /\ \A i \in 1..n : f[i] = g[i][f[i - 1]]
    BY <1>1, <1>6 DEF IsRun
  <2>2. ASSUME NEW i \in 1..n PROVE f[i] = Inserted(f[i - 1], entries[i], order)
    <3>1. i - 1 \in 0..n
      OBVIOUS
    <3> QED
      BY <1>3, <2>1, <3>1
  <2>3. \A i \in 0..n : i = 0 \/ i \in 1..n
    OBVIOUS
  <2> QED
    BY <2>1, <2>2, <2>3
<1>8. ASSUME NEW h, Good(h) PROVE h[n] \in S
  <2>1. h[0] \in S /\ n \in 0..n
    BY <1>1, <1>8
  <2>2. ASSUME NEW i \in 1..n, h[i - 1] \in S PROVE h[i] \in S
    <3>1. h[i] = Inserted(h[i - 1], entries[i], order)
      <4>1. i \in 0..n /\ i # 0
        OBVIOUS
      <4> QED
        BY <1>8, <4>1
    <3> QED
      BY <1>2, <2>2, <3>1
  <2> HIDE DEF Good
  <2>3. \A i \in 0..n : h[i] \in S
    BY <2>1, <2>2, RecursionStays
  <2> QED
    BY <2>1, <2>3
<1>9. Sorted(entries, order) = IF order = <<>> THEN entries ELSE (CHOOSE f1 : Good(f1))[n]
  BY <1>0 DEF Sorted
<1> HIDE DEF Good
<1>10. PICK h : h = CHOOSE f1 : Good(f1)
  OBVIOUS
<1>11. Good(h)
  BY <1>7, <1>10
<1>12. h[n] \in Seq(E)
  BY <1>1, <1>8, <1>11
<1> QED
  BY <1>9, <1>10, <1>12

-----------------------------------------------------------------------------
(***************************************************************************)
(* General and Direct take parts of one list                               *)
(***************************************************************************)

\* The part of the result that a page of q.take after the first q.skip is.
IsPage(part, result, q) == part = SubSeq(result, q.skip + 1, Min({q.skip + q.take, Len(result)}))

\* A finite set of rows or of keys has a list with a length.
LEMMA ListsOfSets ==
    ASSUME NEW S, IsFiniteSet(S)
    PROVE  Len(RowsInOrder(S)) \in Nat /\ Len(KeysInOrder(S)) \in Nat
<1>1. PICK n : n = Cardinality(S)
  OBVIOUS
<1>2. n \in Nat
  BY <1>1, FS_CardinalityType
<1>3. RowsInOrder(S) = [i \in 1..n |-> CHOOSE x \in S : Cardinality({y \in S : RowBefore(y, x)}) = i - 1]
  BY <1>1 DEF RowsInOrder, InOrder
<1>4. KeysInOrder(S) = [i \in 1..n |-> CHOOSE x \in S : Cardinality({y \in S : KeyBefore(y, x)}) = i - 1]
  BY <1>1 DEF KeysInOrder, InOrder
<1>5. Len(RowsInOrder(S)) = n
  BY <1>2, <1>3
<1>6. Len(KeysInOrder(S)) = n
  BY <1>2, <1>4
<1> QED
  BY <1>2, <1>5, <1>6

\* Evaluated by pages, children give their values in parts.
LEMMA EvaluatedTiles ==
    ASSUME NEW children, Len(children) \in Nat, NEW filters, NEW q, q.skip \in Nat, q.take \in Nat \ {0},
           NEW all, all.skip = 0, all.take = 0, all.order = q.order
    PROVE  IsPage(Evaluated(children, filters, q), Evaluated(children, filters, all), q)
<1>1. PICK E : E = EntriesOf(children, Len(children))
  OBVIOUS
<1>2. Passing(children, filters) \in Seq(E)
  BY <1>1, PassingIsList
<1>3. Sorted(Passing(children, filters), q.order) \in Seq(E)
  BY <1>2, SortedIsList
<1>4. Len(Sorted(Passing(children, filters), q.order)) \in Nat
  BY <1>3
<1> QED
  BY <1>4, EvaluatedPages DEF IsPage

\* The rows a query takes from finite tables are finite.
LEMMA FiniteRowsAt ==
    ASSUME FInv, NEW S, NEW T, T \subseteq RowsAt(S)
    PROVE  IsFiniteSet(T)
<1>1. PICK C, f : C = DOMAIN containers /\ f = [x \in C |-> [path |-> x, slash |-> TRUE]]
  OBVIOUS
<1>2. PICK D, g : D = DOMAIN primitives /\ g = [x \in D |-> [path |-> x, slash |-> FALSE]]
  OBVIOUS
<1>3. f = [x \in C |-> f[x]] /\ g = [x \in D |-> g[x]]
  BY <1>1, <1>2
<1>4. IsFiniteSet(C) /\ IsFiniteSet(D)
  BY <1>1, <1>2 DEF FInv, FiniteRows
<1>5. IsFiniteSet({f[x] : x \in C}) /\ IsFiniteSet({g[x] : x \in D})
  BY <1>3, <1>4, FiniteImage
<1>6. PICK F, G : F = {f[x] : x \in C} /\ G = {g[x] : x \in D}
  OBVIOUS
<1>7. IsFiniteSet(F \cup G)
  BY <1>5, <1>6, FS_Union
<1>8. ASSUME NEW r \in T PROVE r \in F \cup G
  <2>1. CASE \E x \in S \cap DOMAIN containers : r = [path |-> x, slash |-> TRUE]
    <3>1. PICK x \in C : r = [path |-> x, slash |-> TRUE]
      BY <1>1, <2>1
    <3>2. r = f[x]
      BY <1>1, <3>1
    <3> QED
      BY <1>6, <3>2
  <2>2. CASE \E x \in S \cap DOMAIN primitives : r = [path |-> x, slash |-> FALSE]
    <3>1. PICK x \in D : r = [path |-> x, slash |-> FALSE]
      BY <1>2, <2>2
    <3>2. r = g[x]
      BY <1>2, <3>1
    <3> QED
      BY <1>6, <3>2
  <2> QED
    BY <2>1, <2>2 DEF RowsAt
<1> QED
  BY <1>7, <1>8, FS_Subset

\* What General and Direct take their page of does not depend on the page.
LEMMA GeneralTiles ==
    ASSUME FInv, NEW pattern, NEW q, q.skip \in Nat, q.take \in Nat \ {0},
           NEW all, all.skip = 0, all.take = 0, all.order = q.order, all.filters = q.filters
    PROVE  IsPage(General(pattern, q), General(pattern, all), q)
<1>1. PICK onSegment : onSegment = {f \in q.filters : OnSegment(f)}
  OBVIOUS
<1>2. PICK T : T = {r \in RowsThatMatch(pattern, onSegment) : Exists(r.path)}
  OBVIOUS
<1>3. PICK rows : rows = RowsInOrder(T)
  OBVIOUS
<1>4. PICK children : children = [i \in 1..Len(rows) |-> Extract(rows[i].path)]
  OBVIOUS
<1>5. Len(children) \in Nat
  <2>1. IsFiniteSet(T)
    <3>1. PICK S : S = {x \in DOMAIN containers \cup DOMAIN primitives : WildcardMatches(x, pattern)}
      OBVIOUS
    <3>2. RowsThatMatch(pattern, onSegment) \subseteq RowsAt(S)
      BY <3>1 DEF RowsThatMatch
    <3> QED
      BY <1>2, <3>2, FiniteRowsAt
  <2>2. Len(rows) \in Nat
    BY <1>3, <2>1, ListsOfSets
  <2> QED
    BY <1>4, <2>2
<1>6. General(pattern, q) = Evaluated(children, q.filters \ onSegment, q)
  BY <1>1, <1>2, <1>3, <1>4 DEF General
<1>7. General(pattern, all) = Evaluated(children, q.filters \ onSegment, all)
  BY <1>1, <1>2, <1>3, <1>4 DEF General
<1>8. IsPage(Evaluated(children, q.filters \ onSegment, q), Evaluated(children, q.filters \ onSegment, all), q)
  BY <1>5, EvaluatedTiles
<1> QED
  BY <1>6, <1>7, <1>8

\* So is the list of the children that Direct rebuilds.
LEMMA DirectTiles ==
    ASSUME FInv, NEW p, NEW q, q.skip \in Nat, q.take \in Nat \ {0},
           NEW all, all.skip = 0, all.take = 0, all.order = q.order, all.filters = q.filters
    PROVE  IsPage(Direct(p, q), Direct(p, all), q)
<1>1. CASE ~Exists(p)
  <2>1. Direct(p, all) = <<>> /\ Direct(p, q) = <<>>
    BY <1>1 DEF Direct
  <2>2. PICK m \in Nat : m = Min({q.skip + q.take, 0}) /\ m = 0
    BY MinOfTwo
  <2>3. SubSeq(<<>>, q.skip + 1, m) = <<>>
    BY <2>2, EmptyPart
  <2>4. Len(<<>>) = 0
    OBVIOUS
  <2> QED
    BY <2>1, <2>2, <2>3, <2>4 DEF IsPage
<1>2. CASE Exists(p)
  <2>1. PICK t : t = Extract(p)
    OBVIOUS
  <2>2. PICK L : L = {Last(x) : x \in ChildPaths(t, Root)}
    OBVIOUS
  <2>3. PICK keys : keys = KeysInOrder(L)
    OBVIOUS
  <2>4. PICK children : children = [i \in 1..Len(keys) |-> Child(t, keys[i])]
    OBVIOUS
  <2>5. Len(children) \in Nat
    <3>1. IsFiniteSet(ChildPaths(t, Root))
      <4>1. IsFiniteSet(DOMAIN t)
        BY <2>1, FiniteExtract
      <4>2. ChildPaths(t, Root) \subseteq DOMAIN t
        BY DEF ChildPaths
      <4> QED
        BY <4>1, <4>2, FS_Subset
    <3>2. PICK K, f : K = ChildPaths(t, Root) /\ f = [x \in K |-> Last(x)]
      OBVIOUS
    <3>3. f = [x \in K |-> f[x]]
      BY <3>2
    <3>4. IsFiniteSet({f[x] : x \in K})
      BY <3>1, <3>2, <3>3, FiniteImage
    <3>5. L = {f[x] : x \in K}
      BY <2>2, <3>2
    <3>6. Len(keys) \in Nat
      BY <2>3, <3>4, <3>5, ListsOfSets
    <3> QED
      BY <2>4, <3>6
  <2>6. Direct(p, q) = Evaluated(children, q.filters, q) /\ Direct(p, all) = Evaluated(children, q.filters, all)
    BY <1>2, <2>1, <2>2, <2>3, <2>4 DEF Direct
  <2>7. IsPage(Evaluated(children, q.filters, q), Evaluated(children, q.filters, all), q)
    BY <2>5, EvaluatedTiles
  <2> QED
    BY <2>6, <2>7
<1> QED
  BY <1>1, <1>2

-----------------------------------------------------------------------------
(***************************************************************************)
(* Stream: the scan of a page beside the scan of all                       *)
(***************************************************************************)

\* The states of a scan, one before every row and one at the end.
IsScan(f, m, p, rows, q) ==
    /\ DOMAIN f = 0..m
    /\ f[0] = Begun
    /\ \A i \in 1..m : f[i] = Scanned(f[i - 1], p, rows[i], q)

\* The scan of a list of rows exists: the states before each row and at the end.
LEMMA ScanIs ==
    ASSUME NEW p, NEW rows, Len(rows) \in Nat, NEW q
    PROVE  \E f : IsScan(f, Len(rows), p, rows, q) /\ Scan(p, rows, q) = f[Len(rows)]
<1>0. PICK n \in Nat : n = Len(rows)
  OBVIOUS
<1> DEFINE Good(f) == f = [i \in 0..n |-> IF i = 0 THEN Begun ELSE Scanned(f[i - 1], p, rows[i], q)]
           Upto(m) == \E f : IsScan(f, m, p, rows, q)
           Bad == {m \in 0..n : ~Upto(m)}
<1>1. ASSUME Bad # {} PROVE FALSE
  <2>1. PICK m \in Bad : \A l \in Bad : m <= l
    <3>1. Bad \subseteq Nat
      OBVIOUS
    <3> HIDE DEF Bad
    <3> QED
      BY <1>1, <3>1, LeastNat
  <2>2. m # 0
    <3>1. PICK f : f = [i \in 0..0 |-> Begun]
      OBVIOUS
    <3>2. IsScan(f, 0, p, rows, q)
      BY <3>1 DEF IsScan
    <3> QED
      BY <2>1, <3>2
  <2>3. m \in 1..n /\ m - 1 \in 0..n /\ ~(m <= m - 1)
    BY <2>1, <2>2
  <2>4. PICK f : IsScan(f, m - 1, p, rows, q)
    BY <2>1, <2>3
  <2>5. PICK next : next = Scanned(f[m - 1], p, rows[m], q)
    OBVIOUS
  <2>6. PICK h : h = [i \in 0..m |-> IF i = m THEN next ELSE f[i]]
    OBVIOUS
  <2>7. h[0] = Begun /\ DOMAIN h = 0..m
    BY <2>2, <2>3, <2>4, <2>6 DEF IsScan
  <2>8. ASSUME NEW i \in 1..m PROVE h[i] = Scanned(h[i - 1], p, rows[i], q)
    <3>1. i - 1 \in 0..m /\ i - 1 # m /\ i \in 0..m
      BY <2>3
    <3>2. h[i - 1] = f[i - 1]
      BY <2>6, <3>1
    <3>3. CASE i = m
      BY <2>5, <2>6, <3>1, <3>2, <3>3
    <3>4. CASE i # m
      <4>1. i \in 1..(m - 1) /\ h[i] = f[i]
        BY <2>3, <2>6, <3>1, <3>4
      <4>2. f[i] = Scanned(f[i - 1], p, rows[i], q)
        BY <2>4, <4>1 DEF IsScan
      <4> QED
        BY <3>2, <4>1, <4>2
    <3> QED
      BY <3>3, <3>4
  <2>9. IsScan(h, m, p, rows, q)
    BY <2>7, <2>8 DEF IsScan
  <2> QED
    BY <2>1, <2>9
<1>2. PICK f : IsScan(f, n, p, rows, q)
  <2>1. n \in 0..n
    OBVIOUS
  <2> QED
    BY <1>1, <2>1
<1>3. PICK h : h = [i \in 0..n |-> f[i]]
  OBVIOUS
<1>4. Good(h)
  <2>1. h[0] = Begun
    BY <1>2, <1>3 DEF IsScan
  <2>2. ASSUME NEW i \in 1..n PROVE h[i] = Scanned(h[i - 1], p, rows[i], q)
    <3>1. i - 1 \in 0..n /\ i \in 0..n
      OBVIOUS
    <3>2. h[i] = f[i] /\ h[i - 1] = f[i - 1]
      BY <1>3, <3>1
    <3> QED
      BY <1>2, <3>2 DEF IsScan
  <2>3. \A i \in 0..n : i = 0 \/ i \in 1..n
    OBVIOUS
  <2> QED
    BY <1>3, <2>1, <2>2, <2>3
<1>5. Scan(p, rows, q) = (CHOOSE f1 : Good(f1))[n]
  BY <1>0 DEF Scan
<1>6. ASSUME NEW g, Good(g) PROVE IsScan(g, n, p, rows, q)
  <2>1. DOMAIN g = 0..n /\ g[0] = Begun
    BY <1>6
  <2>2. ASSUME NEW i \in 1..n PROVE g[i] = Scanned(g[i - 1], p, rows[i], q)
    <3>1. i \in 0..n /\ i # 0
      OBVIOUS
    <3> QED
      BY <1>6, <3>1
  <2> QED
    BY <2>1, <2>2 DEF IsScan
<1> HIDE DEF Good
<1>7. PICK g : g = CHOOSE f1 : Good(f1)
  OBVIOUS
<1>8. Good(g)
  BY <1>4, <1>7
<1> QED
  BY <1>0, <1>5, <1>6, <1>7, <1>8

Scans(C) == [child : C \cup {Nothing}, out : Seq(C), skipped : Nat, done : BOOLEAN]

\* b is the scan of a page beside a, the scan of all: it has skipped what there
\* was to skip and holds what a holds from there on, until it has enough.
Follows(a, b, skip, take) ==
    LET n == Len(a.out) IN
    /\ ~a.done /\ a.skipped = 0
    /\ (n < skip + take =>
           /\ ~b.done
           /\ b.child = a.child
           /\ b.skipped = (IF n < skip THEN n ELSE skip)
           /\ b.out = SubSeq(a.out, skip + 1, n))
    /\ (n >= skip + take => b.done /\ b.out = SubSeq(a.out, skip + 1, skip + take))

\* A longer list has the same parts.
LEMMA PartOfLonger ==
    ASSUME NEW C, NEW o \in Seq(C), NEW c \in C, NEW i \in Nat \ {0}, NEW j \in Nat, j <= Len(o)
    PROVE  SubSeq(Append(o, c), i, j) = SubSeq(o, i, j)
<1>1. SubSeq(Append(o, c), i, j) = [k \in 1..(1 + j - i) |-> Append(o, c)[i + k - 1]]
  OBVIOUS
<1>2. SubSeq(o, i, j) = [k \in 1..(1 + j - i) |-> o[i + k - 1]]
  OBVIOUS
<1>3. ASSUME NEW k \in 1..(1 + j - i) PROVE Append(o, c)[i + k - 1] = o[i + k - 1]
  <2>1. i + k - 1 \in 1..Len(o)
    OBVIOUS
  <2> QED
    BY <2>1
<1> QED
  BY <1>1, <1>2, <1>3

\* The part up to the new end is the part up to the old one and what is new.
LEMMA PartGrows ==
    ASSUME NEW C, NEW o \in Seq(C), NEW c \in C, NEW i \in Nat \ {0}, i <= Len(o) + 1
    PROVE  /\ SubSeq(Append(o, c), i, Len(o) + 1) = Append(SubSeq(o, i, Len(o)), c)
           /\ Len(SubSeq(o, i, Len(o))) = Len(o) + 1 - i
<1>1. PICK n \in Nat : n = Len(o)
  OBVIOUS
<1>2. PICK m \in Nat : m = n + 1 - i
  <2>1. n + 1 - i \in Nat
    BY <1>1
  <2> QED
    BY <2>1
<1>3. PICK s : s = SubSeq(o, i, n)
  OBVIOUS
<1>4. s = [k \in 1..m |-> o[i + k - 1]]
  <2>1. s = [k \in 1..(1 + n - i) |-> o[i + k - 1]]
    BY <1>3
  <2>2. 1 + n - i = m
    BY <1>2
  <2> QED
    BY <2>1, <2>2
<1>5. Len(s) = m
  BY <1>4
<1>6. s \in Seq(C)
  <2>1. \A k \in 1..m : i + k - 1 \in 1..n
    BY <1>2
  <2>2. \A k \in 1..m : o[i + k - 1] \in C
    BY <1>1, <2>1
  <2> QED
    BY <1>4, <2>2
<1>7. Append(s, c) = [k \in 1..(m + 1) |-> IF k = m + 1 THEN c ELSE o[i + k - 1]]
  BY <1>4, <1>5, <1>6
<1>8. SubSeq(Append(o, c), i, n + 1) = [k \in 1..(m + 1) |-> Append(o, c)[i + k - 1]]
  <2>1. SubSeq(Append(o, c), i, n + 1) = [k \in 1..(1 + (n + 1) - i) |-> Append(o, c)[i + k - 1]]
    <3>1. PICK j \in Nat : j = n + 1
      OBVIOUS
    <3>3. PICK o2 : o2 = Append(o, c)
      OBVIOUS
    <3>2. SubSeq(o2, i, j) = [k \in 1..(1 + j - i) |-> o2[i + k - 1]]
      OBVIOUS
    <3> QED
      BY <3>1, <3>2, <3>3
  <2>2. 1 + (n + 1) - i = m + 1
    BY <1>2
  <2> QED
    BY <2>1, <2>2
<1>9. ASSUME NEW k \in 1..(m + 1)
      PROVE  Append(o, c)[i + k - 1] = IF k = m + 1 THEN c ELSE o[i + k - 1]
  <2>1. CASE k = m + 1
    <3>1. i + k - 1 = n + 1
      BY <1>2, <2>1
    <3> QED
      BY <1>1, <2>1, <3>1
  <2>2. CASE k # m + 1
    <3>1. i + k - 1 \in 1..n
      BY <1>2, <2>2
    <3> QED
      BY <1>1, <2>2, <3>1
  <2> QED
    BY <2>1, <2>2
<1> QED
  BY <1>1, <1>2, <1>3, <1>5, <1>7, <1>8, <1>9

\* What closing the open child makes of a scan.
LEMMA ClosedFields ==
    ASSUME NEW C, NEW a \in Scans(C), NEW q, q.skip \in Nat, q.take \in Nat
    PROVE  LET e == Close(a, q) IN
           /\ e \in Scans(C)
           /\ e.child = Nothing
           /\ ((a.child = Nothing \/ ~Passes(a.child, q.filters))
                  => e.out = a.out /\ e.skipped = a.skipped /\ (e.done <=> a.done))
           /\ ((a.child # Nothing /\ Passes(a.child, q.filters) /\ a.skipped < q.skip)
                  => e.out = a.out /\ e.skipped = a.skipped + 1 /\ (e.done <=> a.done))
           /\ ((a.child # Nothing /\ Passes(a.child, q.filters) /\ ~(a.skipped < q.skip))
                  => e.out = Append(a.out, a.child) /\ e.skipped = a.skipped
                     /\ (e.done <=> Len(a.out) + 1 = q.take))
<1>1. PICK e : e = Close(a, q)
  OBVIOUS
<1>2. /\ a.child \in C \cup {Nothing} /\ a.out \in Seq(C) /\ a.skipped \in Nat /\ a.done \in BOOLEAN
      /\ a = [child |-> a.child, out |-> a.out, skipped |-> a.skipped, done |-> a.done]
  BY DEF Scans
<1>3. CASE a.child = Nothing
  BY <1>1, <1>2, <1>3 DEF Close
<1>4. CASE a.child # Nothing /\ ~Passes(a.child, q.filters)
  <2>1. e = [a EXCEPT !.child = Nothing]
    BY <1>1, <1>4 DEF Close
  <2>2. e = [child |-> Nothing, out |-> a.out, skipped |-> a.skipped, done |-> a.done]
    BY <1>2, <2>1
  <2>3. e \in Scans(C)
    BY <1>2, <2>2 DEF Scans
  <2> QED
    BY <1>1, <1>4, <2>2, <2>3
<1>5. CASE a.child # Nothing /\ Passes(a.child, q.filters) /\ a.skipped < q.skip
  <2>1. e = [a EXCEPT !.child = Nothing, !.skipped = @ + 1]
    BY <1>1, <1>5 DEF Close
  <2>2. e = [child |-> Nothing, out |-> a.out, skipped |-> a.skipped + 1, done |-> a.done]
    BY <1>2, <2>1
  <2>3. e \in Scans(C)
    BY <1>2, <2>2 DEF Scans
  <2> QED
    BY <1>1, <1>5, <2>2, <2>3
<1>6. CASE a.child # Nothing /\ Passes(a.child, q.filters) /\ ~(a.skipped < q.skip)
  <2>1. e = [a EXCEPT !.child = Nothing, !.out = Append(@, a.child), !.done = Len(a.out) + 1 = q.take]
    BY <1>1, <1>6 DEF Close
  <2>2. PICK o : o = Append(a.out, a.child)
    OBVIOUS
  <2>3. e = [child |-> Nothing, out |-> o, skipped |-> a.skipped, done |-> Len(a.out) + 1 = q.take]
    BY <1>2, <2>1, <2>2
  <2>4. o \in Seq(C)
    BY <1>2, <1>6, <2>2
  <2>5. e.child = Nothing /\ e.out = o /\ e.skipped = a.skipped /\ (e.done <=> Len(a.out) + 1 = q.take)
    BY <2>3
  <2>6. e \in Scans(C)
    BY <1>2, <2>3, <2>4 DEF Scans
  <2> QED
    BY <1>1, <1>6, <2>2, <2>5, <2>6
<1> QED
  BY <1>3, <1>4, <1>5, <1>6

\* Closing the open child in both scans keeps the page beside all.
LEMMA CloseFollows ==
    ASSUME NEW C, NEW a \in Scans(C), NEW b \in Scans(C),
           NEW all, all.skip = 0, all.take = 0,
           NEW q, q.skip \in Nat, q.take \in Nat \ {0}, q.filters = all.filters,
           Follows(a, b, q.skip, q.take), ~b.done
    PROVE  Follows(Close(a, all), Close(b, q), q.skip, q.take)
<1>1. PICK skip \in Nat, take \in Nat \ {0}, n \in Nat : skip = q.skip /\ take = q.take /\ n = Len(a.out)
  BY DEF Scans
<1>2. PICK d : d = Close(a, all)
  OBVIOUS
<1>3. PICK e : e = Close(b, q)
  OBVIOUS
<1>4. all.skip \in Nat /\ all.take \in Nat
  OBVIOUS
<1>5. /\ ~a.done /\ a.skipped = 0 /\ n < skip + take
      /\ b.child = a.child
      /\ b.skipped = (IF n < skip THEN n ELSE skip)
      /\ b.out = SubSeq(a.out, skip + 1, n)
  BY <1>1 DEF Follows
<1>6. CASE a.child = Nothing \/ ~Passes(a.child, all.filters)
  <2>1. d.out = a.out /\ d.skipped = a.skipped /\ (d.done <=> a.done) /\ d.child = Nothing
    BY <1>2, <1>4, <1>6, ClosedFields
  <2>2. e.out = b.out /\ e.skipped = b.skipped /\ (e.done <=> b.done) /\ e.child = Nothing
    BY <1>3, <1>5, <1>6, ClosedFields
  <2> QED
    BY <1>1, <1>2, <1>3, <1>5, <2>1, <2>2 DEF Follows
<1>7. CASE a.child # Nothing /\ Passes(a.child, all.filters)
  <2>0. PICK c \in C : c = a.child
    BY <1>7 DEF Scans
  <2>1. d.out = Append(a.out, c) /\ d.skipped = 0 /\ (d.done <=> Len(a.out) + 1 = 0) /\ d.child = Nothing
    BY <1>2, <1>4, <1>5, <1>7, <2>0, ClosedFields
  <2>2. PICK o \in Seq(C) : o = a.out
    BY DEF Scans
  <2>3. Len(d.out) = n + 1 /\ ~d.done /\ n = Len(o)
    BY <1>1, <2>1, <2>2
  <2>4. CASE n < skip
    <3>1. e.out = b.out /\ e.skipped = n + 1 /\ ~e.done /\ e.child = Nothing
      BY <1>1, <1>3, <1>5, <1>7, <2>4, ClosedFields
    <3>2. SubSeq(d.out, skip + 1, n + 1) = <<>> /\ b.out = <<>>
      BY <1>5, <2>4, EmptyPart
    <3>3. n + 1 < skip + take
      BY <2>4
    <3>4. (IF n + 1 < skip THEN n + 1 ELSE skip) = n + 1
      BY <2>4
    <3> QED
      BY <1>1, <1>2, <1>3, <2>1, <2>3, <3>1, <3>2, <3>3, <3>4 DEF Follows
  <2>5. CASE ~(n < skip)
    <3>0. b.child = c /\ c # Nothing /\ Passes(c, q.filters) /\ b.skipped = skip /\ ~(b.skipped < q.skip)
      BY <1>1, <1>5, <1>7, <2>0, <2>5
    <3>1. e.out = Append(b.out, c) /\ e.skipped = skip /\ (e.done <=> Len(b.out) + 1 = take) /\ e.child = Nothing
      <4>1. q.skip \in Nat /\ q.take \in Nat /\ take = q.take
        BY <1>1
      <4>2. e.out = Append(b.out, b.child) /\ e.skipped = b.skipped /\ (e.done <=> Len(b.out) + 1 = q.take)
            /\ e.child = Nothing
        BY <1>3, <3>0, <4>1, ClosedFields
      <4> QED
        BY <3>0, <4>1, <4>2
    <3>2. PICK i \in Nat \ {0} : i = skip + 1 /\ i <= n + 1
      BY <2>5
    <3>3. SubSeq(d.out, skip + 1, n + 1) = e.out /\ Len(b.out) = n + 1 - (skip + 1)
      <4>1. i <= Len(o) + 1
        BY <2>3, <3>2
      <4>2. SubSeq(Append(o, c), i, Len(o) + 1) = Append(SubSeq(o, i, Len(o)), c)
            /\ Len(SubSeq(o, i, Len(o))) = Len(o) + 1 - i
        BY <4>1, PartGrows
      <4>3. b.out = SubSeq(o, i, Len(o))
        BY <1>5, <2>2, <2>3, <3>2
      <4>4. d.out = Append(o, c)
        BY <2>1, <2>2
      <4> QED
        BY <2>3, <3>1, <3>2, <4>2, <4>3, <4>4
    <3>4. e.done <=> n + 1 >= skip + take
      BY <1>5, <3>1, <3>3
    <3>5. (IF n + 1 < skip THEN n + 1 ELSE skip) = skip
      BY <2>5
    <3>6. n + 1 >= skip + take => n + 1 = skip + take
      BY <1>5
    <3>7. PICK m \in Nat : m = n + 1 /\ Len(d.out) = m
      BY <2>3
    <3>8. ~d.done /\ d.skipped = 0
      BY <2>1, <2>3
    <3>9. m < skip + take => /\ ~e.done /\ e.child = d.child
                             /\ e.skipped = (IF m < skip THEN m ELSE skip)
                             /\ e.out = SubSeq(d.out, skip + 1, m)
      <4>1. SUFFICES ASSUME m < skip + take
                     PROVE  /\ ~e.done /\ e.child = d.child
                            /\ e.skipped = (IF m < skip THEN m ELSE skip)
                            /\ e.out = SubSeq(d.out, skip + 1, m)
        OBVIOUS
      <4>2. ~e.done
        BY <3>4, <3>7, <4>1
      <4>3. e.child = d.child
        BY <2>1, <3>1
      <4>4. e.skipped = (IF m < skip THEN m ELSE skip)
        BY <3>1, <3>5, <3>7
      <4>5. e.out = SubSeq(d.out, skip + 1, m)
        BY <3>3, <3>7
      <4> QED
        BY <4>2, <4>3, <4>4, <4>5
    <3>10. m >= skip + take => e.done /\ e.out = SubSeq(d.out, skip + 1, skip + take)
      BY <3>3, <3>4, <3>6, <3>7
    <3>11. Follows(d, e, skip, take)
      BY <3>7, <3>8, <3>9, <3>10 DEF Follows
    <3> QED
      BY <1>1, <1>2, <1>3, <3>11
  <2> QED
    BY <2>4, <2>5
<1> QED
  BY <1>6, <1>7

\* The scan of all goes on past the page.
LEMMA CloseLeavesPage ==
    ASSUME NEW C, NEW a \in Scans(C), NEW b \in Scans(C),
           NEW all, all.skip = 0, all.take = 0,
           NEW skip \in Nat, NEW take \in Nat \ {0}, Follows(a, b, skip, take), b.done
    PROVE  Follows(Close(a, all), b, skip, take)
<1>1. PICK d : d = Close(a, all)
  OBVIOUS
<1>2. PICK o \in Seq(C) : o = a.out
  BY DEF Scans
<1>3. PICK n \in Nat : n = Len(o)
  OBVIOUS
<1>4. ~a.done /\ a.skipped = 0 /\ n >= skip + take /\ b.out = SubSeq(o, skip + 1, skip + take)
  <2>1. n < skip + take => ~b.done
    BY <1>2, <1>3 DEF Follows
  <2> QED
    BY <2>1, <1>2, <1>3 DEF Follows
<1>5. all.skip \in Nat /\ all.take \in Nat
  OBVIOUS
<1>6. CASE a.child = Nothing \/ ~Passes(a.child, all.filters)
  <2>1. d.out = o /\ d.skipped = 0 /\ ~d.done
    BY <1>1, <1>2, <1>4, <1>5, <1>6, ClosedFields
  <2> QED
    BY <1>1, <1>3, <1>4, <2>1 DEF Follows
<1>7. CASE a.child # Nothing /\ Passes(a.child, all.filters)
  <2>1. PICK c \in C : c = a.child
    BY <1>7 DEF Scans
  <2>2. d.out = Append(o, c) /\ d.skipped = 0 /\ (d.done <=> n + 1 = 0)
    BY <1>1, <1>2, <1>3, <1>4, <1>5, <1>7, <2>1, ClosedFields
  <2>3. Len(d.out) = n + 1
    BY <1>3, <2>2
  <2>4. PICK i \in Nat \ {0}, j \in Nat : i = skip + 1 /\ j = skip + take
    OBVIOUS
  <2>5. SubSeq(Append(o, c), i, j) = SubSeq(o, i, j)
    BY <1>3, <1>4, <2>4, PartOfLonger
  <2>6. b.out = SubSeq(d.out, skip + 1, skip + take)
    BY <1>4, <2>2, <2>4, <2>5
  <2>7. Len(d.out) >= skip + take /\ ~(Len(d.out) < skip + take)
    BY <1>4, <2>3
  <2>8. ~d.done
    BY <2>2
  <2> QED
    BY <1>1, <2>2, <2>6, <2>7, <2>8 DEF Follows
<1> QED
  BY <1>6, <1>7

\* The same child is opened in both.
LEMMA OpenFollows ==
    ASSUME NEW C, NEW a \in Scans(C), NEW b \in Scans(C), NEW t \in C \cup {Nothing},
           NEW skip \in Nat, NEW take \in Nat \ {0}, Follows(a, b, skip, take)
    PROVE  /\ [a EXCEPT !.child = t] \in Scans(C)
           /\ [b EXCEPT !.child = t] \in Scans(C)
           /\ Follows([a EXCEPT !.child = t], IF b.done THEN b ELSE [b EXCEPT !.child = t], skip, take)
<1>1. PICK d, e : d = [a EXCEPT !.child = t] /\ e = [b EXCEPT !.child = t]
  OBVIOUS
<1>2. /\ d.child = t /\ d.out = a.out /\ d.skipped = a.skipped /\ (d.done <=> a.done)
      /\ e.child = t /\ e.out = b.out /\ e.skipped = b.skipped /\ (e.done <=> b.done)
  BY <1>1 DEF Scans
<1>3. d \in Scans(C) /\ e \in Scans(C)
  BY <1>1 DEF Scans
<1>4. Follows(d, IF b.done THEN b ELSE e, skip, take)
  <2>1. CASE b.done
    BY <1>2, <2>1 DEF Follows
  <2>2. CASE ~b.done
    BY <1>2, <2>2 DEF Follows
  <2> QED
    BY <2>1, <2>2
<1> QED
  BY <1>1, <1>3, <1>4

\* One row more keeps the page beside all.
LEMMA ScannedFollows ==
    ASSUME NEW C, NEW a \in Scans(C), NEW b \in Scans(C), NEW p, NEW r,
           NEW all, all.skip = 0, all.take = 0,
           NEW q, q.skip \in Nat, q.take \in Nat \ {0}, q.filters = all.filters,
           Follows(a, b, q.skip, q.take),
           Scanned(a, p, r, all).child \in C \cup {Nothing}
    PROVE  /\ Scanned(a, p, r, all) \in Scans(C)
           /\ Scanned(b, p, r, q) \in Scans(C)
           /\ Follows(Scanned(a, p, r, all), Scanned(b, p, r, q), q.skip, q.take)
<1>1. PICK skip \in Nat, take \in Nat \ {0} : skip = q.skip /\ take = q.take
  OBVIOUS
<1>2. PICK x : x = Rel(p, r.path)
  OBVIOUS
<1>3. PICK y : y = Rel(<<Head(x)>>, x)
  OBVIOUS
<1>4. PICK t : t = RowText(r)
  OBVIOUS
<1>5. PICK u : u = [z \in {y \o w : w \in DOMAIN t} |-> t[Rel(y, z)]]
  OBVIOUS
<1>6. all.skip \in Nat /\ all.take \in Nat /\ ~a.done
  BY DEF Follows
<1>7. CASE Len(x) = 1
  <2>1. PICK d : d = Close(a, all)
    OBVIOUS
  <2>2. PICK e : e = IF b.done THEN b ELSE Close(b, q)
    OBVIOUS
  <2>3. d \in Scans(C) /\ e \in Scans(C)
    BY <1>6, <2>1, <2>2, ClosedFields
  <2>4. Follows(d, e, skip, take)
    BY <1>1, <2>1, <2>2, CloseFollows, CloseLeavesPage
  <2>5. ~d.done
    BY <2>4 DEF Follows
  <2>6. Scanned(a, p, r, all) = [d EXCEPT !.child = t]
    BY <1>2, <1>3, <1>4, <1>6, <1>7, <2>1, <2>5 DEF Scanned
  <2>7. Scanned(b, p, r, q) = IF e.done THEN e ELSE [e EXCEPT !.child = t]
    BY <1>2, <1>3, <1>4, <1>7, <2>2 DEF Scanned
  <2>8. t \in C \cup {Nothing}
    <3>1. [d EXCEPT !.child = t].child = t
      BY <2>3 DEF Scans
    <3> QED
      BY <2>6, <3>1
  <2>9. /\ [d EXCEPT !.child = t] \in Scans(C) /\ [e EXCEPT !.child = t] \in Scans(C)
        /\ Follows([d EXCEPT !.child = t], IF e.done THEN e ELSE [e EXCEPT !.child = t], skip, take)
    BY <2>3, <2>4, <2>8, OpenFollows
  <2> QED
    BY <1>1, <2>3, <2>6, <2>7, <2>9
<1>8. CASE Len(x) # 1
  <2>1. Scanned(a, p, r, all) = [a EXCEPT !.child = Override(u, a.child)]
    BY <1>2, <1>3, <1>4, <1>5, <1>6, <1>8 DEF Scanned
  <2>2. Scanned(b, p, r, q) = IF b.done THEN b ELSE [b EXCEPT !.child = Override(u, b.child)]
    BY <1>2, <1>3, <1>4, <1>5, <1>8 DEF Scanned
  <2>3. PICK c : c = Override(u, a.child)
    OBVIOUS
  <2>4. c \in C \cup {Nothing}
    <3>1. [a EXCEPT !.child = c].child = c
      BY DEF Scans
    <3> QED
      BY <2>1, <2>3, <3>1
  <2>5. ~b.done => b.child = a.child
    BY <1>1 DEF Follows
  <2>6. Scanned(b, p, r, q) = IF b.done THEN b ELSE [b EXCEPT !.child = c]
    BY <2>2, <2>3, <2>5
  <2>7. /\ [a EXCEPT !.child = c] \in Scans(C) /\ [b EXCEPT !.child = c] \in Scans(C)
        /\ Follows([a EXCEPT !.child = c], IF b.done THEN b ELSE [b EXCEPT !.child = c], skip, take)
    BY <1>1, <2>4, OpenFollows
  <2> QED
    BY <1>1, <2>1, <2>3, <2>6, <2>7
<1> QED
  BY <1>7, <1>8

\* Both scans begin alike.
LEMMA BegunFollows ==
    ASSUME NEW C, NEW skip \in Nat, NEW take \in Nat \ {0}
    PROVE  Begun \in Scans(C) /\ Follows(Begun, Begun, skip, take)
<1>1. Begun.child = Nothing /\ Begun.out = <<>> /\ Begun.skipped = 0 /\ ~Begun.done
  BY DEF Begun
<1>2. Begun \in Scans(C)
  <2>1. <<>> \in Seq(C)
    OBVIOUS
  <2> QED
    BY <2>1 DEF Begun, Scans
<1>3. PICK o : o = <<>>
  OBVIOUS
<1>4. Len(o) = 0 /\ SubSeq(o, skip + 1, 0) = o
  BY <1>3, EmptyPart
<1>5. (IF 0 < skip THEN 0 ELSE skip) = 0 /\ 0 < skip + take
  OBVIOUS
<1> QED
  BY <1>1, <1>2, <1>3, <1>4, <1>5 DEF Follows

\* The two scans of the same rows go side by side.
LEMMA ScansFollow ==
    ASSUME NEW p, NEW rows, NEW n \in Nat, NEW A, NEW B,
           NEW all, all.skip = 0, all.take = 0,
           NEW q, q.skip \in Nat, q.take \in Nat \ {0}, q.filters = all.filters,
           IsScan(A, n, p, rows, all), IsScan(B, n, p, rows, q)
    PROVE  LET C == {A[i].child : i \in 0..n} IN
           A[n] \in Scans(C) /\ B[n] \in Scans(C) /\ Follows(A[n], B[n], q.skip, q.take)
<1>1. PICK skip \in Nat, take \in Nat \ {0} : skip = q.skip /\ take = q.take
  OBVIOUS
<1>2. PICK C : C = {A[i].child : i \in 0..n}
  OBVIOUS
<1>3. PICK S : S = {i \in 0..n : A[i] \in Scans(C) /\ B[i] \in Scans(C) /\ Follows(A[i], B[i], skip, take)}
  OBVIOUS
<1>4. PICK h : h = [i \in 0..n |-> i]
  OBVIOUS
<1>5. h[0] \in S
  <2>1. A[0] = Begun /\ B[0] = Begun
    BY DEF IsScan
  <2> QED
    BY <1>3, <1>4, <2>1, BegunFollows
<1>6. ASSUME NEW i \in 1..n, h[i - 1] \in S PROVE h[i] \in S
  <2>1. i - 1 \in S /\ h[i] = i
    BY <1>4, <1>6
  <2>2. PICK a, b : a = A[i - 1] /\ b = B[i - 1]
    OBVIOUS
  <2>3. a \in Scans(C) /\ b \in Scans(C) /\ Follows(a, b, q.skip, q.take)
    BY <1>1, <1>3, <2>1, <2>2
  <2>4. A[i] = Scanned(a, p, rows[i], all) /\ B[i] = Scanned(b, p, rows[i], q)
    BY <2>2 DEF IsScan
  <2>5. A[i].child \in C
    BY <1>2
  <2>6. PICK r : r = rows[i]
    OBVIOUS
  <2>7. Scanned(a, p, r, all).child \in C \cup {Nothing}
    BY <2>4, <2>5, <2>6
  <2>8. /\ Scanned(a, p, r, all) \in Scans(C)
        /\ Scanned(b, p, r, q) \in Scans(C)
        /\ Follows(Scanned(a, p, r, all), Scanned(b, p, r, q), q.skip, q.take)
    BY <2>3, <2>7, ScannedFollows
  <2> QED
    BY <1>1, <1>3, <2>1, <2>4, <2>6, <2>8
<1>7. \A i \in 0..n : h[i] \in S
  BY <1>5, <1>6, RecursionStays
<1>8. n \in S
  BY <1>4, <1>7
<1> QED
  BY <1>1, <1>2, <1>3, <1>8

\* The scan of a page, wherever it stops, gives a part of the scan of all.
LEMMA StreamTiles ==
    ASSUME FInv, NEW p, NEW q, q.skip \in Nat, q.take \in Nat \ {0},
           NEW all, all.skip = 0, all.take = 0, all.filters = q.filters
    PROVE  IsPage(Stream(p, q), Stream(p, all), q)
<1>1. PICK rows : rows = RowsBelow(p)
  OBVIOUS
<1>2. PICK n \in Nat : n = Len(rows)
  <2>1. PICK S : S = {x \in DOMAIN containers \cup DOMAIN primitives : IsStrictPrefix(p, x)}
    OBVIOUS
  <2>2. rows = RowsInOrder(RowsAt(S))
    BY <1>1, <2>1 DEF RowsBelow
  <2>3. IsFiniteSet(RowsAt(S))
    BY FiniteRowsAt
  <2> QED
    BY <2>2, <2>3, ListsOfSets
<1>3. PICK A : IsScan(A, n, p, rows, all) /\ Scan(p, rows, all) = A[n]
  BY <1>2, ScanIs
<1>4. PICK B : IsScan(B, n, p, rows, q) /\ Scan(p, rows, q) = B[n]
  BY <1>2, ScanIs
<1>5. PICK C : C = {A[i].child : i \in 0..n}
  OBVIOUS
<1>6. PICK a, b : a = A[n] /\ b = B[n]
  OBVIOUS
<1>7. a \in Scans(C) /\ b \in Scans(C) /\ Follows(a, b, q.skip, q.take)
  BY <1>3, <1>4, <1>5, <1>6, ScansFollow
<1>8. PICK d : d = Close(a, all)
  OBVIOUS
<1>9. PICK e : e = IF b.done THEN b ELSE Close(b, q)
  OBVIOUS
<1>10. Follows(d, e, q.skip, q.take)
  BY <1>7, <1>8, <1>9, CloseFollows, CloseLeavesPage
<1>11. Stream(p, all) = d.out /\ Stream(p, q) = e.out
  <2>1. ~a.done
    BY <1>7 DEF Follows
  <2> QED
    BY <1>1, <1>3, <1>4, <1>6, <1>8, <1>9, <2>1 DEF Stream
<1>12. PICK m \in Nat : m = Len(d.out)
  <2>1. all.skip \in Nat /\ all.take \in Nat
    OBVIOUS
  <2>2. d \in Scans(C)
    BY <1>7, <1>8, <2>1, ClosedFields
  <2>3. d.out \in Seq(C)
    BY <2>2 DEF Scans
  <2> QED
    BY <2>3
<1>13. e.out = SubSeq(d.out, q.skip + 1, Min({q.skip + q.take, m}))
  <2>1. Min({q.skip + q.take, m}) = IF q.skip + q.take <= m THEN q.skip + q.take ELSE m
    BY MinOfTwo
  <2>2. CASE q.skip + q.take <= m
    BY <1>10, <1>12, <2>1, <2>2 DEF Follows
  <2>3. CASE ~(q.skip + q.take <= m)
    <3>1. m < q.skip + q.take
      BY <2>3
    <3>2. Min({q.skip + q.take, m}) = m
      BY <2>1, <2>3
    <3>3. e.out = SubSeq(d.out, q.skip + 1, m)
      BY <1>10, <1>12, <3>1 DEF Follows
    <3> QED
      BY <3>2, <3>3
  <2> QED
    BY <2>2, <2>3
<1> QED
  BY <1>11, <1>12, <1>13 DEF IsPage

\* Whichever evaluator answers a pattern with a wildcard, it answers all pages of a query.
LEMMA PatternTiles ==
    ASSUME FInv, NEW pattern, WildcardPlaces(pattern) # {},
           NEW q, q.skip \in Nat, q.take \in Nat \ {0},
           NEW all, all.skip = 0, all.take = 0, all.order = q.order, all.filters = q.filters
    PROVE  IsPage(Execute(pattern, q), Execute(pattern, all), q)
<1>1. CASE ~IsSingleTail(pattern)
  <2>1. Execute(pattern, q) = General(pattern, q) /\ Execute(pattern, all) = General(pattern, all)
    BY <1>1 DEF Execute
  <2> QED
    BY <2>1, GeneralTiles
<1>2. CASE IsSingleTail(pattern) /\ q.order = <<>>
  <2>1. PICK p : p = Front(pattern)
    OBVIOUS
  <2>2. Execute(pattern, q) = Stream(p, q) /\ Execute(pattern, all) = Stream(p, all)
    BY <1>2, <2>1 DEF Execute
  <2> QED
    BY <2>2, StreamTiles
<1>3. CASE IsSingleTail(pattern) /\ q.order # <<>>
  <2>1. PICK p : p = Front(pattern)
    OBVIOUS
  <2>2. Execute(pattern, q) = Direct(p, q) /\ Execute(pattern, all) = Direct(p, all)
    BY <1>3, <2>1 DEF Execute
  <2> QED
    BY <2>2, DirectTiles
<1> QED
  BY <1>1, <1>2, <1>3

\* Successive pages give every result once, in one order, whichever way a page
\* is answered (he_query_execute) and wherever the scan of "/p/*" stops.
THEOREM PagesFitTogether == Spec => []PagesTile
<1>1. ASSUME FInv PROVE PagesTile
  <2> SUFFICES ASSUME NEW p \in DocPaths, NEW last \in {Star} \cup Vars, NEW q \in Queries,
                      NEW size \in 1..2, NEW i \in 0..2
               PROVE  LET pattern == Append(p, last)
                          all     == Execute(pattern, [q EXCEPT !.skip = 0, !.take = 0])
                      IN Execute(pattern, [q EXCEPT !.skip = i * size, !.take = size])
                             = SubSeq(all, i * size + 1, Min({(i + 1) * size, Len(all)}))
    BY DEF PagesTile
  <2>1. PICK pattern : pattern = Append(p, last)
    OBVIOUS
  <2>2. WildcardPlaces(pattern) # {}
    <3>1. p \in Seq(Keys)
      BY EngineAssumption DEF Path
    <3>2. Len(pattern) = Len(p) + 1 /\ pattern[Len(p) + 1] = last
      BY <2>1, <3>1
    <3>3. Len(p) + 1 \in 1..Len(pattern)
      BY <3>1, <3>2
    <3>4. IsWildcard(last)
      BY DEF IsWildcard
    <3> QED
      BY <3>2, <3>3, <3>4 DEF WildcardPlaces
  <2>3. q = [filters |-> q.filters, order |-> q.order, skip |-> q.skip, take |-> q.take]
    BY QueryAssumption
  <2>4. PICK skip \in Nat : skip = i * size /\ skip + size = (i + 1) * size
    OBVIOUS
  <2>5. PICK all : all = [q EXCEPT !.skip = 0, !.take = 0]
    OBVIOUS
  <2>6. PICK page : page = [q EXCEPT !.skip = skip, !.take = size]
    OBVIOUS
  <2>7. /\ all.skip = 0 /\ all.take = 0 /\ all.order = q.order /\ all.filters = q.filters
        /\ page.skip = skip /\ page.take = size /\ page.order = q.order /\ page.filters = q.filters
    BY <2>3, <2>5, <2>6
  <2>8. IsPage(Execute(pattern, page), Execute(pattern, all), page)
    BY <1>1, <2>2, <2>7, PatternTiles
  <2> QED
    BY <2>1, <2>4, <2>5, <2>6, <2>7, <2>8 DEF IsPage
<1> QED
  BY <1>1, TablesStayFinite, PTL

-----------------------------------------------------------------------------
(* Sets in order *)

\* A strict order of the set S, as pairs.
Orders(R, S) ==
    /\ \A x \in S : <<x, x>> \notin R
    /\ \A x, y \in S : x = y \/ <<x, y>> \in R \/ <<y, x>> \in R
    /\ \A x, y, z \in S : <<x, y>> \in R /\ <<y, z>> \in R => <<x, z>> \in R

Before(R, S, x) == {y \in S : <<y, x>> \in R}
Rank(R, S, x) == Cardinality(Before(R, S, x))

\* In a finite set in order, each place is that of one element.
LEMMA RankChar ==
    ASSUME NEW S, IsFiniteSet(S), NEW R, Orders(R, S)
    PROVE  /\ Cardinality(S) \in Nat
           /\ \A x \in S : Rank(R, S, x) \in 0..Cardinality(S) - 1
           /\ \A x, y \in S : <<x, y>> \in R <=> Rank(R, S, x) < Rank(R, S, y)
           /\ \A x, y \in S : Rank(R, S, x) = Rank(R, S, y) => x = y
           /\ \A n \in 0..Cardinality(S) - 1 : \E x \in S : Rank(R, S, x) = n
<1>1. PICK n \in Nat : n = Cardinality(S)
  BY FS_CardinalityType
<1>2. ASSUME NEW x \in S PROVE IsFiniteSet(Before(R, S, x)) /\ Rank(R, S, x) \in 0..n - 1
  <2>1. PICK B : B = Before(R, S, x)
    OBVIOUS
  <2>2. B \in SUBSET S /\ x \notin B
    BY <2>1 DEF Before, Orders
  <2>3. IsFiniteSet(B) /\ Cardinality(B) <= n /\ (n = Cardinality(B) => S = B)
    BY <1>1, <2>2, FS_Subset
  <2>4. Cardinality(B) \in Nat
    BY <2>3, FS_CardinalityType
  <2> QED
    BY <1>1, <2>1, <2>2, <2>3, <2>4 DEF Rank
<1>3. ASSUME NEW x \in S, NEW y \in S, <<x, y>> \in R PROVE Rank(R, S, x) < Rank(R, S, y)
  <2>1. PICK B, C : B = Before(R, S, x) /\ C = Before(R, S, y)
    OBVIOUS
  <2>2. B \in SUBSET C /\ x \in C /\ x \notin B
    BY <1>3, <2>1 DEF Before, Orders
  <2>3. IsFiniteSet(B) /\ IsFiniteSet(C)
    BY <1>2, <2>1
  <2>4. Cardinality(B) <= Cardinality(C) /\ (Cardinality(C) = Cardinality(B) => C = B)
    BY <2>2, <2>3, FS_Subset
  <2>5. Cardinality(B) \in Nat /\ Cardinality(C) \in Nat
    BY <2>3, FS_CardinalityType
  <2> QED
    BY <2>1, <2>2, <2>4, <2>5 DEF Rank
<1>4. PICK f : f = [x \in S |-> Rank(R, S, x)]
  OBVIOUS
<1>5. f \in [S -> 0..n - 1] /\ \A x \in S : f[x] = Rank(R, S, x) /\ f[x] \in Int
  BY <1>2, <1>4
<1>6. \A x, y \in S : <<x, y>> \in R => f[x] < f[y]
  BY <1>3, <1>5
<1>7. \A x, y \in S : x = y \/ <<x, y>> \in R \/ <<y, x>> \in R
  BY DEF Orders
<1>8. ASSUME NEW x \in S, NEW y \in S, ~(f[y] < f[x]) PROVE x = y \/ <<x, y>> \in R
  BY <1>6, <1>7, <1>8
<1>14. ASSUME NEW x \in S, NEW y \in S, f[x] = f[y] PROVE x = y
  <2>1. f[x] \in Int /\ f[y] \in Int
    BY <1>5
  <2>2. ~(f[x] < f[y]) /\ ~(f[y] < f[x])
    BY <1>14, <2>1
  <2> QED
    BY <1>6, <1>7, <2>2
<1>9. f \in Injection(S, 0..n - 1)
  BY <1>5, <1>14 DEF Injection, IsInjective
<1>10. IsFiniteSet(0..n - 1) /\ Cardinality(0..n - 1) = n
  <2>1. PICK a, b \in Int : a = 0 /\ b = n - 1
    OBVIOUS
  <2>2. IsFiniteSet(a..b) /\ Cardinality(a..b) = IF a > b THEN 0 ELSE b - a + 1
    BY FS_Interval
  <2> QED
    BY <2>1, <2>2
<1>11. f \in Surjection(S, 0..n - 1)
  BY <1>1, <1>9, <1>10, FS_Injection
<1>12. \A i \in 0..n - 1 : \E x \in S : f[x] = i
  BY <1>11 DEF Surjection
<1>13. ASSUME NEW x \in S, NEW y \in S, f[x] < f[y] PROVE <<x, y>> \in R
  <2>1. f[x] \in Int /\ f[y] \in Int
    BY <1>5
  <2>2. ~(f[y] < f[x]) /\ x # y
    BY <1>13, <2>1
  <2> QED
    BY <1>8, <2>2
<1> QED
  BY <1>1, <1>5, <1>6, <1>12, <1>13, <1>14

-----------------------------------------------------------------------------
(* The order of rows *)

\* A row, whatever it says besides its path, as a scan gives it.
IsRow(r) == r.path \in Path /\ r.slash \in BOOLEAN

\* The column path is a primary key.
Keyed(S) == \A r, s \in S : r.path = s.path /\ r.slash = s.slash => r = s

\* Whether a slash ends the segment n.
SlashAt(r, n) == n < Len(r.path) \/ r.slash

\* r comes before s where they part at the segment n.
PartBefore(r, s, n) ==
    /\ PartAt(r.path, s.path, n)
    /\ SegmentBefore(r.path[n], SlashAt(r, n), s.path[n], SlashAt(s, n))

Above(r, s) == IsStrictPrefix(r.path, s.path)
Beside(r, s) == r.path = s.path /\ ~r.slash /\ s.slash

LEMMA RowBeforeIs ==
    ASSUME NEW r, NEW s
    PROVE  RowBefore(r, s) <=> \/ Above(r, s)
                               \/ Beside(r, s)
                               \/ \E n \in DOMAIN r.path : PartBefore(r, s, n)
BY DEF RowBefore, Above, Beside, PartBefore, SlashAt

\* Paths that are not one below the other part somewhere.
LEMMA PathsPart ==
    ASSUME NEW x \in Path, NEW y \in Path, ~IsPrefix(x, y), ~IsPrefix(y, x)
    PROVE  \E n \in DOMAIN x : PartAt(x, y, n)
<1> DEFINE B == {n \in DOMAIN x \cap DOMAIN y : x[n] # y[n]}
<1>1. Len(x) \in Nat /\ Len(y) \in Nat /\ DOMAIN x = 1..Len(x) /\ DOMAIN y = 1..Len(y)
  BY DEF Path
<1>2. B # {}
  <2>1. CASE Len(x) <= Len(y)
    <3>1. PICK i \in 1..Len(x) : x[i] # y[i]
      BY <2>1, PrefixChar
    <3> QED
      BY <1>1, <2>1, <3>1
  <2>2. CASE ~(Len(x) <= Len(y))
    <3>1. PICK i \in 1..Len(y) : x[i] # y[i]
      BY <1>1, <2>2, PrefixChar
    <3> QED
      BY <1>1, <2>2, <3>1
  <2> QED
    BY <2>1, <2>2
<1>3. PICK n \in B : \A m \in B : n <= m
  <2>1. B \subseteq Nat
    BY <1>1
  <2> HIDE DEF B
  <2> QED
    BY <1>2, <2>1, LeastNat
<1>4. ASSUME NEW i \in 1..n-1 PROVE x[i] = y[i]
  <2>1. i \in DOMAIN x /\ i \in DOMAIN y /\ ~(n <= i)
    BY <1>1, <1>3
  <2>2. i \notin B
    BY <1>3, <2>1
  <2> QED
    BY <2>1, <2>2
<1> QED
  BY <1>3, <1>4 DEF PartAt

\* They part at one place only, and then neither is below the other.
LEMMA PartOnce ==
    ASSUME NEW x \in Path, NEW y \in Path, NEW n, PartAt(x, y, n)
    PROVE  /\ n \in 1..Len(x) /\ n \in 1..Len(y)
           /\ x[n] \in Keys /\ y[n] \in Keys /\ x[n] # y[n]
           /\ \A i \in 1..n-1 : x[i] = y[i]
           /\ ~IsPrefix(x, y) /\ ~IsPrefix(y, x)
           /\ \A m : PartAt(x, y, m) => m = n
           /\ PartAt(y, x, n)
<1>1. Len(x) \in Nat /\ Len(y) \in Nat /\ DOMAIN x = 1..Len(x) /\ DOMAIN y = 1..Len(y)
  BY DEF Path
<1>2. n \in 1..Len(x) /\ n \in 1..Len(y) /\ x[n] # y[n] /\ \A i \in 1..n-1 : x[i] = y[i]
  BY <1>1 DEF PartAt
<1>3. ~IsPrefix(x, y) /\ ~IsPrefix(y, x)
  BY <1>1, <1>2, PrefixChar
<1>4. ASSUME NEW m, PartAt(x, y, m) PROVE m = n
  <2>1. m \in 1..Len(x) /\ x[m] # y[m] /\ \A i \in 1..m-1 : x[i] = y[i]
    BY <1>1, <1>4 DEF PartAt
  <2>2. m < n => m \in 1..n-1
    BY <1>1, <1>2, <2>1
  <2>3. n < m => n \in 1..m-1
    BY <1>1, <1>2, <2>1
  <2> QED
    BY <1>1, <1>2, <2>1, <2>2, <2>3
<1>5. PartAt(y, x, n)
  BY DEF PartAt
<1>6. x[n] \in Keys /\ y[n] \in Keys
  BY <1>2 DEF Path
<1> QED
  BY <1>2, <1>3, <1>4, <1>5, <1>6

\* A slash never comes earlier than the end of the path.
LEMMA SlashLate ==
    ASSUME NEW k, NEW h \in BOOLEAN, NEW l, NEW i \in BOOLEAN, NEW g \in BOOLEAN, NEW j \in BOOLEAN,
           SegmentBefore(k, h, l, i), g => h, i => j
    PROVE  SegmentBefore(k, g, l, j)
BY DEF SegmentBefore

\* Rows are in order: no row is before itself, one of two is before the other.
LEMMA RowsCompare ==
    ASSUME NEW r, IsRow(r), NEW s, IsRow(s)
    PROVE  /\ ~RowBefore(r, r)
           /\ r.path = s.path /\ r.slash = s.slash => ~RowBefore(r, s)
           /\ (r.path = s.path /\ r.slash = s.slash) \/ RowBefore(r, s) \/ RowBefore(s, r)
<1>1. PICK x, y \in Path : x = r.path /\ y = s.path
  BY DEF IsRow
<1>2. ~RowBefore(r, r) /\ (r.path = s.path /\ r.slash = s.slash => ~RowBefore(r, s))
  BY RowBeforeIs DEF Above, Beside, PartBefore, PartAt, IsStrictPrefix
<1> SUFFICES (r.path = s.path /\ r.slash = s.slash) \/ RowBefore(r, s) \/ RowBefore(s, r)
  BY <1>2
<1>3. CASE IsPrefix(x, y) /\ x # y
  BY <1>1, <1>3, RowBeforeIs DEF Above, IsStrictPrefix
<1>4. CASE IsPrefix(y, x) /\ x # y
  BY <1>1, <1>4, RowBeforeIs DEF Above, IsStrictPrefix
<1>5. CASE x = y
  <2>1. r.path = s.path
    BY <1>1, <1>5
  <2>2. r.slash \in BOOLEAN /\ s.slash \in BOOLEAN
    BY DEF IsRow
  <2>3. CASE ~r.slash /\ s.slash
    BY <1>1, <1>5, <2>3, RowBeforeIs DEF Beside
  <2>4. CASE r.slash /\ ~s.slash
    BY <1>1, <1>5, <2>4, RowBeforeIs DEF Beside
  <2> QED
    BY <2>1, <2>2, <2>3, <2>4
<1>6. CASE ~IsPrefix(x, y) /\ ~IsPrefix(y, x)
  <2>1. PICK n : n \in DOMAIN x /\ PartAt(x, y, n)
    BY <1>6, PathsPart
  <2>2. PartAt(y, x, n) /\ n \in DOMAIN y /\ x[n] \in Keys /\ y[n] \in Keys /\ x[n] # y[n]
    <3>1. PartAt(y, x, n) /\ x[n] \in Keys /\ y[n] \in Keys /\ x[n] # y[n]
      BY <2>1, PartOnce
    <3> QED
      BY <3>1 DEF PartAt
  <2>3. SlashAt(r, n) \in BOOLEAN /\ SlashAt(s, n) \in BOOLEAN
    BY DEF SlashAt, IsRow
  <2>4. \/ SegmentBefore(x[n], SlashAt(r, n), y[n], SlashAt(s, n))
        \/ SegmentBefore(y[n], SlashAt(s, n), x[n], SlashAt(r, n))
    BY <2>2, <2>3, OrderAssumption
  <2> QED
    BY <1>1, <2>1, <2>2, <2>4, RowBeforeIs DEF PartBefore
<1> QED
  BY <1>1, <1>3, <1>4, <1>5, <1>6

\* r before s, s before t: what comes first stays first.
LEMMA RowsFollow ==
    ASSUME NEW r, IsRow(r), NEW s, IsRow(s), NEW t, IsRow(t), RowBefore(r, s), RowBefore(s, t)
    PROVE  RowBefore(r, t)
<1>1. PICK x, y, z \in Path : x = r.path /\ y = s.path /\ z = t.path
  BY DEF IsRow
<1>2. r.slash \in BOOLEAN /\ s.slash \in BOOLEAN /\ t.slash \in BOOLEAN
  BY DEF IsRow
<1>3. \A n : SlashAt(r, n) \in BOOLEAN /\ SlashAt(s, n) \in BOOLEAN /\ SlashAt(t, n) \in BOOLEAN
  BY <1>2 DEF SlashAt
<1>4. Len(x) \in Nat /\ Len(y) \in Nat /\ Len(z) \in Nat
      /\ DOMAIN x = 1..Len(x) /\ DOMAIN y = 1..Len(y) /\ DOMAIN z = 1..Len(z)
  BY DEF Path
\* Above or beside s: as s, but a slash may be missing.
<1>5. ASSUME Above(r, s) \/ Beside(r, s), Above(s, t) \/ Beside(s, t) PROVE RowBefore(r, t)
  <2>1. IsPrefix(x, y) /\ IsPrefix(y, z) /\ (x = y => ~r.slash /\ s.slash) /\ (y = z => ~s.slash /\ t.slash)
    <3>1. IsPrefix(x, x) /\ IsPrefix(y, y)
      BY PrefixOrder
    <3> QED
      BY <1>1, <1>5, <3>1 DEF Above, Beside, IsStrictPrefix
  <2>2. IsPrefix(x, z) /\ (x = z => x = y)
    BY <2>1, PrefixOrder
  <2> QED
    BY <1>1, <2>1, <2>2, RowBeforeIs DEF Above, Beside, IsStrictPrefix
<1>6. ASSUME Above(r, s) \/ Beside(r, s), NEW n, PartBefore(s, t, n) PROVE RowBefore(r, t)
  <2>1. IsPrefix(x, y) /\ (x = y => ~r.slash /\ s.slash)
    <3>1. IsPrefix(x, x)
      BY PrefixOrder
    <3> QED
      BY <1>1, <1>6, <3>1 DEF Above, Beside, IsStrictPrefix
  <2>2. PartAt(y, z, n) /\ SegmentBefore(y[n], SlashAt(s, n), z[n], SlashAt(t, n))
    BY <1>1, <1>6 DEF PartBefore
  <2>3. n \in 1..Len(y) /\ n \in 1..Len(z) /\ y[n] # z[n] /\ \A i \in 1..n-1 : y[i] = z[i]
    BY <2>2, PartOnce
  <2>4. Len(x) <= Len(y) /\ \A i \in 1..Len(x) : x[i] = y[i]
    BY <2>1, PrefixChar
  <2>5. CASE n <= Len(x)
    <3>1. PartAt(x, z, n) /\ x[n] = y[n]
      BY <1>4, <2>3, <2>4, <2>5 DEF PartAt
    <3>2. SlashAt(r, n) => SlashAt(s, n)
      <4>1. CASE x = y
        BY <1>1, <2>1, <4>1 DEF SlashAt
      <4>2. CASE x # y
        <5>1. Len(x) < Len(y)
          BY <2>1, <4>2, StrictShorter
        <5> QED
          BY <1>1, <1>4, <2>3, <2>5, <5>1 DEF SlashAt
      <4> QED
        BY <4>1, <4>2
    <3>3. SegmentBefore(x[n], SlashAt(r, n), z[n], SlashAt(t, n))
      BY <1>3, <2>2, <3>1, <3>2, SlashLate
    <3> QED
      BY <1>1, <1>4, <2>3, <2>5, <3>1, <3>3, RowBeforeIs DEF PartBefore
  <2>6. CASE ~(n <= Len(x))
    <3>1. \A i \in 1..Len(x) : i \in 1..n-1
      BY <1>4, <2>3, <2>6
    <3>2. IsPrefix(x, z) /\ x # z
      BY <1>4, <2>3, <2>4, <2>6, <3>1, PrefixChar
    <3> QED
      BY <1>1, <3>2, RowBeforeIs DEF Above, IsStrictPrefix
  <2> QED
    BY <2>5, <2>6
<1>7. ASSUME NEW n, PartBefore(r, s, n), Above(s, t) \/ Beside(s, t) PROVE RowBefore(r, t)
  <2>1. IsPrefix(y, z) /\ (y = z => t.slash)
    <3>1. IsPrefix(y, y)
      BY PrefixOrder
    <3> QED
      BY <1>1, <1>7, <3>1 DEF Above, Beside, IsStrictPrefix
  <2>2. PartAt(x, y, n) /\ SegmentBefore(x[n], SlashAt(r, n), y[n], SlashAt(s, n))
    BY <1>1, <1>7 DEF PartBefore
  <2>3. n \in 1..Len(x) /\ n \in 1..Len(y) /\ x[n] # y[n] /\ \A i \in 1..n-1 : x[i] = y[i]
    BY <2>2, PartOnce
  <2>4. Len(y) <= Len(z) /\ \A i \in 1..Len(y) : y[i] = z[i]
    BY <2>1, PrefixChar
  <2>5. PartAt(x, z, n) /\ z[n] = y[n]
    BY <1>4, <2>3, <2>4 DEF PartAt
  <2>6. SlashAt(s, n) => SlashAt(t, n)
    <3>1. CASE y = z
      BY <1>1, <2>1, <3>1 DEF SlashAt
    <3>2. CASE y # z
      <4>1. Len(y) < Len(z)
        BY <2>1, <3>2, StrictShorter
      <4> QED
        BY <1>1, <1>4, <2>3, <4>1 DEF SlashAt
    <3> QED
      BY <3>1, <3>2
  <2>7. SegmentBefore(x[n], SlashAt(r, n), z[n], SlashAt(t, n))
    BY <1>3, <2>2, <2>5, <2>6, SlashLate
  <2> QED
    BY <1>1, <1>4, <2>3, <2>5, <2>7, RowBeforeIs DEF PartBefore
<1>8. ASSUME NEW n, PartBefore(r, s, n), NEW m, PartBefore(s, t, m) PROVE RowBefore(r, t)
  <2>1. PartAt(x, y, n) /\ SegmentBefore(x[n], SlashAt(r, n), y[n], SlashAt(s, n))
    BY <1>1, <1>8 DEF PartBefore
  <2>2. PartAt(y, z, m) /\ SegmentBefore(y[m], SlashAt(s, m), z[m], SlashAt(t, m))
    BY <1>1, <1>8 DEF PartBefore
  <2>3. /\ n \in 1..Len(x) /\ n \in 1..Len(y) /\ x[n] # y[n] /\ \A i \in 1..n-1 : x[i] = y[i]
        /\ x[n] \in Keys /\ y[n] \in Keys
    BY <2>1, PartOnce
  <2>4. /\ m \in 1..Len(y) /\ m \in 1..Len(z) /\ y[m] # z[m] /\ \A i \in 1..m-1 : y[i] = z[i]
        /\ z[m] \in Keys
    BY <2>2, PartOnce
  <2>5. CASE n < m
    <3>1. PartAt(x, z, n) /\ z[n] = y[n]
      BY <1>4, <2>3, <2>4, <2>5 DEF PartAt
    <3>2. SlashAt(t, n)
      BY <1>1, <1>4, <2>3, <2>4, <2>5 DEF SlashAt
    <3>3. SegmentBefore(x[n], SlashAt(r, n), z[n], SlashAt(t, n))
      BY <1>3, <2>1, <3>1, <3>2, SlashLate
    <3> QED
      BY <1>1, <1>4, <2>3, <3>1, <3>3, RowBeforeIs DEF PartBefore
  <2>6. CASE m < n
    <3>1. PartAt(x, z, m) /\ x[m] = y[m] /\ m \in 1..Len(x)
      BY <1>4, <2>3, <2>4, <2>6 DEF PartAt
    <3>2. SlashAt(s, m)
      BY <1>1, <1>4, <2>3, <2>4, <2>6 DEF SlashAt
    <3>3. SegmentBefore(x[m], SlashAt(r, m), z[m], SlashAt(t, m))
      BY <1>3, <2>2, <3>1, <3>2, SlashLate
    <3> QED
      BY <1>1, <1>4, <3>1, <3>3, RowBeforeIs DEF PartBefore
  <2>7. CASE n = m /\ x[n] # z[n]
    <3>1. PartAt(x, z, n)
      BY <1>4, <2>3, <2>4, <2>7 DEF PartAt
    <3>2. SegmentBefore(x[n], SlashAt(r, n), z[n], SlashAt(t, n))
      BY <1>3, <2>1, <2>2, <2>3, <2>4, <2>7, OrderAssumption
    <3> QED
      BY <1>1, <1>4, <2>3, <3>1, <3>2, RowBeforeIs DEF PartBefore
  <2>8. CASE n = m /\ x[n] = z[n]
    <3>1. ~SegmentBefore(y[n], SlashAt(s, n), x[n], SlashAt(r, n))
      BY <1>3, <2>1, <2>3, OrderAssumption
    <3>2. ~SlashAt(r, n) /\ SlashAt(t, n)
      <4>1. SegmentBefore(y[n], SlashAt(s, n), x[n], SlashAt(t, n))
        BY <2>2, <2>8
      <4>2. (SlashAt(t, n) => SlashAt(r, n)) => FALSE
        BY <1>3, <3>1, <4>1, SlashLate
      <4> QED
        BY <1>3, <4>2
    <3>3. n = Len(x) /\ ~r.slash /\ (n < Len(z) \/ t.slash)
      BY <1>1, <1>4, <2>3, <3>2 DEF SlashAt
    <3>4. IsPrefix(x, z)
      <4>1. \A i \in 1..n : x[i] = z[i]
        BY <1>4, <2>3, <2>4, <2>8
      <4> QED
        BY <1>4, <2>4, <2>8, <3>3, <4>1, PrefixChar
    <3>5. x = z => n = Len(z)
      BY <3>3
    <3> QED
      BY <1>1, <1>4, <3>3, <3>4, <3>5, RowBeforeIs DEF Above, Beside, IsStrictPrefix
  <2> QED
    BY <1>4, <2>3, <2>4, <2>5, <2>6, <2>7, <2>8
<1>9. /\ Above(r, s) \/ Beside(r, s) \/ \E n : PartBefore(r, s, n)
      /\ Above(s, t) \/ Beside(s, t) \/ \E n : PartBefore(s, t, n)
  BY RowBeforeIs
<1> QED
  BY <1>5, <1>6, <1>7, <1>8, <1>9

\* A scan gives each row of a finite set once, in the order of rows.
LEMMA RowsListed ==
    ASSUME NEW S, IsFiniteSet(S), \A r \in S : IsRow(r), Keyed(S)
    PROVE  /\ Cardinality(S) \in Nat
           /\ RowsInOrder(S) \in [1..Cardinality(S) -> S]
           /\ Len(RowsInOrder(S)) = Cardinality(S)
           /\ \A r \in S : \E i \in 1..Cardinality(S) : RowsInOrder(S)[i] = r
           /\ \A i, j \in 1..Cardinality(S) :
                 RowBefore(RowsInOrder(S)[i], RowsInOrder(S)[j]) <=> i < j
<1>1. PICK R : R = {p \in S \X S : RowBefore(p[1], p[2])}
  OBVIOUS
<1>2. \A x, y \in S : <<x, y>> \in R <=> RowBefore(x, y)
  BY <1>1
<1>3. Orders(R, S)
  <2>1. \A x \in S : <<x, x>> \notin R
    BY <1>2, RowsCompare
  <2>2. \A x, y \in S : x = y \/ <<x, y>> \in R \/ <<y, x>> \in R
    BY <1>2, RowsCompare DEF Keyed
  <2>3. \A x, y, z \in S : <<x, y>> \in R /\ <<y, z>> \in R => <<x, z>> \in R
    BY <1>2, RowsFollow
  <2> QED
    BY <2>1, <2>2, <2>3 DEF Orders
<1>4. PICK n : n = Cardinality(S)
  OBVIOUS
<1>5. /\ n \in Nat
      /\ \A x \in S : Rank(R, S, x) \in 0..n - 1
      /\ \A x, y \in S : <<x, y>> \in R <=> Rank(R, S, x) < Rank(R, S, y)
      /\ \A x, y \in S : Rank(R, S, x) = Rank(R, S, y) => x = y
      /\ \A i \in 0..n - 1 : \E x \in S : Rank(R, S, x) = i
  BY <1>3, <1>4, RankChar
<1>6. PICK rows : rows = [i \in 1..n |-> CHOOSE x \in S : Rank(R, S, x) = i - 1]
  OBVIOUS
<1>7. rows = RowsInOrder(S)
  <2>1. ASSUME NEW x \in S PROVE Cardinality({y \in S : RowBefore(y, x)}) = Rank(R, S, x)
    <3>1. {y \in S : RowBefore(y, x)} = Before(R, S, x)
      BY <1>2 DEF Before
    <3> QED
      BY <3>1 DEF Rank
  <2>2. ASSUME NEW i \in 1..n
        PROVE  (CHOOSE x \in S : Rank(R, S, x) = i - 1)
                   = CHOOSE x \in S : Cardinality({y \in S : RowBefore(y, x)}) = i - 1
    BY <2>1
  <2>3. RowsInOrder(S) = [i \in 1..n |-> CHOOSE x \in S : Cardinality({y \in S : RowBefore(y, x)}) = i - 1]
    BY <1>4, Zenon DEF RowsInOrder, InOrder
  <2> QED
    BY <1>6, <2>2, <2>3
<1>8. ASSUME NEW i \in 1..n PROVE rows[i] \in S /\ Rank(R, S, rows[i]) = i - 1
  <2>1. i - 1 \in 0..n - 1
    BY <1>5
  <2>2. \E x \in S : Rank(R, S, x) = i - 1
    BY <1>5, <2>1
  <2>3. PICK x : x = CHOOSE y \in S : Rank(R, S, y) = i - 1
    OBVIOUS
  <2>4. x \in S /\ Rank(R, S, x) = i - 1
    BY <2>2, <2>3
  <2> QED
    BY <1>6, <2>3, <2>4
<1>9. rows \in [1..n -> S] /\ Len(rows) = n
  BY <1>5, <1>6, <1>8
<1>10. ASSUME NEW r \in S PROVE \E i \in 1..n : rows[i] = r
  <2>1. PICK i \in Int : i = Rank(R, S, r) + 1
    BY <1>5
  <2>2. i \in 1..n /\ Rank(R, S, r) = i - 1
    BY <1>5, <2>1
  <2> QED
    BY <1>5, <1>8, <2>2
<1>11. ASSUME NEW i \in 1..n, NEW j \in 1..n PROVE RowBefore(rows[i], rows[j]) <=> i < j
  <2>1. rows[i] \in S /\ Rank(R, S, rows[i]) = i - 1 /\ rows[j] \in S /\ Rank(R, S, rows[j]) = j - 1
    BY <1>8
  <2>2. PICK x, y \in S : x = rows[i] /\ y = rows[j]
    BY <2>1
  <2>3. RowBefore(x, y) <=> <<x, y>> \in R
    BY <1>2
  <2>4. <<x, y>> \in R <=> Rank(R, S, x) < Rank(R, S, y)
    BY <1>5
  <2> QED
    BY <2>1, <2>2, <2>3, <2>4
<1> QED
  BY <1>4, <1>5, <1>7, <1>9, <1>10, <1>11

\* KeysInOrder gives each once, in their order.
LEMMA KeysListed ==
    ASSUME NEW S, IsFiniteSet(S), S \subseteq Keys
    PROVE  /\ Cardinality(S) \in Nat
           /\ KeysInOrder(S) \in [1..Cardinality(S) -> S]
           /\ Len(KeysInOrder(S)) = Cardinality(S)
           /\ \A k \in S : \E i \in 1..Cardinality(S) : KeysInOrder(S)[i] = k
           /\ \A i, j \in 1..Cardinality(S) : KeyBefore(KeysInOrder(S)[i], KeysInOrder(S)[j]) <=> i < j
<1>1. PICK R : R = {p \in S \X S : KeyBefore(p[1], p[2])}
  OBVIOUS
<1>2. \A x, y \in S : <<x, y>> \in R <=> KeyOrder[x] < KeyOrder[y]
  BY <1>1 DEF KeyBefore
<1>3. Orders(R, S)
  <2>0. \A x, y \in S : KeyOrder[x] \in Int /\ (KeyOrder[x] = KeyOrder[y] => x = y)
    BY QueryAssumption
  <2>1. \A x \in S : <<x, x>> \notin R
    BY <1>2, <2>0
  <2>2. ASSUME NEW x \in S, NEW y \in S PROVE x = y \/ <<x, y>> \in R \/ <<y, x>> \in R
    <3>1. PICK a, b \in Int : a = KeyOrder[x] /\ b = KeyOrder[y] /\ (a = b => x = y)
      BY <2>0
    <3>2. a < b \/ b < a \/ a = b
      OBVIOUS
    <3> QED
      BY <1>2, <3>1, <3>2
  <2>3. ASSUME NEW x \in S, NEW y \in S, NEW z \in S, <<x, y>> \in R, <<y, z>> \in R PROVE <<x, z>> \in R
    <3>1. PICK a, b, c \in Int : a = KeyOrder[x] /\ b = KeyOrder[y] /\ c = KeyOrder[z]
      BY <2>0
    <3>2. a < b /\ b < c
      BY <1>2, <2>3, <3>1
    <3>3. a < c
      BY <3>2
    <3> QED
      BY <1>2, <3>1, <3>3
  <2> QED
    BY <2>1, <2>2, <2>3 DEF Orders
<1>4. PICK n : n = Cardinality(S)
  OBVIOUS
<1>5. /\ n \in Nat
      /\ \A x \in S : Rank(R, S, x) \in 0..n - 1
      /\ \A x, y \in S : <<x, y>> \in R <=> Rank(R, S, x) < Rank(R, S, y)
      /\ \A x, y \in S : Rank(R, S, x) = Rank(R, S, y) => x = y
      /\ \A i \in 0..n - 1 : \E x \in S : Rank(R, S, x) = i
  BY <1>3, <1>4, RankChar
<1>6. PICK keys : keys = [i \in 1..n |-> CHOOSE x \in S : Rank(R, S, x) = i - 1]
  OBVIOUS
<1>7. keys = KeysInOrder(S)
  <2>1. ASSUME NEW x \in S PROVE Cardinality({y \in S : KeyBefore(y, x)}) = Rank(R, S, x)
    <3>1. {y \in S : KeyBefore(y, x)} = Before(R, S, x)
      BY <1>2 DEF Before, KeyBefore
    <3> QED
      BY <3>1 DEF Rank
  <2>2. ASSUME NEW i \in 1..n
        PROVE  (CHOOSE x \in S : Rank(R, S, x) = i - 1)
                   = CHOOSE x \in S : Cardinality({y \in S : KeyBefore(y, x)}) = i - 1
    BY <2>1
  <2>3. KeysInOrder(S) = [i \in 1..n |-> CHOOSE x \in S : Cardinality({y \in S : KeyBefore(y, x)}) = i - 1]
    BY <1>4, Zenon DEF KeysInOrder, InOrder
  <2> QED
    BY <1>6, <2>2, <2>3
<1>8. ASSUME NEW i \in 1..n PROVE keys[i] \in S /\ Rank(R, S, keys[i]) = i - 1
  <2>1. i - 1 \in 0..n - 1
    BY <1>5
  <2>2. \E x \in S : Rank(R, S, x) = i - 1
    BY <1>5, <2>1
  <2>3. PICK x : x = CHOOSE y \in S : Rank(R, S, y) = i - 1
    OBVIOUS
  <2>4. x \in S /\ Rank(R, S, x) = i - 1
    BY <2>2, <2>3
  <2> QED
    BY <1>6, <2>3, <2>4
<1>9. keys \in [1..n -> S] /\ Len(keys) = n
  BY <1>5, <1>6, <1>8
<1>10. ASSUME NEW r \in S PROVE \E i \in 1..n : keys[i] = r
  <2>1. PICK i \in Int : i = Rank(R, S, r) + 1
    BY <1>5
  <2>2. i \in 1..n /\ Rank(R, S, r) = i - 1
    BY <1>5, <2>1
  <2> QED
    BY <1>5, <1>8, <2>2
<1>11. ASSUME NEW i \in 1..n, NEW j \in 1..n PROVE KeyBefore(keys[i], keys[j]) <=> i < j
  <2>1. keys[i] \in S /\ Rank(R, S, keys[i]) = i - 1 /\ keys[j] \in S /\ Rank(R, S, keys[j]) = j - 1
    BY <1>8
  <2>2. PICK x, y \in S : x = keys[i] /\ y = keys[j]
    BY <2>1
  <2>3. KeyBefore(x, y) <=> <<x, y>> \in R
    BY <1>2 DEF KeyBefore
  <2>4. <<x, y>> \in R <=> Rank(R, S, x) < Rank(R, S, y)
    BY <1>5
  <2> QED
    BY <2>1, <2>2, <2>3, <2>4
<1> QED
  BY <1>4, <1>5, <1>7, <1>9, <1>10, <1>11

=============================================================================
