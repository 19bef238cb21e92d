---------------------------- MODULE HeProjection ----------------------------
(***************************************************************************)
(* Projections (he_utils.c: he_project_value): which fields of a document  *)
(* a client is shown, named by dotted paths to include and to exclude.     *)
(* The store projects what get, query and an import of JSON give out.      *)
(*                                                                         *)
(* Documents hold no arrays (HeDoc), keys no dots, and paths have less     *)
(* than 255 bytes.  A list of paths is a function from places; what        *)
(* descends keeps the place it had.                                        *)
(***************************************************************************)
EXTENDS HeEngine

CONSTANTS Projections, \* what clients ask: records of include and exclude, sequences of paths
          MaxProjKeys  \* HE_MAX_PROJ_KEYS

ASSUME ProjectionAssumption ==
    /\ \A p \in Projections : p.include \in Seq(Path) /\ p.exclude \in Seq(Path)
    /\ MaxProjKeys \in Nat

Everything == [include |-> <<>>, exclude |-> <<>>]

\* he_projection_parse: what does not find room is dropped.
ParseProjection(options) ==
    LET Parsed(paths) == SubSeq(paths, 1, Min({Len(paths), MaxProjKeys})) IN
    [include |-> Parsed(options.include), exclude |-> Parsed(options.exclude)]

\* What paths say of the key k, which is what the first one about k says: the
\* "whole" value, a "part" of it or "nothing".
Kind(paths, k) ==
    LET about == {i \in DOMAIN paths : IsPrefix(<<k>>, paths[i])} IN
    CASE about = {}                                   -> "nothing"
      [] about # {} /\ paths[Min(about)] = <<k>>      -> "whole"
      [] about # {} /\ paths[Min(about)] # <<k>>      -> "part"

\* What the paths below k say of the value at k.
DescendIn(paths, k) ==
    [i \in {i \in DOMAIN paths : IsStrictPrefix(<<k>>, paths[i])} |-> Rel(<<k>>, paths[i])]

\* A descent that forgets what is excluded below (a fault).
DescendIncluding(proj, k) == [include |-> DescendIn(proj.include, k), exclude |-> <<>>]

Descend(proj, k) ==
    [include |-> DescendIn(proj.include, k), exclude |-> DescendIn(proj.exclude, k)]

\* A test that looks at what is included alone (a fault).
IncludeMatches(proj, t, x) ==
    \E path \in Range(proj.include) \ {Root} : Append(x, path[1]) \in DOMAIN t

\* Whether a path begins with a key of the object at x of t.  If none does the
\* object is a collection, whose values the projection is meant for.
HasFieldMatch(proj, t, x) ==
    \E path \in (Range(proj.include) \cup Range(proj.exclude)) \ {Root} :
        Append(x, path[1]) \in DOMAIN t

\* How a node is reached: whether it is shown, the projection of it, and
\* whether it is a collection that hands the projection on to its values.
Shown(proj, collection) == [shown |-> TRUE, proj |-> proj, collection |-> collection]
Hidden                  == [shown |-> FALSE, proj |-> Everything, collection |-> FALSE]

\* One key of an object: exact excludes first, then the whitelist, then what
\* descends.
Field(proj, t, x) ==
    LET included == Kind(proj.include, Last(x))
        excluded == Kind(proj.exclude, Last(x))
        below    == Descend(proj, Last(x))
    IN CASE proj = Everything -> Shown(Everything, FALSE)
         [] proj # Everything /\ (\/ excluded = "whole"
                                  \/ proj.include # <<>> /\ included = "nothing") -> Hidden
         [] OTHER -> IF "part" \notin {included, excluded} THEN Shown(Everything, FALSE)
                     ELSE Shown(below, t[x] = Obj /\ ~HasFieldMatch(below, t, x))

\* The node x of an object that is reached as up.
From(up, t, x) ==
    CASE ~up.shown                  -> Hidden
      [] up.shown /\ up.collection  -> Shown(up.proj, FALSE)
      [] up.shown /\ ~up.collection -> Field(up.proj, t, x)

Reached(t, proj) ==
    LET reach[x \in DOMAIN t] ==
            IF x = Root THEN Shown(proj, FALSE) ELSE From(reach[Front(x)], t, x)
    IN reach

\* project_json, and what a query shows of each result.
Project(t, options) ==
    LET reached == Reached(t, ParseProjection(options)) IN
    Restrict(t, {x \in DOMAIN t : reached[x].shown})

-----------------------------------------------------------------------------
\* The paths of a list that are looked at: those that find room, but for one
\* that comes after a path it begins.
Decisive(paths) ==
    {paths[i] : i \in {i \in DOMAIN paths :
        i <= MaxProjKeys /\ \A j \in DOMAIN paths : j < i => ~IsStrictPrefix(paths[i], paths[j])}}

\* "exclude SEMPRE vence include" (projection.libsql.test.ts:9): nothing at or
\* below an excluded path is shown, at any depth, whatever is included and
\* whatever passes for a collection on the way.  This is so for the decisive
\* paths of any list; the others, as "a" after "a.b" (he_utils.c:842) and the
\* 33rd (he_utils.c:945), exclude nothing.  The empty path names no field.
ExcludeWins ==
    \A p \in DocPaths, proj \in Projections :
        Exists(p) =>
            \A x \in DOMAIN Project(Extract(p), proj), path \in Decisive(proj.exclude) \ {Root} :
                ~IsPrefix(path, x)

\* Where a document has all the fields that the decisive paths name, and none of
\* those to include begins another, it is shown exactly what these paths say: the
\* included values, the objects that lead to them, and of those nothing that
\* is excluded; no field is lost, none slips in, and the paths that are not
\* decisive change nothing.  (A field that is missing makes a collection of
\* the object that lacks it.)
NamedFieldsExactly ==
    \A p \in DocPaths, proj \in Projections :
        LET t        == Extract(p)
            included == Decisive(proj.include)
            excluded == Decisive(proj.exclude)
            Wanted(x) ==
                /\ included = {} \/ \E path \in included : IsPrefix(path, x) \/ IsPrefix(x, path)
                /\ ~\E path \in excluded : IsPrefix(path, x)
        IN (/\ Exists(p)
            /\ included \cup excluded \subseteq DOMAIN t \ {Root}
            /\ \A x, y \in included : ~IsStrictPrefix(x, y))
               => Project(t, proj) = RestrictDomain(t, Wanted)
=============================================================================
