------------------------------- MODULE HeDoc -------------------------------
(***************************************************************************)
(* JSON documents of the hierarchical engine and the pure functions on     *)
(* them: he_mapper.c flattens a document into rows and merges an update    *)
(* into a document.                                                        *)
(*                                                                         *)
(* A path is a sequence of keys, Root is "/".  A text (a parsed JSON       *)
(* value) is a function from the paths of its nodes, relative to its root, *)
(* to what stands there: the marker Obj of an object, the marker Null, or  *)
(* a scalar of Values.  An object without entries is {}.  An array is      *)
(* stored by he_mapper_flatten_array_as_object as an object with fresh     *)
(* keys, so a text stands for it too.                                      *)
(***************************************************************************)
EXTENDS Naturals, SequencesExt

CONSTANTS Keys,      \* the keys of JSON objects, the segments of paths
          Values,    \* scalars: numbers, booleans, strings
          Size,      \* Size[v]: what value_fits_inline compares v with
          Obj, Null  \* markers of objects and of JSON null

ASSUME ItemAssumption == Obj \notin Values /\ Null \notin Values /\ Obj # Null
ASSUME SizeAssumption == Size \in [Values -> Nat]

Path == Seq(Keys)
Root == <<>>
Item == Values \cup {Obj, Null}

\* The function without entries: a container's text_value "{}", an empty table.
Nothing == [x \in {} |-> Null]

\* The function old with the entries of new put over it (INSERT OR REPLACE).
Override(new, old) ==
    [x \in DOMAIN new \cup DOMAIN old |-> IF x \in DOMAIN new THEN new[x] ELSE old[x]]

Ancestors(p) == Prefixes(p) \ {p}

\* What Rel(p, q) is to q, q is to p: the rest of q, which is at or below p.
Rel(p, q) == SubSeq(q, Len(p) + 1, Len(q))

ChildPaths(t, x) == {y \in DOMAIN t : y # Root /\ Front(y) = x}

\* JSON texts: rooted, and only objects have entries.
IsText(t) == /\ DOMAIN t \subseteq Path
             /\ Root \in DOMAIN t
             /\ \A x \in DOMAIN t : /\ t[x] \in Item
                                    /\ \A y \in Ancestors(x) : y \in DOMAIN t /\ t[y] = Obj

\* The text without its JSON nulls, which no writer stores.
Content(t) == Restrict(t, {x \in DOMAIN t : t[x] # Null})

-----------------------------------------------------------------------------
(***************************************************************************)
(* Flattening (he_mapper_flatten_value): an entry that fits goes into its  *)
(* object's text_value, any other gets a row of its own.  The root always  *)
(* has a row, whatever its value is.                                       *)
(***************************************************************************)
FitsInline(t, x, limit) ==
    IF t[x] = Obj THEN ChildPaths(t, x) = {} ELSE Size[t[x]] <= limit

Stored(t, x)              == x # Root /\ t[x] # Null
InlinePaths(t, limit)     == {x \in DOMAIN t : Stored(t, x) /\ FitsInline(t, x, limit)}
DedicatedPaths(t, limit)  == {x \in DOMAIN t : Stored(t, x) /\ ~FitsInline(t, x, limit)}
ContainerPaths(t, limit)  == {Root} \cup {x \in DedicatedPaths(t, limit) : t[x] = Obj}
PrimitivePaths(t, limit)  == {x \in DedicatedPaths(t, limit) : t[x] # Obj}

\* A flattener that forgets that an empty object has no row (a fault).
InlineScalars(t, x, limit) ==
    [k \in {k \in Keys : /\ Append(x, k) \in InlinePaths(t, limit)
                         /\ t[Append(x, k)] # Obj} |-> t[Append(x, k)]]

InlineEntries(t, x, limit) ==
    [k \in {k \in Keys : Append(x, k) \in InlinePaths(t, limit)} |-> t[Append(x, k)]]

-----------------------------------------------------------------------------
(***************************************************************************)
(* Deep merge (he_mapper_deep_merge) of the object u into the object c.    *)
(* An entry of c survives unless u has a null or a scalar on its path, or  *)
(* an object where c has a scalar.  An entry of u is copied; a null of u   *)
(* erases, and stays as a null only inside an object copied whole.         *)
(***************************************************************************)
Survives(c, u, x) ==
    \A y \in Prefixes(x) : y \in DOMAIN u => u[y] = Obj /\ c[y] = Obj

Copied(c, u, x) ==
    u[x] = Null => ~(Front(x) \in DOMAIN c /\ c[Front(x)] = Obj)

\* A merge that keeps the entries below a scalar of the update (a fault).
MergeOver(c, u) == Override(u, c)

Merge(c, u) ==
    Override(Restrict(u, {x \in DOMAIN u : Copied(c, u, x)}),
             Restrict(c, {x \in DOMAIN c : Survives(c, u, x)}))

\* The update of every direct child of c by u (update_json with a wildcard).
EachChild(c, u) ==
    LET children == ChildPaths(c, Root) IN
    [x \in {Root} \cup {y \o z : y \in children, z \in DOMAIN u} |->
        IF x = Root THEN Obj ELSE u[Rel(SubSeq(x, 1, 1), x)]]
=============================================================================
