----------------------------- MODULE HeTreeProofs -----------------------------
(***************************************************************************)
(* What is flattened is what is read back, for any keys, values, paths,    *)
(* texts and limits; and with it the one property that takes the whole     *)
(* engine together: which calls may leave a hash that counts and lies.     *)
(*                                                                         *)
(* The leaf path of update_json does not flatten: it writes rows one by    *)
(* one and never reads the document.  It still gives what reading, merging *)
(* and writing back would, as long as the root row has nothing inlined.    *)
(*                                                                         *)
(* The engine therefore implements HeTree: every call edits one JSON value *)
(* at the path it names.  Tables are seen as a tree (TreeNodes), a call at *)
(* p as a text grafted on it at p: what a call leaves alone (Frame,        *)
(* HeEngineProofs) fixes the tree apart from p, what it leaves at p and    *)
(* extract reads back the rest.  TInv adds to the invariants that no       *)
(* container has a null inlined and that no scalar stands at "/": such a   *)
(* row would be hidden by the top container and never appear in the tree.  *)
(***************************************************************************)
EXTENDS HeEngineProofs

-----------------------------------------------------------------------------
(* Extract is the inverse of flatten *)

\* An entry that is inlined is inlined in an object that has a row.
LEMMA InlinedInRow ==
    ASSUME NEW t, IsText(t), NEW limit, NEW y \in InlinePaths(t, limit)
    PROVE  /\ y \in Path /\ y # Root /\ y \in DOMAIN t /\ t[y] # Null
           /\ Front(y) \in Path /\ Last(y) \in Keys /\ y = Append(Front(y), Last(y))
           /\ Front(y) \in ContainerPaths(t, limit)
<1>1. y \in Path /\ y # Root /\ y \in DOMAIN t /\ t[y] # Null
  BY DEF InlinePaths, Stored, IsText
<1>2. /\ Front(y) \in Path /\ Last(y) \in Keys /\ y = Append(Front(y), Last(y))
      /\ IsPrefix(Front(y), y) /\ Len(Front(y)) = Len(y) - 1
  BY <1>1, SplitLast
<1>3. Len(y) \in Nat /\ Front(y) # y
  BY <1>1, <1>2 DEF Path
<1>4. Front(y) \in DOMAIN t /\ t[Front(y)] = Obj
  <2>1. Front(y) \in Ancestors(y)
    BY <1>1, <1>2, <1>3, AncestorChar
  <2> QED
    BY <2>1, <1>1 DEF IsText
<1>5. Front(y) \in ContainerPaths(t, limit)
  <2>1. CASE Front(y) = Root
    BY <2>1 DEF ContainerPaths
  <2>2. CASE Front(y) # Root
    <3>1. y \in ChildPaths(t, Front(y))
      BY <1>1 DEF ChildPaths
    <3>2. ~FitsInline(t, Front(y), limit)
      BY <3>1, <1>4 DEF FitsInline
    <3> QED
      BY <3>2, <1>4, <2>2, ItemAssumption DEF ContainerPaths, DedicatedPaths, Stored
  <2> QED
    BY <2>1, <2>2
<1> QED
  BY <1>1, <1>2, <1>5

\* The places of a text hold every node but the nulls.
LEMMA PlacesOfText ==
    ASSUME NEW t, IsText(t), t[Root] = Obj, NEW limit, NEW y \in Path
    PROVE  /\ y \in DOMAIN t /\ t[y] # Null
                <=> y \in ContainerPaths(t, limit) \cup PrimitivePaths(t, limit) \cup InlinePaths(t, limit)
           /\ y \in ContainerPaths(t, limit) => t[y] = Obj
           /\ y \in PrimitivePaths(t, limit) \cup InlinePaths(t, limit) => y # Root
<1>1. Root \in DOMAIN t /\ Obj # Null
  BY ItemAssumption DEF IsText
<1> QED
  BY <1>1 DEF ContainerPaths, PrimitivePaths, DedicatedPaths, InlinePaths, Stored

\* Tables that hold the rows of t at p, and nothing else below p.
Holds(c, r, p, t, limit) ==
    /\ \A y \in Path : p \o y \in DOMAIN c <=> y \in ContainerPaths(t, limit)
    /\ \A y \in ContainerPaths(t, limit) : c[p \o y].inline = InlineEntries(t, y, limit)
    /\ \A y \in Path : y # Root => (p \o y \in DOMAIN r <=> y \in PrimitivePaths(t, limit))
    /\ \A y \in PrimitivePaths(t, limit) : r[p \o y].val = t[y]

LEMMA HeldIsRead ==
    ASSUME NEW c, NEW r, ContainersOK(c), PrimitivesOK(r), NEW p \in Path,
           NEW t, IsText(t), t[Root] = Obj, NEW limit, Holds(c, r, p, t, limit)
    PROVE  TextOf(c, r, p) = Content(t)
<1> DEFINE C == ContainerPaths(t, limit)
           R == PrimitivePaths(t, limit)
           I == InlinePaths(t, limit)
<1>1. C \subseteq Path /\ R \subseteq Path
  BY FlattenTypes
\* What is inlined at a node is what the text has inlined there.
<1>2. ASSUME NEW y \in Path, y # Root
      PROVE  /\ Inlined(c, p \o y) <=> y \in I
             /\ y \in I => c[p \o Front(y)].inline[Last(y)] = t[y]
  <2>1. Front(y) \in Path /\ Last(y) \in Keys /\ y = Append(Front(y), Last(y))
    BY <1>2, SplitLast
  <2>2. p \o y # Root /\ Front(p \o y) = p \o Front(y) /\ Last(p \o y) = Last(y)
    BY <1>2, FrontOfConcat
  <2>3. Inlined(c, p \o y) <=>
          p \o Front(y) \in DOMAIN c /\ Last(y) \in DOMAIN c[p \o Front(y)].inline
    BY <2>2 DEF Inlined
  <2>4. p \o Front(y) \in DOMAIN c <=> Front(y) \in C
    BY <2>1 DEF Holds
  <2>5. Front(y) \in C => /\ Last(y) \in DOMAIN c[p \o Front(y)].inline <=> y \in I
                          /\ y \in I => c[p \o Front(y)].inline[Last(y)] = t[y]
    <3>1. Front(y) \in C => c[p \o Front(y)].inline = InlineEntries(t, Front(y), limit)
      BY DEF Holds
    <3>2. /\ Last(y) \in DOMAIN InlineEntries(t, Front(y), limit) <=> Append(Front(y), Last(y)) \in I
          /\ Append(Front(y), Last(y)) \in I =>
                InlineEntries(t, Front(y), limit)[Last(y)] = t[Append(Front(y), Last(y))]
      BY <2>1 DEF InlineEntries
    <3> QED
      BY <3>1, <3>2, <2>1
  <2>6. y \in I => Front(y) \in C
    BY InlinedInRow
  <2> QED
    BY <2>3, <2>4, <2>5, <2>6
<1>3. ASSUME NEW y \in Path
      PROVE  y \in NodesOf(c, r, p) <=> y \in DOMAIN t /\ t[y] # Null
  <2>1. y \in NodesOf(c, r, p) <=> \/ p \o y \in DOMAIN c
                                   \/ y # Root /\ p \o y \in DOMAIN r
                                   \/ y # Root /\ Inlined(c, p \o y)
    BY NodesChar
  <2>2. p \o y \in DOMAIN c <=> y \in C
    BY DEF Holds
  <2>3. y # Root => (p \o y \in DOMAIN r <=> y \in R)
    BY DEF Holds
  <2>4. y # Root => (Inlined(c, p \o y) <=> y \in I)
    BY <1>2
  <2>5. y \in R \cup I => y # Root
    BY PlacesOfText
  <2>6. y \in DOMAIN t /\ t[y] # Null <=> y \in C \cup R \cup I
    BY PlacesOfText
  <2> HIDE DEF C, R, I
  <2> QED
    BY <2>1, <2>2, <2>3, <2>4, <2>5, <2>6
<1>4. ASSUME NEW y \in Path, y \in NodesOf(c, r, p)
      PROVE  TextOf(c, r, p)[y] = t[y]
  <2>1. TextOf(c, r, p)[y] = IF p \o y \in DOMAIN c THEN Obj
                             ELSE IF p \o y \in DOMAIN r THEN r[p \o y].val
                             ELSE c[p \o Front(y)].inline[Last(y)]
    BY <1>4 DEF TextOf
  <2>2. CASE p \o y \in DOMAIN c
    <3>1. t[y] = Obj
      BY <2>2, PlacesOfText DEF Holds
    <3> QED
      BY <2>1, <2>2, <3>1
  <2>3. CASE p \o y \notin DOMAIN c /\ y = Root
    <3>1. p \o y \in DOMAIN c
      BY <2>3 DEF Holds, ContainerPaths
    <3> QED
      BY <2>3, <3>1
  <2>4. CASE p \o y \notin DOMAIN c /\ y # Root /\ p \o y \in DOMAIN r
    <3>1. r[p \o y].val = t[y]
      BY <2>4 DEF Holds
    <3> QED
      BY <2>1, <2>4, <3>1
  <2>5. CASE p \o y \notin DOMAIN c /\ y # Root /\ p \o y \notin DOMAIN r
    <3>1. Inlined(c, p \o y)
      BY <1>4, <2>5, NodesChar
    <3> QED
      BY <2>1, <2>5, <3>1, <1>2
  <2> QED
    BY <2>2, <2>3, <2>4, <2>5
<1>5. NodesOf(c, r, p) \subseteq Path /\ DOMAIN t \subseteq Path
  BY NodesChar DEF IsText
<1>6. NodesOf(c, r, p) = {y \in DOMAIN t : t[y] # Null}
  BY <1>3, <1>5
<1>7. TextOf(c, r, p) = [y \in NodesOf(c, r, p) |-> TextOf(c, r, p)[y]]
  BY DEF TextOf
<1>8. TextOf(c, r, p) = [y \in NodesOf(c, r, p) |-> t[y]]
  BY <1>4, <1>5, <1>7
<1> QED
  BY <1>6, <1>8 DEF Content, Restrict

-----------------------------------------------------------------------------
(* The writers *)

\* Rows that hold the text t at p.
Flattened(w, v, p, t, limit) ==
    /\ DOMAIN w = {p \o x : x \in ContainerPaths(t, limit)}
    /\ \A x \in ContainerPaths(t, limit) : w[p \o x].inline = InlineEntries(t, x, limit)
    /\ DOMAIN v = {p \o x : x \in PrimitivePaths(t, limit)}
    /\ \A x \in PrimitivePaths(t, limit) : v[p \o x].val = t[x]

\* Set, full update and import put the rows w and v of a text over what the
\* deletion leaves: nothing else stands at or below p.
LEMMA WrittenIsHeld ==
    ASSUME NEW p \in Path, NEW t, IsText(t), NEW limit, NEW rev, NEW w, NEW v,
           Flattened(w, v, p, t, limit),
           NEW c, c = Override(w, EnsureIntermediate(Restrict(containers, Outside(p)), p, rev)),
           NEW r, r = Override(v, Restrict(primitives, OutsideStrictly(p)))
    PROVE  Holds(c, r, p, t, limit)
<1> DEFINE C    == ContainerPaths(t, limit)
           R    == PrimitivePaths(t, limit)
           out  == Restrict(containers, Outside(p))
           left == Restrict(primitives, OutsideStrictly(p))
<1>1. DOMAIN out = Outside(p) /\ DOMAIN left = OutsideStrictly(p)
  BY DEF Restrict
<1>2. PICK e : e = EnsureIntermediate(out, p, rev)
  OBVIOUS
<1>3. \A q \in DOMAIN e : q \in DOMAIN out \/ (q \in Path /\ IsPrefix(q, p))
  <2> HIDE DEF C, R, out, left
  <2>1. \A q \in DOMAIN EnsureIntermediate(out, p, rev) :
           q \in DOMAIN out \/ (q \in Path /\ IsPrefix(q, p))
    BY EnsuredRows
  <2> QED
    BY <1>2, <2>1
<1>4. /\ C \subseteq Path /\ R \subseteq Path /\ Root \in C
  BY FlattenTypes DEF ContainerPaths
<1>5. c = Override(w, e) /\ r = Override(v, left)
  BY <1>2
<1> HIDE DEF C, R, out, left
<1>6. /\ DOMAIN c = DOMAIN w \cup DOMAIN e
      /\ \A q \in DOMAIN w : c[q] = w[q]
  <2>1. /\ DOMAIN Override(w, e) = DOMAIN w \cup DOMAIN e
        /\ \A q \in DOMAIN w : Override(w, e)[q] = w[q]
    BY OverrideChar
  <2> QED
    BY <2>1, <1>5
<1>7. /\ DOMAIN r = DOMAIN v \cup DOMAIN left
      /\ \A q \in DOMAIN v : r[q] = v[q]
  <2>1. /\ DOMAIN Override(v, left) = DOMAIN v \cup DOMAIN left
        /\ \A q \in DOMAIN v : Override(v, left)[q] = v[q]
    BY OverrideChar
  <2> QED
    BY <2>1, <1>5
<1>8. ASSUME NEW y \in Path
      PROVE  /\ p \o y \in Path /\ IsPrefix(p, p \o y)
             /\ y # Root => p \o y # p
             /\ p \o y \in DOMAIN w <=> y \in C
             /\ p \o y \in DOMAIN v <=> y \in R
  <2>1. p \o y \in Path /\ IsPrefix(p, p \o y) /\ Rel(p, p \o y) = y /\ (y # Root => p \o y # p)
    BY ConcatChar
  <2>2. \A x \in C \cup R : p \o x = p \o y => x = y
    <3> TAKE x \in C \cup R
    <3>1. x \in Path
      BY <1>4
    <3>2. Rel(p, p \o x) = x
      BY <3>1, ConcatChar
    <3> QED
      BY <2>1, <3>2
  <2>3. p \o y \in DOMAIN w <=> y \in C
    BY <2>2 DEF C, Flattened
  <2>4. p \o y \in DOMAIN v <=> y \in R
    BY <2>2 DEF R, Flattened
  <2> QED
    BY <2>1, <2>3, <2>4
<1>9. ASSUME NEW y \in Path PROVE p \o y \in DOMAIN c <=> y \in C
  <2>1. ASSUME p \o y \in DOMAIN e PROVE y \in C
    <3>1. p \o y \notin DOMAIN out
      BY <1>1, <1>8 DEF Outside
    <3>2. IsPrefix(p \o y, p)
      BY <2>1, <3>1, <1>3
    <3>3. p \o y = p
      BY <3>2, <1>8, PrefixOrder
    <3> QED
      BY <3>3, <1>4, <1>8
  <2> QED
    BY <2>1, <1>6, <1>8
<1>10. ASSUME NEW y \in Path, y # Root PROVE p \o y \in DOMAIN r <=> y \in R
  <2>1. p \o y \notin DOMAIN left
    BY <1>1, <1>8, <1>10 DEF OutsideStrictly, IsStrictPrefix
  <2> QED
    BY <2>1, <1>7, <1>8
<1>11. \A y \in C : c[p \o y].inline = InlineEntries(t, y, limit)
  BY <1>4, <1>6, <1>8 DEF C, Flattened
<1>12. \A y \in R : r[p \o y].val = t[y]
  BY <1>4, <1>7, <1>8 DEF R, Flattened
<1> QED
  BY <1>9, <1>10, <1>11, <1>12 DEF Holds, C, R

\* The rows that flatten gives.
LEMMA FlattenedRows ==
    ASSUME NEW p \in Path, NEW t, IsText(t), NEW limit, NEW rev, NEW nr,
           NEW w, w = ContainerRows(p, t, limit, rev, nr),
           NEW v, v = PrimitiveRows(p, t, limit, rev, nr)
    PROVE  Flattened(w, v, p, t, limit)
<1>1. \A x \in ContainerPaths(t, limit) \cup PrimitivePaths(t, limit) : Rel(p, p \o x) = x
  BY FlattenTypes, ConcatChar
<1>2. /\ DOMAIN ContainerRows(p, t, limit, rev, nr) = {p \o x : x \in ContainerPaths(t, limit)}
      /\ \A q \in {p \o x : x \in ContainerPaths(t, limit)} :
            ContainerRows(p, t, limit, rev, nr)[q].inline = InlineEntries(t, Rel(p, q), limit)
  BY DEF ContainerRows
<1>3. /\ DOMAIN PrimitiveRows(p, t, limit, rev, nr) = {p \o x : x \in PrimitivePaths(t, limit)}
      /\ \A q \in {p \o x : x \in PrimitivePaths(t, limit)} :
            PrimitiveRows(p, t, limit, rev, nr)[q].val = t[Rel(p, q)]
  BY DEF PrimitiveRows
<1>4. \A x \in ContainerPaths(t, limit) :
         ContainerRows(p, t, limit, rev, nr)[p \o x].inline = InlineEntries(t, x, limit)
  BY <1>1, <1>2
<1>5. \A x \in PrimitivePaths(t, limit) : PrimitiveRows(p, t, limit, rev, nr)[p \o x].val = t[x]
  BY <1>1, <1>3
<1> QED
  BY <1>2, <1>3, <1>4, <1>5 DEF Flattened

\* A set or full update leaves what it flattened.
LEMMA WriteTextReadsBack ==
    ASSUME IInv', NEW p \in Path, NEW t, IsText(t), t[Root] = Obj, NEW limit, WriteText(p, t, limit)
    PROVE  Extract(p)' = Content(t)
<1> DEFINE ensured == EnsureIntermediate(Restrict(containers, Outside(p)), p, clock + 1)
           nr      == RevisionNr(ensured, p) + 1
<1>0. PICK w, v : /\ w = ContainerRows(p, t, limit, clock + 1, nr)
                  /\ v = PrimitiveRows(p, t, limit, clock + 1, nr)
  OBVIOUS
<1>1. /\ containers' = Override(w, ensured)
      /\ primitives' = Override(v, Restrict(primitives, OutsideStrictly(p)))
  BY <1>0 DEF WriteText
<1>2. Flattened(w, v, p, t, limit)
  BY <1>0, FlattenedRows
<1>3. Holds(containers', primitives', p, t, limit)
  BY <1>1, <1>2, WrittenIsHeld
<1>4. ContainersOK(containers') /\ PrimitivesOK(primitives')
  BY DEF IInv, TypeOK, ContainersOK, PrimitivesOK
<1>5. TextOf(containers', primitives', p) = Content(t)
  BY <1>3, <1>4, HeldIsRead
<1> QED
  BY <1>5, ExtractIsTextOf

\* So does an import of a text that has nothing inlined in its root row.
LEMMA ImportReadsBack ==
    ASSUME IInv', NEW p \in Path, NEW t, IsText(t), t[Root] = Obj, NEW limit, ImportCsv(p, t, limit),
           InlineEntries(t, Root, limit) = Nothing
    PROVE  Extract(p)' = Content(t)
<1> DEFINE ensured == EnsureIntermediate(Restrict(containers, Outside(p)), p, clock + 1)
           nr      == RevisionNr(ensured, p) + 1
<1>0. PICK root, rows, v : /\ root = RootRow(p, clock + 1, nr)
                           /\ rows = ContainerRows(p, t, limit, clock + 1, nr)
                           /\ v = PrimitiveRows(p, t, limit, clock + 1, nr)
  OBVIOUS
<1> DEFINE w == Override(root, rows)
<1>1. /\ containers' = Override(root, Override(rows, ensured))
      /\ primitives' = Override(v, Restrict(primitives, OutsideStrictly(p)))
  BY <1>0 DEF ImportCsv
<1>2. containers' = Override(w, ensured)
  <2>1. Override(root, Override(rows, ensured)) = Override(Override(root, rows), ensured)
    BY OverrideTwice
  <2> QED
    BY <1>1, <2>1
<1>3. Flattened(rows, v, p, t, limit)
  BY <1>0, FlattenedRows
<1>4. DOMAIN root = {p} /\ root[p].inline = Nothing
  BY <1>0 DEF RootRow
<1> HIDE DEF ensured
<1>5. /\ DOMAIN w = DOMAIN root \cup DOMAIN rows
      /\ \A q \in DOMAIN root : w[q] = root[q]
      /\ \A q \in DOMAIN rows : q \notin DOMAIN root => w[q] = rows[q]
  BY OverrideChar
<1> HIDE DEF w
<1>6. Root \in ContainerPaths(t, limit) /\ p \o Root = p /\ ContainerPaths(t, limit) \subseteq Path
  BY RootIsPath, ConcatChar, FlattenTypes DEF ContainerPaths
<1>7. DOMAIN w = {p \o x : x \in ContainerPaths(t, limit)}
  BY <1>3, <1>4, <1>5, <1>6 DEF Flattened
<1>8. ASSUME NEW x \in ContainerPaths(t, limit) PROVE w[p \o x].inline = InlineEntries(t, x, limit)
  <2>1. CASE x = Root
    BY <2>1, <1>4, <1>5, <1>6
  <2>2. CASE x # Root
    <3>1. p \o x # p
      BY <2>2, <1>6, ConcatChar
    <3> QED
      BY <3>1, <1>3, <1>4, <1>5 DEF Flattened
  <2> QED
    BY <2>1, <2>2
<1>9. Flattened(w, v, p, t, limit)
  BY <1>3, <1>7, <1>8 DEF Flattened
<1>10. Holds(containers', primitives', p, t, limit)
  BY <1>1, <1>2, <1>9, WrittenIsHeld DEF ensured
<1>11. ContainersOK(containers') /\ PrimitivesOK(primitives')
  BY DEF IInv, TypeOK, ContainersOK, PrimitivesOK
<1>12. TextOf(containers', primitives', p) = Content(t)
  BY <1>10, <1>11, HeldIsRead
<1> QED
  BY <1>12, ExtractIsTextOf

-----------------------------------------------------------------------------
(* The specification *)

\* What each call does to the tables and to the recorded hashes.
Skips      == UNCHANGED <<containers, primitives, hashes, clock>>
Writes(p)  == \E t, limit : IsText(t) /\ t[Root] = Obj /\ WriteText(p, t, limit)
Leaves(p)  == call'.op = "leaf" /\ hashes' = Restrict(hashes, DOMAIN hashes \ {p})
Imports(p) == \E t \in Texts, limit \in Limits : ImportCsv(p, t, limit)

LEMMA NextWrites ==
    ASSUME IInv, Next
    PROVE  \/ Skips
           \/ Writes(call'.path)
           \/ RemoveJson(call'.path)
           \/ Leaves(call'.path)
           \/ Imports(call'.path)
<1>1. ASSUME NEW p \in DocPaths, NEW t \in Texts, NEW limit \in Limits, SetJson(p, t, limit)
      PROVE  call'.path = p /\ (Skips \/ Writes(p))
  <2>1. IsText(t) /\ t[Root] = Obj
    BY EngineAssumption
  <2>2. Skips \/ WriteText(p, t, limit)
    BY <1>1 DEF SetJson, Skips
  <2> QED
    BY <2>1, <2>2, <1>1 DEF SetJson, Called, Writes
<1>2. ASSUME NEW p \in DocPaths, RemoveJson(p) PROVE call'.path = p /\ RemoveJson(p)
  BY <1>2 DEF RemoveJson, Called
<1>3. ASSUME NEW p \in DocPaths, NEW u \in Updates, UpdateLeaf(p, u) PROVE call'.path = p /\ Leaves(p)
  BY <1>3 DEF UpdateLeaf, Leaves, Called
<1>4. ASSUME NEW p \in DocPaths, NEW u \in Updates, UpdateFull(p, u) PROVE call'.path = p /\ Writes(p)
  <2> DEFINE m == IF Exists(p) THEN Merge(Extract(p), u) ELSE u
  <2>1. p \in Path /\ IsText(u) /\ u[Root] = Obj
    BY EngineAssumption
  <2>2. IsText(m) /\ m[Root] = Obj
    BY <2>1, ExtractIsText, MergeIsText
  <2>3. WriteText(p, m, DefaultLimit) /\ call'.path = p
    BY <1>4 DEF UpdateFull, Called
  <2> HIDE DEF m
  <2> QED
    BY <2>2, <2>3 DEF Writes
<1>5. ASSUME NEW p \in DocPaths, NEW u \in Updates, UpdateWildcard(p, u) PROVE call'.path = p /\ Writes(p)
  <2> DEFINE m == Merge(Extract(p), EachChild(Extract(p), u))
  <2>1. p \in Path /\ IsText(u) /\ u[Root] = Obj
    BY EngineAssumption
  <2>2. Exists(p) /\ WriteText(p, m, DefaultLimit) /\ call'.path = p
    BY <1>5 DEF UpdateWildcard, Called
  <2>3. IsText(m) /\ m[Root] = Obj
    BY <2>1, <2>2, ExtractIsText, EachChildIsText, MergeIsText
  <2> HIDE DEF m
  <2> QED
    BY <2>2, <2>3 DEF Writes
<1>6. ASSUME NEW p \in DocPaths, NEW t \in Texts, NEW limit \in Limits, ImportCsv(p, t, limit)
      PROVE  call'.path = p /\ Imports(p)
  BY <1>6 DEF ImportCsv, Imports, Called
<1> QED
  BY <1>1, <1>2, <1>3, <1>4, <1>5, <1>6 DEF Next

\* A write records the hash of what is read back.
LEMMA WritesAreRead ==
    ASSUME IInv', NEW p \in Path, Writes(p)
    PROVE  Extract(p)' = Content(hashes'[p].text)
<1>1. PICK t, limit : IsText(t) /\ t[Root] = Obj /\ WriteText(p, t, limit)
  BY DEF Writes
<1>2. Extract(p)' = Content(t)
  BY <1>1, WriteTextReadsBack
<1>3. hashes'[p].text = t
  BY <1>1 DEF WriteText, Override
<1> QED
  BY <1>2, <1>3

\* For any keys, values, paths, texts and limits: a set, full update or wildcard
\* update that writes leaves exactly the text whose hash it records.
THEOREM WritesAreReadBack == Spec => WritesReadBack
<1>1. ASSUME IInv, IInv', Next, NEW p \in DocPaths, p = call'.path,
             call'.op \in {"set", "full", "wildcard"}, clock' # clock
      PROVE  Extract(p)' = Content(hashes'[p].text)
  <2>1. p \in Path
    BY EngineAssumption
  <2>2. ~Imports(p)
    BY <1>1 DEF Imports, ImportCsv, Called
  <2>3. ~RemoveJson(p)
    BY <1>1 DEF RemoveJson, Called
  <2>4. ~Leaves(p)
    BY <1>1 DEF Leaves
  <2>5. ~Skips
    BY <1>1 DEF Skips
  <2>6. Writes(p)
    BY <1>1, <2>2, <2>3, <2>4, <2>5, NextWrites
  <2> QED
    BY <1>1, <2>1, <2>6, WritesAreRead
<1>2. IInv /\ IInv' /\ [Next]_vars =>
         [\A p \in DocPaths :
             (p = call'.path /\ call'.op \in {"set", "full", "wildcard"} /\ clock' # clock)
                => Extract(p)' = Content(hashes'[p].text)]_vars
  BY <1>1
<1> QED
  BY <1>2, IInvInit, IInvNext, PTL DEF Spec, WritesReadBack

\* A recorded revision was drawn: no row that a later call writes has it.
HashesDrawn == \A p \in DOMAIN hashes : hashes[p].rev <= clock

RInv == EInv /\ HashesDrawn

\* What the calls do to the recorded hashes.
LEMMA NextHashes ==
    ASSUME IInv, IInv', Next
    PROVE  /\ clock' \in {clock, clock + 1}
           /\ \A p \in DOMAIN hashes' :
                 \/ p \in DOMAIN hashes /\ hashes'[p] = hashes[p]
                 \/ p = call'.path /\ hashes'[p].rev = clock' /\ (Writes(p) \/ Imports(p))
           /\ \A p : Leaves(p) \/ RemoveJson(p) => p \notin DOMAIN hashes'
<1>1. ASSUME NEW p, NEW t, NEW limit, WriteText(p, t, limit)
      PROVE  /\ clock' = clock + 1
             /\ DOMAIN hashes' = DOMAIN hashes \cup {p}
             /\ hashes'[p].rev = clock'
             /\ \A q \in DOMAIN hashes : q # p => hashes'[q] = hashes[q]
  BY <1>1 DEF WriteText, Override
<1>2. ASSUME NEW p, NEW t, NEW limit, ImportCsv(p, t, limit)
      PROVE  /\ clock' = clock + 1
             /\ DOMAIN hashes' = DOMAIN hashes \cup {p}
             /\ hashes'[p].rev = clock'
             /\ \A q \in DOMAIN hashes : q # p => hashes'[q] = hashes[q]
  BY <1>2 DEF ImportCsv, Override
<1>3. ASSUME NEW p, Leaves(p) \/ RemoveJson(p)
      PROVE  /\ DOMAIN hashes' = DOMAIN hashes \ {p}
             /\ \A q \in DOMAIN hashes' : hashes'[q] = hashes[q]
  BY <1>3 DEF Leaves, RemoveJson, Restrict
<1>4. clock' \in {clock, clock + 1}
  BY NextEdits
<1>5. ASSUME NEW p \in DOMAIN hashes'
      PROVE  \/ p \in DOMAIN hashes /\ hashes'[p] = hashes[p]
             \/ p = call'.path /\ hashes'[p].rev = clock' /\ (Writes(p) \/ Imports(p))
  <2>1. CASE Skips
    BY <2>1 DEF Skips
  <2>2. CASE Writes(call'.path)
    <3>1. PICK t, limit : WriteText(call'.path, t, limit)
      BY <2>2 DEF Writes
    <3>2. /\ hashes'[call'.path].rev = clock'
          /\ DOMAIN hashes' = DOMAIN hashes \cup {call'.path}
          /\ \A q \in DOMAIN hashes : q # call'.path => hashes'[q] = hashes[q]
      BY <3>1, <1>1
    <3> HIDE DEF Writes
    <3> QED
      BY <2>2, <3>2
  <2>3. CASE Leaves(call'.path) \/ RemoveJson(call'.path)
    BY <2>3, <1>3
  <2>4. CASE Imports(call'.path)
    <3>1. PICK t, limit : ImportCsv(call'.path, t, limit)
      BY <2>4 DEF Imports
    <3>2. /\ hashes'[call'.path].rev = clock'
          /\ DOMAIN hashes' = DOMAIN hashes \cup {call'.path}
          /\ \A q \in DOMAIN hashes : q # call'.path => hashes'[q] = hashes[q]
      BY <3>1, <1>2
    <3> HIDE DEF Imports
    <3> QED
      BY <2>4, <3>2
  <2> QED
    BY <2>1, <2>2, <2>3, <2>4, NextWrites
<1> QED
  BY <1>3, <1>4, <1>5

LEMMA RInvInit == Init => RInv
BY EInvInit DEF Init, RInv, HashesDrawn, Nothing

LEMMA RInvNext == RInv /\ [Next]_vars => RInv'
<1> SUFFICES ASSUME RInv, [Next]_vars PROVE RInv'
  OBVIOUS
<1>1. EInv /\ EInv' /\ IInv /\ IInv'
  BY EInvNext DEF RInv, EInv
<1>2. /\ clock \in Nat
      /\ \A p \in DOMAIN hashes : hashes[p].rev \in Nat /\ hashes[p].rev <= clock
  BY <1>1 DEF RInv, HashesDrawn, IInv, TypeOK
<1>3. clock' \in Nat
  BY <1>1 DEF IInv, TypeOK
<1>4. CASE Next
  <2>1. ASSUME NEW p \in DOMAIN hashes' PROVE hashes'[p].rev <= clock'
    BY <1>1, <1>2, <1>3, <1>4, NextHashes
  <2> QED
    BY <1>1, <2>1 DEF RInv, HashesDrawn
<1>5. CASE UNCHANGED vars
  BY <1>1, <1>5 DEF RInv, HashesDrawn, vars
<1> QED
  BY <1>4, <1>5

\* Nulls go once.
LEMMA ContentTwice ==
    ASSUME NEW t
    PROVE  Content(Content(t)) = Content(t)
<1> PICK c : c = Content(t)
  OBVIOUS
<1>1. c = [x \in DOMAIN c |-> c[x]] /\ \A x \in DOMAIN c : c[x] # Null
  BY DEF Content, Restrict
<1>2. {x \in DOMAIN c : c[x] # Null} = DOMAIN c
  BY <1>1
<1> QED
  BY <1>1, <1>2 DEF Content, Restrict

\* An import that finds nothing to inline in its root row is read back too.
LEMMA ImportsAreRead ==
    ASSUME IInv', NEW p \in Path, Imports(p),
           \A limit \in Limits : InlineEntries(call'.text, Root, limit) = Nothing
    PROVE  Extract(p)' = Content(hashes'[p].text)
<1>1. PICK t \in Texts, limit \in Limits : ImportCsv(p, t, limit)
  BY DEF Imports
<1>2. IsText(t) /\ t[Root] = Obj /\ call'.text = t
  BY <1>1, EngineAssumption DEF ImportCsv, Called
<1>3. Extract(p)' = Content(t)
  BY <1>1, <1>2, ImportReadsBack
<1>4. hashes'[p].text = Content(t)
  BY <1>1 DEF ImportCsv, Override
<1> QED
  BY <1>3, <1>4, ContentTwice

\* A call that does not record the hash of p, nor names a path below p, lets no
\* hash of p count that did not, and changes nothing under one that does.
LEMMA OtherHashesStay ==
    ASSUME RInv, IInv', NEW p \in Path, NEW e \in Path, Edit(e), ~IsStrictPrefix(p, e),
           p \in DOMAIN hashes, p \in DOMAIN hashes', hashes'[p] = hashes[p], Armed(p)'
    PROVE  Armed(p) /\ Extract(p)' = Extract(p)
<1>1. p \in DOMAIN containers' /\ containers'[p].rev = hashes[p].rev
  BY DEF Armed
<1>2. clock \in Nat /\ hashes[p].rev \in Nat /\ hashes[p].rev <= clock
  BY DEF RInv, EInv, HashesDrawn, IInv, TypeOK
<1>3. ~New(p)
  BY <1>1, <1>2 DEF New
<1>4. p \in DOMAIN containers /\ containers'[p] = containers[p]
  BY <1>1, <1>3 DEF Edit, Dated, Retained
<1>5. Armed(p)
  BY <1>1, <1>4 DEF Armed
<1>6. Exists(p) /\ Exists(p)'
  BY <1>1, <1>4 DEF Exists
<1>7. Extract(p)' = Extract(p)
  BY <1>3, <1>6, SameRevisionSameText DEF RInv
<1> QED
  BY <1>5, <1>7

\* For any keys, values, paths, texts and limits: a hash that counts stops telling
\* the truth only by a call strictly below its path, or is recorded so by an
\* import with entries inlined at its root.
THEOREM DedupSpoiltOnlyFromBelow == Spec => DedupFailsOnlyFromBelow
<1>1. ASSUME RInv, IInv', Next, NEW p \in DocPaths, Armed(p)', ~Fresh(p)',
             ~IsStrictPrefix(p, call'.path),
             ~(/\ call'.op = "import" /\ call'.path = p
               /\ \E limit \in Limits : InlineEntries(call'.text, Root, limit) # Nothing)
      PROVE  Armed(p) /\ ~Fresh(p) /\ hashes'[p] = hashes[p]
  <2>1. p \in Path /\ IInv /\ p \in DOMAIN hashes'
    BY <1>1, EngineAssumption DEF RInv, EInv, Armed
  <2>2. Extract(p)' # Content(hashes'[p].text)
    BY <1>1 DEF Fresh
  <2>3. ~Writes(p)
    BY <1>1, <2>1, <2>2, WritesAreRead
  <2>4. ~(Imports(p) /\ p = call'.path)
    <3>1. Imports(p) => call'.op = "import"
      BY DEF Imports, ImportCsv, Called
    <3> QED
      BY <1>1, <2>1, <2>2, <3>1, ImportsAreRead
  <2>5. p \in DOMAIN hashes /\ hashes'[p] = hashes[p]
    BY <1>1, <2>1, <2>3, <2>4, NextHashes
  <2>6. CASE UNCHANGED <<containers, primitives, clock>>
    <3>1. Extract(p)' = Extract(p)
      BY <2>6, ExtractIsTextOf
    <3> QED
      BY <1>1, <2>2, <2>5, <2>6, <3>1 DEF Armed, Fresh
  <2>7. CASE Edit(call'.path)
    <3>1. call'.path \in Path
      BY <1>1, <2>1, NextEdits, EngineAssumption
    <3>2. Armed(p) /\ Extract(p)' = Extract(p)
      BY <1>1, <2>1, <2>5, <2>7, <3>1, OtherHashesStay
    <3> QED
      BY <2>2, <2>5, <3>2 DEF Fresh
  <2> QED
    BY <1>1, <2>1, <2>6, <2>7, NextEdits
<1>2. RInv /\ RInv' /\ [Next]_vars =>
         [\A p \in DocPaths :
             (Armed(p)' /\ ~Fresh(p)') =>
                \/ Armed(p) /\ ~Fresh(p) /\ hashes'[p] = hashes[p]
                \/ IsStrictPrefix(p, call'.path)
                \/ /\ call'.op = "import" /\ call'.path = p
                   /\ \E limit \in Limits : InlineEntries(call'.text, Root, limit) # Nothing]_vars
  <2>1. RInv' => IInv'
    BY DEF RInv, EInv
  <2> QED
    BY <1>1, <2>1
<1> QED
  BY <1>2, RInvInit, RInvNext, PTL DEF Spec, DedupFailsOnlyFromBelow

-----------------------------------------------------------------------------
(* Paths below one path *)

\* A front of x below p.
LEMMA FrontBelow ==
    ASSUME NEW p \in Path, NEW y \in Path, y # Root
    PROVE  /\ p \o y \in Path /\ p \o y # Root /\ Front(y) \in Path
           /\ Front(p \o y) = p \o Front(y) /\ Last(p \o y) = Last(y)
           /\ IsPrefix(Front(y), y)
           /\ Front(y) = Root => p \o Front(y) = p
           /\ \A x \in Path : IsPrefix(x, Front(y)) => IsPrefix(x, y)
           /\ \A x \in Path : Len(x) = 1 /\ IsPrefix(x, y) /\ x # y => IsPrefix(x, Front(y)) /\ Front(y) # Root
<1>1. Front(y) \in Path /\ IsPrefix(Front(y), y) /\ Len(Front(y)) = Len(y) - 1
  BY SplitLast
<1>2. p \o y \in Path /\ p \o y # Root /\ Front(p \o y) = p \o Front(y) /\ Last(p \o y) = Last(y)
  BY ConcatChar, FrontOfConcat
<1>3. Front(y) = Root => p \o Front(y) = p
  BY RootIsPath, ConcatChar
<1>4. \A x \in Path : IsPrefix(x, Front(y)) => IsPrefix(x, y)
  BY <1>1, PrefixOrder
<1>5. ASSUME NEW x \in Path, Len(x) = 1, IsPrefix(x, y), x # y
      PROVE  IsPrefix(x, Front(y)) /\ Front(y) # Root
  <2>1. Len(y) \in Nat /\ 1 < Len(y)
    BY <1>5, StrictShorter
  <2>2. Len(x) <= Len(Front(y)) /\ Len(Front(y)) # 0
    BY <1>1, <1>5, <2>1
  <2> QED
    BY <1>1, <1>5, <2>2, PrefixesComparable, RootIsPath
<1> QED
  BY <1>1, <1>2, <1>3, <1>4, <1>5

-----------------------------------------------------------------------------
(* The rows after a leaf update *)

\* The nodes at or below an entry of the update.
Touched(u, y) == \E x \in DOMAIN u \ {Root} : IsPrefix(x, y)

\* The rows, but for what is inlined in that of p.
Bared(p) == [q \in DOMAIN containers |->
                [inline |-> IF q = p THEN Nothing ELSE containers[q].inline,
                 rev    |-> containers[q].rev,
                 nr     |-> containers[q].nr]]

LEMMA LeafRows ==
    ASSUME IInv, NEW p \in Path, NEW u, IsText(u), UpdateLeaf(p, u),
           NEW b, b = Bared(p)
    PROVE  /\ p \in DOMAIN containers'
           /\ p \in DOMAIN primitives' <=> p \in DOMAIN primitives
           /\ \A y \in Path : y # Root /\ ~Touched(u, y) =>
                 SameAt(b, primitives, containers', primitives', p \o y)
           /\ \A x \in DOMAIN u \ {Root} :
                 /\ p \o x \notin DOMAIN containers' /\ ~Inlined(containers', p \o x)
                 /\ p \o x \in DOMAIN primitives' <=> u[x] # Null
                 /\ u[x] # Null => primitives'[p \o x].val = u[x]
<1> DEFINE rev == clock + 1
           e   == EnsureIntermediate(containers, p, rev)
<1>1. /\ \A q \in DOMAIN containers : q \in DOMAIN e /\ e[q] = containers[q]
      /\ \A q \in DOMAIN e : q \in DOMAIN containers \/ IsPrefix(q, p)
  BY EnsuredRows
<1> DEFINE nr        == RevisionNr(e, p) + 1
           root      == RootRow(p, rev, nr)
           rooted    == Override(root, e)
           E         == Erased(rooted, p, u)
           Spared(q) == \A x \in E : ~IsPrefix(p \o x, q)
           W         == {x \in DOMAIN u \ {Root} : u[x] # Null}
           written   == [q \in {p \o x : x \in W} |-> [val |-> u[Rel(p, q)], rev |-> rev, nr |-> nr]]
           ckept     == {q \in DOMAIN rooted : Spared(q)}
           pkept     == {q \in DOMAIN primitives : Spared(q)}
           left      == Restrict(primitives, pkept)
<1>2. /\ IsLeafObject(u)
      /\ containers' = Restrict(rooted, ckept)
      /\ primitives' = Override(written, left)
  BY DEF UpdateLeaf
<1>3. DOMAIN root = {p} /\ root[p].inline = Nothing
  BY DEF RootRow
<1>4. /\ DOMAIN written = {p \o x : x \in W}
      /\ \A q \in {p \o x : x \in W} : written[q].val = u[Rel(p, q)]
  OBVIOUS
<1>5. /\ W = {x \in DOMAIN u \ {Root} : u[x] # Null}
      /\ E = {x \in DOMAIN u \ {Root} : u[x] = Null \/ p \o x \in DOMAIN rooted}
  BY DEF Erased
<1>6. DOMAIN left = pkept /\ \A q \in pkept : left[q] = primitives[q]
  BY DEF Restrict
<1> HIDE DEF e, nr, root, E, W, written, left
<1>7. /\ DOMAIN rooted = {p} \cup DOMAIN e
      /\ rooted[p].inline = Nothing
      /\ \A q \in DOMAIN e : q # p => rooted[q] = e[q]
  <2>1. /\ DOMAIN rooted = DOMAIN root \cup DOMAIN e
        /\ \A q \in DOMAIN root : rooted[q] = root[q]
        /\ \A q \in DOMAIN e : q \notin DOMAIN root => rooted[q] = e[q]
    BY OverrideChar
  <2> HIDE DEF rooted
  <2> QED
    BY <2>1, <1>3
<1> HIDE DEF rooted
<1>8. DOMAIN containers' = ckept /\ \A q \in ckept : containers'[q] = rooted[q]
  BY <1>2 DEF Restrict
<1>9. /\ DOMAIN primitives' = DOMAIN written \cup pkept
      /\ \A q \in DOMAIN written : primitives'[q] = written[q]
      /\ \A q \in pkept : q \notin DOMAIN written => primitives'[q] = primitives[q]
  <2>1. /\ DOMAIN Override(written, left) = DOMAIN written \cup DOMAIN left
        /\ \A q \in DOMAIN written : Override(written, left)[q] = written[q]
        /\ \A q \in DOMAIN left : q \notin DOMAIN written => Override(written, left)[q] = left[q]
    BY OverrideChar
  <2> QED
    BY <2>1, <1>2, <1>6
<1>10. /\ DOMAIN Nothing = {}
       /\ W \subseteq DOMAIN u \ {Root} /\ E \subseteq DOMAIN u \ {Root}
  BY <1>5 DEF Nothing
<1>11. ASSUME NEW x \in DOMAIN u \ {Root}
       PROVE  /\ x \in Path /\ x # Root /\ Len(x) = 1 /\ Front(x) = Root
              /\ p \o x \in Path /\ ~IsPrefix(p \o x, p)
  <2>1. x \in Path /\ Len(x) = 1 /\ x # Root
    BY <1>2, LeavesAreChildren
  <2>2. Front(x) = Root
    <3>1. Front(x) \in Path /\ Len(Front(x)) = 0
      BY <2>1, SplitLast
    <3> QED
      BY <3>1, EmptySeq DEF Path, Root
  <2>3. p \o x \in Path /\ IsPrefix(p, p \o x) /\ p \o x # p
    BY <2>1, ConcatChar
  <2> QED
    BY <2>1, <2>2, <2>3, PrefixOrder
<1>12. p \in DOMAIN containers' /\ containers'[p].inline = Nothing
  <2>1. Spared(p)
    BY <1>10, <1>11
  <2> QED
    BY <2>1, <1>7, <1>8
<1>13. ASSUME NEW y \in Path, y # Root, ~Touched(u, y)
       PROVE  /\ Spared(p \o y) /\ p \o y \notin DOMAIN written
              /\ p \o y \in DOMAIN containers <=> p \o y \in DOMAIN containers'
              /\ p \o y \in DOMAIN containers => containers'[p \o y] = containers[p \o y]
  <2>1. \A x \in DOMAIN u \ {Root} : ~IsPrefix(x, y) /\ x # y
    <3>1. IsPrefix(y, y)
      BY PrefixOrder
    <3> QED
      BY <3>1, <1>13 DEF Touched
  <2>2. \A x \in DOMAIN u \ {Root} : ~IsPrefix(p \o x, p \o y) /\ p \o x # p \o y
    BY <2>1, <1>11, ConcatPrefix
  <2>3. Spared(p \o y) /\ p \o y \notin DOMAIN written
    BY <2>2, <1>4, <1>10
  <2>4. p \o y # p /\ ~IsPrefix(p \o y, p)
    BY <1>13, ConcatChar, PrefixOrder
  <2>5. p \o y \in DOMAIN rooted <=> p \o y \in DOMAIN containers
    BY <2>4, <1>1, <1>7
  <2>6. p \o y \in DOMAIN containers => rooted[p \o y] = containers[p \o y]
    BY <2>4, <1>1, <1>7
  <2> QED
    BY <2>3, <2>5, <2>6, <1>8
<1>14. /\ DOMAIN b = DOMAIN containers
       /\ p \in DOMAIN b => b[p].inline = Nothing
       /\ \A q \in DOMAIN b : q # p => b[q].inline = containers[q].inline
  BY DEF Bared
<1>15. ASSUME NEW y \in Path, y # Root, ~Touched(u, y)
       PROVE  SameAt(b, primitives, containers', primitives', p \o y)
  <2>1. /\ p \o y # Root /\ Front(y) \in Path
        /\ Front(p \o y) = p \o Front(y) /\ Last(p \o y) = Last(y)
        /\ Front(y) = Root => p \o Front(y) = p
        /\ \A x \in Path : IsPrefix(x, Front(y)) => IsPrefix(x, y)
    BY <1>15, FrontBelow
  <2>2. /\ p \o y \in DOMAIN primitives <=> p \o y \in DOMAIN primitives'
        /\ p \o y \in DOMAIN primitives => primitives'[p \o y] = primitives[p \o y]
    BY <1>9, <1>13, <1>15
  <2>3. CASE Front(y) = Root
    <3>1. ~Inlined(b, p \o y) /\ ~Inlined(containers', p \o y)
      BY <2>1, <2>3, <1>10, <1>12, <1>14 DEF Inlined
    <3> QED
      BY <3>1, <2>2, <1>13, <1>15, <1>14 DEF SameAt
  <2>4. CASE Front(y) # Root
    <3>1. ~Touched(u, Front(y))
      BY <2>1, <1>11, <1>15 DEF Touched
    <3>2. /\ p \o Front(y) \in DOMAIN containers <=> p \o Front(y) \in DOMAIN containers'
          /\ p \o Front(y) \in DOMAIN containers => containers'[p \o Front(y)] = containers[p \o Front(y)]
      BY <2>1, <2>4, <3>1, <1>13
    <3>3. p \o Front(y) # p
      BY <2>1, <2>4, ConcatChar
    <3> QED
      BY <3>2, <3>3, <2>1, <2>2, <1>13, <1>15, <1>14 DEF SameAt, Inlined
  <2> QED
    BY <2>3, <2>4
<1>16. ASSUME NEW x \in DOMAIN u \ {Root}
       PROVE  /\ p \o x \notin DOMAIN containers' /\ ~Inlined(containers', p \o x)
              /\ p \o x \in DOMAIN primitives' <=> u[x] # Null
              /\ u[x] # Null => primitives'[p \o x].val = u[x]
  <2>1. x \in Path /\ x # Root /\ Front(x) = Root /\ p \o x \in Path
    BY <1>11
  <2>2. IsPrefix(p \o x, p \o x) /\ Rel(p, p \o x) = x
    BY <2>1, PrefixOrder, ConcatChar
  <2>3. p \o x \notin DOMAIN containers'
    BY <2>2, <1>5, <1>8
  <2>4. ~Inlined(containers', p \o x)
    <3>1. Front(p \o x) = p
      BY <2>1, FrontBelow
    <3> QED
      BY <3>1, <1>10, <1>12 DEF Inlined
  <2>5. CASE u[x] # Null
    <3>1. x \in W
      BY <2>5, <1>5
    <3> QED
      BY <3>1, <2>2, <2>3, <2>4, <2>5, <1>4, <1>9
  <2>6. CASE u[x] = Null
    <3>1. x \in E
      BY <2>6, <1>5
    <3>2. p \o x \notin pkept
      BY <3>1, <2>2
    <3>3. p \o x \notin DOMAIN written
      <4>1. \A w \in W : p \o w # p \o x
        <5> TAKE w \in W
        <5>1. w # x /\ w \in Path
          BY <2>6, <1>5, <1>11
        <5> QED
          BY <2>1, <5>1, ConcatPrefix
      <4> QED
        BY <4>1, <1>4
    <3> QED
      BY <3>2, <3>3, <2>3, <2>4, <2>6, <1>9
  <2> QED
    BY <2>5, <2>6
<1>17. p \in DOMAIN primitives' <=> p \in DOMAIN primitives
  <2>1. Spared(p) /\ p \notin DOMAIN written
    <3>1. \A x \in DOMAIN u \ {Root} : p \o x # p
      BY <1>11, PrefixOrder
    <3> QED
      BY <3>1, <1>4, <1>10, <1>11
  <2> QED
    BY <2>1, <1>9
<1> QED
  BY <1>12, <1>15, <1>16, <1>17

-----------------------------------------------------------------------------
(* The merge of an update of leaves *)

LEMMA MergeOfLeaves ==
    ASSUME NEW c, c = Nothing \/ (IsText(c) /\ c[Root] = Obj),
           NEW u, IsText(u), u[Root] = Obj, IsLeafObject(u), NEW m, m = Merge(c, u)
    PROVE  /\ DOMAIN m \subseteq Path
           /\ Root \in DOMAIN m /\ m[Root] = Obj
           /\ \A y \in Path : y # Root /\ ~Touched(u, y) =>
                 /\ y \in DOMAIN m <=> y \in DOMAIN c
                 /\ y \in DOMAIN c => m[y] = c[y]
           /\ \A y \in DOMAIN u \ {Root} : /\ u[y] # Null => y \in DOMAIN m /\ m[y] = u[y]
                                           /\ u[y] = Null /\ y \in DOMAIN m => m[y] = Null
           /\ \A y \in Path : y \notin DOMAIN u /\ Touched(u, y) => y \notin DOMAIN m
<1> DEFINE C == {x \in DOMAIN u : Copied(c, u, x)}
           S == {x \in DOMAIN c : Survives(c, u, x)}
<1>1. /\ DOMAIN m = C \cup S
      /\ \A x \in C : m[x] = u[x]
      /\ \A x \in S : x \notin C => m[x] = c[x]
  BY DEF Merge, Override, Restrict
<1>2. DOMAIN u \subseteq Path /\ DOMAIN c \subseteq Path /\ Root \in DOMAIN u
  BY DEF IsText, Nothing
<1>3. \A y \in DOMAIN c : c[Root] = Obj
  BY DEF Nothing
<1>4. \A x \in DOMAIN u : u[x] # Null => x \in C
  BY DEF Copied
<1>5. \A x \in S : x \in DOMAIN c /\ \A z \in Prefixes(x) : z \in DOMAIN u => u[z] = Obj /\ c[z] = Obj
  BY DEF Survives
<1>6. \A x \in DOMAIN u \ {Root} : u[x] # Obj /\ x \in Path
  BY <1>2 DEF IsLeafObject
<1>7. \A x, y \in Path : x \in Prefixes(y) <=> IsPrefix(x, y)
  <2> TAKE x, y \in Path
  <2>1. x \in Ancestors(y) <=> IsPrefix(x, y) /\ x # y
    BY AncestorChar
  <2>2. IsPrefix(y, y) /\ y \in Prefixes(y)
    <3>1. IsPrefix(y, y)
      BY PrefixOrder
    <3>2. y \in Prefixes(y)
      BY DEF Prefixes, Path
    <3> QED
      BY <3>1, <3>2
  <2>3. x \in Ancestors(y) <=> x \in Prefixes(y) /\ x # y
    BY DEF Ancestors
  <2> QED
    BY <2>1, <2>2, <2>3
<1>8. \A y \in Path : Prefixes(y) \subseteq Path
  BY DEF Prefixes, Path
<1> HIDE DEF C, S
<1>9. Root \in DOMAIN m /\ m[Root] = Obj
  BY <1>1, <1>2, <1>4, ItemAssumption
<1>10. ASSUME NEW y \in Path, y # Root, ~Touched(u, y)
       PROVE  /\ y \in DOMAIN m <=> y \in DOMAIN c
              /\ y \in DOMAIN c => m[y] = c[y]
  <2>1. y \notin DOMAIN u
    BY <1>10, PrefixOrder DEF Touched
  <2>2. y \notin C
    BY <2>1 DEF C
  <2>3. \A z \in Prefixes(y) : z \in DOMAIN u => z = Root
    BY <1>2, <1>7, <1>10 DEF Touched
  <2>4. y \in DOMAIN c => y \in S
    BY <1>3, <2>3 DEF S, Survives
  <2> QED
    BY <1>1, <1>5, <2>2, <2>4
<1>11. ASSUME NEW y \in DOMAIN u \ {Root}
       PROVE  /\ u[y] # Null => y \in DOMAIN m /\ m[y] = u[y]
              /\ u[y] = Null /\ y \in DOMAIN m => m[y] = Null
  <2>1. y \notin S
    <3>1. y \in Prefixes(y)
      BY <1>6, <1>7, PrefixOrder
    <3> QED
      BY <3>1, <1>5, <1>6
  <2> QED
    BY <2>1, <1>1, <1>4
<1>12. ASSUME NEW y \in Path, y \notin DOMAIN u, Touched(u, y) PROVE y \notin DOMAIN m
  <2>1. PICK x \in DOMAIN u \ {Root} : IsPrefix(x, y)
    BY <1>12 DEF Touched
  <2>2. y \notin S
    BY <2>1, <1>5, <1>6, <1>7
  <2>3. y \notin C
    BY <1>12 DEF C
  <2> QED
    BY <2>2, <2>3, <1>1
<1>13. DOMAIN m \subseteq Path
  BY <1>1, <1>2 DEF C, S
<1> QED
  BY <1>9, <1>10, <1>11, <1>12, <1>13

-----------------------------------------------------------------------------
(* The document after a leaf update *)

\* No null is inlined: no writer stores one.
WithoutNulls(c) == \A q \in DOMAIN c : \A k \in DOMAIN c[q].inline : c[q].inline[k] # Null

NoNulls == WithoutNulls(containers)

\* A document without a container at its root is empty.
LEMMA RootedText ==
    ASSUME IInv, NEW p \in Path
    PROVE  Extract(p) = Nothing \/ (Exists(p) /\ IsText(Extract(p)) /\ Extract(p)[Root] = Obj)
<1>1. CASE Exists(p)
  BY <1>1, ExtractIsText
<1>2. CASE ~Exists(p)
  <2>1. ContainersOK(containers) /\ PrimitivesOK(primitives)
    BY DEF IInv, TypeOK, ContainersOK, PrimitivesOK
  <2>2. ASSUME NEW q \in DOMAIN containers \cup DOMAIN primitives, IsPrefix(p, q) PROVE q = p
    <3>1. q \in Path
      BY <2>1 DEF ContainersOK, PrimitivesOK
    <3>2. q # p => p \in Ancestors(q)
      BY <2>2, <3>1, AncestorChar
    <3> QED
      BY <3>2, <1>2 DEF Exists, IInv, AncestorClosed
  <2>3. ASSUME NEW y \in Path, y \in NodesOf(containers, primitives, p) PROVE FALSE
    <3>1. IsPrefix(p, p \o y) /\ (p \o y = p <=> y = Root)
      BY ConcatChar
    <3>2. p \o y \notin DOMAIN containers
      BY <3>1, <2>2, <1>2 DEF Exists
    <3>3. y # Root => p \o y \notin DOMAIN primitives
      BY <3>1, <2>2
    <3>4. y # Root => ~Inlined(containers, p \o y)
      <4> SUFFICES ASSUME y # Root PROVE ~Inlined(containers, p \o y)
        OBVIOUS
      <4>1. Front(y) \in Path /\ Front(p \o y) = p \o Front(y)
        BY FrontBelow
      <4>2. IsPrefix(p, p \o Front(y))
        BY <4>1, ConcatChar
      <4> QED
        BY <4>1, <4>2, <2>2, <1>2 DEF Inlined, Exists
    <3> QED
      BY <3>2, <3>3, <3>4, <2>1, <2>3, NodesChar
  <2>4. NodesOf(containers, primitives, p) = {}
    BY <2>1, <2>3, NodesChar
  <2>5. TextOf(containers, primitives, p) = Nothing
    BY <2>4 DEF TextOf, Nothing
  <2> QED
    BY <2>5, ExtractIsTextOf
<1> QED
  BY <1>1, <1>2

LEMMA NoNullIsRead ==
    ASSUME IInv, NoNulls, NEW p \in Path, NEW y \in DOMAIN Extract(p)
    PROVE  y \in Path /\ Extract(p)[y] # Null
<1>1. ContainersOK(containers) /\ PrimitivesOK(primitives)
  BY DEF IInv, TypeOK, ContainersOK, PrimitivesOK
<1>2. y \in NodesOf(containers, primitives, p)
  BY ExtractIsTextOf DEF TextOf
<1>3. y \in Path /\ \/ p \o y \in DOMAIN containers
                    \/ y # Root /\ p \o y \in DOMAIN primitives
                    \/ y # Root /\ Inlined(containers, p \o y)
  BY <1>1, <1>2, NodesChar
<1>4. Extract(p)[y] = IF p \o y \in DOMAIN containers THEN Obj
                      ELSE IF p \o y \in DOMAIN primitives THEN primitives[p \o y].val
                      ELSE containers[p \o Front(y)].inline[Last(y)]
  BY <1>2, ExtractIsTextOf DEF TextOf
<1>5. CASE p \o y \in DOMAIN containers
  BY <1>3, <1>4, <1>5, ItemAssumption
<1>6. CASE p \o y \notin DOMAIN containers /\ p \o y \in DOMAIN primitives
  BY <1>1, <1>3, <1>4, <1>6, ItemAssumption DEF PrimitivesOK, PrimitiveRow
<1>7. CASE p \o y \notin DOMAIN containers /\ p \o y \notin DOMAIN primitives
  <2>1. y # Root /\ Inlined(containers, p \o y)
    BY <1>3, <1>7
  <2>2. Front(p \o y) = p \o Front(y) /\ Last(p \o y) = Last(y)
    BY <1>3, <2>1, FrontOfConcat
  <2>3. p \o Front(y) \in DOMAIN containers /\ Last(y) \in DOMAIN containers[p \o Front(y)].inline
    BY <2>1, <2>2 DEF Inlined
  <2>4. Last(y) \in Keys
    BY <1>1, <2>3, InlineTypes
  <2> QED
    BY <1>3, <1>4, <1>7, <2>3, <2>4 DEF NoNulls, WithoutNulls
<1> QED
  BY <1>5, <1>6, <1>7

LEMMA NoNullsOperators ==
    /\ \A n, o : WithoutNulls(n) /\ WithoutNulls(o) => WithoutNulls(Override(n, o))
    /\ \A c, S : WithoutNulls(c) /\ S \subseteq DOMAIN c => WithoutNulls(Restrict(c, S))
    /\ \A c, p, rev : WithoutNulls(c) => WithoutNulls(EnsureIntermediate(c, p, rev))
    /\ \A p, t, limit, rev, nr : WithoutNulls(ContainerRows(p, t, limit, rev, nr))
    /\ \A p, rev, nr : WithoutNulls(RootRow(p, rev, nr))
<1>1. ASSUME NEW n, NEW o, WithoutNulls(n), WithoutNulls(o) PROVE WithoutNulls(Override(n, o))
  <2> DEFINE m == Override(n, o)
  <2>1. /\ DOMAIN m = DOMAIN n \cup DOMAIN o
        /\ \A q \in DOMAIN n : m[q] = n[q]
        /\ \A q \in DOMAIN o : q \notin DOMAIN n => m[q] = o[q]
    BY OverrideChar
  <2> HIDE DEF m
  <2>2. WithoutNulls(m)
    BY <1>1, <2>1 DEF WithoutNulls
  <2> QED
    BY <2>2 DEF m
<1>2. \A c, S : WithoutNulls(c) /\ S \subseteq DOMAIN c => WithoutNulls(Restrict(c, S))
  BY DEF WithoutNulls, Restrict
<1>3. DOMAIN Nothing = {}
  BY DEF Nothing
<1>4. ASSUME NEW Q, NEW rev, NEW nr
      PROVE  WithoutNulls([q \in Q |-> [inline |-> Nothing, rev |-> rev, nr |-> nr]])
  BY <1>3 DEF WithoutNulls
<1>5. ASSUME NEW c, NEW p, NEW rev, WithoutNulls(c) PROVE WithoutNulls(EnsureIntermediate(c, p, rev))
  <2>1. ASSUME NEW Q PROVE WithoutNulls(Override(c, [q \in Q |-> [inline |-> Nothing, rev |-> rev, nr |-> 1]]))
    <3> DEFINE n == [q \in Q |-> [inline |-> Nothing, rev |-> rev, nr |-> 1]]
    <3>1. WithoutNulls(n)
      BY <1>4
    <3> HIDE DEF n
    <3>2. WithoutNulls(Override(c, n))
      BY <1>1, <1>5, <3>1
    <3> QED
      BY <3>2 DEF n
  <2> QED
    BY <2>1 DEF EnsureIntermediate
<1>6. ASSUME NEW p, NEW t, NEW limit, NEW rev, NEW nr
      PROVE  WithoutNulls(ContainerRows(p, t, limit, rev, nr))
  <2> DEFINE w == ContainerRows(p, t, limit, rev, nr)
  <2>1. \A q \in DOMAIN w : w[q].inline = InlineEntries(t, Rel(p, q), limit)
    BY DEF ContainerRows
  <2>2. ASSUME NEW x PROVE \A k \in DOMAIN InlineEntries(t, x, limit) : InlineEntries(t, x, limit)[k] # Null
    BY DEF InlineEntries, InlinePaths, Stored
  <2> HIDE DEF w
  <2>3. WithoutNulls(w)
    BY <2>1, <2>2 DEF WithoutNulls
  <2> QED
    BY <2>3 DEF w
<1>7. \A p, rev, nr : WithoutNulls(RootRow(p, rev, nr))
  BY <1>4 DEF RootRow
<1> QED
  BY <1>1, <1>2, <1>5, <1>6, <1>7

NInv == IInv /\ NoNulls

LEMMA NInvInit == Init => NInv
BY IInvInit DEF Init, NInv, NoNulls, WithoutNulls, Nothing

LEMMA NInvNext == NInv /\ [Next]_vars => NInv'
<1> SUFFICES ASSUME NInv, [Next]_vars PROVE NInv'
  OBVIOUS
<1>1. IInv'
  BY IInvNext DEF NInv
<1>2. WithoutNulls(containers)
  BY DEF NInv, NoNulls
<1>3. ASSUME NEW p PROVE Outside(p) \subseteq DOMAIN containers /\ WithoutNulls(Restrict(containers, Outside(p)))
  BY <1>2, NoNullsOperators DEF Outside
<1>4. ASSUME NEW p, NEW t, NEW limit, WriteText(p, t, limit) PROVE NoNulls'
  <2>1. \A rev, nr : WithoutNulls(Override(ContainerRows(p, t, limit, rev, nr),
                        EnsureIntermediate(Restrict(containers, Outside(p)), p, clock + 1)))
    BY <1>3, NoNullsOperators
  <2>2. \E rev, nr : containers' = Override(ContainerRows(p, t, limit, rev, nr),
                        EnsureIntermediate(Restrict(containers, Outside(p)), p, clock + 1))
    BY <1>4 DEF WriteText
  <2> QED
    BY <2>1, <2>2 DEF NoNulls
<1>5. ASSUME NEW p, NEW t, NEW limit, ImportCsv(p, t, limit) PROVE NoNulls'
  <2>1. \A rev, nr : WithoutNulls(Override(RootRow(p, rev, nr), Override(ContainerRows(p, t, limit, rev, nr),
                        EnsureIntermediate(Restrict(containers, Outside(p)), p, clock + 1))))
    BY <1>3, NoNullsOperators
  <2>2. \E rev, nr : containers' = Override(RootRow(p, rev, nr), Override(ContainerRows(p, t, limit, rev, nr),
                        EnsureIntermediate(Restrict(containers, Outside(p)), p, clock + 1)))
    BY <1>5 DEF ImportCsv
  <2> QED
    BY <2>1, <2>2 DEF NoNulls
<1>6. ASSUME NEW p, RemoveJson(p) PROVE NoNulls'
  BY <1>3, <1>6 DEF RemoveJson, NoNulls
<1>7. ASSUME NEW p, NEW u, UpdateLeaf(p, u) PROVE NoNulls'
  <2>1. \A rev, nr, S :
           S \subseteq DOMAIN Override(RootRow(p, rev, nr), EnsureIntermediate(containers, p, clock + 1))
             => WithoutNulls(Restrict(Override(RootRow(p, rev, nr),
                                               EnsureIntermediate(containers, p, clock + 1)), S))
    BY <1>2, NoNullsOperators
  <2>2. \E rev, nr, S :
           /\ S \subseteq DOMAIN Override(RootRow(p, rev, nr), EnsureIntermediate(containers, p, clock + 1))
           /\ containers' = Restrict(Override(RootRow(p, rev, nr),
                                              EnsureIntermediate(containers, p, clock + 1)), S)
    <3> DEFINE nr     == RevisionNr(EnsureIntermediate(containers, p, clock + 1), p) + 1
               rooted == Override(RootRow(p, clock + 1, nr), EnsureIntermediate(containers, p, clock + 1))
               S      == {q \in DOMAIN rooted : \A x \in Erased(rooted, p, u) : ~IsPrefix(p \o x, q)}
    <3>1. containers' = Restrict(rooted, S)
      BY <1>7 DEF UpdateLeaf
    <3>2. S \subseteq DOMAIN rooted
      OBVIOUS
    <3> HIDE DEF S, nr
    <3> QED
      BY <3>1, <3>2
  <2> QED
    BY <2>1, <2>2 DEF NoNulls
<1>8. ASSUME UNCHANGED vars PROVE NoNulls'
  BY <1>2, <1>8 DEF NoNulls, vars
<1>9. ASSUME NEW p, NEW t, NEW limit, SetJson(p, t, limit) PROVE NoNulls'
  <2>1. CASE containers' = containers
    BY <1>2, <2>1 DEF NoNulls
  <2>2. CASE WriteText(p, t, limit)
    BY <1>4, <2>2
  <2> QED
    BY <1>9, <2>1, <2>2 DEF SetJson
<1>10. ASSUME NEW p, NEW u, UpdateFull(p, u) \/ UpdateWildcard(p, u) PROVE NoNulls'
  <2>1. \E t : WriteText(p, t, DefaultLimit)
    BY <1>10 DEF UpdateFull, UpdateWildcard
  <2> QED
    BY <1>4, <2>1
<1>11. ASSUME Next PROVE NoNulls'
  BY <1>5, <1>6, <1>7, <1>9, <1>10, <1>11 DEF Next
<1> QED
  BY <1>1, <1>8, <1>11 DEF NInv

\* Above a node there are containers.
LEMMA AboveIsContainer ==
    ASSUME NEW c, NEW r, ContainersOK(c), PrimitivesOK(r),
           ParentsIn(DOMAIN c, c), ParentsIn(DOMAIN r, c),
           NEW z \in Path, NEW q \in Path, IsStrictPrefix(q, z),
           z \in DOMAIN c \/ z \in DOMAIN r \/ Inlined(c, z)
    PROVE  q \in DOMAIN c
<1>1. \A x \in Path : x \in DOMAIN c \cup DOMAIN r /\ IsPrefix(q, x) => q \in DOMAIN c \/ q = x
  BY AncestorChar DEF ParentsIn
<1>2. CASE z \in DOMAIN c \/ z \in DOMAIN r
  BY <1>1, <1>2 DEF IsStrictPrefix
<1>3. CASE Inlined(c, z)
  <2>1. z # Root /\ Front(z) \in DOMAIN c
    BY <1>3 DEF Inlined
  <2>2. Front(z) \in Path /\ IsPrefix(Front(z), z) /\ Len(Front(z)) = Len(z) - 1
    BY <2>1, SplitLast
  <2>3. IsPrefix(q, z) /\ Len(q) \in Nat /\ Len(z) \in Nat /\ Len(q) < Len(z)
    BY StrictShorter DEF IsStrictPrefix, Path
  <2>4. IsPrefix(q, Front(z))
    <3>1. Len(q) <= Len(Front(z))
      BY <2>2, <2>3
    <3> QED
      BY <3>1, <2>2, <2>3, PrefixesComparable
  <2> QED
    BY <1>1, <2>1, <2>2, <2>4
<1> QED
  BY <1>2, <1>3

\* A text without some of its childless nodes is a text.
LEMMA LessIsText ==
    ASSUME NEW t, IsText(t), NEW lost, Root \notin lost,
           \A x \in lost, y \in DOMAIN t : ~IsStrictPrefix(x, y),
           NEW c, c = Restrict(t, DOMAIN t \ lost)
    PROVE  IsText(c) /\ c[Root] = t[Root]
<1>1. DOMAIN c = DOMAIN t \ lost /\ \A x \in DOMAIN c : c[x] = t[x]
  BY DEF Restrict
<1>2. ASSUME NEW x \in DOMAIN c, NEW y \in Ancestors(x) PROVE y \in DOMAIN c /\ c[y] = Obj
  <2>1. x \in Path /\ y \in DOMAIN t /\ t[y] = Obj
    BY <1>1, <1>2 DEF IsText
  <2>2. IsStrictPrefix(y, x)
    BY <2>1, <1>2, AncestorChar DEF IsStrictPrefix
  <2> QED
    BY <1>1, <2>1, <2>2
<1> QED
  BY <1>1, <1>2 DEF IsText

\* The entries inlined in the row of p, but for those under rows of their own.
Lost(p) == {x \in DOMAIN Extract(p) : /\ Len(x) = 1
                                      /\ p \o x \notin DOMAIN containers \cup DOMAIN primitives}

\* Bared, a document loses these entries.
LEMMA BaredText ==
    ASSUME IInv, NEW p \in Path, NEW b, b = Bared(p), NEW c, c = TextOf(b, primitives, p),
           NEW t, t = Extract(p)
    PROVE  /\ ContainersOK(b)
           /\ c = Restrict(t, DOMAIN t \ Lost(p))
           /\ c = Nothing \/ (IsText(c) /\ c[Root] = Obj)
           /\ \A x \in Lost(p), y \in DOMAIN t : ~IsStrictPrefix(x, y)
           /\ (Exists(p) => containers[p].inline = Nothing) => c = t
<1>1. ContainersOK(containers) /\ PrimitivesOK(primitives)
  BY DEF IInv, TypeOK, ContainersOK, PrimitivesOK
<1>2. /\ DOMAIN b = DOMAIN containers
      /\ \A q \in DOMAIN b :
            b[q] = [inline |-> IF q = p THEN Nothing ELSE containers[q].inline,
                    rev    |-> containers[q].rev,
                    nr     |-> containers[q].nr]
      /\ \A q \in DOMAIN b : b[q].inline = IF q = p THEN Nothing ELSE containers[q].inline
  BY DEF Bared
<1>3. ContainersOK(b)
  <2>1. Nothing \in UNION {[K -> Item] : K \in SUBSET Keys}
    <3>1. Nothing \in [{} -> Item]
      BY DEF Nothing
    <3> QED
      BY <3>1
  <2>2. ASSUME NEW q \in DOMAIN b PROVE q \in Path /\ b[q] \in ContainerRow
    <3>1. /\ q \in Path /\ containers[q].rev \in Nat /\ containers[q].nr \in Nat
          /\ containers[q].inline \in UNION {[K -> Item] : K \in SUBSET Keys}
      BY <1>1, <1>2 DEF ContainersOK, ContainerRow
    <3> DEFINE i == IF q = p THEN Nothing ELSE containers[q].inline
    <3>2. i \in UNION {[K -> Item] : K \in SUBSET Keys}
      BY <2>1, <3>1
    <3>3. b[q] = [inline |-> i, rev |-> containers[q].rev, nr |-> containers[q].nr]
      BY <1>2
    <3> HIDE DEF i
    <3> QED
      BY <3>1, <3>2, <3>3 DEF ContainerRow
  <2> QED
    BY <2>2 DEF ContainersOK
<1>4. t = TextOf(containers, primitives, p)
  BY ExtractIsTextOf
<1>5. ASSUME NEW x \in Lost(p), NEW y \in DOMAIN t PROVE ~IsStrictPrefix(x, y)
  <2> SUFFICES ASSUME IsStrictPrefix(x, y) PROVE FALSE
    OBVIOUS
  <2>1. x \in NodesOf(containers, primitives, p) /\ y \in NodesOf(containers, primitives, p)
    BY <1>4 DEF Lost, TextOf
  <2>2. /\ x \in Path /\ y \in Path
        /\ \/ p \o y \in DOMAIN containers
           \/ y # Root /\ p \o y \in DOMAIN primitives
           \/ y # Root /\ Inlined(containers, p \o y)
    BY <1>1, <2>1, NodesChar
  <2>3. p \o x \in Path /\ p \o y \in Path /\ IsStrictPrefix(p \o x, p \o y)
    <3>1. IsPrefix(x, y) /\ x # y
      BY DEF IsStrictPrefix
    <3>2. p \o x \in Path /\ p \o y \in Path
      BY <2>2, ConcatChar
    <3>3. IsPrefix(p \o x, p \o y) /\ p \o x # p \o y
      BY <2>2, <3>1, ConcatPrefix
    <3> QED
      BY <3>2, <3>3 DEF IsStrictPrefix
  <2>4. p \o x \in DOMAIN containers
    <3>1. ParentsIn(DOMAIN containers, containers) /\ ParentsIn(DOMAIN primitives, containers)
      BY IInvChar
    <3> QED
      BY <1>1, <2>2, <2>3, <3>1, AboveIsContainer
  <2> QED
    BY <2>4 DEF Lost
<1>6. ASSUME NEW y \in Path
      PROVE  /\ y \in DOMAIN c <=> y \in DOMAIN t /\ y \notin Lost(p)
             /\ y \in DOMAIN c => c[y] = t[y]
  <2>1. /\ DOMAIN c = NodesOf(b, primitives, p)
        /\ DOMAIN t = NodesOf(containers, primitives, p)
    BY <1>4 DEF TextOf
  <2>2. /\ y \in DOMAIN c <=> \/ p \o y \in DOMAIN b
                              \/ y # Root /\ p \o y \in DOMAIN primitives
                              \/ y # Root /\ Inlined(b, p \o y)
        /\ y \in DOMAIN t <=> \/ p \o y \in DOMAIN containers
                              \/ y # Root /\ p \o y \in DOMAIN primitives
                              \/ y # Root /\ Inlined(containers, p \o y)
    BY <2>1, <1>1, <1>3, NodesChar
  <2>3. /\ y \in DOMAIN c => c[y] = IF p \o y \in DOMAIN b THEN Obj
                                    ELSE IF p \o y \in DOMAIN primitives THEN primitives[p \o y].val
                                    ELSE b[p \o Front(y)].inline[Last(y)]
        /\ y \in DOMAIN t => t[y] = IF p \o y \in DOMAIN containers THEN Obj
                                    ELSE IF p \o y \in DOMAIN primitives THEN primitives[p \o y].val
                                    ELSE containers[p \o Front(y)].inline[Last(y)]
    BY <2>1, <1>4 DEF TextOf
  <2>4. Len(Root) = 0 /\ Len(y) \in Nat
    BY RootIsPath DEF Path
  <2>5. CASE y = Root
    BY <2>2, <2>3, <2>4, <2>5, <1>2, ConcatChar DEF Lost
  <2>6. CASE y # Root
    <3>1. /\ Front(y) \in Path /\ Front(p \o y) = p \o Front(y) /\ Last(p \o y) = Last(y)
          /\ Len(Front(y)) = Len(y) - 1 /\ p \o y # Root
      BY <2>6, SplitLast, FrontOfConcat
    <3>2. p \o Front(y) = p <=> Len(y) = 1
      <4>1. p \o Front(y) = p <=> Front(y) = Root
        BY <3>1, ConcatChar
      <4>2. Front(y) = Root <=> Len(Front(y)) = 0
        BY <3>1, <2>4, EmptySeq DEF Path, Root
      <4> QED
        BY <4>1, <4>2, <3>1, <2>4
    <3>3. DOMAIN Nothing = {}
      BY DEF Nothing
    <3>4. /\ Inlined(b, p \o y) <=> Inlined(containers, p \o y) /\ Len(y) # 1
          /\ Inlined(b, p \o y) => b[p \o Front(y)].inline = containers[p \o Front(y)].inline
      <4>1. CASE p \o Front(y) = p
        <5>1. p \in DOMAIN b => b[p].inline = Nothing
          BY <1>2
        <5> QED
          BY <4>1, <5>1, <3>1, <3>2, <3>3 DEF Inlined
      <4>2. CASE p \o Front(y) # p
        <5>1. p \o Front(y) \in DOMAIN b => b[p \o Front(y)].inline = containers[p \o Front(y)].inline
          BY <4>2, <1>2
        <5> QED
          BY <4>2, <5>1, <3>1, <3>2, <1>2 DEF Inlined
      <4> QED
        BY <4>1, <4>2
    <3> QED
      BY <3>4, <2>2, <2>3, <2>6, <1>2 DEF Lost
  <2> QED
    BY <2>5, <2>6
<1>7. c = Restrict(t, DOMAIN t \ Lost(p))
  <2>1. DOMAIN c \subseteq Path /\ DOMAIN t \subseteq Path
    BY <1>1, <1>3, <1>4, NodesChar DEF TextOf
  <2>2. DOMAIN c = DOMAIN t \ Lost(p) /\ \A y \in DOMAIN c : c[y] = t[y]
    BY <2>1, <1>6
  <2>3. c = [y \in DOMAIN c |-> c[y]]
    BY DEF TextOf
  <2> QED
    BY <2>2, <2>3 DEF Restrict
<1>8. c = Nothing \/ (IsText(c) /\ c[Root] = Obj)
  <2>1. CASE t = Nothing
    BY <2>1, <1>7 DEF Nothing, Restrict
  <2>2. CASE IsText(t) /\ t[Root] = Obj
    <3>1. Root \notin Lost(p)
      BY RootIsPath DEF Lost
    <3> QED
      BY <3>1, <2>2, <1>5, <1>7, LessIsText
  <2> QED
    BY <2>1, <2>2, RootedText
<1>9. ASSUME Exists(p) => containers[p].inline = Nothing PROVE c = t
  <2>1. ASSUME NEW x \in Lost(p) PROVE FALSE
    <3>1. x \in NodesOf(containers, primitives, p) /\ Len(x) = 1
      BY <1>4 DEF Lost, TextOf
    <3>2. x \in Path /\ x # Root
      BY <3>1, <1>1, NodesChar, RootIsPath
    <3>3. Inlined(containers, p \o x)
      BY <3>1, <3>2, <1>1, NodesChar DEF Lost
    <3>4. Front(x) \in Path /\ Len(Front(x)) = 0
      BY <3>1, <3>2, SplitLast
    <3>5. Front(p \o x) = p
      BY <3>2, <3>4, FrontBelow, EmptySeq DEF Path, Root
    <3> QED
      BY <3>3, <3>5, <1>9 DEF Inlined, Exists, Nothing
  <2>2. t = [x \in DOMAIN t |-> t[x]] /\ DOMAIN t \ Lost(p) = DOMAIN t
    BY <2>1, <1>4 DEF TextOf
  <2> QED
    BY <2>2, <1>7 DEF Restrict
<1> QED
  BY <1>3, <1>5, <1>7, <1>8, <1>9

\* A leaf update merges, but for what is inlined in the root row.
LEMMA LeafMerges ==
    ASSUME NInv, IInv', NEW p \in Path, NEW u, IsText(u), u[Root] = Obj, UpdateLeaf(p, u),
           NEW b, b = Bared(p), NEW c, c = TextOf(b, primitives, p)
    PROVE  Extract(p)' = Content(Merge(c, u))
<1>1. /\ IInv /\ IsLeafObject(u)
      /\ ContainersOK(containers) /\ PrimitivesOK(primitives)
      /\ ContainersOK(containers') /\ PrimitivesOK(primitives')
  BY DEF NInv, IInv, TypeOK, ContainersOK, PrimitivesOK, UpdateLeaf
<1>2. PICK t, m, d : /\ t = Extract(p) /\ m = Merge(c, u)
                     /\ d = TextOf(containers', primitives', p)
  OBVIOUS
<1>3. DOMAIN c = NodesOf(b, primitives, p)
  BY DEF TextOf
<1>4. ContainersOK(b)
  BY <1>1, BaredText
<1>5. c = Nothing \/ (IsText(c) /\ c[Root] = Obj)
  BY <1>1, BaredText
<1>6. c = Restrict(t, DOMAIN t \ Lost(p))
  BY <1>1, <1>2, BaredText
<1>7. /\ d = [y \in DOMAIN d |-> d[y]]
      /\ DOMAIN d = NodesOf(containers', primitives', p) /\ DOMAIN d \subseteq Path
  BY <1>1, <1>2, NodesChar DEF TextOf
<1>8. /\ p \in DOMAIN containers'
      /\ \A y \in Path : y # Root /\ ~Touched(u, y) =>
            SameAt(b, primitives, containers', primitives', p \o y)
      /\ \A x \in DOMAIN u \ {Root} :
            /\ p \o x \notin DOMAIN containers' /\ ~Inlined(containers', p \o x)
            /\ p \o x \in DOMAIN primitives' <=> u[x] # Null
            /\ u[x] # Null => primitives'[p \o x].val = u[x]
  BY <1>1, LeafRows
<1>9. /\ DOMAIN m \subseteq Path
      /\ Root \in DOMAIN m /\ m[Root] = Obj
      /\ \A y \in Path : y # Root /\ ~Touched(u, y) =>
            /\ y \in DOMAIN m <=> y \in DOMAIN c
            /\ y \in DOMAIN c => m[y] = c[y]
      /\ \A y \in DOMAIN u \ {Root} : /\ u[y] # Null => y \in DOMAIN m /\ m[y] = u[y]
                                      /\ u[y] = Null /\ y \in DOMAIN m => m[y] = Null
      /\ \A y \in Path : y \notin DOMAIN u /\ Touched(u, y) => y \notin DOMAIN m
  BY <1>1, <1>2, <1>5, MergeOfLeaves
<1>10. \A y \in DOMAIN c : c[y] # Null
  <2>1. \A y \in DOMAIN t : t[y] # Null
    BY <1>2, NoNullIsRead DEF NInv
  <2> QED
    BY <2>1, <1>6 DEF Restrict
<1>11. ASSUME NEW y \in Path
      PROVE  /\ y \in DOMAIN d <=> \/ p \o y \in DOMAIN containers'
                                   \/ y # Root /\ p \o y \in DOMAIN primitives'
                                   \/ y # Root /\ Inlined(containers', p \o y)
             /\ y \in DOMAIN d => d[y] = IF p \o y \in DOMAIN containers' THEN Obj
                                         ELSE IF p \o y \in DOMAIN primitives' THEN primitives'[p \o y].val
                                         ELSE containers'[p \o Front(y)].inline[Last(y)]
  <2>1. y \in DOMAIN d <=> \/ p \o y \in DOMAIN containers'
                           \/ y # Root /\ p \o y \in DOMAIN primitives'
                           \/ y # Root /\ Inlined(containers', p \o y)
    BY <1>1, <1>7, NodesChar
  <2>2. y \in DOMAIN d => d[y] = IF p \o y \in DOMAIN containers' THEN Obj
                                 ELSE IF p \o y \in DOMAIN primitives' THEN primitives'[p \o y].val
                                 ELSE containers'[p \o Front(y)].inline[Last(y)]
    BY <1>2, <1>7 DEF TextOf
  <2> QED
    BY <2>1, <2>2
\* Node by node the two say the same.
<1>12. ASSUME NEW y \in Path
      PROVE  /\ y \in DOMAIN d <=> y \in DOMAIN m /\ m[y] # Null
             /\ y \in DOMAIN d => d[y] = m[y]
  <2>1. CASE y = Root
    <3>1. p \o y = p
      BY <2>1, ConcatChar
    <3> QED
      BY <2>1, <3>1, <1>8, <1>9, <1>11, ItemAssumption
  <2>2. CASE y # Root /\ ~Touched(u, y)
    <3>1. SameAt(b, primitives, containers', primitives', p \o y)
      BY <2>2, <1>8
    <3>2. /\ y \in NodesOf(b, primitives, p) <=> y \in NodesOf(containers', primitives', p)
          /\ y \in NodesOf(b, primitives, p) =>
                TextOf(b, primitives, p)[y] = TextOf(containers', primitives', p)[y]
      BY <3>1, <1>1, <1>4, TextSameAt
    <3>3. /\ y \in DOMAIN d <=> y \in DOMAIN c
          /\ y \in DOMAIN c => d[y] = c[y]
      BY <3>2, <1>2, <1>3, <1>7
    <3> QED
      BY <2>2, <3>3, <1>9, <1>10
  <2>3. CASE y \in DOMAIN u \ {Root}
    <3>1. y \in DOMAIN d <=> u[y] # Null
      BY <2>3, <1>8, <1>11
    <3>2. y \in DOMAIN d => d[y] = u[y]
      BY <2>3, <3>1, <1>8, <1>11
    <3> QED
      BY <2>3, <3>1, <3>2, <1>9
  <2>4. CASE y # Root /\ Touched(u, y) /\ y \notin DOMAIN u
    <3>1. PICK x \in DOMAIN u \ {Root} : IsPrefix(x, y)
      BY <2>4 DEF Touched
    <3>2. x \in Path /\ Len(x) = 1 /\ x # y
      BY <1>1, <2>4, <3>1, LeavesAreChildren
    <3>3. /\ Front(y) \in Path /\ IsPrefix(x, Front(y))
          /\ Front(p \o y) = p \o Front(y)
      BY <2>4, <3>1, <3>2, FrontBelow
    <3>4. ASSUME NEW z \in Path, IsPrefix(x, z)
          PROVE  /\ p \o z \notin DOMAIN containers'
                 /\ z # x => p \o z \notin DOMAIN primitives'
      <4>1. /\ p \o x \in Path /\ p \o z \in Path
            /\ IsPrefix(p \o x, p \o z) /\ (p \o x = p \o z <=> x = z)
        BY <3>2, <3>4, ConcatPrefix, ConcatChar
      <4>2. z # x => p \o x \in Ancestors(p \o z)
        BY <4>1, AncestorChar
      <4>3. p \o x \notin DOMAIN containers'
        BY <1>8
      <4> QED
        BY <4>2, <4>3 DEF IInv, AncestorClosed
    <3>5. y \notin DOMAIN d
      BY <3>1, <3>2, <3>3, <3>4, <1>11 DEF Inlined
    <3> QED
      BY <3>5, <2>4, <1>9
  <2> QED
    BY <2>1, <2>2, <2>3, <2>4
<1>13. DOMAIN d = {y \in DOMAIN m : m[y] # Null} /\ \A y \in DOMAIN d : d[y] = m[y]
  BY <1>7, <1>9, <1>12
<1>14. d = Content(m)
  BY <1>7, <1>13 DEF Content, Restrict
<1> QED
  BY <1>2, <1>14, ExtractIsTextOf

\* For any keys, values, paths, texts and limits: the leaf path of update_json, which
\* never reads the document, merges the update into it, as long as the root row has
\* nothing inlined.
THEOREM LeavesAreMerged == Spec => LeafUpdateMerges
<1>1. ASSUME NInv, IInv', Next, NEW p \in DocPaths, p = call'.path, call'.op = "leaf",
             Exists(p) => containers[p].inline = Nothing
      PROVE  Extract(p)' = Content(Merge(Extract(p), call'.text))
  <2>1. PICK u \in Updates : UpdateLeaf(p, u)
    <3>1. \E q \in DocPaths : \E u \in Updates : UpdateLeaf(q, u)
      BY <1>1 DEF Next, SetJson, RemoveJson, UpdateFull, UpdateWildcard, ImportCsv, Called
    <3>2. ASSUME NEW q, NEW u, UpdateLeaf(q, u) PROVE q = call'.path
      BY <3>2 DEF UpdateLeaf, Called
    <3> QED
      BY <3>1, <3>2, <1>1
  <2>2. IsText(u) /\ u[Root] = Obj /\ p \in Path
    BY EngineAssumption
  <2>3. call'.text = u
    BY <2>1 DEF UpdateLeaf, Called
  <2>4. PICK b, c, t : b = Bared(p) /\ c = TextOf(b, primitives, p) /\ t = Extract(p)
    OBVIOUS
  <2>5. Extract(p)' = Content(Merge(c, u))
    BY <1>1, <2>1, <2>2, <2>4, LeafMerges
  <2>6. c = t
    <3>1. IInv /\ p \in Path /\ (Exists(p) => containers[p].inline = Nothing)
      BY <1>1, <2>2 DEF NInv
    <3>2. b = Bared(p) /\ c = TextOf(b, primitives, p) /\ t = Extract(p)
      BY <2>4
    <3>3. (Exists(p) => containers[p].inline = Nothing) => c = t
      BY <3>1, <3>2, BaredText
    <3> QED
      BY <3>1, <3>3
  <2> QED
    BY <2>3, <2>4, <2>5, <2>6
<1>2. NInv /\ NInv' /\ [Next]_vars =>
         [\A p \in DocPaths :
             (p = call'.path /\ call'.op = "leaf" /\ (Exists(p) => containers[p].inline = Nothing))
                => Extract(p)' = Content(Merge(Extract(p), call'.text))]_vars
  <2>1. NInv' => IInv'
    BY DEF NInv
  <2> QED
    BY <1>1, <2>1
<1> QED
  BY <1>2, NInvInit, NInvNext, PTL DEF Spec, LeafUpdateMerges

-----------------------------------------------------------------------------
(* The tree of two tables *)

\* Rows with parents, none of them a scalar at "/".
Tables(c, r) == /\ ContainersOK(c) /\ PrimitivesOK(r)
                /\ ParentsIn(DOMAIN c, c) /\ ParentsIn(DOMAIN r, c)
                /\ Root \notin DOMAIN r

\* What a container at z stands over, or what stands there without it.
Under(c, r, z) == z \in DOMAIN r \/ Inlined(c, z)

\* The nodes of the tree are the rows and the inlined entries that no row stands over.
LEMMA TreeNodes ==
    ASSUME NEW c, NEW r, Tables(c, r), NEW tree, tree = TextOf(c, r, Root)
    PROVE  /\ DOMAIN tree \subseteq Path
           /\ tree = [z \in DOMAIN tree |-> tree[z]]
           /\ \A z \in Path : z \in DOMAIN tree <=> z \in DOMAIN c \/ Under(c, r, z)
           /\ \A z \in DOMAIN tree :
                 tree[z] = IF z \in DOMAIN c THEN Obj
                           ELSE IF z \in DOMAIN r THEN r[z].val
                           ELSE c[Front(z)].inline[Last(z)]
<1>1. ContainersOK(c) /\ PrimitivesOK(r) /\ Root \in Path
  BY RootIsPath DEF Tables
<1>2. DOMAIN tree = NodesOf(c, r, Root)
  BY DEF TextOf
<1>3. DOMAIN tree \subseteq Path
  BY <1>1, <1>2, NodesChar
<1>4. ASSUME NEW z \in Path
      PROVE  z \in DOMAIN tree <=> z \in DOMAIN c \/ Under(c, r, z)
  <2>1. Root \o z = z
    BY RootConcat
  <2>2. z \in DOMAIN tree <=> \/ z \in DOMAIN c
                              \/ z # Root /\ z \in DOMAIN r
                              \/ z # Root /\ Inlined(c, z)
    <3>1. ASSUME NEW o \in Path, o \o z = z
          PROVE  z \in NodesOf(c, r, o) <=> \/ z \in DOMAIN c
                                            \/ z # Root /\ z \in DOMAIN r
                                            \/ z # Root /\ Inlined(c, z)
      <4>1. z \in NodesOf(c, r, o) <=> \/ o \o z \in DOMAIN c
                                       \/ z # Root /\ o \o z \in DOMAIN r
                                       \/ z # Root /\ Inlined(c, o \o z)
        BY <1>1, NodesChar
      <4> QED
        BY <3>1, <4>1
    <3> QED
      BY <1>1, <1>2, <2>1, <3>1
  <2>3. Inlined(c, z) => z # Root
    BY DEF Inlined
  <2> QED
    BY <2>2, <2>3 DEF Under, Tables
<1>5. ASSUME NEW z \in DOMAIN tree
      PROVE  tree[z] = IF z \in DOMAIN c THEN Obj
                       ELSE IF z \in DOMAIN r THEN r[z].val
                       ELSE c[Front(z)].inline[Last(z)]
  <2>1. tree[z] = IF Root \o z \in DOMAIN c THEN Obj
                  ELSE IF Root \o z \in DOMAIN r THEN r[Root \o z].val
                  ELSE c[Root \o Front(z)].inline[Last(z)]
    BY <1>2 DEF TextOf
  <2>2. Root \o z = z
    BY <1>3, RootConcat
  <2>3. CASE z \in DOMAIN c \cup DOMAIN r
    BY <2>1, <2>2, <2>3
  <2>4. CASE z \notin DOMAIN c \cup DOMAIN r
    <3>1. z # Root
      BY <1>3, <1>4, <2>4 DEF Under, Inlined
    <3>2. Front(z) \in Path
      BY <1>3, <3>1, SplitLast
    <3>3. Root \o Front(z) = Front(z)
      BY <3>2, RootConcat
    <3> QED
      BY <2>1, <2>2, <2>4, <3>3
  <2> QED
    BY <2>3, <2>4
<1>6. tree = [z \in DOMAIN tree |-> tree[z]]
  BY DEF TextOf
<1> QED
  BY <1>3, <1>4, <1>5, <1>6

\* Below p, and where there is a container at p, tree and document are the same.
LEMMA TextInTree ==
    ASSUME NEW c, NEW r, Tables(c, r), NEW tree, tree = TextOf(c, r, Root),
           NEW p \in Path, NEW t, t = TextOf(c, r, p)
    PROVE  /\ DOMAIN t \subseteq Path
           /\ t = [y \in DOMAIN t |-> t[y]]
           /\ Root \in DOMAIN t <=> p \in DOMAIN c
           /\ \A y \in Path : y # Root \/ p \in DOMAIN c =>
                 /\ p \o y \in DOMAIN tree <=> y \in DOMAIN t
                 /\ y \in DOMAIN t => tree[p \o y] = t[y]
           /\ p \in DOMAIN c => tree[p] = Obj
<1>1. ContainersOK(c) /\ PrimitivesOK(r) /\ Root \in Path /\ p \o Root = p
  BY RootIsPath, ConcatChar DEF Tables
<1>2. DOMAIN t = NodesOf(c, r, p)
  BY DEF TextOf
<1>3. DOMAIN t \subseteq Path
  BY <1>1, <1>2, NodesChar
<1>4. Root \in DOMAIN t <=> p \in DOMAIN c
  BY <1>1, <1>2, NodesChar
<1>5. p \in DOMAIN c => p \in DOMAIN tree /\ tree[p] = Obj
  BY TreeNodes
<1>6. ASSUME NEW y \in Path, y # Root
      PROVE  /\ p \o y \in DOMAIN tree <=> y \in DOMAIN t
             /\ y \in DOMAIN t => tree[p \o y] = t[y]
  <2>1. p \o y \in Path /\ p \o y # Root /\ Front(p \o y) = p \o Front(y) /\ Last(p \o y) = Last(y)
    BY <1>6, FrontBelow
  <2>2. y \in DOMAIN t <=> p \o y \in DOMAIN c \/ p \o y \in DOMAIN r \/ Inlined(c, p \o y)
    BY <1>1, <1>2, <1>6, NodesChar
  <2>3. p \o y \in DOMAIN tree <=> p \o y \in DOMAIN c \/ Under(c, r, p \o y)
    BY <2>1, TreeNodes
  <2>4. y \in DOMAIN t => t[y] = IF p \o y \in DOMAIN c THEN Obj
                                ELSE IF p \o y \in DOMAIN r THEN r[p \o y].val
                                ELSE c[p \o Front(y)].inline[Last(y)]
    BY <1>2 DEF TextOf
  <2>5. p \o y \in DOMAIN tree =>
          tree[p \o y] = IF p \o y \in DOMAIN c THEN Obj
                         ELSE IF p \o y \in DOMAIN r THEN r[p \o y].val
                         ELSE c[Front(p \o y)].inline[Last(p \o y)]
    BY TreeNodes
  <2> QED
    BY <2>1, <2>2, <2>3, <2>4, <2>5 DEF Under
<1>7. p \in DOMAIN c => t[Root] = Obj
  BY <1>1, <1>2, <1>4 DEF TextOf
<1>8. t = [y \in DOMAIN t |-> t[y]]
  BY DEF TextOf
<1> QED
  BY <1>1, <1>3, <1>4, <1>5, <1>6, <1>7, <1>8

-----------------------------------------------------------------------------
(* The operators of HeTree, on a tree *)

AtOf(tree, p) == [x \in {Rel(p, y) : y \in {y \in DOMAIN tree : IsPrefix(p, y)}} |-> tree[p \o x]]

PrunedAt(tree, p) == RestrictDomain(tree, LAMBDA x : ~IsPrefix(p, x))

GraftedOn(tree, p, t) ==
    Override([x \in {p \o y : y \in DOMAIN t} |-> t[Rel(p, x)]],
             Override([x \in Ancestors(p) |-> Obj], PrunedAt(tree, p)))

\* HeTree names the operators of HeDoc anew.
LEMMA TreeNames ==
    /\ \A x, y : Tree!IsPrefix(x, y) = IsPrefix(x, y)
    /\ \A x, y : Tree!IsStrictPrefix(x, y) = IsStrictPrefix(x, y)
    /\ \A x : Tree!Prefixes(x) = Prefixes(x)
    /\ \A x : Tree!Ancestors(x) = Ancestors(x)
    /\ \A x, y : Tree!Rel(x, y) = Rel(x, y)
    /\ \A f, g : Tree!Override(f, g) = Override(f, g)
    /\ \A f, S : Tree!Restrict(f, S) = Restrict(f, S)
    /\ \A t : Tree!Content(t) = Content(t)
    /\ \A t, u : Tree!Merge(t, u) = Merge(t, u)
    /\ \A t, u : Tree!EachChild(t, u) = EachChild(t, u)
    /\ \A t, x : Tree!ChildPaths(t, x) = ChildPaths(t, x)
    /\ Tree!Root = Root
    /\ Tree!Nothing = Nothing
<1>1. \A x, y : Tree!IsPrefix(x, y) = IsPrefix(x, y)
  BY DEF Tree!IsPrefix, IsPrefix
<1>2. \A x, y : Tree!IsStrictPrefix(x, y) = IsStrictPrefix(x, y)
  BY <1>1 DEF Tree!IsStrictPrefix, IsStrictPrefix
<1>3. \A x : Tree!Prefixes(x) = Prefixes(x)
  BY DEF Tree!Prefixes, Prefixes
<1>4. \A x : Tree!Ancestors(x) = Ancestors(x)
  BY <1>3 DEF Tree!Ancestors, Ancestors
<1>5. \A x, y : Tree!Rel(x, y) = Rel(x, y)
  BY DEF Tree!Rel, Rel
<1>6. \A f, g : Tree!Override(f, g) = Override(f, g)
  BY DEF Tree!Override, Override
<1>7. \A f, S : Tree!Restrict(f, S) = Restrict(f, S)
  BY DEF Tree!Restrict, Restrict
<1>8. \A t : Tree!Content(t) = Content(t)
  BY DEF Tree!Content, Content, Tree!Restrict, Restrict
<1>9. Tree!Root = Root /\ Tree!Nothing = Nothing
  BY DEF Tree!Root, Root, Tree!Nothing, Nothing
<1>10. \A t, x : Tree!ChildPaths(t, x) = ChildPaths(t, x)
  BY DEF Tree!ChildPaths, ChildPaths, Tree!Root, Root, Tree!Front, Front
<1>11. \A t, u : Tree!Merge(t, u) = Merge(t, u)
  BY DEF Tree!Merge, Merge, Tree!Override, Override, Tree!Restrict, Restrict, Tree!Copied, Copied,
         Tree!Survives, Survives, Tree!Prefixes, Prefixes, Tree!Front, Front
<1>12. \A t, u : Tree!EachChild(t, u) = EachChild(t, u)
  BY DEF Tree!EachChild, EachChild, Tree!ChildPaths, ChildPaths, Tree!Root, Root, Tree!Front, Front,
         Tree!Rel, Rel
<1> QED
  BY <1>1, <1>2, <1>3, <1>4, <1>5, <1>6, <1>7, <1>8, <1>9, <1>10, <1>11, <1>12

\* The operators of HeTree, read at the mapped tree.
LEMMA TreeOperators ==
    ASSUME NEW p, NEW t, NEW tree, tree = Extract(Root)
    PROVE  /\ Tree!At(p) = AtOf(tree, p)
           /\ Tree!Without(p) = PrunedAt(tree, p)
           /\ Tree!Grafted(p, t) = GraftedOn(tree, p, t)
<1>1. Tree!At(p) = AtOf(tree, p)
  BY DEF Tree!At, AtOf, Tree!Rel, Rel, Tree!IsPrefix, IsPrefix, Tree!Root, Root
<1>2. Tree!Without(p) = PrunedAt(tree, p)
  BY DEF Tree!Without, PrunedAt, Tree!IsPrefix, IsPrefix, Tree!RestrictDomain, RestrictDomain,
         Tree!Restrict, Restrict
<1>3. Tree!Grafted(p, t) = GraftedOn(tree, p, t)
  BY <1>2, TreeNames DEF Tree!Grafted, GraftedOn
<1> QED
  BY <1>1, <1>2, <1>3
-----------------------------------------------------------------------------
(* What a call at p does to the tree *)

\* The value at p is the document there, or a scalar or an empty object.
LEMMA AtIsText ==
    ASSUME NEW c, NEW r, Tables(c, r), NEW tree, tree = TextOf(c, r, Root), NEW p \in Path,
           NEW at, at = AtOf(tree, p)
    PROVE  /\ p \in DOMAIN c => at = TextOf(c, r, p)
           /\ p \notin DOMAIN c => DOMAIN at \subseteq {Root}
<1>1. PICK t : t = TextOf(c, r, p)
  OBVIOUS
<1>2. DOMAIN tree \subseteq Path
  BY TreeNodes
<1>3. /\ DOMAIN at = {Rel(p, z) : z \in {z \in DOMAIN tree : IsPrefix(p, z)}}
      /\ \A y \in DOMAIN at : at[y] = tree[p \o y]
      /\ at = [y \in DOMAIN at |-> at[y]]
  BY DEF AtOf
<1>4. \A z \in DOMAIN tree : IsPrefix(p, z) => Rel(p, z) \in Path /\ z = p \o Rel(p, z)
  BY <1>2, RelChar
<1>5. DOMAIN at \subseteq Path /\ \A y \in Path : y \in DOMAIN at <=> p \o y \in DOMAIN tree
  <2>1. \A y \in DOMAIN at : y \in Path /\ p \o y \in DOMAIN tree
    BY <1>3, <1>4
  <2>2. ASSUME NEW y \in Path, p \o y \in DOMAIN tree PROVE y \in DOMAIN at
    <3>1. IsPrefix(p, p \o y) /\ Rel(p, p \o y) = y
      BY ConcatChar
    <3> QED
      BY <3>1, <2>2, <1>3
  <2> QED
    BY <2>1, <2>2
<1>6. ASSUME p \in DOMAIN c PROVE at = t
  <2>1. /\ DOMAIN t \subseteq Path
        /\ t = [y \in DOMAIN t |-> t[y]]
        /\ \A y \in Path : /\ p \o y \in DOMAIN tree <=> y \in DOMAIN t
                           /\ y \in DOMAIN t => tree[p \o y] = t[y]
    BY <1>1, <1>6, TextInTree
  <2>2. DOMAIN at = DOMAIN t /\ \A y \in DOMAIN at : at[y] = t[y]
    BY <2>1, <1>3, <1>5
  <2> QED
    BY <2>1, <2>2, <1>3
<1>7. ASSUME p \notin DOMAIN c, NEW y \in DOMAIN at PROVE y = Root
  <2> SUFFICES ASSUME y # Root PROVE FALSE
    OBVIOUS
  <2>1. y \in Path /\ p \o y \in DOMAIN tree /\ p \o y \in Path
    BY <1>7, <1>2, <1>5
  <2>2. IsStrictPrefix(p, p \o y)
    BY <2>1, ConcatChar DEF IsStrictPrefix
  <2>3. p \o y \in DOMAIN c \/ p \o y \in DOMAIN r \/ Inlined(c, p \o y)
    BY <2>1, TreeNodes DEF Under
  <2> QED
    BY <1>7, <2>1, <2>2, <2>3, AboveIsContainer DEF Tables
<1> QED
  BY <1>1, <1>6, <1>7

\* A tree that has the text t at p, objects above it and apart from p what the
\* old tree has, is the old one with t grafted on.
LEMMA GraftIsOnly ==
    ASSUME NEW tree, DOMAIN tree \subseteq Path, NEW p \in Path,
           NEW t, DOMAIN t \subseteq Path,
           NEW new, DOMAIN new \subseteq Path, new = [z \in DOMAIN new |-> new[z]],
           \A y \in Path : /\ p \o y \in DOMAIN new <=> y \in DOMAIN t
                           /\ y \in DOMAIN t => new[p \o y] = t[y],
           \A z \in Ancestors(p) : z \in DOMAIN new /\ new[z] = Obj,
           \A z \in Path : ~IsPrefix(p, z) /\ ~IsPrefix(z, p) =>
                             /\ z \in DOMAIN new <=> z \in DOMAIN tree
                             /\ z \in DOMAIN new => new[z] = tree[z]
    PROVE  new = GraftedOn(tree, p, t)
<1> PICK top, way, pruned :
      /\ top    = [x \in {p \o y : y \in DOMAIN t} |-> t[Rel(p, x)]]
      /\ way    = [x \in Ancestors(p) |-> Obj]
      /\ pruned = PrunedAt(tree, p)
  OBVIOUS
<1> PICK under : under = Override(way, pruned)
  OBVIOUS
<1> PICK graft : graft = Override(top, under)
  OBVIOUS
<1>1. graft = GraftedOn(tree, p, t)
  BY DEF GraftedOn
<1>2. /\ DOMAIN top = {p \o y : y \in DOMAIN t}
      /\ \A y \in DOMAIN t : top[p \o y] = t[y]
  <2>1. DOMAIN top = {p \o y : y \in DOMAIN t} /\ \A x \in DOMAIN top : top[x] = t[Rel(p, x)]
    OBVIOUS
  <2>2. \A y \in DOMAIN t : Rel(p, p \o y) = y
    BY ConcatChar
  <2> QED
    BY <2>1, <2>2
<1>3. DOMAIN way = Ancestors(p) /\ \A z \in DOMAIN way : way[z] = Obj
  OBVIOUS
<1>4. DOMAIN pruned = {z \in DOMAIN tree : ~IsPrefix(p, z)} /\ \A z \in DOMAIN pruned : pruned[z] = tree[z]
  BY DEF PrunedAt, RestrictDomain, Restrict
<1>5. /\ DOMAIN under = DOMAIN way \cup DOMAIN pruned
      /\ \A z \in DOMAIN way : under[z] = way[z]
      /\ \A z \in DOMAIN pruned : z \notin DOMAIN way => under[z] = pruned[z]
  BY DEF Override
<1>6. /\ DOMAIN graft = DOMAIN top \cup DOMAIN under
      /\ \A z \in DOMAIN top : graft[z] = top[z]
      /\ \A z \in DOMAIN under : z \notin DOMAIN top => graft[z] = under[z]
      /\ graft = [z \in DOMAIN graft |-> graft[z]]
  BY DEF Override
<1>7. \A z \in Path : z \in Ancestors(p) <=> IsPrefix(z, p) /\ z # p
  BY AncestorChar
<1>8. ASSUME NEW z \in Path
      PROVE  /\ z \in DOMAIN new <=> z \in DOMAIN graft
             /\ z \in DOMAIN new => new[z] = graft[z]
  <2>1. CASE IsPrefix(p, z)
    <3>1. PICK y \in Path : z = p \o y
      BY <2>1, RelChar
    <3>2. z \in DOMAIN top <=> y \in DOMAIN t
      <4>1. \A x \in DOMAIN t : p \o x = p \o y => x = y
        BY ConcatPrefix
      <4> QED
        BY <1>2, <3>1, <4>1
    <3>3. z \notin DOMAIN under
      BY <2>1, <1>3, <1>4, <1>5, <1>7, PrefixOrder
    <3> QED
      BY <1>2, <1>6, <3>1, <3>2, <3>3
  <2>2. CASE ~IsPrefix(p, z)
    <3>1. z \notin DOMAIN top
      BY <2>2, <1>2, ConcatChar
    <3>2. CASE IsPrefix(z, p)
      <4>1. z \in Ancestors(p)
        BY <2>2, <3>2, <1>7, PrefixOrder
      <4> QED
        BY <3>1, <4>1, <1>3, <1>5, <1>6
    <3>3. CASE ~IsPrefix(z, p)
      <4>1. z \notin DOMAIN way
        BY <3>3, <1>3, <1>7
      <4>2. /\ z \in DOMAIN new <=> z \in DOMAIN tree
            /\ z \in DOMAIN new => new[z] = tree[z]
        BY <2>2, <3>3
      <4>3. /\ z \in DOMAIN pruned <=> z \in DOMAIN tree
            /\ z \in DOMAIN pruned => pruned[z] = tree[z]
        BY <2>2, <1>4
      <4> QED
        BY <3>1, <4>1, <4>2, <4>3, <1>5, <1>6
    <3> QED
      BY <3>2, <3>3
  <2> QED
    BY <2>1, <2>2
<1>9. DOMAIN graft \subseteq Path
  <2>1. Ancestors(p) \subseteq Path /\ \A y \in DOMAIN t : p \o y \in Path
    BY AncestorChar, ConcatChar
  <2>2. DOMAIN top \subseteq Path
    BY <2>1, <1>2
  <2>3. DOMAIN way \subseteq Path
    BY <2>1, <1>3
  <2>4. DOMAIN pruned \subseteq Path
    BY <1>4
  <2> QED
    BY <2>2, <2>3, <2>4, <1>5, <1>6
<1>10. DOMAIN new = DOMAIN graft /\ \A z \in DOMAIN new : new[z] = graft[z]
  BY <1>8, <1>9
<1> QED
  BY <1>1, <1>6, <1>10

-----------------------------------------------------------------------------
(* The invariant *)

TInv == RInv /\ NoNulls /\ Root \notin DOMAIN primitives

\* What TInv gives of the invariants it rests on.
LEMMA TInvTables ==
    /\ TInv  => NInv /\ RInv /\ EInv /\ IInv /\ Tables(containers, primitives)
    /\ TInv' => NInv' /\ RInv' /\ EInv' /\ IInv' /\ Tables(containers', primitives')
BY DEF TInv, NInv, RInv, EInv, IInv, TypeOK, AncestorClosed, Tables, ContainersOK, PrimitivesOK, ParentsIn

LEMMA TInvInit == Init => TInv
BY RInvInit, NInvInit DEF Init, TInv, NInv, Nothing

\* No call writes a scalar at "/".
LEMMA RootStaysBare ==
    ASSUME IInv, IInv', Next, Root \notin DOMAIN primitives
    PROVE  Root \notin DOMAIN primitives'
<1>1. ASSUME NEW n, NEW o, Root \notin DOMAIN n, Root \notin DOMAIN o
      PROVE  Root \notin DOMAIN Override(n, o)
  BY <1>1 DEF Override
<1>2. ASSUME NEW p \in Path, NEW t, IsText(t), NEW limit, NEW rev, NEW nr
      PROVE  Root \notin DOMAIN PrimitiveRows(p, t, limit, rev, nr)
  <2>1. PrimitivePaths(t, limit) \subseteq Path
    BY <1>2, FlattenTypes
  <2>2. Root \notin PrimitivePaths(t, limit)
    BY DEF PrimitivePaths, DedicatedPaths, Stored
  <2>3. \A x \in PrimitivePaths(t, limit) : p \o x # Root
    BY <2>1, <2>2, FrontOfConcat
  <2> QED
    BY <2>3 DEF PrimitiveRows
<1>3. ASSUME NEW S PROVE Root \notin DOMAIN Restrict(primitives, S \cap DOMAIN primitives)
  BY DEF Restrict
<1>4. ASSUME NEW p PROVE Root \notin DOMAIN Restrict(primitives, OutsideStrictly(p))
  BY DEF Restrict, OutsideStrictly
<1>5. ASSUME NEW p \in Path, Edit(p), p # Root PROVE Root \notin DOMAIN primitives'
  <2>1. ~IsPrefix(p, Root)
    <3>1. Root \in Path /\ Len(Root) = 0 /\ Len(p) \in Nat /\ Len(p) # 0
      BY <1>5, RootIsPath, EmptySeq DEF Path, Root
    <3> QED
      BY <3>1, PrefixChar
  <2> QED
    BY <2>1, <1>5, RootIsPath DEF Edit, Frame
<1>6. ASSUME Writes(Root) PROVE Root \notin DOMAIN primitives'
  <2>1. PICK t, limit : IsText(t) /\ WriteText(Root, t, limit)
    BY <1>6 DEF Writes
  <2>2. PICK rev, nr : primitives' = Override(PrimitiveRows(Root, t, limit, rev, nr),
                                              Restrict(primitives, OutsideStrictly(Root)))
    BY <2>1 DEF WriteText
  <2> QED
    BY <2>1, <2>2, <1>1, <1>2, <1>4, RootIsPath
<1>7. ASSUME Imports(Root) PROVE Root \notin DOMAIN primitives'
  <2>1. PICK t, limit : IsText(t) /\ ImportCsv(Root, t, limit)
    BY <1>7, EngineAssumption DEF Imports
  <2>2. PICK rev, nr : primitives' = Override(PrimitiveRows(Root, t, limit, rev, nr),
                                              Restrict(primitives, OutsideStrictly(Root)))
    BY <2>1 DEF ImportCsv
  <2> QED
    BY <2>1, <2>2, <1>1, <1>2, <1>4, RootIsPath
<1>8. ASSUME RemoveJson(Root) PROVE Root \notin DOMAIN primitives'
  BY <1>4, <1>8 DEF RemoveJson
<1>9. ASSUME Leaves(call'.path) PROVE call'.path # Root
  <2>1. \E p \in DocPaths, u \in Updates : UpdateLeaf(p, u)
    BY <1>9 DEF Leaves, Next, SetJson, RemoveJson, UpdateFull, UpdateWildcard, ImportCsv, Called
  <2> QED
    BY <2>1 DEF UpdateLeaf, Called
<1>10. CASE Skips \/ UNCHANGED <<containers, primitives, clock>>
  BY <1>10 DEF Skips
<1>11. CASE Edit(call'.path)
  <2>1. call'.path \in Path
    BY NextEdits, EngineAssumption
  <2>2. CASE call'.path # Root
    BY <1>5, <1>11, <2>1, <2>2
  <2>3. CASE call'.path = Root
    BY <1>6, <1>7, <1>8, <1>9, <1>10, <2>3, NextWrites
  <2> QED
    BY <2>2, <2>3
<1> QED
  BY <1>10, <1>11, NextEdits

\* Every call keeps TInv.
LEMMA TInvNext == TInv /\ [Next]_vars => TInv'
<1> SUFFICES ASSUME TInv, [Next]_vars PROVE TInv'
  OBVIOUS
<1>1. RInv' /\ NInv' /\ IInv /\ IInv'
  BY RInvNext, NInvNext, TInvTables DEF TInv, NInv
<1>2. CASE Next
  BY <1>1, <1>2, RootStaysBare DEF TInv, NInv
<1>3. CASE UNCHANGED vars
  BY <1>1, <1>3 DEF TInv, NInv, vars
<1> QED
  BY <1>2, <1>3

-----------------------------------------------------------------------------
(* A step, seen on the tree *)

\* The tree after a call at p is the one before, with the document of p grafted on.
LEMMA StepGrafts ==
    ASSUME TInv, TInv', NEW p \in Path, Frame(p), Exists(p)',
           NEW tree, tree = Extract(Root), NEW new, new = Extract(Root)', NEW t, t = Extract(p)'
    PROVE  new = GraftedOn(tree, p, t)
<1>1. IInv /\ IInv' /\ Tables(containers, primitives) /\ Tables(containers', primitives')
  BY TInvTables
<1>2. /\ tree = TextOf(containers, primitives, Root)
      /\ new = TextOf(containers', primitives', Root)
      /\ t = TextOf(containers', primitives', p)
  BY ExtractIsTextOf
<1>3. p \in DOMAIN containers'
  BY DEF Exists
<1>4. DOMAIN tree \subseteq Path
  BY <1>1, <1>2, TreeNodes
<1>5. DOMAIN new \subseteq Path /\ new = [z \in DOMAIN new |-> new[z]]
  BY <1>1, <1>2, TreeNodes
<1>6. /\ DOMAIN t \subseteq Path
      /\ \A y \in Path : /\ p \o y \in DOMAIN new <=> y \in DOMAIN t
                         /\ y \in DOMAIN t => new[p \o y] = t[y]
  BY <1>1, <1>2, <1>3, TextInTree
<1>7. ASSUME NEW z \in Ancestors(p) PROVE z \in DOMAIN new /\ new[z] = Obj
  <2>1. z \in Path /\ z \in DOMAIN containers'
    BY <1>1, <1>3, AncestorChar DEF IInv, AncestorClosed
  <2> QED
    BY <2>1, <1>1, <1>2, TreeNodes
<1>8. ASSUME NEW z \in Path, ~IsPrefix(p, z), ~IsPrefix(z, p)
      PROVE  /\ z \in DOMAIN new <=> z \in DOMAIN tree
             /\ z \in DOMAIN new => new[z] = tree[z]
  BY <1>1, <1>8, ApartSame
<1> QED
  BY <1>4, <1>5, <1>6, <1>7, <1>8, GraftIsOnly

\* Not below p, a call leaves what containers stand over.
LEMMA UnderStays ==
    ASSUME IInv, IInv', NEW p \in Path, Frame(p), p \in DOMAIN primitives' <=> p \in DOMAIN primitives,
           NEW q \in Path, ~IsStrictPrefix(p, q)
    PROVE  Under(containers', primitives', q) <=> Under(containers, primitives, q)
<1>1. q \in DOMAIN primitives' <=> q \in DOMAIN primitives
  BY DEF Frame, IsStrictPrefix
<1>2. Inlined(containers', q) <=> Inlined(containers, q)
  <2>1. CASE q = Root
    BY <2>1 DEF Inlined
  <2>2. CASE q # Root
    <3>1. Front(q) \in Path /\ IsPrefix(Front(q), q) /\ Len(Front(q)) = Len(q) - 1 /\ Len(q) \in Nat
      BY <2>2, SplitLast DEF Path
    <3>2. ~IsPrefix(p, Front(q))
      <4> SUFFICES ASSUME IsPrefix(p, Front(q)) PROVE FALSE
        OBVIOUS
      <4>1. IsPrefix(p, q)
        BY <3>1, PrefixOrder
      <4>2. Len(p) <= Len(Front(q)) /\ Len(p) \in Nat
        BY <3>1, PrefixChar DEF Path
      <4>3. p # q
        BY <3>1, <4>2
      <4> QED
        BY <4>1, <4>3 DEF IsStrictPrefix
    <3>3. Front(q) \in DOMAIN containers => /\ Front(q) \in DOMAIN containers'
                                            /\ containers'[Front(q)] = containers[Front(q)]
      BY <3>2 DEF Frame, Retained
    <3>4. Front(q) \in DOMAIN containers' /\ Front(q) \notin DOMAIN containers =>
            containers'[Front(q)].inline = Nothing
      BY <3>2 DEF Frame, Retained
    <3> QED
      BY <3>3, <3>4 DEF Inlined, Nothing
  <2> QED
    BY <2>1, <2>2
<1> QED
  BY <1>1, <1>2 DEF Under

\* Containers that stand over something.
HiddenIn(c, r) == {q \in DOMAIN c : Under(c, r, q)}

\* The mapped hidden paths, before and after.
LEMMA HiddenNames ==
    ASSUME IInv, IInv'
    PROVE  /\ {q \in DOMAIN containers : Hides(q)} = HiddenIn(containers, primitives)
           /\ {q \in DOMAIN containers : Hides(q)}' = HiddenIn(containers', primitives')
<1>1. DOMAIN containers \subseteq Path /\ DOMAIN containers' \subseteq Path
  BY DEF IInv, TypeOK
<1>2. ASSUME NEW c, NEW q \in Path
      PROVE  Inlined(c, q) <=> /\ q # Root
                               /\ Root \o Front(q) \in DOMAIN c
                               /\ Last(q) \in DOMAIN c[Root \o Front(q)].inline
  <2>1. CASE q = Root
    BY <2>1 DEF Inlined
  <2>2. CASE q # Root
    <3>1. Root \o Front(q) = Front(q)
      BY <2>2, SplitLast, RootConcat
    <3> QED
      BY <3>1 DEF Inlined
  <2> QED
    BY <2>1, <2>2
<1>3. \A q \in DOMAIN containers : Hides(q) <=> Under(containers, primitives, q)
  BY <1>1, <1>2 DEF Hides, InlineAt, Under
<1>4. \A q \in DOMAIN containers' : Hides(q)' <=> Under(containers', primitives', q)
  BY <1>1, <1>2 DEF Hides, InlineAt, Under
<1> QED
  BY <1>3, <1>4 DEF HiddenIn

ChildlessIn(tree, x) == x \in DOMAIN tree /\ \A y \in DOMAIN tree : ~IsStrictPrefix(x, y)

HidesIn(tree, p, before, after) ==
    LET covered == {q \in Prefixes(p) \ {Root} : ChildlessIn(tree, q)}
    IN  \E empty \in SUBSET {q \in covered : tree[q] = Obj} :
            after = before \cup {q \in covered : tree[q] # Obj} \cup empty

\* A step that hides as HidesIn says hides as HeTree says.
LEMMA HideNames ==
    ASSUME NEW p, NEW before, NEW tree, tree = Extract(Root),
           HidesIn(tree, p, before, {q \in DOMAIN containers : Hides(q)}')
    PROVE  Tree!Hide(p, before)
<1>1. \A x : Tree!Childless(x) = ChildlessIn(tree, x)
  BY TreeNames DEF Tree!Childless, ChildlessIn
<1> QED
  BY <1>1, TreeNames DEF Tree!Hide, HidesIn

\* What stands in the tree where there is no container has nothing below it.
LEMMA UnderNodes ==
    ASSUME NEW c, NEW r, Tables(c, r), NEW tree, tree = TextOf(c, r, Root), NEW q \in Path
    PROVE  /\ q \in DOMAIN c => q \in DOMAIN tree /\ tree[q] = Obj
           /\ q \notin DOMAIN c => /\ q \in DOMAIN tree <=> Under(c, r, q)
                                   /\ q \in DOMAIN tree => ChildlessIn(tree, q)
<1>1. q \in DOMAIN c => q \in DOMAIN tree /\ tree[q] = Obj
  BY TreeNodes
<1>2. q \notin DOMAIN c => (q \in DOMAIN tree <=> Under(c, r, q))
  BY TreeNodes
<1>3. ASSUME q \notin DOMAIN c, NEW y \in DOMAIN tree, IsStrictPrefix(q, y) PROVE FALSE
  <2>1. y \in Path /\ (y \in DOMAIN c \/ y \in DOMAIN r \/ Inlined(c, y))
    BY TreeNodes DEF Under
  <2> QED
    BY <1>3, <2>1, AboveIsContainer DEF Tables
<1> QED
  BY <1>1, <1>2, <1>3 DEF ChildlessIn

\* A call at p hides what stood where it made containers, and nothing else; gone
\* is what it uncovered.
LEMMA StepHides ==
    ASSUME TInv, TInv', NEW p \in Path, Frame(p), Exists(p)',
           p \in DOMAIN primitives' <=> p \in DOMAIN primitives,
           NEW before, before = {q \in DOMAIN containers : Hides(q)},
           NEW after, after = {q \in DOMAIN containers : Hides(q)}',
           NEW gone, \A q \in gone : IsStrictPrefix(p, q),
           \A q \in Path : IsStrictPrefix(p, q) => (q \in after <=> q \in before \ gone)
    PROVE  Tree!Hide(p, before \ gone)
<1>1. IInv /\ IInv' /\ Tables(containers, primitives) /\ Tables(containers', primitives')
  BY TInvTables
<1> PICK tree : tree = Extract(Root)
  OBVIOUS
<1>2. tree = TextOf(containers, primitives, Root)
  BY ExtractIsTextOf
<1>3. before = HiddenIn(containers, primitives) /\ after = HiddenIn(containers', primitives')
  BY <1>1, HiddenNames
<1>4. before \subseteq Path /\ after \subseteq Path
  BY <1>1, <1>3 DEF HiddenIn, Tables, ContainersOK
<1>5. \A q \in Path : ~IsStrictPrefix(p, q) =>
         (Under(containers', primitives', q) <=> Under(containers, primitives, q))
  BY <1>1, UnderStays
<1>6. Root \notin before /\ Root \notin after
  BY <1>1, <1>3 DEF HiddenIn, Under, Inlined, Tables
<1> DEFINE covered == {q \in Prefixes(p) \ {Root} : ChildlessIn(tree, q)}
           empty   == {q \in covered : tree[q] = Obj /\ Under(containers, primitives, q)}
<1>7. Prefixes(p) \subseteq Path /\ \A q \in Path : q \in Prefixes(p) <=> IsPrefix(q, p)
  <2>1. \A q \in Path : q \in Ancestors(p) <=> IsPrefix(q, p) /\ q # p
    BY AncestorChar
  <2>2. Ancestors(p) \subseteq Path /\ IsPrefix(p, p)
    BY AncestorChar, PrefixOrder
  <2>3. p \in Prefixes(p)
    <3>1. p = SubSeq(p, 1, Len(p)) /\ Len(p) \in 0..Len(p)
      BY DEF Path
    <3> QED
      BY <3>1 DEF Prefixes
  <2> QED
    BY <2>1, <2>2, <2>3 DEF Ancestors
<1>8. ASSUME NEW q \in Path, q \in Prefixes(p) \ {Root}
      PROVE  q \in after <=> q \in (before \ gone) \cup {x \in covered : tree[x] # Obj} \cup empty
  <2>1. q \in DOMAIN containers' /\ ~IsStrictPrefix(p, q)
    <3>1. p \in DOMAIN containers'
      BY DEF Exists
    <3>2. q = p \/ q \in Ancestors(p)
      BY <1>8 DEF Ancestors
    <3>3. q \in DOMAIN containers'
      BY <1>1, <3>1, <3>2 DEF Tables, ParentsIn
    <3>4. ~IsStrictPrefix(p, q)
      BY <1>7, <1>8, PrefixOrder DEF IsStrictPrefix
    <3> QED
      BY <3>3, <3>4
  <2>2. q \in after <=> Under(containers, primitives, q)
    BY <2>1, <1>3, <1>5 DEF HiddenIn
  <2>3. q \notin gone
    BY <2>1
  <2>4. CASE q \in DOMAIN containers
    <3>1. q \in before <=> Under(containers, primitives, q)
      BY <1>3, <2>4 DEF HiddenIn
    <3>2. tree[q] = Obj
      BY <2>4, <1>1, <1>2, UnderNodes
    <3> QED
      BY <2>2, <2>3, <3>1, <3>2
  <2>5. CASE q \notin DOMAIN containers
    <3>1. q \notin before
      BY <1>3, <2>5 DEF HiddenIn
    <3>2. /\ q \in DOMAIN tree <=> Under(containers, primitives, q)
          /\ q \in DOMAIN tree => ChildlessIn(tree, q)
      BY <2>5, <1>1, <1>2, UnderNodes
    <3>3. q \in covered <=> Under(containers, primitives, q)
      BY <1>8, <3>2 DEF ChildlessIn
    <3> QED
      BY <2>2, <3>1, <3>3
  <2> QED
    BY <2>4, <2>5
<1>9. ASSUME NEW q \in Path, q \notin Prefixes(p) \ {Root}
      PROVE  q \in after <=> q \in before \ gone
  <2>1. CASE q = Root
    BY <2>1, <1>6
  <2>2. CASE IsStrictPrefix(p, q)
    BY <2>2
  <2>3. CASE q # Root /\ ~IsStrictPrefix(p, q)
    <3>1. ~IsPrefix(q, p) /\ ~IsPrefix(p, q)
      BY <1>7, <1>9, <2>3, PrefixOrder DEF IsStrictPrefix
    <3>2. q \in DOMAIN containers' <=> q \in DOMAIN containers
      BY <3>1 DEF Frame, Retained
    <3> QED
      BY <2>3, <3>2, <1>3, <1>5 DEF HiddenIn
  <2> QED
    BY <2>1, <2>2, <2>3
<1>10. after = (before \ gone) \cup {x \in covered : tree[x] # Obj} \cup empty
  <2>1. covered \subseteq Path \cap (Prefixes(p) \ {Root}) /\ empty \subseteq covered
    BY <1>7
  <2> QED
    BY <1>4, <1>8, <1>9, <2>1
<1>11. HidesIn(tree, p, before \ gone, after)
  <2>1. empty \in SUBSET {q \in covered : tree[q] = Obj}
    OBVIOUS
  <2> QED
    BY <1>10, <2>1 DEF HidesIn
<1> QED
  BY <1>11, HideNames

-----------------------------------------------------------------------------
(* What a call spoils *)

\* A call may spoil what is above its path, and no other path.
LEMMA OthersSpoilt ==
    ASSUME RInv, IInv', IInv, Next, Edit(call'.path), NEW q \in DocPaths, q # call'.path,
           Armed(q)', ~Fresh(q)'
    PROVE  (Armed(q) /\ ~Fresh(q)) \/ q \in Ancestors(call'.path)
<1>1. q \in Path /\ call'.path \in Path
  BY EngineAssumption, NextEdits
<1>2. q \in DOMAIN hashes' /\ q \in DOMAIN hashes /\ hashes'[q] = hashes[q]
  <2>1. q \in DOMAIN hashes'
    BY DEF Armed
  <2> QED
    BY <2>1, NextHashes
<1>3. CASE IsStrictPrefix(q, call'.path)
  BY <1>1, <1>3, AncestorChar DEF IsStrictPrefix
<1>4. CASE ~IsStrictPrefix(q, call'.path)
  <2>1. Armed(q) /\ Extract(q)' = Extract(q)
    BY <1>1, <1>2, <1>4, OtherHashesStay
  <2>2. Fresh(q)' <=> Extract(q)' = Content(hashes'[q].text)
    BY DEF Fresh
  <2> QED
    BY <1>2, <2>1, <2>2 DEF Fresh
<1> QED
  BY <1>3, <1>4

\* A step at p spoils no path but p, and p only if its hash counts and lies after it.
LEMMA StepSpoils ==
    ASSUME TInv, TInv', Next, NEW p, p = call'.path, Edit(p)
    PROVE  /\ Tree!Spoil(p, {q \in DocPaths : Armed(q) /\ ~Fresh(q)} \cup {p})
           /\ ~(Armed(p)' /\ ~Fresh(p)') =>
                 Tree!Spoil(p, {q \in DocPaths : Armed(q) /\ ~Fresh(q)} \ {p})
<1>1. RInv /\ IInv /\ IInv'
  BY TInvTables
<1>2. ASSUME NEW q \in DocPaths, Armed(q)', ~Fresh(q)'
      PROVE  q = p \/ (Armed(q) /\ ~Fresh(q)) \/ q \in Ancestors(p)
  BY <1>1, <1>2, OthersSpoilt
<1>3. {q \in DocPaths : Armed(q) /\ ~Fresh(q)}' = {q \in DocPaths : Armed(q)' /\ ~Fresh(q)'}
  OBVIOUS
<1>4. \A rest : Tree!Spoil(p, rest) <=>
         {q \in DocPaths : Armed(q)' /\ ~Fresh(q)'} \subseteq rest \cup Ancestors(p)
  BY <1>3, TreeNames DEF Tree!Spoil
<1> QED
  BY <1>2, <1>4

\* What is merged into a scalar, an empty object or nothing is what is there then.
LEMMA MergeIntoLeaf ==
    ASSUME NEW c, DOMAIN c \subseteq {Root}, NEW u, IsText(u), u[Root] = Obj
    PROVE  Content(Merge(c, u)) = Content(u)
<1> PICK a, b : /\ a = Restrict(u, {x \in DOMAIN u : Copied(c, u, x)})
                /\ b = Restrict(c, {x \in DOMAIN c : Survives(c, u, x)})
  OBVIOUS
<1>1. Root \in DOMAIN u /\ Obj # Null
  BY ItemAssumption DEF IsText
<1>2. DOMAIN a = {x \in DOMAIN u : Copied(c, u, x)} /\ \A x \in DOMAIN a : a[x] = u[x]
  BY DEF Restrict
<1>3. DOMAIN b \subseteq {Root}
  BY DEF Restrict
<1>4. \A x \in DOMAIN u : u[x] # Null => x \in DOMAIN a
  BY <1>2 DEF Copied
<1> PICK m : m = Merge(c, u)
  OBVIOUS
<1>5. DOMAIN m = DOMAIN a /\ \A x \in DOMAIN m : m[x] = u[x]
  <2>1. Root \in DOMAIN a
    BY <1>1, <1>4
  <2>2. m = Override(a, b)
    BY DEF Merge
  <2>3. DOMAIN m = DOMAIN a \cup DOMAIN b /\ \A x \in DOMAIN a : m[x] = a[x]
    BY <2>2 DEF Override
  <2> QED
    BY <2>1, <2>3, <1>2, <1>3
<1>6. {x \in DOMAIN m : m[x] # Null} = {x \in DOMAIN u : u[x] # Null}
  BY <1>2, <1>4, <1>5
<1>7. \A x \in {x \in DOMAIN u : u[x] # Null} : m[x] = u[x]
  BY <1>4, <1>5
<1>8. Content(m) = Content(u)
  BY <1>6, <1>7 DEF Content, Restrict
<1> QED
  BY <1>8

-----------------------------------------------------------------------------
(* The writers *)

\* Where the rows of a text are, no container stands over anything.
LEMMA HeldHidesNothing ==
    ASSUME NEW c, NEW r, NEW p \in Path, NEW t, IsText(t), NEW limit, Holds(c, r, p, t, limit),
           NEW y \in Path, y # Root, p \o y \in DOMAIN c
    PROVE  ~Under(c, r, p \o y)
<1>1. y \in ContainerPaths(t, limit) /\ (p \o y \in DOMAIN r <=> y \in PrimitivePaths(t, limit))
  BY DEF Holds
<1>2. y \in DedicatedPaths(t, limit) /\ t[y] = Obj
  BY <1>1 DEF ContainerPaths
<1>3. p \o y \notin DOMAIN r
  BY <1>1, <1>2 DEF PrimitivePaths
<1>4. ASSUME Inlined(c, p \o y) PROVE FALSE
  <2>1. /\ p \o y # Root /\ Front(y) \in Path
        /\ Front(p \o y) = p \o Front(y) /\ Last(p \o y) = Last(y)
    BY FrontBelow
  <2>2. p \o Front(y) \in DOMAIN c /\ Last(y) \in DOMAIN c[p \o Front(y)].inline
    BY <1>4, <2>1 DEF Inlined
  <2>3. Front(y) \in ContainerPaths(t, limit) /\ c[p \o Front(y)].inline = InlineEntries(t, Front(y), limit)
    BY <2>1, <2>2 DEF Holds
  <2>4. Append(Front(y), Last(y)) \in InlinePaths(t, limit)
    BY <2>2, <2>3 DEF InlineEntries
  <2>5. y \in InlinePaths(t, limit)
    BY <2>4, SplitLast
  <2> QED
    BY <1>2, <2>5 DEF InlinePaths, DedicatedPaths
<1> QED
  BY <1>3, <1>4 DEF Under

\* A call that leaves the rows of a text at p writes it on the tree.
LEMMA HeldIsWritten ==
    ASSUME TInv, TInv', NEW p \in Path, Frame(p), p \in DOMAIN primitives' <=> p \in DOMAIN primitives,
           NEW t, IsText(t), t[Root] = Obj, NEW limit, Holds(containers', primitives', p, t, limit),
           NEW u, u = Content(t)
    PROVE  Tree!Write(p, u) /\ Extract(p)' = u
<1>1. IInv /\ IInv' /\ Tables(containers', primitives')
  BY TInvTables
<1>2. Extract(p)' = u
  <2>1. ContainersOK(containers') /\ PrimitivesOK(primitives')
    BY <1>1 DEF Tables
  <2>2. TextOf(containers', primitives', p) = Content(t)
    BY <2>1, HeldIsRead
  <2> QED
    BY <2>2, ExtractIsTextOf
<1>3. Exists(p)'
  <2>1. Root \in ContainerPaths(t, limit) /\ Root \in Path /\ p \o Root = p
    BY RootIsPath, ConcatChar DEF ContainerPaths
  <2> QED
    BY <2>1 DEF Holds, Exists
<1> PICK tree, new : tree = Extract(Root) /\ new = Extract(Root)'
  OBVIOUS
<1>4. new = GraftedOn(tree, p, u)
  BY <1>2, <1>3, StepGrafts
<1>5. Extract(Root)' = Tree!Grafted(p, u)
  BY <1>4, TreeOperators
<1> PICK before, after : /\ before = {q \in DOMAIN containers : Hides(q)}
                         /\ after = {q \in DOMAIN containers : Hides(q)}'
  OBVIOUS
<1> PICK gone : gone = {q \in before : IsStrictPrefix(p, q)}
  OBVIOUS
<1>6. ASSUME NEW q \in Path, IsStrictPrefix(p, q), q \in after PROVE FALSE
  <2>1. after = HiddenIn(containers', primitives')
    BY <1>1, HiddenNames
  <2>2. q \in DOMAIN containers' /\ Under(containers', primitives', q)
    BY <1>6, <2>1 DEF HiddenIn
  <2>3. PICK y \in Path : q = p \o y
    BY <1>6, RelChar DEF IsStrictPrefix
  <2>4. y # Root
    BY <1>6, <2>3, ConcatChar DEF IsStrictPrefix
  <2>5. ~Under(containers', primitives', p \o y)
    BY <2>2, <2>3, <2>4, HeldHidesNothing
  <2> QED
    BY <2>2, <2>3, <2>5
<1>7. Tree!Hide(p, before \ gone)
  <2>1. \A q \in gone : IsStrictPrefix(p, q)
    OBVIOUS
  <2>2. \A q \in Path : IsStrictPrefix(p, q) => (q \in after <=> q \in before \ gone)
    BY <1>6
  <2> QED
    BY <2>1, <2>2, <1>3, StepHides
<1>8. Tree!Below(p) = gone
  BY TreeNames DEF Tree!Below
<1> QED
  BY <1>2, <1>5, <1>7, <1>8 DEF Tree!Write

\* The row without a slash at p stays.
LEMMA RowStays ==
    ASSUME NEW p \in Path, NEW t, IsText(t), NEW limit, NEW rev, NEW nr,
           NEW r, r = Override(PrimitiveRows(p, t, limit, rev, nr), Restrict(primitives, OutsideStrictly(p)))
    PROVE  p \in DOMAIN r <=> p \in DOMAIN primitives
<1>1. PrimitivePaths(t, limit) \subseteq Path
  BY FlattenTypes
<1>2. Root \notin PrimitivePaths(t, limit)
  BY DEF PrimitivePaths, DedicatedPaths, Stored
<1>3. \A x \in PrimitivePaths(t, limit) : p \o x # p
  BY <1>1, <1>2, ConcatChar
<1>4. p \notin DOMAIN PrimitiveRows(p, t, limit, rev, nr)
  BY <1>3 DEF PrimitiveRows
<1>5. DOMAIN Restrict(primitives, OutsideStrictly(p)) = OutsideStrictly(p)
  BY DEF Restrict
<1>6. p \in OutsideStrictly(p) <=> p \in DOMAIN primitives
  BY DEF OutsideStrictly, IsStrictPrefix
<1>7. DOMAIN r = DOMAIN PrimitiveRows(p, t, limit, rev, nr) \cup DOMAIN Restrict(primitives, OutsideStrictly(p))
  BY DEF Override
<1> QED
  BY <1>4, <1>5, <1>6, <1>7

\* What a set or an update leaves below p are the rows of the text it wrote.
LEMMA WriteTextHolds ==
    ASSUME NEW p \in Path, NEW t, IsText(t), NEW limit, WriteText(p, t, limit)
    PROVE  /\ Holds(containers', primitives', p, t, limit)
           /\ p \in DOMAIN primitives' <=> p \in DOMAIN primitives
<1> PICK rev, nr : /\ rev = clock + 1
                   /\ nr = RevisionNr(EnsureIntermediate(Restrict(containers, Outside(p)), p, rev), p) + 1
  OBVIOUS
<1> PICK w, v : /\ w = ContainerRows(p, t, limit, rev, nr)
                /\ v = PrimitiveRows(p, t, limit, rev, nr)
  OBVIOUS
<1>1. /\ containers' = Override(w, EnsureIntermediate(Restrict(containers, Outside(p)), p, rev))
      /\ primitives' = Override(v, Restrict(primitives, OutsideStrictly(p)))
  BY DEF WriteText
<1>2. Flattened(w, v, p, t, limit)
  BY FlattenedRows
<1>3. Holds(containers', primitives', p, t, limit)
  BY <1>1, <1>2, WrittenIsHeld
<1>4. p \in DOMAIN primitives' <=> p \in DOMAIN primitives
  BY <1>1, RowStays
<1> QED
  BY <1>3, <1>4

\* A write that records the hash of what it wrote settles its path.
LEMMA TextIsWritten ==
    ASSUME TInv, TInv', Next, NEW p \in Path, p = call'.path, NEW t, IsText(t), t[Root] = Obj,
           NEW limit, WriteText(p, t, limit), NEW u, u = Content(t)
    PROVE  /\ Tree!Write(p, u)
           /\ Tree!Spoil(p, {q \in DocPaths : Armed(q) /\ ~Fresh(q)} \ {p})
<1>1. IInv
  BY TInvTables
<1>2. Edit(p)
  BY <1>1, WriteTextEdit
<1>3. Frame(p)
  BY <1>2 DEF Edit
<1>4. /\ Holds(containers', primitives', p, t, limit)
      /\ p \in DOMAIN primitives' <=> p \in DOMAIN primitives
  BY WriteTextHolds
<1>5. Tree!Write(p, u) /\ Extract(p)' = u
  BY <1>3, <1>4, HeldIsWritten
<1>6. hashes'[p].text = t
  BY DEF WriteText, Override
<1>7. Fresh(p)'
  <2>1. Fresh(p)' <=> Extract(p)' = Content(hashes'[p].text)
    BY DEF Fresh
  <2> QED
    BY <1>5, <1>6, <2>1
<1> QED
  BY <1>2, <1>5, <1>7, StepSpoils

\* Nothing changes but the call.
LEMMA TreeStays ==
    ASSUME UNCHANGED <<containers, primitives, hashes>>
    PROVE  UNCHANGED <<Extract(Root), {q \in DOMAIN containers : Hides(q)},
                       {q \in DocPaths : Armed(q) /\ ~Fresh(q)}>>
<1>1. \A q : /\ Extract(q)' = TextOf(containers', primitives', q)
             /\ Extract(q) = TextOf(containers, primitives, q)
  BY ExtractIsTextOf
<1>2. ASSUME NEW q PROVE Extract(q)' = Extract(q)
  BY <1>1
<1>3. Extract(Root)' = Extract(Root)
  BY <1>2
<1>4. \A q : Armed(q)' = Armed(q) /\ Fresh(q)' = Fresh(q)
  BY <1>2 DEF Armed, Fresh
<1>5. \A q : Hides(q)' = Hides(q)
  BY DEF Hides, InlineAt
<1> QED
  BY <1>3, <1>4, <1>5

\* The value at p, in the engine's terms.
LEMMA TreeAt ==
    ASSUME TInv, NEW p \in Path
    PROVE  /\ Exists(p) => Tree!At(p) = Extract(p)
           /\ ~Exists(p) => DOMAIN Tree!At(p) \subseteq {Root}
<1>1. Tables(containers, primitives)
  BY TInvTables
<1> PICK tree, at : tree = Extract(Root) /\ at = AtOf(tree, p)
  OBVIOUS
<1>2. tree = TextOf(containers, primitives, Root)
  BY ExtractIsTextOf
<1>3. /\ p \in DOMAIN containers => at = TextOf(containers, primitives, p)
      /\ p \notin DOMAIN containers => DOMAIN at \subseteq {Root}
  BY <1>1, <1>2, AtIsText
<1>4. Tree!At(p) = at
  BY TreeOperators
<1> QED
  BY <1>3, <1>4, ExtractIsTextOf DEF Exists

\* he_set_json, skipped or not, is a Set of the tree.
LEMMA SetEditsTree ==
    ASSUME TInv, TInv', Next, NEW p \in DocPaths, NEW t \in Texts, NEW limit \in Limits, SetJson(p, t, limit)
    PROVE  Tree!Set(p, t)
<1>1. p \in Path /\ IsText(t) /\ t[Root] = Obj /\ call'.path = p
  BY EngineAssumption DEF SetJson, Called
<1>2. Tree!Called("set", p, t)
  BY DEF SetJson, Called, Tree!Called
<1>3. CASE DedupHit(p, t, limit)
  <2>1. UNCHANGED <<containers, primitives, hashes>>
    BY <1>3 DEF SetJson
  <2>2. UNCHANGED <<Extract(Root), {q \in DOMAIN containers : Hides(q)},
                    {q \in DocPaths : Armed(q) /\ ~Fresh(q)}>>
    BY <2>1, TreeStays
  <2>3. Armed(p) /\ Exists(p) /\ hashes[p].text = t
    BY <1>3 DEF DedupHit, Armed, Exists
  <2>4. p \in {q \in DocPaths : Armed(q) /\ ~Fresh(q)} \/ Tree!At(p) = Content(t)
    BY <1>1, <2>3, TreeAt DEF Fresh
  <2> QED
    BY <1>2, <2>2, <2>4, TreeNames DEF Tree!Set
<1>4. CASE ~DedupHit(p, t, limit)
  <2>1. WriteText(p, t, limit)
    BY <1>4 DEF SetJson
  <2> PICK u : u = Content(t)
    OBVIOUS
  <2>2. /\ Tree!Write(p, u)
        /\ Tree!Spoil(p, {q \in DocPaths : Armed(q) /\ ~Fresh(q)} \ {p})
    BY <1>1, <2>1, TextIsWritten
  <2>3. Tree!Content(t) = u
    BY TreeNames
  <2> QED
    BY <1>2, <2>2, <2>3 DEF Tree!Set
<1> QED
  BY <1>3, <1>4

\* The full path of he_update_json is an UpdateFull of the tree.
LEMMA FullEditsTree ==
    ASSUME TInv, TInv', Next, NEW p \in DocPaths, NEW u \in Updates, UpdateFull(p, u)
    PROVE  Tree!UpdateFull(p, u)
<1>1. p \in Path /\ IsText(u) /\ u[Root] = Obj /\ call'.path = p /\ IInv
  BY EngineAssumption, TInvTables DEF UpdateFull, Called
<1>2. Tree!Called("full", p, u)
  BY DEF UpdateFull, Called, Tree!Called
<1> PICK m : m = IF Exists(p) THEN Merge(Extract(p), u) ELSE u
  OBVIOUS
<1>3. IsText(m) /\ m[Root] = Obj
  BY <1>1, ExtractIsText, MergeIsText
<1>4. WriteText(p, m, DefaultLimit)
  BY DEF UpdateFull
<1> PICK v : v = Content(m)
  OBVIOUS
<1>5. /\ Tree!Write(p, v)
      /\ Tree!Spoil(p, {q \in DocPaths : Armed(q) /\ ~Fresh(q)} \ {p})
  BY <1>1, <1>3, <1>4, TextIsWritten
<1> PICK at : at = Tree!At(p)
  OBVIOUS
<1>6. v = Content(Merge(at, u))
  <2>1. CASE Exists(p)
    BY <1>1, <2>1, TreeAt
  <2>2. CASE ~Exists(p)
    <3>1. DOMAIN at \subseteq {Root}
      BY <1>1, <2>2, TreeAt
    <3> QED
      BY <1>1, <2>2, <3>1, MergeIntoLeaf
  <2> QED
    BY <2>1, <2>2
<1>7. v = Tree!Content(Tree!Merge(Tree!At(p), u))
  BY <1>6, TreeNames
<1> QED
  BY <1>2, <1>5, <1>7 DEF Tree!UpdateFull

\* The wildcard path of he_update_json is an UpdateWildcard of the tree.
LEMMA WildcardEditsTree ==
    ASSUME TInv, TInv', Next, NEW p \in DocPaths, NEW u \in Updates, UpdateWildcard(p, u)
    PROVE  Tree!UpdateWildcard(p, u)
<1>1. p \in Path /\ IsText(u) /\ u[Root] = Obj /\ call'.path = p /\ IInv /\ Exists(p)
  BY EngineAssumption, TInvTables DEF UpdateWildcard, Called
<1>2. Tree!Called("wildcard", p, u)
  BY DEF UpdateWildcard, Called, Tree!Called
<1> PICK at : at = Extract(p)
  OBVIOUS
<1> PICK m : m = Merge(at, EachChild(at, u))
  OBVIOUS
<1>3. IsText(m) /\ m[Root] = Obj
  BY <1>1, ExtractIsText, EachChildIsText, MergeIsText
<1>4. WriteText(p, m, DefaultLimit)
  BY DEF UpdateWildcard
<1> PICK v : v = Content(m)
  OBVIOUS
<1>5. /\ Tree!Write(p, v)
      /\ Tree!Spoil(p, {q \in DocPaths : Armed(q) /\ ~Fresh(q)} \ {p})
  BY <1>1, <1>3, <1>4, TextIsWritten
<1>6. Tree!At(p) = at
  BY <1>1, TreeAt
<1>7. v = Tree!Content(Tree!Merge(Tree!At(p), Tree!EachChild(Tree!At(p), u)))
  BY <1>6, TreeNames
<1> QED
  BY <1>2, <1>5, <1>7 DEF Tree!UpdateWildcard

-----------------------------------------------------------------------------
(* Import *)

\* What an import of t loses: what is inlined in the root row.
LostOnImport(t, limit) == {x \in InlinePaths(t, limit) : Front(x) = Root}

\* What an import loses are childless entries of the root.
LEMMA LostAreLeaves ==
    ASSUME NEW t, IsText(t), NEW limit, NEW lost, lost = LostOnImport(t, limit)
    PROVE  /\ \A x \in lost : /\ x \in DOMAIN t /\ x \in Path /\ Len(x) = 1
                              /\ t[x] # Null /\ ChildPaths(t, x) = {}
           /\ Root \notin lost
           /\ \A x \in lost, y \in DOMAIN t : ~IsStrictPrefix(x, y)
<1>1. ASSUME NEW x \in lost
      PROVE  x \in DOMAIN t /\ x \in Path /\ x # Root /\ Front(x) = Root /\ t[x] # Null /\ FitsInline(t, x, limit)
  BY DEF LostOnImport, InlinePaths, Stored, IsText
<1>2. ASSUME NEW x \in lost, NEW y \in DOMAIN t, x \in Ancestors(y) PROVE FALSE
  <2>1. t[x] = Obj
    BY <1>2 DEF IsText
  <2>2. ChildPaths(t, x) = {}
    BY <2>1, <1>1 DEF FitsInline
  <2> QED
    BY <1>2, <2>2, ParentHasChild
<1>3. ASSUME NEW x \in lost, NEW y \in DOMAIN t PROVE ~IsStrictPrefix(x, y)
  <2>1. x \in Path /\ y \in Path
    BY <1>1 DEF IsText
  <2> QED
    BY <1>2, <2>1, AncestorChar DEF IsStrictPrefix
<1>4. ASSUME NEW x \in lost PROVE ChildPaths(t, x) = {}
  <2> SUFFICES ASSUME NEW y \in ChildPaths(t, x) PROVE FALSE
    OBVIOUS
  <2>1. y \in DOMAIN t /\ y \in Path /\ y # Root /\ Front(y) = x
    BY DEF ChildPaths, IsText
  <2>2. IsPrefix(x, y) /\ Len(x) = Len(y) - 1 /\ Len(y) \in Nat
    BY <2>1, SplitLast DEF Path
  <2>3. x # y
    BY <2>2
  <2> QED
    BY <1>3, <2>1, <2>2, <2>3 DEF IsStrictPrefix
<1>5. ASSUME NEW x \in lost PROVE Len(x) = 1
  <2>1. Len(Front(x)) = Len(x) - 1 /\ Len(x) \in Nat
    BY <1>1, SplitLast DEF Path
  <2> QED
    BY <1>1, <2>1, RootIsPath
<1> QED
  BY <1>1, <1>3, <1>4, <1>5

\* Without them, t is flattened to the same rows, with nothing inlined at the root.
LEMMA LessFlattens ==
    ASSUME NEW t, IsText(t), NEW limit, NEW lost, lost = LostOnImport(t, limit),
           NEW s, s = Restrict(t, DOMAIN t \ lost)
    PROVE  /\ IsText(s) /\ s[Root] = t[Root]
           /\ ContainerPaths(s, limit) = ContainerPaths(t, limit)
           /\ PrimitivePaths(s, limit) = PrimitivePaths(t, limit)
           /\ \A x \in PrimitivePaths(t, limit) : s[x] = t[x]
           /\ InlineEntries(s, Root, limit) = Nothing
           /\ \A x \in Path : x # Root => InlineEntries(s, x, limit) = InlineEntries(t, x, limit)
<1>1. DOMAIN s = DOMAIN t \ lost /\ \A x \in DOMAIN s : s[x] = t[x]
  BY DEF Restrict
<1>2. /\ Root \notin lost
      /\ \A x \in lost, y \in DOMAIN t : ~IsStrictPrefix(x, y)
  BY LostAreLeaves
<1>3. IsText(s) /\ s[Root] = t[Root]
  BY <1>2, LessIsText
<1>4. ASSUME NEW x, x # Root PROVE ChildPaths(s, x) = ChildPaths(t, x)
  BY <1>1, <1>4 DEF ChildPaths, LostOnImport
<1>5. ASSUME NEW x \in DOMAIN s, x # Root
      PROVE  /\ FitsInline(s, x, limit) <=> FitsInline(t, x, limit)
             /\ Stored(s, x) <=> Stored(t, x)
  BY <1>1, <1>4, <1>5 DEF FitsInline, Stored
<1>6. InlinePaths(s, limit) = InlinePaths(t, limit) \ lost
  BY <1>1, <1>5 DEF InlinePaths, Stored
<1>7. DedicatedPaths(s, limit) = DedicatedPaths(t, limit)
  <2>1. \A x \in DedicatedPaths(t, limit) : x \in DOMAIN s
    BY <1>1 DEF DedicatedPaths, LostOnImport, InlinePaths
  <2> QED
    BY <1>1, <1>5, <2>1 DEF DedicatedPaths, Stored
<1>8. \A x \in DedicatedPaths(t, limit) : s[x] = t[x]
  BY <1>1, <1>7 DEF DedicatedPaths
<1>9. /\ ContainerPaths(s, limit) = ContainerPaths(t, limit)
      /\ PrimitivePaths(s, limit) = PrimitivePaths(t, limit)
      /\ \A x \in PrimitivePaths(t, limit) : s[x] = t[x]
  BY <1>7, <1>8 DEF ContainerPaths, PrimitivePaths
<1>10. ASSUME NEW x \in Path, x # Root PROVE InlineEntries(s, x, limit) = InlineEntries(t, x, limit)
  <2>1. \A k \in Keys : Append(x, k) \notin lost
    BY <1>10, FrontOfAppend DEF LostOnImport
  <2>2. \A k \in Keys : Append(x, k) \in InlinePaths(s, limit) <=> Append(x, k) \in InlinePaths(t, limit)
    BY <1>6, <2>1
  <2>3. \A k \in Keys : Append(x, k) \in InlinePaths(s, limit) => s[Append(x, k)] = t[Append(x, k)]
    BY <1>1 DEF InlinePaths
  <2> QED
    BY <2>2, <2>3 DEF InlineEntries
<1>11. InlineEntries(s, Root, limit) = Nothing
  <2>1. \A k \in Keys : Append(Root, k) \notin InlinePaths(s, limit)
    BY <1>6, RootIsPath, FrontOfAppend DEF LostOnImport
  <2> QED
    BY <2>1 DEF InlineEntries, Nothing
<1> QED
  BY <1>3, <1>9, <1>10, <1>11

\* A text without what the import loses reads as its content without it.
LEMMA LessReads ==
    ASSUME NEW t, IsText(t), NEW limit, NEW lost, lost = LostOnImport(t, limit),
           NEW s, s = Restrict(t, DOMAIN t \ lost)
    PROVE  /\ Content(s) = Restrict(Content(t), DOMAIN Content(t) \ lost)
           /\ lost = {} => Content(s) = Content(t)
           /\ \A x \in lost : x \in DOMAIN Content(t) /\ Len(x) = 1 /\ ChildPaths(Content(t), x) = {}
<1> PICK u : u = Content(t)
  OBVIOUS
<1>1. DOMAIN s = DOMAIN t \ lost /\ \A x \in DOMAIN s : s[x] = t[x]
  BY DEF Restrict
<1>2. DOMAIN u = {x \in DOMAIN t : t[x] # Null} /\ \A x \in DOMAIN u : u[x] = t[x]
  BY DEF Content, Restrict
<1>3. Content(s) = [x \in {x \in DOMAIN s : s[x] # Null} |-> s[x]]
  BY DEF Content, Restrict
<1>4. Restrict(u, DOMAIN u \ lost) = [x \in DOMAIN u \ lost |-> u[x]]
  BY DEF Restrict
<1>5. {x \in DOMAIN s : s[x] # Null} = DOMAIN u \ lost
  BY <1>1, <1>2
<1>6. \A x \in DOMAIN u \ lost : s[x] = u[x]
  BY <1>1, <1>2
<1>7. Content(s) = Restrict(u, DOMAIN u \ lost)
  BY <1>3, <1>4, <1>5, <1>6
<1>8. ASSUME lost = {} PROVE Content(s) = u
  <2>1. u = [x \in DOMAIN u |-> u[x]]
    BY DEF Content, Restrict
  <2>2. DOMAIN u \ lost = DOMAIN u
    BY <1>8
  <2> QED
    BY <1>4, <1>7, <2>1, <2>2
<1>9. ASSUME NEW x \in lost PROVE x \in DOMAIN u /\ Len(x) = 1 /\ ChildPaths(u, x) = {}
  <2>1. x \in DOMAIN t /\ Len(x) = 1 /\ t[x] # Null /\ ChildPaths(t, x) = {}
    BY LostAreLeaves
  <2> QED
    BY <1>2, <2>1 DEF ChildPaths
<1> QED
  BY <1>7, <1>8, <1>9

\* What an import leaves below p are the rows of the text without what it loses.
LEMMA ImportHolds ==
    ASSUME NEW p \in Path, NEW t, IsText(t), NEW limit, ImportCsv(p, t, limit),
           NEW s, s = Restrict(t, DOMAIN t \ LostOnImport(t, limit))
    PROVE  /\ Holds(containers', primitives', p, s, limit)
           /\ p \in DOMAIN primitives' <=> p \in DOMAIN primitives
<1> PICK rev, nr : /\ rev = clock + 1
                   /\ nr = RevisionNr(EnsureIntermediate(Restrict(containers, Outside(p)), p, rev), p) + 1
  OBVIOUS
<1> PICK root, rows, v, e : /\ root = RootRow(p, rev, nr)
                            /\ rows = ContainerRows(p, t, limit, rev, nr)
                            /\ v = PrimitiveRows(p, t, limit, rev, nr)
                            /\ e = EnsureIntermediate(Restrict(containers, Outside(p)), p, rev)
  OBVIOUS
<1> PICK w : w = Override(root, rows)
  OBVIOUS
<1>1. /\ containers' = Override(root, Override(rows, e))
      /\ primitives' = Override(v, Restrict(primitives, OutsideStrictly(p)))
  BY DEF ImportCsv
<1>2. containers' = Override(w, e)
  BY <1>1, OverrideTwice
<1>3. Flattened(rows, v, p, t, limit)
  BY FlattenedRows
<1>4. DOMAIN root = {p} /\ root[p].inline = Nothing
  BY DEF RootRow
<1>5. /\ DOMAIN w = DOMAIN root \cup DOMAIN rows
      /\ \A q \in DOMAIN root : w[q] = root[q]
      /\ \A q \in DOMAIN rows : q \notin DOMAIN root => w[q] = rows[q]
  BY DEF Override
<1>6. Root \in ContainerPaths(t, limit) /\ p \o Root = p /\ ContainerPaths(t, limit) \subseteq Path
  BY RootIsPath, ConcatChar, FlattenTypes DEF ContainerPaths
<1>7. /\ IsText(s)
      /\ ContainerPaths(s, limit) = ContainerPaths(t, limit)
      /\ PrimitivePaths(s, limit) = PrimitivePaths(t, limit)
      /\ \A x \in PrimitivePaths(t, limit) : s[x] = t[x]
      /\ InlineEntries(s, Root, limit) = Nothing
      /\ \A x \in Path : x # Root => InlineEntries(s, x, limit) = InlineEntries(t, x, limit)
  BY LessFlattens
<1>8. DOMAIN w = {p \o x : x \in ContainerPaths(s, limit)}
  BY <1>3, <1>4, <1>5, <1>6, <1>7 DEF Flattened
<1>9. ASSUME NEW x \in ContainerPaths(s, limit) PROVE w[p \o x].inline = InlineEntries(s, x, limit)
  <2>0. x \in Path /\ x \in ContainerPaths(t, limit)
    BY <1>6, <1>7
  <2>1. CASE x = Root
    <3>1. w[p \o x].inline = Nothing
      BY <2>1, <1>4, <1>5, <1>6
    <3>2. InlineEntries(s, x, limit) = Nothing
      BY <2>1, <1>7
    <3> QED
      BY <3>1, <3>2
  <2>2. CASE x # Root
    <3>1. p \o x # p
      BY <2>0, <2>2, ConcatChar
    <3>2. w[p \o x] = rows[p \o x] /\ rows[p \o x].inline = InlineEntries(t, x, limit)
      BY <2>0, <3>1, <1>3, <1>4, <1>5 DEF Flattened
    <3>3. InlineEntries(s, x, limit) = InlineEntries(t, x, limit)
      BY <2>0, <2>2, <1>7
    <3> QED
      BY <3>2, <3>3
  <2> QED
    BY <2>1, <2>2
<1>10. Flattened(w, v, p, s, limit)
  BY <1>3, <1>7, <1>8, <1>9 DEF Flattened
<1>11. Holds(containers', primitives', p, s, limit)
  BY <1>1, <1>2, <1>7, <1>10, WrittenIsHeld
<1>12. p \in DOMAIN primitives' <=> p \in DOMAIN primitives
  BY <1>1, RowStays
<1> QED
  BY <1>11, <1>12

\* he_import_csv is an Import of the tree.
LEMMA ImportEditsTree ==
    ASSUME TInv, TInv', Next, NEW p \in DocPaths, NEW t \in Texts, NEW limit \in Limits,
           ImportCsv(p, t, limit)
    PROVE  Tree!Import(p, t)
<1>1. p \in Path /\ IsText(t) /\ t[Root] = Obj /\ call'.path = p /\ IInv
  BY EngineAssumption, TInvTables DEF ImportCsv, Called
<1>2. Tree!Called("import", p, t)
  BY DEF ImportCsv, Called, Tree!Called
<1> PICK lost, s : lost = LostOnImport(t, limit) /\ s = Restrict(t, DOMAIN t \ lost)
  OBVIOUS
<1> PICK u, v : u = Content(t) /\ v = Content(s)
  OBVIOUS
<1>3. IsText(s) /\ s[Root] = Obj
  <2>1. IsText(t)
    BY <1>1
  <2>2. lost = LostOnImport(t, limit)
    OBVIOUS
  <2>3. s = Restrict(t, DOMAIN t \ lost)
    OBVIOUS
  <2>4. IsText(s)
    BY <2>1, <2>2, <2>3, LessFlattens
  <2>5. s[Root] = t[Root]
    <3>1. Root \in DOMAIN t \ lost
      BY <2>1, <2>2 DEF IsText, LostOnImport, InlinePaths, Stored
    <3> QED
      BY <2>3, <3>1 DEF Restrict
  <2> QED
    BY <1>1, <2>4, <2>5
<1>4. /\ Holds(containers', primitives', p, s, limit)
      /\ p \in DOMAIN primitives' <=> p \in DOMAIN primitives
  BY <1>1, ImportHolds
<1>5. Edit(p)
  BY <1>1, ImportEdit
<1>6. Tree!Write(p, v) /\ Extract(p)' = v
  <2>1. Frame(p)
    BY <1>5 DEF Edit
  <2> QED
    BY <1>1, <1>3, <1>4, <2>1, HeldIsWritten
<1>7. /\ v = Restrict(u, DOMAIN u \ lost)
      /\ lost = {} => v = u
      /\ \A x \in lost : x \in DOMAIN u /\ Len(x) = 1 /\ ChildPaths(u, x) = {}
  BY <1>1, LessReads
<1>8. hashes'[p].text = u
  BY DEF ImportCsv, Override
<1>9. lost = {} => Fresh(p)'
  <2>1. Fresh(p)' <=> Extract(p)' = Content(hashes'[p].text)
    BY DEF Fresh
  <2> QED
    BY <1>6, <1>7, <1>8, <2>1, ContentTwice
<1> PICK spoilt : spoilt = {q \in DocPaths : Armed(q) /\ ~Fresh(q)}
  OBVIOUS
<1>10. /\ Tree!Spoil(p, spoilt \cup {p})
       /\ lost = {} => Tree!Spoil(p, spoilt \ {p})
  BY <1>1, <1>5, <1>9, StepSpoils
<1>11. lost \in SUBSET Tree!Leaves(Tree!Content(t)) /\ v = Tree!Less(Tree!Content(t), lost)
  BY <1>7, TreeNames DEF Tree!Leaves, Tree!Less
<1>12. Tree!Spoil(p, IF lost = {} THEN spoilt \ {p} ELSE spoilt \cup {p})
  BY <1>10
<1> QED
  BY <1>2, <1>6, <1>11, <1>12 DEF Tree!Import

-----------------------------------------------------------------------------
(* Removal *)

\* What a removal uncovers is a value.
LEMMA UnderIsValue ==
    ASSUME NEW c, NEW r, Tables(c, r), WithoutNulls(c), NEW tree, tree = TextOf(c, r, Root),
           NEW p \in Path, p \notin DOMAIN c, Under(c, r, p)
    PROVE  p \in DOMAIN tree /\ tree[p] \in Values \cup {Obj}
<1>1. /\ p \in DOMAIN tree
      /\ tree[p] = IF p \in DOMAIN r THEN r[p].val ELSE c[Front(p)].inline[Last(p)]
  BY TreeNodes
<1>2. CASE p \in DOMAIN r
  BY <1>1, <1>2 DEF Tables, PrimitivesOK, PrimitiveRow
<1>3. CASE p \notin DOMAIN r
  <2>1. Front(p) \in DOMAIN c /\ Last(p) \in DOMAIN c[Front(p)].inline
    BY <1>3 DEF Under, Inlined
  <2>2. c[Front(p)].inline[Last(p)] \in Item
    <3>1. c[Front(p)].inline \in UNION {[K -> Item] : K \in SUBSET Keys}
      BY <2>1 DEF Tables, ContainersOK, ContainerRow
    <3> QED
      BY <2>1, <3>1
  <2>3. c[Front(p)].inline[Last(p)] # Null
    BY <2>1 DEF WithoutNulls
  <2> QED
    BY <1>1, <1>3, <2>2, <2>3 DEF Item
<1> QED
  BY <1>2, <1>3

\* A removal leaves no container at p and nothing below, and all the rest.
LEMMA RemoveRows ==
    ASSUME NEW p \in Path, RemoveJson(p), NEW z \in Path
    PROVE  /\ IsPrefix(p, z) => z \notin DOMAIN containers'
           /\ IsStrictPrefix(p, z) => ~Under(containers', primitives', z)
           /\ ~IsPrefix(p, z) \/ (z = p /\ p \notin DOMAIN containers) =>
                 SameAt(containers, primitives, containers', primitives', z)
<1>1. /\ DOMAIN containers' = {q \in DOMAIN containers : ~IsPrefix(p, q)}
      /\ \A q \in DOMAIN containers' : containers'[q] = containers[q]
  BY DEF RemoveJson, Outside, Restrict
<1>2. /\ DOMAIN primitives' = {q \in DOMAIN primitives : ~IsStrictPrefix(p, q)}
      /\ \A q \in DOMAIN primitives' : primitives'[q] = primitives[q]
  BY DEF RemoveJson, OutsideStrictly, Restrict
<1>3. z # Root => Front(z) \in Path /\ IsPrefix(Front(z), z) /\ Len(Front(z)) = Len(z) - 1
  BY SplitLast
<1>4. ASSUME z # Root, ~IsStrictPrefix(p, z) PROVE ~IsPrefix(p, Front(z))
  <2> SUFFICES ASSUME IsPrefix(p, Front(z)) PROVE FALSE
    OBVIOUS
  <2>1. IsPrefix(p, z)
    BY <1>3, <1>4, PrefixOrder
  <2>2. Len(p) <= Len(Front(z)) /\ Len(p) \in Nat /\ Len(z) \in Nat
    BY <1>3, <1>4, PrefixChar DEF Path
  <2>3. p # z
    BY <1>3, <1>4, <2>2
  <2> QED
    BY <1>4, <2>1, <2>3 DEF IsStrictPrefix
<1>5. ASSUME ~IsStrictPrefix(p, z)
      PROVE  /\ Inlined(containers, z) <=> Inlined(containers', z)
             /\ Inlined(containers, z) =>
                   containers[Front(z)].inline[Last(z)] = containers'[Front(z)].inline[Last(z)]
  BY <1>1, <1>4, <1>5 DEF Inlined
<1>6. ASSUME IsStrictPrefix(p, z) PROVE ~Inlined(containers', z)
  <2>1. IsPrefix(p, z) /\ p # z /\ Len(p) \in Nat /\ Len(z) \in Nat /\ Len(p) < Len(z)
    BY <1>6, StrictShorter DEF IsStrictPrefix
  <2>2. z # Root
    BY <2>1, RootIsPath
  <2>3. IsPrefix(p, Front(z))
    BY <1>3, <2>1, <2>2, PrefixesComparable
  <2> QED
    BY <1>1, <2>3 DEF Inlined
<1>7. IsPrefix(p, z) => z \notin DOMAIN containers'
  BY <1>1
<1>8. IsStrictPrefix(p, z) => ~Under(containers', primitives', z)
  BY <1>2, <1>6 DEF Under
<1>9. ASSUME ~IsPrefix(p, z) \/ (z = p /\ p \notin DOMAIN containers)
      PROVE  SameAt(containers, primitives, containers', primitives', z)
  <2>1. ~IsStrictPrefix(p, z)
    BY <1>9 DEF IsStrictPrefix
  <2>2. z \in DOMAIN containers <=> z \in DOMAIN containers'
    BY <1>1, <1>9
  <2>3. /\ z \in DOMAIN primitives <=> z \in DOMAIN primitives'
        /\ z \in DOMAIN primitives => primitives[z].val = primitives'[z].val
    BY <1>2, <2>1
  <2> QED
    BY <1>5, <2>1, <2>2, <2>3 DEF SameAt
<1> QED
  BY <1>7, <1>8, <1>9

\* Tables that are the same at a path give the same tree there.
LEMMA SameInTree ==
    ASSUME NEW c, NEW r, Tables(c, r), NEW tree, tree = TextOf(c, r, Root),
           NEW d, NEW s, Tables(d, s), NEW new, new = TextOf(d, s, Root),
           NEW z \in Path, SameAt(c, r, d, s, z)
    PROVE  /\ z \in DOMAIN tree <=> z \in DOMAIN new
           /\ z \in DOMAIN tree => tree[z] = new[z]
<1>1. /\ z \in DOMAIN tree <=> z \in DOMAIN c \/ Under(c, r, z)
      /\ z \in DOMAIN tree => tree[z] = IF z \in DOMAIN c THEN Obj
                                        ELSE IF z \in DOMAIN r THEN r[z].val
                                        ELSE c[Front(z)].inline[Last(z)]
  BY TreeNodes
<1>2. /\ z \in DOMAIN new <=> z \in DOMAIN d \/ Under(d, s, z)
      /\ z \in DOMAIN new => new[z] = IF z \in DOMAIN d THEN Obj
                                      ELSE IF z \in DOMAIN s THEN s[z].val
                                      ELSE d[Front(z)].inline[Last(z)]
  BY TreeNodes
<1> QED
  BY <1>1, <1>2 DEF SameAt, Under

\* A removal is a Delete of the tree, whatever it uncovers.
LEMMA RemoveEditsTree ==
    ASSUME TInv, TInv', Next, NEW p \in DocPaths, RemoveJson(p)
    PROVE  Tree!Delete(p)
<1>1. p \in Path /\ call'.path = p /\ IInv /\ IInv'
  BY EngineAssumption, TInvTables DEF RemoveJson, Called
<1>2. Tree!Called("remove", p, Tree!Nothing)
  BY TreeNames DEF RemoveJson, Called, Tree!Called
<1>3. Tables(containers, primitives) /\ Tables(containers', primitives') /\ WithoutNulls(containers')
  BY TInvTables DEF TInv, NoNulls
<1>4. Edit(p)
  BY <1>1, RemoveEdit
<1>5. p \in DOMAIN primitives' <=> p \in DOMAIN primitives
  BY DEF RemoveJson, OutsideStrictly, IsStrictPrefix, Restrict
<1> PICK tree, new : tree = Extract(Root) /\ new = Extract(Root)'
  OBVIOUS
<1>6. tree = TextOf(containers, primitives, Root) /\ new = TextOf(containers', primitives', Root)
  BY ExtractIsTextOf
<1>7. /\ DOMAIN tree \subseteq Path /\ tree = [z \in DOMAIN tree |-> tree[z]]
      /\ DOMAIN new \subseteq Path /\ new = [z \in DOMAIN new |-> new[z]]
      /\ \A z \in Path : z \in DOMAIN tree <=> z \in DOMAIN containers \/ Under(containers, primitives, z)
      /\ \A z \in Path : z \in DOMAIN new <=> z \in DOMAIN containers' \/ Under(containers', primitives', z)
  <2>1. /\ DOMAIN tree \subseteq Path /\ tree = [z \in DOMAIN tree |-> tree[z]]
        /\ \A z \in Path : z \in DOMAIN tree <=> z \in DOMAIN containers \/ Under(containers, primitives, z)
    BY <1>3, <1>6, TreeNodes
  <2>2. /\ DOMAIN new \subseteq Path /\ new = [z \in DOMAIN new |-> new[z]]
        /\ \A z \in Path : z \in DOMAIN new <=> z \in DOMAIN containers' \/ Under(containers', primitives', z)
    BY <1>3, <1>6, TreeNodes
  <2> QED
    BY <2>1, <2>2
<1>8. ASSUME NEW z \in Path, ~IsPrefix(p, z) \/ (z = p /\ p \notin DOMAIN containers)
      PROVE  /\ z \in DOMAIN tree <=> z \in DOMAIN new
             /\ z \in DOMAIN tree => tree[z] = new[z]
  <2>1. SameAt(containers, primitives, containers', primitives', z)
    BY <1>1, <1>8, RemoveRows
  <2> QED
    BY <1>3, <1>6, <2>1, SameInTree
<1>9. \A z \in Path : IsStrictPrefix(p, z) => z \notin DOMAIN new
  BY <1>1, <1>7, RemoveRows DEF IsStrictPrefix
<1>10. /\ p \notin DOMAIN containers'
       /\ p \in DOMAIN new <=> Under(containers', primitives', p)
       /\ Under(containers', primitives', p) <=> Under(containers, primitives, p)
  <2>1. p \notin DOMAIN containers'
    BY <1>1, RemoveRows, PrefixOrder
  <2>2. ~IsStrictPrefix(p, p) /\ Frame(p)
    BY <1>4 DEF IsStrictPrefix, Edit
  <2>3. Under(containers', primitives', p) <=> Under(containers, primitives, p)
    BY <1>1, <1>5, <2>2, UnderStays
  <2> QED
    BY <1>1, <1>7, <2>1, <2>3
<1> PICK pruned : pruned = PrunedAt(tree, p)
  OBVIOUS
<1>11. /\ pruned = [z \in DOMAIN pruned |-> pruned[z]]
       /\ DOMAIN pruned = {z \in DOMAIN tree : ~IsPrefix(p, z)}
       /\ \A z \in DOMAIN pruned : pruned[z] = tree[z]
  BY DEF PrunedAt, RestrictDomain, Restrict
<1> PICK before, after : /\ before = {q \in DOMAIN containers : Hides(q)}
                         /\ after = {q \in DOMAIN containers : Hides(q)}'
  OBVIOUS
<1>12. before = HiddenIn(containers, primitives) /\ after = HiddenIn(containers', primitives')
  BY <1>1, HiddenNames
<1>13. \A z \in Path : IsPrefix(p, z) <=> z = p \/ IsStrictPrefix(p, z)
  BY <1>1, PrefixOrder DEF IsStrictPrefix
<1>14. p \in DOMAIN tree /\ tree[p] # Obj => p \notin DOMAIN containers
  BY <1>1, <1>3, <1>6, UnderNodes
<1>15. ASSUME ~Under(containers, primitives, p)
       PROVE  ~(ChildlessIn(tree, p) /\ tree[p] # Obj) /\ p \notin before /\ new = pruned
  <2>1. DOMAIN new = DOMAIN pruned
    BY <1>1, <1>7, <1>8, <1>9, <1>10, <1>11, <1>13, <1>15
  <2>2. \A z \in DOMAIN new : new[z] = pruned[z]
    BY <2>1, <1>7, <1>8, <1>11
  <2>3. new = pruned
    BY <2>1, <2>2, <1>7, <1>11
  <2>4. ~(ChildlessIn(tree, p) /\ tree[p] # Obj)
    BY <1>1, <1>7, <1>14, <1>15 DEF ChildlessIn
  <2>5. p \notin before
    BY <1>12, <1>15 DEF HiddenIn
  <2> QED
    BY <2>3, <2>4, <2>5
<1>16. ASSUME Under(containers, primitives, p), p \in DOMAIN containers
       PROVE  /\ p \in before
              /\ \E v \in Values \cup {Obj} : new = Override([x \in {p} |-> v], pruned)
  <2>1. p \in DOMAIN new /\ new[p] \in Values \cup {Obj}
    BY <1>1, <1>3, <1>6, <1>10, <1>16, UnderIsValue
  <2> PICK over : over = Override([x \in {p} |-> new[p]], pruned)
    OBVIOUS
  <2>2. /\ DOMAIN over = {p} \cup DOMAIN pruned /\ over = [z \in DOMAIN over |-> over[z]]
        /\ over[p] = new[p]
        /\ \A z \in DOMAIN pruned : z # p => over[z] = pruned[z]
    BY DEF Override
  <2>3. DOMAIN new = DOMAIN over
    BY <1>1, <1>7, <1>8, <1>9, <1>11, <1>13, <2>1, <2>2
  <2>4. \A z \in DOMAIN new : new[z] = over[z]
    BY <2>2, <2>3, <1>7, <1>8, <1>11
  <2>5. new = over
    BY <2>2, <2>3, <2>4, <1>7
  <2>6. p \in before
    BY <1>12, <1>16 DEF HiddenIn
  <2> QED
    BY <2>1, <2>5, <2>6
<1>17. ASSUME Under(containers, primitives, p), p \notin DOMAIN containers
       PROVE  ChildlessIn(tree, p) /\ new = tree
  <2>1. ChildlessIn(tree, p)
    BY <1>1, <1>3, <1>6, <1>17, UnderNodes
  <2>2. \A z \in DOMAIN tree : ~IsStrictPrefix(p, z)
    BY <2>1 DEF ChildlessIn
  <2>3. DOMAIN new = DOMAIN tree
    BY <1>7, <1>8, <1>9, <1>13, <1>17, <2>2
  <2>4. \A z \in DOMAIN tree : new[z] = tree[z]
    BY <1>7, <1>8, <1>13, <1>17, <2>2
  <2>5. new = tree
    BY <2>3, <2>4, <1>7
  <2> QED
    BY <2>1, <2>5
<1>18. after = before \ ({q \in before : IsStrictPrefix(p, q)} \cup {p})
  <2>1. before \subseteq Path /\ after \subseteq Path
    BY <1>3, <1>12 DEF HiddenIn, Tables, ContainersOK
  <2>2. ASSUME NEW q \in Path, IsPrefix(p, q) PROVE q \notin after
    BY <1>1, <1>12, <2>2, RemoveRows DEF HiddenIn
  <2>3. ASSUME NEW q \in Path, ~IsPrefix(p, q) PROVE q \in after <=> q \in before
    <3>1. q \in DOMAIN containers <=> q \in DOMAIN containers'
      BY <1>1, <2>3, RemoveRows DEF SameAt
    <3>2. ~IsStrictPrefix(p, q) /\ Frame(p)
      BY <1>4, <2>3 DEF IsStrictPrefix, Edit
    <3>3. Under(containers', primitives', q) <=> Under(containers, primitives, q)
      BY <1>1, <1>5, <3>2, UnderStays
    <3> QED
      BY <1>12, <3>1, <3>3 DEF HiddenIn
  <2> QED
    BY <1>13, <2>1, <2>2, <2>3
<1>19. Tree!Spoil(p, {q \in DocPaths : Armed(q) /\ ~Fresh(q)} \ {p})
  <2>1. p \notin DOMAIN hashes'
    BY DEF RemoveJson, Restrict
  <2>2. ~Armed(p)'
    BY <2>1 DEF Armed
  <2> QED
    BY <1>1, <1>4, <2>2, StepSpoils
<1>20. /\ Tree!Childless(p) <=> ChildlessIn(tree, p)
       /\ Tree!Without(p) = pruned
       /\ Tree!Below(p) = {q \in before : IsStrictPrefix(p, q)}
  <2>1. Tree!Childless(p) <=> ChildlessIn(tree, p)
    BY TreeNames DEF Tree!Childless, ChildlessIn
  <2>2. Tree!Without(p) = pruned
    BY TreeOperators
  <2>3. Tree!Below(p) = {q \in before : IsStrictPrefix(p, q)}
    BY TreeNames DEF Tree!Below
  <2> QED
    BY <2>1, <2>2, <2>3
<1>21. \/ ~(Tree!Childless(p) /\ Extract(Root)[p] # Obj) /\ p \notin before /\ Extract(Root)' = Tree!Without(p)
       \/ p \in before /\ \E v \in Values \cup {Obj} :
             Extract(Root)' = Tree!Override([x \in {p} |-> v], Tree!Without(p))
       \/ Tree!Childless(p) /\ Extract(Root)' = Extract(Root)
  BY <1>15, <1>16, <1>17, <1>20, TreeNames
<1> QED
  BY <1>2, <1>18, <1>19, <1>20, <1>21 DEF Tree!Delete

-----------------------------------------------------------------------------
(* The leaf path *)

\* Below its path a leaf update makes no container, and uncovers some.
LEMMA LeafHides ==
    ASSUME TInv, TInv', NEW p \in Path, NEW u, IsText(u), UpdateLeaf(p, u),
           NEW q \in Path, IsStrictPrefix(p, q),
           q \in DOMAIN containers', Under(containers', primitives', q)
    PROVE  q \in DOMAIN containers /\ Under(containers, primitives, q)
<1>1. IInv /\ Tables(containers', primitives')
  BY TInvTables
<1> PICK b : b = Bared(p)
  OBVIOUS
<1>2. PICK y \in Path : q = p \o y
  BY RelChar DEF IsStrictPrefix
<1>3. y # Root
  BY <1>2, ConcatChar DEF IsStrictPrefix
<1>4. /\ \A z \in Path : z # Root /\ ~Touched(u, z) =>
            SameAt(b, primitives, containers', primitives', p \o z)
      /\ \A x \in DOMAIN u \ {Root} : p \o x \notin DOMAIN containers'
  BY <1>1, LeafRows
<1>5. ~Touched(u, y)
  <2> SUFFICES ASSUME NEW x \in DOMAIN u \ {Root}, IsPrefix(x, y) PROVE FALSE
    BY DEF Touched
  <2>1. x \in Path
    BY DEF IsText
  <2>2. p \o x \in Path /\ p \o y \in Path /\ IsPrefix(p \o x, p \o y)
    BY <2>1, ConcatPrefix, ConcatChar
  <2>3. p \o x = p \o y \/ p \o x \in Ancestors(p \o y)
    BY <2>2, AncestorChar
  <2>4. Ancestors(p \o y) \subseteq DOMAIN containers'
    BY <1>1, <1>2 DEF Tables, ParentsIn
  <2> QED
    BY <1>2, <1>4, <2>3, <2>4
<1>6. SameAt(b, primitives, containers', primitives', q)
  BY <1>2, <1>3, <1>4, <1>5
<1>7. DOMAIN b = DOMAIN containers /\ (Inlined(b, q) => Inlined(containers, q))
  <2>1. /\ DOMAIN b = DOMAIN containers
        /\ \A z \in DOMAIN containers : b[z].inline = IF z = p THEN Nothing ELSE containers[z].inline
    BY DEF Bared
  <2> QED
    BY <2>1 DEF Inlined, Nothing
<1> QED
  BY <1>6, <1>7 DEF SameAt, Under

\* The leaf path of he_update_json is an UpdateLeaf of the tree.
LEMMA LeafEditsTree ==
    ASSUME TInv, TInv', Next, NEW p \in DocPaths, NEW u \in Updates, UpdateLeaf(p, u)
    PROVE  Tree!UpdateLeaf(p, u)
<1>1. p \in Path /\ IsText(u) /\ u[Root] = Obj /\ call'.path = p /\ IInv /\ IInv' /\ NInv
  BY EngineAssumption, TInvTables DEF UpdateLeaf, Called
<1>2. Tree!Called("leaf", p, u)
  BY DEF UpdateLeaf, Called, Tree!Called
<1>3. Edit(p)
  BY <1>1, LeafEdit
<1>4. Frame(p)
  BY <1>3 DEF Edit
<1> PICK b : b = Bared(p)
  OBVIOUS
<1>5. Exists(p)' /\ (p \in DOMAIN primitives' <=> p \in DOMAIN primitives)
  <2>1. p \in DOMAIN containers' /\ (p \in DOMAIN primitives' <=> p \in DOMAIN primitives)
    BY <1>1, LeafRows
  <2> QED
    BY <2>1 DEF Exists
<1> PICK c, t : c = TextOf(b, primitives, p) /\ t = Extract(p)
  OBVIOUS
<1> PICK v : v = Content(Merge(c, u))
  OBVIOUS
<1>6. Extract(p)' = v
  BY <1>1, LeafMerges
<1>7. /\ c = Restrict(t, DOMAIN t \ Lost(p))
      /\ \A x \in Lost(p), y \in DOMAIN t : ~IsStrictPrefix(x, y)
  BY <1>1, BaredText
<1> PICK at : at = Tree!At(p)
  OBVIOUS
\* The value
<1>8. PICK lost : /\ \A x \in lost : x \in DOMAIN at /\ Len(x) = 1 /\ ChildPaths(at, x) = {}
                  /\ v = Content(Merge(Restrict(at, DOMAIN at \ lost), u))
  <2>1. CASE Exists(p)
    <3>1. at = t
      BY <1>1, <2>1, TreeAt
    <3>2. v = Content(Merge(Restrict(at, DOMAIN at \ Lost(p)), u))
      BY <1>7, <3>1
    <3>3. ASSUME NEW x \in Lost(p) PROVE x \in DOMAIN at /\ Len(x) = 1
      BY <3>1 DEF Lost
    <3>4. ASSUME NEW x \in Lost(p), NEW y \in ChildPaths(at, x) PROVE FALSE
      <4>1. y \in DOMAIN t /\ y # Root /\ Front(y) = x
        BY <3>1, <3>4 DEF ChildPaths
      <4>2. y \in Path
        <5>1. IsText(t)
          BY <1>1, <2>1, ExtractIsText
        <5> QED
          BY <4>1, <5>1 DEF IsText
      <4>3. IsPrefix(x, y) /\ Len(x) = Len(y) - 1 /\ Len(y) \in Nat
        BY <4>1, <4>2, SplitLast DEF Path
      <4>4. x # y
        BY <4>3
      <4> QED
        BY <1>7, <3>4, <4>1, <4>3, <4>4 DEF IsStrictPrefix
    <3> QED
      BY <3>2, <3>3, <3>4
  <2>2. CASE ~Exists(p)
    <3>1. DOMAIN at \subseteq {Root}
      BY <1>1, <2>2, TreeAt
    <3>2. DOMAIN c \subseteq {Root}
      <4>1. t = Nothing
        BY <1>1, <2>2, RootedText
      <4> QED
        BY <1>7, <4>1 DEF Restrict, Nothing
    <3> PICK rest : rest = Restrict(at, DOMAIN at \ {})
      OBVIOUS
    <3>3. DOMAIN rest \subseteq {Root}
      BY <3>1 DEF Restrict
    <3>4. v = Content(u)
      BY <1>1, <3>2, MergeIntoLeaf
    <3>5. Content(Merge(rest, u)) = Content(u)
      BY <1>1, <3>3, MergeIntoLeaf
    <3>6. v = Content(Merge(Restrict(at, DOMAIN at \ {}), u))
      BY <3>4, <3>5
    <3> QED
      BY <3>6
  <2> QED
    BY <2>1, <2>2
<1>9. /\ lost \in SUBSET Tree!Leaves(Tree!At(p))
      /\ v = Tree!Content(Tree!Merge(Tree!Less(Tree!At(p), lost), u))
  BY <1>8, TreeNames DEF Tree!Leaves, Tree!Less
<1>10. Extract(Root)' = Tree!Grafted(p, v)
  <2> PICK tree, new : tree = Extract(Root) /\ new = Extract(Root)'
    OBVIOUS
  <2>1. new = GraftedOn(tree, p, v)
    BY <1>1, <1>4, <1>5, <1>6, StepGrafts
  <2> QED
    BY <2>1, TreeOperators
\* What is hidden
<1> PICK before, after : /\ before = {q \in DOMAIN containers : Hides(q)}
                         /\ after = {q \in DOMAIN containers : Hides(q)}'
  OBVIOUS
<1> PICK gone : gone = {q \in before : IsStrictPrefix(p, q) /\ q \notin after}
  OBVIOUS
<1>11. before = HiddenIn(containers, primitives) /\ after = HiddenIn(containers', primitives')
  BY <1>1, HiddenNames
<1>12. ASSUME NEW q \in Path, IsStrictPrefix(p, q) PROVE q \in after <=> q \in before \ gone
  <2>1. q \in after => q \in before
    BY <1>1, <1>11, <1>12, LeafHides DEF HiddenIn
  <2> QED
    BY <1>12, <2>1
<1>13. Tree!Hide(p, before \ gone)
  <2>1. \A q \in gone : IsStrictPrefix(p, q)
    OBVIOUS
  <2> QED
    BY <1>1, <1>4, <1>5, <1>12, <2>1, StepHides
<1>14. gone \in SUBSET Tree!Below(p)
  BY TreeNames DEF Tree!Below
<1>15. Tree!Spoil(p, {q \in DocPaths : Armed(q) /\ ~Fresh(q)} \ {p})
  <2>1. p \notin DOMAIN hashes'
    BY DEF UpdateLeaf, Restrict
  <2>2. ~Armed(p)'
    BY <2>1 DEF Armed
  <2> QED
    BY <1>1, <1>3, <2>2, StepSpoils
<1>16. \E l \in SUBSET Tree!Leaves(Tree!At(p)), g \in SUBSET Tree!Below(p) :
          /\ Extract(Root)' = Tree!Grafted(p, Tree!Content(Tree!Merge(Tree!Less(Tree!At(p), l), u)))
          /\ Tree!Hide(p, before \ g)
  BY <1>9, <1>10, <1>13, <1>14
<1> QED
  BY <1>2, <1>15, <1>16 DEF Tree!UpdateLeaf

-----------------------------------------------------------------------------
(* The refinement *)

\* Empty tables are the empty tree.
LEMMA InitIsTree == Init => Tree!Init
<1> SUFFICES ASSUME Init PROVE Tree!Init
  OBVIOUS
<1>1. containers = Nothing /\ primitives = Nothing /\ hashes = Nothing
  BY DEF Init
<1>2. Extract(Root) = Nothing
  <2>1. ExtractPaths(Root) = {}
    BY <1>1 DEF ExtractPaths, Nothing
  <2> QED
    BY <2>1 DEF Extract, Nothing
<1>3. {q \in DOMAIN containers : Hides(q)} = {}
  BY <1>1 DEF Nothing
<1>4. {q \in DocPaths : Armed(q) /\ ~Fresh(q)} = {}
  BY <1>1 DEF Armed, Nothing
<1> QED
  BY <1>2, <1>3, <1>4, TreeNames DEF Init, Tree!Init

\* Every call is a step of HeTree.
LEMMA NextIsTree == TInv /\ TInv' /\ [Next]_vars => [Tree!Next]_(Tree!vars)
<1> SUFFICES ASSUME TInv, TInv', [Next]_vars PROVE [Tree!Next]_(Tree!vars)
  OBVIOUS
<1>1. ASSUME Next PROVE Tree!Next
  <2>1. PICK p \in DocPaths :
           \/ \E t \in Texts, limit \in Limits : SetJson(p, t, limit)
           \/ RemoveJson(p)
           \/ \E u \in Updates : UpdateLeaf(p, u) \/ UpdateFull(p, u) \/ UpdateWildcard(p, u)
           \/ \E t \in Texts, limit \in Limits : ImportCsv(p, t, limit)
    BY <1>1 DEF Next
  <2>2. ASSUME NEW t \in Texts, NEW limit \in Limits, SetJson(p, t, limit) PROVE Tree!Set(p, t)
    BY <1>1, <2>2, SetEditsTree
  <2>3. ASSUME RemoveJson(p) PROVE Tree!Delete(p)
    BY <1>1, <2>3, RemoveEditsTree
  <2>4. ASSUME NEW u \in Updates, UpdateLeaf(p, u) PROVE Tree!UpdateLeaf(p, u)
    BY <1>1, <2>4, LeafEditsTree
  <2>5. ASSUME NEW u \in Updates, UpdateFull(p, u) PROVE Tree!UpdateFull(p, u)
    BY <1>1, <2>5, FullEditsTree
  <2>6. ASSUME NEW u \in Updates, UpdateWildcard(p, u) PROVE Tree!UpdateWildcard(p, u)
    BY <1>1, <2>6, WildcardEditsTree
  <2>7. ASSUME NEW t \in Texts, NEW limit \in Limits, ImportCsv(p, t, limit) PROVE Tree!Import(p, t)
    BY <1>1, <2>7, ImportEditsTree
  <2> QED
    BY <2>1, <2>2, <2>3, <2>4, <2>5, <2>6, <2>7 DEF Tree!Next
<1>2. ASSUME UNCHANGED vars PROVE UNCHANGED Tree!vars
  <2>1. UNCHANGED <<containers, primitives, hashes>> /\ call' = call
    BY <1>2 DEF vars
  <2>2. UNCHANGED <<Extract(Root), {q \in DOMAIN containers : Hides(q)},
                    {q \in DocPaths : Armed(q) /\ ~Fresh(q)}>>
    BY <2>1, TreeStays
  <2> QED
    BY <2>1, <2>2 DEF Tree!vars
<1> QED
  BY <1>1, <1>2

\* For any keys, values, paths, texts, updates and limits, every call of the engine
\* is a call of HeTree: the rows, the inlined entries and the recorded hashes
\* together edit one JSON value, with no exceptions but the ones HeTree names.
THEOREM EngineEditsOneTree == Spec => CallsEditOneTree
BY TInvInit, TInvNext, InitIsTree, NextIsTree, PTL DEF Spec, CallsEditOneTree, Tree!Spec
=============================================================================
