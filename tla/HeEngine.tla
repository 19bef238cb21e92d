------------------------------ MODULE HeEngine ------------------------------
(***************************************************************************)
(* The storage engine: he_services.c over he_repo.c and he_mapper.c.       *)
(*                                                                         *)
(* One SQL table {t}_nodes holds a document as rows.  A row whose path     *)
(* ends in '/' is a container, with the entries inlined in its text_value; *)
(* any other row is a primitive.  The two kinds are the partial functions  *)
(* containers and primitives: "/a/" and "/a" are different rows, and       *)
(* nothing in the schema keeps them from existing together.  The table     *)
(* {t}_doc_hashes is hashes.  A revision is a fresh UUID; here the number  *)
(* of the write that drew it.  Revisions are only ever compared at one     *)
(* path, so the rows one call writes share the number, those of the        *)
(* intermediate containers included, which draw a UUID each.               *)
(*                                                                         *)
(* Each action is one call inside its transaction (HeWriteTx takes the     *)
(* calls apart).  Timestamps are left out.                                 *)
(***************************************************************************)
EXTENDS HeDoc

CONSTANTS DocPaths,    \* paths that clients pass
          Texts,       \* texts that clients write (set) or import
          Updates,     \* texts that clients merge (update)
          Limits,      \* values of max_inline_size that clients pass to set
          DefaultLimit, \* the value used when none is passed
          MaxWrites    \* bound: how many revisions a behaviour draws

ASSUME EngineAssumption ==
    /\ DocPaths \subseteq Path
    /\ \A t \in Texts : IsText(t) /\ t[Root] = Obj /\ IsFiniteSet(DOMAIN t)
    /\ \A u \in Updates : IsText(u) /\ u[Root] = Obj /\ IsFiniteSet(DOMAIN u)
    /\ Limits \subseteq Nat
    /\ DefaultLimit \in Nat
    /\ MaxWrites \in Nat

VARIABLES containers, \* rows with a trailing slash
          primitives, \* rows without one
          hashes,     \* {t}_doc_hashes
          clock,      \* the last revision drawn
          call        \* the last call: its name, path and text

vars == <<containers, primitives, hashes, clock, call>>

ContainerRow == [inline : UNION {[K -> Item] : K \in SUBSET Keys}, rev : Nat, nr : Nat]
PrimitiveRow == [val : Values, rev : Nat, nr : Nat]

-----------------------------------------------------------------------------
(***************************************************************************)
(* he_repo.c: the statements                                               *)
(***************************************************************************)

\* DELETE of the range [p + "/", p + "0"): the container p and all below it.
Outside(p)         == {q \in DOMAIN containers : ~IsPrefix(p, q)}
OutsideStrictly(p) == {q \in DOMAIN primitives : ~IsStrictPrefix(p, q)}

RevisionNr(c, p) == IF p \in DOMAIN c THEN c[p].nr ELSE 0

\* Faults: only the top container is created; containers that exist are replaced.
EnsureOnlyRoot(c, p, rev) ==
    Override(c, [q \in {Root} |-> [inline |-> Nothing, rev |-> rev, nr |-> 1]])

EnsureReplacing(c, p, rev) ==
    Override([q \in Ancestors(p) \cup {Root} |-> [inline |-> Nothing, rev |-> rev, nr |-> 1]], c)

\* Creates the containers that lead to p, where they are missing.
EnsureIntermediate(c, p, rev) ==
    Override(c, [q \in Ancestors(p) \cup {Root} |-> [inline |-> Nothing, rev |-> rev, nr |-> 1]])

\* A lookup that does not join the nodes on the revision (a fault).
ArmedUnjoined(p) == p \in DOMAIN hashes /\ p \in DOMAIN containers

\* A recorded hash counts only while the root row has the revision recorded.
Armed(p) == /\ p \in DOMAIN hashes
            /\ p \in DOMAIN containers
            /\ containers[p].rev = hashes[p].rev

\* A dedup that trusts the recorded hash by itself (a fault).
DedupHitUnarmed(p, t, limit) ==
    p \in DOMAIN hashes /\ hashes[p].text = t /\ hashes[p].limit = limit

DedupHit(p, t, limit) == Armed(p) /\ hashes[p].text = t /\ hashes[p].limit = limit

-----------------------------------------------------------------------------
(***************************************************************************)
(* extract_json: the text that the rows at and below p spell.  Where two   *)
(* rows, or a row and an inlined entry, claim one key, the JSON printed    *)
(* has the key twice and its reader keeps the last: the container, else    *)
(* the primitive, else the entry.                                          *)
(***************************************************************************)
InlineAt(p, x) == /\ x # Root
                  /\ p \o Front(x) \in DOMAIN containers
                  /\ Last(x) \in DOMAIN containers[p \o Front(x)].inline

ExtractPaths(p) ==
    {Rel(p, q) : q \in {q \in DOMAIN containers : IsPrefix(p, q)}}
      \cup {Rel(p, q) : q \in {q \in DOMAIN primitives : IsStrictPrefix(p, q)}}
      \cup UNION {{Append(Rel(p, q), k) : k \in DOMAIN containers[q].inline} :
                     q \in {q \in DOMAIN containers : IsPrefix(p, q)}}

Extract(p) ==
    [x \in ExtractPaths(p) |->
        IF p \o x \in DOMAIN containers THEN Obj
        ELSE IF p \o x \in DOMAIN primitives THEN primitives[p \o x].val
        ELSE containers[p \o Front(x)].inline[Last(x)]]

Exists(p) == p \in DOMAIN containers

\* No key below p is claimed twice.
Unambiguous(p) ==
    \A x \in ExtractPaths(p) \ {Root} :
        /\ ~(p \o x \in DOMAIN containers /\ p \o x \in DOMAIN primitives)
        /\ InlineAt(p, x) => p \o x \notin DOMAIN containers \cup DOMAIN primitives

-----------------------------------------------------------------------------
(***************************************************************************)
(* he_services.c: the calls                                                *)
(***************************************************************************)
Init == /\ containers = Nothing
        /\ primitives = Nothing
        /\ hashes = Nothing
        /\ clock = 0
        /\ call = [op |-> "none", path |-> Root, text |-> Nothing]

Called(op, p, t) == call' = [op |-> op, path |-> p, text |-> t]

\* The rows of the text t at p, from he_mapper_flatten_value; the root row first.
ContainerRows(p, t, limit, rev, nr) ==
    [q \in {p \o x : x \in ContainerPaths(t, limit)} |->
        [inline |-> InlineEntries(t, Rel(p, q), limit), rev |-> rev, nr |-> nr]]

PrimitiveRows(p, t, limit, rev, nr) ==
    [q \in {p \o x : x \in PrimitivePaths(t, limit)} |->
        [val |-> t[Rel(p, q)], rev |-> rev, nr |-> nr]]

\* A leaf path that touches the rows of the leaves alone (a fault).
NoRootRow(p, rev, nr) == [q \in {} |-> [inline |-> Nothing, rev |-> rev, nr |-> nr]]

RootRow(p, rev, nr) == [q \in {p} |-> [inline |-> Nothing, rev |-> rev, nr |-> nr]]

\* The tail of set_json and of the full update_json: the subtree goes, the
\* ancestors are ensured, the root and the flattened text are inserted and
\* the hash of the text is recorded.
WriteText(p, t, limit) ==
    LET rev     == clock + 1
        ensured == EnsureIntermediate(Restrict(containers, Outside(p)), p, rev)
        nr      == RevisionNr(ensured, p) + 1
    IN /\ clock < MaxWrites
       /\ clock' = rev
       /\ containers' = Override(ContainerRows(p, t, limit, rev, nr), ensured)
       /\ primitives' = Override(PrimitiveRows(p, t, limit, rev, nr),
                                 Restrict(primitives, OutsideStrictly(p)))
       /\ hashes' = Override([q \in {p} |-> [text |-> t, limit |-> limit, rev |-> rev]], hashes)

\* set_json with a value: nothing is written when the hash is armed and equal.
SetJson(p, t, limit) ==
    /\ Called("set", p, t)
    /\ IF DedupHit(p, t, limit)
       THEN UNCHANGED <<containers, primitives, hashes, clock>>
       ELSE WriteText(p, t, limit)

\* set_json and update_json with null, and update_json(prefix + "/*", null),
\* whose root path is the fixed prefix: the subtree and the hash go.
RemoveJson(p) ==
    /\ containers' = Restrict(containers, Outside(p))
    /\ primitives' = Restrict(primitives, OutsideStrictly(p))
    /\ hashes' = Restrict(hashes, DOMAIN hashes \ {p})
    /\ UNCHANGED clock
    /\ Called("remove", p, Nothing)

\* he_json_is_leaf_object: no entry is an object.
IsLeafObject(u) == \A x \in DOMAIN u : x # Root => u[x] # Obj

\* A leaf path that inserts a value without clearing the container there (a fault).
ErasedNulls(c, p, u) == {x \in DOMAIN u \ {Root} : u[x] = Null}

\* The entries of u at which the leaf path first deletes row and subtree.
Erased(c, p, u) == {x \in DOMAIN u \ {Root} : u[x] = Null \/ p \o x \in DOMAIN c}

\* update_json, leaf path: each entry of u goes to, or erases, its own row, and
\* the root is inserted anew with "{}".  (For p = Root the code composes
\* "//key", a path no other call names; see the README.)
UpdateLeaf(p, u) ==
    LET rev     == clock + 1
        ensured == EnsureIntermediate(containers, p, rev)
        nr      == RevisionNr(ensured, p) + 1
        rooted  == Override(RootRow(p, rev, nr), ensured)
        Kept(q) == \A x \in Erased(rooted, p, u) : ~IsPrefix(p \o x, q)
        written == [q \in {p \o x : x \in {x \in DOMAIN u \ {Root} : u[x] # Null}} |->
                       [val |-> u[Rel(p, q)], rev |-> rev, nr |-> nr]]
    IN /\ p # Root
       /\ IsLeafObject(u)
       /\ Called("leaf", p, u)
       /\ clock < MaxWrites
       /\ clock' = rev
       /\ containers' = Restrict(rooted, {q \in DOMAIN rooted : Kept(q)})
       /\ primitives' = Override(written, Restrict(primitives, {q \in DOMAIN primitives : Kept(q)}))
       /\ hashes' = Restrict(hashes, DOMAIN hashes \ {p})

\* update_json, full path: read, merge, write back.  Abstraction: not taken on
\* a document in which a key is claimed twice.
UpdateFull(p, u) ==
    /\ ~IsLeafObject(u)
    /\ Called("full", p, u)
    /\ Unambiguous(p)
    /\ WriteText(p, IF Exists(p) THEN Merge(Extract(p), u) ELSE u, DefaultLimit)

\* update_json(p + "/*", u): every direct child of p is merged with u, whatever
\* follows the wildcard in the pattern.  Without a document at p nothing happens.
UpdateWildcard(p, u) ==
    /\ Exists(p)
    /\ Called("wildcard", p, u)
    /\ Unambiguous(p)
    /\ WriteText(p, Merge(Extract(p), EachChild(Extract(p), u)), DefaultLimit)

\* import_csv of the rows that export_csv gives for t: the rows are inserted as
\* they come, but the root row, whose place is taken by one with a NULL
\* text_value.  The hash recorded is that of the tree of all the rows.
ImportCsv(p, t, limit) ==
    LET rev     == clock + 1
        ensured == EnsureIntermediate(Restrict(containers, Outside(p)), p, rev)
        nr      == RevisionNr(ensured, p) + 1
    IN /\ Called("import", p, t)
       /\ clock < MaxWrites
       /\ clock' = rev
       /\ containers' = Override(RootRow(p, rev, nr),
                                 Override(ContainerRows(p, t, limit, rev, nr), ensured))
       /\ primitives' = Override(PrimitiveRows(p, t, limit, rev, nr),
                                 Restrict(primitives, OutsideStrictly(p)))
       /\ hashes' = Override([q \in {p} |-> [text |-> Content(t), limit |-> DefaultLimit, rev |-> rev]],
                             hashes)

Next == \E p \in DocPaths :
            \/ \E t \in Texts, limit \in Limits : SetJson(p, t, limit)
            \/ RemoveJson(p)
            \/ \E u \in Updates : UpdateLeaf(p, u) \/ UpdateFull(p, u) \/ UpdateWildcard(p, u)
            \/ \E t \in Texts, limit \in Limits : ImportCsv(p, t, limit)

Spec == Init /\ [][Next]_vars

-----------------------------------------------------------------------------
(***************************************************************************)
(* Properties                                                              *)
(***************************************************************************)

\* Rows, hashes and revisions have the shapes the columns give them.
TypeOK ==
    /\ DOMAIN containers \subseteq Path
    /\ \A q \in DOMAIN containers : containers[q] \in ContainerRow
    /\ DOMAIN primitives \subseteq Path
    /\ \A q \in DOMAIN primitives : primitives[q] \in PrimitiveRow
    /\ DOMAIN hashes \subseteq Path
    /\ \A q \in DOMAIN hashes : /\ IsText(hashes[q].text)
                                /\ hashes[q].limit \in Nat
                                /\ hashes[q].rev \in Nat
    /\ clock \in 0..MaxWrites

\* No orphan: every row has the containers that lead to it, so that the range
\* scan of extract_json finds each row's parent on its stack, whatever mix of
\* set, update, null and import went before (ensure_intermediate_paths, the
\* delete ranges and the flattener together).
AncestorClosed ==
    \A q \in DOMAIN containers \cup DOMAIN primitives : Ancestors(q) \subseteq DOMAIN containers

\* A set or full update that writes leaves exactly the text whose hash it
\* records: what extract_json rebuilds from the rows is what was flattened,
\* with no rest of what stood there before.
WritesReadBack ==
    [][\A p \in DocPaths :
          (p = call'.path /\ call'.op \in {"set", "full", "wildcard"} /\ clock' # clock)
             => Extract(p)' = Content(hashes'[p].text)]_vars

\* The leaf path of update_json, which never reads the document, gives what
\* reading, merging and writing back would give, as long as the root holds
\* no inlined entry.
LeafUpdateMerges ==
    [][\A p \in DocPaths :
          (p = call'.path /\ call'.op = "leaf" /\ (Exists(p) => containers[p].inline = Nothing))
             => Extract(p)' = Content(Merge(Extract(p), call'.text))]_vars

\* What he_services.c:412-415 says of the leaf path: all the other nodes of the
\* document are preserved, and so it is a merge on every document.
LeafUpdatePreserves ==
    [][\A p \in DocPaths :
          (p = call'.path /\ call'.op = "leaf") => Extract(p)' = Content(Merge(Extract(p), call'.text))]_vars

\* A call changes nothing but what lies below or leads to the path it names:
\* siblings, their subtrees and their inlined values stay (he_repo.c's delete
\* ranges, he_services.c:456-465).
OnlyAddressedPathsChange ==
    [][LET p         == call'.path
           before    == Extract(Root)
           after     == Extract(Root)'
           Apart(x)  == ~IsPrefix(p, x) /\ ~IsPrefix(x, p)
       IN RestrictDomain(before, Apart) = RestrictDomain(after, Apart)]_vars

\* What libsql-store.ts:200-207 relies on: the root row of a document gets a
\* new revision whenever a call changes the document, unless the call named
\* a path strictly below it.
RevisionTracksContent ==
    [][\A q \in DocPaths :
          (Exists(q) /\ Exists(q)' /\ Extract(q)' # Extract(q) /\ ~IsStrictPrefix(q, call'.path))
             => containers'[q].rev # containers[q].rev]_vars

\* Whether the dedup of p tells the truth: the document is what was hashed.
Fresh(p) == Extract(p) = Content(hashes[p].text)

\* There is one way for the dedup to go wrong in a step.  A hash that counts
\* stops telling the truth only when a call names a path strictly below it, or
\* when an import of a text with entries inlined at its root recorded it; no
\* removal of a parent, merge, leaf update or re-created container brings a
\* hash that is out of date to count again (he_services.c:45-50).
DedupFailsOnlyFromBelow ==
    [][\A p \in DocPaths :
          (Armed(p)' /\ ~Fresh(p)') =>
             \/ Armed(p) /\ ~Fresh(p) /\ hashes'[p] = hashes[p]
             \/ IsStrictPrefix(p, call'.path)
             \/ /\ call'.op = "import" /\ call'.path = p
                /\ \E limit \in Limits : InlineEntries(call'.text, Root, limit) # Nothing]_vars

\* What a removal of q would uncover: the row without a slash, or the entry.
Hides(q) == /\ q \in DOMAIN containers
            /\ q \in DOMAIN primitives \/ InlineAt(Root, q)

Tree == INSTANCE HeTree WITH
            tree   <- Extract(Root),
            hidden <- {q \in DOMAIN containers : Hides(q)},
            spoilt <- {p \in DocPaths : Armed(p) /\ ~Fresh(p)}

\* The engine implements its promise.  The rows with and without a slash, the
\* entries inlined, the recorded hashes and the five writers together edit one
\* JSON value, each call at its path: nothing else changes, nothing comes back
\* and no set is skipped but in the cases HeTree names.
CallsEditOneTree == Tree!Spec

\* What he_services.c:49-50 and he_repo.c:256-258 say of the dedup, that it stays
\* right or is disarmed: a call that names a path below a document leaves no hash
\* of it that counted and was right counting and wrong.
DedupSurvivesWritesBelow ==
    [][\A p \in DocPaths :
          (Armed(p) /\ Fresh(p) /\ IsStrictPrefix(p, call'.path) /\ Armed(p)') => Fresh(p)']_vars

\* What he_services.c:826-830 says of import_csv: parity with rebuilding the tree
\* of the rows and flattening it, the tree whose hash it records (835).
ImportRestores ==
    [][\A p \in DocPaths :
          (p = call'.path /\ call'.op = "import") => Fresh(p)']_vars
=============================================================================
