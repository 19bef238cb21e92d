-------------------------------- MODULE HeTree --------------------------------
(***************************************************************************)
(* What the engine promises its clients: a database is one JSON value, and *)
(* a call edits it at the path it names.  HeEngine implements this.        *)
(*                                                                         *)
(* The promise has three exceptions, and says when each may happen.        *)
(*   A set may be skipped, if its text is there already, and then what was *)
(*   hidden stays; or if its path is spoilt: something was written below   *)
(*   it since its text was recorded.                                       *)
(*   A removal may bring back the value over which an object came to stand *)
(*   (hidden), and does not remove a scalar.                               *)
(*   A leaf update and an import may lose entries of the document's root   *)
(*   that have no entries themselves.                                      *)
(***************************************************************************)
EXTENDS HeDoc

CONSTANTS DocPaths, \* paths that clients pass
          Texts,    \* texts that they set or import
          Updates   \* texts that they merge

VARIABLES tree,   \* the JSON value, empty until the first write
          hidden, \* paths of objects that stand over another value
          spoilt, \* paths at which a set may be skipped
          call    \* the last call: its name, path and text

vars == <<tree, hidden, spoilt, call>>

\* The value at p, as a text.
At(p) == [x \in {Rel(p, y) : y \in {y \in DOMAIN tree : IsPrefix(p, y)}} |-> tree[p \o x]]

Without(p) == RestrictDomain(tree, LAMBDA x : ~IsPrefix(p, x))

\* The tree with the text t at p, and objects on the way to it.
Grafted(p, t) ==
    Override([x \in {p \o y : y \in DOMAIN t} |-> t[Rel(p, x)]],
             Override([x \in Ancestors(p) |-> Obj], Without(p)))

Childless(x) == x \in DOMAIN tree /\ \A y \in DOMAIN tree : ~IsStrictPrefix(x, y)

\* Scalars on the way to p and at p are hidden by what is written at p, and so
\* may empty objects be; what was hidden below p is so no more.
Hide(p, before) ==
    LET covered == {q \in Prefixes(p) \ {Root} : Childless(q)}
    IN  \E empty \in SUBSET {q \in covered : tree[q] = Obj} :
            hidden' = before \cup {q \in covered : tree[q] # Obj} \cup empty

Below(p) == {q \in hidden : IsStrictPrefix(p, q)}

\* A call at p settles p, and may spoil what is above it.
Spoil(p, rest) == spoilt' \subseteq rest \cup Ancestors(p)

Write(p, t) == /\ tree' = Grafted(p, t)
               /\ Hide(p, hidden \ Below(p))

Leaves(t) == {x \in DOMAIN t : Len(x) = 1 /\ ChildPaths(t, x) = {}}

Less(t, lost) == Restrict(t, DOMAIN t \ lost)

-----------------------------------------------------------------------------
Init == /\ tree = Nothing
        /\ hidden = {}
        /\ spoilt = {}
        /\ call = [op |-> "none", path |-> Root, text |-> Nothing]

Called(op, p, t) == call' = [op |-> op, path |-> p, text |-> t]

Set(p, t) ==
    /\ Called("set", p, t)
    /\ \/ Write(p, Content(t)) /\ Spoil(p, spoilt \ {p})
       \/ /\ p \in spoilt \/ At(p) = Content(t)
          /\ UNCHANGED <<tree, hidden, spoilt>>

Delete(p) ==
    /\ Called("remove", p, Nothing)
    /\ \/ ~(Childless(p) /\ tree[p] # Obj) /\ p \notin hidden /\ tree' = Without(p)
       \/ p \in hidden /\ \E v \in Values \cup {Obj} :
              tree' = Override([x \in {p} |-> v], Without(p))
       \/ Childless(p) /\ UNCHANGED tree
    /\ hidden' = hidden \ (Below(p) \cup {p})
    /\ Spoil(p, spoilt \ {p})

UpdateLeaf(p, u) ==
    /\ Called("leaf", p, u)
    /\ \E lost \in SUBSET Leaves(At(p)), gone \in SUBSET Below(p) :
          /\ tree' = Grafted(p, Content(Merge(Less(At(p), lost), u)))
          /\ Hide(p, hidden \ gone)
    /\ Spoil(p, spoilt \ {p})

UpdateFull(p, u) ==
    /\ Called("full", p, u)
    /\ Write(p, Content(Merge(At(p), u)))
    /\ Spoil(p, spoilt \ {p})

UpdateWildcard(p, u) ==
    /\ Called("wildcard", p, u)
    /\ Write(p, Content(Merge(At(p), EachChild(At(p), u))))
    /\ Spoil(p, spoilt \ {p})

\* An import that loses something leaves a hash of the whole.
Import(p, t) ==
    /\ Called("import", p, t)
    /\ \E lost \in SUBSET Leaves(Content(t)) :
          /\ Write(p, Less(Content(t), lost))
          /\ Spoil(p, IF lost = {} THEN spoilt \ {p} ELSE spoilt \cup {p})

Next == \E p \in DocPaths :
            \/ Delete(p)
            \/ \E t \in Texts : Set(p, t) \/ Import(p, t)
            \/ \E u \in Updates : UpdateLeaf(p, u) \/ UpdateFull(p, u) \/ UpdateWildcard(p, u)

Spec == Init /\ [][Next]_vars
=============================================================================
