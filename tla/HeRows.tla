-------------------------------- MODULE HeRows --------------------------------
(***************************************************************************)
(* The rows of one document without inner structure, as HeWriteTx writes   *)
(* them and HeAtomic promises them: a function from the entries there are  *)
(* to their values.                                                        *)
(***************************************************************************)
CONSTANTS Entries,  \* the keys of the document
          Values,
          Null      \* what an update erases an entry with

Rows   == UNION {[S -> Values] : S \in SUBSET Entries}
Update == UNION {[S -> Values \cup {Null}] : S \in SUBSET Entries}

NoRows == [e \in {} |-> Null]

\* The rows r after the update u: a null erases, anything else replaces.
Merged(r, u) ==
    [e \in {e \in DOMAIN r \cup DOMAIN u : e \in DOMAIN u => u[e] # Null} |->
        IF e \in DOMAIN u THEN u[e] ELSE r[e]]
=============================================================================
